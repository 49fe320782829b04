--------------------------- MODULE MCViewManager ---------------------------
(* Two URIs, or one, and two goroutines of the worker pool beside Handle.  *)
EXTENDS ViewManager

CONSTANTS w1, w2, a, b

(* A record that satisfies the view, and one that does not. *)
Values == {m \in MessageType : m.copies = 1 /\ ~m.empty}

(* Of URI b only a record that satisfies the view; of URI a also one that  *)
(* does not, an empty one, alone or twice, and one that is invalid.        *)
MCMessages ==
  {m \in Values : m.uri = a \/ m.matches}
    \cup {m \in MessageType : m.uri = a /\ m.matches /\ (m.empty <=> m.copies > 0)}

=============================================================================

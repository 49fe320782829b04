---------------------------- MODULE RangeRemoval ----------------------------
(***************************************************************************)
(* What a Go range loop that removes from the slice it ranges over can     *)
(* leave behind, as a relation on sets.  Module SubscriberList derives it  *)
(* from the slices, module Broker uses it.                                 *)
(***************************************************************************)
EXTENDS Naturals, FiniteSets

(* The loop sees the elements of `match' as to be removed and the others   *)
(* as to be kept.  After a removal it misses the element that moves up, so *)
(* every element left hides behind one removed, and the last element of    *)
(* the slice, which the stale tail shows once more, is never left.         *)
Leftovers(match, others) ==
  {L \in SUBSET match :
     \/ L = {}
     \/ /\ Cardinality(L) <= Cardinality(match \ L)
        /\ others # {} \/ Cardinality(L) < Cardinality(match \ L)}

=============================================================================

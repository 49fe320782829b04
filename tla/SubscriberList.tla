--------------------------- MODULE SubscriberList ---------------------------
(***************************************************************************)
(* One stream's subscriberList (archiver/cqbs.go), down to the slice: a    *)
(* backing array and a length.  Joining, leaving and the removal loop of   *)
(* reevaluateQuery hold subscribersLock; the loop of ForwardMessage holds  *)
(* it only to find the list, and then reads the array while others shift   *)
(* it in place.                                                            *)
(***************************************************************************)
EXTENDS Naturals, Sequences, SequencesExt, RangeRemoval

CONSTANTS
  Subs,       \* subscribers
  Requeried,  \* those whose query is the one that reevaluateQuery handles
  Readers,    \* goroutines that forward a message of this stream
  MaxJoins    \* bound: calls of addSubscriberToStream

ASSUME ListAssumption ==
  /\ IsFiniteSet(Subs) /\ Requeried \subseteq Subs
  /\ MaxJoins \in Nat

VARIABLES
  backing,  \* the backing array, as long as its capacity
  len,      \* length of the slice
  joins,    \* calls of addSubscriberToStream so far
  loop,     \* the removal loop: its index, the length it captured, the list it found
  fwd       \* the forwarding loops

vars == <<backing, len, joins, loop, fwd>>

List == SubSeq(backing, 1, len)

NoLoop == [i |-> 0, n |-> 0, found |-> <<>>]

(* A forwarding loop: its next index and captured length; the array it     *)
(* captured once that is no longer the list's, else <<>>; whom it served;  *)
(* and, as history, who was on the list all along, who was on it at some   *)
(* time, and how many left.                                                *)
NotForwarding ==
  [i |-> 0, n |-> 0, old |-> <<>>, served |-> {}, along |-> {}, ever |-> {}, left |-> 0]

Locked == loop.i # 0

Init ==
  /\ backing = <<>>
  /\ len = 0
  /\ joins = 0
  /\ loop = NoLoop
  /\ fwd = [r \in Readers |-> NotForwarding]

(* Capacities double: 1, 2, 4. The new slots hold nil, here any element. *)
Grown(s) == backing \o <<s>> \o [j \in 1..(IF len = 0 THEN 0 ELSE len - 1) |-> s]

Forwarding(r) == fwd[r].i # 0

addSubscriber_NoDuplicateTest(s) ==
  /\ ~Locked
  /\ joins < MaxJoins
  /\ joins' = joins + 1
  /\ len' = len + 1
  /\ backing' = IF len < Len(backing) THEN [backing EXCEPT ![len + 1] = s] ELSE Grown(s)
  /\ fwd' = [r \in Readers |->
               IF ~Forwarding(r) THEN fwd[r]
               ELSE [fwd[r] EXCEPT !.ever = @ \cup {s},
                                   !.old = IF len = Len(backing) /\ @ = <<>>
                                             THEN backing ELSE @]]
  /\ UNCHANGED loop

(* addSubscriber: append, unless the list holds the subscriber.  It writes *)
(* into the array while there is room and else moves to a larger one,      *)
(* leaving the old array to the loops that captured it.                    *)
addSubscriber(s) ==
  /\ ~Locked
  /\ joins < MaxJoins
  /\ joins' = joins + 1
  /\ IF Contains(List, s)
       THEN UNCHANGED <<backing, len, fwd>>
       ELSE /\ len' = len + 1
            /\ backing' = IF len < Len(backing) THEN [backing EXCEPT ![len + 1] = s]
                                                ELSE Grown(s)
            /\ fwd' = [r \in Readers |->
                 IF ~Forwarding(r) THEN fwd[r]
                 ELSE [fwd[r] EXCEPT !.ever = @ \cup {s},
                                     !.old = IF len = Len(backing) /\ @ = <<>>
                                               THEN backing ELSE @]]
  /\ UNCHANGED loop

Removed_ShiftFromTwo(s) ==
  LET k == CHOOSE j \in 1..len : backing[j] = s
      rest == RemoveAt(RemoveAt(List, k), 1)
  IN  rest \o SubSeq(backing, Len(rest) + 1, Len(backing))

(* Go's append of the two halves around the k-th element moves the tail    *)
(* down by one in place; the last slot keeps its old content.              *)
Removed(s) ==
  LET k == CHOOSE j \in 1..len : backing[j] = s
  IN  RemoveAt(List, k) \o SubSeq(backing, len, Len(backing))

removeSubscriber(s) ==
  IF ~Contains(List, s)
    THEN UNCHANGED <<backing, len, fwd>>
    ELSE /\ backing' = Removed(s)
         /\ len' = len - 1
         /\ fwd' = [r \in Readers |->
              IF ~Forwarding(r) THEN fwd[r]
              ELSE [fwd[r] EXCEPT !.along = @ \ {s},
                                  !.left = IF fwd[r].old = <<>> THEN @ + 1 ELSE @]]

(* Broker.removeSubscriber, for one stream. *)
Leave(s) ==
  /\ ~Locked
  /\ Contains(List, s)
  /\ removeSubscriber(s)
  /\ UNCHANGED <<joins, loop>>

-----------------------------------------------------------------------------
(* The removal loop of reevaluateQuery.                                    *)

StartRemoval ==
  /\ ~Locked
  /\ loop' = [i |-> 1, n |-> len, found |-> List]
  /\ UNCHANGED <<backing, len, joins, fwd>>

RemovalStep ==
  /\ Locked /\ loop.i <= loop.n
  /\ IF backing[loop.i] \in Requeried
       THEN removeSubscriber(backing[loop.i])
       ELSE UNCHANGED <<backing, len, fwd>>
  /\ loop' = [loop EXCEPT !.i = @ + 1]
  /\ UNCHANGED joins

EndRemoval ==
  /\ Locked /\ loop.i > loop.n
  /\ loop' = NoLoop
  /\ UNCHANGED <<backing, len, joins, fwd>>

-----------------------------------------------------------------------------
(* The loop of ForwardMessage.                                             *)

(* The list is found under subscribersLock.RLock and, if it is not empty,  *)
(* ranged over without the lock.                                           *)
StartForward(r) ==
  /\ ~Forwarding(r)
  /\ len > 0
  /\ fwd' = [fwd EXCEPT ![r] = [NotForwarding EXCEPT !.i = 1, !.n = len,
                                  !.along = ToSet(List), !.ever = ToSet(List)]]
  /\ UNCHANGED <<backing, len, joins, loop>>

ForwardStep_Twice(r) ==
  /\ Forwarding(r) /\ fwd[r].i <= fwd[r].n
  /\ LET array == IF fwd[r].old = <<>> THEN backing ELSE fwd[r].old
     IN  fwd' = [fwd EXCEPT ![r].served = @ \cup {array[fwd[r].i]}, ![r].i = @ + 2]
  /\ UNCHANGED <<backing, len, joins, loop>>

ForwardStep(r) ==
  /\ Forwarding(r) /\ fwd[r].i <= fwd[r].n
  /\ LET array == IF fwd[r].old = <<>> THEN backing ELSE fwd[r].old
     IN  fwd' = [fwd EXCEPT ![r].served = @ \cup {array[fwd[r].i]}, ![r].i = @ + 1]
  /\ UNCHANGED <<backing, len, joins, loop>>

EndForward(r) ==
  /\ Forwarding(r) /\ fwd[r].i > fwd[r].n
  /\ fwd' = [fwd EXCEPT ![r] = NotForwarding]
  /\ UNCHANGED <<backing, len, joins, loop>>

Next ==
  \/ \E s \in Subs : addSubscriber(s) \/ Leave(s)
  \/ StartRemoval \/ RemovalStep \/ EndRemoval
  \/ \E r \in Readers : StartForward(r) \/ ForwardStep(r) \/ EndForward(r)

Spec == Init /\ [][Next]_vars

-----------------------------------------------------------------------------

(* The slice lies within its array and holds no subscriber twice, whatever *)
(* the order of joins, leaves and removal loops.                           *)
ListOK ==
  /\ backing \in Seq(Subs) /\ len \in 0..Len(backing)
  /\ IsInjective(List)

(* When the loop over the list of a disqualified stream ends, the clients  *)
(* of other queries are all there, what is there has kept its order, and   *)
(* the set of clients that should have been removed but are left is one    *)
(* that Leftovers allows.                                                  *)
RemovalLeavesLeftovers ==
  Locked /\ loop.i > loop.n =>
    LET others == ToSet(loop.found) \ Requeried
    IN  /\ ToSet(List) \cap Requeried
             \in Leftovers(ToSet(loop.found) \cap Requeried, others)
        /\ others \subseteq ToSet(List)
        /\ \A j, k \in DOMAIN List : j <= k =>
             \E x, y \in DOMAIN loop.found :
               x <= y /\ loop.found[x] = List[j] /\ loop.found[y] = List[k]

Finished(r) == Forwarding(r) /\ fwd[r].i > fwd[r].n

(* A message that is being forwarded while clients join and leave reaches *)
(* all who stay but at most one for each that left, and nobody who was not *)
(* on the stream's list at some time meanwhile.                            *)
ServesTheListed ==
  \A r \in Readers :
    /\ Finished(r) => Cardinality(fwd[r].along \ fwd[r].served) <= fwd[r].left
    /\ fwd[r].served \subseteq fwd[r].ever

(* cqbs.go:335 "finds all clients subscribed to the uuid for this          *)
(* message": whoever is on the list all along is served.                   *)
AllListedServed ==
  \A r \in Readers : Finished(r) => fwd[r].along \subseteq fwd[r].served

=============================================================================

------------------------ MODULE SubscriberListProofs ------------------------
(***************************************************************************)
(* A stream's list of subscribers under its loops, for lists of any length *)
(* and any number of clients and forwarding goroutines.                    *)
(***************************************************************************)
EXTENDS SubscriberList, SequenceTheorems, FiniteSetTheorems, TLAPS

ForwardLoop ==
  [i : Nat, n : Nat, old : Seq(Subs), served : SUBSET Subs, along : SUBSET Subs,
   ever : SUBSET Subs, left : Nat]

Types ==
  /\ backing \in Seq(Subs) /\ len \in 0..Len(backing)
  /\ \A j, k \in 1..len : backing[j] = backing[k] => j = k
  /\ loop \in [i : Nat, n : Nat, found : Seq(Subs)]
  /\ fwd \in [Readers -> ForwardLoop]

(* The removal loop.  What is listed was found, in that order, and others  *)
(* stay.  The slots behind the list, and the last of it as long as the     *)
(* loop has not passed the end, show the last element that was found; so   *)
(* the loop comes to that element even if it skipped it.                   *)
Found(x) == loop.found[x]

Ordered ==
  \A j, k \in 1..len : j <= k =>
    \E x, y \in 1..loop.n : x <= y /\ Found(x) = backing[j] /\ Found(y) = backing[k]

OthersStay ==
  \A x \in 1..loop.n : Found(x) \notin Requeried => \E j \in 1..len : backing[j] = Found(x)

LastShows ==
  /\ \A j \in 1..loop.n : j > len => backing[j] = Found(loop.n)
  /\ \A j \in 1..len : backing[j] = Found(loop.n) => j = len
  /\ loop.i <= len => backing[len] = Found(loop.n)

LastIsRemoved ==
  loop.i > loop.n /\ loop.n > 0 /\ Found(loop.n) \in Requeried =>
    \A j \in 1..len : backing[j] # Found(loop.n)

(* Whoever the loop has passed although it should have been removed hides  *)
(* behind one that was; the last element hides nobody.                     *)
Passed == {backing[j] : j \in {k \in 1..len : k < loop.i}} \cap Requeried

Gone == {Found(x) : x \in 1..loop.n} \ {backing[j] : j \in 1..len}

Hidden ==
  /\ Cardinality(Passed) <= Cardinality(Gone)
  /\ loop.n > 0 /\ Found(loop.n) \in Gone => Cardinality(Passed) < Cardinality(Gone)

LoopOK ==
  Locked =>
    /\ loop.i \in 1..loop.n + 1 /\ len <= loop.n /\ loop.n <= Len(backing)
    /\ Len(loop.found) = loop.n
    /\ Ordered /\ OthersStay /\ LastShows /\ LastIsRemoved /\ Hidden

(* A forwarding loop.  Of those who were on the list all along it has      *)
(* served, or will find at the positions it has still to come to, all but  *)
(* one for each that left.  Of the list's own array it will find what lies *)
(* within the list, since a stale slot may be written to before.           *)
Array(r) == IF fwd[r].old = <<>> THEN backing ELSE fwd[r].old

Ahead(r) == {Array(r)[j] : j \in {k \in fwd[r].i..fwd[r].n : fwd[r].old = <<>> => k <= len}}

Missed(r) == (fwd[r].along \ fwd[r].served) \ Ahead(r)

ReaderOK(r) ==
  /\ fwd[r].served \subseteq fwd[r].ever
  /\ Forwarding(r) =>
       /\ fwd[r].i \in 1..fwd[r].n + 1 /\ fwd[r].n > 0 /\ fwd[r].n <= Len(Array(r))
       /\ \A j \in 1..fwd[r].n : Array(r)[j] \in fwd[r].ever
       /\ fwd[r].old = <<>> => \A j \in 1..len : backing[j] \in fwd[r].ever
       /\ Cardinality(Missed(r)) <= fwd[r].left

Inv == Types /\ LoopOK /\ \A r \in Readers : ReaderOK(r)

-----------------------------------------------------------------------------
(* Slices and sets.                                                        *)

LEMMA ListFacts ==
  ASSUME Types
  PROVE  /\ List \in Seq(Subs) /\ Len(List) = len /\ DOMAIN List = 1..len
         /\ \A j \in 1..len : List[j] = backing[j]
         /\ \A s : Contains(List, s) <=> \E j \in 1..len : backing[j] = s
         /\ ToSet(List) = {backing[j] : j \in 1..len}
<1>1. backing \in Seq(Subs) /\ 1 \in Nat /\ len \in Nat /\ len <= Len(backing)
  BY LenProperties DEF Types
<1>2. /\ List \in Seq(Subs) /\ Len(List) = len
      /\ \A j \in 1..len : List[j] = backing[j]
  <2>1. CASE len = 0
    BY <1>1, <2>1, SubSeqProperties DEF List
  <2>2. CASE len > 0
    <3>1. \A j \in 1..len : j \in 1..Len(backing)
      BY <1>1
    <3> QED
      BY <1>1, <2>2, <3>1, SubSeqProperties DEF List
  <2> QED
    BY <1>1, <2>1, <2>2
<1>3. DOMAIN List = 1..len
  BY <1>2, LenProperties
<1> QED
  BY <1>2, <1>3 DEF Contains, ToSet

(* A removal shifts what lies behind the k-th element of the list.         *)
Shift(k) ==
  /\ k \in 1..len
  /\ backing' \in Seq(Subs) /\ Len(backing') = Len(backing) /\ len' = len - 1
  /\ \A j \in 1..Len(backing) :
       backing'[j] = IF j < k \/ j >= len THEN backing[j] ELSE backing[j + 1]

LEMMA RemovedAt ==
  ASSUME Types, NEW k \in 1..len
  PROVE  LET new == RemoveAt(List, k) \o SubSeq(backing, len, Len(backing))
         IN  /\ new \in Seq(Subs) /\ Len(new) = Len(backing)
             /\ \A j \in 1..Len(backing) :
                  new[j] = IF j < k \/ j >= len THEN backing[j] ELSE backing[j + 1]
<1> DEFINE front == SubSeq(List, 1, k - 1)
           rear  == SubSeq(List, k + 1, Len(List))
           tail  == SubSeq(backing, len, Len(backing))
           size  == Len(backing)
<1>1. /\ size \in Nat /\ len \in 1..size /\ k \in 1..len /\ backing \in Seq(Subs)
      /\ List \in Seq(Subs) /\ Len(List) = len
      /\ \A j \in 1..len : List[j] = backing[j]
  BY ListFacts, LenProperties DEF Types
<1> HIDE DEF size
<1>2. front \in Seq(Subs) /\ Len(front) = k - 1 /\ \A j \in 1..k - 1 : front[j] = backing[j]
  BY <1>1, SubSeqProperties
<1>3. rear \in Seq(Subs) /\ Len(rear) = len - k /\ \A j \in 1..len - k : rear[j] = backing[k + j]
  BY <1>1, SubSeqProperties
<1>4. tail \in Seq(Subs) /\ Len(tail) = size - len + 1
      /\ \A j \in 1..size - len + 1 : tail[j] = backing[len + j - 1]
  BY <1>1, SubSeqProperties DEF size
<1>5. /\ front \o rear \in Seq(Subs) /\ Len(front \o rear) = len - 1
      /\ \A j \in 1..len - 1 : (front \o rear)[j] = IF j < k THEN backing[j] ELSE backing[j + 1]
  <2> HIDE DEF front, rear
  <2>0. /\ front \o rear \in Seq(Subs) /\ Len(front \o rear) = Len(front) + Len(rear)
        /\ \A j \in 1..Len(front) + Len(rear) :
             (front \o rear)[j] = IF j <= Len(front) THEN front[j] ELSE rear[j - Len(front)]
    BY <1>2, <1>3, ConcatProperties
  <2>1. /\ front \o rear \in Seq(Subs) /\ Len(front \o rear) = len - 1
        /\ \A j \in 1..len - 1 : (front \o rear)[j] = IF j <= k - 1 THEN front[j] ELSE rear[j - (k - 1)]
    BY <1>1, <1>2, <1>3, <2>0
  <2> SUFFICES ASSUME NEW j \in 1..len - 1
               PROVE  (front \o rear)[j] = IF j < k THEN backing[j] ELSE backing[j + 1]
    BY <2>1
  <2>2. CASE j < k
    BY <1>1, <1>2, <2>1, <2>2
  <2>3. CASE ~(j < k)
    <3>1. j - (k - 1) \in 1..len - k /\ k + (j - (k - 1)) = j + 1
      BY <1>1, <2>3
    <3> QED
      BY <1>1, <1>3, <2>1, <2>3, <3>1
  <2> QED
    BY <2>2, <2>3
<1> DEFINE both == front \o rear
           new == both \o tail
<1>8. /\ both \in Seq(Subs) /\ Len(both) = len - 1
      /\ \A j \in 1..len - 1 : both[j] = IF j < k THEN backing[j] ELSE backing[j + 1]
  BY <1>5
<1>6. /\ new \in Seq(Subs) /\ Len(new) = size
      /\ \A j \in 1..size : new[j] = IF j <= len - 1 THEN both[j] ELSE tail[j - (len - 1)]
  <2> HIDE DEF both, tail
  <2>1. /\ new \in Seq(Subs) /\ Len(new) = Len(both) + Len(tail)
        /\ \A j \in 1..Len(both) + Len(tail) :
             new[j] = IF j <= Len(both) THEN both[j] ELSE tail[j - Len(both)]
    BY <1>4, <1>8, ConcatProperties
  <2>2. Len(both) = len - 1 /\ Len(both) + Len(tail) = size
    BY <1>1, <1>4, <1>8
  <2> HIDE DEF new
  <2> QED
    BY <2>1, <2>2
<1>7. ASSUME NEW j \in 1..size
      PROVE  new[j] = IF j < k \/ j >= len THEN backing[j] ELSE backing[j + 1]
  <2> HIDE DEF new, both, tail
  <2>0. new[j] = IF j <= len - 1 THEN both[j] ELSE tail[j - (len - 1)]
    BY <1>6
  <2>1. CASE j <= len - 1
    <3>1. j \in 1..len - 1 /\ ~(j >= len)
      BY <1>1, <2>1
    <3>2. both[j] = IF j < k THEN backing[j] ELSE backing[j + 1]
      BY <1>8, <3>1
    <3> QED
      BY <2>0, <2>1, <3>1, <3>2
  <2>2. CASE ~(j <= len - 1)
    <3>1. j - (len - 1) \in 1..size - len + 1 /\ len + (j - (len - 1)) - 1 = j
      BY <1>1, <2>2
    <3>2. tail[j - (len - 1)] = backing[j] /\ j >= len
      BY <1>1, <1>4, <2>2, <3>1
    <3> QED
      BY <2>0, <2>2, <3>2
  <2> QED
    BY <2>1, <2>2
<1> QED
  BY <1>6, <1>7 DEF RemoveAt, size

(* removeSubscriber of a subscriber who is listed. *)
LEMMA RemovesAt ==
  ASSUME Types, NEW s, Contains(List, s), removeSubscriber(s)
  PROVE  \E k \in 1..len : backing[k] = s /\ Shift(k)
<1> DEFINE k == CHOOSE j \in 1..len : backing[j] = s
<1>1. k \in 1..len /\ backing[k] = s
  BY ListFacts
<1>2. backing' = RemoveAt(List, k) \o SubSeq(backing, len, Len(backing)) /\ len' = len - 1
  BY DEF removeSubscriber, Removed
<1> HIDE DEF k
<1> QED
  BY <1>1, <1>2, RemovedAt DEF Shift

LEMMA AtMostOneMore ==
  ASSUME NEW S, IsFiniteSet(S), NEW x, NEW T, T \subseteq S \cup {x}
  PROVE  /\ IsFiniteSet(T) /\ Cardinality(T) <= Cardinality(S) + 1
         /\ Cardinality(S) \in Nat /\ Cardinality(T) \in Nat
<1>0. Cardinality(S) \in Nat
  BY FS_CardinalityType
<1>1. IsFiniteSet(S \cup {x}) /\ Cardinality(S \cup {x}) <= Cardinality(S) + 1
  BY <1>0, FS_AddElement
<1>2. IsFiniteSet(T) /\ Cardinality(T) <= Cardinality(S \cup {x})
  BY <1>1, FS_Subset
<1> QED
  BY <1>1, <1>2, FS_CardinalityType

LEMMA NoMore ==
  ASSUME NEW S, IsFiniteSet(S), NEW T, T \subseteq S
  PROVE  /\ IsFiniteSet(T) /\ Cardinality(T) <= Cardinality(S)
         /\ Cardinality(S) \in Nat /\ Cardinality(T) \in Nat
BY FS_Subset, FS_CardinalityType

LEMMA OneMore ==
  ASSUME NEW S, IsFiniteSet(S), NEW x, x \notin S
  PROVE  Cardinality(S \cup {x}) = Cardinality(S) + 1
BY FS_AddElement

-----------------------------------------------------------------------------
(* Removing from the list.                                                 *)

(* A subscriber stands on a list once, so a removal leaves none of it.     *)
LEMMA ShiftTypes ==
  ASSUME Types, NEW k, Shift(k)
  PROVE  /\ len' \in 0..Len(backing') /\ len \in Nat
         /\ \A j, l \in 1..len' : backing'[j] = backing'[l] => j = l
         /\ \A j \in 1..len' : backing'[j] # backing[k]
         /\ \A j \in 1..len' : backing'[j] = IF j < k THEN backing[j] ELSE backing[j + 1]
<1>1. /\ Len(backing) \in Nat /\ len \in 1..Len(backing) /\ k \in 1..len
      /\ \A j, l \in 1..len : backing[j] = backing[l] => j = l
  BY LenProperties DEF Types, Shift
<1>2. len' = len - 1 /\ Len(backing') = Len(backing)
  BY DEF Shift
<1>3. \A j \in 1..len' : backing'[j] = IF j < k THEN backing[j] ELSE backing[j + 1]
  BY <1>1, <1>2 DEF Shift
<1>4. \A j, l \in 1..len' : backing'[j] = backing'[l] => j = l
  <2> SUFFICES ASSUME NEW j \in 1..len', NEW l \in 1..len', backing'[j] = backing'[l] PROVE j = l
    OBVIOUS
  <2> DEFINE p(x) == IF x < k THEN x ELSE x + 1
  <2>1. backing[p(j)] = backing[p(l)] /\ p(j) \in 1..len /\ p(l) \in 1..len
    BY <1>1, <1>2, <1>3
  <2>2. p(j) = p(l)
    BY <1>1, <2>1
  <2> QED
    BY <1>1, <1>2, <2>2
<1>5. \A j \in 1..len' : backing'[j] # backing[k]
  <2> SUFFICES ASSUME NEW j \in 1..len' PROVE backing'[j] # backing[k]
    OBVIOUS
  <2>1. CASE j < k
    BY <1>1, <1>2, <1>3, <2>1
  <2>2. CASE ~(j < k)
    <3>1. j + 1 \in 1..len /\ j + 1 # k
      BY <1>1, <1>2, <2>2
    <3> QED
      BY <1>1, <1>3, <2>2, <3>1
  <2> QED
    BY <2>1, <2>2
<1> QED
  BY <1>1, <1>2, <1>3, <1>4, <1>5

(* Who was listed is, unless removed, at its position or the one before.   *)
LEMMA ShiftFinds ==
  ASSUME Types, NEW k, Shift(k), NEW j \in 1..len, j # k
  PROVE  LET l == IF j < k THEN j ELSE j - 1 IN l \in 1..len' /\ backing'[l] = backing[j]
<1>1. k \in 1..len /\ len \in Nat /\ len' = len - 1
  BY ShiftTypes DEF Shift
<1>2. CASE j < k
  <2>1. j \in 1..len'
    BY <1>1, <1>2
  <2> QED
    BY <1>2, <2>1, ShiftTypes
<1>3. CASE ~(j < k)
  <2>1. j - 1 \in 1..len' /\ ~(j - 1 < k) /\ (j - 1) + 1 = j
    BY <1>1, <1>3
  <2>2. backing'[j - 1] = backing[(j - 1) + 1]
    BY <2>1, ShiftTypes
  <2> QED
    BY <1>3, <2>1, <2>2
<1> QED
  BY <1>2, <1>3

(* What a removal does to the forwarding loops. *)
Departs(s) ==
  fwd' = [r \in Readers |->
            IF ~Forwarding(r) THEN fwd[r]
            ELSE [fwd[r] EXCEPT !.along = @ \ {s},
                                !.left = IF fwd[r].old = <<>> THEN @ + 1 ELSE @]]

LEMMA DepartTypes ==
  ASSUME Types, NEW s, Departs(s)
  PROVE  fwd' \in [Readers -> ForwardLoop]
<1> SUFFICES ASSUME NEW r \in Readers PROVE fwd'[r] \in ForwardLoop
  BY DEF Departs
<1> DEFINE f == fwd[r]
<1>1. f \in ForwardLoop
  BY DEF Types
<1>2. fwd'[r] = f \/ fwd'[r] = [f EXCEPT !.along = @ \ {s},
                                        !.left = IF f.old = <<>> THEN @ + 1 ELSE @]
  BY DEF Departs
<1> HIDE DEF f
<1>3. f.along \ {s} \in SUBSET Subs /\ (IF f.old = <<>> THEN f.left + 1 ELSE f.left) \in Nat
  BY <1>1 DEF ForwardLoop
<1> QED
  BY <1>1, <1>2, <1>3 DEF ForwardLoop

LEMMA DepartReader ==
  ASSUME ListAssumption, Types, NEW k, Shift(k), Departs(backing[k]),
         NEW r \in Readers, ReaderOK(r)
  PROVE  ReaderOK(r)'
<1>0. ~Forwarding(r)' => fwd'[r] = fwd[r]
  BY DEF Types, Departs, Forwarding, ForwardLoop
<1> SUFFICES ASSUME Forwarding(r)' PROVE ReaderOK(r)'
  BY <1>0 DEF ReaderOK
<1> DEFINE f == fwd[r]
           s == backing[k]
<1>1. /\ f \in ForwardLoop /\ Forwarding(r)
      /\ fwd'[r] = [f EXCEPT !.along = @ \ {s}, !.left = IF f.old = <<>> THEN @ + 1 ELSE @]
  BY DEF Types, Departs, Forwarding
<1>2. /\ fwd'[r].i = f.i /\ fwd'[r].n = f.n /\ fwd'[r].old = f.old /\ fwd'[r].served = f.served
      /\ fwd'[r].ever = f.ever /\ fwd'[r].along = f.along \ {s}
      /\ fwd'[r].left = IF f.old = <<>> THEN f.left + 1 ELSE f.left
  BY <1>1 DEF ForwardLoop
<1>3. /\ f.i \in 1..f.n + 1 /\ f.n > 0 /\ f.n <= Len(Array(r)) /\ f.i \in Nat /\ f.n \in Nat
      /\ f.left \in Nat
      /\ \A j \in 1..f.n : Array(r)[j] \in f.ever
      /\ f.old = <<>> => \A j \in 1..len : backing[j] \in f.ever
      /\ f.served \subseteq f.ever
      /\ Cardinality(Missed(r)) <= f.left
  BY <1>1 DEF ReaderOK, ForwardLoop
<1>4. IsFiniteSet(Missed(r))
  <2>1. Missed(r) \subseteq Subs
    BY <1>1 DEF Missed, ForwardLoop
  <2> QED
    BY <2>1, FS_Subset, ListAssumption
<1>5. len \in Nat /\ k \in 1..len /\ len' = len - 1
  BY ShiftTypes DEF Shift
<1> HIDE DEF f, s
<1>6. CASE f.old # <<>>
  <2>1. Array(r)' = Array(r) /\ Ahead(r)' = Ahead(r)
    BY <1>2, <1>6 DEF Array, Ahead, f
  <2>2. Missed(r)' \subseteq Missed(r)
    BY <1>2, <2>1 DEF Missed, f
  <2>3. Cardinality(Missed(r)') <= fwd'[r].left
    BY <1>2, <1>3, <1>4, <1>6, <2>2, NoMore
  <2> QED
    BY <1>2, <1>3, <1>6, <2>1, <2>3 DEF ReaderOK, f
<1>7. CASE f.old = <<>>
  <2>1. Array(r) = backing /\ Array(r)' = backing' /\ Len(backing) \in Nat
    BY <1>2, <1>7, LenProperties DEF Array, f, Types
  <2>2. \A j \in 1..len' : backing'[j] \in f.ever
    <3> SUFFICES ASSUME NEW j \in 1..len' PROVE backing'[j] \in f.ever
      OBVIOUS
    <3>1. j \in 1..len /\ j + 1 \in 1..len
      BY <1>5
    <3> QED
      BY <1>3, <1>7, <3>1, ShiftTypes
  <2>3. \A j \in 1..f.n : backing'[j] \in f.ever
    <3> SUFFICES ASSUME NEW j \in 1..f.n PROVE backing'[j] \in f.ever
      OBVIOUS
    <3>1. CASE j \in 1..len'
      BY <2>2, <3>1
    <3>2. CASE j \notin 1..len'
      <4>1. j \in 1..Len(backing) /\ j >= len
        BY <1>3, <1>5, <2>1, <3>2
      <4>2. backing'[j] = backing[j]
        BY <4>1 DEF Shift
      <4> QED
        BY <1>3, <2>1, <4>2
    <3> QED
      BY <3>1, <3>2
  <2>4. Missed(r)' \subseteq Missed(r) \cup {backing[f.i]}
    <3> SUFFICES ASSUME NEW x \in Missed(r)', x \notin Missed(r) PROVE x = backing[f.i]
      OBVIOUS
    <3>1. x \in f.along \ f.served /\ x # s /\ x \notin Ahead(r)'
      BY <1>2 DEF Missed, f
    <3>2. PICK j \in f.i..f.n : j <= len /\ x = backing[j]
      <4>1. x \in Ahead(r)
        BY <3>1 DEF Missed, f
      <4> QED
        BY <1>7, <2>1, <4>1 DEF Ahead, f
    <3>3. j \in 1..len /\ j # k
      BY <1>3, <1>5, <3>1, <3>2 DEF s
    <3> DEFINE l == IF j < k THEN j ELSE j - 1
    <3>4. l \in 1..len' /\ backing'[l] = x
      BY <3>2, <3>3, ShiftFinds
    <3>5. l \notin f.i..f.n
      <4>1. Ahead(r)' = {backing'[m] : m \in {q \in f.i..f.n : q <= len'}}
        BY <1>2, <1>7, <2>1 DEF Ahead, f
      <4>2. l <= len'
        BY <1>5, <3>4
      <4> HIDE DEF l
      <4> QED
        BY <3>1, <3>4, <4>1, <4>2
    <3>6. j = f.i
      BY <1>3, <1>5, <3>2, <3>3, <3>5
    <3> QED
      BY <3>2, <3>6
  <2>5. Cardinality(Missed(r)') <= fwd'[r].left
    <3>1. /\ Cardinality(Missed(r)') <= Cardinality(Missed(r)) + 1
          /\ Cardinality(Missed(r)) \in Nat /\ Cardinality(Missed(r)') \in Nat
      BY <1>4, <2>4, AtMostOneMore
    <3> QED
      BY <1>2, <1>3, <1>7, <3>1
  <2>6. f.n <= Len(Array(r)')
    BY <1>3, <2>1 DEF Shift
  <2> QED
    BY <1>2, <1>3, <2>1, <2>2, <2>3, <2>5, <2>6 DEF ReaderOK
<1> QED
  BY <1>6, <1>7

(* A removal keeps types and forwarding loops. *)
LEMMA Removal ==
  ASSUME ListAssumption, Types, \A r \in Readers : ReaderOK(r), NEW k, Shift(k),
         Departs(backing[k]), loop' \in [i : Nat, n : Nat, found : Seq(Subs)]
  PROVE  Types' /\ \A r \in Readers : ReaderOK(r)'
<1>1. Types'
  BY ShiftTypes, DepartTypes DEF Types, Shift
<1>2. \A r \in Readers : ReaderOK(r)'
  BY DepartReader
<1> QED
  BY <1>1, <1>2

LEMMA Removes ==
  ASSUME Types, NEW s, Contains(List, s), removeSubscriber(s)
  PROVE  \E k \in 1..len : backing[k] = s /\ Shift(k) /\ Departs(backing[k])
<1>1. Departs(s)
  BY DEF removeSubscriber, Departs
<1> QED
  BY <1>1, RemovesAt

LEMMA LeaveStep ==
  ASSUME ListAssumption, Inv, NEW s \in Subs, Leave(s)
  PROVE  Inv'
<1>1. PICK k \in 1..len : backing[k] = s /\ Shift(k) /\ Departs(backing[k])
  BY Removes DEF Leave, Inv
<1>2. loop' = loop /\ ~Locked
  BY DEF Leave
<1>3. Types' /\ \A r \in Readers : ReaderOK(r)'
  BY <1>1, <1>2, Removal DEF Inv, Types
<1>4. LoopOK'
  BY <1>2 DEF LoopOK, Locked
<1> QED
  BY <1>3, <1>4 DEF Inv

-----------------------------------------------------------------------------
(* Joining.                                                                *)

(* What a new subscriber does to the list: it stands behind the last, in   *)
(* the same array or in a larger one.                                      *)
LEMMA Joins ==
  ASSUME Types, NEW s \in Subs, addSubscriber(s), ~Contains(List, s)
  PROVE  /\ backing' \in Seq(Subs) /\ len' = len + 1 /\ len' \in 0..Len(backing')
         /\ Len(backing) <= Len(backing')
         /\ \A j \in 1..Len(backing) : j # len + 1 => backing'[j] = backing[j]
         /\ backing'[len + 1] = s
<1> DEFINE size == Len(backing)
           new  == [j \in 1..(IF len = 0 THEN 0 ELSE len - 1) |-> s]
<1>0. /\ len' = len + 1
      /\ backing' = IF len < Len(backing) THEN [backing EXCEPT ![len + 1] = s] ELSE Grown(s)
  BY Zenon DEF addSubscriber
<1>1. backing \in Seq(Subs) /\ size \in Nat /\ len \in 0..size /\ len' = len + 1
  BY <1>0, LenProperties DEF Types
<1>2. CASE len < size
  <2>1. backing' = [backing EXCEPT ![len + 1] = s] /\ len + 1 \in 1..size
    BY <1>0, <1>1, <1>2
  <2>2. backing' \in Seq(Subs) /\ Len(backing') = size
    BY <1>1, <2>1, ExceptSeq
  <2>3. DOMAIN backing = 1..size
    BY <1>1, LenProperties
  <2> QED
    BY <1>1, <2>1, <2>2, <2>3
<1>3. CASE ~(len < size)
  <2>1. backing' = backing \o <<s>> \o new /\ len = size
    BY <1>0, <1>1, <1>3 DEF Grown
  <2>2. new \in Seq(Subs) /\ Len(new) \in Nat
    BY <1>1, IsASeq, LenProperties
  <2>3. <<s>> \in Seq(Subs) /\ Len(<<s>>) = 1 /\ <<s>>[1] = s
    OBVIOUS
  <2> HIDE DEF new, size
  <2>4. /\ backing \o <<s>> \in Seq(Subs) /\ Len(backing \o <<s>>) = Len(backing) + Len(<<s>>)
        /\ \A j \in 1..Len(backing) + Len(<<s>>) :
             (backing \o <<s>>)[j] = IF j <= Len(backing) THEN backing[j] ELSE <<s>>[j - Len(backing)]
    BY <1>1, <2>3, ConcatProperties
  <2> DEFINE one == backing \o <<s>>
  <2>5. /\ one \in Seq(Subs) /\ Len(one) = size + 1
        /\ \A j \in 1..size : one[j] = backing[j]
        /\ one[size + 1] = s
    BY <1>1, <2>3, <2>4 DEF size
  <2>6. backing' = one \o new
    BY <2>1
  <2> HIDE DEF one
  <2>7. /\ backing' \in Seq(Subs) /\ Len(backing') = Len(one) + Len(new)
        /\ \A j \in 1..Len(one) + Len(new) :
             backing'[j] = IF j <= Len(one) THEN one[j] ELSE new[j - Len(one)]
    BY <2>2, <2>5, <2>6, ConcatProperties
  <2>8. \A j \in 1..size + 1 : backing'[j] = one[j]
    BY <1>1, <2>2, <2>5, <2>7
  <2> QED
    BY <1>1, <2>1, <2>2, <2>5, <2>7, <2>8 DEF size
<1> QED
  BY <1>2, <1>3

LEMMA JoinReader ==
  ASSUME ListAssumption, Types, NEW s \in Subs, addSubscriber(s), ~Contains(List, s),
         NEW r \in Readers, ReaderOK(r)
  PROVE  fwd'[r] \in ForwardLoop /\ ReaderOK(r)'
<1> DEFINE f == fwd[r]
           full == len = Len(backing)
<1>0. /\ f \in ForwardLoop /\ backing \in Seq(Subs) /\ len \in Nat /\ Len(backing) \in Nat
      /\ len <= Len(backing)
  BY LenProperties DEF Types
<1>1. fwd'[r] = IF ~Forwarding(r) THEN f
                ELSE [f EXCEPT !.ever = @ \cup {s},
                               !.old = IF full /\ @ = <<>> THEN backing ELSE @]
  BY DEF addSubscriber
<1> HIDE DEF f, full
<1>2. fwd'[r] \in ForwardLoop
  <2>1. f.ever \cup {s} \in SUBSET Subs /\ (IF full /\ f.old = <<>> THEN backing ELSE f.old) \in Seq(Subs)
    BY <1>0 DEF ForwardLoop
  <2> QED
    BY <1>0, <1>1, <2>1 DEF ForwardLoop
<1>3. ASSUME Forwarding(r)' PROVE ReaderOK(r)'
  <2>1. Forwarding(r)
    BY <1>1, <1>3 DEF Forwarding, f
  <2>2. /\ fwd'[r].i = f.i /\ fwd'[r].n = f.n /\ fwd'[r].served = f.served
        /\ fwd'[r].along = f.along /\ fwd'[r].left = f.left /\ fwd'[r].ever = f.ever \cup {s}
        /\ fwd'[r].old = IF full /\ f.old = <<>> THEN backing ELSE f.old
    BY <1>0, <1>1, <2>1 DEF ForwardLoop
  <2>3. /\ f.i \in 1..f.n + 1 /\ f.n > 0 /\ f.n <= Len(Array(r)) /\ f.i \in Nat /\ f.n \in Nat
        /\ f.left \in Nat
        /\ \A j \in 1..f.n : Array(r)[j] \in f.ever
        /\ f.old = <<>> => \A j \in 1..len : backing[j] \in f.ever
        /\ f.served \subseteq f.ever
        /\ Cardinality(Missed(r)) <= f.left
    BY <1>0, <2>1 DEF ReaderOK, ForwardLoop, f
  <2>4. IsFiniteSet(Missed(r))
    <3>1. Missed(r) \subseteq Subs
      BY <1>0 DEF Missed, ForwardLoop, f
    <3> QED
      BY <3>1, FS_Subset, ListAssumption
  <2>5. /\ len' = len + 1 /\ Len(backing) <= Len(backing') /\ backing'[len + 1] = s
        /\ \A j \in 1..Len(backing) : j # len + 1 => backing'[j] = backing[j]
        /\ Len(backing') \in Nat
    BY Joins, LenProperties
  <2>6. /\ f.n <= Len(Array(r)')
        /\ \A j \in 1..f.n : Array(r)'[j] \in fwd'[r].ever
        /\ fwd'[r].old = <<>> => \A j \in 1..len' : backing'[j] \in fwd'[r].ever
        /\ Ahead(r) \subseteq Ahead(r)'
    <3>1. CASE f.old # <<>>
      <4>1. fwd'[r].old = f.old /\ Array(r)' = Array(r) /\ Ahead(r)' = Ahead(r)
        BY <2>2, <3>1 DEF Array, Ahead, f
      <4> QED
        BY <2>2, <2>3, <3>1, <4>1
    <3>2. CASE f.old = <<>> /\ full
      <4>1. Array(r) = backing /\ Len(backing) > 0
        BY <1>0, <2>3, <3>2 DEF Array, f
      <4>2. fwd'[r].old = backing /\ backing # <<>>
        BY <2>2, <3>2, <4>1
      <4>3. Array(r)' = backing
        BY <4>2 DEF Array
      <4>4. Ahead(r) \subseteq Ahead(r)'
        BY <2>2, <4>1, <4>2, <4>3 DEF Ahead, f
      <4> QED
        BY <2>2, <2>3, <4>1, <4>2, <4>3, <4>4
    <3>3. CASE f.old = <<>> /\ ~full
      <4>1. Array(r) = backing /\ fwd'[r].old = <<>> /\ Array(r)' = backing'
        BY <2>2, <3>3 DEF Array, f
      <4>2. \A j \in 1..Len(backing) : backing'[j] = backing[j] \/ backing'[j] = s
        <5> SUFFICES ASSUME NEW j \in 1..Len(backing) PROVE backing'[j] = backing[j] \/ backing'[j] = s
          OBVIOUS
        <5>1. CASE j = len + 1
          BY <2>5, <5>1
        <5>2. CASE j # len + 1
          BY <2>5, <5>2
        <5> QED
          BY <5>1, <5>2
      <4>3. \A j \in 1..len' : backing'[j] \in f.ever \cup {s}
        BY <1>0, <2>3, <2>5, <3>3 DEF full
      <4>4. \A j \in 1..f.n : backing'[j] \in f.ever \cup {s}
        BY <2>3, <4>1, <4>2
      <4>5. Ahead(r) \subseteq Ahead(r)'
        <5>1. Ahead(r) = {backing[j] : j \in {k \in f.i..f.n : k <= len}}
          BY <3>3, <4>1 DEF Ahead, f
        <5>2. Ahead(r)' = {backing'[j] : j \in {k \in f.i..f.n : k <= len + 1}}
          BY <2>2, <2>5, <4>1 DEF Ahead
        <5>3. \A k \in f.i..f.n : k <= len => k <= len + 1 /\ backing'[k] = backing[k]
          BY <1>0, <2>3, <2>5
        <5> QED
          BY <5>1, <5>2, <5>3
      <4> QED
        BY <2>2, <2>3, <2>5, <4>1, <4>3, <4>4, <4>5
    <3> QED
      BY <3>1, <3>2, <3>3
  <2>7. Missed(r)' \subseteq Missed(r)
    BY <2>2, <2>6 DEF Missed, f
  <2>8. Cardinality(Missed(r)') <= fwd'[r].left
    <3>1. /\ Cardinality(Missed(r)') <= Cardinality(Missed(r))
          /\ Cardinality(Missed(r)) \in Nat /\ Cardinality(Missed(r)') \in Nat
      BY <2>4, <2>7, NoMore
    <3> QED
      BY <2>2, <2>3, <3>1
  <2> QED
    BY <2>2, <2>3, <2>6, <2>8 DEF ReaderOK
<1>4. ASSUME ~Forwarding(r)' PROVE ReaderOK(r)'
  <2>1. ~Forwarding(r)
    BY <1>0, <1>1, <1>4 DEF Forwarding, ForwardLoop, f
  <2>2. fwd'[r] = fwd[r]
    BY <1>1, <2>1 DEF f
  <2> QED
    BY <1>4, <2>2 DEF ReaderOK
<1> QED
  BY <1>2, <1>3, <1>4

LEMMA AddStep ==
  ASSUME ListAssumption, Inv, NEW s \in Subs, addSubscriber(s)
  PROVE  Inv'
<1>1. ~Locked /\ loop' = loop
  BY DEF addSubscriber
<1>2. LoopOK'
  BY <1>1 DEF LoopOK, Locked
<1>3. CASE Contains(List, s)
  <2>1. UNCHANGED <<backing, len, fwd>>
    BY <1>3 DEF addSubscriber
  <2>2. Types'
    BY <1>1, <2>1 DEF Inv, Types
  <2>3. \A r \in Readers : ReaderOK(r)'
    BY <2>1 DEF Inv, ReaderOK, Missed, Ahead, Array, Forwarding
  <2> QED
    BY <1>2, <2>2, <2>3 DEF Inv
<1>4. CASE ~Contains(List, s)
  <2>0. Types
    BY DEF Inv
  <2>1. \A r \in Readers : fwd'[r] \in ForwardLoop /\ ReaderOK(r)'
    BY <1>4, JoinReader DEF Inv
  <2>2. fwd' \in [Readers -> ForwardLoop]
    <3>1. DOMAIN fwd' = Readers /\ fwd' = [r \in Readers |-> fwd'[r]]
      BY <1>4 DEF addSubscriber
    <3> QED
      BY <2>1, <3>1
  <2>3. \A j, k \in 1..len' : backing'[j] = backing'[k] => j = k
    <3>1. /\ len' = len + 1 /\ len \in Nat /\ Len(backing) \in Nat /\ len <= Len(backing)
          /\ backing'[len + 1] = s
          /\ \A j \in 1..Len(backing) : j # len + 1 => backing'[j] = backing[j]
      BY <1>4, <2>0, Joins, LenProperties DEF Types
    <3>2. \A j \in 1..len : backing'[j] = backing[j] /\ backing[j] # s
      BY <1>4, <2>0, <3>1, ListFacts
    <3>3. \A j, k \in 1..len : backing[j] = backing[k] => j = k
      BY <2>0 DEF Types
    <3>4. \A j \in 1..len' : j \in 1..len \/ j = len + 1
      BY <3>1
    <3> QED
      BY <3>1, <3>2, <3>3, <3>4
  <2>4. Types'
    BY <1>1, <1>4, <2>0, <2>2, <2>3, Joins DEF Types
  <2> QED
    BY <1>2, <2>1, <2>4 DEF Inv
<1> QED
  BY <1>3, <1>4

-----------------------------------------------------------------------------
(* The removal loop.                                                       *)

LEMMA StartRemovalStep == ASSUME ListAssumption, Inv, StartRemoval PROVE Inv'
<1>0. /\ Types /\ backing \in Seq(Subs) /\ len \in Nat /\ Len(backing) \in Nat
      /\ len <= Len(backing)
  BY LenProperties DEF Inv, Types
<1>1. /\ loop' = [i |-> 1, n |-> len, found |-> List] /\ UNCHANGED <<backing, len, fwd>>
  BY DEF StartRemoval
<1>2. loop'.i = 1 /\ loop'.n = len /\ loop'.found = List
  BY <1>1
<1>3. /\ List \in Seq(Subs) /\ Len(List) = len /\ \A j \in 1..len : List[j] = backing[j]
  BY <1>0, ListFacts
<1>4. Types' /\ \A r \in Readers : ReaderOK(r)'
  <2>1. loop' \in [i : Nat, n : Nat, found : Seq(Subs)]
    BY <1>0, <1>1, <1>3
  <2>2. Types'
    BY <1>0, <1>1, <2>1 DEF Types
  <2>3. \A r \in Readers : ReaderOK(r)'
    BY <1>1 DEF Inv, ReaderOK, Missed, Ahead, Array, Forwarding
  <2> QED
    BY <2>2, <2>3
<1>5. \A x \in 1..len : Found(x)' = backing[x]
  BY <1>2, <1>3 DEF Found
<1>6. Ordered' /\ OthersStay'
  BY <1>1, <1>2, <1>5 DEF Ordered, OthersStay
<1>7. LastShows' /\ LastIsRemoved'
  <2>1. len > 0 => len \in 1..len
    BY <1>0
  <2>2. \A j, k \in 1..len : backing[j] = backing[k] => j = k
    BY <1>0 DEF Types
  <2> QED
    BY <1>0, <1>1, <1>2, <1>5, <2>1, <2>2 DEF LastShows, LastIsRemoved
<1>8. Hidden'
  <2>1. Passed' = {}
    BY <1>0, <1>1, <1>2 DEF Passed
  <2>2. Gone' = {}
    BY <1>1, <1>2, <1>5 DEF Gone
  <2> QED
    BY <2>1, <2>2, FS_EmptySet DEF Hidden
<1>9. LoopOK'
  BY <1>0, <1>1, <1>2, <1>3, <1>6, <1>7, <1>8 DEF LoopOK
<1> QED
  BY <1>4, <1>9 DEF Inv

(* What the loop knows at its next index. *)
AtIndex ==
  /\ Types /\ LoopOK /\ Locked /\ loop.i <= loop.n
  /\ len \in Nat /\ loop.i \in Nat /\ loop.n \in Nat /\ loop.i \in 1..loop.n
  /\ loop'.i = loop.i + 1 /\ loop'.n = loop.n /\ loop'.found = loop.found

LEMMA FiniteParts ==
  ASSUME ListAssumption, Types, LoopOK, Locked
  PROVE  IsFiniteSet(Passed) /\ IsFiniteSet(Gone) /\ Gone \subseteq Subs
<1>1. Passed \subseteq Subs
  <2>1. \A j \in 1..len : backing[j] \in Subs
    BY LenProperties, ElementOfSeq DEF Types
  <2> QED
    BY <2>1 DEF Passed
<1>2. Gone \subseteq Subs
  <2>1. \A x \in 1..loop.n : Found(x) \in Subs
    BY ElementOfSeq DEF Types, LoopOK, Found
  <2> QED
    BY <2>1 DEF Gone
<1> QED
  BY <1>1, <1>2, FS_Subset, ListAssumption

(* An index whose subscriber stays. *)
LEMMA KeepStep ==
  ASSUME ListAssumption, AtIndex, UNCHANGED <<backing, len>>,
         backing[loop.i] \in Requeried => \A j \in 1..len : backing[j] # backing[loop.i]
  PROVE  LoopOK'
<1> USE DEF AtIndex
<1>0. /\ len <= loop.n /\ loop.n <= Len(backing) /\ Len(loop.found) = loop.n
      /\ Ordered /\ OthersStay /\ LastShows /\ LastIsRemoved /\ Hidden
  BY DEF LoopOK
<1>1. Ordered' /\ OthersStay'
  BY <1>0 DEF Ordered, OthersStay, Found
<1>2. LastShows'
  BY <1>0 DEF LastShows, Found
<1>3. LastIsRemoved'
  <2> SUFFICES ASSUME loop.i = loop.n, Found(loop.n) \in Requeried, NEW j \in 1..len
               PROVE  backing[j] # Found(loop.n)
    BY DEF LastIsRemoved, Found
  <2>1. backing[loop.n] = Found(loop.n)
    <3>1. CASE loop.n <= len
      BY <1>0, <3>1 DEF LastShows
    <3>2. CASE loop.n > len
      BY <1>0, <3>2 DEF LastShows
    <3> QED
      BY <3>1, <3>2
  <2> QED
    BY <2>1
<1>4. Passed' = Passed
  <2>1. Passed' \subseteq Passed
    <3> SUFFICES ASSUME NEW j \in 1..len, j < loop.i + 1, backing[j] \in Requeried
                 PROVE  backing[j] \in Passed
      BY DEF Passed
    <3>1. j # loop.i
      OBVIOUS
    <3>2. j < loop.i
      BY <3>1
    <3> QED
      BY <3>2 DEF Passed
  <2>2. Passed \subseteq Passed'
    BY DEF Passed
  <2> QED
    BY <2>1, <2>2
<1>5. Gone' = Gone
  BY DEF Gone, Found
<1>6. Hidden'
  BY <1>0, <1>4, <1>5 DEF Hidden, Found
<1> QED
  BY <1>0, <1>1, <1>2, <1>3, <1>6 DEF LoopOK

(* An index whose subscriber is removed from the k-th place.               *)
LEMMA RemoveStep ==
  ASSUME ListAssumption, AtIndex, NEW k, Shift(k), backing[k] = backing[loop.i],
         backing[loop.i] \in Requeried
  PROVE  LoopOK'
<1> USE DEF AtIndex
<1> DEFINE s == backing[k]
           last == Found(loop.n)
<1>0. /\ len <= loop.n /\ loop.n <= Len(backing) /\ Len(loop.found) = loop.n
      /\ Ordered /\ OthersStay /\ LastShows /\ LastIsRemoved /\ Hidden
      /\ \A j, l \in 1..len : backing[j] = backing[l] => j = l
  BY DEF LoopOK, Types
<1>1. /\ k \in 1..len /\ len' = len - 1 /\ Len(backing') = Len(backing)
      /\ \A j \in 1..len' : backing'[j] = IF j < k THEN backing[j] ELSE backing[j + 1]
      /\ \A j \in 1..len' : backing'[j] # s
      /\ \A j \in 1..Len(backing) : j >= len => backing'[j] = backing[j]
  BY ShiftTypes DEF Shift
<1>2. \A x \in 1..loop.n : Found(x)' = Found(x)
  BY DEF Found
<1>3. /\ backing[len] = last
      /\ (loop.i <= len /\ k = loop.i) \/ (loop.i > len /\ k = len /\ s = last)
  <2>1. CASE loop.i <= len
    <3>1. backing[len] = last
      BY <1>0, <2>1 DEF LastShows
    <3>2. k = loop.i
      BY <1>0, <1>1, <2>1
    <3> QED
      BY <2>1, <3>1, <3>2
  <2>2. CASE loop.i > len
    <3>1. s = last
      BY <1>0, <2>2 DEF LastShows
    <3>2. k = len
      BY <1>0, <1>1, <3>1 DEF LastShows
    <3> QED
      BY <2>2, <3>1, <3>2
  <2> QED
    BY <2>1, <2>2
<1>4. Ordered'
  <2> SUFFICES ASSUME NEW j \in 1..len', NEW l \in 1..len', j <= l
               PROVE  \E x, y \in 1..loop.n :
                        x <= y /\ Found(x) = backing'[j] /\ Found(y) = backing'[l]
    BY <1>2 DEF Ordered
  <2> DEFINE p(a) == IF a < k THEN a ELSE a + 1
  <2>1. p(j) \in 1..len /\ p(l) \in 1..len /\ p(j) <= p(l)
    BY <1>1
  <2>2. backing'[j] = backing[p(j)] /\ backing'[l] = backing[p(l)]
    BY <1>1
  <2> HIDE DEF p
  <2> QED
    BY <1>0, <2>1, <2>2 DEF Ordered
<1>5. OthersStay'
  <2> SUFFICES ASSUME NEW x \in 1..loop.n, Found(x) \notin Requeried
               PROVE  \E j \in 1..len' : backing'[j] = Found(x)
    BY <1>2 DEF OthersStay
  <2>1. PICK j \in 1..len : backing[j] = Found(x)
    BY <1>0 DEF OthersStay
  <2>2. j # k
    BY <2>1
  <2> QED
    BY <2>1, <2>2, ShiftFinds
<1>6. LastShows'
  <2>1. \A j \in 1..loop.n : j > len' => backing'[j] = last
    <3> SUFFICES ASSUME NEW j \in 1..loop.n, j >= len PROVE backing'[j] = last
      BY <1>1
    <3>1. backing'[j] = backing[j]
      BY <1>0, <1>1
    <3> QED
      BY <1>0, <1>3, <3>1 DEF LastShows
  <2>2. \A j \in 1..len' : backing'[j] = last => j = len'
    <3> SUFFICES ASSUME NEW j \in 1..len', backing'[j] = last PROVE j = len'
      OBVIOUS
    <3> DEFINE q == IF j < k THEN j ELSE j + 1
    <3>1. q \in 1..len /\ backing[q] = last
      BY <1>1
    <3>2. q = len
      BY <1>0, <3>1 DEF LastShows
    <3> QED
      BY <1>1, <3>2
  <2>3. loop.i + 1 <= len' => backing'[len'] = last
    <3> SUFFICES ASSUME loop.i + 1 <= len' PROVE backing'[len'] = last
      OBVIOUS
    <3>1. len' \in 1..len' /\ ~(len' < k) /\ len' + 1 = len
      BY <1>1, <1>3
    <3> QED
      BY <1>1, <1>3, <3>1
  <2> QED
    BY <1>2, <2>1, <2>2, <2>3 DEF LastShows
<1>7. LastIsRemoved'
  <2> SUFFICES ASSUME loop.i = loop.n, NEW j \in 1..len' PROVE backing'[j] # last
    BY <1>2 DEF LastIsRemoved
  <2>1. s = last
    BY <1>0, <1>3
  <2> QED
    BY <1>1, <2>1
<1>8. Hidden'
  <2>1. s \notin Gone /\ Gone' = Gone \cup {s}
    <3>1. PICK x \in 1..loop.n : Found(x) = s
      BY <1>0, <1>1 DEF Ordered
    <3>2. {backing'[j] : j \in 1..len'} = {backing[j] : j \in 1..len} \ {s}
      <4>1. ASSUME NEW j \in 1..len' PROVE backing'[j] \in {backing[l] : l \in 1..len} \ {s}
        <5> DEFINE q == IF j < k THEN j ELSE j + 1
        <5>1. q \in 1..len /\ backing'[j] = backing[q]
          BY <1>1
        <5> QED
          BY <1>1, <5>1
      <4>2. ASSUME NEW j \in 1..len, backing[j] # s PROVE backing[j] \in {backing'[l] : l \in 1..len'}
        <5>1. j # k
          BY <4>2
        <5> QED
          BY <5>1, ShiftFinds
      <4> QED
        BY <4>1, <4>2
    <3>3. Gone' = {Found(y) : y \in 1..loop.n} \ {backing'[j] : j \in 1..len'}
      BY <1>2 DEF Gone
    <3>4. s \in {backing[j] : j \in 1..len} /\ s \in {Found(y) : y \in 1..loop.n}
      BY <1>1, <3>1
    <3> QED
      BY <3>2, <3>3, <3>4 DEF Gone
  <2>2. Cardinality(Gone') = Cardinality(Gone) + 1
    BY <2>1, FiniteParts, OneMore
  <2>3. /\ Passed' \subseteq Passed \cup {backing[loop.i + 1]}
        /\ s = last => Passed' \subseteq Passed
    <3>1. ASSUME NEW j \in 1..len', j < loop.i + 1, backing'[j] \in Requeried
          PROVE  backing'[j] \in Passed \/ (backing'[j] = backing[loop.i + 1] /\ s # last)
      <4> DEFINE q == IF j < k THEN j ELSE j + 1
      <4>1. q \in 1..len /\ backing'[j] = backing[q]
        BY <1>1
      <4>2. CASE q < loop.i
        BY <3>1, <4>1, <4>2 DEF Passed
      <4>3. CASE ~(q < loop.i)
        <5>1. loop.i <= len /\ k = loop.i /\ q = loop.i + 1
          BY <1>1, <1>3, <3>1, <4>1, <4>3
        <5>2. k # len
          BY <4>1, <5>1
        <5>3. s # last
          BY <1>0, <1>1, <5>2 DEF LastShows
        <5> QED
          BY <4>1, <5>1, <5>3
      <4> QED
        BY <4>2, <4>3
    <3>2. \A x \in Passed' : \E j \in 1..len' : x = backing'[j] /\ j < loop.i + 1 /\ x \in Requeried
      BY DEF Passed
    <3> QED
      BY <3>1, <3>2
  <2>4. /\ Cardinality(Passed') <= Cardinality(Passed) + 1
        /\ Cardinality(Passed) \in Nat /\ Cardinality(Passed') \in Nat
    BY <2>3, FiniteParts, AtMostOneMore
  <2>5. s = last => Cardinality(Passed') <= Cardinality(Passed)
    BY <2>3, FiniteParts, NoMore
  <2>6. Cardinality(Gone) \in Nat
    BY FiniteParts, FS_CardinalityType
  <2>7. /\ Cardinality(Passed) <= Cardinality(Gone)
        /\ last \in Gone => Cardinality(Passed) < Cardinality(Gone)
    BY <1>0 DEF Hidden
  <2>8. last \in Gone' => last \in Gone \/ s = last
    BY <2>1
  <2>9. Cardinality(Passed') <= Cardinality(Gone')
    BY <2>2, <2>4, <2>6, <2>7
  <2>10. last \in Gone' => Cardinality(Passed') < Cardinality(Gone')
    BY <2>2, <2>4, <2>5, <2>6, <2>7, <2>8
  <2> QED
    BY <1>2, <2>9, <2>10 DEF Hidden
<1> QED
  BY <1>0, <1>1, <1>4, <1>5, <1>6, <1>7, <1>8 DEF LoopOK

LEMMA RemovalStepStep == ASSUME ListAssumption, Inv, RemovalStep PROVE Inv'
<1>0. Types /\ LoopOK /\ loop \in [i : Nat, n : Nat, found : Seq(Subs)]
  BY DEF Inv, Types
<1>1. loop' = [loop EXCEPT !.i = @ + 1] /\ Locked /\ loop.i <= loop.n
  BY DEF RemovalStep
<1>2. /\ loop'.i = loop.i + 1 /\ loop'.n = loop.n /\ loop'.found = loop.found
      /\ loop' \in [i : Nat, n : Nat, found : Seq(Subs)]
  BY <1>0, <1>1
<1>3. AtIndex
  BY <1>0, <1>1, <1>2 DEF AtIndex, Locked, Types
<1>4. CASE backing[loop.i] \in Requeried /\ Contains(List, backing[loop.i])
  <2>1. removeSubscriber(backing[loop.i])
    BY <1>4, Zenon DEF RemovalStep
  <2>2. PICK k \in 1..len : backing[k] = backing[loop.i] /\ Shift(k) /\ Departs(backing[k])
    BY <1>0, <1>4, <2>1, Removes
  <2>3. Types' /\ \A r \in Readers : ReaderOK(r)'
    BY <1>0, <1>2, <2>2, Removal DEF Inv
  <2>4. LoopOK'
    BY <1>3, <1>4, <2>2, RemoveStep
  <2> QED
    BY <2>3, <2>4 DEF Inv
<1>5. CASE ~(backing[loop.i] \in Requeried /\ Contains(List, backing[loop.i]))
  <2>1. UNCHANGED <<backing, len, fwd>>
    BY <1>5, Zenon DEF RemovalStep, removeSubscriber
  <2>2. Types'
    BY <1>0, <1>2, <2>1 DEF Types
  <2>3. \A r \in Readers : ReaderOK(r)'
    BY <2>1 DEF Inv, ReaderOK, Missed, Ahead, Array, Forwarding
  <2>4. backing[loop.i] \in Requeried => \A j \in 1..len : backing[j] # backing[loop.i]
    BY <1>0, <1>5, ListFacts
  <2>5. LoopOK'
    BY <1>3, <2>1, <2>4, KeepStep
  <2> QED
    BY <2>2, <2>3, <2>5 DEF Inv
<1> QED
  BY <1>4, <1>5

LEMMA EndRemovalStep == ASSUME Inv, EndRemoval PROVE Inv'
<1>1. loop' = NoLoop /\ UNCHANGED <<backing, len, fwd>>
  BY DEF EndRemoval
<1>2. ~Locked' /\ loop' \in [i : Nat, n : Nat, found : Seq(Subs)]
  BY <1>1, EmptySeq DEF Locked, NoLoop
<1>3. Types' /\ LoopOK'
  BY <1>1, <1>2 DEF Inv, Types, LoopOK
<1>4. \A r \in Readers : ReaderOK(r)'
  BY <1>1 DEF Inv, ReaderOK, Missed, Ahead, Array, Forwarding
<1> QED
  BY <1>3, <1>4 DEF Inv

-----------------------------------------------------------------------------
(* The loop of ForwardMessage.                                             *)

(* A step of one forwarding loop leaves the list and the others alone. *)
LEMMA OnlyReader ==
  ASSUME Inv, NEW r \in Readers, UNCHANGED <<backing, len, loop>>,
         NEW new \in ForwardLoop, fwd' = [fwd EXCEPT ![r] = new], ReaderOK(r)'
  PROVE  Inv'
<1>1. /\ fwd' \in [Readers -> ForwardLoop]
      /\ \A q \in Readers : q # r => fwd'[q] = fwd[q]
  BY DEF Inv, Types
<1>2. Types'
  BY <1>1 DEF Inv, Types
<1>3. LoopOK'
  BY DEF Inv, LoopOK, Locked, Ordered, OthersStay, LastShows, LastIsRemoved, Hidden, Passed, Gone,
         Found
<1>4. ASSUME NEW q \in Readers, q # r PROVE ReaderOK(q)'
  <2>1. fwd'[q] = fwd[q]
    BY <1>1, <1>4
  <2> QED
    BY <2>1 DEF Inv, ReaderOK, Missed, Ahead, Array, Forwarding
<1> QED
  BY <1>2, <1>3, <1>4 DEF Inv

LEMMA StartForwardStep ==
  ASSUME ListAssumption, Inv, NEW r \in Readers, StartForward(r)
  PROVE  Inv'
<1> DEFINE all == ToSet(List)
           new == [NotForwarding EXCEPT !.i = 1, !.n = len, !.along = all, !.ever = all]
<1>0. /\ Types /\ len \in Nat /\ len > 0 /\ len <= Len(backing)
      /\ \A j \in 1..len : backing[j] \in Subs
  BY LenProperties, ElementOfSeq DEF Inv, Types, StartForward
<1>1. all = {backing[j] : j \in 1..len}
  BY <1>0, ListFacts
<1>2. /\ UNCHANGED <<backing, len, loop>>
      /\ fwd' = [fwd EXCEPT ![r] = new]
  BY DEF StartForward
<1> HIDE DEF all
<1>3. /\ new.i = 1 /\ new.n = len /\ new.old = <<>> /\ new.served = {} /\ new.along = all
      /\ new.ever = all /\ new.left = 0
  BY DEF NotForwarding
<1>4. new \in ForwardLoop
  <2>1. NotForwarding \in ForwardLoop
    BY EmptySeq DEF NotForwarding, ForwardLoop
  <2>2. all \in SUBSET Subs /\ len \in Nat /\ 1 \in Nat
    BY <1>0, <1>1
  <2> QED
    BY <2>1, <2>2 DEF ForwardLoop
<1> HIDE DEF new
<1>5. fwd'[r] = new
  BY <1>0, <1>2 DEF Types
<1>6. Array(r)' = backing /\ Ahead(r)' = all
  BY <1>0, <1>1, <1>2, <1>3, <1>5 DEF Array, Ahead
<1>7. Missed(r)' = {}
  BY <1>3, <1>5, <1>6 DEF Missed
<1>8. ReaderOK(r)'
  BY <1>0, <1>1, <1>2, <1>3, <1>5, <1>6, <1>7, FS_EmptySet DEF ReaderOK
<1> QED
  BY <1>2, <1>4, <1>8, OnlyReader

(* Whoever is served is no longer missed, and the next index is one on.    *)
LEMMA ForwardStepStep ==
  ASSUME ListAssumption, Inv, NEW r \in Readers, ForwardStep(r)
  PROVE  Inv'
<1> DEFINE f == fwd[r]
           new == [f EXCEPT !.served = @ \cup {Array(r)[f.i]}, !.i = @ + 1]
<1>1. /\ f \in ForwardLoop /\ Forwarding(r) /\ f.i <= f.n /\ UNCHANGED <<backing, len, loop>>
      /\ fwd' = [fwd EXCEPT ![r] = new]
  BY DEF Inv, Types, ForwardStep, Array
<1>2. fwd'[r] = new
  BY <1>1 DEF Inv, Types
<1>3. /\ f.i \in 1..f.n + 1 /\ f.n > 0 /\ f.n <= Len(Array(r)) /\ f.i \in Nat /\ f.n \in Nat
      /\ \A j \in 1..f.n : Array(r)[j] \in f.ever
      /\ f.old = <<>> => \A j \in 1..len : backing[j] \in f.ever
      /\ f.served \subseteq f.ever /\ f.ever \subseteq Subs
      /\ Cardinality(Missed(r)) <= f.left /\ f.left \in Nat
  BY <1>1 DEF Inv, ReaderOK, ForwardLoop
<1> DEFINE c == Array(r)[f.i]
<1> HIDE DEF f, c
<1>4. c \in f.ever
  BY <1>1, <1>3 DEF c, f
<1>5. new = [f EXCEPT !.served = @ \cup {c}, !.i = @ + 1]
  BY DEF c, f
<1> HIDE DEF new
<1>6. /\ new \in ForwardLoop
      /\ new.i = f.i + 1 /\ new.n = f.n /\ new.old = f.old /\ new.served = f.served \cup {c}
      /\ new.along = f.along /\ new.ever = f.ever /\ new.left = f.left
  <2>1. f.served \cup {c} \in SUBSET Subs /\ f.i + 1 \in Nat
    BY <1>3, <1>4
  <2> QED
    BY <1>1, <1>5, <2>1 DEF ForwardLoop
<1>7. Array(r)' = Array(r)
  BY <1>1, <1>2, <1>6 DEF Array, f
<1>8. Missed(r)' \subseteq Missed(r)
  <2> SUFFICES ASSUME NEW x \in Missed(r)', x \notin Missed(r) PROVE FALSE
    OBVIOUS
  <2>1. x \in f.along /\ x \notin f.served /\ x # c /\ x \notin Ahead(r)' /\ x \in Ahead(r)
    BY <1>2, <1>6 DEF Missed, f
  <2>2. PICK j \in f.i..f.n : x = Array(r)[j] /\ (f.old = <<>> => j <= len)
    BY <2>1 DEF Ahead, f
  <2>3. j # f.i
    BY <2>1, <2>2 DEF c, f
  <2>4. j \in f.i + 1..f.n
    BY <1>3, <2>2, <2>3
  <2>5. Ahead(r)' = {Array(r)[l] : l \in {m \in f.i + 1..f.n : f.old = <<>> => m <= len}}
    BY <1>1, <1>2, <1>6, <1>7 DEF Ahead
  <2> QED
    BY <2>1, <2>2, <2>4, <2>5
<1>9. Cardinality(Missed(r)') <= f.left
  <2>1. Missed(r) \subseteq Subs
    BY <1>1 DEF Missed, ForwardLoop, f
  <2>2. IsFiniteSet(Missed(r))
    BY <2>1, FS_Subset, ListAssumption
  <2>3. /\ Cardinality(Missed(r)') <= Cardinality(Missed(r))
        /\ Cardinality(Missed(r)) \in Nat /\ Cardinality(Missed(r)') \in Nat
    BY <1>8, <2>2, NoMore
  <2> QED
    BY <1>3, <2>3
<1>10. ReaderOK(r)'
  <2>1. fwd'[r].i \in 1..fwd'[r].n + 1
    BY <1>1, <1>2, <1>3, <1>6
  <2>2. fwd'[r].served \subseteq fwd'[r].ever
    BY <1>2, <1>3, <1>4, <1>6
  <2> QED
    BY <1>1, <1>2, <1>3, <1>6, <1>7, <1>9, <2>1, <2>2 DEF ReaderOK
<1> QED
  BY <1>1, <1>6, <1>10, OnlyReader

LEMMA EndForwardStep ==
  ASSUME Inv, NEW r \in Readers, EndForward(r)
  PROVE  Inv'
<1>1. UNCHANGED <<backing, len, loop>> /\ fwd' = [fwd EXCEPT ![r] = NotForwarding]
  BY DEF EndForward
<1>2. NotForwarding \in ForwardLoop
  BY EmptySeq DEF NotForwarding, ForwardLoop
<1>3. fwd'[r] = NotForwarding
  BY <1>1 DEF Inv, Types
<1>4. ReaderOK(r)'
  BY <1>3 DEF ReaderOK, Forwarding, NotForwarding
<1> QED
  BY <1>1, <1>2, <1>4, OnlyReader

-----------------------------------------------------------------------------

LEMMA InitInv == ListAssumption /\ Init => Inv
<1> SUFFICES ASSUME ListAssumption, Init PROVE Inv
  OBVIOUS
<1>1. /\ backing = <<>> /\ len = 0 /\ loop = NoLoop
      /\ fwd = [r \in Readers |-> NotForwarding]
  BY DEF Init
<1>2. NoLoop \in [i : Nat, n : Nat, found : Seq(Subs)] /\ NotForwarding \in ForwardLoop
  BY EmptySeq DEF NoLoop, NotForwarding, ForwardLoop
<1>3. backing \in Seq(Subs) /\ Len(backing) = 0
  BY <1>1, EmptySeq
<1>4. Types
  BY <1>1, <1>2, <1>3 DEF Types
<1>5. LoopOK
  BY <1>1 DEF LoopOK, Locked, NoLoop
<1>6. \A r \in Readers : ReaderOK(r)
  BY <1>1 DEF ReaderOK, Forwarding, NotForwarding
<1> QED
  BY <1>4, <1>5, <1>6 DEF Inv

LEMMA StepInv == ListAssumption /\ Inv /\ [Next]_vars => Inv'
<1> SUFFICES ASSUME ListAssumption, Inv, [Next]_vars PROVE Inv'
  OBVIOUS
<1>1. CASE UNCHANGED vars
  <2>1. UNCHANGED <<backing, len, loop, fwd>>
    BY <1>1 DEF vars
  <2>2. Types'
    BY <2>1 DEF Inv, Types
  <2>3. LoopOK'
    BY <2>1 DEF Inv, LoopOK, Locked, Ordered, OthersStay, LastShows, LastIsRemoved, Hidden,
                Passed, Gone, Found
  <2>4. \A r \in Readers : ReaderOK(r)'
    BY <2>1 DEF Inv, ReaderOK, Missed, Ahead, Array, Forwarding
  <2> QED
    BY <2>2, <2>3, <2>4 DEF Inv
<1>2. CASE Next
  BY <1>2, AddStep, LeaveStep, StartRemovalStep, RemovalStepStep, EndRemovalStep,
     StartForwardStep, ForwardStepStep, EndForwardStep DEF Next
<1> QED
  BY <1>1, <1>2

LEMMA InvHolds == Spec => []Inv
BY InitInv, StepInv, ListAssumption, PTL DEF Spec

(* The slice lies within its array and names no subscriber twice, however  *)
(* joins, departures and the loops interleave (cqbs.go addSubscriber,      *)
(* removeSubscriber). *)
THEOREM ListsAreSound == Spec => []ListOK
<1>1. Inv => ListOK
  <2> SUFFICES ASSUME Inv PROVE ListOK
    OBVIOUS
  <2>1. Types
    BY DEF Inv
  <2>2. IsInjective(List)
    BY <2>1, ListFacts DEF IsInjective, Types
  <2> QED
    BY <2>1, <2>2 DEF ListOK, Types
<1> QED
  BY <1>1, InvHolds, PTL

(* Whom the removal loop of reevaluateQuery leaves on a list of any length *)
(* is always a set that Leftovers allows, and the clients of other queries *)
(* keep their places (cqbs.go reevaluateQuery): so what module Broker      *)
(* assumes of its lists is what the slices do.                             *)
THEOREM RemovalIsLeftovers == Spec => []RemovalLeavesLeftovers
<1>1. Inv => RemovalLeavesLeftovers
  <2> SUFFICES ASSUME Inv, Locked, loop.i > loop.n
               PROVE  LET others == ToSet(loop.found) \ Requeried
                      IN  /\ ToSet(List) \cap Requeried
                               \in Leftovers(ToSet(loop.found) \cap Requeried, others)
                          /\ others \subseteq ToSet(List)
                          /\ \A j, k \in DOMAIN List : j <= k =>
                               \E x, y \in DOMAIN loop.found :
                                 x <= y /\ loop.found[x] = List[j] /\ loop.found[y] = List[k]
    BY DEF RemovalLeavesLeftovers
  <2>1. /\ Types /\ LoopOK /\ len \in Nat /\ loop.n \in Nat /\ loop.i \in Nat /\ len <= loop.n
        /\ Ordered /\ OthersStay /\ LastIsRemoved /\ Hidden
        /\ loop.found \in Seq(Subs) /\ Len(loop.found) = loop.n
    BY DEF Inv, Types, LoopOK
  <2>2. /\ DOMAIN loop.found = 1..loop.n /\ ToSet(loop.found) = {Found(x) : x \in 1..loop.n}
        /\ DOMAIN List = 1..len /\ \A j \in 1..len : List[j] = backing[j]
        /\ ToSet(List) = {backing[j] : j \in 1..len}
    BY <2>1, ListFacts, LenProperties DEF ToSet, Found
  <2> DEFINE found  == ToSet(loop.found)
             left   == ToSet(List) \cap Requeried
             match  == found \cap Requeried
             others == found \ Requeried
  <2>3. ToSet(List) \subseteq found
    BY <2>1, <2>2 DEF Ordered
  <2>4. others \subseteq ToSet(List)
    BY <2>1, <2>2 DEF OthersStay
  <2>5. Passed = left
    <3>1. {k \in 1..len : k < loop.i} = 1..len
      BY <2>1
    <3> QED
      BY <2>2, <3>1 DEF Passed
  <2>6. Gone = match \ left
    <3>1. Gone = found \ ToSet(List)
      BY <2>2 DEF Gone
    <3> QED
      BY <2>4, <3>1
  <2>7. left \in Leftovers(match, others)
    <3>1. Cardinality(left) <= Cardinality(match \ left)
      BY <2>1, <2>5, <2>6 DEF Hidden
    <3>2. CASE left = {} \/ others # {}
      BY <2>3, <3>1, <3>2 DEF Leftovers
    <3>3. CASE left # {} /\ others = {}
      <4>1. loop.n > 0 /\ loop.n \in 1..loop.n
        BY <2>1, <2>2, <3>3
      <4>2. Found(loop.n) \in found /\ Found(loop.n) \in Requeried
        BY <2>2, <3>3, <4>1
      <4>3. Found(loop.n) \in Gone
        BY <2>1, <2>2, <4>1, <4>2 DEF LastIsRemoved, Gone
      <4>4. Cardinality(left) < Cardinality(match \ left)
        BY <2>1, <2>5, <2>6, <4>1, <4>3 DEF Hidden
      <4> QED
        BY <2>3, <3>1, <4>4 DEF Leftovers
    <3> QED
      BY <3>2, <3>3
  <2>8. \A j, k \in DOMAIN List : j <= k =>
          \E x, y \in DOMAIN loop.found :
            x <= y /\ loop.found[x] = List[j] /\ loop.found[y] = List[k]
    <3> SUFFICES ASSUME NEW j \in 1..len, NEW k \in 1..len, j <= k
                 PROVE  \E x, y \in 1..loop.n :
                          x <= y /\ Found(x) = backing[j] /\ Found(y) = backing[k]
      BY <2>2 DEF Found
    <3> QED
      BY <2>1 DEF Ordered
  <2> QED
    BY <2>4, <2>7, <2>8
<1> QED
  BY <1>1, InvHolds, PTL

(* However many join and leave while a message is forwarded, it reaches    *)
(* all who stay but at most one for each that leaves, and nobody who was   *)
(* not listed meanwhile (cqbs.go ForwardMessage).                          *)
THEOREM ForwardingServes == Spec => []ServesTheListed
<1>1. Inv => ServesTheListed
  <2> SUFFICES ASSUME Inv, NEW r \in Readers
               PROVE  /\ Finished(r) => Cardinality(fwd[r].along \ fwd[r].served) <= fwd[r].left
                      /\ fwd[r].served \subseteq fwd[r].ever
    BY DEF ServesTheListed
  <2>1. fwd[r] \in ForwardLoop
    BY DEF Inv, Types
  <2>2. ReaderOK(r)
    BY DEF Inv
  <2>3. fwd[r].served \subseteq fwd[r].ever
    BY <2>2 DEF ReaderOK
  <2>4. ASSUME Finished(r) PROVE Cardinality(fwd[r].along \ fwd[r].served) <= fwd[r].left
    <3>1. Ahead(r) = {}
      BY <2>1, <2>4 DEF Finished, Ahead, ForwardLoop
    <3>2. Missed(r) = fwd[r].along \ fwd[r].served
      BY <3>1 DEF Missed
    <3> QED
      BY <2>2, <2>4, <3>2 DEF ReaderOK, Finished
  <2> QED
    BY <2>3, <2>4
<1> QED
  BY <1>1, InvHolds, PTL
=============================================================================

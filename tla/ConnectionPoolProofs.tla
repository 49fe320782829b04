------------------------ MODULE ConnectionPoolProofs ------------------------
(***************************************************************************)
(* The count of the connection pool is exact, connections are never        *)
(* shared, and with no more goroutines than the maximum Get never comes    *)
(* back empty-handed, for every number of goroutines and every maximum.    *)
(***************************************************************************)
EXTENDS ConnectionPool, FiniteSetTheorems, TLAPS

(* What the program counter says of a goroutine's locals. *)
Locals ==
  \A u \in Users :
    /\ pc[u] \in {"count", "put"} => held[u] # None
    /\ pc[u] \in {"idle", "get", "check", "dial", "wait", "panicked"} => held[u] = None
    /\ held[u] \in closed => pc[u] = "put"
    /\ pc[u] = "wait" => old[u] > 0

(* The name of a closed connection is not free: someone still holds it. *)
ClosedAreHeld == \A c \in closed : \E u \in Users : held[u] = c

Shape == TypeOK /\ Locals /\ ClosedAreHeld /\ Exclusive /\ PooledAreOpen

Limit == IF Cardinality(Users) > Max \div 2 THEN Cardinality(Users) ELSE Max \div 2

Inv == Shape /\ CountIsExact /\ DemandBoundsCount

-----------------------------------------------------------------------------
(* Taking the head off a sequence without repetitions takes one element    *)
(* out of its range.                                                       *)
LEMMA TailOfPool ==
  ASSUME NEW S, NEW s \in Seq(S), s # <<>>,
         \A i, j \in DOMAIN s : s[i] = s[j] => i = j
  PROVE  /\ Tail(s) \in Seq(S) /\ Len(Tail(s)) = Len(s) - 1
         /\ Head(s) \in {s[i] : i \in DOMAIN s}
         /\ {Tail(s)[i] : i \in DOMAIN Tail(s)} = {s[i] : i \in DOMAIN s} \ {Head(s)}
         /\ \A i, j \in DOMAIN Tail(s) : Tail(s)[i] = Tail(s)[j] => i = j
<1>1. Len(s) \in Nat /\ Len(s) > 0 /\ DOMAIN s = 1..Len(s) /\ Head(s) = s[1]
  OBVIOUS
<1>2. /\ Tail(s) \in Seq(S) /\ Len(Tail(s)) = Len(s) - 1
      /\ DOMAIN Tail(s) = 1..(Len(s) - 1)
      /\ \A i \in DOMAIN Tail(s) : Tail(s)[i] = s[i + 1]
  BY <1>1
<1>3. \A i, j \in DOMAIN Tail(s) : Tail(s)[i] = Tail(s)[j] => i = j
  BY <1>1, <1>2
<1>4. ASSUME NEW c \in {s[i] : i \in DOMAIN s} \ {Head(s)}
      PROVE  c \in {Tail(s)[i] : i \in DOMAIN Tail(s)}
  <2>1. PICK i \in DOMAIN s : c = s[i]
    OBVIOUS
  <2>2. i # 1 /\ i - 1 \in DOMAIN Tail(s) /\ Tail(s)[i - 1] = s[(i - 1) + 1]
    BY <1>1, <1>2, <2>1
  <2> QED BY <1>1, <2>1, <2>2
<1>5. ASSUME NEW i \in DOMAIN Tail(s)
      PROVE  Tail(s)[i] \in {s[j] : j \in DOMAIN s} \ {Head(s)}
  BY <1>1, <1>2
<1> QED BY <1>1, <1>2, <1>3, <1>4, <1>5

(* Appending a new element adds one element to the range. *)
LEMMA AppendToPool ==
  ASSUME NEW S, NEW s \in Seq(S), NEW c \in S, c \notin {s[i] : i \in DOMAIN s},
         \A i, j \in DOMAIN s : s[i] = s[j] => i = j
  PROVE  /\ Append(s, c) \in Seq(S) /\ Len(Append(s, c)) = Len(s) + 1
         /\ {Append(s, c)[i] : i \in DOMAIN Append(s, c)} = {s[i] : i \in DOMAIN s} \cup {c}
         /\ \A i, j \in DOMAIN Append(s, c) : Append(s, c)[i] = Append(s, c)[j] => i = j
<1>1. /\ Append(s, c) \in Seq(S) /\ Len(Append(s, c)) = Len(s) + 1
      /\ DOMAIN s = 1..Len(s) /\ DOMAIN Append(s, c) = 1..(Len(s) + 1)
      /\ Len(s) \in Nat
      /\ Append(s, c)[Len(s) + 1] = c
      /\ \A i \in DOMAIN s : Append(s, c)[i] = s[i]
  OBVIOUS
<1>2. \A i \in DOMAIN Append(s, c) : i \in DOMAIN s \/ i = Len(s) + 1
  BY <1>1
<1> QED BY <1>1, <1>2

-----------------------------------------------------------------------------
(* Types, locals and exclusive ownership.                                  *)

(* The sets that are counted are finite. *)
LEMMA Finite ==
  ASSUME NEW S \in SUBSET Users
  PROVE  IsFiniteSet(S) /\ Cardinality(S) \in Nat /\ Cardinality(S) <= Cardinality(Users)
BY PoolAssumption, FS_Subset, FS_CardinalityType

(* At the start nobody holds a connection. *)
LEMMA InitShape == Init => Inv
<1> SUFFICES ASSUME Init PROVE Inv
  OBVIOUS
<1>1. Max \div 2 \in Nat /\ Max \div 2 <= Max
  BY PoolAssumption
<1>2. pool \in Seq(Conns) /\ Len(pool) = Max \div 2
  BY <1>1 DEF Init
<1>3. Holding = {} /\ Trying = {}
  BY DEF Init, Holding, Trying
<1>4. Cardinality(Holding) = 0 /\ Cardinality(Trying) = 0
  BY <1>3, FS_EmptySet
<1>5. Cardinality(Users) \in Nat
  BY PoolAssumption, FS_CardinalityType
<1>6. Shape
  <2>1. TypeOK
    BY <1>1, <1>2, PoolAssumption DEF Init, TypeOK, States
  <2>2. Locals
    BY PoolAssumption DEF Init, Locals
  <2>3. Exclusive
    BY <1>2, PoolAssumption DEF Init, Exclusive, InPool
  <2> QED BY <2>1, <2>2, <2>3 DEF Shape, ClosedAreHeld, PooledAreOpen, Init
<1>7. CountIsExact
  BY <1>1, <1>2, <1>4 DEF Init, CountIsExact
<1>8. DemandBoundsCount
  BY <1>1, <1>4, <1>5 DEF Init, DemandBoundsCount
<1> QED BY <1>6, <1>7, <1>8 DEF Inv

(* Every step keeps types, locals and exclusive ownership.  The types take *)
(* the exact count: it is what keeps the count from going below zero.      *)
LEMMA ShapeStep == Inv /\ [Next]_vars => Shape'
<1> SUFFICES ASSUME Inv, [Next]_vars PROVE Shape'
  OBVIOUS
<1> USE PoolAssumption DEF Shape
<1>0. Shape
  BY DEF Inv
<1>1. ASSUME NEW u \in Users, Call(u) \/ GetEmpty(u) \/ UseDone(u) \/ UseNil(u) \/ Check(u)
      PROVE Shape'
  <2>1. UNCHANGED <<pool, count, wait, held, old, closed, broken>>
    BY <1>1 DEF Call, GetEmpty, UseDone, UseNil, Check
  <2>2. TypeOK' /\ Locals'
    BY <1>0, <1>1 DEF Call, GetEmpty, UseDone, UseNil, Check, GoTo, TypeOK, States, Locals
  <2> QED BY <1>0, <2>1, <2>2 DEF ClosedAreHeld, Exclusive, PooledAreOpen, InPool
<1>2. ASSUME NEW u \in Users, DialFails(u) \/ Wait(u) \/ CountNew(u) PROVE Shape'
  <2>1. TypeOK'
    <3>1. CASE DialFails(u)
      <4>1. wait \in 0..MaxWait
        BY <1>0 DEF TypeOK
      <4> QED BY <1>0, <3>1, <4>1 DEF DialFails, GoTo, TypeOK, States
    <3>3. CASE CountNew(u)
      BY <1>0, <3>3 DEF CountNew, GoTo, TypeOK, States
    <3>2. CASE Wait(u)
      <4>1. old[u] \in 1..MaxWait
        BY <1>0, <3>2 DEF Wait, TypeOK, Locals
      <4>2. wait' \in 1..MaxWait
        BY <1>0, <3>2, <4>1 DEF Wait, TypeOK
      <4> QED BY <1>0, <3>2, <4>2 DEF Wait, GoTo, TypeOK, States
    <3> QED BY <1>2, <3>1, <3>2, <3>3
  <2>2. Locals'
    BY <1>0, <1>2 DEF DialFails, Wait, CountNew, GoTo, TypeOK, States, Locals
  <2> QED BY <1>0, <1>2, <2>1, <2>2 DEF DialFails, Wait, CountNew, ClosedAreHeld, Exclusive,
                                  PooledAreOpen, InPool
<1>3. ASSUME NEW u \in Users, Dial(u) PROVE Shape'
  <2>1. PICK c \in Conns \ (InPool \cup InHand) : held' = [held EXCEPT ![u] = c]
    BY <1>3 DEF Dial
  <2>2. c # None /\ c \notin InPool /\ (\A v \in Users : held[v] # c) /\ c \notin closed
    BY <1>0, <2>1 DEF InHand, ClosedAreHeld
  <2>3. TypeOK' /\ Locals'
    BY <1>0, <1>3, <2>1, <2>2 DEF Dial, GoTo, TypeOK, States, Locals
  <2>4. Exclusive' /\ PooledAreOpen'
    BY <1>0, <1>3, <2>1, <2>2 DEF Dial, TypeOK, Exclusive, PooledAreOpen, InPool
  <2>5. ClosedAreHeld'
    BY <1>0, <1>3, <2>1, <2>2 DEF Dial, TypeOK, Locals, ClosedAreHeld
  <2> QED BY <2>3, <2>4, <2>5
<1>4. ASSUME NEW u \in Users, GetPooled(u) PROVE Shape'
  <2>1. pool \in Seq(Conns) /\ pool # <<>> /\ \A i, j \in DOMAIN pool : pool[i] = pool[j] => i = j
    BY <1>0, <1>4 DEF GetPooled, TypeOK, Exclusive
  <2>2. /\ Tail(pool) \in Seq(Conns) /\ Len(Tail(pool)) = Len(pool) - 1
        /\ Head(pool) \in InPool
        /\ {Tail(pool)[i] : i \in DOMAIN Tail(pool)} = InPool \ {Head(pool)}
        /\ \A i, j \in DOMAIN Tail(pool) : Tail(pool)[i] = Tail(pool)[j] => i = j
    BY <2>1, TailOfPool DEF InPool
  <2>3. pool' = Tail(pool) /\ InPool' = InPool \ {Head(pool)}
    BY <1>4, <2>2 DEF GetPooled, InPool
  <2>4. Head(pool) \in Conns /\ Head(pool) \notin closed
    BY <1>0, <2>1, <2>2 DEF PooledAreOpen
  <2>5. held' = [held EXCEPT ![u] = Head(pool)] /\ pc' = [pc EXCEPT ![u] = "use"]
        /\ UNCHANGED <<closed, broken, count, wait, old>>
    BY <1>4, <2>4 DEF GetPooled, GoTo
  <2>6. pc[u] = "get" /\ held[u] = None
    BY <1>0, <1>4 DEF GetPooled, Locals
  <2>7. TypeOK' /\ Locals'
    BY <1>0, <2>2, <2>3, <2>4, <2>5, <2>6 DEF TypeOK, States, Locals
  <2>8. Exclusive' /\ PooledAreOpen' /\ ClosedAreHeld'
    BY <1>0, <2>2, <2>3, <2>4, <2>5, <2>6
       DEF TypeOK, Exclusive, PooledAreOpen, ClosedAreHeld
  <2> QED BY <2>7, <2>8
<1>5. ASSUME NEW u \in Users, ReceiveFails(u) \/ PutFull(u) PROVE Shape'
  <2>1. held[u] \in Conns /\ closed' = closed \cup {held[u]} /\ pc' = [pc EXCEPT ![u] = "put"]
        /\ UNCHANGED <<pool, count, wait, held, old, broken>>
    BY <1>0, <1>5 DEF ReceiveFails, PutFull, GoTo, TypeOK, Locals
  <2>2. TypeOK' /\ Locals'
    BY <1>0, <2>1 DEF TypeOK, States, Locals, Exclusive
  <2> QED BY <1>0, <2>1, <2>2 DEF ClosedAreHeld, Exclusive, PooledAreOpen, InPool
<1>6. ASSUME NEW u \in Users, Put(u) PROVE Shape'
  <2>1. /\ held[u] \in Conns /\ held[u] \notin InPool /\ held[u] \notin closed
        /\ pool \in Seq(Conns) /\ \A i, j \in DOMAIN pool : pool[i] = pool[j] => i = j
    BY <1>0, <1>6 DEF Put, TypeOK, Locals, Exclusive
  <2>2. /\ pool' \in Seq(Conns) /\ Len(pool') = Len(pool) + 1
        /\ InPool' = InPool \cup {held[u]}
        /\ \A i, j \in DOMAIN pool' : pool'[i] = pool'[j] => i = j
    BY <1>6, <2>1, AppendToPool DEF Put, InPool
  <2>3. TypeOK' /\ Locals'
    BY <1>0, <1>6, <2>1, <2>2 DEF Put, GoTo, TypeOK, States, Locals
  <2>4. Exclusive'
    <3>1. held' = [held EXCEPT ![u] = None] /\ held \in [Users -> Conns \cup {None}]
      BY <1>0, <1>6 DEF Put, TypeOK
    <3>2. \A v \in Users : v # u => held[v] # held[u] /\ held[v] \notin InPool
      BY <1>0, <2>1 DEF Exclusive
    <3>3. None \notin InPool'
      BY <2>1, <2>2 DEF InPool
    <3>4. \A v \in Users : held'[v] \notin InPool'
      BY <2>2, <3>1, <3>2, <3>3
    <3>5. \A v, w \in Users : held'[v] = held'[w] /\ held'[v] # None => v = w
      BY <1>0, <3>1 DEF Exclusive
    <3> QED BY <2>2, <3>4, <3>5 DEF Exclusive
  <2>5. PooledAreOpen' /\ ClosedAreHeld'
    BY <1>0, <1>6, <2>1, <2>2 DEF Put, TypeOK, PooledAreOpen, ClosedAreHeld
  <2> QED BY <2>3, <2>4, <2>5
<1>7. ASSUME NEW u \in Users, Release(u) PROVE Shape'
  <2>1. u \in Holding
    BY <1>0, <1>7 DEF Release, Holding, Locals
  <2>2. Cardinality(Holding) \in Nat /\ Cardinality(Holding) # 0
    <3>1. Holding \in SUBSET Users
      BY DEF Holding
    <3> QED BY <2>1, <3>1, Finite, FS_EmptySet
  <2>3. Len(pool) \in Nat
    BY <1>0 DEF TypeOK
  <2>4. count - 1 \in Nat
    BY <2>2, <2>3 DEF Inv, CountIsExact
  <2>5. TypeOK' /\ Locals'
    BY <1>0, <1>7, <2>4 DEF Release, GoTo, TypeOK, States, Locals, Exclusive
  <2>6. Exclusive' /\ PooledAreOpen' /\ ClosedAreHeld'
    BY <1>0, <1>7 DEF Release, TypeOK, Exclusive, PooledAreOpen, ClosedAreHeld, InPool
  <2> QED BY <2>5, <2>6
<1>8. ASSUME NEW c \in Conns, Break(c) PROVE Shape'
  BY <1>0, <1>8 DEF Break, TypeOK, Locals, ClosedAreHeld, Exclusive, PooledAreOpen, InPool
<1>9. CASE UNCHANGED vars
  BY <1>0, <1>9 DEF vars, TypeOK, Locals, ClosedAreHeld, Exclusive, PooledAreOpen, InPool
<1> QED
  BY <1>1, <1>2, <1>3, <1>4, <1>5, <1>6, <1>7, <1>8, <1>9 DEF Next, UserNext, GetStep

-----------------------------------------------------------------------------
(* The counts.                                                             *)

(* A goroutine is never both trying to get a connection and holding a      *)
(* counted one, so there are at most as many of both as there are.         *)
LEMMA HoldersAndTriers ==
  ASSUME Shape
  PROVE  /\ IsFiniteSet(Holding) /\ Cardinality(Holding) \in Nat
         /\ IsFiniteSet(Trying) /\ Cardinality(Trying) \in Nat
         /\ Cardinality(Holding) + Cardinality(Trying) <= Cardinality(Users)
         /\ Cardinality(Users) \in Nat
<1>1. Holding \in SUBSET Users /\ Trying \in SUBSET Users
  BY DEF Holding, Trying
<1>2. Holding \cap Trying = {}
  BY DEF Holding, Trying, Shape, Locals
<1>3. Cardinality(Holding \cup Trying) = Cardinality(Holding) + Cardinality(Trying)
  <2>1. Cardinality(Holding \cap Trying) = 0
    BY <1>2, FS_EmptySet
  <2>2. /\ IsFiniteSet(Holding) /\ Cardinality(Holding) \in Nat
        /\ IsFiniteSet(Trying) /\ Cardinality(Trying) \in Nat
    BY <1>1, Finite
  <2>3. Cardinality(Holding \cup Trying)
          = Cardinality(Holding) + Cardinality(Trying) - Cardinality(Holding \cap Trying)
    BY <2>2, FS_Union
  <2> QED BY <2>1, <2>2, <2>3
<1>4. Cardinality(Holding \cup Trying) <= Cardinality(Users)
  BY <1>1, Finite
<1> QED BY <1>1, <1>3, <1>4, Finite, PoolAssumption, FS_CardinalityType

(* Every step keeps the count exact and within the demand. *)
LEMMA CountStep == Inv /\ [Next]_vars => CountIsExact' /\ DemandBoundsCount'
<1> SUFFICES ASSUME Inv, [Next]_vars PROVE CountIsExact' /\ DemandBoundsCount'
  OBVIOUS
<1> DEFINE H == Cardinality(Holding)
           T == Cardinality(Trying)
<1>0. /\ Shape /\ H \in Nat /\ T \in Nat /\ H + T <= Cardinality(Users)
      /\ IsFiniteSet(Holding) /\ IsFiniteSet(Trying) /\ Cardinality(Users) \in Nat
      /\ count = Len(pool) + H /\ Len(pool) \in Nat
      /\ count + T <= Limit /\ Limit \in Nat /\ Cardinality(Users) <= Limit
  BY HoldersAndTriers, PoolAssumption
     DEF Inv, Shape, TypeOK, CountIsExact, DemandBoundsCount, Limit
<1> HIDE DEF H, T
<1>S. ASSUME count' = Len(pool') + H', count' + T' <= Limit
      PROVE  CountIsExact' /\ DemandBoundsCount'
  BY <1>S DEF CountIsExact, DemandBoundsCount, Limit, H, T
<1>1. ASSUME NEW u \in Users, Call(u) \/ DialFails(u) \/ Wait(u) \/ Dial(u) \/ UseNil(u)
                               \/ UseDone(u) \/ ReceiveFails(u) \/ PutFull(u)
      PROVE  CountIsExact' /\ DemandBoundsCount'
  <2>1. Holding' = Holding /\ Trying' = Trying /\ UNCHANGED <<pool, count>>
    BY <1>0, <1>1 DEF Call, DialFails, Wait, Dial, UseNil, UseDone, ReceiveFails, PutFull,
                      GoTo, Holding, Trying, Shape, TypeOK, Locals
  <2> QED BY <1>0, <1>S, <2>1 DEF H, T
<1>2. ASSUME NEW u \in Users, GetEmpty(u) PROVE CountIsExact' /\ DemandBoundsCount'
  <2>1. Holding' = Holding /\ UNCHANGED <<pool, count>> /\ pool = <<>>
    BY <1>0, <1>2 DEF GetEmpty, GoTo, Holding, Shape, TypeOK, Locals
  <2>2. Shape'
    BY ShapeStep
  <2>3. H' + T' <= Cardinality(Users) /\ T' \in Nat
    <3>1. (Cardinality(Holding) + Cardinality(Trying) <= Cardinality(Users)
           /\ Cardinality(Trying) \in Nat)'
      BY <2>2, HoldersAndTriers, PTL
    <3> QED BY <3>1 DEF H, T
  <2> QED BY <1>0, <1>S, <2>1, <2>3 DEF H
<1>3. ASSUME NEW u \in Users, Check(u) PROVE CountIsExact' /\ DemandBoundsCount'
  <2>1. Holding' = Holding /\ UNCHANGED <<pool, count>>
    BY <1>0, <1>3 DEF Check, GoTo, Holding, Shape, TypeOK, Locals
  <2>2. Trying' = Trying \/ Trying' = Trying \ {u}
    BY <1>0, <1>3 DEF Check, GoTo, Trying, Shape, TypeOK
  <2>3. T' <= T /\ T' \in Nat
    <3>1. Cardinality(Trying \ {u}) <= Cardinality(Trying) /\ Cardinality(Trying \ {u}) \in Nat
      BY <1>0, FS_Subset, FS_CardinalityType
    <3>2. Cardinality(Trying') <= Cardinality(Trying) /\ Cardinality(Trying') \in Nat
      <4>1. CASE Trying' = Trying
        <5>1. Cardinality(Trying) \in Nat
          BY <1>0 DEF T
        <5> QED BY <4>1, <5>1
      <4>2. CASE Trying' = Trying \ {u}
        BY <3>1, <4>2
      <4> QED BY <2>2, <4>1, <4>2
    <3> QED BY <3>2 DEF T
  <2> QED BY <1>0, <1>S, <2>1, <2>3 DEF H
<1>4. ASSUME NEW u \in Users, CountNew(u) PROVE CountIsExact' /\ DemandBoundsCount'
  <2>1. Holding' = Holding \cup {u} /\ u \notin Holding
    BY <1>0, <1>4 DEF CountNew, GoTo, Holding, Shape, TypeOK, Locals
  <2>2. Trying' = Trying \ {u} /\ u \in Trying
    BY <1>0, <1>4 DEF CountNew, GoTo, Trying, Shape, TypeOK
  <2>3. H' = H + 1 /\ T' = T - 1
    BY <1>0, <2>1, <2>2, FS_AddElement, FS_RemoveElement DEF H, T
  <2>4. count' = count + 1 /\ pool' = pool
    BY <1>4 DEF CountNew
  <2> QED BY <1>0, <1>S, <2>3, <2>4
<1>5. ASSUME NEW u \in Users, GetPooled(u) PROVE CountIsExact' /\ DemandBoundsCount'
  <2>1. pool' = Tail(pool) /\ pool # <<>> /\ count' = count /\ pool \in Seq(Conns)
    BY <1>0, <1>5 DEF GetPooled, Shape, TypeOK
  <2>2. Head(pool) \in Conns /\ Head(pool) \notin closed
    BY <1>0, <2>1 DEF Shape, PooledAreOpen, InPool
  <2>3. Holding' = Holding \cup {u} /\ u \notin Holding
    BY <1>0, <1>5, <2>2, PoolAssumption DEF GetPooled, GoTo, Holding, Shape, TypeOK, Locals
  <2>4. Trying' = Trying
    BY <1>0, <1>5, <2>2 DEF GetPooled, GoTo, Trying, Shape, TypeOK
  <2>5. H' = H + 1 /\ T' = T
    BY <1>0, <2>3, <2>4, FS_AddElement DEF H, T
  <2>6. Len(pool') = Len(pool) - 1
    BY <2>1
  <2> QED BY <1>0, <1>S, <2>1, <2>5, <2>6
<1>6. ASSUME NEW u \in Users, Put(u) \/ Release(u) PROVE CountIsExact' /\ DemandBoundsCount'
  <2>1. Holding' = Holding \ {u} /\ u \in Holding
    BY <1>0, <1>6 DEF Put, Release, GoTo, Holding, Shape, TypeOK, Locals
  <2>2. Trying' = Trying
    BY <1>0, <1>6 DEF Put, Release, GoTo, Trying, Shape, TypeOK
  <2>3. H' = H - 1 /\ T' = T
    BY <1>0, <2>1, <2>2, FS_RemoveElement DEF H, T
  <2>4. \/ count' = count /\ Len(pool') = Len(pool) + 1
        \/ count' = count - 1 /\ pool' = pool
    BY <1>0, <1>6 DEF Put, Release, Shape, TypeOK
  <2> QED BY <1>0, <1>S, <2>3, <2>4
<1>7. ASSUME UNCHANGED <<pool, count, pc, held>> PROVE CountIsExact' /\ DemandBoundsCount'
  BY <1>7 DEF Inv, CountIsExact, DemandBoundsCount, Holding, Trying
<1>8. ASSUME NEW c \in Conns, Break(c) PROVE CountIsExact' /\ DemandBoundsCount'
  BY <1>7, <1>8 DEF Break
<1>9. CASE UNCHANGED vars
  BY <1>7, <1>9 DEF vars
<1> QED
  BY <1>1, <1>2, <1>3, <1>4, <1>5, <1>6, <1>8, <1>9 DEF Next, UserNext, GetStep

(* The invariant is inductive. *)
LEMMA Invariance == Spec => []Inv
<1>1. Inv /\ [Next]_vars => Inv'
  BY ShapeStep, CountStep DEF Inv
<1> QED BY InitShape, <1>1, PTL DEF Spec

-----------------------------------------------------------------------------
(* The results.                                                            *)

(* The variables of pool.go keep their types and the channel its capacity. *)
THEOREM PoolTypeCorrect == Spec => []TypeOK
<1>1. Inv => TypeOK
  BY DEF Inv, Shape
<1> QED BY Invariance, <1>1, PTL

(* No two goroutines ever talk to Quasar over one connection. *)
THEOREM ConnectionsAreExclusive == Spec => []Exclusive
<1>1. Inv => Exclusive
  BY DEF Inv, Shape
<1> QED BY Invariance, <1>1, PTL

(* A closed connection never enters the channel, so the branch of Get that *)
(* would lose it from the count is never taken.                            *)
THEOREM NothingClosedIsPooled == Spec => []PooledAreOpen
<1>1. Inv => PooledAreOpen
  BY DEF Inv, Shape
<1> QED BY Invariance, <1>1, PTL

(* The atomic count is the number of pooled and counted connections.       *)
THEOREM CountNeverDrifts == Spec => []CountIsExact
<1>1. Inv => CountIsExact
  BY DEF Inv
<1> QED BY Invariance, <1>1, PTL

(* The count and the goroutines on their way to raise it never pass the    *)
(* number of goroutines, nor half the maximum if that is more.             *)
THEOREM CountFollowsDemand == Spec => []DemandBoundsCount
<1>1. Inv => DemandBoundsCount
  BY DEF Inv
<1> QED BY Invariance, <1>1, PTL

(* With no more goroutines than the maximum, a goroutine that checks the   *)
(* count finds room, so Get never returns nil.                             *)
THEOREM EnoughConnections ==
  ASSUME Cardinality(Users) <= Max
  PROVE  Spec => []GetGivesAConnection
<1>1. Init => GetGivesAConnection
  BY DEF Init, GetGivesAConnection
<1>2. ASSUME Inv, GetGivesAConnection, [Next]_vars PROVE GetGivesAConnection'
  <2>0. TypeOK
    BY <1>2 DEF Inv, Shape
  <2>1. ASSUME NEW u \in Users, Check(u) PROVE GetGivesAConnection'
    <3>1. Trying \in SUBSET Users /\ u \in Trying
      BY <2>1 DEF Trying, Check
    <3>2. Cardinality(Trying) \in Nat /\ Cardinality(Trying) # 0
      BY <3>1, Finite, FS_EmptySet
    <3>3. Cardinality(Users) \in Nat
      BY PoolAssumption, FS_CardinalityType
    <3>4. count \in Nat /\ count + Cardinality(Trying) <= Max
      <4>1. Max \div 2 <= Max
        BY PoolAssumption
      <4> QED BY <1>2, <2>0, <3>2, <3>3, <4>1, PoolAssumption DEF Inv, DemandBoundsCount, TypeOK
    <3>5. count < Max
      BY <3>2, <3>4, PoolAssumption
    <3> QED BY <1>2, <2>0, <2>1, <3>5 DEF Check, GoTo, TypeOK, GetGivesAConnection
  <2>2. ASSUME NEW u \in Users, CountNew(u) PROVE GetGivesAConnection'
    BY <1>2, <2>0, <2>2 DEF CountNew, GoTo, TypeOK, GetGivesAConnection, Inv, Shape, Locals
  <2>3. ASSUME NEW u \in Users, GetPooled(u) PROVE GetGivesAConnection'
    <3>1. Head(pool) \in Conns
      BY <2>0, <2>3 DEF GetPooled, TypeOK
    <3> QED BY <1>2, <2>0, <2>3, <3>1, PoolAssumption
            DEF GetPooled, GoTo, TypeOK, GetGivesAConnection
  <2>4. ASSUME NEW u \in Users,
               Call(u) \/ GetEmpty(u) \/ DialFails(u) \/ Wait(u) \/ UseNil(u) \/ UseDone(u)
                 \/ ReceiveFails(u) \/ PutFull(u)
        PROVE  GetGivesAConnection'
    BY <1>2, <2>0, <2>4 DEF Call, GetEmpty, DialFails, Wait, UseNil, UseDone, ReceiveFails,
                            PutFull, GoTo, TypeOK, GetGivesAConnection
  <2>5. ASSUME NEW u \in Users, Dial(u) \/ Put(u) \/ Release(u) PROVE GetGivesAConnection'
    BY <1>2, <2>0, <2>5, PoolAssumption
       DEF Dial, Put, Release, GoTo, TypeOK, GetGivesAConnection
  <2>6. ASSUME NEW c \in Conns, Break(c) PROVE GetGivesAConnection'
    BY <1>2, <2>6 DEF Break, GetGivesAConnection
  <2>7. CASE UNCHANGED vars
    BY <1>2, <2>7 DEF vars, GetGivesAConnection
  <2> QED BY <1>2, <2>1, <2>2, <2>3, <2>4, <2>5, <2>6, <2>7 DEF Next, UserNext, GetStep
<1> QED BY Invariance, <1>1, <1>2, PTL DEF Spec

(* The connections in hand are no more than the goroutines that hold them. *)
LEMMA HandsCount ==
  ASSUME Shape
  PROVE  /\ IsFiniteSet(InHand) /\ Cardinality(InHand) \in Nat
         /\ Cardinality(InHand) <= Cardinality(Holding) + Cardinality(Trying)
<1>1. PICK S : S = {u \in Users : held[u] # None}
  OBVIOUS
<1>2. S \subseteq Holding \cup Trying
  BY <1>1 DEF Holding, Trying
<1>3. /\ IsFiniteSet(Holding) /\ Cardinality(Holding) \in Nat
      /\ IsFiniteSet(Trying) /\ Cardinality(Trying) \in Nat
  BY HoldersAndTriers
<1>4. /\ IsFiniteSet(S) /\ Cardinality(S) \in Nat
      /\ Cardinality(S) <= Cardinality(Holding) + Cardinality(Trying)
  <2>1. /\ IsFiniteSet(Holding \cup Trying)
        /\ Cardinality(Holding \cup Trying)
             = Cardinality(Holding) + Cardinality(Trying) - Cardinality(Holding \cap Trying)
    BY <1>3, FS_Union
  <2>2. Cardinality(Holding \cap Trying) \in Nat
    BY <1>3, FS_Subset, FS_CardinalityType
  <2>3. IsFiniteSet(S) /\ Cardinality(S) <= Cardinality(Holding \cup Trying)
    BY <1>2, <2>1, FS_Subset
  <2>4. Cardinality(S) \in Nat /\ Cardinality(Holding \cup Trying) \in Nat
    BY <2>1, <2>3, FS_CardinalityType
  <2> QED BY <1>3, <2>1, <2>2, <2>3, <2>4
<1>5. [u \in S |-> held[u]] \in Surjection(S, InHand)
  BY <1>1 DEF Surjection, InHand
<1>6. IsFiniteSet(InHand) /\ Cardinality(InHand) <= Cardinality(S)
  BY <1>4, <1>5, FS_Surjection
<1> QED BY <1>3, <1>4, <1>6, FS_CardinalityType

(* The connections in the channel are no more than its length. *)
LEMMA PoolCount ==
  ASSUME Shape
  PROVE  IsFiniteSet(InPool) /\ Cardinality(InPool) \in Nat /\ Cardinality(InPool) <= Len(pool)
<1>1. pool \in Surjection(1..Len(pool), InPool) /\ Len(pool) \in Nat
  BY DEF Shape, TypeOK, Surjection, InPool
<1>2. IsFiniteSet(1..Len(pool)) /\ Cardinality(1..Len(pool)) = Len(pool)
  BY <1>1, FS_Interval
<1> QED BY <1>1, <1>2, FS_Surjection, FS_CardinalityType

(* With no more goroutines than the maximum, no more connections than the  *)
(* maximum are open.                                                       *)
THEOREM NoMoreThanTheMaximum ==
  ASSUME Cardinality(Users) <= Max
  PROVE  Spec => []AtMostMax
<1>1. ASSUME Inv PROVE AtMostMax
  <2>0. Shape /\ CountIsExact /\ DemandBoundsCount
    BY <1>1 DEF Inv
  <2>1. /\ Cardinality(Holding) \in Nat /\ Cardinality(Trying) \in Nat
        /\ Cardinality(Users) \in Nat
    BY <2>0, HoldersAndTriers
  <2>2. /\ IsFiniteSet(InPool) /\ Cardinality(InPool) \in Nat
        /\ Cardinality(InPool) <= Len(pool) /\ Len(pool) \in Nat
    BY <2>0, PoolCount DEF Shape, TypeOK
  <2>3. /\ IsFiniteSet(InHand) /\ Cardinality(InHand) \in Nat
        /\ Cardinality(InHand) <= Cardinality(Holding) + Cardinality(Trying)
    BY <2>0, HandsCount
  <2>4. Len(pool) + Cardinality(Holding) + Cardinality(Trying) <= Max
    <3>1. Max \div 2 <= Max /\ Max \div 2 \in Nat
      BY PoolAssumption
    <3> QED BY <2>0, <2>1, <2>2, <3>1, PoolAssumption DEF CountIsExact, DemandBoundsCount
  <2>5. /\ IsFiniteSet(InPool \cup InHand)
        /\ Cardinality(InPool \cup InHand)
             = Cardinality(InPool) + Cardinality(InHand) - Cardinality(InPool \cap InHand)
    BY <2>2, <2>3, FS_Union
  <2>6. Cardinality(InPool \cap InHand) \in Nat
    BY <2>2, FS_Subset, FS_CardinalityType
  <2>7. Cardinality(InPool \cup InHand) <= Max /\ Cardinality(InPool \cup InHand) \in Nat
    BY <2>1, <2>2, <2>3, <2>4, <2>5, <2>6, PoolAssumption, FS_CardinalityType
  <2>8. Open \in SUBSET (InPool \cup InHand)
    BY DEF Open
  <2>9. IsFiniteSet(Open) /\ Cardinality(Open) <= Cardinality(InPool \cup InHand)
    BY <2>5, <2>8, FS_Subset
  <2> QED BY <2>7, <2>9, FS_CardinalityType, PoolAssumption DEF AtMostMax
<1> QED BY Invariance, <1>1, PTL

=============================================================================

---------------------------- MODULE UploadsProofs ----------------------------
(***************************************************************************)
(* For any number of requests, uploads of any paths and depth, packets and *)
(* message objects: tags come from the nearest path that has them, answers *)
(* are true, no two packets share an object or a buffer, and no stream     *)
(* gets tags that were not sent for it unless a packet was cut short.      *)
(***************************************************************************)
EXTENDS Uploads, FiniteSetTheorems, SequenceTheorems, TLAPS

(* Pools and handlers hold objects and buffers only, each in one place.    *)
(* That a handler at "put" or before has one of each is needed so that     *)
(* what it puts is an object and a buffer.                                 *)
Hold ==
  /\ obj \in [Handlers -> Objects \cup {None}]
  /\ pooled \subseteq Objects
  /\ buffer \in [Handlers -> Buffers \cup {None}]
  /\ spare \subseteq Buffers
  /\ DOMAIN pc = Handlers
  /\ \A h \in Handlers : pc[h] \in {"addpacket", "put"} => obj[h] # None /\ buffer[h] # None
  /\ ObjectsAreExclusive

(* Only two steps touch the pools or what a handler has of them.  The      *)
(* others leave them, and send no handler to "put" or "addpacket" but from *)
(* "addpacket".                                                            *)
Keeps ==
  /\ UNCHANGED <<obj, pooled, buffer, spare>>
  /\ DOMAIN pc' = DOMAIN pc
  /\ \A h \in Handlers : pc'[h] \in {"addpacket", "put"} => pc[h] \in {"addpacket", "put"}

LEMMA KeepsHold == Hold /\ Keeps => Hold'
BY DEF Hold, Keeps, ObjectsAreExclusive

(* Every step but a packet's first and last is such a step. *)
LEMMA OtherSteps ==
  ASSUME DOMAIN pc = Handlers, NEW h \in Handlers,
         \/ ReceiveJSON(h) \/ CollapsePath(h) \/ CollapseDone(h) \/ AddMessage(h)
         \/ Respond(h) \/ AddPacket(h)
  PROVE  Keeps
<1>1. CASE ReceiveJSON(h)
  BY <1>1 DEF ReceiveJSON, pools, Keeps, GoTo
<1>2. CASE CollapsePath(h)
  BY <1>2 DEF CollapsePath, pools, Keeps, GoTo
<1>3. CASE CollapseDone(h)
  BY <1>3 DEF CollapseDone, pools, Keeps, GoTo
<1>4. CASE AddMessage(h)
  BY <1>4 DEF AddMessage, pools, Keeps, GoTo
<1>5. CASE Respond(h)
  BY <1>5 DEF Respond, pools, Keeps, GoTo
<1>6. CASE AddPacket(h)
  BY <1>6 DEF AddPacket, Keeps, GoTo
<1> QED
  BY <1>1, <1>2, <1>3, <1>4, <1>5, <1>6

(* What ReceivePacket chooses. *)
Taken(h, packet, o, b, read) ==
  /\ sent' = [sent EXCEPT ![h] = packet]
  /\ pooled' = pooled \ {o} /\ spare' = spare \ {b}
  /\ obj' = [obj EXCEPT ![h] = IF read.kind = "garbled" THEN None ELSE o]
  /\ buffer' = [buffer EXCEPT ![h] = b]
  /\ bytes' = [bytes EXCEPT ![b] = Overwritten(bytes[b], packet)]
  /\ \E m \in Decoded(content[o], read) : content' = [content EXCEPT ![o] = m]
  /\ up' = (read.kind # "garbled")
  /\ GoTo(h, CASE read.kind = "whole" -> "addpacket"
               [] read.kind = "partial" -> "put"
               [] read.kind = "garbled" -> "panicked")

LEMMA TakenExists ==
  ASSUME NEW h \in Handlers, ReceivePacket(h)
  PROVE  \E packet \in Packets, o \in pooled \cup NewObjects, b \in spare \cup NewBuffers :
           \E read \in AsRead(Overwritten(bytes[b], packet), packet) : Taken(h, packet, o, b, read)
BY Zenon DEF ReceivePacket, Taken

(* What is read of a packet: all of it, if it was not cut. *)
LEMMA ReadFacts ==
  ASSUME UploadsAssumption, NEW packet \in Packets, NEW b \in Buffers, bytes \in [Buffers -> Images],
         NEW read \in AsRead(Overwritten(bytes[b], packet), packet)
  PROVE  /\ read \in PacketType
         /\ ~IsCut(packet) => read = packet
         /\ packet.ends # 0 => read.uuid = packet.uuid
<1>1. packet \in PacketType
  BY DEF UploadsAssumption
<1> DEFINE image == Overwritten(bytes[b], packet)
<1>2. bytes[b] \in Images
  OBVIOUS
<1>3. image \in Images /\ (packet.ends # 0 => image.uuid = packet.uuid)
  BY <1>1, <1>2 DEF Overwritten, Images, PacketType
<1>4. CASE ~IsCut(packet)
  BY <1>1, <1>4 DEF AsRead
<1>5. CASE IsCut(packet) /\ read = [packet EXCEPT !.kind = "garbled"]
  BY <1>1, <1>5 DEF PacketType
<1>6. CASE IsCut(packet) /\ read = Completed(image, packet) /\ read.uuid # None
  <2> HIDE DEF image
  <2>1. read = [packet EXCEPT !.uuid = image.uuid,
                              !.md = IF packet.md = None THEN None ELSE image.md,
                              !.props = IF packet.props = None THEN None ELSE image.props]
    BY <1>6 DEF Completed
  <2>2. /\ image.uuid \in UUIDs \cup {None} /\ image.md \in Dicts \cup {None}
        /\ image.props \in Properties \cup {None}
    BY <1>3 DEF Images
  <2>3. read.uuid = image.uuid
    BY <1>1, <2>1 DEF PacketType
  <2>4. read \in PacketType
    BY <1>1, <1>6, <2>1, <2>2, <2>3 DEF PacketType
  <2> QED
    BY <1>3, <1>6, <2>3, <2>4
<1>7. \/ ~IsCut(packet)
      \/ IsCut(packet) /\ read = [packet EXCEPT !.kind = "garbled"]
      \/ IsCut(packet) /\ read = Completed(image, packet) /\ read.uuid # None
  BY DEF AsRead
<1> QED
  BY <1>4, <1>5, <1>6, <1>7

(* An object and a buffer are taken that are pooled, and so nobody's, or   *)
(* new.                                                                    *)
LEMMA ReceiveHold ==
  ASSUME UploadsAssumption, Hold, bytes \in [Buffers -> Images], NEW h \in Handlers,
         NEW packet \in Packets, NEW o \in pooled \cup NewObjects, NEW b \in spare \cup NewBuffers,
         NEW read \in PacketType, Taken(h, packet, o, b, read)
  PROVE  Hold'
<1>1. /\ pooled' = pooled \ {o} /\ spare' = spare \ {b}
      /\ obj' = [obj EXCEPT ![h] = IF read.kind = "garbled" THEN None ELSE o]
      /\ buffer' = [buffer EXCEPT ![h] = b]
      /\ GoTo(h, CASE read.kind = "whole" -> "addpacket"
                   [] read.kind = "partial" -> "put"
                   [] read.kind = "garbled" -> "panicked")
  BY DEF Taken
<1>2. o \in Objects /\ o # None /\ \A g \in Handlers : obj[g] # o
  <2>1. CASE o \in pooled
    BY <2>1 DEF Hold, ObjectsAreExclusive, UploadsAssumption
  <2>2. CASE o \in NewObjects
    BY <2>2 DEF NewObjects, UploadsAssumption
  <2> QED
    BY <2>1, <2>2
<1>3. b \in Buffers /\ b # None /\ \A g \in Handlers : buffer[g] # b
  <2>1. CASE b \in spare
    BY <2>1 DEF Hold, ObjectsAreExclusive, UploadsAssumption
  <2>2. CASE b \in NewBuffers
    BY <2>2 DEF NewBuffers, UploadsAssumption
  <2> QED
    BY <2>1, <2>2
<1>4. read.kind \in {"whole", "partial", "garbled"}
  BY DEF PacketType
<1>5. /\ obj' \in [Handlers -> Objects \cup {None}] /\ pooled' \subseteq Objects
      /\ buffer' \in [Handlers -> Buffers \cup {None}] /\ spare' \subseteq Buffers
      /\ DOMAIN pc' = Handlers
  BY <1>1, <1>2, <1>3 DEF Hold, GoTo
<1>6. \A g \in Handlers : pc'[g] \in {"addpacket", "put"} => obj'[g] # None /\ buffer'[g] # None
  <2> SUFFICES ASSUME NEW g \in Handlers, pc'[g] \in {"addpacket", "put"}
               PROVE  obj'[g] # None /\ buffer'[g] # None
    OBVIOUS
  <2>1. CASE g = h
    BY <1>1, <1>2, <1>3, <1>4, <2>1 DEF Hold, GoTo
  <2>2. CASE g # h
    BY <1>1, <2>2 DEF Hold, GoTo
  <2> QED
    BY <2>1, <2>2
<1>7. ObjectsAreExclusive'
  BY <1>1, <1>2, <1>3 DEF Hold, ObjectsAreExclusive
<1> QED
  BY <1>5, <1>6, <1>7 DEF Hold

(* What a handler puts back is nobody else's. *)
LEMMA PutHold ==
  ASSUME UploadsAssumption, Hold, NEW h \in Handlers, PutObject(h)
  PROVE  Hold'
<1>1. /\ pc[h] = "put" /\ pc' = [pc EXCEPT ![h] = "done"]
      /\ pooled' = pooled \cup {obj[h]} /\ obj' = [obj EXCEPT ![h] = None]
      /\ spare' = spare \cup {buffer[h]} /\ buffer' = [buffer EXCEPT ![h] = None]
  BY DEF PutObject, GoTo
<1>2. obj[h] \in Objects /\ buffer[h] \in Buffers
  BY <1>1 DEF Hold
<1>3. ObjectsAreExclusive'
  BY <1>1, <1>2 DEF Hold, ObjectsAreExclusive
<1> QED
  BY <1>1, <1>2, <1>3 DEF Hold


-----------------------------------------------------------------------------
(* Numbers, and the loop over the prefixes of a path.                      *)

(* Induction up to n, for membership in a set.  If not all of 0..n were in *)
(* T, there would be a smallest of the sets (0..i) \ T with i not in T.    *)
LEMMA SetInduction ==
  ASSUME NEW n \in Nat, NEW T, 0 \in T, \A i \in T : i < n => i + 1 \in T
  PROVE  \A i \in 0..n : i \in T
<1> SUFFICES ASSUME (0..n) \ T # {} PROVE FALSE
  OBVIOUS
<1> DEFINE F == {(0..i) \ T : i \in (0..n) \ T}
<1> DEFINE S == 0..n
<1>1. FiniteSubsetsOf(S) = SUBSET S
  <2>1. IsFiniteSet(S)
    BY FS_Interval
  <2> HIDE DEF S
  <2> QED
    BY <2>1, FS_FiniteSubsetsOfFinite
<1>2. F \subseteq SUBSET S /\ F # {}
  <2>1. ASSUME NEW y \in 0..n, NEW z \in 0..y PROVE z \in S
    BY <2>1
  <2> QED
    BY <2>1, Zenon
<1>3. PICK s \in F : \A r \in F : <<r, s>> \notin StrictSubsetOrdering(S)
  <2>1. IsWellFoundedOn(StrictSubsetOrdering(S), SUBSET S)
    BY <1>1, FS_StrictSubsetOrderingWellFounded
  <2> HIDE DEF F, S
  <2> QED
    BY <1>2, <2>1, WFMin
<1>4. PICK y \in (0..n) \ T : s = (0..y) \ T
  BY <1>3
<1>5. y > 0 /\ y - 1 \in 0..n /\ y - 1 \notin T
  <2>1. y \in Nat /\ y \in 0..n /\ y \notin T
    BY <1>4
  <2>2. y # 0
    BY <2>1
  <2>3. y - 1 \in 0..n /\ y - 1 < n /\ (y - 1) + 1 = y
    BY <2>1, <2>2
  <2>4. y - 1 \notin T
    <3> SUFFICES ASSUME y - 1 \in T PROVE FALSE
      OBVIOUS
    <3>1. (y - 1) + 1 \in T
      BY <2>3
    <3> QED
      BY <2>1, <2>3, <3>1
  <2> QED
    BY <2>1, <2>2, <2>3, <2>4
<1>6. (0..(y - 1)) \ T \in F /\ (0..(y - 1)) \ T \subseteq s /\ y \in s /\ y \notin (0..(y - 1)) \ T
  BY <1>4, <1>5
<1>7. (0..(y - 1)) \ T \in SUBSET S /\ s \in SUBSET S
  BY <1>2, <1>3, <1>6
<1>8. <<(0..(y - 1)) \ T, s>> \in StrictSubsetOrdering(S)
  <2> HIDE DEF F, S
  <2> QED
    BY <1>6, <1>7 DEF StrictSubsetOrdering
<1> QED
  BY <1>3, <1>6, <1>8

(* f is what the loop of CollapseToTimeseries computes in its first n      *)
(* rounds. *)
Loop(t, p, n, f) ==
  f = [i \in 0..n |->
         IF i = 0 THEN t[p]
         ELSE IF Above[p][i] \in DOMAIN t THEN Inherit(f[i - 1], t[Above[p][i]]) ELSE f[i - 1]]

(* The function that After defines exists: a step at a time. *)
LEMMA AfterExists ==
  ASSUME NEW t, NEW p, Len(Above[p]) \in Nat
  PROVE  Loop(t, p, Len(Above[p]), After(t, p))
<1> DEFINE n == Len(Above[p])
           T == {i \in Nat : \E f : Loop(t, p, i, f)}
<1>1. 0 \in T
  <2>1. Loop(t, p, 0, [i \in 0..0 |-> t[p]])
    BY DEF Loop
  <2> QED
    BY <2>1
<1>2. ASSUME NEW k \in T PROVE k + 1 \in T
  <2>1. PICK f : Loop(t, p, k, f)
    OBVIOUS
  <2> DEFINE g == [i \in 0..(k + 1) |->
         IF i = 0 THEN t[p]
         ELSE IF Above[p][i] \in DOMAIN t THEN Inherit(f[i - 1], t[Above[p][i]]) ELSE f[i - 1]]
  <2>2. \A i \in 0..k : g[i] = f[i]
    BY <2>1 DEF Loop
  <2>3. \A i \in 0..(k + 1) : i # 0 => i - 1 \in 0..k
    OBVIOUS
  <2>4. Loop(t, p, k + 1, g)
    BY <2>2, <2>3 DEF Loop
  <2> QED
    BY <2>4
<1>3. \A i \in 0..n : i \in T
  <2> HIDE DEF T
  <2> QED
    BY <1>1, <1>2, SetInduction
<1>4. \E f : Loop(t, p, n, f)
  BY <1>3
<1> QED
  BY <1>4 DEF After, Loop

(* The least element of a set of numbers. *)
LEMMA Least == ASSUME NEW T \in SUBSET Nat, T # {} PROVE Min(T) \in T /\ \A j \in T : Min(T) <= j
<1>1. PICK x \in T : TRUE
  OBVIOUS
<1> DEFINE U == {i \in Nat : \A j \in T : i <= j}
<1>2. \E m \in T : \A j \in T : m <= j
  <2> SUFFICES ASSUME \A m \in T : \E j \in T : ~(m <= j) PROVE FALSE
    OBVIOUS
  <2>1. 0 \in U
    OBVIOUS
  <2>2. ASSUME NEW i \in U PROVE i + 1 \in U
    <3>1. i \notin T
      OBVIOUS
    <3> QED
      BY <3>1
  <2>3. \A i \in 0..(x + 1) : i \in U
    <3> HIDE DEF U
    <3> QED
      BY <1>1, <2>1, <2>2, SetInduction
  <2> QED
    BY <1>1, <2>3
<1> QED
  BY <1>2 DEF Min

-----------------------------------------------------------------------------
(* The nearest path with a key.                                            *)

(* A path and its prefixes, the nearest first. *)
Chain(p) == <<p>> \o Above[p]

Has(t, q, k) == q \in DOMAIN t /\ t[q].md[k] # Unset

LEMMA ChainFacts ==
  ASSUME UploadsAssumption, NEW p \in Paths
  PROVE  /\ Above[p] \in Seq(Paths) /\ Len(Above[p]) \in Nat
         /\ Chain(p) \in Seq(Paths) /\ Len(Chain(p)) = Len(Above[p]) + 1
         /\ Chain(p)[1] = p
         /\ \A i \in 1..Len(Above[p]) : Above[p][i] \in Paths /\ Chain(p)[i + 1] = Above[p][i]
<1>1. Above[p] \in Seq(Paths)
  BY DEF UploadsAssumption
<1> QED
  BY <1>1 DEF Chain

LEMMA Suffix ==
  ASSUME NEW S, NEW c \in Seq(S), NEW i \in 1..Len(c)
  PROVE  /\ Len(SubSeq(c, i + 1, Len(c))) = Len(c) - i
         /\ \A j \in 1..(Len(c) - i) : SubSeq(c, i + 1, Len(c))[j] = c[i + j]
<1> DEFINE m == i + 1
           n == Len(c)
<1>1. i \in Int /\ m \in Int /\ n \in Int /\ 1 <= i /\ i <= n /\ m = i + 1
  OBVIOUS
<1>2. \A k \in m..n : c[k] \in S
  OBVIOUS
<1> HIDE DEF m, n
<1>3. /\ Len(SubSeq(c, m, n)) = IF m <= n THEN n - m + 1 ELSE 0
      /\ \A k \in 1..(n - m + 1) : SubSeq(c, m, n)[k] = c[m + k - 1]
  BY <1>1, <1>2, SubSeqProperties
<1>4. Len(SubSeq(c, m, n)) = n - i
  BY <1>1, <1>3
<1>5. ASSUME NEW j \in 1..(n - i) PROVE SubSeq(c, m, n)[j] = c[i + j]
  <2>1. j \in 1..(n - m + 1) /\ m + j - 1 = i + j
    BY <1>1
  <2> QED
    BY <1>3, <2>1
<1> QED
  BY <1>4, <1>5 DEF m, n

LEMMA Offsets ==
  ASSUME NEW n \in Nat, NEW i \in Nat, NEW j \in 1..(n - i + 1), 1 <= i, j # 1
  PROVE  /\ j - 1 \in 1..(n - i) /\ (j - 1) + 1 = j
         /\ i + (j - 1) \in 1..n /\ (i + (j - 1)) + 1 = i + j
OBVIOUS

(* The prefixes of a prefix come after it. *)
LEMMA ChainOfPrefix ==
  ASSUME UploadsAssumption, NEW p \in Paths, NEW i \in 1..Len(Above[p])
  PROVE  /\ Above[p][i] \in Paths
         /\ Len(Chain(Above[p][i])) = Len(Chain(p)) - i
         /\ \A j \in 1..Len(Chain(Above[p][i])) : Chain(Above[p][i])[j] = Chain(p)[i + j]
<1> DEFINE q == Above[p][i]
           n == Len(Above[p])
<1>1. Above[p] \in Seq(Paths) /\ n \in Nat /\ q \in Paths /\ i \in DOMAIN Above[p]
  BY ChainFacts
<1>2. Above[q] = SubSeq(Above[p], i + 1, n)
  BY <1>1 DEF UploadsAssumption
<1>3. /\ Len(Above[q]) = n - i
      /\ \A j \in 1..(n - i) : Above[q][j] = Above[p][i + j]
  <2>1. Above[p] \in Seq(Paths) /\ i \in 1..Len(Above[p])
    BY ChainFacts
  <2> QED
    BY <1>2, <2>1, Suffix
<1>4. /\ Len(Chain(q)) = n - i + 1 /\ Len(Chain(p)) = n + 1
      /\ Chain(q)[1] = q /\ Chain(p)[i + 1] = q
      /\ \A j \in 1..(n - i) : Chain(q)[j + 1] = Above[q][j]
      /\ \A j \in 1..n : Chain(p)[j + 1] = Above[p][j]
  BY <1>1, <1>3, ChainFacts
<1>5. ASSUME NEW j \in 1..(n - i + 1) PROVE Chain(q)[j] = Chain(p)[i + j]
  <2>1. CASE j = 1
    BY <1>4, <2>1
  <2>2. CASE j # 1
    <3> HIDE DEF n, q
    <3>1. j - 1 \in 1..(n - i) /\ (j - 1) + 1 = j
      BY <1>1, <1>5, <2>2, Offsets
    <3>2. i + (j - 1) \in 1..n /\ (i + (j - 1)) + 1 = i + j
      BY <1>1, <1>5, <2>2, Offsets
    <3>3. Chain(q)[(j - 1) + 1] = Above[q][j - 1]
      BY <1>4, <3>1
    <3>4. Above[q][j - 1] = Above[p][i + (j - 1)]
      BY <1>3, <3>1
    <3>5. Chain(p)[(i + (j - 1)) + 1] = Above[p][i + (j - 1)]
      BY <1>4, <3>2
    <3> QED
      BY <3>1, <3>2, <3>3, <3>4, <3>5
  <2> QED
    BY <2>1, <2>2
<1> QED
  BY <1>1, <1>4, <1>5

(* Nearest is what it is said to be. *)
LEMMA NearestFirst ==
  ASSUME UploadsAssumption, NEW t, NEW p \in Paths, NEW k \in Keys
  PROVE  \/ Nearest(t, p)[k] = Unset /\ \A i \in 1..Len(Chain(p)) : ~Has(t, Chain(p)[i], k)
         \/ \E i \in 1..Len(Chain(p)) :
              /\ Has(t, Chain(p)[i], k) /\ \A j \in 1..(i - 1) : ~Has(t, Chain(p)[j], k)
              /\ Nearest(t, p)[k] = t[Chain(p)[i]].md[k]
<1> DEFINE I == {i \in 1..Len(Chain(p)) : Chain(p)[i] \in DOMAIN t /\ t[Chain(p)[i]].md[k] # Unset}
<1>1. I \in SUBSET Nat /\ Len(Chain(p)) \in Nat
  BY ChainFacts
<1>5. \A i \in I : i \in 1..Len(Chain(p))
  OBVIOUS
<1>2. Nearest(t, p)[k] = IF (IF I # {} THEN Min(I) ELSE 0) = 0 THEN Unset
                         ELSE t[Chain(p)[IF I # {} THEN Min(I) ELSE 0]].md[k]
  BY DEF Nearest, SelectInSeq, Chain
<1>3. CASE I = {}
  BY <1>2, <1>3 DEF Has
<1>4. CASE I # {}
  <2>1. Min(I) \in I /\ \A j \in I : Min(I) <= j
    <3> HIDE DEF I
    <3> QED
      BY <1>1, <1>4, Least
  <2>2. PICK m \in I : m = Min(I) /\ \A j \in I : m <= j
    BY <2>1
  <2>6. m \in 1..Len(Chain(p)) /\ m # 0
    <3>1. m \in 1..Len(Chain(p))
      BY <1>5, <2>2
    <3> QED
      BY <1>1, <3>1
  <2>3. Nearest(t, p)[k] = t[Chain(p)[m]].md[k]
    BY <1>2, <1>4, <2>2, <2>6
  <2>4. Has(t, Chain(p)[m], k) /\ \A j \in 1..(m - 1) : ~Has(t, Chain(p)[j], k)
    <3>1. Has(t, Chain(p)[m], k)
      BY <2>2 DEF Has
    <3>2. ASSUME NEW j \in 1..(m - 1), Has(t, Chain(p)[j], k) PROVE FALSE
      <4>1. j \in 1..Len(Chain(p)) /\ ~(m <= j)
        BY <1>1, <2>6
      <4>2. j \in I
        BY <3>2, <4>1 DEF Has
      <4> QED
        BY <2>2, <4>1, <4>2
    <3> QED
      BY <3>1, <3>2
  <2> QED
    BY <2>6, <2>3, <2>4
<1> QED
  BY <1>3, <1>4

-----------------------------------------------------------------------------
(* Inheritance.                                                            *)

LEMMA MessageFacts ==
  ASSUME NEW m \in Messages
  PROVE  m.uuid \in UUIDs \cup {None} /\ m.md \in Dicts /\ m.props \in Properties \cup {None}
BY DEF Messages

LEMMA InheritFacts ==
  ASSUME UploadsAssumption, NEW own \in Messages, NEW prefix \in Messages,
         own.props = None => IsEmpty(prefix.props)
  PROVE  /\ Inherit(own, prefix) \in Messages
         /\ Inherit(own, prefix).uuid = own.uuid
         /\ Inherit(own, prefix).md = InheritTags(own.md, prefix.md)
         /\ own.props # None => Inherit(own, prefix).props # None
<1>1. None \notin Properties
  BY DEF UploadsAssumption
<1>2. InheritTags(own.md, prefix.md) \in Dicts
  BY MessageFacts DEF InheritTags, Dicts
<1>3. /\ InheritProperties(own.props, prefix.props) \in Properties \cup {None}
      /\ own.props # None => InheritProperties(own.props, prefix.props) # None
  <2>1. CASE IsEmpty(prefix.props)
    BY <2>1, MessageFacts DEF InheritProperties
  <2>2. CASE ~IsEmpty(prefix.props)
    <3>1. own.props \in Properties /\ prefix.props \in Properties
      BY <2>2, MessageFacts DEF IsEmpty
    <3>2. InheritProperties(own.props, prefix.props) \in Properties
      BY <2>2, <3>1 DEF InheritProperties, Properties
    <3> QED
      BY <1>1, <3>2
  <2> QED
    BY <2>1, <2>2
<1> QED
  BY <1>2, <1>3, MessageFacts DEF Messages, Inherit

(* A whole upload, as sent or as far as it has been collapsed. *)
IsUpload(t) ==
  DOMAIN t \subseteq Paths /\ \A p \in DOMAIN t : t[p] \in Messages

(* The message after each round: its tags, its type, and its own UUID. *)
LEMMA AfterFacts ==
  ASSUME UploadsAssumption, NEW t, IsUpload(t), NEW p \in DOMAIN t, ~NilProperties(t, p)
  PROVE  /\ After(t, p)[0] = t[p]
         /\ \A i \in 0..Len(Above[p]) :
              /\ After(t, p)[i] \in Messages
              /\ After(t, p)[i].uuid = t[p].uuid
         /\ \A i \in 1..Len(Above[p]) :
              After(t, p)[i].md = IF Above[p][i] \in DOMAIN t
                                    THEN InheritTags(After(t, p)[i - 1].md, t[Above[p][i]].md)
                                    ELSE After(t, p)[i - 1].md
<1> DEFINE n == Len(Above[p])
           f == After(t, p)
           T == {i \in 0..n : f[i] \in Messages /\ f[i].uuid = t[p].uuid
                               /\ (t[p].props # None => f[i].props # None)}
<1>1. p \in Paths /\ n \in Nat /\ t[p] \in Messages
  BY ChainFacts DEF IsUpload
<1>2. /\ f[0] = t[p]
      /\ \A i \in 1..n : f[i] = IF Above[p][i] \in DOMAIN t
                                THEN Inherit(f[i - 1], t[Above[p][i]]) ELSE f[i - 1]
  <2>1. Loop(t, p, n, f)
    BY <1>1, AfterExists
  <2>2. 0 \in 0..n /\ \A i \in 1..n : i \in 0..n /\ i # 0
    BY <1>1
  <2> HIDE DEF n, f
  <2> QED
    BY <2>1, <2>2 DEF Loop
<1> HIDE DEF f
<1>3. ASSUME NEW i \in 1..n, f[i - 1] \in Messages, t[p].props # None => f[i - 1].props # None,
             Above[p][i] \in DOMAIN t
      PROVE  /\ t[Above[p][i]] \in Messages
             /\ f[i - 1].props = None => IsEmpty(t[Above[p][i]].props)
  <2>1. Above[p][i] \in Range(Above[p])
    <3>1. i \in DOMAIN Above[p]
      BY <1>1, ChainFacts
    <3> QED
      BY <3>1 DEF Range
  <2> QED
    BY <1>3, <2>1 DEF IsUpload, NilProperties
<1>4. 0 \in T
  BY <1>1, <1>2
<1>5. ASSUME NEW i \in T, i < n PROVE i + 1 \in T
  <2>1. i + 1 \in 1..n /\ (i + 1) - 1 = i /\ i + 1 \in 0..n
    BY <1>1, <1>5
  <2>2. f[i] \in Messages /\ f[i].uuid = t[p].uuid /\ (t[p].props # None => f[i].props # None)
    OBVIOUS
  <2>3. f[i + 1] = IF Above[p][i + 1] \in DOMAIN t
                     THEN Inherit(f[i], t[Above[p][i + 1]]) ELSE f[i]
    BY <1>2, <2>1
  <2>4. CASE Above[p][i + 1] \in DOMAIN t
    <3>1. /\ t[Above[p][i + 1]] \in Messages
          /\ f[i].props = None => IsEmpty(t[Above[p][i + 1]].props)
      BY <1>3, <2>1, <2>2, <2>4
    <3>2. f[i + 1] = Inherit(f[i], t[Above[p][i + 1]])
      BY <2>3, <2>4
    <3> DEFINE prefix == t[Above[p][i + 1]]
    <3>3. /\ Inherit(f[i], prefix) \in Messages
          /\ Inherit(f[i], prefix).uuid = f[i].uuid
          /\ f[i].props # None => Inherit(f[i], prefix).props # None
      <4> HIDE DEF f, prefix
      <4> QED
        BY <2>2, <3>1, InheritFacts DEF prefix
    <3> HIDE DEF f, prefix
    <3> QED
      BY <2>1, <2>2, <3>2, <3>3 DEF prefix
  <2>5. CASE Above[p][i + 1] \notin DOMAIN t
    BY <2>1, <2>2, <2>3, <2>5
  <2> QED
    BY <2>4, <2>5
<1>6. \A i \in 0..n : i \in T
  <2> HIDE DEF T
  <2> QED
    BY <1>1, <1>4, <1>5, SetInduction
<1>7. ASSUME NEW i \in 1..n
      PROVE  f[i].md = IF Above[p][i] \in DOMAIN t
                         THEN InheritTags(f[i - 1].md, t[Above[p][i]].md) ELSE f[i - 1].md
  <2>1. i - 1 \in 0..n
    BY <1>1
  <2>2. f[i - 1] \in Messages /\ (t[p].props # None => f[i - 1].props # None)
    BY <1>6, <2>1
  <2>3. CASE Above[p][i] \in DOMAIN t
    <3>1. /\ t[Above[p][i]] \in Messages
          /\ f[i - 1].props = None => IsEmpty(t[Above[p][i]].props)
      BY <1>3, <2>2, <2>3
    <3>2. f[i] = Inherit(f[i - 1], t[Above[p][i]])
      BY <1>2, <2>3
    <3> QED
      BY <2>2, <2>3, <3>1, <3>2, InheritFacts
  <2>4. CASE Above[p][i] \notin DOMAIN t
    BY <1>2, <2>4
  <2> QED
    BY <2>3, <2>4
<1> QED
  BY <1>2, <1>6, <1>7 DEF f

(* The first i of p's chain do not have k. *)
NoneUpTo(t, p, k, i) == \A j \in 1..i : ~Has(t, Chain(p)[j], k)

LEMMA FirstWins ==
  ASSUME UploadsAssumption, NEW t, NEW p \in Paths, NEW k \in Keys, NEW i \in 1..Len(Chain(p)),
         Has(t, Chain(p)[i], k), NoneUpTo(t, p, k, i - 1)
  PROVE  Nearest(t, p)[k] = t[Chain(p)[i]].md[k]
<1>1. ~(\A m \in 1..Len(Chain(p)) : ~Has(t, Chain(p)[m], k))
  OBVIOUS
<1>2. PICK m \in 1..Len(Chain(p)) :
        /\ Has(t, Chain(p)[m], k) /\ \A j \in 1..(m - 1) : ~Has(t, Chain(p)[j], k)
        /\ Nearest(t, p)[k] = t[Chain(p)[m]].md[k]
  BY <1>1, NearestFirst
<1>3. m \in Nat /\ i \in Nat /\ m >= 1 /\ i >= 1
  BY ChainFacts
<1>4. CASE m < i
  <2>1. m \in 1..(i - 1)
    BY <1>3, <1>4
  <2> QED
    BY <1>2, <2>1 DEF NoneUpTo
<1>5. CASE i < m
  <2>1. i \in 1..(m - 1)
    BY <1>3, <1>5
  <2> QED
    BY <1>2, <2>1
<1>6. CASE m = i
  BY <1>2, <1>6
<1> QED
  BY <1>3, <1>4, <1>5, <1>6

LEMMA OwnWins ==
  ASSUME UploadsAssumption, NEW t, NEW p \in Paths, NEW k \in Keys, Has(t, p, k)
  PROVE  Nearest(t, p)[k] = t[p].md[k]
<1>1. Chain(p)[1] = p /\ 1 \in 1..Len(Chain(p))
  BY ChainFacts
<1>5. ~(\A i \in 1..Len(Chain(p)) : ~Has(t, Chain(p)[i], k))
  BY <1>1
<1>2. PICK i \in 1..Len(Chain(p)) :
        /\ Has(t, Chain(p)[i], k) /\ \A j \in 1..(i - 1) : ~Has(t, Chain(p)[j], k)
        /\ Nearest(t, p)[k] = t[Chain(p)[i]].md[k]
  BY <1>5, NearestFirst
<1>3. Len(Chain(p)) \in Nat
  BY ChainFacts
<1>4. i = 1
  BY <1>1, <1>2, <1>3
<1> QED
  BY <1>1, <1>2, <1>4

(* Where neither p nor the prefixes before q have the key, p inherits what *)
(* q does. *)
LEMMA SameNearest ==
  ASSUME UploadsAssumption, NEW t, NEW p \in Paths, NEW k \in Keys, NEW i \in 1..Len(Above[p]),
         NoneUpTo(t, p, k, i)
  PROVE  Nearest(t, p)[k] = Nearest(t, Above[p][i])[k]
<1> DEFINE q == Above[p][i]
<1>1. /\ q \in Paths /\ i \in Nat
      /\ Len(Chain(p)) \in Nat /\ Len(Chain(q)) = Len(Chain(p)) - i
      /\ \A j \in 1..Len(Chain(q)) : Chain(q)[j] = Chain(p)[i + j]
  BY ChainFacts, ChainOfPrefix
<1> HIDE DEF q
<1>2. CASE \A m \in 1..Len(Chain(q)) : ~Has(t, Chain(q)[m], k)
  <2>1. ASSUME NEW j \in 1..Len(Chain(p)) PROVE ~Has(t, Chain(p)[j], k)
    <3>1. CASE j \in 1..i
      BY <3>1 DEF NoneUpTo
    <3>2. CASE j \notin 1..i
      <4>1. j - i \in 1..Len(Chain(q)) /\ i + (j - i) = j
        BY <1>1, <3>2
      <4>2. Chain(q)[j - i] = Chain(p)[i + (j - i)]
        BY <1>1, <4>1
      <4> QED
        BY <1>2, <4>1, <4>2
    <3> QED
      BY <3>1, <3>2
  <2>2. Nearest(t, p)[k] = Unset
    BY <2>1, NearestFirst
  <2>3. Nearest(t, q)[k] = Unset
    BY <1>1, <1>2, NearestFirst
  <2> QED
    BY <2>2, <2>3 DEF q
<1>3. CASE \E m \in 1..Len(Chain(q)) : Has(t, Chain(q)[m], k)
  <2>1. PICK m \in 1..Len(Chain(q)) :
          /\ Has(t, Chain(q)[m], k) /\ \A j \in 1..(m - 1) : ~Has(t, Chain(q)[j], k)
          /\ Nearest(t, q)[k] = t[Chain(q)[m]].md[k]
    BY <1>1, <1>3, NearestFirst
  <2>2. i + m \in 1..Len(Chain(p)) /\ Chain(q)[m] = Chain(p)[i + m]
    BY <1>1
  <2>3. ASSUME NEW j \in 1..((i + m) - 1) PROVE ~Has(t, Chain(p)[j], k)
    <3>1. CASE j \in 1..i
      BY <3>1 DEF NoneUpTo
    <3>2. CASE j \notin 1..i
      <4>1. j - i \in 1..Len(Chain(q)) /\ j - i \in 1..(m - 1) /\ i + (j - i) = j
        BY <1>1, <3>2
      <4>2. Chain(q)[j - i] = Chain(p)[i + (j - i)]
        BY <1>1, <4>1
      <4> QED
        BY <2>1, <4>1, <4>2
    <3> QED
      BY <3>1, <3>2
  <2>4. Nearest(t, p)[k] = t[Chain(p)[i + m]].md[k]
    <3>1. Has(t, Chain(p)[i + m], k) /\ NoneUpTo(t, p, k, (i + m) - 1)
      BY <2>1, <2>2, <2>3 DEF NoneUpTo
    <3> QED
      BY <2>2, <3>1, FirstWins
  <2> QED
    BY <2>1, <2>2, <2>4 DEF q
<1> QED
  BY <1>2, <1>3

(* Collapsing a path, when any of the others may or may not have been      *)
(* collapsed before it. *)
LEMMA CollapsedIsNearest ==
  ASSUME UploadsAssumption, NEW t, IsUpload(t), NEW c, IsUpload(c), DOMAIN c = DOMAIN t,
         NEW p \in DOMAIN t, c[p].md = t[p].md, ~NilProperties(c, p),
         \A q \in DOMAIN t : c[q].md \in {t[q].md, Nearest(t, q)}
  PROVE  /\ Collapsed(c, p) \in Messages
         /\ Collapsed(c, p).uuid = c[p].uuid
         /\ Collapsed(c, p).md = Nearest(t, p)
<1> DEFINE n == Len(Above[p])
           f == After(c, p)
<1>1. /\ p \in Paths /\ n \in Nat /\ n \in 0..n
      /\ \A i \in 1..n : Above[p][i] \in Paths /\ Chain(p)[i + 1] = Above[p][i]
      /\ Chain(p)[1] = p /\ Len(Chain(p)) = n + 1
  BY ChainFacts DEF IsUpload
<1>2. /\ f[0] = c[p]
      /\ \A i \in 0..n : f[i] \in Messages /\ f[i].uuid = c[p].uuid
      /\ \A i \in 1..n : f[i].md = IF Above[p][i] \in DOMAIN c
                                   THEN InheritTags(f[i - 1].md, c[Above[p][i]].md) ELSE f[i - 1].md
  BY AfterFacts
<1>3. Collapsed(c, p) = f[n]
  BY DEF Collapsed
<1> HIDE DEF f
<1>4. ASSUME NEW k \in Keys PROVE f[n].md[k] = Nearest(t, p)[k]
  <2> DEFINE r == Nearest(t, p)[k]
             Before(i) == \A j \in 1..(i + 1) : ~Has(t, Chain(p)[j], k)
             T == {i \in 0..n : /\ f[i].md[k] \in {Unset, r}
                                /\ f[i].md[k] = Unset => Before(i)}
  <2>1. 0 \in T
    <3>1. f[0].md[k] = t[p].md[k] /\ 0 \in 0..n
      BY <1>1, <1>2
    <3>2. CASE Has(t, p, k)
      BY <1>1, <3>1, <3>2, OwnWins DEF Has
    <3>3. CASE ~Has(t, p, k)
      BY <1>1, <3>1, <3>3 DEF Has
    <3> QED
      BY <3>2, <3>3
  <2>2. ASSUME NEW i \in T, i < n PROVE i + 1 \in T
    <3> DEFINE q == Above[p][i + 1]
    <3>1. i + 1 \in 1..n /\ i + 1 \in 0..n /\ (i + 1) - 1 = i /\ i \in Nat
      BY <1>1, <2>2
    <3>2. f[i].md[k] \in {Unset, r} /\ (f[i].md[k] = Unset => Before(i))
      OBVIOUS
    <3>3. q \in Paths /\ Chain(p)[(i + 1) + 1] = q
      BY <1>1, <3>1
    <3>4. f[i + 1].md = IF q \in DOMAIN c THEN InheritTags(f[i].md, c[q].md) ELSE f[i].md
      BY <1>2, <3>1
    <3>5. q \in DOMAIN c => f[i + 1].md[k] = IF f[i].md[k] # Unset THEN f[i].md[k] ELSE c[q].md[k]
      BY <3>4 DEF InheritTags
    <3>6. Before(i) => (r = Nearest(t, q)[k] /\ (Before(i + 1) <=> ~Has(t, q, k)))
      <4> SUFFICES ASSUME Before(i) PROVE r = Nearest(t, q)[k] /\ (Before(i + 1) <=> ~Has(t, q, k))
        OBVIOUS
      <4>1. r = Nearest(t, q)[k]
        <5>1. i + 1 \in 1..Len(Above[p]) /\ NoneUpTo(t, p, k, i + 1)
          BY <3>1 DEF NoneUpTo
        <5>2. p \in Paths
          BY <1>1
        <5> QED
          BY <5>1, <5>2, SameNearest
      <4>2. \A j \in 1..((i + 1) + 1) : j \in 1..(i + 1) \/ j = (i + 1) + 1
        BY <3>1
      <4>3. (i + 1) + 1 \in 1..((i + 1) + 1)
        BY <3>1
      <4> QED
        BY <3>3, <4>1, <4>2, <4>3
    <3>7. CASE f[i].md[k] # Unset
      <4>1. f[i + 1].md[k] = f[i].md[k]
        BY <3>4, <3>5, <3>7
      <4> QED
        BY <3>1, <3>2, <3>7, <4>1
    <3>8. CASE f[i].md[k] = Unset /\ q \in DOMAIN c
      <4>1. f[i + 1].md[k] = c[q].md[k] /\ Before(i)
        BY <3>2, <3>5, <3>8
      <4>2. c[q].md[k] \in {t[q].md[k], Nearest(t, q)[k]}
        BY <3>8
      <4>3. CASE Has(t, q, k)
        <5>1. t[q].md[k] = r /\ r # Unset
          BY <3>3, <3>6, <4>1, <4>3, OwnWins DEF Has
        <5> QED
          BY <3>1, <3>6, <4>1, <4>2, <5>1
      <4>4. CASE ~Has(t, q, k)
        <5>1. t[q].md[k] = Unset
          BY <3>8, <4>4 DEF Has
        <5>2. Before(i + 1) /\ f[i + 1].md[k] \in {Unset, r}
          BY <3>6, <4>1, <4>2, <4>4, <5>1
        <5> HIDE DEF Before
        <5> QED
          BY <3>1, <5>2
      <4> QED
        BY <4>3, <4>4
    <3>9. CASE f[i].md[k] = Unset /\ q \notin DOMAIN c
      <4>1. f[i + 1].md[k] = Unset /\ ~Has(t, q, k) /\ Before(i)
        BY <3>2, <3>4, <3>9 DEF Has
      <4>2. Before(i + 1)
        BY <3>6, <4>1
      <4> HIDE DEF Before
      <4> QED
        BY <3>1, <4>1, <4>2
    <3> QED
      BY <3>7, <3>8, <3>9
  <2>3. n \in T
    <3> HIDE DEF T
    <3> QED
      BY <1>1, <2>1, <2>2, SetInduction
  <2>4. f[n].md[k] = Unset => r = Unset
    BY <1>1, <2>3, NearestFirst
  <2> QED
    BY <2>3, <2>4
<1>5. f[n].md = Nearest(t, p)
  <2>1. f[n].md \in Dicts
    BY <1>1, <1>2, MessageFacts
  <2>2. Nearest(t, p) = [k \in Keys |-> Nearest(t, p)[k]]
    BY DEF Nearest
  <2>3. f[n].md = [k \in Keys |-> f[n].md[k]]
    BY <2>1 DEF Dicts
  <2> QED
    BY <1>4, <2>2, <2>3
<1> QED
  BY <1>1, <1>2, <1>3, <1>5

-----------------------------------------------------------------------------
(* Handlers.                                                               *)

UploadPlaces == {"collapse", "add", "ok", "failed"}

PacketPlaces == {"addpacket", "put"}

Shape ==
  /\ protocol \in Mixes /\ up \in BOOLEAN
  /\ pc \in [Handlers -> Places]
  /\ sent \in [Handlers -> {None} \cup Uploads \cup Packets]
  /\ DOMAIN tier = Handlers /\ \A h \in Handlers : IsUpload(tier[h])
  /\ todo \in [Handlers -> SUBSET Paths]
  /\ added \in [Handlers -> SUBSET Paths]
  /\ content \in [Objects -> Messages]
  /\ bytes \in [Buffers -> Images]
  /\ store \in [UUIDs -> [md : Dicts, props : Properties]]
  /\ chan \in Seq(Objects \cup Messages) /\ Len(chan) <= Cap

(* A handler that has been sent something got it over its own protocol, *)
(* and keeps it.                                                        *)
SentOf(h) ==
  /\ pc[h] = "idle" => sent[h] = None /\ added[h] = {}
  /\ pc[h] = "collapse" => added[h] = {}
  /\ pc[h] \in UploadPlaces => protocol[h] # "udp" /\ sent[h] \in Uploads
  /\ pc[h] \in PacketPlaces => protocol[h] = "udp" /\ sent[h] \in Packets

(* A path has been collapsed or is as it was sent. *)
CollapsingOf(h) ==
  pc[h] = "collapse" =>
    /\ DOMAIN tier[h] = DOMAIN sent[h]
    /\ todo[h] \subseteq Timeseries(sent[h])
    /\ \A p \in DOMAIN sent[h] :
         /\ tier[h][p].uuid = sent[h][p].uuid
         /\ tier[h][p].md = IF p \in Timeseries(sent[h]) \ todo[h]
                              THEN Nearest(sent[h], p) ELSE sent[h][p].md

(* All have been, and those that have been added are no longer to do. *)
AddingOf(h) ==
  /\ pc[h] \in {"add", "ok", "failed"} =>
       /\ DOMAIN tier[h] = Timeseries(sent[h])
       /\ \A p \in Timeseries(sent[h]) :
            tier[h][p].uuid = sent[h][p].uuid /\ tier[h][p].md = Nearest(sent[h], p)
  /\ pc[h] = "add" => added[h] \cup todo[h] = Timeseries(sent[h]) /\ added[h] \cap todo[h] = {}
  /\ pc[h] = "ok" => added[h] = Timeseries(sent[h])
  /\ pc[h] = "failed" => added[h] # Timeseries(sent[h])

(* What a packet's object holds when it is added is of that packet, since  *)
(* the pool's have no metadata left: of a cut packet only the UUID is.     *)
Clean ==
  /\ \A o \in pooled : content[o].md = NoTags
  /\ \A h \in Handlers : pc[h] = "addpacket" =>
       /\ content[obj[h]].uuid \in UUIDs
       /\ sent[h].ends # 0 => content[obj[h]].uuid = sent[h].uuid
       /\ ~IsCut(sent[h]) =>
            content[obj[h]].md = IF sent[h].md = None THEN NoTags ELSE sent[h].md

JSONOf(h) == SentOf(h) /\ CollapsingOf(h) /\ AddingOf(h)

Inv == Hold /\ Shape /\ (\A h \in Handlers : JSONOf(h)) /\ Clean /\ NoForeignTags

LEMMA JSONKept ==
  ASSUME NEW g, JSONOf(g), protocol' = protocol, pc'[g] = pc[g], sent'[g] = sent[g],
         tier'[g] = tier[g], todo'[g] = todo[g], added'[g] = added[g]
  PROVE  JSONOf(g)'
<1>1. SentOf(g)'
  BY DEF JSONOf, SentOf
<1>2. CollapsingOf(g)'
  BY DEF JSONOf, CollapsingOf, Timeseries
<1>3. AddingOf(g)'
  BY DEF JSONOf, AddingOf, Uploading, Timeseries
<1> QED
  BY <1>1, <1>2, <1>3 DEF JSONOf

(* Clean where packets and objects are left alone. *)
LEMMA CleanKept ==
  ASSUME Clean, UNCHANGED <<pooled, content, obj>>,
         \A h \in Handlers : pc'[h] = "addpacket" => pc[h] = "addpacket" /\ sent'[h] = sent[h]
  PROVE  Clean'
BY DEF Clean, NoTags

(* What was sent is not forgotten. *)
LEMMA TagsKept ==
  ASSUME NoForeignTags, protocol' = protocol, store' = store,
         \A h \in Handlers : sent[h] # None => sent'[h] = sent[h]
  PROVE  NoForeignTags'
<1> SUFFICES ASSUME NEW u \in UUIDs, NEW k \in Keys, store[u].md[k] # Unset
             PROVE  \E h \in Handlers :
                      sent'[h] # None /\ (store[u].md[k] \in TagsSent(h, u, k)' \/ CutFor(h, u)')
  BY DEF NoForeignTags
<1>1. PICK h \in Handlers : sent[h] # None /\ (store[u].md[k] \in TagsSent(h, u, k) \/ CutFor(h, u))
  BY DEF NoForeignTags
<1>2. TagsSent(h, u, k)' = TagsSent(h, u, k) /\ CutFor(h, u)' = CutFor(h, u)
  BY <1>1 DEF TagsSent, CutFor, Timeseries
<1> QED
  BY <1>1, <1>2

-----------------------------------------------------------------------------
(* What AddData saves and queues.                                          *)

LEMMA AddedMessage ==
  ASSUME UploadsAssumption, Shape, NEW m \in Messages, m.uuid \in UUIDs
  PROVE  /\ MessageToAdd(m) \in Messages
         /\ MessageToAdd(m).uuid = m.uuid /\ MessageToAdd(m).md = m.md
<1> DEFINE x == [uot |-> IF m.props = None THEN Unset ELSE m.props.uot, uom |-> NA]
<1>1. x \in Properties
  BY MessageFacts DEF Properties
<1>2. /\ [m EXCEPT !.props = x] \in Messages
      /\ [m EXCEPT !.props = x].uuid = m.uuid /\ [m EXCEPT !.props = x].md = m.md
  <2> HIDE DEF x
  <2> QED
    BY <1>1 DEF Messages
<1>3. MessageToAdd(m) = m \/ MessageToAdd(m) = [m EXCEPT !.props = x]
  BY DEF MessageToAdd, Defaulted
<1> HIDE DEF x
<1> QED
  BY <1>2, <1>3

LEMMA SavedFacts ==
  ASSUME UploadsAssumption, Shape, NEW m \in Messages, m.uuid \in UUIDs
  PROVE  /\ Saved(store[m.uuid], m) \in [md : Dicts, props : Properties]
         /\ \A k \in Keys : Saved(store[m.uuid], m).md[k] =
                             IF m.md[k] # Unset THEN m.md[k] ELSE store[m.uuid].md[k]
<1> DEFINE doc == store[m.uuid]
<1>1. doc.md \in Dicts /\ doc.props \in Properties
  BY DEF Shape
<1>2. [k \in Keys |-> IF m.md[k] # Unset THEN m.md[k] ELSE doc.md[k]] \in Dicts
  BY <1>1, MessageFacts DEF Dicts
<1>3. (IF IsEmpty(m.props) THEN doc.props ELSE m.props) \in Properties
  BY <1>1, MessageFacts DEF IsEmpty
<1> QED
  BY <1>2, <1>3 DEF Saved

(* Nothing is saved but the tags of a message sent, and the subscriber is  *)
(* sent nothing but messages.                                              *)
LEMMA AddFacts ==
  ASSUME UploadsAssumption, Shape, NEW m \in Messages, m.uuid \in UUIDs,
         \/ \E ref \in Objects \cup Messages : AddSucceeds(m, ref)
         \/ \E left : AddFails(m, left)
  PROVE  /\ store' \in [UUIDs -> [md : Dicts, props : Properties]]
         /\ chan' \in Seq(Objects \cup Messages) /\ Len(chan') <= Cap
         /\ \A u \in UUIDs, k \in Keys :
              \/ store'[u].md[k] = store[u].md[k]
              \/ u = m.uuid /\ store'[u].md[k] = m.md[k]
<1>1. Cap \in Nat
  BY DEF UploadsAssumption
<1>2. chan' \in Seq(Objects \cup Messages) /\ Len(chan') <= Cap
  <2>1. CASE chan' = chan
    BY <2>1 DEF Shape
  <2>2. CASE \E ref \in Objects \cup Messages : Len(chan) < Cap /\ chan' = Append(chan, ref)
    <3>1. PICK ref \in Objects \cup Messages : Len(chan) < Cap /\ chan' = Append(chan, ref)
      BY <2>2
    <3>2. chan \in Seq(Objects \cup Messages)
      BY DEF Shape
    <3> HIDE DEF Messages
    <3>3. chan' \in Seq(Objects \cup Messages) /\ Len(chan') = Len(chan) + 1 /\ Len(chan) \in Nat
      BY <3>1, <3>2
    <3> QED
      BY <1>1, <3>1, <3>3
  <2> QED
    BY <2>1, <2>2 DEF AddSucceeds, AddFails
<1>3. CASE store' = store
  BY <1>2, <1>3 DEF Shape
<1>4. ASSUME NEW x \in {m, MessageToAdd(m)}, store' = [store EXCEPT ![m.uuid] = Saved(@, x)]
      PROVE  /\ store' \in [UUIDs -> [md : Dicts, props : Properties]]
             /\ \A u \in UUIDs, k \in Keys :
                  \/ store'[u].md[k] = store[u].md[k]
                  \/ u = m.uuid /\ store'[u].md[k] = m.md[k]
  <2>1. x \in Messages /\ x.uuid = m.uuid /\ x.md = m.md
    BY AddedMessage
  <2>2. /\ Saved(store[m.uuid], x) \in [md : Dicts, props : Properties]
        /\ \A k \in Keys : Saved(store[m.uuid], x).md[k] =
                            IF m.md[k] # Unset THEN m.md[k] ELSE store[m.uuid].md[k]
    BY <2>1, SavedFacts
  <2>3. store \in [UUIDs -> [md : Dicts, props : Properties]]
    BY DEF Shape
  <2>4. store' \in [UUIDs -> [md : Dicts, props : Properties]]
    BY <1>4, <2>2, <2>3
  <2>5. \A u \in UUIDs : store'[u] = IF u = m.uuid THEN Saved(store[m.uuid], x) ELSE store[u]
    BY <1>4, <2>3
  <2> QED
    BY <2>2, <2>4, <2>5
<1>5. store' = store \/ \E x \in {m, MessageToAdd(m)} : store' = [store EXCEPT ![m.uuid] = Saved(@, x)]
  BY DEF AddSucceeds, AddFails
<1> QED
  BY <1>2, <1>3, <1>4, <1>5

-----------------------------------------------------------------------------
(* Steps.                                                                  *)

(* A step of one handler leaves the others where they are. *)
LEMMA OnlyHandler ==
  ASSUME Inv, NEW h \in Handlers, protocol' = protocol,
         \A g \in Handlers \ {h} : /\ pc'[g] = pc[g] /\ sent'[g] = sent[g] /\ tier'[g] = tier[g]
                                   /\ todo'[g] = todo[g] /\ added'[g] = added[g],
         Hold', Shape', JSONOf(h)', Clean', NoForeignTags'
  PROVE  Inv'
<1>1. ASSUME NEW g \in Handlers PROVE JSONOf(g)'
  <2>1. CASE g = h
    BY <2>1
  <2>2. CASE g # h
    BY <2>2, JSONKept DEF Inv
  <2> QED
    BY <2>1, <2>2
<1> QED
  BY <1>1 DEF Inv

LEMMA UploadFacts ==
  ASSUME UploadsAssumption
  PROVE  /\ \A t \in Uploads : t # None /\ IsUpload(t) /\ Timeseries(t) \subseteq Paths
         /\ \A packet \in Packets : packet # None /\ packet \in PacketType
         /\ None \notin Properties \cup Dicts \cup UUIDs \cup Objects
<1>1. \A t \in Uploads : IsUpload(t)
  BY DEF UploadsAssumption, IsUpload
<1> QED
  BY <1>1 DEF UploadsAssumption, Timeseries, IsUpload

LEMMA ReceiveJSONInv ==
  ASSUME UploadsAssumption, Inv, NEW h \in Handlers, ReceiveJSON(h) PROVE Inv'
<1>1. /\ pc[h] = "idle" /\ protocol[h] \in {"http", "tcp"} /\ sent[h] = None /\ added[h] = {}
      /\ UNCHANGED <<protocol, up, added, obj, content, pooled, bytes, store, chan>>
  BY DEF Inv, JSONOf, SentOf, ReceiveJSON, pools
<1>2. Hold'
  BY OtherSteps, KeepsHold DEF Inv, Hold
<1>3. CASE GoTo(h, "rejected") /\ UNCHANGED <<sent, tier, todo>>
  <2>1. pc' = [pc EXCEPT ![h] = "rejected"]
    BY <1>3 DEF GoTo
  <2>2. Shape'
    BY <1>1, <1>3, <2>1 DEF Inv, Shape, Places, IsUpload
  <2>3. pc'[h] = "rejected" /\ \A g \in Handlers \ {h} : pc'[g] = pc[g]
    BY <2>1 DEF Inv, Shape
  <2>4. JSONOf(h)'
    BY <2>3 DEF JSONOf, SentOf, CollapsingOf, AddingOf, UploadPlaces, PacketPlaces
  <2>5. Clean'
    BY <1>1, <1>3, <2>3, CleanKept DEF Inv
  <2>6. NoForeignTags'
    BY <1>1, <1>3, TagsKept DEF Inv
  <2> QED
    BY <1>1, <1>2, <1>3, <2>2, <2>3, <2>4, <2>5, <2>6, OnlyHandler
<1>4. ASSUME NEW body \in Uploads,
             sent' = [sent EXCEPT ![h] = body], tier' = [tier EXCEPT ![h] = body],
             todo' = [todo EXCEPT ![h] = Timeseries(body)], GoTo(h, "collapse")
      PROVE  Inv'
  <2>1. pc' = [pc EXCEPT ![h] = "collapse"]
    BY <1>4 DEF GoTo
  <2>2. body # None /\ IsUpload(body) /\ Timeseries(body) \subseteq Paths
    BY UploadFacts
  <2>3. /\ pc'[h] = "collapse" /\ sent'[h] = body /\ tier'[h] = body /\ todo'[h] = Timeseries(body)
        /\ \A g \in Handlers \ {h} : /\ pc'[g] = pc[g] /\ sent'[g] = sent[g] /\ tier'[g] = tier[g]
                                      /\ todo'[g] = todo[g]
    BY <1>4, <2>1 DEF Inv, Shape
  <2>4. Shape'
    <3>1. DOMAIN tier' = Handlers /\ \A g \in Handlers : IsUpload(tier'[g])
      BY <1>4, <2>2, <2>3 DEF Inv, Shape
    <3>2. sent' \in [Handlers -> {None} \cup Uploads \cup Packets] /\ todo' \in [Handlers -> SUBSET Paths]
      BY <1>4, <2>2 DEF Inv, Shape
    <3>3. pc' \in [Handlers -> Places]
      BY <2>1 DEF Inv, Shape, Places
    <3> QED
      BY <1>1, <3>1, <3>2, <3>3 DEF Inv, Shape, IsUpload
  <2>5. JSONOf(h)'
    <3>1. SentOf(h)'
      BY <1>1, <2>3 DEF SentOf, UploadPlaces, PacketPlaces
    <3>2. CollapsingOf(h)'
      BY <2>3 DEF CollapsingOf, Timeseries
    <3>3. AddingOf(h)'
      BY <2>3 DEF AddingOf
    <3> QED
      BY <3>1, <3>2, <3>3 DEF JSONOf
  <2>6. Clean'
    BY <1>1, <2>3, CleanKept DEF Inv
  <2>7. NoForeignTags'
    BY <1>1, <2>3, TagsKept DEF Inv
  <2> QED
    BY <1>1, <1>2, <2>3, <2>4, <2>5, <2>6, <2>7, OnlyHandler
<1> QED
  BY <1>3, <1>4 DEF ReceiveJSON

LEMMA CollapsePathInv ==
  ASSUME UploadsAssumption, Inv, NEW h \in Handlers, CollapsePath(h) PROVE Inv'
<1>1. /\ pc[h] = "collapse" /\ protocol[h] # "udp" /\ sent[h] \in Uploads /\ added[h] = {}
      /\ UNCHANGED <<protocol, sent, added, obj, content, pooled, bytes, store, chan>>
  BY DEF Inv, JSONOf, SentOf, CollapsePath, pools, UploadPlaces
<1>2. Hold'
  BY OtherSteps, KeepsHold DEF Inv, Hold
<1>3. NoForeignTags'
  BY <1>1, TagsKept DEF Inv
<1>4. CollapsingOf(h)
  BY DEF Inv, JSONOf
<1>5. ASSUME pc' = [pc EXCEPT ![h] = "panicked"], up' \in BOOLEAN, todo' = [todo EXCEPT ![h] = {}],
             tier' = tier
      PROVE  Inv'
  <2>1. /\ pc'[h] = "panicked"
        /\ \A g \in Handlers \ {h} : pc'[g] = pc[g] /\ todo'[g] = todo[g]
    BY <1>5 DEF Inv, Shape
  <2>2. Shape'
    BY <1>1, <1>5 DEF Inv, Shape, Places, IsUpload
  <2>3. JSONOf(h)'
    BY <2>1 DEF JSONOf, SentOf, CollapsingOf, AddingOf, UploadPlaces, PacketPlaces
  <2>4. Clean'
    BY <1>1, <2>1, CleanKept DEF Inv
  <2> QED
    BY <1>1, <1>2, <1>3, <1>5, <2>1, <2>2, <2>3, <2>4, OnlyHandler
<1>6. ASSUME NEW p \in todo[h], ~NilProperties(tier[h], p),
             tier' = [tier EXCEPT ![h][p] = Collapsed(tier[h], p)],
             todo' = [todo EXCEPT ![h] = @ \ {p}], UNCHANGED <<up, pc>>
      PROVE  Inv'
  <2> DEFINE t == sent[h]
             c == tier[h]
             new == Collapsed(c, p)
  <2>1. /\ IsUpload(t) /\ IsUpload(c) /\ DOMAIN c = DOMAIN t
        /\ todo[h] \subseteq Timeseries(t) /\ p \in DOMAIN t /\ p \in Timeseries(t)
        /\ \A q \in DOMAIN t : /\ c[q].uuid = t[q].uuid
                               /\ c[q].md = IF q \in Timeseries(t) \ todo[h] THEN Nearest(t, q) ELSE t[q].md
    BY <1>1, <1>4, UploadFacts DEF Inv, Shape, CollapsingOf, Timeseries
  <2>2. c[p].md = t[p].md
    BY <2>1
  <2>3. \A q \in DOMAIN t : c[q].md \in {t[q].md, Nearest(t, q)}
    BY <2>1
  <2>4. new \in Messages /\ new.uuid = c[p].uuid /\ new.md = Nearest(t, p)
    <3>1. ~NilProperties(c, p) /\ p \in DOMAIN c
      BY <1>6, <2>1
    <3> HIDE DEF c, t
    <3> QED
      BY <2>1, <2>2, <2>3, <3>1, CollapsedIsNearest
  <2>5. /\ tier'[h] = [c EXCEPT ![p] = new] /\ todo'[h] = todo[h] \ {p}
        /\ DOMAIN tier' = Handlers
        /\ \A g \in Handlers \ {h} : tier'[g] = tier[g] /\ todo'[g] = todo[g]
    BY <1>6 DEF Inv, Shape
  <2> HIDE DEF new
  <2>6. /\ DOMAIN tier'[h] = DOMAIN t /\ tier'[h][p] = new
        /\ \A q \in DOMAIN t : q # p => tier'[h][q] = c[q]
    BY <2>1, <2>5
  <2>7. Shape'
    <3>1. \A g \in Handlers : IsUpload(tier'[g])
      <4>1. IsUpload(tier'[h])
        BY <2>1, <2>4, <2>6 DEF IsUpload
      <4> QED
        BY <2>5, <4>1 DEF Inv, Shape
    <3>2. todo' \in [Handlers -> SUBSET Paths]
      BY <1>6 DEF Inv, Shape
    <3> QED
      BY <1>1, <1>6, <2>5, <3>1, <3>2 DEF Inv, Shape, IsUpload
  <2>8. CollapsingOf(h)'
    <3>1. \A q \in DOMAIN t :
            /\ tier'[h][q].uuid = t[q].uuid
            /\ tier'[h][q].md = IF q \in Timeseries(t) \ todo'[h] THEN Nearest(t, q) ELSE t[q].md
      BY <2>1, <2>4, <2>5, <2>6
    <3> QED
      BY <1>1, <2>1, <2>5, <2>6, <3>1 DEF CollapsingOf, Timeseries
  <2>9. JSONOf(h)'
    <3>1. SentOf(h)'
      BY <1>1, <1>6 DEF SentOf, PacketPlaces
    <3>2. AddingOf(h)'
      BY <1>1, <1>6 DEF AddingOf
    <3> QED
      BY <2>8, <3>1, <3>2 DEF JSONOf
  <2>10. Clean'
    BY <1>1, <1>6, CleanKept DEF Inv
  <2> QED
    BY <1>1, <1>2, <1>3, <1>6, <2>5, <2>7, <2>9, <2>10, OnlyHandler
<1> QED
  BY <1>5, <1>6 DEF CollapsePath, GoTo

LEMMA CollapseDoneInv ==
  ASSUME UploadsAssumption, Inv, NEW h \in Handlers, CollapseDone(h) PROVE Inv'
<1> DEFINE t == sent[h]
           c == tier[h]
<1>1. /\ pc[h] = "collapse" /\ todo[h] = {} /\ protocol[h] # "udp" /\ t \in Uploads /\ added[h] = {}
      /\ tier' = [tier EXCEPT ![h] = Restrict(@, Timeseries(@))]
      /\ todo' = [todo EXCEPT ![h] = Timeseries(c)]
      /\ pc' = [pc EXCEPT ![h] = "add"]
      /\ UNCHANGED <<protocol, up, sent, added, obj, content, pooled, bytes, store, chan>>
  BY DEF Inv, JSONOf, SentOf, CollapseDone, pools, UploadPlaces, GoTo
<1>2. Hold'
  BY OtherSteps, KeepsHold DEF Inv, Hold
<1>3. NoForeignTags'
  BY <1>1, TagsKept DEF Inv
<1>4. /\ IsUpload(t) /\ IsUpload(c) /\ DOMAIN c = DOMAIN t
      /\ \A q \in DOMAIN t : c[q].uuid = t[q].uuid
      /\ \A q \in Timeseries(t) : c[q].md = Nearest(t, q)
  BY <1>1, UploadFacts DEF Inv, JSONOf, Shape, CollapsingOf, Timeseries
<1>5. Timeseries(c) = Timeseries(t) /\ Timeseries(t) \subseteq DOMAIN t /\ Timeseries(t) \subseteq Paths
  BY <1>4 DEF Timeseries, IsUpload
<1>6. /\ pc'[h] = "add" /\ todo'[h] = Timeseries(t) /\ tier'[h] = Restrict(c, Timeseries(t))
      /\ DOMAIN tier' = Handlers
      /\ \A g \in Handlers \ {h} : pc'[g] = pc[g] /\ tier'[g] = tier[g] /\ todo'[g] = todo[g]
  BY <1>1, <1>5 DEF Inv, Shape
<1>7. DOMAIN tier'[h] = Timeseries(t) /\ \A q \in Timeseries(t) : tier'[h][q] = c[q]
  BY <1>6 DEF Restrict
<1>8. Shape'
  <2>1. IsUpload(tier'[h])
    BY <1>4, <1>5, <1>7 DEF IsUpload
  <2>2. \A g \in Handlers : IsUpload(tier'[g])
    BY <1>6, <2>1 DEF Inv, Shape
  <2>3. todo' \in [Handlers -> SUBSET Paths] /\ pc' \in [Handlers -> Places]
    BY <1>1, <1>5 DEF Inv, Shape, Places
  <2> QED
    BY <1>1, <1>6, <2>2, <2>3 DEF Inv, Shape, IsUpload
<1>9. JSONOf(h)'
  <2>1. SentOf(h)'
    BY <1>1, <1>6 DEF SentOf, PacketPlaces
  <2>2. CollapsingOf(h)'
    BY <1>6 DEF CollapsingOf
  <2>3. AddingOf(h)'
    <3>1. \A q \in Timeseries(sent[h]) : tier'[h][q].uuid = sent[h][q].uuid /\ tier'[h][q].md = Nearest(sent[h], q)
      BY <1>4, <1>5, <1>7
    <3>2. /\ pc'[h] = "add" /\ added'[h] = {} /\ todo'[h] = Timeseries(sent[h])
          /\ DOMAIN tier'[h] = Timeseries(sent[h]) /\ sent' = sent
      BY <1>1, <1>6, <1>7
    <3> QED
      BY <3>1, <3>2 DEF AddingOf, Timeseries
  <2> QED
    BY <2>1, <2>2, <2>3 DEF JSONOf
<1>10. Clean'
  BY <1>1, <1>6, CleanKept DEF Inv
<1> QED
  BY <1>1, <1>2, <1>3, <1>6, <1>8, <1>9, <1>10, OnlyHandler

LEMMA RespondInv ==
  ASSUME UploadsAssumption, Inv, NEW h \in Handlers, Respond(h) PROVE Inv'
<1>1. /\ pc[h] = "add" /\ todo[h] = {} /\ JSONOf(h)
      /\ pc' = [pc EXCEPT ![h] = "ok"]
      /\ UNCHANGED <<protocol, up, sent, tier, todo, added, obj, content, pooled, bytes, store, chan>>
  BY DEF Inv, Respond, pools, GoTo
<1>2. pc'[h] = "ok" /\ \A g \in Handlers \ {h} : pc'[g] = pc[g]
  BY <1>1 DEF Inv, Shape
<1>3. Hold'
  BY OtherSteps, KeepsHold DEF Inv, Hold
<1>4. Shape'
  BY <1>1 DEF Inv, Shape, Places, IsUpload
<1>5. JSONOf(h)'
  <2>1. SentOf(h)' /\ CollapsingOf(h)'
    BY <1>1, <1>2 DEF JSONOf, SentOf, CollapsingOf, UploadPlaces, PacketPlaces
  <2>2. AddingOf(h)'
    BY <1>1, <1>2 DEF JSONOf, AddingOf, Timeseries
  <2> QED
    BY <2>1, <2>2 DEF JSONOf
<1>6. NoForeignTags' /\ Clean'
  BY <1>1, <1>2, TagsKept, CleanKept DEF Inv
<1> QED
  BY <1>1, <1>2, <1>3, <1>4, <1>5, <1>6, OnlyHandler

(* Tags that are saved have been sent. *)
LEMMA TagsOfAdd ==
  ASSUME NoForeignTags, UNCHANGED <<protocol, sent>>, NEW h \in Handlers, sent[h] # None, NEW m,
         \A u \in UUIDs, k \in Keys :
           \/ store'[u].md[k] = store[u].md[k]
           \/ u = m.uuid /\ store'[u].md[k] = m.md[k],
         \A k \in Keys : m.md[k] # Unset => m.md[k] \in TagsSent(h, m.uuid, k) \/ CutFor(h, m.uuid)
  PROVE  NoForeignTags'
<1> SUFFICES ASSUME NEW u \in UUIDs, NEW k \in Keys, store'[u].md[k] # Unset
             PROVE  \E g \in Handlers :
                      sent[g] # None /\ (store'[u].md[k] \in TagsSent(g, u, k)' \/ CutFor(g, u)')
  BY DEF NoForeignTags
<1>1. \A g : TagsSent(g, u, k)' = TagsSent(g, u, k) /\ CutFor(g, u)' = CutFor(g, u)
  BY DEF TagsSent, CutFor, Timeseries
<1>2. CASE store'[u].md[k] = store[u].md[k]
  BY <1>1, <1>2 DEF NoForeignTags
<1>3. CASE u = m.uuid /\ store'[u].md[k] = m.md[k]
  BY <1>1, <1>3
<1> QED
  BY <1>2, <1>3

LEMMA AddMessageInv ==
  ASSUME UploadsAssumption, Inv, NEW h \in Handlers, AddMessage(h) PROVE Inv'
<1>1. PICK p \in todo[h] :
        LET m == tier[h][p]
        IN  \/ /\ AddSucceeds(m, MessageToAdd(m))
               /\ added' = [added EXCEPT ![h] = @ \cup {p}]
               /\ todo' = [todo EXCEPT ![h] = @ \ {p}]
               /\ UNCHANGED pc
            \/ /\ AddFails(m, m)
               /\ todo' = [todo EXCEPT ![h] = {}]
               /\ GoTo(h, "failed")
               /\ UNCHANGED added
  BY DEF AddMessage
<1> DEFINE m == tier[h][p]
<1>2. /\ pc[h] = "add" /\ UNCHANGED <<protocol, up, sent, tier, obj, content, pooled, bytes>>
      /\ protocol[h] # "udp" /\ sent[h] \in Uploads
  BY DEF AddMessage, pools, Inv, JSONOf, SentOf, UploadPlaces
<1>3. /\ p \in Timeseries(sent[h]) /\ p \notin added[h] /\ DOMAIN tier[h] = Timeseries(sent[h])
      /\ m.uuid = sent[h][p].uuid /\ m.md = Nearest(sent[h], p)
      /\ added[h] \cup todo[h] = Timeseries(sent[h]) /\ added[h] \cap todo[h] = {}
  <2>1. AddingOf(h)
    BY DEF Inv, JSONOf
  <2>2. p \in Timeseries(sent[h])
    BY <1>2, <2>1 DEF AddingOf
  <2> QED
    BY <1>2, <2>1, <2>2 DEF AddingOf
<1>4. m \in Messages /\ m.uuid # None /\ p \in Paths
  BY <1>3 DEF Inv, Shape, IsUpload, Timeseries
<1>5. m.uuid \in UUIDs
  BY <1>4, MessageFacts
<1>6. MessageToAdd(m) \in Messages
  BY <1>4, <1>5, AddedMessage DEF Inv
<1>7. /\ store' \in [UUIDs -> [md : Dicts, props : Properties]]
      /\ chan' \in Seq(Objects \cup Messages) /\ Len(chan') <= Cap
      /\ \A u \in UUIDs, k \in Keys :
           \/ store'[u].md[k] = store[u].md[k]
           \/ u = m.uuid /\ store'[u].md[k] = m.md[k]
  BY <1>1, <1>4, <1>5, <1>6, AddFacts DEF Inv
<1>8. Hold'
  BY OtherSteps, KeepsHold DEF Inv, Hold
<1>9. NoForeignTags'
  <2>1. sent[h] # None
    BY <1>2, UploadFacts
  <2>2. \A k \in Keys : m.md[k] \in TagsSent(h, m.uuid, k)
    BY <1>2, <1>3 DEF TagsSent
  <2> HIDE DEF m
  <2> QED
    BY <1>2, <1>7, <2>1, <2>2, TagsOfAdd DEF Inv
<1> HIDE DEF m
<1>10. ASSUME added' = [added EXCEPT ![h] = @ \cup {p}], todo' = [todo EXCEPT ![h] = @ \ {p}], UNCHANGED pc
       PROVE  Inv'
  <2>1. /\ added'[h] = added[h] \cup {p} /\ todo'[h] = todo[h] \ {p}
        /\ \A g \in Handlers \ {h} : added'[g] = added[g] /\ todo'[g] = todo[g]
    BY <1>10 DEF Inv, Shape
  <2>2. Shape'
    BY <1>2, <1>4, <1>7, <1>10 DEF Inv, Shape, IsUpload
  <2>3. JSONOf(h)'
    <3>1. SentOf(h)' /\ CollapsingOf(h)'
      BY <1>2, <1>10 DEF SentOf, CollapsingOf, PacketPlaces
    <3>2. AddingOf(h)
      BY DEF Inv, JSONOf
    <3>3. AddingOf(h)'
      BY <1>2, <1>3, <1>10, <2>1, <3>2 DEF AddingOf, Timeseries
    <3> QED
      BY <3>1, <3>3 DEF JSONOf
  <2>4. Clean'
    BY <1>2, <1>10, CleanKept DEF Inv
  <2> QED
    BY <1>2, <1>8, <1>9, <1>10, <2>1, <2>2, <2>3, <2>4, OnlyHandler
<1>11. ASSUME todo' = [todo EXCEPT ![h] = {}], pc' = [pc EXCEPT ![h] = "failed"], UNCHANGED added
       PROVE  Inv'
  <2>1. /\ pc'[h] = "failed" /\ todo'[h] = {}
        /\ \A g \in Handlers \ {h} : pc'[g] = pc[g] /\ todo'[g] = todo[g]
    BY <1>11 DEF Inv, Shape
  <2>2. Shape'
    BY <1>2, <1>7, <1>11 DEF Inv, Shape, Places, IsUpload
  <2>3. JSONOf(h)'
    <3>1. SentOf(h)' /\ CollapsingOf(h)'
      BY <1>2, <2>1 DEF SentOf, CollapsingOf, PacketPlaces
    <3>2. AddingOf(h)
      BY DEF Inv, JSONOf
    <3>3. AddingOf(h)'
      BY <1>2, <1>3, <1>11, <2>1, <3>2 DEF AddingOf, Timeseries
    <3> QED
      BY <3>1, <3>3 DEF JSONOf
  <2>4. Clean'
    BY <1>2, <2>1, CleanKept DEF Inv
  <2> QED
    BY <1>2, <1>8, <1>9, <1>11, <2>1, <2>2, <2>3, <2>4, OnlyHandler
<1> QED
  BY <1>1, <1>10, <1>11 DEF GoTo

(* An object that decode may take is nobody's and has no metadata. *)
LEMMA FreeObject ==
  ASSUME UploadsAssumption, Hold, Clean, NEW o \in pooled \cup NewObjects
  PROVE  o \in Objects /\ o # None /\ (\A g \in Handlers : obj[g] # o) /\ content[o].md = NoTags
<1>1. CASE o \in pooled
  BY <1>1 DEF Hold, ObjectsAreExclusive, UploadsAssumption, Clean
<1>2. CASE o \in NewObjects
  BY <1>2 DEF NewObjects, UploadsAssumption, Fresh
<1> QED
  BY <1>1, <1>2

LEMMA DecodedFacts ==
  ASSUME UploadsAssumption, NEW packet \in PacketType, NEW m \in Messages, NEW new \in Decoded(m, packet)
  PROVE  /\ new \in Messages
         /\ packet.kind = "whole" =>
              new.uuid = packet.uuid /\ new.md = IF packet.md = None THEN m.md ELSE packet.md
<1> DEFINE named  == [m EXCEPT !.uuid = packet.uuid]
           tagged == IF packet.md = None THEN named ELSE [named EXCEPT !.md = packet.md]
           whole  == IF packet.props = None THEN tagged ELSE [tagged EXCEPT !.props = packet.props]
<1>1. /\ packet.kind \in {"whole", "partial", "garbled"} /\ packet.uuid \in UUIDs
      /\ packet.md \in Dicts \cup {None} /\ packet.props \in Properties \cup {None}
  BY UploadFacts DEF PacketType
<1>2. named \in Messages /\ named.uuid = packet.uuid /\ named.md = m.md
  BY <1>1 DEF Messages
<1>3. /\ tagged \in Messages /\ tagged.uuid = packet.uuid
      /\ tagged.md = IF packet.md = None THEN m.md ELSE packet.md
  <2> HIDE DEF named
  <2> QED
    BY <1>1, <1>2 DEF Messages
<1>4. /\ whole \in Messages /\ whole.uuid = packet.uuid
      /\ whole.md = IF packet.md = None THEN m.md ELSE packet.md
  <2> HIDE DEF tagged
  <2> QED
    BY <1>1, <1>3 DEF Messages
<1>5. /\ packet.kind = "garbled" => new = m
      /\ packet.kind = "partial" => new \in {m, named, tagged}
      /\ packet.kind = "whole" => new = whole
  BY <1>1 DEF Decoded
<1> HIDE DEF named, tagged, whole
<1> QED
  BY <1>1, <1>2, <1>3, <1>4, <1>5

LEMMA ReceivePacketInv ==
  ASSUME UploadsAssumption, Inv, NEW h \in Handlers, ReceivePacket(h) PROVE Inv'
<1>1. PICK packet \in Packets, o \in pooled \cup NewObjects, b \in spare \cup NewBuffers :
        \E r \in AsRead(Overwritten(bytes[b], packet), packet) : Taken(h, packet, o, b, r)
  BY TakenExists
<1>2. PICK read \in AsRead(Overwritten(bytes[b], packet), packet) : Taken(h, packet, o, b, read)
  BY <1>1
<1>3. /\ pc[h] = "idle" /\ protocol[h] = "udp" /\ sent[h] = None /\ added[h] = {}
      /\ UNCHANGED <<protocol, tier, todo, added, store, chan>>
  BY DEF ReceivePacket, Inv, JSONOf, SentOf
<1>4. bytes \in [Buffers -> Images] /\ b \in Buffers
  BY DEF Inv, Shape, Hold, NewBuffers
<1>5. /\ read \in PacketType
      /\ ~IsCut(packet) => read = packet
      /\ packet.ends # 0 => read.uuid = packet.uuid
  BY <1>4, ReadFacts
<1>6. PICK new \in Decoded(content[o], read) : content' = [content EXCEPT ![o] = new]
  BY <1>2 DEF Taken
<1>7. o \in Objects /\ o # None /\ (\A g \in Handlers : obj[g] # o) /\ content[o].md = NoTags
  BY FreeObject DEF Inv
<1>8. /\ new \in Messages
      /\ read.kind = "whole" =>
           new.uuid = read.uuid /\ new.md = IF read.md = None THEN NoTags ELSE read.md
  <2>1. content[o] \in Messages
    BY <1>7 DEF Inv, Shape
  <2> QED
    BY <1>5, <1>7, <2>1, DecodedFacts
<1>9. /\ packet # None /\ packet \in PacketType
      /\ read.kind \in {"whole", "partial", "garbled"} /\ read.uuid \in UUIDs
  BY <1>5, UploadFacts DEF PacketType
<1>10. PICK l \in {"addpacket", "put", "panicked"} :
        /\ pc' = [pc EXCEPT ![h] = l]
        /\ l = "addpacket" => read.kind = "whole"
  BY <1>2, <1>9 DEF Taken, GoTo
<1>11. /\ pc'[h] = l /\ sent'[h] = packet
       /\ \A g \in Handlers \ {h} : pc'[g] = pc[g] /\ sent'[g] = sent[g]
  BY <1>2, <1>10 DEF Inv, Shape, Taken
<1>12. Hold'
  BY <1>2, <1>4, <1>5, ReceiveHold DEF Inv
<1>13. Shape'
  <2>1. content' \in [Objects -> Messages]
    BY <1>6, <1>7, <1>8 DEF Inv, Shape
  <2>2. pc' \in [Handlers -> Places]
    BY <1>10 DEF Inv, Shape, Places
  <2>3. sent' \in [Handlers -> {None} \cup Uploads \cup Packets] /\ up' \in BOOLEAN
    BY <1>2 DEF Inv, Shape, Taken
  <2>4. bytes' \in [Buffers -> Images]
    <3>1. bytes[b] \in Images
      BY <1>4
    <3>2. Overwritten(bytes[b], packet) \in Images
      BY <1>9, <3>1 DEF Overwritten, Images, PacketType
    <3> QED
      BY <1>2, <1>4, <3>2 DEF Taken
  <2> QED
    BY <1>3, <2>1, <2>2, <2>3, <2>4 DEF Inv, Shape, IsUpload
<1>14. JSONOf(h)'
  BY <1>3, <1>11 DEF JSONOf, SentOf, CollapsingOf, AddingOf, UploadPlaces, PacketPlaces
<1>15. NoForeignTags'
  BY <1>3, <1>11, TagsKept DEF Inv
<1>16. Clean'
  <2>1. content'[o] = new /\ \A x \in Objects \ {o} : content'[x] = content[x]
    BY <1>6, <1>7 DEF Inv, Shape
  <2>2. ASSUME NEW x \in pooled' PROVE content'[x].md = NoTags
    <3>1. x \in pooled /\ x # o /\ x \in Objects
      BY <1>2 DEF Inv, Hold, Taken
    <3> QED
      BY <2>1, <3>1 DEF Inv, Clean
  <2>3. ASSUME NEW g \in Handlers, pc'[g] = "addpacket"
        PROVE  /\ content'[obj'[g]].uuid \in UUIDs
               /\ sent'[g].ends # 0 => content'[obj'[g]].uuid = sent'[g].uuid
               /\ ~IsCut(sent'[g]) =>
                    content'[obj'[g]].md = IF sent'[g].md = None THEN NoTags ELSE sent'[g].md
    <3>1. CASE g = h
      <4>1. read.kind = "whole" /\ obj'[h] = o
        BY <1>2, <1>10, <1>11, <2>3, <3>1 DEF Inv, Hold, Taken
      <4> QED
        BY <1>5, <1>8, <1>9, <1>11, <2>1, <3>1, <4>1
    <3>2. CASE g # h
      <4>1. obj'[g] = obj[g] /\ obj[g] # o /\ pc[g] = "addpacket" /\ sent'[g] = sent[g]
        BY <1>2, <1>7, <1>11, <2>3, <3>2 DEF Inv, Hold, Taken
      <4>2. obj[g] \in Objects
        BY <4>1 DEF Inv, Hold
      <4>3. content'[obj'[g]] = content[obj[g]]
        BY <2>1, <4>1, <4>2
      <4> QED
        BY <4>1, <4>3 DEF Inv, Clean
    <3> QED
      BY <3>1, <3>2
  <2> QED
    BY <2>2, <2>3 DEF Clean, NoTags
<1> QED
  BY <1>3, <1>11, <1>12, <1>13, <1>14, <1>15, <1>16, OnlyHandler

LEMMA AddPacketInv ==
  ASSUME UploadsAssumption, Inv, NEW h \in Handlers, AddPacket(h) PROVE Inv'
<1> DEFINE m == content[obj[h]]
<1>1. /\ pc[h] = "addpacket" /\ pc' = [pc EXCEPT ![h] = "put"]
      /\ UNCHANGED <<protocol, up, sent, tier, todo, added, obj, pooled, bytes>>
      /\ \/ AddSucceeds(m, obj[h]) /\ content' = [content EXCEPT ![obj[h]] = MessageToAdd(m)]
         \/ \E left \in {m, MessageToAdd(m)} :
              AddFails(m, left) /\ content' = [content EXCEPT ![obj[h]] = left]
  BY DEF AddPacket, GoTo
<1>2. /\ obj[h] \in Objects /\ obj[h] \notin pooled /\ \A g \in Handlers \ {h} : obj[g] # obj[h]
      /\ protocol[h] = "udp" /\ sent[h] \in Packets /\ m.uuid \in UUIDs
      /\ sent[h].ends # 0 => m.uuid = sent[h].uuid
      /\ ~IsCut(sent[h]) => m.md = IF sent[h].md = None THEN NoTags ELSE sent[h].md
  <2>1. obj[h] \in Objects /\ obj[h] # None
    BY <1>1 DEF Inv, Hold
  <2>2. protocol[h] = "udp" /\ sent[h] \in Packets
    BY <1>1 DEF Inv, JSONOf, SentOf, PacketPlaces
  <2> QED
    BY <1>1, <2>1, <2>2 DEF Inv, Hold, ObjectsAreExclusive, Clean
<1>3. m \in Messages /\ m.uuid \in UUIDs /\ sent[h] # None /\ sent[h] \in PacketType
  BY <1>2, UploadFacts DEF Inv, Shape
<1>4. MessageToAdd(m) \in Messages
  BY <1>3, AddedMessage DEF Inv
<1>5. /\ store' \in [UUIDs -> [md : Dicts, props : Properties]]
      /\ chan' \in Seq(Objects \cup Messages) /\ Len(chan') <= Cap
      /\ \A u \in UUIDs, k \in Keys :
           \/ store'[u].md[k] = store[u].md[k]
           \/ u = m.uuid /\ store'[u].md[k] = m.md[k]
  <2>1. \/ \E ref \in Objects \cup Messages : AddSucceeds(m, ref)
        \/ \E left : AddFails(m, left)
    BY <1>1, <1>2
  <2> QED
    BY <1>3, <2>1, AddFacts DEF Inv
<1>6. NoForeignTags'
  <2>1. \A k \in Keys : m.md[k] # Unset => m.md[k] \in TagsSent(h, m.uuid, k) \/ CutFor(h, m.uuid)
    <3>1. CASE IsCut(sent[h])
      BY <1>2, <3>1 DEF CutFor
    <3>2. CASE ~IsCut(sent[h])
      <4>1. sent[h].ends # 0
        BY <1>3, <3>2 DEF IsCut, Announced, PacketType
      <4> QED
        BY <1>2, <3>2, <4>1 DEF TagsSent, NoTags
    <3> QED
      BY <3>1, <3>2
  <2> HIDE DEF m
  <2> QED
    BY <1>1, <1>3, <1>5, <2>1, TagsOfAdd DEF Inv
<1>7. PICK left \in Messages : content' = [content EXCEPT ![obj[h]] = left]
  BY <1>1, <1>3, <1>4
<1> HIDE DEF m
<1>8. pc'[h] = "put" /\ \A g \in Handlers \ {h} : pc'[g] = pc[g]
  BY <1>1 DEF Inv, Shape
<1>9. Hold'
  BY OtherSteps, KeepsHold DEF Inv, Hold
<1>10. Shape'
  <2>1. content' \in [Objects -> Messages] /\ pc' \in [Handlers -> Places]
    BY <1>1, <1>7 DEF Inv, Shape, Places
  <2> QED
    BY <1>1, <1>5, <2>1 DEF Inv, Shape, IsUpload
<1>11. JSONOf(h)'
  BY <1>1, <1>2, <1>8 DEF JSONOf, SentOf, CollapsingOf, AddingOf, UploadPlaces, PacketPlaces
<1>12. Clean'
  <2>1. \A x \in Objects \ {obj[h]} : content'[x] = content[x]
    BY <1>7 DEF Inv, Shape
  <2>2. ASSUME NEW x \in pooled PROVE content'[x].md = NoTags
    BY <1>2, <2>1 DEF Inv, Clean, Hold
  <2>3. ASSUME NEW g \in Handlers, pc'[g] = "addpacket"
        PROVE  /\ content'[obj[g]].uuid \in UUIDs
               /\ sent[g].ends # 0 => content'[obj[g]].uuid = sent[g].uuid
               /\ ~IsCut(sent[g]) =>
                    content'[obj[g]].md = IF sent[g].md = None THEN NoTags ELSE sent[g].md
    <3>1. g # h /\ pc[g] = "addpacket"
      BY <1>8, <2>3
    <3>2. obj[g] \in Objects \ {obj[h]}
      BY <1>2, <3>1 DEF Inv, Hold
    <3> QED
      BY <2>1, <3>1, <3>2 DEF Inv, Clean
  <2> QED
    BY <1>1, <2>2, <2>3 DEF Clean, NoTags
<1> QED
  BY <1>1, <1>6, <1>8, <1>9, <1>10, <1>11, <1>12, OnlyHandler

LEMMA PutObjectInv ==
  ASSUME UploadsAssumption, Inv, NEW h \in Handlers, PutObject(h) PROVE Inv'
<1>1. /\ pc[h] = "put" /\ pc' = [pc EXCEPT ![h] = "done"]
      /\ content' = [content EXCEPT ![obj[h]].md = NoTags]
      /\ pooled' = pooled \cup {obj[h]} /\ obj' = [obj EXCEPT ![h] = None]
      /\ UNCHANGED <<protocol, up, sent, tier, todo, added, bytes, store, chan>>
  BY DEF PutObject, GoTo
<1>2. obj[h] \in Objects /\ obj[h] # None /\ \A g \in Handlers \ {h} : obj[g] # obj[h]
  <2>1. obj[h] \in Objects /\ obj[h] # None
    BY <1>1 DEF Inv, Hold
  <2> QED
    BY <2>1 DEF Inv, Hold, ObjectsAreExclusive
<1>3. NoTags \in Dicts
  BY DEF NoTags, Dicts
<1>4. /\ content'[obj[h]] \in Messages /\ content'[obj[h]].md = NoTags
      /\ DOMAIN content' = Objects
      /\ \A x \in Objects \ {obj[h]} : content'[x] = content[x]
  <2>1. content \in [Objects -> Messages] /\ content[obj[h]] \in Messages
    BY <1>2 DEF Inv, Shape
  <2>2. content'[obj[h]] = [content[obj[h]] EXCEPT !.md = NoTags]
    BY <1>1, <1>2, <2>1
  <2>3. content'[obj[h]] \in Messages /\ content'[obj[h]].md = NoTags
    BY <1>3, <2>1, <2>2 DEF Messages
  <2> QED
    BY <1>1, <2>1, <2>3
<1>5. content' \in [Objects -> Messages]
  <2>1. content' = [x \in Objects |-> content'[x]]
    BY <1>1 DEF Inv, Shape
  <2>2. \A x \in Objects : content'[x] \in Messages
    BY <1>4 DEF Inv, Shape
  <2> HIDE DEF Messages
  <2> QED
    BY <2>1, <2>2
<1>6. pc'[h] = "done" /\ \A g \in Handlers \ {h} : pc'[g] = pc[g]
  BY <1>1 DEF Inv, Shape
<1>7. Hold'
  BY PutHold DEF Inv
<1>8. Shape'
  BY <1>1, <1>5 DEF Inv, Shape, Places, IsUpload
<1>9. JSONOf(h)'
  BY <1>6 DEF JSONOf, SentOf, CollapsingOf, AddingOf, UploadPlaces, PacketPlaces
<1>10. NoForeignTags'
  BY <1>1, TagsKept DEF Inv
<1>11. Clean'
  <2>1. \A x \in pooled' : content'[x].md = NoTags
    BY <1>1, <1>4 DEF Inv, Clean, Hold
  <2>2. ASSUME NEW g \in Handlers, pc'[g] = "addpacket"
        PROVE  /\ content'[obj'[g]].uuid \in UUIDs
               /\ sent[g].ends # 0 => content'[obj'[g]].uuid = sent[g].uuid
               /\ ~IsCut(sent[g]) =>
                    content'[obj'[g]].md = IF sent[g].md = None THEN NoTags ELSE sent[g].md
    <3>1. g # h /\ pc[g] = "addpacket" /\ obj'[g] = obj[g]
      BY <1>1, <1>6, <2>2 DEF Inv, Hold
    <3>2. obj[g] \in Objects \ {obj[h]}
      BY <1>2, <3>1 DEF Inv, Hold
    <3> QED
      BY <1>4, <3>1, <3>2 DEF Inv, Clean
  <2> QED
    BY <1>1, <2>1, <2>2 DEF Clean, NoTags
<1> QED
  BY <1>1, <1>6, <1>7, <1>8, <1>9, <1>10, <1>11, OnlyHandler

LEMMA DeliverInv == ASSUME UploadsAssumption, Inv, Deliver PROVE Inv'
<1>1. /\ chan # <<>> /\ chan' = Tail(chan)
      /\ UNCHANGED <<protocol, up, pc, sent, tier, todo, added, obj, content, pooled, buffer, bytes, spare, store>>
  BY DEF Deliver, pools
<1>2. chan' \in Seq(Objects \cup Messages) /\ Len(chan') <= Cap
  <2> HIDE DEF Messages
  <2>1. chan \in Seq(Objects \cup Messages) /\ Len(chan) <= Cap /\ Cap \in Nat
    BY DEF Inv, Shape, UploadsAssumption
  <2>2. chan' \in Seq(Objects \cup Messages) /\ Len(chan') = Len(chan) - 1 /\ Len(chan) \in Nat
    BY <1>1, <2>1
  <2> QED
    BY <2>1, <2>2
<1>3. Shape'
  BY <1>1, <1>2 DEF Inv, Shape, IsUpload
<1>4. Hold'
  BY <1>1, KeepsHold DEF Inv, Keeps
<1>5. \A h \in Handlers : JSONOf(h)'
  BY <1>1, JSONKept DEF Inv
<1>6. NoForeignTags' /\ Clean'
  BY <1>1, TagsKept, CleanKept DEF Inv
<1> QED
  BY <1>3, <1>4, <1>5, <1>6 DEF Inv

LEMMA InitInv == ASSUME UploadsAssumption, Init PROVE Inv
<1>1. Hold
  BY DEF Init, Hold, ObjectsAreExclusive
<1>2. Shape
  <2>1. NoTags \in Dicts /\ NoProperties \in Properties
    BY DEF NoTags, Dicts, NoProperties, Properties
  <2>2. content \in [Objects -> Messages]
    BY <2>1 DEF Init, Fresh, Messages
  <2>3. store \in [UUIDs -> [md : Dicts, props : Properties]]
    BY <2>1 DEF Init
  <2>4. chan \in Seq(Objects \cup Messages) /\ Len(chan) <= Cap
    <3> HIDE DEF Messages
    <3> QED
      BY DEF Init, UploadsAssumption
  <2>5. DOMAIN tier = Handlers /\ \A h \in Handlers : IsUpload(tier[h])
    BY DEF Init, IsUpload
  <2> QED
    BY <2>2, <2>3, <2>4, <2>5 DEF Init, Shape, Places, Zeros, Images
<1>3. \A h \in Handlers : JSONOf(h)
  BY DEF Init, JSONOf, SentOf, CollapsingOf, AddingOf, UploadPlaces, PacketPlaces
<1>4. Clean
  BY DEF Init, Clean
<1>5. NoForeignTags
  <2>1. \A u \in UUIDs, k \in Keys : store[u].md[k] = Unset
    BY DEF Init, NoTags
  <2> QED
    BY <2>1 DEF NoForeignTags
<1> QED
  BY <1>1, <1>2, <1>3, <1>4, <1>5 DEF Inv

LEMMA StepInv == ASSUME UploadsAssumption, Inv, [Next]_vars PROVE Inv'
<1>1. ASSUME NEW h \in Handlers, Step(h) PROVE Inv'
  BY <1>1, ReceiveJSONInv, CollapsePathInv, CollapseDoneInv, AddMessageInv, RespondInv,
     ReceivePacketInv, AddPacketInv, PutObjectInv DEF Step
<1>2. CASE Deliver
  BY <1>2, DeliverInv
<1>3. CASE UNCHANGED vars
  <2> USE <1>3 DEF vars, pools
  <2>1. Hold' /\ Shape'
    BY DEF Inv, Hold, ObjectsAreExclusive, Shape, IsUpload
  <2>2. \A h \in Handlers : JSONOf(h)'
    BY JSONKept DEF Inv
  <2>3. NoForeignTags' /\ Clean'
    BY TagsKept, CleanKept DEF Inv
  <2> QED
    BY <2>1, <2>2, <2>3 DEF Inv
<1> QED
  BY <1>1, <1>2, <1>3 DEF Next

LEMMA InvHolds == Spec => []Inv
<1>1. Init => Inv
  BY InitInv, UploadsAssumption
<1>2. Inv /\ [Next]_vars => Inv'
  BY StepInv, UploadsAssumption
<1> QED
  BY <1>1, <1>2, PTL DEF Spec

(* The variables keep their types, and the channel its buffer. *)
THEOREM UploadTypes == Spec => []TypeOK
<1>1. Inv => TypeOK
  <2> SUFFICES ASSUME Inv PROVE TypeOK
    OBVIOUS
  <2>1. \A h \in Handlers : DOMAIN tier[h] \subseteq Paths /\ Range(tier[h]) \subseteq Messages
    BY DEF Inv, Shape, IsUpload, Range
  <2>2. \A i \in DOMAIN chan : Deref(chan[i]) \in Messages
    <3>1. chan \in Seq(Objects \cup Messages) /\ content \in [Objects -> Messages]
      BY DEF Inv, Shape
    <3> HIDE DEF Messages
    <3>2. \A i \in DOMAIN chan : chan[i] \in Objects \cup Messages
      BY <3>1
    <3> QED
      BY <3>1, <3>2 DEF Deref
  <2> QED
    BY <2>1, <2>2 DEF Inv, Shape, Hold, TypeOK
<1> QED
  BY <1>1, InvHolds, PTL

(* No two packets ever share a message object or a byte buffer, and what a *)
(* packet has is not in the pools (plugins/msgpack/handlers.go:88-108, 146)*)
THEOREM PacketsDoNotShare == Spec => []ObjectsAreExclusive
<1>1. Inv => ObjectsAreExclusive
  BY DEF Inv, Hold
<1> QED
  BY <1>1, InvHolds, PTL

(* However deep the paths of an upload and in whatever order they are      *)
(* collapsed, each stream has the tags of the nearest path that has them   *)
(* (common/message.go CollapseToTimeseries).                               *)
THEOREM TagsComeFromTheNearest == Spec => []NearestWins
<1>1. Inv => NearestWins
  BY DEF Inv, JSONOf, AddingOf, NearestWins, Uploading
<1> QED
  BY <1>1, InvHolds, PTL

(* An upload is answered with success only when all its streams have been  *)
(* added, and with an error only when one has not (plugins' handleAdd).    *)
THEOREM AnswersAreTrue == Spec => []AnswerIsTrue
<1>1. Inv => AnswerIsTrue
  BY DEF Inv, JSONOf, AddingOf, AnswerIsTrue
<1> QED
  BY <1>1, InvHolds, PTL

(* A stream only ever gets tags that an upload or a packet had for it,     *)
(* though packets reuse message objects, unless a packet for it was cut    *)
(* short: that one may be completed by what another left in its buffer     *)
(* (plugins/msgpack/handlers.go:88-107).                                   *)
THEOREM TagsAreSent == Spec => []NoForeignTags
<1>1. Inv => NoForeignTags
  BY DEF Inv
<1> QED
  BY <1>1, InvHolds, PTL


=============================================================================

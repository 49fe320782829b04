---------------------------- MODULE ArchiveProofs ----------------------------
(* For any messages of requests and any archivers: equal requests are      *)
(* archived once and into one stream, and no metadata is missed.           *)
EXTENDS ArchiveRequests, FiniteSetTheorems, TLAPS

MetadataMessages == [uri : URIs, number : Nat, by : {"query", "subscription"}]

Kinds == {"inherited", "reading", "metadata"}

Shape ==
  /\ up \in BOOLEAN
  /\ todo \in [Handlers -> SUBSET Nat]
  /\ \A h \in Handlers : todo[h] \subseteq ExtractArchiveRequests(Message[h])
  /\ hpc \in [Handlers -> {"idle", "add", "inherit", "subscribe", "query"}]
  /\ mu \in [Handlers -> Nat]
  /\ requests \subseteq Objects /\ skipped \subseteq Objects
  /\ failed \subseteq requests /\ listening \subseteq requests \ failed
  /\ uuidActual \in [Objects -> UUIDs] /\ luuid \in [Objects -> UUIDs]
  /\ lpc \in [Objects -> {"receive", "assign", "send"}]
  /\ data \in [Objects -> Seq([payload : Payloads, number : Nat])]
  /\ held \in [Objects -> SUBSET MetadataMessages]
  /\ working \subseteq [obj : Objects, msg : MetadataMessages]
  /\ latest \in [URIs -> 0..MaxMetadata] /\ published \in 0..MaxData
  /\ added \subseteq [obj : Objects, kind : Kinds, uri : STRING, number : Nat, uuid : UUIDs]
  /\ kept \in [UUIDs -> [URIs -> 0..MaxMetadata]]

Busy(h) == hpc[h] \in {"inherit", "subscribe", "query"}

(* A handler works on the first of the requests it still has, and of those *)
(* only this one can have been registered: what has been is done with      *)
(* exactly when it failed or has an archiver.                              *)
InLoop ==
  /\ \A h \in Handlers :
       /\ hpc[h] \in {"idle", "add", "inherit"} => mu[h] = 0
       /\ hpc[h] = "query" => mu[h] < Len(Request(Current(h)).sources)
       /\ Busy(h) =>
            /\ todo[h] # {}
            /\ Current(h) \in requests \ (failed \cup listening)
            /\ mu[h] <= Len(Request(Current(h)).sources)
  /\ \A o \in requests :
       /\ hpc[o[1]] # "idle"
       /\ o[2] \in todo[o[1]] => Busy(o[1]) /\ o = Current(o[1])
       /\ o \notin failed \cup listening => o[2] \in todo[o[1]]

(* addRequest: no two objects registered have one hash. *)
OnePerHash == \A p, q \in requests : Hash(p) = Hash(q) => p = q

(* What a request without an expression can be given as its UUID is the    *)
(* same wherever it is set, so that a race has nothing to choose from.     *)
OneUUID ==
  \A o \in Objects : NoExpression(o) =>
    /\ uuidActual[o] \in {NoUUID, UUIDText(o)}
    /\ lpc[o] = "assign" => luuid[o] = UUIDText(o)
    /\ \A a \in added : a.obj = o => a.uuid = UUIDText(o)

(* A UUID that is used is known. *)
Known ==
  /\ \A o \in Objects :
       /\ lpc[o] = "assign" => luuid[o] # NoUUID
       /\ lpc[o] = "send" => uuidActual[o] # NoUUID
  /\ \A w \in working : w.obj \in listening /\ uuidActual[w.obj] # NoUUID
  /\ \A a \in added : a.obj \in requests /\ a.uuid # NoUUID

(* Messages are queued and listened to in the order of their numbers. *)
InOrder ==
  \A o \in Objects :
    /\ data[o] # <<>> => o \in listening
    /\ lpc[o] # "receive" => data[o] # <<>>
    /\ Len(data[o]) <= published
    /\ \A i \in DOMAIN data[o] : data[o][i].number <= published
    /\ \A i, j \in DOMAIN data[o] : i < j => data[o][i].number < data[o][j].number
    /\ \A a \in added : a.obj = o /\ a.kind = "reading" =>
         \A i \in DOMAIN data[o] : a.number < data[o][i].number

ReadingsOnce ==
  \A a, b \in added :
    a.kind = "reading" /\ b.kind = "reading" /\ a.obj = b.obj /\ a.number = b.number => a = b

ReadingsPast == \A a \in added : a.kind = "reading" => a.number <= published

(* Metadata messages are numbered from 1 up to the last. *)
Numbered ==
  /\ \A o \in Objects : \A m \in held[o] : m.number \in 1..latest[m.uri]
  /\ \A w \in working : w.msg.number \in 1..latest[w.msg.uri]

(* How many of its metadata URIs have been subscribed to and queried. *)
Queried(o) == IF o \in listening THEN Len(Request(o).sources) ELSE mu[o[1]]

(* The metadata messages that an object has or has passed on. *)
Given(o) ==
  held[o] \cup {w.msg : w \in {v \in working : v.obj = o}}
    \cup {a \in added : a.obj = o /\ a.kind = "metadata"}

NotMissed ==
  up => \A o \in requests \ failed : \A i \in 1..Queried(o) :
          LET u == Request(o).sources[i]
          IN  u \in URIs /\ latest[u] > 0 =>
                \E m \in Given(o) : m.uri = u /\ m.number = latest[u]

Inv ==
  /\ Shape /\ InLoop /\ OnePerHash /\ OneUUID /\ Known /\ InOrder
  /\ ReadingsOnce /\ ReadingsPast /\ Numbered /\ NotMissed

-----------------------------------------------------------------------------
(* Facts about constants.                                                  *)

(* The least element of a set of numbers, which Min chooses. *)
LEMMA MinIn == ASSUME NEW T \in SUBSET Nat, T # {} PROVE Min(T) \in T
<1>1. PICK x \in T : TRUE
  OBVIOUS
<1> DEFINE S == 0..x
           F == {T \cap (0..y) : y \in T \cap S}
<1>2. FiniteSubsetsOf(S) = SUBSET S
  <2>1. IsFiniteSet(S)
    BY <1>1, FS_Interval
  <2> HIDE DEF S
  <2> QED
    BY <2>1, FS_FiniteSubsetsOfFinite
<1>3. F \subseteq SUBSET S /\ F # {}
  <2>1. x \in T \cap S
    BY <1>1
  <2>2. ASSUME NEW y \in T \cap S, NEW z \in 0..y PROVE z \in S
    BY <1>1, <2>2
  <2> QED
    BY <2>1, <2>2, Zenon
<1>4. PICK s \in F : \A r \in F : <<r, s>> \notin StrictSubsetOrdering(S)
  <2>1. IsWellFoundedOn(StrictSubsetOrdering(S), SUBSET S)
    BY <1>2, FS_StrictSubsetOrderingWellFounded
  <2> HIDE DEF F, S
  <2> QED
    BY <1>3, <2>1, WFMin
<1>5. PICK y \in T \cap S : s = T \cap (0..y)
  BY <1>4
<1>6. ASSUME NEW m \in T, m < y PROVE FALSE
  <2>1. m \in S /\ T \cap (0..m) \in F
    BY <1>1, <1>5, <1>6
  <2>2. T \cap (0..m) \subseteq s /\ y \in s /\ y \notin T \cap (0..m)
    BY <1>5, <1>6
  <2>3. T \cap (0..m) \in SUBSET S /\ s \in SUBSET S
    BY <1>3, <1>4, <2>1
  <2>4. <<T \cap (0..m), s>> \in StrictSubsetOrdering(S)
    <3> HIDE DEF F, S
    <3> QED
      BY <2>2, <2>3 DEF StrictSubsetOrdering
  <2> QED
    BY <1>4, <2>1, <2>4
<1>7. \E n \in T : \A m \in T : n <= m
  BY <1>5, <1>6
<1> QED
  BY <1>7 DEF Min

LEMMA ObjectFacts ==
  ASSUME ArchiveAssumption
  PROVE  /\ \A h \in Handlers : \A i \in ExtractArchiveRequests(Message[h]) : <<h, i>> \in Objects
         /\ \A o \in Objects : /\ o[1] \in Handlers /\ o = <<o[1], o[2]>>
                               /\ o[2] \in ExtractArchiveRequests(Message[o[1]])
BY DEF Objects

LEMMA ElementOf == ASSUME NEW S, NEW s \in Seq(S), NEW i \in DOMAIN s PROVE s[i] \in S
OBVIOUS

LEMMA Singleton == ASSUME NEW S, NEW e \in S PROVE <<e>> \in Seq(S) /\ <<e>> # <<>>
OBVIOUS

LEMMA RequestFacts ==
  ASSUME ArchiveAssumption, NEW o \in Objects
  PROVE  /\ Request(o).uri \in STRING
         /\ Request(o).uuid \in Seq(STRING)
         /\ Request(o).value \in Seq(STRING)
         /\ Request(o).sources \in Seq(STRING)
         /\ Request(o).sources # <<>>
<1>1. o[1] \in Handlers /\ o[2] \in DOMAIN Message[o[1]]
  BY ObjectFacts DEF ExtractArchiveRequests
<1> DEFINE R == [uri : STRING, po : Nat, uuid : Seq(STRING), value : Seq(STRING),
                 inherit : BOOLEAN, sources : Seq(STRING)]
           r == Message[o[1]][o[2]]
<1>2. Message[o[1]] \in Seq(R)
  BY <1>1 DEF ArchiveAssumption
<1>3. r \in R
  <2> HIDE DEF R
  <2> QED
    BY <1>1, <1>2, ElementOf
<1>4. /\ Request(o).uri = r.uri /\ Request(o).uuid = r.uuid /\ Request(o).value = r.value
      /\ Request(o).sources = IF r.sources = <<>> THEN <<r.uri>> ELSE r.sources
  BY <1>3 DEF Request
<1>5. r.uri \in STRING /\ r.uuid \in Seq(STRING) /\ r.value \in Seq(STRING) /\ r.sources \in Seq(STRING)
  BY <1>3
<1>6. <<r.uri>> \in Seq(STRING) /\ <<r.uri>> # <<>>
  BY <1>5, Singleton
<1> HIDE DEF r, R
<1> QED
  BY <1>4, <1>5, <1>6, Zenon

LEMMA UUIDFacts ==
  ASSUME ArchiveAssumption
  PROVE  /\ \A o \in Objects : UUIDText(o) \in UUIDs \ {NoUUID}
         /\ NoUUID \in UUIDs /\ Torn \in UUIDs \ {NoUUID}
         /\ \A p \in Payloads : /\ Text(p.uuid) \in UUIDs
                                /\ p.uuid # <<>> => Text(p.uuid) # NoUUID
<1>1. ASSUME NEW o \in Objects PROVE UUIDText(o).text # <<>>
  <2>1. CASE Request(o).uuid = <<>>
    <3>1. UUIDText(o).text = <<Request(o).uri>> \o Request(o).value
      BY <2>1 DEF UUIDText
    <3>2. Len(UUIDText(o).text) = 1 + Len(Request(o).value)
      BY <3>1, RequestFacts
    <3> QED
      BY <3>2, RequestFacts
  <2>2. CASE Request(o).uuid # <<>>
    BY <2>2 DEF UUIDText, Text
  <2> QED
    BY <2>1, <2>2
<1>2. \A o \in Objects : UUIDText(o) \in UUIDs
  BY DEF UUIDs
<1>3. NoUUID.text = <<>> /\ Torn.text # <<>> /\ NoUUID \in UUIDs /\ Torn \in UUIDs
  BY DEF NoUUID, Torn, UUIDs
<1>4. \A p \in Payloads : Text(p.uuid) \in UUIDs /\ Text(p.uuid).text = p.uuid
  BY DEF Text, UUIDs
<1> QED
  BY <1>1, <1>2, <1>3, <1>4

-----------------------------------------------------------------------------
LEMMA InitInv == ASSUME ArchiveAssumption PROVE Init => Inv
<1> SUFFICES ASSUME Init PROVE Inv
  OBVIOUS
<1> USE DEF Init
<1>1. Shape
  <2>1. MaxMetadata \in Nat /\ MaxData \in Nat
    BY DEF ArchiveAssumption
  <2> QED
    BY <2>1, UUIDFacts DEF Shape
<1>2. InLoop /\ OnePerHash
  BY DEF InLoop, OnePerHash, Busy
<1>3. OneUUID /\ Known
  BY DEF OneUUID, Known
<1>4. InOrder /\ ReadingsOnce /\ ReadingsPast
  BY DEF InOrder, ReadingsOnce, ReadingsPast
<1>5. Numbered /\ NotMissed
  BY DEF Numbered, NotMissed
<1> QED
  BY <1>1, <1>2, <1>3, <1>4, <1>5 DEF Inv

-----------------------------------------------------------------------------
(* The loop of a handler.                                                  *)

LEMMA CurrentFacts ==
  ASSUME ArchiveAssumption, Shape, NEW h \in Handlers, todo[h] # {}
  PROVE  /\ Min(todo[h]) \in todo[h]
         /\ Current(h) \in Objects /\ Current(h)[1] = h /\ Current(h)[2] = Min(todo[h])
<1>1. Min(todo[h]) \in todo[h]
  BY MinIn DEF Shape
<1>2. <<h, Min(todo[h])>> \in Objects
  BY <1>1, ObjectFacts DEF Shape
<1> QED
  BY <1>1, <1>2 DEF Current

(* Of one handler's objects, only the current one is registered, without   *)
(* an archiver, and has not failed.                                        *)
LEMMA OnlyTheCurrent ==
  ASSUME ArchiveAssumption, Shape, InLoop, NEW o \in requests, o \notin failed \cup listening
  PROVE  o[1] \in Handlers /\ Busy(o[1]) /\ o = Current(o[1])
BY ObjectFacts DEF InLoop, Shape

(* A handler goes on with its request. *)
LEMMA GoesOn ==
  ASSUME ArchiveAssumption, Shape, InLoop, NEW h \in Handlers, Busy(h),
         NEW l \in {"subscribe", "query"}, hpc' = [hpc EXCEPT ![h] = l],
         \/ mu' = mu /\ (l = "query" => mu[h] < Len(Request(Current(h)).sources))
         \/ mu' = [mu EXCEPT ![h] = @ + 1] /\ hpc[h] = "query" /\ l = "subscribe",
         UNCHANGED <<todo, requests, failed, listening>>
  PROVE  InLoop'
<1>1. \A g \in Handlers : Current(g)' = Current(g)
  BY DEF Current
<1>2. \A g \in Handlers : g # h => hpc'[g] = hpc[g] /\ mu'[g] = mu[g]
  BY DEF Shape
<1>3. hpc'[h] = l /\ Busy(h)'
  BY DEF Shape, Busy
<1>4. Len(Request(Current(h)).sources) \in Nat /\ mu[h] \in Nat /\ mu'[h] \in {mu[h], mu[h] + 1}
  <2>1. Current(h) \in Objects
    BY CurrentFacts DEF InLoop
  <2> QED
    BY <2>1, RequestFacts DEF Shape
<1>5. mu'[h] <= Len(Request(Current(h)).sources)
  BY <1>4 DEF InLoop, Shape
<1>6. \A g \in Handlers :
        /\ hpc'[g] \in {"idle", "add", "inherit"} => mu'[g] = 0
        /\ hpc'[g] = "query" => mu'[g] < Len(Request(Current(g)).sources)
        /\ Busy(g)' =>
             /\ todo[g] # {}
             /\ Current(g) \in requests \ (failed \cup listening)
             /\ mu'[g] <= Len(Request(Current(g)).sources)
  BY <1>2, <1>3, <1>4, <1>5 DEF InLoop, Busy
<1>7. \A o \in requests :
        /\ hpc'[o[1]] # "idle"
        /\ o[2] \in todo[o[1]] => Busy(o[1])' /\ o = Current(o[1])'
        /\ o \notin failed \cup listening => o[2] \in todo[o[1]]
  <2> SUFFICES ASSUME NEW o \in requests
               PROVE  /\ hpc'[o[1]] # "idle"
                      /\ o[2] \in todo[o[1]] => Busy(o[1])' /\ o = Current(o[1])'
                      /\ o \notin failed \cup listening => o[2] \in todo[o[1]]
    OBVIOUS
  <2>1. o[1] \in Handlers
    BY ObjectFacts DEF Shape
  <2>2. hpc'[o[1]] = hpc[o[1]] \/ o[1] = h
    BY <1>2, <2>1
  <2> QED
    BY <1>1, <1>3, <2>1, <2>2 DEF InLoop, Busy
<1>8. \A g \in Handlers : Request(Current(g))' = Request(Current(g))
  BY <1>1 DEF Request
<1> QED
  BY <1>1, <1>6, <1>7, <1>8 DEF InLoop

(* A handler is done with its request, and it is not among those that have *)
(* been registered, or it has failed or has an archiver.                   *)
LEMMA GoesToNext ==
  ASSUME ArchiveAssumption, Shape, InLoop, NEW h \in Handlers, todo[h] # {}, hpc[h] # "idle",
         hpc' = [hpc EXCEPT ![h] = "add"],
         todo' = [todo EXCEPT ![h] = @ \ {Min(@)}],
         mu' = [mu EXCEPT ![h] = 0],
         requests' = requests,
         failed \subseteq failed', listening \subseteq listening',
         failed' \cup listening' \subseteq failed \cup listening \cup {Current(h)},
         Current(h) \in requests => Current(h) \in failed' \cup listening'
  PROVE  InLoop'
<1>1. \A g \in Handlers : g # h => /\ hpc'[g] = hpc[g] /\ mu'[g] = mu[g] /\ todo'[g] = todo[g]
                                   /\ Current(g)' = Current(g) /\ Current(g) # Current(h)
  BY DEF Shape, Current
<1>2. hpc'[h] = "add" /\ mu'[h] = 0 /\ todo'[h] = todo[h] \ {Min(todo[h])}
  BY DEF Shape
<1>3. \A g \in Handlers :
        /\ hpc'[g] \in {"idle", "add", "inherit"} => mu'[g] = 0
        /\ hpc'[g] = "query" => mu'[g] < Len(Request(Current(g)').sources)
        /\ Busy(g)' =>
             /\ todo'[g] # {}
             /\ Current(g)' \in requests \ (failed' \cup listening')
             /\ mu'[g] <= Len(Request(Current(g)').sources)
  <2> SUFFICES ASSUME NEW g \in Handlers
               PROVE  /\ hpc'[g] \in {"idle", "add", "inherit"} => mu'[g] = 0
                      /\ hpc'[g] = "query" => mu'[g] < Len(Request(Current(g)').sources)
                      /\ Busy(g)' =>
                           /\ todo'[g] # {}
                           /\ Current(g)' \in requests \ (failed' \cup listening')
                           /\ mu'[g] <= Len(Request(Current(g)').sources)
    OBVIOUS
  <2>1. CASE g = h
    BY <1>2, <2>1 DEF Busy
  <2>2. CASE g # h
    <3>1. /\ hpc'[g] = hpc[g] /\ mu'[g] = mu[g] /\ todo'[g] = todo[g]
          /\ Current(g)' = Current(g) /\ Current(g) # Current(h)
      BY <1>1, <2>2
    <3>2. Busy(g)' <=> Busy(g)
      BY <3>1 DEF Busy
    <3>3. Current(g) \notin failed \cup listening => Current(g) \notin failed' \cup listening'
      BY <3>1
    <3>4. /\ hpc[g] \in {"idle", "add", "inherit"} => mu[g] = 0
          /\ hpc[g] = "query" => mu[g] < Len(Request(Current(g)).sources)
          /\ Busy(g) => /\ todo[g] # {} /\ Current(g) \in requests \ (failed \cup listening)
                        /\ mu[g] <= Len(Request(Current(g)).sources)
      BY DEF InLoop
    <3> QED
      BY <3>1, <3>2, <3>3, <3>4
  <2> QED
    BY <2>1, <2>2
<1>4. \A o \in requests :
        /\ hpc'[o[1]] # "idle"
        /\ o[2] \in todo'[o[1]] => Busy(o[1])' /\ o = Current(o[1])'
        /\ o \notin failed' \cup listening' => o[2] \in todo'[o[1]]
  <2> SUFFICES ASSUME NEW o \in requests
               PROVE  /\ hpc'[o[1]] # "idle"
                      /\ o[2] \in todo'[o[1]] => Busy(o[1])' /\ o = Current(o[1])'
                      /\ o \notin failed' \cup listening' => o[2] \in todo'[o[1]]
    OBVIOUS
  <2>1. o[1] \in Handlers
    BY ObjectFacts DEF Shape
  <2>2. CASE o[1] # h
    BY <1>1, <2>1, <2>2 DEF InLoop, Busy
  <2>3. CASE o[1] = h
    <3>1. o[2] \in todo[h] => o = Current(h) /\ o[2] = Min(todo[h])
      BY <2>3, CurrentFacts DEF InLoop
    <3>2. o[2] \notin todo'[h]
      BY <1>2, <3>1
    <3>3. o \notin failed \cup listening => o = Current(h)
      BY <2>3, <3>1 DEF InLoop
    <3> QED
      BY <1>2, <2>3, <3>2, <3>3
  <2> QED
    BY <2>2, <2>3
<1>5. \A g \in Handlers : Request(Current(g))' = Request(Current(g)')
  BY DEF Request
<1> QED
  BY <1>3, <1>4, <1>5 DEF InLoop

(* Handlers that add nothing do not touch what is known of archivers.      *)
LEMMA ArchiversKept ==
  ASSUME Inv, UNCHANGED <<uuidActual, lpc, luuid, data, working, published, added>>,
         requests \subseteq requests', listening \subseteq listening'
  PROVE  OneUUID' /\ Known' /\ InOrder' /\ ReadingsOnce' /\ ReadingsPast'
<1> USE DEF Inv
<1>1. OneUUID'
  BY DEF OneUUID
<1>2. Known'
  BY DEF Known
<1>3. InOrder'
  BY DEF InOrder
<1>4. ReadingsOnce' /\ ReadingsPast'
  BY DEF ReadingsOnce, ReadingsPast
<1> QED
  BY <1>1, <1>2, <1>3, <1>4

LEMMA LastIsGiven ==
  ASSUME NotMissed, up, NEW o \in requests \ failed, NEW i \in 1..Queried(o), NEW u \in URIs,
         u = Request(o).sources[i], latest[u] > 0
  PROVE  \E m \in Given(o) : m.uri = u /\ m.number = latest[u]
BY DEF NotMissed

LEMMA NotMissedIf ==
  ASSUME up' => \A o \in (requests \ failed)' : \A i \in 1..Queried(o)' : \A u \in URIs :
                  u = Request(o).sources[i] /\ latest'[u] > 0 =>
                    \E m \in Given(o)' : m.uri = u /\ m.number = latest'[u]
  PROVE  NotMissed'
BY DEF NotMissed, Request

(* Nothing is missed if no more has been queried than before, nothing is   *)
(* published, and no message is lost on its way.                           *)
LEMMA NotMissedKept ==
  ASSUME NotMissed, up' => up, latest' = latest,
         \A o \in (requests \ failed)' : \A i \in 1..Queried(o)' :
           o \in requests \ failed /\ i \in 1..Queried(o),
         \A o \in requests : \A m \in Given(o) :
           \E n \in Given(o)' : n.uri = m.uri /\ n.number = m.number
  PROVE  NotMissed'
<1> SUFFICES ASSUME up', NEW o \in (requests \ failed)', NEW i \in 1..Queried(o)',
                    NEW u \in URIs, u = Request(o).sources[i], latest'[u] > 0
             PROVE  \E m \in Given(o)' : m.uri = u /\ m.number = latest'[u]
  BY NotMissedIf
<1>1. PICK m \in Given(o) : m.uri = u /\ m.number = latest[u]
  <2>1. up /\ o \in requests \ failed /\ i \in 1..Queried(o)
    OBVIOUS
  <2> QED
    BY <2>1, LastIsGiven
<1> QED
  BY <1>1

(* The same where nothing at all is given to archivers or taken.           *)
LEMMA NothingGiven ==
  ASSUME NotMissed, up' => up, UNCHANGED <<latest, held, working, added>>,
         \A o \in (requests \ failed)' : \A i \in 1..Queried(o)' :
           o \in requests \ failed /\ i \in 1..Queried(o)
  PROVE  NotMissed'
<1>1. \A o \in requests : Given(o)' = Given(o)
  BY DEF Given
<1> QED
  BY <1>1, NotMissedKept

LEMMA ReceiveInv == ASSUME ArchiveAssumption, Inv, NEW h \in Handlers, Receive(h) PROVE Inv'
<1> USE DEF Inv
<1>1. /\ hpc[h] = "idle" /\ hpc' = [hpc EXCEPT ![h] = "add"]
      /\ todo' = [todo EXCEPT ![h] = ExtractArchiveRequests(Message[h])]
      /\ UNCHANGED <<up, mu, requests, skipped, failed, uuidActual, listening, lpc, luuid, data,
                     held, working, latest, published, added, kept>>
  BY DEF Receive, Go
<1>2. Shape'
  <2>1. ExtractArchiveRequests(Message[h]) \subseteq Nat
    BY DEF ExtractArchiveRequests, ArchiveAssumption
  <2>2. todo' \in [Handlers -> SUBSET Nat] /\ hpc' \in [Handlers -> {"idle", "add", "inherit", "subscribe", "query"}]
    BY <1>1, <2>1 DEF Shape
  <2>3. \A g \in Handlers : todo'[g] \subseteq ExtractArchiveRequests(Message[g])
    BY <1>1 DEF Shape
  <2> QED
    BY <1>1, <2>2, <2>3 DEF Shape
<1>3. InLoop'
  <2>1. \A g \in Handlers : g # h => /\ hpc'[g] = hpc[g] /\ todo'[g] = todo[g]
                                     /\ Current(g)' = Current(g)
    BY <1>1 DEF Shape, Current
  <2>2. hpc'[h] = "add" /\ mu'[h] = 0
    BY <1>1 DEF Shape, InLoop
  <2>3. \A g \in Handlers : Request(Current(g))' = Request(Current(g)')
    BY DEF Request
  <2>4. \A o \in requests : o[1] \in Handlers /\ o[1] # h
    BY <1>1, ObjectFacts DEF InLoop, Shape
  <2>5. \A g \in Handlers :
          /\ hpc'[g] \in {"idle", "add", "inherit"} => mu'[g] = 0
          /\ hpc'[g] = "query" => mu'[g] < Len(Request(Current(g)').sources)
          /\ Busy(g)' =>
               /\ todo'[g] # {}
               /\ Current(g)' \in requests \ (failed \cup listening)
               /\ mu'[g] <= Len(Request(Current(g)').sources)
    BY <1>1, <2>1, <2>2 DEF InLoop, Busy
  <2>6. \A o \in requests :
          /\ hpc'[o[1]] # "idle"
          /\ o[2] \in todo'[o[1]] => Busy(o[1])' /\ o = Current(o[1])'
          /\ o \notin failed \cup listening => o[2] \in todo'[o[1]]
    BY <2>1, <2>4 DEF InLoop, Busy
  <2> QED
    BY <1>1, <2>3, <2>5, <2>6 DEF InLoop
<1>4. OnePerHash' /\ Numbered'
  BY <1>1 DEF OnePerHash, Numbered
<1>5. NotMissed'
  <2>1. \A o : Queried(o)' = Queried(o)
    BY <1>1 DEF Queried, Request
  <2> QED
    BY <1>1, <2>1, NothingGiven
<1> QED
  BY <1>1, <1>2, <1>3, <1>4, <1>5, ArchiversKept

(* The shape of what a handler does at the end of a round.                 *)
LEMMA NextRequestShape ==
  ASSUME ArchiveAssumption, Shape, NEW h \in Handlers, NEW from, NextRequest(h, from)
  PROVE  /\ up /\ hpc[h] = from
         /\ hpc' = [hpc EXCEPT ![h] = "add"]
         /\ todo' = [todo EXCEPT ![h] = @ \ {Min(@)}]
         /\ mu' = [mu EXCEPT ![h] = 0]
         /\ hpc' \in [Handlers -> {"idle", "add", "inherit", "subscribe", "query"}]
         /\ todo' \in [Handlers -> SUBSET Nat]
         /\ \A g \in Handlers : todo'[g] \subseteq ExtractArchiveRequests(Message[g])
         /\ mu' \in [Handlers -> Nat]
BY DEF NextRequest, Go, Shape

(* Other handlers' objects, and its own but the current, stay as they were *)
(* when a handler ends a round.                                            *)
LEMMA NextRequestQueried ==
  ASSUME ArchiveAssumption, Shape, InLoop, NEW h \in Handlers, mu' = [mu EXCEPT ![h] = 0],
         requests' = requests, failed \subseteq failed',
         listening \subseteq listening', listening' \subseteq listening \cup {Current(h)},
         Current(h) \in listening' \ listening => Queried(Current(h)) = Len(Request(Current(h)).sources),
         Current(h) \in requests => Current(h) \in failed' \cup listening'
  PROVE  \A o \in (requests \ failed)' : \A i \in 1..Queried(o)' :
           o \in requests \ failed /\ i \in 1..Queried(o)
<1> SUFFICES ASSUME NEW o \in (requests \ failed)'
             PROVE  o \in requests \ failed /\ Queried(o)' = Queried(o)
  OBVIOUS
<1>1. o \in requests \ failed /\ Request(o)' = Request(o)
  BY DEF Request
<1>2. CASE o \in listening
  BY <1>1, <1>2 DEF Queried
<1>3. CASE o \notin listening /\ o = Current(h)
  BY <1>1, <1>3 DEF Queried
<1>4. CASE o \notin listening /\ o # Current(h)
  <2>1. o[1] \in Handlers /\ o[1] # h
    BY <1>1, <1>4, OnlyTheCurrent
  <2> QED
    BY <1>1, <1>4, <2>1 DEF Queried, Shape
<1> QED
  BY <1>2, <1>3, <1>4

LEMMA FailInv ==
  ASSUME ArchiveAssumption, Inv, NEW h \in Handlers, NEW from, Busy(h), Fail(h, from),
         UNCHANGED <<up, requests, skipped, uuidActual, listening, lpc, luuid, data, held, working,
                     latest, published, added, kept>>
  PROVE  Inv'
<1> USE DEF Inv
<1>1. NextRequest(h, from) /\ failed' = failed \cup {Current(h)}
  BY DEF Fail
<1>2. Current(h) \in requests \ listening /\ todo[h] # {} /\ hpc[h] # "idle"
  BY DEF InLoop, Busy
<1>3. Shape'
  BY <1>1, <1>2, NextRequestShape DEF Shape
<1>4. InLoop'
  BY <1>1, <1>2, NextRequestShape, GoesToNext
<1>5. OnePerHash' /\ Numbered'
  BY DEF OnePerHash, Numbered
<1>6. NotMissed'
  BY <1>1, NextRequestShape, NextRequestQueried, NothingGiven
<1> QED
  BY <1>3, <1>4, <1>5, <1>6, ArchiversKept

(* The request is registered. *)
LEMMA RegisterInv ==
  ASSUME ArchiveAssumption, Inv, NEW h \in Handlers, todo[h] # {}, hpc[h] = "add",
         \A p \in requests : Hash(p) # Hash(Current(h)),
         requests' = requests \cup {Current(h)},
         NEW l \in {"inherit", "subscribe"}, hpc' = [hpc EXCEPT ![h] = l],
         UNCHANGED <<todo, mu, skipped, up, failed, uuidActual, listening, lpc, luuid, data, held,
                     working, latest, published, added, kept>>
  PROVE  Inv'
<1> USE DEF Inv
<1>1. /\ Current(h) \in Objects /\ Current(h)[1] = h /\ Current(h)[2] = Min(todo[h])
      /\ Min(todo[h]) \in todo[h] /\ Current(h) \notin requests /\ mu[h] = 0
  BY CurrentFacts DEF InLoop
<1>2. Shape'
  BY <1>1 DEF Shape
<1>3. \A g \in Handlers : Current(g)' = Current(g) /\ Request(Current(g))' = Request(Current(g))
  BY DEF Current, Request
<1>4. /\ \A g \in Handlers : g # h => hpc'[g] = hpc[g] /\ mu'[g] = mu[g]
      /\ hpc'[h] = l /\ mu'[h] = 0 /\ Busy(h)'
  BY <1>1 DEF Shape, Busy
<1>5. InLoop'
  <2>1. 0 <= Len(Request(Current(h)).sources)
    BY <1>1, RequestFacts
  <2>2. Current(h) \in requests' \ (failed \cup listening)
    BY <1>1 DEF Shape
  <2>3. \A g \in Handlers :
          /\ hpc'[g] \in {"idle", "add", "inherit"} => mu'[g] = 0
          /\ hpc'[g] = "query" => mu'[g] < Len(Request(Current(g)).sources)
          /\ Busy(g)' =>
               /\ todo[g] # {}
               /\ Current(g) \in requests' \ (failed \cup listening)
               /\ mu'[g] <= Len(Request(Current(g)).sources)
    BY <1>4, <2>1, <2>2 DEF InLoop, Busy
  <2>4. \A o \in requests' :
          /\ hpc'[o[1]] # "idle"
          /\ o[2] \in todo[o[1]] => Busy(o[1])' /\ o = Current(o[1])'
          /\ o \notin failed \cup listening => o[2] \in todo[o[1]]
    <3> SUFFICES ASSUME NEW o \in requests'
                 PROVE  /\ hpc'[o[1]] # "idle"
                        /\ o[2] \in todo[o[1]] => Busy(o[1])' /\ o = Current(o[1])'
                        /\ o \notin failed \cup listening => o[2] \in todo[o[1]]
      OBVIOUS
    <3>1. CASE o = Current(h)
      BY <1>1, <1>3, <1>4, <3>1
    <3>2. CASE o # Current(h)
      <4>1. o \in requests /\ o[1] \in Handlers
        BY <3>2, ObjectFacts DEF Shape
      <4>2. CASE o[1] = h
        BY <1>4, <4>1, <4>2 DEF InLoop, Busy
      <4>3. CASE o[1] # h
        BY <1>3, <1>4, <4>1, <4>3 DEF InLoop, Busy
      <4> QED
        BY <4>2, <4>3
    <3> QED
      BY <3>1, <3>2
  <2> QED
    BY <1>3, <2>3, <2>4 DEF InLoop
<1>6. OnePerHash' /\ Numbered'
  <2>1. \A p : Hash(p)' = Hash(p)
    BY DEF Hash, Request
  <2> QED
    BY <2>1 DEF OnePerHash, Numbered
<1>7. NotMissed'
  <2>1. Current(h) \notin listening
    BY <1>1 DEF Shape
  <2>2. \A o : Queried(o)' = Queried(o)
    BY DEF Queried, Request
  <2>3. Queried(Current(h)) = 0
    BY <1>1, <2>1 DEF Queried
  <2> QED
    BY <2>2, <2>3, NothingGiven
<1> QED
  BY <1>2, <1>5, <1>6, <1>7, ArchiversKept

(* It is passed over, since another object has its hash. *)
LEMMA PassOverInv ==
  ASSUME ArchiveAssumption, Inv, NEW h \in Handlers, todo[h] # {}, NextRequest(h, "add"),
         skipped' = skipped \cup {Current(h)},
         UNCHANGED <<requests, up, failed, uuidActual, listening, lpc, luuid, data, held,
                     working, latest, published, added, kept>>
  PROVE  Inv'
<1> USE DEF Inv
<1>1. Current(h) \in Objects /\ Current(h) \notin requests /\ hpc[h] = "add"
  <2>1. hpc[h] = "add"
    BY DEF NextRequest, Go
  <2> QED
    BY <2>1, CurrentFacts DEF InLoop, Busy
<1>2. Shape'
  BY <1>1, NextRequestShape DEF Shape
<1>3. InLoop'
  BY <1>1, NextRequestShape, GoesToNext
<1>4. OnePerHash' /\ Numbered'
  BY DEF OnePerHash, Numbered
<1>5. NotMissed'
  BY <1>1, NextRequestShape, NextRequestQueried, NothingGiven
<1> QED
  BY <1>2, <1>3, <1>4, <1>5, ArchiversKept

LEMMA addRequestInv == ASSUME ArchiveAssumption, Inv, NEW h \in Handlers, addRequest(h) PROVE Inv'
<1>1. CASE \E p \in requests : Hash(p) = Hash(Current(h))
  BY <1>1, PassOverInv DEF addRequest
<1>2. CASE ~\E p \in requests : Hash(p) = Hash(Current(h))
  <2>1. PICK l \in {"inherit", "subscribe"} : hpc' = [hpc EXCEPT ![h] = l]
    BY <1>2 DEF addRequest, Go
  <2> QED
    BY <1>2, <2>1, RegisterInv DEF addRequest, Go
<1> QED
  BY <1>1, <1>2

(* Giving AddData something that is no reading. *)
LEMMA AddKeeps ==
  ASSUME ArchiveAssumption, Inv, NEW o \in requests, NEW kind \in Kinds \ {"reading"},
         NEW uri \in STRING, NEW number \in Nat, NEW uuid \in UUIDs \ {NoUUID},
         NoExpression(o) => uuid = UUIDText(o),
         Add(o, kind, uri, number, uuid), UNCHANGED <<data, lpc, listening, requests, published>>
  PROVE  /\ added' \subseteq [obj : Objects, kind : Kinds, uri : STRING, number : Nat, uuid : UUIDs]
         /\ \A q \in Objects : NoExpression(q) =>
              \A a \in added' : a.obj = q => a.uuid = UUIDText(q)
         /\ \A a \in added' : a.obj \in requests /\ a.uuid # NoUUID
         /\ InOrder' /\ ReadingsOnce' /\ ReadingsPast'
<1> USE DEF Inv
<1> DEFINE new == [obj |-> o, kind |-> kind, uri |-> uri, number |-> number, uuid |-> uuid]
<1>1. added' = added \cup {new}
  BY DEF Add
<1>2. /\ new \in [obj : Objects, kind : Kinds, uri : STRING, number : Nat, uuid : UUIDs]
      /\ new.obj = o /\ new.uuid = uuid /\ new.kind # "reading"
  BY DEF Shape
<1> HIDE DEF new
<1>3. /\ added' \subseteq [obj : Objects, kind : Kinds, uri : STRING, number : Nat, uuid : UUIDs]
      /\ \A a \in added' : a.obj \in requests /\ a.uuid # NoUUID
  BY <1>1, <1>2 DEF Shape, Known
<1>4. \A q \in Objects : NoExpression(q) => \A a \in added' : a.obj = q => a.uuid = UUIDText(q)
  BY <1>1, <1>2 DEF OneUUID
<1>5. \A a \in added' : a.kind = "reading" => a \in added
  BY <1>1, <1>2
<1>6. InOrder'
  BY <1>5 DEF InOrder
<1>7. ReadingsOnce' /\ ReadingsPast'
  BY <1>5 DEF ReadingsOnce, ReadingsPast
<1> QED
  BY <1>3, <1>4, <1>6, <1>7

LEMMA InheritInv == ASSUME ArchiveAssumption, Inv, NEW h \in Handlers, Inherit(h) PROVE Inv'
<1> USE DEF Inv
<1> DEFINE o == Current(h)
           uuid == IF uuidActual[o] = NoUUID THEN UUIDText(o) ELSE uuidActual[o]
<1>1. CASE Fail(h, "inherit") /\ UNCHANGED <<uuidActual, added>>
  <2>1. Busy(h)
    BY <1>1 DEF Fail, NextRequest, Go, Busy
  <2> QED
    BY <1>1, <2>1, FailInv DEF Inherit
<1>2. CASE /\ Go(h, "inherit", "subscribe")
           /\ uuidActual' = [uuidActual EXCEPT ![o] = uuid]
           /\ Add(o, "inherited", Request(o).uri, 0, uuid)
           /\ UNCHANGED <<todo, mu, failed>>
  <2>1. /\ UNCHANGED <<up, requests, skipped, listening, lpc, luuid, data, held, working, latest,
                       published, kept, todo, mu, failed>>
        /\ hpc[h] = "inherit" /\ hpc' = [hpc EXCEPT ![h] = "subscribe"] /\ Busy(h)
    BY <1>2 DEF Inherit, Go, Busy
  <2>2. o \in requests /\ o \in Objects
    BY <2>1 DEF InLoop, Shape
  <2>3. uuid \in UUIDs \ {NoUUID} /\ (NoExpression(o) => uuid = UUIDText(o))
    BY <2>2, UUIDFacts DEF Shape, OneUUID
  <2>4. Request(o).uri \in STRING
    BY <2>2, RequestFacts
  <2>5. uuidActual' \in [Objects -> UUIDs] /\ uuidActual'[o] = uuid
        /\ \A q \in Objects : q # o => uuidActual'[q] = uuidActual[q]
    BY <1>2, <2>2, <2>3 DEF Shape
  <2> HIDE DEF uuid, o
  <2>6. /\ added' \subseteq [obj : Objects, kind : Kinds, uri : STRING, number : Nat, uuid : UUIDs]
        /\ \A q \in Objects : NoExpression(q) =>
             \A a \in added' : a.obj = q => a.uuid = UUIDText(q)
        /\ \A a \in added' : a.obj \in requests /\ a.uuid # NoUUID
        /\ InOrder' /\ ReadingsOnce' /\ ReadingsPast'
    BY <1>2, <2>1, <2>2, <2>3, <2>4, AddKeeps DEF Kinds
  <2>7. Shape'
    BY <2>1, <2>5, <2>6 DEF Shape
  <2>8. InLoop'
    BY <2>1, GoesOn
  <2>9. OneUUID'
    BY <2>1, <2>3, <2>5, <2>6 DEF OneUUID
  <2>10. Known'
    BY <2>1, <2>3, <2>5, <2>6 DEF Known, Shape
  <2>11. OnePerHash' /\ Numbered'
    BY <2>1 DEF OnePerHash, Numbered, Hash, Request
  <2>12. NotMissed'
    <3>1. \A q : Queried(q)' = Queried(q)
      BY <2>1 DEF Queried, Request
    <3>2. added \subseteq added'
      BY <1>2 DEF Add
    <3>3. \A q \in requests : Given(q) \subseteq Given(q)'
      BY <2>1, <3>2 DEF Given
    <3> QED
      BY <2>1, <3>1, <3>3, NotMissedKept
  <2> QED
    BY <2>6, <2>7, <2>8, <2>9, <2>10, <2>11, <2>12
<1> QED
  BY <1>1, <1>2 DEF Inherit

LEMMA SubscribeMetadataInv ==
  ASSUME ArchiveAssumption, Inv, NEW h \in Handlers, SubscribeMetadata(h) PROVE Inv'
<1> USE DEF Inv
<1>1. /\ hpc[h] = "subscribe" /\ mu[h] < Len(Request(Current(h)).sources) /\ Busy(h)
      /\ UNCHANGED <<up, requests, skipped, uuidActual, listening, lpc, luuid, data, held, working,
                     latest, published, added, kept>>
  BY DEF SubscribeMetadata, Busy
<1>2. CASE Fail(h, "subscribe")
  BY <1>1, <1>2, FailInv
<1>3. CASE Go(h, "subscribe", "query") /\ UNCHANGED <<todo, mu, failed>>
  <2>1. hpc' = [hpc EXCEPT ![h] = "query"]
    BY <1>3 DEF Go
  <2>2. Shape'
    BY <1>1, <1>3, <2>1 DEF Shape
  <2>3. InLoop'
    BY <1>1, <1>3, <2>1, GoesOn
  <2>4. OnePerHash' /\ Numbered'
    BY <1>1 DEF OnePerHash, Numbered
  <2>5. \A o : Queried(o)' = Queried(o)
    BY <1>1, <1>3 DEF Queried, Request
  <2>6. NotMissed'
    BY <1>1, <1>3, <2>5, NothingGiven
  <2> QED
    BY <1>1, <2>2, <2>3, <2>4, <2>6, ArchiversKept
<1> QED
  BY <1>2, <1>3 DEF SubscribeMetadata

(* What has been published before the subscription is found by the query.  *)
LEMMA QueryMetadataInv ==
  ASSUME ArchiveAssumption, Inv, NEW h \in Handlers, QueryMetadata(h) PROVE Inv'
<1> USE DEF Inv
<1> DEFINE o == Current(h)
           u == Source(h)
           found == IF u \in URIs /\ latest[u] > 0
                      THEN {[uri |-> u, number |-> latest[u], by |-> "query"]} ELSE {}
<1>1. UNCHANGED <<up, requests, skipped, uuidActual, listening, lpc, luuid, data, working,
                  latest, published, added, kept>>
  BY DEF QueryMetadata
<1>2. CASE Fail(h, "query") /\ UNCHANGED held
  <2>1. Busy(h)
    BY <1>2 DEF Fail, NextRequest, Go, Busy
  <2> QED
    BY <1>1, <1>2, <2>1, FailInv
<1>3. CASE /\ Go(h, "query", "subscribe")
           /\ held' = [held EXCEPT ![o] = @ \cup found]
           /\ mu' = [mu EXCEPT ![h] = @ + 1]
           /\ UNCHANGED <<todo, failed>>
  <2>1. /\ hpc[h] = "query" /\ hpc' = [hpc EXCEPT ![h] = "subscribe"] /\ Busy(h)
        /\ o \in requests /\ o \in Objects /\ mu[h] \in Nat
    BY <1>3 DEF Go, Busy, InLoop, Shape
  <2>2. \A m \in found : /\ m \in MetadataMessages /\ m.uri = u /\ m.number = latest[u]
                         /\ m.number \in 1..latest[m.uri]
    <3> SUFFICES ASSUME u \in URIs, latest[u] > 0
                 PROVE  /\ [uri |-> u, number |-> latest[u], by |-> "query"] \in MetadataMessages
                        /\ latest[u] \in 1..latest[u]
      OBVIOUS
    <3>1. latest[u] \in Nat
      <4>1. MaxMetadata \in Nat
        BY DEF ArchiveAssumption
      <4>2. \A v \in URIs : latest[v] \in Nat
        BY <4>1 DEF Shape
      <4> QED
        BY <4>2
    <3> HIDE DEF u
    <3> QED
      BY <3>1 DEF MetadataMessages
  <2>3. u \in URIs /\ latest[u] > 0 => \E m \in found : m.uri = u /\ m.number = latest[u]
    OBVIOUS
  <2> HIDE DEF found
  <2>4. /\ held' \in [Objects -> SUBSET MetadataMessages]
        /\ held'[o] = held[o] \cup found
        /\ \A q \in Objects : q # o => held'[q] = held[q]
    BY <1>3, <2>1, <2>2 DEF Shape
  <2>5. Shape'
    <3>1. /\ mu' \in [Handlers -> Nat]
          /\ hpc' \in [Handlers -> {"idle", "add", "inherit", "subscribe", "query"}]
      BY <1>3, <2>1 DEF Shape
    <3> QED
      BY <1>1, <1>3, <2>4, <3>1 DEF Shape
  <2>6. InLoop'
    BY <1>1, <1>3, <2>1, GoesOn
  <2>7. OnePerHash'
    BY <1>1 DEF OnePerHash
  <2>8. Numbered'
    BY <1>1, <2>2, <2>4 DEF Numbered
  <2>9. NotMissed'
    <3> SUFFICES ASSUME up', NEW q \in (requests \ failed)', NEW i \in 1..Queried(q)',
                        NEW v \in URIs, v = Request(q).sources[i], latest'[v] > 0
                 PROVE  \E m \in Given(q)' : m.uri = v /\ m.number = latest'[v]
      BY NotMissedIf
    <3>0. up /\ q \in requests \ failed /\ latest' = latest
      BY <1>1, <1>3
    <3>1. Given(q) \subseteq Given(q)' /\ q \in Objects
      BY <1>1, <2>4, <3>0 DEF Given, Shape
    <3>2. CASE i \in 1..Queried(q)
      BY <3>0, <3>1, <3>2 DEF NotMissed
    <3>3. CASE i \notin 1..Queried(q)
      <4>1. q \notin listening
        BY <1>1, <3>3 DEF Queried, Request
      <4> USE <3>0
      <4>2. q = o
        <5>1. CASE q[1] = h
          BY <4>1, <5>1, OnlyTheCurrent
        <5>2. CASE q[1] # h
          <6>1. mu'[q[1]] = mu[q[1]]
            BY <1>3, <5>2, <3>1, ObjectFacts DEF Shape
          <6> QED
            BY <1>1, <3>3, <4>1, <6>1 DEF Queried
        <5> QED
          BY <5>1, <5>2
      <4>3. i = mu[h] + 1
        <5>1. q[1] = h
          BY <2>1, <4>2, CurrentFacts DEF InLoop
        <5>2. mu'[h] = mu[h] + 1
          BY <1>3 DEF Shape
        <5>3. Queried(q)' = mu[h] + 1 /\ Queried(q) = mu[h]
          BY <1>1, <4>1, <5>1, <5>2 DEF Queried
        <5> QED
          BY <2>1, <3>3, <5>3
      <4>4. v = u
        BY <4>2, <4>3 DEF Source
      <4>5. found \subseteq Given(q)'
        BY <2>4, <4>2 DEF Given
      <4> QED
        BY <1>1, <2>3, <4>4, <4>5
    <3> QED
      BY <3>2, <3>3
  <2> QED
    BY <1>1, <2>5, <2>6, <2>7, <2>8, <2>9, ArchiversKept
<1> QED
  BY <1>2, <1>3 DEF QueryMetadata

LEMMA SubscribeDataInv ==
  ASSUME ArchiveAssumption, Inv, NEW h \in Handlers, SubscribeData(h) PROVE Inv'
<1> USE DEF Inv
<1> DEFINE o == Current(h)
<1>1. /\ hpc[h] = "subscribe" /\ mu[h] = Len(Request(o).sources) /\ Busy(h)
      /\ UNCHANGED <<up, requests, skipped, uuidActual, lpc, luuid, data, held, working,
                     latest, published, added, kept>>
  BY DEF SubscribeData, Busy
<1>2. o \in requests \ (failed \cup listening) /\ todo[h] # {} /\ o[1] = h
  BY <1>1, CurrentFacts DEF InLoop
<1>3. CASE Fail(h, "subscribe") /\ UNCHANGED listening
  BY <1>1, <1>3, FailInv
<1>4. CASE /\ NextRequest(h, "subscribe")
           /\ listening' = listening \cup {o}
           /\ UNCHANGED failed
  <2>1. Shape'
    BY <1>1, <1>2, <1>4, NextRequestShape DEF Shape
  <2>2. InLoop'
    BY <1>1, <1>2, <1>4, NextRequestShape, GoesToNext
  <2>3. OnePerHash' /\ Numbered'
    BY <1>1 DEF OnePerHash, Numbered
  <2>4. Queried(o) = Len(Request(o).sources)
    BY <1>1, <1>2 DEF Queried
  <2>5. NotMissed'
    BY <1>1, <1>2, <1>4, <2>4, NextRequestShape, NextRequestQueried, NothingGiven
  <2> QED
    BY <1>1, <1>4, <2>1, <2>2, <2>3, <2>5, ArchiversKept
<1> QED
  BY <1>3, <1>4 DEF SubscribeData

-----------------------------------------------------------------------------
(* Archivers.                                                              *)

LEMMA LoopKept ==
  ASSUME InLoop, OnePerHash, UNCHANGED <<todo, hpc, mu, requests, failed, listening>>
  PROVE  /\ InLoop' /\ OnePerHash'
         /\ \A o \in (requests \ failed)' : \A i \in 1..Queried(o)' :
              o \in requests \ failed /\ i \in 1..Queried(o)
<1>1. \A h : Current(h)' = Current(h) /\ Request(Current(h))' = Request(Current(h))
  BY DEF Current, Request
<1>2. InLoop'
  BY <1>1 DEF InLoop, Busy
<1>3. OnePerHash'
  BY DEF OnePerHash
<1>4. \A o : Queried(o)' = Queried(o)
  BY DEF Queried, Request
<1> QED
  BY <1>2, <1>3, <1>4

(* The head of the messages that an object has to listen to is dropped,    *)
(* and only a reading of it has been added. *)
LEMMA HeadDropped ==
  ASSUME ArchiveAssumption, Inv, NEW o \in Objects, data[o] # <<>>, data' = [data EXCEPT ![o] = Tail(@)],
         \A q \in Objects : q # o => lpc'[q] = lpc[q], lpc'[o] = "receive",
         listening' = listening, published' = published,
         \A a \in added' : a.kind = "reading" =>
           a \in added \/ (a.obj = o /\ a.number = Head(data[o]).number)
  PROVE  /\ data' \in [Objects -> Seq([payload : Payloads, number : Nat])]
         /\ InOrder'
<1> USE DEF Inv
<1> DEFINE R == [payload : Payloads, number : Nat]
           s == data[o]
<1>1. s \in Seq(R) /\ s # <<>> /\ published \in Nat
  <2>1. MaxData \in Nat
    BY DEF ArchiveAssumption
  <2>2. published \in Nat
    BY <2>1 DEF Shape
  <2>3. data \in [Objects -> Seq(R)]
    BY DEF Shape
  <2> QED
    BY <2>2, <2>3, Zenon
<1>2. \A x \in R : x.number \in Nat
  OBVIOUS
<1> HIDE DEF R
<1>3. /\ Tail(s) \in Seq(R) /\ Len(Tail(s)) = Len(s) - 1 /\ Len(s) \in Nat
      /\ DOMAIN Tail(s) = 1..Len(s)-1 /\ DOMAIN s = 1..Len(s)
      /\ \A i \in 1..Len(s)-1 : Tail(s)[i] = s[i + 1]
      /\ Head(s) = s[1] /\ 1 \in DOMAIN s
  BY <1>1
<1>4. /\ data'[o] = Tail(s) /\ \A q \in Objects : q # o => data'[q] = data[q]
      /\ data' \in [Objects -> Seq(R)]
  BY <1>1, <1>3 DEF Shape, R
<1> SUFFICES ASSUME NEW q \in Objects
             PROVE  /\ data'[q] # <<>> => q \in listening
                    /\ lpc'[q] # "receive" => data'[q] # <<>>
                    /\ Len(data'[q]) <= published
                    /\ \A i \in DOMAIN data'[q] : data'[q][i].number <= published
                    /\ \A i, j \in DOMAIN data'[q] : i < j => data'[q][i].number < data'[q][j].number
                    /\ \A a \in added' : a.obj = q /\ a.kind = "reading" =>
                         \A i \in DOMAIN data'[q] : a.number < data'[q][i].number
  BY <1>4 DEF InOrder, R
<1>5. CASE q # o
  <2>1. \A a \in added' : a.obj = q /\ a.kind = "reading" => a \in added
    BY <1>5
  <2> QED
    BY <1>4, <1>5, <2>1 DEF InOrder
<1>6. CASE q = o
  <2>1. /\ \A i \in DOMAIN s : s[i].number <= published
        /\ \A i, j \in DOMAIN s : i < j => s[i].number < s[j].number
        /\ \A a \in added : a.obj = o /\ a.kind = "reading" => \A i \in DOMAIN s : a.number < s[i].number
        /\ Len(s) <= published /\ o \in listening
    BY <1>1 DEF InOrder
  <2>2. \A i \in DOMAIN Tail(s) : i \in Nat /\ i + 1 \in DOMAIN s /\ Tail(s)[i] = s[i + 1] /\ 1 < i + 1
    BY <1>3
  <2>3. \A i, j \in DOMAIN Tail(s) : i < j => Tail(s)[i].number < Tail(s)[j].number
    <3> SUFFICES ASSUME NEW i \in DOMAIN Tail(s), NEW j \in DOMAIN Tail(s), i < j
                 PROVE  Tail(s)[i].number < Tail(s)[j].number
      OBVIOUS
    <3>1. i + 1 < j + 1
      BY <2>2
    <3> QED
      BY <2>1, <2>2, <3>1
  <2>4. \A a \in added' : a.obj = o /\ a.kind = "reading" =>
          \A i \in DOMAIN Tail(s) : a.number < Tail(s)[i].number
    BY <1>3, <2>1, <2>2
  <2>5. Len(Tail(s)) <= published /\ \A i \in DOMAIN Tail(s) : Tail(s)[i].number <= published
    BY <1>1, <1>3, <2>1, <2>2
  <2> QED
    BY <1>4, <1>6, <2>1, <2>3, <2>4, <2>5
<1> QED
  BY <1>5, <1>6

(* Nothing changes but where Listen stands, what it is about to assign and *)
(* whether the process runs.                                               *)
LEMMA ListenMoves ==
  ASSUME ArchiveAssumption, Inv, NEW o \in Objects, data[o] # <<>>,
         up' \in BOOLEAN, up' => up,
         NEW l \in {"receive", "assign", "send"}, lpc' = [lpc EXCEPT ![o] = l],
         NEW uuid \in UUIDs \ {NoUUID}, NoExpression(o) => uuid = UUIDText(o),
         luuid' = luuid \/ luuid' = [luuid EXCEPT ![o] = uuid],
         l = "assign" => luuid' = [luuid EXCEPT ![o] = uuid] \/ lpc[o] = "assign",
         l = "send" => uuidActual[o] # NoUUID,
         UNCHANGED <<data, uuidActual, added, listenUnchanged>>
  PROVE  Inv'
<1> USE DEF Inv, listenUnchanged, handlerVars
<1>1. /\ lpc'[o] = l /\ \A q \in Objects : q # o => lpc'[q] = lpc[q]
      /\ luuid'[o] \in {luuid[o], uuid} /\ \A q \in Objects : q # o => luuid'[q] = luuid[q]
      /\ l = "assign" => luuid'[o] = uuid \/ lpc[o] = "assign"
  BY DEF Shape
<1>2. Shape'
  BY DEF Shape
<1>3. OneUUID'
  BY <1>1 DEF OneUUID
<1>4. Known'
  BY <1>1 DEF Known
<1>5. InOrder' /\ ReadingsOnce' /\ ReadingsPast' /\ Numbered'
  BY <1>1 DEF InOrder, ReadingsOnce, ReadingsPast, Numbered
<1>6. NotMissed'
  BY LoopKept, NothingGiven
<1> QED
  BY <1>2, <1>3, <1>4, <1>5, <1>6, LoopKept

LEMMA TakeInv == ASSUME ArchiveAssumption, Inv, NEW o \in Objects, Take(o) PROVE Inv'
<1> USE DEF Inv
<1> DEFINE payload == Head(data[o]).payload
<1>1. /\ up /\ o \in listening /\ lpc[o] = "receive" /\ data[o] # <<>>
      /\ UNCHANGED <<uuidActual, added, listenUnchanged>>
  BY DEF Take
<1>2. payload \in Payloads
  <2> DEFINE R == [payload : Payloads, number : Nat]
  <2>1. data[o] \in Seq(R)
    BY DEF Shape
  <2>2. Head(data[o]) \in R
    <3> HIDE DEF R
    <3> QED
      BY <1>1, <2>1
  <2> QED
    BY <2>2
<1>3. PICK l \in {"receive", "assign", "send"}, uuid \in UUIDs \ {NoUUID} :
        \/ data' = [data EXCEPT ![o] = Tail(@)] /\ UNCHANGED <<up, lpc, luuid>>
        \/ /\ up' \in BOOLEAN /\ data' = data
           /\ lpc' = [lpc EXCEPT ![o] = l]
           /\ NoExpression(o) => uuid = UUIDText(o)
           /\ luuid' = luuid \/ luuid' = [luuid EXCEPT ![o] = uuid]
           /\ l = "assign" => luuid' = [luuid EXCEPT ![o] = uuid]
           /\ l = "send" => uuidActual[o] # NoUUID
  <2> DEFINE Alike(l, uuid) ==
               \/ data' = [data EXCEPT ![o] = Tail(@)] /\ UNCHANGED <<up, lpc, luuid>>
               \/ /\ up' \in BOOLEAN /\ data' = data
                  /\ lpc' = [lpc EXCEPT ![o] = l]
                  /\ NoExpression(o) => uuid = UUIDText(o)
                  /\ luuid' = luuid \/ luuid' = [luuid EXCEPT ![o] = uuid]
                  /\ l = "assign" => luuid' = [luuid EXCEPT ![o] = uuid]
                  /\ l = "send" => uuidActual[o] # NoUUID
  <2>0. UUIDText(o) \in UUIDs \ {NoUUID} /\ up \in BOOLEAN
    BY UUIDFacts DEF Shape
  <2>1. CASE data' = [data EXCEPT ![o] = Tail(@)] /\ UNCHANGED <<up, lpc, luuid>>
    BY <2>0, <2>1
  <2>2. CASE up' = FALSE /\ UNCHANGED <<data, lpc, luuid>>
    <3>1. lpc' = [lpc EXCEPT ![o] = "receive"]
      BY <1>1, <2>2 DEF Shape
    <3>2. Alike("receive", UUIDText(o))
      BY <2>2, <3>1
    <3> QED
      BY <2>0, <3>2
  <2>3. CASE /\ uuidActual[o] # NoUUID /\ lpc' = [lpc EXCEPT ![o] = "send"]
             /\ UNCHANGED <<up, data, luuid>>
    <3>1. Alike("send", UUIDText(o))
      BY <2>0, <2>3
    <3> QED
      BY <2>0, <3>1
  <2>4. CASE /\ NoExpression(o) \/ payload.uuid # <<>>
             /\ lpc' = [lpc EXCEPT ![o] = "assign"]
             /\ luuid' = [luuid EXCEPT ![o] = IF NoExpression(o) THEN UUIDText(o) ELSE Text(payload.uuid)]
             /\ UNCHANGED <<up, data>>
    <3> DEFINE x == IF NoExpression(o) THEN UUIDText(o) ELSE Text(payload.uuid)
    <3>1. x \in UUIDs \ {NoUUID}
      BY <1>2, <2>0, <2>4, UUIDFacts
    <3>2. Alike("assign", x)
      BY <2>0, <2>4
    <3> QED
      BY <3>1, <3>2
  <2> QED
    BY <2>1, <2>2, <2>3, <2>4 DEF Take
<1>4. CASE data' = [data EXCEPT ![o] = Tail(@)] /\ UNCHANGED <<up, lpc, luuid>>
  <2> USE DEF listenUnchanged, handlerVars
  <2>1. data' \in [Objects -> Seq([payload : Payloads, number : Nat])] /\ InOrder'
    <3>1. /\ lpc'[o] = "receive" /\ \A q \in Objects : q # o => lpc'[q] = lpc[q]
          /\ listening' = listening /\ published' = published /\ added' = added
      BY <1>1, <1>4
    <3>2. \A a \in added' : a.kind = "reading" =>
            a \in added \/ (a.obj = o /\ a.number = Head(data[o]).number)
      BY <3>1
    <3> QED
      BY <1>1, <1>4, <3>1, <3>2, HeadDropped
  <2>2. Shape'
    BY <1>1, <1>4, <2>1 DEF Shape
  <2>3. OneUUID' /\ Known' /\ ReadingsOnce' /\ ReadingsPast' /\ Numbered'
    BY <1>1, <1>4 DEF OneUUID, Known, ReadingsOnce, ReadingsPast, Numbered
  <2>4. NotMissed'
    BY <1>1, <1>4, LoopKept, NothingGiven
  <2> QED
    BY <1>1, <1>4, <2>1, <2>2, <2>3, <2>4, LoopKept
<1>5. CASE ~(data' = [data EXCEPT ![o] = Tail(@)] /\ UNCHANGED <<up, lpc, luuid>>)
  BY <1>1, <1>3, <1>5, ListenMoves
<1> QED
  BY <1>4, <1>5

LEMMA AssignInv == ASSUME ArchiveAssumption, Inv, NEW o \in Objects, Assign(o) PROVE Inv'
<1> USE DEF Inv, listenUnchanged, handlerVars
<1>1. /\ lpc[o] = "assign" /\ lpc' = [lpc EXCEPT ![o] = "send"]
      /\ uuidActual' = [uuidActual EXCEPT ![o] = luuid[o]]
      /\ UNCHANGED <<up, luuid, data, added, listenUnchanged>>
  BY DEF Assign
<1>2. /\ luuid[o] \in UUIDs \ {NoUUID} /\ (NoExpression(o) => luuid[o] = UUIDText(o))
      /\ uuidActual'[o] = luuid[o] /\ \A q \in Objects : q # o => uuidActual'[q] = uuidActual[q]
      /\ lpc'[o] = "send" /\ \A q \in Objects : q # o => lpc'[q] = lpc[q]
  BY <1>1 DEF Shape, Known, OneUUID
<1>3. Shape'
  BY <1>1, <1>2 DEF Shape
<1>4. OneUUID'
  BY <1>1, <1>2 DEF OneUUID
<1>5. Known'
  BY <1>1, <1>2 DEF Known, Shape
<1>6. InOrder' /\ ReadingsOnce' /\ ReadingsPast' /\ Numbered'
  BY <1>1, <1>2 DEF InOrder, ReadingsOnce, ReadingsPast, Numbered
<1>7. NotMissed'
  BY <1>1, LoopKept, NothingGiven
<1> QED
  BY <1>1, <1>3, <1>4, <1>5, <1>6, <1>7, LoopKept

(* The reading's number is that of the message at the head, so it is added *)
(* once.                                                                   *)
LEMMA SendReadingInv ==
  ASSUME ArchiveAssumption, Inv, NEW o \in Objects, SendReading(o) PROVE Inv'
<1> USE DEF Inv, listenUnchanged, handlerVars
<1> DEFINE R == [payload : Payloads, number : Nat]
           n == Head(data[o]).number
           new == [obj |-> o, kind |-> "reading", uri |-> Request(o).uri, number |-> n,
                   uuid |-> uuidActual[o]]
<1>1. /\ lpc[o] = "send" /\ added' = added \cup {new}
      /\ data' = [data EXCEPT ![o] = Tail(@)]
      /\ lpc' = [lpc EXCEPT ![o] = "receive"]
      /\ UNCHANGED <<up, uuidActual, luuid, listenUnchanged>>
  BY DEF SendReading, Add
<1>2. /\ data[o] # <<>> /\ o \in requests /\ uuidActual[o] \in UUIDs \ {NoUUID}
      /\ NoExpression(o) => uuidActual[o] = UUIDText(o)
  BY <1>1 DEF InOrder, Known, Shape, OneUUID
<1>3. data[o] \in Seq(R)
  BY DEF Shape
<1>4. 1 \in DOMAIN data[o] /\ Head(data[o]) = data[o][1] /\ Head(data[o]) \in R
  <2> HIDE DEF R
  <2> QED
    BY <1>2, <1>3
<1>5. n \in Nat /\ n <= published
  BY <1>4 DEF InOrder
<1>6. \A a \in added : a.kind = "reading" /\ a.obj = o => a.number # n
  <2> SUFFICES ASSUME NEW a \in added, a.kind = "reading", a.obj = o PROVE a.number # n
    OBVIOUS
  <2>1. a.number < n /\ a.number \in Nat
    BY <1>4 DEF InOrder, Shape
  <2> QED
    BY <1>5, <2>1
<1>7. Request(o).uri \in STRING
  BY RequestFacts
<1>8. /\ new \in [obj : Objects, kind : Kinds, uri : STRING, number : Nat, uuid : UUIDs]
      /\ new.obj = o /\ new.uuid = uuidActual[o] /\ new.kind = "reading" /\ new.number = n
  BY <1>2, <1>5, <1>7 DEF Kinds
<1> HIDE DEF new, R
<1>9. /\ data' \in [Objects -> Seq([payload : Payloads, number : Nat])] /\ InOrder'
  <2>1. /\ lpc'[o] = "receive" /\ \A q \in Objects : q # o => lpc'[q] = lpc[q]
        /\ listening' = listening /\ published' = published
    BY <1>1 DEF Shape
  <2>2. \A a \in added' : a.kind = "reading" =>
          a \in added \/ (a.obj = o /\ a.number = Head(data[o]).number)
    BY <1>1, <1>8
  <2> QED
    BY <1>1, <1>2, <2>1, <2>2, HeadDropped
<1>10. Shape'
  BY <1>1, <1>8, <1>9 DEF Shape
<1>11. OneUUID'
  BY <1>1, <1>2, <1>8 DEF OneUUID, Shape
<1>12. Known'
  BY <1>1, <1>2, <1>8 DEF Known, Shape
<1>13. ReadingsOnce' /\ ReadingsPast'
  <2>1. ReadingsPast'
    BY <1>1, <1>5, <1>8 DEF ReadingsPast
  <2>2. ReadingsOnce'
    BY <1>1, <1>6, <1>8 DEF ReadingsOnce
  <2> QED
    BY <2>1, <2>2
<1>14. Numbered'
  BY <1>1 DEF Numbered
<1>15. NotMissed'
  <2>1. \A q \in requests : Given(q) \subseteq Given(q)'
    BY <1>1 DEF Given
  <2> QED
    BY <1>1, <2>1, LoopKept, NotMissedKept
<1> QED
  BY <1>1, <1>9, <1>10, <1>11, <1>12, <1>13, <1>14, <1>15, LoopKept

LEMMA StartWorkInv ==
  ASSUME ArchiveAssumption, Inv, NEW o \in Objects, StartWork(o) PROVE Inv'
<1> USE DEF Inv, workUnchanged, handlerVars
<1>1. PICK m \in held[o] :
        /\ held' = [held EXCEPT ![o] = @ \ {m}]
        /\ \/ /\ working' = working \cup {[obj |-> o, msg |-> m]}
              /\ uuidActual' = [uuidActual EXCEPT ![o] = IF @ = NoUUID THEN UUIDText(o) ELSE @]
              /\ UNCHANGED up
           \/ up' = FALSE /\ UNCHANGED <<working, uuidActual>>
  BY DEF StartWork
<1>2. /\ up /\ o \in listening /\ m \in MetadataMessages /\ m.number \in 1..latest[m.uri]
      /\ UNCHANGED <<added, kept, workUnchanged>>
  BY DEF StartWork, Shape, Numbered
<1>3. /\ held' \in [Objects -> SUBSET MetadataMessages]
      /\ held'[o] = held[o] \ {m} /\ \A q \in Objects : q # o => held'[q] = held[q]
  BY <1>1, <1>2 DEF Shape
<1>4. CASE up' = FALSE /\ UNCHANGED <<working, uuidActual>>
  <2>1. Shape'
    BY <1>2, <1>3, <1>4 DEF Shape
  <2>2. OneUUID' /\ Known' /\ InOrder' /\ ReadingsOnce' /\ ReadingsPast'
    BY <1>2, <1>4, ArchiversKept
  <2>3. Numbered' /\ NotMissed'
    BY <1>2, <1>3, <1>4 DEF Numbered, NotMissed
  <2> QED
    BY <1>2, <2>1, <2>2, <2>3, LoopKept
<1>5. CASE /\ working' = working \cup {[obj |-> o, msg |-> m]}
           /\ uuidActual' = [uuidActual EXCEPT ![o] = IF @ = NoUUID THEN UUIDText(o) ELSE @]
           /\ UNCHANGED up
  <2> DEFINE w == [obj |-> o, msg |-> m]
  <2>1. w \in [obj : Objects, msg : MetadataMessages] /\ w.obj = o /\ w.msg = m
    BY <1>2
  <2> HIDE DEF w
  <2>2. /\ working' = working \cup {w}
        /\ uuidActual'[o] \in UUIDs \ {NoUUID}
        /\ uuidActual[o] # NoUUID => uuidActual'[o] = uuidActual[o]
        /\ NoExpression(o) => uuidActual'[o] = UUIDText(o)
        /\ \A q \in Objects : q # o => uuidActual'[q] = uuidActual[q]
        /\ uuidActual' \in [Objects -> UUIDs]
    BY <1>5, UUIDFacts DEF Shape, OneUUID, w
  <2>3. Shape'
    BY <1>2, <1>3, <1>5, <2>1, <2>2 DEF Shape
  <2>4. OneUUID'
    BY <1>2, <2>2 DEF OneUUID
  <2>5. Known'
    BY <1>2, <2>1, <2>2 DEF Known, Shape
  <2>6. InOrder' /\ ReadingsOnce' /\ ReadingsPast'
    BY <1>2 DEF InOrder, ReadingsOnce, ReadingsPast
  <2>7. Numbered'
    BY <1>2, <1>3, <2>1, <2>2 DEF Numbered
  <2>8. NotMissed'
    <3>1. \A q \in requests : Given(q) \subseteq Given(q)'
      <4> SUFFICES ASSUME NEW q \in requests, NEW x \in Given(q) PROVE x \in Given(q)'
        OBVIOUS
      <4>1. CASE x \in held[q]
        <5>1. CASE x = m /\ q = o
          <6>1. w \in {v \in working' : v.obj = q}
            BY <2>1, <2>2, <5>1
          <6> QED
            BY <2>1, <5>1, <6>1 DEF Given
        <5>2. CASE ~(x = m /\ q = o)
          BY <1>3, <4>1, <5>2 DEF Given, Shape
        <5> QED
          BY <5>1, <5>2
      <4>2. CASE x \notin held[q]
        BY <1>2, <2>2, <4>2 DEF Given
      <4> QED
        BY <4>1, <4>2
    <3> QED
      BY <1>2, <1>5, <3>1, LoopKept, NotMissedKept
  <2> QED
    BY <1>2, <2>3, <2>4, <2>5, <2>6, <2>7, <2>8, LoopKept
<1> QED
  BY <1>1, <1>4, <1>5

(* Without an expression Listen writes what is there already, and a torn   *)
(* UUID cannot be read.                                                    *)
LEMMA SendMetadataInv == ASSUME ArchiveAssumption, Inv, SendMetadata PROVE Inv'
<1> USE DEF Inv, workUnchanged, handlerVars
<1>1. PICK w \in working :
        /\ working' = working \ {w}
        /\ \/ \E uuid \in {uuidActual[w.obj]} \cup
                    (IF lpc[w.obj] = "assign" /\ luuid[w.obj] # uuidActual[w.obj]
                       THEN {Torn} ELSE {}) :
                /\ Add(w.obj, "metadata", w.msg.uri, w.msg.number, uuid)
                /\ kept' = [kept EXCEPT ![uuid][w.msg.uri] = w.msg.number]
                /\ UNCHANGED up
           \/ up' = FALSE /\ UNCHANGED <<added, kept>>
  BY DEF SendMetadata
<1>2. up /\ UNCHANGED <<uuidActual, held, workUnchanged>>
  BY DEF SendMetadata
<1>3. /\ w.obj \in listening /\ w.obj \in requests /\ w.obj \in Objects
      /\ uuidActual[w.obj] \in UUIDs \ {NoUUID} /\ w.msg \in MetadataMessages
      /\ w.msg.number \in 1..latest[w.msg.uri]
  BY DEF Known, Shape, Numbered
<1>4. CASE up' = FALSE /\ UNCHANGED <<added, kept>>
  <2>1. Shape'
    BY <1>1, <1>2, <1>4 DEF Shape
  <2>2. OneUUID' /\ Known' /\ InOrder' /\ ReadingsOnce' /\ ReadingsPast'
    BY <1>1, <1>2, <1>4 DEF OneUUID, Known, InOrder, ReadingsOnce, ReadingsPast
  <2>3. Numbered' /\ NotMissed'
    BY <1>1, <1>2, <1>4 DEF Numbered, NotMissed
  <2> QED
    BY <1>2, <2>1, <2>2, <2>3, LoopKept
<1>5. CASE \E uuid \in {uuidActual[w.obj]} \cup
                    (IF lpc[w.obj] = "assign" /\ luuid[w.obj] # uuidActual[w.obj]
                       THEN {Torn} ELSE {}) :
             /\ Add(w.obj, "metadata", w.msg.uri, w.msg.number, uuid)
             /\ kept' = [kept EXCEPT ![uuid][w.msg.uri] = w.msg.number]
             /\ UNCHANGED up
  <2>1. PICK uuid \in {uuidActual[w.obj]} \cup
                    (IF lpc[w.obj] = "assign" /\ luuid[w.obj] # uuidActual[w.obj]
                       THEN {Torn} ELSE {}) :
             /\ Add(w.obj, "metadata", w.msg.uri, w.msg.number, uuid)
             /\ kept' = [kept EXCEPT ![uuid][w.msg.uri] = w.msg.number]
             /\ UNCHANGED up
    BY <1>5
  <2>2. uuid \in UUIDs \ {NoUUID}
    BY <1>3, UUIDFacts
  <2>3. NoExpression(w.obj) => uuid = UUIDText(w.obj)
    <3>1. NoExpression(w.obj) => uuidActual[w.obj] = UUIDText(w.obj)
      BY <1>3 DEF OneUUID
    <3>2. NoExpression(w.obj) => (lpc[w.obj] = "assign" => luuid[w.obj] = UUIDText(w.obj))
      BY <1>3 DEF OneUUID
    <3> QED
      BY <3>1, <3>2
  <2>4. MaxMetadata \in Nat /\ URIs \subseteq STRING
    BY DEF ArchiveAssumption
  <2>5. w.msg.uri \in URIs /\ w.msg.uri \in STRING /\ w.msg.number \in Nat
    BY <1>3, <2>4 DEF MetadataMessages
  <2>6. /\ added' \subseteq [obj : Objects, kind : Kinds, uri : STRING, number : Nat, uuid : UUIDs]
        /\ \A q \in Objects : NoExpression(q) =>
             \A a \in added' : a.obj = q => a.uuid = UUIDText(q)
        /\ \A a \in added' : a.obj \in requests /\ a.uuid # NoUUID
        /\ InOrder' /\ ReadingsOnce' /\ ReadingsPast'
    <3>1. UNCHANGED <<data, lpc, listening, requests, published>>
      BY <1>2
    <3> QED
      BY <1>3, <2>1, <2>2, <2>3, <2>5, <3>1, AddKeeps DEF Kinds
  <2>7. Shape'
    <3>1. w.msg.number \in 0..MaxMetadata
      <4>1. latest[w.msg.uri] \in 0..MaxMetadata
        BY <2>5 DEF Shape
      <4> QED
        BY <1>3, <2>4, <4>1
    <3>2. kept' \in [UUIDs -> [URIs -> 0..MaxMetadata]]
      BY <2>1, <2>2, <2>5, <3>1 DEF Shape
    <3> QED
      BY <1>1, <1>2, <2>1, <2>6, <3>2 DEF Shape
  <2>8. OneUUID' /\ Known' /\ Numbered'
    BY <1>1, <1>2, <2>6 DEF OneUUID, Known, Numbered
  <2>9. NotMissed'
    <3> DEFINE new == [obj |-> w.obj, kind |-> "metadata", uri |-> w.msg.uri,
                       number |-> w.msg.number, uuid |-> uuid]
    <3>1. /\ added' = added \cup {new} /\ new.obj = w.obj /\ new.kind = "metadata"
          /\ new.uri = w.msg.uri /\ new.number = w.msg.number
      BY <2>1 DEF Add
    <3> HIDE DEF new
    <3>2. ASSUME NEW q \in requests, NEW m \in Given(q)
          PROVE  \E n \in Given(q)' : n.uri = m.uri /\ n.number = m.number
      <4>1. CASE m \in held[q] \cup {a \in added : a.obj = q /\ a.kind = "metadata"}
        BY <1>2, <3>1, <4>1 DEF Given
      <4>2. CASE \E v \in working : v.obj = q /\ v.msg = m
        <5>1. PICK v \in working : v.obj = q /\ v.msg = m
          BY <4>2
        <5>2. CASE v = w
          <6>1. new \in Given(q)'
            BY <3>1, <5>1, <5>2 DEF Given
          <6> QED
            BY <3>1, <5>1, <5>2, <6>1
        <5>3. CASE v # w
          <6>1. v \in {x \in working' : x.obj = q}
            BY <1>1, <5>1, <5>3
          <6>2. m \in Given(q)'
            BY <5>1, <6>1 DEF Given
          <6> QED
            BY <6>2
        <5> QED
          BY <5>2, <5>3
      <4> QED
        BY <3>2, <4>1, <4>2 DEF Given
    <3> QED
      BY <1>2, <2>1, <3>2, LoopKept, NotMissedKept
  <2> QED
    BY <1>2, <2>6, <2>7, <2>8, <2>9, LoopKept
<1> QED
  BY <1>1, <1>4, <1>5

-----------------------------------------------------------------------------
(* What is published.                                                      *)

LEMMA PublishDataInv == ASSUME ArchiveAssumption, Inv, NEW u \in URIs, PublishData(u) PROVE Inv'
<1> USE DEF Inv, handlerVars
<1> DEFINE R == [payload : Payloads, number : Nat]
<1>1. PICK p \in Payloads :
        data' = [o \in Objects |->
                   IF o \in listening /\ Request(o).uri = u
                     THEN Append(data[o], [payload |-> p, number |-> published + 1]) ELSE data[o]]
  BY DEF PublishData
<1>2. /\ published < MaxData /\ published' = published + 1
      /\ UNCHANGED <<up, handlerVars, uuidActual, listening, lpc, luuid, held, working, latest,
                     added, kept>>
  BY DEF PublishData
<1>3. published \in Nat /\ published' \in Nat /\ published' \in 0..MaxData
  <2>1. MaxData \in Nat
    BY DEF ArchiveAssumption
  <2>2. published \in Nat
    BY <2>1 DEF Shape
  <2> QED
    BY <1>2, <2>1, <2>2
<1> DEFINE new == [payload |-> p, number |-> published + 1]
<1>4. new \in R /\ new.number = published'
  BY <1>2, <1>3
<1>5. data \in [Objects -> Seq(R)]
  BY DEF Shape
<1> HIDE DEF R, new
<1>6. ASSUME NEW o \in Objects
      PROVE  \/ data'[o] = data[o]
             \/ o \in listening /\ data'[o] = Append(data[o], new)
  BY <1>1 DEF new
<1>7. ASSUME NEW o \in Objects, data'[o] = Append(data[o], new)
      PROVE  /\ data'[o] \in Seq(R) /\ data'[o] # <<>> /\ Len(data'[o]) = Len(data[o]) + 1
             /\ Len(data[o]) \in Nat /\ DOMAIN data[o] = 1..Len(data[o])
             /\ DOMAIN data'[o] = 1..Len(data[o]) + 1
             /\ \A i \in 1..Len(data[o]) : data'[o][i] = data[o][i]
             /\ data'[o][Len(data[o]) + 1] = new
  BY <1>4, <1>5, <1>7
<1>8. data' \in [Objects -> Seq(R)]
  <2>1. \A o \in Objects : data'[o] \in Seq(R)
    BY <1>5, <1>6, <1>7
  <2> QED
    BY <1>1, <2>1
<1>9. Shape'
  BY <1>2, <1>3, <1>8 DEF Shape, R
<1>10. ReadingsPast' /\ ReadingsOnce'
  <2>1. \A a \in added : a.number \in Nat
    BY DEF Shape
  <2> QED
    BY <1>2, <1>3, <2>1 DEF ReadingsPast, ReadingsOnce
<1>11. InOrder'
  <2> SUFFICES ASSUME NEW o \in Objects
               PROVE  /\ data'[o] # <<>> => o \in listening
                      /\ lpc[o] # "receive" => data'[o] # <<>>
                      /\ Len(data'[o]) <= published'
                      /\ \A i \in DOMAIN data'[o] : data'[o][i].number <= published'
                      /\ \A i, j \in DOMAIN data'[o] : i < j => data'[o][i].number < data'[o][j].number
                      /\ \A a \in added : a.obj = o /\ a.kind = "reading" =>
                           \A i \in DOMAIN data'[o] : a.number < data'[o][i].number
    BY <1>2 DEF InOrder
  <2>0. /\ Len(data[o]) <= published
        /\ \A i \in DOMAIN data[o] : data[o][i].number <= published
        /\ \A i, j \in DOMAIN data[o] : i < j => data[o][i].number < data[o][j].number
        /\ \A a \in added : a.obj = o /\ a.kind = "reading" =>
             \A i \in DOMAIN data[o] : a.number < data[o][i].number
    BY DEF InOrder
  <2>1. \A i \in DOMAIN data[o] : data[o][i].number \in Nat /\ i \in Nat
    <3>1. \A i \in DOMAIN data[o] : data[o][i] \in R /\ i \in Nat
      BY <1>5, ElementOf
    <3> QED
      BY <3>1 DEF R
  <2>2. /\ \A a \in added : a.kind = "reading" => a.number <= published
        /\ \A a \in added : a.number \in Nat
    BY DEF ReadingsPast, Shape
  <2>3. Len(data[o]) \in Nat
    BY <1>5
  <2>4. CASE data'[o] = data[o]
    BY <1>2, <1>3, <2>1, <2>3, <2>4 DEF InOrder
  <2>5. CASE o \in listening /\ data'[o] = Append(data[o], new)
    <3>1. Len(data'[o]) <= published'
      <4>1. Len(data'[o]) = Len(data[o]) + 1
        BY <1>5, <1>7, <2>5
      <4> QED
        BY <4>1, <1>2, <1>3, <2>0, <2>3
    <3>7. data'[o] # <<>>
      BY <1>5, <1>7, <2>5
    <3>2. \A i \in DOMAIN data'[o] :
            \/ i \in DOMAIN data[o] /\ data'[o][i] = data[o][i]
            \/ i = Len(data[o]) + 1 /\ data'[o][i] = new
      BY <1>7, <2>5
    <3>3. \A i \in DOMAIN data[o] : data[o][i].number < new.number
      BY <1>2, <1>3, <1>4, <2>0, <2>1
    <3>4. \A i \in DOMAIN data'[o] : data'[o][i].number <= published'
      <4> SUFFICES ASSUME NEW i \in DOMAIN data'[o] PROVE data'[o][i].number <= published'
        OBVIOUS
      <4>1. CASE i \in DOMAIN data[o] /\ data'[o][i] = data[o][i]
        BY <1>2, <1>3, <2>0, <2>1, <4>1
      <4>2. CASE data'[o][i] = new
        BY <1>3, <1>4, <4>2
      <4> QED
        BY <3>2, <4>1, <4>2
    <3>5. \A i, j \in DOMAIN data'[o] : i < j => data'[o][i].number < data'[o][j].number
      <4> SUFFICES ASSUME NEW i \in DOMAIN data'[o], NEW j \in DOMAIN data'[o], i < j
                   PROVE  data'[o][i].number < data'[o][j].number
        OBVIOUS
      <4>1. i \in DOMAIN data[o] /\ data'[o][i] = data[o][i]
        BY <2>3, <3>2, <1>7, <2>5
      <4>2. CASE j \in DOMAIN data[o] /\ data'[o][j] = data[o][j]
        BY <2>0, <4>1, <4>2
      <4>3. CASE data'[o][j] = new
        BY <3>3, <4>1, <4>3
      <4> QED
        BY <3>2, <4>2, <4>3
    <3>6. \A a \in added : a.obj = o /\ a.kind = "reading" =>
            \A i \in DOMAIN data'[o] : a.number < data'[o][i].number
      <4> SUFFICES ASSUME NEW a \in added, a.obj = o, a.kind = "reading", NEW i \in DOMAIN data'[o]
                   PROVE  a.number < data'[o][i].number
        OBVIOUS
      <4>1. CASE i \in DOMAIN data[o] /\ data'[o][i] = data[o][i]
        BY <2>0, <4>1
      <4>2. CASE data'[o][i] = new
        BY <1>2, <1>3, <1>4, <2>2, <4>2
      <4> QED
        BY <3>2, <4>1, <4>2
    <3> QED
      BY <1>2, <2>5, <3>1, <3>4, <3>5, <3>6, <3>7 DEF InOrder
  <2> QED
    BY <1>6, <2>4, <2>5
<1>12. OneUUID' /\ Known' /\ Numbered'
  BY <1>2 DEF OneUUID, Known, Numbered
<1>13. NotMissed'
  BY <1>2, LoopKept, NothingGiven
<1> QED
  BY <1>2, <1>9, <1>10, <1>11, <1>12, <1>13, LoopKept

(* Whatever is published reaches the objects that are subscribed, those    *)
(* that are still being set up among them. *)
LEMMA PublishMetadataInv ==
  ASSUME ArchiveAssumption, Inv, NEW u \in URIs, PublishMetadata(u) PROVE Inv'
<1> USE DEF Inv, handlerVars
<1> DEFINE new == [uri |-> u, number |-> latest[u] + 1, by |-> "subscription"]
<1>1. /\ latest[u] < MaxMetadata /\ latest' = [latest EXCEPT ![u] = @ + 1]
      /\ held' = [o \in Objects |-> held[o] \cup (IF u \in Subscribed(o) THEN {new} ELSE {})]
      /\ UNCHANGED <<up, handlerVars, uuidActual, listening, lpc, luuid, data, working, published, added, kept>>
  BY DEF PublishMetadata
<1>2. MaxMetadata \in Nat /\ \A v \in URIs : latest[v] \in Nat
  <2>1. MaxMetadata \in Nat
    BY DEF ArchiveAssumption
  <2> QED
    BY <2>1 DEF Shape
<1>3. /\ latest' \in [URIs -> 0..MaxMetadata]
      /\ latest'[u] = latest[u] + 1 /\ \A v \in URIs : v # u => latest'[v] = latest[v]
  BY <1>1, <1>2 DEF Shape
<1>4. new \in MetadataMessages /\ new.uri = u /\ new.number = latest'[u] /\ new.number \in 1..latest'[u]
  BY <1>2, <1>3 DEF MetadataMessages
<1> HIDE DEF new
<1>5. held' \in [Objects -> SUBSET MetadataMessages]
  BY <1>1, <1>4 DEF Shape
<1>6. Shape'
  BY <1>1, <1>3, <1>5 DEF Shape
<1>7. OneUUID' /\ Known' /\ InOrder' /\ ReadingsOnce' /\ ReadingsPast'
  BY <1>1, ArchiversKept
<1>8. Numbered'
  <2>1. \A v \in URIs : \A n \in 1..latest[v] : n \in 1..latest'[v]
    BY <1>2, <1>3
  <2>2. \A o \in Objects : \A m \in held[o] : m.uri \in URIs
    BY DEF Shape, MetadataMessages
  <2>3. \A w \in working : w.msg.uri \in URIs
    BY DEF Shape, MetadataMessages
  <2>4. ASSUME NEW o \in Objects, NEW m \in held'[o] PROVE m.number \in 1..latest'[m.uri]
    <3>1. CASE m \in held[o]
      <4>1. m.uri \in URIs /\ m.number \in 1..latest[m.uri]
        BY <2>2, <3>1 DEF Numbered
      <4> QED
        BY <2>1, <4>1
    <3>2. CASE m \notin held[o]
      <4>1. m = new
        BY <1>1, <2>4, <3>2
      <4> QED
        BY <1>4, <4>1
    <3> QED
      BY <3>1, <3>2
  <2>5. ASSUME NEW w \in working PROVE w.msg.number \in 1..latest'[w.msg.uri]
    <3>1. w.msg.uri \in URIs /\ w.msg.number \in 1..latest[w.msg.uri]
      BY <2>3 DEF Numbered
    <3> QED
      BY <2>1, <3>1
  <2> QED
    BY <1>1, <2>4, <2>5 DEF Numbered
<1>9. NotMissed'
  <2> SUFFICES ASSUME up', NEW o \in (requests \ failed)', NEW i \in 1..Queried(o)',
                      NEW v \in URIs, v = Request(o).sources[i], latest'[v] > 0
               PROVE  \E m \in Given(o)' : m.uri = v /\ m.number = latest'[v]
    BY NotMissedIf
  <2>1. up /\ o \in requests \ failed /\ i \in 1..Queried(o) /\ o \in Objects
    BY <1>1, LoopKept DEF Shape
  <2>2. CASE v # u
    <3>1. Given(o) \subseteq Given(o)'
      BY <1>1, <2>1 DEF Given
    <3>2. latest'[v] = latest[v] /\ latest[v] > 0
      BY <1>3, <2>2
    <3>3. PICK m \in Given(o) : m.uri = v /\ m.number = latest[v]
      BY <2>1, <3>2, LastIsGiven
    <3> QED
      BY <3>1, <3>2, <3>3
  <2>3. CASE v = u
    <3>1. u \in Subscribed(o)
      <4>1. CASE o \in listening
        BY <2>1, <2>3, <4>1 DEF Subscribed, Queried
      <4>2. CASE o \notin listening
        <5>1. o \in requests \ (listening \cup failed)
          BY <2>1, <4>2
        <5>2. o[1] \in Handlers /\ mu[o[1]] \in Nat
          BY <2>1, ObjectFacts DEF Shape
        <5>3. i \in 1..mu[o[1]] + (IF hpc[o[1]] = "query" THEN 1 ELSE 0)
          BY <2>1, <4>2, <5>2 DEF Queried
        <5> QED
          BY <2>3, <4>2, <5>1, <5>3 DEF Subscribed
      <4> QED
        BY <4>1, <4>2
    <3>2. new \in Given(o)'
      BY <1>1, <2>1, <3>1 DEF Given
    <3> QED
      BY <1>4, <2>3, <3>2
  <2> QED
    BY <2>2, <2>3
<1> QED
  BY <1>1, <1>6, <1>7, <1>8, <1>9, LoopKept

-----------------------------------------------------------------------------
LEMMA StepInv == ASSUME ArchiveAssumption, Inv, [Next]_vars PROVE Inv'
<1>1. ASSUME NEW h \in Handlers, Handle(h) PROVE Inv'
  BY <1>1, ReceiveInv, addRequestInv, InheritInv, SubscribeMetadataInv, QueryMetadataInv,
     SubscribeDataInv DEF Handle
<1>2. ASSUME NEW o \in Objects, Listen(o) PROVE Inv'
  BY <1>2, TakeInv, AssignInv, SendReadingInv, StartWorkInv DEF Listen
<1>3. CASE SendMetadata
  BY <1>3, SendMetadataInv
<1>4. ASSUME NEW u \in URIs, PublishData(u) \/ PublishMetadata(u) PROVE Inv'
  BY <1>4, PublishDataInv, PublishMetadataInv
<1>5. CASE UNCHANGED vars
  <2> USE <1>5 DEF vars, handlerVars, Inv
  <2>1. Shape'
    BY DEF Shape
  <2>2. InOrder' /\ OneUUID' /\ Known' /\ ReadingsOnce' /\ ReadingsPast' /\ Numbered'
    BY DEF InOrder, OneUUID, Known, ReadingsOnce, ReadingsPast, Numbered
  <2>3. NotMissed'
    BY LoopKept, NothingGiven
  <2> QED
    BY <2>1, <2>2, <2>3, LoopKept
<1> QED
  BY <1>1, <1>2, <1>3, <1>4, <1>5 DEF Next

LEMMA InvHolds == Spec => []Inv
<1>1. Init => Inv
  BY InitInv, ArchiveAssumption
<1>2. Inv /\ [Next]_vars => Inv'
  BY StepInv, ArchiveAssumption
<1> QED
  BY <1>1, <1>2, PTL DEF Spec

(* Every variable has its type; Listen has a payload in hand, and metadata *)
(* is worked on, only for objects that have an archiver.                   *)
THEOREM ArchiveTypes == Spec => []TypeOK
<1>1. Inv => TypeOK
  <2> SUFFICES ASSUME Inv PROVE TypeOK
    OBVIOUS
  <2> USE ArchiveAssumption DEF Inv
  <2>1. \A h \in Handlers :
          /\ \A i \in todo[h] : <<h, i>> \in Objects /\ Request(<<h, i>>).sources # <<>>
          /\ mu[h] > 0 \/ hpc[h] = "query" => todo[h] # {} /\ Current(h) \in requests
          /\ mu[h] \in Nat /\ (hpc[h] = "query" => mu[h] < Len(Request(Current(h)).sources))
    <3> SUFFICES ASSUME NEW h \in Handlers
                 PROVE  /\ \A i \in todo[h] : <<h, i>> \in Objects /\ Request(<<h, i>>).sources # <<>>
                        /\ mu[h] > 0 \/ hpc[h] = "query" => todo[h] # {} /\ Current(h) \in requests
                        /\ mu[h] \in Nat /\ (hpc[h] = "query" => mu[h] < Len(Request(Current(h)).sources))
      OBVIOUS
    <3>1. \A i \in todo[h] : <<h, i>> \in Objects /\ Request(<<h, i>>).sources # <<>>
      BY ObjectFacts, RequestFacts DEF Shape
    <3>2. mu[h] \in Nat /\ hpc[h] \in {"idle", "add", "inherit", "subscribe", "query"}
      BY DEF Shape
    <3>3. (hpc[h] \in {"idle", "add", "inherit"}) => mu[h] = 0
      BY DEF InLoop
    <3>4. (mu[h] > 0 \/ hpc[h] = "query") => Busy(h)
      BY <3>2, <3>3 DEF Busy
    <3>5. Busy(h) => (todo[h] # {} /\ Current(h) \in requests)
      BY DEF InLoop
    <3>6. hpc[h] = "query" => mu[h] < Len(Request(Current(h)).sources)
      BY DEF InLoop
    <3> QED
      BY <3>1, <3>2, <3>4, <3>5, <3>6
  <2>2. \A o \in Objects :
          /\ Len(data[o]) <= published /\ (lpc[o] # "receive" => o \in listening /\ data[o] # <<>>)
          /\ lpc[o] = "send" => uuidActual[o] # NoUUID
          /\ \A m \in held[o] : m.uri \in URIs /\ m.number \in 1..latest[m.uri]
    <3>1. \A o \in Objects : \A m \in held[o] : m.uri \in URIs
      BY DEF Shape, MetadataMessages
    <3> QED
      BY <3>1 DEF InOrder, Known, Numbered
  <2>3. \A a \in added : a.obj \in requests /\ a.uuid \in UUIDs \ {NoUUID}
    BY DEF Known, Shape
  <2>4. \A w \in working : w.obj \in listening /\ uuidActual[w.obj] # NoUUID
    BY DEF Known
  <2> QED
    BY <2>1, <2>2, <2>3, <2>4 DEF TypeOK, Shape
<1> QED
  BY <1>1, InvHolds, PTL

(* Requests that ask the same are archived once, and into one stream if    *)
(* they leave the UUID to the archiver (service.go:103-113, archive.go).   *)
THEOREM RequestsAreArchivedOnce == Spec => []OneStreamPerHash
<1>1. Inv => OneStreamPerHash
  <2> SUFFICES ASSUME Inv, NEW a \in added, NEW b \in added, Hash(a.obj) = Hash(b.obj)
               PROVE  /\ NoExpression(a.obj) => a.uuid = b.uuid
                      /\ a.kind = "reading" /\ b.kind = "reading" /\ a.number = b.number => a = b
    BY DEF OneStreamPerHash
  <2>1. a.obj = b.obj /\ a.obj \in Objects
    BY DEF Inv, Known, OnePerHash, Shape
  <2> QED
    BY <2>1 DEF Inv, OneUUID, ReadingsOnce
<1> QED
  BY <1>1, InvHolds, PTL

(* An archiver that listens has or will be given the last metadata of each *)
(* of its metadata URIs (archive.go:306-333).                              *)
THEOREM MetadataReachesArchivers == Spec => []MetadataIsNotMissed
<1>1. Inv => MetadataIsNotMissed
  <2> SUFFICES ASSUME Inv, NEW o \in listening, NEW u \in URIs \cap Range(Request(o).sources),
                      up, latest[u] > 0
               PROVE  \E m \in Given(o) : m.uri = u /\ m.number = latest[u]
    BY DEF MetadataIsNotMissed, Given
  <2>1. o \in Objects /\ o \in requests \ failed
    BY DEF Inv, Shape
  <2>2. Request(o).sources \in Seq(STRING)
    BY <2>1, ArchiveAssumption, RequestFacts
  <2>3. PICK i \in DOMAIN Request(o).sources : Request(o).sources[i] = u
    BY DEF Range
  <2>4. i \in 1..Queried(o)
    BY <2>2, <2>3 DEF Queried
  <2> QED
    BY <2>1, <2>3, <2>4 DEF Inv, NotMissed
<1> QED
  BY <1>1, InvHolds, PTL

=============================================================================

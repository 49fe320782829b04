---------------------------- MODULE BrokerProofs ----------------------------
(***************************************************************************)
(* Proofs about the broker, for any number of clients, publishers, streams *)
(* and queries, any where clauses and any channel size; and, when calls do *)
(* not overlap and the metadata store answers, that the lists agree with   *)
(* the store.                                                              *)
(***************************************************************************)
EXTENDS BrokerSerial, TLAPS, SequenceTheorems, FiniteSetTheorems

(* What a goroutine's place says about the locals it will use there. *)
Locals ==
  /\ \A s \in Subs : spc[s] # "idle" => obj[s] \in Subs
  /\ \A p \in Pubs :
       /\ ppc[p] # "idle" => msg[p] \in Messages
       /\ ppc[p] \in {"change", "unsubscribe", "resubscribe", "addpair"} => cur[p] \in Subs
       /\ ppc[p] = "addpair" => stream[p] \in UUIDs

TypeInv == TypeOK /\ Locals

(* At the start no goroutine has gone anywhere, and all is well typed. *)
LEMMA LocalsInit == Init => TypeInv
  BY BrokerAssumption
  DEF Init, TypeInv, TypeOK, Locals, Blank, Docs, Matching, SubStates, PubStates

(* Queueing one more item where there is room keeps a channel within Cap. *)
LEMMA QueueOne ==
  ASSUME NEW c \in Seq(Item), NEW d, NEW i \in Item, Len(c) <= Cap,
         d = c \/ (Len(c) < Cap /\ d = Append(c, i))
  PROVE  d \in Seq(Item) /\ Len(d) <= Cap
<1>1. CASE d = c BY <1>1
<1>2. CASE Len(c) < Cap /\ d = Append(c, i) BY <1>2, BrokerAssumption
<1> QED BY <1>1, <1>2

(* The store answers a query with streams. *)
LEMMA MatchingType == \A q \in Queries : Matching(q) \in SUBSET UUIDs
  BY DEF Matching

(* A step of a subscriber's goroutine keeps every variable in its type. *)
LEMMA TypeSub ==
  ASSUME TypeInv, NEW s \in Subs, SubNext(s)
  PROVE  TypeInv'
<1> USE BrokerAssumption DEF TypeInv, TypeOK, Locals, SubStates, PubStates, GoTo, shared,
        subVars, pubVars
<1>0. QueryOf[s] \in Queries /\ reg[QueryOf[s]] \in Subs \cup {None}
  OBVIOUS
<1>m. Matching(QueryOf[s]) \in SUBSET UUIDs
  BY <1>0, MatchingType
<1>1. CASE Subscribe(s)
  <2>1. \E o \in Subs, l \in SubStates :
          obj' = [obj EXCEPT ![s] = o] /\ spc' = [spc EXCEPT ![s] = l]
    BY <1>0, <1>1 DEF Subscribe
  <2>2. UNCHANGED <<shared, chan, gone, snap, pending, pubVars>>
    BY <1>1 DEF Subscribe
  <2> QED BY <2>1, <2>2
<1>2. CASE FetchInitialStreams(s)
  <2>1. streams' \in [Subs -> SUBSET UUIDs]
    <3>1. streams' = [streams EXCEPT ![s] = Matching(QueryOf[s])] \/ streams' = streams
      BY <1>2, Zenon DEF FetchInitialStreams
    <3> QED BY <3>1, <1>m
  <2>4. behind' \in [Queries -> SUBSET UUIDs]
    <3>1. behind' = [behind EXCEPT ![QueryOf[s]] = {}] \/ behind' = behind
      BY <1>2, Zenon DEF FetchInitialStreams
    <3> QED BY <3>1
  <2>3. \E l \in SubStates : spc' = [spc EXCEPT ![s] = l]
    BY <1>2 DEF FetchInitialStreams
  <2>2. obj[s] \in Subs
    BY <1>2 DEF FetchInitialStreams
  <2> QED BY <1>2, <2>1, <2>2, <2>3, <2>4 DEF FetchInitialStreams
<1>3. CASE EvaluateInitial(s)
  <2>1. initial' \in [Subs -> SUBSET UUIDs]
    <3>1. initial' = [initial EXCEPT ![s] = Matching(QueryOf[s])] \/ initial' = initial
      BY <1>3, Zenon DEF EvaluateInitial
    <3> QED BY <3>1, <1>m
  <2>3. \E l \in SubStates : spc' = [spc EXCEPT ![s] = l]
    BY <1>3 DEF EvaluateInitial
  <2>2. obj[s] \in Subs
    BY <1>3 DEF EvaluateInitial
  <2> QED BY <1>3, <2>1, <2>2, <2>3 DEF EvaluateInitial
<1>4. CASE Register(s)
  <2>1. CASE reg[QueryOf[s]] = None
    <3>1. reg' = [reg EXCEPT ![QueryOf[s]] = s] /\ UNCHANGED obj
      BY <1>4, <2>1 DEF Register
    <3>2. index' = [k \in Keys |-> IF k \in KeysOf[QueryOf[s]] THEN index[k] \cup {s}
                                                              ELSE index[k]]
      BY <1>4, <2>1 DEF Register
    <3>3. index' \in [Keys -> SUBSET Subs]
      BY <3>2
    <3> QED BY <1>4, <3>1, <3>3 DEF Register
  <2>2. CASE reg[QueryOf[s]] # None
    <3>1. obj' = [obj EXCEPT ![s] = reg[QueryOf[s]]] /\ UNCHANGED <<reg, index>>
      BY <1>4, <2>2 DEF Register
    <3> QED BY <1>0, <1>4, <2>2, <3>1 DEF Register
  <2> QED BY <2>1, <2>2
<1>5. CASE JoinRead(s) BY <1>5 DEF JoinRead
<1>6. CASE JoinWrite(s) BY <1>6 DEF JoinWrite
<1>7. CASE Attach(s) BY <1>7 DEF Attach
<1>8. CASE AttachDone(s) BY <1>8 DEF AttachDone
<1>9. CASE SendInitial(s)
  <2>1. \E it \in Item : chan' = [chan EXCEPT ![s] = Append(@, it)]
    BY <1>9 DEF SendInitial, Item
  <2>2. chan' \in [Subs -> Seq(Item)] /\ \A t \in Subs : Len(chan'[t]) <= Cap
    BY <1>9, <2>1 DEF SendInitial
  <2> QED BY <1>9, <2>2 DEF SendInitial
<1>10. CASE Leave(s) BY <1>10 DEF Leave
<1>11. CASE RemoveLookup(s)
  <2>1. CASE reg[QueryOf[s]] = None
    <3>1. GoTo(s, "done") /\ UNCHANGED obj /\ spc[s] = "rmlookup"
      BY <1>11, <2>1, Zenon DEF RemoveLookup
    <3>2. UNCHANGED <<shared, chan, gone, snap, pending, pubVars>>
      BY <1>11, Zenon DEF RemoveLookup
    <3> QED BY <3>1, <3>2
  <2>2. CASE reg[QueryOf[s]] # None
    <3>1. GoTo(s, "rmstreams") /\ obj' = [obj EXCEPT ![s] = reg[QueryOf[s]]]
      BY <1>11, <2>2, Zenon DEF RemoveLookup
    <3>2. UNCHANGED <<shared, chan, gone, snap, pending, pubVars>>
      BY <1>11, Zenon DEF RemoveLookup
    <3> QED BY <1>0, <2>2, <3>1, <3>2
  <2> QED BY <2>1, <2>2
<1>12. CASE RemoveFromStreams(s) BY <1>12 DEF RemoveFromStreams
<1>13. CASE RemoveRead(s) BY <1>13 DEF RemoveRead
<1>14. CASE RemoveWrite(s) BY <1>14 DEF RemoveWrite, AfterRemoval
<1> QED
  BY <1>1, <1>2, <1>3, <1>4, <1>5, <1>6, <1>7, <1>8, <1>9, <1>10, <1>11, <1>12, <1>13, <1>14
  DEF SubNext

(* A step of a publisher's goroutine keeps every variable in its type. *)
LEMMA TypePub ==
  ASSUME TypeInv, NEW p \in Pubs, Publish(p) \/ PubStep(p)
  PROVE  TypeInv'
<1> USE BrokerAssumption DEF TypeInv, TypeOK, Locals, SubStates, PubStates, PubGoTo, shared,
        subVars, pubVars, Matching
<1>1. CASE Publish(p)
  <2>0. PICK m \in Messages : \E d \in Saved(m) :
          /\ store' = [store EXCEPT ![m.uuid] = d]
          /\ qualified' = [q \in Queries |->
                 qualified[q] \cup (IF d \in Where[q] THEN {m.uuid} ELSE {})]
          /\ msg' = [msg EXCEPT ![p] = m]
    BY <1>1, Zenon DEF Publish
  <2>1. PICK d \in Saved(m) :
          /\ store' = [store EXCEPT ![m.uuid] = d]
          /\ qualified' = [q \in Queries |->
                 qualified[q] \cup (IF d \in Where[q] THEN {m.uuid} ELSE {})]
          /\ msg' = [msg EXCEPT ![p] = m]
    BY <2>0, Zenon
  <2>2. m.uuid \in UUIDs /\ m.vals \in Docs
    OBVIOUS
  <2>3. d \in Docs
    <3>1. store[m.uuid] \in Docs
      BY <2>2
    <3>2. [k \in Keys |-> IF k \in m.keys \cup AlwaysKeys THEN m.vals[k]
                                                         ELSE store[m.uuid][k]] \in Docs
      BY <2>2, <3>1 DEF Docs
    <3> QED BY <3>1, <3>2 DEF Saved
  <2>4. qualified' \in [Queries -> SUBSET UUIDs]
    BY <2>1, <2>2
  <2> QED BY <1>1, <2>1, <2>2, <2>3, <2>4 DEF Publish
<1>2. CASE Collect(p) BY <1>2 DEF Collect, Touched
<1>3. CASE FetchStreams(p)
  <2>1. PICK o \in todo[p] :
          /\ todo' = [todo EXCEPT ![p] = @ \ {o}]
          /\ \/ /\ cur' = [cur EXCEPT ![p] = o]
                /\ fetched' = [fetched EXCEPT ![p] = Matching(QueryOf[o])]
                /\ behind' = [behind EXCEPT ![QueryOf[o]] = {}]
                /\ PubGoTo(p, "change")
             \/ UNCHANGED <<cur, fetched, behind, ppc>>
    BY <1>3 DEF FetchStreams
  <2>2. o \in Subs /\ msg[p] \in Messages
    BY <1>3 DEF FetchStreams
  <2>3. CASE UNCHANGED <<cur, fetched, behind, ppc>>
    BY <1>3, <2>1, <2>2, <2>3 DEF FetchStreams
  <2>4. CASE /\ cur' = [cur EXCEPT ![p] = o]
             /\ fetched' = [fetched EXCEPT ![p] = Matching(QueryOf[o])]
             /\ behind' = [behind EXCEPT ![QueryOf[o]] = {}]
             /\ PubGoTo(p, "change")
    <3>1. Matching(QueryOf[o]) \in SUBSET UUIDs
      OBVIOUS
    <3>2. behind' \in [Queries -> SUBSET UUIDs]
      BY <2>4
    <3> HIDE DEF Matching
    <3> QED BY <1>3, <2>1, <2>2, <2>4, <3>1, <3>2 DEF FetchStreams
  <2> QED BY <2>1, <2>3, <2>4
<1>4. CASE ChangeUUIDs(p) BY <1>4 DEF ChangeUUIDs
<1>5. CASE Unsubscribe(p) BY <1>5 DEF Unsubscribe, SameQuery
<1>6. CASE NextAddedStream(p) BY <1>6 DEF NextAddedStream
<1>7. CASE AddPair(p) BY <1>7 DEF AddPair
<1>8. CASE AddedStreamDone(p) BY <1>8 DEF AddedStreamDone
<1>9. CASE ReevaluateDone(p) BY <1>9 DEF ReevaluateDone
<1>10. CASE ForwardMessage(p)
  <2>1. Update(msg[p].uuid) \in Item
    BY <1>10 DEF ForwardMessage, Update, Item
  <2>2. \A s \in Subs : chan'[s] \in Seq(Item) /\ Len(chan'[s]) <= Cap
    <3> SUFFICES ASSUME NEW s \in Subs PROVE chan'[s] \in Seq(Item) /\ Len(chan'[s]) <= Cap
      OBVIOUS
    <3>1. \/ chan'[s] = chan[s]
          \/ Len(chan[s]) < Cap /\ chan'[s] = Append(chan[s], Update(msg[p].uuid))
      BY <1>10 DEF ForwardMessage
    <3>2. chan[s] \in Seq(Item) /\ Len(chan[s]) <= Cap
      OBVIOUS
    <3> QED BY <2>1, <3>1, <3>2, QueueOne
  <2>3. chan' \in [Subs -> Seq(Item)]
    BY <1>10, <2>2 DEF ForwardMessage
  <2> QED BY <1>10, <2>2, <2>3 DEF ForwardMessage
<1> QED
  BY <1>1, <1>2, <1>3, <1>4, <1>5, <1>6, <1>7, <1>8, <1>9, <1>10 DEF PubStep

(* So does what a client does to its channel. *)
LEMMA TypeClient ==
  ASSUME TypeInv, NEW s \in Subs, Consume(s) \/ Disconnect(s)
  PROVE  TypeInv'
<1> USE BrokerAssumption DEF TypeInv, TypeOK, Locals, shared, subVars, pubVars
<1>1. CASE Consume(s) BY <1>1 DEF Consume
<1>2. CASE Disconnect(s) BY <1>2 DEF Disconnect
<1> QED BY <1>1, <1>2

(* A change of documents that no message announces. *)
Unhandled == SetTags \/ \E p \in Pubs : AddDataFails(p)

LEMMA SavedType ==
  ASSUME TypeInv, NEW m \in Messages, NEW d \in Saved(m)
  PROVE  d \in Docs
<1>1. store[m.uuid] \in Docs /\ m.vals \in Docs
  BY BrokerAssumption DEF TypeInv, TypeOK
<1>2. [k \in Keys |-> IF k \in m.keys \cup AlwaysKeys THEN m.vals[k]
                                                     ELSE store[m.uuid][k]] \in Docs
  BY <1>1 DEF Docs
<1> QED BY <1>1, <1>2 DEF Saved

(* It gives every stream some document. *)
LEMMA UnhandledDocs ==
  ASSUME TypeInv, Unhandled
  PROVE  \E new \in [UUIDs -> Docs] : ChangeUnhandled(new)
<1>0. store \in [UUIDs -> Docs]
  BY DEF TypeInv, TypeOK
<1>1. CASE \E p \in Pubs : AddDataFails(p)
  <2>1. PICK m \in Messages : \E d \in Saved(m) : ChangeUnhandled([store EXCEPT ![m.uuid] = d])
    BY <1>1, Zenon DEF AddDataFails
  <2>2. PICK d \in Saved(m) : ChangeUnhandled([store EXCEPT ![m.uuid] = d])
    BY <2>1, Zenon
  <2>3. d \in Docs
    BY SavedType
  <2>4. [store EXCEPT ![m.uuid] = d] \in [UUIDs -> Docs]
    BY <1>0, <2>3
  <2> QED BY <2>2, <2>4, Zenon
<1>2. CASE SetTags
  <2>1. PICK t \in Sets : \E updated \in IF StoreFails THEN SUBSET Matching(t.where)
                                                       ELSE {Matching(t.where)} :
          ChangeUnhandled([u \in UUIDs |->
            IF u \in updated THEN [k \in Keys |-> IF k \in t.keys THEN t.vals[k] ELSE store[u][k]]
                            ELSE store[u]])
    BY <1>2, Zenon DEF SetTags
  <2>2. PICK updated \in IF StoreFails THEN SUBSET Matching(t.where) ELSE {Matching(t.where)} :
          ChangeUnhandled([u \in UUIDs |->
            IF u \in updated THEN [k \in Keys |-> IF k \in t.keys THEN t.vals[k] ELSE store[u][k]]
                            ELSE store[u]])
    BY <2>1, Zenon
  <2>3. t.vals \in Docs
    BY BrokerAssumption
  <2>4. \A u \in UUIDs :
          [k \in Keys |-> IF k \in t.keys THEN t.vals[k] ELSE store[u][k]] \in Docs
    BY <1>0, <2>3 DEF Docs
  <2>5. [u \in UUIDs |->
            IF u \in updated THEN [k \in Keys |-> IF k \in t.keys THEN t.vals[k] ELSE store[u][k]]
                            ELSE store[u]] \in [UUIDs -> Docs]
    BY <1>0, <2>4
  <2> QED BY <2>2, <2>5, Zenon
<1> QED BY <1>1, <1>2 DEF Unhandled

(* Nothing else changes but the counts and the histories. *)
LEMMA UnhandledRest ==
  ASSUME NEW new, ChangeUnhandled(new)
  PROVE  UNCHANGED <<reg, index, lists, streams, members, initial, subVars, pubVars>>
BY DEF ChangeUnhandled

LEMMA TypeUnhandled ==
  ASSUME TypeInv, Unhandled
  PROVE  TypeInv'
<1>1. PICK new \in [UUIDs -> Docs] : ChangeUnhandled(new)
  BY UnhandledDocs
<1>2. /\ store' \in [UUIDs -> Docs] /\ published' \in Nat
      /\ qualified' \in [Queries -> SUBSET UUIDs] /\ behind' \in [Queries -> SUBSET UUIDs]
  BY <1>1 DEF ChangeUnhandled, TypeInv, TypeOK
<1> QED
  BY <1>1, <1>2, UnhandledRest DEF TypeInv, TypeOK, Locals, subVars, pubVars

(* So does a step that changes nothing. *)
LEMMA TypeStutter == TypeInv /\ UNCHANGED vars => TypeInv'
  BY DEF TypeInv, TypeOK, Locals, vars, shared, subVars, pubVars

(* Every variable of the broker keeps its type, in every behaviour. *)
THEOREM TypeCorrect == Spec => []TypeOK
<1>1. Init => TypeInv
  BY LocalsInit
<1>2. TypeInv /\ [Next]_vars => TypeInv'
  BY TypeSub, TypePub, TypeClient, TypeUnhandled, TypeStutter DEF Next, Unhandled
<1>3. TypeInv => TypeOK
  BY DEF TypeInv
<1> QED
  BY <1>1, <1>2, <1>3, PTL DEF Spec

-----------------------------------------------------------------------------
(* Where a stream can come from.  Sets of streams travel from GetUUIDs     *)
(* through Query.Streams and the locals of the goroutines to the lists;    *)
(* each stays within what its own query has ever matched, and a subscriber *)
(* only meets Query objects of its own query string.                       *)
Provenance ==
  /\ \A q \in Queries : Matching(q) \subseteq qualified[q]
  /\ \A q \in Queries : reg[q] # None => QueryOf[reg[q]] = q
  /\ \A o \in Subs : streams[o] \subseteq qualified[QueryOf[o]]
  /\ \A o \in Subs : initial[o] \subseteq qualified[QueryOf[o]]
  /\ \A o \in Subs : \A s \in members[o] : QueryOf[s] = QueryOf[o]
  /\ \A s \in Subs : spc[s] # "idle" => QueryOf[obj[s]] = QueryOf[s]
  /\ \A s \in Subs : \A t \in snap[s] : QueryOf[t] = QueryOf[s]

(* The same for the locals of the publishers. *)
PubProvenance ==
  \A p \in Pubs :
    /\ ppc[p] = "change" => fetched[p] \subseteq qualified[QueryOf[cur[p]]]
    /\ ppc[p] \in {"unsubscribe", "resubscribe", "addpair"} =>
         added[p] \subseteq qualified[QueryOf[cur[p]]]
    /\ ppc[p] = "addpair" =>
         /\ stream[p] \in qualified[QueryOf[cur[p]]]
         /\ \A s \in remaining[p] : QueryOf[s] = QueryOf[cur[p]]

StreamInv == TypeInv /\ Provenance /\ PubProvenance /\ NoForeignStream

(* At the start there are no streams anywhere to be foreign. *)
LEMMA StreamInit == Init => StreamInv
<1> SUFFICES ASSUME Init PROVE StreamInv
  OBVIOUS
<1>1. TypeInv
  BY LocalsInit
<1>2. Provenance /\ PubProvenance /\ NoForeignStream
  BY BrokerAssumption DEF Init, Provenance, PubProvenance, NoForeignStream, Blank
<1> QED BY <1>1, <1>2 DEF StreamInv

(* Queueing an item adds no streams but the item's own. *)
LEMMA QueuedStreams ==
  ASSUME NEW c \in Seq(Item), NEW it, NEW Q,
         \A i \in DOMAIN c : c[i].streams \subseteq Q, it.streams \subseteq Q
  PROVE  \A i \in DOMAIN Append(c, it) : Append(c, it)[i].streams \subseteq Q
  OBVIOUS

(* A subscriber takes streams only from its own query's object, whose own  *)
(* come from the store's answer to that query.                             *)
LEMMA StreamSub ==
  ASSUME StreamInv, NEW s \in Subs, SubNext(s)
  PROVE  StreamInv'
<1> USE BrokerAssumption DEF GoTo, shared, subVars, pubVars
<1>1. TypeInv /\ TypeInv'
  BY TypeSub DEF StreamInv
<1>2. UNCHANGED <<store, qualified>>
  BY DEF SubNext, Subscribe, FetchInitialStreams, EvaluateInitial, Register, JoinRead, JoinWrite, Attach, AttachDone, SendInitial, Leave, RemoveLookup, RemoveFromStreams, RemoveRead, RemoveWrite
<1>3. \A q \in Queries : Matching(q)' = Matching(q)
  BY <1>2 DEF Matching
<1>4. CASE Subscribe(s)
  <2>1. UNCHANGED <<shared, chan, gone, snap, pending, pubVars>>
    BY <1>4 DEF Subscribe
  <2>2. /\ QueryOf[obj'[s]] = QueryOf[s]
        /\ \A t \in Subs \ {s} : spc'[t] = spc[t] /\ obj'[t] = obj[t]
    BY <1>1, <1>4 DEF Subscribe, StreamInv, Provenance, TypeInv, TypeOK
  <2>3. Provenance'
    BY <1>1, <1>2, <1>3, <2>1, <2>2 DEF StreamInv, Provenance
  <2> QED
    BY <1>1, <2>1, <2>3 DEF StreamInv, PubProvenance, NoForeignStream
<1>5. CASE FetchInitialStreams(s)
  <2>1. \A o \in Subs : streams'[o] \subseteq qualified[QueryOf[o]]
    <3>1. streams' = [streams EXCEPT ![s] = Matching(QueryOf[s])] \/ streams' = streams
      BY <1>5, Zenon DEF FetchInitialStreams
    <3>2. Matching(QueryOf[s]) \subseteq qualified[QueryOf[s]]
      BY DEF StreamInv, Provenance
    <3>3. ASSUME NEW o \in Subs
          PROVE  streams'[o] = streams[o] \/ (o = s /\ streams'[o] = Matching(QueryOf[s]))
      BY <1>1, <3>1 DEF TypeInv, TypeOK
    <3> QED BY <3>2, <3>3 DEF StreamInv, Provenance
  <2>2. /\ UNCHANGED <<reg, lists, members, chan, obj, snap, pubVars,
                        initial>>
        /\ spc[s] # "idle" /\ \A t \in Subs \ {s} : spc'[t] = spc[t]
    BY <1>1, <1>5 DEF FetchInitialStreams, TypeInv, TypeOK
  <2> QED
    BY <1>1, <1>2, <1>3, <2>1, <2>2 DEF StreamInv, Provenance, PubProvenance, NoForeignStream
<1>6. CASE EvaluateInitial(s)
  <2>1. \A o \in Subs : initial'[o] \subseteq qualified[QueryOf[o]]
    <3>1. initial' = [initial EXCEPT ![s] = Matching(QueryOf[s])] \/ initial' = initial
      BY <1>6, Zenon DEF EvaluateInitial
    <3>2. Matching(QueryOf[s]) \subseteq qualified[QueryOf[s]]
      BY DEF StreamInv, Provenance
    <3>3. ASSUME NEW o \in Subs
          PROVE  initial'[o] = initial[o] \/ (o = s /\ initial'[o] = Matching(QueryOf[s]))
      BY <1>1, <3>1 DEF TypeInv, TypeOK
    <3> QED BY <3>2, <3>3 DEF StreamInv, Provenance
  <2>2. /\ UNCHANGED <<reg, lists, members, chan, obj, snap, pubVars,
                        streams>>
        /\ spc[s] # "idle" /\ \A t \in Subs \ {s} : spc'[t] = spc[t]
    BY <1>1, <1>6 DEF EvaluateInitial, TypeInv, TypeOK
  <2> QED
    BY <1>1, <1>2, <1>3, <2>1, <2>2 DEF StreamInv, Provenance, PubProvenance, NoForeignStream
<1>7. CASE Register(s)
  <2>1. UNCHANGED <<lists, streams, members, initial, chan, snap, pubVars>>
    BY <1>7 DEF Register
  <2>2. spc[s] # "idle" /\ \A t \in Subs \ {s} : spc'[t] = spc[t]
    BY <1>1, <1>7 DEF Register, TypeInv, TypeOK
  <2>3. CASE reg[QueryOf[s]] # None
    <3>1. obj' = [obj EXCEPT ![s] = reg[QueryOf[s]]] /\ UNCHANGED reg
      BY <1>7, <2>3 DEF Register
    <3>2. QueryOf[reg[QueryOf[s]]] = QueryOf[s]
      BY <2>3 DEF StreamInv, Provenance
    <3> QED
      BY <1>1, <1>2, <1>3, <2>1, <2>2, <3>1, <3>2
      DEF StreamInv, Provenance, PubProvenance, NoForeignStream, TypeInv, TypeOK
  <2>4. CASE reg[QueryOf[s]] = None
    <3>1. reg' = [reg EXCEPT ![QueryOf[s]] = s] /\ UNCHANGED obj
      BY <1>7, <2>4 DEF Register
    <3> QED
      BY <1>1, <1>2, <1>3, <2>1, <2>2, <3>1
      DEF StreamInv, Provenance, PubProvenance, NoForeignStream, TypeInv, TypeOK
  <2> QED BY <2>3, <2>4
<1>8. CASE JoinRead(s)
  BY <1>1, <1>2, <1>3, <1>8
  DEF JoinRead, StreamInv, Provenance, PubProvenance, NoForeignStream, TypeInv, TypeOK, Locals
<1>9. CASE JoinWrite(s)
  BY <1>1, <1>2, <1>3, <1>9
  DEF JoinWrite, StreamInv, Provenance, PubProvenance, NoForeignStream, TypeInv, TypeOK, Locals
<1>10. CASE Attach(s)
  <2>1. PICK u \in streams[obj[s]] : lists' = [lists EXCEPT ![u] = @ \cup {s}]
    BY <1>10, Zenon DEF Attach
  <2>2. /\ UNCHANGED <<reg, streams, members, initial, chan, spc, obj, snap, pubVars>>
        /\ spc[s] # "idle"
    BY <1>10 DEF Attach
  <2>3. u \in qualified[QueryOf[s]]
    BY <1>1, <2>1, <2>2 DEF StreamInv, Provenance, TypeInv, Locals
  <2>4. NoForeignStream'
    BY <1>1, <1>2, <2>1, <2>2, <2>3 DEF StreamInv, NoForeignStream, TypeInv, TypeOK
  <2> QED
    BY <1>1, <1>2, <1>3, <2>2, <2>4 DEF StreamInv, Provenance, PubProvenance
<1>11. CASE AttachDone(s)
  BY <1>1, <1>2, <1>3, <1>11
  DEF AttachDone, StreamInv, Provenance, PubProvenance, NoForeignStream, TypeInv, TypeOK, Locals
<1>12. CASE SendInitial(s)
  <2>1. chan' = [chan EXCEPT ![s] =
                   Append(@, [init |-> TRUE, streams |-> initial[obj[s]]])]
    BY <1>12 DEF SendInitial
  <2>2. UNCHANGED <<reg, lists, streams, members, initial, obj, snap, pubVars>>
    BY <1>12 DEF SendInitial
  <2>3. spc[s] # "idle" /\ \A t \in Subs \ {s} : spc'[t] = spc[t]
    BY <1>1, <1>12 DEF SendInitial, TypeInv, TypeOK
  <2>4. initial[obj[s]] \in SUBSET UUIDs /\ initial[obj[s]] \subseteq qualified[QueryOf[s]]
    BY <1>1, <2>3 DEF StreamInv, Provenance, TypeInv, TypeOK, Locals
  <2>5. NoForeignStream'
    BY <1>1, <1>2, <2>1, <2>2, <2>4, QueuedStreams
    DEF StreamInv, NoForeignStream, TypeInv, TypeOK
  <2> QED
    BY <1>1, <1>2, <1>3, <2>2, <2>3, <2>5 DEF StreamInv, Provenance, PubProvenance
<1>13. CASE Leave(s)
  BY <1>1, <1>2, <1>3, <1>13
  DEF Leave, StreamInv, Provenance, PubProvenance, NoForeignStream, TypeInv, TypeOK, Locals
<1>14. CASE RemoveLookup(s)
  <2>1. UNCHANGED <<shared, chan, gone, snap, pending, pubVars>> /\ spc[s] # "idle"
    BY <1>14 DEF RemoveLookup
  <2>2. obj' = obj \/ (reg[QueryOf[s]] # None /\ obj' = [obj EXCEPT ![s] = reg[QueryOf[s]]])
    BY <1>14 DEF RemoveLookup
  <2>3. \A t \in Subs \ {s} : spc'[t] = spc[t]
    BY <1>1, <1>14 DEF RemoveLookup, TypeInv, TypeOK
  <2>4. /\ QueryOf[obj'[s]] = QueryOf[s]
        /\ \A t \in Subs \ {s} : obj'[t] = obj[t]
    BY <1>1, <2>1, <2>2 DEF StreamInv, Provenance, TypeInv, TypeOK
  <2>5. Provenance'
    BY <1>1, <1>2, <1>3, <2>1, <2>3, <2>4 DEF StreamInv, Provenance
  <2> QED
    BY <1>1, <2>1, <2>5 DEF StreamInv, PubProvenance, NoForeignStream
<1>15. CASE RemoveFromStreams(s)
  BY <1>1, <1>2, <1>3, <1>15
  DEF RemoveFromStreams, StreamInv, Provenance, PubProvenance, NoForeignStream, TypeInv, TypeOK, Locals
<1>16. CASE RemoveRead(s)
  BY <1>1, <1>2, <1>3, <1>16
  DEF RemoveRead, StreamInv, Provenance, PubProvenance, NoForeignStream, TypeInv, TypeOK, Locals
<1>17. CASE RemoveWrite(s)
  <2>1. /\ members' = [members EXCEPT ![obj[s]] = snap[s] \ {s}]
        /\ snap' = [snap EXCEPT ![s] = {}]
        /\ UNCHANGED <<reg, lists, streams, initial, chan, obj, ppc, cur, fetched, added, stream>>
    BY <1>17 DEF RemoveWrite
  <2>2. spc[s] # "idle" /\ \A t \in Subs \ {s} : spc'[t] = spc[t]
    BY <1>1, <1>17 DEF RemoveWrite, TypeInv, TypeOK
  <2>3. \A p \in Pubs : remaining'[p] \subseteq remaining[p]
    BY <1>17 DEF RemoveWrite, AfterRemoval
  <2>4. Provenance'
    BY <1>1, <1>2, <1>3, <2>1, <2>2 DEF StreamInv, Provenance, TypeInv, TypeOK, Locals
  <2>5. PubProvenance'
    BY <1>2, <2>1, <2>3 DEF StreamInv, PubProvenance
  <2> QED
    BY <1>1, <1>2, <2>1, <2>4, <2>5 DEF StreamInv, NoForeignStream
<1> QED
  BY <1>4, <1>5, <1>6, <1>7, <1>8, <1>9, <1>10, <1>11, <1>12, <1>13, <1>14, <1>15, <1>16, <1>17 DEF SubNext

(* A reevaluation replaces a query's streams by the store's answer to that *)
(* same query, and forwards a message only to who is listed for its stream.*)
LEMMA StreamPub ==
  ASSUME StreamInv, NEW p \in Pubs, PubStep(p)
  PROVE  StreamInv'
<1> USE BrokerAssumption DEF PubGoTo, shared, subVars, pubVars
<1>1. TypeInv /\ TypeInv'
  BY TypePub DEF StreamInv
<1>2. UNCHANGED <<store, qualified>>
  BY DEF PubStep, Collect, FetchStreams, ChangeUUIDs, Unsubscribe, NextAddedStream, AddPair, AddedStreamDone, ReevaluateDone, ForwardMessage
<1>3. \A q \in Queries : Matching(q)' = Matching(q)
  BY <1>2 DEF Matching
<1>4. CASE Collect(p)
  BY <1>1, <1>2, <1>3, <1>4
  DEF Collect, StreamInv, Provenance, PubProvenance, NoForeignStream, TypeInv, TypeOK, Locals
<1>5. CASE FetchStreams(p)
  BY <1>1, <1>2, <1>3, <1>5
  DEF FetchStreams, StreamInv, Provenance, PubProvenance, NoForeignStream, TypeInv, TypeOK, Locals
<1>6. CASE ChangeUUIDs(p)
  BY <1>1, <1>2, <1>3, <1>6
  DEF ChangeUUIDs, StreamInv, Provenance, PubProvenance, NoForeignStream, TypeInv, TypeOK, Locals
<1>7. CASE Unsubscribe(p)
  <2>1. \A u \in UUIDs : lists'[u] \subseteq lists[u]
    <3>1. PICK left \in [UUIDs -> SUBSET Subs] :
            /\ \A u \in UUIDs :
                 left[u] \in IF u \in removed[p]
                               THEN Leftovers(SameQuery(u, cur[p]), lists[u] \ SameQuery(u, cur[p]))
                               ELSE {SameQuery(u, cur[p])}
            /\ lists' = [u \in UUIDs |-> (lists[u] \ SameQuery(u, cur[p])) \cup left[u]]
      BY <1>7, Zenon DEF Unsubscribe
    <3>2. ASSUME NEW M, NEW O, NEW L \in Leftovers(M, O) PROVE L \subseteq M
      BY DEF Leftovers
    <3>3. ASSUME NEW u \in UUIDs PROVE left[u] \subseteq SameQuery(u, cur[p])
      BY <3>1, <3>2
    <3>4. ASSUME NEW u \in UUIDs PROVE SameQuery(u, cur[p]) \subseteq lists[u]
      BY DEF SameQuery
    <3> QED BY <3>1, <3>3, <3>4
  <2>2. UNCHANGED <<reg, streams, members, initial, subVars, cur, fetched, added, stream, remaining>>
    BY <1>7 DEF Unsubscribe
  <2>3. /\ ppc[p] = "unsubscribe" /\ ppc'[p] = "resubscribe"
        /\ \A r \in Pubs \ {p} : ppc'[r] = ppc[r]
    BY <1>1, <1>7 DEF Unsubscribe, TypeInv, TypeOK
  <2>4. NoForeignStream'
    BY <1>2, <2>1, <2>2 DEF StreamInv, NoForeignStream
  <2> QED
    BY <1>1, <1>2, <1>3, <2>2, <2>3, <2>4 DEF StreamInv, Provenance, PubProvenance
<1>8. CASE NextAddedStream(p)
  BY <1>1, <1>2, <1>3, <1>8
  DEF NextAddedStream, StreamInv, Provenance, PubProvenance, NoForeignStream, TypeInv, TypeOK, Locals
<1>9. CASE AddPair(p)
  BY <1>1, <1>2, <1>3, <1>9
  DEF AddPair, StreamInv, Provenance, PubProvenance, NoForeignStream, TypeInv, TypeOK, Locals
<1>10. CASE AddedStreamDone(p)
  BY <1>1, <1>2, <1>3, <1>10
  DEF AddedStreamDone, StreamInv, Provenance, PubProvenance, NoForeignStream, TypeInv, TypeOK, Locals
<1>11. CASE ReevaluateDone(p)
  BY <1>1, <1>2, <1>3, <1>11
  DEF ReevaluateDone, StreamInv, Provenance, PubProvenance, NoForeignStream, TypeInv, TypeOK, Locals
<1>12. CASE ForwardMessage(p)
  <2>1. UNCHANGED <<shared, spc, obj, snap, cur, fetched, added, stream, remaining>>
    BY <1>12 DEF ForwardMessage
  <2>2. ppc'[p] = "idle" /\ \A r \in Pubs \ {p} : ppc'[r] = ppc[r]
    BY <1>1, <1>12 DEF ForwardMessage, TypeInv, TypeOK
  <2>3. msg[p].uuid \in UUIDs
    BY <1>1, <1>12 DEF ForwardMessage, TypeInv, Locals
  <2>4. ASSUME NEW s \in Subs, NEW i \in DOMAIN chan'[s]
        PROVE  chan'[s][i].streams \subseteq qualified[QueryOf[s]]
    <3>1. CASE chan'[s] = chan[s]
      BY <2>4, <3>1 DEF StreamInv, NoForeignStream
    <3>2. CASE s \in lists[msg[p].uuid] /\ chan'[s] = Append(chan[s], Update(msg[p].uuid))
      <4>1. Update(msg[p].uuid).streams \subseteq qualified[QueryOf[s]]
        BY <2>3, <3>2 DEF Update, StreamInv, NoForeignStream
      <4> QED
        BY <1>1, <2>4, <3>2, <4>1, QueuedStreams DEF StreamInv, NoForeignStream, TypeInv, TypeOK
    <3> QED
      BY <1>12, <3>1, <3>2 DEF ForwardMessage
  <2>5. NoForeignStream'
    BY <2>1, <2>4 DEF StreamInv, NoForeignStream
  <2> QED
    BY <1>1, <1>3, <2>1, <2>2, <2>5 DEF StreamInv, Provenance, PubProvenance
<1> QED
  BY <1>4, <1>5, <1>6, <1>7, <1>8, <1>9, <1>10, <1>11, <1>12 DEF PubStep

(* SaveTags changes what matches, and what matches then is recorded. *)
LEMMA StreamPublish ==
  ASSUME StreamInv, NEW p \in Pubs, Publish(p)
  PROVE  StreamInv'
<1> USE BrokerAssumption
<1>1. TypeInv /\ TypeInv'
  BY TypePub DEF StreamInv
<1>2. PICK m \in Messages : \E d \in Saved(m) :
        /\ store' = [store EXCEPT ![m.uuid] = d]
        /\ qualified' = [q \in Queries |->
               qualified[q] \cup (IF d \in Where[q] THEN {m.uuid} ELSE {})]
        /\ msg' = [msg EXCEPT ![p] = m]
  BY Zenon DEF Publish
<1>3. PICK d \in Saved(m) :
        /\ store' = [store EXCEPT ![m.uuid] = d]
        /\ qualified' = [q \in Queries |->
               qualified[q] \cup (IF d \in Where[q] THEN {m.uuid} ELSE {})]
  BY <1>2, Zenon
<1>4. UNCHANGED <<reg, index, lists, streams, members, initial, subVars, cur, fetched,
                  added, removed, stream, remaining>>
  BY DEF Publish
<1>5. ppc[p] = "idle" /\ ppc'[p] = "collect" /\ \A r \in Pubs \ {p} : ppc'[r] = ppc[r]
  BY <1>1 DEF Publish, PubGoTo, TypeInv, TypeOK
<1>6. m.uuid \in UUIDs
  OBVIOUS
<1>7. \A q \in Queries : qualified[q] \subseteq qualified'[q]
  BY <1>3
<1>8. ASSUME NEW q \in Queries, NEW u \in UUIDs, store'[u] \in Where[q]
      PROVE  u \in qualified'[q]
  <2>1. CASE u = m.uuid
    <3>1. store'[u] = d
      BY <1>1, <1>3, <1>6, <2>1 DEF TypeInv, TypeOK
    <3> QED BY <1>3, <1>8, <2>1, <3>1
  <2>2. CASE u # m.uuid
    <3>1. store'[u] = store[u]
      BY <1>1, <1>3, <2>2 DEF TypeInv, TypeOK
    <3> QED BY <1>7, <1>8, <3>1 DEF StreamInv, Provenance, Matching
  <2> QED BY <2>1, <2>2
<1>9. \A q \in Queries : Matching(q)' \subseteq qualified'[q]
  BY <1>8 DEF Matching
<1>10. \A s \in Subs : QueryOf[s] \in Queries
  OBVIOUS
<1>11. Provenance'
  BY <1>4, <1>7, <1>9, <1>10 DEF StreamInv, Provenance, subVars
<1>12. PubProvenance'
  <2> SUFFICES ASSUME NEW r \in Pubs, r # p, ppc'[r] # "idle"
               PROVE
                 /\ ppc[r] = "change" => fetched[r] \subseteq qualified'[QueryOf[cur[r]]]
                 /\ ppc[r] \in {"unsubscribe", "resubscribe", "addpair"} =>
                      added[r] \subseteq qualified'[QueryOf[cur[r]]]
                 /\ ppc[r] = "addpair" =>
                      /\ stream[r] \in qualified'[QueryOf[cur[r]]]
                      /\ \A s \in remaining[r] : QueryOf[s] = QueryOf[cur[r]]
    BY <1>4, <1>5 DEF PubProvenance
  <2> QED BY <1>1, <1>5, <1>7, <1>10 DEF StreamInv, PubProvenance, TypeInv, Locals
<1>13. NoForeignStream'
  <2>1. \A u \in UUIDs : \A s \in lists[u] : u \in qualified'[QueryOf[s]]
    BY <1>1, <1>7, <1>10 DEF StreamInv, NoForeignStream, TypeInv, TypeOK
  <2>2. \A s \in Subs : \A i \in DOMAIN chan[s] :
          chan[s][i].streams \subseteq qualified'[QueryOf[s]]
    BY <1>7, <1>10 DEF StreamInv, NoForeignStream
  <2> QED BY <1>4, <2>1, <2>2 DEF NoForeignStream, subVars
<1> QED BY <1>1, <1>11, <1>12, <1>13 DEF StreamInv

(* Receiving from a channel leaves a part of what was in it. *)
LEMMA StreamClient ==
  ASSUME StreamInv, NEW s \in Subs, Consume(s) \/ Disconnect(s)
  PROVE  StreamInv'
<1>1. TypeInv /\ TypeInv'
  BY TypeClient DEF StreamInv
<1>2. UNCHANGED <<shared, spc, obj, snap, pubVars>>
  BY DEF Consume, Disconnect
<1>3. ASSUME NEW t \in Subs, NEW i \in DOMAIN chan'[t]
      PROVE  \E j \in DOMAIN chan[t] : chan'[t][i] = chan[t][j]
  <2>1. chan[t] \in Seq(Item)
    BY <1>1 DEF TypeInv, TypeOK
  <2>2. CASE chan'[t] = chan[t]
    BY <1>3, <2>2
  <2>3. CASE chan[t] # <<>> /\ chan'[t] = Tail(chan[t])
    <3>1. i + 1 \in DOMAIN chan[t] /\ chan'[t][i] = chan[t][i + 1]
      BY <1>3, <2>1, <2>3
    <3> QED BY <3>1
  <2> QED BY <1>1, <2>2, <2>3 DEF Consume, Disconnect, TypeInv, TypeOK
<1>4. NoForeignStream'
  BY <1>2, <1>3 DEF StreamInv, NoForeignStream, shared
<1>5. Provenance' /\ PubProvenance'
  BY <1>2 DEF StreamInv, Provenance, PubProvenance, Matching, shared, pubVars
<1> QED BY <1>1, <1>4, <1>5 DEF StreamInv

(* Other changes of documents are recorded too. *)
LEMMA StreamUnhandled ==
  ASSUME StreamInv, Unhandled
  PROVE  StreamInv'
<1> USE BrokerAssumption
<1>1. TypeInv /\ TypeInv'
  BY TypeUnhandled DEF StreamInv
<1>2. PICK new \in [UUIDs -> Docs] : ChangeUnhandled(new)
  BY <1>1, UnhandledDocs
<1>3. UNCHANGED <<reg, index, lists, streams, members, initial, subVars, pubVars>>
  BY <1>2, UnhandledRest
<1>4. /\ store' = new
      /\ qualified' = [q \in Queries |-> qualified[q] \cup {u \in UUIDs : new[u] \in Where[q]}]
  BY <1>2 DEF ChangeUnhandled
<1>5. \A q \in Queries : qualified[q] \subseteq qualified'[q]
  BY <1>4
<1>6. \A q \in Queries : Matching(q)' \subseteq qualified'[q]
  BY <1>4 DEF Matching
<1>7. \A s \in Subs : QueryOf[s] \in Queries
  OBVIOUS
<1>8. Provenance'
  BY <1>3, <1>5, <1>6, <1>7 DEF StreamInv, Provenance, subVars
<1>9. PubProvenance'
  BY <1>1, <1>3, <1>5, <1>7 DEF StreamInv, PubProvenance, TypeInv, Locals, pubVars
<1>10. NoForeignStream'
  <2>1. \A u \in UUIDs : \A s \in lists[u] : u \in qualified'[QueryOf[s]]
    BY <1>1, <1>5, <1>7 DEF StreamInv, NoForeignStream, TypeInv, TypeOK
  <2>2. \A s \in Subs : \A i \in DOMAIN chan[s] :
          chan[s][i].streams \subseteq qualified'[QueryOf[s]]
    BY <1>5, <1>7 DEF StreamInv, NoForeignStream
  <2> QED BY <1>3, <2>1, <2>2 DEF NoForeignStream, subVars
<1> QED BY <1>1, <1>8, <1>9, <1>10 DEF StreamInv

(* A step that changes nothing moves no stream. *)
LEMMA StreamStutter == StreamInv /\ UNCHANGED vars => StreamInv'
<1> SUFFICES ASSUME StreamInv, UNCHANGED vars PROVE StreamInv'
  OBVIOUS
<1>1. TypeInv'
  BY TypeStutter DEF StreamInv
<1> QED
  BY <1>1 DEF StreamInv, Provenance, PubProvenance, NoForeignStream, Matching,
     vars, shared, subVars, pubVars

(* In every behaviour, a client is queued and listed only for streams that *)
(* have satisfied its own query.                                           *)
THEOREM StreamsComeFromTheQuery == Spec => []NoForeignStream
<1>1. Init => StreamInv
  BY StreamInit
<1>2. StreamInv /\ [Next]_vars => StreamInv'
  BY StreamSub, StreamPub, StreamPublish, StreamClient, StreamUnhandled, StreamStutter
  DEF Next, Unhandled
<1>3. StreamInv => NoForeignStream
  BY DEF StreamInv
<1> QED
  BY <1>1, <1>2, <1>3, PTL DEF Spec

-----------------------------------------------------------------------------

IndexInv == TypeInv /\ IndexedIsRegistered

(* Register adds an object to the index in the step that registers it, and *)
(* only when its query string had no object yet.                           *)
LEMMA IndexStep == IndexInv /\ [Next]_vars => IndexInv'
<1> SUFFICES ASSUME IndexInv, [Next]_vars PROVE IndexInv'
  OBVIOUS
<1> USE BrokerAssumption DEF IndexInv, IndexedIsRegistered
<1>1. TypeInv'
  BY TypeSub, TypePub, TypeClient, TypeUnhandled, TypeStutter DEF Next, Unhandled
<1>2. ASSUME NEW s \in Subs, Register(s) PROVE IndexedIsRegistered'
  <2>1. CASE reg[QueryOf[s]] # None
    BY <1>2, <2>1 DEF Register
  <2>2. CASE reg[QueryOf[s]] = None
    <3>1. reg' = [reg EXCEPT ![QueryOf[s]] = s]
      BY <1>2, <2>2 DEF Register
    <3>2. index' = [k \in Keys |-> IF k \in KeysOf[QueryOf[s]] THEN index[k] \cup {s}
                                                              ELSE index[k]]
      BY <1>2, <2>2 DEF Register
    <3> QED BY <2>2, <3>1, <3>2 DEF TypeInv, TypeOK
  <2> QED BY <2>1, <2>2
<1>3. ASSUME NEW s \in Subs, RemoveWrite(s) PROVE IndexedIsRegistered'
  <2>1. UNCHANGED reg /\ \A k \in Keys : index'[k] \subseteq index[k]
    BY <1>3 DEF RemoveWrite
  <2> QED BY <2>1
<1>4. ASSUME NEW s \in Subs, SubNext(s), ~Register(s), ~RemoveWrite(s)
      PROVE  UNCHANGED <<reg, index>>
  BY <1>4 DEF SubNext, Subscribe, FetchInitialStreams, EvaluateInitial, JoinRead, JoinWrite,
     Attach, AttachDone, SendInitial, Leave, RemoveLookup, RemoveFromStreams, RemoveRead,
     shared
<1>5. ASSUME NEW s \in Subs, Consume(s) \/ Disconnect(s)
      PROVE  UNCHANGED <<reg, index>>
  BY <1>5 DEF Consume, Disconnect, shared
<1>6. ASSUME NEW p \in Pubs, Publish(p) \/ PubStep(p)
      PROVE  UNCHANGED <<reg, index>>
  BY <1>6 DEF Publish, PubStep, Collect, FetchStreams, ChangeUUIDs, Unsubscribe,
     NextAddedStream, AddPair, AddedStreamDone, ReevaluateDone, ForwardMessage, shared
<1>9. Unhandled => UNCHANGED <<reg, index>>
  BY UnhandledDocs, UnhandledRest
<1>7. UNCHANGED <<reg, index>> => IndexedIsRegistered'
  OBVIOUS
<1>8. UNCHANGED vars => UNCHANGED <<reg, index>>
  BY DEF vars, shared
<1> QED
  BY <1>1, <1>2, <1>3, <1>4, <1>5, <1>6, <1>7, <1>8, <1>9 DEF Next, Unhandled

(* In every behaviour, the objects that messages reevaluate are the ones   *)
(* that new clients of the same query are given.                           *)
THEOREM OneObjectPerQuery == Spec => []IndexedIsRegistered
<1>1. Init => IndexInv
  BY LocalsInit DEF IndexInv, IndexedIsRegistered, Init
<1>2. IndexInv => IndexedIsRegistered
  BY DEF IndexInv
<1> QED
  BY <1>1, <1>2, IndexStep, PTL DEF Spec

-----------------------------------------------------------------------------
(* The broker implements SubscriberLife for every subscriber.              *)

(* The subscribers that the broker may send updates to. *)
Known == {s \in Subs : Life(s) \in {"sending", "waiting", "removing", "done"}}

(* Whoever is on a list, in a query, or in what a goroutine still holds of *)
(* a query, has got past GetQuery.                                         *)
OnlyKnown ==
  /\ \A u \in UUIDs : lists[u] \subseteq Known
  /\ \A o \in Subs : members[o] \subseteq Known
  /\ \A s \in Subs : snap[s] \subseteq Known
  /\ \A p \in Pubs : remaining[p] \subseteq Known

LifeInv == TypeInv /\ OnlyKnown

(* Subscriber.C as SubscriberLife sees it. *)
QueueOf(c) == [i \in DOMAIN c |-> IF c[i].init THEN "initial" ELSE "update"]

(* Sending to and receiving from the channel is the same on both levels. *)
LEMMA QueueSteps ==
  ASSUME NEW c \in Seq(Item)
  PROVE  /\ QueueOf(c) \in Seq({"initial", "update"})
         /\ Len(QueueOf(c)) = Len(c)
         /\ \A it \in Item :
              QueueOf(Append(c, it)) =
                Append(QueueOf(c), IF it.init THEN "initial" ELSE "update")
         /\ c # <<>> => QueueOf(c) # <<>> /\ QueueOf(Tail(c)) = Tail(QueueOf(c))
<1>1. DOMAIN c = 1 .. Len(c) /\ Len(c) \in Nat
  OBVIOUS
<1>2. QueueOf(c) \in Seq({"initial", "update"}) /\ Len(QueueOf(c)) = Len(c)
  BY <1>1 DEF QueueOf
<1>3. ASSUME NEW it \in Item
      PROVE  QueueOf(Append(c, it)) =
               Append(QueueOf(c), IF it.init THEN "initial" ELSE "update")
  BY <1>1, <1>2 DEF QueueOf
<1>4. ASSUME c # <<>>
      PROVE  QueueOf(c) # <<>> /\ QueueOf(Tail(c)) = Tail(QueueOf(c))
  BY <1>1, <1>2, <1>4 DEF QueueOf
<1> QED BY <1>2, <1>3, <1>4

(* At the start every subscriber is as SubscriberLife has it. *)
LEMMA LifeInit == Init => LifeInv /\ \A s \in Subs : LifeOf(s)!Init
<1> SUFFICES ASSUME Init PROVE LifeInv /\ \A s \in Subs : LifeOf(s)!Init
  OBVIOUS
<1>1. TypeInv
  BY LocalsInit
<1>2. OnlyKnown
  BY DEF Init, OnlyKnown
<1>3. ASSUME NEW s \in Subs PROVE LifeOf(s)!Init
  <2>1. spc[s] = "idle" /\ chan[s] = <<>> /\ s \notin gone
    BY DEF Init
  <2> QED BY <2>1 DEF LifeOf!Init, Life
<1> QED BY <1>1, <1>2, <1>3 DEF LifeInv

(* What a subscriber's goroutine does to its own place and to its channel. *)
LEMMA OwnStep ==
  ASSUME TypeInv, NEW s \in Subs, SubNext(s)
  PROVE  /\ gone' = gone
         /\ \A t \in Subs \ {s} : spc'[t] = spc[t] /\ chan'[t] = chan[t]
         /\ \/ chan'[s] = chan[s] /\ Life(s)' = Life(s)
            \/ /\ chan'[s] = chan[s]
               /\ Life(s) = "out" /\ Life(s)' \in {"joining", "sending"}
            \/ /\ chan'[s] = chan[s]
               /\ Life(s) = "joining" /\ Life(s)' \in {"sending", "failed"}
            \/ /\ \E q \in SUBSET UUIDs :
                    chan'[s] = Append(chan[s], [init |-> TRUE, streams |-> q])
               /\ Len(chan[s]) < Cap
               /\ Life(s) = "sending" /\ Life(s)' = "waiting"
            \/ /\ chan'[s] = chan[s] /\ s \in gone
               /\ Life(s) = "waiting" /\ Life(s)' = "removing"
            \/ /\ chan'[s] = chan[s]
               /\ Life(s) = "removing" /\ Life(s)' = "done"
<1> USE DEF TypeInv, TypeOK, GoTo, Life, subVars, shared
<1>1. CASE Subscribe(s) BY <1>1 DEF Subscribe
<1>2. CASE FetchInitialStreams(s) BY <1>2 DEF FetchInitialStreams
<1>3. CASE EvaluateInitial(s) BY <1>3 DEF EvaluateInitial
<1>4. CASE Register(s) BY <1>4 DEF Register
<1>5. CASE JoinRead(s) BY <1>5 DEF JoinRead
<1>6. CASE JoinWrite(s) BY <1>6 DEF JoinWrite
<1>7. CASE Attach(s) BY <1>7 DEF Attach
<1>8. CASE AttachDone(s) BY <1>8 DEF AttachDone
<1>9. CASE SendInitial(s)
  <2>1. /\ obj[s] \in Subs
        /\ chan' = [chan EXCEPT ![s] =
                      Append(@, [init |-> TRUE, streams |-> initial[obj[s]]])]
    BY <1>9 DEF SendInitial, Locals
  <2>2. initial[obj[s]] \in SUBSET UUIDs
    BY <2>1
  <2> QED BY <1>9, <2>1, <2>2 DEF SendInitial
<1>10. CASE Leave(s) BY <1>10 DEF Leave
<1>11. CASE RemoveLookup(s) BY <1>11 DEF RemoveLookup
<1>12. CASE RemoveFromStreams(s) BY <1>12 DEF RemoveFromStreams
<1>13. CASE RemoveRead(s) BY <1>13 DEF RemoveRead
<1>14. CASE RemoveWrite(s) BY <1>14 DEF RemoveWrite
<1> QED
  BY <1>1, <1>2, <1>3, <1>4, <1>5, <1>6, <1>7, <1>8, <1>9, <1>10, <1>11, <1>12, <1>13, <1>14
  DEF SubNext

(* Nobody who is known becomes unknown. *)
LEMMA KnownGrows == TypeInv /\ [Next]_vars => Known \subseteq Known'
<1> SUFFICES ASSUME TypeInv, [Next]_vars PROVE Known \subseteq Known'
  OBVIOUS
<1>1. ASSUME NEW s \in Subs, SubNext(s) PROVE Known \subseteq Known'
  <2> SUFFICES ASSUME NEW t \in Known PROVE t \in Known'
    OBVIOUS
  <2>1. CASE t = s BY <1>1, <2>1, OwnStep DEF Known
  <2>2. CASE t # s
    <3>1. spc'[t] = spc[t] BY <1>1, <2>2, OwnStep DEF Known
    <3> QED BY <3>1 DEF Known, Life
  <2> QED BY <2>1, <2>2
<1>2. ASSUME UNCHANGED spc PROVE Known \subseteq Known'
  BY <1>2 DEF Known, Life
<1>3. ASSUME NEW s \in Subs, Consume(s) \/ Disconnect(s) PROVE UNCHANGED spc
  BY <1>3 DEF Consume, Disconnect
<1>4. ASSUME NEW p \in Pubs, Publish(p) \/ PubStep(p) PROVE UNCHANGED spc
  BY <1>4 DEF Publish, PubStep, Collect, FetchStreams, ChangeUUIDs, Unsubscribe,
     NextAddedStream, AddPair, AddedStreamDone, ReevaluateDone, ForwardMessage, subVars
<1>5. UNCHANGED vars => UNCHANGED spc
  BY DEF vars, subVars
<1>6. Unhandled => UNCHANGED spc
  BY UnhandledDocs, UnhandledRest DEF subVars
<1> QED BY <1>1, <1>2, <1>3, <1>4, <1>5, <1>6 DEF Next, Unhandled

(* Only the known are passed on: a subscriber adds itself, and a publisher *)
(* what a query has; a removal adds nobody.                                *)
LEMMA KnownStep == LifeInv /\ [Next]_vars => LifeInv'
<1> SUFFICES ASSUME LifeInv, [Next]_vars PROVE LifeInv'
  OBVIOUS
<1> USE BrokerAssumption DEF LifeInv, OnlyKnown
<1>1. TypeInv'
  BY TypeSub, TypePub, TypeClient, TypeUnhandled, TypeStutter DEF Next, Unhandled
<1>2. Known \subseteq Known'
  BY KnownGrows
<1>3. (UNCHANGED <<lists, members, snap, remaining>>) => OnlyKnown'
  BY <1>2
<1>4. ASSUME NEW s \in Subs, SubNext(s) PROVE OnlyKnown'
  <2> USE DEF TypeInv, TypeOK, GoTo, subVars, pubVars, shared
  <2>1. CASE JoinRead(s)
    BY <1>2, <2>1 DEF JoinRead, Locals
  <2>2. CASE JoinWrite(s)
    <3>1. s \in Known BY <2>2 DEF JoinWrite, Known, Life
    <3> QED BY <1>2, <2>2, <3>1 DEF JoinWrite, Locals
  <2>3. CASE Attach(s)
    <3>1. s \in Known BY <2>3 DEF Attach, Known, Life
    <3> QED BY <1>2, <2>3, <3>1 DEF Attach
  <2>4. CASE RemoveFromStreams(s)
    BY <1>2, <2>4 DEF RemoveFromStreams
  <2>5. CASE RemoveRead(s)
    BY <1>2, <2>5 DEF RemoveRead, Locals
  <2>6. CASE RemoveWrite(s)
    <3>1. \A p \in Pubs : remaining'[p] \subseteq remaining[p]
      BY <2>6 DEF RemoveWrite, AfterRemoval
    <3>2. /\ members' = [members EXCEPT ![obj[s]] = snap[s] \ {s}]
          /\ snap' = [snap EXCEPT ![s] = {}] /\ UNCHANGED lists
      BY <2>6 DEF RemoveWrite
    <3> QED BY <1>2, <3>1, <3>2
  <2>7. CASE ~(\/ JoinRead(s) \/ JoinWrite(s) \/ Attach(s) \/ RemoveFromStreams(s)
               \/ RemoveRead(s) \/ RemoveWrite(s))
    <3>1. UNCHANGED <<lists, members, snap, remaining>>
      BY <1>4, <2>7 DEF SubNext, Subscribe, FetchInitialStreams, EvaluateInitial, Register,
         AttachDone, SendInitial, Leave, RemoveLookup
    <3> QED BY <1>3, <3>1
  <2> QED BY <2>1, <2>2, <2>3, <2>4, <2>5, <2>6, <2>7
<1>5. ASSUME NEW p \in Pubs, PubStep(p) PROVE OnlyKnown'
  <2> USE DEF TypeInv, TypeOK, PubGoTo, subVars, pubVars, shared
  <2>1. CASE Unsubscribe(p)
    <3>1. \A u \in UUIDs : lists'[u] \subseteq lists[u]
      <4>1. PICK left \in [UUIDs -> SUBSET Subs] :
              /\ \A u \in UUIDs :
                   left[u] \in IF u \in removed[p]
                     THEN Leftovers(SameQuery(u, cur[p]), lists[u] \ SameQuery(u, cur[p]))
                     ELSE {SameQuery(u, cur[p])}
              /\ lists' = [u \in UUIDs |-> (lists[u] \ SameQuery(u, cur[p])) \cup left[u]]
        BY <2>1, Zenon DEF Unsubscribe
      <4>2. ASSUME NEW M, NEW O, NEW L \in Leftovers(M, O) PROVE L \subseteq M
        BY DEF Leftovers
      <4>3. ASSUME NEW u \in UUIDs PROVE left[u] \subseteq lists[u]
        BY <4>1, <4>2 DEF SameQuery
      <4> QED BY <4>1, <4>3
    <3>2. UNCHANGED <<members, snap, remaining>>
      BY <2>1 DEF Unsubscribe
    <3> QED BY <1>2, <3>1, <3>2
  <2>2. CASE NextAddedStream(p)
    BY <1>2, <2>2 DEF NextAddedStream, Locals
  <2>3. CASE AddPair(p)
    BY <1>2, <2>3 DEF AddPair, Locals
  <2>4. CASE ~(Unsubscribe(p) \/ NextAddedStream(p) \/ AddPair(p))
    <3>1. UNCHANGED <<lists, members, snap, remaining>>
      BY <1>5, <2>4 DEF PubStep, Collect, FetchStreams, ChangeUUIDs, AddedStreamDone,
         ReevaluateDone, ForwardMessage
    <3> QED BY <1>3, <3>1
  <2> QED BY <2>1, <2>2, <2>3, <2>4
<1>6. ASSUME NEW p \in Pubs, Publish(p) PROVE OnlyKnown'
  BY <1>3, <1>6 DEF Publish, subVars
<1>7. ASSUME NEW s \in Subs, Consume(s) \/ Disconnect(s) PROVE OnlyKnown'
  BY <1>3, <1>7 DEF Consume, Disconnect, shared, pubVars
<1>8. ASSUME UNCHANGED vars PROVE OnlyKnown'
  BY <1>3, <1>8 DEF vars, shared, subVars, pubVars
<1>9. ASSUME Unhandled PROVE OnlyKnown'
  <2>1. UNCHANGED <<lists, members, snap, remaining>>
    BY <1>9, UnhandledDocs, UnhandledRest DEF subVars, pubVars
  <2> QED BY <1>3, <2>1
<1> QED BY <1>1, <1>4, <1>5, <1>6, <1>7, <1>8, <1>9 DEF Next, Unhandled

(* Every step of the broker is, for every subscriber, a step that          *)
(* SubscriberLife allows, or none.                                         *)
LEMMA LifeStep ==
  LifeInv /\ [Next]_vars =>
    \A s \in Subs : LifeOf(s)!Next \/ UNCHANGED LifeOf(s)!vars
<1> SUFFICES ASSUME LifeInv, [Next]_vars, NEW s \in Subs
             PROVE  LifeOf(s)!Next \/ UNCHANGED LifeOf(s)!vars
  OBVIOUS
<1> DEFINE queue == QueueOf(chan[s])
<1>1. TypeInv /\ chan[s] \in Seq(Item)
  BY DEF LifeInv, TypeInv, TypeOK
<1>2. Len(queue) = Len(chan[s])
  BY <1>1, QueueSteps
<1>3. (chan'[s] = chan[s] /\ spc'[s] = spc[s] /\ gone' = gone) => UNCHANGED LifeOf(s)!vars
  BY DEF LifeOf!vars, Life
<1>4. ASSUME SubNext(s) PROVE LifeOf(s)!Next \/ UNCHANGED LifeOf(s)!vars
  <2>1. gone' = gone
    BY <1>1, <1>4, OwnStep
  <2>2. CASE chan'[s] = chan[s] /\ Life(s)' = Life(s)
    BY <2>1, <2>2 DEF LifeOf!vars
  <2>3. CASE /\ chan'[s] = chan[s]
             /\ Life(s) = "out" /\ Life(s)' \in {"joining", "sending"}
    <3>1. LifeOf(s)!Begin BY <2>1, <2>3 DEF LifeOf!Begin
    <3> QED BY <3>1 DEF LifeOf!Next
  <2>4. CASE /\ chan'[s] = chan[s]
             /\ Life(s) = "joining" /\ Life(s)' \in {"sending", "failed"}
    <3>1. LifeOf(s)!Created BY <2>1, <2>4 DEF LifeOf!Created
    <3> QED BY <3>1 DEF LifeOf!Next
  <2>5. CASE /\ \E q \in SUBSET UUIDs :
                  chan'[s] = Append(chan[s], [init |-> TRUE, streams |-> q])
             /\ Len(chan[s]) < Cap
             /\ Life(s) = "sending" /\ Life(s)' = "waiting"
    <3>1. PICK q \in SUBSET UUIDs :
            chan'[s] = Append(chan[s], [init |-> TRUE, streams |-> q])
      BY <2>5
    <3>2. QueueOf(chan'[s]) = Append(queue, "initial")
      <4>1. [init |-> TRUE, streams |-> q] \in Item BY DEF Item
      <4> QED BY <1>1, <3>1, <4>1, QueueSteps
    <3>3. LifeOf(s)!SendInitial
      BY <1>2, <2>1, <2>5, <3>2 DEF LifeOf!SendInitial, LifeOf!Put, QueueOf
    <3> QED BY <3>3 DEF LifeOf!Next
  <2>6. CASE /\ chan'[s] = chan[s] /\ s \in gone
             /\ Life(s) = "waiting" /\ Life(s)' = "removing"
    <3>1. LifeOf(s)!Notice BY <2>1, <2>6 DEF LifeOf!Notice
    <3> QED BY <3>1 DEF LifeOf!Next
  <2>7. CASE /\ chan'[s] = chan[s]
             /\ Life(s) = "removing" /\ Life(s)' = "done"
    <3>1. LifeOf(s)!Removed BY <2>1, <2>7 DEF LifeOf!Removed
    <3> QED BY <3>1 DEF LifeOf!Next
  <2> QED BY <1>1, <1>4, <2>2, <2>3, <2>4, <2>5, <2>6, <2>7, OwnStep
<1>5. ASSUME NEW t \in Subs, t # s, SubNext(t) PROVE UNCHANGED LifeOf(s)!vars
  BY <1>1, <1>3, <1>5, OwnStep
<1>6. ASSUME NEW t \in Subs, Consume(t) PROVE LifeOf(s)!Next \/ UNCHANGED LifeOf(s)!vars
  <2>1. UNCHANGED <<spc, gone>>
    BY <1>6 DEF Consume
  <2>2. CASE t = s
    <3>1. chan[s] # <<>> /\ chan'[s] = Tail(chan[s])
      BY <1>1, <1>6, <2>2 DEF Consume, TypeInv, TypeOK
    <3>2. queue # <<>> /\ QueueOf(chan'[s]) = Tail(queue)
      BY <1>1, <3>1, QueueSteps
    <3>3. LifeOf(s)!Take
      BY <2>1, <3>2 DEF LifeOf!Take, QueueOf, Life
    <3> QED BY <3>3 DEF LifeOf!Next
  <2>3. CASE t # s
    <3>1. chan'[s] = chan[s]
      BY <1>1, <1>6, <2>3 DEF Consume, TypeInv, TypeOK
    <3> QED BY <1>3, <2>1, <3>1
  <2> QED BY <2>2, <2>3
<1>7. ASSUME NEW t \in Subs, Disconnect(t) PROVE LifeOf(s)!Next \/ UNCHANGED LifeOf(s)!vars
  <2>1. UNCHANGED <<spc, chan>> /\ spc[t] # "idle" /\ t \notin gone /\ gone' = gone \cup {t}
    BY <1>7 DEF Disconnect
  <2>2. CASE t = s
    <3>1. Life(s) # "out"
      BY <1>1, <2>1, <2>2 DEF Life, TypeInv, TypeOK, SubStates
    <3>2. LifeOf(s)!Depart
      BY <2>1, <2>2, <3>1 DEF LifeOf!Depart, Life
    <3> QED BY <3>2 DEF LifeOf!Next
  <2>3. CASE t # s
    BY <2>1, <2>3 DEF LifeOf!vars, Life
  <2> QED BY <2>2, <2>3
<1>8. ASSUME NEW p \in Pubs, ForwardMessage(p)
      PROVE  LifeOf(s)!Next \/ UNCHANGED LifeOf(s)!vars
  <2>1. UNCHANGED <<spc, gone>>
    BY <1>8 DEF ForwardMessage
  <2>2. msg[p].uuid \in UUIDs
    BY <1>1, <1>8, BrokerAssumption DEF ForwardMessage, TypeInv, Locals
  <2>3. CASE s \in lists[msg[p].uuid] /\ Len(chan[s]) < Cap
    <3>1. chan'[s] = Append(chan[s], Update(msg[p].uuid))
      BY <1>8, <2>3 DEF ForwardMessage
    <3>2. QueueOf(chan'[s]) = Append(queue, "update")
      <4>1. Update(msg[p].uuid) \in Item /\ Update(msg[p].uuid).init = FALSE
        BY <2>2 DEF Item, Update
      <4> QED BY <1>1, <3>1, <4>1, QueueSteps
    <3>3. s \in Known
      BY <2>2, <2>3 DEF LifeInv, OnlyKnown
    <3>4. LifeOf(s)!Update
      BY <1>2, <2>1, <2>3, <3>2, <3>3
      DEF LifeOf!Update, LifeOf!Put, LifeOf!Listed, QueueOf, Known, Life
    <3> QED BY <3>4 DEF LifeOf!Next
  <2>4. CASE ~(s \in lists[msg[p].uuid] /\ Len(chan[s]) < Cap)
    <3>1. chan'[s] = chan[s]
      BY <1>8, <2>4 DEF ForwardMessage
    <3> QED BY <1>3, <2>1, <3>1
  <2> QED BY <2>3, <2>4
<1>9. ASSUME NEW p \in Pubs, Publish(p) \/ PubStep(p), ~ForwardMessage(p)
      PROVE  UNCHANGED LifeOf(s)!vars
  <2>1. UNCHANGED <<spc, chan, gone>>
    BY <1>9 DEF Publish, PubStep, Collect, FetchStreams, ChangeUUIDs, Unsubscribe,
       NextAddedStream, AddPair, AddedStreamDone, ReevaluateDone, subVars
  <2> QED BY <1>3, <2>1
<1>10. ASSUME UNCHANGED vars PROVE UNCHANGED LifeOf(s)!vars
  BY <1>3, <1>10 DEF vars, subVars
<1>11. ASSUME Unhandled PROVE UNCHANGED LifeOf(s)!vars
  <2>1. UNCHANGED <<spc, chan, gone>>
    BY <1>1, <1>11, UnhandledDocs, UnhandledRest DEF subVars
  <2> QED BY <1>3, <2>1
<1> QED BY <1>4, <1>5, <1>6, <1>7, <1>8, <1>9, <1>10, <1>11 DEF Next, Unhandled

(* In every behaviour, and for every subscriber, the broker sends one      *)
(* initial result, queues nothing before the query is there or after it    *)
(* has failed, and removes nobody who has not left.                        *)
THEOREM BrokerImplementsLife == Spec => BrokerKeepsThePromise
<1>1. Init => LifeInv /\ \A s \in Subs : LifeOf(s)!Init
  BY LifeInit
<1>2. LifeInv /\ [Next]_vars => LifeInv'
  BY KnownStep
<1>3. LifeInv /\ [Next]_vars =>
        [\A s \in Subs : LifeOf(s)!Next \/ UNCHANGED LifeOf(s)!vars]_vars
  BY LifeStep
<1> QED BY <1>1, <1>2, <1>3, PTL DEF Spec, BrokerKeepsThePromise

-----------------------------------------------------------------------------
(* When calls do not overlap (SerialSpec). *)

(* What holds of the broker however calls overlap. *)
BaseInv == StreamInv /\ LifeInv /\ IndexInv

LEMMA BaseInit == Init => BaseInv
<1>1. Init => IndexInv
  BY LocalsInit DEF IndexInv, IndexedIsRegistered, Init
<1> QED
  BY <1>1, StreamInit, LifeInit DEF BaseInv

LEMMA BaseStep == BaseInv /\ [Next]_vars => BaseInv'
<1>1. StreamInv /\ [Next]_vars => StreamInv'
  BY StreamSub, StreamPub, StreamPublish, StreamClient, StreamUnhandled, StreamStutter
  DEF Next, Unhandled
<1> QED
  BY <1>1, KnownStep, IndexStep DEF BaseInv

-----------------------------------------------------------------------------
(* One call at a time. *)

AtWork(s) == spc[s] \notin Resting

OneCall ==
  /\ \A s, t \in Subs : AtWork(s) /\ AtWork(t) => s = t
  /\ \A p, r \in Pubs : ppc[p] # "idle" /\ ppc[r] # "idle" => p = r
  /\ \A s \in Subs, p \in Pubs : AtWork(s) => ppc[p] = "idle"

PubsIdle == \A p \in Pubs : ppc[p] = "idle"

(* While a subscriber's goroutine takes a step, all others rest. *)
LEMMA SubAlone ==
  ASSUME TypeInv, OneCall, SerialNext, NEW s \in Subs, SubNext(s)
  PROVE  /\ \A t \in Subs : t # s => /\ spc[t] \in Resting /\ spc'[t] = spc[t]
                                     /\ obj'[t] = obj[t]
         /\ PubsIdle /\ PubsIdle' /\ OneCall'
         /\ spc'[s] # "idle"
<1> USE DEF TypeInv, TypeOK, GoTo
<1>1. /\ \A t \in Subs : t # s => spc'[t] = spc[t] /\ obj'[t] = obj[t]
      /\ ppc' = ppc
  BY DEF SubNext, Subscribe, FetchInitialStreams, EvaluateInitial, Register, JoinRead, JoinWrite,
         Attach, AttachDone, SendInitial, Leave, RemoveLookup, RemoveFromStreams, RemoveRead,
         RemoveWrite, pubVars
<1>2. spc'[s] # "idle" /\ (~AtWork(s) => AtWork(s)')
  BY DEF SubNext, Subscribe, FetchInitialStreams, EvaluateInitial, Register, JoinRead, JoinWrite,
         Attach, AttachDone, SendInitial, Leave, RemoveLookup, RemoveFromStreams, RemoveRead,
         RemoveWrite, AtWork, Resting
<1>3. (\A t \in Subs : t # s => spc[t] \in Resting) /\ PubsIdle
  <2>1. CASE AtWork(s)
    BY <2>1 DEF OneCall, AtWork, PubsIdle
  <2>2. CASE ~AtWork(s)
    <3>1. Starting
      BY <1>2, <2>2 DEF Starting, AtWork
    <3> QED
      BY <3>1 DEF SerialNext, Quiet, PubsIdle
  <2> QED
    BY <2>1, <2>2
<1>4. PubsIdle' /\ OneCall'
  BY <1>1, <1>3 DEF PubsIdle, OneCall, AtWork
<1> QED
  BY <1>1, <1>2, <1>3, <1>4

(* While a publisher's goroutine takes a step, all others rest. *)
LEMMA PubAlone ==
  ASSUME TypeInv, OneCall, SerialNext, NEW p \in Pubs, Publish(p) \/ PubStep(p)
  PROVE  /\ \A s \in Subs : spc[s] \in Resting
         /\ \A r \in Pubs : r # p => ppc[r] = "idle" /\ ppc'[r] = "idle"
         /\ UNCHANGED <<spc, obj, reg, index, members, snap>> /\ OneCall'
<1> USE DEF TypeInv, TypeOK, PubGoTo
<1>1. /\ \A r \in Pubs : r # p => ppc'[r] = ppc[r]
      /\ UNCHANGED <<spc, obj, reg, index, members, snap>>
  BY DEF Publish, PubStep, Collect, FetchStreams, ChangeUUIDs, Unsubscribe, NextAddedStream,
         AddPair, AddedStreamDone, ReevaluateDone, ForwardMessage, subVars, shared
<1>3. (\A s \in Subs : spc[s] \in Resting) /\ \A r \in Pubs : r # p => ppc[r] = "idle"
  <2>1. CASE ppc[p] # "idle"
    BY <2>1 DEF OneCall, AtWork
  <2>2. CASE ppc[p] = "idle"
    <3>1. Publish(p)
      BY <2>2 DEF PubStep, Collect, FetchStreams, ChangeUUIDs, Unsubscribe, NextAddedStream,
         AddPair, AddedStreamDone, ReevaluateDone, ForwardMessage
    <3>2. published' # published
      BY <3>1 DEF Publish
    <3> QED
      BY <3>2 DEF SerialNext, Starting, Quiet
  <2> QED
    BY <2>1, <2>2
<1>4. OneCall'
  BY <1>1, <1>3 DEF OneCall, AtWork
<1> QED
  BY <1>1, <1>3, <1>4

-----------------------------------------------------------------------------
(* The inductive invariant. *)

Creating == {"fetch", "evaluate", "register"}
Holding  == {"joinread", "joinwrite", "attach", "sendinitial", "waiting"}
Removing == {"rmlookup", "rmstreams", "rmread", "rmwrite"}

(* A subscriber creates the object of its query or shares the registered   *)
(* one; once it has joined it is a member of it.                           *)
JoinerOK(s) ==
  /\ spc[s] # "failed"
  /\ spc[s] \in Creating => obj[s] = s /\ reg[QueryOf[s]] = None
  /\ spc[s] \in {"evaluate", "register"} => streams[s] = Matching(QueryOf[s])
  /\ spc[s] \in Holding \cup Removing => reg[QueryOf[s]] = obj[s]
  /\ spc[s] \in {"joinwrite", "rmwrite"} => snap[s] = members[obj[s]]
  /\ spc[s] \in {"attach", "sendinitial", "waiting"} \cup Removing => s \in members[obj[s]]
  /\ spc[s] = "attach" => \A u \in streams[obj[s]] : s \in lists[u] \/ u \in pending[s]

(* The object is in the index under all keys of its query. *)
Live(o) == reg[QueryOf[o]] = o /\ \A k \in KeysOf[QueryOf[o]] : o \in index[k]

Sole(s) == \A t \in Subs \ {s} : QueryOf[t] = QueryOf[s] => spc[t] = "idle"

(* The object agrees with the store, but for what it has not been told. *)
Follows(o) == streams[o] \ behind[QueryOf[o]] = Matching(QueryOf[o]) \ behind[QueryOf[o]]

(* While no message is being handled, objects and lists are up to date.    *)
ObjectsFollow == \A o \in Subs : Live(o) => Follows(o)

IsListed(s) ==
  spc[s] \in {"sendinitial", "waiting"} => \A u \in streams[obj[s]] : s \in lists[u]

IsListedOnly(s) ==
  Sole(s) /\ spc[s] \in Holding => \A u \in UUIDs : s \in lists[u] => u \in streams[obj[s]]

Settled == ObjectsFollow /\ \A s \in Subs : IsListed(s) /\ IsListedOnly(s)

(* While p handles a message, what it still owes each object, and each     *)
(* client, is what they lack. *)
InQuery == {"change", "unsubscribe", "resubscribe", "addpair"}
Adding  == {"unsubscribe", "resubscribe", "addpair"}

InTurn(p) ==
  /\ ppc[p] # "collect" => \A o \in todo[p] : reg[QueryOf[o]] = o
  /\ ppc[p] \in InQuery => reg[QueryOf[cur[p]]] = cur[p]
  /\ ppc[p] = "change" => fetched[p] = Matching(QueryOf[cur[p]])
  /\ ppc[p] = "unsubscribe" => removed[p] \cap streams[cur[p]] = {}
  /\ ppc[p] \in Adding => added[p] \subseteq streams[cur[p]]
  /\ ppc[p] = "addpair" => stream[p] \in streams[cur[p]]

Owes(p, o) ==
  \/ ppc[p] = "collect" /\ \E k \in KeysOf[QueryOf[o]] : k \in Touched(msg[p])
  \/ ppc[p] # "collect" /\ o \in todo[p]
  \/ ppc[p] = "change" /\ cur[p] = o

WillAdd(p, s, u) ==
  /\ cur[p] = obj[s]
  /\ \/ ppc[p] \in Adding /\ u \in added[p]
     \/ ppc[p] = "addpair" /\ u = stream[p] /\ s \in remaining[p]

WillRemove(p, s, u) == ppc[p] = "unsubscribe" /\ cur[p] = obj[s] /\ u \in removed[p]

OwedObjects(p) ==
  \A o \in Subs : Live(o) => Follows(o) \/ Owes(p, o)

OwedAdditions(p) ==
  \A s \in Subs : spc[s] = "waiting" =>
    \A u \in streams[obj[s]] : s \in lists[u] \/ WillAdd(p, s, u)

OwedRemovals(p) ==
  \A s \in Subs : Sole(s) /\ spc[s] = "waiting" =>
    \A u \in UUIDs : s \in lists[u] => u \in streams[obj[s]] \/ WillRemove(p, s, u)

Reevaluating(p) == InTurn(p) /\ OwedObjects(p) /\ OwedAdditions(p) /\ OwedRemovals(p)

Serially ==
  /\ OneCall
  /\ \A s \in Subs : JoinerOK(s)
  /\ PubsIdle => Settled
  /\ \A p \in Pubs : ppc[p] # "idle" => Reevaluating(p)

SerialInv == BaseInv /\ Serially

LEMMA SerialInit == Init => SerialInv
<1> SUFFICES ASSUME Init PROVE Serially
  BY BaseInit DEF SerialInv
<1> USE BrokerAssumption
<1>1. \A s \in Subs : spc[s] = "idle" /\ reg[QueryOf[s]] # s
  BY DEF Init
<1>2. \A p \in Pubs : ppc[p] = "idle"
  BY DEF Init
<1>3. OneCall
  BY <1>1, <1>2 DEF OneCall, AtWork, Resting
<1>4. \A s \in Subs : JoinerOK(s)
  BY <1>1 DEF JoinerOK, Creating, Holding, Removing
<1>5. Settled
  BY <1>1 DEF Settled, ObjectsFollow, Live, IsListed, IsListedOnly, Holding
<1> QED
  BY <1>2, <1>3, <1>4, <1>5 DEF Serially

-----------------------------------------------------------------------------
(* Steps of a subscriber.                                                  *)

(* What a step of s leaves of the others. *)
OthersKept(s) ==
  /\ \A t \in Subs : t # s => /\ spc[t] \in Resting /\ spc'[t] = spc[t]
                              /\ obj'[t] = obj[t]
  /\ \A q \in Queries : reg[q] # None => reg'[q] = reg[q]
  /\ \A t \in Subs : t # s => \A o \in Subs : t \in members[o] => t \in members'[o]

LEMMA JoinersStep ==
  ASSUME \A t \in Subs : JoinerOK(t), NEW s \in Subs, TypeInv, OthersKept(s), JoinerOK(s)'
  PROVE  \A t \in Subs : JoinerOK(t)'
<1> SUFFICES ASSUME NEW t \in Subs, t # s PROVE JoinerOK(t)'
  OBVIOUS
<1>1. /\ spc[t] \in {"idle", "waiting", "done"} /\ spc'[t] = spc[t] /\ obj'[t] = obj[t]
  BY DEF OthersKept, JoinerOK, Resting
<1>2. CASE spc[t] = "waiting"
  <2>1. reg[QueryOf[t]] = obj[t] /\ t \in members[obj[t]] /\ obj[t] \in Subs
    BY <1>2 DEF JoinerOK, Holding, TypeInv, Locals
  <2>2. reg'[QueryOf[t]] = obj[t] /\ t \in members'[obj[t]]
    BY <2>1, BrokerAssumption DEF OthersKept
  <2> QED
    BY <1>1, <1>2, <2>2 DEF JoinerOK, Creating, Holding, Removing
<1>3. CASE spc[t] # "waiting"
  BY <1>1, <1>3 DEF JoinerOK, Creating, Holding, Removing
<1> QED
  BY <1>2, <1>3

ListsKept(s) ==
  \A u \in UUIDs, t \in Subs : t # s => (t \in lists'[u] <=> t \in lists[u])

StreamsKept(s) ==
  \A t \in Subs : t # s /\ spc[t] = "waiting" => streams'[obj[t]] = streams[obj[t]]

LEMMA SettledStep ==
  ASSUME \A t \in Subs : JoinerOK(t), Settled, NEW s \in Subs, TypeInv,
         OthersKept(s), ListsKept(s), StreamsKept(s), spc'[s] # "idle",
         ObjectsFollow', IsListed(s)', IsListedOnly(s)'
  PROVE  Settled'
<1> SUFFICES ASSUME NEW t \in Subs, t # s PROVE IsListed(t)' /\ IsListedOnly(t)'
  BY DEF Settled
<1>1. /\ spc[t] \in {"idle", "waiting", "done"} /\ spc'[t] = spc[t] /\ obj'[t] = obj[t]
  BY DEF OthersKept, JoinerOK, Resting
<1>2. CASE spc[t] = "waiting"
  <2>1. obj[t] \in Subs /\ streams'[obj[t]] = streams[obj[t]] /\ streams[obj[t]] \in SUBSET UUIDs
    BY <1>2 DEF StreamsKept, TypeInv, TypeOK, Locals
  <2>2. \A u \in UUIDs : t \in lists'[u] <=> t \in lists[u]
    BY DEF ListsKept
  <2>3. Sole(t)' => Sole(t)
    <3> SUFFICES ASSUME Sole(t)', NEW r \in Subs \ {t}, QueryOf[r] = QueryOf[t]
                 PROVE  spc[r] = "idle"
      BY DEF Sole
    <3>1. spc'[r] = "idle"
      BY DEF Sole
    <3> QED
      BY <3>1 DEF OthersKept
  <2>4. IsListed(t) /\ IsListedOnly(t)
    BY DEF Settled
  <2>5. IsListed(t)'
    BY <1>1, <1>2, <2>1, <2>2, <2>4 DEF IsListed
  <2>6. IsListedOnly(t)'
    BY <1>1, <1>2, <2>1, <2>2, <2>3, <2>4 DEF IsListedOnly, Holding
  <2> QED
    BY <2>5, <2>6
<1>3. CASE spc[t] # "waiting"
  BY <1>1, <1>3 DEF IsListed, IsListedOnly, Holding
<1> QED
  BY <1>2, <1>3

(* What the action of each step has to show. *)
Pieces(s) ==
  /\ OthersKept(s) /\ ListsKept(s) /\ StreamsKept(s)
  /\ JoinerOK(s)' /\ ObjectsFollow' /\ IsListed(s)' /\ IsListedOnly(s)'

Alone(s) ==
  /\ \A t \in Subs : t # s => /\ spc[t] \in Resting /\ spc'[t] = spc[t]
                              /\ obj'[t] = obj[t]
  /\ PubsIdle

(* Who is not known to the broker is on no list. *)
LEMMA NotYetListed ==
  ASSUME BaseInv, NEW s \in Subs, spc[s] \in {"idle", "fetch", "evaluate", "register"}
  PROVE  \A u \in UUIDs : s \notin lists[u]
<1>1. s \notin Known
  BY DEF Known, Life
<1> QED
  BY <1>1 DEF BaseInv, LifeInv, OnlyKnown

LEMMA StaysPut ==
  ASSUME NEW s \in Subs, Alone(s), Settled, UNCHANGED <<store, behind, reg, index, lists, streams, members>>
  PROVE  OthersKept(s) /\ ListsKept(s) /\ StreamsKept(s) /\ ObjectsFollow'
BY DEF Alone, Settled, OthersKept, ListsKept, StreamsKept, ObjectsFollow, Live, Follows, Matching

LEMMA PlacePieces ==
  ASSUME StoreFails = FALSE, SerialInv, Settled, NEW s \in Subs, Alone(s),
         \/ Subscribe(s) \/ EvaluateInitial(s) \/ JoinRead(s) \/ AttachDone(s) \/ SendInitial(s)
         \/ Leave(s) \/ RemoveLookup(s) \/ RemoveRead(s)
  PROVE  Pieces(s)
<1> USE BrokerAssumption
<1>0. /\ TypeInv /\ JoinerOK(s) /\ IsListed(s) /\ IsListedOnly(s)
      /\ QueryOf[s] \in Queries /\ reg[QueryOf[s]] \in Subs \cup {None}
  BY DEF SerialInv, Serially, Settled, BaseInv, StreamInv, TypeInv, TypeOK
<1>1. UNCHANGED <<store, behind, reg, index, lists, streams, members>>
  BY DEF Subscribe, EvaluateInitial, JoinRead, AttachDone, SendInitial, Leave, RemoveLookup,
         RemoveRead, shared
<1>2. OthersKept(s) /\ ListsKept(s) /\ StreamsKept(s) /\ ObjectsFollow'
  BY <1>1, StaysPut
<1>3. Sole(s)' = Sole(s)
  BY DEF Sole, Alone
<1> USE DEF GoTo, TypeInv, TypeOK, Creating, Holding, Removing
<1>4. CASE Subscribe(s)
  <2>1. \A u \in UUIDs : s \notin lists[u]
    BY <1>4, NotYetListed DEF Subscribe, SerialInv
  <2>2. CASE reg[QueryOf[s]] # None
    <3>1. obj'[s] = reg[QueryOf[s]] /\ spc'[s] = "joinread"
      BY <1>0, <1>4, <2>2 DEF Subscribe
    <3> QED
      BY <1>1, <1>2, <2>1, <3>1 DEF Pieces, JoinerOK, IsListed, IsListedOnly
  <2>3. CASE reg[QueryOf[s]] = None
    <3>1. obj'[s] = s /\ spc'[s] = "fetch"
      BY <1>0, <1>4, <2>3 DEF Subscribe
    <3> QED
      BY <1>1, <1>2, <2>3, <3>1 DEF Pieces, JoinerOK, IsListed, IsListedOnly
  <2> QED
    BY <2>2, <2>3
<1>5. CASE EvaluateInitial(s)
  <2>1. spc[s] = "evaluate" /\ spc'[s] = "register" /\ obj' = obj
    BY <1>0, <1>5 DEF EvaluateInitial
  <2> QED
    BY <1>0, <1>1, <1>2, <2>1 DEF Pieces, JoinerOK, IsListed, IsListedOnly, Matching
<1>6. CASE JoinRead(s)
  <2>1. /\ spc[s] = "joinread" /\ spc'[s] = "joinwrite" /\ obj' = obj
        /\ snap'[s] = members[obj[s]]
    BY <1>0, <1>6 DEF JoinRead
  <2> QED
    BY <1>0, <1>1, <1>2, <1>3, <2>1 DEF Pieces, JoinerOK, IsListed, IsListedOnly
<1>7. CASE AttachDone(s)
  <2>1. /\ spc[s] = "attach" /\ spc'[s] = "sendinitial" /\ obj' = obj
        /\ \A u \in streams[obj[s]] : u \notin pending[s]
    BY <1>0, <1>7 DEF AttachDone
  <2> QED
    BY <1>0, <1>1, <1>2, <1>3, <2>1 DEF Pieces, JoinerOK, IsListed, IsListedOnly
<1>8. CASE SendInitial(s)
  <2>1. spc[s] = "sendinitial" /\ spc'[s] = "waiting" /\ obj' = obj
    BY <1>0, <1>8 DEF SendInitial
  <2> QED
    BY <1>0, <1>1, <1>2, <1>3, <2>1 DEF Pieces, JoinerOK, IsListed, IsListedOnly
<1>9. CASE Leave(s)
  <2>1. spc[s] = "waiting" /\ spc'[s] = "rmlookup" /\ obj' = obj
    BY <1>0, <1>9 DEF Leave
  <2> QED
    BY <1>0, <1>1, <1>2, <2>1 DEF Pieces, JoinerOK, IsListed, IsListedOnly
<1>10. CASE RemoveLookup(s)
  <2>1. spc[s] = "rmlookup" /\ reg[QueryOf[s]] = obj[s] /\ spc'[s] \in {"rmstreams", "done"}
    BY <1>0, <1>10 DEF RemoveLookup, JoinerOK
  <2>2. obj'[s] = obj[s]
    BY <1>0, <1>10, <2>1 DEF RemoveLookup
  <2> QED
    BY <1>0, <1>1, <1>2, <2>1, <2>2 DEF Pieces, JoinerOK, IsListed, IsListedOnly
<1>11. CASE RemoveRead(s)
  <2>1. /\ spc[s] = "rmread" /\ spc'[s] = "rmwrite" /\ obj' = obj
        /\ snap'[s] = members[obj[s]]
    BY <1>0, <1>11 DEF RemoveRead
  <2> QED
    BY <1>0, <1>1, <1>2, <2>1 DEF Pieces, JoinerOK, IsListed, IsListedOnly
<1> QED
  BY <1>4, <1>5, <1>6, <1>7, <1>8, <1>9, <1>10, <1>11

(* Nobody shares an object that is not registered. *)
LEMMA FetchPieces ==
  ASSUME StoreFails = FALSE, SerialInv, Settled, NEW s \in Subs, Alone(s), FetchInitialStreams(s)
  PROVE  Pieces(s)
<1> USE BrokerAssumption
<1>0. /\ TypeInv /\ \A t \in Subs : JoinerOK(t)
      /\ ObjectsFollow
  BY DEF SerialInv, Serially, Settled, BaseInv, StreamInv
<1>1. /\ spc[s] = "fetch" /\ spc' = [spc EXCEPT ![s] = "evaluate"]
      /\ streams' = [streams EXCEPT ![s] = Matching(QueryOf[s])]
      /\ behind' = [behind EXCEPT ![QueryOf[s]] = {}]
      /\ UNCHANGED <<store, reg, index, lists, members, obj>>
  BY DEF FetchInitialStreams, GoTo
<1>2. /\ spc'[s] = "evaluate" /\ streams'[s] = Matching(QueryOf[s])
      /\ \A o \in Subs : o # s => streams'[o] = streams[o]
  BY <1>0, <1>1 DEF TypeInv, TypeOK
<1>3. obj[s] = s /\ reg[QueryOf[s]] = None
  BY <1>0, <1>1 DEF JoinerOK, Creating
<1>4. OthersKept(s) /\ ListsKept(s)
  BY <1>1 DEF Alone, OthersKept, ListsKept
<1>5. StreamsKept(s)
  <2> SUFFICES ASSUME NEW t \in Subs, spc[t] = "waiting" PROVE streams'[obj[t]] = streams[obj[t]]
    BY DEF StreamsKept
  <2>1. obj[t] = reg[QueryOf[t]] /\ obj[t] \in Subs
    BY <1>0 DEF JoinerOK, Holding, TypeInv, Locals
  <2>2. QueryOf[reg[QueryOf[t]]] = QueryOf[t]
    BY <1>0, <2>1 DEF SerialInv, BaseInv, StreamInv, Provenance
  <2>3. obj[t] # s
    BY <1>3, <2>1, <2>2
  <2> QED
    BY <1>2, <2>1, <2>3
<1>6. ObjectsFollow'
  <2> SUFFICES ASSUME NEW o \in Subs, Live(o)' PROVE Follows(o)'
    BY DEF ObjectsFollow
  <2>1. reg[QueryOf[o]] = o /\ Live(o)
    BY <1>1 DEF Live
  <2>2. QueryOf[o] # QueryOf[s] /\ o # s
    BY <1>3, <2>1
  <2>3. streams'[o] = streams[o] /\ behind'[QueryOf[o]] = behind[QueryOf[o]]
    BY <1>0, <1>1, <1>2, <2>2 DEF TypeInv, TypeOK
  <2> QED
    BY <1>0, <1>1, <2>1, <2>3 DEF ObjectsFollow, Follows, Matching
<1>7. JoinerOK(s)' /\ IsListed(s)' /\ IsListedOnly(s)'
  BY <1>1, <1>2, <1>3 DEF JoinerOK, IsListed, IsListedOnly, Creating, Holding, Removing, Matching
<1> QED
  BY <1>4, <1>5, <1>6, <1>7 DEF Pieces

(* What is registered has just been fetched. *)
LEMMA RegisterPieces ==
  ASSUME StoreFails = FALSE, SerialInv, Settled, NEW s \in Subs, Alone(s), Register(s)
  PROVE  Pieces(s)
<1> USE BrokerAssumption
<1>0. TypeInv /\ JoinerOK(s) /\ ObjectsFollow
  BY DEF SerialInv, Serially, Settled, BaseInv, StreamInv
<1>1. /\ spc[s] = "register" /\ obj[s] = s /\ reg[QueryOf[s]] = None
      /\ streams[s] = Matching(QueryOf[s])
  BY <1>0 DEF Register, JoinerOK, Creating
<1>2. /\ reg' = [reg EXCEPT ![QueryOf[s]] = s]
      /\ index' = [k \in Keys |-> IF k \in KeysOf[QueryOf[s]] THEN index[k] \cup {s} ELSE index[k]]
      /\ spc' = [spc EXCEPT ![s] = "joinread"]
      /\ UNCHANGED <<store, behind, lists, streams, members, obj>>
  BY <1>1 DEF Register, GoTo
<1>3. /\ spc'[s] = "joinread" /\ reg'[QueryOf[s]] = s
      /\ \A q \in Queries : q # QueryOf[s] => reg'[q] = reg[q]
  BY <1>0, <1>2 DEF TypeInv, TypeOK
<1>4. OthersKept(s)
  <2>1. \A q \in Queries : reg[q] # None => reg'[q] = reg[q]
    BY <1>1, <1>3
  <2> QED
    BY <1>2, <2>1 DEF Alone, OthersKept
<1>5. ListsKept(s) /\ StreamsKept(s)
  BY <1>2 DEF ListsKept, StreamsKept
<1>6. ObjectsFollow'
  <2> SUFFICES ASSUME NEW o \in Subs, Live(o)' PROVE Follows(o)
    BY <1>2 DEF ObjectsFollow, Follows, Matching
  <2>1. CASE o = s
    BY <1>1, <2>1 DEF Follows
  <2>2. CASE o # s
    <3>1. QueryOf[o] # QueryOf[s]
      BY <1>3, <2>2 DEF Live
    <3>2. \A k \in KeysOf[QueryOf[o]] : o \in index[k]
      BY <1>2, <2>2 DEF Live
    <3> QED
      BY <1>0, <1>3, <3>1, <3>2 DEF ObjectsFollow, Live
  <2> QED
    BY <2>1, <2>2
<1>7. \A u \in UUIDs : s \notin lists[u]
  BY <1>1, NotYetListed DEF SerialInv
<1>8. JoinerOK(s)' /\ IsListed(s)' /\ IsListedOnly(s)'
  BY <1>1, <1>2, <1>3, <1>7 DEF JoinerOK, IsListed, IsListedOnly, Creating, Holding, Removing
<1> QED
  BY <1>4, <1>5, <1>6, <1>8 DEF Pieces

LEMMA JoinPieces ==
  ASSUME StoreFails = FALSE, SerialInv, Settled, NEW s \in Subs, Alone(s), JoinWrite(s)
  PROVE  Pieces(s)
<1>0. TypeInv /\ JoinerOK(s) /\ ObjectsFollow /\ IsListedOnly(s)
  BY DEF SerialInv, Serially, Settled, BaseInv, StreamInv
<1>1. /\ spc[s] = "joinwrite" /\ spc' = [spc EXCEPT ![s] = "attach"]
      /\ members' = [members EXCEPT ![obj[s]] = snap[s] \cup {s}]
      /\ pending' = [pending EXCEPT ![s] = streams[obj[s]]]
      /\ UNCHANGED <<store, behind, reg, index, lists, streams, obj>>
  BY DEF JoinWrite, GoTo
<1>2. /\ obj[s] \in Subs /\ snap[s] = members[obj[s]] /\ reg[QueryOf[s]] = obj[s]
  BY <1>0, <1>1 DEF JoinerOK, Holding, TypeInv, Locals
<1>3. /\ spc'[s] = "attach" /\ pending'[s] = streams[obj[s]]
      /\ members'[obj[s]] = members[obj[s]] \cup {s}
      /\ \A o \in Subs : members[o] \subseteq members'[o]
  BY <1>0, <1>1, <1>2 DEF TypeInv, TypeOK
<1>4. OthersKept(s) /\ ListsKept(s) /\ StreamsKept(s) /\ ObjectsFollow'
  BY <1>0, <1>1, <1>3 DEF Alone, OthersKept, ListsKept, StreamsKept, ObjectsFollow, Live, Follows, Matching
<1>5. Sole(s)' = Sole(s)
  BY DEF Sole, Alone
<1>6. JoinerOK(s)' /\ IsListed(s)' /\ IsListedOnly(s)'
  BY <1>0, <1>1, <1>2, <1>3, <1>5 DEF JoinerOK, IsListed, IsListedOnly, Creating, Holding, Removing
<1> QED
  BY <1>4, <1>6 DEF Pieces

LEMMA AttachPieces ==
  ASSUME StoreFails = FALSE, SerialInv, Settled, NEW s \in Subs, Alone(s), Attach(s)
  PROVE  Pieces(s)
<1>0. TypeInv /\ JoinerOK(s) /\ ObjectsFollow /\ IsListedOnly(s)
  BY DEF SerialInv, Serially, Settled, BaseInv, StreamInv
<1>1. PICK u \in streams[obj[s]] :
        /\ lists' = [lists EXCEPT ![u] = @ \cup {s}]
        /\ pending' = [pending EXCEPT ![s] = @ \ {u}]
  BY Zenon DEF Attach
<1>2. spc[s] = "attach" /\ UNCHANGED <<store, behind, reg, index, streams, members, spc, obj, snap>>
  BY DEF Attach
<1>3. obj[s] \in Subs /\ u \in UUIDs /\ streams[obj[s]] \in SUBSET UUIDs
  BY <1>0, <1>2 DEF TypeInv, TypeOK, Locals
<1>4. /\ \A v \in UUIDs : lists'[v] = IF v = u THEN lists[v] \cup {s} ELSE lists[v]
      /\ pending'[s] = pending[s] \ {u}
  BY <1>0, <1>1, <1>3 DEF TypeInv, TypeOK
<1>5. OthersKept(s) /\ ListsKept(s) /\ StreamsKept(s) /\ ObjectsFollow'
  BY <1>0, <1>2, <1>4 DEF Alone, OthersKept, ListsKept, StreamsKept, ObjectsFollow, Live, Follows, Matching
<1>6. Sole(s)' = Sole(s)
  BY DEF Sole, Alone
<1>7. JoinerOK(s)'
  BY <1>0, <1>2, <1>3, <1>4 DEF JoinerOK, Creating, Holding, Removing
<1>8. IsListed(s)' /\ IsListedOnly(s)'
  BY <1>0, <1>2, <1>3, <1>4, <1>6 DEF IsListed, IsListedOnly, Holding
<1> QED
  BY <1>5, <1>7, <1>8 DEF Pieces

LEMMA RemovePieces ==
  ASSUME StoreFails = FALSE, SerialInv, Settled, NEW s \in Subs, Alone(s),
         RemoveFromStreams(s) \/ RemoveWrite(s)
  PROVE  Pieces(s)
<1>0. TypeInv /\ JoinerOK(s) /\ ObjectsFollow
  BY DEF SerialInv, Serially, Settled, BaseInv, StreamInv
<1>1. CASE RemoveFromStreams(s)
  <2>1. /\ spc[s] = "rmstreams" /\ spc' = [spc EXCEPT ![s] = "rmread"]
        /\ lists' = [u \in UUIDs |-> IF u \in streams[obj[s]] THEN lists[u] \ {s} ELSE lists[u]]
        /\ UNCHANGED <<store, behind, reg, index, streams, members, obj>>
    BY <1>1 DEF RemoveFromStreams, GoTo
  <2>2. spc'[s] = "rmread"
    BY <1>0, <2>1 DEF TypeInv, TypeOK
  <2>3. OthersKept(s) /\ ListsKept(s) /\ StreamsKept(s) /\ ObjectsFollow'
    BY <1>0, <2>1 DEF Alone, OthersKept, ListsKept, StreamsKept, ObjectsFollow, Live, Follows, Matching
  <2>4. JoinerOK(s)' /\ IsListed(s)' /\ IsListedOnly(s)'
    BY <1>0, <2>1, <2>2 DEF JoinerOK, IsListed, IsListedOnly, Creating, Holding, Removing
  <2> QED
    BY <2>3, <2>4 DEF Pieces
<1>2. CASE RemoveWrite(s)
  <2>1. /\ spc[s] = "rmwrite" /\ spc' = [spc EXCEPT ![s] = "done"]
        /\ members' = [members EXCEPT ![obj[s]] = snap[s] \ {s}]
        /\ \A k \in Keys : index'[k] \subseteq index[k]
        /\ UNCHANGED <<store, behind, reg, lists, streams, obj>>
    BY <1>2 DEF RemoveWrite, GoTo
  <2>2. obj[s] \in Subs /\ snap[s] = members[obj[s]]
    BY <1>0, <2>1 DEF JoinerOK, TypeInv, Locals
  <2>3. spc'[s] = "done" /\ \A o \in Subs : members[o] \ {s} \subseteq members'[o]
    BY <1>0, <2>1, <2>2 DEF TypeInv, TypeOK
  <2>4. OthersKept(s) /\ ListsKept(s) /\ StreamsKept(s)
    BY <2>1, <2>3 DEF Alone, OthersKept, ListsKept, StreamsKept
  <2>5. ObjectsFollow'
    <3>1. \A o \in Subs : Live(o)' => Live(o)
      BY <2>1, BrokerAssumption DEF Live
    <3> QED
      BY <1>0, <2>1, <3>1 DEF ObjectsFollow, Follows, Matching
  <2>6. JoinerOK(s)' /\ IsListed(s)' /\ IsListedOnly(s)'
    BY <2>3 DEF JoinerOK, IsListed, IsListedOnly, Creating, Holding, Removing
  <2> QED
    BY <2>4, <2>5, <2>6 DEF Pieces
<1> QED
  BY <1>1, <1>2

LEMMA SubStep ==
  ASSUME StoreFails = FALSE, SerialInv, SerialNext, NEW s \in Subs, SubNext(s)
  PROVE  Serially'
<1>1. TypeInv /\ OneCall /\ \A t \in Subs : JoinerOK(t)
  BY DEF SerialInv, Serially, BaseInv, StreamInv
<1>2. Alone(s) /\ PubsIdle' /\ OneCall' /\ spc'[s] # "idle"
  BY <1>1, SubAlone DEF Alone
<1>3. Settled
  BY <1>2 DEF Alone, SerialInv, Serially
<1>4. Pieces(s)
  BY <1>2, <1>3, PlacePieces, FetchPieces, RegisterPieces, JoinPieces, AttachPieces, RemovePieces
     DEF SubNext
<1>5. \A t \in Subs : JoinerOK(t)'
  BY <1>1, <1>4, JoinersStep DEF Pieces
<1>6. Settled'
  BY <1>1, <1>2, <1>3, <1>4, SettledStep DEF Pieces
<1> QED
  BY <1>2, <1>5, <1>6 DEF Serially, PubsIdle

-----------------------------------------------------------------------------
(* Steps of a publisher.                                                   *)

(* What holds of the others while p handles a message: nobody moves, and   *)
(* a client that waits holds the object that is registered.                *)
Handling(p) ==
  /\ \A s \in Subs : spc[s] \in {"idle", "waiting", "done"}
  /\ \A r \in Pubs : r # p => ppc[r] = "idle" /\ ppc'[r] = "idle"
  /\ UNCHANGED <<spc, obj, reg, index, members, snap>> /\ OneCall'

Joined(s) ==
  /\ obj[s] \in Subs /\ QueryOf[obj[s]] = QueryOf[s]
  /\ reg[QueryOf[s]] = obj[s] /\ s \in members[obj[s]]

LEMMA WaitingJoined ==
  ASSUME SerialInv
  PROVE  \A s \in Subs : spc[s] = "waiting" => Joined(s)
BY DEF SerialInv, Serially, BaseInv, StreamInv, TypeInv, Locals, Provenance, JoinerOK, Holding,
       Joined

(* A publisher leaves the subscribers where they are. *)
LEMMA JoinersRest ==
  ASSUME NEW p \in Pubs, Handling(p), \A s \in Subs : JoinerOK(s)
  PROVE  \A s \in Subs : JoinerOK(s)'
<1> SUFFICES ASSUME NEW s \in Subs PROVE JoinerOK(s)'
  OBVIOUS
<1>1. spc'[s] = spc[s] /\ spc[s] \in {"idle", "waiting", "done"}
  BY DEF Handling
<1>2. UNCHANGED <<obj, reg, members>>
  BY DEF Handling
<1> QED
  BY <1>1, <1>2 DEF JoinerOK, Creating, Holding, Removing

LEMMA HandlingOn ==
  ASSUME NEW p \in Pubs, Handling(p), \A s \in Subs : JoinerOK(s), ppc'[p] # "idle",
         Reevaluating(p)'
  PROVE  Serially'
<1>1. ~PubsIdle'
  BY DEF PubsIdle
<1>2. OneCall' /\ \A s \in Subs : JoinerOK(s)'
  BY JoinersRest DEF Handling
<1>3. \A r \in Pubs : ppc'[r] # "idle" => r = p
  BY DEF Handling
<1>4. \A r \in Pubs : ppc'[r] # "idle" => Reevaluating(r)'
  BY <1>3
<1> QED
  BY <1>1, <1>2, <1>4 DEF Serially

(* A query whose where clause reads none of the keys that a message sets   *)
(* matches the same streams as before.                                     *)
LEMMA Untouched ==
  ASSUME WhereReadsKeys, TypeInv, NEW p \in Pubs, Publish(p), NEW q \in Queries,
         \A k \in KeysOf[q] : k \notin Touched(msg[p])'
  PROVE  Matching(q)' = Matching(q)
<1> USE BrokerAssumption DEF TypeInv, TypeOK
<1>1. PICK m \in Messages : \E d \in Saved(m) :
         store' = [store EXCEPT ![m.uuid] = d] /\ msg' = [msg EXCEPT ![p] = m]
  BY Zenon DEF Publish
<1>1a. PICK d \in Saved(m) :
         store' = [store EXCEPT ![m.uuid] = d] /\ msg' = [msg EXCEPT ![p] = m]
  BY <1>1, Zenon
<1>2. m.uuid \in UUIDs /\ m.keys \in SUBSET Keys /\ m.vals \in Docs
  BY <1>1
<1>3. \A k \in KeysOf[q] : k \notin m.keys \cup AlwaysKeys
  BY <1>1a DEF Touched
<1>4. d \in Docs /\ store[m.uuid] \in Docs
  <2>1. store[m.uuid] \in Docs
    BY <1>2
  <2>2. [k \in Keys |-> IF k \in m.keys \cup AlwaysKeys THEN m.vals[k] ELSE store[m.uuid][k]]
           \in Docs
    BY <1>2, <2>1 DEF Docs
  <2> QED
    BY <1>1a, <2>1, <2>2 DEF Saved
<1>5. \A k \in KeysOf[q] : d[k] = store[m.uuid][k]
  <2>1. CASE d = store[m.uuid]
    BY <2>1
  <2>2. CASE d = [k \in Keys |-> IF k \in m.keys \cup AlwaysKeys THEN m.vals[k]
                                                                 ELSE store[m.uuid][k]]
    <3>1. \A k \in Keys : k \notin m.keys \cup AlwaysKeys => d[k] = store[m.uuid][k]
      BY <2>2
    <3>2. KeysOf[q] \subseteq Keys
      OBVIOUS
    <3> QED
      BY <1>3, <3>1, <3>2
  <2> QED
    BY <1>1a, <2>1, <2>2 DEF Saved
<1>6. d \in Where[q] <=> store[m.uuid] \in Where[q]
  BY <1>4, <1>5 DEF WhereReadsKeys
<1>7. \A u \in UUIDs : store'[u] = IF u = m.uuid THEN d ELSE store[u]
  BY <1>1a, <1>2
<1> QED
  BY <1>6, <1>7 DEF Matching

LEMMA PublishSerial ==
  ASSUME WhereReadsKeys, SerialInv, NEW p \in Pubs, Publish(p), Handling(p)
  PROVE  Serially'
<1> USE BrokerAssumption
<1>0. /\ TypeInv /\ \A s \in Subs : JoinerOK(s)
      /\ Settled
  BY DEF SerialInv, Serially, BaseInv, StreamInv, Publish, Handling, PubsIdle
<1>1. ppc'[p] = "collect" /\ UNCHANGED <<behind, reg, index, lists, streams, spc, obj>>
  BY <1>0 DEF Publish, PubGoTo, TypeInv, TypeOK, subVars
<1>2. InTurn(p)'
  BY <1>1 DEF InTurn, InQuery, Adding
<1>3. OwedObjects(p)'
  <2> SUFFICES ASSUME NEW o \in Subs, Live(o)'
               PROVE  Follows(o)' \/ Owes(p, o)'
    BY DEF OwedObjects
  <2>1. Follows(o)
    BY <1>0, <1>1 DEF Settled, ObjectsFollow, Live
  <2>2. CASE \E k \in KeysOf[QueryOf[o]] : k \in Touched(msg[p])'
    BY <1>1, <2>2 DEF Owes
  <2>3. CASE \A k \in KeysOf[QueryOf[o]] : k \notin Touched(msg[p])'
    <3>1. Matching(QueryOf[o])' = Matching(QueryOf[o])
      BY <1>0, <2>3, Untouched
    <3> QED
      BY <1>1, <2>1, <3>1 DEF Follows
  <2> QED
    BY <2>2, <2>3
<1>4. OwedAdditions(p)'
  BY <1>0, <1>1 DEF Settled, IsListed, OwedAdditions
<1>5. OwedRemovals(p)'
  BY <1>0, <1>1 DEF Settled, IsListedOnly, OwedRemovals, Sole, Holding
<1> QED
  BY <1>0, <1>1, <1>2, <1>3, <1>4, <1>5, HandlingOn DEF Reevaluating

(* Every object that the index gives for a key of the message is taken up. *)
LEMMA CollectSerial ==
  ASSUME SerialInv, NEW p \in Pubs, Collect(p), Handling(p)
  PROVE  Serially'
<1> USE BrokerAssumption
<1>0. /\ TypeInv /\ \A s \in Subs : JoinerOK(s)
      /\ ppc[p] = "collect" /\ Reevaluating(p)
  BY DEF SerialInv, Serially, BaseInv, StreamInv, Collect
<1>1. /\ ppc'[p] = "next" /\ todo'[p] = UNION {index[k] : k \in Touched(msg[p])}
      /\ UNCHANGED <<store, behind, reg, index, lists, streams, spc, obj>>
  BY <1>0 DEF Collect, PubGoTo, TypeInv, TypeOK, subVars, shared
<1>2. InTurn(p)'
  <2>1. msg[p] \in Messages /\ Touched(msg[p]) \subseteq Keys
    BY <1>0 DEF TypeInv, Locals, Touched
  <2>2. \A o \in todo'[p] : reg[QueryOf[o]] = o
    BY <1>1, <2>1 DEF SerialInv, BaseInv, IndexInv, IndexedIsRegistered
  <2> QED
    BY <1>1, <2>2 DEF InTurn, InQuery, Adding
<1>3. OwedObjects(p)'
  <2> SUFFICES ASSUME NEW o \in Subs, Live(o)'
               PROVE  Follows(o)' \/ Owes(p, o)'
    BY DEF OwedObjects
  <2>1. Live(o) /\ (Follows(o) \/ Owes(p, o))
    BY <1>0, <1>1 DEF Live, Reevaluating, OwedObjects
  <2>2. CASE Follows(o)
    BY <1>1, <2>2 DEF Follows, Matching
  <2>3. CASE Owes(p, o)
    <3>1. PICK k \in KeysOf[QueryOf[o]] : k \in Touched(msg[p])
      BY <1>0, <2>3 DEF Owes
    <3>2. o \in todo'[p]
      BY <1>1, <2>1, <3>1 DEF Live
    <3> QED
      BY <1>1, <3>2 DEF Owes
  <2> QED
    BY <2>1, <2>2, <2>3
<1>4. OwedAdditions(p)' /\ OwedRemovals(p)'
  BY <1>0, <1>1 DEF Reevaluating, OwedAdditions, OwedRemovals, WillAdd, WillRemove, Sole, Adding
<1> QED
  BY <1>0, <1>1, <1>2, <1>3, <1>4, HandlingOn DEF Reevaluating

(* With the store answering, no object is given up. *)
LEMMA FetchSerial ==
  ASSUME StoreFails = FALSE, SerialInv, NEW p \in Pubs, FetchStreams(p), Handling(p)
  PROVE  Serially'
<1> USE BrokerAssumption
<1>0. /\ TypeInv /\ \A s \in Subs : JoinerOK(s)
      /\ ppc[p] = "next" /\ Reevaluating(p)
  BY DEF SerialInv, Serially, BaseInv, StreamInv, FetchStreams
<1>1. PICK o \in todo[p] :
        /\ todo' = [todo EXCEPT ![p] = @ \ {o}]
        /\ cur' = [cur EXCEPT ![p] = o]
        /\ fetched' = [fetched EXCEPT ![p] = Matching(QueryOf[o])]
        /\ behind' = [behind EXCEPT ![QueryOf[o]] = {}]
        /\ PubGoTo(p, "change")
  BY Zenon DEF FetchStreams
<1>2. UNCHANGED <<store, reg, index, lists, streams, spc, obj>>
  BY DEF FetchStreams, subVars
<1>3. /\ ppc'[p] = "change" /\ cur'[p] = o /\ fetched'[p] = Matching(QueryOf[o])
      /\ todo'[p] = todo[p] \ {o}
  BY <1>0, <1>1 DEF TypeInv, TypeOK, PubGoTo
<1>4. InTurn(p)'
  BY <1>0, <1>2, <1>3 DEF Reevaluating, InTurn, InQuery, Adding, Matching
<1>5. OwedObjects(p)'
  <2> SUFFICES ASSUME NEW c \in Subs, Live(c)' PROVE Follows(c)' \/ Owes(p, c)'
    BY DEF OwedObjects
  <2>1. Live(c) /\ (Follows(c) \/ Owes(p, c))
    BY <1>0, <1>2 DEF Reevaluating, OwedObjects, Live
  <2>2. CASE c = o
    BY <1>3, <2>2 DEF Owes
  <2>3. CASE c # o
    <3>1. reg[QueryOf[o]] = o /\ o \in Subs
      BY <1>0 DEF Reevaluating, InTurn, TypeInv, TypeOK
    <3>2. QueryOf[c] # QueryOf[o]
      BY <2>1, <2>3, <3>1 DEF Live
    <3>3. behind'[QueryOf[c]] = behind[QueryOf[c]]
      BY <1>0, <1>1, <3>2 DEF TypeInv, TypeOK
    <3>4. Follows(c) => Follows(c)'
      BY <1>2, <3>3 DEF Follows, Matching
    <3>5. Owes(p, c) => Owes(p, c)'
      BY <1>0, <1>3, <2>3 DEF Owes
    <3> QED
      BY <2>1, <3>4, <3>5
  <2> QED
    BY <2>2, <2>3
<1>6. OwedAdditions(p)' /\ OwedRemovals(p)'
  BY <1>0, <1>2, <1>3 DEF Reevaluating, OwedAdditions, OwedRemovals, WillAdd, WillRemove, Sole,
                          Adding
<1> QED
  BY <1>0, <1>3, <1>4, <1>5, <1>6, HandlingOn DEF Reevaluating

LEMMA ChangeSerial ==
  ASSUME SerialInv, NEW p \in Pubs, ChangeUUIDs(p), Handling(p)
  PROVE  Serially'
<1> USE BrokerAssumption
<1>0. /\ TypeInv /\ \A s \in Subs : JoinerOK(s)
      /\ ppc[p] = "change" /\ Reevaluating(p)
  BY DEF SerialInv, Serially, BaseInv, StreamInv, ChangeUUIDs
<1> DEFINE o == cur[p]
<1>1. o \in Subs
  BY <1>0 DEF TypeInv, Locals
<1>2. /\ streams' = [streams EXCEPT ![o] = fetched[p]]
      /\ added' = [added EXCEPT ![p] = fetched[p] \ streams[o]]
      /\ removed' = [removed EXCEPT ![p] = streams[o] \ fetched[p]]
      /\ UNCHANGED <<store, behind, reg, index, lists, spc, obj, todo, cur>> /\ PubGoTo(p, "unsubscribe")
  BY Zenon DEF ChangeUUIDs, subVars
<1>3. /\ ppc'[p] = "unsubscribe" /\ added'[p] = fetched[p] \ streams[o]
      /\ removed'[p] = streams[o] \ fetched[p] /\ cur'[p] = o /\ todo'[p] = todo[p]
      /\ \A c \in Subs : streams'[c] = IF c = o THEN fetched[p] ELSE streams[c]
  BY <1>0, <1>1, <1>2 DEF TypeInv, TypeOK, PubGoTo
<1>4. fetched[p] = Matching(QueryOf[o]) /\ reg[QueryOf[o]] = o
  BY <1>0 DEF Reevaluating, InTurn, InQuery
<1> HIDE DEF o
<1>5. InTurn(p)'
  <2>1. (removed[p] \cap streams[cur[p]] = {})' /\ (added[p] \subseteq streams[cur[p]])'
    BY <1>1, <1>3
  <2>2. \A c \in todo[p] : reg[QueryOf[c]] = c
    BY <1>0 DEF Reevaluating, InTurn
  <2> QED
    BY <1>2, <1>3, <1>4, <2>1, <2>2 DEF InTurn, InQuery, Adding
<1>6. OwedObjects(p)'
  <2> SUFFICES ASSUME NEW c \in Subs, Live(c)'
               PROVE  Follows(c)' \/ Owes(p, c)'
    BY DEF OwedObjects
  <2>1. Matching(QueryOf[c])' = Matching(QueryOf[c])
    BY <1>2 DEF Matching
  <2>2. CASE c = o
    BY <1>3, <1>4, <2>1, <2>2 DEF Follows
  <2>3. CASE c # o
    <3>1. Follows(c) \/ Owes(p, c)
      BY <1>0, <1>2 DEF Reevaluating, OwedObjects, Live
    <3> QED
      BY <1>0, <1>2, <1>3, <2>1, <2>3, <3>1 DEF Owes, Follows, o
  <2> QED
    BY <2>2, <2>3
<1>7. OwedAdditions(p)'
  <2> SUFFICES ASSUME NEW s \in Subs, spc[s] = "waiting", NEW u \in streams'[obj[s]]
               PROVE  s \in lists[u] \/ WillAdd(p, s, u)'
    BY <1>2 DEF OwedAdditions
  <2>1. obj[s] \in Subs
    BY WaitingJoined DEF Joined
  <2>2. u \in streams[obj[s]] => s \in lists[u]
    BY <1>0 DEF Reevaluating, OwedAdditions, WillAdd, Adding
  <2>3. CASE obj[s] = o /\ u \notin streams[o]
    BY <1>2, <1>3, <2>1, <2>3 DEF WillAdd, Adding
  <2>4. CASE ~(obj[s] = o /\ u \notin streams[o])
    BY <1>3, <2>1, <2>2, <2>4
  <2> QED
    BY <2>3, <2>4
<1>8. OwedRemovals(p)'
  <2> SUFFICES ASSUME NEW s \in Subs, Sole(s), spc[s] = "waiting", NEW u \in UUIDs, s \in lists[u]
               PROVE  u \in streams'[obj[s]] \/ WillRemove(p, s, u)'
    BY <1>2 DEF OwedRemovals, Sole
  <2>1. obj[s] \in Subs
    BY WaitingJoined DEF Joined
  <2>2. u \in streams[obj[s]]
    BY <1>0 DEF Reevaluating, OwedRemovals, WillRemove
  <2>3. CASE obj[s] = o /\ u \notin fetched[p]
    BY <1>2, <1>3, <2>1, <2>2, <2>3 DEF WillRemove
  <2>4. CASE ~(obj[s] = o /\ u \notin fetched[p])
    BY <1>3, <2>1, <2>2, <2>4
  <2> QED
    BY <2>3, <2>4
<1> QED
  BY <1>0, <1>3, <1>5, <1>6, <1>7, <1>8, HandlingOn DEF Reevaluating

(* A range loop over a list with one subscriber of the query skips nobody. *)
LEMMA LeftoversOfOne ==
  ASSUME NEW s, NEW match, match \subseteq {s}, NEW others, NEW left \in Leftovers(match, others)
  PROVE  left = {}
<1> SUFFICES ASSUME left # {} PROVE FALSE
  OBVIOUS
<1>1. left = {s} /\ match = {s} /\ match \ left = {}
  BY DEF Leftovers
<1>2. Cardinality(left) = 1 /\ Cardinality(match \ left) = 0
  BY <1>1, FS_EmptySet, FS_Singleton
<1>3. Cardinality(left) <= Cardinality(match \ left)
  BY DEF Leftovers
<1> QED
  BY <1>2, <1>3

LEMMA UnsubscribeSerial ==
  ASSUME SerialInv, NEW p \in Pubs, Unsubscribe(p), Handling(p)
  PROVE  Serially'
<1> USE BrokerAssumption
<1>0. /\ TypeInv /\ \A s \in Subs : JoinerOK(s)
      /\ ppc[p] = "unsubscribe" /\ Reevaluating(p)
  BY DEF SerialInv, Serially, BaseInv, StreamInv, Unsubscribe
<1> DEFINE o == cur[p]
           Same(u) == SameQuery(u, o)
<1>1. PICK left \in [UUIDs -> SUBSET Subs] :
        /\ \A u \in UUIDs : left[u] \in IF u \in removed[p] THEN Leftovers(Same(u), lists[u] \ Same(u))
                                                            ELSE {Same(u)}
        /\ lists' = [u \in UUIDs |-> (lists[u] \ Same(u)) \cup left[u]]
  BY Zenon DEF Unsubscribe
<1>2. /\ UNCHANGED <<store, behind, reg, index, streams, spc, obj, todo, cur, added>>
      /\ removed' = [removed EXCEPT ![p] = {}] /\ PubGoTo(p, "resubscribe")
  BY Zenon DEF Unsubscribe, subVars
<1>3. ppc'[p] = "resubscribe" /\ removed'[p] = {}
  BY <1>0, <1>2 DEF TypeInv, TypeOK, PubGoTo
<1>4. o \in Subs /\ reg[QueryOf[o]] = o /\ removed[p] \cap streams[o] = {}
  BY <1>0 DEF TypeInv, Locals, Reevaluating, InTurn, InQuery
<1>5. \A u \in UUIDs : /\ lists'[u] = (lists[u] \ Same(u)) \cup left[u]
                       /\ u \notin removed[p] => left[u] = Same(u)
                       /\ u \in removed[p] => left[u] \in Leftovers(Same(u), lists[u] \ Same(u))
                       /\ left[u] \subseteq Same(u)
                       /\ Same(u) = {c \in lists[u] : QueryOf[c] = QueryOf[o]}
  <2> SUFFICES ASSUME NEW u \in UUIDs PROVE left[u] \subseteq Same(u)
    BY <1>1 DEF SameQuery
  <2> QED
    BY <1>1 DEF Leftovers
<1> HIDE DEF o, Same
<1>6. InTurn(p)' /\ OwedObjects(p)'
  BY <1>0, <1>2, <1>3 DEF Reevaluating, InTurn, OwedObjects, Owes, Live, Follows, Matching, InQuery, Adding
<1>7. OwedAdditions(p)'
  <2> SUFFICES ASSUME NEW s \in Subs, spc[s] = "waiting", NEW u \in streams[obj[s]]
               PROVE  s \in lists'[u] \/ WillAdd(p, s, u)'
    BY <1>2 DEF OwedAdditions
  <2>1. Joined(s)
    BY WaitingJoined
  <2>2. u \in UUIDs
    BY <1>0, <2>1 DEF TypeInv, TypeOK, Joined
  <2>3. s \in lists[u] \/ (obj[s] = o /\ u \in added[p])
    BY <1>0 DEF Reevaluating, OwedAdditions, WillAdd, Adding, o
  <2>4. CASE obj[s] = o /\ u \in added[p]
    BY <1>2, <1>3, <2>4 DEF WillAdd, Adding, o
  <2>5. CASE s \in lists[u] /\ obj[s] = o
    <3>1. u \notin removed[p]
      BY <1>4, <2>5
    <3>2. lists'[u] = (lists[u] \ Same(u)) \cup Same(u)
      BY <1>5, <2>2, <3>1
    <3> QED
      BY <2>5, <3>2
  <2>6. CASE s \in lists[u] /\ obj[s] # o
    <3>1. QueryOf[s] # QueryOf[o]
      BY <1>4, <2>1, <2>6 DEF Joined
    <3> QED
      BY <1>5, <2>2, <2>6, <3>1
  <2> QED
    BY <2>3, <2>4, <2>5, <2>6
<1>8. OwedRemovals(p)'
  <2> SUFFICES ASSUME NEW s \in Subs, Sole(s), spc[s] = "waiting", NEW u \in UUIDs, s \in lists'[u]
               PROVE  u \in streams[obj[s]]
    BY <1>2 DEF OwedRemovals, Sole
  <2>1. s \in lists[u]
    BY <1>5
  <2>2. u \in streams[obj[s]] \/ (obj[s] = o /\ u \in removed[p])
    BY <1>0, <2>1 DEF Reevaluating, OwedRemovals, WillRemove, o
  <2>3. CASE obj[s] = o /\ u \in removed[p]
    <3>1. QueryOf[s] = QueryOf[o] /\ s \in Same(u)
      BY <1>5, <2>1, <2>3, WaitingJoined DEF Joined
    <3>2. \A c \in lists[u] : c \in Subs /\ spc[c] # "idle"
      BY <1>0 DEF SerialInv, BaseInv, LifeInv, OnlyKnown, Known, Life
    <3>3. Same(u) \subseteq {s}
      <4> SUFFICES ASSUME NEW c \in Same(u), c # s PROVE FALSE
        OBVIOUS
      <4>0. Same(u) = {d \in lists[u] : QueryOf[d] = QueryOf[o]}
        BY <1>5
      <4>1. c \in lists[u] /\ QueryOf[c] = QueryOf[s]
        BY <3>1, <4>0
      <4>2. c \in Subs \ {s} /\ spc[c] # "idle"
        BY <3>2, <4>1
      <4> QED
        BY <4>1, <4>2 DEF Sole
    <3>4. left[u] \in Leftovers(Same(u), lists[u] \ Same(u))
      BY <1>5, <2>3
    <3>5. left[u] = {}
      BY <3>3, <3>4, LeftoversOfOne
    <3>6. lists'[u] = lists[u] \ Same(u)
      BY <1>5, <3>5
    <3> QED
      BY <3>1, <3>6
  <2> QED
    BY <2>2, <2>3
<1> QED
  BY <1>0, <1>3, <1>6, <1>7, <1>8, HandlingOn DEF Reevaluating

(* The loop over the added streams, and over the members for each.         *)
LEMMA AddingSerial ==
  ASSUME SerialInv, NEW p \in Pubs, Handling(p),
         NextAddedStream(p) \/ AddedStreamDone(p) \/ ReevaluateDone(p)
  PROVE  Serially'
<1> USE BrokerAssumption
<1>0. /\ TypeInv /\ \A s \in Subs : JoinerOK(s)
      /\ ppc[p] \in {"resubscribe", "addpair"} /\ Reevaluating(p)
  BY DEF SerialInv, Serially, BaseInv, StreamInv, NextAddedStream, AddedStreamDone, ReevaluateDone
<1>1. UNCHANGED <<store, behind, reg, index, lists, streams, members, spc, obj, todo, fetched, removed>>
  BY DEF NextAddedStream, AddedStreamDone, ReevaluateDone, shared, subVars
<1>2. todo'[p] = todo[p] /\ ppc'[p] \in {"resubscribe", "addpair", "next"}
  BY <1>0, <1>1 DEF NextAddedStream, AddedStreamDone, ReevaluateDone, PubGoTo, TypeInv, TypeOK
<1>3. OwedObjects(p)'
  BY <1>0, <1>1, <1>2 DEF Reevaluating, OwedObjects, Owes, Live, Follows, Matching
<1>4. OwedRemovals(p)'
  <2>1. ~(ppc[p] = "unsubscribe")
    BY <1>0
  <2> QED
    BY <1>0, <1>1, <2>1 DEF Reevaluating, OwedRemovals, WillRemove, Sole
<1>5. InTurn(p)' /\ OwedAdditions(p)'
  <2>1. CASE NextAddedStream(p)
    <3>1. PICK u \in added[p] :
            /\ added' = [added EXCEPT ![p] = @ \ {u}]
            /\ stream' = [stream EXCEPT ![p] = u]
            /\ remaining' = [remaining EXCEPT ![p] = members[cur[p]]]
      BY <2>1, Zenon DEF NextAddedStream
    <3>2. /\ ppc[p] = "resubscribe" /\ ppc'[p] = "addpair" /\ cur' = cur
          /\ added'[p] = added[p] \ {u} /\ stream'[p] = u /\ remaining'[p] = members[cur[p]]
      BY <1>0, <2>1, <3>1 DEF NextAddedStream, PubGoTo, TypeInv, TypeOK
    <3>3. InTurn(p)'
      BY <1>0, <1>1, <1>2, <3>2 DEF Reevaluating, InTurn, InQuery, Adding
    <3>4. OwedAdditions(p)'
      <4> SUFFICES ASSUME NEW s \in Subs, spc[s] = "waiting", NEW v \in streams[obj[s]]
                   PROVE  s \in lists[v] \/ WillAdd(p, s, v)'
        BY <1>1 DEF OwedAdditions
      <4>1. s \in members[obj[s]]
        BY WaitingJoined DEF Joined
      <4>2. s \in lists[v] \/ (obj[s] = cur[p] /\ v \in added[p])
        BY <1>0, <3>2 DEF Reevaluating, OwedAdditions, WillAdd
      <4> QED
        BY <1>1, <3>2, <4>1, <4>2 DEF WillAdd, Adding
    <3> QED
      BY <3>3, <3>4
  <2>2. CASE AddedStreamDone(p)
    <3>1. /\ ppc[p] = "addpair" /\ remaining[p] = {} /\ ppc'[p] = "resubscribe"
          /\ UNCHANGED <<cur, added>>
      BY <1>0, <2>2 DEF AddedStreamDone, PubGoTo, TypeInv, TypeOK
    <3> QED
      BY <1>0, <1>1, <1>2, <3>1 DEF Reevaluating, InTurn, OwedAdditions, WillAdd, InQuery, Adding
  <2>3. CASE ReevaluateDone(p)
    <3>1. ppc[p] = "resubscribe" /\ added[p] = {} /\ ppc'[p] = "next"
      BY <1>0, <2>3 DEF ReevaluateDone, PubGoTo, TypeInv, TypeOK
    <3> QED
      BY <1>0, <1>1, <1>2, <3>1 DEF Reevaluating, InTurn, OwedAdditions, WillAdd, InQuery, Adding
  <2> QED
    BY <2>1, <2>2, <2>3
<1> QED
  BY <1>0, <1>2, <1>3, <1>4, <1>5, HandlingOn DEF Reevaluating

LEMMA AddPairSerial ==
  ASSUME SerialInv, NEW p \in Pubs, AddPair(p), Handling(p)
  PROVE  Serially'
<1> USE BrokerAssumption
<1>0. /\ TypeInv /\ \A s \in Subs : JoinerOK(s)
      /\ ppc[p] = "addpair" /\ Reevaluating(p)
  BY DEF SerialInv, Serially, BaseInv, StreamInv, AddPair
<1>1. PICK t \in remaining[p] :
        /\ lists' = [lists EXCEPT ![stream[p]] = @ \cup {t}]
        /\ remaining' = [remaining EXCEPT ![p] = @ \ {t}]
  BY Zenon DEF AddPair
<1>2. UNCHANGED <<store, behind, reg, index, streams, members, spc, obj, ppc, todo, cur, fetched,
                  added, removed, stream>>
  BY DEF AddPair, subVars
<1>3. stream[p] \in UUIDs /\ cur[p] \in Subs /\ stream[p] \in streams[cur[p]]
      /\ reg[QueryOf[cur[p]]] = cur[p]
  BY <1>0 DEF TypeInv, Locals, Reevaluating, InTurn, InQuery
<1>4. /\ remaining'[p] = remaining[p] \ {t}
      /\ \A u \in UUIDs : lists'[u] = IF u = stream[p] THEN lists[u] \cup {t} ELSE lists[u]
  BY <1>0, <1>1, <1>3 DEF TypeInv, TypeOK
<1>5. InTurn(p)' /\ OwedObjects(p)'
  BY <1>0, <1>2 DEF Reevaluating, InTurn, OwedObjects, Owes, Live, Follows, Matching
<1>6. OwedAdditions(p)'
  <2> SUFFICES ASSUME NEW s \in Subs, spc[s] = "waiting", NEW u \in streams[obj[s]]
               PROVE  s \in lists'[u] \/ WillAdd(p, s, u)'
    BY <1>2 DEF OwedAdditions
  <2>1. u \in UUIDs
    BY <1>0, WaitingJoined DEF TypeInv, TypeOK, Joined
  <2>2. s \in lists[u] \/ WillAdd(p, s, u)
    BY <1>0 DEF Reevaluating, OwedAdditions
  <2> QED
    BY <1>2, <1>4, <2>1, <2>2 DEF WillAdd
<1>7. OwedRemovals(p)'
  <2> SUFFICES ASSUME NEW s \in Subs, Sole(s), spc[s] = "waiting", NEW u \in UUIDs, s \in lists'[u]
               PROVE  u \in streams[obj[s]]
    BY <1>2 DEF OwedRemovals, Sole
  <2>1. CASE s \in lists[u]
    BY <1>0, <2>1 DEF Reevaluating, OwedRemovals, WillRemove
  <2>2. CASE s \notin lists[u]
    <3>1. s = t /\ u = stream[p]
      BY <1>4, <2>2
    <3>2. QueryOf[s] = QueryOf[cur[p]]
      BY <1>0, <3>1 DEF SerialInv, BaseInv, StreamInv, PubProvenance
    <3> QED
      BY <1>3, <3>1, <3>2, WaitingJoined DEF Joined
  <2> QED
    BY <2>1, <2>2
<1> QED
  BY <1>0, <1>2, <1>5, <1>6, <1>7, HandlingOn DEF Reevaluating

(* Once nothing is owed, objects and lists agree with the store again. *)
LEMMA ForwardSerial ==
  ASSUME SerialInv, NEW p \in Pubs, ForwardMessage(p), Handling(p)
  PROVE  Serially'
<1>0. /\ TypeInv /\ \A s \in Subs : JoinerOK(s)
      /\ ppc[p] = "next" /\ todo[p] = {} /\ Reevaluating(p)
  BY DEF SerialInv, Serially, BaseInv, StreamInv, ForwardMessage
<1>1. ppc'[p] = "idle" /\ UNCHANGED <<store, behind, reg, index, lists, streams, spc, obj>>
  BY <1>0 DEF ForwardMessage, PubGoTo, TypeInv, TypeOK, shared
<1>2. PubsIdle'
  BY <1>1 DEF PubsIdle, Handling
<1>3. \A s \in Subs : spc[s] \in {"idle", "waiting", "done"}
  BY DEF Handling
<1>4. ObjectsFollow'
  BY <1>0, <1>1 DEF ObjectsFollow, Reevaluating, OwedObjects, Owes, Live, Follows, Matching
<1>5. \A s \in Subs : IsListed(s)'
  BY <1>0, <1>1, <1>3 DEF Reevaluating, OwedAdditions, WillAdd, IsListed, Adding
<1>6. \A s \in Subs : IsListedOnly(s)'
  BY <1>0, <1>1, <1>3 DEF Reevaluating, OwedRemovals, WillRemove, IsListedOnly, Sole, Holding
<1>7. OneCall' /\ \A s \in Subs : JoinerOK(s)'
  BY <1>0, JoinersRest DEF Handling
<1> QED
  BY <1>2, <1>4, <1>5, <1>6, <1>7 DEF Serially, Settled, PubsIdle

(* A change that no message announces is in `behind' from then on.         *)
LEMMA UnhandledSerial ==
  ASSUME SerialInv, SerialNext, Unhandled
  PROVE  Serially'
<1>1. TypeInv /\ PubsIdle
  <2>1. PICK new \in [UUIDs -> Docs] : ChangeUnhandled(new)
    BY UnhandledDocs DEF SerialInv, BaseInv, StreamInv
  <2>2. published' # published
    BY <2>1 DEF ChangeUnhandled, SerialInv, BaseInv, StreamInv, TypeInv, TypeOK
  <2> QED
    BY <2>2 DEF SerialNext, Starting, Quiet, PubsIdle, SerialInv, BaseInv, StreamInv
<1>2. PICK new \in [UUIDs -> Docs] : ChangeUnhandled(new)
  BY <1>1, UnhandledDocs
<1>3. UNCHANGED <<reg, index, lists, streams, members, snap, pending, spc, obj, ppc>>
  BY <1>2, UnhandledRest DEF subVars, pubVars
<1>4. \A s \in Subs : spc[s] \in {"idle", "waiting", "done"}
  <2>1. \A s \in Subs : spc[s] \in Resting
    BY <1>1, <1>2 DEF ChangeUnhandled, SerialNext, Starting, Quiet, TypeInv, TypeOK
  <2> QED
    BY <2>1 DEF SerialInv, Serially, JoinerOK, Resting
<1>5. OneCall' /\ PubsIdle'
  BY <1>1, <1>3 DEF SerialInv, Serially, OneCall, AtWork, PubsIdle
<1>6. \A s \in Subs : JoinerOK(s)'
  BY <1>3, <1>4 DEF SerialInv, Serially, JoinerOK, Creating, Holding, Removing
<1>7. Settled
  BY <1>1 DEF SerialInv, Serially
<1>8. ASSUME NEW q \in Queries, NEW S \in SUBSET UUIDs, S \ behind[q] = Matching(q) \ behind[q]
      PROVE  S \ behind'[q] = Matching(q)' \ behind'[q]
  <2>1. behind'[q] = behind[q] \cup {u \in UUIDs : (new[u] \in Where[q]) # (store[u] \in Where[q])}
    BY <1>2 DEF ChangeUnhandled
  <2>2. \A u \in UUIDs \ behind'[q] : store'[u] \in Where[q] <=> store[u] \in Where[q]
    BY <1>2, <2>1 DEF ChangeUnhandled
  <2>3. \A u \in UUIDs \ behind'[q] : u \in Matching(q)' <=> u \in Matching(q)
    BY <2>2 DEF Matching
  <2>4. behind[q] \subseteq behind'[q] /\ Matching(q) \subseteq UUIDs /\ Matching(q)' \subseteq UUIDs
    BY <2>1 DEF Matching
  <2>5. \A u \in UUIDs \ behind'[q] : u \in S <=> u \in Matching(q)
    BY <1>8, <2>4
  <2> QED
    BY <2>3, <2>4, <2>5
<1>9. ObjectsFollow'
  <2> SUFFICES ASSUME NEW o \in Subs, Live(o)' PROVE Follows(o)'
    BY DEF ObjectsFollow
  <2>1. Live(o) /\ Follows(o)
    BY <1>3, <1>7 DEF Live, Settled, ObjectsFollow
  <2>2. QueryOf[o] \in Queries /\ streams[o] \in SUBSET UUIDs
    BY <1>1, BrokerAssumption DEF TypeInv, TypeOK
  <2>3. streams[o] \ behind'[QueryOf[o]] = Matching(QueryOf[o])' \ behind'[QueryOf[o]]
    BY <1>8, <2>1, <2>2 DEF Follows
  <2> QED
    BY <1>3, <2>3 DEF Follows
<1>10. \A s \in Subs : IsListed(s)' /\ IsListedOnly(s)'
  BY <1>3, <1>7 DEF Settled, IsListed, IsListedOnly, Sole
<1> QED
  BY <1>5, <1>6, <1>9, <1>10 DEF Serially, Settled, PubsIdle

LEMMA PubStepSerial ==
  ASSUME StoreFails = FALSE, WhereReadsKeys, SerialInv, SerialNext,
         NEW p \in Pubs, Publish(p) \/ PubStep(p)
  PROVE  Serially'
<1>1. TypeInv /\ OneCall /\ \A s \in Subs : JoinerOK(s)
  BY DEF SerialInv, Serially, BaseInv, StreamInv
<1>2. Handling(p)
  <2>1. /\ \A s \in Subs : spc[s] \in Resting
        /\ \A r \in Pubs : r # p => ppc[r] = "idle" /\ ppc'[r] = "idle"
        /\ UNCHANGED <<spc, obj, reg, index, members, snap>> /\ OneCall'
    BY <1>1, PubAlone
  <2>2. \A s \in Subs : spc[s] \in {"idle", "waiting", "done"}
    BY <1>1, <2>1 DEF JoinerOK, Resting
  <2> QED
    BY <2>1, <2>2 DEF Handling
<1> QED
  BY <1>2, PublishSerial, CollectSerial, FetchSerial, ChangeSerial, UnsubscribeSerial,
     AddingSerial, AddPairSerial, ForwardSerial DEF PubStep

-----------------------------------------------------------------------------

(* Clients that come, leave or read change nothing of this. *)
LEMMA Unmoved ==
  ASSUME Serially, UNCHANGED <<shared, spc, obj, snap, pending, pubVars>>
  PROVE  Serially'
<1>0. /\ UNCHANGED <<store, behind, reg, index, lists, streams, members>>
      /\ UNCHANGED <<ppc, msg, todo, cur, fetched, added, removed, stream, remaining>>
      /\ UNCHANGED <<spc, obj, snap, pending>>
  BY DEF shared, pubVars
<1>1. OneCall' /\ (PubsIdle' <=> PubsIdle)
  BY <1>0 DEF Serially, OneCall, AtWork, PubsIdle
<1>2. \A s \in Subs : JoinerOK(s)'
  BY <1>0 DEF Serially, JoinerOK, Matching
<1>3. Settled => Settled'
  BY <1>0 DEF Settled, ObjectsFollow, Live, Follows, Matching, IsListed, IsListedOnly, Sole
<1>4. \A p \in Pubs : Reevaluating(p) => Reevaluating(p)'
  <2> SUFFICES ASSUME NEW p \in Pubs, Reevaluating(p) PROVE Reevaluating(p)'
    OBVIOUS
  <2>1. InTurn(p)'
    BY <1>0 DEF Reevaluating, InTurn, Matching
  <2>2. OwedObjects(p)'
    BY <1>0 DEF Reevaluating, OwedObjects, Owes, Live, Follows, Matching
  <2>3. OwedAdditions(p)' /\ OwedRemovals(p)'
    BY <1>0 DEF Reevaluating, OwedAdditions, OwedRemovals, WillAdd, WillRemove, Sole
  <2> QED
    BY <2>1, <2>2, <2>3 DEF Reevaluating
<1> QED
  BY <1>0, <1>1, <1>2, <1>3, <1>4 DEF Serially

LEMMA SerialStep ==
  ASSUME StoreFails = FALSE, WhereReadsKeys, SerialInv, [SerialNext]_vars
  PROVE  SerialInv'
<1>1. BaseInv'
  BY BaseStep DEF SerialInv, SerialNext
<1>2. Serially'
  <2>1. CASE \E s \in Subs : Consume(s) \/ Disconnect(s)
    <3>1. UNCHANGED <<shared, spc, obj, snap, pending, pubVars>>
      BY <2>1 DEF Consume, Disconnect
    <3> QED
      BY <3>1, Unmoved DEF SerialInv
  <2>2. CASE UNCHANGED vars
    BY <2>2, Unmoved DEF SerialInv, vars, subVars
  <2>3. CASE SerialNext /\ \E s \in Subs : SubNext(s)
    BY <2>3, SubStep
  <2>4. CASE SerialNext /\ \E p \in Pubs : Publish(p) \/ PubStep(p)
    BY <2>4, PubStepSerial
  <2>5. CASE SerialNext /\ Unhandled
    BY <2>5, UnhandledSerial
  <2> QED
    BY <2>1, <2>2, <2>3, <2>4, <2>5 DEF SerialNext, Next, Unhandled
<1> QED
  BY <1>1, <1>2 DEF SerialInv

LEMMA SerialAlways ==
  ASSUME StoreFails = FALSE, WhereReadsKeys
  PROVE  SerialSpec => []SerialInv
<1>1. SerialInv /\ [SerialNext]_vars => SerialInv'
  BY SerialStep
<1> QED
  BY <1>1, SerialInit, PTL DEF SerialSpec

(* What both theorems look at: between calls, a client that waits for an   *)
(* indexed query holds an object that agrees with the store.               *)
LEMMA QuietAgrees ==
  ASSUME SerialInv, Quiet, NEW s \in Subs, spc[s] = "waiting", Indexed(s)
  PROVE  /\ streams[obj[s]] \ behind[QueryOf[s]] = Matching(QueryOf[s]) \ behind[QueryOf[s]]
         /\ streams[obj[s]] \in SUBSET UUIDs
         /\ IsListed(s) /\ IsListedOnly(s)
<1>1. Joined(s)
  BY WaitingJoined
<1>2. Live(obj[s])
  BY <1>1 DEF Joined, Live, Indexed
<1>3. Settled
  BY DEF SerialInv, Serially, Quiet, PubsIdle
<1>4. streams[obj[s]] \in SUBSET UUIDs
  BY <1>1 DEF Joined, SerialInv, BaseInv, StreamInv, TypeInv, TypeOK
<1> QED
  BY <1>1, <1>2, <1>3, <1>4 DEF Settled, ObjectsFollow, Follows, Joined

(* Of the code of cqbs.go when calls do not overlap, and as long as the    *)
(* store answers: whatever clients came and left, whatever was published   *)
(* and set, once a message has been handled every waiting client of an     *)
(* indexed query stands on the list of every stream that satisfies it, but *)
(* for those whose documents came to do so without a message since the     *)
(* query was last looked at.                                               *)
THEOREM NoStreamIsMissed ==
  ASSUME StoreFails = FALSE, WhereReadsKeys
  PROVE  SerialSpec => []NoMissedStream
<1>1. SerialInv => NoMissedStream
  <2> SUFFICES ASSUME SerialInv, Quiet, NEW s \in Subs, spc[s] = "waiting", Indexed(s)
               PROVE  \A u \in Matching(QueryOf[s]) \ behind[QueryOf[s]] : s \in lists[u]
    BY DEF NoMissedStream
  <2>1. streams[obj[s]] \ behind[QueryOf[s]] = Matching(QueryOf[s]) \ behind[QueryOf[s]]
    BY QuietAgrees
  <2>2. \A u \in streams[obj[s]] : s \in lists[u]
    BY QuietAgrees DEF IsListed
  <2> QED
    BY <2>1, <2>2
<1> QED
  BY <1>1, SerialAlways, PTL

(* And the only client of a query stands on no other list: the removal     *)
(* loop of reevaluateQuery cannot skip it, since a list never holds two    *)
(* subscribers of its query (cqbs.go; republish5, republish6).             *)
THEOREM SoleClientsAreExact ==
  ASSUME StoreFails = FALSE, WhereReadsKeys
  PROVE  SerialSpec => []SoleClientExact
<1>1. SerialInv => SoleClientExact
  <2> SUFFICES ASSUME SerialInv, Quiet, NEW s \in Subs, spc[s] = "waiting", Indexed(s), Sole(s)
               PROVE  {u \in UUIDs : s \in lists[u]} \ behind[QueryOf[s]]
                        = Matching(QueryOf[s]) \ behind[QueryOf[s]]
    BY DEF SoleClientExact, Sole
  <2>1. /\ streams[obj[s]] \ behind[QueryOf[s]] = Matching(QueryOf[s]) \ behind[QueryOf[s]]
        /\ streams[obj[s]] \in SUBSET UUIDs
    BY QuietAgrees
  <2>2. {u \in UUIDs : s \in lists[u]} = streams[obj[s]]
    BY <2>1, QuietAgrees DEF IsListed, IsListedOnly, Holding
  <2> QED
    BY <2>1, <2>2
<1> QED
  BY <1>1, SerialAlways, PTL
=============================================================================

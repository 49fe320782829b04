------------------------------- MODULE Broker -------------------------------
(***************************************************************************)
(* The continuous-query broker of archiver/cqbs.go.  Every subscriber is a *)
(* goroutine inside Broker.NewSubscriber, every publisher a goroutine      *)
(* inside Archiver.AddData; they share the metadata store and the broker's *)
(* three maps.  One action is one stretch of code between two points where *)
(* another goroutine can be seen: a lock section, a store round trip, or   *)
(* an access to a shared list that the code makes without its lock.        *)
(*                                                                         *)
(* A Query object is named by the subscriber that created it.  Slices of   *)
(* subscribers are sets here; what their order and their in-place removal  *)
(* add is derived in module SubscriberList and enters as Leftovers (module *)
(* RangeRemoval) and AfterRemoval.                                         *)
(***************************************************************************)
EXTENDS Naturals, FiniteSets, Sequences, RangeRemoval

CONSTANTS
  Subs,          \* subscribers, one connection each
  Pubs,          \* goroutines that call AddData
  UUIDs,         \* streams
  Queries,       \* query strings
  Keys,          \* document keys a where clause can name
  AlwaysKeys,    \* "uuid" and "Path", which every message carries
  Values,        \* values of a key
  Unset,         \* value of a key that a stream does not have
  QueryOf,       \* query string of each subscriber
  KeysOf,        \* ParsedQuery.Keys of each query string
  Where,         \* the documents that satisfy each query's where clause
  Messages,      \* messages: stream, keys carried, values carried
  None,
  Sets,          \* `set' statements: where clause, keys set, values set
  StoreFails,    \* may a round trip to the metadata store return an error?
  AddErrors,     \* may AddData fail once it has saved the tags?
  Cap,           \* buffer size of Subscriber.C
  MaxPublished   \* bound: messages and `set' statements in a behaviour

Docs == [Keys -> Values]

ASSUME BrokerAssumption ==
  /\ None \notin Subs \cup UUIDs
  /\ AlwaysKeys \subseteq Keys
  /\ QueryOf \in [Subs -> Queries]
  /\ KeysOf \in [Queries -> SUBSET Keys]
  /\ Where \in [Queries -> SUBSET Docs]
  /\ Messages \subseteq [uuid : UUIDs, keys : SUBSET Keys, vals : Docs]
  /\ Unset \in Values
  /\ Sets \subseteq [where : Queries, keys : SUBSET Keys, vals : Docs]
  /\ StoreFails \in BOOLEAN /\ AddErrors \in BOOLEAN
  /\ Cap \in Nat \ {0}
  /\ MaxPublished \in Nat

VARIABLES
  store,      \* metadata store: document of each stream
  qualified,  \* history: the streams that ever satisfied each query
  behind,     \* history: the streams that began or ceased to satisfy each query
              \* with no message handled, since the store was last asked it
  published,  \* messages and `set' statements accepted so far
  reg,        \* Broker.queries: query string -> Query object
  index,      \* Broker.keys: key -> Query objects
  lists,      \* Broker.subscribers: stream -> subscribers
  streams,    \* Query.Streams of each Query object
  members,    \* Query.subscribers of each Query object
  initial,    \* Query.Initial of each Query object, as the streams in it
  chan,       \* Subscriber.C
  gone,       \* clients that have left, or that their adapter has given up
  spc,        \* where each subscriber goroutine stands
  obj,        \* the Query object it holds
  snap,       \* members as it read them
  pending,    \* streams that its range over Query.Streams still owes
  ppc,        \* where each publisher goroutine stands
  msg,        \* the message it handles
  todo,       \* toReevaluate
  cur,        \* the Query object it reevaluates
  fetched,    \* the answer of GetUUIDs it holds
  added,      \* streams it still has to hand to the query's subscribers
  removed,    \* streams it has to take from the query's subscribers
  stream,     \* add_uuid of its inner loop
  remaining   \* subscribers its inner loop has not come to

shared  == <<store, qualified, behind, published, reg, index, lists, streams, members, initial>>
subVars == <<chan, gone, spc, obj, snap, pending>>
pubVars == <<ppc, msg, todo, cur, fetched, added, removed, stream, remaining>>
vars    == <<shared, subVars, pubVars>>

-----------------------------------------------------------------------------
(* What the store answers, and which index entries a message touches.      *)

(* GetUUIDs with the where clause of query q. *)
Matching(q) == {u \in UUIDs : store[u] \in Where[q]}

Touched_NotAlways(m) == m.keys

(* A message touches the Metadata and Actuator keys it carries, all three  *)
(* Properties keys if it has Properties, and always "uuid" and "Path".     *)
Touched(m) == m.keys \cup AlwaysKeys

Blank == [k \in Keys |-> Unset]

(* SaveTags sets the keys a message carries.  A message without metadata   *)
(* for a stream in uuidCache, whose entries expire, is not written at all. *)
Saved(m) ==
  {[k \in Keys |-> IF k \in m.keys \cup AlwaysKeys THEN m.vals[k] ELSE store[m.uuid][k]]}
    \cup (IF m.keys = {} /\ store[m.uuid] # Blank THEN {store[m.uuid]} ELSE {})

Item == [init : BOOLEAN, streams : SUBSET UUIDs]

Update(u) == [init |-> FALSE, streams |-> {u}]

(* A removal shifts the slice under a range loop that another goroutine   *)
(* runs without the lock: the loop may then miss one subscriber.           *)
AfterRemoval(o) ==
  {r \in [Pubs -> SUBSET Subs] :
     \A p \in Pubs :
       IF ppc[p] = "addpair" /\ cur[p] = o
         THEN \E lost \in Subs \cup {None} : r[p] = remaining[p] \ {lost}
         ELSE r[p] = remaining[p]}

(* query.Lock() is held from RemoveRead to RemoveWrite. *)
QueryFree(o) == \A t \in Subs : ~(spc[t] = "rmwrite" /\ obj[t] = o)

GoTo(s, l)    == spc' = [spc EXCEPT ![s] = l]
PubGoTo(p, l) == ppc' = [ppc EXCEPT ![p] = l]

Init ==
  /\ store = [u \in UUIDs |-> Blank]
  /\ qualified = [q \in Queries |-> Matching(q)]
  /\ behind = [q \in Queries |-> {}]
  /\ published = 0
  /\ reg = [q \in Queries |-> None]
  /\ index = [k \in Keys |-> {}]
  /\ lists = [u \in UUIDs |-> {}]
  /\ streams = [o \in Subs |-> {}]
  /\ members = [o \in Subs |-> {}]
  /\ initial = [o \in Subs |-> {}]
  /\ chan = [s \in Subs |-> <<>>]
  /\ gone = {}
  /\ spc = [s \in Subs |-> "idle"]
  /\ obj = [s \in Subs |-> None]
  /\ snap = [s \in Subs |-> {}]
  /\ pending = [s \in Subs |-> {}]
  /\ ppc = [p \in Pubs |-> "idle"]
  /\ msg = [p \in Pubs |-> None]
  /\ todo = [p \in Pubs |-> {}]
  /\ cur = [p \in Pubs |-> None]
  /\ fetched = [p \in Pubs |-> {}]
  /\ added = [p \in Pubs |-> {}]
  /\ removed = [p \in Pubs |-> {}]
  /\ stream = [p \in Pubs |-> None]
  /\ remaining = [p \in Pubs |-> {}]

-----------------------------------------------------------------------------
(* Broker.NewSubscriber and Broker.GetQuery.                               *)

(* GetQuery, first lookup under queryLock.RLock: a known query is shared. *)
Subscribe(s) ==
  /\ spc[s] = "idle"
  /\ IF reg[QueryOf[s]] # None
       THEN obj' = [obj EXCEPT ![s] = reg[QueryOf[s]]] /\ GoTo(s, "joinread")
       ELSE obj' = [obj EXCEPT ![s] = s] /\ GoTo(s, "fetch")
  /\ UNCHANGED <<shared, chan, gone, snap, pending, pubVars>>

(* GetUUIDs for the new object, and changeUUIDs on it; on an error the     *)
(* subscriber's errorHandler is called and NewSubscriber returns.          *)
FetchInitialStreams(s) ==
  /\ spc[s] = "fetch"
  /\ \/ /\ streams' = [streams EXCEPT ![s] = Matching(QueryOf[s])]
        /\ behind' = [behind EXCEPT ![QueryOf[s]] = {}]
        /\ GoTo(s, "evaluate")
     \/ /\ StoreFails
        /\ GoTo(s, "failed")
        /\ UNCHANGED <<streams, behind>>
  /\ UNCHANGED <<store, qualified, published, reg, index, lists, members, initial,
                 chan, gone, obj, snap, pending, pubVars>>

(* evaluateQuery for Query.Initial; on an error GetQuery returns the new   *)
(* object, unregistered, and no error.                                     *)
EvaluateInitial(s) ==
  /\ spc[s] = "evaluate"
  /\ \/ /\ initial' = [initial EXCEPT ![s] = Matching(QueryOf[s])]
        /\ GoTo(s, "register")
     \/ /\ StoreFails
        /\ GoTo(s, "joinread")
        /\ UNCHANGED initial
  /\ UNCHANGED <<store, qualified, behind, published, reg, index, lists, streams, members,
                 chan, gone, obj, snap, pending, pubVars>>

Register_NoSecondLookup(s) ==
  /\ spc[s] = "register"
  /\ reg' = [reg EXCEPT ![QueryOf[s]] = s]
  /\ index' = [k \in Keys |-> IF k \in KeysOf[QueryOf[s]] THEN index[k] \cup {s}
                                                          ELSE index[k]]
  /\ GoTo(s, "joinread")
  /\ UNCHANGED <<store, qualified, behind, published, lists, streams, members, initial,
                 chan, gone, obj, snap, pending, pubVars>>

(* Second lookup, under queryLock.Lock: an object registered meanwhile is  *)
(* taken instead; otherwise this one is registered and indexed.            *)
Register(s) ==
  /\ spc[s] = "register"
  /\ LET q == QueryOf[s] IN
       \/ /\ reg[q] # None
          /\ obj' = [obj EXCEPT ![s] = reg[q]]
          /\ UNCHANGED <<reg, index>>
       \/ /\ reg[q] = None
          /\ reg' = [reg EXCEPT ![q] = s]
          /\ index' = [k \in Keys |-> IF k \in KeysOf[q] THEN index[k] \cup {s}
                                                         ELSE index[k]]
          /\ UNCHANGED obj
  /\ GoTo(s, "joinread")
  /\ UNCHANGED <<store, qualified, behind, published, lists, streams, members, initial,
                 chan, gone, snap, pending, pubVars>>

(* query.subscribers.addSubscriber(sub) takes no lock: it reads the slice  *)
(* and writes it back in two steps.                                        *)
JoinRead(s) ==
  /\ spc[s] = "joinread"
  /\ snap' = [snap EXCEPT ![s] = members[obj[s]]]
  /\ GoTo(s, "joinwrite")
  /\ UNCHANGED <<shared, chan, gone, obj, pending, pubVars>>

(* The range over query.Streams begins; it too takes no lock. *)
JoinWrite(s) ==
  /\ spc[s] = "joinwrite"
  /\ members' = [members EXCEPT ![obj[s]] = snap[s] \cup {s}]
  /\ snap' = [snap EXCEPT ![s] = {}]
  /\ pending' = [pending EXCEPT ![s] = streams[obj[s]]]
  /\ GoTo(s, "attach")
  /\ UNCHANGED <<store, qualified, behind, published, reg, index, lists, streams, initial,
                 chan, gone, obj, pubVars>>

Attach_AnyStream(s) ==
  /\ spc[s] = "attach"
  /\ \E u \in UUIDs :
       /\ lists' = [lists EXCEPT ![u] = @ \cup {s}]
       /\ pending' = [pending EXCEPT ![s] = @ \ {u}]
  /\ UNCHANGED <<store, qualified, behind, published, reg, index, streams, members, initial,
                 chan, gone, spc, obj, snap, pubVars>>

(* addSubscriberToStream for a stream that the map holds now: one it held  *)
(* when the range began, or one put there since.                           *)
Attach(s) ==
  /\ spc[s] = "attach"
  /\ \E u \in streams[obj[s]] :
       /\ lists' = [lists EXCEPT ![u] = @ \cup {s}]
       /\ pending' = [pending EXCEPT ![s] = @ \ {u}]
  /\ UNCHANGED <<store, qualified, behind, published, reg, index, streams, members, initial,
                 chan, gone, spc, obj, snap, pubVars>>

AttachDone(s) ==
  /\ spc[s] = "attach"
  /\ pending[s] \cap streams[obj[s]] = {}
  /\ pending' = [pending EXCEPT ![s] = {}]
  /\ GoTo(s, "sendinitial")
  /\ UNCHANGED <<shared, chan, gone, obj, snap, pubVars>>

(* BlockSend(query.Initial) waits for room in the channel. *)
SendInitial(s) ==
  /\ spc[s] = "sendinitial"
  /\ Len(chan[s]) < Cap
  /\ chan' = [chan EXCEPT ![s] =
                Append(@, [init |-> TRUE, streams |-> initial[obj[s]]])]
  /\ GoTo(s, "waiting")
  /\ UNCHANGED <<shared, gone, obj, snap, pending, pubVars>>

Leave_Anytime(s) ==
  /\ spc[s] = "waiting"
  /\ GoTo(s, "rmlookup")
  /\ UNCHANGED <<shared, chan, gone, obj, snap, pending, pubVars>>

(* <-sub.closed: the protocol adapter reports that the session is over. *)
Leave(s) ==
  /\ spc[s] = "waiting"
  /\ s \in gone
  /\ GoTo(s, "rmlookup")
  /\ UNCHANGED <<shared, chan, gone, obj, snap, pending, pubVars>>

(* removeSubscriber works on the registered object, or gives up. *)
RemoveLookup(s) ==
  /\ spc[s] = "rmlookup"
  /\ \/ /\ reg[QueryOf[s]] = None
        /\ GoTo(s, "done")
        /\ UNCHANGED obj
     \/ /\ reg[QueryOf[s]] # None
        /\ obj' = [obj EXCEPT ![s] = reg[QueryOf[s]]]
        /\ GoTo(s, "rmstreams")
  /\ UNCHANGED <<shared, chan, gone, snap, pending, pubVars>>

(* query.RLock and subscribersLock are held over the whole loop. *)
RemoveFromStreams(s) ==
  /\ spc[s] = "rmstreams"
  /\ QueryFree(obj[s])
  /\ lists' = [u \in UUIDs |-> IF u \in streams[obj[s]] THEN lists[u] \ {s} ELSE lists[u]]
  /\ GoTo(s, "rmread")
  /\ UNCHANGED <<store, qualified, behind, published, reg, index, streams, members, initial,
                 chan, gone, obj, snap, pending, pubVars>>

RemoveRead(s) ==
  /\ spc[s] = "rmread"
  /\ QueryFree(obj[s])
  /\ snap' = [snap EXCEPT ![s] = members[obj[s]]]
  /\ GoTo(s, "rmwrite")
  /\ UNCHANGED <<shared, chan, gone, obj, pending, pubVars>>

(* The last subscriber takes the query out of the index, not out of        *)
(* Broker.queries.                                                         *)
RemoveWrite(s) ==
  /\ spc[s] = "rmwrite"
  /\ LET o == obj[s] IN
       /\ members' = [members EXCEPT ![o] = snap[s] \ {s}]
       /\ index' = [k \in Keys |->
                      IF k \in KeysOf[QueryOf[s]] /\ snap[s] \ {s} = {}
                        THEN index[k] \ {o} ELSE index[k]]
       /\ remaining' \in AfterRemoval(o)
  /\ snap' = [snap EXCEPT ![s] = {}]
  /\ GoTo(s, "done")
  /\ UNCHANGED <<store, qualified, behind, published, reg, lists, streams, initial, chan, gone,
                 obj, pending, ppc, msg, todo, cur, fetched, added, removed, stream>>

(* The adapter drains the channel; once the client is gone it may stop. *)
Consume(s) ==
  /\ chan[s] # <<>>
  /\ chan' = [chan EXCEPT ![s] = Tail(@)]
  /\ UNCHANGED <<shared, gone, spc, obj, snap, pending, pubVars>>

(* The client leaves, or its adapter gives it up over a value that it      *)
(* cannot write (module Sessions). *)
Disconnect(s) ==
  /\ spc[s] # "idle" /\ s \notin gone
  /\ gone' = gone \cup {s}
  /\ UNCHANGED <<shared, chan, spc, obj, snap, pending, pubVars>>

-----------------------------------------------------------------------------
(* Archiver.AddData and Broker.HandleMessage.                              *)

(* SaveTags; on its error AddData returns and nothing below happens.       *)
(* AddData then comes to HandleMessage, whatever became of the readings.   *)
Publish(p) ==
  /\ ppc[p] = "idle"
  /\ published < MaxPublished
  /\ published' = published + 1
  /\ \E m \in Messages : \E d \in Saved(m) :
       /\ store' = [store EXCEPT ![m.uuid] = d]
       /\ qualified' = [q \in Queries |->
                          qualified[q] \cup (IF d \in Where[q] THEN {m.uuid} ELSE {})]
       /\ msg' = [msg EXCEPT ![p] = m]
  /\ PubGoTo(p, "collect")
  /\ UNCHANGED <<behind, reg, index, lists, streams, members, initial, subVars,
                 todo, cur, fetched, added, removed, stream, remaining>>

(* The documents become `new' and no HandleMessage follows. *)
ChangeUnhandled(new) ==
  /\ published < MaxPublished
  /\ published' = published + 1
  /\ store' = new
  /\ qualified' = [q \in Queries |-> qualified[q] \cup {u \in UUIDs : new[u] \in Where[q]}]
  /\ behind' = [q \in Queries |->
                  behind[q] \cup {u \in UUIDs : (new[u] \in Where[q]) # (store[u] \in Where[q])}]
  /\ UNCHANGED <<reg, index, lists, streams, members, initial, subVars, pubVars>>

(* SaveTags succeeds and a later step of AddData does not: the units       *)
(* cannot be read, because of the store or because a document holds        *)
(* something else than a unit, or the second SaveTags fails.               *)
AddDataFails(p) ==
  /\ AddErrors
  /\ ppc[p] = "idle"
  /\ \E m \in Messages : \E d \in Saved(m) : ChangeUnhandled([store EXCEPT ![m.uuid] = d])

(* A `set' query: UpdateAll on the documents of a where clause, of which   *)
(* an error may leave some as they were.  The broker is not told.          *)
SetTags ==
  \E t \in Sets :
    \E updated \in IF StoreFails THEN SUBSET Matching(t.where) ELSE {Matching(t.where)} :
      ChangeUnhandled([u \in UUIDs |->
        IF u \in updated
          THEN [k \in Keys |-> IF k \in t.keys THEN t.vals[k] ELSE store[u][k]]
          ELSE store[u]])

(* toReevaluate is filled under keysLock.RLock. *)
Collect(p) ==
  /\ ppc[p] = "collect"
  /\ todo' = [todo EXCEPT ![p] = UNION {index[k] : k \in Touched(msg[p])}]
  /\ PubGoTo(p, "next")
  /\ UNCHANGED <<shared, subVars, msg, cur, fetched, added, removed, stream, remaining>>

(* reevaluateQuery asks the store; on an error it leaves the query alone. *)
FetchStreams(p) ==
  /\ ppc[p] = "next"
  /\ \E o \in todo[p] :
       /\ todo' = [todo EXCEPT ![p] = @ \ {o}]
       /\ \/ /\ cur' = [cur EXCEPT ![p] = o]
             /\ fetched' = [fetched EXCEPT ![p] = Matching(QueryOf[o])]
             /\ behind' = [behind EXCEPT ![QueryOf[o]] = {}]
             /\ PubGoTo(p, "change")
          \/ /\ StoreFails
             /\ UNCHANGED <<cur, fetched, behind, ppc>>
  /\ UNCHANGED <<store, qualified, published, reg, index, lists, streams, members, initial,
                 subVars, msg, added, removed, stream, remaining>>

ChangeUUIDs_KeepOld(p) ==
  /\ ppc[p] = "change"
  /\ LET o == cur[p] IN
       /\ QueryFree(o)
       /\ streams' = [streams EXCEPT ![o] = @ \cup fetched[p]]
       /\ added' = [added EXCEPT ![p] = fetched[p] \ streams[o]]
       /\ removed' = [removed EXCEPT ![p] = {}]
  /\ fetched' = [fetched EXCEPT ![p] = {}]
  /\ PubGoTo(p, "unsubscribe")
  /\ UNCHANGED <<store, qualified, behind, published, reg, index, lists, members, initial,
                 subVars, msg, todo, cur, stream, remaining>>

(* changeUUIDs, under query.Lock, with an answer that may be out of date. *)
ChangeUUIDs(p) ==
  /\ ppc[p] = "change"
  /\ LET o == cur[p] IN
       /\ QueryFree(o)
       /\ streams' = [streams EXCEPT ![o] = fetched[p]]
       /\ added' = [added EXCEPT ![p] = fetched[p] \ streams[o]]
       /\ removed' = [removed EXCEPT ![p] = streams[o] \ fetched[p]]
  /\ fetched' = [fetched EXCEPT ![p] = {}]
  /\ PubGoTo(p, "unsubscribe")
  /\ UNCHANGED <<store, qualified, behind, published, reg, index, lists, members, initial,
                 subVars, msg, todo, cur, stream, remaining>>

SameQuery(u, o) == {c \in lists[u] : QueryOf[c] = QueryOf[o]}

(* Under subscribersLock: the subscribers of this query leave the lists of *)
(* the removed streams, but for what the range loop skips.                 *)
Unsubscribe(p) ==
  /\ ppc[p] = "unsubscribe"
  /\ \E left \in [UUIDs -> SUBSET Subs] :
       /\ \A u \in UUIDs :
            left[u] \in IF u \in removed[p]
                          THEN Leftovers(SameQuery(u, cur[p]), lists[u] \ SameQuery(u, cur[p]))
                          ELSE {SameQuery(u, cur[p])}
       /\ lists' = [u \in UUIDs |-> (lists[u] \ SameQuery(u, cur[p])) \cup left[u]]
  /\ removed' = [removed EXCEPT ![p] = {}]
  /\ PubGoTo(p, "resubscribe")
  /\ UNCHANGED <<store, qualified, behind, published, reg, index, streams, members, initial,
                 subVars, msg, todo, cur, fetched, added, stream, remaining>>

(* For each added stream the loop over q.subscribers starts afresh and,    *)
(* unlocked, calls addSubscriberToStream for one subscriber at a time.     *)
NextAddedStream(p) ==
  /\ ppc[p] = "resubscribe"
  /\ \E u \in added[p] :
       /\ added' = [added EXCEPT ![p] = @ \ {u}]
       /\ stream' = [stream EXCEPT ![p] = u]
       /\ remaining' = [remaining EXCEPT ![p] = members[cur[p]]]
  /\ PubGoTo(p, "addpair")
  /\ UNCHANGED <<shared, subVars, msg, todo, cur, fetched, removed>>

AddPair(p) ==
  /\ ppc[p] = "addpair"
  /\ \E s \in remaining[p] :
       /\ lists' = [lists EXCEPT ![stream[p]] = @ \cup {s}]
       /\ remaining' = [remaining EXCEPT ![p] = @ \ {s}]
  /\ UNCHANGED <<store, qualified, behind, published, reg, index, streams, members, initial,
                 subVars, ppc, msg, todo, cur, fetched, added, removed, stream>>

AddedStreamDone(p) ==
  /\ ppc[p] = "addpair" /\ remaining[p] = {}
  /\ stream' = [stream EXCEPT ![p] = None]
  /\ PubGoTo(p, "resubscribe")
  /\ UNCHANGED <<shared, subVars, msg, todo, cur, fetched, added, removed, remaining>>

ReevaluateDone(p) ==
  /\ ppc[p] = "resubscribe" /\ added[p] = {}
  /\ cur' = [cur EXCEPT ![p] = None]
  /\ PubGoTo(p, "next")
  /\ UNCHANGED <<shared, subVars, msg, todo, fetched, added, removed, stream, remaining>>

ForwardMessage_Blocking(p) ==
  /\ ppc[p] = "next" /\ todo[p] = {}
  /\ LET u == msg[p].uuid IN
       /\ \A s \in lists[u] : Len(chan[s]) < Cap
       /\ chan' = [s \in Subs |-> IF s \in lists[u] THEN Append(chan[s], Update(u))
                                                    ELSE chan[s]]
  /\ msg' = [msg EXCEPT ![p] = None]
  /\ PubGoTo(p, "idle")
  /\ UNCHANGED <<shared, gone, spc, obj, snap, pending,
                 todo, cur, fetched, added, removed, stream, remaining>>

ForwardMessage_Unbounded(p) ==
  /\ ppc[p] = "next" /\ todo[p] = {}
  /\ LET u == msg[p].uuid IN
       chan' = [s \in Subs |-> IF s \in lists[u] THEN Append(chan[s], Update(u)) ELSE chan[s]]
  /\ msg' = [msg EXCEPT ![p] = None]
  /\ PubGoTo(p, "idle")
  /\ UNCHANGED <<shared, gone, spc, obj, snap, pending,
                 todo, cur, fetched, added, removed, stream, remaining>>

(* QueueToSend never waits: a full channel drops the message.  The lookup  *)
(* under subscribersLock.RLock only finds the list; what counts is what    *)
(* the list holds when the loop over it runs.                              *)
ForwardMessage(p) ==
  /\ ppc[p] = "next" /\ todo[p] = {}
  /\ LET u == msg[p].uuid IN
       chan' = [s \in Subs |-> IF s \in lists[u] /\ Len(chan[s]) < Cap
                                 THEN Append(chan[s], Update(u)) ELSE chan[s]]
  /\ msg' = [msg EXCEPT ![p] = None]
  /\ PubGoTo(p, "idle")
  /\ UNCHANGED <<shared, gone, spc, obj, snap, pending,
                 todo, cur, fetched, added, removed, stream, remaining>>

-----------------------------------------------------------------------------

SubNext(s) ==
  \/ Subscribe(s) \/ FetchInitialStreams(s) \/ EvaluateInitial(s) \/ Register(s)
  \/ JoinRead(s) \/ JoinWrite(s) \/ Attach(s) \/ AttachDone(s) \/ SendInitial(s)
  \/ Leave(s) \/ RemoveLookup(s) \/ RemoveFromStreams(s) \/ RemoveRead(s) \/ RemoveWrite(s)

PubStep(p) ==
  \/ Collect(p) \/ FetchStreams(p) \/ ChangeUUIDs(p) \/ Unsubscribe(p)
  \/ NextAddedStream(p) \/ AddPair(p) \/ AddedStreamDone(p) \/ ReevaluateDone(p)
  \/ ForwardMessage(p)

Next ==
  \/ \E s \in Subs : SubNext(s) \/ Consume(s) \/ Disconnect(s)
  \/ \E p \in Pubs : Publish(p) \/ AddDataFails(p) \/ PubStep(p)
  \/ SetTags

Spec == Init /\ [][Next]_vars

(* Every goroutine that can move does, and adapters drain the channels of  *)
(* clients that are there; nothing makes a client come, leave or publish.  *)
Fairness ==
  /\ \A p \in Pubs : WF_vars(PubStep(p))
  /\ \A s \in Subs : /\ WF_vars(SubNext(s) /\ spc[s] # "idle")
                     /\ WF_vars(Consume(s) /\ s \notin gone)

FairSpec == Spec /\ Fairness

-----------------------------------------------------------------------------
(* Properties.                                                             *)

SubStates == {"idle", "fetch", "evaluate", "register", "joinread", "joinwrite", "attach",
              "sendinitial", "waiting", "rmlookup", "rmstreams", "rmread", "rmwrite",
              "done", "failed"}

PubStates == {"idle", "collect", "next", "change", "unsubscribe", "resubscribe", "addpair"}

(* Every variable holds what its declaration in cqbs.go allows; a channel  *)
(* never holds more than its buffer. *)
TypeOK ==
  /\ store \in [UUIDs -> Docs]
  /\ qualified \in [Queries -> SUBSET UUIDs]
  /\ behind \in [Queries -> SUBSET UUIDs]
  /\ published \in Nat
  /\ reg \in [Queries -> Subs \cup {None}]
  /\ index \in [Keys -> SUBSET Subs]
  /\ lists \in [UUIDs -> SUBSET Subs]
  /\ streams \in [Subs -> SUBSET UUIDs]
  /\ members \in [Subs -> SUBSET Subs]
  /\ initial \in [Subs -> SUBSET UUIDs]
  /\ chan \in [Subs -> Seq(Item)] /\ \A s \in Subs : Len(chan[s]) <= Cap
  /\ gone \in SUBSET Subs
  /\ spc \in [Subs -> SubStates]
  /\ obj \in [Subs -> Subs \cup {None}]
  /\ snap \in [Subs -> SUBSET Subs]
  /\ pending \in [Subs -> SUBSET UUIDs]
  /\ ppc \in [Pubs -> PubStates]
  /\ msg \in [Pubs -> Messages \cup {None}]
  /\ todo \in [Pubs -> SUBSET Subs]
  /\ cur \in [Pubs -> Subs \cup {None}]
  /\ fetched \in [Pubs -> SUBSET UUIDs]
  /\ added \in [Pubs -> SUBSET UUIDs]
  /\ removed \in [Pubs -> SUBSET UUIDs]
  /\ stream \in [Pubs -> UUIDs \cup {None}]
  /\ remaining \in [Pubs -> SUBSET Subs]

(* Whatever the interleaving of joins, leaves and reevaluations, nothing   *)
(* is queued for a client, and no client stands on the list of a stream,   *)
(* unless that stream has at some time satisfied the client's own query    *)
(* (cqbs.go: GetQuery, reevaluateQuery, addSubscriberToStream).            *)
NoForeignStream ==
  /\ \A u \in UUIDs : \A s \in lists[u] : u \in qualified[QueryOf[s]]
  /\ \A s \in Subs : \A i \in DOMAIN chan[s] :
       chan[s][i].streams \subseteq qualified[QueryOf[s]]

(* Two clients that race to create the same query end up with one object:  *)
(* the index never names an object other than the one that Broker.queries  *)
(* holds for its query string (cqbs.go GetQuery, the double check under    *)
(* queryLock.Lock), so no object is reevaluated that newcomers never join. *)
IndexedIsRegistered ==
  \A k \in Keys : \A o \in index[k] :
    /\ reg[QueryOf[o]] = o
    /\ k \in KeysOf[QueryOf[o]]

(* How far NewSubscriber has come, as an adapter sees it. *)
Life(s) ==
  CASE spc[s] = "idle" -> "out"
    [] spc[s] \in {"fetch", "evaluate", "register"} -> "joining"
    [] spc[s] \in {"joinread", "joinwrite", "attach", "sendinitial"} -> "sending"
    [] spc[s] \in {"rmlookup", "rmstreams", "rmread", "rmwrite"} -> "removing"
    [] OTHER -> spc[s]

LifeOf(s) == INSTANCE SubscriberLife WITH
  life  <- Life(s),
  queue <- [i \in DOMAIN chan[s] |-> IF chan[s][i].init THEN "initial" ELSE "update"],
  over  <- s \in gone

(* The broker keeps to what it and the adapters promise each other for     *)
(* every subscriber: whatever others do, it sends one initial result,      *)
(* queues nothing before the subscriber's query is there or after the      *)
(* query has failed, and removes nobody whose session is not over          *)
(* (subscriber.go, cqbs.go NewSubscriber).                                 *)
BrokerKeepsThePromise ==
  /\ \A s \in Subs : LifeOf(s)!Init
  /\ [][\A s \in Subs : LifeOf(s)!Next \/ UNCHANGED LifeOf(s)!vars]_vars

(* Clients that do not read never hold up a publisher: once accepted, a    *)
(* message is handled to its end (subscriber.go QueueToSend drops).        *)
HandlingTerminates == \A p \in Pubs : (ppc[p] # "idle") ~> (ppc[p] = "idle")

(* subscriber.go:15-17: the client that the closed channel reports is      *)
(* considered dead "so we clean up": NewSubscriber returns in the end.     *)
NewSubscriberReturns == \A s \in Subs : (s \in gone) ~> (spc[s] \in {"done", "failed"})

(* archiver/REPUBLISH.md:8-9: a client is first delivered the results of   *)
(* its query and then updates.                                             *)
InitialComesFirst ==
  \A s \in Subs :
    spc[s] \in {"joinread", "joinwrite", "attach", "sendinitial"} => chan[s] = <<>>

=============================================================================

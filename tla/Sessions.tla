------------------------------- MODULE Sessions -------------------------------
(***************************************************************************)
(* The protocol adapters' side of a subscription: plugins/http, tcpjson,   *)
(* websocket and bosswave.  Each client's request runs NewSubscriber, here *)
(* as coarse as an adapter can see it (life), beside a goroutine that      *)
(* drains Subscriber.C and, by protocol, what is to find out that the      *)
(* client has left: a watcher (HTTP), the drain itself (TCP), pings and    *)
(* one manager for all clients (WebSocket), nothing (BOSSWAVE).  Closing   *)
(* is told on a channel without a buffer, so who tells waits until         *)
(* NewSubscriber listens.                                                  *)
(***************************************************************************)
EXTENDS Naturals, Sequences, FiniteSets

CONSTANTS
  Clients,     \* subscribing clients
  Protocols,   \* the protocols they may use
  QueryFails,  \* may GetQuery return an error?
  Readers,     \* clients that read what they are sent, for as long as they stay
  None,
  Cap          \* buffer size of Subscriber.C; 10 in every adapter

ASSUME SessionAssumption ==
  /\ Protocols \subseteq {"http", "tcp", "ws", "bosswave"}
  /\ QueryFails \in BOOLEAN
  /\ Readers \subseteq Clients
  /\ None \notin Clients
  /\ Cap \in Nat \ {0}

VARIABLES
  kind,       \* protocol of each client
  life,       \* how far its NewSubscriber has come
  queue,      \* Subscriber.C
  left,       \* clients that have left
  closed,     \* clients with HTTPSubscriber.closed or TCPJSONSubscriber.closed
  watcher,    \* the goroutine of watchForClose
  drain,      \* the goroutine that drains Subscriber.C
  registered, \* manager.subscribers
  telling     \* whose closeC the manager is sending on

broker  == <<life, queue>>
adapter == <<closed, watcher, drain>>
manager == <<registered, telling>>
vars    == <<kind, broker, left, adapter, manager>>

GoTo(c, l) == life' = [life EXCEPT ![c] = l]

Init ==
  /\ kind \in [Clients -> Protocols]
  /\ life = [c \in Clients |-> "out"]
  /\ queue = [c \in Clients |-> <<>>]
  /\ left = {}
  /\ closed = {}
  /\ watcher = [c \in Clients |-> "none"]
  /\ drain = [c \in Clients |-> "none"]
  /\ registered = {}
  /\ telling = None

-----------------------------------------------------------------------------
(* NewSubscriber as the adapters see it.                                   *)

(* GetQuery; its error goes to the adapter's errorHandler, which closes    *)
(* the session (HTTP, TCP) or logs it (the others). *)
GetQuery(c) ==
  /\ life[c] = "joining"
  /\ \/ /\ GoTo(c, "sending")
        /\ UNCHANGED closed
     \/ /\ QueryFails
        /\ GoTo(c, "failed")
        /\ closed' = IF kind[c] \in {"http", "tcp"} THEN closed \cup {c} ELSE closed
  /\ UNCHANGED <<kind, queue, left, watcher, drain, manager>>

(* QueueToSend, by whoever publishes, from the time the client is on a     *)
(* list; what does not fit is dropped. *)
Update(c) ==
  /\ life[c] \in {"sending", "waiting", "removing", "done"}
  /\ Len(queue[c]) < Cap
  /\ queue' = [queue EXCEPT ![c] = Append(@, "update")]
  /\ UNCHANGED <<kind, life, left, adapter, manager>>

(* BlockSend(query.Initial). *)
SendInitial(c) ==
  /\ life[c] = "sending"
  /\ Len(queue[c]) < Cap
  /\ queue' = [queue EXCEPT ![c] = Append(@, "initial")]
  /\ GoTo(c, "waiting")
  /\ UNCHANGED <<kind, left, adapter, manager>>

removeSubscriber(c) ==
  /\ life[c] = "removing"
  /\ GoTo(c, "done")
  /\ UNCHANGED <<kind, queue, left, adapter, manager>>

Depart(c) ==
  /\ life[c] # "out" /\ c \notin left
  /\ left' = left \cup {c}
  /\ UNCHANGED <<kind, broker, adapter, manager>>

-----------------------------------------------------------------------------
(* HTTP.                                                                   *)

StartHTTPSubscriber(c) ==
  /\ kind[c] = "http" /\ life[c] = "out"
  /\ watcher' = [watcher EXCEPT ![c] = "watching"]
  /\ drain' = [drain EXCEPT ![c] = "running"]
  /\ GoTo(c, "joining")
  /\ UNCHANGED <<kind, queue, left, closed, manager>>

(* CloseNotify fires; the server promises it while the handler runs. *)
watchForClose(c) ==
  /\ watcher[c] = "watching"
  /\ c \in left
  /\ closed' = closed \cup {c}
  /\ watcher' = [watcher EXCEPT ![c] = "telling"]
  /\ UNCHANGED <<kind, broker, left, drain, manager>>

TellHTTP_Early(c) ==
  /\ watcher[c] \in {"watching", "telling"}
  /\ life[c] = "waiting"
  /\ watcher' = [watcher EXCEPT ![c] = "over"]
  /\ GoTo(c, "removing")
  /\ UNCHANGED <<kind, queue, left, closed, drain, manager>>

TellHTTP(c) ==
  /\ watcher[c] = "telling"
  /\ life[c] = "waiting"
  /\ watcher' = [watcher EXCEPT ![c] = "over"]
  /\ GoTo(c, "removing")
  /\ UNCHANGED <<kind, queue, left, closed, drain, manager>>

(* The value taken when the session is closed is lost.  An error of Encode *)
(* makes handleError close the session, whether the client has left or the *)
(* value cannot be encoded; the broker is not told before CloseNotify.     *)
DrainHTTP(c) ==
  /\ kind[c] = "http" /\ drain[c] = "running"
  /\ queue[c] # <<>>
  /\ queue' = [queue EXCEPT ![c] = Tail(@)]
  /\ \/ /\ c \in closed
        /\ drain' = [drain EXCEPT ![c] = "over"]
        /\ UNCHANGED closed
     \/ /\ c \notin closed
        /\ closed' \in {closed, closed \cup {c}}
        /\ UNCHANGED drain
  /\ UNCHANGED <<kind, life, left, watcher, manager>>

-----------------------------------------------------------------------------
(* TCP.                                                                    *)

StartTCPJSONSubscriber(c) ==
  /\ kind[c] = "tcp" /\ life[c] = "out"
  /\ drain' = [drain EXCEPT ![c] = "running"]
  /\ GoTo(c, "joining")
  /\ UNCHANGED <<kind, queue, left, closed, watcher, manager>>

(* Only the value after the one whose write failed ends the session: it    *)
(* closes the connection and tells the broker, though the client may still *)
(* have been there. *)
DrainTCP(c) ==
  /\ kind[c] = "tcp" /\ drain[c] = "running"
  /\ queue[c] # <<>>
  /\ queue' = [queue EXCEPT ![c] = Tail(@)]
  /\ \/ /\ c \in closed
        /\ drain' = [drain EXCEPT ![c] = "telling"]
        /\ UNCHANGED closed
     \/ /\ c \notin closed
        /\ closed' \in {closed, closed \cup {c}}
        /\ UNCHANGED drain
  /\ UNCHANGED <<kind, life, left, watcher, manager>>

TellTCP(c) ==
  /\ drain[c] = "telling"
  /\ life[c] = "waiting"
  /\ drain' = [drain EXCEPT ![c] = "over"]
  /\ GoTo(c, "removing")
  /\ UNCHANGED <<kind, queue, left, closed, watcher, manager>>

-----------------------------------------------------------------------------
(* WebSocket.                                                              *)

(* StartSubscriber hands the client to the manager, which must be free.    *)
Arrive(c) ==
  /\ kind[c] = "ws" /\ life[c] = "out"
  /\ GoTo(c, "registering")
  /\ UNCHANGED <<kind, queue, left, adapter, manager>>

Initialize(c) ==
  /\ life[c] = "registering"
  /\ telling = None
  /\ registered' = registered \cup {c}
  /\ drain' = [drain EXCEPT ![c] = "running"]
  /\ GoTo(c, "joining")
  /\ UNCHANGED <<kind, queue, left, closed, watcher, telling>>

(* An error of WriteJSON is ignored. *)
DrainWS(c) ==
  /\ kind[c] = "ws" /\ drain[c] = "running"
  /\ queue[c] # <<>>
  /\ queue' = [queue EXCEPT ![c] = Tail(@)]
  /\ UNCHANGED <<kind, life, left, adapter, manager>>

(* A ping that fails ends the goroutine, which then sends on m.remove. *)
Ping(c) ==
  /\ kind[c] = "ws" /\ drain[c] = "running"
  /\ c \in left
  /\ drain' = [drain EXCEPT ![c] = "leaving"]
  /\ UNCHANGED <<kind, broker, left, closed, watcher, manager>>

TakeRemove(c) ==
  /\ drain[c] = "leaving"
  /\ telling = None
  /\ drain' = [drain EXCEPT ![c] = "over"]
  /\ telling' = IF c \in registered THEN c ELSE None
  /\ UNCHANGED <<kind, broker, left, closed, watcher, registered>>

TellWS_KeepsEntry(c) ==
  /\ telling = c
  /\ life[c] = "waiting"
  /\ GoTo(c, "removing")
  /\ UNCHANGED <<kind, queue, left, adapter, manager>>

(* The manager goes on when NewSubscriber has received. *)
TellWS(c) ==
  /\ telling = c
  /\ life[c] = "waiting"
  /\ GoTo(c, "removing")
  /\ telling' = None
  /\ registered' = registered \ {c}
  /\ UNCHANGED <<kind, queue, left, adapter>>

-----------------------------------------------------------------------------
(* BOSSWAVE: the client's replies are published whether it is there or not.*)

StartSubscriber(c) ==
  /\ kind[c] = "bosswave" /\ life[c] = "out"
  /\ drain' = [drain EXCEPT ![c] = "running"]
  /\ GoTo(c, "joining")
  /\ UNCHANGED <<kind, queue, left, closed, watcher, manager>>

DrainBW_ReturnsOnError(c) ==
  /\ kind[c] = "bosswave" /\ drain[c] = "running"
  /\ queue[c] # <<>>
  /\ queue' = [queue EXCEPT ![c] = Tail(@)]
  /\ drain' \in {drain, [drain EXCEPT ![c] = "over"]}
  /\ UNCHANGED <<kind, life, left, closed, watcher, manager>>

DrainBW(c) ==
  /\ kind[c] = "bosswave" /\ drain[c] = "running"
  /\ queue[c] # <<>>
  /\ queue' = [queue EXCEPT ![c] = Tail(@)]
  /\ UNCHANGED <<kind, life, left, adapter, manager>>

-----------------------------------------------------------------------------

Start(c) ==
  \/ StartHTTPSubscriber(c) \/ StartTCPJSONSubscriber(c) \/ Arrive(c) \/ StartSubscriber(c)

NewSubscriber(c) == GetQuery(c) \/ SendInitial(c) \/ removeSubscriber(c)

Drain(c) == DrainHTTP(c) \/ DrainTCP(c) \/ DrainWS(c) \/ DrainBW(c)

Tell(c) == TellHTTP(c) \/ TellTCP(c) \/ TellWS(c)

Next ==
  \E c \in Clients :
    \/ Start(c) \/ Update(c) \/ Depart(c)
    \/ NewSubscriber(c) \/ Drain(c) \/ Tell(c)
    \/ watchForClose(c) \/ Initialize(c) \/ Ping(c) \/ TakeRemove(c)

Spec == Init /\ [][Next]_vars

(* Every goroutine that can move does, except that a write to a client     *)
(* that stays and does not read may take forever: no adapter sets a        *)
(* deadline.  CloseNotify is only relied upon while the request is being   *)
(* handled.  A sender that a full channel or a busy manager has blocked is *)
(* queued, and served in its turn; pings go on.                            *)
Fairness ==
  \A c \in Clients :
    /\ WF_vars(NewSubscriber(c)) /\ WF_vars(Tell(c))
    /\ WF_vars(Drain(c) /\ c \in Readers \cup left)
    /\ WF_vars(watchForClose(c) /\ life[c] \notin {"done", "failed"})
    /\ WF_vars(Ping(c))
    /\ SF_vars(SendInitial(c)) /\ SF_vars(Initialize(c)) /\ SF_vars(TakeRemove(c))

FairSpec == Spec /\ Fairness

-----------------------------------------------------------------------------

Lives == {"out", "registering", "joining", "sending", "waiting", "removing", "done", "failed"}

TypeOK ==
  /\ kind \in [Clients -> Protocols]
  /\ life \in [Clients -> Lives]
  /\ queue \in [Clients -> Seq({"initial", "update"})]
  /\ \A c \in Clients : Len(queue[c]) <= Cap
  /\ left \in SUBSET Clients /\ closed \in SUBSET Clients
  /\ watcher \in [Clients -> {"none", "watching", "telling", "over"}]
  /\ drain \in [Clients -> {"none", "running", "telling", "leaving", "over"}]
  /\ registered \in SUBSET Clients
  /\ telling \in Clients \cup {None}

(* The adapter has closed the session over a value that it could not write.*)
GivenUp(c) == c \in closed /\ life[c] # "failed"

(* Each session keeps to what broker and adapters promise each other: one  *)
(* initial result, updates from the time the query is there, and removal   *)
(* only of a client that has left or was given up (subscriber.go:15-17).   *)
LifeOf(c) == INSTANCE SubscriberLife WITH
  life  <- IF life[c] = "registering" THEN "joining" ELSE life[c],
  queue <- queue[c],
  over  <- c \in left \/ GivenUp(c)

SessionsKeepThePromise ==
  /\ \A c \in Clients : LifeOf(c)!Init
  /\ [][\A c \in Clients : LifeOf(c)!Next \/ UNCHANGED LifeOf(c)!vars]_vars

(* NewSubscriber does not listen, and never will: its query failed, or it  *)
(* waits for room in a channel that nobody drains any more.                *)
Deaf(c) ==
  \/ life[c] = "failed"
  \/ life[c] = "sending" /\ Len(queue[c]) = Cap /\ drain[c] # "running"

ManagerStuck == telling # None /\ Deaf(telling)

(* A client that leaves while the broker waits for it is removed in the    *)
(* end: over HTTP always, over a WebSocket unless the manager is stuck     *)
(* with another client, over TCP once a write has failed and another value *)
(* comes.                                                                  *)
DepartedAreRemoved ==
  \A c \in Clients :
    (life[c] = "waiting" /\ c \in left
       /\ (kind[c] = "http" \/ kind[c] = "ws" \/ (c \in closed /\ queue[c] # <<>>)))
      ~> (life[c] = "done" \/ (kind[c] = "ws" /\ ManagerStuck))

(* A client that stays and reads gets its initial result or an error, over *)
(* whatever protocol and whatever the others do, unless its adapter gives  *)
(* it up over an update before, or the WebSocket manager is stuck with     *)
(* another client.                                                         *)
StayersAreServed ==
  \A c \in Readers :
    (life[c] \in {"registering", "joining"})
      ~> (life[c] \in {"waiting", "removing", "done", "failed"}
            \/ c \in left \/ GivenUp(c)
            \/ (kind[c] = "ws" /\ ManagerStuck))

(* websocket/handlers.go:117 "get rid of old connections": the manager     *)
(* gets rid of every connection whose ping has failed.                     *)
OldConnectionsAreRemoved ==
  \A c \in Clients : (drain[c] = "leaving") ~> (c \notin registered)

=============================================================================

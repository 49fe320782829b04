---------------------------- MODULE SessionsProofs ----------------------------
(***************************************************************************)
(* Every session keeps to SubscriberLife, for any number of clients over   *)
(* any of the protocols and any size of their channels.                    *)
(***************************************************************************)
EXTENDS Sessions, SequenceTheorems, TLAPS

(* Whoever is about to tell the broker that a session is over is right.    *)
(* A TCP drain tells it of any closed session; when one is closed because  *)
(* its query has failed, nobody listens.  Values to write come only once   *)
(* the query is there.                                                     *)
Early == {"out", "registering", "joining", "failed"}

ToldIsOver ==
  /\ \A c \in Clients : watcher[c] = "telling" => c \in left
  /\ \A c \in Clients : drain[c] = "telling" => c \in closed
  /\ \A c \in Clients : drain[c] = "leaving" => c \in left
  /\ \A c \in closed : c \in left \/ life[c] \notin Early \ {"failed"}
  /\ \A c \in Clients : life[c] \in Early => queue[c] = <<>>
  /\ telling # None => telling \in left

SessionInv == TypeOK /\ ToldIsOver

LEMMA SequencesOfItems ==
  ASSUME NEW q \in Seq({"initial", "update"}), q # <<>>
  PROVE  Tail(q) \in Seq({"initial", "update"}) /\ Len(Tail(q)) = Len(q) - 1 /\ Len(q) \in Nat
OBVIOUS

LEMMA SessionInit == ASSUME SessionAssumption PROVE Init => SessionInv
<1> SUFFICES ASSUME Init PROVE SessionInv
  OBVIOUS
<1> USE DEF Init
<1>1. TypeOK
  <2>1. \A c \in Clients : Len(queue[c]) <= Cap
    BY DEF SessionAssumption
  <2> QED
    BY <2>1 DEF TypeOK, Lives
<1>2. ToldIsOver
  BY DEF ToldIsOver
<1> QED
  BY <1>1, <1>2 DEF SessionInv

-----------------------------------------------------------------------------
(* Types.                                                                  *)

(* The channel of a client gets one value more, or loses its first. *)
Queueing(c) ==
  \/ UNCHANGED queue
  \/ \E item \in {"initial", "update"} :
       Len(queue[c]) < Cap /\ queue' = [queue EXCEPT ![c] = Append(@, item)]
  \/ queue[c] # <<>> /\ queue' = [queue EXCEPT ![c] = Tail(@)]

LEMMA QueueType ==
  ASSUME SessionAssumption, TypeOK, NEW c \in Clients, Queueing(c)
  PROVE  /\ queue' \in [Clients -> Seq({"initial", "update"})]
         /\ \A d \in Clients : Len(queue'[d]) <= Cap
<1> USE DEF TypeOK
<1>0. queue[c] \in Seq({"initial", "update"}) /\ Len(queue[c]) \in Nat /\ Cap \in Nat
  BY DEF SessionAssumption
<1>1. CASE UNCHANGED queue
  BY <1>1
<1>2. ASSUME NEW item \in {"initial", "update"}, Len(queue[c]) < Cap,
             queue' = [queue EXCEPT ![c] = Append(@, item)]
      PROVE  /\ queue' \in [Clients -> Seq({"initial", "update"})]
             /\ \A d \in Clients : Len(queue'[d]) <= Cap
  <2>1. /\ Append(queue[c], item) \in Seq({"initial", "update"})
        /\ Len(Append(queue[c], item)) = Len(queue[c]) + 1
    BY <1>0
  <2> QED
    BY <1>0, <1>2, <2>1
<1>3. CASE queue[c] # <<>> /\ queue' = [queue EXCEPT ![c] = Tail(@)]
  BY <1>0, <1>3, SequencesOfItems
<1> QED
  BY <1>1, <1>2, <1>3 DEF Queueing

(* What a step of one client does to its life, as far as SubscriberLife    *)
(* distinguishes.                                                          *)
Over(c) == c \in left \/ GivenUp(c)

LifeStep(c) ==
  \/ /\ life[c] = "out" /\ life'[c] \in {"registering", "joining"}
     /\ queue' = queue /\ (Over(c)' <=> Over(c))
  \/ /\ life[c] = "registering" /\ life'[c] = "joining"
     /\ queue' = queue /\ (Over(c)' <=> Over(c))
  \/ /\ life[c] = "joining" /\ life'[c] \in {"sending", "failed"}
     /\ queue' = queue /\ (Over(c)' <=> Over(c))
  \/ /\ life[c] = "sending" /\ life'[c] = "waiting"
     /\ Len(queue[c]) < Cap /\ queue' = [queue EXCEPT ![c] = Append(@, "initial")]
     /\ (Over(c)' <=> Over(c))
  \/ /\ life[c] = "waiting" /\ Over(c) /\ life'[c] = "removing"
     /\ queue' = queue /\ (Over(c)' <=> Over(c))
  \/ /\ life[c] = "removing" /\ life'[c] = "done"
     /\ queue' = queue /\ (Over(c)' <=> Over(c))
  \/ /\ life'[c] = life[c] /\ life[c] \in {"sending", "waiting", "removing", "done"}
     /\ Len(queue[c]) < Cap /\ queue' = [queue EXCEPT ![c] = Append(@, "update")]
     /\ (Over(c)' <=> Over(c))
  \/ /\ life'[c] = life[c] /\ queue[c] # <<>> /\ queue' = [queue EXCEPT ![c] = Tail(@)]
     /\ (Over(c) => Over(c)')
  \/ /\ life'[c] = life[c] /\ life[c] # "out" /\ queue' = queue
     /\ ~Over(c) /\ Over(c)'
  \/ /\ life'[c] = life[c] /\ queue' = queue /\ (Over(c)' <=> Over(c))

ClientStep(c) ==
  \/ Start(c) \/ Update(c) \/ Depart(c)
  \/ NewSubscriber(c) \/ Drain(c) \/ Tell(c)
  \/ watchForClose(c) \/ Initialize(c) \/ Ping(c) \/ TakeRemove(c)

LEMMA OneLife ==
  ASSUME SessionAssumption, SessionInv, NEW c \in Clients, ClientStep(c)
  PROVE  LifeStep(c)
<1> USE DEF SessionInv, TypeOK, GoTo, Over, GivenUp
<1>0. c \in closed => c \in left \/ life[c] \notin Early \ {"failed"}
  BY DEF ToldIsOver
<1>1. CASE Start(c)
  BY <1>0, <1>1 DEF Start, StartHTTPSubscriber, StartTCPJSONSubscriber, Arrive, StartSubscriber,
                    LifeStep, Early, adapter
<1>2. CASE Update(c)
  BY <1>2 DEF Update, LifeStep, adapter
<1>3. CASE Depart(c)
  BY <1>3 DEF Depart, broker, adapter, LifeStep
<1>4. CASE NewSubscriber(c)
  <2>1. CASE GetQuery(c)
    BY <1>0, <2>1 DEF GetQuery, LifeStep, Early
  <2>2. CASE SendInitial(c)
    BY <2>2 DEF SendInitial, LifeStep, adapter
  <2>3. CASE removeSubscriber(c)
    BY <2>3 DEF removeSubscriber, LifeStep, adapter
  <2> QED
    BY <1>4, <2>1, <2>2, <2>3 DEF NewSubscriber
<1>5. CASE Drain(c)
  BY <1>5 DEF Drain, DrainHTTP, DrainTCP, DrainWS, DrainBW, LifeStep, adapter
<1>6. CASE Tell(c)
  <2>1. c \in left \/ c \in closed
    <3>1. CASE TellHTTP(c)
      BY <3>1 DEF TellHTTP, ToldIsOver
    <3>2. CASE TellTCP(c)
      BY <3>2 DEF TellTCP, ToldIsOver
    <3>3. CASE TellWS(c)
      BY <3>3 DEF TellWS, ToldIsOver, SessionAssumption
    <3> QED
      BY <1>6, <3>1, <3>2, <3>3 DEF Tell
  <2> QED
    BY <1>6, <2>1 DEF Tell, TellHTTP, TellTCP, TellWS, LifeStep, adapter
<1>7. CASE watchForClose(c)
  BY <1>7 DEF watchForClose, broker, LifeStep
<1>8. CASE Initialize(c)
  BY <1>0, <1>8 DEF Initialize, LifeStep, Early
<1>9. CASE Ping(c)
  BY <1>9 DEF Ping, broker, LifeStep
<1>10. CASE TakeRemove(c)
  BY <1>10 DEF TakeRemove, broker, LifeStep
<1> QED
  BY <1>1, <1>2, <1>3, <1>4, <1>5, <1>6, <1>7, <1>8, <1>9, <1>10 DEF ClientStep

(* It changes nothing of another client. *)
LEMMA OthersStay ==
  ASSUME SessionAssumption, SessionInv, NEW c \in Clients, ClientStep(c), NEW d \in Clients \ {c}
  PROVE  /\ life'[d] = life[d] /\ queue'[d] = queue[d]
         /\ (d \in left' <=> d \in left) /\ (d \in closed' <=> d \in closed)
<1> USE DEF SessionInv, TypeOK, GoTo, broker, adapter
<1>1. CASE Start(c)
  BY <1>1 DEF Start, StartHTTPSubscriber, StartTCPJSONSubscriber, Arrive, StartSubscriber
<1>2. CASE Update(c) \/ Depart(c)
  BY <1>2 DEF Update, Depart
<1>3. CASE NewSubscriber(c)
  BY <1>3 DEF NewSubscriber, GetQuery, SendInitial, removeSubscriber
<1>4. CASE Drain(c)
  BY <1>4 DEF Drain, DrainHTTP, DrainTCP, DrainWS, DrainBW
<1>5. CASE Tell(c)
  BY <1>5 DEF Tell, TellHTTP, TellTCP, TellWS
<1>6. CASE watchForClose(c) \/ Initialize(c) \/ Ping(c) \/ TakeRemove(c)
  BY <1>6 DEF watchForClose, Initialize, Ping, TakeRemove
<1> QED
  BY <1>1, <1>2, <1>3, <1>4, <1>5, <1>6 DEF ClientStep

(* Every step has LifeStep's effect on the client's channel. *)
LEMMA LifeQueues == ASSUME NEW c \in Clients, LifeStep(c) PROVE Queueing(c)
BY DEF LifeStep, Queueing

(* Types, action by action. *)
LEMMA StepTypes ==
  ASSUME SessionAssumption, SessionInv, NEW c \in Clients, ClientStep(c)
  PROVE  TypeOK'
<1>1. /\ queue' \in [Clients -> Seq({"initial", "update"})]
      /\ \A d \in Clients : Len(queue'[d]) <= Cap
  BY OneLife, LifeQueues, QueueType DEF SessionInv
<1>2. /\ kind' \in [Clients -> Protocols]
      /\ life' \in [Clients -> Lives]
      /\ left' \in SUBSET Clients /\ closed' \in SUBSET Clients
      /\ watcher' \in [Clients -> {"none", "watching", "telling", "over"}]
      /\ drain' \in [Clients -> {"none", "running", "telling", "leaving", "over"}]
      /\ registered' \in SUBSET Clients
      /\ telling' \in Clients \cup {None}
  <2> USE DEF SessionInv, TypeOK, GoTo, Lives
  <2>1. CASE Start(c)
    <3>1. CASE StartHTTPSubscriber(c)
      BY <3>1 DEF StartHTTPSubscriber, manager
    <3>2. CASE StartTCPJSONSubscriber(c)
      BY <3>2 DEF StartTCPJSONSubscriber, manager
    <3>3. CASE Arrive(c)
      BY <3>3 DEF Arrive, manager, adapter
    <3>4. CASE StartSubscriber(c)
      BY <3>4 DEF StartSubscriber, manager
    <3> QED
      BY <2>1, <3>1, <3>2, <3>3, <3>4 DEF Start
  <2>2. CASE Update(c)
    BY <2>2 DEF Update, manager, adapter
  <2>3. CASE Depart(c)
    BY <2>3 DEF Depart, broker, manager, adapter
  <2>4. CASE GetQuery(c)
    BY <2>4 DEF GetQuery, manager
  <2>5. CASE SendInitial(c) \/ removeSubscriber(c)
    BY <2>5 DEF SendInitial, removeSubscriber, manager, adapter
  <2>6. CASE Drain(c)
    BY <2>6 DEF Drain, DrainHTTP, DrainTCP, DrainWS, DrainBW, manager, adapter
  <2>7. CASE Tell(c)
    <3>1. CASE TellHTTP(c)
      BY <3>1 DEF TellHTTP, manager
    <3>2. CASE TellTCP(c)
      BY <3>2 DEF TellTCP, manager
    <3>3. CASE TellWS(c)
      BY <3>3 DEF TellWS, adapter
    <3> QED
      BY <2>7, <3>1, <3>2, <3>3 DEF Tell
  <2>8. CASE watchForClose(c)
    BY <2>8 DEF watchForClose, broker, manager
  <2>9. CASE Initialize(c)
    BY <2>9 DEF Initialize
  <2>10. CASE Ping(c)
    BY <2>10 DEF Ping, broker, manager
  <2>11. CASE TakeRemove(c)
    BY <2>11 DEF TakeRemove, broker
  <2> QED
    BY <2>1, <2>2, <2>3, <2>4, <2>5, <2>6, <2>7, <2>8, <2>9, <2>10, <2>11
    DEF ClientStep, NewSubscriber
<1> QED
  BY <1>1, <1>2 DEF TypeOK

(* Who tells is right: after every step. *)
LEMMA StepTold ==
  ASSUME SessionAssumption, SessionInv, NEW c \in Clients, ClientStep(c)
  PROVE  ToldIsOver'
<1> USE DEF SessionInv, TypeOK, ToldIsOver, Early, GoTo
<1>1. CASE Start(c)
  <2>1. CASE StartHTTPSubscriber(c)
    BY <2>1 DEF StartHTTPSubscriber, manager
  <2>2. CASE StartTCPJSONSubscriber(c)
    BY <2>2 DEF StartTCPJSONSubscriber, manager
  <2>3. CASE Arrive(c)
    BY <2>3 DEF Arrive, manager, adapter
  <2>4. CASE StartSubscriber(c)
    BY <2>4 DEF StartSubscriber, manager
  <2> QED
    BY <1>1, <2>1, <2>2, <2>3, <2>4 DEF Start
<1>2. CASE Update(c)
  BY <1>2 DEF Update, manager, adapter
<1>3. CASE Depart(c)
  BY <1>3 DEF Depart, broker, manager, adapter
<1>4. CASE GetQuery(c)
  BY <1>4 DEF GetQuery, manager
<1>5. CASE SendInitial(c) \/ removeSubscriber(c)
  <2>1. CASE SendInitial(c)
    BY <2>1 DEF SendInitial, manager, adapter
  <2>2. CASE removeSubscriber(c)
    BY <2>2 DEF removeSubscriber, manager, adapter
  <2> QED
    BY <1>5, <2>1, <2>2
<1>6. CASE Drain(c)
  BY <1>6 DEF Drain, DrainHTTP, DrainTCP, DrainWS, DrainBW, manager, adapter
<1>7. CASE Tell(c)
  <2>1. CASE TellHTTP(c)
    BY <2>1 DEF TellHTTP, manager
  <2>2. CASE TellTCP(c)
    BY <2>2 DEF TellTCP, manager
  <2>3. CASE TellWS(c)
    BY <2>3 DEF TellWS, adapter
  <2> QED
    BY <1>7, <2>1, <2>2, <2>3 DEF Tell
<1>8. CASE watchForClose(c)
  BY <1>8 DEF watchForClose, broker, manager
<1>9. CASE Initialize(c)
  BY <1>9 DEF Initialize
<1>10. CASE Ping(c)
  BY <1>10 DEF Ping, broker, manager
<1>11. CASE TakeRemove(c)
  BY <1>11 DEF TakeRemove, broker
<1> QED
  BY <1>1, <1>2, <1>3, <1>4, <1>5, <1>6, <1>7, <1>8, <1>9, <1>10, <1>11
  DEF ClientStep, NewSubscriber

LEMMA SessionStep == ASSUME SessionAssumption, SessionInv, [Next]_vars PROVE SessionInv'
<1>1. ASSUME NEW c \in Clients, ClientStep(c) PROVE SessionInv'
  BY <1>1, StepTypes, StepTold DEF SessionInv
<1>2. CASE UNCHANGED vars
  BY <1>2 DEF vars, broker, adapter, manager, SessionInv, TypeOK, ToldIsOver
<1> QED
  BY <1>1, <1>2 DEF Next, ClientStep

-----------------------------------------------------------------------------
(* Refinement.                                                             *)

(* A step of client c is one of SubscriberLife for it, or none. *)
LEMMA StepOfLife ==
  ASSUME SessionAssumption, SessionInv, NEW c \in Clients, LifeStep(c)
  PROVE  LifeOf(c)!Next \/ UNCHANGED LifeOf(c)!vars
<1> USE DEF LifeOf!vars, Over
<1>1. CASE life[c] = "out" /\ life'[c] \in {"registering", "joining"} /\ queue' = queue /\ (Over(c)' <=> Over(c))
  <2>1. LifeOf(c)!Begin
    BY <1>1 DEF LifeOf!Begin
  <2> QED
    BY <2>1 DEF LifeOf!Next
<1>2. CASE life[c] = "registering" /\ life'[c] = "joining" /\ queue' = queue /\ (Over(c)' <=> Over(c))
  BY <1>2
<1>3. CASE life[c] = "joining" /\ life'[c] \in {"sending", "failed"} /\ queue' = queue /\ (Over(c)' <=> Over(c))
  <2>1. LifeOf(c)!Created
    BY <1>3 DEF LifeOf!Created
  <2> QED
    BY <2>1 DEF LifeOf!Next
<1>4. ASSUME NEW item \in {"initial", "update"}, queue' = [queue EXCEPT ![c] = Append(@, item)],
             Len(queue[c]) < Cap
      PROVE  LifeOf(c)!Put(item)
  BY <1>4 DEF LifeOf!Put, SessionInv, TypeOK
<1>5. CASE /\ life[c] = "sending" /\ life'[c] = "waiting"
           /\ Len(queue[c]) < Cap /\ queue' = [queue EXCEPT ![c] = Append(@, "initial")]
           /\ (Over(c)' <=> Over(c))
  <2>1. LifeOf(c)!SendInitial
    BY <1>4, <1>5 DEF LifeOf!SendInitial
  <2> QED
    BY <2>1 DEF LifeOf!Next
<1>6. CASE life[c] = "waiting" /\ Over(c) /\ life'[c] = "removing" /\ queue' = queue /\ (Over(c)' <=> Over(c))
  <2>1. LifeOf(c)!Notice
    BY <1>6 DEF LifeOf!Notice
  <2> QED
    BY <2>1 DEF LifeOf!Next
<1>7. CASE life[c] = "removing" /\ life'[c] = "done" /\ queue' = queue /\ (Over(c)' <=> Over(c))
  <2>1. LifeOf(c)!Removed
    BY <1>7 DEF LifeOf!Removed
  <2> QED
    BY <2>1 DEF LifeOf!Next
<1>8. CASE /\ life'[c] = life[c] /\ life[c] \in {"sending", "waiting", "removing", "done"}
           /\ Len(queue[c]) < Cap /\ queue' = [queue EXCEPT ![c] = Append(@, "update")]
           /\ (Over(c)' <=> Over(c))
  <2>1. LifeOf(c)!Update
    BY <1>4, <1>8 DEF LifeOf!Update, LifeOf!Listed
  <2> QED
    BY <2>1 DEF LifeOf!Next
<1>9. CASE /\ life'[c] = life[c] /\ queue[c] # <<>> /\ queue' = [queue EXCEPT ![c] = Tail(@)]
           /\ (Over(c) => Over(c)')
  <2>1. LifeOf(c)!Take
    BY <1>9 DEF LifeOf!Take, SessionInv, TypeOK
  <2> QED
    BY <2>1 DEF LifeOf!Next
<1>10. CASE /\ life'[c] = life[c] /\ life[c] # "out" /\ queue' = queue
            /\ ~Over(c) /\ Over(c)'
  <2>1. LifeOf(c)!Depart
    BY <1>10 DEF LifeOf!Depart
  <2> QED
    BY <2>1 DEF LifeOf!Next
<1>11. CASE life'[c] = life[c] /\ queue' = queue /\ (Over(c)' <=> Over(c))
  BY <1>11
<1> QED
  BY <1>1, <1>2, <1>3, <1>5, <1>6, <1>7, <1>8, <1>9, <1>10, <1>11 DEF LifeStep

(* A step of another client changes nothing of it. *)
LEMMA OtherLives ==
  ASSUME SessionAssumption, SessionInv, NEW c \in Clients, ClientStep(c), NEW d \in Clients \ {c}
  PROVE  UNCHANGED LifeOf(d)!vars
BY OthersStay DEF LifeOf!vars, GivenUp

(* Every session behaves as SubscriberLife has it, whatever protocol it is *)
(* over and however the others interleave: in particular NewSubscriber is  *)
(* told only of clients that have left, or that their adapter gave up over *)
(* a value it could not write (plugins' subscriber.go, handlers'           *)
(* watchForClose, handleSubscriber and manager).                           *)
THEOREM SessionsImplementLife == Spec => SessionsKeepThePromise
<1>1. Init => SessionInv /\ \A c \in Clients : LifeOf(c)!Init
  <2>1. Init => SessionInv
    BY SessionInit, SessionAssumption
  <2>2. ASSUME Init, NEW c \in Clients PROVE LifeOf(c)!Init
    BY <2>2 DEF Init, LifeOf!Init, GivenUp
  <2> QED
    BY <2>1, <2>2
<1>2. SessionInv /\ [Next]_vars => SessionInv'
  BY SessionStep, SessionAssumption
<1>3. SessionInv /\ [Next]_vars =>
        [\A c \in Clients : LifeOf(c)!Next \/ UNCHANGED LifeOf(c)!vars]_vars
  <2>1. ASSUME SessionInv, NEW c \in Clients, ClientStep(c), NEW d \in Clients
        PROVE  LifeOf(d)!Next \/ UNCHANGED LifeOf(d)!vars
    BY <2>1, OneLife, StepOfLife, OtherLives, SessionAssumption
  <2>2. Next <=> \E c \in Clients : ClientStep(c)
    BY DEF Next, ClientStep
  <2> QED
    BY <2>1, <2>2
<1> QED
  BY <1>1, <1>2, <1>3, PTL DEF Spec, SessionsKeepThePromise

(* The variables of the adapters keep their types, and no channel holds    *)
(* more than its buffer.                                                   *)
THEOREM SessionTypes == Spec => []TypeOK
<1>1. Init => SessionInv
  BY SessionInit, SessionAssumption
<1>2. SessionInv /\ [Next]_vars => SessionInv'
  BY SessionStep, SessionAssumption
<1>3. SessionInv => TypeOK
  BY DEF SessionInv
<1> QED
  BY <1>1, <1>2, <1>3, PTL DEF Spec

=============================================================================

---------------------------- MODULE SubscriberLife ----------------------------
(***************************************************************************)
(* What the broker and a protocol adapter promise each other about one     *)
(* subscriber (archiver/subscriber.go): the broker may queue updates once  *)
(* its query is there, sends the initial result exactly once, waits until  *)
(* the adapter reports that the session is over, and only then removes it: *)
(* it is over once the client has left, or once the adapter has given it   *)
(* up over a value that it could not write.                                *)
(* Modules Broker and Sessions implement this specification, the first     *)
(* with the broker in detail, the second with the adapters.                *)
(***************************************************************************)
EXTENDS Naturals, Sequences

CONSTANT Cap  \* buffer size of Subscriber.C

VARIABLES
  life,   \* how far NewSubscriber has come
  queue,  \* Subscriber.C
  over    \* has the client left, or its adapter given it up?

vars == <<life, queue, over>>

Lives == {"out", "joining", "sending", "waiting", "removing", "done", "failed"}

Init ==
  /\ life = "out"
  /\ queue = <<>>
  /\ over = FALSE

(* GetQuery creates the query, or finds it. *)
Begin ==
  /\ life = "out"
  /\ life' \in {"joining", "sending"}
  /\ UNCHANGED <<queue, over>>

Created ==
  /\ life = "joining"
  /\ life' \in {"sending", "failed"}
  /\ UNCHANGED <<queue, over>>

Put(item) ==
  /\ Len(queue) < Cap
  /\ queue' = Append(queue, item)

SendInitial ==
  /\ life = "sending"
  /\ life' = "waiting"
  /\ Put("initial")
  /\ UNCHANGED over

Listed == life \in {"sending", "waiting", "removing", "done"}

Update ==
  /\ Listed
  /\ Put("update")
  /\ UNCHANGED <<life, over>>

(* A value received from Subscriber.closed. *)
Notice ==
  /\ life = "waiting"
  /\ over
  /\ life' = "removing"
  /\ UNCHANGED <<queue, over>>

Removed ==
  /\ life = "removing"
  /\ life' = "done"
  /\ UNCHANGED <<queue, over>>

(* The adapter takes a value; it may give the client up if it cannot write *)
(* it. *)
Take ==
  /\ queue # <<>>
  /\ queue' = Tail(queue)
  /\ over' \in {over, TRUE}
  /\ UNCHANGED life

Depart ==
  /\ life # "out" /\ ~over
  /\ over' = TRUE
  /\ UNCHANGED <<life, queue>>

Next ==
  \/ Begin \/ Created \/ SendInitial \/ Update \/ Notice \/ Removed
  \/ Take \/ Depart

Spec == Init /\ [][Next]_vars

=============================================================================

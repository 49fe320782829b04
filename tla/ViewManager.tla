------------------------------ MODULE ViewManager ------------------------------
(***************************************************************************)
(* The BOSSWAVE view manager (plugins/bosswave/views): metadata messages   *)
(* keep a small database of records, a view is the set of URIs whose       *)
(* record satisfies its expression, and a forwarder brings the messages of *)
(* each such URI to the view.  The program creates one view                *)
(* (service.go:70), so the expressions map holds it alone once it is added.*)
(* Each metadata message is handled by a goroutine of the worker pool,     *)
(* while Handle sets the view up.                                          *)
(***************************************************************************)
EXTENDS Naturals, FiniteSets

CONSTANTS
  URIs,           \* URIs with metadata; the record's key is not part of them
  Workers,        \* goroutines of the worker pool
  Handler,        \* the goroutine inside Handle
  Messages,       \* metadata messages that can arrive
  None,
  SubscribeFails, \* may a Subscribe return an error?
  MaxMessages     \* bound: metadata messages in a behaviour

Procs == Workers \cup {Handler}

(* GetRecords makes one record of each payload object, all of them alike;  *)
(* if they are not valid none is inserted. *)
MessageType == [uri : URIs, matches : BOOLEAN, empty : BOOLEAN, copies : 0..2]

ASSUME ViewAssumption ==
  /\ Messages \subseteq MessageType
  /\ Handler \notin Workers
  /\ None \notin URIs \cup Procs
  /\ SubscribeFails \in BOOLEAN
  /\ MaxMessages \in Nat

(* A record as far as the view's expression tells records apart. *)
Records == {"absent", "matching", "other"}

(* A URI in View.MatchSet: not there, there with false, there with true. *)
Marks == {"unknown", "false", "true"}

VARIABLES
  records,    \* memoryMetadataDB.records
  listed,     \* is the view in ViewManager.expressions?
  matchSet,   \* View.MatchSet
  forwarders, \* URIs that have a forwarder
  forwarded,  \* URIs whose forwarder has the view in its forwardList
  fwdL,       \* who holds ViewManager.fwdL for writing
  viewL,      \* who holds the view's mutex over several steps
  pc,         \* where each goroutine stands
  again,      \* the message whose second record is still to be inserted
  todo,       \* the answer of Exec that it still has to go through
  cur,        \* the URI it is at
  stale,      \* URIs with a false mark that it still has to stop
  received,   \* messages so far
  matched,    \* history: URIs whose record ever satisfied the expression
  ceased,     \* history: URIs whose record ceased to, with the view listed
  opened,     \* history: subscriptions opened for each URI
  alone,      \* history: no two goroutines were ever at work together
  lastFailed  \* history: did a Subscribe fail since Exec last ran?

view    == <<listed, matchSet, forwarders, forwarded>>
locks   == <<fwdL, viewL>>
locals  == <<again, todo, cur, stale>>
history == <<received, matched, ceased, opened, alone, lastFailed>>
vars    == <<records, view, locks, pc, locals, history>>

(* Exec: the URIs whose record is in the namespaces and satisfies the      *)
(* expression. *)
Matching == {u \in URIs : records[u] = "matching"}

GoTo(p, l) == pc' = [pc EXCEPT ![p] = l]

AtRest(p) == pc[p] \in {"idle", "done"}

Checking(p) == p \in Workers /\ pc[p] \notin {"idle", "insert", "check"}

Init ==
  /\ records = [u \in URIs |-> "absent"]
  /\ listed = FALSE
  /\ matchSet = [u \in URIs |-> "unknown"]
  /\ forwarders = {}
  /\ forwarded = {}
  /\ fwdL = None
  /\ viewL = None
  /\ pc = [p \in Procs |-> IF p = Handler THEN "addview" ELSE "idle"]
  /\ again = [w \in Workers |-> None]
  /\ todo = [p \in Procs |-> {}]
  /\ cur = [p \in Procs |-> None]
  /\ stale = [w \in Workers |-> {}]
  /\ received = 0
  /\ matched = {}
  /\ ceased = {}
  /\ opened = [u \in URIs |-> 0]
  /\ alone = TRUE
  /\ lastFailed = FALSE

(* Handle has not begun until addView; it is at work from then on. *)
Busy(p) == ~AtRest(p) /\ ~(p = Handler /\ pc[p] = "addview")

-----------------------------------------------------------------------------
(* A worker takes a metadata message and inserts its record.               *)

Inserted_Tombstone(m) ==
  IF m.empty /\ records[m.uri] # "absent" THEN "deleted"
  ELSE IF m.matches THEN "matching" ELSE "other"

(* Insert: the record of a URI is replaced whatever key the old and the    *)
(* new one have.  An empty value deletes the record there is; with none it *)
(* is stored like any other.                                               *)
Inserted(m) ==
  IF m.empty /\ records[m.uri] # "absent" THEN "absent"
  ELSE IF m.matches THEN "matching" ELSE "other"

InsertRecord(m) ==
  LET u == m.uri
      r == Inserted(m)
  IN  /\ records' = [records EXCEPT ![u] = r]
      /\ matched' = IF r = "matching" THEN matched \cup {u} ELSE matched
      /\ ceased' = IF listed /\ records[u] = "matching" /\ r # "matching"
                     THEN ceased \cup {u} ELSE ceased

(* Until it has inserted its first record a goroutine touches nothing      *)
(* shared, so the arrival of a message and that Insert are one step.       *)
Insert(w) ==
  /\ pc[w] = "idle"
  /\ received < MaxMessages
  /\ received' = received + 1
  /\ \E m \in Messages :
       /\ IF m.copies = 0 THEN UNCHANGED <<records, matched, ceased>> ELSE InsertRecord(m)
       /\ IF m.copies = 2
            THEN GoTo(w, "insert") /\ again' = [again EXCEPT ![w] = m]
            ELSE GoTo(w, "check") /\ UNCHANGED again
  /\ alone' = (alone /\ \A p \in Procs : ~Busy(p))
  /\ UNCHANGED <<view, locks, todo, cur, stale, opened, lastFailed>>

InsertAgain(w) ==
  /\ pc[w] = "insert"
  /\ InsertRecord(again[w])
  /\ again' = [again EXCEPT ![w] = None]
  /\ GoTo(w, "check")
  /\ UNCHANGED <<view, locks, todo, cur, stale, received, opened, alone, lastFailed>>

-----------------------------------------------------------------------------
(* Handle.                                                                 *)

(* addView takes expL for writing, so no check is under way. *)
AddView ==
  /\ pc[Handler] = "addview"
  /\ \A w \in Workers : ~Checking(w)
  /\ listed' = TRUE
  /\ alone' = (alone /\ \A w \in Workers : AtRest(w))
  /\ GoTo(Handler, "exec")
  /\ UNCHANGED <<records, matchSet, forwarders, forwarded, locks, locals,
                 received, matched, ceased, opened, lastFailed>>

HandleExec ==
  /\ pc[Handler] = "exec"
  /\ todo' = [todo EXCEPT ![Handler] = Matching]
  /\ lastFailed' = FALSE
  /\ GoTo(Handler, "loop")
  /\ UNCHANGED <<records, view, locks, again, cur, stale, received, matched, ceased, opened, alone>>

HandleNext ==
  /\ pc[Handler] = "loop"
  /\ \E u \in todo[Handler] :
       /\ cur' = [cur EXCEPT ![Handler] = u]
       /\ todo' = [todo EXCEPT ![Handler] = @ \ {u}]
  /\ GoTo(Handler, "start")
  /\ UNCHANGED <<records, view, locks, again, stale, history>>

HandleDone ==
  /\ pc[Handler] = "loop" /\ todo[Handler] = {}
  /\ GoTo(Handler, "done")
  /\ UNCHANGED <<records, view, locks, locals, history>>

-----------------------------------------------------------------------------
(* startForwarding, by either.                                             *)

Subscribe_NoLookup(p) ==
  /\ pc[p] = "start"
  /\ fwdL = None
  /\ opened' = [opened EXCEPT ![cur[p]] = @ + 1]
  /\ forwarders' = forwarders \cup {cur[p]}
  /\ forwarded' = forwarded \cup {cur[p]}
  /\ fwdL' = p
  /\ GoTo(p, "register")
  /\ UNCHANGED <<records, listed, matchSet, viewL, locals, received, matched, ceased,
                 alone, lastFailed>>

(* fwdL is held from here to Register.  On an error Handle returns and a   *)
(* check goes on with the next URI, leaving this one unmarked.             *)
Subscribe(p) ==
  /\ pc[p] = "start"
  /\ fwdL = None
  /\ LET u == cur[p] IN
       \/ /\ u \notin forwarders /\ SubscribeFails
          /\ lastFailed' = TRUE
          /\ cur' = [cur EXCEPT ![p] = None]
          /\ todo' = IF p = Handler THEN [todo EXCEPT ![p] = {}] ELSE todo
          /\ GoTo(p, IF p = Handler THEN "done" ELSE "loop")
          /\ UNCHANGED <<view, fwdL, opened>>
       \/ /\ opened' = IF u \in forwarders THEN opened ELSE [opened EXCEPT ![u] = @ + 1]
          /\ forwarders' = forwarders \cup {u}
          /\ forwarded' = forwarded \cup {u}
          /\ fwdL' = p
          /\ GoTo(p, "register")
          /\ UNCHANGED <<listed, matchSet, todo, cur, lastFailed>>
  /\ UNCHANGED <<records, viewL, again, stale, received, matched, ceased, alone>>

Register_NoMark(p) ==
  /\ pc[p] = "register"
  /\ viewL = None
  /\ fwdL' = None
  /\ GoTo(p, "send")
  /\ UNCHANGED <<records, view, viewL, locals, history>>

(* The view's mutex is taken while fwdL is held. *)
Register(p) ==
  /\ pc[p] = "register"
  /\ viewL = None
  /\ matchSet' = [matchSet EXCEPT ![cur[p]] = "true"]
  /\ fwdL' = None
  /\ GoTo(p, "send")
  /\ UNCHANGED <<records, listed, forwarders, forwarded, viewL, locals, history>>

(* The record is sent under fwdL, to a channel that drops when it is full. *)
Send(p) ==
  /\ pc[p] = "send"
  /\ fwdL = None
  /\ IF p = Handler
       THEN GoTo(p, "loop") /\ cur' = [cur EXCEPT ![p] = None]
       ELSE GoTo(p, "mark") /\ UNCHANGED cur
  /\ UNCHANGED <<records, view, locks, again, todo, stale, history>>

-----------------------------------------------------------------------------
(* checkViews.                                                             *)

(* expL is held for reading from here to EndCheck.  Exec reads the records *)
(* as they are now. *)
StartCheck(w) ==
  /\ pc[w] = "check"
  /\ \/ /\ ~listed
        /\ GoTo(w, "idle")
        /\ UNCHANGED <<todo, lastFailed>>
     \/ /\ listed
        /\ todo' = [todo EXCEPT ![w] = Matching]
        /\ lastFailed' = FALSE
        /\ GoTo(w, "reset")
  /\ UNCHANGED <<records, view, locks, again, cur, stale, received, matched, ceased, opened, alone>>

Reset_Nothing(w) ==
  /\ pc[w] = "reset"
  /\ viewL = None
  /\ GoTo(w, "loop")
  /\ UNCHANGED <<records, view, locks, locals, history>>

(* _setMatchSetTo(false). *)
Reset(w) ==
  /\ pc[w] = "reset"
  /\ viewL = None
  /\ matchSet' = [u \in URIs |-> IF matchSet[u] = "unknown" THEN "unknown" ELSE "false"]
  /\ GoTo(w, "loop")
  /\ UNCHANGED <<records, listed, forwarders, forwarded, locks, locals, history>>

(* Did the URI previously match?  A false mark counts as found. *)
Look(w) ==
  /\ pc[w] = "loop" /\ w \in Workers
  /\ viewL = None
  /\ \E u \in todo[w] :
       /\ cur' = [cur EXCEPT ![w] = u]
       /\ todo' = [todo EXCEPT ![w] = @ \ {u}]
       /\ GoTo(w, IF matchSet[u] = "unknown" THEN "start" ELSE "mark")
  /\ UNCHANGED <<records, view, locks, again, stale, history>>

Mark(w) ==
  /\ pc[w] = "mark"
  /\ viewL = None
  /\ matchSet' = [matchSet EXCEPT ![cur[w]] = "true"]
  /\ cur' = [cur EXCEPT ![w] = None]
  /\ GoTo(w, "loop")
  /\ UNCHANGED <<records, listed, forwarders, forwarded, locks, again, todo, stale, history>>

(* The view's mutex is held from here to EndCheck. *)
LockView(w) ==
  /\ pc[w] = "loop" /\ w \in Workers /\ todo[w] = {}
  /\ viewL = None
  /\ viewL' = w
  /\ stale' = [stale EXCEPT ![w] = {u \in URIs : matchSet[u] = "false"}]
  /\ GoTo(w, "stop")
  /\ UNCHANGED <<records, view, fwdL, again, todo, cur, history>>

(* stopForwarding takes fwdL for reading while the view's mutex is held.   *)
StopForwarding(w) ==
  /\ pc[w] = "stop"
  /\ fwdL = None
  /\ \E u \in stale[w] :
       /\ stale' = [stale EXCEPT ![w] = @ \ {u}]
       /\ forwarded' = forwarded \ {u}
  /\ UNCHANGED <<records, listed, matchSet, forwarders, locks, pc, again, todo, cur, history>>

EndCheck_KeepsLock(w) ==
  /\ pc[w] = "stop" /\ stale[w] = {}
  /\ GoTo(w, "idle")
  /\ UNCHANGED <<records, view, locks, locals, history>>

EndCheck(w) ==
  /\ pc[w] = "stop" /\ stale[w] = {}
  /\ viewL' = None
  /\ GoTo(w, "idle")
  /\ UNCHANGED <<records, view, fwdL, locals, history>>

-----------------------------------------------------------------------------

HandlerNext == AddView \/ HandleExec \/ HandleNext \/ HandleDone

Forward(p) == Subscribe(p) \/ Register(p) \/ Send(p)

WorkerStep(w) ==
  \/ InsertAgain(w) \/ StartCheck(w) \/ Reset(w) \/ Look(w) \/ Mark(w)
  \/ LockView(w) \/ StopForwarding(w) \/ EndCheck(w)

Next ==
  \/ HandlerNext
  \/ \E p \in Procs : Forward(p)
  \/ \E w \in Workers : Insert(w) \/ WorkerStep(w)

Spec == Init /\ [][Next]_vars

(* Every goroutine that can move does; nothing makes a message arrive. *)
Fairness ==
  /\ WF_vars(HandlerNext \/ Forward(Handler))
  /\ \A w \in Workers : WF_vars(WorkerStep(w) \/ Forward(w))

FairSpec == Spec /\ Fairness

-----------------------------------------------------------------------------

ProcStates == {"idle", "done", "addview", "insert", "check", "exec", "reset", "loop", "start",
               "register", "send", "mark", "stop"}

TypeOK ==
  /\ records \in [URIs -> Records]
  /\ listed \in BOOLEAN
  /\ matchSet \in [URIs -> Marks]
  /\ forwarders \in SUBSET URIs /\ forwarded \in SUBSET URIs
  /\ fwdL \in Procs \cup {None} /\ viewL \in Workers \cup {None}
  /\ pc \in [Procs -> ProcStates]
  /\ again \in [Workers -> Messages \cup {None}]
  /\ todo \in [Procs -> SUBSET URIs]
  /\ cur \in [Procs -> URIs \cup {None}]
  /\ stale \in [Workers -> SUBSET URIs]
  /\ received \in 0..MaxMessages
  /\ matched \in SUBSET URIs /\ ceased \in SUBSET URIs
  /\ opened \in [URIs -> Nat]
  /\ alone \in BOOLEAN /\ lastFailed \in BOOLEAN

(* However checks and Handle overlap, a URI is subscribed to at most once, *)
(* and only if its metadata has satisfied the view at some time            *)
(* (manager.go startForwarding: the lookup and the creation of a forwarder *)
(* are one section under fwdL).                                            *)
OneSubscriptionPerURI ==
  \A u \in URIs : opened[u] <= (IF u \in matched THEN 1 ELSE 0)

(* A URI whose messages reach the view has an entry in the match set, by   *)
(* which a later check can find that it no longer matches, or is about to  *)
(* get one (manager.go startForwarding, checkViews).                       *)
ForwardedIsRemembered ==
  \A u \in forwarded :
    \/ matchSet[u] # "unknown"
    \/ \E p \in Procs : pc[p] = "register" /\ cur[p] = u

Quiet == \A p \in Procs : AtRest(p)

(* views.go:52 "the collection of URIs that this view matches": as long as *)
(* messages come one at a time, the view is brought the messages of just   *)
(* the URIs that match it and have never ceased to, once the last check    *)
(* could subscribe to all it found.                                        *)
ViewIsExact ==
  Quiet /\ alone =>
    /\ forwarded \subseteq Matching
    /\ ~lastFailed => Matching \ ceased \subseteq forwarded

(* A goroutine with the view's mutex and one with fwdL wait for each other.*)
LockCycle ==
  \E w \in Workers, p \in Procs :
    /\ viewL = w /\ pc[w] = "stop" /\ stale[w] # {}
    /\ fwdL = p /\ pc[p] = "register"

(* Every metadata message is handled to its end, and every check over,     *)
(* unless the two locks that startForwarding and checkViews take in        *)
(* opposite orders have closed a cycle: nothing else can block one.        *)
OnlyTheLockCycleBlocks ==
  \A w \in Workers : (pc[w] = "check") ~> (pc[w] = "idle" \/ LockCycle)

(* manager.go:267 "iterate through all expressions and update appropriate  *)
(* forwarders": every check comes to its end.                              *)
CheckTerminates == \A w \in Workers : (pc[w] = "check") ~> (pc[w] = "idle")

(* views.go:29-30 "A view is a group of URIs where the metadata of each    *)
(* URI fulfills the view's predicate": of all that match, also those that  *)
(* had ceased to for a while, the messages are forwarded.                  *)
ViewFollowsMetadata ==
  Quiet /\ alone /\ ~lastFailed => Matching \subseteq forwarded

=============================================================================

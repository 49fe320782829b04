-------------------------- MODULE ViewManagerProofs --------------------------
(* What the view manager keeps however checks and Handle overlap, for any  *)
(* number of workers, URIs and messages.                                   *)
EXTENDS ViewManager, TLAPS

(* A goroutine inside startForwarding or before Mark is at a URI, and one  *)
(* about to insert again has a message. *)
LocalsOK ==
  /\ \A p \in Procs : pc[p] \in {"start", "register", "send", "mark"} => cur[p] \in URIs
  /\ \A w \in Workers : pc[w] = "insert" => again[w] \in Messages

(* Every URI on its way to a subscription was an answer of Exec, so its    *)
(* record satisfied the expression when Exec read it. *)
FromAnswers ==
  /\ \A u \in URIs : records[u] = "matching" => u \in matched
  /\ \A p \in Procs : todo[p] \subseteq matched
  /\ \A p \in Procs : cur[p] \in URIs => cur[p] \in matched

(* A forwarder is kept for ever, and stands for the one subscription. *)
ForwardersCount ==
  /\ forwarders \subseteq matched
  /\ \A u \in URIs : opened[u] = IF u \in forwarders THEN 1 ELSE 0

Inv == TypeOK /\ LocalsOK /\ FromAnswers /\ ForwardersCount /\ ForwardedIsRemembered

LEMMA NoneIsApart == ASSUME ViewAssumption PROVE None \notin URIs /\ Handler \notin Workers
BY DEF ViewAssumption

-----------------------------------------------------------------------------
LEMMA InitInv == ASSUME ViewAssumption PROVE Init => Inv
<1> SUFFICES ASSUME Init PROVE Inv
  OBVIOUS
<1> USE NoneIsApart DEF Init
<1>1. TypeOK
  <2>1. pc \in [Procs -> ProcStates]
    BY DEF ProcStates
  <2>2. received \in 0..MaxMessages
    BY DEF ViewAssumption
  <2>3. /\ records \in [URIs -> Records] /\ matchSet \in [URIs -> Marks]
        /\ opened \in [URIs -> Nat]
    BY DEF Records, Marks
  <2> QED
    BY <2>1, <2>2, <2>3 DEF TypeOK
<1>2. LocalsOK
  BY DEF LocalsOK, Procs
<1>3. FromAnswers
  BY DEF FromAnswers
<1>4. ForwardersCount
  BY DEF ForwardersCount
<1>5. ForwardedIsRemembered
  BY DEF ForwardedIsRemembered
<1> QED
  BY <1>1, <1>2, <1>3, <1>4, <1>5 DEF Inv

(* A record is inserted: what satisfies the expression is remembered. *)
LEMMA InsertRecordKeeps ==
  ASSUME TypeOK, FromAnswers, ViewAssumption, NEW m \in Messages, InsertRecord(m)
  PROVE  /\ records' \in [URIs -> Records]
         /\ matched' \in SUBSET URIs /\ ceased' \in SUBSET URIs
         /\ matched \subseteq matched'
         /\ \A u \in URIs : records'[u] = "matching" => u \in matched'
<1>1. m.uri \in URIs
  BY DEF ViewAssumption, MessageType
<1>2. Inserted(m) \in Records
  BY DEF Inserted, Records
<1> QED
  BY <1>1, <1>2 DEF InsertRecord, TypeOK, FromAnswers

(* Steps that leave the view and the goroutines' places in a check alone.  *)
LEMMA InsertInv ==
  ASSUME ViewAssumption, Inv, NEW w \in Workers, Insert(w) \/ InsertAgain(w)
  PROVE  Inv'
<1> USE DEF Inv
<1>1. /\ pc[w] \in {"idle", "insert"}
      /\ \/ pc' = [pc EXCEPT ![w] = "check"]
         \/ pc' = [pc EXCEPT ![w] = "insert"] /\ again'[w] \in Messages
      /\ \A x \in Workers : x # w => again'[x] = again[x]
      /\ again' \in [Workers -> Messages \cup {None}]
  BY DEF Insert, InsertAgain, GoTo, TypeOK
<1>2. UNCHANGED <<view, locks, todo, cur, stale, opened, lastFailed>>
  BY DEF Insert, InsertAgain
<1>3. received' \in 0..MaxMessages /\ alone' \in BOOLEAN
  <2>1. CASE Insert(w)
    <3>1. received \in 0..MaxMessages /\ received < MaxMessages /\ received' = received + 1
      BY <2>1 DEF Insert, TypeOK
    <3>2. alone' = (alone /\ \A p \in Procs : ~Busy(p))
      BY <2>1 DEF Insert
    <3>3. received' \in 0..MaxMessages
      BY <3>1 DEF ViewAssumption
    <3> QED
      BY <3>2, <3>3
  <2>2. CASE InsertAgain(w)
    BY <2>2 DEF InsertAgain, TypeOK
  <2> QED
    BY <2>1, <2>2
<1>4. /\ records' \in [URIs -> Records]
      /\ matched' \in SUBSET URIs /\ ceased' \in SUBSET URIs
      /\ matched \subseteq matched'
      /\ \A u \in URIs : records'[u] = "matching" => u \in matched'
  <2>1. CASE UNCHANGED <<records, matched, ceased>>
    BY <2>1 DEF TypeOK, FromAnswers
  <2>2. CASE \E m \in Messages : InsertRecord(m)
    BY <2>2, InsertRecordKeeps
  <2>3. CASE InsertAgain(w)
    BY <2>2, <2>3 DEF InsertAgain, LocalsOK
  <2>4. CASE Insert(w)
    BY <2>1, <2>2, <2>4 DEF Insert
  <2> QED
    BY <2>3, <2>4
<1>5. TypeOK'
  BY <1>1, <1>2, <1>3, <1>4 DEF TypeOK, ProcStates, Procs, view, locks
<1>6. LocalsOK'
  BY <1>1, <1>2 DEF LocalsOK, TypeOK, Procs
<1>7. FromAnswers'
  BY <1>2, <1>4 DEF FromAnswers
<1>8. ForwardersCount'
  BY <1>2, <1>4 DEF ForwardersCount, view
<1>9. ForwardedIsRemembered'
  <2>1. \A p \in Procs : pc[p] = "register" => pc'[p] = "register"
    BY <1>1 DEF TypeOK
  <2> QED
    BY <1>2, <2>1 DEF ForwardedIsRemembered, view
<1> QED
  BY <1>5, <1>6, <1>7, <1>8, <1>9

-----------------------------------------------------------------------------
(* The steps that open no subscription, insert no record and mark no new   *)
(* URI: they take URIs out of answers of Exec only, and let nobody leave   *)
(* "register". *)
Moves ==
  /\ UNCHANGED <<records, matched, forwarders, opened>>
  /\ \A p \in Procs : todo'[p] \subseteq todo[p] \cup Matching
  /\ \A p \in Procs : cur'[p] \in URIs => cur'[p] = cur[p] \/ cur'[p] \in todo[p]
  /\ forwarded' \subseteq forwarded
  /\ \A u \in URIs : matchSet[u] # "unknown" => matchSet'[u] # "unknown"
  /\ \A p \in Procs : pc[p] = "register" => pc'[p] = "register" /\ cur'[p] = cur[p]

LEMMA MovesKeep ==
  ASSUME Inv, Moves
  PROVE  FromAnswers' /\ ForwardersCount' /\ ForwardedIsRemembered'
<1> USE DEF Inv, Moves
<1>1. FromAnswers'
  BY DEF FromAnswers, Matching
<1>2. ForwardersCount'
  BY DEF ForwardersCount
<1>3. ForwardedIsRemembered'
  <2> SUFFICES ASSUME NEW u \in forwarded', matchSet'[u] = "unknown"
               PROVE  \E p \in Procs : pc'[p] = "register" /\ cur'[p] = u
    BY DEF ForwardedIsRemembered
  <2>1. u \in forwarded /\ matchSet[u] = "unknown"
    BY DEF TypeOK
  <2> QED
    BY <2>1 DEF ForwardedIsRemembered
<1> QED
  BY <1>1, <1>2, <1>3

LEMMA HandlerInv == ASSUME ViewAssumption, Inv, HandlerNext PROVE Inv'
<1> USE DEF Inv
<1>0. Handler \in Procs /\ \A w \in Workers : w # Handler
  BY NoneIsApart DEF Procs
<1>1. CASE AddView
  <2>1. TypeOK'
    BY <1>0, <1>1 DEF AddView, GoTo, TypeOK, ProcStates, locks, locals
  <2>2. LocalsOK'
    BY <1>0, <1>1 DEF AddView, GoTo, TypeOK, LocalsOK, locals
  <2>3. Moves
    BY <1>0, <1>1 DEF AddView, GoTo, TypeOK, Moves, locals
  <2> QED
    BY <2>1, <2>2, <2>3, MovesKeep
<1>2. CASE HandleExec
  <2>1. TypeOK'
    BY <1>0, <1>2 DEF HandleExec, GoTo, TypeOK, ProcStates, locks, view, Matching
  <2>2. LocalsOK'
    BY <1>0, <1>2 DEF HandleExec, GoTo, TypeOK, LocalsOK
  <2>3. Moves
    BY <1>0, <1>2 DEF HandleExec, GoTo, TypeOK, Moves, view
  <2> QED
    BY <2>1, <2>2, <2>3, MovesKeep
<1>3. CASE HandleNext
  <2>1. TypeOK'
    BY <1>0, <1>3 DEF HandleNext, GoTo, TypeOK, ProcStates, locks, view, history
  <2>2. LocalsOK'
    BY <1>0, <1>3 DEF HandleNext, GoTo, TypeOK, LocalsOK
  <2>3. Moves
    BY <1>0, <1>3 DEF HandleNext, GoTo, TypeOK, Moves, view, history
  <2> QED
    BY <2>1, <2>2, <2>3, MovesKeep
<1>4. CASE HandleDone
  <2>1. TypeOK'
    BY <1>0, <1>4 DEF HandleDone, GoTo, TypeOK, ProcStates, locks, view, locals, history
  <2>2. LocalsOK'
    BY <1>0, <1>4 DEF HandleDone, GoTo, TypeOK, LocalsOK, locals
  <2>3. Moves
    BY <1>0, <1>4 DEF HandleDone, GoTo, TypeOK, Moves, view, locals, history
  <2> QED
    BY <2>1, <2>2, <2>3, MovesKeep
<1> QED
  BY <1>1, <1>2, <1>3, <1>4 DEF HandlerNext

(* The steps of a check but those of startForwarding. *)
LEMMA CheckInv ==
  ASSUME ViewAssumption, Inv, NEW w \in Workers, WorkerStep(w), ~InsertAgain(w)
  PROVE  Inv'
<1> USE DEF Inv
<1>0. w \in Procs
  BY DEF Procs
<1>1. CASE StartCheck(w)
  <2>1. /\ pc' = [pc EXCEPT ![w] = "idle"] \/ pc' = [pc EXCEPT ![w] = "reset"]
        /\ todo' = todo \/ todo' = [todo EXCEPT ![w] = Matching]
        /\ lastFailed' \in BOOLEAN
        /\ UNCHANGED <<records, view, locks, again, cur, stale, received, matched, ceased,
                       opened, alone>>
    BY <1>1 DEF StartCheck, GoTo, TypeOK
  <2>2. pc' \in [Procs -> ProcStates] /\ todo' \in [Procs -> SUBSET URIs]
    BY <1>0, <2>1 DEF TypeOK, ProcStates, Matching
  <2>3. TypeOK'
    BY <2>1, <2>2 DEF TypeOK, view, locks
  <2>4. LocalsOK'
    BY <1>0, <2>1 DEF TypeOK, LocalsOK, Procs
  <2>5. Moves
    BY <1>0, <1>1, <2>1 DEF StartCheck, TypeOK, Moves, view
  <2> QED
    BY <2>3, <2>4, <2>5, MovesKeep
<1>2. CASE Reset(w)
  <2>1. TypeOK'
    BY <1>0, <1>2 DEF Reset, GoTo, TypeOK, ProcStates, locks, locals, history, Marks
  <2>2. LocalsOK'
    BY <1>0, <1>2 DEF Reset, GoTo, TypeOK, LocalsOK, locks, locals, history, Marks
  <2>3. Moves
    BY <1>0, <1>2 DEF Reset, GoTo, TypeOK, Moves, locks, locals, history, Marks
  <2> QED
    BY <2>1, <2>2, <2>3, MovesKeep
<1>3. CASE Look(w)
  <2>1. TypeOK'
    BY <1>0, <1>3 DEF Look, GoTo, TypeOK, ProcStates, locks, view, history
  <2>2. LocalsOK'
    BY <1>0, <1>3 DEF Look, GoTo, TypeOK, LocalsOK, locks, view, history
  <2>3. Moves
    BY <1>0, <1>3 DEF Look, GoTo, TypeOK, Moves, locks, view, history
  <2> QED
    BY <2>1, <2>2, <2>3, MovesKeep
<1>4. CASE Mark(w)
  <2>1. TypeOK'
    BY <1>0, <1>4 DEF Mark, GoTo, TypeOK, ProcStates, locks, history, Marks
  <2>2. LocalsOK'
    BY <1>0, <1>4 DEF Mark, GoTo, TypeOK, LocalsOK, locks, history, Marks
  <2>3. Moves
    BY <1>0, <1>4 DEF Mark, GoTo, TypeOK, Moves, locks, history, Marks
  <2> QED
    BY <2>1, <2>2, <2>3, MovesKeep
<1>5. CASE LockView(w)
  <2>1. TypeOK'
    BY <1>0, <1>5 DEF LockView, GoTo, TypeOK, ProcStates, view, history, locks
  <2>2. LocalsOK'
    BY <1>0, <1>5 DEF LockView, GoTo, TypeOK, LocalsOK, view, history, locks
  <2>3. Moves
    BY <1>0, <1>5 DEF LockView, GoTo, TypeOK, Moves, view, history, locks
  <2> QED
    BY <2>1, <2>2, <2>3, MovesKeep
<1>6. CASE StopForwarding(w)
  <2>1. TypeOK'
    BY <1>0, <1>6 DEF StopForwarding, GoTo, TypeOK, ProcStates, locks, history
  <2>2. LocalsOK'
    BY <1>0, <1>6 DEF StopForwarding, GoTo, TypeOK, LocalsOK, locks, history
  <2>3. Moves
    BY <1>0, <1>6 DEF StopForwarding, GoTo, TypeOK, Moves, locks, history
  <2> QED
    BY <2>1, <2>2, <2>3, MovesKeep
<1>7. CASE EndCheck(w)
  <2>1. TypeOK'
    BY <1>0, <1>7 DEF EndCheck, GoTo, TypeOK, ProcStates, view, locals, history
  <2>2. LocalsOK'
    BY <1>0, <1>7 DEF EndCheck, GoTo, TypeOK, LocalsOK, view, locals, history
  <2>3. Moves
    BY <1>0, <1>7 DEF EndCheck, GoTo, TypeOK, Moves, view, locals, history
  <2> QED
    BY <2>1, <2>2, <2>3, MovesKeep
<1> QED
  BY <1>1, <1>2, <1>3, <1>4, <1>5, <1>6, <1>7 DEF WorkerStep

-----------------------------------------------------------------------------
(* startForwarding subscribes once: the lookup of the forwarder and its    *)
(* creation are one step, and the URI was an answer of Exec. *)
LEMMA SubscribeInv ==
  ASSUME ViewAssumption, Inv, NEW p \in Procs, Subscribe(p)
  PROVE  Inv'
<1> USE DEF Inv
<1>1. cur[p] \in URIs /\ cur[p] \in matched /\ pc[p] = "start"
  BY DEF Subscribe, LocalsOK, FromAnswers
<1>2. CASE UNCHANGED <<view, fwdL, opened>>
  <2>1. /\ lastFailed' = TRUE
        /\ cur' = [cur EXCEPT ![p] = None]
        /\ todo' = todo \/ todo' = [todo EXCEPT ![p] = {}]
        /\ pc' = [pc EXCEPT ![p] = "done"] \/ pc' = [pc EXCEPT ![p] = "loop"]
        /\ UNCHANGED <<records, viewL, again, stale, received, matched, ceased, alone>>
    BY <1>1, <1>2, NoneIsApart DEF Subscribe, GoTo, view, TypeOK, ViewAssumption, Procs
  <2>2. TypeOK'
    BY <1>2, <2>1 DEF TypeOK, ProcStates, view
  <2>3. LocalsOK'
    BY <2>1 DEF TypeOK, LocalsOK, Procs
  <2>4. Moves
    BY <1>1, <1>2, <2>1, NoneIsApart DEF TypeOK, Moves, view
  <2> QED
    BY <2>2, <2>3, <2>4, MovesKeep
<1>3. CASE UNCHANGED <<listed, matchSet, todo, cur, lastFailed>> /\ fwdL' = p
  <2>1. /\ opened' = IF cur[p] \in forwarders THEN opened ELSE [opened EXCEPT ![cur[p]] = @ + 1]
        /\ forwarders' = forwarders \cup {cur[p]}
        /\ forwarded' = forwarded \cup {cur[p]}
        /\ pc' = [pc EXCEPT ![p] = "register"]
        /\ UNCHANGED <<records, viewL, again, stale, received, matched, ceased, alone>>
    BY <1>3 DEF Subscribe, GoTo, view, TypeOK
  <2>2. TypeOK'
    BY <1>1, <1>3, <2>1 DEF TypeOK, ProcStates
  <2>3. LocalsOK'
    BY <1>1, <1>3, <2>1 DEF TypeOK, LocalsOK
  <2>4. FromAnswers'
    BY <1>3, <2>1 DEF FromAnswers
  <2>5. ForwardersCount'
    BY <1>1, <2>1 DEF ForwardersCount, TypeOK
  <2>6. ForwardedIsRemembered'
    BY <1>1, <1>3, <2>1 DEF ForwardedIsRemembered, TypeOK
  <2> QED
    BY <2>2, <2>3, <2>4, <2>5, <2>6
<1> QED
  BY <1>2, <1>3 DEF Subscribe

(* The mark is set by whoever added the URI to the forwarded ones. *)
LEMMA RegisterInv ==
  ASSUME ViewAssumption, Inv, NEW p \in Procs, Register(p)
  PROVE  Inv'
<1> USE DEF Inv
<1>1. /\ cur[p] \in URIs /\ pc[p] = "register"
      /\ matchSet' = [matchSet EXCEPT ![cur[p]] = "true"]
      /\ pc' = [pc EXCEPT ![p] = "send"]
      /\ fwdL' = None
      /\ UNCHANGED <<records, listed, forwarders, forwarded, viewL, locals, history>>
  BY DEF Register, GoTo, LocalsOK
<1>2. TypeOK'
  BY <1>1 DEF TypeOK, ProcStates, Marks, locals, history
<1>3. LocalsOK'
  BY <1>1 DEF TypeOK, LocalsOK, locals
<1>4. FromAnswers' /\ ForwardersCount'
  BY <1>1 DEF FromAnswers, ForwardersCount, locals, history
<1>5. ForwardedIsRemembered'
  <2> SUFFICES ASSUME NEW u \in forwarded, matchSet'[u] = "unknown"
               PROVE  \E q \in Procs : pc'[q] = "register" /\ cur'[q] = u
    BY <1>1 DEF ForwardedIsRemembered
  <2>1. u \in URIs /\ u # cur[p] /\ matchSet[u] = "unknown"
    BY <1>1 DEF TypeOK
  <2>2. PICK q \in Procs : pc[q] = "register" /\ cur[q] = u
    BY <2>1 DEF ForwardedIsRemembered
  <2> QED
    BY <1>1, <2>1, <2>2 DEF TypeOK, locals
<1> QED
  BY <1>2, <1>3, <1>4, <1>5

LEMMA SendInv ==
  ASSUME ViewAssumption, Inv, NEW p \in Procs, Send(p)
  PROVE  Inv'
<1> USE DEF Inv
<1>1. /\ pc[p] = "send" /\ cur[p] \in URIs
      /\ \/ pc' = [pc EXCEPT ![p] = "loop"] /\ cur' = [cur EXCEPT ![p] = None]
         \/ pc' = [pc EXCEPT ![p] = "mark"] /\ cur' = cur
      /\ UNCHANGED <<records, view, locks, again, todo, stale, history>>
  BY DEF Send, GoTo, LocalsOK
<1>2. TypeOK'
  BY <1>1 DEF TypeOK, ProcStates, view, locks, history
<1>3. LocalsOK'
  BY <1>1 DEF TypeOK, LocalsOK, Procs
<1>4. Moves
  BY <1>1, NoneIsApart DEF TypeOK, Moves, view, history
<1> QED
  BY <1>2, <1>3, <1>4, MovesKeep

-----------------------------------------------------------------------------
LEMMA StepInv == ASSUME ViewAssumption, Inv, [Next]_vars PROVE Inv'
<1>1. CASE HandlerNext
  BY <1>1, HandlerInv
<1>2. ASSUME NEW p \in Procs, Forward(p) PROVE Inv'
  BY <1>2, SubscribeInv, RegisterInv, SendInv DEF Forward
<1>3. ASSUME NEW w \in Workers, Insert(w) \/ WorkerStep(w) PROVE Inv'
  BY <1>3, InsertInv, CheckInv
<1>4. CASE UNCHANGED vars
  BY <1>4 DEF vars, view, locks, locals, history, Inv, TypeOK, LocalsOK, FromAnswers,
              ForwardersCount, ForwardedIsRemembered
<1> QED
  BY <1>1, <1>2, <1>3, <1>4 DEF Next

LEMMA InvHolds == Spec => []Inv
<1>1. Init => Inv
  BY InitInv, ViewAssumption
<1>2. Inv /\ [Next]_vars => Inv'
  BY StepInv, ViewAssumption
<1> QED
  BY <1>1, <1>2, PTL DEF Spec

(* The variables of the view manager keep their types. *)
THEOREM ViewTypeCorrect == Spec => []TypeOK
<1>1. Inv => TypeOK
  BY DEF Inv
<1> QED
  BY <1>1, InvHolds, PTL

(* A URI is subscribed to at most once, and only if its record has once    *)
(* satisfied the expression (manager.go startForwarding).                  *)
THEOREM SubscribedOnce == Spec => []OneSubscriptionPerURI
<1>1. Inv => OneSubscriptionPerURI
  BY DEF Inv, ForwardersCount, OneSubscriptionPerURI
<1> QED
  BY <1>1, InvHolds, PTL

(* Whatever is forwarded has an entry in the match set or is about to get  *)
(* one (manager.go startForwarding, checkViews).                           *)
THEOREM NothingForwardedIsForgotten == Spec => []ForwardedIsRemembered
<1>1. Inv => ForwardedIsRemembered
  BY DEF Inv
<1> QED
  BY <1>1, InvHolds, PTL

-----------------------------------------------------------------------------
(* As long as messages come one at a time.                                 *)

InCheck == {"reset", "loop", "start", "register", "send", "mark", "stop"}

(* Who may stand where, and what is behind it then.  *)
Places ==
  /\ pc[Handler] \in {"addview", "exec", "loop", "start", "register", "send", "done"}
  /\ \A w \in Workers : pc[w] \in {"idle", "insert", "check"} \cup InCheck
  /\ \A p \in Procs : pc[p] \in {"addview", "exec", "reset", "loop", "stop"} => cur[p] = None
  /\ \A w \in Workers : pc[w] \in {"idle", "insert", "check", "stop"} => todo[w] = {} /\ cur[w] = None

(* Before Handle has added the view no check gets far. *)
Listed ==
  /\ listed <=> pc[Handler] # "addview"
  /\ \A w \in Workers : Checking(w) => listed
  /\ ~listed => forwarded = {} /\ \A u \in URIs : matchSet[u] = "unknown"

OneAtWork == \A p, q \in Procs : Busy(p) /\ Busy(q) => p = q

(* An entry of the match set is forwarded and matches, or has ceased to.   *)
KnownAreForwarded ==
  \A u \in URIs : matchSet[u] # "unknown" /\ u \notin ceased => u \in forwarded /\ records[u] = "matching"

(* Every URI that matches is still to be gone through, or the one at hand, *)
(* or marked, or could not be subscribed to.                               *)
Accounted(p) ==
  \A u \in Matching : \/ u \in todo[p] \/ u = cur[p] \/ matchSet[u] = "true"
                      \/ matchSet[u] = "unknown" /\ lastFailed

(* What is known where the goroutine is. *)
AtHand(p) ==
  /\ pc[p] = "reset" => Matching \subseteq todo[p]
  /\ pc[p] = "start" /\ p \in Workers => matchSet[cur[p]] = "unknown"
  /\ pc[p] = "register" => cur[p] \in forwarded
  /\ pc[p] = "send" => matchSet[cur[p]] = "true"
  /\ pc[p] = "mark" => matchSet[cur[p]] # "unknown"

(* A check's marks are those of URIs that match; it stops only such as     *)
(* ceased to, and when it has stopped them the rest match.                 *)
Marked(p) ==
  /\ pc[p] # "reset" /\ p \in Workers => \A u \in URIs : matchSet[u] = "true" => u \in Matching
  /\ pc[p] = "stop" => stale[p] \subseteq ceased /\ forwarded \subseteq Matching \cup stale[p]

InHand(p) ==
  /\ todo[p] \subseteq Matching
  /\ cur[p] # None => cur[p] \in Matching
  /\ Accounted(p) /\ AtHand(p) /\ Marked(p)

(* What a check leaves behind. *)
LeftBehind ==
  /\ (\A w \in Workers : ~Busy(w)) => forwarded \subseteq Matching
  /\ (\A p \in Procs : ~Busy(p)) /\ listed /\ ~lastFailed => \A u \in Matching : matchSet[u] # "unknown"

OneAtATime ==
  alone => /\ OneAtWork /\ KnownAreForwarded /\ LeftBehind
           /\ \A p \in Procs : pc[p] \in InCheck => InHand(p)

ExactInv == Inv /\ Places /\ Listed /\ OneAtATime

LEMMA ExactInit == ASSUME ViewAssumption, Init PROVE ExactInv
<1> USE NoneIsApart
<1>1. Inv
  BY InitInv
<1>2. pc[Handler] = "addview" /\ \A w \in Workers : pc[w] = "idle"
  BY DEF Init, Procs
<1>3. Places
  BY <1>2 DEF Init, Places, Procs
<1>4. Listed
  BY <1>2 DEF Init, Listed, Checking
<1>5. \A p \in Procs : ~Busy(p)
  BY <1>2 DEF Busy, AtRest, Procs
<1>6. OneAtATime
  BY <1>2, <1>5 DEF Init, OneAtATime, OneAtWork, KnownAreForwarded, LeftBehind, InCheck, Procs
<1> QED
  BY <1>1, <1>3, <1>4, <1>6 DEF ExactInv

(* Who is where says who is at work. *)
LEMMA WhoIsBusy ==
  ASSUME ViewAssumption, Places
  PROVE  /\ \A w \in Workers : Busy(w) <=> pc[w] # "idle"
         /\ Busy(Handler) <=> pc[Handler] \notin {"addview", "done"}
         /\ \A p \in Procs : pc[p] \in InCheck => Busy(p)
BY NoneIsApart DEF Places, Busy, AtRest, Procs, InCheck

(* A step of p: the others stay where they are. *)
OnlyMoves(p) ==
  \A q \in Procs : q # p => pc'[q] = pc[q] /\ todo'[q] = todo[q] /\ cur'[q] = cur[q]

LEMMA PlacesStep ==
  ASSUME ViewAssumption, Places, NEW p \in Procs, OnlyMoves(p),
         p = Handler => pc'[p] \in {"addview", "exec", "loop", "start", "register", "send", "done"},
         p \in Workers => pc'[p] \in {"idle", "insert", "check"} \cup InCheck,
         pc'[p] \in {"addview", "exec", "reset", "loop", "stop"} => cur'[p] = None,
         p \in Workers /\ pc'[p] \in {"idle", "insert", "check", "stop"} => todo'[p] = {} /\ cur'[p] = None
  PROVE  Places'
<1>1. pc'[Handler] \in {"addview", "exec", "loop", "start", "register", "send", "done"}
  BY DEF Places, OnlyMoves, Procs
<1>2. ASSUME NEW w \in Workers
      PROVE  /\ pc'[w] \in {"idle", "insert", "check"} \cup InCheck
             /\ pc'[w] \in {"idle", "insert", "check", "stop"} => todo'[w] = {} /\ cur'[w] = None
  BY DEF Places, OnlyMoves, Procs
<1>3. ASSUME NEW q \in Procs PROVE pc'[q] \in {"addview", "exec", "reset", "loop", "stop"} => cur'[q] = None
  BY DEF Places, OnlyMoves
<1> QED
  BY <1>1, <1>2, <1>3 DEF Places, InCheck

(* A step that does not touch the view's list and what is forwarded before *)
(* the view is listed. *)
LEMMA ListedStep ==
  ASSUME ViewAssumption, Listed, NEW p \in Procs, OnlyMoves(p),
         listed' = listed,
         p = Handler => (pc'[p] = "addview" <=> pc[p] = "addview"),
         p \in Workers /\ pc'[p] \notin {"idle", "insert", "check"} => listed,
         listed \/ (forwarded' = forwarded /\ matchSet' = matchSet)
  PROVE  Listed'
<1>1. listed' <=> pc'[Handler] # "addview"
  BY DEF Listed, OnlyMoves, Procs
<1>2. ASSUME NEW w \in Workers PROVE Checking(w)' => listed'
  BY DEF Listed, Checking, OnlyMoves, Procs
<1> QED
  BY <1>1, <1>2 DEF Listed

(* If p alone is at work, what is to be shown of a step of p. *)
LEMMA AloneStep ==
  ASSUME ViewAssumption, Places, OneAtATime, NEW p \in Procs, OnlyMoves(p),
         alone' => alone /\ \A q \in Procs : q # p => ~Busy(q),
         alone' => KnownAreForwarded' /\ LeftBehind',
         alone' /\ pc'[p] \in InCheck => InHand(p)'
  PROVE  OneAtATime'
<1> SUFFICES ASSUME alone' PROVE OneAtATime'
  BY DEF OneAtATime
<1>1. \A q \in Procs : q # p => ~Busy(q) /\ Busy(q)' = Busy(q)
  BY DEF OnlyMoves, Busy, AtRest
<1>2. OneAtWork'
  BY <1>1 DEF OneAtWork
<1>3. ASSUME NEW q \in Procs, pc'[q] \in InCheck PROVE InHand(q)'
  <2>1. q = p
    BY <1>1, <1>3, WhoIsBusy DEF OnlyMoves
  <2> QED
    BY <1>3, <2>1
<1> QED
  BY <1>2, <1>3 DEF OneAtATime, InCheck


LEMMA OthersRest ==
  ASSUME OneAtATime, alone, NEW p \in Procs, Busy(p)
  PROVE  \A q \in Procs : q # p => ~Busy(q)
BY DEF OneAtATime, OneAtWork

(* A record that ceases to satisfy the expression is noted once the view   *)
(* is listed, and before that no URI is known.                             *)
LEMMA InsertKnown ==
  ASSUME ViewAssumption, Inv, Listed, KnownAreForwarded,
         UNCHANGED <<records, matched, ceased>> \/ \E m \in Messages : InsertRecord(m),
         UNCHANGED view
  PROVE  KnownAreForwarded'
<1>1. CASE UNCHANGED <<records, matched, ceased>>
  BY <1>1 DEF KnownAreForwarded, view
<1>2. ASSUME NEW m \in Messages, InsertRecord(m) PROVE KnownAreForwarded'
  <2>1. m.uri \in URIs /\ records \in [URIs -> Records]
    BY DEF ViewAssumption, MessageType, Inv, TypeOK
  <2> SUFFICES ASSUME NEW u \in URIs, matchSet[u] # "unknown", u \notin ceased'
               PROVE  u \in forwarded /\ records'[u] = "matching"
    BY DEF KnownAreForwarded, view
  <2>2. listed
    BY DEF Listed
  <2>3. ceased \subseteq ceased'
    BY <1>2 DEF InsertRecord
  <2>4. u \in forwarded /\ records[u] = "matching"
    BY <2>3 DEF KnownAreForwarded
  <2>5. CASE u = m.uri
    BY <1>2, <2>1, <2>2, <2>4, <2>5 DEF InsertRecord
  <2>6. CASE u # m.uri
    BY <1>2, <2>1, <2>4, <2>6 DEF InsertRecord
  <2> QED
    BY <2>4, <2>5, <2>6
<1> QED
  BY <1>1, <1>2

LEMMA InsertExact ==
  ASSUME ViewAssumption, ExactInv, NEW w \in Workers, Insert(w) \/ InsertAgain(w)
  PROVE  Places' /\ Listed' /\ OneAtATime'
<1> USE DEF ExactInv
<1>0. w \in Procs /\ w # Handler
  BY NoneIsApart DEF Procs
<1>1. /\ pc[w] \in {"idle", "insert"}
      /\ pc' = [pc EXCEPT ![w] = "check"] \/ pc' = [pc EXCEPT ![w] = "insert"]
      /\ UNCHANGED <<view, locks, todo, cur, stale, opened, lastFailed>>
  BY DEF Insert, InsertAgain, GoTo
<1>2. pc'[w] \in {"insert", "check"} /\ OnlyMoves(w) /\ todo'[w] = {} /\ cur'[w] = None
  BY <1>0, <1>1 DEF OnlyMoves, Inv, TypeOK, Places
<1>3. Places'
  BY <1>0, <1>2, PlacesStep
<1>4. Listed'
  BY <1>0, <1>1, <1>2, ListedStep DEF view
<1>5. ASSUME alone' PROVE alone /\ \A q \in Procs : q # w => ~Busy(q)
  <2>1. CASE Insert(w)
    BY <1>5, <2>1 DEF Insert
  <2>2. CASE InsertAgain(w)
    <3>1. alone /\ pc[w] = "insert"
      BY <1>5, <2>2 DEF InsertAgain
    <3>2. Busy(w)
      BY <3>1, WhoIsBusy
    <3> QED
      BY <1>0, <3>1, <3>2, OthersRest
  <2> QED
    BY <2>1, <2>2
<1>6. ASSUME alone' PROVE KnownAreForwarded' /\ LeftBehind'
  <2>1. KnownAreForwarded
    BY <1>5, <1>6 DEF OneAtATime
  <2>2. UNCHANGED <<records, matched, ceased>> \/ \E m \in Messages : InsertRecord(m)
    <3>1. CASE Insert(w)
      BY <3>1 DEF Insert
    <3>2. CASE InsertAgain(w)
      BY <3>2 DEF InsertAgain, Inv, LocalsOK
    <3> QED
      BY <3>1, <3>2
  <2>3. KnownAreForwarded'
    BY <1>1, <2>1, <2>2, InsertKnown
  <2>4. Busy(w)'
    BY <1>0, <1>2 DEF Busy, AtRest
  <2> QED
    BY <1>0, <2>3, <2>4 DEF LeftBehind
<1>7. pc'[w] \notin InCheck
  BY <1>2 DEF InCheck
<1>8. OneAtATime'
  BY <1>0, <1>2, <1>5, <1>6, <1>7, AloneStep
<1> QED
  BY <1>3, <1>4, <1>8

LEMMA AddViewExact ==
  ASSUME ViewAssumption, ExactInv, AddView
  PROVE  Places' /\ Listed' /\ OneAtATime'
<1> USE DEF ExactInv
<1>0. Handler \in Procs /\ Handler \notin Workers
  BY NoneIsApart DEF Procs
<1>1. /\ pc[Handler] = "addview" /\ pc' = [pc EXCEPT ![Handler] = "exec"]
      /\ listed' = TRUE /\ alone' = (alone /\ \A w \in Workers : AtRest(w))
      /\ UNCHANGED <<records, matchSet, forwarders, forwarded, locks, locals, ceased, lastFailed>>
  BY DEF AddView, GoTo
<1>2. pc'[Handler] = "exec" /\ OnlyMoves(Handler)
  BY <1>0, <1>1 DEF OnlyMoves, Inv, TypeOK, locals
<1>3. ~listed /\ forwarded = {} /\ \A u \in URIs : matchSet[u] = "unknown"
  BY <1>1 DEF Listed
<1>4. Busy(Handler)' /\ cur'[Handler] = None
  BY <1>0, <1>1, <1>2 DEF Busy, AtRest, Places, locals
<1>5. Places'
  BY <1>0, <1>2, <1>4, PlacesStep
<1>6. Listed'
  <2>1. ASSUME NEW w \in Workers PROVE pc'[w] = pc[w]
    BY <1>0, <1>2 DEF OnlyMoves, Procs
  <2> QED
    BY <1>1, <1>2, <2>1 DEF Listed, Checking
<1>7. ASSUME alone' PROVE alone /\ \A q \in Procs : q # Handler => ~Busy(q)
  BY <1>1, <1>7 DEF Busy, Procs
<1>8. KnownAreForwarded' /\ LeftBehind'
  BY <1>0, <1>1, <1>3, <1>4 DEF KnownAreForwarded, LeftBehind
<1>9. pc'[Handler] \notin InCheck
  BY <1>2 DEF InCheck
<1>10. OneAtATime'
  BY <1>0, <1>2, <1>7, <1>8, <1>9, AloneStep
<1> QED
  BY <1>5, <1>6, <1>10

(* While one goroutine is in a check or in Handle and no other at work.    *)
LEMMA Meanwhile ==
  ASSUME ViewAssumption, ExactInv, alone, NEW p \in Procs, Busy(p)
  PROVE  /\ \A q \in Procs : q # p => ~Busy(q)
         /\ KnownAreForwarded
         /\ pc[p] \in InCheck => InHand(p)
         /\ p = Handler => forwarded \subseteq Matching
<1>1. \A q \in Procs : q # p => ~Busy(q)
  BY OthersRest DEF ExactInv
<1>2. p = Handler => \A w \in Workers : ~Busy(w)
  BY <1>1, NoneIsApart DEF Procs
<1> QED
  BY <1>1, <1>2 DEF ExactInv, OneAtATime, LeftBehind

LEMMA HandleExact ==
  ASSUME ViewAssumption, ExactInv, HandleExec \/ HandleNext \/ HandleDone
  PROVE  Places' /\ Listed' /\ OneAtATime'
<1> USE DEF ExactInv
<1>0. Handler \in Procs /\ Handler \notin Workers
  BY NoneIsApart DEF Procs
<1>1. /\ pc[Handler] \in {"exec", "loop"}
      /\ \E l \in {"loop", "start", "done"} : pc' = [pc EXCEPT ![Handler] = l]
      /\ UNCHANGED <<records, view, alone, ceased>>
  BY DEF HandleExec, HandleNext, HandleDone, GoTo, history
<1>2. Busy(Handler) /\ cur[Handler] = None /\ listed
  BY <1>0, <1>1, WhoIsBusy DEF Places, Listed
<1>3. OnlyMoves(Handler) /\ pc'[Handler] \in {"loop", "start", "done"}
  BY <1>0, <1>1 DEF HandleExec, HandleNext, HandleDone, OnlyMoves, Inv, TypeOK, locals
<1>4. pc'[Handler] = "loop" => cur'[Handler] = None
  BY <1>0, <1>1, <1>2 DEF HandleExec, HandleNext, HandleDone, GoTo, Inv, TypeOK, locals
<1>5. Places'
  BY <1>0, <1>3, <1>4, PlacesStep
<1>6. Listed'
  BY <1>0, <1>1, <1>2, <1>3, ListedStep DEF view
<1>7. ASSUME alone PROVE KnownAreForwarded' /\ LeftBehind' /\ (pc'[Handler] \in InCheck => InHand(Handler)')
  <2>1. KnownAreForwarded /\ forwarded \subseteq Matching /\ (pc[Handler] = "loop" => InHand(Handler))
    BY <1>0, <1>2, <1>7, Meanwhile DEF InCheck
  <2>2. KnownAreForwarded' /\ forwarded' \subseteq Matching'
    BY <1>1, <2>1 DEF KnownAreForwarded, view, Matching
  <2>3. CASE HandleExec
    <3>1. pc'[Handler] = "loop" /\ todo'[Handler] = Matching /\ cur'[Handler] = None
      BY <1>0, <1>2, <2>3 DEF HandleExec, GoTo, Inv, TypeOK
    <3>2. InHand(Handler)'
      BY <1>0, <1>1, <3>1 DEF InHand, Accounted, AtHand, Marked, Matching
    <3>3. Busy(Handler)'
      BY <3>1 DEF Busy, AtRest
    <3> QED
      BY <1>0, <2>2, <3>2, <3>3 DEF LeftBehind
  <2>4. CASE HandleNext
    <3>1. PICK u \in todo[Handler] : /\ cur' = [cur EXCEPT ![Handler] = u]
                                     /\ todo' = [todo EXCEPT ![Handler] = @ \ {u}]
      BY <2>4 DEF HandleNext
    <3>2. pc'[Handler] = "start" /\ InHand(Handler) /\ lastFailed' = lastFailed
      BY <1>0, <2>1, <2>4 DEF HandleNext, GoTo, Inv, TypeOK, history
    <3>3. cur'[Handler] = u /\ todo'[Handler] = todo[Handler] \ {u}
      BY <1>0, <3>1 DEF Inv, TypeOK
    <3>4. InHand(Handler)'
      BY <1>0, <1>1, <1>2, <3>2, <3>3, NoneIsApart DEF InHand, Accounted, AtHand, Marked, Matching, view
    <3>5. Busy(Handler)'
      BY <3>2 DEF Busy, AtRest
    <3> QED
      BY <1>0, <2>2, <3>4, <3>5 DEF LeftBehind
  <2>5. CASE HandleDone
    <3>1. pc'[Handler] = "done" /\ InHand(Handler) /\ lastFailed' = lastFailed /\ todo[Handler] = {}
      BY <1>0, <2>1, <2>5 DEF HandleDone, GoTo, Inv, TypeOK, history
    <3>2. ~lastFailed => \A u \in Matching : matchSet[u] # "unknown"
      BY <1>2, <3>1, NoneIsApart DEF InHand, Accounted, Matching
    <3> QED
      BY <1>1, <2>2, <3>1, <3>2 DEF LeftBehind, InCheck, view, Matching
  <2> QED
    BY <2>3, <2>4, <2>5
<1>8. alone' => alone /\ \A q \in Procs : q # Handler => ~Busy(q)
  BY <1>0, <1>1, <1>2, OthersRest
<1>9. OneAtATime'
  BY <1>0, <1>1, <1>3, <1>7, <1>8, AloneStep
<1> QED
  BY <1>5, <1>6, <1>9


(* Such a step, of a worker that is not at its end. *)
LEMMA WorkerStays ==
  ASSUME ViewAssumption, ExactInv, NEW w \in Workers, OnlyMoves(w), pc[w] # "idle",
         pc'[w] \in InCheck, pc'[w] \in {"reset", "loop", "stop"} => cur'[w] = None,
         pc'[w] = "stop" => todo'[w] = {}, listed, listed' = listed, alone' = alone,
         alone => KnownAreForwarded' /\ InHand(w)'
  PROVE  Places' /\ Listed' /\ OneAtATime'
<1> USE DEF ExactInv
<1>0. w \in Procs /\ w # Handler
  BY NoneIsApart DEF Procs
<1>1. Places'
  BY <1>0, PlacesStep DEF InCheck
<1>2. Listed'
  BY <1>0, ListedStep
<1>3. Busy(w) /\ Busy(w)'
  BY <1>0, WhoIsBusy DEF Busy, AtRest, InCheck
<1>4. LeftBehind'
  BY <1>0, <1>3 DEF LeftBehind
<1>5. alone' => alone /\ \A q \in Procs : q # w => ~Busy(q)
  BY <1>0, <1>3, OthersRest
<1>6. OneAtATime'
  BY <1>0, <1>4, <1>5, AloneStep
<1> QED
  BY <1>1, <1>2, <1>6

(* Such a step, of a worker that comes to its end. *)
LEMMA WorkerEnds ==
  ASSUME ViewAssumption, ExactInv, NEW w \in Workers, OnlyMoves(w), pc[w] # "idle",
         pc'[w] = "idle", todo'[w] = {}, cur'[w] = None,
         UNCHANGED <<records, view, ceased, alone, lastFailed>>,
         alone => /\ forwarded \subseteq Matching
                  /\ listed /\ ~lastFailed => \A u \in Matching : matchSet[u] # "unknown"
  PROVE  Places' /\ Listed' /\ OneAtATime'
<1> USE DEF ExactInv
<1>0. w \in Procs /\ w # Handler
  BY NoneIsApart DEF Procs
<1>1. Places'
  BY <1>0, PlacesStep
<1>2. Listed'
  BY <1>0, ListedStep DEF view
<1>3. Busy(w)
  BY <1>0, WhoIsBusy
<1>4. alone => KnownAreForwarded' /\ LeftBehind'
  BY DEF OneAtATime, KnownAreForwarded, LeftBehind, view, Matching
<1>5. alone' => alone /\ \A q \in Procs : q # w => ~Busy(q)
  BY <1>0, <1>3, OthersRest
<1>6. OneAtATime'
  BY <1>0, <1>4, <1>5, AloneStep DEF InCheck
<1> QED
  BY <1>1, <1>2, <1>6

LEMMA StartExact ==
  ASSUME ViewAssumption, ExactInv, NEW w \in Workers, StartCheck(w)
  PROVE  Places' /\ Listed' /\ OneAtATime'
<1> USE DEF ExactInv
<1>0. w \in Procs /\ w # Handler
  BY NoneIsApart DEF Procs
<1>1. /\ pc[w] = "check" /\ cur[w] = None /\ todo[w] = {}
      /\ UNCHANGED <<records, view, cur, ceased, alone>>
  BY DEF StartCheck, Places
<1>2. Busy(w) /\ (alone => KnownAreForwarded)
  BY <1>0, <1>1, WhoIsBusy, Meanwhile
<1>3. CASE ~listed
  <2>1. pc' = [pc EXCEPT ![w] = "idle"] /\ UNCHANGED <<todo, lastFailed>>
    BY <1>3 DEF StartCheck, GoTo
  <2>2. OnlyMoves(w) /\ pc'[w] = "idle"
    BY <1>0, <1>1, <2>1 DEF OnlyMoves, Inv, TypeOK
  <2>3. forwarded = {}
    BY <1>3 DEF Listed
  <2> QED
    BY <1>1, <1>3, <2>1, <2>2, <2>3, WorkerEnds
<1>4. CASE listed
  <2>1. pc' = [pc EXCEPT ![w] = "reset"] /\ todo' = [todo EXCEPT ![w] = Matching]
    BY <1>4 DEF StartCheck, GoTo
  <2>2. OnlyMoves(w) /\ pc'[w] = "reset" /\ todo'[w] = Matching
    BY <1>0, <1>1, <2>1 DEF OnlyMoves, Inv, TypeOK
  <2>3. InHand(w)'
    BY <1>1, <2>2 DEF InHand, Accounted, AtHand, Marked, Matching
  <2>4. alone => KnownAreForwarded'
    BY <1>1, <1>2 DEF KnownAreForwarded, view
  <2> QED
    BY <1>1, <1>4, <2>2, <2>3, <2>4, WorkerStays DEF InCheck, view
<1> QED
  BY <1>3, <1>4

(* The steps in the middle of a check. *)
LEMMA ResetExact ==
  ASSUME ViewAssumption, ExactInv, NEW w \in Workers, Reset(w)
  PROVE  Places' /\ Listed' /\ OneAtATime'
<1> USE DEF ExactInv
<1>0. w \in Procs /\ w # Handler
  BY NoneIsApart DEF Procs
<1>1. /\ pc[w] = "reset" /\ cur[w] = None /\ pc' = [pc EXCEPT ![w] = "loop"]
      /\ matchSet' = [u \in URIs |-> IF matchSet[u] = "unknown" THEN "unknown" ELSE "false"]
      /\ UNCHANGED <<records, listed, forwarded, todo, cur, ceased, alone, lastFailed>>
  BY <1>0 DEF Reset, Places, GoTo, locals, history
<1>2. listed /\ Busy(w) /\ pc[w] \in InCheck
  BY <1>0, <1>1, WhoIsBusy DEF Listed, Checking, InCheck
<1>3. OnlyMoves(w) /\ pc'[w] = "loop"
  BY <1>0, <1>1 DEF OnlyMoves, Inv, TypeOK
<1>4. ASSUME alone PROVE KnownAreForwarded' /\ InHand(w)'
  <2>1. KnownAreForwarded /\ InHand(w)
    BY <1>0, <1>2, <1>4, Meanwhile
  <2>2. KnownAreForwarded'
    BY <1>1, <2>1 DEF KnownAreForwarded
  <2>3. todo[w] \subseteq Matching /\ Matching \subseteq todo[w]
    BY <1>1, <2>1 DEF InHand, AtHand
  <2>4. Accounted(w)' /\ AtHand(w)' /\ todo'[w] \subseteq Matching'
    BY <1>1, <1>3, <2>3 DEF Accounted, AtHand, Matching
  <2>5. Marked(w)'
    BY <1>1, <1>3 DEF Marked
  <2> QED
    BY <1>1, <2>2, <2>4, <2>5 DEF InHand
<1> QED
  BY <1>1, <1>2, <1>3, <1>4, WorkerStays DEF InCheck

LEMMA LookExact ==
  ASSUME ViewAssumption, ExactInv, NEW w \in Workers, Look(w)
  PROVE  Places' /\ Listed' /\ OneAtATime'
<1> USE DEF ExactInv
<1>0. w \in Procs /\ w # Handler
  BY NoneIsApart DEF Procs
<1>1. PICK u \in todo[w] :
        /\ cur' = [cur EXCEPT ![w] = u] /\ todo' = [todo EXCEPT ![w] = @ \ {u}]
        /\ pc' = [pc EXCEPT ![w] = IF matchSet[u] = "unknown" THEN "start" ELSE "mark"]
  BY DEF Look, GoTo
<1>2. pc[w] = "loop" /\ cur[w] = None /\ UNCHANGED <<records, view, ceased, alone, lastFailed>>
  BY <1>0 DEF Look, Places, history
<1>3. listed /\ Busy(w) /\ pc[w] \in InCheck
  BY <1>0, <1>2, WhoIsBusy DEF Listed, Checking, InCheck
<1>4. /\ OnlyMoves(w) /\ cur'[w] = u /\ todo'[w] = todo[w] \ {u}
      /\ pc'[w] = IF matchSet[u] = "unknown" THEN "start" ELSE "mark"
  BY <1>0, <1>1 DEF OnlyMoves, Inv, TypeOK
<1>5. ASSUME alone PROVE KnownAreForwarded' /\ InHand(w)'
  <2>1. KnownAreForwarded /\ InHand(w)
    BY <1>0, <1>3, <1>5, Meanwhile
  <2>2. KnownAreForwarded'
    BY <1>2, <2>1 DEF KnownAreForwarded, view
  <2>3. u \in Matching /\ todo'[w] \subseteq Matching'
    BY <1>2, <1>4, <2>1 DEF InHand, Matching
  <2>4. Accounted(w)'
    BY <1>2, <1>4, <2>1, NoneIsApart DEF InHand, Accounted, Matching, view
  <2>5. AtHand(w)' /\ Marked(w)'
    BY <1>0, <1>2, <1>4, <2>1 DEF InHand, AtHand, Marked, Matching, view
  <2> QED
    BY <1>2, <1>4, <2>2, <2>3, <2>4, <2>5 DEF InHand, Matching
<1> QED
  BY <1>2, <1>3, <1>4, <1>5, WorkerStays DEF InCheck, view

LEMMA MarkExact ==
  ASSUME ViewAssumption, ExactInv, NEW w \in Workers, Mark(w)
  PROVE  Places' /\ Listed' /\ OneAtATime'
<1> USE DEF ExactInv
<1>0. w \in Procs /\ w # Handler
  BY NoneIsApart DEF Procs
<1>1. /\ pc[w] = "mark" /\ cur[w] \in URIs
      /\ pc' = [pc EXCEPT ![w] = "loop"] /\ cur' = [cur EXCEPT ![w] = None]
      /\ matchSet' = [matchSet EXCEPT ![cur[w]] = "true"]
      /\ UNCHANGED <<records, listed, forwarded, todo, ceased, alone, lastFailed>>
  BY <1>0 DEF Mark, GoTo, Inv, LocalsOK, history
<1>2. listed /\ Busy(w) /\ pc[w] \in InCheck
  BY <1>0, <1>1, WhoIsBusy DEF Listed, Checking, InCheck
<1>3. OnlyMoves(w) /\ pc'[w] = "loop" /\ cur'[w] = None /\ todo'[w] = todo[w]
  BY <1>0, <1>1 DEF OnlyMoves, Inv, TypeOK
<1>4. /\ matchSet'[cur[w]] = "true"
      /\ \A u \in URIs : u # cur[w] => matchSet'[u] = matchSet[u]
  BY <1>1 DEF Inv, TypeOK
<1>5. ASSUME alone PROVE KnownAreForwarded' /\ InHand(w)'
  <2>1. KnownAreForwarded /\ InHand(w)
    BY <1>0, <1>2, <1>5, Meanwhile
  <2>2. cur[w] \in Matching /\ matchSet[cur[w]] # "unknown"
    BY <1>1, <2>1, NoneIsApart DEF InHand, AtHand
  <2>3. KnownAreForwarded'
    BY <1>1, <1>4, <2>1, <2>2 DEF KnownAreForwarded, Matching
  <2>4. Accounted(w)'
    BY <1>1, <1>3, <1>4, <2>1 DEF InHand, Accounted, Matching
  <2>5. AtHand(w)' /\ Marked(w)'
    BY <1>1, <1>3, <1>4, <2>1, <2>2 DEF InHand, AtHand, Marked, Matching
  <2> QED
    BY <1>1, <1>3, <2>1, <2>3, <2>4, <2>5 DEF InHand, Matching
<1> QED
  BY <1>1, <1>2, <1>3, <1>5, WorkerStays DEF InCheck

(* What is unmarked then has ceased to match, and it is all that is        *)
(* forwarded and does not match. *)
LEMMA LockExact ==
  ASSUME ViewAssumption, ExactInv, NEW w \in Workers, LockView(w)
  PROVE  Places' /\ Listed' /\ OneAtATime'
<1> USE DEF ExactInv
<1>0. w \in Procs /\ w # Handler
  BY NoneIsApart DEF Procs
<1>1. /\ pc[w] = "loop" /\ cur[w] = None /\ todo[w] = {}
      /\ pc' = [pc EXCEPT ![w] = "stop"]
      /\ stale' = [stale EXCEPT ![w] = {u \in URIs : matchSet[u] = "false"}]
      /\ UNCHANGED <<records, view, todo, cur, ceased, alone, lastFailed>>
  BY <1>0 DEF LockView, GoTo, Places, history
<1>2. listed /\ Busy(w) /\ pc[w] \in InCheck
  BY <1>0, <1>1, WhoIsBusy DEF Listed, Checking, InCheck
<1>3. OnlyMoves(w) /\ pc'[w] = "stop" /\ stale'[w] = {u \in URIs : matchSet[u] = "false"}
  BY <1>0, <1>1 DEF OnlyMoves, Inv, TypeOK
<1>4. ASSUME alone PROVE KnownAreForwarded' /\ InHand(w)'
  <2>1. KnownAreForwarded /\ InHand(w) /\ \A q \in Procs : q # w => ~Busy(q)
    BY <1>0, <1>2, <1>4, Meanwhile
  <2>2. KnownAreForwarded'
    BY <1>1, <2>1 DEF KnownAreForwarded, view
  <2>3. \A u \in Matching : matchSet[u] # "false"
    BY <1>1, <2>1, NoneIsApart DEF InHand, Accounted, Matching
  <2>4. stale'[w] \subseteq ceased
    BY <1>3, <2>1, <2>3 DEF KnownAreForwarded, Matching
  <2>5. ASSUME NEW u \in forwarded PROVE u \in Matching \cup stale'[w]
    <3>1. u \in URIs /\ matchSet[u] \in Marks
      BY DEF Inv, TypeOK
    <3>2. matchSet[u] # "unknown"
      <4>1. \A q \in Procs : pc[q] # "register"
        BY <1>1, <2>1, WhoIsBusy DEF InCheck
      <4> QED
        BY <4>1 DEF Inv, ForwardedIsRemembered
    <3>3. matchSet[u] = "true" => u \in Matching
      BY <1>0, <1>1, <2>1, <3>1 DEF InHand, Marked
    <3> QED
      BY <1>3, <3>1, <3>2, <3>3 DEF Marks
  <2>6. Marked(w)'
    BY <1>1, <1>3, <2>1, <2>4, <2>5 DEF InHand, Marked, Matching, view
  <2>7. Accounted(w)' /\ AtHand(w)'
    BY <1>1, <1>3, <2>1 DEF InHand, Accounted, AtHand, Matching, view
  <2> QED
    BY <1>1, <2>2, <2>6, <2>7, NoneIsApart DEF InHand
<1> QED
  BY <1>1, <1>2, <1>3, <1>4, WorkerStays DEF InCheck, view

LEMMA StopExact ==
  ASSUME ViewAssumption, ExactInv, NEW w \in Workers, StopForwarding(w)
  PROVE  Places' /\ Listed' /\ OneAtATime'
<1> USE DEF ExactInv
<1>0. w \in Procs /\ w # Handler
  BY NoneIsApart DEF Procs
<1>1. PICK u \in stale[w] : stale' = [stale EXCEPT ![w] = @ \ {u}] /\ forwarded' = forwarded \ {u}
  BY DEF StopForwarding
<1>2. /\ pc[w] = "stop" /\ cur[w] = None /\ todo[w] = {}
      /\ UNCHANGED <<records, listed, matchSet, pc, todo, cur, ceased, alone, lastFailed>>
  BY DEF StopForwarding, Places, history
<1>3. listed /\ Busy(w) /\ pc[w] \in InCheck
  BY <1>0, <1>2, WhoIsBusy DEF Listed, Checking, InCheck
<1>4. stale'[w] = stale[w] \ {u} /\ OnlyMoves(w)
  BY <1>1, <1>2 DEF Inv, TypeOK, OnlyMoves
<1>5. ASSUME alone PROVE KnownAreForwarded' /\ InHand(w)'
  <2>1. KnownAreForwarded /\ InHand(w)
    BY <1>0, <1>3, <1>5, Meanwhile
  <2>2. stale[w] \subseteq ceased /\ forwarded \subseteq Matching \cup stale[w]
    BY <1>2, <2>1 DEF InHand, Marked
  <2>3. KnownAreForwarded'
    BY <1>1, <1>2, <2>1, <2>2 DEF KnownAreForwarded
  <2>4. Marked(w)'
    BY <1>1, <1>2, <1>4, <2>1, <2>2 DEF InHand, Marked, Matching
  <2>5. Accounted(w)' /\ AtHand(w)'
    BY <1>2, <2>1 DEF InHand, Accounted, AtHand, Matching
  <2> QED
    BY <1>2, <2>1, <2>3, <2>4, <2>5 DEF InHand, Matching
<1> QED
  BY <1>2, <1>3, <1>4, <1>5, WorkerStays DEF InCheck

LEMMA EndExact ==
  ASSUME ViewAssumption, ExactInv, NEW w \in Workers, EndCheck(w)
  PROVE  Places' /\ Listed' /\ OneAtATime'
<1> USE DEF ExactInv
<1>0. w \in Procs /\ w # Handler
  BY NoneIsApart DEF Procs
<1>1. /\ pc[w] = "stop" /\ stale[w] = {} /\ cur[w] = None /\ todo[w] = {}
      /\ pc' = [pc EXCEPT ![w] = "idle"]
      /\ UNCHANGED <<records, view, todo, cur, ceased, alone, lastFailed>>
  BY DEF EndCheck, GoTo, Places, locals, history
<1>2. OnlyMoves(w) /\ pc'[w] = "idle"
  BY <1>0, <1>1 DEF OnlyMoves, Inv, TypeOK
<1>3. Busy(w) /\ pc[w] \in InCheck
  BY <1>0, <1>1, WhoIsBusy DEF InCheck
<1>4. ASSUME alone
      PROVE  /\ forwarded \subseteq Matching
             /\ ~lastFailed => \A u \in Matching : matchSet[u] # "unknown"
  <2>1. InHand(w)
    BY <1>0, <1>3, <1>4, Meanwhile
  <2>2. forwarded \subseteq Matching
    BY <1>1, <2>1 DEF InHand, Marked
  <2> QED
    BY <1>1, <2>1, <2>2, NoneIsApart DEF InHand, Accounted, Matching
<1> QED
  BY <1>1, <1>2, <1>4, WorkerEnds


(* startForwarding, by a worker or by Handle. *)
LEMMA InForwarding ==
  ASSUME ViewAssumption, ExactInv, NEW p \in Procs, pc[p] \in {"start", "register", "send"}
  PROVE  Busy(p) /\ listed /\ pc[p] \in InCheck /\ cur[p] \in URIs /\ cur[p] # None
<1>1. Busy(p) /\ pc[p] \in InCheck /\ cur[p] \in URIs
  BY WhoIsBusy DEF ExactInv, Inv, LocalsOK, InCheck
<1>2. listed
  BY DEF ExactInv, Listed, Checking, Procs
<1> QED
  BY <1>1, <1>2, NoneIsApart

LEMMA ForwardStays ==
  ASSUME ViewAssumption, ExactInv, NEW p \in Procs, OnlyMoves(p),
         pc[p] \in {"start", "register", "send"}, pc'[p] \in {"loop", "register", "send", "mark"},
         p = Handler => pc'[p] # "mark", pc'[p] = "loop" => cur'[p] = None,
         UNCHANGED <<listed, records, alone>>,
         alone => KnownAreForwarded' /\ InHand(p)' /\ (p = Handler => forwarded' \subseteq Matching)
  PROVE  Places' /\ Listed' /\ OneAtATime'
<1> USE DEF ExactInv
<1>1. Busy(p) /\ listed /\ Handler \notin Workers
  BY InForwarding, NoneIsApart
<1>2. Places'
  BY <1>1, PlacesStep DEF InCheck
<1>3. Listed'
  BY <1>1, ListedStep
<1>4. Busy(p)'
  BY DEF Busy, AtRest
<1>5. alone => LeftBehind'
  BY <1>4 DEF LeftBehind, Matching, Procs
<1>6. alone' => alone /\ \A q \in Procs : q # p => ~Busy(q)
  BY <1>1, OthersRest
<1>7. OneAtATime'
  BY <1>5, <1>6, AloneStep
<1> QED
  BY <1>2, <1>3, <1>7

LEMMA SubscribeExact ==
  ASSUME ViewAssumption, ExactInv, NEW p \in Procs, Subscribe(p)
  PROVE  Places' /\ Listed' /\ OneAtATime'
<1> USE DEF ExactInv
<1>0. Handler \notin Workers /\ Handler \in Procs
  BY NoneIsApart DEF Procs
<1>1. pc[p] = "start" /\ UNCHANGED <<records, listed, matchSet, ceased, alone>>
  BY DEF Subscribe, view
<1>2. Busy(p) /\ listed /\ pc[p] \in InCheck /\ cur[p] \in URIs /\ cur[p] # None
  BY <1>1, InForwarding
<1>3. ASSUME alone PROVE KnownAreForwarded /\ InHand(p) /\ (p = Handler => forwarded \subseteq Matching)
  BY <1>2, <1>3, Meanwhile
<1>4. CASE UNCHANGED <<view, fwdL, opened>> /\ lastFailed' = TRUE /\ cur' = [cur EXCEPT ![p] = None]
  <2>1. CASE p = Handler
    <3>1. /\ todo' = [todo EXCEPT ![p] = {}] \/ todo' = todo
          /\ pc' = [pc EXCEPT ![p] = "done"]
      BY <1>0, <1>2, <1>4, <2>1 DEF Subscribe, GoTo, Inv, TypeOK
    <3>2. OnlyMoves(p) /\ pc'[p] = "done"
      BY <1>4, <3>1 DEF OnlyMoves, Inv, TypeOK
    <3>3. Places'
      BY <1>0, <2>1, <3>2, PlacesStep
    <3>4. Listed'
      BY <1>0, <1>1, <1>2, <2>1, <3>2, ListedStep
    <3>5. alone => KnownAreForwarded' /\ LeftBehind'
      BY <1>1, <1>3, <1>4, <2>1 DEF KnownAreForwarded, LeftBehind, Matching, view
    <3>6. OneAtATime'
      BY <1>1, <1>2, <3>2, <3>5, OthersRest, AloneStep DEF InCheck
    <3> QED
      BY <3>3, <3>4, <3>6
  <2>2. CASE p # Handler
    <3>1. todo' = todo /\ pc' = [pc EXCEPT ![p] = "loop"]
      BY <1>2, <1>4, <2>2 DEF Subscribe, GoTo, Inv, TypeOK
    <3>2. OnlyMoves(p) /\ pc'[p] = "loop" /\ cur'[p] = None
      BY <1>4, <3>1 DEF OnlyMoves, Inv, TypeOK
    <3>3. ASSUME alone PROVE KnownAreForwarded' /\ InHand(p)'
      <4>1. KnownAreForwarded' /\ InHand(p)
        BY <1>1, <1>3, <1>4, <3>3 DEF KnownAreForwarded, view
      <4>2. matchSet[cur[p]] = "unknown"
        BY <1>1, <2>2, <4>1 DEF InHand, AtHand, Procs
      <4>3. Accounted(p)'
        BY <1>1, <1>4, <3>1, <4>1, <4>2 DEF InHand, Accounted, Matching
      <4>4. AtHand(p)' /\ Marked(p)'
        BY <1>1, <3>2, <4>1 DEF InHand, AtHand, Marked, Matching
      <4> QED
        BY <1>1, <3>1, <3>2, <4>1, <4>3, <4>4 DEF InHand, Matching
    <3> QED
      BY <1>1, <2>2, <3>2, <3>3, ForwardStays
  <2> QED
    BY <2>1, <2>2
<1>5. CASE /\ forwarded' = forwarded \cup {cur[p]} /\ pc' = [pc EXCEPT ![p] = "register"]
           /\ UNCHANGED <<todo, cur, lastFailed>>
  <2>1. OnlyMoves(p) /\ pc'[p] = "register"
    BY <1>5 DEF OnlyMoves, Inv, TypeOK
  <2>2. ASSUME alone
        PROVE  KnownAreForwarded' /\ InHand(p)' /\ (p = Handler => forwarded' \subseteq Matching)
    <3>1. KnownAreForwarded' /\ InHand(p)
      BY <1>1, <1>3, <1>5, <2>2 DEF KnownAreForwarded
    <3>2. cur[p] \in Matching
      BY <1>2, <3>1 DEF InHand
    <3>3. Accounted(p)'
      BY <1>1, <1>5, <3>1 DEF InHand, Accounted, Matching
    <3>4. AtHand(p)' /\ Marked(p)'
      BY <1>1, <1>5, <2>1, <3>1 DEF InHand, AtHand, Marked, Matching
    <3>5. InHand(p)'
      BY <1>1, <1>5, <3>1, <3>3, <3>4 DEF InHand, Matching
    <3> QED
      BY <1>3, <1>5, <2>2, <3>1, <3>2, <3>5
  <2> QED
    BY <1>1, <2>1, <2>2, ForwardStays
<1> QED
  BY <1>4, <1>5 DEF Subscribe, GoTo

LEMMA RegisterExact ==
  ASSUME ViewAssumption, ExactInv, NEW p \in Procs, Register(p)
  PROVE  Places' /\ Listed' /\ OneAtATime'
<1> USE DEF ExactInv
<1>1. /\ pc[p] = "register" /\ pc' = [pc EXCEPT ![p] = "send"]
      /\ matchSet' = [matchSet EXCEPT ![cur[p]] = "true"]
      /\ UNCHANGED <<records, listed, forwarded, todo, cur, ceased, alone, lastFailed>>
  BY DEF Register, GoTo, locals, history
<1>2. Busy(p) /\ listed /\ pc[p] \in InCheck /\ cur[p] \in URIs /\ cur[p] # None
  BY <1>1, InForwarding
<1>3. OnlyMoves(p) /\ pc'[p] = "send"
  BY <1>1 DEF OnlyMoves, Inv, TypeOK
<1>4. /\ matchSet'[cur[p]] = "true"
      /\ \A u \in URIs : u # cur[p] => matchSet'[u] = matchSet[u]
  BY <1>1, <1>2 DEF Inv, TypeOK
<1>5. ASSUME alone
      PROVE  KnownAreForwarded' /\ InHand(p)' /\ (p = Handler => forwarded' \subseteq Matching)
  <2>1. KnownAreForwarded /\ InHand(p) /\ (p = Handler => forwarded \subseteq Matching)
    BY <1>2, <1>5, Meanwhile
  <2>2. cur[p] \in Matching /\ cur[p] \in forwarded
    BY <1>1, <1>2, <2>1 DEF InHand, AtHand
  <2>3. KnownAreForwarded'
    BY <1>1, <1>4, <2>1, <2>2 DEF KnownAreForwarded, Matching
  <2>4. Accounted(p)'
    BY <1>1, <1>4, <2>1 DEF InHand, Accounted, Matching
  <2>5. AtHand(p)' /\ Marked(p)'
    BY <1>1, <1>3, <1>4, <2>1, <2>2 DEF InHand, AtHand, Marked, Matching
  <2>6. InHand(p)'
    BY <1>1, <2>1, <2>4, <2>5 DEF InHand, Matching
  <2> QED
    BY <1>1, <2>1, <2>3, <2>6
<1> QED
  BY <1>1, <1>3, <1>5, ForwardStays

LEMMA SendExact ==
  ASSUME ViewAssumption, ExactInv, NEW p \in Procs, Send(p)
  PROVE  Places' /\ Listed' /\ OneAtATime'
<1> USE DEF ExactInv
<1>1. /\ pc[p] = "send"
      /\ IF p = Handler
           THEN pc' = [pc EXCEPT ![p] = "loop"] /\ cur' = [cur EXCEPT ![p] = None]
           ELSE pc' = [pc EXCEPT ![p] = "mark"] /\ cur' = cur
      /\ UNCHANGED <<records, view, todo, ceased, alone, lastFailed>>
  BY DEF Send, GoTo, history
<1>2. Busy(p) /\ listed /\ pc[p] \in InCheck /\ cur[p] \in URIs /\ cur[p] # None
  BY <1>1, InForwarding
<1>3. /\ OnlyMoves(p) /\ todo'[p] = todo[p]
      /\ IF p = Handler THEN pc'[p] = "loop" /\ cur'[p] = None
                        ELSE pc'[p] = "mark" /\ cur'[p] = cur[p]
  BY <1>1 DEF OnlyMoves, Inv, TypeOK
<1>4. ASSUME alone
      PROVE  KnownAreForwarded' /\ InHand(p)' /\ (p = Handler => forwarded' \subseteq Matching)
  <2>1. KnownAreForwarded /\ InHand(p) /\ (p = Handler => forwarded \subseteq Matching)
    BY <1>2, <1>4, Meanwhile
  <2>2. KnownAreForwarded'
    BY <1>1, <2>1 DEF KnownAreForwarded, view
  <2>3. matchSet[cur[p]] = "true"
    BY <1>1, <2>1 DEF InHand, AtHand
  <2>4. Accounted(p)'
    BY <1>1, <1>3, <2>1, <2>3 DEF InHand, Accounted, Matching, view
  <2>5. AtHand(p)' /\ Marked(p)'
    BY <1>1, <1>3, <2>1, <2>3 DEF InHand, AtHand, Marked, Matching, view
  <2>6. InHand(p)'
    BY <1>1, <1>3, <2>1, <2>4, <2>5 DEF InHand, Matching
  <2> QED
    BY <1>1, <2>1, <2>2, <2>6 DEF view
<1> QED
  BY <1>1, <1>3, <1>4, ForwardStays DEF view

LEMMA ExactStep == ASSUME ViewAssumption, ExactInv, [Next]_vars PROVE ExactInv'
<1> SUFFICES Places' /\ Listed' /\ OneAtATime'
  BY StepInv DEF ExactInv
<1>1. CASE HandlerNext
  BY <1>1, AddViewExact, HandleExact DEF HandlerNext
<1>2. ASSUME NEW p \in Procs, Forward(p) PROVE Places' /\ Listed' /\ OneAtATime'
  BY <1>2, SubscribeExact, RegisterExact, SendExact DEF Forward
<1>3. ASSUME NEW w \in Workers, Insert(w) \/ WorkerStep(w) PROVE Places' /\ Listed' /\ OneAtATime'
  BY <1>3, InsertExact, StartExact, ResetExact, LookExact, MarkExact, LockExact, StopExact, EndExact
     DEF WorkerStep
<1>4. CASE UNCHANGED vars
  <2>1. UNCHANGED <<records, listed, matchSet, forwarded, pc, todo, cur, stale, ceased, alone, lastFailed>>
    BY <1>4 DEF vars, view, locks, locals, history
  <2>2. Places' /\ Listed'
    BY <2>1 DEF ExactInv, Places, Listed, Checking
  <2>3. OneAtATime'
    BY <2>1 DEF ExactInv, OneAtATime, OneAtWork, KnownAreForwarded, LeftBehind, InHand, Accounted,
                AtHand, Marked, Matching, Busy, AtRest
  <2> QED
    BY <2>2, <2>3
<1> QED
  BY <1>1, <1>2, <1>3, <1>4 DEF Next

(* While metadata messages come one at a time, the view is brought the     *)
(* messages of just the URIs that match it and have never ceased to, once  *)
(* the last check could subscribe to all it found (views.go:52; Handle and *)
(* checkViews in manager.go). *)
THEOREM ViewsAreExact == Spec => []ViewIsExact
<1>1. Init => ExactInv
  BY ExactInit, ViewAssumption
<1>2. ExactInv /\ [Next]_vars => ExactInv'
  BY ExactStep, ViewAssumption
<1>3. ExactInv => ViewIsExact
  <2> SUFFICES ASSUME ExactInv, Quiet, alone
               PROVE  /\ forwarded \subseteq Matching
                      /\ ~lastFailed => Matching \ ceased \subseteq forwarded
    BY DEF ViewIsExact
  <2> USE DEF ExactInv
  <2>1. \A p \in Procs : ~Busy(p)
    BY DEF Quiet, Busy
  <2>2. pc[Handler] \in {"idle", "done"}
    BY DEF Quiet, AtRest, Procs
  <2>3. listed
    BY <2>2 DEF Listed
  <2> QED
    BY <2>1, <2>3 DEF OneAtATime, LeftBehind, KnownAreForwarded, Matching, Procs
<1> QED
  BY <1>1, <1>2, <1>3, PTL DEF Spec

=============================================================================

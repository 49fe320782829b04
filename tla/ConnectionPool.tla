--------------------------- MODULE ConnectionPool ---------------------------
(***************************************************************************)
(* The pool of connections to the Quasar timeseries store                  *)
(* (archiver/pool.go), the timer that paces its dials (archiver/timer.go)  *)
(* and the goroutines that take a connection, send a request, read the     *)
(* answer and put the connection back (archiver/quasarProvider.go).        *)
(*                                                                         *)
(* A connection is named by an element of Conns, which is free again once  *)
(* nobody holds the connection and the pool does not.                      *)
(***************************************************************************)
EXTENDS Naturals, FiniteSets, Sequences

CONSTANTS
  Users,    \* goroutines inside a method of quasarDB
  Conns,    \* connections
  None,     \* Go's nil
  Max,      \* maxConnections: capacity of the channel and limit of the count
  MaxWait   \* maximumTime of the timer, in seconds

ASSUME PoolAssumption ==
  /\ IsFiniteSet(Users)
  /\ None \notin Conns
  /\ Max \in Nat /\ MaxWait \in Nat \ {0}

VARIABLES
  pool,     \* the channel connectionPool.pool
  count,    \* connectionPool.count
  wait,     \* waitTimer.currentTime
  pc,       \* where each goroutine stands
  held,     \* the connection it holds
  old,      \* oldTime in its call of waitTimer.Wait
  closed,   \* connections with tsConn.closed set
  broken    \* connections whose other end is gone

vars == <<pool, count, wait, pc, held, old, closed, broken>>

InPool == {pool[i] : i \in DOMAIN pool}
InHand == {held[u] : u \in Users} \ {None}
Open   == (InPool \cup InHand) \ closed

GoTo(u, l) == pc' = [pc EXCEPT ![u] = l]

(* NewConnectionPool dials half of the connections. *)
Init ==
  /\ pool \in [1..(Max \div 2) -> Conns]
  /\ \A i, j \in DOMAIN pool : pool[i] = pool[j] => i = j
  /\ count = Max \div 2
  /\ wait = 1
  /\ pc = [u \in Users |-> "idle"]
  /\ held = [u \in Users |-> None]
  /\ old = [u \in Users |-> 0]
  /\ closed = {}
  /\ broken = {}

-----------------------------------------------------------------------------
(* Get.                                                                    *)

(* A method of quasarDB that has something to ask or to write. *)
Call(u) ==
  /\ pc[u] = "idle"
  /\ GoTo(u, "get")
  /\ UNCHANGED <<pool, count, wait, held, old, closed, broken>>

(* The channel has a connection; a closed one is thrown away and Get calls *)
(* itself, without taking the connection out of the count.                 *)
GetPooled(u) ==
  /\ pc[u] = "get"
  /\ pool # <<>>
  /\ pool' = Tail(pool)
  /\ \/ /\ Head(pool) \in closed
        /\ closed' = closed \ {Head(pool)}
        /\ broken' = broken \ {Head(pool)}
        /\ UNCHANGED <<pc, held>>
     \/ /\ Head(pool) \notin closed
        /\ held' = [held EXCEPT ![u] = Head(pool)]
        /\ GoTo(u, "use")
        /\ UNCHANGED <<closed, broken>>
  /\ UNCHANGED <<count, wait, old>>

GetEmpty_Always(u) ==
  /\ pc[u] = "get"
  /\ GoTo(u, "check")
  /\ UNCHANGED <<pool, count, wait, held, old, closed, broken>>

(* The channel is empty: the default branch. *)
GetEmpty(u) ==
  /\ pc[u] = "get"
  /\ pool = <<>>
  /\ GoTo(u, "check")
  /\ UNCHANGED <<pool, count, wait, held, old, closed, broken>>

Check_Waits(u) ==
  /\ pc[u] = "check"
  /\ count < Max
  /\ GoTo(u, "dial")
  /\ UNCHANGED <<pool, count, wait, held, old, closed, broken>>

(* Reads the count; a full house makes Get return nil. *)
Check(u) ==
  /\ pc[u] = "check"
  /\ GoTo(u, IF count < Max THEN "dial" ELSE "use")
  /\ UNCHANGED <<pool, count, wait, held, old, closed, broken>>

Dial(u) ==
  /\ pc[u] = "dial"
  /\ \E c \in Conns \ (InPool \cup InHand) : held' = [held EXCEPT ![u] = c]
  /\ GoTo(u, "count")
  /\ UNCHANGED <<pool, count, wait, old, closed, broken>>

(* newConn returned nil: Wait reads currentTime ... *)
DialFails(u) ==
  /\ pc[u] = "dial"
  /\ old' = [old EXCEPT ![u] = wait]
  /\ GoTo(u, "wait")
  /\ UNCHANGED <<pool, count, wait, held, closed, broken>>

(* ... and, unless that has come to the maximum meanwhile, writes twice    *)
(* what it read.  The timer is shared and has no lock.                     *)
Wait(u) ==
  /\ pc[u] = "wait"
  /\ wait' = IF wait >= MaxWait THEN wait
             ELSE IF 2 * old[u] > MaxWait THEN MaxWait ELSE 2 * old[u]
  /\ old' = [old EXCEPT ![u] = 0]
  /\ GoTo(u, "dial")
  /\ UNCHANGED <<pool, count, held, closed, broken>>

CountNew(u) ==
  /\ pc[u] = "count"
  /\ count' = count + 1
  /\ GoTo(u, "use")
  /\ UNCHANGED <<pool, wait, held, old, closed, broken>>

-----------------------------------------------------------------------------
(* Requests over the connection, then Put.                                 *)

(* Reading or writing through a nil *tsConn panics, and so does Put(nil). *)
UseNil(u) ==
  /\ pc[u] = "use" /\ held[u] = None
  /\ GoTo(u, "panicked")
  /\ UNCHANGED <<pool, count, wait, held, old, closed, broken>>

(* All requests answered, or an error that is not the connection's: a bad  *)
(* UUID, a bad number, a status other than OK.                             *)
UseDone(u) ==
  /\ pc[u] = "use" /\ held[u] # None
  /\ GoTo(u, "put")
  /\ UNCHANGED <<pool, count, wait, held, old, closed, broken>>

(* The read of an answer fails: receive closes the connection. *)
ReceiveFails(u) ==
  /\ pc[u] = "use" /\ held[u] \in broken
  /\ closed' = closed \cup {held[u]}
  /\ GoTo(u, "put")
  /\ UNCHANGED <<pool, count, wait, held, old, broken>>

Put_Twice(u) ==
  /\ pc[u] = "put" /\ held[u] \notin closed
  /\ Len(pool) < Max
  /\ pool' = Append(pool, held[u])
  /\ UNCHANGED <<pc, held, count, wait, old, closed, broken>>

Put_Anything(u) ==
  /\ pc[u] = "put"
  /\ Len(pool) < Max
  /\ pool' = Append(pool, held[u])
  /\ held' = [held EXCEPT ![u] = None]
  /\ GoTo(u, "idle")
  /\ UNCHANGED <<count, wait, old, closed, broken>>

(* Put of an open connection while the channel has room. *)
Put(u) ==
  /\ pc[u] = "put" /\ held[u] \notin closed
  /\ Len(pool) < Max
  /\ pool' = Append(pool, held[u])
  /\ held' = [held EXCEPT ![u] = None]
  /\ GoTo(u, "idle")
  /\ UNCHANGED <<count, wait, old, closed, broken>>

(* The channel is full: Put closes the connection ... *)
PutFull(u) ==
  /\ pc[u] = "put" /\ held[u] \notin closed
  /\ Len(pool) >= Max
  /\ closed' = closed \cup {held[u]}
  /\ UNCHANGED <<pool, count, wait, pc, held, old, broken>>

Release_Uncounted(u) ==
  /\ pc[u] = "put" /\ held[u] \in closed
  /\ held' = [held EXCEPT ![u] = None]
  /\ closed' = closed \ {held[u]}
  /\ broken' = broken \ {held[u]}
  /\ GoTo(u, "idle")
  /\ UNCHANGED <<pool, count, wait, old>>

(* ... and counts it out, as it does one that was closed on arrival. *)
Release(u) ==
  /\ pc[u] = "put" /\ held[u] \in closed
  /\ count' = count - 1
  /\ held' = [held EXCEPT ![u] = None]
  /\ closed' = closed \ {held[u]}
  /\ broken' = broken \ {held[u]}
  /\ GoTo(u, "idle")
  /\ UNCHANGED <<pool, wait, old>>

(* The other end of a connection goes away. *)
Break(c) ==
  /\ c \in (InPool \cup InHand) \ broken
  /\ broken' = broken \cup {c}
  /\ UNCHANGED <<pool, count, wait, pc, held, old, closed>>

-----------------------------------------------------------------------------

GetStep(u) ==
  \/ GetPooled(u) \/ GetEmpty(u) \/ Check(u) \/ CountNew(u) \/ Wait(u)

UserNext(u) ==
  \/ Call(u) \/ GetStep(u) \/ Dial(u) \/ DialFails(u)
  \/ UseNil(u) \/ UseDone(u) \/ ReceiveFails(u)
  \/ Put(u) \/ PutFull(u) \/ Release(u)

Next ==
  \/ \E u \in Users : UserNext(u)
  \/ \E c \in Conns : Break(c)

Spec == Init /\ [][Next]_vars

(* A goroutine inside Get keeps running, and Quasar does not refuse every  *)
(* dial for ever.  Nothing is assumed of the goroutines that hold a        *)
(* connection: a store that never answers holds them for ever.             *)
Fairness == \A u \in Users : WF_vars(GetStep(u)) /\ SF_vars(Dial(u))

FairSpec == Spec /\ Fairness

-----------------------------------------------------------------------------

States == {"idle", "get", "check", "dial", "wait", "count", "use", "put", "panicked"}

TypeOK ==
  /\ pool \in Seq(Conns) /\ Len(pool) <= Max
  /\ count \in Nat
  /\ wait \in 1..MaxWait
  /\ pc \in [Users -> States]
  /\ held \in [Users -> Conns \cup {None}]
  /\ old \in [Users -> 0..MaxWait]
  /\ closed \in SUBSET Conns
  /\ broken \in SUBSET Conns

(* No two goroutines talk over one connection: a connection in someone's   *)
(* hands is in nobody else's and not in the channel, where none is twice.  *)
Exclusive ==
  /\ \A u, v \in Users : held[u] = held[v] /\ held[u] # None => u = v
  /\ \A u \in Users : held[u] \notin InPool
  /\ \A i, j \in DOMAIN pool : pool[i] = pool[j] => i = j

(* Every connection in the channel is open, so that Get never meets the    *)
(* closed ones that it would throw away without counting them out.         *)
PooledAreOpen == InPool \cap closed = {}

Holding == {u \in Users : held[u] # None /\ pc[u] # "count"}

(* The count is neither lost nor leaked, whichever way connections break,  *)
(* are closed or come back: it is the number of connections in the channel *)
(* and of those in the hands of goroutines that have counted them.         *)
CountIsExact == count = Len(pool) + Cardinality(Holding)

Trying == {u \in Users : pc[u] \in {"check", "dial", "wait", "count"}}

(* The check of the count and its increment are not atomic, but the count  *)
(* only grows out of an empty channel, where every connection is in some   *)
(* other goroutine's hands: the count and those on their way to raise it   *)
(* never pass the number of goroutines (or the half that NewConnectionPool *)
(* dials).                                                                 *)
DemandBoundsCount ==
  count + Cardinality(Trying) <= IF Cardinality(Users) > Max \div 2
                                   THEN Cardinality(Users) ELSE Max \div 2

(* Get never waits for another goroutine: it returns while Quasar accepts  *)
(* connections.                                                            *)
GetReturns == \A u \in Users : (pc[u] = "get") ~> (pc[u] = "use")

(* pool.go:14-16 "Buffered channels give us a way to place a maximum       *)
(* number of connections as well".                                         *)
AtMostMax == Cardinality(Open) <= Max

(* pool.go:12-14 "it can grab a connection from the channel": who asks for *)
(* a connection gets one.                                                  *)
GetGivesAConnection == \A u \in Users : pc[u] = "use" => held[u] # None

=============================================================================

---------------------------- MODULE BrokerSerial ----------------------------
(***************************************************************************)
(* The broker when calls do not overlap: a message or a `set' statement is *)
(* accepted, or a client served, only once the call before it has run to   *)
(* its end or waits for its client to leave.  It separates what the code   *)
(* of the broker gets wrong by itself from what interleavings break.       *)
(***************************************************************************)
EXTENDS Broker

Resting == {"idle", "waiting", "done", "failed"}

Quiet ==
  /\ \A s \in Subs : spc[s] \in Resting
  /\ \A p \in Pubs : ppc[p] = "idle"

Starting ==
  \/ published' # published
  \/ \E s \in Subs : spc[s] \in Resting /\ spc'[s] \notin Resting

SerialNext == Next /\ (Starting => Quiet)

SerialSpec == Init /\ [][SerialNext]_vars

-----------------------------------------------------------------------------

(* A where clause reads no key of a document but those that the broker     *)
(* files the query under (cqbs.go:144, the keys the parser met in it).     *)
WhereReadsKeys ==
  \A q \in Queries : \A d, e \in Docs :
    (\A k \in KeysOf[q] : d[k] = e[k]) => (d \in Where[q] <=> e \in Where[q])

(* The object a waiting client joined is still in the index under all the  *)
(* keys of its query. *)
Indexed(s) == \A k \in KeysOf[QueryOf[s]] : obj[s] \in index[k]

(* cqbs.go:158-159 "first adjust all subscriptions based on metadata in    *)
(* this message, then forward it": between calls, a waiting client whose   *)
(* query is indexed stands on the list of every stream that satisfies it,  *)
(* but for those that came to do so with no message handled (a `set'       *)
(* query, an AddData that failed half-way) and only until the next message *)
(* that touches the query makes the broker ask the store again.            *)
NoMissedStream ==
  Quiet => \A s \in Subs :
    spc[s] = "waiting" /\ Indexed(s) =>
      \A u \in Matching(QueryOf[s]) \ behind[QueryOf[s]] : s \in lists[u]

(* Between calls, the only waiting client of an indexed query stands on    *)
(* the lists of exactly the streams that satisfy its query, however often  *)
(* they came to qualify and ceased to (integration republish5,             *)
(* republish6), the same streams excepted.                                 *)
SoleClientExact ==
  Quiet => \A s \in Subs :
    (/\ spc[s] = "waiting" /\ Indexed(s)
     /\ \A t \in Subs \ {s} : QueryOf[t] = QueryOf[s] => spc[t] = "idle")
      => {u \in UUIDs : s \in lists[u]} \ behind[QueryOf[s]]
           = Matching(QueryOf[s]) \ behind[QueryOf[s]]

(* subscriber.go:15-17 "the client is considered dead, so we clean up": a  *)
(* client whose NewSubscriber has returned stands on no list.              *)
GoneFromLists ==
  \A s \in Subs : spc[s] = "done" => \A u \in UUIDs : s \notin lists[u]

(* As NoMissedStream, whatever became of the index entries of the client's *)
(* query: once the calls are over, a subscription follows the metadata     *)
(* (cqbs.go:158-159 "first adjust all subscriptions based on metadata").   *)
SubscriptionIsLive ==
  Quiet => \A s \in Subs :
    spc[s] = "waiting" => \A u \in Matching(QueryOf[s]) \ behind[QueryOf[s]] : s \in lists[u]

(* archiver/REPUBLISH.md:12-14 "When a where tag changes: could change the *)
(* range of streams that qualify, so we re-run the where": no stream that  *)
(* satisfies an indexed query is missed, whatever changed its tags.        *)
EveryChangeIsFollowed ==
  Quiet => \A s \in Subs :
    spc[s] = "waiting" /\ Indexed(s) => \A u \in Matching(QueryOf[s]) : s \in lists[u]

(* integration/tests/republish/republish5.yaml:1 "republish does not       *)
(* deliver message from streams that become unqualified".                  *)
NothingUnqualified ==
  Quiet => \A s \in Subs : \A u \in UUIDs :
    spc[s] = "waiting" /\ s \in lists[u] =>
      u \in Matching(QueryOf[s]) \cup behind[QueryOf[s]]

(* archiver/REPUBLISH.md:8 "you are first delivered the results of your    *)
(* query": what is sent first is the answer at the time of subscribing.    *)
InitialIsCurrent ==
  [][\A s \in Subs : spc[s] = "sendinitial" /\ spc'[s] = "waiting"
        => initial[obj[s]] = Matching(QueryOf[s])]_vars

=============================================================================

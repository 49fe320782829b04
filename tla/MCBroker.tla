------------------------------ MODULE MCBroker ------------------------------
(***************************************************************************)
(* Small instances of the broker.  Queries: "red", which is tag = red, and *)
(* "one", which is uuid = u1.  No query names the key "loc".               *)
(***************************************************************************)
EXTENDS BrokerSerial, TLC

CONSTANTS s1, s2, s3, u1

MCKeys   == {"tag", "loc", "uuid"}
MCValues == {"red", "blue", "none"} \cup UUIDs

MCKeysOf == [q \in Queries |-> IF q = "one" THEN {"uuid"} ELSE {"tag"}]
MCWhere ==
  [q \in Queries |-> {d \in [MCKeys -> MCValues] :
                        IF q = "one" THEN d["uuid"] = u1 ELSE d["tag"] = q}]

Message(u, k, v) ==
  [uuid |-> u, keys |-> k,
   vals |-> [key \in MCKeys |-> CASE key = "uuid" -> u
                                  [] key = "tag"  -> v
                                  [] OTHER        -> "none"]]

Retag    == {Message(u, {"tag"}, v) : u \in UUIDs, v \in {"red", "blue"}}
Relocate == {Message(u, {"loc"}, "none") : u \in UUIDs}
Bare     == {Message(u, {}, "none") : u \in UUIDs}
AllKinds == Retag \cup Relocate \cup Bare

(* set tag = v where ..., the where clause being that of query w.  The     *)
(* uuid of a document, which is what the model names it by, is not set.    *)
Repaint(w, v) == [where |-> w, keys |-> {"tag"}, vals |-> Message(u1, {"tag"}, v).vals]

ToRed   == {Repaint("one", "red")}
Recolor == {Repaint("one", "red"), Repaint("red", "blue")}
NoSets  == {}

AllRed     == [s \in Subs |-> "red"]
OneAndRed  == [s \in Subs |-> IF s = s2 THEN "one" ELSE "red"]

(* The condition of theorem NoStreamIsMissed holds of these queries. *)
ASSUME QueriesReadTheirKeys == WhereReadsKeys

(* Clients of one query are alike. *)
Alike == Permutations(Subs)

=============================================================================

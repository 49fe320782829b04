------------------------------- MODULE Ingest -------------------------------
(***************************************************************************)
(* Archiver.AddData (archiver/archiver.go) for one stream: what happens to *)
(* a message between its arrival and the broker.  Publishers run it        *)
(* concurrently over the stream's metadata document and over the caches of *)
(* mongoStore (archiver/mongoProvider.go).  Documents and caches are keyed *)
(* by UUID, so streams do not meet here.  Every round trip to a store and  *)
(* every access to a cache is an action of its own.                        *)
(***************************************************************************)
EXTENDS Naturals, FiniteSets

CONSTANTS
  Pubs,        \* goroutines inside AddData
  Units,       \* units of time
  Seconds,     \* UOT_S, the default
  Measures,    \* units of measure, "n/a" among them
  NA,          \* "n/a"
  Unset,       \* 0 as a unit of time, "" as a unit of measure
  Missing,     \* a field that the document does not have, an entry not cached
  Text,        \* a unit of time that is stored as a string
  Messages,    \* messages: Properties or none, other metadata, readings
  StoreFails,  \* may a round trip to the metadata store return an error?
  MaxMessages  \* bound: messages received in a behaviour

(* props is false for a nil Properties; one that IsEmpty counts as nil. *)
MessageType ==
  [props : BOOLEAN, uot : Units \cup {Unset}, uom : Measures \cup {Unset},
   meta : BOOLEAN, readings : BOOLEAN]

ASSUME IngestAssumption ==
  /\ Seconds \in Units /\ NA \in Measures
  /\ \A x \in {Unset, Missing, Text} : x \notin Units \cup Measures
  /\ Cardinality({Unset, Missing, Text}) = 3
  /\ Messages \subseteq MessageType
  /\ \A m \in Messages : m.props \/ (m.uot = Unset /\ m.uom = Unset)
  /\ StoreFails \in BOOLEAN
  /\ MaxMessages \in Nat

VARIABLES
  doc,       \* the stream's document in the metadata store
  uuidCache, \* is the stream in uuidCache?
  uotCache,  \* its entry in uotCache
  uomCache,  \* its entry in uomCache
  received,  \* messages received so far
  declared,  \* history: units of time that messages declared
  alone,     \* history: no message came while another was being handled
  pc,        \* where each publisher stands
  msg,       \* the message it handles, as AddData changes it
  unit,      \* unit of time that its message declared when it arrived
  got,       \* what it holds of a store's answer
  label,     \* unit of time that it gave the readings
  failed,    \* did its last SaveTags return an error?
  fixed,     \* has it been through the "n/a" branch?
  wrote      \* did the timeseries store take the readings?

stored  == <<doc, uuidCache, uotCache, uomCache>>
history == <<received, declared, alone>>
locals  == <<msg, unit, got, label, failed, fixed, wrote>>
vars    == <<stored, history, pc, locals>>

NoMessage == [props |-> FALSE, uot |-> Unset, uom |-> Unset, meta |-> FALSE, readings |-> FALSE]

HasProps(d) == d.uot # Missing \/ d.uom # Missing

GoTo(p, l) == pc' = [pc EXCEPT ![p] = l]

Init ==
  /\ doc = [stored |-> FALSE, uot |-> Missing, uom |-> Missing]
  /\ uuidCache = FALSE
  /\ uotCache = Missing /\ uomCache = Missing
  /\ received = 0
  /\ declared = {}
  /\ alone = TRUE
  /\ pc = [p \in Pubs |-> "idle"]
  /\ msg = [p \in Pubs |-> NoMessage]
  /\ unit = [p \in Pubs |-> Unset]
  /\ got = [p \in Pubs |-> Missing]
  /\ label = [p \in Pubs |-> Missing]
  /\ failed = [p \in Pubs |-> FALSE]
  /\ fixed = [p \in Pubs |-> FALSE]
  /\ wrote = [p \in Pubs |-> FALSE]

(* AddData returns. *)
Return(p) ==
  /\ GoTo(p, "idle")
  /\ msg' = [msg EXCEPT ![p] = NoMessage]
  /\ unit' = [unit EXCEPT ![p] = Unset]
  /\ label' = [label EXCEPT ![p] = Missing]
  /\ failed' = [failed EXCEPT ![p] = FALSE]
  /\ fixed' = [fixed EXCEPT ![p] = FALSE]
  /\ wrote' = [wrote EXCEPT ![p] = FALSE]
  /\ got' = [got EXCEPT ![p] = Missing]

Receive(p) ==
  /\ pc[p] = "idle"
  /\ received < MaxMessages
  /\ received' = received + 1
  /\ alone' = (alone /\ \A q \in Pubs : pc[q] \in {"idle", "panicked"})
  /\ \E m \in Messages :
       /\ msg' = [msg EXCEPT ![p] = m]
       /\ unit' = [unit EXCEPT ![p] = m.uot]
       /\ declared' = declared \cup ({m.uot} \ {Unset})
  /\ GoTo(p, "save")
  /\ UNCHANGED <<stored, got, label, failed, fixed, wrote>>

-----------------------------------------------------------------------------
(* SaveTags.                                                               *)

HasMetadata(m) == m.meta \/ m.props

Remembered(cached, declaredValue) == IF declaredValue # Unset THEN declaredValue ELSE cached

CheckSaved_CachesFirst(p) ==
  /\ pc[p] = "save"
  /\ IF ~HasMetadata(msg[p]) /\ uuidCache
       THEN UNCHANGED stored /\ GoTo(p, "saved")
       ELSE /\ uuidCache' = TRUE
            /\ uotCache' = Remembered(uotCache, msg[p].uot)
            /\ uomCache' = Remembered(uomCache, msg[p].uom)
            /\ UNCHANGED doc
            /\ GoTo(p, "upsert")
  /\ failed' = [failed EXCEPT ![p] = FALSE]
  /\ UNCHANGED <<history, msg, unit, got, label, fixed, wrote>>

(* A message without metadata, whose stream is cached, is not written. *)
CheckSaved(p) ==
  /\ pc[p] = "save"
  /\ GoTo(p, IF ~HasMetadata(msg[p]) /\ uuidCache THEN "saved" ELSE "upsert")
  /\ failed' = [failed EXCEPT ![p] = FALSE]
  /\ UNCHANGED <<stored, history, msg, unit, got, label, fixed, wrote>>

(* ToBson sets the three Properties fields together, the empty ones too.   *)
(* An error may mean that the store took the update or that it did not.    *)
Upsert(p) ==
  /\ pc[p] = "upsert"
  /\ \E error, applied \in BOOLEAN :
       /\ error => StoreFails
       /\ ~error => applied
       /\ failed' = [failed EXCEPT ![p] = error]
       /\ doc' = IF ~applied THEN doc
                 ELSE [stored |-> TRUE,
                       uot |-> IF msg[p].props THEN msg[p].uot ELSE doc.uot,
                       uom |-> IF msg[p].props THEN msg[p].uom ELSE doc.uom]
  /\ GoTo(p, "cacheuuid")
  /\ UNCHANGED <<uuidCache, uotCache, uomCache, history, msg, unit, got, label, fixed, wrote>>

(* The caches are set whether the Upsert succeeded or not. *)
CacheUUID(p) ==
  /\ pc[p] = "cacheuuid"
  /\ uuidCache' = TRUE
  /\ GoTo(p, "cacheuot")
  /\ UNCHANGED <<doc, uotCache, uomCache, history, locals>>

CacheUnitOfTime_IfAbsent(p) ==
  /\ pc[p] = "cacheuot"
  /\ uotCache' = IF uotCache = Missing THEN Remembered(uotCache, msg[p].uot) ELSE uotCache
  /\ GoTo(p, "cacheuom")
  /\ UNCHANGED <<doc, uuidCache, uomCache, history, locals>>

CacheUnitOfTime(p) ==
  /\ pc[p] = "cacheuot"
  /\ uotCache' = Remembered(uotCache, msg[p].uot)
  /\ GoTo(p, "cacheuom")
  /\ UNCHANGED <<doc, uuidCache, uomCache, history, locals>>

CacheUnitOfMeasure(p) ==
  /\ pc[p] = "cacheuom"
  /\ uomCache' = Remembered(uomCache, msg[p].uom)
  /\ GoTo(p, "saved")
  /\ UNCHANGED <<doc, uuidCache, uotCache, history, locals>>

(* Back in AddData: an error ends it; the second time the readings follow. *)
Saved(p) ==
  /\ pc[p] = "saved"
  /\ \/ failed[p] /\ Return(p)
     \/ /\ ~failed[p]
        /\ GoTo(p, IF fixed[p] THEN "write" ELSE "getuot")
        /\ UNCHANGED locals
  /\ UNCHANGED <<stored, history>>

-----------------------------------------------------------------------------
(* GetUnitOfTime.                                                          *)

Label_Raw(u) == u

(* GetUnitOfTime never answers 0. *)
Label(u) == IF u = Unset THEN Seconds ELSE u

(* The readings are given the unit that the cache holds. *)
HitUnitOfTime(p) ==
  /\ pc[p] = "getuot" /\ uotCache # Missing
  /\ label' = [label EXCEPT ![p] = Label(uotCache)]
  /\ GoTo(p, "getuom")
  /\ UNCHANGED <<stored, history, msg, unit, got, failed, fixed, wrote>>

(* No answer from the store.  An error of the Count ends AddData, as does  *)
(* a missing document; an error of One, after it, leaves the result nil,   *)
(* and the assertion that it is a document panics. *)
FailedFetch(p) ==
  \E counted \in BOOLEAN :
    /\ counted => doc.stored /\ StoreFails
    /\ IF counted THEN GoTo(p, "panicked") /\ UNCHANGED locals ELSE Return(p)

(* A miss asks the store.  A unit that is no number ends AddData, too. *)
FetchUnitOfTime(p) ==
  /\ pc[p] = "getuot" /\ uotCache = Missing
  /\ \/ /\ ~doc.stored \/ doc.uot = Text \/ StoreFails
        /\ FailedFetch(p)
     \/ /\ doc.stored /\ doc.uot # Text
        /\ got' = [got EXCEPT ![p] = Label(IF doc.uot = Missing THEN Seconds ELSE doc.uot)]
        /\ GoTo(p, "setuot")
        /\ UNCHANGED <<msg, unit, label, failed, fixed, wrote>>
  /\ UNCHANGED <<stored, history>>

(* Fetch puts what it fetched into the cache, over what is there by now. *)
SetUnitOfTime(p) ==
  /\ pc[p] = "setuot"
  /\ uotCache' = got[p]
  /\ label' = [label EXCEPT ![p] = Label(got[p])]
  /\ got' = [got EXCEPT ![p] = Missing]
  /\ GoTo(p, "getuom")
  /\ UNCHANGED <<doc, uuidCache, uomCache, history, msg, unit, failed, fixed, wrote>>

-----------------------------------------------------------------------------
(* GetUnitOfMeasure.                                                       *)

(* With no unit of measure the message gets "n/a" and is saved again.      *)
Measured(p, m) ==
  IF m = Unset
    THEN /\ msg' = [msg EXCEPT ![p].props = TRUE, ![p].uom = NA]
         /\ fixed' = [fixed EXCEPT ![p] = TRUE]
         /\ GoTo(p, "save")
    ELSE /\ GoTo(p, "write")
         /\ UNCHANGED <<msg, fixed>>

HitUnitOfMeasure(p) ==
  /\ pc[p] = "getuom" /\ uomCache # Missing
  /\ Measured(p, uomCache)
  /\ UNCHANGED <<stored, history, unit, got, label, failed, wrote>>

(* A document with Properties but no UnitofMeasure makes the answer nil,   *)
(* and the assertion that it is a string panics.                           *)
FetchUnitOfMeasure(p) ==
  /\ pc[p] = "getuom" /\ uomCache = Missing
  /\ \/ /\ ~doc.stored \/ StoreFails
        /\ FailedFetch(p)
     \/ /\ doc.stored /\ HasProps(doc) /\ doc.uom = Missing
        /\ GoTo(p, "panicked")
        /\ UNCHANGED locals
     \/ /\ doc.stored /\ ~(HasProps(doc) /\ doc.uom = Missing)
        /\ got' = [got EXCEPT ![p] = IF HasProps(doc) THEN doc.uom ELSE Unset]
        /\ GoTo(p, "setuom")
        /\ UNCHANGED <<msg, unit, label, failed, fixed, wrote>>
  /\ UNCHANGED <<stored, history>>

SetUnitOfMeasure(p) ==
  /\ pc[p] = "setuom"
  /\ uomCache' = got[p]
  /\ Measured(p, got[p])
  /\ got' = [got EXCEPT ![p] = Missing]
  /\ UNCHANGED <<doc, uuidCache, uotCache, history, unit, label, failed, wrote>>

-----------------------------------------------------------------------------

(* tsStore.AddMessage; AddData looks at no error of it. *)
Write(p) ==
  /\ pc[p] = "write"
  /\ \E ok \in BOOLEAN : wrote' = [wrote EXCEPT ![p] = ok /\ msg[p].readings]
  /\ GoTo(p, "forward")
  /\ UNCHANGED <<stored, history, msg, unit, got, label, failed, fixed>>

(* broker.HandleMessage, then AddData returns no error. *)
Forward(p) ==
  /\ pc[p] = "forward"
  /\ Return(p)
  /\ UNCHANGED <<stored, history>>

(* A "set" query goes to the store and past the caches: it can put a unit  *)
(* of measure, or a unit of time as a string, into a document.             *)
SetTags ==
  /\ doc.stored
  /\ \/ \E m \in Measures : doc' = [doc EXCEPT !.uom = m]
     \/ doc' = [doc EXCEPT !.uot = Text]
  /\ UNCHANGED <<uuidCache, uotCache, uomCache, history, pc, locals>>

(* Entries expire and are pruned. *)
Expire ==
  /\ \/ uuidCache /\ uuidCache' = FALSE /\ UNCHANGED <<uotCache, uomCache>>
     \/ uotCache # Missing /\ uotCache' = Missing /\ UNCHANGED <<uuidCache, uomCache>>
     \/ uomCache # Missing /\ uomCache' = Missing /\ UNCHANGED <<uuidCache, uotCache>>
  /\ UNCHANGED <<doc, history, pc, locals>>

PubNext(p) ==
  \/ Receive(p)
  \/ CheckSaved(p) \/ Upsert(p) \/ CacheUUID(p) \/ CacheUnitOfTime(p)
  \/ CacheUnitOfMeasure(p) \/ Saved(p)
  \/ HitUnitOfTime(p) \/ FetchUnitOfTime(p) \/ SetUnitOfTime(p)
  \/ HitUnitOfMeasure(p) \/ FetchUnitOfMeasure(p) \/ SetUnitOfMeasure(p)
  \/ Write(p) \/ Forward(p)

(* Messages only. *)
Handling == \E p \in Pubs : PubNext(p)

Next == Handling \/ SetTags \/ Expire

Spec == Init /\ [][Next]_vars

(* No "set" queries. *)
MessagesSpec == Init /\ [][Handling \/ Expire]_vars

(* Nothing expires either. *)
HandlingSpec == Init /\ [][Handling]_vars

-----------------------------------------------------------------------------

States == {"idle", "save", "upsert", "cacheuuid", "cacheuot", "cacheuom", "saved", "getuot",
           "setuot", "getuom", "setuom", "write", "forward", "panicked"}

TypeOK ==
  /\ doc \in [stored : BOOLEAN, uot : Units \cup {Unset, Missing, Text},
              uom : Measures \cup {Unset, Missing}]
  /\ uuidCache \in BOOLEAN
  /\ uotCache \in Units \cup {Missing}
  /\ uomCache \in Measures \cup {Unset, Missing}
  /\ received \in 0..MaxMessages
  /\ declared \in SUBSET Units
  /\ alone \in BOOLEAN
  /\ pc \in [Pubs -> States]
  /\ msg \in [Pubs -> MessageType]
  /\ unit \in [Pubs -> Units \cup {Unset}]
  /\ got \in [Pubs -> Units \cup Measures \cup {Unset, Missing}]
  /\ label \in [Pubs -> Units \cup {Missing}]
  /\ failed \in [Pubs -> BOOLEAN]
  /\ fixed \in [Pubs -> BOOLEAN]
  /\ wrote \in [Pubs -> BOOLEAN]

(* Readings are written, and a message is forwarded, only for a stream     *)
(* that has a document by which a query can find it, and only with a unit  *)
(* of time that some message declared for the stream, or the default.      *)
WrittenIsKnown ==
  \A p \in Pubs : pc[p] \in {"write", "forward"} =>
    /\ doc.stored
    /\ label[p] \in declared \cup {Seconds}

(* mongoProvider_test.go:139-145: a unit of time that a message declares   *)
(* is the one that GetUnitOfTime answers next, whatever was cached, has    *)
(* expired or was answered by default before.  It is asked of streams for  *)
(* which no two messages have declared different units, and whose messages *)
(* have come one at a time.                                                *)
DeclaredUnitHolds ==
  \A p \in Pubs : pc[p] = "forward" /\ wrote[p] /\ alone /\ declared = {unit[p]} =>
    label[p] = unit[p]

(* The same of messages that overlap.                                      *)
DeclaredUnitHoldsInRaces ==
  \A p \in Pubs : pc[p] = "forward" /\ wrote[p] /\ declared = {unit[p]} =>
    label[p] = unit[p]

(* What a miss would have GetUnitOfTime answer. *)
StoredUnit == IF doc.uot \in {Missing, Unset} THEN Seconds ELSE doc.uot

(* mongoProvider.go:27-28 "caches for commonly queries items // UnitOfTime *)
(* cache": when no message is being handled, the cached unit is the stored *)
(* one.                                                                    *)
CachedUnitIsStored ==
  (\A p \in Pubs : pc[p] = "idle") /\ uotCache # Missing => uotCache = StoredUnit

=============================================================================

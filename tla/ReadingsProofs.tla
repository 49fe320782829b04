---------------------------- MODULE ReadingsProofs ----------------------------
(***************************************************************************)
(* Readings on their way into the archiver and out of it.                  *)
(*                                                                         *)
(* First, what AddData keeps of a stream's unit of time, for any number of *)
(* publishers, any units and messages, with expiring caches and "set"      *)
(* queries.  Then what the data queries answer, for any streams, readings  *)
(* and queries, with readings added at any moment of a query.              *)
(***************************************************************************)
EXTENDS Ingest, DataApi, FiniteSetTheorems, SequenceTheorems, TLAPS

(* SaveTags is over, or its Upsert at least. *)
AfterUpsert == States \ {"idle", "panicked", "save", "upsert"}

(* The readings have a unit of time, or had one before the second SaveTags.*)
Labelled(p) == pc[p] \in {"getuom", "setuom", "write", "forward"} \/ fixed[p]

Active(p) == pc[p] \notin {"idle", "panicked"}

(* Types, and what a publisher's place says of its other variables. *)
Shape ==
  /\ TypeOK
  /\ \A p \in Pubs :
       /\ pc[p] \in {"idle", "getuot", "setuot", "getuom", "setuom"} => ~fixed[p]
       /\ pc[p] \in {"getuot", "setuot", "getuom", "setuom", "write", "forward"} => ~failed[p]
       /\ pc[p] = "setuot" => got[p] \in Units
       /\ pc[p] = "setuom" => got[p] \in Measures \cup {Unset}

(* As long as the store does not fail, a stream that is cached, or that a  *)
(* publisher has saved, has a document. *)
SavedIsStored ==
  ~StoreFails =>
    /\ uuidCache => doc.stored
    /\ \A p \in Pubs : pc[p] \in AfterUpsert => doc.stored

(* Whatever unit of time is anywhere was declared by a message, or is the  *)
(* default. *)
UnitsAreKnown ==
  /\ doc.uot \in declared \cup {Unset, Missing, Text}
  /\ uotCache \in declared \cup {Seconds, Missing}
  /\ \A p \in Pubs :
       /\ msg[p].uot \in declared \cup {Unset}
       /\ pc[p] = "setuot" => got[p] \in declared \cup {Seconds}
       /\ label[p] \in declared \cup {Seconds, Missing}
       /\ Labelled(p) => label[p] # Missing

OneActive == alone => \A p, q \in Pubs : Active(p) /\ Active(q) => p = q

(* The unit that a publisher's message declared replaces the stored one,   *)
(* which only a "set" query can replace, making it unreadable, and then    *)
(* the cached one, which can only expire. *)
OwnUnit(p) ==
  /\ msg[p].uot = unit[p] /\ msg[p].props
  /\ pc[p] \in AfterUpsert /\ ~failed[p] => doc.uot \in {unit[p], Text}
  /\ pc[p] \in {"cacheuom", "saved", "getuot"} => uotCache \in {unit[p], Missing}
  /\ pc[p] = "setuot" => got[p] = unit[p]
  /\ Labelled(p) => label[p] = unit[p]

OwnUnitsHold == alone => \A p \in Pubs : Active(p) /\ unit[p] # Unset => OwnUnit(p)

IngestInv == Shape /\ SavedIsStored /\ UnitsAreKnown /\ OneActive /\ OwnUnitsHold

(* The special values differ from each other and from all units. *)
LEMMA ApartValues ==
  ASSUME IngestAssumption
  PROVE  /\ Unset # Missing /\ Unset # Text /\ Missing # Text
         /\ \A x \in {Unset, Missing, Text} : x \notin Units \cup Measures
         /\ Seconds \in Units /\ NA \in Measures
<1>1. ASSUME NEW x, NEW y PROVE Cardinality({x, x, y}) # 3 /\ Cardinality({x, y, x}) # 3 /\ Cardinality({y, x, x}) # 3
  <2>1. IsFiniteSet({y}) /\ Cardinality({y}) = 1 /\ IsFiniteSet({}) /\ Cardinality({}) = 0
    BY FS_EmptySet, FS_Singleton
  <2>2. Cardinality({y} \cup {x}) = IF x \in {y} THEN Cardinality({y}) ELSE Cardinality({y}) + 1
    BY <2>1, FS_AddElement
  <2>3. {x, x, y} = {y} \cup {x} /\ {x, y, x} = {y} \cup {x} /\ {y, x, x} = {y} \cup {x}
    OBVIOUS
  <2> QED
    BY <2>1, <2>2, <2>3
<1> QED
  BY <1>1 DEF IngestAssumption

LEMMA IngestInit == ASSUME IngestAssumption PROVE Init => IngestInv
<1> SUFFICES ASSUME Init PROVE IngestInv
  OBVIOUS
<1> USE ApartValues DEF Init
<1>1. Shape
  <2>1. received \in 0..MaxMessages
    BY DEF IngestAssumption
  <2>2. doc \in [stored : BOOLEAN, uot : Units \cup {Unset, Missing, Text},
                 uom : Measures \cup {Unset, Missing}]
    OBVIOUS
  <2>3. NoMessage \in MessageType
    BY DEF NoMessage, MessageType
  <2> QED
    BY <2>1, <2>2, <2>3 DEF Shape, TypeOK, States
<1>2. SavedIsStored
  BY DEF SavedIsStored, AfterUpsert
<1>3. UnitsAreKnown
  BY DEF UnitsAreKnown, Labelled, NoMessage
<1>4. OneActive /\ OwnUnitsHold
  BY DEF OneActive, OwnUnitsHold, Active
<1> QED
  BY <1>1, <1>2, <1>3, <1>4 DEF IngestInv

(* AddData has returned: the publisher's variables are as at the start. *)
LEMMA Returned ==
  ASSUME IngestAssumption, Shape, NEW p \in Pubs, Return(p)
  PROVE  /\ pc' \in [Pubs -> States] /\ msg' \in [Pubs -> MessageType]
         /\ unit' \in [Pubs -> Units \cup {Unset}]
         /\ got' \in [Pubs -> Units \cup Measures \cup {Unset, Missing}]
         /\ label' \in [Pubs -> Units \cup {Missing}]
         /\ failed' \in [Pubs -> BOOLEAN] /\ fixed' \in [Pubs -> BOOLEAN]
         /\ wrote' \in [Pubs -> BOOLEAN]
         /\ pc'[p] = "idle" /\ fixed'[p] = FALSE /\ failed'[p] = FALSE
         /\ \A q \in Pubs \ {p} : /\ pc'[q] = pc[q] /\ fixed'[q] = fixed[q]
                                 /\ failed'[q] = failed[q] /\ got'[q] = got[q]
<1>1. NoMessage \in MessageType
  BY DEF NoMessage, MessageType
<1> QED
  BY <1>1 DEF Return, GoTo, Shape, TypeOK, States

(* A message keeps its unit of time when it gets the unit of measure "n/a".*)
LEMMA MeasuredEffect ==
  ASSUME IngestAssumption, Shape, NEW p \in Pubs, NEW STATE m, Measured(p, m)
  PROVE  /\ msg' \in [Pubs -> MessageType]
         /\ \A q \in Pubs : msg'[q].uot = msg[q].uot /\ (msg[q].props => msg'[q].props)
         /\ fixed' \in [Pubs -> BOOLEAN] /\ \A q \in Pubs \ {p} : fixed'[q] = fixed[q]
         /\ pc' \in [Pubs -> States] /\ \A q \in Pubs \ {p} : pc'[q] = pc[q]
         /\ \/ pc'[p] = "save" /\ fixed'[p]
            \/ pc'[p] = "write" /\ fixed'[p] = fixed[p]
<1>1. CASE m = Unset
  <2>1. msg' = [msg EXCEPT ![p] = [msg[p] EXCEPT !.props = TRUE, !.uom = NA]]
    BY <1>1 DEF Measured, Shape, TypeOK
  <2>2. [msg[p] EXCEPT !.props = TRUE, !.uom = NA] \in MessageType
    <3>1. msg[p] \in MessageType
      BY DEF Shape, TypeOK
    <3> QED
      BY <3>1, ApartValues DEF MessageType
  <2>3. msg' \in [Pubs -> MessageType]
    BY <2>1, <2>2 DEF Shape, TypeOK
  <2>4. \A q \in Pubs : msg'[q].uot = msg[q].uot /\ (msg[q].props => msg'[q].props)
    BY <2>1, <2>2 DEF Shape, TypeOK, MessageType
  <2>5. fixed' = [fixed EXCEPT ![p] = TRUE] /\ pc' = [pc EXCEPT ![p] = "save"]
    BY <1>1 DEF Measured, GoTo
  <2> QED
    BY <2>3, <2>4, <2>5 DEF Shape, TypeOK, States
<1>2. CASE m # Unset
  BY <1>2 DEF Measured, GoTo, Shape, TypeOK, States
<1> QED
  BY <1>1, <1>2

-----------------------------------------------------------------------------
(* Types and places, step by step. *)
LEMMA ShapeStep ==
  ASSUME IngestAssumption, Shape, NEW p \in Pubs, PubNext(p)
  PROVE  Shape'
<1> USE ApartValues DEF Shape, TypeOK, GoTo, MessageType
<1>1. CASE Receive(p)
  BY <1>1 DEF Receive, stored, States, IngestAssumption
<1>2. CASE CheckSaved(p)
  BY <1>2 DEF CheckSaved, stored, history, States
<1>3. CASE Upsert(p)
  BY <1>3 DEF Upsert, history, States
<1>4. CASE CacheUUID(p)
  BY <1>4 DEF CacheUUID, history, locals, States
<1>5. CASE CacheUnitOfTime(p)
  BY <1>5 DEF CacheUnitOfTime, history, locals, Remembered, States
<1>6. CASE CacheUnitOfMeasure(p)
  BY <1>6 DEF CacheUnitOfMeasure, history, locals, Remembered, States
<1>7. CASE Saved(p)
  <2>1. CASE Return(p)
    <3>1. UNCHANGED <<doc, uuidCache, uotCache, uomCache, received, declared, alone>>
      BY <1>7 DEF Saved, stored, history
    <3> QED
      BY <2>1, <3>1, Returned
  <2>2. CASE UNCHANGED locals /\ ~failed[p] /\ GoTo(p, IF fixed[p] THEN "write" ELSE "getuot")
    BY <1>7, <2>2 DEF Saved, stored, history, locals, States
  <2> QED
    BY <1>7, <2>1, <2>2 DEF Saved
<1>8. CASE HitUnitOfTime(p)
  BY <1>8 DEF HitUnitOfTime, stored, history, Label, States
<1>9. CASE FetchUnitOfTime(p)
  <2>1. CASE Return(p)
    BY <1>9, <2>1, Returned DEF FetchUnitOfTime, stored, history
  <2>2. CASE GoTo(p, "panicked") /\ UNCHANGED locals
    BY <1>9, <2>2 DEF FetchUnitOfTime, stored, history, locals, States
  <2>3. CASE ~FailedFetch(p)
    <3>1. Label(IF doc.uot = Missing THEN Seconds ELSE doc.uot) \in Units
      BY <1>9, <2>3 DEF FetchUnitOfTime, Label
    <3>2. /\ got' = [got EXCEPT ![p] = Label(IF doc.uot = Missing THEN Seconds ELSE doc.uot)]
          /\ pc' = [pc EXCEPT ![p] = "setuot"] /\ pc[p] = "getuot"
          /\ UNCHANGED <<msg, unit, label, failed, fixed, wrote, stored, history>>
      BY <1>9, <2>3 DEF FetchUnitOfTime
    <3> QED
      BY <3>1, <3>2 DEF stored, history, States
  <2> QED
    BY <2>1, <2>2, <2>3 DEF FailedFetch
<1>10. CASE SetUnitOfTime(p)
  BY <1>10 DEF SetUnitOfTime, history, Label, States
<1>11. CASE HitUnitOfMeasure(p)
  <2>1. Measured(p, uomCache)
    BY <1>11 DEF HitUnitOfMeasure
  <2> QED
    BY <1>11, <2>1, MeasuredEffect DEF HitUnitOfMeasure, stored, history
<1>12. CASE FetchUnitOfMeasure(p)
  <2>1. CASE Return(p)
    BY <1>12, <2>1, Returned DEF FetchUnitOfMeasure, stored, history
  <2>2. CASE GoTo(p, "panicked") /\ UNCHANGED locals
    BY <1>12, <2>2 DEF FetchUnitOfMeasure, stored, history, locals, States
  <2>3. CASE GoTo(p, "setuom") /\ ~Return(p) /\ ~GoTo(p, "panicked")
    <3>1. (IF HasProps(doc) THEN doc.uom ELSE Unset) \in Measures \cup {Unset}
      BY <1>12, <2>3 DEF FetchUnitOfMeasure, FailedFetch, HasProps
    <3> QED
      BY <1>12, <2>3, <3>1 DEF FetchUnitOfMeasure, FailedFetch, stored, history, States
  <2> QED
    BY <1>12, <2>1, <2>2, <2>3 DEF FetchUnitOfMeasure, FailedFetch
<1>13. CASE SetUnitOfMeasure(p)
  <2>1. Measured(p, got[p])
    BY <1>13 DEF SetUnitOfMeasure
  <2> QED
    BY <1>13, <2>1, MeasuredEffect DEF SetUnitOfMeasure, history
<1>14. CASE Write(p)
  BY <1>14 DEF Write, stored, history, States
<1>15. CASE Forward(p)
  BY <1>15 DEF Forward, stored, history, Return, States, NoMessage
<1> QED
  BY <1>1, <1>2, <1>3, <1>4, <1>5, <1>6, <1>7, <1>8, <1>9, <1>10, <1>11, <1>12, <1>13, <1>14, <1>15 DEF PubNext

(* Nothing removes a document, and an Upsert that returns no error makes  *)
(* one. *)
LEMMA StoredStep ==
  ASSUME IngestAssumption, Shape, SavedIsStored, NEW p \in Pubs, PubNext(p)
  PROVE  SavedIsStored'
<1> USE ApartValues DEF Shape, TypeOK, GoTo, SavedIsStored, AfterUpsert, States
<1>1. CASE Receive(p)
  BY <1>1 DEF Receive, stored
<1>2. CASE CheckSaved(p)
  BY <1>2 DEF CheckSaved, stored, history, HasMetadata
<1>3. CASE Upsert(p)
  BY <1>3 DEF Upsert, history
<1>4. CASE CacheUUID(p)
  BY <1>4 DEF CacheUUID, history, locals
<1>5. CASE CacheUnitOfTime(p)
  BY <1>5 DEF CacheUnitOfTime, history, locals, Remembered
<1>6. CASE CacheUnitOfMeasure(p)
  BY <1>6 DEF CacheUnitOfMeasure, history, locals, Remembered
<1>7. CASE Saved(p)
  BY <1>7 DEF Saved, stored, history, locals, Return
<1>8. CASE HitUnitOfTime(p)
  BY <1>8 DEF HitUnitOfTime, stored, history, Label
<1>9. CASE FetchUnitOfTime(p)
  BY <1>9 DEF FetchUnitOfTime, FailedFetch, stored, history, locals, Return, Label
<1>10. CASE SetUnitOfTime(p)
  BY <1>10 DEF SetUnitOfTime, history, Label
<1>11. CASE HitUnitOfMeasure(p)
  BY <1>11 DEF HitUnitOfMeasure, stored, history, Measured
<1>12. CASE FetchUnitOfMeasure(p)
  BY <1>12 DEF FetchUnitOfMeasure, FailedFetch, stored, history, locals, Return
<1>13. CASE SetUnitOfMeasure(p)
  BY <1>13 DEF SetUnitOfMeasure, history, Measured
<1>14. CASE Write(p)
  BY <1>14 DEF Write, stored, history
<1>15. CASE Forward(p)
  BY <1>15 DEF Forward, stored, history, Return
<1> QED
  BY <1>1, <1>2, <1>3, <1>4, <1>5, <1>6, <1>7, <1>8, <1>9, <1>10, <1>11, <1>12, <1>13, <1>14, <1>15 DEF PubNext

(* A unit of time comes from a message, whose unit was declared, or by     *)
(* default. *)
LEMMA KnownStep ==
  ASSUME IngestAssumption, Shape, UnitsAreKnown, NEW p \in Pubs, PubNext(p)
  PROVE  UnitsAreKnown'
<1> USE ApartValues DEF Shape, TypeOK, GoTo, UnitsAreKnown, Labelled
<1>1. CASE Receive(p)
  BY <1>1 DEF Receive, stored, IngestAssumption, MessageType
<1>2. CASE CheckSaved(p)
  BY <1>2 DEF CheckSaved, stored, history
<1>3. CASE Upsert(p)
  BY <1>3 DEF Upsert, history
<1>4. CASE CacheUUID(p)
  BY <1>4 DEF CacheUUID, history, locals
<1>5. CASE CacheUnitOfTime(p)
  BY <1>5 DEF CacheUnitOfTime, history, locals, Remembered
<1>6. CASE CacheUnitOfMeasure(p)
  BY <1>6 DEF CacheUnitOfMeasure, history, locals, Remembered
<1>7. CASE Saved(p)
  BY <1>7 DEF Saved, stored, history, locals, Return, NoMessage
<1>8. CASE HitUnitOfTime(p)
  BY <1>8 DEF HitUnitOfTime, stored, history, Label
<1>9. CASE FetchUnitOfTime(p)
  BY <1>9 DEF FetchUnitOfTime, FailedFetch, stored, history, locals, Return, Label, NoMessage
<1>10. CASE SetUnitOfTime(p)
  BY <1>10 DEF SetUnitOfTime, history, Label
<1>11. CASE HitUnitOfMeasure(p)
  <2>1. Measured(p, uomCache)
    BY <1>11 DEF HitUnitOfMeasure
  <2> HIDE DEF GoTo
  <2> QED
    BY <1>11, <2>1, MeasuredEffect DEF HitUnitOfMeasure, stored, history
<1>12. CASE FetchUnitOfMeasure(p)
  BY <1>12 DEF FetchUnitOfMeasure, FailedFetch, stored, history, locals, Return, NoMessage
<1>13. CASE SetUnitOfMeasure(p)
  <2>1. Measured(p, got[p])
    BY <1>13 DEF SetUnitOfMeasure
  <2> HIDE DEF GoTo
  <2> QED
    BY <1>13, <2>1, MeasuredEffect DEF SetUnitOfMeasure, history
<1>14. CASE Write(p)
  BY <1>14 DEF Write, stored, history
<1>15. CASE Forward(p)
  BY <1>15 DEF Forward, stored, history, Return, NoMessage
<1> QED
  BY <1>1, <1>2, <1>3, <1>4, <1>5, <1>6, <1>7, <1>8, <1>9, <1>10, <1>11, <1>12, <1>13, <1>14, <1>15 DEF PubNext

(* A second message, while one is being handled, ends the time of `alone'. *)
LEMMA AloneStep ==
  ASSUME IngestAssumption, Shape, OneActive, NEW p \in Pubs, PubNext(p)
  PROVE  OneActive'
<1> USE ApartValues DEF Shape, TypeOK, GoTo, OneActive, Active
<1>1. CASE Receive(p)
  BY <1>1 DEF Receive, stored
<1>2. CASE CheckSaved(p)
  BY <1>2 DEF CheckSaved, stored, history
<1>3. CASE Upsert(p)
  BY <1>3 DEF Upsert, history
<1>4. CASE CacheUUID(p)
  BY <1>4 DEF CacheUUID, history, locals
<1>5. CASE CacheUnitOfTime(p)
  BY <1>5 DEF CacheUnitOfTime, history, locals, Remembered
<1>6. CASE CacheUnitOfMeasure(p)
  BY <1>6 DEF CacheUnitOfMeasure, history, locals, Remembered
<1>7. CASE Saved(p)
  BY <1>7 DEF Saved, stored, history, locals, Return
<1>8. CASE HitUnitOfTime(p)
  BY <1>8 DEF HitUnitOfTime, stored, history, Label
<1>9. CASE FetchUnitOfTime(p)
  BY <1>9 DEF FetchUnitOfTime, FailedFetch, stored, history, locals, Return, Label
<1>10. CASE SetUnitOfTime(p)
  BY <1>10 DEF SetUnitOfTime, history, Label
<1>11. CASE HitUnitOfMeasure(p)
  BY <1>11 DEF HitUnitOfMeasure, stored, history, Measured
<1>12. CASE FetchUnitOfMeasure(p)
  BY <1>12 DEF FetchUnitOfMeasure, FailedFetch, stored, history, locals, Return
<1>13. CASE SetUnitOfMeasure(p)
  BY <1>13 DEF SetUnitOfMeasure, history, Measured
<1>14. CASE Write(p)
  BY <1>14 DEF Write, stored, history
<1>15. CASE Forward(p)
  BY <1>15 DEF Forward, stored, history, Return
<1> QED
  BY <1>1, <1>2, <1>3, <1>4, <1>5, <1>6, <1>7, <1>8, <1>9, <1>10, <1>11, <1>12, <1>13, <1>14, <1>15 DEF PubNext

(* A message's own unit stays in force until its readings are labelled. *)
LEMMA OwnStep ==
  ASSUME IngestAssumption, Shape, OneActive, OwnUnitsHold, NEW p \in Pubs, PubNext(p)
  PROVE  OwnUnitsHold'
<1> USE ApartValues DEF Shape, TypeOK, GoTo, OneActive, OwnUnitsHold, OwnUnit, Active, Labelled, AfterUpsert, States
<1>1. CASE Receive(p)
  BY <1>1 DEF Receive, stored, IngestAssumption, MessageType
<1>2. CASE CheckSaved(p)
  BY <1>2 DEF CheckSaved, stored, history, HasMetadata
<1>3. CASE Upsert(p)
  BY <1>3 DEF Upsert, history
<1>4. CASE CacheUUID(p)
  BY <1>4 DEF CacheUUID, history, locals
<1>5. CASE CacheUnitOfTime(p)
  BY <1>5 DEF CacheUnitOfTime, history, locals, Remembered
<1>6. CASE CacheUnitOfMeasure(p)
  BY <1>6 DEF CacheUnitOfMeasure, history, locals, Remembered
<1>7. CASE Saved(p)
  BY <1>7 DEF Saved, stored, history, locals, Return, NoMessage
<1>8. CASE HitUnitOfTime(p)
  BY <1>8 DEF HitUnitOfTime, stored, history, Label
<1>9. CASE FetchUnitOfTime(p)
  BY <1>9 DEF FetchUnitOfTime, FailedFetch, stored, history, locals, Return, Label, NoMessage
<1>10. CASE SetUnitOfTime(p)
  BY <1>10 DEF SetUnitOfTime, history, Label
<1>11. CASE HitUnitOfMeasure(p)
  <2>1. Measured(p, uomCache)
    BY <1>11 DEF HitUnitOfMeasure
  <2> HIDE DEF GoTo
  <2> QED
    BY <1>11, <2>1, MeasuredEffect DEF HitUnitOfMeasure, stored, history
<1>12. CASE FetchUnitOfMeasure(p)
  BY <1>12 DEF FetchUnitOfMeasure, FailedFetch, stored, history, locals, Return, NoMessage
<1>13. CASE SetUnitOfMeasure(p)
  <2>1. Measured(p, got[p])
    BY <1>13 DEF SetUnitOfMeasure
  <2> HIDE DEF GoTo
  <2> QED
    BY <1>13, <2>1, MeasuredEffect DEF SetUnitOfMeasure, history
<1>14. CASE Write(p)
  BY <1>14 DEF Write, stored, history
<1>15. CASE Forward(p)
  BY <1>15 DEF Forward, stored, history, Return, NoMessage
<1> QED
  BY <1>1, <1>2, <1>3, <1>4, <1>5, <1>6, <1>7, <1>8, <1>9, <1>10, <1>11, <1>12, <1>13, <1>14, <1>15 DEF PubNext

-----------------------------------------------------------------------------
(* What is not a publisher's step takes nothing that the invariant needs.  *)
LEMMA OthersStep ==
  ASSUME IngestAssumption, IngestInv, SetTags \/ Expire \/ UNCHANGED vars
  PROVE  IngestInv'
<1> USE ApartValues DEF IngestInv
<1>1. CASE SetTags
  <2>1. /\ doc' \in [stored : BOOLEAN, uot : Units \cup {Unset, Missing, Text},
                     uom : Measures \cup {Unset, Missing}]
        /\ doc'.stored = doc.stored
        /\ doc'.uot = doc.uot \/ doc'.uot = Text
    BY <1>1 DEF SetTags, Shape, TypeOK
  <2>2. UNCHANGED <<uuidCache, uotCache, uomCache, history, pc, locals>>
    BY <1>1 DEF SetTags
  <2>3. Shape'
    BY <2>1, <2>2 DEF Shape, TypeOK, history, locals
  <2>4. SavedIsStored' /\ UnitsAreKnown' /\ OneActive'
    BY <2>1, <2>2 DEF SavedIsStored, UnitsAreKnown, Labelled, OneActive, Active, history, locals
  <2>5. OwnUnitsHold'
    BY <2>1, <2>2 DEF OwnUnitsHold, OwnUnit, Labelled, Active, history, locals
  <2> QED
    BY <2>3, <2>4, <2>5
<1>2. CASE Expire \/ UNCHANGED vars
  <2>1. /\ uuidCache' \in {uuidCache, FALSE}
        /\ uotCache' \in {uotCache, Missing} /\ uomCache' \in {uomCache, Missing}
        /\ UNCHANGED <<doc, history, pc, locals>>
    BY <1>2 DEF Expire, vars, stored
  <2>2. Shape'
    BY <2>1 DEF Shape, TypeOK, history, locals
  <2>3. SavedIsStored' /\ UnitsAreKnown' /\ OneActive'
    <3>1. SavedIsStored'
      BY <2>1 DEF SavedIsStored, Shape, TypeOK
    <3>2. UnitsAreKnown'
      BY <2>1 DEF UnitsAreKnown, Labelled, history, locals
    <3>3. OneActive'
      BY <2>1 DEF OneActive, Active, history
    <3> QED
      BY <3>1, <3>2, <3>3
  <2>4. OwnUnitsHold'
    BY <2>1 DEF OwnUnitsHold, OwnUnit, Labelled, Active, history, locals
  <2> QED
    BY <2>2, <2>3, <2>4
<1> QED
  BY <1>1, <1>2

LEMMA IngestInvHolds == Spec => []IngestInv
<1>1. Init => IngestInv
  BY IngestInit, IngestAssumption
<1>2. IngestInv /\ [Next]_vars => IngestInv'
  <2>1. ASSUME IngestInv, NEW p \in Pubs, PubNext(p) PROVE IngestInv'
    BY <2>1, ShapeStep, StoredStep, KnownStep, AloneStep, OwnStep, IngestAssumption DEF IngestInv
  <2> QED
    BY <2>1, OthersStep, IngestAssumption DEF Next, Handling
<1> QED
  BY <1>1, <1>2, PTL DEF Spec

(* The variables keep their types. *)
THEOREM IngestTypes == Spec => []TypeOK
<1>1. IngestInv => TypeOK
  BY DEF IngestInv, Shape
<1> QED
  BY <1>1, IngestInvHolds, PTL

(* If the metadata store does not fail, readings are written only for a    *)
(* stream with a document, and with a unit of time that was declared for   *)
(* it or is the default (archiver.go AddData, mongoProvider.go SaveTags).  *)
THEOREM WrittenStreamsAreKnown == ASSUME StoreFails = FALSE PROVE Spec => []WrittenIsKnown
<1>1. IngestInv => WrittenIsKnown
  BY DEF IngestInv, SavedIsStored, UnitsAreKnown, Labelled, WrittenIsKnown, AfterUpsert, States
<1> QED
  BY <1>1, IngestInvHolds, PTL

(* The store failing or not, the readings of a message that came alone get *)
(* the unit of time that it declares, whatever was cached, has expired or  *)
(* was answered by default before (mongoProvider.go GetUnitOfTime).        *)
THEOREM DeclaredUnitsAreHeld == Spec => []DeclaredUnitHolds
<1>1. IngestInv => DeclaredUnitHolds
  <2> SUFFICES ASSUME IngestInv, NEW p \in Pubs, pc[p] = "forward", alone, declared = {unit[p]}
               PROVE  label[p] = unit[p]
    BY DEF DeclaredUnitHolds
  <2>1. unit[p] # Unset
    BY ApartValues, IngestAssumption DEF IngestInv, Shape, TypeOK
  <2> QED
    BY <2>1 DEF IngestInv, OwnUnitsHold, OwnUnit, Active, Labelled
<1> QED
  BY <1>1, IngestInvHolds, PTL

-----------------------------------------------------------------------------
(* The units of time of archiver/api.go and common/time.go.               *)

(* Products of a number and their quotients. *)
LEMMA Quotients ==
  ASSUME NEW n \in Nat, NEW a \in Int, n > 0
  PROVE  /\ a \div n \in Int /\ a % n \in 0..(n - 1)
         /\ a = n * (a \div n) + (a % n)
<1>1. a \div n \in Int
  OBVIOUS
<1>2. a % n \in 0..(n - 1)
  OBVIOUS
<1>3. a = n * (a \div n) + (a % n)
  OBVIOUS
<1> QED
  BY <1>1, <1>2, <1>3

LEMMA QuotientsOrder ==
  ASSUME NEW n \in Nat, NEW a \in Nat, n > 0
  PROVE  a \div n \in Nat /\ a \div n <= a
OBVIOUS

LEMMA Cancelled ==
  ASSUME NEW n \in Nat, NEW m \in Nat, NEW k \in Nat, n > 0, m > 0
  PROVE  (n * k) \div n = k /\ (n * k) \div (n * m) = k \div m
OBVIOUS

(* The factors between the units. *)
LEMMA Ratios ==
  ASSUME DataAssumption
  PROVE  /\ Factor * Factor \in Nat /\ Factor * Factor > 0
         /\ Factor * Factor * Factor \in Nat /\ Factor * Factor * Factor > 0
         /\ Nanos(1) = 1 /\ Nanos(2) = Factor
         /\ Nanos(3) = Factor * Factor /\ Nanos(4) = Factor * Factor * Factor
         /\ multiplier[1] \div multiplier[2] = Factor
         /\ multiplier[1] \div multiplier[3] = Factor * Factor
         /\ multiplier[1] \div multiplier[4] = Factor * Factor * Factor
         /\ multiplier[2] \div multiplier[3] = Factor
         /\ multiplier[2] \div multiplier[4] = Factor * Factor
         /\ multiplier[3] \div multiplier[4] = Factor
<1>1. Factor \in Nat /\ Factor > 1
  BY DEF DataAssumption
<1> DEFINE F2 == Factor * Factor
           F3 == Factor * Factor * Factor
<1>2. F2 \in Nat /\ F2 > 0
  BY <1>1
<1>3. F3 \in Nat /\ F3 > 0
  BY <1>1
<1>4. F3 \div F3 = 1
  <2> HIDE DEF F3
  <2> QED BY <1>3
<1>5. F2 \div Factor = Factor
  BY <1>1
<1>6. F3 \div F2 = Factor
  <2>1. F3 = F2 * Factor
    BY <1>1
  <2> HIDE DEF F2, F3
  <2>2. (F2 * Factor) \div F2 = Factor
    BY <1>1, <1>2, Cancelled
  <2> QED
    BY <2>1, <2>2
<1>7. F3 \div Factor = F2
  <2>1. F3 = Factor * F2
    BY <1>1
  <2> HIDE DEF F2, F3
  <2>2. (Factor * F2) \div Factor = F2
    BY <1>1, <1>2, Cancelled
  <2> QED
    BY <2>1, <2>2
<1>8. F3 \div 1 = F3 /\ F2 \div 1 = F2 /\ Factor \div 1 = Factor
  <2> HIDE DEF F2, F3
  <2> QED BY <1>1, <1>2, <1>3
<1>9. multiplier = <<F3, F2, Factor, 1>>
  BY DEF multiplier
<1> HIDE DEF F2, F3
<1>10. multiplier[1] = F3 /\ multiplier[2] = F2 /\ multiplier[3] = Factor /\ multiplier[4] = 1
  BY <1>9
<1>11. /\ Nanos(1) = 1 /\ Nanos(2) = Factor /\ Nanos(3) = F2 /\ Nanos(4) = F3
  BY <1>4, <1>6, <1>7, <1>8, <1>10, Zenon DEF Nanos, NS
<1>12. /\ F2 \in Nat /\ F2 > 0 /\ F3 \in Nat /\ F3 > 0
       /\ multiplier[1] \div multiplier[2] = Factor
       /\ multiplier[1] \div multiplier[3] = F2
       /\ multiplier[1] \div multiplier[4] = F3
       /\ multiplier[2] \div multiplier[3] = Factor
       /\ multiplier[2] \div multiplier[4] = F2
       /\ multiplier[3] \div multiplier[4] = Factor
  BY <1>2, <1>3, <1>5, <1>6, <1>7, <1>8, <1>10
<1> QED
  BY <1>11, <1>12 DEF F2, F3

(* A conversion that neither wraps nor exceeds is the product with the     *)
(* ratio, or the quotient. *)
LEMMA Finer ==
  ASSUME DataAssumption, NEW t \in Nat, NEW from \in 1..4, NEW to \in 1..4, to < from,
         NEW m \in Nat, m > 0, multiplier[to] \div multiplier[from] = m, t * m < Word
  PROVE  ConvertTime(t, from, to) = [time |-> t * m, ok |-> TRUE]
<1>1. t * m \in Nat /\ t * m >= t
  OBVIOUS
<1>2. (t * m) % Word = t * m
  <2> DEFINE a == t * m
  <2>1. a \in Nat /\ a < Word /\ Word \in Nat
    BY <1>1 DEF DataAssumption
  <2> HIDE DEF a
  <2>2. a % Word = a
    BY <2>1
  <2> QED
    BY <2>2 DEF a
<1>3. ConvertTime(t, from, to) =
        [time |-> IF (t * m) % Word < t THEN t ELSE (t * m) % Word, ok |-> (t * m) % Word >= t]
  BY DEF ConvertTime
<1>4. ~((t * m) % Word < t) /\ ((t * m) % Word >= t) = TRUE
  <2> DEFINE a == t * m
  <2>1. a \in Nat /\ a >= t
    BY <1>1
  <2> HIDE DEF a
  <2>2. ~(a < t) /\ (a >= t) = TRUE
    BY <2>1
  <2> QED
    BY <1>2, <2>2 DEF a
<1> QED
  BY <1>2, <1>3, <1>4, Zenon

LEMMA Coarser ==
  ASSUME DataAssumption, NEW t \in Nat, NEW from \in 1..4, NEW to \in 1..4, to > from,
         NEW m \in Nat, m > 0, multiplier[from] \div multiplier[to] = m
  PROVE  ConvertTime(t, from, to) = [time |-> t \div m, ok |-> TRUE]
<1>1. t \div m \in Nat /\ t \div m <= t
  BY QuotientsOrder
<1>2. ConvertTime(t, from, to) =
        [time |-> IF t \div m > t THEN t ELSE t \div m, ok |-> t \div m <= t]
  BY DEF ConvertTime
<1>3. ~(t \div m > t) /\ (t \div m <= t) = TRUE
  BY <1>1
<1> QED
  BY <1>2, <1>3, Zenon

(* Nanos(u) divides what Nanos of a coarser unit does. *)
LEMMA NanosType ==
  ASSUME DataAssumption, NEW u \in 1..4
  PROVE  Nanos(u) \in Nat /\ Nanos(u) > 0
<1>1. Factor \in Nat /\ Factor > 0
  BY DEF DataAssumption
<1>2. u = 1 \/ u = 2 \/ u = 3 \/ u = 4
  OBVIOUS
<1> QED
  BY <1>1, <1>2, Ratios

(* The nanoseconds of a unit are those of a finer one, times their ratio. *)
LEMMA Ratio ==
  ASSUME DataAssumption, NEW from \in 1..4, NEW to \in 1..4, from < to
  PROVE  \E m \in Nat : /\ m > 0 /\ multiplier[from] \div multiplier[to] = m
                        /\ Nanos(to) = Nanos(from) * m
<1>1. Factor \in Nat /\ Factor > 0
  BY DEF DataAssumption
<1> DEFINE F2 == Factor * Factor
           F3 == Factor * Factor * Factor
<1>2. F2 \in Nat /\ F2 > 0 /\ F3 \in Nat /\ F3 > 0
  BY <1>1, Ratios
<1>3. F3 = F2 * Factor /\ F3 = Factor * F2
  BY <1>1
<1>4. /\ Nanos(1) = 1 /\ Nanos(2) = Factor /\ Nanos(3) = F2 /\ Nanos(4) = F3
      /\ multiplier[1] \div multiplier[2] = Factor
      /\ multiplier[1] \div multiplier[3] = F2
      /\ multiplier[1] \div multiplier[4] = F3
      /\ multiplier[2] \div multiplier[3] = Factor
      /\ multiplier[2] \div multiplier[4] = F2
      /\ multiplier[3] \div multiplier[4] = Factor
  BY Ratios
<1>5. F2 = Factor * Factor
  OBVIOUS
<1> HIDE DEF F2, F3
<1>6. 1 * Factor = Factor /\ 1 * F2 = F2 /\ 1 * F3 = F3
  BY <1>1, <1>2
<1>7. CASE from = 1
  <2>1. to = 2 \/ to = 3 \/ to = 4
    BY <1>7
  <2> QED
    BY <2>1, <1>1, <1>2, <1>4, <1>6, <1>7
<1>8. CASE from = 2
  <2>1. to = 3 \/ to = 4
    BY <1>8
  <2> QED
    BY <2>1, <1>1, <1>2, <1>3, <1>4, <1>5, <1>8
<1>9. CASE from = 3
  <2>1. to = 4
    BY <1>9
  <2> QED
    BY <2>1, <1>1, <1>2, <1>3, <1>4, <1>9
<1> QED
  BY <1>7, <1>8, <1>9

(* An instant that is a whole number of units from is converted to what it *)
(* is in another unit, if the unit is guessed.                             *)
LEMMA Converts ==
  ASSUME DataAssumption, NEW i \in Nat, i < Word, NEW from \in 1..4, NEW to \in 1..4,
         i % Nanos(from) = 0, GuessTimeUnit(i \div Nanos(from)) = from
  PROVE  Guessed(i \div Nanos(from), to) = [time |-> i \div Nanos(to), ok |-> TRUE]
<1> DEFINE n == Nanos(from)
           k == i \div n
<1>1. n \in Nat /\ n > 0
  BY NanosType
<1>2. k \in Nat /\ i = n * k
  <2> HIDE DEF n
  <2>1. i = n * (i \div n) + (i % n) /\ i \div n \in Nat
    BY <1>1, Quotients, QuotientsOrder
  <2>2. i % n = 0
    BY DEF n
  <2> QED
    BY <1>1, <2>1, <2>2
<1>3. Guessed(k, to) = ConvertTime(k, from, to)
  BY DEF Guessed
<1>4. CASE to = from
  BY <1>3, <1>4 DEF ConvertTime
<1>5. CASE to < from
  <2>1. PICK m \in Nat : /\ m > 0 /\ multiplier[to] \div multiplier[from] = m
                         /\ n = Nanos(to) * m
    BY <1>5, Ratio
  <2> DEFINE o == Nanos(to)
  <2>2. o \in Nat /\ o > 0
    BY NanosType
  <2> HIDE DEF n, k, o
  <2>3. i = o * (k * m) /\ k * m \in Nat
    <3>1. i = n * k /\ n = o * m
      BY <1>2, <2>1 DEF o
    <3> QED
      BY <1>1, <1>2, <2>1, <2>2, <3>1
  <2>4. i \div o = k * m
    <3> DEFINE x == k * m
    <3> HIDE DEF x
    <3>1. x \in Nat /\ i = o * x
      BY <2>3 DEF x
    <3>2. (o * x) \div o = x
      BY <2>2, <3>1, Cancelled
    <3> QED
      BY <3>1, <3>2 DEF x
  <2>5. k * m < Word
    BY <2>2, <2>4, QuotientsOrder DEF DataAssumption
  <2>6. ConvertTime(k, from, to) = [time |-> k * m, ok |-> TRUE]
    BY <1>2, <1>5, <2>1, <2>5, Finer
  <2> QED
    BY <1>3, <2>4, <2>6 DEF o, k, n
<1>6. CASE from < to
  <2>1. PICK m \in Nat : /\ m > 0 /\ multiplier[from] \div multiplier[to] = m
                         /\ Nanos(to) = n * m
    BY <1>6, Ratio
  <2> HIDE DEF n, k
  <2>2. ConvertTime(k, from, to) = [time |-> k \div m, ok |-> TRUE]
    BY <1>2, <1>6, <2>1, Coarser
  <2>3. (n * k) \div (n * m) = k \div m
    BY <1>1, <1>2, <2>1, Cancelled
  <2> QED
    BY <1>2, <1>3, <2>1, <2>2, <2>3 DEF k, n
<1> QED
  BY <1>4, <1>5, <1>6

(* The guess, whatever a time is of, is a unit, and a time stays a word. *)
LEMMA GuessIsUnit ==
  ASSUME DataAssumption, NEW t \in Nat
  PROVE  GuessTimeUnit(t) \in 1..4
BY DEF GuessTimeUnit, DataAssumption, NS, US, MS, S

LEMMA GuessedType ==
  ASSUME DataAssumption, NEW t \in 0..(Word - 1), NEW to \in 1..4
  PROVE  Guessed(t, to).time \in 0..(Word - 1) /\ Guessed(t, to).ok \in BOOLEAN
<1> DEFINE from == GuessTimeUnit(t)
<1>1. from \in 1..4 /\ Word \in Nat /\ Word > 0
  BY GuessIsUnit DEF DataAssumption
<1>2. Guessed(t, to) = ConvertTime(t, from, to)
  BY DEF Guessed
<1> HIDE DEF from
<1>3. CASE to = from
  <2>1. ConvertTime(t, from, to) = [time |-> t, ok |-> TRUE]
    BY <1>3 DEF ConvertTime
  <2> QED
    BY <1>2, <2>1
<1>4. CASE to < from
  <2> DEFINE m == multiplier[to] \div multiplier[from]
             x == (t * m) % Word
  <2>1. m \in Nat
    BY <1>1, <1>4, Ratio
  <2>2. x \in 0..(Word - 1)
    <3> HIDE DEF m
    <3>1. t * m \in Int
      BY <2>1
    <3> DEFINE a == t * m
    <3> HIDE DEF a
    <3>2. a % Word \in 0..(Word - 1)
      BY <1>1, <3>1, Quotients DEF a
    <3> QED
      BY <3>2 DEF a
  <2>3. ConvertTime(t, from, to) = [time |-> IF x < t THEN t ELSE x, ok |-> x >= t]
    BY <1>1, <1>4 DEF ConvertTime
  <2> HIDE DEF x, m
  <2> QED
    BY <1>2, <2>2, <2>3
<1>5. CASE from < to
  <2>1. PICK m \in Nat : m > 0 /\ multiplier[from] \div multiplier[to] = m
    BY <1>1, <1>5, Ratio
  <2>2. ConvertTime(t, from, to) = [time |-> t \div m, ok |-> TRUE]
    BY <1>1, <1>5, <2>1, Coarser
  <2>3. t \div m \in Nat /\ t \div m <= t
    BY <2>1, QuotientsOrder
  <2> QED
    BY <1>1, <1>2, <2>2, <2>3
<1> QED
  BY <1>1, <1>3, <1>4, <1>5

(* A half of the words are negative as signed numbers. *)
LEMMA Signed ==
  ASSUME DataAssumption
  PROVE  /\ Word \in Nat /\ Word > 0 /\ Word \div 2 \in Nat /\ Word = 2 * (Word \div 2)
         /\ \A t \in 0..(Word - 1) : int64(t) \in (0 - Word \div 2)..(Word \div 2 - 1)
         /\ \A t \in 0..(Word \div 2 - 1) : int64(t) = t /\ uint64(t) = t
         /\ \A t \in Int : uint64(t) \in 0..(Word - 1)
<1>1. Word \in Nat /\ Word > 0 /\ Word % 2 = 0
  BY DEF DataAssumption
<1>2. Word \div 2 \in Nat /\ Word = 2 * (Word \div 2)
  BY <1>1
<1>3. \A t \in 0..(Word - 1) : int64(t) \in (0 - Word \div 2)..(Word \div 2 - 1)
  BY <1>1, <1>2 DEF int64
<1>4. \A t \in 0..(Word \div 2 - 1) : int64(t) = t /\ uint64(t) = t
  BY <1>1, <1>2 DEF int64, uint64
<1>5. \A t \in Int : uint64(t) \in 0..(Word - 1)
  BY <1>1 DEF uint64
<1> QED
  BY <1>1, <1>2, <1>3, <1>4, <1>5

(* Induction up to n, for membership in a set.  If not all of 0..n were in *)
(* T, there would be a smallest of the sets (0..i) \ T with i not in T.    *)
LEMMA SetInduction ==
  ASSUME NEW n \in Nat, NEW T, 0 \in T, \A i \in T : i < n => i + 1 \in T
  PROVE  \A i \in 0..n : i \in T
<1> SUFFICES ASSUME (0..n) \ T # {} PROVE FALSE
  OBVIOUS
<1> DEFINE F == {(0..i) \ T : i \in (0..n) \ T}
<1> DEFINE All == 0..n
<1>1. FiniteSubsetsOf(All) = SUBSET All
  <2>1. IsFiniteSet(All)
    BY FS_Interval
  <2> HIDE DEF All
  <2> QED
    BY <2>1, FS_FiniteSubsetsOfFinite
<1>2. F \subseteq SUBSET All /\ F # {}
  <2>1. ASSUME NEW y \in 0..n, NEW z \in 0..y PROVE z \in All
    BY <2>1
  <2> QED
    BY <2>1, Zenon
<1>3. PICK s \in F : \A r \in F : <<r, s>> \notin StrictSubsetOrdering(All)
  <2>1. IsWellFoundedOn(StrictSubsetOrdering(All), SUBSET All)
    BY <1>1, FS_StrictSubsetOrderingWellFounded
  <2> HIDE DEF F, All
  <2> QED
    BY <1>2, <2>1, WFMin
<1>4. PICK y \in (0..n) \ T : s = (0..y) \ T
  BY <1>3
<1>5. y > 0 /\ y - 1 \in 0..n /\ y - 1 \notin T
  <2>1. y \in Nat /\ y \in 0..n /\ y \notin T
    BY <1>4
  <2>2. y # 0
    BY <2>1
  <2>3. y - 1 \in 0..n /\ y - 1 < n /\ (y - 1) + 1 = y
    BY <2>1, <2>2
  <2>4. y - 1 \notin T
    <3> SUFFICES ASSUME y - 1 \in T PROVE FALSE
      OBVIOUS
    <3>1. (y - 1) + 1 \in T
      BY <2>3
    <3> QED
      BY <2>1, <2>3, <3>1
  <2> QED
    BY <2>1, <2>2, <2>3, <2>4
<1>6. (0..(y - 1)) \ T \in F /\ (0..(y - 1)) \ T \subseteq s /\ y \in s /\ y \notin (0..(y - 1)) \ T
  BY <1>4, <1>5
<1>7. (0..(y - 1)) \ T \in SUBSET All /\ s \in SUBSET All
  BY <1>2, <1>3, <1>6
<1>8. <<(0..(y - 1)) \ T, s>> \in StrictSubsetOrdering(All)
  <2> HIDE DEF F, All
  <2> QED
    BY <1>6, <1>7 DEF StrictSubsetOrdering
<1> QED
  BY <1>3, <1>6, <1>8


(* Some element of a finite set is the greatest by f. *)
LEMMA Greatest ==
  ASSUME NEW R, IsFiniteSet(R), R # {}, NEW f \in [R -> Int]
  PROVE  \E m \in R : \A x \in R : f[x] <= f[m]
<1> DEFINE Has(Q) == \E m \in Q : \A x \in Q : f[x] <= f[m]
           T == {k \in Nat : \A Q \in SUBSET R : Q # {} /\ Cardinality(Q) <= k => Has(Q)}
<1>1. \A Q \in SUBSET R : IsFiniteSet(Q) /\ Cardinality(Q) \in Nat /\ (Cardinality(Q) = 0 <=> Q = {})
  BY FS_Subset, FS_CardinalityType, FS_EmptySet
<1>2. 0 \in T
  BY <1>1
<1>3. ASSUME NEW k \in T PROVE k + 1 \in T
  <2> SUFFICES ASSUME NEW Q \in SUBSET R, Q # {}, Cardinality(Q) <= k + 1 PROVE Has(Q)
    OBVIOUS
  <2>1. PICK e \in Q : TRUE
    OBVIOUS
  <2> DEFINE P == Q \ {e}
  <2>2. P \in SUBSET R /\ Cardinality(P) = Cardinality(Q) - 1
    BY <1>1, <2>1, FS_RemoveElement
  <2>3. CASE P = {}
    <3>1. \A x \in Q : x = e
      BY <2>3
    <3>2. f[e] \in Int
      BY <2>1
    <3> QED
      BY <2>1, <3>1, <3>2
  <2>4. CASE P # {}
    <3>1. Cardinality(P) <= k
      BY <1>1, <2>2
    <3>2. Has(P)
      <4> HIDE DEF Has, P
      <4> QED
        BY <1>3, <2>2, <2>4, <3>1
    <3>3. PICK m \in P : \A x \in P : f[x] <= f[m]
      BY <3>2
    <3>4. f[m] \in Int /\ f[e] \in Int /\ \A x \in P : f[x] \in Int
      BY <2>1, <2>2, <3>3
    <3>5. CASE f[e] <= f[m]
      BY <3>3, <3>5
    <3>6. CASE ~(f[e] <= f[m])
      <4>1. \A x \in P : f[x] <= f[e]
        BY <3>3, <3>4, <3>6
      <4>2. \A x \in Q : f[x] <= f[e]
        BY <3>4, <4>1
      <4> QED
        BY <2>1, <4>2
    <3> QED
      BY <3>5, <3>6
  <2> QED
    BY <2>3, <2>4
<1>4. Cardinality(R) \in T
  <2> HIDE DEF T
  <2>1. Cardinality(R) \in Nat
    BY <1>1
  <2> QED
    BY <1>2, <1>3, <2>1, SetInduction
<1> QED
  BY <1>1, <1>4

(* The elements of readings, or of buckets, one by one and never back in time. *)
Sorted(seq) == \A i, j \in DOMAIN seq : i <= j => seq[i].time <= seq[j].time

LEMMA Sortable ==
  ASSUME NEW R, IsFiniteSet(R), \A r \in R : r.time \in Int
  PROVE  \E seq \in SetToSeqs(R) : Sorted(seq)
<1> DEFINE Has(Q) == \E seq \in SetToSeqs(Q) : Sorted(seq)
           T == {k \in Nat : \A Q \in SUBSET R : Cardinality(Q) = k => Has(Q)}
<1>1. \A Q \in SUBSET R : IsFiniteSet(Q) /\ Cardinality(Q) \in Nat /\ (Cardinality(Q) = 0 <=> Q = {})
  BY FS_Subset, FS_CardinalityType, FS_EmptySet
<1>2. 0 \in T
  <2> SUFFICES ASSUME NEW Q \in SUBSET R, Cardinality(Q) = 0 PROVE Has(Q)
    OBVIOUS
  <2>1. Q = {}
    BY <1>1
  <2>2. <<>> \in SetToSeqs(Q)
    BY <2>1 DEF SetToSeqs
  <2>3. Sorted(<<>>)
    BY DEF Sorted
  <2> QED
    BY <2>2, <2>3
<1>3. ASSUME NEW k \in T PROVE k + 1 \in T
  <2> SUFFICES ASSUME NEW Q \in SUBSET R, Cardinality(Q) = k + 1 PROVE Has(Q)
    OBVIOUS
  <2>1. Q # {} /\ IsFiniteSet(Q)
    BY <1>1
  <2>2. PICK m \in Q : \A x \in Q : x.time <= m.time
    <3> DEFINE f == [r \in Q |-> r.time]
    <3>1. f \in [Q -> Int]
      OBVIOUS
    <3>2. \E e \in Q : \A x \in Q : f[x] <= f[e]
      <4> HIDE DEF f
      <4> QED
        BY <2>1, <3>1, Greatest
    <3> QED
      BY <3>2
  <2> DEFINE P == Q \ {m}
  <2>3. P \in SUBSET R /\ Cardinality(P) = k
    <3>1. Cardinality(P) = Cardinality(Q) - 1
      BY <2>1, <2>2, FS_RemoveElement
    <3>2. k \in Nat
      BY <1>3
    <3> QED
      BY <3>1, <3>2
  <2>4. PICK seq \in SetToSeqs(P) : Sorted(seq)
    <3> HIDE DEF P
    <3> QED
      BY <2>3
  <2> DEFINE new == [i \in 1..(k + 1) |-> IF i = k + 1 THEN m ELSE seq[i]]
  <2>5. seq \in [1..k -> P] /\ \A i, j \in 1..k : i # j => seq[i] # seq[j]
    <3> HIDE DEF P
    <3> QED
      BY <2>3, <2>4 DEF SetToSeqs
  <2>6. new \in [1..(k + 1) -> Q]
    BY <2>2, <2>5
  <2>7. \A i, j \in 1..(k + 1) : i # j => new[i] # new[j]
    BY <2>2, <2>5
  <2>8. new \in SetToSeqs(Q)
    <3> HIDE DEF new
    <3> QED
      BY <2>6, <2>7 DEF SetToSeqs
  <2>9. Sorted(new)
    <3> SUFFICES ASSUME NEW i \in 1..(k + 1), NEW j \in 1..(k + 1), i <= j
                 PROVE  new[i].time <= new[j].time
      BY DEF Sorted
    <3>1. CASE j = k + 1
      <4>1. new[j] = m /\ new[i] \in Q
        BY <2>6, <3>1
      <4> QED
        BY <2>2, <4>1
    <3>2. CASE j # k + 1
      <4>1. i \in 1..k /\ j \in 1..k
        BY <3>2
      <4>2. new[i] = seq[i] /\ new[j] = seq[j] /\ i \in DOMAIN seq /\ j \in DOMAIN seq
        BY <2>5, <3>2, <4>1
      <4>3. seq[i].time <= seq[j].time
        BY <2>4, <4>2 DEF Sorted
      <4> QED
        BY <4>2, <4>3
    <3> QED
      BY <3>1, <3>2
  <2> QED
    BY <2>8, <2>9
<1>4. Cardinality(R) \in T
  <2> HIDE DEF T
  <2>1. Cardinality(R) \in Nat
    BY <1>1
  <2> QED
    BY <1>2, <1>3, <2>1, SetInduction
<1> QED
  BY <1>4

(* What is kept of a response: all of it, or the first of it in time. *)
Kept(response, limit) == Range(Limited(InTimeOrder(response), limit))

LEMMA InOrder ==
  ASSUME NEW R, IsFiniteSet(R), \A r \in R : r.time \in Int
  PROVE  /\ InTimeOrder(R) \in Seq(R) /\ Len(InTimeOrder(R)) = Cardinality(R)
         /\ Range(InTimeOrder(R)) = R /\ Sorted(InTimeOrder(R))
<1> DEFINE seq == InTimeOrder(R)
           n == Cardinality(R)
<1>1. seq \in SetToSeqs(R) /\ Sorted(seq)
  <2>1. \E q \in SetToSeqs(R) : \A i, j \in DOMAIN q : i <= j => q[i].time <= q[j].time
    BY Sortable DEF Sorted
  <2> QED
    BY <2>1 DEF InTimeOrder, Sorted
<1>2. n \in Nat
  BY FS_CardinalityType
<1>3. seq \in [1..n -> R] /\ \A i, j \in 1..n : i # j => seq[i] # seq[j]
  BY <1>1 DEF SetToSeqs
<1>4. seq \in Seq(R) /\ Len(seq) = n
  <2> HIDE DEF seq, n
  <2> QED
    BY <1>2, <1>3
<1>5. Range(seq) = R
  <2> HIDE DEF seq
  <2>1. seq \in Injection(1..n, R)
    BY <1>3 DEF Injection, IsInjective
  <2>2. IsFiniteSet(1..n) /\ Cardinality(1..n) = n
    BY <1>2, FS_Interval
  <2>3. seq \in Surjection(1..n, R)
    BY <2>1, <2>2, FS_Injection
  <2> QED
    BY <2>3 DEF Surjection, Range
<1> QED
  BY <1>1, <1>4, <1>5

LEMMA KeptFirst ==
  ASSUME NEW R, IsFiniteSet(R), \A r \in R : r.time \in Int, NEW limit \in Int
  PROVE  /\ Kept(R, limit) \subseteq R
         /\ limit <= 0 => Kept(R, limit) = R
         /\ R # {} => Kept(R, limit) # {}
         /\ \A x \in Kept(R, limit), y \in R \ Kept(R, limit) : x.time <= y.time
<1> DEFINE seq == InTimeOrder(R)
           n == Cardinality(R)
<1>1. seq \in Seq(R) /\ Len(seq) = n /\ Range(seq) = R /\ Sorted(seq)
  BY InOrder
<1>2. n \in Nat /\ (n = 0 <=> R = {})
  BY FS_CardinalityType, FS_EmptySet
<1>3. Kept(R, limit) = Range(Limited(seq, limit))
  BY DEF Kept
<1> HIDE DEF seq, n
<1>4. DOMAIN seq = 1..n
  BY <1>1, <1>2
<1>5. CASE ~(limit > 0 /\ n > limit)
  BY <1>1, <1>3, <1>5 DEF Limited
<1>6. CASE limit > 0 /\ n > limit
  <2> DEFINE first == SubSeq(seq, 1, limit)
  <2>1. Kept(R, limit) = Range(first)
    BY <1>1, <1>3, <1>6 DEF Limited
  <2>2. DOMAIN first = 1..limit /\ \A i \in 1..limit : first[i] = seq[i]
    BY <1>1, <1>2, <1>4, <1>6
  <2> HIDE DEF first
  <2>3. Kept(R, limit) = {seq[i] : i \in 1..limit}
    BY <2>1, <2>2 DEF Range
  <2>4. 1..limit \subseteq 1..n /\ 1 \in 1..limit
    BY <1>2, <1>6
  <2>5. R = {seq[i] : i \in 1..n}
    BY <1>1, <1>4 DEF Range
  <2>6. ASSUME NEW x \in Kept(R, limit), NEW y \in R \ Kept(R, limit) PROVE x.time <= y.time
    <3>1. PICK i \in 1..limit : x = seq[i]
      BY <2>3
    <3>2. PICK j \in 1..n : y = seq[j]
      BY <2>5
    <3>3. j \notin 1..limit
      BY <2>3, <3>2
    <3>4. i <= j /\ i \in 1..n
      BY <1>2, <1>6, <3>3
    <3>5. seq[i].time <= seq[j].time
      BY <1>1, <1>4, <3>4 DEF Sorted
    <3> QED
      BY <3>1, <3>2, <3>5
  <2> QED
    BY <1>6, <2>3, <2>4, <2>5, <2>6
<1> QED
  BY <1>5, <1>6

-----------------------------------------------------------------------------
(* Buckets.                                                                *)

(* The start of the span of n instants, from first on, that t is in. *)
StartOf(t, n, first) == t - ((t - first) % n)

(* t is a number of spans of n after first, or before. *)
Aligned(t, n, first) == \E k \in Int : t = first + n * k

LEMMA StartIsBelow ==
  ASSUME NEW n \in Nat, n > 0, NEW first \in Int, NEW t \in Int
  PROVE  /\ StartOf(t, n, first) \in Int /\ Aligned(StartOf(t, n, first), n, first)
         /\ StartOf(t, n, first) <= t /\ t < StartOf(t, n, first) + n
         /\ first <= t => first <= StartOf(t, n, first)
<1> DEFINE a == t - first
           b == StartOf(t, n, first)
<1>1. a \in Int /\ t = first + a /\ b = t - (a % n)
  BY DEF StartOf
<1> HIDE DEF a, b
<1>2. a \div n \in Int /\ a % n \in 0..(n - 1) /\ a = n * (a \div n) + (a % n)
  BY <1>1, Quotients
<1> DEFINE k == a \div n
           m == n * k
<1>3. k \in Int /\ m \in Int /\ a = m + (a % n)
  BY <1>2
<1>4. a >= 0 => m >= 0
  <2> SUFFICES ASSUME a >= 0 PROVE m >= 0
    OBVIOUS
  <2>1. k \in Nat
    BY <1>1
  <2> HIDE DEF k
  <2> QED
    BY <2>1
<1> HIDE DEF m
<1>5. b = first + m /\ b \in Int /\ b <= t /\ t < b + n /\ (first <= t => first <= b)
  BY <1>1, <1>2, <1>3, <1>4
<1> HIDE DEF k
<1>6. Aligned(b, n, first)
  BY <1>3, <1>5 DEF Aligned, m
<1> QED
  BY <1>5, <1>6 DEF b

(* What is aligned differs by a span at least. *)
LEMMA AlignedApart ==
  ASSUME NEW n \in Nat, n > 0, NEW first \in Int, NEW a \in Int, NEW b \in Int,
         Aligned(a, n, first), Aligned(b, n, first), a < b
  PROVE  a + n <= b
<1>1. PICK i \in Int : a = first + n * i
  BY DEF Aligned
<1>2. PICK j \in Int : b = first + n * j
  BY DEF Aligned
<1>3. n * i < n * j
  BY <1>1, <1>2
<1>4. i < j
  BY <1>3
<1>5. n * i + n <= n * j
  BY <1>4
<1> QED
  BY <1>1, <1>2, <1>5

LEMMA StartIsUnique ==
  ASSUME NEW n \in Nat, n > 0, NEW first \in Int, NEW t \in Int, NEW b \in Int,
         Aligned(b, n, first), b <= t, t < b + n
  PROVE  StartOf(t, n, first) = b
<1> DEFINE c == StartOf(t, n, first)
<1>1. c \in Int /\ Aligned(c, n, first) /\ c <= t /\ t < c + n
  BY StartIsBelow
<1> HIDE DEF c
<1>2. c < b => c + n <= b
  BY <1>1, AlignedApart
<1>3. b < c => b + n <= c
  BY <1>1, AlignedApart
<1> QED
  BY <1>1, <1>2, <1>3 DEF c

(* The readings of the n instants from b on. *)
InSpan(R, b, n) == {r \in R : b <= r.time /\ r.time < b + n}

LEMMA BucketsOf ==
  ASSUME NEW R, IsFiniteSet(R), \A r \in R : r.time \in Int,
         NEW n \in Nat, n > 0, NEW first \in Int, NEW last \in Int, Aligned(last, n, first)
  PROVE  /\ IsFiniteSet(Buckets(R, n, first, last))
         /\ \A x \in Buckets(R, n, first, last) :
              /\ x.from \in Int /\ x = [from |-> x.from, time |-> x.from, ats |-> {r.at : r \in InSpan(R, x.from, n)}]
              /\ Aligned(x.from, n, first) /\ first <= x.from /\ x.from + n <= last
              /\ \E r \in R : x.from <= r.time /\ r.time < x.from + n
         /\ \A r \in R : first <= r.time /\ r.time < last =>
              \E x \in Buckets(R, n, first, last) : x.from <= r.time /\ r.time < x.from + n
<1> DEFINE inside == {r \in R : first <= r.time /\ r.time < last}
           bucket(b) == [from |-> b, time |-> b,
                         ats |-> {r.at : r \in {x \in inside : StartOf(x.time, n, first) = b}}]
           B == {bucket(b) : b \in {StartOf(r.time, n, first) : r \in inside}}
<1>1. Buckets(R, n, first, last) = B
  BY DEF Buckets, StartOf
<1>2. IsFiniteSet(B)
  <2> DEFINE f == [r \in inside |-> bucket(StartOf(r.time, n, first))]
  <2>1. f \in Surjection(inside, B)
    BY DEF Surjection
  <2>2. IsFiniteSet(inside)
    BY FS_Subset
  <2> HIDE DEF f, inside, B
  <2> QED
    BY <2>1, <2>2, FS_Surjection
<1>3. ASSUME NEW r \in inside
      PROVE  LET b == StartOf(r.time, n, first) IN
             /\ b \in Int /\ Aligned(b, n, first) /\ first <= b /\ b + n <= last
             /\ b <= r.time /\ r.time < b + n
             /\ \A y \in R : y \in inside /\ StartOf(y.time, n, first) = b <=> y \in InSpan(R, b, n)
  <2> DEFINE b == StartOf(r.time, n, first)
  <2>1. r.time \in Int /\ first <= r.time /\ r.time < last
    OBVIOUS
  <2>2. b \in Int /\ Aligned(b, n, first) /\ first <= b /\ b <= r.time /\ r.time < b + n
    BY <2>1, StartIsBelow
  <2> HIDE DEF b
  <2>3. b + n <= last
    BY <2>1, <2>2, AlignedApart
  <2>4. ASSUME NEW y \in R, y \in inside, StartOf(y.time, n, first) = b PROVE y \in InSpan(R, b, n)
    BY <2>4, StartIsBelow DEF InSpan
  <2>5. ASSUME NEW y \in R, y \in InSpan(R, b, n) PROVE y \in inside /\ StartOf(y.time, n, first) = b
    <3>1. y.time \in Int /\ b <= y.time /\ y.time < b + n
      BY <2>5 DEF InSpan
    <3>2. StartOf(y.time, n, first) = b
      BY <2>2, <3>1, StartIsUnique
    <3>3. first <= y.time /\ y.time < last
      BY <2>2, <2>3, <3>1
    <3> QED
      BY <3>2, <3>3
  <2> QED
    BY <2>2, <2>3, <2>4, <2>5 DEF b
<1>4. ASSUME NEW x \in B
      PROVE  /\ x.from \in Int /\ x = [from |-> x.from, time |-> x.from, ats |-> {r.at : r \in InSpan(R, x.from, n)}]
             /\ Aligned(x.from, n, first) /\ first <= x.from /\ x.from + n <= last
             /\ \E r \in R : x.from <= r.time /\ r.time < x.from + n
  <2>1. PICK r \in inside : x = bucket(StartOf(r.time, n, first))
    OBVIOUS
  <2> DEFINE b == StartOf(r.time, n, first)
  <2>2. /\ b \in Int /\ Aligned(b, n, first) /\ first <= b /\ b + n <= last
        /\ b <= r.time /\ r.time < b + n /\ r \in R
        /\ \A y \in R : y \in inside /\ StartOf(y.time, n, first) = b <=> y \in InSpan(R, b, n)
    BY <1>3
  <2>3. x = bucket(b)
    BY <2>1
  <2> HIDE DEF b
  <2>4. {y \in inside : StartOf(y.time, n, first) = b} = InSpan(R, b, n)
    BY <2>2 DEF InSpan
  <2> HIDE DEF inside
  <2>5. x = [from |-> b, time |-> b, ats |-> {y.at : y \in InSpan(R, b, n)}]
    BY <2>3, <2>4
  <2>6. x.from = b
    BY <2>5
  <2> QED
    BY <2>2, <2>5, <2>6
<1>5. ASSUME NEW r \in R, first <= r.time, r.time < last
      PROVE  \E x \in B : x.from <= r.time /\ r.time < x.from + n
  <2> DEFINE b == StartOf(r.time, n, first)
  <2>1. r \in inside
    BY <1>5
  <2>2. b <= r.time /\ r.time < b + n
    BY <1>3, <2>1
  <2>3. bucket(b) \in B /\ bucket(b).from = b
    BY <2>1
  <2> QED
    BY <2>2, <2>3
<1> HIDE DEF B
<1> QED
  BY <1>1, <1>2, <1>4, <1>5

-----------------------------------------------------------------------------
(* The invariant.                                                          *)

(* R are readings of s, each under the time that was written for it. *)
Held(s, R) == \A r \in R : \E i \in Expressible(s) : r = [at |-> i, time |-> Written(Reported(s, i))]

PackedMessages == {[uuid |-> uuids[i], readings |-> Packed(ret[i])] : i \in {j \in DOMAIN ret : ret[j] # {}}}

(* The database has what was written to it, and what it had at the start.  *)
InDatabase ==
  /\ backend \in Backends /\ unitOf \in [Streams -> StreamUnits]
  /\ db = [s \in Streams |-> db[s]]
  /\ \A s \in Streams : IsFiniteSet(db[s]) /\ Held(s, db[s]) /\ earlier[s] \subseteq db[s]

(* The times of the query were prepared, and nothing else of it changed. *)
Asked ==
  /\ stage \in {"idle", "fetch", "answered", "failed"}
  /\ asked \in Queries
  /\ query \in QueryType /\ query.start < Word /\ query.end < Word
  /\ query.op = asked.op /\ query.width = asked.width
  /\ query.limit = asked.limit /\ query.timeconv = asked.timeconv
  /\ stage \in {"fetch", "answered"} => query = Prepared(asked).query

(* Q is what the database answered of s when it held R, at some moment     *)
(* since the query began, or for a stream cut short a part of that. *)
Part(s, R, Q) ==
  /\ s \in Streams /\ R \in SUBSET db[s] /\ earlier[s] \subseteq R
  /\ Q \subseteq Response(R) /\ (s \notin cut => Q = Response(R))

(* Every response is such a one. *)
Responded ==
  /\ uuids \in Seq(Streams) /\ IsInjective(uuids) /\ cut \subseteq Range(uuids)
  /\ \E T : ret \in Seq(T)
  /\ Len(ret) <= Len(uuids)
  /\ stage = "idle" => ret = <<>>
  /\ stage = "answered" => Len(ret) = Len(uuids)
  /\ stage = "idle" => cut = {}
  /\ \A k \in 1..Len(ret) : Readable /\ \E R : Part(uuids[k], R, ret[k])

Answering == result = IF stage = "answered" THEN PackedMessages ELSE {}

DataInv == InDatabase /\ Asked /\ Responded /\ Answering

LEMMA PreparedType ==
  ASSUME DataAssumption, NEW q \in Queries
  PROVE  /\ Prepared(q).query \in QueryType
         /\ Prepared(q).query.start < Word /\ Prepared(q).query.end < Word
         /\ Prepared(q).query.op = q.op /\ Prepared(q).query.width = q.width
         /\ Prepared(q).query.limit = q.limit /\ Prepared(q).query.timeconv = q.timeconv
<1>1. q \in QueryType /\ q.start \in 0..(Word - 1) /\ q.end \in 0..(Word - 1)
  <2>1. q \in QueryType /\ q.start < Word /\ q.end < Word
    BY DEF DataAssumption
  <2>2. q.start \in Nat /\ q.end \in Nat /\ Word \in Nat
    BY <2>1 DEF QueryType, DataAssumption
  <2> QED
    BY <2>1, <2>2
<1> DEFINE a == Guessed(q.start, NS).time
           b == Guessed(q.end, NS).time
           swap == q.op \in {"in"} \cup Aggregates /\ b < a
           x == IF swap THEN b ELSE a
           y == IF swap THEN a ELSE b
<1>2. a \in 0..(Word - 1) /\ b \in 0..(Word - 1)
  BY <1>1, GuessedType DEF NS
<1>3. Prepared(q).query = [q EXCEPT !.start = x, !.end = y]
  BY DEF Prepared
<1> HIDE DEF a, b
<1>4. x \in Nat /\ y \in Nat /\ x < Word /\ y < Word
  BY <1>2 DEF DataAssumption
<1> HIDE DEF x, y
<1> QED
  BY <1>1, <1>3, <1>4 DEF QueryType

LEMMA DataInitial == ASSUME DataAssumption, DataInit PROVE DataInv
<1>1. InDatabase
  <2>1. \A s \in Streams : db[s] = {} /\ earlier[s] = {}
    BY DEF DataInit
  <2>2. IsFiniteSet({})
    BY FS_EmptySet
  <2> QED
    BY <2>1, <2>2 DEF DataInit, InDatabase, Held
<1>2. Asked
  BY DEF DataInit, Asked, DataAssumption
<1>3. Responded
  <2>1. /\ uuids = <<>> /\ ret = <<>> /\ uuids \in Seq(Streams) /\ ret \in Seq({})
        /\ Len(ret) = 0 /\ Len(uuids) = 0 /\ cut = {}
    BY DEF DataInit
  <2> QED
    BY <2>1 DEF Responded, IsInjective
<1>4. Answering
  BY DEF DataInit, Answering
<1> QED
  BY <1>1, <1>2, <1>3, <1>4 DEF DataInv

(* What depends on variables that a step leaves alone. *)
LEMMA SameReadings ==
  ASSUME UNCHANGED <<backend, unitOf>>
  PROVE  /\ \A s : Expressible(s)' = Expressible(s)
         /\ \A s, i : Written(Reported(s, i))' = Written(Reported(s, i))
         /\ \A s, R : Held(s, R)' <=> Held(s, R)
<1>1. \A s : Expressible(s)' = Expressible(s)
  BY DEF Expressible
<1>2. \A s, i : Written(Reported(s, i))' = Written(Reported(s, i))
  BY DEF Written, Reported
<1>3. \A s, R : Held(s, R)' <=> Held(s, R)
  BY <1>1, <1>2 DEF Held
<1> QED
  BY <1>1, <1>2, <1>3

LEMMA SameResponses ==
  ASSUME UNCHANGED <<backend, query>>
  PROVE  /\ \A R : Response(R)' = Response(R)
         /\ \A R : Packed(R)' = Packed(R)
         /\ Readable' <=> Readable
<1>1. \A R : Response(R)' = Response(R)
  BY DEF Response
<1>2. \A R : Packed(R)' = Packed(R)
  BY DEF Packed
<1>3. Readable' <=> Readable
  BY DEF Readable
<1> QED
  BY <1>1, <1>2, <1>3

(* An order of a finite set of streams, or its beginning. *)
LEMMA StreamsOrdered ==
  ASSUME DataAssumption, NEW order \in SetToSeqs(Streams), NEW limit \in Int
  PROVE  Limited(order, limit) \in Seq(Streams) /\ IsInjective(Limited(order, limit))
<1> DEFINE n == Cardinality(Streams)
<1>1. n \in Nat
  BY FS_CardinalityType DEF DataAssumption
<1>2. order \in [1..n -> Streams] /\ \A i, j \in 1..n : i # j => order[i] # order[j]
  BY DEF SetToSeqs
<1> HIDE DEF n
<1>3. order \in Seq(Streams) /\ Len(order) = n
  BY <1>1, <1>2
<1>4. CASE ~(limit > 0 /\ Len(order) > limit)
  BY <1>2, <1>3, <1>4 DEF Limited, IsInjective
<1>5. CASE limit > 0 /\ Len(order) > limit
  <2> DEFINE first == SubSeq(order, 1, limit)
  <2>1. Limited(order, limit) = first
    BY <1>5 DEF Limited
  <2>2. first \in Seq(Streams) /\ DOMAIN first = 1..limit /\ \A i \in 1..limit : first[i] = order[i]
    BY <1>1, <1>3, <1>5
  <2> HIDE DEF first
  <2>3. 1..limit \subseteq 1..n
    BY <1>1, <1>3, <1>5
  <2>4. IsInjective(first)
    BY <1>2, <2>2, <2>3 DEF IsInjective
  <2> QED
    BY <2>1, <2>2, <2>4
<1> QED
  BY <1>4, <1>5

LEMMA AddMessageKeeps ==
  ASSUME DataAssumption, DataInv, AddMessage
  PROVE  DataInv'
<1>1. UNCHANGED <<backend, unitOf, stage, asked, query, uuids, ret, result, earlier, cut>>
  BY DEF AddMessage
<1>2. PICK s \in Streams, i \in Instants, j \in Instants :
        /\ i \in Expressible(s) /\ j \in Expressible(s)
        /\ db' = [db EXCEPT ![s] = @ \cup
                    {[at |-> r.at, time |-> Written(r)] : r \in {Reported(s, i), Reported(s, j)}}]
  BY DEF AddMessage, Expressible
<1> DEFINE a == [at |-> i, time |-> Written(Reported(s, i))]
           b == [at |-> j, time |-> Written(Reported(s, j))]
<1>3. {[at |-> r.at, time |-> Written(r)] : r \in {Reported(s, i), Reported(s, j)}} = {a, b}
  <2>1. Reported(s, i).at = i /\ Reported(s, j).at = j
    BY DEF Reported
  <2> QED
    BY <2>1
<1>4. db' = [db EXCEPT ![s] = db[s] \cup {a, b}]
  BY <1>2, <1>3
<1>5. \A z \in Streams : db'[z] = IF z = s THEN db[s] \cup {a, b} ELSE db[z]
  <2>1. db = [z \in Streams |-> db[z]]
    BY DEF DataInv, InDatabase
  <2> HIDE DEF a, b
  <2> QED
    BY <1>4, <2>1
<1>6. db' = [z \in Streams |-> db'[z]]
  <2>1. db = [z \in Streams |-> db[z]]
    BY DEF DataInv, InDatabase
  <2> HIDE DEF a, b
  <2> QED
    BY <1>4, <2>1
<1>7. Held(s, {a, b})
  BY <1>2 DEF Held
<1> HIDE DEF a, b
<1>8. IsFiniteSet({a, b}) /\ IsFiniteSet(db[s] \cup {a, b})
  <2>1. IsFiniteSet({a} \cup {b}) /\ {a} \cup {b} = {a, b}
    BY FS_Singleton, FS_Union
  <2>2. IsFiniteSet(db[s])
    BY DEF DataInv, InDatabase
  <2> QED
    BY <2>1, <2>2, FS_Union
<1>9. InDatabase'
  <2>1. \A z \in Streams : IsFiniteSet(db[z]) /\ Held(z, db[z]) /\ earlier[z] \subseteq db[z]
    BY DEF DataInv, InDatabase
  <2>2. Held(s, db[s] \cup {a, b})
    BY <1>7, <2>1 DEF Held
  <2>3. \A z \in Streams : IsFiniteSet(db'[z]) /\ Held(z, db'[z]) /\ earlier[z] \subseteq db'[z]
    BY <1>5, <1>8, <2>1, <2>2
  <2>4. \A z \in Streams : Held(z, db[z])' <=> Held(z, db'[z])
    BY <1>1, SameReadings DEF Held
  <2>5. backend' \in Backends /\ unitOf' \in [Streams -> StreamUnits] /\ earlier' = earlier
    BY <1>1 DEF DataInv, InDatabase
  <2> QED
    BY <1>6, <2>3, <2>4, <2>5 DEF InDatabase
<1>10. Asked'
  BY <1>1 DEF DataInv, Asked, Prepared
<1>11. Responded'
  <2>1. Responded
    BY DEF DataInv
  <2>2. (\A R : Response(R)' = Response(R)) /\ (Readable' <=> Readable)
    BY <1>1, SameResponses
  <2>3. \A z, R, Q : Part(z, R, Q) => Part(z, R, Q)'
    <3> SUFFICES ASSUME NEW z, NEW R, NEW Q, Part(z, R, Q) PROVE Part(z, R, Q)'
      OBVIOUS
    <3>1. z \in Streams /\ db[z] \subseteq db'[z]
      BY <1>5 DEF Part
    <3> QED
      BY <1>1, <2>2, <3>1 DEF Part
  <2>4. \A k \in 1..Len(ret') : Readable' /\ \E R : Part(uuids[k], R, ret[k])'
    BY <1>1, <2>1, <2>2, <2>3 DEF Responded
  <2> QED
    BY <1>1, <2>1, <2>4 DEF Responded
<1>12. Answering'
  <2>1. PackedMessages' = PackedMessages
    BY <1>1, SameResponses DEF PackedMessages
  <2> QED
    BY <1>1, <2>1 DEF DataInv, Answering
<1> QED
  BY <1>9, <1>10, <1>11, <1>12 DEF DataInv

LEMMA StoredKept ==
  ASSUME DataInv, UNCHANGED <<backend, unitOf, db, earlier>>
  PROVE  InDatabase'
<1>1. \A z \in Streams : Held(z, db[z])' <=> Held(z, db[z])
  BY SameReadings DEF Held
<1> QED
  BY <1>1 DEF DataInv, InDatabase

LEMMA BeginKeeps ==
  ASSUME DataAssumption, DataInv, Begin
  PROVE  DataInv'
<1>1. /\ stage = "idle" /\ earlier' = db
      /\ UNCHANGED <<backend, unitOf, db, asked, ret, result, cut>>
  BY DEF Begin
<1>2. ret = <<>> /\ result = {} /\ Len(ret) = 0 /\ cut = {}
  BY <1>1 DEF DataInv, Responded, Answering
<1>3. InDatabase'
  <2>1. \A z \in Streams : Held(z, db[z])' <=> Held(z, db[z])
    BY <1>1, SameReadings DEF Held
  <2> QED
    BY <1>1, <2>1 DEF DataInv, InDatabase
<1>4. stage' \in {"fetch", "failed"}
  BY DEF Begin
<1>5. Answering'
  BY <1>1, <1>2, <1>4 DEF Answering
<1>6. asked \in Queries /\ asked.streamlimit \in Int
  BY DEF DataInv, Asked, DataAssumption, QueryType
<1>7. CASE stage' = "failed" /\ UNCHANGED <<query, uuids>>
  <2>1. Asked'
    BY <1>1, <1>7 DEF DataInv, Asked
  <2>2. Responded'
    BY <1>1, <1>2, <1>7 DEF DataInv, Responded
  <2> QED
    BY <1>3, <1>5, <2>1, <2>2 DEF DataInv
<1>8. CASE /\ \E order \in SetToSeqs(Streams) : uuids' = Limited(order, asked.streamlimit)
           /\ query' = Prepared(asked).query
           /\ stage' = "fetch"
  <2>1. Asked'
    <3>1. Prepared(asked)' = Prepared(asked)
      BY <1>1 DEF Prepared
    <3> QED
      BY <1>1, <1>6, <1>8, <3>1, PreparedType DEF Asked
  <2>2. uuids' \in Seq(Streams) /\ IsInjective(uuids')
    BY <1>6, <1>8, StreamsOrdered
  <2>3. ret' = <<>> /\ Len(ret') = 0 /\ ret' \in Seq({}) /\ Len(uuids') \in Nat /\ cut' = {}
    BY <1>1, <1>2, <2>2
  <2>4. Responded'
    BY <1>4, <2>2, <2>3 DEF Responded
  <2> QED
    BY <1>3, <1>5, <2>1, <2>4 DEF DataInv
<1> QED
  BY <1>7, <1>8, Zenon DEF Begin

LEMMA FetchKeeps ==
  ASSUME DataAssumption, DataInv, Fetch
  PROVE  DataInv'
<1>1. /\ stage = "fetch" /\ Len(ret) < Len(uuids)
      /\ UNCHANGED <<backend, unitOf, db, asked, query, uuids, result, earlier>>
  BY DEF Fetch
<1>2. InDatabase'
  BY <1>1, StoredKept
<1>3. stage' \in {"fetch", "failed"}
  BY <1>1 DEF Fetch
<1>4. Asked'
  <2>1. Prepared(asked)' = Prepared(asked)
    BY <1>1 DEF Prepared
  <2> QED
    BY <1>1, <1>3, <2>1 DEF DataInv, Asked
<1>5. Answering'
  BY <1>1, <1>3 DEF DataInv, Answering
<1>6. (\A R : Response(R)' = Response(R)) /\ (Readable' <=> Readable)
  BY <1>1, SameResponses
<1>7. Responded
  BY DEF DataInv
<1>8. CASE stage' = "failed" /\ UNCHANGED <<ret, cut>>
  <2>1. \A s, R, Q : Part(s, R, Q)' <=> Part(s, R, Q)
    BY <1>1, <1>6, <1>8 DEF Part
  <2>2. Responded'
    BY <1>1, <1>6, <1>7, <1>8, <2>1 DEF Responded
  <2> QED
    BY <1>2, <1>4, <1>5, <2>2 DEF DataInv
<1>9. ASSUME NEW new, Readable, stage' = stage, new \in Received(Response(db[uuids[Len(ret) + 1]])),
             ret' = Append(ret, new),
             cut' = IF new = Response(db[uuids[Len(ret) + 1]]) THEN cut ELSE cut \cup {uuids[Len(ret) + 1]}
      PROVE  DataInv'
  <2> DEFINE n == Len(ret) + 1
  <2>1. PICK T : ret \in Seq(T)
    BY <1>7 DEF Responded
  <2>2. ret \in Seq(T \cup {new}) /\ Len(ret) \in Nat
    BY <2>1
  <2>3. /\ ret' = Append(ret, new) /\ ret' \in Seq(T \cup {new}) /\ Len(ret') = n
        /\ ret'[n] = new /\ \A k \in 1..Len(ret) : ret'[k] = ret[k]
    BY <1>9, <2>2
  <2>4. uuids \in Seq(Streams) /\ n \in 1..Len(uuids) /\ uuids[n] \in Streams
    BY <1>1, <1>7, <2>2 DEF Responded
  <2>5. earlier[uuids[n]] \subseteq db[uuids[n]] /\ uuids[n] \in Range(uuids)
    BY <2>4 DEF DataInv, InDatabase, Range
  <2>6. new \subseteq Response(db[uuids[n]])
    BY <1>9 DEF Received
  <2>7. cut \subseteq cut' /\ cut' \subseteq cut \cup {uuids[n]}
    BY <1>9
  <2>8. \A k \in 1..Len(ret') : Readable' /\ \E R : Part(uuids[k], R, ret[k])'
    <3>1. \A s, R, Q : Part(s, R, Q) => Part(s, R, Q)'
      BY <1>1, <1>6, <2>7 DEF Part
    <3>2. \A z \in Streams : z = uuids[n] => \E R : Part(z, R, new)'
      <4> SUFFICES ASSUME NEW z \in Streams, z = uuids[n] PROVE \E R : Part(z, R, new)'
        OBVIOUS
      <4>1. PICK D : D = db[z]
        OBVIOUS
      <4>2. earlier[z] \subseteq D /\ new \subseteq Response(D)
        BY <2>5, <2>6, <4>1
      <4>3. z \notin cut' => new = Response(D)
        BY <1>9, <4>1
      <4>4. Part(z, D, new)'
        BY <1>1, <1>6, <4>1, <4>2, <4>3 DEF Part
      <4> QED
        BY <4>4
    <3>3. \A k \in 1..Len(ret) : \E R : Part(uuids[k], R, ret[k])
      BY <1>7 DEF Responded
    <3>4. \A k \in 1..n : \A z, Q : z = uuids[k] /\ Q = ret'[k] => \E R : Part(z, R, Q)'
      <4> SUFFICES ASSUME NEW k \in 1..n, NEW z, NEW Q, z = uuids[k], Q = ret'[k] PROVE \E R : Part(z, R, Q)'
        OBVIOUS
      <4>1. CASE k = n
        BY <2>3, <2>4, <3>2, <4>1
      <4>2. CASE k # n
        <5>1. k \in 1..Len(ret)
          BY <2>2, <4>2
        <5>2. PICK R : Part(z, R, Q)
          BY <2>3, <3>3, <5>1
        <5> QED
          BY <3>1, <5>2
      <4> QED
        BY <4>1, <4>2
    <3>5. \A k \in 1..n : \E R : Part(uuids[k], R, ret[k])'
      BY <1>1, <3>4
    <3> QED
      BY <1>6, <1>9, <2>3, <3>5
  <2>9. Len(ret') <= Len(uuids')
    BY <1>1, <2>3, <2>4
  <2>10. stage' = "fetch" /\ \E U : ret' \in Seq(U)
    BY <1>1, <1>9, <2>3
  <2>11. cut' \subseteq Range(uuids)
    BY <1>7, <2>5, <2>7 DEF Responded
  <2>12. Responded'
    BY <1>1, <1>7, <2>8, <2>9, <2>10, <2>11 DEF Responded, Range
  <2> QED
    BY <1>2, <1>4, <1>5, <2>12 DEF DataInv
<1> QED
  BY <1>8, <1>9, Zenon DEF Fetch

LEMMA PackKeeps ==
  ASSUME DataAssumption, DataInv, Pack
  PROVE  DataInv'
<1>1. /\ stage = "fetch" /\ stage' = "answered" /\ result' = PackedMessages /\ Len(ret) = Len(uuids)
      /\ UNCHANGED <<backend, unitOf, db, asked, query, uuids, ret, earlier, cut>>
  BY DEF Pack, PackedMessages
<1>2. InDatabase'
  BY <1>1, StoredKept
<1>3. Asked'
  <2>1. Prepared(asked)' = Prepared(asked)
    BY <1>1 DEF Prepared
  <2> QED
    BY <1>1, <2>1 DEF DataInv, Asked
<1>4. Responded'
  <2>1. \A s, R, Q : Part(s, R, Q)' <=> Part(s, R, Q)
    BY <1>1, SameResponses DEF Part
  <2> QED
    BY <1>1, <2>1, SameResponses DEF DataInv, Responded
<1>5. Answering'
  <2>1. PackedMessages' = PackedMessages
    BY <1>1, SameResponses DEF PackedMessages
  <2> QED
    BY <1>1, <2>1 DEF Answering
<1> QED
  BY <1>2, <1>3, <1>4, <1>5 DEF DataInv

LEMMA DataInvHolds == DataSpec => []DataInv
<1>1. DataInit => DataInv
  BY DataAssumption, DataInitial
<1>2. DataInv /\ [DataNext]_dataVars => DataInv'
  <2> SUFFICES ASSUME DataInv, [DataNext]_dataVars PROVE DataInv'
    OBVIOUS
  <2>1. CASE UNCHANGED dataVars
    <3>1. UNCHANGED <<backend, unitOf, db, stage, asked, query, uuids, ret, result, earlier, cut>>
      BY <2>1 DEF dataVars
    <3>2. InDatabase'
      BY <3>1, StoredKept
    <3>3. Prepared(asked)' = Prepared(asked)
      BY <3>1 DEF Prepared
    <3>4. Asked'
      BY <3>1, <3>3 DEF DataInv, Asked
    <3>5. Responded'
      <4>1. \A s, R, Q : Part(s, R, Q)' <=> Part(s, R, Q)
        BY <3>1, SameResponses DEF Part
      <4> QED
        BY <3>1, <4>1, SameResponses DEF DataInv, Responded
    <3>6. PackedMessages' = PackedMessages
      BY <3>1, SameResponses DEF PackedMessages
    <3>7. Answering'
      BY <3>1, <3>6 DEF DataInv, Answering
    <3> QED
      BY <3>2, <3>4, <3>5, <3>7 DEF DataInv
  <2> QED
    BY <2>1, DataAssumption, AddMessageKeeps, BeginKeeps, FetchKeeps, PackKeeps DEF DataNext
<1> QED
  BY <1>1, <1>2, PTL DEF DataSpec

-----------------------------------------------------------------------------
(* Responses and answers.                                                  *)

LEMMA WrittenType ==
  ASSUME DataAssumption, DataInv, NEW s \in Streams, NEW i \in Expressible(s)
  PROVE  Written(Reported(s, i)) \in (0 - Word \div 2)..(Word \div 2 - 1)
<1>1. unitOf[s] \in 1..4 /\ i \in 0..(Word - 1)
  BY DEF DataInv, InDatabase, DataAssumption, Expressible, NS, S
<1>2. Nanos(unitOf[s]) \in Nat /\ Nanos(unitOf[s]) > 0 /\ Word \in Nat
  BY <1>1, NanosType, Signed
<1> DEFINE n == Nanos(unitOf[s])
           t == i \div n
<1> HIDE DEF n
<1>3. t \in 0..(Word - 1)
  <2>1. t \in Nat /\ t <= i
    BY <1>1, <1>2, QuotientsOrder DEF n
  <2> QED
    BY <1>1, <1>2, <2>1
<1>4. Reported(s, i) = [at |-> i, time |-> t]
  BY DEF Reported, n
<1> HIDE DEF t
<1>5. ConvertReading([at |-> i, time |-> t], NS).time = Guessed(t, NS).time
  BY DEF ConvertReading
<1>6. Guessed(t, NS).time \in 0..(Word - 1)
  BY <1>3, GuessedType DEF NS
<1>7. Written(Reported(s, i)) = int64(IF backend = "btrdb" THEN Guessed(t, NS).time ELSE t)
  BY <1>4, <1>5 DEF Written
<1> QED
  BY <1>3, <1>6, <1>7, Signed

(* Whatever the database holds, or held, of a stream is a reading of it. *)
LEMMA HeldType ==
  ASSUME DataAssumption, DataInv, NEW s \in Streams, NEW R \in SUBSET db[s]
  PROVE  /\ IsFiniteSet(R) /\ Held(s, R)
         /\ \A r \in R : /\ r = [at |-> r.at, time |-> r.time] /\ r.at \in Instants
                         /\ r.time \in Int
                         /\ r.time \in (0 - Word \div 2)..(Word \div 2 - 1)
<1>1. IsFiniteSet(db[s]) /\ Held(s, db[s])
  BY DEF DataInv, InDatabase
<1>2. IsFiniteSet(R) /\ Held(s, R)
  BY <1>1, FS_Subset DEF Held
<1>3. ASSUME NEW r \in R
      PROVE  /\ r = [at |-> r.at, time |-> r.time] /\ r.at \in Instants
             /\ r.time \in Int
             /\ r.time \in (0 - Word \div 2)..(Word \div 2 - 1)
  <2>1. PICK i \in Expressible(s) : r = [at |-> i, time |-> Written(Reported(s, i))]
    BY <1>2 DEF Held
  <2>2. Written(Reported(s, i)) \in (0 - Word \div 2)..(Word \div 2 - 1) /\ i \in Instants
    BY WrittenType DEF Expressible
  <2> DEFINE t == Written(Reported(s, i))
  <2> HIDE DEF t
  <2>3. r = [at |-> i, time |-> t] /\ t \in (0 - Word \div 2)..(Word \div 2 - 1)
    BY <2>1, <2>2 DEF t
  <2>4. r.at = i /\ r.time = t
    BY <2>3
  <2>5. t \in Int
    BY <2>3
  <2> QED
    BY <2>2, <2>3, <2>4, <2>5
<1> QED
  BY <1>2, <1>3

(* The size of the buckets that the query asks for, and between which      *)
(* times.                                                                  *)
Width == IF query.op = "statistical" THEN 2^uint8(query.width) ELSE query.width
FirstOf == IF query.op = "statistical" THEN int64(query.start) - (int64(query.start) % Width)
           ELSE int64(query.start)
LastOf == IF query.op = "statistical" THEN int64(query.end) - (int64(query.end) % Width)
          ELSE int64(query.end) - ((int64(query.end) - int64(query.start)) % Width)

LEMMA Bounds ==
  ASSUME DataAssumption, DataInv
  PROVE  /\ query.start \in 0..(Word - 1) /\ query.end \in 0..(Word - 1)
         /\ int64(query.start) \in Int /\ int64(query.end) \in Int
         /\ query.timeconv \in 1..4 /\ query.limit \in Int /\ query.width \in Nat
<1>1. query \in QueryType /\ query.start < Word /\ query.end < Word
  BY DEF DataInv, Asked
<1>2. query.start \in 0..(Word - 1) /\ query.end \in 0..(Word - 1)
  BY <1>1, Signed DEF QueryType
<1>3. int64(query.start) \in Int /\ int64(query.end) \in Int
  BY <1>2, Signed
<1> QED
  BY <1>1, <1>2, <1>3 DEF QueryType, NS, S

LEMMA Spans ==
  ASSUME DataAssumption, DataInv, query.op \in Aggregates
  PROVE  /\ Width \in Nat /\ Width > 0 /\ FirstOf \in Int /\ LastOf \in Int
         /\ Aligned(LastOf, Width, FirstOf)
         /\ \A R : Response(R) = Buckets(R, Width, FirstOf, LastOf)
<1> DEFINE start == int64(query.start)
           end   == int64(query.end)
           n == Width
<1>1. start \in Int /\ end \in Int /\ query.width \in Nat
  BY Bounds
<1>2. n \in Nat /\ n > 0
  <2>1. CASE query.op = "statistical"
    <3>1. uint8(query.width) \in 0..(Byte - 1)
      BY <1>1 DEF uint8, DataAssumption
    <3>2. 2^uint8(query.width) \in Nat \ {0}
      BY <3>1 DEF DataAssumption
    <3> DEFINE p == 2^uint8(query.width)
    <3> HIDE DEF p
    <3>3. n = p /\ p \in Nat \ {0}
      BY <2>1, <3>2 DEF Width, p
    <3> QED
      BY <3>3
  <2>2. CASE query.op # "statistical"
    <3>1. asked \in Queries /\ asked.op = "window" /\ query.width = asked.width
      BY <2>2 DEF DataInv, Asked, Aggregates
    <3>2. query.width > 0
      BY <3>1 DEF DataAssumption
    <3> QED
      BY <1>1, <2>2, <3>2 DEF Width
  <2> QED
    BY <2>1, <2>2
<1> HIDE DEF start, end, n
<1>3. CASE query.op = "statistical"
  <2>1. FirstOf = start - (start % n) /\ LastOf = end - (end % n)
    BY <1>3 DEF FirstOf, LastOf, start, end, n
  <2>2. /\ start \div n \in Int /\ start % n \in 0..(n - 1) /\ start = n * (start \div n) + (start % n)
        /\ end \div n \in Int /\ end % n \in 0..(n - 1) /\ end = n * (end \div n) + (end % n)
    BY <1>1, <1>2, Quotients
  <2> DEFINE a == start \div n
             b == end \div n
  <2>3. a \in Int /\ b \in Int /\ FirstOf = n * a /\ LastOf = n * b
    <3> HIDE DEF a, b
    <3>1. /\ a \in Int /\ start % n \in 0..(n - 1) /\ start = n * a + (start % n)
          /\ b \in Int /\ end % n \in 0..(n - 1) /\ end = n * b + (end % n)
      BY <2>2 DEF a, b
    <3>2. n * a \in Int /\ n * b \in Int
      BY <1>2, <3>1
    <3> QED
      BY <2>1, <3>1, <3>2
  <2> HIDE DEF a, b
  <2>4. n * b = n * a + n * (b - a) /\ b - a \in Int /\ n * a \in Int /\ n * b \in Int
    BY <1>2, <2>3
  <2>5. Aligned(LastOf, n, FirstOf) /\ FirstOf \in Int /\ LastOf \in Int
    BY <2>3, <2>4 DEF Aligned
  <2>6. \A R : Response(R) = Buckets(R, n, FirstOf, LastOf)
    BY <1>3, <2>1 DEF Response, start, end, n, Width
  <2> QED
    BY <1>2, <2>5, <2>6 DEF n
<1>4. CASE query.op # "statistical"
  <2>1. FirstOf = start /\ LastOf = end - ((end - start) % n) /\ query.op = "window" /\ n = query.width
    BY <1>4 DEF FirstOf, LastOf, start, end, n, Aggregates, Width
  <2> DEFINE d == end - start
             a == d \div n
  <2>2. d \in Int /\ a \in Int /\ d % n \in 0..(n - 1) /\ d = n * a + (d % n)
    <3>1. d \in Int
      BY <1>1
    <3> HIDE DEF d
    <3> QED
      BY <1>2, <3>1, Quotients
  <2>3. end = start + d /\ LastOf = end - (d % n)
    BY <1>1, <2>1
  <2> HIDE DEF d, a
  <2>4. n * a \in Int /\ LastOf = start + n * a
    <3>1. n * a \in Int
      BY <1>2, <2>2
    <3> QED
      BY <1>1, <2>2, <2>3, <3>1
  <2>5. Aligned(LastOf, n, FirstOf) /\ FirstOf \in Int /\ LastOf \in Int
    BY <1>1, <2>1, <2>2, <2>4 DEF Aligned
  <2>6. \A R : Response(R) = Buckets(R, n, FirstOf, LastOf)
    BY <2>1 DEF Response, start, end
  <2> QED
    BY <1>2, <2>5, <2>6 DEF n
<1> QED
  BY <1>3, <1>4

(* Of a bucket, what the database says is of the readings in its span.     *)
Bucket(x, R) ==
  /\ x.from \in Int /\ x = [from |-> x.from, time |-> x.from, ats |-> {r.at : r \in InSpan(R, x.from, Width)}]
  /\ Aligned(x.from, Width, FirstOf) /\ FirstOf <= x.from /\ x.from + Width <= LastOf
  /\ \E r \in R : x.from <= r.time /\ r.time < x.from + Width

LEMMA ResponseType ==
  ASSUME DataAssumption, DataInv, NEW s \in Streams, NEW R \in SUBSET db[s]
  PROVE  /\ IsFiniteSet(Response(R)) /\ \A x \in Response(R) : x.time \in Int
         /\ query.op \notin Aggregates => Response(R) \subseteq R
         /\ query.op \in Aggregates => \A x \in Response(R) : Bucket(x, R)
<1>1. IsFiniteSet(R) /\ \A r \in R : r.time \in Int
  BY HeldType
<1>2. CASE query.op \in Aggregates
  <2>1. \A Q : Response(Q) = Buckets(Q, Width, FirstOf, LastOf)
    BY <1>2, Spans
  <2>2. Width \in Nat /\ Width > 0 /\ FirstOf \in Int /\ LastOf \in Int /\ Aligned(LastOf, Width, FirstOf)
    BY <1>2, Spans
  <2>3. IsFiniteSet(Response(R)) /\ \A x \in Response(R) : Bucket(x, R)
    BY <1>1, <2>1, <2>2, BucketsOf DEF Bucket
  <2>4. \A x \in Response(R) : x.time \in Int
    BY <2>3 DEF Bucket
  <2> QED
    BY <1>2, <2>3, <2>4
<1>3. CASE query.op \notin Aggregates
  <2>1. query.op \in {"in", "before", "after"}
    BY <1>3 DEF DataInv, Asked, QueryType
  <2>2. Response(R) \subseteq R
    BY <2>1 DEF Response
  <2> QED
    BY <1>1, <1>3, <2>2, FS_Subset
<1> QED
  BY <1>2, <1>3

LEMMA PartType ==
  ASSUME DataAssumption, DataInv, NEW s, NEW R, NEW Q, Part(s, R, Q)
  PROVE  /\ s \in Streams /\ R \in SUBSET db[s] /\ earlier[s] \subseteq R
         /\ IsFiniteSet(Q) /\ \A x \in Q : x.time \in Int
         /\ query.op \notin Aggregates => Q \subseteq R
         /\ query.op \in Aggregates => \A x \in Q : Bucket(x, R)
<1>1. s \in Streams /\ R \in SUBSET db[s] /\ earlier[s] \subseteq R /\ Q \subseteq Response(R)
  BY DEF Part
<1>2. /\ IsFiniteSet(Response(R)) /\ \A x \in Response(R) : x.time \in Int
      /\ query.op \notin Aggregates => Response(R) \subseteq R
      /\ query.op \in Aggregates => \A x \in Response(R) : Bucket(x, R)
  BY <1>1, ResponseType
<1>3. IsFiniteSet(Q)
  BY <1>1, <1>2, FS_Subset
<1> QED
  BY <1>1, <1>2, <1>3

(* An element of a response as packResults makes it. *)
Converted(x) == ConvertReading([x EXCEPT !.time = uint64(@)], query.timeconv)

LEMMA ConvertedReading ==
  ASSUME NEW x, x = [at |-> x.at, time |-> x.time]
  PROVE  Converted(x) = [at |-> x.at, time |-> Guessed(uint64(x.time), query.timeconv).time]
<1> DEFINE u == uint64(x.time)
           y == [at |-> x.at, time |-> u]
<1>1. [x EXCEPT !.time = uint64(@)] = y
  OBVIOUS
<1>2. Converted(x) = ConvertReading(y, query.timeconv)
  BY <1>1 DEF Converted
<1> HIDE DEF u
<1>3. ConvertReading(y, query.timeconv) = [at |-> x.at, time |-> Guessed(u, query.timeconv).time]
  BY DEF ConvertReading
<1> QED
  BY <1>2, <1>3 DEF u

LEMMA ConvertedBucket ==
  ASSUME NEW x, NEW c, x = [from |-> x.from, time |-> x.from, ats |-> c]
  PROVE  Converted(x) = [from |-> x.from, time |-> Guessed(uint64(x.from), query.timeconv).time, ats |-> c]
<1> DEFINE u == uint64(x.from)
           y == [from |-> x.from, time |-> u, ats |-> c]
<1>1. [x EXCEPT !.time = uint64(@)] = y
  OBVIOUS
<1>2. Converted(x) = ConvertReading(y, query.timeconv)
  BY <1>1 DEF Converted
<1> HIDE DEF u
<1>3. ConvertReading(y, query.timeconv) = [from |-> x.from, time |-> Guessed(u, query.timeconv).time, ats |-> c]
  BY DEF ConvertReading
<1> QED
  BY <1>2, <1>3 DEF u

LEMMA PackedRange == \A Q : Range(Packed(Q)) = {Converted(x) : x \in Kept(Q, query.limit)}
BY DEF Packed, Converted, Kept, Range

(* A message tells of a stream what was kept of a response. *)
Told(s, R, Q, answer) ==
  /\ s \in Range(uuids) /\ Readable /\ Part(s, R, Q)
  /\ answer = {Converted(x) : x \in Kept(Q, query.limit)}

LEMMA MessageTells ==
  ASSUME DataAssumption, DataInv, NEW message \in result
  PROVE  \E R, Q : Told(message.uuid, R, Q, Range(message.readings))
<1>1. message \in PackedMessages
  BY DEF DataInv, Answering
<1>2. PICK k \in DOMAIN ret : message = [uuid |-> uuids[k], readings |-> Packed(ret[k])]
  BY <1>1 DEF PackedMessages
<1>3. k \in 1..Len(ret) /\ Len(ret) <= Len(uuids) /\ uuids \in Seq(Streams) /\ Len(ret) \in Nat
  BY DEF DataInv, Responded
<1>4. k \in DOMAIN uuids /\ uuids[k] \in Streams
  BY <1>3
<1>5. uuids[k] \in Range(uuids)
  BY <1>4 DEF Range
<1>6. Readable /\ \E R : Part(uuids[k], R, ret[k])
  BY <1>3 DEF DataInv, Responded
<1>7. message.uuid = uuids[k] /\ Range(message.readings) = {Converted(x) : x \in Kept(ret[k], query.limit)}
  BY <1>2, PackedRange
<1> QED
  BY <1>5, <1>6, <1>7 DEF Told

(* Whatever is asked, of either database and with readings of any time:    *)
(* the conversions of common/time.go:51 keep times to 64 bits, the signed  *)
(* times of the databases are those of the clients (btrdbProvider.go:64,   *)
(* quasarProvider.go:79), and an answer is of streams of the query.        *)
THEOREM DataTypes == DataSpec => []DataTypeOK
<1>1. DataInv => DataTypeOK
  <2> SUFFICES ASSUME DataInv PROVE DataTypeOK
    OBVIOUS
  <2>1. \A s \in Streams : \A r \in db[s] \cup earlier[s] :
          r.at \in Instants /\ r.time \in (0 - Word \div 2)..(Word \div 2 - 1)
    <3>1. \A s \in Streams : db[s] \in SUBSET db[s] /\ earlier[s] \subseteq db[s]
      BY DEF DataInv, InDatabase
    <3> QED
      BY <3>1, DataAssumption, HeldType
  <2>2. /\ Range(uuids) \subseteq Streams /\ IsInjective(uuids) /\ Len(ret) <= Len(uuids)
        /\ cut \subseteq Range(uuids)
    BY DEF DataInv, Responded, Range
  <2>3. ASSUME NEW message \in result
        PROVE  message.uuid \in Range(uuids) /\ \A r \in Range(message.readings) : r.time \in 0..(Word - 1)
    <3>1. PICK R, Q : Told(message.uuid, R, Q, Range(message.readings))
      BY <2>3, DataAssumption, MessageTells
    <3> DEFINE s == message.uuid
               K == Kept(Q, query.limit)
    <3>2. /\ s \in Range(uuids) /\ Part(s, R, Q)
          /\ Range(message.readings) = {Converted(x) : x \in K}
      BY <3>1 DEF Told
    <3>3. /\ s \in Streams /\ R \in SUBSET db[s]
          /\ IsFiniteSet(Q) /\ \A x \in Q : x.time \in Int
          /\ query.op \notin Aggregates => Q \subseteq R
          /\ query.op \in Aggregates => \A x \in Q : Bucket(x, R)
      BY <3>2, DataAssumption, PartType
    <3>4. query.limit \in Int /\ query.timeconv \in 1..4
      BY DataAssumption, Bounds
    <3>5. K \subseteq Q
      BY <3>3, <3>4, KeptFirst
    <3> HIDE DEF s, K
    <3>6. ASSUME NEW x \in K PROVE Converted(x).time = Guessed(uint64(x.time), query.timeconv).time
      <4>1. CASE query.op \in Aggregates
        <5>1. Bucket(x, R)
          BY <3>3, <3>5, <4>1
        <5>2. x = [from |-> x.from, time |-> x.from, ats |-> {r.at : r \in InSpan(R, x.from, Width)}]
          BY <5>1 DEF Bucket
        <5>3. Converted(x) = [from |-> x.from, time |-> Guessed(uint64(x.from), query.timeconv).time,
                              ats |-> {r.at : r \in InSpan(R, x.from, Width)}]
          BY <5>2, ConvertedBucket
        <5> DEFINE c == {r.at : r \in InSpan(R, x.from, Width)}
        <5> HIDE DEF c
        <5>4. x.time = x.from
          BY <5>2 DEF c
        <5> QED
          BY <5>3, <5>4 DEF c
      <4>2. CASE query.op \notin Aggregates
        <5>1. x = [at |-> x.at, time |-> x.time]
          BY <3>3, <3>5, <4>2, DataAssumption, HeldType
        <5>2. Converted(x) = [at |-> x.at, time |-> Guessed(uint64(x.time), query.timeconv).time]
          BY <5>1, ConvertedReading
        <5> QED
          BY <5>2
      <4> QED
        BY <4>1, <4>2
    <3>7. ASSUME NEW x \in K PROVE Converted(x).time \in 0..(Word - 1)
      <4>1. uint64(x.time) \in 0..(Word - 1)
        BY <3>3, <3>5, DataAssumption, Signed
      <4> QED
        BY <3>4, <3>6, <4>1, DataAssumption, GuessedType
    <3> QED
      BY <3>2, <3>7 DEF s
  <2> QED
    BY <2>1, <2>2, <2>3 DEF DataTypeOK, DataInv, InDatabase, Asked
<1> QED
  BY <1>1, DataInvHolds, PTL

-----------------------------------------------------------------------------
(* Readings of today.                                                      *)

(* Nanoseconds from NsLow on are what they seem to be. *)
LEMMA NanosecondsConvert ==
  ASSUME DataAssumption, NEW i \in Nat, NsLow <= i, i < Word, NEW to \in 1..4
  PROVE  Guessed(i, to) = [time |-> i \div Nanos(to), ok |-> TRUE]
<1>1. Nanos(1) = 1 /\ i \div 1 = i /\ i % 1 = 0
  BY Ratios
<1>2. GuessTimeUnit(i) = 1
  BY DEF GuessTimeUnit, DataAssumption, NS
<1>3. i % Nanos(1) = 0 /\ i \div Nanos(1) = i /\ GuessTimeUnit(i \div Nanos(1)) = 1
  BY <1>1, <1>2
<1>4. \A u \in 1..4 : i % Nanos(u) = 0 /\ GuessTimeUnit(i \div Nanos(u)) = u =>
         Guessed(i \div Nanos(u), to) = [time |-> i \div Nanos(to), ok |-> TRUE]
  BY Converts
<1>5. Guessed(i \div Nanos(1), to) = [time |-> i \div Nanos(to), ok |-> TRUE]
  BY <1>3, <1>4
<1> QED
  BY <1>3, <1>5

(* What is stored for an instant, unless it came in microseconds: by BtrDB *)
(* the instant, by Quasar what came; and either is converted right.        *)
LEMMA WrittenToday ==
  ASSUME DataAssumption, InstantsOfToday, DataInv, NEW s \in Streams, unitOf[s] # US,
         NEW i \in Expressible(s)
  PROVE  LET t == Written(Reported(s, i)) IN
         /\ i \in Nat /\ NsLow <= i /\ i < Word \div 2
         /\ t \in 0..(Word \div 2 - 1)
         /\ backend = "btrdb" \/ unitOf[s] = NS => t = i
         /\ \A to \in 1..4 : Guessed(t, to) = [time |-> i \div Nanos(to), ok |-> TRUE]
<1> DEFINE u == unitOf[s]
           n == Nanos(u)
           k == i \div n
<1>1. u \in 1..4 /\ u # US /\ i \in Instants /\ i % n = 0 /\ i \in Nat
  BY DEF DataInv, InDatabase, DataAssumption, Expressible, NS, S
<1>2. Word \in Nat /\ Word \div 2 \in Nat /\ Word = 2 * (Word \div 2) /\ NsLow \in Nat /\ Word > 0
  BY Signed DEF DataAssumption
<1>3. /\ i < Word \div 2 /\ GuessTimeUnit(k) = u
      /\ i % Nanos(NS) = 0 => GuessTimeUnit(i \div Nanos(NS)) = NS
  BY <1>1 DEF InstantsOfToday, NS, S, US
<1>4. i < Word
  BY <1>1, <1>2, <1>3
<1>5. NsLow <= i
  <2>1. Nanos(NS) = 1 /\ i \div 1 = i /\ i % 1 = 0
    BY <1>1, Ratios DEF NS
  <2>2. GuessTimeUnit(i) = NS
    BY <1>3, <2>1
  <2> QED
    BY <1>1, <2>2 DEF GuessTimeUnit, NS, US, MS, S, DataAssumption
<1>6. \A to \in 1..4 : Guessed(k, to) = [time |-> i \div Nanos(to), ok |-> TRUE]
  <2> SUFFICES ASSUME NEW to \in 1..4 PROVE Guessed(k, to) = [time |-> i \div Nanos(to), ok |-> TRUE]
    OBVIOUS
  <2>1. i % Nanos(u) = 0 /\ GuessTimeUnit(i \div Nanos(u)) = u
    BY <1>1, <1>3
  <2> HIDE DEF u
  <2> QED
    BY <1>1, <1>4, <2>1, Converts
<1>7. n \in Nat /\ n > 0
  BY <1>1, NanosType
<1>8. k \in Nat /\ k <= i
  <2> HIDE DEF n
  <2> QED
    BY <1>1, <1>7, QuotientsOrder
<1>9. Reported(s, i) = [at |-> i, time |-> k]
  BY DEF Reported
<1> HIDE DEF n, k
<1>10. k \in 0..(Word \div 2 - 1) /\ i \in 0..(Word \div 2 - 1)
  BY <1>1, <1>2, <1>3, <1>8
<1>11. Nanos(NS) = 1 /\ i \div 1 = i
  BY <1>1, Ratios DEF NS
<1>12. CASE backend = "btrdb"
  <2>1. Guessed(k, NS).time = i
    <3>1. Guessed(k, NS) = [time |-> i \div 1, ok |-> TRUE]
      BY <1>6, <1>11 DEF NS
    <3> QED
      BY <1>11, <3>1
  <2>2. ConvertReading([at |-> i, time |-> k], NS).time = i
    BY <2>1 DEF ConvertReading
  <2>3. Written(Reported(s, i)) = int64(i)
    BY <1>9, <1>12, <2>2 DEF Written
  <2>4. Written(Reported(s, i)) = i
    BY <1>10, <2>3, Signed
  <2>5. \A to \in 1..4 : Guessed(i, to) = [time |-> i \div Nanos(to), ok |-> TRUE]
    BY <1>1, <1>4, <1>5, NanosecondsConvert
  <2> QED
    BY <1>1, <1>3, <1>5, <1>10, <2>4, <2>5
<1>13. CASE backend # "btrdb"
  <2>1. Written(Reported(s, i)) = int64(k)
    BY <1>9, <1>13 DEF Written
  <2>2. Written(Reported(s, i)) = k
    BY <1>10, <2>1, Signed
  <2>3. u = NS => k = i
    BY <1>11 DEF k, n
  <2> QED
    BY <1>1, <1>3, <1>5, <1>6, <1>10, <1>13, <2>2, <2>3
<1> QED
  BY <1>12, <1>13

(* A reading that is kept has the time of its instant, in the unit asked. *)
LEMMA ReadingConverted ==
  ASSUME DataAssumption, InstantsOfToday, DataInv, NEW s \in Streams, unitOf[s] # US,
         NEW x \in db[s]
  PROVE  Converted(x) = [at |-> x.at, time |-> x.at \div Nanos(query.timeconv)]
<1>1. x = [at |-> x.at, time |-> x.time]
  BY HeldType
<1>2. PICK i \in Expressible(s) : x = [at |-> i, time |-> Written(Reported(s, i))]
  BY DEF DataInv, InDatabase, Held
<1> DEFINE t == Written(Reported(s, i))
<1>3. /\ t \in 0..(Word \div 2 - 1)
      /\ \A to \in 1..4 : Guessed(t, to) = [time |-> i \div Nanos(to), ok |-> TRUE]
  BY WrittenToday
<1>4. uint64(t) = t
  <2> HIDE DEF t
  <2> QED
    BY <1>3, Signed
<1> HIDE DEF t
<1>5. x.at = i /\ x.time = t
  BY <1>2 DEF t
<1>6. query.timeconv \in 1..4
  BY Bounds
<1>7. Converted(x) = [at |-> x.at, time |-> Guessed(uint64(x.time), query.timeconv).time]
  BY <1>1, ConvertedReading
<1>8. Guessed(t, query.timeconv).time = i \div Nanos(query.timeconv)
  BY <1>3, <1>6
<1> QED
  BY <1>4, <1>5, <1>7, <1>8

(* BtrDB, which alone answers with buckets, stores instants. *)
LEMMA BucketConverted ==
  ASSUME DataAssumption, DataInv, NEW s \in Streams, NEW R \in SUBSET db[s],
         NEW x, Bucket(x, R), NsLow <= x.from
  PROVE  Converted(x).time = x.from \div Nanos(query.timeconv)
<1> DEFINE c == {r.at : r \in InSpan(R, x.from, Width)}
<1>1. x.from \in Int /\ x = [from |-> x.from, time |-> x.from, ats |-> c] /\ \E r \in R : x.from <= r.time
  BY DEF Bucket
<1> HIDE DEF c
<1>2. Word \in Nat /\ Word \div 2 \in Nat /\ Word = 2 * (Word \div 2) /\ NsLow \in Nat /\ Word > 0
  BY Signed DEF DataAssumption
<1>3. x.from \in 0..(Word \div 2 - 1) /\ x.from \in Nat /\ x.from < Word
  <2>1. PICK r \in R : x.from <= r.time
    BY <1>1
  <2>2. r.time \in (0 - Word \div 2)..(Word \div 2 - 1)
    BY HeldType
  <2> QED
    BY <1>1, <1>2, <2>1, <2>2
<1>4. uint64(x.from) = x.from
  BY <1>3, Signed
<1>5. query.timeconv \in 1..4
  BY Bounds
<1>6. Guessed(x.from, query.timeconv) = [time |-> x.from \div Nanos(query.timeconv), ok |-> TRUE]
  BY <1>3, <1>5, NanosecondsConvert
<1>7. Converted(x) = [from |-> x.from, time |-> Guessed(uint64(x.from), query.timeconv).time, ats |-> c]
  BY <1>1, ConvertedBucket
<1> QED
  BY <1>4, <1>6, <1>7

(* Of readings of today, in any number of streams and with messages coming *)
(* between any two fetches, the times in an answer are in the unit that   *)
(* the query names (packResults and packStatsResults, api.go:147-185, over *)
(* reading.go:50 and 139).                                                 *)
THEOREM AnswersAreConverted == ASSUME InstantsOfToday PROVE DataSpec => []TimesAreConverted
<1>1. DataInv => TimesAreConverted
  <2> SUFFICES ASSUME DataInv, NEW message \in result, unitOf[message.uuid] # US, NEW r \in Range(message.readings)
               PROVE  LET instant == IF asked.op \in Aggregates THEN r.from ELSE r.at
                      IN  instant >= NsLow => r.time = instant \div Nanos(asked.timeconv)
    BY DEF TimesAreConverted
  <2>1. PICK R, Q : Told(message.uuid, R, Q, Range(message.readings))
    BY DataAssumption, MessageTells
  <2> DEFINE s == message.uuid
  <2>2. s \in Streams /\ R \in SUBSET db[s]
    BY <2>1 DEF Told, Part
  <2>3. PICK x \in Kept(Q, query.limit) : r = Converted(x)
    BY <2>1 DEF Told
  <2>4. /\ IsFiniteSet(Q) /\ \A y \in Q : y.time \in Int
        /\ query.op \notin Aggregates => Q \subseteq R
        /\ query.op \in Aggregates => \A y \in Q : Bucket(y, R)
    BY <2>1, DataAssumption, PartType DEF Told
  <2>5. query.limit \in Int
    BY DataAssumption, Bounds
  <2>6. x \in Q
    BY <2>3, <2>4, <2>5, KeptFirst
  <2>7. query.op = asked.op /\ query.timeconv = asked.timeconv
    BY DEF DataInv, Asked
  <2>8. CASE query.op \in Aggregates
    <3>1. Bucket(x, R)
      BY <2>4, <2>6, <2>8
    <3> DEFINE c == {y.at : y \in InSpan(R, x.from, Width)}
    <3>2. x = [from |-> x.from, time |-> x.from, ats |-> c]
      BY <3>1 DEF Bucket
    <3> HIDE DEF c
    <3>3. Converted(x) = [from |-> x.from, time |-> Guessed(uint64(x.from), query.timeconv).time, ats |-> c]
      BY <3>2, ConvertedBucket
    <3>4. r.from = x.from
      BY <2>3, <3>3
    <3>5. x.from \in Int /\ NsLow \in Int
      BY <3>1, DataAssumption DEF Bucket, DataAssumption
    <3>6. NsLow <= x.from => Converted(x).time = x.from \div Nanos(query.timeconv)
      BY <2>2, <3>1, DataAssumption, BucketConverted
    <3> QED
      BY <2>3, <2>7, <2>8, <3>4, <3>5, <3>6, DataAssumption
  <2>9. CASE query.op \notin Aggregates
    <3>1. x \in db[s]
      BY <2>2, <2>4, <2>6, <2>9
    <3>2. Converted(x) = [at |-> x.at, time |-> x.at \div Nanos(query.timeconv)]
      BY <2>2, <3>1, DataAssumption, InstantsOfToday, ReadingConverted
    <3>3. r.at = x.at /\ r.time = x.at \div Nanos(query.timeconv)
      BY <2>3, <3>2
    <3> QED
      BY <2>7, <2>9, <3>3
  <2> QED
    BY <2>8, <2>9
<1> QED
  BY <1>1, DataInvHolds, PTL

-----------------------------------------------------------------------------
(* Exact answers.                                                          *)

Lo == IF asked.end < asked.start THEN asked.end ELSE asked.start
Hi == IF asked.end < asked.start THEN asked.start ELSE asked.end

(* The times of a plain query stay as they are, the earlier one first. *)
LEMMA PlainTimes ==
  ASSUME DataAssumption, DataInv, stage = "answered", PlainQuery
  PROVE  /\ asked.op \in {"before", "after"} => int64(query.start) = asked.start
         /\ asked.op \notin {"before", "after"} =>
              /\ int64(query.start) = Lo /\ int64(query.end) = Hi
              /\ Lo \in Nat /\ Hi \in Nat /\ Lo <= Hi
         /\ asked.start \in Nat
<1>1. Word \in Nat /\ Word \div 2 \in Nat /\ Word = 2 * (Word \div 2) /\ NsLow \in Nat /\ Word > 0
  BY Signed DEF DataAssumption
<1>2. \A t \in NsLow..(Word \div 2 - 1) : Guessed(t, NS).time = t /\ int64(t) = t /\ t \in Nat
  <2> SUFFICES ASSUME NEW t \in NsLow..(Word \div 2 - 1)
               PROVE  Guessed(t, NS).time = t /\ int64(t) = t /\ t \in Nat
    OBVIOUS
  <2>1. t \in Nat /\ NsLow <= t /\ t < Word /\ t \in 0..(Word \div 2 - 1)
    BY <1>1
  <2>2. Guessed(t, NS) = [time |-> t \div Nanos(NS), ok |-> TRUE]
    BY <2>1, NanosecondsConvert DEF NS
  <2>3. Nanos(NS) = 1 /\ t \div 1 = t
    BY <2>1, Ratios DEF NS
  <2>4. Guessed(t, NS).time = t
    BY <2>2, <2>3
  <2> QED
    BY <2>1, <2>4, Signed
<1> DEFINE a == Guessed(asked.start, NS).time
           b == Guessed(asked.end, NS).time
           swap == asked.op \in {"in"} \cup Aggregates /\ b < a
<1>3. asked \in QueryType /\ query = Prepared(asked).query
  BY DEF DataInv, Asked, DataAssumption
<1>4. query = [asked EXCEPT !.start = IF swap THEN b ELSE a, !.end = IF swap THEN a ELSE b]
  BY <1>3 DEF Prepared
<1>5. a = asked.start /\ int64(asked.start) = asked.start /\ asked.start \in Nat
  BY <1>2 DEF PlainQuery
<1>6. asked.op \notin {"before", "after"} => b = asked.end /\ int64(asked.end) = asked.end /\ asked.end \in Nat
  BY <1>2 DEF PlainQuery
<1> HIDE DEF a, b
<1>7. query.start = (IF swap THEN b ELSE a) /\ query.end = (IF swap THEN a ELSE b)
  BY <1>3, <1>4 DEF QueryType
<1>8. CASE asked.op \in {"before", "after"}
  BY <1>5, <1>7, <1>8 DEF Aggregates
<1>9. CASE asked.op \notin {"before", "after"}
  <2>1. asked.op \in {"in"} \cup Aggregates
    BY <1>3, <1>9 DEF QueryType
  <2>2. b = asked.end /\ int64(asked.end) = asked.end /\ asked.end \in Nat
    BY <1>6, <1>9
  <2>3. query.start = Lo /\ query.end = Hi
    BY <1>5, <1>7, <2>1, <2>2 DEF Lo, Hi
  <2>4. CASE asked.end < asked.start
    BY <1>5, <1>9, <2>2, <2>3, <2>4 DEF Lo, Hi
  <2>5. CASE ~(asked.end < asked.start)
    BY <1>5, <1>9, <2>2, <2>3, <2>5 DEF Lo, Hi
  <2> QED
    BY <2>4, <2>5
<1> QED
  BY <1>8, <1>9

(* The messages of a stream are of the response of its fetch. *)
LEMMA AnswersOf ==
  ASSUME DataAssumption, DataInv, stage = "answered", NEW s \in Range(uuids)
  PROVE  \E R, Q : Told(s, R, Q, Answers(s))
<1>1. PICK k \in DOMAIN uuids : s = uuids[k]
  BY DEF Range
<1>2. uuids \in Seq(Streams) /\ Len(ret) = Len(uuids) /\ IsInjective(uuids) /\ \E T : ret \in Seq(T)
  BY DEF DataInv, Responded
<1>3. k \in 1..Len(ret) /\ k \in DOMAIN ret /\ s \in Streams /\ DOMAIN ret = DOMAIN uuids
  BY <1>1, <1>2
<1>4. PICK R : Part(s, R, ret[k])
  BY <1>1, <1>3 DEF DataInv, Responded
<1>5. Readable
  BY <1>3 DEF DataInv, Responded
<1> DEFINE message == [uuid |-> uuids[k], readings |-> Packed(ret[k])]
<1>6. \A m \in result : m.uuid = s <=> m = message
  <2> SUFFICES ASSUME NEW m \in PackedMessages PROVE m.uuid = s <=> m = message
    BY DEF DataInv, Answering
  <2>1. PICK i \in DOMAIN ret : m = [uuid |-> uuids[i], readings |-> Packed(ret[i])]
    BY DEF PackedMessages
  <2>2. m.uuid = s => i = k
    BY <1>1, <1>2, <1>3, <2>1 DEF IsInjective
  <2> QED
    BY <1>1, <2>1, <2>2
<1>7. message \in result <=> ret[k] # {}
  <2>1. ret[k] # {} => message \in result
    BY <1>3 DEF DataInv, Answering, PackedMessages
  <2>2. ASSUME message \in result PROVE ret[k] # {}
    <3>1. message \in PackedMessages
      BY <2>2 DEF DataInv, Answering
    <3>2. PICK i \in DOMAIN ret : ret[i] # {} /\ message = [uuid |-> uuids[i], readings |-> Packed(ret[i])]
      BY <3>1 DEF PackedMessages
    <3>3. uuids[i] = uuids[k]
      BY <3>2
    <3> QED
      BY <1>1, <1>2, <1>3, <3>2, <3>3 DEF IsInjective
  <2> QED
    BY <2>1, <2>2
<1> DEFINE Q == ret[k]
           K == Kept(Q, query.limit)
           P == {Converted(x) : x \in K}
<1>8. Range(message.readings) = P
  BY PackedRange
<1>9. Q = {} => P = {}
  <2>1. IsFiniteSet(Q) /\ (\A x \in Q : x.time \in Int) /\ query.limit \in Int
    BY <1>4, PartType, Bounds
  <2>2. K \subseteq Q
    <3> HIDE DEF Q
    <3> QED
      BY <2>1, KeptFirst
  <2> HIDE DEF Q, K
  <2> QED
    BY <2>2
<1> HIDE DEF message, P, Q
<1>10. Answers(s) = P
  <2>1. CASE ret[k] # {}
    <3>1. {m \in result : m.uuid = s} = {message}
      BY <1>6, <1>7, <2>1
    <3> QED
      BY <1>8, <3>1 DEF Answers
  <2>2. CASE ret[k] = {}
    <3>1. {m \in result : m.uuid = s} = {}
      BY <1>6, <1>7, <2>2
    <3> QED
      BY <1>9, <2>2, <3>1 DEF Answers, Q
  <2> QED
    BY <2>1, <2>2
<1> QED
  BY <1>4, <1>5, <1>10 DEF Told, P, Q

(* The instants that an element of a response tells of. *)
AtsOf(x) == IF query.op \in Aggregates THEN x.ats ELSE {x.at}

(* What is answered of s was kept of Q, which is of readings R that are    *)
(* stored under their instants. *)
AnsweredFrom(s, R, Q) ==
  /\ Part(s, R, Q)
  /\ \A r \in db[s] : r.time = r.at /\ r.at \in Nat
  /\ \A j : j \in Answered(s) <=> \E x \in Kept(Q, query.limit) : j \in AtsOf(x)
  /\ query.op \in Aggregates =>
       \A b \in Answers(s) : \E x \in Kept(Q, query.limit) : b.from = x.from /\ b.ats = x.ats

LEMMA KeptOf ==
  ASSUME DataAssumption, DataInv, NEW s, NEW R, NEW Q, Part(s, R, Q)
  PROVE  /\ Kept(Q, query.limit) \subseteq Q
         /\ asked.limit <= 0 => Kept(Q, query.limit) = Q
         /\ Q # {} => Kept(Q, query.limit) # {}
         /\ \A x \in Kept(Q, query.limit), y \in Q \ Kept(Q, query.limit) : x.time <= y.time
<1>1. IsFiniteSet(Q) /\ (\A x \in Q : x.time \in Int) /\ query.limit \in Int
  BY PartType, Bounds
<1>2. query.limit = asked.limit
  BY DEF DataInv, Asked
<1>3. /\ Kept(Q, query.limit) \subseteq Q
      /\ query.limit <= 0 => Kept(Q, query.limit) = Q
      /\ Q # {} => Kept(Q, query.limit) # {}
      /\ \A x \in Kept(Q, query.limit), y \in Q \ Kept(Q, query.limit) : x.time <= y.time
  BY <1>1, KeptFirst
<1> QED
  BY <1>2, <1>3

LEMMA ToldToday ==
  ASSUME DataAssumption, InstantsOfToday, DataInv, stage = "answered",
         NEW s \in Range(uuids), StoredAtInstant(s)
  PROVE  \E R, Q : AnsweredFrom(s, R, Q)
<1>1. PICK R, Q : Told(s, R, Q, Answers(s))
  BY AnswersOf
<1> DEFINE K == Kept(Q, query.limit)
<1>2. /\ s \in Streams /\ R \in SUBSET db[s] /\ Part(s, R, Q)
      /\ Answers(s) = {Converted(x) : x \in K}
  BY <1>1 DEF Told, Part
<1>3. unitOf[s] # US /\ (backend = "btrdb" \/ unitOf[s] = NS)
  BY <1>2 DEF StoredAtInstant, NS, US, DataInv, InDatabase, DataAssumption
<1>4. ASSUME NEW r \in db[s] PROVE r.time = r.at /\ r.at \in Nat
  <2>1. PICK i \in Expressible(s) : r = [at |-> i, time |-> Written(Reported(s, i))]
    BY <1>2 DEF DataInv, InDatabase, Held
  <2>2. i \in Nat /\ Written(Reported(s, i)) = i
    BY <1>2, <1>3, WrittenToday
  <2> QED
    BY <2>1, <2>2
<1>5. K \subseteq Q
  BY <1>2, KeptOf
<1>6. query.op = asked.op
  BY DEF DataInv, Asked
<1> HIDE DEF K
<1>7. ASSUME NEW x \in K
      PROVE  /\ Ats(Converted(x)) = AtsOf(x)
             /\ query.op \in Aggregates => Converted(x).from = x.from /\ Converted(x).ats = x.ats
  <2>1. CASE query.op \in Aggregates
    <3>1. Bucket(x, R)
      BY <1>2, <1>5, <2>1, PartType
    <3> DEFINE c == {y.at : y \in InSpan(R, x.from, Width)}
    <3>2. x = [from |-> x.from, time |-> x.from, ats |-> c]
      BY <3>1 DEF Bucket
    <3> HIDE DEF c
    <3>3. Converted(x) = [from |-> x.from, time |-> Guessed(uint64(x.from), query.timeconv).time, ats |-> c]
      BY <3>2, ConvertedBucket
    <3>4. x.ats = c /\ Converted(x).from = x.from /\ Converted(x).ats = c
      BY <3>2, <3>3
    <3> QED
      BY <1>6, <2>1, <3>4 DEF Ats, AtsOf
  <2>2. CASE query.op \notin Aggregates
    <3>1. x \in R
      BY <1>2, <1>5, <2>2, PartType
    <3>2. x = [at |-> x.at, time |-> x.time]
      BY <1>2, <3>1, HeldType
    <3>3. Converted(x) = [at |-> x.at, time |-> Guessed(uint64(x.time), query.timeconv).time]
      BY <3>2, ConvertedReading
    <3>4. Converted(x).at = x.at
      BY <3>3
    <3> QED
      BY <1>6, <2>2, <3>4 DEF Ats, AtsOf
  <2> QED
    BY <2>1, <2>2
<1>8. \A j : j \in Answered(s) <=> \E x \in K : j \in AtsOf(x)
  BY <1>2, <1>7 DEF Answered
<1>9. query.op \in Aggregates => \A b \in Answers(s) : \E x \in K : b.from = x.from /\ b.ats = x.ats
  BY <1>2, <1>7
<1> QED
  BY <1>2, <1>4, <1>8, <1>9 DEF AnsweredFrom, K

AsWanted(s) == OnlyWanted(s) /\ (s \notin cut => AllWanted(s) /\ Nearest(s) /\ Bucketed(s))

LEMMA ExactIn ==
  ASSUME DataAssumption, DataInv, stage = "answered", PlainQuery, asked.op = "in",
         NEW s, NEW R, NEW P, AnsweredFrom(s, R, P)
  PROVE  AsWanted(s)
<1> DEFINE Q == Response(R)
           K == Kept(P, query.limit)
<1>1. /\ s \in Streams /\ R \in SUBSET db[s] /\ earlier[s] \subseteq R
      /\ P \subseteq Q /\ Part(s, R, P)
      /\ \A r \in db[s] : r.time = r.at /\ r.at \in Nat
      /\ \A j : j \in Answered(s) <=> \E x \in K : j \in AtsOf(x)
  BY DEF AnsweredFrom, Part
<1>0. s \notin cut => P = Q
  BY DEF AnsweredFrom, Part
<1>2. query.op = "in" /\ query.op \notin Aggregates
  BY DEF DataInv, Asked, Aggregates
<1>3. int64(query.start) = Lo /\ int64(query.end) = Hi /\ Lo \in Nat /\ Hi \in Nat
  BY PlainTimes
<1>4. Q = {r \in R : ~(r.time < Lo) /\ r.time < Hi}
  BY <1>2, <1>3 DEF Response
<1>5. \A r : r \in Q <=> r \in R /\ Lo <= r.at /\ r.at < Hi
  BY <1>1, <1>3, <1>4
<1>6. /\ K \subseteq P /\ (asked.limit <= 0 => K = P) /\ (P # {} => K # {})
      /\ \A x \in K, y \in P \ K : x.time <= y.time
  BY <1>1, KeptOf
<1> HIDE DEF Q, K
<1>7. \A j : j \in Answered(s) <=> \E x \in K : j = x.at
  BY <1>1, <1>2 DEF AtsOf
<1>8. \A D : Wanted(D) = {i \in {r.at : r \in D} : Lo <= i /\ i < Hi}
  BY DEF Wanted, Lo, Hi
<1>9. \A i : i \in Wanted(earlier[s]) => \E r \in Q : i = r.at
  BY <1>1, <1>5, <1>8
<1>10. OnlyWanted(s)
  BY <1>1, <1>5, <1>6, <1>7, <1>8 DEF OnlyWanted
<1>11. s \notin cut => AllWanted(s)
  BY <1>0, <1>6, <1>7, <1>9 DEF AllWanted
<1>12. ASSUME s \notin cut PROVE Nearest(s)
  <2>0. P = Q
    BY <1>0, <1>12
  <2> SUFFICES ASSUME NEW i \in Wanted(earlier[s]), i \notin Answered(s)
               PROVE  Answered(s) # {} /\ \A j \in Answered(s) : j < i
    BY DEF Nearest
  <2>1. PICK r \in Q : i = r.at
    BY <1>9
  <2>2. r \notin K
    BY <1>7, <2>1
  <2>3. PICK z \in K : TRUE
    BY <1>6, <2>0, <2>1
  <2>4. Answered(s) # {}
    BY <1>7, <2>3
  <2>5. ASSUME NEW j \in Answered(s) PROVE j < i
    <3>1. PICK x \in K : j = x.at
      BY <1>7
    <3>2. x \in db[s] /\ r \in db[s]
      BY <1>1, <1>5, <1>6, <2>0
    <3>3. x.time <= r.time /\ x.time = j /\ r.time = i /\ i \in Nat /\ j \in Nat
      BY <1>1, <1>6, <2>0, <2>1, <2>2, <3>1, <3>2
    <3> QED
      BY <3>3
  <2> QED
    BY <2>4, <2>5
<1>13. Bucketed(s)
  BY DEF Bucketed, Aggregates
<1> QED
  BY <1>10, <1>11, <1>12, <1>13 DEF AsWanted

(* The one reading, or the several of the same time, nearest to the start. *)
LEMMA ExactBefore ==
  ASSUME DataAssumption, DataInv, stage = "answered", PlainQuery, asked.op = "before",
         NEW s, NEW R, NEW P, AnsweredFrom(s, R, P)
  PROVE  AsWanted(s)
<1> DEFINE Q == Response(R)
           K == Kept(P, query.limit)
           start == asked.start
           before == {r \in R : r.at < start}
<1>1. /\ s \in Streams /\ R \in SUBSET db[s] /\ earlier[s] \subseteq R
      /\ P \subseteq Q /\ Part(s, R, P)
      /\ \A r \in db[s] : r.time = r.at /\ r.at \in Nat
      /\ \A j : j \in Answered(s) <=> \E x \in K : j \in AtsOf(x)
  BY DEF AnsweredFrom, Part
<1>0. s \notin cut => P = Q
  BY DEF AnsweredFrom, Part
<1>2. query.op = "before" /\ query.op \notin Aggregates
  BY DEF DataInv, Asked, Aggregates
<1>3. int64(query.start) = start /\ start \in Nat
  BY PlainTimes
<1>4. Q = {r \in {y \in R : y.time < start} : \A x \in {y \in R : y.time < start} : x.time <= r.time}
  BY <1>2, <1>3 DEF Response
<1>5. {y \in R : y.time < start} = before
  BY <1>1
<1>6. Q = {r \in before : \A x \in before : x.time <= r.time}
  BY <1>4, <1>5
<1>7. before # {} => Q # {}
  <2> SUFFICES ASSUME before # {} PROVE Q # {}
    OBVIOUS
  <2>1. IsFiniteSet(before)
    <3>1. IsFiniteSet(R)
      BY <1>1, HeldType
    <3> QED
      BY <3>1, FS_Subset
  <2> DEFINE f == [r \in before |-> r.time]
  <2>2. f \in [before -> Int]
    BY <1>1
  <2>3. PICK m \in before : \A x \in before : f[x] <= f[m]
    <3> HIDE DEF f, before
    <3> QED
      BY <2>1, <2>2, Greatest
  <2>4. \A x \in before : x.time <= m.time
    BY <2>3
  <2> HIDE DEF before
  <2> QED
    BY <1>6, <2>3, <2>4
<1>8. K \subseteq P /\ (P # {} => K # {})
  BY <1>1, KeptOf
<1>9. \A r : r \in before <=> r \in R /\ r.at < start
  OBVIOUS
<1> HIDE DEF Q, K, before, start
<1>10. \A j : j \in Answered(s) <=> \E x \in K : j = x.at
  BY <1>1, <1>2 DEF AtsOf
<1>11. \A D : Wanted(D) = {i \in {r.at : r \in D} : i < start}
  BY DEF Wanted, start
<1>12. \A i : i \in Wanted(earlier[s]) => \E r \in before : i = r.at
  BY <1>1, <1>9, <1>11
<1>13. OnlyWanted(s)
  BY <1>1, <1>6, <1>8, <1>9, <1>10, <1>11 DEF OnlyWanted
<1>14. AllWanted(s)
  BY DEF AllWanted
<1>15. ASSUME s \notin cut PROVE Nearest(s)
  <2>0. P = Q
    BY <1>0, <1>15
  <2> SUFFICES ASSUME NEW i \in Wanted(earlier[s]), i \notin Answered(s)
               PROVE  Answered(s) # {} /\ \A j \in Answered(s) : j > i
    BY DEF Nearest
  <2>1. PICK r \in before : i = r.at
    BY <1>12
  <2>2. Answered(s) # {}
    BY <1>7, <1>8, <1>10, <2>0, <2>1
  <2>3. ASSUME NEW j \in Answered(s) PROVE j > i
    <3>1. PICK x \in K : j = x.at
      BY <1>10
    <3>2. x \in db[s] /\ r \in db[s] /\ r.time <= x.time
      BY <1>1, <1>6, <1>8, <1>9, <2>0, <2>1, <3>1
    <3>3. x.time = j /\ r.time = i /\ i \in Nat /\ j \in Nat /\ i # j
      BY <1>1, <2>1, <3>1, <3>2
    <3> QED
      BY <3>2, <3>3
  <2> QED
    BY <2>2, <2>3
<1>16. Bucketed(s)
  BY DEF Bucketed, Aggregates
<1> QED
  BY <1>13, <1>14, <1>15, <1>16 DEF AsWanted

LEMMA ExactAfter ==
  ASSUME DataAssumption, DataInv, stage = "answered", PlainQuery, asked.op = "after",
         NEW s, NEW R, NEW P, AnsweredFrom(s, R, P)
  PROVE  AsWanted(s)
<1> DEFINE Q == Response(R)
           K == Kept(P, query.limit)
           start == asked.start
           after == {r \in R : ~(r.at < start)}
<1>1. /\ s \in Streams /\ R \in SUBSET db[s] /\ earlier[s] \subseteq R
      /\ P \subseteq Q /\ Part(s, R, P)
      /\ \A r \in db[s] : r.time = r.at /\ r.at \in Nat
      /\ \A j : j \in Answered(s) <=> \E x \in K : j \in AtsOf(x)
  BY DEF AnsweredFrom, Part
<1>0. s \notin cut => P = Q
  BY DEF AnsweredFrom, Part
<1>2. query.op = "after" /\ query.op \notin Aggregates
  BY DEF DataInv, Asked, Aggregates
<1>3. int64(query.start) = start /\ start \in Nat
  BY PlainTimes
<1> DEFINE late == R \ {y \in R : y.time < start}
<1>4. Q = {r \in late : \A x \in late : x.time >= r.time}
  BY <1>2, <1>3 DEF Response
<1>5. late = after
  BY <1>1
<1> HIDE DEF late
<1>6. Q = {r \in after : \A x \in after : x.time >= r.time}
  BY <1>4, <1>5
<1>7. after # {} => Q # {}
  <2> SUFFICES ASSUME after # {} PROVE Q # {}
    OBVIOUS
  <2>1. IsFiniteSet(after)
    <3>1. IsFiniteSet(R)
      BY <1>1, HeldType
    <3> QED
      BY <3>1, FS_Subset
  <2> DEFINE f == [r \in after |-> 0 - r.time]
  <2>2. f \in [after -> Int] /\ \A x \in after : x.time \in Int
    BY <1>1
  <2>3. PICK m \in after : \A x \in after : f[x] <= f[m]
    <3> HIDE DEF f, after
    <3> QED
      BY <2>1, <2>2, Greatest
  <2>4. \A x \in after : 0 - x.time <= 0 - m.time
    BY <2>3
  <2>5. \A x \in after : x.time >= m.time
    BY <2>2, <2>3, <2>4
  <2> HIDE DEF after
  <2> QED
    BY <1>6, <2>3, <2>5
<1>8. K \subseteq P /\ (P # {} => K # {})
  BY <1>1, KeptOf
<1>9. \A r : r \in after <=> r \in R /\ ~(r.at < start)
  OBVIOUS
<1> HIDE DEF Q, K, after, start
<1>10. \A j : j \in Answered(s) <=> \E x \in K : j = x.at
  BY <1>1, <1>2 DEF AtsOf
<1>11. \A D : Wanted(D) = {r.at : r \in D} \ {i \in {r.at : r \in D} : i < start}
  BY DEF Wanted, start
<1>12. \A i : i \in Wanted(earlier[s]) => \E r \in after : i = r.at
  BY <1>1, <1>9, <1>11
<1>13. OnlyWanted(s)
  BY <1>1, <1>6, <1>8, <1>9, <1>10, <1>11 DEF OnlyWanted
<1>14. AllWanted(s)
  BY DEF AllWanted
<1>15. ASSUME s \notin cut PROVE Nearest(s)
  <2>0. P = Q
    BY <1>0, <1>15
  <2> SUFFICES ASSUME NEW i \in Wanted(earlier[s]), i \notin Answered(s)
               PROVE  Answered(s) # {} /\ \A j \in Answered(s) : j < i
    BY DEF Nearest
  <2>1. PICK r \in after : i = r.at
    BY <1>12
  <2>2. Answered(s) # {}
    BY <1>7, <1>8, <1>10, <2>0, <2>1
  <2>3. ASSUME NEW j \in Answered(s) PROVE j < i
    <3>1. PICK x \in K : j = x.at
      BY <1>10
    <3>2. x \in db[s] /\ r \in db[s] /\ r.time >= x.time
      BY <1>1, <1>6, <1>8, <1>9, <2>0, <2>1, <3>1
    <3>3. x.time = j /\ r.time = i /\ i \in Nat /\ j \in Nat /\ i # j
      BY <1>1, <2>1, <3>1, <3>2
    <3> QED
      BY <3>2, <3>3
  <2> QED
    BY <2>2, <2>3
<1>16. Bucketed(s)
  BY DEF Bucketed, Aggregates
<1> QED
  BY <1>13, <1>14, <1>15, <1>16 DEF AsWanted

LEMMA BelowMultiple ==
  ASSUME NEW n \in Nat, n > 0, NEW a \in Nat, NEW k \in Nat
  PROVE  a < n * k <=> a \div n < k
<1>1. a \div n \in Nat /\ a % n \in 0..(n - 1) /\ a = n * (a \div n) + (a % n)
  BY Quotients, QuotientsOrder
<1> DEFINE q == a \div n
<1> HIDE DEF q
<1>2. q \in Nat /\ n * q \in Nat /\ n * q <= a /\ a < n * q + n
  BY <1>1 DEF q
<1>3. ASSUME q < k PROVE a < n * k
  <2>1. n * q + n <= n * k
    BY <1>2, <1>3
  <2> QED
    BY <1>2, <2>1
<1>4. ASSUME a < n * k, k <= q PROVE FALSE
  <2>1. n * k <= n * q
    BY <1>2, <1>4
  <2> QED
    BY <1>2, <1>4, <2>1
<1> QED
  BY <1>2, <1>3, <1>4 DEF q

(* Whole buckets of the range of a plain query, as Wanted tells of them. *)
LEMMA WholeBuckets ==
  ASSUME DataAssumption, DataInv, stage = "answered", PlainQuery, asked.op \in Aggregates
  PROVE  /\ Width = Size
         /\ \A D : \A i \in Nat :
              i \in Wanted(D) <=> i \in {r.at : r \in D} /\ FirstOf <= i /\ i < LastOf
         /\ \A D : Wanted(D) \subseteq {r.at : r \in D}
<1>1. /\ query.op = asked.op /\ query.width = asked.width /\ query.op \in Aggregates
      /\ asked \in QueryType
  BY DEF DataInv, Asked, DataAssumption
<1>2. Width \in Nat /\ Width > 0
  BY <1>1, Spans
<1>3. int64(query.start) = Lo /\ int64(query.end) = Hi /\ Lo \in Nat /\ Hi \in Nat /\ Lo <= Hi
  BY PlainTimes DEF Aggregates
<1>4. Width = Size
  <2>1. CASE asked.op = "statistical"
    <3>1. asked.width \in Nat /\ asked.width < Byte /\ Byte \in Nat
      BY <1>1, <2>1 DEF PlainQuery, QueryType, DataAssumption
    <3>2. uint8(asked.width) = asked.width
      BY <3>1 DEF uint8
    <3> QED
      BY <1>1, <2>1, <3>2 DEF Width, Size
  <2>2. CASE asked.op # "statistical"
    BY <1>1, <2>2 DEF Width, Size
  <2> QED
    BY <2>1, <2>2
<1>5. \A D : Wanted(D) \subseteq {r.at : r \in D}
  BY DEF Wanted, Aggregates
<1> DEFINE n == Width
<1>6. n \in Nat /\ n > 0 /\ n = Size
  BY <1>2, <1>4
<1> HIDE DEF n
<1>7. CASE asked.op = "statistical"
  <2>1. FirstOf = Lo - (Lo % n) /\ LastOf = Hi - (Hi % n)
    BY <1>1, <1>3, <1>7 DEF FirstOf, LastOf, n
  <2>2. \A D : Wanted(D) = {i \in {r.at : r \in D} : i \div n \in Lo \div n .. (Hi \div n) - 1}
    BY <1>6, <1>7 DEF Wanted, Lo, Hi
  <2> DEFINE a == Lo \div n
             b == Hi \div n
  <2>3. a \in Nat /\ b \in Nat /\ FirstOf = n * a /\ LastOf = n * b
    <3>1. /\ a \in Nat /\ Lo % n \in 0..(n - 1) /\ Lo = n * a + (Lo % n)
          /\ b \in Nat /\ Hi % n \in 0..(n - 1) /\ Hi = n * b + (Hi % n)
      BY <1>3, <1>6, Quotients, QuotientsOrder
    <3> HIDE DEF a, b
    <3>2. n * a \in Int /\ n * b \in Int
      BY <1>6, <3>1
    <3> QED
      BY <2>1, <3>1, <3>2
  <2>4. \A D : Wanted(D) = {i \in {r.at : r \in D} : i \div n \in a .. b - 1}
    BY <2>2
  <2> HIDE DEF a, b
  <2>5. ASSUME NEW i \in Nat PROVE i \div n \in a .. b - 1 <=> FirstOf <= i /\ i < LastOf
    <3>1. (i < n * a <=> i \div n < a) /\ (i < n * b <=> i \div n < b)
      BY <1>6, <2>3, BelowMultiple
    <3>2. n * a \in Nat /\ n * b \in Nat
      BY <1>6, <2>3
    <3>3. i \div n \in Nat
      BY <1>6, QuotientsOrder
    <3> DEFINE q == i \div n
    <3> HIDE DEF q
    <3>4. q \in a .. b - 1 <=> ~(q < a) /\ q < b
      BY <2>3, <3>3 DEF q
    <3>5. FirstOf <= i <=> ~(i < n * a)
      BY <2>3, <3>2
    <3> QED
      BY <2>3, <3>1, <3>4, <3>5 DEF q
  <2>6. \A D : \A i \in Nat : i \in Wanted(D) <=> i \in {r.at : r \in D} /\ FirstOf <= i /\ i < LastOf
    BY <2>4, <2>5
  <2> QED
    BY <1>4, <1>5, <2>6
<1>8. CASE asked.op # "statistical"
  <2>1. asked.op = "window" /\ FirstOf = Lo /\ LastOf = Hi - ((Hi - Lo) % n)
    BY <1>1, <1>3, <1>8 DEF FirstOf, LastOf, n, Aggregates
  <2>2. \A D : Wanted(D) = {i \in {r.at : r \in D} : Lo <= i /\ (i - Lo) \div n < (Hi - Lo) \div n}
    BY <1>6, <2>1 DEF Wanted, Lo, Hi
  <2> DEFINE d == Hi - Lo
             b == d \div n
  <2>3. d \in Nat /\ d = Hi - Lo
    BY <1>3
  <2>4. b \in Nat /\ LastOf = Lo + n * b /\ n * b \in Nat
    <3>1. LastOf = Hi - (d % n)
      BY <2>1
    <3> HIDE DEF d
    <3>2. b \in Nat /\ d % n \in 0..(n - 1) /\ d = n * b + (d % n)
      BY <1>6, <2>3, Quotients, QuotientsOrder
    <3> HIDE DEF b
    <3>3. n * b \in Nat
      BY <1>6, <3>2
    <3> QED
      BY <1>3, <2>3, <3>1, <3>2, <3>3
  <2>5. \A D : Wanted(D) = {i \in {r.at : r \in D} : Lo <= i /\ (i - Lo) \div n < b}
    BY <2>2
  <2> HIDE DEF b, d
  <2>6. ASSUME NEW i \in Nat PROVE (Lo <= i /\ (i - Lo) \div n < b) <=> FirstOf <= i /\ i < LastOf
    <3> SUFFICES ASSUME Lo <= i PROVE (i - Lo) \div n < b <=> i < LastOf
      BY <2>1
    <3> DEFINE e == i - Lo
    <3>1. e \in Nat /\ i = Lo + e
      BY <1>3
    <3> HIDE DEF e
    <3>2. e < n * b <=> e \div n < b
      BY <1>6, <2>4, <3>1, BelowMultiple
    <3>3. i < LastOf <=> e < n * b
      BY <1>3, <2>4, <3>1
    <3> QED
      BY <3>2, <3>3 DEF e
  <2>7. \A D : \A i \in Nat : i \in Wanted(D) <=> i \in {r.at : r \in D} /\ FirstOf <= i /\ i < LastOf
    BY <2>5, <2>6
  <2> QED
    BY <1>4, <1>5, <2>7
<1> QED
  BY <1>7, <1>8

LEMMA ExactBuckets ==
  ASSUME DataAssumption, DataInv, stage = "answered", PlainQuery, asked.op \in Aggregates,
         NEW s, NEW R, NEW P, AnsweredFrom(s, R, P)
  PROVE  AsWanted(s)
<1> DEFINE Q == Response(R)
           K == Kept(P, query.limit)
           n == Width
<1>1. /\ s \in Streams /\ R \in SUBSET db[s] /\ earlier[s] \subseteq R
      /\ P \subseteq Q /\ Part(s, R, P)
      /\ \A r \in db[s] : r.time = r.at /\ r.at \in Nat
      /\ \A j : j \in Answered(s) <=> \E x \in K : j \in AtsOf(x)
  BY DEF AnsweredFrom, Part
<1>0. s \notin cut => P = Q
  BY DEF AnsweredFrom, Part
<1>2. query.op \in Aggregates
  BY DEF DataInv, Asked
<1>3. n \in Nat /\ n > 0 /\ FirstOf \in Int /\ LastOf \in Int /\ Aligned(LastOf, n, FirstOf)
  BY <1>2, Spans
<1>4. /\ K \subseteq P /\ (asked.limit <= 0 => K = P) /\ (P # {} => K # {})
      /\ \A x \in K, y \in P \ K : x.time <= y.time
  BY <1>1, KeptOf
<1>5. \A x \in Q : Bucket(x, R)
  BY <1>1, <1>2, ResponseType
<1>6. \A r \in R : FirstOf <= r.time /\ r.time < LastOf =>
        \E x \in Q : x.from <= r.time /\ r.time < x.from + n
  <2>1. Q = Buckets(R, n, FirstOf, LastOf)
    BY <1>2, Spans
  <2>2. IsFiniteSet(R) /\ \A r \in R : r.time \in Int
    BY <1>1, HeldType
  <2> HIDE DEF Q, n
  <2> QED
    BY <1>3, <2>1, <2>2, BucketsOf
<1>7. /\ \A b \in Answers(s) : \E x \in K : b.from = x.from /\ b.ats = x.ats
      /\ \A j : j \in Answered(s) <=> \E x \in K : j \in x.ats
  BY <1>1, <1>2 DEF AnsweredFrom, AtsOf
<1>8. /\ n = Size
      /\ \A D : \A i \in Nat : i \in Wanted(D) <=> i \in {r.at : r \in D} /\ FirstOf <= i /\ i < LastOf
      /\ \A D : Wanted(D) \subseteq {r.at : r \in D}
  BY WholeBuckets
<1>9. \A x \in Q : /\ x.from \in Int /\ x.time = x.from /\ FirstOf <= x.from /\ x.from + n <= LastOf
                   /\ x.ats = {r.at : r \in InSpan(R, x.from, n)} /\ Aligned(x.from, n, FirstOf)
                   /\ x = [from |-> x.from, time |-> x.from, ats |-> {r.at : r \in InSpan(R, x.from, n)}]
  <2> HIDE DEF Q
  <2> SUFFICES ASSUME NEW x \in Q
               PROVE  /\ x.from \in Int /\ x.time = x.from /\ FirstOf <= x.from /\ x.from + n <= LastOf
                      /\ x.ats = {r.at : r \in InSpan(R, x.from, n)} /\ Aligned(x.from, n, FirstOf)
                      /\ x = [from |-> x.from, time |-> x.from, ats |-> {r.at : r \in InSpan(R, x.from, n)}]
    OBVIOUS
  <2>1. Bucket(x, R)
    BY <1>5
  <2> DEFINE c == {r.at : r \in InSpan(R, x.from, n)}
  <2>2. x = [from |-> x.from, time |-> x.from, ats |-> c]
    BY <2>1 DEF Bucket
  <2> HIDE DEF c
  <2>3. x.time = x.from /\ x.ats = c
    BY <2>2
  <2> QED
    BY <2>1, <2>2, <2>3 DEF Bucket, c
<1> HIDE DEF Q, K, n
<1>10. \A x \in Q : \A j : j \in x.ats <=> \E r \in R : r.at = j /\ x.from <= j /\ j < x.from + n
  BY <1>1, <1>9 DEF InSpan
<1>11. \A r \in R : FirstOf <= r.at /\ r.at < LastOf => \E x \in Q : r.at \in x.ats
  <2> SUFFICES ASSUME NEW r \in R, FirstOf <= r.at, r.at < LastOf PROVE \E x \in Q : r.at \in x.ats
    OBVIOUS
  <2>1. r.time = r.at
    BY <1>1
  <2>2. PICK x \in Q : x.from <= r.at /\ r.at < x.from + n
    BY <1>6, <2>1
  <2> QED
    BY <1>10, <2>2
<1>12. \A x, y \in Q : x.from < y.from => x.from + n <= y.from
  BY <1>3, <1>9, AlignedApart
<1>13. \A x, y \in Q : x.from = y.from => x = y
  <2> SUFFICES ASSUME NEW x \in Q, NEW y \in Q, x.from = y.from PROVE x = y
    OBVIOUS
  <2> DEFINE made(b) == [from |-> b, time |-> b, ats |-> {r.at : r \in InSpan(R, b, n)}]
  <2>1. x = made(x.from) /\ y = made(y.from)
    BY <1>9
  <2>2. made(x.from) = made(y.from)
    OBVIOUS
  <2> HIDE DEF made
  <2> QED
    BY <2>1, <2>2
<1>14. \A i \in Wanted(earlier[s]) : i \in Nat /\ \E x \in Q : i \in x.ats
  <2> SUFFICES ASSUME NEW i \in Wanted(earlier[s]) PROVE i \in Nat /\ \E x \in Q : i \in x.ats
    OBVIOUS
  <2>1. PICK r \in earlier[s] : i = r.at
    BY <1>8
  <2>2. r \in R /\ i \in Nat
    BY <1>1, <2>1
  <2>3. FirstOf <= i /\ i < LastOf
    BY <1>8, <2>2
  <2> QED
    BY <1>11, <2>1, <2>2, <2>3
<1>15. OnlyWanted(s)
  <2> SUFFICES ASSUME NEW j \in Answered(s) PROVE j \in Wanted(db[s])
    BY DEF OnlyWanted
  <2>1. PICK x \in K : j \in x.ats
    BY <1>7
  <2>2. x \in Q
    BY <1>1, <1>4
  <2>3. PICK r \in R : r.at = j /\ x.from <= j /\ j < x.from + n
    BY <1>10, <2>1, <2>2
  <2>4. r \in db[s] /\ j \in Nat
    BY <1>1, <2>3
  <2>5. x.from \in Int /\ FirstOf <= x.from /\ x.from + n <= LastOf
    BY <1>9, <2>2
  <2>6. FirstOf <= j /\ j < LastOf
    BY <1>3, <2>3, <2>4, <2>5
  <2> QED
    BY <1>8, <2>3, <2>4, <2>6
<1>16. s \notin cut => AllWanted(s)
  BY <1>0, <1>4, <1>7, <1>14 DEF AllWanted
<1>17. ASSUME s \notin cut PROVE Nearest(s)
  <2>0. P = Q
    BY <1>0, <1>17
  <2> SUFFICES ASSUME NEW i \in Wanted(earlier[s]), i \notin Answered(s)
               PROVE  Answered(s) # {} /\ \A j \in Answered(s) : j < i
    BY DEF Nearest, Aggregates
  <2>1. PICK y \in Q : i \in y.ats
    BY <1>14
  <2>2. y \notin K /\ i \in Nat
    BY <1>7, <1>14, <2>1
  <2>3. ASSUME NEW x \in K, NEW j \in x.ats PROVE j < i
    <3>1. x \in Q /\ x.time <= y.time /\ x # y
      BY <1>4, <2>0, <2>2
    <3>2. x.from \in Int /\ y.from \in Int /\ x.from <= y.from /\ x.from # y.from
      BY <1>9, <1>13, <3>1
    <3>3. x.from + n <= y.from
      BY <1>12, <3>1, <3>2
    <3>4. y.from <= i
      BY <1>10, <2>1
    <3>5. j < x.from + n /\ j \in Nat
      BY <1>1, <1>10, <2>3, <3>1
    <3> QED
      BY <1>3, <2>2, <3>2, <3>3, <3>4, <3>5
  <2>4. Answered(s) # {}
    <3>1. PICK x \in K : TRUE
      BY <1>4, <2>0, <2>1
    <3>2. x \in Q
      BY <1>4, <2>0
    <3>3. PICK r \in R : x.from <= r.time /\ r.time < x.from + n
      BY <1>5, <3>2 DEF Bucket, n
    <3>4. r.time = r.at
      BY <1>1
    <3>5. r.at \in x.ats
      BY <1>10, <3>2, <3>3, <3>4
    <3> QED
      BY <1>7, <3>1, <3>5
  <2> QED
    BY <1>7, <2>3, <2>4
<1>18. Bucketed(s)
  <2> SUFFICES ASSUME NEW b \in Answers(s)
               PROVE  LET span == b.from .. b.from + Size - 1
                      IN  b.ats \subseteq span /\ {r.at : r \in earlier[s]} \cap span \subseteq b.ats
    BY DEF Bucketed
  <2>1. PICK x \in K : b.from = x.from /\ b.ats = x.ats
    BY <1>7
  <2>2. x \in Q /\ x.from \in Int
    BY <1>1, <1>4, <1>9
  <2>3. ASSUME NEW j \in b.ats PROVE j \in b.from .. b.from + Size - 1
    <3>1. PICK r \in R : r.at = j /\ x.from <= j /\ j < x.from + n
      BY <1>10, <2>1, <2>2, <2>3
    <3>2. j \in Nat
      BY <1>1, <3>1
    <3> QED
      BY <1>3, <1>8, <2>1, <2>2, <3>1, <3>2
  <2>4. ASSUME NEW r \in earlier[s], r.at \in b.from .. b.from + Size - 1 PROVE r.at \in b.ats
    <3>1. r \in R /\ r.at \in Nat
      BY <1>1
    <3>2. x.from <= r.at /\ r.at < x.from + n
      BY <1>3, <1>8, <2>1, <2>2, <2>4, <3>1
    <3> QED
      BY <1>10, <2>1, <2>2, <3>1, <3>2
  <2> QED
    BY <2>3, <2>4
<1> QED
  BY <1>15, <1>16, <1>17, <1>18 DEF AsWanted

(* Of readings of today, whatever their number and wherever the fetches of *)
(* a query come among the messages that add more, a plain query answers    *)
(* for every stream stored under its instants with nothing but what is     *)
(* there, in the range from its start up to its end; and, unless BtrDB     *)
(* failed in the middle of the stream, with all of that that was there     *)
(* when the query began, or what is nearest of it (prepareDataParams,      *)
(* packResults and packStatsResults, api.go:117-185, between which         *)
(* quasarProvider.go:113 and btrdbProvider.go:108 fetch).                  *)
THEOREM AnswersAreExact == ASSUME InstantsOfToday PROVE DataSpec => []AnswerIsExact
<1>1. DataInv => AnswerIsExact
  <2> SUFFICES ASSUME DataInv, stage = "answered", PlainQuery,
                      NEW s \in Range(uuids), StoredAtInstant(s)
               PROVE  AsWanted(s)
    BY DEF AnswerIsExact, AsWanted
  <2>1. PICK R, Q : AnsweredFrom(s, R, Q)
    BY DataAssumption, InstantsOfToday, ToldToday
  <2>2. asked.op \in {"in", "before", "after"} \cup Aggregates
    BY DataAssumption DEF DataInv, Asked, DataAssumption, QueryType
  <2> QED
    BY <2>1, <2>2, DataAssumption, ExactIn, ExactBefore, ExactAfter, ExactBuckets
<1> QED
  BY <1>1, DataInvHolds, PTL

=============================================================================

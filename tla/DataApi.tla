------------------------------- MODULE DataApi -------------------------------
(***************************************************************************)
(* Readings on their way into the time series database and out of it: the  *)
(* units of time that AddMessage, the data queries of archiver/api.go and  *)
(* packResults guess and convert (common/time.go, util.go, reading.go),    *)
(* over Quasar and over BtrDB.  Queries share no state, so there is one at *)
(* a time, and readings are added at any moment of it.                     *)
(*                                                                         *)
(* The databases themselves are external.  They keep readings by a signed  *)
(* time and answer in its order, or with what a bucket of readings amounts *)
(* to.  The WHERE clause selects every stream.  Values are left out.       *)
(***************************************************************************)
EXTENDS Integers, FiniteSets, Sequences, SequencesExt

CONSTANTS
  Backends,     \* databases to consider, of "quasar" and "btrdb"
  Streams,
  StreamUnits,  \* units that streams may report in
  Factor,       \* 1000: from one unit to the next
  MsLow,        \* 2 << 39: the least time taken for milliseconds
  UsLow,        \* 2 << 50: for microseconds
  NsLow,        \* 2 << 58: for nanoseconds
  Word,         \* 2^64
  Byte,         \* 2^8
  Instants,     \* when readings are taken, in nanoseconds
  Queries       \* parsed data queries

NS == 1
US == 2
MS == 3
S  == 4

multiplier == <<Factor * Factor * Factor, Factor * Factor, Factor, 1>>

(* A statistical query has a width, the logarithm of the size of a bucket; *)
(* a window query has the size itself.                                     *)
Aggregates == {"statistical", "window"}

QueryType == [op : {"in", "before", "after"} \cup Aggregates, start : Nat, end : Nat,
              width : Nat, limit : Int, streamlimit : Int, timeconv : NS..S]

ASSUME DataAssumption ==
  /\ IsFiniteSet(Streams)
  /\ Backends \subseteq {"quasar", "btrdb"}
  /\ StreamUnits \subseteq NS..S
  /\ Factor \in Nat /\ Factor > 1
  /\ {MsLow, UsLow, NsLow, Word, Byte} \subseteq Nat /\ Byte > 0
  /\ 0 < MsLow /\ MsLow < UsLow /\ UsLow < NsLow /\ NsLow < Word
  /\ Word % 2 = 0 /\ \A n \in 0..(Byte - 1) : 2^n \in Nat \ {0}
  /\ Instants \subseteq 0..(Word - 1)
  /\ Queries \subseteq QueryType
  /\ \A q \in Queries : /\ q.start < Word /\ q.end < Word
                        /\ q.op = "window" => q.width > 0

VARIABLES
  backend,    \* the database, never changed
  unitOf,     \* unit of each stream's readings, never changed
  db,         \* readings of each stream in the database
  stage,      \* where the query stands
  asked,      \* the query as it was parsed
  query,      \* the query with its times prepared
  uuids,      \* the streams it selects, in the metadata store's order
  ret,        \* responses so far, one for each of the first streams
  result,     \* the answer: messages, each of a stream and its readings
  earlier,    \* the database when the query began
  cut         \* streams whose response was cut short

dataVars == <<backend, unitOf, db, stage, asked, query, uuids, ret, result, earlier, cut>>

DataInit ==
  /\ backend \in Backends
  /\ unitOf \in [Streams -> StreamUnits]
  /\ db = [s \in Streams |-> {}]
  /\ stage = "idle"
  /\ asked \in Queries /\ query = asked
  /\ uuids = <<>> /\ ret = <<>> /\ result = {}
  /\ earlier = db /\ cut = {}

-----------------------------------------------------------------------------
(* Time.                                                                   *)

GuessTimeUnit(t) ==
  CASE t < MsLow -> S
    [] t >= MsLow /\ t < UsLow -> MS
    [] t >= UsLow /\ t < NsLow -> US
    [] t >= NsLow -> NS

ConvertTime_Rounds(t, from, to) ==
  IF to <= from
    THEN [time |-> t * (multiplier[to] \div multiplier[from]), ok |-> TRUE]
    ELSE [time |-> t \div (multiplier[from] \div multiplier[to]) + 1, ok |-> TRUE]

(* The converted time, or if that is found to be wrong, the time as it was. *)
ConvertTime(t, from, to) ==
  LET finer   == (t * (multiplier[to] \div multiplier[from])) % Word
      coarser == t \div (multiplier[from] \div multiplier[to])
  IN  CASE to = from -> [time |-> t, ok |-> TRUE]
        [] to < from -> [time |-> IF finer < t THEN t ELSE finer, ok |-> finer >= t]
        [] to > from -> [time |-> IF coarser > t THEN t ELSE coarser, ok |-> coarser <= t]

(* From whatever unit the time seems to have. *)
Guessed(t, to) == ConvertTime(t, GuessTimeUnit(t), to)

(* Reading.ConvertTime; nobody looks at its error. *)
ConvertReading(r, to) == [r EXCEPT !.time = Guessed(@, to).time]

int64(t) == IF t >= Word \div 2 THEN t - Word ELSE t
uint64(t) == t % Word
uint8(n) == n % Byte

-----------------------------------------------------------------------------
(* Adding.                                                                 *)

(* Nanoseconds in a unit. *)
Nanos(u) == multiplier[NS] \div multiplier[u]

Expressible(s) == {i \in Instants : i % Nanos(unitOf[s]) = 0}

(* What stream s reports of instant i. *)
Reported(s, i) == [at |-> i, time |-> i \div Nanos(unitOf[s])]

Written_Unsigned(r) == IF backend = "btrdb" THEN ConvertReading(r, NS).time ELSE r.time

(* The time that the database's client writes for a reading: Quasar's as   *)
(* it came, BtrDB's converted from what it seems to be.                    *)
Written(r) == int64(IF backend = "btrdb" THEN ConvertReading(r, NS).time ELSE r.time)

(* AddMessage, for a message of one reading or two, as AddData calls it.   *)
(* The unit that AddData has set in the readings is not looked at.  A      *)
(* message with an object, or a failing database, changes nothing.         *)
AddMessage ==
  /\ \E s \in Streams : \E i, j \in Expressible(s) :
       db' = [db EXCEPT ![s] = @ \cup
               {[at |-> r.at, time |-> Written(r)] : r \in {Reported(s, i), Reported(s, j)}}]
  /\ UNCHANGED <<backend, unitOf, stage, asked, query, uuids, ret, result, earlier, cut>>

-----------------------------------------------------------------------------
(* A query.                                                                *)

Prepared(q) ==
  LET start == Guessed(q.start, NS)
      end   == Guessed(q.end, NS)
      swap  == q.op \in {"in"} \cup Aggregates /\ end.time < start.time
  IN  [ok    |-> start.ok /\ end.ok,
       query |-> [q EXCEPT !.start = IF swap THEN end.time ELSE start.time,
                           !.end   = IF swap THEN start.time ELSE end.time]]

Limited(seq, limit) ==
  IF limit > 0 /\ Len(seq) > limit THEN SubSeq(seq, 1, limit) ELSE seq

(* prepareDataParams; the lookup of streams or a conversion may fail. *)
Begin ==
  /\ stage = "idle"
  /\ earlier' = db
  /\ \/ /\ Prepared(asked).ok
        /\ \E order \in SetToSeqs(Streams) : uuids' = Limited(order, asked.streamlimit)
        /\ query' = Prepared(asked).query
        /\ stage' = "fetch"
     \/ stage' = "failed" /\ UNCHANGED <<query, uuids>>
  /\ UNCHANGED <<backend, unitOf, db, asked, ret, result, cut>>

(* The buckets of a size, from one time up to another, that have readings. *)
(* Of what the database tells about a bucket the model keeps the instants  *)
(* of its readings.                                                        *)
Buckets(readings, size, first, last) ==
  LET inside == {r \in readings : first <= r.time /\ r.time < last}
      start(r) == r.time - ((r.time - first) % size)
  IN  {[from |-> b, time |-> b, ats |-> {r.at : r \in {x \in inside : start(x) = b}}] : b \in {start(r) : r \in inside}}

(* What the database answers: the readings from start up to end; the       *)
(* nearest one before start or from start on; whole buckets, which start   *)
(* at multiples of their size, or one after the other at the start.        *)
Response(readings) ==
  LET start  == int64(query.start)
      end    == int64(query.end)
      before == {r \in readings : r.time < start}
      after  == readings \ before
      size   == 2^uint8(query.width)
  IN  CASE query.op = "in"     -> {r \in after : r.time < end}
        [] query.op = "before" -> {r \in before : \A x \in before : x.time <= r.time}
        [] query.op = "after"  -> {r \in after : \A x \in after : x.time >= r.time}
        [] query.op = "statistical" -> Buckets(readings, size, start - (start % size), end - (end % size))
        [] query.op = "window" -> Buckets(readings, query.width, start, end - ((end - start) % query.width))

(* Quasar answers both kinds with statistical records, and its client's    *)
(* receiveStats takes none but plain ones.                                 *)
Readable == backend = "quasar" => query.op \notin Aggregates

(* What the client receives.  Readings come in the order of time, and when *)
(* BtrDB fails among them, its client's third result tells of it, which    *)
(* nobody reads. *)
Received(response) ==
  {response} \cup
    IF backend = "quasar" THEN {} ELSE {{r \in response : r.time < x.time} : x \in response}

Fetch_FromFirst ==
  /\ stage = "fetch" /\ Len(ret) < Len(uuids)
  /\ ret' = Append(ret, Response(db[uuids[1]]))
  /\ UNCHANGED <<backend, unitOf, db, stage, asked, query, uuids, result, earlier, cut>>

(* One round of the loop of GetData, queryNearestValue, StatisticalData or *)
(* WindowData.  An error that the client returns makes the query fail,     *)
(* whatever was fetched.                                                   *)
Fetch ==
  /\ stage = "fetch" /\ Len(ret) < Len(uuids)
  /\ \/ /\ Readable
        /\ LET s == uuids[Len(ret) + 1] IN
             \E received \in Received(Response(db[s])) :
               /\ ret' = Append(ret, received)
               /\ cut' = IF received = Response(db[s]) THEN cut ELSE cut \cup {s}
        /\ UNCHANGED stage
     \/ stage' = "failed" /\ UNCHANGED <<ret, cut>>
  /\ UNCHANGED <<backend, unitOf, db, asked, query, uuids, result, earlier>>

InTimeOrder(readings) ==
  CHOOSE seq \in SetToSeqs(readings) :
    \A i, j \in DOMAIN seq : i <= j => seq[i].time <= seq[j].time

(* The readings or buckets of a response, converted, and as many as were   *)
(* asked for.                                                              *)
Packed(response) ==
  LET readings == Limited(InTimeOrder(response), query.limit)
  IN  [i \in DOMAIN readings |-> ConvertReading([readings[i] EXCEPT !.time = uint64(@)], query.timeconv)]

(* packResults and packStatsResults leave out streams without readings;    *)
(* the messages are in the order of the fetches, which nothing looks at. *)
Pack ==
  /\ stage = "fetch" /\ Len(ret) = Len(uuids)
  /\ result' = {[uuid |-> uuids[i], readings |-> Packed(ret[i])] :
                  i \in {j \in DOMAIN ret : ret[j] # {}}}
  /\ stage' = "answered"
  /\ UNCHANGED <<backend, unitOf, db, asked, query, uuids, ret, earlier, cut>>

-----------------------------------------------------------------------------

DataNext == AddMessage \/ Begin \/ Fetch \/ Pack

DataSpec == DataInit /\ [][DataNext]_dataVars

-----------------------------------------------------------------------------
(* Properties.                                                             *)

(* Every variable holds what its Go type allows: unsigned times in queries *)
(* and messages, signed ones in the database.                              *)
DataTypeOK ==
  /\ backend \in Backends /\ unitOf \in [Streams -> StreamUnits]
  /\ \A s \in Streams : \A r \in db[s] \cup earlier[s] :
       r.at \in Instants /\ r.time \in (0 - Word \div 2)..(Word \div 2 - 1)
  /\ stage \in {"idle", "fetch", "answered", "failed"}
  /\ asked \in Queries
  /\ query \in QueryType /\ query.start < Word /\ query.end < Word
  /\ Range(uuids) \subseteq Streams /\ IsInjective(uuids)
  /\ Len(ret) <= Len(uuids) /\ cut \subseteq Range(uuids)
  /\ \A msg \in result :
       msg.uuid \in Range(uuids) /\ \A r \in Range(msg.readings) : r.time \in 0..(Word - 1)

(* Readings are of times whose unit is guessed right, whichever a stream   *)
(* reports in: from April 1988 on in nanoseconds, from November 2004 on in *)
(* milliseconds too.  Only microseconds are taken for milliseconds.        *)
InstantsOfToday ==
  \A i \in Instants :
    /\ i < Word \div 2
    /\ \A u \in (NS..S) \ {US} : i % Nanos(u) = 0 => GuessTimeUnit(i \div Nanos(u)) = u

(* The streams whose readings are stored under the instants they were      *)
(* taken at.  Quasar's client stores times as they come; BtrDB's client    *)
(* converts what it guesses, and takes present microseconds for ms.        *)
StoredAtInstant(s) == IF backend = "quasar" THEN unitOf[s] = NS ELSE unitOf[s] # US

(* The times of the query are not taken for times in another unit, nor for *)
(* some before 1970, and the width of its buckets fits a byte. *)
PlainQuery ==
  /\ asked.start \in NsLow..(Word \div 2 - 1)
  /\ asked.op \notin {"before", "after"} => asked.end \in NsLow..(Word \div 2 - 1)
  /\ asked.op = "statistical" => asked.width < Byte

Ats(r) == IF asked.op \in Aggregates THEN r.ats ELSE {r.at}

(* Instants of the readings of s that are, and that should be, answered. *)
Answers(s) == UNION {Range(msg.readings) : msg \in {m \in result : m.uuid = s}}
Answered(s) == UNION {Ats(r) : r \in Answers(s)}

(* params.go:73: a width of X asks for buckets of 1 << X nanoseconds. *)
Size == IF asked.op = "statistical" THEN 2^asked.width ELSE asked.width

Wanted(readings) ==
  LET ats    == {r.at : r \in readings}
      before == {i \in ats : i < asked.start}
      lo     == IF asked.end < asked.start THEN asked.end ELSE asked.start
      hi     == IF asked.end < asked.start THEN asked.start ELSE asked.end
  IN  CASE asked.op = "in"     -> {i \in ats : lo <= i /\ i < hi}
        [] asked.op = "before" -> before
        [] asked.op = "after"  -> ats \ before
        [] asked.op = "statistical" -> {i \in ats : i \div Size \in lo \div Size .. (hi \div Size) - 1}
        [] asked.op = "window" -> {i \in ats : lo <= i /\ (i - lo) \div Size < (hi - lo) \div Size}

(* An answer has nothing that is not in the database, in the range that    *)
(* the query named, and leaves out nothing that was there when the query   *)
(* began, though readings arrive between the fetches of its streams.       *)
OnlyWanted(s) == Answered(s) \subseteq Wanted(db[s])
AllWanted(s) ==
  asked.op \notin {"before", "after"} /\ asked.limit <= 0 => Wanted(earlier[s]) \subseteq Answered(s)

(* What is left out of an answer because of a limit, or because only the   *)
(* nearest reading was asked for, is farther from the start of the query   *)
(* than what is in it; and something is in it if there is something.       *)
Nearest(s) ==
  \A i \in Wanted(earlier[s]) \ Answered(s) :
    /\ Answered(s) # {}
    /\ \A j \in Answered(s) : IF asked.op = "before" THEN j > i ELSE j < i

(* A bucket tells of the readings of its span, and of all of them. *)
Bucketed(s) ==
  asked.op \in Aggregates =>
    \A b \in Answers(s) :
      LET span == b.from .. b.from + Size - 1
      IN  b.ats \subseteq span /\ {r.at : r \in earlier[s]} \cap span \subseteq b.ats

(* api.go:20-21: the readings within the range given, from its start up to *)
(* but without its end, are selected, up to the limit or in whole buckets; *)
(* if an answer is not complete, BtrDB has failed in the middle of it.     *)
AnswerIsExact ==
  stage = "answered" /\ PlainQuery =>
    \A s \in Range(uuids) : StoredAtInstant(s) =>
      /\ OnlyWanted(s)
      /\ s \notin cut => AllWanted(s) /\ Nearest(s) /\ Bucketed(s)

(* params.go:69: readings are answered in the unit that the query names,   *)
(* whichever unit they came in, and the starts of buckets in the same; but *)
(* microseconds are taken for ms, and a bucket that starts before April    *)
(* 1988 for one in another unit.                                           *)
TimesAreConverted ==
  \A msg \in result : unitOf[msg.uuid] # US =>
    \A r \in Range(msg.readings) :
      LET instant == IF asked.op \in Aggregates THEN r.from ELSE r.at
      IN  instant >= NsLow => r.time = instant \div Nanos(asked.timeconv)

(* api.go:20-21, whatever the unit of a stream. *)
UnitsAreHonoured ==
  stage = "answered" /\ PlainQuery =>
    \A s \in Range(uuids) \ cut : OnlyWanted(s) /\ AllWanted(s)

(* api.go:20-21, whatever the database does: a query that is answered is   *)
(* answered in full.                                                       *)
AnswersAreComplete ==
  stage = "answered" /\ PlainQuery => \A s \in Range(uuids) : StoredAtInstant(s) => AllWanted(s)

(* params.go:67: the end of the range is inclusive.                        *)
EndIsIncluded ==
  stage = "answered" /\ PlainQuery /\ asked.op = "in" /\ asked.limit <= 0 =>
    \A s \in Range(uuids) \ cut : StoredAtInstant(s) =>
      \A r \in earlier[s] : r.at = asked.end => r.at \in Answered(s)

(* api.go:131: the times of a query are in nanoseconds, and stay so. *)
TimesStayInNanoseconds ==
  stage # "idle" => {query.start, query.end} = {asked.start, asked.end}

(* params.go:73, of every width: the clients of both databases cut it to a *)
(* byte.                                                                   *)
WidthsAreHonoured ==
  stage = "answered" => \A s \in Range(uuids) \ cut : StoredAtInstant(s) => Bucketed(s)

(* params.go:62-63: a limited answer has the most recent readings. *)
MostRecentAreAnswered ==
  stage = "answered" /\ PlainQuery /\ asked.op = "in" =>
    \A s \in Range(uuids) \ cut : StoredAtInstant(s) =>
      \A i \in Wanted(earlier[s]) \ Answered(s), j \in Answered(s) : i < j

=============================================================================

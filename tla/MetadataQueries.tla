-------------------------- MODULE MetadataQueries --------------------------
(***************************************************************************)
(* Queries and subscriptions as the adapters hand them to the archiver,    *)
(* their evaluation, and the documents of the metadata store that they     *)
(* read and update.  A client says the statements of a script, one after   *)
(* the other.  A document is a function from keys to values: the key       *)
(* Metadata.Loc|City is <<"Metadata", ".", "Loc", "|", "City">>, a field   *)
(* "Loc|City" inside of "Metadata"; a tag is a sequence of segments.  The  *)
(* tag of nested dictionaries has a message's key with dots (flatten); a   *)
(* client may as well put a slash into a key, and the MsgPack adapter      *)
(* makes it a bar (getMetadata).  MongoDB itself is external.              *)
(***************************************************************************)
EXTENDS QueryLanguage, QueryMeaning, Functions, FiniteSets

CONSTANTS
  Described,  \* what the messages said of each stream: a function from their keys to values
  Scripts,    \* sequences of sayings: the tokens, and the statement that they spell if they spell one
  Buffer      \* the longest text that an adapter reads (1024 bytes in the code)

ASSUME ScriptsAssumption ==
  /\ Buffer \in Nat
  /\ \A s \in Scripts : \A i, j \in DOMAIN s :
       Len(s[i].st) <= 1 /\ (s[i].tokens = s[j].tokens => i = j)   \* no text is subscribed to twice

Streams == DOMAIN Described

VARIABLES
  docs,     \* the metadata collection
  script,   \* what the client has still to say
  asked,    \* the request in hand: what was said, how it came, how much of it was lost
  before,   \* the documents when the request came
  result,   \* the last answer
  pc        \* "idle", "asked", or "down" when the process has died

vars == <<parsing, docs, script, asked, before, result, pc>>

-----------------------------------------------------------------------------
(* Tags and keys *)

Separators == {".", "|", "/"}
Segments(key) == SelectSeq(key, LAMBDA c : c \notin Separators)

Joined(segments, sep) ==
  [i \in 1 .. 2 * Len(segments) - 1 |-> IF i % 2 = 1 THEN segments[(i + 1) \div 2] ELSE sep]

Dotted(tag) == Joined(tag, ".")

(* A number in a message, and its digits; the language has only texts. *)
Numeric(digits) == << <<"number">>, digits>>
IsNumeric(v)    == Len(v) = 2 /\ v[1] = <<"number">>
Text(v)         == IF IsNumeric(v) THEN v[2] ELSE v

(* The field in which SmapMessage.ToBson puts what a message has under a   *)
(* key: fixKey replaces dots only. *)
StoreKey(key) ==
  IF Head(key) \in Spaces
  THEN <<Head(key), ".">> \o [i \in 1 .. Len(key) - 2 |-> IF key[i + 2] = "." THEN "|" ELSE key[i + 2]]
  ELSE key

ToBson(facts) ==
  [k \in {StoreKey(key) : key \in DOMAIN facts} |-> facts[CHOOSE key \in DOMAIN facts : StoreKey(key) = k]]

(* The name under which the broker looks up the queries that watch what a  *)
(* message has under a key. *)
IndexKey(key) == key

(* The field that a key names lies inside of the one that another names. *)
Below(k, key) == Len(k) > Len(key) /\ SubSeq(k, 1, Len(key)) = key /\ k[Len(key) + 1] = "."

-----------------------------------------------------------------------------
(* The metadata store *)

Present(doc, key) == \E k \in DOMAIN doc : k = key \/ Below(k, key)

RECURSIVE Meets(_, _, _)
Meets(doc, key, c) ==
  LET equals(x) == key \in DOMAIN doc /\ doc[key] = x
  IN CASE c.op = "="       -> equals(c.arg)
       [] c.op = "$regex"  -> key \in DOMAIN doc /\ <<c.arg, doc[key]>> \in Matches
       [] c.op = "$exists" -> Present(doc, key)
       [] c.op = "$in"     -> \E x \in Range(c.arg) : equals(x)
       [] c.op = "$not"    -> ~Meets(doc, key, c.arg)
       [] c.op = "$ne"     -> ~(c.arg.op = "=" /\ equals(c.arg.arg))   \* a dictionary equals no value

RECURSIVE Satisfies(_, _)
Satisfies(doc, where) ==
  \A k \in DOMAIN where :
    CASE k = <<"$and">> -> \A d \in Range(where[k].arg) : Satisfies(doc, d)
      [] k = <<"$or">>  -> \E d \in Range(where[k].arg) : Satisfies(doc, d)
      [] OTHER          -> Meets(doc, k, where[k])

(* MongoDB has no operator $neq, and refuses a query that uses it. *)
RECURSIVE Understood(_)
Understood(where) ==
  \A k \in DOMAIN where :
    IF k \in {<<"$and">>, <<"$or">>} THEN \A d \in Range(where[k].arg) : Understood(d)
    ELSE where[k].op # "$neq"

Found(where) == {u \in Streams : Satisfies(docs[u], where)}

(* MongoDB's projection leaves an empty subdocument where no field of it   *)
(* was asked for by its name. *)
Projected(doc, targets) ==
  LET names  == {fixMongoKey(t) : t \in Range(targets)}
      fields == {k \in DOMAIN doc : targets = Nil \/ \E n \in names : k = n \/ Below(k, n)}
  IN [fields |-> Restrict(doc, fields),
      spaces |-> {Head(n) : n \in {m \in names : Present(doc, <<Head(m)>>)}} \ {<<"uuid">>, <<"Path">>}]

(* What SmapMessageFromBson keeps of a document.  The unit of time and the *)
(* type of the stream come back as integers, never as the types that it    *)
(* asserts: every stream reads as one of milliseconds and numbers. *)
Kept(k) ==
  \/ Head(k) \in {"Metadata", "Actuator"}
  \/ k \in {<<"uuid">>, <<"Path">>, <<"Properties", ".", "UnitofTime">>,
            <<"Properties", ".", "UnitofMeasure">>, <<"Properties", ".", "StreamType">>}

SmapMessageFromBson(fields) ==
  [t \in {Segments(k) : k \in {f \in DOMAIN fields : Kept(f)}} |->
     CASE t = <<"Properties", "UnitofTime">> -> <<"ms">>
       [] t = <<"Properties", "StreamType">> -> <<"numeric">>
       [] OTHER -> fields[CHOOSE k \in DOMAIN fields : Segments(k) = t]]

(* A space that was itself set to a string is no dictionary. *)
Unreadable(fields) == <<"Metadata">> \in DOMAIN fields \/ <<"Actuator">> \in DOMAIN fields

Panic    == [kind |-> "panic"]
Rejected == [kind |-> "rejected"]
Failure  == [kind |-> "error"]
Updated  == [kind |-> "updated"]
Nothing  == [kind |-> "nothing"]

GetTags(tags, where) ==
  LET row(u) == Projected(docs[u], tags)
      rows   == {u \in Found(where) : row(u).fields # Nil \/ row(u).spaces # {}}
  IN IF \E t \in Range(tags) : fixPanics(t) THEN Panic
     ELSE IF ~Understood(where) THEN Failure
     ELSE IF \E u \in rows : Unreadable(row(u).fields) THEN Panic
     ELSE [kind |-> "rows", rows |-> [u \in rows |-> SmapMessageFromBson(row(u).fields)]]

(* A DistinctResult holds strings: what is none is left out. *)
GetDistinct(tag, where) ==
  LET key == fixMongoKey(tag)
  IN IF fixPanics(tag) THEN Panic
     ELSE IF ~Understood(where) THEN Failure
     ELSE [kind |-> "values", values |-> {docs[u][key] : u \in {v \in Found(where) :
                                                          key \in DOMAIN docs[v] /\ ~IsNumeric(docs[v][key])}}]

(* The data functions of the archiver start from the streams that          *)
(* prepareDataParams finds. *)
SelectData(q) ==
  IF ~Understood(q.where) THEN Failure
  ELSE [kind |-> "points",
        call |-> IF q.data.IsStatistical \/ q.data.IsWindow THEN "SelectStatisticalData"
                 ELSE CASE q.data.Dtype = "in" -> "SelectDataRange"
                        [] q.data.Dtype = "before" -> "SelectDataBefore"
                        [] q.data.Dtype = "after" -> "SelectDataAfter",
        streams |-> Found(q.where), params |-> DataParams(q)]

(* $set replaces the fields that it names, with all that is inside them.   *)
UpdateDocs(set, where) ==
  docs' = [u \in Streams |->
             IF ~Satisfies(docs[u], where) THEN docs[u]
             ELSE set @@ Restrict(docs[u], {k \in DOMAIN docs[u] : ~\E s \in DOMAIN set : Below(k, s)})]

-----------------------------------------------------------------------------
(* Requests *)

NoRequest == [st |-> Nil, heard |-> NoText, way |-> "none", via |-> "none", lost |-> 0]

Init ==
  /\ InitParser
  /\ docs = [u \in Streams |-> ToBson(Described[u])]
  /\ before = docs
  /\ script \in Scripts
  /\ asked = NoRequest /\ result = Rejected /\ pc = "idle"

(* The next statement of the script, with or without its semicolon. *)
Spoken == {Head(script).tokens, Append(Head(script).tokens, Semicolon)}

(* What follows "select * where ", the prefix of every republished text. *)
RepublishPrefix == Words(<<"SELECT", "ALL", "WHERE">>)
Clauses ==
  {SubSeq(t, 4, Len(t)) : t \in {x \in Spoken : Len(x) > 3 /\ SubSeq(x, 1, 3) = RepublishPrefix}}

Arrival(tokens, lost, trail) ==
  [heard |-> [tokens |-> SubSeq(tokens, 1, Len(tokens) - lost), trail |-> trail], lost |-> lost]

(* One Read of an HTTP request's body may return only its first part, and  *)
(* leaves the rest of the buffer zero.  A body longer than a buffer is     *)
(* refused. *)
ReadBody(tokens) ==
  {Arrival(tokens, 0, trail) : trail \in {"none", "blank", "newline"}}
    \cup {Arrival(tokens, n, "zeros") : n \in 1 .. Len(tokens) - 1}

(* A TCP adapter passes its whole buffer on; a text that fills it is cut   *)
(* there, and nothing follows it. *)
ReadPacket(tokens) ==
  {Arrival(tokens, n, IF Len(tokens) - n = Buffer THEN "none" ELSE "zeros") :
     n \in {i \in 0 .. Len(tokens) - 1 : Len(tokens) - i <= Buffer}}

Receive(arrival, prefix, way, via) ==
  /\ Parse([arrival.heard EXCEPT !.tokens = prefix \o @])
  /\ asked' = [st |-> Head(script).st, heard |-> [arrival.heard EXCEPT !.tokens = prefix \o @],
               way |-> way, via |-> via, lost |-> arrival.lost]
  /\ before' = docs
  /\ script' = Tail(script)
  /\ pc' = "asked"
  /\ UNCHANGED <<docs, result>>

Idle == pc = "idle" /\ script # Nil

handleSingleQuery ==
  /\ Idle
  /\ \E tokens \in Spoken :
       /\ Len(tokens) <= Buffer
       /\ \E arrival \in ReadBody(tokens) : Receive(arrival, Nil, "query", "http")

handleSubscriber ==
  /\ Idle
  /\ \E tokens \in Spoken :
       /\ Len(tokens) <= Buffer
       /\ \E arrival \in ReadBody(tokens) : Receive(arrival, Nil, "watch", "http")

handleRepublisher ==
  /\ Idle
  /\ \E tokens \in Clauses :
       /\ Len(tokens) <= Buffer
       /\ \E arrival \in ReadBody(tokens) : Receive(arrival, RepublishPrefix, "watch", "http")

(* All three refuse a huge body. *)
Refuse ==
  /\ Idle
  /\ \E tokens \in Spoken : Len(tokens) > Buffer
  /\ script' = Tail(script) /\ result' = Rejected
  /\ asked' = NoRequest
  /\ UNCHANGED <<parsing, docs, before, pc>>

handleQuery ==
  /\ Idle
  /\ \E tokens \in Spoken : \E arrival \in ReadPacket(tokens) : Receive(arrival, Nil, "query", "tcp")

handleSubscribe ==
  /\ Idle
  /\ \E tokens \in Clauses : \E arrival \in ReadPacket(tokens) :
       Receive(arrival, RepublishPrefix, "watch", "tcp")

handleRepublish ==
  /\ Idle
  /\ \E tokens \in Clauses : Receive(Arrival(tokens, 0, "none"), RepublishPrefix, "watch", "websocket")

-----------------------------------------------------------------------------
(* Evaluation *)

(* What evaluateQuery returns.  It refuses every DELETE, and a refused     *)
(* update has no info to log the number of records of. *)
evaluateQuery ==
  CASE query.qtype = "select" ->
         IF ParamsPanic(query) THEN Panic
         ELSE IF query.distinct THEN GetDistinct(query.Contents[1], query.where)
         ELSE GetTags(query.Contents, query.where)
    [] query.qtype = "delete" -> Failure
    [] query.qtype = "set"    -> IF Understood(query.where) THEN Updated ELSE Panic
    [] query.qtype = "data"   -> SelectData(query)
    [] query.qtype = "none"   -> Nothing

Evaluate ==
  IF evaluateQuery = Updated THEN UpdateDocs(query.set, query.where) ELSE UNCHANGED docs

(* A panic ends the process, unless net/http recovers it. *)
Crash ==
  /\ result' = Panic
  /\ pc' = IF asked.via = "tcp" THEN "down" ELSE "idle"
  /\ UNCHANGED docs

Answer(r) == result' = r /\ pc' = "idle"

Respond == pc = "asked" /\ ~Parser!Running(p) /\ UNCHANGED <<parsing, script, asked, before>>

Panicking == p.ret = "panic" \/ (err = "none" /\ evaluateQuery = Panic)

HandleQuery ==
  /\ Respond
  /\ asked.way = "query"
  /\ \/ Panicking /\ Crash
     \/ err # "none" /\ ~Panicking /\ Answer(Rejected) /\ UNCHANGED docs
     \/ err = "none" /\ ~Panicking /\ Answer(evaluateQuery) /\ Evaluate

(* The subscription does not ask for the parser's error.  The broker finds *)
(* the streams, evaluates the query, and files it under its keys unless    *)
(* that failed. *)
HandleNewSubscriber ==
  /\ Respond
  /\ asked.way = "watch"
  /\ \/ (p.ret = "panic" \/ (Understood(query.where) /\ evaluateQuery = Panic)) /\ Crash
     \/ p.ret # "panic" /\ ~Understood(query.where) /\ Answer(Failure) /\ UNCHANGED docs
     \/ /\ p.ret # "panic" /\ Understood(query.where) /\ evaluateQuery # Panic
        /\ Answer([kind |-> "watch", streams |-> Found(query.where),
                   keys |-> IF evaluateQuery = Failure THEN {} ELSE Keys])
        /\ Evaluate

ParserStep == pc = "asked" /\ ParserNext /\ UNCHANGED <<docs, script, asked, before, result, pc>>

Next ==
  \/ handleSingleQuery \/ handleSubscriber \/ handleRepublisher \/ Refuse
  \/ handleQuery \/ handleSubscribe \/ handleRepublish
  \/ ParserStep \/ HandleQuery \/ HandleNewSubscriber

-----------------------------------------------------------------------------
(* What the statements say of the streams *)

Facts(ds) ==
  [u \in Streams |-> [t \in {Segments(k) : k \in DOMAIN ds[u]} |->
                        ds[u][CHOOSE k \in DOMAIN ds[u] : Segments(k) = t]]]

Terms(st)  == Range(st.where.terms)
Tags(st)   == {t.tag : t \in Terms(st)} \cup Range(st.tags) \cup {x.tag : x \in Range(st.sets)}

(* No tag of a stream lies in two fields, and those of the tags that a     *)
(* statement names, and of the tags inside of them, lie where ToBson puts  *)
(* the values of nested dictionaries. *)
IsKeptAsNamed(ds, st) ==
  \A u \in Streams : \A k \in DOMAIN ds[u] :
    /\ \A l \in DOMAIN ds[u] : Segments(l) = Segments(k) => l = k
    /\ (\E t \in Tags(st) : IsPrefix(t, Segments(k))) => k = StoreKey(Dotted(Segments(k)))

(* What a statement compares or tells apart is text. *)
IsKeptAsText(ds, st) ==
  LET compared == {t.tag : t \in Terms(st)} \cup IF st.kind = "distinct" THEN Range(st.tags) ELSE {}
  IN \A u \in Streams : \A k \in DOMAIN ds[u] : Segments(k) \in compared => ~IsNumeric(ds[u][k])

Held(st)   == {u \in Streams : HoldsWhere([t \in DOMAIN Facts(before)[u] |-> Text(Facts(before)[u][t])], st.where)}

Spans ==
  LET each(names, span) == [u \in names |-> span]
  IN each({"ns", "nsec", "nanosecond", "nanoseconds"}, 1) @@ each({"us", "usec", "microsecond", "microseconds"}, Factor)
     @@ each({"ms", "msec", "millisecond", "milliseconds"}, Factor * Factor)
     @@ each({"s", "sec", "second", "seconds"}, Second) @@ each({"m", "min", "minute", "minutes"}, 60 * Second)
     @@ each({"h", "hr", "hour", "hours"}, 3600 * Second) @@ each({"d", "day", "days"}, 24 * 3600 * Second)

(* Nothing longer than a second measures an instant or an answer. *)
Fine == {u \in DOMAIN Spans : Spans[u] <= Second}

Instant(t) ==
  (CASE t.form = "unit"    -> Numbers[t.num].n * Spans[t.unit[1]]
     [] t.form = "seconds" -> Numbers[t.num].n * Second
     [] t.form = "date"    -> Dates[t.num]
     [] t.form = "now"     -> NowTime)
    + FoldLeft(LAMBDA sum, r : sum + Numbers[r.num].n * Spans[r.unit[1]], 0, t.rel)

(* The literals of a statement denote something. *)
TimeIsWellSaid(t) ==
  /\ t.form = "unit" => /\ IsInt(t.num) /\ Numbers[t.num].n >= 0
                        /\ t.unit[1] \in Fine
  /\ t.form = "seconds" => IsInt(t.num)
  /\ t.form = "date" => t.num \in DOMAIN Dates
  /\ \A r \in Range(t.rel) : IsInt(r.num) /\ r.unit[1] \in DOMAIN Spans

Times(d) == IF d.op \in {"before", "after"} THEN {d.start} ELSE {d.start, d.end}

WellSaid(st) ==
  st.kind \in {"data", "deletedata"} =>
    LET d == st.data
    IN /\ \A t \in Times(d) : TimeIsWellSaid(t)
       /\ \A l \in {d.limit.limit, d.limit.stream} : l # Nil => IsInt(l)
       /\ d.limit.unit # Nil => d.limit.unit[1] \in Fine
       /\ d.op \in {"statistical", "statistics", "window"} => IsInt(d.width.num)
       /\ d.op = "window" => d.width.unit[1] \in DOMAIN Spans

(* What the language can say of the store without one of the divergences   *)
(* that the README lists. *)
WellNamed(tag) == Head(tag) \in Spaces => Len(tag) > 1
IsPlain(st) ==
  /\ \A t \in Terms(st) : WellNamed(t.tag) /\ t.form \notin {"neq", "notin"}
  /\ st.where.not => st.where.terms[1].form \in {"eq", "eqnum"}
  /\ \A tag \in Range(st.tags) : WellNamed(tag) /\ tag \notin {<<"Properties", "UnitofTime">>, <<"Properties", "StreamType">>}
  /\ \A x \in Range(st.sets) : WellNamed(x.tag) /\ Len(x.tag) <= 2
  /\ st.kind = "distinct" => st.tags # Nil
  /\ st.kind \in {"data", "deletedata"} => \A t \in Times(st.data) : Instant(t) \in 0 .. (Word \div 2) - 1

RowsSaid(st) ==
  LET named(u) == {t \in DOMAIN Facts(before)[u] : st.tags = Nil \/ t \in Range(st.tags)}
  IN [u \in {v \in Held(st) : named(v) # {}} |-> Restrict(Facts(before)[u], named(u))]

(* Two rows agree but for the properties that are never read back. *)
Agree(rows, said) ==
  LET told(r) == Restrict(r, DOMAIN r \ {<<"Properties", "UnitofTime">>, <<"Properties", "StreamType">>})
  IN /\ {u \in DOMAIN rows : rows[u] # Nil} = DOMAIN said
     /\ \A u \in DOMAIN said : told(rows[u]) = told(said[u])

FactsSaid(st) ==
  [u \in Streams |->
     IF u \notin Held(st) THEN Facts(before)[u]
     ELSE [t \in {x.tag : x \in Range(st.sets)} |->
             LET x == CHOOSE y \in Range(st.sets) : y.tag = t
             IN IF x.form = "list" THEN x.values ELSE x.values[1]] @@ Facts(before)[u]]

DataSaid(d, params) ==
  LET number(l) == IF l = Nil THEN -1 ELSE Numbers[l].n
  IN /\ params.Begin = Instant(d.start)
     /\ d.op \notin {"before", "after"} => params.End = Instant(d.end)
     /\ params.DataLimit = number(d.limit.limit) /\ params.StreamLimit = number(d.limit.stream)
     /\ Spans[params.ConvertToUnit] = IF d.limit.unit = Nil THEN Factor * Factor ELSE Spans[d.limit.unit[1]]
     /\ params.IsStatistical <=> d.op \in {"statistical", "statistics"}
     /\ params.IsStatistical => params.PointWidth = Numbers[d.width.num].n
     /\ params.IsWindow <=> d.op = "window"
     /\ params.IsWindow => params.Width = Numbers[d.width.num].n * Spans[d.width.unit[1]]

DataCall(op) ==
  CASE op \in {"in", "span"} -> "SelectDataRange" [] op = "before" -> "SelectDataBefore"
    [] op = "after" -> "SelectDataAfter" [] OTHER -> "SelectStatisticalData"

-----------------------------------------------------------------------------
(* Properties *)

(* The automaton stays within its tables, the documents within the streams *)
(* and what was said of them. *)
TypeOK ==
  /\ pc \in {"idle", "asked", "down"}
  /\ asked.way \in {"none", "query", "watch"} /\ asked.via \in {"none", "http", "tcp", "websocket"}
  /\ asked.lost \in Nat
  /\ pos \in 1 .. Len(text.tokens) + 1
  /\ p.ret \in {"running", "accepted", "rejected", "panic"}
  /\ \A i \in DOMAIN p.stack : p.stack[i].state \in 0 .. Len(sqPact) - 1
  /\ p.stack = Nil <=> p.ret = "rejected"
  /\ query.qtype \in {"none", "select", "data", "set", "delete"}
  /\ DOMAIN docs = Streams /\ DOMAIN before = Streams
  /\ \A u \in Streams : \A k \in DOMAIN docs[u] : k # Nil

Handled == pc = "idle" /\ asked # NoRequest /\ p.ret # "panic"

(* A text that filled the buffer of a TCP adapter was cut, and goes on. *)
Filled == asked.via = "tcp" /\ asked.heard.trail = "none"

(* What is read of a text: its tokens, and the semicolon that Parse adds   *)
(* to a text without one. *)
Heard ==
  IF asked.heard.trail = "none" /\ Last(asked.heard.tokens) # Semicolon
  THEN Append(asked.heard.tokens, Semicolon) ELSE asked.heard.tokens

(* Exactly the sentences of the grammar whose literals denote something    *)
(* are taken for queries: the automaton of query.go does what the rules of *)
(* query.y say, and a request of which only a part was read is refused, by *)
(* any adapter and wherever it was cut.  The rules have "not" before the   *)
(* first term only (NegatedTermsAreAccepted). *)
OnlyStatementsAreAccepted ==
  Handled /\ asked.heard.trail # "blank" /\ ~Filled =>
    /\ err = "none" <=> /\ IsSentence(Heard)
                        /\ asked.st # Nil => WellSaid(asked.st[1])
    /\ asked.st # Nil /\ asked.lost > 0 => err # "none"

(* What a statement says became of it. *)
DoneAsSaid(st) ==
  /\ st.kind = "set" => Facts(docs) = FactsSaid(st)
  /\ st.kind # "set" => docs = before
  /\ asked.way = "watch" => result.kind = "watch" /\ result.streams = Held(st)
  /\ asked.way = "query" =>
       CASE st.kind = "select" -> result.kind = "rows" /\ Agree(result.rows, RowsSaid(st))
         [] st.kind = "distinct" ->
              /\ result.kind = "values"
              /\ result.values = {RowsSaid(st)[u][t] : u \in DOMAIN RowsSaid(st), t \in Range(st.tags)}
         [] st.kind = "data" ->
              /\ result.kind = "points" /\ result.call = DataCall(st.data.op)
              /\ result.streams = Held(st) /\ DataSaid(st.data, result.params)
         [] st.kind = "set" -> result = Updated
         [] OTHER -> result = Failure

Accepted == Handled /\ asked.st # Nil /\ asked.lost = 0 /\ err = "none"

(* From the words of a statement to the documents and back: what is        *)
(* selected, set, subscribed to or asked of the time series store is what  *)
(* the statement says of the tags of the streams, although tags are stored *)
(* under other names than they are written with (SmapMessage.ToBson,       *)
(* fixMongoKey, cleantagstring), and although the statements before it     *)
(* have changed them.  Left out are statements about a tag that a message  *)
(* spelled with a slash or that a statement put inside of another, and     *)
(* those that compare a number: see SlashedTagsAreFound, NumbersAreFound.  *)
StatementsMeanWhatTheySay ==
  Accepted /\ IsPlain(asked.st[1]) /\ IsKeptAsNamed(before, asked.st[1]) /\ IsKeptAsText(before, asked.st[1])
    => DoneAsSaid(asked.st[1])

RECURSIVE WhereKeys(_)
WhereKeys(where) ==
  UNION {IF k \in {<<"$and">>, <<"$or">>} THEN UNION {WhereKeys(d) : d \in Range(where[k].arg)} ELSE {k} :
           k \in DOMAIN where}

MessageKeys == UNION {DOMAIN Described[u] : u \in Streams}

(* The broker wakes a query by the keys of a message, the store answers it *)
(* by the names of the fields of a document: both are the tags that the    *)
(* subscription was written with, and no other.  A tag with a slash or a   *)
(* bar in its key wakes none at all (SlashedTagsWakeTheirQueries). *)
WatchedTagsAreIndexed ==
  Accepted /\ result.kind = "watch" =>
    LET st   == asked.st[1]
        tags == {t.tag : t \in Terms(st)}
    IN st.kind \in {"select", "distinct"} /\ result.keys # {} =>
         /\ result.keys = {IndexKey(Dotted(t)) : t \in tags \cup Range(st.tags)}
         /\ \A key \in MessageKeys :
              IndexKey(key) \in result.keys <=> key = Dotted(Segments(key)) /\ Segments(key) \in tags \cup Range(st.tags)
         /\ (\A t \in Terms(st) : t.form # "notin") => WhereKeys(query.where) = {StoreKey(Dotted(t)) : t \in tags}

-----------------------------------------------------------------------------
(* Statements that the code does not meet (languages_statements.cfg) *)

(* processor.go:31 keeps the parser's error for whoever asks: no one is    *)
(* subscribed to a text that is no query.  HandleNewSubscriber does not    *)
(* ask, and a text without a where clause finds every stream. *)
OnlyQueriesAreWatched == Handled /\ result.kind = "watch" => err = "none"

(* tcpjson/handlers.go:137 "N = 1024 not big enough!": a text that does    *)
(* not fit the buffer is not executed.  The handler goes on after it has   *)
(* reported the error. *)
CutTextsAreRefused == Handled /\ asked.st # Nil /\ asked.lost > 0 => err # "none"

(* Every statement, not only the plain ones (IsPlain) over fields that     *)
(* only messages wrote, means what it says.  Negations, nested tags that   *)
(* were set and the properties that are read back as integers do not. *)
AllStatementsMeanWhatTheySay == Accepted => DoneAsSaid(asked.st[1])

(* integration/tests/metadata/nestedMetadataInherit.yaml:16                *)
(* "tag1/base/first": a client may spell a nested tag with slashes, as it  *)
(* does in a where clause (republish2/republish9.yaml:10).  ToBson keeps   *)
(* the slash, and no query names it. *)
SlashedTagsAreFound ==
  Accepted /\ IsPlain(asked.st[1]) /\ IsKeptAsText(before, asked.st[1]) => DoneAsSaid(asked.st[1])

(* The same of the broker (cqbs.go:164-165): what a message has under such *)
(* a key wakes the queries that name the tag. *)
SlashedTagsWakeTheirQueries ==
  Accepted /\ result.kind = "watch" /\ result.keys # {} =>
    \A key \in MessageKeys : Segments(key) \in {t.tag : t \in Terms(asked.st[1])} => IndexKey(key) \in result.keys

(* query.y:352 "lvalue EQ NUMBER": a stream whose metadata has a number is *)
(* found by it.  The number is compared as a text. *)
NumbersAreFound ==
  Accepted /\ IsPlain(asked.st[1]) /\ IsKeptAsNamed(before, asked.st[1]) => DoneAsSaid(asked.st[1])

(* integration/tests/metadata/metadataSameMsg.yaml:16,58 "XYZ": 123 is     *)
(* answered "XYZ": "123": numbers in metadata become texts. *)
NumbersReadBackAsText ==
  Accepted /\ result.kind = "rows" => \A u \in DOMAIN result.rows : \A t \in DOMAIN result.rows[u] : ~IsNumeric(result.rows[u][t])

(* integration/tests/queryNotWithAnd.yaml:30,43: "where a = x and not b =  *)
(* y" and "where (not b = y) and a = x" are answered. *)
Negations ==
  {Words(<<"SELECT", "LVALUE", "WHERE", "LVALUE", "EQ", "QSTRING", "AND", "NOT", "LVALUE", "EQ", "QSTRING">>),
   Words(<<"SELECT", "LVALUE", "WHERE", "LPAREN", "NOT", "LVALUE", "EQ", "QSTRING", "RPAREN",
           "AND", "LVALUE", "EQ", "QSTRING">>)}
NegatedTermsAreAccepted ==
  Handled /\ (\E n \in Negations : asked.heard.tokens = n) => err = "none"

(* A query is answered or refused, and the process goes on. *)
NoQueryEndsTheProcess == pc # "down"
=============================================================================

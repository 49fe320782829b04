---------------------------- MODULE MCLanguages ----------------------------
(* The two languages that clients write.  A behaviour is one of            *)
(* MetadataQueries, with statements over two streams, one by one and in    *)
(* pairs, or one of ObjectBuilder, with two goroutines.                    *)
EXTENDS MetadataQueries

VARIABLES scanner, operations, error, at, job, parser, value, alone

V(x) == <<x>>

City == <<"Metadata", "City">>
Room == <<"Metadata", "Loc", "Room">>
Kind == <<"Metadata", "Kind">>
Floor == <<"Metadata", "Loc", "Floor">>
Level == <<"Metadata", "Level">>
Unit_ == <<"Properties", "UnitofMeasure">>

DescribedDef ==
  [u1 |-> <<"uuid">> :> V("u1") @@ <<"Path">> :> V("p1") @@ Dotted(City) :> V("Berkeley") @@ Dotted(Room) :> V("one")
          @@ <<"Metadata", ".", "Loc", "/", "Floor">> :> V("one")
          @@ <<"Properties", ".", "UnitofTime">> :> V("us") @@ Dotted(Unit_) :> V("kW")
          @@ <<"Properties", ".", "StreamType">> :> V("object"),
   u2 |-> <<"uuid">> :> V("u2") @@ <<"Path">> :> V("p2") @@ Dotted(City) :> V("Boston")
          @@ <<"Metadata", ".", "Loc", "|", "Room">> :> V("two") @@ Dotted(Level) :> Numeric(V("5"))
          @@ <<"Actuator", ".", "Model">> :> V("on")]

MatchesDef == {<<V("B.*"), V("Berkeley")>>, <<V("B.*"), V("Boston")>>, <<V("Bo.*"), V("Boston")>>, <<V("o.*"), V("one")>>}

NumbersDef ==
  V("1") :> [n |-> 1, ok |-> TRUE] @@ V("5") :> [n |-> 5, ok |-> TRUE] @@ V("-2") :> [n |-> -2, ok |-> TRUE]
  @@ V("40") :> [n |-> 40, ok |-> TRUE] @@ V("1.5") :> [n |-> 0, ok |-> FALSE]
DatesDef == V("1/2/2006") :> 900000
ZeroTimeDef == -900

-----------------------------------------------------------------------------
(* Statements *)

Term(form, tag, values) == [form |-> form, tag |-> tag, values |-> values, paren |-> FALSE]
Where(not, terms, joins) == [not |-> not, terms |-> terms, joins |-> joins]
NoWhere == Where(FALSE, <<>>, <<>>)
Only(t) == Where(FALSE, <<t>>, <<>>)

Eq(tag, v)   == Term("eq", tag, <<V(v)>>)
Has(tag)     == Term("has", tag, <<>>)
Like(tag, v) == Term("like", tag, <<V(v)>>)

Time(form, num, unit, rel) == [form |-> form, num |-> num, unit |-> unit, rel |-> rel]
Now == Time("now", <<>>, <<>>, <<>>)
Sec(n) == Time("seconds", V(n), <<>>, <<>>)
In(n, u) == Time("unit", V(n), V(u), <<>>)
Plus(t, pairs) == [t EXCEPT !.rel = pairs]
Rel(n, u) == [num |-> V(n), unit |-> V(u)]
Free == [limit |-> <<>>, stream |-> <<>>, unit |-> <<>>]
NoData == [op |-> "none", start |-> Now, end |-> Now, width |-> Rel("1", "s"), limit |-> Free]
Data(op, start, end, width, limit) == [op |-> op, start |-> start, end |-> end, width |-> width, limit |-> limit]

Statement(kind, tags, data, sets, where) ==
  [kind |-> kind, tags |-> tags, data |-> data, sets |-> sets, where |-> where]
Select(tags, where) == Statement("select", tags, NoData, <<>>, where)
Distinct(tags, where) == Statement("distinct", tags, NoData, <<>>, where)
Set(sets, where) == Statement("set", <<>>, NoData, sets, where)
Ask(d, where) == Statement("data", <<>>, d, <<>>, where)
To(tag, v) == [tag |-> tag, form |-> "text", values |-> <<V(v)>>]

Saying(st) == [st |-> <<st>>, tokens |-> Spell(st)]
Noise(ts) == [st |-> <<>>, tokens |-> Words(ts)]

InBoston == Only(Eq(City, "Boston"))

Wheres == {
  InBoston, Only(Like(City, "B.*")), Only(Has(Room)), Only(Term("in", Room, <<V("one"), V("two")>>)),
  Only([Eq(City, "Berkeley") EXCEPT !.paren = TRUE]),
  Only(Term("eqnum", Room, <<V("5")>>)), Only(Has(<<"Actuator", "Model">>)),
  Only(Eq(Floor, "one")), Only(Term("eqnum", Level, <<V("5")>>)), Only(Has(Level)),
  Where(TRUE, <<Eq(City, "Boston")>>, <<>>),
  Where(FALSE, <<Has(Room), Eq(City, "Boston")>>, <<"AND">>),
  Where(FALSE, <<Has(Room), Eq(City, "Boston")>>, <<"OR">>),
  Where(TRUE, <<Eq(City, "Boston"), Has(Room), Like(Room, "x.*")>>, <<"OR", "AND">>),
  Where(FALSE, <<Eq(Unit_, "kW"), [Has(City) EXCEPT !.paren = TRUE], Has(<<"Path">>)>>, <<"AND", "OR">>)}

Selects ==
  {Select(<<>>, w) : w \in Wheres}
  \cup {Select(<<>>, NoWhere), Select(<<City>>, NoWhere), Select(<<Room, <<"uuid">> >>, InBoston),
        Select(<<City, Room, Unit_>>, Only(Has(City))), Distinct(<<City>>, NoWhere), Distinct(<<Room>>, Only(Has(City))),
        Select(<<Floor>>, InBoston), Select(<<Level, Room>>, InBoston), Distinct(<<Level>>, NoWhere)}

Questions ==
  {Ask(Data("in", In("1", "s"), Plus(Now, <<Rel("-2", "m"), Rel("5", "sec")>>), Rel("1", "s"), Free), InBoston),
   Ask(Data("span", Plus(Sec("1"), <<Rel("1", "h")>>), Time("date", V("1/2/2006"), <<>>, <<>>), Rel("1", "s"),
            [Free EXCEPT !.limit = V("5"), !.unit = V("us")]), Only(Has(Room))),
   Ask(Data("before", Now, Now, Rel("1", "s"), [Free EXCEPT !.stream = V("1")]), InBoston),
   Ask(Data("after", In("40", "msec"), Now, Rel("1", "s"), [limit |-> V("5"), stream |-> V("1"), unit |-> V("nsec")]),
       InBoston),
   Ask(Data("statistical", Sec("1"), Now, Rel("40", "s"), Free), InBoston),
   Ask(Data("statistics", Sec("1"), Now, Rel("5", "s"), [Free EXCEPT !.unit = V("s")]), InBoston),
   Ask(Data("window", Sec("1"), Now, Rel("5", "m"), [Free EXCEPT !.limit = V("1")]), InBoston),
   Ask(Data("before", Plus(In("40", "seconds"), <<Rel("5", "minutes"), Rel("1", "hr")>>), Now, Rel("1", "s"),
            [Free EXCEPT !.unit = V("microseconds")]), InBoston),
   Ask(Data("window", In("5", "milliseconds"), Now, Rel("1", "hour"), Free), InBoston)}

Illegal ==
  {Ask(Data("before", Sec("1.5"), Now, Rel("1", "s"), Free), InBoston),
   Ask(Data("before", In("-2", "s"), Now, Rel("1", "s"), Free), InBoston),
   Ask(Data("after", Plus(Now, <<Rel("1", "y")>>), Now, Rel("1", "s"), Free), InBoston),
   Ask(Data("before", Now, Now, Rel("1", "s"), [Free EXCEPT !.unit = V("h")]), InBoston),
   Ask(Data("before", In("5", "minutes"), Now, Rel("1", "s"), Free), InBoston),
   Ask(Data("before", Time("date", V("soon"), <<>>, <<>>), Now, Rel("1", "s"), [Free EXCEPT !.limit = V("1.5")]), InBoston)}

Deletes ==
  {Statement("delete", <<City>>, NoData, <<>>, InBoston), Statement("delete", <<>>, NoData, <<>>, InBoston),
   Statement("deletedata", <<>>, Data("in", Sec("1"), Now, Rel("1", "s"), Free), <<>>, InBoston)}

Sets ==
  {Set(<<To(Kind, "x")>>, NoWhere), Set(<<To(City, "Davis"), To(Kind, "x")>>, Only(Has(Room))),
   Set(<<[tag |-> Kind, form |-> "list", values |-> <<V("a"), V("b")>>], [tag |-> City, form |-> "number", values |-> <<V("5")>>]>>,
       InBoston)}

Afterwards == {Select(<<>>, Only(Eq(City, "Davis"))), Select(<<Kind>>, Only(Term("eqnum", City, <<V("5")>>))),
               Distinct(<<City>>, Only(Has(Kind)))}

(* Statements that do something else than they say. *)
Odd ==
  {Select(<<>>, Only(Term("neq", City, <<V("Boston")>>))), Select(<<>>, Only(Has(<<"Metadata">>))),
   Select(<<>>, Only(Term("notin", City, <<V("Boston")>>))), Select(<<>>, Where(TRUE, <<Has(Room)>>, <<>>)),
   Select(<< <<"Metadata">> >>, NoWhere), Distinct(<<>>, NoWhere), Select(<< <<"Properties", "UnitofTime">> >>, NoWhere),
   Set(<<To(Kind, "x")>>, Only(Term("neq", City, <<V("Boston")>>)))}

NoiseDef == {Noise(<<"SELECT">>), Noise(<<"SELECT", "SELECT", "ALL">>), Noise(<<"WHERE", "ALL">>),
             Noise(<<"SELECT", "ALL", "SEMICOLON", "SELECT", "ALL">>), Noise(<<"SELECT", "ALL", "WHERE", "UNKNOWN">>),
             Noise(<<"SET", "LVALUE", "EQ", "QSTRING", "COMMA">>), Noise(<<"SELECT", "ALL", "WHERE", "NOT", "NOT", "HAS", "LVALUE">>),
             Noise(<<"DELETE", "ALL">>), Noise(<<"SELECT", "DATA", "IN", "NOW">>)}

ScriptsDef ==
  {<<Saying(st)>> : st \in Selects \cup Questions \cup Illegal \cup Deletes \cup Odd}
  \cup {<<n>> : n \in NoiseDef \cup {[st |-> <<>>, tokens |-> n] : n \in Negations}}
  \cup {<<Saying(s), Saying(t)>> : s \in Sets, t \in Afterwards}
-----------------------------------------------------------------------------
(* Expressions *)

Key(k)      == [form |-> "key", key |-> k]
At(t, n)    == [form |-> "index", n |-> n, text |-> t]
Part(t, u, m, n) == [form |-> "slice", from |-> m, to |-> n, text |-> t, upto |-> u]
Whole       == [form |-> "all"]

AtoiDef == "0" :> 0 @@ "1" :> 1 @@ "-1" :> -1 @@ "-2" :> -2 @@ "2" :> 2 @@ "7" :> 7 @@ "1.5" :> 0
AtText(t)   == At(t, AtoiDef[t])
Between(t, u) == Part(t, u, AtoiDef[t], AtoiDef[u])

StepsDef == {
  <<Key("a")>>, <<Key("a"), Key("b")>>, <<Key("a"), Key("b"), Between("0", "1")>>,
  <<AtText("0")>>, <<AtText("-1"), Key("b")>>, <<Between("1", "7"), AtText("-1")>>, <<Whole, AtText("1"), Key("a")>>,
  <<Between("0", "2"), AtText("1")>>, <<AtText("2")>>, <<Whole, Key("a")>>, <<Key("a"), AtText("0")>>}

LeafOf(x)  == [kind |-> "leaf", leaf |-> x]
ListOf(s)  == [kind |-> "array", items |-> s]
DictOf(f)  == [kind |-> "map", fields |-> f]

ObjectsDef == {
  DictOf([a |-> ListOf(<<LeafOf("x"), LeafOf("y")>>)]), ListOf(<<DictOf([a |-> LeafOf("x")]), DictOf([a |-> LeafOf("y")])>>),
  DictOf([a |-> DictOf([b |-> ListOf(<<LeafOf("x"), LeafOf("y")>>)])]),
  ListOf(<<LeafOf("x"), DictOf([a |-> LeafOf("y"), b |-> LeafOf("z")])>>),
  LeafOf("x")}

Tokens(ts) == [i \in DOMAIN ts |-> [t |-> ts[i], s |-> IF ts[i] = "NUMBER" THEN "1" ELSE "a"]]

NoExpressions == {
  Tokens(<<>>), Tokens(<<"KEY", "KEY">>), Tokens(<<"DOT", "KEY">>), Tokens(<<"LBRACKET", "KEY">>),
  Tokens(<<"LBRACKET", "NUMBER", "COLON", "RBRACKET">>), Tokens(<<"KEY", "DOT">>)}

Threads == {"t1", "t2"}

OB == INSTANCE ObjectBuilder WITH
  Atoi <- AtoiDef, Objects <- ObjectsDef, Steps <- StepsDef, Malformed <- NoExpressions

NoStatements == /\ InitParser /\ script = <<>>
                /\ docs = [u \in Streams |-> <<>>] /\ before = docs
                /\ asked = NoRequest /\ result = Rejected /\ pc = "idle"

NoCalls == /\ scanner = <<>> /\ operations = <<>> /\ error = "none"
           /\ at = [t \in Threads |-> "done"] /\ job = [t \in Threads |-> OB!NoJob]
           /\ parser = [t \in Threads |-> OB!Ex!Failed(OB!Ex!Start(<<>>))] /\ value = job /\ alone = [t \in Threads |-> FALSE]

(* Every expression and object beside a few calls of the other goroutine. *)
Beside == {OB!SpellSteps(<<Key("a"), Key("b")>>), Tokens(<<"KEY", "DOT">>)}
Calls == OB!Init /\ job["t2"].tokens \in Beside /\ job["t2"].object = LeafOf("x")

LanguagesInit == (Init /\ NoCalls) \/ (NoStatements /\ Calls)
LanguagesNext == (Next /\ UNCHANGED <<scanner, operations, error, at, job, parser, value, alone>>)
  \/ (OB!Next /\ UNCHANGED vars)

ExpressionsMeanWhatTheySay == OB!ExpressionsMeanWhatTheySay
OverlappingCallsDoNotMix == OB!OverlappingCallsDoNotMix
NoIndexPanics == OB!NoIndexPanics
EveryItemIsAsked == OB!EveryItemIsAsked
ExampleIsRight == OB!ExampleIsRight
=============================================================================

--------------------------- MODULE QueryLanguage ---------------------------
(***************************************************************************)
(* The query language (archiver/internal/querylang): the lexer, the        *)
(* generated parser with the code of its productions, and the parameters   *)
(* that an accepted query is turned into.  A name is a sequence of         *)
(* segments and separators, any other text a sequence of one; times are    *)
(* nanoseconds, a second has Factor^3 of them.  The pattern matcher (toki) *)
(* is external: the input is a sequence of the tokens it finds.            *)
(***************************************************************************)
EXTENDS Integers, Sequences, SequencesExt, TLC

CONSTANTS
  Numbers,   \* what strconv.ParseInt makes of a NUMBER: a value, and whether it is one
  Dates,     \* the times that quoted texts denote in one of the supported formats
  NowTime,   \* what the clock says
  ZeroTime,  \* Go's zero time
  Factor,    \* steps from ns to us, to ms and to s (1000 in the code)
  Word       \* the number of values of an integer (2^64 in the code)

ASSUME QueryAssumption ==
  /\ \A t \in DOMAIN Numbers : Numbers[t].n \in Int /\ Numbers[t].ok \in BOOLEAN
  /\ \A t \in DOMAIN Dates : Dates[t] \in Int
  /\ NowTime \in Int /\ ZeroTime \in Int
  /\ Factor \in Nat \ {0, 1} /\ Word \in Nat /\ Word > 0 /\ Word % 2 = 0

VARIABLES
  text,     \* the query string: its tokens, and the blank that may follow them
  pos,      \* the next token to be read
  p,        \* the parser
  query,    \* sqLex.query, which the productions fill in
  keys,     \* sqLex._keys
  err       \* sqLex.error

parsing == <<text, pos, p, query, keys, err>>

-----------------------------------------------------------------------------
(* The tables of query.go *)

sqExca == <<-1, 1, 1, -1, -2, 0>>
sqAct == <<
  109, 85, 53, 42, 82, 78, 14, 17, 14, 16, 55, 67, 41, 25, 54, 54, 55, 55, 21,
  55, 66, 21, 62, 50, 48, 47, 46, 38, 64, 15, 49, 132, 83, 112, 52, 52, 14, 99,
  63, 15, 43, 40, 111, 60, 45, 34, 46, 74, 23, 79, 43, 56, 57, 70, 45, 59, 46,
  58, 77, 88, 104, 152, 148, 44, 91, 147, 130, 116, 103, 90, 89, 139, 134, 80,
  97, 98, 100, 133, 31, 101, 30, 95, 96, 29, 135, 7, 128, 108, 127, 113, 18,
  102, 27, 28, 76, 75, 17, 17, 17, 65, 68, 69, 117, 118, 119, 107, 120, 110, 79,
  123, 26, 121, 146, 124, 142, 9, 141, 106, 61, 11, 13, 12, 105, 10, 131, 94,
  72, 73, 35, 15, 122, 71, 136, 125, 8, 93, 92, 140, 11, 13, 12, 21, 10, 81, 32,
  55, 15, 84, 15, 150, 151, 153, 154, 126, 155, 20, 156, 137, 138, 86, 87, 22,
  24, 143, 129, 144, 145, 115, 114, 21, 149, 1, 33, 51, 36, 37, 2, 6, 4, 3, 5,
  39, 19>>
sqPact == <<
  172, -1000, 110, 127, 129, 9, 157, -1000, -1000, 127, 78, 49, 46, 44, 121,
  -1000, 6, 107, 157, 157, -12, 10, -14, -1000, -15, -1000, -4, -3, -3, 19, 17,
  5, 127, -17, -1000, -10, -19, -28, -1000, 72, 20, -1000, 105, 127, 63, 20,
  125, -1000, -1000, -3, 120, -6, 128, -1000, -1000, -1000, 143, 143, 35, 34,
  127, -1000, -1000, 113, 112, 102, -1000, -1000, 20, 20, -1000, 125, -1, 125,
  -1000, 127, 59, 33, 23, 99, 94, -3, -1000, 127, -1000, 80, 4, -5, 80, 155,
  154, 32, 127, 127, 127, -1000, -1000, -1000, -1000, -1000, -1000, -1000, 127,
  -1000, -1000, 125, -3, 143, -6, -1000, 114, 136, -1000, -1000, 56, 54, 151,
  -1000, -1000, -1000, -1000, -1000, 31, 80, -1000, -1000, -7, 43, 38, 52, 143,
  -1000, -1000, -3, -3, 37, 80, 93, 91, -3, -1000, -3, -3, 89, 30, 27, -3, 143,
  143, 26, 80, 80, 143, -1000, -1000, 80, -1000>>
sqPgo == <<
  0, 181, 12, 155, 9, 180, 85, 5, 63, 177, 23, 173, 4, 1, 0, 2, 3, 171>>
sqR1 == <<
  0, 17, 17, 17, 17, 17, 17, 17, 17, 6, 6, 8, 7, 7, 4, 4, 4, 4, 4, 4, 5, 5, 5,
  5, 9, 9, 9, 9, 9, 9, 9, 10, 10, 11, 11, 11, 11, 12, 12, 13, 13, 13, 13, 14,
  14, 3, 2, 2, 2, 2, 2, 2, 2, 2, 15, 16, 1, 1, 1, 1>>
sqR2 == <<
  0, 4, 3, 4, 4, 3, 4, 4, 3, 1, 3, 3, 1, 3, 3, 3, 3, 5, 5, 5, 1, 1, 2, 1, 9, 7,
  13, 13, 14, 5, 5, 1, 2, 2, 1, 1, 1, 2, 3, 0, 2, 2, 4, 0, 2, 2, 3, 3, 3, 3, 2,
  3, 4, 3, 1, 1, 3, 3, 2, 1>>
sqChk == <<
  -1000, -17, 4, 7, 6, -5, -9, -6, 24, 5, 13, 9, 11, 10, -16, 19, -4, -16, -6,
  -9, -3, 12, -3, 39, -3, -16, 32, 14, 15, 34, 34, 34, 23, -3, 39, 21, -3, -3,
  39, -1, 31, -2, -16, 30, -8, 34, 36, 39, 39, 34, -10, -11, 38, -15, 18, 20,
  -10, -10, 38, 38, 38, -6, 39, -15, 38, -8, 39, 39, 28, 29, -2, 26, 21, 22,
  -16, 32, 31, -2, -7, -15, -10, 23, -12, 38, 19, -13, 16, 17, -13, 35, 35, -16,
  23, 23, 23, -2, -2, -15, -15, 38, -15, -16, 32, 35, 37, 23, 23, -10, -16, -14,
  27, 38, 38, -14, 13, 13, 35, -4, -4, -4, -16, -7, -10, -13, -12, 19, 17, 32,
  32, 13, 35, -14, 38, 34, 34, 32, -13, -10, -10, 34, -14, 23, 23, -10, -10,
  -10, 23, 35, 35, -10, -13, -13, 35, -14, -14, -13, -14>>
sqDef == <<
  0, -2, 0, 0, 0, 0, 0, 20, 21, 23, 0, 0, 0, 0, 9, 55, 0, 0, 0, 0, 0, 0, 0, 2,
  0, 22, 0, 0, 0, 0, 0, 0, 0, 0, 5, 0, 0, 0, 8, 45, 0, 59, 0, 0, 0, 0, 0, 1, 3,
  0, 0, 31, 34, 35, 36, 54, 39, 39, 0, 0, 0, 10, 4, 14, 15, 16, 6, 7, 0, 0, 58,
  0, 0, 0, 50, 0, 0, 0, 0, 12, 0, 0, 32, 0, 33, 43, 0, 0, 43, 0, 0, 0, 0, 0, 0,
  56, 57, 46, 47, 48, 49, 51, 0, 53, 11, 0, 0, 39, 37, 29, 0, 40, 41, 30, 0, 0,
  0, 17, 18, 19, 52, 13, 0, 43, 38, 44, 0, 0, 0, 0, 39, 25, 42, 0, 0, 0, 43, 0,
  0, 0, 24, 0, 0, 0, 0, 0, 0, 39, 39, 0, 43, 43, 39, 26, 27, 43, 28>>
Parser == INSTANCE Goyacc WITH
  Exca <- sqExca, Act <- sqAct, Pact <- sqPact, Pgo <- sqPgo,
  R1 <- sqR1, R2 <- sqR2, Chk <- sqChk, Def <- sqDef

ASSUME NoErrorProductions == Parser!NoRecovery

(* The tokens, in the order of their numbers; the first has number 4. *)
sqToknames == <<
  "SELECT", "DISTINCT", "DELETE", "SET", "APPLY", "STATISTICAL", "WINDOW", "STATISTICS",
  "WHERE", "DATA", "BEFORE", "AFTER", "LIMIT", "STREAMLIMIT", "NOW", "LVALUE", "QSTRING",
  "EQ", "NEQ", "COMMA", "ALL", "LEFTPIPE", "LIKE", "AS", "AND", "OR", "HAS", "NOT", "IN",
  "TO", "LPAREN", "RPAREN", "LBRACK", "RBRACK", "NUMBER", "SEMICOLON", "NEWLINE", "TIMEUNIT">>

Internal(name) == 3 + SelectInSeq(sqToknames, LAMBDA t : t = name)

-----------------------------------------------------------------------------
(* Names and times *)

cleantagstring(name) == [i \in DOMAIN name |-> IF name[i] = "/" THEN "." ELSE name[i]]

Spaces == {"Metadata", "Properties", "Actuator"}

(* key[9:] of a key that is no longer than its prefix. *)
fixPanics(key) == Head(key) \in Spaces /\ Len(key) = 1

fixMongoKey_KeepsDots(key) ==
  IF Head(key) \in Spaces THEN <<Head(key), ".">> \o SubSeq(key, 3, Len(key)) ELSE key

fixMongoKey(key) ==
  IF Head(key) \in Spaces
  THEN <<Head(key), ".">> \o [i \in 1 .. Len(key) - 2 |-> IF key[i + 2] = "." THEN "|" ELSE key[i + 2]]
  ELSE key

ParseInt(t) == Numbers[t].n
IsInt(t)    == Numbers[t].ok

Second == Factor * Factor * Factor
ParseUOT(t) ==
  CASE t[1] \in {"s", "sec", "second", "seconds"} -> "s"
    [] t[1] \in {"ms", "msec", "millisecond", "milliseconds"} -> "ms"
    [] t[1] \in {"us", "usec", "microsecond", "microseconds"} -> "us"
    [] t[1] \in {"ns", "nsec", "nanosecond", "nanoseconds"} -> "ns"
    [] OTHER -> "none"

Nanoseconds(unit) ==
  CASE unit = "s" -> Second [] unit = "ms" -> Factor * Factor [] unit = "us" -> Factor
    [] unit = "ns" -> 1

(* ParseAbsTime takes ParseUint: no negative number, no unknown unit. *)
IsAbsTime(t, u) == IsInt(t) /\ ParseInt(t) >= 0 /\ ParseUOT(u) # "none"
ParseAbsTime(t, u) ==
  IF IsAbsTime(t, u) THEN ParseInt(t) * Nanoseconds(ParseUOT(u)) ELSE ZeroTime

(* ParseReltime knows more units, and leaves nanoseconds of an unknown one. *)
Reltime(u) ==
  CASE u[1] \in {"h", "hr", "hour", "hours"} -> 3600 * Second
    [] u[1] \in {"m", "min", "minute", "minutes"} -> 60 * Second
    [] u[1] \in {"d", "day", "days"} -> 86400 * Second
    [] ParseUOT(u) # "none" -> Nanoseconds(ParseUOT(u))
    [] OTHER -> 0
IsReltime(t, u) == IsInt(t) /\ Reltime(u) # 0
ParseReltime(t, u) ==
  IF ~IsInt(t) THEN 0 ELSE ParseInt(t) * (IF Reltime(u) = 0 THEN 1 ELSE Reltime(u))
AddDurations(d, e) == d + e

uint64(n) == n % Word
int64(n)  == LET m == n % Word IN IF m < Word \div 2 THEN m ELSE m - Word

-----------------------------------------------------------------------------
(* The values of the productions: a is what the symbols of the right-hand  *)
(* side have, from the left. *)

Nil == <<>>
Pair(k, v) == k :> v
Op(o, x)   == [op |-> o, arg |-> x]

(* 9-13: lists of tags and of strings. *)
ListValue(n, a) ==
  CASE n \in {9, 12}  -> <<a[1]>>
    [] n \in {10, 13} -> <<a[1]>> \o a[3]
    [] n = 11 -> a[2]

(* 20-23: what select asks for. *)
SelectorValue(n, a) ==
  CASE n = 20 -> a[1]
    [] n = 22 -> <<a[2]>>
    [] n \in {21, 23} -> Nil

(* 14-19: the pairs of a set list, from the last one to the first. *)
SetValue(n, a) ==
  IF n \in 14 .. 16 THEN Pair(a[1], a[3]) ELSE Pair(a[1], a[3]) @@ a[5]

DataQuery(dtype, start, end, limit, conv) ==
  [Dtype |-> dtype, Start |-> start, End |-> end, Limit |-> limit, Timeconv |-> conv,
   IsStatistical |-> FALSE, IsWindow |-> FALSE, Width |-> 0, PointWidth |-> 0]

(* 24-30: data clauses. *)
DataValue(n, a) ==
  CASE n = 24 -> DataQuery("in", a[4], a[6], a[8], a[9])
    [] n = 25 -> DataQuery("in", a[3], a[5], a[6], a[7])
    [] n \in {26, 27} ->
         [DataQuery("in", a[8], a[10], a[12], a[13])
            EXCEPT !.IsStatistical = TRUE, !.PointWidth = uint64(ParseInt(a[3]))]
    [] n = 28 ->
         [DataQuery("in", a[9], a[11], a[13], a[14])
            EXCEPT !.IsWindow = TRUE, !.Width = uint64(ParseReltime(a[3], a[4]))]
    [] n = 29 -> DataQuery("before", a[3], ZeroTime, a[4], a[5])
    [] n = 30 -> DataQuery("after", a[3], ZeroTime, a[4], a[5])

(* 31-38: instants and durations. *)
TimeValue(n, a) ==
  CASE n = 31 -> a[1]
    [] n = 32 -> a[1] + a[2]
    [] n = 33 -> ParseAbsTime(a[1], a[2])
    [] n = 34 -> ParseInt(a[1]) * Second
    [] n = 35 -> IF a[1] \in DOMAIN Dates THEN Dates[a[1]] ELSE ZeroTime
    [] n = 36 -> NowTime
    [] n = 37 -> ParseReltime(a[1], a[2])
    [] n = 38 -> AddDurations(ParseReltime(a[1], a[2]), a[3])

Limit(l, s) == [Limit |-> l, Streamlimit |-> s]

(* 39-44: limits, and the unit of the answer. *)
LimitValue(n, a) ==
  CASE n = 39 -> Limit(-1, -1)
    [] n = 40 -> Limit(ParseInt(a[2]), -1)
    [] n = 41 -> Limit(-1, ParseInt(a[2]))
    [] n = 42 -> Limit(ParseInt(a[2]), ParseInt(a[4]))
    [] n = 43 -> "ms"
    [] n = 44 -> IF ParseUOT(a[2]) = "none" THEN "s" ELSE ParseUOT(a[2])

(* The symbol of a where term's production whose value becomes the key. *)
KeySymbol(n) == CASE n \in 46 .. 49 -> 1 [] n = 50 -> 2 [] n \in {51, 52} -> 3

TermValue(n, a) ==
  Pair(fixMongoKey(a[KeySymbol(n)]),
       CASE n = 46 -> Op("$regex", a[3])
         [] n \in {47, 48} -> Op("=", a[3])
         [] n = 49 -> Op("$neq", a[3])
         [] n = 50 -> Op("$exists", TRUE)
         [] n = 51 -> Op("$in", a[1])
         [] n = 52 -> Op("$not", Op("$in", a[1])))

(* 45, 53, 56-59: the where clause. *)
WhereValue(n, a) ==
  CASE n \in {45, 53} -> a[2]
    [] n = 56 -> Pair(<<"$and">>, Op("list", <<a[1], a[3]>>))
    [] n = 57 -> Pair(<<"$or">>, Op("list", <<a[1], a[3]>>))
    [] n = 58 -> [k \in DOMAIN a[2] |-> Op("$ne", a[2][k])]
    [] n = 59 -> a[1]

Unquoted(t) == SubSeq(t, 2, Len(t) - 1)

(* The value of production n; the first eight, the statements, have none. *)
Value(n, a) ==
  CASE n \in 1 .. 8 -> Nil
    [] n \in 9 .. 13 -> ListValue(n, a)
    [] n \in 20 .. 23 -> SelectorValue(n, a)
    [] n \in 14 .. 19 -> SetValue(n, a)
    [] n \in 24 .. 30 -> DataValue(n, a)
    [] n \in 31 .. 38 -> TimeValue(n, a)
    [] n \in 39 .. 44 -> LimitValue(n, a)
    [] n \in 46 .. 52 -> TermValue(n, a)
    [] n = 54 -> Unquoted(a[1])
    [] n = 55 -> cleantagstring(a[1])
    [] OTHER  -> WhereValue(n, a)

(* What the productions report; the parser goes on all the same. *)
Complaint(n, a) ==
  CASE n \in {26, 27} /\ ~IsInt(a[3]) -> "number"
    [] n = 28 /\ ~IsReltime(a[3], a[4]) -> "time"
    [] n = 33 /\ ~IsAbsTime(a[1], a[2]) -> "time"
    [] n = 34 /\ ~IsInt(a[1]) -> "number"
    [] n = 35 /\ a[1] \notin DOMAIN Dates -> "time"
    [] n \in {37, 38} /\ ~IsReltime(a[1], a[2]) -> "time"
    [] n \in {40, 41, 42} /\ ~(IsInt(a[2]) /\ (n = 42 => IsInt(a[4]))) -> "number"
    [] n = 44 /\ ParseUOT(a[2]) = "none" -> "unit"
    [] OTHER -> "none"

(* What the productions write to the query. *)
Effect(n, a, q) ==
  CASE n = 1 -> [q EXCEPT !.Contents = a[2], !.where = a[3], !.qtype = "select"]
    [] n = 2 -> [q EXCEPT !.Contents = a[2], !.qtype = "select"]
    [] n = 3 -> [q EXCEPT !.data = a[2], !.where = a[3], !.qtype = "data"]
    [] n = 4 -> [q EXCEPT !.set = a[2], !.where = a[3], !.qtype = "set"]
    [] n = 5 -> [q EXCEPT !.set = a[2], !.qtype = "set"]
    [] n = 6 -> [q EXCEPT !.Contents = a[2], !.where = a[3], !.qtype = "delete"]
    [] n = 7 -> [q EXCEPT !.data = a[2], !.where = a[3], !.qtype = "delete"]
    [] n = 8 -> [q EXCEPT !.Contents = Nil, !.where = a[2], !.qtype = "delete"]
    [] n = 20 -> [q EXCEPT !.Contents = a[1]]
    [] n \in {22, 23} -> [q EXCEPT !.distinct = TRUE]
    [] OTHER -> q

Panics(n, a) == n \in 46 .. 52 /\ fixPanics(a[KeySymbol(n)])

-----------------------------------------------------------------------------
(* Parsing *)

NoText  == [tokens |-> <<>>, trail |-> "none"]
NoQuery == [qtype |-> "none", data |-> Nil, set |-> Nil, where |-> Nil, distinct |-> FALSE,
            Contents |-> Nil]

Semicolon == [t |-> "SEMICOLON", s |-> <<";">>]

(* Parse appends a semicolon to a string that does not end in one.  It     *)
(* goes unread on a second line, which the lexer takes for the end, and    *)
(* behind the zero bytes of a buffer, which no pattern matches. *)
Completed(x) ==
  CASE x.trail = "blank" -> Append(x.tokens, Semicolon)
    [] x.trail \in {"newline", "zeros"} -> x.tokens
    [] x.trail = "none" ->
         IF x.tokens # <<>> /\ Last(x.tokens).t = "SEMICOLON" THEN x.tokens
         ELSE Append(x.tokens, Semicolon)

InitParser ==
  /\ text = NoText /\ pos = 1 /\ p = Parser!Accepted(Parser!Start(Nil))
  /\ query = NoQuery /\ keys = {} /\ err = "none"

(* QueryProcessor.Parse: a new lexer and a new parser for every query. *)
Parse(x) ==
  /\ text' = [x EXCEPT !.tokens = Completed(x)] /\ pos' = 1
  /\ p' = Parser!Start(Nil)
  /\ query' = NoQuery /\ keys' = {} /\ err' = "none"

(* The end of the input, and likewise a character that no pattern matches, *)
(* reads as the end; the position moves on only over tokens. *)
Lex ==
  /\ Parser!WantsToken(p)
  /\ IF pos > Len(text.tokens) \/ text.tokens[pos].t = "UNKNOWN"
     THEN p' = Parser!Read(p, Parser!EOF, p.lval) /\ UNCHANGED pos
     ELSE /\ p' = Parser!Read(p, Internal(text.tokens[pos].t), text.tokens[pos].s)
          /\ pos' = pos + 1
  /\ UNCHANGED <<text, query, keys, err>>

Shift ==
  /\ Parser!CanShift(p)
  /\ p' = Parser!Shifted(p)
  /\ UNCHANGED <<text, pos, query, keys, err>>

Reduce_ForgetsErrors ==
  /\ Parser!CanReduce(p)
  /\ LET n == Parser!Default(p)
         a == Parser!Arguments(p)
     IN IF Panics(n, a)
        THEN p' = [p EXCEPT !.ret = "panic"] /\ UNCHANGED <<query, keys, err>>
        ELSE /\ p' = Parser!Reduced(p, Value(n, a))
             /\ query' = Effect(n, a, query)
             /\ keys' = IF n = 55 THEN keys \cup {a[1]} ELSE keys
             /\ err' = Complaint(n, a)
  /\ UNCHANGED <<text, pos>>

Reduce ==
  /\ Parser!CanReduce(p)
  /\ LET n == Parser!Default(p)
         a == Parser!Arguments(p)
     IN IF Panics(n, a)
        THEN p' = [p EXCEPT !.ret = "panic"] /\ UNCHANGED <<query, keys, err>>
        ELSE /\ p' = Parser!Reduced(p, Value(n, a))
             /\ query' = Effect(n, a, query)
             /\ keys' = IF n = 55 THEN keys \cup {a[1]} ELSE keys
             /\ err' = IF Complaint(n, a) = "none" THEN err ELSE Complaint(n, a)
  /\ UNCHANGED <<text, pos>>

Accept ==
  /\ Parser!CanAccept(p)
  /\ p' = Parser!Accepted(p)
  /\ UNCHANGED <<text, pos, query, keys, err>>

Reject ==
  /\ Parser!CanFail(p)
  /\ p' = Parser!Failed(p)
  /\ err' = "syntax"
  /\ UNCHANGED <<text, pos, query, keys>>

ParserNext == Lex \/ Shift \/ Reduce \/ Accept \/ Reject

-----------------------------------------------------------------------------
(* The parsed query *)

Parsed == ~Parser!Running(p) /\ p.ret # "panic"

(* ParsedQuery.Keys, under which the broker files a subscription. *)
Keys_AsWritten == keys
Keys == {cleantagstring(k) : k \in keys}

(* time.Time.UnixNano is an int64; the parameters are uint64. *)
UnixNano(t) == uint64(int64(t))

(* ParsedQuery.GetParams of a data query. *)
DataParams(q) ==
  [Where |-> q.where, StreamLimit |-> q.data.Limit.Streamlimit, DataLimit |-> q.data.Limit.Limit,
   Begin |-> UnixNano(q.data.Start), End |-> UnixNano(q.data.End),
   ConvertToUnit |-> q.data.Timeconv, IsStatistical |-> q.data.IsStatistical,
   IsWindow |-> q.data.IsWindow, Width |-> q.data.Width, PointWidth |-> int64(q.data.PointWidth)]

(* Distinct without a tag: Target[0] of an empty list. *)
ParamsPanic(q) == q.qtype = "select" /\ q.distinct /\ q.Contents = Nil
=============================================================================

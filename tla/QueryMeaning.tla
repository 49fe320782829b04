---------------------------- MODULE QueryMeaning ----------------------------
(***************************************************************************)
(* What a statement of the query language says, independently of how it is *)
(* parsed: the grammar of query.y without its automaton, statements as     *)
(* abstract syntax, how they are spelled, and which documents satisfy a    *)
(* where clause.  A where clause reads from the left, "and" and "or" bind  *)
(* alike.  A tag is a sequence of segments.                                *)
(***************************************************************************)
EXTENDS Integers, Sequences, SequencesExt

CONSTANTS Matches   \* pairs of a pattern and a value that it matches

-----------------------------------------------------------------------------
(* The grammar (query.y:58-413): the right-hand sides of each symbol, the  *)
(* left recursion of whereList turned into one on the right.               *)

Grammar ==
  [query |-> {<<"SELECT", "selector", "where", "SEMICOLON">>, <<"SELECT", "selector", "SEMICOLON">>,
              <<"SELECT", "dataClause", "where", "SEMICOLON">>,
              <<"SET", "setList", "where", "SEMICOLON">>, <<"SET", "setList", "SEMICOLON">>,
              <<"DELETE", "tagList", "where", "SEMICOLON">>,
              <<"DELETE", "dataClause", "where", "SEMICOLON">>, <<"DELETE", "where", "SEMICOLON">>},
   tagList |-> {<<"LVALUE">>, <<"LVALUE", "COMMA", "tagList">>},
   values |-> {<<"LBRACK", "valueList", "RBRACK">>},
   valueList |-> {<<"QSTRING">>, <<"QSTRING", "COMMA", "valueList">>},
   setList |-> {<<"LVALUE", "EQ", "setValue">>, <<"LVALUE", "EQ", "setValue", "COMMA", "setList">>},
   setValue |-> {<<"QSTRING">>, <<"NUMBER">>, <<"values">>},
   selector |-> {<<"tagList">>, <<"ALL">>, <<"DISTINCT", "LVALUE">>, <<"DISTINCT">>},
   dataClause |-> {<<"DATA", "IN", "span", "limit", "timeconv">>,
                   <<"DATA", "IN", "timeref", "COMMA", "timeref", "limit", "timeconv">>,
                   <<"STATISTICAL", "LPAREN", "NUMBER", "RPAREN", "DATA", "IN", "span", "limit", "timeconv">>,
                   <<"STATISTICS", "LPAREN", "NUMBER", "RPAREN", "DATA", "IN", "span", "limit", "timeconv">>,
                   <<"WINDOW", "LPAREN", "NUMBER", "LVALUE", "RPAREN", "DATA", "IN", "span", "limit", "timeconv">>,
                   <<"DATA", "BEFORE", "timeref", "limit", "timeconv">>,
                   <<"DATA", "AFTER", "timeref", "limit", "timeconv">>},
   span |-> {<<"LPAREN", "timeref", "COMMA", "timeref", "RPAREN">>},
   timeref |-> {<<"abstime">>, <<"abstime", "reltime">>},
   abstime |-> {<<"NUMBER", "LVALUE">>, <<"NUMBER">>, <<"QSTRING">>, <<"NOW">>},
   reltime |-> {<<"NUMBER", "LVALUE">>, <<"NUMBER", "LVALUE", "reltime">>},
   limit |-> {<<>>, <<"LIMIT", "NUMBER">>, <<"STREAMLIMIT", "NUMBER">>,
              <<"LIMIT", "NUMBER", "STREAMLIMIT", "NUMBER">>},
   timeconv |-> {<<>>, <<"AS", "LVALUE">>},
   where |-> {<<"WHERE", "term", "terms">>, <<"WHERE", "NOT", "term", "terms">>},
   terms |-> {<<>>, <<"AND", "term", "terms">>, <<"OR", "term", "terms">>},
   term |-> {<<"LVALUE", "LIKE", "QSTRING">>, <<"LVALUE", "EQ", "QSTRING">>, <<"LVALUE", "EQ", "NUMBER">>,
             <<"LVALUE", "NEQ", "QSTRING">>, <<"HAS", "LVALUE">>, <<"values", "IN", "LVALUE">>,
             <<"values", "NOT", "IN", "LVALUE">>, <<"LPAREN", "term", "RPAREN">>}]

(* The grammar derives the whole sequence of tokens: ends[A, i] are the    *)
(* positions at which a phrase of A that starts at i may end. *)
IsSentence(tokens) ==
  LET n == Len(tokens)
      ends[A \in DOMAIN Grammar, from \in 1 .. n + 1] ==
        LET after(symbol, i) ==
              IF symbol \in DOMAIN Grammar THEN ends[symbol, i]
              ELSE IF i <= n /\ tokens[i].t = symbol THEN {i + 1} ELSE {}
            along(rhs) ==
              FoldLeft(LAMBDA reached, symbol : UNION {after(symbol, i) : i \in reached}, {from}, rhs)
        IN UNION {along(rhs) : rhs \in Grammar[A]}
  IN n + 1 \in ends["query", 1]

-----------------------------------------------------------------------------
(* Spelling *)

Token(t, s) == [t |-> t, s |-> s]
Word_(t)    == Token(t, <<t>>)
Words(ts)   == [i \in DOMAIN ts |-> Word_(ts[i])]

Name(tag)   == Token("LVALUE", [i \in 1 .. 2 * Len(tag) - 1 |-> IF i % 2 = 1 THEN tag[(i + 1) \div 2] ELSE "/"])
Quoted(v)   == Token("QSTRING", <<"'">> \o v \o <<"'">>)
Number(t)   == Token("NUMBER", t)
Unit(u)     == Token("LVALUE", u)

(* The pieces, with a comma between two. *)
Commas(pieces) ==
  FoldLeft(LAMBDA s, i : s \o (IF i = 1 THEN <<>> ELSE Words(<<"COMMA">>)) \o pieces[i],
           <<>>, [i \in DOMAIN pieces |-> i])

Each(Op_(_), s) == [i \in DOMAIN s |-> <<Op_(s[i])>>]
Bracketed(vs) == Words(<<"LBRACK">>) \o Commas(Each(Quoted, vs)) \o Words(<<"RBRACK">>)
Paren(s) == Words(<<"LPAREN">>) \o s \o Words(<<"RPAREN">>)

(* A term: a form, a tag, the values it names, and whether it stands in    *)
(* parentheses. *)
SpellTerm(t) ==
  LET bare == CASE t.form = "like"  -> <<Name(t.tag), Word_("LIKE"), Quoted(t.values[1])>>
                [] t.form = "eq"    -> <<Name(t.tag), Word_("EQ"), Quoted(t.values[1])>>
                [] t.form = "eqnum" -> <<Name(t.tag), Word_("EQ"), Number(t.values[1])>>
                [] t.form = "neq"   -> <<Name(t.tag), Word_("NEQ"), Quoted(t.values[1])>>
                [] t.form = "has"   -> <<Word_("HAS"), Name(t.tag)>>
                [] t.form = "in"    -> Bracketed(t.values) \o <<Word_("IN"), Name(t.tag)>>
                [] t.form = "notin" -> Bracketed(t.values) \o <<Word_("NOT"), Word_("IN"), Name(t.tag)>>
  IN IF t.paren THEN Paren(bare) ELSE bare

(* A where clause: perhaps "not", a term, and terms joined to what stands  *)
(* to the left of them.  A statement without one has no terms. *)
SpellWhere(w) ==
  IF w.terms = <<>> THEN <<>>
  ELSE Words(<<"WHERE">>) \o (IF w.not THEN Words(<<"NOT">>) ELSE <<>>)
         \o FoldLeft(LAMBDA s, i : s \o (IF i = 1 THEN <<>> ELSE Words(<<w.joins[i - 1]>>)) \o SpellTerm(w.terms[i]),
                     <<>>, [i \in DOMAIN w.terms |-> i])

SpellTime(t) ==
  (CASE t.form = "unit"    -> <<Number(t.num), Unit(t.unit)>>
     [] t.form = "seconds" -> <<Number(t.num)>>
     [] t.form = "date"    -> <<Quoted(t.num)>>
     [] t.form = "now"     -> <<Word_("NOW")>>)
    \o FlattenSeq([i \in DOMAIN t.rel |-> <<Number(t.rel[i].num), Unit(t.rel[i].unit)>>])

SpellLimit(l) ==
  (IF l.limit = <<>> THEN <<>> ELSE <<Word_("LIMIT"), Number(l.limit)>>)
    \o (IF l.stream = <<>> THEN <<>> ELSE <<Word_("STREAMLIMIT"), Number(l.stream)>>)
    \o (IF l.unit = <<>> THEN <<>> ELSE <<Word_("AS"), Unit(l.unit)>>)

SpellData(d) ==
  LET span == SpellTime(d.start) \o Words(<<"COMMA">>) \o SpellTime(d.end)
  IN (CASE d.op = "in" -> Words(<<"DATA", "IN">>) \o span
        [] d.op = "span" -> Words(<<"DATA", "IN">>) \o Paren(span)
        [] d.op = "before" -> Words(<<"DATA", "BEFORE">>) \o SpellTime(d.start)
        [] d.op = "after" -> Words(<<"DATA", "AFTER">>) \o SpellTime(d.start)
        [] d.op \in {"statistical", "statistics"} ->
             <<Word_(IF d.op = "statistical" THEN "STATISTICAL" ELSE "STATISTICS")>>
               \o Paren(<<Number(d.width.num)>>) \o Words(<<"DATA", "IN">>) \o Paren(span)
        [] d.op = "window" ->
             Words(<<"WINDOW">>) \o Paren(<<Number(d.width.num), Unit(d.width.unit)>>)
               \o Words(<<"DATA", "IN">>) \o Paren(span))
       \o SpellLimit(d.limit)

SpellSets(sets) ==
  Commas([i \in DOMAIN sets |->
    <<Name(sets[i].tag), Word_("EQ")>>
      \o (CASE sets[i].form = "text"   -> <<Quoted(sets[i].values[1])>>
            [] sets[i].form = "number" -> <<Number(sets[i].values[1])>>
            [] sets[i].form = "list"   -> Bracketed(sets[i].values))])

Spell(st) ==
  (CASE st.kind = "select"   -> Words(<<"SELECT">>) \o (IF st.tags = <<>> THEN Words(<<"ALL">>) ELSE Commas(Each(Name, st.tags)))
     [] st.kind = "distinct" -> Words(<<"SELECT", "DISTINCT">>) \o FlattenSeq(Each(Name, st.tags))
     [] st.kind = "data"     -> Words(<<"SELECT">>) \o SpellData(st.data)
     [] st.kind = "set"      -> Words(<<"SET">>) \o SpellSets(st.sets)
     [] st.kind = "delete"   -> Words(<<"DELETE">>) \o Commas(Each(Name, st.tags))
     [] st.kind = "deletedata" -> Words(<<"DELETE">>) \o SpellData(st.data))
    \o SpellWhere(st.where)

-----------------------------------------------------------------------------
(* Meaning: a document is a function from tags to values, a value what a   *)
(* string token says or a sequence of them. *)

HoldsTerm(doc, t) ==
  LET has == t.tag \in DOMAIN doc
  IN CASE t.form = "like" -> has /\ \E v \in Range(t.values) : <<v, doc[t.tag]>> \in Matches
       [] t.form \in {"eq", "eqnum", "in"} -> has /\ doc[t.tag] \in Range(t.values)
       [] t.form \in {"neq", "notin"} -> ~has \/ doc[t.tag] \notin Range(t.values)
       [] t.form = "has" -> has

HoldsWhere(doc, w) ==
  LET first == IF w.not THEN ~HoldsTerm(doc, w.terms[1]) ELSE HoldsTerm(doc, w.terms[1])
  IN w.terms # <<>> =>
       FoldLeft(LAMBDA b, i : IF w.joins[i] = "AND" THEN b /\ HoldsTerm(doc, w.terms[i + 1])
                              ELSE b \/ HoldsTerm(doc, w.terms[i + 1]),
                first, [i \in DOMAIN w.joins |-> i])

=============================================================================

--------------------------- MODULE ObjectBuilder ---------------------------
(***************************************************************************)
(* The object builder (objectbuilder): expressions like key1[3].key3, the  *)
(* operations that Parse makes of them, and what Eval makes of an object.  *)
(* Every call has a parser of its own, but all of them share one lexer,    *)
(* which holds the input, the operations and the error; no lock guards it. *)
(* An object is a record with its kind: an array with its items, a map or  *)
(* struct with its fields, nil, or a leaf.                                 *)
(***************************************************************************)
EXTENDS Integers, Sequences, SequencesExt

CONSTANTS
  Threads,      \* goroutines that parse and evaluate
  Atoi,         \* what strconv.Atoi makes of a NUMBER: 0 of one that is no integer
  Steps,        \* the expressions that they parse, as sequences of steps
  Malformed,    \* sequences of tokens that are no expressions
  Objects       \* what they evaluate it on

VARIABLES
  scanner,      \* the tokens that the shared lexer has not read yet
  operations,   \* its operations
  error,        \* its error
  at,           \* where each goroutine stands
  job,          \* the expression and object it works on
  parser,       \* its parser
  value,        \* what it returns
  alone         \* history: no other call has touched the lexer during its own

vars == <<scanner, operations, error, at, job, parser, value, alone>>

-----------------------------------------------------------------------------
(* The tables of expr.go *)

exExca == <<-1, 1, 1, -1, -2, 0>>
exAct == <<
  12, 11, 18, 15, 6, 2, 16, 5, 10, 4, 4, 5, 13, 8, 14, 19, 17, 9, 3, 1, 7>>
exPact == <<
  3, -1000, 7, 7, -1000, -8, -1000, 7, 2, -1000, -1000, -2, 11, -1000, -1000,
  -1000, -7, -1000, 10, -1000>>
exPgo == <<0, 17, 5, 20, 4, 19>>
exR1 == <<0, 5, 5, 5, 5, 4, 4, 3, 3, 1, 1, 1, 2>>
exR2 == <<0, 2, 2, 1, 1, 1, 2, 2, 1, 3, 5, 3, 1>>
exChk == <<
  -1000, -5, -2, -1, 7, 4, -4, -3, 6, -1, -4, 9, 8, -4, -2, 5, 8, 5, 9, 5>>
exDef == <<0, -2, 3, 4, 12, 0, 1, 5, 0, 8, 2, 0, 0, 6, 7, 9, 0, 11, 0, 10>>

Ex == INSTANCE Goyacc WITH
  Exca <- exExca, Act <- exAct, Pact <- exPact, Pgo <- exPgo,
  R1 <- exR1, R2 <- exR2, Chk <- exChk, Def <- exDef

exToknames == <<"LBRACKET", "RBRACKET", "DOT", "KEY", "COLON", "NUMBER">>

-----------------------------------------------------------------------------
(* Operations *)

Nil == <<>>
ObjectOperator(key)  == [op |-> "object", key |-> key]
Index(n)             == [op |-> "index", index |-> n]
Slice(start, end)    == [op |-> "slice", start |-> start, end |-> end]
All                  == [op |-> "all"]

(* The value of production n; those of 1-4, the expressions, go to the     *)
(* lexer. *)
Value(n, a) ==
  CASE n \in 1 .. 4 -> Nil
    [] n = 5  -> <<a[1]>>
    [] n = 6  -> <<a[1]>> \o a[2]
    [] n = 7  -> a[2]
    [] n = 8  -> a[1]
    [] n = 9  -> Index(Atoi[a[2]])
    [] n = 10 -> Slice(Atoi[a[2]], Atoi[a[4]])
    [] n = 11 -> All
    [] n = 12 -> ObjectOperator(a[1])

Effect(n, a, ops) ==
  CASE n \in {1, 2} -> <<a[1]>> \o a[2]
    [] n \in {3, 4} -> <<a[1]>>
    [] OTHER -> ops

-----------------------------------------------------------------------------
(* Evaluation *)

Leaf(x)  == [kind |-> "leaf", leaf |-> x]
Array(s) == [kind |-> "array", items |-> s]
Dict(f)  == [kind |-> "map", fields |-> f]
Panic    == [kind |-> "panic"]

EvalArray_WithEnd(o, v) ==
  LET length == Len(v.items)
      item(i)== IF i \in 0 .. length - 1 THEN v.items[i + 1] ELSE Panic
      end    == IF o.end >= length THEN length ELSE o.end + 1
  IN IF v.kind # "array" \/ o.op = "all" THEN v
     ELSE IF o.op = "slice"
          THEN IF 0 <= o.start /\ o.start <= end THEN Array(SubSeq(v.items, o.start + 1, end)) ELSE Panic
          ELSE CASE o.index > length -> item(length - 1)
                 [] o.index < 0 -> item(length + o.index)
                 [] OTHER -> item(o.index)

EvalArray(o, v) ==
  LET length == Len(v.items)
      item(i)== IF i \in 0 .. length - 1 THEN v.items[i + 1] ELSE Panic
      end    == IF o.end > length THEN length ELSE o.end
  IN IF v.kind # "array" \/ o.op = "all" THEN v
     ELSE IF o.op = "slice"
          THEN IF 0 <= o.start /\ o.start <= end THEN Array(SubSeq(v.items, o.start + 1, end)) ELSE Panic
          ELSE CASE o.index > length -> item(length - 1)
                 [] o.index < 0 -> item(length + o.index)
                 [] OTHER -> item(o.index)

EvalObject(o, v) ==
  IF v.kind = "map" /\ o.key \in DOMAIN v.fields THEN v.fields[o.key] ELSE v

Eval(ops, v) ==
  FoldLeft(LAMBDA w, o : IF w = Panic THEN w ELSE IF o.op = "object" THEN EvalObject(o, w) ELSE EvalArray(o, w), v, ops)

-----------------------------------------------------------------------------
(* Expressions *)

Token(t, s) == [t |-> t, s |-> s]
SpellStep(step) ==
  CASE step.form = "key"   -> <<Token("DOT", "."), Token("KEY", step.key)>>
    [] step.form = "index" -> <<Token("LBRACKET", "["), Token("NUMBER", step.text), Token("RBRACKET", "]")>>
    [] step.form = "slice" -> <<Token("LBRACKET", "["), Token("NUMBER", step.text), Token("COLON", ":"),
                                Token("NUMBER", step.upto), Token("RBRACKET", "]")>>
    [] step.form = "all"   -> <<Token("LBRACKET", "["), Token("COLON", ":"), Token("RBRACKET", "]")>>

(* No dot stands before a key at the beginning. *)
SpellSteps(steps) ==
  LET tokens == FlattenSeq([i \in DOMAIN steps |-> SpellStep(steps[i])])
  IN IF steps # Nil /\ steps[1].form = "key" THEN Tail(tokens) ELSE tokens

(* What is parsed: tokens, and the steps that they spell if they spell any. *)
Expressions ==
  {[steps |-> s, tokens |-> SpellSteps(s)] : s \in Steps} \cup {[steps |-> Nil, tokens |-> ts] : ts \in Malformed}

-----------------------------------------------------------------------------
(* Parsing *)

NoJob == [steps |-> Nil, tokens |-> Nil, object |-> Leaf("none")]

Init ==
  /\ scanner = Nil /\ operations = Nil /\ error = "none"
  /\ at = [t \in Threads |-> "idle"]
  /\ job \in [Threads -> {[steps |-> e.steps, tokens |-> e.tokens, object |-> o] : e \in Expressions, o \in Objects}]
  /\ parser = [t \in Threads |-> Ex!Start(Nil)]
  /\ value = [t \in Threads |-> Leaf("none")]
  /\ alone = [t \in Threads |-> TRUE]

GoTo(t, l) == at' = [at EXCEPT ![t] = l]

Busy(t) == at[t] \notin {"idle", "done"}

(* lexer.Parse: first the fields, then the scanner. *)
Reset(t) ==
  /\ at[t] = "idle"
  /\ operations' = Nil /\ error' = "none"
  /\ GoTo(t, "reset")
  /\ alone' = [u \in Threads |-> IF u = t THEN ~\E x \in Threads \ {t} : Busy(x) ELSE alone[u] /\ ~Busy(u)]   \* two calls overlap when one begins during the other
  /\ UNCHANGED <<scanner, job, parser, value>>

SetInput(t) ==
  /\ at[t] = "reset"
  /\ scanner' = job[t].tokens
  /\ GoTo(t, "parse")
  /\ UNCHANGED <<operations, error, job, parser, value, alone>>

Parsing(t) == at[t] = "parse"
Works(t, p) == parser' = [parser EXCEPT ![t] = p] /\ UNCHANGED <<at, job, value>>

Lex(t) ==
  /\ Parsing(t)
  /\ Ex!WantsToken(parser[t])
  /\ IF scanner = Nil
     THEN Works(t, Ex!Read(parser[t], Ex!EOF, parser[t].lval)) /\ UNCHANGED scanner
     ELSE /\ Works(t, Ex!Read(parser[t], 3 + SelectInSeq(exToknames, LAMBDA n : n = Head(scanner).t), Head(scanner).s))
          /\ scanner' = Tail(scanner)
  /\ UNCHANGED <<operations, error, alone>>

Shift(t) ==
  /\ Parsing(t)
  /\ Ex!CanShift(parser[t])
  /\ Works(t, Ex!Shifted(parser[t]))
  /\ UNCHANGED <<scanner, operations, error, alone>>

Reduce(t) ==
  /\ Parsing(t)
  /\ Ex!CanReduce(parser[t])
  /\ LET n == Ex!Default(parser[t])
         a == Ex!Arguments(parser[t])
     IN /\ Works(t, Ex!Reduced(parser[t], Value(n, a)))
        /\ operations' = Effect(n, a, operations)
  /\ UNCHANGED <<scanner, error, alone>>

Accept(t) ==
  /\ Parsing(t)
  /\ Ex!CanAccept(parser[t])
  /\ Works(t, Ex!Accepted(parser[t]))
  /\ UNCHANGED <<scanner, operations, error, alone>>

Reject(t) ==
  /\ Parsing(t)
  /\ Ex!CanFail(parser[t])
  /\ Works(t, Ex!Failed(parser[t]))
  /\ error' = "syntax"
  /\ UNCHANGED <<scanner, operations, alone>>

(* Parse prints an error and returns the operations all the same; the      *)
(* caller evaluates them. *)
ParseAndEval(t) ==
  /\ Parsing(t)
  /\ ~Ex!Running(parser[t])
  /\ value' = [value EXCEPT ![t] = Eval(operations, job[t].object)]
  /\ GoTo(t, "done")
  /\ UNCHANGED <<scanner, operations, error, job, parser, alone>>

Next ==
  \E t \in Threads :
    \/ Reset(t) \/ SetInput(t)
    \/ Lex(t) \/ Shift(t) \/ Reduce(t) \/ Accept(t) \/ Reject(t)
    \/ ParseAndEval(t)

-----------------------------------------------------------------------------
(* What an expression says of an object, as far as the object has it:      *)
(* every step leads from an object to a part of it, and a key that names   *)
(* no part to the object itself. *)

Leads(step, v) ==
  CASE step.form = "key"   -> TRUE
    [] step.form = "index" -> v.kind = "array" /\ step.n \in -Len(v.items) .. Len(v.items) - 1
    [] step.form = "slice" -> v.kind = "array" /\ step.from \in 0 .. Len(v.items) /\ step.from <= step.to
    [] step.form = "all"   -> TRUE

Follow(step, v) ==
  CASE step.form = "key"   -> IF v.kind = "map" /\ step.key \in DOMAIN v.fields THEN v.fields[step.key] ELSE v
    [] step.form = "index" -> v.items[1 + (step.n % Len(v.items))]
    [] step.form = "slice" ->
         Array([i \in {j \in DOMAIN v.items : step.from + j \in DOMAIN v.items /\ step.from + j <= step.to} |->
                  v.items[step.from + i]])
    [] step.form = "all"   -> v

Nowhere == [kind |-> "nowhere"]
Denoted(steps, v) ==
  FoldLeft(LAMBDA w, step : IF w # Nowhere /\ Leads(step, w) THEN Follow(step, w) ELSE Nowhere, v, steps)

Done(t) == at[t] = "done"
Right(t) ==
  /\ parser[t].ret = "rejected" <=> job[t].steps = Nil
  /\ job[t].steps # Nil =>
       Denoted(job[t].steps, job[t].object) \in {value[t], Nowhere}

(* What Parse and Eval make of an expression is what its steps lead to     *)
(* (README.md:9-23 of the package), unless another call has touched the    *)
(* shared lexer meanwhile.  "[:].key" stays at the array, which has no     *)
(* keys; that is not what README.md:24 says of it (EveryItemIsAsked). *)
ExpressionsMeanWhatTheySay == \A t \in Threads : Done(t) /\ alone[t] => Right(t)

(* The same of calls that overlap, as those of the BOSSWAVE archiver may,  *)
(* which handles every message in a goroutine of its own. *)
OverlappingCallsDoNotMix == \A t \in Threads : Done(t) => Right(t)

(* README.md:24: "[:].key1: return a list of values of key1 from every     *)
(* item in the root array". *)
EveryItemIsAsked ==
  \A t \in Threads : Done(t) /\ alone[t] =>
    LET steps == job[t].steps
        root  == job[t].object
    IN Len(steps) = 2 /\ steps[1].form = "all" /\ steps[2].form = "key" /\ root.kind = "array" =>
         value[t] = Array([i \in DOMAIN root.items |-> Follow(steps[2], root.items[i])])

(* README.md:41-45: "key1[0]" of a map whose key1 is "a", "b" is "b". *)
ExampleIsRight ==
  \A t \in Threads : Done(t) /\ alone[t] =>
    LET steps == job[t].steps
        root  == job[t].object
    IN Len(steps) = 2 /\ steps[1].form = "key" /\ steps[2].form = "index" /\ steps[2].n = 0
       /\ root.kind = "map" /\ steps[1].key \in DOMAIN root.fields /\ root.fields[steps[1].key].kind = "array" =>
         value[t] = root.fields[steps[1].key].items[2]

(* README.md:12: "supports negative index": every index of an array answers *)
(* an item or, beyond its end, the last one; none ends the goroutine. *)
NoIndexPanics == \A t \in Threads : Done(t) /\ alone[t] => value[t] # Panic
=============================================================================

------------------------------- MODULE Goyacc -------------------------------
(***************************************************************************)
(* The parser that goyacc writes into every file it generates              *)
(* (querylang/query.go, objectbuilder/expr.go): an automaton over a stack  *)
(* of states and values, driven by the tables of the grammar.  A parser is *)
(* a record; the operators say what it may do next and what each step      *)
(* makes of it.  The values of the productions, which are the grammar's    *)
(* own code, are handed in.  A symbol's value is the one field that its    *)
(* %type names.  The tables are counted from 0, tuples from 1.             *)
(***************************************************************************)
EXTENDS Integers, Sequences, FiniteSetsExt

CONSTANTS
  Exca, Act, Pact, Pgo, R1, R2, Chk, Def   \* the tables of the grammar

Flag    == -1000
ErrCode == 2
EOF     == 1
Unread  == -1       \* no lookahead

At(table, i) == table[i + 1]
Size == Len(Act)

Pushed(p, s, v) == [p EXCEPT !.stack = Append(@, [state |-> s, value |-> v])]

(* A parser at work, with no value yet. *)
Start(nothing) ==
  [stack |-> <<[state |-> 0, value |-> nothing]>>, token |-> Unread,
   lval |-> nothing, ret |-> "running"]

State(p) == p.stack[Len(p.stack)].state
Running(p) == p.ret = "running"

Simple(s) == At(Pact, s) <= Flag

(* The next token is read only by a state that has to look at it. *)
WantsToken(p) ==
  /\ Running(p)
  /\ p.token = Unread
  /\ Simple(State(p)) => At(Def, State(p)) = -2

Read(p, token, lval) == [p EXCEPT !.token = token, !.lval = lval]

(* The entry of state s for a token: a shift, if the entry's state is      *)
(* entered by that token. *)
Entry(s, token) == At(Pact, s) + token
Shifts(s, token) ==
  /\ ~Simple(s)
  /\ Entry(s, token) \in 0 .. Size - 1
  /\ At(Chk, At(Act, Entry(s, token))) = token

CanShift(p) == Running(p) /\ p.token # Unread /\ Shifts(State(p), p.token)
Shifted(p) ==
  [Pushed(p, At(Act, Entry(State(p), p.token)), p.lval) EXCEPT !.token = Unread]

(* The exception table: the pairs after <<-1, s>>, up to one that matches  *)
(* the token or whose first half is negative. *)
Exception(s, token) ==
  LET odd   == {i \in 1 .. Len(Exca) : i % 2 = 1}
      start == CHOOSE i \in odd : Exca[i] = -1 /\ Exca[i + 1] = s
      hits  == {i \in odd : i > start /\ (Exca[i] < 0 \/ Exca[i] = token)}
  IN Exca[Min(hits) + 1]

(* What a state does that does not shift: a production's number, 0 for an  *)
(* error, a negative number for acceptance. *)
Default(p) ==
  IF At(Def, State(p)) = -2 THEN Exception(State(p), p.token) ELSE At(Def, State(p))

Defaults(p) == Running(p) /\ ~WantsToken(p) /\ ~CanShift(p)
CanReduce(p) == Defaults(p) /\ Default(p) > 0
CanAccept(p) == Defaults(p) /\ Default(p) < 0
CanFail(p)   == Defaults(p) /\ Default(p) = 0

(* The values of the right-hand side of the production to reduce by. *)
Arguments(p) ==
  LET n == At(R2, Default(p))
  IN [i \in 1 .. n |-> p.stack[Len(p.stack) - n + i].value]

(* The state to enter when production n is reduced on top of state s. *)
Goto(n, s) ==
  LET symbol == At(R1, n)
      base   == At(Pgo, symbol)
      i      == base + s + 1
  IN IF i < Size /\ At(Chk, At(Act, i)) = -symbol THEN At(Act, i) ELSE At(Act, base)

Reduced(p, v) ==
  LET n   == Default(p)
      pop == [p EXCEPT !.stack = SubSeq(@, 1, Len(@) - At(R2, n))]
  IN Pushed(pop, Goto(n, State(pop)), v)

Accepted(p) == [p EXCEPT !.ret = "accepted"]

(* An error: the stack is popped down to a state that shifts the symbol    *)
(* "error".  Without such a state the parser gives up, and no grammar here *)
(* has one (NoRecovery). *)
Failed(p) == [p EXCEPT !.ret = "rejected", !.stack = <<>>]

NoRecovery == \A s \in 0 .. Len(Pact) - 1 : ~Shifts(s, ErrCode)
=============================================================================

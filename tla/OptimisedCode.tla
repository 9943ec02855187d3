---------------------------- MODULE OptimisedCode ----------------------------
(***************************************************************************)
(* Does the optimiser keep the meaning of the code?  Statements become     *)
(* quadruples (the iCodeGen functions of Ast.C), the optimiser rewrites    *)
(* them, and then the quadruples given and the quadruples left are run     *)
(* side by side.  What can be seen of either are prints, comparisons,      *)
(* calls, and at the end the returned value and the globals, each with the *)
(* values it sees.  Values are terms over what the variables held at the   *)
(* start; a call returns a new one and leaves a new one in every global.   *)
(*                                                                         *)
(* Syntax trees are tuples:                                                *)
(*   expressions  <<"var", x>>, <<"val", v>>, <<op, e1, e2>>,              *)
(*                <<"call", f, es>>                                        *)
(*   statements   <<"assign", x, e>>, <<"print", x>>, <<"return", e>>,     *)
(*                <<"do", e>>, <<"seq", ss>>,                              *)
(*                <<"if", c, s>>, <<"ifelse", c, s, t>>, <<"while", c, s>> *)
(* A condition is one comparison, <<op, e1, e2>>; ControlFlow has the      *)
(* rest.                                                                   *)
(***************************************************************************)
EXTENDS Optimiser

CONSTANT MaxTests   \* comparisons made in a run

-----------------------------------------------------------------------------
(* From trees to quadruples; n numbers temporaries and labels.             *)

SetLabel(code, l) == [code EXCEPT ![1].label = l]
Exit == <<"exit">>
Label(n) == <<"Label", n>>

Call(f, args, n) == Quad("CALL", <<"inv", f>>, <<"params", args>>, Temp(n))

RECURSIVE Expr(_, _), Args(_, _)
Expr(e, n) ==
  CASE e[1] \in {"var", "val"} -> [code |-> <<>>, val |-> e, n |-> n]
    [] e[1] = "call" ->
         LET as == Args(e[3], n)
         IN  [ code |-> Append(as.code, Call(e[2], as.vals, as.n)),
               val |-> Temp(as.n), n |-> as.n + 1 ]
    [] OTHER ->
         LET l == Expr(e[2], n)
             r == Expr(e[3], l.n)
         IN  [ code |-> l.code \o Append(r.code, Quad(e[1], l.val, r.val, Temp(r.n))),
               val |-> Temp(r.n), n |-> r.n + 1 ]

Args(es, n) ==
  IF es = <<>> THEN [code |-> <<>>, vals |-> <<>>, n |-> n]
  ELSE LET h == Expr(Head(es), n)
           t == Args(Tail(es), h.n)
       IN  [code |-> h.code \o t.code, vals |-> <<h.val>> \o t.vals, n |-> t.n]

\* A comparison that jumps to T when it holds and to F when not.
Condition(c, T, F, n) ==
  LET l == Expr(c[2], n)
      r == Expr(c[3], l.n)
  IN  [ code |-> l.code \o r.code \o <<Jmpc(<<"quad", c[1], l.val, r.val>>, T), Jmp(F)>>,
        n |-> r.n ]

RECURSIVE Gen(_, _)
Gen(s, n) ==
  CASE s[1] = "assign" ->
         LET e == Expr(s[3], n)
         IN  [code |-> Append(e.code, Quad("ASSIGN", e.val, NoElem, <<"var", s[2]>>)), n |-> e.n + 1]
    [] s[1] = "print" -> [code |-> <<Quad("PRINT", <<"var", s[2]>>, NoElem, NoElem)>>, n |-> n]
    [] s[1] = "do" -> LET e == Expr(s[2], n) IN [code |-> e.code, n |-> e.n]
    [] s[1] = "return" ->
         LET e == Expr(s[2], n)
         IN  [code |-> e.code \o <<Quad("RET", e.val, NoElem, NoElem), Jmp(Exit)>>, n |-> e.n]
    [] s[1] = "seq" ->
         IF s[2] = <<>> THEN [code |-> <<>>, n |-> n]
         ELSE LET h == Gen(Head(s[2]), n)
                  t == Gen(<<"seq", Tail(s[2])>>, h.n)
              IN  [code |-> h.code \o t.code, n |-> t.n]
    [] s[1] = "if" ->
         LET c == Condition(s[2], Label(n), Label(n + 2), n + 3)
             b == Gen(s[3], c.n)
         IN  [ code |-> c.code \o SetLabel(b.code, Label(n)) \o <<Default(Label(n + 2))>>,
               n |-> b.n ]
    [] s[1] = "ifelse" ->
         LET c == Condition(s[2], Label(n), Label(n + 1), n + 3)
             b == Gen(s[3], c.n)
             e == Gen(s[4], b.n)
         IN  [ code |-> c.code \o SetLabel(b.code, Label(n)) \o <<Jmp(Label(n + 2))>>
                        \o SetLabel(e.code, Label(n + 1)) \o <<Default(Label(n + 2))>>,
               n |-> e.n ]
    [] s[1] = "while" ->
         LET c == Condition(s[2], Label(n), Label(n + 1), n + 3)
             b == Gen(s[3], c.n)
         IN  [ code |-> SetLabel(c.code, Label(n + 2)) \o SetLabel(b.code, Label(n))
                        \o <<Jmp(Label(n + 2)), Default(Label(n + 1))>>,
               n |-> b.n ]

Code(s) == Gen(s, 0).code

-----------------------------------------------------------------------------
(* Running quadruples.  A machine is a position, what variables and        *)
(* temporaries hold, and the number of calls made.                         *)

VARIABLES
  given,      \* running source
  left,       \* running quads
  tests,      \* comparisons made
  granted     \* what the optimiser took for granted did hold

runVars == <<given, left, tests, granted>>

Ret == <<"var", "RETI_REG">>

\* An element that was never written holds what it held before.
Value(m, e) ==
  IF e[1] = "val" \/ e \notin DOMAIN m.env THEN e ELSE m.env[e]

Write(m, e, v) ==
  IF e = NoElem THEN m
  ELSE [m EXCEPT !.env = [x \in DOMAIN @ \cup {e} |-> IF x = e THEN v ELSE @[x]]]

Term(q, m) ==
  LET l == Value(m, q.opr1)
      r == Value(m, q.opr2)
  IN  IF Associative(q) THEN <<q.op, {l, r}>> ELSE <<q.op, l, r>>

\* 0 when nothing has the label.
Target(code, l) ==
  IF l = Exit THEN Len(code) + 1
  ELSE SelectInSeq(code, LAMBDA q : q.label = l \/ (q.op = "DEFAULT" /\ q.to = l))

Step(m) == [m EXCEPT !.pc = @ + 1]

\* Up to what can be seen next.
RECURSIVE Settle(_, _)
Settle(code, m) ==
  IF m.pc \notin DOMAIN code THEN m
  ELSE LET q == code[m.pc] IN
       CASE q.op \in {"PRINT", "JMPC", "CALL"} -> m
         [] q.op = "JMP" -> Settle(code, [m EXCEPT !.pc = Target(code, q.to)])
         [] q.op = "DEFAULT" -> Settle(code, Step(m))
         [] q.op = "ASSIGN" -> Settle(code, Step(Write(m, q.res, Value(m, q.opr1))))
         [] q.op = "RET" -> Settle(code, Step(Write(m, Ret, Value(m, q.opr1))))
         [] Arithmetic(q) -> Settle(code, Step(Write(m, q.res, Term(q, m))))

GlobalValues(m) == [x \in Globals |-> Value(m, <<"var", x>>)]

Seen(code, m) ==
  IF m.pc = 0 THEN <<"lost">>
  ELSE IF m.pc > Len(code) THEN <<"exit", Value(m, Ret), GlobalValues(m)>>
  ELSE LET q == code[m.pc] IN
       CASE q.op = "PRINT" -> <<"print", Value(m, q.opr1)>>
         [] q.op = "JMPC" ->
              <<"test", q.opr1[2], Value(m, q.opr1[3]), Value(m, q.opr1[4])>>
         [] q.op = "CALL" ->
              <<"call", q.opr1[2], [k \in DOMAIN q.opr2[2] |-> Value(m, q.opr2[2][k])],
                GlobalValues(m)>>

Called(m, res) ==
  LET c == m.calls + 1
      Changed == [x \in { <<"var", y>> : y \in Globals } |-> <<"changed", x[2], c>>]
      env == [x \in DOMAIN m.env \cup DOMAIN Changed |->
                IF x \in DOMAIN Changed THEN Changed[x] ELSE m.env[x]]
  IN  Write([m EXCEPT !.env = env, !.calls = c], res, <<"returned", c>>)

\* After what was seen; b is the outcome of a comparison.
After(code, m, b) ==
  LET q == code[m.pc] IN
  Settle(code, CASE q.op = "PRINT" -> Step(m)
                 [] q.op = "JMPC" -> IF b THEN [m EXCEPT !.pc = Target(code, q.to)] ELSE Step(m)
                 [] q.op = "CALL" -> Step(Called(m, q.res)))

Start(code) == Settle(code, [pc |-> 1, env |-> <<>>, calls |-> 0])

-----------------------------------------------------------------------------
(* What the optimiser takes for granted.  It tests none of this, and a     *)
(* rewriting where it does not hold may change what the code means.        *)

\* The only way to j is through i: no place between them is jumped to.
OneWay ==
  /\ its.label = NoLabel
  /\ ~Between(i, j, LAMBDA q : q.label # NoLabel \/ q.op = "DEFAULT")

\* No call between i and j changes what i computes from.
NoCallee ==
  IsGlobal(mine.opr1) \/ IsGlobal(mine.opr2) => ~Between(i, j, LAMBDA q : q.op = "CALL")

\* Whoever needs j's result has it as an operand of its own, not inside a
\* comparison or among arguments.
DirectUse ==
  \A p \in j + 1 .. Len(quads) :
    Reads(quads[p], its.res) => its.res \in {quads[p].opr1, quads[p].opr2}

\* The variable that is copied to is not read or written before it is, and
\* if it is a global, no callee runs.
FreeTarget ==
  LET target == quads[replaceIndex].res IN
  ~Between(i, replaceIndex, LAMBDA q : \/ Reads(q, target) \/ q.res = target
                                       \/ q.op = "CALL" /\ IsGlobal(target))

Granted ==
  /\ RepeatFound => OneWay /\ NoCallee /\ DirectUse
  /\ CopyFound => FreeTarget

-----------------------------------------------------------------------------

NotStarted == [pc |-> -1, env |-> <<>>, calls |-> 0]
Running == given.pc # -1

InitCode == Init /\ given = NotStarted /\ left = NotStarted /\ tests = 0 /\ granted = TRUE

Optimise == Next /\ granted' = (granted /\ Granted) /\ UNCHANGED <<given, left, tests>>

Begin ==
  /\ pass = 3 /\ ~Running
  /\ given' = Start(source)
  /\ left' = Start(quads)
  /\ UNCHANGED <<vars, tests, granted>>

\* One thing both are seen to do.
Run(b) ==
  /\ Running
  /\ Seen(source, given) = Seen(quads, left)
  /\ Seen(source, given)[1] \in {"print", "test", "call"}
  /\ IF Seen(source, given)[1] = "test" THEN tests < MaxTests /\ tests' = tests + 1
     ELSE b /\ tests' = tests
  /\ given' = After(source, given, b)
  /\ left' = After(quads, left, b)
  /\ UNCHANGED <<vars, granted>>

NextCode == Optimise \/ Begin \/ \E b \in BOOLEAN : Run(b)

\* The optimiser is a loop of a sequential program: it keeps running.
SpecCode == InitCode /\ [][NextCode]_<<vars, runVars>> /\ WF_vars(Next)
-----------------------------------------------------------------------------
(* Properties                                                              *)

\* When what the optimiser took for granted does hold, the optimised code
\* prints, compares, calls and returns what the code given does, with the
\* same values, and leaves the same globals: no assignment was erased that is
\* read, no expression reused after an operand changed, none moved over a
\* jump, no jump lost its target.
SameMeaning == Running /\ granted => Seen(source, given) = Seen(quads, left)

\* Both passes end, though they erase from what they walk.
Ends == <>(pass = 3)
=============================================================================

---------------------------- MODULE ControlFlow ----------------------------
(***************************************************************************)
(* The code for IF, WHILE, BREAK and conditions: from the syntax tree to   *)
(* quadruples with labels (the iCodeGen functions of Ast.C), from those to *)
(* instructions (Quadruple::iCodeToAsmGen), and to the file, where labels  *)
(* that name the same place are merged (GlobalEntry::serializeAsm).        *)
(*                                                                         *)
(* The compiled code and the source are run side by side.  What can be     *)
(* seen of either is the order of the comparisons, of what is computed for *)
(* their operands and of the other statements; the outcome of a comparison *)
(* is any.                                                                 *)
(*                                                                         *)
(* Syntax trees are tuples:                                                *)
(*   conditions  <<"atom", i, <<s, ...>>>>, <<"and", c, d>>,               *)
(*               <<"or", c, d>>, <<"not", c>>                              *)
(*   statements  <<"do", i>>, <<"call", i>>, <<"mem", i>>,                 *)
(*               <<"seq", <<s, ...>>>>, <<"if", c, s>>,                    *)
(*               <<"ifelse", c, s, t>>, <<"while", c, s>>, <<"break", n>>, *)
(*               <<"return", i>>                                           *)
(* An atom is a comparison, behind what computes its operands.  "call" is  *)
(* a call or a shift: its quadruple's label is lost, and its instructions  *)
(* end in a label of their own, a call's when nothing is left to load      *)
(* after it.  "mem" is the first statement that reads a global kept in     *)
(* memory: the load of it, and what it does.                               *)
(***************************************************************************)
EXTENDS Integers, SequencesExt

CONSTANT Programs   \* the function bodies

None == <<>>        \* the empty label

-----------------------------------------------------------------------------
(* Quadruples.  arg is what is compared or done.                           *)

Quad(op, arg, neg, to) == [op |-> op, arg |-> arg, neg |-> neg, to |-> to, label |-> None]
Jmp(l) == Quad("jmp", 0, FALSE, l)
Default(l) == [Quad("default", 0, FALSE, None) EXCEPT !.label = l]

\* setLabel on the first quadruple overwrites the label that is there.
SetLabel(code, l) == [code EXCEPT ![1].label = l]

\* getNextLabel; exitLabel_ of the function.
Exit == <<"exit">>
Fresh(n) == <<"Label", n>>
WhileLabel(key, part) == <<"while", key, part>>

\* OpNode::iCodeGen(trueLabel, falseLabel, flag); n labels have been made.
\* A comparison under AND is negated and falls through when it is true; the
\* quadruples of its operands come first.
RECURSIVE Jumping(_, _, _, _, _)
Jumping(c, T, F, flag, n) ==
  CASE c[1] = "and" ->
         LET l == Jumping(c[2], Fresh(n), F, 1, n + 1)
             r == Jumping(c[3], T, F, 1, l.n)
         IN  [code |-> l.code \o <<Default(Fresh(n))>> \o r.code, n |-> r.n]
    [] c[1] = "or" ->
         LET l == Jumping(c[2], T, Fresh(n), 2, n + 1)
             r == Jumping(c[3], T, F, 2, l.n)
         IN  [code |-> l.code \o <<Default(Fresh(n))>> \o r.code, n |-> r.n]
    [] c[1] = "not" -> Jumping(c[2], F, T, 0, n)
    [] c[1] = "atom" ->
         [ code |-> [i \in DOMAIN c[3] |-> Quad(c[3][i][1], c[3][i][2], FALSE, None)]
                    \o IF flag = 1 THEN <<Quad("jmpc", c[2], TRUE, F)>>
                       ELSE <<Quad("jmpc", c[2], FALSE, T), Jmp(F)>>,
           n    |-> n ]

\* Mutant: break 1 leaves two loops.
BreakKeyShort(key, num) == SubSeq(key, 1, Len(key) - num)

\* The loops a break leaves: 0 and 1 are the innermost.
BreakKey(key, num) ==
  SubSeq(key, 1, IF num = 0 THEN Len(key) ELSE Len(key) - num + 1)

\* The loop numbered by key k, from the code of its condition and its body.
WhileCode(k, cond, body) ==
  SetLabel(cond, WhileLabel(k, "start")) \o SetLabel(body, WhileLabel(k, "begin"))
  \o <<Jmp(WhileLabel(k, "start")), Default(WhileLabel(k, "end"))>>

\* The labels startLabel_, elseLabel_ and endLabel_ are n, n + 1 and n + 2.
IfCode(n, cond, then) ==
  cond \o SetLabel(then, Fresh(n)) \o <<Default(Fresh(n + 2))>>

IfElseCode(n, cond, then, else) ==
  cond \o SetLabel(then, Fresh(n)) \o <<Jmp(Fresh(n + 2))>>
  \o SetLabel(else, Fresh(n + 1)) \o <<Default(Fresh(n + 2))>>

ReturnCode(i) == <<Quad("do", i, FALSE, None), Jmp(Exit)>>

\* The iCodeGen of statements.  key is the numbers of the loops around s, w
\* counts the loops met in the innermost of them.
RECURSIVE Gen(_, _, _, _)
Gen(s, key, w, n) ==
  CASE s[1] \in {"do", "call", "mem"} -> [code |-> <<Quad(s[1], s[2], FALSE, None)>>, w |-> w, n |-> n]
    [] s[1] = "seq" ->
         IF s[2] = <<>> THEN [code |-> <<>>, w |-> w, n |-> n]
         ELSE LET h == Gen(Head(s[2]), key, w, n)
                  t == Gen(<<"seq", Tail(s[2])>>, key, h.w, h.n)
              IN  [code |-> h.code \o t.code, w |-> t.w, n |-> t.n]
    [] s[1] = "break" ->
         [code |-> <<Jmp(WhileLabel(BreakKey(key, s[2]), "end"))>>, w |-> w, n |-> n]
    [] s[1] = "return" -> [code |-> ReturnCode(s[2]), w |-> w, n |-> n]
    [] s[1] = "while" ->
         LET k == Append(key, w + 1)
             c == Jumping(s[2], WhileLabel(k, "begin"), WhileLabel(k, "end"), 0, n)
             b == Gen(s[3], k, 0, c.n)
         IN  [code |-> WhileCode(k, c.code, b.code), w |-> w + 1, n |-> b.n]
    [] s[1] = "if" ->
         LET c == Jumping(s[2], Fresh(n), Fresh(n + 2), 0, n + 3)
             b == Gen(s[3], key, w, c.n)
         IN  [code |-> IfCode(n, c.code, b.code), w |-> b.w, n |-> b.n]
    [] s[1] = "ifelse" ->
         LET c == Jumping(s[2], Fresh(n), Fresh(n + 1), 0, n + 3)
             b == Gen(s[3], key, w, c.n)
             e == Gen(s[4], key, b.w, b.n)
         IN  [code |-> IfElseCode(n, c.code, b.code, e.code), w |-> e.w, n |-> e.n]

-----------------------------------------------------------------------------
(* Instructions                                                            *)

\* A call or a shift does not pass its quadruple's label on; a load comes in
\* front of the labelled instruction.
Instructions(q) ==
  CASE q.op = "call" -> <<[q EXCEPT !.op = "do", !.label = None], Default(<<"ret", q.arg>>)>>
    [] q.op = "mem" -> <<[q EXCEPT !.op = "load", !.label = None], [q EXCEPT !.op = "do"]>>
    [] OTHER -> <<q>>

\* The last instruction is the first of the exit sequence.
Assembled(p) ==
  LET quads == Gen(p, <<>>, 0, 0).code
  IN  FlattenSeq([i \in DOMAIN quads |-> Instructions(quads[i])])
      \o <<[Quad("exit", 0, FALSE, None) EXCEPT !.label = Exit]>>

\* Mutant: the jumps to the label are left as they are.
MergeAtLabelOnly(code, i) ==
  IF code[i].op # "default" THEN code ELSE [code EXCEPT ![i + 1].label = None]

\* serializeAsm at a line that is a label only: the next line's label gives
\* way to it, in every jump of the module (and, were it there, at every other
\* line that is no jump).
MergeAt(code, i) ==
  LET old == code[i + 1].label
      new == code[i].label
  IN  IF code[i].op # "default" \/ old = None THEN code
      ELSE [ j \in DOMAIN code |->
               IF code[j].op \in {"jmp", "jmpc"}
               THEN [ code[j] EXCEPT !.to    = IF @ = old THEN new ELSE @,
                                     !.label = IF j = i + 1 THEN None ELSE @ ]
               ELSE [ code[j] EXCEPT !.label = IF j = i + 1 THEN None
                                               ELSE IF @ = old THEN new ELSE @ ] ]

Merge(code) ==
  LET m[i \in 0 .. Len(code) - 1] == IF i = 0 THEN code ELSE MergeAt(m[i - 1], i)
  IN  m[Len(code) - 1]

Targets(code, l) == IF l = None THEN {} ELSE { i \in DOMAIN code : code[i].label = l }

\* What the code does next: the instruction from pc on that can be seen; 0
\* when a jump has no target.
RECURSIVE Settle(_, _)
Settle(code, pc) ==
  IF pc = 0 \/ code[pc].op \in {"do", "load", "jmpc", "exit"} THEN pc
  ELSE IF code[pc].op = "default" THEN Settle(code, pc + 1)
  ELSE IF Targets(code, code[pc].to) = {} THEN 0
  ELSE Settle(code, CHOOSE i \in Targets(code, code[pc].to) : TRUE)

-----------------------------------------------------------------------------
(* The source.  What remains to be done is a sequence of statements, with  *)
(* "again" where the body of a loop ends and "cond" for a condition with   *)
(* what follows if it is true and if it is false.                          *)

RECURSIVE LeaveLoops(_, _)
LeaveLoops(rest, n) ==
  IF n = 0 THEN rest
  ELSE LeaveLoops(Tail(rest), IF Head(rest)[1] = "again" THEN n - 1 ELSE n)

RECURSIVE Unfold(_)
Unfold(rest) ==
  IF rest = <<>> THEN rest
  ELSE LET s == Head(rest)
           k == Tail(rest)
       IN  CASE s[1] \in {"do", "load", "call", "return"} -> rest
             [] s[1] = "mem" -> <<<<"load", s[2]>>, <<"do", s[2]>>>> \o k
             [] s[1] = "seq" -> Unfold(s[2] \o k)
             [] s[1] = "break" -> Unfold(LeaveLoops(k, IF s[2] = 0 THEN 1 ELSE s[2]))
             [] s[1] = "if" -> Unfold(<<<<"cond", s[2], <<s[3]>>, <<>>>>>> \o k)
             [] s[1] = "ifelse" -> Unfold(<<<<"cond", s[2], <<s[3]>>, <<s[4]>>>>>> \o k)
             [] s[1] = "while" -> Unfold(<<<<"cond", s[2], <<s[3], <<"again", s>>>>, <<>>>>>> \o k)
             [] s[1] = "again" -> Unfold(<<s[2]>> \o k)
             [] s[1] = "cond" ->
                  LET c == s[2] IN
                  CASE c[1] = "atom" /\ c[3] = <<>> -> rest
                    [] c[1] = "atom" /\ c[3] # <<>> ->
                         Unfold(c[3] \o <<<<"cond", <<"atom", c[2], <<>>>>, s[3], s[4]>>>> \o k)
                    [] c[1] = "not" -> Unfold(<<<<"cond", c[2], s[4], s[3]>>>> \o k)
                    [] c[1] = "and" -> Unfold(<<<<"cond", c[2], <<<<"cond", c[3], s[3], s[4]>>>>, s[4]>>>> \o k)
                    [] c[1] = "or" -> Unfold(<<<<"cond", c[2], s[3], <<<<"cond", c[3], s[3], s[4]>>>>>>>> \o k)

-----------------------------------------------------------------------------

VARIABLES
  code,             \* the instructions in the file
  pc,               \* the next that can be seen, by the code
  rest              \* what remains to be done, by the source

vars == <<code, pc, rest>>

Init ==
  \E p \in Programs :
    /\ code = Merge(Assembled(p))
    /\ pc = Settle(code, 1)
    /\ rest = Unfold(<<p>>)

\* What either would do next.
Compiled == IF pc = 0 THEN <<"lost">>
            ELSE IF code[pc].op = "exit" THEN <<"exit">>
            ELSE <<IF code[pc].op = "jmpc" THEN "test" ELSE code[pc].op, code[pc].arg>>
Meant == IF rest = <<>> THEN <<"exit">>
         ELSE IF Head(rest)[1] = "cond" THEN <<"test", Head(rest)[2][2]>>
         ELSE <<IF Head(rest)[1] = "load" THEN "load" ELSE "do", Head(rest)[2]>>

Statement ==
  /\ Compiled = Meant /\ Meant[1] \in {"do", "load"}
  /\ pc' = Settle(code, pc + 1)
  /\ rest' = IF Head(rest)[1] = "return" THEN <<>> ELSE Unfold(Tail(rest))
  /\ UNCHANGED code

\* The comparison has the outcome b.
Comparison(b) ==
  /\ Compiled = Meant /\ Meant[1] = "test"
  /\ pc' = IF b = code[pc].neg THEN Settle(code, pc + 1)
           ELSE Settle(code, IF Targets(code, code[pc].to) = {} THEN 0
                             ELSE CHOOSE i \in Targets(code, code[pc].to) : TRUE)
  /\ rest' = Unfold((IF b THEN Head(rest)[3] ELSE Head(rest)[4]) \o Tail(rest))
  /\ UNCHANGED code

Next == Statement \/ \E b \in BOOLEAN : Comparison(b)

Spec == Init /\ [][Next]_vars

-----------------------------------------------------------------------------
(* The programs the code generator serves                                  *)

\* follows is the label right after c's code: the true one, the false one or
\* neither.  A comparison right of AND falls through when it is true.
Swapped == [l \in {"true", "false", "neither"} |->
              CASE l = "true" -> "false" [] l = "false" -> "true" [] OTHER -> l]

RECURSIVE Falls(_, _)
Falls(c, follows) ==
  CASE c[1] = "atom" -> TRUE
    [] c[1] = "not" -> Falls(c[2], Swapped[follows])
    [] c[1] = "or" -> Falls(c[2], "false") /\ Falls(c[3], follows)
    [] c[1] = "and" -> /\ Falls(c[2], "true") /\ Falls(c[3], follows)
                       /\ c[3][1] = "atom" => follows = "true"

\* The first quadruple of a condition or a body keeps the label that is set
\* on it, has none before, and begins at it.
Plain(quads) == quads[1].op \notin {"call", "mem"} /\ quads[1].label = None
PlainBody(s) == Plain(Gen(s, <<1>>, 0, 0).code)
PlainCondition(c) == Plain(Jumping(c, None, None, 0, 0).code)

RECURSIVE Served(_)
Served(s) ==
  CASE s[1] = "seq" -> \A i \in DOMAIN s[2] : Served(s[2][i])
    [] s[1] = "if" -> Falls(s[2], "true") /\ PlainBody(s[3]) /\ Served(s[3])
    [] s[1] = "while" ->
         Falls(s[2], "true") /\ PlainCondition(s[2]) /\ PlainBody(s[3]) /\ Served(s[3])
    [] s[1] = "ifelse" ->
         /\ Falls(s[2], "true")
         /\ PlainBody(s[3]) /\ Served(s[3])
         /\ PlainBody(s[4]) /\ Served(s[4])
    [] OTHER -> TRUE

\* No place has more than two labels.
TwoLabels(p) ==
  LET c == Assembled(p) IN
  \A i \in 1 .. Len(c) - 2 :
    ~(c[i].op = "default" /\ c[i + 1].op = "default" /\ c[i + 2].label # None)

-----------------------------------------------------------------------------
(* Properties                                                              *)

\* What the code does next is what the source says: operands of && and ||
\* are computed and compared from left to right and no further than needed,
\* each branch and loop body runs when its condition holds, a loop computes
\* its condition again each time, a break leaves the loops it names.  Of the
\* programs Served excludes nothing is said: while (f(x) < y), whose start
\* label is lost (CodeGen.C:599), runs to no place.
Agreement == Compiled = Meant

\* Every jump of a function or rule that is served has one target in it: the
\* labels set on a quadruple, made from the numbers of the loops and merged in
\* the file are where the jumps to them say ("Checks multiple nested
\* while/break", README.md:25).  The loops of every function and rule are
\* numbered from 1, so a label of a loop may well be in the file twice: that is
\* not part of it.
Resolved ==
  \A i \in DOMAIN code :
    code[i].op \in {"jmp", "jmpc"} => \E j \in DOMAIN code : Targets(code, code[i].to) = {j}

\* "We will be supporting short circuit operators in conditional constructs"
\* (docs/ubicomp.tex:223): no operand is compared that need not be.
ShortCircuit == Compiled[1] = "test" => Compiled = Meant
=============================================================================

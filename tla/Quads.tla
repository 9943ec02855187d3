-------------------------------- MODULE Quads --------------------------------
(***************************************************************************)
(* Quadruples (class Quadruple) and what they operate on (IntrCodeElem),   *)
(* as the optimiser sees them.                                             *)
(*                                                                         *)
(* An element is a tuple whose first component is its type:                *)
(*   <<"var", x>>          a variable, global or not                       *)
(*   <<"temp", n>>         a temporary                                     *)
(*   <<"val", v>>          a literal                                       *)
(*   <<"quad", op, d, e>>  the comparison of a JMPC                        *)
(*   <<"params", es>>      the arguments of a CALL                         *)
(*   <<"inv", f>>          the function of a CALL                          *)
(* Two elements are equals() when they are the same variable, temporary or *)
(* literal, which is equality of the tuples; a comparison or a list of     *)
(* arguments is never compared with another.                               *)
(***************************************************************************)
EXTENDS Integers, SequencesExt

NoElem == <<"none">>    \* the null pointer
NoLabel == <<>>         \* the empty label

Temp(n) == <<"temp", n>>

IsTemp(e) == e[1] = "temp"

\* to is the label a JMP or JMPC goes to, or the one a DEFAULT names.
Quad(op, opr1, opr2, res) ==
  [ op |-> op, opr1 |-> opr1, opr2 |-> opr2, res |-> res, to |-> NoLabel, label |-> NoLabel ]

Jmp(l) == [Quad("JMP", NoElem, NoElem, NoElem) EXCEPT !.to = l]
Jmpc(comparison, l) == [Quad("JMPC", comparison, NoElem, NoElem) EXCEPT !.to = l]
Default(l) == [Quad("DEFAULT", NoElem, NoElem, NoElem) EXCEPT !.to = l]

Jumps(q) == q.op \in {"JMP", "JMPC"}
Arithmetic(q) == q.op \in {"PLUS", "MINUS", "MULT", "DIV"}
Associative(q) == q.op \in {"PLUS", "MULT"}

\* IntrCodeElem::uses looks into comparisons and arguments.
Uses(e, p) ==
  \/ e = p
  \/ e[1] = "quad" /\ p \in {e[3], e[4]}
  \/ e[1] = "params" /\ p \in ToSet(e[2])

Reads(q, p) == Uses(q.opr1, p) \/ Uses(q.opr2, p)

\* Both compute the same, if no operand changes in between.
SameExpression(q, r) ==
  /\ Arithmetic(q) /\ r.op = q.op
  /\ \/ q.opr1 = r.opr1 /\ q.opr2 = r.opr2
     \/ Associative(q) /\ q.opr1 = r.opr2 /\ q.opr2 = r.opr1
=============================================================================

---------------------------- MODULE MCControlFlow ----------------------------
(* Function bodies for ControlFlow.                                         *)
EXTENDS ControlFlow, FiniteSets

Atom(i) == <<"atom", i, <<>>>>
Atoms == { Atom(i) : i \in 1 .. 3 }
Pairs(S) == { <<op, c, d>> : op \in {"and", "or"}, c \in S, d \in S }
Conditions1 == Atoms \cup { <<"not", c>> : c \in Atoms } \cup Pairs(Atoms)
Conditions2 == Conditions1 \cup { <<"not", c>> : c \in Conditions1 } \cup Pairs(Conditions1)

Do(i) == <<"do", i>>
Cond == Atom(1)
If(c, s) == <<"if", c, s>>
IfElse(c, s, t) == <<"ifelse", c, s, t>>
While(c, s) == <<"while", c, s>>
Seq2(s, t) == <<"seq", <<s, t>>>>

\* Every condition of depth two, in every place of a condition.
Conditionals ==
  UNION { {Seq2(If(c, Do(1)), Do(2)), IfElse(c, Do(1), Do(2)), Seq2(While(c, Do(1)), Do(2))} :
          c \in Conditions2 }

\* Loops and branches inside one another, with breaks; a return inside a loop
\* is a compile error (ReturnStmtNode::typeCheck has no function there).
Simple == {Do(1), <<"call", 2>>, <<"break", 0>>, <<"break", 1>>, <<"break", 2>>}
Inner == Simple \cup { f : f \in UNION { {If(Cond, s), While(Cond, s), IfElse(Cond, s, Do(3))} : s \in Simple } }
Bodies == { Seq2(s, t) : s \in {Do(4), <<"call", 4>>}, t \in Inner } \cup Inner
Nested == { Seq2(While(Cond, Seq2(Do(5), While(Atom(2), b))), Do(6)) : b \in Bodies }
          \cup { Seq2(While(Cond, While(Atom(2), b)), Do(6)) : b \in Bodies }
          \cup { While(Cond, Seq2(Do(5), Seq2(While(Atom(2), Do(6)), While(Atom(3), b)))) : b \in Bodies }

\* Branches inside one another, with returns, before and after a loop.
Ends == {Do(1), <<"call", 2>>, <<"return", 3>>}
Branch == Ends \cup { f : f \in UNION { {If(Cond, s), IfElse(Cond, s, Do(3)), IfElse(Cond, Do(3), s)} : s \in Ends } }
Returning ==
  UNION { {Seq2(If(Atom(2), s), t), IfElse(Atom(2), s, t), Seq2(s, While(Atom(2), Do(4)))} :
          s \in Branch, t \in Branch }

\* Comparisons of calls, of expressions and of globals kept in memory, alone
\* and on each side of an operator; loops that begin with one of them.
Computing == { <<"atom", i, ops>> : i \in 1 .. 2,
               ops \in {<<>>, <<Do(7)>>, <<<<"call", 7>>>>, <<<<"mem", 7>>>>, <<Do(7), <<"call", 8>>>>, <<<<"call", 7>>, Do(8)>>} }
Computed ==
  UNION { {Seq2(If(c, s), Do(2)), IfElse(c, s, Do(2)), Seq2(While(c, s), Do(2)), While(Cond, Seq2(While(c, s), Do(2)))} :
          c \in Computing \cup { <<"not", d>> : d \in Computing } \cup Pairs(Computing),
          s \in {Do(1), <<"mem", 1>>, Seq2(Do(1), <<"mem", 3>>)} }

MCServed == { p \in Conditionals \cup Nested \cup Returning \cup Computed : Served(p) /\ TwoLabels(p) }

MCConditions == { IfElse(c, Do(1), Do(2)) : c \in Conditions2 }
=============================================================================

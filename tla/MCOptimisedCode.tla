--------------------------- MODULE MCOptimisedCode ---------------------------
(* Statements for OptimisedCode: a, b, x and y are local, g is global.      *)
EXTENDS OptimisedCode

V(x) == <<"var", x>>
Assign(x, e) == <<"assign", x, e>>
Plus(d, e) == <<"PLUS", d, e>>
Sum == Plus(V("a"), V("b"))
Mus == Plus(V("b"), V("a"))
Block(s) == <<"seq", s>>

MCGlobals == {"g"}

Statements ==
  { Assign("x", Sum), Assign("y", Mus), Assign("x", V("b")), Assign("a", V("x")),
    Assign("g", Sum), Assign("y", Plus(V("g"), V("b"))), <<"print", "x">>, <<"print", "y">>,
    <<"do", <<"call", "f", <<V("x")>>>>>>, Assign("x", <<"MINUS", Sum, Mus>>) }
Finals == { <<"return", Sum>>, <<"print", "y">>, <<"do", <<"call", "f", <<Sum>>>>>>, Assign("g", Sum) }

\* Statements in a row.
Straight ==
  { <<p, q, r, s>> : p \in Statements, q \in Statements, r \in Statements, s \in Finals }
  \cup { <<Assign("x", Sum), Assign("x", V("b")), q, r, s>> :
           q \in Statements \cup {Assign("g", V("x"))}, r \in {Assign("y", Mus), Assign("g", Mus)}, s \in Finals }

\* A branch or a loop between two statements.
Tests ==
  { <<"LT", V("x"), V("y")>>, <<"LT", Sum, V("y")>>, <<"LT", Plus(Sum, V("x")), V("y")>>,
    <<"LT", Plus(V("x"), V("b")), Plus(Sum, V("y"))>> }
Control(s) ==
  UNION { { <<"if", c, s>>, <<"ifelse", c, s, <<"print", "y">>>>, <<"ifelse", c, <<"print", "y">>, s>>,
            <<"while", c, s>> } : c \in Tests }
Branching ==
  { <<p, c, s>> : p \in Statements, c \in UNION { Control(q) : q \in Statements }, s \in Finals }

MCSources == { Code(Block(p)) : p \in Straight \cup Branching }
=============================================================================

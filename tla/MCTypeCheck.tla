----------------------------- MODULE MCTypeCheck -----------------------------
(* Every operation on every pair of leaves, operations of operations, every kind of statement. *)
EXTENDS TypeCheck

MCFunctions == << [params |-> <<"int">>, returns |-> "int"],
                  [params |-> <<"double", "C">>, returns |-> "void"],
                  [params |-> <<>>, returns |-> "C"] >>
MCEvents == << [params |-> <<"int", "double">>, known |-> TRUE], [params |-> <<>>, known |-> TRUE],
               [params |-> <<>>, known |-> FALSE] >>

MCUninitialised == {0, 3, -3}

Var(t) == RefExprNode("variable", t)
Leaves == {Var(t) : t \in {"bool", "byte", "int", "double", "string", "C", "D"}}
            \cup {ValueNode(t) : t \in {"uint", "double", "string"}}
            \cup {RefExprNode("unknown", "unknown"), RefExprNode("function", "int")}
Few == {Var("int"), Var("double"), ValueNode("uint"), Var("bool"), RefExprNode("unknown", "unknown")}
Pairs(a, b) == {<<x, y>> : x \in a, y \in b}
Ops(unary, binary, left, right) == {OpNode(op, <<x>>) : op \in unary, x \in left}
                                     \cup {OpNode(op, p) : op \in binary, p \in Pairs(left, right)}
Calls(args) == {InvocationNode("function", 1, <<x>>) : x \in args}
                 \cup {InvocationNode("function", 2, p) : p \in Pairs(args, {Var("C"), Var("D"), Var("int")})}
                 \cup {InvocationNode("function", 2, <<x>>) : x \in args}
                 \cup {InvocationNode("function", 3, s) : s \in {<<>>} \cup {<<x>> : x \in args}}
                 \cup {InvocationNode("unknown", 1, <<>>), InvocationNode("variable", 1, <<>>)}
Plain == Ops(Unary, Binary, Leaves, Leaves) \cup Calls(Leaves)
Inner == Ops({"UMINUS"}, {"PLUS", "BITAND", "LT"}, Few, Few) \cup Calls(Few)
Deep == Ops({"UMINUS", "BITNOT", "NOT"}, {"PLUS", "MOD", "SHL", "EQ", "AND", "ASSIGN"}, Inner, Few)
          \cup Ops({}, {"MULT", "BITXOR", "ASSIGN"}, Few, Inner) \cup Calls(Inner)
Values == Leaves \cup Inner

InFunction(body) == <<Function(1, <<>>, <<>>, body)>>
Simple == {ExprStmt(OpNode("ASSIGN", <<Var("int"), x>>)) : x \in {Var("byte"), Var("double")}}
            \cup {BreakStmt(n, d) : n \in 1..2, d \in 0..2} \cup {PrintStmt(b) : b \in BOOLEAN}
Statements == {ReturnStmt(f, x) : f \in 0..3, x \in Values} \cup Simple
               \cup {While(x, b) : x \in Values, b \in Simple}
               \cup {If(x, b, e) : x \in Few, b \in Simple, e \in {<<>>} \cup {<<y>> : y \in Simple}}
               \cup {Compound(<<x, y>>) : x \in Simple, y \in Simple}
Conditions1 == {<<>>, <<Var("int")>>} \cup {<<x>> : x \in Inner}
Primitives == {Primitive(e, n, c) : e \in 1..3, n \in 0..3, c \in Conditions1}
FewPatterns == {Primitive(1, 2, <<>>), Primitive(2, 1, <<>>)}
Compounds(ps) == {Pat(k, <<x, y>>) : k \in {"seq", "or"}, x \in ps, y \in ps}
                   \cup {Pat(k, <<x>>) : k \in {"star", "not"}, x \in ps}
Patterns == Primitives \cup Compounds(FewPatterns \cup Compounds(FewPatterns))

MCPrograms ==
  {InFunction(ExprStmt(x)) : x \in Plain \cup Deep} \cup {InFunction(s) : s \in Statements}
    \cup {<<Variable(t, x)>> : t \in {"bool", "int", "double", "string", "C"}, x \in Values}
    \cup {<<Function(1, <<t>>, <<x>>, Compound(<<>>))>> : t \in {"int", "string", "C"}, x \in Values}
    \cup {<<Rule(p, s)>> : p \in Patterns, s \in {Compound(<<>>), ReturnStmt(0, Var("int"))}}
    \cup {<<Variable("double", x), Rule(Primitive(1, n, <<>>), s)>> : x \in Inner, n \in 2..3, s \in Simple}
=============================================================================

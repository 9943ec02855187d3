----------------------------- MODULE MCTargetCode -----------------------------
(* Every operation on every pair of operands, to an integer, a boolean and a double. *)
EXTENDS TargetCode

MCMinInt == -8
MCValues == {-3, 0, 1, 2, 7}

a == Var("int", "a")
b == Var("int", "b")
u == Var("uint", "u")
h == Var("byte", "h")
p == Var("bool", "p")
d == Var("double", "d")
s == Var("string", "s")
g == InMemory("int", "g", 1)
k == InMemory("double", "k", 2)
Variables1 == {a, b, u, h, p, d, s, g, k}
MCRegisters == {e.word : e \in Variables1}
Literals == {Val("uint", Digits(3)), Val("bool", Digits(1)), Val("double", Point(<<"lit", "2.5">>)),
             Val("double", Digits(2)), Val("double", Exponent(<<"lit", "1e+10">>)), Val("string", Quoted(<<"str", "hi">>))}
MCLeaves == {LeafVar(e) : e \in Variables1} \cup {LeafVal(e) : e \in Literals}
Pairs1(x, y) == {<<l, m>> : l \in x, m \in y}

Stmt(kind, op, leaves, target, type, fused) ==
  [kind |-> kind, op |-> op, leaves |-> leaves, target |-> target, type |-> type, fused |-> fused]
ValueOps == (Arithmetic \cup {"MOD"} \cup Bitwise2 \cup Shifts \cup Logical \cup Comparisons)
Operations == {<<op, ls>> : op \in ValueOps, ls \in Pairs1(MCLeaves, MCLeaves)}
                \cup {<<op, <<l>>>> : op \in Unary, l \in MCLeaves}
                \cup {<<"none", <<l>>>> : l \in MCLeaves}
Targets == {a, b, p, d, s}
Candidates ==
  {Stmt("assign", o[1], o[2], t, "none", f) : o \in Operations, t \in Targets, f \in BOOLEAN}
    \cup {Stmt("assign", "none", <<DefaultValue(t.type)>>, t, "none", FALSE) : t \in Targets}
    \cup {Stmt("test", op, ls, NULL, "none", FALSE) : op \in Comparisons, ls \in Pairs1(MCLeaves, MCLeaves)}
    \cup {Stmt("print", "none", <<l>>, NULL, "none", FALSE) : l \in {LeafVar(e) : e \in Variables1}}
    \cup {Stmt("flush", "none", <<LeafVar(e)>>, NULL, "none", FALSE) : e \in {g, k}}
    \cup {Stmt(kind, op, ls, NULL, type, FALSE) : kind \in {"return", "argument"}, type \in {"int", "double"},
            op \in {"PLUS"}, ls \in Pairs1({LeafVar(a), LeafVar(d)}, MCLeaves)}
    \cup {Stmt(kind, "none", <<l>>, NULL, type, FALSE) : kind \in {"return", "argument"}, l \in MCLeaves,
            type \in {"int", "double", "string"}}
MCStatements == {c \in Candidates : (c.fused => c.op # "none") /\ (c.kind = "assign" => WellTyped(c))}
\* A variable's value assigned to another.
MCAssignments == {c \in MCStatements : c.kind = "assign" /\ c.op = "none" /\ c.leaves[1].node.kind = "ref"}
=============================================================================

------------------------------- MODULE OpRules -------------------------------
(***************************************************************************)
(* Types and operations: Type, the table opInfo, and what                  *)
(* OpNode::typeCheck makes of an operation once its operands have types:   *)
(* the conversions it writes into the tree and the type of the result.     *)
(***************************************************************************)
EXTENDS Integers, Sequences, SequencesExt

CONSTANT Classes      \* names of classes, each a type of its own

Tags == <<"error", "unknown", "void", "bool", "string", "byte", "uint", "int", "double", "class">>
(* A class is not one of the other types, nor the mark of a conversion that was not made. *)
ASSUME ClassesAssumption == Classes \cap (ToSet(Tags) \cup {"none"}) = {}

Types == ToSet(Tags) \cup Classes
Tag(t) == IF t \in Classes THEN "class" ELSE t
Rank(t) == CHOOSE i \in DOMAIN Tags : Tags[i] = Tag(t)
Between(t, low, high) == Rank(low) <= Rank(t) /\ Rank(t) <= Rank(high)

IsNumeric(t) == Between(t, "byte", "double")
IsIntegral(t) == Between(t, "byte", "int")
IsSigned(t) == t \in {"int", "double"}
IsPrimitive(t) == Between(t, "bool", "double")      \* also isScalar and isNative

\* Mutant: the order of the tags decides, whatever they are.
IsSubTypeByTag(t, u) == Rank(t) <= Rank(u)
IsSubType(t, u) == \/ t \in Classes /\ t = u
                   \/ IsNumeric(t) /\ Rank(t) <= Rank(u)
GetCoercedType(class, t) ==
  IF class # "signed" THEN "error"
  ELSE IF IsIntegral(t) THEN "int" ELSE IF t = "double" THEN "double" ELSE "error"

CheckType(class, t) == CASE class = "numeric" -> IsNumeric(t)
                         [] class = "signed" -> IsSigned(t)
                         [] class = "integral" -> IsIntegral(t)
                         [] class = "primitive" -> IsPrimitive(t)
                         [] class = "bool" -> t = "bool"
                         [] OTHER -> FALSE

----------------------------------------------------------------------------
(* opInfo: what the arguments must be, what comes out, and the two constraints. *)

Row(arg, out, args, result) == [arg |-> arg, out |-> out, args |-> args, result |-> result]
Arithmetic == {"PLUS", "MINUS", "MULT", "DIV"}
Bitwise2 == {"BITAND", "BITOR", "BITXOR"}
Shifts == {"SHL", "SHR"}
Comparisons == {"EQ", "NE", "GT", "LT", "GE", "LE"}
Logical == {"AND", "OR"}
Unary == {"UMINUS", "NOT", "BITNOT"}
Binary == Arithmetic \cup {"MOD"} \cup Bitwise2 \cup Shifts \cup Comparisons \cup Logical \cup {"ASSIGN"}
OpInfo(op) ==
  CASE op = "UMINUS" -> Row("numeric", "signed", "N", "1")
    [] op \in Arithmetic -> Row("numeric", "numeric", "S", "S")
    [] op = "MOD" -> Row("integral", "integral", "S", "2")
    [] op \in Comparisons -> Row("primitive", "bool", "S", "O")
    [] op \in Logical \cup {"NOT"} -> Row("bool", "bool", "N", "O")
    [] op = "BITNOT" -> Row("integral", "integral", "N", "1")
    [] op = "BITAND" -> Row("integral", "integral", "S", "s")
    [] op \in {"BITOR", "BITXOR"} -> Row("integral", "integral", "S", "S")
    [] op \in Shifts -> Row("integral", "integral", "N", "1")
    [] op = "ASSIGN" -> Row("primitive", "void", "A", "O")

----------------------------------------------------------------------------
(* Trees.  "own" is the type of a leaf; a reference also says whether it found a variable. *)

Node(kind, own, args) ==
  [kind |-> kind, own |-> own, op |-> "", args |-> args, callee |-> 0, found |-> "variable",
   coerced |-> "none", result |-> "none"]
ValueNode(t) == Node("value", t, <<>>)
RefExprNode(found, t) == [Node("ref", t, <<>>) EXCEPT !.found = found]
OpNode(op, args) == [Node("op", "none", args) EXCEPT !.op = op]
InvocationNode(found, f, args) == [Node("call", "none", args) EXCEPT !.callee = f, !.found = found]

(* getResultType, what code generation is told. *)
Effective(e) == IF e.coerced # "none" THEN e.coerced ELSE e.result

\* Mutant: the conversion goes to the left operand.
CoerceLeft(e, i, t) == [e EXCEPT !.args[1].coerced = t]
Coerce(e, i, t) == [e EXCEPT !.args[i].coerced = t]
Outcome(e, t, msgs) == [tree |-> e, type |-> t, msgs |-> msgs]

(* The first constraint: the tree with its conversions, and whether it is an error. *)
Constrain(e, t) ==
  LET info == OpInfo(e.op)
      fits == \A i \in DOMAIN t : CheckType(info.arg, t[i])
      same == Tag(t[1]) = Tag(t[2])
      second == IsSubType(t[2], t[1])
      first == IsSubType(t[1], t[2])
  IN  CASE info.args = "N" -> [tree |-> e, error |-> ~fits]
        [] info.args = "S" ->
             [tree |-> IF ~fits \/ same \/ info.result = "O" THEN e
                       ELSE IF second THEN Coerce(e, 2, t[1]) ELSE IF first THEN Coerce(e, 1, t[2]) ELSE e,
              error |-> ~fits]
        [] info.args = "A" -> [tree |-> IF ~same /\ second THEN Coerce(e, 2, t[1]) ELSE e,
                               error |-> ~same /\ ~second]

\* Mutant: the other way round.
LeastGeneral(t) == IF IsSubType(t[2], t[1]) THEN t[2] ELSE t[1]

(* The second one: the type of the result.  The case 's' has no break and ends like 'S'. *)
MostGeneral(t) == IF IsSubType(t[2], t[1]) THEN t[1] ELSE t[2]
Conclude(e, t) ==
  LET info == OpInfo(e.op)
      i == IF info.result = "2" THEN 2 ELSE 1
      given == IF e.args[i].coerced # "none" THEN e.args[i].coerced ELSE t[i]
      coerced == GetCoercedType(info.out, given)
  IN  CASE info.result = "O" -> Outcome(e, info.out, 0)
        [] info.result \in {"s", "S"} -> Outcome(e, MostGeneral(t), 0)
        [] info.result \in {"1", "2"} /\ CheckType(info.out, given) -> Outcome(e, given, 0)
        [] OTHER -> Outcome(Coerce(e, i, coerced), coerced, 0)

AfterConstrain(a, c) == IF c.error THEN Outcome(c.tree, "error", a.msgs + 1)
                        ELSE [Conclude(c.tree, a.types) EXCEPT !.msgs = a.msgs + @]

----------------------------------------------------------------------------
(* The typing rules of the language, as its documents have them: what each operation may be applied
   to, and what it gives.  The comment at opInfo has & give the least general of its types ('s'),
   and the expected output of the checker's tests has ~ give an unsigned int. *)

Lub(t, u) == IF Rank(t) >= Rank(u) THEN t ELSE u
Glb(t, u) == IF Rank(t) >= Rank(u) THEN u ELSE t
Widens(t, u) == IsNumeric(t) /\ (u \in Classes \/ (IsNumeric(u) /\ Lub(t, u) = u))
Assignable(t, u) == Tag(t) = Tag(u) \/ Widens(t, u)
OpTyping(op, t) ==
  LET numeric == \A i \in DOMAIN t : IsNumeric(t[i])
      integral == \A i \in DOMAIN t : IsIntegral(t[i])
      primitive == \A i \in DOMAIN t : IsPrimitive(t[i])
      logical == \A i \in DOMAIN t : t[i] = "bool"
  IN  CASE op \in Arithmetic /\ numeric -> Lub(t[1], t[2])
        [] op \in {"MOD", "BITOR", "BITXOR"} /\ integral -> Lub(t[1], t[2])
        [] op = "BITAND" /\ integral -> Glb(t[1], t[2])
        [] op \in Shifts /\ integral -> t[1]
        [] op = "BITNOT" /\ integral -> "uint"
        [] op = "UMINUS" /\ numeric -> Lub(t[1], "int")
        [] op \in Comparisons /\ primitive -> "bool"
        [] op \in Logical \cup {"NOT"} /\ logical -> "bool"
        [] op = "ASSIGN" /\ "error" \notin ToSet(t) /\ Assignable(t[2], t[1]) -> "void"
        [] OTHER -> "error"

(* Where the checker departs from them, and what it gives there: the most general type for &, the
   type of its operand for ~. *)
Departs(op, t) == (op = "BITAND" /\ t[1] # t[2]) \/ (op = "BITNOT" /\ t[1] # "uint")
Gives(op, t) == IF OpTyping(op, t) = "error" \/ ~Departs(op, t) THEN OpTyping(op, t)
                ELSE IF op = "BITAND" THEN Lub(t[1], t[2]) ELSE t[1]
==============================================================================

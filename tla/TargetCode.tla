------------------------------ MODULE TargetCode ------------------------------
(***************************************************************************)
(* A statement on its way through the compiler and the assembler: type     *)
(* checked (TypeRules), made into quadruples, those into instructions      *)
(* (Instructions), the lines assembled one after the other (Assembler) and *)
(* run.  The quadruples are taken as they are, or with the target of the   *)
(* assignment in place of the temporary, as the optimiser leaves them.     *)
(***************************************************************************)
EXTENDS TypeRules, Assembler

CONSTANTS Statements,     \* [kind, op, leaves, target, type, fused]; a leaf is [node, elem]
          Values,         \* initial values of integer variables
          Registers,      \* the registers of variables
          GlobalBase, Stack, Cells   \* GLOBAL_REG, SP_REG, and the cells of memory

VARIABLES statement, tree,   \* the tree of its expression, as type checking leaves it
          phase, code, line, errors, machine, initial, taken
vars == <<statement, tree, phase, code, line, errors, machine, initial, taken>>

----------------------------------------------------------------------------
(* The tree, as type checking leaves it. *)

Leaf(node, elem) == [node |-> node, elem |-> elem]
LeafVar(elem) == Leaf(RefExprNode("variable", elem.type), elem)
LeafVal(elem) == Leaf(ValueNode(elem.type), elem)
(* A variable declared without a value is assigned Value(0, tag), which is a value of integer types only. *)
DefaultValue(type) == LeafVal(Val(type, IF type \in {"int", "uint"} THEN Digits(0) ELSE Word("ErrorValue")))
IsLeaf(s) == s.op = "none"
Expression(s) == LET args == [i \in DOMAIN s.leaves |-> s.leaves[i].node] IN
                 IF IsLeaf(s) THEN args[1] ELSE OpNode(s.op, args)
(* A value assigned, returned or passed is converted to the type wanted. *)
Convert(c, wanted) ==
  IF wanted = "none" \/ Tag(c.type) = Tag(wanted) \/ c.type = "error" THEN c
  ELSE IF IsSubType(c.type, wanted) THEN [c EXCEPT !.tree.coerced = wanted, !.type = wanted]
  ELSE Outcome(c.tree, "error", 1)
Checked(s) == Convert(DoTypeCheck(Expression(s), <<>>), IF s.kind = "assign" THEN s.target.type ELSE s.type)
Good(s, type) == type # "error" /\ (s.kind = "test" => type = "bool")
WellTyped(s) == Good(s, Checked(s).type)
Node1(s, i) == IF IsLeaf(s) THEN tree ELSE tree.args[i]
ResultType == Effective(tree)

(* iCodeGen: a variable that is converted is moved to a temporary, and then itself used all the same. *)
ConvertedTo(s, i) == Effective(Node1(s, i))
MovesLeaf(s, i) == s.leaves[i].node.kind = "ref" /\ ConvertedTo(s, i) # s.leaves[i].elem.type
LeafQuads(s, i) == IF MovesLeaf(s, i)
                   THEN <<Quad("MOVIF", s.leaves[i].elem, NULL, Var(ConvertedTo(s, i), "t1"))>> ELSE <<>>
AllLeafQuads(s) == FlattenSeq([i \in DOMAIN s.leaves |-> LeafQuads(s, i)])
Operand(s, i) == IF i <= Len(s.leaves) THEN s.leaves[i].elem ELSE NULL
Result(s) == IF s.fused THEN s.target ELSE Var(ResultType, "t2")
Computation(s) == Quad(s.op, Operand(s, 1), Operand(s, 2), Result(s))
TVar(s) == IF IsLeaf(s) THEN Operand(s, 1) ELSE Result(s)
Quadruples(s) ==
  LET computed == AllLeafQuads(s) \o (IF IsLeaf(s) THEN <<>> ELSE <<Computation(s)>>)
      condition == QuadElem(Quad(s.op, Operand(s, 1), Operand(s, 2), NULL))
  IN  CASE s.kind = "assign" -> computed \o (IF s.fused THEN <<>> ELSE <<Quad("ASSIGN", TVar(s), NULL, s.target)>>)
        [] s.kind = "test" -> AllLeafQuads(s) \o <<Quad("JMPC", condition, LabelElem("taken"), NULL)>>
        [] s.kind = "print" -> <<Quad("PRINT", Operand(s, 1), NULL, NULL)>>
        [] s.kind = "return" -> Append(computed, Quad("RET", TVar(s), NULL, NULL))
        [] s.kind = "argument" -> computed
        [] s.kind = "flush" -> <<>>

(* A global's load is generated at the first mention only. *)
Loaded(q, done) ==
  LET at(e) == IF e.kind = "var" /\ e.word \in done THEN [e EXCEPT !.place = 0] ELSE e
  IN  [q EXCEPT !.e1 = at(@), !.e2 = at(@)]
SelectAll(quads) ==
  FoldLeft(LAMBDA acc, q :
             [lines |-> acc.lines \o Select(Loaded(q, acc.done)),
              done |-> acc.done \cup {q.e1.word, q.e2.word}],
           [lines |-> <<>>, done |-> {}], quads)
Code(s) == LET selected == SelectAll(Quadruples(s))
               pushed == CASE s.kind = "argument" ->
                                PushArgument(Loaded(Quad("CALL", TVar(s), NULL, NULL), selected.done).e1)
                           [] s.kind = "flush" -> StoreBack(Operand(s, 1))
                           [] OTHER -> <<>>
               next == Instr(<<Word("JMP"), Word("exit")>>)
           IN  WithLabels(Append(selected.lines \o pushed, next))

----------------------------------------------------------------------------
Words == Registers \cup {SP_REG, GLOBAL_REG, TEMP_REG, RETI_REG, RETF_REG, IntReg("count"),
                         FloatReg("f1"), FloatReg("f2")}
                   \cup {IntReg(t) : t \in {"t1", "t2"}} \cup {FloatReg(t) : t \in {"t1", "t2"}}
Machine(reg, mem) == [reg |-> reg, mem |-> mem, out |-> <<>>]
Operands(s) == {s.leaves[i].elem : i \in DOMAIN s.leaves}
Unset == Machine([w \in Words |-> Undefined], [a \in Cells |-> Undefined])

(* A run starts with any integers in the variables the statement mentions; the others hold
   themselves.  A global without a register is in its cell. *)
CellOf(e) == GlobalBase - e.place
ReadBy(s) == {o \in Operands(s) : o.kind = "var" /\ ~IsFloat(o.type) /\ ~IsString(o.type)}
InMemoryOf(s) == {e \in Operands(s) : e.place # 0}
MachineWith(s, v) ==
  LET own(w) == IF w \in DOMAIN v THEN Number(v[w])
                ELSE IF Form(w) = "F" THEN <<"lit", w[2]>> ELSE <<"str", w[2]>>
      inCell(a) == {e \in InMemoryOf(s) : CellOf(e) = a}
      inRegister == Registers \ {e.word : e \in InMemoryOf(s)}
  IN  Machine([w \in Words |-> IF w = SP_REG THEN Number(Stack) ELSE IF w = GLOBAL_REG THEN Number(GlobalBase)
                               ELSE IF w \in inRegister THEN own(w) ELSE Undefined],
              [a \in Cells |-> IF inCell(a) # {} THEN own((CHOOSE e \in inCell(a) : TRUE).word) ELSE Undefined])
Started(s, m) ==
  \E v \in [{e.word : e \in ReadBy(s)} -> Values] :
    /\ \A e \in ReadBy(s) : e.type = "bool" => v[e.word] \in {0, 1}
    /\ m = MachineWith(s, v)

Init == /\ statement \in Statements /\ tree = Expression(statement) /\ phase = "check" /\ code = <<>> /\ line = 1 /\ errors = 0
        /\ machine = Unset /\ initial = Unset /\ taken = FALSE

Judge(c) == tree' = c.tree /\ phase' = IF Good(statement, c.type) THEN "generate" ELSE "rejected"
Check == /\ phase = "check" /\ Judge(Checked(statement))
         /\ UNCHANGED <<statement, code, line, errors, machine, initial, taken>>
Generate == /\ phase = "generate" /\ code' = Code(statement) /\ phase' = "assemble"
            /\ UNCHANGED <<statement, tree, line, errors, machine, initial, taken>>

(* yyparse: an error skips the line and is counted; main ends after it if there was one, and gives
   the C compiler what was written otherwise. *)
Assemble ==
  /\ phase = "assemble" /\ line <= Len(code)
  /\ errors' = IF Parses(code[line]) THEN errors ELSE errors + 1
  /\ line' = line + 1 /\ UNCHANGED <<statement, tree, code, phase, machine, initial, taken>>
\* Mutant: main does not look at the number of errors.
StartAnyway ==
  /\ phase = "assemble" /\ line > Len(code)
  /\ phase' = "run" /\ Started(statement, machine') /\ initial' = machine'
  /\ line' = 1 /\ UNCHANGED <<statement, tree, code, errors, taken>>
Start ==
  /\ phase = "assemble" /\ line > Len(code)
  /\ IF errors > 0 THEN phase' = "failed" /\ UNCHANGED <<machine, initial>>
     ELSE IF \E i \in DOMAIN code : ~Compiles(code[i].words) THEN phase' = "uncompiled" /\ UNCHANGED <<machine, initial>>
     ELSE phase' = "run" /\ Started(statement, machine') /\ initial' = machine'
  /\ line' = 1 /\ UNCHANGED <<statement, tree, code, errors, taken>>

Words1 == code[line].words
At(l) == CHOOSE i \in DOMAIN code : code[i].label = l
JumpTo(l) == /\ taken' = (l = "taken")
             /\ IF l \in {"exit", "taken"} THEN phase' = "done" /\ line' = 1
                ELSE line' = At(l) /\ UNCHANGED phase
Jump == /\ phase = "run" /\ Denoted(Words1[1]) = "JMP" /\ JumpTo(Denoted(Words1[2]))
        /\ UNCHANGED <<statement, tree, code, errors, machine, initial>>
Branch == /\ phase = "run" /\ Denoted(Words1[1]) = "JMPC"
          /\ \E b \in Outcomes(machine, Words1) :
               IF b THEN JumpTo(Denoted(Words1[5])) ELSE line' = line + 1 /\ UNCHANGED <<phase, taken>>
          /\ machine' = [machine EXCEPT !.out = IF Denoted(Words1[2]) \in CMPFOP
                           THEN Append(@, <<Denoted(Words1[2]), Value(machine, Words1[3]), Value(machine, Words1[4])>>)
                           ELSE @]
          /\ UNCHANGED <<statement, tree, code, errors, initial>>
Step == /\ phase = "run" /\ Denoted(Words1[1]) \notin {"JMP", "JMPC"}
        /\ machine' = Do(machine, Words1) /\ line' = line + 1
        /\ UNCHANGED <<statement, tree, code, phase, errors, initial, taken>>

(* The compiler and the assembler need not be run to their ends; a program that runs goes on. *)
Run == Jump \/ Branch \/ Step
Next == Check \/ Generate \/ Assemble \/ Start \/ Run
Spec == Init /\ [][Next]_vars /\ WF_vars(Run)

----------------------------------------------------------------------------
(* Properties. *)

(* Type invariant: code is only run if it has been assembled, and it does not run off its end. *)
TypeOK == /\ phase \in {"check", "rejected", "generate", "assemble", "failed", "uncompiled", "run", "done"}
          /\ phase \in {"run", "done"} => errors = 0
          /\ phase = "run" => line \in DOMAIN code

(* What a statement means: its value, from the values of its operands converted to their types. *)
ToType(v, type) == IF IsFloat(type) /\ IsInt(v) THEN Conv(v[2]) ELSE v
Own(s, i) == LET e == s.leaves[i].elem IN
             IF e.kind = "val" THEN (IF Form(e.word) # "digits" THEN Denoted(e.word)
                                     ELSE ToType(Number(Denoted(e.word)), e.type))
             ELSE IF e.place # 0 THEN initial.mem[CellOf(e)] ELSE initial.reg[e.word]
Argument(s, i) == ToType(Own(s, i), IF s.kind # "test" /\ s.op \in Arithmetic THEN ResultType ELSE ConvertedTo(s, i))
FloatName == [PLUS |-> "FADD", MINUS |-> "FSUB", MULT |-> "FMUL", DIV |-> "FDIV"]
Arith(op, m, n) ==
  CASE op = "PLUS" -> InRange(m + n) [] op = "MINUS" -> InRange(m - n) [] op = "MULT" -> InRange(m * n)
    [] op \in {"DIV", "MOD"} /\ n = 0 -> Undefined
    [] op = "DIV" /\ n # 0 -> InRange(Quotient(m, n))
    [] op = "MOD" /\ n # 0 -> Number(m - n * Quotient(m, n))
    [] op = "SHL" -> IF n < 0 THEN Undefined ELSE InRange(m * 2 ^ n)
    [] op = "SHR" -> IF n < 0 \/ m < 0 THEN Undefined ELSE Number(m \div 2 ^ n)
    [] op \in {"BITAND", "AND"} -> Number(BitByBit("AND", m, n))
    [] op \in {"BITOR", "OR"} -> Number(BitByBit("OR", m, n))
    [] op = "BITXOR" -> Number(BitByBit("XOR", m, n))
Meaning(s) ==
  LET x == Argument(s, 1)
      y == Argument(s, 2)
  IN  CASE IsLeaf(s) -> ToType(Own(s, 1), ResultType)
        [] s.op = "UMINUS" -> IF IsInt(x) THEN InRange(-x[2]) ELSE Term("FNEG", x, x)
        [] s.op \in DOMAIN FloatName /\ IsFloat(ResultType) -> Term(FloatName[s.op], x, y)
        [] OTHER -> Arith(s.op, x[2], y[2])
Kind(e) == CASE Form(e.word) \in {"F", "point", "exponent"} -> "float"
             [] Form(e.word) \in {"R", "digits"} -> "int"
             [] Form(e.word) = "quoted" -> "string"
             [] OTHER -> "none"
Kinds(s) == {Kind(e) : e \in Operands(s)}
Truth(op, m, n) == CASE op = "EQ" -> m = n [] op = "NE" -> m # n [] op = "LT" -> m < n
                     [] op = "LE" -> m <= n [] op = "GT" -> m > n [] op = "GE" -> m >= n
TestRight(s) ==
  LET x == Own(s, 1)
      y == Own(s, 2)
  IN  IF Kinds(s) = {"int"} THEN taken = Truth(s.op, x[2], y[2])
      ELSE Last(machine.out) = (IF s.op \in {"LT", "LE"} THEN <<IF s.op = "LT" THEN "FGT" ELSE "FGE", y, x>>
                                  ELSE <<IF s.op = "GT" THEN "FGT" ELSE "FGE", x, y>>)

(* Where the value is expected. *)
Produced(s) ==
  CASE s.kind = "assign" -> machine.reg[s.target.word]
    [] s.kind = "return" -> machine.reg[IF IsFloat(s.type) THEN RETF_REG ELSE RETI_REG]
    [] s.kind = "argument" -> Load(machine, Number(Stack), IsFloat(s.type))
    [] s.kind = "print" -> Last(machine.out)[2]

(* Statements whose code is accepted and does something else: a converted variable or literal that
   is returned or passed as it is; a shift into the variable that is its count; a comparison that is
   the first to mention a global in memory; a comparison with a string, which is one of addresses. *)
Unconverted(s) == /\ s.kind \in {"return", "argument"} /\ IsLeaf(s)
                  /\ IsFloat(s.type) # IsFloat(s.leaves[1].elem.type)
Shifts1(s) == s.op \in {"SHL", "SHR"}
CountLost(s) == Shifts1(s) /\ s.fused /\ Operand(s, 2).word = s.target.word
Unloaded(s) == s.kind = "test" /\ \E e \in Operands(s) : e.place # 0
Addresses(s) == s.kind = "test" /\ \E e \in Operands(s) : IsString(e.type)
Excepted(s) == Unconverted(s) \/ CountLost(s) \/ Unloaded(s) \/ Addresses(s)


(* The assembler rejects the code of a type correct statement exactly where an operand is not of the
   kind its instruction takes: nothing converts operands but float arithmetic, and the store that is
   to bring a global back to memory is always that of the other kind.  The C compiler rejects what is
   left of it where a number with a point is passed to a function, and nowhere else. *)
Ordering == {"LT", "LE", "GT", "GE"}
Served(s) ==
  LET float == IsFloat(ResultType) IN
  /\ s.kind # "flush"
  /\ s.kind # "print" => \A i \in DOMAIN s.leaves : MovesLeaf(s, i) => IsFloat(ConvertedTo(s, i))
  /\ s.kind # "print" /\ IsLeaf(s) =>
       LET deciding == IF s.kind = "assign" THEN s.target.type ELSE s.leaves[1].elem.type IN
       IF s.kind = "assign" /\ IsString(deciding) THEN Kinds(s) = {"string"}
       ELSE Kinds(s) = {IF IsFloat(deciding) THEN "float" ELSE "int"}
  /\ s.kind = "test" =>
       LET deciding == IF s.op \in {"LT", "LE"} THEN 2 ELSE 1 IN
       Kinds(s) = {IF s.op \in Ordering /\ IsFloat(s.leaves[deciding].elem.type) THEN "float" ELSE "int"}
  /\ s.kind # "test" /\ ~IsLeaf(s) =>
       /\ s.op \notin Comparisons \cup {"NOT", "BITNOT"}
       /\ IF s.op \in Arithmetic /\ float THEN \A e \in Operands(s) : Kind(e) # "string" /\ Form(e.word) # "exponent"
          ELSE Kinds(s) = {IF s.op = "UMINUS" /\ float THEN "float" ELSE "int"}
       /\ float => s.op \in Arithmetic \cup {"UMINUS"}
NumberPassed(s) == s.kind = "argument" /\ IsLeaf(s) /\ s.leaves[1].elem.kind = "val" /\ Kinds(s) = {"float"}
Assembled == phase \in {"failed", "uncompiled", "run"} =>
               /\ phase = "failed" <=> ~Served(statement)
               /\ phase = "uncompiled" <=> Served(statement) /\ NumberPassed(statement)

(* Implicit conversions are part of the language: a statement with one gets code. *)
CoercionAssembles == phase = "failed" => \A i \in DOMAIN statement.leaves : ~MovesLeaf(statement, i)

(* The loop a shift is ends, and so does every statement that runs, unless the count is the largest
   integer there is. *)
LargestCount == /\ Shifts1(statement)
                /\ Own(statement, IF CountLost(statement) THEN 1 ELSE 2) = Number(MaxInt)
Ends == (phase = "run" /\ ~LargestCount) ~> (phase = "done")
=============================================================================

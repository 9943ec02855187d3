------------------------------ MODULE Assembler ------------------------------
(***************************************************************************)
(* The assembler: ICode.l makes tokens of the words of a line, ICode.y     *)
(* accepts the line or not.  An accepted line becomes one C statement, a   *)
(* macro of E--_RT.c; a line in error is skipped and counted.              *)
(***************************************************************************)
EXTENDS Instructions

(* ICode.l: the class of a word.  Registers have three digits, other words are mnemonics or names. *)
BINIOP == {"ADD", "SUB", "DIV", "MUL", "MOD", "AND", "OR", "XOR"}
BINFOP == {"FADD", "FSUB", "FDIV", "FMUL"}
CMPIOP == {"UGT", "UGE", "GT", "GE", "NE", "EQ"}
CMPFOP == {"FGT", "FGE", "FNEQ", "FEQ"}
Mnemonics == {"NEG", "FNEG", "PRTS", "PRTI", "PRTF", "JMP", "JMPI", "JMPC", "JMPCI", "MOVL", "MOVS",
              "MOVI", "MOVF", "MOVIF", "MOVFI", "STI", "STF", "LDI", "LDF", "IN", "INI", "INF"}
WordToken(m) == CASE m \in BINIOP -> "BINIOP" [] m \in BINFOP -> "BINFOP"
                  [] m \in CMPIOP -> "CMPIOP" [] m \in CMPFOP -> "CMPFOP"
                  [] m \in Mnemonics -> m
                  [] OTHER -> "IDENT"
TokensOf(w) == CASE Form(w) = "R" -> <<"IREG">>
                 [] Form(w) = "F" -> <<"FREG">>
                 [] Form(w) = "digits" -> <<"INTNUM">>
                 [] Form(w) \in {"point", "exponent"} -> <<"DOUBLENUM">>
                 [] Form(w) = "exponentPoint" -> <<"DOUBLENUM", "DOUBLENUM">>
                 [] Form(w) = "quoted" -> <<"STRCONST">>
                 [] Form(w) = "word" -> <<WordToken(Denoted(w))>>
Tokens(line) == FlattenSeq([i \in DOMAIN line.words |-> TokensOf(line.words[i])])

(* ICode.y: the rules of "instruction". *)
ioperand == {"IREG", "INTNUM"}
foperand == {"FREG", "DOUBLENUM"}
soperand == {"IREG", "STRCONST"}
Is(t) == {t}
instruction ==
  { <<Is("BINIOP"), ioperand, ioperand, Is("IREG")>>, <<Is("BINFOP"), foperand, foperand, Is("FREG")>>,
    <<Is("FNEG"), foperand, foperand>>, <<Is("NEG"), ioperand, ioperand>>,
    <<Is("PRTI"), ioperand>>, <<Is("PRTF"), foperand>>, <<Is("PRTS"), soperand>>,
    <<Is("JMP"), Is("IDENT")>>, <<Is("JMPI"), Is("IREG")>>,
    <<Is("JMPC"), Is("CMPIOP"), ioperand, ioperand, Is("IDENT")>>,
    <<Is("JMPC"), Is("CMPFOP"), foperand, foperand, Is("IDENT")>>,
    <<Is("JMPCI"), Is("CMPIOP"), ioperand, ioperand, Is("IREG")>>,
    <<Is("JMPCI"), Is("CMPFOP"), foperand, foperand, Is("IREG")>>,
    <<Is("MOVL"), Is("IDENT"), Is("IREG")>>, <<Is("MOVS"), Is("STRCONST"), Is("IREG")>>,
    <<Is("MOVI"), ioperand, Is("IREG")>>, <<Is("MOVF"), foperand, Is("FREG")>>,
    <<Is("MOVIF"), ioperand, Is("FREG")>>, <<Is("MOVFI"), foperand, Is("IREG")>>,
    <<Is("STI"), ioperand, ioperand>>, <<Is("STF"), foperand, ioperand>>,
    <<Is("LDI"), ioperand, Is("IREG")>>, <<Is("LDF"), ioperand, Is("FREG")>>,
    <<Is("IN"), Is("IREG")>>, <<Is("INI"), Is("IREG")>>, <<Is("INF"), Is("FREG")>> }
Parses(line) == LET t == Tokens(line) IN
                \E rule \in instruction : Len(rule) = Len(t) /\ \A i \in DOMAIN t : t[i] \in rule[i]

(* Newlines end instructions, so a label needs one behind it: serializeAsm puts a label that has none
   before the next instruction. *)
RECURSIVE WithLabels(_)
WithLabels(lines) ==
  IF Len(lines) < 2 THEN lines
  ELSE IF lines[1].words = BLANK
       THEN WithLabels(<<[lines[2] EXCEPT !.label = lines[1].label]>> \o SubSeq(lines, 3, Len(lines)))
       ELSE <<lines[1]>> \o WithLabels(Tail(lines))

----------------------------------------------------------------------------
(* E--_RT.c: what the macros do.  "machine" has the registers by word and the memory; a value is an
   integer, a floating point number (a term), a string, or what nobody wrote. *)

CONSTANTS MinInt, MaxInt        \* int
Number(n) == <<"int", n>>
Term(op, x, y) == <<"term", op, x, y>>
Undefined == <<"undefined", 0>>             \* undefined in C: overflow, division by zero
Bits(v) == <<"bits", v>>                    \* a word read as what it was not stored as
IsInt(v) == v[1] = "int"
IsFloatValue(v) == v[1] \in {"conv", "lit", "term"}

(* / and % of C truncate. *)
Abs(n) == IF n < 0 THEN -n ELSE n
Quotient(m, n) == LET q == Abs(m) \div Abs(n) IN IF (m < 0) = (n < 0) THEN q ELSE -q
InRange(n) == IF n \in MinInt..MaxInt THEN Number(n) ELSE Undefined
Bit(n, i) == (n \div (2 ^ i)) % 2
RECURSIVE BitByBit(_, _, _)
Boolean(f, m, n) == CASE f = "AND" -> m * n [] f = "OR" -> m + n - m * n [] f = "XOR" -> (m + n) % 2
BitByBit(f, m, n) ==      \* two's complement
  IF m \in {0, -1} /\ n \in {0, -1} THEN -Boolean(f, -m, -n)
  ELSE 2 * BitByBit(f, m \div 2, n \div 2) + Boolean(f, m % 2, n % 2)
Alu(op, x, y) ==
  LET m == x[2]
      n == y[2]
  IN  CASE ~IsInt(x) \/ ~IsInt(y) -> Undefined
        [] op = "ADD" -> InRange(m + n)
        [] op = "SUB" -> InRange(m - n)
        [] op = "MUL" -> InRange(m * n)
        [] op \in {"DIV", "MOD"} /\ n = 0 -> Undefined
        [] op = "DIV" /\ n # 0 -> InRange(Quotient(m, n))
        [] op = "MOD" /\ n # 0 -> Number(m - n * Quotient(m, n))
        [] op \in {"AND", "OR", "XOR"} -> InRange(BitByBit(op, m, n))
Holds(op, x, y) == CASE op = "GT" -> x[2] > y[2] [] op = "GE" -> x[2] >= y[2]
                     [] op = "EQ" -> x[2] = y[2] [] op = "NE" -> x[2] # y[2]

Value(machine, w) == IF Form(w) \in {"R", "F"} THEN machine.reg[w]
                     ELSE IF Form(w) = "digits" THEN Number(Denoted(w)) ELSE Denoted(w)
Set(machine, w, v) == [machine EXCEPT !.reg[w] = v]
Store(machine, a, v) == IF IsInt(a) /\ a[2] \in DOMAIN machine.mem
                        THEN [machine EXCEPT !.mem[a[2]] = v] ELSE machine
Load(machine, a, float) ==
  IF IsInt(a) /\ a[2] \in DOMAIN machine.mem
  THEN LET v == machine.mem[a[2]] IN IF IsFloatValue(v) = float THEN v ELSE Bits(v)
  ELSE Undefined

(* STF(f, a) takes the address of f: the C compiler rejects it when f is a number. *)
Compiles(words) == Denoted(words[1]) = "STF" => Form(words[2]) = "F"

(* One statement that is no jump, and compiles. *)
Do(machine, words) ==
  LET op == Denoted(words[1])
      x == Value(machine, words[2])
      y == Value(machine, words[3])
  IN  CASE op \in BINIOP -> Set(machine, words[4], Alu(op, x, y))
        [] op \in BINFOP -> Set(machine, words[4], Term(op, x, y))
        [] op = "NEG" -> Set(machine, words[3], Alu("SUB", Number(0), x))
        [] op = "FNEG" -> Set(machine, words[3], Term(op, x, x))
        [] op \in {"MOVI", "MOVF", "MOVS"} -> Set(machine, words[3], x)
        [] op = "MOVIF" -> Set(machine, words[3], IF IsInt(x) THEN Conv(x[2]) ELSE Undefined)
        [] op \in {"STI", "STF"} -> Store(machine, y, x)
        [] op \in {"LDI", "LDF"} -> Set(machine, words[3], Load(machine, x, op = "LDF"))
        [] op \in {"PRTI", "PRTF", "PRTS"} -> [machine EXCEPT !.out = Append(@, <<op, x>>)]
(* The condition of a JMPC on integers; of floats the comparison is all that is known. *)
Outcomes(machine, words) ==
  LET x == Value(machine, words[3])
      y == Value(machine, words[4])
  IN  IF Denoted(words[2]) \in CMPIOP /\ IsInt(x) /\ IsInt(y)
      THEN {Holds(Denoted(words[2]), x, y)} ELSE BOOLEAN
=============================================================================

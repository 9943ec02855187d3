---------------------------- MODULE Instructions ----------------------------
(***************************************************************************)
(* Instruction selection: the instructions getInstructionSet and           *)
(* iCodeToAsmGen make of one quadruple, as lines of words.  A word is      *)
(* <<form, value>>: what matters of its text is the form the assembler     *)
(* reads it in and the value that form denotes.                            *)
(***************************************************************************)
EXTENDS Integers, Sequences, SequencesExt

(* Words: Value::toString writes a double without a fraction as digits. *)
Word(s) == <<"word", s>>
Empty == <<"empty", "">>
Digits(v) == <<"digits", v>>            \* 12
Point(v) == <<"point", v>>              \* 2.5
Exponent(v) == <<"exponent", v>>        \* 1e+10
ExponentPoint(v) == <<"exponentPoint", v>>    \* 1e+10.0
Quoted(s) == <<"quoted", s>>
IntReg(r) == <<"R", r>>
FloatReg(r) == <<"F", r>>
Conv(n) == <<"conv", n>>                \* what 2.0 denotes: the float of an integer
Form(w) == w[1]
Denoted(w) == w[2]

SP_REG == IntReg("SP")
GLOBAL_REG == IntReg("GLOBAL")
TEMP_REG == IntReg("TEMP")
RETI_REG == IntReg("RETI")
RETF_REG == FloatReg("RETF")

(* Instruction: its label, and the words that are not empty (Instruction::toString). *)
Line(label, words) == [label |-> label, words |-> SelectSeq(words, LAMBDA w : w # Empty)]
Instr(words) == Line("", words)
BLANK == <<>>

----------------------------------------------------------------------------
(* IntrCodeElem: variables, values, labels and comparisons. *)

Elem(kind, type, word, place) == [kind |-> kind, type |-> type, word |-> word, place |-> place, quad |-> <<>>]
NULL == Elem("none", "none", Empty, 0)
IsFloat(type) == type = "double"
IsString(type) == type = "string"
Var(type, name) == Elem("var", type, IF IsFloat(type) THEN FloatReg(name) ELSE IntReg(name), 0)
(* A global that lives in memory and has no register yet. *)
InMemory(type, name, offSet) == [Var(type, name) EXCEPT !.place = offSet]
Val(type, word) == Elem("val", type, word, 0)
LabelElem(l) == Elem("label", "none", Word(l), 0)
QuadElem(q) == [Elem("quad", "none", Empty, 0) EXCEPT !.quad = <<q>>]
Quad(opc, e1, e2, e3) == [opc |-> opc, e1 |-> e1, e2 |-> e2, e3 |-> e3]

(* getVEReg: the first mention of such a global fetches its register and loads it, unless it is the
   target. *)
Loads(e) == IF e.place = 0 THEN <<>>
            ELSE <<Instr(<<Word("SUB"), GLOBAL_REG, Digits(e.place), TEMP_REG>>),
                   Instr(<<Word(IF IsFloat(e.type) THEN "LDF" ELSE "LDI"), TEMP_REG, e.word>>)>>

(* OpCodeInstMap. *)
Opcodes == [UMINUS |-> <<"NEG", "FNEG">>, PLUS |-> <<"ADD", "FADD">>, MINUS |-> <<"SUB", "FSUB">>,
            MULT |-> <<"MUL", "FMUL">>, DIV |-> <<"DIV", "FDIV">>, MOD |-> <<"MOD">>,
            EQ |-> <<"EQ", "FEQ">>, NE |-> <<"NE", "FNE">>, GT |-> <<"GT", "FGT">>, LT |-> <<"GT", "FGT">>,
            GE |-> <<"GE", "FGE">>, LE |-> <<"GE", "FGE">>, AND |-> <<"AND">>, OR |-> <<"OR">>,
            NOT |-> <<"XOR">>, BITNOT |-> <<"XOR">>, BITAND |-> <<"AND">>, BITOR |-> <<"OR">>,
            BITXOR |-> <<"XOR">>, ASSIGN |-> <<"MOVI", "MOVF", "MOVS">>, PRINT |-> <<"PRTI", "PRTF", "PRTS">>,
            JMP |-> <<"JMP">>, JMPC |-> <<"JMPC">>, MOVIF |-> <<"MOVIF">>]
           @@ ("IN" :> <<"INI", "INF">>)
FetchInstr(opc, instNum) ==
  Opcodes[opc][IF instNum < Len(Opcodes[opc]) THEN instNum + 1 ELSE Len(Opcodes[opc])]

Swapped(q) == q.opc \in {"LT", "LE"}
First(q) == IF Swapped(q) THEN q.e2 ELSE q.e1
Second(q) == IF Swapped(q) THEN q.e1 ELSE q.e2
Deciding(q) == IF q.opc \in {"LT", "LE", "GT", "GE", "PRINT"} THEN First(q) ELSE q.e3
InstNum(q) == LET type == Deciding(q).type IN
              IF q.opc \in {"ASSIGN", "PRINT"} /\ IsString(type) THEN 2 ELSE IF IsFloat(type) THEN 1 ELSE 0

----------------------------------------------------------------------------
(* Shifts are loops: the counter is TEMP_REG, the count is copied after the value is. *)

\* Mutant: the loop starts with the reset of its counter.
ShiftAnew(q, step) ==
  << Instr(<<Word("MOVI"), q.e1.word, q.e3.word>>),
     Instr(<<Word("MOVI"), q.e2.word, IntReg("count")>>),
     Line("again", <<Word("MOVI"), Digits(1), TEMP_REG>>),
     Instr(<<Word("JMPC"), Word("GT"), TEMP_REG, IntReg("count"), Word("over")>>),
     Instr(<<Word(step), q.e3.word, Digits(2), q.e3.word>>),
     Instr(<<Word("ADD"), Digits(1), TEMP_REG, TEMP_REG>>),
     Instr(<<Word("JMP"), Word("again")>>),
     Line("over", BLANK) >>
Shift(q, step) ==
  << Instr(<<Word("MOVI"), q.e1.word, q.e3.word>>),
     Instr(<<Word("MOVI"), q.e2.word, IntReg("count")>>),
     Instr(<<Word("MOVI"), Digits(1), TEMP_REG>>),
     Line("again", <<Word("JMPC"), Word("GT"), TEMP_REG, IntReg("count"), Word("over")>>),
     Instr(<<Word(step), q.e3.word, Digits(2), q.e3.word>>),
     Instr(<<Word("ADD"), Digits(1), TEMP_REG, TEMP_REG>>),
     Instr(<<Word("JMP"), Word("again")>>),
     Line("over", BLANK) >>

(* Operands of float arithmetic: registers of integers are moved to a fresh float register, and
   ".0" is written behind what has no point. *)
Arithmetical == {"PLUS", "MINUS", "MULT", "DIV"}
Moved(w, fresh) == IF Form(w) = "R" THEN <<Instr(<<Word("MOVIF"), w, fresh>>)>> ELSE <<>>
\* Mutant: nothing is written behind an exponent.
AsFloatBare(w, fresh) == CASE Form(w) = "R" -> fresh
                           [] Form(w) = "digits" -> Point(Conv(Denoted(w)))
                           [] OTHER -> w
AsFloat(w, fresh) == CASE Form(w) = "R" -> fresh
                       [] Form(w) = "digits" -> Point(Conv(Denoted(w)))
                       [] Form(w) = "exponent" -> ExponentPoint(Denoted(w))
                       [] OTHER -> w

(* getInstructionSet, for operands without a comparison among them. *)
Plain(q) ==
  LET mixed == q.opc \in Arithmetical /\ InstNum(q) = 1
      a == First(q).word
      b == Second(q).word
      code == Word(FetchInstr(q.opc, InstNum(q)))
  IN  IF mixed
      THEN Moved(a, FloatReg("f1")) \o Moved(b, FloatReg("f2"))
             \o <<Instr(<<code, AsFloat(a, FloatReg("f1")), AsFloat(b, FloatReg("f2")), q.e3.word>>)>>
      ELSE <<Instr(<<code, a, b, q.e3.word>>)>>

(* The comparison in a JMPC is generated twice: the first time into a vector that is dropped, with
   the loads in it; the second time nothing is left to load, and it is the first instruction. *)
Compare(q) == Instr(<<Word("JMPC")>> \o Plain(q.e1.quad[1])[1].words \o <<q.e2.word>>)

(* One quadruple in iCodeToAsmGen; RET moves to the register of its operand's type. *)
Ret(e) == Loads(e) \o
  <<Instr(<<Word(IF IsFloat(e.type) THEN "MOVF" ELSE "MOVI"), e.word,
            IF IsFloat(e.type) THEN RETF_REG ELSE RETI_REG>>)>>
Select(q) ==
  CASE q.opc = "RET" -> Ret(q.e1)
    [] q.opc = "JMPC" -> <<Compare(q)>>
    [] q.opc = "SHL" -> Loads(q.e1) \o Loads(q.e2) \o Shift(q, "MUL")
    [] q.opc = "SHR" -> Loads(q.e1) \o Loads(q.e2) \o Shift(q, "DIV")
    [] OTHER -> Loads(q.e1) \o Loads(q.e2) \o Plain(q)

(* An argument of a CALL is stored where the stack pointer is. *)
PushArgument(e) ==
  Loads(e) \o << Instr(<<Word(IF IsFloat(e.type) THEN "STF" ELSE "STI"), e.word, SP_REG>>),
                 Instr(<<Word("SUB"), SP_REG, Digits(1), SP_REG>>) >>

(* purgeReg: a global in memory goes back to its cell, by the store of the other kind of register. *)
StoreBack(e) == << Instr(<<Word("SUB"), GLOBAL_REG, Digits(e.place), TEMP_REG>>),
                   Instr(<<Word(IF IsFloat(e.type) THEN "STI" ELSE "STF"), e.word, TEMP_REG>>) >>
=============================================================================

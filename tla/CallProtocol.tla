---------------------------- MODULE CallProtocol ----------------------------
(***************************************************************************)
(* The calling convention of the E-- compiler, as the instructions it      *)
(* generates carry it out: registers SP and BP, a stack in memory growing  *)
(* towards lower addresses, SP naming the next free cell.                  *)
(*                                                                         *)
(*   caller, Quadruple::iCodeToAsmGen (CALL) and InvocationNode::codeGen:  *)
(*     store the registers of entrySet, in the order of the set (an        *)
(*     std::set of pointers); store the arguments, last to first; store    *)
(*     the return label; jump; then move the result, and load the          *)
(*     registers of entrySet back in the opposite order                    *)
(*   callee, FunctionEntry::codeGen:                                       *)
(*     store BP; BP := SP; load the parameters above the return label;     *)
(*     ... ; SP := BP; load BP and the label; drop the arguments; jump     *)
(*                                                                         *)
(* The generated code is sequential, so a call and a return are a step     *)
(* each.  A function's body is any sequence of assignments and of its call *)
(* sites, as loops and conditionals allow; what entrySet holds at a site   *)
(* is fixed at compile time, and given with the site.                      *)
(*                                                                         *)
(* An argument the code mentions for the first time at a call is late:     *)
(* it is reloaded but was never stored, and the return leaves SP too high. *)
(* The model follows the program up to that return.                        *)
(*                                                                         *)
(* The variable calls is history: what the caller had at each pending      *)
(* call.  No step reads it but for the bounds.                             *)
(***************************************************************************)
EXTENDS Integers, Sequences, FiniteSets

CONSTANTS
  Value, Var, Global, Fun, Main, Locals, Formals, Site, NoSite, Call, NoVar,
                    \* as in CallStack
  Reg, RegOf,       \* the registers and the register of a variable
  Address,          \* where its VariableEntry is: the order of entrySet
  Junk,             \* what BP and the cells of memory hold at first
  Origin,           \* the first SP, 10000 in genFinalCode
  TopCell,          \* bound: the last cell of memory, above Origin
  MaxDepth          \* bound: pending calls

Cells == 0 .. TopCell
Word == Value \cup Site \cup Cells \cup {Junk}

\* A pending call: its site, SP and BP before it, and what the variables
\* were that the caller is to have back.
PendingCall ==
  [ site : Site, sp : Cells, bp : Cells \cup {Junk},
    env  : UNION { [S -> Value] : S \in SUBSET Var } ]

\* Call[s].entry is entrySet when the call's quadruple is translated.
ASSUME ProgramAssumption ==
  /\ IsFiniteSet(Var) /\ Global \subseteq Var /\ Main \in Fun
  /\ NoVar \notin Var /\ NoSite \notin Site /\ Junk \notin Site
  /\ Var \cap Value = {}
  /\ Locals \in [Fun -> SUBSET (Var \ Global)]
  /\ \A f, g \in Fun : f # g => Locals[f] \cap Locals[g] = {}
  /\ Formals \in [Fun -> Seq(Var)]
  /\ \A f \in Fun : \A i, j \in DOMAIN Formals[f] :
       /\ Formals[f][i] \in Locals[f]
       /\ Formals[f][i] = Formals[f][j] => i = j
  /\ Call \in [Site -> [from : Fun, to : Fun \ {Main}, args : Seq(Var \cup Value),
                        result : Var \cup {NoVar}, entry : SUBSET Var]]
  /\ \A s \in Site :
       /\ Len(Call[s].args) = Len(Formals[Call[s].to])
       /\ \A i \in DOMAIN Call[s].args :
            Call[s].args[i] \in Locals[Call[s].from] \cup Global \cup Value
       /\ Call[s].result \in Locals[Call[s].from] \cup Global \cup {NoVar}
       /\ Call[s].entry \subseteq Locals[Call[s].from] \cup Global

\* Registers do not clash within a function, nor with a global's
\* (IntExclusive of CodeGenRegs), and pointers differ.
ASSUME RegisterAssumption ==
  /\ RegOf \in [Var -> Reg] /\ Address \in [Var -> Nat]
  /\ \A f \in Fun : \A u, v \in Locals[f] \cup Global : RegOf[u] = RegOf[v] => u = v
  /\ \A u, v \in Var : Address[u] = Address[v] => u = v

ASSUME MemoryAssumption ==
  TopCell \in Nat /\ MaxDepth \in Nat /\ Origin \in Cells

VARIABLES mem, sp, bp, reg, cur, calls

vars == <<mem, sp, bp, reg, cur, calls>>

Init ==
  /\ mem = [a \in Cells |-> Junk]
  /\ sp = Origin /\ bp = Junk
  /\ reg \in [Reg -> Value]
  /\ cur = Main
  /\ calls = <<>>

-----------------------------------------------------------------------------
(* entrySet and the cells its registers go to                              *)

\* A global in a register is skipped by the flush and by the reload.
Saved(s) == Call[s].entry \ Global

Operands(as) == { as[i] : i \in DOMAIN as } \cap Var

\* Mutant: the reload does not skip the globals.
ReloadedGlobals(s) == Call[s].entry \cup Operands(Call[s].args)

\* The arguments enter entrySet after the flush and before the reload.
Reloaded(s) == (Call[s].entry \cup Operands(Call[s].args)) \ Global

\* The place of v in the iteration of a set of pointers.
Slot(S, v) == Cardinality({ u \in S : Address[u] <= Address[v] })

\* The cell of v when S is stored from cell a downwards, or loaded back in
\* the opposite order with the last load from cell a.
SlotCell(S, v, a) == a + 1 - Slot(S, v)

FrameSize(s) == 2 + Len(Call[s].args) + Cardinality(Saved(s))

\* The arguments that the flush did not find in entrySet.
Late(s) == Operands(Call[s].args) \ (Call[s].entry \cup Global)

-----------------------------------------------------------------------------
(* Frames                                                                  *)

LastCall == calls[Len(calls)]
Pending == DOMAIN calls

\* The base of the frame the i-th pending call made, and where SP is while
\* the function that runs makes no call.
Base(i) == calls[i].sp - FrameSize(calls[i].site)
Level == IF calls = <<>> THEN Origin ELSE Base(Len(calls))

\* Bound: nothing is followed once SP is off.  A call made then stores over
\* the control link and the return label of the frame it is made in.
Straight == sp = Level

\* What the caller has back after a call: entrySet, if the reload takes off
\* what the flush put on.
Kept(s) == IF Late(s) = {} THEN Saved(s) ELSE {}

-----------------------------------------------------------------------------

Assign(v, x) ==
  /\ Straight
  /\ v \in Locals[cur] \cup Global
  /\ reg' = [reg EXCEPT ![RegOf[v]] = x]
  /\ UNCHANGED <<mem, sp, bp, cur, calls>>

\* instructionParam of an argument
Operand(a) == IF a \in Var THEN reg[RegOf[a]] ELSE a

\* Mutant: BP is set before it is stored.
FrameWordLate(s, base, a) ==
  IF a = base + 1 THEN base
  ELSE IF a = base + 2 THEN s
  ELSE IF a <= base + 2 + Len(Call[s].args) THEN Operand(Call[s].args[a - base - 2])
  ELSE reg[RegOf[CHOOSE v \in Saved(s) : a = SlotCell(Saved(s), v, sp)]]

\* What the call at s leaves in cell a of the part it pushes, base being the
\* callee's BP.
FrameWord(s, base, a) ==
  IF a = base + 1 THEN bp
  ELSE IF a = base + 2 THEN s
  ELSE IF a <= base + 2 + Len(Call[s].args) THEN Operand(Call[s].args[a - base - 2])
  ELSE reg[RegOf[CHOOSE v \in Saved(s) : a = SlotCell(Saved(s), v, sp)]]

\* Mutant: TEMP starts one cell low, at the return label.
LoadParamsLow(f, base, m) ==
  [r \in Reg |->
     IF \E i \in DOMAIN Formals[f] : RegOf[Formals[f][i]] = r
     THEN m[base + 1 + (CHOOSE i \in DOMAIN Formals[f] : RegOf[Formals[f][i]] = r)]
     ELSE reg[r]]

\* The parameters' registers, loaded from TEMP = BP + 3 upwards.
LoadParams(f, base, m) ==
  [r \in Reg |->
     IF \E i \in DOMAIN Formals[f] : RegOf[Formals[f][i]] = r
     THEN m[base + 2 + (CHOOSE i \in DOMAIN Formals[f] : RegOf[Formals[f][i]] = r)]
     ELSE reg[r]]

CallFrom(s) ==
  LET base == sp - FrameSize(s) IN
  /\ Straight
  /\ cur = Call[s].from
  /\ Len(calls) < MaxDepth /\ base >= 0
  /\ mem' = [a \in Cells |-> IF a \in base + 1 .. sp THEN FrameWord(s, base, a) ELSE mem[a]]
  /\ sp' = base /\ bp' = base
  /\ reg' = LoadParams(Call[s].to, base, mem')
  /\ cur' = Call[s].to
  /\ calls' = Append(calls, [site |-> s, sp |-> sp, bp |-> bp,
                             env |-> [v \in Kept(s) |-> reg[RegOf[v]]]])

\* Mutant: the reload is in the order of the flush, not in the opposite one.
RestoredInOrder(s, x, top) ==
  [r \in Reg |->
     IF \E v \in Reloaded(s) : RegOf[v] = r
     THEN mem[top - Cardinality(Reloaded(s))
                + Slot(Reloaded(s), CHOOSE v \in Reloaded(s) : RegOf[v] = r)]
     ELSE IF Call[s].result # NoVar /\ RegOf[Call[s].result] = r THEN x
     ELSE reg[r]]

\* After the jump back: the result's register, then the reload over it.
Restored(s, x, top) ==
  [r \in Reg |->
     IF \E v \in Reloaded(s) : RegOf[v] = r
     THEN mem[SlotCell(Reloaded(s), CHOOSE v \in Reloaded(s) : RegOf[v] = r, top)]
     ELSE IF Call[s].result # NoVar /\ RegOf[Call[s].result] = r THEN x
     ELSE reg[r]]

\* The function's exit with x in the return register: its own result, or
\* what is there when the body ends without a return statement.
Return(x) ==
  /\ Straight /\ cur # Main
  /\ bp \in Cells /\ bp + 2 \in Cells
  /\ mem[bp + 2] \in Site
  /\ LET s   == mem[bp + 2]
         top == bp + 2 + Len(Formals[cur]) + Cardinality(Reloaded(s))
     IN  /\ top \in Cells
         /\ reg' = Restored(s, x, top)
         /\ sp' = top
         /\ bp' = mem[bp + 1]
         /\ cur' = Call[s].from
  /\ calls' = SubSeq(calls, 1, Len(calls) - 1)
  /\ UNCHANGED mem

Next ==
  \/ \E v \in Var, x \in Value : Assign(v, x)
  \/ \E s \in Site : CallFrom(s)
  \/ \E x \in Value : Return(x)

Spec == Init /\ [][Next]_vars

-----------------------------------------------------------------------------
(* Properties                                                              *)

\* The machine's state is well formed; while SP is in its place variables
\* hold values, never labels or addresses.
TypeOK ==
  /\ mem \in [Cells -> Word]
  /\ sp \in Cells /\ bp \in Cells \cup {Junk}
  /\ reg \in [Reg -> IF Straight THEN Value ELSE Word]
  /\ cur \in Fun
  /\ calls \in Seq(PendingCall)

\* The frames of the pending calls lie one below the other, the last one at
\* BP, and each still has its control link, its return label and the
\* registers its caller is to have back: nothing a callee does, its own calls
\* included, writes over them (FunctionEntry::codeGen, "Restoring BP").  SP
\* is at BP, or above it by the late arguments of one call just made.
FramesIntact ==
  /\ sp \in {Level} \cup {Level + Cardinality(Late(s)) : s \in {t \in Site : Call[t].from = cur}}
  /\ bp = IF calls = <<>> THEN Junk ELSE Level
  /\ cur = IF calls = <<>> THEN Main ELSE Call[LastCall.site].to
  /\ \A i \in Pending :
       LET s == calls[i].site IN
       /\ calls[i].sp = IF i = 1 THEN Origin ELSE Base(i - 1)
       /\ calls[i].bp = IF i = 1 THEN Junk ELSE Base(i - 1)
       /\ mem[Base(i) + 1] = calls[i].bp
       /\ mem[Base(i) + 2] = s
       /\ \A v \in Kept(s) : mem[SlotCell(Saved(s), v, calls[i].sp)] = calls[i].env[v]

\* A return leaves BP as it was before the call, and SP too, but higher by
\* one cell for every late argument: what the flush, the arguments and the
\* label put on the stack has been taken off, and one more for each of those.
Balanced ==
  [][ sp' > sp => /\ sp' = LastCall.sp + Cardinality(Late(LastCall.site))
                  /\ bp' = LastCall.bp ]_vars

\* The convention does what a call means: CallStack, with the activation
\* that runs in the registers and the suspended ones as calls tells.  The
\* caller is promised the variables of entrySet, and its result unless that
\* is one of them (x = f(x), after x was mentioned, keeps the old x); at a
\* call with late arguments, nothing about its own variables.
AbsFrames ==
  [ i \in 1 .. Len(calls) + 1 |->
      [ site |-> IF i = 1 THEN NoSite ELSE calls[i - 1].site,
        env  |-> IF i = Len(calls) + 1 THEN [v \in Locals[cur] |-> reg[RegOf[v]]]
                 ELSE calls[i].env ] ]

Abstract == INSTANCE CallStack
  WITH frames <- AbsFrames, glob <- [v \in Global |-> reg[RegOf[v]]],
       Keeps <- [s \in Site |-> Kept(s)],
       Delivered <- {s \in Site : Late(s) = {} /\ Call[s].result \notin Saved(s)}

MeansCall == Abstract!StackSpec

\* "Loading Back Registers" (CodeGen.C:644): after the return the variables
\* of entrySet are in their registers again.
KeptRestored ==
  [][ sp' > sp => \A v \in Kept(LastCall.site) : reg'[RegOf[v]] = LastCall.env[v] ]_vars
=============================================================================

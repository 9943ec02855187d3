---------------------------- MODULE CodeGenRegs ----------------------------
(***************************************************************************)
(* Register allocation over a whole compilation: everything the code       *)
(* generator does to the register manager, in the order it does it.        *)
(*                                                                         *)
(* GlobalEntry::genFinalCode walks the global symbol table, giving every   *)
(* register-resident global its register and generating each function;     *)
(* then it generates the global section, then the rules, and last fetches  *)
(* the register of the event loop.  Functions, global section and rules    *)
(* are the "code modules": Quadruple::iCodeToAsmGen generates each from    *)
(* its quadruples, collecting the variables it meets in entrySet, and      *)
(* purges the registers of entrySet at the end of the module.              *)
(*                                                                         *)
(* The quadruples of a module are any sequence over its own variables and  *)
(* the globals declared so far.                                            *)
(***************************************************************************)
EXTENDS RegMgr, Sequences

CONSTANTS
  Module,           \* the code modules
  NoModule,         \* none is being generated
  ModKind,          \* "function", "globalsec" or "rule"
  Owner,            \* the module a variable belongs to; NoModule for a global
  Params            \* the parameters of a module, in symbol table order

IsGlobal(v) == Kind[v] \in {"GLOBAL_REG", "GLOBAL_MEM"}
ParamsOf(f) == { Params[f][i] : i \in DOMAIN Params[f] }

ASSUME ModuleAssumption ==
  /\ NoModule \notin Module
  /\ ModKind \in [Module -> {"function", "globalsec", "rule"}]
  /\ Owner \in [Var -> Module \cup {NoModule}]
  /\ \A v \in Var : Owner[v] = NoModule <=> IsGlobal(v)
  /\ Params \in [Module -> Seq(Var)]
  /\ \A f \in Module : \A v \in ParamsOf(f) : Owner[v] = f /\ Kind[v] = "PARAM"
  /\ \A f \in Module : \A i, j \in DOMAIN Params[f] : Params[f][i] = Params[f][j] => i = j

VARIABLES
  rm,               \* the register manager, with every variable's regName_
  pc,               \* where code generation is
  cur,              \* the module being generated
  todo,             \* the variables the loop at pc has still to visit
  params,           \* the parameters still to be loaded
  entrySet,         \* entrySet of iCodeToAsmGen
  declared,         \* the globals genFinalCode has passed
  done,             \* the modules generated
  evnReg,           \* evnReg of genFinalCode
  unstored          \* the globals in memory that a quadruple was to assign,
                    \* with no store instruction generated since

vars == <<rm, pc, cur, todo, params, entrySet, declared, done, evnReg, unstored>>

Init ==
  /\ rm = InitManager
  /\ pc = "symtab" /\ cur = NoModule
  /\ todo = {} /\ params = <<>> /\ entrySet = {}
  /\ declared = {} /\ done = {}
  /\ evnReg = NONE /\ unstored = {}

\* The symbol table entries a quadruple of the current module can name.
Visible == declared \cup { v \in Var : Owner[v] = cur }
Operand == Visible \cup {NoVar}

\* instructionParam: literals, labels and absent operands need no register.
InstructionParam(m, e) == IF e = NoVar THEN m ELSE GetVEReg(m, e)

\* insertIntoSet for each of a quadruple's elements.
Entries(es) == es \ {NoVar}
MemoryGlobals(es) == { v \in Entries(es) : Kind[v] = "GLOBAL_MEM" }

-----------------------------------------------------------------------------
(* genFinalCode: the walk over the global symbol table                     *)

\* Mutant: the register is fetched and not given to the global.
FetchResidentUnset(m, v) == Fetch(m, BankOf(v))

\* GlobalEntry::genFinalCode fetches without the entry and sets regName_.
FetchResident(m, v) ==
  LET f == Fetch(m, BankOf(v)) IN
  IF f.hung THEN f ELSE [f EXCEPT !.reg[v] = FetchedName(m, BankOf(v))]

DeclareGlobal(v) ==
  /\ pc = "symtab" /\ cur = NoModule
  /\ IsGlobal(v) /\ v \notin declared
  /\ declared' = declared \cup {v}
  /\ rm' = IF Kind[v] = "GLOBAL_REG" THEN FetchResident(rm, v) ELSE rm
  /\ UNCHANGED <<pc, cur, todo, params, entrySet, done, evnReg, unstored>>

\* The order of genFinalCode: functions while it walks the table, the
\* global section when every global is declared, the rules after that.
Startable(f) ==
  /\ f \notin done
  /\ ModKind[f] # "function" =>
       \A v \in Var : IsGlobal(v) => v \in declared
  /\ ModKind[f] = "globalsec" =>
       \A g \in Module : ModKind[g] = "function" => g \in done
  /\ ModKind[f] = "rule" =>
       \A g \in Module : ModKind[g] # "rule" => g \in done

BeginModule(f) ==
  /\ pc = "symtab" /\ cur = NoModule
  /\ Startable(f)
  /\ cur' = f /\ pc' = "load"
  /\ params' = Params[f] /\ entrySet' = {}
  /\ UNCHANGED <<rm, todo, declared, done, evnReg, unstored>>

\* FunctionEntry::codeGen loads the parameters before it generates the body.
LoadParam ==
  /\ pc = "load" /\ params # <<>>
  /\ rm' = FetchFor(rm, Head(params))
  /\ params' = Tail(params)
  /\ UNCHANGED <<pc, cur, todo, entrySet, declared, done, evnReg, unstored>>

BodyStart ==
  /\ pc = "load" /\ params = <<>>
  /\ pc' = "body"
  /\ UNCHANGED <<rm, cur, todo, params, entrySet, declared, done, evnReg, unstored>>

-----------------------------------------------------------------------------
(* iCodeToAsmGen: one quadruple                                            *)

\* The scratch register of a shift: fetched for nobody, purged at once.
ShiftScratch(m) ==
  LET f == Fetch(m, "R") IN
  IF f.hung THEN f ELSE PurgeReg(f, "R", FetchedName(m, "R"), FALSE)

\* The two float registers an arithmetic quadruple with a float result
\* fetches for conversions, and never purges.
FloatScratch(m) == Fetch(Fetch(m, "F"), "F")

\* What getInstructionSet tells apart: a shift, which has a result, an
\* arithmetic quadruple with a float result, and everything else.
Operation(t) ==
  {"plain"} \cup (IF t # NoVar THEN {"shift"} ELSE {})
            \cup (IF t # NoVar /\ BankOf(t) = "F" THEN {"float"} ELSE {})

GetInstructionSet(m, op, a, b, t) ==
  LET n == InstructionParam(InstructionParam(InstructionParam(m, a), b), t) IN
  IF n.hung THEN n
  ELSE IF op = "shift" THEN ShiftScratch(n)
  ELSE IF op = "float" THEN FloatScratch(n)
  ELSE n

GenQuad(op, a, b, t) ==
  /\ pc = "body" /\ op \in Operation(t)
  /\ rm' = GetInstructionSet(rm, op, a, b, t)
  /\ entrySet' = entrySet \cup Entries({a, b, t})
  /\ unstored' = unstored \cup MemoryGlobals({t})
  /\ UNCHANGED <<pc, cur, todo, params, declared, done, evnReg>>

\* JMPC: the comparison is a quadruple inside the quadruple.  It is
\* generated by a nested iCodeToAsmGen with an entrySet of its own and
\* without the purge, so its operands never reach the outer entrySet.
GenJmpc(a, b) ==
  /\ pc = "body"
  /\ rm' = InstructionParam(InstructionParam(rm, a), b)
  /\ UNCHANGED <<pc, cur, todo, params, entrySet, declared, done, evnReg, unstored>>

-----------------------------------------------------------------------------
(* iCodeToAsmGen: CALL                                                     *)

\* The result's register comes first; the result does not enter entrySet.
BeginCall(t) ==
  /\ pc = "body"
  /\ rm' = InstructionParam(rm, t)
  /\ todo' = entrySet /\ pc' = "flush"
  /\ UNCHANGED <<cur, params, entrySet, declared, done, evnReg, unstored>>

\* Mutant: the global keeps its register and is not stored.
FlushVarKeeping(v) ==
  /\ pc = "flush" /\ v \in todo
  /\ todo' = todo \ {v}
  /\ UNCHANGED <<rm, pc, cur, params, entrySet, declared, done, evnReg, unstored>>

\* purgeReg with a vector for its code: a store is generated for the
\* variable regMap_ has at the register, if it is a global in memory.
Purge(v) ==
  /\ rm' = PurgeReg(rm, BankOf(v), rm.reg[v], TRUE)
  /\ unstored' = unstored \ StoredBy(rm, BankOf(v), rm.reg[v])

\* One turn of the flush: a global in memory is stored and gives up its
\* register, a global in a register stays, the others are pushed.
FlushVar(v) ==
  /\ pc = "flush" /\ v \in todo
  /\ todo' = todo \ {v}
  /\ IF rm.reg[v] # NONE /\ Kind[v] = "GLOBAL_MEM" THEN Purge(v)
     ELSE UNCHANGED <<rm, unstored>>
  /\ UNCHANGED <<pc, cur, params, entrySet, declared, done, evnReg>>

\* The arguments, last to first, then the jump and the reload, which
\* fetch nothing.
PushArguments(a, b) ==
  /\ pc = "flush" /\ todo = {}
  /\ rm' = InstructionParam(InstructionParam(rm, b), a)
  /\ entrySet' = entrySet \cup Entries({a, b})
  /\ pc' = "body"
  /\ UNCHANGED <<cur, todo, params, declared, done, evnReg, unstored>>

-----------------------------------------------------------------------------
(* iCodeToAsmGen: the purge at the end of a module                         *)

EndQuads ==
  /\ pc = "body"
  /\ todo' = entrySet /\ pc' = "purge"
  /\ UNCHANGED <<rm, cur, params, entrySet, declared, done, evnReg, unstored>>

\* Mutant: parameters are passed over.
PurgeVarNoParam(v) ==
  /\ pc = "purge" /\ v \in todo
  /\ todo' = todo \ {v}
  /\ IF rm.reg[v] # NONE /\ Kind[v] \notin {"GLOBAL_REG", "PARAM"} THEN Purge(v)
     ELSE UNCHANGED <<rm, unstored>>
  /\ UNCHANGED <<pc, cur, params, entrySet, declared, done, evnReg>>

PurgeVar(v) ==
  /\ pc = "purge" /\ v \in todo
  /\ todo' = todo \ {v}
  /\ IF rm.reg[v] # NONE /\ Kind[v] # "GLOBAL_REG" THEN Purge(v)
     ELSE UNCHANGED <<rm, unstored>>
  /\ UNCHANGED <<pc, cur, params, entrySet, declared, done, evnReg>>

EndModule ==
  /\ pc = "purge" /\ todo = {}
  /\ done' = done \cup {cur}
  /\ cur' = NoModule /\ pc' = "symtab"
  /\ UNCHANGED <<rm, todo, params, entrySet, declared, evnReg, unstored>>

\* genFinalCode, after the rules.
FetchEventReg ==
  /\ pc = "symtab" /\ cur = NoModule /\ done = Module
  /\ rm' = Fetch(rm, "R")
  /\ evnReg' = IF rm'.hung THEN NONE ELSE FetchedName(rm, "R")
  /\ pc' = "done"
  /\ UNCHANGED <<cur, todo, params, entrySet, declared, done, unstored>>

-----------------------------------------------------------------------------

Step ==
  \/ \E v \in Var : DeclareGlobal(v)
  \/ \E f \in Module : BeginModule(f)
  \/ LoadParam
  \/ BodyStart
  \/ \E op \in {"plain", "shift", "float"}, a, b, t \in Operand : GenQuad(op, a, b, t)
  \/ \E a, b \in Operand : GenJmpc(a, b)
  \/ \E t \in Operand : BeginCall(t)
  \/ \E v \in Var : FlushVar(v)
  \/ \E a, b \in Operand : PushArguments(a, b)
  \/ EndQuads
  \/ \E v \in Var : PurgeVar(v)
  \/ EndModule
  \/ FetchEventReg

\* A fetch that does not return stops the compiler where it is.
Next == ~rm.hung /\ Step

Spec == Init /\ [][Next]_vars

-----------------------------------------------------------------------------
(* Properties                                                              *)

\* The registers of the integer pool, and what becomes of one of them.
IntCell == Reserved["R"] .. TOTAL_REG - 1
HeldBy(v, n) == ~IsFloat[v] /\ rm.reg[v] = n
Leaked(n) == LET v == rm.regMap["R"][n] IN v # NoVar /\ rm.reg[v] # n

\* The manager's arrays and tables, and the program points of the generator,
\* are well formed.
TypeOK ==
  /\ rm \in Manager
  /\ pc \in {"symtab", "load", "body", "flush", "purge", "done"}
  /\ cur \in Module \cup {NoModule}
  /\ todo \subseteq Var /\ entrySet \subseteq Var /\ declared \subseteq Var /\ unstored \subseteq Var
  /\ params \in Seq(Var)
  /\ done \subseteq Module
  /\ evnReg \in Name \cup {NONE}

\* No integer register belongs to two variables, or to a variable and the
\* event loop, and none that belongs to anybody is in the free list: what
\* purgeReg and fetchNextAvailReg promise each other over any sequence of
\* modules, calls and shifts.
IntExclusive ==
  \A n \in IntCell :
    /\ \A v, w \in Var : HeldBy(v, n) /\ HeldBy(w, n) => v = w
    /\ \A v \in Var : HeldBy(v, n) => n \notin rm.free["R"] /\ evnReg # n

\* Every integer register that left the free list is a variable's, the event
\* loop's, or lost to a temporary's double fetch (getVEReg, RegMgr.C:138-141).
IntAccounted ==
  \A n \in IntCell \ rm.free["R"] :
    Leaked(n) \/ evnReg = n \/ \E v \in Var : HeldBy(v, n)

\* Unless a pool ran dry, no variable is given a special register, such as
\* R000 (SP) or F000 (RETF), and no fetch fails to return.
SpecialSafe ==
  \/ rm.exhausted
  \/ /\ \A v \in Var : rm.reg[v] # NONE => rm.reg[v] >= Reserved[BankOf(v)]
     /\ evnReg # NONE => evnReg >= Reserved["R"]
     /\ ~rm.hung

\* A store has been generated for what quadruples assigned to v; that need
\* not be so once a pool ran dry, when purges go by another's entry.
Stored(v) == v \in unstored => rm.exhausted

\* When the arguments of a call are pushed, each integer global in memory
\* that entrySet has, the operands and targets of the module's quadruples so
\* far, has given up its register, so that code after the call loads it
\* again, and a store of what was assigned to it has been generated.  What
\* only comparisons mention, or is the result of an earlier call, is not in
\* entrySet; and it is not said that the store is one the assembler takes:
\* it is not (Assembled of TargetCode).
GlobalsFlushed ==
  pc = "flush" /\ todo = {} =>
    \A v \in entrySet :
      ~IsFloat[v] /\ Kind[v] = "GLOBAL_MEM" => rm.reg[v] \notin IntCell /\ Stored(v)

\* Between two modules no integer variable of the last entrySet keeps a
\* register, but for the globals that live in one; and for those in memory
\* a store was generated.
ReleasedAtEnd ==
  pc = "symtab" =>
    \A v \in entrySet :
      ~IsFloat[v] /\ Kind[v] # "GLOBAL_REG" => rm.reg[v] \notin IntCell /\ Stored(v)

\* The code already generated names an integer variable's register, so the
\* variable keeps it until the module ends, or, when it is a global in
\* memory, until the flush of a call stores it.  Once a pool has run dry, a
\* variable without a register of the pool can take along another's: the
\* purge of "R" or of register 0 goes by the entry the first of them left.
RegisterKept ==
  \A v \in Var :
    ~IsFloat[v] /\ rm.reg[v] \in IntCell /\ rm'.reg[v] # rm.reg[v] =>
      /\ rm'.reg[v] = NONE
      /\ pc \in {"flush", "purge"}
      /\ rm.exhausted \/ (v \in entrySet /\ (pc = "flush" => Kind[v] = "GLOBAL_MEM"))

RegisterStable == [][RegisterKept]_vars

\* "Manages register allocation and keeps bookmarking of free registers"
\* (RegMgr.h:9): a float register in the free list is nobody's.
FloatExclusive ==
  \A v \in Var : IsFloat[v] => rm.reg[v] \notin rm.free["F"]

=============================================================================

------------------------------- MODULE RegMgr -------------------------------
(***************************************************************************)
(* The register manager of the E-- compiler (RegMgr.h, RegMgr.C): two      *)
(* pools of target registers handed out round-robin, and the table that    *)
(* remembers which VariableEntry a register was fetched for.               *)
(*                                                                         *)
(* The C++ object is a singleton that code generation calls many times in  *)
(* the course of one step of its own, so its operations are operators on a *)
(* value m of the manager's whole state: they return the state after the   *)
(* call.  CodeGenRegs holds that value in a variable.                      *)
(*                                                                         *)
(* A pool cell is named by the number of the register it stands for: cell  *)
(* i of iReg_ is register i + (TOTAL_REG - INT_REG_AVAIL).  The numbers    *)
(* below that are the special registers (R000 = SP ... R005 = TEMP, F000 = *)
(* RETF).  They are not cells of the array; purging a register without a   *)
(* number indexes the bytes in front of it all the same, and what those    *)
(* bytes hold afterwards is part of the state.                             *)
(***************************************************************************)
EXTENDS Integers

CONSTANTS
  Var,              \* the VariableEntry objects of the program
  NoVar,            \* "no entry in regMap_"
  IsFloat,          \* Type::isFloat of a variable's type
  Kind,             \* its varKind(), GLOBAL_VAR split by isMem()
  TOTAL_REG, INT_REG_AVAIL, FLOAT_REG_AVAIL

Kinds == {"GLOBAL_REG", "GLOBAL_MEM", "LOCAL", "PARAM", "TEMP"}

ASSUME VarAssumption ==
  /\ NoVar \notin Var
  /\ IsFloat \in [Var -> BOOLEAN]
  /\ Kind \in [Var -> Kinds]

ASSUME RegAssumption ==
  /\ TOTAL_REG \in Nat /\ INT_REG_AVAIL \in Nat /\ FLOAT_REG_AVAIL \in Nat
  /\ 0 < INT_REG_AVAIL
  /\ INT_REG_AVAIL <= FLOAT_REG_AVAIL
  /\ FLOAT_REG_AVAIL < TOTAL_REG

Bank == {"R", "F"}
BankOf(v) == IF IsFloat[v] THEN "F" ELSE "R"

\* The registers of a bank that the pool does not manage.
Reserved == [b \in Bank |-> TOTAL_REG - (IF b = "R" THEN INT_REG_AVAIL ELSE FLOAT_REG_AVAIL)]

Cell == 0 .. TOTAL_REG - 1
BARE == -1          \* the register name without digits, "R" or "F"
NONE == -2          \* the empty register name, ""
Name == Cell \cup {BARE}

-----------------------------------------------------------------------------
(* The state of the manager, with regName_ of every variable.              *)

Manager ==
  [ free      : [Bank -> SUBSET Cell],                \* iReg_, fReg_
    start     : [Bank -> Cell],                       \* iCountStart_, fCountStart_
    regMap    : [Bank -> [Name -> Var \cup {NoVar}]], \* regMap_
    reg       : [Var -> Name \cup {NONE}],            \* regName_
    exhausted : BOOLEAN,                              \* a fetch found no free cell
    hung      : BOOLEAN ]                             \* a fetch does not return

InitManager ==
  [ free      |-> [b \in Bank |-> Reserved[b] .. TOTAL_REG - 1],
    start     |-> Reserved,
    regMap    |-> [b \in Bank |-> [n \in Name |-> NoVar]],
    reg       |-> [v \in Var |-> NONE],
    exhausted |-> FALSE,
    hung      |-> FALSE ]

-----------------------------------------------------------------------------
(* fetchNextAvailReg.  The do-while walks from countStart to the last cell *)
(* and on from cell 0 of the array, until it is back at countStart.        *)

Reachable(m, b, n) == n \in Cell /\ (n >= m.start[b] \/ n >= Reserved[b])

Steps(m, b, n) == IF n >= m.start[b] THEN n - m.start[b]
                  ELSE n - m.start[b] + TOTAL_REG - Reserved[b]

\* Mutant: the walk does not look whether the cell is free.
FirstFreeUnchecked(m, b) == {m.start[b]}

\* The free cell the walk meets first: at most one.
FirstFree(m, b) ==
  { n \in m.free[b] :
      /\ Reachable(m, b, n)
      /\ \A k \in m.free[b] : Reachable(m, b, k) => Steps(m, b, n) <= Steps(m, b, k) }

\* Mutants: no wrap after the last cell; a wrap to register 0.
CellAfterNoWrap(b, n) == n + 1
CellAfterWrapToZero(b, n) == IF n = TOTAL_REG - 1 THEN 0 ELSE n + 1

CellAfter(b, n) == IF n = TOTAL_REG - 1 THEN Reserved[b] ELSE n + 1

\* A start in front of the array is never met again: with no free cell
\* the loop has no end.
Endless(m, b) == FirstFree(m, b) = {} /\ m.start[b] < Reserved[b]

FetchedName(m, b) == IF FirstFree(m, b) = {} THEN BARE ELSE CHOOSE n \in FirstFree(m, b) : TRUE

\* The fetch with ve = NULL.
Fetch(m, b) ==
  LET n == FetchedName(m, b) IN
  IF m.hung \/ Endless(m, b) THEN [m EXCEPT !.hung = TRUE]
  ELSE IF n = BARE THEN [m EXCEPT !.exhausted = TRUE]
  ELSE [m EXCEPT !.free[b] = @ \ {n}, !.start[b] = CellAfter(b, n)]

\* The fetch for a variable: regMap_.insert keeps an entry that is there.
FetchFor(m, v) ==
  LET b == BankOf(v)
      n == FetchedName(m, b)
      f == Fetch(m, b)
  IN  IF f.hung THEN f
      ELSE [f EXCEPT !.reg[v] = n,
                     !.regMap[b][n] = IF @ = NoVar THEN v ELSE @]

-----------------------------------------------------------------------------
(* purgeReg.  The number of a bare name is atoi("") = 0; case 'R' has no   *)
(* break, so the float cell of the same number is freed as well.           *)

PurgedBanks(b) == IF b = "R" THEN {"R", "F"} ELSE {"F"}

PurgeReg(m, b, n, withCode) ==
  LET c == IF n = BARE THEN 0 ELSE n
      w == m.regMap[b][n]
  IN  [m EXCEPT
         !.free   = [k \in Bank |-> IF k \in PurgedBanks(b) THEN @[k] \cup {c} ELSE @[k]],
         !.start  = [k \in Bank |-> IF k \in PurgedBanks(b) THEN c ELSE @[k]],
         !.regMap[b][n] = NoVar,
         !.reg    = IF withCode /\ w # NoVar THEN [@ EXCEPT ![w] = NONE] ELSE @]

\* The variable that such a purge generates a store for: a global in memory
\* goes back there (which instruction that is, StoreBack of Instructions says).
StoredBy(m, b, n) ==
  LET w == m.regMap[b][n] IN
  IF w # NoVar /\ Kind[w] = "GLOBAL_MEM" THEN {w} ELSE {}

-----------------------------------------------------------------------------
(* getVEReg.  Case TEMP_VAR has no break: a temporary fetches twice and    *)
(* keeps the second register.                                              *)

\* Mutant: the register the variable has is not looked for.
GetVERegAfresh(m, v) == FetchFor(m, v)

GetVEReg(m, v) ==
  IF m.reg[v] # NONE THEN m
  ELSE IF Kind[v] = "TEMP" THEN FetchFor(FetchFor(m, v), v)
  ELSE FetchFor(m, v)

=============================================================================

------------------------- MODULE CodeGenRegsProofs -------------------------
(***************************************************************************)
(* The integer registers of the E-- compiler, for any set of variables,    *)
(* any code modules and any size of the pools.                             *)
(*                                                                         *)
(* IntExclusive is not inductive: that a purge frees a register nobody     *)
(* holds depends on regMap_ naming the right variable, which depends on    *)
(* an entry never naming a register of the free list.  RegInv adds what    *)
(* the table must say.                                                     *)
(*                                                                         *)
(* What a code module may rely on while it uses its registers rests on a   *)
(* second invariant, UseInv, over RegInv: registers have numbers of their  *)
(* pool, they stay with their variable, and what entrySet has is given     *)
(* back at a call and at the end.  That a store has been generated for     *)
(* what was assigned by then rests on a third one, StoreInv: a global with *)
(* no register has nothing to store.                                       *)
(***************************************************************************)
EXTENDS CodeGenRegs, TLAPS

-----------------------------------------------------------------------------
(* The inductive invariant, as predicates on a value of the manager.       *)

Resident(v) == Kind[v] = "GLOBAL_REG"
Holds(m, v, n) == ~IsFloat[v] /\ m.reg[v] = n

\* An entry of regMap_ is for a variable of that bank that was fetched by
\* name, and its register is out of the free list.
MapOK(m) ==
  \A b \in Bank, n \in Name :
    m.regMap[b][n] # NoVar =>
      /\ BankOf(m.regMap[b][n]) = b
      /\ ~Resident(m.regMap[b][n])
      /\ b = "R" /\ n \in IntCell => n \notin m.free["R"]

\* The holder of an integer register is the one regMap_ names, or it is a
\* register-resident global, with the register to itself and no entry.
HeldOK(m) ==
  \A v \in Var, n \in IntCell :
    Holds(m, v, n) =>
      /\ n \notin m.free["R"]
      /\ ~Resident(v) => m.regMap["R"][n] = v
      /\ Resident(v) => /\ m.regMap["R"][n] = NoVar
                        /\ \A w \in Var : Holds(m, w, n) => w = v

\* The registers out of the free list are named by an entry, or a resident
\* global's, or in X.
AccountOK(m, X) ==
  \A n \in IntCell :
    n \in m.free["R"] \/ n \in X \/ m.regMap["R"][n] # NoVar
      \/ \E v \in Var : Resident(v) /\ Holds(m, v, n)

\* A resident global has its register from its declaration on.
DeclaredOK(m) ==
  /\ \A v \in declared : Resident(v) => m.hung \/ m.reg[v] # NONE
  /\ \A v \in Var \ declared : Resident(v) => m.reg[v] = NONE

ManagerInv(m, X) == m \in Manager /\ MapOK(m) /\ HeldOK(m) /\ AccountOK(m, X)

\* What the generator's calls never do to a resident global, and to a hang.
Keeps(m, k) == /\ m.hung => k.hung
               /\ \A v \in Var : Resident(v) => k.reg[v] = m.reg[v]

\* The event loop's register, fetched last.
EventOK ==
  /\ pc # "done" => evnReg = NONE
  /\ \A n \in IntCell :
       evnReg = n => n \notin rm.free["R"] /\ \A v \in Var : ~Holds(rm, v, n)

RegInv ==
  /\ TypeOK
  /\ ManagerInv(rm, {evnReg}) /\ DeclaredOK(rm)
  /\ EventOK
  /\ pc \notin {"symtab", "done"} => cur \in Module
  /\ \A i \in DOMAIN params : Kind[params[i]] = "PARAM"

-----------------------------------------------------------------------------
(* Facts about the operators of RegMgr.                                    *)

LEMMA Numbers ==
  /\ IntCell \subseteq Cell
  /\ Cell \subseteq Int /\ Cell \subseteq Name
  /\ BARE \notin Cell /\ NONE \notin Name
  /\ 0 \in Cell /\ 0 \notin IntCell
  /\ \A b \in Bank : Reserved[b] \in Cell
  /\ \A v \in Var : BankOf(v) \in Bank
BY RegAssumption, VarAssumption
   DEF IntCell, Cell, Name, BARE, NONE, Bank, Reserved, BankOf

\* A fetch names a free register, or none at all.
LEMMA FetchedNameIs ==
  ASSUME NEW m \in Manager, NEW b \in Bank
  PROVE  /\ FetchedName(m, b) \in Name
         /\ FetchedName(m, b) # BARE => FetchedName(m, b) \in m.free[b]
<1>1. FirstFree(m, b) \subseteq m.free[b]
  BY DEF FirstFree
<1>2. m.free[b] \subseteq Cell
  BY DEF Manager
<1>3. CASE FirstFree(m, b) = {}
  BY <1>3 DEF FetchedName, Name
<1>4. CASE FirstFree(m, b) # {}
  <2>1. FetchedName(m, b) \in FirstFree(m, b)
    BY <1>4 DEF FetchedName
  <2> QED BY <2>1, <1>1, <1>2 DEF Name
<1> QED BY <1>3, <1>4

LEMMA CellAfterIs ==
  ASSUME NEW b \in Bank, NEW n \in Cell
  PROVE  CellAfter(b, n) \in Cell
BY Numbers, RegAssumption DEF CellAfter, Cell

\* What a fetch for nobody changes.
LEMMA FetchIs ==
  ASSUME NEW m \in Manager, NEW b \in Bank
  PROVE  LET f == Fetch(m, b)
             n == FetchedName(m, b)
         IN  /\ f \in Manager
             /\ f.reg = m.reg /\ f.regMap = m.regMap
             /\ m.hung => f.hung
             /\ f.hung => f.free = m.free
             /\ ~f.hung => f.free = [m.free EXCEPT ![b] = @ \ {n}]
<1> DEFINE n == FetchedName(m, b)
           f == Fetch(m, b)
<1>1. CASE m.hung \/ Endless(m, b)
  <2>1. f = [m EXCEPT !.hung = TRUE]
    BY <1>1 DEF Fetch
  <2> QED BY <2>1 DEF Manager
<1>2. CASE ~(m.hung \/ Endless(m, b)) /\ n = BARE
  <2>1. f = [m EXCEPT !.exhausted = TRUE]
    BY <1>2 DEF Fetch
  <2>2. m.free[b] \ {BARE} = m.free[b]
    BY Numbers DEF Manager
  <2>3. m.free = [m.free EXCEPT ![b] = @ \ {n}]
    BY <2>2, <1>2 DEF Manager
  <2>4. f \in Manager /\ f.reg = m.reg /\ f.regMap = m.regMap /\ f.hung = m.hung /\ f.free = m.free
    BY <2>1 DEF Manager
  <2> QED BY <2>3, <2>4, <1>2
<1>3. CASE ~(m.hung \/ Endless(m, b)) /\ n # BARE
  <2>1. f = [m EXCEPT !.free[b] = @ \ {n}, !.start[b] = CellAfter(b, n)]
    BY <1>3 DEF Fetch
  <2>2. n \in Cell
    BY <1>3, FetchedNameIs DEF Name
  <2>3. CellAfter(b, n) \in Cell
    BY <2>2, CellAfterIs
  <2>4. /\ f.free = [m.free EXCEPT ![b] = @ \ {n}]
        /\ f.start = [m.start EXCEPT ![b] = CellAfter(b, n)]
        /\ f.reg = m.reg /\ f.regMap = m.regMap
        /\ f.exhausted = m.exhausted /\ f.hung = m.hung
    BY <2>1 DEF Manager
  <2>5. [m.free EXCEPT ![b] = @ \ {n}] \in [Bank -> SUBSET Cell]
    BY DEF Manager
  <2>6. [m.start EXCEPT ![b] = CellAfter(b, n)] \in [Bank -> Cell]
    BY <2>3 DEF Manager
  <2>7. f \in Manager
    BY <2>1, <2>5, <2>6 DEF Manager
  <2> QED BY <2>4, <2>7, <1>3
<1> QED BY <1>1, <1>2, <1>3

\* What a fetch for a variable changes.
LEMMA FetchForIs ==
  ASSUME NEW m \in Manager, NEW v \in Var
  PROVE  LET b == BankOf(v)
             f == FetchFor(m, v)
             n == FetchedName(m, b)
         IN  /\ f \in Manager
             /\ m.hung => f.hung
             /\ f.hung => f.reg = m.reg /\ f.regMap = m.regMap /\ f.free = m.free
             /\ ~f.hung =>
                  /\ f.free = [m.free EXCEPT ![b] = @ \ {n}]
                  /\ f.reg = [m.reg EXCEPT ![v] = n]
                  /\ f.regMap[b] = [m.regMap[b] EXCEPT ![n] = IF @ = NoVar THEN v ELSE @]
                  /\ \A k \in Bank \ {b} : f.regMap[k] = m.regMap[k]
<1> DEFINE b == BankOf(v)
           n == FetchedName(m, b)
           g == Fetch(m, b)
           f == FetchFor(m, v)
<1>1. b \in Bank /\ n \in Name
  BY Numbers, FetchedNameIs
<1>2. /\ g \in Manager /\ g.reg = m.reg /\ g.regMap = m.regMap
      /\ m.hung => g.hung
      /\ g.hung => g.free = m.free
      /\ ~g.hung => g.free = [m.free EXCEPT ![b] = @ \ {n}]
  BY <1>1, FetchIs
<1>3. CASE g.hung
  <2>1. f = g
    BY <1>3 DEF FetchFor
  <2> QED BY <2>1, <1>2, <1>3
<1>4. CASE ~g.hung
  <2> DEFINE e == IF g.regMap[b][n] = NoVar THEN v ELSE g.regMap[b][n]
  <2>1. f = [g EXCEPT !.reg[v] = n, !.regMap[b][n] = IF @ = NoVar THEN v ELSE @]
    BY <1>4 DEF FetchFor
  <2>2. /\ f.reg = [g.reg EXCEPT ![v] = n]
        /\ f.regMap = [g.regMap EXCEPT ![b][n] = IF @ = NoVar THEN v ELSE @]
        /\ f.free = g.free /\ f.start = g.start
        /\ f.hung = g.hung /\ f.exhausted = g.exhausted
    BY <2>1, <1>2 DEF Manager
  <2>3. f.reg \in [Var -> Name \cup {NONE}]
    BY <2>2, <1>1, <1>2 DEF Manager
  <2>4. f.regMap[b] = [g.regMap[b] EXCEPT ![n] = IF @ = NoVar THEN v ELSE @]
    BY <2>2, <1>1, <1>2 DEF Manager
  <2>5. \A k \in Bank \ {b} : f.regMap[k] = g.regMap[k]
    BY <2>2, <1>1, <1>2 DEF Manager
  <2>6. f.regMap \in [Bank -> [Name -> Var \cup {NoVar}]]
    <3>1. e \in Var \cup {NoVar}
      BY <1>1, <1>2 DEF Manager
    <3>2. f.regMap[b] = [g.regMap[b] EXCEPT ![n] = e]
      BY <2>4, <1>1, <1>2 DEF Manager
    <3>3. f.regMap[b] \in [Name -> Var \cup {NoVar}]
      BY <3>1, <3>2, <1>1, <1>2 DEF Manager
    <3> HIDE DEF e
    <3>4. f.regMap = [g.regMap EXCEPT ![b] = f.regMap[b]]
      BY <2>2, <2>4, <1>1, <1>2 DEF Manager
    <3> QED BY <3>3, <3>4, <1>1, <1>2 DEF Manager
  <2>7. f \in Manager
    BY <2>1, <2>2, <2>3, <2>6, <1>2 DEF Manager
  <2> QED BY <2>2, <2>4, <2>5, <2>7, <1>2, <1>4
<1> QED BY <1>3, <1>4

\* What a purge changes.
LEMMA PurgeRegIs ==
  ASSUME NEW m \in Manager, NEW b \in Bank, NEW n \in Name, NEW withCode \in BOOLEAN
  PROVE  LET p == PurgeReg(m, b, n, withCode)
             c == IF n = BARE THEN 0 ELSE n
             w == m.regMap[b][n]
         IN  /\ p \in Manager
             /\ p.hung = m.hung
             /\ p.free["R"] = IF b = "R" THEN m.free["R"] \cup {c} ELSE m.free["R"]
             /\ p.regMap[b] = [m.regMap[b] EXCEPT ![n] = NoVar]
             /\ \A k \in Bank \ {b} : p.regMap[k] = m.regMap[k]
             /\ p.reg = IF withCode /\ w # NoVar THEN [m.reg EXCEPT ![w] = NONE] ELSE m.reg
<1> DEFINE p == PurgeReg(m, b, n, withCode)
           c == IF n = BARE THEN 0 ELSE n
           w == m.regMap[b][n]
<1>1. c \in Cell
  BY Numbers DEF Name
<1>2. w \in Var \cup {NoVar}
  BY DEF Manager
<1>3. /\ p.free = [k \in Bank |-> IF k \in PurgedBanks(b) THEN m.free[k] \cup {c} ELSE m.free[k]]
      /\ p.start = [k \in Bank |-> IF k \in PurgedBanks(b) THEN c ELSE m.start[k]]
      /\ p.regMap = [m.regMap EXCEPT ![b][n] = NoVar]
      /\ p.reg = IF withCode /\ w # NoVar THEN [m.reg EXCEPT ![w] = NONE] ELSE m.reg
      /\ p.hung = m.hung /\ p.exhausted = m.exhausted
  BY DEF PurgeReg, Manager
<1>4. p.free \in [Bank -> SUBSET Cell] /\ p.start \in [Bank -> Cell]
  BY <1>1, <1>3 DEF Manager
<1>5. p.regMap[b] = [m.regMap[b] EXCEPT ![n] = NoVar] /\ \A k \in Bank \ {b} : p.regMap[k] = m.regMap[k]
  BY <1>3 DEF Manager
<1>6. p.regMap \in [Bank -> [Name -> Var \cup {NoVar}]]
  <2>1. p.regMap[b] \in [Name -> Var \cup {NoVar}]
    BY <1>5 DEF Manager
  <2>2. p.regMap = [m.regMap EXCEPT ![b] = p.regMap[b]]
    BY <1>3, <1>5 DEF Manager
  <2> QED BY <2>1, <2>2 DEF Manager
<1>7. p.reg \in [Var -> Name \cup {NONE}]
  BY <1>2, <1>3 DEF Manager
<1>8. p = [m EXCEPT
             !.free   = [k \in Bank |-> IF k \in PurgedBanks(b) THEN @[k] \cup {c} ELSE @[k]],
             !.start  = [k \in Bank |-> IF k \in PurgedBanks(b) THEN c ELSE @[k]],
             !.regMap[b][n] = NoVar,
             !.reg    = IF withCode /\ w # NoVar THEN [@ EXCEPT ![w] = NONE] ELSE @]
  BY DEF PurgeReg
<1>9. p \in Manager
  BY <1>3, <1>4, <1>6, <1>7, <1>8 DEF Manager
<1>10. p.free["R"] = IF b = "R" THEN m.free["R"] \cup {c} ELSE m.free["R"]
  BY <1>3 DEF PurgedBanks, Bank
<1> QED BY <1>3, <1>5, <1>9, <1>10

-----------------------------------------------------------------------------
(* The manager's invariant survives each call of the generator.            *)

LEMMA FloatFetchKeeps ==
  ASSUME NEW m, NEW X, ManagerInv(m, X)
  PROVE  ManagerInv(Fetch(m, "F"), X) /\ Keeps(m, Fetch(m, "F"))
<1> DEFINE f == Fetch(m, "F")
<1>1. m \in Manager /\ "F" \in Bank /\ "R" \in Bank
  BY DEF ManagerInv, Bank
<1>2. /\ f \in Manager /\ f.reg = m.reg /\ f.regMap = m.regMap
      /\ m.hung => f.hung
  BY <1>1, FetchIs
<1>3. f.free["R"] = m.free["R"]
  <2>1. f.free = m.free \/ f.free = [m.free EXCEPT !["F"] = @ \ {FetchedName(m, "F")}]
    BY <1>1, FetchIs
  <2> QED BY <1>1, <2>1 DEF Manager
<1> QED BY <1>2, <1>3 DEF ManagerInv, MapOK, HeldOK, AccountOK, Holds, Keeps

LEMMA FetchForKeeps ==
  ASSUME NEW m, NEW X, ManagerInv(m, X), NEW v \in Var, Resident(v) => m.hung
  PROVE  ManagerInv(FetchFor(m, v), X) /\ Keeps(m, FetchFor(m, v))
<1> DEFINE b == BankOf(v)
           n == FetchedName(m, b)
           f == FetchFor(m, v)
<1>1. m \in Manager /\ b \in Bank /\ "R" \in Bank
  BY Numbers DEF ManagerInv, Bank
<1>2. /\ n \in Name
      /\ n # BARE => n \in m.free[b]
  BY <1>1, FetchedNameIs
<1>3. /\ f \in Manager
      /\ m.hung => f.hung
      /\ f.hung => f.reg = m.reg /\ f.regMap = m.regMap /\ f.free = m.free
      /\ ~f.hung =>
           /\ f.free = [m.free EXCEPT ![b] = @ \ {n}]
           /\ f.reg = [m.reg EXCEPT ![v] = n]
           /\ f.regMap[b] = [m.regMap[b] EXCEPT ![n] = IF @ = NoVar THEN v ELSE @]
           /\ \A k \in Bank \ {b} : f.regMap[k] = m.regMap[k]
  BY <1>1, FetchForIs
<1>4. CASE f.hung
  BY <1>3, <1>4 DEF ManagerInv, MapOK, HeldOK, AccountOK, Holds, Keeps
<1>5. CASE ~f.hung
  <2>1. ~Resident(v)
    BY <1>3, <1>5
  <2>2. /\ f.reg \in [Var -> Name \cup {NONE}] /\ m.reg \in [Var -> Name \cup {NONE}]
        /\ m.regMap \in [Bank -> [Name -> Var \cup {NoVar}]]
        /\ m.free \in [Bank -> SUBSET Cell]
    BY <1>1, <1>3 DEF Manager
  <2>3. \A w \in Var : f.reg[w] = IF w = v THEN n ELSE m.reg[w]
    BY <1>3, <1>5, <2>2
  <2>4. \A k \in Bank, i \in Name :
          f.regMap[k][i] = IF k = b /\ i = n /\ m.regMap[b][n] = NoVar THEN v ELSE m.regMap[k][i]
    BY <1>1, <1>2, <1>3, <1>5, <2>2
  <2>5. f.free["R"] = IF b = "R" THEN m.free["R"] \ {n} ELSE m.free["R"]
    BY <1>1, <1>3, <1>5, <2>2
  <2>6. NoVar \notin Var
    BY VarAssumption
  <2>7. b = "R" /\ n \in IntCell => n \in m.free["R"] /\ m.regMap["R"][n] = NoVar
    BY <1>1, <1>2, Numbers DEF ManagerInv, MapOK
  <2>8. MapOK(f)
    BY <2>1, <2>4, <2>5, <2>6, <1>1 DEF ManagerInv, MapOK
  <2>9. HeldOK(f)
    <3> SUFFICES ASSUME NEW u \in Var, NEW i \in IntCell, Holds(f, u, i)
                 PROVE  /\ i \notin f.free["R"]
                        /\ ~Resident(u) => f.regMap["R"][i] = u
                        /\ Resident(u) => /\ f.regMap["R"][i] = NoVar
                                          /\ \A w \in Var : Holds(f, w, i) => w = u
      BY DEF HeldOK
    <3>1. i \in Name
      BY Numbers
    <3>2. CASE u = v
      <4>1. b = "R" /\ i = n
        BY <3>2, <2>3 DEF Holds, BankOf
      <4> QED BY <4>1, <3>1, <3>2, <2>1, <2>4, <2>5, <2>7, <1>1
    <3>3. CASE u # v
      <4>1. Holds(m, u, i)
        BY <3>3, <2>3 DEF Holds
      <4>2. /\ i \notin m.free["R"]
            /\ ~Resident(u) => m.regMap["R"][i] = u
            /\ Resident(u) => /\ m.regMap["R"][i] = NoVar
                              /\ \A w \in Var : Holds(m, w, i) => w = u
        BY <4>1 DEF ManagerInv, HeldOK
      <4>3. ~(b = "R" /\ i = n)
        BY <4>2, <2>7
      <4>4. f.regMap["R"][i] = m.regMap["R"][i] /\ i \notin f.free["R"]
        BY <4>2, <4>3, <3>1, <2>4, <2>5, <1>1
      <4>5. \A w \in Var : Holds(f, w, i) => Holds(m, w, i)
        BY <4>3, <2>3 DEF Holds, BankOf
      <4> QED BY <4>2, <4>4, <4>5
    <3> QED BY <3>2, <3>3
  <2>10. AccountOK(f, X)
    <3> SUFFICES ASSUME NEW i \in IntCell, i \notin f.free["R"], i \notin X, f.regMap["R"][i] = NoVar
                 PROVE  \E w \in Var : Resident(w) /\ Holds(f, w, i)
      BY DEF AccountOK
    <3>1. i \in Name
      BY Numbers
    <3>2. m.regMap["R"][i] = NoVar /\ ~(b = "R" /\ i = n)
      BY <3>1, <2>4, <2>6, <1>1
    <3>3. i \notin m.free["R"]
      BY <3>2, <2>5
    <3>4. PICK w \in Var : Resident(w) /\ Holds(m, w, i)
      BY <3>2, <3>3 DEF ManagerInv, AccountOK
    <3>5. Holds(f, w, i)
      BY <3>4, <2>1, <2>3 DEF Holds
    <3> QED BY <3>4, <3>5
  <2>11. Keeps(m, f)
    BY <1>3, <2>1, <2>3 DEF Keeps
  <2> QED BY <1>3, <2>8, <2>9, <2>10, <2>11 DEF ManagerInv
<1> QED BY <1>4, <1>5

LEMMA KeepsTransitive ==
  ASSUME NEW m, NEW k, NEW l, Keeps(m, k), Keeps(k, l)
  PROVE  Keeps(m, l)
BY DEF Keeps

LEMMA GetVERegKeeps ==
  ASSUME NEW m, NEW X, ManagerInv(m, X), NEW v \in Var,
         Resident(v) => m.hung \/ m.reg[v] # NONE
  PROVE  ManagerInv(GetVEReg(m, v), X) /\ Keeps(m, GetVEReg(m, v))
<1>1. CASE m.reg[v] # NONE
  BY <1>1 DEF GetVEReg, Keeps
<1>2. CASE m.reg[v] = NONE
  <2> DEFINE f == FetchFor(m, v)
  <2>1. ManagerInv(f, X) /\ Keeps(m, f) /\ (Resident(v) => f.hung)
    BY <1>2, FetchForKeeps DEF Keeps
  <2>2. ManagerInv(FetchFor(f, v), X) /\ Keeps(m, FetchFor(f, v))
    BY <2>1, FetchForKeeps, KeepsTransitive
  <2> QED BY <1>2, <2>1, <2>2 DEF GetVEReg
<1> QED BY <1>1, <1>2

LEMMA ShiftScratchKeeps ==
  ASSUME NEW m, NEW X, ManagerInv(m, X)
  PROVE  ManagerInv(ShiftScratch(m), X) /\ Keeps(m, ShiftScratch(m))
<1> DEFINE f == Fetch(m, "R")
           n == FetchedName(m, "R")
           p == PurgeReg(f, "R", n, FALSE)
<1>1. m \in Manager /\ "R" \in Bank
  BY DEF ManagerInv, Bank
<1>2. /\ n \in Name
      /\ n # BARE => n \in m.free["R"]
  BY <1>1, FetchedNameIs
<1>3. /\ f \in Manager /\ f.reg = m.reg /\ f.regMap = m.regMap
      /\ m.hung => f.hung
      /\ f.hung => f.free = m.free
      /\ ~f.hung => f.free = [m.free EXCEPT !["R"] = @ \ {n}]
  BY <1>1, FetchIs
<1>4. CASE f.hung
  <2>1. ShiftScratch(m) = f
    BY <1>4 DEF ShiftScratch
  <2> QED BY <2>1, <1>3, <1>4 DEF ManagerInv, MapOK, HeldOK, AccountOK, Holds, Keeps
<1>5. CASE ~f.hung
  <2> DEFINE c == IF n = BARE THEN 0 ELSE n
  <2>1. ShiftScratch(m) = p
    BY <1>5 DEF ShiftScratch
  <2>2. /\ p \in Manager
        /\ p.hung = f.hung
        /\ p.free["R"] = f.free["R"] \cup {c}
        /\ p.regMap["R"] = [f.regMap["R"] EXCEPT ![n] = NoVar]
        /\ \A k \in Bank \ {"R"} : p.regMap[k] = f.regMap[k]
        /\ p.reg = f.reg
    <3>1. FALSE \in BOOLEAN
      OBVIOUS
    <3> HIDE DEF f, n
    <3>2. /\ p \in Manager
          /\ p.hung = f.hung
          /\ p.free["R"] = IF "R" = "R" THEN f.free["R"] \cup {c} ELSE f.free["R"]
          /\ p.regMap["R"] = [f.regMap["R"] EXCEPT ![n] = NoVar]
          /\ \A k \in Bank \ {"R"} : p.regMap[k] = f.regMap[k]
          /\ p.reg = IF FALSE /\ f.regMap["R"][n] # NoVar
                     THEN [f.reg EXCEPT ![f.regMap["R"][n]] = NONE] ELSE f.reg
      BY <1>1, <1>2, <1>3, <3>1, PurgeRegIs, ZenonT(30)
    <3> QED BY <3>2
  <2> HIDE DEF f, n, p
  <2>3. \A i \in IntCell : i \in p.free["R"] <=> i \in m.free["R"]
    <3>1. f.free["R"] = m.free["R"] \ {n}
      BY <1>1, <1>3, <1>5 DEF Manager
    <3>2. c \in IntCell <=> n \in IntCell
      BY <1>2, Numbers DEF Name
    <3>3. n \in IntCell => c = n /\ n \in m.free["R"]
      BY <1>2, Numbers
    <3> HIDE DEF c
    <3> QED BY <3>1, <3>2, <3>3, <2>2
  <2>4. n \in IntCell => m.regMap["R"][n] = NoVar
    BY <1>1, <1>2, Numbers DEF ManagerInv, MapOK
  <2>5. \A k \in Bank, i \in Name : p.regMap[k][i] = IF k = "R" /\ i = n THEN NoVar ELSE m.regMap[k][i]
    <3>1. m.regMap \in [Bank -> [Name -> Var \cup {NoVar}]]
      BY <1>1 DEF Manager
    <3> QED BY <3>1, <1>1, <1>2, <1>3, <2>2
  <2>6. \A i \in IntCell : p.regMap["R"][i] = m.regMap["R"][i]
    BY <2>4, <2>5, <1>1, Numbers
  <2>7. MapOK(p)
    BY <2>3, <2>5, <1>1 DEF ManagerInv, MapOK
  <2>8. HeldOK(p) /\ AccountOK(p, X)
    BY <2>2, <2>3, <2>6, <1>3 DEF ManagerInv, HeldOK, AccountOK, Holds
  <2>9. Keeps(m, p)
    BY <1>3, <2>2 DEF Keeps
  <2> QED BY <2>1, <2>2, <2>7, <2>8, <2>9 DEF ManagerInv
<1> QED BY <1>4, <1>5

LEMMA PurgeVarKeeps ==
  ASSUME NEW m, NEW X, ManagerInv(m, X),
         NEW v \in Var, ~Resident(v), m.reg[v] # NONE
  PROVE  LET p == PurgeReg(m, BankOf(v), m.reg[v], TRUE)
         IN  ManagerInv(p, X) /\ Keeps(m, p)
<1> DEFINE b == BankOf(v)
           n == m.reg[v]
           p == PurgeReg(m, b, n, TRUE)
           c == IF n = BARE THEN 0 ELSE n
           w == m.regMap[b][n]
<1>1. m \in Manager /\ b \in Bank /\ "R" \in Bank /\ TRUE \in BOOLEAN
  BY Numbers DEF ManagerInv, Bank
<1>2. n \in Name
  BY <1>1 DEF Manager
<1>3. w \in Var \cup {NoVar}
  BY <1>1, <1>2 DEF Manager
<1>4. /\ p \in Manager
      /\ p.hung = m.hung
      /\ p.free["R"] = IF b = "R" THEN m.free["R"] \cup {c} ELSE m.free["R"]
      /\ p.regMap[b] = [m.regMap[b] EXCEPT ![n] = NoVar]
      /\ \A k \in Bank \ {b} : p.regMap[k] = m.regMap[k]
      /\ p.reg = IF TRUE /\ w # NoVar THEN [m.reg EXCEPT ![w] = NONE] ELSE m.reg
  <2> HIDE DEF b, n
  <2> QED BY <1>1, <1>2, PurgeRegIs, ZenonT(30)
<1>5. w # NoVar => BankOf(w) = b /\ ~Resident(w)
  BY <1>1, <1>2 DEF ManagerInv, MapOK
<1>6. b = "R" /\ n \in IntCell => w = v
  BY DEF ManagerInv, HeldOK, Holds, BankOf
<1>7. c \in IntCell => c = n
  BY Numbers
<1>8. \A u \in Var : p.reg[u] = IF u = w /\ w # NoVar THEN NONE ELSE m.reg[u]
  BY <1>1, <1>3, <1>4 DEF Manager
<1>9. \A k \in Bank, i \in Name : p.regMap[k][i] = IF k = b /\ i = n THEN NoVar ELSE m.regMap[k][i]
  <2>1. m.regMap \in [Bank -> [Name -> Var \cup {NoVar}]]
    BY <1>1 DEF Manager
  <2> HIDE DEF b, n, p, c, w
  <2> QED BY <2>1, <1>1, <1>2, <1>4
<1>10. \A i \in IntCell : i \in p.free["R"] <=> i \in m.free["R"] \/ (b = "R" /\ i = n)
  <2>1. n \in IntCell => c = n
    BY Numbers
  <2> HIDE DEF b, n, p, c, w
  <2> QED BY <2>1, <1>4, <1>7
<1>11. NoVar \notin Var
  BY VarAssumption
<1>12. \A u \in Var, i \in IntCell : Holds(p, u, i) => Holds(m, u, i) /\ ~(u = w /\ w # NoVar)
  <2>1. \A i \in IntCell : i # NONE
    BY Numbers
  <2> QED BY <2>1, <1>8 DEF Holds
<1> HIDE DEF b, n, p, c, w
<1>13. MapOK(p)
  BY <1>9, <1>10, <1>1 DEF ManagerInv, MapOK
<1>14. HeldOK(p)
  <2> SUFFICES ASSUME NEW u \in Var, NEW i \in IntCell, Holds(p, u, i)
               PROVE  /\ i \notin p.free["R"]
                      /\ ~Resident(u) => p.regMap["R"][i] = u
                      /\ Resident(u) => /\ p.regMap["R"][i] = NoVar
                                        /\ \A x \in Var : Holds(p, x, i) => x = u
    BY DEF HeldOK
  <2>1. Holds(m, u, i) /\ ~(u = w /\ w # NoVar) /\ i \in Name
    BY <1>12, Numbers
  <2>2. /\ i \notin m.free["R"]
        /\ ~Resident(u) => m.regMap["R"][i] = u
        /\ Resident(u) => /\ m.regMap["R"][i] = NoVar
                          /\ \A x \in Var : Holds(m, x, i) => x = u
    BY <2>1 DEF ManagerInv, HeldOK
  <2>3. ~(b = "R" /\ i = n)
    <3>1. b = "R" /\ i = n => w = v /\ w # NoVar /\ w = m.regMap["R"][i]
      BY <1>6, <1>11 DEF w
    <3>2. b = "R" /\ i = n => Holds(m, v, i)
      BY DEF Holds, b, n, BankOf
    <3> QED BY <3>1, <3>2, <2>1, <2>2, <1>11
  <2>4. p.regMap["R"][i] = m.regMap["R"][i]
    BY <2>1, <2>3, <1>1, <1>9
  <2> QED BY <2>2, <2>3, <2>4, <1>10, <1>12
<1>15. AccountOK(p, X)
  <2> SUFFICES ASSUME NEW i \in IntCell, i \notin p.free["R"], i \notin X, p.regMap["R"][i] = NoVar
               PROVE  \E u \in Var : Resident(u) /\ Holds(p, u, i)
    BY DEF AccountOK
  <2>1. i \in Name
    BY Numbers
  <2>2. i \notin m.free["R"] /\ ~(b = "R" /\ i = n)
    BY <1>10
  <2>3. m.regMap["R"][i] = NoVar
    BY <2>1, <2>2, <1>1, <1>9
  <2>4. PICK u \in Var : Resident(u) /\ Holds(m, u, i)
    BY <2>2, <2>3 DEF ManagerInv, AccountOK
  <2>5. p.reg[u] = m.reg[u]
    BY <2>4, <1>5, <1>8
  <2> QED BY <2>4, <2>5 DEF Holds
<1>16. Keeps(m, p)
  BY <1>4, <1>5, <1>8 DEF Keeps
<1> QED BY <1>4, <1>13, <1>14, <1>15, <1>16 DEF ManagerInv, p, b, n

\* An operand of a quadruple is never a resident global without a register.
LEMMA InstructionParamKeeps ==
  ASSUME NEW m, NEW X, ManagerInv(m, X), DeclaredOK(m),
         NEW e \in Operand, declared \subseteq Var, cur \in Module
  PROVE  LET k == InstructionParam(m, e)
         IN  ManagerInv(k, X) /\ DeclaredOK(k) /\ Keeps(m, k)
<1> DEFINE k == InstructionParam(m, e)
<1>1. CASE e = NoVar
  BY <1>1 DEF InstructionParam, Keeps
<1>2. CASE e # NoVar
  <2>1. e \in Var /\ (Resident(e) => e \in declared)
    <3>1. e \in declared \/ (e \in Var /\ Owner[e] = cur)
      BY <1>2 DEF Operand, Visible
    <3>2. e \in Var /\ Owner[e] = cur => ~IsGlobal(e)
      BY ModuleAssumption
    <3> QED BY <3>1, <3>2 DEF IsGlobal, Resident
  <2>2. Resident(e) => m.hung \/ m.reg[e] # NONE
    BY <2>1 DEF DeclaredOK
  <2>3. ManagerInv(k, X) /\ Keeps(m, k)
    BY <1>2, <2>1, <2>2, GetVERegKeeps DEF InstructionParam
  <2>4. DeclaredOK(k)
    BY <2>3 DEF DeclaredOK, Keeps
  <2> QED BY <2>3, <2>4
<1> QED BY <1>1, <1>2

\* The state before and after a step that fetches and purges as k says.
LEMMA ManagerStep ==
  ASSUME RegInv, TypeOK', ManagerInv(rm', {NONE}), Keeps(rm, rm'),
         declared' = declared, pc # "done", pc' # "done", evnReg' = evnReg,
         pc' \notin {"symtab", "done"} => cur' \in Module,
         \A i \in DOMAIN params' : Kind[params'[i]] = "PARAM"
  PROVE  RegInv'
<1>1. evnReg' = NONE
  BY DEF RegInv, EventOK
<1>2. DeclaredOK(rm)'
  BY DEF RegInv, TypeOK, DeclaredOK, Keeps
<1>3. EventOK'
  BY <1>1, Numbers DEF EventOK
<1>4. ManagerInv(rm, {evnReg})'
  BY <1>1 DEF ManagerInv, MapOK, HeldOK, AccountOK, Holds, Resident
<1> QED BY <1>2, <1>3, <1>4 DEF RegInv

\* A step that leaves the manager alone keeps the invariant.
LEMMA KeepsSelf == ASSUME NEW m PROVE Keeps(m, m)
BY DEF Keeps

\* A resident global takes a register of its own, without an entry.
LEMMA ResidentFetchKeeps ==
  ASSUME NEW m, NEW X, ManagerInv(m, X),
         NEW v \in Var, Resident(v), m.reg[v] = NONE
  PROVE  LET g == FetchResident(m, v)
         IN  /\ ManagerInv(g, X)
             /\ m.hung => g.hung
             /\ g.hung \/ g.reg[v] # NONE
             /\ \A w \in Var : w # v => g.reg[w] = m.reg[w]
<1> DEFINE b == BankOf(v)
           n == FetchedName(m, b)
           f == Fetch(m, b)
           g == FetchResident(m, v)
<1>1. m \in Manager /\ b \in Bank /\ "R" \in Bank
  BY Numbers DEF ManagerInv, Bank
<1>2. n \in Name /\ (n # BARE => n \in m.free[b])
  BY <1>1, FetchedNameIs
<1>3. /\ f \in Manager /\ f.reg = m.reg /\ f.regMap = m.regMap
      /\ m.hung => f.hung
      /\ f.hung => f.free = m.free
      /\ ~f.hung => f.free = [m.free EXCEPT ![b] = @ \ {n}]
  BY <1>1, FetchIs
<1>4. g = IF f.hung THEN f ELSE [f EXCEPT !.reg[v] = n]
  BY DEF FetchResident
<1> HIDE DEF b, n, f, g
<1>5. CASE f.hung
  <2>1. /\ g \in Manager /\ g.reg = m.reg /\ g.regMap = m.regMap
        /\ g.free = m.free /\ g.hung
    BY <1>3, <1>4, <1>5
  <2>2. MapOK(g) /\ HeldOK(g) /\ AccountOK(g, X)
    BY <2>1 DEF ManagerInv, MapOK, HeldOK, AccountOK, Holds
  <2> QED BY <2>1, <2>2 DEF ManagerInv, g
<1>6. CASE ~f.hung
  <2>1. g = [f EXCEPT !.reg[v] = n]
    BY <1>4, <1>6
  <2>2. /\ g.reg = [m.reg EXCEPT ![v] = n] /\ g.regMap = m.regMap
        /\ g.free = f.free /\ g.start = f.start
        /\ g.hung = f.hung /\ g.exhausted = f.exhausted
    BY <2>1, <1>3 DEF Manager
  <2>3. g \in Manager
    <3>1. [m.reg EXCEPT ![v] = n] \in [Var -> Name \cup {NONE}]
      BY <1>1, <1>2 DEF Manager
    <3> QED BY <3>1, <2>1, <2>2, <1>3 DEF Manager
  <2>4. \A w \in Var : g.reg[w] = IF w = v THEN n ELSE m.reg[w]
    BY <2>2, <1>1 DEF Manager
  <2>5. g.free["R"] = IF b = "R" THEN m.free["R"] \ {n} ELSE m.free["R"]
    BY <2>2, <1>1, <1>3, <1>6 DEF Manager
  <2>6. b = "R" /\ n \in IntCell => n \in m.free["R"] /\ m.regMap["R"][n] = NoVar
    BY <1>1, <1>2, Numbers DEF ManagerInv, MapOK
  <2>7. MapOK(g)
    BY <2>2, <2>5 DEF ManagerInv, MapOK
  <2>8. HeldOK(g)
    <3> SUFFICES ASSUME NEW u \in Var, NEW i \in IntCell, Holds(g, u, i)
                 PROVE  /\ i \notin g.free["R"]
                        /\ ~Resident(u) => g.regMap["R"][i] = u
                        /\ Resident(u) => /\ g.regMap["R"][i] = NoVar
                                          /\ \A w \in Var : Holds(g, w, i) => w = u
      BY DEF HeldOK
    <3>1. \A w \in Var : Holds(g, w, i) => Holds(m, w, i) \/ (w = v /\ b = "R" /\ i = n)
      BY <2>4 DEF Holds, b, BankOf
    <3>2. \A w \in Var : Holds(m, w, i) => i \notin m.free["R"]
      BY DEF ManagerInv, HeldOK
    <3>3. CASE b = "R" /\ i = n
      <4>1. i \in m.free["R"] /\ m.regMap["R"][i] = NoVar
        BY <3>3, <2>6
      <4>2. \A w \in Var : Holds(g, w, i) => w = v
        BY <4>1, <3>1, <3>2
      <4> QED BY <4>1, <4>2, <3>3, <2>2, <2>5
    <3>4. CASE ~(b = "R" /\ i = n)
      <4>1. \A w \in Var : Holds(g, w, i) => Holds(m, w, i)
        BY <3>1, <3>4
      <4> QED BY <4>1, <3>4, <2>2, <2>5 DEF ManagerInv, HeldOK
    <3> QED BY <3>3, <3>4
  <2>9. AccountOK(g, X)
    <3> SUFFICES ASSUME NEW i \in IntCell, i \notin g.free["R"], i \notin X, m.regMap["R"][i] = NoVar
                 PROVE  \E w \in Var : Resident(w) /\ Holds(g, w, i)
      BY <2>2 DEF AccountOK
    <3>1. CASE b = "R" /\ i = n
      <4>1. Holds(g, v, i)
        BY <3>1, <2>4 DEF Holds, b, BankOf
      <4> QED BY <4>1
    <3>2. CASE ~(b = "R" /\ i = n)
      <4>1. i \notin m.free["R"]
        BY <3>2, <2>5
      <4>2. PICK w \in Var : Resident(w) /\ Holds(m, w, i)
        BY <4>1 DEF ManagerInv, AccountOK
      <4>3. w # v
        BY <4>2, Numbers DEF Holds
      <4> QED BY <4>2, <4>3, <2>4 DEF Holds
    <3> QED BY <3>1, <3>2
  <2>10. g.reg[v] # NONE
    BY <2>4, <1>2, Numbers
  <2> QED BY <2>2, <2>3, <2>4, <2>7, <2>8, <2>9, <2>10, <1>3, <1>6 DEF ManagerInv, g
<1> QED BY <1>5, <1>6

-----------------------------------------------------------------------------
(* RegInv holds at the start and every step keeps it.                      *)

LEMMA InitInv == Init => RegInv
<1> SUFFICES ASSUME Init PROVE RegInv
  OBVIOUS
<1> USE DEF Init
<1>1. rm = InitManager /\ evnReg = NONE /\ params = <<>>
  OBVIOUS
<1>2. /\ rm.free = [b \in Bank |-> Reserved[b] .. TOTAL_REG - 1]
      /\ rm.regMap = [b \in Bank |-> [n \in Name |-> NoVar]]
      /\ rm.reg = [v \in Var |-> NONE]
  BY <1>1 DEF InitManager
<1>3. rm \in Manager
  <2>1. [b \in Bank |-> Reserved[b] .. TOTAL_REG - 1] \in [Bank -> SUBSET Cell]
    <3>1. \A b \in Bank : Reserved[b] .. TOTAL_REG - 1 \subseteq Cell
      BY Numbers, RegAssumption DEF Cell
    <3> QED BY <3>1
  <2>2. Reserved \in [Bank -> Cell]
    BY Numbers DEF Reserved
  <2> QED BY <2>1, <2>2, <1>1 DEF InitManager, Manager
<1>4. MapOK(rm)
  BY <1>2 DEF MapOK
<1>5. \A v \in Var, n \in IntCell : ~Holds(rm, v, n)
  <2>1. \A n \in IntCell : n # NONE
    BY Numbers
  <2> QED BY <2>1, <1>2 DEF Holds
<1>6. rm.free["R"] = IntCell
  BY <1>2 DEF IntCell, Bank
<1>7. ManagerInv(rm, {evnReg}) /\ DeclaredOK(rm) /\ EventOK
  BY <1>1, <1>2, <1>3, <1>4, <1>5, <1>6, Numbers
     DEF ManagerInv, HeldOK, AccountOK, DeclaredOK, EventOK
<1> QED BY <1>3, <1>7 DEF RegInv, TypeOK, Name

\* Before the last fetch the event loop has no register.
LEMMA BeforeDone ==
  ASSUME RegInv, pc # "done"
  PROVE  evnReg = NONE /\ ManagerInv(rm, {NONE}) /\ DeclaredOK(rm)
BY DEF RegInv, EventOK

LEMMA DeclareGlobalInv ==
  ASSUME RegInv, NEW v \in Var, DeclareGlobal(v)
  PROVE  RegInv'
<1> USE DEF DeclareGlobal
<1>1. evnReg = NONE /\ ManagerInv(rm, {NONE}) /\ DeclaredOK(rm)
  BY BeforeDone
<1>2. CASE Resident(v)
  <2>1. rm.reg[v] = NONE
    BY <1>1, <1>2 DEF DeclaredOK
  <2>2. rm' = FetchResident(rm, v)
    BY <1>2 DEF Resident
  <2>3. /\ ManagerInv(rm', {NONE})
        /\ rm.hung => rm'.hung
        /\ rm'.hung \/ rm'.reg[v] # NONE
        /\ \A w \in Var : w # v => rm'.reg[w] = rm.reg[w]
    BY <2>1, <2>2, <1>1, <1>2, ResidentFetchKeeps
  <2>4. DeclaredOK(rm)'
    BY <2>3, <1>1 DEF RegInv, TypeOK, DeclaredOK, Resident
  <2>5. TypeOK'
    BY <2>3 DEF RegInv, TypeOK, ManagerInv
  <2>6. ManagerInv(rm, {evnReg})'
    BY <2>3, <1>1 DEF ManagerInv, MapOK, HeldOK, AccountOK, Holds, Resident
  <2>7. EventOK'
    BY <1>1, Numbers DEF EventOK
  <2> QED BY <2>4, <2>5, <2>6, <2>7 DEF RegInv
<1>3. CASE ~Resident(v)
  <2>1. rm' = rm
    BY <1>3 DEF Resident
  <2>2. DeclaredOK(rm)'
    BY <2>1, <1>1, <1>3 DEF DeclaredOK, Resident
  <2>3. TypeOK'
    BY <2>1 DEF RegInv, TypeOK
  <2>4. ManagerInv(rm, {evnReg})' /\ EventOK'
    BY <2>1, <1>1, Numbers
       DEF EventOK, ManagerInv, MapOK, HeldOK, AccountOK, Holds, Resident
  <2> QED BY <2>2, <2>3, <2>4 DEF RegInv
<1> QED BY <1>2, <1>3

\* What the steps of a module have in common.
LEMMA InModule ==
  ASSUME RegInv, pc \in {"load", "body", "flush", "purge"}
  PROVE  /\ pc # "done" /\ cur \in Module /\ declared \subseteq Var
         /\ ManagerInv(rm, {NONE}) /\ DeclaredOK(rm)
         /\ Keeps(rm, rm)
         /\ \A e \in Operand : e \in Var \cup {NoVar}
<1>1. ManagerInv(rm, {NONE}) /\ DeclaredOK(rm)
  BY BeforeDone
<1>2. cur \in Module /\ declared \subseteq Var
  BY DEF RegInv, TypeOK
<1> QED BY <1>1, <1>2, KeepsSelf DEF Operand, Visible

LEMMA GetInstructionSetKeeps ==
  ASSUME NEW m, NEW X, ManagerInv(m, X), DeclaredOK(m),
         declared \subseteq Var, cur \in Module,
         NEW op, NEW a \in Operand, NEW b \in Operand, NEW t \in Operand
  PROVE  LET k == GetInstructionSet(m, op, a, b, t)
         IN  ManagerInv(k, X) /\ Keeps(m, k)
<1> DEFINE ma == InstructionParam(m, a)
           mb == InstructionParam(ma, b)
           n  == InstructionParam(mb, t)
           k  == GetInstructionSet(m, op, a, b, t)
<1>1. ManagerInv(ma, X) /\ DeclaredOK(ma) /\ Keeps(m, ma)
  BY InstructionParamKeeps
<1>2. ManagerInv(mb, X) /\ DeclaredOK(mb) /\ Keeps(ma, mb)
  BY <1>1, InstructionParamKeeps
<1>3. ManagerInv(n, X) /\ Keeps(mb, n)
  BY <1>2, InstructionParamKeeps
<1>4. Keeps(m, n)
  BY <1>1, <1>2, <1>3, KeepsTransitive
<1>5. ManagerInv(ShiftScratch(n), X) /\ Keeps(m, ShiftScratch(n))
  BY <1>3, <1>4, ShiftScratchKeeps, KeepsTransitive
<1>6. ManagerInv(FloatScratch(n), X) /\ Keeps(m, FloatScratch(n))
  <2>1. ManagerInv(Fetch(n, "F"), X) /\ Keeps(m, Fetch(n, "F"))
    BY <1>3, <1>4, FloatFetchKeeps, KeepsTransitive
  <2> QED BY <2>1, FloatFetchKeeps, KeepsTransitive DEF FloatScratch
<1>7. k = n \/ k = ShiftScratch(n) \/ k = FloatScratch(n)
  BY DEF GetInstructionSet
<1> QED BY <1>3, <1>4, <1>5, <1>6, <1>7

LEMMA BeginModuleInv ==
  ASSUME RegInv, NEW f \in Module, BeginModule(f)
  PROVE  RegInv'
<1>1. pc = "symtab" /\ rm' = rm /\ evnReg' = evnReg /\ declared' = declared
  BY DEF BeginModule
<1>2. \A i \in DOMAIN params' : Kind[params'[i]] = "PARAM"
  BY ModuleAssumption DEF BeginModule, ParamsOf
<1>3. TypeOK'
  BY ModuleAssumption DEF BeginModule, RegInv, TypeOK
<1>4. ManagerInv(rm', {NONE}) /\ Keeps(rm, rm')
  BY <1>1, BeforeDone, KeepsSelf
<1>5. pc' = "load" /\ cur' \in Module
  BY DEF BeginModule
<1> QED BY <1>1, <1>2, <1>3, <1>4, <1>5, ManagerStep

LEMMA LoadParamInv ==
  ASSUME RegInv, LoadParam
  PROVE  RegInv'
<1> USE DEF LoadParam
<1> DEFINE v == Head(params)
<1>1. cur \in Module /\ ManagerInv(rm, {NONE})
  BY InModule
<1>2. v \in Var /\ ~Resident(v)
  BY DEF RegInv, TypeOK, Resident
<1>3. ManagerInv(rm', {NONE}) /\ Keeps(rm, rm')
  BY <1>1, <1>2, FetchForKeeps
<1>4. \A i \in DOMAIN params' : Kind[params'[i]] = "PARAM"
  BY DEF RegInv, TypeOK
<1>5. TypeOK'
  BY <1>3 DEF RegInv, TypeOK, ManagerInv
<1> QED BY <1>1, <1>3, <1>4, <1>5, ManagerStep

LEMMA BodyStartInv ==
  ASSUME RegInv, BodyStart
  PROVE  RegInv'
<1> USE DEF BodyStart
<1>1. cur \in Module /\ ManagerInv(rm, {NONE}) /\ Keeps(rm, rm)
  BY InModule
<1>2. TypeOK' /\ \A i \in DOMAIN params' : Kind[params'[i]] = "PARAM"
  BY DEF RegInv, TypeOK
<1> QED BY <1>1, <1>2, ManagerStep

LEMMA GenQuadInv ==
  ASSUME RegInv, NEW op, NEW a \in Operand, NEW b \in Operand, NEW t \in Operand,
         GenQuad(op, a, b, t)
  PROVE  RegInv'
<1> USE DEF GenQuad
<1>1. cur \in Module /\ declared \subseteq Var /\ ManagerInv(rm, {NONE}) /\ DeclaredOK(rm)
      /\ \A e \in Operand : e \in Var \cup {NoVar}
  BY InModule
<1>2. ManagerInv(rm', {NONE}) /\ Keeps(rm, rm')
  BY <1>1, GetInstructionSetKeeps
<1>3. TypeOK' /\ \A i \in DOMAIN params' : Kind[params'[i]] = "PARAM"
  BY <1>1, <1>2 DEF RegInv, TypeOK, ManagerInv, Entries, MemoryGlobals
<1> QED BY <1>1, <1>2, <1>3, ManagerStep

LEMMA GenJmpcInv ==
  ASSUME RegInv, NEW a \in Operand, NEW b \in Operand, GenJmpc(a, b)
  PROVE  RegInv'
<1> USE DEF GenJmpc
<1>1. cur \in Module /\ declared \subseteq Var /\ ManagerInv(rm, {NONE}) /\ DeclaredOK(rm)
  BY InModule
<1>2. ManagerInv(rm', {NONE}) /\ Keeps(rm, rm')
  BY <1>1, InstructionParamKeeps, KeepsTransitive
<1>3. TypeOK' /\ \A i \in DOMAIN params' : Kind[params'[i]] = "PARAM"
  BY <1>2 DEF RegInv, TypeOK, ManagerInv
<1> QED BY <1>1, <1>2, <1>3, ManagerStep

LEMMA BeginCallInv ==
  ASSUME RegInv, NEW t \in Operand, BeginCall(t)
  PROVE  RegInv'
<1> USE DEF BeginCall
<1>1. cur \in Module /\ declared \subseteq Var /\ ManagerInv(rm, {NONE}) /\ DeclaredOK(rm)
  BY InModule
<1>2. ManagerInv(rm', {NONE}) /\ Keeps(rm, rm')
  BY <1>1, InstructionParamKeeps
<1>3. TypeOK' /\ \A i \in DOMAIN params' : Kind[params'[i]] = "PARAM"
  BY <1>2 DEF RegInv, TypeOK, ManagerInv
<1> QED BY <1>1, <1>2, <1>3, ManagerStep

LEMMA FlushVarInv ==
  ASSUME RegInv, NEW v \in Var, FlushVar(v)
  PROVE  RegInv'
<1> USE DEF FlushVar, Purge
<1>1. cur \in Module /\ ManagerInv(rm, {NONE}) /\ Keeps(rm, rm)
  BY InModule
<1>2. ManagerInv(rm', {NONE}) /\ Keeps(rm, rm')
  BY <1>1, PurgeVarKeeps DEF Resident
<1>3. TypeOK' /\ \A i \in DOMAIN params' : Kind[params'[i]] = "PARAM"
  BY <1>2 DEF RegInv, TypeOK, ManagerInv
<1> QED BY <1>1, <1>2, <1>3, ManagerStep

LEMMA PushArgumentsInv ==
  ASSUME RegInv, NEW a \in Operand, NEW b \in Operand, PushArguments(a, b)
  PROVE  RegInv'
<1> USE DEF PushArguments
<1>1. cur \in Module /\ declared \subseteq Var /\ ManagerInv(rm, {NONE}) /\ DeclaredOK(rm)
      /\ \A e \in Operand : e \in Var \cup {NoVar}
  BY InModule
<1>2. ManagerInv(rm', {NONE}) /\ Keeps(rm, rm')
  BY <1>1, InstructionParamKeeps, KeepsTransitive
<1>3. TypeOK' /\ \A i \in DOMAIN params' : Kind[params'[i]] = "PARAM"
  BY <1>1, <1>2 DEF RegInv, TypeOK, ManagerInv, Entries
<1> QED BY <1>1, <1>2, <1>3, ManagerStep

LEMMA EndQuadsInv ==
  ASSUME RegInv, EndQuads
  PROVE  RegInv'
<1> USE DEF EndQuads
<1>1. cur \in Module /\ ManagerInv(rm, {NONE}) /\ Keeps(rm, rm)
  BY InModule
<1>2. TypeOK' /\ \A i \in DOMAIN params' : Kind[params'[i]] = "PARAM"
  BY DEF RegInv, TypeOK
<1> QED BY <1>1, <1>2, ManagerStep

LEMMA PurgeVarInv ==
  ASSUME RegInv, NEW v \in Var, PurgeVar(v)
  PROVE  RegInv'
<1> USE DEF PurgeVar, Purge
<1>1. cur \in Module /\ ManagerInv(rm, {NONE}) /\ Keeps(rm, rm)
  BY InModule
<1>2. ManagerInv(rm', {NONE}) /\ Keeps(rm, rm')
  BY <1>1, PurgeVarKeeps DEF Resident
<1>3. TypeOK' /\ \A i \in DOMAIN params' : Kind[params'[i]] = "PARAM"
  BY <1>2 DEF RegInv, TypeOK, ManagerInv
<1> QED BY <1>1, <1>2, <1>3, ManagerStep

LEMMA EndModuleInv ==
  ASSUME RegInv, EndModule
  PROVE  RegInv'
<1> USE DEF EndModule
<1>1. cur \in Module /\ ManagerInv(rm, {NONE}) /\ Keeps(rm, rm)
  BY InModule
<1>2. TypeOK' /\ \A i \in DOMAIN params' : Kind[params'[i]] = "PARAM"
  BY <1>1 DEF RegInv, TypeOK
<1> QED BY <1>1, <1>2, ManagerStep

LEMMA FetchEventRegInv ==
  ASSUME RegInv, FetchEventReg
  PROVE  RegInv'
<1> USE DEF FetchEventReg
<1> DEFINE n == FetchedName(rm, "R")
<1>1. ManagerInv(rm, {NONE}) /\ DeclaredOK(rm)
  BY BeforeDone
<1>2. rm \in Manager /\ "R" \in Bank
  BY <1>1 DEF ManagerInv, Bank
<1>3. n \in Name /\ (n # BARE => n \in rm.free["R"])
  BY <1>2, FetchedNameIs
<1>4. /\ rm' \in Manager /\ rm'.reg = rm.reg /\ rm'.regMap = rm.regMap
      /\ rm.hung => rm'.hung
      /\ rm'.hung => rm'.free = rm.free
      /\ ~rm'.hung => rm'.free = [rm.free EXCEPT !["R"] = @ \ {n}]
  BY <1>2, FetchIs
<1>5. evnReg' = IF rm'.hung THEN NONE ELSE n
  OBVIOUS
<1> HIDE DEF n
<1>6. TypeOK'
  BY <1>3, <1>4, <1>5 DEF RegInv, TypeOK
<1>7. rm'.free["R"] = rm.free["R"] \ {evnReg'}
  <2>1. NONE \notin rm.free["R"]
    BY <1>2, Numbers DEF Manager
  <2> QED BY <2>1, <1>2, <1>4, <1>5 DEF Manager
<1>8. MapOK(rm) /\ HeldOK(rm) /\ AccountOK(rm, {NONE})
  BY <1>1 DEF ManagerInv
<1>9. \A i \in IntCell : i # NONE
  BY Numbers
<1>10. MapOK(rm')
  BY <1>4, <1>7, <1>8 DEF MapOK
<1>11. HeldOK(rm')
  BY <1>4, <1>7, <1>8 DEF HeldOK, Holds
<1>12. AccountOK(rm', {evnReg'})
  BY <1>4, <1>7, <1>8, <1>9 DEF AccountOK, Holds
<1>13. ManagerInv(rm, {evnReg})'
  BY <1>4, <1>10, <1>11, <1>12
     DEF ManagerInv, MapOK, HeldOK, AccountOK, Holds, Resident
<1>14. DeclaredOK(rm)'
  BY <1>1, <1>4 DEF DeclaredOK, Resident
<1>15. EventOK'
  <2>1. \A i \in IntCell : evnReg' = i => i \in rm.free["R"]
    BY <1>3, <1>5, <1>9, Numbers
  <2>2. \A i \in IntCell, v \in Var : i \in rm.free["R"] => ~Holds(rm, v, i)
    BY <1>8 DEF HeldOK
  <2> QED BY <2>1, <2>2, <1>4, <1>7 DEF EventOK, Holds
<1> QED BY <1>6, <1>13, <1>14, <1>15 DEF RegInv

LEMMA StutterInv == RegInv /\ UNCHANGED vars => RegInv'
BY DEF vars, RegInv, TypeOK, ManagerInv, MapOK, HeldOK, AccountOK, Holds,
       Resident, DeclaredOK, EventOK

LEMMA NextInv == RegInv /\ [Next]_vars => RegInv'
<1> SUFFICES ASSUME RegInv, [Next]_vars PROVE RegInv'
  OBVIOUS
<1>1. ASSUME NEW v \in Var, DeclareGlobal(v) PROVE RegInv'
  BY <1>1, DeclareGlobalInv
<1>2. ASSUME NEW f \in Module, BeginModule(f) PROVE RegInv'
  BY <1>2, BeginModuleInv
<1>3. CASE LoadParam
  BY <1>3, LoadParamInv
<1>4. CASE BodyStart
  BY <1>4, BodyStartInv
<1>5. ASSUME NEW op, NEW a \in Operand, NEW b \in Operand, NEW t \in Operand,
             GenQuad(op, a, b, t)
      PROVE  RegInv'
  BY <1>5, GenQuadInv
<1>6. ASSUME NEW a \in Operand, NEW b \in Operand, GenJmpc(a, b) PROVE RegInv'
  BY <1>6, GenJmpcInv
<1>7. ASSUME NEW t \in Operand, BeginCall(t) PROVE RegInv'
  BY <1>7, BeginCallInv
<1>8. ASSUME NEW v \in Var, FlushVar(v) PROVE RegInv'
  BY <1>8, FlushVarInv
<1>9. ASSUME NEW a \in Operand, NEW b \in Operand, PushArguments(a, b) PROVE RegInv'
  BY <1>9, PushArgumentsInv
<1>10. CASE EndQuads
  BY <1>10, EndQuadsInv
<1>11. ASSUME NEW v \in Var, PurgeVar(v) PROVE RegInv'
  BY <1>11, PurgeVarInv
<1>12. CASE EndModule
  BY <1>12, EndModuleInv
<1>13. CASE FetchEventReg
  BY <1>13, FetchEventRegInv
<1>14. CASE UNCHANGED vars
  BY <1>14, StutterInv
<1> QED BY <1>1, <1>2, <1>3, <1>4, <1>5, <1>6, <1>7, <1>8, <1>9, <1>10, <1>11,
           <1>12, <1>13, <1>14 DEF Next, Step

-----------------------------------------------------------------------------
(* The theorems.                                                           *)

\* RegInv holds throughout every compilation.
THEOREM Invariance == Spec => []RegInv
BY InitInv, NextInv, PTL DEF Spec

\* The generator's state stays well formed: TypeOK of CodeGenRegs.
THEOREM TypeCorrect == Spec => []TypeOK
<1>1. RegInv => TypeOK
  BY DEF RegInv
<1> QED BY <1>1, Invariance, PTL

\* An integer register has at most one holder and is then not in the free
\* list, whatever functions, calls and shifts the program is made of:
\* IntExclusive of CodeGenRegs.
THEOREM Exclusion == Spec => []IntExclusive
<1>1. RegInv => IntExclusive
  <2> SUFFICES ASSUME RegInv, NEW n \in IntCell
               PROVE  /\ \A v, w \in Var : HeldBy(v, n) /\ HeldBy(w, n) => v = w
                      /\ \A v \in Var : HeldBy(v, n) => n \notin rm.free["R"] /\ evnReg # n
    BY DEF IntExclusive
  <2>1. \A v \in Var : HeldBy(v, n) <=> Holds(rm, v, n)
    BY DEF HeldBy, Holds
  <2>2. HeldOK(rm) /\ EventOK
    BY DEF RegInv, ManagerInv
  <2>3. ASSUME NEW v \in Var, Holds(rm, v, n)
        PROVE  n \notin rm.free["R"] /\ evnReg # n
    BY <2>2, <2>3 DEF HeldOK, EventOK
  <2>4. ASSUME NEW v \in Var, NEW w \in Var, Holds(rm, v, n), Holds(rm, w, n)
        PROVE  v = w
    BY <2>2, <2>4 DEF HeldOK
  <2> QED BY <2>1, <2>3, <2>4
<1> QED BY <1>1, Invariance, PTL

\* No integer register is lost but by the double fetch of a temporary:
\* IntAccounted of CodeGenRegs.
THEOREM Accounting == Spec => []IntAccounted
<1>1. RegInv => IntAccounted
  <2> SUFFICES ASSUME RegInv, NEW n \in IntCell, n \notin rm.free["R"]
               PROVE  Leaked(n) \/ evnReg = n \/ \E v \in Var : HeldBy(v, n)
    BY DEF IntAccounted
  <2>1. rm \in Manager /\ MapOK(rm) /\ AccountOK(rm, {evnReg}) /\ n \in Name /\ "R" \in Bank
    BY Numbers DEF RegInv, ManagerInv, Bank
  <2>2. CASE rm.regMap["R"][n] # NoVar
    <3> DEFINE w == rm.regMap["R"][n]
    <3>1. w \in Var /\ BankOf(w) = "R"
      BY <2>1, <2>2 DEF Manager, MapOK
    <3>2. ~IsFloat[w]
      BY <3>1 DEF BankOf
    <3> QED BY <3>1, <3>2, <2>2 DEF Leaked, HeldBy
  <2>3. CASE rm.regMap["R"][n] = NoVar
    BY <2>1, <2>3 DEF AccountOK, Holds, HeldBy
  <2> QED BY <2>2, <2>3
<1> QED BY <1>1, Invariance, PTL

-----------------------------------------------------------------------------
(* The inductive invariant of the use of the registers.                    *)

PoolCell(b, n) == n \in Reserved[b] .. TOTAL_REG - 1

\* Until a fetch finds no free cell, all names are those of pool cells.
NumberedOK(m) ==
  \/ m.exhausted
  \/ /\ ~m.hung
     /\ \A b \in Bank : PoolCell(b, m.start[b]) /\ \A n \in m.free[b] : PoolCell(b, n)
     /\ \A v \in Var : m.reg[v] # NONE => PoolCell(BankOf(v), m.reg[v])

EventNumbered == rm.exhausted \/ (evnReg # NONE => PoolCell("R", evnReg))

\* A module that is not begun has touched none of its variables, and the
\* parameters still to load have no register.
UntouchedOK ==
  /\ \A v \in Var : Owner[v] \in Module \ (done \cup {cur}) => rm.reg[v] = NONE
  /\ \A v \in declared : IsGlobal(v)
  /\ pc = "load" =>
       /\ \A i \in DOMAIN params : Owner[params[i]] = cur /\ rm.reg[params[i]] = NONE
       /\ \A i, j \in DOMAIN params : params[i] = params[j] => i = j

InMemory(m, v) == ~IsFloat[v] => m.reg[v] \notin IntCell

\* How far the loops over entrySet have come.
FlushedOK ==
  pc = "flush" =>
    /\ todo \subseteq entrySet
    /\ \A v \in entrySet \ todo : Kind[v] = "GLOBAL_MEM" => InMemory(rm, v)
ReleasedOK ==
  /\ pc = "purge" =>
       /\ todo \subseteq entrySet
       /\ \A v \in entrySet \ todo : ~Resident(v) => InMemory(rm, v)
  /\ pc = "symtab" => \A v \in entrySet : ~Resident(v) => InMemory(rm, v)

UseInv ==
  /\ NumberedOK(rm) /\ EventNumbered
  /\ UntouchedOK /\ FlushedOK /\ ReleasedOK

-----------------------------------------------------------------------------
(* Numbers: what the operations of RegMgr do to NumberedOK.                *)

\* What is in a pool is a numbered register, and in the integer pool one of its cells.
LEMMA PoolNumbers ==
  /\ \A b \in Bank : \A n : PoolCell(b, n) => n \in Cell /\ n # BARE /\ n # NONE
  /\ \A n : PoolCell("R", n) <=> n \in IntCell
  /\ \A b \in Bank : \A n : PoolCell("R", n) => PoolCell(b, n)
BY RegAssumption, Numbers DEF PoolCell, IntCell, Reserved, Bank, Cell, BARE, NONE

\* The round robin goes from a cell of a pool to one.
LEMMA CellAfterNumbered ==
  ASSUME NEW b \in Bank, NEW n, PoolCell(b, n)
  PROVE  PoolCell(b, CellAfter(b, n))
BY RegAssumption, Numbers DEF PoolCell, CellAfter, Cell, Reserved, Bank

\* As long as the start is a cell of the array, a fetch returns.
LEMMA FetchNumbered ==
  ASSUME NEW m \in Manager, NumberedOK(m), NEW b \in Bank
  PROVE  /\ NumberedOK(Fetch(m, b))
         /\ m.exhausted => Fetch(m, b).exhausted
         /\ Fetch(m, b).exhausted \/ (~Fetch(m, b).hung /\ PoolCell(b, FetchedName(m, b)))
<1> DEFINE n == FetchedName(m, b)
           f == Fetch(m, b)
<1>1. CASE m.hung \/ Endless(m, b)
  <2>1. f = [m EXCEPT !.hung = TRUE]
    BY <1>1 DEF Fetch
  <2>2. Endless(m, b) => ~(m.start[b] >= Reserved[b])
    BY Numbers DEF Endless, Manager, Cell
  <2>3. m.exhausted
    BY <2>2, <1>1 DEF NumberedOK, PoolCell
  <2>4. f.exhausted
    BY <2>1, <2>3 DEF Manager
  <2> QED BY <2>4 DEF NumberedOK
<1>2. CASE ~(m.hung \/ Endless(m, b)) /\ n = BARE
  <2>1. f = [m EXCEPT !.exhausted = TRUE]
    BY <1>2 DEF Fetch
  <2>2. f.exhausted
    BY <2>1 DEF Manager
  <2> QED BY <2>2 DEF NumberedOK
<1>3. CASE ~(m.hung \/ Endless(m, b)) /\ n # BARE
  <2>1. f = [m EXCEPT !.free[b] = @ \ {n}, !.start[b] = CellAfter(b, n)]
    BY <1>3 DEF Fetch
  <2>2. /\ f.free = [m.free EXCEPT ![b] = @ \ {n}]
        /\ f.start = [m.start EXCEPT ![b] = CellAfter(b, n)]
        /\ f.reg = m.reg /\ f.exhausted = m.exhausted /\ f.hung = m.hung
    BY <2>1 DEF Manager
  <2>3. CASE m.exhausted
    BY <2>2, <2>3 DEF NumberedOK
  <2>4. CASE ~m.exhausted
    <3>1. n \in m.free[b]
      BY <1>3, FetchedNameIs
    <3>2. PoolCell(b, n)
      BY <3>1, <2>4 DEF NumberedOK
    <3>3. PoolCell(b, CellAfter(b, n))
      BY <3>2, CellAfterNumbered
    <3> HIDE DEF n, f
    <3>4. \A k \in Bank : /\ PoolCell(k, f.start[k])
                           /\ \A i \in f.free[k] : PoolCell(k, i)
      BY <3>3, <2>2, <2>4 DEF NumberedOK, Manager
    <3>5. \A v \in Var : f.reg[v] # NONE => PoolCell(BankOf(v), f.reg[v])
      BY <2>2, <2>4 DEF NumberedOK
    <3> QED BY <3>2, <3>4, <3>5, <2>2, <2>4 DEF NumberedOK, n, f
  <2> QED BY <2>3, <2>4
<1> QED BY <1>1, <1>2, <1>3

\* A fetch gives a numbered register, or the pool is exhausted.
LEMMA FetchForNumbered ==
  ASSUME NEW m \in Manager, NumberedOK(m), NEW v \in Var
  PROVE  NumberedOK(FetchFor(m, v)) /\ (m.exhausted => FetchFor(m, v).exhausted)
<1> DEFINE b == BankOf(v)
           n == FetchedName(m, b)
           g == Fetch(m, b)
           f == FetchFor(m, v)
<1>1. b \in Bank /\ n \in Name /\ g \in Manager /\ g.reg = m.reg
  BY Numbers, FetchedNameIs, FetchIs
<1>2. /\ NumberedOK(g)
      /\ m.exhausted => g.exhausted
      /\ g.exhausted \/ (~g.hung /\ PoolCell(b, n))
  BY <1>1, FetchNumbered
<1>3. CASE g.hung
  <2>1. f = g
    BY <1>3 DEF FetchFor
  <2> QED BY <2>1, <1>2
<1>4. CASE ~g.hung
  <2>1. f = [g EXCEPT !.reg[v] = n, !.regMap[b][n] = IF @ = NoVar THEN v ELSE @]
    BY <1>4 DEF FetchFor
  <2>2. /\ f.reg = [g.reg EXCEPT ![v] = n]
        /\ f.free = g.free /\ f.start = g.start
        /\ f.hung = g.hung /\ f.exhausted = g.exhausted
    BY <2>1, <1>1 DEF Manager
  <2> HIDE DEF n, g, f
  <2>3. CASE g.exhausted
    BY <2>2, <2>3 DEF NumberedOK, f
  <2>4. CASE ~g.exhausted
    <3>1. \A u \in Var : f.reg[u] # NONE => PoolCell(BankOf(u), f.reg[u])
      BY <1>1, <1>2, <2>2, <2>4 DEF NumberedOK, Manager, b
    <3>2. NumberedOK(f)
      BY <3>1, <1>2, <2>2, <2>4 DEF NumberedOK
    <3> QED BY <3>2, <1>2, <2>2 DEF f, g
  <2> QED BY <2>3, <2>4
<1> QED BY <1>3, <1>4

\* A purge of a numbered register, or any once a pool has run dry, leaves NumberedOK.
LEMMA PurgeNumbered ==
  ASSUME NEW m \in Manager, NumberedOK(m), NEW b \in Bank, NEW n \in Name,
         m.exhausted \/ PoolCell(b, n), NEW withCode \in BOOLEAN
  PROVE  NumberedOK(PurgeReg(m, b, n, withCode))
<1> DEFINE p == PurgeReg(m, b, n, withCode)
           c == IF n = BARE THEN 0 ELSE n
           w == m.regMap[b][n]
<1>1. /\ p.free = [k \in Bank |-> IF k \in PurgedBanks(b) THEN m.free[k] \cup {c} ELSE m.free[k]]
      /\ p.start = [k \in Bank |-> IF k \in PurgedBanks(b) THEN c ELSE m.start[k]]
      /\ p.reg = IF withCode /\ w # NoVar THEN [m.reg EXCEPT ![w] = NONE] ELSE m.reg
      /\ p.hung = m.hung /\ p.exhausted = m.exhausted
  BY DEF PurgeReg, Manager
<1>2. w \in Var \cup {NoVar}
  BY DEF Manager
<1> HIDE DEF p, w
<1>3. CASE m.exhausted
  BY <1>1, <1>3 DEF NumberedOK, p
<1>4. CASE ~m.exhausted
  <2>1. PoolCell(b, n) /\ c = n
    BY <1>4, PoolNumbers
  <2>2. \A k \in PurgedBanks(b) : PoolCell(k, c)
    BY <2>1, PoolNumbers DEF PurgedBanks, Bank
  <2> HIDE DEF c
  <2>3. \A k \in Bank : /\ PoolCell(k, p.start[k])
                         /\ \A i \in p.free[k] : PoolCell(k, i)
    BY <2>2, <1>1, <1>4 DEF NumberedOK
  <2>4. \A v \in Var : p.reg[v] # NONE => p.reg[v] = m.reg[v]
    BY <1>1, <1>2 DEF Manager
  <2>5. \A v \in Var : p.reg[v] # NONE => PoolCell(BankOf(v), p.reg[v])
    BY <2>4, <1>4 DEF NumberedOK
  <2> QED BY <2>3, <2>5, <1>1, <1>4 DEF NumberedOK, p
<1> QED BY <1>3, <1>4

-----------------------------------------------------------------------------
(* Registers are given to variables without one, and taken by a purge.     *)

\* Between m and k, variables of S that had no register were given one.
Gives(m, k, S) == \A v \in Var : k.reg[v] # m.reg[v] => v \in S /\ m.reg[v] = NONE

\* What the generation of a quadruple does to the manager.
Serves(m, k, S) == NumberedOK(k) /\ (m.exhausted => k.exhausted) /\ Gives(m, k, S)

\* Two calls give registers to the variables of both.
LEMMA ServesTransitive ==
  ASSUME NEW m, NEW k, NEW l, NEW S, NEW T, Serves(m, k, S), Serves(k, l, T)
  PROVE  Serves(m, l, S \cup T)
BY DEF Serves, Gives

\* A fetch for one variable is nothing to the others.
LEMMA FetchForOthers ==
  ASSUME NEW m \in Manager, NEW v \in Var
  PROVE  \A u \in Var : u # v => FetchFor(m, v).reg[u] = m.reg[u]
<1> DEFINE n == FetchedName(m, BankOf(v))
           f == FetchFor(m, v)
<1>1. f.reg = m.reg \/ f.reg = [m.reg EXCEPT ![v] = n]
  BY FetchForIs
<1> HIDE DEF f, n
<1>2. \A u \in Var : u # v => f.reg[u] = m.reg[u]
  BY <1>1 DEF Manager
<1> QED BY <1>2 DEF f

\* getVEReg gives a register to its variable only.
LEMMA GetVERegServes ==
  ASSUME NEW m \in Manager, NumberedOK(m), NEW v \in Var
  PROVE  Serves(m, GetVEReg(m, v), {v})
<1>1. CASE m.reg[v] # NONE
  BY <1>1 DEF GetVEReg, Serves, Gives
<1>2. CASE m.reg[v] = NONE
  <2> DEFINE f == FetchFor(m, v)
             g == FetchFor(f, v)
  <2>1. f \in Manager /\ NumberedOK(f) /\ (m.exhausted => f.exhausted)
    BY FetchForIs, FetchForNumbered
  <2>2. NumberedOK(g) /\ (f.exhausted => g.exhausted)
    BY <2>1, FetchForNumbered
  <2>3. \A u \in Var : u # v => f.reg[u] = m.reg[u]
    BY FetchForOthers
  <2>4. \A u \in Var : u # v => g.reg[u] = f.reg[u]
    BY <2>1, FetchForOthers
  <2>5. GetVEReg(m, v) = f \/ GetVEReg(m, v) = g
    BY <1>2 DEF GetVEReg
  <2> HIDE DEF f, g
  <2> QED BY <1>2, <2>1, <2>2, <2>3, <2>4, <2>5 DEF Serves, Gives
<1> QED BY <1>1, <1>2

\* The same for an operand, which may be none.
LEMMA InstructionParamServes ==
  ASSUME NEW m \in Manager, NumberedOK(m), NEW e \in Var \cup {NoVar}
  PROVE  Serves(m, InstructionParam(m, e), {e})
<1>1. CASE e = NoVar
  BY <1>1 DEF InstructionParam, Serves, Gives
<1>2. CASE e # NoVar
  BY <1>2, GetVERegServes DEF InstructionParam
<1> QED BY <1>1, <1>2

\* Only the numbers of the scratch registers matter: nobody is given them.
LEMMA ShiftScratchServes ==
  ASSUME NEW m \in Manager, NumberedOK(m)
  PROVE  Serves(m, ShiftScratch(m), {})
<1> DEFINE f == Fetch(m, "R")
           n == FetchedName(m, "R")
           p == PurgeReg(f, "R", n, FALSE)
<1>1. "R" \in Bank /\ FALSE \in BOOLEAN
  BY DEF Bank
<1>2. f \in Manager /\ f.reg = m.reg /\ n \in Name
  BY <1>1, FetchIs, FetchedNameIs
<1>3. /\ NumberedOK(f)
      /\ m.exhausted => f.exhausted
      /\ f.exhausted \/ (~f.hung /\ PoolCell("R", n))
  BY <1>1, FetchNumbered
<1>4. NumberedOK(p)
  <2> HIDE DEF f, n
  <2> QED BY <1>1, <1>2, <1>3, PurgeNumbered
<1>5. p.reg = f.reg /\ p.exhausted = f.exhausted
  BY <1>2 DEF PurgeReg, Manager
<1>6. ShiftScratch(m) = f \/ ShiftScratch(m) = p
  BY DEF ShiftScratch
<1> HIDE DEF f, p
<1> QED BY <1>2, <1>3, <1>4, <1>5, <1>6 DEF Serves, Gives

\* A scratch register serves no variable.
LEMMA FloatScratchServes ==
  ASSUME NEW m \in Manager, NumberedOK(m)
  PROVE  Serves(m, FloatScratch(m), {})
<1> DEFINE f == Fetch(m, "F")
           g == Fetch(f, "F")
<1>1. "F" \in Bank
  BY DEF Bank
<1>2. f \in Manager /\ f.reg = m.reg /\ NumberedOK(f) /\ (m.exhausted => f.exhausted)
  BY <1>1, FetchIs, FetchNumbered
<1>3. g.reg = f.reg /\ NumberedOK(g) /\ (f.exhausted => g.exhausted)
  BY <1>1, <1>2, FetchIs, FetchNumbered
<1>4. FloatScratch(m) = g
  BY DEF FloatScratch
<1> HIDE DEF f, g
<1> QED BY <1>2, <1>3, <1>4 DEF Serves, Gives

\* InstructionParam keeps the manager well formed (InstructionParamKeeps
\* asks for the rest of RegInv).
LEMMA InstructionParamType ==
  ASSUME NEW m \in Manager, NEW e \in Var \cup {NoVar}
  PROVE  InstructionParam(m, e) \in Manager
<1>1. CASE e = NoVar
  BY <1>1 DEF InstructionParam
<1>2. CASE e # NoVar
  <2>1. FetchFor(m, e) \in Manager
    BY <1>2, FetchForIs
  <2>2. FetchFor(FetchFor(m, e), e) \in Manager
    BY <1>2, <2>1, FetchForIs
  <2> QED BY <1>2, <2>1, <2>2 DEF InstructionParam, GetVEReg
<1> QED BY <1>1, <1>2

\* The same for two operands, one after the other.
LEMMA TwoParamsServe ==
  ASSUME NEW m \in Manager, NumberedOK(m), NEW a \in Var \cup {NoVar}, NEW b \in Var \cup {NoVar}
  PROVE  LET k == InstructionParam(InstructionParam(m, a), b)
         IN  k \in Manager /\ Serves(m, k, {a, b})
<1> DEFINE ma == InstructionParam(m, a)
           k == InstructionParam(ma, b)
<1>1. ma \in Manager /\ Serves(m, ma, {a})
  BY InstructionParamType, InstructionParamServes
<1>2. k \in Manager /\ Serves(ma, k, {b})
  BY <1>1, InstructionParamType, InstructionParamServes DEF Serves
<1>3. Serves(m, k, {a} \cup {b})
  <2> HIDE DEF ma, k
  <2> QED BY <1>1, <1>2, ServesTransitive
<1> QED BY <1>2, <1>3 DEF Serves, Gives

\* Selecting the instructions of a quadruple serves its operands and its result.
LEMMA GetInstructionSetServes ==
  ASSUME NEW m \in Manager, NumberedOK(m), NEW op,
         NEW a \in Var \cup {NoVar}, NEW b \in Var \cup {NoVar}, NEW t \in Var \cup {NoVar}
  PROVE  Serves(m, GetInstructionSet(m, op, a, b, t), {a, b, t})
<1> DEFINE mb == InstructionParam(InstructionParam(m, a), b)
           n == InstructionParam(mb, t)
           k == GetInstructionSet(m, op, a, b, t)
<1>1. mb \in Manager /\ Serves(m, mb, {a, b})
  BY TwoParamsServe
<1>2. n \in Manager /\ Serves(mb, n, {t})
  BY <1>1, InstructionParamType, InstructionParamServes DEF Serves
<1>3. Serves(m, n, {a, b} \cup {t})
  <2> HIDE DEF mb, n
  <2> QED BY <1>1, <1>2, ServesTransitive
<1>4. k = n \/ k = ShiftScratch(n) \/ k = FloatScratch(n)
  BY DEF GetInstructionSet
<1>5. Serves(n, ShiftScratch(n), {}) /\ Serves(n, FloatScratch(n), {})
  BY <1>2, ShiftScratchServes, FloatScratchServes DEF Serves
<1>6. Serves(m, k, {a, b} \cup {t}) \/ Serves(m, k, ({a, b} \cup {t}) \cup {})
  <2> HIDE DEF n, k
  <2> QED BY <1>3, <1>4, <1>5, ServesTransitive
<1> QED BY <1>6 DEF Serves, Gives

\* The loops over entrySet purge a variable's register with its code.
PurgeFor(m, v) == PurgeReg(m, BankOf(v), m.reg[v], TRUE)

\* The purge of v takes v's register, and nobody else's that is an integer
\* cell unless v's is none; it gives no one a register.
LEMMA PurgeTakes ==
  ASSUME NEW m, NEW X, ManagerInv(m, X), NumberedOK(m),
         NEW v \in Var, ~Resident(v), m.reg[v] # NONE,
         NEW p, p = PurgeFor(m, v)
  PROVE  /\ NumberedOK(p) /\ p.exhausted = m.exhausted
         /\ InMemory(p, v)
         /\ \A u \in Var : p.reg[u] = m.reg[u] \/ p.reg[u] = NONE
         /\ \A u \in Var : p.reg[u] # m.reg[u] /\ ~IsFloat[u] => u = v \/ m.exhausted
<1> DEFINE b == BankOf(v)
           n == m.reg[v]
           w == m.regMap[b][n]
<1>1. m \in Manager /\ b \in Bank /\ n \in Name /\ TRUE \in BOOLEAN
  BY Numbers DEF ManagerInv, Manager
<1>2. m.exhausted \/ PoolCell(b, n)
  BY DEF NumberedOK
<1>3. NumberedOK(p)
  <2>1. p = PurgeReg(m, b, n, TRUE)
    BY DEF PurgeFor
  <2> HIDE DEF b, n
  <2>2. NumberedOK(PurgeReg(m, b, n, TRUE))
    BY <1>1, <1>2, PurgeNumbered
  <2> QED BY <2>1, <2>2
<1>4. p.reg = (IF TRUE /\ w # NoVar THEN [m.reg EXCEPT ![w] = NONE] ELSE m.reg) /\ p.exhausted = m.exhausted
  BY <1>1 DEF PurgeFor, PurgeReg, Manager
<1>5. w \in Var \cup {NoVar}
  BY <1>1 DEF Manager
<1>6. \A u \in Var : p.reg[u] = IF u = w /\ w # NoVar THEN NONE ELSE m.reg[u]
  BY <1>1, <1>4, <1>5 DEF Manager
<1>7. w # NoVar => BankOf(w) = b
  BY <1>1 DEF ManagerInv, MapOK
<1>8. b = "R" /\ n \in IntCell => w = v
  BY DEF ManagerInv, HeldOK, Holds, BankOf
<1>9. NONE \notin IntCell /\ NoVar \notin Var
  BY Numbers, VarAssumption
<1>10. InMemory(p, v)
  BY <1>6, <1>8, <1>9 DEF InMemory, BankOf
<1>11. ASSUME NEW u \in Var, p.reg[u] # m.reg[u], ~IsFloat[u], ~m.exhausted
       PROVE  u = v
  <2>1. u = w /\ w # NoVar
    BY <1>6, <1>11
  <2>2. b = "R"
    BY <2>1, <1>7, <1>11 DEF BankOf
  <2>3. n \in IntCell
    BY <2>2, <1>2, <1>11, PoolNumbers
  <2> QED BY <2>1, <2>2, <2>3, <1>8
<1> HIDE DEF w
<1> QED BY <1>3, <1>4, <1>6, <1>10, <1>11

-----------------------------------------------------------------------------
(* UseInv holds at the start and every step keeps it, and no step but the  *)
(* purges of RegisterKept takes a register away.                           *)

\* No register is used before anything is generated.
LEMMA InitUse == Init => UseInv
<1> SUFFICES ASSUME Init PROVE UseInv
  OBVIOUS
<1> USE DEF Init
<1>1. /\ rm.free = [b \in Bank |-> Reserved[b] .. TOTAL_REG - 1]
      /\ rm.start = Reserved /\ ~rm.hung
      /\ rm.reg = [v \in Var |-> NONE]
  BY DEF InitManager
<1>2. \A b \in Bank : PoolCell(b, Reserved[b])
  BY RegAssumption DEF PoolCell, Reserved, Bank
<1>3. NumberedOK(rm)
  BY <1>1, <1>2 DEF NumberedOK, PoolCell
<1>4. UntouchedOK
  BY <1>1 DEF UntouchedOK
<1> QED BY <1>3, <1>4 DEF UseInv, EventNumbered, FlushedOK, ReleasedOK

\* A step that gives registers takes none.
LEMMA GivesKept ==
  ASSUME NEW S, Gives(rm, rm', S)
  PROVE  RegisterKept
BY Numbers DEF Gives, RegisterKept

\* An operand is a global that is declared or a variable of the module.
LEMMA OperandOwner ==
  ASSUME RegInv, UseInv, pc \in {"load", "body", "flush", "purge"}, NEW e \in Operand
  PROVE  /\ e \in Var \cup {NoVar}
         /\ e \in Var => Owner[e] \in {NoModule, cur}
<1>1. e \in Var \cup {NoVar}
  BY InModule
<1>2. \A v \in declared : v \in Var /\ Owner[v] = NoModule
  BY ModuleAssumption DEF RegInv, TypeOK, UseInv, UntouchedOK
<1> QED BY <1>1, <1>2, VarAssumption DEF Operand, Visible

\* A step of a module that serves operands of its own.
LEMMA ServeStep ==
  ASSUME RegInv, UseInv, pc \in {"load", "body", "flush"}, evnReg' = evnReg,
         UNCHANGED <<cur, done, declared>>,
         NEW S, Serves(rm, rm', S), \A v \in Var \cap S : Owner[v] \in {NoModule, cur}
  PROVE  /\ NumberedOK(rm)' /\ EventNumbered' /\ RegisterKept
         /\ pc' # "load" => UntouchedOK'
<1>1. NumberedOK(rm')
  BY DEF Serves
<1>2. NumberedOK(rm)'
  BY <1>1 DEF NumberedOK, PoolCell, BankOf, Reserved, Bank
<1>3. EventNumbered'
  BY BeforeDone DEF EventNumbered
<1>4. RegisterKept
  BY GivesKept DEF Serves
<1>5. ASSUME pc' # "load" PROVE UntouchedOK'
  <2>1. NoModule \notin Module
    BY ModuleAssumption
  <2>2. ASSUME NEW v \in Var, Owner[v] \in Module \ (done \cup {cur})
        PROVE  rm'.reg[v] = NONE
    BY <2>1, <2>2 DEF UseInv, UntouchedOK, Serves, Gives
  <2> QED BY <1>5, <2>2 DEF UseInv, UntouchedOK, IsGlobal
<1> QED BY <1>2, <1>3, <1>4, <1>5

LEMMA GenQuadUse ==
  ASSUME RegInv, UseInv, NEW op, NEW a \in Operand, NEW b \in Operand, NEW t \in Operand,
         GenQuad(op, a, b, t)
  PROVE  UseInv' /\ RegisterKept
<1> USE DEF GenQuad
<1>1. rm \in Manager /\ NumberedOK(rm)
  BY DEF RegInv, TypeOK, UseInv
<1>2. /\ {a, b, t} \subseteq Var \cup {NoVar}
      /\ \A v \in Var \cap {a, b, t} : Owner[v] \in {NoModule, cur}
  BY OperandOwner
<1>3. Serves(rm, rm', {a, b, t})
  BY <1>1, <1>2, GetInstructionSetServes
<1>4. NumberedOK(rm)' /\ EventNumbered' /\ RegisterKept /\ UntouchedOK'
  BY <1>2, <1>3, ServeStep
<1> QED BY <1>4 DEF UseInv, FlushedOK, ReleasedOK
LEMMA GenJmpcUse ==
  ASSUME RegInv, UseInv, NEW a \in Operand, NEW b \in Operand, GenJmpc(a, b)
  PROVE  UseInv' /\ RegisterKept
<1> USE DEF GenJmpc
<1>1. rm \in Manager /\ NumberedOK(rm)
  BY DEF RegInv, TypeOK, UseInv
<1>2. /\ {a, b} \subseteq Var \cup {NoVar}
      /\ \A v \in Var \cap {a, b} : Owner[v] \in {NoModule, cur}
  BY OperandOwner
<1>3. Serves(rm, rm', {a, b})
  BY <1>1, <1>2, TwoParamsServe
<1>4. NumberedOK(rm)' /\ EventNumbered' /\ RegisterKept /\ UntouchedOK'
  BY <1>2, <1>3, ServeStep
<1> QED BY <1>4 DEF UseInv, FlushedOK, ReleasedOK
LEMMA BeginCallUse ==
  ASSUME RegInv, UseInv, NEW t \in Operand, BeginCall(t)
  PROVE  UseInv' /\ RegisterKept
<1> USE DEF BeginCall
<1>1. rm \in Manager /\ NumberedOK(rm)
  BY DEF RegInv, TypeOK, UseInv
<1>2. t \in Var \cup {NoVar} /\ \A v \in Var \cap {t} : Owner[v] \in {NoModule, cur}
  BY OperandOwner
<1>3. Serves(rm, rm', {t})
  BY <1>1, <1>2, InstructionParamServes
<1>4. NumberedOK(rm)' /\ EventNumbered' /\ RegisterKept /\ UntouchedOK'
  BY <1>2, <1>3, ServeStep
<1> QED BY <1>4 DEF UseInv, FlushedOK, ReleasedOK
LEMMA PushArgumentsUse ==
  ASSUME RegInv, UseInv, NEW a \in Operand, NEW b \in Operand, PushArguments(a, b)
  PROVE  UseInv' /\ RegisterKept
<1> USE DEF PushArguments
<1>1. rm \in Manager /\ NumberedOK(rm)
  BY DEF RegInv, TypeOK, UseInv
<1>2. /\ {a, b} \subseteq Var \cup {NoVar}
      /\ \A v \in Var \cap {b, a} : Owner[v] \in {NoModule, cur}
  BY OperandOwner
<1>3. Serves(rm, rm', {b, a})
  BY <1>1, <1>2, TwoParamsServe
<1>4. NumberedOK(rm)' /\ EventNumbered' /\ RegisterKept /\ UntouchedOK'
  BY <1>2, <1>3, ServeStep
<1> QED BY <1>4 DEF UseInv, FlushedOK, ReleasedOK
LEMMA LoadParamUse ==
  ASSUME RegInv, UseInv, LoadParam
  PROVE  UseInv' /\ RegisterKept
<1> USE DEF LoadParam
<1> DEFINE v == Head(params)
<1>1. rm \in Manager /\ NumberedOK(rm) /\ params \in Seq(Var)
  BY DEF RegInv, TypeOK, UseInv
<1>2. v \in Var /\ rm.reg[v] = NONE
  BY <1>1 DEF UseInv, UntouchedOK
<1>3. Owner[v] = cur
  BY <1>1 DEF UseInv, UntouchedOK
<1>4. Serves(rm, rm', {v})
  <2>1. \A u \in Var : u # v => rm'.reg[u] = rm.reg[u]
    BY <1>1, <1>2, FetchForOthers
  <2> QED BY <1>1, <1>2, <2>1, FetchForNumbered DEF Serves, Gives
<1>5. NumberedOK(rm)' /\ EventNumbered' /\ RegisterKept
  BY <1>2, <1>3, <1>4, ServeStep
<1>6. UntouchedOK'
  <2>1. ASSUME NEW u \in Var, Owner[u] \in Module \ (done \cup {cur})
        PROVE  rm'.reg[u] = NONE
    BY <1>4, <1>3, <2>1 DEF UseInv, UntouchedOK, Serves, Gives
  <2>2. ASSUME NEW i \in DOMAIN params'
        PROVE  /\ params'[i] = params[i + 1] /\ i + 1 \in DOMAIN params
               /\ params'[i] # v
    BY <1>1 DEF UseInv, UntouchedOK
  <2>3. \A i \in DOMAIN params' : Owner[params'[i]] = cur /\ rm'.reg[params'[i]] = NONE
    BY <1>1, <1>4, <2>2 DEF UseInv, UntouchedOK, Serves, Gives
  <2>4. \A i, j \in DOMAIN params' : params'[i] = params'[j] => i = j
    BY <1>1, <2>2 DEF UseInv, UntouchedOK
  <2> QED BY <2>1, <2>3, <2>4 DEF UseInv, UntouchedOK, IsGlobal
<1> QED BY <1>5, <1>6 DEF UseInv, FlushedOK, ReleasedOK

\* A step that leaves the manager alone.
LEMMA ManagerUnchanged ==
  ASSUME UseInv, rm' = rm, evnReg' = evnReg
  PROVE  NumberedOK(rm)' /\ EventNumbered' /\ RegisterKept
BY DEF UseInv, NumberedOK, EventNumbered, PoolCell, BankOf, Reserved, Bank, RegisterKept

LEMMA BodyStartUse ==
  ASSUME RegInv, UseInv, BodyStart
  PROVE  UseInv' /\ RegisterKept
<1> USE DEF BodyStart
<1>1. NumberedOK(rm)' /\ EventNumbered' /\ RegisterKept
  BY ManagerUnchanged
<1>2. UntouchedOK'
  BY DEF UseInv, UntouchedOK, IsGlobal
<1> QED BY <1>1, <1>2 DEF UseInv, FlushedOK, ReleasedOK

LEMMA BeginModuleUse ==
  ASSUME RegInv, UseInv, NEW f \in Module, BeginModule(f)
  PROVE  UseInv' /\ RegisterKept
<1> USE DEF BeginModule
<1>1. NumberedOK(rm)' /\ EventNumbered' /\ RegisterKept
  BY ManagerUnchanged
<1>2. f \notin done
  BY DEF Startable
<1>3. /\ params' \in Seq(Var)
      /\ \A i \in DOMAIN params' : Owner[params'[i]] = f
      /\ \A i, j \in DOMAIN params' : params'[i] = params'[j] => i = j
  BY ModuleAssumption DEF ParamsOf
<1>4. NoModule \notin Module
  BY ModuleAssumption
<1>5. \A v \in Var : Owner[v] = f => rm.reg[v] = NONE
  BY <1>2, <1>4 DEF UseInv, UntouchedOK
<1>6. UntouchedOK'
  BY <1>3, <1>4, <1>5 DEF UseInv, UntouchedOK, IsGlobal
<1> QED BY <1>1, <1>6 DEF UseInv, FlushedOK, ReleasedOK

LEMMA EndQuadsUse ==
  ASSUME RegInv, UseInv, EndQuads
  PROVE  UseInv' /\ RegisterKept
<1> USE DEF EndQuads
<1>1. NumberedOK(rm)' /\ EventNumbered' /\ RegisterKept
  BY ManagerUnchanged
<1>2. UntouchedOK'
  BY DEF UseInv, UntouchedOK, IsGlobal
<1> QED BY <1>1, <1>2 DEF UseInv, FlushedOK, ReleasedOK

LEMMA EndModuleUse ==
  ASSUME RegInv, UseInv, EndModule
  PROVE  UseInv' /\ RegisterKept
<1> USE DEF EndModule
<1>1. NumberedOK(rm)' /\ EventNumbered' /\ RegisterKept
  BY ManagerUnchanged
<1>2. UntouchedOK'
  BY DEF UseInv, UntouchedOK, IsGlobal
<1>3. ReleasedOK'
  BY DEF UseInv, ReleasedOK, InMemory, IntCell, Resident, Reserved, Bank
<1> QED BY <1>1, <1>2, <1>3 DEF UseInv, FlushedOK

LEMMA DeclareGlobalUse ==
  ASSUME RegInv, UseInv, NEW v \in Var, DeclareGlobal(v)
  PROVE  UseInv' /\ RegisterKept
<1> USE DEF DeclareGlobal
<1>1. rm \in Manager /\ NumberedOK(rm) /\ evnReg = NONE /\ Owner[v] = NoModule
  BY BeforeDone, ModuleAssumption DEF RegInv, TypeOK, UseInv
<1>2. CASE Resident(v)
  <2> DEFINE b == BankOf(v)
             n == FetchedName(rm, b)
             f == Fetch(rm, b)
  <2>1. b \in Bank /\ f \in Manager /\ f.reg = rm.reg /\ n \in Name
    BY <1>1, Numbers, FetchIs, FetchedNameIs
  <2>2. /\ NumberedOK(f)
        /\ rm.exhausted => f.exhausted
        /\ f.exhausted \/ (~f.hung /\ PoolCell(b, n))
    BY <1>1, <2>1, FetchNumbered
  <2>3. rm' = IF f.hung THEN f ELSE [f EXCEPT !.reg[v] = n]
    BY <1>2 DEF Resident, FetchResident
  <2>4. rm.reg[v] = NONE
    BY <1>2 DEF RegInv, DeclaredOK
  <2> HIDE DEF n, f
  <2>5. /\ rm'.free = f.free /\ rm'.start = f.start
        /\ rm'.hung = f.hung /\ rm'.exhausted = f.exhausted
        /\ rm'.reg = f.reg \/ rm'.reg = [f.reg EXCEPT ![v] = n]
    BY <2>1, <2>3 DEF Manager
  <2>6. \A u \in Var : rm'.reg[u] = rm.reg[u] \/ (u = v /\ rm'.reg[u] = n)
    BY <2>1, <2>5, <1>1 DEF Manager
  <2>7. NumberedOK(rm')
    <3>1. CASE f.exhausted
      BY <3>1, <2>5 DEF NumberedOK
    <3>2. CASE ~f.exhausted
      <4>1. \A u \in Var : rm'.reg[u] # NONE => PoolCell(BankOf(u), rm'.reg[u])
        BY <3>2, <2>1, <2>2, <2>6 DEF NumberedOK
      <4> QED BY <3>2, <4>1, <2>2, <2>5 DEF NumberedOK
    <3> QED BY <3>1, <3>2
  <2>8. NumberedOK(rm)'
    BY <2>7 DEF NumberedOK, PoolCell, BankOf, Reserved, Bank
  <2>9. RegisterKept
    BY <2>4, <2>6, Numbers DEF RegisterKept
  <2>10. UntouchedOK'
    BY <2>6, <1>1, ModuleAssumption DEF UseInv, UntouchedOK, IsGlobal
  <2>11. ReleasedOK'
    <3>1. \A u \in Var : ~Resident(u) => rm'.reg[u] = rm.reg[u]
      BY <1>2, <2>6
    <3>2. entrySet \subseteq Var
      BY DEF RegInv, TypeOK
    <3> QED BY <3>1, <3>2 DEF UseInv, ReleasedOK, InMemory, IntCell, Resident, Reserved, Bank
  <2> QED BY <1>1, <2>8, <2>9, <2>10, <2>11 DEF UseInv, FlushedOK, EventNumbered
<1>3. CASE ~Resident(v)
  <2>1. rm' = rm
    BY <1>3 DEF Resident
  <2>2. NumberedOK(rm)' /\ EventNumbered' /\ RegisterKept
    BY <2>1, ManagerUnchanged
  <2>3. UntouchedOK' /\ ReleasedOK'
    BY <2>1 DEF UseInv, UntouchedOK, IsGlobal, ReleasedOK, InMemory, IntCell, Resident, Reserved, Bank
  <2> QED BY <2>2, <2>3 DEF UseInv, FlushedOK
<1> QED BY <1>2, <1>3

LEMMA FetchEventRegUse ==
  ASSUME RegInv, UseInv, FetchEventReg
  PROVE  UseInv' /\ RegisterKept
<1> USE DEF FetchEventReg
<1> DEFINE n == FetchedName(rm, "R")
<1>1. rm \in Manager /\ NumberedOK(rm) /\ "R" \in Bank
  BY DEF RegInv, TypeOK, UseInv, Bank
<1>2. /\ NumberedOK(rm')
      /\ rm'.exhausted \/ (~rm'.hung /\ PoolCell("R", n))
      /\ rm'.reg = rm.reg
  BY <1>1, FetchNumbered, FetchIs
<1>3. NumberedOK(rm)'
  BY <1>2 DEF NumberedOK, PoolCell, BankOf, Reserved, Bank
<1>4. EventNumbered'
  <2> HIDE DEF n
  <2> QED BY <1>2 DEF EventNumbered, n, PoolCell, Reserved, Bank
<1>5. UntouchedOK' /\ RegisterKept
  BY <1>2 DEF UseInv, UntouchedOK, IsGlobal, RegisterKept
<1> QED BY <1>3, <1>4, <1>5 DEF UseInv, FlushedOK, ReleasedOK

LEMMA FlushVarUse ==
  ASSUME RegInv, UseInv, NEW v \in Var, FlushVar(v)
  PROVE  UseInv' /\ RegisterKept
<1> USE DEF FlushVar, Purge
<1>1. /\ rm \in Manager /\ NumberedOK(rm) /\ ManagerInv(rm, {NONE})
      /\ evnReg = NONE /\ todo \subseteq entrySet /\ entrySet \subseteq Var
  BY BeforeDone DEF RegInv, TypeOK, UseInv, FlushedOK
<1>2. CASE rm.reg[v] # NONE /\ Kind[v] = "GLOBAL_MEM"
  <2>1. rm' = PurgeFor(rm, v) /\ ~Resident(v)
    BY <1>2 DEF PurgeFor, Resident
  <2>2. /\ NumberedOK(rm')
        /\ InMemory(rm', v)
        /\ \A u \in Var : rm'.reg[u] = rm.reg[u] \/ rm'.reg[u] = NONE
        /\ \A u \in Var : rm'.reg[u] # rm.reg[u] /\ ~IsFloat[u] => u = v \/ rm.exhausted
    <3> HIDE DEF FlushVar, Purge
    <3> DEFINE p == PurgeFor(rm, v)
    <3>1. ManagerInv(rm, {NONE}) /\ NumberedOK(rm) /\ ~Resident(v) /\ rm.reg[v] # NONE
      BY <1>1, <1>2, <2>1
    <3>2. /\ NumberedOK(p)
          /\ InMemory(p, v)
          /\ \A u \in Var : p.reg[u] = rm.reg[u] \/ p.reg[u] = NONE
          /\ \A u \in Var : p.reg[u] # rm.reg[u] /\ ~IsFloat[u] => u = v \/ rm.exhausted
      BY <3>1, PurgeTakes
    <3> QED BY <3>2, <2>1
  <2>3. NumberedOK(rm)'
    BY <2>2 DEF NumberedOK, PoolCell, BankOf, Reserved, Bank
  <2>4. UntouchedOK'
    BY <2>2 DEF UseInv, UntouchedOK, IsGlobal
  <2>5. FlushedOK'
    <3>1. \A u \in Var : InMemory(rm, u) => InMemory(rm', u)
      BY <2>2, Numbers DEF InMemory
    <3>2. \A u \in entrySet \ todo' : Kind[u] = "GLOBAL_MEM" => InMemory(rm', u)
      BY <1>1, <2>2, <3>1 DEF UseInv, FlushedOK
    <3> QED BY <1>1, <3>2 DEF FlushedOK, InMemory, IntCell, Reserved, Bank
  <2>6. RegisterKept
    BY <1>1, <1>2, <2>2 DEF RegisterKept
  <2> QED BY <1>1, <2>3, <2>4, <2>5, <2>6 DEF UseInv, EventNumbered, ReleasedOK
<1>3. CASE ~(rm.reg[v] # NONE /\ Kind[v] = "GLOBAL_MEM")
  <2>1. rm' = rm
    BY <1>3
  <2>2. NumberedOK(rm)' /\ EventNumbered' /\ RegisterKept
    BY <2>1, ManagerUnchanged
  <2>3. Kind[v] = "GLOBAL_MEM" => InMemory(rm, v)
    BY <1>3, Numbers DEF InMemory
  <2>4. FlushedOK'
    BY <1>1, <2>1, <2>3 DEF UseInv, FlushedOK, InMemory, IntCell, Reserved, Bank
  <2>5. UntouchedOK'
    BY <2>1 DEF UseInv, UntouchedOK, IsGlobal
  <2> QED BY <2>2, <2>4, <2>5 DEF UseInv, ReleasedOK
<1> QED BY <1>2, <1>3

LEMMA PurgeVarUse ==
  ASSUME RegInv, UseInv, NEW v \in Var, PurgeVar(v)
  PROVE  UseInv' /\ RegisterKept
<1> USE DEF PurgeVar, Purge
<1>1. /\ rm \in Manager /\ NumberedOK(rm) /\ ManagerInv(rm, {NONE})
      /\ evnReg = NONE /\ todo \subseteq entrySet /\ entrySet \subseteq Var
  BY BeforeDone DEF RegInv, TypeOK, UseInv, ReleasedOK
<1>2. CASE rm.reg[v] # NONE /\ ~Resident(v)
  <2>1. rm' = PurgeFor(rm, v)
    BY <1>2 DEF PurgeFor, Resident
  <2>2. /\ NumberedOK(rm')
        /\ InMemory(rm', v)
        /\ \A u \in Var : rm'.reg[u] = rm.reg[u] \/ rm'.reg[u] = NONE
        /\ \A u \in Var : rm'.reg[u] # rm.reg[u] /\ ~IsFloat[u] => u = v \/ rm.exhausted
    <3> HIDE DEF PurgeVar, Purge
    <3> DEFINE p == PurgeFor(rm, v)
    <3>1. ManagerInv(rm, {NONE}) /\ NumberedOK(rm) /\ ~Resident(v) /\ rm.reg[v] # NONE
      BY <1>1, <1>2, <2>1
    <3>2. /\ NumberedOK(p)
          /\ InMemory(p, v)
          /\ \A u \in Var : p.reg[u] = rm.reg[u] \/ p.reg[u] = NONE
          /\ \A u \in Var : p.reg[u] # rm.reg[u] /\ ~IsFloat[u] => u = v \/ rm.exhausted
      BY <3>1, PurgeTakes
    <3> QED BY <3>2, <2>1
  <2>3. NumberedOK(rm)'
    BY <2>2 DEF NumberedOK, PoolCell, BankOf, Reserved, Bank
  <2>4. UntouchedOK'
    BY <2>2 DEF UseInv, UntouchedOK, IsGlobal
  <2>5. ReleasedOK'
    <3>1. \A u \in Var : InMemory(rm, u) => InMemory(rm', u)
      BY <2>2, Numbers DEF InMemory
    <3>2. \A u \in entrySet \ todo' : ~Resident(u) => InMemory(rm', u)
      BY <1>1, <2>2, <3>1 DEF UseInv, ReleasedOK
    <3> QED BY <1>1, <3>2 DEF ReleasedOK, InMemory, IntCell, Resident, Reserved, Bank
  <2>6. RegisterKept
    BY <1>1, <1>2, <2>2 DEF RegisterKept
  <2> QED BY <1>1, <2>3, <2>4, <2>5, <2>6 DEF UseInv, EventNumbered, FlushedOK
<1>3. CASE ~(rm.reg[v] # NONE /\ ~Resident(v))
  <2>1. rm' = rm
    BY <1>3 DEF Resident
  <2>2. NumberedOK(rm)' /\ EventNumbered' /\ RegisterKept
    BY <2>1, ManagerUnchanged
  <2>3. ~Resident(v) => InMemory(rm, v)
    BY <1>3, Numbers DEF InMemory
  <2>4. ReleasedOK'
    BY <1>1, <2>1, <2>3 DEF UseInv, ReleasedOK, InMemory, IntCell, Resident, Reserved, Bank
  <2>5. UntouchedOK'
    BY <2>1 DEF UseInv, UntouchedOK, IsGlobal
  <2> QED BY <2>2, <2>4, <2>5 DEF UseInv, FlushedOK
<1> QED BY <1>2, <1>3

\* UseInv is about the state of code generation only.
LEMMA StutterUse == UseInv /\ UNCHANGED vars => UseInv' /\ RegisterKept
BY DEF vars, UseInv, NumberedOK, EventNumbered, UntouchedOK, FlushedOK, ReleasedOK, InMemory,
       IsGlobal, Resident, IntCell, PoolCell, BankOf, Reserved, Bank, RegisterKept

\* Every step keeps UseInv, and takes a register away only in a flush or a purge.
LEMMA NextUse == RegInv /\ UseInv /\ [Next]_vars => UseInv' /\ RegisterKept
<1> SUFFICES ASSUME RegInv, UseInv, [Next]_vars PROVE UseInv' /\ RegisterKept
  OBVIOUS
<1>1. ASSUME NEW v \in Var, DeclareGlobal(v) PROVE UseInv' /\ RegisterKept
  BY <1>1, DeclareGlobalUse
<1>2. ASSUME NEW f \in Module, BeginModule(f) PROVE UseInv' /\ RegisterKept
  BY <1>2, BeginModuleUse
<1>3. CASE LoadParam
  BY <1>3, LoadParamUse
<1>4. CASE BodyStart
  BY <1>4, BodyStartUse
<1>5. ASSUME NEW op, NEW a \in Operand, NEW b \in Operand, NEW t \in Operand,
             GenQuad(op, a, b, t)
      PROVE  UseInv' /\ RegisterKept
  BY <1>5, GenQuadUse
<1>6. ASSUME NEW a \in Operand, NEW b \in Operand, GenJmpc(a, b) PROVE UseInv' /\ RegisterKept
  BY <1>6, GenJmpcUse
<1>7. ASSUME NEW t \in Operand, BeginCall(t) PROVE UseInv' /\ RegisterKept
  BY <1>7, BeginCallUse
<1>8. ASSUME NEW v \in Var, FlushVar(v) PROVE UseInv' /\ RegisterKept
  BY <1>8, FlushVarUse
<1>9. ASSUME NEW a \in Operand, NEW b \in Operand, PushArguments(a, b) PROVE UseInv' /\ RegisterKept
  BY <1>9, PushArgumentsUse
<1>10. CASE EndQuads
  BY <1>10, EndQuadsUse
<1>11. ASSUME NEW v \in Var, PurgeVar(v) PROVE UseInv' /\ RegisterKept
  BY <1>11, PurgeVarUse
<1>12. CASE EndModule
  BY <1>12, EndModuleUse
<1>13. CASE FetchEventReg
  BY <1>13, FetchEventRegUse
<1>14. CASE UNCHANGED vars
  BY <1>14, StutterUse
<1> QED BY <1>1, <1>2, <1>3, <1>4, <1>5, <1>6, <1>7, <1>8, <1>9, <1>10, <1>11,
           <1>12, <1>13, <1>14 DEF Next, Step

-----------------------------------------------------------------------------
(* What quadruples assigned to a global in memory is in its register until *)
(* a store of it is generated.                                             *)

StoreInv ==
  \A v \in unstored : Kind[v] = "GLOBAL_MEM" /\ (rm.exhausted \/ rm.reg[v] # NONE)

\* An operand has a register after its mention, or the fetch did not return.
LEMMA GetVERegNames ==
  ASSUME NEW m \in Manager, NEW v \in Var
  PROVE  GetVEReg(m, v).hung \/ GetVEReg(m, v).reg[v] # NONE
<1>1. CASE m.reg[v] # NONE
  BY <1>1 DEF GetVEReg
<1>2. CASE m.reg[v] = NONE
  <2>1. ASSUME NEW k \in Manager
        PROVE  FetchFor(k, v).hung \/ FetchFor(k, v).reg[v] # NONE
    <3> DEFINE b == BankOf(v)
               n == FetchedName(k, b)
               f == Fetch(k, b)
    <3>1. b \in Bank
      BY Numbers
    <3>2. n \in Name /\ f \in Manager /\ NONE \notin Name
      BY <3>1, FetchedNameIs, FetchIs, Numbers DEF Name
    <3>3. CASE f.hung
      BY <3>3 DEF FetchFor
    <3>4. CASE ~f.hung
      <4>1. FetchFor(k, v).reg = [f.reg EXCEPT ![v] = n]
        <5> HIDE DEF n, b, f
        <5>1. FetchFor(k, v) = [f EXCEPT !.reg[v] = n, !.regMap[b][n] = IF @ = NoVar THEN v ELSE @]
          BY <3>4 DEF FetchFor, f, n, b
        <5> QED BY <5>1, <3>2 DEF Manager
      <4> HIDE DEF n, f
      <4> QED BY <4>1, <3>2 DEF Manager
    <3> QED BY <3>3, <3>4
  <2>2. FetchFor(m, v) \in Manager
    BY FetchForIs
  <2> QED BY <1>2, <2>1, <2>2 DEF GetVEReg
<1> QED BY <1>1, <1>2

\* So has the target of a quadruple, whatever else is fetched for it.
LEMMA TargetNamed ==
  ASSUME NEW m \in Manager, NumberedOK(m), NEW op,
         NEW a \in Var \cup {NoVar}, NEW b \in Var \cup {NoVar}, NEW t \in Var
  PROVE  LET k == GetInstructionSet(m, op, a, b, t) IN k.exhausted \/ k.reg[t] # NONE
<1> DEFINE mb == InstructionParam(InstructionParam(m, a), b)
           n == InstructionParam(mb, t)
           k == GetInstructionSet(m, op, a, b, t)
<1>1. mb \in Manager /\ NumberedOK(mb)
  BY TwoParamsServe DEF Serves
<1>2. t # NoVar
  BY VarAssumption
<1>3. n = GetVEReg(mb, t)
  BY <1>2 DEF InstructionParam
<1>4. n.hung \/ n.reg[t] # NONE
  <2> HIDE DEF mb, n
  <2> QED BY <1>1, <1>3, GetVERegNames
<1>5. n \in Manager /\ NumberedOK(n)
  BY <1>1, InstructionParamType, InstructionParamServes DEF Serves
<1>6. k = n \/ k = ShiftScratch(n) \/ k = FloatScratch(n)
  BY DEF GetInstructionSet
<1>7. Serves(n, ShiftScratch(n), {}) /\ Serves(n, FloatScratch(n), {})
  BY <1>5, ShiftScratchServes, FloatScratchServes
<1>8. (n.exhausted => k.exhausted) /\ k.reg[t] = n.reg[t]
  <2> HIDE DEF n, k
  <2> QED BY <1>6, <1>7 DEF Serves, Gives
<1>9. n.exhausted \/ n.reg[t] # NONE
  <2> HIDE DEF n
  <2> QED BY <1>4, <1>5 DEF NumberedOK
<1> HIDE DEF n, k
<1> QED BY <1>8, <1>9 DEF k

\* A purge takes a global's register only with a store of that global.
LEMMA PurgeStores ==
  ASSUME NEW m, NEW X, ManagerInv(m, X), NEW v \in Var, m.reg[v] # NONE,
         NEW p, p = PurgeFor(m, v)
  PROVE  /\ p.exhausted = m.exhausted
         /\ \A u \in Var : Kind[u] = "GLOBAL_MEM" /\ p.reg[u] # m.reg[u]
                             => u \in StoredBy(m, BankOf(v), m.reg[v])
<1> DEFINE b == BankOf(v)
           n == m.reg[v]
           w == m.regMap[b][n]
<1>1. m \in Manager /\ b \in Bank /\ n \in Name
  BY Numbers DEF ManagerInv, Manager
<1>2. p.reg = (IF TRUE /\ w # NoVar THEN [m.reg EXCEPT ![w] = NONE] ELSE m.reg) /\ p.exhausted = m.exhausted
  BY <1>1 DEF PurgeFor, PurgeReg, Manager
<1>3. w \in Var \cup {NoVar}
  BY <1>1 DEF Manager
<1>4. \A u \in Var : p.reg[u] # m.reg[u] => u = w /\ w # NoVar
  BY <1>1, <1>2, <1>3 DEF Manager
<1>5. StoredBy(m, b, n) = IF w # NoVar /\ Kind[w] = "GLOBAL_MEM" THEN {w} ELSE {}
  BY DEF StoredBy
<1> HIDE DEF w
<1> QED BY <1>2, <1>4, <1>5

\* The manager of the next state, when it only gives registers.
LEMMA GivenStored ==
  ASSUME RegInv, StoreInv, unstored' = unstored, rm.exhausted => rm'.exhausted,
         NEW S, Gives(rm, rm', S)
  PROVE  StoreInv'
BY DEF StoreInv, Gives, RegInv, TypeOK

\* The purge of a variable, in a flush or at the end of a module.
LEMMA PurgeStore ==
  ASSUME RegInv, StoreInv, NEW v \in Var, rm.reg[v] # NONE, Purge(v), ManagerInv(rm, {NONE})
  PROVE  StoreInv'
<1> USE DEF Purge
<1>1. rm' = PurgeFor(rm, v)
  BY DEF PurgeFor
<1>2. /\ rm'.exhausted = rm.exhausted
      /\ \A u \in Var : Kind[u] = "GLOBAL_MEM" /\ rm'.reg[u] # rm.reg[u]
                          => u \in StoredBy(rm, BankOf(v), rm.reg[v])
  <2> HIDE DEF Purge
  <2> QED BY <1>1, PurgeStores
<1>3. unstored' = unstored \ StoredBy(rm, BankOf(v), rm.reg[v]) /\ unstored \subseteq Var
  BY DEF RegInv, TypeOK
<1> HIDE DEF Purge
<1> QED BY <1>2, <1>3 DEF StoreInv

\* Every step keeps StoreInv.
LEMMA NextStore ==
  ASSUME RegInv, UseInv, StoreInv, [Next]_vars
  PROVE  StoreInv'
<1>1. rm \in Manager /\ NumberedOK(rm) /\ unstored \subseteq Var
  BY DEF RegInv, TypeOK, UseInv
<1>2. ASSUME UNCHANGED <<rm, unstored>> PROVE StoreInv'
  BY <1>2 DEF StoreInv
<1>3. ASSUME NEW v \in Var, DeclareGlobal(v) PROVE StoreInv'
  <2>1. BankOf(v) \in Bank
    BY Numbers
  <2>2. LET f == Fetch(rm, BankOf(v)) IN f.reg = rm.reg /\ f \in Manager /\ (rm.exhausted => f.exhausted)
    BY <1>1, <2>1, FetchIs, FetchNumbered
  <2>3. FetchResident(rm, v).exhausted = Fetch(rm, BankOf(v)).exhausted
    BY <2>2 DEF FetchResident, Manager
  <2>4. \A u \in Var : u # v => FetchResident(rm, v).reg[u] = rm.reg[u]
    BY <2>2 DEF FetchResident, Manager
  <2>5. CASE Kind[v] = "GLOBAL_REG"
    BY <1>1, <1>3, <2>2, <2>3, <2>4, <2>5 DEF DeclareGlobal, StoreInv
  <2>6. CASE Kind[v] # "GLOBAL_REG"
    BY <1>2, <1>3, <2>6 DEF DeclareGlobal
  <2> QED BY <2>5, <2>6
<1>4. CASE LoadParam
  <2> DEFINE v == Head(params)
  <2>1. v \in Var /\ rm.reg[v] = NONE /\ rm' = FetchFor(rm, v) /\ unstored' = unstored
    BY <1>4 DEF LoadParam, RegInv, TypeOK, UseInv, UntouchedOK
  <2>2. \A u \in Var : u # v => rm'.reg[u] = rm.reg[u]
    BY <1>1, <2>1, FetchForOthers
  <2>3. rm.exhausted => rm'.exhausted
    BY <1>1, <2>1, FetchForNumbered
  <2> HIDE DEF v
  <2> QED BY <2>1, <2>2, <2>3, GivenStored DEF Gives
<1>5. ASSUME NEW op, NEW a \in Operand, NEW b \in Operand, NEW t \in Operand, GenQuad(op, a, b, t)
      PROVE  StoreInv'
  <2>1. {a, b, t} \subseteq Var \cup {NoVar}
    BY <1>5, InModule DEF GenQuad
  <2>2. rm' = GetInstructionSet(rm, op, a, b, t) /\ unstored' = unstored \cup MemoryGlobals({t})
    BY <1>5 DEF GenQuad
  <2>3. Serves(rm, rm', {a, b, t})
    BY <1>1, <2>1, <2>2, GetInstructionSetServes
  <2>4. \A v \in MemoryGlobals({t}) : v = t /\ t \in Var /\ Kind[v] = "GLOBAL_MEM"
    BY <2>1 DEF MemoryGlobals, Entries
  <2>5. t \in Var => rm'.exhausted \/ rm'.reg[t] # NONE
    BY <1>1, <2>1, <2>2, TargetNamed
  <2> QED BY <1>1, <2>2, <2>3, <2>4, <2>5 DEF StoreInv, Serves, Gives
<1>6. ASSUME NEW a \in Operand, NEW b \in Operand, GenJmpc(a, b) PROVE StoreInv'
  <2>1. {a, b} \subseteq Var \cup {NoVar}
    BY <1>6, InModule DEF GenJmpc
  <2>2. Serves(rm, rm', {a, b}) /\ unstored' = unstored
    BY <1>1, <1>6, <2>1, TwoParamsServe DEF GenJmpc
  <2> QED BY <2>2, GivenStored DEF Serves
<1>7. ASSUME NEW t \in Operand, BeginCall(t) PROVE StoreInv'
  <2>1. t \in Var \cup {NoVar}
    BY <1>7, InModule DEF BeginCall
  <2>2. Serves(rm, rm', {t}) /\ unstored' = unstored
    BY <1>1, <1>7, <2>1, InstructionParamServes DEF BeginCall
  <2> QED BY <2>2, GivenStored DEF Serves
<1>8. ASSUME NEW v \in Var, FlushVar(v) PROVE StoreInv'
  <2>1. ManagerInv(rm, {NONE})
    BY <1>8, InModule DEF FlushVar
  <2> QED BY <1>2, <1>8, <2>1, PurgeStore DEF FlushVar
<1>9. ASSUME NEW a \in Operand, NEW b \in Operand, PushArguments(a, b) PROVE StoreInv'
  <2>1. {a, b} \subseteq Var \cup {NoVar}
    BY <1>9, InModule DEF PushArguments
  <2>2. Serves(rm, rm', {b, a}) /\ unstored' = unstored
    BY <1>1, <1>9, <2>1, TwoParamsServe DEF PushArguments
  <2> QED BY <2>2, GivenStored DEF Serves
<1>10. ASSUME NEW v \in Var, PurgeVar(v) PROVE StoreInv'
  <2>1. ManagerInv(rm, {NONE})
    BY <1>10, InModule DEF PurgeVar
  <2> QED BY <1>2, <1>10, <2>1, PurgeStore DEF PurgeVar
<1>11. CASE FetchEventReg
  <2>1. "R" \in Bank
    BY DEF Bank
  <2>2. rm'.reg = rm.reg /\ (rm.exhausted => rm'.exhausted) /\ unstored' = unstored
    BY <1>1, <1>11, <2>1, FetchIs, FetchNumbered DEF FetchEventReg
  <2> QED BY <2>2, GivenStored DEF Gives
<1>12. CASE BodyStart \/ EndQuads \/ EndModule \/ UNCHANGED vars \/ \E f \in Module : BeginModule(f)
  BY <1>2, <1>12 DEF BodyStart, EndQuads, EndModule, vars, BeginModule
<1> QED BY <1>3, <1>4, <1>5, <1>6, <1>7, <1>8, <1>9, <1>10, <1>11, <1>12 DEF Next, Step

\* A variable that gave up its cell has been stored, unless a pool ran dry.
LEMMA StoredOut ==
  ASSUME UseInv, StoreInv, NEW v \in Var, ~IsFloat[v], rm.reg[v] \notin IntCell
  PROVE  Stored(v)
BY PoolNumbers DEF Stored, StoreInv, UseInv, NumberedOK, BankOf, PoolCell, IntCell

-----------------------------------------------------------------------------
(* The theorems.                                                           *)

\* UseInv holds throughout every compilation.
THEOREM UseInvariance == Spec => []UseInv
<1>1. RegInv /\ UseInv /\ [Next]_vars => UseInv'
  BY NextUse
<1> QED BY InitUse, <1>1, Invariance, PTL DEF Spec

\* As long as no pool has run dry, no variable and no event loop is given a
\* special register, and every fetch returns: SpecialSafe of CodeGenRegs.
THEOREM Numbering == Spec => []SpecialSafe
<1>1. RegInv /\ UseInv => SpecialSafe
  <2> SUFFICES ASSUME RegInv, UseInv, ~rm.exhausted
               PROVE  /\ \A v \in Var : rm.reg[v] # NONE => rm.reg[v] >= Reserved[BankOf(v)]
                      /\ evnReg # NONE => evnReg >= Reserved["R"]
                      /\ ~rm.hung
    BY DEF SpecialSafe
  <2>1. \A b \in Bank : Reserved[b] \in Int
    BY Numbers
  <2>2. \A v \in Var : rm.reg[v] # NONE => PoolCell(BankOf(v), rm.reg[v])
    BY DEF UseInv, NumberedOK
  <2>3. evnReg # NONE => PoolCell("R", evnReg)
    BY DEF UseInv, EventNumbered
  <2>4. ~rm.hung
    BY DEF UseInv, NumberedOK
  <2> QED BY <2>1, <2>2, <2>3, <2>4, Numbers, RegAssumption DEF PoolCell, Bank
<1> QED BY <1>1, Invariance, UseInvariance, PTL

\* StoreInv holds throughout every compilation.
THEOREM StoreInvariance == Spec => []StoreInv
<1>1. Init => StoreInv
  BY DEF Init, StoreInv
<1>2. RegInv /\ UseInv /\ StoreInv /\ [Next]_vars => StoreInv'
  BY NextStore
<1> QED BY <1>1, <1>2, Invariance, UseInvariance, PTL DEF Spec

\* When the arguments of a call are pushed, the integer globals in memory of
\* entrySet have given up their registers, and a store of what quadruples
\* assigned to them is generated, unless a pool has run dry; the store is not
\* one the assembler takes: GlobalsFlushed of CodeGenRegs.
THEOREM Flushed == Spec => []GlobalsFlushed
<1>1. RegInv /\ UseInv /\ StoreInv => GlobalsFlushed
  <2> SUFFICES ASSUME RegInv, UseInv, StoreInv, pc = "flush", todo = {},
                      NEW v \in entrySet, ~IsFloat[v], Kind[v] = "GLOBAL_MEM"
               PROVE  rm.reg[v] \notin IntCell /\ Stored(v)
    BY DEF GlobalsFlushed
  <2>1. v \in Var /\ rm.reg[v] \notin IntCell
    BY DEF RegInv, TypeOK, UseInv, FlushedOK, InMemory
  <2> QED BY <2>1, StoredOut
<1> QED BY <1>1, Invariance, UseInvariance, StoreInvariance, PTL

\* Between two modules, the integer variables of the last entrySet that do
\* not live in a register have given theirs back: ReleasedAtEnd of CodeGenRegs.
THEOREM Released == Spec => []ReleasedAtEnd
<1>1. RegInv /\ UseInv /\ StoreInv => ReleasedAtEnd
  <2> SUFFICES ASSUME RegInv, UseInv, StoreInv, pc = "symtab",
                      NEW v \in entrySet, ~IsFloat[v], Kind[v] # "GLOBAL_REG"
               PROVE  rm.reg[v] \notin IntCell /\ Stored(v)
    BY DEF ReleasedAtEnd
  <2>1. v \in Var /\ rm.reg[v] \notin IntCell
    BY DEF RegInv, TypeOK, UseInv, ReleasedOK, InMemory, Resident
  <2> QED BY <2>1, StoredOut
<1> QED BY <1>1, Invariance, UseInvariance, StoreInvariance, PTL

\* A register that generated code names stays its variable's until the
\* purges of RegisterKept, whatever is generated in between: RegisterStable
\* of CodeGenRegs.
THEOREM Stability == Spec => RegisterStable
<1>1. RegInv /\ UseInv /\ [Next]_vars => RegisterKept
  BY NextUse
<1>2. RegInv /\ UseInv /\ [Next]_vars => [RegisterKept]_vars
  BY <1>1
<1> QED BY <1>2, Invariance, UseInvariance, PTL DEF Spec, RegisterStable

=============================================================================

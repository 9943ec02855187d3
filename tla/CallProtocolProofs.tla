------------------------- MODULE CallProtocolProofs -------------------------
(***************************************************************************)
(* What the calling convention does, for every program: whatever its call  *)
(* sites, its functions and their registers, the depth of the recursion    *)
(* and the size of the memory, up to and with the first return from a call *)
(* with late arguments.                                                    *)
(*                                                                         *)
(* FramesIntact says what the last frame and its callers' look like; it is *)
(* not inductive.  A push must be known to stay below every older frame    *)
(* (Ordered), and a reload to find values, not labels (SavedValues).       *)
(***************************************************************************)
EXTENDS CallProtocol, FiniteSetTheorems, SequenceTheorems, TLAPS

-----------------------------------------------------------------------------
(* The cells of a set of pointers.                                         *)

LEMMA SavedFinite ==
  ASSUME NEW s \in Site
  PROVE  /\ Saved(s) \subseteq Locals[Call[s].from] /\ Saved(s) \subseteq Var
         /\ IsFiniteSet(Saved(s)) /\ Cardinality(Saved(s)) \in Nat
<1>1. Saved(s) \subseteq Locals[Call[s].from] /\ Locals[Call[s].from] \subseteq Var
  BY ProgramAssumption DEF Saved
<1>2. IsFiniteSet(Saved(s))
  BY <1>1, ProgramAssumption, FS_Subset
<1> QED BY <1>1, <1>2, FS_CardinalityType

LEMMA SlotIs ==
  ASSUME NEW S \in SUBSET Var, NEW v \in S
  PROVE  /\ Slot(S, v) \in 1 .. Cardinality(S)
         /\ \A u \in S : Slot(S, u) = Slot(S, v) => u = v
<1> DEFINE Below(u) == { w \in S : Address[w] <= Address[u] }
<1>1. IsFiniteSet(S) /\ Cardinality(S) \in Nat
  BY ProgramAssumption, FS_Subset, FS_CardinalityType
<1>2. \A u \in S : Address[u] \in Nat
  BY RegisterAssumption
<1>3. \A u \in S : /\ IsFiniteSet(Below(u)) /\ Cardinality(Below(u)) \in Nat
                   /\ Cardinality(Below(u)) <= Cardinality(S)
  <2> TAKE u \in S
  <2>1. Below(u) \in SUBSET S
    OBVIOUS
  <2> HIDE DEF Below
  <2> QED BY <2>1, <1>1, FS_Subset, FS_CardinalityType
<1>4. v \in Below(v)
  BY <1>2
<1>5. Cardinality(Below(v)) # 0
  BY <1>3, <1>4, FS_EmptySet
<1>6. ASSUME NEW u \in S, NEW w \in S, Address[u] < Address[w]
      PROVE  Cardinality(Below(u)) # Cardinality(Below(w))
  <2>1. Below(u) \in SUBSET Below(w) /\ w \in Below(w) /\ w \notin Below(u)
    BY <1>2, <1>6
  <2> HIDE DEF Below
  <2> QED BY <2>1, <1>3, FS_Subset
<1>7. \A u \in S : Slot(S, u) = Cardinality(Below(u))
  BY DEF Slot
<1>8. ASSUME NEW u \in S, Slot(S, u) = Slot(S, v) PROVE u = v
  <2>1. ~(Address[u] < Address[v]) /\ ~(Address[v] < Address[u])
    BY <1>6, <1>7, <1>8
  <2>2. Address[u] = Address[v]
    BY <2>1, <1>2
  <2> QED BY <2>2, RegisterAssumption
<1> HIDE DEF Below
<1> QED BY <1>1, <1>3, <1>5, <1>7, <1>8

\* Every slot is taken.
LEMMA SlotOnto ==
  ASSUME NEW S \in SUBSET Var, NEW i \in 1 .. Cardinality(S)
  PROVE  \E v \in S : Slot(S, v) = i
<1> DEFINE T == 1 .. Cardinality(S)
           f == [v \in S |-> Slot(S, v)]
<1>1. IsFiniteSet(S) /\ Cardinality(S) \in Nat
  BY ProgramAssumption, FS_Subset, FS_CardinalityType
<1>2. IsFiniteSet(T) /\ Cardinality(T) = Cardinality(S)
  BY <1>1, FS_Interval
<1>3. \A v \in S : Slot(S, v) \in T
  BY SlotIs
<1>4. \A u, v \in S : Slot(S, u) = Slot(S, v) => u = v
  BY SlotIs
<1> HIDE DEF T
<1>5. f \in Injection(S, T)
  BY <1>3, <1>4 DEF Injection, IsInjective
<1> HIDE DEF f
<1>6. f \in Surjection(S, T)
  BY <1>1, <1>2, <1>5, FS_Injection
<1> QED BY <1>6 DEF Surjection, f, T

\* The registers of a call lie above its arguments and do not share cells.
LEMMA SlotCells ==
  ASSUME NEW s \in Site, NEW a \in Int, NEW v \in Saved(s)
  PROVE  /\ SlotCell(Saved(s), v, a) \in a - Cardinality(Saved(s)) + 1 .. a
         /\ \A u \in Saved(s) :
              SlotCell(Saved(s), u, a) = SlotCell(Saved(s), v, a) => u = v
<1>1. Saved(s) \in SUBSET Var /\ Cardinality(Saved(s)) \in Nat
  BY SavedFinite
<1>2. \A u \in Saved(s) : Slot(Saved(s), u) \in 1 .. Cardinality(Saved(s))
  BY <1>1, SlotIs
<1>3. \A u \in Saved(s) : Slot(Saved(s), u) = Slot(Saved(s), v) => u = v
  BY <1>1, SlotIs
<1> QED BY <1>1, <1>2, <1>3 DEF SlotCell

LEMMA SiteIs ==
  ASSUME NEW s \in Site
  PROVE  /\ Call[s].from \in Fun /\ Call[s].to \in Fun \ {Main}
         /\ Call[s].args \in Seq(Var \cup Value)
         /\ Len(Call[s].args) = Len(Formals[Call[s].to])
         /\ Len(Call[s].args) \in Nat
         /\ DOMAIN Call[s].args = 1 .. Len(Call[s].args)
         /\ DOMAIN Formals[Call[s].to] = DOMAIN Call[s].args
         /\ FrameSize(s) \in Nat /\ FrameSize(s) >= 2 + Len(Call[s].args)
<1>1. /\ Call[s] \in [from : Fun, to : Fun \ {Main}, args : Seq(Var \cup Value),
                        result : Var \cup {NoVar}, entry : SUBSET Var]
      /\ Len(Call[s].args) = Len(Formals[Call[s].to])
  BY ProgramAssumption
<1>2. /\ Call[s].from \in Fun /\ Call[s].to \in Fun \ {Main}
      /\ Call[s].args \in Seq(Var \cup Value)
  BY <1>1
<1>3. Formals[Call[s].to] \in Seq(Var)
  BY <1>2, ProgramAssumption
<1>4. Cardinality(Saved(s)) \in Nat
  BY SavedFinite
<1>5. /\ Len(Call[s].args) \in Nat /\ DOMAIN Call[s].args = 1 .. Len(Call[s].args)
      /\ DOMAIN Formals[Call[s].to] = 1 .. Len(Formals[Call[s].to])
  <2>1. \A S : \A q \in Seq(S) : Len(q) \in Nat /\ DOMAIN q = 1 .. Len(q)
    OBVIOUS
  <2> QED BY <2>1, <1>2, <1>3
<1>6. FrameSize(s) \in Nat /\ FrameSize(s) >= 2 + Len(Call[s].args)
  <2>1. \A i, j \in Nat : 2 + i + j \in Nat /\ 2 + i + j >= 2 + i
    OBVIOUS
  <2> QED BY <2>1, <1>4, <1>5 DEF FrameSize
<1> QED BY <1>1, <1>2, <1>5, <1>6

\* The reload takes off what the flush put on, and one cell more for every
\* late argument.
LEMMA LateIs ==
  ASSUME NEW s \in Site
  PROVE  /\ Kept(s) \subseteq Saved(s) /\ Reloaded(s) \subseteq Locals[Call[s].from]
         /\ Reloaded(s) \subseteq Var
         /\ Cardinality(Late(s)) \in Nat /\ (Late(s) # {} => Cardinality(Late(s)) # 0)
         /\ Cardinality(Reloaded(s)) = Cardinality(Saved(s)) + Cardinality(Late(s))
         /\ Late(s) = {} => Reloaded(s) = Saved(s)
<1>1. Reloaded(s) = Saved(s) \cup Late(s) /\ Saved(s) \cap Late(s) = {}
  BY DEF Reloaded, Saved, Late
<1>2. Late(s) \subseteq Locals[Call[s].from]
  <2>1. \A i \in DOMAIN Call[s].args : Call[s].args[i] \in Locals[Call[s].from] \cup Global \cup Value
    BY ProgramAssumption
  <2>2. Var \cap Value = {}
    BY ProgramAssumption
  <2> QED BY <2>1, <2>2 DEF Late, Operands
<1>3. Saved(s) \subseteq Locals[Call[s].from] /\ Locals[Call[s].from] \subseteq Var
  BY SavedFinite, SiteIs, ProgramAssumption
<1>4. IsFiniteSet(Saved(s)) /\ Cardinality(Saved(s)) \in Nat
  BY SavedFinite
<1>5. IsFiniteSet(Late(s)) /\ Cardinality(Late(s)) \in Nat
  <2>1. Late(s) \in SUBSET Var
    BY <1>2, <1>3
  <2> QED BY <2>1, ProgramAssumption, FS_Subset, FS_CardinalityType
<1>6. Late(s) # {} => Cardinality(Late(s)) # 0
  BY <1>5, FS_EmptySet
<1>7. Cardinality(Reloaded(s)) = Cardinality(Saved(s)) + Cardinality(Late(s))
  <2>1. Cardinality(Saved(s) \cap Late(s)) = 0
    BY <1>1, FS_EmptySet
  <2>2. Cardinality(Saved(s) \cup Late(s))
          = Cardinality(Saved(s)) + Cardinality(Late(s)) - Cardinality(Saved(s) \cap Late(s))
    BY <1>4, <1>5, FS_Union
  <2> QED BY <1>1, <1>4, <1>5, <2>1, <2>2
<1>8. Kept(s) \subseteq Saved(s)
  BY DEF Kept
<1> QED BY <1>1, <1>2, <1>3, <1>5, <1>6, <1>7, <1>8

\* Where the reload finds them.
LEMMA ReloadCells ==
  ASSUME NEW s \in Site, NEW a \in Int, NEW v \in Reloaded(s)
  PROVE  SlotCell(Reloaded(s), v, a) \in a - Cardinality(Reloaded(s)) + 1 .. a
<1>1. Reloaded(s) \in SUBSET Var /\ Cardinality(Reloaded(s)) \in Nat
  BY LateIs, SavedFinite
<1>2. Slot(Reloaded(s), v) \in 1 .. Cardinality(Reloaded(s))
  BY <1>1, SlotIs
<1> QED BY <1>1, <1>2 DEF SlotCell

-----------------------------------------------------------------------------
(* The inductive invariant.                                                *)

\* Older frames lie above younger ones.
Ordered ==
  \A i \in Pending :
    /\ Base(i) >= 0 /\ Level <= Base(i)
    /\ \A j \in Pending : i < j => calls[j].sp <= Base(i)

\* Each call was made by the function the call before it entered.
Chained ==
  \A i \in Pending :
    /\ Call[calls[i].site].from = IF i = 1 THEN Main ELSE Call[calls[i - 1].site].to
    /\ calls[i].env \in [Kept(calls[i].site) -> Value]

\* What a reload will find is a value.
SavedValues ==
  \A i \in Pending : \A v \in Saved(calls[i].site) :
    mem[SlotCell(Saved(calls[i].site), v, calls[i].sp)] \in Value

CallInv == TypeOK /\ FramesIntact /\ Ordered /\ Chained /\ SavedValues

LEMMA StraightIs ==
  ASSUME TypeOK, Straight
  PROVE  reg \in [Reg -> Value] /\ sp = Level
BY DEF TypeOK, Straight

-----------------------------------------------------------------------------
(* A call.                                                                 *)

\* What CallFrom writes: the control link, the label, the arguments and the
\* registers, into the cells below SP and no others.
LEMMA Pushed ==
  ASSUME TypeOK, NEW s \in Site, CallFrom(s)
  PROVE  LET base == sp - FrameSize(s)
         IN  /\ base \in Cells /\ base + 2 <= sp
             /\ mem' \in [Cells -> Word]
             /\ mem'[base + 1] = bp
             /\ mem'[base + 2] = s
             /\ \A i \in DOMAIN Call[s].args : mem'[base + 2 + i] = Operand(Call[s].args[i])
             /\ \A v \in Saved(s) : mem'[SlotCell(Saved(s), v, sp)] = reg[RegOf[v]]
             /\ \A a \in Cells : a > sp => mem'[a] = mem[a]
<1> DEFINE base == sp - FrameSize(s)
           n == Len(Call[s].args)
           k == Cardinality(Saved(s))
<1>1. /\ n \in Nat /\ DOMAIN Call[s].args = 1 .. n
      /\ Call[s].args \in Seq(Var \cup Value) /\ FrameSize(s) \in Nat
  BY SiteIs
<1>2. k \in Nat /\ FrameSize(s) = 2 + n + k /\ Saved(s) \subseteq Var
  BY SavedFinite DEF FrameSize
<1>3. sp \in Int /\ sp \in 0 .. TopCell /\ TopCell \in Nat
  BY MemoryAssumption DEF TypeOK, Cells
<1>b. reg \in [Reg -> Value]
  BY StraightIs DEF CallFrom
<1>4. base >= 0 /\ mem' = [a \in Cells |-> IF a \in base + 1 .. sp THEN FrameWord(s, base, a) ELSE mem[a]]
  BY DEF CallFrom
<1>5. base \in Cells /\ base + 2 <= sp /\ base = sp - 2 - n - k
  <2>1. base = sp - FrameSize(s)
    OBVIOUS
  <2> HIDE DEF base, n, k
  <2>2. base = sp - (2 + n + k)
    BY <2>1, <1>2
  <2> QED BY <2>2, <1>1, <1>2, <1>3, <1>4 DEF Cells
<1> HIDE DEF base, n, k
<1>a. base \in Int /\ n \in Nat /\ sp \in Int
  BY <1>1, <1>3, <1>5 DEF Cells
<1>6. \A i \in 1 .. n : Operand(Call[s].args[i]) \in Value
  BY <1>1, <1>b, RegisterAssumption DEF Operand
<1>7. \A v \in Saved(s) : SlotCell(Saved(s), v, sp) \in base + 3 + n .. sp
  <2>1. \A v \in Saved(s) : SlotCell(Saved(s), v, sp) \in sp - k + 1 .. sp
    BY <1>3, SlotCells DEF k
  <2>2. base + 3 + n = sp - k + 1
    BY <1>1, <1>2, <1>3, <1>5
  <2> QED BY <2>1, <2>2
<1>8. \A v \in Saved(s) : FrameWord(s, base, SlotCell(Saved(s), v, sp)) = reg[RegOf[v]]
  <2> TAKE v \in Saved(s)
  <2> DEFINE a == SlotCell(Saved(s), v, sp)
  <2>1. a \in base + 3 + n .. sp
    BY <1>7
  <2>2. v = CHOOSE u \in Saved(s) : a = SlotCell(Saved(s), u, sp)
    BY <1>3, SlotCells
  <2> HIDE DEF a
  <2>3. a # base + 1 /\ a # base + 2 /\ ~(a <= base + 2 + n)
    BY <2>1, <1>a
  <2>4. FrameWord(s, base, a) = reg[RegOf[CHOOSE u \in Saved(s) : a = SlotCell(Saved(s), u, sp)]]
    BY <2>3 DEF FrameWord, n
  <2> QED BY <2>2, <2>4 DEF a
<1>9. \A i \in 1 .. n : FrameWord(s, base, base + 2 + i) = Operand(Call[s].args[i])
  <2> TAKE i \in 1 .. n
  <2> DEFINE a == base + 2 + i
  <2>1. a # base + 1 /\ a # base + 2 /\ a <= base + 2 + n /\ a - base - 2 = i
    BY <1>a
  <2> HIDE DEF a
  <2>2. FrameWord(s, base, a) = Operand(Call[s].args[a - base - 2])
    BY <2>1 DEF FrameWord, n
  <2> QED BY <2>1, <2>2 DEF a
<1>10. FrameWord(s, base, base + 1) = bp /\ FrameWord(s, base, base + 2) = s
  BY <1>5 DEF FrameWord, Cells
<1>11. \A a \in base + 1 .. sp : FrameWord(s, base, a) \in Word
  <2> TAKE a \in base + 1 .. sp
  <2>1. CASE a = base + 1
    BY <2>1, <1>10 DEF TypeOK, Word
  <2>2. CASE a = base + 2
    BY <2>2, <1>10 DEF Word
  <2>3. CASE a > base + 2 /\ a <= base + 2 + n
    <3>1. a - base - 2 \in 1 .. n
      BY <2>3, <1>1, <1>5 DEF Cells
    <3>2. a # base + 1 /\ a # base + 2
      BY <2>3, <1>5 DEF Cells
    <3>3. FrameWord(s, base, a) = Operand(Call[s].args[a - base - 2])
      BY <2>3, <3>2 DEF FrameWord, n
    <3> QED BY <3>1, <3>3, <1>6 DEF Word
  <2>4. CASE a > base + 2 + n
    <3>1. a # base + 1 /\ a # base + 2 /\ ~(a <= base + 2 + n)
      BY <2>4, <1>1, <1>5 DEF Cells
    <3>2. PICK v \in Saved(s) : a = SlotCell(Saved(s), v, sp)
      <4>1. sp + 1 - a \in 1 .. k
        BY <2>4, <1>1, <1>2, <1>3, <1>5
      <4>2. PICK v \in Saved(s) : Slot(Saved(s), v) = sp + 1 - a
        BY <4>1, <1>2, SlotOnto DEF k
      <4>3. a = SlotCell(Saved(s), v, sp)
        BY <4>2, <1>3, <1>5 DEF SlotCell, Cells
      <4> QED BY <4>3
    <3>3. FrameWord(s, base, a) = reg[RegOf[v]]
      BY <3>2, <1>8
    <3> QED BY <3>3, <1>2, <1>b, RegisterAssumption DEF Word
  <2> QED BY <2>1, <2>2, <2>3, <2>4, <1>1, <1>3, <1>5, SMTT(30) DEF Cells
<1>12. mem' \in [Cells -> Word]
  BY <1>4, <1>11 DEF TypeOK, base
<1>13. \A a \in base + 1 .. sp : a \in Cells /\ mem'[a] = FrameWord(s, base, a)
  BY <1>3, <1>4, <1>5 DEF Cells, base
<1>14. mem'[base + 1] = bp /\ mem'[base + 2] = s
  BY <1>3, <1>5, <1>10, <1>13 DEF Cells
<1>15. \A i \in 1 .. n : mem'[base + 2 + i] = Operand(Call[s].args[i])
  BY <1>1, <1>2, <1>3, <1>5, <1>9, <1>13 DEF Cells
<1>16. \A v \in Saved(s) : mem'[SlotCell(Saved(s), v, sp)] = reg[RegOf[v]]
  <2> TAKE v \in Saved(s)
  <2> DEFINE a == SlotCell(Saved(s), v, sp)
  <2>1. a \in base + 1 .. sp
    <3>1. a \in base + 3 + n .. sp
      BY <1>7
    <3> HIDE DEF a
    <3> QED BY <3>1, <1>1, <1>a
  <2>2. mem'[a] = FrameWord(s, base, a)
    BY <2>1, <1>13
  <2> QED BY <2>2, <1>8
<1>17. \A a \in Cells : a > sp => mem'[a] = mem[a]
  BY <1>3, <1>4
<1> QED BY <1>1, <1>5, <1>12, <1>14, <1>15, <1>16, <1>17 DEF base

\* Where the frame of a pending call lies.
LEMMA FrameCells ==
  ASSUME TypeOK, Ordered, NEW i \in Pending
  PROVE  LET s == calls[i].site IN
         /\ s \in Site /\ calls[i].sp \in Cells /\ calls[i].bp \in Cells \cup {Junk}
         /\ Base(i) \in Cells /\ Base(i) + 2 <= calls[i].sp
         /\ Base(i) + 1 \in Cells /\ Base(i) + 2 \in Cells
         /\ \A v \in Saved(s) : /\ SlotCell(Saved(s), v, calls[i].sp) \in Cells
                                /\ SlotCell(Saved(s), v, calls[i].sp) > Base(i) + 2
<1> DEFINE s == calls[i].site
           k == Cardinality(Saved(s))
           n == Len(Call[s].args)
           top == calls[i].sp
<1>1. calls[i] \in PendingCall
  BY DEF TypeOK, Pending
<1>2. s \in Site /\ top \in Cells /\ calls[i].bp \in Cells \cup {Junk}
  BY <1>1 DEF PendingCall
<1>3. n \in Nat /\ k \in Nat /\ FrameSize(s) = 2 + n + k
  BY <1>2, SiteIs, SavedFinite DEF FrameSize
<1>4. Base(i) = top - FrameSize(s) /\ Base(i) >= 0
  BY DEF Ordered, Base
<1>5. \A v \in Saved(s) : SlotCell(Saved(s), v, top) \in top - k + 1 .. top
  BY <1>2, SlotCells, MemoryAssumption DEF Cells
<1> HIDE DEF s, k, n, top
<1>6. Base(i) = top - (2 + n + k) /\ top \in 0 .. TopCell /\ TopCell \in Nat
  BY <1>2, <1>3, <1>4, MemoryAssumption DEF Cells
<1>7. \A v \in Saved(s) : /\ SlotCell(Saved(s), v, top) \in Cells
                          /\ SlotCell(Saved(s), v, top) > Base(i) + 2
  BY <1>3, <1>4, <1>5, <1>6 DEF Cells
<1>8. /\ Base(i) \in Cells /\ Base(i) + 2 <= top
      /\ Base(i) + 1 \in Cells /\ Base(i) + 2 \in Cells
  BY <1>3, <1>4, <1>6 DEF Cells
<1> QED BY <1>2, <1>7, <1>8 DEF s, top

LEMMA LoadParamsType ==
  ASSUME TypeOK, NEW s \in Site, CallFrom(s)
  PROVE  reg' \in [Reg -> Value]
<1> DEFINE base == sp - FrameSize(s)
           f == Call[s].to
<1>1. /\ DOMAIN Formals[f] = DOMAIN Call[s].args
      /\ Call[s].args \in Seq(Var \cup Value)
  BY SiteIs
<1>2. \A i \in DOMAIN Call[s].args : mem'[base + 2 + i] = Operand(Call[s].args[i])
  BY Pushed
<1>3. /\ \A i \in DOMAIN Call[s].args : Operand(Call[s].args[i]) \in Value
      /\ reg \in [Reg -> Value]
  BY <1>1, StraightIs, RegisterAssumption DEF Operand, CallFrom
<1>4. reg' = LoadParams(f, base, mem')
  BY DEF CallFrom
<1> HIDE DEF base, f
<1>5. \A i \in DOMAIN Formals[f] : mem'[base + 2 + i] \in Value
  BY <1>1, <1>2, <1>3
<1> QED BY <1>3, <1>4, <1>5 DEF LoadParams

LEMMA CallFromInv ==
  ASSUME CallInv, NEW s \in Site, CallFrom(s)
  PROVE  CallInv'
<1>0. PICK n \in Nat : n = Len(calls)
  BY DEF CallInv, TypeOK
<1> DEFINE base == sp - FrameSize(s)
           c == [site |-> s, sp |-> sp, bp |-> bp, env |-> [v \in Kept(s) |-> reg[RegOf[v]]]]
<1>1. TypeOK /\ FramesIntact /\ Ordered /\ Chained /\ SavedValues
  BY DEF CallInv
<1>2. /\ base \in Cells /\ base + 2 <= sp
      /\ mem' \in [Cells -> Word]
      /\ mem'[base + 1] = bp
      /\ mem'[base + 2] = s
      /\ \A v \in Saved(s) : mem'[SlotCell(Saved(s), v, sp)] = reg[RegOf[v]]
      /\ \A a \in Cells : a > sp => mem'[a] = mem[a]
  BY <1>1, Pushed
<1>3. sp \in Cells /\ calls \in Seq(PendingCall) /\ n \in Nat /\ Pending = 1 .. n /\ sp = Level
  BY <1>0, <1>1, StraightIs DEF TypeOK, Pending, CallFrom
<1>4. cur = Call[s].from /\ sp' = base /\ bp' = base /\ cur' = Call[s].to /\ calls' = Append(calls, c)
  BY DEF CallFrom
<1>5. \A v \in Var : reg[RegOf[v]] \in Value
  BY <1>1, StraightIs, RegisterAssumption DEF CallFrom
<1>6. c \in PendingCall /\ c.env \in [Kept(s) -> Value]
  <2>1. Kept(s) \in SUBSET Var
    BY LateIs, SavedFinite
  <2>2. [v \in Kept(s) |-> reg[RegOf[v]]] \in [Kept(s) -> Value]
    BY <2>1, <1>5
  <2>3. [v \in Kept(s) |-> reg[RegOf[v]]] \in UNION { [S -> Value] : S \in SUBSET Var }
    BY <2>1, <2>2
  <2>4. bp \in Cells \cup {Junk}
    BY <1>1 DEF TypeOK
  <2> QED BY <2>2, <2>3, <2>4, <1>3 DEF PendingCall
<1>7. c.site = s /\ c.sp = sp /\ c.bp = bp /\ \A v \in Kept(s) : c.env[v] = reg[RegOf[v]]
  OBVIOUS
<1> HIDE DEF base, c
<1>8. /\ calls' \in Seq(PendingCall) /\ Len(calls') = n + 1 /\ Pending' = 1 .. n + 1
      /\ calls'[n + 1] = c /\ calls' # <<>>
      /\ \A i \in 1 .. n : calls'[i] = calls[i]
  BY <1>0, <1>3, <1>4, <1>6 DEF Pending
<1>9. Base(n + 1)' = base /\ \A i \in 1 .. n : Base(i)' = Base(i)
  BY <1>3, <1>7, <1>8 DEF Base, base
<1>a. Level' = base
  BY <1>8, <1>9 DEF Level
<1>10. TypeOK'
  <2>1. cur' \in Fun
    BY <1>4, SiteIs
  <2>2. Straight'
    BY <1>4, <1>a DEF Straight
  <2>3. reg' \in [Reg -> Value]
    BY <1>1, LoadParamsType
  <2>4. (reg \in [Reg -> IF Straight THEN Value ELSE Word])'
    BY <2>2, <2>3
  <2>5. sp' \in Cells /\ bp' \in Cells \cup {Junk}
    BY <1>2, <1>4
  <2> QED BY <2>1, <2>4, <2>5, <1>2, <1>8 DEF TypeOK
<1>11. Ordered'
  <2> SUFFICES ASSUME NEW i \in 1 .. n + 1
               PROVE  /\ Base(i)' >= 0 /\ base <= Base(i)'
                      /\ \A j \in 1 .. n + 1 : i < j => calls'[j].sp <= Base(i)'
    BY <1>8, <1>a DEF Ordered
  <2>1. CASE i = n + 1
    BY <2>1, <1>2, <1>3, <1>9 DEF Cells
  <2>2. CASE i \in 1 .. n
    <3>1. Base(i)' = Base(i) /\ Base(i) >= 0 /\ sp <= Base(i) /\ Base(i) \in Cells
      BY <2>2, <1>1, <1>3, <1>9, FrameCells DEF Ordered
    <3>2. \A j \in 1 .. n : i < j => calls[j].sp <= Base(i)
      BY <2>2, <1>1, <1>3 DEF Ordered
    <3>3. \A j \in 1 .. n : i < j => calls'[j].sp <= Base(i)
      BY <3>2, <1>8
    <3>4. calls'[n + 1].sp <= Base(i)
      BY <3>1, <1>7, <1>8
    <3>5. \A j \in 1 .. n + 1 : i < j => calls'[j].sp <= Base(i)
      BY <3>3, <3>4, <1>3
    <3> QED BY <3>1, <3>5, <1>2, <1>3 DEF Cells
  <2> QED BY <2>1, <2>2, <1>3
<1>12. Chained'
  <2> SUFFICES ASSUME NEW i \in 1 .. n + 1
               PROVE  /\ Call[calls'[i].site].from = IF i = 1 THEN Main ELSE Call[calls'[i - 1].site].to
                      /\ calls'[i].env \in [Kept(calls'[i].site) -> Value]
    BY <1>8 DEF Chained
  <2>1. CASE i = n + 1
    <3>1. cur = IF n = 0 THEN Main ELSE Call[calls[n].site].to
      BY <1>0, <1>1, <1>3 DEF FramesIntact, LastCall
    <3>2. n # 0 => calls'[i - 1] = calls[n]
      BY <2>1, <1>3, <1>8
    <3> QED BY <3>1, <3>2, <2>1, <1>3, <1>4, <1>6, <1>7, <1>8
  <2>2. CASE i \in 1 .. n
    <3>1. i # 1 => calls'[i - 1] = calls[i - 1]
      BY <2>2, <1>3, <1>8
    <3> QED BY <3>1, <2>2, <1>1, <1>3, <1>8 DEF Chained
  <2> QED BY <2>1, <2>2, <1>3
<1>13. \A i \in 1 .. n : \A a \in Cells : a > Base(i) => mem'[a] = mem[a]
  <2> TAKE i \in 1 .. n
  <2>1. sp <= Base(i) /\ Base(i) \in Cells
    BY <1>1, <1>3, FrameCells DEF Ordered
  <2> QED BY <2>1, <1>2, <1>3 DEF Cells
<1>14. \A i \in 1 .. n : \A v \in Saved(calls[i].site) :
         mem'[SlotCell(Saved(calls[i].site), v, calls[i].sp)]
           = mem[SlotCell(Saved(calls[i].site), v, calls[i].sp)]
  <2> TAKE i \in 1 .. n
  <2> TAKE v \in Saved(calls[i].site)
  <2> DEFINE a == SlotCell(Saved(calls[i].site), v, calls[i].sp)
  <2>1. a \in Cells /\ a > Base(i) + 2 /\ Base(i) \in Cells
    BY <1>1, <1>3, FrameCells
  <2> HIDE DEF a
  <2>2. a > Base(i)
    BY <2>1 DEF Cells
  <2>3. mem'[a] = mem[a]
    BY <2>1, <2>2, <1>13
  <2> QED BY <2>3 DEF a
<1>15. SavedValues'
  <2> SUFFICES ASSUME NEW i \in 1 .. n + 1, NEW v \in Saved(calls'[i].site)
               PROVE  mem'[SlotCell(Saved(calls'[i].site), v, calls'[i].sp)] \in Value
    BY <1>8 DEF SavedValues
  <2>1. CASE i = n + 1
    BY <2>1, <1>2, <1>5, <1>7, <1>8, SavedFinite
  <2>2. CASE i \in 1 .. n
    BY <2>2, <1>1, <1>3, <1>8, <1>14 DEF SavedValues
  <2> QED BY <2>1, <2>2, <1>3
<1>16. FramesIntact'
  <2>1. /\ sp' = Level' /\ bp' = Level' /\ cur' = Call[LastCall.site].to'
    BY <1>4, <1>7, <1>8, <1>a DEF LastCall
  <2>2. ASSUME NEW i \in 1 .. n + 1
        PROVE  /\ calls'[i].sp = IF i = 1 THEN Origin ELSE Base(i - 1)'
               /\ calls'[i].bp = IF i = 1 THEN Junk ELSE Base(i - 1)'
               /\ mem'[Base(i)' + 1] = calls'[i].bp
               /\ mem'[Base(i)' + 2] = calls'[i].site
               /\ \A v \in Kept(calls'[i].site) :
                    mem'[SlotCell(Saved(calls'[i].site), v, calls'[i].sp)] = calls'[i].env[v]
    <3>1. CASE i = n + 1
      <4>1. /\ sp = IF n = 0 THEN Origin ELSE Base(n)
            /\ bp = IF n = 0 THEN Junk ELSE sp
        BY <1>0, <1>1, <1>3 DEF FramesIntact, Level
      <4>2. n # 0 => Base(i - 1)' = Base(n)
        BY <3>1, <1>3, <1>9
      <4>3. i = 1 <=> n = 0
        BY <3>1, <1>3
      <4>4. Kept(s) \subseteq Saved(s)
        BY LateIs
      <4> QED BY <4>1, <4>2, <4>3, <4>4, <3>1, <1>2, <1>7, <1>8, <1>9
    <3>2. CASE i \in 1 .. n
      <4>1. /\ calls[i].sp = IF i = 1 THEN Origin ELSE Base(i - 1)
            /\ calls[i].bp = IF i = 1 THEN Junk ELSE Base(i - 1)
            /\ mem[Base(i) + 1] = calls[i].bp
            /\ mem[Base(i) + 2] = calls[i].site
            /\ \A v \in Kept(calls[i].site) :
                 mem[SlotCell(Saved(calls[i].site), v, calls[i].sp)] = calls[i].env[v]
        BY <3>2, <1>1, <1>3 DEF FramesIntact
      <4>2. i # 1 => Base(i - 1)' = Base(i - 1)
        BY <3>2, <1>3, <1>9
      <4>3. mem'[Base(i) + 1] = mem[Base(i) + 1] /\ mem'[Base(i) + 2] = mem[Base(i) + 2]
        <5>1. Base(i) \in Cells /\ Base(i) + 1 \in Cells /\ Base(i) + 2 \in Cells
          BY <3>2, <1>1, <1>3, FrameCells
        <5>2. Base(i) + 1 > Base(i) /\ Base(i) + 2 > Base(i)
          BY <5>1 DEF Cells
        <5> QED BY <5>1, <5>2, <3>2, <1>13
      <4>4. Kept(calls[i].site) \subseteq Saved(calls[i].site)
        BY <3>2, <1>1, <1>3, FrameCells, LateIs
      <4>5. \A v \in Kept(calls[i].site) :
              mem'[SlotCell(Saved(calls[i].site), v, calls[i].sp)] = calls[i].env[v]
        BY <4>1, <4>4, <3>2, <1>14
      <4>6. calls'[i] = calls[i] /\ Base(i)' = Base(i)
        BY <3>2, <1>8, <1>9
      <4> QED BY <4>1, <4>2, <4>3, <4>5, <4>6
    <3> QED BY <3>1, <3>2, <1>3
  <2> QED BY <2>1, <2>2, <1>8 DEF FramesIntact
<1> QED BY <1>10, <1>11, <1>12, <1>15, <1>16 DEF CallInv

-----------------------------------------------------------------------------
(* A return.                                                               *)

\* A return goes to the last pending call, whose frame it takes off.
LEMMA Popped ==
  ASSUME CallInv, NEW x \in Value, Return(x)
  PROVE  /\ calls # <<>> /\ LastCall \in PendingCall /\ LastCall.site \in Site
         /\ mem[bp + 2] = LastCall.site
         /\ cur = Call[LastCall.site].to
         /\ sp' = LastCall.sp + Cardinality(Late(LastCall.site)) /\ bp' = LastCall.bp
         /\ cur' = Call[LastCall.site].from
         /\ reg' = Restored(LastCall.site, x, sp') /\ sp' \in Cells
         /\ sp' - Cardinality(Reloaded(LastCall.site)) \in Nat
         /\ sp' > sp
<1>0. PICK n \in Nat : n = Len(calls)
  BY DEF CallInv, TypeOK
<1>1. TypeOK /\ FramesIntact /\ Ordered
  BY DEF CallInv
<1>2. calls # <<>> /\ n > 0 /\ n \in Pending /\ LastCall = calls[n]
  <2>1. calls # <<>>
    BY <1>1 DEF Return, FramesIntact
  <2>2. calls \in Seq(PendingCall)
    BY <1>1 DEF TypeOK
  <2> QED BY <1>0, <2>1, <2>2 DEF Pending, LastCall
<1>3. sp = Base(n) /\ bp = Base(n) /\ cur = Call[calls[n].site].to
      /\ mem[Base(n) + 1] = calls[n].bp /\ mem[Base(n) + 2] = calls[n].site
  BY <1>0, <1>1, <1>2, StraightIs DEF FramesIntact, LastCall, Level, Return
<1>4. /\ calls[n] \in PendingCall /\ calls[n].site \in Site /\ calls[n].sp \in Cells
      /\ Base(n) \in Cells /\ Base(n) + 2 <= calls[n].sp
  BY <1>1, <1>2, FrameCells DEF TypeOK, Pending
<1> DEFINE s == calls[n].site
           top == bp + 2 + Len(Formals[cur]) + Cardinality(Reloaded(s))
<1>5. mem[bp + 2] = s
  BY <1>3
<1>6. /\ reg' = Restored(s, x, top) /\ sp' = top
      /\ bp' = mem[bp + 1] /\ cur' = Call[s].from /\ top \in Cells
  BY <1>5 DEF Return
<1>7. top = calls[n].sp + Cardinality(Late(s)) /\ top - Cardinality(Reloaded(s)) \in Nat /\ top >= calls[n].sp
  <2>1. /\ Cardinality(Reloaded(s)) = Cardinality(Saved(s)) + Cardinality(Late(s))
        /\ Cardinality(Late(s)) \in Nat
    BY <1>4, LateIs
  <2>2. /\ Len(Formals[cur]) = Len(Call[s].args) /\ Len(Call[s].args) \in Nat
        /\ FrameSize(s) = 2 + Len(Call[s].args) + Cardinality(Saved(s))
        /\ Cardinality(Saved(s)) \in Nat
    BY <1>3, <1>4, SiteIs, SavedFinite DEF FrameSize
  <2>3. bp = calls[n].sp - FrameSize(s)
    BY <1>3 DEF Base
  <2> HIDE DEF s
  <2>4. calls[n].sp \in Int
    BY <1>4, MemoryAssumption DEF Cells
  <2>5. top = bp + 2 + Len(Call[s].args) + Cardinality(Reloaded(s))
    BY <2>2
  <2>8. bp \in Nat
    BY <1>3, <1>4, MemoryAssumption DEF Cells
  <2> DEFINE i == Len(Call[s].args)
             j == Cardinality(Saved(s))
             k == Cardinality(Late(s))
  <2>6. /\ bp = calls[n].sp - (2 + i + j) /\ i \in Nat /\ j \in Nat /\ k \in Nat
        /\ Cardinality(Reloaded(s)) = j + k
    BY <2>1, <2>2, <2>3
  <2>7. top = bp + 2 + i + (j + k)
    BY <2>5, <2>6
  <2> HIDE DEF i, j, k, top
  <2>9. top = calls[n].sp + k /\ top - Cardinality(Reloaded(s)) \in Nat /\ top >= calls[n].sp
    BY <2>4, <2>6, <2>7, <2>8
  <2> QED BY <2>9 DEF k
<1> HIDE DEF top
<1>8. sp' > sp
  BY <1>3, <1>4, <1>6, <1>7, MemoryAssumption DEF Cells
<1> QED BY <1>2, <1>3, <1>4, <1>5, <1>6, <1>7, <1>8

\* The caller finds in its registers what it is to have back, and its result
\* unless the reload went over it.
LEMMA RestoredIs ==
  ASSUME CallInv, NEW x \in Value, Return(x)
  PROVE  LET s == LastCall.site IN
         /\ reg' \in [Reg -> Word]
         /\ Late(s) = {} => reg' \in [Reg -> Value]
         /\ \A v \in Kept(s) : reg'[RegOf[v]] = LastCall.env[v]
         /\ \A v \in Global : v # Call[s].result => reg'[RegOf[v]] = reg[RegOf[v]]
         /\ Call[s].result # NoVar /\ Call[s].result \notin Reloaded(s) => reg'[RegOf[Call[s].result]] = x
<1> DEFINE s == LastCall.site
           R == Reloaded(s)
           top == sp'
<1>0. PICK n \in Nat : n = Len(calls)
  BY DEF CallInv, TypeOK
<1>1. TypeOK /\ FramesIntact /\ SavedValues
  BY DEF CallInv
<1>2. /\ calls # <<>> /\ s \in Site /\ reg' = Restored(s, x, top)
      /\ top = LastCall.sp + Cardinality(Late(s)) /\ top \in Cells /\ top - Cardinality(R) \in Nat
      /\ LastCall \in PendingCall
  BY Popped
<1>3. n \in Pending /\ LastCall = calls[n]
  BY <1>0, <1>1, <1>2 DEF TypeOK, Pending, LastCall
<1>4. Late(s) = {} => R = Saved(s) /\ top = LastCall.sp
  <2>1. Late(s) = {} => Cardinality(Late(s)) = 0
    BY FS_EmptySet
  <2>2. LastCall.sp \in Int
    BY <1>2, MemoryAssumption DEF PendingCall, Cells
  <2> QED BY <2>1, <2>2, <1>2, LateIs
<1>5. Late(s) = {} => \A v \in R : mem[SlotCell(R, v, top)] \in Value
  BY <1>1, <1>3, <1>4 DEF SavedValues
<1>a. \A v \in R : mem[SlotCell(R, v, top)] \in Word
  <2> TAKE v \in R
  <2>1. top \in Int /\ top <= TopCell /\ TopCell \in Nat
    BY <1>2, MemoryAssumption DEF Cells
  <2>2. SlotCell(R, v, top) \in top - Cardinality(R) + 1 .. top
    BY <1>2, <2>1, ReloadCells
  <2>4. Cardinality(R) \in Nat
    BY <1>2, LateIs, SavedFinite
  <2> HIDE DEF R, top
  <2>3. SlotCell(R, v, top) \in Cells
    BY <1>2, <2>1, <2>2, <2>4 DEF Cells
  <2> QED BY <1>1, <2>3 DEF TypeOK
<1>6. \A v \in Kept(s) : v \in R /\ mem[SlotCell(R, v, top)] = LastCall.env[v]
  <2> TAKE v \in Kept(s)
  <2>1. Late(s) = {}
    BY DEF Kept
  <2>2. mem[SlotCell(Saved(s), v, LastCall.sp)] = LastCall.env[v] /\ v \in Saved(s)
    BY <1>1, <1>2, <1>3, LateIs DEF FramesIntact
  <2> QED BY <2>1, <2>2, <1>4
<1>7. R \subseteq Locals[Call[s].from] /\ Call[s].from \in Fun
  BY <1>2, LateIs, SiteIs
<1>8. Call[s].result \in Locals[Call[s].from] \cup Global \cup {NoVar}
  BY <1>2, ProgramAssumption
<1>9. Global \subseteq Var /\ Locals[Call[s].from] \subseteq Var \ Global /\ NoVar \notin Var
  BY <1>7, ProgramAssumption
<1>10. \A u, v \in Locals[Call[s].from] \cup Global : RegOf[u] = RegOf[v] => u = v
  BY <1>7, RegisterAssumption
<1>11. RegOf \in [Var -> Reg]
  BY RegisterAssumption
<1>12. \A r \in Reg :
         reg'[r] = IF \E v \in R : RegOf[v] = r
                   THEN mem[SlotCell(R, CHOOSE v \in R : RegOf[v] = r, top)]
                   ELSE IF Call[s].result # NoVar /\ RegOf[Call[s].result] = r THEN x
                   ELSE reg[r]
  BY <1>2 DEF Restored
<1>b. reg \in [Reg -> Value]
  BY <1>1, StraightIs DEF Return
<1>13. ASSUME NEW T, Value \subseteq T, \A v \in R : mem[SlotCell(R, v, top)] \in T
       PROVE  reg' \in [Reg -> T]
  <2>2. DOMAIN reg' = Reg /\ reg' = [r \in Reg |-> reg'[r]]
    BY <1>2 DEF Restored
  <2>3. \A r \in Reg : reg'[r] \in T
    <3> TAKE r \in Reg
    <3>1. CASE \E v \in R : RegOf[v] = r
      <4>1. (CHOOSE v \in R : RegOf[v] = r) \in R
        BY <3>1
      <4> HIDE DEF R, top, s
      <4> QED BY <4>1, <3>1, <1>13, <1>12
    <3>2. CASE ~\E v \in R : RegOf[v] = r
      <4> HIDE DEF R, top, s
      <4> QED BY <3>2, <1>12, <1>13, <1>b
    <3> QED BY <3>1, <3>2
  <2> QED BY <2>2, <2>3
<1> HIDE DEF R, top, s
<1>14. \A v \in R : reg'[RegOf[v]] = mem[SlotCell(R, v, top)]
  <2> TAKE v \in R
  <2>1. \A u \in R : RegOf[u] = RegOf[v] => u = v
    BY <1>7, <1>10
  <2>2. (CHOOSE u \in R : RegOf[u] = RegOf[v]) = v
    BY <2>1
  <2>3. RegOf[v] \in Reg
    BY <1>7, <1>9, <1>11
  <2> QED BY <2>2, <2>3, <1>12
<1>15. \A v \in Global : v # Call[s].result => reg'[RegOf[v]] = reg[RegOf[v]]
  <2> TAKE v \in Global
  <2>1. \A u \in R : RegOf[u] # RegOf[v]
    BY <1>7, <1>9, <1>10
  <2>2. v # Call[s].result => Call[s].result = NoVar \/ RegOf[Call[s].result] # RegOf[v]
    BY <1>8, <1>10
  <2>3. RegOf[v] \in Reg
    BY <1>9, <1>11
  <2> QED BY <2>1, <2>2, <2>3, <1>12
<1>16. Call[s].result # NoVar /\ Call[s].result \notin R => reg'[RegOf[Call[s].result]] = x
  <2> SUFFICES ASSUME Call[s].result # NoVar, Call[s].result \notin R PROVE reg'[RegOf[Call[s].result]] = x
    OBVIOUS
  <2>1. \A u \in R : RegOf[u] # RegOf[Call[s].result]
    BY <1>7, <1>8, <1>10
  <2>2. RegOf[Call[s].result] \in Reg
    BY <1>8, <1>9, <1>11
  <2> QED BY <2>1, <2>2, <1>12
<1>17. reg' \in [Reg -> Word] /\ (Late(s) = {} => reg' \in [Reg -> Value])
  <2>1. Value \subseteq Word
    BY DEF Word
  <2> QED BY <2>1, <1>5, <1>a, <1>13
<1> QED BY <1>6, <1>14, <1>15, <1>16, <1>17 DEF s, R

LEMMA ReturnInv ==
  ASSUME CallInv, NEW x \in Value, Return(x)
  PROVE  CallInv'
<1>0. PICK n \in Nat : n = Len(calls)
  BY DEF CallInv, TypeOK
<1>1. TypeOK /\ FramesIntact /\ Ordered /\ Chained /\ SavedValues
  BY DEF CallInv
<1>2. /\ calls # <<>> /\ LastCall.site \in Site
      /\ sp' = LastCall.sp + Cardinality(Late(LastCall.site)) /\ sp' \in Cells
      /\ bp' = LastCall.bp /\ cur' = Call[LastCall.site].from
  BY Popped
<1>3. calls \in Seq(PendingCall) /\ n >= 1 /\ Pending = 1 .. n /\ LastCall = calls[n]
  BY <1>0, <1>1, <1>2 DEF TypeOK, Pending, LastCall
<1>4. mem' = mem /\ calls' = SubSeq(calls, 1, n - 1)
  BY <1>0 DEF Return
<1>5. /\ calls' \in Seq(PendingCall) /\ Len(calls') = n - 1 /\ Pending' = 1 .. n - 1
      /\ \A i \in 1 .. n - 1 : calls'[i] = calls[i]
      /\ calls' = <<>> <=> n = 1
  <2>1. \A i \in 1 .. n - 1 : calls[i] \in PendingCall
    BY <1>0, <1>3
  <2>2. /\ calls' \in Seq(PendingCall)
        /\ Len(calls') = n - 1
        /\ \A i \in 1 .. n - 1 : calls'[i] = calls[i]
    <3>1. /\ SubSeq(calls, 1, n - 1) \in Seq(PendingCall)
          /\ Len(SubSeq(calls, 1, n - 1)) = IF 1 <= n - 1 THEN (n - 1) - 1 + 1 ELSE 0
          /\ \A i \in 1 .. (n - 1) - 1 + 1 : SubSeq(calls, 1, n - 1)[i] = calls[1 + i - 1]
      BY <2>1, SubSeqProperties
    <3> QED BY <3>1, <1>3, <1>4
  <2> QED BY <2>2, <1>3 DEF Pending
<1>6. \A i \in 1 .. n - 1 : Base(i)' = Base(i)
  <2> TAKE i \in 1 .. n - 1
  <2>1. calls'[i] = calls[i]
    BY <1>5
  <2> QED BY <2>1 DEF Base
<1>7. calls[n] \in PendingCall /\ calls[n].sp \in Cells /\ calls[n].bp \in Cells \cup {Junk}
  BY <1>3, Popped DEF PendingCall
<1>a. Level' = calls[n].sp
  <2>1. calls[n].sp = IF n = 1 THEN Origin ELSE Base(n - 1)
    BY <1>1, <1>3 DEF FramesIntact
  <2>2. CASE n = 1
    BY <2>1, <2>2, <1>5 DEF Level
  <2>3. CASE n # 1
    <3>1. n - 1 \in 1 .. n - 1 /\ Len(calls') = n - 1 /\ calls' # <<>>
      BY <2>3, <1>3, <1>5
    <3>2. Base(Len(calls))' = Base(n - 1)
      BY <3>1, <1>5 DEF Base
    <3> QED BY <2>1, <2>3, <3>1, <3>2 DEF Level
  <2> QED BY <2>2, <2>3
<1>8. TypeOK'
  <2>1. cur' \in Fun
    BY <1>2, SiteIs
  <2>2. Straight' => Late(LastCall.site) = {}
    <3>1. Straight' => sp' = LastCall.sp
      BY <1>3, <1>a DEF Straight
    <3>2. Late(LastCall.site) # {} => Cardinality(Late(LastCall.site)) \in Nat \ {0}
      BY <1>2, LateIs
    <3>3. LastCall.sp \in Int
      BY <1>3, <1>7, MemoryAssumption DEF Cells
    <3> QED BY <3>1, <3>2, <3>3, <1>2
  <2>3. (reg \in [Reg -> IF Straight THEN Value ELSE Word])'
    BY <2>2, RestoredIs
  <2> QED BY <2>1, <2>3, <1>1, <1>2, <1>3, <1>4, <1>5, <1>7 DEF TypeOK
<1>9. Ordered'
  <2>1. \A i \in 1 .. n - 1 : calls[n].sp <= Base(i) /\ Base(i) >= 0
    BY <1>1, <1>3 DEF Ordered
  <2>2. \A i, j \in 1 .. n - 1 : i < j => calls[j].sp <= Base(i)
    BY <1>1, <1>3 DEF Ordered
  <2> QED BY <2>1, <2>2, <1>3, <1>5, <1>6, <1>a DEF Ordered
<1>10. \A i \in 1 .. n - 1 : i \in 1 .. n /\ (i # 1 => i - 1 \in 1 .. n - 1 /\ calls'[i - 1] = calls[i - 1])
  BY <1>3, <1>5
<1>11. Chained' /\ SavedValues'
  <2>1. Chained'
    BY <1>1, <1>3, <1>5, <1>10 DEF Chained
  <2>2. mem' = mem
    BY <1>4
  <2>3. \A i \in 1 .. n - 1 : \A v \in Saved(calls[i].site) :
          mem[SlotCell(Saved(calls[i].site), v, calls[i].sp)] \in Value
    BY <1>1, <1>3, <1>10 DEF SavedValues
  <2>4. SavedValues'
    BY <2>2, <2>3, <1>5 DEF SavedValues
  <2> QED BY <2>1, <2>4
<1>12. FramesIntact'
  <2>1. /\ calls[n].sp = IF n = 1 THEN Origin ELSE Base(n - 1)
        /\ calls[n].bp = IF n = 1 THEN Junk ELSE Base(n - 1)
        /\ Call[calls[n].site].from = IF n = 1 THEN Main ELSE Call[calls[n - 1].site].to
    BY <1>1, <1>3 DEF FramesIntact, Chained
  <2>2. n # 1 => n - 1 \in 1 .. n - 1 /\ LastCall' = calls[n - 1] /\ Base(Len(calls))' = Base(n - 1)
    BY <1>3, <1>5, <1>6 DEF LastCall, Base
  <2>3. ASSUME NEW i \in 1 .. n - 1
        PROVE  /\ calls'[i].sp = IF i = 1 THEN Origin ELSE Base(i - 1)'
               /\ calls'[i].bp = IF i = 1 THEN Junk ELSE Base(i - 1)'
               /\ mem'[Base(i)' + 1] = calls'[i].bp
               /\ mem'[Base(i)' + 2] = calls'[i].site
               /\ \A v \in Kept(calls'[i].site) :
                    mem'[SlotCell(Saved(calls'[i].site), v, calls'[i].sp)] = calls'[i].env[v]
    <3>1. i # 1 => Base(i - 1)' = Base(i - 1)
      BY <1>6, <1>10
    <3> QED BY <3>1, <1>1, <1>3, <1>4, <1>5, <1>6, <1>10 DEF FramesIntact
  <2>4. (sp \in {Level} \cup {Level + Cardinality(Late(s)) : s \in {t \in Site : Call[t].from = cur}})'
    BY <1>2, <1>3, <1>a
  <2>5. (bp = IF calls = <<>> THEN Junk ELSE Level)'
    BY <2>1, <2>2, <1>2, <1>3, <1>5, <1>a
  <2> QED BY <2>1, <2>2, <2>3, <2>4, <2>5, <1>2, <1>3, <1>5 DEF FramesIntact
<1> QED BY <1>8, <1>9, <1>11, <1>12 DEF CallInv

-----------------------------------------------------------------------------
(* The theorems.                                                           *)

LEMMA AssignInv ==
  ASSUME CallInv, NEW v \in Var, NEW x \in Value, Assign(v, x)
  PROVE  CallInv'
<1>1. UNCHANGED <<mem, sp, bp, cur, calls>>
  BY DEF Assign
<1>2. reg' \in [Reg -> Value] /\ Straight'
  <2>1. reg \in [Reg -> Value] /\ Straight
    BY StraightIs DEF Assign, CallInv
  <2>2. Straight'
    BY <1>1, <2>1 DEF Straight, Level, Base
  <2> QED BY <2>1, <2>2, RegisterAssumption DEF Assign
<1>3. TypeOK'
  BY <1>1, <1>2 DEF CallInv, TypeOK
<1>4. FramesIntact' /\ Ordered'
  BY <1>1 DEF CallInv, FramesIntact, Ordered, Pending, Base, LastCall, Level
<1>5. Chained' /\ SavedValues'
  BY <1>1 DEF CallInv, Chained, SavedValues, Pending
<1> QED BY <1>3, <1>4, <1>5 DEF CallInv

LEMMA StutterInv == CallInv /\ UNCHANGED vars => CallInv'
BY DEF vars, CallInv, TypeOK, FramesIntact, Ordered, Chained, SavedValues,
       Pending, Base, LastCall, Level, Straight

LEMMA InitInv == Init => CallInv
<1> SUFFICES ASSUME Init PROVE CallInv
  OBVIOUS
<1>1. calls = <<>> /\ Pending = {} /\ calls \in Seq(PendingCall)
  BY DEF Init, Pending
<1>2. TypeOK
  BY <1>1, ProgramAssumption, MemoryAssumption DEF Init, TypeOK, Word, Straight, Level
<1> QED BY <1>1, <1>2 DEF Init, CallInv, FramesIntact, Ordered, Chained, SavedValues, Level

LEMMA NextInv == CallInv /\ [Next]_vars => CallInv'
BY AssignInv, CallFromInv, ReturnInv, StutterInv DEF Next

\* The machine's state stays well formed, whatever the call sites are: TypeOK
\* of CallProtocol.
THEOREM TypeCorrect == Spec => []TypeOK
<1>1. CallInv => TypeOK
  BY DEF CallInv
<1> QED BY <1>1, InitInv, NextInv, PTL DEF Spec

\* The control links, return labels and saved registers of all pending calls
\* stay where their return will look for them: FramesIntact of CallProtocol.
THEOREM Intact == Spec => []FramesIntact
<1>1. CallInv => FramesIntact
  BY DEF CallInv
<1> QED BY <1>1, InitInv, NextInv, PTL DEF Spec

\* Only a return takes cells off the stack.
LEMMA Rises ==
  ASSUME CallInv, Next, sp' > sp
  PROVE  \E x \in Value : Return(x)
<1>1. sp \in Int
  BY MemoryAssumption DEF CallInv, TypeOK, Cells
<1>2. ASSUME NEW v \in Var, NEW x \in Value, Assign(v, x) PROVE FALSE
  BY <1>1, <1>2 DEF Assign
<1>3. ASSUME NEW s \in Site, CallFrom(s) PROVE FALSE
  <2>1. sp' = sp - FrameSize(s) /\ FrameSize(s) \in Nat
    BY <1>3, SiteIs DEF CallFrom
  <2> QED BY <2>1, <1>1
<1> QED BY <1>2, <1>3 DEF Next

\* A return, from a call with late arguments or without, leaves BP as it was
\* before the call and SP above that by the number of late arguments, so in
\* its place exactly if there are none: Balanced of CallProtocol.
THEOREM StackBalance == Spec => Balanced
<1>1. CallInv /\ [Next]_vars =>
        [sp' > sp => /\ sp' = LastCall.sp + Cardinality(Late(LastCall.site))
                     /\ bp' = LastCall.bp]_vars
  BY Rises, Popped
<1> QED BY <1>1, InitInv, NextInv, PTL DEF Spec, Balanced

\* "Loading Back Registers" (CodeGen.C:644) is what happens to the variables
\* of entrySet, unless there are late arguments: KeptRestored of CallProtocol.
THEOREM Restoration == Spec => KeptRestored
<1>1. CallInv /\ [Next]_vars =>
        [sp' > sp => \A v \in Kept(LastCall.site) : reg'[RegOf[v]] = LastCall.env[v]]_vars
  BY Rises, RestoredIs
<1> QED BY <1>1, InitInv, NextInv, PTL DEF Spec, KeptRestored

-----------------------------------------------------------------------------
(* CallProtocol implements CallStack.                                      *)

\* The activations of the abstract state are a sequence, and the running one
\* is the function being executed.
LEMMA AbsFramesIs ==
  ASSUME CallInv, NEW n \in Nat, n = Len(calls)
  PROVE  /\ DOMAIN AbsFrames = 1 .. n + 1 /\ Len(AbsFrames) = n + 1
         /\ \E S : AbsFrames \in Seq(S)
         /\ Abstract!Top = [site |-> IF n = 0 THEN NoSite ELSE calls[n].site,
                            env |-> [v \in Locals[cur] |-> reg[RegOf[v]]]]
         /\ Abstract!Running = cur
<1> DEFINE S == { AbsFrames[i] : i \in 1 .. n + 1 }
<1>1. AbsFrames = [i \in 1 .. n + 1 |-> AbsFrames[i]]
  BY DEF AbsFrames
<1>2. AbsFrames \in [1 .. n + 1 -> S]
  BY <1>1
<1> HIDE DEF S
<1>3. AbsFrames \in Seq(S) /\ Len(AbsFrames) = n + 1 /\ DOMAIN AbsFrames = 1 .. n + 1
  BY <1>2
<1>4. Abstract!Top = AbsFrames[n + 1]
  BY <1>3 DEF Abstract!Top
<1>5. AbsFrames[n + 1] = [site |-> IF n = 0 THEN NoSite ELSE calls[n].site,
                          env |-> [v \in Locals[cur] |-> reg[RegOf[v]]]]
  BY DEF AbsFrames
<1>6. cur = IF n = 0 THEN Main ELSE Call[calls[n].site].to
  BY DEF CallInv, TypeOK, FramesIntact, LastCall
<1>7. n # 0 => calls[n].site \in Site
  BY FrameCells DEF CallInv, TypeOK, Pending
<1>8. Abstract!Running = cur
  <2>1. Abstract!Top.site = IF n = 0 THEN NoSite ELSE calls[n].site
    BY <1>4, <1>5
  <2>2. CASE n = 0
    BY <1>6, <2>1, <2>2 DEF Abstract!Running
  <2>3. CASE n # 0
    <3>1. calls[n].site # NoSite
      BY <1>7, <2>3, ProgramAssumption
    <3> QED BY <1>6, <2>1, <2>3, <3>1 DEF Abstract!Running
  <2> QED BY <2>2, <2>3
<1>9. Abstract!Top = [site |-> IF n = 0 THEN NoSite ELSE calls[n].site,
                      env |-> [v \in Locals[cur] |-> reg[RegOf[v]]]]
  BY <1>4, <1>5, Zenon
<1>10. \E T : AbsFrames \in Seq(T)
  BY <1>3, Zenon
<1> QED BY <1>3, <1>8, <1>9, <1>10, Zenon

LEMMA InitMeans == Init => Abstract!StackInit
<1> SUFFICES ASSUME Init PROVE Abstract!StackInit
  OBVIOUS
<1>1. calls = <<>> /\ cur = Main /\ reg \in [Reg -> Value]
  BY DEF Init
<1>2. AbsFrames = <<[site |-> NoSite, env |-> [v \in Locals[Main] |-> reg[RegOf[v]]]]>>
  BY <1>1 DEF AbsFrames
<1>3. Locals[Main] \subseteq Var /\ Global \subseteq Var
  BY ProgramAssumption
<1>4. /\ [v \in Locals[Main] |-> reg[RegOf[v]]] \in [Locals[Main] -> Value]
      /\ [v \in Global |-> reg[RegOf[v]]] \in [Global -> Value]
  BY <1>1, <1>3, RegisterAssumption
<1> QED BY <1>2, <1>4 DEF Abstract!StackInit

LEMMA AssignMeans ==
  ASSUME CallInv, NEW v \in Var, NEW x \in Value, Assign(v, x)
  PROVE  Abstract!SetVar(v, x)
<1>0. PICK n \in Nat : n = Len(calls)
  BY DEF CallInv, TypeOK
<1>1. reg' = [reg EXCEPT ![RegOf[v]] = x] /\ cur' = cur /\ calls' = calls
      /\ v \in Locals[cur] \cup Global
  BY DEF Assign
<1>2. /\ Len(AbsFrames) = n + 1 /\ DOMAIN AbsFrames = 1 .. n + 1
      /\ Abstract!Running = cur
  BY <1>0, AbsFramesIs
<1>3. reg \in [Reg -> Value] /\ RegOf \in [Var -> Reg] /\ cur \in Fun
  BY StraightIs, RegisterAssumption DEF CallInv, TypeOK, Assign
<1>4. /\ Locals[cur] \subseteq Var \ Global /\ Global \subseteq Var
      /\ \A u, w \in Locals[cur] \cup Global : RegOf[u] = RegOf[w] => u = w
  BY <1>3, ProgramAssumption, RegisterAssumption
<1>5. \A u \in Locals[cur] \cup Global : reg'[RegOf[u]] = IF u = v THEN x ELSE reg[RegOf[u]]
  BY <1>1, <1>3, <1>4
<1>6. AbsFrames' = [i \in 1 .. n + 1 |->
                      [ site |-> IF i = 1 THEN NoSite ELSE calls[i - 1].site,
                        env  |-> IF i = n + 1 THEN [u \in Locals[cur] |-> reg'[RegOf[u]]]
                                 ELSE calls[i].env ]]
  BY <1>0, <1>1 DEF AbsFrames
<1>7. AbsFrames = [i \in 1 .. n + 1 |->
                      [ site |-> IF i = 1 THEN NoSite ELSE calls[i - 1].site,
                        env  |-> IF i = n + 1 THEN [u \in Locals[cur] |-> reg[RegOf[u]]]
                                 ELSE calls[i].env ]]
  BY <1>0 DEF AbsFrames
<1>8. CASE v \in Locals[cur]
  <2>1. [u \in Locals[cur] |-> reg'[RegOf[u]]] = [[u \in Locals[cur] |-> reg[RegOf[u]]] EXCEPT ![v] = x]
    BY <1>5, <1>8
  <2>2. AbsFrames' = [AbsFrames EXCEPT ![n + 1].env[v] = x]
    BY <2>1, <1>6, <1>7
  <2>3. [u \in Global |-> reg[RegOf[u]]]' = [u \in Global |-> reg[RegOf[u]]]
    BY <1>4, <1>5, <1>8
  <2> QED BY <2>2, <2>3, <1>2, <1>8 DEF Abstract!SetVar
<1>9. CASE v \in Global
  <2>1. [u \in Locals[cur] |-> reg'[RegOf[u]]] = [u \in Locals[cur] |-> reg[RegOf[u]]]
    BY <1>4, <1>5, <1>9
  <2>2. AbsFrames' = AbsFrames
    BY <2>1, <1>6, <1>7
  <2>3. [u \in Global |-> reg[RegOf[u]]]' = [[u \in Global |-> reg[RegOf[u]]] EXCEPT ![v] = x]
    BY <1>5, <1>9
  <2> QED BY <2>2, <2>3, <1>9 DEF Abstract!SetVar
<1> QED BY <1>1, <1>8, <1>9

\* The callee's registers after the call: parameters loaded, globals as before.
LEMMA LoadedIs ==
  ASSUME TypeOK, NEW s \in Site, CallFrom(s)
  PROVE  /\ \A i \in DOMAIN Call[s].args :
              reg'[RegOf[Formals[Call[s].to][i]]] = Operand(Call[s].args[i])
         /\ \A v \in Global : reg'[RegOf[v]] = reg[RegOf[v]]
<1> DEFINE f == Call[s].to
           base == sp - FrameSize(s)
<1>1. f \in Fun /\ DOMAIN Formals[f] = DOMAIN Call[s].args
  BY SiteIs
<1>2. \A i \in DOMAIN Call[s].args : mem'[base + 2 + i] = Operand(Call[s].args[i])
  BY Pushed
<1>3. reg' = LoadParams(f, base, mem')
  BY DEF CallFrom
<1>4. /\ \A i, j \in DOMAIN Formals[f] :
           /\ Formals[f][i] \in Locals[f]
           /\ Formals[f][i] = Formals[f][j] => i = j
      /\ Locals[f] \subseteq Var \ Global /\ Global \subseteq Var
  BY <1>1, ProgramAssumption
<1>5. /\ \A u, v \in Locals[f] \cup Global : RegOf[u] = RegOf[v] => u = v
      /\ RegOf \in [Var -> Reg]
  BY <1>1, RegisterAssumption
<1> HIDE DEF f, base
<1>6. \A i, j \in DOMAIN Formals[f] : RegOf[Formals[f][i]] = RegOf[Formals[f][j]] => i = j
  BY <1>4, <1>5
<1>7. \A r \in Reg : reg'[r] =
        IF \E i \in DOMAIN Formals[f] : RegOf[Formals[f][i]] = r
        THEN mem'[base + 2 + (CHOOSE i \in DOMAIN Formals[f] : RegOf[Formals[f][i]] = r)]
        ELSE reg[r]
  BY <1>3 DEF LoadParams
<1>8. \A i \in DOMAIN Formals[f] : reg'[RegOf[Formals[f][i]]] = mem'[base + 2 + i]
  <2> TAKE i \in DOMAIN Formals[f]
  <2>1. (CHOOSE j \in DOMAIN Formals[f] : RegOf[Formals[f][j]] = RegOf[Formals[f][i]]) = i
    BY <1>6
  <2>2. RegOf[Formals[f][i]] \in Reg
    BY <1>4, <1>5
  <2> QED BY <2>1, <2>2, <1>7
<1>9. \A v \in Global : reg'[RegOf[v]] = reg[RegOf[v]]
  <2> TAKE v \in Global
  <2>1. ~\E i \in DOMAIN Formals[f] : RegOf[Formals[f][i]] = RegOf[v]
    BY <1>4, <1>5
  <2>2. RegOf[v] \in Reg
    BY <1>4, <1>5
  <2> QED BY <2>1, <2>2, <1>7
<1> QED BY <1>1, <1>2, <1>8, <1>9 DEF f

LEMMA CallMeans ==
  ASSUME CallInv, NEW s \in Site, CallFrom(s)
  PROVE  Abstract!Invoke(s)
<1>0. PICK n \in Nat : n = Len(calls)
  BY DEF CallInv, TypeOK
<1>1. /\ cur = Call[s].from /\ cur' = Call[s].to
      /\ calls' = Append(calls, [site |-> s, sp |-> sp, bp |-> bp,
                                 env |-> [v \in Kept(s) |-> reg[RegOf[v]]]])
  BY DEF CallFrom
<1>2. TypeOK /\ calls \in Seq(PendingCall)
  BY DEF CallInv, TypeOK
<1>3. /\ Len(AbsFrames) = n + 1 /\ DOMAIN AbsFrames = 1 .. n + 1
      /\ Abstract!Running = cur
      /\ Abstract!Top = [site |-> IF n = 0 THEN NoSite ELSE calls[n].site,
                         env |-> [v \in Locals[cur] |-> reg[RegOf[v]]]]
  BY <1>0, AbsFramesIs
<1>4. /\ Len(calls') = n + 1 /\ calls'[n + 1].site = s
      /\ calls'[n + 1].env = [v \in Kept(s) |-> reg[RegOf[v]]]
      /\ \A i \in 1 .. n : calls'[i] = calls[i]
  BY <1>0, <1>1, <1>2
<1>5. /\ Call[s].to \in Fun /\ Call[s].from \in Fun
      /\ Locals[Call[s].to] \subseteq Var
      /\ Locals[cur] \subseteq Var \ Global /\ Global \subseteq Var /\ Var \cap Value = {}
      /\ Kept(s) \subseteq Locals[cur]
      /\ \A i \in DOMAIN Call[s].args : Call[s].args[i] \in Locals[cur] \cup Global \cup Value
  BY <1>1, SiteIs, LateIs, SavedFinite, ProgramAssumption
<1>6. \A i \in DOMAIN Call[s].args : Formals[Call[s].to][i] \in Locals[Call[s].to]
  BY <1>5, SiteIs, ProgramAssumption
<1> DEFINE e == [v \in Locals[Call[s].to] |-> reg'[RegOf[v]]]
<1>7. e \in [Locals[Call[s].to] -> Value]
  BY <1>2, <1>5, LoadParamsType, RegisterAssumption
<1>8. \A i \in DOMAIN Call[s].args : e[Formals[Call[s].to][i]] = Abstract!Meaning(Call[s].args[i])
  <2> TAKE i \in DOMAIN Call[s].args
  <2> DEFINE a == Call[s].args[i]
  <2>1. e[Formals[Call[s].to][i]] = Operand(a)
    BY <1>2, <1>6, LoadedIs
  <2>2. a \in Locals[cur] \cup Global \cup Value
    BY <1>5
  <2> HIDE DEF a
  <2>3. Operand(a) = Abstract!Meaning(a)
    BY <2>2, <1>3, <1>5 DEF Operand, Abstract!Meaning
  <2> QED BY <2>1, <2>3 DEF a
<1>9. AbsFrames' = Append([AbsFrames EXCEPT ![n + 1].env = [v \in Kept(s) |-> @[v]]],
                          [site |-> s, env |-> e])
  <2> DEFINE g == [AbsFrames EXCEPT ![n + 1].env = [v \in Kept(s) |-> @[v]]]
  <2>1. AbsFrames' = [i \in 1 .. n + 2 |->
                        [ site |-> IF i = 1 THEN NoSite ELSE calls'[i - 1].site,
                          env  |-> IF i = n + 2 THEN e ELSE calls'[i].env ]]
    BY <1>1, <1>4, SMTT(30) DEF AbsFrames
  <2>2. AbsFrames = [i \in 1 .. n + 1 |->
                       [ site |-> IF i = 1 THEN NoSite ELSE calls[i - 1].site,
                         env  |-> IF i = n + 1 THEN [v \in Locals[cur] |-> reg[RegOf[v]]]
                                  ELSE calls[i].env ]]
    BY <1>0 DEF AbsFrames
  <2> HIDE DEF e
  <2>3. g = [i \in 1 .. n + 1 |->
               [ site |-> IF i = 1 THEN NoSite ELSE calls[i - 1].site,
                 env  |-> IF i = n + 1 THEN [v \in Kept(s) |-> reg[RegOf[v]]]
                          ELSE calls[i].env ]]
    <3>1. AbsFrames[n + 1].env = [v \in Locals[cur] |-> reg[RegOf[v]]]
      BY <2>2
    <3>2. [v \in Kept(s) |-> AbsFrames[n + 1].env[v]] = [v \in Kept(s) |-> reg[RegOf[v]]]
      BY <3>1, <1>5
    <3> DEFINE h == [v \in Kept(s) |-> reg[RegOf[v]]]
    <3>3. g = [AbsFrames EXCEPT ![n + 1].env = h]
      BY <3>2
    <3> HIDE DEF g, h
    <3>4. n + 1 \in 1 .. n + 1
      OBVIOUS
    <3>5. \A i \in 1 .. n + 1 : i # n + 1 => g[i] = AbsFrames[i]
      BY <3>3, <2>2
    <3>6. g[n + 1] = [AbsFrames[n + 1] EXCEPT !.env = h]
      BY <3>3, <3>4, <2>2
    <3>7. g[n + 1] = [site |-> IF n + 1 = 1 THEN NoSite ELSE calls[(n + 1) - 1].site, env |-> h]
      BY <3>6, <3>4, <2>2
    <3>8. g = [i \in 1 .. n + 1 |-> g[i]]
      BY <3>3, <2>2
    <3>9. \A i \in 1 .. n + 1 :
            g[i] = [ site |-> IF i = 1 THEN NoSite ELSE calls[i - 1].site,
                     env  |-> IF i = n + 1 THEN h ELSE calls[i].env ]
      BY <3>5, <3>7, <2>2
    <3> QED BY <3>8, <3>9 DEF h
  <2>4. \A i \in 1 .. n + 1 : AbsFrames'[i] = g[i]
    <3> TAKE i \in 1 .. n + 1
    <3>1. i # 1 => calls'[i - 1] = calls[i - 1]
      BY <1>4
    <3>2. calls'[i].env = IF i = n + 1 THEN [v \in Kept(s) |-> reg[RegOf[v]]] ELSE calls[i].env
      BY <1>4
    <3>3. i \in 1 .. n + 2 /\ i # n + 2
      OBVIOUS
    <3>4. AbsFrames'[i] = [ site |-> IF i = 1 THEN NoSite ELSE calls'[i - 1].site,
                            env  |-> calls'[i].env ]
      BY <3>3, <2>1
    <3> QED BY <3>1, <3>2, <3>4, <2>3
  <2>5. AbsFrames'[n + 2] = [site |-> s, env |-> e]
    BY <2>1, <1>4
  <2>6. DOMAIN g = 1 .. n + 1 /\ \E S : g \in Seq(S)
    <3> DEFINE S == { g[i] : i \in 1 .. n + 1 }
    <3>1. g = [i \in 1 .. n + 1 |-> g[i]]
      BY <2>3
    <3>2. g \in [1 .. n + 1 -> S]
      BY <3>1
    <3> HIDE DEF S, g
    <3>3. g \in Seq(S)
      BY <3>2
    <3> QED BY <3>2, <3>3
  <2>7. DOMAIN AbsFrames' = 1 .. n + 2 /\ AbsFrames' = [i \in 1 .. n + 2 |-> AbsFrames'[i]]
    BY <2>1
  <2> HIDE DEF g
  <2>8. AbsFrames' = Append(g, [site |-> s, env |-> e])
    BY <2>4, <2>5, <2>6, <2>7
  <2> QED BY <2>8 DEF g
<1>a. AbsFrames' = Append([AbsFrames EXCEPT ![n + 1].env = [v \in [t \in Site |-> Kept(t)][s] |-> @[v]]],
                          [site |-> s, env |-> e])
  <2>1. [t \in Site |-> Kept(t)][s] = Kept(s)
    OBVIOUS
  <2> QED BY <1>9, <2>1
<1>10. [v \in Global |-> reg[RegOf[v]]]' = [v \in Global |-> reg[RegOf[v]]]
  BY <1>2, LoadedIs
<1> HIDE DEF e
<1> QED BY <1>1, <1>3, <1>7, <1>8, <1>a, <1>10 DEF Abstract!Invoke

LEMMA ReturnMeans ==
  ASSUME CallInv, NEW x \in Value, Return(x)
  PROVE  Abstract!Leave(x)
<1> DEFINE s == LastCall.site
           e == [v \in Locals[Call[s].from] |-> reg'[RegOf[v]]]
<1>0. PICK n \in Nat : n = Len(calls)
  BY DEF CallInv, TypeOK
<1>1. /\ calls # <<>> /\ s \in Site /\ cur' = Call[s].from
      /\ calls' = SubSeq(calls, 1, n - 1)
  BY <1>0, Popped DEF Return
<1>2. calls \in Seq(PendingCall) /\ n \in 1 .. n /\ n # 0 /\ LastCall = calls[n]
  BY <1>0, <1>1 DEF CallInv, TypeOK, LastCall
<1>3. /\ Len(AbsFrames) = n + 1 /\ Abstract!Top.site = s
      /\ \E S : AbsFrames \in Seq(S)
  BY <1>0, <1>2, AbsFramesIs
<1>4. /\ \A v \in Kept(s) : reg'[RegOf[v]] = LastCall.env[v]
      /\ \A v \in Global : v # Call[s].result => reg'[RegOf[v]] = reg[RegOf[v]]
      /\ Call[s].result # NoVar /\ Call[s].result \notin Reloaded(s) => reg'[RegOf[Call[s].result]] = x
  BY RestoredIs
<1>5. /\ Call[s].from \in Fun /\ Locals[Call[s].from] \subseteq Var \ Global
      /\ Global \subseteq Var /\ NoVar \notin Var
      /\ Kept(s) \subseteq Locals[Call[s].from] /\ Reloaded(s) \subseteq Locals[Call[s].from]
      /\ (Late(s) = {} => Reloaded(s) = Saved(s)) /\ RegOf \in [Var -> Reg]
  BY <1>1, SiteIs, LateIs, SavedFinite, ProgramAssumption, RegisterAssumption
<1>6. DOMAIN e = Locals[Call[s].from]
  OBVIOUS
<1>7. AbsFrames = [i \in 1 .. n + 1 |->
                     [ site |-> IF i = 1 THEN NoSite ELSE calls[i - 1].site,
                       env  |-> IF i = n + 1 THEN [v \in Locals[cur] |-> reg[RegOf[v]]]
                                ELSE calls[i].env ]]
  BY <1>0 DEF AbsFrames
<1>8. AbsFrames[n].env = LastCall.env
  BY <1>2, <1>7
<1>9. \A v \in [t \in Site |-> Kept(t)][s] : e[v] = AbsFrames[n].env[v]
  BY <1>1, <1>4, <1>5, <1>8
<1>10. s \in {t \in Site : Late(t) = {} /\ Call[t].result \notin Saved(t)} /\ Call[s].result \in DOMAIN e
         => e[Call[s].result] = x
  BY <1>4, <1>5
<1>11. [v \in Global |-> reg[RegOf[v]]]'
         = IF Call[s].result \in Global
           THEN [[v \in Global |-> reg[RegOf[v]]] EXCEPT ![Call[s].result] = x]
           ELSE [v \in Global |-> reg[RegOf[v]]]
  BY <1>4, <1>5
<1>12. AbsFrames' = [SubSeq(AbsFrames, 1, n) EXCEPT ![n].env = e] /\ AbsFrames'[n].env = e
  <2>1. /\ Len(calls') = n - 1
        /\ \A i \in 1 .. n - 1 : calls'[i] = calls[i]
    BY <1>0, <1>1, <1>2, SubSeqProperties
  <2>2. AbsFrames' = [i \in 1 .. n |->
                        [ site |-> IF i = 1 THEN NoSite ELSE calls'[i - 1].site,
                          env  |-> IF i = n THEN e ELSE calls'[i].env ]]
    BY <1>1, <1>2, <2>1 DEF AbsFrames
  <2> DEFINE g == SubSeq(AbsFrames, 1, n)
  <2>3. g = [i \in 1 .. n |-> AbsFrames[i]]
    BY <1>2, <1>3, SubSeqProperties
  <2> HIDE DEF g, e
  <2>4. /\ [g EXCEPT ![n].env = e] = [i \in 1 .. n |-> [g EXCEPT ![n].env = e][i]]
        /\ AbsFrames' = [i \in 1 .. n |-> AbsFrames'[i]]
    BY <2>2, <2>3
  <2>5. \A i \in 1 .. n : i # n => [g EXCEPT ![n].env = e][i] = AbsFrames'[i]
    <3> TAKE i \in 1 .. n
    <3> HAVE i # n
    <3>1. i \in 1 .. n - 1 /\ i \in 1 .. n + 1 /\ i # n + 1 /\ (i # 1 => i - 1 \in 1 .. n - 1)
      OBVIOUS
    <3>2. [g EXCEPT ![n].env = e][i] = [ site |-> IF i = 1 THEN NoSite ELSE calls[i - 1].site,
                                         env  |-> calls[i].env ]
      BY <2>3, <3>1, <1>7
    <3> QED BY <3>1, <3>2, <2>1, <2>2
  <2>6. [g EXCEPT ![n].env = e][n] = AbsFrames'[n]
    <3>1. n \in 1 .. n /\ n \in 1 .. n + 1 /\ n # n + 1 /\ (n # 1 => n - 1 \in 1 .. n - 1)
      BY <1>2
    <3>2. [g EXCEPT ![n].env = e][n] = [AbsFrames[n] EXCEPT !.env = e]
      BY <2>3, <3>1
    <3>3. AbsFrames[n] = [ site |-> IF n = 1 THEN NoSite ELSE calls[n - 1].site,
                           env  |-> calls[n].env ]
      BY <3>1, <1>7
    <3>4. [AbsFrames[n] EXCEPT !.env = e] = [ site |-> IF n = 1 THEN NoSite ELSE calls[n - 1].site,
                                              env  |-> e ]
      BY <3>3
    <3> QED BY <3>1, <3>2, <3>4, <2>1, <2>2
  <2>7. \A i \in 1 .. n : [g EXCEPT ![n].env = e][i] = AbsFrames'[i]
    BY <2>5, <2>6
  <2>8. AbsFrames' = [g EXCEPT ![n].env = e]
    BY <2>4, <2>7
  <2>9. AbsFrames'[n].env = e
    BY <1>2, <2>2
  <2> QED BY <2>8, <2>9 DEF g
<1>13. s # NoSite /\ Len(AbsFrames) - 1 = n
  BY <1>1, <1>3, ProgramAssumption
<1> HIDE DEF e, s
<1> DEFINE back == AbsFrames'[Len(AbsFrames) - 1].env
<1>14. back = e
  BY <1>12, <1>13
<1>15. AbsFrames' = [SubSeq(AbsFrames, 1, Len(AbsFrames) - 1) EXCEPT ![Len(AbsFrames) - 1].env = back]
  BY <1>12, <1>13, <1>14
<1>16. DOMAIN back = Locals[Call[Abstract!Top.site].from] /\ Abstract!Top.site # NoSite
  BY <1>3, <1>6, <1>13, <1>14
<1>18. \A v \in [t \in Site |-> Kept(t)][Abstract!Top.site] : back[v] = AbsFrames[Len(AbsFrames) - 1].env[v]
  BY <1>3, <1>9, <1>13, <1>14
<1>19. Abstract!Top.site \in {t \in Site : Late(t) = {} /\ Call[t].result \notin Saved(t)}
         /\ Call[Abstract!Top.site].result \in DOMAIN back => back[Call[Abstract!Top.site].result] = x
  BY <1>3, <1>10, <1>14
<1>17. [v \in Global |-> reg[RegOf[v]]]'
         = IF Call[Abstract!Top.site].result \in Global
           THEN [[v \in Global |-> reg[RegOf[v]]] EXCEPT ![Call[Abstract!Top.site].result] = x]
           ELSE [v \in Global |-> reg[RegOf[v]]]
  BY <1>3, <1>11
<1> QED BY <1>15, <1>16, <1>17, <1>18, <1>19, Zenon DEF Abstract!Leave

\* Every step of the machine is a step of the call stack, or none.
LEMMA NextMeans ==
  ASSUME CallInv, [Next]_vars
  PROVE  [Abstract!StackNext]_(Abstract!stackVars)
<1>1. ASSUME NEW v \in Var, NEW x \in Value, Assign(v, x)
      PROVE  Abstract!StackNext
  BY <1>1, AssignMeans DEF Abstract!StackNext
<1>2. ASSUME NEW s \in Site, CallFrom(s)
      PROVE  Abstract!StackNext
  BY <1>2, CallMeans DEF Abstract!StackNext
<1>3. ASSUME NEW x \in Value, Return(x)
      PROVE  Abstract!StackNext
  BY <1>3, ReturnMeans DEF Abstract!StackNext
<1>4. CASE UNCHANGED vars
  BY <1>4 DEF vars, Abstract!stackVars, AbsFrames
<1> QED BY <1>1, <1>2, <1>3, <1>4 DEF Next

\* For every program, the instructions of a call and of a return do what
\* CallStack says: arguments by value, globals shared, the caller's variables
\* of entrySet kept and the result delivered, unless the call has late
\* arguments or the result is one of those variables.
THEOREM Implements == Spec => MeansCall
<1>1. Init => Abstract!StackInit
  BY InitMeans
<1>2. CallInv /\ [Next]_vars => [Abstract!StackNext]_(Abstract!stackVars)
  BY NextMeans
<1> QED BY <1>1, <1>2, InitInv, NextInv, PTL DEF Spec, MeansCall, Abstract!StackSpec
=============================================================================

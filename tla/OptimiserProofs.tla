--------------------------- MODULE OptimiserProofs ---------------------------
(***************************************************************************)
(* The optimiser's walk over the vector it erases from, for any code whose *)
(* operations write temporaries of their own: its positions stay within    *)
(* the vector, and pass 1 leaves no repeat behind it.                      *)
(*                                                                         *)
(* RepeatInv says it of the part that is done, and of the quadruple in     *)
(* hand what has been seen between i and j.  It needs the temporaries to   *)
(* stay fresh: an erased repeat might otherwise have been what kept two    *)
(* others apart, and an operand put in might make a repeat of what was     *)
(* passed over.                                                            *)
(***************************************************************************)
EXTENDS Optimiser, DataLemmas, SequenceTheorems, TLAPS

-----------------------------------------------------------------------------
(* The invariant.                                                          *)

Quadruples(code) ==
  /\ code \in Seq(ToSet(code))
  /\ \A k \in DOMAIN code : DOMAIN code[k] = Fields

\* What is left of the code is quadruples of the code, as far as the results
\* go, which stay elements that hold nothing else.
CodeInv ==
  /\ Quadruples(quads)
  /\ \A k \in DOMAIN quads :
       /\ quads[k].res \in { source[l].res : l \in DOMAIN source }
       /\ quads[k].res[1] \in {"var", "temp", "none"}

Apart(code, k, l) == \E p \in k + 1 .. l - 1 : Jumps(code[p]) \/ Reassigns(code[p], code[k])

\* The quadruples in front of i have no repeat behind them.
Done ==
  \A k, l \in DOMAIN quads :
    k < l /\ k < i /\ Candidate(quads[k]) /\ SameExpression(quads[k], quads[l]) => Apart(quads, k, l)

\* i is in hand, and what is between it and j is no reason to stop.
InHand ==
  j # 0 =>
    /\ Candidate(mine)
    /\ mine.op # "ASSIGN" => \A l \in i + 1 .. j - 1 : ~SameExpression(mine, quads[l])
    /\ mine.op = "ASSIGN" => \A l \in i + 1 .. j - 1 : ~Jumps(quads[l]) /\ ~Reads(quads[l], mine.res)

RepeatInv ==
  /\ pass = 1 => Fresh(quads) /\ Done /\ InHand
  /\ NoRepeats

OptInv == TypeOK /\ CodeInv /\ RepeatInv

-----------------------------------------------------------------------------
(* Erasing a quadruple.                                                    *)

\* The quadruples behind the erased one move up by one.
LEMMA RemoveAtIs ==
  ASSUME NEW S, NEW s \in Seq(S), NEW n \in 1 .. Len(s)
  PROVE  /\ RemoveAt(s, n) \in Seq(S) /\ Len(RemoveAt(s, n)) = Len(s) - 1
         /\ \A k \in 1 .. Len(s) - 1 : RemoveAt(s, n)[k] = s[IF k < n THEN k ELSE k + 1]
<1> DEFINE a == SubSeq(s, 1, n - 1)
           b == SubSeq(s, n + 1, Len(s))
<1>1. n - 1 \in Int /\ n + 1 \in Int /\ Len(s) \in Nat /\ 1 \in Int
  OBVIOUS
<1>2. a \in Seq(S) /\ Len(a) = n - 1 /\ \A k \in 1 .. n - 1 : a[k] = s[k]
  <2>1. \A k \in 1 .. n - 1 : s[k] \in S
    OBVIOUS
  <2>2. /\ a \in Seq(S) /\ Len(a) = IF 1 <= n - 1 THEN (n - 1) - 1 + 1 ELSE 0
        /\ \A k \in 1 .. (n - 1) - 1 + 1 : a[k] = s[1 + k - 1]
    BY <1>1, <2>1, SubSeqProperties
  <2> HIDE DEF a
  <2>3. Len(a) = n - 1
    BY <2>2
  <2>4. \A k \in 1 .. n - 1 : k \in 1 .. (n - 1) - 1 + 1 /\ 1 + k - 1 = k
    OBVIOUS
  <2> QED BY <2>2, <2>3, <2>4
<1>3. b \in Seq(S) /\ Len(b) = Len(s) - n /\ \A k \in 1 .. Len(s) - n : b[k] = s[n + k]
  <2>1. \A k \in n + 1 .. Len(s) : s[k] \in S
    OBVIOUS
  <2>2. /\ b \in Seq(S) /\ Len(b) = IF n + 1 <= Len(s) THEN Len(s) - (n + 1) + 1 ELSE 0
        /\ \A k \in 1 .. Len(s) - (n + 1) + 1 : b[k] = s[(n + 1) + k - 1]
    BY <1>1, <2>1, SubSeqProperties
  <2> HIDE DEF b
  <2> QED BY <2>2
<1>4. RemoveAt(s, n) = a \o b
  BY DEF RemoveAt
<1> HIDE DEF a, b
<1>5. /\ a \o b \in Seq(S) /\ Len(a \o b) = Len(a) + Len(b)
      /\ \A k \in 1 .. Len(a) + Len(b) : (a \o b)[k] = IF k <= Len(a) THEN a[k] ELSE b[k - Len(a)]
  BY <1>2, <1>3, ConcatProperties
<1>6. ASSUME NEW k \in 1 .. Len(s) - 1
      PROVE  (a \o b)[k] = s[IF k < n THEN k ELSE k + 1]
  <2>1. (a \o b)[k] = IF k <= n - 1 THEN a[k] ELSE b[k - (n - 1)]
    BY <1>2, <1>3, <1>5
  <2>2. CASE k < n
    <3>1. k \in 1 .. n - 1 /\ k <= n - 1
      BY <2>2
    <3> QED BY <1>2, <2>1, <2>2, <3>1
  <2>3. CASE ~ (k < n)
    <3>1. k - (n - 1) \in 1 .. Len(s) - n /\ ~(k <= n - 1) /\ n + (k - (n - 1)) = k + 1
      BY <2>3
    <3> QED BY <1>3, <2>1, <2>3, <3>1
  <2> QED BY <2>2, <2>3
<1> QED BY <1>2, <1>3, <1>4, <1>5, <1>6

Kept(n, k) == IF k < n THEN k ELSE k + 1

\* What is left of the code, quadruple by quadruple.
LEMMA Erased ==
  ASSUME CodeInv, NEW n \in 1 .. Len(quads), NEW new, new = RemoveAt(quads, n)
  PROVE  /\ Quadruples(new) /\ Len(new) = Len(quads) - 1 /\ Len(quads) \in Nat
         /\ DOMAIN new = 1 .. Len(quads) - 1 /\ DOMAIN quads = 1 .. Len(quads)
         /\ \A k \in DOMAIN new : Kept(n, k) \in DOMAIN quads /\ new[k] = quads[Kept(n, k)]
<1>1. quads \in Seq(ToSet(quads))
  BY DEF CodeInv, Quadruples
<1> DEFINE L == Len(quads)
<1>2. L \in Nat /\ DOMAIN quads = 1 .. L
  BY <1>1
<1>3. /\ new \in Seq(ToSet(quads)) /\ Len(new) = L - 1
      /\ \A k \in 1 .. L - 1 : new[k] = quads[Kept(n, k)]
  BY <1>1, RemoveAtIs DEF Kept
<1>4. new \in Seq(ToSet(new)) /\ DOMAIN new = 1 .. L - 1
  BY <1>3, OwnElements
<1>5. \A k \in 1 .. L - 1 : Kept(n, k) \in 1 .. L
  BY <1>2 DEF Kept
<1>6. \A k \in DOMAIN new : DOMAIN new[k] = Fields
  BY <1>2, <1>3, <1>4, <1>5 DEF CodeInv, Quadruples
<1> QED BY <1>2, <1>3, <1>4, <1>5, <1>6 DEF Quadruples

\* Erasing a quadruple leaves the others' results as different as they were.
LEMMA FreshErased ==
  ASSUME CodeInv, Fresh(quads), NEW n \in 1 .. Len(quads), NEW new, new = RemoveAt(quads, n)
  PROVE  Fresh(new)
<1>1. /\ Len(quads) \in Nat /\ DOMAIN new = 1 .. Len(quads) - 1 /\ DOMAIN quads = 1 .. Len(quads)
      /\ \A k \in DOMAIN new : Kept(n, k) \in DOMAIN quads /\ new[k] = quads[Kept(n, k)]
  BY Erased
<1> SUFFICES ASSUME NEW d \in DOMAIN new, Arithmetic(new[d]), NEW p \in 1 .. d
             PROVE  ~Reads(new[p], new[d].res) /\ (p < d => new[p].res # new[d].res)
  BY DEF Fresh
<1>2. p \in DOMAIN new
  BY <1>1
<1>3. Kept(n, p) \in 1 .. Kept(n, d) /\ (p < d => Kept(n, p) < Kept(n, d))
  BY <1>1, <1>2 DEF Kept
<1> QED BY <1>1, <1>2, <1>3 DEF Fresh


-----------------------------------------------------------------------------
(* Putting i's result in.                                                  *)

\* Only the operands of j change, and only to i's result.
LEMMA Rewritten ==
  ASSUME CodeInv, j \in DOMAIN quads, NEW new, new = [quads EXCEPT ![j] = WithReplaced(@)]
  PROVE  /\ Quadruples(new) /\ DOMAIN new = DOMAIN quads /\ Len(new) = Len(quads)
         /\ \A k \in DOMAIN quads : /\ k # j => new[k] = quads[k]
                                    /\ new[k].op = quads[k].op /\ new[k].res = quads[k].res
                                    /\ new[k].label = quads[k].label
         /\ new[j].opr1 \in {quads[j].opr1, mine.res} /\ new[j].opr2 \in {quads[j].opr2, mine.res}
<1>1. quads \in Seq(ToSet(quads)) /\ \A k \in DOMAIN quads : DOMAIN quads[k] = Fields
  BY DEF CodeInv, Quadruples
<1> DEFINE q == quads[j]
           r == WithReplaced(q)
<1>2. /\ DOMAIN r = Fields /\ r.op = q.op /\ r.res = q.res /\ r.label = q.label
      /\ r.opr1 = Replaced(q.opr1) /\ r.opr2 = Replaced(q.opr2)
  BY <1>1 DEF WithReplaced, Fields
<1>3. Replaced(q.opr1) \in {q.opr1, mine.res} /\ Replaced(q.opr2) \in {q.opr2, mine.res}
  BY DEF Replaced
<1>4. /\ DOMAIN new = DOMAIN quads /\ new[j] = r
      /\ \A k \in DOMAIN quads : k # j => new[k] = quads[k]
  BY <1>1
<1>5. Len(quads) \in Nat /\ DOMAIN quads = 1 .. Len(quads)
  BY <1>1
<1>6. new \in Seq(ToSet(new)) /\ Len(new) = Len(quads)
  <2> DEFINE n == Len(quads)
             T == ToSet(new)
  <2>1. new \in [1 .. n -> T] /\ n \in Nat
    BY <1>4, <1>5 DEF ToSet
  <2> HIDE DEF n, T
  <2>2. new \in Seq(T) /\ Len(new) = n
    BY <2>1, FunctionIsSeq
  <2> QED BY <2>2 DEF n, T
<1> HIDE DEF q, r
<1>7. \A k \in DOMAIN quads : /\ DOMAIN new[k] = Fields /\ new[k].op = quads[k].op
                              /\ new[k].res = quads[k].res /\ new[k].label = quads[k].label
  BY <1>1, <1>2, <1>4 DEF q
<1> QED BY <1>2, <1>3, <1>4, <1>6, <1>7 DEF Quadruples, q

\* The results are the same, so the code stays fresh.
LEMMA FreshRewritten ==
  ASSUME CodeInv, Fresh(quads), j \in DOMAIN quads, i \in DOMAIN quads, i < j, Arithmetic(mine),
         NEW new, new = [quads EXCEPT ![j] = WithReplaced(@)]
  PROVE  Fresh(new)
<1>1. /\ DOMAIN new = DOMAIN quads
      /\ \A k \in DOMAIN quads : /\ k # j => new[k] = quads[k]
                                 /\ new[k].op = quads[k].op /\ new[k].res = quads[k].res
      /\ new[j].opr1 \in {quads[j].opr1, mine.res} /\ new[j].opr2 \in {quads[j].opr2, mine.res}
  BY Rewritten
<1>2. DOMAIN quads = 1 .. Len(quads) /\ Len(quads) \in Nat
  BY DEF CodeInv, Quadruples
<1> SUFFICES ASSUME NEW d \in DOMAIN new, Arithmetic(new[d]), NEW p \in 1 .. d
             PROVE  ~Reads(new[p], new[d].res) /\ (p < d => new[p].res # new[d].res)
  BY DEF Fresh
<1>3. d \in DOMAIN quads /\ p \in DOMAIN quads /\ Arithmetic(quads[d]) /\ new[d].res = quads[d].res
  BY <1>1, <1>2 DEF Arithmetic
<1>4. ~Reads(quads[p], quads[d].res) /\ (p < d => quads[p].res # quads[d].res)
  BY <1>3 DEF Fresh
<1>5. CASE p # j
  BY <1>1, <1>3, <1>4, <1>5
<1>6. CASE p = j
  <2>1. i \in 1 .. d /\ i < d
    BY <1>2, <1>3, <1>6
  <2>2. mine.res # quads[d].res
    BY <1>3, <2>1 DEF Fresh, mine
  <2>3. ~Uses(mine.res, quads[d].res)
    BY <2>2 DEF CodeInv, mine, Uses
  <2>4. ~Reads(new[j], quads[d].res)
    BY <1>1, <1>4, <1>6, <2>3 DEF Reads
  <2> QED BY <1>1, <1>3, <1>4, <1>6, <2>4
<1> QED BY <1>5, <1>6

-----------------------------------------------------------------------------
(* Comparing quadruples.                                                   *)

\* Two quadruples that compute the same read the same.
LEMMA SameReads ==
  ASSUME NEW q, NEW r, SameExpression(q, r), NEW e, e \in {q.opr1, q.opr2}
  PROVE  Reads(r, e) /\ Reads(q, e) /\ Arithmetic(q) /\ Arithmetic(r)
BY DEF SameExpression, Reads, Uses, Arithmetic

\* A quadruple that is reassigned reads what is assigned.
LEMMA ReassignsReads ==
  ASSUME NEW q, NEW r, Reassigns(q, r)
  PROVE  q.res \in {r.opr1, r.opr2} /\ Reads(r, q.res)
BY DEF Reassigns, Reads, Uses

\* What an operation writes, it and those in front of it do not read.
LEMMA NotReadBefore ==
  ASSUME Fresh(quads), NEW d \in DOMAIN quads, Arithmetic(quads[d]), NEW p \in 1 .. d
  PROVE  ~Reads(quads[p], quads[d].res)
BY DEF Fresh

LEMMA InitOpt ==
  ASSUME Init
  PROVE  OptInv
<1>1. source \in Sources /\ quads = source /\ pass = 1 /\ i = 1 /\ j = 0 /\ replaceSet = {} /\ replaceIndex = 0
  BY DEF Init
<1>2. /\ quads \in Seq(ToSet(quads)) /\ Fresh(quads)
      /\ \A q \in ToSet(quads) : DOMAIN q = Fields /\ q.res[1] \in {"var", "temp", "none"}
  BY <1>1, SourcesAssumption
<1>3. Len(quads) \in Nat /\ \A k \in DOMAIN quads : quads[k] \in ToSet(quads)
  BY <1>2 DEF ToSet
<1>4. CodeInv
  BY <1>1, <1>2, <1>3 DEF CodeInv, Quadruples
<1>5. TypeOK
  BY <1>1, <1>3 DEF TypeOK
<1>6. RepeatInv
  <2>1. DOMAIN quads \subseteq Nat \ {0}
    BY <1>2
  <2>2. Done
    BY <1>1, <2>1 DEF Done
  <2> QED BY <1>1, <1>2, <2>2 DEF RepeatInv, InHand, NoRepeats
<1> QED BY <1>4, <1>5, <1>6 DEF OptInv

-----------------------------------------------------------------------------
(* The steps of pass 1.                                                    *)

\* i is done with, for no repeat of it is left, and nothing is rewritten.
LEMMA PassedOpt ==
  ASSUME OptInv, pass = 1, NextQuad, UNCHANGED <<source, quads, pass>>, i \in DOMAIN quads,
         \A l \in DOMAIN quads : i < l /\ Candidate(mine) /\ SameExpression(mine, quads[l]) => Apart(quads, i, l)
  PROVE  OptInv'
<1>1. DOMAIN quads = 1 .. Len(quads) /\ Len(quads) \in Nat
  BY DEF OptInv, CodeInv, Quadruples
<1>2. TypeOK'
  BY <1>1 DEF OptInv, TypeOK, NextQuad
<1>3. CodeInv'
  BY DEF OptInv, CodeInv
<1>4. Done'
  <2> SUFFICES ASSUME NEW k \in DOMAIN quads, NEW l \in DOMAIN quads,
                      k < l, k < i + 1, Candidate(quads[k]), SameExpression(quads[k], quads[l])
               PROVE  Apart(quads, k, l)
    BY DEF Done, NextQuad, Candidate, Definition, IsGlobal
  <2>1. k < i \/ k = i
    BY <1>1
  <2> QED BY <2>1 DEF OptInv, RepeatInv, Done, mine
<1>5. RepeatInv'
  BY <1>4 DEF OptInv, RepeatInv, NoRepeats, InHand, NextQuad
<1> QED BY <1>2, <1>3, <1>5 DEF OptInv

LEMMA SkipOpt ==
  ASSUME OptInv, Skip
  PROVE  OptInv'
<1>1. i \in DOMAIN quads
  BY DEF Skip, Outer1, OptInv, TypeOK, CodeInv, Quadruples
<1> QED BY <1>1, PassedOpt DEF Skip, Outer1

LEMMA TakeOpt ==
  ASSUME OptInv, Take
  PROVE  OptInv'
<1>1. pass = 1 /\ j = 0 /\ i < Len(quads) /\ Candidate(mine) /\ j' = i + 1 /\ i \in 1 .. Len(quads)
      /\ Len(quads) \in Nat /\ UNCHANGED <<source, quads, pass, i, replaceSet, replaceIndex>>
  BY DEF Take, Outer1, OptInv, TypeOK, CodeInv, Quadruples
<1>2. TypeOK'
  BY <1>1 DEF OptInv, TypeOK
<1>3. CodeInv'
  BY <1>1 DEF OptInv, CodeInv
<1>4. Done'
  BY <1>1 DEF OptInv, RepeatInv, Done, Candidate, Definition, IsGlobal
<1>5. InHand'
  <2>1. \A l \in i + 1 .. (i + 1) - 1 : FALSE
    BY <1>1
  <2> QED BY <1>1, <2>1 DEF InHand, mine, Candidate, Definition, IsGlobal
<1> QED BY <1>1, <1>2, <1>3, <1>4, <1>5 DEF OptInv, RepeatInv, NoRepeats

\* Where the walk is, and what it has passed over.
LEMMA Walking ==
  ASSUME OptInv, pass = 1, j # 0
  PROVE  /\ i \in DOMAIN quads /\ DOMAIN quads = 1 .. Len(quads) /\ Len(quads) \in Nat
         /\ i \in Nat /\ j \in Nat /\ i < j /\ j <= Len(quads) + 1
         /\ Fresh(quads) /\ Done /\ Candidate(mine) /\ CodeInv
         /\ mine.op # "ASSIGN" =>
              Arithmetic(mine) /\ \A l \in i + 1 .. j - 1 : ~SameExpression(mine, quads[l])
         /\ mine.op = "ASSIGN" =>
              ~Arithmetic(mine) /\ \A l \in i + 1 .. j - 1 : ~Jumps(quads[l]) /\ ~Reads(quads[l], mine.res)
<1>1. DOMAIN quads = 1 .. Len(quads) /\ Len(quads) \in Nat
  BY DEF OptInv, CodeInv, Quadruples
<1>2. i \in 1 .. Len(quads) + 1 /\ i < j /\ j <= Len(quads) + 1 /\ j \in Nat
  BY <1>1 DEF OptInv, TypeOK
<1>3. Fresh(quads) /\ Done /\ InHand /\ CodeInv
  BY DEF OptInv, RepeatInv
<1>4. Candidate(mine) => Arithmetic(mine) \/ mine.op = "ASSIGN"
  BY DEF Candidate, Definition
<1>5. mine.op = "ASSIGN" => ~Arithmetic(mine)
  BY DEF Arithmetic
<1> QED BY <1>1, <1>2, <1>3, <1>4, <1>5 DEF InHand


LEMMA Exhausted1Opt ==
  ASSUME OptInv, Exhausted1
  PROVE  OptInv'
<1>1. pass = 1 /\ j > Len(quads) /\ NextQuad /\ UNCHANGED <<source, quads, pass>>
  BY DEF Exhausted1
<1>2. j # 0
  BY <1>1 DEF OptInv, CodeInv, Quadruples
<1>3. /\ i \in DOMAIN quads /\ DOMAIN quads = 1 .. Len(quads) /\ Len(quads) \in Nat /\ i \in Nat /\ j \in Nat
      /\ mine.op # "ASSIGN" => \A l \in i + 1 .. j - 1 : ~SameExpression(mine, quads[l])
      /\ mine.op = "ASSIGN" => ~Arithmetic(mine)
  BY <1>1, <1>2, Walking
<1>4. \A l \in DOMAIN quads : i < l => ~SameExpression(mine, quads[l])
  <2>1. \A l \in DOMAIN quads : i < l => l \in i + 1 .. j - 1
    BY <1>1, <1>3
  <2>2. \A q : SameExpression(mine, q) => Arithmetic(mine)
    BY DEF SameExpression
  <2> QED BY <1>3, <2>1, <2>2
<1> QED BY <1>1, <1>3, <1>4, PassedOpt

LEMMA KeepDefinitionOpt ==
  ASSUME OptInv, KeepDefinition
  PROVE  OptInv'
<1>1. pass = 1 /\ j # 0 /\ mine.op = "ASSIGN" /\ NextQuad /\ UNCHANGED <<source, quads, pass>>
  BY DEF KeepDefinition, InnerOf1
<1>2. i \in DOMAIN quads /\ ~Arithmetic(mine)
  BY <1>1, Walking
<1>3. \A q : ~SameExpression(mine, q)
  BY <1>2 DEF SameExpression
<1> QED BY <1>1, <1>2, <1>3, PassedOpt

LEMMA StopAtJumpOpt ==
  ASSUME OptInv, StopAtJump
  PROVE  OptInv'
<1>1. /\ pass = 1 /\ j # 0 /\ mine.op # "ASSIGN" /\ j <= Len(quads) /\ Jumps(its)
      /\ NextQuad /\ UNCHANGED <<source, quads, pass>>
  BY DEF StopAtJump, InnerOf1
<1>2. /\ i \in DOMAIN quads /\ DOMAIN quads = 1 .. Len(quads) /\ Len(quads) \in Nat /\ i \in Nat /\ j \in Nat
      /\ i < j /\ \A l \in i + 1 .. j - 1 : ~SameExpression(mine, quads[l])
  BY <1>1, Walking
<1>3. ASSUME NEW l \in DOMAIN quads, i < l, SameExpression(mine, quads[l])
      PROVE  Apart(quads, i, l)
  <2>1. l # j
    BY <1>1, <1>3 DEF SameExpression, Jumps, Arithmetic, its
  <2>2. j \in i + 1 .. l - 1
    BY <1>2, <1>3, <2>1
  <2> QED BY <1>1, <2>2 DEF Apart, its
<1> QED BY <1>1, <1>2, <1>3, PassedOpt

LEMMA EraseDefinitionOpt ==
  ASSUME OptInv, EraseDefinition
  PROVE  OptInv'
<1>1. /\ pass = 1 /\ j # 0 /\ mine.op = "ASSIGN" /\ j <= Len(quads) /\ ~StopsDefinition
      /\ its.res = mine.res /\ quads' = RemoveAt(quads, i) /\ SameQuad /\ UNCHANGED <<source, pass>>
  BY DEF EraseDefinition, InnerOf1
<1>2. /\ i \in DOMAIN quads /\ DOMAIN quads = 1 .. Len(quads) /\ Len(quads) \in Nat /\ i \in Nat /\ j \in Nat
      /\ i < j /\ Fresh(quads) /\ Done /\ Candidate(mine) /\ CodeInv
      /\ \A l \in i + 1 .. j - 1 : ~Jumps(quads[l]) /\ ~Reads(quads[l], mine.res)
  BY <1>1, Walking
<1>3. /\ Quadruples(quads') /\ Len(quads') = Len(quads) - 1 /\ DOMAIN quads' = 1 .. Len(quads) - 1
      /\ \A k \in DOMAIN quads' : Kept(i, k) \in DOMAIN quads /\ quads'[k] = quads[Kept(i, k)]
  BY <1>1, <1>2, Erased
<1>4. Fresh(quads')
  BY <1>1, <1>2, FreshErased
<1>5. TypeOK'
  BY <1>1, <1>2, <1>3 DEF OptInv, TypeOK, SameQuad
<1>6. CodeInv'
  BY <1>1, <1>2, <1>3 DEF CodeInv
<1>7. Done'
  <2> SUFFICES ASSUME NEW k \in DOMAIN quads', NEW l \in DOMAIN quads',
                      k < l, k < i, Candidate(quads'[k]), SameExpression(quads'[k], quads'[l])
               PROVE  Apart(quads', k, l)
    BY <1>1 DEF Done, SameQuad, Candidate, Definition, IsGlobal
  <2> DEFINE L == Kept(i, l)
  <2>1. /\ k \in Nat /\ l \in Nat /\ Kept(i, k) = k /\ k \in DOMAIN quads /\ L \in DOMAIN quads /\ L # i
        /\ quads'[k] = quads[k] /\ quads'[l] = quads[L] /\ k < L
    BY <1>2, <1>3 DEF Kept
  <2>2. PICK p \in k + 1 .. L - 1 : Jumps(quads[p]) \/ Reassigns(quads[p], quads[k])
    BY <1>2, <2>1 DEF Done, Apart
  <2>3. CASE p # i
    <3> DEFINE m == IF p < i THEN p ELSE p - 1
    <3>1. m \in k + 1 .. l - 1 /\ m \in DOMAIN quads' /\ Kept(i, m) = p
      BY <1>2, <1>3, <2>1, <2>3 DEF Kept
    <3>2. quads'[m] = quads[p]
      BY <1>3, <3>1
    <3> HIDE DEF m
    <3> QED BY <2>1, <2>2, <3>1, <3>2 DEF Apart
  <2>4. CASE p = i
    <3>1. Reassigns(mine, quads[k])
      BY <1>1, <2>2, <2>4 DEF mine, Jumps
    <3>2. mine.res \in {quads[k].opr1, quads[k].opr2}
      BY <3>1, ReassignsReads
    <3>3. Reads(quads[L], mine.res)
      BY <2>1, <3>2, SameReads
    <3>4. L \notin i + 1 .. j - 1
      BY <1>2, <3>3
    <3>5. L # j
      BY <1>1, <3>3 DEF StopsDefinition, its
    <3>6. L > j /\ l = L - 1
      BY <1>2, <2>1, <2>2, <2>4, <3>4, <3>5 DEF Kept
    <3>7. j - 1 \in k + 1 .. l - 1 /\ j - 1 \in DOMAIN quads' /\ Kept(i, j - 1) = j
      BY <1>1, <1>2, <1>3, <2>1, <2>2, <2>4, <3>6 DEF Kept
    <3>8. quads'[j - 1] = quads[j]
      BY <1>3, <3>7
    <3>9. Reassigns(quads[j], quads[k])
      BY <1>1, <3>1 DEF Reassigns, its
    <3> QED BY <2>1, <3>7, <3>8, <3>9 DEF Apart
  <2> QED BY <2>3, <2>4
<1> QED BY <1>1, <1>4, <1>5, <1>6, <1>7 DEF OptInv, RepeatInv, NoRepeats, InHand, SameQuad

LEMMA PassOverDefinitionOpt ==
  ASSUME OptInv, PassOverDefinition
  PROVE  OptInv'
<1>1. /\ pass = 1 /\ j # 0 /\ mine.op = "ASSIGN" /\ j <= Len(quads) /\ ~StopsDefinition /\ j' = j + 1
      /\ UNCHANGED <<source, quads, pass, i, replaceSet, replaceIndex>>
  BY DEF PassOverDefinition, InnerOf1
<1>2. /\ DOMAIN quads = 1 .. Len(quads) /\ Len(quads) \in Nat /\ i \in Nat /\ j \in Nat /\ i < j
      /\ Candidate(mine) /\ \A l \in i + 1 .. j - 1 : ~Jumps(quads[l]) /\ ~Reads(quads[l], mine.res)
  BY <1>1, Walking
<1>3. TypeOK'
  BY <1>1, <1>2 DEF OptInv, TypeOK
<1>4. CodeInv'
  BY <1>1 DEF OptInv, CodeInv
<1>5. Done'
  BY <1>1 DEF OptInv, RepeatInv, Done, Candidate, Definition, IsGlobal
<1>6. \A l \in i + 1 .. (j + 1) - 1 : ~Jumps(quads[l]) /\ ~Reads(quads[l], mine.res)
  <2>1. \A l \in i + 1 .. (j + 1) - 1 : l \in i + 1 .. j - 1 \/ l = j
    BY <1>2
  <2> QED BY <1>1, <1>2, <2>1 DEF StopsDefinition, its
<1>7. InHand'
  BY <1>1, <1>2, <1>6 DEF InHand, mine, Candidate, Definition, IsGlobal
<1> QED BY <1>1, <1>3, <1>4, <1>5, <1>7 DEF OptInv, RepeatInv, NoRepeats


\* An operand that i's result has been put in for matches nothing up to i,
\* which do not read that.
LEMMA SameRewritten ==
  ASSUME OptInv, pass = 1, j # 0, mine.op # "ASSIGN", j <= Len(quads),
         NEW new, new = [quads EXCEPT ![j] = WithReplaced(@)],
         NEW k \in 1 .. i, SameExpression(quads[k], new[j])
  PROVE  SameExpression(quads[k], quads[j])
<1>1. /\ i \in DOMAIN quads /\ DOMAIN quads = 1 .. Len(quads) /\ Len(quads) \in Nat /\ i \in Nat /\ j \in Nat
      /\ i < j /\ Fresh(quads) /\ CodeInv /\ Arithmetic(mine)
  BY Walking
<1>2. /\ new[j].op = quads[j].op
      /\ new[j].opr1 \in {quads[j].opr1, mine.res} /\ new[j].opr2 \in {quads[j].opr2, mine.res}
  <2>1. j \in DOMAIN quads
    BY <1>1
  <2> QED BY <1>1, <2>1, Rewritten
<1>3. ~Reads(quads[k], mine.res)
  BY <1>1, NotReadBefore DEF mine
<1>4. mine.res \notin {quads[k].opr1, quads[k].opr2}
  BY <1>3, SameReads
<1>5. new[j].opr1 # mine.res /\ new[j].opr2 # mine.res
  BY <1>4 DEF SameExpression
<1>6. new[j].opr1 = quads[j].opr1 /\ new[j].opr2 = quads[j].opr2
  BY <1>2, <1>5
<1> QED BY <1>2, <1>6 DEF SameExpression

\* So what is in front of i has no repeat behind it, as before.
LEMMA RewritingOpt ==
  ASSUME OptInv, pass = 1, j # 0, mine.op # "ASSIGN", j <= Len(quads),
         quads' = [quads EXCEPT ![j] = WithReplaced(@)], UNCHANGED source
  PROVE  /\ Fresh(quads') /\ CodeInv' /\ DOMAIN quads' = DOMAIN quads /\ Len(quads') = Len(quads)
         /\ \A k \in DOMAIN quads : k # j => quads'[k] = quads[k]
         /\ \A k, l \in DOMAIN quads :
              k < l /\ k < i /\ Candidate(quads'[k]) /\ SameExpression(quads'[k], quads'[l]) => Apart(quads', k, l)
<1>1. /\ i \in DOMAIN quads /\ DOMAIN quads = 1 .. Len(quads) /\ Len(quads) \in Nat /\ i \in Nat /\ j \in Nat
      /\ i < j /\ Fresh(quads) /\ Done /\ CodeInv /\ Arithmetic(mine)
  BY Walking
<1>2. /\ Quadruples(quads') /\ DOMAIN quads' = DOMAIN quads /\ Len(quads') = Len(quads)
      /\ \A k \in DOMAIN quads : /\ k # j => quads'[k] = quads[k]
                                 /\ quads'[k].op = quads[k].op /\ quads'[k].res = quads[k].res
  <2>1. j \in DOMAIN quads
    BY <1>1
  <2> QED BY <1>1, <2>1, Rewritten
<1>3. Fresh(quads')
  <2>1. j \in DOMAIN quads
    BY <1>1
  <2> QED BY <1>1, <2>1, FreshRewritten
<1>4. CodeInv'
  BY <1>1, <1>2 DEF CodeInv
<1>5. ASSUME NEW k \in DOMAIN quads, NEW l \in DOMAIN quads,
             k < l, k < i, Candidate(quads'[k]), SameExpression(quads'[k], quads'[l])
      PROVE  Apart(quads', k, l)
  <2>1. quads'[k] = quads[k] /\ k \in 1 .. i
    BY <1>1, <1>2, <1>5
  <2>2. SameExpression(quads[k], quads[l])
    <3>1. CASE l = j
      BY <1>5, <2>1, <3>1, SameRewritten
    <3>2. CASE l # j
      BY <1>2, <1>5, <2>1, <3>2
    <3> QED BY <3>1, <3>2
  <2>3. PICK p \in k + 1 .. l - 1 : Jumps(quads[p]) \/ Reassigns(quads[p], quads[k])
    BY <1>1, <1>5, <2>1, <2>2 DEF Done, Apart
  <2>4. p \in DOMAIN quads
    BY <1>1
  <2>5. Jumps(quads'[p]) \/ Reassigns(quads'[p], quads'[k])
    BY <1>2, <2>1, <2>3, <2>4 DEF Jumps, Reassigns
  <2> QED BY <2>5 DEF Apart
<1> QED BY <1>2, <1>3, <1>4, <1>5

LEMMA StopAtReassignmentOpt ==
  ASSUME OptInv, StopAtReassignment
  PROVE  OptInv'
<1>1. /\ pass = 1 /\ j # 0 /\ mine.op # "ASSIGN" /\ j <= Len(quads) /\ Reassigns(its, mine)
      /\ quads' = [quads EXCEPT ![j] = WithReplaced(@)] /\ NextQuad /\ UNCHANGED <<source, pass>>
  BY DEF StopAtReassignment, InnerOf1
<1>2. /\ i \in DOMAIN quads /\ DOMAIN quads = 1 .. Len(quads) /\ Len(quads) \in Nat /\ i \in Nat /\ j \in Nat
      /\ i < j /\ Fresh(quads) /\ CodeInv
      /\ \A l \in i + 1 .. j - 1 : ~SameExpression(mine, quads[l])
  BY <1>1, Walking
<1>3. /\ Fresh(quads') /\ CodeInv' /\ DOMAIN quads' = DOMAIN quads /\ Len(quads') = Len(quads)
      /\ \A k \in DOMAIN quads : k # j => quads'[k] = quads[k]
      /\ \A k, l \in DOMAIN quads :
           k < l /\ k < i /\ Candidate(quads'[k]) /\ SameExpression(quads'[k], quads'[l]) => Apart(quads', k, l)
  BY <1>1, RewritingOpt
<1>4. TypeOK'
  BY <1>1, <1>2, <1>3 DEF OptInv, TypeOK, NextQuad
<1>5. ASSUME NEW l \in DOMAIN quads, i < l, SameExpression(quads'[i], quads'[l])
      PROVE  Apart(quads', i, l)
  <2>1. quads'[i] = mine
    BY <1>2, <1>3 DEF mine
  <2>2. l # j
    <3> SUFFICES ASSUME l = j
                 PROVE  FALSE
      OBVIOUS
    <3>1. i \in 1 .. i
      BY <1>2
    <3>2. SameExpression(quads[i], quads'[j])
      BY <1>5, <2>1 DEF mine
    <3>3. SameExpression(mine, its)
      BY <1>1, <3>1, <3>2, SameRewritten DEF mine, its
    <3>4. Arithmetic(its)
      BY <3>3, SameReads
    <3>5. Reads(mine, its.res)
      BY <1>1, ReassignsReads
    <3>6. i \in 1 .. j /\ j \in DOMAIN quads
      BY <1>1, <1>2
    <3> QED BY <1>2, <3>4, <3>5, <3>6, NotReadBefore DEF mine, its
  <2>3. quads'[l] = quads[l]
    BY <1>3, <2>2
  <2>4. j \in i + 1 .. l - 1
    BY <1>2, <1>5, <2>1, <2>2, <2>3
  <2>5. Reassigns(quads'[j], quads'[i])
    <3>1. j \in DOMAIN quads
      BY <1>1, <1>2
    <3>2. quads'[j].res = its.res
      BY <1>1, <1>2, <3>1, Rewritten DEF its
    <3> QED BY <1>1, <2>1, <3>2 DEF Reassigns
  <2> QED BY <2>4, <2>5 DEF Apart
<1>6. Done'
  <2> SUFFICES ASSUME NEW k \in DOMAIN quads', NEW l \in DOMAIN quads',
                      k < l, k < i + 1, Candidate(quads'[k]), SameExpression(quads'[k], quads'[l])
               PROVE  Apart(quads', k, l)
    BY <1>1 DEF Done, NextQuad, Candidate, Definition, IsGlobal
  <2>1. k < i \/ k = i
    BY <1>2, <1>3
  <2> QED BY <1>3, <1>5, <2>1
<1> QED BY <1>1, <1>3, <1>4, <1>6 DEF OptInv, RepeatInv, NoRepeats, InHand, NextQuad

LEMMA ReplaceOperandsOpt ==
  ASSUME OptInv, ReplaceOperands
  PROVE  OptInv'
<1>1. /\ pass = 1 /\ j # 0 /\ mine.op # "ASSIGN" /\ j <= Len(quads) /\ ~SameExpression(mine, its)
      /\ quads' = [quads EXCEPT ![j] = WithReplaced(@)] /\ j' = j + 1
      /\ UNCHANGED <<source, pass, i, replaceSet, replaceIndex>>
  BY DEF ReplaceOperands, InnerOf1
<1>2. /\ i \in DOMAIN quads /\ DOMAIN quads = 1 .. Len(quads) /\ Len(quads) \in Nat /\ i \in Nat /\ j \in Nat
      /\ i < j /\ Candidate(mine)
      /\ \A l \in i + 1 .. j - 1 : ~SameExpression(mine, quads[l])
  BY <1>1, Walking
<1>3. /\ Fresh(quads') /\ CodeInv' /\ DOMAIN quads' = DOMAIN quads /\ Len(quads') = Len(quads)
      /\ \A k \in DOMAIN quads : k # j => quads'[k] = quads[k]
      /\ \A k, l \in DOMAIN quads :
           k < l /\ k < i /\ Candidate(quads'[k]) /\ SameExpression(quads'[k], quads'[l]) => Apart(quads', k, l)
  BY <1>1, RewritingOpt
<1>4. TypeOK'
  BY <1>1, <1>2, <1>3 DEF OptInv, TypeOK
<1>5. Done'
  BY <1>1, <1>3 DEF Done, Candidate, Definition, IsGlobal
<1>6. quads'[i] = mine
  BY <1>2, <1>3 DEF mine
<1>7. ASSUME NEW l \in i + 1 .. (j + 1) - 1
      PROVE  ~SameExpression(mine, quads'[l])
  <2>1. CASE l = j
    <3>1. i \in 1 .. i
      BY <1>2
    <3> QED BY <1>1, <2>1, <3>1, SameRewritten DEF mine, its
  <2>2. CASE l # j
    <3>1. l \in i + 1 .. j - 1 /\ l \in DOMAIN quads
      BY <1>1, <1>2, <2>2
    <3> QED BY <1>2, <1>3, <2>2, <3>1
  <2> QED BY <2>1, <2>2
<1>8. InHand'
  BY <1>1, <1>2, <1>6, <1>7 DEF InHand, mine, Candidate, Definition, IsGlobal
<1> QED BY <1>1, <1>3, <1>4, <1>5, <1>8 DEF OptInv, RepeatInv, NoRepeats

\* An erased repeat kept nothing apart: what it wrote, nothing up to it reads.
LEMMA EraseRepeatOpt ==
  ASSUME OptInv, EraseRepeat
  PROVE  OptInv'
<1>1. /\ pass = 1 /\ j # 0 /\ mine.op # "ASSIGN" /\ j <= Len(quads) /\ ~Jumps(its) /\ SameExpression(mine, its)
      /\ quads' = RemoveAt(quads, j) /\ replaceSet' = replaceSet \cup {its.res}
      /\ UNCHANGED <<source, pass, i, j, replaceIndex>>
  BY DEF EraseRepeat, RepeatFound, InnerOf1
<1>2. /\ i \in DOMAIN quads /\ DOMAIN quads = 1 .. Len(quads) /\ Len(quads) \in Nat /\ i \in Nat /\ j \in Nat
      /\ i < j /\ Fresh(quads) /\ Done /\ Candidate(mine) /\ CodeInv
      /\ \A l \in i + 1 .. j - 1 : ~SameExpression(mine, quads[l])
  BY <1>1, Walking
<1>3. j \in 1 .. Len(quads) /\ Arithmetic(its)
  BY <1>1, <1>2, SameReads
<1>4. /\ Quadruples(quads') /\ Len(quads') = Len(quads) - 1 /\ DOMAIN quads' = 1 .. Len(quads) - 1
      /\ \A k \in DOMAIN quads' : Kept(j, k) \in DOMAIN quads /\ quads'[k] = quads[Kept(j, k)]
  BY <1>1, <1>2, <1>3, Erased
<1>5. Fresh(quads')
  BY <1>1, <1>2, <1>3, FreshErased
<1>6. TypeOK'
  <2>1. its.res \in { source[k].res : k \in DOMAIN source }
    BY <1>2, <1>3 DEF CodeInv, its
  <2> QED BY <1>1, <1>2, <1>4, <2>1 DEF OptInv, TypeOK
<1>7. CodeInv'
  BY <1>1, <1>2, <1>4 DEF CodeInv
<1>8. Done'
  <2> SUFFICES ASSUME NEW k \in DOMAIN quads', NEW l \in DOMAIN quads',
                      k < l, k < i, Candidate(quads'[k]), SameExpression(quads'[k], quads'[l])
               PROVE  Apart(quads', k, l)
    BY <1>1 DEF Done, Candidate, Definition, IsGlobal
  <2> DEFINE L == Kept(j, l)
  <2>1. /\ k \in Nat /\ l \in Nat /\ Kept(j, k) = k /\ k \in DOMAIN quads /\ L \in DOMAIN quads
        /\ quads'[k] = quads[k] /\ quads'[l] = quads[L] /\ k < L
    BY <1>2, <1>4 DEF Kept
  <2>2. PICK p \in k + 1 .. L - 1 : Jumps(quads[p]) \/ Reassigns(quads[p], quads[k])
    BY <1>2, <2>1 DEF Done, Apart
  <2>3. p # j
    <3> SUFFICES ASSUME p = j
                 PROVE  FALSE
      OBVIOUS
    <3>1. Reads(quads[k], its.res)
      BY <1>1, <2>2, ReassignsReads DEF its
    <3>2. k \in 1 .. j /\ j \in DOMAIN quads
      BY <1>2, <1>3, <2>1
    <3> QED BY <1>2, <1>3, <3>1, <3>2, NotReadBefore DEF its
  <2> DEFINE m == IF p < j THEN p ELSE p - 1
  <2>4. m \in k + 1 .. l - 1 /\ m \in DOMAIN quads' /\ Kept(j, m) = p
    BY <1>2, <1>4, <2>1, <2>3 DEF Kept
  <2>5. quads'[m] = quads[p]
    BY <1>4, <2>4
  <2> HIDE DEF m
  <2> QED BY <2>1, <2>2, <2>4, <2>5 DEF Apart
<1>9. \A l \in i .. j - 1 : quads'[l] = quads[l]
  BY <1>1, <1>2, <1>4 DEF Kept
<1>10. InHand'
  <2>1. quads'[i] = mine
    BY <1>2, <1>9 DEF mine
  <2>2. \A l \in i + 1 .. j - 1 : ~SameExpression(mine, quads'[l])
    BY <1>2, <1>9
  <2> QED BY <1>1, <1>2, <2>1, <2>2 DEF InHand, mine, Candidate, Definition, IsGlobal
<1> QED BY <1>1, <1>5, <1>6, <1>7, <1>8, <1>10 DEF OptInv, RepeatInv, NoRepeats

\* At the end of pass 1, all there is is in front of i, or is i, with nothing
\* behind it.
LEMMA EndPass1Opt ==
  ASSUME OptInv, EndPass1
  PROVE  OptInv'
<1>1. /\ pass = 1 /\ j = 0 /\ i >= Len(quads) /\ pass' = 2 /\ i' = 1
      /\ UNCHANGED <<source, quads, j, replaceSet, replaceIndex>>
  BY DEF EndPass1
<1>2. DOMAIN quads = 1 .. Len(quads) /\ Len(quads) \in Nat /\ i \in Nat /\ Done
  BY <1>1 DEF OptInv, CodeInv, Quadruples, TypeOK, RepeatInv
<1>3. TypeOK'
  BY <1>1, <1>2 DEF OptInv, TypeOK
<1>4. CodeInv'
  BY <1>1 DEF OptInv, CodeInv
<1>5. NoRepeats'
  <2> SUFFICES ASSUME NEW k \in DOMAIN quads, NEW l \in DOMAIN quads,
                      k < l, Candidate(quads[k]), SameExpression(quads[k], quads[l])
               PROVE  \E p \in k + 1 .. l - 1 : Jumps(quads[p]) \/ Reassigns(quads[p], quads[k])
    BY <1>1 DEF NoRepeats, Between, Candidate, Definition, IsGlobal
  <2>1. k < i
    BY <1>1, <1>2
  <2> QED BY <1>2, <2>1 DEF Done, Apart
<1> QED BY <1>1, <1>3, <1>4, <1>5 DEF OptInv, RepeatInv

-----------------------------------------------------------------------------
(* The steps of pass 2: only the types are left to keep.                   *)

\* The quadruples stay, and the step leaves the start of pass 2.
LEMMA Pass2Opt ==
  ASSUME OptInv, pass = 2, UNCHANGED <<source, quads>>, TypeOK',
         pass' = 3 \/ i' # 1 \/ j' # 0, pass' # 1
  PROVE  OptInv'
<1>1. CodeInv'
  BY DEF OptInv, CodeInv
<1> QED BY <1>1 DEF OptInv, RepeatInv, NoRepeats

\* Pass 2 adds no repetition, whatever it erases or renames.
LEMMA InPass2 ==
  ASSUME OptInv, Pass2
  PROVE  OptInv'
<1>1. DOMAIN quads = 1 .. Len(quads) /\ Len(quads) \in Nat /\ i \in Nat /\ 1 <= i /\ CodeInv
  BY DEF OptInv, CodeInv, Quadruples, TypeOK
<1>2. CASE SkipVariable
  <2>1. TypeOK' /\ i' # 1
    BY <1>1, <1>2 DEF SkipVariable, Outer2, NextQuad, OptInv, TypeOK
  <2> QED BY <1>2, <2>1, Pass2Opt DEF SkipVariable, Outer2
<1>3. CASE TakeTemporary
  <2>1. TypeOK' /\ j' # 0
    BY <1>1, <1>3 DEF TakeTemporary, Outer2, OptInv, TypeOK
  <2> QED BY <1>3, <2>1, Pass2Opt DEF TakeTemporary, Outer2
<1>4. CASE RememberCopy
  <2>1. TypeOK' /\ j' # 0
    BY <1>1, <1>4 DEF RememberCopy, Inner2, OptInv, TypeOK
  <2> QED BY <1>4, <2>1, Pass2Opt DEF RememberCopy, Inner2
<1>5. CASE KeepTemporary
  <2>1. TypeOK' /\ i' # 1
    BY <1>1, <1>5 DEF KeepTemporary, Inner2, NextQuad, OptInv, TypeOK
  <2> QED BY <1>5, <2>1, Pass2Opt DEF KeepTemporary, Inner2
<1>6. CASE PassOver
  <2>1. TypeOK' /\ j' # 0
    BY <1>1, <1>6 DEF PassOver, Inner2, OptInv, TypeOK
  <2> QED BY <1>6, <2>1, Pass2Opt DEF PassOver, Inner2
<1>7. CASE Exhausted2
  <2>1. TypeOK' /\ i' # 1
    BY <1>1, <1>7 DEF Exhausted2, NextQuad, OptInv, TypeOK
  <2> QED BY <1>7, <2>1, Pass2Opt DEF Exhausted2
<1>8. CASE DropTemporary
  <2> DEFINE n == replaceIndex
             r == [quads[i] EXCEPT !.res = quads[n].res]
             mid == [quads EXCEPT ![i] = r]
  <2>1. /\ pass = 2 /\ n # 0 /\ j > Len(quads) /\ quads' = RemoveAt(mid, n) /\ NextQuad
        /\ UNCHANGED <<source, pass>>
    BY <1>8 DEF DropTemporary, CopyFound
  <2>2. n \in i + 1 .. j - 1 /\ j - 1 = Len(quads) /\ n \in 1 .. Len(quads) /\ i \in 1 .. Len(quads)
    BY <1>1, <2>1 DEF OptInv, TypeOK
  <2>3. DOMAIN r = Fields /\ r.res = quads[n].res
    BY <1>1, <2>2 DEF CodeInv, Quadruples, Fields
  <2> HIDE DEF r
  <2>4. DOMAIN mid = DOMAIN quads /\ \A k \in DOMAIN quads : mid[k] = IF k = i THEN r ELSE quads[k]
    OBVIOUS
  <2> HIDE DEF mid
  <2>5. \A k \in DOMAIN quads : /\ DOMAIN mid[k] = Fields
                                /\ mid[k].res \in { source[l].res : l \in DOMAIN source }
                                /\ mid[k].res[1] \in {"var", "temp", "none"}
    BY <1>1, <2>2, <2>3, <2>4 DEF CodeInv, Quadruples
  <2>6. mid \in Seq(ToSet(mid)) /\ Len(mid) = Len(quads)
    <3> DEFINE N == Len(quads)
               T == ToSet(mid)
    <3>1. DOMAIN mid = 1 .. N /\ mid = [k \in 1 .. N |-> mid[k]]
      BY <1>1, <2>4 DEF mid
    <3>2. mid \in [1 .. N -> T] /\ N \in Nat
      BY <1>1, <3>1 DEF ToSet
    <3> HIDE DEF N, T
    <3>3. mid \in Seq(T) /\ Len(mid) = N
      BY <3>2, FunctionIsSeq
    <3> QED BY <3>3 DEF N, T
  <2>7. /\ quads' \in Seq(ToSet(mid)) /\ Len(quads') = Len(quads) - 1
        /\ \A k \in 1 .. Len(quads) - 1 : quads'[k] = mid[Kept(n, k)]
    <3>1. n \in 1 .. Len(mid)
      BY <2>2, <2>6
    <3> HIDE DEF n
    <3> QED BY <2>1, <2>6, <3>1, RemoveAtIs DEF Kept
  <2>8. quads' \in Seq(ToSet(quads')) /\ DOMAIN quads' = 1 .. Len(quads) - 1
    BY <2>7, OwnElements
  <2>9. \A k \in DOMAIN quads' : Kept(n, k) \in DOMAIN quads /\ quads'[k] = mid[Kept(n, k)]
    BY <1>1, <2>2, <2>7, <2>8 DEF Kept
  <2>10. CodeInv'
    BY <2>1, <2>5, <2>8, <2>9 DEF CodeInv, Quadruples
  <2>11. TypeOK'
    BY <1>1, <2>1, <2>2, <2>7 DEF OptInv, TypeOK, NextQuad
  <2>12. i' # 1
    BY <1>1, <2>1 DEF NextQuad
  <2> QED BY <2>1, <2>10, <2>11, <2>12 DEF OptInv, RepeatInv, NoRepeats
<1>9. CASE EndPass2
  <2>1. TypeOK'
    BY <1>1, <1>9 DEF EndPass2, OptInv, TypeOK
  <2> QED BY <1>9, <2>1, Pass2Opt DEF EndPass2
<1> QED BY <1>2, <1>3, <1>4, <1>5, <1>6, <1>7, <1>8, <1>9 DEF Pass2

\* OptInv is about the variables of the optimiser only.
LEMMA StutterOpt ==
  ASSUME OptInv, UNCHANGED vars
  PROVE  OptInv'
BY DEF vars, OptInv, TypeOK, CodeInv, RepeatInv, Done, InHand, NoRepeats, Between, mine,
       Candidate, Definition, IsGlobal

\* The invariant holds, whatever code is optimised.
THEOREM WalkInvariance == Spec => []OptInv
<1>1. Init => OptInv
  BY InitOpt
<1>2. OptInv /\ [Next]_vars => OptInv'
  BY SkipOpt, TakeOpt, Exhausted1Opt, KeepDefinitionOpt, EraseDefinitionOpt, PassOverDefinitionOpt,
     StopAtJumpOpt, StopAtReassignmentOpt, EraseRepeatOpt, ReplaceOperandsOpt, EndPass1Opt, InPass2, StutterOpt
     DEF Next, Pass1
<1> QED BY <1>1, <1>2, PTL DEF Spec

\* The walks stay within the vector they erase from: i and j are positions of
\* it or the next one, and what pass 2 remembers is between them.
THEOREM Positions == Spec => []TypeOK
<1>1. OptInv => TypeOK
  BY DEF OptInv
<1> QED BY <1>1, WalkInvariance, PTL

\* Pass 1 leaves nothing computed twice that it is to find.
THEOREM RepeatsGone == Spec => []NoRepeats
<1>1. OptInv => NoRepeats
  BY DEF OptInv, RepeatInv
<1> QED BY <1>1, WalkInvariance, PTL
=============================================================================

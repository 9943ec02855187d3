------------------------------ MODULE DataLemmas ------------------------------
(***************************************************************************)
(* Facts about numbers and sequences that several components' proofs cite. *)
(*                                                                         *)
(* Induction on the natural numbers is stated of sets of numbers: a        *)
(* property becomes the set of the numbers that have it.                   *)
(***************************************************************************)
EXTENDS Integers, SequencesExt, SequenceTheorems, WellFoundedInduction, TLAPS

\* A set of numbers that is not empty has a least member.
LEMMA Least ==
  ASSUME NEW T, T \subseteq Nat, T # {}
  PROVE  \E n \in T : \A k \in T : n <= k
<1> DEFINE R == { p \in Nat \X Nat : p[1] < p[2] }
<1>1. IsWellFoundedOn(R, Nat)
  BY NatLessThanWellFounded DEF OpToRel
<1>2. PICK n \in T : \A k \in T : ~ (<<k, n>> \in R)
  <2> HIDE DEF R
  <2> QED BY <1>1, WFMin
<1>3. ASSUME NEW k \in T
      PROVE  n <= k
  <2>1. ~ (<<k, n>> \in R) /\ k \in Nat /\ n \in Nat
    BY <1>2
  <2>2. ~ (k < n)
    BY <2>1
  <2> QED BY <2>1, <2>2
<1> QED BY <1>2, <1>3

\* A set that has 0, and with a number the next, has them all.
LEMMA Induction ==
  ASSUME NEW T, 0 \in T, \A n \in Nat : n \in T => n + 1 \in T
  PROVE  \A n \in Nat : n \in T
<1> SUFFICES ASSUME Nat \ T # {} PROVE FALSE
  OBVIOUS
<1>1. PICK n \in Nat \ T : \A k \in Nat \ T : n <= k
  <2> DEFINE U == Nat \ T
  <2>1. U \subseteq Nat /\ U # {}
    OBVIOUS
  <2> HIDE DEF U
  <2>2. \E n \in U : \A k \in U : n <= k
    BY <2>1, Least
  <2> QED BY <2>2 DEF U
<1>2. n # 0 /\ n - 1 \in Nat
  BY <1>1
<1>3. n - 1 \in T
  BY <1>1, <1>2
<1> QED BY <1>1, <1>2, <1>3

\* A function on 1 .. n is a sequence.
LEMMA FunctionIsSeq ==
  ASSUME NEW n \in Nat, NEW S, NEW f \in [1 .. n -> S]
  PROVE  f \in Seq(S) /\ Len(f) = n
OBVIOUS

\* A sequence is one of its own elements.
LEMMA OwnElements ==
  ASSUME NEW S, NEW s \in Seq(S)
  PROVE  s \in Seq(ToSet(s)) /\ Len(s) \in Nat /\ DOMAIN s = 1 .. Len(s)
<1>1. Len(s) \in Nat /\ DOMAIN s = 1 .. Len(s) /\ s \in [1 .. Len(s) -> S]
  OBVIOUS
<1> DEFINE n == Len(s)
           T == ToSet(s)
<1>2. s \in [1 .. n -> T]
  BY <1>1 DEF ToSet
<1>3. n \in Nat
  BY <1>1
<1> HIDE DEF n, T
<1>4. s \in Seq(T)
  BY <1>2, <1>3
<1> QED BY <1>1, <1>4 DEF T

\* Appending to a sequence.
LEMMA Appended ==
  ASSUME NEW s, s \in Seq(ToSet(s)), NEW x
  PROVE  /\ Append(s, x) \in Seq(ToSet(Append(s, x))) /\ Append(s, x) # <<>>
         /\ Len(Append(s, x)) = Len(s) + 1 /\ Len(s) \in Nat
         /\ DOMAIN Append(s, x) = 1 .. Len(s) + 1 /\ DOMAIN s = 1 .. Len(s)
         /\ Append(s, x)[Len(s) + 1] = x /\ \A k \in DOMAIN s : Append(s, x)[k] = s[k]
<1> DEFINE T == ToSet(s) \cup {x}
           t == Append(s, x)
<1>1. s \in Seq(T) /\ x \in T
  OBVIOUS
<1> HIDE DEF T
<1>2. /\ t \in Seq(T) /\ Len(t) = Len(s) + 1 /\ Len(s) \in Nat /\ t[Len(s) + 1] = x
      /\ \A k \in 1 .. Len(s) : t[k] = s[k]
  BY <1>1, AppendProperties
<1> HIDE DEF t
<1>3. DOMAIN t = 1 .. Len(t) /\ DOMAIN s = 1 .. Len(s)
  BY <1>1, <1>2
<1>4. t \in Seq(ToSet(t)) /\ t # <<>>
  BY <1>2, OwnElements
<1> QED BY <1>2, <1>3, <1>4 DEF t

\* A sequence but for its last element.
LEMMA FrontAndLast ==
  ASSUME NEW S, NEW s \in Seq(S), s # <<>>
  PROVE  /\ Front(s) \in Seq(S) /\ Len(Front(s)) = Len(s) - 1 /\ Len(s) \in Nat /\ 1 <= Len(s)
         /\ DOMAIN Front(s) = 1 .. Len(s) - 1 /\ DOMAIN s = 1 .. Len(s)
         /\ \A k \in 1 .. Len(s) - 1 : Front(s)[k] = s[k]
         /\ Last(s) = s[Len(s)]
<1> DEFINE f == Front(s)
<1>1. Len(s) \in Nat /\ 1 <= Len(s) /\ \A k \in 1 .. Len(s) - 1 : s[k] \in S
  OBVIOUS
<1>2. /\ f \in Seq(S) /\ Len(f) = (IF 1 <= Len(s) - 1 THEN (Len(s) - 1) - 1 + 1 ELSE 0)
      /\ \A k \in 1 .. (Len(s) - 1) - 1 + 1 : f[k] = s[1 + k - 1]
  BY <1>1, SubSeqProperties DEF Front
<1> HIDE DEF f
<1>3. Len(f) = Len(s) - 1
  <2>1. 1 <= Len(s) - 1 => Len(f) = Len(s) - 1
    <3>1. (Len(s) - 1) - 1 + 1 = Len(s) - 1
      BY <1>1
    <3> QED BY <1>2, <3>1
  <2>2. ~ (1 <= Len(s) - 1) => Len(f) = Len(s) - 1
    <3> DEFINE n == Len(s)
    <3>1. n \in Nat /\ 1 <= n
      BY <1>1
    <3>2. ~ (1 <= n - 1) => Len(f) = 0
      BY <1>2
    <3> HIDE DEF n
    <3>3. ~ (1 <= n - 1) => n - 1 = 0
      BY <3>1
    <3> QED BY <3>2, <3>3 DEF n
  <2> QED BY <2>1, <2>2
<1>4. \A k \in 1 .. Len(s) - 1 : k \in 1 .. (Len(s) - 1) - 1 + 1 /\ 1 + k - 1 = k
  BY <1>1
<1>5. \A k \in 1 .. Len(s) - 1 : f[k] = s[k]
  BY <1>2, <1>4
<1>6. DOMAIN f = 1 .. Len(s) - 1 /\ DOMAIN s = 1 .. Len(s)
  BY <1>2, <1>3
<1>7. Last(s) = s[Len(s)]
  BY DEF Last
<1> QED BY <1>1, <1>2, <1>3, <1>5, <1>6, <1>7 DEF f

\* A set of numbers up to n has a greatest.
LEMMA MaxIn ==
  ASSUME NEW n \in Nat, NEW S, S \subseteq 1 .. n, S # {}
  PROVE  Max(S) \in S /\ \A k \in S : k <= Max(S)
<1> DEFINE T == { n - k : k \in S }
<1>1. T \subseteq Nat /\ T # {}
  <2>1. ASSUME NEW k \in S
        PROVE  n - k \in Nat
    OBVIOUS
  <2> QED BY <2>1
<1>2. PICK d \in T : \A c \in T : d <= c
  <2> HIDE DEF T
  <2> QED BY <1>1, Least
<1>3. PICK m \in S : d = n - m
  BY <1>2
<1>4. \A k \in S : n - m <= n - k
  BY <1>2, <1>3
<1>5. \A k \in S : m >= k
  BY <1>4
<1>6. \E x : x \in S /\ \A y \in S : x >= y
  BY <1>3, <1>5
<1>7. Max(S) \in S /\ \A y \in S : Max(S) >= y
  BY <1>6, Zenon DEF Max
<1> QED BY <1>7

=============================================================================

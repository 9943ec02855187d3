----------------------------- MODULE ScopesProofs -----------------------------
(***************************************************************************)
(* The scopes of a parse, for any names, declarations and limits: the type *)
(* invariant, and that the scopes on the stack are those of the constructs *)
(* being parsed until an error is counted.                                 *)
(*                                                                         *)
(* The inductive ShapeInv speaks of the three stacks together: the parse   *)
(* is one the grammar can be in, the scopes are entries that have tables,  *)
(* and, without an error, the kinds of the scopes are those of the parse.  *)
(* Tables only grow (Follows): what an action finds in them stays true.    *)
(*                                                                         *)
(* Then what the scopes hold: where the variables are stored (Storage),    *)
(* and how the loops are labelled (LabelInv).                              *)
(***************************************************************************)
EXTENDS Scopes, DataLemmas, SequenceTheorems, FiniteSetTheorems, TLAPS

-----------------------------------------------------------------------------
(* The entries.                                                            *)

EntryFields == {"kind", "name", "syms", "cnt", "whileCnt", "argCnt", "cntI", "cntF",
                "type", "varKind", "offSet", "inMem", "label", "hasBody"}

\* An entry among n: what it has a table for are entries.
IsEntry(r, n) ==
  /\ DOMAIN r = EntryFields
  /\ r.syms \in Seq(1 .. n)
  /\ r.cnt \in Nat /\ r.whileCnt \in Nat /\ r.argCnt \in Nat /\ r.cntI \in Nat /\ r.cntF \in Nat
  /\ r.label \in Seq(Nat) /\ r.offSet \in Int

WellFormed(s) ==
  /\ s \in Seq(ToSet(s)) /\ s # <<>>
  /\ \A e \in DOMAIN s : IsEntry(s[e], Len(s))

\* r and q are the same, but for what may be counted or linked in a scope.
SameButCounts(r, q) ==
  /\ r.kind = q.kind /\ r.name = q.name /\ r.type = q.type /\ r.varKind = q.varKind
  /\ r.offSet = q.offSet /\ r.inMem = q.inMem /\ r.label = q.label

SameCounts(r, q) ==
  /\ r.cnt = q.cnt /\ r.whileCnt = q.whileCnt /\ r.argCnt = q.argCnt
  /\ r.cntI = q.cntI /\ r.cntF = q.cntF

\* t is s and a new entry after it, which is linked in the scope if "linked".
Adds(s, t, scope, entry, linked) ==
  /\ Len(t) = Len(s) + 1 /\ t[Len(s) + 1] = entry
  /\ \A d \in DOMAIN s : /\ SameButCounts(t[d], s[d]) /\ SameCounts(t[d], s[d])
                         /\ d # scope \/ ~linked => t[d].syms = s[d].syms
  /\ linked => t[scope].syms = Append(s[scope].syms, Len(s) + 1)

\* An entry that has nothing in its table yet, and nothing counted.
Bare(r) == IsEntry(r, 0) /\ r.syms = <<>> /\ r.whileCnt = 0 /\ r.cntI = 0 /\ r.cntF = 0

\* What WellFormed says of lengths and entries.
LEMMA WellFormedDomain ==
  ASSUME NEW s, WellFormed(s)
  PROVE  /\ DOMAIN s = 1 .. Len(s) /\ Len(s) \in Nat /\ 1 \in DOMAIN s
         /\ \A e \in DOMAIN s : IsEntry(s[e], Len(s))
BY DEF WellFormed

\* An entry stays one when there are more entries to name.
LEMMA EntryGrows ==
  ASSUME NEW n \in Nat, NEW m \in Nat, n <= m, NEW r, IsEntry(r, n)
  PROVE  IsEntry(r, m)
<1>1. 1 .. n \subseteq 1 .. m
  OBVIOUS
<1>2. r.syms \in Seq(1 .. m)
  BY <1>1 DEF IsEntry
<1> QED BY <1>2 DEF IsEntry

\* Insert makes room for the entry, and links it unless its name is taken.
LEMMA Inserted ==
  ASSUME NEW s, WellFormed(s), NEW scope \in DOMAIN s, NEW entry, Bare(entry),
         NEW t, t = Insert(s, scope, entry)
  PROVE  WellFormed(t) /\ Adds(s, t, scope, entry, ~Duplicate(s, scope, entry))
<1>1. /\ DOMAIN s = 1 .. Len(s) /\ Len(s) \in Nat /\ s \in Seq(ToSet(s))
      /\ \A e \in DOMAIN s : IsEntry(s[e], Len(s))
  BY WellFormedDomain DEF WellFormed
<1>2. \A r : IsEntry(r, Len(s)) => IsEntry(r, Len(s) + 1)
  BY <1>1, EntryGrows
<1>3. IsEntry(entry, Len(s) + 1)
  BY <1>1, EntryGrows DEF Bare
<1>4. CASE Duplicate(s, scope, entry)
  <2>1. t = Append(s, entry)
    BY <1>4 DEF Insert
  <2>2. /\ t \in Seq(ToSet(t)) /\ Len(t) = Len(s) + 1 /\ DOMAIN t = 1 .. Len(s) + 1 /\ t # <<>>
        /\ t[Len(s) + 1] = entry /\ \A k \in DOMAIN s : t[k] = s[k]
    BY <1>1, <2>1, Appended
  <2>3. \A e \in DOMAIN t : e \in DOMAIN s \/ e = Len(s) + 1
    BY <1>1, <2>2
  <2>4. \A e \in DOMAIN t : IsEntry(t[e], Len(t))
    BY <1>1, <1>2, <1>3, <2>2, <2>3
  <2> QED BY <1>4, <2>2, <2>4 DEF WellFormed, Adds, SameButCounts, SameCounts
<1>5. CASE ~Duplicate(s, scope, entry)
  <2> DEFINE q == [s[scope] EXCEPT !.syms = Append(@, Len(s) + 1)]
             m == [s EXCEPT ![scope] = q]
  <2>1. t = Append(m, entry)
    BY <1>5 DEF Insert
  <2>2. DOMAIN s[scope] = EntryFields /\ s[scope].syms \in Seq(1 .. Len(s))
    BY <1>1 DEF IsEntry
  <2>3. /\ DOMAIN q = EntryFields /\ q.syms = Append(s[scope].syms, Len(s) + 1)
        /\ SameButCounts(q, s[scope]) /\ SameCounts(q, s[scope])
    BY <2>2 DEF EntryFields, SameButCounts, SameCounts
  <2> HIDE DEF q
  <2>4. q.syms \in Seq(1 .. Len(s) + 1)
    <3>1. s[scope].syms \in Seq(1 .. Len(s) + 1) /\ Len(s) + 1 \in 1 .. Len(s) + 1
      BY <1>1, <2>2
    <3> QED BY <2>3, <3>1, AppendProperties
  <2>5. IsEntry(q, Len(s) + 1)
    BY <1>1, <2>3, <2>4 DEF IsEntry, SameButCounts, SameCounts
  <2>6. DOMAIN m = DOMAIN s /\ m[scope] = q /\ \A k \in DOMAIN s : k # scope => m[k] = s[k]
    OBVIOUS
  <2>7. m \in Seq(ToSet(m)) /\ Len(m) = Len(s)
    <3> DEFINE n == Len(s)
               T == ToSet(s) \cup {q}
    <3>1. m \in [1 .. n -> T] /\ n \in Nat
      BY <1>1, <2>6 DEF ToSet
    <3> HIDE DEF n, T, m
    <3>2. m \in Seq(T) /\ Len(m) = n
      BY <3>1, FunctionIsSeq
    <3> QED BY <3>2, OwnElements DEF n
  <2> HIDE DEF m
  <2>8. /\ t \in Seq(ToSet(t)) /\ Len(t) = Len(s) + 1 /\ DOMAIN t = 1 .. Len(s) + 1 /\ t # <<>>
        /\ t[Len(s) + 1] = entry /\ \A k \in DOMAIN s : t[k] = m[k]
    BY <1>1, <2>1, <2>6, <2>7, Appended
  <2>9. \A e \in DOMAIN t : e \in DOMAIN s \/ e = Len(s) + 1
    BY <1>1, <2>8
  <2>10. \A e \in DOMAIN t : IsEntry(t[e], Len(t))
    BY <1>1, <1>2, <1>3, <2>5, <2>6, <2>8, <2>9
  <2>11. \A d \in DOMAIN s : SameButCounts(t[d], s[d]) /\ SameCounts(t[d], s[d])
    BY <2>3, <2>6, <2>8 DEF SameButCounts, SameCounts
  <2> QED BY <1>5, <2>3, <2>6, <2>8, <2>10, <2>11 DEF WellFormed, Adds
<1> QED BY <1>4, <1>5

\* t is s with other counts in one scope.
Counts(s, t, scope) ==
  /\ Len(t) = Len(s)
  /\ \A d \in DOMAIN s : /\ SameButCounts(t[d], s[d]) /\ t[d].syms = s[d].syms
                         /\ d # scope => SameCounts(t[d], s[d])

\* Counting something in one scope leaves the tables well formed.
LEMMA OneChanged ==
  ASSUME NEW s, WellFormed(s), NEW scope \in DOMAIN s, NEW q, IsEntry(q, Len(s)),
         SameButCounts(q, s[scope]), q.syms = s[scope].syms
  PROVE  LET t == [s EXCEPT ![scope] = q] IN WellFormed(t) /\ Counts(s, t, scope) /\ t[scope] = q
<1> DEFINE t == [s EXCEPT ![scope] = q]
           n == Len(s)
           T == ToSet(t)
<1>1. DOMAIN s = 1 .. n /\ n \in Nat /\ s # <<>> /\ \A e \in DOMAIN s : IsEntry(s[e], n)
  BY WellFormedDomain DEF WellFormed
<1>2. /\ DOMAIN t = 1 .. n /\ t \in [1 .. n -> T]
      /\ t[scope] = q /\ \A d \in DOMAIN s : d # scope => t[d] = s[d]
  BY <1>1 DEF ToSet
<1> HIDE DEF t, T, n
<1>3. t \in Seq(T) /\ Len(t) = n
  BY <1>1, <1>2, FunctionIsSeq
<1>4. t # <<>>
  BY <1>1, <1>2
<1>5. WellFormed(t)
  BY <1>1, <1>2, <1>3, <1>4 DEF WellFormed, T, n
<1>6. Counts(s, t, scope)
  BY <1>2, <1>3 DEF Counts, SameButCounts, SameCounts, n
<1> QED BY <1>2, <1>5, <1>6 DEF t

\* A type has room or none.
LEMMA TypeSize ==
  ASSUME NEW type
  PROVE  GetTypeSize(type) \in 0 .. 1
BY DEF GetTypeSize

\* Counted counts room in the scope, and a global that gets a register.
LEMMA CountedIs ==
  ASSUME NEW s, WellFormed(s), NEW scope \in DOMAIN s, NEW type, NEW t, t = Counted(s, scope, type)
  PROVE  /\ WellFormed(t) /\ Counts(s, t, scope)
         /\ t[scope].cnt = s[scope].cnt + GetTypeSize(type)
         /\ t[scope].whileCnt = s[scope].whileCnt /\ t[scope].argCnt = s[scope].argCnt
         /\ type = "double" =>
              /\ t[scope].cntI = s[scope].cntI
              /\ t[scope].cntF = IF s[scope].kind = "GLOBAL" /\ s[scope].cntF < GLOBAL_MAX_REG_COUNT
                                 THEN s[scope].cntF + 1 ELSE s[scope].cntF
         /\ type # "double" =>
              /\ t[scope].cntF = s[scope].cntF
              /\ t[scope].cntI = IF s[scope].kind = "GLOBAL" /\ s[scope].cntI < GLOBAL_MAX_REG_COUNT
                                 THEN s[scope].cntI + 1 ELSE s[scope].cntI
<1>1. IsEntry(s[scope], Len(s)) /\ DOMAIN s[scope] = EntryFields
  BY WellFormedDomain DEF IsEntry
<1> DEFINE r == s[scope]
           c == CountOf(type)
           one == IF IsGlobalScope(s, scope) /\ Resident(s, scope, type) THEN r[c] + 1 ELSE r[c]
           q == [[r EXCEPT !.cnt = @ + GetTypeSize(type)] EXCEPT ![c] = one]
<1>2. c \in {"cntI", "cntF"} /\ r[c] \in Nat /\ c \in EntryFields /\ c # "cnt"
  BY <1>1 DEF CountOf, IsEntry, EntryFields
<1>3. t = [s EXCEPT ![scope] = q]
  BY <1>1, <1>2 DEF Counted, IsGlobalScope, EntryFields
<1>4. /\ DOMAIN q = EntryFields /\ q.cnt = r.cnt + GetTypeSize(type) /\ q[c] = one
      /\ \A f \in EntryFields : f # "cnt" /\ f # c => q[f] = r[f]
  BY <1>1, <1>2 DEF EntryFields
<1>5. one \in Nat
  BY <1>2
<1> HIDE DEF q, r
<1>6. /\ SameButCounts(q, r) /\ q.syms = r.syms /\ q.whileCnt = r.whileCnt /\ q.argCnt = r.argCnt
      /\ (c # "cntI" => q.cntI = r.cntI) /\ (c # "cntF" => q.cntF = r.cntF)
  BY <1>2, <1>4 DEF EntryFields, SameButCounts
<1>7. q.cntI \in Nat /\ q.cntF \in Nat /\ q.cnt \in Nat
  <2>1. r.cntI \in Nat /\ r.cntF \in Nat /\ r.cnt \in Nat
    BY <1>1 DEF IsEntry, r
  <2>2. q.cnt \in Nat
    BY <1>4, <2>1, TypeSize
  <2> QED BY <1>2, <1>4, <1>5, <1>6, <2>1, <2>2
<1>8. IsEntry(q, Len(s))
  BY <1>1, <1>4, <1>6, <1>7 DEF IsEntry, SameButCounts, r
<1>9. WellFormed(t) /\ Counts(s, t, scope) /\ t[scope] = q
  BY <1>3, <1>6, <1>8, OneChanged DEF r
<1>10. CASE type = "double"
  <2>1. c = "cntF"
    BY <1>10 DEF CountOf
  <2> QED BY <1>4, <1>6, <1>9, <1>10, <2>1 DEF IsGlobalScope, Resident, r
<1>11. CASE type # "double"
  <2>1. c = "cntI"
    BY <1>11 DEF CountOf
  <2> QED BY <1>4, <1>6, <1>9, <1>11, <2>1 DEF IsGlobalScope, Resident, r
<1> QED BY <1>10, <1>11

-----------------------------------------------------------------------------
(* Lists of declarators.                                                   *)

DeclaredOne(t, scope, name, type) == Insert(Counted(t, scope, type), scope, Placed(t, scope, name, type))

\* The greatest of the numbers up to n.
LEMMA MaxUpTo ==
  ASSUME NEW n \in Nat, n # 0
  PROVE  Max(1 .. n) = n /\ (1 .. n) \ {n} = 1 .. n - 1 /\ 1 .. n # {}
BY DEF Max

\* The last of a range is the largest of what contains it.
LEMMA MaxOf ==
  ASSUME NEW n \in Nat, NEW S, S \subseteq 1 .. n + 1, n + 1 \in S
  PROVE  Max(S) = n + 1 /\ S \ {n + 1} \subseteq 1 .. n
<1>1. \A y \in S : n + 1 >= y
  OBVIOUS
<1>2. \A x \in S : x >= n + 1 => x = n + 1
  OBVIOUS
<1>3. Max(S) \in S /\ \A y \in S : Max(S) >= y
  <2>1. \E x : x \in S /\ \A y \in S : x >= y
    BY <1>1
  <2> QED BY <2>1, Zenon DEF Max
<1>4. Max(S) >= n + 1
  BY <1>3
<1>5. Max(S) = n + 1
  BY <1>2, <1>3, <1>4
<1> QED BY <1>5

\* varListEntry takes the declarators one after the other.
Declares(c, s, scope, list, type) ==
  /\ c[0] = s /\ c[Len(list)] = VarListEntry(s, scope, list, type)
  /\ \A k \in 1 .. Len(list) : c[k] = DeclaredOne(c[k - 1], scope, list[k].name, type)

\* A declaration makes its variables one after the other.
LEMMA OneByOne ==
  ASSUME NEW s, NEW scope, NEW list, NEW type, list \in Seq(ToSet(list))
  PROVE  \E c : Declares(c, s, scope, list, type)
<1> DEFINE n == Len(list)
           Folds(g, m) ==
             g = [S \in SUBSET (1 .. m) |->
                    IF S = {} THEN s
                    ELSE DeclaredOne(g[S \ {Max(S)}], scope, list[Max(S)].name, type)]
           T == { m \in Nat : \E g : Folds(g, m) }
<1>1. n \in Nat /\ DOMAIN list = 1 .. n
  OBVIOUS
<1>2. 0 \in T
  <2> DEFINE g == [S \in SUBSET (1 .. 0) |-> s]
  <2>1. \A S \in SUBSET (1 .. 0) : S = {}
    OBVIOUS
  <2>2. Folds(g, 0)
    BY <2>1
  <2> QED BY <2>2
<1>3. ASSUME NEW m \in Nat, m \in T
      PROVE  m + 1 \in T
  <2>1. PICK g : Folds(g, m)
    BY <1>3
  <2> DEFINE h == [S \in SUBSET (1 .. m + 1) |->
                     IF S \subseteq 1 .. m THEN g[S]
                     ELSE DeclaredOne(g[S \ {Max(S)}], scope, list[Max(S)].name, type)]
  <2>2. ASSUME NEW S \in SUBSET (1 .. m + 1)
        PROVE  h[S] = IF S = {} THEN s
                      ELSE DeclaredOne(h[S \ {Max(S)}], scope, list[Max(S)].name, type)
    <3> DEFINE R == S \ {Max(S)}
    <3>1. CASE S \subseteq 1 .. m
      <4>1. h[S] = g[S] /\ h[R] = g[R]
        BY <3>1
      <4>2. g[S] = IF S = {} THEN s ELSE DeclaredOne(g[R], scope, list[Max(S)].name, type)
        BY <2>1, <3>1
      <4> QED BY <4>1, <4>2
    <3>2. CASE ~(S \subseteq 1 .. m)
      <4>1. m + 1 \in S
        BY <3>2
      <4>2. R \subseteq 1 .. m
        BY <4>1, MaxOf
      <4>3. h[R] = g[R] /\ S # {}
        BY <4>1, <4>2
      <4> QED BY <3>2, <4>3
    <3> QED BY <3>1, <3>2
  <2>3. Folds(h, m + 1)
    <3>1. h = [S \in SUBSET (1 .. m + 1) |-> h[S]]
      OBVIOUS
    <3> HIDE DEF h
    <3>2. [S \in SUBSET (1 .. m + 1) |-> h[S]] =
          [S \in SUBSET (1 .. m + 1) |->
             IF S = {} THEN s
             ELSE DeclaredOne(h[S \ {Max(S)}], scope, list[Max(S)].name, type)]
      BY <2>2, Zenon
    <3> QED BY <3>1, <3>2, Zenon
  <2> HIDE DEF h, Folds
  <2>4. m + 1 \in Nat /\ \E q : Folds(q, m + 1)
    BY <2>3
  <2> QED BY <2>4
<1>4. n \in T
  <2> HIDE DEF T
  <2> QED BY <1>1, <1>2, <1>3, Induction
<1>5. PICK g : Folds(g, n) /\ VarListEntry(s, scope, list, type) = g[1 .. n]
  <2>1. VarListEntry(s, scope, list, type) = (CHOOSE g : Folds(g, n))[1 .. n]
    BY <1>1 DEF VarListEntry, FoldLeft, MapThenFoldSet, DeclaredOne
  <2> QED BY <1>4, <2>1
<1> DEFINE c == [k \in 0 .. n |-> g[1 .. k]]
<1>6. c[0] = s
  <2>1. 1 .. 0 = {} /\ {} \in SUBSET (1 .. n)
    OBVIOUS
  <2> QED BY <1>1, <1>5, <2>1
<1>7. c[n] = VarListEntry(s, scope, list, type)
  BY <1>1, <1>5
<1>8. ASSUME NEW k \in 1 .. n
      PROVE  c[k] = DeclaredOne(c[k - 1], scope, list[k].name, type)
  <2>1. k \in Nat /\ k # 0 /\ k \in 0 .. n /\ k - 1 \in 0 .. n /\ 1 .. k \in SUBSET (1 .. n)
    BY <1>1
  <2>2. Max(1 .. k) = k /\ (1 .. k) \ {k} = 1 .. k - 1 /\ 1 .. k # {}
    BY <2>1, MaxUpTo
  <2>3. g[1 .. k] = DeclaredOne(g[1 .. k - 1], scope, list[k].name, type)
    BY <1>5, <2>1, <2>2
  <2> QED BY <2>1, <2>3
<1> HIDE DEF c
<1>9. Declares(c, s, scope, list, type)
  BY <1>6, <1>7, <1>8 DEF Declares
<1> QED BY <1>9

\* normal_event binds the names one after the other.
LEMMA OneBinding ==
  ASSUME NEW s, NEW scope, NEW e, NEW names, names \in Seq(ToSet(names))
  PROVE  \E c : /\ c[0] = s /\ c[Len(names)] = Bound(s, scope, e, names)
                /\ \A k \in 1 .. Len(names) : c[k] = Insert(c[k - 1], scope, Typed(e, names[k], k))
<1> DEFINE n == Len(names)
           seq == [k \in DOMAIN names |-> k]
           Folds(g, m) ==
             g = [S \in SUBSET (1 .. m) |->
                    IF S = {} THEN s
                    ELSE Insert(g[S \ {Max(S)}], scope, Typed(e, names[seq[Max(S)]], seq[Max(S)]))]
           T == { m \in Nat : \E g : Folds(g, m) }
<1>1. n \in Nat /\ DOMAIN names = 1 .. n
  OBVIOUS
<1>2. 0 \in T
  <2> DEFINE g == [S \in SUBSET (1 .. 0) |-> s]
  <2>1. \A S \in SUBSET (1 .. 0) : S = {}
    OBVIOUS
  <2>2. Folds(g, 0)
    BY <2>1
  <2> QED BY <2>2
<1>3. ASSUME NEW m \in Nat, m \in T
      PROVE  m + 1 \in T
  <2>1. PICK g : Folds(g, m)
    BY <1>3
  <2> DEFINE h == [S \in SUBSET (1 .. m + 1) |->
                     IF S \subseteq 1 .. m THEN g[S]
                     ELSE Insert(g[S \ {Max(S)}], scope, Typed(e, names[seq[Max(S)]], seq[Max(S)]))]
  <2>2. ASSUME NEW S \in SUBSET (1 .. m + 1)
        PROVE  h[S] = IF S = {} THEN s
                      ELSE Insert(h[S \ {Max(S)}], scope, Typed(e, names[seq[Max(S)]], seq[Max(S)]))
    <3> DEFINE R == S \ {Max(S)}
    <3>1. CASE S \subseteq 1 .. m
      <4>1. h[S] = g[S] /\ h[R] = g[R]
        BY <3>1
      <4>2. g[S] = IF S = {} THEN s ELSE Insert(g[R], scope, Typed(e, names[seq[Max(S)]], seq[Max(S)]))
        BY <2>1, <3>1
      <4> QED BY <4>1, <4>2
    <3>2. CASE ~(S \subseteq 1 .. m)
      <4>1. m + 1 \in S
        BY <3>2
      <4>2. R \subseteq 1 .. m
        BY <4>1, MaxOf
      <4>3. h[R] = g[R] /\ S # {}
        BY <4>1, <4>2
      <4> QED BY <3>2, <4>3
    <3> QED BY <3>1, <3>2
  <2>3. Folds(h, m + 1)
    <3>1. h = [S \in SUBSET (1 .. m + 1) |-> h[S]]
      OBVIOUS
    <3> HIDE DEF h
    <3>2. [S \in SUBSET (1 .. m + 1) |-> h[S]] =
          [S \in SUBSET (1 .. m + 1) |->
             IF S = {} THEN s
             ELSE Insert(h[S \ {Max(S)}], scope, Typed(e, names[seq[Max(S)]], seq[Max(S)]))]
      BY <2>2, Zenon
    <3> QED BY <3>1, <3>2, Zenon
  <2> HIDE DEF h, Folds
  <2>4. m + 1 \in Nat /\ \E q : Folds(q, m + 1)
    BY <2>3
  <2> QED BY <2>4
<1>4. n \in T
  <2> HIDE DEF T
  <2> QED BY <1>1, <1>2, <1>3, Induction
<1>5. PICK g : Folds(g, n) /\ Bound(s, scope, e, names) = g[1 .. n]
  <2>1. Bound(s, scope, e, names) = (CHOOSE g : Folds(g, n))[1 .. n]
    BY <1>1 DEF Bound, FoldLeftDomain, FoldLeft, MapThenFoldSet
  <2> QED BY <1>4, <2>1
<1> DEFINE c == [k \in 0 .. n |-> g[1 .. k]]
<1>6. c[0] = s
  <2>1. 1 .. 0 = {} /\ {} \in SUBSET (1 .. n)
    OBVIOUS
  <2> QED BY <1>1, <1>5, <2>1
<1>7. c[n] = Bound(s, scope, e, names)
  BY <1>1, <1>5
<1>8. ASSUME NEW k \in 1 .. n
      PROVE  c[k] = Insert(c[k - 1], scope, Typed(e, names[k], k))
  <2>1. k \in Nat /\ k # 0 /\ k \in 0 .. n /\ k - 1 \in 0 .. n /\ 1 .. k \in SUBSET (1 .. n)
    BY <1>1
  <2>2. Max(1 .. k) = k /\ (1 .. k) \ {k} = 1 .. k - 1 /\ 1 .. k # {}
    BY <2>1, MaxUpTo
  <2>3. seq[k] = k
    BY <1>1
  <2>4. g[1 .. k] = Insert(g[1 .. k - 1], scope, Typed(e, names[k], k))
    <3>1. g = [S \in SUBSET (1 .. n) |->
                 IF S = {} THEN s
                 ELSE Insert(g[S \ {Max(S)}], scope, Typed(e, names[seq[Max(S)]], seq[Max(S)]))]
      BY <1>5, Zenon
    <3> DEFINE K == 1 .. k
    <3>2. K \in SUBSET (1 .. n) /\ K # {} /\ Max(K) = k /\ K \ {k} = 1 .. k - 1
      BY <2>1, <2>2
    <3> HIDE DEF K, seq
    <3>3. g[K] = Insert(g[K \ {Max(K)}], scope, Typed(e, names[seq[Max(K)]], seq[Max(K)]))
      BY <3>1, <3>2, Zenon
    <3> QED BY <3>2, <3>3, <2>3, Zenon DEF K
  <2> QED BY <2>1, <2>4
<1> HIDE DEF c
<1> QED BY <1>6, <1>7, <1>8

-----------------------------------------------------------------------------
(* What every change of the tables keeps.                                  *)

\* t has the entries of s, of the kinds they had.
Follows(s, t) ==
  /\ WellFormed(t) /\ Len(s) <= Len(t)
  /\ \A d \in DOMAIN s : t[d].kind = s[d].kind

\* Follows is reflexive
LEMMA FollowsItself ==
  ASSUME NEW s, WellFormed(s)
  PROVE  Follows(s, s)
BY DEF Follows, WellFormed

\* (what follows has all the entries)
LEMMA FollowsDomain ==
  ASSUME NEW s, NEW t, WellFormed(s), Follows(s, t)
  PROVE  DOMAIN s \subseteq DOMAIN t /\ WellFormed(t) /\ Len(s) \in Nat /\ Len(t) \in Nat
<1>1. /\ DOMAIN s = 1 .. Len(s) /\ Len(s) \in Nat /\ DOMAIN t = 1 .. Len(t) /\ Len(t) \in Nat
      /\ Len(s) <= Len(t)
  BY WellFormedDomain DEF Follows
<1> QED BY <1>1 DEF Follows

\* and transitive,
LEMMA FollowsOn ==
  ASSUME NEW s, NEW t, NEW u, WellFormed(s), Follows(s, t), Follows(t, u)
  PROVE  Follows(s, u)
<1>1. /\ DOMAIN s = 1 .. Len(s) /\ Len(s) \in Nat /\ DOMAIN t = 1 .. Len(t) /\ Len(t) \in Nat
      /\ Len(u) \in Nat /\ Len(s) <= Len(t) /\ Len(t) <= Len(u)
  BY WellFormedDomain DEF Follows
<1>2. DOMAIN s \subseteq DOMAIN t
  BY <1>1
<1> QED BY <1>1, <1>2 DEF Follows

\* a new entry follows,
LEMMA AddsFollows ==
  ASSUME NEW s, NEW t, NEW scope, NEW entry, NEW linked, WellFormed(s), WellFormed(t),
         Adds(s, t, scope, entry, linked)
  PROVE  Follows(s, t)
BY WellFormedDomain DEF Adds, Follows, SameButCounts

\* and so does a count.
LEMMA CountsFollows ==
  ASSUME NEW s, NEW t, NEW scope, WellFormed(s), WellFormed(t), Counts(s, t, scope)
  PROVE  Follows(s, t)
BY WellFormedDomain DEF Counts, Follows, SameButCounts

\* A new entry of any kind has nothing yet.
LEMMA BareEntries ==
  ASSUME NEW n, NEW kind
  PROVE  Bare(Entry(kind, n)) /\ Entry(kind, n).kind = kind /\ Entry(kind, n).name = n
<1>1. <<>> \in Seq(1 .. 0) /\ <<>> \in Seq(Nat)
  OBVIOUS
<1> QED BY <1>1 DEF Bare, IsEntry, Entry, EntryFields

\* A new variable has nothing in its table, and what it was made with.
LEMMA BareVariables ==
  ASSUME NEW n, NEW kind, NEW type
  PROVE  /\ Bare(Variable(n, kind, type)) /\ Variable(n, kind, type).kind = "VARIABLE"
         /\ Variable(n, kind, type).name = n /\ Variable(n, kind, type).varKind = kind
         /\ Variable(n, kind, type).type = type /\ Variable(n, kind, type).offSet = 0
         /\ ~Variable(n, kind, type).inMem
<1>1. <<>> \in Seq(1 .. 0) /\ <<>> \in Seq(Nat)
  OBVIOUS
<1> QED BY <1>1 DEF Bare, IsEntry, Variable, Entry, EntryFields

\* Where a variable is put: a new entry that says so.
LEMMA PlacedIs ==
  ASSUME NEW s, WellFormed(s), NEW scope \in DOMAIN s, NEW name, NEW type,
         NEW v, v = Placed(s, scope, name, type)
  PROVE  /\ Bare(v) /\ v.kind = "VARIABLE" /\ v.name = name /\ v.type = type
         /\ v.varKind = (IF s[scope].kind = "GLOBAL" THEN "GLOBAL" ELSE "LOCAL")
         /\ s[scope].kind # "GLOBAL" => v.offSet = s[scope].cnt
         /\ s[scope].kind = "GLOBAL" /\ v.inMem =>
              ~Resident(s, scope, type) /\ v.offSet = s[scope].cnt - GLOBAL_MAX_REG_COUNT
<1>1. s[scope].cnt \in Nat
  BY WellFormedDomain DEF IsEntry
<1> DEFINE k == IF s[scope].kind = "GLOBAL" THEN "GLOBAL" ELSE "LOCAL"
           b == Variable(name, k, type)
<1>2. /\ Bare(b) /\ b.kind = "VARIABLE" /\ b.name = name /\ b.type = type /\ b.varKind = k
      /\ ~b.inMem /\ DOMAIN b = EntryFields
  <2>1. \A kind : LET r == Variable(name, kind, type)
                   IN  /\ Bare(r) /\ r.kind = "VARIABLE" /\ r.name = name /\ r.type = type
                       /\ r.varKind = kind /\ ~r.inMem
    BY BareVariables
  <2>2. DOMAIN b = EntryFields
    BY <2>1 DEF Bare, IsEntry
  <2> HIDE DEF k
  <2> QED BY <2>1, <2>2
<1>3. v = IF s[scope].kind # "GLOBAL" THEN [b EXCEPT !.inMem = TRUE, !.offSet = s[scope].cnt]
          ELSE IF Resident(s, scope, type) THEN [b EXCEPT !.offSet = s[scope].cnt]
          ELSE [b EXCEPT !.inMem = TRUE, !.offSet = s[scope].cnt - GLOBAL_MAX_REG_COUNT]
  BY DEF Placed, IsGlobalScope
<1> HIDE DEF b, k
<1>4. GLOBAL_MAX_REG_COUNT \in Int /\ s[scope].cnt \in Int
  BY <1>1, ScopesAssumption
<1>5. v.offSet \in Int
  BY <1>2, <1>3, <1>4 DEF EntryFields
<1>6. /\ DOMAIN v = EntryFields /\ v.kind = b.kind /\ v.name = b.name /\ v.type = b.type
      /\ v.varKind = b.varKind /\ v.syms = b.syms /\ v.cnt = b.cnt /\ v.whileCnt = b.whileCnt
      /\ v.argCnt = b.argCnt /\ v.cntI = b.cntI /\ v.cntF = b.cntF /\ v.label = b.label
  BY <1>2, <1>3 DEF EntryFields
<1>7. Bare(v)
  BY <1>2, <1>5, <1>6 DEF Bare, IsEntry
<1>8. /\ s[scope].kind # "GLOBAL" => v.inMem = TRUE /\ v.offSet = s[scope].cnt
      /\ s[scope].kind = "GLOBAL" /\ ~Resident(s, scope, type) =>
           v.inMem = TRUE /\ v.offSet = s[scope].cnt - GLOBAL_MAX_REG_COUNT
      /\ s[scope].kind = "GLOBAL" /\ Resident(s, scope, type) => v.inMem = FALSE
  BY <1>2, <1>3 DEF EntryFields
<1> QED BY <1>2, <1>6, <1>7, <1>8 DEF k

\* What is there stays when an entry is inserted,
LEMMA InsertFollows ==
  ASSUME NEW s, WellFormed(s), NEW scope \in DOMAIN s, NEW entry, Bare(entry)
  PROVE  Follows(s, Insert(s, scope, entry))
BY Inserted, AddsFollows

\* a variable declared,
LEMMA DeclaredFollows ==
  ASSUME NEW s, WellFormed(s), NEW scope \in DOMAIN s, NEW name, NEW type
  PROVE  Follows(s, DeclaredOne(s, scope, name, type))
<1> DEFINE m == Counted(s, scope, type)
<1>1. WellFormed(m) /\ Counts(s, m, scope)
  BY CountedIs
<1>2. Follows(s, m)
  BY <1>1, CountsFollows
<1>3. scope \in DOMAIN m
  BY <1>1, WellFormedDomain DEF Counts
<1>4. Bare(Placed(s, scope, name, type))
  BY PlacedIs
<1> HIDE DEF m
<1>5. Follows(m, Insert(m, scope, Placed(s, scope, name, type)))
  BY <1>1, <1>3, <1>4, InsertFollows
<1> QED BY <1>2, <1>5, FollowsOn DEF DeclaredOne, m

\* a list of them,
LEMMA VarListFollows ==
  ASSUME NEW s, WellFormed(s), NEW scope \in DOMAIN s, NEW list, NEW type, list \in Seq(ToSet(list))
  PROVE  Follows(s, VarListEntry(s, scope, list, type))
<1>1. PICK c : /\ c[0] = s /\ c[Len(list)] = VarListEntry(s, scope, list, type)
               /\ \A k \in 1 .. Len(list) : c[k] = DeclaredOne(c[k - 1], scope, list[k].name, type)
  <2>1. PICK c : Declares(c, s, scope, list, type)
    BY OneByOne, Zenon
  <2> QED BY <2>1, Zenon DEF Declares
<1> DEFINE T == { k \in Nat : k <= Len(list) => Follows(s, c[k]) }
<1>2. 0 \in T
  BY <1>1, FollowsItself
<1>3. ASSUME NEW k \in Nat, k \in T
      PROVE  k + 1 \in T
  <2> SUFFICES ASSUME k + 1 <= Len(list)
               PROVE  Follows(s, c[k + 1])
    OBVIOUS
  <2>1. Follows(s, c[k]) /\ k + 1 \in 1 .. Len(list) /\ (k + 1) - 1 = k
    BY <1>3
  <2>2. c[k + 1] = DeclaredOne(c[k], scope, list[k + 1].name, type)
    BY <1>1, <2>1
  <2>3. scope \in DOMAIN c[k] /\ WellFormed(c[k])
    BY <2>1, FollowsDomain
  <2>4. Follows(c[k], c[k + 1])
    BY <2>2, <2>3, DeclaredFollows
  <2> QED BY <2>1, <2>4, FollowsOn
<1>4. Len(list) \in Nat
  OBVIOUS
<1> HIDE DEF T
<1>5. Len(list) \in T
  BY <1>2, <1>3, <1>4, Induction
<1> QED BY <1>1, <1>4, <1>5 DEF T

\* a pattern's names bound,
LEMMA BoundFollows ==
  ASSUME NEW s, WellFormed(s), NEW scope \in DOMAIN s, NEW e, NEW names, names \in Seq(ToSet(names))
  PROVE  Follows(s, Bound(s, scope, e, names))
<1>1. PICK c : /\ c[0] = s /\ c[Len(names)] = Bound(s, scope, e, names)
               /\ \A k \in 1 .. Len(names) : c[k] = Insert(c[k - 1], scope, Typed(e, names[k], k))
  BY OneBinding
<1> DEFINE T == { k \in Nat : k <= Len(names) => Follows(s, c[k]) }
<1>2. 0 \in T
  BY <1>1, FollowsItself
<1>3. ASSUME NEW k \in Nat, k \in T
      PROVE  k + 1 \in T
  <2> SUFFICES ASSUME k + 1 <= Len(names)
               PROVE  Follows(s, c[k + 1])
    OBVIOUS
  <2>1. Follows(s, c[k]) /\ k + 1 \in 1 .. Len(names) /\ (k + 1) - 1 = k
    BY <1>3
  <2>2. c[k + 1] = Insert(c[k], scope, Typed(e, names[k + 1], k + 1))
    BY <1>1, <2>1
  <2>3. scope \in DOMAIN c[k] /\ WellFormed(c[k])
    BY <2>1, FollowsDomain
  <2>4. Bare(Typed(e, names[k + 1], k + 1))
    BY BareVariables DEF Typed
  <2>5. Follows(c[k], c[k + 1])
    BY <2>2, <2>3, <2>4, InsertFollows
  <2> QED BY <2>1, <2>5, FollowsOn
<1>4. Len(names) \in Nat
  OBVIOUS
<1> HIDE DEF T
<1>5. Len(names) \in T
  BY <1>2, <1>3, <1>4, Induction
<1> QED BY <1>1, <1>4, <1>5 DEF T

\* or an entry made that is in no table.
LEMMA AppendFollows ==
  ASSUME NEW s, WellFormed(s), NEW entry, Bare(entry)
  PROVE  /\ Follows(s, Append(s, entry)) /\ Len(Append(s, entry)) = Len(s) + 1
         /\ Append(s, entry)[Len(s) + 1] = entry
         /\ \A d \in DOMAIN s : Append(s, entry)[d] = s[d]
<1> DEFINE t == Append(s, entry)
<1>1. /\ DOMAIN s = 1 .. Len(s) /\ Len(s) \in Nat /\ s \in Seq(ToSet(s))
      /\ \A e \in DOMAIN s : IsEntry(s[e], Len(s))
  BY WellFormedDomain DEF WellFormed
<1>2. /\ t \in Seq(ToSet(t)) /\ t # <<>> /\ Len(t) = Len(s) + 1 /\ DOMAIN t = 1 .. Len(s) + 1
      /\ t[Len(s) + 1] = entry /\ \A k \in DOMAIN s : t[k] = s[k]
  BY <1>1, Appended
<1> HIDE DEF t
<1>3. \A e \in DOMAIN t : e \in DOMAIN s \/ e = Len(s) + 1
  BY <1>1, <1>2
<1>4. /\ \A r : IsEntry(r, Len(s)) => IsEntry(r, Len(s) + 1)
      /\ IsEntry(entry, Len(s) + 1)
  BY <1>1, EntryGrows DEF Bare
<1>5. \A e \in DOMAIN t : IsEntry(t[e], Len(t))
  BY <1>1, <1>2, <1>3, <1>4
<1>6. WellFormed(t)
  BY <1>2, <1>5 DEF WellFormed
<1> QED BY <1>1, <1>2, <1>6 DEF Follows, t

-----------------------------------------------------------------------------
(* The scopes and the constructs.                                          *)

Inner == {"event", "function", "vars", "body", "pattern", "reaction"}
Deeper == {"cond", "loop"}

\* Declarations and rules are outermost, loops are inside of everything else.
ParseOK ==
  /\ parse \in Seq({"decls", "rules"} \cup Inner \cup Deeper)
  /\ ended = "no" => parse # <<>>
  /\ \A i \in DOMAIN parse : /\ i = 1 => parse[i] \in {"decls", "rules"}
                             /\ i = 2 => parse[i] \in Inner
                             /\ i > 2 => parse[i] \in Deeper

StackOK ==
  /\ stack \in Seq(DOMAIN ste) /\ stack # <<>> /\ stack[1] = 1 /\ ste[1].kind = "GLOBAL"
  /\ \A i \in DOMAIN stack : ste[stack[i]].kind \in Blocks

Matched ==
  errors = 0 /\ ended = "no" =>
    /\ Len(stack) = Len(parse)
    /\ \A i \in DOMAIN parse : i # 1 => ste[stack[i]].kind = ScopeKind[parse[i]]

Shape == WellFormed(ste) /\ ParseOK /\ StackOK /\ Matched

\* The type invariant, but for what names were looked up as.
Ranges ==
  /\ \A e \in DOMAIN ste : \A i \in DOMAIN ste[e].syms : ste[e].syms[i] \in DOMAIN ste
  /\ \A i \in DOMAIN stack : ste[stack[i]].kind \in Blocks
  /\ used \in 0..Len(ste)
  /\ errors \in 0..(MAX_ERROR_BEFORE_QUIT + 1)
  /\ ended \in {"no", "parsed", "exit", "abort"}
  /\ ended = "no" => errors <= MAX_ERROR_BEFORE_QUIT

ShapeInv == Shape /\ Ranges /\ CastsRight

\* No step makes errors good.
Onward == ended = "no" /\ (errors' = 0 /\ ended' = "no" => errors = 0)

\* The kind of entry each construct has its names in.
LEMMA ScopeKinds ==
  /\ ScopeKind["event"] = "EVENT" /\ ScopeKind["function"] = "FUNCTION" /\ ScopeKind["vars"] = "FUNCTION"
  /\ ScopeKind["body"] = "FUNCTION" /\ ScopeKind["cond"] = "WHILE_BLOCK" /\ ScopeKind["loop"] = "WHILE_BLOCK"
  /\ ScopeKind["pattern"] = "RULE_BLOCK" /\ ScopeKind["reaction"] = "RULE_BLOCK"
BY DEF ScopeKind

\* What Shape says of the stacks of a parse that goes on.
LEMMA ShapeFacts ==
  ASSUME Shape, ended = "no"
  PROVE  /\ DOMAIN ste = 1 .. Len(ste) /\ Len(ste) \in Nat /\ 1 \in DOMAIN ste
         /\ Len(stack) \in Nat /\ 1 <= Len(stack) /\ DOMAIN stack = 1 .. Len(stack)
         /\ \A i \in DOMAIN stack : stack[i] \in DOMAIN ste
         /\ CurrentScope = stack[Len(stack)] /\ CurrentScope \in DOMAIN ste
         /\ Len(parse) \in Nat /\ 1 <= Len(parse) /\ DOMAIN parse = 1 .. Len(parse)
         /\ Top = parse[Len(parse)] /\ Top \in {"decls", "rules"} \cup Inner \cup Deeper
         /\ (Top \in {"decls", "rules"}) <=> (Len(parse) = 1)
         /\ (Top \in Inner) <=> (Len(parse) = 2)
         /\ (Top \in Deeper) <=> (Len(parse) > 2)
<1>1. DOMAIN ste = 1 .. Len(ste) /\ Len(ste) \in Nat /\ 1 \in DOMAIN ste
  BY WellFormedDomain DEF Shape
<1>2. stack \in Seq(DOMAIN ste) /\ stack # <<>>
  BY DEF Shape, StackOK
<1>3. /\ Len(stack) \in Nat /\ 1 <= Len(stack) /\ DOMAIN stack = 1 .. Len(stack)
      /\ Last(stack) = stack[Len(stack)]
  BY <1>2, FrontAndLast
<1>4. \A i \in DOMAIN stack : stack[i] \in DOMAIN ste
  BY <1>2
<1>5. parse \in Seq({"decls", "rules"} \cup Inner \cup Deeper) /\ parse # <<>>
  BY DEF Shape, ParseOK
<1>6. /\ Len(parse) \in Nat /\ 1 <= Len(parse) /\ DOMAIN parse = 1 .. Len(parse)
      /\ Last(parse) = parse[Len(parse)]
  BY <1>5, FrontAndLast
<1>7. /\ Len(parse) = 1 => Top \in {"decls", "rules"}
      /\ Len(parse) = 2 => Top \in Inner
      /\ Len(parse) > 2 => Top \in Deeper
  <2> DEFINE n == Len(parse)
  <2>1. n \in DOMAIN parse /\ Top = parse[n]
    BY <1>6 DEF Top
  <2> HIDE DEF n
  <2>2. (n = 1 => parse[n] \in {"decls", "rules"}) /\ (n = 2 => parse[n] \in Inner) /\ (n > 2 => parse[n] \in Deeper)
    BY <2>1 DEF Shape, ParseOK
  <2> QED BY <2>1, <2>2 DEF n
<1>8. Len(parse) = 1 \/ Len(parse) = 2 \/ Len(parse) > 2
  BY <1>6
<1>9. /\ {"decls", "rules"} \cap Inner = {} /\ {"decls", "rules"} \cap Deeper = {}
      /\ Inner \cap Deeper = {}
  BY DEF Inner, Deeper
<1>10. CurrentScope = stack[Len(stack)] /\ CurrentScope \in DOMAIN ste
  BY <1>3, <1>4 DEF CurrentScope
<1>11. ~(Len(parse) = 1 /\ Len(parse) = 2) /\ ~(Len(parse) = 1 /\ Len(parse) > 2) /\ ~(Len(parse) = 2 /\ Len(parse) > 2)
  BY <1>6
<1>12. /\ (Top \in {"decls", "rules"}) <=> (Len(parse) = 1)
       /\ (Top \in Inner) <=> (Len(parse) = 2)
       /\ (Top \in Deeper) <=> (Len(parse) > 2)
  BY <1>7, <1>8, <1>9, <1>11
<1>13. Top \in {"decls", "rules"} \cup Inner \cup Deeper
  BY <1>7, <1>8
<1> QED BY <1>1, <1>3, <1>4, <1>6, <1>10, <1>12, <1>13 DEF Top

\* The scopes that are left stay good as the tables grow.
LEMMA StackStays ==
  ASSUME Shape, Follows(ste, ste'), NEW st, st \in Seq(DOMAIN ste), st # <<>>, Len(st) <= Len(stack),
         \A i \in DOMAIN st : st[i] = stack[i], stack' = st
  PROVE  StackOK'
<1>1. /\ stack \in Seq(DOMAIN ste) /\ stack # <<>> /\ stack[1] = 1 /\ ste[1].kind = "GLOBAL"
      /\ \A i \in DOMAIN stack : ste[stack[i]].kind \in Blocks
  BY DEF Shape, StackOK
<1>2. DOMAIN ste \subseteq DOMAIN ste' /\ 1 \in DOMAIN ste /\ \A d \in DOMAIN ste : ste'[d].kind = ste[d].kind
  BY FollowsDomain, WellFormedDomain DEF Shape, Follows
<1>3. DOMAIN st \subseteq DOMAIN stack /\ 1 \in DOMAIN st
  BY <1>1
<1>4. st \in Seq(DOMAIN ste')
  BY <1>2
<1>5. \A i \in DOMAIN st : st[i] \in DOMAIN ste
  OBVIOUS
<1> QED BY <1>1, <1>2, <1>3, <1>4, <1>5 DEF StackOK

\* A block is entered.
LEMMA StackGrows ==
  ASSUME Shape, Follows(ste, ste'), NEW b \in DOMAIN ste', ste'[b].kind \in Blocks, stack' = Append(stack, b)
  PROVE  /\ StackOK' /\ Len(stack') = Len(stack) + 1 /\ stack'[Len(stack) + 1] = b
         /\ \A i \in DOMAIN stack : stack'[i] = stack[i]
<1>1. /\ stack \in Seq(DOMAIN ste) /\ stack # <<>> /\ stack[1] = 1 /\ ste[1].kind = "GLOBAL"
      /\ \A i \in DOMAIN stack : ste[stack[i]].kind \in Blocks
  BY DEF Shape, StackOK
<1>2. DOMAIN ste \subseteq DOMAIN ste' /\ 1 \in DOMAIN ste /\ \A d \in DOMAIN ste : ste'[d].kind = ste[d].kind
  BY FollowsDomain, WellFormedDomain DEF Shape, Follows
<1>3. stack \in Seq(DOMAIN ste')
  BY <1>1, <1>2
<1>4. /\ stack' \in Seq(DOMAIN ste') /\ Len(stack') = Len(stack) + 1 /\ Len(stack) \in Nat
      /\ stack'[Len(stack) + 1] = b /\ \A i \in 1 .. Len(stack) : stack'[i] = stack[i]
  BY <1>3, AppendProperties
<1>5. DOMAIN stack = 1 .. Len(stack) /\ DOMAIN stack' = 1 .. Len(stack) + 1 /\ 1 \in DOMAIN stack
  BY <1>1, <1>4
<1>6. stack' # <<>>
  BY <1>4, <1>5
<1>7. \A i \in DOMAIN stack : stack[i] \in DOMAIN ste
  BY <1>1
<1>8. \A i \in DOMAIN stack' : ste'[stack'[i]].kind \in Blocks
  <2>1. \A i \in DOMAIN stack' : i \in DOMAIN stack \/ i = Len(stack) + 1
    BY <1>4, <1>5
  <2> QED BY <1>1, <1>2, <1>4, <1>5, <1>7, <2>1
<1> QED BY <1>1, <1>2, <1>4, <1>5, <1>6, <1>8 DEF StackOK

\* Scopes and constructs stay.
LEMMA StillShape ==
  ASSUME Shape, Onward, Follows(ste, ste'), UNCHANGED <<stack, parse>>
  PROVE  Shape'
<1>1. StackOK'
  <2>1. stack \in Seq(DOMAIN ste) /\ stack # <<>> /\ Len(stack) <= Len(stack)
    BY DEF Shape, StackOK
  <2> QED BY <2>1, StackStays
<1>2. ParseOK'
  BY DEF Shape, ParseOK, Onward
<1>3. \A i \in DOMAIN stack : ste'[stack[i]].kind = ste[stack[i]].kind
  BY DEF Shape, StackOK, Follows
<1>4. Matched'
  <2> SUFFICES ASSUME errors' = 0, ended' = "no"
               PROVE  /\ Len(stack) = Len(parse)
                      /\ \A i \in DOMAIN parse : i # 1 => ste'[stack[i]].kind = ScopeKind[parse[i]]
    BY DEF Matched
  <2>1. /\ Len(stack) = Len(parse)
        /\ \A i \in DOMAIN parse : i # 1 => ste[stack[i]].kind = ScopeKind[parse[i]]
    BY DEF Onward, Shape, Matched
  <2>2. DOMAIN stack = DOMAIN parse
    BY <2>1, ShapeFacts DEF Onward
  <2> QED BY <1>3, <2>1, <2>2
<1> QED BY <1>1, <1>2, <1>4 DEF Shape, Follows

\* A construct gives way to another that has the same scope.
Becomes == { <<"vars", "body">>, <<"function", "vars">>, <<"pattern", "reaction">>, <<"cond", "loop">> }

\* A construct becomes the next of its kind in place.
LEMMA ReplaceShape ==
  ASSUME Shape, Onward, Follows(ste, ste'), UNCHANGED stack, NEW c, <<Top, c>> \in Becomes, Replace(c)
  PROVE  Shape'
<1> DEFINE C == {"decls", "rules"} \cup Inner \cup Deeper
           n == Len(parse)
<1>1. parse \in Seq(C) /\ parse # <<>>
  BY DEF Shape, ParseOK, Onward
<1>2. /\ n \in Nat /\ 1 <= n /\ DOMAIN parse = 1 .. n /\ Top = parse[n]
      /\ (Top \in Inner) <=> (n = 2)
      /\ (Top \in Deeper) <=> (n > 2)
  BY ShapeFacts DEF Onward
<1>3. /\ Front(parse) \in Seq(C) /\ Len(Front(parse)) = n - 1
      /\ \A k \in 1 .. n - 1 : Front(parse)[k] = parse[k]
  BY <1>1, FrontAndLast
<1>4. /\ c \in C /\ ScopeKind[c] = ScopeKind[Top]
      /\ (c \in Inner /\ Top \in Inner /\ c \notin Deeper) \/ (c \in Deeper /\ Top \in Deeper /\ c \notin Inner)
      /\ c \notin {"decls", "rules"}
  BY ScopeKinds DEF Becomes, Inner, Deeper
<1>5. parse' = Append(Front(parse), c)
  BY DEF Replace
<1> HIDE DEF C, n
<1>6. /\ parse' \in Seq(C) /\ Len(parse') = n - 1 + 1 /\ parse'[n - 1 + 1] = c
      /\ \A k \in 1 .. n - 1 : parse'[k] = parse[k]
  BY <1>3, <1>4, <1>5, AppendProperties
<1>7. Len(parse') = n /\ parse'[n] = c /\ DOMAIN parse' = 1 .. n /\ parse' # <<>> /\ n # 1
  BY <1>2, <1>4, <1>6 DEF Inner, Deeper
<1>8. ASSUME NEW k \in 1 .. n
      PROVE  k \in 1 .. n - 1 \/ k = n
  BY <1>2
<1>9. ParseOK'
  <2>1. \A k \in 1 .. n - 1 : k \in DOMAIN parse
    BY <1>2
  <2>2. ASSUME NEW k \in 1 .. n
        PROVE  /\ k = 1 => parse'[k] \in {"decls", "rules"}
               /\ k = 2 => parse'[k] \in Inner
               /\ k > 2 => parse'[k] \in Deeper
    <3>1. CASE k \in 1 .. n - 1
      BY <1>6, <2>1, <3>1 DEF Shape, ParseOK
    <3>2. CASE k = n
      BY <1>2, <1>4, <1>7, <3>2
    <3> QED BY <1>8, <3>1, <3>2
  <2> QED BY <1>6, <1>7, <2>2 DEF ParseOK, C
<1>10. StackOK'
  <2>1. stack \in Seq(DOMAIN ste) /\ stack # <<>> /\ Len(stack) <= Len(stack)
    BY DEF Shape, StackOK
  <2> QED BY <2>1, StackStays
<1>11. \A i \in DOMAIN stack : ste'[stack[i]].kind = ste[stack[i]].kind
  BY DEF Shape, StackOK, Follows
<1>12. Matched'
  <2> SUFFICES ASSUME errors' = 0, ended' = "no"
               PROVE  /\ Len(stack) = n
                      /\ \A i \in 1 .. n : i # 1 => ste'[stack[i]].kind = ScopeKind[parse'[i]]
    BY <1>7 DEF Matched
  <2>1. /\ Len(stack) = Len(parse)
        /\ \A i \in DOMAIN parse : i # 1 => ste[stack[i]].kind = ScopeKind[parse[i]]
    BY DEF Onward, Shape, Matched
  <2>2. DOMAIN stack = 1 .. n /\ DOMAIN parse = 1 .. n
    BY <2>1, ShapeFacts DEF Onward, n
  <2>3. ASSUME NEW i \in 1 .. n, i # 1
        PROVE  ste'[stack[i]].kind = ScopeKind[parse'[i]]
    <3>1. CASE i \in 1 .. n - 1
      BY <1>6, <1>11, <2>1, <2>2, <2>3, <3>1
    <3>2. CASE i = n
      BY <1>2, <1>4, <1>7, <1>11, <2>1, <2>2, <2>3, <3>2
    <3> QED BY <1>8, <3>1, <3>2
  <2> QED BY <2>1, <2>3 DEF n
<1> QED BY <1>9, <1>10, <1>12 DEF Shape, Follows

\* A construct begins within the innermost one, which may have had variables
\* to declare till now.
Begins(c) ==
  /\ parse' \in Seq({"decls", "rules"} \cup Inner \cup Deeper)
  /\ Len(parse') = Len(parse) + 1 /\ parse'[Len(parse) + 1] = c
  /\ \A k \in 1 .. Len(parse) :
       parse'[k] = parse[k] \/ (parse[k] = "vars" /\ parse'[k] = "body")
  /\ (Len(parse) = 1 /\ c \in Inner) \/ (Len(parse) > 1 /\ c \in Deeper)

\* A push begins a construct,
LEMMA PushBegins ==
  ASSUME Shape, ended = "no", NEW c, Push(c),
         (Len(parse) = 1 /\ c \in Inner) \/ (Len(parse) > 1 /\ c \in Deeper)
  PROVE  Begins(c)
<1> DEFINE C == {"decls", "rules"} \cup Inner \cup Deeper
<1>1. parse \in Seq(C)
  BY DEF Shape, ParseOK
<1>2. parse' = Append(parse, c) /\ c \in C
  BY DEF Push
<1> HIDE DEF C
<1>3. /\ parse' \in Seq(C) /\ Len(parse') = Len(parse) + 1 /\ parse'[Len(parse) + 1] = c
      /\ \A k \in 1 .. Len(parse) : parse'[k] = parse[k]
  BY <1>1, <1>2, AppendProperties
<1> QED BY <1>3 DEF Begins, C

\* which is allowed where it is, and changes none of those around it.
LEMMA BeginsParse ==
  ASSUME Shape, ended = "no", NEW c, Begins(c)
  PROVE  /\ ParseOK' /\ Len(parse) \in Nat /\ DOMAIN parse' = 1 .. Len(parse) + 1
         /\ \A k \in 1 .. Len(parse) : k # 1 => ScopeKind[parse'[k]] = ScopeKind[parse[k]]
<1> DEFINE n == Len(parse)
<1>1. n \in Nat /\ 1 <= n /\ DOMAIN parse = 1 .. n
  BY ShapeFacts
<1>2. /\ parse' \in Seq({"decls", "rules"} \cup Inner \cup Deeper) /\ Len(parse') = n + 1
      /\ parse'[n + 1] = c
      /\ \A k \in 1 .. n : parse'[k] = parse[k] \/ (parse[k] = "vars" /\ parse'[k] = "body")
      /\ (n = 1 /\ c \in Inner) \/ (n > 1 /\ c \in Deeper)
  BY DEF Begins
<1> HIDE DEF n
<1>3. DOMAIN parse' = 1 .. n + 1 /\ parse' # <<>>
  BY <1>1, <1>2
<1>4. ASSUME NEW k \in 1 .. n
      PROVE  /\ k = 1 => parse'[k] \in {"decls", "rules"}
             /\ k = 2 => parse'[k] \in Inner
             /\ k > 2 => parse'[k] \in Deeper
             /\ k # 1 => ScopeKind[parse'[k]] = ScopeKind[parse[k]]
  <2>1. /\ k = 1 => parse[k] \in {"decls", "rules"}
        /\ k = 2 => parse[k] \in Inner
        /\ k > 2 => parse[k] \in Deeper
    BY <1>1 DEF Shape, ParseOK
  <2>2. CASE parse'[k] = parse[k]
    BY <2>1, <2>2
  <2>3. CASE parse[k] = "vars" /\ parse'[k] = "body"
    <3>1. k = 2
      BY <1>1, <2>1, <2>3 DEF Deeper
    <3> QED BY <2>3, <3>1, ScopeKinds DEF Inner
  <2> QED BY <1>2, <2>2, <2>3
<1>5. ASSUME NEW k \in 1 .. n + 1
      PROVE  /\ k = 1 => parse'[k] \in {"decls", "rules"}
             /\ k = 2 => parse'[k] \in Inner
             /\ k > 2 => parse'[k] \in Deeper
  <2>1. k \in 1 .. n \/ k = n + 1
    BY <1>1
  <2>2. CASE k = n + 1
    BY <1>1, <1>2, <2>2
  <2> QED BY <1>4, <2>1, <2>2
<1> QED BY <1>1, <1>2, <1>3, <1>4, <1>5 DEF ParseOK, n

\* With a scope of its own.
LEMMA BeginShape ==
  ASSUME Shape, Onward, Follows(ste, ste'), NEW c, Begins(c), NEW b \in DOMAIN ste',
         stack' = Append(stack, b), ste'[b].kind \in Blocks, ste'[b].kind = ScopeKind[c]
  PROVE  Shape'
<1>1. /\ ParseOK' /\ Len(parse) \in Nat /\ DOMAIN parse' = 1 .. Len(parse) + 1
      /\ \A k \in 1 .. Len(parse) : k # 1 => ScopeKind[parse'[k]] = ScopeKind[parse[k]]
  BY BeginsParse DEF Onward
<1>2. /\ StackOK' /\ Len(stack') = Len(stack) + 1 /\ stack'[Len(stack) + 1] = b
      /\ \A i \in DOMAIN stack : stack'[i] = stack[i]
  BY StackGrows
<1>3. \A i \in DOMAIN stack : ste'[stack[i]].kind = ste[stack[i]].kind
  BY DEF Shape, StackOK, Follows
<1>4. Matched'
  <2> SUFFICES ASSUME errors' = 0, ended' = "no"
               PROVE  /\ Len(stack') = Len(parse')
                      /\ \A i \in DOMAIN parse' : i # 1 => ste'[stack'[i]].kind = ScopeKind[parse'[i]]
    BY DEF Matched
  <2>1. /\ Len(stack) = Len(parse)
        /\ \A i \in DOMAIN parse : i # 1 => ste[stack[i]].kind = ScopeKind[parse[i]]
    BY DEF Onward, Shape, Matched
  <2>2. DOMAIN stack = 1 .. Len(parse) /\ DOMAIN parse = 1 .. Len(parse)
    BY <2>1, ShapeFacts DEF Onward
  <2>3. Len(parse') = Len(parse) + 1 /\ parse'[Len(parse) + 1] = c
    BY DEF Begins
  <2>4. ASSUME NEW i \in DOMAIN parse', i # 1
        PROVE  ste'[stack'[i]].kind = ScopeKind[parse'[i]]
    <3>1. i \in 1 .. Len(parse) \/ i = Len(parse) + 1
      BY <1>1
    <3>2. CASE i \in 1 .. Len(parse)
      BY <1>1, <1>2, <1>3, <2>1, <2>2, <2>4, <3>2
    <3>3. CASE i = Len(parse) + 1
      BY <1>2, <2>1, <2>3, <3>3
    <3> QED BY <3>1, <3>2, <3>3
  <2> QED BY <1>2, <2>1, <2>3, <2>4
<1> QED BY <1>1, <1>2, <1>4 DEF Shape, Follows

\* What is wrong or over need not match.
LEMMA UnmatchedShape ==
  ASSUME Shape, Follows(ste, ste'), ParseOK', StackOK', errors' # 0 \/ ended' # "no"
  PROVE  Shape'
BY DEF Shape, Matched, Follows

\* The stack of scopes names entries still, when there are more.
LEMMA StackSame ==
  ASSUME Shape, Follows(ste, ste'), UNCHANGED stack
  PROVE  StackOK'
<1>1. stack \in Seq(DOMAIN ste) /\ stack # <<>> /\ Len(stack) <= Len(stack)
  BY DEF Shape, StackOK
<1> QED BY <1>1, StackStays

\* The innermost construct ends.
LEMMA PopParse ==
  ASSUME Shape, ended = "no", Len(parse) > 1, Pop
  PROVE  /\ ParseOK' /\ Len(parse) \in Nat /\ Len(parse') = Len(parse) - 1
         /\ DOMAIN parse' = 1 .. Len(parse) - 1
         /\ \A k \in DOMAIN parse' : parse'[k] = parse[k]
<1> DEFINE C == {"decls", "rules"} \cup Inner \cup Deeper
<1>1. parse \in Seq(C) /\ parse # <<>>
  BY DEF Shape, ParseOK
<1> HIDE DEF C
<1>2. /\ Front(parse) \in Seq(C) /\ Len(Front(parse)) = Len(parse) - 1 /\ Len(parse) \in Nat
      /\ DOMAIN Front(parse) = 1 .. Len(parse) - 1 /\ DOMAIN parse = 1 .. Len(parse)
      /\ \A k \in 1 .. Len(parse) - 1 : Front(parse)[k] = parse[k]
  BY <1>1, FrontAndLast
<1>3. parse' = Front(parse)
  BY DEF Pop
<1>4. parse' # <<>>
  BY <1>2, <1>3
<1>5. \A k \in 1 .. Len(parse) - 1 : k \in DOMAIN parse
  BY <1>2
<1> QED BY <1>2, <1>3, <1>4, <1>5 DEF Shape, ParseOK, C

\* And a scope is left: never the outermost one.
LEMMA PoppedStack ==
  ASSUME Shape, ended = "no", Follows(ste, ste'), LeaveScope
  PROVE  /\ StackOK' /\ Len(stack') = (IF Len(stack) > 1 THEN Len(stack) - 1 ELSE Len(stack))
         /\ Len(stack) \in Nat /\ DOMAIN stack' \subseteq DOMAIN stack
         /\ \A k \in DOMAIN stack' : stack'[k] = stack[k]
<1>1. stack \in Seq(DOMAIN ste) /\ stack # <<>>
  BY DEF Shape, StackOK
<1>2. /\ Front(stack) \in Seq(DOMAIN ste) /\ Len(Front(stack)) = Len(stack) - 1 /\ Len(stack) \in Nat
      /\ DOMAIN Front(stack) = 1 .. Len(stack) - 1 /\ DOMAIN stack = 1 .. Len(stack)
      /\ \A k \in 1 .. Len(stack) - 1 : Front(stack)[k] = stack[k]
  BY <1>1, FrontAndLast
<1>3. CASE Len(stack) > 1
  <2>1. stack' = Front(stack)
    BY <1>3 DEF LeaveScope, Popped
  <2>2. Front(stack) # <<>> /\ DOMAIN stack' \subseteq DOMAIN stack
    BY <1>2, <1>3, <2>1
  <2>3. Len(Front(stack)) <= Len(stack)
    BY <1>2
  <2>4. StackOK'
    BY <1>2, <2>1, <2>2, <2>3, StackStays
  <2> QED BY <1>2, <1>3, <2>1, <2>2, <2>4
<1>4. CASE ~(Len(stack) > 1)
  <2>1. stack' = stack
    BY <1>4 DEF LeaveScope, Popped
  <2> QED BY <1>2, <1>4, <2>1, StackSame
<1> QED BY <1>3, <1>4

\* A construct that ends leaves its scope and goes back to the one around it.
LEMMA EndShape ==
  ASSUME Shape, Onward, Follows(ste, ste'), Len(parse) > 1, Pop, LeaveScope
  PROVE  Shape'
<1>1. /\ ParseOK' /\ Len(parse) \in Nat /\ Len(parse') = Len(parse) - 1
      /\ DOMAIN parse' = 1 .. Len(parse) - 1
      /\ \A k \in DOMAIN parse' : parse'[k] = parse[k]
  BY PopParse DEF Onward
<1>2. /\ StackOK' /\ Len(stack') = (IF Len(stack) > 1 THEN Len(stack) - 1 ELSE Len(stack))
      /\ DOMAIN stack' \subseteq DOMAIN stack /\ \A k \in DOMAIN stack' : stack'[k] = stack[k]
  BY PoppedStack DEF Onward
<1>3. \A i \in DOMAIN stack : ste'[stack[i]].kind = ste[stack[i]].kind
  BY DEF Shape, StackOK, Follows
<1>4. Matched'
  <2> SUFFICES ASSUME errors' = 0, ended' = "no"
               PROVE  /\ Len(stack') = Len(parse')
                      /\ \A i \in DOMAIN parse' : i # 1 => ste'[stack'[i]].kind = ScopeKind[parse'[i]]
    BY DEF Matched
  <2>1. /\ Len(stack) = Len(parse)
        /\ \A i \in DOMAIN parse : i # 1 => ste[stack[i]].kind = ScopeKind[parse[i]]
    BY DEF Onward, Shape, Matched
  <2>2. Len(stack') = Len(parse')
    BY <1>1, <1>2, <2>1
  <2>3. DOMAIN stack' = DOMAIN parse' /\ DOMAIN parse' \subseteq DOMAIN parse
    <3>1. stack' \in Seq(DOMAIN ste')
      BY <1>2 DEF StackOK
    <3>2. DOMAIN stack' = 1 .. Len(stack')
      BY <3>1
    <3>3. DOMAIN parse = 1 .. Len(parse)
      BY ShapeFacts DEF Onward
    <3> QED BY <1>1, <2>2, <3>2, <3>3
  <2> QED BY <1>1, <1>2, <1>3, <2>1, <2>2, <2>3
<1> QED BY <1>1, <1>2, <1>4 DEF Shape, Follows

-----------------------------------------------------------------------------
(* The actions.                                                            *)

\* A look up finds an entry or none.
LEMMA LookUpIn ==
  ASSUME NEW s, WellFormed(s), NEW st, st \in Seq(DOMAIN s), NEW n
  PROVE  LookUpFrom(s, st, n) \in 0 .. Len(s)
<1>1. DOMAIN s = 1 .. Len(s) /\ Len(s) \in Nat /\ \A e \in DOMAIN s : s[e].syms \in Seq(1 .. Len(s))
  BY WellFormedDomain DEF IsEntry
<1>2. CASE Holders(s, st, n) = {}
  BY <1>1, <1>2 DEF LookUpFrom
<1>3. CASE Holders(s, st, n) # {}
  <2> DEFINE H == Holders(s, st, n)
  <2>1. H \subseteq 1 .. Len(st) /\ H # {} /\ Len(st) \in Nat
    BY <1>3 DEF Holders
  <2>2. Max(H) \in H
    <3> HIDE DEF H
    <3> QED BY <2>1, MaxIn
  <2> DEFINE m == Max(H)
             t == InTable(s, st[m], n)
  <2>3. m \in 1 .. Len(st) /\ t # {}
    BY <2>2 DEF Holders
  <2>4. st[m] \in DOMAIN s
    <3> HIDE DEF m
    <3> QED BY <2>3
  <2>5. LookUpFrom(s, st, n) \in t
    <3>1. LookUpFrom(s, st, n) = CHOOSE e \in t : TRUE
      BY <1>3 DEF LookUpFrom
    <3> HIDE DEF t
    <3>2. \E e : e \in t /\ TRUE
      BY <2>3
    <3> QED BY <3>1, <3>2, Zenon
  <2>6. ASSUME NEW e \in t
        PROVE  e \in 1 .. Len(s)
    <3>1. PICK k \in DOMAIN s[st[m]].syms : e = s[st[m]].syms[k]
      BY <2>6 DEF InTable, ToSet
    <3> HIDE DEF m
    <3>2. s[st[m]].syms \in Seq(1 .. Len(s))
      BY <1>1, <2>4
    <3> QED BY <3>1, <3>2
  <2> QED BY <1>1, <2>5, <2>6
<1> QED BY <1>2, <1>3

\* Errors are counted up to the limit, and the process exits past it.
LEMMA ErrMsgIs ==
  ASSUME Ranges, ended = "no", NEW n \in Nat, ErrMsg(n)
  PROVE  /\ Onward /\ errors' \in 0 .. MAX_ERROR_BEFORE_QUIT + 1 /\ ended' \in {"no", "exit"}
         /\ ended' = "no" => errors' <= MAX_ERROR_BEFORE_QUIT
         /\ n # 0 => errors' > 0
<1>1. MAX_ERROR_BEFORE_QUIT \in Nat /\ errors \in 0 .. MAX_ERROR_BEFORE_QUIT
  BY ScopesAssumption DEF Ranges
<1>2. /\ errors' = Counting(n)
      /\ ended' = IF errors + n > MAX_ERROR_BEFORE_QUIT THEN "exit" ELSE ended
  BY DEF ErrMsg
<1>3. CASE errors + n > MAX_ERROR_BEFORE_QUIT
  BY <1>1, <1>2, <1>3 DEF Counting, Onward
<1>4. CASE ~ (errors + n > MAX_ERROR_BEFORE_QUIT)
  BY <1>1, <1>2, <1>4 DEF Counting, Onward
<1> QED BY <1>3, <1>4

\* What is left to say of a step whose scopes are as they should be.
LEMMA Settled ==
  ASSUME ShapeInv, Follows(ste, ste'), Shape', used' \in 0 .. Len(ste),
         errors' \in 0 .. MAX_ERROR_BEFORE_QUIT + 1, ended' \in {"no", "parsed", "exit", "abort"},
         ended' = "no" => errors' <= MAX_ERROR_BEFORE_QUIT, wild' => errors' > 0
  PROVE  ShapeInv'
<1>1. /\ DOMAIN ste' = 1 .. Len(ste') /\ Len(ste') \in Nat /\ Len(ste) \in Nat /\ Len(ste) <= Len(ste')
      /\ \A e \in DOMAIN ste' : IsEntry(ste'[e], Len(ste'))
  BY FollowsDomain, WellFormedDomain DEF Follows, ShapeInv, Shape
<1>2. ASSUME NEW e \in DOMAIN ste', NEW k \in DOMAIN ste'[e].syms
      PROVE  ste'[e].syms[k] \in DOMAIN ste'
  BY <1>1 DEF IsEntry
<1>3. used' \in 0 .. Len(ste')
  BY <1>1
<1>4. \A k \in DOMAIN stack' : ste'[stack'[k]].kind \in Blocks
  BY DEF Shape, StackOK
<1>5. Ranges'
  BY <1>2, <1>3, <1>4 DEF Ranges
<1> QED BY <1>5 DEF ShapeInv, CastsRight

\* The usual step: a number of complaints, nothing else that can end the process.
LEMMA Complaining ==
  ASSUME ShapeInv, ended = "no", ~wild, Follows(ste, ste'), Shape', NEW n \in Nat, ErrMsg(n),
         used' \in 0 .. Len(ste), UNCHANGED wild
  PROVE  ShapeInv'
BY ErrMsgIs, Settled DEF ShapeInv

\* Or none.
LEMMA Silent ==
  ASSUME ShapeInv, ended = "no", ~wild, Follows(ste, ste'), Shape',
         used' \in 0 .. Len(ste), UNCHANGED <<errors, ended, wild>>
  PROVE  ShapeInv'
BY Settled DEF ShapeInv, Ranges

\* The innermost scope is that of the innermost construct.
LEMMA CurrentIs ==
  ASSUME Shape, ended = "no", errors = 0
  PROVE  /\ Len(stack) = Len(parse)
         /\ Len(parse) > 1 => CurrentKind = ScopeKind[Top]
         /\ Len(parse) = 1 => CurrentScope = 1 /\ CurrentKind = "GLOBAL"
<1>1. /\ Len(stack) = Len(parse)
      /\ \A i \in DOMAIN parse : i # 1 => ste[stack[i]].kind = ScopeKind[parse[i]]
  BY DEF Shape, Matched
<1>2. /\ CurrentScope = stack[Len(stack)] /\ Top = parse[Len(parse)] /\ Len(parse) \in Nat
      /\ DOMAIN parse = 1 .. Len(parse) /\ 1 <= Len(parse)
  BY ShapeFacts
<1>3. Len(parse) > 1 => CurrentKind = ScopeKind[Top]
  BY <1>1, <1>2 DEF CurrentKind
<1>4. Len(parse) = 1 => CurrentScope = 1 /\ CurrentKind = "GLOBAL"
  BY <1>1, <1>2 DEF CurrentKind, Shape, StackOK
<1> QED BY <1>1, <1>3, <1>4

\* The parse starts with the global scope, in the declarations.
LEMMA InitShape ==
  ASSUME Init
  PROVE  ShapeInv
<1> DEFINE g == [Entry("GLOBAL", NoName) EXCEPT !.syms = <<2>>]
           v == Entry("EVENT", NoName)
<1>1. /\ ste = <<g, v>> /\ stack = <<1>> /\ parse = <<"decls">> /\ used = 0 /\ errors = 0
      /\ ended = "no" /\ ~wild
  BY DEF Init
<1>2. /\ IsEntry(v, 0) /\ v.syms = <<>> /\ v.kind = "EVENT"
  BY BareEntries DEF Bare
<1>3. IsEntry(v, 2)
  BY <1>2, EntryGrows
<1>4. IsEntry(g, 2) /\ g.kind = "GLOBAL" /\ g.syms = <<2>>
  <2>1. <<2>> \in Seq(1 .. 2) /\ <<>> \in Seq(Nat)
    OBVIOUS
  <2> QED BY <2>1 DEF IsEntry, Entry, EntryFields
<1> HIDE DEF g, v
<1>5. Len(ste) = 2 /\ DOMAIN ste = 1 .. 2 /\ ste[1] = g /\ ste[2] = v /\ ste \in Seq({g, v})
  BY <1>1
<1>6. WellFormed(ste)
  <2>1. ste \in Seq(ToSet(ste)) /\ ste # <<>>
    <3>1. ste \in Seq(ToSet(ste))
      BY <1>5, OwnElements
    <3> QED BY <1>1, <3>1
  <2>2. \A e \in 1 .. 2 : e = 1 \/ e = 2
    OBVIOUS
  <2> QED BY <1>3, <1>4, <1>5, <2>1, <2>2 DEF WellFormed
<1>7. Len(stack) = 1 /\ DOMAIN stack = {1} /\ stack[1] = 1 /\ stack \in Seq({1, 2}) /\ stack # <<>>
  BY <1>1
<1>8. StackOK
  <2>1. stack \in Seq(DOMAIN ste)
    BY <1>1, <1>5
  <2> QED BY <1>4, <1>5, <1>7, <2>1 DEF StackOK, Blocks
<1>9. Len(parse) = 1 /\ DOMAIN parse = {1} /\ parse[1] = "decls" /\ parse # <<>>
  BY <1>1
<1>10. ParseOK
  <2>1. parse \in Seq({"decls", "rules"} \cup Inner \cup Deeper)
    BY <1>1
  <2> QED BY <1>9, <2>1 DEF ParseOK
<1>11. Matched
  BY <1>7, <1>9 DEF Matched
<1>12. Ranges
  <2>1. MAX_ERROR_BEFORE_QUIT \in Nat
    BY ScopesAssumption
  <2>2. \A e \in DOMAIN ste : \A k \in DOMAIN ste[e].syms : ste[e].syms[k] \in DOMAIN ste
    BY <1>6, WellFormedDomain DEF IsEntry
  <2> QED BY <1>1, <1>5, <1>8, <2>1, <2>2 DEF Ranges, StackOK
<1> QED BY <1>1, <1>6, <1>8, <1>10, <1>11, <1>12 DEF ShapeInv, Shape, CastsRight

\* A declaration without a message has names that are new and different.
LEMMA RepeatedIs ==
  ASSUME NEW s, NEW scope, NEW list, list \in Seq(ToSet(list))
  PROVE  /\ Repeated(s, scope, list) \in Nat
         /\ Repeated(s, scope, list) = 0 =>
              /\ \A k \in DOMAIN list : InTable(s, scope, list[k].name) = {}
              /\ \A k \in DOMAIN list : \A l \in 1 .. k - 1 : list[l].name # list[k].name
<1> DEFINE R == {k \in DOMAIN list : \/ InTable(s, scope, list[k].name) # {}
                                     \/ \E l \in 1..(k - 1) : list[l].name = list[k].name}
<1>1. DOMAIN list = 1 .. Len(list) /\ Len(list) \in Nat
  OBVIOUS
<1>2. IsFiniteSet(1 .. Len(list))
  BY <1>1, FS_Interval
<1>3. R \subseteq 1 .. Len(list)
  BY <1>1
<1>4. Repeated(s, scope, list) = Cardinality(R)
  BY DEF Repeated
<1> HIDE DEF R
<1>5. IsFiniteSet(R)
  BY <1>2, <1>3, FS_Subset
<1>6. Cardinality(R) \in Nat /\ (Cardinality(R) = 0 <=> R = {})
  BY <1>5, FS_CardinalityType, FS_EmptySet
<1>7. R = {} => /\ \A k \in DOMAIN list : InTable(s, scope, list[k].name) = {}
                /\ \A k \in DOMAIN list : \A l \in 1 .. k - 1 : list[l].name # list[k].name
  BY DEF R
<1> QED BY <1>4, <1>6, <1>7

\* A statement ends the declarations of a function, and otherwise leaves the parse where it is.
LEMMA AfterShape ==
  ASSUME Shape, Onward, Follows(ste, ste'), UNCHANGED stack, AfterStatement
  PROVE  Shape'
<1>1. CASE Top = "vars"
  <2>1. Replace("body") /\ <<Top, "body">> \in Becomes
    BY <1>1 DEF AfterStatement, Becomes
  <2> QED BY <2>1, ReplaceShape
<1>2. CASE Top # "vars"
  BY <1>2, StillShape DEF AfterStatement
<1> QED BY <1>1, <1>2

\* A step that changes no table and complains of nothing.
LEMMA Untouched ==
  ASSUME ShapeInv, ended = "no", UNCHANGED <<errors, ended>>, ste' = ste
  PROVE  Onward /\ Follows(ste, ste') /\ Shape /\ 0 \in 0 .. Len(ste) /\ Len(ste) \in Nat
BY FollowsItself, WellFormedDomain DEF Onward, ShapeInv, Shape

LEMMA VarDecShape ==
  ASSUME ShapeInv, ended = "no", ~wild, NEW list \in VarLists, NEW type \in VarTypes, VarDec(list, type)
  PROVE  ShapeInv'
<1>1. /\ ste' = VarListEntry(ste, CurrentScope, list, type)
      /\ ErrMsg(Repeated(ste, CurrentScope, list))
      /\ used' = IF Initialised(list) = {} THEN 0 ELSE LookUp(list[Max(Initialised(list))].init)
      /\ UNCHANGED <<stack, parse, wild>>
  BY DEF VarDec
<1>2. list \in Seq(ToSet(list))
  BY ScopesAssumption
<1>3. /\ Shape /\ WellFormed(ste) /\ stack \in Seq(DOMAIN ste) /\ Ranges /\ CurrentScope \in DOMAIN ste
      /\ Len(ste) \in Nat
  BY ShapeFacts DEF ShapeInv, Shape, StackOK
<1>4. Follows(ste, ste')
  BY <1>1, <1>2, <1>3, VarListFollows
<1>5. Repeated(ste, CurrentScope, list) \in Nat
  BY <1>2, RepeatedIs
<1>6. used' \in 0 .. Len(ste)
  <2>1. \A n : LookUp(n) \in 0 .. Len(ste)
    BY <1>3, LookUpIn DEF LookUp
  <2>2. 0 \in 0 .. Len(ste)
    BY <1>3
  <2> QED BY <1>1, <2>1, <2>2
<1>7. Shape'
  BY <1>1, <1>3, <1>4, <1>5, ErrMsgIs, StillShape
<1> QED BY <1>1, <1>4, <1>5, <1>6, <1>7, Complaining

\* One entry more, complained of when its name is taken.
LEMMA ComplainIs ==
  ASSUME NEW dup \in BOOLEAN, Complain(dup)
  PROVE  \E n \in {0, 1} : ErrMsg(n) /\ (dup <=> n = 1)
BY DEF Complain

\* A name is there already or not.
LEMMA DuplicateIs ==
  ASSUME NEW s, NEW scope, NEW entry
  PROVE  Duplicate(s, scope, entry) \in BOOLEAN
BY DEF Duplicate

LEMMA ClassDecShape ==
  ASSUME ShapeInv, ended = "no", ~wild, NEW n \in Names, ClassDec(n)
  PROVE  ShapeInv'
<1>1. /\ ste' = Insert(ste, CurrentScope, Entry("CLASS", n))
      /\ Complain(Duplicate(ste, CurrentScope, Entry("CLASS", n)))
      /\ UNCHANGED <<stack, parse>> /\ used' = 0 /\ UNCHANGED wild
  BY DEF ClassDec, Forget
<1>2. PICK m \in {0, 1} : ErrMsg(m)
  BY <1>1, ComplainIs, DuplicateIs
<1>3. Shape /\ WellFormed(ste) /\ Ranges /\ CurrentScope \in DOMAIN ste /\ Len(ste) \in Nat /\ m \in Nat
  BY ShapeFacts DEF ShapeInv, Shape
<1>4. Follows(ste, ste')
  BY <1>1, <1>3, BareEntries, InsertFollows
<1>5. Shape'
  BY <1>1, <1>2, <1>3, <1>4, ErrMsgIs, StillShape
<1>6. used' \in 0 .. Len(ste)
  BY <1>1, <1>3
<1> QED BY <1>1, <1>2, <1>3, <1>4, <1>5, <1>6, Complaining

\* An entry that is entered as a scope, with the construct it is of.
LEMMA InsertAndEnterShape ==
  ASSUME ShapeInv, ended = "no", ~wild, Top = "decls", NEW entry, Bare(entry), InsertAndEnter(entry),
         NEW c \in Inner, Push(c), entry.kind = ScopeKind[c], entry.kind \in Blocks, Forget
  PROVE  ShapeInv'
<1>1. /\ Shape /\ WellFormed(ste) /\ Ranges /\ CurrentScope \in DOMAIN ste
      /\ DOMAIN ste = 1 .. Len(ste) /\ Len(ste) \in Nat /\ Len(parse) = 1
  BY ShapeFacts DEF ShapeInv, Shape
<1>2. ste' = Insert(ste, CurrentScope, entry) /\ used' = 0 /\ UNCHANGED wild
  BY DEF InsertAndEnter, Forget
<1>3. /\ Follows(ste, ste') /\ Len(ste) + 1 \in DOMAIN ste' /\ ste'[Len(ste) + 1] = entry
  <2>1. WellFormed(ste') /\ Adds(ste, ste', CurrentScope, entry, ~Duplicate(ste, CurrentScope, entry))
    BY <1>1, <1>2, Inserted
  <2>2. DOMAIN ste' = 1 .. Len(ste')
    BY <2>1, WellFormedDomain
  <2>3. Len(ste') = Len(ste) + 1 /\ ste'[Len(ste) + 1] = entry
    BY <2>1 DEF Adds
  <2>4. Follows(ste, ste')
    BY <1>1, <2>1, AddsFollows
  <2> QED BY <1>1, <2>2, <2>3, <2>4
<1>4. Begins(c)
  BY <1>1, PushBegins
<1>5. used' \in 0 .. Len(ste)
  BY <1>1, <1>2
<1>6. CASE TooDeep
  <2>1. /\ ended' = "exit" /\ UNCHANGED stack
        /\ errors' = Counting(IF Duplicate(ste, CurrentScope, entry) THEN 2 ELSE 1)
    BY <1>6 DEF InsertAndEnter
  <2>2. errors' \in 0 .. MAX_ERROR_BEFORE_QUIT + 1 /\ errors' > 0
    BY <1>1, <2>1, ScopesAssumption DEF Counting, Ranges
  <2>3. Shape'
    BY <1>1, <1>3, <1>4, <2>1, BeginsParse, StackSame, UnmatchedShape
  <2> QED BY <1>2, <1>3, <1>5, <2>1, <2>2, <2>3, Settled
<1>7. CASE ~TooDeep
  <2>1. Complain(Duplicate(ste, CurrentScope, entry)) /\ stack' = Append(stack, Len(ste) + 1)
    BY <1>7 DEF InsertAndEnter, EnterScope
  <2>2. PICK m \in {0, 1} : ErrMsg(m)
    BY <2>1, ComplainIs, DuplicateIs
  <2>3. Onward
    BY <1>1, <2>2, ErrMsgIs
  <2>4. Shape'
    BY <1>1, <1>3, <1>4, <2>1, <2>3, BeginShape
  <2>5. m \in Nat
    OBVIOUS
  <2> QED BY <1>2, <1>3, <1>5, <2>2, <2>4, <2>5, Complaining
<1> QED BY <1>6, <1>7

\* The headers of a function and of an event.
LEMMA HeadersShape ==
  ASSUME ShapeInv, ended = "no", ~wild, NEW n \in Names, EventDeclHdr(n) \/ FuncDeclHdr(n)
  PROVE  ShapeInv'
<1>1. /\ "event" \in Inner /\ ScopeKind["event"] = "EVENT" /\ "EVENT" \in Blocks
      /\ "function" \in Inner /\ ScopeKind["function"] = "FUNCTION" /\ "FUNCTION" \in Blocks
  BY ScopeKinds DEF Inner, Blocks
<1>2. /\ Bare(Entry("EVENT", n)) /\ Entry("EVENT", n).kind = "EVENT"
      /\ Bare(Entry("FUNCTION", n)) /\ Entry("FUNCTION", n).kind = "FUNCTION"
  BY BareEntries
<1>3. CASE EventDeclHdr(n)
  <2>1. Top = "decls" /\ InsertAndEnter(Entry("EVENT", n)) /\ Push("event") /\ Forget
    BY <1>3 DEF EventDeclHdr
  <2> QED BY <1>1, <1>2, <2>1, InsertAndEnterShape
<1>4. CASE FuncDeclHdr(n)
  <2>1. Top = "decls" /\ InsertAndEnter(Entry("FUNCTION", n)) /\ Push("function") /\ Forget
    BY <1>4 DEF FuncDeclHdr
  <2> QED BY <1>1, <1>2, <2>1, InsertAndEnterShape
<1> QED BY <1>3, <1>4

\* A parameter in the table of s: its place, and what is counted for it.
Param(s, scope, n, type) ==
  LET own == s[scope].kind \in {"FUNCTION", "EVENT"}
  IN  [Variable(n, "PARAM", type) EXCEPT !.inMem = own, !.offSet = s[scope].argCnt]
ParamSize(s, scope, type) == IF s[scope].kind \in {"FUNCTION", "EVENT"} THEN GetTypeSize(type) ELSE 0
ParamCounted(s, scope, type) == [s EXCEPT ![scope].argCnt = @ + ParamSize(s, scope, type)]

\* A parameter is a variable at the place counted so far.
LEMMA ParamIs ==
  ASSUME NEW s, WellFormed(s), NEW scope \in DOMAIN s, NEW n, NEW type,
         NEW v, v = Param(s, scope, n, type)
  PROVE  /\ Bare(v) /\ v.kind = "VARIABLE" /\ v.name = n /\ v.type = type /\ v.varKind = "PARAM"
         /\ v.offSet = s[scope].argCnt
         /\ v.inMem <=> s[scope].kind \in {"FUNCTION", "EVENT"}
<1> DEFINE b == Variable(n, "PARAM", type)
           own == s[scope].kind \in {"FUNCTION", "EVENT"}
<1>1. s[scope].argCnt \in Nat
  BY WellFormedDomain DEF IsEntry
<1>2. /\ Bare(b) /\ b.kind = "VARIABLE" /\ b.name = n /\ b.type = type /\ b.varKind = "PARAM"
  BY BareVariables
<1>3. DOMAIN b = EntryFields
  BY <1>2 DEF Bare, IsEntry
<1>4. v = [b EXCEPT !.inMem = own, !.offSet = s[scope].argCnt]
  BY DEF Param
<1> HIDE DEF b, own
<1>5. /\ DOMAIN v = EntryFields /\ v.kind = b.kind /\ v.name = b.name /\ v.type = b.type
      /\ v.varKind = b.varKind /\ v.syms = b.syms /\ v.cnt = b.cnt /\ v.whileCnt = b.whileCnt
      /\ v.argCnt = b.argCnt /\ v.cntI = b.cntI /\ v.cntF = b.cntF /\ v.label = b.label
      /\ v.offSet = s[scope].argCnt /\ v.inMem = own
  BY <1>3, <1>4 DEF EntryFields
<1>6. Bare(v)
  BY <1>1, <1>2, <1>5 DEF Bare, IsEntry
<1> QED BY <1>2, <1>5, <1>6 DEF own

\* Its size is added to what its scope has counted.
LEMMA ParamCountedIs ==
  ASSUME NEW s, WellFormed(s), NEW scope \in DOMAIN s, NEW type, NEW t, t = ParamCounted(s, scope, type)
  PROVE  /\ WellFormed(t) /\ Counts(s, t, scope)
         /\ t[scope].argCnt = s[scope].argCnt + ParamSize(s, scope, type)
         /\ t[scope].whileCnt = s[scope].whileCnt /\ t[scope].cnt = s[scope].cnt
         /\ t[scope].cntI = s[scope].cntI /\ t[scope].cntF = s[scope].cntF
<1> DEFINE r == s[scope]
           q == [r EXCEPT !.argCnt = @ + ParamSize(s, scope, type)]
<1>1. IsEntry(r, Len(s)) /\ DOMAIN r = EntryFields /\ r.argCnt \in Nat
  BY WellFormedDomain DEF IsEntry
<1>2. ParamSize(s, scope, type) \in Nat
  BY TypeSize DEF ParamSize
<1>3. t = [s EXCEPT ![scope] = q]
  BY DEF ParamCounted
<1> HIDE DEF r
<1>4. /\ DOMAIN q = EntryFields /\ q.argCnt = r.argCnt + ParamSize(s, scope, type)
      /\ SameButCounts(q, r) /\ q.syms = r.syms /\ q.whileCnt = r.whileCnt /\ q.cnt = r.cnt
      /\ q.cntI = r.cntI /\ q.cntF = r.cntF
  BY <1>1 DEF EntryFields, SameButCounts
<1> HIDE DEF q
<1>5. q.argCnt \in Nat
  BY <1>1, <1>2, <1>4
<1>6. IsEntry(q, Len(s))
  BY <1>1, <1>4, <1>5 DEF IsEntry, SameButCounts
<1>7. WellFormed(t) /\ Counts(s, t, scope) /\ t[scope] = q
  BY <1>3, <1>4, <1>6, OneChanged DEF r
<1> QED BY <1>4, <1>7 DEF r

\* FormalParam, in one piece.
LEMMA FormalParamIs ==
  ASSUME NEW n, NEW type, FormalParam(n, type)
  PROVE  /\ ste' = Insert(ParamCounted(ste, CurrentScope, type), CurrentScope, Param(ste, CurrentScope, n, type))
         /\ \E k \in 0 .. 3 : /\ ErrMsg(k)
                              /\ k = 0 => ~Duplicate(ste, CurrentScope, Param(ste, CurrentScope, n, type))
         /\ UNCHANGED <<stack, parse, wild>> /\ used' = 0
<1> DEFINE dup == Duplicate(ste, CurrentScope, Param(ste, CurrentScope, n, type))
<1>1. \E k \in Skipping : ErrMsg(IF dup THEN k + 1 ELSE k)
  BY DEF FormalParam, Param, CurrentKind
<1>2. Skipping \subseteq 0 .. 2
  BY DEF Skipping
<1> HIDE DEF dup
<1>3. \E k \in 0 .. 3 : ErrMsg(k) /\ (k = 0 => ~dup)
  BY <1>1, <1>2
<1> USE DEF dup
<1> QED BY <1>3 DEF FormalParam, Forget, Param, ParamCounted, ParamSize, CurrentKind

LEMMA FormalParamShape ==
  ASSUME ShapeInv, ended = "no", ~wild, NEW n \in Names, NEW type \in VarTypes, FormalParam(n, type)
  PROVE  ShapeInv'
<1> DEFINE m == ParamCounted(ste, CurrentScope, type)
           v == Param(ste, CurrentScope, n, type)
<1>1. /\ ste' = Insert(m, CurrentScope, v)
      /\ UNCHANGED <<stack, parse, wild>> /\ used' = 0
  BY FormalParamIs
<1>2. PICK k \in 0 .. 3 : ErrMsg(k)
  BY FormalParamIs
<1>3. Shape /\ WellFormed(ste) /\ Ranges /\ CurrentScope \in DOMAIN ste /\ Len(ste) \in Nat /\ k \in Nat
  BY ShapeFacts DEF ShapeInv, Shape
<1>4. WellFormed(m) /\ Counts(ste, m, CurrentScope) /\ Bare(v)
  BY <1>3, ParamCountedIs, ParamIs
<1> HIDE DEF m, v
<1>5. Follows(ste, m) /\ CurrentScope \in DOMAIN m
  BY <1>3, <1>4, CountsFollows, FollowsDomain
<1>6. Follows(ste, ste')
  BY <1>1, <1>3, <1>4, <1>5, InsertFollows, FollowsOn
<1>7. Shape'
  BY <1>1, <1>2, <1>3, <1>6, ErrMsgIs, StillShape
<1>8. used' \in 0 .. Len(ste)
  BY <1>1, <1>3
<1> QED BY <1>1, <1>2, <1>3, <1>6, <1>7, <1>8, Complaining

\* The ends of constructs.
LEMMA EndsShape ==
  ASSUME ShapeInv, ended = "no", ~wild, EndEvent \/ EndPrototype \/ WhileStmt
  PROVE  ShapeInv'
<1>1. /\ Top \in {"event", "function", "loop"} /\ LeaveScope /\ Pop
      /\ ste' = ste /\ UNCHANGED <<errors, ended, wild>> /\ used' = 0
  BY DEF EndEvent, EndPrototype, WhileStmt, Forget
<1>2. Onward /\ Follows(ste, ste') /\ Shape /\ 0 \in 0 .. Len(ste)
  BY <1>1, Untouched
<1>3. Len(parse) > 1
  BY <1>1, <1>2, ShapeFacts DEF Inner, Deeper
<1>4. Shape'
  BY <1>1, <1>2, <1>3, EndShape
<1> QED BY <1>1, <1>2, <1>4, Silent

\* The steps from a part of a construct to the next.
LEMMA ReplacingShape ==
  ASSUME ShapeInv, ended = "no", ~wild, BeginBody \/ WhileBody \/ RuleHdr
  PROVE  ShapeInv'
<1>1. /\ ste' = ste /\ UNCHANGED <<stack, errors, ended, wild>> /\ used' = 0
      /\ \E c : <<Top, c>> \in Becomes /\ Replace(c)
  BY DEF BeginBody, WhileBody, RuleHdr, Forget, Becomes
<1>2. Onward /\ Follows(ste, ste') /\ Shape /\ 0 \in 0 .. Len(ste)
  BY <1>1, Untouched
<1>3. Shape'
  BY <1>1, <1>2, ReplaceShape
<1> QED BY <1>1, <1>2, <1>3, Silent

\* The function that is ended is the innermost scope, unless there were errors.
LEMMA EndFunctionShape ==
  ASSUME ShapeInv, ended = "no", ~wild, EndFunction
  PROVE  ShapeInv'
<1> DEFINE q == [ste[CurrentScope] EXCEPT !.hasBody = TRUE]
<1>1. /\ Top = "body" /\ Pop /\ LeaveScope /\ used' = 0 /\ UNCHANGED <<errors, ended>>
      /\ IF CurrentKind = "FUNCTION" THEN ste' = [ste EXCEPT ![CurrentScope] = q] /\ UNCHANGED wild
         ELSE UNCHANGED ste /\ wild' = TRUE
  BY DEF EndFunction
<1>2. /\ Shape /\ WellFormed(ste) /\ CurrentScope \in DOMAIN ste /\ Onward /\ Len(parse) > 1
      /\ 0 \in 0 .. Len(ste) /\ Ranges
  BY <1>1, ShapeFacts DEF ShapeInv, Shape, Onward, Inner
<1>3. Follows(ste, ste')
  <2>1. CASE CurrentKind = "FUNCTION"
    <3>1. IsEntry(ste[CurrentScope], Len(ste)) /\ DOMAIN ste[CurrentScope] = EntryFields
      BY <1>2, WellFormedDomain DEF IsEntry
    <3>2. SameButCounts(q, ste[CurrentScope]) /\ q.syms = ste[CurrentScope].syms /\ IsEntry(q, Len(ste))
      BY <3>1 DEF SameButCounts, IsEntry, EntryFields
    <3> HIDE DEF q
    <3>3. WellFormed(ste') /\ Counts(ste, ste', CurrentScope)
      BY <1>1, <1>2, <2>1, <3>2, OneChanged
    <3> QED BY <1>2, <3>3, CountsFollows
  <2>2. CASE CurrentKind # "FUNCTION"
    BY <1>1, <1>2, <2>2, FollowsItself
  <2> QED BY <2>1, <2>2
<1>4. Shape'
  BY <1>1, <1>2, <1>3, EndShape
<1>5. errors = 0 => CurrentKind = "FUNCTION"
  BY <1>1, <1>2, CurrentIs, ScopeKinds
<1>6. wild' => errors' > 0
  <2>1. CASE CurrentKind = "FUNCTION"
    <3>1. wild' = wild
      BY <1>1, <2>1
    <3> QED BY <3>1
  <2>2. CASE CurrentKind # "FUNCTION"
    <3>1. errors # 0 /\ errors \in Nat /\ errors' = errors
      BY <1>1, <1>2, <1>5, <2>2, ScopesAssumption DEF Ranges
    <3> QED BY <3>1
  <2> QED BY <2>1, <2>2
<1>7. /\ used' \in 0 .. Len(ste) /\ errors' \in 0 .. MAX_ERROR_BEFORE_QUIT + 1
      /\ ended' \in {"no", "parsed", "exit", "abort"}
      /\ ended' = "no" => errors' <= MAX_ERROR_BEFORE_QUIT
  BY <1>1, <1>2 DEF Ranges
<1> QED BY <1>3, <1>4, <1>6, <1>7, Settled

\* Names in statements and conditions.
LEMMA StatementShape ==
  ASSUME ShapeInv, ended = "no", ~wild,
         BreakStmt \/ RetStmt \/ \E n \in Names : RefExpr(n) \/ FuncInvoc(n)
  PROVE  ShapeInv'
<1>1. /\ ste' = ste /\ UNCHANGED <<stack, errors, ended, wild>>
      /\ AfterStatement \/ UNCHANGED parse
  BY DEF BreakStmt, RetStmt, RefExpr, FuncInvoc
<1>2. /\ Onward /\ Follows(ste, ste') /\ Shape /\ 0 \in 0 .. Len(ste) /\ Len(ste) \in Nat
  BY <1>1, Untouched
<1>3. \A n : LookUp(n) \in 0 .. Len(ste)
  BY <1>2, LookUpIn DEF LookUp, Shape, StackOK
<1>4. CurrentScope \in 0 .. Len(ste)
  <2>1. CurrentScope \in 1 .. Len(ste)
    BY <1>2, ShapeFacts
  <2> QED BY <1>2, <2>1
<1>5. used' \in 0 .. Len(ste)
  <2>1. CASE BreakStmt
    BY <1>2, <1>4, <2>1 DEF BreakStmt
  <2>2. CASE RetStmt
    BY <1>2, <1>4, <2>2 DEF RetStmt
  <2>3. ASSUME NEW n \in Names, RefExpr(n)
        PROVE  used' \in 0 .. Len(ste)
    BY <1>3, <2>3 DEF RefExpr
  <2>4. ASSUME NEW n \in Names, FuncInvoc(n)
        PROVE  used' \in 0 .. Len(ste)
    BY <1>2, <1>3, <2>4 DEF FuncInvoc
  <2> QED BY <2>1, <2>2, <2>3, <2>4
<1>6. Shape'
  BY <1>1, <1>2, AfterShape, StillShape
<1> QED BY <1>1, <1>2, <1>5, <1>6, Silent

\* The scope counts one loop more.
WhileCounted(s, scope) == [s EXCEPT ![scope].whileCnt = @ + 1]

\* A loop is counted in the scope that numbers it.
LEMMA WhileCountedIs ==
  ASSUME NEW s, WellFormed(s), NEW scope \in DOMAIN s, NEW t, t = WhileCounted(s, scope)
  PROVE  /\ WellFormed(t) /\ Counts(s, t, scope)
         /\ t[scope].whileCnt = s[scope].whileCnt + 1 /\ t[scope].cnt = s[scope].cnt
         /\ t[scope].argCnt = s[scope].argCnt
         /\ t[scope].cntI = s[scope].cntI /\ t[scope].cntF = s[scope].cntF
<1> DEFINE r == s[scope]
           q == [r EXCEPT !.whileCnt = @ + 1]
<1>1. IsEntry(r, Len(s)) /\ DOMAIN r = EntryFields /\ r.whileCnt \in Nat
  BY WellFormedDomain DEF IsEntry
<1>2. t = [s EXCEPT ![scope] = q]
  BY DEF WhileCounted
<1> HIDE DEF r
<1>3. /\ DOMAIN q = EntryFields /\ q.whileCnt = r.whileCnt + 1
      /\ SameButCounts(q, r) /\ q.syms = r.syms /\ q.argCnt = r.argCnt /\ q.cnt = r.cnt
      /\ q.cntI = r.cntI /\ q.cntF = r.cntF
  BY <1>1 DEF EntryFields, SameButCounts
<1> HIDE DEF q
<1>4. IsEntry(q, Len(s))
  BY <1>1, <1>3 DEF IsEntry, SameButCounts
<1>5. WellFormed(t) /\ Counts(s, t, scope) /\ t[scope] = q
  BY <1>2, <1>3, <1>4, OneChanged DEF r
<1> QED BY <1>3, <1>5 DEF r

\* A loop that is entered has the label it is given.
LEMMA BareLoops ==
  ASSUME NEW label \in Seq(Nat), NEW w, w = WhileBlock(label)
  PROVE  Bare(w) /\ w.kind = "WHILE_BLOCK" /\ w.name = NoName /\ w.label = label
<1>1. <<>> \in Seq(1 .. 0)
  OBVIOUS
<1> QED BY <1>1 DEF Bare, IsEntry, WhileBlock, Entry, EntryFields

\* A new loop's label is a sequence of numbers.
LEMMA NewLabelIs ==
  ASSUME WellFormed(ste), CurrentScope \in DOMAIN ste
  PROVE  NewLabel \in Seq(Nat)
<1>1. ste[CurrentScope].label \in Seq(Nat) /\ ste[CurrentScope].whileCnt + 1 \in Nat
  BY WellFormedDomain DEF IsEntry
<1>2. <<>> \in Seq(Nat)
  OBVIOUS
<1> QED BY <1>1, <1>2 DEF NewLabel

\* The tables after while_hdr.
LEMMA WhileTables ==
  ASSUME WellFormed(ste), CurrentScope \in DOMAIN ste, NEW t,
         t = Insert(WhileCounted(ste, CurrentScope), CurrentScope, WhileBlock(NewLabel))
  PROVE  /\ Follows(ste, t) /\ Len(ste) \in Nat /\ Len(t) = Len(ste) + 1
         /\ Len(ste) + 1 \in DOMAIN t /\ t[Len(ste) + 1] = WhileBlock(NewLabel)
<1> DEFINE m == WhileCounted(ste, CurrentScope)
           w == WhileBlock(NewLabel)
<1>1. WellFormed(m) /\ Counts(ste, m, CurrentScope) /\ Bare(w)
  BY WhileCountedIs, BareLoops, NewLabelIs
<1>2. t = Insert(m, CurrentScope, w)
  OBVIOUS
<1> HIDE DEF m, w
<1>3. Follows(ste, m) /\ CurrentScope \in DOMAIN m
  BY <1>1, CountsFollows, FollowsDomain
<1>4. WellFormed(t) /\ Adds(m, t, CurrentScope, w, ~Duplicate(m, CurrentScope, w))
  BY <1>1, <1>2, <1>3, Inserted
<1>5. Follows(ste, t)
  BY <1>1, <1>3, <1>4, AddsFollows, FollowsOn
<1>6. Len(ste) \in Nat /\ Len(t) = Len(ste) + 1 /\ t[Len(ste) + 1] = w
  BY <1>1, <1>4, WellFormedDomain DEF Counts, Adds
<1>7. DOMAIN t = 1 .. Len(t)
  BY <1>4, WellFormedDomain
<1> QED BY <1>5, <1>6, <1>7 DEF w

LEMMA WhileHdrShape ==
  ASSUME ShapeInv, ended = "no", ~wild, WhileHdr
  PROVE  ShapeInv'
<1>1. /\ ste' = Insert(WhileCounted(ste, CurrentScope), CurrentScope, WhileBlock(NewLabel))
      /\ Top \in Statements /\ used' = 0 /\ UNCHANGED wild
      /\ IF TooDeep THEN errors' = errors + 1 /\ ended' = "exit" /\ UNCHANGED stack
         ELSE stack' = Append(stack, Len(ste) + 1) /\ UNCHANGED <<errors, ended>>
      /\ parse' = IF Top = "vars" THEN Front(parse) \o <<"body", "cond">> ELSE Append(parse, "cond")
  BY DEF WhileHdr, WhileCounted, EnterScope, Forget
<1>2. /\ Shape /\ WellFormed(ste) /\ CurrentScope \in DOMAIN ste /\ Ranges
      /\ 0 \in 0 .. Len(ste) /\ 1 < Len(parse) /\ Len(parse) \in Nat
  BY <1>1, ShapeFacts DEF ShapeInv, Shape, Statements
<1>3. /\ Follows(ste, ste') /\ Len(ste) + 1 \in DOMAIN ste'
      /\ ste'[Len(ste) + 1].kind = "WHILE_BLOCK"
  BY <1>1, <1>2, WhileTables, BareLoops, NewLabelIs
<1>4. Begins("cond")
  <2>1. "cond" \in Deeper /\ "body" \in Inner
    BY DEF Deeper, Inner
  <2>2. CASE Top # "vars"
    BY <1>1, <1>2, <2>1, <2>2, PushBegins DEF Push
  <2>3. CASE Top = "vars"
    <3> DEFINE C == {"decls", "rules"} \cup Inner \cup Deeper
               n == Len(parse)
    <3>1. parse \in Seq(C) /\ parse # <<>>
      BY <1>2 DEF Shape, ParseOK
    <3>2. parse[n] = "vars"
      BY <1>2, <2>3, ShapeFacts
    <3>3. "body" \in C /\ "cond" \in C
      BY <2>1
    <3> HIDE DEF C
    <3>4. /\ Front(parse) \in Seq(C) /\ Len(Front(parse)) = n - 1
          /\ \A k \in 1 .. n - 1 : Front(parse)[k] = parse[k]
      BY <3>1, FrontAndLast
    <3> DEFINE tail == <<"body", "cond">>
    <3>5. tail \in Seq(C) /\ Len(tail) = 2 /\ tail[1] = "body" /\ tail[2] = "cond"
      BY <3>3
    <3>6. parse' = Front(parse) \o tail
      BY <1>1, <2>3
    <3> HIDE DEF tail, n
    <3>7. n \in Nat /\ 1 < n
      BY <1>2 DEF n
    <3> DEFINE front == Front(parse)
    <3> HIDE DEF front
    <3>13. front \in Seq(C) /\ Len(front) = n - 1 /\ parse' = front \o tail
      BY <3>4, <3>6 DEF front
    <3>14. /\ front \o tail \in Seq(C) /\ Len(front \o tail) = Len(front) + Len(tail)
           /\ \A k \in 1 .. Len(front) + Len(tail) :
                (front \o tail)[k] = IF k <= Len(front) THEN front[k] ELSE tail[k - Len(front)]
      BY <3>5, <3>13, ConcatProperties
    <3>8. parse' \in Seq(C) /\ Len(parse') = n - 1 + 2
      BY <3>5, <3>13, <3>14
    <3>15. n - 1 + 2 = n + 1
      BY <3>7
    <3>9. \A k \in 1 .. n + 1 : parse'[k] = IF k <= n - 1 THEN Front(parse)[k] ELSE tail[k - (n - 1)]
      BY <3>5, <3>13, <3>14, <3>15 DEF front
    <3>10. parse'[n] = "body" /\ parse'[n + 1] = "cond"
      <4>1. n \in 1 .. n + 1 /\ n + 1 \in 1 .. n + 1 /\ n - (n - 1) = 1 /\ n + 1 - (n - 1) = 2
            /\ ~(n <= n - 1) /\ ~(n + 1 <= n - 1)
        BY <3>7
      <4> QED BY <3>5, <3>9, <4>1
    <3>11. ASSUME NEW k \in 1 .. n
           PROVE  parse'[k] = parse[k] \/ (parse[k] = "vars" /\ parse'[k] = "body")
      <4>1. CASE k = n
        BY <3>2, <3>10, <4>1
      <4>2. CASE k # n
        <5>1. k \in 1 .. n - 1 /\ k \in 1 .. n + 1 /\ k <= n - 1
          BY <3>7, <4>2
        <5> QED BY <3>4, <3>9, <5>1
      <4> QED BY <4>1, <4>2
    <3>12. Len(parse') = n + 1
      BY <3>7, <3>8
    <3> QED BY <2>1, <3>7, <3>8, <3>10, <3>11, <3>12 DEF Begins, C, n
  <2> QED BY <2>2, <2>3
<1>5. used' \in 0 .. Len(ste)
  BY <1>1, <1>2
<1>6. CASE TooDeep
  <2>1. /\ ended' = "exit" /\ UNCHANGED stack
        /\ errors' \in 0 .. MAX_ERROR_BEFORE_QUIT + 1 /\ errors' > 0
    BY <1>1, <1>2, <1>6, ScopesAssumption DEF Ranges
  <2>2. Shape'
    BY <1>2, <1>3, <1>4, <2>1, BeginsParse, StackSame, UnmatchedShape
  <2> QED BY <1>1, <1>3, <1>5, <2>1, <2>2, Settled
<1>7. CASE ~TooDeep
  <2>1. stack' = Append(stack, Len(ste) + 1) /\ UNCHANGED <<errors, ended>>
    BY <1>1, <1>7
  <2>2. Onward
    BY <2>1 DEF Onward
  <2>3. "WHILE_BLOCK" \in Blocks
    BY DEF Blocks
  <2>4. Shape'
    BY <1>2, <1>3, <1>4, <2>1, <2>2, <2>3, BeginShape, ScopeKinds
  <2> QED BY <1>1, <1>3, <1>5, <2>1, <2>4, Silent
<1> QED BY <1>6, <1>7

\* normal_event binds no more names than there are parameters.
LEMMA GivenIs ==
  ASSUME NEW e, NEW names \in Seq(Names), ste[e].syms \in Seq(Nat)
  PROVE  /\ Given(e, names) \in Seq(Names) /\ Len(Given(e, names)) <= Len(ste[e].syms)
         /\ Len(Given(e, names)) <= Len(names)
<1> DEFINE a == Len(names)
           b == Len(ste[e].syms)
           k == CHOOSE j \in {a, b} : j <= a /\ j <= b
<1>1. a \in Nat /\ b \in Nat
  OBVIOUS
<1>2. k \in {a, b} /\ k <= a /\ k <= b
  <2> HIDE DEF a, b
  <2>1. \E j \in {a, b} : j <= a /\ j <= b
    BY <1>1
  <2> QED BY <2>1
<1>3. Given(e, names) = SubSeq(names, 1, k)
  BY DEF Given
<1> HIDE DEF k
<1>4. k \in Nat /\ k <= Len(names) /\ k <= Len(ste[e].syms)
  BY <1>1, <1>2
<1>5. SubSeq(names, 1, k) \in Seq(Names) /\ Len(SubSeq(names, 1, k)) = k
  BY <1>4
<1> QED BY <1>3, <1>4, <1>5

\* A rule gets a table if it does not have one.
LEMMA RuleTableIs ==
  ASSUME WellFormed(ste), CurrentScope \in DOMAIN ste
  PROVE  /\ Follows(ste, RuleTable) /\ RuleScope \in DOMAIN RuleTable
         /\ RuleTable[RuleScope].kind = "RULE_BLOCK" /\ Len(ste) \in Nat
         /\ InRule => RuleTable = ste /\ RuleScope = CurrentScope
         /\ ~InRule => /\ RuleTable = Append(ste, Entry("RULE_BLOCK", NoName))
                       /\ RuleScope = Len(ste) + 1
<1>1. Len(ste) \in Nat
  BY WellFormedDomain
<1>2. CASE InRule
  BY <1>1, <1>2, FollowsItself DEF RuleTable, RuleScope, InRule, CurrentKind
<1>3. CASE ~InRule
  <2> DEFINE t == Append(ste, Entry("RULE_BLOCK", NoName))
             x == Entry("RULE_BLOCK", NoName)
  <2>1. Bare(x) /\ x.kind = "RULE_BLOCK"
    BY BareEntries
  <2> HIDE DEF x
  <2>2. /\ Follows(ste, Append(ste, x)) /\ Len(Append(ste, x)) = Len(ste) + 1
        /\ Append(ste, x)[Len(ste) + 1] = x
    BY <2>1, AppendFollows
  <2>3. t = Append(ste, x)
    BY DEF x
  <2> HIDE DEF t
  <2>4. Follows(ste, t) /\ Len(t) = Len(ste) + 1 /\ t[Len(ste) + 1].kind = "RULE_BLOCK"
    BY <2>1, <2>2, <2>3
  <2>5. Len(ste) + 1 \in DOMAIN t
    BY <1>1, <2>4, WellFormedDomain DEF Follows
  <2>6. RuleTable = t /\ RuleScope = Len(ste) + 1
    BY <1>3 DEF RuleTable, RuleScope, t
  <2> QED BY <1>1, <1>3, <2>4, <2>5, <2>6 DEF t
<1> QED BY <1>2, <1>3

\* The pattern of a rule, the first of which enters its scope.
LEMMA EnterRuleShape ==
  ASSUME Shape, Onward, PatternPlace, EnterRule, Follows(RuleTable, ste')
  PROVE  Shape'
<1>1. /\ WellFormed(ste) /\ CurrentScope \in DOMAIN ste /\ Top \in {"decls", "rules", "pattern"}
      /\ Len(stack) \in Nat /\ Len(parse) \in Nat /\ DOMAIN stack = 1 .. Len(stack)
      /\ Top # "pattern" <=> Len(parse) = 1
  BY ShapeFacts DEF Shape, Onward, PatternPlace, Inner
<1>2. /\ Follows(ste, RuleTable) /\ RuleScope \in DOMAIN RuleTable /\ RuleTable[RuleScope].kind = "RULE_BLOCK"
      /\ InRule => RuleScope = CurrentScope
  BY <1>1, RuleTableIs
<1>3. Follows(ste, ste') /\ RuleScope \in DOMAIN ste' /\ ste'[RuleScope].kind = "RULE_BLOCK"
  <2>1. WellFormed(RuleTable)
    BY <1>2 DEF Follows
  <2>2. DOMAIN RuleTable \subseteq DOMAIN ste'
    BY <2>1, FollowsDomain
  <2>3. ste'[RuleScope].kind = RuleTable[RuleScope].kind
    BY <1>2 DEF Follows
  <2> QED BY <1>1, <1>2, <2>2, <2>3, FollowsOn
<1>4. /\ stack' = IF InRule THEN stack ELSE Append(stack, RuleScope)
      /\ parse' = IF Top = "pattern" THEN parse ELSE <<"rules", "pattern">>
  BY DEF EnterRule
<1>5. StackOK'
  <2>1. CASE InRule
    BY <1>3, <1>4, <2>1, StackSame
  <2>2. CASE ~InRule
    BY <1>3, <1>4, <2>2, StackGrows DEF Blocks
  <2> QED BY <2>1, <2>2
<1>6. Top # "pattern" => /\ Len(parse') = 2 /\ DOMAIN parse' = {1, 2} /\ parse' # <<>>
                         /\ parse'[1] = "rules" /\ parse'[2] = "pattern"
                         /\ parse' \in Seq({"decls", "rules"} \cup Inner \cup Deeper)
  BY <1>4 DEF Inner
<1>7. ParseOK'
  <2>1. CASE Top = "pattern"
    BY <1>4, <2>1 DEF Shape, ParseOK, Onward
  <2>2. CASE Top # "pattern"
    BY <1>6, <2>2 DEF ParseOK, Inner
  <2> QED BY <2>1, <2>2
<1>8. CASE errors' # 0 \/ ended' # "no"
  BY <1>3, <1>5, <1>7, <1>8, UnmatchedShape
<1>9. CASE errors' = 0 /\ ended' = "no"
  <2>1. errors = 0 /\ ended = "no"
    BY <1>9 DEF Onward
  <2>2. /\ Len(stack) = Len(parse)
        /\ Len(parse) > 1 => CurrentKind = ScopeKind[Top]
        /\ Len(parse) = 1 => CurrentKind = "GLOBAL"
    BY <2>1, CurrentIs
  <2>3. CASE Top = "pattern"
    <3>1. Len(parse) > 1
      BY <2>1, <2>3, ShapeFacts DEF Inner
    <3>2. InRule
      BY <2>2, <2>3, <3>1, ScopeKinds DEF InRule
    <3> QED BY <1>3, <1>4, <2>3, <3>2, StillShape
  <2>4. CASE Top # "pattern"
    <3>1. ~InRule /\ Len(stack) = 1
      BY <1>1, <2>2, <2>4 DEF InRule
    <3>2. /\ Len(stack') = Len(stack) + 1 /\ stack'[Len(stack) + 1] = RuleScope
          /\ \A i \in DOMAIN stack : stack'[i] = stack[i]
      BY <1>3, <1>4, <3>1, StackGrows DEF Blocks
    <3>3. Len(stack') = 2 /\ stack'[2] = RuleScope
      BY <3>1, <3>2
    <3>4. Matched'
      BY <1>3, <1>6, <2>4, <3>3, ScopeKinds DEF Matched
    <3> QED BY <1>3, <1>5, <1>7, <3>4 DEF Shape, Follows
  <2> QED BY <2>3, <2>4
<1> QED BY <1>8, <1>9

LEMMA PatternShape ==
  ASSUME ShapeInv, ended = "no", ~wild,
         AnyEvent \/ \E n \in Names, names \in PatternArgs : NormalEvent(n, names)
  PROVE  ShapeInv'
<1>1. /\ Shape /\ WellFormed(ste) /\ CurrentScope \in DOMAIN ste /\ Ranges
      /\ DOMAIN ste = 1 .. Len(ste) /\ Len(ste) \in Nat /\ stack \in Seq(DOMAIN ste)
      /\ \A e \in DOMAIN ste : ste[e].syms \in Seq(1 .. Len(ste))
  BY ShapeFacts, WellFormedDomain DEF ShapeInv, Shape, StackOK, IsEntry
<1>2. Follows(ste, RuleTable) /\ RuleScope \in DOMAIN RuleTable
  BY <1>1, RuleTableIs
<1>3. WellFormed(RuleTable)
  BY <1>2 DEF Follows
<1>4. CASE AnyEvent
  <2>1. PatternPlace /\ EnterRule /\ ste' = RuleTable /\ UNCHANGED <<errors, ended, wild>> /\ used' = 0
    BY <1>4 DEF AnyEvent, Forget
  <2>2. Onward
    BY <2>1 DEF Onward
  <2>3. Follows(RuleTable, ste')
    BY <1>3, <2>1, FollowsItself
  <2>4. Shape'
    BY <1>1, <2>1, <2>2, <2>3, EnterRuleShape
  <2>5. used' \in 0 .. Len(ste)
    BY <1>1, <2>1
  <2> QED BY <1>2, <2>1, <2>4, <2>5, Silent
<1>5. ASSUME NEW n \in Names, NEW names \in PatternArgs, NormalEvent(n, names)
      PROVE  ShapeInv'
  <2> DEFINE e == LookUp(n)
             known == e # 0 /\ ste[e].kind = "EVENT"
             given == IF known THEN Given(e, names) ELSE <<>>
             list == [i \in DOMAIN given |-> [name |-> given[i]]]
  <2>1. /\ PatternPlace /\ EnterRule /\ ste' = Bound(RuleTable, RuleScope, e, given)
        /\ ErrMsg(Repeated(RuleTable, RuleScope, list))
        /\ used' = (IF known THEN e ELSE 0) /\ UNCHANGED wild
    BY <1>5 DEF NormalEvent
  <2>2. e \in 0 .. Len(ste)
    BY <1>1, LookUpIn DEF LookUp
  <2> HIDE DEF e
  <2>3. used' \in 0 .. Len(ste)
    BY <1>1, <2>1, <2>2
  <2>4. given \in Seq(Names)
    <3>1. names \in Seq(Names)
      BY ScopesAssumption
    <3>2. known => ste[e].syms \in Seq(Nat)
      <4>1. known => e \in DOMAIN ste
        BY <1>1, <2>2
      <4>2. 1 .. Len(ste) \subseteq Nat
        BY <1>1
      <4> QED BY <1>1, <4>1, <4>2
    <3>3. known => Given(e, names) \in Seq(Names)
      BY <3>1, <3>2, GivenIs
    <3>4. <<>> \in Seq(Names)
      OBVIOUS
    <3> QED BY <3>3, <3>4
  <2> HIDE DEF given, known
  <2>5. given \in Seq(ToSet(given)) /\ DOMAIN given = 1 .. Len(given) /\ Len(given) \in Nat
    BY <2>4, OwnElements
  <2>6. list \in Seq(ToSet(list))
    <3>1. list \in [1 .. Len(given) -> ToSet(list)]
      BY <2>5 DEF ToSet
    <3> HIDE DEF list
    <3> QED BY <2>5, <3>1, FunctionIsSeq
  <2>7. Repeated(RuleTable, RuleScope, list) \in Nat
    <3> HIDE DEF list
    <3> QED BY <2>6, RepeatedIs
  <2> HIDE DEF list
  <2>8. Follows(RuleTable, ste')
    BY <1>2, <1>3, <2>1, <2>5, BoundFollows
  <2>9. Onward
    BY <1>1, <1>5, <2>1, <2>7, ErrMsgIs
  <2>10. Shape'
    BY <1>1, <2>1, <2>8, <2>9, EnterRuleShape
  <2>11. Follows(ste, ste')
    BY <1>1, <1>2, <2>8, FollowsOn
  <2> QED BY <2>1, <2>3, <2>7, <2>10, <2>11, Complaining
<1> QED BY <1>4, <1>5

LEMMA EndRuleShape ==
  ASSUME ShapeInv, ended = "no", ~wild, EndRule
  PROVE  ShapeInv'
<1>1. /\ Top = "reaction" /\ LeaveScope /\ Pop /\ wild' = (ste[Last(Popped(stack))].kind # "GLOBAL")
      /\ ste' = ste /\ UNCHANGED <<errors, ended>> /\ used' = 0
  BY DEF EndRule
<1>2. Onward /\ Follows(ste, ste') /\ Shape /\ Ranges /\ 0 \in 0 .. Len(ste)
  BY <1>1, Untouched DEF ShapeInv
<1>3. Len(parse) = 2
  BY <1>1, <1>2, ShapeFacts DEF Inner
<1>4. Shape'
  BY <1>1, <1>2, <1>3, EndShape
<1>5. errors = 0 => ste[Last(Popped(stack))].kind = "GLOBAL"
  <2> SUFFICES ASSUME errors = 0
               PROVE  ste[Last(Popped(stack))].kind = "GLOBAL"
    OBVIOUS
  <2>1. Len(stack) = 2
    BY <1>2, <1>3, CurrentIs
  <2>2. stack \in Seq(DOMAIN ste) /\ stack # <<>> /\ stack[1] = 1 /\ ste[1].kind = "GLOBAL"
    BY <1>2 DEF Shape, StackOK
  <2>3. /\ Front(stack) \in Seq(DOMAIN ste) /\ Len(Front(stack)) = 1 /\ Front(stack)[1] = 1
    <3>1. /\ Front(stack) \in Seq(DOMAIN ste) /\ Len(Front(stack)) = Len(stack) - 1
          /\ \A k \in 1 .. Len(stack) - 1 : Front(stack)[k] = stack[k]
      BY <2>2, FrontAndLast
    <3> QED BY <2>1, <2>2, <3>1
  <2>4. Popped(stack) = Front(stack)
    BY <2>1 DEF Popped
  <2>5. Last(Front(stack)) = 1
    <3> DEFINE f == Front(stack)
    <3> HIDE DEF f
    <3>1. f \in Seq(DOMAIN ste) /\ Len(f) = 1 /\ f[1] = 1
      BY <2>3 DEF f
    <3>2. f # <<>>
      <4>1. DOMAIN f = 1 .. 1
        BY <3>1
      <4> QED BY <4>1
    <3>3. Last(f) = f[Len(f)]
      BY <3>1, <3>2, FrontAndLast
    <3> QED BY <3>1, <3>3 DEF f
  <2> QED BY <2>2, <2>4, <2>5
<1>6. wild' => errors' > 0
  <2>1. wild' => errors # 0
    BY <1>1, <1>5
  <2>2. errors \in Nat /\ errors' = errors
    BY <1>1, <1>2, ScopesAssumption DEF Ranges
  <2> QED BY <2>1, <2>2
<1>7. /\ errors' \in 0 .. MAX_ERROR_BEFORE_QUIT + 1 /\ ended' \in {"no", "parsed", "exit", "abort"}
      /\ ended' = "no" => errors' <= MAX_ERROR_BEFORE_QUIT
  BY <1>1, <1>2 DEF Ranges
<1> QED BY <1>1, <1>2, <1>4, <1>6, <1>7, Settled

\* At the end what is left of the scopes is left.
LEMMA FinishShape ==
  ASSUME ShapeInv, ended = "no", ~wild, EndOfFile \/ Finish
  PROVE  ShapeInv'
<1>1. /\ ste' = ste /\ UNCHANGED wild /\ used' = 0 /\ parse' = <<>> /\ ended' \in {"exit", "parsed"}
      /\ errors' = errors \/ errors' = errors + 1
      /\ stack' = stack \/ stack' = SubSeq(stack, 1, 1)
  BY DEF EndOfFile, Finish, LeaveToGlobal, Forget
<1>2. Shape /\ Ranges /\ WellFormed(ste) /\ Len(ste) \in Nat
  BY ShapeFacts DEF ShapeInv, Shape
<1>3. Follows(ste, ste')
  BY <1>1, <1>2, FollowsItself
<1>4. ParseOK'
  <2>1. <<>> \in Seq({"decls", "rules"} \cup Inner \cup Deeper) /\ DOMAIN <<>> = {}
    OBVIOUS
  <2> QED BY <1>1, <2>1 DEF ParseOK
<1>5. StackOK'
  <2>1. CASE stack' = stack
    BY <1>2, <1>3, <2>1, StackSame
  <2>2. CASE stack' = SubSeq(stack, 1, 1)
    <3> DEFINE st == SubSeq(stack, 1, 1)
    <3>1. stack \in Seq(DOMAIN ste) /\ Len(stack) \in Nat /\ 1 <= Len(stack)
      BY <1>2, ShapeFacts DEF Shape, StackOK
    <3>2. /\ st \in Seq(DOMAIN ste) /\ Len(st) = 1 /\ st # <<>> /\ DOMAIN st = {1}
          /\ st[1] = stack[1]
      BY <3>1
    <3>3. stack' = st
      BY <2>2
    <3> HIDE DEF st
    <3> QED BY <1>2, <1>3, <3>1, <3>2, <3>3, StackStays
  <2> QED BY <1>1, <2>1, <2>2
<1>6. Shape'
  BY <1>1, <1>2, <1>3, <1>4, <1>5, UnmatchedShape
<1>7. /\ used' \in 0 .. Len(ste) /\ errors' \in 0 .. MAX_ERROR_BEFORE_QUIT + 1
      /\ ended' \in {"no", "parsed", "exit", "abort"} /\ ended' # "no"
  BY <1>1, <1>2, ScopesAssumption DEF Ranges
<1> QED BY <1>1, <1>3, <1>6, <1>7, Settled

\* Syntax errors leave the tables and the scopes as they are.
LEMMA ErrorsShape ==
  ASSUME ShapeInv, ended = "no", ~wild,
         \/ DeclarationError \/ EventNameError \/ StatementError \/ ConditionError
         \/ HeaderError \/ RuleError \/ NullName \/ NullDeclarator
  PROVE  ShapeInv'
<1>1. ste' = ste /\ UNCHANGED <<stack, wild>> /\ used' = 0
  BY DEF DeclarationError, EventNameError, StatementError, ConditionError, HeaderError, RuleError,
         NullName, NullDeclarator, Aborted, Forget
<1>2. Shape /\ Ranges /\ WellFormed(ste) /\ Len(ste) \in Nat /\ used' \in 0 .. Len(ste)
  BY <1>1, ShapeFacts DEF ShapeInv, Shape
<1>3. Follows(ste, ste')
  BY <1>1, <1>2, FollowsItself
<1>4. StackOK'
  BY <1>1, <1>2, <1>3, StackSame
<1>5. CASE Recovered /\ ParseOK'
  <2>1. PICK n \in 1 .. 2 : ErrMsg(n)
    BY <1>5 DEF Recovered
  <2>2. n \in Nat /\ n # 0
    OBVIOUS
  <2>3. errors' > 0 /\ errors' \in 0 .. MAX_ERROR_BEFORE_QUIT + 1
    BY <1>2, <2>1, <2>2, ErrMsgIs
  <2>4. errors' # 0
    BY <2>3
  <2>5. Shape'
    BY <1>2, <1>3, <1>4, <1>5, <2>4, UnmatchedShape
  <2> QED BY <1>1, <1>2, <1>3, <2>1, <2>2, <2>5, Complaining
<1>6. Len(parse) \in Nat
  BY <1>2, ShapeFacts
<1>7. CASE DeclarationError
  <2>1. Recovered /\ parse' = parse
    BY <1>7 DEF DeclarationError
  <2>2. ParseOK'
    BY <1>2, <2>1 DEF Shape, ParseOK
  <2> QED BY <1>5, <2>1, <2>2
<1>8. CASE EventNameError
  <2>1. Recovered /\ Top = "decls" /\ Push("event")
    BY <1>8 DEF EventNameError
  <2>2. Len(parse) = 1 /\ "event" \in Inner
    BY <1>2, <2>1, ShapeFacts DEF Inner
  <2>3. ParseOK'
    BY <1>2, <2>1, <2>2, PushBegins, BeginsParse
  <2> QED BY <1>5, <2>1, <2>3
<1>9. CASE StatementError
  <2>1. Recovered /\ AfterStatement
    BY <1>9 DEF StatementError
  <2>2. PICK n \in 1 .. 2 : ErrMsg(n)
    BY <2>1 DEF Recovered
  <2>3. n \in Nat
    OBVIOUS
  <2>4. Onward
    BY <1>2, <2>2, <2>3, ErrMsgIs
  <2>5. Shape'
    BY <1>1, <1>2, <1>3, <2>1, <2>4, AfterShape
  <2> QED BY <1>5, <2>1, <2>5 DEF Shape
<1>10. CASE ConditionError \/ HeaderError
  <2>1. Recovered /\ Top \in {"cond", "event", "function"} /\ Pop
    BY <1>10 DEF ConditionError, HeaderError
  <2>2. Len(parse) > 1
    BY <1>2, <1>6, <2>1, ShapeFacts DEF Inner, Deeper
  <2>3. ParseOK'
    BY <1>2, <2>1, <2>2, PopParse
  <2> QED BY <1>5, <2>1, <2>3
<1>11. CASE RuleError
  <2>1. Recovered /\ parse' = <<"decls">>
    BY <1>11 DEF RuleError
  <2>2. /\ parse' \in Seq({"decls", "rules"} \cup Inner \cup Deeper) /\ DOMAIN parse' = {1}
        /\ parse'[1] = "decls" /\ parse' # <<>>
    BY <2>1
  <2>3. ParseOK'
    BY <2>2 DEF ParseOK
  <2> QED BY <1>5, <2>1, <2>3
<1>12. CASE NullName \/ NullDeclarator
  <2>1. PICK n \in 1 .. 2 : errors' = Counting(n) /\ ended' \in {"exit", "abort"} /\ parse' = parse
    BY <1>12 DEF NullName, NullDeclarator, Aborted
  <2>2. ParseOK'
    BY <1>2, <2>1 DEF Shape, ParseOK
  <2>3. Shape'
    BY <1>2, <1>3, <1>4, <2>1, <2>2, UnmatchedShape
  <2>4. errors' \in 0 .. MAX_ERROR_BEFORE_QUIT + 1
    BY <1>2, <2>1, ScopesAssumption DEF Ranges, Counting
  <2> QED BY <1>1, <1>2, <1>3, <2>1, <2>3, <2>4, Settled
<1> QED BY <1>7, <1>8, <1>9, <1>10, <1>11, <1>12

\* Every step keeps the shape.
LEMMA NextShape ==
  ASSUME ShapeInv, [Next]_vars
  PROVE  ShapeInv'
<1>1. CASE UNCHANGED vars
  BY <1>1 DEF vars, ShapeInv, Shape, ParseOK, StackOK, Matched, Ranges, CastsRight
<1>2. CASE Next
  <2>1. ended = "no" /\ ~wild
    BY <1>2 DEF Next
  <2>2. CASE Declarations
    BY <2>1, <2>2, VarDecShape, ClassDecShape, HeadersShape, FormalParamShape, EndsShape,
       ReplacingShape, EndFunctionShape DEF Declarations
  <2>3. CASE StatementActions
    BY <2>1, <2>3, StatementShape, WhileHdrShape, ReplacingShape, EndsShape DEF StatementActions
  <2>4. CASE Rules
    BY <2>1, <2>4, PatternShape, ReplacingShape, EndRuleShape, FinishShape DEF Rules
  <2>5. CASE Errors
    BY <2>1, <2>5, ErrorsShape, FinishShape DEF Errors
  <2> QED BY <1>2, <2>2, <2>3, <2>4, <2>5 DEF Next
<1> QED BY <1>1, <1>2

\* The stack of scopes always starts with the global one, and as long as no
\* error was counted it is that of the constructs.
THEOREM ScopeInvariance == Spec => []ShapeInv
<1>1. Init => ShapeInv
  BY InitShape
<1>2. ShapeInv /\ [Next]_vars => ShapeInv'
  BY NextShape
<1> QED BY <1>1, <1>2, PTL DEF Spec

\* The initial value looked up last is one there is.
LEMMA InitialIs ==
  ASSUME NEW list \in VarLists, Initialised(list) # {}
  PROVE  list[Max(Initialised(list))].init \in Names
<1> DEFINE I == Initialised(list)
<1>1. /\ list \in Seq(ToSet(list))
      /\ \A d \in ToSet(list) : d.name # NoName /\ d.init \in Names \cup {NoName}
  BY ScopesAssumption
<1>2. DOMAIN list = 1 .. Len(list) /\ Len(list) \in Nat
  BY <1>1, OwnElements
<1>3. I \subseteq 1 .. Len(list) /\ I # {}
  BY <1>2 DEF Initialised
<1> HIDE DEF I
<1>4. Max(I) \in I
  BY <1>2, <1>3, MaxIn
<1>5. list[Max(I)].init # NoName /\ list[Max(I)] \in ToSet(list)
  BY <1>2, <1>3, <1>4 DEF I, Initialised, ToSet
<1> QED BY <1>1, <1>5 DEF I

\* What is asked of the tables.
Asked == asked \in Asking

LEMMA AskedIs ==
  ASSUME Next
  PROVE  asked' \in Asking
<1>1. /\ NoQuestion \in Asking
      /\ \A as \in {"nothing", "any", "FUNCTION", "EVENT", "WHILE_BLOCK"}, n \in Names \cup {NoName} :
           Question(as, n) \in Asking
  BY DEF NoQuestion, Question, Asking
<1>2. Forget => asked' \in Asking
  BY <1>1 DEF Forget
<1>3. ASSUME NEW list \in VarLists, NEW type \in VarTypes, VarDec(list, type)
      PROVE  asked' \in Asking
  <2>1. asked' = IF Initialised(list) = {} THEN NoQuestion
                 ELSE Question("any", list[Max(Initialised(list))].init)
    BY <1>3 DEF VarDec
  <2> QED BY <1>1, <2>1, InitialIs
<1>4. ASSUME NEW n \in Names, ClassDec(n) \/ EventDeclHdr(n) \/ FuncDeclHdr(n)
      PROVE  asked' \in Asking
  BY <1>2, <1>4 DEF ClassDec, EventDeclHdr, FuncDeclHdr
<1>5. ASSUME NEW n \in Names, NEW type \in VarTypes, FormalParam(n, type)
      PROVE  asked' \in Asking
  BY <1>2, <1>5 DEF FormalParam
<1>6. CASE EndEvent \/ EndPrototype \/ BeginBody \/ EndFunction \/ EndRule
  BY <1>1, <1>2, <1>6 DEF EndEvent, EndPrototype, BeginBody, EndFunction, EndRule
<1>7. CASE Declarations
  BY <1>3, <1>4, <1>5, <1>6, <1>7 DEF Declarations
<1>8. CASE StatementActions
  BY <1>1, <1>2, <1>8 DEF StatementActions, RefExpr, FuncInvoc, BreakStmt, RetStmt, WhileHdr, WhileBody, WhileStmt
<1>9. ASSUME NEW n \in Names, NEW names \in PatternArgs, NormalEvent(n, names)
      PROVE  asked' \in Asking
  BY <1>1, <1>9 DEF NormalEvent
<1>10. CASE Rules
  BY <1>2, <1>6, <1>9, <1>10 DEF Rules, AnyEvent, RuleHdr, Finish
<1>11. CASE Errors
  BY <1>2, <1>11 DEF Errors, DeclarationError, EventNameError, StatementError, ConditionError, HeaderError,
     RuleError, NullName, NullDeclarator, Aborted, EndOfFile
<1> QED BY <1>7, <1>8, <1>10, <1>11 DEF Next

\* The stack and the tables name entries, whatever the program and its errors;
\* an error too many ends the process (SymTabMgr, Error.C).
THEOREM Tables == Spec => []TypeOK
<1>1. Init => Asked
  BY DEF Init, NoQuestion, Question, Asking, Asked
<1>2. Asked /\ [Next]_vars => Asked'
  BY AskedIs DEF vars, Asked
<1>3. ShapeInv /\ Asked => TypeOK
  BY DEF ShapeInv, Ranges, TypeOK, Asked
<1> QED BY <1>1, <1>2, <1>3, ScopeInvariance, PTL DEF Spec

\* The global scope is never left, however many scopes the errors made the
\* actions leave.
THEOREM NeverLeft == Spec => []GlobalStays
<1>1. ShapeInv => GlobalStays
  BY DEF ShapeInv, Shape, StackOK, GlobalStays
<1> QED BY <1>1, ScopeInvariance, PTL

\* Without errors the scopes are those of the constructs being parsed.
THEOREM ScopesMatch == Spec => []Balanced
<1>1. ShapeInv => Balanced
  <2> SUFFICES ASSUME ShapeInv, errors = 0, ended = "no"
               PROVE  [i \in DOMAIN stack |-> ste[stack[i]].kind] =
                      [i \in DOMAIN parse |-> IF i = 1 THEN "GLOBAL" ELSE ScopeKind[parse[i]]]
    BY DEF Balanced
  <2>1. /\ Len(stack) = Len(parse)
        /\ \A i \in DOMAIN parse : i # 1 => ste[stack[i]].kind = ScopeKind[parse[i]]
        /\ ste[stack[1]].kind = "GLOBAL"
    BY DEF ShapeInv, Shape, Matched, StackOK
  <2>2. DOMAIN stack = DOMAIN parse
    BY <2>1, ShapeFacts DEF ShapeInv
  <2>3. \A i \in DOMAIN parse : ste[stack[i]].kind = IF i = 1 THEN "GLOBAL" ELSE ScopeKind[parse[i]]
    BY <2>1
  <2> QED BY <2>2, <2>3
<1> QED BY <1>1, ScopeInvariance, PTL

\* Only a program with errors writes through a pointer to the wrong class.
THEOREM Casts == Spec => []CastsRight
<1>1. ShapeInv => CastsRight
  BY DEF ShapeInv
<1> QED BY <1>1, ScopeInvariance, PTL

-----------------------------------------------------------------------------
(* The place of variables in memory.                                       *)

\* Cells, Sizeless and the end of what is used in a scope, in the tables s.
CellsIn(s, e) == {v \in ToSet(s[e].syms) : /\ s[v].kind = "VARIABLE" /\ s[v].inMem
                                           /\ GetTypeSize(s[v].type) > 0}
SizelessIn(s) == {v \in DOMAIN s : s[v].varKind = "GLOBAL" /\ GetTypeSize(s[v].type) = 0}
End(r, varKind) == IF varKind = "PARAM" THEN r.argCnt
                   ELSE IF varKind = "LOCAL" THEN r.cnt ELSE r.cnt - GLOBAL_MAX_REG_COUNT

\* Cells lie before the end and apart; every global in a register has room counted
\* for it, so that those in memory start after none of them.
Storage(s) ==
  /\ \A e \in DOMAIN s : \A v \in CellsIn(s, e) :
       /\ s[v].offSet < End(s[e], s[v].varKind)
       /\ SizelessIn(s) = {} => s[v].offSet >= 0
       /\ \A w \in CellsIn(s, e) : v # w /\ s[v].varKind = s[w].varKind => s[v].offSet # s[w].offSet
  /\ SizelessIn(s) = {} => \A e \in DOMAIN s : s[e].cntI <= s[e].cnt /\ s[e].cntF <= s[e].cnt

\* A table holds entries.
LEMMA CellsAre ==
  ASSUME NEW s, WellFormed(s), NEW e \in DOMAIN s, NEW v \in ToSet(s[e].syms)
  PROVE  v \in DOMAIN s /\ v \in 1 .. Len(s)
<1>1. s[e].syms \in Seq(1 .. Len(s)) /\ DOMAIN s = 1 .. Len(s)
  BY WellFormedDomain DEF IsEntry
<1>2. PICK k \in DOMAIN s[e].syms : v = s[e].syms[k]
  BY DEF ToSet
<1> QED BY <1>1, <1>2

\* Scopes grow at their end: the new entry, if it is a cell, lies between the old
\* end and the new one.
Fits(s, m, t, scope, entry) ==
  /\ m[scope].cnt >= s[scope].cnt /\ m[scope].argCnt >= s[scope].argCnt
  /\ entry.kind = "VARIABLE" /\ entry.inMem /\ GetTypeSize(entry.type) > 0 =>
       /\ End(s[scope], entry.varKind) <= entry.offSet /\ entry.offSet < End(m[scope], entry.varKind)
       /\ SizelessIn(t) = {} /\ s[scope].cntI <= s[scope].cnt /\ s[scope].cntF <= s[scope].cnt =>
            entry.offSet >= 0
  /\ SizelessIn(t) = {} /\ s[scope].cntI <= s[scope].cnt /\ s[scope].cntF <= s[scope].cnt =>
       m[scope].cntI <= m[scope].cnt /\ m[scope].cntF <= m[scope].cnt

\* An entry that fits in the storage its scope has counted so far leaves it sound.
LEMMA StorageGrows ==
  ASSUME NEW s, WellFormed(s), Storage(s), NEW scope \in DOMAIN s, NEW m, Counts(s, m, scope), WellFormed(m),
         NEW entry, Bare(entry), NEW linked \in BOOLEAN, NEW t, WellFormed(t),
         Adds(m, t, scope, entry, linked), Fits(s, m, t, scope, entry)
  PROVE  Storage(t)
<1> DEFINE new == Len(s) + 1
<1>1. /\ DOMAIN s = 1 .. Len(s) /\ Len(s) \in Nat /\ DOMAIN t = 1 .. new /\ Len(m) = Len(s)
      /\ DOMAIN m = DOMAIN s
      /\ \A d \in DOMAIN s : IsEntry(s[d], Len(s)) /\ IsEntry(m[d], Len(s))
      /\ \A d \in DOMAIN t : IsEntry(t[d], new)
  BY WellFormedDomain DEF Counts, Adds
<1>2. /\ t[new] = entry /\ entry.syms = <<>> /\ entry.cntI = 0 /\ entry.cntF = 0 /\ new \notin DOMAIN s
      /\ new \in DOMAIN t
  BY <1>1 DEF Bare, Adds
<1>3. ASSUME NEW d \in DOMAIN s
      PROVE  /\ d \in DOMAIN t /\ t[d].kind = s[d].kind /\ t[d].varKind = s[d].varKind
             /\ t[d].type = s[d].type /\ t[d].offSet = s[d].offSet /\ t[d].inMem = s[d].inMem
             /\ t[d].cnt = m[d].cnt /\ t[d].argCnt = m[d].argCnt
             /\ t[d].cntI = m[d].cntI /\ t[d].cntF = m[d].cntF
             /\ d # scope => /\ m[d].cnt = s[d].cnt /\ m[d].argCnt = s[d].argCnt
                             /\ m[d].cntI = s[d].cntI /\ m[d].cntF = s[d].cntF
             /\ d # scope \/ ~linked => t[d].syms = s[d].syms
  BY <1>1 DEF Counts, Adds, SameButCounts, SameCounts
<1>4. linked => t[scope].syms = Append(s[scope].syms, new)
  BY <1>1 DEF Counts, Adds
<1> HIDE DEF new
<1>5. \A d \in DOMAIN t : d \in DOMAIN s \/ d = new
  BY <1>1 DEF new
<1>6. SizelessIn(t) = {} => SizelessIn(s) = {}
  BY <1>3 DEF SizelessIn
<1>7. CellsIn(t, new) = {}
  BY <1>2 DEF CellsIn, ToSet
<1>8. ASSUME NEW d \in DOMAIN s, d # scope \/ ~linked
      PROVE  CellsIn(t, d) = CellsIn(s, d)
  <2>1. t[d].syms = s[d].syms
    BY <1>3, <1>8
  <2>2. \A v \in ToSet(s[d].syms) : v \in DOMAIN s
    BY CellsAre
  <2> QED BY <1>3, <2>1, <2>2 DEF CellsIn
<1>9. linked => CellsIn(t, scope) \subseteq CellsIn(s, scope) \cup {new}
  <2> SUFFICES ASSUME linked
               PROVE  CellsIn(t, scope) \subseteq CellsIn(s, scope) \cup {new}
    OBVIOUS
  <2>1. ToSet(t[scope].syms) = ToSet(s[scope].syms) \cup {new}
    <3> DEFINE q == s[scope].syms
    <3>1. q \in Seq(1 .. Len(s)) /\ t[scope].syms = Append(q, new)
      BY <1>1, <1>4 DEF IsEntry
    <3> HIDE DEF q
    <3>2. q \in Seq(ToSet(q))
      BY <3>1, OwnElements
    <3>3. /\ DOMAIN Append(q, new) = 1 .. Len(q) + 1 /\ DOMAIN q = 1 .. Len(q) /\ Len(q) \in Nat
          /\ Append(q, new)[Len(q) + 1] = new
          /\ \A k \in DOMAIN q : Append(q, new)[k] = q[k]
      BY <3>2, Appended
    <3>4. \A k \in 1 .. Len(q) + 1 : k \in DOMAIN q \/ k = Len(q) + 1
      BY <3>3
    <3>5. Len(q) + 1 \in DOMAIN Append(q, new) /\ DOMAIN q \subseteq DOMAIN Append(q, new)
      BY <3>3
    <3>6. ToSet(Append(q, new)) \subseteq ToSet(q) \cup {new}
      BY <3>3, <3>4 DEF ToSet
    <3>7. ToSet(q) \cup {new} \subseteq ToSet(Append(q, new))
      BY <3>3, <3>5 DEF ToSet
    <3> QED BY <3>1, <3>6, <3>7 DEF q
  <2>2. \A v \in ToSet(s[scope].syms) : v \in DOMAIN s
    BY CellsAre
  <2> QED BY <1>3, <2>1, <2>2 DEF CellsIn
<1>10. ASSUME NEW d \in DOMAIN s, NEW v \in CellsIn(s, d)
       PROVE  /\ v \in DOMAIN s /\ s[v].offSet \in Int /\ s[v].offSet < End(t[d], s[v].varKind)
              /\ s[v].offSet < End(s[d], s[v].varKind)
              /\ SizelessIn(t) = {} => s[v].offSet >= 0
  <2>1. v \in DOMAIN s /\ s[v].offSet \in Int
    BY <1>1, CellsAre DEF CellsIn, IsEntry
  <2>2. s[v].offSet < End(s[d], s[v].varKind) /\ (SizelessIn(t) = {} => s[v].offSet >= 0)
    BY <1>6 DEF Storage
  <2>3. /\ s[d].cnt \in Nat /\ s[d].argCnt \in Nat /\ t[d].cnt \in Nat /\ t[d].argCnt \in Nat
        /\ GLOBAL_MAX_REG_COUNT \in Nat
    BY <1>1, <1>3, ScopesAssumption DEF IsEntry
  <2>4. s[d].cnt <= t[d].cnt /\ s[d].argCnt <= t[d].argCnt
    BY <1>3, <2>3 DEF Fits
  <2> QED BY <2>1, <2>2, <2>3, <2>4 DEF End
<1>11. ASSUME new \in CellsIn(t, scope), linked
       PROVE  /\ entry.offSet \in Int /\ entry.offSet < End(t[scope], entry.varKind)
              /\ SizelessIn(t) = {} => entry.offSet >= 0
              /\ \A v \in CellsIn(s, scope) : s[v].varKind = entry.varKind => s[v].offSet # entry.offSet
  <2>1. entry.kind = "VARIABLE" /\ entry.inMem /\ GetTypeSize(entry.type) > 0
    BY <1>2, <1>11 DEF CellsIn
  <2>2. /\ End(s[scope], entry.varKind) <= entry.offSet /\ entry.offSet < End(m[scope], entry.varKind)
        /\ SizelessIn(t) = {} => entry.offSet >= 0
    <3>1. SizelessIn(t) = {} => s[scope].cntI <= s[scope].cnt /\ s[scope].cntF <= s[scope].cnt
      BY <1>6 DEF Storage
    <3> QED BY <2>1, <3>1 DEF Fits
  <2>3. entry.offSet \in Int /\ End(m[scope], entry.varKind) = End(t[scope], entry.varKind)
    BY <1>3 DEF Bare, IsEntry, End
  <2>4. End(s[scope], entry.varKind) \in Int
    BY <1>1, ScopesAssumption DEF IsEntry, End
  <2>5. ASSUME NEW v \in CellsIn(s, scope), s[v].varKind = entry.varKind
        PROVE  s[v].offSet # entry.offSet
    <3>1. s[v].offSet < End(s[scope], entry.varKind) /\ s[v].offSet \in Int
      BY <1>10, <2>5
    <3> QED BY <2>2, <2>3, <2>4, <3>1
  <2> QED BY <2>2, <2>3, <2>5
<1>12. ASSUME NEW d \in DOMAIN t, NEW v \in CellsIn(t, d)
       PROVE  /\ t[v].offSet < End(t[d], t[v].varKind)
              /\ SizelessIn(t) = {} => t[v].offSet >= 0
              /\ \A w \in CellsIn(t, d) : v # w /\ t[v].varKind = t[w].varKind => t[v].offSet # t[w].offSet
  <2>1. d \in DOMAIN s
    BY <1>5, <1>7, <1>12
  <2>2. \A x \in CellsIn(s, d) : \A y \in CellsIn(s, d) :
          x # y /\ s[x].varKind = s[y].varKind => s[x].offSet # s[y].offSet
    BY <2>1 DEF Storage
  <2>3. CASE d # scope \/ ~linked
    <3>1. CellsIn(t, d) = CellsIn(s, d)
      BY <1>8, <2>1, <2>3
    <3>2. \A x \in CellsIn(s, d) : x \in DOMAIN s
      BY <1>10, <2>1
    <3>3. /\ s[v].offSet < End(t[d], s[v].varKind)
          /\ SizelessIn(t) = {} => s[v].offSet >= 0
      BY <1>10, <1>12, <2>1, <3>1
    <3> QED BY <1>3, <1>12, <2>2, <3>1, <3>2, <3>3
  <2>4. CASE d = scope /\ linked
    <3>1. \A x \in CellsIn(t, scope) : x \in CellsIn(s, scope) \/ x = new
      BY <1>9, <2>4
    <3>2. \A x \in CellsIn(s, scope) : /\ x \in DOMAIN s /\ s[x].offSet < End(t[scope], s[x].varKind)
                                      /\ SizelessIn(t) = {} => s[x].offSet >= 0
      BY <1>10
    <3>3. ASSUME NEW x \in CellsIn(s, scope)
          PROVE  t[x].offSet = s[x].offSet /\ t[x].varKind = s[x].varKind
      <4>1. x \in DOMAIN s
        BY <1>10
      <4> QED BY <1>3, <4>1
    <3>4. CASE v = new
      <4>1. /\ t[v].offSet < End(t[scope], t[v].varKind)
            /\ SizelessIn(t) = {} => t[v].offSet >= 0
            /\ \A x \in CellsIn(s, scope) : s[x].varKind = t[v].varKind => s[x].offSet # t[v].offSet
        BY <1>2, <1>11, <1>12, <2>4, <3>4
      <4> QED BY <2>4, <3>1, <3>3, <3>4, <4>1
    <3>5. CASE v # new
      <4>1. v \in CellsIn(s, scope)
        BY <1>12, <2>4, <3>1, <3>5
      <4>2. ASSUME NEW w \in CellsIn(t, d), v # w, t[v].varKind = t[w].varKind
            PROVE  t[v].offSet # t[w].offSet
        <5>1. CASE w = new
          BY <1>2, <1>11, <2>4, <3>3, <4>1, <4>2, <5>1
        <5>2. CASE w # new
          BY <2>2, <2>4, <3>1, <3>3, <4>1, <4>2, <5>2
        <5> QED BY <5>1, <5>2
      <4>3. t[v].offSet = s[v].offSet /\ t[v].varKind = s[v].varKind
        BY <3>3, <4>1
      <4>4. s[v].offSet < End(t[scope], s[v].varKind) /\ (SizelessIn(t) = {} => s[v].offSet >= 0)
        BY <1>10, <4>1
      <4> QED BY <2>4, <4>2, <4>3, <4>4
    <3> QED BY <3>4, <3>5
  <2> QED BY <2>3, <2>4
<1>13. ASSUME SizelessIn(t) = {}, NEW d \in DOMAIN t
       PROVE  t[d].cntI <= t[d].cnt /\ t[d].cntF <= t[d].cnt
  <2>1. SizelessIn(s) = {}
    BY <1>6, <1>13
  <2>2. CASE d = new
    <3>1. t[d].cnt \in Nat /\ t[d].cntI = 0 /\ t[d].cntF = 0
      BY <1>1, <1>2, <2>2 DEF IsEntry
    <3> QED BY <3>1
  <2>3. CASE d # new
    <3>1. d \in DOMAIN s
      BY <1>5, <2>3
    <3>2. s[d].cntI <= s[d].cnt /\ s[d].cntF <= s[d].cnt
      BY <2>1, <3>1 DEF Storage
    <3>3. CASE d = scope
      BY <1>3, <1>13, <3>2, <3>3 DEF Fits
    <3>4. CASE d # scope
      BY <1>3, <3>1, <3>2, <3>4
    <3> QED BY <3>3, <3>4
  <2> QED BY <2>2, <2>3
<1> QED BY <1>12, <1>13 DEF Storage

\* An entry that is no variable in memory takes no room.
LEMMA StoragePlain ==
  ASSUME NEW s, WellFormed(s), Storage(s), NEW scope \in DOMAIN s, NEW entry, Bare(entry),
         entry.kind # "VARIABLE" \/ ~entry.inMem,
         NEW linked \in BOOLEAN, NEW t, WellFormed(t), Adds(s, t, scope, entry, linked)
  PROVE  Storage(t)
<1>1. Counts(s, s, scope)
  BY DEF Counts, SameButCounts, SameCounts
<1>2. s[scope].cnt \in Nat /\ s[scope].argCnt \in Nat
  BY WellFormedDomain DEF IsEntry
<1>3. Fits(s, s, t, scope, entry)
  BY <1>2 DEF Fits
<1> QED BY <1>1, <1>3, StorageGrows

\* An entry that takes no memory may go into any scope,
LEMMA StorageInserted ==
  ASSUME NEW s, WellFormed(s), Storage(s), NEW scope \in DOMAIN s, NEW entry, Bare(entry),
         entry.kind # "VARIABLE" \/ ~entry.inMem
  PROVE  Storage(Insert(s, scope, entry))
<1> DEFINE t == Insert(s, scope, entry)
<1>1. WellFormed(t) /\ Adds(s, t, scope, entry, ~Duplicate(s, scope, entry))
  BY Inserted
<1>2. (~Duplicate(s, scope, entry)) \in BOOLEAN
  BY DuplicateIs
<1> HIDE DEF t
<1>3. Storage(t)
  BY <1>1, <1>2, StoragePlain
<1> QED BY <1>3 DEF t

\* or be made outside of any table.
LEMMA StorageAppended ==
  ASSUME NEW s, WellFormed(s), Storage(s), NEW entry, Bare(entry), entry.kind # "VARIABLE"
  PROVE  Storage(Append(s, entry))
<1> DEFINE t == Append(s, entry)
<1>1. /\ Follows(s, t) /\ Len(t) = Len(s) + 1 /\ t[Len(s) + 1] = entry /\ 1 \in DOMAIN s
      /\ \A d \in DOMAIN s : t[d] = s[d]
  BY AppendFollows, WellFormedDomain
<1> HIDE DEF t
<1>2. Adds(s, t, 1, entry, FALSE)
  BY <1>1 DEF Adds, SameButCounts, SameCounts
<1>3. Storage(t)
  BY <1>1, <1>2, StoragePlain DEF Follows
<1> QED BY <1>3 DEF t

\* A declarator is given the next cell of its kind.
LEMMA StorageDeclared ==
  ASSUME NEW s, WellFormed(s), Storage(s), NEW scope \in DOMAIN s, NEW name, NEW type
  PROVE  Storage(DeclaredOne(s, scope, name, type))
<1> DEFINE m == Counted(s, scope, type)
           v == Placed(s, scope, name, type)
           t == Insert(m, scope, v)
           r == s[scope]
           size == GetTypeSize(type)
<1>1. /\ WellFormed(m) /\ Counts(s, m, scope)
      /\ m[scope].cnt = r.cnt + size
      /\ m[scope].argCnt = r.argCnt
      /\ type = "double" =>
           /\ m[scope].cntI = r.cntI
           /\ m[scope].cntF = IF r.kind = "GLOBAL" /\ r.cntF < GLOBAL_MAX_REG_COUNT
                              THEN r.cntF + 1 ELSE r.cntF
      /\ type # "double" =>
           /\ m[scope].cntF = r.cntF
           /\ m[scope].cntI = IF r.kind = "GLOBAL" /\ r.cntI < GLOBAL_MAX_REG_COUNT
                              THEN r.cntI + 1 ELSE r.cntI
  BY CountedIs
<1>2. /\ Bare(v) /\ v.kind = "VARIABLE" /\ v.name = name /\ v.type = type
      /\ v.varKind = (IF r.kind = "GLOBAL" THEN "GLOBAL" ELSE "LOCAL")
      /\ r.kind # "GLOBAL" => v.offSet = r.cnt
      /\ r.kind = "GLOBAL" /\ v.inMem => ~Resident(s, scope, type) /\ v.offSet = r.cnt - GLOBAL_MAX_REG_COUNT
  BY PlacedIs
<1>3. /\ r.cnt \in Nat /\ r.argCnt \in Nat /\ r.cntI \in Nat /\ r.cntF \in Nat
      /\ GLOBAL_MAX_REG_COUNT \in Nat /\ size \in 0 .. 1
  BY WellFormedDomain, ScopesAssumption, TypeSize DEF IsEntry
<1>4. ~Resident(s, scope, type) => \/ type = "double" /\ ~(r.cntF < GLOBAL_MAX_REG_COUNT)
                                   \/ type # "double" /\ ~(r.cntI < GLOBAL_MAX_REG_COUNT)
  BY DEF Resident, CountOf
<1>5. scope \in DOMAIN m
  BY <1>1, CountsFollows, FollowsDomain
<1> HIDE DEF m, v, size
<1>6. /\ WellFormed(t) /\ Adds(m, t, scope, v, ~Duplicate(m, scope, v))
      /\ (~Duplicate(m, scope, v)) \in BOOLEAN
  BY <1>1, <1>2, <1>5, Inserted, DuplicateIs
<1> HIDE DEF t
<1>7. SizelessIn(t) = {} /\ r.kind = "GLOBAL" => size = 1
  <2>1. Len(m) + 1 \in DOMAIN t /\ t[Len(m) + 1] = v
    BY <1>1, <1>6, WellFormedDomain DEF Adds
  <2>2. r.kind = "GLOBAL" /\ size = 0 => Len(m) + 1 \in SizelessIn(t)
    BY <1>2, <2>1 DEF SizelessIn, size
  <2> QED BY <1>3, <2>2
<1> HIDE DEF r
<1>8. m[scope].cnt >= r.cnt /\ m[scope].argCnt >= r.argCnt
  BY <1>1, <1>3
<1>9. size > 0 /\ v.inMem => /\ End(r, v.varKind) <= v.offSet /\ v.offSet < End(m[scope], v.varKind)
                             /\ r.cntI <= r.cnt /\ r.cntF <= r.cnt => v.offSet >= 0
  <2>1. CASE r.kind = "GLOBAL"
    BY <1>1, <1>2, <1>3, <1>4, <2>1 DEF End
  <2>2. CASE r.kind # "GLOBAL"
    BY <1>1, <1>2, <1>3, <2>2 DEF End
  <2> QED BY <2>1, <2>2
<1>10. SizelessIn(t) = {} /\ r.cntI <= r.cnt /\ r.cntF <= r.cnt =>
         m[scope].cntI <= m[scope].cnt /\ m[scope].cntF <= m[scope].cnt
  <2>1. CASE type = "double"
    BY <1>1, <1>3, <1>7, <2>1
  <2>2. CASE type # "double"
    BY <1>1, <1>3, <1>7, <2>2
  <2> QED BY <2>1, <2>2
<1>11. Fits(s, m, t, scope, v)
  BY <1>2, <1>8, <1>9, <1>10 DEF Fits, size, r
<1>12. Storage(t)
  BY <1>1, <1>2, <1>6, <1>11, StorageGrows
<1> QED BY <1>12 DEF t, m, v, DeclaredOne

\* A parameter goes behind the parameters that were counted before it.
LEMMA StorageParameter ==
  ASSUME NEW s, WellFormed(s), Storage(s), NEW scope \in DOMAIN s, NEW n, NEW type
  PROVE  Storage(Insert(ParamCounted(s, scope, type), scope, Param(s, scope, n, type)))
<1> DEFINE m == ParamCounted(s, scope, type)
           v == Param(s, scope, n, type)
           t == Insert(m, scope, v)
           r == s[scope]
           size == ParamSize(s, scope, type)
<1>1. /\ WellFormed(m) /\ Counts(s, m, scope) /\ m[scope].argCnt = r.argCnt + size
      /\ m[scope].cnt = r.cnt /\ m[scope].cntI = r.cntI /\ m[scope].cntF = r.cntF
  BY ParamCountedIs
<1>2. /\ Bare(v) /\ v.kind = "VARIABLE" /\ v.type = type /\ v.varKind = "PARAM" /\ v.offSet = r.argCnt
      /\ v.inMem <=> r.kind \in {"FUNCTION", "EVENT"}
  BY ParamIs
<1>3. r.cnt \in Nat /\ r.argCnt \in Nat /\ size \in 0 .. 1 /\ GetTypeSize(type) \in 0 .. 1
  BY WellFormedDomain, TypeSize DEF IsEntry, ParamSize
<1>4. v.inMem => size = GetTypeSize(type)
  BY <1>2 DEF ParamSize
<1>5. scope \in DOMAIN m
  BY <1>1, CountsFollows, FollowsDomain
<1> HIDE DEF m, v, size
<1>6. /\ WellFormed(t) /\ Adds(m, t, scope, v, ~Duplicate(m, scope, v))
      /\ (~Duplicate(m, scope, v)) \in BOOLEAN
  BY <1>1, <1>2, <1>5, Inserted, DuplicateIs
<1> HIDE DEF t, r
<1>7. /\ m[scope].cnt >= r.cnt /\ m[scope].argCnt >= r.argCnt
      /\ v.inMem /\ GetTypeSize(v.type) > 0 => /\ End(r, v.varKind) <= v.offSet
                                              /\ v.offSet < End(m[scope], v.varKind) /\ v.offSet >= 0
  BY <1>1, <1>2, <1>3, <1>4 DEF End
<1>8. Fits(s, m, t, scope, v)
  BY <1>1, <1>7 DEF Fits, r
<1>9. Storage(t)
  BY <1>1, <1>2, <1>6, <1>8, StorageGrows
<1> QED BY <1>9 DEF t, m, v

\* So does each variable of a declaration, in its bank or in memory.
LEMMA StorageVarList ==
  ASSUME NEW s, WellFormed(s), Storage(s), NEW scope \in DOMAIN s, NEW list, NEW type,
         list \in Seq(ToSet(list))
  PROVE  Storage(VarListEntry(s, scope, list, type))
<1>1. PICK c : /\ c[0] = s /\ c[Len(list)] = VarListEntry(s, scope, list, type)
               /\ \A k \in 1 .. Len(list) : c[k] = DeclaredOne(c[k - 1], scope, list[k].name, type)
  <2>1. PICK c : Declares(c, s, scope, list, type)
    BY OneByOne, Zenon
  <2> QED BY <2>1, Zenon DEF Declares
<1> DEFINE T == { k \in Nat : k <= Len(list) => Follows(s, c[k]) /\ Storage(c[k]) }
<1>2. 0 \in T
  BY <1>1, FollowsItself
<1>3. ASSUME NEW k \in Nat, k \in T
      PROVE  k + 1 \in T
  <2> SUFFICES ASSUME k + 1 <= Len(list)
               PROVE  Follows(s, c[k + 1]) /\ Storage(c[k + 1])
    OBVIOUS
  <2>1. Follows(s, c[k]) /\ Storage(c[k]) /\ k + 1 \in 1 .. Len(list) /\ (k + 1) - 1 = k
    BY <1>3
  <2>2. c[k + 1] = DeclaredOne(c[k], scope, list[k + 1].name, type)
    BY <1>1, <2>1
  <2>3. scope \in DOMAIN c[k] /\ WellFormed(c[k])
    BY <2>1, FollowsDomain
  <2>4. Follows(c[k], c[k + 1]) /\ Storage(c[k + 1])
    BY <2>1, <2>2, <2>3, DeclaredFollows, StorageDeclared
  <2> QED BY <2>1, <2>4, FollowsOn
<1>4. Len(list) \in Nat
  OBVIOUS
<1> HIDE DEF T
<1>5. Len(list) \in T
  BY <1>2, <1>3, <1>4, Induction
<1> QED BY <1>1, <1>4, <1>5 DEF T

\* The names of a pattern take the places of the event's parameters.
LEMMA StorageBound ==
  ASSUME NEW s, WellFormed(s), Storage(s), NEW scope \in DOMAIN s, NEW e, NEW names,
         names \in Seq(ToSet(names))
  PROVE  Storage(Bound(s, scope, e, names))
<1>1. PICK c : /\ c[0] = s /\ c[Len(names)] = Bound(s, scope, e, names)
               /\ \A k \in 1 .. Len(names) : c[k] = Insert(c[k - 1], scope, Typed(e, names[k], k))
  BY OneBinding
<1> DEFINE T == { k \in Nat : k <= Len(names) => Follows(s, c[k]) /\ Storage(c[k]) }
<1>2. 0 \in T
  BY <1>1, FollowsItself
<1>3. ASSUME NEW k \in Nat, k \in T
      PROVE  k + 1 \in T
  <2> SUFFICES ASSUME k + 1 <= Len(names)
               PROVE  Follows(s, c[k + 1]) /\ Storage(c[k + 1])
    OBVIOUS
  <2>1. Follows(s, c[k]) /\ Storage(c[k]) /\ k + 1 \in 1 .. Len(names) /\ (k + 1) - 1 = k
    BY <1>3
  <2> DEFINE v == Typed(e, names[k + 1], k + 1)
  <2>2. c[k + 1] = Insert(c[k], scope, v)
    BY <1>1, <2>1
  <2>3. scope \in DOMAIN c[k] /\ WellFormed(c[k])
    BY <2>1, FollowsDomain
  <2>4. Bare(v) /\ ~v.inMem
    BY BareVariables DEF Typed
  <2> HIDE DEF v
  <2>5. Follows(c[k], c[k + 1]) /\ Storage(c[k + 1])
    BY <2>1, <2>2, <2>3, <2>4, InsertFollows, StorageInserted
  <2> QED BY <2>1, <2>5, FollowsOn
<1>4. Len(names) \in Nat
  OBVIOUS
<1> HIDE DEF T
<1>5. Len(names) \in T
  BY <1>2, <1>3, <1>4, Induction
<1> QED BY <1>1, <1>4, <1>5 DEF T

\* What does not count for the place of variables may change.
LEMMA StorageSame ==
  ASSUME NEW s, WellFormed(s), Storage(s), NEW t, WellFormed(t), Len(t) = Len(s),
         \A d \in DOMAIN s : SameButCounts(t[d], s[d]) /\ SameCounts(t[d], s[d]) /\ t[d].syms = s[d].syms
  PROVE  Storage(t)
<1>1. DOMAIN t = DOMAIN s
  BY WellFormedDomain
<1>2. \A e \in DOMAIN s : \A v \in ToSet(s[e].syms) : v \in DOMAIN s
  BY CellsAre
<1>3. ASSUME NEW e \in DOMAIN s
      PROVE  CellsIn(t, e) = CellsIn(s, e) /\ \A v \in CellsIn(s, e) : v \in DOMAIN s
  BY <1>2 DEF CellsIn, SameButCounts
<1>4. SizelessIn(t) = SizelessIn(s)
  BY <1>1 DEF SizelessIn, SameButCounts
<1>5. \A d \in DOMAIN s : \A k : End(t[d], k) = End(s[d], k)
  BY DEF End, SameCounts
<1> QED BY <1>1, <1>3, <1>4, <1>5 DEF Storage, SameButCounts, SameCounts

\* while_hdr takes no room.
LEMMA StorageWhile ==
  ASSUME NEW s, WellFormed(s), Storage(s), NEW scope \in DOMAIN s, NEW label \in Seq(Nat)
  PROVE  Storage(Insert(WhileCounted(s, scope), scope, WhileBlock(label)))
<1> DEFINE m == WhileCounted(s, scope)
           v == WhileBlock(label)
           t == Insert(m, scope, v)
<1>1. /\ WellFormed(m) /\ Counts(s, m, scope) /\ m[scope].argCnt = s[scope].argCnt
      /\ m[scope].cnt = s[scope].cnt /\ m[scope].cntI = s[scope].cntI /\ m[scope].cntF = s[scope].cntF
  BY WhileCountedIs
<1>2. Bare(v) /\ v.kind = "WHILE_BLOCK"
  BY BareLoops
<1>3. s[scope].cnt \in Nat /\ s[scope].argCnt \in Nat
  BY WellFormedDomain DEF IsEntry
<1>4. scope \in DOMAIN m
  BY <1>1, CountsFollows, FollowsDomain
<1> HIDE DEF m, v
<1>5. /\ WellFormed(t) /\ Adds(m, t, scope, v, ~Duplicate(m, scope, v))
      /\ (~Duplicate(m, scope, v)) \in BOOLEAN
  BY <1>1, <1>2, <1>4, Inserted, DuplicateIs
<1> HIDE DEF t
<1>6. Fits(s, m, t, scope, v)
  BY <1>1, <1>2, <1>3 DEF Fits
<1>7. Storage(t)
  BY <1>1, <1>2, <1>5, <1>6, StorageGrows
<1> QED BY <1>7 DEF t, m, v

\* Steps that leave the tables alone.
Keeping ==
  \/ EndEvent \/ EndPrototype \/ BeginBody \/ BreakStmt \/ RetStmt \/ WhileBody \/ WhileStmt
  \/ RuleHdr \/ EndRule \/ Finish \/ Errors
  \/ \E n \in Names : RefExpr(n) \/ FuncInvoc(n)

\* The actions that change no table.
LEMMA Kept ==
  ASSUME Keeping
  PROVE  ste' = ste
BY DEF Keeping, EndEvent, EndPrototype, BeginBody, BreakStmt, RetStmt, WhileBody, WhileStmt, RuleHdr,
       EndRule, Finish, Errors, RefExpr, FuncInvoc, DeclarationError, EventNameError, StatementError,
       ConditionError, HeaderError, RuleError, NullName, NullDeclarator, Aborted, EndOfFile

\* The others.
LEMMA Steps ==
  ASSUME Next
  PROVE  /\ ended = "no" /\ ~wild
         /\ \/ Keeping \/ EndFunction \/ WhileHdr \/ AnyEvent
            \/ \E list \in VarLists, type \in VarTypes : VarDec(list, type)
            \/ \E n \in Names : ClassDec(n) \/ EventDeclHdr(n) \/ FuncDeclHdr(n)
            \/ \E n \in Names, type \in VarTypes : FormalParam(n, type)
            \/ \E n \in Names, names \in PatternArgs : NormalEvent(n, names)
BY DEF Next, Keeping, Declarations, StatementActions, Rules

\* What a class, an event or a function enters in the current scope.
LEMMA HeadersAre ==
  ASSUME NEW n \in Names, ClassDec(n) \/ EventDeclHdr(n) \/ FuncDeclHdr(n)
  PROVE  \E kind \in {"CLASS", "EVENT", "FUNCTION"} : ste' = Insert(ste, CurrentScope, Entry(kind, n))
<1>1. CASE ClassDec(n)
  BY <1>1 DEF ClassDec
<1>2. CASE EventDeclHdr(n)
  BY <1>2 DEF EventDeclHdr, InsertAndEnter
<1>3. CASE FuncDeclHdr(n)
  BY <1>3 DEF FuncDeclHdr, InsertAndEnter
<1> QED BY <1>1, <1>2, <1>3

\* The end of a function marks its body and moves nothing.
LEMMA EndFunctionTables ==
  ASSUME WellFormed(ste), CurrentScope \in DOMAIN ste, EndFunction
  PROVE  /\ WellFormed(ste') /\ Len(ste') = Len(ste)
         /\ \A d \in DOMAIN ste : /\ SameButCounts(ste'[d], ste[d]) /\ SameCounts(ste'[d], ste[d])
                                  /\ ste'[d].syms = ste[d].syms
<1> DEFINE q == [ste[CurrentScope] EXCEPT !.hasBody = TRUE]
<1>1. IF CurrentKind = "FUNCTION" THEN ste' = [ste EXCEPT ![CurrentScope] = q] ELSE UNCHANGED ste
  BY DEF EndFunction
<1>2. IsEntry(ste[CurrentScope], Len(ste)) /\ DOMAIN ste[CurrentScope] = EntryFields
  BY WellFormedDomain DEF IsEntry
<1>3. /\ SameButCounts(q, ste[CurrentScope]) /\ q.syms = ste[CurrentScope].syms /\ IsEntry(q, Len(ste))
      /\ SameCounts(q, ste[CurrentScope])
  BY <1>2 DEF SameButCounts, SameCounts, IsEntry, EntryFields
<1> HIDE DEF q
<1>4. CASE CurrentKind = "FUNCTION"
  <2>1. WellFormed(ste') /\ Counts(ste, ste', CurrentScope) /\ ste'[CurrentScope] = q
    BY <1>1, <1>3, <1>4, OneChanged
  <2> QED BY <1>3, <2>1 DEF Counts
<1>5. CASE CurrentKind # "FUNCTION"
  BY <1>1, <1>5 DEF SameButCounts, SameCounts
<1> QED BY <1>4, <1>5

\* The names a pattern gives, and the tables after it.
LEMMA NormalEventTables ==
  ASSUME ShapeInv, ended = "no", NEW n \in Names, NEW names \in PatternArgs, NormalEvent(n, names)
  PROVE  \E e \in 0 .. Len(ste) : \E given :
           /\ given \in Seq(ToSet(given)) /\ given \in Seq(Names)
           /\ ste' = Bound(RuleTable, RuleScope, e, given)
<1> DEFINE e == LookUp(n)
           known == e # 0 /\ ste[e].kind = "EVENT"
           given == IF known THEN Given(e, names) ELSE <<>>
<1>1. ste' = Bound(RuleTable, RuleScope, e, given)
  BY DEF NormalEvent
<1>2. /\ DOMAIN ste = 1 .. Len(ste) /\ Len(ste) \in Nat /\ WellFormed(ste)
      /\ \A d \in DOMAIN ste : ste[d].syms \in Seq(1 .. Len(ste))
  BY WellFormedDomain DEF ShapeInv, Shape, IsEntry
<1>3. e \in 0 .. Len(ste)
  BY <1>2, LookUpIn DEF LookUp, ShapeInv, Shape, StackOK
<1> HIDE DEF e
<1>4. given \in Seq(Names)
  <2>1. names \in Seq(Names)
    BY ScopesAssumption
  <2>2. known => ste[e].syms \in Seq(Nat)
    <3>1. known => e \in DOMAIN ste
      BY <1>2, <1>3
    <3>2. 1 .. Len(ste) \subseteq Nat
      BY <1>2
    <3> QED BY <1>2, <3>1, <3>2
  <2>3. known => Given(e, names) \in Seq(Names)
    BY <2>1, <2>2, GivenIs
  <2>4. <<>> \in Seq(Names)
    OBVIOUS
  <2> QED BY <2>3, <2>4
<1> HIDE DEF given
<1>5. given \in Seq(ToSet(given))
  BY <1>4, OwnElements
<1> QED BY <1>1, <1>3, <1>4, <1>5

\* A table for a rule starts empty.
LEMMA RuleTableStorage ==
  ASSUME WellFormed(ste), CurrentScope \in DOMAIN ste, Storage(ste)
  PROVE  Storage(RuleTable)
<1>1. CASE InRule
  BY <1>1, RuleTableIs
<1>2. CASE ~InRule
  <2> DEFINE x == Entry("RULE_BLOCK", NoName)
  <2>1. Bare(x) /\ x.kind = "RULE_BLOCK" /\ RuleTable = Append(ste, x)
    BY <1>2, BareEntries, RuleTableIs
  <2> HIDE DEF x
  <2> QED BY <2>1, StorageAppended
<1> QED BY <1>1, <1>2

\* Every step keeps the storage sound.
LEMMA NextStorage ==
  ASSUME ShapeInv, Storage(ste), [Next]_vars
  PROVE  Storage(ste')
<1>1. CASE UNCHANGED vars
  BY <1>1 DEF vars
<1>2. CASE Next
  <2>1. ended = "no" /\ ~wild
    BY <1>2, Steps
  <2>2. WellFormed(ste) /\ CurrentScope \in DOMAIN ste
    BY <2>1, ShapeFacts DEF ShapeInv, Shape
  <2>3. CASE Keeping
    <3>1. ste' = ste
      BY <2>3, Kept
    <3> QED BY <3>1
  <2>4. CASE EndFunction
    BY <2>2, <2>4, EndFunctionTables, StorageSame
  <2>5. CASE WhileHdr
    <3>1. ste' = Insert(WhileCounted(ste, CurrentScope), CurrentScope, WhileBlock(NewLabel))
      BY <2>5 DEF WhileHdr, WhileCounted
    <3> QED BY <2>2, <3>1, NewLabelIs, StorageWhile
  <2>6. CASE AnyEvent
    <3>1. ste' = RuleTable
      BY <2>6 DEF AnyEvent
    <3> QED BY <2>2, <3>1, RuleTableStorage
  <2>7. ASSUME NEW list \in VarLists, NEW type \in VarTypes, VarDec(list, type)
        PROVE  Storage(ste')
    <3>1. ste' = VarListEntry(ste, CurrentScope, list, type) /\ list \in Seq(ToSet(list))
      BY <2>7, ScopesAssumption DEF VarDec
    <3> QED BY <2>2, <3>1, StorageVarList
  <2>8. ASSUME NEW n \in Names, ClassDec(n) \/ EventDeclHdr(n) \/ FuncDeclHdr(n)
        PROVE  Storage(ste')
    <3>1. PICK kind \in {"CLASS", "EVENT", "FUNCTION"} : ste' = Insert(ste, CurrentScope, Entry(kind, n))
      BY <2>8, HeadersAre
    <3> DEFINE x == Entry(kind, n)
    <3>2. Bare(x) /\ x.kind # "VARIABLE" /\ ste' = Insert(ste, CurrentScope, x)
      BY <3>1, BareEntries
    <3> HIDE DEF x
    <3> QED BY <2>2, <3>2, StorageInserted
  <2>9. ASSUME NEW n \in Names, NEW type \in VarTypes, FormalParam(n, type)
        PROVE  Storage(ste')
    BY <2>2, <2>9, FormalParamIs, StorageParameter
  <2>10. ASSUME NEW n \in Names, NEW names \in PatternArgs, NormalEvent(n, names)
         PROVE  Storage(ste')
    <3>1. PICK e \in 0 .. Len(ste) : \E given :
            /\ given \in Seq(ToSet(given)) /\ given \in Seq(Names)
            /\ ste' = Bound(RuleTable, RuleScope, e, given)
      BY <2>1, <2>10, NormalEventTables
    <3>2. Storage(RuleTable) /\ WellFormed(RuleTable) /\ RuleScope \in DOMAIN RuleTable
      BY <2>2, RuleTableStorage, RuleTableIs DEF Follows
    <3> QED BY <3>1, <3>2, StorageBound
  <2> QED BY <1>2, <2>3, <2>4, <2>5, <2>6, <2>7, <2>8, <2>9, <2>10, Steps
<1> QED BY <1>1, <1>2

\* No variable in memory has the cell of another, whatever the program: of two
\* in the table of one scope, and of one kind, the places are different; and no
\* global is put before the first cell, unless one of no size took a register
\* (varListEntry, formal_param).
THEOREM Places == Spec => []StorageDistinct
<1>1. Init => ShapeInv /\ Storage(ste)
  <2> SUFFICES ASSUME Init
               PROVE  Storage(ste)
    BY InitShape
  <2> DEFINE g == [Entry("GLOBAL", NoName) EXCEPT !.syms = <<2>>]
             v == Entry("EVENT", NoName)
  <2>1. ste = <<g, v>>
    BY DEF Init
  <2>2. g.cnt = 0 /\ g.cntI = 0 /\ g.cntF = 0 /\ g.syms = <<2>>
    BY DEF Entry
  <2>3. v.cnt = 0 /\ v.cntI = 0 /\ v.cntF = 0 /\ v.syms = <<>> /\ v.kind = "EVENT"
    BY DEF Entry
  <2> HIDE DEF g, v
  <2>4. DOMAIN ste = 1 .. 2 /\ ste[1] = g /\ ste[2] = v
    BY <2>1
  <2>5. \A e \in 1 .. 2 : e = 1 \/ e = 2
    OBVIOUS
  <2>6. \A e \in DOMAIN ste : CellsIn(ste, e) = {}
    <3>1. ToSet(g.syms) = {2} /\ ToSet(v.syms) = {}
      BY <2>2, <2>3 DEF ToSet
    <3>2. CellsIn(ste, 1) = {} /\ CellsIn(ste, 2) = {}
      BY <2>3, <2>4, <3>1 DEF CellsIn
    <3> QED BY <2>4, <2>5, <3>2
  <2>7. \A e \in DOMAIN ste : ste[e].cntI <= ste[e].cnt /\ ste[e].cntF <= ste[e].cnt
    <3>1. ste[1].cntI <= ste[1].cnt /\ ste[1].cntF <= ste[1].cnt
      BY <2>2, <2>4
    <3>2. ste[2].cntI <= ste[2].cnt /\ ste[2].cntF <= ste[2].cnt
      BY <2>3, <2>4
    <3> QED BY <2>4, <2>5, <3>1, <3>2
  <2> QED BY <2>6, <2>7 DEF Storage
<1>2. ShapeInv /\ Storage(ste) /\ [Next]_vars => (ShapeInv /\ Storage(ste))'
  BY NextShape, NextStorage
<1>3. ShapeInv /\ Storage(ste) => StorageDistinct
  <2> SUFFICES ASSUME Storage(ste)
               PROVE  StorageDistinct
    OBVIOUS
  <2>1. \A e \in DOMAIN ste : Cells(e) \subseteq CellsIn(ste, e)
    BY DEF Cells, CellsIn, ToSet
  <2>2. Sizeless = SizelessIn(ste)
    BY DEF Sizeless, SizelessIn
  <2> QED BY <2>1, <2>2 DEF Storage, StorageDistinct
<1> QED BY <1>1, <1>2, <1>3, PTL DEF Spec

-----------------------------------------------------------------------------
(* The labels of loops.                                                    *)

Owners == {"FUNCTION", "RULE_BLOCK"}
OwnersTo(s, w) == {1} \cup {d \in 1..w : s[d].kind \in Owners}
OwnerIn(s, w) == Max(OwnersTo(s, w))
LoopsIn(s) == {w \in DOMAIN s : s[w].kind = "WHILE_BLOCK"}
\* What the label of a loop in p starts with.
Base(r) == IF r.kind = "WHILE_BLOCK" THEN r.label ELSE <<>>

DistinctLabels(s) ==
  \A v \in LoopsIn(s) : \A w \in LoopsIn(s) :
    v # w /\ OwnerIn(s, v) = OwnerIn(s, w) => s[v].label # s[w].label

\* Loop w was numbered by block p, of the same owner.
NumberedBy(s, w, p) ==
  /\ p \in DOMAIN s /\ p < w /\ s[p].kind \in Owners \cup {"WHILE_BLOCK"}
  /\ OwnerIn(s, p) = OwnerIn(s, w)
  /\ \E n \in 1 .. s[p].whileCnt : s[w].label = Append(Base(s[p]), n)
Numbered(s) == \A w \in LoopsIn(s) : \E p \in DOMAIN s : NumberedBy(s, w, p)

Labelled(s) == DistinctLabels(s) /\ Numbered(s)

\* The blocks being parsed, but for events, are those of the last owner.
OwnersMatch ==
  errors = 0 /\ ended = "no" =>
    \A k \in DOMAIN stack : k # 1 /\ ste[stack[k]].kind # "EVENT" =>
      OwnerIn(ste, stack[k]) = OwnerIn(ste, Len(ste))

LabelInv == (errors = 0 => Labelled(ste)) /\ OwnersMatch

\* The innermost of some scopes is the last of them if that is one.
LEMMA OwnerOf ==
  ASSUME NEW n \in Nat, NEW S, S \subseteq 1 .. n, n \in S
  PROVE  Max(S) = n
<1>1. n \in S /\ \A y \in S : n >= y
  OBVIOUS
<1>2. Max(S) \in S /\ \A y \in S : Max(S) >= y
  <2>1. \E x : x \in S /\ \A y \in S : x >= y
    BY <1>1
  <2> QED BY <2>1, Zenon DEF Max
<1>3. Max(S) \in 1 .. n /\ Max(S) >= n
  BY <1>1, <1>2
<1> QED BY <1>3

\* A function or a rule owns itself.
LEMMA OwnsItself ==
  ASSUME NEW s, WellFormed(s), NEW w \in DOMAIN s, s[w].kind \in Owners
  PROVE  OwnerIn(s, w) = w
<1>1. w \in Nat /\ 1 <= w
  BY WellFormedDomain
<1>2. OwnersTo(s, w) \subseteq 1 .. w /\ w \in OwnersTo(s, w)
  BY <1>1 DEF OwnersTo
<1> QED BY <1>1, <1>2, OwnerOf DEF OwnerIn

\* Later entries change nothing.
LEMMA OwnerStays ==
  ASSUME NEW s, NEW t, WellFormed(s), Follows(s, t), NEW w \in DOMAIN s
  PROVE  OwnerIn(t, w) = OwnerIn(s, w)
<1>1. DOMAIN s = 1 .. Len(s) /\ Len(s) \in Nat /\ \A d \in 1 .. w : d \in DOMAIN s
  BY WellFormedDomain
<1>2. OwnersTo(t, w) = OwnersTo(s, w)
  BY <1>1 DEF OwnersTo, Follows
<1> QED BY <1>2 DEF OwnerIn

\* Nor do entries of other kinds.
LEMMA OwnerPasses ==
  ASSUME NEW s, NEW t, WellFormed(s), Follows(s, t), NEW w \in DOMAIN t, w >= Len(s),
         \A d \in DOMAIN t \ DOMAIN s : t[d].kind \notin Owners
  PROVE  OwnerIn(t, w) = OwnerIn(s, Len(s))
<1>1. DOMAIN s = 1 .. Len(s) /\ Len(s) \in Nat /\ DOMAIN t = 1 .. Len(t) /\ Len(t) \in Nat
      /\ Len(s) <= Len(t) /\ \A d \in DOMAIN s : t[d].kind = s[d].kind
  BY WellFormedDomain DEF Follows
<1>2. \A d \in 1 .. Len(s) : d \in 1 .. w /\ d \in DOMAIN s
  BY <1>1
<1>3. \A d \in 1 .. w : d \in DOMAIN s \/ d \in DOMAIN t \ DOMAIN s
  BY <1>1
<1>4. OwnersTo(t, w) = OwnersTo(s, Len(s))
  BY <1>1, <1>2, <1>3 DEF OwnersTo
<1> QED BY <1>4 DEF OwnerIn

\* The tables grow by entries of the kinds given; the loops and their numbers stay.
Extends(s, t, kinds) ==
  /\ Follows(s, t)
  /\ \A d \in DOMAIN s : t[d].label = s[d].label /\ t[d].whileCnt = s[d].whileCnt
  /\ \A d \in DOMAIN t \ DOMAIN s : t[d].kind \in kinds

\* Extends is reflexive
LEMMA ExtendsItself ==
  ASSUME NEW s, WellFormed(s), NEW kinds
  PROVE  Extends(s, s, kinds)
BY FollowsItself DEF Extends

\* and transitive,
LEMMA ExtendsOn ==
  ASSUME NEW s, NEW t, NEW u, NEW kinds, WellFormed(s), Extends(s, t, kinds), Extends(t, u, kinds)
  PROVE  Extends(s, u, kinds)
<1>1. Follows(s, u)
  BY FollowsOn DEF Extends
<1>2. DOMAIN s \subseteq DOMAIN t /\ DOMAIN t \subseteq DOMAIN u
  BY FollowsDomain DEF Extends
<1>3. ASSUME NEW d \in DOMAIN u \ DOMAIN s
      PROVE  u[d].kind \in kinds
  <2>1. CASE d \in DOMAIN t
    BY <1>3, <2>1 DEF Extends, Follows
  <2>2. CASE d \notin DOMAIN t
    BY <1>3, <2>2 DEF Extends
  <2> QED BY <2>1, <2>2
<1> QED BY <1>1, <1>2, <1>3 DEF Extends

\* and what adds an entry of one of the kinds extends.
LEMMA AddsExtends ==
  ASSUME NEW s, NEW m, NEW t, WellFormed(s), WellFormed(m), WellFormed(t), NEW scope, NEW entry, NEW linked,
         Counts(s, m, scope), scope \in DOMAIN s, m[scope].whileCnt = s[scope].whileCnt,
         Adds(m, t, scope, entry, linked), NEW kinds, entry.kind \in kinds
  PROVE  Extends(s, t, kinds)
<1>1. Follows(s, m) /\ Follows(m, t)
  BY CountsFollows, AddsFollows
<1>2. Follows(s, t)
  BY <1>1, FollowsOn
<1>3. DOMAIN m = DOMAIN s /\ DOMAIN s = 1 .. Len(s) /\ Len(s) \in Nat /\ DOMAIN t = 1 .. Len(s) + 1
      /\ t[Len(s) + 1] = entry
  BY WellFormedDomain DEF Counts, Adds
<1>4. \A d \in DOMAIN t \ DOMAIN s : d = Len(s) + 1
  BY <1>3
<1>5. ASSUME NEW d \in DOMAIN s
      PROVE  t[d].label = s[d].label /\ t[d].whileCnt = s[d].whileCnt
  BY <1>3 DEF Counts, Adds, SameButCounts, SameCounts
<1> QED BY <1>2, <1>3, <1>4, <1>5 DEF Extends

\* The same for insert,
LEMMA InsertExtends ==
  ASSUME NEW s, WellFormed(s), NEW scope \in DOMAIN s, NEW entry, Bare(entry), NEW kinds, entry.kind \in kinds
  PROVE  Extends(s, Insert(s, scope, entry), kinds)
<1> DEFINE t == Insert(s, scope, entry)
<1>1. WellFormed(t) /\ Adds(s, t, scope, entry, ~Duplicate(s, scope, entry)) /\ Counts(s, s, scope)
  BY Inserted DEF Counts, SameButCounts, SameCounts
<1> HIDE DEF t
<1>2. Extends(s, t, kinds)
  BY <1>1, AddsExtends
<1> QED BY <1>2 DEF t

\* for an entry in no table,
LEMMA AppendExtends ==
  ASSUME NEW s, WellFormed(s), NEW entry, Bare(entry), NEW kinds, entry.kind \in kinds
  PROVE  Extends(s, Append(s, entry), kinds)
<1> DEFINE t == Append(s, entry)
<1>1. /\ Follows(s, t) /\ Len(t) = Len(s) + 1 /\ t[Len(s) + 1] = entry /\ Len(s) \in Nat
      /\ \A d \in DOMAIN s : t[d] = s[d]
  BY AppendFollows, WellFormedDomain
<1> HIDE DEF t
<1>2. DOMAIN t = 1 .. Len(s) + 1 /\ DOMAIN s = 1 .. Len(s)
  BY <1>1, WellFormedDomain DEF Follows
<1>3. \A d \in DOMAIN t \ DOMAIN s : d = Len(s) + 1
  BY <1>1, <1>2
<1>4. Extends(s, t, kinds)
  BY <1>1, <1>3 DEF Extends
<1> QED BY <1>4 DEF t

\* for a declared variable,
LEMMA DeclaredExtends ==
  ASSUME NEW s, WellFormed(s), NEW scope \in DOMAIN s, NEW name, NEW type
  PROVE  Extends(s, DeclaredOne(s, scope, name, type), {"VARIABLE"})
<1> DEFINE m == Counted(s, scope, type)
           v == Placed(s, scope, name, type)
           t == Insert(m, scope, v)
<1>1. WellFormed(m) /\ Counts(s, m, scope) /\ m[scope].whileCnt = s[scope].whileCnt
  BY CountedIs
<1>2. Bare(v) /\ v.kind = "VARIABLE"
  BY PlacedIs
<1>3. scope \in DOMAIN m
  BY <1>1, CountsFollows, FollowsDomain
<1> HIDE DEF m, v
<1>4. WellFormed(t) /\ Adds(m, t, scope, v, ~Duplicate(m, scope, v))
  BY <1>1, <1>2, <1>3, Inserted
<1> HIDE DEF t
<1>5. Extends(s, t, {"VARIABLE"})
  BY <1>1, <1>2, <1>4, AddsExtends
<1> QED BY <1>5 DEF t, m, v, DeclaredOne

\* a parameter,
LEMMA ParameterExtends ==
  ASSUME NEW s, WellFormed(s), NEW scope \in DOMAIN s, NEW n, NEW type
  PROVE  Extends(s, Insert(ParamCounted(s, scope, type), scope, Param(s, scope, n, type)), {"VARIABLE"})
<1> DEFINE m == ParamCounted(s, scope, type)
           v == Param(s, scope, n, type)
           t == Insert(m, scope, v)
<1>1. WellFormed(m) /\ Counts(s, m, scope) /\ m[scope].whileCnt = s[scope].whileCnt
  BY ParamCountedIs
<1>2. Bare(v) /\ v.kind = "VARIABLE"
  BY ParamIs
<1>3. scope \in DOMAIN m
  BY <1>1, CountsFollows, FollowsDomain
<1> HIDE DEF m, v
<1>4. WellFormed(t) /\ Adds(m, t, scope, v, ~Duplicate(m, scope, v))
  BY <1>1, <1>2, <1>3, Inserted
<1> HIDE DEF t
<1>5. Extends(s, t, {"VARIABLE"})
  BY <1>1, <1>2, <1>4, AddsExtends
<1> QED BY <1>5 DEF t, m, v

\* a list of variables,
LEMMA VarListExtends ==
  ASSUME NEW s, WellFormed(s), NEW scope \in DOMAIN s, NEW list, NEW type, list \in Seq(ToSet(list))
  PROVE  Extends(s, VarListEntry(s, scope, list, type), {"VARIABLE"})
<1>1. PICK c : /\ c[0] = s /\ c[Len(list)] = VarListEntry(s, scope, list, type)
               /\ \A k \in 1 .. Len(list) : c[k] = DeclaredOne(c[k - 1], scope, list[k].name, type)
  <2>1. PICK c : Declares(c, s, scope, list, type)
    BY OneByOne, Zenon
  <2> QED BY <2>1, Zenon DEF Declares
<1> DEFINE T == { k \in Nat : k <= Len(list) => Extends(s, c[k], {"VARIABLE"}) }
<1>2. 0 \in T
  BY <1>1, ExtendsItself
<1>3. ASSUME NEW k \in Nat, k \in T
      PROVE  k + 1 \in T
  <2> SUFFICES ASSUME k + 1 <= Len(list)
               PROVE  Extends(s, c[k + 1], {"VARIABLE"})
    OBVIOUS
  <2>1. Extends(s, c[k], {"VARIABLE"}) /\ k + 1 \in 1 .. Len(list) /\ (k + 1) - 1 = k
    BY <1>3
  <2>2. c[k + 1] = DeclaredOne(c[k], scope, list[k + 1].name, type)
    BY <1>1, <2>1
  <2>3. scope \in DOMAIN c[k] /\ WellFormed(c[k])
    BY <2>1, FollowsDomain DEF Extends
  <2>4. Extends(c[k], c[k + 1], {"VARIABLE"})
    BY <2>2, <2>3, DeclaredExtends
  <2> QED BY <2>1, <2>4, ExtendsOn
<1>4. Len(list) \in Nat
  OBVIOUS
<1> HIDE DEF T
<1>5. Len(list) \in T
  BY <1>2, <1>3, <1>4, Induction
<1> QED BY <1>1, <1>4, <1>5 DEF T

\* and the names of a pattern.
LEMMA BoundExtends ==
  ASSUME NEW s, WellFormed(s), NEW scope \in DOMAIN s, NEW e, NEW names, names \in Seq(ToSet(names))
  PROVE  Extends(s, Bound(s, scope, e, names), {"VARIABLE"})
<1>1. PICK c : /\ c[0] = s /\ c[Len(names)] = Bound(s, scope, e, names)
               /\ \A k \in 1 .. Len(names) : c[k] = Insert(c[k - 1], scope, Typed(e, names[k], k))
  BY OneBinding
<1> DEFINE T == { k \in Nat : k <= Len(names) => Extends(s, c[k], {"VARIABLE"}) }
<1>2. 0 \in T
  BY <1>1, ExtendsItself
<1>3. ASSUME NEW k \in Nat, k \in T
      PROVE  k + 1 \in T
  <2> SUFFICES ASSUME k + 1 <= Len(names)
               PROVE  Extends(s, c[k + 1], {"VARIABLE"})
    OBVIOUS
  <2>1. Extends(s, c[k], {"VARIABLE"}) /\ k + 1 \in 1 .. Len(names) /\ (k + 1) - 1 = k
    BY <1>3
  <2> DEFINE v == Typed(e, names[k + 1], k + 1)
  <2>2. c[k + 1] = Insert(c[k], scope, v)
    BY <1>1, <2>1
  <2>3. scope \in DOMAIN c[k] /\ WellFormed(c[k])
    BY <2>1, FollowsDomain DEF Extends
  <2>4. Bare(v) /\ v.kind = "VARIABLE"
    BY BareVariables DEF Typed
  <2> HIDE DEF v
  <2>5. Extends(c[k], c[k + 1], {"VARIABLE"})
    BY <2>2, <2>3, <2>4, InsertExtends
  <2> QED BY <2>1, <2>5, ExtendsOn
<1>4. Len(names) \in Nat
  OBVIOUS
<1> HIDE DEF T
<1>5. Len(names) \in T
  BY <1>2, <1>3, <1>4, Induction
<1> QED BY <1>1, <1>4, <1>5 DEF T

\* Without a new loop the labels are good as long as they were.
LEMMA LabelsStay ==
  ASSUME NEW s, NEW t, WellFormed(s), NEW kinds, "WHILE_BLOCK" \notin kinds, Extends(s, t, kinds), Labelled(s)
  PROVE  Labelled(t)
<1>1. LoopsIn(t) = LoopsIn(s) /\ \A v \in LoopsIn(s) : v \in DOMAIN s
  BY FollowsDomain DEF LoopsIn, Extends, Follows
<1>2. \A v \in DOMAIN s : OwnerIn(t, v) = OwnerIn(s, v) /\ v \in DOMAIN t
  BY OwnerStays, FollowsDomain DEF Extends
<1>3. \A d \in DOMAIN s : t[d].label = s[d].label /\ t[d].whileCnt = s[d].whileCnt /\ t[d].kind = s[d].kind
  BY DEF Extends, Follows
<1>4. DistinctLabels(t)
  BY <1>1, <1>2, <1>3 DEF DistinctLabels, Labelled
<1>5. ASSUME NEW w \in LoopsIn(s), NEW p \in DOMAIN s, NumberedBy(s, w, p)
      PROVE  NumberedBy(t, w, p)
  <2>1. Base(t[p]) = Base(s[p])
    BY <1>3 DEF Base
  <2> QED BY <1>1, <1>2, <1>3, <1>5, <2>1 DEF NumberedBy
<1>6. Numbered(t)
  BY <1>1, <1>2, <1>5 DEF Numbered, Labelled
<1> QED BY <1>4, <1>6 DEF Labelled

\* The blocks on a stack have the last owner.
StackOwned(s, st) ==
  \A k \in DOMAIN st : k # 1 /\ s[st[k]].kind # "EVENT" => OwnerIn(s, st[k]) = OwnerIn(s, Len(s))

\* New variables change no scope's owner.
LEMMA OwnedStays ==
  ASSUME NEW s, NEW t, WellFormed(s), NEW st \in Seq(DOMAIN s), Follows(s, t),
         \A d \in DOMAIN t \ DOMAIN s : t[d].kind \notin Owners, StackOwned(s, st)
  PROVE  StackOwned(t, st)
<1>1. Len(t) \in DOMAIN t /\ Len(t) >= Len(s)
  BY WellFormedDomain DEF Follows, WellFormed
<1>2. OwnerIn(t, Len(t)) = OwnerIn(s, Len(s))
  BY <1>1, OwnerPasses
<1>3. ASSUME NEW k \in DOMAIN st
      PROVE  t[st[k]].kind = s[st[k]].kind /\ OwnerIn(t, st[k]) = OwnerIn(s, st[k])
  <2>1. st[k] \in DOMAIN s
    OBVIOUS
  <2> QED BY <2>1, OwnerStays DEF Follows
<1> QED BY <1>2, <1>3 DEF StackOwned

\* Of a stack that is left.
LEMMA OwnedPart ==
  ASSUME NEW s, NEW st, NEW st2, StackOwned(s, st), DOMAIN st2 \subseteq DOMAIN st,
         \A k \in DOMAIN st2 : st2[k] = st[k]
  PROVE  StackOwned(s, st2)
BY DEF StackOwned

\* Of a block that is entered at the outermost level.
LEMMA OwnedEntered ==
  ASSUME NEW t, WellFormed(t), NEW st \in Seq(Nat), Len(st) = 1
  PROVE  StackOwned(t, Append(st, Len(t)))
<1> DEFINE n == Len(t)
<1>1. n \in Nat
  BY WellFormedDomain
<1> HIDE DEF n
<1>4. /\ Append(st, n) \in Seq(Nat) /\ Len(Append(st, n)) = Len(st) + 1
      /\ Append(st, n)[Len(st) + 1] = n
  BY <1>1, AppendProperties
<1>5. Len(st) + 1 = 2
  OBVIOUS
<1>2. Append(st, n) \in Seq(Nat) /\ Len(Append(st, n)) = 2 /\ Append(st, n)[2] = n
  BY <1>4, <1>5
<1>3. \A k \in DOMAIN Append(st, n) : k # 1 => k = 2
  BY <1>2
<1> QED BY <1>2, <1>3 DEF StackOwned, n

\* The label of a loop, without its last number, is a sequence of numbers too.
LEMMA BaseIs ==
  ASSUME NEW s, WellFormed(s), NEW p \in DOMAIN s
  PROVE  Base(s[p]) \in Seq(Nat) /\ s[p].whileCnt \in Nat /\ s[p].label \in Seq(Nat)
<1>1. s[p].label \in Seq(Nat) /\ <<>> \in Seq(Nat) /\ s[p].whileCnt \in Nat
  BY WellFormedDomain DEF IsEntry
<1> QED BY <1>1 DEF Base

\* A sequence of numbers and the one it becomes when a number is added.
LEMMA AppendIs ==
  ASSUME NEW a \in Seq(Nat), NEW i \in Nat
  PROVE  /\ Len(Append(a, i)) = Len(a) + 1 /\ Append(a, i)[Len(a) + 1] = i
         /\ \A k \in 1 .. Len(a) : Append(a, i)[k] = a[k]
<1> QED BY AppendProperties, SMTT(60)

\* Two labels are one only if all their numbers are.
LEMMA AppendSame ==
  ASSUME NEW a \in Seq(Nat), NEW b \in Seq(Nat), NEW i \in Nat, NEW j \in Nat, Append(a, i) = Append(b, j)
  PROVE  a = b /\ i = j
<1> DEFINE c == Append(a, i)
           d == Append(b, j)
<1>a. Len(a) \in Nat /\ Len(b) \in Nat /\ c = d
  OBVIOUS
<1>b. Len(c) = Len(a) + 1 /\ c[Len(a) + 1] = i /\ \A k \in 1 .. Len(a) : c[k] = a[k]
  BY AppendIs DEF c
<1>c. Len(d) = Len(b) + 1 /\ d[Len(b) + 1] = j /\ \A k \in 1 .. Len(b) : d[k] = b[k]
  BY AppendIs DEF d
<1> HIDE DEF c, d
<1>2. Len(a) = Len(b) /\ i = j
  BY <1>a, <1>b, <1>c
<1>3. \A k \in 1 .. Len(a) : a[k] = b[k]
  BY <1>a, <1>b, <1>c, <1>2
<1>4. a = [k \in 1 .. Len(a) |-> a[k]] /\ b = [k \in 1 .. Len(b) |-> b[k]]
  OBVIOUS
<1> QED BY <1>2, <1>3, <1>4

\* The next number of a block gives a label no loop of its owner has.
LEMMA NextIsNew ==
  ASSUME NEW s, WellFormed(s), Labelled(s), NEW p \in DOMAIN s, s[p].kind \in Owners \cup {"WHILE_BLOCK"},
         NEW v \in LoopsIn(s), OwnerIn(s, v) = OwnerIn(s, p)
  PROVE  s[v].label # Append(Base(s[p]), s[p].whileCnt + 1)
<1> SUFFICES ASSUME s[v].label = Append(Base(s[p]), s[p].whileCnt + 1)
             PROVE  FALSE
  OBVIOUS
<1>1. PICK q \in DOMAIN s : NumberedBy(s, v, q)
  BY DEF Labelled, Numbered
<1>2. PICK n \in 1 .. s[q].whileCnt : s[v].label = Append(Base(s[q]), n)
  BY <1>1 DEF NumberedBy
<1>3. /\ Base(s[p]) \in Seq(Nat) /\ s[p].whileCnt \in Nat
      /\ Base(s[q]) \in Seq(Nat) /\ s[q].whileCnt \in Nat
  BY BaseIs
<1>4. n \in Nat /\ s[p].whileCnt + 1 \in Nat
  BY <1>3
<1>5. Base(s[q]) = Base(s[p]) /\ n = s[p].whileCnt + 1
  <2> DEFINE a == Base(s[q])
             b == Base(s[p])
             j == s[p].whileCnt + 1
  <2>1. a \in Seq(Nat) /\ b \in Seq(Nat) /\ j \in Nat /\ Append(a, n) = Append(b, j)
    BY <1>2, <1>3, <1>4
  <2> HIDE DEF a, b, j
  <2>2. a = b /\ n = j
    BY <1>4, <2>1, AppendSame
  <2> QED BY <2>2 DEF a, b, j
<1>6. q # p
  BY <1>3, <1>5
<1>7. OwnerIn(s, q) = OwnerIn(s, p) /\ s[q].kind \in Owners \cup {"WHILE_BLOCK"}
  BY <1>1 DEF NumberedBy
<1>8. ASSUME NEW w \in LoopsIn(s)
      PROVE  s[w].label # <<>>
  <2>1. PICK u \in DOMAIN s : NumberedBy(s, w, u)
    BY DEF Labelled, Numbered
  <2>2. PICK k \in 1 .. s[u].whileCnt : s[w].label = Append(Base(s[u]), k)
    BY <2>1 DEF NumberedBy
  <2>3. Base(s[u]) \in Seq(Nat) /\ k \in Nat
    BY BaseIs
  <2>4. DOMAIN Append(Base(s[u]), k) = 1 .. Len(Base(s[u])) + 1 /\ Len(Base(s[u])) \in Nat
    BY <2>3, AppendProperties
  <2> QED BY <2>2, <2>4
<1>9. CASE s[p].kind = "WHILE_BLOCK" /\ s[q].kind = "WHILE_BLOCK"
  BY <1>5, <1>6, <1>7, <1>9 DEF Labelled, DistinctLabels, LoopsIn, Base
<1>10. CASE s[p].kind = "WHILE_BLOCK" /\ s[q].kind # "WHILE_BLOCK"
  BY <1>5, <1>8, <1>10 DEF LoopsIn, Base
<1>11. CASE s[p].kind # "WHILE_BLOCK" /\ s[q].kind = "WHILE_BLOCK"
  BY <1>5, <1>8, <1>11 DEF LoopsIn, Base
<1>12. CASE s[p].kind # "WHILE_BLOCK" /\ s[q].kind # "WHILE_BLOCK"
  BY <1>6, <1>7, <1>12, OwnsItself
<1> QED BY <1>9, <1>10, <1>11, <1>12

\* A loop is entered in block p.
NextLabelIn(s, p) == Append(Base(s[p]), s[p].whileCnt + 1)
EnteredLoop(s, p) == Insert(WhileCounted(s, p), p, WhileBlock(NextLabelIn(s, p)))

\* Of the last owner.
LEMMA LabelsGrow ==
  ASSUME NEW s, WellFormed(s), Labelled(s), NEW p \in DOMAIN s, s[p].kind \in Owners \cup {"WHILE_BLOCK"},
         OwnerIn(s, p) = OwnerIn(s, Len(s)),
         NEW t, t = EnteredLoop(s, p)
  PROVE  /\ Labelled(t) /\ Follows(s, t) /\ Len(t) = Len(s) + 1
         /\ \A d \in DOMAIN t \ DOMAIN s : t[d].kind \notin Owners
<1> DEFINE m == WhileCounted(s, p)
           label == NextLabelIn(s, p)
           w == WhileBlock(label)
           new == Len(s) + 1
<1>1. /\ WellFormed(m) /\ Counts(s, m, p) /\ m[p].whileCnt = s[p].whileCnt + 1
  BY WhileCountedIs
<1>2. label \in Seq(Nat)
  <2>1. Base(s[p]) \in Seq(Nat) /\ s[p].whileCnt + 1 \in Nat
    BY BaseIs
  <2> HIDE DEF m
  <2> QED BY <2>1, AppendProperties DEF NextLabelIn
<1>3. Bare(w) /\ w.kind = "WHILE_BLOCK" /\ w.label = label
  BY <1>2, BareLoops
<1>4. p \in DOMAIN m /\ Follows(s, m)
  BY <1>1, CountsFollows, FollowsDomain
<1>5. t = Insert(m, p, w)
  BY DEF EnteredLoop
<1>18. label = Append(Base(s[p]), s[p].whileCnt + 1)
  BY DEF NextLabelIn
<1> HIDE DEF m, w, label
<1>6. WellFormed(t) /\ Adds(m, t, p, w, ~Duplicate(m, p, w))
  BY <1>1, <1>3, <1>4, <1>5, Inserted
<1>7. Follows(s, t)
  BY <1>1, <1>4, <1>6, AddsFollows, FollowsOn
<1>8. /\ DOMAIN s = 1 .. Len(s) /\ Len(s) \in Nat /\ DOMAIN t = 1 .. new /\ t[new] = w /\ DOMAIN m = DOMAIN s
      /\ Len(t) = new
  BY <1>1, <1>6, WellFormedDomain DEF Counts, Adds
<1>9. ASSUME NEW d \in DOMAIN s
      PROVE  /\ t[d].kind = s[d].kind /\ t[d].label = s[d].label /\ d \in DOMAIN t
             /\ t[d].whileCnt = IF d = p THEN s[d].whileCnt + 1 ELSE s[d].whileCnt
             /\ OwnerIn(t, d) = OwnerIn(s, d)
  BY <1>1, <1>6, <1>7, <1>8, OwnerStays DEF Counts, Adds, SameButCounts, SameCounts
<1> HIDE DEF new
<1>10. new \in DOMAIN t /\ new >= Len(s) /\ \A d \in DOMAIN t : d \in DOMAIN s \/ d = new
  BY <1>8 DEF new
<1>11. \A d \in DOMAIN t \ DOMAIN s : t[d].kind \notin Owners
  BY <1>3, <1>8, <1>10 DEF Owners
<1>12. OwnerIn(t, new) = OwnerIn(s, p)
  BY <1>7, <1>10, <1>11, OwnerPasses
<1>13. \A v \in LoopsIn(t) : v \in LoopsIn(s) \/ v = new
  BY <1>9, <1>10 DEF LoopsIn
<1>14. \A v \in LoopsIn(s) : v \in DOMAIN s
  BY DEF LoopsIn
<1>15. ASSUME NEW v \in LoopsIn(s), OwnerIn(t, v) = OwnerIn(t, new)
       PROVE  t[v].label # t[new].label
  <2>1. OwnerIn(s, v) = OwnerIn(s, p) /\ t[v].label = s[v].label
    BY <1>9, <1>12, <1>14, <1>15
  <2> QED BY <1>3, <1>8, <1>18, <2>1, NextIsNew
<1>16. DistinctLabels(t)
  <2> SUFFICES ASSUME NEW v \in LoopsIn(t), NEW x \in LoopsIn(t), v # x, OwnerIn(t, v) = OwnerIn(t, x)
               PROVE  t[v].label # t[x].label
    BY DEF DistinctLabels
  <2>1. CASE v = new
    BY <1>13, <1>15, <2>1
  <2>2. CASE x = new
    BY <1>13, <1>15, <2>2
  <2>3. CASE v # new /\ x # new
    BY <1>9, <1>13, <1>14, <2>3 DEF Labelled, DistinctLabels
  <2> QED BY <2>1, <2>2, <2>3
<1>17. ASSUME NEW v \in LoopsIn(t)
       PROVE  \E q \in DOMAIN t : NumberedBy(t, v, q)
  <2>1. CASE v = new
    <3>1. s[p].whileCnt + 1 \in 1 .. t[p].whileCnt
      <4>1. s[p].whileCnt \in Nat
        BY BaseIs
      <4> QED BY <1>9, <4>1
    <3>2. t[new].label = Append(Base(t[p]), s[p].whileCnt + 1)
      BY <1>3, <1>8, <1>9, <1>18 DEF Base
    <3>3. p < new
      BY <1>8 DEF new
    <3>4. NumberedBy(t, new, p)
      BY <1>9, <1>12, <3>1, <3>2, <3>3 DEF NumberedBy
    <3> QED BY <1>9, <2>1, <3>4
  <2>2. CASE v # new
    <3>1. v \in LoopsIn(s)
      BY <1>13, <2>2
    <3>2. PICK q \in DOMAIN s : NumberedBy(s, v, q)
      BY <3>1 DEF Labelled, Numbered
    <3>3. PICK n \in 1 .. s[q].whileCnt : s[v].label = Append(Base(s[q]), n)
      BY <3>2 DEF NumberedBy
    <3>4. n \in 1 .. t[q].whileCnt
      <4>1. s[q].whileCnt \in Nat
        BY BaseIs
      <4> QED BY <1>9, <4>1
    <3>5. t[v].label = Append(Base(t[q]), n)
      BY <1>9, <1>14, <3>1, <3>3 DEF Base
    <3>6. NumberedBy(t, v, q)
      BY <1>9, <1>14, <3>1, <3>2, <3>4, <3>5 DEF NumberedBy
    <3> QED BY <1>9, <3>6
  <2> QED BY <2>1, <2>2
<1> QED BY <1>7, <1>8, <1>11, <1>16, <1>17 DEF Labelled, Numbered, new

\* Errors are only counted.
LEMMA ErrorsGrow ==
  ASSUME ShapeInv, Next, errors' = 0
  PROVE  errors = 0
<1>1. Ranges /\ errors \in Nat /\ MAX_ERROR_BEFORE_QUIT \in Nat
  BY ScopesAssumption DEF ShapeInv, Ranges
<1>2. ASSUME NEW n \in Nat, errors' = Counting(n)
      PROVE  errors = 0
  BY <1>1, <1>2 DEF Counting
<1>3. ASSUME NEW n \in Nat, ErrMsg(n)
      PROVE  errors = 0
  BY <1>2, <1>3 DEF ErrMsg
<1>4. ASSUME NEW dup \in BOOLEAN, Complain(dup)
      PROVE  errors = 0
  BY <1>3, <1>4, ComplainIs
<1>5. CASE errors' = errors \/ errors' = errors + 1
  BY <1>1, <1>5
<1>6. CASE Recovered
  BY <1>3, <1>6 DEF Recovered
<1>7. ASSUME NEW entry, InsertAndEnter(entry)
      PROVE  errors = 0
  BY <1>2, <1>4, <1>7, DuplicateIs DEF InsertAndEnter
<1>8. ASSUME NEW list \in VarLists, NEW type \in VarTypes, VarDec(list, type)
      PROVE  errors = 0
  <2>1. list \in Seq(ToSet(list))
    BY ScopesAssumption
  <2> QED BY <1>3, <1>8, <2>1, RepeatedIs DEF VarDec
<1>9. ASSUME NEW n \in Names, ClassDec(n) \/ EventDeclHdr(n) \/ FuncDeclHdr(n)
      PROVE  errors = 0
  BY <1>4, <1>7, <1>9, DuplicateIs DEF ClassDec, EventDeclHdr, FuncDeclHdr
<1>10. ASSUME NEW n \in Names, NEW type \in VarTypes, FormalParam(n, type)
       PROVE  errors = 0
  BY <1>3, <1>10, FormalParamIs
<1>11. CASE AnyEvent \/ EndFunction
  BY <1>5, <1>11 DEF AnyEvent, EndFunction
<1>12. CASE WhileHdr
  BY <1>5, <1>12 DEF WhileHdr
<1>13. ASSUME NEW n \in Names, NEW names \in PatternArgs, NormalEvent(n, names)
       PROVE  errors = 0
  <2>1. \E k : ErrMsg(k) /\ k \in Nat
    <3> DEFINE e == LookUp(n)
               known == e # 0 /\ ste[e].kind = "EVENT"
               given == IF known THEN Given(e, names) ELSE <<>>
               list == [i \in DOMAIN given |-> [name |-> given[i]]]
    <3>1. ErrMsg(Repeated(RuleTable, RuleScope, list))
      BY <1>13 DEF NormalEvent
    <3>2. given \in Seq(Names)
      <4>1. /\ DOMAIN ste = 1 .. Len(ste) /\ Len(ste) \in Nat /\ WellFormed(ste)
            /\ \A d \in DOMAIN ste : ste[d].syms \in Seq(1 .. Len(ste))
        BY WellFormedDomain DEF ShapeInv, Shape, IsEntry
      <4>2. e \in 0 .. Len(ste)
        BY <4>1, LookUpIn DEF LookUp, ShapeInv, Shape, StackOK
      <4> HIDE DEF e
      <4>3. known => ste[e].syms \in Seq(Nat)
        <5>1. known => e \in DOMAIN ste
          BY <4>1, <4>2
        <5>2. 1 .. Len(ste) \subseteq Nat
          BY <4>1
        <5> QED BY <4>1, <5>1, <5>2
      <4>4. names \in Seq(Names) /\ <<>> \in Seq(Names)
        BY ScopesAssumption
      <4>5. known => Given(e, names) \in Seq(Names)
        BY <4>3, <4>4, GivenIs
      <4> QED BY <4>4, <4>5
    <3> HIDE DEF given
    <3>3. DOMAIN given = 1 .. Len(given) /\ Len(given) \in Nat
      BY <3>2
    <3>4. list \in [1 .. Len(given) -> ToSet(list)]
      BY <3>3 DEF ToSet
    <3> HIDE DEF list
    <3>5. list \in Seq(ToSet(list))
      BY <3>3, <3>4, FunctionIsSeq
    <3> QED BY <3>1, <3>5, RepeatedIs
  <2> QED BY <1>3, <2>1
<1>14. CASE Keeping
  <2>1. \/ Recovered \/ errors' = errors \/ errors' = errors + 1
        \/ \E n \in 1 .. 2 : errors' = Counting(n)
    BY <1>14 DEF Keeping, EndEvent, EndPrototype, BeginBody, BreakStmt, RetStmt, WhileBody, WhileStmt, RuleHdr,
       EndRule, Finish, Errors, RefExpr, FuncInvoc, DeclarationError, EventNameError, StatementError,
       ConditionError, HeaderError, RuleError, NullName, NullDeclarator, Aborted, EndOfFile
  <2> QED BY <1>2, <1>5, <1>6, <2>1
<1> QED BY <1>8, <1>9, <1>10, <1>11, <1>12, <1>13, <1>14, Steps

\* Scopes are left, if any, from the top.
LEMMA KeptStack ==
  ASSUME ShapeInv, ended = "no", Keeping \/ EndFunction, ended' = "no", Follows(ste, ste')
  PROVE  DOMAIN stack' \subseteq DOMAIN stack /\ \A k \in DOMAIN stack' : stack'[k] = stack[k]
<1>1. stack' = stack \/ LeaveScope
  BY DEF Keeping, EndFunction, EndEvent, EndPrototype, BeginBody, BreakStmt, RetStmt, WhileBody, WhileStmt,
         RuleHdr, EndRule, Finish, Errors, RefExpr, FuncInvoc, DeclarationError, EventNameError,
         StatementError, ConditionError, HeaderError, RuleError, NullName, NullDeclarator, Aborted, EndOfFile
<1>2. CASE LeaveScope
  BY <1>2, PoppedStack DEF ShapeInv
<1> QED BY <1>1, <1>2

\* Every step keeps the labels different, and each loop in its owner.
LEMMA NextLabels ==
  ASSUME ShapeInv, LabelInv, [Next]_vars
  PROVE  LabelInv'
<1>1. CASE UNCHANGED vars
  BY <1>1 DEF vars, LabelInv, OwnersMatch
<1>2. CASE Next /\ errors' # 0
  BY <1>2 DEF LabelInv, OwnersMatch
<1>3. CASE Next /\ errors' = 0
  <2>1. errors = 0 /\ ended = "no" /\ ~wild
    BY <1>3, Steps, ErrorsGrow
  <2>2. /\ Labelled(ste) /\ StackOwned(ste, stack)
    BY <2>1 DEF LabelInv, OwnersMatch, StackOwned
  <2>3. /\ Shape /\ WellFormed(ste) /\ CurrentScope \in DOMAIN ste /\ stack \in Seq(DOMAIN ste)
        /\ Len(stack) \in Nat /\ CurrentScope = stack[Len(stack)] /\ 1 <= Len(stack)
        /\ DOMAIN stack = 1 .. Len(stack) /\ Len(ste) \in Nat /\ DOMAIN ste = 1 .. Len(ste)
    BY <2>1, ShapeFacts DEF ShapeInv, Shape, StackOK
  <2>4. /\ Len(stack) = Len(parse)
        /\ Len(parse) > 1 => CurrentKind = ScopeKind[Top]
        /\ Len(parse) = 1 => CurrentScope = 1 /\ CurrentKind = "GLOBAL"
    BY <2>1, <2>3, CurrentIs
  <2>5. SUFFICES Labelled(ste') /\ (ended' = "no" => StackOwned(ste', stack'))
    BY DEF LabelInv, OwnersMatch, StackOwned
  <2>6. ASSUME NEW kinds, kinds \cap Owners = {}, "WHILE_BLOCK" \notin kinds, Extends(ste, ste', kinds),
               ended' = "no" => /\ DOMAIN stack' \subseteq DOMAIN stack
                                /\ \A k \in DOMAIN stack' : stack'[k] = stack[k]
        PROVE  Labelled(ste') /\ (ended' = "no" => StackOwned(ste', stack'))
    <3>1. Labelled(ste')
      BY <2>2, <2>3, <2>6, LabelsStay
    <3>2. StackOwned(ste', stack)
      <4>1. Follows(ste, ste') /\ \A d \in DOMAIN ste' \ DOMAIN ste : ste'[d].kind \notin Owners
        BY <2>6 DEF Extends
      <4> QED BY <2>2, <2>3, <4>1, OwnedStays
    <3> QED BY <2>6, <3>1, <3>2, OwnedPart
  <2>7. CASE Keeping \/ EndFunction
    <3>1. Extends(ste, ste', {})
      <4>1. CASE Keeping
        BY <2>3, <4>1, Kept, ExtendsItself
      <4>2. CASE EndFunction
        <5>1. /\ WellFormed(ste') /\ Len(ste') = Len(ste)
              /\ \A d \in DOMAIN ste : /\ SameButCounts(ste'[d], ste[d]) /\ SameCounts(ste'[d], ste[d])
                                       /\ ste'[d].syms = ste[d].syms
          BY <2>3, <4>2, EndFunctionTables
        <5>2. DOMAIN ste' = DOMAIN ste
          BY <2>3, <5>1, WellFormedDomain
        <5> QED BY <2>3, <5>1, <5>2 DEF Extends, Follows, SameButCounts, SameCounts
      <4> QED BY <2>7, <4>1, <4>2
    <3>2. Follows(ste, ste')
      BY <3>1 DEF Extends
    <3> QED BY <2>1, <2>6, <2>7, <3>1, <3>2, KeptStack
  <2>8. ASSUME NEW list \in VarLists, NEW type \in VarTypes, VarDec(list, type)
        PROVE  Labelled(ste') /\ (ended' = "no" => StackOwned(ste', stack'))
    <3>1. ste' = VarListEntry(ste, CurrentScope, list, type) /\ list \in Seq(ToSet(list)) /\ stack' = stack
      BY <2>8, ScopesAssumption DEF VarDec
    <3>2. Extends(ste, ste', {"VARIABLE"})
      BY <2>3, <3>1, VarListExtends
    <3> QED BY <2>6, <3>1, <3>2 DEF Owners
  <2>9. ASSUME NEW n \in Names, NEW type \in VarTypes, FormalParam(n, type)
        PROVE  Labelled(ste') /\ (ended' = "no" => StackOwned(ste', stack'))
    <3>1. Extends(ste, ste', {"VARIABLE"}) /\ stack' = stack
      BY <2>3, <2>9, FormalParamIs, ParameterExtends
    <3> QED BY <2>6, <3>1 DEF Owners
  <2>10. ASSUME NEW n \in Names, ClassDec(n) \/ EventDeclHdr(n) \/ FuncDeclHdr(n)
         PROVE  Labelled(ste') /\ (ended' = "no" => StackOwned(ste', stack'))
    <3>1. CASE ClassDec(n)
      <4> DEFINE x == Entry("CLASS", n)
      <4>1. Bare(x) /\ x.kind = "CLASS" /\ ste' = Insert(ste, CurrentScope, x) /\ stack' = stack
        BY <3>1, BareEntries DEF ClassDec
      <4> HIDE DEF x
      <4>2. Extends(ste, ste', {"CLASS"})
        BY <2>3, <4>1, InsertExtends
      <4> QED BY <2>6, <4>1, <4>2 DEF Owners
    <3>2. CASE EventDeclHdr(n) \/ FuncDeclHdr(n)
      <4>1. PICK kind \in {"EVENT", "FUNCTION"} : InsertAndEnter(Entry(kind, n)) /\ Top = "decls"
        BY <3>2 DEF EventDeclHdr, FuncDeclHdr
      <4> DEFINE x == Entry(kind, n)
      <4>2. Bare(x) /\ x.kind = kind /\ InsertAndEnter(x)
        BY <4>1, BareEntries
      <4> HIDE DEF x
      <4>3. WellFormed(ste') /\ Adds(ste, ste', CurrentScope, x, ~Duplicate(ste, CurrentScope, x))
            /\ Extends(ste, ste', {kind})
        BY <2>3, <4>2, Inserted, InsertExtends DEF InsertAndEnter
      <4>4. Labelled(ste')
        BY <2>2, <2>3, <4>3, LabelsStay
      <4>5. Len(ste') = Len(ste) + 1
        BY <4>3 DEF Adds
      <4>6. CASE TooDeep
        BY <4>2, <4>4, <4>6 DEF InsertAndEnter
      <4>7. CASE ~TooDeep
        <5>1. stack' = Append(stack, Len(ste'))
          BY <4>2, <4>5, <4>7 DEF InsertAndEnter, EnterScope
        <5>2. Len(stack) = 1 /\ stack \in Seq(Nat)
          <6>1. Len(parse) = 1
            BY <2>1, <2>3, <4>1, ShapeFacts
          <6>2. DOMAIN ste \subseteq Nat
            BY <2>3
          <6> QED BY <2>3, <2>4, <6>1, <6>2
        <5> QED BY <4>3, <4>4, <5>1, <5>2, OwnedEntered
      <4> QED BY <4>6, <4>7
    <3> QED BY <2>10, <3>1, <3>2
  <2>11. CASE WhileHdr
    <3>1. /\ Top \in Statements
          /\ ste' = Insert(WhileCounted(ste, CurrentScope), CurrentScope, WhileBlock(NewLabel))
          /\ IF TooDeep THEN ended' = "exit" ELSE stack' = Append(stack, Len(ste) + 1)
      BY <2>11 DEF WhileHdr, WhileCounted, EnterScope
    <3>2. Len(parse) > 1
      BY <2>1, <2>3, <3>1, ShapeFacts DEF Statements, Inner, Deeper
    <3>3. CurrentKind \in Owners \cup {"WHILE_BLOCK"}
      BY <2>4, <3>1, <3>2, ScopeKinds DEF Statements, Owners
    <3>4. OwnerIn(ste, CurrentScope) = OwnerIn(ste, Len(ste))
      <4>1. Len(stack) \in DOMAIN stack /\ Len(stack) # 1
        BY <2>3, <2>4, <3>2
      <4> QED BY <2>2, <2>3, <3>3, <4>1 DEF StackOwned, CurrentKind, Owners
    <3>5. NewLabel = Append(Base(ste[CurrentScope]), ste[CurrentScope].whileCnt + 1)
      BY DEF NewLabel, Base, CurrentKind
    <3>6. /\ Labelled(ste') /\ Follows(ste, ste') /\ Len(ste') = Len(ste) + 1
          /\ \A d \in DOMAIN ste' \ DOMAIN ste : ste'[d].kind \notin Owners
      <4> DEFINE p == CurrentScope
      <4>1. p \in DOMAIN ste /\ ste[p].kind \in Owners \cup {"WHILE_BLOCK"}
        BY <2>3, <3>3 DEF CurrentKind
      <4>2. OwnerIn(ste, p) = OwnerIn(ste, Len(ste)) /\ ste' = EnteredLoop(ste, p)
        BY <3>1, <3>4, <3>5 DEF EnteredLoop, NextLabelIn
      <4> HIDE DEF p
      <4> QED BY <2>2, <2>3, <4>1, <4>2, LabelsGrow
    <3>7. CASE ~TooDeep
      <4> DEFINE new == Len(ste)+ 1
      <4>1. stack' = Append(stack, new)
        BY <3>1, <3>7
      <4>2. StackOwned(ste', stack)
        BY <2>2, <2>3, <3>6, OwnedStays
      <4>3. new \in Nat /\ stack \in Seq(Nat)
        <5>1. DOMAIN ste \subseteq Nat
          BY <2>3
        <5> QED BY <2>3, <5>1
      <4>4. Len(ste') = new
        BY <3>6
      <4> HIDE DEF new
      <4>5. /\ DOMAIN stack' = 1 .. Len(stack) + 1 /\ stack'[Len(stack) + 1] = new
            /\ \A k \in 1 .. Len(stack) : stack'[k] = stack[k]
        BY <4>1, <4>3, AppendProperties
      <4>6. \A k \in 1 .. Len(stack) + 1 : k \in DOMAIN stack \/ k = Len(stack) + 1
        BY <2>3
      <4>7. StackOwned(ste', stack')
        <5> SUFFICES ASSUME NEW k \in DOMAIN stack', k # 1, ste'[stack'[k]].kind # "EVENT"
                     PROVE  OwnerIn(ste', stack'[k]) = OwnerIn(ste', Len(ste'))
          BY DEF StackOwned
        <5>1. CASE k \in DOMAIN stack
          <6>1. stack'[k] = stack[k]
            BY <2>3, <4>5, <5>1
          <6> QED BY <6>1, <4>2, <5>1 DEF StackOwned
        <5>2. CASE k = Len(stack) + 1
          BY <5>2, <4>4, <4>5
        <5> QED BY <4>5, <4>6, <5>1, <5>2
      <4> QED BY <3>6, <4>7
    <3> QED BY <3>1, <3>6, <3>7
  <2>12. ASSUME EnterRule, PatternPlace, Extends(RuleTable, ste', {"VARIABLE"})
         PROVE  Labelled(ste') /\ (ended' = "no" => StackOwned(ste', stack'))
    <3>1. CASE InRule
      <4>1. stack' = stack /\ RuleTable = ste
        BY <2>12, <3>1 DEF EnterRule, RuleTable
      <4> QED BY <2>6, <2>12, <4>1 DEF Owners
    <3>2. CASE ~InRule
      <4> DEFINE x == Entry("RULE_BLOCK", NoName)
                 t == RuleTable
      <4>1. Bare(x) /\ x.kind = "RULE_BLOCK" /\ t = Append(ste, x) /\ RuleScope = Len(ste) + 1
        BY <2>3, <3>2, BareEntries, RuleTableIs
      <4> HIDE DEF x
      <4>2. Extends(ste, t, {"RULE_BLOCK"}) /\ Len(t) = Len(ste) + 1
        BY <2>3, <4>1, AppendExtends, AppendFollows
      <4> HIDE DEF t
      <4>3. WellFormed(t)
        BY <4>2 DEF Extends, Follows
      <4>4. Labelled(t)
        BY <2>2, <2>3, <4>2, LabelsStay
      <4>5. Labelled(ste')
        BY <2>12, <4>3, <4>4, LabelsStay DEF t
      <4>6. stack' = Append(stack, Len(t))
        BY <2>12, <3>2, <4>1, <4>2 DEF EnterRule
      <4>7. Len(stack) = 1 /\ stack \in Seq(Nat)
        <5>1. Len(parse) = 1
          <6>1. Top = "pattern" => Len(parse) = 2
            BY <2>1, <2>3, ShapeFacts DEF Inner
          <6>2. Top # "pattern"
            BY <2>4, <3>2, <6>1, ScopeKinds DEF InRule
          <6> QED BY <2>1, <2>3, <2>12, <6>2, ShapeFacts DEF PatternPlace
        <5>2. DOMAIN ste \subseteq Nat
          BY <2>3
        <5> QED BY <2>3, <2>4, <5>1, <5>2
      <4>8. StackOwned(t, stack')
        BY <4>3, <4>6, <4>7, OwnedEntered
      <4>9. stack' \in Seq(DOMAIN t)
        <5>1. Len(t) \in DOMAIN t /\ DOMAIN ste \subseteq DOMAIN t
          BY <2>3, <4>2, <4>3, WellFormedDomain, FollowsDomain DEF Extends
        <5>2. stack \in Seq(DOMAIN t)
          BY <2>3, <5>1
        <5> QED BY <4>6, <5>1, <5>2, AppendProperties
      <4>10. Follows(t, ste') /\ \A d \in DOMAIN ste' \ DOMAIN t : ste'[d].kind \notin Owners
        BY <2>12 DEF Extends, t, Owners
      <4> QED BY <4>3, <4>5, <4>8, <4>9, <4>10, OwnedStays
    <3> QED BY <3>1, <3>2
  <2>13. WellFormed(RuleTable) /\ RuleScope \in DOMAIN RuleTable
    BY <2>3, RuleTableIs DEF Follows
  <2>14. CASE AnyEvent
    <3>1. EnterRule /\ PatternPlace /\ ste' = RuleTable
      BY <2>14 DEF AnyEvent
    <3> QED BY <2>12, <2>13, <3>1, ExtendsItself
  <2>15. ASSUME NEW n \in Names, NEW names \in PatternArgs, NormalEvent(n, names)
         PROVE  Labelled(ste') /\ (ended' = "no" => StackOwned(ste', stack'))
    <3>1. PICK e \in 0 .. Len(ste) : \E given :
            /\ given \in Seq(ToSet(given)) /\ given \in Seq(Names)
            /\ ste' = Bound(RuleTable, RuleScope, e, given)
      BY <2>1, <2>15, NormalEventTables
    <3>2. EnterRule /\ PatternPlace
      BY <2>15 DEF NormalEvent
    <3> QED BY <2>12, <2>13, <3>1, <3>2, BoundExtends
  <2> QED BY <1>3, <2>7, <2>8, <2>9, <2>10, <2>11, <2>14, <2>15, Steps
<1> QED BY <1>1, <1>2, <1>3

\* As long as no error is counted, two loops of one function or one rule never
\* have the same label, however they are nested (while_hdr).
THEOREM LabelsDiffer == Spec => []LoopLabels
<1>1. Init => ShapeInv /\ LabelInv
  <2> SUFFICES ASSUME Init
               PROVE  LabelInv
    BY InitShape
  <2>1. WellFormed(ste) /\ stack = <<1>>
    BY InitShape DEF ShapeInv, Shape, Init
  <2>2. LoopsIn(ste) = {}
    <3> DEFINE g == [Entry("GLOBAL", NoName) EXCEPT !.syms = <<2>>]
               v == Entry("EVENT", NoName)
    <3>1. ste = <<g, v>>
      BY DEF Init
    <3>2. g.kind = "GLOBAL" /\ v.kind = "EVENT"
      BY DEF Entry
    <3> HIDE DEF g, v
    <3>3. \A e \in DOMAIN ste : e = 1 \/ e = 2
      BY <3>1
    <3> QED BY <3>1, <3>2, <3>3 DEF LoopsIn
  <2>3. \A k \in DOMAIN stack : k = 1
    BY <2>1
  <2> QED BY <2>2, <2>3 DEF LabelInv, Labelled, DistinctLabels, Numbered, OwnersMatch
<1>2. ShapeInv /\ LabelInv /\ [Next]_vars => (ShapeInv /\ LabelInv)'
  BY NextShape, NextLabels
<1>3. LabelInv => LoopLabels
  BY DEF LabelInv, Labelled, DistinctLabels, LoopLabels, LoopsIn, Loops, Owner, OwnerIn, OwnersTo, Owners
<1> QED BY <1>1, <1>2, <1>3, PTL DEF Spec

=============================================================================

---------------------------- MODULE ScopingProofs ----------------------------
(***************************************************************************)
(* What a name means while a program is parsed: until an error is counted, *)
(* looking a name up on the stack of scopes gives it the meaning that      *)
(* LexicalScoping gives it, for any names, declarations and limits.        *)
(*                                                                         *)
(* All that the meaning of a name depends on is which entries of that name *)
(* the tables of the scopes hold (InTable).  A step changes that for one   *)
(* scope only (Enters), and the scopes on the stack are all different      *)
(* (Distinct): so the meanings outside stay, and those inside change as    *)
(* the declarations say.                                                   *)
(***************************************************************************)
EXTENDS ScopesProofs

-----------------------------------------------------------------------------
(* Looking up.                                                             *)

\* What n means where the first i scopes of st are open.
Means(s, st, i, n) == LookUpFrom(s, SubSeq(st, 1, i), n)

\* The first scopes of a stack.
LEMMA Prefix ==
  ASSUME NEW S, NEW st \in Seq(S), NEW i \in 0 .. Len(st)
  PROVE  /\ Len(SubSeq(st, 1, i)) = i /\ \A j \in 1 .. i : SubSeq(st, 1, i)[j] = st[j]
         /\ SubSeq(st, 1, Len(st)) = st /\ i \in Nat
OBVIOUS

\* The meaning of a name depends on the entries of that name,
LEMMA LookUpSame ==
  ASSUME NEW s, NEW t, NEW st, NEW ut, NEW n, Len(st) \in Nat, Len(ut) \in Nat, Len(st) <= Len(ut),
         \A i \in 1 .. Len(st) : InTable(t, ut[i], n) = InTable(s, st[i], n),
         \A i \in 1 .. Len(ut) : i > Len(st) => InTable(t, ut[i], n) = {}
  PROVE  LookUpFrom(t, ut, n) = LookUpFrom(s, st, n)
<1>1. Holders(t, ut, n) = Holders(s, st, n)
  <2>1. \A i \in 1 .. Len(ut) : i > Len(st) \/ i \in 1 .. Len(st)
    OBVIOUS
  <2>2. \A i \in 1 .. Len(st) : i \in 1 .. Len(ut)
    OBVIOUS
  <2> QED BY <2>1, <2>2 DEF Holders
<1> DEFINE H == Holders(s, st, n)
<1>2. CASE H = {}
  BY <1>1, <1>2 DEF LookUpFrom
<1>3. CASE H # {}
  <2>1. H \subseteq 1 .. Len(st)
    BY DEF Holders
  <2> HIDE DEF H
  <2>2. Max(H) \in 1 .. Len(st)
    BY <1>3, <2>1, MaxIn
  <2>3. InTable(t, ut[Max(H)], n) = InTable(s, st[Max(H)], n)
    BY <2>2
  <2> QED BY <1>1, <1>3, <2>3 DEF LookUpFrom, H
<1> QED BY <1>2, <1>3

\* in the first scopes;
LEMMA MeansSame ==
  ASSUME NEW s, NEW t, NEW st \in Seq(Nat), NEW ut \in Seq(Nat), NEW n, NEW i \in Nat,
         i <= Len(st), i <= Len(ut),
         \A j \in 1 .. i : InTable(t, ut[j], n) = InTable(s, st[j], n)
  PROVE  Means(t, ut, i, n) = Means(s, st, i, n)
<1> DEFINE p == SubSeq(st, 1, i)
           q == SubSeq(ut, 1, i)
<1>1. Len(p) = i /\ Len(q) = i /\ \A j \in 1 .. i : p[j] = st[j] /\ q[j] = ut[j]
  BY Prefix
<1> HIDE DEF p, q
<1>2. \A j \in 1 .. Len(p) : InTable(t, q[j], n) = InTable(s, p[j], n)
  BY <1>1
<1>3. \A j \in 1 .. Len(q) : j > Len(p) => InTable(t, q[j], n) = {}
  BY <1>1
<1>4. LookUpFrom(t, q, n) = LookUpFrom(s, p, n)
  BY <1>1, <1>2, <1>3, LookUpSame
<1> QED BY <1>4 DEF Means, p, q

\* and a scope without the name leaves it as it is outside.
LEMMA MeansOuter ==
  ASSUME NEW s, NEW st \in Seq(Nat), NEW n, NEW i \in Nat, i + 1 <= Len(st), InTable(s, st[i + 1], n) = {}
  PROVE  Means(s, st, i + 1, n) = Means(s, st, i, n)
<1> DEFINE p == SubSeq(st, 1, i)
           q == SubSeq(st, 1, i + 1)
<1>1. Len(p) = i /\ \A j \in 1 .. i : p[j] = st[j]
  BY Prefix
<1>2. Len(q) = i + 1 /\ \A j \in 1 .. i + 1 : q[j] = st[j]
  BY Prefix
<1> HIDE DEF p, q
<1>3. \A j \in 1 .. Len(p) : InTable(s, q[j], n) = InTable(s, p[j], n)
  BY <1>1, <1>2
<1>4. \A j \in 1 .. Len(q) : j > Len(p) => InTable(s, q[j], n) = {}
  <2>1. \A j \in 1 .. i + 1 : j > i => j = i + 1
    OBVIOUS
  <2> QED BY <1>1, <1>2, <2>1
<1>5. LookUpFrom(s, q, n) = LookUpFrom(s, p, n)
  BY <1>1, <1>2, <1>3, <1>4, LookUpSame
<1> QED BY <1>5 DEF Means, p, q

\* The only entry a table has for n is v.
Only(s, scope, n, v) == InTable(s, scope, n) = {v}

\* A scope that has the name says what it means.
LEMMA MeansOwn ==
  ASSUME NEW s, NEW st \in Seq(Nat), NEW n, NEW k \in Nat, 1 <= k, k <= Len(st), NEW v,
         Only(s, st[k], n, v)
  PROVE  Means(s, st, k, n) = v
<1> DEFINE q == SubSeq(st, 1, k)
           H == Holders(s, q, n)
<1>1. Len(q) = k /\ q[k] = st[k]
  BY Prefix
<1>2. PICK i \in Nat : k = i + 1
  <2>1. k - 1 \in Nat /\ k = (k - 1) + 1
    OBVIOUS
  <2> QED BY <2>1
<1> HIDE DEF q
<1>3. H \subseteq 1 .. i + 1 /\ i + 1 \in H
  <2>1. k \in 1 .. Len(q)
    BY <1>1
  <2>2. InTable(s, q[k], n) # {}
    BY <1>1 DEF Only
  <2> QED BY <1>1, <1>2, <2>1, <2>2 DEF Holders
<1> HIDE DEF H
<1>4. Max(H) = k
  BY <1>2, <1>3, MaxOf
<1>5. LookUpFrom(s, q, n) = CHOOSE e \in {v} : TRUE
  BY <1>1, <1>3, <1>4 DEF LookUpFrom, H, Only
<1> QED BY <1>5 DEF Means, q

\* The members of a sequence that has grown.
LEMMA ToSetAppend ==
  ASSUME NEW S, NEW q \in Seq(S), NEW x
  PROVE  ToSet(Append(q, x)) = ToSet(q) \cup {x}
<1>1. q \in Seq(ToSet(q))
  BY OwnElements
<1>2. /\ DOMAIN Append(q, x) = 1 .. Len(q) + 1 /\ DOMAIN q = 1 .. Len(q) /\ Len(q) \in Nat
      /\ Append(q, x)[Len(q) + 1] = x
      /\ \A k \in DOMAIN q : Append(q, x)[k] = q[k]
  BY <1>1, Appended
<1>3. \A k \in 1 .. Len(q) + 1 : k \in DOMAIN q \/ k = Len(q) + 1
  BY <1>2
<1>4. Len(q) + 1 \in DOMAIN Append(q, x) /\ DOMAIN q \subseteq DOMAIN Append(q, x)
  BY <1>2
<1>5. ToSet(Append(q, x)) \subseteq ToSet(q) \cup {x}
  BY <1>2, <1>3 DEF ToSet
<1>6. ToSet(q) \cup {x} \subseteq ToSet(Append(q, x))
  BY <1>2, <1>4 DEF ToSet
<1> QED BY <1>5, <1>6

-----------------------------------------------------------------------------
(* What a step enters.                                                     *)

\* t has the tables of s, but for one new entry of each of the names D in the scope.
Enters(s, t, scope, D) ==
  /\ Follows(s, t) /\ \A d \in DOMAIN s : t[d].name = s[d].name
  /\ \A d \in DOMAIN s, n \in Names : d # scope \/ n \notin D => InTable(t, d, n) = InTable(s, d, n)
  /\ \A d \in DOMAIN t \ DOMAIN s, n \in Names : InTable(t, d, n) = {}
  /\ \A n \in D : InTable(s, scope, n) = {} /\ \E v \in DOMAIN t \ DOMAIN s : InTable(t, scope, n) = {v}

\* Nothing is entered,
LEMMA EntersNothing ==
  ASSUME NEW s, NEW t, WellFormed(s), WellFormed(t), NEW scope, Len(t) = Len(s),
         \A d \in DOMAIN s : SameButCounts(t[d], s[d]) /\ t[d].syms = s[d].syms
  PROVE  Enters(s, t, scope, {})
<1>1. DOMAIN s = 1 .. Len(s) /\ DOMAIN t = DOMAIN s /\ Len(s) \in Nat
  BY WellFormedDomain
<1>2. \A d \in DOMAIN s : \A e \in ToSet(s[d].syms) : e \in DOMAIN s
  BY CellsAre
<1>3. \A d \in DOMAIN s, n \in Names : InTable(t, d, n) = InTable(s, d, n)
  BY <1>2 DEF InTable, SameButCounts
<1>4. Follows(s, t) /\ \A d \in DOMAIN s : t[d].name = s[d].name
  BY <1>1 DEF Follows, SameButCounts
<1> QED BY <1>1, <1>3, <1>4 DEF Enters

\* one entry after other entries.
LEMMA EntersOn ==
  ASSUME NEW s, NEW t, NEW u, WellFormed(s), NEW scope \in DOMAIN s, NEW D, NEW E, D \subseteq Names, E \subseteq Names,
         Enters(s, t, scope, D), Enters(t, u, scope, E)
  PROVE  Enters(s, u, scope, D \cup E)
<1>1. Follows(s, t) /\ Follows(t, u) /\ Follows(s, u)
  BY FollowsOn DEF Enters
<1>2. DOMAIN s \subseteq DOMAIN t /\ DOMAIN t \subseteq DOMAIN u
  BY <1>1, FollowsDomain DEF Follows
<1>3. \A n \in D : n \notin E
  BY DEF Enters
<1>4. ASSUME NEW n \in D
      PROVE  InTable(s, scope, n) = {} /\ \E v \in DOMAIN u \ DOMAIN s : InTable(u, scope, n) = {v}
  <2>1. PICK v \in DOMAIN t \ DOMAIN s : InTable(t, scope, n) = {v}
    BY DEF Enters
  <2>2. InTable(u, scope, n) = InTable(t, scope, n)
    BY <1>2, <1>3 DEF Enters
  <2>3. InTable(s, scope, n) = {}
    BY DEF Enters
  <2> QED BY <1>2, <2>1, <2>2, <2>3
<1>5. ASSUME NEW n \in E
      PROVE  InTable(s, scope, n) = {} /\ \E v \in DOMAIN u \ DOMAIN s : InTable(u, scope, n) = {v}
  <2>1. InTable(t, scope, n) = {} /\ n \notin D /\ n \in Names
    BY <1>3 DEF Enters
  <2>2. InTable(s, scope, n) = InTable(t, scope, n)
    BY <2>1 DEF Enters
  <2>3. \E v \in DOMAIN u \ DOMAIN t : InTable(u, scope, n) = {v}
    BY DEF Enters
  <2> QED BY <1>2, <2>1, <2>2, <2>3
<1>6. ASSUME NEW d \in DOMAIN s, NEW n \in Names, d # scope \/ n \notin D \cup E
      PROVE  InTable(u, d, n) = InTable(s, d, n)
  BY <1>2, <1>6 DEF Enters
<1>7. ASSUME NEW d \in DOMAIN u \ DOMAIN s, NEW n \in Names
      PROVE  InTable(u, d, n) = {}
  <2>1. CASE d \in DOMAIN t
    <3>1. InTable(t, d, n) = {} /\ d # scope
      BY <1>7, <2>1 DEF Enters
    <3> QED BY <2>1, <3>1 DEF Enters
  <2>2. CASE d \notin DOMAIN t
    BY <1>7, <2>2 DEF Enters
  <2> QED BY <2>1, <2>2
<1>8. \A d \in DOMAIN s : u[d].name = s[d].name
  BY <1>2 DEF Enters
<1> QED BY <1>1, <1>4, <1>5, <1>6, <1>7, <1>8 DEF Enters

\* A new entry is found under its name, if it is one.
LEMMA AddsEnters ==
  ASSUME NEW s, NEW t, WellFormed(s), WellFormed(t), NEW scope \in DOMAIN s, NEW entry, Bare(entry),
         NEW linked \in BOOLEAN, Adds(s, t, scope, entry, linked),
         entry.name \in Names => linked /\ InTable(s, scope, entry.name) = {}
  PROVE  Enters(s, t, scope, {entry.name} \cap Names) /\ Len(t) = Len(s) + 1
<1> DEFINE new == Len(s) + 1
<1>1. /\ DOMAIN s = 1 .. Len(s) /\ Len(s) \in Nat /\ DOMAIN t = 1 .. new /\ Len(t) = new
      /\ t[new] = entry /\ entry.syms = <<>>
  BY WellFormedDomain DEF Adds, Bare
<1>2. \A d \in DOMAIN s : /\ SameButCounts(t[d], s[d])
                          /\ d # scope \/ ~linked => t[d].syms = s[d].syms
  BY DEF Adds
<1>3. linked => t[scope].syms = Append(s[scope].syms, new)
  BY DEF Adds
<1>4. new \notin DOMAIN s /\ new \in DOMAIN t /\ \A d \in DOMAIN t \ DOMAIN s : d = new
  BY <1>1
<1> HIDE DEF new
<1>5. \A d \in DOMAIN s : \A e \in ToSet(s[d].syms) : e \in DOMAIN s
  BY CellsAre
<1>6. \A n : InTable(t, new, n) = {}
  <2>1. ToSet(<<>>) = {}
    BY DEF ToSet
  <2> QED BY <1>1, <2>1 DEF InTable
<1>7. ASSUME NEW d \in DOMAIN s, NEW n, t[d].syms = s[d].syms
      PROVE  InTable(t, d, n) = InTable(s, d, n)
  BY <1>2, <1>5, <1>7 DEF InTable, SameButCounts
<1>8. ASSUME linked, NEW n
      PROVE  InTable(t, scope, n) = IF entry.name = n THEN InTable(s, scope, n) \cup {new} ELSE InTable(s, scope, n)
  <2>1. ToSet(t[scope].syms) = ToSet(s[scope].syms) \cup {new}
    <3>1. s[scope].syms \in Seq(1 .. Len(s))
      BY WellFormedDomain DEF IsEntry
    <3> QED BY <1>3, <1>8, <3>1, ToSetAppend
  <2>2. t[new].name = entry.name
    BY <1>1 DEF new
  <2>3. \A e \in ToSet(s[scope].syms) : t[e].name = s[e].name
    BY <1>2, <1>5 DEF SameButCounts
  <2> QED BY <2>1, <2>2, <2>3 DEF InTable
<1>9. Follows(s, t) /\ \A d \in DOMAIN s : t[d].name = s[d].name
  BY <1>2, AddsFollows DEF SameButCounts
<1>10. ASSUME NEW d \in DOMAIN s, NEW n \in Names, d # scope \/ n \notin {entry.name} \cap Names
       PROVE  InTable(t, d, n) = InTable(s, d, n)
  <2>1. CASE d # scope \/ ~linked
    BY <1>2, <1>7, <2>1
  <2>2. CASE d = scope /\ linked
    <3>1. n # entry.name
      BY <1>10, <2>2
    <3> QED BY <1>8, <2>2, <3>1
  <2> QED BY <2>1, <2>2
<1>11. ASSUME NEW n \in {entry.name} \cap Names
       PROVE  InTable(s, scope, n) = {} /\ InTable(t, scope, n) = {new}
  BY <1>8
<1> QED BY <1>1, <1>4, <1>6, <1>9, <1>10, <1>11 DEF Enters, new

\* SymTab::insert enters a name that is not there.
LEMMA InsertEnters ==
  ASSUME NEW s, WellFormed(s), NEW scope \in DOMAIN s, NEW entry, Bare(entry),
         entry.name \in Names => InTable(s, scope, entry.name) = {}
  PROVE  /\ Enters(s, Insert(s, scope, entry), scope, {entry.name} \cap Names)
         /\ Len(Insert(s, scope, entry)) = Len(s) + 1
<1> DEFINE t == Insert(s, scope, entry)
<1>1. WellFormed(t) /\ Adds(s, t, scope, entry, ~Duplicate(s, scope, entry))
  BY Inserted
<1>2. (~Duplicate(s, scope, entry)) \in BOOLEAN
  BY DuplicateIs
<1>3. entry.name \in Names => ~Duplicate(s, scope, entry) /\ InTable(s, scope, entry.name) = {}
  BY DEF Duplicate
<1> HIDE DEF t
<1>4. Enters(s, t, scope, {entry.name} \cap Names) /\ Len(t) = Len(s) + 1
  BY <1>1, <1>2, <1>3, AddsEnters
<1> QED BY <1>4 DEF t

\* A count in a scope, and then an entry in it.
LEMMA CountedEnters ==
  ASSUME NEW s, WellFormed(s), NEW scope \in DOMAIN s, NEW m, WellFormed(m), Counts(s, m, scope),
         NEW entry, Bare(entry), entry.name \in Names => InTable(s, scope, entry.name) = {}
  PROVE  /\ Enters(s, Insert(m, scope, entry), scope, {entry.name} \cap Names)
         /\ Len(Insert(m, scope, entry)) = Len(s) + 1
<1>1. Enters(s, m, scope, {}) /\ Len(m) = Len(s)
  <2>1. Len(m) = Len(s) /\ \A d \in DOMAIN s : SameButCounts(m[d], s[d]) /\ m[d].syms = s[d].syms
    BY DEF Counts
  <2> QED BY <2>1, EntersNothing
<1>2. scope \in DOMAIN m
  BY <1>1, WellFormedDomain
<1>3. entry.name \in Names => InTable(m, scope, entry.name) = {}
  BY <1>1 DEF Enters
<1> DEFINE t == Insert(m, scope, entry)
           D == {entry.name} \cap Names
<1>4. Enters(m, t, scope, D) /\ Len(t) = Len(m) + 1
  BY <1>2, <1>3, InsertEnters
<1>5. D \subseteq Names /\ {} \subseteq Names /\ {} \cup D = D
  OBVIOUS
<1> HIDE DEF t, D
<1>6. Enters(s, t, scope, {} \cup D)
  BY <1>1, <1>4, <1>5, EntersOn
<1> QED BY <1>1, <1>4, <1>5, <1>6 DEF t, D

\* The names of the first k declarators.
NamesTo(list, k) == {list[j].name : j \in 1 .. k} \cap Names

\* One declarator enters its name,
LEMMA DeclaredEnters ==
  ASSUME NEW s, WellFormed(s), NEW scope \in DOMAIN s, NEW name, NEW type,
         name \in Names => InTable(s, scope, name) = {}
  PROVE  /\ Enters(s, DeclaredOne(s, scope, name, type), scope, {name} \cap Names)
         /\ Len(DeclaredOne(s, scope, name, type)) = Len(s) + 1
<1> DEFINE m == Counted(s, scope, type)
           v == Placed(s, scope, name, type)
<1>1. WellFormed(m) /\ Counts(s, m, scope)
  BY CountedIs
<1>2. Bare(v) /\ v.name = name
  BY PlacedIs
<1> HIDE DEF m, v
<1>3. /\ Enters(s, Insert(m, scope, v), scope, {v.name} \cap Names)
      /\ Len(Insert(m, scope, v)) = Len(s) + 1
  BY <1>1, <1>2, CountedEnters
<1> QED BY <1>2, <1>3 DEF DeclaredOne, m, v

\* and a list of them all of theirs, if none is complained about.
LEMMA VarListEnters ==
  ASSUME NEW s, WellFormed(s), NEW scope \in DOMAIN s, NEW list, list \in Seq(ToSet(list)), NEW type,
         Repeated(s, scope, list) = 0
  PROVE  /\ Enters(s, VarListEntry(s, scope, list, type), scope, NamesTo(list, Len(list)))
         /\ Len(VarListEntry(s, scope, list, type)) = Len(s) + Len(list)
<1>1. PICK c : /\ c[0] = s /\ c[Len(list)] = VarListEntry(s, scope, list, type)
               /\ \A k \in 1 .. Len(list) : c[k] = DeclaredOne(c[k - 1], scope, list[k].name, type)
  <2>1. PICK c : Declares(c, s, scope, list, type)
    BY OneByOne, Zenon
  <2> QED BY <2>1, Zenon DEF Declares
<1>2. /\ \A k \in DOMAIN list : InTable(s, scope, list[k].name) = {}
      /\ \A k \in DOMAIN list : \A l \in 1 .. k - 1 : list[l].name # list[k].name
  BY RepeatedIs
<1>3. DOMAIN list = 1 .. Len(list) /\ Len(list) \in Nat /\ Len(s) \in Nat
  BY WellFormedDomain
<1> DEFINE T == { k \in Nat : k <= Len(list) => /\ Enters(s, c[k], scope, NamesTo(list, k))
                                               /\ Len(c[k]) = Len(s) + k }
<1>4. 0 \in T
  <2>1. Enters(s, s, scope, {})
    BY EntersNothing DEF SameButCounts
  <2>2. NamesTo(list, 0) = {}
    BY DEF NamesTo
  <2>3. Enters(s, c[0], scope, NamesTo(list, 0))
    BY <1>1, <2>1, <2>2
  <2>4. Len(c[0]) = Len(s) + 0
    BY <1>1, <1>3
  <2> QED BY <2>3, <2>4
<1>5. ASSUME NEW k \in Nat, k \in T
      PROVE  k + 1 \in T
  <2> SUFFICES ASSUME k + 1 <= Len(list)
               PROVE  Enters(s, c[k + 1], scope, NamesTo(list, k + 1)) /\ Len(c[k + 1]) = Len(s) + (k + 1)
    OBVIOUS
  <2> DEFINE name == list[k + 1].name
             D == NamesTo(list, k)
             E == {name} \cap Names
  <2>1. Enters(s, c[k], scope, D) /\ Len(c[k]) = Len(s) + k /\ k + 1 \in 1 .. Len(list) /\ (k + 1) - 1 = k
    BY <1>5
  <2>2. c[k + 1] = DeclaredOne(c[k], scope, name, type)
    BY <1>1, <2>1
  <2>3. Follows(s, c[k]) /\ scope \in DOMAIN c[k] /\ WellFormed(c[k])
    BY <2>1, FollowsDomain DEF Enters
  <2>4. name \notin D /\ InTable(s, scope, name) = {}
    BY <1>2, <1>3, <2>1 DEF NamesTo
  <2>5. NamesTo(list, k + 1) = D \cup E
    <3>1. 1 .. k + 1 = (1 .. k) \cup {k + 1}
      OBVIOUS
    <3> QED BY <3>1 DEF NamesTo
  <2>6. D \subseteq Names /\ E \subseteq Names
    BY DEF NamesTo
  <2> HIDE DEF D, name
  <2>7. name \in Names => InTable(c[k], scope, name) = {}
    BY <2>1, <2>4 DEF Enters
  <2>8. Enters(c[k], c[k + 1], scope, E) /\ Len(c[k + 1]) = Len(c[k]) + 1
    <3> DEFINE q == c[k]
    <3>1. WellFormed(q) /\ scope \in DOMAIN q /\ (name \in Names => InTable(q, scope, name) = {})
      BY <2>3, <2>7
    <3> HIDE DEF q
    <3>2. /\ Enters(q, DeclaredOne(q, scope, name, type), scope, {name} \cap Names)
          /\ Len(DeclaredOne(q, scope, name, type)) = Len(q) + 1
      BY <3>1, DeclaredEnters
    <3> QED BY <2>2, <3>2 DEF q
  <2> HIDE DEF E
  <2>9. Enters(s, c[k + 1], scope, D \cup E)
    BY <2>1, <2>6, <2>8, EntersOn
  <2>10. Len(c[k + 1]) = Len(s) + (k + 1)
    BY <1>3, <2>1, <2>8
  <2> QED BY <2>5, <2>9, <2>10
<1> HIDE DEF T
<1>6. Len(list) \in T
  BY <1>3, <1>4, <1>5, Induction
<1> QED BY <1>1, <1>3, <1>6 DEF T

\* The names a pattern gives, as declarators, and the first k of them.
AsDeclarators(names) == [i \in DOMAIN names |-> [name |-> names[i]]]
GivenTo(names, k) == {names[j] : j \in 1 .. k}

\* A pattern enters the names it gives.
LEMMA BoundEnters ==
  ASSUME NEW s, WellFormed(s), NEW scope \in DOMAIN s, NEW e, NEW names \in Seq(Names),
         Repeated(s, scope, AsDeclarators(names)) = 0
  PROVE  /\ Enters(s, Bound(s, scope, e, names), scope, GivenTo(names, Len(names)))
         /\ Len(Bound(s, scope, e, names)) = Len(s) + Len(names)
<1>1. DOMAIN names = 1 .. Len(names) /\ Len(names) \in Nat /\ Len(s) \in Nat /\ names \in Seq(ToSet(names))
  BY WellFormedDomain, OwnElements
<1>2. PICK c : /\ c[0] = s /\ c[Len(names)] = Bound(s, scope, e, names)
               /\ \A k \in 1 .. Len(names) : c[k] = Insert(c[k - 1], scope, Typed(e, names[k], k))
  BY <1>1, OneBinding
<1>3. /\ \A k \in DOMAIN names : InTable(s, scope, names[k]) = {}
      /\ \A k \in DOMAIN names : \A l \in 1 .. k - 1 : names[l] # names[k]
  <2> DEFINE list == AsDeclarators(names)
  <2>1. DOMAIN list = 1 .. Len(names) /\ \A k \in DOMAIN names : list[k].name = names[k]
    BY <1>1 DEF AsDeclarators
  <2>2. list \in [1 .. Len(names) -> ToSet(list)]
    BY <1>1 DEF AsDeclarators, ToSet
  <2> HIDE DEF list
  <2>3. list \in Seq(ToSet(list))
    BY <1>1, <2>2, FunctionIsSeq
  <2>4. /\ \A k \in DOMAIN list : InTable(s, scope, list[k].name) = {}
        /\ \A k \in DOMAIN list : \A l \in 1 .. k - 1 : list[l].name # list[k].name
    BY <2>3, RepeatedIs DEF list
  <2>5. \A k \in DOMAIN names : \A l \in 1 .. k - 1 : l \in DOMAIN names
    BY <1>1
  <2> QED BY <1>1, <2>1, <2>4, <2>5
<1> DEFINE T == { k \in Nat : k <= Len(names) => /\ Enters(s, c[k], scope, GivenTo(names, k))
                                                /\ Len(c[k]) = Len(s) + k }
<1>4. 0 \in T
  <2>1. Enters(s, s, scope, {})
    BY EntersNothing DEF SameButCounts
  <2>2. GivenTo(names, 0) = {}
    BY DEF GivenTo
  <2>3. Enters(s, c[0], scope, GivenTo(names, 0))
    BY <1>2, <2>1, <2>2
  <2>4. Len(c[0]) = Len(s) + 0
    BY <1>1, <1>2
  <2> QED BY <2>3, <2>4
<1>5. ASSUME NEW k \in Nat, k \in T
      PROVE  k + 1 \in T
  <2> SUFFICES ASSUME k + 1 <= Len(names)
               PROVE  Enters(s, c[k + 1], scope, GivenTo(names, k + 1)) /\ Len(c[k + 1]) = Len(s) + (k + 1)
    OBVIOUS
  <2> DEFINE name == names[k + 1]
             v == Typed(e, name, k + 1)
             D == GivenTo(names, k)
             q == c[k]
  <2>1. Enters(s, q, scope, D) /\ Len(q) = Len(s) + k /\ k + 1 \in 1 .. Len(names) /\ (k + 1) - 1 = k
    BY <1>5
  <2>2. c[k + 1] = Insert(q, scope, v)
    BY <1>2, <2>1
  <2>3. Follows(s, q) /\ scope \in DOMAIN q /\ WellFormed(q)
    BY <2>1, FollowsDomain DEF Enters
  <2>4. name \notin D /\ InTable(s, scope, name) = {} /\ name \in Names
    BY <1>1, <1>3, <2>1 DEF GivenTo
  <2>5. GivenTo(names, k + 1) = D \cup {name}
    <3>1. 1 .. k + 1 = (1 .. k) \cup {k + 1}
      OBVIOUS
    <3> QED BY <3>1 DEF GivenTo
  <2>6. D \subseteq Names
    <3>1. \A j \in 1 .. k : j \in DOMAIN names
      BY <1>1
    <3> QED BY <3>1 DEF GivenTo
  <2>7. Bare(v) /\ v.name = name
    BY BareVariables DEF Typed
  <2> HIDE DEF D, name, v, q
  <2>8. InTable(q, scope, name) = {}
    BY <2>1, <2>4 DEF Enters
  <2>9. {v.name} \cap Names = {name}
    BY <2>4, <2>7
  <2>10. Enters(q, Insert(q, scope, v), scope, {name}) /\ Len(Insert(q, scope, v)) = Len(q) + 1
    <3>1. /\ Enters(q, Insert(q, scope, v), scope, {v.name} \cap Names)
          /\ Len(Insert(q, scope, v)) = Len(q) + 1
      BY <2>3, <2>7, <2>8, InsertEnters
    <3> QED BY <2>9, <3>1
  <2>11. Enters(s, Insert(q, scope, v), scope, D \cup {name})
    BY <2>1, <2>4, <2>6, <2>10, EntersOn
  <2>12. Len(c[k + 1]) = Len(s) + (k + 1)
    BY <1>1, <2>1, <2>2, <2>10
  <2> QED BY <2>2, <2>5, <2>11, <2>12
<1> HIDE DEF T
<1>6. Len(names) \in T
  BY <1>1, <1>4, <1>5, Induction
<1> QED BY <1>1, <1>2, <1>6 DEF T

\* A parameter enters its name.
LEMMA ParameterEnters ==
  ASSUME NEW s, WellFormed(s), NEW scope \in DOMAIN s, NEW n \in Names, NEW type, InTable(s, scope, n) = {},
         NEW t, t = Insert(ParamCounted(s, scope, type), scope, Param(s, scope, n, type))
  PROVE  Enters(s, t, scope, {n}) /\ Len(t) = Len(s) + 1
<1> DEFINE m == ParamCounted(s, scope, type)
           v == Param(s, scope, n, type)
<1>1. WellFormed(m) /\ Counts(s, m, scope)
  BY ParamCountedIs
<1>2. Bare(v) /\ v.name = n
  BY ParamIs
<1>3. t = Insert(m, scope, v)
  OBVIOUS
<1> HIDE DEF m, v
<1>4. {v.name} \cap Names = {n}
  BY <1>2
<1>5. /\ Enters(s, Insert(m, scope, v), scope, {v.name} \cap Names)
      /\ Len(Insert(m, scope, v)) = Len(s) + 1
  BY <1>1, <1>2, CountedEnters
<1> QED BY <1>3, <1>4, <1>5

\* A loop enters no name,
LEMMA LoopEnters ==
  ASSUME WellFormed(ste), CurrentScope \in DOMAIN ste, NEW t,
         t = Insert(WhileCounted(ste, CurrentScope), CurrentScope, WhileBlock(NewLabel))
  PROVE  Enters(ste, t, CurrentScope, {}) /\ Len(t) = Len(ste) + 1
<1> DEFINE m == WhileCounted(ste, CurrentScope)
           v == WhileBlock(NewLabel)
<1>1. WellFormed(m) /\ Counts(ste, m, CurrentScope) /\ Bare(v) /\ v.name = NoName
  BY WhileCountedIs, BareLoops, NewLabelIs
<1>2. t = Insert(m, CurrentScope, v)
  OBVIOUS
<1> HIDE DEF m, v
<1>3. v.name \notin Names /\ {v.name} \cap Names = {}
  BY <1>1, ScopesAssumption
<1>4. /\ Enters(ste, Insert(m, CurrentScope, v), CurrentScope, {v.name} \cap Names)
      /\ Len(Insert(m, CurrentScope, v)) = Len(ste) + 1
  BY <1>1, <1>3, CountedEnters
<1> QED BY <1>2, <1>3, <1>4

\* and neither does a rule.
LEMMA RuleEnters ==
  ASSUME WellFormed(ste), CurrentScope \in DOMAIN ste, NEW scope
  PROVE  Enters(ste, RuleTable, scope, {})
<1>1. CASE InRule
  BY <1>1, RuleTableIs, EntersNothing DEF SameButCounts
<1>2. CASE ~InRule
  <2> DEFINE x == Entry("RULE_BLOCK", NoName)
             t == RuleTable
  <2>1. Bare(x) /\ x.name = NoName /\ t = Append(ste, x)
    BY <1>2, BareEntries, RuleTableIs
  <2> HIDE DEF x, t
  <2>2. x.name \notin Names /\ {x.name} \cap Names = {} /\ 1 \in DOMAIN ste
    BY <2>1, ScopesAssumption, WellFormedDomain
  <2>3. /\ Follows(ste, t) /\ Len(t) = Len(ste) + 1 /\ t[Len(ste) + 1] = x
        /\ \A d \in DOMAIN ste : t[d] = ste[d]
    BY <2>1, AppendFollows
  <2>4. Adds(ste, t, 1, x, FALSE) /\ WellFormed(t)
    BY <2>3 DEF Adds, SameButCounts, SameCounts, Follows
  <2>5. Enters(ste, t, 1, {x.name} \cap Names)
    BY <2>1, <2>2, <2>4, AddsEnters
  <2>6. Enters(ste, t, scope, {})
    BY <2>2, <2>5 DEF Enters
  <2> QED BY <2>6 DEF t
<1> QED BY <1>1, <1>2

-----------------------------------------------------------------------------
(* The meanings here and outside, in a state.                              *)

\* Every scope is on the stack once.
Distinct == \A i, j \in DOMAIN stack : stack[i] = stack[j] => i = j
MeaningInv == ShapeInv /\ Distinct

Here == Environment(Len(stack))
Mine == Declared(Len(stack))
Outer == [i \in 1 .. (Len(stack) - 1) |-> Environment(i)]
OuterMine == [i \in 1 .. (Len(stack) - 1) |-> Declared(i)]

\* What Declared says, of tables.
LEMMA DeclaredIs ==
  ASSUME NEW i
  PROVE  /\ Declared(i) = {n \in Names : InTable(ste, stack[i], n) # {}}
         /\ Declared(i)' = {n \in Names : InTable(ste', stack'[i], n) # {}}
BY DEF Declared, InTable, ToSet

\* What Environment says.
LEMMA EnvironmentIs ==
  ASSUME NEW i
  PROVE  /\ Environment(i) = [n \in Names |-> Means(ste, stack, i, n)]
         /\ Environment(i)' = [n \in Names |-> Means(ste', stack', i, n)]
BY DEF Environment, Means

\* The outermost scopes stay as they are if their tables do.
LEMMA OutsideStays ==
  ASSUME stack \in Seq(Nat), stack' \in Seq(Nat), NEW m \in Nat, m <= Len(stack), m <= Len(stack'),
         \A j \in 1 .. m : stack'[j] = stack[j],
         \A j \in 1 .. m, n \in Names : InTable(ste', stack[j], n) = InTable(ste, stack[j], n)
  PROVE  \A i \in 1 .. m : Environment(i)' = Environment(i) /\ Declared(i)' = Declared(i)
<1> TAKE i \in 1 .. m
<1>1. \A j \in 1 .. i : j \in 1 .. m
  OBVIOUS
<1>2. \A n \in Names : Means(ste', stack', i, n) = Means(ste, stack, i, n)
  <2> TAKE n \in Names
  <2>1. \A j \in 1 .. i : InTable(ste', stack'[j], n) = InTable(ste, stack[j], n)
    BY <1>1
  <2>2. i \in Nat /\ i <= Len(stack) /\ i <= Len(stack')
    OBVIOUS
  <2> QED BY <2>1, <2>2, MeansSame
<1>3. Environment(i)' = Environment(i)
  <2>1. [n \in Names |-> Means(ste', stack', i, n)] = [n \in Names |-> Means(ste, stack, i, n)]
    BY <1>2, Zenon
  <2> QED BY <2>1, EnvironmentIs
<1>4. stack'[i] = stack[i] /\ \A n \in Names : InTable(ste', stack[i], n) = InTable(ste, stack[i], n)
  OBVIOUS
<1>5. Declared(i)' = Declared(i)
  <2>1. {n \in Names : InTable(ste', stack'[i], n) # {}} = {n \in Names : InTable(ste, stack[i], n) # {}}
    BY <1>4
  <2> QED BY <2>1, DeclaredIs
<1> QED BY <1>3, <1>5

\* What the invariant says of the stack of a parse that goes on.
LEMMA StackFacts ==
  ASSUME MeaningInv, ended = "no"
  PROVE  /\ WellFormed(ste) /\ DOMAIN ste = 1 .. Len(ste) /\ Len(ste) \in Nat
         /\ stack \in Seq(Nat) /\ Len(stack) \in Nat /\ 1 <= Len(stack) /\ DOMAIN stack = 1 .. Len(stack)
         /\ \A i \in DOMAIN stack : stack[i] \in DOMAIN ste
         /\ CurrentScope = stack[Len(stack)] /\ CurrentScope \in DOMAIN ste
         /\ \A i \in 1 .. Len(stack) - 1 : stack[i] # CurrentScope
<1>1. Shape
  BY DEF MeaningInv, ShapeInv
<1>2. WellFormed(ste)
  BY <1>1 DEF Shape
<1>3. /\ DOMAIN ste = 1 .. Len(ste) /\ Len(ste) \in Nat
      /\ Len(stack) \in Nat /\ 1 <= Len(stack) /\ DOMAIN stack = 1 .. Len(stack)
      /\ \A i \in DOMAIN stack : stack[i] \in DOMAIN ste
      /\ CurrentScope = stack[Len(stack)] /\ CurrentScope \in DOMAIN ste
  BY <1>1, ShapeFacts
<1>4. stack \in Seq(Nat)
  <2>1. stack \in Seq(1 .. Len(ste))
    BY <1>1, <1>3 DEF Shape, StackOK
  <2>2. 1 .. Len(ste) \subseteq Nat
    OBVIOUS
  <2> QED BY <2>1, <2>2
<1>5. \A i \in 1 .. Len(stack) - 1 : stack[i] # CurrentScope
  <2> DEFINE m == Len(stack)
  <2>1. m \in Nat /\ 1 <= m /\ DOMAIN stack = 1 .. m /\ CurrentScope = stack[m]
    BY <1>3
  <2> HIDE DEF m
  <2>2. ASSUME NEW i \in 1 .. m - 1
        PROVE  stack[i] # CurrentScope
    <3>1. i \in DOMAIN stack /\ m \in DOMAIN stack /\ i # m
      BY <2>1
    <3> QED BY <2>1, <3>1 DEF MeaningInv, Distinct
  <2> QED BY <2>2 DEF m
<1> QED BY <1>2, <1>3, <1>4, <1>5

\* The list g is the list f, of n members, and one more.
Longer(f, g, n) ==
  /\ f = [i \in 1 .. n |-> f[i]] /\ g = [i \in 1 .. n + 1 |-> g[i]]
  /\ \A i \in 1 .. n : g[i] = f[i]

\* Such a list as the sequence it is.
LEMMA LongerIs ==
  ASSUME NEW n \in Nat, NEW f, NEW g, Longer(f, g, n)
  PROVE  /\ g = Append(f, g[n + 1]) /\ g # <<>>
         /\ Front(g) = f /\ Last(g) = g[n + 1]
<1> DEFINE S == {g[i] : i \in 1 .. n + 1}
<1>1. f \in [1 .. n -> S] /\ g \in [1 .. n + 1 -> S]
  <2>1. \A i \in 1 .. n : i \in 1 .. n + 1
    OBVIOUS
  <2>2. \A i \in 1 .. n : f[i] \in S
    BY <2>1 DEF Longer
  <2> QED BY <2>2 DEF Longer
<1>2. g[n + 1] \in S
  OBVIOUS
<1> HIDE DEF S
<1>3. f \in Seq(S) /\ Len(f) = n /\ g \in Seq(S) /\ Len(g) = n + 1
  BY <1>1, FunctionIsSeq
<1>4. g # <<>>
  BY <1>3
<1> DEFINE h == Append(f, g[n + 1])
           k == Front(g)
<1>5. /\ h \in Seq(S) /\ Len(h) = n + 1 /\ h[n + 1] = g[n + 1]
      /\ \A i \in 1 .. n : h[i] = f[i]
  BY <1>2, <1>3, AppendProperties
<1>6. k \in Seq(S) /\ Len(k) = n /\ (\A i \in 1 .. n : k[i] = g[i]) /\ Last(g) = g[n + 1]
  <2>1. /\ k \in Seq(S) /\ Len(k) = Len(g) - 1 /\ Last(g) = g[Len(g)]
        /\ \A i \in 1 .. Len(g) - 1 : k[i] = g[i]
    BY <1>3, <1>4, FrontAndLast
  <2>2. Len(g) = n + 1 /\ Len(g) - 1 = n
    BY <1>3
  <2> HIDE DEF k
  <2> QED BY <2>1, <2>2
<1> HIDE DEF h, k
<1>7. h = g
  <2>1. \A i \in 1 .. n + 1 : h[i] = g[i]
    <3>1. \A i \in 1 .. n + 1 : i \in 1 .. n \/ i = n + 1
      OBVIOUS
    <3> QED BY <1>5, <3>1 DEF Longer
  <2> QED BY <1>3, <1>5, <2>1, SeqEqual
<1>8. k = f
  BY <1>3, <1>6, SeqEqual DEF Longer
<1> QED BY <1>4, <1>6, <1>7, <1>8 DEF h, k

-----------------------------------------------------------------------------
(* Steps of the parse, as steps of LexicalScoping.                         *)

\* The entries that are new.
New == DOMAIN ste' \ DOMAIN ste

\* Each of the names D means an entry out of N here, of that name.
NewlyMean(D, N) == \A n \in D : Here'[n] \in N /\ ste'[Here'[n]].name = n

\* What outside the current scope stays, as the lists of LexicalScoping.
OutsideSame == Outer' = Outer /\ OuterMine' = OuterMine

\* A step that leaves the stack and enters names in the current scope.
LEMMA SameScopes ==
  ASSUME MeaningInv, ended = "no", UNCHANGED stack, NEW D \in SUBSET Names, Enters(ste, ste', CurrentScope, D)
  PROVE  /\ OutsideSame
         /\ Mine' = Mine \cup D /\ Mine \cap D = {}
         /\ \A n \in Names : n \notin D => Here'[n] = Here[n]
         /\ NewlyMean(D, New)
         /\ Here = [n \in Names |-> Here[n]] /\ Here' = [n \in Names |-> Here'[n]]
<1> DEFINE m == Len(stack)
<1>1. /\ WellFormed(ste) /\ m \in Nat /\ 1 <= m /\ DOMAIN stack = 1 .. m /\ stack \in Seq(Nat)
      /\ \A i \in DOMAIN stack : stack[i] \in DOMAIN ste
      /\ CurrentScope = stack[m] /\ CurrentScope \in DOMAIN ste
      /\ \A i \in 1 .. m - 1 : stack[i] # CurrentScope
  BY StackFacts
<1> HIDE DEF m
<1>2. \A j \in 1 .. m - 1 : j \in DOMAIN stack
  BY <1>1
<1>3. \A j \in 1 .. m - 1, n \in Names : InTable(ste', stack[j], n) = InTable(ste, stack[j], n)
  BY <1>1, <1>2 DEF Enters
<1>4. \A i \in 1 .. m - 1 : Environment(i)' = Environment(i) /\ Declared(i)' = Declared(i)
  <2>1. m - 1 \in Nat /\ m - 1 <= Len(stack) /\ m - 1 <= Len(stack') /\ stack' \in Seq(Nat)
    BY <1>1 DEF m
  <2> QED BY <1>1, <1>3, <2>1, OutsideStays
<1>5. OutsideSame
  BY <1>4 DEF OutsideSame, Outer, OuterMine, m
<1>6. \A n \in Names : n \notin D => InTable(ste', CurrentScope, n) = InTable(ste, CurrentScope, n)
  BY <1>1 DEF Enters
<1>7. \A n \in D : InTable(ste, CurrentScope, n) = {} /\ \E v \in New : InTable(ste', CurrentScope, n) = {v}
  BY DEF Enters, New
<1>8. Mine = {n \in Names : InTable(ste, CurrentScope, n) # {}} /\ Mine' = {n \in Names : InTable(ste', CurrentScope, n) # {}}
  BY <1>1, DeclaredIs DEF Mine, m
<1>9. Mine' = Mine \cup D /\ Mine \cap D = {}
  BY <1>6, <1>7, <1>8
<1>10. Here = [n \in Names |-> Means(ste, stack, m, n)] /\ Here' = [n \in Names |-> Means(ste', stack, m, n)]
  BY EnvironmentIs DEF Here, m
<1>11. ASSUME NEW n \in Names, n \notin D
       PROVE  Means(ste', stack, m, n) = Means(ste, stack, m, n)
  <2>1. \A j \in 1 .. m : j \in 1 .. m - 1 \/ j = m
    BY <1>1
  <2>2. \A j \in 1 .. m : InTable(ste', stack[j], n) = InTable(ste, stack[j], n)
    BY <1>1, <1>3, <1>6, <1>11, <2>1
  <2>3. m <= Len(stack)
    BY <1>1 DEF m
  <2> QED BY <1>1, <2>2, <2>3, MeansSame
<1>12. ASSUME NEW n \in D
       PROVE  Means(ste', stack, m, n) \in New /\ ste'[Means(ste', stack, m, n)].name = n
  <2>1. PICK v \in New : InTable(ste', CurrentScope, n) = {v}
    BY <1>7
  <2>2. ste'[v].name = n
    BY <2>1 DEF InTable
  <2>3. m <= Len(stack) /\ Only(ste', stack[m], n, v)
    BY <1>1, <2>1 DEF m, Only
  <2>4. Means(ste', stack, m, n) = v
    BY <1>1, <2>3, MeansOwn
  <2> QED BY <2>1, <2>2, <2>4
<1>13. /\ \A n \in Names : n \notin D => Here'[n] = Here[n]
       /\ NewlyMean(D, New)
  BY <1>10, <1>11, <1>12 DEF NewlyMean
<1>14. Here = [n \in Names |-> Here[n]] /\ Here' = [n \in Names |-> Here'[n]]
  BY <1>10
<1> QED BY <1>5, <1>9, <1>13, <1>14

\* The stack with one scope more.
LEMMA PushedStack ==
  ASSUME MeaningInv, ended = "no", NEW b \in Nat, stack' = Append(stack, b)
  PROVE  /\ stack' \in Seq(Nat) /\ Len(stack') = Len(stack) + 1 /\ stack'[Len(stack) + 1] = b
         /\ \A i \in 1 .. Len(stack) : stack'[i] = stack[i]
         /\ stack'[Len(stack')] = b
<1>1. stack \in Seq(Nat) /\ Len(stack) \in Nat
  BY StackFacts
<1> QED BY <1>1, AppendProperties

\* The meanings outside a block that begins are those of before it, if they have not changed.
LEMMA BlockBegins ==
  ASSUME MeaningInv, ended = "no", NEW b \in Nat, stack' = Append(stack, b), NEW m, m = Len(stack),
         \A i \in 1 .. m - 1 : Environment(i)' = Environment(i) /\ Declared(i)' = Declared(i)
  PROVE  /\ Outer' = Append(Outer, Environment(m)')
         /\ OuterMine' = Append(OuterMine, Declared(m)')
<1>1. m \in Nat /\ 1 <= m /\ Len(stack') = m + 1
  BY StackFacts, PushedStack
<1>2. PICK k \in Nat : m = k + 1
  <2>1. m - 1 \in Nat /\ m = (m - 1) + 1
    BY <1>1
  <2> QED BY <2>1
<1>3. m - 1 = k /\ Len(stack') - 1 = k + 1
  BY <1>1, <1>2
<1>4. Outer = [i \in 1 .. k |-> Environment(i)] /\ Outer' = [i \in 1 .. k + 1 |-> Environment(i)']
  BY <1>3 DEF Outer
<1>5. OuterMine = [i \in 1 .. k |-> Declared(i)] /\ OuterMine' = [i \in 1 .. k + 1 |-> Declared(i)']
  BY <1>3 DEF OuterMine
<1>6. \A i \in 1 .. k : Environment(i)' = Environment(i) /\ Declared(i)' = Declared(i)
  BY <1>3
<1>7. k + 1 \in 1 .. k + 1 /\ \A i \in 1 .. k : i \in 1 .. k + 1
  BY <1>2
<1>8. Outer' = Append(Outer, Environment(k + 1)')
  <2> DEFINE f == Outer
             g == Outer'
  <2>1. Longer(f, g, k)
    BY <1>4, <1>6, <1>7 DEF Longer
  <2>2. g[k + 1] = Environment(k + 1)'
    BY <1>4, <1>7
  <2> HIDE DEF f, g
  <2>3. g = Append(f, g[k + 1])
    BY <1>2, <2>1, LongerIs
  <2> QED BY <2>2, <2>3 DEF f, g
<1>9. OuterMine' = Append(OuterMine, Declared(k + 1)')
  <2> DEFINE f == OuterMine
             g == OuterMine'
  <2>1. Longer(f, g, k)
    BY <1>5, <1>6, <1>7 DEF Longer
  <2>2. g[k + 1] = Declared(k + 1)'
    BY <1>5, <1>7
  <2> HIDE DEF f, g
  <2>3. g = Append(f, g[k + 1])
    BY <1>2, <2>1, LongerIs
  <2> QED BY <2>2, <2>3 DEF f, g
<1> QED BY <1>2, <1>8, <1>9

\* A block whose table has the names D, each once, and for entries that are not in s.
OwnTable(s, t, b, D) ==
  /\ \A n \in Names : n \notin D => InTable(t, b, n) = {}
  /\ \A n \in D : \E v \in DOMAIN t \ (DOMAIN s \cup {b}) : InTable(t, b, n) = {v}

\* The entries for n in the first m scopes of ut are those in the first m of st.
SameAround(s, t, st, ut, m, n) == \A j \in 1 .. m : InTable(t, ut[j], n) = InTable(s, st[j], n)

\* What a name means in a block that does not declare it is what it means outside.
LEMMA MeansWithin ==
  ASSUME NEW s, NEW t, NEW st \in Seq(Nat), NEW ut \in Seq(Nat), NEW m \in Nat, NEW k \in Nat, k = m + 1,
         m <= Len(st), k <= Len(ut), NEW n, SameAround(s, t, st, ut, m, n), InTable(t, ut[k], n) = {}
  PROVE  Means(t, ut, k, n) = Means(s, st, m, n)
<1>1. m <= Len(ut) /\ m + 1 <= Len(ut)
  OBVIOUS
<1>2. Means(t, ut, m, n) = Means(s, st, m, n)
  BY <1>1, MeansSame DEF SameAround
<1>3. Means(t, ut, m + 1, n) = Means(t, ut, m, n)
  BY <1>1, MeansOuter
<1> QED BY <1>2, <1>3

\* A block begins with the names D of its own.
LEMMA NewScope ==
  ASSUME MeaningInv, ended = "no", NEW b \in Nat, stack' = Append(stack, b), NEW D \in SUBSET Names,
         WellFormed(ste'), OwnTable(ste, ste', b, D),
         \A d \in DOMAIN ste, n \in Names : InTable(ste', d, n) = InTable(ste, d, n)
  PROVE  /\ Outer' = Append(Outer, Here) /\ OuterMine' = Append(OuterMine, Mine)
         /\ Mine' = D
         /\ \A n \in Names : n \notin D => Here'[n] = Here[n]
         /\ NewlyMean(D, New \ {b})
         /\ Here' = [n \in Names |-> Here'[n]]
<1>0. PICK m : m = Len(stack)
  OBVIOUS
<1>1. /\ m \in Nat /\ 1 <= m /\ DOMAIN stack = 1 .. m /\ stack \in Seq(Nat)
      /\ \A i \in DOMAIN stack : stack[i] \in DOMAIN ste
  BY <1>0, StackFacts
<1>2. PICK k, ut : k = m + 1 /\ ut = stack'
  OBVIOUS
<1>3. /\ ut \in Seq(Nat) /\ Len(ut) = k /\ ut[k] = b /\ k \in Nat
      /\ \A i \in 1 .. m : ut[i] = stack[i]
      /\ m <= Len(stack) /\ m <= Len(ut) /\ k <= Len(ut)
  BY <1>0, <1>1, <1>2, PushedStack
<1>4. \A j \in 1 .. m, n \in Names : InTable(ste', stack[j], n) = InTable(ste, stack[j], n)
  BY <1>1
<1>5. \A i \in 1 .. m : Environment(i)' = Environment(i) /\ Declared(i)' = Declared(i)
  BY <1>1, <1>2, <1>3, <1>4, OutsideStays
<1>6. m \in 1 .. m /\ \A i \in 1 .. m - 1 : i \in 1 .. m
  BY <1>1
<1>7. Outer' = Append(Outer, Here) /\ OuterMine' = Append(OuterMine, Mine)
  <2>1. Environment(m)' = Here /\ Declared(m)' = Mine
    BY <1>0, <1>5, <1>6 DEF Here, Mine
  <2>2. \A i \in 1 .. m - 1 : Environment(i)' = Environment(i) /\ Declared(i)' = Declared(i)
    BY <1>5, <1>6
  <2> QED BY <1>0, <2>1, <2>2, BlockBegins
<1>8. Mine' = {n \in Names : InTable(ste', b, n) # {}}
  <2>1. Mine' = Declared(k)' /\ stack'[k] = b
    BY <1>2, <1>3 DEF Mine
  <2>2. Declared(k)' = {n \in Names : InTable(ste', stack'[k], n) # {}}
    BY DeclaredIs
  <2> QED BY <2>1, <2>2
<1>9. Mine' = D
  BY <1>8 DEF OwnTable
<1>10. Here = [n \in Names |-> Means(ste, stack, m, n)] /\ Here' = [n \in Names |-> Means(ste', stack', k, n)]
  BY <1>0, <1>2, <1>3, EnvironmentIs DEF Here
<1>11. /\ stack \in Seq(Nat) /\ ut \in Seq(Nat) /\ m \in Nat /\ k \in Nat
       /\ k = m + 1 /\ m <= Len(stack) /\ k <= Len(ut)
  BY <1>1, <1>2, <1>3
<1>12. ASSUME NEW n \in Names, n \notin D
       PROVE  Means(ste', stack', k, n) = Means(ste, stack, m, n)
  <2>1. InTable(ste', b, n) = {}
    BY <1>12 DEF OwnTable
  <2>2. PICK t : t = ste'
    OBVIOUS
  <2>3. /\ InTable(t, ut[k], n) = {}
        /\ SameAround(ste, t, stack, ut, m, n)
    BY <1>3, <1>4, <2>1, <2>2 DEF SameAround
  <2>4. Means(t, ut, k, n) = Means(ste, stack, m, n)
    BY <1>11, <2>3, MeansWithin
  <2> QED BY <1>2, <2>2, <2>4
<1>13. ASSUME NEW n \in D
       PROVE  Means(ste', stack', k, n) \in New \ {b} /\ ste'[Means(ste', stack', k, n)].name = n
  <2>1. PICK v \in New \ {b} : InTable(ste', b, n) = {v}
    BY DEF OwnTable, New
  <2>2. ste'[v].name = n
    BY <2>1 DEF InTable
  <2>3. PICK t : t = ste'
    OBVIOUS
  <2>4. /\ Only(t, ut[k], n, v)
        /\ SameAround(ste, t, stack, ut, m, n)
    BY <1>3, <1>4, <2>1, <2>3 DEF Only, SameAround
  <2>5. 1 <= k
    BY <1>11
  <2>6. Means(t, ut, k, n) = v
    BY <1>11, <2>4, <2>5, MeansOwn
  <2> QED BY <1>2, <2>1, <2>2, <2>3, <2>6
<1>14. /\ \A n \in Names : n \notin D => Here'[n] = Here[n]
       /\ NewlyMean(D, New \ {b})
       /\ Here' = [n \in Names |-> Here'[n]]
  BY <1>10, <1>12, <1>13 DEF NewlyMean
<1> QED BY <1>7, <1>9, <1>14

\* A block begins that has a name, declared in the scope around it.
LEMMA NamedScope ==
  ASSUME MeaningInv, ended = "no", NEW b \in DOMAIN ste', b \notin DOMAIN ste, stack' = Append(stack, b),
         NEW n \in Names, Enters(ste, ste', CurrentScope, {n}), Only(ste', CurrentScope, n, b)
  PROVE  /\ n \notin Mine /\ Mine' = {} /\ OuterMine' = Append(OuterMine, Mine \cup {n})
         /\ Here' = [x \in Names |-> IF x = n THEN b ELSE Here[x]]
         /\ Outer' = Append(Outer, Here')
<1>0. PICK m, k, ut, t : m = Len(stack) /\ k = m + 1 /\ ut = stack' /\ t = ste'
  OBVIOUS
<1>1. /\ m \in Nat /\ 1 <= m /\ DOMAIN stack = 1 .. m /\ stack \in Seq(Nat) /\ m <= Len(stack)
      /\ \A i \in DOMAIN stack : stack[i] \in DOMAIN ste
      /\ CurrentScope = stack[m] /\ CurrentScope \in DOMAIN ste
      /\ \A i \in 1 .. m - 1 : stack[i] # CurrentScope
  BY <1>0, StackFacts
<1>2. b \in Nat
  BY WellFormedDomain DEF Enters, Follows
<1>3. /\ ut \in Seq(Nat) /\ Len(ut) = k /\ ut[k] = b /\ k \in Nat
      /\ \A i \in 1 .. m : ut[i] = stack[i]
  BY <1>0, <1>1, <1>2, PushedStack
<1>4. /\ stack \in Seq(Nat) /\ ut \in Seq(Nat) /\ m \in Nat /\ k \in Nat
      /\ k = m + 1 /\ m <= Len(stack) /\ m <= Len(ut) /\ k <= Len(ut) /\ 1 <= m
  BY <1>0, <1>1, <1>3
<1>5. /\ \A x \in Names : InTable(t, b, x) = {}
      /\ \A d \in DOMAIN ste, x \in Names : d # CurrentScope \/ x # n => InTable(t, d, x) = InTable(ste, d, x)
      /\ InTable(ste, CurrentScope, n) = {} /\ Only(t, CurrentScope, n, b)
  BY <1>0 DEF Enters
<1>6. \A j \in 1 .. m - 1 : j \in DOMAIN stack
  BY <1>1
<1>7. \A j \in 1 .. m - 1, x \in Names : InTable(t, stack[j], x) = InTable(ste, stack[j], x)
  BY <1>1, <1>5, <1>6
<1>8. \A i \in 1 .. m - 1 : Environment(i)' = Environment(i) /\ Declared(i)' = Declared(i)
  <2>1. m - 1 \in Nat /\ m - 1 <= Len(stack) /\ m - 1 <= Len(stack')
    BY <1>0, <1>4
  <2>2. \A j \in 1 .. m - 1 : stack'[j] = stack[j]
    BY <1>0, <1>3
  <2> QED BY <1>0, <1>4, <1>7, <2>1, <2>2, OutsideStays
<1>9. ASSUME NEW x \in Names
      PROVE  Means(t, ut, m, x) = IF x = n THEN b ELSE Means(ste, stack, m, x)
  <2>1. CASE x = n
    <3>1. Only(t, ut[m], x, b)
      BY <1>1, <1>3, <1>5, <2>1
    <3>2. Means(t, ut, m, x) = b
      BY <1>4, <3>1, MeansOwn
    <3> QED BY <2>1, <3>2
  <2>2. CASE x # n
    <3>1. \A j \in 1 .. m : j \in 1 .. m - 1 \/ j = m
      BY <1>4
    <3>2. \A j \in 1 .. m : InTable(t, stack[j], x) = InTable(ste, stack[j], x)
      BY <1>1, <1>5, <1>7, <2>2, <3>1
    <3>3. \A j \in 1 .. m : InTable(t, ut[j], x) = InTable(ste, stack[j], x)
      BY <1>3, <3>2
    <3>4. Means(t, ut, m, x) = Means(ste, stack, m, x)
      BY <1>4, <3>3, MeansSame
    <3> QED BY <2>2, <3>4
  <2> QED BY <2>1, <2>2
<1>10. ASSUME NEW x \in Names
       PROVE  Means(t, ut, k, x) = Means(t, ut, m, x)
  <2>1. InTable(t, ut[k], x) = {}
    BY <1>3, <1>5
  <2>2. SameAround(t, t, ut, ut, m, x)
    BY DEF SameAround
  <2> QED BY <1>4, <2>1, <2>2, MeansWithin
<1>11. /\ Here = [x \in Names |-> Means(ste, stack, m, x)] /\ Here' = [x \in Names |-> Means(t, ut, k, x)]
       /\ Environment(m)' = [x \in Names |-> Means(t, ut, m, x)]
  <2>1. Here' = Environment(k)'
    BY <1>0, <1>3 DEF Here
  <2> QED BY <1>0, <2>1, EnvironmentIs DEF Here
<1>12. Here' = Environment(m)'
  BY <1>10, <1>11
<1>13. Here' = [x \in Names |-> IF x = n THEN b ELSE Here[x]]
  BY <1>9, <1>11, <1>12
<1>14. Mine = {x \in Names : InTable(ste, CurrentScope, x) # {}} /\ Declared(m)' = {x \in Names : InTable(t, CurrentScope, x) # {}}
  <2>1. stack'[m] = CurrentScope
    BY <1>0, <1>1, <1>3
  <2>2. Declared(m)' = {x \in Names : InTable(ste', stack'[m], x) # {}}
    BY DeclaredIs
  <2>3. Declared(m) = {x \in Names : InTable(ste, stack[m], x) # {}} /\ Mine = Declared(m)
    BY <1>0, DeclaredIs DEF Mine
  <2> QED BY <1>0, <1>1, <2>1, <2>2, <2>3
<1>15. n \notin Mine /\ Declared(m)' = Mine \cup {n}
  BY <1>5, <1>1, <1>14 DEF Only
<1>16. Mine' = {}
  <2>1. Mine' = Declared(k)' /\ stack'[k] = b
    BY <1>0, <1>3 DEF Mine
  <2>2. Declared(k)' = {x \in Names : InTable(ste', stack'[k], x) # {}}
    BY DeclaredIs
  <2> QED BY <1>0, <1>5, <2>1, <2>2
<1>17. Outer' = Append(Outer, Here') /\ OuterMine' = Append(OuterMine, Mine \cup {n})
  BY <1>0, <1>2, <1>8, <1>12, <1>15, BlockBegins
<1> QED BY <1>13, <1>15, <1>16, <1>17

\* A block ends.
LEMMA ScopeEnds ==
  ASSUME MeaningInv, ended = "no", Len(stack) > 1, LeaveScope, Enters(ste, ste', CurrentScope, {})
  PROVE  /\ Outer # <<>> /\ Here' = Last(Outer) /\ Outer' = Front(Outer)
         /\ Mine' = Last(OuterMine) /\ OuterMine' = Front(OuterMine) /\ stack' = Front(stack)
<1>1. /\ stack \in Seq(Nat) /\ Len(stack) \in Nat /\ 1 <= Len(stack) /\ DOMAIN stack = 1 .. Len(stack)
      /\ \A i \in DOMAIN stack : stack[i] \in DOMAIN ste
  BY StackFacts
<1>2. PICK k \in Nat : Len(stack) = k + 2
  <2>1. Len(stack) - 2 \in Nat /\ Len(stack) = (Len(stack) - 2) + 2
    BY <1>1
  <2> QED BY <2>1
<1>3. stack' = Front(stack)
  BY DEF LeaveScope, Popped
<1>4. stack # <<>>
  BY <1>1
<1>5. stack' \in Seq(Nat) /\ Len(stack') = k + 1 /\ \A i \in 1 .. k + 1 : stack'[i] = stack[i]
  <2>1. /\ Front(stack) \in Seq(Nat) /\ Len(Front(stack)) = Len(stack) - 1
        /\ \A i \in 1 .. Len(stack) - 1 : Front(stack)[i] = stack[i]
    BY <1>1, <1>4, FrontAndLast
  <2>2. Len(stack) - 1 = k + 1
    BY <1>2
  <2> QED BY <1>3, <2>1, <2>2
<1>6. k + 1 \in 1 .. k + 1 /\ (\A i \in 1 .. k : i \in 1 .. k + 1) /\ \A j \in 1 .. k + 1 : j \in DOMAIN stack
  BY <1>1, <1>2
<1>7. \A i \in 1 .. k + 1 : Environment(i)' = Environment(i) /\ Declared(i)' = Declared(i)
  <2>1. \A j \in 1 .. k + 1, n \in Names : InTable(ste', stack[j], n) = InTable(ste, stack[j], n)
    BY <1>1, <1>6 DEF Enters
  <2>2. k + 1 \in Nat /\ k + 1 <= Len(stack) /\ k + 1 <= Len(stack')
    BY <1>2, <1>5
  <2> QED BY <1>1, <1>5, <2>1, <2>2, OutsideStays
<1>8. Len(stack) - 1 = k + 1 /\ Len(stack') - 1 = k
  BY <1>2, <1>5
<1>9. Here' = Environment(k + 1) /\ Mine' = Declared(k + 1)
  BY <1>5, <1>6, <1>7 DEF Here, Mine
<1>10. Here' = Last(Outer) /\ Outer' = Front(Outer) /\ Outer # <<>>
  <2>1. PICK f, g : f = Outer' /\ g = Outer
    OBVIOUS
  <2>2. g = [i \in 1 .. k + 1 |-> Environment(i)] /\ f = [i \in 1 .. k |-> Environment(i)']
    BY <1>8, <2>1 DEF Outer
  <2>3. Longer(f, g, k)
    BY <1>6, <1>7, <2>2 DEF Longer
  <2>4. g[k + 1] = Environment(k + 1)
    BY <1>6, <2>2
  <2>5. g # <<>> /\ Front(g) = f /\ Last(g) = g[k + 1]
    BY <1>2, <2>3, LongerIs
  <2> QED BY <1>9, <2>1, <2>4, <2>5
<1>11. Mine' = Last(OuterMine) /\ OuterMine' = Front(OuterMine)
  <2>1. PICK f, g : f = OuterMine' /\ g = OuterMine
    OBVIOUS
  <2>2. g = [i \in 1 .. k + 1 |-> Declared(i)] /\ f = [i \in 1 .. k |-> Declared(i)']
    BY <1>8, <2>1 DEF OuterMine
  <2>3. Longer(f, g, k)
    BY <1>6, <1>7, <2>2 DEF Longer
  <2>4. g[k + 1] = Declared(k + 1)
    BY <1>6, <2>2
  <2>5. g # <<>> /\ Front(g) = f /\ Last(g) = g[k + 1]
    BY <1>2, <2>3, LongerIs
  <2> QED BY <1>9, <2>1, <2>4, <2>5
<1> QED BY <1>3, <1>10, <1>11

\* The entries, as the things LexicalScoping has.
Sort == [e \in DOMAIN ste |-> [kind |-> ste[e].kind, name |-> ste[e].name]]

\* The new entries are within the bound.
Roomy == Len(ste') <= MaxEntries \/ Len(ste') = Len(ste)

\* The entries of s are in t, and still what they are.
Keeps(s, t) == Follows(s, t) /\ \A d \in DOMAIN s : t[d].name = s[d].name

LEMMA KeepsOn ==
  ASSUME NEW s, NEW t, NEW u, WellFormed(s), Keeps(s, t), Keeps(t, u)
  PROVE  Keeps(s, u)
<1>1. Follows(s, u) /\ DOMAIN s \subseteq DOMAIN t
  BY FollowsOn, FollowsDomain DEF Keeps
<1> QED BY <1>1 DEF Keeps

\* New entries are made, and the others stay what they are.
LEMMA Made ==
  ASSUME MeaningInv, Accepted, Accepted', Keeps(ste, ste'), Roomy
  PROVE  \E T \in SUBSET (1 .. MaxEntries \ DOMAIN Sort) : T = New /\ Lexical!Make(T)
<1>1. DOMAIN ste = 1 .. Len(ste) /\ Len(ste) \in Nat /\ WellFormed(ste)
  BY StackFacts DEF Accepted
<1>2. /\ Follows(ste, ste') /\ \A d \in DOMAIN ste : ste'[d].name = ste[d].name /\ ste'[d].kind = ste[d].kind
  BY DEF Keeps, Follows
<1>3. DOMAIN ste' = 1 .. Len(ste') /\ Len(ste') \in Nat /\ DOMAIN ste \subseteq DOMAIN ste' /\ MaxEntries \in Nat
  BY <1>1, <1>2, FollowsDomain, WellFormedDomain, ScopesAssumption DEF Follows
<1>4. New \in SUBSET (1 .. MaxEntries \ DOMAIN Sort)
  <2>1. DOMAIN Sort = DOMAIN ste
    BY DEF Sort
  <2>2. ASSUME NEW e \in New
        PROVE  e \in 1 .. MaxEntries
    <3>1. PICK m, k : m = Len(ste) /\ k = Len(ste')
      OBVIOUS
    <3>2. e \in 1 .. k /\ e \notin 1 .. m /\ m \in Nat /\ k \in Nat
      BY <1>1, <1>3, <3>1 DEF New
    <3>3. k <= MaxEntries \/ k = m
      BY <3>1 DEF Roomy
    <3> QED BY <1>3, <3>2, <3>3
  <2>3. \A e \in New : e \notin DOMAIN ste
    BY DEF New
  <2> QED BY <2>1, <2>2, <2>3
<1>5. DOMAIN Sort' = DOMAIN Sort \cup New
  BY <1>3 DEF New, Sort
<1>6. \A t \in DOMAIN Sort : Sort'[t] = Sort[t]
  BY <1>2, <1>3 DEF Sort
<1>7. PICK T : T = New
  OBVIOUS
<1>8. Lexical!Make(T)
  BY <1>5, <1>6, <1>7 DEF Lexical!Make, Sort
<1> QED BY <1>4, <1>7, <1>8

\* A step of a program that is accepted.
LEMMA Moves ==
  ASSUME Accepted, NEW T \in SUBSET (1 .. MaxEntries \ DOMAIN Sort), Lexical!Make(T),
         \/ \E N \in SUBSET Names : Lexical!Declare(N, T) \/ Lexical!Open(N, T)
         \/ \E n \in Names : Lexical!OpenNamed(n, T)
         \/ Lexical!Close
  PROVE  Lexical!Move
<1>1. (IF Accepted THEN [e \in DOMAIN ste |-> [kind |-> ste[e].kind, name |-> ste[e].name]] ELSE <<>>) = Sort
  BY DEF Sort
<1>2. T \in SUBSET (1 .. MaxEntries \ DOMAIN (IF Accepted
        THEN [e \in DOMAIN ste |-> [kind |-> ste[e].kind, name |-> ste[e].name]] ELSE <<>>))
  BY <1>1, Zenon
<1> QED BY <1>2, Zenon DEF Lexical!Move

\* Names get their meanings out of the new entries T.
LEMMA Binds ==
  ASSUME Accepted, Accepted', NEW D \in SUBSET Names, NEW T \in SUBSET New, NewlyMean(D, T),
         \A n \in Names : n \notin D => Here'[n] = Here[n],
         Here' = [n \in Names |-> Here'[n]]
  PROVE  Lexical!Bind(D, T)
<1> DEFINE decls == [n \in D |-> Here'[n]]
<1>1. decls \in [D -> T]
  BY DEF NewlyMean
<1>2. \A n \in D : Sort'[decls[n]].name = n
  BY DEF Sort, NewlyMean, New
<1>3. Here' = [n \in Names |-> IF n \in D THEN decls[n] ELSE Here[n]]
  OBVIOUS
<1> HIDE DEF decls
<1> QED BY <1>1, <1>2, <1>3 DEF Lexical!Bind, Here, Sort

\* A declaration, as LexicalScoping has it,
LEMMA DeclareStep ==
  ASSUME MeaningInv, Accepted, Accepted', UNCHANGED stack, NEW D \in SUBSET Names,
         Enters(ste, ste', CurrentScope, D), Roomy
  PROVE  Lexical!Move
<1>1. /\ OutsideSame
      /\ Mine' = Mine \cup D /\ Mine \cap D = {}
      /\ \A n \in Names : n \notin D => Here'[n] = Here[n]
      /\ NewlyMean(D, New)
      /\ Here' = [n \in Names |-> Here'[n]]
  BY SameScopes DEF Accepted
<1>2. PICK T \in SUBSET (1 .. MaxEntries \ DOMAIN Sort) : T = New /\ Lexical!Make(T)
  BY Made DEF Keeps, Enters
<1>3. Lexical!Bind(D, T)
  BY <1>1, <1>2, Binds
<1>4. Lexical!Declare(D, T)
  BY <1>1, <1>3 DEF Lexical!Declare, OutsideSame, Outer, OuterMine, Mine
<1> QED BY <1>2, <1>4, Moves

\* a block that begins without a name,
LEMMA OpenStep ==
  ASSUME MeaningInv, Accepted, Accepted', NEW b \in New, stack' = Append(stack, b), NEW D \in SUBSET Names,
         WellFormed(ste'), OwnTable(ste, ste', b, D), Keeps(ste, ste'), Roomy,
         \A d \in DOMAIN ste, n \in Names : InTable(ste', d, n) = InTable(ste, d, n)
  PROVE  Lexical!Move
<1>1. b \in Nat
  BY WellFormedDomain DEF New
<1>2. /\ Outer' = Append(Outer, Here) /\ OuterMine' = Append(OuterMine, Mine)
      /\ Mine' = D
      /\ \A n \in Names : n \notin D => Here'[n] = Here[n]
      /\ NewlyMean(D, New \ {b})
      /\ Here' = [n \in Names |-> Here'[n]]
  BY <1>1, NewScope DEF Accepted
<1>3. PICK T \in SUBSET (1 .. MaxEntries \ DOMAIN Sort) : T = New /\ Lexical!Make(T)
  BY Made
<1>4. Lexical!Bind(D, T \ {b})
  <2>1. PICK U : U = T \ {b}
    OBVIOUS
  <2>2. U \in SUBSET New /\ NewlyMean(D, U)
    BY <1>2, <1>3, <2>1
  <2>3. Lexical!Bind(D, U)
    BY <1>2, <2>2, Binds
  <2> QED BY <2>1, <2>3
<1>5. Lexical!Open(D, T)
  BY <1>2, <1>3, <1>4 DEF Lexical!Open, Outer, OuterMine, Mine, Here
<1> QED BY <1>3, <1>5, Moves

\* a block that begins with one,
LEMMA OpenNamedStep ==
  ASSUME MeaningInv, Accepted, Accepted', NEW b \in New, stack' = Append(stack, b),
         NEW n \in Names, Enters(ste, ste', CurrentScope, {n}), Only(ste', CurrentScope, n, b), Roomy
  PROVE  Lexical!Move
<1>1. b \in DOMAIN ste' /\ b \notin DOMAIN ste
  BY DEF New
<1>2. /\ n \notin Mine /\ Mine' = {} /\ OuterMine' = Append(OuterMine, Mine \cup {n})
      /\ Here' = [x \in Names |-> IF x = n THEN b ELSE Here[x]]
      /\ Outer' = Append(Outer, Here')
  BY <1>1, NamedScope DEF Accepted
<1>3. Sort'[b].name = n
  <2>1. ste'[b].name = n
    BY DEF Only, InTable
  <2> QED BY <1>1, <2>1 DEF Sort
<1>4. Here = [x \in Names |-> Here[x]]
  BY DEF Here, Environment
<1>5. Here' = [Here EXCEPT ![n] = b]
  BY <1>2, <1>4
<1>6. PICK T \in SUBSET (1 .. MaxEntries \ DOMAIN Sort) : T = New /\ Lexical!Make(T)
  BY Made DEF Keeps, Enters
<1>7. Lexical!OpenNamed(n, T)
  BY <1>2, <1>3, <1>5, <1>6 DEF Lexical!OpenNamed, Outer, OuterMine, Mine, Here, Sort
<1> QED BY <1>6, <1>7, Moves

\* the end of a block,
LEMMA CloseStep ==
  ASSUME MeaningInv, Accepted, Accepted', Len(stack) > 1, LeaveScope, Enters(ste, ste', CurrentScope, {}), Roomy
  PROVE  Lexical!Move
<1>1. /\ Outer # <<>> /\ Here' = Last(Outer) /\ Outer' = Front(Outer)
      /\ Mine' = Last(OuterMine) /\ OuterMine' = Front(OuterMine) /\ stack' = Front(stack)
  BY ScopeEnds DEF Accepted
<1>2. Lexical!Close
  BY <1>1 DEF Lexical!Close, Lexical!Last, Lexical!Front, Last, Front, Outer, OuterMine, Mine, Here
<1>3. PICK T \in SUBSET (1 .. MaxEntries \ DOMAIN Sort) : T = New /\ Lexical!Make(T)
  BY Made DEF Keeps, Enters
<1> QED BY <1>2, <1>3, Moves

\* and a step that changes no scope.
LEMMA StandStep ==
  ASSUME MeaningInv, Accepted, Accepted', UNCHANGED <<ste, stack>>
  PROVE  Lexical!Move
<1>1. WellFormed(ste) /\ CurrentScope \in DOMAIN ste /\ {} \in SUBSET Names
  BY StackFacts DEF Accepted
<1>2. Enters(ste, ste', CurrentScope, {})
  BY <1>1, EntersNothing DEF SameButCounts
<1> QED BY <1>1, <1>2, DeclareStep DEF Roomy

-----------------------------------------------------------------------------
(* The actions.                                                            *)

\* A name is looked up on the whole stack.
LEMMA LookedUp ==
  ASSUME MeaningInv, ended = "no"
  PROVE  \A n \in Names : LookUp(n) = Here[n]
<1>1. SubSeq(stack, 1, Len(stack)) = stack
  <2>1. stack \in Seq(Nat) /\ Len(stack) \in Nat
    BY StackFacts
  <2>2. Len(stack) \in 0 .. Len(stack)
    BY <2>1
  <2> QED BY <2>1, <2>2, Prefix
<1>2. \A n \in Names : LookUp(n) = Here[n]
  BY <1>1 DEF LookUp, Here, Environment
<1> QED BY <1>2

\* A step after which the program is still accepted has complained of nothing.
LEMMA NothingWrong ==
  ASSUME Accepted, Accepted', NEW n \in Nat, errors' = Counting(n)
  PROVE  n = 0
<1>1. errors = 0 /\ errors' = 0 /\ MAX_ERROR_BEFORE_QUIT \in Nat
  BY ScopesAssumption DEF Accepted
<1> QED BY <1>1 DEF Counting

\* An entry of a name that is not complained of is the first of that name.
LEMMA NotThere ==
  ASSUME Accepted, Accepted', NEW entry, entry.name \in Names, Complain(Duplicate(ste, CurrentScope, entry))
  PROVE  InTable(ste, CurrentScope, entry.name) = {}
<1>1. PICK k \in {0, 1} : ErrMsg(k) /\ (Duplicate(ste, CurrentScope, entry) <=> k = 1)
  BY ComplainIs, DuplicateIs
<1>2. k = 0
  BY <1>1, NothingWrong DEF ErrMsg
<1> QED BY <1>1, <1>2, ScopesAssumption DEF Duplicate

\* Variables are declared;
LEMMA VarDecMeans ==
  ASSUME MeaningInv, Accepted, Accepted', NEW list \in VarLists, NEW type \in VarTypes, VarDec(list, type)
  PROVE  Lexical!Move
<1> DEFINE D == NamesTo(list, Len(list))
<1>1. /\ ste' = VarListEntry(ste, CurrentScope, list, type)
      /\ ErrMsg(Repeated(ste, CurrentScope, list)) /\ Room(Len(list))
      /\ UNCHANGED stack
  BY DEF VarDec
<1>2. /\ list \in Seq(ToSet(list))
      /\ \A d \in ToSet(list) : d.name # NoName /\ d.init \in Names \cup {NoName}
  BY ScopesAssumption
<1>3. WellFormed(ste) /\ CurrentScope \in DOMAIN ste
  BY StackFacts DEF Accepted
<1>4. Repeated(ste, CurrentScope, list) = 0
  <2>1. Repeated(ste, CurrentScope, list) \in Nat
    BY <1>2, RepeatedIs
  <2> QED BY <1>1, <2>1, NothingWrong DEF ErrMsg
<1>5. Enters(ste, ste', CurrentScope, D) /\ Len(ste') = Len(ste) + Len(list)
  BY <1>1, <1>2, <1>3, <1>4, VarListEnters
<1>6. D \in SUBSET Names
  BY DEF NamesTo
<1>7. Roomy
  BY <1>1, <1>5 DEF Room, Roomy
<1> HIDE DEF D
<1> QED BY <1>1, <1>5, <1>6, <1>7, DeclareStep

\* a class;
LEMMA ClassDecMeans ==
  ASSUME MeaningInv, Accepted, Accepted', NEW n \in Names, ClassDec(n)
  PROVE  Lexical!Move
<1> DEFINE entry == Entry("CLASS", n)
<1>1. /\ ste' = Insert(ste, CurrentScope, entry) /\ Complain(Duplicate(ste, CurrentScope, entry))
      /\ Room(1) /\ UNCHANGED stack
  BY DEF ClassDec
<1>2. Bare(entry) /\ entry.name = n
  BY BareEntries
<1>3. WellFormed(ste) /\ CurrentScope \in DOMAIN ste
  BY StackFacts DEF Accepted
<1> HIDE DEF entry
<1>4. InTable(ste, CurrentScope, n) = {}
  BY <1>1, <1>2, NotThere
<1>5. Enters(ste, ste', CurrentScope, {entry.name} \cap Names) /\ Len(ste') = Len(ste) + 1
  BY <1>1, <1>2, <1>3, <1>4, InsertEnters
<1>6. {entry.name} \cap Names = {n}
  BY <1>2
<1>7. Roomy
  BY <1>1, <1>5 DEF Room, Roomy
<1> QED BY <1>1, <1>5, <1>6, <1>7, DeclareStep

\* a parameter.
LEMMA FormalParamMeans ==
  ASSUME MeaningInv, Accepted, Accepted', NEW n \in Names, NEW type \in VarTypes, FormalParam(n, type)
  PROVE  Lexical!Move
<1> DEFINE v == Param(ste, CurrentScope, n, type)
<1>1. /\ ste' = Insert(ParamCounted(ste, CurrentScope, type), CurrentScope, v)
      /\ UNCHANGED stack
      /\ \E k \in 0 .. 3 : ErrMsg(k) /\ (k = 0 => ~Duplicate(ste, CurrentScope, v))
  BY FormalParamIs
<1>2. Room(1)
  BY DEF FormalParam
<1>3. WellFormed(ste) /\ CurrentScope \in DOMAIN ste
  BY StackFacts DEF Accepted
<1>4. v.name = n
  BY <1>3, ParamIs
<1>5. InTable(ste, CurrentScope, n) = {}
  <2> HIDE DEF v
  <2>1. PICK k \in 0 .. 3 : ErrMsg(k) /\ (k = 0 => ~Duplicate(ste, CurrentScope, v))
    BY <1>1
  <2>2. k = 0
    BY <2>1, NothingWrong DEF ErrMsg
  <2> QED BY <1>4, <2>1, <2>2, ScopesAssumption DEF Duplicate
<1>6. Enters(ste, ste', CurrentScope, {n}) /\ Len(ste') = Len(ste) + 1
  BY <1>1, <1>3, <1>5, ParameterEnters
<1>7. Roomy
  BY <1>2, <1>6 DEF Room, Roomy
<1> QED BY <1>1, <1>6, <1>7, DeclareStep

\* The header of an event or of a function declares its name and begins its block.
LEMMA HeaderMeans ==
  ASSUME MeaningInv, Accepted, Accepted', NEW n \in Names, NEW kind, InsertAndEnter(Entry(kind, n)),
         Room(1)
  PROVE  Lexical!Move
<1> DEFINE entry == Entry(kind, n)
           b == Len(ste) + 1
<1>1. /\ ste' = Insert(ste, CurrentScope, entry) /\ Complain(Duplicate(ste, CurrentScope, entry))
      /\ stack' = Append(stack, b)
  <2>1. ~TooDeep
    BY DEF InsertAndEnter, Accepted
  <2> QED BY <2>1 DEF InsertAndEnter, EnterScope
<1>2. Bare(entry) /\ entry.name = n
  BY BareEntries
<1>3. WellFormed(ste) /\ CurrentScope \in DOMAIN ste /\ Len(ste) \in Nat /\ DOMAIN ste = 1 .. Len(ste)
  BY StackFacts DEF Accepted
<1> HIDE DEF entry
<1>4. InTable(ste, CurrentScope, n) = {}
  BY <1>1, <1>2, NotThere
<1>5. Enters(ste, ste', CurrentScope, {entry.name} \cap Names) /\ Len(ste') = Len(ste) + 1
  BY <1>1, <1>2, <1>3, <1>4, InsertEnters
<1>6. {entry.name} \cap Names = {n}
  BY <1>2
<1>7. Roomy
  BY <1>5 DEF Room, Roomy
<1>8. b \in New
  <2>1. DOMAIN ste' = 1 .. Len(ste')
    BY <1>5, WellFormedDomain DEF Enters, Follows
  <2> QED BY <1>3, <1>5, <2>1 DEF New
<1>9. Only(ste', CurrentScope, n, b)
  <2>1. ~Duplicate(ste, CurrentScope, entry)
    BY <1>2, <1>4 DEF Duplicate
  <2>2. PICK t : t = ste'
    OBVIOUS
  <2>3. WellFormed(t) /\ Adds(ste, t, CurrentScope, entry, TRUE)
    BY <1>1, <1>2, <1>3, <2>1, <2>2, Inserted
  <2>4. t[b] = entry /\ t[CurrentScope].syms = Append(ste[CurrentScope].syms, b)
    BY <2>3 DEF Adds
  <2>5. ToSet(t[CurrentScope].syms) = ToSet(ste[CurrentScope].syms) \cup {b}
    <3>1. ste[CurrentScope].syms \in Seq(1 .. Len(ste))
      BY <1>3, WellFormedDomain DEF IsEntry
    <3> QED BY <2>4, <3>1, ToSetAppend
  <2>6. b \in InTable(t, CurrentScope, n)
    BY <1>2, <2>4, <2>5 DEF InTable
  <2>7. n \in {entry.name} \cap Names
    BY <1>2
  <2>8. \E v : InTable(ste', CurrentScope, n) = {v}
    BY <1>5, <2>7 DEF Enters
  <2> QED BY <2>2, <2>6, <2>8 DEF Only
<1> HIDE DEF b
<1> QED BY <1>1, <1>5, <1>6, <1>7, <1>8, <1>9, OpenNamedStep

\* A new entry begins a block with the names G, of its own, in t.
LEMMA NewOwn ==
  ASSUME NEW s, NEW t, NEW u, WellFormed(s), NEW scope, NEW b \in DOMAIN t, b \notin DOMAIN s,
         Enters(s, t, scope, {}), NEW G \in SUBSET Names, Enters(t, u, b, G)
  PROVE  /\ WellFormed(u) /\ b \in DOMAIN u /\ OwnTable(s, u, b, G)
         /\ \A d \in DOMAIN s, n \in Names : InTable(u, d, n) = InTable(s, d, n)
<1>1. Follows(s, t) /\ Follows(t, u)
  BY DEF Enters
<1>2. DOMAIN s \subseteq DOMAIN t /\ DOMAIN t \subseteq DOMAIN u /\ WellFormed(t) /\ WellFormed(u)
  BY <1>1, FollowsDomain
<1>3. ASSUME NEW d \in DOMAIN s, NEW n \in Names
      PROVE  InTable(u, d, n) = InTable(s, d, n)
  <2>1. d # b /\ d \in DOMAIN t
    BY <1>2
  <2>2. InTable(u, d, n) = InTable(t, d, n)
    BY <2>1 DEF Enters
  <2>3. InTable(t, d, n) = InTable(s, d, n)
    BY DEF Enters
  <2> QED BY <2>2, <2>3
<1>4. OwnTable(s, u, b, G)
  <2>1. ASSUME NEW n \in Names, n \notin G
        PROVE  InTable(u, b, n) = {}
    <3>1. InTable(u, b, n) = InTable(t, b, n)
      BY <2>1 DEF Enters
    <3>2. InTable(t, b, n) = {}
      BY DEF Enters
    <3> QED BY <3>1, <3>2
  <2>2. \A n \in G : \E v \in DOMAIN u \ DOMAIN t : InTable(u, b, n) = {v}
    BY DEF Enters
  <2> QED BY <1>2, <2>1, <2>2 DEF OwnTable
<1> QED BY <1>2, <1>3, <1>4

\* A loop begins a block with no names.
LEMMA WhileHdrMeans ==
  ASSUME MeaningInv, Accepted, Accepted', WhileHdr
  PROVE  Lexical!Move
<1> DEFINE b == Len(ste) + 1
<1>1. /\ ste' = Insert(WhileCounted(ste, CurrentScope), CurrentScope, WhileBlock(NewLabel))
      /\ stack' = Append(stack, b) /\ Room(1)
  <2>1. ~TooDeep
    BY DEF WhileHdr, Accepted
  <2> QED BY <2>1 DEF WhileHdr, WhileCounted, EnterScope
<1>2. WellFormed(ste) /\ CurrentScope \in DOMAIN ste /\ Len(ste) \in Nat /\ DOMAIN ste = 1 .. Len(ste)
  BY StackFacts DEF Accepted
<1>3. Enters(ste, ste', CurrentScope, {}) /\ Len(ste') = Len(ste) + 1
  BY <1>1, <1>2, LoopEnters
<1>4. WellFormed(ste') /\ DOMAIN ste' = 1 .. Len(ste')
  BY <1>3, WellFormedDomain DEF Enters, Follows
<1>5. b \in New /\ b \in DOMAIN ste' /\ b \notin DOMAIN ste
  BY <1>2, <1>3, <1>4 DEF New
<1> HIDE DEF b
<1>6. OwnTable(ste, ste', b, {})
  BY <1>3, <1>5 DEF OwnTable, Enters
<1>7. \A d \in DOMAIN ste, n \in Names : InTable(ste', d, n) = InTable(ste, d, n)
  BY <1>3 DEF Enters
<1>8. Roomy
  BY <1>1, <1>3 DEF Room, Roomy
<1>9. {} \in SUBSET Names /\ Keeps(ste, ste')
  BY <1>3 DEF Keeps, Enters
<1> QED BY <1>1, <1>4, <1>5, <1>6, <1>7, <1>8, <1>9, OpenStep

\* The table of a rule, and how many entries there are with it.
LEMMA RuleFacts ==
  ASSUME MeaningInv, ended = "no"
  PROVE  /\ WellFormed(ste) /\ WellFormed(RuleTable) /\ RuleScope \in DOMAIN RuleTable
         /\ Enters(ste, RuleTable, CurrentScope, {})
         /\ Len(ste) \in Nat /\ Len(RuleTable) \in Nat /\ Len(RuleTable) <= Len(ste) + 1
         /\ InRule => RuleTable = ste /\ RuleScope = CurrentScope
         /\ ~InRule => RuleScope \notin DOMAIN ste
<1>1. WellFormed(ste) /\ CurrentScope \in DOMAIN ste /\ Len(ste) \in Nat /\ DOMAIN ste = 1 .. Len(ste)
  BY StackFacts
<1>2. /\ Follows(ste, RuleTable) /\ RuleScope \in DOMAIN RuleTable
      /\ InRule => RuleTable = ste /\ RuleScope = CurrentScope
      /\ ~InRule => /\ RuleTable = Append(ste, Entry("RULE_BLOCK", NoName))
                    /\ RuleScope = Len(ste) + 1
  BY <1>1, RuleTableIs
<1>3. WellFormed(RuleTable) /\ Len(RuleTable) \in Nat
  BY <1>1, <1>2, FollowsDomain
<1>4. Len(RuleTable) <= Len(ste) + 1
  <2>1. Len(Append(ste, Entry("RULE_BLOCK", NoName))) = Len(ste) + 1
    BY <1>1, BareEntries, AppendFollows
  <2> QED BY <1>1, <1>2, <2>1
<1>5. ~InRule => RuleScope \notin DOMAIN ste
  BY <1>1, <1>2
<1> QED BY <1>1, <1>2, <1>3, <1>4, <1>5, RuleEnters

\* A pattern that names any event begins the block of a rule, or goes on in it.
LEMMA AnyEventMeans ==
  ASSUME MeaningInv, Accepted, Accepted', AnyEvent
  PROVE  Lexical!Move
<1>1. /\ ste' = RuleTable /\ stack' = IF InRule THEN stack ELSE Append(stack, RuleScope)
      /\ Room(1)
  BY DEF AnyEvent, EnterRule
<1>2. /\ WellFormed(ste) /\ WellFormed(RuleTable) /\ RuleScope \in DOMAIN RuleTable
      /\ Enters(ste, RuleTable, CurrentScope, {})
      /\ Len(ste) \in Nat /\ Len(RuleTable) \in Nat /\ Len(RuleTable) <= Len(ste) + 1
      /\ ~InRule => RuleScope \notin DOMAIN ste
  BY RuleFacts DEF Accepted
<1>3. Roomy
  BY <1>1, <1>2, ScopesAssumption DEF Room, Roomy
<1>4. {} \in SUBSET Names /\ Keeps(ste, ste')
  BY <1>1, <1>2 DEF Keeps, Enters
<1>5. CASE InRule
  <2>1. UNCHANGED stack
    BY <1>1, <1>5
  <2> QED BY <1>1, <1>2, <1>3, <1>4, <2>1, DeclareStep
<1>6. CASE ~InRule
  <2>1. stack' = Append(stack, RuleScope) /\ RuleScope \in New /\ RuleScope \notin DOMAIN ste /\ WellFormed(ste')
    BY <1>1, <1>2, <1>6 DEF New
  <2>2. Enters(RuleTable, RuleTable, RuleScope, {})
    BY <1>2, EntersNothing DEF SameButCounts
  <2>3. /\ OwnTable(ste, ste', RuleScope, {})
        /\ \A d \in DOMAIN ste, n \in Names : InTable(ste', d, n) = InTable(ste, d, n)
    BY <1>1, <1>2, <1>4, <2>1, <2>2, NewOwn
  <2> QED BY <1>1, <1>3, <1>4, <2>1, <2>3, OpenStep
<1> QED BY <1>5, <1>6

\* A pattern that names an event gives names to its parameters, each once.
LEMMA NormalEventIs ==
  ASSUME MeaningInv, Accepted, Accepted', NEW n \in Names, NEW names \in PatternArgs, NormalEvent(n, names)
  PROVE  \E e \in 0 .. Len(ste), given \in Seq(Names) :
           /\ ste' = Bound(RuleTable, RuleScope, e, given) /\ Len(given) <= Len(names) /\ Len(names) \in Nat
           /\ Repeated(RuleTable, RuleScope, AsDeclarators(given)) = 0
<1> DEFINE e == LookUp(n)
           known == e # 0 /\ ste[e].kind = "EVENT"
           given == IF known THEN Given(e, names) ELSE <<>>
           list == AsDeclarators(given)
<1>1. /\ ste' = Bound(RuleTable, RuleScope, e, given) /\ ErrMsg(Repeated(RuleTable, RuleScope, list))
  BY DEF NormalEvent, AsDeclarators
<1>2. /\ DOMAIN ste = 1 .. Len(ste) /\ Len(ste) \in Nat /\ WellFormed(ste)
      /\ \A d \in DOMAIN ste : ste[d].syms \in Seq(1 .. Len(ste))
  BY WellFormedDomain DEF MeaningInv, ShapeInv, Shape, IsEntry
<1>3. e \in 0 .. Len(ste)
  BY <1>2, LookUpIn DEF LookUp, MeaningInv, ShapeInv, Shape, StackOK
<1> HIDE DEF e
<1>4. names \in Seq(Names) /\ Len(names) \in Nat
  BY ScopesAssumption
<1>5. given \in Seq(Names) /\ Len(given) <= Len(names)
  <2>1. known => ste[e].syms \in Seq(Nat)
    <3>1. known => e \in DOMAIN ste
      BY <1>2, <1>3
    <3>2. 1 .. Len(ste) \subseteq Nat
      BY <1>2
    <3> QED BY <1>2, <3>1, <3>2
  <2>2. known => Given(e, names) \in Seq(Names) /\ Len(Given(e, names)) <= Len(names)
    BY <1>4, <2>1, GivenIs
  <2>3. <<>> \in Seq(Names) /\ Len(<<>>) <= Len(names)
    BY <1>4
  <2> QED BY <2>2, <2>3
<1> HIDE DEF given
<1>6. Repeated(RuleTable, RuleScope, list) = 0
  <2>1. DOMAIN given = 1 .. Len(given) /\ Len(given) \in Nat
    BY <1>5
  <2>2. list \in [1 .. Len(given) -> ToSet(list)]
    BY <2>1 DEF ToSet, AsDeclarators
  <2> HIDE DEF list
  <2>3. list \in Seq(ToSet(list))
    BY <2>1, <2>2, FunctionIsSeq
  <2>4. Repeated(RuleTable, RuleScope, list) \in Nat
    BY <2>3, RepeatedIs
  <2> QED BY <1>1, <2>4, NothingWrong DEF ErrMsg
<1> QED BY <1>1, <1>3, <1>4, <1>5, <1>6 DEF e

\* Those names are declared in the block of the rule, which it begins if there is none yet.
LEMMA NormalEventMeans ==
  ASSUME MeaningInv, Accepted, Accepted', NEW n \in Names, NEW names \in PatternArgs, NormalEvent(n, names)
  PROVE  Lexical!Move
<1>1. PICK e \in 0 .. Len(ste), given \in Seq(Names) :
           /\ ste' = Bound(RuleTable, RuleScope, e, given) /\ Len(given) <= Len(names) /\ Len(names) \in Nat
           /\ Repeated(RuleTable, RuleScope, AsDeclarators(given)) = 0
  BY NormalEventIs
<1>2. Room(1 + Len(names)) /\ stack' = IF InRule THEN stack ELSE Append(stack, RuleScope)
  BY DEF NormalEvent, EnterRule
<1>3. /\ WellFormed(ste) /\ WellFormed(RuleTable) /\ RuleScope \in DOMAIN RuleTable
      /\ Enters(ste, RuleTable, CurrentScope, {})
      /\ Len(ste) \in Nat /\ Len(RuleTable) \in Nat /\ Len(RuleTable) <= Len(ste) + 1
      /\ InRule => RuleTable = ste /\ RuleScope = CurrentScope
      /\ ~InRule => RuleScope \notin DOMAIN ste
  BY RuleFacts DEF Accepted
<1> DEFINE D == GivenTo(given, Len(given))
<1>4. Enters(RuleTable, ste', RuleScope, D) /\ Len(ste') = Len(RuleTable) + Len(given)
  BY <1>1, <1>3, BoundEnters
<1>5. D \in SUBSET Names
  BY DEF GivenTo
<1>6. Roomy
  <2>1. Len(ste) + (1 + Len(names)) <= MaxEntries /\ MaxEntries \in Nat /\ Len(given) \in Nat
    BY <1>2, ScopesAssumption DEF Room
  <2> QED BY <1>1, <1>3, <1>4, <2>1 DEF Roomy
<1> HIDE DEF D
<1>7. Enters(ste, ste', CurrentScope, D) \/ ~InRule
  BY <1>3, <1>4
<1>8. CASE InRule
  <2>1. UNCHANGED stack /\ Enters(ste, ste', CurrentScope, D)
    BY <1>2, <1>7, <1>8
  <2> QED BY <1>5, <1>6, <2>1, DeclareStep
<1>9. CASE ~InRule
  <2>1. stack' = Append(stack, RuleScope) /\ RuleScope \notin DOMAIN ste
    BY <1>2, <1>3, <1>9
  <2>2. /\ WellFormed(ste') /\ RuleScope \in New /\ OwnTable(ste, ste', RuleScope, D)
        /\ \A d \in DOMAIN ste, x \in Names : InTable(ste', d, x) = InTable(ste, d, x)
    BY <1>3, <1>4, <1>5, <2>1, NewOwn DEF New
  <2>3. Keeps(ste, RuleTable) /\ Keeps(RuleTable, ste')
    BY <1>3, <1>4 DEF Enters, Keeps
  <2>4. Keeps(ste, ste')
    BY <1>3, <2>3, KeepsOn
  <2> QED BY <1>5, <1>6, <2>1, <2>2, <2>4, OpenStep
<1> QED BY <1>8, <1>9

\* The end of an event, a prototype, a function, a loop or a rule ends its block.
LEMMA EndsMean ==
  ASSUME MeaningInv, Accepted, Accepted', EndEvent \/ EndPrototype \/ EndFunction \/ WhileStmt \/ EndRule
  PROVE  Lexical!Move
<1>1. /\ LeaveScope /\ Top \in {"event", "function", "body", "loop", "reaction"}
      /\ ste' = ste \/ EndFunction
  BY DEF EndEvent, EndPrototype, EndFunction, WhileStmt, EndRule
<1>2. Shape /\ ended = "no" /\ errors = 0 /\ WellFormed(ste) /\ CurrentScope \in DOMAIN ste
  BY StackFacts DEF Accepted, MeaningInv, ShapeInv
<1>3. Len(stack) > 1
  <2>1. Len(stack) = Len(parse)
    BY <1>2, CurrentIs
  <2>2. Len(parse) \in Nat /\ 1 <= Len(parse) /\ (Top \in {"decls", "rules"} <=> Len(parse) = 1)
    BY <1>2, ShapeFacts
  <2>3. Top \notin {"decls", "rules"}
    BY <1>1
  <2> QED BY <2>1, <2>2, <2>3
<1>4. Enters(ste, ste', CurrentScope, {}) /\ Roomy
  <2>1. CASE ste' = ste
    BY <1>2, <2>1, EntersNothing DEF SameButCounts, Roomy
  <2>2. CASE EndFunction
    <3>1. /\ WellFormed(ste') /\ Len(ste') = Len(ste)
          /\ \A d \in DOMAIN ste : SameButCounts(ste'[d], ste[d]) /\ ste'[d].syms = ste[d].syms
      BY <1>2, <2>2, EndFunctionTables
    <3> QED BY <1>2, <3>1, EntersNothing DEF Roomy
  <2> QED BY <1>1, <2>1, <2>2
<1> QED BY <1>1, <1>3, <1>4, CloseStep

\* The other steps leave the scopes as they are.
LEMMA StandsMean ==
  ASSUME MeaningInv, Accepted, Accepted',
         \/ \E n \in Names : RefExpr(n) \/ FuncInvoc(n)
         \/ BreakStmt \/ RetStmt \/ BeginBody \/ WhileBody \/ RuleHdr
  PROVE  Lexical!Move
<1>1. UNCHANGED <<ste, stack>>
  BY DEF RefExpr, FuncInvoc, BreakStmt, RetStmt, BeginBody, WhileBody, RuleHdr
<1> QED BY <1>1, StandStep

\* What is to be found for a question: what the name means here, or the block here, if that is
\* what is asked for.
Sought(as, n) ==
  LET d == IF n \in Names THEN LookUp(n) ELSE CurrentScope
  IN  IF as = "any" \/ (as # "nothing" /\ d # 0 /\ ste[d].kind = as) THEN d ELSE 0

\* A step that finds that answers as LexicalScoping does.
LEMMA AskStep ==
  ASSUME MeaningInv, Accepted, Accepted', NEW as, NEW n, Question(as, n) \in Asking,
         asked' = Question(as, n), used' = Sought(as, n)
  PROVE  Lexical!Ask
<1> DEFINE q == Question(as, n)
           d == IF n \in Names THEN LookUp(n) ELSE CurrentScope
           x == IF n \in Names THEN Here[n] ELSE Last(stack)
<1>1. q.as = as /\ q.name = n
  BY DEF Question
<1>2. d = x
  BY LookedUp DEF CurrentScope, Accepted
<1>3. WellFormed(ste) /\ DOMAIN ste = 1 .. Len(ste) /\ CurrentScope \in DOMAIN ste
  BY StackFacts DEF Accepted
<1>4. d # 0 => d \in DOMAIN ste
  <2>1. stack \in Seq(DOMAIN ste)
    BY DEF MeaningInv, ShapeInv, Shape, StackOK
  <2>2. LookUp(n) \in 0 .. Len(ste)
    BY <1>3, <2>1, LookUpIn DEF LookUp
  <2> QED BY <1>3, <2>2, WellFormedDomain
<1> HIDE DEF d
<1>5. d # 0 => Sort[d].kind = ste[d].kind
  BY <1>4 DEF Sort
<1>6. used' = IF as = "any" \/ (as # "nothing" /\ d # 0 /\ Sort[d].kind = as) THEN d ELSE 0
  BY <1>5 DEF Sought, d
<1>7. used' = IF q.as = "any" \/ (q.as # "nothing" /\ x # 0 /\ Sort[x].kind = q.as) THEN x ELSE 0
  BY <1>1, <1>2, <1>6
<1> HIDE DEF q
<1>8. used' = Lexical!Found(q)
  BY <1>1, <1>7 DEF Lexical!Found, Sort, Here, Lexical!Last, Last
<1> QED BY <1>8 DEF Lexical!Ask, q

\* A step that asks nothing finds nothing.
LEMMA ForgetStep ==
  ASSUME MeaningInv, Accepted, Accepted', asked' = NoQuestion, used' = 0
  PROVE  Lexical!Ask
<1>1. NoQuestion = Question("nothing", NoName) /\ Question("nothing", NoName) \in Asking
  BY DEF NoQuestion, Question, Asking
<1>2. used' = Sought("nothing", NoName)
  BY DEF Sought
<1> QED BY <1>1, <1>2, AskStep

\* A name is found to be what it means, a call finds a function, a pattern an event, break and
\* return the block they leave; the initial values of declarators are looked up before these.
LEMMA Asks ==
  ASSUME MeaningInv, Accepted, Accepted', Next
  PROVE  Lexical!Ask
<1>1. /\ \A as \in {"nothing", "any", "FUNCTION", "EVENT", "WHILE_BLOCK"}, n \in Names \cup {NoName} :
           Question(as, n) \in Asking
      /\ NoName \notin Names
  BY ScopesAssumption DEF Question, Asking
<1>2. CASE Forget
  BY <1>2, ForgetStep DEF Forget
<1>3. ASSUME NEW n \in Names, asked' = Question("any", n), used' = LookUp(n)
      PROVE  Lexical!Ask
  BY <1>1, <1>3, AskStep DEF Sought
<1>4. ASSUME NEW list \in VarLists, NEW type \in VarTypes, VarDec(list, type)
      PROVE  Lexical!Ask
  <2>1. CASE Initialised(list) = {}
    BY <1>4, <2>1, ForgetStep DEF VarDec
  <2>2. CASE Initialised(list) # {}
    BY <1>3, <1>4, <2>2, InitialIs DEF VarDec
  <2> QED BY <2>1, <2>2
<1>5. ASSUME NEW n \in Names, ClassDec(n) \/ EventDeclHdr(n) \/ FuncDeclHdr(n)
      PROVE  Lexical!Ask
  BY <1>2, <1>5 DEF ClassDec, EventDeclHdr, FuncDeclHdr
<1>6. ASSUME NEW n \in Names, NEW type \in VarTypes, FormalParam(n, type)
      PROVE  Lexical!Ask
  BY <1>2, <1>6 DEF FormalParam
<1>7. CASE EndEvent \/ EndPrototype \/ BeginBody \/ EndFunction \/ EndRule
  BY <1>2, <1>7, ForgetStep DEF EndEvent, EndPrototype, BeginBody, EndFunction, EndRule
<1>8. CASE Declarations
  BY <1>4, <1>5, <1>6, <1>7, <1>8 DEF Declarations
<1>9. ASSUME NEW n \in Names, RefExpr(n)
      PROVE  Lexical!Ask
  BY <1>3, <1>9 DEF RefExpr
<1>10. ASSUME NEW n \in Names, FuncInvoc(n)
       PROVE  Lexical!Ask
  <2>1. asked' = Question("FUNCTION", n) /\ used' = Sought("FUNCTION", n)
    BY <1>10 DEF FuncInvoc, Sought
  <2> QED BY <1>1, <2>1, AskStep
<1>11. CurrentScope # 0
  BY StackFacts DEF Accepted
<1>12. CASE BreakStmt
  <2>1. asked' = Question("WHILE_BLOCK", NoName) /\ used' = Sought("WHILE_BLOCK", NoName)
    BY <1>1, <1>11, <1>12 DEF BreakStmt, Sought, CurrentKind
  <2> QED BY <1>1, <2>1, AskStep
<1>13. CASE RetStmt
  <2>1. asked' = Question("FUNCTION", NoName) /\ used' = Sought("FUNCTION", NoName)
    BY <1>1, <1>11, <1>13 DEF RetStmt, Sought, CurrentKind
  <2> QED BY <1>1, <2>1, AskStep
<1>14. CASE StatementActions
  BY <1>2, <1>9, <1>10, <1>12, <1>13, <1>14 DEF StatementActions, WhileHdr, WhileBody, WhileStmt
<1>15. ASSUME NEW n \in Names, NEW names \in PatternArgs, NormalEvent(n, names)
       PROVE  Lexical!Ask
  <2>1. asked' = Question("EVENT", n) /\ used' = Sought("EVENT", n)
    BY <1>15 DEF NormalEvent, Sought
  <2> QED BY <1>1, <2>1, AskStep
<1>16. CASE Rules
  BY <1>2, <1>7, <1>15, <1>16 DEF Rules, AnyEvent, RuleHdr, Finish
<1>17. CASE Errors
  BY <1>2, <1>17 DEF Errors, DeclarationError, EventNameError, StatementError, ConditionError, HeaderError,
     RuleError, NullName, NullDeclarator, Aborted, EndOfFile
<1> QED BY <1>8, <1>14, <1>16, <1>17 DEF Next

\* After an error, and after the end, the program is not accepted.
LEMMA ErrorsReject ==
  ASSUME Accepted, Errors \/ Finish
  PROVE  ~Accepted'
<1>1. SUFFICES ASSUME Accepted' PROVE FALSE
  OBVIOUS
<1>2. ~Recovered
  <2>1. ASSUME NEW n \in 1 .. 2, ErrMsg(n)
        PROVE  FALSE
    <3>1. n \in Nat /\ n # 0
      OBVIOUS
    <3> QED BY <1>1, <2>1, <3>1, NothingWrong DEF ErrMsg
  <2> QED BY <2>1 DEF Recovered
<1>3. errors' = 0 /\ errors = 0 /\ ended' = "no"
  BY <1>1 DEF Accepted
<1> QED BY <1>2, <1>3 DEF Errors, DeclarationError, EventNameError, StatementError, ConditionError, HeaderError,
        RuleError, NullName, NullDeclarator, Aborted, EndOfFile, Finish

\* Every step of a program that stays accepted is one of LexicalScoping;
LEMMA AcceptedStep ==
  ASSUME MeaningInv, Accepted, Accepted', Next
  PROVE  Lexical!Next
<1>0. SUFFICES Lexical!Move
  BY Asks DEF Lexical!Next
<1>1. ASSUME NEW list \in VarLists, NEW type \in VarTypes, VarDec(list, type)
      PROVE  Lexical!Move
  BY <1>1, VarDecMeans
<1>2. ASSUME NEW n \in Names, ClassDec(n)
      PROVE  Lexical!Move
  BY <1>2, ClassDecMeans
<1>3. ASSUME NEW n \in Names, EventDeclHdr(n) \/ FuncDeclHdr(n)
      PROVE  Lexical!Move
  <2>1. PICK kind : InsertAndEnter(Entry(kind, n)) /\ Room(1)
    BY <1>3 DEF EventDeclHdr, FuncDeclHdr
  <2> QED BY <2>1, HeaderMeans
<1>4. ASSUME NEW n \in Names, NEW type \in VarTypes, FormalParam(n, type)
      PROVE  Lexical!Move
  BY <1>4, FormalParamMeans
<1>5. CASE EndEvent \/ EndPrototype \/ EndFunction \/ WhileStmt \/ EndRule
  BY <1>5, EndsMean
<1>6. CASE WhileHdr
  BY <1>6, WhileHdrMeans
<1>7. CASE AnyEvent
  BY <1>7, AnyEventMeans
<1>8. ASSUME NEW n \in Names, NEW names \in PatternArgs, NormalEvent(n, names)
      PROVE  Lexical!Move
  BY <1>8, NormalEventMeans
<1>9. CASE \/ \E n \in Names : RefExpr(n) \/ FuncInvoc(n)
           \/ BreakStmt \/ RetStmt \/ BeginBody \/ WhileBody \/ RuleHdr
  BY <1>9, StandsMean
<1>10. CASE Errors \/ Finish
  BY <1>10, ErrorsReject
<1> QED BY <1>1, <1>2, <1>3, <1>4, <1>5, <1>6, <1>7, <1>8, <1>9, <1>10
        DEF Next, Declarations, StatementActions, Rules

\* the step that ends that rejects it,
LEMMA RejectedStep ==
  ASSUME Accepted, ~Accepted'
  PROVE  Lexical!Next
<1>1. Lexical!Reject
  BY DEF Lexical!Reject, NoQuestion, Question, Asking
<1> QED BY <1>1 DEF Lexical!Next

\* and then nothing is said any more.
LEMMA SilentStep ==
  ASSUME MeaningInv, ~Accepted, Next
  PROVE  UNCHANGED Lexical!vars
<1>1. errors # 0
  BY DEF Accepted, Next
<1>2. errors' # 0
  BY <1>1, ErrorsGrow DEF MeaningInv
<1>3. ~Accepted'
  BY <1>2 DEF Accepted
<1> QED BY <1>3 DEF Lexical!vars

-----------------------------------------------------------------------------
(* The invariant.                                                          *)

\* The stack stays, loses its top or all but its bottom, or gets a new entry on top.
LEMMA StackSteps ==
  ASSUME MeaningInv, Next
  PROVE  \/ stack' = stack \/ LeaveScope \/ LeaveToGlobal
         \/ \E b \in Nat : b \notin DOMAIN ste /\ stack' = Append(stack, b)
<1>1. ended = "no" /\ ~wild
  BY DEF Next
<1>2. WellFormed(ste) /\ DOMAIN ste = 1 .. Len(ste) /\ Len(ste) \in Nat /\ CurrentScope \in DOMAIN ste
  BY <1>1, StackFacts
<1>3. Len(ste) + 1 \in Nat /\ Len(ste) + 1 \notin DOMAIN ste
  BY <1>2
<1>4. ASSUME NEW entry, InsertAndEnter(entry)
      PROVE  stack' = stack \/ stack' = Append(stack, Len(ste) + 1)
  BY <1>4 DEF InsertAndEnter, EnterScope
<1>5. CASE EnterRule
  BY <1>3, <1>5 DEF EnterRule, RuleScope
<1>6. CASE Keeping \/ EndFunction
  BY <1>6 DEF Keeping, EndFunction, EndEvent, EndPrototype, BeginBody, BreakStmt, RetStmt, WhileBody, WhileStmt,
     RuleHdr, EndRule, Finish, Errors, RefExpr, FuncInvoc, DeclarationError, EventNameError,
     StatementError, ConditionError, HeaderError, RuleError, NullName, NullDeclarator, Aborted, EndOfFile
<1>7. CASE WhileHdr
  BY <1>3, <1>7 DEF WhileHdr, EnterScope
<1>8. ASSUME NEW n \in Names, ClassDec(n) \/ EventDeclHdr(n) \/ FuncDeclHdr(n)
      PROVE  stack' = stack \/ stack' = Append(stack, Len(ste) + 1)
  BY <1>4, <1>8 DEF ClassDec, EventDeclHdr, FuncDeclHdr
<1>9. CASE AnyEvent \/ \E n \in Names, names \in PatternArgs : NormalEvent(n, names)
  BY <1>5, <1>9 DEF AnyEvent, NormalEvent
<1>10. ASSUME NEW list \in VarLists, NEW type \in VarTypes, VarDec(list, type)
       PROVE  stack' = stack
  BY <1>10 DEF VarDec
<1>11. ASSUME NEW n \in Names, NEW type \in VarTypes, FormalParam(n, type)
       PROVE  stack' = stack
  BY <1>11, FormalParamIs
<1> QED BY <1>3, <1>6, <1>7, <1>8, <1>9, <1>10, <1>11, Steps

\* No scope is entered twice.
LEMMA NextMeaning ==
  ASSUME MeaningInv, [Next]_vars
  PROVE  MeaningInv'
<1>1. ShapeInv'
  BY NextShape DEF MeaningInv
<1>2. CASE stack' = stack
  BY <1>1, <1>2 DEF MeaningInv, Distinct
<1>3. CASE Next
  <2>1. ended = "no" /\ ShapeInv
    BY <1>3 DEF Next, MeaningInv
  <2>2. /\ stack \in Seq(Nat) /\ Len(stack) \in Nat /\ 1 <= Len(stack) /\ DOMAIN stack = 1 .. Len(stack)
        /\ \A i \in DOMAIN stack : stack[i] \in DOMAIN ste
    BY <2>1, StackFacts
  <2>3. ASSUME DOMAIN stack' \subseteq DOMAIN stack, \A k \in DOMAIN stack' : stack'[k] = stack[k]
        PROVE  MeaningInv'
    BY <1>1, <2>3 DEF MeaningInv, Distinct
  <2>4. CASE LeaveScope
    <3>1. stack # <<>>
      BY <2>2
    <3>2. /\ Front(stack) \in Seq(Nat) /\ Len(Front(stack)) = Len(stack) - 1
          /\ \A i \in 1 .. Len(stack) - 1 : Front(stack)[i] = stack[i]
      <4>1. stack \in Seq(Nat)
        BY <2>2
      <4> QED BY <3>1, <4>1, FrontAndLast
    <3>3. PICK f, m : f = Front(stack) /\ m = Len(stack)
      OBVIOUS
    <3>4. DOMAIN f = 1 .. m - 1 /\ DOMAIN stack = 1 .. m /\ m \in Nat /\ \A i \in 1 .. m - 1 : f[i] = stack[i]
      BY <2>2, <3>2, <3>3
    <3>5. DOMAIN f \subseteq DOMAIN stack /\ \A k \in DOMAIN f : f[k] = stack[k]
      BY <3>4
    <3>6. stack' = stack \/ stack' = f
      BY <2>4, <3>3 DEF LeaveScope, Popped
    <3> QED BY <1>2, <2>3, <3>5, <3>6
  <2>5. CASE LeaveToGlobal
    <3>1. DOMAIN SubSeq(stack, 1, 1) = 1 .. 1 /\ SubSeq(stack, 1, 1)[1] = stack[1]
      BY <2>2
    <3> QED BY <2>2, <2>3, <2>5, <3>1 DEF LeaveToGlobal
  <2>6. ASSUME NEW b \in Nat, b \notin DOMAIN ste, stack' = Append(stack, b)
        PROVE  MeaningInv'
    <3>1. PICK m, ut : m = Len(stack) /\ ut = stack'
      OBVIOUS
    <3>2. ut \in Seq(Nat) /\ Len(ut) = m + 1 /\ ut[m + 1] = b /\ \A i \in 1 .. m : ut[i] = stack[i]
      BY <2>1, <2>6, <3>1, PushedStack
    <3>3. DOMAIN ut = 1 .. m + 1 /\ \A i \in 1 .. m + 1 : i \in 1 .. m \/ i = m + 1
      BY <2>2, <3>1, <3>2
    <3>4. \A i \in 1 .. m : ut[i] # b
      BY <2>2, <2>6, <3>1, <3>2
    <3>5. ASSUME NEW i \in DOMAIN ut, NEW j \in DOMAIN ut, ut[i] = ut[j]
          PROVE  i = j
      <4>1. CASE i \in 1 .. m /\ j \in 1 .. m
        <5>1. i \in DOMAIN stack /\ j \in DOMAIN stack /\ stack[i] = stack[j]
          BY <2>2, <3>1, <3>2, <3>5, <4>1
        <5> QED BY <5>1 DEF MeaningInv, Distinct
      <4>2. CASE i = m + 1 \/ j = m + 1
        BY <3>2, <3>3, <3>4, <3>5, <4>2
      <4> QED BY <3>3, <4>1, <4>2
    <3> QED BY <1>1, <3>1, <3>5 DEF MeaningInv, Distinct
  <2> QED BY <1>2, <1>3, <2>4, <2>5, <2>6, StackSteps
<1> QED BY <1>2, <1>3 DEF vars

\* At first nothing has a name.
LEMMA InitMeaning ==
  ASSUME Init
  PROVE  MeaningInv /\ Accepted /\ Lexical!Init
<1>1. /\ ste = <<[Entry("GLOBAL", NoName) EXCEPT !.syms = <<2>>], Entry("EVENT", NoName)>>
      /\ stack = <<1>> /\ asked = NoQuestion /\ used = 0 /\ errors = 0 /\ ended = "no" /\ ~wild
  BY DEF Init
<1>2. Accepted
  BY <1>1 DEF Accepted
<1>3. Distinct
  BY <1>1 DEF Distinct
<1>4. MeaningInv
  BY <1>3, InitShape DEF MeaningInv
<1>5. ste[2] = Entry("EVENT", NoName) /\ ste[1].syms = <<2>> /\ stack[1] = 1 /\ Len(stack) = 1
  <2>1. ste[1] = [Entry("GLOBAL", NoName) EXCEPT !.syms = <<2>>] /\ ste[2] = Entry("EVENT", NoName)
    BY <1>1
  <2>2. ste[1].syms = <<2>>
    BY <2>1 DEF Entry
  <2> QED BY <1>1, <2>1, <2>2
<1>6. ASSUME NEW n \in Names
      PROVE  InTable(ste, 1, n) = {}
  <2>1. ste[2].name = NoName
    BY <1>5, BareEntries
  <2>2. ToSet(ste[1].syms) = {2}
    BY <1>5 DEF ToSet
  <2> QED BY <2>1, <2>2, ScopesAssumption DEF InTable
<1>7. ASSUME NEW n \in Names
      PROVE  LookUp(n) = 0
  <2>1. \A i \in 1 .. 1 : stack[i] = 1
    BY <1>5
  <2>2. Holders(ste, stack, n) = {}
    BY <1>5, <1>6, <2>1 DEF Holders
  <2> QED BY <2>2 DEF LookUp, LookUpFrom
<1>8. Here = [n \in Names |-> 0]
  <2>1. \A n \in Names : LookUp(n) = Here[n]
    BY <1>1, <1>4, LookedUp
  <2>2. Here = [n \in Names |-> Here[n]]
    BY DEF Here, Environment
  <2>3. \A n \in Names : Here[n] = 0
    BY <1>7, <2>1
  <2> QED BY <2>2, <2>3
<1>9. Mine = {}
  BY <1>5, <1>6, DeclaredIs DEF Mine
<1>10. Outer = <<>> /\ OuterMine = <<>>
  BY <1>5 DEF Outer, OuterMine
<1>11. NoQuestion \in Asking
  BY DEF NoQuestion, Question, Asking
<1>12. 1 \in DOMAIN Sort
  BY <1>1 DEF Sort
<1> QED BY <1>1, <1>2, <1>4, <1>8, <1>9, <1>10, <1>11, <1>12 DEF Lexical!Init, Here, Mine, Outer, OuterMine, Sort

\* Until an error is counted, looking a name up on the stack of scopes
\* (SymTabMgr::lookUp) gives it the meaning of the language: what the innermost
\* block that declares it says, whatever was entered and left in between.
THEOREM Scoping == Spec => Scoped
<1>1. Init => MeaningInv
  BY InitMeaning
<1>2. MeaningInv /\ [Next]_vars => MeaningInv'
  BY NextMeaning
<1>3. Init => Lexical!Init
  BY InitMeaning
<1>4. MeaningInv /\ [Next]_vars => [Lexical!Next]_(Lexical!vars)
  <2>1. CASE UNCHANGED vars
    BY <2>1 DEF vars, Lexical!vars, Accepted, Environment, Declared
  <2>2. ASSUME MeaningInv, Next
        PROVE  [Lexical!Next]_(Lexical!vars)
    <3>1. CASE ~Accepted
      BY <2>2, <3>1, SilentStep
    <3>2. CASE Accepted /\ Accepted'
      BY <2>2, <3>2, AcceptedStep
    <3>3. CASE Accepted /\ ~Accepted'
      BY <3>3, RejectedStep
    <3> QED BY <3>1, <3>2, <3>3
  <2> QED BY <2>1, <2>2
<1> QED BY <1>1, <1>2, <1>3, <1>4, PTL DEF Spec, Scoped, Lexical!Spec

=============================================================================

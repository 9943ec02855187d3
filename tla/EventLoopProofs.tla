--------------------------- MODULE EventLoopProofs ---------------------------
(***************************************************************************)
(* The event loop reacts to every event, once, in order and by its rule,   *)
(* with the parameters it was sent with but for doubles with a fraction,   *)
(* for any set of events, any rules that serve them (ServedProgram) and    *)
(* any input: the safety half of the refinement of EventQueue, and Outcome.*)
(*                                                                         *)
(* What is in the pipe is the rest of the event being read, then the       *)
(* events not begun, one behind the other, then what Close or Break left.  *)
(* LoopInv says so with the positions of the ends of the events: "at" maps *)
(* the number of an event to the place of its last byte in the pipe, zero  *)
(* or less for what has been read.                                         *)
(***************************************************************************)
EXTENDS EventLoop, DataLemmas, SequenceTheorems, TLAPS

-----------------------------------------------------------------------------
(* The programs the theorems are about.                                    *)

\* Events differ in their first letter; an event that only "any" catches has
\* no parameters, which its reaction would leave in the input.
ServedProgram ==
  /\ \A e, f \in Event : Letter[e] = Letter[f] => e = f
  /\ \A e \in Event : HasRule(e) \/ (HasAny /\ Params[e] = <<>>)

\* What the rule for an event is given: its words, as ini and inf return them.
Given(o) ==
  IF HasRule(o.event)
  THEN [ rule |-> o.event,
         values |-> [k \in DOMAIN o.words |-> Read(Params[o.event][k], o.words[k])] ]
  ELSE [ rule |-> AnyRule, values |-> <<>> ]

-----------------------------------------------------------------------------
(* The bytes of an event.                                                  *)

Size(o) == 1 + WORD * Len(Params[o.event])

\* It is what the event was sent with, where a word is not truncated.
LEMMA GivenRight ==
  ASSUME NEW o \in Occurrence
  PROVE  Given(o) \in Reactions(o)
<1>1. /\ DOMAIN o.words = DOMAIN Params[o.event] /\ o.words \in [DOMAIN o.words -> Words]
      /\ Whole \in [Words -> Words]
  BY EventAssumption DEF Occurrence
<1>2. CASE HasRule(o.event)
  <2> DEFINE v == [k \in DOMAIN o.words |-> Read(Params[o.event][k], o.words[k])]
  <2>1. ASSUME NEW k \in DOMAIN o.words
        PROVE  v[k] \in Words /\ (v[k] = o.words[k] \/ Truncated(Params[o.event][k], o.words[k]))
    BY <1>1 DEF Read, Truncated
  <2>2. v \in [DOMAIN o.words -> Words]
    BY <2>1
  <2> QED BY <1>2, <2>1, <2>2 DEF Given, Reactions
<1>3. CASE ~ HasRule(o.event)
  BY <1>3 DEF Given, Reactions
<1> QED BY <1>2, <1>3

\* Quotient and remainder of a number put together from both.
LEMMA DivMod ==
  ASSUME NEW W \in Nat \ {0}, NEW q \in Nat, NEW r \in 0 .. W - 1
  PROVE  (W * q + r) \div W = q /\ (W * q + r) % W = r
<1>1. W * q + r \in Nat
  OBVIOUS
<1> QED BY <1>1

\* A place in n words is in one of them.
LEMMA Quotient ==
  ASSUME NEW W \in Nat \ {0}, NEW n \in Nat, NEW p \in Nat, p < W * n
  PROVE  p \div W \in 0 .. n - 1 /\ p % W \in 0 .. W - 1
<1>1. p % W \in 0 .. W - 1
  OBVIOUS
<1>2. p \div W \in Nat
  OBVIOUS
<1>3. W * (p \div W) <= p
  OBVIOUS
<1>4. CASE p \div W >= n
  <2>1. W * (p \div W) >= W * n
    BY <1>2, <1>4
  <2> QED BY <2>1, <1>2, <1>3
<1> QED BY <1>1, <1>2, <1>4

\* An event has a word for each parameter, and a byte before them.
LEMMA OccurrenceIs ==
  ASSUME NEW o \in Occurrence
  PROVE  /\ o.event \in Event
         /\ Params[o.event] \in Seq({"int", "double"}) /\ Len(Params[o.event]) \in Nat
         /\ o.words \in [DOMAIN Params[o.event] -> Words]
         /\ DOMAIN Params[o.event] = 1 .. Len(Params[o.event])
         /\ Size(o) \in Nat \ {0} /\ Size(o) - 1 = WORD * Len(Params[o.event])
<1>1. PICK e \in Event : o \in [event : {e}, words : [DOMAIN Params[e] -> Words]]
  BY DEF Occurrence
<1>2. o.event = e /\ o.words \in [DOMAIN Params[e] -> Words]
  BY <1>1
<1>3. Params[e] \in Seq({"int", "double"}) /\ WORD \in Nat
  BY EventAssumption
<1>4. Len(Params[e]) \in Nat /\ DOMAIN Params[e] = 1 .. Len(Params[e])
  BY <1>3
<1>5. WORD * Len(Params[e]) \in Nat
  BY <1>3, <1>4
<1> QED BY <1>1, <1>2, <1>3, <1>4, <1>5 DEF Size

\* An event is its letter and then its words, byte by byte.
LEMMA WrittenIs ==
  ASSUME NEW o \in Occurrence
  PROVE  /\ Written(o) \in Seq(0 .. 255) /\ Len(Written(o)) = Size(o)
         /\ Written(o)[1] = Letter[o.event] /\ Letter[o.event] \in LOW .. 255
         /\ \A k \in DOMAIN Params[o.event], b \in 1 .. WORD :
              /\ WORD * (k - 1) + b \in 1 .. Size(o) - 1
              /\ Written(o)[1 + (WORD * (k - 1) + b)] = o.words[k][b]
<1> DEFINE n == Len(Params[o.event])
           w == Written(o)
<1>1. /\ o.event \in Event /\ n \in Nat /\ DOMAIN Params[o.event] = 1 .. n
      /\ o.words \in [1 .. n -> Words]
      /\ Size(o) \in Nat \ {0} /\ Size(o) - 1 = WORD * n
  BY OccurrenceIs
<1>2. WORD \in Nat \ {0} /\ Letter[o.event] \in LOW .. 255 /\ Byte \subseteq 0 .. 255
  BY <1>1, EventAssumption
<1>3. w = [i \in 1 .. Size(o) |-> IF i = 1 THEN Letter[o.event]
                                  ELSE o.words[1 + (i - 2) \div WORD][1 + ((i - 2) % WORD)]]
  BY DEF Written, Size
<1> HIDE DEF w, n
<1>4. \A i \in 1 .. Size(o) : w[i] \in 0 .. 255
  <2> SUFFICES ASSUME NEW i \in 1 .. Size(o) PROVE w[i] \in 0 .. 255
    OBVIOUS
  <2>1. CASE i = 1
    BY <2>1, <1>2, <1>3 DEF LOW
  <2>2. CASE i # 1
    <3>1. i - 2 \in Nat /\ i - 2 < WORD * n
      BY <2>2, <1>1
    <3>2. (i - 2) \div WORD \in 0 .. n - 1 /\ (i - 2) % WORD \in 0 .. WORD - 1
      BY <3>1, <1>1, <1>2, Quotient
    <3> DEFINE q == (i - 2) \div WORD
               r == (i - 2) % WORD
    <3>a. q \in 0 .. n - 1 /\ r \in 0 .. WORD - 1
      BY <3>2
    <3> HIDE DEF q, r
    <3>b. 1 + q \in 1 .. n /\ 1 + r \in 1 .. WORD
      BY <3>a, <1>1, <1>2
    <3>3. 1 + (i - 2) \div WORD \in 1 .. n /\ 1 + ((i - 2) % WORD) \in 1 .. WORD
      BY <3>b DEF q, r
    <3>4. o.words[1 + (i - 2) \div WORD][1 + ((i - 2) % WORD)] \in Byte
      BY <3>3, <1>1 DEF Words
    <3> QED BY <3>4, <2>2, <1>2, <1>3
  <2> QED BY <2>1, <2>2
<1>5. w \in Seq(0 .. 255) /\ Len(w) = Size(o)
  <2>1. w \in [1 .. Size(o) -> 0 .. 255]
    BY <1>3, <1>4
  <2> DEFINE z == Size(o)
  <2>2. z \in Nat /\ w \in [1 .. z -> 0 .. 255]
    BY <1>1, <2>1
  <2> HIDE DEF z
  <2>3. w \in Seq(0 .. 255) /\ Len(w) = z
    BY <2>2
  <2> QED BY <2>3 DEF z
<1>6. ASSUME NEW k \in 1 .. n, NEW b \in 1 .. WORD
      PROVE  /\ WORD * (k - 1) + b \in 1 .. Size(o) - 1
             /\ w[1 + (WORD * (k - 1) + b)] = o.words[k][b]
  <2> DEFINE p == WORD * (k - 1) + (b - 1)
  <2>1. k - 1 \in Nat /\ b - 1 \in 0 .. WORD - 1 /\ k - 1 <= n - 1
    BY <1>1, <1>2
  <2>2. WORD * (k - 1) \in Nat /\ WORD * (k - 1) + WORD <= WORD * n
    BY <1>1, <1>2, <2>1
  <2>3. p \div WORD = k - 1 /\ p % WORD = b - 1
    BY <1>2, <2>1, DivMod
  <2> DEFINE x == WORD * (k - 1)
             y == WORD * n
  <2>4. x \in Nat /\ x + WORD <= y /\ Size(o) - 1 = y /\ Size(o) \in Nat /\ y \in Int
    BY <1>1, <1>2, <2>2
  <2>5. p = x + (b - 1)
    OBVIOUS
  <2> HIDE DEF p, x, y
  <2>6. /\ x + b \in 1 .. Size(o) - 1
        /\ 1 + (x + b) \in 1 .. Size(o) /\ 1 + (x + b) # 1 /\ (1 + (x + b)) - 2 = p
    BY <1>2, <2>4, <2>5
  <2>7. w[1 + (x + b)] = o.words[1 + p \div WORD][1 + (p % WORD)]
    BY <1>3, <2>6
  <2>8. 1 + p \div WORD = k /\ 1 + (p % WORD) = b
    BY <1>1, <1>2, <2>3
  <2>9. x + b \in 1 .. Size(o) - 1 /\ w[1 + (x + b)] = o.words[k][b]
    BY <2>6, <2>7, <2>8
  <2> QED BY <2>9 DEF x
<1>7. w[1] = Letter[o.event]
  BY <1>1, <1>3
<1> QED BY <1>1, <1>2, <1>5, <1>6, <1>7 DEF w

-----------------------------------------------------------------------------
(* The state is one of the program.                                        *)

\* A letter has a rule, or the one for any, or none.
LEMMA HandlerType ==
  ASSUME NEW c
  PROVE  Handler(c) \in Event \cup {AnyRule, NoRule}
<1> DEFINE I == { i \in DOMAIN Rules : Letter[Rules[i]] = c }
<1>1. Rules \in Seq(Event)
  BY RuleAssumption
<1>2. ASSUME I # {}, \E i \in I : \A j \in I : i <= j
      PROVE  Handler(c) \in Event
  <2>1. (CHOOSE i \in I : \A j \in I : i <= j) \in DOMAIN Rules
    BY <1>2
  <2> HIDE DEF I
  <2>2. Rules[CHOOSE i \in I : \A j \in I : i <= j] \in Event
    BY <1>1, <2>1
  <2> QED BY <1>2, <2>2 DEF Handler, I
<1>3. ASSUME I # {}
      PROVE  \E i \in I : \A j \in I : i <= j
  <2>1. I \subseteq Nat /\ I # {}
    BY <1>1, <1>3
  <2> HIDE DEF I
  <2> QED BY <2>1, Least
<1> QED BY <1>2, <1>3 DEF Handler

\* The first bytes of a sequence.
LEMMA Prefix ==
  ASSUME NEW S, NEW w \in Seq(S), NEW n \in 1 .. Len(w)
  PROVE  /\ SubSeq(w, 1, n) \in Seq(S) /\ Len(SubSeq(w, 1, n)) = n
         /\ \A i \in 1 .. n : SubSeq(w, 1, n)[i] = w[i]
<1>1. n \in Nat \ {0} /\ 1 .. n \subseteq 1 .. Len(w)
  OBVIOUS
<1>2. \A i \in 1 .. n : w[i] \in S
  BY <1>1
<1> QED BY <1>1, <1>2, SubSeqProperties

\* A byte that getc returns.
LEMMA GetCType ==
  ASSUME pipe \in Seq(0 .. 255), NEW c \in 0 .. 255 \cup {EOF}, GetC(c)
  PROVE  pipe' \in Seq(0 .. 255)
<1>1. CASE pipe # <<>> /\ pipe' = Tail(pipe)
  BY <1>1, HeadTailProperties
<1> QED BY <1>1 DEF GetC

\* The state is one of the program when it starts.
LEMMA InitType ==
  ASSUME Init
  PROVE  TypeOK
<1>1. PICK n \in 0 .. SKIPPED : pipe \in [1 .. n -> {LOW + 1}] /\ closed = (n < SKIPPED)
  BY DEF Init
<1>2. pipe \in Seq(0 .. 255) /\ closed \in BOOLEAN
  <2>1. n \in Nat /\ pipe \in [1 .. n -> 0 .. 255]
    BY <1>1 DEF SKIPPED, LOW
  <2>2. pipe \in Seq(0 .. 255)
    BY <2>1
  <2> QED BY <2>2, <1>1
<1>3. /\ cut = FALSE /\ pc = "skip3" /\ ch = 0 /\ rule = NoRule
      /\ got \in Seq(0 .. 255 \cup {EOF}) /\ sent \in Seq(Occurrence)
  BY DEF Init
<1>4. ch \in 0 .. 255 \cup {EOF} /\ cut \in BOOLEAN
  <2>1. ch = 0 /\ 0 \in 0 .. 255
    BY <1>3
  <2> QED BY <1>3, <2>1, Zenon
<1>5. rule \in Event \cup {AnyRule, NoRule} /\ (rule = NoRule <=> pc \notin {"rule", "error"})
  BY <1>3
<1>6. pc \in {"skip3", "skip2", "skip1", "event", "test", "rule", "done", "error"}
  BY <1>3
<1> QED BY <1>2, <1>3, <1>4, <1>5, <1>6 DEF TypeOK

\* Each step, of the writer or of the program, leaves such a state.
LEMMA NextType ==
  ASSUME TypeOK, [Next]_vars
  PROVE  TypeOK'
<1> USE DEF TypeOK
<1>1. ASSUME NEW o \in Occurrence, Write(o)
      PROVE  TypeOK'
  <2>1. Written(o) \in Seq(0 .. 255)
    BY WrittenIs
  <2>2. pipe' \in Seq(0 .. 255) /\ sent' \in Seq(Occurrence)
    BY <1>1, <2>1 DEF Write
  <2> QED BY <1>1, <2>2 DEF Write, loopVars
<1>2. ASSUME NEW o \in Occurrence, Break(o)
      PROVE  TypeOK'
  <2>1. Written(o) \in Seq(0 .. 255)
    BY WrittenIs
  <2>2. PICK n \in 1 .. Len(Written(o)) - 1 : pipe' = pipe \o SubSeq(Written(o), 1, n)
    BY <1>2 DEF Break
  <2>3. SubSeq(Written(o), 1, n) \in Seq(0 .. 255)
    <3> DEFINE w == Written(o)
    <3>1. w \in Seq(0 .. 255) /\ n \in 1 .. Len(w)
      BY <2>1
    <3> HIDE DEF w
    <3>2. SubSeq(w, 1, n) \in Seq(0 .. 255)
      BY <3>1, Prefix
    <3> QED BY <3>2 DEF w
  <2>4. pipe' \in Seq(0 .. 255)
    BY <2>2, <2>3
  <2> QED BY <1>2, <2>4 DEF Break, loopVars
<1>3. CASE Close
  <2>1. pipe' \in Seq(0 .. 255)
    <3>1. Append(pipe, 10) \in Seq(0 .. 255)
      OBVIOUS
    <3> QED BY <1>3, <3>1 DEF Close
  <2> QED BY <1>3, <2>1 DEF Close, loopVars
<1>4. ASSUME NEW i \in 1 .. SKIPPED, Skip(i)
      PROVE  TypeOK'
  <2>1. PICK c \in 0 .. 255 \cup {EOF} : GetC(c) /\ ch' = c
    BY <1>4 DEF Skip
  <2>2. pipe' \in Seq(0 .. 255)
    BY <2>1, GetCType
  <2>3. pc \in {"skip3", "skip2", "skip1"} /\ pc' \in {"skip2", "skip1", "event"}
    BY <1>4 DEF Skip, Skips, SKIPPED
  <2> QED BY <1>4, <2>1, <2>2, <2>3 DEF Skip
<1>5. CASE ReadEvent
  <2>1. PICK c \in 0 .. 255 \cup {EOF} : GetC(c) /\ ch' = c
    BY <1>5 DEF ReadEvent
  <2>2. pipe' \in Seq(0 .. 255)
    BY <2>1, GetCType
  <2> QED BY <1>5, <2>1, <2>2 DEF ReadEvent
<1>6. CASE Dispatch
  <2>1. Handler(ch) \in Event \cup {AnyRule, NoRule}
    BY HandlerType
  <2>2. /\ rule' \in Event \cup {AnyRule, NoRule}
        /\ pc' \in {"done", "event", "rule"} /\ (rule' = NoRule <=> pc' \notin {"rule", "error"})
    BY <1>6, <2>1 DEF Dispatch
  <2>3. got' \in Seq(0 .. 255 \cup {EOF})
    BY <1>6 DEF Dispatch
  <2> QED BY <1>6, <2>2, <2>3 DEF Dispatch, inputVars
<1>7. CASE ReadParam
  <2>1. PICK c \in 0 .. 255 \cup {EOF} :
          /\ GetC(c) /\ got' = Append(got, c)
          /\ pc' = IF (Len(got) + 1) % WORD = 0 /\ c < 0 THEN "error" ELSE "rule"
    BY <1>7 DEF ReadParam
  <2>2. pipe' \in Seq(0 .. 255)
    BY <2>1, GetCType
  <2>3. got' \in Seq(0 .. 255 \cup {EOF}) /\ pc' \in {"error", "rule"}
    BY <2>1
  <2> QED BY <1>7, <2>2, <2>3 DEF ReadParam
<1>8. CASE RunRule
  BY <1>8 DEF RunRule, inputVars
<1>9. CASE UNCHANGED vars
  BY <1>9 DEF vars
<1> QED BY <1>1, <1>2, <1>3, <1>4, <1>5, <1>6, <1>7, <1>8, <1>9 DEF Next, Program

\* The loop is always at one of its labels, in a rule where it has one, and
\* what it reads is bytes and EOF.
THEOREM Types == Spec => []TypeOK
<1>1. Init => TypeOK
  BY InitType
<1>2. TypeOK /\ [Next]_vars => TypeOK'
  BY NextType
<1> QED BY <1>1, <1>2, PTL DEF Spec

-----------------------------------------------------------------------------
(* The invariant.                                                          *)

Larger(i, j) == IF i < j THEN j ELSE i

\* All is sent, and the event the writer stopped in.
Announced(all) ==
  /\ all \in Seq(Occurrence)
  /\ Len(all) = IF cut THEN Len(sent) + 1 ELSE Len(sent)
  /\ \A j \in 1 .. Len(sent) : all[j] = sent[j]

\* The places of the ends of the events, one behind the other.
Placed(all, at) ==
  /\ at \in [0 .. Len(all) -> Int]
  /\ \A j \in 1 .. Len(all) : at[j] = at[j - 1] + Size(all[j])
  /\ \A i, j \in 0 .. Len(all) : i <= j => at[i] <= at[j]

\* The input ends "more" bytes behind the last event: nothing while it is
\* open, a line end, less than the preamble, or less than the event.
Ended(all, at, more) ==
  /\ ~closed => ~cut /\ more = 0 /\ at[Len(all)] >= 0
  /\ cut => closed /\ 0 < Size(all[Len(all)]) + more /\ more < 0
  /\ ~cut => more \in -SKIPPED .. 1 /\ (more < 0 => sent = <<>>)
  /\ Len(pipe) = Larger(0, at[Len(all)] + more)

\* What is in the pipe.
Filled(all, at, more) ==
  /\ \A j \in 1 .. Len(all) : \A i \in 1 .. Size(all[j]) :
       at[j - 1] + i \in 1 .. Len(pipe) => pipe[at[j - 1] + i] = Written(all[j])[i]
  /\ ~cut /\ more = 1 /\ Len(pipe) > 0 => pipe[Len(pipe)] = 10

Stream(all, at, more) ==
  Announced(all) /\ Placed(all, at) /\ Ended(all, at, more) /\ Filled(all, at, more)

\* The first byte of the event after those reacted to; what has been read of
\* it since.
Ahead ==
  CASE pc = "skip3" -> 3
    [] pc = "skip2" -> 2
    [] pc = "skip1" -> 1
    [] pc = "event" -> 0
    [] pc = "test"  -> -1
    [] OTHER        -> -1 - Len(got)

\* The byte under test is the letter of the event, or from behind the last.
Tested(all) ==
  IF Len(handled) < Len(all) THEN ch = Letter[all[Len(handled) + 1].event]
  ELSE closed /\ ch < LOW

\* The bytes of the parameters so far.  Those of an unfinished event may be
\* the end of the input, the last of a word is none.
ReadSoFar(all, more) ==
  LET n == Len(handled) + 1 IN
  /\ n <= Len(all) /\ rule = Handler(Letter[all[n].event])
  /\ Len(got) <= WORD * Len(Formals)
  /\ n <= Len(sent) => \A i \in 1 .. Len(got) : got[i] = Written(all[n])[1 + i]
  /\ n > Len(sent) /\ 1 + Len(got) > Size(all[n]) + more => Len(got) % WORD # 0

Position(all, at, more) ==
  /\ handled \in Seq({Given(o) : o \in Occurrence}) /\ Len(handled) <= Len(sent)
  /\ pc \notin {"done", "error"} => at[Len(handled)] = Ahead
  /\ pc \in {"skip3", "skip2", "skip1"} => handled = <<>>
  /\ pc = "test" => Tested(all)
  /\ pc = "rule" => ReadSoFar(all, more)
  /\ pc \in {"done", "error"} => closed /\ Len(handled) = Len(sent) /\ (cut <=> pc = "error")

-----------------------------------------------------------------------------
(* The rule for a letter.                                                  *)

\* In a served program the letter of an event finds its rule, or the one for any.
LEMMA HandlerIs ==
  ASSUME ServedProgram, NEW e \in Event
  PROVE  /\ Handler(Letter[e]) = IF HasRule(e) THEN e ELSE AnyRule
         /\ Handler(Letter[e]) # NoRule
<1> DEFINE I == { i \in DOMAIN Rules : Letter[Rules[i]] = Letter[e] }
<1>1. Rules \in Seq(Event)
  BY RuleAssumption
<1>2. \A i \in DOMAIN Rules : Letter[Rules[i]] = Letter[e] <=> Rules[i] = e
  BY <1>1 DEF ServedProgram
<1>3. CASE HasRule(e)
  <2>1. PICK i \in DOMAIN Rules : Rules[i] = e
    BY <1>3 DEF HasRule
  <2>2. \A j \in I : j = i
    BY <1>2, <2>1, RuleAssumption
  <2>3. i \in I /\ i \in Nat
    BY <1>1, <2>1
  <2> HIDE DEF I
  <2>4. (CHOOSE k \in I : \A j \in I : k <= j) = i
    <3>1. \E k \in I : \A j \in I : k <= j
      BY <2>2, <2>3
    <3>2. (CHOOSE k \in I : \A j \in I : k <= j) \in I
      BY <3>1
    <3> QED BY <2>2, <3>2
  <2>5. Handler(Letter[e]) = Rules[CHOOSE k \in I : \A j \in I : k <= j]
    BY <2>3 DEF Handler, I
  <2>6. Handler(Letter[e]) = e
    BY <2>1, <2>4, <2>5
  <2>7. e # NoRule
    BY RuleAssumption
  <2> QED BY <1>3, <2>6, <2>7
<1>4. CASE ~ HasRule(e)
  <2>1. I = {}
    BY <1>2, <1>4 DEF HasRule
  <2>2. HasAny
    BY <1>4 DEF ServedProgram
  <2>3. Handler(Letter[e]) = AnyRule
    BY <2>1, <2>2 DEF Handler
  <2> QED BY <1>4, <2>3, RuleAssumption
<1> QED BY <1>3, <1>4

\* The rule an event comes to reads as many words as the event has.
LEMMA FormalsAre ==
  ASSUME ServedProgram, NEW e \in Event, rule = Handler(Letter[e])
  PROVE  Formals = Params[e]
<1>1. CASE HasRule(e)
  BY <1>1, HandlerIs, RuleAssumption DEF Formals
<1>2. CASE ~ HasRule(e)
  <2>1. Params[e] = <<>>
    BY <1>2 DEF ServedProgram
  <2> QED BY <1>2, <2>1, HandlerIs DEF Formals
<1> QED BY <1>1, <1>2

-----------------------------------------------------------------------------
(* Reading a byte.                                                         *)

\* getc takes the first byte of the pipe, or finds that it is at its end.
LEMMA ReadIs ==
  ASSUME pipe \in Seq(0 .. 255), NEW c, GetC(c)
  PROVE  \/ /\ pipe # <<>> /\ Len(pipe) > 0 /\ c = pipe[1] /\ c \in 0 .. 255
            /\ Len(pipe') = Len(pipe) - 1
            /\ \A i \in 1 .. Len(pipe) - 1 : pipe'[i] = pipe[i + 1]
         \/ pipe = <<>> /\ Len(pipe) = 0 /\ closed /\ c = EOF /\ pipe' = pipe
<1>1. CASE pipe # <<>> /\ c = Head(pipe) /\ pipe' = Tail(pipe)
  <2>1. Len(pipe) \in Nat /\ Len(pipe) > 0
    BY <1>1, EmptySeq
  <2>2. pipe[1] \in 0 .. 255 /\ c = pipe[1]
    <3>1. Head(pipe) = pipe[1]
      OBVIOUS
    <3>2. Head(pipe) \in 0 .. 255
      BY <1>1, HeadTailProperties
    <3> QED BY <1>1, <3>1, <3>2
  <2>3. Len(Tail(pipe)) = Len(pipe) - 1 /\ \A i \in 1 .. Len(pipe) - 1 : Tail(pipe)[i] = pipe[i + 1]
    BY <1>1, HeadTailProperties
  <2> QED BY <1>1, <2>1, <2>2, <2>3
<1>2. CASE pipe = <<>> /\ closed /\ c = EOF /\ pipe' = pipe
  <2>1. Len(pipe) = 0
    BY <1>2
  <2> QED BY <1>2, <2>1
<1> QED BY <1>1, <1>2 DEF GetC

Shift(at) == [j \in DOMAIN at |-> at[j] - 1]

\* What is left is as far ahead as before, less the byte.
LEMMA Shifted ==
  ASSUME TypeOK, NEW all, NEW at, NEW more \in Int, Stream(all, at, more),
         NEW c, GetC(c), UNCHANGED <<closed, sent, cut>>
  PROVE  Stream(all, Shift(at), more)'
<1> DEFINE new == Shift(at)
           L == Len(all)
<1>1. Len(all) \in Nat /\ all \in Seq(Occurrence)
  BY DEF Stream, Announced
<1>2. new \in [0 .. L -> Int] /\ \A j \in 0 .. L : new[j] = at[j] - 1 /\ at[j] \in Int
  BY DEF Stream, Placed, Shift
<1>3. \A j \in 1 .. L : Size(all[j]) \in Nat \ {0}
  BY <1>1, OccurrenceIs
<1>4. Announced(all)'
  BY DEF Stream, Announced
<1> HIDE DEF new
<1>5. Placed(all, new)'
  <2>1. \A j \in 1 .. L : new[j] = new[j - 1] + Size(all[j])
    <3> SUFFICES ASSUME NEW j \in 1 .. L PROVE new[j] = new[j - 1] + Size(all[j])
      OBVIOUS
    <3>1. at[j] = at[j - 1] + Size(all[j])
      BY DEF Stream, Placed
    <3>2. j \in 0 .. L /\ j - 1 \in 0 .. L
      BY <1>1
    <3>3. /\ new[j] = at[j] - 1 /\ new[j - 1] = at[j - 1] - 1
          /\ at[j] \in Int /\ at[j - 1] \in Int /\ Size(all[j]) \in Int
      BY <1>2, <1>3, <3>2
    <3> QED BY <3>1, <3>3
  <2>2. \A i, j \in 0 .. L : i <= j => new[i] <= new[j]
    BY <1>1, <1>2 DEF Stream, Placed
  <2> QED BY <1>2, <2>1, <2>2 DEF Placed
<1>6. \/ /\ Len(pipe) > 0 /\ Len(pipe') = Len(pipe) - 1
         /\ \A i \in 1 .. Len(pipe) - 1 : pipe'[i] = pipe[i + 1]
      \/ Len(pipe) = 0 /\ closed /\ pipe' = pipe
  BY ReadIs DEF TypeOK
<1>7. Len(pipe) \in Nat
  BY DEF TypeOK
<1>8. Ended(all, new, more)'
  <2>1. new[L] = at[L] - 1 /\ at[L] \in Int
    BY <1>1, <1>2
  <2>2. Len(pipe) = Larger(0, at[L] + more)
    BY DEF Stream, Ended
  <2>3. Len(pipe') = Larger(0, new[L] + more)
    BY <1>6, <1>7, <2>1, <2>2 DEF Larger
  <2>4. ~closed => ~cut /\ more = 0 /\ new[L] >= 0
    <3>1. ~closed => ~cut /\ more = 0 /\ Len(pipe) > 0
      BY <1>6 DEF Stream, Ended
    <3> QED BY <3>1, <2>1, <2>2 DEF Larger
  <2> QED BY <2>3, <2>4 DEF Stream, Ended
<1>9. Filled(all, new, more)'
  <2>1. ASSUME NEW j \in 1 .. L, NEW i \in 1 .. Size(all[j]), new[j - 1] + i \in 1 .. Len(pipe')
        PROVE  pipe'[new[j - 1] + i] = Written(all[j])[i]
    <3>1. Len(pipe) > 0 /\ Len(pipe') = Len(pipe) - 1
      BY <1>6, <1>7, <2>1
    <3> DEFINE x == at[j - 1] + i
    <3>2. new[j - 1] + i = x - 1 /\ x \in Int
      <4>1. j - 1 \in 0 .. L /\ i \in Int
        BY <1>1, <1>3
      <4>2. new[j - 1] = at[j - 1] - 1 /\ at[j - 1] \in Int
        BY <1>2, <4>1
      <4> QED BY <4>1, <4>2
    <3>3. x \in 1 .. Len(pipe) /\ x - 1 \in 1 .. Len(pipe) - 1
      BY <3>1, <3>2, <2>1, <1>7
    <3>4. pipe'[x - 1] = pipe[(x - 1) + 1] /\ (x - 1) + 1 = x
      <4> HIDE DEF x
      <4>1. \A k \in 1 .. Len(pipe) - 1 : pipe'[k] = pipe[k + 1]
        BY <1>6, <1>7, <3>1
      <4>2. (x - 1) + 1 = x
        BY <3>2
      <4> QED BY <4>1, <4>2, <3>3
    <3>5. pipe[x] = Written(all[j])[i]
      BY <3>3 DEF Stream, Filled
    <3> QED BY <3>2, <3>4, <3>5
  <2>2. ~cut /\ more = 1 /\ Len(pipe') > 0 => pipe'[Len(pipe')] = 10
    <3> SUFFICES ASSUME ~cut, more = 1, Len(pipe') > 0 PROVE pipe'[Len(pipe')] = 10
      OBVIOUS
    <3>1. Len(pipe) > 0 /\ Len(pipe') = Len(pipe) - 1
      BY <1>6, <1>7
    <3>2. pipe[Len(pipe)] = 10
      BY <3>1 DEF Stream, Filled
    <3>3. pipe'[Len(pipe')] = pipe[Len(pipe)]
      BY <1>6, <1>7, <3>1
    <3> QED BY <3>2, <3>3
  <2> QED BY <2>1, <2>2 DEF Filled
<1> QED BY <1>4, <1>5, <1>8, <1>9 DEF Stream, new

\* The byte in front is the next of the event being read, if it was written.
LEMMA NextByte ==
  ASSUME TypeOK, NEW all, NEW at, NEW more \in Int, Stream(all, at, more),
         NEW n \in 0 .. Len(sent), n < Len(all),
         NEW p \in Nat, p < Size(all[n + 1]), at[n] + p = 0
  PROVE  IF n < Len(sent) \/ p < Size(all[n + 1]) + more
         THEN Len(pipe) > 0 /\ pipe[1] = Written(all[n + 1])[p + 1]
         ELSE Len(pipe) = 0 /\ cut
<1> DEFINE L == Len(all)
           z == Size(all[n + 1])
<1>1. L \in Nat /\ all \in Seq(Occurrence) /\ Len(sent) \in Nat /\ Len(pipe) \in Nat
  BY DEF Stream, Announced, TypeOK
<1>2. n + 1 \in 1 .. L /\ \A j \in 1 .. L : Size(all[j]) \in Nat \ {0}
  <2>1. n + 1 \in 1 .. L
    BY <1>1
  <2>2. \A j \in 1 .. L : all[j] \in Occurrence
    BY <1>1
  <2>3. \A j \in 1 .. L : Size(all[j]) \in Nat \ {0}
    BY <2>2, OccurrenceIs, Zenon
  <2> QED BY <2>1, <2>3
<1>3. /\ L = IF cut THEN Len(sent) + 1 ELSE Len(sent)
      /\ at \in [0 .. L -> Int] /\ at[n + 1] = at[n] + z /\ (n + 1) - 1 = n
      /\ at[n + 1] <= at[L] /\ at[L - 1] <= at[L] /\ at[L] = at[L - 1] + Size(all[L])
      /\ n + 1 < L => at[n + 1] <= at[L - 1]
      /\ at[n] \in Int /\ at[L - 1] \in Int /\ at[L] \in Int
  <2>1. Announced(all) /\ Placed(all, at)
    BY DEF Stream
  <2>2. /\ L = IF cut THEN Len(sent) + 1 ELSE Len(sent)
        /\ at \in [0 .. L -> Int]
        /\ \A j \in 1 .. L : at[j] = at[j - 1] + Size(all[j])
        /\ \A i, j \in 0 .. L : i <= j => at[i] <= at[j]
    BY <2>1 DEF Announced, Placed
  <2>3. {n, n + 1, L - 1, L} \subseteq 0 .. L /\ {n + 1, L} \subseteq 1 .. L /\ (n + 1) - 1 = n
    BY <1>1, <1>2
  <2> HIDE DEF L
  <2>4. n + 1 < L => n + 1 <= L - 1
    BY <1>1, <1>2
  <2>5. at[n + 1] = at[n] + z /\ at[L] = at[L - 1] + Size(all[L])
    BY <2>2, <2>3
  <2>6. /\ at[n + 1] <= at[L] /\ at[L - 1] <= at[L] /\ (n + 1 < L => at[n + 1] <= at[L - 1])
        /\ at[n] \in Int /\ at[L - 1] \in Int /\ at[L] \in Int
    <3>1. n + 1 <= L /\ L - 1 <= L /\ L \in 0 .. L
      BY <1>1, <1>2
    <3>2. n \in 0 .. L /\ n + 1 \in 0 .. L /\ L - 1 \in 0 .. L
      BY <2>3
    <3> QED BY <2>2, <2>4, <3>1, <3>2
  <2> QED BY <2>2, <2>3, <2>5, <2>6
<1>4. /\ cut => 0 < Size(all[L]) + more /\ more < 0
      /\ ~cut => (more < 0 => sent = <<>>)
      /\ Len(pipe) = Larger(0, at[L] + more)
  BY DEF Stream, Ended
<1>5. z \in Nat \ {0} /\ Size(all[L]) \in Nat \ {0}
  BY <1>1, <1>2
<1> HIDE DEF z
<1>6. CASE n < Len(sent) \/ p < z + more
  <2>1. Len(pipe) > 0
    <3>1. CASE cut /\ n < Len(sent)
      <4>1. n + 1 < L
        BY <1>1, <1>3, <3>1
      <4>2. at[n + 1] <= at[L - 1] /\ at[n + 1] > 0
        BY <1>3, <1>5, <4>1 DEF z
      <4> QED BY <1>3, <1>4, <1>5, <3>1, <4>2 DEF Larger
    <3>2. CASE cut /\ ~(n < Len(sent))
      <4>1. L = n + 1 /\ z = Size(all[L])
        BY <1>1, <1>3, <3>2 DEF z
      <4>2. at[L] = z - p
        BY <1>3, <1>5, <4>1
      <4> QED BY <1>4, <1>5, <1>6, <3>2, <4>2 DEF Larger
    <3>3. CASE ~cut
      <4>1. n < Len(sent) /\ sent # <<>>
        BY <1>1, <1>3, <3>3
      <4>2. more >= 0
        BY <1>4, <3>3, <4>1
      <4>3. at[n + 1] > 0
        BY <1>3, <1>5 DEF z
      <4> QED BY <1>3, <1>4, <4>2, <4>3 DEF Larger
    <3> QED BY <3>1, <3>2, <3>3
  <2>2. p + 1 \in 1 .. z /\ at[n] + (p + 1) = 1
    <3>1. p \in Nat /\ p < z /\ z \in Nat
      BY <1>5 DEF z
    <3>2. at[n] \in Int /\ at[n] + p = 0
      BY <1>3
    <3> QED BY <3>1, <3>2
  <2>3. pipe[at[n] + (p + 1)] = Written(all[n + 1])[p + 1]
    <3>1. at[(n + 1) - 1] + (p + 1) \in 1 .. Len(pipe)
      BY <1>1, <1>3, <2>1, <2>2
    <3>2. ASSUME NEW j \in 1 .. L, NEW i \in 1 .. Size(all[j]), at[j - 1] + i \in 1 .. Len(pipe)
          PROVE  pipe[at[j - 1] + i] = Written(all[j])[i]
      BY <3>2 DEF Stream, Filled
    <3>3. p + 1 \in 1 .. Size(all[n + 1])
      BY <2>2 DEF z
    <3>4. pipe[at[(n + 1) - 1] + (p + 1)] = Written(all[n + 1])[p + 1]
      BY <1>2, <3>1, <3>2, <3>3, Zenon
    <3>5. (n + 1) - 1 = n
      BY <1>3
    <3> QED BY <3>4, <3>5, Zenon
  <2> QED BY <1>6, <2>1, <2>2, <2>3 DEF z
<1>7. CASE ~(n < Len(sent) \/ p < z + more)
  <2>1. cut /\ L = n + 1 /\ z = Size(all[L])
    BY <1>1, <1>3, <1>7 DEF z
  <2>2. at[L] + more <= 0
    BY <1>3, <1>5, <1>7, <2>1
  <2> QED BY <1>3, <1>4, <1>7, <2>1, <2>2 DEF Larger, z
<1> QED BY <1>6, <1>7 DEF z


-----------------------------------------------------------------------------
(* Writing an event, or the beginning of one.                              *)

Behind(all, at, o) ==
  [j \in 0 .. Len(all) + 1 |-> IF j <= Len(all) THEN at[j] ELSE at[Len(all)] + Size(o)]

\* The first n bytes of o are put behind what is there.
Appends(all, at, more, o, n, u, new, to) ==
  /\ Stream(all, at, more) /\ more \in Int /\ ~closed
  /\ o \in Occurrence /\ n \in 1 .. Size(o)
  /\ u \in Seq(0 .. 255) /\ Len(u) = n /\ \A i \in 1 .. n : u[i] = Written(o)[i]
  /\ pipe' = pipe \o u
  /\ new = Append(all, o) /\ to = Behind(all, at, o)

\* An event written behind the others: the ones before keep their places.
LEMMA Extended ==
  ASSUME TypeOK, NEW all, NEW at, NEW more, NEW o, NEW n, NEW u, NEW new, NEW to,
         Appends(all, at, more, o, n, u, new, to)
  PROVE  /\ new \in Seq(Occurrence) /\ Len(new) = Len(all) + 1 /\ new[Len(all) + 1] = o
         /\ \A j \in 1 .. Len(all) : new[j] = all[j]
         /\ \A j \in 0 .. Len(all) : to[j] = at[j]
         /\ to \in [0 .. Len(new) -> Int]
         /\ Placed(new, to) /\ Filled(new, to, n - Size(o))'
         /\ to[Len(new)] >= 0 /\ Len(pipe') = to[Len(new)] + (n - Size(o))
         /\ Len(all) = Len(sent)
<1> DEFINE L == Len(all)
           z == Size(o)
<1> USE DEF Appends
<1>1. L \in Nat /\ all \in Seq(Occurrence) /\ Len(pipe) \in Nat /\ L = Len(sent)
  BY DEF Stream, Announced, Ended, TypeOK
<1>2. /\ new \in Seq(Occurrence) /\ Len(new) = L + 1 /\ new[L + 1] = o
      /\ \A j \in 1 .. L : new[j] = all[j]
  BY <1>1
<1>3. z \in Nat \ {0}
  BY OccurrenceIs
<1>4. \A j \in 1 .. L : Size(all[j]) \in Nat \ {0}
  BY <1>1, OccurrenceIs
<1>5. /\ at \in [0 .. L -> Int] /\ \A j \in 1 .. L : at[j] = at[j - 1] + Size(all[j])
      /\ \A i, j \in 0 .. L : i <= j => at[i] <= at[j]
  BY DEF Stream, Placed
<1>6. Len(pipe) = at[L] /\ at[L] >= 0 /\ at[L] \in Int
  <2>1. at[L] \in Int
    BY <1>1, <1>5
  <2>2. more = 0 /\ at[L] >= 0 /\ Len(pipe) = Larger(0, at[L] + more)
    BY DEF Stream, Ended
  <2> QED BY <2>1, <2>2 DEF Larger
<1> HIDE DEF z, L
<1>7. /\ to = [j \in 0 .. L + 1 |-> IF j <= L THEN at[j] ELSE at[L] + z]
  BY DEF Behind, L, z
<1>8. /\ \A j \in 0 .. L : to[j] = at[j] /\ to[j] \in Int
      /\ to[L + 1] = at[L] + z /\ to \in [0 .. L + 1 -> Int]
  <2>1. \A j \in 0 .. L : j \in 0 .. L + 1 /\ j <= L /\ at[j] \in Int
    <3>1. \A j \in 0 .. L : at[j] \in Int
      BY <1>5
    <3>2. \A j \in 0 .. L : j \in 0 .. L + 1 /\ j <= L
      BY <1>1
    <3> QED BY <3>1, <3>2
  <2>2. L + 1 \in 0 .. L + 1 /\ ~(L + 1 <= L)
    BY <1>1
  <2>3. at[L] + z \in Int
    BY <1>3, <1>6
  <2>4. \A j \in 0 .. L : to[j] = at[j]
    BY <1>7, <2>1
  <2>5. to[L + 1] = at[L] + z
    BY <1>7, <2>2
  <2>6. \A j \in 0 .. L + 1 : j <= L => j \in 0 .. L
    BY <1>1
  <2>7. to \in [0 .. L + 1 -> Int]
    BY <1>7, <2>1, <2>3, <2>6
  <2> QED BY <2>1, <2>4, <2>5, <2>7
<1>9. Placed(new, to)
  <2>1. ASSUME NEW j \in 1 .. L + 1
        PROVE  to[j] = to[j - 1] + Size(new[j])
    <3>1. CASE j = L + 1
      <4>1. j - 1 = L /\ L \in 0 .. L
        BY <1>1, <3>1
      <4> QED BY <1>2, <1>8, <3>1, <4>1 DEF z
    <3>2. CASE j # L + 1
      <4>1. j \in 1 .. L /\ j \in 0 .. L /\ j - 1 \in 0 .. L
        BY <1>1, <3>2
      <4> QED BY <1>2, <1>5, <1>8, <4>1
    <3> QED BY <3>1, <3>2
  <2>2. ASSUME NEW i \in 0 .. L + 1, NEW j \in 0 .. L + 1, i <= j
        PROVE  to[i] <= to[j]
    <3>1. CASE j = L + 1 /\ i # j
      <4>1. i \in 0 .. L /\ L \in 0 .. L /\ i <= L
        BY <1>1, <3>1
      <4>2. at[i] <= at[L] /\ at[i] \in Int
        BY <1>5, <4>1
      <4> QED BY <1>3, <1>6, <1>8, <3>1, <4>1, <4>2
    <3>2. CASE j # L + 1
      <4>1. i \in 0 .. L /\ j \in 0 .. L
        BY <1>1, <2>2, <3>2
      <4> QED BY <1>5, <1>8, <2>2, <4>1
    <3>3. CASE i = j
      <4>1. to[i] \in Int
        BY <1>8
      <4> QED BY <3>3, <4>1
    <3> QED BY <3>1, <3>2, <3>3
  <2> QED BY <1>2, <1>8, <2>1, <2>2 DEF Placed
<1>10. /\ Len(pipe') = Len(pipe) + n
       /\ \A i \in 1 .. Len(pipe) : pipe'[i] = pipe[i]
       /\ \A i \in 1 .. n : pipe'[Len(pipe) + i] = Written(o)[i]
  <2>1. pipe \in Seq(0 .. 255)
    BY DEF TypeOK
  <2>2. /\ Len(pipe \o u) = Len(pipe) + Len(u)
        /\ \A i \in 1 .. Len(pipe) + Len(u) :
             (pipe \o u)[i] = IF i <= Len(pipe) THEN pipe[i] ELSE u[i - Len(pipe)]
    BY <2>1, ConcatProperties
  <2>3. \A i \in 1 .. n : Len(pipe) + i \in 1 .. Len(pipe) + n /\ ~(Len(pipe) + i <= Len(pipe))
                          /\ (Len(pipe) + i) - Len(pipe) = i
    BY <1>1
  <2>4. \A i \in 1 .. Len(pipe) : i \in 1 .. Len(pipe) + n /\ i <= Len(pipe)
    BY <1>1
  <2> QED BY <2>2, <2>3, <2>4
<1>11. Filled(new, to, n - z)'
  <2>1. ASSUME NEW j \in 1 .. L + 1, NEW i \in 1 .. Size(new[j]), to[j - 1] + i \in 1 .. Len(pipe')
        PROVE  pipe'[to[j - 1] + i] = Written(new[j])[i]
    <3>1. CASE j = L + 1
      <4>1. to[j - 1] = Len(pipe) /\ new[j] = o /\ i \in 1 .. z
        <5>1. j - 1 = L /\ L \in 0 .. L
          BY <1>1, <3>1
        <5> QED BY <1>2, <1>6, <1>8, <3>1, <5>1 DEF z
      <4>2. i \in 1 .. n
        BY <1>1, <1>3, <1>10, <2>1, <4>1
      <4> QED BY <1>10, <4>1, <4>2
    <3>2. CASE j # L + 1
      <4>1. j \in 1 .. L /\ j \in 0 .. L /\ j - 1 \in 0 .. L
        BY <1>1, <3>2
      <4>2. to[j - 1] = at[j - 1] /\ new[j] = all[j] /\ at[j] = at[j - 1] + Size(all[j]) /\ at[j - 1] \in Int
        BY <1>2, <1>5, <1>8, <4>1
      <4>3. at[j] <= Len(pipe) /\ at[j] \in Int
        <5>1. L \in 0 .. L /\ j <= L
          BY <1>1, <4>1
        <5> QED BY <1>5, <1>6, <4>1, <5>1
      <4>4. at[j - 1] + i \in 1 .. Len(pipe)
        <5>1. Size(all[j]) \in Nat /\ i \in 1 .. Size(all[j])
          BY <1>4, <4>1, <4>2
        <5>2. PICK a, b, c, d : a = at[j - 1] /\ b = Size(all[j]) /\ c = at[j] /\ d = Len(pipe)
          OBVIOUS
        <5>3. a \in Int /\ b \in Nat /\ i \in 1 .. b /\ c = a + b /\ c <= d /\ c \in Int /\ d \in Nat
          BY <1>1, <4>2, <4>3, <5>1, <5>2
        <5>4. a + i \in 1 .. Len(pipe')
          BY <2>1, <4>2, <5>2
        <5> QED BY <5>2, <5>3, <5>4
      <4>5. pipe[at[j - 1] + i] = Written(all[j])[i]
        BY <4>1, <4>2, <4>4 DEF Stream, Filled, L
      <4> QED BY <1>10, <4>2, <4>4, <4>5
    <3> QED BY <3>1, <3>2
  <2>2. n - z # 1
    BY <1>3 DEF z
  <2> QED BY <1>2, <2>1, <2>2 DEF Filled
<1>12. to[Len(new)] >= 0 /\ Len(pipe') = to[Len(new)] + (n - z)
  <2>1. to[Len(new)] = at[L] + z
    BY <1>2, <1>8
  <2>2. n \in Int /\ Len(pipe') = at[L] + n
    BY <1>3, <1>6, <1>10
  <2> QED BY <1>3, <1>6, <2>1, <2>2
<1> QED BY <1>1, <1>2, <1>8, <1>9, <1>11, <1>12 DEF z, L


\* What the program has read of the events is as it was when more of them
\* are announced.
Kept(all, at, more, new, to) ==
  /\ Stream(all, at, more) /\ Position(all, at, more) /\ ~closed
  /\ \A j \in 1 .. Len(all) : new[j] = all[j]
  /\ Len(new) = Len(all) + 1
  /\ \A j \in 0 .. Len(all) : to[j] = at[j]
  /\ UNCHANGED loopVars /\ sent' \in Seq(Occurrence) /\ Len(sent) <= Len(sent')

\* What the writer adds does not change how far the program has come.
LEMMA PositionKept ==
  ASSUME TypeOK, NEW all, NEW at, NEW more, NEW new, NEW to, Kept(all, at, more, new, to), NEW rest
  PROVE  Position(new, to, rest)'
<1> USE DEF Kept
<1> DEFINE N == Len(handled)
<1>1. N \in Nat /\ N <= Len(sent) /\ handled \in Seq({Given(o) : o \in Occurrence})
  BY DEF Position
<1>2. Len(all) = Len(sent) /\ Len(sent) \in Nat /\ Len(sent') \in Nat
  BY DEF Stream, Announced, Ended, TypeOK
<1>3. /\ pc' = pc /\ ch' = ch /\ rule' = rule /\ got' = got /\ handled' = handled
  BY DEF loopVars
<1>4. pc \notin {"done", "error"}
  BY DEF Position
<1>5. to[N] = Ahead' /\ Ahead' = Ahead
  <2>1. N \in 0 .. Len(all)
    BY <1>1, <1>2
  <2>2. at[N] = Ahead
    BY <1>4 DEF Position
  <2>3. Ahead' = Ahead
    BY <1>3 DEF Ahead
  <2> QED BY <2>1, <2>2, <2>3
<1>6. ASSUME pc = "test"
      PROVE  Tested(new)'
  <2>1. Tested(all)
    BY <1>6 DEF Position
  <2>2. N < Len(all) /\ ch = Letter[all[N + 1].event]
    BY <2>1 DEF Tested
  <2>3. N + 1 \in 1 .. Len(all) /\ N < Len(new)
    BY <1>1, <1>2, <2>2
  <2> QED BY <1>3, <2>2, <2>3 DEF Tested
<1>7. ASSUME pc = "rule"
      PROVE  ReadSoFar(new, rest)'
  <2>1. ReadSoFar(all, more)
    BY <1>7 DEF Position
  <2>2. /\ N + 1 \in 1 .. Len(all) /\ N + 1 <= Len(new) /\ N + 1 <= Len(sent)
        /\ ~(N + 1 > Len(sent')) /\ new[N + 1] = all[N + 1]
    BY <1>1, <1>2, <2>1 DEF ReadSoFar
  <2>3. /\ rule = Handler(Letter[all[N + 1].event]) /\ Len(got) <= WORD * Len(Formals)
        /\ \A i \in 1 .. Len(got) : got[i] = Written(all[N + 1])[1 + i]
    BY <2>1, <2>2 DEF ReadSoFar
  <2>4. Formals' = Formals
    BY <1>3 DEF Formals
  <2> QED BY <1>3, <2>2, <2>3, <2>4 DEF ReadSoFar
<1>8. N' <= Len(sent')
  BY <1>1, <1>2, <1>3
<1>9. pc \in {"skip3", "skip2", "skip1"} => handled = <<>>
  BY DEF Position
<1> QED BY <1>1, <1>3, <1>4, <1>5, <1>6, <1>7, <1>8, <1>9 DEF Position

-----------------------------------------------------------------------------
(* The reaction.                                                           *)

\* A rule that has its parameters has those of the next event sent, whole.
LEMMA Served ==
  ASSUME ServedProgram, TypeOK, NEW all, NEW at, NEW more \in Int,
         Stream(all, at, more), Position(all, at, more), RunRule
  PROVE  LET o == sent[Len(handled) + 1] IN
         /\ Len(handled) < Len(sent) /\ all[Len(handled) + 1] = o /\ o \in Occurrence
         /\ Len(got) = Size(o) - 1
         /\ handled' = Append(handled, Given(o))
<1> DEFINE n == Len(handled) + 1
           o == all[n]
<1>1. pc = "rule" /\ Len(got) = WORD * Len(Formals)
  BY DEF RunRule
<1>2. /\ n \in 1 .. Len(all) /\ Len(handled) \in Nat /\ Len(sent) \in Nat /\ Len(handled) <= Len(sent)
      /\ rule = Handler(Letter[o.event])
      /\ n <= Len(sent) => \A i \in 1 .. Len(got) : got[i] = Written(o)[1 + i]
      /\ n > Len(sent) /\ 1 + Len(got) > Size(o) + more => Len(got) % WORD # 0
  <2>1. Len(handled) \in Nat /\ Len(sent) \in Nat /\ Len(handled) <= Len(sent)
    BY DEF Position, TypeOK
  <2>2. ReadSoFar(all, more) /\ Len(all) \in Nat
    BY <1>1 DEF Position, Stream, Announced
  <2>3. n <= Len(all)
    BY <2>2 DEF ReadSoFar
  <2> QED BY <2>1, <2>2, <2>3 DEF ReadSoFar
<1>3. o \in Occurrence /\ o.event \in Event
  <2>1. all \in Seq(Occurrence)
    BY DEF Stream, Announced
  <2>2. o \in Occurrence
    BY <1>2, <2>1
  <2> QED BY <2>2, OccurrenceIs
<1>4. Formals = Params[o.event]
  BY <1>2, <1>3, FormalsAre
<1>5. Size(o) - 1 = Len(got) /\ Size(o) \in Nat /\ Len(Params[o.event]) \in Nat
  BY <1>1, <1>3, <1>4, OccurrenceIs
<1>6. Len(handled) < Len(sent)
  <2> SUFFICES ASSUME ~(Len(handled) < Len(sent)) PROVE FALSE
    OBVIOUS
  <2>1. n = Len(sent) + 1
    BY <1>2
  <2>2. cut /\ Len(all) = n
    BY <1>2, <2>1 DEF Stream, Announced
  <2>3. more < 0 /\ more \in Int
    BY <2>2 DEF Stream, Ended
  <2>4. Len(got) % WORD # 0
    BY <1>2, <1>5, <2>1, <2>3
  <2>5. (WORD * Len(Params[o.event]) + 0) % WORD = 0
    <3>1. WORD \in Nat \ {0} /\ 0 \in 0 .. WORD - 1
      BY EventAssumption
    <3> QED BY <1>5, <3>1, DivMod
  <2>6. WORD * Len(Params[o.event]) + 0 = Len(got)
    <3>1. WORD \in Nat
      BY EventAssumption
    <3>2. WORD * Len(Params[o.event]) \in Nat
      BY <1>5, <3>1
    <3> QED BY <1>1, <1>4, <3>2
  <2> QED BY <2>4, <2>5, <2>6
<1>7. sent[n] = o
  <2>1. n \in 1 .. Len(sent)
    BY <1>2, <1>6
  <2> QED BY <2>1 DEF Stream, Announced
<1>8. \A k \in DOMAIN Params[o.event] : [b \in 1 .. WORD |-> got[WORD * (k - 1) + b]] = o.words[k]
  <2> SUFFICES ASSUME NEW k \in DOMAIN Params[o.event]
               PROVE  [b \in 1 .. WORD |-> got[WORD * (k - 1) + b]] = o.words[k]
    OBVIOUS
  <2>1. o.words[k] \in [1 .. WORD -> Byte]
    BY <1>3, OccurrenceIs DEF Words
  <2>2. ASSUME NEW b \in 1 .. WORD
        PROVE  got[WORD * (k - 1) + b] = o.words[k][b]
    <3>1. /\ WORD * (k - 1) + b \in 1 .. Len(got)
          /\ Written(o)[1 + (WORD * (k - 1) + b)] = o.words[k][b]
      BY <1>3, <1>5, WrittenIs
    <3>2. n <= Len(sent)
      BY <1>2, <1>6
    <3> QED BY <1>2, <3>1, <3>2
  <2> QED BY <2>1, <2>2
<1>9. [rule |-> rule, values |-> Values] = Given(o)
  <2>1. CASE HasRule(o.event)
    <3>1. rule = o.event
      BY <1>2, <1>3, <2>1, HandlerIs
    <3>2. DOMAIN o.words = DOMAIN Params[o.event]
      BY <1>3, OccurrenceIs
    <3>3. Values = [k \in DOMAIN o.words |-> Read(Params[o.event][k], o.words[k])]
      BY <1>4, <1>8, <3>2 DEF Values
    <3> QED BY <2>1, <3>1, <3>3 DEF Given
  <2>2. CASE ~ HasRule(o.event)
    <3>1. rule = AnyRule
      BY <1>2, <1>3, <2>2, HandlerIs
    <3>2. Values = <<>>
      BY <3>1 DEF Values, Formals
    <3> QED BY <2>2, <3>1, <3>2 DEF Given
  <2> QED BY <2>1, <2>2
<1> QED BY <1>3, <1>5, <1>6, <1>7, <1>9 DEF RunRule


-----------------------------------------------------------------------------
(* The invariant is one: the writer's steps.                               *)

\* The program is where the stream says.
Located == \E all, at : \E more \in Int : Stream(all, at, more) /\ Position(all, at, more)

\* Nothing has been written at the start.
LEMMA InitLocated ==
  ASSUME Init
  PROVE  Located
<1> DEFINE at == [j \in 0 .. 0 |-> SKIPPED]
           all == <<>>
<1>1. PICK n \in 0 .. SKIPPED : pipe \in [1 .. n -> {LOW + 1}] /\ closed = (n < SKIPPED)
  BY DEF Init
<1>2. Len(pipe) = n /\ n \in 0 .. 3 /\ pc = "skip3" /\ handled = <<>> /\ sent = <<>> /\ ~cut
  <2>1. n \in Nat /\ pipe \in [1 .. n -> {LOW + 1}]
    BY <1>1 DEF SKIPPED
  <2>2. Len(pipe) = n
    BY <2>1
  <2> QED BY <1>1, <2>2 DEF Init, SKIPPED
<1>3. Len(all) = 0 /\ all \in Seq(Occurrence) /\ Len(sent) = 0 /\ Len(handled) = 0
  BY <1>2
<1>4. at \in [0 .. 0 -> Int] /\ at[0] = 3 /\ \A i \in 0 .. 0 : i = 0
  BY DEF SKIPPED
<1> HIDE DEF at, all
<1>5. Announced(all)
  BY <1>2, <1>3 DEF Announced
<1>6. Placed(all, at)
  BY <1>3, <1>4 DEF Placed
<1>7. Ended(all, at, n - 3)
  <2>1. closed <=> n < 3
    BY <1>1 DEF SKIPPED
  <2>2. Larger(0, at[Len(all)] + (n - 3)) = n
    BY <1>2, <1>3, <1>4 DEF Larger
  <2>3. n - 3 \in -3 .. 1 /\ (~(n < 3) => n - 3 = 0)
    BY <1>2
  <2> QED BY <1>2, <1>3, <1>4, <2>1, <2>2, <2>3 DEF Ended, SKIPPED
<1>8. Filled(all, at, n - 3)
  BY <1>2, <1>3 DEF Filled
<1>9. Position(all, at, n - 3)
  <2>1. Ahead = 3
    BY <1>2 DEF Ahead
  <2>2. handled \in Seq({Given(o) : o \in Occurrence})
    BY <1>2
  <2> QED BY <1>2, <1>3, <1>4, <2>1, <2>2 DEF Position
<1>10. n - 3 \in Int
  BY <1>2
<1> QED BY <1>5, <1>6, <1>7, <1>8, <1>9, <1>10 DEF Located, Stream

LEMMA WriteLocated ==
  ASSUME TypeOK, Located, NEW o \in Occurrence, Write(o)
  PROVE  Located'
<1>1. PICK all, at : \E more \in Int : Stream(all, at, more) /\ Position(all, at, more)
  BY DEF Located
<1>2. PICK more \in Int : Stream(all, at, more) /\ Position(all, at, more)
  BY <1>1
<1> DEFINE new == Append(all, o)
           to == Behind(all, at, o)
<1>3. Size(o) \in Nat \ {0} /\ Written(o) \in Seq(0 .. 255) /\ Len(Written(o)) = Size(o)
  BY OccurrenceIs, WrittenIs
<1>4. ~closed /\ pipe' = pipe \o Written(o) /\ ~cut /\ sent' = Append(sent, o) /\ UNCHANGED <<closed, cut>>
  BY <1>2 DEF Write, Stream, Ended
<1>5. /\ new \in Seq(Occurrence) /\ Len(new) = Len(all) + 1 /\ new[Len(all) + 1] = o
      /\ \A j \in 1 .. Len(all) : new[j] = all[j]
      /\ \A j \in 0 .. Len(all) : to[j] = at[j]
      /\ Placed(new, to) /\ Filled(new, to, Size(o) - Size(o))'
      /\ to[Len(new)] >= 0 /\ Len(pipe') = to[Len(new)] + (Size(o) - Size(o))
      /\ to \in [0 .. Len(new) -> Int] /\ Len(all) = Len(sent)
  <2>1. Size(o) \in 1 .. Size(o)
    BY <1>3
  <2>2. Appends(all, at, more, o, Size(o), Written(o), new, to)
    BY <1>2, <1>3, <1>4, <2>1 DEF Appends
  <2> HIDE DEF new, to
  <2> QED BY <2>2, Extended
<1>6. Size(o) - Size(o) = 0
  BY <1>3
<1>7. /\ Len(sent') = Len(sent) + 1 /\ sent'[Len(sent) + 1] = o /\ Len(sent) \in Nat
      /\ sent' \in Seq(Occurrence) /\ \A j \in 1 .. Len(sent) : sent'[j] = sent[j]
  BY <1>4 DEF TypeOK
<1>8. \A j \in 1 .. Len(sent) : all[j] = sent[j]
  BY <1>2 DEF Stream, Announced
<1> HIDE DEF new, to
<1>9. Announced(new)'
  <2>1. ASSUME NEW j \in 1 .. Len(sent')
        PROVE  new[j] = sent'[j]
    <3>1. j \in 1 .. Len(sent) \/ j = Len(sent) + 1
      BY <1>7
    <3> QED BY <1>5, <1>7, <1>8, <3>1
  <2> QED BY <1>4, <1>5, <1>7, <2>1 DEF Announced
<1>10. Placed(new, to)'
  BY <1>5 DEF Placed
<1>11. Ended(new, to, 0)'
  <2>1. to[Len(new)] \in Int
    BY <1>5, <1>7
  <2>2. Len(pipe') = Larger(0, to[Len(new)] + 0)
    BY <1>5, <1>6, <2>1 DEF Larger
  <2> QED BY <1>4, <1>5, <2>2 DEF Ended, SKIPPED
<1>12. Filled(new, to, 0)'
  BY <1>5, <1>6
<1>13. Position(new, to, 0)'
  <2>1. Len(sent) <= Len(sent') /\ UNCHANGED loopVars
    BY <1>7 DEF Write
  <2>2. Kept(all, at, more, new, to)
    BY <1>2, <1>4, <1>5, <1>7, <2>1 DEF Kept
  <2> QED BY <2>2, PositionKept
<1> QED BY <1>9, <1>10, <1>11, <1>12, <1>13 DEF Located, Stream

LEMMA BreakLocated ==
  ASSUME TypeOK, Located, NEW o \in Occurrence, Break(o)
  PROVE  Located'
<1>1. PICK all, at : \E more \in Int : Stream(all, at, more) /\ Position(all, at, more)
  BY DEF Located
<1>2. PICK more \in Int : Stream(all, at, more) /\ Position(all, at, more)
  BY <1>1
<1> DEFINE new == Append(all, o)
           to == Behind(all, at, o)
           w == Written(o)
<1>3. Size(o) \in Nat \ {0} /\ w \in Seq(0 .. 255) /\ Len(w) = Size(o)
  BY OccurrenceIs, WrittenIs
<1>4. ~closed /\ closed' /\ cut' /\ sent' = sent /\ UNCHANGED loopVars
  BY DEF Break
<1>5. PICK n \in 1 .. Size(o) - 1 : pipe' = pipe \o SubSeq(w, 1, n)
  BY <1>3 DEF Break
<1> HIDE DEF new, to, w
<1>6. /\ SubSeq(w, 1, n) \in Seq(0 .. 255) /\ Len(SubSeq(w, 1, n)) = n
      /\ \A i \in 1 .. n : SubSeq(w, 1, n)[i] = w[i]
  <2>1. n \in 1 .. Len(w)
    BY <1>3
  <2> QED BY <1>3, <2>1, Prefix
<1>7. /\ new \in Seq(Occurrence) /\ Len(new) = Len(all) + 1 /\ new[Len(all) + 1] = o
      /\ \A j \in 1 .. Len(all) : new[j] = all[j]
      /\ \A j \in 0 .. Len(all) : to[j] = at[j]
      /\ Placed(new, to) /\ Filled(new, to, n - Size(o))'
      /\ to[Len(new)] >= 0 /\ Len(pipe') = to[Len(new)] + (n - Size(o))
      /\ to \in [0 .. Len(new) -> Int] /\ Len(all) = Len(sent)
  <2>1. n \in 1 .. Size(o)
    BY <1>3
  <2>2. \A i \in 1 .. n : SubSeq(w, 1, n)[i] = Written(o)[i]
    BY <1>6 DEF w
  <2>3. Appends(all, at, more, o, n, SubSeq(w, 1, n), new, to)
    BY <1>2, <1>4, <1>5, <1>6, <2>1, <2>2 DEF Appends, new, to
  <2> QED BY <2>3, Extended
<1>8. Len(sent) \in Nat /\ sent \in Seq(Occurrence) /\ Len(pipe') \in Nat
  <2>1. pipe' \in Seq(0 .. 255)
    BY <1>5, <1>6 DEF TypeOK
  <2> QED BY <2>1 DEF TypeOK
<1>9. \A j \in 1 .. Len(sent) : all[j] = sent[j]
  BY <1>2 DEF Stream, Announced
<1>10. Announced(new)'
  BY <1>4, <1>7, <1>9 DEF Announced
<1>11. Placed(new, to)'
  BY <1>7 DEF Placed
<1>12. Ended(new, to, n - Size(o))'
  <2>1. Len(pipe') = Larger(0, to[Len(new)] + (n - Size(o)))
    BY <1>7, <1>8 DEF Larger
  <2>2. 0 < Size(o) + (n - Size(o)) /\ n - Size(o) < 0
    BY <1>3
  <2>3. new[Len(new)] = o
    BY <1>7
  <2> QED BY <1>4, <2>1, <2>2, <2>3 DEF Ended
<1>13. Position(new, to, n - Size(o))'
  <2>1. Len(sent) <= Len(sent') /\ sent' \in Seq(Occurrence)
    BY <1>4, <1>8
  <2>2. Kept(all, at, more, new, to)
    BY <1>2, <1>4, <1>7, <2>1 DEF Kept
  <2> QED BY <2>2, PositionKept
<1>14. n - Size(o) \in Int
  BY <1>3
<1> QED BY <1>7, <1>10, <1>11, <1>12, <1>13, <1>14 DEF Located, Stream

LEMMA CloseLocated ==
  ASSUME TypeOK, Located, Close
  PROVE  Located'
<1>1. PICK all, at : \E more \in Int : Stream(all, at, more) /\ Position(all, at, more)
  BY DEF Located
<1>2. PICK more \in Int : Stream(all, at, more) /\ Position(all, at, more)
  BY <1>1
<1>3. ~closed /\ closed' /\ sent' = sent /\ cut' = cut /\ UNCHANGED loopVars
  BY DEF Close
<1>4. ~cut /\ more = 0 /\ at[Len(all)] >= 0 /\ Len(pipe) = at[Len(all)] /\ at[Len(all)] \in Int
  <2>1. ~cut /\ more = 0 /\ at[Len(all)] >= 0 /\ Len(pipe) = Larger(0, at[Len(all)] + 0)
    BY <1>2, <1>3 DEF Stream, Ended
  <2>2. at[Len(all)] \in Int
    BY <1>2 DEF Stream, Placed, Announced
  <2> QED BY <2>1, <2>2 DEF Larger
<1>5. PICK e \in {0, 1} :
        /\ Len(pipe') = Len(pipe) + e /\ (e = 1 => pipe'[Len(pipe')] = 10)
        /\ \A i \in 1 .. Len(pipe) : pipe'[i] = pipe[i]
  <2>1. CASE pipe' = pipe
    <3>1. Len(pipe') = Len(pipe) + 0
      BY <2>1 DEF TypeOK
    <3> QED BY <2>1, <3>1
  <2>2. CASE pipe' = Append(pipe, 10)
    BY <2>2 DEF TypeOK
  <2> QED BY <2>1, <2>2 DEF Close
<1>6. Announced(all)' /\ Placed(all, at)'
  BY <1>2, <1>3 DEF Stream, Announced, Placed
<1>7. Ended(all, at, e)'
  <2>1. Len(pipe') = Larger(0, at[Len(all)] + e)
    BY <1>4, <1>5 DEF Larger
  <2>2. e \in -SKIPPED .. 1 /\ ~(e < 0)
    BY DEF SKIPPED
  <2> QED BY <1>3, <1>4, <2>1, <2>2 DEF Ended
<1>8. Filled(all, at, e)'
  <2>1. ASSUME NEW j \in 1 .. Len(all), NEW i \in 1 .. Size(all[j]), at[j - 1] + i \in 1 .. Len(pipe')
        PROVE  pipe'[at[j - 1] + i] = Written(all[j])[i]
    <3>1. at[j] = at[j - 1] + Size(all[j]) /\ at[j] <= at[Len(all)] /\ at[j - 1] \in Int /\ at[j] \in Int
      <4>1. Len(all) \in Nat
        BY <1>2 DEF Stream, Announced
      <4>2. {j, j - 1, Len(all)} \subseteq 0 .. Len(all) /\ j <= Len(all)
        BY <4>1
      <4> QED BY <1>2, <4>2 DEF Stream, Placed
    <3>2. Size(all[j]) \in Nat
      BY <1>2, OccurrenceIs DEF Stream, Announced
    <3>3. at[j - 1] + i \in 1 .. Len(pipe)
      BY <1>4, <2>1, <3>1, <3>2
    <3> QED BY <1>2, <1>5, <3>3 DEF Stream, Filled
  <2> QED BY <1>5, <2>1 DEF Filled
<1>9. Position(all, at, e)'
  <2>1. /\ pc' = pc /\ ch' = ch /\ rule' = rule /\ got' = got /\ handled' = handled
    BY <1>3 DEF loopVars
  <2>2. Ahead' = Ahead /\ Formals' = Formals
    BY <2>1 DEF Ahead, Formals
  <2>3. pc = "test" => Tested(all)'
    BY <1>2, <1>3, <2>1 DEF Position, Tested
  <2>4. pc = "rule" => ReadSoFar(all, e)'
    <3> SUFFICES ASSUME pc = "rule" PROVE ReadSoFar(all, e)'
      OBVIOUS
    <3>1. ReadSoFar(all, more)
      BY <1>2 DEF Position
    <3>2. ~(Len(handled) + 1 > Len(sent))
      BY <1>2, <1>4, <3>1 DEF ReadSoFar, Stream, Announced, TypeOK, Position
    <3> QED BY <1>3, <2>1, <2>2, <3>1, <3>2 DEF ReadSoFar
  <2> QED BY <1>2, <1>3, <2>1, <2>2, <2>3, <2>4 DEF Position
<1> QED BY <1>6, <1>7, <1>8, <1>9 DEF Located, Stream


-----------------------------------------------------------------------------
(* The invariant is one: the program's steps.                              *)

LEMMA SkipLocated ==
  ASSUME TypeOK, Located, NEW k \in 1 .. SKIPPED, Skip(k)
  PROVE  Located'
<1>1. PICK all, at : \E more \in Int : Stream(all, at, more) /\ Position(all, at, more)
  BY DEF Located
<1>2. PICK more \in Int : Stream(all, at, more) /\ Position(all, at, more)
  BY <1>1
<1>3. PICK c \in 0 .. 255 \cup {EOF} : GetC(c) /\ ch' = c
  BY DEF Skip
<1>4. UNCHANGED <<closed, sent, cut, rule, got, handled>>
  BY DEF Skip
<1>5. Stream(all, Shift(at), more)'
  BY <1>2, <1>3, <1>4, Shifted
<1>6. /\ pc \in {"skip3", "skip2", "skip1"} /\ pc' \in {"skip2", "skip1", "event"}
      /\ Ahead' = Ahead - 1
  BY DEF Skip, Skips, SKIPPED, Ahead
<1>7. handled = <<>> /\ Len(handled) = 0 /\ at[Len(handled)] = Ahead /\ Ahead \in Int
  <2>1. handled = <<>> /\ at[Len(handled)] = Ahead
    BY <1>2, <1>6 DEF Position
  <2>2. Ahead \in Int
    BY <1>6 DEF Ahead
  <2> QED BY <2>1, <2>2
<1>8. Shift(at)[0] = at[0] - 1
  BY <1>2 DEF Stream, Placed, Announced, Shift
<1>9. Position(all, Shift(at), more)'
  BY <1>2, <1>4, <1>6, <1>7, <1>8 DEF Position
<1> QED BY <1>2, <1>5, <1>9 DEF Located

LEMMA ReadEventLocated ==
  ASSUME TypeOK, Located, ReadEvent
  PROVE  Located'
<1>1. PICK all, at : \E more \in Int : Stream(all, at, more) /\ Position(all, at, more)
  BY DEF Located
<1>2. PICK more \in Int : Stream(all, at, more) /\ Position(all, at, more)
  BY <1>1
<1>3. PICK c \in 0 .. 255 \cup {EOF} : GetC(c) /\ ch' = c
  BY DEF ReadEvent
<1>4. UNCHANGED <<closed, sent, cut, rule, got, handled>> /\ pc = "event" /\ pc' = "test"
  BY DEF ReadEvent
<1>5. Stream(all, Shift(at), more)'
  BY <1>2, <1>3, <1>4, Shifted
<1> DEFINE N == Len(handled)
<1>6. N \in 0 .. Len(sent) /\ Len(sent) \in Nat /\ at[N] = 0
  <2>1. Ahead = 0
    BY <1>4 DEF Ahead
  <2> QED BY <1>2, <1>4, <2>1 DEF Position, TypeOK
<1>7. /\ Len(all) = IF cut THEN Len(sent) + 1 ELSE Len(sent)
      /\ all \in Seq(Occurrence) /\ Len(all) \in Nat /\ N \in 0 .. Len(all)
  BY <1>2, <1>6 DEF Stream, Announced
<1>8. Shift(at)[N] = -1
  BY <1>2, <1>6, <1>7 DEF Stream, Placed, Shift
<1>9. \/ Len(pipe) > 0 /\ c = pipe[1]
      \/ Len(pipe) = 0 /\ closed /\ c = EOF
  BY <1>3, ReadIs DEF TypeOK
<1>10. CASE N < Len(all)
  <2>1. all[N + 1] \in Occurrence
    <3>1. N + 1 \in 1 .. Len(all)
      BY <1>7, <1>10
    <3> QED BY <1>7, <3>1
  <2>2. Size(all[N + 1]) \in Nat \ {0} /\ Written(all[N + 1])[1] = Letter[all[N + 1].event]
    BY <2>1, OccurrenceIs, WrittenIs
  <2>3. N < Len(sent) \/ 0 < Size(all[N + 1]) + more
    <3> SUFFICES ASSUME ~(N < Len(sent)) PROVE 0 < Size(all[N + 1]) + more
      OBVIOUS
    <3>1. cut /\ N + 1 = Len(all)
      BY <1>6, <1>7, <1>10
    <3> QED BY <1>2, <3>1 DEF Stream, Ended
  <2>4. Len(pipe) > 0 /\ pipe[1] = Written(all[N + 1])[0 + 1]
    <3>1. 0 \in Nat /\ 0 < Size(all[N + 1]) /\ at[N] + 0 = 0
      BY <1>6, <2>2
    <3> HIDE DEF N
    <3> QED BY <1>2, <1>6, <1>10, <2>3, <3>1, NextByte
  <2>5. Tested(all)'
    BY <1>3, <1>4, <1>9, <1>10, <2>2, <2>4 DEF Tested
  <2> QED BY <1>2, <1>4, <1>5, <1>6, <1>8, <2>5 DEF Located, Position, Ahead
<1>11. CASE ~ (N < Len(all))
  <2>1. ~cut /\ N = Len(all) /\ at[Len(all)] = 0
    BY <1>6, <1>7, <1>11
  <2>2. more \in -3 .. 1 /\ Len(pipe) = Larger(0, 0 + more) /\ (~closed => more = 0)
    BY <1>2, <2>1 DEF Stream, Ended, SKIPPED
  <2>3. closed /\ c < LOW
    <3>1. CASE Len(pipe) > 0
      <4>1. more = 1 /\ Len(pipe) = 1
        BY <2>2, <3>1 DEF Larger
      <4>2. pipe[Len(pipe)] = 10
        BY <1>2, <2>1, <4>1 DEF Stream, Filled
      <4> QED BY <1>9, <2>2, <4>1, <4>2 DEF LOW
    <3>2. CASE ~ (Len(pipe) > 0)
      BY <1>9, <3>2 DEF LOW, EOF
    <3> QED BY <3>1, <3>2
  <2>4. Tested(all)'
    BY <1>3, <1>4, <1>11, <2>3 DEF Tested
  <2> QED BY <1>2, <1>4, <1>5, <1>6, <1>8, <2>4 DEF Located, Position, Ahead
<1> QED BY <1>10, <1>11

LEMMA DispatchLocated ==
  ASSUME ServedProgram, TypeOK, Located, Dispatch
  PROVE  Located'
<1>1. PICK all, at : \E more \in Int : Stream(all, at, more) /\ Position(all, at, more)
  BY DEF Located
<1>2. PICK more \in Int : Stream(all, at, more) /\ Position(all, at, more)
  BY <1>1
<1>3. /\ UNCHANGED <<pipe, closed, sent, cut, handled, ch>> /\ got' = <<>> /\ pc = "test"
      /\ pc' = IF LOW > ch THEN "done" ELSE IF Handler(ch) = NoRule THEN "event" ELSE "rule"
      /\ rule' = IF LOW > ch THEN NoRule ELSE Handler(ch)
  BY DEF Dispatch, inputVars
<1>4. Stream(all, at, more)'
  BY <1>2, <1>3 DEF Stream, Announced, Placed, Ended, Filled
<1> DEFINE N == Len(handled)
<1>5. N \in 0 .. Len(sent) /\ Len(sent) \in Nat /\ at[N] = -1 /\ Tested(all)
  <2>1. Ahead = -1
    BY <1>3 DEF Ahead
  <2> QED BY <1>2, <1>3, <2>1 DEF Position, TypeOK
<1>6. /\ Len(all) = IF cut THEN Len(sent) + 1 ELSE Len(sent)
      /\ all \in Seq(Occurrence) /\ Len(all) \in Nat /\ N \in 0 .. Len(all)
  BY <1>2, <1>5 DEF Stream, Announced
<1>7. CASE N < Len(all)
  <2> DEFINE o == all[N + 1]
  <2>1. o \in Occurrence
    <3>1. N + 1 \in 1 .. Len(all)
      BY <1>6, <1>7
    <3> QED BY <1>6, <3>1
  <2>2. o.event \in Event /\ Letter[o.event] \in LOW .. 255 /\ Size(o) \in Nat \ {0}
    BY <2>1, OccurrenceIs, WrittenIs
  <2>3. ch = Letter[o.event]
    BY <1>5, <1>7 DEF Tested
  <2>4. Handler(ch) # NoRule /\ ~(LOW > ch)
    <3>1. Handler(ch) # NoRule
      BY <2>2, <2>3, HandlerIs
    <3>2. ch \in 64 .. 255
      BY <2>2, <2>3 DEF LOW
    <3> QED BY <3>1, <3>2 DEF LOW
  <2>5. pc' = "rule" /\ rule' = Handler(Letter[o.event])
    BY <1>3, <2>3, <2>4
  <2>6. Len(got') <= WORD * Len(Formals')
    <3>1. Formals' \in {<<>>, Params[o.event]}
      <4>1. rule' = IF HasRule(o.event) THEN o.event ELSE AnyRule
        BY <2>2, <2>5, HandlerIs
      <4> QED BY <4>1 DEF Formals
    <3>2. Len(Formals') \in Nat
      <4>1. Len(Params[o.event]) \in Nat
        BY <2>1, OccurrenceIs
      <4> QED BY <3>1, <4>1
    <3>3. WORD \in Nat
      BY EventAssumption
    <3>4. WORD * Len(Formals') \in Nat
      BY <3>2, <3>3
    <3> QED BY <1>3, <3>4
  <2>7. Len(got') = 0
    BY <1>3
  <2>8. N + 1 > Len(sent) => ~(1 + 0 > Size(o) + more)
    <3> SUFFICES ASSUME N + 1 > Len(sent) PROVE ~(1 + 0 > Size(o) + more)
      OBVIOUS
    <3>1. cut /\ N + 1 = Len(all)
      BY <1>5, <1>6, <1>7
    <3>2. 0 < Size(o) + more
      BY <1>2, <3>1 DEF Stream, Ended
    <3> QED BY <2>2, <3>2
  <2>9. ReadSoFar(all, more)'
    <3>1. N + 1 <= Len(all)
      BY <1>6, <1>7
    <3>2. \A i \in 1 .. Len(got') : FALSE
      BY <2>7
    <3> QED BY <1>3, <2>5, <2>6, <2>7, <2>8, <3>1, <3>2 DEF ReadSoFar
  <2>10. Ahead' = -1
    BY <2>5, <2>7 DEF Ahead
  <2>11. Position(all, at, more)'
    BY <1>2, <1>3, <1>5, <2>5, <2>9, <2>10 DEF Position
  <2> QED BY <1>2, <1>4, <2>11 DEF Located
<1>8. CASE ~ (N < Len(all))
  <2>1. ~cut /\ N = Len(sent)
    BY <1>5, <1>6, <1>8
  <2>2. closed /\ ch < LOW /\ ch \in Int
    BY <1>5, <1>8 DEF Tested, TypeOK, EOF
  <2>3. pc' = "done"
    BY <1>3, <2>2 DEF LOW
  <2>4. Position(all, at, more)'
    BY <1>2, <1>3, <2>1, <2>2, <2>3 DEF Position
  <2> QED BY <1>2, <1>4, <2>4 DEF Located
<1> QED BY <1>7, <1>8

LEMMA ReadParamLocated ==
  ASSUME ServedProgram, TypeOK, Located, ReadParam
  PROVE  Located'
<1>1. PICK all, at : \E more \in Int : Stream(all, at, more) /\ Position(all, at, more)
  BY DEF Located
<1>2. PICK more \in Int : Stream(all, at, more) /\ Position(all, at, more)
  BY <1>1
<1>3. PICK c \in 0 .. 255 \cup {EOF} :
        /\ GetC(c) /\ got' = Append(got, c)
        /\ pc' = IF (Len(got) + 1) % WORD = 0 /\ c < 0 THEN "error" ELSE "rule"
  BY DEF ReadParam
<1>4. /\ UNCHANGED <<closed, ch, rule, sent, cut, handled>> /\ pc = "rule"
      /\ Len(got) < WORD * Len(Formals)
  BY DEF ReadParam
<1>5. Stream(all, Shift(at), more)'
  BY <1>2, <1>3, <1>4, Shifted
<1> DEFINE N == Len(handled)
           o == all[N + 1]
           p == 1 + Len(got)
<1>6. /\ N \in 0 .. Len(sent) /\ Len(sent) \in Nat /\ Len(got) \in Nat
      /\ at[N] = -1 - Len(got) /\ ReadSoFar(all, more)
  <2>1. Ahead = -1 - Len(got)
    BY <1>4 DEF Ahead
  <2> QED BY <1>2, <1>4, <2>1 DEF Position, TypeOK
<1>7. /\ Len(all) = IF cut THEN Len(sent) + 1 ELSE Len(sent)
      /\ all \in Seq(Occurrence) /\ Len(all) \in Nat /\ N + 1 \in 1 .. Len(all)
  BY <1>2, <1>6 DEF Stream, Announced, ReadSoFar
<1>8. o \in Occurrence /\ o.event \in Event /\ Size(o) \in Nat \ {0} /\ Written(o) \in Seq(0 .. 255)
      /\ Len(Written(o)) = Size(o) /\ Size(o) - 1 = WORD * Len(Params[o.event])
  <2>1. o \in Occurrence
    BY <1>7
  <2> QED BY <2>1, OccurrenceIs, WrittenIs
<1>9. Formals = Params[o.event] /\ Formals' = Formals
  <2>1. rule = Handler(Letter[o.event])
    BY <1>6 DEF ReadSoFar
  <2> QED BY <1>4, <1>8, <2>1, FormalsAre DEF Formals
<1>10. p \in Nat /\ p < Size(o) /\ at[N] + p = 0
  BY <1>4, <1>6, <1>8, <1>9
<1>11. /\ got' \in Seq(0 .. 255 \cup {EOF}) /\ Len(got') = p
       /\ got'[p] = c /\ \A i \in 1 .. Len(got) : got'[i] = got[i]
  BY <1>3 DEF TypeOK
<1>12. Shift(at)[N] = -1 - Len(got')
  <2>1. N \in DOMAIN at
    BY <1>2, <1>6, <1>7 DEF Stream, Placed
  <2> QED BY <1>6, <1>11, <2>1 DEF Shift
<1>13. Len(got') <= WORD * Len(Formals')
  BY <1>8, <1>9, <1>10, <1>11
<1>14. \/ Len(pipe) > 0 /\ c = pipe[1] /\ c \in 0 .. 255
       \/ Len(pipe) = 0 /\ closed /\ c = EOF
  <2>1. pipe \in Seq(0 .. 255)
    BY DEF TypeOK
  <2> HIDE DEF o, p, N
  <2> QED BY <1>3, <2>1, ReadIs
<1>15. IF N < Len(sent) \/ p < Size(o) + more
       THEN Len(pipe) > 0 /\ pipe[1] = Written(o)[p + 1]
       ELSE Len(pipe) = 0 /\ cut
  <2>1. N < Len(all)
    BY <1>7, <1>6
  <2> HIDE DEF N, p
  <2> QED BY <1>2, <1>6, <1>10, <2>1, NextByte
<1>16. rule = Handler(Letter[o.event])
  BY <1>6 DEF ReadSoFar
<1>17. CASE N < Len(sent)
  <2>1. c = Written(o)[p + 1] /\ ~(c < 0)
    BY <1>14, <1>15, <1>17
  <2>2. pc' = "rule"
    BY <1>3, <2>1
  <2>3. \A i \in 1 .. Len(got') : got'[i] = Written(o)[1 + i]
    <3>1. \A i \in 1 .. Len(got) : got[i] = Written(o)[1 + i]
      BY <1>6, <1>17 DEF ReadSoFar
    <3>2. \A i \in 1 .. p : i \in 1 .. Len(got) \/ i = p
      BY <1>6
    <3>3. p + 1 = 1 + p
      BY <1>10
    <3> HIDE DEF p, o
    <3> QED BY <1>11, <2>1, <3>1, <3>2, <3>3
  <2>4. ReadSoFar(all, more)'
    <3>1. N + 1 <= Len(all) /\ ~(N + 1 > Len(sent))
      BY <1>6, <1>7, <1>17
    <3> QED BY <1>4, <1>13, <1>16, <2>3, <3>1 DEF ReadSoFar
  <2>5. Position(all, Shift(at), more)'
    BY <1>2, <1>4, <1>12, <2>2, <2>4 DEF Position, Ahead
  <2> QED BY <1>2, <1>5, <2>5 DEF Located
<1>18. CASE ~ (N < Len(sent))
  <2>1. N = Len(sent) /\ cut
    BY <1>6, <1>7, <1>18
  <2>2. CASE pc' = "error"
    <3>1. closed
      <4>1. c < 0
        BY <1>3, <2>2
      <4> QED BY <1>14, <4>1
    <3> QED BY <1>2, <1>4, <1>5, <2>1, <2>2, <3>1 DEF Located, Position
  <2>3. CASE pc' = "rule"
    <3>1. 1 + Len(got') > Size(o) + more => Len(got') % WORD # 0
      <4> SUFFICES ASSUME 1 + Len(got') > Size(o) + more PROVE Len(got') % WORD # 0
        OBVIOUS
      <4>1. ~(p < Size(o) + more)
        BY <1>2, <1>8, <1>10, <1>11
      <4>2. c = EOF
        BY <1>14, <1>15, <1>18, <4>1
      <4>3. (Len(got) + 1) % WORD # 0
        BY <1>3, <2>3, <4>2 DEF EOF
      <4>4. Len(got') = Len(got) + 1
        BY <1>6, <1>11
      <4> QED BY <4>3, <4>4
    <3>2. ReadSoFar(all, more)'
      <4>1. N + 1 <= Len(all) /\ ~(N + 1 <= Len(sent))
        BY <1>6, <1>7, <1>18
      <4> QED BY <1>4, <1>13, <1>16, <3>1, <4>1 DEF ReadSoFar
    <3>3. Position(all, Shift(at), more)'
      BY <1>2, <1>4, <1>12, <2>3, <3>2 DEF Position, Ahead
    <3> QED BY <1>2, <1>5, <3>3 DEF Located
  <2> QED BY <1>3, <2>2, <2>3
<1> QED BY <1>17, <1>18

LEMMA RunRuleLocated ==
  ASSUME ServedProgram, TypeOK, Located, RunRule
  PROVE  Located'
<1>1. PICK all, at : \E more \in Int : Stream(all, at, more) /\ Position(all, at, more)
  BY DEF Located
<1>2. PICK more \in Int : Stream(all, at, more) /\ Position(all, at, more)
  BY <1>1
<1>3. UNCHANGED <<pipe, closed, sent, cut>> /\ pc = "rule" /\ pc' = "event"
  BY DEF RunRule, inputVars
<1>4. Stream(all, at, more)'
  BY <1>2, <1>3 DEF Stream, Announced, Placed, Ended, Filled
<1> DEFINE N == Len(handled)
           o == sent[N + 1]
<1>5. /\ N < Len(sent) /\ all[N + 1] = o /\ o \in Occurrence
      /\ Len(got) = Size(o) - 1 /\ handled' = Append(handled, Given(o))
  BY <1>2, Served
<1>6. Size(o) \in Nat
  BY <1>5, OccurrenceIs
<1>7. N \in Nat /\ handled \in Seq({Given(x) : x \in Occurrence}) /\ at[N] = -1 - Len(got)
  <2>1. Ahead = -1 - Len(got)
    BY <1>3 DEF Ahead
  <2> QED BY <1>2, <1>3, <2>1 DEF Position
<1> HIDE DEF o
<1>8. Len(handled') = N + 1 /\ handled' \in Seq({Given(x) : x \in Occurrence})
  BY <1>5, <1>7
<1>9. at[N + 1] = 0
  <2>1. N + 1 \in 1 .. Len(all) /\ (N + 1) - 1 = N
    BY <1>2, <1>5, <1>7 DEF Stream, Announced, TypeOK
  <2>2. at[N + 1] = at[(N + 1) - 1] + Size(all[N + 1])
    BY <1>2, <2>1 DEF Stream, Placed
  <2>3. at[N + 1] = (-1 - (Size(o) - 1)) + Size(o)
    BY <1>5, <1>7, <2>1, <2>2
  <2> QED BY <1>6, <2>3
<1>10. N + 1 <= Len(sent)
  BY <1>5, <1>7 DEF TypeOK
<1>11. Position(all, at, more)'
  BY <1>3, <1>8, <1>9, <1>10 DEF Position, Ahead
<1> QED BY <1>2, <1>4, <1>11 DEF Located


LEMMA NextLocated ==
  ASSUME ServedProgram, TypeOK, Located, [Next]_vars
  PROVE  Located'
<1>1. CASE UNCHANGED vars
  <2>1. PICK all, at : \E more \in Int : Stream(all, at, more) /\ Position(all, at, more)
    BY DEF Located
  <2>2. PICK more \in Int : Stream(all, at, more) /\ Position(all, at, more)
    BY <2>1
  <2>3. Stream(all, at, more)'
    BY <1>1, <2>2 DEF vars, Stream, Announced, Placed, Ended, Filled
  <2>4. Ahead' = Ahead /\ Formals' = Formals
    BY <1>1 DEF vars, Ahead, Formals
  <2>5. Tested(all)' <=> Tested(all)
    BY <1>1 DEF vars, Tested
  <2>6. ReadSoFar(all, more)' <=> ReadSoFar(all, more)
    BY <1>1, <2>4 DEF vars, ReadSoFar
  <2>7. Position(all, at, more)'
    BY <1>1, <2>2, <2>4, <2>5, <2>6 DEF vars, Position
  <2> QED BY <2>2, <2>3, <2>7 DEF Located
<1>2. CASE Next
  BY <1>2, WriteLocated, BreakLocated, CloseLocated, SkipLocated, ReadEventLocated, DispatchLocated,
     ReadParamLocated, RunRuleLocated DEF Next, Program
<1> QED BY <1>1, <1>2

\* What is in the pipe, and how far the program has come in it.
LoopInv == TypeOK /\ Located

-----------------------------------------------------------------------------
(* The theorems.                                                           *)

\* In every state of a served program the pipe holds the rest of the event being
\* read and the events not begun, in order: what InOrder and Outcomes follow from.
THEOREM LoopInvariance == ServedProgram => (Spec => []LoopInv)
<1> SUFFICES ASSUME ServedProgram PROVE Spec => []LoopInv
  OBVIOUS
<1>1. Init => LoopInv
  BY InitType, InitLocated DEF LoopInv
<1>2. LoopInv /\ [Next]_vars => LoopInv'
  BY NextType, NextLocated DEF LoopInv
<1> QED BY <1>1, <1>2, PTL DEF Spec

\* "Done" and "Input error" come when everything sent whole has been reacted
\* to, and say whether the input ended in an event.
THEOREM Outcomes == ServedProgram => (Spec => []Outcome)
<1> SUFFICES ASSUME ServedProgram PROVE Spec => []Outcome
  OBVIOUS
<1>1. LoopInv => Outcome
  BY DEF LoopInv, Located, Position, Outcome
<1> QED BY <1>1, LoopInvariance, PTL

\* Every step of the loop is a step of EventQueue or none: a rule runs for
\* the first event not reacted to, once, and is given that event's parameters
\* as they were sent, unless it is a double with a fraction, which inf
\* (E--_RT.c:206) returns as an int.
THEOREM InOrder ==
  ServedProgram => (Spec => Queue!QueueInit /\ [][Queue!QueueNext]_(Queue!queueVars))
<1> SUFFICES ASSUME ServedProgram
             PROVE  Spec => Queue!QueueInit /\ [][Queue!QueueNext]_(Queue!queueVars)
  OBVIOUS
<1>1. Init => Queue!QueueInit
  BY DEF Init, Queue!QueueInit
<1>2. ASSUME LoopInv, [Next]_vars
      PROVE  [Queue!QueueNext]_(Queue!queueVars)
  <2>1. ASSUME NEW o \in Occurrence, Write(o)
        PROVE  Queue!QueueNext
    BY <2>1 DEF Write, loopVars, Queue!QueueNext, Queue!Occur
  <2>2. CASE RunRule
    <3>1. PICK all, at : \E more \in Int : Stream(all, at, more) /\ Position(all, at, more)
      BY <1>2 DEF LoopInv, Located
    <3>2. PICK more \in Int : Stream(all, at, more) /\ Position(all, at, more)
      BY <3>1
    <3>3. Len(handled) < Len(sent) /\ handled' = Append(handled, Given(sent[Len(handled) + 1]))
      BY <1>2, <2>2, <3>2, Served DEF LoopInv
    <3>4. sent' = sent
      BY <2>2 DEF RunRule, inputVars
    <3>5. Given(sent[Len(handled) + 1]) \in Reactions(sent[Len(handled) + 1])
      BY <1>2, <2>2, <3>2, Served, GivenRight DEF LoopInv
    <3> QED BY <3>3, <3>4, <3>5 DEF Queue!QueueNext, Queue!React
  <2>3. ASSUME \/ \E o \in Occurrence : Break(o)
               \/ Close \/ ReadEvent \/ Dispatch \/ ReadParam
               \/ \E i \in 1 .. SKIPPED : Skip(i)
               \/ UNCHANGED vars
        PROVE  UNCHANGED (Queue!queueVars)
    BY <2>3 DEF Break, Close, ReadEvent, Dispatch, ReadParam, Skip, vars, loopVars, inputVars, Queue!queueVars
  <2> QED BY <1>2, <2>1, <2>2, <2>3 DEF Next, Program
<1> QED BY <1>1, <1>2, LoopInvariance, PTL DEF Spec

=============================================================================

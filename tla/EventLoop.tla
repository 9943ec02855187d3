----------------------------- MODULE EventLoop -----------------------------
(***************************************************************************)
(* The event loop of a compiled E-- program, as genFinalCode generates it  *)
(* (STEClasses.C:97-119) with the header each rule gets from               *)
(* PrimitivePatNode::iCodeGen, over the input primitives of E--_RT.c.      *)
(*                                                                         *)
(*   begin:       IN IN IN            (three bytes passed over)            *)
(*   EventMStart: IN ch;  64 > ch -> EventMOut                             *)
(*                ch = first letter of a rule's event -> that rule, in the *)
(*                order of the rules;  else the rule "any", if there is    *)
(*                one;  else EventMStart                                   *)
(*   rule:        INI or INF for each parameter;  reaction;  EventMStart   *)
(*   EventMOut:   "Done"                                                   *)
(*                                                                         *)
(* The other actor writes the program's standard input.  An event is its   *)
(* letter and a word for each of its parameters, as in the tests' input    *)
(* (README, "Input file"); the input starts with three bytes of preamble,  *)
(* and the writer may stop anywhere.  A reaction is one step: it does not  *)
(* read the input, and it is taken to end.                                 *)
(***************************************************************************)
EXTENDS Integers, Sequences, FiniteSets

CONSTANTS
  Event,            \* the events the writer knows
  Letter,           \* name().at(0) of an event
  Params,           \* the types of an event's parameters, "int" or "double"
  Rules,            \* the events of the rules, in the order of the source
  HasAny,           \* there is a rule for "any"
  AnyRule, NoRule,      \* its name; no rule
  Byte,             \* the bytes a parameter may contain
  WORD,             \* sizeof z of ini and inf: 4
  Whole,            \* a float's word to that of the float without fraction
  MaxEvents         \* bound: the events written

LOW == 64           \* the bytes below it end the loop
SKIPPED == 3        \* the INs in front of EventMStart
EOF == -1

Words == [1 .. WORD -> Byte]

ASSUME EventAssumption ==
  /\ Letter \in [Event -> LOW .. 255]
  /\ Params \in [Event -> Seq({"int", "double"})]
  /\ Byte \subseteq 0 .. 255
  /\ WORD \in Nat \ {0} /\ Whole \in [Words -> Words]
  /\ MaxEvents \in Nat

\* A rule's label is its event's name: the C compiler accepts each once.
ASSUME RuleAssumption ==
  /\ Rules \in Seq(Event)
  /\ \A i, j \in DOMAIN Rules : Rules[i] = Rules[j] => i = j
  /\ HasAny \in BOOLEAN
  /\ AnyRule \notin Event /\ NoRule \notin Event \cup {AnyRule}

VARIABLES
  pipe, closed,     \* standard input: what is written and not read; its end
  pc, ch,           \* where the program is; evnReg
  rule,             \* the rule it is in
  got,              \* the bytes INI and INF have read for the rule
  sent, cut,        \* history: the events written whole; an unfinished one
  handled           \* history: the reactions, and the values they were given

inputVars == <<pipe, closed, sent, cut>>
loopVars == <<pc, ch, rule, got, handled>>
vars == <<pipe, closed, pc, ch, rule, got, sent, cut, handled>>

Init ==
  \* the preamble, or an input that ends within it
  /\ \E n \in 0 .. SKIPPED :
       /\ pipe \in [1 .. n -> {LOW + 1}]
       /\ closed = (n < SKIPPED)
  /\ pc = "skip3" /\ ch = 0
  /\ rule = NoRule /\ got = <<>>
  /\ sent = <<>> /\ cut = FALSE /\ handled = <<>>

-----------------------------------------------------------------------------
(* The writer                                                              *)

Occurrence == UNION { [event : {e}, words : [DOMAIN Params[e] -> Words]] : e \in Event }

Written(o) ==
  [ i \in 1 .. 1 + WORD * Len(Params[o.event]) |->
      IF i = 1 THEN Letter[o.event]
      ELSE o.words[1 + (i - 2) \div WORD][1 + ((i - 2) % WORD)] ]

Write(o) ==
  /\ ~closed /\ Len(sent) < MaxEvents
  /\ pipe' = pipe \o Written(o)
  /\ sent' = Append(sent, o)
  /\ UNCHANGED <<closed, cut>> /\ UNCHANGED loopVars

\* The input ends after a whole event, or with a line end.
Close ==
  /\ ~closed /\ closed' = TRUE
  /\ pipe' \in {pipe, Append(pipe, 10)}
  /\ UNCHANGED <<sent, cut>> /\ UNCHANGED loopVars

\* The writer stops in the middle of an event.
Break(o) ==
  /\ ~closed /\ closed' = TRUE
  /\ \E n \in 1 .. Len(Written(o)) - 1 : pipe' = pipe \o SubSeq(Written(o), 1, n)
  /\ cut' = TRUE
  /\ UNCHANGED sent /\ UNCHANGED loopVars

-----------------------------------------------------------------------------
(* The program                                                             *)

\* Mutant: getc at the end of the input waits like any other.
GetCWaiting(c) == pipe # <<>> /\ c = Head(pipe) /\ pipe' = Tail(pipe)

\* getc(stdin) returns c; it waits while nothing is written.
GetC(c) ==
  \/ pipe # <<>> /\ c = Head(pipe) /\ pipe' = Tail(pipe)
  \/ pipe = <<>> /\ closed /\ c = EOF /\ pipe' = pipe

\* The byte INs in front of the loop.
Skips == <<"skip3", "skip2", "skip1", "event">>

Skip(i) ==
  /\ pc = Skips[i] /\ pc' = Skips[i + 1]
  /\ \E c \in 0 .. 255 \cup {EOF} : GetC(c) /\ ch' = c
  /\ UNCHANGED <<closed, rule, got, sent, cut, handled>>

ReadEvent ==
  /\ pc = "event" /\ pc' = "test"
  /\ \E c \in 0 .. 255 \cup {EOF} : GetC(c) /\ ch' = c
  /\ UNCHANGED <<closed, rule, got, sent, cut, handled>>

\* Mutant: the JMP to "any" comes first.
HandlerAnyFirst(c) ==
  LET I == { i \in DOMAIN Rules : Letter[Rules[i]] = c } IN
  IF HasAny THEN AnyRule
  ELSE IF I # {} THEN Rules[CHOOSE i \in I : \A j \in I : i <= j]
  ELSE NoRule

\* Mutant: there is no JMP to "any".
HandlerWithoutAny(c) ==
  LET I == { i \in DOMAIN Rules : Letter[Rules[i]] = c } IN
  IF I # {} THEN Rules[CHOOSE i \in I : \A j \in I : i <= j] ELSE NoRule

\* The JMPCs on the first letters are in the order of the rules, the JMP to
\* "any" follows them wherever that rule is.
Handler(c) ==
  LET I == { i \in DOMAIN Rules : Letter[Rules[i]] = c } IN
  IF I # {} THEN Rules[CHOOSE i \in I : \A j \in I : i <= j]
  ELSE IF HasAny THEN AnyRule
  ELSE NoRule

Dispatch ==
  /\ pc = "test"
  /\ rule' = IF LOW > ch THEN NoRule ELSE Handler(ch)
  /\ pc' = IF LOW > ch THEN "done" ELSE IF Handler(ch) = NoRule THEN "event" ELSE "rule"
  /\ got' = <<>>
  /\ UNCHANGED <<ch, handled>> /\ UNCHANGED inputVars

Formals == IF rule = AnyRule THEN <<>> ELSE Params[rule]

\* One of the bytes of INI or INF: only the last of a word is tested.
ReadParam ==
  /\ pc = "rule" /\ Len(got) < WORD * Len(Formals)
  /\ \E c \in 0 .. 255 \cup {EOF} :
       /\ GetC(c)
       /\ got' = Append(got, c)
       /\ pc' = IF (Len(got) + 1) % WORD = 0 /\ c < 0 THEN "error" ELSE "rule"
  /\ UNCHANGED <<closed, ch, rule, sent, cut, handled>>

\* What a parameter's register holds: inf returns its float as an int.
Read(type, w) == IF type = "double" THEN Whole[w] ELSE w

Values == [ k \in DOMAIN Formals |->
              Read(Formals[k], [b \in 1 .. WORD |-> got[WORD * (k - 1) + b]]) ]

\* Mutant: the program does not leave the rule.
RunRuleStaying ==
  /\ pc = "rule" /\ Len(got) = WORD * Len(Formals)
  /\ handled' = Append(handled, [rule |-> rule, values |-> Values])
  /\ pc' = "event"
  /\ UNCHANGED <<ch, rule, got>> /\ UNCHANGED inputVars

RunRule ==
  /\ pc = "rule" /\ Len(got) = WORD * Len(Formals)
  /\ handled' = Append(handled, [rule |-> rule, values |-> Values])
  /\ pc' = "event" /\ rule' = NoRule /\ got' = <<>>
  /\ UNCHANGED ch /\ UNCHANGED inputVars

-----------------------------------------------------------------------------

Program ==
  \/ \E i \in 1 .. SKIPPED : Skip(i)
  \/ ReadEvent \/ Dispatch \/ ReadParam \/ RunRule

Next ==
  \/ \E o \in Occurrence : Write(o) \/ Break(o)
  \/ Close
  \/ Program

\* The processor keeps running the program; the writer owes it nothing.
Spec == Init /\ [][Next]_vars /\ WF_vars(Program)

-----------------------------------------------------------------------------
(* Properties                                                              *)

\* The input is bytes, the program is at one of its labels, and the history
\* is of events and reactions.
TypeOK ==
  /\ pipe \in Seq(0 .. 255) /\ closed \in BOOLEAN /\ cut \in BOOLEAN
  /\ pc \in {"skip3", "skip2", "skip1", "event", "test", "rule", "done", "error"}
  /\ ch \in 0 .. 255 \cup {EOF}
  /\ rule \in Event \cup {AnyRule, NoRule} /\ (rule = NoRule <=> pc \notin {"rule", "error"})
  /\ got \in Seq(0 .. 255 \cup {EOF})
  /\ sent \in Seq(Occurrence)

\* The rule for an event, by its name.
HasRule(e) == \E i \in DOMAIN Rules : Rules[i] = e

\* inf returns the float it has read as an int (E--_RT.c:206): a double with
\* a fraction does not arrive, where OLD_README:132 passes doubles.
Truncated(type, w) == type = "double" /\ Whole[w] # w

Reactions(o) ==
  IF HasRule(o.event)
  THEN [ rule : {o.event},
         values : { v \in [DOMAIN o.words -> Words] :
                      \A k \in DOMAIN o.words :
                        v[k] = o.words[k] \/ Truncated(Params[o.event][k], o.words[k]) } ]
  ELSE [ rule : {AnyRule}, values : {<<>>} ]

\* Every event is reacted to once, in order, and in the end: by its own rule
\* and with its own parameters, of which nothing is said of a double that has
\* a fraction; by "any" without parameters if it has no rule: EventQueue.
Queue == INSTANCE EventQueue
Reacts == Queue!QueueSpec

\* "Done" is printed when the input ended with a whole event, "Input error"
\* when it ended in the middle of one, and neither before everything that
\* was written whole has been reacted to (E--_RT.c, ini).
Outcome ==
  /\ pc = "done" => ~cut /\ Len(handled) = Len(sent)
  /\ pc = "error" => cut /\ Len(handled) = Len(sent)

\* When the input has ended the program ends.
Ends == closed ~> pc \in {"done", "error"}
=============================================================================

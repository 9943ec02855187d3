----------------------------- MODULE EventQueue -----------------------------
(***************************************************************************)
(* What the rules of an E-- program promise whoever sends it events: every *)
(* event that occurs is reacted to once, in the order of the occurrences,  *)
(* in a way that is right for it: Reactions says which rule, and with what *)
(* values.                                                                 *)
(***************************************************************************)
EXTENDS Integers, Sequences

CONSTANTS
  Occurrence,       \* an event and the values of its parameters
  Reactions(_)      \* the rule that is to react to it, with what it may be given

VARIABLES sent, handled

queueVars == <<sent, handled>>

QueueInit == sent = <<>> /\ handled = <<>>

Occur(o) == sent' = Append(sent, o) /\ UNCHANGED handled

React ==
  /\ Len(handled) < Len(sent)
  /\ \E r \in Reactions(sent[Len(handled) + 1]) : handled' = Append(handled, r)
  /\ UNCHANGED sent

QueueNext == React \/ \E o \in Occurrence : Occur(o)

QueueSpec == QueueInit /\ [][QueueNext]_queueVars /\ WF_queueVars(React)
=============================================================================

------------------------------ MODULE Optimiser ------------------------------
(***************************************************************************)
(* optimiseQuadruples (CodeGen.C:250): what happens to the quadruples of a *)
(* function, a rule or the global section before instructions are chosen.  *)
(*                                                                         *)
(* Pass 1 takes each quadruple i in turn and walks on from it with j: an   *)
(* assignment that is overwritten before it is read is erased, and so are  *)
(* later quadruples that compute the same as i, whose results are replaced *)
(* by i's on the way.  Pass 2 lets a quadruple whose temporary is only     *)
(* copied to a variable write the variable.  Both erase from the vector    *)
(* they walk.  A step is one turn of the inner loop or of the outer one;   *)
(* j = 0 is outside the inner loop.  Positions count from 1.               *)
(***************************************************************************)
EXTENDS Quads

CONSTANTS
  Sources,    \* the sequences of quadruples to optimise
  Globals     \* the global variables

Fields == {"op", "opr1", "opr2", "res", "to", "label"}

\* OpNode::iCodeGen lets an operation write a temporary of its own
\* (fetchTempVar): nothing up to it reads or has written that.
Fresh(code) ==
  \A d \in DOMAIN code : Arithmetic(code[d]) =>
    \A p \in 1 .. d : ~Reads(code[p], code[d].res) /\ (p < d => code[p].res # code[d].res)

ASSUME SourcesAssumption ==
  \A s \in Sources :
    /\ s \in Seq(ToSet(s))
    /\ \A q \in ToSet(s) : DOMAIN q = Fields /\ q.res[1] \in {"var", "temp", "none"}
    /\ Fresh(s)

VARIABLES
  source,       \* the quadruples given
  quads,        \* the quadruples now
  pass,         \* 1, 2, or 3 when it is over
  i, j,         \* positions in quads
  replaceSet,   \* pass 1: results that are to be replaced by i's
  replaceIndex  \* pass 2: the assignment found, or 0

vars == <<source, quads, pass, i, j, replaceSet, replaceIndex>>

TypeOK ==
  /\ pass \in 1 .. 3
  /\ Len(quads) <= Len(source)
  /\ i \in 1 .. Len(quads) + 1
  /\ j = 0 \/ j \in i + 1 .. Len(quads) + 1
  /\ replaceSet \subseteq { source[k].res : k \in DOMAIN source }
  /\ replaceIndex = 0 \/ replaceIndex \in i + 1 .. j - 1

Init ==
  /\ source \in Sources
  /\ quads = source
  /\ pass = 1
  /\ i = 1
  /\ j = 0
  /\ replaceSet = {}
  /\ replaceIndex = 0

-----------------------------------------------------------------------------
(* Operators over the state                                                *)

mine == quads[i]
its == quads[j]

IsGlobal(e) == e[1] = "var" /\ e[2] \in Globals

\* Mutant: definitions of globals too.
DefinitionAny(q) == q.op = "ASSIGN"

Definition(q) == q.op = "ASSIGN" /\ ~IsGlobal(q.res)

\* A quadruple with a label is left where it is.
Candidate(q) == q.label = NoLabel /\ (Arithmetic(q) \/ Definition(q))

\* Operands in replaceSet give way to i's result, only where they are an
\* operand of the quadruple itself.
Replaced(e) == IF e \in replaceSet THEN mine.res ELSE e
WithReplaced(q) == [q EXCEPT !.opr1 = Replaced(@), !.opr2 = Replaced(@)]

Reassigns(q, r) == q.res # NoElem /\ q.res \in {r.opr1, r.opr2}

\* The outer loop goes on with the quadruple after i, or with the one that
\* has come to i's place.
NextQuad == i' = i + 1 /\ j' = 0 /\ replaceSet' = {} /\ replaceIndex' = 0
SameQuad == i' = i /\ j' = 0 /\ replaceSet' = {} /\ replaceIndex' = 0

-----------------------------------------------------------------------------
(* Pass 1                                                                  *)

Outer1 == pass = 1 /\ j = 0 /\ i < Len(quads)

Skip ==
  /\ Outer1 /\ ~Candidate(mine)
  /\ NextQuad
  /\ UNCHANGED <<source, quads, pass>>

\* Mutant: the walk starts at i itself.
TakeItself ==
  /\ Outer1 /\ Candidate(mine)
  /\ j' = i
  /\ UNCHANGED <<source, quads, pass, i, replaceSet, replaceIndex>>

Take ==
  /\ Outer1 /\ Candidate(mine)
  /\ j' = i + 1
  /\ UNCHANGED <<source, quads, pass, i, replaceSet, replaceIndex>>

\* The inner loop of i, at j.
InnerOf1(isDef) == pass = 1 /\ j # 0 /\ (mine.op = "ASSIGN") = isDef

Exhausted1 ==
  /\ pass = 1 /\ j > Len(quads)
  /\ NextQuad
  /\ UNCHANGED <<source, quads, pass>>

\* i is an assignment and needed, as far as can be told.
StopsDefinition == Jumps(its) \/ Reads(its, mine.res)

\* Mutant: i is counted down at every break.
KeepDefinitionBack ==
  /\ InnerOf1(TRUE) /\ j <= Len(quads) /\ StopsDefinition
  /\ SameQuad
  /\ UNCHANGED <<source, quads, pass>>

KeepDefinition ==
  /\ InnerOf1(TRUE) /\ j <= Len(quads) /\ StopsDefinition
  /\ NextQuad
  /\ UNCHANGED <<source, quads, pass>>

EraseDefinition ==
  /\ InnerOf1(TRUE) /\ j <= Len(quads) /\ ~StopsDefinition
  /\ its.res = mine.res
  /\ quads' = RemoveAt(quads, i)
  /\ SameQuad
  /\ UNCHANGED <<source, pass>>

PassOverDefinition ==
  /\ InnerOf1(TRUE) /\ j <= Len(quads) /\ ~StopsDefinition
  /\ its.res # mine.res
  /\ j' = j + 1
  /\ UNCHANGED <<source, quads, pass, i, replaceSet, replaceIndex>>

\* i computes something.
StopAtJump ==
  /\ InnerOf1(FALSE) /\ j <= Len(quads) /\ Jumps(its)
  /\ NextQuad
  /\ UNCHANGED <<source, quads, pass>>

StopAtReassignment ==
  /\ InnerOf1(FALSE) /\ j <= Len(quads) /\ ~Jumps(its)
  /\ Reassigns(its, mine)
  /\ quads' = [quads EXCEPT ![j] = WithReplaced(@)]
  /\ NextQuad
  /\ UNCHANGED <<source, pass>>

RepeatFound ==
  /\ InnerOf1(FALSE) /\ j <= Len(quads) /\ ~Jumps(its)
  /\ ~Reassigns(its, mine) /\ SameExpression(mine, its)

\* Mutant: j is not counted down.
EraseRepeatPassing ==
  /\ RepeatFound
  /\ replaceSet' = replaceSet \cup {its.res}
  /\ quads' = RemoveAt(quads, j)
  /\ j' = j + 1
  /\ UNCHANGED <<source, pass, i, replaceIndex>>

EraseRepeat ==
  /\ RepeatFound
  /\ replaceSet' = replaceSet \cup {its.res}
  /\ quads' = RemoveAt(quads, j)
  /\ UNCHANGED <<source, pass, i, j, replaceIndex>>

ReplaceOperands ==
  /\ InnerOf1(FALSE) /\ j <= Len(quads) /\ ~Jumps(its)
  /\ ~Reassigns(its, mine) /\ ~SameExpression(mine, its)
  /\ quads' = [quads EXCEPT ![j] = WithReplaced(@)]
  /\ j' = j + 1
  /\ UNCHANGED <<source, pass, i, replaceSet, replaceIndex>>

EndPass1 ==
  /\ pass = 1 /\ j = 0 /\ i >= Len(quads)
  /\ pass' = 2
  /\ i' = 1
  /\ UNCHANGED <<source, quads, j, replaceSet, replaceIndex>>

-----------------------------------------------------------------------------
(* Pass 2                                                                  *)

Outer2 == pass = 2 /\ j = 0 /\ i < Len(quads)
Inner2 == pass = 2 /\ j # 0 /\ j <= Len(quads)

SkipVariable ==
  /\ Outer2 /\ ~IsTemp(mine.res)
  /\ NextQuad
  /\ UNCHANGED <<source, quads, pass>>

TakeTemporary ==
  /\ Outer2 /\ IsTemp(mine.res)
  /\ j' = i + 1
  /\ UNCHANGED <<source, quads, pass, i, replaceSet, replaceIndex>>

Copies(q) == q.op = "ASSIGN" /\ q.opr1 = mine.res

\* One copy is remembered; a second, or any other use, and i stays as it is.
RememberCopy ==
  /\ Inner2 /\ Copies(its) /\ replaceIndex = 0
  /\ replaceIndex' = j
  /\ j' = j + 1
  /\ UNCHANGED <<source, quads, pass, i, replaceSet>>

KeepTemporary ==
  /\ Inner2
  /\ \/ Copies(its) /\ replaceIndex # 0
     \/ ~Copies(its) /\ Reads(its, mine.res)
  /\ NextQuad
  /\ UNCHANGED <<source, quads, pass>>

PassOver ==
  /\ Inner2 /\ ~Copies(its) /\ ~Reads(its, mine.res)
  /\ j' = j + 1
  /\ UNCHANGED <<source, quads, pass, i, replaceSet, replaceIndex>>

Exhausted2 ==
  /\ pass = 2 /\ j > Len(quads) /\ replaceIndex = 0
  /\ NextQuad
  /\ UNCHANGED <<source, quads, pass>>

\* The copy is the temporary's only use.
CopyFound == pass = 2 /\ j > Len(quads) /\ replaceIndex # 0

DropTemporary ==
  /\ CopyFound
  /\ quads' = RemoveAt([quads EXCEPT ![i].res = quads[replaceIndex].res], replaceIndex)
  /\ NextQuad
  /\ UNCHANGED <<source, pass>>

EndPass2 ==
  /\ pass = 2 /\ j = 0 /\ i >= Len(quads)
  /\ pass' = 3
  /\ UNCHANGED <<source, quads, i, j, replaceSet, replaceIndex>>

-----------------------------------------------------------------------------

Pass1 ==
  \/ Skip \/ Take \/ Exhausted1
  \/ KeepDefinition \/ EraseDefinition \/ PassOverDefinition
  \/ StopAtJump \/ StopAtReassignment \/ EraseRepeat \/ ReplaceOperands
  \/ EndPass1

Pass2 ==
  \/ SkipVariable \/ TakeTemporary
  \/ RememberCopy \/ KeepTemporary \/ PassOver
  \/ Exhausted2 \/ DropTemporary
  \/ EndPass2

Next == Pass1 \/ Pass2

Spec == Init /\ [][Next]_vars
-----------------------------------------------------------------------------
(* Properties                                                              *)

\* A quadruple between two.
Between(k, l, P(_)) == \E p \in k + 1 .. l - 1 : P(quads[p])

\* After pass 1, nothing is computed twice that pass 1 is to find: the walk
\* over the vector does not miss the quadruple that comes to an erased one's
\* place.
NoRepeats ==
  pass = 2 /\ i = 1 /\ j = 0 =>
    \A k, l \in DOMAIN quads :
      k < l /\ Candidate(quads[k]) /\ SameExpression(quads[k], quads[l]) =>
        Between(k, l, LAMBDA q : Jumps(q) \/ Reassigns(q, quads[k]))
=============================================================================

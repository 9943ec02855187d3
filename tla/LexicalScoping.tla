--------------------------- MODULE LexicalScoping ---------------------------
(***************************************************************************)
(* What a name means in a program of nested blocks.  A declaration makes a *)
(* new thing, and from there on its name means that thing; each block sees *)
(* what the block around it sees, except for the names it declares itself; *)
(* a block that ends takes its declarations with it.  What is asked for by *)
(* a name is what the name means where it is asked.  A program that breaks *)
(* a rule of the language is rejected, and then nothing is said any more.  *)
(***************************************************************************)
EXTENDS Integers, Sequences, SequencesExt

CONSTANTS Names,      \* what can be declared and used
          Things,     \* what a declaration can introduce
          Whole,      \* the thing that is the whole program
          Nothing,    \* the meaning of a name that is not declared
          Questions   \* what can be asked for: a name or, without one, the block here, as what

VARIABLES sort,       \* the things made so far: what each is and, if it has one, its name
          visible,    \* what each name means here
          outer,      \* what it meant where the blocks around this one left off
          mine,       \* the names the innermost block has declared
          outerMine,  \* the names the blocks around it have
          blocks,     \* the things that are the blocks here, outermost first
          asked,      \* what was asked for last
          used,       \* what that refers to
          rejected
vars == <<sort, visible, outer, mine, outerMine, blocks, asked, used, rejected>>

Init == /\ Whole \in DOMAIN sort
        /\ visible = [n \in Names |-> Nothing]
        /\ outer = <<>> /\ mine = {} /\ outerMine = <<>>
        /\ blocks = <<Whole>> /\ asked \in Questions /\ used = Nothing /\ ~rejected

(* The things T are made; those that were stay what they are. *)
Make(T) == /\ DOMAIN sort' = DOMAIN sort \cup T
           /\ \A t \in DOMAIN sort : sort'[t] = sort[t]

(* Each of the names N gets its thing out of T, and the other names keep their meaning. *)
Bind(N, T) == \E decls \in [N -> T] :
                /\ \A n \in N : sort'[decls[n]].name = n
                /\ visible' = [n \in Names |-> IF n \in N THEN decls[n] ELSE visible[n]]

(* A declaration of any number of names, or of none. *)
Declare(N, T) == /\ mine \cap N = {} /\ mine' = mine \cup N
                 /\ Bind(N, T)
                 /\ UNCHANGED <<outer, outerMine, blocks>>

(* A block begins: with declarations of its own, or with a name declared outside it. *)
Open(N, T) == \E b \in T :
  /\ blocks' = Append(blocks, b)
  /\ mine' = N /\ outer' = Append(outer, visible) /\ outerMine' = Append(outerMine, mine)
  /\ Bind(N, T \ {b})
OpenNamed(n, T) == \E b \in T :
  /\ sort'[b].name = n
  /\ blocks' = Append(blocks, b)
  /\ n \notin mine /\ mine' = {} /\ outerMine' = Append(outerMine, mine \cup {n})
  /\ visible' = [visible EXCEPT ![n] = b]
  /\ outer' = Append(outer, visible')
Close == /\ outer # <<>>
         /\ visible' = Last(outer) /\ outer' = Front(outer)
         /\ blocks' = Front(blocks)
         /\ mine' = Last(outerMine) /\ outerMine' = Front(outerMine)

Move == \E T \in SUBSET (Things \ DOMAIN sort) :
          /\ Make(T)
          /\ \/ \E N \in SUBSET Names : Declare(N, T) \/ Open(N, T)
             \/ \E n \in Names : OpenNamed(n, T)
             \/ Close

(* A name refers to what it means here, before what is declared with it; break and return to the
   innermost block; and each to nothing, if that is not what it asks for. *)
Found(a) ==
  LET d == IF a.name \in Names THEN visible[a.name] ELSE Last(blocks)
  IN  IF a.as = "any" \/ (a.as # "nothing" /\ d # Nothing /\ sort[d].kind = a.as) THEN d ELSE Nothing
Ask == \E a \in Questions : asked' = a /\ used' = Found(a)

Reject == /\ rejected' /\ visible' = [n \in Names |-> Nothing] /\ outer' = <<>>
          /\ mine' = {} /\ outerMine' = <<>> /\ sort' = <<>>
          /\ blocks' = <<Whole>> /\ asked' \in Questions /\ used' = Nothing

Next == /\ ~rejected
        /\ \/ Move /\ Ask /\ UNCHANGED rejected
           \/ Reject
Spec == Init /\ [][Next]_vars
=============================================================================

----------------------------- MODULE CallStack -----------------------------
(***************************************************************************)
(* What a function call means to an E-- program: a new activation whose    *)
(* parameters hold the values of the arguments; on return the variables    *)
(* the caller keeps are as they were, the result is where it wants it, and *)
(* a global has the last value anybody gave it.  A caller that does not    *)
(* keep a variable, or has its result not delivered, may find anything in  *)
(* it.                                                                     *)
(*                                                                         *)
(* This is the promise of the calling convention (docs/ubicomp.tex,        *)
(* "Function Implementation" and "Return Value"); CallProtocol is what the *)
(* generated instructions do.                                              *)
(***************************************************************************)
EXTENDS Integers, Sequences

CONSTANTS
  Value,            \* what a variable may hold
  Var, Global,      \* the variables; those declared outside every function
  Fun, Main,        \* the functions; Main is the code of a rule
  Locals,           \* the parameters, locals and temporaries of a function
  Formals,          \* its parameters, in order
  Site, NoSite,     \* the call sites
  Call,             \* what the program says at a site
  NoVar,            \* the result of a call that has none
  Keeps,            \* what the caller at a site has back
  Delivered         \* the sites whose result arrives in a variable of the caller

VARIABLES frames, glob

stackVars == <<frames, glob>>

Top == frames[Len(frames)]
Running == IF Top.site = NoSite THEN Main ELSE Call[Top.site].to

\* An argument is a literal or a variable.
Meaning(a) == IF a \in Value THEN a ELSE IF a \in Global THEN glob[a] ELSE Top.env[a]

StackInit ==
  /\ frames \in { <<[site |-> NoSite, env |-> e]>> : e \in [Locals[Main] -> Value] }
  /\ glob \in [Global -> Value]

SetVar(v, x) ==
  \/ /\ v \in Locals[Running]
     /\ frames' = [frames EXCEPT ![Len(frames)].env[v] = x]
     /\ glob' = glob
  \/ /\ v \in Global
     /\ glob' = [glob EXCEPT ![v] = x]
     /\ frames' = frames

\* The caller is left with the variables it keeps.
Invoke(s) ==
  /\ Call[s].from = Running
  /\ \E e \in [Locals[Call[s].to] -> Value] :
       /\ \A i \in DOMAIN Call[s].args : e[Formals[Call[s].to][i]] = Meaning(Call[s].args[i])
       /\ frames' = Append([frames EXCEPT ![Len(frames)].env = [v \in Keeps[s] |-> @[v]]],
                           [site |-> s, env |-> e])
  /\ glob' = glob

Leave(x) ==
  LET s == Top.site
      n == Len(frames) - 1
      e == frames'[n].env
  IN  /\ s # NoSite
      /\ frames' = [SubSeq(frames, 1, n) EXCEPT ![n].env = e]
      /\ DOMAIN e = Locals[Call[s].from]
      /\ \A v \in Keeps[s] : e[v] = frames[n].env[v]
      /\ s \in Delivered /\ Call[s].result \in DOMAIN e => e[Call[s].result] = x
      /\ glob' = IF Call[s].result \in Global THEN [glob EXCEPT ![Call[s].result] = x] ELSE glob

StackNext ==
  \/ \E v \in Var, x \in Value : SetVar(v, x)
  \/ \E s \in Site : Invoke(s)
  \/ \E x \in Value : Leave(x)

StackSpec == StackInit /\ [][StackNext]_stackVars
=============================================================================

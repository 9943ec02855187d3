------------------------------ MODULE TypeRules ------------------------------
(***************************************************************************)
(* The type checking of expressions: typeCheck of every ExprNode.  A tree  *)
(* is checked from its leaves; what checking leaves behind is written into *)
(* the tree: the type of each node (setResultType) and the type its parent *)
(* converts it to (coercedType).                                           *)
(***************************************************************************)
EXTENDS OpRules

RECURSIVE TypeCheck(_, _)
\* Mutant: what an earlier check converted to is taken for the type.
DoTypeCheckConverted(e, functions) ==
  LET c == TypeCheck(e, functions) IN
  [c EXCEPT !.tree.result = c.type, !.type = IF e.coerced # "none" THEN e.coerced ELSE @]
WithResult(c) == [c EXCEPT !.tree.result = c.type]
DoTypeCheck(e, functions) == WithResult(TypeCheck(e, functions))

(* OpNode::typeCheck: an argument in error ends it, and the arguments after it are not looked at. *)
RECURSIVE CheckArgs(_, _, _, _, _), AfterArg(_, _, _, _, _, _)
CheckArgs(e, i, types, msgs, functions) ==
  IF i > Len(e.args) THEN [tree |-> e, types |-> types, msgs |-> msgs, error |-> FALSE]
  ELSE AfterArg(e, i, DoTypeCheck(e.args[i], functions), types, msgs, functions)
AfterArg(e, i, c, types, msgs, functions) ==
  LET next == [e EXCEPT !.args[i] = c.tree] IN
  IF c.type = "error" THEN [tree |-> next, types |-> types, msgs |-> msgs + c.msgs, error |-> TRUE]
  ELSE CheckArgs(next, i + 1, Append(types, c.type), msgs + c.msgs, functions)
AfterArgs(a) == IF a.error THEN Outcome(a.tree, "error", a.msgs)
                ELSE AfterConstrain(a, Constrain(a.tree, a.types))
CheckOp(e, functions) == AfterArgs(CheckArgs(e, 1, <<>>, 0, functions))

(* InvocationNode::typeCheck: an argument is checked up to three times, and complains each time. *)
Match(tree, ok, msgs) == [tree |-> tree, ok |-> ok, msgs |-> msgs + (IF ok THEN 0 ELSE 1)]
CheckedThrice(a, b, c, param) == LET ok == IsSubType(c.type, param) IN
  Match(IF ok THEN [c.tree EXCEPT !.coerced = param] ELSE c.tree, ok, a.msgs + b.msgs + c.msgs)
CheckedTwice(a, b, param, functions) ==
  IF a.type \in Classes \/ b.type = param THEN Match(b.tree, a.type \notin Classes, a.msgs + b.msgs)
  ELSE CheckedThrice(a, b, DoTypeCheck(b.tree, functions), param)
CheckedOnce(a, param, functions) ==
  IF param \in Classes THEN Match(a.tree, a.type = param, a.msgs)
  ELSE CheckedTwice(a, DoTypeCheck(a.tree, functions), param, functions)
CheckArgument(arg, param, functions) == CheckedOnce(DoTypeCheck(arg, functions), param, functions)
AfterMatch(e, f, paired, checks) ==
  LET tree == [e EXCEPT !.args = [i \in DOMAIN e.args |->
                                    IF i \in paired THEN checks[i].tree ELSE e.args[i]]]
      msgs == FoldFunction(LAMBDA c, n : n + c.msgs, 0, checks)
  IN  IF e.found # "function" THEN Outcome(e, "error", 1)
      ELSE IF Len(e.args) # Len(f.params) THEN Outcome(tree, "error", msgs + 1)
      ELSE Outcome(tree, IF \A i \in paired : checks[i].ok THEN f.returns ELSE "error", msgs)
CheckCall(e, functions) ==
  LET f == functions[e.callee]
      paired == {i \in DOMAIN e.args : i <= Len(f.params)}
  IN  AfterMatch(e, f, paired, [i \in paired |-> CheckArgument(e.args[i], f.params[i], functions)])

TypeCheck(e, functions) ==
  CASE e.kind = "value" -> Outcome(e, e.own, 0)
    [] e.kind = "ref" -> IF e.found = "variable" THEN Outcome(e, e.own, 0) ELSE Outcome(e, "error", 1)
    [] e.kind = "op" -> CheckOp(e, functions)
    [] e.kind = "call" -> CheckCall(e, functions)
=============================================================================

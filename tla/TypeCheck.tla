------------------------------ MODULE TypeCheck ------------------------------
(***************************************************************************)
(* Type checking of a program: checkType of every entry of the global      *)
(* scope in its order, then typeCheck of every rule.  Only the count of    *)
(* messages decides what happens next: with none, code is generated from   *)
(* the trees as checking has left them.                                    *)
(***************************************************************************)
EXTENDS TypeRules

CONSTANTS Functions,      \* sequence of [params, returns]: what can be called
          Events,         \* sequence of [params, known]: what a pattern can name
          Programs,       \* sequences of items
          Uninitialised   \* what may be in an event's argCnt_ before it counts its parameters

VARIABLES items,      \* the entries and rules not checked yet
          checked,    \* those that are, as checking left them
          errors,     \* errorCount
          garbage,    \* per event, what argCnt_ started from
          phase       \* "check", "generate", "rejected"
vars == <<items, checked, errors, garbage, phase>>

----------------------------------------------------------------------------
(* Statements: "exprs" are their expressions, "subs" their statements. *)

Stmt(kind, exprs, subs) ==
  [kind |-> kind, exprs |-> exprs, subs |-> subs, function |-> 0, levels |-> 0, depth |-> 0,
   printable |-> TRUE]
ExprStmt(e) == Stmt("expr", <<e>>, <<>>)
ReturnStmt(f, e) == [Stmt("return", <<e>>, <<>>) EXCEPT !.function = f]
BreakStmt(levels, depth) == [Stmt("break", <<>>, <<>>) EXCEPT !.levels = levels, !.depth = depth]
PrintStmt(ok) == [Stmt("print", <<>>, <<>>) EXCEPT !.printable = ok]
While(cond, body) == Stmt("while", <<cond>>, <<body>>)
If(cond, then, else) == Stmt("if", <<cond>>, <<then>> \o else)
Compound(list) == Stmt("compound", <<>>, list)

(* What a statement's check gives: the statement, the tag it returns, the messages. *)
Done(s, ok, good, msgs) == [stmt |-> s, type |-> IF ok THEN good ELSE "error", msgs |-> msgs]

Returned(s, c) ==
  LET wanted == Functions[s.function].returns
      tree == IF s.function # 0 /\ Tag(c.type) # Tag(wanted) /\ IsSubType(c.type, wanted)
              THEN [c.tree EXCEPT !.coerced = wanted] ELSE c.tree
      ok == s.function # 0 /\ (Tag(c.type) = Tag(wanted) \/ IsSubType(c.type, wanted))
  IN  Done([s EXCEPT !.exprs[1] = tree], ok, wanted, c.msgs + (IF ok THEN 0 ELSE 1))
CheckReturn(s) == Returned(s, DoTypeCheck(s.exprs[1], Functions))
CheckBreak(s) == LET ok == s.depth > 0 /\ s.levels <= s.depth
                 IN  Done(s, ok, "void", IF ok THEN 0 ELSE 1)
CheckPrint(s) == Done(s, s.printable, "void", IF s.printable THEN 0 ELSE 1)
Evaluated(s, c) == Done([s EXCEPT !.exprs[1] = c.tree], c.type # "error", "unknown", c.msgs)
CheckExprStmt(s) == Evaluated(s, DoTypeCheck(s.exprs[1], Functions))

RECURSIVE CheckStmt(_)
CheckSubs(s) == [i \in DOMAIN s.subs |-> CheckStmt(s.subs[i])]
Messages(checks) == FoldFunction(LAMBDA c, n : n + c.msgs, 0, checks)
WithSubs(s, checks) == [s EXCEPT !.subs = [i \in DOMAIN checks |-> checks[i].stmt]]

(* IfNode and WhileNode want a condition of type bool and say so unless it is in error already. *)
Branched(s, c, subs) ==
  LET complain == IF c.type \in {"bool", "error"} THEN 0 ELSE 1
  IN  Done(WithSubs([s EXCEPT !.exprs[1] = c.tree], subs),
           c.type = "bool" /\ \A i \in DOMAIN subs : subs[i].type = "void", "void",
           c.msgs + complain + Messages(subs))
CheckBranch(s) == Branched(s, DoTypeCheck(s.exprs[1], Functions), CheckSubs(s))
Compounded(s, subs) == Done(WithSubs(s, subs), \A i \in DOMAIN subs : subs[i].type = "unknown",
                            "unknown", Messages(subs))
CheckCompound(s) == Compounded(s, CheckSubs(s))
CheckStmt(s) == CASE s.kind = "expr" -> CheckExprStmt(s)
                  [] s.kind = "return" -> CheckReturn(s)
                  [] s.kind = "break" -> CheckBreak(s)
                  [] s.kind = "print" -> CheckPrint(s)
                  [] s.kind \in {"if", "while"} -> CheckBranch(s)
                  [] s.kind = "compound" -> CheckCompound(s)

----------------------------------------------------------------------------
(* Patterns. *)

Primitive(event, given, cond) ==
  [kind |-> "primitive", event |-> event, given |-> given, cond |-> cond, subs |-> <<>>]
Pat(kind, subs) == [kind |-> kind, event |-> 0, given |-> 0, cond |-> <<>>, subs |-> subs]

(* PrimitivePatNode::typeCheck: names may be fewer than the parameters, not more; "more" is judged
   by argCnt_, which the constructor of EventEntry leaves unset.  A condition is checked if it is
   an operation. *)
ArgCnt(e) == garbage[e] + Len(Events[e].params)
Conditioned(p, c) == [pat |-> [p EXCEPT !.cond[1] = c.tree], msgs |-> c.msgs]
CheckPrimitive(p) ==
  LET event == Events[p.event]
      refused == \/ ~event.known
                 \/ event.params # <<>> /\ ArgCnt(p.event) < p.given
                 \/ event.params = <<>> /\ p.given > 0
  IN  IF refused THEN [pat |-> p, msgs |-> 1]
      ELSE IF p.cond = <<>> \/ p.cond[1].kind # "op" THEN [pat |-> p, msgs |-> 0]
      ELSE Conditioned(p, DoTypeCheck(p.cond[1], Functions))

(* PatNode::typeCheck: what is negated must not itself be a sequence, a repetition or a negation. *)
IsNegatable(p) == p.kind \notin {"seq", "star", "not"}
RECURSIVE CheckPattern(_)
Composed(p, subs) == [pat |-> [p EXCEPT !.subs = [i \in DOMAIN subs |-> subs[i].pat]],
                      msgs |-> Messages(subs) + (IF p.kind = "not" /\ ~IsNegatable(p.subs[1]) THEN 1 ELSE 0)]
CheckPattern(p) == IF p.kind = "primitive" THEN CheckPrimitive(p)
                   ELSE Composed(p, [i \in DOMAIN p.subs |-> CheckPattern(p.subs[i])])

----------------------------------------------------------------------------
(* Items of a program: a variable with an initial value, a function, a rule. *)

Variable(type, init) == [kind |-> "variable", type |-> type, inits |-> <<init>>]
Function(f, types, inits, body) ==
  [kind |-> "function", function |-> f, types |-> types, inits |-> inits, body |-> body]
Rule(pattern, reaction) == [kind |-> "rule", pattern |-> pattern, reaction |-> reaction]

Init == /\ items \in Programs /\ checked = <<>> /\ errors = 0 /\ phase = "check"
        /\ garbage \in [{e \in DOMAIN Events : Events[e].params # <<>>} -> Uninitialised]

Next1(item, msgs) == /\ checked' = Append(checked, item) /\ errors' = errors + msgs
                     /\ items' = Tail(items) /\ UNCHANGED <<garbage, phase>>
Item == Head(items)
Checking(kind) == phase = "check" /\ items # <<>> /\ Item.kind = kind

(* VariableEntry::checkType: the value may be of a subtype, and is not converted. *)
Initialised(c) ==
  LET fits == /\ c.type \in Classes => IsSubType(c.type, Item.type)
              /\ Tag(c.type) = Tag(Item.type) \/ IsSubType(c.type, Item.type)
  IN  Next1([Item EXCEPT !.inits[1] = c.tree], c.msgs + (IF c.type = "error" \/ fits THEN 0 ELSE 1))
CheckVariable == Checking("variable") /\ Initialised(DoTypeCheck(Item.inits[1], Functions))

(* FunctionEntry::checkType: the initial values of locals are checked, not compared. *)
Defined(inits, body) ==
  Next1([Item EXCEPT !.inits = [i \in DOMAIN inits |-> inits[i].tree], !.body = body.stmt],
        Messages(inits) + body.msgs)
CheckFunction ==
  /\ Checking("function")
  /\ Defined([i \in DOMAIN Item.inits |-> DoTypeCheck(Item.inits[i], Functions)], CheckStmt(Item.body))

(* RuleNode::typeCheck. *)
Reacting(p, r) == Next1([Item EXCEPT !.pattern = p.pat, !.reaction = r.stmt], p.msgs + r.msgs)
CheckRule == Checking("rule") /\ Reacting(CheckPattern(Item.pattern), CheckStmt(Item.reaction))

(* main: code is generated if nothing was complained about. *)
Decide == /\ phase = "check" /\ items = <<>>
          /\ phase' = IF errors = 0 THEN "generate" ELSE "rejected"
          /\ UNCHANGED <<items, checked, errors, garbage>>

Next == CheckVariable \/ CheckFunction \/ CheckRule \/ Decide
Spec == Init /\ [][Next]_vars

----------------------------------------------------------------------------
(* Properties. *)

RECURSIVE Nodes(_), ExprsOf(_)
Nodes(e) == {e} \cup UNION {Nodes(e.args[i]) : i \in DOMAIN e.args}
ExprsOf(s) == ToSet(s.exprs) \cup UNION {ExprsOf(s.subs[i]) : i \in DOMAIN s.subs}
Expressions(item) == CASE item.kind = "variable" -> ToSet(item.inits)
                       [] item.kind = "function" -> ToSet(item.inits) \cup ExprsOf(item.body)
                       [] item.kind = "rule" -> ExprsOf(item.reaction)
Generated == IF phase = "generate" THEN UNION {Expressions(checked[i]) : i \in DOMAIN checked} ELSE {}

(* Type invariant: every node's type is a type or not set, and only numbers are converted, to numbers
   or to a class. *)
TypeOK ==
  /\ phase \in {"check", "generate", "rejected"} /\ errors \in Nat
  /\ \A i \in DOMAIN checked : \A e \in Expressions(checked[i]) : \A n \in Nodes(e) :
       /\ {n.own, n.result} \subseteq Types \cup {"none"}
       /\ n.coerced # "none" => IsNumeric(n.result) /\ (IsNumeric(n.coerced) \/ n.coerced \in Classes)

(* Code is only generated from expressions every node of which has a type, and whose operands are
   converted: both operands of an arithmetic or bitwise operation have the type of the result, an
   assigned value that of the variable, an argument that of the parameter; so one kind of
   instruction does the whole operation. *)
Converted ==
  \A e \in Generated : \A n \in Nodes(e) :
    /\ n.result \notin {"none", "error"}
    /\ n.op \in Arithmetic \cup Bitwise2 \cup {"MOD"} =>
         \A i \in {1, 2} : Effective(n.args[i]) = n.result
    /\ n.op \in {"UMINUS", "BITNOT"} => Effective(n.args[1]) = n.result
    /\ n.op = "ASSIGN" => Tag(Effective(n.args[2])) = Tag(Effective(n.args[1]))
    /\ n.kind = "call" => \A i \in DOMAIN n.args : Effective(n.args[i]) = Functions[n.callee].params[i]

(* Checking what has been checked finds the same type and the same conversions: arguments are
   checked again and again. *)
Unchanged(e, c) == c.tree = e /\ c.type = e.result
Stable == \A i \in DOMAIN checked : \A e \in Expressions(checked[i]) :
            e.result # "none" => Unchanged(e, DoTypeCheck(e, Functions))

(* The type the rules of the language give an expression, but for & and ~ where the checker departs
   from them. *)
Passable(t, u) == t = u \/ (u \notin Classes /\ Widens(t, u))
Initial(t, u) == t = u \/ Widens(t, u)
RECURSIVE Typing(_)
Typing(e) ==
  LET t == [i \in DOMAIN e.args |-> Typing(e.args[i])]
      f == Functions[e.callee]
  IN  CASE e.kind = "value" -> e.own
        [] e.kind = "ref" -> IF e.found = "variable" THEN e.own ELSE "error"
        [] e.kind = "op" -> Gives(e.op, t)
        [] e.kind = "call" -> IF /\ e.found = "function" /\ Len(t) = Len(f.params)
                                 /\ \A i \in DOMAIN t : Passable(t[i], f.params[i])
                              THEN f.returns ELSE "error"

(* Expressions get the type the rules give them, but for & and ~, and there is a complaint exactly
   if a rule is broken, but for the initial values of locals, which may be of any type: no program is
   rejected, or let through, by the order of the checks. *)
RECURSIVE Legal(_)
Legal(s) ==
  /\ \A i \in DOMAIN s.exprs : Typing(s.exprs[i]) # "error"
  /\ s.kind \in {"if", "while"} => Typing(s.exprs[1]) = "bool"
  /\ s.kind = "return" => s.function # 0 /\ Assignable(Typing(s.exprs[1]), Functions[s.function].returns)
  /\ s.kind = "break" => s.depth > 0 /\ s.levels <= s.depth
  /\ s.kind = "print" => s.printable
  /\ \A i \in DOMAIN s.subs : Legal(s.subs[i])
RECURSIVE LegalPattern(_)
LegalPattern(p) ==
  /\ p.kind = "primitive" => /\ Events[p.event].known /\ p.given <= Len(Events[p.event].params)
                             /\ (p.cond # <<>> /\ p.cond[1].kind = "op") => Typing(p.cond[1]) # "error"
  /\ p.kind = "not" => p.subs[1].kind \notin {"seq", "star", "not"}
  /\ \A i \in DOMAIN p.subs : LegalPattern(p.subs[i])
LegalItem(item) ==
  CASE item.kind = "variable" -> LET t == Typing(item.inits[1]) IN t # "error" /\ Initial(t, item.type)
    [] item.kind = "function" -> /\ \A i \in DOMAIN item.inits :
                                      LET t == Typing(item.inits[i]) IN t # "error" /\ Initial(t, item.types[i])
                                 /\ Legal(item.body)
    [] item.kind = "rule" -> LegalPattern(item.pattern) /\ Legal(item.reaction)
Uncompared(item) ==
  item.kind = "function" /\ \E i \in DOMAIN item.inits :
    LET t == Typing(item.inits[i]) IN t # "error" /\ ~Initial(t, item.types[i])
Agrees ==
  /\ \A i \in DOMAIN checked : \A e \in Expressions(checked[i]) : e.result # "none" => e.result = Typing(e)
  /\ (\A e \in DOMAIN garbage : garbage[e] = 0) /\ (\A i \in DOMAIN checked : ~Uncompared(checked[i])) =>
       (errors = 0 <=> \A i \in DOMAIN checked : LegalItem(checked[i]))
=============================================================================

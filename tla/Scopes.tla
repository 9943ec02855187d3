-------------------------------- MODULE Scopes --------------------------------
(***************************************************************************)
(* Scopes and symbol tables while a program is parsed: the stack of        *)
(* SymTabMgr, the entries with the tables and counters they carry, and the *)
(* error count, changed by the actions of E--_parser.y++.                  *)
(*                                                                         *)
(* "parse" is the parser's own stack, as far as it decides which action    *)
(* comes next and how far a syntax error unwinds it: the scopes do not     *)
(* follow when it does.                                                    *)
(***************************************************************************)
EXTENDS Integers, Sequences, FiniteSets, SequencesExt

CONSTANTS Names,                  \* identifiers
          VarLists,               \* lists of declarators: sequences of [name, init]
          VarTypes,               \* type tags variables are declared with
          PatternArgs,            \* the names a pattern gives to an event's parameters
          NoName,                 \* no identifier: blocks, literals
          GLOBAL_MAX_REG_COUNT,   \* globals of a kind that live in registers
          MAX_SCOPE_STACK_SIZE,
          MAX_ERROR_BEFORE_QUIT,
          MaxEntries              \* bound: entries created in one run

ASSUME ScopesAssumption ==
  /\ NoName \notin Names /\ MaxEntries \in Nat
  /\ GLOBAL_MAX_REG_COUNT \in Nat /\ MAX_ERROR_BEFORE_QUIT \in Nat
  /\ MAX_SCOPE_STACK_SIZE \in Nat \ {0}
  /\ \A list \in VarLists :
       /\ list \in Seq(ToSet(list))
       /\ \A d \in ToSet(list) : d.name # NoName /\ d.init \in Names \cup {NoName}
  /\ PatternArgs \subseteq Seq(Names)

VARIABLES ste,      \* every SymTabEntry made, by number; 1 is the global scope
          stack,    \* scopeStack_[0..top_]
          parse,    \* constructs being parsed, outermost first
          asked,    \* what a name, a break or a return was looked up as last
          used,     \* what it was found to be, 0 for nothing
          errors,   \* errorCount
          ended,    \* how the process ended: "no", "parsed", "exit", "abort"
          wild      \* an entry has been written through a pointer to another class
vars == <<ste, stack, parse, asked, used, errors, ended, wild>>

----------------------------------------------------------------------------
(* Entries. *)

Blocks == {"GLOBAL", "FUNCTION", "EVENT", "RULE_BLOCK", "WHILE_BLOCK"}
Entry(kind, name) ==
  [kind |-> kind, name |-> name, syms |-> <<>>, cnt |-> 0, whileCnt |-> 0, argCnt |-> 0,
   cntI |-> 0, cntF |-> 0, type |-> "void", varKind |-> "none", offSet |-> 0, inMem |-> FALSE,
   label |-> <<>>, hasBody |-> FALSE]
Variable(name, kind, type) == [Entry("VARIABLE", name) EXCEPT !.varKind = kind, !.type = type]
WhileBlock(label) == [Entry("WHILE_BLOCK", NoName) EXCEPT !.label = label]

GetTypeSize(type) == IF type \in {"void", "unknown"} THEN 0 ELSE 1

(* SymTab::lookUp and SymTabMgr::lookUp: the innermost table that has the name; 0 if none does.
   A table is a map from names and a list of its entries; a name is in it once. *)
InTable(s, scope, n) == {e \in ToSet(s[scope].syms) : s[e].name = n}
Holders(s, st, n) == {i \in 1..Len(st) : InTable(s, st[i], n) # {}}
\* Mutant: the outermost table that has the name.
LookUpOutermost(s, st, n) ==
  IF Holders(s, st, n) = {} THEN 0
  ELSE CHOOSE e \in InTable(s, st[Min(Holders(s, st, n))], n) : TRUE
LookUpFrom(s, st, n) ==
  IF Holders(s, st, n) = {} THEN 0
  ELSE CHOOSE e \in InTable(s, st[Max(Holders(s, st, n))], n) : TRUE
LookUp(n) == LookUpFrom(ste, stack, n)
CurrentScope == Last(stack)
CurrentKind == ste[CurrentScope].kind

(* SymTab::insert: a name that is there stays; the new entry is not linked. *)
Duplicate(s, scope, entry) == entry.name # NoName /\ InTable(s, scope, entry.name) # {}
Insert(s, scope, entry) ==
  IF Duplicate(s, scope, entry) THEN Append(s, entry)
  ELSE Append([s EXCEPT ![scope].syms = Append(@, Len(s) + 1)], entry)

\* Mutant: the count is not looked at.
ErrMsgEndless(n) == errors' = errors + n /\ ended' = ended

(* errMsg, called "n" times: the process ends at the first that is too many. *)
Counting(n) == IF errors + n > MAX_ERROR_BEFORE_QUIT THEN MAX_ERROR_BEFORE_QUIT + 1 ELSE errors + n
ErrMsg(n) == /\ errors' = Counting(n)
             /\ ended' = IF errors + n > MAX_ERROR_BEFORE_QUIT THEN "exit" ELSE ended
Complain(dup) == ErrMsg(IF dup THEN 1 ELSE 0)

(* enterScope pushes, leaveScope pops all but the global scope, whatever is on top. *)
EnterScope(entry) == stack' = Append(stack, entry)
\* Mutant: the bottom of the stack is not spared.
PoppedAlways(st) == IF st = <<>> THEN st ELSE Front(st)
Popped(st) == IF Len(st) > 1 THEN Front(st) ELSE st
LeaveScope == stack' = Popped(stack)
TooDeep == Len(stack) >= MAX_SCOPE_STACK_SIZE

(* insertSymbolErrCheck and enterScopeErrCheck on one new entry: an entry whose name is taken is
   complained about and entered all the same. *)
InsertAndEnter(entry) ==
  /\ ste' = Insert(ste, CurrentScope, entry)
  /\ IF TooDeep THEN /\ errors' = Counting(IF Duplicate(ste, CurrentScope, entry) THEN 2 ELSE 1)
                     /\ ended' = "exit" /\ UNCHANGED stack
                ELSE Complain(Duplicate(ste, CurrentScope, entry)) /\ EnterScope(Len(ste) + 1)

Top == Last(parse)
Replace(construct) == parse' = Append(Front(parse), construct)
Push(construct) == parse' = Append(parse, construct)
Pop == parse' = Front(parse)
Room(n) == Len(ste) + n <= MaxEntries
Statements == {"vars", "body", "loop", "reaction"}     \* where a statement may begin
AfterStatement == IF Top = "vars" THEN Replace("body") ELSE UNCHANGED parse

(* What is asked of the tables: a name as anything, as a function or as an event; or, without a
   name, what the current scope is. *)
Asking == [as : {"nothing", "any", "FUNCTION", "EVENT", "WHILE_BLOCK"}, name : Names \cup {NoName}]
Question(as, n) == [as |-> as, name |-> n]
NoQuestion == Question("nothing", NoName)
Forget == asked' = NoQuestion /\ used' = 0 /\ UNCHANGED wild

Init ==
  /\ ste = <<[Entry("GLOBAL", NoName) EXCEPT !.syms = <<2>>], Entry("EVENT", NoName)>>
  /\ stack = <<1>> /\ parse = <<"decls">> /\ asked = NoQuestion /\ used = 0 /\ errors = 0
  /\ ended = "no" /\ wild = FALSE

----------------------------------------------------------------------------
(* Declarations. *)

(* One declarator of varListEntry: a global counts for its kind, and lives in memory when the
   registers of its kind are gone; anything else is in memory at the next offset of the scope. *)
IsGlobalScope(s, scope) == s[scope].kind = "GLOBAL"
CountOf(type) == IF type = "double" THEN "cntF" ELSE "cntI"
Resident(s, scope, type) == s[scope][CountOf(type)] < GLOBAL_MAX_REG_COUNT
Placed(s, scope, name, type) ==
  LET cnt == s[scope].cnt
      v == Variable(name, IF IsGlobalScope(s, scope) THEN "GLOBAL" ELSE "LOCAL", type)
  IN  IF ~IsGlobalScope(s, scope) THEN [v EXCEPT !.inMem = TRUE, !.offSet = cnt]
      ELSE IF Resident(s, scope, type) THEN [v EXCEPT !.offSet = cnt]
      ELSE [v EXCEPT !.inMem = TRUE, !.offSet = cnt - GLOBAL_MAX_REG_COUNT]
\* Mutant: the room of a global in memory is not counted.
CountedResident(s, scope, type) ==
  IF IsGlobalScope(s, scope) /\ ~Resident(s, scope, type) THEN s
  ELSE [s EXCEPT ![scope].cnt = @ + GetTypeSize(type),
                 ![scope][CountOf(type)] = IF IsGlobalScope(s, scope) THEN @ + 1 ELSE @]
Counted(s, scope, type) ==
  [s EXCEPT ![scope].cnt = @ + GetTypeSize(type),
            ![scope][CountOf(type)] =
               IF IsGlobalScope(s, scope) /\ Resident(s, scope, type) THEN @ + 1 ELSE @]
VarListEntry(s, scope, list, type) ==
  FoldLeft(LAMBDA t, d : Insert(Counted(t, scope, type), scope, Placed(t, scope, d.name, type)),
           s, list)
Repeated(s, scope, list) ==       \* how many declarators are complained about
  Cardinality({k \in DOMAIN list : \/ InTable(s, scope, list[k].name) # {}
                                   \/ \E l \in 1..(k - 1) : list[l].name = list[k].name})

Initialised(list) == {k \in DOMAIN list : list[k].init # NoName}

(* The initial values have been parsed, and their names looked up, before any declarator is
   entered. *)
VarDec(list, type) ==
  /\ Top \in {"decls", "vars"} /\ Room(Len(list))
  /\ ste' = VarListEntry(ste, CurrentScope, list, type)
  /\ ErrMsg(Repeated(ste, CurrentScope, list))
  /\ asked' = IF Initialised(list) = {} THEN NoQuestion ELSE Question("any", list[Max(Initialised(list))].init)
  /\ used' = IF Initialised(list) = {} THEN 0 ELSE LookUp(list[Max(Initialised(list))].init)
  /\ UNCHANGED <<stack, parse, wild>>

ClassDec(n) == /\ Top = "decls" /\ Room(1)
               /\ ste' = Insert(ste, CurrentScope, Entry("CLASS", n))
               /\ Complain(Duplicate(ste, CurrentScope, Entry("CLASS", n)))
               /\ UNCHANGED <<stack, parse>> /\ Forget

EventDeclHdr(n) == /\ Top = "decls" /\ Room(1) /\ InsertAndEnter(Entry("EVENT", n))
                   /\ Push("event") /\ Forget
FuncDeclHdr(n) == /\ Top = "decls" /\ Room(1) /\ InsertAndEnter(Entry("FUNCTION", n))
                  /\ Push("function") /\ Forget

(* Between the first parameter and another the parser may skip what it cannot read and go on with the
   header; yyerror of the parser and of the rule complain. *)
Skipping == IF Len(ste[CurrentScope].syms) = 1 \/ CurrentKind \notin {"FUNCTION", "EVENT"} THEN 0..2 ELSE {0}

(* Parameters are counted in the function or event they belong to. *)
FormalParam(n, type) ==
  /\ Top \in {"event", "function"} /\ Room(1)
  /\ LET p == [Variable(n, "PARAM", type) EXCEPT !.inMem = CurrentKind \in {"FUNCTION", "EVENT"},
                                                 !.offSet = ste[CurrentScope].argCnt]
         size == IF CurrentKind \in {"FUNCTION", "EVENT"} THEN GetTypeSize(type) ELSE 0
     IN  /\ ste' = Insert([ste EXCEPT ![CurrentScope].argCnt = @ + size], CurrentScope, p)
         /\ \E k \in Skipping : ErrMsg(IF Duplicate(ste, CurrentScope, p) THEN k + 1 ELSE k)
  /\ UNCHANGED <<stack, parse>> /\ Forget

EndEvent == /\ Top = "event" /\ LeaveScope /\ Pop
            /\ UNCHANGED <<ste, errors, ended>> /\ Forget
\* Mutant: the scope of a prototype is not left.
EndPrototypeStaying == /\ Top = "function" /\ UNCHANGED stack /\ Pop
                       /\ UNCHANGED <<ste, errors, ended>> /\ Forget
EndPrototype == /\ Top = "function" /\ LeaveScope /\ Pop
                /\ UNCHANGED <<ste, errors, ended>> /\ Forget
BeginBody == /\ Top = "function" /\ Replace("vars")
             /\ UNCHANGED <<ste, stack, errors, ended>> /\ Forget

(* func_body_inner sets the body of the current scope, taken for a function; then it is left. *)
EndFunction ==
  /\ Top = "body" /\ Pop /\ LeaveScope
  /\ IF CurrentKind = "FUNCTION"
     THEN ste' = [ste EXCEPT ![CurrentScope].hasBody = TRUE] /\ UNCHANGED wild
     ELSE UNCHANGED ste /\ wild' = TRUE
  /\ asked' = NoQuestion /\ used' = 0 /\ UNCHANGED <<errors, ended>>

----------------------------------------------------------------------------
(* Statements. *)

(* A name in an expression or after an arrow; a call wants a function. *)
RefExpr(n) == /\ Top \in Statements \cup {"cond"}
              /\ asked' = Question("any", n) /\ used' = LookUp(n)
              /\ IF Top = "cond" THEN UNCHANGED parse ELSE AfterStatement
              /\ UNCHANGED <<ste, stack, errors, ended, wild>>
FuncInvoc(n) == /\ Top \in Statements
                /\ asked' = Question("FUNCTION", n)
                /\ LET e == LookUp(n) IN
                   used' = IF e # 0 /\ ste[e].kind = "FUNCTION" THEN e ELSE 0
                /\ AfterStatement /\ UNCHANGED <<ste, stack, errors, ended, wild>>

(* break leaves the loop whose scope this is; return belongs to the function whose scope it is. *)
BreakStmt == /\ Top \in Statements
             /\ asked' = Question("WHILE_BLOCK", NoName)
             /\ used' = IF CurrentKind = "WHILE_BLOCK" THEN CurrentScope ELSE 0
             /\ AfterStatement /\ UNCHANGED <<ste, stack, errors, ended, wild>>
RetStmt == /\ Top \in Statements
           /\ asked' = Question("FUNCTION", NoName)
           /\ used' = IF CurrentKind = "FUNCTION" THEN CurrentScope ELSE 0
           /\ AfterStatement /\ UNCHANGED <<ste, stack, errors, ended, wild>>

\* Mutant: a loop is numbered within the loop around it only.
NewLabelShort == <<ste[CurrentScope].whileCnt + 1>>

(* while_hdr: the label of a loop is that of the loop around it and a number of its own there. *)
NewLabel == LET outside == IF CurrentKind = "WHILE_BLOCK" THEN ste[CurrentScope].label ELSE <<>>
            IN  Append(outside, ste[CurrentScope].whileCnt + 1)
WhileHdr ==
  /\ Top \in Statements /\ Room(1)
  /\ ste' = Insert([ste EXCEPT ![CurrentScope].whileCnt = @ + 1], CurrentScope, WhileBlock(NewLabel))
  /\ IF TooDeep THEN errors' = errors + 1 /\ ended' = "exit" /\ UNCHANGED stack
                ELSE EnterScope(Len(ste) + 1) /\ UNCHANGED <<errors, ended>>
  /\ parse' = IF Top = "vars" THEN Front(parse) \o <<"body", "cond">> ELSE Append(parse, "cond")
  /\ Forget
WhileBody == Top = "cond" /\ Replace("loop") /\ UNCHANGED <<ste, stack, errors, ended>> /\ Forget
\* Mutant: the scope of a loop is not left.
WhileStmtStaying == /\ Top = "loop" /\ Pop /\ UNCHANGED stack
                    /\ UNCHANGED <<ste, errors, ended>> /\ Forget
WhileStmt == /\ Top = "loop" /\ Pop /\ LeaveScope
             /\ UNCHANGED <<ste, errors, ended>> /\ Forget

----------------------------------------------------------------------------
(* Rules. *)

(* normal_event and any_event: the first pattern of a rule enters its scope; the parameters of the
   event, as many as are named, become constants of the rule. *)
Typed(e, name, i) == Variable(name, "PARAM", ste[ste[e].syms[i]].type)
Given(e, names) == SubSeq(names, 1, CHOOSE k \in {Len(names), Len(ste[e].syms)} :
                                      k <= Len(names) /\ k <= Len(ste[e].syms))
Bound(s, scope, e, names) ==
  FoldLeftDomain(LAMBDA t, i : Insert(t, scope, Typed(e, names[i], i)), s, names)
InRule == CurrentKind = "RULE_BLOCK"
RuleTable == IF InRule THEN ste ELSE Append(ste, Entry("RULE_BLOCK", NoName))
RuleScope == IF InRule THEN CurrentScope ELSE Len(ste) + 1
EnterRule == /\ stack' = IF InRule THEN stack ELSE Append(stack, RuleScope)
             /\ parse' = IF Top = "pattern" THEN parse ELSE <<"rules", "pattern">>
PatternPlace == Top \in {"decls", "rules", "pattern"}

NormalEvent(n, names) ==
  LET e == LookUp(n)
      known == e # 0 /\ ste[e].kind = "EVENT"
      given == IF known THEN Given(e, names) ELSE <<>>
  IN  /\ PatternPlace /\ Room(1 + Len(names)) /\ EnterRule
      /\ ste' = Bound(RuleTable, RuleScope, e, given)
      /\ ErrMsg(Repeated(RuleTable, RuleScope, [i \in DOMAIN given |-> [name |-> given[i]]]))
      /\ asked' = Question("EVENT", n) /\ used' = (IF known THEN e ELSE 0) /\ UNCHANGED wild
AnyEvent == /\ PatternPlace /\ Room(1) /\ EnterRule /\ ste' = RuleTable
            /\ UNCHANGED <<errors, ended>> /\ Forget

RuleHdr == Top = "pattern" /\ Replace("reaction") /\ UNCHANGED <<ste, stack, errors, ended>> /\ Forget

(* The rule is added to the scope around it, taken for the global one. *)
EndRule == /\ Top = "reaction" /\ Pop /\ LeaveScope
           /\ wild' = (ste[Last(Popped(stack))].kind # "GLOBAL")
           /\ asked' = NoQuestion /\ used' = 0 /\ UNCHANGED <<ste, errors, ended>>

----------------------------------------------------------------------------
(* Syntax errors.  The parser unwinds its own stack to the nearest place that has an error
   production, and complains; no action takes the scopes back. *)

Recovered == \E n \in 1..2 : ErrMsg(n)     \* yyerror of the parser, unless it is recovering, and of the rule

DeclarationError == Top \in {"decls", "vars"} /\ Recovered /\ UNCHANGED <<ste, stack, parse>> /\ Forget
EventNameError == Top = "decls" /\ Recovered /\ Push("event") /\ UNCHANGED <<ste, stack>> /\ Forget
StatementError == /\ Top \in Statements /\ Recovered /\ AfterStatement
                  /\ UNCHANGED <<ste, stack>> /\ Forget
ConditionError == Top = "cond" /\ Recovered /\ Pop /\ UNCHANGED <<ste, stack>> /\ Forget
HeaderError == Top \in {"event", "function"} /\ Recovered /\ Pop /\ UNCHANGED <<ste, stack>> /\ Forget
RuleError == /\ Top \in {"rules", "pattern"} /\ Recovered /\ parse' = <<"decls">>
             /\ UNCHANGED <<ste, stack>> /\ Forget

(* A missing name leaves a null pointer: formal_param makes a string of it, and a declarator after the
   first is a null entry that varListEntry writes to.  Either ends the process, if the messages do not. *)
Aborted == /\ \E n \in 1..2 : /\ errors' = Counting(n)
                             /\ ended' = IF errors + n > MAX_ERROR_BEFORE_QUIT THEN "exit" ELSE "abort"
           /\ UNCHANGED <<ste, stack, parse>> /\ Forget
NullName == Top \in {"event", "function"} /\ Aborted
NullDeclarator == Top \in {"decls", "vars"} /\ Aborted

(* The text ends too early: nothing is left to recover to.  After parsing, main leaves what is left
   of the scopes. *)
LeaveToGlobal == stack' = SubSeq(stack, 1, 1)
EndOfFile == /\ parse # <<"rules">> /\ errors' = errors + 1 /\ parse' = <<>>
             /\ IF errors = MAX_ERROR_BEFORE_QUIT THEN ended' = "exit" /\ UNCHANGED stack
                                                  ELSE ended' = "parsed" /\ LeaveToGlobal
             /\ UNCHANGED ste /\ Forget
Finish == /\ parse = <<"rules">>
          /\ parse' = <<>> /\ ended' = "parsed" /\ LeaveToGlobal
          /\ UNCHANGED <<ste, errors>> /\ Forget

Errors == \/ DeclarationError \/ EventNameError \/ StatementError \/ ConditionError
          \/ HeaderError \/ RuleError \/ NullName \/ NullDeclarator \/ EndOfFile
Declarations ==
  \/ \E list \in VarLists, type \in VarTypes : VarDec(list, type)
  \/ \E n \in Names : ClassDec(n) \/ EventDeclHdr(n) \/ FuncDeclHdr(n)
  \/ \E n \in Names, type \in VarTypes : FormalParam(n, type)
  \/ EndEvent \/ EndPrototype \/ BeginBody \/ EndFunction
StatementActions ==
  \/ \E n \in Names : RefExpr(n) \/ FuncInvoc(n)
  \/ BreakStmt \/ RetStmt \/ WhileHdr \/ WhileBody \/ WhileStmt
Rules ==
  \/ \E n \in Names, names \in PatternArgs : NormalEvent(n, names)
  \/ AnyEvent \/ RuleHdr \/ EndRule \/ Finish

Next == /\ ended = "no" /\ ~wild
        /\ Declarations \/ StatementActions \/ Rules \/ Errors
Spec == Init /\ [][Next]_vars

----------------------------------------------------------------------------
(* Properties. *)

(* Type invariant: the stack and the tables name entries, and an error too many ends the process. *)
TypeOK ==
  /\ \A e \in DOMAIN ste : \A i \in DOMAIN ste[e].syms : ste[e].syms[i] \in DOMAIN ste
  /\ \A i \in DOMAIN stack : ste[stack[i]].kind \in Blocks
  /\ asked \in Asking /\ used \in 0..Len(ste)
  /\ errors \in 0..(MAX_ERROR_BEFORE_QUIT + 1)
  /\ ended \in {"no", "parsed", "exit", "abort"}
  /\ ended = "no" => errors <= MAX_ERROR_BEFORE_QUIT

(* The global scope is never left, however many scopes errors made the actions leave: there is
   always a current scope for the many places that do not ask (SymTabMgr::leaveScope). *)
GlobalStays == stack # <<>> /\ ste[Head(stack)].kind = "GLOBAL"

(* As long as no error has been counted, the scopes on the stack are those of the constructs being
   parsed, so every name is entered where it is written and break and return find their block. *)
ScopeKind == [event |-> "EVENT", function |-> "FUNCTION", vars |-> "FUNCTION", body |-> "FUNCTION",
              cond |-> "WHILE_BLOCK", loop |-> "WHILE_BLOCK",
              pattern |-> "RULE_BLOCK", reaction |-> "RULE_BLOCK"]
Balanced ==
  errors = 0 /\ ended = "no" =>
    [i \in DOMAIN stack |-> ste[stack[i]].kind] =
    [i \in DOMAIN parse |-> IF i = 1 THEN "GLOBAL" ELSE ScopeKind[parse[i]]]

(* The actions that take the current scope for a function or for the global scope without asking
   are right unless an error has been reported: no program that gets code has had its tables
   overwritten. *)
CastsRight == wild => errors > 0

(* Variables that live in memory have cells of their own: two of one function, or two globals,
   never share one, whatever the mixture of kinds the registers ran out for; and no global is put
   before the first cell unless one of type void takes a register and no room. *)
Cells(e) == {v \in DOMAIN ste : /\ \E i \in DOMAIN ste[e].syms : ste[e].syms[i] = v
                                /\ ste[v].kind = "VARIABLE" /\ ste[v].inMem
                                /\ GetTypeSize(ste[v].type) > 0}
Sizeless == {v \in DOMAIN ste : ste[v].varKind = "GLOBAL" /\ GetTypeSize(ste[v].type) = 0}
StorageDistinct ==
  \A e \in DOMAIN ste : \A v, w \in Cells(e) :
    /\ v # w /\ ste[v].varKind = ste[w].varKind => ste[v].offSet # ste[w].offSet
    /\ Sizeless = {} => ste[v].offSet >= 0

(* Two loops of one function or one rule have different labels, nested or not. *)
Owner(w) == Max({1} \cup {d \in 1..w : ste[d].kind \in {"FUNCTION", "RULE_BLOCK"}})
Loops == {w \in DOMAIN ste : ste[w].kind = "WHILE_BLOCK"}
LoopLabels == errors = 0 => \A v, w \in Loops : v # w /\ Owner(v) = Owner(w) => ste[v].label # ste[w].label

(* Until an error is counted, a name looked up on the stack is found to be what the innermost
   declaration of it that can be seen made it, and break and return find the innermost block:
   Scopes implements LexicalScoping. *)
Accepted == errors = 0 /\ ended = "no" /\ ~wild
Environment(i) == [n \in Names |-> LookUpFrom(ste, SubSeq(stack, 1, i), n)]
Declared(i) == {ste[v].name : v \in {ste[stack[i]].syms[k] : k \in DOMAIN ste[stack[i]].syms}} \cap Names
Lexical == INSTANCE LexicalScoping WITH
             Things <- 1..MaxEntries, Whole <- 1, Nothing <- 0, Questions <- Asking,
             sort <- IF Accepted THEN [e \in DOMAIN ste |-> [kind |-> ste[e].kind, name |-> ste[e].name]] ELSE <<>>,
             blocks <- IF Accepted THEN stack ELSE <<1>>,
             visible <- IF Accepted THEN Environment(Len(stack)) ELSE [n \in Names |-> 0],
             outer <- IF Accepted THEN [i \in 1..(Len(stack) - 1) |-> Environment(i)] ELSE <<>>,
             mine <- IF Accepted THEN Declared(Len(stack)) ELSE {},
             outerMine <- IF Accepted THEN [i \in 1..(Len(stack) - 1) |-> Declared(i)] ELSE <<>>,
             asked <- IF Accepted THEN asked ELSE NoQuestion,
             used <- IF Accepted THEN used ELSE 0,
             rejected <- ~Accepted
Scoped == Lexical!Spec
=============================================================================

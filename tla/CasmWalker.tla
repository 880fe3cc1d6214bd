----------------------------- MODULE CasmWalker -----------------------------
(***************************************************************************)
(* The interpreter in concrete mode: ExecutionWalker::run and the AST      *)
(* walker, driving the update set of UpdateSet. A machine is an init rule  *)
(* and named rules; the walker's call stack is the list `todo` of what is  *)
(* left to walk.                                                           *)
(*                                                                         *)
(* Statements are records with a field t:                                  *)
(*   update  l, e        the location l gets the value of e                *)
(*   seq/par body        a sequence of statements                          *)
(*   forall  in, s       s for each value of the sequence in               *)
(*   iterate s                                                             *)
(*   if      l, v, strict, s, else   tests l = v; strict: see ifthenelse   *)
(*   case    l, labels, default                                            *)
(*   assert  l, v                                                          *)
(*   call    e           a rule by name or through a function              *)
(*   skip, diedie                                                          *)
(* and expressions are [t |-> "const", v], [t |-> "read", l] or [t |->     *)
(* "var"], the variable of the innermost forall.                           *)
(***************************************************************************)
EXTENDS UpdateSet

CONSTANTS
  Machines,   \* the machines to run: [init |-> statement, rules |-> names to statements]
  Program,    \* the location program(self)
  Rules,      \* the names of the rules, "init" is the init rule
  Refs,       \* the locations of type RuleRef
  Visits,     \* the statements of the machines, each with what the variable
              \* of the forall around it may be
  MaxSteps    \* bound on the steps of the machine

-----------------------------------------------------------------------------
(* What the parser and the type checker have made sure of.                 *)

Place(l, i) == IF l = "var" THEN i ELSE l

ValuesAt(l) == IF l \in Refs THEN Rules \cup {Undef} ELSE Val

\* The expression e yields a value of V.
Yields(e, i, V) ==
  \/ e.t = "const" /\ e.v \in V
  \/ e.t = "read" /\ e.l \in Loc /\ ValuesAt(e.l) \subseteq V
  \/ e.t = "var" /\ i \in V

IsSeq(ss) == Len(ss) \in Nat /\ DOMAIN ss = 1 .. Len(ss)

\* visit_update accepts values of the location's type only, and the callee of
\* an indirect call is of type RuleRef.
WellTyped(s, i, P) ==
  \/ /\ s.t = "update" /\ Place(s.l, i) \in Loc
     /\ Yields(s.e, i, ValuesAt(Place(s.l, i)))
  \/ /\ s.t \in {"seq", "par"} /\ IsSeq(s.body)
     /\ \A n \in DOMAIN s.body : <<s.body[n], i>> \in P
  \/ /\ s.t = "forall" /\ IsSeq(s.in)
     /\ \A n \in DOMAIN s.in : <<s.s, s.in[n]>> \in P
  \/ s.t = "iterate" /\ <<s.s, i>> \in P
  \/ /\ s.t = "if" /\ s.l \in Loc /\ s.strict \in BOOLEAN
     /\ <<s.s, i>> \in P /\ <<s.else, i>> \in P
  \/ /\ s.t = "case" /\ s.l \in Loc /\ IsSeq(s.labels) /\ <<s.default, i>> \in P
     /\ \A n \in DOMAIN s.labels : <<s.labels[n].s, i>> \in P
  \/ s.t = "assert" /\ s.l \in Loc
  \/ s.t = "call" /\ Yields(s.e, i, Rules \cup {Undef})
  \/ s.t \in {"skip", "diedie"}

\* P holds all rules, and with a statement those inside it.
Accepted(P) ==
  /\ \A m \in Machines :
       /\ <<m.init, Undef>> \in P
       /\ \A r \in Rules \ {"init"} : <<m.rules[r], Undef>> \in P
  /\ \A p \in P : WellTyped(p[1], p[2], P)

ASSUME WalkerAssumption ==
  /\ Program \in Refs /\ Refs \subseteq Loc
  /\ "init" \in Rules /\ Rules \subseteq Val
  /\ Accepted(Visits)

-----------------------------------------------------------------------------
VARIABLES
  machine,    \* the machine being run
  todo,       \* what the walker has still to do in this step
  main,       \* where run() is: "fetch", "walk" or "done"
  steps       \* the step counter (symbolic::advance_timestamp)

wvars == <<vars, machine, todo, main, steps>>

Stmt(s, i) == [k |-> "stmt", s |-> s, i |-> i]
Todo(k) == [k |-> k]
Body(ss, i) == [n \in DOMAIN ss |-> Stmt(ss[n], i)]

\* The rule a value of type RULEREF denotes.
RuleOf(name) == IF name = "init" THEN machine.init ELSE machine.rules[name]

\* ExecutionContext's constructor: program(self) is initialised with the init
\* rule, whose kind of block has chosen the pseudostate.
WInit ==
  /\ function_states = [l \in {Program} |-> "init"]
  /\ Init
  /\ machine \in {m \in Machines : (m.init.t = "par") = (base = 1)}
  /\ todo = <<>>
  /\ main = "fetch"
  /\ steps = 0

-----------------------------------------------------------------------------
(* Expressions.                                                            *)

Eval(e, i) ==
  CASE e.t = "const" -> e.v
    [] e.t = "read"  -> FunctionValue(e.l)
    [] e.t = "var"   -> i

-----------------------------------------------------------------------------
(* Statements.                                                             *)

Now == todo[1].s
Var == todo[1].i

\* The statement at the head of the list is of kind t.
AtStmt(t) ==
  /\ main = "walk" /\ phase = "walk" /\ todo # <<>>
  /\ todo[1].k = "stmt" /\ Now.t = t

Continue(items) == todo' = items \o Tail(todo)

Keep == UNCHANGED <<machine, main, steps>>

Quiet == UNCHANGED vars

throw ==
  /\ phase' = "error"
  /\ UNCHANGED <<base, function_states, updates, pseudostate, blocks, cursor, seen>>

update ==
  /\ AtStmt("update")
  /\ LET l == Place(Now.l, Var)
         v == Eval(Now.e, Var)
     IN  add_update(l, v) \/ add_update_conflict(l)
  /\ Continue(<<>>) /\ Keep

seqblock ==
  /\ AtStmt("seq") /\ walk_seqblock
  /\ Continue(Body(Now.body, Var) \o <<Todo("leave_seq")>>) /\ Keep

parblock ==
  /\ AtStmt("par") /\ walk_parblock
  /\ Continue(Body(Now.body, Var) \o <<Todo("leave_par")>>) /\ Keep

\* Mutant: no parallel block is opened.
forall_no_block ==
  /\ AtStmt("forall") /\ Quiet
  /\ Continue([n \in DOMAIN Now.in |-> Stmt(Now.s, Now.in[n])])
  /\ Keep

\* The body runs once per value, in one parallel block.
forall ==
  /\ AtStmt("forall") /\ walk_parblock
  /\ Continue([n \in DOMAIN Now.in |-> Stmt(Now.s, Now.in[n])] \o <<Todo("leave_par")>>)
  /\ Keep

iterate ==
  /\ AtStmt("iterate") /\ walk_iterate
  /\ Continue(<<[k |-> "while", s |-> Now, i |-> Var]>>) /\ Keep

\* The condition compares the value at Now.l. It is strict if it is undef for undef:
\* a Boolean function itself, or an operator other than = and !=.
UndefCondition == Now.strict /\ FunctionValue(Now.l) = Undef

ifthenelse ==
  /\ AtStmt("if") /\ ~ UndefCondition /\ Quiet
  /\ Continue(<<Stmt(IF FunctionValue(Now.l) = Now.v THEN Now.s ELSE Now.else, Var)>>)
  /\ Keep

\* "condition must be true or false but was undef"
condition_undef ==
  /\ AtStmt("if") /\ UndefCondition /\ throw
  /\ Continue(<<>>) /\ Keep

\* The first label that equals the value, else the default.
case ==
  /\ AtStmt("case") /\ Quiet
  /\ LET hits == {n \in DOMAIN Now.labels : Now.labels[n].v = FunctionValue(Now.l)}
         first == CHOOSE n \in hits : \A k \in hits : n <= k
     IN  Continue(<<Stmt(IF hits = {} THEN Now.default ELSE Now.labels[first].s, Var)>>)
  /\ Keep

assert ==
  /\ AtStmt("assert")
  /\ IF FunctionValue(Now.l) = Now.v THEN Quiet ELSE throw
  /\ Continue(<<>>) /\ Keep

\* An indirect call of undef is an error; the arguments are not modelled here.
call ==
  /\ AtStmt("call")
  /\ LET r == Eval(Now.e, Var)
     IN  IF r = Undef
           THEN throw /\ Continue(<<>>)
           ELSE Quiet /\ Continue(<<Stmt(RuleOf(r), Undef)>>)
  /\ Keep

skip == AtStmt("skip") /\ Quiet /\ Continue(<<>>) /\ Keep

diedie == AtStmt("diedie") /\ throw /\ Continue(<<>>) /\ Keep

\* The ends of blocks, and the loop of walk_iterate.
Reached(k) ==
  /\ main = "walk" /\ phase = "walk" /\ todo # <<>> /\ todo[1].k = k

end_seqblock == Reached("leave_seq") /\ leave_seqblock /\ Continue(<<>>) /\ Keep
end_parblock == Reached("leave_par") /\ leave_parblock /\ Continue(<<>>) /\ Keep

iterate_round ==
  /\ Reached("while") /\ begin_round
  /\ todo' = <<Stmt(Now.s, Var), Todo("end_round")>> \o todo
  /\ Keep

iterate_check == Reached("end_round") /\ end_round /\ Continue(<<>>) /\ Keep
iterate_exit == Reached("while") /\ leave_iterate /\ Continue(<<>>) /\ Keep

merge == (merge_step \/ merge_end) /\ UNCHANGED <<machine, todo, main, steps>>

-----------------------------------------------------------------------------
(* The main loop.                                                          *)

fetch_program ==
  /\ main = "fetch" /\ steps < MaxSteps
  /\ get_function_value(Program)
  /\ IF seen' = Undef
       THEN main' = "done" /\ UNCHANGED todo
       ELSE main' = "walk" /\ todo' = <<Stmt(RuleOf(seen'), Undef)>>
  /\ UNCHANGED <<machine, steps>>

end_step ==
  /\ main = "walk" /\ todo = <<>>
  /\ apply_updates
  /\ main' = "fetch" /\ steps' = steps + 1
  /\ UNCHANGED <<machine, todo>>

\* The process has ended: program(self) is undef, an exception was thrown, or
\* the bound on the number of steps is reached.
exited ==
  /\ main = "done" \/ phase = "error" \/ (main = "fetch" /\ steps = MaxSteps)
  /\ UNCHANGED wvars

WNext ==
  \/ fetch_program \/ end_step \/ exited
  \/ update \/ seqblock \/ parblock \/ forall \/ iterate \/ ifthenelse \/ case
  \/ condition_undef \/ assert \/ call \/ skip \/ diedie
  \/ end_seqblock \/ end_parblock
  \/ iterate_round \/ iterate_check \/ iterate_exit
  \/ merge

WSpec == WInit /\ [][WNext]_wvars

\* The interpreter is one thread that runs until it exits.
WFairSpec == WSpec /\ WF_wvars(WNext)

-----------------------------------------------------------------------------
(* Properties.                                                             *)

\* When the rule has been walked, whatever its blocks, loops and calls, each
\* block has been left and each fork merged (run(), execution_visitor.cpp:1010):
\* apply_updates finds the pseudostate the step began with, and one update per
\* location, so the order it writes them in does not matter.
RuleWalked ==
  todo = <<>> /\ phase = "walk" =>
    /\ blocks = <<>> /\ pseudostate = base
    /\ \A i, j \in DOMAIN updates : updates[i].loc = updates[j].loc => i = j

\* Every step of the walker is a step of the stack of blocks of AsmBlocks, and
\* it gives a step of the machine up only for updates that clash there, or for an
\* undefined condition, a failed assert, an undefined callee or diedie: the blocks
\* that share a pseudostate, the forks and the stepwise merges of nested statements
\* behave as if each block had its own updates.
WalksBlocks ==
  /\ Abstract!AInit
  /\ [][\/ Abstract!ANext
        \/ (condition_undef \/ assert \/ call \/ diedie) /\ Abstract!Fail]_(Abstract!avars)

\* A step whose rule has a meaning ends: the walker comes back to the main
\* loop, whatever the nesting of blocks and iterates.
StepsEnd == main = "walk" /\ todo # <<>> ~> main # "walk" \/ phase = "error"

=============================================================================

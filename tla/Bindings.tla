------------------------------ MODULE Bindings ------------------------------
(***************************************************************************)
(* Variables of rules and derived functions. The type checker gives every  *)
(* use of a name an offset; the interpreter finds the value at that offset *)
(* of the bindings of the rule it is in. The two walk the program in       *)
(* different orders: the checker goes through both branches of an if and   *)
(* through a loop once, and it does not follow calls.                      *)
(*                                                                         *)
(* Expressions are values, names and calls of derived functions. What a    *)
(* condition, a list or a reference to a rule evaluates to is chosen when  *)
(* it is needed. Updates are not modelled (AsmBlocks, CasmWalker).         *)
(***************************************************************************)
EXTENDS Integers, FiniteSets, SequencesExt

CONSTANTS
  Programs,   \* the programs: [rules, derived], functions from names
  Values,     \* what lists hold
  MaxSteps,   \* bound: steps of the program
  MaxRounds,  \* bound: rounds of a loop
  MaxFrames   \* bound: calls that are active at once

VARIABLES
  rules,      \* the rules and derived functions; once checked, with their offsets
  derived,
  phase,      \* "check", "run", or why there is nothing more to do
  steps,      \* steps that were begun
  todo,       \* what is left of this step, next first
  frames,     \* rule_bindings: the values of each active call; main_bindings first
  scopes      \* auxiliary: the names and values that are bound in each call

vars == <<rules, derived, phase, steps, todo, frames, scopes>>

-----------------------------------------------------------------------------
(* Programs. Every statement has a name, expressions and statements.       *)

Lit(v) == [k |-> "lit", x |-> v, args |-> <<>>]
Var(x) == [k |-> "var", x |-> x, args |-> <<>>]
Derived(d, args) == [k |-> "derived", x |-> d, args |-> args]

Stmt(k, x, es, body) == [k |-> k, x |-> x, es |-> es, body |-> body]
Use(e) == Stmt("use", "", <<e>>, <<>>)
Let(x, e, s) == Stmt("let", x, <<e>>, <<s>>)
Forall(x, e, s) == Stmt("forall", x, <<e>>, <<s>>)
Pop(x) == Stmt("pop", x, <<>>, <<>>)
If(e, s, t) == Stmt("if", "", <<e>>, <<s, t>>)
Case(e, ss) == Stmt("case", "", <<e>>, ss)
Iterate(s) == Stmt("iterate", "", <<>>, <<s>>)
Block(ss) == Stmt("block", "", <<>>, ss)
Call(r, es) == Stmt("call", r, es, <<>>)
CallRef(es) == Stmt("callref", "", es, <<>>)

Rule(params, body) == [params |-> params, body |-> body]

-----------------------------------------------------------------------------
(* The type checker. b holds the offset of each name that is known, how    *)
(* many types were pushed, and what went wrong.                            *)

\* The grammar numbers the parameters by the size of the map.
PARAM(params) ==
  [offsets |-> FoldLeft(LAMBDA m, x : [y \in DOMAIN m \cup {x} |->
                                         IF y = x THEN Cardinality(DOMAIN m) ELSE m[y]],
                        <<>>, params),
   size |-> Len(params),
   why  |-> ""]

\* Mutant: a binding gets the offset of the one before it.
insert_off_by_one(b, x) ==
  [b EXCEPT !.offsets = IF x \in DOMAIN b.offsets THEN @
                        ELSE [y \in DOMAIN @ \cup {x} |-> IF y = x THEN b.size - 1 ELSE b.offsets[y]],
            !.size = @ + 1]

\* A name that is known keeps its offset.
insert(b, x) ==
  [b EXCEPT !.offsets = IF x \in DOMAIN b.offsets THEN @
                        ELSE [y \in DOMAIN @ \cup {x} |-> IF y = x THEN b.size ELSE b.offsets[y]],
            !.size = @ + 1]

\* visit_let_post and the end of walk_forall.
Leave(b, x) ==
  [b EXCEPT !.offsets = [y \in DOMAIN @ \ {x} |-> b.offsets[y]], !.size = @ - 1]

Error(b, why) == [b EXCEPT !.why = IF @ = "" THEN why ELSE @]

visit_function_atom(b, x) ==
  CASE x \notin DOMAIN b.offsets -> [b |-> Error(b, "rejected"), offset |-> 0]
    [] x \in DOMAIN b.offsets ->
         [b |-> IF b.offsets[x] < b.size THEN b ELSE Error(b, "exception"), offset |-> b.offsets[x]]

visit_pop(b, x) ==
  insert(IF x \in DOMAIN b.offsets THEN Error(b, "rejected") ELSE b, x)

RECURSIVE CheckExpr(_, _)

\* Expressions are looked at from the left.
CheckExprs(b, es) ==
  FoldLeft(LAMBDA r, e : LET c == CheckExpr(r.b, e) IN [b |-> c.b, es |-> Append(r.es, c.e)],
           [b |-> b, es |-> <<>>], es)

CheckExpr(b, e) ==
  LET a == CheckExprs(b, e.args)
      n == visit_function_atom(b, e.x)
      typed(c, offset) ==
        [b |-> c, e |-> [k |-> e.k, x |-> e.x, args |-> a.es, offset |-> offset]]
  IN  CASE e.k = "lit" -> typed(b, 0)
        [] e.k = "var" -> typed(n.b, n.offset)
        [] e.k = "derived" ->
             typed(IF Len(e.args) = Len(derived[e.x].params) THEN a.b ELSE Error(a.b, "rejected"), 0)

\* The number of arguments of an indirect call is not known yet.
visit_call(b, s) ==
  IF s.k = "call" /\ Len(s.es) # Len(rules[s.x].params) THEN Error(b, "rejected") ELSE b

RECURSIVE Check(_, _)

CheckAll(b, ss) ==
  FoldLeft(LAMBDA r, s : LET c == Check(r.b, s) IN [b |-> c.b, ss |-> Append(r.ss, c.s)],
           [b |-> b, ss |-> <<>>], ss)

\* The statement with its offsets. The expression of a case is looked at after its
\* statements.
Check(b, s) ==
  LET after(c)   == CheckAll(c, s.body)
      first      == IF s.k = "case" THEN [b |-> b, es |-> <<>>] ELSE CheckExprs(b, s.es)
      opened     == CASE s.k \in {"let", "forall"} -> insert(first.b, s.x)
                      [] s.k = "pop" -> visit_pop(first.b, s.x)
                      [] s.k \in {"call", "callref"} -> visit_call(first.b, s)
                      [] OTHER -> first.b
      inner      == after(opened)
      last       == IF s.k = "case" THEN CheckExprs(inner.b, s.es) ELSE [b |-> inner.b, es |-> first.es]
  IN  [b |-> IF s.k \in {"let", "forall"} THEN Leave(last.b, s.x) ELSE last.b,
       s |-> [k |-> s.k, x |-> s.x, es |-> last.es, body |-> inner.ss]]

-----------------------------------------------------------------------------
(* The interpreter.                                                        *)

\* What there is instead of a value at an offset or a name that has none.
Missing == -1

\* The value of an expression in a frame; a derived function has one of its own.
RECURSIVE Eval(_, _)
Eval(frame, e) ==
  LET vs == [i \in DOMAIN e.args |-> Eval(frame, e.args[i])]
  IN  CASE e.k = "lit" -> e.x
        [] e.k = "var" -> IF e.offset + 1 \in DOMAIN frame THEN frame[e.offset + 1] ELSE Missing
        [] e.k = "derived" -> IF Missing \in Range(vs) THEN Missing ELSE Eval(vs, derived[e.x].body)

\* What it means: names stand for what they were bound to last.
RECURSIVE Meaning(_, _)
Meaning(scope, e) ==
  LET vs == [i \in DOMAIN e.args |-> Meaning(scope, e.args[i])]
      i  == SelectLastInSeq(scope, LAMBDA n : n.x = e.x)
      ps == derived[e.x].params
  IN  CASE e.k = "lit" -> e.x
        [] e.k = "var" -> IF i = 0 THEN Missing ELSE scope[i].v
        [] e.k = "derived" ->
             Meaning([j \in DOMAIN ps |-> [x |-> ps[j], v |-> vs[j]]], derived[e.x].body)

Now == Head(todo)
Frame == Last(frames)
Scope == Last(scopes)

\* The statements of a block, a rule or a branch come before the rest.
Continue(ss) == todo' = ss \o Tail(todo)

Bind(x, v) ==
  /\ frames' = [frames EXCEPT ![Len(frames)] = Append(@, v)]
  /\ scopes' = [scopes EXCEPT ![Len(scopes)] = Append(@, [x |-> x, v |-> v])]

\* pop_back takes the last value, whatever it is; the name goes out of scope. (If
\* there is no value it is undefined what happens; no program gets there.)
Unbind(x) ==
  LET i == SelectLastInSeq(Scope, LAMBDA n : n.x = x)
  IN  /\ frames' = [frames EXCEPT ![Len(frames)] = Front(@)]
      /\ scopes' = [scopes EXCEPT ![Len(scopes)] = RemoveAt(@, i)]

\* A mark in todo: what a walk_ function does when a statement has returned.
Mark(k, s, left) == [k |-> k, x |-> s.x, es |-> <<>>, body |-> s.body, left |-> left]

At(k) == phase = "run" /\ todo # <<>> /\ Now.k = k

\* The expressions of the statement are evaluated first.
Fails == Missing \in {Eval(Frame, Now.es[i]) : i \in DOMAIN Now.es}

Ready(k) == At(k) /\ ~ Fails

Static == <<rules, derived, phase, steps>>
Kept == UNCHANGED <<rules, derived, phase, steps, frames, scopes>>

walk_let ==
  /\ Ready("let")
  /\ Bind(Now.x, Eval(Frame, Now.es[1]))
  /\ Continue(<<Now.body[1], Mark("let_post", Now, <<>>)>>)
  /\ UNCHANGED Static

visit_let_post ==
  /\ At("let_post")
  /\ Unbind(Now.x)
  /\ Continue(<<>>)
  /\ UNCHANGED Static

\* The elements of the list, the numbers up to an integer, the members of an enum.
walk_forall ==
  /\ Ready("forall")
  /\ \E vs \in SeqOf(Values, MaxRounds) : Continue(<<Mark("forall_next", Now, vs)>>)
  /\ Kept

forall_next ==
  /\ At("forall_next") /\ Now.left # <<>>
  /\ Bind(Now.x, Head(Now.left))
  /\ Continue(<<Now.body[1], Mark("forall_post", Now, Tail(Now.left))>>)
  /\ UNCHANGED Static

forall_post ==
  /\ At("forall_post")
  /\ Unbind(Now.x)
  /\ Continue(<<Mark("forall_next", Now, Now.left)>>)
  /\ UNCHANGED Static

forall_end ==
  /\ At("forall_next") /\ Now.left = <<>>
  /\ Continue(<<>>)
  /\ Kept

walk_pop ==
  /\ At("pop")
  /\ \E v \in Values : Bind(Now.x, v)
  /\ Continue(<<>>)
  /\ UNCHANGED Static

\* if and case: one of the statements, or (without an else or a default) none.
walk_branch ==
  /\ Ready("if") \/ Ready("case")
  /\ \E i \in 0 .. Len(Now.body) : Continue(IF i = 0 THEN <<>> ELSE <<Now.body[i]>>)
  /\ Kept

\* A loop goes on until a round makes no update.
walk_iterate ==
  /\ At("iterate")
  /\ \E n \in 1 .. MaxRounds : Continue([i \in 1 .. n |-> Now.body[1]])
  /\ Kept

walk_statements ==
  /\ At("block")
  /\ Continue(Now.body)
  /\ Kept

\* Updates, assertions, print, push: the expressions are evaluated.
walk_use ==
  /\ Ready("use")
  /\ Continue(<<>>)
  /\ Kept

\* The rule r starts with its arguments as bindings.
Enter(r) ==
  LET vs == [i \in DOMAIN Now.es |-> Eval(Frame, Now.es[i])]
      ms == [i \in DOMAIN Now.es |-> [x |-> rules[r].params[i], v |-> Meaning(Scope, Now.es[i])]]
  IN  /\ Len(frames) < MaxFrames
      /\ frames' = Append(frames, vs)
      /\ scopes' = Append(scopes, ms)
      /\ Continue(<<rules[r].body, Mark("call_post", Now, <<>>)>>)
      /\ UNCHANGED Static

walk_call == Ready("call") /\ Enter(Now.x)

\* The rule is known now.
walk_call_indirect ==
  /\ Ready("callref")
  /\ \E r \in DOMAIN rules : Len(rules[r].params) = Len(Now.es) /\ Enter(r)

\* There is no rule, or it has other parameters.
invalid_indirect_call ==
  /\ Ready("callref")
  /\ phase' = "failed"
  /\ UNCHANGED <<rules, derived, steps, todo, frames, scopes>>

\* Mutant: the bindings of the call stay on the stack.
visit_call_post_keeps == At("call_post") /\ Continue(<<>>) /\ Kept

visit_call_post ==
  /\ At("call_post")
  /\ frames' = Front(frames)
  /\ scopes' = Front(scopes)
  /\ Continue(<<>>)
  /\ UNCHANGED Static

\* std::vector::at throws, and main does not catch it.
out_of_range ==
  /\ phase = "run" /\ todo # <<>> /\ Fails
  /\ phase' = "out_of_range"
  /\ UNCHANGED <<rules, derived, steps, todo, frames, scopes>>

-----------------------------------------------------------------------------

Init ==
  /\ \E p \in Programs : rules = p.rules /\ derived = p.derived
  /\ phase = "check"
  /\ steps = 0
  /\ todo = <<>>
  /\ frames = << <<>> >>
  /\ scopes = << <<>> >>

\* walk_specification of the checker: every rule and derived function on its own.
typecheck ==
  LET rs == [r \in DOMAIN rules |-> Check(PARAM(rules[r].params), rules[r].body)]
      ds == [d \in DOMAIN derived |-> CheckExpr(PARAM(derived[d].params), derived[d].body)]
      whys == {rs[r].b.why : r \in DOMAIN rules} \cup {ds[d].b.why : d \in DOMAIN derived}
  IN  /\ phase = "check"
      /\ phase' = IF whys \subseteq {""} THEN "run" ELSE CHOOSE w \in whys : w # ""
      /\ rules' = [r \in DOMAIN rules |-> [rules[r] EXCEPT !.body = rs[r].s]]
      /\ derived' = [d \in DOMAIN derived |-> [derived[d] EXCEPT !.body = ds[d].e]]
      /\ UNCHANGED <<steps, todo, frames, scopes>>

\* The main loop walks the rule again. main_bindings are left as they are; the
\* names of the step before are not in scope any more.
walk_rule ==
  /\ phase = "run" /\ todo = <<>> /\ steps < MaxSteps
  /\ steps' = steps + 1
  /\ todo' = <<rules["main"].body>>
  /\ scopes' = << <<>> >>
  /\ UNCHANGED <<rules, derived, phase, frames>>

Next ==
  \/ typecheck \/ walk_rule \/ out_of_range
  \/ walk_let \/ visit_let_post \/ walk_forall \/ forall_next \/ forall_post \/ forall_end
  \/ walk_pop \/ walk_branch \/ walk_iterate \/ walk_statements \/ walk_use
  \/ walk_call \/ walk_call_indirect \/ invalid_indirect_call \/ visit_call_post

Spec == Init /\ [][Next]_vars

-----------------------------------------------------------------------------
(* Properties.                                                             *)

\* Whatever is evaluated next, the offsets find what the names were bound to last
\* in this call, and nothing if they were not bound: in whichever order branches,
\* loops, calls and derived functions were gone through, and in every step.
ReadsInnermost ==
  phase = "run" /\ todo # <<>> =>
    \A i \in DOMAIN Now.es : Eval(Frame, Now.es[i]) = Meaning(Scope, Now.es[i])

\* A step leaves no bindings behind for the next one, and a call none for its
\* caller.
NothingLeft == phase = "run" /\ todo = <<>> => frames = << <<>> >>

=============================================================================

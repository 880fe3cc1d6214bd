---------------------------- MODULE SymbolicPaths ----------------------------
(***************************************************************************)
(* Symbolic execution: the interpreter forks its own process at a branch   *)
(* on a symbolic condition. The child takes the branch, the parent waits   *)
(* for it to exit and then takes the alternative, so the processes form a  *)
(* stack of which only the top one runs.                                   *)
(*                                                                         *)
(* A program unfolds to a tree of branches, which is left open here: a     *)
(* process may meet any condition, case or end at any time. Parent and     *)
(* child have separate memories from the fork on.                          *)
(***************************************************************************)
EXTENDS PathCondition, Sequences

CONSTANTS
  Range,       \* the values each symbol may stand for
  Conditions,  \* the conditions of the program's ifs
  Plain,       \* those that test a Boolean symbol itself: `if b`
  Cases,       \* the program's case statements
  Shared,      \* whether a comparison is kept in a variable and tested twice
  MaxMade,     \* bound on the decisions of a path
  MaxNames     \* bound on the length of its name

\* A label of a case statement: a number, or `default`.
CaseLabel == [default : BOOLEAN, num : Int]

ASSUME SymbolicAssumption ==
  /\ Range \in [Sym -> SUBSET Int]
  /\ Conditions \subseteq Condition
  /\ Plain \subseteq {c \in Conditions : c.op = "eq" /\ c.num = 1}
  /\ \A c \in Plain : Range[c.sym] \subseteq {0, 1}
  /\ \A k \in Cases : k.sym \in Sym /\ k.labels \in Seq(CaseLabel) /\ Len(k.labels) <= 10
  /\ Shared \in BOOLEAN
  /\ MaxMade \in Nat /\ MaxNames \in Nat

VARIABLES
  procs,     \* the stack of processes, the root first
  status,    \* how the process that was on top has ended, until it is reaped
  traces,    \* the paths whose trace is written
  dropped    \* the paths given up, by `impossible` or by a crash

svars == <<procs, status, traces, dropped>>

(* A process: the condition objects in its memory (`meant` is the          *)
(* condition the program wrote), path_conditions as references to them,    *)
(* the decisions of its path, and what it does next: "run", "if" (its      *)
(* child has the then branch of the condition object ref), "case" (the     *)
(* case statement, from label n on). made and names are auxiliary; names   *)
(* is path_name.                                                           *)
Process(objs, conds, made, names, at) ==
  [objs |-> objs, conds |-> conds, made |-> made, names |-> names, at |-> at]

Running == [k |-> "run"]

SInit ==
  /\ procs = <<Process(<<>>, <<>>, <<>>, <<>>, Running)>>
  /\ status = "none"
  /\ traces = {}
  /\ dropped = {}

-----------------------------------------------------------------------------
Top == procs[Len(procs)]

\* The process on top is the one that runs, and it is walking statements.
Walks == procs # <<>> /\ status = "none" /\ Top.at.k = "run"

\* The bounds.
Room == Len(Top.made) < MaxMade /\ Len(Top.names) < MaxNames

Known(p) == [i \in DOMAIN p.conds |-> p.objs[p.conds[i]].cond]

Path(p) == [conds |-> Known(p), made |-> p.made, names |-> p.names]

Become(p) == procs' = [procs EXCEPT ![Len(procs)] = p]

Spawn(parent, child) == procs' = Append([procs EXCEPT ![Len(procs)] = parent], child)

\* The process ends: its exit status is there for waitpid.
Exit(code) ==
  /\ procs' = SubSeq(procs, 1, Len(procs) - 1)
  /\ status' = code

\* A letter of path_name, or the number of a case label: one character, for
\* up to ten labels.
Name(c, n) == [c |-> c, n |-> n]

Decision(c, yes, by) == [cond |-> c, yes |-> yes, by |-> by]

\* The objects after the condition of an if has been evaluated, and the one
\* that is tested: a new object, or one the program has kept in a variable.
NewObject(c) == [cond |-> c, meant |-> c]

Evaluations(p) ==
  {[objs |-> Append(p.objs, NewObject(c)), ref |-> Len(p.objs) + 1] : c \in Conditions}
    \cup {[objs |-> p.objs, ref |-> i] :
            i \in {j \in DOMAIN p.objs : Shared /\ p.objs[j].meant \notin Plain}}

-----------------------------------------------------------------------------
(* walk_ifthenelse.                                                        *)

\* The path conditions decide: TRUE takes the then branch, FALSE the else.
if_lookup(e) ==
  /\ Walks /\ Room
  /\ LET o == e.objs[e.ref]
         s == check_condition(Known(Top), o.cond)
     IN  /\ s \in {"TRUE", "FALSE"}
         /\ Become([Top EXCEPT !.objs = e.objs,
                               !.made = Append(@, Decision(o.meant, s = "TRUE", "lookup"))])
  /\ UNCHANGED <<status, traces, dropped>>

\* Mutant: the names of the paths are not extended.
if_fork_unnamed(e) ==
  /\ Walks /\ Room
  /\ LET o == e.objs[e.ref]
     IN  /\ check_condition(Known(Top), o.cond) = "NOT_FOUND"
         /\ Spawn([Top EXCEPT !.objs = e.objs, !.at = [k |-> "if", ref |-> e.ref]],
                  Process(e.objs, Append(Top.conds, e.ref),
                          Append(Top.made, Decision(o.meant, TRUE, "if")),
                          Top.names, Running))
  /\ UNCHANGED <<status, traces, dropped>>

\* Neither is known: fork, and the child takes the then branch.
if_fork(e) ==
  /\ Walks /\ Room
  /\ LET o == e.objs[e.ref]
     IN  /\ check_condition(Known(Top), o.cond) = "NOT_FOUND"
         /\ Spawn([Top EXCEPT !.objs = e.objs, !.at = [k |-> "if", ref |-> e.ref]],
                  Process(e.objs, Append(Top.conds, e.ref),
                          Append(Top.made, Decision(o.meant, TRUE, "if")),
                          Append(Top.names, Name("I", 0)), Running))
  /\ UNCHANGED <<status, traces, dropped>>

\* An exception is thrown: fork() has failed, or `diedie` and its like. main
\* returns EXIT_FAILURE.
throw ==
  /\ Walks
  /\ Exit("failure")
  /\ UNCHANGED <<traces, dropped>>

\* The assert(0) of check_inclusion ends the process by a signal.
if_abort(e) ==
  /\ Walks /\ Room
  /\ check_condition(Known(Top), e.objs[e.ref].cond) = "assert"
  /\ dropped' = dropped \cup {Path(Top)}
  /\ Exit("signal")
  /\ UNCHANGED traces

\* The parent's condition object for the else branch: for a comparison the
\* object of the then branch, inverted in place, for a Boolean symbol a new
\* one (in the place of the deleted one).
Inverted(o) ==
  IF o.meant \in Plain THEN [o EXCEPT !.cond.num = 0]
  ELSE [o EXCEPT !.cond.op = invert(@)]

\* Mutant: the exit status of the child is not looked at.
ChildFailed_ignored == FALSE

\* WEXITSTATUS(status) # 0. It is 0 for a child that a signal has ended.
ChildFailed == status = "failure"

\* The child was reaped.
Reaped == procs # <<>> /\ status # "none" /\ Top.at.k \in {"if", "case"}

\* Mutant: the parent forks again for the else branch, and waits again.
if_else_again ==
  /\ Reaped /\ ~ ChildFailed /\ Top.at.k = "if"
  /\ Spawn(Top, Process(Top.objs, Append(Top.conds, Top.at.ref), Top.made, Top.names, Running))
  /\ status' = "none"
  /\ UNCHANGED <<traces, dropped>>

\* The parent takes the else branch.
if_else ==
  /\ Reaped /\ ~ ChildFailed /\ Top.at.k = "if"
  /\ LET r == Top.at.ref
     IN  Become([Top EXCEPT !.objs[r] = Inverted(@),
                            !.conds = Append(@, r),
                            !.made = Append(@, Decision(Top.objs[r].meant, FALSE, "if")),
                            !.names = Append(@, Name("E", 0)),
                            !.at = Running])
  /\ status' = "none"
  /\ UNCHANGED <<traces, dropped>>

\* "error in child process", in walk_ifthenelse and in walk_case.
child_failed ==
  /\ Reaped /\ ChildFailed
  /\ Exit("failure")
  /\ UNCHANGED <<traces, dropped>>

-----------------------------------------------------------------------------
(* walk_case, for a symbolic value: one child per label.                   *)

case_begin(k) ==
  /\ Walks /\ Room
  /\ Become([Top EXCEPT !.at = [k |-> "case", of |-> k, n |-> 1]])
  /\ UNCHANGED <<status, traces, dropped>>

\* In a case, with a label left to look at; the child before it has exited.
AtLabel ==
  /\ procs # <<>> /\ Top.at.k = "case"
  /\ status # "none" => ~ ChildFailed
  /\ Top.at.n <= Len(Top.at.of.labels)

Label == Top.at.of.labels[Top.at.n]
LabelCond == [sym |-> Top.at.of.sym, op |-> "eq", num |-> Label.num, flip |-> FALSE]
NextLabel == [Top EXCEPT !.at.n = @ + 1]

\* The path conditions say that this is the value: walked without a fork.
case_lookup ==
  /\ AtLabel /\ ~ Label.default
  /\ check_condition(Known(Top), LabelCond) = "TRUE"
  /\ Become([Top EXCEPT !.at = Running,
                        !.made = Append(@, Decision(LabelCond, TRUE, "lookup"))])
  /\ status' = "none"
  /\ UNCHANGED <<traces, dropped>>

\* A child for the label. That the path conditions exclude it is ignored.
case_fork ==
  /\ AtLabel /\ ~ Label.default
  /\ check_condition(Known(Top), LabelCond) # "TRUE"
  /\ Spawn(NextLabel,
           Process(Append(Top.objs, NewObject(LabelCond)),
                   Append(Top.conds, Len(Top.objs) + 1),
                   Append(Top.made, Decision(LabelCond, TRUE, "case")),
                   Append(Top.names, Name("", Top.at.n)), Running))
  /\ status' = "none"
  /\ UNCHANGED <<traces, dropped>>

\* A child for the default, under the conditions of the parent.
case_default ==
  /\ AtLabel /\ Label.default
  /\ Spawn(NextLabel, [Top EXCEPT !.names = Append(@, Name("D", 0)), !.at = Running])
  /\ status' = "none"
  /\ UNCHANGED <<traces, dropped>>

\* fork() fails.
case_fork_failed ==
  /\ AtLabel
  /\ ~ Label.default => check_condition(Known(Top), LabelCond) # "TRUE"
  /\ Exit("failure")
  /\ UNCHANGED <<traces, dropped>>

\* All labels have had their child: exit(0), without a trace.
case_exit ==
  /\ procs # <<>> /\ Top.at.k = "case"
  /\ status # "none" => ~ ChildFailed
  /\ Top.at.n > Len(Top.at.of.labels)
  /\ Exit("success")
  /\ UNCHANGED <<traces, dropped>>

-----------------------------------------------------------------------------
(* The ends of a path.                                                     *)

\* program(self) is undef: run() writes the trace and main returns.
finish ==
  /\ Walks
  /\ traces' = traces \cup {Path(Top)}
  /\ Exit("success")
  /\ UNCHANGED dropped

\* ImpossibleException: main returns EXIT_SUCCESS, nothing is written.
impossible ==
  /\ Walks
  /\ dropped' = dropped \cup {Path(Top)}
  /\ Exit("success")
  /\ UNCHANGED traces

\* The root process has ended.
ended == procs = <<>> /\ UNCHANGED svars

SNext ==
  \/ procs # <<>> /\ \E e \in Evaluations(Top) : if_lookup(e) \/ if_fork(e) \/ if_abort(e)
  \/ throw \/ if_else \/ child_failed
  \/ \E k \in Cases : case_begin(k)
  \/ case_lookup \/ case_fork \/ case_default \/ case_fork_failed \/ case_exit
  \/ finish \/ impossible \/ ended

SSpec == SInit /\ [][SNext]_svars

\* One process is always ready to run, and the scheduler runs it.
SFairSpec == SSpec /\ WF_svars(SNext)

-----------------------------------------------------------------------------
(* Properties.                                                             *)

Valuations == {v \in [Sym -> UNION {Range[s] : s \in Sym}] : \A s \in Sym : v[s] \in Range[s]}

Satisfies(v, conds) == \A i \in DOMAIN conds : HoldsFor(conds[i], v[conds[i].sym])

\* Every decision of a path follows from its path conditions: for all inputs
\* that satisfy them, concrete execution takes the same branches. (Lookups
\* push nothing, execution_visitor.cpp:529-542.)
DecisionsFollow ==
  \A n \in DOMAIN procs : LET p == Path(procs[n]) IN \A v \in Valuations :
    Satisfies(v, p.conds) =>
      \A i \in DOMAIN p.made :
        HoldsFor(p.made[i].cond, v[p.made[i].cond.sym]) = p.made[i].yes

\* No input is lost: if the root ends with success, every valuation of the
\* symbols satisfies the conditions of a path that was walked to its end, to an
\* `impossible` or into the crash of if_abort, which nobody reports.
InputsCovered ==
  procs = <<>> /\ status = "success" =>
    \A v \in Valuations : \E p \in traces \cup dropped : Satisfies(v, p.conds)

\* The default branch of a case is on the path: it is walked under the
\* conditions of the case alone.
Defaulted(p) == \E i \in DOMAIN p.names : p.names[i].c = "D"

\* When the root has ended, no input is on two paths, but for the default
\* branches.
PathsDisjoint ==
  procs = <<>> =>
    \A p, q \in {r \in traces : ~ Defaulted(r)} :
      p # q => \A v \in Valuations : ~ (Satisfies(v, p.conds) /\ Satisfies(v, q.conds))

\* Some input takes the path.
Feasible(p) == \E v \in Valuations : Satisfies(v, p.conds)

\* path_name names the trace file (execution_visitor.cpp:1023): a trace that
\* some input takes is not overwritten by a later one. Names alone are not
\* unique: once a lookup has ended a case, the path goes on under the name its
\* labels have extended, and an infeasible label or a default can come again.
TracesKept ==
  [][\A q \in traces, p \in traces' \ traces :
       Feasible(q) /\ ~ Defaulted(q) => p.names # q.names]_svars

\* A failure is not forgotten: once a process has ended by an exception all its
\* ancestors do, one after the other, and no further trace is written
\* (the `WEXITSTATUS(status) != 0` checks).
FailureStops == [][status = "failure" => status' = "failure" /\ traces' = traces]_svars

\* The very same decision is not forked on again (the comment in
\* tests/integration/symbolic/dont_fork_on_equal_pathcondition.casm:4-6). The
\* comment means any decision; a `>` is the exception here, because a known x > n
\* does not answer x > n (symbolic.cpp:248).
IfLookedUp ==
  \A n \in DOMAIN procs : LET made == procs[n].made IN
    \A i, j \in DOMAIN made :
      i < j /\ made[i].cond = made[j].cond /\ made[i].cond.op # "gt" => made[j].by # "if"

\* Every process is reaped and the root ends.
Ends == <>(procs = <<>>)

-----------------------------------------------------------------------------
(* The programs these properties hold of.                                  *)

ElseCond(c) == IF c \in Plain THEN [c EXCEPT !.num = 0] ELSE [c EXCEPT !.op = invert(@)]

LabelConds ==
  UNION {{[sym |-> k.sym, op |-> "eq", num |-> k.labels[i].num, flip |-> FALSE] :
            i \in DOMAIN k.labels} : k \in Cases}

\* What a path tests and what it may have learned before.
Tested == Conditions \cup LabelConds
Learned == Tested \cup {ElseCond(c) : c \in Conditions}

\* Lookups can be trusted.
Trusted == \A k \in Learned, c \in Tested : k.sym = c.sym => Comparable(k, c)

\* Every value has a label. A case that has none for it is left by exit(0).
Exhaustive ==
  \A k \in Cases : \A x \in Range[k.sym] : \E i \in DOMAIN k.labels :
    k.labels[i].default \/ k.labels[i].num = x

\* No label comes twice; visit_case refuses a second default only.
DistinctLabels ==
  \A k \in Cases : \A i, j \in DOMAIN k.labels :
    /\ ~ k.labels[i].default /\ ~ k.labels[j].default
    /\ k.labels[i].num = k.labels[j].num
    => i = j

=============================================================================

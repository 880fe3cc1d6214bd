------------------------- MODULE SymbolicPathsProofs -------------------------
(***************************************************************************)
(* Symbolic execution, for programs that keep no comparison in a variable: *)
(* every path takes the branches its conditions imply, the paths cover the *)
(* inputs and keep out of each other's way, and no decision is forked on   *)
(* twice, for any number of conditions, cases, processes and values.       *)
(***************************************************************************)
EXTENDS SymbolicPaths, PathConditionProofs

-----------------------------------------------------------------------------
(* A failure.                                                              *)

\* A failure is not forgotten (the WEXITSTATUS checks of walk_ifthenelse and
\* walk_case), whatever the conditions and with shared ones too.
THEOREM FailuresStop == SSpec => FailureStops
<1>1. ASSUME [SNext]_svars, status = "failure"
      PROVE  status' = "failure" /\ traces' = traces
  <2>1. ~ Walks /\ ~ AtLabel /\ ChildFailed
    BY <1>1 DEF Walks, AtLabel, ChildFailed
  <2>2. CASE child_failed \/ ended \/ UNCHANGED svars
    BY <1>1, <2>2 DEF child_failed, Exit, ended, svars
  <2> QED
    BY <1>1, <2>1, <2>2
    DEF SNext, if_lookup, if_fork, if_abort, throw, if_else, case_begin, case_lookup,
        case_fork, case_default, case_fork_failed, case_exit, finish, impossible
<1> QED
  BY <1>1, PTL DEF SSpec, FailureStops

-----------------------------------------------------------------------------
(* Processes.                                                              *)

Object == [cond : Condition, meant : Condition]
Made == [cond : Condition, yes : BOOLEAN, by : {"lookup", "if", "case"}]
Letter == [c : {"I", "E", "D", ""}, n : Nat]
AtIf == [k : {"if"}, ref : Nat]
AtCase == [k : {"case"}, of : Cases, n : Nat \ {0}]

Proc == [objs : Seq(Object), conds : Seq(Nat), made : Seq(Made), names : Seq(Letter),
         at : {Running} \cup AtIf \cup AtCase]

\* The condition object of the if a process waits in, and what it means.
Awaited(p) == p.objs[p.at.ref].meant

\* Path conditions refer to objects of the process's own memory, and the one of
\* the if it waits in is not yet among them: it can be inverted in place.
Sane ==
  {p \in Proc :
     /\ \A i \in DOMAIN p.objs : p.objs[i].cond \in Learned
     /\ \A i \in DOMAIN p.conds : p.conds[i] \in DOMAIN p.objs
     /\ p.at.k = "if" =>
          /\ p.at.ref \in DOMAIN p.objs
          /\ p.objs[p.at.ref].cond = Awaited(p) /\ Awaited(p) \in Conditions
          /\ \A i \in DOMAIN p.conds : p.conds[i] # p.at.ref}

\* The fields of a process.
LEMMA Fields ==
  ASSUME NEW p \in Proc
  PROVE  /\ p.objs \in Seq(Object) /\ p.conds \in Seq(Nat) /\ p.made \in Seq(Made)
         /\ p.names \in Seq(Letter) /\ p.at \in {Running} \cup AtIf \cup AtCase
         /\ p = [objs |-> p.objs, conds |-> p.conds, made |-> p.made, names |-> p.names,
                 at |-> p.at]
  BY DEF Proc

\* An element more.
LEMMA AppendIn ==
  ASSUME NEW S, NEW s \in Seq(S), NEW x \in S
  PROVE  Append(s, x) \in Seq(S)
  OBVIOUS

\* A running process waits for no condition.
LEMMA RunningSane ==
  ASSUME NEW p \in Proc, p.at = Running,
         \A i \in DOMAIN p.objs : p.objs[i].cond \in Learned,
         \A i \in DOMAIN p.conds : p.conds[i] \in DOMAIN p.objs
  PROVE  p \in Sane
<1>1. p.at.k # "if"
  BY DEF Running
<1> QED
  BY <1>1 DEF Sane

\* A reference more.
LEMMA PushRef ==
  ASSUME NEW conds \in Seq(Nat), NEW r \in Nat, NEW D,
         \A i \in DOMAIN conds : conds[i] \in D, r \in D
  PROVE  \A i \in DOMAIN Append(conds, r) : Append(conds, r)[i] \in D
<1>1. /\ DOMAIN Append(conds, r) = 1 .. Len(conds) + 1 /\ DOMAIN conds = 1 .. Len(conds)
      /\ Append(conds, r)[Len(conds) + 1] = r /\ Len(conds) \in Nat
      /\ \A i \in 1 .. Len(conds) : Append(conds, r)[i] = conds[i]
  OBVIOUS
<1>2. \A i \in DOMAIN Append(conds, r) : i \in DOMAIN conds \/ i = Len(conds) + 1
  BY <1>1
<1> QED
  BY <1>1, <1>2

\* The conditions of the program are conditions.
LEMMA LearnedConditions ==
  /\ Tested \subseteq Condition /\ Tested \subseteq Learned
  /\ Learned \subseteq Condition
  /\ \A c \in Conditions : ElseCond(c) \in Learned
<1>1. Conditions \subseteq Condition
  BY SymbolicAssumption
<1>2. LabelConds \subseteq Condition
  <2>1. ASSUME NEW k \in Cases, NEW i \in DOMAIN k.labels
        PROVE  [sym |-> k.sym, op |-> "eq", num |-> k.labels[i].num, flip |-> FALSE] \in Condition
    <3>1. k.sym \in Sym /\ k.labels \in Seq(CaseLabel)
      BY SymbolicAssumption
    <3>2. k.labels[i] \in CaseLabel
      BY <3>1
    <3> QED
      BY <3>1, <3>2 DEF CaseLabel, Condition, Op
  <2> QED
    BY <2>1 DEF LabelConds
<1>3. ASSUME NEW c \in Condition
      PROVE  ElseCond(c) \in Condition
  BY DEF ElseCond, Condition, Op, invert
<1> QED
  BY <1>1, <1>2, <1>3 DEF Tested, Learned

\* The path conditions of a process are among those of the program.
LEMMA KnownFacts ==
  ASSUME NEW p \in Sane
  PROVE  /\ Known(p) \in Seq(Condition) /\ Len(Known(p)) = Len(p.conds)
         /\ \A i \in DOMAIN Known(p) : Known(p)[i] \in Learned
<1>1. p.conds \in Seq(Nat) /\ DOMAIN p.conds = 1 .. Len(p.conds) /\ Len(p.conds) \in Nat
  BY DEF Sane, Proc
<1>2. \A i \in DOMAIN p.conds : p.objs[p.conds[i]].cond \in Learned
  BY DEF Sane
<1>3. Known(p) = [i \in 1 .. Len(p.conds) |-> p.objs[p.conds[i]].cond]
  BY <1>1 DEF Known
<1>4. \A i \in 1 .. Len(p.conds) : Known(p)[i] \in Learned /\ Known(p)[i] \in Condition
  BY <1>1, <1>2, <1>3, LearnedConditions
<1>5. Known(p) \in [1 .. Len(p.conds) -> Condition]
  BY <1>3, <1>4
<1>6. Known(p) \in Seq(Condition) /\ Len(Known(p)) = Len(p.conds)
  BY <1>1, <1>5
<1> QED
  BY <1>1, <1>3, <1>4, <1>6

\* Objects added, or changed out of reach of the path conditions, do not count.
LEMMA KnownSame ==
  ASSUME NEW p \in Sane, NEW q \in Sane, q.conds = p.conds,
         \A i \in DOMAIN p.conds : q.objs[p.conds[i]].cond = p.objs[p.conds[i]].cond
  PROVE  Known(q) = Known(p)
  BY DEF Known

\* A path condition is added.
LEMMA KnownPush ==
  ASSUME NEW p \in Sane, NEW q \in Sane, NEW r, q.conds = Append(p.conds, r),
         \A i \in DOMAIN p.conds : q.objs[p.conds[i]].cond = p.objs[p.conds[i]].cond
  PROVE  Known(q) = Append(Known(p), q.objs[r].cond)
<1>1. p.conds \in Seq(Nat) /\ DOMAIN p.conds = 1 .. Len(p.conds) /\ Len(p.conds) \in Nat
  BY DEF Sane, Proc
<1>2. /\ DOMAIN q.conds = 1 .. Len(p.conds) + 1
      /\ q.conds[Len(p.conds) + 1] = r
      /\ \A i \in 1 .. Len(p.conds) : q.conds[i] = p.conds[i]
  BY <1>1
<1>3. Known(p) \in Seq(Condition) /\ Len(Known(p)) = Len(p.conds)
  BY KnownFacts
<1>4. Known(q) \in Seq(Condition) /\ Len(Known(q)) = Len(p.conds) + 1
  <2>1. q.conds \in Seq(Nat) /\ Len(q.conds) = Len(p.conds) + 1
    <3>1. q.conds \in Seq(Nat)
      BY DEF Sane, Proc
    <3> QED
      BY <1>1, <1>2, <3>1
  <2> QED
    BY <2>1, KnownFacts
<1>5. ASSUME NEW i \in 1 .. Len(p.conds)
      PROVE  Known(q)[i] = Known(p)[i]
  BY <1>1, <1>2 DEF Known
<1>6. Known(q)[Len(p.conds) + 1] = q.objs[r].cond
  BY <1>1, <1>2 DEF Known
<1> DEFINE a == Append(Known(p), q.objs[r].cond)
<1>7. /\ Len(a) = Len(p.conds) + 1 /\ a[Len(p.conds) + 1] = q.objs[r].cond
      /\ \A i \in 1 .. Len(p.conds) : a[i] = Known(p)[i]
      /\ DOMAIN a = 1 .. Len(p.conds) + 1 /\ a = [i \in 1 .. Len(p.conds) + 1 |-> a[i]]
  BY <1>1, <1>3
<1>8. Known(q) = [i \in 1 .. Len(p.conds) + 1 |-> Known(q)[i]]
  BY <1>1, <1>4
<1>9. \A i \in 1 .. Len(p.conds) + 1 : Known(q)[i] = a[i]
  BY <1>1, <1>5, <1>6, <1>7
<1> HIDE DEF a
<1>10. Known(q) = a
  BY <1>7, <1>8, <1>9
<1> QED
  BY <1>10 DEF a

-----------------------------------------------------------------------------
(* What a step does to the process on top, in terms of its path conditions *)
(* alone: where the condition objects lie no longer matters.               *)

\* The label a case looks at.
LabelOf(t) == t.at.of.labels[t.at.n]
CondOf(t) == [sym |-> t.at.of.sym, op |-> "eq", num |-> LabelOf(t).num, flip |-> FALSE]
InCase(t) == t.at.k = "case" /\ t.at \in AtCase
LabelLeft(t) == InCase(t) /\ t.at.n \in DOMAIN t.at.of.labels

\* t becomes u by a lookup, in an if or in a case,
LookedUp(t, u) ==
  \E c \in Tested, yes \in BOOLEAN :
    /\ check_condition(Known(t), c) = IF yes THEN "TRUE" ELSE "FALSE"
    /\ Known(u) = Known(t) /\ u.names = t.names
    /\ u.made = Append(t.made, Decision(c, yes, "lookup"))
    /\ u.at = Running
    /\ \/ t.at = Running
       \/ LabelLeft(t) /\ ~ LabelOf(t).default /\ c = CondOf(t) /\ yes

\* by taking the else branch,
TookElse(t, u) ==
  /\ t.at.k = "if" /\ Awaited(t) \in Conditions
  /\ Known(u) = Append(Known(t), ElseCond(Awaited(t)))
  /\ u.names = Append(t.names, Name("E", 0))
  /\ u.made = Append(t.made, Decision(Awaited(t), FALSE, "if"))
  /\ u.at = Running

\* by beginning a case,
Began(t, u) ==
  /\ t.at = Running
  /\ Known(u) = Known(t) /\ u.names = t.names /\ u.made = t.made
  /\ InCase(u) /\ u.at.n = 1

\* or by waiting for a child w: that of an if,
SplitIf(t, u, w) ==
  \E c \in Conditions :
    /\ check_condition(Known(t), c) = "NOT_FOUND"
    /\ t.at = Running
    /\ Known(u) = Known(t) /\ u.names = t.names /\ u.made = t.made
    /\ u.at.k = "if" /\ Awaited(u) = c
    /\ Known(w) = Append(Known(t), c)
    /\ w.names = Append(t.names, Name("I", 0))
    /\ w.made = Append(t.made, Decision(c, TRUE, "if"))
    /\ w.at = Running

\* of a label of a case,
NextAt(t, u) ==
  /\ LabelLeft(t) /\ InCase(u) /\ u.at.of = t.at.of /\ u.at.n = t.at.n + 1
  /\ Known(u) = Known(t) /\ u.names = t.names /\ u.made = t.made

SplitLabel(t, u, w) ==
  /\ NextAt(t, u) /\ ~ LabelOf(t).default
  /\ Known(w) = Append(Known(t), CondOf(t))
  /\ w.names = Append(t.names, Name("", t.at.n))
  /\ w.made = Append(t.made, Decision(CondOf(t), TRUE, "case"))
  /\ w.at = Running

\* or of the default.
SplitDefault(t, u, w) ==
  /\ NextAt(t, u) /\ LabelOf(t).default
  /\ Known(w) = Known(t)
  /\ w.names = Append(t.names, Name("D", 0))
  /\ w.made = t.made
  /\ w.at = Running

\* The steps of the machine: the process on top goes on,
GoesOn(t, u) ==
  /\ procs # <<>> /\ t = Top /\ u \in Sane
  /\ Become(u) /\ status # "failure" /\ status' = "none" /\ UNCHANGED <<traces, dropped>>
  /\ LookedUp(t, u) \/ TookElse(t, u) \/ Began(t, u)

\* or forks,
Forks(t, u, w) ==
  /\ procs # <<>> /\ t = Top /\ u \in Sane /\ w \in Sane
  /\ Spawn(u, w) /\ status # "failure" /\ status' = "none" /\ UNCHANGED <<traces, dropped>>
  /\ SplitIf(t, u, w) \/ SplitLabel(t, u, w) \/ SplitDefault(t, u, w)

\* or ends: by an exception, at the end of its path, at the end of a case.
Ended(t) ==
  /\ procs # <<>> /\ t = Top
  /\ procs' = SubSeq(procs, 1, Len(procs) - 1)
  /\ \/ status' = "failure" /\ UNCHANGED <<traces, dropped>>
     \/ /\ t.at = Running /\ status' # "failure" /\ status # "failure"
        /\ \/ traces' = traces \cup {Path(t)} /\ dropped' = dropped
           \/ dropped' = dropped \cup {Path(t)} /\ traces' = traces
     \/ /\ InCase(t) /\ t.at.n > Len(t.at.of.labels)
        /\ status # "failure" /\ UNCHANGED <<traces, dropped>>

\* A process of the stack.
LEMMA TopSane ==
  ASSUME procs \in Seq(Sane), procs # <<>>
  PROVE  /\ Len(procs) \in Nat /\ Len(procs) > 0 /\ Top \in Sane /\ Top \in Proc
         /\ Top.at \in {Running} \cup AtIf \cup AtCase
         /\ Top.at.k = "run" => Top.at = Running
         /\ Top.at.k = "case" => InCase(Top)
<1>1. Len(procs) \in Nat /\ Len(procs) > 0 /\ Top \in Sane
  BY DEF Top
<1>2. Top \in Proc /\ Top.at \in {Running} \cup AtIf \cup AtCase
  BY <1>1 DEF Sane, Proc
<1>3. Running.k = "run"
  BY DEF Running
<1> QED
  BY <1>1, <1>2, <1>3 DEF AtIf, AtCase, InCase

\* The condition of an if is evaluated into an object of its own.
LEMMA EvaluationFacts ==
  ASSUME ~ Shared, NEW t \in Sane, NEW e \in Evaluations(t)
  PROVE  \E c \in Conditions :
           /\ e.objs = Append(t.objs, NewObject(c)) /\ e.ref = Len(t.objs) + 1
           /\ e.objs \in Seq(Object) /\ Len(e.objs) = Len(t.objs) + 1 /\ Len(t.objs) \in Nat
           /\ e.objs[e.ref].cond = c /\ e.objs[e.ref].meant = c
           /\ \A i \in DOMAIN t.objs : e.objs[i] = t.objs[i]
           /\ \A i \in DOMAIN e.objs : e.objs[i].cond \in Learned
           /\ \A i \in DOMAIN t.conds : t.conds[i] \in DOMAIN e.objs /\ t.conds[i] # e.ref
                                        /\ e.objs[t.conds[i]].cond = t.objs[t.conds[i]].cond
<1>1. PICK c \in Conditions : e = [objs |-> Append(t.objs, NewObject(c)), ref |-> Len(t.objs) + 1]
  BY DEF Evaluations
<1>2. NewObject(c) \in Object /\ NewObject(c).cond = c /\ NewObject(c).meant = c /\ c \in Learned
  BY LearnedConditions, SymbolicAssumption DEF NewObject, Object, Tested
<1>3. t.objs \in Seq(Object) /\ \A i \in DOMAIN t.objs : t.objs[i].cond \in Learned
  BY DEF Sane, Proc
<1>4. \A i \in DOMAIN t.conds : t.conds[i] \in DOMAIN t.objs
  BY DEF Sane
<1> DEFINE o == Append(t.objs, NewObject(c))
<1>5. /\ o \in Seq(Object) /\ Len(o) = Len(t.objs) + 1 /\ Len(t.objs) \in Nat
      /\ DOMAIN o = 1 .. Len(t.objs) + 1 /\ DOMAIN t.objs = 1 .. Len(t.objs)
      /\ o[Len(t.objs) + 1] = NewObject(c)
      /\ \A i \in 1 .. Len(t.objs) : o[i] = t.objs[i]
  BY <1>2, <1>3
<1>6. e.objs = o /\ e.ref = Len(t.objs) + 1
  BY <1>1
<1> HIDE DEF o
<1>7. \A i \in DOMAIN o : o[i].cond \in Learned
  BY <1>2, <1>3, <1>5
<1>8. \A i \in DOMAIN t.conds : t.conds[i] \in DOMAIN o /\ t.conds[i] # Len(t.objs) + 1
                                /\ o[t.conds[i]].cond = t.objs[t.conds[i]].cond
  BY <1>4, <1>5
<1>9. e.objs = Append(t.objs, NewObject(c))
  BY <1>1
<1> QED
  BY <1>2, <1>5, <1>6, <1>7, <1>8, <1>9

\* if_lookup: the process goes on.
LEMMA LookupStep ==
  ASSUME ~ Shared, procs \in Seq(Sane), procs # <<>>, NEW e \in Evaluations(Top), if_lookup(e)
  PROVE  \E u : GoesOn(Top, u)
<1> DEFINE t == Top
<1>1. t \in Sane /\ t \in Proc /\ (t.at.k = "run" => t.at = Running)
  BY TopSane
<1>2. PICK c \in Conditions :
         /\ e.objs \in Seq(Object) /\ e.objs[e.ref].cond = c /\ e.objs[e.ref].meant = c
         /\ \A i \in DOMAIN e.objs : e.objs[i].cond \in Learned
         /\ \A i \in DOMAIN t.conds : t.conds[i] \in DOMAIN e.objs
                                      /\ e.objs[t.conds[i]].cond = t.objs[t.conds[i]].cond
  BY <1>1, EvaluationFacts
<1> DEFINE yes == check_condition(Known(t), c) = "TRUE"
           u == [t EXCEPT !.objs = e.objs, !.made = Append(@, Decision(c, yes, "lookup"))]
<1>3. /\ Walks /\ check_condition(Known(t), c) \in {"TRUE", "FALSE"}
      /\ Become(u) /\ UNCHANGED <<status, traces, dropped>>
  BY <1>2 DEF if_lookup
<1>4. t.at = Running /\ status = "none"
  BY <1>1, <1>3 DEF Walks
<1>5. Decision(c, yes, "lookup") \in Made /\ c \in Tested /\ yes \in BOOLEAN
  BY LearnedConditions DEF Made, Decision, Tested
<1>6. t.made \in Seq(Made) /\ Append(t.made, Decision(c, yes, "lookup")) \in Seq(Made)
  BY <1>1, <1>5 DEF Proc
<1>7. /\ u.objs = e.objs /\ u.conds = t.conds /\ u.names = t.names /\ u.at = t.at
      /\ u.made = Append(t.made, Decision(c, yes, "lookup")) /\ u \in Proc
  BY <1>1, <1>2, <1>6 DEF Proc
<1> HIDE DEF u, yes
<1>8. u \in Sane
  BY <1>2, <1>4, <1>7 DEF Sane, Running
<1>9. Known(u) = Known(t)
  BY <1>1, <1>2, <1>7, <1>8, KnownSame
<1>10. check_condition(Known(t), c) = IF yes THEN "TRUE" ELSE "FALSE"
  BY <1>3 DEF yes
<1>11. LookedUp(t, u)
  BY <1>4, <1>5, <1>7, <1>9, <1>10 DEF LookedUp
<1>12. status # "failure" /\ status' = "none" /\ t = Top
  BY <1>3, <1>4
<1> HIDE DEF t
<1> QED
  BY <1>3, <1>8, <1>11, <1>12 DEF GoesOn

\* if_fork: the child has the condition, the parent waits with its object.
LEMMA ForkIfStep ==
  ASSUME ~ Shared, procs \in Seq(Sane), procs # <<>>, NEW e \in Evaluations(Top), if_fork(e)
  PROVE  \E u, w : Forks(Top, u, w)
<1> DEFINE t == Top
<1>1. t \in Sane /\ t \in Proc /\ (t.at.k = "run" => t.at = Running)
  BY TopSane
<1>2. PICK c \in Conditions :
         /\ e.objs \in Seq(Object) /\ e.objs[e.ref].cond = c /\ e.objs[e.ref].meant = c
         /\ e.ref = Len(t.objs) + 1 /\ Len(t.objs) \in Nat /\ Len(e.objs) = Len(t.objs) + 1
         /\ \A i \in DOMAIN e.objs : e.objs[i].cond \in Learned
         /\ \A i \in DOMAIN t.conds : t.conds[i] \in DOMAIN e.objs /\ t.conds[i] # e.ref
                                      /\ e.objs[t.conds[i]].cond = t.objs[t.conds[i]].cond
  BY <1>1, EvaluationFacts
<1> DEFINE u == [t EXCEPT !.objs = e.objs, !.at = [k |-> "if", ref |-> e.ref]]
           w == Process(e.objs, Append(t.conds, e.ref),
                        Append(t.made, Decision(c, TRUE, "if")),
                        Append(t.names, Name("I", 0)), Running)
<1>3. /\ Walks /\ check_condition(Known(t), c) = "NOT_FOUND"
      /\ Spawn(u, w) /\ UNCHANGED <<status, traces, dropped>>
  BY <1>2 DEF if_fork
<1>4. t.at = Running /\ status = "none"
  BY <1>1, <1>3 DEF Walks
<1>5. Decision(c, TRUE, "if") \in Made /\ Name("I", 0) \in Letter
  BY LearnedConditions DEF Made, Decision, Tested, Letter, Name
<1>6. /\ t.made \in Seq(Made) /\ Append(t.made, Decision(c, TRUE, "if")) \in Seq(Made)
      /\ t.names \in Seq(Letter) /\ Append(t.names, Name("I", 0)) \in Seq(Letter)
      /\ t.conds \in Seq(Nat) /\ Append(t.conds, e.ref) \in Seq(Nat)
      /\ e.ref \in Nat /\ e.ref \in DOMAIN e.objs
  <2>1. e.ref \in Nat /\ e.ref \in DOMAIN e.objs
    BY <1>2
  <2> QED
    <3>1. t.made \in Seq(Made) /\ t.names \in Seq(Letter) /\ t.conds \in Seq(Nat)
      BY <1>1, Fields
    <3> HIDE DEF t, u, w
    <3> QED
      BY <1>5, <2>1, <3>1, AppendIn
<1>7. /\ u.objs = e.objs /\ u.conds = t.conds /\ u.names = t.names /\ u.made = t.made
      /\ u.at = [k |-> "if", ref |-> e.ref] /\ u \in Proc
  BY <1>1, <1>2, <1>6 DEF Proc, AtIf
<1>8. /\ w.objs = e.objs /\ w.conds = Append(t.conds, e.ref) /\ w.at = Running
      /\ w.made = Append(t.made, Decision(c, TRUE, "if"))
      /\ w.names = Append(t.names, Name("I", 0)) /\ w \in Proc
  BY <1>2, <1>6 DEF Proc, Process
<1> HIDE DEF u, w
<1>9. u.at.k = "if" /\ u.at.ref = e.ref /\ Awaited(u) = c
  BY <1>2, <1>7 DEF Awaited
<1>10. u \in Sane
  BY <1>2, <1>6, <1>7, <1>9 DEF Sane
<1>11. w \in Sane
  <2>1. t.conds \in Seq(Nat)
    BY <1>1, Fields
  <2>2. \A i \in DOMAIN w.conds : w.conds[i] \in DOMAIN e.objs
    BY <1>2, <1>6, <1>8, <2>1, PushRef
  <2> QED
    BY <1>2, <1>8, <2>2, RunningSane
<1>12. Known(u) = Known(t)
  BY <1>1, <1>2, <1>7, <1>10, KnownSame
<1>13. Known(w) = Append(Known(t), c)
  <2>1. \A i \in DOMAIN t.conds : w.objs[t.conds[i]].cond = t.objs[t.conds[i]].cond
    BY <1>2, <1>8
  <2>2. Known(w) = Append(Known(t), w.objs[e.ref].cond)
    BY <1>1, <1>8, <1>11, <2>1, KnownPush
  <2> QED
    BY <1>2, <1>8, <2>2
<1>14. SplitIf(t, u, w)
  BY <1>3, <1>4, <1>7, <1>8, <1>9, <1>12, <1>13 DEF SplitIf
<1>15. status # "failure" /\ status' = "none" /\ t = Top
  BY <1>3, <1>4
<1> HIDE DEF t
<1> QED
  BY <1>3, <1>10, <1>11, <1>14, <1>15 DEF Forks

\* if_else: the object is inverted, which no path condition has seen so far.
LEMMA ElseStep ==
  ASSUME procs \in Seq(Sane), if_else
  PROVE  \E u : GoesOn(Top, u)
<1> DEFINE t == Top
           r == t.at.ref
           o == t.objs[r]
           new == Inverted(o)
           u == [t EXCEPT !.objs[r] = Inverted(@), !.conds = Append(@, r),
                          !.made = Append(@, Decision(t.objs[r].meant, FALSE, "if")),
                          !.names = Append(@, Name("E", 0)), !.at = Running]
<1>1. /\ procs # <<>> /\ status # "failure" /\ t.at.k = "if" /\ Become(u)
      /\ status' = "none" /\ UNCHANGED <<traces, dropped>>
  BY DEF if_else, Reaped, ChildFailed
<1>2. t \in Sane /\ t \in Proc
  BY <1>1, TopSane
<1>3. /\ r \in DOMAIN t.objs /\ o.cond = Awaited(t) /\ o.meant = Awaited(t)
      /\ Awaited(t) \in Conditions
      /\ \A i \in DOMAIN t.conds : t.conds[i] # r /\ t.conds[i] \in DOMAIN t.objs
      /\ \A i \in DOMAIN t.objs : t.objs[i].cond \in Learned
  BY <1>1, <1>2 DEF Sane, Awaited
<1>4. t.objs \in Seq(Object) /\ o \in Object /\ r \in Nat
  BY <1>2, <1>3 DEF Proc
<1>5. new.cond = ElseCond(Awaited(t)) /\ new.meant = o.meant /\ new \in Object
  <2>1. o.cond \in Condition /\ o.meant \in Condition /\ o = [cond |-> o.cond, meant |-> o.meant]
    BY <1>4 DEF Object
  <2>2. new = [cond |-> ElseCond(Awaited(t)), meant |-> o.meant]
    <3>1. [o EXCEPT !.cond.num = 0] = [cond |-> [o.cond EXCEPT !.num = 0], meant |-> o.meant]
      BY <2>1
    <3>2. [o EXCEPT !.cond.op = invert(@)] =
            [cond |-> [o.cond EXCEPT !.op = invert(@)], meant |-> o.meant]
      BY <2>1
    <3> QED
      BY <1>3, <3>1, <3>2 DEF Inverted, ElseCond
  <2>3. ElseCond(Awaited(t)) \in Condition
    BY <1>3, LearnedConditions
  <2> QED
    BY <2>1, <2>2, <2>3 DEF Object
<1> DEFINE objs == [t.objs EXCEPT ![r] = new]
<1>6. objs \in Seq(Object) /\ DOMAIN objs = DOMAIN t.objs /\ objs[r] = new
      /\ \A i \in DOMAIN t.objs : i # r => objs[i] = t.objs[i]
  BY <1>3, <1>4, <1>5
<1>7. Decision(Awaited(t), FALSE, "if") \in Made /\ Name("E", 0) \in Letter
  BY <1>3, LearnedConditions DEF Made, Decision, Tested, Letter, Name
<1>8. /\ t.made \in Seq(Made) /\ Append(t.made, Decision(Awaited(t), FALSE, "if")) \in Seq(Made)
      /\ t.names \in Seq(Letter) /\ Append(t.names, Name("E", 0)) \in Seq(Letter)
      /\ t.conds \in Seq(Nat) /\ Append(t.conds, r) \in Seq(Nat)
  <2>1. t.made \in Seq(Made) /\ t.names \in Seq(Letter) /\ t.conds \in Seq(Nat)
    BY <1>2, Fields
  <2> HIDE DEF t, u, objs, r
  <2> QED
    BY <1>4, <1>7, <2>1, AppendIn
<1>9. u = [objs |-> objs, conds |-> Append(t.conds, r),
           made |-> Append(t.made, Decision(Awaited(t), FALSE, "if")),
           names |-> Append(t.names, Name("E", 0)), at |-> Running]
  <2>1. t = [objs |-> t.objs, conds |-> t.conds, made |-> t.made, names |-> t.names, at |-> t.at]
    BY <1>2, Fields
  <2>2. u = [t EXCEPT !.objs = objs, !.conds = Append(t.conds, r),
                      !.made = Append(t.made, Decision(o.meant, FALSE, "if")),
                      !.names = Append(t.names, Name("E", 0)), !.at = Running]
    OBVIOUS
  <2> HIDE DEF u, objs
  <2>3. o.meant = Awaited(t)
    BY <1>3
  <2> HIDE DEF t, r, o
  <2> QED
    BY <2>1, <2>2, <2>3
<1>10. /\ u.objs = objs /\ u.conds = Append(t.conds, r) /\ u.at = Running
       /\ u.made = Append(t.made, Decision(Awaited(t), FALSE, "if"))
       /\ u.names = Append(t.names, Name("E", 0)) /\ u \in Proc
  BY <1>6, <1>8, <1>9 DEF Proc
<1> HIDE DEF u, objs, new
<1>11. \A i \in DOMAIN objs : objs[i].cond \in Learned
  BY <1>3, <1>5, <1>6, LearnedConditions
<1>12. \A i \in DOMAIN u.conds : u.conds[i] \in DOMAIN objs
  BY <1>3, <1>4, <1>6, <1>8, <1>10, PushRef
<1>13. u \in Sane
  BY <1>10, <1>11, <1>12, RunningSane
<1>14. Known(u) = Append(Known(t), ElseCond(Awaited(t)))
  <2>1. \A i \in DOMAIN t.conds : u.objs[t.conds[i]].cond = t.objs[t.conds[i]].cond
    BY <1>3, <1>6, <1>10
  <2>2. Known(u) = Append(Known(t), u.objs[r].cond)
    BY <1>2, <1>10, <1>13, <2>1, KnownPush
  <2> QED
    BY <1>5, <1>6, <1>10, <2>2
<1>15. TookElse(t, u)
  BY <1>1, <1>3, <1>10, <1>14 DEF TookElse
<1>16. t = Top
  OBVIOUS
<1> HIDE DEF t
<1> QED
  BY <1>1, <1>13, <1>15, <1>16 DEF GoesOn

\* A process that only moves on keeps its path conditions.
LEMMA AtSane ==
  ASSUME NEW t \in Sane, NEW at \in {Running} \cup AtCase
  PROVE  LET u == [t EXCEPT !.at = at] IN
           /\ u \in Sane /\ Known(u) = Known(t) /\ u.at = at
           /\ u.names = t.names /\ u.made = t.made /\ u.objs = t.objs /\ u.conds = t.conds
<1> DEFINE u == [t EXCEPT !.at = at]
<1>1. t \in Proc
  BY DEF Sane
<1>2. /\ u \in Proc /\ u.at = at /\ u.names = t.names /\ u.made = t.made
      /\ u.objs = t.objs /\ u.conds = t.conds
  BY <1>1 DEF Proc
<1> HIDE DEF u
<1>3. at.k # "if"
  BY DEF Running, AtCase
<1>4. u \in Sane
  BY <1>2, <1>3 DEF Sane
<1>5. Known(u) = Known(t)
  BY <1>2 DEF Known
<1> QED
  BY <1>2, <1>4, <1>5 DEF u

\* case_begin: the process goes on at the first label.
LEMMA BeginCaseStep ==
  ASSUME procs \in Seq(Sane), NEW k \in Cases, case_begin(k)
  PROVE  \E u : GoesOn(Top, u)
<1> DEFINE at == [k |-> "case", of |-> k, n |-> 1]
           u == [Top EXCEPT !.at = at]
<1>1. Walks /\ Become(u) /\ UNCHANGED <<status, traces, dropped>>
  BY DEF case_begin
<1>2. procs # <<>> /\ status = "none" /\ Top \in Sane /\ Top.at = Running
  BY <1>1, TopSane DEF Walks
<1>3. at \in AtCase
  BY DEF AtCase
<1>4. at.k = "case" /\ at.n = 1
  OBVIOUS
<1> HIDE DEF at
<1>5. u \in Sane /\ Known(u) = Known(Top) /\ u.at = at /\ u.names = Top.names /\ u.made = Top.made
  BY <1>2, <1>3, AtSane
<1> HIDE DEF u
<1>6. Began(Top, u)
  BY <1>2, <1>3, <1>4, <1>5 DEF Began, InCase
<1> QED
  BY <1>1, <1>2, <1>5, <1>6 DEF GoesOn

\* A case with a label left.
LEMMA LabelFacts ==
  ASSUME procs \in Seq(Sane), AtLabel
  PROVE  /\ procs # <<>> /\ Top \in Sane /\ LabelLeft(Top) /\ status # "failure"
         /\ Label = LabelOf(Top) /\ LabelCond = CondOf(Top)
         /\ ~ Label.default => LabelCond \in Tested
         /\ NextLabel \in Sane /\ NextAt(Top, NextLabel)
<1>1. /\ procs # <<>> /\ Top.at.k = "case" /\ status # "failure"
      /\ Top.at.n <= Len(Top.at.of.labels)
  BY DEF AtLabel, ChildFailed
<1>2. Top \in Sane /\ Top \in Proc /\ InCase(Top) /\ Top.at \in AtCase
  BY <1>1, TopSane DEF InCase
<1>3. /\ Top.at.of \in Cases /\ Top.at.n \in Nat \ {0}
      /\ Top.at = [k |-> "case", of |-> Top.at.of, n |-> Top.at.n]
  BY <1>2 DEF AtCase
<1>4. Top.at.of.labels \in Seq(CaseLabel)
  BY <1>3, SymbolicAssumption
<1>5. Top.at.n \in DOMAIN Top.at.of.labels
  BY <1>1, <1>3, <1>4
<1>6. LabelLeft(Top) /\ Label = LabelOf(Top) /\ LabelCond = CondOf(Top)
  BY <1>2, <1>5 DEF LabelLeft, Label, LabelOf, LabelCond, CondOf
<1>7. LabelCond \in Tested
  <2> DEFINE k == Top.at.of
             C == {[sym |-> k.sym, op |-> "eq", num |-> k.labels[i].num, flip |-> FALSE] :
                     i \in DOMAIN k.labels}
  <2>1. LabelCond \in C
    BY <1>5 DEF LabelCond, Label
  <2>2. LabelCond \in LabelConds
    <3>1. k \in Cases
      BY <1>3
    <3> QED
      BY <2>1, <3>1 DEF LabelConds
  <2> QED
    BY <2>2 DEF Tested
<1> DEFINE at == [k |-> "case", of |-> Top.at.of, n |-> Top.at.n + 1]
           u == [Top EXCEPT !.at = at]
<1>8. NextLabel = u
  <2>1. [Top.at EXCEPT !.n = @ + 1] = at
    BY <1>3
  <2>2. NextLabel = [Top EXCEPT !.at = [Top.at EXCEPT !.n = @ + 1]]
    BY DEF NextLabel
  <2> HIDE DEF at
  <2> QED
    BY <2>1, <2>2
<1>9. at \in AtCase /\ at.k = "case" /\ at.of = Top.at.of /\ at.n = Top.at.n + 1
  BY <1>3 DEF AtCase
<1> HIDE DEF at
<1>10. u \in Sane /\ Known(u) = Known(Top) /\ u.at = at /\ u.names = Top.names /\ u.made = Top.made
  BY <1>2, <1>9, AtSane
<1> HIDE DEF u
<1>11. NextAt(Top, u)
  BY <1>6, <1>9, <1>10 DEF NextAt, InCase
<1> QED
  BY <1>1, <1>2, <1>6, <1>7, <1>8, <1>10, <1>11

\* case_lookup: the label's statement is walked by the process itself.
LEMMA LookupCaseStep ==
  ASSUME procs \in Seq(Sane), case_lookup
  PROVE  \E u : GoesOn(Top, u)
<1> DEFINE d == Decision(LabelCond, TRUE, "lookup")
           v == [Top EXCEPT !.at = Running]
           u == [v EXCEPT !.made = Append(Top.made, d)]
<1>1. /\ procs # <<>> /\ Top \in Sane /\ LabelLeft(Top) /\ status # "failure"
      /\ ~ Label.default /\ LabelOf(Top) = Label
      /\ LabelCond = CondOf(Top) /\ LabelCond \in Tested
  BY LabelFacts DEF case_lookup
<1>2. /\ check_condition(Known(Top), LabelCond) = "TRUE"
      /\ Become(u) /\ status' = "none" /\ UNCHANGED <<traces, dropped>>
  BY DEF case_lookup
<1>3. /\ v \in Sane /\ Known(v) = Known(Top) /\ v.at = Running /\ v.names = Top.names
      /\ v.made = Top.made
  BY <1>1, AtSane
<1>4. d \in Made
  BY <1>1, LearnedConditions DEF Decision, Made
<1> HIDE DEF v, d
<1>5. v \in Proc
  BY <1>3 DEF Sane
<1>6. Append(Top.made, d) \in Seq(Made)
  BY <1>3, <1>4, <1>5, Fields, AppendIn
<1>7. /\ u \in Proc /\ u.at = Running /\ u.names = Top.names /\ u.made = Append(Top.made, d)
      /\ u.objs = v.objs /\ u.conds = v.conds
  BY <1>3, <1>5, <1>6 DEF Proc
<1> HIDE DEF u
<1>8. u \in Sane
  BY <1>3, <1>7, RunningSane DEF Sane
<1>9. Known(u) = Known(Top)
  BY <1>3, <1>7 DEF Known
<1>10. LookedUp(Top, u)
  <2>1. check_condition(Known(Top), LabelCond) = IF TRUE THEN "TRUE" ELSE "FALSE"
    BY <1>2
  <2>2. u.made = Append(Top.made, Decision(LabelCond, TRUE, "lookup"))
    BY <1>7 DEF d
  <2> QED
    BY <1>1, <1>7, <1>9, <2>1, <2>2 DEF LookedUp
<1> QED
  BY <1>1, <1>2, <1>8, <1>10 DEF GoesOn

\* case_fork: the child has the label's condition.
LEMMA ForkLabelStep ==
  ASSUME procs \in Seq(Sane), case_fork
  PROVE  \E u, w : Forks(Top, u, w)
<1> DEFINE t == Top
           c == LabelCond
           r == Len(t.objs) + 1
           objs == Append(t.objs, NewObject(c))
           conds == Append(t.conds, r)
           made == Append(t.made, Decision(c, TRUE, "case"))
           names == Append(t.names, Name("", t.at.n))
           w == Process(objs, conds, made, names, Running)
<1>1. /\ procs # <<>> /\ t \in Sane /\ LabelLeft(t) /\ status # "failure"
      /\ ~ Label.default /\ LabelOf(t) = Label
      /\ c = CondOf(t) /\ c \in Tested /\ c \in Learned /\ c \in Condition
      /\ NextLabel \in Sane /\ NextAt(t, NextLabel)
  BY LabelFacts, LearnedConditions DEF case_fork
<1>2. Spawn(NextLabel, w) /\ status' = "none" /\ UNCHANGED <<traces, dropped>>
  BY DEF case_fork
<1>3. t \in Proc /\ t.at.n \in Nat
  BY <1>1 DEF Sane, LabelLeft, InCase, AtCase
<1>4. /\ t.objs \in Seq(Object) /\ t.conds \in Seq(Nat)
      /\ t.made \in Seq(Made) /\ t.names \in Seq(Letter)
  BY <1>3, Fields
<1>5. NewObject(c) \in Object /\ NewObject(c).cond = c
  BY <1>1 DEF NewObject, Object
<1>6. Decision(c, TRUE, "case") \in Made /\ Name("", t.at.n) \in Letter
  BY <1>1, <1>3 DEF Made, Decision, Letter, Name
<1>7. /\ DOMAIN objs = 1 .. r /\ DOMAIN t.objs = 1 .. Len(t.objs) /\ Len(t.objs) \in Nat
      /\ objs[r] = NewObject(c) /\ r \in Nat /\ r \in DOMAIN objs
      /\ \A i \in DOMAIN t.objs : objs[i] = t.objs[i] /\ i \in DOMAIN objs
  BY <1>4, <1>5
<1>8. \A i \in DOMAIN objs : objs[i].cond \in Learned
  <2>1. \A i \in DOMAIN t.objs : t.objs[i].cond \in Learned
    BY <1>1 DEF Sane
  <2>2. \A i \in DOMAIN objs : i \in DOMAIN t.objs \/ i = r
    BY <1>7
  <2> HIDE DEF objs, r, t, c
  <2> QED
    BY <1>1, <1>5, <1>7, <2>1, <2>2
<1>9. \A i \in DOMAIN t.conds : t.conds[i] \in DOMAIN t.objs
  BY <1>1 DEF Sane
<1>10. /\ objs \in Seq(Object) /\ conds \in Seq(Nat) /\ made \in Seq(Made)
       /\ names \in Seq(Letter)
  <2> HIDE DEF t, c, r
  <2> QED
    BY <1>4, <1>5, <1>6, <1>7, AppendIn
<1>11. \A i \in DOMAIN conds : conds[i] \in DOMAIN objs
  <2> HIDE DEF t, objs, r
  <2> QED
    BY <1>4, <1>7, <1>9, PushRef
<1>12. /\ w \in Proc /\ w.objs = objs /\ w.conds = conds /\ w.made = made
       /\ w.names = names /\ w.at = Running
  <2> HIDE DEF objs, conds, made, names
  <2> QED
    BY <1>10 DEF Process, Proc
<1>13. w \in Sane
  <2> HIDE DEF w, objs, conds
  <2> QED
    BY <1>8, <1>11, <1>12, RunningSane
<1>14. Known(w) = Append(Known(t), c)
  <2>1. \A i \in DOMAIN t.conds : w.objs[t.conds[i]].cond = t.objs[t.conds[i]].cond
    <3> HIDE DEF w, objs
    <3> QED
      BY <1>7, <1>9, <1>12
  <2>2. w.conds = Append(t.conds, r)
    BY <1>12
  <2>3. w.objs[r].cond = c
    <3> HIDE DEF w, objs, r
    <3> QED
      BY <1>5, <1>7, <1>12
  <2> HIDE DEF w, r, t
  <2> QED
    BY <1>1, <1>13, <2>1, <2>2, <2>3, KnownPush
<1>15. SplitLabel(t, NextLabel, w)
  <2>1. w.names = Append(t.names, Name("", t.at.n)) /\ w.made = Append(t.made, Decision(c, TRUE, "case"))
    BY <1>12
  <2> HIDE DEF w
  <2> QED
    BY <1>1, <1>12, <1>14, <2>1 DEF SplitLabel
<1> HIDE DEF w
<1> QED
  BY <1>1, <1>2, <1>13, <1>15 DEF Forks

\* case_default: the child has the parent's conditions.
LEMMA ForkDefaultStep ==
  ASSUME procs \in Seq(Sane), case_default
  PROVE  \E u, w : Forks(Top, u, w)
<1> DEFINE t == Top
           names == Append(t.names, Name("D", 0))
           v == [t EXCEPT !.at = Running]
           w == [v EXCEPT !.names = names]
<1>1. /\ procs # <<>> /\ t \in Sane /\ LabelLeft(t) /\ status # "failure"
      /\ Label.default /\ LabelOf(t) = Label
      /\ NextLabel \in Sane /\ NextAt(t, NextLabel)
  BY LabelFacts DEF case_default
<1>2. Spawn(NextLabel, w) /\ status' = "none" /\ UNCHANGED <<traces, dropped>>
  <2>1. w = [t EXCEPT !.names = names, !.at = Running]
    <3>1. t = [objs |-> t.objs, conds |-> t.conds, made |-> t.made, names |-> t.names,
               at |-> t.at]
      BY <1>1, Fields DEF Sane
    <3> HIDE DEF t, names
    <3> QED
      BY <3>1
  <2> HIDE DEF w
  <2> QED
    BY <2>1 DEF case_default
<1>3. /\ v \in Sane /\ Known(v) = Known(t) /\ v.at = Running /\ v.names = t.names
      /\ v.made = t.made
  BY <1>1, AtSane
<1> HIDE DEF v
<1>4. v \in Proc
  BY <1>3 DEF Sane
<1>5. names \in Seq(Letter)
  <2>1. Name("D", 0) \in Letter /\ t.names \in Seq(Letter)
    BY <1>3, <1>4, Fields DEF Name, Letter
  <2> HIDE DEF t
  <2> QED
    BY <2>1, AppendIn
<1>6. /\ w \in Proc /\ w.at = Running /\ w.names = names /\ w.made = t.made
      /\ w.objs = v.objs /\ w.conds = v.conds
  <2> HIDE DEF names, t
  <2> QED
    BY <1>3, <1>4, <1>5 DEF Proc
<1> HIDE DEF w
<1>7. w \in Sane
  BY <1>3, <1>6, RunningSane DEF Sane
<1>8. Known(w) = Known(t)
  BY <1>3, <1>6 DEF Known
<1>9. SplitDefault(t, NextLabel, w)
  BY <1>1, <1>6, <1>8 DEF SplitDefault
<1> QED
  BY <1>1, <1>2, <1>7, <1>9 DEF Forks

\* The ends of a process.
LEMMA EndSteps ==
  ASSUME ~ Shared, procs \in Seq(Sane),
         \/ procs # <<>> /\ \E e \in Evaluations(Top) : if_abort(e)
         \/ throw \/ child_failed \/ case_fork_failed \/ case_exit \/ finish \/ impossible
  PROVE  Ended(Top)
<1>1. CASE throw \/ child_failed \/ case_fork_failed
  <2>1. /\ procs # <<>> /\ Exit("failure") /\ UNCHANGED <<traces, dropped>>
    BY <1>1 DEF throw, child_failed, case_fork_failed, Walks, Reaped, AtLabel
  <2> QED
    BY <2>1 DEF Ended, Exit
<1>2. CASE finish
  <2>1. /\ Walks /\ traces' = traces \cup {Path(Top)} /\ dropped' = dropped /\ Exit("success")
    BY <1>2 DEF finish
  <2>2. procs # <<>> /\ Top.at = Running /\ status # "failure"
    BY <2>1, TopSane DEF Walks
  <2> QED
    BY <2>1, <2>2 DEF Ended, Exit
<1>3. CASE impossible
  <2>1. /\ Walks /\ dropped' = dropped \cup {Path(Top)} /\ traces' = traces /\ Exit("success")
    BY <1>3 DEF impossible
  <2>2. procs # <<>> /\ Top.at = Running /\ status # "failure"
    BY <2>1, TopSane DEF Walks
  <2> QED
    BY <2>1, <2>2 DEF Ended, Exit
<1>4. CASE procs # <<>> /\ \E e \in Evaluations(Top) : if_abort(e)
  <2>1. /\ Walks /\ dropped' = dropped \cup {Path(Top)} /\ traces' = traces /\ Exit("signal")
    BY <1>4 DEF if_abort
  <2>2. procs # <<>> /\ Top.at = Running /\ status # "failure"
    BY <2>1, TopSane DEF Walks
  <2> QED
    BY <2>1, <2>2 DEF Ended, Exit
<1>5. CASE case_exit
  <2>1. /\ procs # <<>> /\ Top.at.k = "case" /\ status # "failure"
        /\ Top.at.n > Len(Top.at.of.labels) /\ Exit("success") /\ UNCHANGED <<traces, dropped>>
    BY <1>5 DEF case_exit, ChildFailed
  <2>2. InCase(Top)
    BY <2>1, TopSane
  <2> QED
    BY <2>1, <2>2 DEF Ended, Exit
<1> QED
  BY <1>1, <1>2, <1>3, <1>4, <1>5

\* Every step is one of these.
LEMMA StepKinds ==
  ASSUME ~ Shared, procs \in Seq(Sane), [SNext]_svars
  PROVE  \/ UNCHANGED svars
         \/ \E u : GoesOn(Top, u)
         \/ \E u, w : Forks(Top, u, w)
         \/ Ended(Top)
<1>1. CASE procs # <<>> /\ \E e \in Evaluations(Top) : if_lookup(e)
  BY <1>1, LookupStep
<1>2. CASE procs # <<>> /\ \E e \in Evaluations(Top) : if_fork(e)
  BY <1>2, ForkIfStep
<1>3. CASE if_else
  BY <1>3, ElseStep
<1>4. CASE \E k \in Cases : case_begin(k)
  BY <1>4, BeginCaseStep
<1>5. CASE case_lookup
  BY <1>5, LookupCaseStep
<1>6. CASE case_fork
  BY <1>6, ForkLabelStep
<1>7. CASE case_default
  BY <1>7, ForkDefaultStep
<1>8. CASE \/ procs # <<>> /\ \E e \in Evaluations(Top) : if_abort(e)
           \/ throw \/ child_failed \/ case_fork_failed \/ case_exit \/ finish \/ impossible
  BY <1>8, EndSteps
<1>9. CASE ended \/ UNCHANGED svars
  BY <1>9 DEF ended
<1> QED
  BY <1>1, <1>2, <1>3, <1>4, <1>5, <1>6, <1>7, <1>8, <1>9 DEF SNext

\* The last element of a sequence replaced, a sequence prolonged or shortened.
LEMMA Replaced ==
  ASSUME NEW A, NEW n \in Nat, n > 0, NEW s \in [1 .. n -> A], NEW u \in A
  PROVE  /\ [s EXCEPT ![n] = u] \in [1 .. n -> A] /\ [s EXCEPT ![n] = u][n] = u
         /\ \A i \in 1 .. n - 1 : [s EXCEPT ![n] = u][i] = s[i]
<1>1. n \in 1 .. n /\ \A i \in 1 .. n - 1 : i \in 1 .. n /\ i # n
  OBVIOUS
<1> QED
  BY <1>1

\* An element more at the end.
LEMMA Prolonged ==
  ASSUME NEW A, NEW s \in Seq(A), NEW w \in A
  PROVE  /\ Append(s, w) \in Seq(A) /\ Len(Append(s, w)) = Len(s) + 1
         /\ Append(s, w)[Len(s) + 1] = w
         /\ \A i \in 1 .. Len(s) : Append(s, w)[i] = s[i]
  OBVIOUS

\* The stack after a step, process by process.
LEMMA StackFacts ==
  ASSUME procs \in Seq(Sane), procs # <<>>
  PROVE  /\ \A u \in Sane : Become(u) =>
              /\ procs' \in Seq(Sane) /\ Len(procs') = Len(procs)
              /\ procs'[Len(procs)] = u
              /\ \A i \in 1 .. Len(procs) - 1 : procs'[i] = procs[i]
         /\ \A u, w \in Sane : Spawn(u, w) =>
              /\ procs' \in Seq(Sane) /\ Len(procs') = Len(procs) + 1
              /\ procs'[Len(procs)] = u /\ procs'[Len(procs) + 1] = w
              /\ \A i \in 1 .. Len(procs) - 1 : procs'[i] = procs[i]
         /\ procs' = SubSeq(procs, 1, Len(procs) - 1) =>
              /\ procs' \in Seq(Sane) /\ Len(procs') = Len(procs) - 1
              /\ \A i \in 1 .. Len(procs) - 1 : procs'[i] = procs[i]
<1> DEFINE n == Len(procs)
<1>1. n \in Nat /\ n > 0 /\ DOMAIN procs = 1 .. n /\ procs \in [1 .. n -> Sane]
  OBVIOUS
<1>2. ASSUME NEW u \in Sane
      PROVE  LET r == [procs EXCEPT ![n] = u] IN
             /\ r \in Seq(Sane) /\ Len(r) = n /\ r[n] = u
             /\ \A i \in 1 .. n - 1 : r[i] = procs[i]
  <2> DEFINE r == [procs EXCEPT ![n] = u]
  <2> HIDE DEF n
  <2>1. r \in [1 .. n -> Sane] /\ r[n] = u /\ \A i \in 1 .. n - 1 : r[i] = procs[i]
    BY <1>1, Replaced
  <2> HIDE DEF r
  <2>2. r \in Seq(Sane) /\ Len(r) = n
    BY <1>1, <2>1
  <2> QED
    BY <2>1, <2>2 DEF r
<1>3. ASSUME NEW u \in Sane, NEW w \in Sane, Spawn(u, w)
      PROVE  /\ procs' \in Seq(Sane) /\ Len(procs') = n + 1
             /\ procs'[n] = u /\ procs'[n + 1] = w
             /\ \A i \in 1 .. n - 1 : procs'[i] = procs[i]
  <2> DEFINE s == [procs EXCEPT ![n] = u]
  <2>1. /\ s \in Seq(Sane) /\ Len(s) = n /\ s[n] = u
        /\ \A i \in 1 .. n - 1 : s[i] = procs[i]
    BY <1>2
  <2>2. procs' = Append(s, w)
    BY <1>3 DEF Spawn
  <2> HIDE DEF s, n
  <2>3. /\ Append(s, w) \in Seq(Sane) /\ Len(Append(s, w)) = n + 1
        /\ Append(s, w)[n + 1] = w
        /\ \A i \in 1 .. n : Append(s, w)[i] = s[i]
    BY <2>1, Prolonged
  <2> QED
    BY <1>1, <2>1, <2>2, <2>3
<1>4. ASSUME procs' = SubSeq(procs, 1, n - 1)
      PROVE  /\ procs' \in Seq(Sane) /\ Len(procs') = n - 1
             /\ \A i \in 1 .. n - 1 : procs'[i] = procs[i]
  BY <1>1, <1>4
<1>5. \A u : Become(u) => procs' = [procs EXCEPT ![n] = u]
  BY DEF Become
<1> HIDE DEF n
<1> QED
  BY <1>2, <1>3, <1>4, <1>5 DEF n

\* The processes stay sane.
LEMMA SaneNext ==
  ASSUME ~ Shared, procs \in Seq(Sane), [SNext]_svars
  PROVE  procs' \in Seq(Sane)
<1>1. CASE UNCHANGED svars
  BY <1>1 DEF svars
<1>2. CASE \E u : GoesOn(Top, u)
  BY <1>2, StackFacts DEF GoesOn
<1>3. CASE \E u, w : Forks(Top, u, w)
  BY <1>3, StackFacts DEF Forks
<1>4. CASE Ended(Top)
  BY <1>4, StackFacts DEF Ended
<1> QED
  BY <1>1, <1>2, <1>3, <1>4, StepKinds

\* At the start there is the root, on a path without decisions.
LEMMA InitFacts ==
  ASSUME SInit
  PROVE  /\ procs \in Seq(Sane) /\ Len(procs) = 1 /\ procs # <<>>
         /\ DOMAIN procs = {1} /\ procs[1] \in Sane
         /\ Known(procs[1]) = <<>> /\ procs[1].made = <<>> /\ procs[1].names = <<>>
         /\ procs[1].at = Running
         /\ traces = {} /\ dropped = {} /\ status = "none"
<1> DEFINE p == Process(<<>>, <<>>, <<>>, <<>>, Running)
<1>1. p \in Proc /\ p.objs = <<>> /\ p.conds = <<>> /\ p.at = Running /\ p.made = <<>> /\ p.names = <<>>
  BY DEF Process, Proc
<1>2. procs = <<p>> /\ traces = {} /\ dropped = {} /\ status = "none"
  BY DEF SInit
<1> HIDE DEF p
<1>3. p \in Sane
  BY <1>1, RunningSane
<1>4. Known(p) = <<>>
  <2>1. Known(p) \in Seq(Condition) /\ Len(Known(p)) = 0
    BY <1>1, <1>3, KnownFacts
  <2> QED
    BY <2>1
<1>5. /\ procs \in Seq(Sane) /\ Len(procs) = 1 /\ procs # <<>> /\ procs[1] = p
      /\ \A i \in DOMAIN procs : i = 1
  BY <1>2, <1>3
<1>6. 1 \in DOMAIN procs
  BY <1>2
<1> QED
  BY <1>1, <1>2, <1>3, <1>4, <1>5, <1>6

\* No program keeps a comparison, and the processes are sane.
SaneInv == ~ Shared /\ procs \in Seq(Sane)

\* Path conditions refer to objects of the process itself, and the object an if
\* inverts is in none of them: what a path has learned stays as it was.
THEOREM ProcessesSane == ASSUME ~ Shared PROVE SSpec => []SaneInv
<1>1. SInit /\ ~ Shared => SaneInv
  BY InitFacts DEF SaneInv
<1>2. SaneInv /\ [SNext]_svars => SaneInv'
  BY SaneNext DEF SaneInv
<1> QED
  BY <1>1, <1>2, PTL DEF SSpec

\* What holds of every process the steps make holds of the whole stack.
LEMMA StackIn ==
  ASSUME NEW G, ~ Shared, procs \in Seq(Sane), [SNext]_svars,
         \A i \in DOMAIN procs : procs[i] \in G,
         \A u \in Sane : GoesOn(Top, u) => u \in G,
         \A u, w \in Sane : Forks(Top, u, w) => u \in G /\ w \in G
  PROVE  \A i \in DOMAIN (procs') : procs'[i] \in G
<1> DEFINE n == Len(procs)
<1>1. n \in Nat /\ DOMAIN procs = 1 .. n
  OBVIOUS
<1>2. \A i \in 1 .. n - 1 : procs[i] \in G
  BY <1>1
<1>3. CASE UNCHANGED svars
  BY <1>3 DEF svars
<1>4. CASE \E u : GoesOn(Top, u)
  <2>1. PICK u \in Sane : GoesOn(Top, u)
    BY <1>4 DEF GoesOn
  <2>2. /\ procs' \in Seq(Sane) /\ Len(procs') = n /\ procs'[n] = u
        /\ \A i \in 1 .. n - 1 : procs'[i] = procs[i]
    BY <2>1, StackFacts DEF GoesOn
  <2>3. u \in G
    BY <2>1
  <2> HIDE DEF n
  <2>4. DOMAIN (procs') = 1 .. n /\ \A i \in 1 .. n : i \in 1 .. n - 1 \/ i = n
    BY <1>1, <2>2
  <2> QED
    BY <1>2, <2>2, <2>3, <2>4
<1>5. CASE \E u, w : Forks(Top, u, w)
  <2>1. PICK u \in Sane, w \in Sane : Forks(Top, u, w)
    BY <1>5 DEF Forks
  <2>2. /\ procs' \in Seq(Sane) /\ Len(procs') = n + 1 /\ procs'[n] = u /\ procs'[n + 1] = w
        /\ \A i \in 1 .. n - 1 : procs'[i] = procs[i]
    BY <2>1, StackFacts DEF Forks
  <2>3. u \in G /\ w \in G
    BY <2>1
  <2> HIDE DEF n
  <2>4. DOMAIN (procs') = 1 .. n + 1 /\ \A i \in 1 .. n + 1 : i \in 1 .. n - 1 \/ i = n \/ i = n + 1
    BY <1>1, <2>2
  <2> QED
    BY <1>2, <2>2, <2>3, <2>4
<1>6. CASE Ended(Top)
  <2>1. /\ procs' \in Seq(Sane) /\ Len(procs') = n - 1
        /\ \A i \in 1 .. n - 1 : procs'[i] = procs[i]
    BY <1>6, StackFacts DEF Ended
  <2> HIDE DEF n
  <2>2. DOMAIN (procs') = 1 .. n - 1
    BY <2>1
  <2> QED
    BY <1>2, <2>1, <2>2
<1> QED
  BY <1>3, <1>4, <1>5, <1>6, StepKinds

-----------------------------------------------------------------------------
(* Decisions follow from the path conditions.                              *)

\* Values of the symbols.
LEMMA ValuationFacts ==
  ASSUME NEW v \in Valuations
  PROVE  v \in [Sym -> Int] /\ \A s \in Sym : v[s] \in Range[s]
<1>1. \A s \in Sym : v[s] \in Range[s] /\ Range[s] \subseteq Int
  BY SymbolicAssumption DEF Valuations
<1>2. v = [s \in Sym |-> v[s]]
  BY DEF Valuations
<1> QED
  BY <1>1, <1>2

\* A condition more.
LEMMA SatisfiesPush ==
  ASSUME NEW known \in Seq(Condition), NEW c \in Condition, NEW v
  PROVE  Satisfies(v, Append(known, c)) <=> Satisfies(v, known) /\ Holds(c, v)
<1>1. /\ DOMAIN Append(known, c) = 1 .. Len(known) + 1 /\ DOMAIN known = 1 .. Len(known)
      /\ Append(known, c)[Len(known) + 1] = c /\ Len(known) \in Nat
      /\ \A i \in 1 .. Len(known) : Append(known, c)[i] = known[i]
  OBVIOUS
<1>2. \A i \in 1 .. Len(known) + 1 : i \in 1 .. Len(known) \/ i = Len(known) + 1
  BY <1>1
<1>3. Len(known) + 1 \in 1 .. Len(known) + 1 /\ \A i \in 1 .. Len(known) : i \in 1 .. Len(known) + 1
  BY <1>1
<1> QED
  BY <1>1, <1>2, <1>3 DEF Satisfies, Holds

\* The else branch has the negation, of a Boolean symbol too.
LEMMA ElseHolds ==
  ASSUME NEW c \in Conditions, NEW v \in Valuations
  PROVE  Holds(ElseCond(c), v) <=> ~ Holds(c, v)
<1>1. c \in Condition /\ c.sym \in Sym /\ v[c.sym] \in Int /\ v[c.sym] \in Range[c.sym]
  BY ValuationFacts, SymbolicAssumption DEF Condition
<1>2. CASE c \in Plain
  <2>1. c.op = "eq" /\ c.num = 1 /\ v[c.sym] \in {0, 1} /\ c.flip \in BOOLEAN
    BY <1>1, <1>2, SymbolicAssumption DEF Condition
  <2> DEFINE d == [c EXCEPT !.num = 0]
  <2>2. d.op = "eq" /\ d.num = 0 /\ d.sym = c.sym /\ d.flip = c.flip
    BY <1>1, <2>1 DEF Condition
  <2>3. ElseCond(c) = d
    BY <1>2 DEF ElseCond
  <2> HIDE DEF d
  <2> QED
    BY <2>1, <2>2, <2>3 DEF Holds, HoldsFor, Compare
<1>3. CASE c \notin Plain
  <2> DEFINE d == [c EXCEPT !.op = invert(@)]
  <2>1. HoldsFor(d, v[c.sym]) <=> ~ HoldsFor(c, v[c.sym])
    BY <1>1, InvertNegates
  <2>2. d.sym = c.sym
    BY <1>1 DEF Condition
  <2>3. ElseCond(c) = d
    BY <1>3 DEF ElseCond
  <2> HIDE DEF d
  <2> QED
    BY <2>1, <2>2, <2>3 DEF Holds
<1> QED
  BY <1>2, <1>3

\* The decisions of a process follow from its path conditions.
Follows(p) ==
  \A v \in Valuations : Satisfies(v, Known(p)) =>
    \A i \in DOMAIN p.made : HoldsFor(p.made[i].cond, v[p.made[i].cond.sym]) = p.made[i].yes

\* A decision more.
LEMMA FollowsPush ==
  ASSUME NEW t \in Sane, NEW u, Follows(t), NEW d, u.made = Append(t.made, d),
         \A v \in Valuations : Satisfies(v, Known(u)) =>
           Satisfies(v, Known(t)) /\ HoldsFor(d.cond, v[d.cond.sym]) = d.yes
  PROVE  Follows(u)
<1>1. t.made \in Seq(Made)
  BY Fields DEF Sane
<1>2. /\ DOMAIN u.made = 1 .. Len(t.made) + 1 /\ DOMAIN t.made = 1 .. Len(t.made)
      /\ u.made[Len(t.made) + 1] = d /\ Len(t.made) \in Nat
      /\ \A i \in 1 .. Len(t.made) : u.made[i] = t.made[i]
  BY <1>1
<1>3. \A i \in DOMAIN u.made : i \in DOMAIN t.made \/ i = Len(t.made) + 1
  BY <1>2
<1> QED
  BY <1>2, <1>3 DEF Follows

\* A condition holds or not.
LEMMA HoldsBoolean == \A c, x : HoldsFor(c, x) \in BOOLEAN
  BY DEF HoldsFor, Compare

\* The process that goes on.
LEMMA FollowsOn ==
  ASSUME Trusted, NEW t \in Sane, NEW u \in Sane, Follows(t),
         LookedUp(t, u) \/ TookElse(t, u) \/ Began(t, u)
  PROVE  Follows(u)
<1>1. Known(t) \in Seq(Condition) /\ \A i \in DOMAIN Known(t) : Known(t)[i] \in Learned
  BY KnownFacts
<1>2. CASE LookedUp(t, u)
  <2>1. PICK c \in Tested, yes \in BOOLEAN :
          /\ check_condition(Known(t), c) = IF yes THEN "TRUE" ELSE "FALSE"
          /\ Known(u) = Known(t)
          /\ u.made = Append(t.made, Decision(c, yes, "lookup"))
    BY <1>2 DEF LookedUp
  <2>2. c \in Condition /\ \A i \in DOMAIN Known(t) :
          Known(t)[i].sym = c.sym => Comparable(Known(t)[i], c)
    BY <1>1, LearnedConditions DEF Trusted
  <2>3. ASSUME NEW v \in Valuations, Satisfies(v, Known(u))
        PROVE  HoldsFor(c, v[c.sym]) = yes
    <3>1. v \in [Sym -> Int] /\ \A i \in DOMAIN Known(t) : Holds(Known(t)[i], v)
      BY <2>1, <2>3, ValuationFacts DEF Satisfies, Holds
    <3>2. /\ check_condition(Known(t), c) = "TRUE" => Holds(c, v)
          /\ check_condition(Known(t), c) = "FALSE" => ~ Holds(c, v)
      BY <1>1, <2>2, <3>1, LookupSound
    <3>3. HoldsFor(c, v[c.sym]) <=> yes
      BY <2>1, <3>2 DEF Holds
    <3>4. HoldsFor(c, v[c.sym]) \in BOOLEAN
      BY HoldsBoolean
    <3> QED
      BY <3>3, <3>4
  <2> DEFINE d == Decision(c, yes, "lookup")
  <2>4. d.cond = c /\ d.yes = yes /\ u.made = Append(t.made, d)
    BY <2>1 DEF Decision
  <2> HIDE DEF d
  <2> QED
    BY <2>1, <2>3, <2>4, FollowsPush
<1>3. CASE TookElse(t, u)
  <2> DEFINE c == Awaited(t)
             d == Decision(c, FALSE, "if")
  <2>1. /\ c \in Conditions /\ Known(u) = Append(Known(t), ElseCond(c))
        /\ u.made = Append(t.made, d)
    BY <1>3 DEF TookElse
  <2>2. d.cond = c /\ d.yes = FALSE
    BY DEF Decision
  <2> HIDE DEF c, d
  <2>3. ASSUME NEW v \in Valuations, Satisfies(v, Known(u))
        PROVE  Satisfies(v, Known(t)) /\ HoldsFor(c, v[c.sym]) = FALSE
    <3>1. ElseCond(c) \in Condition
      BY <2>1, LearnedConditions
    <3>2. Satisfies(v, Known(t)) /\ Holds(ElseCond(c), v)
      BY <1>1, <2>1, <2>3, <3>1, SatisfiesPush
    <3>3. ~ HoldsFor(c, v[c.sym])
      BY <2>1, <3>2, ElseHolds DEF Holds
    <3>4. HoldsFor(c, v[c.sym]) \in BOOLEAN
      BY HoldsBoolean
    <3> QED
      BY <3>2, <3>3, <3>4
  <2> QED
    BY <2>1, <2>2, <2>3, FollowsPush
<1>4. CASE Began(t, u)
  BY <1>4 DEF Began, Follows
<1> QED
  BY <1>2, <1>3, <1>4

\* A child whose condition is its decision.
LEMMA FollowsChild ==
  ASSUME NEW t \in Sane, NEW w \in Sane, Follows(t), NEW c \in Condition, NEW by,
         Known(w) = Append(Known(t), c), w.made = Append(t.made, Decision(c, TRUE, by))
  PROVE  Follows(w)
<1> DEFINE d == Decision(c, TRUE, by)
<1>1. d.cond = c /\ d.yes = TRUE /\ w.made = Append(t.made, d)
  BY DEF Decision
<1> HIDE DEF d
<1>2. ASSUME NEW v \in Valuations, Satisfies(v, Known(w))
      PROVE  Satisfies(v, Known(t)) /\ HoldsFor(c, v[c.sym]) = TRUE
  <2>1. Satisfies(v, Known(t)) /\ Holds(c, v)
    BY <1>2, KnownFacts, SatisfiesPush
  <2>2. HoldsFor(c, v[c.sym]) \in BOOLEAN
    BY HoldsBoolean
  <2> QED
    BY <2>1, <2>2 DEF Holds
<1> QED
  BY <1>1, <1>2, FollowsPush

\* A label's condition.
LEMMA CondOfCondition ==
  ASSUME NEW t, LabelLeft(t)
  PROVE  /\ CondOf(t) \in Condition /\ CondOf(t).op = "eq" /\ CondOf(t) \in Tested
         /\ t.at.of \in Cases /\ t.at.n \in Nat \ {0} /\ t.at.of.labels \in Seq(CaseLabel)
<1>1. t.at.of \in Cases /\ t.at.n \in Nat \ {0} /\ t.at.n \in DOMAIN t.at.of.labels
  BY DEF LabelLeft, InCase, AtCase
<1>2. t.at.of.labels \in Seq(CaseLabel)
  BY <1>1, SymbolicAssumption
<1> DEFINE k == t.at.of
           C == {[sym |-> k.sym, op |-> "eq", num |-> k.labels[i].num, flip |-> FALSE] :
                   i \in DOMAIN k.labels}
<1>3. CondOf(t) \in C
  BY <1>1 DEF CondOf, LabelOf
<1>4. CondOf(t) \in LabelConds
  <2>1. k \in Cases
    BY <1>1
  <2> QED
    BY <1>3, <2>1 DEF LabelConds
<1>5. CondOf(t) \in Tested
  BY <1>4 DEF Tested
<1>6. CondOf(t).op = "eq"
  BY DEF CondOf
<1> QED
  BY <1>1, <1>2, <1>5, <1>6, LearnedConditions

\* The processes after a fork.
LEMMA FollowsForks ==
  ASSUME NEW t \in Sane, NEW u \in Sane, NEW w \in Sane, Follows(t),
         SplitIf(t, u, w) \/ SplitLabel(t, u, w) \/ SplitDefault(t, u, w)
  PROVE  Follows(u) /\ Follows(w)
<1>1. Known(u) = Known(t) /\ u.made = t.made
  BY DEF SplitIf, SplitLabel, SplitDefault, NextAt
<1>2. Follows(u)
  BY <1>1 DEF Follows
<1>3. CASE SplitIf(t, u, w)
  <2>1. PICK c \in Conditions :
          /\ Known(w) = Append(Known(t), c) /\ w.made = Append(t.made, Decision(c, TRUE, "if"))
    BY <1>3 DEF SplitIf
  <2>2. c \in Condition
    BY LearnedConditions DEF Tested
  <2> QED
    BY <1>2, <2>1, <2>2, FollowsChild
<1>4. CASE SplitLabel(t, u, w)
  <2>1. /\ CondOf(t) \in Condition /\ Known(w) = Append(Known(t), CondOf(t))
        /\ w.made = Append(t.made, Decision(CondOf(t), TRUE, "case"))
    BY <1>4, CondOfCondition DEF SplitLabel, NextAt
  <2> DEFINE c == CondOf(t)
  <2>2. /\ c \in Condition /\ Known(w) = Append(Known(t), c)
        /\ w.made = Append(t.made, Decision(c, TRUE, "case"))
    BY <2>1
  <2> HIDE DEF c
  <2> QED
    BY <1>2, <2>2, FollowsChild
<1>5. CASE SplitDefault(t, u, w)
  BY <1>1, <1>5 DEF SplitDefault, Follows
<1> QED
  BY <1>2, <1>3, <1>4, <1>5

\* The processes whose decisions follow.
Following == {p \in Sane : Follows(p)}

FollowInv == SaneInv /\ Trusted /\ \A i \in DOMAIN procs : procs[i] \in Following

\* A step of the machine.
LEMMA FollowNext ==
  ASSUME FollowInv, [SNext]_svars
  PROVE  FollowInv'
<1>1. ~ Shared /\ procs \in Seq(Sane) /\ Trusted /\ \A i \in DOMAIN procs : procs[i] \in Following
  BY DEF FollowInv, SaneInv
<1>2. procs # <<>> => Top \in Sane /\ Follows(Top)
  BY <1>1, TopSane DEF Following, Top
<1>3. \A u \in Sane : GoesOn(Top, u) => u \in Following
  BY <1>1, <1>2, FollowsOn DEF GoesOn, Following
<1>4. \A u, w \in Sane : Forks(Top, u, w) => u \in Following /\ w \in Following
  BY <1>2, FollowsForks DEF Forks, Following
<1>5. \A i \in DOMAIN (procs') : procs'[i] \in Following
  BY <1>1, <1>3, <1>4, StackIn
<1>6. SaneInv'
  BY <1>1, SaneNext DEF SaneInv
<1> QED
  BY <1>1, <1>5, <1>6 DEF FollowInv, Trusted, Following

\* Where lookups can be trusted, the branches a path has taken, forked or looked
\* up, are those of every input that satisfies its path conditions
\* (walk_ifthenelse, walk_case and check_condition).
THEOREM PathsFollow == ASSUME ~ Shared, Trusted PROVE SSpec => []DecisionsFollow
<1>1. SInit /\ ~ Shared /\ Trusted => FollowInv
  <2> SUFFICES ASSUME SInit, ~ Shared, Trusted
               PROVE  FollowInv
    OBVIOUS
  <2>1. procs \in Seq(Sane) /\ procs[1].made = <<>>
    BY InitFacts
  <2>2. DOMAIN procs = {1} /\ procs[1] \in Sane
    BY InitFacts
  <2>3. Follows(procs[1])
    BY <2>1 DEF Follows
  <2> QED
    BY <2>1, <2>2, <2>3 DEF FollowInv, SaneInv, Following
<1>2. FollowInv /\ [SNext]_svars => FollowInv'
  BY FollowNext
<1>3. FollowInv => DecisionsFollow
  <2> SUFFICES ASSUME FollowInv, NEW i \in DOMAIN procs
               PROVE  LET p == Path(procs[i]) IN \A v \in Valuations :
                        Satisfies(v, p.conds) =>
                          \A j \in DOMAIN p.made :
                            HoldsFor(p.made[j].cond, v[p.made[j].cond.sym]) = p.made[j].yes
    BY DEF DecisionsFollow
  <2>1. Follows(procs[i])
    BY DEF FollowInv, Following
  <2>2. Path(procs[i]).conds = Known(procs[i]) /\ Path(procs[i]).made = procs[i].made
    BY DEF Path
  <2> QED
    BY <2>1, <2>2 DEF Follows
<1> QED
  BY <1>1, <1>2, <1>3, PTL DEF SSpec

-----------------------------------------------------------------------------
(* Nothing is forked on twice.                                             *)

\* A lookup answers exactly when a path condition decides.
LEMMA AnswerDecides ==
  ASSUME NEW known \in Seq(Condition), NEW c
  PROVE  check_condition(known, c) = "NOT_FOUND" <=> Deciding(known, c) = {}
<1> DEFINE D == Deciding(known, c)
<1>1. CASE D = {}
  BY <1>1 DEF check_condition
<1>2. CASE D # {}
  <2>1. D \in SUBSET Nat
    BY DEF Deciding
  <2>2. PICK m \in D : \A k \in D : m <= k
    BY <1>2, <2>1, LeastOf
  <2> DEFINE first == CHOOSE i \in D : \A k \in D : i <= k
  <2>3. first \in D
    BY <2>2
  <2>4. check_condition(known, c) = check_inclusion(known[first], c)
    BY <1>2 DEF check_condition
  <2>5. check_inclusion(known[first], c) # "NOT_FOUND"
    BY <2>3 DEF Deciding
  <2> QED
    BY <1>2, <2>4, <2>5
<1> QED
  BY <1>1, <1>2

\* Learning more forgets no answer.
LEMMA DecidingGrows ==
  ASSUME NEW known \in Seq(Condition), NEW d \in Condition, NEW c,
         \/ Deciding(known, c) # {}
         \/ d.sym = c.sym /\ check_inclusion(d, c) # "NOT_FOUND"
  PROVE  Deciding(Append(known, d), c) # {}
<1>1. /\ DOMAIN Append(known, d) = 1 .. Len(known) + 1 /\ DOMAIN known = 1 .. Len(known)
      /\ Append(known, d)[Len(known) + 1] = d /\ Len(known) \in Nat
      /\ Len(known) + 1 \in 1 .. Len(known) + 1
      /\ \A i \in 1 .. Len(known) : Append(known, d)[i] = known[i] /\ i \in 1 .. Len(known) + 1
  OBVIOUS
<1>2. CASE Deciding(known, c) # {}
  <2>1. PICK i \in DOMAIN known : known[i].sym = c.sym /\ check_inclusion(known[i], c) # "NOT_FOUND"
    BY <1>2 DEF Deciding
  <2>2. i \in Deciding(Append(known, d), c)
    BY <1>1, <2>1 DEF Deciding
  <2> QED
    BY <2>2
<1>3. CASE d.sym = c.sym /\ check_inclusion(d, c) # "NOT_FOUND"
  <2>1. Len(known) + 1 \in Deciding(Append(known, d), c)
    BY <1>1, <1>3 DEF Deciding
  <2> QED
    BY <2>1
<1> QED
  BY <1>2, <1>3

\* A condition answers itself, in the then and in the else branch. > does not.
LEMMA AnswersItself ==
  ASSUME NEW c \in Condition, c.op # "gt"
  PROVE  /\ check_inclusion(c, c) # "NOT_FOUND"
         /\ c \in Conditions => /\ ElseCond(c).sym = c.sym
                                /\ check_inclusion(ElseCond(c), c) # "NOT_FOUND"
<1>1. c.op \in {"eq", "neq", "le", "lt", "ge"} /\ c.num \in Int
  BY DEF Condition, Op
<1>2. check_inclusion(c, c) # "NOT_FOUND"
  BY <1>1 DEF check_inclusion, Included
<1>3. ASSUME c \in Plain
      PROVE  ElseCond(c).sym = c.sym /\ check_inclusion(ElseCond(c), c) # "NOT_FOUND"
  <2>1. c.op = "eq" /\ c.num = 1
    BY <1>3, SymbolicAssumption
  <2> DEFINE d == [c EXCEPT !.num = 0]
  <2>2. d.op = "eq" /\ d.num = 0 /\ d.sym = c.sym
    BY <2>1 DEF Condition
  <2>3. ElseCond(c) = d
    BY <1>3 DEF ElseCond
  <2> HIDE DEF d
  <2>4. Excluded(d, c)
    BY <2>1, <2>2 DEF Excluded
  <2> QED
    BY <2>1, <2>2, <2>3, <2>4 DEF check_inclusion
<1>4. ASSUME c \notin Plain
      PROVE  ElseCond(c).sym = c.sym /\ check_inclusion(ElseCond(c), c) # "NOT_FOUND"
  <2> DEFINE d == [c EXCEPT !.op = invert(@)]
  <2>1. d.op = invert(c.op) /\ d.num = c.num /\ d.sym = c.sym
    BY DEF Condition
  <2>2. ElseCond(c) = d
    BY <1>4 DEF ElseCond
  <2> HIDE DEF d
  <2>3. CASE c.op \in {"eq", "neq", "le"}
    <3>1. invert("eq") = "neq" /\ invert("neq") = "eq" /\ invert("le") = "gt"
      BY DEF invert
    <3>2. Excluded(d, c)
      BY <1>1, <2>1, <2>3, <3>1 DEF Excluded
    <3> QED
      BY <2>1, <2>2, <3>2 DEF check_inclusion
  <2>4. CASE c.op \in {"lt", "ge"}
    BY <2>1, <2>2, <2>4 DEF check_inclusion
  <2> QED
    BY <1>1, <2>3, <2>4
<1> QED
  BY <1>2, <1>3, <1>4

\* What a process has decided, its path conditions answer.
Answered(p) ==
  \A i \in DOMAIN p.made : p.made[i].cond.op # "gt" => Deciding(Known(p), p.made[i].cond) # {}

\* The condition of the if a process waits in is none it has decided before.
NotAsked(p) ==
  p.at.k = "if" /\ Awaited(p).op # "gt" => \A i \in DOMAIN p.made : p.made[i].cond # Awaited(p)

\* No decision was forked on that had been taken before.
Once(p) ==
  \A i, j \in DOMAIN p.made :
    i < j /\ p.made[i].cond = p.made[j].cond /\ p.made[i].cond.op # "gt" => p.made[j].by # "if"

Remembering == {p \in Sane : Answered(p) /\ NotAsked(p) /\ Once(p)}

\* A decision more.
LEMMA OncePush ==
  ASSUME NEW t \in Sane, NEW u, Once(t), NEW d, u.made = Append(t.made, d),
         d.by = "if" /\ d.cond.op # "gt" => \A i \in DOMAIN t.made : t.made[i].cond # d.cond
  PROVE  Once(u)
<1>1. t.made \in Seq(Made)
  BY Fields DEF Sane
<1> DEFINE n == Len(t.made)
<1>2. /\ DOMAIN u.made = 1 .. n + 1 /\ DOMAIN t.made = 1 .. n
      /\ u.made[n + 1] = d /\ n \in Nat
      /\ \A i \in 1 .. n : u.made[i] = t.made[i]
  BY <1>1
<1> HIDE DEF n
<1>3. SUFFICES ASSUME NEW i \in DOMAIN u.made, NEW j \in DOMAIN u.made, i < j,
                      u.made[i].cond = u.made[j].cond, u.made[i].cond.op # "gt"
               PROVE  u.made[j].by # "if"
  BY DEF Once
<1>4. i \in 1 .. n /\ (j \in 1 .. n \/ j = n + 1)
  BY <1>2, <1>3
<1>5. CASE j \in 1 .. n
  BY <1>2, <1>3, <1>4, <1>5 DEF Once
<1>6. CASE j = n + 1
  BY <1>2, <1>3, <1>4, <1>6
<1> QED
  BY <1>4, <1>5, <1>6

\* A decision more that the path conditions answer.
LEMMA AnsweredPush ==
  ASSUME NEW t \in Sane, NEW u, NEW d, u.made = Append(t.made, d),
         \A i \in DOMAIN t.made :
           t.made[i].cond.op # "gt" => Deciding(Known(u), t.made[i].cond) # {},
         d.cond.op # "gt" => Deciding(Known(u), d.cond) # {}
  PROVE  Answered(u)
<1>1. t.made \in Seq(Made)
  BY Fields DEF Sane
<1>2. /\ DOMAIN u.made = 1 .. Len(t.made) + 1 /\ DOMAIN t.made = 1 .. Len(t.made)
      /\ u.made[Len(t.made) + 1] = d /\ Len(t.made) \in Nat
      /\ \A i \in 1 .. Len(t.made) : u.made[i] = t.made[i]
  BY <1>1
<1>3. \A i \in DOMAIN u.made : i \in DOMAIN t.made \/ i = Len(t.made) + 1
  BY <1>2
<1> QED
  BY <1>2, <1>3 DEF Answered

\* A running process that has learned a condition with its last decision.
LEMMA RememberPush ==
  ASSUME NEW t \in Sane, t \in Remembering, NEW u \in Sane, u.at = Running,
         NEW d, u.made = Append(t.made, d), NEW x \in Condition,
         Known(u) = Append(Known(t), x),
         d.cond.op # "gt" => d.cond.sym = x.sym /\ check_inclusion(x, d.cond) # "NOT_FOUND",
         d.by = "if" /\ d.cond.op # "gt" => \A i \in DOMAIN t.made : t.made[i].cond # d.cond
  PROVE  u \in Remembering
<1>1. Known(t) \in Seq(Condition)
  BY KnownFacts
<1>2. Answered(t) /\ Once(t)
  BY DEF Remembering
<1>3. \A i \in DOMAIN t.made :
        t.made[i].cond.op # "gt" => Deciding(Known(u), t.made[i].cond) # {}
  BY <1>1, <1>2, DecidingGrows DEF Answered
<1>4. d.cond.op # "gt" => Deciding(Known(u), d.cond) # {}
  BY <1>1, DecidingGrows
<1>5. Answered(u)
  BY <1>3, <1>4, AnsweredPush
<1>6. Once(u)
  BY <1>2, OncePush
<1>7. NotAsked(u)
  BY DEF NotAsked, Running
<1> QED
  BY <1>5, <1>6, <1>7 DEF Remembering

\* The process that goes on.
LEMMA RememberOn ==
  ASSUME NEW t \in Sane, t \in Remembering, NEW u \in Sane,
         LookedUp(t, u) \/ TookElse(t, u) \/ Began(t, u)
  PROVE  u \in Remembering
<1>1. Known(t) \in Seq(Condition) /\ Answered(t) /\ NotAsked(t) /\ Once(t)
  BY KnownFacts DEF Remembering
<1>2. CASE LookedUp(t, u)
  <2>1. PICK c \in Tested, yes \in BOOLEAN :
          /\ check_condition(Known(t), c) = IF yes THEN "TRUE" ELSE "FALSE"
          /\ Known(u) = Known(t)
          /\ u.made = Append(t.made, Decision(c, yes, "lookup"))
          /\ u.at = Running
    BY <1>2 DEF LookedUp
  <2>2. Deciding(Known(u), c) # {}
    BY <1>1, <2>1, AnswerDecides
  <2> DEFINE d == Decision(c, yes, "lookup")
  <2>3. d.cond = c /\ d.by # "if" /\ u.made = Append(t.made, d)
    BY <2>1 DEF Decision
  <2> HIDE DEF d
  <2>4. Answered(u)
    BY <1>1, <2>1, <2>2, <2>3, AnsweredPush DEF Answered
  <2>5. Once(u)
    BY <1>1, <2>3, OncePush
  <2>6. NotAsked(u)
    BY <2>1 DEF NotAsked, Running
  <2> QED
    BY <2>4, <2>5, <2>6 DEF Remembering
<1>3. CASE TookElse(t, u)
  <2> DEFINE c == Awaited(t)
             d == Decision(c, FALSE, "if")
  <2>1. /\ c \in Conditions /\ Known(u) = Append(Known(t), ElseCond(c))
        /\ u.made = Append(t.made, d) /\ u.at = Running /\ t.at.k = "if"
    BY <1>3 DEF TookElse
  <2>2. d.cond = c /\ d.by = "if"
    BY DEF Decision
  <2>3. c.op # "gt" => \A i \in DOMAIN t.made : t.made[i].cond # c
    BY <1>1, <2>1 DEF NotAsked
  <2> HIDE DEF c, d
  <2>4. c \in Condition /\ ElseCond(c) \in Condition
    BY <2>1, LearnedConditions DEF Tested
  <2>5. c.op # "gt" => ElseCond(c).sym = c.sym /\ check_inclusion(ElseCond(c), c) # "NOT_FOUND"
    BY <2>1, <2>4, AnswersItself
  <2> QED
    BY <2>1, <2>2, <2>3, <2>4, <2>5, RememberPush
<1>4. CASE Began(t, u)
  <2>1. Known(u) = Known(t) /\ u.made = t.made /\ u.at.k = "case"
    BY <1>4 DEF Began, InCase
  <2> QED
    BY <1>1, <2>1 DEF Remembering, Answered, NotAsked, Once
<1> QED
  BY <1>2, <1>3, <1>4

\* The processes after a fork.
LEMMA RememberForks ==
  ASSUME NEW t \in Sane, t \in Remembering, NEW u \in Sane, NEW w \in Sane,
         SplitIf(t, u, w) \/ SplitLabel(t, u, w) \/ SplitDefault(t, u, w)
  PROVE  u \in Remembering /\ w \in Remembering
<1>1. Known(t) \in Seq(Condition) /\ Answered(t) /\ NotAsked(t) /\ Once(t)
  BY KnownFacts DEF Remembering
<1>2. Known(u) = Known(t) /\ u.made = t.made /\ w.at = Running
  BY DEF SplitIf, SplitLabel, SplitDefault, NextAt
<1>3. Answered(u) /\ Once(u)
  BY <1>1, <1>2 DEF Answered, Once
<1>4. CASE SplitIf(t, u, w)
  <2>1. PICK c \in Conditions :
          /\ check_condition(Known(t), c) = "NOT_FOUND" /\ Awaited(u) = c
          /\ Known(w) = Append(Known(t), c) /\ w.made = Append(t.made, Decision(c, TRUE, "if"))
    BY <1>4 DEF SplitIf
  <2>2. c \in Condition
    BY LearnedConditions DEF Tested
  <2>3. Deciding(Known(t), c) = {}
    BY <1>1, <2>1, AnswerDecides
  <2>4. c.op # "gt" => \A i \in DOMAIN t.made : t.made[i].cond # c
    BY <1>1, <2>3 DEF Answered
  <2>5. NotAsked(u)
    BY <1>2, <2>1, <2>4 DEF NotAsked
  <2> DEFINE d == Decision(c, TRUE, "if")
  <2>6. d.cond = c /\ w.made = Append(t.made, d)
    BY <2>1 DEF Decision
  <2> HIDE DEF d
  <2>7. d.cond.op # "gt" => d.cond.sym = c.sym /\ check_inclusion(c, d.cond) # "NOT_FOUND"
    BY <2>2, <2>6, AnswersItself
  <2>8. d.by = "if" /\ d.cond.op # "gt" => \A i \in DOMAIN t.made : t.made[i].cond # d.cond
    BY <2>4, <2>6
  <2>9. w \in Remembering
    BY <1>2, <2>1, <2>2, <2>6, <2>7, <2>8, RememberPush
  <2> QED
    BY <1>3, <2>5, <2>9 DEF Remembering
<1>5. CASE SplitLabel(t, u, w)
  <2> DEFINE c == CondOf(t)
             d == Decision(c, TRUE, "case")
  <2>1. /\ c \in Condition /\ c.op = "eq" /\ Known(w) = Append(Known(t), c)
        /\ w.made = Append(t.made, d) /\ u.at.k = "case"
    BY <1>5, CondOfCondition DEF SplitLabel, NextAt, InCase
  <2>2. d.cond = c /\ d.by # "if"
    BY DEF Decision
  <2> HIDE DEF c, d
  <2>3. w \in Remembering
    BY <1>2, <2>1, <2>2, AnswersItself, RememberPush
  <2>4. NotAsked(u)
    BY <2>1 DEF NotAsked
  <2> QED
    BY <1>3, <2>3, <2>4 DEF Remembering
<1>6. CASE SplitDefault(t, u, w)
  <2>1. Known(w) = Known(t) /\ w.made = t.made /\ u.at.k = "case"
    BY <1>6 DEF SplitDefault, NextAt, InCase
  <2>2. NotAsked(u) /\ NotAsked(w)
    BY <1>2, <2>1 DEF NotAsked, Running
  <2>3. Answered(w) /\ Once(w)
    BY <1>1, <2>1 DEF Answered, Once
  <2> QED
    BY <1>3, <2>2, <2>3 DEF Remembering
<1> QED
  BY <1>4, <1>5, <1>6

RememberInv == SaneInv /\ \A i \in DOMAIN procs : procs[i] \in Remembering

\* A step of the machine.
LEMMA RememberNext ==
  ASSUME RememberInv, [SNext]_svars
  PROVE  RememberInv'
<1>1. ~ Shared /\ procs \in Seq(Sane) /\ \A i \in DOMAIN procs : procs[i] \in Remembering
  BY DEF RememberInv, SaneInv
<1>2. procs # <<>> => Top \in Sane /\ Top \in Remembering
  BY <1>1, TopSane DEF Top
<1>3. \A u \in Sane : GoesOn(Top, u) => u \in Remembering
  BY <1>2, RememberOn DEF GoesOn
<1>4. \A u, w \in Sane : Forks(Top, u, w) => u \in Remembering /\ w \in Remembering
  BY <1>2, RememberForks DEF Forks
<1>5. \A i \in DOMAIN (procs') : procs'[i] \in Remembering
  BY <1>1, <1>3, <1>4, StackIn
<1>6. SaneInv'
  BY <1>1, SaneNext DEF SaneInv
<1> QED
  BY <1>5, <1>6 DEF RememberInv

\* walk_ifthenelse does not fork on a condition the path has decided before, in
\* whatever way: the path conditions keep an answer to it. (Except for >.)
THEOREM DecidedOnce == ASSUME ~ Shared PROVE SSpec => []IfLookedUp
<1>1. SInit /\ ~ Shared => RememberInv
  <2> SUFFICES ASSUME SInit, ~ Shared
               PROVE  RememberInv
    OBVIOUS
  <2>1. /\ procs \in Seq(Sane) /\ procs[1].made = <<>> /\ procs[1].at = Running
        /\ DOMAIN procs = {1} /\ procs[1] \in Sane
    BY InitFacts
  <2>2. procs[1] \in Remembering
    BY <2>1 DEF Remembering, Answered, NotAsked, Once, Running
  <2> QED
    BY <2>1, <2>2 DEF RememberInv, SaneInv
<1>2. RememberInv /\ [SNext]_svars => RememberInv'
  BY RememberNext
<1>3. RememberInv => IfLookedUp
  BY DEF RememberInv, Remembering, Once, IfLookedUp
<1> QED
  BY <1>1, <1>2, <1>3, PTL DEF SSpec

-----------------------------------------------------------------------------
(* No input is lost.                                                       *)

\* The case has a label for the value, from label n on.
LabelFor(v, k, n) ==
  \E m \in DOMAIN k.labels : m >= n /\ (k.labels[m].default \/ k.labels[m].num = v[k.sym])

\* The process will still walk the input, itself or in a child to come.
Pending(v, p) ==
  /\ Satisfies(v, Known(p))
  /\ p.at.k = "if" => ~ Holds(Awaited(p), v)
  /\ p.at.k = "case" => LabelFor(v, p.at.of, p.at.n)

Covered(v) == \E q \in traces \cup dropped : Satisfies(v, q.conds)

\* A case finds a label for every value.
LEMMA EveryLabel ==
  ASSUME Exhaustive, NEW k \in Cases, NEW v \in Valuations
  PROVE  LabelFor(v, k, 1)
<1>1. k.sym \in Sym /\ k.labels \in Seq(CaseLabel) /\ v[k.sym] \in Range[k.sym]
  BY SymbolicAssumption, ValuationFacts
<1>2. PICK m \in DOMAIN k.labels : k.labels[m].default \/ k.labels[m].num = v[k.sym]
  BY <1>1 DEF Exhaustive
<1>3. m >= 1
  BY <1>1
<1> QED
  BY <1>2, <1>3 DEF LabelFor

\* The input stays with a process that goes on.
LEMMA PendingOn ==
  ASSUME Exhaustive, NEW t \in Sane, NEW u \in Sane, NEW v \in Valuations, Pending(v, t),
         LookedUp(t, u) \/ TookElse(t, u) \/ Began(t, u)
  PROVE  Pending(v, u)
<1>1. Known(t) \in Seq(Condition) /\ Satisfies(v, Known(t))
  BY KnownFacts DEF Pending
<1>2. CASE LookedUp(t, u)
  <2>1. Known(u) = Known(t) /\ u.at = Running
    BY <1>2 DEF LookedUp
  <2> QED
    BY <1>1, <2>1 DEF Pending, Running
<1>3. CASE TookElse(t, u)
  <2> DEFINE c == Awaited(t)
  <2>1. /\ c \in Conditions /\ Known(u) = Append(Known(t), ElseCond(c))
        /\ u.at = Running /\ t.at.k = "if"
    BY <1>3 DEF TookElse
  <2>2. ~ Holds(c, v)
    BY <2>1 DEF Pending
  <2> HIDE DEF c
  <2>3. Holds(ElseCond(c), v) /\ ElseCond(c) \in Condition
    BY <2>1, <2>2, ElseHolds, LearnedConditions
  <2>4. Satisfies(v, Known(u))
    BY <1>1, <2>1, <2>3, SatisfiesPush
  <2> QED
    BY <2>1, <2>4 DEF Pending, Running
<1>4. CASE Began(t, u)
  <2>1. Known(u) = Known(t) /\ u.at.k = "case" /\ u.at.of \in Cases /\ u.at.n = 1
    BY <1>4 DEF Began, InCase, AtCase
  <2>2. LabelFor(v, u.at.of, u.at.n)
    BY <2>1, EveryLabel
  <2> QED
    BY <1>1, <2>1, <2>2 DEF Pending
<1> QED
  BY <1>2, <1>3, <1>4

\* At a fork it goes with the parent or with the child.
LEMMA PendingForks ==
  ASSUME NEW t \in Sane, NEW u \in Sane, NEW w \in Sane, NEW v \in Valuations, Pending(v, t),
         SplitIf(t, u, w) \/ SplitLabel(t, u, w) \/ SplitDefault(t, u, w)
  PROVE  Pending(v, u) \/ Pending(v, w)
<1>1. Known(t) \in Seq(Condition) /\ Satisfies(v, Known(t))
  BY KnownFacts DEF Pending
<1>2. CASE SplitIf(t, u, w)
  <2>1. PICK c \in Conditions :
          /\ Known(u) = Known(t) /\ u.at.k = "if" /\ Awaited(u) = c
          /\ Known(w) = Append(Known(t), c) /\ w.at = Running
    BY <1>2 DEF SplitIf
  <2>2. c \in Condition
    BY LearnedConditions DEF Tested
  <2>3. CASE Holds(c, v)
    <3>1. Satisfies(v, Known(w))
      BY <1>1, <2>1, <2>2, <2>3, SatisfiesPush
    <3> QED
      BY <2>1, <3>1 DEF Pending, Running
  <2>4. CASE ~ Holds(c, v)
    BY <1>1, <2>1, <2>4 DEF Pending
  <2> QED
    BY <2>3, <2>4
<1>3. ASSUME NextAt(t, u)
      PROVE  /\ LabelLeft(t) /\ t.at.n \in DOMAIN t.at.of.labels
             /\ Pending(v, u) \/ LabelOf(t).default \/ LabelOf(t).num = v[t.at.of.sym]
  <2>1. /\ LabelLeft(t) /\ t.at.n \in DOMAIN t.at.of.labels /\ t.at.k = "case"
        /\ u.at.k = "case" /\ u.at.of = t.at.of /\ u.at.n = t.at.n + 1
        /\ Known(u) = Known(t)
    BY <1>3 DEF NextAt, LabelLeft, InCase
  <2>2. PICK m \in DOMAIN t.at.of.labels :
          m >= t.at.n /\ (t.at.of.labels[m].default \/ t.at.of.labels[m].num = v[t.at.of.sym])
    BY <2>1 DEF Pending, LabelFor
  <2>3. t.at.n \in Nat /\ t.at.of.labels \in Seq(CaseLabel)
    BY <2>1, CondOfCondition
  <2>4. m = t.at.n \/ m >= t.at.n + 1
    BY <2>2, <2>3
  <2>5. CASE m = t.at.n
    BY <2>1, <2>2, <2>5 DEF LabelOf
  <2>6. CASE m >= t.at.n + 1
    <3>1. LabelFor(v, u.at.of, u.at.n)
      BY <2>1, <2>2, <2>6 DEF LabelFor
    <3> QED
      BY <1>1, <2>1, <3>1 DEF Pending
  <2> QED
    BY <2>1, <2>4, <2>5, <2>6
<1>4. CASE SplitLabel(t, u, w)
  <2>1. /\ NextAt(t, u) /\ ~ LabelOf(t).default
        /\ Known(w) = Append(Known(t), CondOf(t)) /\ w.at = Running
    BY <1>4 DEF SplitLabel
  <2>2. SUFFICES ASSUME LabelOf(t).num = v[t.at.of.sym]
                 PROVE  Pending(v, w)
    BY <1>3, <2>1
  <2>3. CondOf(t) \in Condition
    BY <1>3, <2>1, CondOfCondition
  <2>4. Holds(CondOf(t), v)
    BY <2>2 DEF Holds, HoldsFor, Compare, CondOf
  <2>5. Satisfies(v, Known(w))
    BY <1>1, <2>1, <2>3, <2>4, SatisfiesPush
  <2> QED
    BY <2>1, <2>5 DEF Pending, Running
<1>5. CASE SplitDefault(t, u, w)
  <2>1. Known(w) = Known(t) /\ w.at = Running
    BY <1>5 DEF SplitDefault
  <2> QED
    BY <1>1, <2>1 DEF Pending, Running
<1> QED
  BY <1>2, <1>4, <1>5

\* Unless a process has failed, every input is on a path that was walked to its
\* end, or pending.
CoverInv ==
  /\ SaneInv /\ Exhaustive
  /\ status # "failure" =>
       \A v \in Valuations : Covered(v) \/ \E i \in DOMAIN procs : Pending(v, procs[i])

\* A step of the machine.
LEMMA CoverNext ==
  ASSUME CoverInv, [SNext]_svars
  PROVE  CoverInv'
<1> DEFINE n == Len(procs)
<1>1. ~ Shared /\ procs \in Seq(Sane) /\ Exhaustive /\ n \in Nat /\ DOMAIN procs = 1 .. n
  BY DEF CoverInv, SaneInv
<1>2. SaneInv' /\ Exhaustive'
  BY <1>1, SaneNext DEF SaneInv, Exhaustive
<1>3. SUFFICES ASSUME status' # "failure", NEW v \in Valuations
               PROVE  Covered(v)' \/ \E i \in DOMAIN (procs') : Pending(v, procs'[i])
  BY <1>2 DEF CoverInv, Valuations, Covered, Pending, LabelFor, Satisfies, Known, Awaited, Holds
<1>4. CASE UNCHANGED svars
  BY <1>3, <1>4 DEF svars, CoverInv, Covered
<1>5. CASE \E u : GoesOn(Top, u)
  <2>1. PICK u \in Sane : GoesOn(Top, u)
    BY <1>5 DEF GoesOn
  <2>2. /\ procs # <<>> /\ status # "failure" /\ traces' = traces /\ dropped' = dropped
        /\ LookedUp(Top, u) \/ TookElse(Top, u) \/ Began(Top, u)
        /\ procs' \in Seq(Sane) /\ Len(procs') = n /\ procs'[n] = u
        /\ \A i \in 1 .. n - 1 : procs'[i] = procs[i]
    BY <1>1, <2>1, StackFacts DEF GoesOn
  <2>domain. DOMAIN (procs') = 1 .. n
    BY <2>2
  <2>3. CASE Covered(v)
    BY <2>2, <2>3 DEF Covered
  <2>4. CASE \E i \in DOMAIN procs : Pending(v, procs[i])
    <3>1. PICK i \in 1 .. n : Pending(v, procs[i])
      BY <1>1, <2>4
    <3>2. CASE i = n
      <4>1. Pending(v, Top) /\ Top \in Sane
        BY <1>1, <2>2, <3>1, <3>2, TopSane DEF Top
      <4>2. Pending(v, u)
        BY <1>1, <2>2, <4>1, PendingOn
      <4> QED
        BY <2>2, <2>domain, <3>1, <3>2, <4>2
    <3>3. CASE i # n
      <4> HIDE DEF n
      <4>1. i \in 1 .. n - 1 /\ i \in 1 .. n
        BY <1>1, <3>1, <3>3
      <4> QED
        BY <2>2, <2>domain, <3>1, <4>1
    <3> QED
      BY <3>2, <3>3
  <2> QED
    BY <1>3, <2>2, <2>3, <2>4 DEF CoverInv
<1>6. CASE \E u, w : Forks(Top, u, w)
  <2>1. PICK u \in Sane, w \in Sane : Forks(Top, u, w)
    BY <1>6 DEF Forks
  <2>2. /\ procs # <<>> /\ status # "failure" /\ traces' = traces /\ dropped' = dropped
        /\ SplitIf(Top, u, w) \/ SplitLabel(Top, u, w) \/ SplitDefault(Top, u, w)
        /\ procs' \in Seq(Sane) /\ Len(procs') = n + 1 /\ procs'[n] = u /\ procs'[n + 1] = w
        /\ \A i \in 1 .. n - 1 : procs'[i] = procs[i]
    BY <1>1, <2>1, StackFacts DEF Forks
  <2>domain. DOMAIN (procs') = 1 .. n + 1
    BY <2>2
  <2>3. CASE Covered(v)
    BY <2>2, <2>3 DEF Covered
  <2>4. CASE \E i \in DOMAIN procs : Pending(v, procs[i])
    <3>1. PICK i \in 1 .. n : Pending(v, procs[i])
      BY <1>1, <2>4
    <3>2. CASE i = n
      <4>1. Pending(v, Top) /\ Top \in Sane
        BY <1>1, <2>2, <3>1, <3>2, TopSane DEF Top
      <4>2. Pending(v, u) \/ Pending(v, w)
        BY <2>2, <4>1, PendingForks
      <4>3. n \in 1 .. n + 1 /\ n + 1 \in 1 .. n + 1
        BY <1>1, <3>1
      <4> HIDE DEF n
      <4> QED
        BY <2>2, <2>domain, <4>2, <4>3
    <3>3. CASE i # n
      <4> HIDE DEF n
      <4>1. i \in 1 .. n - 1 /\ i \in 1 .. n + 1
        BY <1>1, <3>1, <3>3
      <4> QED
        BY <2>2, <2>domain, <3>1, <4>1
    <3> QED
      BY <3>2, <3>3
  <2> QED
    BY <1>3, <2>2, <2>3, <2>4 DEF CoverInv
<1>7. CASE Ended(Top)
  <2>1. /\ procs # <<>> /\ status # "failure"
        /\ procs' \in Seq(Sane) /\ Len(procs') = n - 1
        /\ \A i \in 1 .. n - 1 : procs'[i] = procs[i]
    BY <1>1, <1>3, <1>7, StackFacts DEF Ended
  <2>domain. DOMAIN (procs') = 1 .. n - 1
    BY <2>1
  <2>2. \/ traces' \cup dropped' = traces \cup dropped \cup {Path(Top)}
        \/ /\ InCase(Top) /\ Top.at.n > Len(Top.at.of.labels)
           /\ traces' = traces /\ dropped' = dropped
    BY <1>3, <1>7 DEF Ended
  <2>3. CASE Covered(v)
    BY <2>2, <2>3 DEF Covered
  <2>4. CASE \E i \in DOMAIN procs : Pending(v, procs[i])
    <3>1. PICK i \in 1 .. n : Pending(v, procs[i])
      BY <1>1, <2>4
    <3>2. CASE i = n
      <4>1. Pending(v, Top)
        BY <3>1, <3>2 DEF Top
      <4>2. ASSUME InCase(Top), Top.at.n > Len(Top.at.of.labels)
            PROVE  FALSE
        <5>1. Top.at.of \in Cases /\ Top.at.n \in Nat /\ Top.at.k = "case"
          BY <4>2 DEF InCase, AtCase
        <5>2. Top.at.of.labels \in Seq(CaseLabel)
          BY <5>1, SymbolicAssumption
        <5>3. PICK m \in DOMAIN Top.at.of.labels : m >= Top.at.n
          BY <4>1, <5>1 DEF Pending, LabelFor
        <5> QED
          BY <4>2, <5>1, <5>2, <5>3
      <4>3. traces' \cup dropped' = traces \cup dropped \cup {Path(Top)}
        BY <2>2, <4>2
      <4>4. Satisfies(v, Path(Top).conds)
        BY <4>1 DEF Pending, Path
      <4>5. Covered(v)'
        BY <4>3, <4>4 DEF Covered, Satisfies
      <4> QED
        BY <4>5
    <3>3. CASE i # n
      <4> HIDE DEF n
      <4>1. i \in 1 .. n - 1
        BY <1>1, <3>1, <3>3
      <4> QED
        BY <2>1, <2>domain, <3>1, <4>1
    <3> QED
      BY <3>2, <3>3
  <2> QED
    BY <1>3, <2>1, <2>3, <2>4 DEF CoverInv
<1> QED
  BY <1>1, <1>4, <1>5, <1>6, <1>7, StepKinds

\* No input is lost: if the root ends with success, every input satisfies the
\* conditions of a path that was walked to its end, where every case has a label
\* for every value (the forks of walk_ifthenelse and walk_case).
THEOREM AllCovered == ASSUME ~ Shared, Exhaustive PROVE SSpec => []InputsCovered
<1>1. SInit /\ ~ Shared /\ Exhaustive => CoverInv
  <2> SUFFICES ASSUME SInit, ~ Shared, Exhaustive
               PROVE  CoverInv
    OBVIOUS
  <2>1. /\ procs \in Seq(Sane) /\ procs[1].at = Running /\ Known(procs[1]) = <<>>
        /\ DOMAIN procs = {1}
    BY InitFacts
  <2>2. \A v \in Valuations : Pending(v, procs[1])
    BY <2>1 DEF Pending, Satisfies, Running
  <2> QED
    BY <2>1, <2>2 DEF CoverInv, SaneInv
<1>2. CoverInv /\ [SNext]_svars => CoverInv'
  BY CoverNext
<1>3. CoverInv => InputsCovered
  BY DEF CoverInv, InputsCovered, Covered
<1> QED
  BY <1>1, <1>2, <1>3, PTL DEF SSpec

-----------------------------------------------------------------------------
(* The paths keep out of each other's way.                                 *)

\* A path, as its trace is written.
Trail == [conds : Seq(Condition), made : Seq(Made), names : Seq(Letter)]

\* The name b goes on where a ends.
Begins(a, b) == Len(a) <= Len(b) /\ \A i \in DOMAIN a : b[i] = a[i]

\* The inputs of the path q are among those of the process p.
Within(p, q) == \A v \in Valuations : Satisfies(v, q.conds) => Satisfies(v, Known(p))

\* The path q went through a child that the process p has had: that of the if it
\* waits in, or that of a label the case is done with.
Past(p, q) ==
  /\ Len(p.names) < Len(q.names) /\ Begins(p.names, q.names) /\ Within(p, q)
  /\ \/ /\ p.at.k = "if" /\ q.names[Len(p.names) + 1] = Name("I", 0)
        /\ \A v \in Valuations : Satisfies(v, q.conds) => Holds(Awaited(p), v)
     \/ /\ p.at.k = "case"
        /\ \E m \in DOMAIN p.at.of.labels :
             /\ m < p.at.n /\ ~ p.at.of.labels[m].default
             /\ q.names[Len(p.names) + 1] = Name("", m)
             /\ \A v \in Valuations :
                  Satisfies(v, q.conds) => v[p.at.of.sym] = p.at.of.labels[m].num

\* The path q and the process p share no input, and if any input takes q, p will
\* not come to its name.
Apart(p, q) ==
  /\ \A v \in Valuations : ~ (Satisfies(v, q.conds) /\ Satisfies(v, Known(p)))
  /\ Feasible(q) => ~ Begins(p.names, q.names)

\* What a trace q and a process p have to do with each other, and what a process
\* has to do with another one above it.
Told(p, q) == Defaulted(p) \/ Past(p, q) \/ Apart(p, q)
Under(p, r) == Defaulted(r) \/ Past(p, Path(r))

\* The process u goes on on the path of t.
Narrows(t, u) ==
  /\ Begins(t.names, u.names)
  /\ \A v \in Valuations : Satisfies(v, Known(u)) => Satisfies(v, Known(t))

\* A process that has had a child waits.
LEMMA PastWaits ==
  ASSUME NEW p, NEW q, Past(p, q)
  PROVE  p.at # Running
<1>1. p.at.k = "if" \/ p.at.k = "case"
  BY DEF Past
<1>2. Running.k = "run"
  BY DEF Running
<1> QED
  BY <1>1, <1>2

\* A name that goes on.
LEMMA BeginsAgain ==
  ASSUME NEW A, NEW a \in Seq(A), NEW b \in Seq(A), NEW c \in Seq(A)
  PROVE  /\ Begins(a, a)
         /\ Begins(a, b) /\ Begins(b, c) => Begins(a, c)
<1>1. Len(a) \in Nat /\ DOMAIN a = 1 .. Len(a) /\ DOMAIN b = 1 .. Len(b) /\ Len(b) \in Nat
      /\ Len(c) \in Nat
  OBVIOUS
<1> QED
  BY <1>1 DEF Begins

\* A letter more.
LEMMA BeginsLetter ==
  ASSUME NEW A, NEW a \in Seq(A), NEW x \in A
  PROVE  /\ Append(a, x) \in Seq(A) /\ Begins(a, Append(a, x))
         /\ Len(a) < Len(Append(a, x)) /\ Append(a, x)[Len(a) + 1] = x
         /\ \A b \in Seq(A) : Begins(Append(a, x), b) => Begins(a, b) /\ b[Len(a) + 1] = x
<1>1. /\ Len(a) \in Nat /\ DOMAIN a = 1 .. Len(a)
      /\ Append(a, x) \in Seq(A) /\ Len(Append(a, x)) = Len(a) + 1
      /\ DOMAIN Append(a, x) = 1 .. Len(a) + 1
      /\ Append(a, x)[Len(a) + 1] = x
      /\ \A i \in 1 .. Len(a) : Append(a, x)[i] = a[i]
  OBVIOUS
<1>2. /\ \A b \in Seq(A) : Len(b) \in Nat
      /\ Len(a) + 1 \in 1 .. Len(a) + 1
      /\ \A i \in 1 .. Len(a) : i \in 1 .. Len(a) + 1
  BY <1>1
<1> QED
  BY <1>1, <1>2 DEF Begins

\* A name with a letter more goes on the name before it.
LEMMA NamesMore ==
  ASSUME NEW a \in Seq(Letter), NEW b, NEW x \in Letter, b = Append(a, x)
  PROVE  Len(a) < Len(b) /\ Begins(a, b) /\ b[Len(a) + 1] = x
  BY BeginsLetter

\* A path that goes on keeps the default in its name.
LEMMA DefaultStays ==
  ASSUME NEW t, NEW u, Begins(t.names, u.names), t.names \in Seq(Letter), u.names \in Seq(Letter)
  PROVE  Defaulted(t) => Defaulted(u)
<1>1. /\ DOMAIN t.names = 1 .. Len(t.names) /\ DOMAIN u.names = 1 .. Len(u.names)
      /\ Len(t.names) \in Nat /\ Len(u.names) \in Nat
  OBVIOUS
<1>2. \A i \in DOMAIN t.names : i \in DOMAIN u.names
  BY <1>1 DEF Begins
<1> QED
  BY <1>2 DEF Defaulted, Begins

\* Names and path conditions have their types.
LEMMA SaneFields ==
  ASSUME NEW p \in Sane
  PROVE  /\ p.names \in Seq(Letter) /\ Known(p) \in Seq(Condition) /\ Path(p) \in Trail
         /\ Path(p).names = p.names /\ Path(p).conds = Known(p)
<1>1. p.names \in Seq(Letter) /\ p.made \in Seq(Made)
  BY Fields DEF Sane
<1>2. Known(p) \in Seq(Condition)
  BY KnownFacts
<1> QED
  BY <1>1, <1>2 DEF Path, Trail

\* Letters of a name.
LEMMA Letters ==
  /\ Name("I", 0) \in Letter /\ Name("E", 0) \in Letter /\ Name("D", 0) \in Letter
  /\ Name("I", 0) # Name("E", 0)
  /\ \A n \in Nat : /\ Name("", n) \in Letter
                    /\ \A m \in Nat : m # n => Name("", m) # Name("", n)
<1>1. Name("I", 0).c = "I" /\ Name("E", 0).c = "E" /\ \A n \in Nat : Name("", n).n = n
  BY DEF Name
<1>2. /\ Name("I", 0) # Name("E", 0)
      /\ \A n, m \in Nat : m # n => Name("", m) # Name("", n)
  BY <1>1
<1> QED
  BY <1>2 DEF Name, Letter

\* Whatever a step does to the process on top, the path goes on.
LEMMA StepNarrows ==
  ASSUME NEW t \in Sane, NEW u \in Sane
  PROVE  /\ LookedUp(t, u) \/ TookElse(t, u) \/ Began(t, u) => Narrows(t, u)
         /\ \A w \in Sane :
              SplitIf(t, u, w) \/ SplitLabel(t, u, w) \/ SplitDefault(t, u, w) =>
                Narrows(t, u) /\ Narrows(t, w)
<1>1. /\ t.names \in Seq(Letter) /\ Known(t) \in Seq(Condition) /\ Begins(t.names, t.names)
  BY SaneFields, BeginsAgain
<1>2. ASSUME NEW p \in Sane, Known(p) = Known(t), p.names = t.names
      PROVE  Narrows(t, p)
  BY <1>1, <1>2 DEF Narrows
<1>3. ASSUME NEW p \in Sane, NEW c \in Condition, NEW x \in Letter,
             Known(p) = Append(Known(t), c) \/ Known(p) = Known(t), p.names = Append(t.names, x)
      PROVE  Narrows(t, p)
  <2>1. Begins(t.names, p.names)
    BY <1>1, <1>3, BeginsLetter
  <2>2. \A v \in Valuations : Satisfies(v, Known(p)) => Satisfies(v, Known(t))
    BY <1>1, <1>3, SatisfiesPush
  <2> QED
    BY <2>1, <2>2 DEF Narrows
<1>4. ASSUME TookElse(t, u)
      PROVE  Narrows(t, u)
  <2>1. /\ Known(u) = Append(Known(t), ElseCond(Awaited(t))) /\ ElseCond(Awaited(t)) \in Condition
        /\ u.names = Append(t.names, Name("E", 0))
    BY <1>4, LearnedConditions DEF TookElse
  <2> QED
    BY <1>3, <2>1, Letters
<1>5. ASSUME NEW w \in Sane, SplitIf(t, u, w)
      PROVE  Narrows(t, u) /\ Narrows(t, w)
  <2>1. PICK c \in Conditions :
          /\ Known(u) = Known(t) /\ u.names = t.names
          /\ Known(w) = Append(Known(t), c) /\ w.names = Append(t.names, Name("I", 0))
    BY <1>5 DEF SplitIf
  <2>2. c \in Condition
    BY LearnedConditions DEF Tested
  <2> QED
    BY <1>2, <1>3, <2>1, <2>2, Letters
<1>6. ASSUME NEW w \in Sane, SplitLabel(t, u, w)
      PROVE  Narrows(t, u) /\ Narrows(t, w)
  <2>1. /\ Known(u) = Known(t) /\ u.names = t.names
        /\ Known(w) = Append(Known(t), CondOf(t)) /\ w.names = Append(t.names, Name("", t.at.n))
        /\ CondOf(t) \in Condition /\ t.at.n \in Nat
    BY <1>6, CondOfCondition DEF SplitLabel, NextAt
  <2> QED
    BY <1>2, <1>3, <2>1, Letters
<1>7. ASSUME NEW w \in Sane, SplitDefault(t, u, w)
      PROVE  Narrows(t, u) /\ Narrows(t, w)
  <2>1. /\ Known(u) = Known(t) /\ u.names = t.names
        /\ Known(w) = Known(t) /\ w.names = Append(t.names, Name("D", 0))
        /\ CondOf(t) \in Condition
    BY <1>7, CondOfCondition DEF SplitDefault, NextAt
  <2> QED
    BY <1>2, <1>3, <2>1, Letters
<1> QED
  BY <1>2, <1>4, <1>5, <1>6, <1>7 DEF LookedUp, Began

\* Apart once, apart for good.
LEMMA ApartNarrows ==
  ASSUME NEW t \in Sane, NEW u \in Sane, NEW q \in Trail, Apart(t, q), Narrows(t, u)
  PROVE  Apart(u, q)
<1>1. t.names \in Seq(Letter) /\ u.names \in Seq(Letter) /\ q.names \in Seq(Letter)
  BY SaneFields DEF Trail
<1>2. Begins(u.names, q.names) => Begins(t.names, q.names)
  BY <1>1, BeginsAgain DEF Narrows
<1> QED
  BY <1>2 DEF Apart, Narrows

\* A path that went another way at the last letter.
LEMMA OtherLetter ==
  ASSUME NEW t \in Sane, NEW u \in Sane, NEW q \in Trail, NEW x \in Letter,
         u.names = Append(t.names, x), q.names[Len(t.names) + 1] # x,
         \A v \in Valuations : ~ (Satisfies(v, q.conds) /\ Satisfies(v, Known(u)))
  PROVE  Apart(u, q)
<1>1. t.names \in Seq(Letter) /\ q.names \in Seq(Letter)
  BY SaneFields DEF Trail
<1>2. ~ Begins(u.names, q.names)
  BY <1>1, BeginsLetter
<1> QED
  BY <1>2 DEF Apart

\* The value of a path through a label the case is done with is none of the
\* label it looks at.
LEMMA OtherLabel ==
  ASSUME DistinctLabels, NEW t \in Sane, LabelLeft(t), ~ LabelOf(t).default,
         NEW q \in Trail, Past(t, q)
  PROVE  /\ q.names[Len(t.names) + 1] # Name("", t.at.n)
         /\ \A v \in Valuations : Satisfies(v, q.conds) =>
              Satisfies(v, Known(t)) /\ ~ Holds(CondOf(t), v)
<1> DEFINE k == t.at.of
<1>1. /\ k \in Cases /\ t.at.k = "case" /\ t.at.n \in Nat \ {0} /\ t.at.n \in DOMAIN k.labels
      /\ k.labels \in Seq(CaseLabel)
  BY CondOfCondition DEF LabelLeft, InCase
<1>2. PICK m \in DOMAIN k.labels :
        /\ m < t.at.n /\ ~ k.labels[m].default
        /\ q.names[Len(t.names) + 1] = Name("", m)
        /\ \A v \in Valuations : Satisfies(v, q.conds) => v[k.sym] = k.labels[m].num
  BY <1>1 DEF Past
<1>3. m \in Nat /\ m # t.at.n
  <2>1. m < t.at.n /\ m \in DOMAIN k.labels
    BY <1>2
  <2> HIDE DEF k
  <2> QED
    BY <1>1, <2>1
<1>4. Name("", m) # Name("", t.at.n)
  BY <1>1, <1>3, Letters
<1>5. k.labels[m].num # LabelOf(t).num
  BY <1>1, <1>2, <1>3 DEF DistinctLabels, LabelOf
<1>6. \A v \in Valuations : Holds(CondOf(t), v) => v[k.sym] = LabelOf(t).num
  BY DEF Holds, HoldsFor, Compare, CondOf
<1> QED
  BY <1>2, <1>4, <1>5, <1>6 DEF Past, Within

\* A trace and the process that goes on.
LEMMA ToldOn ==
  ASSUME Trusted, DistinctLabels, NEW t \in Sane, NEW u \in Sane, NEW q \in Trail, Told(t, q),
         LookedUp(t, u) \/ TookElse(t, u) \/ Began(t, u)
  PROVE  Told(u, q)
<1>1. /\ Narrows(t, u) /\ t.names \in Seq(Letter) /\ u.names \in Seq(Letter)
      /\ Known(t) \in Seq(Condition) /\ q.names \in Seq(Letter)
  BY StepNarrows, SaneFields DEF Trail
<1>2. CASE Defaulted(t)
  BY <1>1, <1>2, DefaultStays DEF Narrows, Told
<1>3. CASE Apart(t, q)
  BY <1>1, <1>3, ApartNarrows DEF Told
<1>4. CASE Past(t, q)
  <2>1. t.at # Running
    BY <1>4, PastWaits
  <2>2. CASE LookedUp(t, u)
    <3>1. PICK c \in Tested, yes \in BOOLEAN :
            /\ check_condition(Known(t), c) = IF yes THEN "TRUE" ELSE "FALSE"
            /\ LabelLeft(t) /\ ~ LabelOf(t).default /\ c = CondOf(t) /\ yes
      BY <2>1, <2>2 DEF LookedUp
    <3>2. check_condition(Known(t), c) = "TRUE" /\ c \in Condition
      BY <3>1, LearnedConditions
    <3>3. \A i \in DOMAIN Known(t) : Known(t)[i].sym = c.sym => Comparable(Known(t)[i], c)
      BY KnownFacts DEF Trusted
    <3>4. ASSUME NEW v \in Valuations, Satisfies(v, q.conds)
          PROVE  FALSE
      <4>1. Satisfies(v, Known(t)) /\ ~ Holds(c, v)
        BY <1>4, <3>1, <3>4, OtherLabel
      <4>2. v \in [Sym -> Int] /\ \A i \in DOMAIN Known(t) : Holds(Known(t)[i], v)
        BY <4>1, ValuationFacts DEF Satisfies, Holds
      <4>3. Holds(c, v)
        BY <1>1, <3>2, <3>3, <4>2, LookupSound
      <4> QED
        BY <4>1, <4>3
    <3> QED
      BY <3>4 DEF Told, Apart, Feasible
  <2>3. CASE TookElse(t, u)
    <3> DEFINE c == Awaited(t)
    <3>1. /\ t.at.k = "if" /\ c \in Conditions /\ Known(u) = Append(Known(t), ElseCond(c))
          /\ u.names = Append(t.names, Name("E", 0)) /\ ElseCond(c) \in Condition
      BY <2>3, LearnedConditions DEF TookElse
    <3>2. /\ q.names[Len(t.names) + 1] = Name("I", 0)
          /\ \A v \in Valuations : Satisfies(v, q.conds) => Holds(c, v)
      BY <1>4, <3>1 DEF Past
    <3> HIDE DEF c
    <3>3. \A v \in Valuations : Satisfies(v, Known(u)) => ~ Holds(c, v)
      BY <1>1, <3>1, SatisfiesPush, ElseHolds
    <3>4. Apart(u, q)
      BY <3>1, <3>2, <3>3, Letters, OtherLetter
    <3> QED
      BY <3>4 DEF Told
  <2> QED
    BY <1>4, <2>1, <2>2, <2>3 DEF Began
<1> QED
  BY <1>2, <1>3, <1>4 DEF Told

\* A trace and the processes after a fork.
LEMMA ToldForks ==
  ASSUME DistinctLabels, NEW t \in Sane, NEW u \in Sane, NEW w \in Sane, NEW q \in Trail,
         Told(t, q), SplitIf(t, u, w) \/ SplitLabel(t, u, w) \/ SplitDefault(t, u, w)
  PROVE  Told(u, q) /\ Told(w, q)
<1>1. /\ Narrows(t, u) /\ Narrows(t, w) /\ t.names \in Seq(Letter) /\ u.names \in Seq(Letter)
      /\ w.names \in Seq(Letter) /\ Known(t) \in Seq(Condition)
  BY StepNarrows, SaneFields
<1>2. CASE Defaulted(t)
  BY <1>1, <1>2, DefaultStays DEF Narrows, Told
<1>3. CASE Apart(t, q)
  BY <1>1, <1>3, ApartNarrows DEF Told
<1>4. CASE Past(t, q)
  <2>1. t.at # Running
    BY <1>4, PastWaits
  <2>2. ASSUME NextAt(t, u)
        PROVE  Told(u, q) /\ LabelLeft(t)
    <3>1. /\ LabelLeft(t) /\ t.at.k = "case" /\ t.at.n \in Nat /\ u.at.k = "case"
          /\ u.at.of = t.at.of /\ u.at.n = t.at.n + 1 /\ Known(u) = Known(t)
          /\ u.names = t.names /\ DOMAIN t.at.of.labels \subseteq Nat
      <4>1. LabelLeft(t) /\ t.at.of.labels \in Seq(CaseLabel) /\ t.at.n \in Nat
        BY <2>2, CondOfCondition DEF NextAt
      <4> QED
        BY <2>2, <4>1 DEF NextAt, LabelLeft, InCase
    <3>2. \A m \in DOMAIN t.at.of.labels : m < t.at.n => m < u.at.n
      BY <3>1
    <3>3. Past(u, q)
      BY <1>4, <3>1, <3>2 DEF Past, Within
    <3> QED
      BY <3>1, <3>3 DEF Told
  <2>3. CASE SplitLabel(t, u, w)
    <3>1. /\ NextAt(t, u) /\ ~ LabelOf(t).default /\ LabelLeft(t)
          /\ Known(w) = Append(Known(t), CondOf(t)) /\ w.names = Append(t.names, Name("", t.at.n))
          /\ CondOf(t) \in Condition /\ t.at.n \in Nat
      BY <2>2, <2>3, CondOfCondition DEF SplitLabel
    <3>2. /\ q.names[Len(t.names) + 1] # Name("", t.at.n)
          /\ \A v \in Valuations : Satisfies(v, q.conds) => ~ Holds(CondOf(t), v)
      BY <1>4, <3>1, OtherLabel
    <3>3. \A v \in Valuations : Satisfies(v, Known(w)) => Holds(CondOf(t), v)
      BY <1>1, <3>1, SatisfiesPush
    <3>4. Apart(w, q)
      BY <3>1, <3>2, <3>3, Letters, OtherLetter
    <3> QED
      BY <2>2, <3>1, <3>4 DEF Told
  <2>4. CASE SplitDefault(t, u, w)
    <3>1. NextAt(t, u) /\ w.names = Append(t.names, Name("D", 0))
      BY <2>4 DEF SplitDefault
    <3>2. Defaulted(w)
      <4>1. w.names \in Seq(Letter) /\ w.names[Len(t.names) + 1] = Name("D", 0)
            /\ Len(t.names) + 1 \in DOMAIN w.names
        BY <1>1, <3>1
      <4> QED
        BY <4>1 DEF Defaulted, Name
    <3> QED
      BY <2>2, <3>1, <3>2 DEF Told
  <2> QED
    BY <2>1, <2>3, <2>4 DEF SplitIf
<1> QED
  BY <1>2, <1>3, <1>4 DEF Told

\* A process above that goes on.
LEMMA UnderNarrows ==
  ASSUME NEW p \in Sane, NEW t \in Sane, NEW u \in Sane, Under(p, t), Narrows(t, u)
  PROVE  Under(p, u)
<1>1. /\ p.names \in Seq(Letter) /\ t.names \in Seq(Letter) /\ u.names \in Seq(Letter)
      /\ Begins(t.names, u.names)
      /\ Path(t).names = t.names /\ Path(t).conds = Known(t)
      /\ Path(u).names = u.names /\ Path(u).conds = Known(u)
  BY SaneFields DEF Narrows
<1>2. CASE Defaulted(t)
  BY <1>1, <1>2, DefaultStays DEF Under
<1>3. CASE Past(p, Path(t))
  <2>1. /\ Len(p.names) \in Nat /\ Len(t.names) \in Nat /\ Len(u.names) \in Nat
        /\ DOMAIN t.names = 1 .. Len(t.names)
    BY <1>1
  <2>2. /\ Len(p.names) < Len(t.names) /\ Len(t.names) <= Len(u.names)
        /\ Len(p.names) + 1 \in DOMAIN t.names
    <3>1. Len(p.names) < Len(t.names)
      BY <1>1, <1>3 DEF Past
    <3>2. Len(t.names) <= Len(u.names)
      BY <1>1 DEF Begins
    <3> QED
      BY <2>1, <3>1, <3>2
  <2>3. u.names[Len(p.names) + 1] = t.names[Len(p.names) + 1]
    BY <1>1, <2>2 DEF Begins
  <2>4. Len(p.names) < Len(u.names) /\ Begins(p.names, u.names)
    <3>1. Begins(p.names, t.names)
      BY <1>1, <1>3 DEF Past
    <3> QED
      BY <1>1, <2>1, <2>2, <3>1, BeginsAgain
  <2>5. \A v \in Valuations : Satisfies(v, Path(u).conds) => Satisfies(v, Path(t).conds)
    BY <1>1 DEF Narrows
  <2>6. Past(p, Path(u))
    BY <1>1, <1>3, <2>3, <2>4, <2>5 DEF Past, Within
  <2> QED
    BY <2>6 DEF Under
<1> QED
  BY <1>2, <1>3 DEF Under

\* A process and its new child.
LEMMA UnderChild ==
  ASSUME NEW t \in Sane, NEW u \in Sane, NEW w \in Sane,
         SplitIf(t, u, w) \/ SplitLabel(t, u, w) \/ SplitDefault(t, u, w)
  PROVE  Under(u, w)
<1>1. /\ t.names \in Seq(Letter) /\ Known(t) \in Seq(Condition)
      /\ Path(w).names = w.names /\ Path(w).conds = Known(w)
  BY SaneFields
<1>2. CASE SplitIf(t, u, w)
  <2>1. PICK c \in Conditions :
          /\ Known(u) = Known(t) /\ u.names = t.names /\ u.at.k = "if" /\ Awaited(u) = c
          /\ Known(w) = Append(Known(t), c) /\ w.names = Append(t.names, Name("I", 0))
    BY <1>2 DEF SplitIf
  <2>2. c \in Condition
    BY LearnedConditions DEF Tested
  <2>3. \A v \in Valuations : Satisfies(v, Known(w)) => Satisfies(v, Known(u)) /\ Holds(c, v)
    BY <1>1, <2>1, <2>2, SatisfiesPush
  <2>4. /\ Len(u.names) < Len(w.names) /\ Begins(u.names, w.names)
        /\ w.names[Len(u.names) + 1] = Name("I", 0)
    <3> DEFINE x == Name("I", 0)
    <3>1. u.names = t.names /\ w.names = Append(t.names, x) /\ x \in Letter
      BY <2>1, Letters
    <3> HIDE DEF x
    <3>2. Len(t.names) < Len(w.names) /\ Begins(t.names, w.names) /\ w.names[Len(t.names) + 1] = x
      BY <1>1, <3>1, NamesMore
    <3> QED
      BY <3>1, <3>2 DEF x
  <2> QED
    BY <1>1, <2>1, <2>3, <2>4 DEF Under, Past, Within
<1>3. CASE SplitLabel(t, u, w)
  <2> DEFINE c == CondOf(t)
  <2>1. /\ Known(u) = Known(t) /\ u.names = t.names /\ u.at.k = "case"
        /\ u.at.of = t.at.of /\ u.at.n = t.at.n + 1
        /\ Known(w) = Append(Known(t), c) /\ w.names = Append(t.names, Name("", t.at.n))
        /\ LabelLeft(t) /\ ~ LabelOf(t).default /\ t.at.n \in DOMAIN t.at.of.labels
    BY <1>3 DEF SplitLabel, NextAt, LabelLeft, InCase
  <2>2. c \in Condition /\ t.at.n \in Nat
    BY <2>1, CondOfCondition
  <2>3. \A v \in Valuations : Satisfies(v, Known(w)) => Satisfies(v, Known(u)) /\ Holds(c, v)
    <3> HIDE DEF c
    <3> QED
      BY <1>1, <2>1, <2>2, SatisfiesPush
  <2>4. \A v \in Valuations : Holds(c, v) => v[t.at.of.sym] = LabelOf(t).num
    BY DEF Holds, HoldsFor, Compare, CondOf
  <2>5. /\ Len(u.names) < Len(w.names) /\ Begins(u.names, w.names)
        /\ w.names[Len(u.names) + 1] = Name("", t.at.n)
    <3> DEFINE x == Name("", t.at.n)
    <3>1. u.names = t.names /\ w.names = Append(t.names, x) /\ x \in Letter
      BY <2>1, <2>2, Letters
    <3> HIDE DEF x
    <3>2. Len(t.names) < Len(w.names) /\ Begins(t.names, w.names) /\ w.names[Len(t.names) + 1] = x
      BY <1>1, <3>1, NamesMore
    <3> QED
      BY <3>1, <3>2 DEF x
  <2>6. t.at.n < u.at.n
    <3>1. u.at.n = t.at.n + 1
      BY <2>1
    <3> QED
      BY <2>2, <3>1
  <2> HIDE DEF c
  <2>7. \A v \in Valuations :
          Satisfies(v, Known(w)) => v[u.at.of.sym] = u.at.of.labels[t.at.n].num
    BY <2>1, <2>3, <2>4 DEF LabelOf
  <2>8. Within(u, Path(w))
    BY <1>1, <2>3 DEF Within
  <2>9. Past(u, Path(w))
    BY <1>1, <2>1, <2>5, <2>6, <2>7, <2>8 DEF Past, LabelOf
  <2> QED
    BY <2>9 DEF Under
<1>4. CASE SplitDefault(t, u, w)
  <2>1. w.names = Append(t.names, Name("D", 0))
    BY <1>4 DEF SplitDefault
  <2>2. w.names[Len(t.names) + 1] = Name("D", 0) /\ Len(t.names) + 1 \in DOMAIN w.names
    BY <1>1, <2>1
  <2> QED
    BY <2>2 DEF Under, Defaulted, Name
<1> QED
  BY <1>2, <1>3, <1>4

\* The traces share no input, and stand to the processes, and the processes to
\* those above them, as told.
ApartInv ==
  /\ SaneInv /\ Trusted /\ DistinctLabels /\ traces \subseteq Trail
  /\ \A p, q \in {r \in traces : ~ Defaulted(r)} :
       p # q => \A v \in Valuations : ~ (Satisfies(v, p.conds) /\ Satisfies(v, q.conds))
  /\ \A q \in traces, i \in DOMAIN procs : ~ Defaulted(q) => Told(procs[i], q)
  /\ \A i, j \in DOMAIN procs : i < j => Under(procs[i], procs[j])

\* A trace that is written stands to the processes below as told, and shares no
\* input with another one, nor the name of one that some input takes.
LEMMA NewTrace ==
  ASSUME NEW t \in Sane, t.at = Running, NEW q \in Trail, ~ Defaulted(q), Told(t, q)
  PROVE  /\ ~ Defaulted(t) =>
              \A v \in Valuations : ~ (Satisfies(v, q.conds) /\ Satisfies(v, Path(t).conds))
         /\ Feasible(q) => Path(t).names # q.names
<1>1. /\ Path(t).names = t.names /\ Path(t).conds = Known(t) /\ t.names \in Seq(Letter)
      /\ q.names \in Seq(Letter)
  BY SaneFields DEF Trail
<1>2. ~ Past(t, q)
  BY PastWaits
<1>3. Defaulted(t) => t.names # q.names
  BY DEF Defaulted
<1>4. Apart(t, q) => \A v \in Valuations : ~ (Satisfies(v, q.conds) /\ Satisfies(v, Known(t)))
  BY DEF Apart
<1>5. Apart(t, q) /\ Feasible(q) => t.names # q.names
  BY <1>1, BeginsAgain DEF Apart
<1> QED
  BY <1>1, <1>2, <1>3, <1>4, <1>5 DEF Told

\* The stack keeps the order of its processes.
LEMMA UnderNext ==
  ASSUME ApartInv, [SNext]_svars
  PROVE  \A i, j \in DOMAIN (procs') : i < j => Under(procs'[i], procs'[j])
<1> DEFINE n == Len(procs)
<1>1. /\ ~ Shared /\ procs \in Seq(Sane) /\ n \in Nat /\ DOMAIN procs = 1 .. n
      /\ \A i \in 1 .. n : procs[i] \in Sane
      /\ \A i, j \in 1 .. n : i < j => Under(procs[i], procs[j])
  BY DEF ApartInv, SaneInv
<1>2. CASE UNCHANGED svars
  BY <1>1, <1>2 DEF svars
<1>3. CASE \E u : GoesOn(Top, u)
  <2>1. PICK u \in Sane : GoesOn(Top, u)
    BY <1>3 DEF GoesOn
  <2>2. /\ procs # <<>>
        /\ LookedUp(Top, u) \/ TookElse(Top, u) \/ Began(Top, u)
        /\ procs' \in Seq(Sane) /\ Len(procs') = n /\ procs'[n] = u
        /\ \A i \in 1 .. n - 1 : procs'[i] = procs[i]
    BY <1>1, <2>1, StackFacts DEF GoesOn
  <2>3. n > 0 /\ Top \in Sane /\ procs[n] = Top
    BY <1>1, <2>2, TopSane DEF Top
  <2>4. Narrows(Top, u)
    BY <2>2, <2>3, StepNarrows
  <2> HIDE DEF n
  <2>5. DOMAIN (procs') = 1 .. n
    BY <2>2
  <2>6. \A i \in 1 .. n - 1 : i \in 1 .. n /\ i < n
    BY <1>1
  <2>7. \A i \in 1 .. n - 1 : Under(procs[i], u)
    BY <1>1, <2>3, <2>4, <2>6, UnderNarrows
  <2>8. \A i, j \in 1 .. n : i < j => i \in 1 .. n - 1 /\ (j \in 1 .. n - 1 \/ j = n)
    BY <1>1
  <2> QED
    BY <1>1, <2>2, <2>5, <2>6, <2>7, <2>8
<1>4. CASE \E u, w : Forks(Top, u, w)
  <2>1. PICK u \in Sane, w \in Sane : Forks(Top, u, w)
    BY <1>4 DEF Forks
  <2>2. /\ procs # <<>>
        /\ SplitIf(Top, u, w) \/ SplitLabel(Top, u, w) \/ SplitDefault(Top, u, w)
        /\ procs' \in Seq(Sane) /\ Len(procs') = n + 1 /\ procs'[n] = u /\ procs'[n + 1] = w
        /\ \A i \in 1 .. n - 1 : procs'[i] = procs[i]
    BY <1>1, <2>1, StackFacts DEF Forks
  <2>3. n > 0 /\ Top \in Sane /\ procs[n] = Top
    BY <1>1, <2>2, TopSane DEF Top
  <2>4. Narrows(Top, u) /\ Narrows(Top, w) /\ Under(u, w)
    BY <2>2, <2>3, StepNarrows, UnderChild
  <2> HIDE DEF n
  <2>5. DOMAIN (procs') = 1 .. n + 1
    BY <2>2
  <2>6. \A i \in 1 .. n - 1 : i \in 1 .. n /\ i < n
    BY <1>1
  <2>7. \A i \in 1 .. n - 1 : Under(procs[i], u) /\ Under(procs[i], w)
    BY <1>1, <2>3, <2>4, <2>6, UnderNarrows
  <2>8. \A i, j \in 1 .. n + 1 : i < j =>
          \/ i \in 1 .. n - 1 /\ (j \in 1 .. n - 1 \/ j = n \/ j = n + 1)
          \/ i = n /\ j = n + 1
    BY <1>1
  <2> QED
    BY <1>1, <2>2, <2>4, <2>5, <2>6, <2>7, <2>8
<1>5. CASE Ended(Top)
  <2>1. /\ procs' \in Seq(Sane) /\ Len(procs') = n - 1
        /\ \A i \in 1 .. n - 1 : procs'[i] = procs[i]
    BY <1>1, <1>5, StackFacts DEF Ended
  <2> HIDE DEF n
  <2>2. DOMAIN (procs') = 1 .. n - 1 /\ \A i \in 1 .. n - 1 : i \in 1 .. n
    BY <1>1, <2>1
  <2> QED
    BY <1>1, <2>1, <2>2
<1> QED
  BY <1>1, <1>2, <1>3, <1>4, <1>5, StepKinds

\* A step keeps the traces and may write one, that of the process on top.
LEMMA TracesGrow ==
  ASSUME ~ Shared, procs \in Seq(Sane), [SNext]_svars
  PROVE  \/ traces' = traces
         \/ procs # <<>> /\ Ended(Top) /\ Top.at = Running /\ traces' = traces \cup {Path(Top)}
<1>1. CASE Ended(Top)
  BY <1>1 DEF Ended
<1> QED
  BY <1>1, StepKinds DEF GoesOn, Forks, svars

\* A step of the machine.
LEMMA ApartNext ==
  ASSUME ApartInv, [SNext]_svars
  PROVE  ApartInv'
<1> DEFINE n == Len(procs)
           Good == {r \in traces : ~ Defaulted(r)}
           Apt == {p \in Sane : \A q \in Good : Told(p, q)}
<1>1. /\ ~ Shared /\ procs \in Seq(Sane) /\ n \in Nat /\ DOMAIN procs = 1 .. n
      /\ Trusted /\ DistinctLabels /\ traces \subseteq Trail
      /\ \A p, q \in Good :
           p # q => \A v \in Valuations : ~ (Satisfies(v, p.conds) /\ Satisfies(v, q.conds))
      /\ \A i \in DOMAIN procs : procs[i] \in Apt
      /\ \A i, j \in DOMAIN procs : i < j => Under(procs[i], procs[j])
  BY DEF ApartInv, SaneInv
<1>2. procs # <<>> => /\ n > 0 /\ Top \in Sane /\ Top \in Apt /\ procs[n] = Top
                      /\ Path(Top) \in Trail
  BY <1>1, TopSane, SaneFields DEF Top
<1>3. \A i \in DOMAIN (procs') : procs'[i] \in Apt
  <2>1. \A u \in Sane : GoesOn(Top, u) => u \in Apt
    BY <1>1, <1>2, ToldOn DEF GoesOn
  <2>2. \A u, w \in Sane : Forks(Top, u, w) => u \in Apt /\ w \in Apt
    BY <1>1, <1>2, ToldForks DEF Forks
  <2> HIDE DEF Apt
  <2> QED
    BY <1>1, <2>1, <2>2, StackIn
<1>4. traces' \subseteq Trail
  BY <1>1, <1>2, TracesGrow
<1>5. \A p, q \in {r \in traces' : ~ Defaulted(r)} :
        p # q => \A v \in Valuations : ~ (Satisfies(v, p.conds) /\ Satisfies(v, q.conds))
  <2>1. CASE traces' = traces
    BY <1>1, <2>1
  <2>2. CASE procs # <<>> /\ Top.at = Running /\ traces' = traces \cup {Path(Top)}
    <3>1. ~ Defaulted(Path(Top)) => ~ Defaulted(Top)
      BY <1>2, <2>2, SaneFields DEF Defaulted
    <3>2. ~ Defaulted(Path(Top)) => \A q \in Good : \A v \in Valuations :
            ~ (Satisfies(v, q.conds) /\ Satisfies(v, Path(Top).conds))
      BY <1>1, <1>2, <2>2, <3>1, NewTrace
    <3> QED
      BY <1>1, <2>2, <3>2
  <2> QED
    BY <1>1, <2>1, <2>2, TracesGrow
<1>6. \A q \in traces', i \in DOMAIN (procs') : ~ Defaulted(q) => Told(procs'[i], q)
  <2>1. CASE traces' = traces
    BY <1>3, <2>1
  <2>2. CASE procs # <<>> /\ Ended(Top) /\ Top.at = Running /\ traces' = traces \cup {Path(Top)}
    <3>1. /\ procs' \in Seq(Sane) /\ Len(procs') = n - 1
          /\ \A i \in 1 .. n - 1 : procs'[i] = procs[i]
      BY <1>1, <2>2, StackFacts DEF Ended
    <3>2. ~ Defaulted(Path(Top)) => ~ Defaulted(Top)
      BY <1>2, <2>2, SaneFields DEF Defaulted
    <3> HIDE DEF n
    <3>3. /\ DOMAIN (procs') = 1 .. n - 1
          /\ \A i \in 1 .. n - 1 : i \in 1 .. n /\ i < n /\ n \in 1 .. n
      BY <1>1, <3>1
    <3>4. \A i \in 1 .. n - 1 : Under(procs[i], Top)
      BY <1>1, <1>2, <2>2, <3>3
    <3>5. ~ Defaulted(Path(Top)) => \A i \in 1 .. n - 1 : Told(procs[i], Path(Top))
      BY <3>2, <3>4 DEF Under, Told
    <3> QED
      BY <1>3, <2>2, <3>1, <3>3, <3>5
  <2> QED
    BY <1>1, <2>1, <2>2, TracesGrow
<1>7. SaneInv'
  BY <1>1, SaneNext DEF SaneInv
<1>8. \A i, j \in DOMAIN (procs') : i < j => Under(procs'[i], procs'[j])
  BY UnderNext
<1> QED
  BY <1>1, <1>4, <1>5, <1>6, <1>7, <1>8
  DEF ApartInv, Trusted, DistinctLabels, Defaulted, Told, Past, Apart, Under, Within, Begins,
      Feasible, Satisfies, Known, Awaited, Holds, Path, Valuations

\* At the start nothing is told.
LEMMA ApartInitially ==
  ASSUME SInit, ~ Shared, Trusted, DistinctLabels
  PROVE  ApartInv
<1>1. procs \in Seq(Sane) /\ DOMAIN procs = {1} /\ traces = {}
  BY InitFacts
<1> QED
  BY <1>1 DEF ApartInv, SaneInv

\* No input is on two paths that are traced, but for the default branches, where
\* lookups can be trusted and no label comes twice (the inverted condition of
\* walk_ifthenelse, the labels of walk_case).
THEOREM TracesDisjoint ==
  ASSUME ~ Shared, Trusted, DistinctLabels PROVE SSpec => []PathsDisjoint
<1>1. SInit /\ ~ Shared /\ Trusted /\ DistinctLabels => ApartInv
  BY ApartInitially
<1>2. ApartInv /\ [SNext]_svars => ApartInv'
  BY ApartNext
<1>3. ApartInv => PathsDisjoint
  BY DEF ApartInv, PathsDisjoint
<1> QED
  BY <1>1, <1>2, <1>3, PTL DEF SSpec

\* The trace file of a path that some input takes is not overwritten by a later
\* one (path_name, under the same hypotheses).
THEOREM TracesStay ==
  ASSUME ~ Shared, Trusted, DistinctLabels PROVE SSpec => TracesKept
<1>1. SInit /\ ~ Shared /\ Trusted /\ DistinctLabels => ApartInv
  BY ApartInitially
<1>2. ApartInv /\ [SNext]_svars => ApartInv'
  BY ApartNext
<1>3. ASSUME ApartInv, [SNext]_svars
      PROVE  \A q \in traces, p \in traces' \ traces :
               Feasible(q) /\ ~ Defaulted(q) => p.names # q.names
  <2>1. /\ ~ Shared /\ procs \in Seq(Sane) /\ traces \subseteq Trail
        /\ \A q \in traces, i \in DOMAIN procs : ~ Defaulted(q) => Told(procs[i], q)
    BY <1>3 DEF ApartInv, SaneInv
  <2> SUFFICES ASSUME NEW q \in traces, NEW p \in traces' \ traces, Feasible(q), ~ Defaulted(q)
               PROVE  p.names # q.names
    OBVIOUS
  <2>2. procs # <<>> /\ Top.at = Running /\ p = Path(Top)
    BY <1>3, <2>1, TracesGrow
  <2>3. Top \in Sane /\ Told(Top, q)
    <3>1. Len(procs) \in DOMAIN procs
      BY <2>1, <2>2
    <3> QED
      BY <2>1, <2>2, <3>1, TopSane DEF Top
  <2> QED
    BY <2>1, <2>2, <2>3, NewTrace
<1> QED
  BY <1>1, <1>2, <1>3, PTL DEF SSpec, TracesKept

=============================================================================

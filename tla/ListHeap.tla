------------------------------ MODULE ListHeap ------------------------------
(***************************************************************************)
(* The lists of the interpreter (List and its four subclasses), the        *)
(* builtins that make them, and what ExecutionContext::apply_updates does  *)
(* with them at the end of a step.                                         *)
(*                                                                         *)
(* A BottomList holds its values in a vector, the first one at the back,   *)
(* and has a chain of TailLists behind it. A HeadList puts one value in    *)
(* front of a list, a SkipList leaves out the first values of a            *)
(* BottomList. During a step cons, tail and app only chain objects         *)
(* together; apply_updates folds what has been assigned into BottomLists,  *)
(* in place unless the usage count says that another function has the      *)
(* list, and deletes what is not used any more.                            *)
(*                                                                         *)
(* The program is left open: in each step it evaluates list expressions in *)
(* any order and assigns them, in parallel or in sequence. Concrete mode;  *)
(* the update set keeps one update per function here (see UpdateSet).      *)
(***************************************************************************)
EXTENDS Integers, FiniteSets, SequencesExt

CONSTANTS
  Fun,         \* functions of type List
  Elem,        \* the values in lists
  Undef,       \* the undefined list
  Initial,     \* initializers of functions: "none", "atom" and "cons"
  AppShared,   \* whether app is used on lists that something else refers to, or
               \* that are the tail of an empty list
  UsageMod,    \* the modulus of usage_count (2^32 in the code)
  MaxLen,      \* bound on the length of lists
  Exprs,       \* list expressions, with up to two builtins
  MaxTemp,     \* bound on temp_lists
  MaxStatements \* bound on the statements of a step

ASSUME ListHeapAssumption ==
  /\ Initial \subseteq {"none", "atom", "cons"}
  /\ Elem \subseteq Nat \ {0}
  /\ AppShared \in BOOLEAN
  /\ UsageMod \in Nat \ {0} /\ MaxLen \in Nat /\ MaxTemp \in Nat /\ MaxStatements \in Nat

VARIABLES
  heap,         \* the list objects that are allocated, by address
  temp_lists,   \* addresses, in the order of the vector
  states,       \* function_states: the address of each function's list
  updates,      \* the updates of this step, from head to tail
  executed,     \* the statements executed in this step
  sequential,   \* whether the rule is a seq block
  means,        \* auxiliary: the list each function should hold
  phase         \* "run", or "ub" after undefined behaviour

vars == <<heap, temp_lists, states, updates, executed, sequential, means, phase>>

Null == 0

HeadList(right, val) == [k |-> "head", right |-> right, val |-> val]
TailList(right, val) == [k |-> "tail", right |-> right, val |-> val]
SkipList(skip, bottom) == [k |-> "skip", skip |-> skip, bottom |-> bottom]

\* Both constructors of BottomList leave allocated_in_collect uninitialised.
BottomList(values, usage, alloc) ==
  [k |-> "bottom", values |-> values, usage |-> usage, tail |-> Null, alloc |-> alloc]

\* A list value: what value_t refers to, and (auxiliary) the list it stands for.
Value(p, s) == [p |-> p, s |-> s]
UndefValue == Value(Undef, Undef)

\* An address malloc may return.
Unused(h, temp) ==
  CHOOSE n \in 1 .. Cardinality(DOMAIN h) + Len(temp) + 1 : n \notin DOMAIN h \cup Range(temp)

With(h, p, node) == [q \in DOMAIN h \cup {p} |-> IF q = p THEN node ELSE h[q]]

-----------------------------------------------------------------------------
(* Reading a list: const_iterator.                                         *)

RECURSIVE TailElements(_, _), Elements(_, _)

\* What an iterator finds in an object that has been deleted; 0 is no value.
Freed == <<0>>

Whole(s) == 0 \notin Range(s)

TailElements(h, p) ==
  IF p = Null THEN <<>>
  ELSE IF p \notin DOMAIN h THEN Freed
  ELSE <<h[p].val>> \o TailElements(h, h[p].right)

\* do_init and next. A SkipList that leaves out more than its BottomList has
\* goes on counting in the chain of TailLists.
Elements(h, p) ==
  IF p \notin DOMAIN h THEN Freed
  ELSE CASE h[p].k = "head"   -> <<h[p].val>> \o Elements(h, h[p].right)
         [] h[p].k = "skip"   ->
              LET all == Elements(h, h[p].bottom)
              IN  SubSeq(all, h[p].skip + 1, Len(all))
         [] h[p].k = "bottom" -> Reverse(h[p].values) \o TailElements(h, h[p].tail)

\* The same for an operand that may be undef.
Denotes(h, p) == IF p = Undef THEN Undef ELSE Elements(h, p)

-----------------------------------------------------------------------------
(* Usage counts.                                                           *)

RECURSIVE BottomOf(_, _)
BottomOf(h, p) ==
  CASE h[p].k = "head" -> BottomOf(h, h[p].right)
    [] h[p].k = "skip" -> h[p].bottom
    [] h[p].k = "bottom" -> p

AddUsage(h, p, n) == [h EXCEPT ![p].usage = (@ + n) % UsageMod]

bump_usage(h, p) == AddUsage(h, BottomOf(h, p), 1)

\* For a HeadList and a SkipList the count of what is behind it goes up too.
decrease_usage(h, p) ==
  IF h[p].k = "bottom" THEN AddUsage(h, p, UsageMod - 1) ELSE bump_usage(h, p)

-----------------------------------------------------------------------------
(* collect: the list at p as a BottomList. ok is FALSE when a value is     *)
(* removed from an empty vector or a deleted object is read.               *)

Collected(h, b, ok) == [h |-> h, b |-> b, ok |-> ok]

\* TailList::collect puts the values of the chain in front of the vector.
Unchained(h, p) == Reverse(TailElements(h, h[p].tail)) \o h[p].values

\* Mutant: always in place.
CollectBottom_in_place(h, p) ==
  Collected(With(h, p, BottomList(Unchained(h, p), 1, h[p].alloc)), p,
            Whole(TailElements(h, h[p].tail)))

\* In place if nobody else uses it, else a copy that takes the tail along.
CollectBottom(h, p) ==
  LET all == Unchained(h, p)
      ok  == Whole(TailElements(h, h[p].tail))
  IN  IF h[p].usage <= 1
        THEN Collected(With(h, p, BottomList(all, 1, h[p].alloc)), p, ok)
        ELSE LET c == Unused(h, temp_lists)
             IN  Collected(With([h EXCEPT ![p].usage = @ - 1, ![p].tail = Null],
                                c, BottomList(all, 1, TRUE)), c, ok)

RECURSIVE collect(_, _)
collect(h, p) ==
  CASE h[p].k = "bottom" -> CollectBottom(h, p)
    [] h[p].k = "head" ->
         LET r == collect(h, h[p].right)
         IN  [r EXCEPT !.h[r.b].values = Append(@, h[p].val)]
    [] h[p].k = "skip" ->
         LET r == collect(h, h[p].bottom)
             n == Len(r.h[r.b].values) - h[p].skip
         IN  [r EXCEPT !.h[r.b].values = SubSeq(@, 1, n), !.ok = @ /\ n >= 0]

-----------------------------------------------------------------------------
(* Objects no value leads to are never read again, but for what the sweep  *)
(* of temp_lists asks of them. The rest of them is forgotten here, and so  *)
(* are the objects the program leaks.                                      *)

RECURSIVE Closure(_, _)
Closure(h, S) ==
  LET out(p) == CASE h[p].k \in {"head", "tail"} -> {h[p].right}
                  [] h[p].k = "skip"   -> {h[p].bottom}
                  [] h[p].k = "bottom" -> {h[p].tail}
      more == (UNION {out(p) : p \in S}) \cap DOMAIN h
  IN  IF more \subseteq S THEN S ELSE Closure(h, S \cup more)

Husk(node) ==
  IF node.k = "bottom" THEN BottomList(<<>>, node.usage, FALSE) ELSE TailList(Null, 0)

Forget(h, st, us, ts) ==
  LET values == {st[f] : f \in Fun} \cup {us[i].v.p : i \in DOMAIN us}
      live   == Closure(h, values \cap DOMAIN h)
  IN  [p \in live \cup (Range(ts) \cap DOMAIN h) |-> IF p \in live THEN h[p] ELSE Husk(h[p])]

\* Addresses are arbitrary: between two steps they are given in the order in
\* which functions and temp_lists refer to them.
Names(h, st, ts) ==
  LET first == SelectSeq([n \in 1 .. Cardinality(Fun) |-> st[SetToSeq(Fun)[n]]],
                         LAMBDA p : p # Undef)
      rest  == SetToSeq(DOMAIN h \ (Range(first) \cup Range(ts)))
      all   == first \o ts \o rest
  IN  [p \in Range(all) |-> CHOOSE n \in DOMAIN all : all[n] = p /\ \A k \in 1 .. n - 1 : all[k] # p]

Renamed(n, node) ==
  LET to(p) == IF p = Null THEN Null ELSE n[p]
  IN  CASE node.k \in {"head", "tail"} -> [node EXCEPT !.right = to(@)]
        [] node.k = "skip"   -> [node EXCEPT !.bottom = to(@)]
        [] node.k = "bottom" -> [node EXCEPT !.tail = to(@)]

-----------------------------------------------------------------------------
(* Initialisation: list atoms are not in temp_lists and keep the usage     *)
(* count 0; run() bumps the count of what is in temp_lists, once.          *)

InitialHeap(kind) ==
  CASE kind = "none" -> <<>>
    [] kind = "atom" -> << BottomList(<<1>>, 0, FALSE) >>
    [] kind = "cons" -> << HeadList(2, 1), BottomList(<<>>, 1, FALSE) >>

Init ==
  /\ \E f \in Fun, kind \in Initial :
       /\ heap = InitialHeap(kind)
       /\ states = [g \in Fun |-> IF g = f /\ kind # "none" THEN 1 ELSE Undef]
       /\ means = [g \in Fun |-> IF g = f /\ kind # "none" THEN <<1>> ELSE Undef]
  /\ temp_lists = <<>>
  /\ updates = <<>>
  /\ executed = 0
  /\ sequential \in BOOLEAN
  /\ phase = "run"

-----------------------------------------------------------------------------
(* Expressions: a function, undef or a list atom, and builtins applied to  *)
(* it. They are evaluated in a memory m, the heap and temp_lists.          *)

Running == phase = "run"

Updated(f) == {i \in DOMAIN updates : updates[i].f = f}

\* The value of a function: its update is seen in a seq block only.
Read(f) ==
  IF sequential /\ Updated(f) # {} THEN updates[CHOOSE i \in Updated(f) : TRUE].v
  ELSE Value(states[f], means[f])

\* The memory with a new object, and the value of the expression so far.
Made(m, node, temp, v) ==
  LET p == Unused(m.h, m.temp)
  IN  [h |-> With(m.h, p, node), temp |-> IF temp THEN Append(m.temp, p) ELSE m.temp,
       v |-> IF v.p = Null THEN Value(p, v.s) ELSE v, safe |-> m.safe]

New(s) == Value(Null, s)

\* safe (auxiliary) records that app is used as described below.
Memory(v) == [h |-> heap, temp |-> temp_lists, v |-> v, safe |-> TRUE]

\* A list atom is a new BottomList that is not put into temp_lists.
Operand(a) ==
  CASE a.k = "undef" -> Memory(UndefValue)
    [] a.k = "read"  -> Memory(Read(a.f))
    [] a.k = "atom"  -> Made(Memory(UndefValue), BottomList(Reverse(a.s), 0, a.alloc), FALSE,
                             New(a.s))

cons(m, e) == Made(m, HeadList(m.v.p, e), TRUE, New(<<e>> \o m.v.s))

Rest(s) == IF s = <<>> THEN <<>> ELSE Tail(s)

\* Mutant: a SkipList of a SkipList leaves out one value only.
tail_skip_one(m) ==
  LET n == m.h[m.v.p]
  IN  CASE n.k = "head"   -> [m EXCEPT !.v = Value(n.right, Rest(m.v.s))]
        [] n.k = "bottom" -> Made(m, SkipList(1, m.v.p), TRUE, New(Rest(m.v.s)))
        [] n.k = "skip"   -> Made(m, SkipList(1, n.bottom), TRUE, New(Rest(m.v.s)))

tail(m) ==
  LET n == m.h[m.v.p]
  IN  CASE n.k = "head"   -> [m EXCEPT !.v = Value(n.right, Rest(m.v.s))]
        [] n.k = "bottom" -> Made(m, SkipList(1, m.v.p), TRUE, New(Rest(m.v.s)))
        [] n.k = "skip"   -> Made(m, SkipList(n.skip + 1, n.bottom), TRUE, New(Rest(m.v.s)))

\* The list at p ends in a SkipList that leaves out more than there is.
RECURSIVE Overrun(_, _)
Overrun(h, p) ==
  CASE h[p].k = "head" -> Overrun(h, h[p].right)
    [] h[p].k = "skip" -> h[p].skip > Len(Elements(h, h[p].bottom))
    [] h[p].k = "bottom" -> FALSE

\* The last object of the chain that starts at p.
RECURSIVE LastOf(_, _)
LastOf(h, p) == IF h[p].right = Null THEN p ELSE LastOf(h, h[p].right)

\* app hangs a TailList behind the BottomList the operand ends in, and returns
\* the operand itself.
app(m, e) ==
  LET b   == BottomOf(m.h, m.v.p)
      p   == Unused(m.h, m.temp)
      new == Made([m EXCEPT !.safe = @ /\ ~ Overrun(m.h, m.v.p)], TailList(Null, e), TRUE,
                  Value(m.v.p, Append(m.v.s, e)))
  IN  IF m.h[b].tail = Null THEN [new EXCEPT !.h[b].tail = p]
      ELSE [new EXCEPT !.h[LastOf(m.h, m.h[b].tail)].right = p]

\* Each builtin is undef on undef.
Apply(m, op) ==
  CASE m.v.p = Undef  -> m
    [] op.k = "cons"  -> cons(m, op.e)
    [] op.k = "app"   -> app(m, op.e)
    [] op.k = "tail"  -> tail(m)

Eval(x) == FoldLeft(Apply, Operand(x.a), x.ops)

-----------------------------------------------------------------------------
(* Programs for which app is safe, unless AppShared: what a TailList hangs *)
(* behind belongs to one value only (a second reader would see the new     *)
(* value as well, and of two functions that are assigned the list one      *)
(* would lose it), and is not the tail of an empty list, which would leave *)
(* out the new value.                                                      *)

\* More than one of the functions, the updates and the value v end in b.
Shared(b, h, us, v) ==
  LET ends(p) == p # Undef /\ BottomOf(h, p) = b
      funs    == {f \in Fun : ends(states[f])}
      upds    == {i \in DOMAIN us : ends(us[i].v.p)}
  IN  Cardinality(funs) + Cardinality(upds) > (IF ends(v.p) THEN 0 ELSE 1)

Linear(h, us, v) ==
  \A b \in {p \in DOMAIN h : h[p].k = "bottom" /\ h[p].tail # Null} : ~ Shared(b, h, us, v)

Safe(m, us) == AppShared \/ (m.safe /\ Linear(m.h, us, m.v))

Bounded(m) == Len(m.temp) <= MaxTemp /\ (m.v.p # Undef => Len(m.v.s) <= MaxLen)

-----------------------------------------------------------------------------
(* Statements.                                                             *)

\* casm_updateset_add: a second update of f replaces the first in a seq block;
\* in a par block it would end the process.
Add(f, v) ==
  LET at == Updated(f)
  IN  IF at = {} THEN Append(updates, [f |-> f, v |-> v])
      ELSE [updates EXCEPT ![CHOOSE i \in at : TRUE].v = v]

\* f := the value of m.
Assign(f, m) ==
  /\ Running /\ (sequential \/ Updated(f) = {})
  /\ executed < MaxStatements /\ executed' = executed + 1
  /\ Bounded(m) /\ Safe(m, SelectSeq(updates, LAMBDA u : u.f # f))
  /\ updates' = Add(f, m.v)
  /\ temp_lists' = m.temp
  /\ heap' = Forget(m.h, states, updates', m.temp)
  /\ UNCHANGED <<states, sequential, means, phase>>

visit_update(f, x) == Assign(f, Eval(x))

OnFunction(f, op) == [a |-> [k |-> "read", f |-> f], ops |-> <<op>>]

\* push e into f, and pop from f: cons and tail on the value of the function.
visit_push(f, e) == Assign(f, Eval(OnFunction(f, [k |-> "cons", e |-> e])))
visit_pop(f) == Assign(f, Eval(OnFunction(f, [k |-> "tail"])))

\* An expression is evaluated and its value is not kept: an argument of print,
\* the condition of an if. Its objects stay until the end of the step.
evaluate(x) ==
  /\ Running
  /\ executed < MaxStatements /\ executed' = executed + 1
  /\ LET m == Eval(x)
     IN  /\ Bounded(m) /\ Safe(m, updates)
         /\ temp_lists' = m.temp
         /\ heap' = Forget(m.h, states, updates, m.temp)
  /\ UNCHANGED <<states, updates, sequential, means, phase>>

-----------------------------------------------------------------------------
(* The end of a step.                                                      *)

\* One update of a list, in the loop from the tail of the update set. m is the
\* memory: the heap, the function states and to_fold.
Write(m, u) ==
  LET old == m.states[u.f]
      dec == IF old = Undef THEN m.h ELSE decrease_usage(m.h, old)
  IN  IF u.v.p = Undef
        THEN [m EXCEPT !.h = dec, !.states[u.f] = Undef]
        ELSE [m EXCEPT !.h = bump_usage(dec, u.v.p), !.states[u.f] = u.v.p,
                       !.fold = Append(@, u.f)]

\* A chained list becomes a BottomList; a copy goes into temp_lists.
Fold(m, f) ==
  LET c == collect(m.h, m.states[f])
  IN  IF ~ (m.ok /\ c.ok) THEN [m EXCEPT !.ok = FALSE]
      ELSE [m EXCEPT !.h = [c.h EXCEPT ![c.b].alloc = FALSE],
                     !.states[f] = c.b,
                     !.temp = IF c.h[c.b].alloc THEN Append(@, c.b) ELSE @]

\* Mutant: BottomLists that are in use are deleted as well.
Unneeded_all(m, i) == TRUE

\* Not a BottomList that is currently used.
Unneeded(m, i) ==
  LET n == m.h[m.temp[i]] IN ~ (n.k = "bottom" /\ n.usage > 0)

\* One index of `deleted`, in ascending order: the last element is moved there.
\* An index beyond the shrunken vector is written to in its spare capacity.
MoveLast(ts, i) ==
  Front(IF i \in DOMAIN ts THEN [ts EXCEPT ![i] = Last(ts)] ELSE ts)

Sweep(m) ==
  LET deleted == SelectSeq([i \in DOMAIN m.temp |-> i], LAMBDA i : Unneeded(m, i))
      gone    == {m.temp[deleted[i]] : i \in DOMAIN deleted}
  IN  [m EXCEPT !.h = [p \in DOMAIN m.h \ gone |-> m.h[p]],
                !.temp = FoldLeft(MoveLast, m.temp, deleted)]

Applied ==
  LET m0 == [h |-> heap, states |-> states, temp |-> temp_lists, fold |-> <<>>, ok |-> TRUE]
      m1 == FoldLeft(Write, m0, Reverse(updates))
      m2 == FoldLeft(Fold, m1, m1.fold)
  IN  IF m2.ok /\ \A i \in DOMAIN m2.temp : m2.temp[i] \in DOMAIN m2.h
        THEN Sweep(m2) ELSE [m2 EXCEPT !.ok = FALSE]

apply_updates ==
  /\ Running
  /\ Applied.ok
  /\ LET m == Applied
         h == Forget(m.h, m.states, <<>>, m.temp)
         n == Names(h, m.states, m.temp)
     IN  /\ temp_lists' = [i \in DOMAIN m.temp |-> n[m.temp[i]]]
         /\ states' = [f \in Fun |-> IF m.states[f] = Undef THEN Undef ELSE n[m.states[f]]]
         /\ heap' = [q \in {n[p] : p \in DOMAIN h} |->
                       LET p == CHOOSE r \in DOMAIN h : n[r] = q IN Renamed(n, h[p])]
  /\ means' = [f \in Fun |-> IF Updated(f) = {} THEN means[f]
                             ELSE updates[CHOOSE i \in Updated(f) : TRUE].v.s]
  /\ updates' = <<>>
  /\ executed' = 0
  /\ UNCHANGED <<sequential, phase>>

\* tail of an empty list is assigned, or temp_lists has a deleted object.
apply_updates_ub ==
  /\ Running
  /\ ~ Applied.ok
  /\ phase' = "ub"
  /\ UNCHANGED <<heap, temp_lists, states, updates, executed, sequential, means>>

undefined == phase = "ub" /\ UNCHANGED vars

Next ==
  \/ \E f \in Fun, x \in Exprs : visit_update(f, x)
  \/ \E f \in Fun, e \in Elem : visit_push(f, e)
  \/ \E f \in Fun : visit_pop(f)
  \/ \E x \in Exprs : evaluate(x)
  \/ apply_updates \/ apply_updates_ub \/ undefined

Spec == Init /\ [][Next]_vars

-----------------------------------------------------------------------------
(* Properties.                                                             *)

\* Every function holds the list the program gave it, whatever was chained,
\* folded in place, copied or deleted since: no other update changes it and no
\* part of it is deleted.
FunctionsHold == Running => \A f \in Fun : Denotes(heap, states[f]) = means[f]

\* The values of the updates stay what they were when they were computed, until
\* they are applied: later expressions of the step build on lists they refer to.
UpdatesHold ==
  Running => \A i \in DOMAIN updates : Denotes(heap, updates[i].v.p) = updates[i].v.s

\* What collect relies on when it folds in place (value.cpp:574): between the
\* steps a BottomList that a function holds is counted, and is no other
\* function's.
CountedOnce ==
  Running => \A f \in Fun : states[f] # Undef =>
    /\ heap[BottomOf(heap, states[f])].usage >= 1
    /\ \A g \in Fun \ {f} : states[g] # Undef =>
         BottomOf(heap, states[f]) # BottomOf(heap, states[g])

\* After a step temp_lists has no list that the step deleted: execution_context.cpp:234
\* says "remove deleted lists from temp_lists", and the next step asks each of
\* them for its usage.
DeletedForgotten == \A i \in DOMAIN temp_lists : temp_lists[i] \in DOMAIN heap

=============================================================================

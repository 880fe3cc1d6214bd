--------------------------- MODULE CasmWalkerProofs ---------------------------
(***************************************************************************)
(* Proofs about CasmWalker, for every set of well-typed machines: the      *)
(* walker leaves the blocks it enters, in order, and drives the update set *)
(* only in the ways UpdateSet allows.                                      *)
(***************************************************************************)
EXTENDS CasmWalker, UpdateSetRefinement

USE UpdateSetAssumption

-----------------------------------------------------------------------------
(* What is left to do ends the blocks that are open.                       *)

Items ==
  {Stmt(p[1], p[2]) : p \in Visits}
    \cup {[k |-> "while", s |-> p[1], i |-> p[2]] : p \in {q \in Visits : q[1].t = "iterate"}}
    \cup {Todo("leave_seq"), Todo("leave_par"), Todo("end_round")}

\* What ends a block of each kind.
Closer == [seq |-> "leave_seq", par |-> "leave_par", iterate |-> "while", round |-> "end_round"]

\* f tells where in ts each block of bs ends: the innermost first, and nothing
\* else in ts ends a block.
ClosedAt(ts, bs, f) ==
  /\ f \in [1 .. Len(bs) -> 1 .. Len(ts)]
  /\ \A i, j \in 1 .. Len(bs) : i < j => f[j] < f[i]
  /\ \A i \in 1 .. Len(bs) : ts[f[i]].k = Closer[bs[i].kind]
  /\ \A n \in 1 .. Len(ts) : ts[n].k # "stmt" => \E i \in 1 .. Len(bs) : f[i] = n

Closes(ts, bs) == \E f : ClosedAt(ts, bs, f)

SameKinds(bs, cs) ==
  Len(bs) = Len(cs) /\ \A i \in 1 .. Len(bs) : bs[i].kind = cs[i].kind

\* An item of the list: a statement the type checker has accepted, an iterate,
\* or the end of a block.
LEMMA ItemFacts ==
  ASSUME NEW x \in Items
  PROVE  \/ x.k \in {"stmt", "while"} /\ WellTyped(x.s, x.i, Visits)
         \/ x.k \in {"leave_seq", "leave_par", "end_round"}
<1>1. \A p \in Visits : WellTyped(p[1], p[2], Visits)
  BY WalkerAssumption DEF Accepted
<1>2. CASE \/ x \in {Stmt(p[1], p[2]) : p \in Visits}
           \/ x \in {[k |-> "while", s |-> p[1], i |-> p[2]] : p \in {q \in Visits : q[1].t = "iterate"}}
  <2>1. PICK p \in Visits : \/ x = Stmt(p[1], p[2])
                            \/ x = [k |-> "while", s |-> p[1], i |-> p[2]]
    BY <1>2
  <2>2. x.k \in {"stmt", "while"} /\ x.s = p[1] /\ x.i = p[2]
    BY <2>1 DEF Stmt
  <2> QED
    BY <1>1, <2>2
<1>3. CASE x \in {Todo("leave_seq"), Todo("leave_par"), Todo("end_round")}
  BY <1>3 DEF Todo
<1> QED
  BY <1>2, <1>3 DEF Items

\* Statements of the machines are items.
LEMMA StmtItems ==
  ASSUME NEW s, NEW i, <<s, i>> \in Visits
  PROVE  /\ Stmt(s, i) \in Items /\ Stmt(s, i).k = "stmt"
         /\ s.t = "iterate" => [k |-> "while", s |-> s, i |-> i] \in Items
<1> DEFINE p == <<s, i>>
<1>1. p \in Visits /\ p[1] = s /\ p[2] = i
  OBVIOUS
<1> HIDE DEF p
<1>2. /\ Stmt(p[1], p[2]) \in Items
      /\ p[1].t = "iterate" => [k |-> "while", s |-> p[1], i |-> p[2]] \in Items
  BY <1>1 DEF Items
<1> QED
  BY <1>1, <1>2 DEF Stmt

\* Blocks of the same kinds end alike.
LEMMA ClosesSame ==
  ASSUME NEW ts, NEW bs \in Seq(Block), NEW cs \in Seq(Block),
         SameKinds(bs, cs), Closes(ts, bs)
  PROVE  Closes(ts, cs)
<1>1. PICK f : ClosedAt(ts, bs, f)
  BY DEF Closes
<1>2. ClosedAt(ts, cs, f)
  BY <1>1 DEF ClosedAt, SameKinds
<1> QED
  BY <1>2 DEF Closes

\* Statements in front of the list change nothing.
LEMMA ClosesShift ==
  ASSUME NEW ts \in Seq(Items), NEW us \in Seq(Items), NEW bs \in Seq(Block), NEW d \in Nat,
         Len(us) = Len(ts) + d,
         \A n \in 1 .. Len(ts) : us[n + d] = ts[n],
         \A n \in 1 .. d : us[n].k = "stmt",
         Closes(ts, bs)
  PROVE  Closes(us, bs)
<1>1. PICK f : ClosedAt(ts, bs, f)
  BY DEF Closes
<1> DEFINE g == [i \in 1 .. Len(bs) |-> f[i] + d]
<1>2. /\ f \in [1 .. Len(bs) -> 1 .. Len(ts)]
      /\ Len(ts) \in Nat /\ Len(bs) \in Nat
      /\ \A i \in 1 .. Len(bs) : g[i] = f[i] + d /\ f[i] \in 1 .. Len(ts)
  <2>1. f \in [1 .. Len(bs) -> 1 .. Len(ts)]
    BY <1>1 DEF ClosedAt
  <2>2. Len(ts) \in Nat /\ Len(bs) \in Nat
    OBVIOUS
  <2> QED
    BY <2>1, <2>2
<1>3. g \in [1 .. Len(bs) -> 1 .. Len(us)]
  BY <1>2
<1> HIDE DEF g
<1>4. \A i, j \in 1 .. Len(bs) : i < j => g[j] < g[i]
  BY <1>1, <1>2 DEF ClosedAt
<1>5. \A i \in 1 .. Len(bs) : us[g[i]].k = Closer[bs[i].kind]
  BY <1>1, <1>2 DEF ClosedAt
<1>6. ASSUME NEW n \in 1 .. Len(us), us[n].k # "stmt"
      PROVE  \E i \in 1 .. Len(bs) : g[i] = n
  <2>1. n > d
    BY <1>6
  <2>2. n - d \in 1 .. Len(ts) /\ us[n] = ts[n - d]
    <3>1. n - d \in 1 .. Len(ts) /\ (n - d) + d = n
      BY <1>2, <2>1
    <3> QED
      BY <3>1
  <2>3. PICK i \in 1 .. Len(bs) : f[i] = n - d
    BY <1>1, <1>6, <2>2 DEF ClosedAt
  <2>4. n \in Nat /\ (n - d) + d = n
    BY <1>2
  <2>5. g[i] = n
    BY <1>2, <2>3, <2>4
  <2> QED
    BY <2>5
<1>7. ClosedAt(us, bs, g)
  BY <1>3, <1>4, <1>5, <1>6 DEF ClosedAt
<1> QED
  BY <1>7 DEF Closes

\* A new block ends at the head of the list.
LEMMA ClosesNew ==
  ASSUME NEW ts \in Seq(Items), NEW us \in Seq(Items),
         NEW bs \in Seq(Block), NEW cs \in Seq(Block),
         Len(us) = Len(ts) + 1,
         \A n \in 1 .. Len(ts) : us[n + 1] = ts[n],
         Len(cs) = Len(bs) + 1,
         \A i \in 1 .. Len(bs) : cs[i].kind = bs[i].kind,
         us[1].k = Closer[cs[Len(cs)].kind],
         Closes(ts, bs)
  PROVE  Closes(us, cs)
<1>1. PICK f : ClosedAt(ts, bs, f)
  BY DEF Closes
<1> DEFINE m == Len(bs)
           g == [i \in 1 .. m + 1 |-> IF i = m + 1 THEN 1 ELSE f[i] + 1]
<1>2. /\ f \in [1 .. m -> 1 .. Len(ts)]
      /\ Len(ts) \in Nat /\ m \in Nat /\ Len(cs) = m + 1
      /\ \A i \in 1 .. m : g[i] = f[i] + 1 /\ f[i] \in 1 .. Len(ts)
      /\ g[m + 1] = 1
  <2>1. f \in [1 .. m -> 1 .. Len(ts)]
    BY <1>1 DEF ClosedAt
  <2>2. Len(ts) \in Nat /\ m \in Nat /\ Len(cs) = m + 1
    OBVIOUS
  <2> HIDE DEF m
  <2>3. m + 1 \in 1 .. m + 1 /\ \A i \in 1 .. m : i \in 1 .. m + 1 /\ i # m + 1
    BY <2>2
  <2> QED
    BY <2>1, <2>2, <2>3
<1>3. g \in [1 .. Len(cs) -> 1 .. Len(us)]
  <2> HIDE DEF m
  <2>1. \A i \in 1 .. m + 1 : i = m + 1 \/ i \in 1 .. m
    BY <1>2
  <2> QED
    BY <1>2, <2>1
<1>a. /\ \A i, j \in 1 .. m : i < j => f[j] < f[i]
      /\ \A i \in 1 .. m : ts[f[i]].k = Closer[bs[i].kind]
      /\ \A n \in 1 .. Len(ts) : ts[n].k # "stmt" => \E i \in 1 .. m : f[i] = n
      /\ \A i \in 1 .. m : bs[i].kind = cs[i].kind
  BY <1>1 DEF ClosedAt
<1> HIDE DEF g, m
<1>4. ASSUME NEW i \in 1 .. Len(cs), NEW j \in 1 .. Len(cs), i < j
      PROVE  g[j] < g[i]
  <2>1. i \in 1 .. m /\ (j \in 1 .. m \/ j = m + 1)
    BY <1>2, <1>4
  <2>2. CASE j \in 1 .. m
    <3>1. f[j] < f[i]
      BY <1>a, <1>4, <2>1, <2>2
    <3> QED
      BY <1>2, <2>1, <2>2, <3>1
  <2>3. CASE j = m + 1
    BY <1>2, <2>1, <2>3
  <2> QED
    BY <2>1, <2>2, <2>3
<1>5. ASSUME NEW i \in 1 .. Len(cs)
      PROVE  us[g[i]].k = Closer[cs[i].kind]
  <2>1. CASE i \in 1 .. m
    <3>1. us[g[i]] = ts[f[i]]
      BY <1>2, <2>1
    <3> QED
      BY <1>a, <2>1, <3>1
  <2>2. CASE i = m + 1
    BY <1>2, <2>2
  <2> QED
    BY <1>2, <2>1, <2>2
<1>6. ASSUME NEW n \in 1 .. Len(us), us[n].k # "stmt"
      PROVE  \E i \in 1 .. Len(cs) : g[i] = n
  <2>1. CASE n = 1
    BY <1>2, <2>1
  <2>2. CASE n > 1
    <3>1. n - 1 \in 1 .. Len(ts) /\ (n - 1) + 1 = n
      BY <1>2, <2>2
    <3>2. us[n] = ts[n - 1]
      BY <3>1
    <3>3. PICK i \in 1 .. m : f[i] = n - 1
      BY <1>a, <1>6, <3>1, <3>2
    <3>4. g[i] = n /\ i \in 1 .. Len(cs)
      BY <1>2, <3>1, <3>3
    <3> QED
      BY <3>4
  <2> QED
    BY <2>1, <2>2
<1>7. ClosedAt(us, cs, g)
  BY <1>3, <1>4, <1>5, <1>6 DEF ClosedAt
<1> QED
  BY <1>7 DEF Closes

\* A statement at the head of the list may be taken off.
LEMMA ClosesPastStmt ==
  ASSUME NEW ts \in Seq(Items), NEW bs \in Seq(Block), ts # <<>>, ts[1].k = "stmt",
         Closes(ts, bs)
  PROVE  Closes(Tail(ts), bs)
<1>1. PICK f : ClosedAt(ts, bs, f)
  BY DEF Closes
<1> DEFINE g == [i \in 1 .. Len(bs) |-> f[i] - 1]
           us == Tail(ts)
<1>2. /\ f \in [1 .. Len(bs) -> 1 .. Len(ts)]
      /\ Len(ts) \in Nat \ {0} /\ Len(bs) \in Nat
      /\ Len(us) = Len(ts) - 1
      /\ \A n \in 1 .. Len(ts) - 1 : us[n] = ts[n + 1]
  BY <1>1 DEF ClosedAt
<1>3. \A i \in 1 .. Len(bs) : f[i] \in 2 .. Len(ts)
  <2> SUFFICES ASSUME NEW i \in 1 .. Len(bs)
               PROVE  f[i] \in 2 .. Len(ts)
    OBVIOUS
  <2>1. bs[i] \in Block
    OBVIOUS
  <2>2. bs[i].kind \in {"seq", "par", "iterate", "round"}
    BY <2>1 DEF Block
  <2>3. Closer[bs[i].kind] # "stmt"
    BY <2>2 DEF Closer
  <2>4. ts[f[i]].k # "stmt"
    BY <1>1, <2>3 DEF ClosedAt
  <2>5. f[i] # 1 /\ f[i] \in 1 .. Len(ts)
    BY <1>2, <2>4
  <2> QED
    BY <1>2, <2>5
<1>4. g \in [1 .. Len(bs) -> 1 .. Len(us)]
  BY <1>2, <1>3
<1>5. \A i \in 1 .. Len(bs) : g[i] = f[i] - 1 /\ us[g[i]] = ts[f[i]]
  <2>1. \A i \in 1 .. Len(bs) : g[i] = f[i] - 1
    OBVIOUS
  <2>2. \A i \in 1 .. Len(bs) : f[i] - 1 \in 1 .. Len(ts) - 1 /\ (f[i] - 1) + 1 = f[i]
    BY <1>2, <1>3
  <2> HIDE DEF g, us
  <2> QED
    BY <1>2, <2>1, <2>2
<1> HIDE DEF g, us
<1>6. \A i, j \in 1 .. Len(bs) : i < j => g[j] < g[i]
  BY <1>1, <1>2, <1>3, <1>5 DEF ClosedAt
<1>7. \A i \in 1 .. Len(bs) : us[g[i]].k = Closer[bs[i].kind]
  BY <1>1, <1>5 DEF ClosedAt
<1>8. ASSUME NEW n \in 1 .. Len(us), us[n].k # "stmt"
      PROVE  \E i \in 1 .. Len(bs) : g[i] = n
  <2>1. n + 1 \in 1 .. Len(ts) /\ us[n] = ts[n + 1] /\ n \in Nat
    BY <1>2
  <2>2. PICK i \in 1 .. Len(bs) : f[i] = n + 1
    BY <1>1, <1>8, <2>1 DEF ClosedAt
  <2>3. g[i] = f[i] - 1
    BY <1>5
  <2>4. g[i] = n
    BY <2>1, <2>2, <2>3
  <2> QED
    BY <2>4
<1>9. ClosedAt(us, bs, g)
  BY <1>4, <1>6, <1>7, <1>8 DEF ClosedAt
<1> QED
  BY <1>9 DEF Closes, us

\* What ends a block is at the head of the list only if it ends the innermost
\* one; without both, the rest of the list ends the other blocks.
LEMMA ClosesPastEnd ==
  ASSUME NEW ts \in Seq(Items), NEW bs \in Seq(Block), ts # <<>>, ts[1].k # "stmt",
         Closes(ts, bs)
  PROVE  /\ Len(bs) > 0 /\ ts[1].k = Closer[bs[Len(bs)].kind]
         /\ \A cs \in Seq(Block) :
              /\ Len(cs) = Len(bs) - 1
              /\ \A i \in 1 .. Len(bs) - 1 : cs[i].kind = bs[i].kind
              => Closes(Tail(ts), cs)
<1>1. PICK f : ClosedAt(ts, bs, f)
  BY DEF Closes
<1> DEFINE us == Tail(ts)
           m == Len(bs)
<1>2. /\ f \in [1 .. m -> 1 .. Len(ts)]
      /\ Len(ts) \in Nat \ {0} /\ m \in Nat
      /\ Len(us) = Len(ts) - 1
      /\ \A n \in 1 .. Len(ts) - 1 : us[n] = ts[n + 1]
  BY <1>1 DEF ClosedAt
<1>3. PICK h \in 1 .. m : f[h] = 1
  <2>1. 1 \in 1 .. Len(ts)
    BY <1>2
  <2> QED
    BY <1>1, <2>1 DEF ClosedAt
<1>4. h = m /\ m > 0
  <2>1. m \in 1 .. m /\ h <= m
    BY <1>2, <1>3
  <2>2. h < m => f[m] < f[h]
    BY <1>1, <2>1 DEF ClosedAt
  <2>3. f[m] \in 1 .. Len(ts)
    BY <1>2, <2>1
  <2> QED
    BY <1>2, <1>3, <2>1, <2>2, <2>3
<1>5. ts[1].k = Closer[bs[m].kind]
  BY <1>1, <1>3, <1>4 DEF ClosedAt
<1>6. ASSUME NEW cs \in Seq(Block), Len(cs) = m - 1,
             \A i \in 1 .. m - 1 : cs[i].kind = bs[i].kind
      PROVE  Closes(us, cs)
  <2> DEFINE g == [i \in 1 .. m - 1 |-> f[i] - 1]
  <2>1. \A i \in 1 .. m - 1 : f[i] \in 2 .. Len(ts)
    <3>1. \A i \in 1 .. m - 1 : i \in 1 .. m /\ m \in 1 .. m /\ i < m
      BY <1>2, <1>4
    <3>2. \A i \in 1 .. m - 1 : f[m] < f[i] /\ f[i] \in 1 .. Len(ts)
      BY <1>1, <1>2, <3>1 DEF ClosedAt
    <3> QED
      BY <1>2, <1>3, <1>4, <3>2
  <2>2. g \in [1 .. Len(cs) -> 1 .. Len(us)]
    BY <1>2, <1>6, <2>1
  <2>3. \A i \in 1 .. m - 1 : g[i] = f[i] - 1 /\ us[g[i]] = ts[f[i]]
    <3>1. \A i \in 1 .. m - 1 : g[i] = f[i] - 1
      OBVIOUS
    <3>2. \A i \in 1 .. m - 1 : f[i] - 1 \in 1 .. Len(ts) - 1 /\ (f[i] - 1) + 1 = f[i]
      BY <1>2, <2>1
    <3> HIDE DEF g, us
    <3> QED
      BY <1>2, <3>1, <3>2
  <2> HIDE DEF g, us
  <2>4. \A i, j \in 1 .. m - 1 : i < j => g[j] < g[i]
    BY <1>1, <1>2, <2>1, <2>3 DEF ClosedAt
  <2>5. ASSUME NEW i \in 1 .. m - 1
        PROVE  us[g[i]].k = Closer[cs[i].kind]
    <3>1. i \in 1 .. m /\ us[g[i]] = ts[f[i]] /\ cs[i].kind = bs[i].kind
      BY <1>2, <1>6, <2>3
    <3> QED
      BY <1>1, <3>1 DEF ClosedAt
  <2>6. ASSUME NEW n \in 1 .. Len(us), us[n].k # "stmt"
        PROVE  \E i \in 1 .. m - 1 : g[i] = n
    <3>1. n + 1 \in 1 .. Len(ts) /\ us[n] = ts[n + 1] /\ n \in Nat /\ n >= 1
      BY <1>2
    <3>2. PICK i \in 1 .. m : f[i] = n + 1
      BY <1>1, <2>6, <3>1 DEF ClosedAt
    <3>3. i # m
      BY <1>3, <1>4, <3>1, <3>2
    <3>4. i \in 1 .. m - 1
      BY <1>2, <3>3
    <3>5. g[i] = f[i] - 1
      BY <2>3, <3>4
    <3>6. g[i] = n
      BY <3>1, <3>2, <3>5
    <3> QED
      BY <3>4, <3>6
  <2>7. ClosedAt(us, cs, g)
    BY <1>6, <2>2, <2>4, <2>5, <2>6 DEF ClosedAt
  <2> QED
    BY <2>7 DEF Closes
<1> QED
  BY <1>4, <1>5, <1>6

\* With nothing left to do no block is open.
LEMMA ClosesNothing ==
  ASSUME NEW bs \in Seq(Block), Closes(<<>>, bs)
  PROVE  bs = <<>>
<1>1. PICK f : f \in [1 .. Len(bs) -> 1 .. Len(<<>>)]
  BY DEF Closes, ClosedAt
<1>2. 1 \notin 1 .. Len(bs)
  BY <1>1
<1> QED
  BY <1>2

-----------------------------------------------------------------------------
(* The inductive invariant.                                                *)

\* Locations of type RuleRef hold rules or undef, in the state and in the
\* update set; every other location holds a value.
Typed ==
  /\ \A l \in DOMAIN function_states : function_states[l] \in ValuesAt(l)
  /\ \A n \in DOMAIN updates : updates[n].val \in ValuesAt(updates[n].loc)

MainOK ==
  /\ main \in {"fetch", "walk", "done"}
  /\ main # "walk" => todo = <<>> /\ phase = "walk"

WInv ==
  /\ IInv /\ KindParity
  /\ machine \in Machines
  /\ Typed
  /\ MainOK
  /\ todo \in Seq(Items)
  /\ Closes(todo, blocks)

\* What the conjuncts say of the walker's constants.
LEMMA Rulebook ==
  /\ Program \in Loc /\ Program \in Refs /\ "init" \in Rules
  /\ ValuesAt(Program) = Rules \cup {Undef}
  /\ \A l : Undef \in ValuesAt(l) /\ ValuesAt(l) \subseteq Val
  /\ machine \in Machines => \A r \in Rules : <<RuleOf(r), Undef>> \in Visits
  BY WalkerAssumption DEF ValuesAt, Accepted, RuleOf

\* get_function_value returns a value of the location's type.
LEMMA ReadTyped ==
  ASSUME TypeOK, Typed, NEW l \in Loc
  PROVE  FunctionValue(l) \in ValuesAt(l)
<1>1. CASE l \notin DOMAIN function_states
  BY <1>1, Rulebook DEF FunctionValue
<1>2. CASE l \in DOMAIN function_states /\ VisibleStates(l) = {}
  BY <1>2 DEF FunctionValue, Typed
<1>3. CASE l \in DOMAIN function_states /\ VisibleStates(l) # {}
  <2> DEFINE s == CHOOSE t \in VisibleStates(l) : \A r \in VisibleStates(l) : r <= t
             i == CHOOSE k \in DOMAIN updates : updates[k].loc = l /\ updates[k].state = s
  <2>1. VisibleStates(l) \subseteq 1 .. pseudostate /\ pseudostate \in Nat
    BY DEF VisibleStates, TypeOK
  <2>2. \E t \in VisibleStates(l) : \A r \in VisibleStates(l) : r <= t
    BY <1>3, <2>1, NatMax
  <2>3. s \in VisibleStates(l)
    BY <2>2
  <2> HIDE DEF s
  <2>4. \E k \in DOMAIN updates : updates[k].loc = l /\ updates[k].state = s
    BY <2>3 DEF VisibleStates, Has
  <2>5. i \in DOMAIN updates /\ updates[i].loc = l
    BY <2>4
  <2>6. updates[i].val \in ValuesAt(l)
    <3> HIDE DEF i
    <3> QED
      BY <2>5 DEF Typed
  <2>7. FunctionValue(l) = updates[i].val
    BY <1>3 DEF FunctionValue, s
  <2> QED
    BY <2>6, <2>7
<1> QED
  BY <1>1, <1>2, <1>3

\* A well-typed expression is evaluated to a value of its type.
LEMMA EvalTyped ==
  ASSUME TypeOK, Typed, NEW e, NEW i, NEW V, Yields(e, i, V)
  PROVE  Eval(e, i) \in V
<1>1. CASE e.t = "const" /\ e.v \in V
  BY <1>1 DEF Eval
<1>2. CASE e.t = "read" /\ e.l \in Loc /\ ValuesAt(e.l) \subseteq V
  BY <1>2, ReadTyped DEF Eval
<1>3. CASE e.t = "var" /\ i \in V
  BY <1>3 DEF Eval
<1> QED
  BY <1>1, <1>2, <1>3 DEF Yields

\* What pp_hashmap_set leaves in the map was there or is the new update.
LEMMA SetTyped ==
  ASSUME NEW list \in Seq(Update), NEW u \in Update, u.val \in ValuesAt(u.loc),
         \A n \in DOMAIN list : list[n].val \in ValuesAt(list[n].loc)
  PROVE  \A n \in DOMAIN hashmap_set(list, u) :
           hashmap_set(list, u)[n].val \in ValuesAt(hashmap_set(list, u)[n].loc)
<1> SUFFICES ASSUME NEW r, r = hashmap_set(list, u), NEW n \in DOMAIN r
             PROVE  r[n].val \in ValuesAt(r[n].loc)
  OBVIOUS
<1>1. CASE Has(list, u.loc, u.state)
  <2>1. DOMAIN r = DOMAIN list /\ (r[n] = u \/ r[n] = list[n])
    BY <1>1 DEF hashmap_set
  <2> QED
    BY <2>1
<1>2. CASE ~ Has(list, u.loc, u.state)
  <2>1. r = Append(list, u)
    BY <1>2 DEF hashmap_set
  <2>2. r[n] = u \/ (n \in DOMAIN list /\ r[n] = list[n])
    BY <2>1
  <2> QED
    BY <2>2
<1> QED
  BY <1>1, <1>2

\* A new entry in function_states is undef.
LEMMA EntryTyped ==
  ASSUME Typed, NEW l
  PROVE  \A k \in DOMAIN WithEntry(l) : WithEntry(l)[k] \in ValuesAt(k)
  BY Rulebook DEF Typed, WithEntry

\* An update of a location with a value of its type.
LEMMA UpdateTyped ==
  ASSUME IInv, Typed, NEW l \in Loc, NEW v \in ValuesAt(l), add_update(l, v)
  PROVE  Typed'
<1> DEFINE u == [loc |-> l, state |-> pseudostate, val |-> v]
<1>1. u \in Update /\ u.loc = l /\ u.val = v
  BY Rulebook DEF IInv, TypeOK, Update
<1>2. updates' = hashmap_set(updates, u) /\ function_states' = WithEntry(l)
  BY DEF add_update
<1> HIDE DEF u
<1>3. \A n \in DOMAIN updates' : updates'[n].val \in ValuesAt(updates'[n].loc)
  BY <1>1, <1>2, SetTyped DEF Typed, IInv, TypeOK
<1> QED
  BY <1>2, <1>3, EntryTyped DEF Typed, ValuesAt

\* A merge files the updates of a block under another key, with their values.
LEMMA MergeTyped ==
  ASSUME IInv, Typed, merge_step
  PROVE  Typed'
<1> DEFINE u    == [updates[cursor] EXCEPT !.state = @ - 1]
           rest == hashmap_delete(updates, cursor)
<1>1. /\ Merging /\ cursor \in 1 .. Len(updates) /\ updates \in Seq(Update)
      /\ updates[cursor] \in Update /\ updates[cursor].state > pseudostate
      /\ pseudostate \in Nat
  <2>1. Merging /\ cursor > 0 /\ ~ (updates[cursor].state <= pseudostate)
    BY DEF merge_step, OutOfBlock
  <2>2. cursor \in 1 .. Len(updates) /\ pseudostate \in Nat
    BY <2>1, EntryFacts DEF IInv, TypeOK
  <2> QED
    BY <2>1, <2>2, EntryFacts DEF IInv
<1>2. u \in Update /\ u.loc = updates[cursor].loc /\ u.val = updates[cursor].val
  BY <1>1 DEF Update
<1>3. updates' = hashmap_set(rest, u) /\ function_states' = function_states
  BY DEF merge_step
<1>4. /\ rest \in Seq(Update)
      /\ \A n \in DOMAIN rest : \E k \in DOMAIN updates : rest[n] = updates[k]
  <2>1. /\ rest \in Seq(Update)
        /\ DOMAIN rest = 1 .. Len(updates) - 1
        /\ \A n \in DOMAIN rest : rest[n] = IF n < cursor THEN updates[n] ELSE updates[n + 1]
    BY <1>1, DeleteFacts
  <2>2. \A n \in 1 .. Len(updates) - 1 : n \in DOMAIN updates /\ n + 1 \in DOMAIN updates
    BY <1>1
  <2> HIDE DEF rest
  <2> QED
    BY <2>1, <2>2
<1> HIDE DEF u, rest
<1>5. \A n \in DOMAIN rest : rest[n].val \in ValuesAt(rest[n].loc)
  BY <1>4 DEF Typed
<1>6. u.val \in ValuesAt(u.loc)
  BY <1>1, <1>2 DEF Typed
<1>7. \A n \in DOMAIN updates' : updates'[n].val \in ValuesAt(updates'[n].loc)
  BY <1>2, <1>3, <1>4, <1>5, <1>6, SetTyped
<1> QED
  BY <1>3, <1>7 DEF Typed, ValuesAt

\* apply_updates moves values from the update set to the state.
LEMMA ApplyTyped ==
  ASSUME IInv, Typed, apply_updates
  PROVE  Typed'
<1> DEFINE touched == {updates[i].loc : i \in DOMAIN updates}
<1>1. /\ phase = "walk" /\ blocks = <<>> /\ TypeOK
      /\ updates' = <<>>
      /\ function_states' = [l \in DOMAIN function_states \cup touched |-> Written(l)]
  BY DEF apply_updates, IInv
<1>2. ASSUME NEW l \in DOMAIN function_states \cup touched
      PROVE  Written(l) \in ValuesAt(l)
  <2> DEFINE at == {i \in DOMAIN updates : updates[i].loc = l}
  <2>1. CASE at = {}
    BY <2>1 DEF Written, Typed
  <2>2. CASE at # {}
    <3>1. at \in SUBSET Nat
      BY <1>1, EntryFacts
    <3>2. \E m \in at : \A k \in at : m <= k
      BY <2>2, <3>1, LeastOf
    <3>3. PICK n \in at : n = CHOOSE m \in at : \A k \in at : m <= k
      <4> HIDE DEF at
      <4> QED
        BY <3>2
    <3>4. Written(l) = updates[n].val
      BY <2>2, <3>3 DEF Written
    <3> QED
      BY <3>4 DEF Typed
  <2> QED
    BY <2>1, <2>2
<1> QED
  BY <1>1, <1>2 DEF Typed, ValuesAt

-----------------------------------------------------------------------------
(* The list of what is left to do.                                         *)

Rest ==
  /\ machine \in Machines
  /\ Typed
  /\ MainOK
  /\ todo \in Seq(Items)
  /\ Closes(todo, blocks)

\* The head of the list.
LEMMA HeadFacts ==
  ASSUME WInv, todo # <<>>
  PROVE  /\ todo[1] \in Items
         /\ Tail(todo) \in Seq(Items) /\ Len(Tail(todo)) = Len(todo) - 1
         /\ Len(todo) \in Nat \ {0}
         /\ blocks \in Seq(Block)
  BY DEF WInv, IInv, TypeOK

\* A statement is replaced by others.
LEMMA TodoStmts ==
  ASSUME WInv, todo # <<>>, todo[1].k = "stmt",
         NEW items \in Seq(Items), \A n \in 1 .. Len(items) : items[n].k = "stmt",
         Continue(items), UNCHANGED blocks
  PROVE  todo' \in Seq(Items) /\ Closes(todo', blocks')
<1> DEFINE ts == Tail(todo)
<1>1. ts \in Seq(Items) /\ blocks \in Seq(Block) /\ todo' = items \o ts
  BY HeadFacts DEF Continue
<1>2. Closes(ts, blocks)
  BY HeadFacts, ClosesPastStmt DEF WInv
<1> HIDE DEF ts
<1>3. /\ items \o ts \in Seq(Items) /\ Len(items) \in Nat
      /\ Len(items \o ts) = Len(ts) + Len(items)
      /\ \A n \in 1 .. Len(ts) : (items \o ts)[n + Len(items)] = ts[n]
      /\ \A n \in 1 .. Len(items) : (items \o ts)[n] = items[n]
  BY <1>1
<1>4. Closes(items \o ts, blocks)
  <2> DEFINE us == items \o ts
  <2>1. \A n \in 1 .. Len(items) : us[n].k = "stmt"
    BY <1>3
  <2> HIDE DEF us
  <2> QED
    BY <1>1, <1>2, <1>3, <2>1, ClosesShift DEF us
<1> QED
  BY <1>1, <1>3, <1>4

\* A statement is replaced by the contents and the end of a block.
LEMMA TodoBlock ==
  ASSUME WInv, todo # <<>>, todo[1].k = "stmt",
         NEW items \in Seq(Items), \A n \in 1 .. Len(items) : items[n].k = "stmt",
         NEW c \in Items, NEW b \in Block, c.k = Closer[b.kind],
         Continue(items \o <<c>>), Enter(b)
  PROVE  todo' \in Seq(Items) /\ Closes(todo', blocks')
<1> DEFINE ts == Tail(todo)
           us == <<c>> \o ts
           ws == (items \o <<c>>) \o ts
<1>1. /\ ts \in Seq(Items) /\ blocks \in Seq(Block)
      /\ todo' = ws /\ blocks' = Append(blocks, b)
  BY HeadFacts DEF Continue, Enter
<1>2. Closes(ts, blocks)
  BY HeadFacts, ClosesPastStmt DEF WInv
<1> HIDE DEF ts
<1>3. /\ us \in Seq(Items) /\ Len(us) = Len(ts) + 1 /\ us[1] = c
      /\ \A n \in 1 .. Len(ts) : us[n + 1] = ts[n]
  BY <1>1
<1>4. /\ blocks' \in Seq(Block) /\ Len(blocks') = Len(blocks) + 1
      /\ \A i \in 1 .. Len(blocks) : blocks'[i].kind = blocks[i].kind
      /\ blocks'[Len(blocks')] = b
  BY <1>1
<1>5. Closes(us, blocks')
  <2> DEFINE cs == blocks'
  <2>1. /\ cs \in Seq(Block) /\ Len(cs) = Len(blocks) + 1
        /\ \A i \in 1 .. Len(blocks) : cs[i].kind = blocks[i].kind
    BY <1>4
  <2>2. c.k = Closer[cs[Len(cs)].kind]
    BY <1>4
  <2> HIDE DEF us, cs
  <2>3. us[1].k = Closer[cs[Len(cs)].kind]
    BY <1>3, <2>2
  <2>4. Closes(us, cs)
    BY <1>1, <1>2, <1>3, <2>1, <2>3, ClosesNew
  <2> QED
    BY <2>4 DEF cs
<1>6. /\ ws \in Seq(Items) /\ Len(items) \in Nat
      /\ Len(ws) = Len(us) + Len(items)
      /\ \A n \in 1 .. Len(us) : ws[n + Len(items)] = us[n]
      /\ \A n \in 1 .. Len(items) : ws[n] = items[n]
  BY <1>1
<1>7. Closes(ws, blocks')
  <2> DEFINE cs == blocks'
  <2> HIDE DEF us, ws, cs
  <2>1. \A n \in 1 .. Len(items) : ws[n].k = "stmt"
    BY <1>6
  <2>2. us \in Seq(Items) /\ cs \in Seq(Block) /\ Closes(us, cs)
    BY <1>3, <1>4, <1>5 DEF cs
  <2> DEFINE d == Len(items)
  <2>3. /\ ws \in Seq(Items) /\ d \in Nat /\ Len(ws) = Len(us) + d
        /\ \A n \in 1 .. Len(us) : ws[n + d] = us[n]
        /\ \A n \in 1 .. d : ws[n].k = "stmt"
    BY <1>6, <2>1
  <2> HIDE DEF d
  <2>4. Closes(ws, cs)
    BY <2>2, <2>3, ClosesShift
  <2> QED
    BY <2>4 DEF cs
<1> QED
  BY <1>1, <1>6, <1>7

\* The innermost block ends.
LEMMA TodoEnd ==
  ASSUME WInv, todo # <<>>, todo[1].k # "stmt", Continue(<<>>),
         blocks' \in Seq(Block), Len(blocks') = Len(blocks) - 1,
         \A i \in 1 .. Len(blocks) - 1 : blocks'[i].kind = blocks[i].kind
  PROVE  todo' \in Seq(Items) /\ Closes(todo', blocks')
<1>1. todo \in Seq(Items) /\ Tail(todo) \in Seq(Items) /\ blocks \in Seq(Block)
  BY HeadFacts DEF WInv
<1>2. todo' = Tail(todo)
  BY <1>1 DEF Continue
<1>3. Closes(Tail(todo), blocks')
  <2> DEFINE cs == blocks'
  <2> HIDE DEF cs
  <2> QED
    BY <1>1, ClosesPastEnd DEF WInv, cs
<1> QED
  BY <1>1, <1>2, <1>3

\* What ends a block at the head of the list ends the innermost block.
LEMMA HeadEnds ==
  ASSUME WInv, todo # <<>>, todo[1].k # "stmt"
  PROVE  blocks # <<>> /\ todo[1].k = Closer[Top.kind]
<1>1. todo \in Seq(Items) /\ blocks \in Seq(Block)
  BY HeadFacts DEF WInv
<1>2. Len(blocks) > 0 /\ todo[1].k = Closer[blocks[Len(blocks)].kind]
  BY <1>1, ClosesPastEnd DEF WInv
<1> QED
  BY <1>1, <1>2 DEF Top

\* The statements of a seq or par block.
LEMMA BodyFacts ==
  ASSUME NEW ss, NEW i, IsSeq(ss), \A n \in DOMAIN ss : <<ss[n], i>> \in Visits
  PROVE  Body(ss, i) \in Seq(Items) /\ \A k \in 1 .. Len(Body(ss, i)) : Body(ss, i)[k].k = "stmt"
<1> DEFINE f == Body(ss, i)
<1>1. Len(ss) \in Nat /\ DOMAIN ss = 1 .. Len(ss)
  BY DEF IsSeq
<1>2. f \in [1 .. Len(ss) -> Items] /\ \A k \in 1 .. Len(ss) : f[k].k = "stmt"
  BY <1>1, StmtItems DEF Body
<1> HIDE DEF f
<1>3. f \in Seq(Items) /\ Len(f) = Len(ss)
  BY <1>1, <1>2, SeqByFunction
<1> QED
  BY <1>2, <1>3 DEF f

\* The body of a forall, once for each value.
LEMMA ForallFacts ==
  ASSUME NEW s, NEW in, IsSeq(in), \A n \in DOMAIN in : <<s, in[n]>> \in Visits,
         NEW f, f = [n \in DOMAIN in |-> Stmt(s, in[n])]
  PROVE  f \in Seq(Items) /\ \A k \in 1 .. Len(f) : f[k].k = "stmt"
<1>1. Len(in) \in Nat /\ DOMAIN in = 1 .. Len(in)
  BY DEF IsSeq
<1>2. f \in [1 .. Len(in) -> Items] /\ \A k \in 1 .. Len(in) : f[k].k = "stmt"
  BY <1>1, StmtItems
<1>3. f \in Seq(Items) /\ Len(f) = Len(in)
  BY <1>1, <1>2, SeqByFunction
<1> QED
  BY <1>2, <1>3

-----------------------------------------------------------------------------
(* The steps.                                                              *)

\* The statement at the head of the list is well typed.
LEMMA StmtFacts ==
  ASSUME WInv, NEW kind, AtStmt(kind)
  PROVE  /\ todo # <<>> /\ todo[1].k = "stmt" /\ main = "walk" /\ phase = "walk"
         /\ Now.t = kind /\ WellTyped(Now, Var, Visits)
<1>1. todo # <<>> /\ todo[1].k = "stmt" /\ main = "walk" /\ phase = "walk" /\ Now.t = kind
  BY DEF AtStmt
<1>2. WellTyped(Now, Var, Visits)
  BY <1>1, HeadFacts, ItemFacts DEF Now, Var
<1> QED
  BY <1>1, <1>2

\* Nothing typed changes unless the map or the state does.
LEMMA TypedSame ==
  ASSUME Typed, UNCHANGED <<function_states, updates>>
  PROVE  Typed'
  BY DEF Typed, ValuesAt

\* What a step of the walker comes to: a step of UpdateSet, or an exception of
\* an undefined condition, a failed assertion, a call of undef or diedie.
Uses == Next \/ UNCHANGED vars \/ (throw /\ (condition_undef \/ assert \/ call \/ diedie))

\* Statements that do nothing to the update set, or end the process.
LEMMA QuietStep ==
  ASSUME WInv, NEW kind, AtStmt(kind),
         Quiet \/ (throw /\ (condition_undef \/ assert \/ call \/ diedie)),
         NEW items \in Seq(Items), \A n \in 1 .. Len(items) : items[n].k = "stmt",
         Continue(items), Keep
  PROVE  Uses /\ Rest'
<1>1. /\ todo # <<>> /\ todo[1].k = "stmt" /\ main = "walk"
      /\ UNCHANGED <<function_states, updates, blocks, machine, main>>
  BY StmtFacts DEF Quiet, throw, vars, Keep
<1>2. Typed'
  BY <1>1, TypedSame DEF WInv
<1>3. todo' \in Seq(Items) /\ Closes(todo', blocks')
  BY <1>1, TodoStmts
<1> QED
  BY <1>1, <1>2, <1>3 DEF Rest, Uses, Quiet, WInv, MainOK

\* An update, or a conflict.
LEMMA UpdateKept ==
  ASSUME WInv, update
  PROVE  Uses /\ Rest'
<1> DEFINE l == Place(Now.l, Var)
           v == Eval(Now.e, Var)
<1>1. /\ AtStmt("update") /\ Continue(<<>>) /\ Keep
      /\ add_update(l, v) \/ add_update_conflict(l)
  BY DEF update
<1>2. l \in Loc /\ v \in ValuesAt(l) /\ v \in Val
  <2>1. WellTyped(Now, Var, Visits) /\ Now.t = "update"
    BY <1>1, StmtFacts
  <2>2. l \in Loc /\ Yields(Now.e, Var, ValuesAt(l))
    BY <2>1 DEF WellTyped
  <2> HIDE DEF l
  <2>3. v \in ValuesAt(l)
    BY <2>2, EvalTyped DEF WInv, IInv
  <2> QED
    BY <2>2, <2>3, Rulebook
<1> HIDE DEF l, v
<1>3. Next
  BY <1>1, <1>2 DEF Next
<1>4. Typed'
  <2>1. CASE add_update(l, v)
    BY <1>2, <2>1, UpdateTyped DEF WInv
  <2>2. CASE add_update_conflict(l)
    BY <2>2, EntryTyped DEF add_update_conflict, Typed, ValuesAt, WInv
  <2> QED
    BY <1>1, <2>1, <2>2
<1>5. todo # <<>> /\ todo[1].k = "stmt" /\ main = "walk"
  BY <1>1, StmtFacts
<1>6. UNCHANGED <<blocks, machine, main>>
  BY <1>1 DEF add_update, add_update_conflict, Keep
<1>7. <<>> \in Seq(Items) /\ \A n \in 1 .. Len(<<>>) : <<>>[n].k = "stmt"
  OBVIOUS
<1>8. todo' \in Seq(Items) /\ Closes(todo', blocks')
  BY <1>1, <1>5, <1>6, <1>7, TodoStmts
<1> QED
  BY <1>3, <1>4, <1>5, <1>6, <1>8 DEF Rest, Uses, WInv, MainOK

\* A block is entered, and its end put behind its contents.
LEMMA EnterKept ==
  ASSUME WInv, NEW kind, AtStmt(kind),
         NEW items \in Seq(Items), \A n \in 1 .. Len(items) : items[n].k = "stmt",
         NEW c \in Items, NEW b \in Block, c.k = Closer[b.kind],
         Continue(items \o <<c>>), Keep, Enter(b),
         UNCHANGED <<function_states, updates>>
  PROVE  Rest'
<1>1. todo # <<>> /\ todo[1].k = "stmt" /\ main = "walk" /\ UNCHANGED <<machine, main>>
  BY StmtFacts DEF Keep
<1>2. todo' \in Seq(Items) /\ Closes(todo', blocks')
  BY <1>1, TodoBlock
<1>3. Typed'
  BY TypedSame DEF WInv
<1> QED
  BY <1>1, <1>2, <1>3 DEF Rest, WInv, MainOK

\* The activation records the walker's functions make.
LEMMA NewBlockFacts ==
  ASSUME WInv, NEW kind \in {"seq", "par", "iterate", "round"}, NEW forked \in BOOLEAN
  PROVE  NewBlock(kind, forked) \in Block /\ NewBlock(kind, forked).kind = kind
  BY DEF NewBlock, Block, WInv, IInv, TypeOK

\* walk_seqblock.
LEMMA SeqKept ==
  ASSUME WInv, seqblock
  PROVE  Uses /\ Rest'
<1> DEFINE items == Body(Now.body, Var)
           b == NewBlock("seq", Parallel)
<1>1. /\ AtStmt("seq") /\ walk_seqblock /\ Keep
      /\ Continue(items \o <<Todo("leave_seq")>>)
  BY DEF seqblock
<1>2. WellTyped(Now, Var, Visits) /\ Now.t = "seq"
  BY <1>1, StmtFacts
<1>3. items \in Seq(Items) /\ \A n \in 1 .. Len(items) : items[n].k = "stmt"
  BY <1>2, BodyFacts DEF WellTyped
<1>4. /\ Enter(b) /\ b \in Block /\ b.kind = "seq"
      /\ UNCHANGED <<function_states, updates>>
  <2>1. Parallel \in BOOLEAN
    BY DEF Parallel
  <2> QED
    BY <1>1, <2>1, NewBlockFacts DEF walk_seqblock
<1>5. Todo("leave_seq") \in Items /\ Todo("leave_seq").k = Closer["seq"]
  BY DEF Items, Todo, Closer
<1> HIDE DEF items, b
<1>6. Rest'
  BY <1>1, <1>3, <1>4, <1>5, EnterKept
<1> QED
  BY <1>1, <1>6 DEF Uses, Next

\* walk_parblock.
LEMMA ParKept ==
  ASSUME WInv, parblock
  PROVE  Uses /\ Rest'
<1> DEFINE items == Body(Now.body, Var)
           b == NewBlock("par", ~ Parallel)
<1>1. /\ AtStmt("par") /\ walk_parblock /\ Keep
      /\ Continue(items \o <<Todo("leave_par")>>)
  BY DEF parblock
<1>2. WellTyped(Now, Var, Visits) /\ Now.t = "par"
  BY <1>1, StmtFacts
<1>3. items \in Seq(Items) /\ \A n \in 1 .. Len(items) : items[n].k = "stmt"
  BY <1>2, BodyFacts DEF WellTyped
<1>4. /\ Enter(b) /\ b \in Block /\ b.kind = "par"
      /\ UNCHANGED <<function_states, updates>>
  <2>1. (~ Parallel) \in BOOLEAN
    BY DEF Parallel
  <2> QED
    BY <1>1, <2>1, NewBlockFacts DEF walk_parblock
<1>5. Todo("leave_par") \in Items /\ Todo("leave_par").k = Closer["par"]
  BY DEF Items, Todo, Closer
<1> HIDE DEF items, b
<1>6. Rest'
  BY <1>1, <1>3, <1>4, <1>5, EnterKept
<1> QED
  BY <1>1, <1>6 DEF Uses, Next

\* walk_forall: the body for every value, in one parallel block.
LEMMA ForallKept ==
  ASSUME WInv, forall
  PROVE  Uses /\ Rest'
<1> DEFINE items == [n \in DOMAIN Now.in |-> Stmt(Now.s, Now.in[n])]
           b == NewBlock("par", ~ Parallel)
<1>1. /\ AtStmt("forall") /\ walk_parblock /\ Keep
      /\ Continue(items \o <<Todo("leave_par")>>)
  BY DEF forall
<1>2. WellTyped(Now, Var, Visits) /\ Now.t = "forall"
  BY <1>1, StmtFacts
<1>3. items \in Seq(Items) /\ \A n \in 1 .. Len(items) : items[n].k = "stmt"
  <2>1. IsSeq(Now.in) /\ \A n \in DOMAIN Now.in : <<Now.s, Now.in[n]>> \in Visits
    BY <1>2 DEF WellTyped
  <2> DEFINE s == Now.s
             in == Now.in
  <2>2. IsSeq(in) /\ \A n \in DOMAIN in : <<s, in[n]>> \in Visits
    BY <2>1
  <2>3. items = [n \in DOMAIN in |-> Stmt(s, in[n])]
    OBVIOUS
  <2> HIDE DEF s, in, items
  <2> QED
    BY <2>2, <2>3, ForallFacts
<1>4. /\ Enter(b) /\ b \in Block /\ b.kind = "par"
      /\ UNCHANGED <<function_states, updates>>
  <2>1. (~ Parallel) \in BOOLEAN
    BY DEF Parallel
  <2> QED
    BY <1>1, <2>1, NewBlockFacts DEF walk_parblock
<1>5. Todo("leave_par") \in Items /\ Todo("leave_par").k = Closer["par"]
  BY DEF Items, Todo, Closer
<1> HIDE DEF items, b
<1>6. Rest'
  BY <1>1, <1>3, <1>4, <1>5, EnterKept
<1> QED
  BY <1>1, <1>6 DEF Uses, Next

\* walk_iterate, before its first round.
LEMMA IterateKept ==
  ASSUME WInv, iterate
  PROVE  Uses /\ Rest'
<1> DEFINE c == [k |-> "while", s |-> Now, i |-> Var]
           b == NewBlock("iterate", Parallel)
<1>1. /\ AtStmt("iterate") /\ walk_iterate /\ Keep /\ Continue(<<c>>)
  BY DEF iterate
<1>2. WellTyped(Now, Var, Visits) /\ Now.t = "iterate"
  BY <1>1, StmtFacts
<1>3. c \in Items
  <2>1. Now = todo[1].s /\ Var = todo[1].i /\ todo[1] \in Items /\ todo[1].k = "stmt"
    BY <1>1, HeadFacts, StmtFacts DEF Now, Var
  <2>2. PICK p \in Visits : todo[1] = Stmt(p[1], p[2])
    BY <2>1 DEF Items, Todo
  <2>3. Now = p[1] /\ Var = p[2]
    BY <2>1, <2>2 DEF Stmt
  <2> QED
    BY <1>2, <2>3 DEF Items
<1>4. c.k = Closer["iterate"]
  BY DEF Closer
<1>5. /\ Enter(b) /\ b \in Block /\ b.kind = "iterate"
      /\ UNCHANGED <<function_states, updates>>
  <2>1. Parallel \in BOOLEAN
    BY DEF Parallel
  <2> QED
    BY <1>1, <2>1, NewBlockFacts DEF walk_iterate
<1>6. /\ <<>> \in Seq(Items) /\ \A n \in 1 .. Len(<<>>) : <<>>[n].k = "stmt"
      /\ <<>> \o <<c>> = <<c>>
  BY <1>3
<1> HIDE DEF b, c
<1>7. Rest'
  BY <1>1, <1>3, <1>4, <1>5, <1>6, EnterKept
<1> QED
  BY <1>1, <1>7 DEF Uses, Next

\* One statement in place of another.
LEMMA OneStmt ==
  ASSUME NEW s, NEW i, <<s, i>> \in Visits
  PROVE  /\ <<Stmt(s, i)>> \in Seq(Items)
         /\ \A n \in 1 .. Len(<<Stmt(s, i)>>) : <<Stmt(s, i)>>[n].k = "stmt"
<1> DEFINE x == Stmt(s, i)
<1>1. x \in Items /\ x.k = "stmt"
  BY StmtItems
<1> HIDE DEF x
<1>2. <<x>> \in Seq(Items) /\ \A n \in 1 .. Len(<<x>>) : <<x>>[n].k = "stmt"
  BY <1>1
<1> QED
  BY <1>2 DEF x

\* Nothing in place of a statement.
LEMMA NoStmt == <<>> \in Seq(Items) /\ \A n \in 1 .. Len(<<>>) : <<>>[n].k = "stmt"
  OBVIOUS

\* Conditionals, rule calls, assertions, skip and diedie.
LEMMA QuietKept ==
  ASSUME WInv, ifthenelse \/ condition_undef \/ case \/ assert \/ call \/ skip \/ diedie
  PROVE  Uses /\ Rest'
<1>1. CASE ifthenelse
  <2> DEFINE s == IF FunctionValue(Now.l) = Now.v THEN Now.s ELSE Now.else
  <2>1. AtStmt("if") /\ Quiet /\ Keep /\ Continue(<<Stmt(s, Var)>>)
    BY <1>1 DEF ifthenelse
  <2>2. <<s, Var>> \in Visits
    <3>1. WellTyped(Now, Var, Visits) /\ Now.t = "if"
      BY <2>1, StmtFacts
    <3> QED
      BY <3>1 DEF WellTyped
  <2> HIDE DEF s
  <2> QED
    BY <2>1, <2>2, OneStmt, QuietStep
<1>2. CASE case
  <2> DEFINE hits == {n \in DOMAIN Now.labels : Now.labels[n].v = FunctionValue(Now.l)}
             first == CHOOSE n \in hits : \A k \in hits : n <= k
             s == IF hits = {} THEN Now.default ELSE Now.labels[first].s
  <2>1. AtStmt("case") /\ Quiet /\ Keep /\ Continue(<<Stmt(s, Var)>>)
    BY <1>2 DEF case
  <2>2. <<s, Var>> \in Visits
    <3>1. /\ IsSeq(Now.labels) /\ <<Now.default, Var>> \in Visits
          /\ \A n \in DOMAIN Now.labels : <<Now.labels[n].s, Var>> \in Visits
      <4>1. WellTyped(Now, Var, Visits) /\ Now.t = "case"
        BY <2>1, StmtFacts
      <4> QED
        BY <4>1 DEF WellTyped
    <3>2. CASE hits # {}
      <4>1. hits \in SUBSET Nat
        BY <3>1 DEF IsSeq
      <4>2. \E m \in hits : \A k \in hits : m <= k
        BY <3>2, <4>1, LeastOf
      <4>3. first \in hits
        <5> HIDE DEF hits
        <5> QED
          BY <4>2
      <4>4. first \in DOMAIN Now.labels
        BY <4>3
      <4> QED
        BY <3>1, <3>2, <4>4
    <3> QED
      BY <3>1, <3>2
  <2> HIDE DEF s
  <2> QED
    BY <2>1, <2>2, OneStmt, QuietStep
<1>3. CASE assert
  <2>1. AtStmt("assert") /\ (Quiet \/ throw) /\ Keep /\ Continue(<<>>)
    BY <1>3 DEF assert
  <2> QED
    BY <1>3, <2>1, NoStmt, QuietStep
<1>4. CASE call
  <2> DEFINE r == Eval(Now.e, Var)
  <2>1. /\ AtStmt("call") /\ Keep
        /\ IF r = Undef THEN throw /\ Continue(<<>>)
                        ELSE Quiet /\ Continue(<<Stmt(RuleOf(r), Undef)>>)
    BY <1>4 DEF call
  <2>2. CASE r = Undef
    BY <1>4, <2>1, <2>2, NoStmt, QuietStep
  <2>3. CASE r # Undef
    <3>1. r \in Rules \cup {Undef}
      <4>1. WellTyped(Now, Var, Visits) /\ Now.t = "call"
        BY <2>1, StmtFacts
      <4>2. Yields(Now.e, Var, Rules \cup {Undef})
        BY <4>1 DEF WellTyped
      <4> QED
        BY <4>2, EvalTyped DEF WInv, IInv
    <3> HIDE DEF r
    <3>2. <<RuleOf(r), Undef>> \in Visits
      BY <2>3, <3>1, Rulebook DEF WInv
    <3> DEFINE s == RuleOf(r)
    <3>3. Quiet /\ Continue(<<Stmt(s, Undef)>>)
      BY <2>1, <2>3
    <3>4. <<s, Undef>> \in Visits
      BY <3>2
    <3> HIDE DEF s
    <3> QED
      BY <2>1, <3>3, <3>4, OneStmt, QuietStep
  <2> QED
    BY <2>2, <2>3
<1>5. CASE skip
  <2>1. AtStmt("skip") /\ Quiet /\ Keep /\ Continue(<<>>)
    BY <1>5 DEF skip
  <2> QED
    BY <2>1, NoStmt, QuietStep
<1>6. CASE diedie
  <2>1. AtStmt("diedie") /\ throw /\ Keep /\ Continue(<<>>)
    BY <1>6 DEF diedie
  <2> QED
    BY <1>6, <2>1, NoStmt, QuietStep
<1>7. CASE condition_undef
  <2>1. AtStmt("if") /\ throw /\ Keep /\ Continue(<<>>)
    BY <1>7 DEF condition_undef
  <2> QED
    BY <1>7, <2>1, NoStmt, QuietStep
<1> QED
  BY <1>1, <1>2, <1>3, <1>4, <1>5, <1>6, <1>7

\* A seq block, a par block, a forall or an iterate is left.
LEMMA LeaveKept ==
  ASSUME WInv, end_seqblock \/ end_parblock \/ iterate_exit
  PROVE  Uses /\ Rest'
<1>1. /\ main = "walk" /\ todo # <<>> /\ todo[1].k # "stmt"
      /\ leave_seqblock \/ leave_parblock \/ leave_iterate
      /\ Continue(<<>>) /\ Keep
  BY DEF end_seqblock, end_parblock, iterate_exit, Reached
<1>2. /\ blocks # <<>> /\ blocks' = Pop
      /\ UNCHANGED <<function_states, updates>>
  BY <1>1 DEF leave_seqblock, leave_parblock, leave_iterate, Leave
<1>3. /\ blocks' \in Seq(Block) /\ Len(blocks') = Len(blocks) - 1
      /\ \A i \in 1 .. Len(blocks) - 1 : blocks'[i].kind = blocks[i].kind
  BY <1>2, TopFacts DEF WInv, IInv
<1>4. todo' \in Seq(Items) /\ Closes(todo', blocks')
  BY <1>1, <1>3, TodoEnd
<1>5. Typed'
  BY <1>2, TypedSame DEF WInv
<1> QED
  BY <1>1, <1>4, <1>5 DEF Uses, Next, Rest, WInv, Keep, MainOK

\* A round of an iterate begins: the iterate stays in the list, behind the end
\* of the round.
LEMMA RoundKept ==
  ASSUME WInv, iterate_round
  PROVE  Uses /\ Rest'
<1> DEFINE x == Stmt(Now.s, Var)
           c == Todo("end_round")
           b == NewBlock("round", TRUE)
           us == <<c>> \o todo
           ws == <<x, c>> \o todo
<1>1. /\ main = "walk" /\ todo # <<>> /\ todo[1].k = "while" /\ begin_round /\ Keep
      /\ todo' = ws
  BY DEF iterate_round, Reached
<1>2. x \in Items /\ x.k = "stmt" /\ c \in Items /\ c.k = Closer["round"]
  <2>1. todo[1] \in Items
    BY <1>1, HeadFacts
  <2>2. PICK p \in Visits : p[1].t = "iterate" /\ todo[1] = [k |-> "while", s |-> p[1], i |-> p[2]]
    BY <1>1, <2>1 DEF Items, Stmt, Todo
  <2>3. Now = p[1] /\ Var = p[2] /\ Now.t = "iterate"
    BY <2>2 DEF Now, Var
  <2>4. <<Now.s, Var>> \in Visits
    <3>1. WellTyped(Now, Var, Visits)
      BY <1>1, <2>1, ItemFacts DEF Now, Var
    <3> QED
      BY <2>3, <3>1 DEF WellTyped
  <2>5. x \in Items
    BY <2>4, StmtItems
  <2> QED
    BY <2>5 DEF Items, Todo, Closer, Stmt
<1>3. /\ Enter(b) /\ UNCHANGED <<function_states, updates>>
      /\ b \in Block /\ b.kind = "round"
  BY <1>1, NewBlockFacts DEF begin_round
<1> HIDE DEF x, c, b
<1>4. /\ todo \in Seq(Items) /\ blocks \in Seq(Block) /\ Closes(todo, blocks)
      /\ blocks' = Append(blocks, b)
  BY <1>3 DEF WInv, IInv, TypeOK, Enter
<1>5. /\ us \in Seq(Items) /\ Len(us) = Len(todo) + 1 /\ us[1] = c
      /\ \A n \in 1 .. Len(todo) : us[n + 1] = todo[n]
  BY <1>2, <1>4
<1>6. /\ blocks' \in Seq(Block) /\ Len(blocks') = Len(blocks) + 1
      /\ \A i \in 1 .. Len(blocks) : blocks'[i].kind = blocks[i].kind
      /\ blocks'[Len(blocks')] = b
  BY <1>3, <1>4
<1>7. Closes(us, blocks')
  <2> DEFINE cs == blocks'
  <2>1. /\ cs \in Seq(Block) /\ Len(cs) = Len(blocks) + 1
        /\ \A i \in 1 .. Len(blocks) : cs[i].kind = blocks[i].kind
    BY <1>6
  <2>2. c.k = Closer[cs[Len(cs)].kind]
    BY <1>2, <1>3, <1>6
  <2> HIDE DEF us, cs
  <2>3. us[1].k = Closer[cs[Len(cs)].kind]
    BY <1>5, <2>2
  <2>4. Closes(us, cs)
    BY <1>4, <1>5, <2>1, <2>3, ClosesNew
  <2> QED
    BY <2>4 DEF cs
<1>8. /\ ws \in Seq(Items) /\ Len(ws) = Len(us) + 1 /\ ws[1] = x
      /\ \A n \in 1 .. Len(us) : ws[n + 1] = us[n]
  BY <1>2, <1>4
<1>9. Closes(ws, blocks')
  <2> DEFINE cs == blocks'
  <2> HIDE DEF us, ws, cs
  <2>1. \A n \in 1 .. 1 : ws[n].k = "stmt"
    BY <1>2, <1>8
  <2> QED
    BY <1>5, <1>6, <1>7, <1>8, <2>1, ClosesShift DEF cs
<1>10. Typed'
  BY <1>3, TypedSame DEF WInv
<1> QED
  BY <1>1, <1>8, <1>9, <1>10 DEF Uses, Next, Rest, WInv, Keep, MainOK

\* A round of an iterate ends.
LEMMA CheckKept ==
  ASSUME WInv, iterate_check
  PROVE  Uses /\ Rest'
<1>1. /\ main = "walk" /\ todo # <<>> /\ todo[1].k # "stmt" /\ end_round
      /\ Continue(<<>>) /\ Keep
  BY DEF iterate_check, Reached
<1>2. /\ blocks' \in Seq(Block) /\ Len(blocks') = Len(blocks) - 1
      /\ \A i \in 1 .. Len(blocks) - 1 : blocks'[i].kind = blocks[i].kind
      /\ UNCHANGED <<function_states, updates>>
  BY <1>1, EndRoundBlocks DEF WInv, end_round
<1>3. todo' \in Seq(Items) /\ Closes(todo', blocks')
  BY <1>1, <1>2, TodoEnd
<1>4. Typed'
  BY <1>2, TypedSame DEF WInv
<1> QED
  BY <1>1, <1>3, <1>4 DEF Uses, Next, Rest, WInv, Keep, MainOK

\* The merge loops run between two items of the list.
LEMMA MergeKept ==
  ASSUME WInv, merge
  PROVE  Uses /\ Rest'
<1>1. /\ merge_step \/ merge_end
      /\ UNCHANGED <<machine, todo, main, steps, blocks, function_states>>
      /\ phase # "walk"
  BY DEF merge, merge_step, merge_end, Merging
<1>2. Typed'
  <2>1. CASE merge_step
    BY <2>1, MergeTyped DEF WInv
  <2>2. CASE merge_end
    BY <2>2, TypedSame DEF WInv, merge_end
  <2> QED
    BY <1>1, <2>1, <2>2
<1>3. main = "walk" /\ MainOK'
  BY <1>1 DEF WInv, MainOK
<1> QED
  BY <1>1, <1>2, <1>3 DEF Uses, Next, Rest, WInv

\* run() reads program(self) and begins to walk the rule.
LEMMA FetchKept ==
  ASSUME WInv, fetch_program
  PROVE  Uses /\ Rest'
<1>1. /\ main = "fetch" /\ get_function_value(Program)
      /\ seen' = FunctionValue(Program)
      /\ UNCHANGED <<machine, function_states, updates, blocks, phase>>
      /\ IF seen' = Undef THEN main' = "done" /\ UNCHANGED todo
           ELSE main' = "walk" /\ todo' = <<Stmt(RuleOf(seen'), Undef)>>
  BY DEF fetch_program, get_function_value
<1>2. todo = <<>> /\ phase = "walk"
  BY <1>1 DEF WInv, MainOK
<1>3. Next
  BY <1>1, Rulebook DEF Next
<1>4. Typed'
  BY <1>1, TypedSame DEF WInv
<1>5. CASE seen' = Undef
  BY <1>1, <1>2, <1>3, <1>4, <1>5 DEF Uses, Rest, WInv, MainOK
<1>6. CASE seen' # Undef
  <2> DEFINE s == RuleOf(seen')
  <2>1. seen' \in Rules
    BY <1>1, <1>6, Rulebook, ReadTyped DEF WInv, IInv
  <2>2. <<s, Undef>> \in Visits
    BY <2>1, Rulebook DEF WInv
  <2>3. todo' = <<Stmt(s, Undef)>> /\ main' = "walk"
    BY <1>1, <1>6
  <2> HIDE DEF s
  <2>4. Stmt(s, Undef) \in Items /\ Stmt(s, Undef).k = "stmt"
    BY <2>2, StmtItems
  <2>5. /\ todo' \in Seq(Items) /\ Len(todo') = 1 /\ todo'[1].k = "stmt"
        /\ todo \in Seq(Items) /\ Len(todo) = 0
    BY <1>2, <2>3, <2>4
  <2>6. Closes(todo, blocks) /\ blocks \in Seq(Block)
    BY DEF WInv, IInv, TypeOK
  <2>7. Closes(todo', blocks)
    <3> DEFINE us == todo'
    <3> HIDE DEF us
    <3>1. us \in Seq(Items) /\ Len(us) = Len(todo) + 1
      BY <2>5 DEF us
    <3>2. (\A n \in 1 .. Len(todo) : us[n + 1] = todo[n]) /\ \A n \in 1 .. 1 : us[n].k = "stmt"
      BY <2>5 DEF us
    <3> QED
      BY <2>5, <2>6, <3>1, <3>2, ClosesShift DEF us
  <2> QED
    BY <1>1, <1>3, <1>4, <2>3, <2>5, <2>7 DEF Uses, Rest, WInv, MainOK
<1> QED
  BY <1>5, <1>6

\* run() applies the updates when the rule has been walked.
LEMMA ApplyKept ==
  ASSUME WInv, end_step
  PROVE  Uses /\ Rest'
<1>1. /\ apply_updates /\ todo = <<>> /\ phase = "walk" /\ main' = "fetch"
      /\ UNCHANGED <<machine, todo, blocks, phase>>
  BY DEF end_step, apply_updates
<1>2. Typed'
  BY <1>1, ApplyTyped DEF WInv
<1> QED
  BY <1>1, <1>2 DEF Uses, Next, Rest, WInv, MainOK

\* An exception leaves the update set as it is.
LEMMA ThrowKept ==
  ASSUME IInv, KindParity, throw
  PROVE  IInv' /\ KindParity'
<1>1. /\ phase' = "error"
      /\ UNCHANGED <<base, function_states, updates, pseudostate, blocks, cursor, seen>>
  BY DEF throw
<1> USE <1>1
<1>2. TypeOK'
  BY DEF IInv, TypeOK
<1>3. ListOrdered' /\ StatesInRange' /\ UniqueKeys' /\ UpdatesHaveEntries'
  BY DEF IInv, ListOrdered, StatesInRange, UniqueKeys, UpdatesHaveEntries
<1>4. Nesting'
  BY DEF IInv, Nesting, Top
<1>5. KindParity'
  BY DEF KindParity, Inner
<1> QED
  BY <1>2, <1>3, <1>4, <1>5 DEF IInv

\* What each step of the walker is, and what it keeps.
LEMMA StepKept ==
  ASSUME WInv, [WNext]_wvars
  PROVE  Uses /\ Rest'
<1>1. CASE update
  BY <1>1, UpdateKept
<1>2. CASE seqblock \/ parblock \/ forall \/ iterate
  BY <1>2, SeqKept, ParKept, ForallKept, IterateKept
<1>3. CASE ifthenelse \/ condition_undef \/ case \/ assert \/ call \/ skip \/ diedie
  BY <1>3, QuietKept
<1>4. CASE end_seqblock \/ end_parblock \/ iterate_exit
  BY <1>4, LeaveKept
<1>5. CASE iterate_round
  BY <1>5, RoundKept
<1>6. CASE iterate_check
  BY <1>6, CheckKept
<1>7. CASE merge
  BY <1>7, MergeKept
<1>8. CASE fetch_program
  BY <1>8, FetchKept
<1>9. CASE end_step
  BY <1>9, ApplyKept
<1>10. CASE exited \/ UNCHANGED wvars
  <2>1. UNCHANGED <<vars, machine, todo, main>>
    BY <1>10 DEF exited, wvars
  <2>2. UNCHANGED <<function_states, updates, blocks, phase>>
    BY <2>1 DEF vars
  <2>3. Typed'
    BY <2>2, TypedSame DEF WInv
  <2> QED
    BY <2>1, <2>2, <2>3 DEF Uses, Rest, WInv, MainOK
<1> QED
  BY <1>1, <1>2, <1>3, <1>4, <1>5, <1>6, <1>7, <1>8, <1>9, <1>10 DEF WNext

\* The invariant is inductive.
LEMMA WNextWInv ==
  ASSUME WInv, [WNext]_wvars
  PROVE  WInv'
<1>1. Uses /\ Rest'
  BY StepKept
<1>2. IInv' /\ KindParity'
  <2>1. CASE [Next]_vars
    BY <2>1, NextIInv, NextParity DEF WInv
  <2>2. CASE throw
    BY <2>2, ThrowKept DEF WInv
  <2> QED
    BY <1>1, <2>1, <2>2 DEF Uses
<1> QED
  BY <1>1, <1>2 DEF WInv, Rest

\* The constructor and the beginning of run() establish it.
LEMMA WInitWInv == WInit => WInv
<1> SUFFICES ASSUME WInit
             PROVE  WInv
  OBVIOUS
<1>1. /\ Init /\ blocks = <<>> /\ updates = <<>> /\ phase = "walk" /\ todo = <<>>
      /\ function_states = [l \in {Program} |-> "init"]
      /\ main = "fetch" /\ machine \in Machines
  BY DEF WInit, Init
<1>2. IInv /\ KindParity
  BY <1>1, InitIInv DEF Init, KindParity
<1>3. Typed
  BY <1>1, Rulebook DEF Typed
<1>4. Closes(todo, blocks)
  <2> DEFINE f == [i \in 1 .. 0 |-> 1]
  <2>1. ClosedAt(<<>>, <<>>, f)
    BY DEF ClosedAt
  <2> QED
    BY <1>1, <2>1 DEF Closes
<1>5. todo \in Seq(Items)
  BY <1>1
<1> QED
  BY <1>1, <1>2, <1>3, <1>4, <1>5 DEF WInv, MainOK

-----------------------------------------------------------------------------
(* The theorems.                                                           *)

\* Whatever well-typed machine is run: the invariant of the update set holds
\* under the walker, what the walker has still to do ends exactly the blocks
\* that are open, and locations of type RuleRef hold rules.
THEOREM WalkerInvariance == WSpec => []WInv
<1>1. WInv /\ [WNext]_wvars => WInv'
  BY WNextWInv
<1> QED
  BY <1>1, WInitWInv, PTL DEF WSpec

\* The walker uses the update set only as UpdateSet allows: every step is a
\* step of UpdateSet, leaves the update set alone, or is an exception. So what
\* is proved of the steps of UpdateSet is true of the interpreter.
THEOREM WalkerUsesUpdateSet == WSpec => Init /\ [][Next \/ throw]_vars
<1>1. WInit => Init
  BY DEF WInit
<1>2. WInv /\ [WNext]_wvars => [Next \/ throw]_vars
  BY StepKept DEF Uses
<1> QED
  BY <1>1, <1>2, WalkerInvariance, PTL DEF WSpec

\* When run() comes to apply_updates every block has been left, every fork
\* merged, and no location has two updates.
THEOREM RulesWalked == WSpec => []RuleWalked
<1>1. WInv => RuleWalked
  <2> SUFFICES ASSUME WInv, todo = <<>>, phase = "walk"
               PROVE  /\ blocks = <<>> /\ pseudostate = base
                      /\ \A i, j \in DOMAIN updates : updates[i].loc = updates[j].loc => i = j
    BY DEF RuleWalked
  <2>1. blocks = <<>>
    BY ClosesNothing DEF WInv, IInv, TypeOK
  <2> QED
    BY <2>1, OneEntryPerLocation DEF WInv
<1> QED
  BY <1>1, WalkerInvariance, PTL

\* An exception gives the step of the machine up and leaves the state alone.
LEMMA ThrowStep ==
  ASSUME throw
  PROVE  Abstract!Fail
<1>1. /\ phase' = "error"
      /\ UNCHANGED <<base, function_states, seen>>
  BY DEF throw
<1>2. AbsFailed' = TRUE /\ AbsFrames' = <<Abstract!Empty>>
  BY <1>1 DEF AbsFailed, AbsFrames, Abstract!Empty
<1>3. AbsState' = AbsState
  BY <1>1 DEF AbsState
<1> QED
  BY <1>1, <1>2, <1>3 DEF Abstract!Fail

\* Every step of the walker is a step of the stack of blocks, and only a failed
\* assertion, a call of undef and diedie give the step of the machine up besides
\* updates that clash.
THEOREM WalkerRefinement == WSpec => WalksBlocks
<1>1. WInit => Abstract!AInit
  BY RefinesInit DEF WInit
<1>2. WInv /\ WInv' /\ [WNext]_wvars 
        => [Abstract!ANext \/ ((condition_undef \/ assert \/ call \/ diedie) /\ Abstract!Fail)]_(Abstract!avars)
  <2> SUFFICES ASSUME WInv, WInv', [WNext]_wvars
               PROVE  \/ Abstract!ANext \/ UNCHANGED Abstract!avars
                      \/ (condition_undef \/ assert \/ call \/ diedie) /\ Abstract!Fail
    OBVIOUS
  <2>1. Uses
    BY StepKept
  <2>2. CASE [Next]_vars
    BY <2>2, RefinesNext DEF WInv
  <2>3. CASE throw /\ (condition_undef \/ assert \/ call \/ diedie)
    BY <2>3, ThrowStep
  <2> QED
    BY <2>1, <2>2, <2>3 DEF Uses
<1> QED
  BY <1>1, <1>2, WalkerInvariance, PTL DEF WSpec, WalksBlocks

===============================================================================

--------------------------- MODULE RuleMeaningProofs ---------------------------
(***************************************************************************)
(* Proofs about RuleMeaning, for every set of well-typed machines and      *)
(* every solution of the equations for the meaning of their statements:    *)
(* the walker yields what the rule means, and fails only if it has no      *)
(* meaning. The argument is about what the walker has still to do: to take *)
(* each item left for what it means, one after the other, leads from the   *)
(* blocks there are to what the whole rule yields, before and after every  *)
(* step.                                                                   *)
(***************************************************************************)
EXTENDS RuleMeaning, CasmWalkerProofs

-----------------------------------------------------------------------------
(* Updates and states.                                                     *)

LEMMA UpdsFacts ==
  ASSUME NEW u
  PROVE  u \in Upds <=> /\ DOMAIN u \subseteq Loc /\ u = [l \in DOMAIN u |-> u[l]]
                        /\ \A l \in DOMAIN u : u[l] \in Val /\ u[l] \in ValuesAt(l)
<1>1. ASSUME u \in Upds
      PROVE  /\ DOMAIN u \subseteq Loc /\ u = [l \in DOMAIN u |-> u[l]]
             /\ \A l \in DOMAIN u : u[l] \in Val /\ u[l] \in ValuesAt(l)
  <2>1. PICK D \in SUBSET Loc : u \in [D -> Val]
    BY <1>1 DEF Upds
  <2> QED
    BY <1>1, <2>1 DEF Upds
<1>2. ASSUME DOMAIN u \subseteq Loc, u = [l \in DOMAIN u |-> u[l]],
             \A l \in DOMAIN u : u[l] \in Val /\ u[l] \in ValuesAt(l)
      PROVE  u \in Upds
  <2>1. u \in [DOMAIN u -> Val]
    BY <1>2
  <2>2. u \in UNION {[D -> Val] : D \in SUBSET Loc}
    BY <1>2, <2>1
  <2> QED
    BY <1>2, <2>2 DEF Upds
<1> QED
  BY <1>1, <1>2

\* Two functions with the same domain and values are one.
LEMMA Extensional ==
  ASSUME NEW f, NEW g, f = [l \in DOMAIN f |-> f[l]], g = [l \in DOMAIN g |-> g[l]],
         DOMAIN f = DOMAIN g, \A l \in DOMAIN f : f[l] = g[l]
  PROVE  f = g
  OBVIOUS

\* No updates, and the updates of two statements.
LEMMA BothUpds ==
  /\ NoUpdates \in Upds /\ DOMAIN NoUpdates = {}
  /\ \A u, v \in Upds : Both(u, v) \in Upds
<1>1. NoUpdates \in Upds /\ DOMAIN NoUpdates = {}
  <2>1. DOMAIN NoUpdates = {} /\ NoUpdates = [l \in DOMAIN NoUpdates |-> NoUpdates[l]]
    BY DEF NoUpdates
  <2> QED
    BY <2>1, UpdsFacts
<1>2. ASSUME NEW u \in Upds, NEW v \in Upds
      PROVE  Both(u, v) \in Upds
  <2> DEFINE w == Both(u, v)
  <2>1. /\ DOMAIN w = DOMAIN u \cup DOMAIN v /\ w = [l \in DOMAIN w |-> w[l]]
        /\ \A l \in DOMAIN w : w[l] = IF l \in DOMAIN v THEN v[l] ELSE u[l]
    BY DEF Both
  <2> HIDE DEF w
  <2>2. \A l \in DOMAIN w : w[l] \in Val /\ w[l] \in ValuesAt(l)
    BY <2>1, UpdsFacts
  <2>3. w \in Upds
    BY <2>1, <2>2, UpdsFacts
  <2> QED
    BY <2>3 DEF w
<1> QED
  BY <1>1, <1>2

\* Updates before and after none.
LEMMA BothNone ==
  ASSUME NEW u \in Upds
  PROVE  Both(NoUpdates, u) = u /\ Both(u, NoUpdates) = u
<1>1. DOMAIN NoUpdates = {} /\ u = [l \in DOMAIN u |-> u[l]]
  BY BothUpds, UpdsFacts
<1>2. /\ Both(NoUpdates, u) = [l \in DOMAIN u |-> u[l]]
      /\ Both(u, NoUpdates) = [l \in DOMAIN u |-> u[l]]
  BY <1>1 DEF Both
<1> QED
  BY <1>1, <1>2

\* Later updates replace earlier ones, however they are grouped.
LEMMA BothAssoc ==
  ASSUME NEW f, NEW u, NEW v
  PROVE  Both(Both(f, u), v) = Both(f, Both(u, v))
<1> DEFINE w == Both(u, v)
           g == Both(f, u)
           D == DOMAIN f \cup (DOMAIN u \cup DOMAIN v)
<1>1. /\ DOMAIN w = DOMAIN u \cup DOMAIN v
      /\ \A l \in DOMAIN w : w[l] = IF l \in DOMAIN v THEN v[l] ELSE u[l]
      /\ DOMAIN g = DOMAIN f \cup DOMAIN u
      /\ \A l \in DOMAIN g : g[l] = IF l \in DOMAIN u THEN u[l] ELSE f[l]
  BY DEF Both
<1> HIDE DEF w, g
<1>2. Both(g, v) = [l \in D |-> IF l \in DOMAIN v THEN v[l] ELSE
                                IF l \in DOMAIN u THEN u[l] ELSE f[l]]
  <2>1. DOMAIN g \cup DOMAIN v = D
    BY <1>1
  <2> QED
    BY <1>1, <2>1 DEF Both
<1>3. Both(f, w) = [l \in D |-> IF l \in DOMAIN v THEN v[l] ELSE
                                IF l \in DOMAIN u THEN u[l] ELSE f[l]]
  <2>1. DOMAIN f \cup DOMAIN w = D
    BY <1>1
  <2> QED
    BY <1>1, <2>1 DEF Both
<1> QED
  BY <1>2, <1>3 DEF w, g

\* The state after updates.
LEMMA AfterFacts ==
  ASSUME NEW S \in States
  PROVE  /\ After(S, NoUpdates) = S
         /\ \A u \in Upds : After(S, u) \in States
         /\ \A u, v \in Upds : After(After(S, u), v) = After(S, Both(u, v))
<1>1. S \in [Loc -> Val] /\ DOMAIN S = Loc /\ \A l \in Loc : S[l] \in ValuesAt(l)
  BY DEF States
<1>2. After(S, NoUpdates) = S
  BY <1>1, BothUpds DEF After
<1>3. ASSUME NEW u \in Upds
      PROVE  After(S, u) \in States
  <2>1. \A l \in DOMAIN u : u[l] \in Val /\ u[l] \in ValuesAt(l)
    BY UpdsFacts
  <2> QED
    BY <1>1, <2>1 DEF After, States
<1>4. ASSUME NEW u \in Upds, NEW v \in Upds
      PROVE  After(After(S, u), v) = After(S, Both(u, v))
  <2> DEFINE T == After(S, u)
             w == Both(u, v)
  <2>1. DOMAIN T = Loc /\ \A l \in Loc : T[l] = IF l \in DOMAIN u THEN u[l] ELSE S[l]
    BY <1>1 DEF After
  <2>2. /\ DOMAIN w = DOMAIN u \cup DOMAIN v
        /\ \A l \in DOMAIN w : w[l] = IF l \in DOMAIN v THEN v[l] ELSE u[l]
    BY DEF Both
  <2> HIDE DEF T, w
  <2>3. After(T, v) = After(S, w)
    BY <1>1, <2>1, <2>2 DEF After
  <2> QED
    BY <2>3 DEF T, w
<1> QED
  BY <1>2, <1>3, <1>4

\* Results.
LEMMA ResultFacts ==
  /\ Ok(NoUpdates) \in Results /\ Failure \in Results
  /\ \A u \in Upds : Ok(u) \in Results /\ Ok(u).st = "ok" /\ Ok(u).upd = u
  /\ Failure.st = "fail"
  /\ \A r \in Results : /\ r.upd \in Upds
                        /\ (r.st = "ok" /\ r = Ok(r.upd)) \/ (r.st = "fail" /\ r = Failure)
<1>1. \A u : Ok(u).st = "ok" /\ Ok(u).upd = u
  BY DEF Ok
<1>2. Failure.st = "fail" /\ Failure.upd = NoUpdates
  BY DEF Failure
<1>3. NoUpdates \in Upds
  BY BothUpds
<1>4. \A u \in Upds : Ok(u) \in Results
  BY DEF Results
<1>5. Failure \in Results
  BY DEF Results
<1>6. ASSUME NEW r \in Results
      PROVE  /\ r.upd \in Upds
             /\ (r.st = "ok" /\ r = Ok(r.upd)) \/ (r.st = "fail" /\ r = Failure)
  <2>1. (\E u \in Upds : r = Ok(u)) \/ r = Failure
    BY DEF Results
  <2> QED
    BY <1>1, <1>2, <1>3, <2>1
<1> QED
  BY <1>1, <1>2, <1>3, <1>4, <1>5, <1>6

LEMMA ThenFacts ==
  ASSUME NEW r \in Results, NEW q \in Results
  PROVE  Then(r, q) \in Results /\ Beside(r, q) \in Results
  BY BothUpds, ResultFacts DEF Then, Beside

-----------------------------------------------------------------------------
(* Blocks and their updates, as a value: the frames of AsmBlocks and the   *)
(* activation records of the walker. st is the state of the step, and b    *)
(* tells whether the outermost block is sequential.                        *)

SeqAt(b, k) == (b + k) % 2 = 0

Holding(b, fr, l) == {k \in 1 .. Len(fr) : SeqAt(b, k) /\ l \in DOMAIN fr[k]}

\* What a statement in the innermost block sees.
View(st, b, fr) ==
  [l \in Loc |->
     IF Holding(b, fr, l) = {} THEN st[l]
     ELSE fr[CHOOSE k \in Holding(b, fr, l) : \A h \in Holding(b, fr, l) : h <= k][l]]

Last(ts) == ts[Len(ts)]
ButLast(ts) == [k \in 1 .. Len(ts) - 1 |-> ts[k]]
WithLast(ts, x) == [k \in 1 .. Len(ts) |-> IF k = Len(ts) THEN x ELSE ts[k]]

Conf(fr, bl) == [ok |-> TRUE, fr |-> fr, bl |-> bl]
Crash == [ok |-> FALSE, fr |-> <<>>, bl |-> <<>>]

Frames1 == Seq(Upds) \ {<<>>}

\* The frames after the updates u in the innermost block, unless they clash.
Clashes(b, fr, u) == ~ SeqAt(b, Len(fr)) /\ DOMAIN Last(fr) \cap DOMAIN u # {}

Put(b, fr, bl, u) ==
  IF Clashes(b, fr, u) THEN Crash ELSE Conf(WithLast(fr, Both(Last(fr), u)), bl)

\* A statement yields r in the innermost block.
Yield(b, C, r) == IF C.ok /\ r.st = "ok" THEN Put(b, C.fr, C.bl, r.upd) ELSE Crash

\* A block is entered: it has updates of its own if it has forked.
Open(C, new) ==
  Conf(IF new.forked THEN Append(C.fr, NoUpdates) ELSE C.fr, Append(C.bl, new))

\* The innermost block ends.
Shut(b, C) ==
  IF ~ C.ok THEN Crash
  ELSE IF Last(C.bl).forked THEN Put(b, ButLast(C.fr), ButLast(C.bl), Last(C.fr))
  ELSE Conf(C.fr, ButLast(C.bl))

\* So does a round of an iterate, which notes whether it has yielded anything.
Noted(C) ==
  [ButLast(C.bl) EXCEPT ![Len(C.bl) - 1].running = (Last(C.fr) # NoUpdates)]

ShutRound(b, C) ==
  IF ~ C.ok THEN Crash ELSE Put(b, ButLast(C.fr), Noted(C), Last(C.fr))

\* Ends and replacements of the last element.
LEMMA LastFacts ==
  ASSUME NEW T, NEW ts \in Seq(T), ts # <<>>
  PROVE  /\ Len(ts) \in Nat \ {0} /\ Last(ts) \in T
         /\ ButLast(ts) \in Seq(T) /\ Len(ButLast(ts)) = Len(ts) - 1
         /\ \A k \in 1 .. Len(ts) - 1 : ButLast(ts)[k] = ts[k]
<1> DEFINE n == Len(ts)
<1>1. n \in Nat \ {0} /\ n \in 1 .. n /\ \A k \in 1 .. n : ts[k] \in T
  OBVIOUS
<1>2. Last(ts) \in T
  BY <1>1 DEF Last
<1>3. n - 1 \in Nat /\ \A k \in 1 .. n - 1 : k \in 1 .. n
  BY <1>1
<1> DEFINE f == [k \in 1 .. n - 1 |-> ts[k]]
<1>4. f \in [1 .. n - 1 -> T]
  BY <1>1, <1>3
<1>5. f \in Seq(T) /\ Len(f) = n - 1
  BY <1>3, <1>4, SeqByFunction
<1> QED
  BY <1>1, <1>2, <1>5 DEF ButLast

LEMMA WithLastFacts ==
  ASSUME NEW T, NEW ts \in Seq(T), ts # <<>>, NEW x \in T
  PROVE  /\ WithLast(ts, x) \in Seq(T) /\ WithLast(ts, x) # <<>>
         /\ Len(WithLast(ts, x)) = Len(ts) /\ Last(WithLast(ts, x)) = x
         /\ \A k \in 1 .. Len(ts) - 1 : WithLast(ts, x)[k] = ts[k]
         /\ ButLast(WithLast(ts, x)) = ButLast(ts)
         /\ \A y \in T : WithLast(WithLast(ts, x), y) = WithLast(ts, y)
         /\ WithLast(ts, Last(ts)) = ts
<1> DEFINE n == Len(ts)
           f == [k \in 1 .. n |-> IF k = n THEN x ELSE ts[k]]
<1>1. n \in Nat \ {0} /\ n \in 1 .. n /\ \A k \in 1 .. n : ts[k] \in T
  OBVIOUS
<1>2. f \in [1 .. n -> T]
  BY <1>1
<1>3. f \in Seq(T) /\ Len(f) = n
  BY <1>1, <1>2, SeqByFunction
<1>4. f = WithLast(ts, x) /\ f[n] = x /\ \A k \in 1 .. n - 1 : f[k] = ts[k]
  BY <1>1 DEF WithLast
<1>5. \A k \in 1 .. n : k # n => f[k] = ts[k]
  BY <1>1
<1> HIDE DEF f
<1>6. ButLast(f) = ButLast(ts)
  BY <1>3, <1>4 DEF ButLast
<1>7. ASSUME NEW y \in T
      PROVE  WithLast(f, y) = WithLast(ts, y)
  BY <1>3, <1>5 DEF WithLast
<1>8. WithLast(ts, Last(ts)) = ts
  <2>1. ts = [k \in 1 .. n |-> ts[k]]
    OBVIOUS
  <2> QED
    BY <2>1 DEF WithLast, Last
<1>9. f # <<>> /\ Last(f) = x
  BY <1>1, <1>3, <1>4 DEF Last
<1> QED
  BY <1>3, <1>4, <1>6, <1>7, <1>8, <1>9

LEMMA AppendFacts ==
  ASSUME NEW T, NEW ts \in Seq(T), NEW x \in T
  PROVE  /\ Append(ts, x) \in Seq(T) /\ Append(ts, x) # <<>>
         /\ Len(Append(ts, x)) = Len(ts) + 1 /\ Last(Append(ts, x)) = x
         /\ ButLast(Append(ts, x)) = ts
         /\ \A y \in T : WithLast(Append(ts, x), y) = Append(ts, y)
<1> DEFINE n == Len(ts)
           A == Append(ts, x)
<1>1. /\ A \in Seq(T) /\ A # <<>> /\ Len(A) = n + 1 /\ n \in Nat /\ A[n + 1] = x
      /\ \A k \in 1 .. n : A[k] = ts[k]
  OBVIOUS
<1>2. ts = [k \in 1 .. n |-> ts[k]]
  OBVIOUS
<1>3. ASSUME NEW y \in T
      PROVE  WithLast(A, y) = Append(ts, y)
  <2>1. /\ Append(ts, y) = [k \in 1 .. n + 1 |-> Append(ts, y)[k]]
        /\ Append(ts, y)[n + 1] = y /\ \A k \in 1 .. n : Append(ts, y)[k] = ts[k]
    <3> DEFINE B == Append(ts, y)
    <3>1. B \in Seq(T) /\ Len(B) = n + 1
      OBVIOUS
    <3>2. B[n + 1] = y /\ \A k \in 1 .. n : B[k] = ts[k]
      OBVIOUS
    <3> HIDE DEF B, n
    <3>3. B = [k \in 1 .. Len(B) |-> B[k]]
      BY <3>1
    <3>4. B = [k \in 1 .. n + 1 |-> B[k]]
      BY <3>1, <3>3
    <3> QED
      BY <3>2, <3>4 DEF B
  <2> HIDE DEF A, n
  <2>2. \A k \in 1 .. n + 1 : k = n + 1 \/ k \in 1 .. n
    BY <1>1
  <2> QED
    BY <1>1, <2>1, <2>2 DEF WithLast
<1>4. ButLast(A) = ts
  <2> HIDE DEF A
  <2>1. Len(A) - 1 = n
    BY <1>1
  <2> QED
    BY <1>1, <1>2, <2>1 DEF ButLast
<1>5. Last(A) = x
  BY <1>1 DEF Last
<1> QED
  BY <1>1, <1>3, <1>4, <1>5

-----------------------------------------------------------------------------
(* What a statement sees, and what becomes of its result.                  *)

\* What the innermost frame that can be seen holds.
LEMMA ViewOf ==
  ASSUME NEW st \in States, NEW b \in {0, 1}, NEW fr \in Frames1, NEW l \in Loc
  PROVE  \/ Holding(b, fr, l) = {} /\ View(st, b, fr)[l] = st[l]
         \/ \E k \in Holding(b, fr, l) :
              /\ \A h \in Holding(b, fr, l) : h <= k
              /\ View(st, b, fr)[l] = fr[k][l]
<1> DEFINE H == Holding(b, fr, l)
           k == CHOOSE j \in H : \A h \in H : h <= j
<1>1. View(st, b, fr)[l] = IF H = {} THEN st[l] ELSE fr[k][l]
  BY DEF View
<1>2. CASE H = {}
  BY <1>1, <1>2
<1>3. CASE H # {}
  <2>1. H \subseteq 1 .. Len(fr) /\ Len(fr) \in Nat
    BY DEF Holding, Frames1
  <2>2. \E j \in H : \A h \in H : h <= j
    <3> HIDE DEF H
    <3> QED
      BY <1>3, <2>1, NatMax
  <2>3. k \in H /\ \A h \in H : h <= k
    <3> HIDE DEF H
    <3> QED
      BY <2>2
  <2> HIDE DEF k
  <2> QED
    BY <1>1, <1>3, <2>3
<1> QED
  BY <1>2, <1>3

\* A value that the frames hold in the right place is the one that is seen.
LEMMA ViewIs ==
  ASSUME NEW st \in States, NEW b \in {0, 1}, NEW fr \in Frames1, NEW l \in Loc,
         NEW k \in Holding(b, fr, l), \A h \in Holding(b, fr, l) : h <= k
  PROVE  View(st, b, fr)[l] = fr[k][l]
<1>1. PICK j \in Holding(b, fr, l) : /\ \A h \in Holding(b, fr, l) : h <= j
                                     /\ View(st, b, fr)[l] = fr[j][l]
  BY ViewOf
<1>2. j <= k /\ k <= j /\ j \in Nat /\ k \in Nat
  BY <1>1 DEF Holding
<1> QED
  BY <1>1, <1>2

LEMMA ViewStates ==
  ASSUME NEW st \in States, NEW b \in {0, 1}, NEW fr \in Frames1
  PROVE  View(st, b, fr) \in States
<1> DEFINE V == View(st, b, fr)
<1>1. ASSUME NEW l \in Loc
      PROVE  V[l] \in Val /\ V[l] \in ValuesAt(l)
  <2>1. CASE V[l] = st[l]
    BY <2>1 DEF States
  <2>2. CASE \E k \in Holding(b, fr, l) : V[l] = fr[k][l]
    <3>1. PICK k \in Holding(b, fr, l) : V[l] = fr[k][l]
      BY <2>2
    <3>2. fr[k] \in Upds /\ l \in DOMAIN fr[k]
      BY DEF Holding, Frames1
    <3>3. fr[k][l] \in Val /\ fr[k][l] \in ValuesAt(l)
      BY <3>2, UpdsFacts
    <3> QED
      BY <3>1, <3>3
  <2> QED
    BY <2>1, <2>2, ViewOf
<1>2. V = [l \in Loc |-> V[l]]
  BY DEF View
<1> HIDE DEF V
<1>3. V \in [Loc -> Val]
  BY <1>1, <1>2
<1>4. V \in States
  BY <1>1, <1>3 DEF States
<1> QED
  BY <1>4 DEF V

\* An empty frame hides nothing.
LEMMA ViewNew ==
  ASSUME NEW st \in States, NEW b \in {0, 1}, NEW fr \in Frames1
  PROVE  View(st, b, Append(fr, NoUpdates)) = View(st, b, fr)
<1> DEFINE A == Append(fr, NoUpdates)
<1>1. /\ Len(A) = Len(fr) + 1 /\ Len(fr) \in Nat /\ A[Len(fr) + 1] = NoUpdates
      /\ \A k \in 1 .. Len(fr) : A[k] = fr[k]
      /\ \A k \in 1 .. Len(fr) + 1 : k = Len(fr) + 1 \/ k \in 1 .. Len(fr)
  BY DEF Frames1
<1>2. DOMAIN NoUpdates = {}
  BY BothUpds
<1> HIDE DEF A
<1>3. \A l : Holding(b, A, l) = Holding(b, fr, l)
  BY <1>1, <1>2 DEF Holding
<1>4. A \in Frames1
  BY AppendFacts, BothUpds DEF Frames1, A
<1>5. ASSUME NEW l \in Loc
      PROVE  View(st, b, A)[l] = View(st, b, fr)[l]
  <2>1. CASE Holding(b, fr, l) = {}
    BY <1>3, <2>1 DEF View
  <2>2. CASE Holding(b, fr, l) # {}
    <3>1. PICK k \in Holding(b, fr, l) : /\ \A h \in Holding(b, fr, l) : h <= k
                                         /\ View(st, b, fr)[l] = fr[k][l]
      BY <2>2, ViewOf
    <3>2. View(st, b, A)[l] = A[k][l]
      BY <1>3, <1>4, <3>1, ViewIs
    <3>3. A[k] = fr[k]
      BY <1>1 DEF Holding
    <3> QED
      BY <3>1, <3>2, <3>3
  <2> QED
    BY <2>1, <2>2
<1>6. /\ View(st, b, A) = [l \in Loc |-> View(st, b, A)[l]]
      /\ View(st, b, fr) = [l \in Loc |-> View(st, b, fr)[l]]
  BY DEF View
<1> QED
  BY <1>5, <1>6 DEF A

\* An update of a sequential block is seen by what follows it.
LEMMA ViewSequential ==
  ASSUME NEW st \in States, NEW b \in {0, 1}, NEW fr \in Frames1, NEW u \in Upds,
         SeqAt(b, Len(fr))
  PROVE  View(st, b, WithLast(fr, Both(Last(fr), u))) = After(View(st, b, fr), u)
<1> DEFINE n == Len(fr)
           w == Both(Last(fr), u)
           G == WithLast(fr, w)
<1>1. n \in Nat \ {0} /\ n \in 1 .. n /\ Last(fr) = fr[n] /\ Last(fr) \in Upds /\ w \in Upds
  BY LastFacts, BothUpds DEF Frames1, Last
<1>2. /\ DOMAIN w = DOMAIN fr[n] \cup DOMAIN u
      /\ \A l \in DOMAIN w : w[l] = IF l \in DOMAIN u THEN u[l] ELSE fr[n][l]
  BY <1>1 DEF Both
<1> HIDE DEF w
<1>3. /\ G \in Frames1 /\ Len(G) = n /\ G[n] = w
      /\ \A k \in 1 .. n : k # n => G[k] = fr[k]
  <2>1. G \in Seq(Upds) /\ G # <<>> /\ Len(G) = n /\ Last(G) = w
    BY <1>1, WithLastFacts DEF Frames1
  <2>2. \A k \in 1 .. n : k # n => G[k] = fr[k]
    BY DEF WithLast
  <2> QED
    BY <2>1, <2>2 DEF Frames1, Last
<1> HIDE DEF G
<1>4. ASSUME NEW l \in Loc
      PROVE  View(st, b, G)[l] = After(View(st, b, fr), u)[l]
  <2>0. After(View(st, b, fr), u)[l] = IF l \in DOMAIN u THEN u[l] ELSE View(st, b, fr)[l]
    BY DEF After, View
  <2>1. CASE l \in DOMAIN u
    <3>1. n \in Holding(b, G, l) /\ \A h \in Holding(b, G, l) : h <= n
      BY <1>1, <1>2, <1>3, <2>1 DEF Holding
    <3>2. View(st, b, G)[l] = G[n][l]
      BY <1>3, <3>1, ViewIs
    <3> QED
      BY <1>2, <1>3, <2>0, <2>1, <3>2
  <2>2. CASE l \notin DOMAIN u
    <3>1. Holding(b, G, l) = Holding(b, fr, l)
      <4>1. \A k \in 1 .. n : l \in DOMAIN G[k] <=> l \in DOMAIN fr[k]
        BY <1>2, <1>3, <2>2
      <4> QED
        BY <1>3, <4>1 DEF Holding
    <3>2. \A k \in Holding(b, fr, l) : G[k][l] = fr[k][l]
      <4>1. \A k \in Holding(b, fr, l) : k \in 1 .. n /\ l \in DOMAIN fr[k]
        BY DEF Holding
      <4> QED
        BY <1>2, <1>3, <2>2, <4>1
    <3>3. CASE Holding(b, fr, l) = {}
      BY <2>0, <2>2, <3>1, <3>3 DEF View
    <3>4. CASE Holding(b, fr, l) # {}
      <4>1. PICK k \in Holding(b, fr, l) : /\ \A h \in Holding(b, fr, l) : h <= k
                                           /\ View(st, b, fr)[l] = fr[k][l]
        BY <3>4, ViewOf
      <4>2. View(st, b, G)[l] = G[k][l]
        BY <1>3, <3>1, <4>1, ViewIs
      <4> QED
        BY <2>0, <2>2, <3>2, <4>1, <4>2
    <3> QED
      BY <3>3, <3>4
  <2> QED
    BY <2>1, <2>2
<1>5. /\ View(st, b, G) = [l \in Loc |-> View(st, b, G)[l]]
      /\ After(View(st, b, fr), u) = [l \in Loc |-> After(View(st, b, fr), u)[l]]
  BY DEF View, After
<1> QED
  BY <1>4, <1>5 DEF G, w

\* An update of a parallel block is not.
LEMMA ViewParallel ==
  ASSUME NEW st \in States, NEW b \in {0, 1}, NEW fr \in Frames1, NEW u \in Upds,
         ~ SeqAt(b, Len(fr))
  PROVE  View(st, b, WithLast(fr, u)) = View(st, b, fr)
<1> DEFINE n == Len(fr)
           G == WithLast(fr, u)
<1>1. /\ G \in Frames1 /\ Len(G) = n /\ n \in Nat
      /\ \A k \in 1 .. n : k # n => G[k] = fr[k]
  <2>1. G \in Seq(Upds) /\ G # <<>> /\ Len(G) = n
    BY WithLastFacts DEF Frames1
  <2>2. \A k \in 1 .. n : k # n => G[k] = fr[k]
    BY DEF WithLast
  <2> QED
    BY <2>1, <2>2 DEF Frames1
<1> HIDE DEF G
<1>2. \A l : Holding(b, G, l) = Holding(b, fr, l)
  BY <1>1 DEF Holding
<1>3. \A l : \A k \in Holding(b, fr, l) : G[k] = fr[k]
  BY <1>1 DEF Holding
<1>4. ASSUME NEW l \in Loc
      PROVE  View(st, b, G)[l] = View(st, b, fr)[l]
  <2>1. CASE Holding(b, fr, l) = {}
    BY <1>2, <2>1 DEF View
  <2>2. CASE Holding(b, fr, l) # {}
    <3>1. PICK k \in Holding(b, fr, l) : /\ \A h \in Holding(b, fr, l) : h <= k
                                         /\ View(st, b, fr)[l] = fr[k][l]
      BY <2>2, ViewOf
    <3>2. View(st, b, G)[l] = G[k][l]
      BY <1>1, <1>2, <3>1, ViewIs
    <3> QED
      BY <1>3, <3>1, <3>2
  <2> QED
    BY <2>1, <2>2
<1>5. /\ View(st, b, G) = [l \in Loc |-> View(st, b, G)[l]]
      /\ View(st, b, fr) = [l \in Loc |-> View(st, b, fr)[l]]
  BY DEF View
<1> QED
  BY <1>4, <1>5 DEF G

Confs == {Conf(fr, bl) : fr \in Frames1, bl \in Seq(Block)}

LEMMA ConfFacts ==
  ASSUME NEW C \in Confs
  PROVE  /\ C.ok = TRUE /\ C.fr \in Frames1 /\ C.bl \in Seq(Block) /\ C = Conf(C.fr, C.bl)
         /\ Len(C.fr) \in Nat \ {0} /\ Last(C.fr) \in Upds
<1>1. C.ok = TRUE /\ C.fr \in Frames1 /\ C.bl \in Seq(Block) /\ C = Conf(C.fr, C.bl)
  BY DEF Confs, Conf
<1> QED
  BY <1>1, LastFacts DEF Frames1

\* Two fields and that it is none that failed.
LEMMA ConfIs ==
  ASSUME NEW fr, NEW bl
  PROVE  /\ Conf(fr, bl).ok = TRUE /\ Conf(fr, bl).fr = fr /\ Conf(fr, bl).bl = bl
         /\ Crash.ok = FALSE /\ Crash # Conf(fr, bl)
<1>1. Conf(fr, bl).ok = TRUE /\ Conf(fr, bl).fr = fr /\ Conf(fr, bl).bl = bl
  BY DEF Conf
<1>2. Crash.ok = FALSE
  BY DEF Crash
<1> QED
  BY <1>1, <1>2

\* What a block yields.
LEMMA YieldIs ==
  ASSUME NEW b \in {0, 1}, NEW C \in Confs, NEW u \in Upds
  PROVE  /\ Clashes(b, C.fr, u) => Yield(b, C, Ok(u)) = Crash
         /\ ~ Clashes(b, C.fr, u) =>
              /\ Yield(b, C, Ok(u)) = Conf(WithLast(C.fr, Both(Last(C.fr), u)), C.bl)
              /\ Yield(b, C, Ok(u)) \in Confs
<1>1. C.ok = TRUE /\ Ok(u).st = "ok" /\ Ok(u).upd = u
  BY ConfFacts, ResultFacts
<1>2. Yield(b, C, Ok(u)) = Put(b, C.fr, C.bl, u)
  BY <1>1 DEF Yield
<1>3. WithLast(C.fr, Both(Last(C.fr), u)) \in Frames1 /\ C.bl \in Seq(Block)
  <2> DEFINE w == Both(Last(C.fr), u)
  <2>1. w \in Upds /\ C.fr \in Seq(Upds) /\ C.fr # <<>> /\ C.bl \in Seq(Block)
    BY ConfFacts, BothUpds DEF Frames1
  <2> HIDE DEF w
  <2>2. WithLast(C.fr, w) \in Frames1
    BY <2>1, WithLastFacts DEF Frames1
  <2> QED
    BY <2>1, <2>2 DEF w
<1>4. Conf(WithLast(C.fr, Both(Last(C.fr), u)), C.bl) \in Confs
  BY <1>3 DEF Confs
<1> QED
  BY <1>2, <1>4 DEF Put

\* Failure is final.
LEMMA YieldCrash ==
  ASSUME NEW b, NEW C, NEW r, ~ C.ok \/ r.st # "ok"
  PROVE  Yield(b, C, r) = Crash
  BY DEF Yield

LEMMA YieldNone ==
  ASSUME NEW b \in {0, 1}, NEW C \in Confs
  PROVE  Yield(b, C, Ok(NoUpdates)) = C
<1>1. NoUpdates \in Upds /\ DOMAIN NoUpdates = {}
  BY BothUpds
<1>2. ~ Clashes(b, C.fr, NoUpdates)
  BY <1>1 DEF Clashes
<1>3. Yield(b, C, Ok(NoUpdates)) = Conf(WithLast(C.fr, Both(Last(C.fr), NoUpdates)), C.bl)
  BY <1>1, <1>2, YieldIs
<1>4. Both(Last(C.fr), NoUpdates) = Last(C.fr)
  BY ConfFacts, BothNone
<1>5. WithLast(C.fr, Last(C.fr)) = C.fr
  BY ConfFacts, WithLastFacts DEF Frames1
<1> QED
  BY <1>3, <1>4, <1>5, ConfFacts

\* Two updates of a block one after the other.
LEMMA YieldUpds ==
  ASSUME NEW b \in {0, 1}, NEW C \in Confs, NEW u \in Upds, NEW v \in Upds,
         ~ Clashes(b, C.fr, u)
  PROVE  LET D == Yield(b, C, Ok(u))
         IN  /\ D \in Confs /\ D.bl = C.bl /\ Len(D.fr) = Len(C.fr)
             /\ Last(D.fr) = Both(Last(C.fr), u)
             /\ WithLast(D.fr, Both(Last(D.fr), v)) = WithLast(C.fr, Both(Last(C.fr), Both(u, v)))
<1> DEFINE D == Yield(b, C, Ok(u))
           w == Both(Last(C.fr), u)
<1>1. D \in Confs /\ D = Conf(WithLast(C.fr, w), C.bl)
  BY YieldIs
<1>2. D.fr = WithLast(C.fr, w) /\ D.bl = C.bl
  <2> DEFINE G == WithLast(C.fr, w)
             B == C.bl
  <2>1. D = Conf(G, B)
    BY <1>1
  <2> HIDE DEF G, B, D
  <2>2. Conf(G, B).fr = G /\ Conf(G, B).bl = B
    BY DEF Conf
  <2>3. D.fr = G /\ D.bl = B
    BY <2>1, <2>2
  <2> QED
    BY <2>3 DEF G, B
<1>3. w \in Upds /\ C.fr \in Seq(Upds) /\ C.fr # <<>>
  BY ConfFacts, BothUpds DEF Frames1
<1> HIDE DEF D
<1>4. Len(D.fr) = Len(C.fr) /\ Last(D.fr) = w
  BY <1>2, <1>3, WithLastFacts
<1>5. Both(w, v) = Both(Last(C.fr), Both(u, v)) /\ Both(w, v) \in Upds
  BY <1>3, BothAssoc, BothUpds
<1>6. WithLast(D.fr, Both(w, v)) = WithLast(C.fr, Both(w, v))
  <2> HIDE DEF w
  <2> QED
    BY <1>2, <1>3, <1>5, WithLastFacts
<1>7. WithLast(D.fr, Both(Last(D.fr), v)) = WithLast(C.fr, Both(Last(C.fr), Both(u, v)))
  BY <1>4, <1>5, <1>6
<1>8. Last(D.fr) = Both(Last(C.fr), u)
  BY <1>4
<1> QED
  BY <1>1, <1>2, <1>4, <1>7, <1>8 DEF D

\* In a sequential block the results of two statements come one after the other.
LEMMA YieldThen ==
  ASSUME NEW b \in {0, 1}, NEW C \in Confs, SeqAt(b, Len(C.fr)),
         NEW r \in Results, NEW q \in Results
  PROVE  Yield(b, Yield(b, C, r), q) = Yield(b, C, Then(r, q))
<1>1. CASE r.st # "ok" \/ q.st # "ok"
  <2>1. Then(r, q).st = "fail"
    BY <1>1, ResultFacts DEF Then
  <2>2. Yield(b, C, Then(r, q)) = Crash
    BY <2>1, YieldCrash
  <2>3. Yield(b, Yield(b, C, r), q) = Crash
    <3>1. CASE r.st # "ok"
      BY <3>1, YieldCrash DEF Crash
    <3>2. CASE q.st # "ok"
      BY <3>2, YieldCrash
    <3> QED
      BY <1>1, <3>1, <3>2
  <2> QED
    BY <2>2, <2>3
<1>2. CASE r.st = "ok" /\ q.st = "ok"
  <2> DEFINE u == r.upd
             v == q.upd
             D == Yield(b, C, Ok(u))
  <2>1. u \in Upds /\ v \in Upds /\ Both(u, v) \in Upds
    BY ResultFacts, BothUpds
  <2>2. r = Ok(u) /\ q = Ok(v) /\ Then(r, q) = Ok(Both(u, v))
    BY <1>2, ResultFacts DEF Then
  <2> HIDE DEF u, v
  <2>3. \A x : ~ Clashes(b, C.fr, x)
    BY DEF Clashes
  <2>4. /\ D \in Confs /\ D.bl = C.bl /\ Len(D.fr) = Len(C.fr)
        /\ WithLast(D.fr, Both(Last(D.fr), v)) = WithLast(C.fr, Both(Last(C.fr), Both(u, v)))
    BY <2>1, <2>3, YieldUpds
  <2> HIDE DEF D
  <2>5. ~ Clashes(b, D.fr, v)
    BY <2>4 DEF Clashes
  <2>6. Yield(b, D, Ok(v)) = Conf(WithLast(D.fr, Both(Last(D.fr), v)), D.bl)
    BY <2>1, <2>4, <2>5, YieldIs
  <2>7. Yield(b, C, Ok(Both(u, v))) = Conf(WithLast(C.fr, Both(Last(C.fr), Both(u, v))), C.bl)
    BY <2>1, <2>3, YieldIs
  <2> QED
    BY <2>2, <2>4, <2>6, <2>7 DEF D
<1> QED
  BY <1>1, <1>2

\* In a parallel block the results of two statements must not meet.
LEMMA YieldBeside ==
  ASSUME NEW b \in {0, 1}, NEW C \in Confs, ~ SeqAt(b, Len(C.fr)),
         NEW r \in Results, NEW q \in Results
  PROVE  Yield(b, Yield(b, C, r), q) = Yield(b, C, Beside(r, q))
<1>1. CASE r.st # "ok" \/ q.st # "ok"
  <2>1. Beside(r, q).st = "fail"
    BY <1>1, ResultFacts DEF Then, Beside
  <2>2. Yield(b, C, Beside(r, q)) = Crash
    BY <2>1, YieldCrash
  <2>3. Yield(b, Yield(b, C, r), q) = Crash
    <3>1. CASE r.st # "ok"
      BY <3>1, YieldCrash DEF Crash
    <3>2. CASE q.st # "ok"
      BY <3>2, YieldCrash
    <3> QED
      BY <1>1, <3>1, <3>2
  <2> QED
    BY <2>2, <2>3
<1>2. CASE r.st = "ok" /\ q.st = "ok"
  <2> DEFINE u == r.upd
             v == q.upd
             D == Yield(b, C, Ok(u))
             L == Last(C.fr)
  <2>1. u \in Upds /\ v \in Upds /\ Both(u, v) \in Upds
    BY ResultFacts, BothUpds
  <2>2. /\ r = Ok(u) /\ q = Ok(v)
        /\ Beside(r, q) = IF DOMAIN u \cap DOMAIN v = {} THEN Ok(Both(u, v)) ELSE Failure
    BY <1>2, ResultFacts DEF Then, Beside
  <2>3. DOMAIN Both(u, v) = DOMAIN u \cup DOMAIN v /\ DOMAIN Both(L, u) = DOMAIN L \cup DOMAIN u
    BY DEF Both
  <2> HIDE DEF u, v
  <2>4. \A x : Clashes(b, C.fr, x) <=> DOMAIN L \cap DOMAIN x # {}
    BY DEF Clashes
  <2> HIDE DEF L
  <2>5. CASE DOMAIN L \cap DOMAIN u # {}
    <3>1. Yield(b, D, Ok(v)) = Crash
      BY <2>1, <2>4, <2>5, YieldIs, YieldCrash DEF Crash
    <3>2. Yield(b, C, Beside(r, q)) = Crash
      <4>1. CASE DOMAIN u \cap DOMAIN v = {}
        <5>1. DOMAIN L \cap DOMAIN Both(u, v) # {}
          BY <2>3, <2>5
        <5> QED
          BY <2>1, <2>2, <2>4, <4>1, <5>1, YieldIs
      <4>2. CASE DOMAIN u \cap DOMAIN v # {}
        BY <2>2, <4>2, ResultFacts, YieldCrash
      <4> QED
        BY <4>1, <4>2
    <3> QED
      BY <2>2, <3>1, <3>2
  <2>6. CASE DOMAIN L \cap DOMAIN u = {}
    <3>1. /\ D \in Confs /\ D.bl = C.bl /\ Len(D.fr) = Len(C.fr)
          /\ Last(D.fr) = Both(L, u)
          /\ WithLast(D.fr, Both(Last(D.fr), v)) = WithLast(C.fr, Both(L, Both(u, v)))
      BY <2>1, <2>4, <2>6, YieldUpds DEF L
    <3> HIDE DEF D
    <3>2. Clashes(b, D.fr, v) <=> (DOMAIN L \cup DOMAIN u) \cap DOMAIN v # {}
      BY <2>3, <3>1 DEF Clashes
    <3>3. CASE DOMAIN u \cap DOMAIN v # {}
      <4>1. Yield(b, D, Ok(v)) = Crash
        BY <2>1, <3>1, <3>2, <3>3, YieldIs
      <4> QED
        BY <2>2, <3>3, <4>1, ResultFacts, YieldCrash DEF D
    <3>4. CASE DOMAIN u \cap DOMAIN v = {}
      <4>1. Clashes(b, D.fr, v) <=> Clashes(b, C.fr, Both(u, v))
        BY <2>3, <2>4, <2>6, <3>2, <3>4
      <4>2. Yield(b, D, Ok(v)) = Yield(b, C, Ok(Both(u, v)))
        <5>1. CASE Clashes(b, D.fr, v)
          BY <2>1, <3>1, <4>1, <5>1, YieldIs
        <5>2. CASE ~ Clashes(b, D.fr, v)
          BY <2>1, <3>1, <4>1, <5>2, YieldIs DEF L
        <5> QED
          BY <5>1, <5>2
      <4> QED
        BY <2>2, <3>4, <4>2 DEF D
    <3> QED
      BY <3>3, <3>4
  <2> QED
    BY <2>5, <2>6
<1> QED
  BY <1>1, <1>2

\* A block that is entered, yields r and ends has yielded r where it stands.
LEMMA OpenShut ==
  ASSUME NEW b \in {0, 1}, NEW C \in Confs, NEW new \in Block, NEW r \in Results
  PROVE  /\ Open(C, new) \in Confs
         /\ Shut(b, Yield(b, Open(C, new), r)) = Yield(b, C, r)
<1> DEFINE O == Open(C, new)
<1>0. C.fr \in Seq(Upds) /\ C.fr # <<>> /\ C.bl \in Seq(Block) /\ C.ok
  BY ConfFacts DEF Frames1
<1>1. /\ Append(C.bl, new) \in Seq(Block) /\ ButLast(Append(C.bl, new)) = C.bl
      /\ Last(Append(C.bl, new)) = new
  BY <1>0, AppendFacts
<1>2. /\ Append(C.fr, NoUpdates) \in Frames1 /\ Last(Append(C.fr, NoUpdates)) = NoUpdates
      /\ \A u \in Upds : WithLast(Append(C.fr, NoUpdates), u) = Append(C.fr, u)
  <2>1. NoUpdates \in Upds
    BY BothUpds
  <2>2. \A x \in Upds : /\ Append(C.fr, x) \in Frames1 /\ Last(Append(C.fr, x)) = x
                        /\ \A u \in Upds : WithLast(Append(C.fr, x), u) = Append(C.fr, u)
    <3> DEFINE F == C.fr
    <3>1. F \in Seq(Upds)
      BY <1>0
    <3> HIDE DEF F
    <3>2. ASSUME NEW x \in Upds
          PROVE  /\ Append(F, x) \in Seq(Upds) /\ Append(F, x) # <<>> /\ Last(Append(F, x)) = x
                 /\ \A u \in Upds : WithLast(Append(F, x), u) = Append(F, u)
      BY <3>1, AppendFacts
    <3> QED
      BY <3>2 DEF Frames1, F
  <2> QED
    BY <2>1, <2>2
<1>3. \A u \in Upds : Last(Append(C.fr, u)) = u /\ ButLast(Append(C.fr, u)) = C.fr
  BY <1>0, AppendFacts
<1> DEFINE G == IF new.forked THEN Append(C.fr, NoUpdates) ELSE C.fr
           B == Append(C.bl, new)
<1>a. O = Conf(G, B) /\ G \in Frames1 /\ B \in Seq(Block)
  BY <1>0, <1>1, <1>2 DEF Open, Frames1
<1>b. G = IF new.forked THEN Append(C.fr, NoUpdates) ELSE C.fr
  OBVIOUS
<1> HIDE DEF G, O
<1>4. O \in Confs
  <2> HIDE DEF B
  <2> QED
    BY <1>a DEF Confs
<1>5. O.bl = B /\ O.fr = IF new.forked THEN Append(C.fr, NoUpdates) ELSE C.fr
  <2> HIDE DEF B
  <2>1. O.bl = B /\ O.fr = G
    BY <1>a, ConfIs
  <2> QED
    BY <2>1, <1>b
<1>c. Shut(b, Crash) = Crash
  BY DEF Shut, Crash
<1>6. CASE r.st # "ok"
  <2>1. Yield(b, O, r) = Crash /\ Yield(b, C, r) = Crash
    BY <1>6, YieldCrash
  <2> QED
    BY <1>4, <1>c, <2>1 DEF O
<1>7. CASE r.st = "ok"
  <2> DEFINE u == r.upd
  <2>1. u \in Upds /\ r = Ok(u)
    BY <1>7, ResultFacts
  <2> HIDE DEF u
  <2>2. CASE new.forked
    <3>1. ~ Clashes(b, O.fr, u)
      BY <1>2, <1>5, <2>2, BothUpds DEF Clashes
    <3>2. Yield(b, O, Ok(u)) = Conf(WithLast(O.fr, Both(Last(O.fr), u)), O.bl)
      BY <1>4, <2>1, <3>1, YieldIs
    <3>3. Both(NoUpdates, u) = u
      BY <2>1, BothNone
    <3>4. Yield(b, O, Ok(u)) = Conf(Append(C.fr, u), Append(C.bl, new))
      BY <1>2, <1>5, <2>1, <2>2, <3>2, <3>3
    <3>5. Shut(b, Yield(b, O, Ok(u))) = Put(b, C.fr, C.bl, u)
      <4> DEFINE A == Append(C.fr, u)
                 D == Conf(A, B)
      <4>1. Last(A) = u /\ ButLast(A) = C.fr /\ Last(B) = new /\ ButLast(B) = C.bl
        BY <1>1, <1>3, <2>1
      <4> HIDE DEF A, B
      <4>2. D.ok = TRUE /\ D.fr = A /\ D.bl = B
        BY DEF Conf
      <4> HIDE DEF D
      <4>3. Shut(b, D) = Put(b, C.fr, C.bl, u)
        BY <2>2, <4>1, <4>2 DEF Shut
      <4> QED
        BY <3>4, <4>3 DEF A, B, D
    <3>6. Yield(b, C, Ok(u)) = Put(b, C.fr, C.bl, u)
      BY <1>0, <2>1, ResultFacts DEF Yield
    <3> QED
      BY <1>4, <2>1, <3>5, <3>6 DEF O
  <2>3. CASE ~ new.forked
    <3>1. O.fr = C.fr
      BY <1>5, <2>3
    <3>2. CASE Clashes(b, C.fr, u)
      <4>1. Yield(b, O, r) = Crash /\ Yield(b, C, r) = Crash
        BY <1>4, <2>1, <3>1, <3>2, YieldIs
      <4> QED
        BY <1>4, <1>c, <4>1 DEF O
    <3>3. CASE ~ Clashes(b, C.fr, u)
      <4> DEFINE H == WithLast(C.fr, Both(Last(C.fr), u))
                 D == Conf(H, B)
      <4>1. Yield(b, O, Ok(u)) = D /\ Yield(b, C, Ok(u)) = Conf(H, C.bl)
        BY <1>4, <1>5, <2>1, <3>1, <3>3, YieldIs
      <4>2. Shut(b, D) = Conf(H, C.bl)
        <5>1. Last(B) = new /\ ButLast(B) = C.bl
          BY <1>1
        <5> HIDE DEF H, B
        <5>2. D.ok = TRUE /\ D.fr = H /\ D.bl = B
          BY DEF Conf
        <5> HIDE DEF D
        <5> QED
          BY <2>3, <5>1, <5>2 DEF Shut
      <4> QED
        BY <1>4, <2>1, <4>1, <4>2 DEF O
    <3> QED
      BY <3>2, <3>3
  <2> QED
    BY <2>2, <2>3
<1> QED
  BY <1>4, <1>6, <1>7 DEF O

\* The activation record of an iterate, with its flag.
Mark(C, flag) == Conf(C.fr, [C.bl EXCEPT ![Len(C.bl)].running = flag])

LEMMA MarkFacts ==
  ASSUME NEW C \in Confs, C.bl # <<>>, NEW flag \in BOOLEAN
  PROVE  /\ Mark(C, flag) \in Confs /\ Mark(C, flag).fr = C.fr /\ Mark(C, flag).bl # <<>>
         /\ Last(Mark(C, flag).bl).running = flag
         /\ Last(Mark(C, flag).bl).forked = Last(C.bl).forked
         /\ ButLast(Mark(C, flag).bl) = ButLast(C.bl)
<1> DEFINE n == Len(C.bl)
           B == [C.bl EXCEPT ![n].running = flag]
           x == [C.bl[n] EXCEPT !.running = flag]
<1>1. /\ C.fr \in Frames1 /\ C.bl \in Seq(Block) /\ n \in Nat \ {0} /\ n \in 1 .. n
      /\ C.bl[n] \in Block
  <2>1. C.fr \in Frames1 /\ C.bl \in Seq(Block)
    BY ConfFacts
  <2> QED
    BY <2>1
<1>2. x \in Block /\ x.running = flag /\ x.forked = C.bl[n].forked
  BY <1>1 DEF Block
<1>3. B = WithLast(C.bl, x)
  <2>1. /\ DOMAIN (C.bl) = 1 .. n /\ B = [k \in DOMAIN (C.bl) |-> IF k = n THEN x ELSE C.bl[k]]
    BY <1>1
  <2> QED
    BY <2>1 DEF WithLast
<1> HIDE DEF B, x
<1>4. /\ B \in Seq(Block) /\ B # <<>> /\ Last(B) = x /\ ButLast(B) = ButLast(C.bl)
  BY <1>1, <1>2, <1>3, WithLastFacts
<1>5. Mark(C, flag) = Conf(C.fr, B)
  BY DEF Mark, B
<1>6. Conf(C.fr, B) \in Confs
  BY <1>1, <1>4 DEF Confs
<1>7. Conf(C.fr, B).fr = C.fr /\ Conf(C.fr, B).bl = B
  BY DEF Conf
<1>8. Last(C.bl) = C.bl[n]
  BY DEF Last
<1> QED
  BY <1>2, <1>4, <1>5, <1>6, <1>7, <1>8

\* The flag does not matter when the iterate ends.
LEMMA MarkShut ==
  ASSUME NEW b \in {0, 1}, NEW C \in Confs, C.bl # <<>>, NEW flag \in BOOLEAN, NEW r \in Results
  PROVE  Shut(b, Yield(b, Mark(C, flag), r)) = Shut(b, Yield(b, C, r))
<1> DEFINE M == Mark(C, flag)
<1>1. /\ M \in Confs /\ M.fr = C.fr /\ Last(M.bl).forked = Last(C.bl).forked
      /\ ButLast(M.bl) = ButLast(C.bl)
  BY MarkFacts
<1> HIDE DEF M
<1>2. CASE r.st # "ok"
  <2>1. Yield(b, M, r) = Crash /\ Yield(b, C, r) = Crash
    BY <1>2, YieldCrash
  <2> QED
    BY <2>1 DEF M
<1>3. CASE r.st = "ok"
  <2> DEFINE u == r.upd
             G == WithLast(C.fr, Both(Last(C.fr), u))
  <2>1. u \in Upds /\ r = Ok(u)
    BY <1>3, ResultFacts
  <2> HIDE DEF u
  <2>2. CASE Clashes(b, C.fr, u)
    <3>1. Yield(b, M, r) = Crash /\ Yield(b, C, r) = Crash
      BY <1>1, <2>1, <2>2, YieldIs
    <3> QED
      BY <3>1 DEF M
  <2>3. CASE ~ Clashes(b, C.fr, u)
    <3>1. Yield(b, M, r) = Conf(G, M.bl) /\ Yield(b, C, r) = Conf(G, C.bl)
      BY <1>1, <2>1, <2>3, YieldIs
    <3> HIDE DEF G
    <3>2. Shut(b, Conf(G, M.bl)) = Shut(b, Conf(G, C.bl))
      <4>1. \A B : Conf(G, B).ok /\ Conf(G, B).fr = G /\ Conf(G, B).bl = B
        BY DEF Conf
      <4> QED
        BY <1>1, <4>1 DEF Shut
    <3> QED
      BY <3>1, <3>2 DEF M
  <2> QED
    BY <2>2, <2>3
<1> QED
  BY <1>2, <1>3

\* A round yields its updates to the iterate, and says whether there are any.
LEMMA RoundShut ==
  ASSUME NEW b \in {0, 1}, NEW C \in Confs, C.bl # <<>>, SeqAt(b, Len(C.fr)),
         NEW new \in Block, new.forked, NEW u \in Upds
  PROVE  ShutRound(b, Yield(b, Open(C, new), Ok(u))) =
           Mark(Yield(b, C, Ok(u)), u # NoUpdates)
<1> DEFINE A == Append(C.fr, u)
           B == Append(C.bl, new)
           w == Both(Last(C.fr), u)
           flag == (u # NoUpdates)
           n == Len(C.bl)
<1>1. C.fr \in Seq(Upds) /\ C.fr # <<>> /\ C.bl \in Seq(Block) /\ C.ok
  BY ConfFacts DEF Frames1
<1>2. /\ ButLast(B) = C.bl /\ Len(B) = n + 1 /\ n \in Nat
      /\ Last(A) = u /\ ButLast(A) = C.fr
  BY <1>1, AppendFacts
<1>3. Yield(b, Open(C, new), Ok(u)) = Conf(A, B)
  <2> DEFINE O == Open(C, new)
             E == Append(C.fr, NoUpdates)
  <2>1. O = Conf(E, B)
    BY DEF Open
  <2>2. O \in Confs
    BY ResultFacts, OpenShut
  <2>3. NoUpdates \in Upds /\ DOMAIN NoUpdates = {}
    BY BothUpds
  <2>4. Last(E) = NoUpdates /\ \A y \in Upds : WithLast(E, y) = Append(C.fr, y)
    BY <1>1, <2>3, AppendFacts
  <2> HIDE DEF E, B, O
  <2>5. O.fr = E /\ O.bl = B
    BY <2>1 DEF Conf
  <2>6. ~ Clashes(b, O.fr, u)
    BY <2>3, <2>4, <2>5 DEF Clashes
  <2>7. Yield(b, O, Ok(u)) = Conf(WithLast(E, Both(NoUpdates, u)), B)
    BY <2>2, <2>4, <2>5, <2>6, YieldIs
  <2>8. Both(NoUpdates, u) = u
    BY BothNone
  <2> QED
    BY <2>4, <2>7, <2>8 DEF O
<1> HIDE DEF A, B
<1> DEFINE N == [C.bl EXCEPT ![n].running = flag]
<1>4. ShutRound(b, Conf(A, B)) = Put(b, C.fr, N, u)
  <2> DEFINE D == Conf(A, B)
  <2>1. D.ok /\ D.fr = A /\ D.bl = B
    BY DEF Conf
  <2> HIDE DEF D
  <2>2. Noted(D) = N
    <3>1. Len(D.bl) - 1 = n
      BY <1>2, <2>1
    <3> QED
      BY <1>2, <2>1, <3>1 DEF Noted
  <2> QED
    BY <1>2, <2>1, <2>2 DEF ShutRound, D
<1>5. ~ Clashes(b, C.fr, u)
  BY DEF Clashes
<1>6. Put(b, C.fr, N, u) = Conf(WithLast(C.fr, w), N)
  BY <1>5 DEF Put
<1>7. Yield(b, C, Ok(u)) = Conf(WithLast(C.fr, w), C.bl)
  BY <1>5, YieldIs
<1>8. Mark(Conf(WithLast(C.fr, w), C.bl), flag) = Conf(WithLast(C.fr, w), N)
  <2> DEFINE G == WithLast(C.fr, w)
  <2>1. Conf(G, C.bl).fr = G /\ Conf(G, C.bl).bl = C.bl
    BY DEF Conf
  <2> HIDE DEF G
  <2> QED
    BY <2>1 DEF Mark, G
<1> QED
  BY <1>3, <1>4, <1>6, <1>7, <1>8

-----------------------------------------------------------------------------
(* What is left to do, each item taken for what it means.                  *)

Do(m, st, b, x, C) ==
  IF ~ C.ok THEN Crash
  ELSE IF x.k = "stmt" THEN Yield(b, C, Meaning(m, x.s, View(st, b, C.fr), x.i))
  ELSE IF x.k = "end_round" THEN ShutRound(b, C)
  ELSE IF x.k = "while" /\ Last(C.bl).running
    THEN Shut(b, Yield(b, C, Meaning(m, x.s, View(st, b, C.fr), x.i)))
  ELSE Shut(b, C)

\* g says what there is after each of the items ts, from C to D.
LeadsBy(m, st, b, ts, C, D, g) ==
  /\ g[0] = C /\ g[Len(ts)] = D
  /\ \A n \in 1 .. Len(ts) : g[n] = Do(m, st, b, ts[n], g[n - 1])

Leads(m, st, b, ts, C, D) == \E g : LeadsBy(m, st, b, ts, C, D, g)

LEMMA LeadsNothing ==
  ASSUME NEW m, NEW st, NEW b, NEW C, NEW D, Leads(m, st, b, <<>>, C, D)
  PROVE  C = D
  BY DEF Leads, LeadsBy

LEMMA LeadsNowhere ==
  ASSUME NEW m, NEW st, NEW b, NEW C
  PROVE  Leads(m, st, b, <<>>, C, C)
<1> DEFINE g == [n \in 0 .. 0 |-> C]
<1>1. g[0] = C
  OBVIOUS
<1> HIDE DEF g
<1>2. Len(<<>>) = 0 /\ 1 .. 0 = {}
  OBVIOUS
<1>3. LeadsBy(m, st, b, <<>>, C, C, g)
  BY <1>1, <1>2 DEF LeadsBy
<1> QED
  BY <1>3 DEF Leads

LEMMA LeadsOne ==
  ASSUME NEW m, NEW st, NEW b, NEW C, NEW x
  PROVE  Leads(m, st, b, <<x>>, C, Do(m, st, b, x, C))
<1> DEFINE D == Do(m, st, b, x, C)
           g == [n \in 0 .. 1 |-> IF n = 0 THEN C ELSE D]
<1>1. g[0] = C /\ g[1] = D
  OBVIOUS
<1>2. D = Do(m, st, b, x, C)
  OBVIOUS
<1> HIDE DEF g, D
<1>3. Len(<<x>>) = 1 /\ <<x>>[1] = x /\ \A n \in 1 .. 1 : n = 1 /\ n - 1 = 0
  OBVIOUS
<1>4. LeadsBy(m, st, b, <<x>>, C, D, g)
  BY <1>1, <1>2, <1>3 DEF LeadsBy
<1> QED
  BY <1>4 DEF Leads, D

\* The first item.
LEMMA LeadsTail ==
  ASSUME NEW m, NEW st, NEW b, NEW C, NEW D, NEW T, NEW ts \in Seq(T), ts # <<>>,
         Leads(m, st, b, ts, C, D)
  PROVE  Leads(m, st, b, Tail(ts), Do(m, st, b, ts[1], C), D)
<1>1. PICK g : LeadsBy(m, st, b, ts, C, D, g)
  BY DEF Leads
<1> DEFINE us == Tail(ts)
           E == Do(m, st, b, ts[1], C)
           h == [n \in 0 .. Len(ts) - 1 |-> g[n + 1]]
<1>2. /\ Len(ts) \in Nat \ {0} /\ Len(us) = Len(ts) - 1
      /\ \A n \in 1 .. Len(ts) - 1 : us[n] = ts[n + 1]
  OBVIOUS
<1>3. g[1] = E
  <2>1. 1 \in 1 .. Len(ts) /\ 1 - 1 = 0
    BY <1>2
  <2> QED
    BY <1>1, <2>1 DEF LeadsBy
<1>4. \A n \in 0 .. Len(ts) - 1 : h[n] = g[n + 1]
  OBVIOUS
<1> HIDE DEF us, E, h
<1>5. h[0] = E /\ h[Len(us)] = D
  BY <1>1, <1>2, <1>3, <1>4 DEF LeadsBy
<1>6. ASSUME NEW n \in 1 .. Len(us)
      PROVE  h[n] = Do(m, st, b, us[n], h[n - 1])
  <2>1. n + 1 \in 1 .. Len(ts) /\ (n + 1) - 1 = n /\ (n - 1) + 1 = n /\ us[n] = ts[n + 1]
    BY <1>2
  <2>2. h[n] = g[n + 1] /\ h[n - 1] = g[n]
    BY <1>2, <1>4, <2>1
  <2>3. g[n + 1] = Do(m, st, b, ts[n + 1], g[n])
    BY <1>1, <2>1 DEF LeadsBy
  <2> QED
    BY <2>1, <2>2, <2>3
<1>7. LeadsBy(m, st, b, us, E, D, h)
  BY <1>5, <1>6 DEF LeadsBy
<1> QED
  BY <1>7 DEF Leads, us, E

\* One list after the other.
LEMMA LeadsOn ==
  ASSUME NEW m, NEW st, NEW b, NEW C, NEW D, NEW E, NEW T, NEW us \in Seq(T), NEW ts \in Seq(T),
         Leads(m, st, b, us, C, E), Leads(m, st, b, ts, E, D)
  PROVE  Leads(m, st, b, us \o ts, C, D)
<1>1. PICK g : LeadsBy(m, st, b, us, C, E, g)
  BY DEF Leads
<1>2. PICK h : LeadsBy(m, st, b, ts, E, D, h)
  BY DEF Leads
<1> DEFINE p == Len(us)
           q == Len(ts)
           ws == us \o ts
           f == [n \in 0 .. p + q |-> IF n <= p THEN g[n] ELSE h[n - p]]
<1>3. /\ p \in Nat /\ q \in Nat /\ Len(ws) = p + q
      /\ \A n \in 1 .. p : ws[n] = us[n]
      /\ \A n \in 1 .. q : ws[n + p] = ts[n]
  OBVIOUS
<1>4. /\ g[0] = C /\ g[p] = E /\ \A n \in 1 .. p : g[n] = Do(m, st, b, us[n], g[n - 1])
      /\ h[0] = E /\ h[q] = D /\ \A n \in 1 .. q : h[n] = Do(m, st, b, ts[n], h[n - 1])
  BY <1>1, <1>2 DEF LeadsBy
<1> HIDE DEF p, q, ws
<1>5. \A n \in 0 .. p : n \in 0 .. p + q /\ n <= p
  BY <1>3
<1>6. \A n \in 0 .. p : f[n] = g[n]
  BY <1>5
<1>7. ASSUME NEW n \in 0 .. q
      PROVE  f[n + p] = h[n]
  <2>1. CASE n = 0
    <3>1. n + p = p /\ p \in 0 .. p
      BY <1>3, <2>1
    <3>2. f[p] = g[p]
      BY <1>6, <3>1
    <3> QED
      BY <1>4, <2>1, <3>1, <3>2
  <2>2. CASE n # 0
    <3>1. n + p \in 0 .. p + q /\ ~ (n + p <= p) /\ (n + p) - p = n
      BY <1>3, <2>2
    <3> QED
      BY <3>1
  <2> QED
    BY <2>1, <2>2
<1> HIDE DEF f
<1>8. ASSUME NEW n \in 1 .. p + q
      PROVE  f[n] = Do(m, st, b, ws[n], f[n - 1])
  <2>1. CASE n <= p
    <3>1. n \in 0 .. p /\ n - 1 \in 0 .. p /\ n \in 1 .. p
      BY <1>3, <2>1
    <3>2. f[n] = g[n] /\ f[n - 1] = g[n - 1] /\ ws[n] = us[n] /\ g[n] = Do(m, st, b, us[n], g[n - 1])
      BY <1>3, <1>4, <1>6, <3>1
    <3> QED
      BY <3>2
  <2>2. CASE ~ (n <= p)
    <3> DEFINE k == n - p
    <3>1. /\ k \in 0 .. q /\ k - 1 \in 0 .. q /\ k \in 1 .. q
          /\ k + p = n /\ (k - 1) + p = n - 1
      BY <1>3, <2>2
    <3> HIDE DEF k
    <3>2. f[n] = h[k] /\ f[n - 1] = h[k - 1] /\ ws[n] = ts[k]
      BY <1>3, <1>7, <3>1
    <3>3. h[k] = Do(m, st, b, ts[k], h[k - 1])
      BY <1>4, <3>1
    <3> QED
      BY <3>2, <3>3
  <2> QED
    BY <2>1, <2>2
<1>9. f[0] = C /\ f[p + q] = D
  <2>1. 0 \in 0 .. p /\ q \in 0 .. q /\ q + p = p + q
    BY <1>3
  <2>2. f[0] = g[0] /\ f[q + p] = h[q]
    BY <1>6, <1>7, <2>1
  <2> QED
    BY <1>4, <2>1, <2>2
<1>10. LeadsBy(m, st, b, ws, C, D, f)
  BY <1>3, <1>8, <1>9 DEF LeadsBy
<1> QED
  BY <1>10 DEF Leads, ws

\* After a failure nothing happens any more.
LEMMA LeadsCrash ==
  ASSUME NEW m, NEW st, NEW b, NEW D, NEW T, NEW ts \in Seq(T), Leads(m, st, b, ts, Crash, D)
  PROVE  D = Crash
<1>1. PICK g : LeadsBy(m, st, b, ts, Crash, D, g)
  BY DEF Leads
<1> DEFINE S == {n \in Nat : n \in 0 .. Len(ts) => g[n] = Crash}
<1>2. 0 \in S
  BY <1>1 DEF LeadsBy
<1>3. ASSUME NEW n \in Nat, n \in S
      PROVE  n + 1 \in S
  <2> SUFFICES ASSUME n + 1 \in 0 .. Len(ts)
               PROVE  g[n + 1] = Crash
    OBVIOUS
  <2>1. n \in 0 .. Len(ts) /\ n + 1 \in 1 .. Len(ts) /\ (n + 1) - 1 = n
    OBVIOUS
  <2>2. g[n] = Crash
    BY <1>3, <2>1
  <2>3. g[n + 1] = Do(m, st, b, ts[n + 1], g[n])
    BY <1>1, <2>1 DEF LeadsBy
  <2>4. ~ Crash.ok
    BY DEF Crash
  <2> QED
    BY <2>2, <2>3, <2>4 DEF Do
<1>4. \A n \in Nat : n \in S
  <2> HIDE DEF S
  <2> QED
    BY <1>2, <1>3, SetInduction
<1>5. Len(ts) \in Nat /\ Len(ts) \in 0 .. Len(ts)
  OBVIOUS
<1>6. g[Len(ts)] = Crash
  BY <1>4, <1>5
<1> QED
  BY <1>1, <1>6 DEF LeadsBy

\* The first item may be replaced by items that come to the same.
LEMMA LeadsInstead ==
  ASSUME NEW m, NEW st, NEW b, NEW C, NEW D, NEW C2, NEW T, NEW ts \in Seq(T), ts # <<>>,
         NEW items \in Seq(T), Leads(m, st, b, ts, C, D),
         Leads(m, st, b, items, C2, Do(m, st, b, ts[1], C))
  PROVE  Leads(m, st, b, items \o Tail(ts), C2, D)
<1> DEFINE E == Do(m, st, b, ts[1], C)
           us == Tail(ts)
<1>1. us \in Seq(T) /\ Leads(m, st, b, us, E, D)
  BY LeadsTail
<1>2. Leads(m, st, b, items, C2, E)
  OBVIOUS
<1> HIDE DEF E, us
<1>3. Leads(m, st, b, items \o us, C2, D)
  BY <1>1, <1>2, LeadsOn
<1> QED
  BY <1>3 DEF us

-----------------------------------------------------------------------------
(* What statements mean.                                                   *)

\* The equations.
LEMMA MeaningOf ==
  ASSUME Denotes(Visits), NEW m \in Machines, NEW p \in Visits, NEW s, NEW i, p[1] = s, p[2] = i,
         NEW S \in States
  PROVE  /\ Meaning(m, s, S, i) = Unfold(m, s, S, i)
         /\ Meaning(m, s, S, i) \in Results
<1>1. /\ Meaning(m, p[1], S, p[2]) = Unfold(m, p[1], S, p[2])
      /\ Meaning(m, p[1], S, p[2]) \in Results
  BY DEF Denotes
<1> QED
  BY <1>1

LEMMA MeaningIs ==
  ASSUME Denotes(Visits), NEW m \in Machines, NEW s, NEW i, <<s, i>> \in Visits, NEW S \in States
  PROVE  /\ Meaning(m, s, S, i) = Unfold(m, s, S, i)
         /\ Meaning(m, s, S, i) \in Results
<1> DEFINE p == <<s, i>>
<1>1. p \in Visits /\ p[1] = s /\ p[2] = i
  OBVIOUS
<1> HIDE DEF p
<1> QED
  BY <1>1, MeaningOf

\* The statements of a sequential block, one after the other, come to what the
\* block means.
LEMMA SeqLeads ==
  ASSUME Denotes(Visits), NEW m \in Machines, NEW st \in States, NEW b \in {0, 1},
         NEW ss, NEW i, IsSeq(ss), \A n \in DOMAIN ss : <<ss[n], i>> \in Visits,
         NEW C \in Confs, SeqAt(b, Len(C.fr))
  PROVE  /\ InTurn(m, ss, View(st, b, C.fr), i) \in Results
         /\ Leads(m, st, b, Body(ss, i), C, Yield(b, C, InTurn(m, ss, View(st, b, C.fr), i)))
<1> DEFINE S == View(st, b, C.fr)
           N == Len(ss)
           G == [p \in (1 .. N) \X Results |-> Onwards(p[2], m, ss[p[1]], S, i)]
<1>1. N \in Nat /\ DOMAIN ss = 1 .. N
  BY DEF IsSeq
<1>2. S \in States
  BY ConfFacts, ViewStates
<1> HIDE DEF S, N
<1>3. ASSUME NEW k \in 1 .. N, NEW r \in Results
      PROVE  /\ Meaning(m, ss[k], After(S, r.upd), i) \in Results
             /\ Onwards(r, m, ss[k], S, i) \in Results
  <2>1. After(S, r.upd) \in States
    BY <1>2, ResultFacts, AfterFacts
  <2>2. Meaning(m, ss[k], After(S, r.upd), i) \in Results
    BY <1>1, <2>1, MeaningIs
  <2> QED
    BY <2>2, ThenFacts DEF Onwards
<1>4. G \in [(1 .. N) \X Results -> Results]
  BY <1>3
<1>5. \A k \in 1 .. N, r \in Results : G[<<k, r>>] = Onwards(r, m, ss[k], S, i)
  OBVIOUS
<1> HIDE DEF G
<1>6. PICK q \in [0 .. N -> Results] :
        q = [n \in 0 .. N |-> IF n = 0 THEN Ok(NoUpdates) ELSE G[<<n, q[n - 1]>>]]
  <2> DEFINE a == Ok(NoUpdates)
             R == Results
  <2>1. a \in R /\ G \in [(1 .. N) \X R -> R]
    BY <1>4, ResultFacts
  <2> HIDE DEF a, R
  <2>2. PICK q : Recursive(R, a, N, G, q)
    BY <1>1, <2>1, Recursion
  <2> QED
    BY <2>2 DEF a, R, Recursive
<1>7. \A n \in 1 .. N : n - 1 \in 0 .. N
  BY <1>1
<1>8. q = [n \in 0 .. N |-> IF n = 0 THEN Ok(NoUpdates) ELSE Onwards(q[n - 1], m, ss[n], S, i)]
  <2>1. \A n \in 0 .. N : n # 0 => n \in 1 .. N
    BY <1>1
  <2>2. \A n \in 1 .. N : G[<<n, q[n - 1]>>] = Onwards(q[n - 1], m, ss[n], S, i)
    BY <1>5, <1>7
  <2>3. \A n \in 0 .. N : (IF n = 0 THEN Ok(NoUpdates) ELSE G[<<n, q[n - 1]>>]) =
                          (IF n = 0 THEN Ok(NoUpdates) ELSE Onwards(q[n - 1], m, ss[n], S, i))
    BY <2>1, <2>2
  <2> QED
    BY <1>6, <2>3
<1> DEFINE r == CHOOSE f :
        f = [n \in 0 .. N |-> IF n = 0 THEN Ok(NoUpdates) ELSE Onwards(f[n - 1], m, ss[n], S, i)]
<1>9. r = [n \in 0 .. N |-> IF n = 0 THEN Ok(NoUpdates) ELSE Onwards(r[n - 1], m, ss[n], S, i)]
  BY <1>8
<1>10. InTurn(m, ss, S, i) = r[N]
  BY DEF InTurn, N
<1> HIDE DEF r
<1>11. /\ r[0] = Ok(NoUpdates)
       /\ \A n \in 1 .. N : r[n] = Onwards(r[n - 1], m, ss[n], S, i)
  <2>1. 0 \in 0 .. N /\ \A n \in 1 .. N : n \in 0 .. N /\ n # 0
    BY <1>1
  <2> QED
    BY <1>9, <2>1
<1>12. \A n \in 0 .. N : r[n] \in Results
  <2> DEFINE I == {n \in Nat : n \in 0 .. N => r[n] \in Results}
  <2>1. 0 \in I
    BY <1>11, ResultFacts
  <2>2. ASSUME NEW n \in Nat, n \in I
        PROVE  n + 1 \in I
    <3> SUFFICES ASSUME n + 1 \in 0 .. N
                 PROVE  r[n + 1] \in Results
      OBVIOUS
    <3>1. n \in 0 .. N /\ n + 1 \in 1 .. N /\ (n + 1) - 1 = n
      BY <1>1
    <3>2. r[n + 1] = Onwards(r[n], m, ss[n + 1], S, i)
      BY <1>11, <3>1
    <3>3. r[n] \in Results
      BY <2>2, <3>1
    <3> QED
      BY <1>3, <3>1, <3>2, <3>3
  <2>3. \A n \in Nat : n \in I
    <3> HIDE DEF I
    <3> QED
      BY <2>1, <2>2, SetInduction
  <2> QED
    BY <1>1, <2>3
<1> DEFINE g == [n \in 0 .. N |-> Yield(b, C, r[n])]
           ts == Body(ss, i)
<1>13. /\ N \in 0 .. N /\ 0 \in 0 .. N
       /\ g[0] = C /\ \A n \in 0 .. N : g[n] = Yield(b, C, r[n])
  BY <1>1, <1>11, YieldNone
<1> HIDE DEF g
<1>14. Len(ts) = N /\ \A n \in 1 .. N : ts[n].k = "stmt" /\ ts[n].s = ss[n] /\ ts[n].i = i
  <2>1. ts = [n \in 1 .. N |-> Stmt(ss[n], i)]
    BY <1>1 DEF Body
  <2>2. Len(ts) = N
    BY <1>1, <2>1
  <2> QED
    BY <1>1, <2>1, <2>2 DEF Stmt
<1> HIDE DEF ts
<1>15. ASSUME NEW n \in 1 .. N
       PROVE  g[n] = Do(m, st, b, ts[n], g[n - 1])
  <2> DEFINE p == r[n - 1]
             D == Yield(b, C, p)
             one == Meaning(m, ss[n], After(S, p.upd), i)
  <2>0. n \in 0 .. N /\ n - 1 \in 0 .. N
    BY <1>1
  <2>a. p \in Results
    BY <1>12, <2>0
  <2>b. g[n - 1] = D /\ g[n] = Yield(b, C, r[n])
    BY <1>13, <2>0
  <2>c. r[n] = Then(p, one)
    BY <1>11 DEF Onwards
  <2>d. one \in Results
    BY <1>3, <2>a
  <2>1. /\ n \in 0 .. N /\ n - 1 \in 0 .. N /\ p \in Results /\ one \in Results
        /\ g[n - 1] = D /\ g[n] = Yield(b, C, r[n]) /\ r[n] = Then(p, one)
    BY <2>0, <2>a, <2>b, <2>c, <2>d
  <2> HIDE DEF p
  <2>2. Yield(b, D, one) = Yield(b, C, r[n])
    BY <2>1, YieldThen
  <2>3. CASE p.st # "ok"
    <3>1. D = Crash /\ ~ Crash.ok
      BY <2>3, YieldCrash DEF Crash
    <3>2. Do(m, st, b, ts[n], D) = Crash /\ Yield(b, D, one) = Crash
      BY <3>1, YieldCrash DEF Do
    <3> QED
      BY <2>1, <2>2, <3>2
  <2>4. CASE p.st = "ok"
    <3>1. p.upd \in Upds /\ p = Ok(p.upd) /\ ~ Clashes(b, C.fr, p.upd)
      BY <2>1, <2>4, ResultFacts DEF Clashes
    <3> DEFINE F == WithLast(C.fr, Both(Last(C.fr), p.upd))
    <3>2. D = Conf(F, C.bl)
      BY <3>1, YieldIs
    <3>3. View(st, b, F) = After(S, p.upd)
      BY <3>1, ConfFacts, ViewSequential DEF S
    <3> HIDE DEF F, D
    <3>4. D.ok /\ D.fr = F
      BY <3>2, ConfIs
    <3>5. Do(m, st, b, ts[n], D) = Yield(b, D, one)
      BY <1>14, <3>3, <3>4 DEF Do
    <3> QED
      BY <2>1, <2>2, <3>5 DEF D
  <2> QED
    BY <2>1, <2>3, <2>4, ResultFacts
<1>16. LeadsBy(m, st, b, ts, C, Yield(b, C, r[N]), g)
  BY <1>13, <1>14, <1>15 DEF LeadsBy
<1> QED
  BY <1>10, <1>12, <1>13, <1>16 DEF Leads, S, ts

\* So do the parts of a parallel block, none of which sees the others.
LEMMA ParLeads ==
  ASSUME Denotes(Visits), NEW m \in Machines, NEW st \in States, NEW b \in {0, 1},
         NEW parts, IsSeq(parts), \A n \in DOMAIN parts : <<parts[n][1], parts[n][2]>> \in Visits,
         NEW ts, ts = [n \in DOMAIN parts |-> Stmt(parts[n][1], parts[n][2])],
         NEW C \in Confs, ~ SeqAt(b, Len(C.fr))
  PROVE  /\ Together(m, parts, View(st, b, C.fr)) \in Results
         /\ Leads(m, st, b, ts, C, Yield(b, C, Together(m, parts, View(st, b, C.fr))))
<1> DEFINE S == View(st, b, C.fr)
           N == Len(parts)
           of(n) == Meaning(m, parts[n][1], S, parts[n][2])
           G == [p \in (1 .. N) \X Results |-> Beside(p[2], of(p[1]))]
<1>1. N \in Nat /\ DOMAIN parts = 1 .. N
  BY DEF IsSeq
<1>2. S \in States
  BY ConfFacts, ViewStates
<1> HIDE DEF S, N
<1>3. ASSUME NEW k \in 1 .. N
      PROVE  of(k) \in Results
  <2> DEFINE s == parts[k][1]
             i == parts[k][2]
  <2>1. <<s, i>> \in Visits
    BY <1>1
  <2> HIDE DEF s, i
  <2>2. Meaning(m, s, S, i) \in Results
    BY <1>2, <2>1, MeaningIs
  <2> QED
    BY <2>2 DEF s, i
<1>a. ts = [n \in 1 .. N |-> Stmt(parts[n][1], parts[n][2])]
  BY <1>1
<1>b. ASSUME NEW x, NEW n \in 1 .. N, x.ok, View(st, b, x.fr) = S
      PROVE  Do(m, st, b, ts[n], x) = Yield(b, x, of(n))
  <2>1. ts[n].k = "stmt" /\ ts[n].s = parts[n][1] /\ ts[n].i = parts[n][2]
    BY <1>a DEF Stmt
  <2> QED
    BY <1>b, <2>1 DEF Do
<1> HIDE DEF of
<1>4. G \in [(1 .. N) \X Results -> Results]
  BY <1>3, ThenFacts
<1>5. \A k \in 1 .. N, r \in Results : G[<<k, r>>] = Beside(r, of(k))
  OBVIOUS
<1> HIDE DEF G
<1>6. PICK q \in [0 .. N -> Results] :
        q = [n \in 0 .. N |-> IF n = 0 THEN Ok(NoUpdates) ELSE G[<<n, q[n - 1]>>]]
  <2> DEFINE a == Ok(NoUpdates)
             R == Results
  <2>1. a \in R /\ G \in [(1 .. N) \X R -> R]
    BY <1>4, ResultFacts
  <2> HIDE DEF a, R
  <2>2. PICK q : Recursive(R, a, N, G, q)
    BY <1>1, <2>1, Recursion
  <2> QED
    BY <2>2 DEF a, R, Recursive
<1>7. \A n \in 1 .. N : n - 1 \in 0 .. N
  BY <1>1
<1>8. q = [n \in 0 .. N |-> IF n = 0 THEN Ok(NoUpdates) ELSE Beside(q[n - 1], of(n))]
  <2>1. \A n \in 0 .. N : n # 0 => n \in 1 .. N
    BY <1>1
  <2>2. \A n \in 1 .. N : G[<<n, q[n - 1]>>] = Beside(q[n - 1], of(n))
    BY <1>5, <1>7
  <2>3. \A n \in 0 .. N : (IF n = 0 THEN Ok(NoUpdates) ELSE G[<<n, q[n - 1]>>]) =
                          (IF n = 0 THEN Ok(NoUpdates) ELSE Beside(q[n - 1], of(n)))
    BY <2>1, <2>2
  <2> QED
    BY <1>6, <2>3
<1> DEFINE r == CHOOSE f :
        f = [n \in 0 .. N |-> IF n = 0 THEN Ok(NoUpdates) ELSE Beside(f[n - 1], of(n))]
<1>9. r = [n \in 0 .. N |-> IF n = 0 THEN Ok(NoUpdates) ELSE Beside(r[n - 1], of(n))]
  BY <1>8
<1>10. Together(m, parts, S) = r[N]
  BY DEF Together, N, of
<1> HIDE DEF r
<1>11. /\ r[0] = Ok(NoUpdates)
       /\ \A n \in 1 .. N : r[n] = Beside(r[n - 1], of(n))
  <2>1. 0 \in 0 .. N /\ \A n \in 1 .. N : n \in 0 .. N /\ n # 0
    BY <1>1
  <2> QED
    BY <1>9, <2>1
<1>12. \A n \in 0 .. N : r[n] \in Results
  <2> DEFINE I == {n \in Nat : n \in 0 .. N => r[n] \in Results}
  <2>1. 0 \in I
    BY <1>11, ResultFacts
  <2>2. ASSUME NEW n \in Nat, n \in I
        PROVE  n + 1 \in I
    <3> SUFFICES ASSUME n + 1 \in 0 .. N
                 PROVE  r[n + 1] \in Results
      OBVIOUS
    <3>1. n \in 0 .. N /\ n + 1 \in 1 .. N /\ (n + 1) - 1 = n
      BY <1>1
    <3>2. r[n + 1] = Beside(r[n], of(n + 1))
      BY <1>11, <3>1
    <3>3. r[n] \in Results /\ of(n + 1) \in Results
      BY <1>3, <2>2, <3>1
    <3> QED
      BY <3>2, <3>3, ThenFacts
  <2>3. \A n \in Nat : n \in I
    <3> HIDE DEF I
    <3> QED
      BY <2>1, <2>2, SetInduction
  <2> QED
    BY <1>1, <2>3
<1> DEFINE g == [n \in 0 .. N |-> Yield(b, C, r[n])]
<1>13. /\ N \in 0 .. N /\ 0 \in 0 .. N
       /\ g[0] = C /\ \A n \in 0 .. N : g[n] = Yield(b, C, r[n])
  BY <1>1, <1>11, YieldNone
<1> HIDE DEF g
<1>14. Len(ts) = N
  BY <1>1, <1>a
<1>15. ASSUME NEW n \in 1 .. N
       PROVE  g[n] = Do(m, st, b, ts[n], g[n - 1])
  <2> DEFINE p == r[n - 1]
             D == Yield(b, C, p)
             one == of(n)
  <2>0. n \in 0 .. N /\ n - 1 \in 0 .. N
    BY <1>1
  <2>a. p \in Results /\ one \in Results
    BY <1>3, <1>12, <2>0
  <2>b. g[n - 1] = D /\ g[n] = Yield(b, C, r[n])
    BY <1>13, <2>0
  <2>c. r[n] = Beside(p, one)
    BY <1>11
  <2> HIDE DEF p
  <2>2. Yield(b, D, one) = Yield(b, C, r[n])
    BY <2>a, <2>c, YieldBeside
  <2>3. CASE D = Crash
    <3>1. ~ Crash.ok
      BY DEF Crash
    <3>2. Do(m, st, b, ts[n], D) = Crash /\ Yield(b, D, one) = Crash
      BY <2>3, <3>1, YieldCrash DEF Do
    <3> QED
      BY <2>b, <2>2, <3>2
  <2>4. CASE D # Crash
    <3>1. p.st = "ok"
      BY <2>4, YieldCrash
    <3>2. p.upd \in Upds /\ p = Ok(p.upd)
      BY <2>a, <3>1, ResultFacts
    <3> DEFINE w == Both(Last(C.fr), p.upd)
               F == WithLast(C.fr, w)
    <3>3. D = Conf(F, C.bl)
      BY <2>4, <3>2, YieldIs
    <3>4. w \in Upds
      BY <3>2, ConfFacts, BothUpds
    <3> HIDE DEF w
    <3>5. View(st, b, F) = S
      BY <3>4, ConfFacts, ViewParallel DEF S
    <3> HIDE DEF F, D
    <3>6. D.ok /\ D.fr = F
      BY <3>3, ConfIs
    <3>7. Do(m, st, b, ts[n], D) = Yield(b, D, one)
      BY <1>b, <3>5, <3>6
    <3> QED
      BY <2>b, <2>2, <3>7 DEF D
  <2> QED
    BY <2>3, <2>4
<1>16. LeadsBy(m, st, b, ts, C, Yield(b, C, r[N]), g)
  BY <1>13, <1>14, <1>15 DEF LeadsBy
<1> QED
  BY <1>10, <1>12, <1>13, <1>16 DEF Leads, S

\* A round of an iterate, and then what is left of it, come to what was left
\* before the round.
LEMMA RoundLeads ==
  ASSUME Denotes(Visits), NEW m \in Machines, NEW st \in States, NEW b \in {0, 1},
         NEW p \in Visits, NEW s, NEW i, p[1] = s, p[2] = i,
         s.t = "iterate", <<s.s, i>> \in Visits,
         NEW C \in Confs, C.bl # <<>>, SeqAt(b, Len(C.fr)), Last(C.bl).running,
         NEW new \in Block, new.forked,
         NEW x, x.k = "while", x.s = s, x.i = i
  PROVE  Leads(m, st, b, <<Stmt(s.s, i), Todo("end_round"), x>>, Open(C, new), Do(m, st, b, x, C))
<1> DEFINE V == View(st, b, C.fr)
           O == Open(C, new)
           one == Meaning(m, s.s, V, i)
           all == Meaning(m, s, V, i)
           Y == Yield(b, O, one)
           Z == ShutRound(b, Y)
           W == Do(m, st, b, x, Z)
           ts == <<Stmt(s.s, i), Todo("end_round"), x>>
<1>1. V \in States
  BY ConfFacts, ViewStates
<1>2. /\ one \in Results /\ all \in Results
      /\ all = IF one = Ok(NoUpdates) THEN one
               ELSE IF one.st = "ok" THEN Then(one, Meaning(m, s, After(V, one.upd), i))
               ELSE Failure
  <2> HIDE DEF V
  <2>1. one \in Results
    BY <1>1, MeaningIs
  <2>3. all \in Results /\ all = Unfold(m, s, V, i)
    BY <1>1, MeaningOf
  <2>2. Unfold(m, s, V, i) = Rounds(m, s, V, i)
    BY DEF Unfold
  <2> QED
    BY <2>1, <2>2, <2>3 DEF Rounds
<1>3. O \in Confs /\ View(st, b, O.fr) = V
  <2>1. O \in Confs
    BY ResultFacts, OpenShut
  <2>2. O.fr = Append(C.fr, NoUpdates)
    BY DEF Open, Conf
  <2> QED
    BY <2>1, <2>2, ConfFacts, ViewNew
<1>4. Do(m, st, b, x, C) = Shut(b, Yield(b, C, all))
  BY ConfFacts DEF Do
<1>5. Do(m, st, b, Stmt(s.s, i), O) = Y
  BY <1>3, ConfFacts DEF Do, Stmt
<1>6. Do(m, st, b, Todo("end_round"), Y) = Z
  BY DEF Do, Todo, ShutRound
<1>7. W = Do(m, st, b, x, C)
  <2> HIDE DEF V, one, all
  <2>1. CASE one.st # "ok"
    <3>1. Y = Crash /\ Yield(b, C, all) = Crash
      BY <1>2, <2>1, YieldCrash, ResultFacts
    <3>2. Z = Crash
      BY <3>1 DEF ShutRound, Crash
    <3>3. W = Crash /\ Shut(b, Crash) = Crash
      BY <3>2 DEF Do, Shut, Crash
    <3> QED
      BY <1>4, <3>1, <3>3
  <2>2. CASE one.st = "ok"
    <3> DEFINE u == one.upd
               D == Yield(b, C, Ok(u))
               M == Mark(D, u # NoUpdates)
    <3>1. u \in Upds /\ one = Ok(u)
      BY <1>2, <2>2, ResultFacts
    <3>2. Z = M
      BY <3>1, RoundShut
    <3>3. D \in Confs /\ D.bl = C.bl /\ Len(D.fr) = Len(C.fr)
      <4>1. ~ Clashes(b, C.fr, u)
        BY DEF Clashes
      <4> QED
        BY <3>1, <4>1, YieldUpds
    <3>4. View(st, b, D.fr) = After(V, u)
      <4>1. ~ Clashes(b, C.fr, u)
        BY DEF Clashes
      <4> DEFINE F == WithLast(C.fr, Both(Last(C.fr), u))
      <4>2. D = Conf(F, C.bl)
        BY <3>1, <4>1, YieldIs
      <4>3. View(st, b, F) = After(V, u)
        BY <3>1, ConfFacts, ViewSequential DEF V
      <4> HIDE DEF D, F
      <4>4. Conf(F, C.bl).fr = F
        BY ConfIs
      <4> QED
        BY <4>2, <4>3, <4>4
    <3>5. (u # NoUpdates) \in BOOLEAN
      OBVIOUS
    <3> HIDE DEF u, D
    <3>6. /\ M \in Confs /\ M.fr = D.fr /\ M.bl # <<>>
          /\ Last(M.bl).running = (u # NoUpdates)
      BY <3>3, <3>5, MarkFacts
    <3>7. M.ok
      BY <3>6, ConfFacts
    <3> HIDE DEF M
    <3>8. CASE u = NoUpdates
      <4>1. W = Shut(b, M)
        BY <3>2, <3>6, <3>7, <3>8 DEF Do
      <4>2. M = Yield(b, M, Ok(NoUpdates))
        BY <3>6, YieldNone
      <4>3. Shut(b, Yield(b, M, Ok(NoUpdates))) = Shut(b, Yield(b, D, Ok(NoUpdates)))
        <5> DEFINE flag == u # NoUpdates
                   none == Ok(NoUpdates)
        <5>1. M = Mark(D, flag) /\ flag \in BOOLEAN /\ none \in Results
          BY <3>5, ResultFacts DEF M
        <5>2. D.bl # <<>>
          BY <3>3
        <5> HIDE DEF flag, none
        <5>3. Shut(b, Yield(b, M, none)) = Shut(b, Yield(b, D, none))
          BY <3>3, <5>1, <5>2, MarkShut
        <5> QED
          BY <5>3 DEF none
      <4>4. D = C
        BY <3>8, YieldNone DEF D
      <4>5. all = Ok(NoUpdates)
        BY <1>2, <3>1, <3>8
      <4> QED
        BY <1>4, <4>1, <4>2, <4>3, <4>4, <4>5
    <3>9. CASE u # NoUpdates
      <4> DEFINE rest == Meaning(m, s, After(V, u), i)
      <4>1. W = Shut(b, Yield(b, M, rest))
        BY <3>2, <3>4, <3>6, <3>7, <3>9 DEF Do
      <4>2. rest \in Results
        <5>1. After(V, u) \in States
          BY <1>1, <3>1, AfterFacts
        <5> QED
          BY <5>1, MeaningOf
      <4>3. all = Then(one, rest)
        <5>1. one # Ok(NoUpdates)
          BY <3>1, <3>9, ResultFacts DEF Ok
        <5> QED
          BY <1>2, <2>2, <5>1 DEF u
      <4> HIDE DEF rest
      <4>4. Shut(b, Yield(b, M, rest)) = Shut(b, Yield(b, D, rest))
        BY <3>3, <3>5, <4>2, MarkShut DEF M
      <4>5. Yield(b, D, rest) = Yield(b, C, all)
        BY <1>2, <3>1, <4>2, <4>3, YieldThen DEF D
      <4> QED
        BY <1>4, <4>1, <4>4, <4>5
    <3> QED
      BY <3>8, <3>9
  <2> QED
    BY <2>1, <2>2
<1> HIDE DEF O, Y, Z, W
<1> DEFINE g == [n \in 0 .. 3 |-> IF n = 0 THEN O ELSE IF n = 1 THEN Y ELSE IF n = 2 THEN Z ELSE W]
<1>8. g[0] = O /\ g[1] = Y /\ g[2] = Z /\ g[3] = W
  OBVIOUS
<1>9. /\ Len(ts) = 3 /\ ts[1] = Stmt(s.s, i) /\ ts[2] = Todo("end_round") /\ ts[3] = x
      /\ \A n \in 1 .. 3 : (n = 1 /\ n - 1 = 0) \/ (n = 2 /\ n - 1 = 1) \/ (n = 3 /\ n - 1 = 2)
  OBVIOUS
<1>10. W = Do(m, st, b, x, Z)
  BY DEF W
<1> HIDE DEF g, ts
<1>11. LeadsBy(m, st, b, ts, O, W, g)
  BY <1>5, <1>6, <1>8, <1>9, <1>10 DEF LeadsBy
<1> QED
  BY <1>7, <1>11 DEF Leads, O, ts

-----------------------------------------------------------------------------
(* What the walker has: the blocks that are open, with their updates.      *)

Config == IF AbsFailed THEN Crash ELSE Conf(AbsFrames, blocks)

\* A step starts with no block and no updates.
Start == Conf(<<NoUpdates>>, <<>>)

Goal == Yield(base, Start, StepMeaning)

\* To do what is left leads to what the rule means, and a step of the machine
\* starts without updates.
MInv ==
  /\ main = "walk" =>
       /\ seen \in Rules
       /\ Leads(machine, AbsState, base, todo, Config, Goal)
  /\ main = "fetch" => updates = <<>>

\* The updates of a pseudostate respect the types of the locations.
LEMMA LevUpds ==
  ASSUME NEW s, updates \in Seq(Update), Unique(updates), Typed
  PROVE  Lev(updates, s) \in Upds
<1> DEFINE f == Lev(updates, s)
<1>1. /\ f = [l \in DOMAIN f |-> f[l]] /\ DOMAIN f \subseteq Loc
      /\ \A l \in Loc, v \in Val : At(updates, l, s, v) <=> l \in DOMAIN f /\ f[l] = v
      /\ \A l \in DOMAIN f : f[l] \in Val
  BY LevRelation
<1> HIDE DEF f
<1>2. \A l \in DOMAIN f : f[l] \in ValuesAt(l)
  <2>1. \A l \in DOMAIN f : At(updates, l, s, f[l])
    BY <1>1
  <2> QED
    BY <2>1 DEF At, Typed
<1>3. f \in Upds
  BY <1>1, <1>2, UpdsFacts
<1> QED
  BY <1>3 DEF f

\* The state of the machine.
LEMMA StateTyped ==
  ASSUME TypeOK, Typed
  PROVE  AbsState \in States
<1>1. \A l \in Loc : AbsState[l] \in Val /\ AbsState[l] \in ValuesAt(l)
  BY UpdateSetAssumption, Rulebook DEF AbsState, TypeOK, Typed
<1>2. AbsState = [l \in Loc |-> AbsState[l]]
  BY DEF AbsState
<1>3. AbsState \in [Loc -> Val]
  BY <1>1, <1>2
<1> QED
  BY <1>1, <1>3 DEF States

Walks == WInv /\ phase = "walk"

\* What there is while the walker walks, and that get_function_value finds what
\* the blocks show.
LEMMA ConfigWalks ==
  ASSUME Walks
  PROVE  /\ base \in {0, 1} /\ AbsState \in States
         /\ AbsFailed = FALSE /\ Config = Conf(AbsFrames, blocks) /\ Config \in Confs
         /\ Config.ok /\ Config.fr = AbsFrames /\ Config.bl = blocks
         /\ AbsFrames \in Seq(Upds) /\ Len(AbsFrames) = pseudostate - base + 1
         /\ AbsFrames # <<>> /\ Last(AbsFrames) = Lev(updates, pseudostate)
         /\ SeqAt(base, Len(AbsFrames)) <=> pseudostate % 2 = 1
<1>1. /\ AbsFailed = FALSE /\ AbsFrames = Frames(updates, pseudostate, base)
      /\ pseudostate \in Nat /\ base \in Nat /\ pseudostate >= base
      /\ updates \in Seq(Update) /\ Unique(updates)
  BY WalkFrames DEF Walks, WInv, InWalk, WalkMapped
<1>2. base \in {0, 1} /\ blocks \in Seq(Block) /\ AbsState \in States
  BY StateTyped DEF Walks, WInv, IInv, TypeOK
<1> DEFINE n == pseudostate - base + 1
           F == Frames(updates, pseudostate, base)
<1>3. Len(F) = n /\ F \in Seq(FrameSet(updates)) /\ F[n] = Lev(updates, pseudostate)
  BY <1>1, FramesSeq
<1>4. FrameSet(updates) \subseteq Upds
  BY <1>1, LevUpds DEF FrameSet, Walks, WInv
<1>5. F \in Seq(Upds) /\ F # <<>> /\ n \in Nat \ {0}
  <2> HIDE DEF F
  <2> QED
    BY <1>1, <1>3, <1>4
<1>6. SeqAt(base, n) <=> pseudostate % 2 = 1
  BY <1>1 DEF SeqAt
<1> HIDE DEF F, n
<1>7. Config = Conf(F, blocks)
  BY <1>1 DEF Config, F
<1>8. Config \in Confs
  BY <1>2, <1>5, <1>7 DEF Confs, Frames1
<1>9. Config.ok /\ Config.fr = F /\ Config.bl = blocks
  BY <1>7, ConfIs
<1>10. Last(F) = Lev(updates, pseudostate)
  BY <1>3 DEF Last
<1> QED
  BY <1>1, <1>2, <1>3, <1>5, <1>6, <1>7, <1>8, <1>9, <1>10 DEF F, n

Seen == View(AbsState, base, AbsFrames)

LEMMA SeesBlocks ==
  ASSUME Walks
  PROVE  /\ Seen \in States /\ View(AbsState, base, Config.fr) = Seen
         /\ \A l \in Loc : FunctionValue(l) = Seen[l]
         /\ \A e, i, V : Yields(e, i, V) => Eval(e, i) = In(Seen, e, i)
<1>1. /\ base \in {0, 1} /\ AbsState \in States /\ AbsFrames \in Frames1
      /\ Config.fr = AbsFrames /\ Len(AbsFrames) \in Nat
  BY ConfigWalks DEF Frames1
<1>2. Seen \in States
  BY <1>1, ViewStates DEF Seen
<1>3. ASSUME NEW l \in Loc
      PROVE  FunctionValue(l) = Seen[l]
  <2> DEFINE H == Abstract!Holders(l)
  <2>1. FunctionValue(l) = Abstract!Value(l)
    BY ReadsValue DEF Walks, WInv
  <2>2. H = Holding(base, AbsFrames, l)
    BY DEF Abstract!Holders, Abstract!Depth, Abstract!Sequential, Holding, SeqAt
  <2>3. CASE H = {}
    <3>1. Abstract!Value(l) = AbsState[l]
      BY <2>3 DEF Abstract!Value
    <3>2. Seen[l] = AbsState[l]
      BY <2>2, <2>3 DEF Seen, View
    <3> QED
      BY <2>1, <3>1, <3>2
  <2>4. CASE H # {}
    <3> DEFINE k == CHOOSE j \in H : \A h \in H : h <= j
    <3>1. Abstract!Value(l) = AbsFrames[k][l]
      BY <2>4 DEF Abstract!Value
    <3>2. H \subseteq 1 .. Len(AbsFrames)
      BY <2>2 DEF Holding
    <3> HIDE DEF H
    <3>3. \E j \in H : \A h \in H : h <= j
      BY <1>1, <2>4, <3>2, NatMax
    <3>4. k \in H /\ \A h \in H : h <= k
      BY <3>3
    <3> HIDE DEF k
    <3>5. View(AbsState, base, AbsFrames)[l] = AbsFrames[k][l]
      BY <1>1, <2>2, <3>4, ViewIs
    <3> QED
      BY <2>1, <3>1, <3>5 DEF Seen
  <2> QED
    BY <2>3, <2>4
<1>4. ASSUME NEW e, NEW i, NEW V, Yields(e, i, V)
      PROVE  Eval(e, i) = In(Seen, e, i)
  <2>1. CASE e.t = "const"
    BY <2>1 DEF Eval, In
  <2>2. CASE e.t = "read" /\ e.l \in Loc
    BY <1>3, <2>2 DEF Eval, In
  <2>3. CASE e.t = "var"
    BY <2>3 DEF Eval, In
  <2> QED
    BY <1>4, <2>1, <2>2, <2>3 DEF Yields
<1> QED
  BY <1>1, <1>2, <1>3, <1>4 DEF Seen

\* The goal is that of the rule's meaning in the state of the step.
LEMMA GoalIs ==
  ASSUME Denotes(Visits), TypeOK, Typed, machine \in Machines, seen \in Rules
  PROVE  StepMeaning \in Results /\ Start \in Confs
         /\ StepMeaning = Meaning(machine, RuleOf(seen), AbsState, Undef)
<1>1. <<RuleOf(seen), Undef>> \in Visits
  BY Rulebook
<1>2. AbsState \in States
  BY StateTyped
<1>3. StepMeaning \in Results
  <2> DEFINE s == RuleOf(seen)
  <2>1. <<s, Undef>> \in Visits
    BY <1>1
  <2> HIDE DEF s
  <2>2. Meaning(machine, s, AbsState, Undef) \in Results
    BY <1>2, <2>1, MeaningIs
  <2> QED
    BY <2>2 DEF StepMeaning, s
<1>4. Start \in Confs
  <2> DEFINE F == <<NoUpdates>>
             B == <<>>
  <2>1. F \in Frames1
    BY BothUpds DEF Frames1
  <2>2. B \in Seq(Block)
    OBVIOUS
  <2>3. Start = Conf(F, B)
    BY DEF Start
  <2> HIDE DEF F, B
  <2> QED
    BY <2>1, <2>2, <2>3 DEF Confs
<1> QED
  BY <1>3, <1>4 DEF StepMeaning

\* At the start of a step a statement sees the state.
LEMMA ViewStart ==
  ASSUME NEW st \in States, NEW b \in {0, 1}
  PROVE  View(st, b, <<NoUpdates>>) = st
<1> DEFINE F == <<NoUpdates>>
<1>1. DOMAIN NoUpdates = {} /\ Len(F) = 1 /\ F[1] = NoUpdates
  BY BothUpds
<1>2. ASSUME NEW l \in Loc
      PROVE  Holding(b, F, l) = {}
  <2>1. \A k \in 1 .. 1 : k = 1
    OBVIOUS
  <2> HIDE DEF F
  <2> QED
    BY <1>1, <2>1 DEF Holding
<1> HIDE DEF F
<1>3. View(st, b, F) = [l \in Loc |-> st[l]]
  BY <1>2 DEF View
<1>4. st \in [Loc -> Val]
  BY DEF States
<1> QED
  BY <1>3, <1>4 DEF F

\* The first item is done, or replaced by items that come to the same.
LEMMA Replaced ==
  ASSUME WInv, MInv, main = "walk", todo # <<>>,
         NEW items \in Seq(Items), todo' = items \o Tail(todo),
         UNCHANGED <<machine, main, AbsState, base, seen>>,
         NEW C, Config' = C,
         Leads(machine, AbsState, base, items, C, Do(machine, AbsState, base, todo[1], Config))
  PROVE  MInv'
<1>1. /\ todo \in Seq(Items) /\ seen \in Rules
      /\ Leads(machine, AbsState, base, todo, Config, Goal)
  BY DEF WInv, MInv
<1>2. Leads(machine, AbsState, base, items \o Tail(todo), C, Goal)
  BY <1>1, LeadsInstead
<1>3. StepMeaning' = StepMeaning
  BY DEF StepMeaning, RuleOf
<1>4. Goal' = Goal
  BY <1>3 DEF Goal, Start
<1>5. Leads(machine', AbsState', base', todo', Config', Goal')
  BY <1>2, <1>4
<1>6. seen' \in Rules
  BY <1>1
<1> QED
  BY <1>5, <1>6 DEF MInv

-----------------------------------------------------------------------------
(* The steps of the blocks.                                                *)

LEMMA EmptyIs == Abstract!Empty = NoUpdates
  BY DEF Abstract!Empty, NoUpdates

LEMMA FailsConfig ==
  ASSUME Abstract!Fail
  PROVE  Config' = Crash /\ AbsState' = AbsState /\ base' = base /\ seen' = seen
<1>1. AbsFailed' = TRUE /\ AbsState' = AbsState /\ base' = base /\ seen' = seen
  BY DEF Abstract!Fail
<1> QED
  BY <1>1 DEF Config

\* Nothing happens to the blocks.
LEMMA SameConfig ==
  ASSUME UNCHANGED Abstract!avars, UNCHANGED blocks
  PROVE  Config' = Config /\ AbsState' = AbsState /\ base' = base /\ seen' = seen
<1>1. UNCHANGED <<base, AbsState, AbsFrames, AbsFailed, seen>>
  BY DEF Abstract!avars
<1> QED
  BY <1>1 DEF Config

\* An update.
LEMMA SetConfig ==
  ASSUME Walks, NEW l \in Loc, NEW v \in Val, v \in ValuesAt(l), UNCHANGED blocks,
         Abstract!Set(l, v) \/ Abstract!SetClash(l)
  PROVE  /\ Config' = Yield(base, Config, Ok([k \in {l} |-> v]))
         /\ AbsState' = AbsState /\ base' = base /\ seen' = seen
<1> DEFINE u == [k \in {l} |-> v]
           n == Len(AbsFrames)
<1>1. u \in Upds /\ DOMAIN u = {l}
  <2>1. DOMAIN u = {l} /\ u = [k \in DOMAIN u |-> u[k]] /\ u[l] = v
    OBVIOUS
  <2> HIDE DEF u
  <2> QED
    BY <2>1, UpdsFacts
<1>2. /\ Config \in Confs /\ Config.fr = AbsFrames /\ Config.bl = blocks /\ base \in {0, 1}
      /\ AbsFailed = FALSE /\ AbsFrames \in Seq(Upds) /\ AbsFrames # <<>>
  BY ConfigWalks
<1>3. Last(AbsFrames) = AbsFrames[n] /\ n \in Nat \ {0} /\ n \in DOMAIN AbsFrames
  BY <1>2 DEF Last
<1> HIDE DEF u
<1>4. CASE Abstract!Set(l, v)
  <2>1. /\ Abstract!Sequential(n) \/ l \notin DOMAIN AbsFrames[n]
        /\ AbsFrames' = [AbsFrames EXCEPT ![n] = Abstract!Override(@, u)]
        /\ UNCHANGED <<base, AbsState, AbsFailed, seen>>
    BY <1>4 DEF Abstract!Set, Abstract!Depth, u
  <2>2. ~ Clashes(base, AbsFrames, u)
    BY <1>1, <1>3, <2>1 DEF Clashes, SeqAt, Abstract!Sequential
  <2>3. Yield(base, Config, Ok(u)) = Conf(WithLast(AbsFrames, Both(Last(AbsFrames), u)), blocks)
    BY <1>1, <1>2, <2>2, YieldIs
  <2>4. AbsFrames' = WithLast(AbsFrames, Both(Last(AbsFrames), u))
    <3>1. Abstract!Override(AbsFrames[n], u) = Both(Last(AbsFrames), u)
      BY <1>3 DEF Abstract!Override, Both
    <3>2. DOMAIN AbsFrames = 1 .. n
      BY <1>2
    <3> DEFINE w == Both(Last(AbsFrames), u)
    <3>3. AbsFrames' = [k \in 1 .. n |-> IF k = n THEN w ELSE AbsFrames[k]]
      BY <2>1, <3>1, <3>2
    <3> QED
      BY <3>3 DEF WithLast
  <2> QED
    BY <1>2, <2>1, <2>3, <2>4 DEF Config, u
<1>5. CASE Abstract!SetClash(l)
  <2>1. /\ ~ Abstract!Sequential(n) /\ l \in DOMAIN AbsFrames[n] /\ Abstract!Fail
    BY <1>5 DEF Abstract!SetClash, Abstract!Depth
  <2>2. Clashes(base, AbsFrames, u)
    BY <1>1, <1>3, <2>1 DEF Clashes, SeqAt, Abstract!Sequential
  <2>3. Yield(base, Config, Ok(u)) = Crash
    BY <1>1, <1>2, <2>2, YieldIs
  <2> QED
    BY <2>1, <2>3, FailsConfig DEF u
<1> QED
  BY <1>4, <1>5

\* A block is entered.
LEMMA EnterConfig ==
  ASSUME Walks, NEW new, Enter(new),
         IF new.forked THEN Abstract!Begin ELSE UNCHANGED Abstract!avars
  PROVE  /\ Config' = Open(Config, new)
         /\ AbsState' = AbsState /\ base' = base /\ seen' = seen
<1>1. Config.fr = AbsFrames /\ Config.bl = blocks /\ AbsFailed = FALSE
  BY ConfigWalks
<1>2. blocks' = Append(blocks, new)
  BY DEF Enter
<1>3. /\ AbsFrames' = IF new.forked THEN Append(AbsFrames, NoUpdates) ELSE AbsFrames
      /\ UNCHANGED <<base, AbsState, AbsFailed, seen>>
  BY EmptyIs DEF Abstract!Begin, Abstract!avars
<1>4. Config' = Conf(AbsFrames', blocks')
  BY <1>1, <1>3 DEF Config
<1> QED
  BY <1>1, <1>2, <1>3, <1>4 DEF Open

\* The innermost frame becomes part of the one around it.
LEMMA EndConfig ==
  ASSUME Walks, Len(AbsFrames) > 1, Abstract!End \/ Abstract!EndClash
  PROVE  /\ Config' = Put(base, ButLast(AbsFrames), blocks', Last(AbsFrames))
         /\ AbsState' = AbsState /\ base' = base /\ seen' = seen
<1> DEFINE n == Len(AbsFrames)
           F == ButLast(AbsFrames)
           u == Last(AbsFrames)
<1>1. AbsFailed = FALSE /\ AbsFrames \in Seq(Upds) /\ AbsFrames # <<>> /\ n \in Nat
  BY ConfigWalks
<1>2. /\ F \in Seq(Upds) /\ Len(F) = n - 1 /\ u = AbsFrames[n]
      /\ \A k \in 1 .. n - 1 : F[k] = AbsFrames[k]
  BY <1>1, LastFacts DEF Last
<1>3. n - 1 \in 1 .. n - 1 /\ Last(F) = AbsFrames[n - 1] /\ n - 1 \in Nat
  BY <1>1, <1>2 DEF Last
<1> HIDE DEF F, u
<1>4. CASE Abstract!End
  <2>1. /\ Abstract!Sequential(n - 1) \/ DOMAIN AbsFrames[n - 1] \cap DOMAIN AbsFrames[n] = {}
        /\ AbsFrames' = [k \in 1 .. n - 1 |->
                           IF k = n - 1 THEN Abstract!Override(AbsFrames[k], AbsFrames[n])
                           ELSE AbsFrames[k]]
        /\ UNCHANGED <<base, AbsState, AbsFailed, seen>>
    BY <1>4 DEF Abstract!End, Abstract!Depth, Abstract!Disjoint, Abstract!Merged
  <2>2. ~ Clashes(base, F, u)
    BY <1>2, <1>3, <2>1 DEF Clashes, SeqAt, Abstract!Sequential
  <2>3. AbsFrames' = WithLast(F, Both(Last(F), u))
    <3> DEFINE w == Both(Last(F), u)
    <3>1. Abstract!Override(AbsFrames[n - 1], AbsFrames[n]) = w
      BY <1>2, <1>3 DEF Abstract!Override, Both
    <3> HIDE DEF w
    <3>2. AbsFrames' = [k \in 1 .. n - 1 |-> IF k = n - 1 THEN w ELSE F[k]]
      BY <1>2, <2>1, <3>1
    <3> QED
      BY <1>2, <3>2 DEF WithLast, w
  <2>4. Config' = Conf(AbsFrames', blocks')
    BY <1>1, <2>1 DEF Config
  <2> QED
    BY <2>1, <2>2, <2>3, <2>4 DEF Put, F, u
<1>5. CASE Abstract!EndClash
  <2>1. /\ ~ Abstract!Sequential(n - 1) /\ Abstract!Fail
        /\ DOMAIN AbsFrames[n - 1] \cap DOMAIN AbsFrames[n] # {}
    BY <1>5 DEF Abstract!EndClash, Abstract!Depth, Abstract!Disjoint
  <2>2. Clashes(base, F, u)
    BY <1>2, <1>3, <2>1 DEF Clashes, SeqAt, Abstract!Sequential
  <2> QED
    BY <2>1, <2>2, FailsConfig DEF Put, F, u
<1> QED
  BY <1>4, <1>5

LEMMA PopIs ==
  ASSUME TypeOK, blocks # <<>>
  PROVE  Pop = ButLast(blocks) /\ Top = Last(blocks)
<1> DEFINE n == Len(blocks)
           F == ButLast(blocks)
<1>1. /\ Pop \in Seq(Block) /\ Len(Pop) = n - 1 /\ \A k \in 1 .. n - 1 : Pop[k] = blocks[k]
      /\ blocks \in Seq(Block)
  BY TopFacts DEF TypeOK
<1>2. F \in Seq(Block) /\ Len(F) = n - 1 /\ \A k \in 1 .. n - 1 : F[k] = blocks[k]
  BY <1>1, LastFacts
<1>3. Pop = F
  <2> DEFINE P == Pop
  <2>1. /\ P \in Seq(Block) /\ Len(P) = n - 1 /\ \A k \in 1 .. n - 1 : P[k] = blocks[k]
    BY <1>1
  <2> HIDE DEF P, F, n
  <2>2. Len(P) = Len(F) /\ \A k \in 1 .. Len(P) : P[k] = F[k]
    BY <1>2, <2>1
  <2>3. P = F
    BY <1>2, <2>1, <2>2, SeqEqual
  <2> QED
    BY <2>3 DEF P
<1> QED
  BY <1>3 DEF Top, Last

\* CASM_UPDATESET_EMPTY finds out whether the innermost block has updates.
LEMMA EmptyBlock ==
  ASSUME Walks
  PROVE  updateset_empty <=> Last(AbsFrames) = NoUpdates
<1> DEFINE p == pseudostate
           n == Len(updates)
           f == Lev(updates, p)
<1>1. /\ updates \in Seq(Update) /\ Unique(updates) /\ Last(AbsFrames) = f /\ p \in Nat
      /\ n \in Nat /\ DOMAIN updates = 1 .. n
      /\ \A k \in 1 .. n : updates[k] \in Update /\ updates[k].loc \in Loc /\ updates[k].state \in Nat
  BY ConfigWalks, EntryFacts, WalkFrames DEF Walks, WInv, InWalk, WalkMapped, IInv
<1>2. \A k \in 1 .. n : updates[k].state <= p
  BY <1>1, WalkFrames DEF Walks, WInv, InWalk, WalkMapped
<1>3. \A i, j \in 1 .. n : i <= j => updates[i].state <= updates[j].state
  BY DEF Walks, WInv, IInv, ListOrdered, Merging
<1>4. \A l \in Loc : Has(updates, l, p) <=> l \in DOMAIN f
  BY <1>1, LevRelation
<1> HIDE DEF f
<1>5. CASE updateset_empty
  <2>1. \A k \in 1 .. n : updates[k].state < p
    <3> SUFFICES ASSUME NEW k \in 1 .. n
                 PROVE  updates[k].state < p
      OBVIOUS
    <3>1. n # 0 /\ n \in 1 .. n /\ k <= n
      BY <1>1
    <3>2. updates # <<>>
      BY <1>1, <3>1
    <3>3. updates[n].state < p
      BY <1>5, <3>2 DEF updateset_empty
    <3>4. updates[k].state <= updates[n].state
      BY <1>3, <3>1
    <3> QED
      BY <1>1, <3>1, <3>3, <3>4
  <2>2. \A l \in Loc : ~ Has(updates, l, p)
    BY <1>1, <2>1 DEF Has
  <2>3. f = NoUpdates
    BY <2>2, LevEmpty DEF f, NoUpdates
  <2> QED
    BY <1>1, <1>5, <2>3
<1>6. CASE ~ updateset_empty
  <2>1. updates # <<>> /\ ~ (updates[n].state < p)
    BY <1>6 DEF updateset_empty
  <2>2. n \in 1 .. n
    BY <1>1, <2>1
  <2>3. updates[n].state = p /\ updates[n].loc \in Loc
    BY <1>1, <1>2, <2>1, <2>2
  <2>4. Has(updates, updates[n].loc, p)
    BY <1>1, <2>2, <2>3 DEF Has
  <2>5. DOMAIN f # {}
    BY <1>4, <2>3, <2>4
  <2>6. f # NoUpdates
    BY <2>5, BothUpds
  <2> QED
    BY <1>1, <1>6, <2>6
<1> QED
  BY <1>5, <1>6

\* A block that has forked is merged.
LEMMA MergeConfig ==
  ASSUME Walks, WInv', blocks # <<>>, Top.forked,
         NEW kind \in {"merge_par", "merge_seq"}, begin_merge(kind),
         UNCHANGED <<base, function_states, updates, seen>>
  PROVE  /\ Config' = Put(base, ButLast(AbsFrames), blocks', Last(AbsFrames))
         /\ AbsState' = AbsState /\ base' = base /\ seen' = seen
<1>1. /\ pseudostate \in Nat /\ pseudostate - 1 \in Nat /\ pseudostate - 1 >= base
      /\ base \in Nat
  BY TopParity DEF Walks, WInv, IInv, TypeOK
<1>2. pseudostate > base /\ Len(AbsFrames) > 1
  BY <1>1, ConfigWalks
<1>3. Abstract!End \/ Abstract!EndClash
  BY <1>2, BeginMergeStep DEF Walks, WInv
<1> QED
  BY <1>2, <1>3, EndConfig

\* A block ends.
LEMMA LeaveConfig ==
  ASSUME Walks, WInv', NEW kind, NEW m \in {"merge_par", "merge_seq"}, Leave(kind, m)
  PROVE  /\ Config' = Shut(base, Config)
         /\ AbsState' = AbsState /\ base' = base /\ seen' = seen
<1>1. /\ blocks # <<>> /\ blocks' = ButLast(blocks) /\ Top = Last(blocks)
      /\ IF Top.forked THEN begin_merge(m) ELSE UNCHANGED <<pseudostate, cursor, phase>>
      /\ UNCHANGED <<base, function_states, updates, seen>>
  BY PopIs DEF Leave, Walks, WInv, IInv
<1>2. Config.ok /\ Config.fr = AbsFrames /\ Config.bl = blocks /\ AbsFailed = FALSE
  BY ConfigWalks
<1>3. CASE Top.forked
  BY <1>1, <1>2, <1>3, MergeConfig DEF Shut
<1>4. CASE ~ Top.forked
  <2>1. UNCHANGED Abstract!avars
    BY <1>1, <1>4, SharedStep
  <2>2. UNCHANGED <<base, AbsState, AbsFrames, AbsFailed, seen>>
    BY <2>1 DEF Abstract!avars
  <2>3. Config' = Conf(AbsFrames, ButLast(blocks))
    BY <1>1, <1>2, <2>2 DEF Config
  <2> QED
    BY <1>1, <1>2, <1>4, <2>2, <2>3 DEF Shut
<1> QED
  BY <1>3, <1>4

\* A round of an iterate ends.
LEMMA RoundConfig ==
  ASSUME Walks, WInv', end_round
  PROVE  /\ Config' = ShutRound(base, Config)
         /\ AbsState' = AbsState /\ base' = base /\ seen' = seen
<1>1. /\ blocks # <<>> /\ Pop = ButLast(blocks) /\ begin_merge("merge_par")
      /\ blocks' = [Pop EXCEPT ![Len(blocks) - 1].running = ~ updateset_empty]
      /\ UNCHANGED <<base, function_states, updates, seen>>
  BY PopIs DEF end_round, Walks, WInv, IInv
<1>2. Config.ok /\ Config.fr = AbsFrames /\ Config.bl = blocks
  BY ConfigWalks
<1>3. Top.forked
  BY EndRoundBlocks DEF Walks, WInv
<1>4. /\ Config' = Put(base, ButLast(AbsFrames), blocks', Last(AbsFrames))
      /\ AbsState' = AbsState /\ base' = base /\ seen' = seen
  BY <1>1, <1>3, MergeConfig
<1>5. (~ updateset_empty) = (Last(AbsFrames) # NoUpdates)
  BY EmptyBlock
<1>6. blocks' = Noted(Config)
  BY <1>1, <1>2, <1>5 DEF Noted
<1> QED
  BY <1>2, <1>4, <1>6 DEF ShutRound

-----------------------------------------------------------------------------
(* The steps of the walker.                                                *)

\* The statement at the head of the list and what it means.
LEMMA AtMeaning ==
  ASSUME Denotes(Visits), Walks, NEW kind, AtStmt(kind)
  PROVE  LET r == Unfold(machine, Now, Seen, Var)
         IN  /\ r \in Results /\ Meaning(machine, Now, Seen, Var) = r
             /\ Do(machine, AbsState, base, todo[1], Config) = Yield(base, Config, r)
             /\ todo # <<>> /\ main = "walk" /\ Now.t = kind /\ WellTyped(Now, Var, Visits)
<1>1. /\ todo # <<>> /\ todo[1].k = "stmt" /\ todo[1] \in Items /\ main = "walk"
      /\ Now.t = kind /\ WellTyped(Now, Var, Visits) /\ Now = todo[1].s /\ Var = todo[1].i
  BY StmtFacts, HeadFacts DEF Walks, Now, Var
<1>2. PICK p \in Visits : todo[1] = Stmt(p[1], p[2])
  BY <1>1 DEF Items, Todo
<1>3. p[1] = Now /\ p[2] = Var
  BY <1>1, <1>2 DEF Stmt
<1>4. Seen \in States /\ machine \in Machines
  BY SeesBlocks DEF Walks, WInv
<1>5. /\ Meaning(machine, Now, Seen, Var) = Unfold(machine, Now, Seen, Var)
      /\ Meaning(machine, Now, Seen, Var) \in Results
  BY <1>3, <1>4, MeaningOf
<1>6. Config.ok /\ View(AbsState, base, Config.fr) = Seen
  BY ConfigWalks, SeesBlocks
<1>7. Do(machine, AbsState, base, todo[1], Config) = Yield(base, Config, Meaning(machine, Now, Seen, Var))
  BY <1>1, <1>6 DEF Do
<1> QED
  BY <1>1, <1>5, <1>7

\* It is replaced by items that come to what it means.
LEMMA Replaces ==
  ASSUME Denotes(Visits), Walks, MInv, NEW kind, AtStmt(kind), Keep,
         NEW items \in Seq(Items), Continue(items),
         UNCHANGED <<AbsState, base, seen>>, NEW C, Config' = C,
         Leads(machine, AbsState, base, items, C,
               Yield(base, Config, Unfold(machine, Now, Seen, Var)))
  PROVE  MInv'
<1>1. /\ Do(machine, AbsState, base, todo[1], Config) =
           Yield(base, Config, Unfold(machine, Now, Seen, Var))
      /\ todo # <<>> /\ main = "walk"
  BY AtMeaning
<1>2. todo' = items \o Tail(todo) /\ UNCHANGED <<machine, main>>
  BY DEF Continue, Keep
<1> QED
  BY <1>1, <1>2, Replaced DEF Walks

\* It yields what it means at once.
LEMMA Yielded ==
  ASSUME Denotes(Visits), Walks, MInv, NEW kind, AtStmt(kind), Keep, Continue(<<>>),
         UNCHANGED <<AbsState, base, seen>>,
         Config' = Yield(base, Config, Unfold(machine, Now, Seen, Var))
  PROVE  MInv'
<1> DEFINE D == Yield(base, Config, Unfold(machine, Now, Seen, Var))
<1>1. Leads(machine, AbsState, base, <<>>, D, D)
  BY LeadsNowhere
<1>2. <<>> \in Seq(Items)
  OBVIOUS
<1>3. Config' = D
  OBVIOUS
<1> HIDE DEF D
<1> QED
  BY <1>1, <1>2, <1>3, Replaces DEF D

\* It stands for another statement.
LEMMA Becomes ==
  ASSUME Denotes(Visits), Walks, MInv, NEW kind, AtStmt(kind), Keep, Quiet,
         NEW s, NEW i, <<s, i>> \in Visits, Continue(<<Stmt(s, i)>>),
         Unfold(machine, Now, Seen, Var) = Meaning(machine, s, Seen, i)
  PROVE  MInv'
<1> DEFINE x == Stmt(s, i)
           D == Yield(base, Config, Meaning(machine, s, Seen, i))
<1>1. UNCHANGED Abstract!avars /\ UNCHANGED blocks
  BY SharedStep DEF Quiet, vars
<1>2. UNCHANGED <<AbsState, base, seen>> /\ Config' = Config
  BY <1>1, SameConfig
<1>3. Config.ok /\ View(AbsState, base, Config.fr) = Seen
  BY ConfigWalks, SeesBlocks
<1>4. Do(machine, AbsState, base, x, Config) = D
  BY <1>3 DEF Do, Stmt
<1>5. <<x>> \in Seq(Items) /\ Continue(<<x>>)
  BY OneStmt
<1> HIDE DEF x, D
<1>6. Leads(machine, AbsState, base, <<x>>, Config, D)
  BY <1>4, LeadsOne
<1> QED
  BY <1>2, <1>5, <1>6, Replaces DEF D

\* Updates.
LEMMA UpdateMeans ==
  ASSUME Denotes(Visits), WInv, WInv', MInv, update
  PROVE  MInv'
<1> DEFINE l == Place(Now.l, Var)
           v == Eval(Now.e, Var)
           V == ValuesAt(l)
<1>1. /\ AtStmt("update") /\ Continue(<<>>) /\ Keep
      /\ add_update(l, v) \/ add_update_conflict(l)
  BY DEF update
<1>2. Walks
  BY <1>1 DEF Walks, AtStmt
<1>3. Now.t = "update" /\ l \in Loc /\ Yields(Now.e, Var, V)
  <2>1. Now.t = "update" /\ WellTyped(Now, Var, Visits)
    BY <1>1, StmtFacts
  <2> QED
    BY <2>1 DEF WellTyped
<1>4. v \in V /\ v \in Val /\ v = In(Seen, Now.e, Var)
  <2> HIDE DEF V
  <2>1. v \in V
    BY <1>3, EvalTyped DEF WInv, IInv
  <2>2. v = In(Seen, Now.e, Var)
    BY <1>2, <1>3, SeesBlocks
  <2>3. V \subseteq Val
    BY Rulebook DEF V
  <2> QED
    BY <2>1, <2>2, <2>3
<1>5. Unfold(machine, Now, Seen, Var) = Ok([k \in {l} |-> v])
  BY <1>3, <1>4 DEF Unfold
<1> HIDE DEF l, v
<1>6. (Abstract!Set(l, v) \/ Abstract!SetClash(l)) /\ UNCHANGED blocks
  <2>1. CASE add_update(l, v)
    BY <1>3, <1>4, <2>1, UpdateStep DEF WInv, add_update
  <2>2. CASE add_update_conflict(l)
    BY <1>3, <2>2, ConflictStep DEF WInv, add_update_conflict
  <2> QED
    BY <1>1, <2>1, <2>2
<1>7. /\ Config' = Yield(base, Config, Ok([k \in {l} |-> v]))
      /\ UNCHANGED <<AbsState, base, seen>>
  BY <1>2, <1>3, <1>4, <1>6, SetConfig DEF V
<1> QED
  BY <1>1, <1>2, <1>5, <1>7, Yielded

\* Conditionals and calls.
LEMMA ChoiceMeans ==
  ASSUME Denotes(Visits), WInv, MInv, ifthenelse \/ case
  PROVE  MInv'
<1>1. CASE ifthenelse
  <2> DEFINE s == IF FunctionValue(Now.l) = Now.v THEN Now.s ELSE Now.else
  <2>1. AtStmt("if") /\ Quiet /\ Keep /\ Continue(<<Stmt(s, Var)>>)
    BY <1>1 DEF ifthenelse
  <2>2. Walks
    BY <2>1 DEF Walks, AtStmt
  <2>3. Now.t = "if" /\ Now.l \in Loc /\ <<s, Var>> \in Visits
    <3>1. WellTyped(Now, Var, Visits) /\ Now.t = "if"
      BY <2>1, StmtFacts
    <3> QED
      BY <3>1 DEF WellTyped
  <2>4. FunctionValue(Now.l) = Seen[Now.l]
    BY <2>2, <2>3, SeesBlocks
  <2>5. Unfold(machine, Now, Seen, Var) = Meaning(machine, s, Seen, Var)
    BY <1>1, <2>3, <2>4 DEF Unfold, ifthenelse, UndefCondition
  <2> HIDE DEF s
  <2> QED
    BY <2>1, <2>2, <2>3, <2>5, Becomes
<1>2. CASE case
  <2> DEFINE val == FunctionValue(Now.l)
             hits == {n \in DOMAIN Now.labels : Now.labels[n].v = val}
             first == CHOOSE n \in hits : \A k \in hits : n <= k
             s == IF hits = {} THEN Now.default ELSE Now.labels[first].s
  <2>1. AtStmt("case") /\ Quiet /\ Keep /\ Continue(<<Stmt(s, Var)>>)
    BY <1>2 DEF case
  <2>2. Walks
    BY <2>1 DEF Walks, AtStmt
  <2>3. /\ Now.t = "case" /\ Now.l \in Loc /\ IsSeq(Now.labels) /\ <<Now.default, Var>> \in Visits
        /\ \A n \in DOMAIN Now.labels : <<Now.labels[n].s, Var>> \in Visits
    <3>1. WellTyped(Now, Var, Visits) /\ Now.t = "case"
      BY <2>1, StmtFacts
    <3> QED
      BY <3>1 DEF WellTyped
  <2>4. val = Seen[Now.l]
    BY <2>2, <2>3, SeesBlocks
  <2>5. <<s, Var>> \in Visits
    <3>1. CASE hits # {}
      <4>1. hits \in SUBSET Nat
        BY <2>3 DEF IsSeq
      <4>2. \E m \in hits : \A k \in hits : m <= k
        BY <3>1, <4>1, LeastOf
      <4>3. first \in hits
        <5> HIDE DEF hits
        <5> QED
          BY <4>2
      <4>4. first \in DOMAIN Now.labels
        BY <4>3
      <4> QED
        BY <2>3, <3>1, <4>4
    <3> QED
      BY <2>3, <3>1
  <2>6. Unfold(machine, Now, Seen, Var) = Meaning(machine, s, Seen, Var)
    <3> HIDE DEF val
    <3>1. Unfold(machine, Now, Seen, Var) =
            IF hits = {} THEN Meaning(machine, Now.default, Seen, Var)
            ELSE Meaning(machine, Now.labels[first].s, Seen, Var)
      BY <2>3, <2>4 DEF Unfold
    <3> HIDE DEF hits, first
    <3> QED
      BY <3>1
  <2> HIDE DEF s
  <2> QED
    BY <2>1, <2>2, <2>5, <2>6, Becomes
<1> QED
  BY <1>1, <1>2

\* Exceptions.
LEMMA ThrowMeans ==
  ASSUME Denotes(Visits), Walks, MInv, NEW kind, AtStmt(kind), Keep, Continue(<<>>), throw,
         Unfold(machine, Now, Seen, Var) = Failure
  PROVE  MInv'
<1>1. Config' = Crash /\ UNCHANGED <<AbsState, base, seen>>
  BY ThrowStep, FailsConfig
<1>2. Yield(base, Config, Failure) = Crash
  BY ResultFacts, YieldCrash
<1> QED
  BY <1>1, <1>2, Yielded

\* Statements without effect.
LEMMA QuietMeans ==
  ASSUME Denotes(Visits), Walks, MInv, NEW kind, AtStmt(kind), Keep, Continue(<<>>), Quiet,
         Unfold(machine, Now, Seen, Var) = Ok(NoUpdates)
  PROVE  MInv'
<1>1. UNCHANGED Abstract!avars /\ UNCHANGED blocks
  BY SharedStep DEF Quiet, vars
<1>2. UNCHANGED <<AbsState, base, seen>> /\ Config' = Config
  BY <1>1, SameConfig
<1>3. Yield(base, Config, Ok(NoUpdates)) = Config
  BY ConfigWalks, YieldNone
<1> QED
  BY <1>2, <1>3, Yielded

\* Undefined conditions, calls, assertions, skip and diedie.
LEMMA CallMeans ==
  ASSUME Denotes(Visits), WInv, MInv, condition_undef \/ call \/ assert \/ skip \/ diedie
  PROVE  MInv'
<1>1. CASE call
  <2> DEFINE r == Eval(Now.e, Var)
             V == Rules \cup {Undef}
             s == RuleOf(r)
  <2>1. /\ AtStmt("call") /\ Keep
        /\ IF r = Undef THEN throw /\ Continue(<<>>) ELSE Quiet /\ Continue(<<Stmt(s, Undef)>>)
    BY <1>1 DEF call
  <2>2. Walks
    BY <2>1 DEF Walks, AtStmt
  <2>3. Now.t = "call" /\ Yields(Now.e, Var, V)
    <3>1. WellTyped(Now, Var, Visits) /\ Now.t = "call"
      BY <2>1, StmtFacts
    <3> QED
      BY <3>1 DEF WellTyped
  <2>4. r \in V /\ r = In(Seen, Now.e, Var)
    <3> HIDE DEF V
    <3> QED
      BY <2>2, <2>3, EvalTyped, SeesBlocks DEF WInv, IInv
  <2> HIDE DEF r
  <2>5. CASE r = Undef
    <3>1. Unfold(machine, Now, Seen, Var) = Failure
      BY <2>3, <2>4, <2>5 DEF Unfold
    <3> QED
      BY <2>1, <2>2, <2>5, <3>1, ThrowMeans
  <2>6. CASE r # Undef
    <3>1. <<s, Undef>> \in Visits
      BY <2>4, <2>6, Rulebook DEF WInv
    <3>2. Unfold(machine, Now, Seen, Var) = Meaning(machine, s, Seen, Undef)
      BY <2>3, <2>4, <2>6 DEF Unfold, Named, RuleOf
    <3> HIDE DEF s
    <3> QED
      BY <2>1, <2>2, <2>6, <3>1, <3>2, Becomes
  <2> QED
    BY <2>5, <2>6
<1>2. CASE assert
  <2>1. /\ AtStmt("assert") /\ Keep /\ Continue(<<>>)
        /\ IF FunctionValue(Now.l) = Now.v THEN Quiet ELSE throw
    BY <1>2 DEF assert
  <2>2. Walks
    BY <2>1 DEF Walks, AtStmt
  <2>3. Now.t = "assert" /\ Now.l \in Loc
    <3>1. WellTyped(Now, Var, Visits) /\ Now.t = "assert"
      BY <2>1, StmtFacts
    <3> QED
      BY <3>1 DEF WellTyped
  <2>4. FunctionValue(Now.l) = Seen[Now.l]
    BY <2>2, <2>3, SeesBlocks
  <2>5. CASE Seen[Now.l] = Now.v
    <3>1. Unfold(machine, Now, Seen, Var) = Ok(NoUpdates)
      BY <2>3, <2>5 DEF Unfold
    <3> QED
      BY <2>1, <2>2, <2>4, <2>5, <3>1, QuietMeans
  <2>6. CASE Seen[Now.l] # Now.v
    <3>1. Unfold(machine, Now, Seen, Var) = Failure
      BY <2>3, <2>6 DEF Unfold
    <3> QED
      BY <2>1, <2>2, <2>4, <2>6, <3>1, ThrowMeans
  <2> QED
    BY <2>5, <2>6
<1>3. CASE skip
  <2>1. AtStmt("skip") /\ Quiet /\ Continue(<<>>) /\ Keep
    BY <1>3 DEF skip
  <2>2. Walks /\ Unfold(machine, Now, Seen, Var) = Ok(NoUpdates)
    BY <2>1 DEF Walks, AtStmt, Unfold
  <2> QED
    BY <2>1, <2>2, QuietMeans
<1>4. CASE diedie
  <2>1. AtStmt("diedie") /\ throw /\ Continue(<<>>) /\ Keep
    BY <1>4 DEF diedie
  <2>2. Walks /\ Unfold(machine, Now, Seen, Var) = Failure
    BY <2>1 DEF Walks, AtStmt, Unfold
  <2> QED
    BY <2>1, <2>2, ThrowMeans
<1>5. CASE condition_undef
  <2>1. AtStmt("if") /\ throw /\ Continue(<<>>) /\ Keep /\ UndefCondition
    BY <1>5 DEF condition_undef
  <2>2. Walks
    BY <2>1 DEF Walks, AtStmt
  <2>3. Now.t = "if" /\ Now.l \in Loc
    <3>1. WellTyped(Now, Var, Visits) /\ Now.t = "if"
      BY <2>1, StmtFacts
    <3> QED
      BY <3>1 DEF WellTyped
  <2>4. FunctionValue(Now.l) = Seen[Now.l]
    BY <2>2, <2>3, SeesBlocks
  <2>5. Unfold(machine, Now, Seen, Var) = Failure
    BY <2>1, <2>3, <2>4 DEF Unfold, UndefCondition
  <2> QED
    BY <2>1, <2>2, <2>5, ThrowMeans
<1> QED
  BY <1>1, <1>2, <1>3, <1>4, <1>5

\* The walker enters a block: what there is then, and what its contents see.
LEMMA OpensBlock ==
  ASSUME Walks, WInv', NEW kind \in {"seq", "par", "iterate", "round"}, NEW forked \in BOOLEAN,
         NEW new, new = NewBlock(kind, forked), Enter(new), Fork(forked),
         UNCHANGED <<base, function_states, updates, phase, seen>>
  PROVE  LET O == Open(Config, new)
         IN  /\ new \in Block /\ new.forked = forked /\ new.running
             /\ Config' = O /\ O \in Confs /\ O.ok /\ O.bl # <<>> /\ Last(O.bl) = new
             /\ View(AbsState, base, O.fr) = Seen
             /\ SeqAt(base, Len(O.fr)) <=>
                  (IF forked THEN pseudostate + 1 ELSE pseudostate) % 2 = 1
             /\ UNCHANGED <<AbsState, base, seen>>
<1> DEFINE O == Open(Config, new)
           G == IF forked THEN Append(AbsFrames, NoUpdates) ELSE AbsFrames
<1>1. new \in Block /\ new.forked = forked /\ new.running
  BY NewBlockFacts DEF NewBlock, Walks
<1>2. /\ base \in {0, 1} /\ AbsState \in States /\ Config \in Confs
      /\ Config.fr = AbsFrames /\ Config.bl = blocks /\ AbsFrames \in Frames1
      /\ AbsFrames \in Seq(Upds) /\ Len(AbsFrames) = pseudostate - base + 1
      /\ pseudostate \in Nat
  BY ConfigWalks, StateAboveBase DEF Walks, WInv, IInv, Frames1
<1>3. IF new.forked THEN Abstract!Begin ELSE UNCHANGED Abstract!avars
  <2>1. CASE forked
    <3>1. pseudostate' = pseudostate + 1
      BY <2>1 DEF Fork
    <3> QED
      BY <1>1, <2>1, <3>1, ForkStep DEF Walks, WInv
  <2>2. CASE ~ forked
    <3>1. pseudostate' = pseudostate
      BY <2>2 DEF Fork
    <3> QED
      BY <1>1, <2>2, <3>1, SharedStep
  <2> QED
    BY <2>1, <2>2
<1>4. Config' = O /\ UNCHANGED <<AbsState, base, seen>>
  BY <1>3, EnterConfig
<1>5. O \in Confs
  BY <1>1, <1>2, ResultFacts, OpenShut
<1>6. O.ok
  BY <1>5, ConfFacts
<1>7. O = Conf(G, Append(blocks, new))
  BY <1>1, <1>2 DEF Open
<1>8. O.fr = G /\ O.bl = Append(blocks, new)
  <2> DEFINE B == Append(blocks, new)
  <2> HIDE DEF G, B, O
  <2> QED
    BY <1>7, ConfIs DEF B
<1>9. O.bl # <<>> /\ Last(O.bl) = new
  <2>1. blocks \in Seq(Block)
    BY <1>2, ConfFacts
  <2> HIDE DEF O
  <2> QED
    BY <1>1, <1>8, <2>1, AppendFacts
<1>10. View(AbsState, base, G) = Seen
  BY <1>2, ViewNew DEF Seen
<1>11. Len(G) = Len(AbsFrames) + IF forked THEN 1 ELSE 0
  BY <1>2
<1>12. SeqAt(base, Len(G)) <=> (IF forked THEN pseudostate + 1 ELSE pseudostate) % 2 = 1
  <2> HIDE DEF G
  <2>1. base + Len(G) = (IF forked THEN pseudostate + 1 ELSE pseudostate) + 1
    BY <1>2, <1>11
  <2> QED
    BY <1>2, <2>1 DEF SeqAt
<1> HIDE DEF G
<1> QED
  BY <1>1, <1>4, <1>5, <1>6, <1>8, <1>9, <1>10, <1>12

\* The contents of a block and its end come to what the block yields.
LEMMA BlockLeads ==
  ASSUME NEW m, NEW st, NEW b \in {0, 1}, NEW C \in Confs, NEW new \in Block, NEW r \in Results,
         NEW items \in Seq(Items), NEW x \in Items, x.k \in {"leave_seq", "leave_par"},
         Leads(m, st, b, items, Open(C, new), Yield(b, Open(C, new), r))
  PROVE  Leads(m, st, b, items \o <<x>>, Open(C, new), Yield(b, C, r))
<1> DEFINE O == Open(C, new)
           Y == Yield(b, O, r)
           Z == Yield(b, C, r)
<1>1. Shut(b, Y) = Z
  BY OpenShut
<1>2. Do(m, st, b, x, Y) = Shut(b, Y)
  BY DEF Do, Shut
<1> HIDE DEF Y, Z
<1>3. Leads(m, st, b, <<x>>, Y, Z)
  BY <1>1, <1>2, LeadsOne
<1>4. <<x>> \in Seq(Items) /\ Leads(m, st, b, items, O, Y)
  BY DEF Y
<1> HIDE DEF O
<1>5. Leads(m, st, b, items \o <<x>>, O, Z)
  BY <1>3, <1>4, LeadsOn
<1> QED
  BY <1>5 DEF O, Z

\* The pseudostate of the parity a kind of block needs.
LEMMA ForkParity ==
  ASSUME TypeOK
  PROVE  /\ Parallel \in BOOLEAN
         /\ (IF Parallel THEN pseudostate + 1 ELSE pseudostate) % 2 = 1
         /\ ~ ((IF ~ Parallel THEN pseudostate + 1 ELSE pseudostate) % 2 = 1)
<1>1. pseudostate \in Nat /\ (pseudostate % 2 = 0 \/ pseudostate % 2 = 1)
  BY DEF TypeOK
<1>2. pseudostate % 2 = 0 => (pseudostate + 1) % 2 = 1
  BY <1>1
<1>3. pseudostate % 2 = 1 => (pseudostate + 1) % 2 = 0
  BY <1>1
<1> QED
  BY <1>1, <1>2, <1>3 DEF Parallel

\* Sequential blocks.
LEMMA SeqMeans ==
  ASSUME Denotes(Visits), WInv, WInv', MInv, seqblock
  PROVE  MInv'
<1> DEFINE items == Body(Now.body, Var)
           new == NewBlock("seq", Parallel)
           O == Open(Config, new)
           r == InTurn(machine, Now.body, Seen, Var)
           x == Todo("leave_seq")
           us == items \o <<x>>
<1>1. AtStmt("seq") /\ walk_seqblock /\ Keep /\ Continue(us)
  BY DEF seqblock
<1>2. Walks
  BY <1>1 DEF Walks, AtStmt
<1>3. /\ Unfold(machine, Now, Seen, Var) \in Results /\ Now.t = "seq" /\ IsSeq(Now.body)
      /\ \A n \in DOMAIN Now.body : <<Now.body[n], Var>> \in Visits
  <2>1. /\ Unfold(machine, Now, Seen, Var) \in Results /\ Now.t = "seq"
        /\ WellTyped(Now, Var, Visits)
    BY <1>1, <1>2, AtMeaning
  <2> QED
    BY <2>1 DEF WellTyped
<1>4. Unfold(machine, Now, Seen, Var) = r
  BY <1>3 DEF Unfold
<1>5. items \in Seq(Items) /\ x \in Items /\ x.k = "leave_seq" /\ us \in Seq(Items)
  <2>1. items \in Seq(Items)
    BY <1>3, BodyFacts
  <2>2. x \in Items /\ x.k = "leave_seq"
    BY DEF Items, Todo
  <2> HIDE DEF items, x
  <2> QED
    BY <2>1, <2>2
<1>6. /\ new \in Block /\ Config' = O /\ O \in Confs
      /\ View(AbsState, base, O.fr) = Seen /\ SeqAt(base, Len(O.fr))
      /\ UNCHANGED <<AbsState, base, seen>>
  <2> DEFINE f == Parallel
  <2>1. f \in BOOLEAN /\ (IF f THEN pseudostate + 1 ELSE pseudostate) % 2 = 1
    BY <1>2, ForkParity DEF Walks, WInv, IInv
  <2>2. /\ Enter(new) /\ Fork(f) /\ new = NewBlock("seq", f)
        /\ UNCHANGED <<base, function_states, updates, phase, seen>>
    BY <1>1 DEF walk_seqblock
  <2> HIDE DEF f, new
  <2> QED
    BY <1>2, <2>1, <2>2, OpensBlock
<1>7. base \in {0, 1} /\ AbsState \in States /\ machine \in Machines /\ Config \in Confs
  BY <1>2, ConfigWalks DEF WInv
<1> HIDE DEF new, O
<1>8. Leads(machine, AbsState, base, items, O, Yield(base, O, r))
  BY <1>3, <1>6, <1>7, SeqLeads
<1>9. r \in Results
  BY <1>3, <1>4
<1> HIDE DEF r, items, x
<1>10. Leads(machine, AbsState, base, us, O, Yield(base, Config, r))
  BY <1>5, <1>6, <1>7, <1>8, <1>9, BlockLeads DEF O
<1> HIDE DEF us
<1> QED
  BY <1>1, <1>2, <1>4, <1>5, <1>6, <1>10, Replaces

\* Parallel blocks and foralls.
LEMMA PartsMean ==
  ASSUME Denotes(Visits), Walks, WInv', MInv, NEW kind, AtStmt(kind), walk_parblock, Keep,
         NEW parts, IsSeq(parts), \A n \in DOMAIN parts : <<parts[n][1], parts[n][2]>> \in Visits,
         Unfold(machine, Now, Seen, Var) = Together(machine, parts, Seen),
         NEW items \in Seq(Items),
         items = [n \in DOMAIN parts |-> Stmt(parts[n][1], parts[n][2])],
         Continue(items \o <<Todo("leave_par")>>)
  PROVE  MInv'
<1> DEFINE new == NewBlock("par", ~ Parallel)
           O == Open(Config, new)
           r == Together(machine, parts, Seen)
           x == Todo("leave_par")
           us == items \o <<x>>
<1>1. Unfold(machine, Now, Seen, Var) \in Results
  BY AtMeaning
<1>2. x \in Items /\ x.k = "leave_par" /\ us \in Seq(Items) /\ Continue(us)
  <2>1. x \in Items /\ x.k = "leave_par" /\ Continue(us)
    BY DEF Items, Todo
  <2> HIDE DEF x
  <2>2. us \in Seq(Items)
    BY <2>1
  <2> QED
    BY <2>1, <2>2
<1>3. /\ new \in Block /\ Config' = O /\ O \in Confs
      /\ View(AbsState, base, O.fr) = Seen /\ ~ SeqAt(base, Len(O.fr))
      /\ UNCHANGED <<AbsState, base, seen>>
  <2> DEFINE f == ~ Parallel
  <2>1. f \in BOOLEAN /\ ~ ((IF f THEN pseudostate + 1 ELSE pseudostate) % 2 = 1)
    BY ForkParity DEF Walks, WInv, IInv
  <2>2. /\ Enter(new) /\ Fork(f) /\ new = NewBlock("par", f)
        /\ UNCHANGED <<base, function_states, updates, phase, seen>>
    BY DEF walk_parblock
  <2> HIDE DEF f, new
  <2> QED
    BY <2>1, <2>2, OpensBlock
<1>4. base \in {0, 1} /\ AbsState \in States /\ machine \in Machines /\ Config \in Confs
  BY ConfigWalks DEF Walks, WInv
<1> HIDE DEF new, O
<1>5. Leads(machine, AbsState, base, items, O, Yield(base, O, r))
  BY <1>3, <1>4, ParLeads
<1>6. r \in Results
  BY <1>1
<1> HIDE DEF r, x
<1>7. Leads(machine, AbsState, base, us, O, Yield(base, Config, r))
  BY <1>2, <1>3, <1>4, <1>5, <1>6, BlockLeads DEF O
<1> HIDE DEF us
<1> QED
  BY <1>2, <1>3, <1>7, Replaces DEF r

LEMMA ParMeans ==
  ASSUME Denotes(Visits), WInv, WInv', MInv, parblock
  PROVE  MInv'
<1> DEFINE ss == Now.body
           i == Var
           parts == [n \in DOMAIN ss |-> <<ss[n], i>>]
           items == Body(ss, i)
<1>1. /\ AtStmt("par") /\ walk_parblock /\ Keep
      /\ Continue(items \o <<Todo("leave_par")>>) /\ Walks
  BY DEF parblock, Walks, AtStmt
<1>2. Now.t = "par" /\ IsSeq(ss) /\ \A n \in DOMAIN ss : <<ss[n], i>> \in Visits
  <2>1. Now.t = "par" /\ WellTyped(Now, Var, Visits)
    BY <1>1, StmtFacts
  <2> QED
    BY <2>1 DEF WellTyped
<1>3. Unfold(machine, Now, Seen, Var) = Together(machine, parts, Seen)
  BY <1>2 DEF Unfold
<1> HIDE DEF ss, i
<1>4. IsSeq(parts) /\ \A n \in DOMAIN parts : <<parts[n][1], parts[n][2]>> \in Visits
  BY <1>2 DEF IsSeq
<1>5. items \in Seq(Items)
  BY <1>2, BodyFacts
<1>6. items = [n \in DOMAIN parts |-> Stmt(parts[n][1], parts[n][2])]
  <2>1. DOMAIN parts = DOMAIN ss /\ \A n \in DOMAIN ss : parts[n][1] = ss[n] /\ parts[n][2] = i
    OBVIOUS
  <2> HIDE DEF parts
  <2> QED
    BY <2>1 DEF Body
<1> HIDE DEF parts, items
<1> QED
  BY <1>1, <1>3, <1>4, <1>5, <1>6, PartsMean

LEMMA ForallMeans ==
  ASSUME Denotes(Visits), WInv, WInv', MInv, forall
  PROVE  MInv'
<1> DEFINE s == Now.s
           in == Now.in
           parts == [n \in DOMAIN in |-> <<s, in[n]>>]
           items == [n \in DOMAIN in |-> Stmt(s, in[n])]
<1>1. /\ AtStmt("forall") /\ walk_parblock /\ Keep
      /\ Continue(items \o <<Todo("leave_par")>>) /\ Walks
  BY DEF forall, Walks, AtStmt
<1>2. Now.t = "forall" /\ IsSeq(in) /\ \A n \in DOMAIN in : <<s, in[n]>> \in Visits
  <2>1. Now.t = "forall" /\ WellTyped(Now, Var, Visits)
    BY <1>1, StmtFacts
  <2> QED
    BY <2>1 DEF WellTyped
<1>3. Unfold(machine, Now, Seen, Var) = Together(machine, parts, Seen)
  BY <1>2 DEF Unfold
<1> HIDE DEF s, in
<1>4. IsSeq(parts) /\ \A n \in DOMAIN parts : <<parts[n][1], parts[n][2]>> \in Visits
  BY <1>2 DEF IsSeq
<1>5. items \in Seq(Items)
  <2>1. items = [n \in DOMAIN in |-> Stmt(s, in[n])]
    OBVIOUS
  <2> HIDE DEF items
  <2> QED
    BY <1>2, <2>1, ForallFacts
<1>6. items = [n \in DOMAIN parts |-> Stmt(parts[n][1], parts[n][2])]
  <2>1. DOMAIN parts = DOMAIN in /\ \A n \in DOMAIN in : parts[n][1] = s /\ parts[n][2] = in[n]
    OBVIOUS
  <2> HIDE DEF parts
  <2> QED
    BY <2>1
<1> HIDE DEF parts, items
<1> QED
  BY <1>1, <1>3, <1>4, <1>5, <1>6, PartsMean

\* Iterates, before the first round.
LEMMA IterateMeans ==
  ASSUME Denotes(Visits), WInv, WInv', MInv, iterate
  PROVE  MInv'
<1> DEFINE new == NewBlock("iterate", Parallel)
           O == Open(Config, new)
           x == [k |-> "while", s |-> Now, i |-> Var]
           r == Unfold(machine, Now, Seen, Var)
           D == Yield(base, Config, r)
<1>1. AtStmt("iterate") /\ walk_iterate /\ Keep /\ Continue(<<x>>) /\ Walks
  BY DEF iterate, Walks, AtStmt
<1>2. r \in Results /\ Meaning(machine, Now, Seen, Var) = r /\ Now.t = "iterate"
  BY <1>1, AtMeaning
<1>3. /\ new \in Block /\ new.running /\ Config' = O /\ O \in Confs /\ O.ok /\ Last(O.bl) = new
      /\ View(AbsState, base, O.fr) = Seen
      /\ UNCHANGED <<AbsState, base, seen>>
  <2> DEFINE f == Parallel
  <2>1. f \in BOOLEAN
    BY DEF Parallel
  <2>2. /\ Enter(new) /\ Fork(f) /\ new = NewBlock("iterate", f)
        /\ UNCHANGED <<base, function_states, updates, phase, seen>>
    BY <1>1 DEF walk_iterate
  <2> HIDE DEF f, new
  <2> QED
    BY <1>1, <2>1, <2>2, OpensBlock
<1>4. base \in {0, 1} /\ Config \in Confs
  BY <1>1, ConfigWalks
<1>5. x \in Items
  <2>1. todo[1] \in Items /\ todo[1].k = "stmt" /\ Now = todo[1].s /\ Var = todo[1].i
    BY <1>1, HeadFacts, StmtFacts DEF Now, Var
  <2>2. PICK p \in Visits : todo[1] = Stmt(p[1], p[2])
    BY <2>1 DEF Items, Todo
  <2>3. Now = p[1] /\ Var = p[2]
    BY <2>1, <2>2 DEF Stmt
  <2> QED
    BY <1>2, <2>3 DEF Items
<1>6. x.k = "while" /\ x.s = Now /\ x.i = Var
  OBVIOUS
<1>7. <<x>> \in Seq(Items)
  BY <1>5
<1> HIDE DEF new, O, x, r
<1>8. Do(machine, AbsState, base, x, O) = Shut(base, Yield(base, O, r))
  BY <1>2, <1>3, <1>6 DEF Do
<1>9. Shut(base, Yield(base, O, r)) = D
  BY <1>2, <1>3, <1>4, OpenShut DEF O
<1> HIDE DEF D
<1>10. Leads(machine, AbsState, base, <<x>>, O, D)
  BY <1>8, <1>9, LeadsOne
<1> QED
  BY <1>1, <1>3, <1>7, <1>10, Replaces DEF D, r

\* The ends of blocks.
LEMMA EndMeans ==
  ASSUME WInv, WInv', MInv, end_seqblock \/ end_parblock \/ iterate_exit \/ iterate_check
  PROVE  MInv'
<1>1. /\ Walks /\ main = "walk" /\ todo # <<>> /\ Continue(<<>>) /\ Keep
      /\ todo[1].k \in {"leave_seq", "leave_par", "while", "end_round"}
  BY DEF end_seqblock, end_parblock, iterate_exit, iterate_check, Reached, Walks
<1>2. Config.ok /\ Config.bl = blocks
  BY <1>1, ConfigWalks
<1> DEFINE D == Do(machine, AbsState, base, todo[1], Config)
<1>3. Config' = D /\ UNCHANGED <<AbsState, base, seen>>
  <2>1. CASE end_seqblock
    <3>1. todo[1].k = "leave_seq" /\ Leave("seq", "merge_seq")
      BY <2>1 DEF end_seqblock, Reached, leave_seqblock
    <3>2. D = Shut(base, Config)
      BY <1>2, <3>1 DEF Do
    <3> QED
      BY <1>1, <3>1, <3>2, LeaveConfig
  <2>2. CASE end_parblock
    <3>1. todo[1].k = "leave_par" /\ Leave("par", "merge_par")
      BY <2>2 DEF end_parblock, Reached, leave_parblock
    <3>2. D = Shut(base, Config)
      BY <1>2, <3>1 DEF Do
    <3> QED
      BY <1>1, <3>1, <3>2, LeaveConfig
  <2>3. CASE iterate_exit
    <3>1. todo[1].k = "while" /\ Leave("iterate", "merge_seq") /\ ~ Top.running
      BY <2>3 DEF iterate_exit, Reached, leave_iterate, Leave
    <3>2. Top = Last(blocks)
      BY DEF Top, Last
    <3>3. D = Shut(base, Config)
      BY <1>2, <3>1, <3>2 DEF Do
    <3> QED
      BY <1>1, <3>1, <3>3, LeaveConfig
  <2>4. CASE iterate_check
    <3>1. todo[1].k = "end_round" /\ end_round
      BY <2>4 DEF iterate_check, Reached
    <3>2. D = ShutRound(base, Config)
      BY <1>2, <3>1 DEF Do
    <3> QED
      BY <1>1, <3>1, <3>2, RoundConfig
  <2> QED
    BY <2>1, <2>2, <2>3, <2>4
<1>4. todo' = <<>> \o Tail(todo) /\ UNCHANGED <<machine, main>> /\ <<>> \in Seq(Items)
  BY <1>1 DEF Continue, Keep
<1> HIDE DEF D
<1>5. Leads(machine, AbsState, base, <<>>, D, D)
  BY LeadsNowhere
<1> QED
  BY <1>1, <1>3, <1>4, <1>5, Replaced DEF D

\* A round of an iterate.
LEMMA RoundMeans ==
  ASSUME Denotes(Visits), WInv, WInv', MInv, iterate_round
  PROVE  MInv'
<1> DEFINE new == NewBlock("round", TRUE)
           O == Open(Config, new)
           x == todo[1]
           y == Stmt(Now.s, Var)
           e == Todo("end_round")
           items == <<y, e, x>>
<1>1. /\ Walks /\ main = "walk" /\ todo # <<>> /\ x.k = "while" /\ begin_round /\ Keep
      /\ todo' = <<y, e>> \o todo
  BY DEF iterate_round, Reached, Walks
<1>2. x \in Items /\ todo \in Seq(Items) /\ Now = x.s /\ Var = x.i
  BY <1>1, HeadFacts DEF WInv, Now, Var
<1>3. PICK p \in Visits : p[1].t = "iterate" /\ x = [k |-> "while", s |-> p[1], i |-> p[2]]
  BY <1>1, <1>2 DEF Items, Stmt, Todo
<1>4. p[1] = Now /\ p[2] = Var /\ Now.t = "iterate"
  BY <1>2, <1>3
<1>5. <<Now.s, Var>> \in Visits
  <2>1. WellTyped(Now, Var, Visits)
    BY <1>1, <1>2, ItemFacts
  <2> QED
    BY <1>4, <2>1 DEF WellTyped
<1>6. y \in Items /\ e \in Items
  BY <1>5, StmtItems DEF Items
<1>7. items \in Seq(Items) /\ todo' = items \o Tail(todo)
  <2> HIDE DEF y, e, x
  <2>1. items \in Seq(Items)
    BY <1>2, <1>6
  <2>2. <<y, e>> \o todo = items \o Tail(todo)
    BY <1>1, <1>2, <1>6 DEF x
  <2> QED
    BY <1>1, <2>1, <2>2
<1>8. /\ blocks # <<>> /\ Last(blocks).running /\ Enter(new) /\ Fork(TRUE)
      /\ pseudostate % 2 = 1
      /\ UNCHANGED <<base, function_states, updates, phase, seen>>
  <2>1. /\ blocks # <<>> /\ Top.kind = "iterate" /\ Top.running /\ Enter(new) /\ Fork(TRUE)
        /\ UNCHANGED <<base, function_states, updates, phase, seen>>
    BY <1>1 DEF begin_round
  <2>2. pseudostate % 2 = 1
    BY <2>1, TopParity DEF WInv
  <2> QED
    BY <2>1, <2>2 DEF Top, Last
<1>9. /\ base \in {0, 1} /\ AbsState \in States /\ Config \in Confs /\ Config.bl = blocks
      /\ machine \in Machines /\ SeqAt(base, Len(Config.fr))
  BY <1>1, <1>8, ConfigWalks DEF WInv
<1>10. new \in Block /\ new.forked /\ Config' = O /\ UNCHANGED <<AbsState, base, seen>>
  BY <1>1, <1>8, OpensBlock
<1> DEFINE D == Do(machine, AbsState, base, x, Config)
<1>11. Leads(machine, AbsState, base, items, O, D)
  <2> DEFINE s == Now
             i == Var
  <2>1. /\ p[1] = s /\ p[2] = i /\ s.t = "iterate" /\ <<s.s, i>> \in Visits
        /\ x.k = "while" /\ x.s = s /\ x.i = i
    BY <1>1, <1>2, <1>4, <1>5
  <2>2. Config.bl # <<>> /\ Last(Config.bl).running
    BY <1>8, <1>9
  <2>3. items = <<Stmt(s.s, i), Todo("end_round"), x>>
    OBVIOUS
  <2> HIDE DEF s, i, x, new, items, D, O
  <2>4. Leads(machine, AbsState, base, <<Stmt(s.s, i), Todo("end_round"), x>>,
              Open(Config, new), Do(machine, AbsState, base, x, Config))
    BY <1>9, <1>10, <2>1, <2>2, RoundLeads
  <2> QED
    BY <2>3, <2>4 DEF D, O
<1> HIDE DEF items, O, D
<1>12. UNCHANGED <<machine, main>>
  BY <1>1 DEF Keep
<1> QED
  BY <1>1, <1>7, <1>10, <1>11, <1>12, Replaced DEF D

-----------------------------------------------------------------------------
(* The steps that are not statements, and the invariant.                   *)

\* Nothing changes of what the invariant is about.
LEMMA MergeMeans ==
  ASSUME WInv, WInv', MInv, merge
  PROVE  MInv'
<1>1. /\ merge_step \/ merge_end
      /\ UNCHANGED <<machine, todo, main, blocks>> /\ phase # "walk"
  BY DEF merge, merge_step, merge_end, Merging
<1>2. UNCHANGED Abstract!avars
  BY <1>1, MergeStepStep, MergeEndStep DEF WInv
<1>3. UNCHANGED <<Config, AbsState, base, seen>>
  BY <1>1, <1>2, SameConfig
<1>4. main = "walk"
  BY <1>1 DEF WInv, MainOK
<1>5. StepMeaning' = StepMeaning
  BY <1>1, <1>3 DEF StepMeaning, RuleOf
<1>6. Goal' = Goal
  BY <1>3, <1>5 DEF Goal, Start
<1>7. seen \in Rules /\ Leads(machine, AbsState, base, todo, Config, Goal)
  BY <1>4 DEF MInv
<1>8. seen' \in Rules /\ Leads(machine', AbsState', base', todo', Config', Goal')
  BY <1>1, <1>3, <1>6, <1>7
<1> QED
  BY <1>1, <1>4, <1>8 DEF MInv

\* Between two steps of the machine the walker has nothing.
LEMMA StartsHere ==
  ASSUME WInv, main = "fetch", updates = <<>>
  PROVE  Config = Start
<1>1. todo = <<>> /\ phase = "walk"
  BY DEF WInv, MainOK
<1>2. blocks = <<>>
  BY <1>1, ClosesNothing DEF WInv, IInv, TypeOK
<1>3. pseudostate = base
  BY <1>1, <1>2, OneEntryPerLocation DEF WInv
<1>4. AbsFailed = FALSE /\ AbsFrames = Frames(updates, base, base) /\ base \in Nat
  BY <1>1, <1>3, WalkFrames DEF WInv, InWalk, WalkMapped
<1>5. Lev(updates, base) = NoUpdates
  <2>1. \A l \in Loc : ~ Has(updates, l, base)
    BY DEF Has
  <2> QED
    BY <2>1, LevEmpty DEF NoUpdates
<1>6. AbsFrames = <<NoUpdates>>
  BY <1>4, <1>5, OneFrame
<1> QED
  BY <1>2, <1>4, <1>6 DEF Config, Start

\* run() reads program(self): what is left is the rule.
LEMMA FetchMeans ==
  ASSUME Denotes(Visits), WInv, WInv', MInv, fetch_program
  PROVE  MInv'
<1>1. /\ main = "fetch" /\ get_function_value(Program) /\ updates = <<>>
      /\ seen' = FunctionValue(Program)
      /\ UNCHANGED <<base, machine, function_states, updates, pseudostate, blocks, phase>>
      /\ IF seen' = Undef THEN main' = "done" /\ UNCHANGED todo
           ELSE main' = "walk" /\ todo' = <<Stmt(RuleOf(seen'), Undef)>>
  BY DEF fetch_program, get_function_value, MInv
<1>2. CASE seen' = Undef
  BY <1>1, <1>2 DEF MInv
<1>3. CASE seen' # Undef
  <2>1. main' = "walk" /\ todo' = <<Stmt(RuleOf(seen'), Undef)>> /\ seen' \in Rules
    BY <1>1, <1>3, Rulebook, ReadTyped DEF WInv, IInv
  <2>2. UNCHANGED <<AbsState, AbsFrames, AbsFailed, blocks>>
    BY <1>1, SameMap
  <2>3. Config' = Start
    <3>1. Config = Start
      BY <1>1, StartsHere
    <3> QED
      BY <2>2, <3>1 DEF Config
  <2>4. base \in {0, 1} /\ AbsState \in States /\ machine \in Machines
    BY StateTyped DEF WInv, IInv, TypeOK
  <2> DEFINE s == RuleOf(seen')
             r == Meaning(machine, s, AbsState, Undef)
             x == Stmt(s, Undef)
  <2>5. Goal' = Yield(base, Start, r)
    <3>1. StepMeaning' = r
      BY <1>1, <2>2 DEF StepMeaning, RuleOf
    <3> QED
      BY <1>1, <3>1 DEF Goal, Start
  <2>6. View(AbsState, base, <<NoUpdates>>) = AbsState
    BY <2>4, ViewStart
  <2>7. Start.ok /\ Start.fr = <<NoUpdates>>
    BY ConfIs DEF Start
  <2>8. Do(machine, AbsState, base, x, Start) = Yield(base, Start, r)
    <3>1. x.k = "stmt" /\ x.s = s /\ x.i = Undef
      BY DEF Stmt
    <3> HIDE DEF x, s
    <3> QED
      BY <2>6, <2>7, <3>1 DEF Do
  <2>9. Leads(machine, AbsState, base, <<x>>, Start, Do(machine, AbsState, base, x, Start))
    <3> HIDE DEF x
    <3> QED
      BY LeadsOne
  <2>10. todo' = <<x>>
    BY <2>1
  <2> HIDE DEF r, s, x
  <2>11. Leads(machine', AbsState', base', todo', Config', Goal')
    BY <1>1, <2>2, <2>3, <2>5, <2>8, <2>9, <2>10
  <2> QED
    BY <2>1, <2>11 DEF MInv
<1> QED
  BY <1>2, <1>3

\* The walker's steps take what is left to what the rule means.
LEMMA NextMeans ==
  ASSUME Denotes(Visits), WInv, WInv', MInv, [WNext]_wvars
  PROVE  MInv'
<1>1. CASE update \/ seqblock \/ parblock \/ forall \/ iterate
  BY <1>1, UpdateMeans, SeqMeans, ParMeans, ForallMeans, IterateMeans
<1>2. CASE ifthenelse \/ case
  BY <1>2, ChoiceMeans
<1>3. CASE condition_undef \/ assert \/ call \/ skip \/ diedie
  BY <1>3, CallMeans
<1>4. CASE end_seqblock \/ end_parblock \/ iterate_exit \/ iterate_check
  BY <1>4, EndMeans
<1>5. CASE iterate_round
  BY <1>5, RoundMeans
<1>6. CASE merge
  BY <1>6, MergeMeans
<1>7. CASE fetch_program
  BY <1>7, FetchMeans
<1>8. CASE end_step
  <2>1. main' = "fetch" /\ updates' = <<>>
    BY <1>8 DEF end_step, apply_updates
  <2> QED
    BY <2>1 DEF MInv
<1>9. CASE exited \/ UNCHANGED wvars
  <2>1. UNCHANGED <<vars, machine, todo, main>>
    BY <1>9 DEF exited, wvars
  <2>2. UNCHANGED <<base, function_states, updates, pseudostate, blocks, phase, seen>>
    BY <2>1 DEF vars
  <2>3. UNCHANGED Abstract!avars
    BY <2>2, SharedStep
  <2>4. UNCHANGED <<Config, AbsState, base, seen, machine, todo, main, updates>>
    BY <2>1, <2>2, <2>3, SameConfig
  <2>5. StepMeaning' = StepMeaning
    BY <2>4 DEF StepMeaning, RuleOf
  <2>6. Goal' = Goal
    BY <2>4, <2>5 DEF Goal, Start
  <2> QED
    BY <2>4, <2>6 DEF MInv
<1> QED
  BY <1>1, <1>2, <1>3, <1>4, <1>5, <1>6, <1>7, <1>8, <1>9 DEF WNext

LEMMA InitMeans ==
  ASSUME WInit
  PROVE  MInv
  BY DEF WInit, Init, MInv

\* What the updates of the outermost block are.
LEMMA YieldsAtStart ==
  ASSUME NEW b \in {0, 1}, NEW r \in Results
  PROVE  /\ r.st = "ok" => Yield(b, Start, r) = Conf(<<r.upd>>, <<>>)
         /\ r.st # "ok" => Yield(b, Start, r) = Crash
<1>1. Start.ok /\ Start.fr = <<NoUpdates>> /\ Start.bl = <<>>
  <2> DEFINE F == <<NoUpdates>>
             B == <<>>
  <2>1. Start = Conf(F, B)
    BY DEF Start
  <2> HIDE DEF F, B
  <2>2. Start.ok /\ Start.fr = F /\ Start.bl = B
    BY <2>1, ConfIs
  <2> QED
    BY <2>2 DEF F, B
<1>2. r.st # "ok" => Yield(b, Start, r) = Crash
  BY YieldCrash
<1>3. ASSUME r.st = "ok"
      PROVE  Yield(b, Start, r) = Conf(<<r.upd>>, <<>>)
  <2> DEFINE u == r.upd
             fr == <<NoUpdates>>
  <2>1. u \in Upds
    BY ResultFacts
  <2>2. fr # <<>> /\ Len(fr) = 1 /\ Last(fr) = NoUpdates
    BY DEF Last
  <2>3. DOMAIN NoUpdates = {}
    BY BothUpds
  <2>4. ~ Clashes(b, fr, u)
    BY <2>2, <2>3 DEF Clashes
  <2>5. Both(NoUpdates, u) = u
    BY <2>1, BothNone
  <2>6. WithLast(fr, u) = <<u>>
    BY <2>2 DEF WithLast
  <2> HIDE DEF fr, u
  <2>7. Yield(b, Start, r) = Put(b, fr, <<>>, u)
    BY <1>1, <1>3 DEF Yield, fr, u
  <2> QED
    BY <2>2, <2>4, <2>5, <2>6, <2>7 DEF Put, u
<1> QED
  BY <1>2, <1>3

\* When the rule has been walked there is the goal.
LEMMA WalkedMeans ==
  ASSUME Denotes(Visits), WInv, MInv
  PROVE  StepYieldsMeaning
<1> SUFFICES ASSUME main = "walk", todo = <<>>, phase = "walk"
             PROVE  StepMeaning = Ok(Level(base))
  BY DEF StepYieldsMeaning
<1>1. seen \in Rules /\ Leads(machine, AbsState, base, <<>>, Config, Goal)
  BY DEF MInv
<1>2. Config = Goal
  BY <1>1, LeadsNothing
<1>3. blocks = <<>> /\ pseudostate = base
  <2>1. blocks = <<>>
    BY ClosesNothing DEF WInv, IInv, TypeOK
  <2> QED
    BY <2>1, OneEntryPerLocation DEF WInv
<1>4. AbsFailed = FALSE /\ AbsFrames = Frames(updates, base, base) /\ base \in {0, 1} /\ base \in Nat
  BY <1>3, WalkFrames DEF WInv, InWalk, WalkMapped, IInv, TypeOK
<1>5. Config = Conf(<<Level(base)>>, <<>>)
  <2>1. AbsFrames = <<Level(base)>>
    BY <1>4, OneFrame, LevelIsLev
  <2> QED
    BY <1>3, <1>4, <2>1 DEF Config
<1>6. StepMeaning \in Results
  BY <1>1, GoalIs DEF WInv, IInv
<1> DEFINE r == StepMeaning
           v == Level(base)
<1>7. Conf(<<v>>, <<>>) = Yield(base, Start, r)
  BY <1>2, <1>5 DEF Goal
<1> HIDE DEF r, v
<1>8. r \in Results
  BY <1>6 DEF r
<1>9. r.st = "ok" /\ r = Ok(r.upd)
  <2>1. Crash # Conf(<<v>>, <<>>)
    BY ConfIs
  <2>2. r.st = "ok"
    BY <1>4, <1>7, <1>8, <2>1, YieldsAtStart
  <2> QED
    BY <1>8, <2>2, ResultFacts
<1>10. <<v>> = <<r.upd>>
  <2>1. Conf(<<v>>, <<>>) = Conf(<<r.upd>>, <<>>)
    BY <1>4, <1>7, <1>8, <1>9, YieldsAtStart
  <2>2. Conf(<<v>>, <<>>).fr = <<v>> /\ Conf(<<r.upd>>, <<>>).fr = <<r.upd>>
    BY ConfIs
  <2> QED
    BY <2>1, <2>2
<1>11. v = r.upd
  BY <1>10
<1> QED
  BY <1>9, <1>11 DEF r, v

\* When the step has failed the goal is a failure.
LEMMA FailedMeans ==
  ASSUME Denotes(Visits), WInv, MInv
  PROVE  FailsOnlyIfInconsistent
<1> SUFFICES ASSUME phase = "error"
             PROVE  StepMeaning.st = "fail"
  BY DEF FailsOnlyIfInconsistent
<1>1. main = "walk"
  BY DEF WInv, MainOK
<1>2. /\ seen \in Rules /\ Leads(machine, AbsState, base, todo, Config, Goal)
      /\ todo \in Seq(Items) /\ base \in {0, 1}
  BY <1>1 DEF MInv, WInv, IInv, TypeOK
<1>3. Config = Crash
  BY DEF Config, AbsFailed
<1>4. Goal = Crash
  BY <1>2, <1>3, LeadsCrash
<1> DEFINE r == StepMeaning
<1>5. r \in Results
  BY <1>2, GoalIs DEF WInv, IInv
<1>6. Yield(base, Start, r) = Crash
  BY <1>4 DEF Goal
<1> HIDE DEF r
<1>7. r.st # "ok"
  <2>1. Crash # Conf(<<r.upd>>, <<>>)
    BY ConfIs
  <2> QED
    BY <1>2, <1>5, <1>6, <2>1, YieldsAtStart
<1>8. r.st = "fail"
  BY <1>5, <1>7, ResultFacts
<1> QED
  BY <1>8 DEF r

-----------------------------------------------------------------------------
(* The theorems.                                                           *)

\* Whatever well-typed machine is run and whatever its statements mean, as long
\* as the meanings solve the equations of Unfold: what the walker has still to
\* do leads from the blocks it has open to what the rule means.
THEOREM LeadsToMeaning ==
  ASSUME Denotes(Visits)
  PROVE  WSpec => []MInv
<1>1. WInit => MInv
  BY InitMeans
<1>2. WInv /\ WInv' /\ MInv /\ [WNext]_wvars => MInv'
  BY NextMeans
<1> QED
  BY <1>1, <1>2, WalkerInvariance, PTL DEF WSpec

\* When the walker has walked a rule, the update set is exactly what the rule
\* means in the state the step of the machine started from, whatever the
\* nesting of its blocks, loops, choices and calls.
THEOREM StepsYieldMeaning ==
  ASSUME Denotes(Visits)
  PROVE  WSpec => []StepYieldsMeaning
<1>1. WInv /\ MInv => StepYieldsMeaning
  BY WalkedMeans
<1> QED
  BY <1>1, WalkerInvariance, LeadsToMeaning, PTL

\* The interpreter gives a step up, for updates that clash or an exception, only
\* if the rule has no meaning in the state of the step.
THEOREM FailuresAreReal ==
  ASSUME Denotes(Visits)
  PROVE  WSpec => []FailsOnlyIfInconsistent
<1>1. WInv /\ MInv => FailsOnlyIfInconsistent
  BY FailedMeans
<1> QED
  BY <1>1, WalkerInvariance, LeadsToMeaning, PTL

=============================================================================

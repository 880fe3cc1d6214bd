------------------------------ MODULE NatLemmas ------------------------------
(***************************************************************************)
(* Induction over the natural numbers, stated about sets and functions, so *)
(* that the provers can instantiate it: the least element of a set, the    *)
(* set that holds 0 and every successor, and the sequence of values that a *)
(* start and a step define.                                                *)
(***************************************************************************)
EXTENDS Integers, WellFoundedInduction, TLAPS

\* A set of naturals that is not empty has a least element.
LEMMA LeastOf ==
  ASSUME NEW S \in SUBSET Nat, S # {}
  PROVE  \E m \in S : \A k \in S : m <= k
<1> DEFINE R == OpToRel(<, Nat)
<1>1. IsWellFoundedOn(R, Nat)
  BY NatLessThanWellFounded
<1>2. \A j, k \in Nat : <<k, j>> \in R <=> k < j
  BY DEF OpToRel
<1> HIDE DEF R
<1>3. PICK m \in S : \A k \in S : ~ (<<k, m>> \in R)
  BY <1>1, WFMin, Zenon
<1>4. \A k \in S : ~ (k < m)
  BY <1>2, <1>3
<1>5. \A k \in S : m <= k
  BY <1>4
<1> QED
  BY <1>5

\* A set of numbers up to n that is not empty has a greatest element.
LEMMA NatMax ==
  ASSUME NEW n \in Nat, NEW T, T \subseteq 1 .. n, T # {}
  PROVE  \E m \in T : \A k \in T : k <= m
<1> DEFINE U == {n - k : k \in T}
<1>1. U \subseteq Nat /\ U # {}
  <2>1. \A k \in T : k \in Nat /\ n - k \in Nat
    OBVIOUS
  <2>2. PICK k \in T : TRUE
    OBVIOUS
  <2>3. n - k \in U
    BY <2>2
  <2> QED
    BY <2>1, <2>3
<1>2. PICK m \in U : \A k \in U : m <= k
  BY <1>1, LeastOf
<1>3. PICK t \in T : m = n - t
  BY <1>2
<1>4. \A k \in T : n - t <= n - k
  BY <1>2, <1>3
<1> QED
  BY <1>4

\* A set that holds 0 and the successor of each of its numbers holds them all.
LEMMA SetInduction ==
  ASSUME NEW S, 0 \in S, \A n \in Nat : n \in S => n + 1 \in S
  PROVE  \A n \in Nat : n \in S
<1> SUFFICES ASSUME NEW x \in Nat, x \notin S
             PROVE  FALSE
  OBVIOUS
<1> DEFINE W == Nat \ S
<1>1. W \in SUBSET Nat /\ W # {}
  OBVIOUS
<1>2. PICK m \in W : \A k \in W : m <= k
  BY <1>1, LeastOf
<1>3. m \in Nat /\ m \notin S /\ m # 0
  BY <1>2
<1>4. m - 1 \in Nat
  BY <1>3
<1>5. m - 1 \notin W
  BY <1>2, <1>3, <1>4
<1>6. (m - 1) + 1 \in S
  BY <1>4, <1>5
<1> QED
  BY <1>3, <1>6

\* Finite approximations of the sequence that starts with a and goes on by F.
Approx(a, F, V, n, g) ==
  /\ g \in [0 .. n -> V]
  /\ g[0] = a
  /\ \A i \in 0 .. n : i # 0 => g[i] = F[g[i - 1]]

\* The whole sequence.
Iterates(a, F, V, f) ==
  f \in [Nat -> V] /\ f[0] = a /\ \A n \in Nat : f[n + 1] = F[f[n]]

\* There is a sequence that starts with a and goes on by F.
LEMMA Iteration ==
  ASSUME NEW V, NEW a \in V, NEW F \in [V -> V]
  PROVE  \E f : Iterates(a, F, V, f)
<1> DEFINE S == {n \in Nat : \E g : Approx(a, F, V, n, g)}
<1>1. 0 \in S
  <2> DEFINE g == [i \in 0 .. 0 |-> a]
  <2>1. Approx(a, F, V, 0, g)
    BY DEF Approx
  <2> QED
    BY <2>1
<1>2. ASSUME NEW n \in Nat, n \in S
      PROVE  n + 1 \in S
  <2>1. PICK g : Approx(a, F, V, n, g)
    BY <1>2
  <2> DEFINE h == [i \in 0 .. n + 1 |-> IF i = n + 1 THEN F[g[n]] ELSE g[i]]
  <2>2. \A i \in 0 .. n : h[i] = g[i]
    OBVIOUS
  <2>3. h[n + 1] = F[g[n]]
    OBVIOUS
  <2>4. \A i \in 0 .. n : g[i] \in V
    BY <2>1 DEF Approx
  <2>5. h \in [0 .. n + 1 -> V]
    BY <2>4
  <2>6. h[0] = a
    BY <2>1, <2>2 DEF Approx
  <2> HIDE DEF h
  <2>7. ASSUME NEW i \in 0 .. n + 1, i # 0
        PROVE  h[i] = F[h[i - 1]]
    <3>1. CASE i = n + 1
      <4>1. i - 1 = n /\ n \in 0 .. n
        BY <3>1
      <4> QED
        BY <3>1, <4>1, <2>2, <2>3
    <3>2. CASE i # n + 1
      <4>1. i \in 0 .. n /\ i - 1 \in 0 .. n
        BY <2>7, <3>2
      <4>2. g[i] = F[g[i - 1]]
        BY <4>1, <2>1, <2>7 DEF Approx
      <4> QED
        BY <4>1, <4>2, <2>2
    <3> QED
      BY <3>1, <3>2
  <2>8. Approx(a, F, V, n + 1, h)
    BY <2>5, <2>6, <2>7 DEF Approx
  <2> QED
    BY <2>8
<1>3. \A n \in Nat : n \in S
  <2> HIDE DEF S
  <2> QED
    BY <1>1, <1>2, SetInduction
<1> DEFINE A == [n \in Nat |-> CHOOSE g : Approx(a, F, V, n, g)]
<1>4. \A n \in Nat : Approx(a, F, V, n, A[n])
  BY <1>3
<1> HIDE DEF A, S
<1>5. ASSUME NEW n \in Nat
      PROVE  \A i \in Nat : i \in 0 .. n => A[n + 1][i] = A[n][i]
  <2> DEFINE T == {i \in Nat : i \in 0 .. n => A[n + 1][i] = A[n][i]}
  <2>1. 0 \in T
    BY <1>4 DEF Approx
  <2>2. ASSUME NEW i \in Nat, i \in T
        PROVE  i + 1 \in T
    <3> SUFFICES ASSUME i + 1 \in 0 .. n
                 PROVE  A[n + 1][i + 1] = A[n][i + 1]
      OBVIOUS
    <3>1. i \in 0 .. n /\ i + 1 \in 0 .. n + 1 /\ i + 1 # 0 /\ (i + 1) - 1 = i
      OBVIOUS
    <3>2. A[n + 1][i] = A[n][i]
      BY <2>2, <3>1
    <3>3. A[n][i + 1] = F[A[n][i]]
      <4>1. Approx(a, F, V, n, A[n])
        BY <1>4
      <4>2. \A j \in 0 .. n : j # 0 => A[n][j] = F[A[n][j - 1]]
        BY <4>1 DEF Approx
      <4> QED
        BY <4>2, <3>1
    <3>4. A[n + 1][i + 1] = F[A[n + 1][i]]
      <4>1. Approx(a, F, V, n + 1, A[n + 1])
        BY <1>4
      <4>2. \A j \in 0 .. n + 1 : j # 0 => A[n + 1][j] = F[A[n + 1][j - 1]]
        BY <4>1 DEF Approx
      <4> QED
        BY <4>2, <3>1
    <3> QED
      BY <3>2, <3>3, <3>4
  <2>3. \A i \in Nat : i \in T
    <3> HIDE DEF T
    <3> QED
      BY <2>1, <2>2, SetInduction
  <2> QED
    BY <2>3
<1> DEFINE f == [n \in Nat |-> A[n][n]]
<1>6. f \in [Nat -> V]
  <2>1. \A n \in Nat : n \in 0 .. n
    OBVIOUS
  <2> QED
    BY <1>4, <2>1 DEF Approx
<1>7. f[0] = a
  BY <1>4 DEF Approx
<1>8. ASSUME NEW n \in Nat
      PROVE  f[n + 1] = F[f[n]]
  <2>1. n + 1 \in Nat /\ n + 1 \in 0 .. n + 1 /\ n + 1 # 0 /\ (n + 1) - 1 = n /\ n \in 0 .. n
    OBVIOUS
  <2>2. Approx(a, F, V, n + 1, A[n + 1])
    BY <1>4, <2>1
  <2>3. A[n + 1][n + 1] = F[A[n + 1][n]]
    BY <2>1, <2>2 DEF Approx
  <2>4. A[n + 1][n] = A[n][n]
    BY <1>5, <2>1
  <2> QED
    BY <2>1, <2>3, <2>4
<1> QED
  BY <1>6, <1>7, <1>8 DEF Iterates

\* r starts with a, and goes on by G, which knows the place.
Recursive(V, a, N, G, r) ==
  /\ r \in [0 .. N -> V]
  /\ r = [n \in 0 .. N |-> IF n = 0 THEN a ELSE G[<<n, r[n - 1]>>]]

\* A function that is defined by recursion exists.
LEMMA Recursion ==
  ASSUME NEW V, NEW a \in V, NEW N \in Nat, NEW G \in [(1 .. N) \X V -> V]
  PROVE  \E r : Recursive(V, a, N, G, r)
<1> DEFINE W == Nat \X V
           F == [p \in W |-> <<p[1] + 1, IF p[1] < N THEN G[<<p[1] + 1, p[2]>>] ELSE p[2]>>]
<1>1. ASSUME NEW p \in W
      PROVE  F[p] \in W
  <2>1. p[1] \in Nat /\ p[2] \in V
    OBVIOUS
  <2>2. p[1] < N => <<p[1] + 1, p[2]>> \in (1 .. N) \X V
    BY <2>1
  <2>3. (IF p[1] < N THEN G[<<p[1] + 1, p[2]>>] ELSE p[2]) \in V
    BY <2>1, <2>2
  <2>4. F[p] = <<p[1] + 1, IF p[1] < N THEN G[<<p[1] + 1, p[2]>>] ELSE p[2]>>
    OBVIOUS
  <2> QED
    BY <2>1, <2>3, <2>4
<1>2. \A n \in Nat, v \in V :
        /\ F[<<n, v>>][1] = n + 1
        /\ F[<<n, v>>][2] = IF n < N THEN G[<<n + 1, v>>] ELSE v
  OBVIOUS
<1>3. F \in [W -> W] /\ <<0, a>> \in W
  BY <1>1
<1> HIDE DEF F
<1>4. PICK f : Iterates(<<0, a>>, F, W, f)
  BY <1>3, Iteration
<1>5. /\ f \in [Nat -> W] /\ f[0] = <<0, a>> /\ \A n \in Nat : f[n + 1] = F[f[n]]
  BY <1>4 DEF Iterates
<1>6. \A n \in Nat : f[n][1] \in Nat /\ f[n][2] \in V /\ f[n] = <<f[n][1], f[n][2]>>
  BY <1>5
<1> HIDE DEF W
<1>7. \A n \in Nat : f[n][1] = n
  <2> DEFINE S == {n \in Nat : f[n][1] = n}
  <2>1. 0 \in S
    BY <1>5
  <2>2. ASSUME NEW n \in Nat, n \in S
        PROVE  n + 1 \in S
    <3>1. f[n] = <<n, f[n][2]>> /\ f[n][2] \in V
      BY <1>6, <2>2
    <3>2. f[n + 1] = F[<<n, f[n][2]>>]
      BY <1>5, <3>1
    <3> DEFINE v == f[n][2]
    <3> HIDE DEF v
    <3>3. F[<<n, v>>][1] = n + 1
      BY <1>2, <3>1 DEF v
    <3>4. f[n + 1][1] = n + 1
      BY <3>2, <3>3 DEF v
    <3> QED
      BY <3>4
  <2>3. \A n \in Nat : n \in S
    <3> HIDE DEF S
    <3> QED
      BY <2>1, <2>2, SetInduction
  <2> QED
    BY <2>3
<1> DEFINE r == [n \in 0 .. N |-> f[n][2]]
<1>8. r \in [0 .. N -> V] /\ \A n \in 0 .. N : r[n] = f[n][2]
  BY <1>6
<1>9. r = [n \in 0 .. N |-> r[n]]
  OBVIOUS
<1> HIDE DEF r
<1>10. ASSUME NEW n \in 0 .. N
       PROVE  r[n] = IF n = 0 THEN a ELSE G[<<n, r[n - 1]>>]
  <2>1. CASE n = 0
    BY <1>5, <1>8, <2>1
  <2>2. CASE n # 0
    <3> DEFINE k == n - 1
    <3>1. k \in Nat /\ k \in 0 .. N /\ k + 1 = n /\ k < N
      BY <2>2
    <3> HIDE DEF k
    <3>2. f[k] = <<k, f[k][2]>> /\ f[k][2] \in V
      BY <1>6, <1>7, <3>1
    <3>3. f[k + 1] = F[<<k, f[k][2]>>]
      BY <1>5, <3>1, <3>2
    <3>4. f[k + 1][2] = G[<<k + 1, f[k][2]>>]
      BY <1>2, <3>1, <3>2, <3>3
    <3>5. r[n] = G[<<n, r[k]>>]
      BY <1>8, <3>1, <3>4
    <3> QED
      BY <2>2, <3>5 DEF k
  <2> QED
    BY <2>1, <2>2
<1>11. r = [n \in 0 .. N |-> IF n = 0 THEN a ELSE G[<<n, r[n - 1]>>]]
  BY <1>9, <1>10
<1> QED
  BY <1>8, <1>11 DEF Recursive

=============================================================================

--------------------------- MODULE UpdateSetProofs ---------------------------
(***************************************************************************)
(* Proofs about UpdateSet, for every set of locations and values, either   *)
(* pseudostate of the main loop and any depth of nesting.                  *)
(***************************************************************************)
EXTENDS UpdateSet, NatLemmas

-----------------------------------------------------------------------------
(* The linked hash map.                                                    *)

Unique(list) ==
  \A i, j \in DOMAIN list :
    list[i].loc = list[j].loc /\ list[i].state = list[j].state => i = j

\* A sequence built by a function constructor is a sequence (the shape
\* pp_hashmap_delete and the in-place case of pp_hashmap_set produce).
LEMMA SeqByFunction ==
  ASSUME NEW S, NEW n \in Nat, NEW f, f \in [1 .. n -> S]
  PROVE  f \in Seq(S) /\ Len(f) = n /\ DOMAIN f = 1 .. n
<1>1. f \in Seq(S)
  BY SMT
<1> QED
  BY <1>1, SMT

\* Unlinking a bucket (pp_hashmap_delete in the merge loops) keeps the other
\* buckets in order.
LEMMA DeleteFacts ==
  ASSUME NEW list \in Seq(Update), NEW k \in 1 .. Len(list)
  PROVE  LET r == hashmap_delete(list, k) IN
         /\ r \in Seq(Update)
         /\ Len(r) = Len(list) - 1
         /\ DOMAIN r = 1 .. Len(list) - 1
         /\ \A i \in DOMAIN r : r[i] = IF i < k THEN list[i] ELSE list[i + 1]
<1> DEFINE r == hashmap_delete(list, k)
<1>1. Len(list) - 1 \in Nat
  OBVIOUS
<1>2. r \in [1 .. Len(list) - 1 -> Update]
  BY DEF hashmap_delete
<1>3. r \in Seq(Update) /\ Len(r) = Len(list) - 1 /\ DOMAIN r = 1 .. Len(list) - 1
  BY <1>1, <1>2, SeqByFunction
<1> QED
  BY <1>3 DEF hashmap_delete

\* pp_hashmap_set either replaces the one bucket with that key or links a new
\* one at the tail; every bucket of the result is the new update or an old one.
LEMMA SetFacts ==
  ASSUME NEW list \in Seq(Update), NEW u \in Update
  PROVE  LET r == hashmap_set(list, u) IN
         /\ r \in Seq(Update)
         /\ Has(list, u.loc, u.state) =>
              /\ Len(r) = Len(list)
              /\ \A i \in 1 .. Len(list) :
                   r[i] = IF list[i].loc = u.loc /\ list[i].state = u.state
                            THEN u ELSE list[i]
         /\ ~ Has(list, u.loc, u.state) =>
              /\ Len(r) = Len(list) + 1
              /\ r[Len(list) + 1] = u
              /\ \A i \in 1 .. Len(list) : r[i] = list[i]
<1> DEFINE r == hashmap_set(list, u)
<1>1. CASE Has(list, u.loc, u.state)
  <2>1. r \in [1 .. Len(list) -> Update]
    BY <1>1 DEF hashmap_set
  <2>2. r \in Seq(Update) /\ Len(r) = Len(list)
    BY <2>1, SeqByFunction
  <2> QED
    BY <1>1, <2>2 DEF hashmap_set
<1>2. CASE ~ Has(list, u.loc, u.state)
  BY <1>2 DEF hashmap_set
<1> QED
  BY <1>1, <1>2

\* Keys stay unique when a bucket is unlinked.
LEMMA DeleteUnique ==
  ASSUME NEW list \in Seq(Update), NEW k \in 1 .. Len(list), Unique(list)
  PROVE  Unique(hashmap_delete(list, k))
<1> DEFINE r == hashmap_delete(list, k)
<1>1. SUFFICES ASSUME NEW i \in DOMAIN r, NEW j \in DOMAIN r,
                      r[i].loc = r[j].loc, r[i].state = r[j].state
               PROVE  i = j
  BY DEF Unique
<1>2. /\ DOMAIN r = 1 .. Len(list) - 1
      /\ \A n \in DOMAIN r : r[n] = IF n < k THEN list[n] ELSE list[n + 1]
  BY DeleteFacts
<1> DEFINE pos(n) == IF n < k THEN n ELSE n + 1
<1>3. /\ pos(i) \in DOMAIN list /\ r[i] = list[pos(i)]
      /\ pos(j) \in DOMAIN list /\ r[j] = list[pos(j)]
  BY <1>2
<1>4. pos(i) = pos(j)
  BY <1>1, <1>3 DEF Unique
<1> QED
  BY <1>2, <1>4

\* Keys stay unique when an update is filed with pp_hashmap_set.
LEMMA SetUnique ==
  ASSUME NEW list \in Seq(Update), NEW u \in Update, Unique(list)
  PROVE  Unique(hashmap_set(list, u))
<1> DEFINE r == hashmap_set(list, u)
<1>1. SUFFICES ASSUME NEW i \in DOMAIN r, NEW j \in DOMAIN r,
                      r[i].loc = r[j].loc, r[i].state = r[j].state
               PROVE  i = j
  BY DEF Unique
<1>2. CASE Has(list, u.loc, u.state)
  <2>1. /\ r \in Seq(Update)
        /\ Len(r) = Len(list)
        /\ \A n \in 1 .. Len(list) :
             r[n] = IF list[n].loc = u.loc /\ list[n].state = u.state
                      THEN u ELSE list[n]
    BY <1>2, SetFacts
  <2> HIDE DEF r
  <2>2. i \in DOMAIN list /\ j \in DOMAIN list
    BY <2>1
  <2>3. list[i].loc = r[i].loc /\ list[i].state = r[i].state
    BY <2>1
  <2>4. list[j].loc = r[j].loc /\ list[j].state = r[j].state
    BY <2>1
  <2> QED
    BY <1>1, <2>2, <2>3, <2>4 DEF Unique
<1>3. CASE ~ Has(list, u.loc, u.state)
  <2>1. /\ r \in Seq(Update)
        /\ Len(r) = Len(list) + 1
        /\ r[Len(list) + 1] = u
        /\ \A n \in 1 .. Len(list) : r[n] = list[n]
    BY <1>3, SetFacts
  <2> HIDE DEF r
  <2>2. \A n \in 1 .. Len(list) : ~ (r[n].loc = u.loc /\ r[n].state = u.state)
    BY <1>3, <2>1 DEF Has
  <2> QED
    BY <1>1, <2>1, <2>2 DEF Unique
<1> QED
  BY <1>2, <1>3

\* What the properties need of pp_hashmap_set: the keys of the old buckets stay
\* where they are, and at most one new bucket appears, at the tail.
LEMMA SetKeys ==
  ASSUME NEW list \in Seq(Update), NEW u \in Update
  PROVE  /\ hashmap_set(list, u) \in Seq(Update)
         /\ \/ Len(hashmap_set(list, u)) = Len(list)
            \/ /\ Len(hashmap_set(list, u)) = Len(list) + 1
               /\ hashmap_set(list, u)[Len(list) + 1] = u
         /\ \A i \in 1 .. Len(list) :
              /\ hashmap_set(list, u)[i].loc = list[i].loc
              /\ hashmap_set(list, u)[i].state = list[i].state
<1> SUFFICES ASSUME NEW r, r = hashmap_set(list, u)
             PROVE  /\ r \in Seq(Update)
                    /\ Len(r) = Len(list) \/ (Len(r) = Len(list) + 1 /\ r[Len(list) + 1] = u)
                    /\ \A i \in 1 .. Len(list) :
                         r[i].loc = list[i].loc /\ r[i].state = list[i].state
  OBVIOUS
<1>1. CASE Has(list, u.loc, u.state)
  <2>1. /\ r \in Seq(Update)
        /\ Len(r) = Len(list)
        /\ \A i \in 1 .. Len(list) :
             r[i] = IF list[i].loc = u.loc /\ list[i].state = u.state
                      THEN u ELSE list[i]
    <3>1. /\ hashmap_set(list, u) \in Seq(Update)
          /\ Len(hashmap_set(list, u)) = Len(list)
          /\ \A i \in 1 .. Len(list) :
               hashmap_set(list, u)[i] =
                 IF list[i].loc = u.loc /\ list[i].state = u.state THEN u ELSE list[i]
      BY <1>1, SetFacts
    <3> QED
      BY <3>1
  <2>2. ASSUME NEW i \in 1 .. Len(list)
        PROVE  r[i].loc = list[i].loc /\ r[i].state = list[i].state
    <3>1. r[i] = IF list[i].loc = u.loc /\ list[i].state = u.state THEN u ELSE list[i]
      BY <2>1
    <3>2. CASE list[i].loc = u.loc /\ list[i].state = u.state
      BY <3>1, <3>2
    <3>3. CASE ~ (list[i].loc = u.loc /\ list[i].state = u.state)
      BY <3>1, <3>3
    <3> QED
      BY <3>2, <3>3
  <2> QED
    BY <2>1, <2>2
<1>2. CASE ~ Has(list, u.loc, u.state)
  <2>1. /\ r \in Seq(Update)
        /\ Len(r) = Len(list) + 1
        /\ r[Len(list) + 1] = u
        /\ \A i \in 1 .. Len(list) : r[i] = list[i]
    BY <1>2 DEF hashmap_set
  <2> QED
    BY <2>1
<1> QED
  BY <1>1, <1>2

-----------------------------------------------------------------------------
(* The inductive invariant.                                                *)

USE UpdateSetAssumption

\* The innermost activation record, and the stack without it.
LEMMA TopFacts ==
  ASSUME TypeOK, blocks # <<>>
  PROVE  /\ Len(blocks) \in Nat \ {0}
         /\ DOMAIN blocks = 1 .. Len(blocks)
         /\ Top \in Block
         /\ Pop \in Seq(Block)
         /\ Len(Pop) = Len(blocks) - 1
         /\ \A i \in 1 .. Len(blocks) - 1 : Pop[i] = blocks[i]
<1>1. blocks \in Seq(Block) /\ Len(blocks) \in Nat \ {0} /\ DOMAIN blocks = 1 .. Len(blocks)
  BY DEF TypeOK
<1> QED
  BY <1>1 DEF Top, Pop

\* The buckets of the list.
LEMMA EntryFacts ==
  ASSUME TypeOK
  PROVE  /\ updates \in Seq(Update) /\ Len(updates) \in Nat
         /\ DOMAIN updates = 1 .. Len(updates)
         /\ \A i \in 1 .. Len(updates) :
              updates[i] \in Update /\ updates[i].loc \in Loc /\ updates[i].state \in Nat
<1>1. updates \in Seq(Update)
  BY DEF TypeOK
<1>2. \A i \in 1 .. Len(updates) : updates[i] \in Update
  BY <1>1
<1> QED
  BY <1>1, <1>2 DEF Update

\* The pseudostate never falls below that of the main loop.
LEMMA StateAboveBase ==
  ASSUME TypeOK, Nesting
  PROVE  pseudostate \in Nat /\ base \in Nat /\ pseudostate >= base
<1>1. CASE blocks = <<>>
  BY <1>1 DEF Nesting, TypeOK
<1>2. CASE blocks # <<>>
  <2>1. Top \in Block /\ Len(blocks) \in DOMAIN blocks
    BY <1>2, TopFacts
  <2>2. Top.outer >= base /\ Top.outer \in Nat /\ Top.forked \in BOOLEAN
    BY <2>1 DEF Nesting, Top, Block
  <2>3. pseudostate = Inner(Top)
    BY <1>2 DEF Nesting
  <2> QED
    BY <2>2, <2>3 DEF Inner, TypeOK
<1> QED
  BY <1>1, <1>2

\* The constructor establishes the invariant.
LEMMA InitIInv == Init => IInv
<1> SUFFICES ASSUME Init PROVE IInv
  OBVIOUS
<1>1. TypeOK
  BY DEF Init, TypeOK
<1>2. ListOrdered /\ UniqueKeys /\ UpdatesHaveEntries /\ StatesInRange
  BY DEF Init, ListOrdered, UniqueKeys, UpdatesHaveEntries, StatesInRange, Merging
<1>3. Nesting
  BY DEF Init, Nesting
<1> QED
  BY <1>1, <1>2, <1>3 DEF IInv, Init

\* add_update files one update under the current pseudostate, the largest.
LEMMA AddUpdateIInv ==
  ASSUME IInv, NEW l \in Loc, NEW v \in Val, add_update(l, v)
  PROVE  IInv'
<1> DEFINE u == [loc |-> l, state |-> pseudostate, val |-> v]
           r == hashmap_set(updates, u)
<1> USE DEF IInv
<1>1. u \in Update /\ u.loc = l /\ u.state = pseudostate
  BY DEF TypeOK, Update
<1>2. r \in Seq(Update) /\ updates' = r /\ updates \in Seq(Update)
  BY <1>1, SetFacts DEF TypeOK, add_update
<1>3. Unique(r)
  BY <1>1, <1>2, SetUnique DEF UniqueKeys, Unique
<1>4. /\ Len(r) = Len(updates) \/ (Len(r) = Len(updates) + 1 /\ r[Len(updates) + 1] = u)
      /\ \A i \in 1 .. Len(updates) :
           r[i].loc = updates[i].loc /\ r[i].state = updates[i].state
  <2> HIDE DEF u, IInv
  <2> QED
    BY <1>1, <1>2, SetKeys
<1> HIDE DEF u, r
<1>5. /\ phase = "walk" /\ phase' = phase /\ cursor' = cursor
      /\ pseudostate' = pseudostate /\ blocks' = blocks /\ seen' = seen
      /\ base' = base /\ function_states' = WithEntry(l)
  BY DEF add_update, Walking
<1>6. TypeOK'
  <2>1. cursor \in 0 .. Len(r)
    BY <1>2, <1>4 DEF TypeOK
  <2> QED
    BY <1>2, <1>5, <2>1 DEF TypeOK, WithEntry
<1>7. ListOrdered'
  <2>1. \A i \in 1 .. Len(updates) : updates[i].state \in Nat /\ updates[i].state <= pseudostate
    BY <1>5, StateAboveBase DEF StatesInRange, Merging, TypeOK, Update
  <2>2. \A i, j \in 1 .. Len(updates) : i <= j => updates[i].state <= updates[j].state
    BY <1>5 DEF ListOrdered, Merging
  <2>3. ASSUME NEW i \in 1 .. Len(r), NEW j \in 1 .. Len(r), i <= j
        PROVE  r[i].state <= r[j].state
    <3> HIDE DEF IInv
    <3>1. pseudostate \in Nat /\ Len(updates) \in Nat
      BY <1>2 DEF IInv, TypeOK
    <3>2. CASE j \in 1 .. Len(updates)
      <4>1. i \in 1 .. Len(updates)
        BY <2>3, <3>2
      <4> QED
        BY <1>4, <2>2, <2>3, <3>2, <4>1
    <3>3. CASE j \notin 1 .. Len(updates)
      <4>1. r[j].state = pseudostate /\ j = Len(updates) + 1
        BY <1>1, <1>4, <3>1, <3>3
      <4>2. i \in 1 .. Len(updates) \/ i = j
        BY <2>3, <3>1, <4>1
      <4> QED
        BY <1>4, <2>1, <3>1, <4>1, <4>2
    <3> QED
      BY <3>2, <3>3
  <2> QED
    BY <1>2, <1>5, <2>3 DEF ListOrdered, Merging
<1>8. UniqueKeys'
  BY <1>2, <1>3 DEF UniqueKeys, Unique
<1>9. UpdatesHaveEntries'
  BY <1>1, <1>2, <1>4, <1>5 DEF UpdatesHaveEntries, WithEntry
<1>10. Nesting'
  BY <1>5 DEF Nesting, Top
<1>11. StatesInRange'
  <2>1. pseudostate \in base .. pseudostate
    BY StateAboveBase
  <2> QED
    BY <1>1, <1>2, <1>4, <1>5, <2>1 DEF StatesInRange, Merging
<1> QED
  BY <1>5, <1>6, <1>7, <1>8, <1>9, <1>10, <1>11

\* One iteration of a merge loop moves the bucket under the cursor to the
\* enclosing block, behind the cursor or onto the bucket that is there.
LEMMA MergeStepIInv ==
  ASSUME IInv, merge_step
  PROVE  IInv'
<1> DEFINE u    == [updates[cursor] EXCEPT !.state = @ - 1]
           rest == hashmap_delete(updates, cursor)
           r    == hashmap_set(rest, u)
<1> USE DEF IInv
<1>1. /\ Merging /\ phase # "error"
      /\ updates \in Seq(Update) /\ cursor \in 1 .. Len(updates)
      /\ updates[cursor].state > pseudostate
  <2> HIDE DEF u, rest, r
  <2>1. Merging /\ cursor > 0 /\ ~ (updates[cursor].state <= pseudostate)
    BY DEF merge_step, OutOfBlock
  <2>2. cursor \in 1 .. Len(updates) /\ pseudostate \in Nat
    BY <2>1, EntryFacts DEF TypeOK
  <2> QED
    BY <2>1, <2>2, EntryFacts DEF Merging
<1>2. /\ pseudostate \in Nat /\ base \in Nat /\ pseudostate >= base
      /\ \A i \in 1 .. Len(updates) :
           /\ updates[i] \in Update
           /\ updates[i].state \in Nat
           /\ updates[i].state >= base
           /\ updates[i].state <= pseudostate + 1
  <2> HIDE DEF u, rest, r
  <2> QED
    BY <1>1, StateAboveBase, EntryFacts DEF StatesInRange
<1>3. u \in Update /\ u.loc = updates[cursor].loc /\ u.state = pseudostate
  <2>1. updates[cursor].state - 1 = pseudostate /\ updates[cursor] \in Update
    <3> HIDE DEF IInv, u, rest, r
    <3> QED
      BY <1>1, <1>2
  <2> QED
    BY <1>2, <2>1 DEF Update
<1>4. /\ rest \in Seq(Update) /\ Len(rest) = Len(updates) - 1
      /\ \A i \in 1 .. Len(updates) - 1 :
           rest[i] = IF i < cursor THEN updates[i] ELSE updates[i + 1]
  BY <1>1, DeleteFacts
<1>5. Unique(rest)
  BY <1>1, DeleteUnique DEF UniqueKeys, Unique
<1> HIDE DEF rest, u
<1>6. Unique(r)
  BY <1>3, <1>4, <1>5, SetUnique
<1>7. /\ r \in Seq(Update)
      /\ Len(r) = Len(rest) \/ (Len(r) = Len(rest) + 1 /\ r[Len(rest) + 1] = u)
      /\ \A i \in 1 .. Len(rest) : r[i].loc = rest[i].loc /\ r[i].state = rest[i].state
  <2> HIDE DEF IInv
  <2> QED
    BY <1>3, <1>4, SetKeys
<1>8. /\ updates' = r /\ cursor' = cursor - 1
      /\ phase' \in {phase, "error"}
      /\ pseudostate' = pseudostate /\ blocks' = blocks /\ seen' = seen
      /\ function_states' = function_states /\ base' = base
  BY DEF merge_step, rest, u
<1> HIDE DEF r
<1>9. \A i \in 1 .. Len(updates) :
        /\ i < cursor => /\ i \in 1 .. Len(r)
                         /\ r[i].loc = updates[i].loc /\ r[i].state = updates[i].state
        /\ i > cursor => /\ i - 1 \in 1 .. Len(r)
                         /\ r[i - 1].loc = updates[i].loc /\ r[i - 1].state = updates[i].state
  <2>1. \A i \in 1 .. Len(updates) - 1 :
          /\ i \in 1 .. Len(r)
          /\ r[i].loc = rest[i].loc /\ r[i].state = rest[i].state
    BY <1>1, <1>4, <1>7
  <2> HIDE DEF IInv
  <2>2. \A i \in 1 .. Len(updates) : i < cursor =>
          i \in 1 .. Len(updates) - 1 /\ rest[i] = updates[i]
    BY <1>1, <1>4
  <2>3. \A i \in 1 .. Len(updates) : i > cursor =>
          i - 1 \in 1 .. Len(updates) - 1 /\ rest[i - 1] = updates[i]
    BY <1>1, <1>4
  <2> QED
    BY <2>1, <2>2, <2>3
<1>10. \A i \in 1 .. Len(r) :
         \/ i < cursor /\ i \in 1 .. Len(updates)
         \/ i >= cursor /\ i + 1 \in 1 .. Len(updates)
         \/ i = Len(updates) /\ r[i] = u
  BY <1>1, <1>4, <1>7
<1>11. \A i \in 1 .. Len(r) :
         /\ i < cursor => r[i].loc = updates[i].loc /\ r[i].state = updates[i].state
         /\ i >= cursor => /\ r[i].state = pseudostate
                           /\ \E k \in 1 .. Len(updates) : r[i].loc = updates[k].loc
  <2>1. \A k \in 1 .. Len(updates) : k > cursor => updates[k].state = pseudostate
    BY <1>1 DEF ListOrdered
  <2>2. SUFFICES ASSUME NEW i \in 1 .. Len(r)
                 PROVE  /\ i < cursor => r[i].loc = updates[i].loc /\ r[i].state = updates[i].state
                        /\ i >= cursor => /\ r[i].state = pseudostate
                                          /\ \E k \in 1 .. Len(updates) : r[i].loc = updates[k].loc
    OBVIOUS
  <2>3. CASE i < cursor
    BY <1>1, <1>9, <2>3
  <2>4. CASE i >= cursor /\ i + 1 \in 1 .. Len(updates)
    <3>1. r[i].loc = updates[i + 1].loc /\ r[i].state = updates[i + 1].state
      BY <1>1, <1>9, <2>4
    <3> QED
      BY <1>1, <2>1, <2>4, <3>1
  <2>5. CASE i = Len(updates) /\ r[i] = u
    BY <1>1, <1>3, <2>5
  <2> QED
    BY <1>1, <1>10, <2>3, <2>4, <2>5
<1>12. TypeOK'
  <2>1. cursor - 1 \in 0 .. Len(r)
    BY <1>1, <1>4, <1>7
  <2> QED
    BY <1>1, <1>7, <1>8, <2>1 DEF TypeOK, Merging
<1>13. ListOrdered'
  <2>1. \A i, j \in 1 .. cursor - 1 : i <= j => updates[i].state <= updates[j].state
    BY <1>1 DEF ListOrdered
  <2>2. cursor - 1 <= Len(r)
    BY <1>1, <1>4, <1>7
  <2>3. \A i, j \in 1 .. cursor - 1 : i <= j => r[i].state <= r[j].state
    <3>1. \A i \in 1 .. cursor - 1 : i \in 1 .. Len(r) /\ i < cursor
      BY <1>1, <1>7, <2>2
    <3> QED
      BY <1>11, <2>1, <3>1
  <2>4. \A i \in (cursor - 1) + 1 .. Len(r) : r[i].state = pseudostate
    BY <1>1, <1>7, <1>11
  <2> QED
    BY <1>1, <1>8, <2>3, <2>4 DEF ListOrdered, Merging
<1>14. UniqueKeys'
  BY <1>6, <1>8 DEF UniqueKeys, Unique
<1>15. UpdatesHaveEntries'
  BY <1>1, <1>7, <1>8, <1>11, <1>10 DEF UpdatesHaveEntries
<1>16. Nesting'
  BY <1>8 DEF Nesting, Top
<1>17. StatesInRange'
  <2> HIDE DEF IInv
  <2>1. ASSUME NEW i \in 1 .. Len(r)
        PROVE  r[i].state \in base .. pseudostate + 1
    <3>1. CASE i < cursor
      <4>1. i \in 1 .. Len(updates) /\ r[i].state = updates[i].state
        BY <1>1, <1>11, <3>1
      <4> QED
        BY <1>2, <4>1
    <3>2. CASE i >= cursor
      BY <1>2, <1>11, <3>2
    <3> QED
      BY <1>1, <3>1, <3>2
  <2>2. phase' # "error" => Merging'
    BY <1>1, <1>8 DEF Merging
  <2> QED
    BY <1>7, <1>8, <2>1, <2>2 DEF StatesInRange
<1> QED
  BY <1>1, <1>8, <1>12, <1>13, <1>14, <1>15, <1>16, <1>17 DEF Merging

\* What get_function_value returns is a value.
LEMMA ReadIsValue ==
  ASSUME TypeOK, NEW l \in Loc
  PROVE  FunctionValue(l) \in Val
<1>1. CASE l \notin DOMAIN function_states
  BY <1>1 DEF FunctionValue
<1>2. CASE l \in DOMAIN function_states /\ VisibleStates(l) = {}
  BY <1>2 DEF FunctionValue, TypeOK
<1>3. CASE l \in DOMAIN function_states /\ VisibleStates(l) # {}
  <2> DEFINE s == CHOOSE t \in VisibleStates(l) : \A r \in VisibleStates(l) : r <= t
             i == CHOOSE k \in DOMAIN updates : updates[k].loc = l /\ updates[k].state = s
  <2>1. VisibleStates(l) \subseteq 1 .. pseudostate /\ pseudostate \in Nat
    BY DEF VisibleStates, TypeOK
  <2>2. \E t \in VisibleStates(l) : \A r \in VisibleStates(l) : r <= t
    BY <1>3, <2>1, NatMax
  <2>3. s \in VisibleStates(l)
    BY <2>2
  <2> HIDE DEF s
  <2>4. \E k \in DOMAIN updates : updates[k].loc = l /\ updates[k].state = s
    BY <2>3 DEF VisibleStates, Has
  <2>5. i \in DOMAIN updates
    BY <2>4
  <2>6. updates[i].val \in Val
    <3> HIDE DEF i
    <3>1. updates[i] \in Update
      BY <2>5, EntryFacts
    <3> QED
      BY <3>1 DEF Update
  <2>7. FunctionValue(l) = updates[i].val
    BY <1>3 DEF FunctionValue, s
  <2> QED
    BY <2>6, <2>7
<1> QED
  BY <1>1, <1>2, <1>3

\* Reading changes nothing but what has been seen.
LEMMA ReadIInv ==
  ASSUME IInv, NEW l \in Loc, get_function_value(l)
  PROVE  IInv'
<1>1. /\ seen' \in Val
      /\ UNCHANGED <<base, function_states, updates, pseudostate, blocks, phase, cursor>>
  BY ReadIsValue DEF get_function_value, IInv
<1> QED
  BY <1>1 DEF IInv, TypeOK, ListOrdered, UniqueKeys, UpdatesHaveEntries, Nesting,
              StatesInRange, Merging, Top

\* A refused update leaves the update set as it is.
LEMMA ConflictIInv ==
  ASSUME IInv, NEW l \in Loc, add_update_conflict(l)
  PROVE  IInv'
<1> USE DEF IInv
<1>1. /\ function_states' = WithEntry(l) /\ phase' = "error"
      /\ UNCHANGED <<base, updates, pseudostate, blocks, cursor, seen>>
  BY DEF add_update_conflict
<1>2. TypeOK'
  BY <1>1 DEF TypeOK, WithEntry
<1>3. ListOrdered' /\ StatesInRange'
  BY <1>1 DEF ListOrdered, StatesInRange
<1>4. UniqueKeys' /\ UpdatesHaveEntries'
  BY <1>1 DEF UniqueKeys, UpdatesHaveEntries, WithEntry
<1>5. Nesting'
  BY <1>1 DEF Nesting, Top
<1> QED
  BY <1>1, <1>2, <1>3, <1>4, <1>5

\* Entering a block: a new activation record, and a fork if the kinds differ.
LEMMA EnterIInv ==
  ASSUME IInv, NEW forked \in BOOLEAN,
         NEW kind \in {"seq", "par", "iterate", "round"},
         kind = "round" => forked /\ blocks # <<>>,
         phase = "walk", Enter(NewBlock(kind, forked)), Fork(forked),
         UNCHANGED <<base, function_states, updates, phase, cursor, seen>>
  PROVE  IInv'
<1> DEFINE b == NewBlock(kind, forked)
<1> USE DEF IInv
<1>1. /\ pseudostate \in Nat /\ pseudostate >= base /\ base \in Nat
      /\ b \in Block /\ b.outer = pseudostate /\ b.forked = forked /\ b.kind = kind
  BY StateAboveBase DEF NewBlock, Block
<1>2. blocks \in Seq(Block) /\ blocks' = Append(blocks, b)
  BY DEF Enter, TypeOK
<1> HIDE DEF b
<1>3. /\ Len(blocks') = Len(blocks) + 1 /\ blocks' \in Seq(Block)
      /\ blocks'[Len(blocks) + 1] = b
      /\ \A i \in 1 .. Len(blocks) : blocks'[i] = blocks[i]
      /\ Len(blocks) \in Nat /\ DOMAIN blocks = 1 .. Len(blocks)
      /\ DOMAIN (blocks') = 1 .. Len(blocks) + 1
      /\ blocks = <<>> <=> Len(blocks) = 0
  BY <1>1, <1>2
<1>4. pseudostate' = Inner(b) /\ pseudostate' \in Nat /\ pseudostate' >= pseudostate
  BY <1>1 DEF Fork, Inner
<1>5. TypeOK'
  BY <1>3, <1>4 DEF TypeOK
<1>6. ListOrdered' /\ UniqueKeys' /\ UpdatesHaveEntries'
  BY DEF ListOrdered, UniqueKeys, UpdatesHaveEntries, Merging
<1>7. StatesInRange'
  <2>1. \A i \in DOMAIN updates : updates[i].state \in base .. pseudostate
    BY DEF StatesInRange, Merging
  <2> QED
    BY <1>1, <1>4, <2>1 DEF StatesInRange, Merging
<1>8. Nesting'
  <2> HIDE DEF IInv
  <2>0. Nesting
    BY DEF IInv
  <2>1. Top' = b /\ blocks' # <<>>
    BY <1>3 DEF Top
  <2>2. blocks'[1].outer = base /\ blocks'[1].kind # "round"
    <3>1. CASE blocks = <<>>
      BY <1>1, <1>3, <3>1, <2>0 DEF Nesting
    <3>2. CASE blocks # <<>>
      BY <1>3, <3>2, <2>0 DEF Nesting
    <3> QED
      BY <3>1, <3>2
  <2>3. ASSUME NEW i \in 1 .. Len(blocks) + 1
        PROVE  /\ blocks'[i].outer >= base
               /\ blocks'[i].kind = "round" => blocks'[i].forked
    BY <1>1, <1>3, <2>0 DEF Nesting
  <2>4. ASSUME NEW i \in 1 .. Len(blocks)
        PROVE  blocks'[i + 1].outer = Inner(blocks'[i])
    <3>1. CASE i = Len(blocks)
      <4>1. blocks'[i + 1] = b /\ blocks'[i] = Top /\ blocks # <<>>
        BY <1>3, <3>1 DEF Top
      <4> QED
        BY <1>1, <4>1, <2>0 DEF Nesting
    <3>2. CASE i < Len(blocks)
      BY <1>3, <3>2, <2>0 DEF Nesting
    <3>3. i = Len(blocks) \/ i < Len(blocks)
      <4>1. Len(blocks) \in Nat
        BY <1>2
      <4> QED
        BY <4>1
    <3> QED
      BY <3>1, <3>2, <3>3
  <2>5. \A i \in DOMAIN (blocks') :
          /\ blocks'[i].outer >= base
          /\ blocks'[i].kind = "round" => blocks'[i].forked
    BY <1>3, <2>3
  <2>6. \A i \in DOMAIN (blocks') :
          i + 1 \in DOMAIN (blocks') => blocks'[i + 1].outer = Inner(blocks'[i])
    BY <1>3, <2>4
  <2>7. pseudostate' = IF blocks' = <<>> THEN base ELSE Inner(Top')
    BY <1>4, <2>1
  <2> QED
    BY <2>2, <2>5, <2>6, <2>7 DEF Nesting
<1> QED
  BY <1>5, <1>6, <1>7, <1>8

\* The records below the innermost one are nested in the pseudostate in which
\* the innermost block was entered.
LEMMA PopNesting ==
  ASSUME TypeOK, Nesting, blocks # <<>>,
         blocks' \in Seq(Block), Len(blocks') = Len(blocks) - 1,
         \A i \in 1 .. Len(blocks) - 1 :
           /\ blocks'[i].outer = blocks[i].outer
           /\ blocks'[i].forked = blocks[i].forked
           /\ blocks'[i].kind = blocks[i].kind,
         pseudostate' = Top.outer, base' = base
  PROVE  Nesting'
<1>1. /\ Len(blocks) \in Nat \ {0} /\ DOMAIN blocks = 1 .. Len(blocks)
      /\ DOMAIN (blocks') = 1 .. Len(blocks) - 1
      /\ blocks' = <<>> <=> Len(blocks) = 1
  BY TopFacts
<1>2. \A i \in 1 .. Len(blocks) - 1 : Inner(blocks'[i]) = Inner(blocks[i])
  BY DEF Inner
<1>3. \A i \in DOMAIN (blocks') :
        /\ blocks'[i].outer >= base
        /\ blocks'[i].kind = "round" => blocks'[i].forked
  BY <1>1 DEF Nesting
<1>4. \A i \in DOMAIN (blocks') :
        i + 1 \in DOMAIN (blocks') => blocks'[i + 1].outer = Inner(blocks'[i])
  BY <1>1, <1>2 DEF Nesting
<1>5. blocks' # <<>> => blocks'[1].outer = base /\ blocks'[1].kind # "round"
  BY <1>1 DEF Nesting
<1>6. pseudostate' = IF blocks' = <<>> THEN base ELSE Inner(Top')
  <2>1. CASE Len(blocks) = 1
    BY <1>1, <2>1 DEF Nesting, Top
  <2>2. CASE Len(blocks) > 1
    <3>1. Top' = blocks'[Len(blocks) - 1] /\ Len(blocks) - 1 \in 1 .. Len(blocks) - 1
      BY <2>2, <1>1 DEF Top
    <3>2. blocks[Len(blocks)].outer = Inner(blocks[Len(blocks) - 1])
      BY <1>1, <3>1 DEF Nesting
    <3> QED
      BY <1>1, <1>2, <2>2, <3>1, <3>2 DEF Top
  <2> QED
    BY <1>1, <2>1, <2>2
<1> QED
  BY <1>3, <1>4, <1>5, <1>6 DEF Nesting, Inner

\* Leaving a block that has not forked.
LEMMA LeaveSharedIInv ==
  ASSUME IInv, blocks # <<>>, ~ Top.forked, blocks' = Pop, phase = "walk",
         UNCHANGED <<base, function_states, updates, pseudostate, phase, cursor, seen>>
  PROVE  IInv'
<1>1. TypeOK' /\ ListOrdered' /\ UniqueKeys' /\ UpdatesHaveEntries' /\ StatesInRange'
  <2>1. Pop \in Seq(Block)
    BY TopFacts DEF IInv
  <2> QED
    BY <2>1 DEF IInv, TypeOK, ListOrdered, UniqueKeys, UpdatesHaveEntries, StatesInRange,
                Merging
<1>2. Nesting'
  <2>1. pseudostate' = Top.outer
    BY DEF IInv, Nesting, Inner
  <2>2. Pop \in Seq(Block) /\ Len(Pop) = Len(blocks) - 1
        /\ \A i \in 1 .. Len(blocks) - 1 : Pop[i] = blocks[i]
    BY TopFacts DEF IInv
  <2>3. TypeOK /\ Nesting
    BY DEF IInv
  <2> QED
    BY <2>1, <2>2, <2>3, PopNesting
<1> QED
  BY <1>1, <1>2 DEF IInv

\* Leaving a block that has forked: the merge is about to run.
LEMMA BeginMergeIInv ==
  ASSUME IInv, blocks # <<>>, Top.forked, phase = "walk",
         NEW kind \in {"merge_par", "merge_seq"}, begin_merge(kind),
         blocks' \in Seq(Block), Len(blocks') = Len(blocks) - 1,
         \A i \in 1 .. Len(blocks) - 1 :
           /\ blocks'[i].outer = blocks[i].outer
           /\ blocks'[i].forked = blocks[i].forked
           /\ blocks'[i].kind = blocks[i].kind,
         UNCHANGED <<base, function_states, updates, seen>>
  PROVE  IInv'
<1> USE DEF IInv
<1>1. /\ pseudostate = Top.outer + 1 /\ Top.outer \in Nat /\ Top.outer >= base
      /\ pseudostate' = Top.outer
      /\ cursor' = Len(updates) /\ phase' = kind
  <2>1. Top \in Block /\ Top.outer \in Nat /\ Len(blocks) \in DOMAIN blocks
    BY TopFacts DEF Block
  <2>2. pseudostate = Top.outer + 1 /\ Top.outer >= base
    BY <2>1 DEF Nesting, Inner, Top
  <2> QED
    BY <2>1, <2>2 DEF begin_merge
<1>2. TypeOK'
  BY <1>1, EntryFacts DEF TypeOK
<1>3. ListOrdered'
  <2>1. \A i, j \in 1 .. Len(updates) : i <= j => updates[i].state <= updates[j].state
    BY DEF ListOrdered, Merging
  <2> QED
    BY <1>1, <2>1, EntryFacts DEF ListOrdered, Merging
<1>4. UniqueKeys' /\ UpdatesHaveEntries'
  BY DEF UniqueKeys, UpdatesHaveEntries
<1>5. StatesInRange'
  <2>1. \A i \in DOMAIN updates : updates[i].state \in base .. pseudostate
    BY DEF StatesInRange, Merging
  <2> QED
    BY <1>1, <2>1 DEF StatesInRange, Merging
<1>6. Nesting'
  BY <1>1, PopNesting
<1> QED
  BY <1>1, <1>2, <1>3, <1>4, <1>5, <1>6

\* The merge loop stops at an entry of an enclosing block; by the order of the
\* list no entry of the block is left in front of it.
LEMMA MergeEndIInv ==
  ASSUME IInv, merge_end
  PROVE  IInv'
<1> USE DEF IInv
<1>1. /\ Merging /\ phase # "error"
      /\ cursor > 0 => updates[cursor].state <= pseudostate
      /\ phase' = "walk" /\ cursor' = 0
      /\ UNCHANGED <<base, function_states, updates, pseudostate, blocks, seen>>
  BY DEF merge_end, OutOfBlock, Merging
<1>2. /\ \A i, j \in 1 .. cursor : i <= j => updates[i].state <= updates[j].state
      /\ \A i \in cursor + 1 .. Len(updates) : updates[i].state = pseudostate
      /\ cursor \in 0 .. Len(updates) /\ pseudostate \in Nat
  BY <1>1 DEF ListOrdered, TypeOK
<1>3. \A i \in 1 .. Len(updates) :
        /\ updates[i].state \in Nat /\ updates[i].state >= base
        /\ updates[i].state <= pseudostate
        /\ i > cursor => updates[i].state = pseudostate
  <2>1. \A i \in 1 .. Len(updates) : updates[i].state \in Nat /\ updates[i].state >= base
    BY <1>1, EntryFacts, StateAboveBase DEF StatesInRange
  <2>2. \A i \in 1 .. cursor : updates[i].state <= pseudostate
    <3> SUFFICES ASSUME NEW i \in 1 .. cursor PROVE updates[i].state <= pseudostate
      OBVIOUS
    <3>1. cursor \in 1 .. cursor /\ i <= cursor /\ cursor > 0
      BY <1>2
    <3>2. updates[i].state <= updates[cursor].state /\ updates[cursor].state <= pseudostate
      BY <1>1, <1>2, <3>1
    <3>3. updates[i].state \in Nat /\ updates[cursor].state \in Nat
      BY <1>2, <2>1, <3>1
    <3> QED
      BY <1>2, <3>2, <3>3
  <2> QED
    BY <1>2, <2>1, <2>2
<1>4. TypeOK'
  BY <1>1, EntryFacts DEF TypeOK
<1>5. ListOrdered'
  <2>1. \A i, j \in 1 .. Len(updates) : i <= j => updates[i].state <= updates[j].state
    BY <1>2, <1>3
  <2> QED
    BY <1>1, <2>1 DEF ListOrdered, Merging
<1>6. UniqueKeys' /\ UpdatesHaveEntries'
  BY <1>1 DEF UniqueKeys, UpdatesHaveEntries
<1>7. Nesting'
  BY <1>1 DEF Nesting, Top
<1>8. StatesInRange'
  BY <1>1, <1>2, <1>3, EntryFacts, StateAboveBase DEF StatesInRange, Merging
<1> QED
  BY <1>1, <1>4, <1>5, <1>6, <1>7, <1>8

\* When a rule has been walked every entry is in the pseudostate of the main
\* loop, so the entries are those of distinct locations.
LEMMA OneEntryPerLocation ==
  ASSUME IInv, phase = "walk", blocks = <<>>
  PROVE  /\ pseudostate = base
         /\ \A i, j \in DOMAIN updates : updates[i].loc = updates[j].loc => i = j
<1>1. pseudostate = base
  BY DEF IInv, Nesting
<1>2. \A i \in DOMAIN updates : updates[i].state = base
  BY <1>1 DEF IInv, TypeOK, StatesInRange, Merging
<1> QED
  BY <1>1, <1>2 DEF IInv, UniqueKeys

\* apply_updates writes values to locations and empties the map.
LEMMA ApplyIInv ==
  ASSUME IInv, apply_updates
  PROVE  IInv'
<1> DEFINE touched == {updates[i].loc : i \in DOMAIN updates}
<1>1. /\ phase = "walk" /\ blocks = <<>> /\ cursor = 0 /\ TypeOK
      /\ updates' = <<>>
      /\ UNCHANGED <<base, pseudostate, blocks, phase, cursor, seen>>
      /\ function_states' = [l \in DOMAIN function_states \cup touched |-> Written(l)]
  BY DEF apply_updates, IInv
<1>2. DOMAIN function_states \cup touched \subseteq Loc
  BY <1>1, EntryFacts DEF TypeOK
<1>3. ASSUME NEW l \in DOMAIN function_states \cup touched
      PROVE  Written(l) \in Val
  <2> DEFINE at == {i \in DOMAIN updates : updates[i].loc = l}
  <2>1. CASE at = {}
    <3>1. l \in DOMAIN function_states
      BY <2>1
    <3> QED
      BY <1>1, <2>1, <3>1 DEF Written, TypeOK
  <2>2. CASE at # {}
    <3>1. PICK i \in DOMAIN updates : updates[i].loc = l
      BY <2>2
    <3>2. at = {i}
      BY <1>1, <3>1, OneEntryPerLocation
    <3>3. (CHOOSE n \in at : \A k \in at : n <= k) = i
      <4>1. i \in Nat
        BY <1>1, <3>1, EntryFacts
      <4> HIDE DEF at
      <4> QED
        BY <3>2, <4>1
    <3>4. Written(l) = updates[i].val
      BY <2>2, <3>3 DEF Written
    <3>5. updates[i] \in Update
      BY <1>1, <3>1, EntryFacts
    <3> QED
      BY <3>4, <3>5 DEF Update
  <2> QED
    BY <2>1, <2>2
<1>4. TypeOK'
  BY <1>1, <1>2, <1>3 DEF TypeOK
<1>5. ListOrdered' /\ UniqueKeys' /\ UpdatesHaveEntries' /\ StatesInRange'
  BY <1>1 DEF ListOrdered, UniqueKeys, UpdatesHaveEntries, StatesInRange, Merging
<1>6. Nesting'
  BY <1>1 DEF IInv, Nesting, Top
<1> QED
  BY <1>1, <1>4, <1>5, <1>6 DEF IInv

\* The epilogues of the block walkers.
LEMMA LeaveIInv ==
  ASSUME IInv, NEW kind, NEW merge \in {"merge_par", "merge_seq"}, Leave(kind, merge)
  PROVE  IInv'
<1>1. /\ phase = "walk" /\ blocks # <<>> /\ blocks' = Pop
      /\ UNCHANGED <<base, function_states, updates, seen>>
  BY DEF Leave
<1>2. CASE Top.forked
  <2>1. begin_merge(merge)
    BY <1>2 DEF Leave
  <2>2. /\ Pop \in Seq(Block) /\ Len(Pop) = Len(blocks) - 1
        /\ \A i \in 1 .. Len(blocks) - 1 : Pop[i] = blocks[i]
    BY <1>1, TopFacts DEF IInv
  <2> QED
    BY <1>1, <1>2, <2>1, <2>2, BeginMergeIInv
<1>3. CASE ~ Top.forked
  <2>1. UNCHANGED <<pseudostate, cursor, phase>>
    BY <1>3 DEF Leave
  <2> QED
    BY <1>1, <1>3, <2>1, LeaveSharedIInv
<1> QED
  BY <1>2, <1>3

\* What the end of a round leaves of the blocks: the iterate below it may stop.
LEMMA EndRoundBlocks ==
  ASSUME IInv, end_round
  PROVE  /\ Top.forked
         /\ blocks' \in Seq(Block) /\ Len(blocks') = Len(blocks) - 1
         /\ \A i \in 1 .. Len(blocks) - 1 :
              /\ blocks'[i].outer = blocks[i].outer
              /\ blocks'[i].forked = blocks[i].forked
              /\ blocks'[i].kind = blocks[i].kind
<1> DEFINE n == Len(blocks) - 1
           more == ~ updateset_empty
<1>1. /\ phase = "walk" /\ blocks # <<>> /\ Top.kind = "round"
      /\ blocks' = [Pop EXCEPT ![n].running = more]
      /\ begin_merge("merge_par")
      /\ UNCHANGED <<base, function_states, updates, seen>>
      /\ more \in BOOLEAN
  BY DEF end_round, updateset_empty
<1> HIDE DEF more
<1>2. /\ Pop \in Seq(Block) /\ Len(Pop) = n /\ n \in Nat
      /\ \A i \in 1 .. n : Pop[i] = blocks[i] /\ Pop[i] \in Block
      /\ Len(blocks) \in DOMAIN blocks
  <2>1. /\ Pop \in Seq(Block) /\ Len(Pop) = n /\ n \in Nat
        /\ \A i \in 1 .. n : Pop[i] = blocks[i]
        /\ Len(blocks) \in DOMAIN blocks
    <3>1. TypeOK /\ blocks # <<>>
      BY <1>1 DEF IInv
    <3>2. /\ Len(blocks) \in Nat \ {0}
          /\ DOMAIN blocks = 1 .. Len(blocks)
          /\ Pop \in Seq(Block)
          /\ Len(Pop) = Len(blocks) - 1
          /\ \A i \in 1 .. Len(blocks) - 1 : Pop[i] = blocks[i]
      BY <3>1, TopFacts, Zenon
    <3> QED
      BY <3>2
  <2> HIDE DEF n
  <2>2. \A i \in 1 .. n : Pop[i] \in Block
    BY <2>1
  <2> QED
    BY <2>1, <2>2
<1>3. Top.forked
  BY <1>1, <1>2 DEF IInv, Nesting, Top
<1> HIDE DEF n
<1>4. blocks' \in [1 .. n -> Block]
  <2>1. Pop \in [1 .. n -> Block]
    BY <1>2
  <2>2. n \in 1 .. n => [Pop[n] EXCEPT !.running = more] \in Block
    BY <1>1, <1>2 DEF Block
  <2> QED
    BY <1>1, <2>1, <2>2
<1>5. blocks' \in Seq(Block) /\ Len(blocks') = n
  BY <1>2, <1>4, SeqByFunction
<1>6. \A i \in 1 .. n : /\ blocks'[i].outer = blocks[i].outer
                        /\ blocks'[i].forked = blocks[i].forked
                        /\ blocks'[i].kind = blocks[i].kind
  BY <1>1, <1>2 DEF Block
<1> QED
  BY <1>3, <1>5, <1>6 DEF n

\* The end of a round of an iterate.
LEMMA EndRoundIInv ==
  ASSUME IInv, end_round
  PROVE  IInv'
<1>1. /\ phase = "walk" /\ blocks # <<>> /\ begin_merge("merge_par")
      /\ UNCHANGED <<base, function_states, updates, seen>>
  BY DEF end_round
<1> QED
  BY <1>1, EndRoundBlocks, BeginMergeIInv

\* Every step of the interpreter preserves the invariant.
LEMMA NextIInv ==
  ASSUME IInv, [Next]_vars
  PROVE  IInv'
<1>1. CASE \E l \in Loc : get_function_value(l)
  BY <1>1, ReadIInv
<1>2. CASE \E l \in Loc : add_update_conflict(l)
  BY <1>2, ConflictIInv
<1>3. CASE \E l \in Loc, v \in Val : add_update(l, v)
  BY <1>3, AddUpdateIInv
<1>4. CASE walk_seqblock
  <2>1. Parallel \in BOOLEAN
    BY DEF Parallel
  <2> QED
    BY <1>4, <2>1, EnterIInv DEF walk_seqblock, Walking
<1>5. CASE walk_parblock
  <2>1. (~ Parallel) \in BOOLEAN
    BY DEF Parallel
  <2> QED
    BY <1>5, <2>1, EnterIInv DEF walk_parblock, Walking
<1>6. CASE walk_iterate
  <2>1. Parallel \in BOOLEAN
    BY DEF Parallel
  <2> QED
    BY <1>6, <2>1, EnterIInv DEF walk_iterate, Walking
<1>7. CASE begin_round
  BY <1>7, EnterIInv DEF begin_round
<1>8. CASE leave_seqblock
  BY <1>8, LeaveIInv DEF leave_seqblock
<1>9. CASE leave_parblock
  BY <1>9, LeaveIInv DEF leave_parblock
<1>10. CASE leave_iterate
  BY <1>10, LeaveIInv DEF leave_iterate
<1>11. CASE end_round
  BY <1>11, EndRoundIInv
<1>12. CASE merge_step
  BY <1>12, MergeStepIInv
<1>13. CASE merge_end
  BY <1>13, MergeEndIInv
<1>14. CASE apply_updates
  BY <1>14, ApplyIInv
<1>15. CASE UNCHANGED vars
  BY <1>15 DEF vars, IInv, TypeOK, ListOrdered, UniqueKeys, UpdatesHaveEntries, Nesting,
               StatesInRange, Merging, Top
<1> QED
  BY <1>1, <1>2, <1>3, <1>4, <1>5, <1>6, <1>7, <1>8, <1>9, <1>10, <1>11, <1>12, <1>13,
     <1>14, <1>15 DEF Next, stopped

\* The inductive invariant holds in every reachable state.
THEOREM Invariance == Spec => []IInv
<1>1. Init => IInv
  BY InitIInv
<1>2. IInv /\ [Next]_vars => IInv'
  BY NextIInv
<1> QED
  BY <1>1, <1>2, PTL DEF Spec

-----------------------------------------------------------------------------
(* What follows from it.                                                   *)

\* Type correctness.
THEOREM TypeCorrect == Spec => []TypeOK
<1>1. IInv => TypeOK
  BY DEF IInv
<1> QED
  BY <1>1, Invariance, PTL

\* The `break` of merge_par and merge_seq leaves no update behind, at any depth
\* of nesting: outside the loops every update belongs to a block that is still
\* being walked.
THEOREM MergeComplete == Spec => []NothingStranded
<1>1. IInv => NothingStranded
  BY StateAboveBase DEF IInv, NothingStranded, StatesInRange, Merging
<1> QED
  BY <1>1, Invariance, PTL

\* The linked list is ordered by pseudostate whenever a merge loop relies on it.
THEOREM OrderedList == Spec => []ListOrdered
<1>1. IInv => ListOrdered
  BY DEF IInv
<1> QED
  BY <1>1, Invariance, PTL

\* The keys of the linked hash map stay unique, inside the merge loops too.
THEOREM KeysUnique == Spec => []UniqueKeys
<1>1. IInv => UniqueKeys
  BY DEF IInv
<1> QED
  BY <1>1, Invariance, PTL

\* At the end of a rule all forks are merged and apply_updates has at most one
\* update per location to write.
THEOREM StepsConsistent == Spec => []StepConsistent
<1>1. IInv => StepConsistent
  BY OneEntryPerLocation DEF StepConsistent
<1> QED
  BY <1>1, Invariance, PTL

\* get_function_value never overlooks an update for want of an entry.
THEOREM EntriesExist == Spec => []UpdatesHaveEntries
<1>1. IInv => UpdatesHaveEntries
  BY DEF IInv
<1> QED
  BY <1>1, Invariance, PTL

=============================================================================

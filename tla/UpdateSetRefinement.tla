------------------------- MODULE UpdateSetRefinement -------------------------
(***************************************************************************)
(* The update set implements the stack of blocks of AsmBlocks, for every   *)
(* set of locations and values and any depth of nesting: the linked hash   *)
(* map is read as a relation between keys and values, and every step of    *)
(* the interpreter is a step of the abstract machine or leaves it alone.   *)
(***************************************************************************)
EXTENDS UpdateSetProofs, SequenceTheorems

-----------------------------------------------------------------------------
(* The linked hash map as a relation.                                      *)

\* Location l has the value v in pseudostate s.
At(list, l, s, v) ==
  \E i \in DOMAIN list : list[i].loc = l /\ list[i].state = s /\ list[i].val = v

\* A key is in the map when it has a value.
LEMMA HasAt ==
  ASSUME NEW list \in Seq(Update), NEW l, NEW s
  PROVE  Has(list, l, s) <=> \E v \in Val : At(list, l, s, v)
<1>1. \A i \in DOMAIN list : list[i] \in Update
  OBVIOUS
<1>2. \A i \in DOMAIN list : list[i].val \in Val
  BY <1>1 DEF Update
<1> QED
  BY <1>2 DEF Has, At

\* Keys have one value.
LEMMA AtUnique ==
  ASSUME NEW list \in Seq(Update), Unique(list), NEW l, NEW s, NEW v, NEW w,
         At(list, l, s, v), At(list, l, s, w)
  PROVE  v = w
  BY DEF At, Unique

\* pp_hashmap_set gives the key its value and leaves the other keys alone.
LEMMA SetAt ==
  ASSUME NEW list \in Seq(Update), NEW u \in Update, NEW l, NEW s, NEW v
  PROVE  At(hashmap_set(list, u), l, s, v) <=>
           IF l = u.loc /\ s = u.state THEN v = u.val ELSE At(list, l, s, v)
<1> DEFINE r == hashmap_set(list, u)
<1>1. CASE Has(list, u.loc, u.state)
  <2>1. /\ r \in Seq(Update) /\ Len(r) = Len(list)
        /\ \A i \in 1 .. Len(list) :
             r[i] = IF list[i].loc = u.loc /\ list[i].state = u.state THEN u ELSE list[i]
    BY <1>1, SetFacts
  <2> HIDE DEF r
  <2>2. DOMAIN r = 1 .. Len(list) /\ DOMAIN list = 1 .. Len(list)
    BY <2>1
  <2>3. PICK k \in DOMAIN list : list[k].loc = u.loc /\ list[k].state = u.state
    BY <1>1 DEF Has
  <2>4. CASE l = u.loc /\ s = u.state
    <3>1. At(r, l, s, v) => v = u.val
      BY <2>1, <2>2, <2>4 DEF At
    <3>2. r[k] = u
      BY <2>1, <2>2, <2>3
    <3>3. v = u.val => At(r, l, s, v)
      BY <2>2, <2>4, <3>2 DEF At
    <3> QED
      BY <2>4, <3>1, <3>3 DEF r
  <2>5. CASE ~ (l = u.loc /\ s = u.state)
    <3>1. At(r, l, s, v) => At(list, l, s, v)
      BY <2>1, <2>2, <2>5 DEF At
    <3>2. At(list, l, s, v) => At(r, l, s, v)
      BY <2>1, <2>2, <2>5 DEF At
    <3> QED
      BY <2>5, <3>1, <3>2 DEF r
  <2> QED
    BY <2>4, <2>5
<1>2. CASE ~ Has(list, u.loc, u.state)
  <2>1. /\ r \in Seq(Update) /\ Len(r) = Len(list) + 1 /\ r[Len(list) + 1] = u
        /\ \A i \in 1 .. Len(list) : r[i] = list[i]
    BY <1>2, SetFacts
  <2> HIDE DEF r
  <2>2. /\ DOMAIN r = 1 .. Len(list) + 1 /\ DOMAIN list = 1 .. Len(list)
        /\ Len(list) \in Nat
    BY <2>1
  <2>3. \A i \in DOMAIN r : i \in DOMAIN list \/ i = Len(list) + 1
    BY <2>2
  <2>4. Len(list) + 1 \in DOMAIN r /\ \A i \in DOMAIN list : i \in DOMAIN r
    BY <2>2
  <2>5. ~ \E i \in DOMAIN list : list[i].loc = u.loc /\ list[i].state = u.state
    BY <1>2 DEF Has
  <2>6. At(r, l, s, v) <=>
          At(list, l, s, v) \/ (u.loc = l /\ u.state = s /\ u.val = v)
    BY <2>1, <2>2, <2>3, <2>4 DEF At
  <2>7. l = u.loc /\ s = u.state => ~ At(list, l, s, v)
    BY <2>5 DEF At
  <2> QED
    BY <2>6, <2>7 DEF r
<1> QED
  BY <1>1, <1>2

\* pp_hashmap_delete takes the bucket's key out and leaves the others alone.
LEMMA DeleteAt ==
  ASSUME NEW list \in Seq(Update), NEW k \in 1 .. Len(list), Unique(list),
         NEW l, NEW s, NEW v
  PROVE  At(hashmap_delete(list, k), l, s, v) <=>
           At(list, l, s, v) /\ ~ (l = list[k].loc /\ s = list[k].state)
<1> DEFINE r == hashmap_delete(list, k)
<1>1. /\ r \in Seq(Update) /\ DOMAIN r = 1 .. Len(list) - 1
      /\ \A i \in DOMAIN r : r[i] = IF i < k THEN list[i] ELSE list[i + 1]
      /\ DOMAIN list = 1 .. Len(list) /\ Len(list) \in Nat
  BY DeleteFacts
<1> HIDE DEF r
<1>2. ASSUME At(r, l, s, v)
      PROVE  At(list, l, s, v) /\ ~ (l = list[k].loc /\ s = list[k].state)
  <2>1. PICK i \in DOMAIN r : r[i].loc = l /\ r[i].state = s /\ r[i].val = v
    BY <1>2 DEF At
  <2>2. PICK j \in DOMAIN list : j # k /\ r[i] = list[j]
    <3>1. CASE i < k
      BY <1>1, <3>1
    <3>2. CASE ~ (i < k)
      BY <1>1, <3>2
    <3> QED
      BY <3>1, <3>2
  <2>3. k \in DOMAIN list
    BY <1>1
  <2> QED
    BY <2>1, <2>2, <2>3 DEF At, Unique
<1>3. ASSUME At(list, l, s, v), ~ (l = list[k].loc /\ s = list[k].state)
      PROVE  At(r, l, s, v)
  <2>1. PICK j \in DOMAIN list : list[j].loc = l /\ list[j].state = s /\ list[j].val = v
    BY <1>3 DEF At
  <2>2. j # k
    BY <1>3, <2>1
  <2>3. PICK i \in DOMAIN r : r[i] = list[j]
    <3>1. CASE j < k
      <4>1. j \in DOMAIN r /\ r[j] = list[j]
        BY <1>1, <3>1
      <4> QED
        BY <4>1
    <3>2. CASE ~ (j < k)
      <4>1. j - 1 \in DOMAIN r /\ ~ (j - 1 < k) /\ (j - 1) + 1 = j
        BY <1>1, <2>2, <3>2
      <4>2. r[j - 1] = list[j]
        BY <1>1, <4>1
      <4> QED
        BY <4>1, <4>2
    <3> QED
      BY <3>1, <3>2
  <2> QED
    BY <2>1, <2>3 DEF At
<1> QED
  BY <1>2, <1>3 DEF r

-----------------------------------------------------------------------------
(* The updates of one pseudostate, as a function on locations.             *)

Lev(list, s) ==
  [l \in {k \in Loc : Has(list, k, s)} |->
     list[CHOOSE i \in DOMAIN list : list[i].loc = l /\ list[i].state = s].val]

\* The updates of a pseudostate, as a function of the list.
LEMMA LevelIsLev ==
  ASSUME NEW s
  PROVE  Level(s) = Lev(updates, s)
  BY DEF Level, Lev

\* The function holds the values of the keys.
LEMMA LevAt ==
  ASSUME NEW list \in Seq(Update), Unique(list), NEW s
  PROVE  /\ DOMAIN Lev(list, s) = {l \in Loc : Has(list, l, s)}
         /\ \A l \in DOMAIN Lev(list, s) : At(list, l, s, Lev(list, s)[l])
<1>1. DOMAIN Lev(list, s) = {l \in Loc : Has(list, l, s)}
  BY DEF Lev
<1>2. ASSUME NEW l \in DOMAIN Lev(list, s)
      PROVE  At(list, l, s, Lev(list, s)[l])
  <2> DEFINE P(i) == list[i].loc = l /\ list[i].state = s
             c == CHOOSE i \in DOMAIN list : P(i)
  <2>1. \E i \in DOMAIN list : P(i)
    BY <1>1 DEF Has
  <2>2. c \in DOMAIN list /\ P(c)
    BY <2>1
  <2>3. Lev(list, s)[l] = list[c].val
    BY <1>1 DEF Lev
  <2> HIDE DEF c
  <2> QED
    BY <2>2, <2>3 DEF At
<1> QED
  BY <1>1, <1>2

\* Two functions that hold the same values are equal.
LEMMA LevIs ==
  ASSUME NEW list \in Seq(Update), Unique(list), NEW s, NEW D \in SUBSET Loc, NEW f,
         f = [l \in D |-> f[l]],
         \A l \in Loc, v \in Val : At(list, l, s, v) => l \in D,
         \A l \in D : At(list, l, s, f[l]) /\ f[l] \in Val
  PROVE  Lev(list, s) = f
<1>1. /\ DOMAIN Lev(list, s) = {l \in Loc : Has(list, l, s)}
      /\ \A l \in DOMAIN Lev(list, s) : At(list, l, s, Lev(list, s)[l])
  BY LevAt
<1>2. \A l \in Loc : Has(list, l, s) <=> \E v \in Val : At(list, l, s, v)
  BY HasAt
<1>3. DOMAIN Lev(list, s) = D
  BY <1>1, <1>2
<1>4. ASSUME NEW l \in D
      PROVE  Lev(list, s)[l] = f[l]
  <2>1. At(list, l, s, f[l]) /\ At(list, l, s, Lev(list, s)[l])
    BY <1>1, <1>3
  <2> QED
    BY <2>1, AtUnique
<1>5. Lev(list, s) = [l \in DOMAIN Lev(list, s) |-> Lev(list, s)[l]]
  BY DEF Lev
<1> QED
  BY <1>3, <1>4, <1>5

\* No key of the pseudostate, no function.
LEMMA LevEmpty ==
  ASSUME NEW list, NEW s, \A l \in Loc : ~ Has(list, l, s)
  PROVE  Lev(list, s) = [l \in {} |-> Undef]
  BY DEF Lev

\* The values of one pseudostate alone determine its function.
LEMMA LevSame ==
  ASSUME NEW list \in Seq(Update), Unique(list),
         NEW new \in Seq(Update), Unique(new), NEW s,
         \A l \in Loc, v \in Val : At(new, l, s, v) <=> At(list, l, s, v)
  PROVE  Lev(new, s) = Lev(list, s)
<1> DEFINE D == {l \in Loc : Has(list, l, s)}
           f == Lev(list, s)
<1>1. /\ DOMAIN f = D
      /\ \A l \in D : At(list, l, s, f[l])
  BY LevAt
<1>2. \A l \in Loc : Has(list, l, s) <=> \E v \in Val : At(list, l, s, v)
  BY HasAt
<1>3. f = [l \in D |-> f[l]]
  BY DEF Lev
<1>4. \A l \in D : f[l] \in Val
  <2>1. \A i \in DOMAIN list : list[i] \in Update
    OBVIOUS
  <2>2. \A i \in DOMAIN list : list[i].val \in Val
    BY <2>1 DEF Update
  <2> QED
    BY <1>1, <2>2 DEF At
<1> HIDE DEF f
<1>5. D \in SUBSET Loc /\ \A l \in Loc, v \in Val : At(new, l, s, v) => l \in D
  BY <1>2
<1>6. \A l \in D : At(new, l, s, f[l])
  BY <1>1, <1>4
<1> HIDE DEF D
<1>7. Lev(new, s) = f
  BY <1>3, <1>4, <1>5, <1>6, LevIs
<1> QED
  BY <1>7 DEF f

-----------------------------------------------------------------------------
(* Pseudostates and kinds of blocks.                                       *)

\* Statements of seq blocks and iterates run in an odd pseudostate, those of
\* par blocks and rounds in an even one; merge_seq files into an even one and
\* merge_par into an odd one.
KindParity ==
  /\ \A i \in DOMAIN blocks :
       Inner(blocks[i]) % 2 = IF blocks[i].kind \in {"seq", "iterate"} THEN 1 ELSE 0
  /\ phase = "merge_seq" => pseudostate % 2 = 0
  /\ phase = "merge_par" => pseudostate % 2 = 1

\* Entering a block: of the other kind, or sharing the pseudostate.
LEMMA EnterParity ==
  ASSUME IInv, KindParity, NEW forked \in BOOLEAN,
         NEW kind \in {"seq", "par", "iterate", "round"},
         phase = "walk", phase' = phase, Enter(NewBlock(kind, forked)),
         (IF forked THEN pseudostate + 1 ELSE pseudostate) % 2 =
           IF kind \in {"seq", "iterate"} THEN 1 ELSE 0
  PROVE  KindParity'
<1> DEFINE b == NewBlock(kind, forked)
<1>1. b.kind = kind /\ b.forked = forked /\ b.outer = pseudostate /\ b \in Block
  BY DEF NewBlock, Block, IInv, TypeOK
<1>2. Inner(b) % 2 = IF b.kind \in {"seq", "iterate"} THEN 1 ELSE 0
  BY <1>1 DEF Inner
<1> HIDE DEF b
<1>3. blocks \in Seq(Block) /\ blocks' = Append(blocks, b)
  BY DEF IInv, TypeOK, Enter, b
<1>4. /\ \A i \in DOMAIN (blocks') : i \in DOMAIN blocks \/ i = Len(blocks) + 1
      /\ \A i \in DOMAIN blocks : blocks'[i] = blocks[i]
      /\ blocks'[Len(blocks) + 1] = b
  BY <1>1, <1>3
<1>5. \A i \in DOMAIN (blocks') :
        Inner(blocks'[i]) % 2 = IF blocks'[i].kind \in {"seq", "iterate"} THEN 1 ELSE 0
  BY <1>2, <1>4 DEF KindParity
<1>6. phase' = "walk"
  OBVIOUS
<1> QED
  BY <1>5, <1>6 DEF KindParity, Inner

\* Leaving a block.
LEMMA PopParity ==
  ASSUME IInv, KindParity, blocks # <<>>,
         blocks' \in Seq(Block), Len(blocks') = Len(blocks) - 1,
         \A i \in 1 .. Len(blocks) - 1 :
           /\ blocks'[i].outer = blocks[i].outer
           /\ blocks'[i].forked = blocks[i].forked
           /\ blocks'[i].kind = blocks[i].kind,
         phase' = "merge_seq" => pseudostate' % 2 = 0,
         phase' = "merge_par" => pseudostate' % 2 = 1
  PROVE  KindParity'
<1>1. /\ DOMAIN (blocks') = 1 .. Len(blocks) - 1
      /\ DOMAIN blocks = 1 .. Len(blocks) /\ Len(blocks) \in Nat
  BY DEF IInv, TypeOK
<1>2. ASSUME NEW i \in DOMAIN (blocks')
      PROVE  Inner(blocks'[i]) % 2 =
               IF blocks'[i].kind \in {"seq", "iterate"} THEN 1 ELSE 0
  <2>1. i \in DOMAIN blocks /\ Inner(blocks'[i]) = Inner(blocks[i])
    BY <1>1 DEF Inner
  <2>2. blocks'[i].kind = blocks[i].kind
    BY <1>1
  <2> QED
    BY <2>1, <2>2 DEF KindParity
<1> QED
  BY <1>2 DEF KindParity, Inner

\* Top is the block whose pseudostate is current.
LEMMA TopParity ==
  ASSUME IInv, KindParity, blocks # <<>>
  PROVE  /\ pseudostate = Inner(Top) /\ pseudostate \in Nat
         /\ pseudostate % 2 = IF Top.kind \in {"seq", "iterate"} THEN 1 ELSE 0
         /\ Top.forked => pseudostate - 1 \in Nat /\ pseudostate - 1 >= base
<1>1. Len(blocks) \in DOMAIN blocks /\ Top = blocks[Len(blocks)] /\ Top \in Block
  BY TopFacts DEF IInv, Top
<1>2. pseudostate = Inner(Top) /\ pseudostate \in Nat
  BY DEF IInv, Nesting, TypeOK
<1>3. Top.outer >= base /\ Top.outer \in Nat /\ base \in Nat
  BY <1>1 DEF IInv, Nesting, Block, TypeOK
<1>4. Top.forked => pseudostate = Top.outer + 1
  BY <1>2 DEF Inner
<1> QED
  BY <1>1, <1>2, <1>3, <1>4 DEF KindParity

\* Leaving a block gives back the parity of the block around it.
LEMMA LeaveParity ==
  ASSUME IInv, KindParity, NEW kind \in {"seq", "par", "iterate"}, NEW merge,
         merge = IF kind = "par" THEN "merge_par" ELSE "merge_seq",
         Leave(kind, merge)
  PROVE  KindParity'
<1>1. phase = "walk" /\ blocks # <<>> /\ Top.kind = kind /\ blocks' = Pop
  BY DEF Leave
<1>2. /\ blocks' \in Seq(Block) /\ Len(blocks') = Len(blocks) - 1
      /\ \A i \in 1 .. Len(blocks) - 1 : blocks'[i] = blocks[i]
  BY <1>1, TopFacts DEF IInv
<1>3. CASE Top.forked
  <2>1. phase' = merge /\ pseudostate' = pseudostate - 1
    BY <1>3 DEF Leave, begin_merge
  <2>2. pseudostate \in Nat /\ pseudostate % 2 = IF kind \in {"seq", "iterate"} THEN 1 ELSE 0
    BY <1>1, TopParity
  <2>3. /\ merge = "merge_seq" => pseudostate' % 2 = 0
        /\ merge = "merge_par" => pseudostate' % 2 = 1
    BY <2>1, <2>2
  <2> QED
    BY <1>1, <1>2, <2>1, <2>3, PopParity
<1>4. CASE ~ Top.forked
  <2>1. phase' = "walk"
    BY <1>1, <1>4 DEF Leave
  <2> QED
    BY <1>1, <1>2, <2>1, PopParity
<1> QED
  BY <1>3, <1>4

\* Every step keeps the kinds and the pseudostates together.
LEMMA NextParity ==
  ASSUME IInv, KindParity, [Next]_vars
  PROVE  KindParity'
<1>1. pseudostate \in Nat
  BY DEF IInv, TypeOK
<1>2. CASE \/ \E l \in Loc : get_function_value(l) \/ add_update_conflict(l)
           \/ \E l \in Loc, v \in Val : add_update(l, v)
           \/ apply_updates \/ stopped \/ UNCHANGED vars
  <2>1. /\ UNCHANGED <<blocks, pseudostate>>
        /\ phase' = phase \/ phase' = "error"
    BY <1>2 DEF get_function_value, add_update_conflict, add_update, apply_updates,
                stopped, vars
  <2> QED
    BY <2>1 DEF KindParity, Inner
<1>3. CASE walk_seqblock
  <2>1. /\ phase = "walk" /\ phase' = phase /\ Enter(NewBlock("seq", Parallel))
        /\ Parallel \in BOOLEAN
    BY <1>3 DEF walk_seqblock, Walking, Parallel
  <2>2. (IF Parallel THEN pseudostate + 1 ELSE pseudostate) % 2 = 1
    BY <1>1 DEF Parallel
  <2> QED
    BY <2>1, <2>2, EnterParity
<1>4. CASE walk_parblock
  <2>1. /\ phase = "walk" /\ phase' = phase /\ Enter(NewBlock("par", ~ Parallel))
        /\ (~ Parallel) \in BOOLEAN
    BY <1>4 DEF walk_parblock, Walking, Parallel
  <2>2. (IF ~ Parallel THEN pseudostate + 1 ELSE pseudostate) % 2 = 0
    BY <1>1 DEF Parallel
  <2> QED
    BY <2>1, <2>2, EnterParity
<1>5. CASE walk_iterate
  <2>1. /\ phase = "walk" /\ phase' = phase /\ Enter(NewBlock("iterate", Parallel))
        /\ Parallel \in BOOLEAN
    BY <1>5 DEF walk_iterate, Walking, Parallel
  <2>2. (IF Parallel THEN pseudostate + 1 ELSE pseudostate) % 2 = 1
    BY <1>1 DEF Parallel
  <2> QED
    BY <2>1, <2>2, EnterParity
<1>6. CASE begin_round
  <2>1. /\ phase = "walk" /\ phase' = phase /\ Enter(NewBlock("round", TRUE))
        /\ blocks # <<>> /\ Top.kind = "iterate"
    BY <1>6 DEF begin_round
  <2>2. pseudostate % 2 = 1
    BY <2>1, TopParity
  <2>3. (IF TRUE THEN pseudostate + 1 ELSE pseudostate) % 2 = 0
    BY <1>1, <2>2
  <2> QED
    BY <2>1, <2>3, EnterParity
<1>7. CASE leave_seqblock \/ leave_parblock \/ leave_iterate
  BY <1>7, LeaveParity DEF leave_seqblock, leave_parblock, leave_iterate
<1>8. CASE end_round
  <2>1. /\ phase = "walk" /\ blocks # <<>> /\ Top.kind = "round"
        /\ phase' = "merge_par" /\ pseudostate' = pseudostate - 1
    BY <1>8 DEF end_round, begin_merge
  <2>2. pseudostate % 2 = 0
    BY <2>1, TopParity
  <2>3. pseudostate' % 2 = 1
    BY <1>1, <2>1, <2>2
  <2> QED
    BY <1>8, <2>1, <2>3, EndRoundBlocks, PopParity
<1>9. CASE merge_step
  <2>1. UNCHANGED <<blocks, pseudostate>> /\ (phase' = phase \/ phase' = "error")
    BY <1>9 DEF merge_step
  <2> QED
    BY <2>1 DEF KindParity, Inner
<1>10. CASE merge_end
  <2>1. UNCHANGED <<blocks, pseudostate>> /\ phase' = "walk"
    BY <1>10 DEF merge_end
  <2> QED
    BY <2>1 DEF KindParity, Inner
<1> QED
  BY <1>2, <1>3, <1>4, <1>5, <1>6, <1>7, <1>8, <1>9, <1>10 DEF Next

\* Seq blocks and iterates run in odd pseudostates, par blocks and rounds in
\* even ones: the test of the lowest bit in casm_updateset_add and the choice
\* between merge_seq and merge_par always agree.
THEOREM ParityInvariance == Spec => []KindParity
<1>1. Init => KindParity
  BY DEF Init, KindParity
<1>2. IInv /\ KindParity /\ [Next]_vars => KindParity'
  BY NextParity
<1> QED
  BY <1>1, <1>2, Invariance, PTL DEF Spec

-----------------------------------------------------------------------------
(* The frames of the abstract machine.                                     *)

\* The function of a pseudostate says exactly what the map says.
LEMMA LevRelation ==
  ASSUME NEW list \in Seq(Update), Unique(list), NEW s
  PROVE  /\ Lev(list, s) = [l \in DOMAIN Lev(list, s) |-> Lev(list, s)[l]]
         /\ DOMAIN Lev(list, s) \subseteq Loc
         /\ \A l \in Loc, v \in Val :
              At(list, l, s, v) <=> l \in DOMAIN Lev(list, s) /\ Lev(list, s)[l] = v
         /\ \A l \in Loc : Has(list, l, s) <=> l \in DOMAIN Lev(list, s)
         /\ \A l \in DOMAIN Lev(list, s) : Lev(list, s)[l] \in Val
<1>1. /\ DOMAIN Lev(list, s) = {l \in Loc : Has(list, l, s)}
      /\ \A l \in DOMAIN Lev(list, s) : At(list, l, s, Lev(list, s)[l])
  BY LevAt
<1>2. Lev(list, s) = [l \in DOMAIN Lev(list, s) |-> Lev(list, s)[l]]
  BY DEF Lev
<1>3. \A l \in Loc : Has(list, l, s) <=> \E v \in Val : At(list, l, s, v)
  BY HasAt
<1>4. ASSUME NEW l \in Loc, NEW v \in Val
      PROVE  At(list, l, s, v) <=> l \in DOMAIN Lev(list, s) /\ Lev(list, s)[l] = v
  BY <1>1, <1>3, AtUnique
<1>5. \A l \in DOMAIN Lev(list, s) : Lev(list, s)[l] \in Val
  <2>1. \A i \in DOMAIN list : list[i] \in Update
    OBVIOUS
  <2>2. \A i \in DOMAIN list : list[i].val \in Val
    BY <2>1 DEF Update
  <2> QED
    BY <1>1, <2>2 DEF At
<1> QED
  BY <1>1, <1>2, <1>4, <1>5

\* One frame per pseudostate, from that of the main loop to the current one.
FrameSet(list) == {Lev(list, s) : s \in Nat}

Frames(list, p, b) == [k \in 1 .. p - b + 1 |-> Lev(list, b + k - 1)]

\* The frames are a sequence, one for each pseudostate from base to the current one.
LEMMA FramesSeq ==
  ASSUME NEW list, NEW p \in Nat, NEW b \in Nat, p >= b
  PROVE  /\ Len(Frames(list, p, b)) = p - b + 1
         /\ DOMAIN Frames(list, p, b) = 1 .. p - b + 1
         /\ p - b + 1 \in 1 .. p - b + 1
         /\ \A k \in 1 .. p - b + 1 : Frames(list, p, b)[k] = Lev(list, b + k - 1)
         /\ Frames(list, p, b)[p - b + 1] = Lev(list, p)
         /\ Frames(list, p, b) \in Seq(FrameSet(list))
<1> DEFINE n == p - b + 1
           F == Frames(list, p, b)
<1>1. n \in Nat /\ n \in 1 .. n /\ b + n - 1 = p
  OBVIOUS
<1>2. \A k \in 1 .. n : F[k] = Lev(list, b + k - 1) /\ b + k - 1 \in Nat
  BY DEF Frames
<1>3. F \in [1 .. n -> FrameSet(list)]
  BY <1>2 DEF Frames, FrameSet
<1>4. F \in Seq(FrameSet(list)) /\ Len(F) = n /\ DOMAIN F = 1 .. n
  BY <1>1, <1>3, SeqByFunction
<1>5. F[n] = Lev(list, p)
  BY <1>1, <1>2
<1> QED
  BY <1>1, <1>2, <1>4, <1>5

\* A new pseudostate is a new frame.
LEMMA FramesGrow ==
  ASSUME NEW list, NEW p \in Nat, NEW b \in Nat, p >= b
  PROVE  Frames(list, p + 1, b) = Append(Frames(list, p, b), Lev(list, p + 1))
<1> DEFINE S == FrameSet(list)
           F == Frames(list, p, b)
           G == Frames(list, p + 1, b)
           A == Append(F, Lev(list, p + 1))
           n == p - b + 1
<1>1. /\ F \in Seq(S) /\ Len(F) = n /\ n \in Nat
      /\ \A k \in 1 .. n : F[k] = Lev(list, b + k - 1)
  <2>1. n \in Nat
    OBVIOUS
  <2>2. F \in Seq(S) /\ Len(F) = n /\ \A k \in 1 .. n : F[k] = Lev(list, b + k - 1)
    BY FramesSeq
  <2> QED
    BY <2>1, <2>2
<1>2. /\ G \in Seq(S) /\ Len(G) = n + 1
      /\ \A k \in 1 .. n + 1 : G[k] = Lev(list, b + k - 1)
  <2>1. p + 1 \in Nat /\ p + 1 >= b /\ (p + 1) - b + 1 = n + 1
    OBVIOUS
  <2>2. /\ G \in Seq(S) /\ Len(G) = (p + 1) - b + 1
        /\ \A k \in 1 .. (p + 1) - b + 1 : G[k] = Lev(list, b + k - 1)
    BY <2>1, FramesSeq
  <2> HIDE DEF S, G, n
  <2> QED
    BY <2>1, <2>2
<1>3. Lev(list, p + 1) \in S /\ b + (n + 1) - 1 = p + 1
  BY DEF FrameSet
<1> HIDE DEF S, F, G, n
<1>4. /\ A \in Seq(S) /\ Len(A) = n + 1
      /\ \A i \in 1 .. n : A[i] = F[i]
      /\ A[n + 1] = Lev(list, p + 1)
  BY <1>1, <1>3, AppendProperties
<1>5. ASSUME NEW i \in 1 .. n + 1
      PROVE  G[i] = A[i]
  <2>1. i \in 1 .. n \/ i = n + 1
    BY <1>1
  <2> QED
    BY <1>1, <1>2, <1>3, <1>4, <2>1
<1> HIDE DEF A
<1>6. G = A
  BY <1>2, <1>4, <1>5, SeqEqual
<1> QED
  BY <1>6 DEF G, A, F

\* Outside the merge loops the frames are those of the map.
WalkMapped ==
  /\ AbsFailed = FALSE
  /\ AbsFrames = Frames(updates, pseudostate, base)
  /\ pseudostate \in Nat /\ base \in Nat /\ pseudostate >= base
  /\ updates \in Seq(Update) /\ Unique(updates)
  /\ \A i \in DOMAIN updates : updates[i].state \in base .. pseudostate

InWalk == IInv /\ phase = "walk"

\* Between merges each frame holds the updates of its pseudostate,
LEMMA WalkFrames == InWalk => WalkMapped
<1> SUFFICES ASSUME IInv, phase = "walk"
             PROVE  WalkMapped
  BY DEF InWalk
<1>1. AbsFailed = FALSE /\ ~ Merging
  BY DEF AbsFailed, Merging
<1>2. \A s : AbsFrame(s) = Lev(updates, s)
  BY <1>1, LevelIsLev DEF AbsFrame
<1>3. AbsFrames = [k \in 1 .. pseudostate - base + 1 |-> AbsFrame(base + k - 1)]
  BY <1>1 DEF AbsFrames
<1>4. AbsFrames = Frames(updates, pseudostate, base)
  BY <1>2, <1>3 DEF Frames
<1>5. \A i \in DOMAIN updates : updates[i].state \in base .. pseudostate
  BY <1>1 DEF IInv, StatesInRange
<1>6. updates \in Seq(Update) /\ Unique(updates)
  BY DEF IInv, TypeOK, UniqueKeys, Unique
<1>7. pseudostate \in Nat /\ base \in Nat /\ pseudostate >= base
  BY StateAboveBase DEF IInv
<1> QED
  BY <1>1, <1>4, <1>5, <1>6, <1>7 DEF WalkMapped

\* after a step too.
LEMMA WalkFramesNext == InWalk' => WalkMapped'
  BY WalkFrames, PTL

\* During a merge the last frame holds the updates of two pseudostates.
MergedFrames(list, p, b) ==
  [k \in 1 .. p - b + 1 |->
     IF k = p - b + 1 THEN Abstract!Override(Lev(list, p), Lev(list, p + 1))
     ELSE Lev(list, b + k - 1)]

\* Both pseudostates have updated a location.
Clash(list, p) == \E l \in Loc : Has(list, l, p) /\ Has(list, l, p + 1)

MergeMapped ==
  /\ AbsFailed <=> phase = "merge_seq" /\ Clash(updates, pseudostate)
  /\ AbsFailed => AbsFrames = <<Abstract!Empty>>
  /\ ~ AbsFailed => AbsFrames = MergedFrames(updates, pseudostate, base)
  /\ pseudostate \in Nat /\ base \in Nat /\ pseudostate >= base
  /\ updates \in Seq(Update) /\ Unique(updates)
  /\ \A i \in DOMAIN updates : updates[i].state \in base .. pseudostate + 1

InMerge == IInv /\ Merging

\* In the middle of a merge the last frame holds what both pseudostates say,
LEMMA MergeFrames == InMerge => MergeMapped
<1> SUFFICES ASSUME IInv, Merging
             PROVE  MergeMapped
  BY DEF InMerge
<1>1. AbsFailed <=> phase = "merge_seq" /\ Clash(updates, pseudostate)
  BY DEF AbsFailed, Merging, Clash
<1>2. AbsFailed => AbsFrames = <<Abstract!Empty>>
  BY DEF AbsFrames, Abstract!Empty
<1>3. pseudostate \in Nat /\ base \in Nat /\ pseudostate >= base
  BY StateAboveBase DEF IInv
<1>4. ASSUME ~ AbsFailed
      PROVE  AbsFrames = MergedFrames(updates, pseudostate, base)
  <2>1. AbsFrames = [k \in 1 .. pseudostate - base + 1 |-> AbsFrame(base + k - 1)]
    BY <1>4 DEF AbsFrames
  <2>2. ASSUME NEW k \in 1 .. pseudostate - base + 1
        PROVE  AbsFrame(base + k - 1) =
                 IF k = pseudostate - base + 1
                   THEN Abstract!Override(Lev(updates, pseudostate),
                                          Lev(updates, pseudostate + 1))
                   ELSE Lev(updates, base + k - 1)
    <3>1. CASE k = pseudostate - base + 1
      <4>1. base + k - 1 = pseudostate
        BY <1>3, <3>1
      <4>2. AbsFrame(pseudostate) = Abstract!Override(Lev(updates, pseudostate),
                                                      Lev(updates, pseudostate + 1))
        BY LevelIsLev DEF AbsFrame, Abstract!Override
      <4> QED
        BY <3>1, <4>1, <4>2
    <3>2. CASE k # pseudostate - base + 1
      <4>1. base + k - 1 # pseudostate
        BY <1>3, <3>2
      <4>2. AbsFrame(base + k - 1) = Lev(updates, base + k - 1)
        BY <4>1, LevelIsLev DEF AbsFrame
      <4> QED
        BY <3>2, <4>2
    <3> QED
      BY <3>1, <3>2
  <2> QED
    BY <2>1, <2>2 DEF MergedFrames
<1>5. \A i \in DOMAIN updates : updates[i].state \in base .. pseudostate + 1
  BY DEF IInv, StatesInRange, Merging
<1>6. updates \in Seq(Update) /\ Unique(updates)
  BY DEF IInv, TypeOK, UniqueKeys, Unique
<1> QED
  BY <1>1, <1>2, <1>3, <1>4, <1>5, <1>6 DEF MergeMapped

\* after a step too.
LEMMA MergeFramesNext == InMerge' => MergeMapped'
  BY MergeFrames, PTL

-----------------------------------------------------------------------------
(* Steps of the interpreter as steps of the abstract machine.              *)

\* The abstract state depends on the map, the pseudostate and the phase only.
LEMMA SameMap ==
  ASSUME UNCHANGED <<base, function_states, updates, pseudostate, phase>>
  PROVE  UNCHANGED <<AbsState, AbsFrames, AbsFailed>>
<1>1. AbsState' = AbsState
  BY DEF AbsState
<1>2. AbsFailed' = AbsFailed /\ Merging' = Merging
  BY DEF AbsFailed, Has, Merging
<1>3. \A s : Level(s)' = Level(s)
  BY DEF Level, Has
<1>4. \A s : AbsFrame(s)' = AbsFrame(s)
  BY <1>2, <1>3 DEF AbsFrame
<1>5. AbsFrames' = AbsFrames
  BY <1>2, <1>4 DEF AbsFrames
<1> QED
  BY <1>1, <1>2, <1>5

\* A step that touches neither the map nor the pseudostate is not visible.
LEMMA SharedStep ==
  ASSUME UNCHANGED <<base, function_states, updates, pseudostate, phase, seen>>
  PROVE  UNCHANGED Abstract!avars
  BY SameMap DEF Abstract!avars

\* Entering a block of the other kind opens an empty frame.
LEMMA ForkStep ==
  ASSUME IInv, IInv', phase = "walk", pseudostate' = pseudostate + 1,
         UNCHANGED <<base, function_states, updates, phase, seen>>
  PROVE  Abstract!Begin
<1>1. /\ AbsFailed = FALSE /\ AbsFrames = Frames(updates, pseudostate, base)
      /\ pseudostate \in Nat /\ base \in Nat /\ pseudostate >= base
  BY WalkFrames DEF InWalk, WalkMapped
<1>2. AbsFailed' = FALSE /\ AbsFrames' = Frames(updates, pseudostate + 1, base)
  BY WalkFramesNext DEF InWalk, WalkMapped
<1>3. Lev(updates, pseudostate + 1) = Abstract!Empty
  <2>1. \A i \in DOMAIN updates : updates[i].state # pseudostate + 1
    BY <1>1 DEF IInv, StatesInRange, Merging
  <2>2. \A l \in Loc : ~ Has(updates, l, pseudostate + 1)
    BY <2>1 DEF Has
  <2> QED
    BY <2>2, LevEmpty DEF Abstract!Empty
<1>4. AbsFrames' = Append(AbsFrames, Abstract!Empty)
  BY <1>1, <1>2, <1>3, FramesGrow
<1>5. AbsState' = AbsState
  BY DEF AbsState
<1> QED
  BY <1>1, <1>2, <1>4, <1>5 DEF Abstract!Begin

\* Failure is a truth value.
LEMMA FailedBoolean == AbsFailed \in BOOLEAN /\ AbsFailed' \in BOOLEAN
  BY DEF AbsFailed

\* A merge begins: for the abstract machine the block has ended, or clashed
\* with the parallel block around it.
LEMMA BeginMergeStep ==
  ASSUME IInv, IInv', KindParity', phase = "walk", pseudostate > base,
         NEW kind \in {"merge_par", "merge_seq"}, begin_merge(kind),
         UNCHANGED <<base, function_states, updates, seen>>
  PROVE  Abstract!End \/ Abstract!EndClash
<1> DEFINE p == pseudostate
           q == pseudostate - 1
           n == p - base + 1
           F == Frames(updates, p, base)
<1>1. /\ AbsFailed = FALSE /\ AbsFrames = F
      /\ p \in Nat /\ base \in Nat /\ p >= base
      /\ updates \in Seq(Update) /\ Unique(updates)
  BY WalkFrames DEF InWalk, WalkMapped
<1>2. /\ q \in Nat /\ q >= base /\ q + 1 = p /\ n \in Nat /\ n > 1
      /\ q - base + 1 = n - 1 /\ base + n - 1 = p /\ base + (n - 1) = p
      /\ base + (n - 1) - 1 = q
  BY <1>1
<1>3. phase' = kind /\ pseudostate' = q
  BY DEF begin_merge
<1>4. /\ AbsFailed' <=> kind = "merge_seq" /\ Clash(updates, q)
      /\ AbsFailed' => AbsFrames' = <<Abstract!Empty>>
      /\ ~ AbsFailed' => AbsFrames' = MergedFrames(updates, q, base)
  <2>1. MergeMapped'
    BY <1>3, MergeFramesNext DEF InMerge, Merging
  <2> QED
    BY <1>3, <2>1 DEF MergeMapped
<1>5. /\ Len(F) = n /\ F[n] = Lev(updates, p) /\ F[n - 1] = Lev(updates, q)
      /\ \A k \in 1 .. n : F[k] = Lev(updates, base + k - 1)
  <2>1. /\ Len(F) = n /\ F[n] = Lev(updates, p)
        /\ \A k \in 1 .. n : F[k] = Lev(updates, base + k - 1)
    BY <1>1, FramesSeq
  <2>2. n - 1 \in 1 .. n
    BY <1>2
  <2> HIDE DEF F, n, q
  <2>3. F[n - 1] = Lev(updates, q)
    BY <1>2, <2>1, <2>2
  <2> QED
    BY <2>1, <2>3
<1>6. Abstract!Depth = n
  BY <1>1, <1>5 DEF Abstract!Depth
<1> HIDE DEF F, n, q
<1>7. Abstract!Sequential(n - 1) <=> kind = "merge_par"
  <2>1. /\ kind = "merge_seq" => q % 2 = 0
        /\ kind = "merge_par" => q % 2 = 1
    BY <1>3 DEF KindParity
  <2>2. Abstract!Sequential(n - 1) <=> (q + 1) % 2 = 0
    BY <1>2 DEF Abstract!Sequential
  <2> QED
    BY <1>2, <2>1, <2>2
<1>8. Abstract!Disjoint <=> ~ Clash(updates, q)
  <2>1. Abstract!Disjoint <=> DOMAIN Lev(updates, q) \cap DOMAIN Lev(updates, p) = {}
    BY <1>1, <1>5, <1>6 DEF Abstract!Disjoint
  <2>2. \A s \in {p, q} :
          /\ DOMAIN Lev(updates, s) \subseteq Loc
          /\ \A l \in Loc : Has(updates, l, s) <=> l \in DOMAIN Lev(updates, s)
    BY <1>1, LevRelation
  <2> QED
    BY <1>2, <2>1, <2>2 DEF Clash
<1>9. Abstract!Merged = MergedFrames(updates, q, base)
  <2>1. Abstract!Merged =
          [k \in 1 .. n - 1 |->
             IF k = n - 1 THEN Abstract!Override(F[k], F[n]) ELSE F[k]]
    BY <1>1, <1>6 DEF Abstract!Merged
  <2>2. \A k \in 1 .. n - 1 : k \in 1 .. n
    BY <1>2
  <2>3. MergedFrames(updates, q, base) =
          [k \in 1 .. n - 1 |->
             IF k = n - 1 THEN Abstract!Override(Lev(updates, q), Lev(updates, p))
             ELSE Lev(updates, base + k - 1)]
    BY <1>2 DEF MergedFrames
  <2> QED
    BY <1>5, <2>1, <2>2, <2>3
<1>10. AbsState' = AbsState
  BY DEF AbsState
<1>11. CASE AbsFailed'
  <2>1. /\ ~ Abstract!Sequential(n - 1) /\ ~ Abstract!Disjoint
        /\ AbsFailed' = TRUE /\ AbsFrames' = <<Abstract!Empty>>
    BY <1>4, <1>7, <1>8, <1>11, FailedBoolean
  <2> QED
    BY <1>1, <1>2, <1>6, <1>10, <2>1 DEF Abstract!EndClash, Abstract!Fail
<1>12. CASE ~ AbsFailed'
  <2>1. /\ Abstract!Sequential(n - 1) \/ Abstract!Disjoint
        /\ AbsFailed' = FALSE /\ AbsFrames' = MergedFrames(updates, q, base)
    BY <1>4, <1>7, <1>8, <1>12, FailedBoolean
  <2> QED
    BY <1>1, <1>2, <1>6, <1>9, <1>10, <2>1 DEF Abstract!End
<1> QED
  BY <1>11, <1>12

\* The entry that add_update creates holds Undef, as the location did before.
LEMMA EntrySame ==
  ASSUME IInv, NEW l \in Loc, function_states' = WithEntry(l)
  PROVE  AbsState' = AbsState
  BY DEF AbsState, WithEntry, IInv, TypeOK

\* add_update is an update of the innermost block.
LEMMA UpdateStep ==
  ASSUME IInv, IInv', NEW l \in Loc, NEW v \in Val, add_update(l, v)
  PROVE  Abstract!Set(l, v)
<1> DEFINE p == pseudostate
           n == p - base + 1
           u == [loc |-> l, state |-> p, val |-> v]
           F == Frames(updates, p, base)
           single == [k \in {l} |-> v]
<1>1. /\ phase = "walk" /\ phase' = phase /\ ~ Conflicts(l)
      /\ updates' = hashmap_set(updates, u)
      /\ function_states' = WithEntry(l)
      /\ UNCHANGED <<base, pseudostate, seen>>
  BY DEF add_update, Walking
<1>2. /\ AbsFailed = FALSE /\ AbsFrames = F
      /\ p \in Nat /\ base \in Nat /\ p >= base
      /\ updates \in Seq(Update) /\ Unique(updates)
  BY <1>1, WalkFrames DEF InWalk, WalkMapped
<1>3. /\ AbsFailed' = FALSE /\ AbsFrames' = Frames(updates', p, base)
      /\ updates' \in Seq(Update) /\ Unique(updates')
  <2>1. WalkMapped'
    BY <1>1, WalkFramesNext DEF InWalk
  <2> QED
    BY <1>1, <2>1 DEF WalkMapped
<1>4. u \in Update /\ u.loc = l /\ u.state = p /\ u.val = v
  BY <1>2 DEF Update
<1> HIDE DEF u
<1>5. \A k, s, w : At(updates', k, s, w) <=>
        IF k = l /\ s = p THEN w = v ELSE At(updates, k, s, w)
  BY <1>1, <1>2, <1>4, SetAt
<1>6. ASSUME NEW s, s # p
      PROVE  Lev(updates', s) = Lev(updates, s)
  <2>1. \A k \in Loc, w \in Val : At(updates', k, s, w) <=> At(updates, k, s, w)
    BY <1>5, <1>6
  <2> QED
    BY <1>2, <1>3, <2>1, LevSame
<1>7. Lev(updates', p) = Abstract!Override(Lev(updates, p), single)
  <2> DEFINE f == Lev(updates, p)
             g == Abstract!Override(f, single)
             D == DOMAIN f \cup {l}
  <2>1. /\ DOMAIN f \subseteq Loc
        /\ \A k \in Loc, w \in Val : At(updates, k, p, w) <=> k \in DOMAIN f /\ f[k] = w
        /\ \A k \in DOMAIN f : f[k] \in Val
    BY <1>2, LevRelation
  <2>2. DOMAIN single = {l} /\ single[l] = v
    OBVIOUS
  <2>3. g = [k \in D |-> IF k \in {l} THEN single[k] ELSE f[k]]
    BY <2>2 DEF Abstract!Override
  <2> HIDE DEF f, g, single
  <2>4. D \in SUBSET Loc
    BY <2>1
  <2>5. g = [k \in D |-> g[k]]
    BY <2>3
  <2>6. \A k \in D : g[k] = IF k = l THEN v ELSE f[k]
    BY <2>2, <2>3
  <2>7. \A k \in Loc, w \in Val : At(updates', k, p, w) => k \in D
    BY <1>5, <2>1
  <2>8. \A k \in D : At(updates', k, p, g[k]) /\ g[k] \in Val
    BY <1>5, <2>1, <2>6
  <2> HIDE DEF D
  <2>9. Lev(updates', p) = g
    BY <1>3, <2>4, <2>5, <2>7, <2>8, LevIs
  <2> QED
    BY <2>9 DEF g, f
<1>8. /\ Len(F) = n /\ DOMAIN F = 1 .. n /\ n \in 1 .. n /\ F[n] = Lev(updates, p)
      /\ \A k \in 1 .. n : F[k] = Lev(updates, base + k - 1)
  <2>1. n \in 1 .. n
    BY <1>2
  <2>2. /\ Len(F) = n /\ F[n] = Lev(updates, p)
        /\ \A k \in 1 .. n : F[k] = Lev(updates, base + k - 1)
    BY <1>2, FramesSeq
  <2>3. DOMAIN F = 1 .. n
    BY DEF Frames
  <2> QED
    BY <2>1, <2>2, <2>3
<1>9. Abstract!Depth = n
  BY <1>2, <1>8 DEF Abstract!Depth
<1>10. AbsFrames' = [F EXCEPT ![n] = Abstract!Override(F[n], single)]
  <2>1. Frames(updates', p, base) = [k \in 1 .. n |-> Lev(updates', base + k - 1)]
    BY DEF Frames
  <2>2. F = [k \in 1 .. n |-> Lev(updates, base + k - 1)]
    BY DEF Frames
  <2>3. ASSUME NEW k \in 1 .. n
        PROVE  Lev(updates', base + k - 1) =
                 IF k = n THEN Abstract!Override(F[n], single) ELSE F[k]
    <3>1. CASE k = n
      <4>1. base + k - 1 = p
        BY <1>2, <3>1
      <4> HIDE DEF F, n, single
      <4> QED
        BY <1>7, <1>8, <3>1, <4>1
    <3>2. CASE k # n
      <4>1. base + k - 1 # p
        BY <1>2, <3>2
      <4> HIDE DEF F, n, single
      <4> QED
        BY <1>6, <1>8, <3>2, <4>1
    <3> QED
      BY <3>1, <3>2
  <2> HIDE DEF F, n, single
  <2> QED
    BY <1>3, <1>8, <2>1, <2>2, <2>3
<1>11. Abstract!Sequential(n) \/ l \notin DOMAIN F[n]
  <2>1. Abstract!Sequential(n) <=> (p + 1) % 2 = 0
    BY <1>2 DEF Abstract!Sequential
  <2>2. p % 2 # 0 => (p + 1) % 2 = 0
    BY <1>2
  <2>3. Has(updates, l, p) <=> l \in DOMAIN Lev(updates, p)
    BY <1>2, LevRelation
  <2>4. p % 2 # 0 \/ ~ Has(updates, l, p)
    BY <1>1 DEF Conflicts
  <2> HIDE DEF F, n
  <2> QED
    BY <1>8, <2>1, <2>2, <2>3, <2>4
<1>12. AbsState' = AbsState
  BY <1>1, EntrySame
<1> HIDE DEF F, n
<1> QED
  BY <1>1, <1>2, <1>3, <1>9, <1>10, <1>11, <1>12 DEF Abstract!Set

\* A refused update is a clash in the innermost block.
LEMMA ConflictStep ==
  ASSUME IInv, NEW l \in Loc, add_update_conflict(l)
  PROVE  Abstract!SetClash(l)
<1> DEFINE p == pseudostate
           n == p - base + 1
           F == Frames(updates, p, base)
<1>1. /\ phase = "walk" /\ phase' = "error" /\ Conflicts(l)
      /\ function_states' = WithEntry(l)
      /\ UNCHANGED <<base, seen>>
  BY DEF add_update_conflict, Walking
<1>2. /\ AbsFailed = FALSE /\ AbsFrames = F
      /\ p \in Nat /\ base \in Nat /\ p >= base
      /\ updates \in Seq(Update) /\ Unique(updates)
  BY <1>1, WalkFrames DEF InWalk, WalkMapped
<1>3. Len(F) = n /\ F[n] = Lev(updates, p)
  BY <1>2, FramesSeq
<1>4. Abstract!Depth = n
  BY <1>2, <1>3 DEF Abstract!Depth
<1>5. ~ Abstract!Sequential(n)
  <2>1. Abstract!Sequential(n) <=> (p + 1) % 2 = 0
    BY <1>2 DEF Abstract!Sequential
  <2>2. p % 2 = 0
    BY <1>1 DEF Conflicts
  <2> QED
    BY <1>2, <2>1, <2>2
<1>6. l \in DOMAIN F[n]
  BY <1>1, <1>2, <1>3, LevRelation DEF Conflicts
<1>7. AbsFailed' = TRUE /\ AbsFrames' = <<Abstract!Empty>>
  BY <1>1 DEF AbsFailed, AbsFrames, Abstract!Empty
<1>8. AbsState' = AbsState
  BY <1>1, EntrySame
<1> HIDE DEF F, n
<1> QED
  BY <1>1, <1>2, <1>4, <1>5, <1>6, <1>7, <1>8 DEF Abstract!SetClash, Abstract!Fail

\* Two partial functions, one of which overrides the other, after a value has
\* moved from the overriding one to the overridden one.
LEMMA OverrideMoved ==
  ASSUME NEW f, NEW g, NEW f2, NEW g2, NEW x \in DOMAIN g,
         DOMAIN f2 = DOMAIN f \cup {x}, DOMAIN g2 = DOMAIN g \ {x},
         f2[x] = g[x],
         \A k \in DOMAIN f : k # x => f2[k] = f[k],
         \A k \in DOMAIN g2 : g2[k] = g[k]
  PROVE  Abstract!Override(f2, g2) = Abstract!Override(f, g)
<1>1. DOMAIN f2 \cup DOMAIN g2 = DOMAIN f \cup DOMAIN g
  OBVIOUS
<1>2. ASSUME NEW k \in DOMAIN f \cup DOMAIN g
      PROVE  (IF k \in DOMAIN g2 THEN g2[k] ELSE f2[k]) = (IF k \in DOMAIN g THEN g[k] ELSE f[k])
  OBVIOUS
<1> QED
  BY <1>1, <1>2 DEF Abstract!Override

\* An iteration of a merge loop is not visible: the step has failed already,
\* or the frame of the two pseudostates stays what it is.
LEMMA MergeStepStep ==
  ASSUME IInv, IInv', merge_step
  PROVE  UNCHANGED Abstract!avars
<1> DEFINE p == pseudostate
           old == updates[cursor]
           u == [updates[cursor] EXCEPT !.state = @ - 1]
           rest == hashmap_delete(updates, cursor)
           r == hashmap_set(rest, u)
           x == old.loc
           val == old.val
<1>1. /\ Merging /\ ~ OutOfBlock
      /\ updates' = r
      /\ phase' = IF phase = "merge_seq" /\ Has(rest, u.loc, u.state) THEN "error" ELSE phase
      /\ UNCHANGED <<base, function_states, pseudostate, seen>>
  BY DEF merge_step
<1> HIDE DEF r, rest, u
<1>2. MergeMapped
  BY <1>1, MergeFrames DEF InMerge
<1>3. /\ p \in Nat /\ base \in Nat /\ p >= base
      /\ updates \in Seq(Update) /\ Unique(updates)
      /\ \A i \in DOMAIN updates : updates[i].state \in base .. p + 1
  BY <1>2 DEF MergeMapped
<1>4. cursor \in 1 .. Len(updates) /\ cursor \in DOMAIN updates
  BY <1>1 DEF OutOfBlock, IInv, TypeOK
<1>5. old \in Update /\ x \in Loc /\ val \in Val /\ old.state = p + 1
  <2>1. old \in Update
    BY <1>3, <1>4
  <2>2. x \in Loc /\ val \in Val /\ old.state \in Nat
    BY <2>1 DEF Update
  <2>3. ~ (old.state <= p) /\ old.state \in base .. p + 1
    BY <1>1, <1>3, <1>4 DEF OutOfBlock
  <2> QED
    BY <1>3, <2>1, <2>2, <2>3
<1>6. u \in Update /\ u.loc = x /\ u.state = p /\ u.val = val
  <2>1. updates[cursor] \in Update /\ updates[cursor].state - 1 = p
    BY <1>3, <1>5
  <2> QED
    BY <1>3, <2>1 DEF Update, u
<1>7. rest \in Seq(Update) /\ Unique(rest)
  BY <1>3, <1>4, DeleteFacts, DeleteUnique DEF rest
<1>8. r \in Seq(Update) /\ Unique(r)
  <2>1. UniqueKeys' /\ TypeOK'
    BY DEF IInv
  <2> QED
    BY <1>1, <2>1 DEF UniqueKeys, Unique, TypeOK
<1> HIDE DEF x, val, old
<1>9. \A l, s, v : At(rest, l, s, v) <=> At(updates, l, s, v) /\ ~ (l = x /\ s = p + 1)
  BY <1>3, <1>4, <1>5, DeleteAt DEF rest, x, old
<1>10. \A l, s, v : At(r, l, s, v) <=> IF l = x /\ s = p THEN v = val ELSE At(rest, l, s, v)
  BY <1>6, <1>7, SetAt DEF r
<1>11. At(updates, x, p + 1, val)
  BY <1>4, <1>5 DEF At, x, val, old
<1>12. /\ \A l, v : At(r, l, p + 1, v) <=> At(updates, l, p + 1, v) /\ l # x
       /\ \A l, v : At(r, l, p, v) <=> IF l = x THEN v = val ELSE At(updates, l, p, v)
       /\ \A s : s # p /\ s # p + 1 => \A l, v : At(r, l, s, v) <=> At(updates, l, s, v)
  <2>1. p # p + 1
    BY <1>3
  <2> QED
    BY <1>9, <1>10, <2>1
<1>13. AbsState' = AbsState
  BY <1>1 DEF AbsState
<1>14. \A list \in {updates, rest, r} : \A l \in Loc, s \in Nat :
         Has(list, l, s) <=> \E v \in Val : At(list, l, s, v)
  BY <1>3, <1>7, <1>8, HasAt
<1>15. CASE phase = "merge_seq" /\ Has(rest, x, p)
  <2>1. Has(updates, x, p) /\ Has(updates, x, p + 1)
    BY <1>3, <1>5, <1>9, <1>11, <1>14, <1>15
  <2>2. AbsFailed
    BY <1>2, <1>5, <1>15, <2>1 DEF MergeMapped, Clash
  <2>3. phase' = "error"
    BY <1>1, <1>6, <1>15
  <2>4. AbsFailed'
    BY <2>3 DEF AbsFailed
  <2>5. AbsFrames = <<Abstract!Empty>> /\ AbsFrames' = <<Abstract!Empty>>
    BY <2>2, <2>4 DEF AbsFrames, Abstract!Empty
  <2>6. AbsFailed' = AbsFailed
    BY <2>2, <2>4, FailedBoolean
  <2> QED
    BY <1>1, <1>13, <2>5, <2>6 DEF Abstract!avars
<1>16. CASE ~ (phase = "merge_seq" /\ Has(rest, x, p))
  <2>1. phase' = phase
    BY <1>1, <1>6, <1>16
  <2>2. MergeMapped'
    BY <1>1, <2>1, MergeFramesNext DEF InMerge, Merging
  <2>3. /\ AbsFailed' <=> phase = "merge_seq" /\ Clash(r, p)
        /\ AbsFailed' => AbsFrames' = <<Abstract!Empty>>
        /\ ~ AbsFailed' => AbsFrames' = MergedFrames(r, p, base)
    BY <1>1, <2>1, <2>2 DEF MergeMapped
  <2>4. ASSUME phase = "merge_seq"
        PROVE  Clash(r, p) <=> Clash(updates, p)
    <3>1. ~ \E v \in Val : At(updates, x, p, v)
      <4>1. ~ Has(rest, x, p)
        BY <1>16, <2>4
      <4>2. ~ \E v \in Val : At(rest, x, p, v)
        BY <1>3, <1>5, <1>14, <4>1
      <4>3. p # p + 1
        BY <1>3
      <4> QED
        BY <1>9, <4>2, <4>3
    <3>2. \A l \in Loc : Has(r, l, p) /\ Has(r, l, p + 1)
                           <=> Has(updates, l, p) /\ Has(updates, l, p + 1)
      <4> SUFFICES ASSUME NEW l \in Loc
                   PROVE  Has(r, l, p) /\ Has(r, l, p + 1)
                           <=> Has(updates, l, p) /\ Has(updates, l, p + 1)
        OBVIOUS
      <4>1. p \in Nat /\ p + 1 \in Nat
        BY <1>3
      <4>2. CASE l = x
        BY <1>12, <1>14, <3>1, <4>1, <4>2
      <4>3. CASE l # x
        BY <1>12, <1>14, <4>1, <4>3
      <4> QED
        BY <4>2, <4>3
    <3> QED
      BY <3>2 DEF Clash
  <2>5. AbsFailed' = AbsFailed
    <3>1. AbsFailed' <=> AbsFailed
      BY <1>2, <2>3, <2>4 DEF MergeMapped
    <3> QED
      BY <3>1, FailedBoolean
  <2>6. \A s : s # p /\ s # p + 1 => Lev(r, s) = Lev(updates, s)
    BY <1>3, <1>8, <1>12, LevSame
  <2>7. Abstract!Override(Lev(r, p), Lev(r, p + 1)) =
          Abstract!Override(Lev(updates, p), Lev(updates, p + 1))
    <3> DEFINE f == Lev(updates, p)
               g == Lev(updates, p + 1)
               f2 == Lev(r, p)
               g2 == Lev(r, p + 1)
    <3>1. /\ DOMAIN f \subseteq Loc
          /\ \A l \in Loc, v \in Val : At(updates, l, p, v) <=> l \in DOMAIN f /\ f[l] = v
          /\ \A l \in DOMAIN f : f[l] \in Val
      BY <1>3, LevRelation
    <3>2. /\ DOMAIN g \subseteq Loc
          /\ \A l \in Loc, v \in Val : At(updates, l, p + 1, v) <=> l \in DOMAIN g /\ g[l] = v
          /\ \A l \in DOMAIN g : g[l] \in Val
      BY <1>3, LevRelation
    <3>3. /\ DOMAIN f2 \subseteq Loc
          /\ \A l \in Loc, v \in Val : At(r, l, p, v) <=> l \in DOMAIN f2 /\ f2[l] = v
          /\ \A l \in DOMAIN f2 : f2[l] \in Val
      BY <1>8, LevRelation
    <3>4. /\ DOMAIN g2 \subseteq Loc
          /\ \A l \in Loc, v \in Val : At(r, l, p + 1, v) <=> l \in DOMAIN g2 /\ g2[l] = v
          /\ \A l \in DOMAIN g2 : g2[l] \in Val
      BY <1>8, LevRelation
    <3> HIDE DEF f, g, f2, g2
    <3>5. x \in DOMAIN g /\ g[x] = val
      BY <1>5, <1>11, <3>2
    <3>6. x \in DOMAIN f2 /\ f2[x] = val
      BY <1>5, <1>12, <3>3
    <3>7. ASSUME NEW l \in Loc, l # x
          PROVE  /\ l \in DOMAIN f2 <=> l \in DOMAIN f
                 /\ l \in DOMAIN f => f2[l] = f[l]
                 /\ l \in DOMAIN g2 <=> l \in DOMAIN g
                 /\ l \in DOMAIN g2 => g2[l] = g[l]
      <4>1. \A v \in Val : At(r, l, p, v) <=> At(updates, l, p, v)
        BY <1>12, <3>7
      <4>2. \A v \in Val : At(r, l, p + 1, v) <=> At(updates, l, p + 1, v)
        BY <1>12, <3>7
      <4> QED
        BY <3>1, <3>2, <3>3, <3>4, <4>1, <4>2
    <3>8. x \notin DOMAIN g2
      BY <1>12, <3>4
    <3>9. DOMAIN f2 = DOMAIN f \cup {x} /\ DOMAIN g2 = DOMAIN g \ {x}
      <4>1. /\ DOMAIN f \subseteq Loc /\ DOMAIN g \subseteq Loc
            /\ DOMAIN f2 \subseteq Loc /\ DOMAIN g2 \subseteq Loc
        BY <3>1, <3>2, <3>3, <3>4
      <4>2. \A l \in Loc : l # x => /\ l \in DOMAIN f2 <=> l \in DOMAIN f
                                    /\ l \in DOMAIN g2 <=> l \in DOMAIN g
        BY <3>7
      <4> QED
        BY <1>5, <3>6, <3>8, <4>1, <4>2
    <3>10. Abstract!Override(f2, g2) = Abstract!Override(f, g)
      BY <3>1, <3>4, <3>5, <3>6, <3>7, <3>8, <3>9, OverrideMoved
    <3> QED
      BY <3>10 DEF f, g, f2, g2
  <2>8. MergedFrames(r, p, base) = MergedFrames(updates, p, base)
    <3>1. \A k \in 1 .. p - base + 1 :
            k # p - base + 1 => base + k - 1 # p /\ base + k - 1 # p + 1
      BY <1>3
    <3> QED
      BY <2>6, <2>7, <3>1 DEF MergedFrames
  <2>9. AbsFrames' = AbsFrames
    BY <1>2, <2>3, <2>5, <2>8 DEF MergeMapped
  <2> QED
    BY <1>1, <1>13, <2>5, <2>9 DEF Abstract!avars
<1> QED
  BY <1>15, <1>16

\* The end of a merge loop: nothing is left in the pseudostate of the block.
LEMMA MergeEndStep ==
  ASSUME IInv, IInv', merge_end
  PROVE  UNCHANGED Abstract!avars
<1> DEFINE p == pseudostate
<1>1. /\ Merging /\ phase' = "walk"
      /\ UNCHANGED <<base, function_states, updates, pseudostate, seen>>
  BY DEF merge_end
<1>2. MergeMapped
  BY <1>1, MergeFrames DEF InMerge
<1>3. WalkMapped'
  BY <1>1, WalkFramesNext DEF InWalk
<1>4. /\ AbsFailed' = FALSE /\ AbsFrames' = Frames(updates, p, base)
      /\ p \in Nat /\ base \in Nat /\ p >= base
      /\ updates \in Seq(Update) /\ Unique(updates)
      /\ \A i \in DOMAIN updates : updates[i].state \in base .. p
  BY <1>1, <1>3 DEF WalkMapped
<1>5. \A l \in Loc : ~ Has(updates, l, p + 1)
  BY <1>4 DEF Has
<1>6. ~ AbsFailed
  BY <1>2, <1>5 DEF MergeMapped, Clash
<1>7. Abstract!Override(Lev(updates, p), Lev(updates, p + 1)) = Lev(updates, p)
  <2>1. Lev(updates, p + 1) = [l \in {} |-> Undef]
    BY <1>5, LevEmpty
  <2>2. Lev(updates, p) = [l \in DOMAIN Lev(updates, p) |-> Lev(updates, p)[l]]
    BY <1>4, LevRelation
  <2> QED
    BY <2>1, <2>2 DEF Abstract!Override
<1>8. MergedFrames(updates, p, base) = Frames(updates, p, base)
  <2>1. \A k \in 1 .. p - base + 1 : k = p - base + 1 => base + k - 1 = p
    BY <1>4
  <2> QED
    BY <1>7, <2>1 DEF MergedFrames, Frames
<1>9. AbsFrames' = AbsFrames
  BY <1>2, <1>4, <1>6, <1>8 DEF MergeMapped
<1>10. AbsFailed' = AbsFailed /\ AbsState' = AbsState
  BY <1>1, <1>4, <1>6, FailedBoolean DEF AbsState
<1> QED
  BY <1>1, <1>9, <1>10 DEF Abstract!avars

\* What get_function_value finds is what the stack of blocks shows.
LEMMA ReadsValue ==
  ASSUME IInv, phase = "walk", NEW l \in Loc
  PROVE  FunctionValue(l) = Abstract!Value(l)
<1> DEFINE p == pseudostate
           n == p - base + 1
           F == Frames(updates, p, base)
           V == VisibleStates(l)
           H == Abstract!Holders(l)
<1>1. /\ AbsFrames = F
      /\ p \in Nat /\ base \in {0, 1} /\ base \in Nat /\ p >= base
      /\ updates \in Seq(Update) /\ Unique(updates)
      /\ \A i \in DOMAIN updates : updates[i].state \in base .. p
  BY WalkFrames DEF InWalk, WalkMapped, IInv, TypeOK
<1>2. /\ Len(F) = n
      /\ \A k \in 1 .. n : F[k] = Lev(updates, base + k - 1)
  BY <1>1, FramesSeq
<1>3. \A s \in Nat : Has(updates, l, s) <=> l \in DOMAIN Lev(updates, s)
  BY <1>1, LevRelation
<1>4. H = {k \in 1 .. n : (base + k) % 2 = 0 /\ l \in DOMAIN F[k]}
  BY <1>1, <1>2 DEF Abstract!Holders, Abstract!Depth, Abstract!Sequential
<1> HIDE DEF F
<1>5. \A k \in 1 .. n : k \in H <=> (base + k) % 2 = 0 /\ Has(updates, l, base + k - 1)
  <2>1. \A k \in 1 .. n : base + k - 1 \in Nat
    BY <1>1
  <2> QED
    BY <1>2, <1>3, <1>4, <2>1
<1>6. ASSUME NEW k \in H
      PROVE  base + k - 1 \in V /\ k \in 1 .. n
  <2>1. k \in 1 .. n /\ (base + k) % 2 = 0 /\ Has(updates, l, base + k - 1)
    BY <1>4, <1>5
  <2>2. base + k - 1 \in 1 .. p /\ (base + k - 1) % 2 = 1
    <3> DEFINE a == base + k
    <3>1. /\ a \in Nat /\ a >= 1 /\ a - 1 <= p /\ a % 2 = 0
          /\ base + k - 1 = a - 1
      BY <1>1, <2>1
    <3> HIDE DEF a
    <3>2. a >= 2 /\ (a - 1) % 2 = 1
      BY <3>1
    <3>3. a - 1 \in 1 .. p
      BY <1>1, <3>1, <3>2
    <3> QED
      BY <3>1, <3>2, <3>3
  <2> QED
    BY <2>1, <2>2 DEF VisibleStates
<1>7. ASSUME NEW s \in V
      PROVE  s - base + 1 \in H /\ s \in 1 .. p /\ Has(updates, l, s)
  <2>1. s \in 1 .. p /\ s % 2 = 1 /\ Has(updates, l, s)
    BY DEF VisibleStates
  <2>2. /\ s - base + 1 \in 1 .. n /\ base + (s - base + 1) - 1 = s
        /\ (base + (s - base + 1)) % 2 = 0
    <3>1. /\ s - base + 1 \in 1 .. n /\ base + (s - base + 1) - 1 = s
          /\ base + (s - base + 1) = s + 1 /\ s \in Nat
      BY <1>1, <2>1
    <3>2. (s + 1) % 2 = 0
      BY <2>1, <3>1
    <3> QED
      BY <3>1, <3>2
  <2> QED
    BY <1>5, <2>1, <2>2
<1> HIDE DEF H, V
<1>8. CASE V = {}
  <2>1. H = {}
    BY <1>6, <1>8
  <2>2. Abstract!Value(l) = AbsState[l]
    BY <2>1 DEF Abstract!Value, H
  <2> QED
    BY <1>8, <2>2 DEF FunctionValue, AbsState, V
<1>9. CASE V # {}
  <2>1. PICK t \in V : \A s \in V : s <= t
    <3>1. V \subseteq 1 .. p
      BY <1>7
    <3> QED
      BY <1>1, <1>9, <3>1, NatMax
  <2>2. /\ t \in 1 .. p /\ Has(updates, l, t) /\ t - base + 1 \in H
        /\ t - base + 1 \in 1 .. n
    BY <1>6, <1>7, <2>1
  <2> DEFINE m == t - base + 1
             c == CHOOSE s \in V : \A w \in V : w <= s
             d == CHOOSE k \in H : \A h \in H : h <= k
  <2>3. \A h \in H : h <= m
    <3> SUFFICES ASSUME NEW h \in H
                 PROVE  h <= m
      OBVIOUS
    <3>1. base + h - 1 \in V /\ h \in 1 .. n
      BY <1>6
    <3>2. base + h - 1 <= t
      BY <2>1, <3>1
    <3> QED
      BY <1>1, <2>2, <3>1, <3>2
  <2>4. c = t
    <3>1. c \in V /\ \A w \in V : w <= c
      BY <2>1
    <3>2. c <= t /\ t <= c /\ c \in 1 .. p
      BY <1>7, <2>1, <3>1
    <3> HIDE DEF c
    <3> QED
      BY <1>1, <2>2, <3>2
  <2>5. d = m
    <3>1. m \in H /\ m \in 1 .. n
      BY <2>2
    <3>2. d \in H /\ \A h \in H : h <= d
      BY <2>3, <3>1
    <3>3. d <= m /\ m <= d /\ d \in 1 .. n
      BY <1>6, <2>3, <3>1, <3>2
    <3> HIDE DEF d, m
    <3> QED
      BY <1>1, <3>1, <3>3
  <2>6. Abstract!Value(l) = Lev(updates, t)[l]
    <3>1. H # {}
      BY <2>2
    <3>2. Abstract!Value(l) = F[d][l]
      BY <1>1, <3>1 DEF Abstract!Value, H
    <3>3. F[m] = Lev(updates, t)
      <4>1. m \in 1 .. n /\ base + m - 1 = t
        BY <1>1, <2>2
      <4> HIDE DEF m
      <4> QED
        BY <1>2, <4>1
    <3> HIDE DEF d, m
    <3> QED
      BY <2>5, <3>2, <3>3
  <2>7. l \in DOMAIN function_states
    <3>1. PICK i \in DOMAIN updates : updates[i].loc = l
      BY <2>2 DEF Has
    <3> QED
      BY <3>1 DEF IInv, UpdatesHaveEntries
  <2>8. FunctionValue(l) =
          updates[CHOOSE k \in DOMAIN updates : updates[k].loc = l /\ updates[k].state = t].val
    <3> HIDE DEF m, d
    <3>1. FunctionValue(l) =
            updates[CHOOSE k \in DOMAIN updates : updates[k].loc = l /\ updates[k].state = c].val
      BY <1>9, <2>7 DEF FunctionValue, V
    <3> HIDE DEF c
    <3> QED
      BY <2>4, <3>1
  <2>9. Lev(updates, t)[l] =
          updates[CHOOSE k \in DOMAIN updates : updates[k].loc = l /\ updates[k].state = t].val
    BY <2>2 DEF Lev
  <2> QED
    BY <2>6, <2>8, <2>9
<1> QED
  BY <1>8, <1>9

\* [k \in 1 .. 1 |-> x] is the sequence of x.
LEMMA OneFrame ==
  ASSUME NEW list, NEW b \in Nat
  PROVE  Frames(list, b, b) = <<Lev(list, b)>>
<1>1. b - b + 1 = 1 /\ \A k \in 1 .. 1 : k = 1 /\ b + k - 1 = b
  OBVIOUS
<1>2. Frames(list, b, b) = [k \in 1 .. 1 |-> Lev(list, b)]
  BY <1>1 DEF Frames
<1> QED
  BY <1>2

\* apply_updates gives the state the updates of the outermost block.
LEMMA CommitStep ==
  ASSUME IInv, IInv', apply_updates
  PROVE  Abstract!Commit
<1> DEFINE f == Lev(updates, base)
<1>1. /\ phase = "walk" /\ blocks = <<>> /\ phase' = phase /\ updates' = <<>>
      /\ UNCHANGED <<base, pseudostate, seen>>
      /\ function_states' =
           [l \in DOMAIN function_states \cup {updates[i].loc : i \in DOMAIN updates}
              |-> Written(l)]
  BY DEF apply_updates
<1>2. /\ pseudostate = base
      /\ \A i, j \in DOMAIN updates : updates[i].loc = updates[j].loc => i = j
  BY <1>1, OneEntryPerLocation
<1>3. /\ AbsFailed = FALSE /\ AbsFrames = <<f>> /\ base \in Nat
      /\ updates \in Seq(Update) /\ Unique(updates)
      /\ \A i \in DOMAIN updates : updates[i].state = base
  <2>1. WalkMapped
    BY <1>1, WalkFrames DEF InWalk
  <2> QED
    BY <1>2, <2>1, OneFrame DEF WalkMapped
<1>4. AbsFailed' = FALSE /\ AbsFrames' = <<Abstract!Empty>>
  <2>1. WalkMapped'
    BY <1>1, WalkFramesNext DEF InWalk
  <2>2. Lev(<<>>, base) = Abstract!Empty
    <3>1. \A l \in Loc : ~ Has(<<>>, l, base)
      BY DEF Has
    <3> QED
      BY <3>1, LevEmpty DEF Abstract!Empty
  <2>3. Frames(<<>>, base, base) = <<Lev(<<>>, base)>>
    BY <1>3, OneFrame
  <2> QED
    BY <1>1, <1>2, <2>1, <2>2, <2>3 DEF WalkMapped
<1>5. /\ f = [l \in DOMAIN f |-> f[l]] /\ DOMAIN f \subseteq Loc
      /\ \A l \in Loc, v \in Val : At(updates, l, base, v) <=> l \in DOMAIN f /\ f[l] = v
      /\ \A l \in Loc : Has(updates, l, base) <=> l \in DOMAIN f
  BY <1>3, LevRelation
<1> HIDE DEF f
<1>6. {updates[i].loc : i \in DOMAIN updates} \subseteq DOMAIN function_states
  BY DEF IInv, UpdatesHaveEntries
<1>7. DOMAIN function_states \subseteq Loc
  BY DEF IInv, TypeOK
<1>8. function_states' = [l \in DOMAIN function_states |-> Written(l)]
  BY <1>1, <1>6
<1>9. ASSUME NEW l \in Loc
      PROVE  AbsState'[l] = IF l \in DOMAIN f THEN f[l] ELSE AbsState[l]
  <2>1. AbsState'[l] = IF l \in DOMAIN function_states THEN Written(l) ELSE Undef
    BY <1>8 DEF AbsState
  <2>2. CASE l \in DOMAIN f
    <3>1. PICK i \in DOMAIN updates : updates[i].loc = l
      BY <1>5, <2>2 DEF Has
    <3> DEFINE at == {j \in DOMAIN updates : updates[j].loc = l}
    <3>2. at = {i}
      BY <1>2, <3>1
    <3>3. i \in Nat
      BY <1>3, <3>1
    <3>4. (CHOOSE k \in at : \A j \in at : k <= j) = i
      <4> HIDE DEF at
      <4> QED
        BY <3>2, <3>3
    <3>5. Written(l) = updates[i].val
      BY <3>2, <3>4 DEF Written
    <3>6. updates[i] \in Update
      BY <1>3, <3>1
    <3>7. updates[i].val \in Val
      BY <3>6 DEF Update
    <3>8. At(updates, l, base, updates[i].val)
      BY <1>3, <3>1 DEF At
    <3>9. f[l] = updates[i].val
      BY <1>5, <3>7, <3>8
    <3>10. l \in DOMAIN function_states
      BY <1>6, <3>1
    <3> QED
      BY <2>1, <2>2, <3>5, <3>9, <3>10
  <2>3. CASE l \notin DOMAIN f
    <3>1. {i \in DOMAIN updates : updates[i].loc = l} = {}
      BY <1>3, <1>5, <2>3 DEF Has
    <3>2. Written(l) = function_states[l]
      BY <3>1 DEF Written
    <3> QED
      BY <2>1, <2>3, <3>2 DEF AbsState
  <2> QED
    BY <2>2, <2>3
<1>10. AbsState' = Abstract!Override(AbsState, f)
  <2>1. DOMAIN AbsState = Loc /\ AbsState' = [l \in Loc |-> AbsState'[l]]
    BY DEF AbsState
  <2>2. DOMAIN AbsState \cup DOMAIN f = Loc
    BY <1>5, <2>1
  <2> QED
    BY <1>9, <2>1, <2>2 DEF Abstract!Override
<1>11. Abstract!Depth = 1 /\ AbsFrames[1] = f
  BY <1>3 DEF Abstract!Depth
<1> QED
  BY <1>1, <1>3, <1>4, <1>10, <1>11 DEF Abstract!Commit

\* The initial states of the interpreter are initial states of the blocks.
LEMMA RefinesInit == Init => Abstract!AInit
<1> SUFFICES ASSUME Init
             PROVE  Abstract!AInit
  OBVIOUS
<1>1. InWalk /\ pseudostate = base /\ updates = <<>> /\ base \in {0, 1} /\ seen = Undef
  BY InitIInv DEF InWalk, Init
<1>2. AbsFailed = FALSE /\ AbsFrames = Frames(<<>>, base, base) /\ base \in Nat
  BY <1>1, WalkFrames DEF WalkMapped
<1>3. AbsFrames = <<Abstract!Empty>>
  <2>1. Lev(<<>>, base) = Abstract!Empty
    <3>1. \A l \in Loc : ~ Has(<<>>, l, base)
      BY DEF Has
    <3> QED
      BY <3>1, LevEmpty DEF Abstract!Empty
  <2> QED
    BY <1>2, <2>1, OneFrame
<1>4. AbsState \in [Loc -> Val]
  <2>1. function_states \in [DOMAIN function_states -> Val]
    BY <1>1 DEF InWalk, IInv, TypeOK
  <2> QED
    BY <2>1, UpdateSetAssumption DEF AbsState
<1> QED
  BY <1>1, <1>2, <1>3, <1>4 DEF Abstract!AInit

\* get_function_value reads what a statement of the innermost block sees.
LEMMA ReadStep ==
  ASSUME IInv, NEW l \in Loc, get_function_value(l)
  PROVE  Abstract!Read(l)
<1>1. /\ phase = "walk" /\ seen' = FunctionValue(l)
      /\ UNCHANGED <<base, function_states, updates, pseudostate, phase>>
  BY DEF get_function_value, Walking
<1>2. AbsFailed = FALSE
  BY <1>1, WalkFrames DEF InWalk, WalkMapped
<1>3. FunctionValue(l) = Abstract!Value(l)
  BY <1>1, ReadsValue
<1>4. UNCHANGED <<AbsState, AbsFrames, AbsFailed>>
  BY <1>1, SameMap
<1> QED
  BY <1>1, <1>2, <1>3, <1>4 DEF Abstract!Read

\* Entering a block begins one for the abstract machine if it forks.
LEMMA EnterStep ==
  ASSUME IInv, IInv', NEW forked \in BOOLEAN, phase = "walk", Fork(forked),
         UNCHANGED <<base, function_states, updates, phase, seen>>
  PROVE  Abstract!Begin \/ UNCHANGED Abstract!avars
<1>1. CASE forked
  <2>1. pseudostate' = pseudostate + 1
    BY <1>1 DEF Fork
  <2> QED
    BY <2>1, ForkStep
<1>2. CASE ~ forked
  <2>1. pseudostate' = pseudostate
    BY <1>2 DEF Fork
  <2> QED
    BY <2>1, SharedStep
<1> QED
  BY <1>1, <1>2

\* Leaving a block ends one, or fails, if it has forked.
LEMMA LeaveStep ==
  ASSUME IInv, IInv', KindParity, KindParity', NEW kind,
         NEW merge \in {"merge_par", "merge_seq"}, Leave(kind, merge)
  PROVE  Abstract!End \/ Abstract!EndClash \/ UNCHANGED Abstract!avars
<1>1. /\ phase = "walk" /\ blocks # <<>>
      /\ UNCHANGED <<base, function_states, updates, seen>>
  BY DEF Leave
<1>2. CASE Top.forked
  <2>1. begin_merge(merge)
    BY <1>2 DEF Leave
  <2>2. pseudostate \in Nat /\ base \in Nat /\ pseudostate - 1 >= base
    BY <1>1, <1>2, TopParity DEF IInv, TypeOK
  <2>3. pseudostate > base
    BY <2>2
  <2> QED
    BY <1>1, <2>1, <2>3, BeginMergeStep
<1>3. CASE ~ Top.forked
  <2>1. UNCHANGED <<pseudostate, phase>>
    BY <1>3 DEF Leave
  <2> QED
    BY <1>1, <2>1, SharedStep
<1> QED
  BY <1>2, <1>3

\* Every step of the interpreter is a step of the blocks, or leaves them alone.
LEMMA RefinesNext ==
  ASSUME IInv, IInv', KindParity, KindParity', [Next]_vars
  PROVE  Abstract!ANext \/ UNCHANGED Abstract!avars
<1>1. CASE \E l \in Loc : get_function_value(l)
  BY <1>1, ReadStep DEF Abstract!ANext
<1>2. CASE \E l \in Loc : add_update_conflict(l)
  BY <1>2, ConflictStep DEF Abstract!ANext
<1>3. CASE \E l \in Loc, v \in Val : add_update(l, v)
  BY <1>3, UpdateStep DEF Abstract!ANext
<1>4. CASE walk_seqblock \/ walk_parblock \/ walk_iterate \/ begin_round
  <2>1. /\ phase = "walk" /\ \E forked \in BOOLEAN : Fork(forked)
        /\ UNCHANGED <<base, function_states, updates, phase, seen>>
    <3>1. Parallel \in BOOLEAN /\ (~ Parallel) \in BOOLEAN
      BY DEF Parallel
    <3> QED
      BY <1>4, <3>1 DEF walk_seqblock, walk_parblock, walk_iterate, begin_round, Walking
  <2> QED
    BY <2>1, EnterStep DEF Abstract!ANext
<1>5. CASE leave_seqblock \/ leave_parblock \/ leave_iterate
  <2>1. \E kind, merge : merge \in {"merge_par", "merge_seq"} /\ Leave(kind, merge)
    BY <1>5 DEF leave_seqblock, leave_parblock, leave_iterate
  <2> QED
    BY <2>1, LeaveStep DEF Abstract!ANext
<1>6. CASE end_round
  <2>1. /\ phase = "walk" /\ blocks # <<>> /\ begin_merge("merge_par")
        /\ UNCHANGED <<base, function_states, updates, seen>>
    BY <1>6 DEF end_round
  <2>2. pseudostate \in Nat /\ base \in Nat /\ pseudostate - 1 >= base
    BY <1>6, <2>1, EndRoundBlocks, TopParity DEF IInv, TypeOK
  <2>3. pseudostate > base
    BY <2>2
  <2> QED
    BY <2>1, <2>3, BeginMergeStep DEF Abstract!ANext
<1>7. CASE merge_step
  BY <1>7, MergeStepStep
<1>8. CASE merge_end
  BY <1>8, MergeEndStep
<1>9. CASE apply_updates
  BY <1>9, CommitStep DEF Abstract!ANext
<1>10. CASE stopped \/ UNCHANGED vars
  BY <1>10, SharedStep DEF stopped, vars
<1> QED
  BY <1>1, <1>2, <1>3, <1>4, <1>5, <1>6, <1>7, <1>8, <1>9, <1>10 DEF Next

\* The update set implements the stack of blocks: whatever the program, reads
\* see the sequential blocks around them and nothing of a parallel block, a step
\* fails exactly when two updates of one parallel block meet, and the state
\* changes only at the end of a step (add_update, get_function_value, merge_par,
\* merge_seq and apply_updates of execution_context.cpp).
THEOREM Refinement == Spec => ImplementsBlocks
<1>1. IInv /\ IInv' /\ KindParity /\ KindParity' /\ [Next]_vars
        => [Abstract!ANext]_(Abstract!avars)
  BY RefinesNext
<1>2. Spec => []IInv
  BY Invariance
<1>3. Spec => []KindParity
  BY ParityInvariance
<1> QED
  BY RefinesInit, <1>1, <1>2, <1>3, PTL DEF Spec, ImplementsBlocks, Abstract!ASpec

=============================================================================

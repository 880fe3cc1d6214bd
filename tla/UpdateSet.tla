------------------------------ MODULE UpdateSet ------------------------------
(***************************************************************************)
(* The update set of the interpreter: ExecutionContext's `updateset`, the  *)
(* linked hash map that holds the updates of the running step, and the     *)
(* operations the AST walker performs on it.                               *)
(*                                                                         *)
(* An update is stored under the key (location << 16 | pseudostate). An    *)
(* even pseudostate is a parallel block, an odd one a sequential block,    *)
(* and nesting a block of the other kind adds one ("fork"). Leaving the    *)
(* block merges its entries into the enclosing pseudostate, by a loop that *)
(* walks the linked list back from its tail and stops at the first entry   *)
(* that does not belong to the block.                                      *)
(*                                                                         *)
(* The program is left open: blocks are entered and left, functions read   *)
(* and updated in any order a program can. One merge is a sequence of      *)
(* steps here, one per iteration of the loop; nothing else may happen      *)
(* until it ends, as in the single-threaded program.                       *)
(***************************************************************************)
EXTENDS Integers, Sequences

CONSTANTS
  Loc,        \* locations: a function symbol with its argument values
  Val,        \* values a location can hold, Undef included
  Undef,      \* value_t() of type UNDEF
  MaxState,   \* bound on the pseudostate (16 bits of the key in the code)
  MaxBlocks   \* bound on the walker's nesting

ASSUME UpdateSetAssumption ==
  /\ Undef \in Val
  /\ MaxState \in Nat
  /\ MaxBlocks \in Nat

VARIABLES
  base,             \* the pseudostate of the main loop: 1 if the init rule is a
                    \* par block, else 0; it never changes
  function_states,  \* the partial function from locations to values
  updates,          \* updateset.set, from head to tail
  pseudostate,      \* updateset.pseudostate
  blocks,           \* activation records of walk_seqblock, walk_parblock, ...
  phase,            \* what the interpreter is doing
  cursor,           \* the index of the bucket `j` of a merge loop
  seen              \* the result of the last get_function_value

vars == <<base, function_states, updates, pseudostate, blocks, phase, cursor, seen>>

Update == [loc : Loc, state : Nat, val : Val]

(* An activation record. `forked` and `running` are the local variables of *)
(* the same name; `outer`, the pseudostate at entry, is auxiliary and read *)
(* by properties only.                                                     *)
Block == [kind : {"seq", "par", "iterate", "round"}, forked : BOOLEAN,
          running : BOOLEAN, outer : Nat]

(* The constructor: pseudostate 1 when the init rule is a par block and 0  *)
(* otherwise, no update. The functions hold what their initializers *)
(* have given them.                                                        *)
Init ==
  /\ \E D \in SUBSET Loc : function_states \in [D -> Val]
  /\ updates = <<>>
  /\ base \in {0, 1}
  /\ pseudostate = base
  /\ blocks = <<>>
  /\ phase = "walk"
  /\ cursor = 0
  /\ seen = Undef

-----------------------------------------------------------------------------
(* The linked hash map of the runtime library.                             *)

Has(list, l, s) == \E i \in DOMAIN list : list[i].loc = l /\ list[i].state = s

\* Mutants of hashmap_set: the key is not looked up; new buckets are linked
\* behind the head.
hashmap_set_no_lookup(list, u) == Append(list, u)
hashmap_set_at_head(list, u) ==
  IF Has(list, u.loc, u.state)
    THEN [i \in DOMAIN list |->
            IF list[i].loc = u.loc /\ list[i].state = u.state THEN u ELSE list[i]]
    ELSE <<u>> \o list

\* pp_hashmap_set: replaces the value of a key in place, or links a new bucket
\* in front of the tail.
hashmap_set(list, u) ==
  IF Has(list, u.loc, u.state)
    THEN [i \in DOMAIN list |->
            IF list[i].loc = u.loc /\ list[i].state = u.state THEN u ELSE list[i]]
    ELSE Append(list, u)

\* pp_hashmap_delete: unlinks one bucket.
hashmap_delete(list, k) ==
  [i \in 1 .. Len(list) - 1 |-> IF i < k THEN list[i] ELSE list[i + 1]]

\* Mutant: empty only if the whole list is.
updateset_empty_whole == updates = <<>>

\* CASM_UPDATESET_EMPTY: the last bucket does not belong to this pseudostate.
updateset_empty ==
  updates = <<>> \/ updates[Len(updates)].state < pseudostate

-----------------------------------------------------------------------------
(* Reading and updating functions.                                         *)

\* The walker may start a statement: it is not inside a merge loop, and not
\* between two rounds of an iterate.
Walking ==
  /\ phase = "walk"
  /\ blocks # <<>> => blocks[Len(blocks)].kind # "iterate"

\* Mutant: parallel pseudostates are searched too.
VisibleStates_all(l) == {s \in 0 .. pseudostate : Has(updates, l, s)}

\* The pseudostates get_function_value looks at, from the innermost outwards:
\* the sequential ones. What parallel blocks have collected is not visible.
VisibleStates(l) ==
  {s \in 1 .. pseudostate : s % 2 = 1 /\ Has(updates, l, s)}

\* get_function_value. A location that has no entry is undef, whatever the
\* update set holds.
FunctionValue(l) ==
  IF l \notin DOMAIN function_states THEN Undef
  ELSE IF VisibleStates(l) = {} THEN function_states[l]
  ELSE LET s == CHOOSE t \in VisibleStates(l) : \A r \in VisibleStates(l) : r <= t
           i == CHOOSE k \in DOMAIN updates : updates[k].loc = l /\ updates[k].state = s
       IN  updates[i].val

get_function_value(l) ==
  /\ Walking
  /\ seen' = FunctionValue(l)
  /\ UNCHANGED <<base, function_states, updates, pseudostate, blocks, phase, cursor>>

\* Mutant: no entry is created.
WithEntry_missing(l) == function_states

\* The entry for a location is created before its first update.
WithEntry(l) ==
  [k \in DOMAIN function_states \cup {l} |->
     IF k \in DOMAIN function_states THEN function_states[k] ELSE Undef]

\* Mutant: sequential pseudostates refuse too.
Conflicts_always(l) == Has(updates, l, pseudostate)

\* casm_updateset_add refuses a second update of a location in a parallel
\* pseudostate and replaces the first one in a sequential one.
Conflicts(l) == pseudostate % 2 = 0 /\ Has(updates, l, pseudostate)

add_update(l, v) ==
  /\ Walking
  /\ ~ Conflicts(l)
  /\ function_states' = WithEntry(l)
  /\ updates' = hashmap_set(updates, [loc |-> l, state |-> pseudostate, val |-> v])
  /\ UNCHANGED <<base, pseudostate, blocks, phase, cursor, seen>>

\* "update conflict in parallel block": the exception ends the process.
add_update_conflict(l) ==
  /\ Walking
  /\ Conflicts(l)
  /\ function_states' = WithEntry(l)
  /\ phase' = "error"
  /\ UNCHANGED <<base, updates, pseudostate, blocks, cursor, seen>>

-----------------------------------------------------------------------------
(* Entering and leaving blocks. A block forks only when the pseudostate is *)
(* of the other kind: a seq block in a seq block shares its pseudostate.   *)

Parallel == pseudostate % 2 = 0

Enter(b) == blocks' = Append(blocks, b)

NewBlock(kind, forked) ==
  [kind |-> kind, forked |-> forked, running |-> TRUE, outer |-> pseudostate]

Fork(forked) == pseudostate' = IF forked THEN pseudostate + 1 ELSE pseudostate

walk_seqblock ==
  /\ Walking /\ Len(blocks) < MaxBlocks /\ pseudostate < MaxState
  /\ Enter(NewBlock("seq", Parallel))
  /\ Fork(Parallel)
  /\ UNCHANGED <<base, function_states, updates, phase, cursor, seen>>

\* Mutant: `forked = true` is forgotten.
walk_parblock_not_forked ==
  /\ Walking /\ Len(blocks) < MaxBlocks /\ pseudostate < MaxState
  /\ Enter(NewBlock("par", FALSE))
  /\ Fork(~ Parallel)
  /\ UNCHANGED <<base, function_states, updates, phase, cursor, seen>>

\* walk_parblock, and the same prologue in walk_forall.
walk_parblock ==
  /\ Walking /\ Len(blocks) < MaxBlocks /\ pseudostate < MaxState
  /\ Enter(NewBlock("par", ~ Parallel))
  /\ Fork(~ Parallel)
  /\ UNCHANGED <<base, function_states, updates, phase, cursor, seen>>

\* The bounds leave room for the round that follows.
walk_iterate ==
  /\ Walking /\ Len(blocks) + 1 < MaxBlocks /\ pseudostate + 1 < MaxState
  /\ Enter(NewBlock("iterate", Parallel))
  /\ Fork(Parallel)
  /\ UNCHANGED <<base, function_states, updates, phase, cursor, seen>>

Top == blocks[Len(blocks)]

Pop == SubSeq(blocks, 1, Len(blocks) - 1)

\* Mutant: the loop starts at the tail sentinel, not at the bucket before it.
begin_merge_at_tail(kind) ==
  /\ pseudostate' = pseudostate - 1
  /\ cursor' = Len(updates) + 1
  /\ phase' = kind

\* merge_par and merge_seq up to their loop.
begin_merge(kind) ==
  /\ pseudostate' = pseudostate - 1
  /\ cursor' = Len(updates)
  /\ phase' = kind

\* Mutant: blocks that have not forked merge as well.
Leave_always_merge(kind, merge) ==
  /\ phase = "walk" /\ blocks # <<>>
  /\ Top.kind = kind
  /\ blocks' = Pop
  /\ begin_merge(merge)
  /\ UNCHANGED <<base, function_states, updates, seen>>

\* The epilogue of the walker's functions: merge if the block has forked.
Leave(kind, merge) ==
  /\ phase = "walk" /\ blocks # <<>>
  /\ Top.kind = kind
  /\ blocks' = Pop
  /\ IF Top.forked THEN begin_merge(merge) ELSE UNCHANGED <<pseudostate, cursor, phase>>
  /\ UNCHANGED <<base, function_states, updates, seen>>

\* Mutant: a seq block is merged as a parallel one is.
leave_seqblock_merge_par == Leave("seq", "merge_par")

leave_seqblock == Leave("seq", "merge_seq")

leave_parblock == Leave("par", "merge_par")

\* One round of an iterate always forks a parallel block.
begin_round ==
  /\ phase = "walk" /\ blocks # <<>>
  /\ Top.kind = "iterate" /\ Top.running
  /\ Enter(NewBlock("round", TRUE))
  /\ Fork(TRUE)
  /\ UNCHANGED <<base, function_states, updates, phase, cursor, seen>>

\* The round ends: the loop goes on unless the round made no update.
end_round ==
  /\ phase = "walk" /\ blocks # <<>>
  /\ Top.kind = "round"
  /\ blocks' = [Pop EXCEPT ![Len(blocks) - 1].running = ~ updateset_empty]
  /\ begin_merge("merge_par")
  /\ UNCHANGED <<base, function_states, updates, seen>>

\* Mutant: the pseudostate of the loop is not merged.
leave_iterate_unmerged ==
  /\ phase = "walk" /\ blocks # <<>>
  /\ Top.kind = "iterate" /\ ~ Top.running
  /\ blocks' = Pop
  /\ UNCHANGED <<base, function_states, updates, pseudostate, phase, cursor, seen>>

leave_iterate ==
  /\ blocks # <<>> => ~ Top.running
  /\ Leave("iterate", "merge_seq")

-----------------------------------------------------------------------------
(* The merge loops.                                                        *)

Merging == phase \in {"merge_par", "merge_seq"}

\* Mutant: the bucket at the head is not looked at.
OutOfBlock_head == cursor > 1 => updates[cursor].state <= pseudostate

\* The `break` of the loops: the bucket belongs to an enclosing block.
OutOfBlock == cursor > 0 => updates[cursor].state <= pseudostate

\* Mutant: the key is not decremented and the walk starts again at the tail.
merge_step_same_key ==
  /\ Merging /\ ~ OutOfBlock
  /\ updates' = hashmap_set(hashmap_delete(updates, cursor), updates[cursor])
  /\ cursor' = Len(updates)
  /\ UNCHANGED <<base, function_states, pseudostate, blocks, phase, seen>>

\* One iteration: the bucket is unlinked and set again under key - 1. In
\* merge_seq a value already there is a conflict of the enclosing par block.
merge_step ==
  /\ Merging /\ ~ OutOfBlock
  /\ LET u    == [updates[cursor] EXCEPT !.state = @ - 1]
         rest == hashmap_delete(updates, cursor)
     IN  /\ updates' = hashmap_set(rest, u)
         /\ phase' = IF phase = "merge_seq" /\ Has(rest, u.loc, u.state)
                        THEN "error" ELSE phase
  /\ cursor' = cursor - 1
  /\ UNCHANGED <<base, function_states, pseudostate, blocks, seen>>

merge_end ==
  /\ Merging /\ OutOfBlock
  /\ phase' = "walk"
  /\ cursor' = 0
  /\ UNCHANGED <<base, function_states, updates, pseudostate, blocks, seen>>

-----------------------------------------------------------------------------
(* The end of a step of the machine: every entry, whatever its pseudostate,*)
(* is written from the tail to the head of the list, so of two entries for *)
(* one location the one nearer to the head would stay. The map is emptied. *)

Written(l) ==
  LET at == {i \in DOMAIN updates : updates[i].loc = l}
  IN  IF at = {} THEN function_states[l]
      ELSE updates[CHOOSE i \in at : \A k \in at : i <= k].val

apply_updates ==
  /\ phase = "walk" /\ blocks = <<>>
  /\ function_states' =
       [l \in DOMAIN function_states \cup {updates[i].loc : i \in DOMAIN updates}
          |-> Written(l)]
  /\ updates' = <<>>
  /\ UNCHANGED <<base, pseudostate, blocks, phase, cursor, seen>>

\* An exception leaves the main loop, and the process.
stopped == phase = "error" /\ UNCHANGED vars

Next ==
  \/ \E l \in Loc : get_function_value(l) \/ add_update_conflict(l)
  \/ \E l \in Loc, v \in Val : add_update(l, v)
  \/ walk_seqblock \/ leave_seqblock
  \/ walk_parblock \/ leave_parblock
  \/ walk_iterate \/ begin_round \/ end_round \/ leave_iterate
  \/ merge_step \/ merge_end
  \/ apply_updates
  \/ stopped

Spec == Init /\ [][Next]_vars

-----------------------------------------------------------------------------
(* Properties.                                                             *)

\* Every variable has its type, and the cursor of a merge loop points into the list.
TypeOK ==
  /\ base \in {0, 1}
  /\ DOMAIN function_states \subseteq Loc
  /\ function_states \in [DOMAIN function_states -> Val]
  /\ updates \in Seq(Update)
  /\ pseudostate \in Nat
  /\ blocks \in Seq(Block)
  /\ phase \in {"walk", "merge_par", "merge_seq", "error"}
  /\ cursor \in 0 .. Len(updates)
  /\ seen \in Val

\* What the `break` of merge_par and merge_seq (execution_context.cpp:265 and
\* :287) relies on: the linked list is ordered by pseudostate, so that the
\* first entry of an enclosing block met from the tail ends the block. Entries
\* a running merge has moved lie behind its cursor, in the enclosing block.
ListOrdered ==
  LET last == IF Merging THEN cursor ELSE Len(updates)
  IN  phase # "error" =>
        /\ \A i, j \in 1 .. last : i <= j => updates[i].state <= updates[j].state
        /\ \A i \in last + 1 .. Len(updates) : updates[i].state = pseudostate

\* A merge leaves nothing behind: while statements run, no update is filed
\* under a pseudostate that has been left. Such an update would be lost to
\* every later read and merge, and surface in the next block of that depth.
NothingStranded ==
  phase = "walk" => \A i \in DOMAIN updates : updates[i].state <= pseudostate

\* The keys of the hash map are unique, in the middle of a merge too.
UniqueKeys ==
  \A i, j \in DOMAIN updates :
    updates[i].loc = updates[j].loc /\ updates[i].state = updates[j].state => i = j

\* When the rule has been walked, every fork has been merged and apply_updates
\* finds at most one update per location: the result does not depend on the
\* order in which it walks the list.
StepConsistent ==
  phase = "walk" /\ blocks = <<>> =>
    /\ pseudostate = base
    /\ \A i, j \in DOMAIN updates : updates[i].loc = updates[j].loc => i = j

\* get_function_value looks into the update set only when the location has an
\* entry in function_states; add_update has created one for every update.
UpdatesHaveEntries ==
  \A i \in DOMAIN updates : updates[i].loc \in DOMAIN function_states

\* Every merge undoes one fork: the pseudostate is that of the innermost block
\* still being walked, so a block that ends returns to exactly the pseudostate
\* it was entered in. (The exit paths of walk_seqblock, walk_parblock,
\* walk_forall and walk_iterate test `forked`, not the pseudostate.)
Inner(b) == IF b.forked THEN b.outer + 1 ELSE b.outer

Nesting ==
  /\ pseudostate = IF blocks = <<>> THEN base ELSE Inner(Top)
  /\ blocks # <<>> => blocks[1].outer = base /\ blocks[1].kind # "round"
  /\ \A i \in DOMAIN blocks :
       /\ blocks[i].outer >= base
       /\ blocks[i].kind = "round" => blocks[i].forked
       /\ i + 1 \in DOMAIN blocks => blocks[i + 1].outer = Inner(blocks[i])

\* The pseudostates in use.
StatesInRange ==
  phase # "error" =>
    \A i \in DOMAIN updates :
      updates[i].state \in base .. (IF Merging THEN pseudostate + 1 ELSE pseudostate)

\* The inductive invariant behind the safety properties.
IInv ==
  /\ TypeOK
  /\ ListOrdered
  /\ UniqueKeys
  /\ UpdatesHaveEntries
  /\ Nesting
  /\ StatesInRange
  /\ phase = "walk" => cursor = 0

\* Merging appends to the list it is walking, and still ends.
MergeTerminates == Merging ~> ~ Merging

-----------------------------------------------------------------------------
(* The update set implements the stack of blocks of AsmBlocks: frame k     *)
(* holds the entries of pseudostate base + k - 1. During a merge the block *)
(* has already ended for the abstract machine.                             *)

Level(s) ==
  [l \in {k \in Loc : Has(updates, k, s)} |->
     updates[CHOOSE i \in DOMAIN updates :
               updates[i].loc = l /\ updates[i].state = s].val]

AbsFailed ==
  \/ phase = "error"
  \/ /\ phase = "merge_seq"
     /\ \E l \in Loc : Has(updates, l, pseudostate) /\ Has(updates, l, pseudostate + 1)

AbsFrame(s) ==
  IF Merging /\ s = pseudostate
    THEN [l \in DOMAIN Level(s) \cup DOMAIN Level(s + 1) |->
            IF l \in DOMAIN Level(s + 1) THEN Level(s + 1)[l] ELSE Level(s)[l]]
    ELSE Level(s)

AbsFrames ==
  IF AbsFailed THEN << [l \in {} |-> Undef] >>
  ELSE [k \in 1 .. pseudostate - base + 1 |-> AbsFrame(base + k - 1)]

AbsState ==
  [l \in Loc |-> IF l \in DOMAIN function_states THEN function_states[l] ELSE Undef]

Abstract ==
  INSTANCE AsmBlocks WITH state <- AbsState, frames <- AbsFrames, failed <- AbsFailed

\* Reads, updates, block ends, conflicts and the end of a step behave as the
\* stack of blocks does: in particular a read never sees a sibling of a
\* parallel block (execution_context.cpp:326), and a step fails when two
\* updates of one parallel block meet, at whatever depth, and only then.
ImplementsBlocks == Abstract!ASpec

=============================================================================

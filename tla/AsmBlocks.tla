------------------------------ MODULE AsmBlocks ------------------------------
(***************************************************************************)
(* What the update set promises to a CASM program, without keys, lists or  *)
(* pseudostates: a stack of blocks, alternately parallel and sequential,   *)
(* each with the updates it has made so far.                               *)
(*                                                                         *)
(*  - a statement sees the updates of the sequential blocks around it, the *)
(*    innermost first, and none of the updates of a parallel block;        *)
(*  - a sequential block's later update of a location replaces the earlier *)
(*    one; in a parallel block a second update is an error;                *)
(*  - a block that ends hands its updates to the block around it as if     *)
(*    they were made there at once;                                        *)
(*  - the state changes only when the step ends.                           *)
(***************************************************************************)
EXTENDS Integers, Sequences

CONSTANTS Loc, Val, Undef

VARIABLES
  base,     \* whether the outermost block is sequential (1) or parallel (0)
  state,    \* the state of the machine before this step
  frames,   \* the updates of each block, the outermost first
  failed,   \* the step was inconsistent
  seen      \* the last value read

avars == <<base, state, frames, failed, seen>>

Empty == [l \in {} |-> Undef]

\* The outermost frame is sequential if base = 1, and the kinds alternate.
Sequential(k) == (base + k) % 2 = 0

Depth == Len(frames)

Override(f, g) ==
  [l \in DOMAIN f \cup DOMAIN g |-> IF l \in DOMAIN g THEN g[l] ELSE f[l]]

AInit ==
  /\ base \in {0, 1}
  /\ state \in [Loc -> Val]
  /\ frames = <<Empty>>
  /\ failed = FALSE
  /\ seen = Undef

Holders(l) == {k \in 1 .. Depth : Sequential(k) /\ l \in DOMAIN frames[k]}

Value(l) ==
  IF Holders(l) = {} THEN state[l]
  ELSE frames[CHOOSE k \in Holders(l) : \A h \in Holders(l) : h <= k][l]

Read(l) ==
  /\ ~ failed
  /\ seen' = Value(l)
  /\ UNCHANGED <<base, state, frames, failed>>

Set(l, v) ==
  /\ ~ failed
  /\ Sequential(Depth) \/ l \notin DOMAIN frames[Depth]
  /\ frames' = [frames EXCEPT ![Depth] = Override(@, [k \in {l} |-> v])]
  /\ UNCHANGED <<base, state, failed, seen>>

Begin ==
  /\ ~ failed
  /\ frames' = Append(frames, Empty)
  /\ UNCHANGED <<base, state, failed, seen>>

\* The updates of the innermost block become updates of the one around it.
Merged ==
  [k \in 1 .. Depth - 1 |->
     IF k = Depth - 1 THEN Override(frames[k], frames[Depth]) ELSE frames[k]]

Disjoint ==
  DOMAIN frames[Depth - 1] \cap DOMAIN frames[Depth] = {}

End ==
  /\ ~ failed /\ Depth > 1
  /\ Sequential(Depth - 1) \/ Disjoint
  /\ frames' = Merged
  /\ UNCHANGED <<base, state, failed, seen>>

\* A parallel block updates a location twice, on its own or through a block
\* inside it: the step is inconsistent and given up.
Fail ==
  /\ failed' = TRUE
  /\ frames' = <<Empty>>
  /\ UNCHANGED <<base, state, seen>>

SetClash(l) ==
  /\ ~ failed
  /\ ~ Sequential(Depth) /\ l \in DOMAIN frames[Depth]
  /\ Fail

EndClash ==
  /\ ~ failed /\ Depth > 1
  /\ ~ Sequential(Depth - 1) /\ ~ Disjoint
  /\ Fail

Commit ==
  /\ ~ failed /\ Depth = 1
  /\ state' = Override(state, frames[1])
  /\ frames' = <<Empty>>
  /\ UNCHANGED <<base, failed, seen>>

ANext ==
  \/ \E l \in Loc : Read(l) \/ SetClash(l)
  \/ \E l \in Loc, v \in Val : Set(l, v)
  \/ Begin \/ End \/ EndClash \/ Commit

ASpec == AInit /\ [][ANext]_avars

=============================================================================

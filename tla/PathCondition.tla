---------------------------- MODULE PathCondition ----------------------------
(***************************************************************************)
(* The conditions symbolic execution collects on a path, and the lookup    *)
(* that decides a new condition from the ones already collected            *)
(* (symbolic.cpp). A condition compares a symbol with a number; `flip` is  *)
(* TRUE when the number is the left operand. Comparisons of two symbols    *)
(* are not modelled.                                                       *)
(***************************************************************************)
EXTENDS Integers

CONSTANT Sym   \* symbols: the unknown initial values of functions

Op == {"eq", "neq", "le", "lt", "gt", "ge"}

Condition == [sym : Sym, op : Op, num : Int, flip : BOOLEAN]

Compare(op, a, b) ==
  \/ op = "eq"  /\ a = b
  \/ op = "neq" /\ a # b
  \/ op = "le"  /\ a <= b
  \/ op = "lt"  /\ a < b
  \/ op = "gt"  /\ a > b
  \/ op = "ge"  /\ a >= b

\* What the condition says of the value v of its symbol.
HoldsFor(c, v) == IF c.flip THEN Compare(c.op, c.num, v) ELSE Compare(c.op, v, c.num)

\* Mutants of invert: = and != are not inverted; <= becomes <.
invert_eq(op) ==
  [eq |-> "eq", neq |-> "neq", le |-> "gt", gt |-> "le", lt |-> "ge", ge |-> "lt"][op]
invert_le_to_lt(op) ==
  [eq |-> "neq", neq |-> "eq", le |-> "lt", gt |-> "le", lt |-> "ge", ge |-> "lt"][op]

invert(op) ==
  [eq |-> "neq", neq |-> "eq", le |-> "gt", gt |-> "le", lt |-> "ge", ge |-> "lt"][op]

Status == {"NOT_FOUND", "TRUE", "FALSE", "assert"}

\* Mutant: the operands of lessereq are swapped where the value is known.
Included_swapped(known, check) ==
  check.op = "le" /\ known.op = "eq" /\ check.num <= known.num

\* What check_inclusion finds out from the condition `known` about the
\* condition `check` of the same symbol: that it is TRUE,
Included(known, check) ==
  LET k == known.num
      n == check.num
      On(c, o) == check.op = c /\ known.op = o
  IN  \/ On("eq", "eq") /\ k = n
      \/ On("neq", "neq") /\ k = n
      \/ On("neq", "eq") /\ k # n
      \/ On("le", "eq") /\ k <= n
      \/ On("le", "le") /\ n <= k
      \/ On("gt", "eq") /\ k > n
      \/ On("gt", "gt") /\ n > k

\* or that it is FALSE.
Excluded(known, check) ==
  LET k == known.num
      n == check.num
      On(c, o) == check.op = c /\ known.op = o
  IN  \/ On("eq", "eq") /\ k # n
      \/ On("eq", "neq") /\ k = n
      \/ On("neq", "eq") /\ k = n
      \/ On("le", "eq") /\ k > n
      \/ On("le", "gt") /\ n <= k
      \/ On("gt", "eq") /\ k <= n
      \/ On("gt", "le") /\ k <= n

\* Mutant: TRUE is never found.
check_inclusion_false_only(known, check) ==
  IF Excluded(known, check) THEN "FALSE" ELSE "NOT_FOUND"

\* LESSER and GREATEREQ reach the assert(0) of the default branch.
check_inclusion(known, check) ==
  IF check.op \in {"lt", "ge"} THEN "assert"
  ELSE IF Included(known, check) THEN "TRUE"
  ELSE IF Excluded(known, check) THEN "FALSE"
  ELSE "NOT_FOUND"

\* check_condition: the first known condition of the symbol that decides. A
\* number on the left is moved to the right and the comparison kept as it is,
\* in the known conditions and in the one to check: `flip` plays no part.
Deciding(known, check) ==
  {i \in DOMAIN known :
     /\ known[i].sym = check.sym
     /\ check_inclusion(known[i], check) # "NOT_FOUND"}

check_condition(known, check) ==
  IF Deciding(known, check) = {} THEN "NOT_FOUND"
  ELSE LET first == CHOOSE i \in Deciding(known, check) :
                      \A k \in Deciding(known, check) : i <= k
       IN  check_inclusion(known[first], check)

-----------------------------------------------------------------------------
(* Where the lookup can be trusted. A known x <= 50 answers TRUE to x <= 40*)
(* (and x > 50 to x > 60), and a flipped inequality is read the wrong way  *)
(* round: the answers are right if inequalities are written with the       *)
(* symbol on the left and those of one direction use one bound.            *)

Comparable(known, check) ==
  /\ known.flip => known.op \in {"eq", "neq"}
  /\ check.flip => check.op \in {"eq", "neq"}
  /\ known.op = check.op /\ known.op \in {"le", "gt"} => known.num = check.num

=============================================================================

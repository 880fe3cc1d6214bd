--------------------------- MODULE MCSymbolicPaths ---------------------------
(***************************************************************************)
(* Conditions and case statements for SymbolicPaths: x and y are integers  *)
(* between -1 and 2, b is Boolean.                                         *)
(***************************************************************************)
EXTENDS SymbolicPaths

Cond(s, op, n) == [sym |-> s, op |-> op, num |-> n, flip |-> FALSE]
Flipped(n, op, s) == [sym |-> s, op |-> op, num |-> n, flip |-> TRUE]
Case(s, labels) == [sym |-> s, labels |-> labels]

IntAndBool == [s \in Sym |-> IF s = "b" THEN {0, 1} ELSE -1 .. 2]

IfB == {Cond("b", "eq", 1)}
None == {}

\* A number on the left, <= and > with one bound, a Boolean function, and <,
\* on which a lookup crashes. The case has the equalities.
Comparisons ==
  {Flipped(1, "neq", "x"), Cond("x", "le", 0), Cond("x", "gt", 0), Cond("x", "lt", 1)}
    \cup IfB

Value(n) == [default |-> FALSE, num |-> n]
Default == [default |-> TRUE, num |-> 0]

\* A lookup may find the last label after the default has been walked.
SomeCases == {Case("x", <<Value(0), Default, Value(1)>>)}

Equal == {Cond("x", "eq", 0)}

ASSUME ProgramAssumption == Trusted /\ Exhaustive /\ DistinctLabels

=============================================================================

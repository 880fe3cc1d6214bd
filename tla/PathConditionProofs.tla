------------------------- MODULE PathConditionProofs -------------------------
(***************************************************************************)
(* The lookup in the path conditions answers correctly, for all numbers,   *)
(* wherever its conditions are Comparable.                                 *)
(***************************************************************************)
EXTENDS PathCondition, Sequences, NatLemmas

\* A condition on the values of the symbols.
Holds(c, v) == HoldsFor(c, v[c.sym])

\* The else branch: invert turns a condition into its negation, for a number
\* on either side.
THEOREM InvertNegates ==
  ASSUME NEW c \in Condition, NEW v \in Int
  PROVE  HoldsFor([c EXCEPT !.op = invert(@)], v) <=> ~ HoldsFor(c, v)
<1>1. c.op \in Op /\ c.num \in Int /\ c.flip \in BOOLEAN
  BY DEF Condition
<1> DEFINE d == [c EXCEPT !.op = invert(c.op)]
<1>2. d.num = c.num /\ d.flip = c.flip /\ d.op = invert(c.op)
  BY DEF Condition
<1> HIDE DEF d
<1>5. ASSUME NEW a \in Int, NEW b \in Int
      PROVE  Compare(invert(c.op), a, b) <=> ~ Compare(c.op, a, b)
  <2>1. /\ invert("eq") = "neq" /\ invert("neq") = "eq"
        /\ invert("le") = "gt" /\ invert("gt") = "le"
        /\ invert("lt") = "ge" /\ invert("ge") = "lt"
    BY DEF invert
  <2>2. CASE c.op \in {"eq", "neq"}
    BY <2>1, <2>2 DEF Compare
  <2>3. CASE c.op \in {"le", "gt"}
    BY <2>1, <2>3 DEF Compare
  <2>4. CASE c.op \in {"lt", "ge"}
    BY <2>1, <2>4 DEF Compare
  <2> QED
    BY <1>1, <2>2, <2>3, <2>4 DEF Op
<1>6. HoldsFor(d, v) <=> ~ HoldsFor(c, v)
  BY <1>1, <1>2, <1>5 DEF HoldsFor
<1> QED
  BY <1>6 DEF d

\* check_inclusion never contradicts what the known condition implies.
THEOREM InclusionSound ==
  ASSUME NEW known \in Condition, NEW check \in Condition, NEW v \in Int,
         Comparable(known, check), HoldsFor(known, v)
  PROVE  /\ check_inclusion(known, check) = "TRUE" => HoldsFor(check, v)
         /\ check_inclusion(known, check) = "FALSE" => ~ HoldsFor(check, v)
<1>1. /\ known.op \in Op /\ known.num \in Int /\ known.flip \in BOOLEAN
      /\ check.op \in Op /\ check.num \in Int /\ check.flip \in BOOLEAN
  BY DEF Condition
<1>2. Compare(known.op, v, known.num)
  BY <1>1 DEF Comparable, HoldsFor, Compare
<1>3. HoldsFor(check, v) <=> Compare(check.op, v, check.num)
  BY <1>1 DEF Comparable, HoldsFor, Compare
<1>4. CASE check.op = "eq"
  BY <1>1, <1>2, <1>3, <1>4 DEF check_inclusion, Included, Excluded, Compare, Op
<1>5. CASE check.op = "neq"
  BY <1>1, <1>2, <1>3, <1>5 DEF check_inclusion, Included, Excluded, Compare, Op
<1>6. CASE check.op = "le"
  BY <1>1, <1>2, <1>3, <1>6 DEF check_inclusion, Included, Excluded, Compare, Op, Comparable
<1>7. CASE check.op = "gt"
  BY <1>1, <1>2, <1>3, <1>7 DEF check_inclusion, Included, Excluded, Compare, Op, Comparable
<1>8. CASE check.op \in {"lt", "ge"}
  BY <1>8 DEF check_inclusion
<1> QED
  BY <1>1, <1>4, <1>5, <1>6, <1>7, <1>8 DEF Op

\* check_condition: for all values of the symbols that satisfy the path
\* conditions, the answer is what the condition says of them.
THEOREM LookupSound ==
  ASSUME NEW known \in Seq(Condition), NEW check \in Condition,
         NEW v \in [Sym -> Int],
         \A i \in DOMAIN known : known[i].sym = check.sym => Comparable(known[i], check),
         \A i \in DOMAIN known : Holds(known[i], v)
  PROVE  /\ check_condition(known, check) = "TRUE" => Holds(check, v)
         /\ check_condition(known, check) = "FALSE" => ~ Holds(check, v)
<1> DEFINE D == Deciding(known, check)
<1>1. CASE D = {}
  BY <1>1 DEF check_condition
<1>2. CASE D # {}
  <2>1. D \in SUBSET Nat
    BY DEF Deciding
  <2>2. PICK m \in D : \A k \in D : m <= k
    BY <1>2, <2>1, LeastOf
  <2> DEFINE first == CHOOSE i \in D : \A k \in D : i <= k
  <2>3. first \in D
    BY <2>2
  <2>4. check_condition(known, check) = check_inclusion(known[first], check)
    BY <1>2 DEF check_condition
  <2>5. /\ known[first] \in Condition
        /\ known[first].sym = check.sym
        /\ first \in DOMAIN known
    BY <2>3 DEF Deciding
  <2>6. v[check.sym] \in Int
    BY DEF Condition
  <2>7. HoldsFor(known[first], v[check.sym]) /\ Comparable(known[first], check)
    BY <2>5 DEF Holds
  <2> HIDE DEF first, D
  <2> QED
    BY <2>4, <2>5, <2>6, <2>7, InclusionSound DEF Holds
<1> QED
  BY <1>1, <1>2

=============================================================================

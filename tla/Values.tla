------------------------------- MODULE Values -------------------------------
(***************************************************************************)
(* Values of the interpreter (value_t, rational_t), the operators and the  *)
(* builtins on them, in concrete mode.                                     *)
(*                                                                         *)
(* A value is a pair of its kind and what the kind says: an integer of     *)
(* Width bits, a fraction (rationals are not reduced; floats are taken to  *)
(* be exact), a Boolean, a sequence of characters, a member of an enum, a  *)
(* sequence of values. The objects lists are made of are in ListHeap; all  *)
(* that shows of them here is how many elements more than there are a tail *)
(* leaves out, the third part of a list.                                   *)
(***************************************************************************)
EXTENDS Integers, SequencesExt

CONSTANTS
  Width,   \* bits of INT_T (64 in the code)
  Enums    \* the members of each enum, in the order of their ids

ASSUME ValuesAssumption == Width \in Nat \ {0}

\* A signed integer that has overflown.
Wrap(n) == ((n + 2 ^ (Width - 1)) % 2 ^ Width) - 2 ^ (Width - 1)

UndefValue == <<"UNDEF", 0>>
IntVal(n) == <<"INT", Wrap(n)>>
Bool(b) == <<"BOOLEAN", b>>
Str(s) == <<"STRING", s>>
Rational(f) == <<"RATIONAL", <<Wrap(f[1]), Wrap(f[2])>>>>
Enum(name, i) == <<"ENUM", <<name, i>>>>
Skipping(t, s, n) == <<t, s, n>>
List(t, s) == Skipping(t, s, 0)

ListKinds == {"LIST", "TUPLE", "TUPLE_OR_LIST"}

\* What ends the process instead of a value: FAILURE() aborts, a division by zero
\* traps, an exception reaches main, a pointer that is null is followed, or a part
\* of a value is read that has not been written. FLOATS stands for infinities and
\* roots, which are not modelled.
Stop(why) == <<"STOP", why>>

is_undef(v) == v[1] = "UNDEF"
is_stop(v) == v[1] = "STOP"

\* A float has a positive denominator.
Float(f) ==
  CASE f[2] > 0 -> <<"FLOAT", f>>
    [] f[2] < 0 -> <<"FLOAT", <<- f[1], - f[2]>>>>
    [] f[2] = 0 -> Stop("FLOATS")

\* Integer division and remainder of C++, which round to zero.
Abs(n) == IF n < 0 THEN - n ELSE n
Quot(a, b) == LET q == Abs(a) \div Abs(b) IN IF (a < 0) = (b < 0) THEN q ELSE - q
Rem(a, b) == a - b * Quot(a, b)

-----------------------------------------------------------------------------
(* operator== of value_t, rational_t and List.                             *)

RECURSIVE Equal(_, _)

\* Values of different kinds: what is read of the second has not been written.
Comparable(l, r) == l[1] = r[1] \/ {l[1], r[1]} \subseteq ListKinds

\* TRUE, FALSE or Stop.
Equal(l, r) ==
  LET parts == [i \in 1 .. (IF Len(l[2]) < Len(r[2]) THEN Len(l[2]) ELSE Len(r[2])) |->
                  Equal(l[2][i], r[2][i])]
      first == SelectInSeq(parts, LAMBDA p : p # Bool(TRUE))
  IN  CASE is_undef(l) \/ is_undef(r) -> Bool(is_undef(l) /\ is_undef(r))
        [] ~ Comparable(l, r) -> Stop("UB")
        [] l[1] \in {"INT", "BOOLEAN", "ENUM", "STRING"} -> Bool(l[2] = r[2])
        [] l[1] \in {"FLOAT", "RATIONAL"} -> Bool(Wrap(l[2][1] * r[2][2]) = Wrap(r[2][1] * l[2][2]))
        [] l[1] \in ListKinds -> IF first # 0 THEN parts[first] ELSE Bool(Len(l[2]) = Len(r[2]))
        [] OTHER -> Stop("FAILURE")

-----------------------------------------------------------------------------
(* operators.cpp                                                           *)

Numeric == {"ADD", "SUB", "MUL", "DIV"}
Order == {"LESSER", "GREATER", "LESSEREQ", "GREATEREQ"}
Logical == {"AND", "OR", "XOR"}
Operators == Numeric \cup Order \cup Logical \cup {"MOD", "RAT_DIV", "EQ", "NEQ"}

OnInt(op, a, b) ==
  CASE op = "ADD" -> IntVal(a + b)
    [] op = "SUB" -> IntVal(a - b)
    [] op = "MUL" -> IntVal(a * b)
    [] op = "DIV" -> IF b = 0 THEN Stop("TRAP") ELSE IntVal(Quot(a, b))

\* rational_t: the result is not reduced.
OnFraction(op, a, b) ==
  CASE op = "ADD" -> <<a[1] * b[2] + b[1] * a[2], a[2] * b[2]>>
    [] op = "SUB" -> <<a[1] * b[2] - b[1] * a[2], a[2] * b[2]>>
    [] op = "MUL" -> <<a[1] * b[1], a[2] * b[2]>>
    [] op = "DIV" -> <<a[1] * b[2], a[2] * b[1]>>

numerical(op, l, r) ==
  CASE l[1] = "INT"      -> OnInt(op, l[2], r[2])
    [] l[1] = "FLOAT"    -> Float(OnFraction(op, l[2], r[2]))
    [] l[1] = "RATIONAL" -> Rational(OnFraction(op, l[2], r[2]))
    [] OTHER             -> Stop("FAILURE")

Compare(op, a, b) ==
  CASE op = "LESSER" -> a < b [] op = "GREATER" -> a > b
    [] op = "LESSEREQ" -> a <= b [] op = "GREATEREQ" -> a >= b

\* There is no case for rationals.
numerical_cmp(op, l, r) ==
  CASE l[1] = "INT"   -> Bool(Compare(op, l[2], r[2]))
    [] l[1] = "FLOAT" -> Bool(Compare(op, l[2][1] * r[2][2], r[2][1] * l[2][2]))
    [] OTHER          -> Stop("FAILURE")

mod(l, r) ==
  CASE l[1] # "INT" -> UndefValue
    [] l[1] = "INT" -> IF r[2] = 0 THEN Stop("TRAP") ELSE IntVal(Rem(l[2], r[2]))

rat_div(l, r) == IF l[1] = "INT" THEN Rational(<<l[2], r[2]>>) ELSE Stop("FAILURE")

logical(op, a, b) ==
  CASE op = "AND" -> Bool(a /\ b) [] op = "OR" -> Bool(a \/ b) [] op = "XOR" -> Bool(a # b)

not_(v) == IF is_undef(v) THEN v ELSE Bool(~ v[2])

neq(v) == IF is_stop(v) THEN v ELSE Bool(~ v[2])

dispatch(op, l, r) ==
  CASE op = "EQ"  -> Equal(l, r)
    [] op = "NEQ" -> neq(Equal(l, r))
    [] op \in Operators \ {"EQ", "NEQ"} ->
         IF is_undef(l) \/ is_undef(r) THEN UndefValue
         ELSE IF ~ Comparable(l, r) THEN Stop("UB")
         ELSE CASE op \in Numeric  -> numerical(op, l, r)
                [] op \in Order    -> numerical_cmp(op, l, r)
                [] op \in Logical  -> logical(op, l[2], r[2])
                [] op = "MOD"      -> mod(l, r)
                [] op = "RAT_DIV"  -> rat_div(l, r)

-----------------------------------------------------------------------------
(* builtins.cpp                                                            *)

\* There is no test for undef here, and no case for rationals.
pow(base, power) ==
  CASE base[1] = "INT" /\ power[1] = "INT" ->
         IF power[2] = 0 THEN IntVal(1)
         ELSE IF power[2] > 0 THEN IntVal(base[2] ^ power[2])
         ELSE CASE base[2] = 0 -> Stop("UB")
                [] Abs(base[2]) = 1 -> IntVal(base[2] ^ Abs(power[2]))
                [] OTHER -> IntVal(0)
    [] base[1] = "FLOAT" /\ power[1] = "FLOAT" -> Stop("FLOATS")
    [] base[1] \in {"INT", "FLOAT"} /\ power[1] # base[1] -> Stop("UB")
    [] OTHER -> Stop("FAILURE")

HexDigits == <<"0", "1", "2", "3", "4", "5", "6", "7", "8", "9", "a", "b", "c", "d", "e", "f">>

RECURSIVE Digits(_)
Digits(n) ==
  IF n < 16 THEN <<HexDigits[n + 1]>> ELSE Append(Digits(n \div 16), HexDigits[(n % 16) + 1])

hex(v) ==
  CASE is_undef(v) -> Str(<<"u", "n", "d", "e", "f">>)
    [] ~ is_undef(v) -> Str((IF v[2] < 0 THEN <<"-">> ELSE <<>>) \o Digits(Abs(v[2])))

nth(v, index) ==
  IF ~ is_undef(v) /\ ~ is_undef(index) /\ index[2] \in DOMAIN v[2] THEN v[2][index[2]]
  ELSE UndefValue

\* The greatest common divisor, which a float becomes a rational with.
RECURSIVE gcd(_, _)
gcd(a, b) == IF b = 0 THEN a ELSE gcd(b, Rem(a, b))

\* get_numerator_denominator finds the fraction of a float that is not negative in
\* lowest terms; of a negative one it goes wrong.
AsFraction(f) ==
  IF f[1] < 0 THEN Stop("FLOATS")
  ELSE LET g == gcd(f[1], f[2]) IN Rational(<<Quot(f[1], g), Quot(f[2], g)>>)

asint(v) ==
  CASE v[1] = "INT"   -> v
    [] v[1] = "FLOAT" -> IntVal(Quot(v[2][1], v[2][2]))
    [] v[1] = "RATIONAL" -> IF v[2][2] = 0 THEN Stop("TRAP") ELSE IntVal(Quot(v[2][1], v[2][2]))
    [] OTHER -> Stop("FAILURE")

asfloat(v) ==
  CASE v[1] = "INT"      -> Float(<<v[2], 1>>)
    [] v[1] = "FLOAT"    -> v
    [] v[1] = "RATIONAL" -> Float(v[2])
    [] OTHER -> Stop("FAILURE")

asrational(v) ==
  CASE v[1] = "INT"      -> Rational(<<v[2], 1>>)
    [] v[1] = "FLOAT"    -> AsFraction(v[2])
    [] v[1] = "RATIONAL" -> v
    [] OTHER -> Stop("FAILURE")

\* The tail of an empty list is empty too: its SkipList leaves out one element more.
tail(v) ==
  IF v[2] = <<>> THEN Skipping(v[1], v[2], v[3] + 1) ELSE Skipping(v[1], Tail(v[2]), v[3])

\* The new element goes behind all, where such a SkipList leaves it out.
app(v, e) ==
  IF v[3] > 0 THEN Skipping(v[1], v[2], v[3] - 1) ELSE List(v[1], Append(v[2], e))

cons(e, v) == Skipping(v[1], <<e>> \o v[2], v[3])

\* The builtins that are undef on undef.
strict(name, v) ==
  CASE name = "tail" -> tail(v)
    [] name = "len"  -> IntVal(Len(v[2]))
    [] name = "peek" -> IF v[2] = <<>> THEN UndefValue ELSE Head(v[2])
    [] name = "Boolean2Int" -> IntVal(IF v[2] THEN 1 ELSE 0)
    [] name = "Int2Boolean" -> Bool(v[2] # 0)
    [] name = "Enum2Int"    -> IntVal(v[2][2] - 1)
    [] name = "asInt"       -> asint(v)
    [] name = "asFloat"     -> asfloat(v)
    [] name = "asRational"  -> asrational(v)

\* builtins::dispatch, for the values of the arguments.
builtin(name, vs) ==
  CASE name = "pow"  -> pow(vs[1], vs[2])
    [] name = "hex"  -> hex(vs[1])
    [] name = "nth"  -> nth(vs[1], vs[2])
    [] name = "app"  -> IF is_undef(vs[1]) THEN vs[1] ELSE app(vs[1], vs[2])
    [] name = "cons" -> IF is_undef(vs[2]) THEN vs[2] ELSE cons(vs[1], vs[2])
    [] name = "symbolic" -> Bool(FALSE)
    [] OTHER -> IF is_undef(vs[1]) THEN vs[1] ELSE strict(name, vs[1])

\* Int2Enum, for the name of the enum: without one there is no enum to look in.
\* The number is read of an undef argument too.
int2enum(name, v) ==
  CASE name \notin DOMAIN Enums -> Stop("CRASH")
    [] name \in DOMAIN Enums /\ v[1] # "INT" -> Stop("UB")
    [] OTHER -> IF v[2] + 1 \in 1 .. Len(Enums[name]) THEN Enum(name, v[2] + 1) ELSE UndefValue

=============================================================================

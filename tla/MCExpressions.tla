---------------------------- MODULE MCExpressions ---------------------------
(***************************************************************************)
(* Declarations and statements for Expressions.                            *)
(***************************************************************************)
EXTENDS Expressions

MCEnums == [e |-> <<"A", "B">>, d |-> <<"C">>]

\* i : -> Int, b : -> Boolean, s : -> String, r : -> Rational, e : -> e,
\* l : -> List(Int), n : Int -> Int (its argument in 0..2, its value in
\* 0..3), m : e -> Int, g : String -> Int, h : List(Int) -> Int, k : Int -> Int,
\* x : -> Float, y : -> List(List(Int)), q : List(List(Int)) -> Int
MCDeclared ==
  <<Of("INT"), Of("BOOLEAN"), Of("STRING"), Of("RATIONAL"), EnumType("e"), ListOf(7), Of("INT"),
    Of("INT"), Of("INT"), EnumType("e"), Of("INT"), Of("STRING"), Of("INT"), ListOf(15),
    Of("INT"), Of("INT"), Of("INT"), Of("INT"), Of("FLOAT"), ListOf(21), ListOf(22), Of("INT"),
    ListOf(24), ListOf(25), Of("INT"), Of("INT")>>

Plain(args, ret) == [args |-> args, ret |-> ret, range |-> <<>>, arg_range |-> <<>>]

AllFunctions ==
  [i |-> Plain(<<>>, 1), b |-> Plain(<<>>, 2), s |-> Plain(<<>>, 3), r |-> Plain(<<>>, 4),
   e |-> Plain(<<>>, 5), l |-> Plain(<<>>, 6),
   n |-> [args |-> <<8>>, ret |-> 9, range |-> <<0, 3>>, arg_range |-> <<0, 2>>],
   m |-> Plain(<<10>>, 11), g |-> Plain(<<12>>, 13), h |-> Plain(<<14>>, 16),
   k |-> Plain(<<17>>, 18), x |-> Plain(<<>>, 19), y |-> Plain(<<>>, 20),
   q |-> Plain(<<23>>, 26)]

I(n) == Atom(IntVal(n))
U == Atom(UndefValue)
Half == Atom(Float(<<1, 2>>))
Third == Atom(Rational(<<2, 6>>))
True == Atom(Bool(TRUE))
StrA == Atom(Str(<<"a">>))
EnumA == Atom(Enum("e", 1))
EnumC == Atom(Enum("d", 1))
Empty == ListAtom(<<>>)

Scalars == {I(0), I(2), Half, Third, True, StrA, EnumA, EnumC}
Reads == {Fun(f, <<>>) : f \in {"i", "r", "l", "x"}}
Lists == {Empty, ListAtom(<<I(1), U>>), ListAtom(<<I(1), True>>)}
Atoms == Scalars \cup Reads \cup Lists \cup {U}

Unary == {"hex", "len", "tail", "peek", "Boolean2Int", "Int2Boolean", "Enum2Int", "Int2Enum",
          "asInt", "asFloat", "asRational", "symbolic"}

Binary(A, B) == {Op(op, a, b) : op \in Operators, a \in A, b \in B}
Calls(A, B) ==
  {Builtin(name, <<a>>) : name \in Unary, a \in A}
    \cup {Builtin(name, <<a, b>>) : name \in {"cons", "app", "nth", "pow"}, a \in A, b \in B}
    \cup {Not(a) : a \in A}
    \cup {Fun(f, <<a>>) : f \in {"n", "m", "g", "h", "k"}, a \in A}
    \cup {ListAtom(<<a, b>>) : a \in A, b \in B}

\* Lists of different lengths are of different types: a list atom of them is a tuple.
Ragged == ListAtom(<<ListAtom(<<I(1), I(1)>>), ListAtom(<<I(1)>>)>>)

Targets == {Fun(f, <<>>) : f \in {"i", "b", "s", "r", "e", "l", "x", "y"}}

\* Those that hold what an operator can yield.
Scalar == {Fun(f, <<>>) : f \in {"i", "b", "r", "x"}}

Ranged == {Fun("n", <<i>>) : i \in {I(2), I(3)}}

Keyed ==
  {Fun("m", <<EnumA>>), Fun("g", <<StrA>>), Fun("h", <<ListAtom(<<I(1), U>>)>>), Fun("q", <<Ragged>>)}

\* Arguments with the same hash as those of other targets, or undef.
Colliding ==
  {Fun("k", <<I(0)>>), Fun("g", <<Atom(Str(<<"b">>))>>), Fun("h", <<ListAtom(<<I(0), I(1)>>)>>)}
    \cup {Fun(f, <<U>>) : f \in {"k", "g", "n"}}

UpdatesOf(T, E) == {[f |-> t, e |-> e] : t \in T, e \in E}

AllPrograms ==
  << {Update("i", <<>>, I(2)), Update("r", <<>>, Third), Update("x", <<>>, Half),
      Update("l", <<>>, ListAtom(<<I(1), I(2)>>)), Update("l", <<>>, ListAtom(<<U, True>>)),
      Update("y", <<>>, ListAtom(<<ListAtom(<<I(1)>>), Empty>>)),
      Update("n", <<I(2)>>, I(1)), Update("m", <<EnumA>>, I(1)), Update("g", <<StrA>>, I(1)),
      Update("h", <<ListAtom(<<I(1), U>>)>>, I(1)), Update("k", <<I(0)>>, I(1)),
      Update("q", <<ListAtom(<<ListAtom(<<I(1)>>)>>)>>, I(1))},
     UpdatesOf(Targets, Atoms \cup Calls(Atoms, Atoms) \cup {Ragged})
       \cup UpdatesOf(Scalar, Binary(Atoms, Atoms))
       \cup UpdatesOf(Ranged, Atoms \cup {I(4)} \cup Binary({I(2), U}, {I(2), U}))
       \cup UpdatesOf(Keyed \cup Colliding, Atoms) >>

=============================================================================

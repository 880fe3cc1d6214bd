---------------------------- MODULE MCTypeUnify -----------------------------
(***************************************************************************)
(* Types for TypeUnify: four nodes, and the elements of lists behind them. *)
(***************************************************************************)
EXTENDS TypeUnify

Unknown == Of("UNKNOWN")
TupleOrList(subs) == Type("TUPLE_OR_LIST", subs, {}, "")

\* Unknown types with one type of every kind, and with lists of elements that
\* are unknown or not. (An enum type without a name is copied and not linked, so
\* a name that comes later is not known of the copies.)
PlainHeaps ==
  {<<Unknown, Unknown, Unknown, k>> : k \in {Of("INT"), EnumType(""), EnumType("e")}}
    \cup {<<Unknown, Unknown, Of("INT"), Of("FLOAT")>>}
    \cup {<<Unknown, Unknown, Unknown, ListOf(5), k>> : k \in {Unknown, Of("INT")}}
    \cup {<<Unknown, Unknown, ListOf(6), ListOf(5), Unknown, Unknown>>}

\* List atoms of known types, or of a known and an unknown one, with a list and
\* with a tuple. (A list atom whose first element is unknown is accepted as a
\* list of anything, and one that is unified with a list of unknown elements is
\* cut off from it.)
AtomHeaps ==
  LET number == {Of("INT"), Of("FLOAT")}
  IN  {<<Unknown, TupleOrList(<<5>>), TupleOrList(<<>>), ListOf(6), k, Of("INT")>> : k \in number}
        \cup {<<Unknown, TupleOrList(<<5, 6>>), Unknown, ListOf(7), Of("INT"), k, Of("INT")>> :
                 k \in number \cup {Unknown}}
        \cup {<<Unknown, TupleOrList(<<5, 6>>), Unknown, Type("TUPLE", <<7, 8>>, {}, ""),
                 Of("INT"), k, Of("INT"), Of("FLOAT")>> : k \in number \cup {Unknown}}

\* A list with a tuple: of its elements, of others, of list atoms that become lists.
\* (A heap has one tuple. Types that are known are not linked, so of two lists
\* that have been unified each can later become a tuple of another length.)
TupleHeaps ==
  LET tuple == Type("TUPLE", <<5, 6>>, {}, "")
  IN  {<<Unknown, tuple, Unknown, ListOf(7), Of("INT"), k, Of("INT")>> :
          k \in {Of("INT"), Of("FLOAT"), Unknown}}
        \cup {<<Unknown, tuple, ListOf(9), ListOf(7), TupleOrList(<<10>>), ListOf(11), ListOf(8),
                 Of("INT"), Unknown, Of("INT"), Of("INT")>>}

AllHeaps == PlainHeaps \cup AtomHeaps \cup TupleHeaps

=============================================================================

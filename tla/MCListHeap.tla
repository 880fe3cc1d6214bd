----------------------------- MODULE MCListHeap -----------------------------
(***************************************************************************)
(* List expressions for ListHeap.                                          *)
(***************************************************************************)
EXTENDS ListHeap

Atom(s, alloc) == [k |-> "atom", s |-> s, alloc |-> alloc]

Operands ==
  {[k |-> "undef"]} \cup {[k |-> "read", f |-> f] : f \in Fun}
    \cup {Atom(<<>>, FALSE), Atom(<<1>>, TRUE)}

Ops == {[k |-> "cons", e |-> e] : e \in Elem} \cup {[k |-> "app", e |-> e] : e \in Elem}
         \cup {[k |-> "tail"]}

AllExprs ==
  {[a |-> a, ops |-> o] : a \in Operands, o \in UNION {[1 .. n -> Ops] : n \in 0 .. 1}}

\* Without the reads of allocated_in_collect that depend on what the memory held.
DefinedExprs == {x \in AllExprs : x.a.k = "atom" => ~ x.a.alloc}

=============================================================================

------------------------------ MODULE TypeUnify -----------------------------
(***************************************************************************)
(* Sequences of calls of unify, as the type checker makes them: any calls  *)
(* between the Type objects of an initial heap.                            *)
(***************************************************************************)
EXTENDS Types

CONSTANTS
  Heaps,      \* the initial heaps: sequences of Type objects
  Nodes,      \* the addresses of the types of AST nodes
  MaxCalls    \* bound on the calls of unify

ASSUME TypeUnifyAssumption == MaxCalls \in Nat

VARIABLES
  heap,      \* the Type objects, by address
  unified,   \* auxiliary: the pairs for which unify has returned true
  outcome,   \* "ok" until a call fails, does not return, or leaves a ring of links
  calls

vars == <<heap, unified, outcome, calls>>

Init ==
  /\ heap \in Heaps
  /\ unified = {}
  /\ outcome = "ok"
  /\ calls = 0

\* No object is linked to itself. Types that are linked already are linked again
\* into a ring, and the next call that follows its links does not return.
Acyclic(h) == \A p \in DOMAIN h : Linked(h, "left", p).ends /\ Linked(h, "right", p).ends

\* The type checker unifies the types of two nodes.
call_unify(p, q) ==
  /\ outcome = "ok" /\ calls < MaxCalls /\ calls' = calls + 1
  /\ LET r == unify(heap, p, q)
     IN  /\ heap' = r.h
         /\ outcome' = CASE ~ r.ends -> "hangs"
                       [] r.ends /\ ~ r.ok -> "failed"
                       [] OTHER -> IF Acyclic(r.h) THEN "ok" ELSE "ring"
         /\ unified' = IF r.ends /\ r.ok THEN unified \cup {<<p, q>>} ELSE unified

\* An operator on numbers: an unknown operand is constrained.
check_numeric_operator(p, constraints) ==
  /\ outcome = "ok" /\ calls < MaxCalls /\ calls' = calls + 1
  /\ heap[p].t = "UNKNOWN"
  /\ heap' = [heap EXCEPT ![p].constraints = @ \cup constraints]
  /\ UNCHANGED <<unified, outcome>>

\* All is checked, or an error is reported, or the process stays in a loop.
ended == (outcome # "ok" \/ calls = MaxCalls) /\ UNCHANGED vars

Numeric == {{"INT"}, {"INT", "RATIONAL", "FLOAT"}}

Next ==
  \/ \E p, q \in Nodes : p # q /\ call_unify(p, q)
  \/ \E p \in Nodes, c \in Numeric : check_numeric_operator(p, c)
  \/ ended

Spec == Init /\ [][Next]_vars

-----------------------------------------------------------------------------
(* Properties.                                                             *)

\* The same type, as far as it is known. A list atom may be a list or a tuple.
RECURSIVE Same(_, _, _)
Same(h, p, q) ==
  LET ps == h[p].subtypes
      qs == h[q].subtypes
  IN  \/ is_unknown(h, p) /\ is_unknown(h, q)
      \/ h[p].t = h[q].t /\ h[p].t \notin Compound /\ h[p].enum_name = h[q].enum_name
      \/ /\ "LIST" \in {h[p].t, h[q].t} /\ {h[p].t, h[q].t} \subseteq Compound
         /\ \A i \in DOMAIN ps, j \in DOMAIN qs : Same(h, ps[i], qs[j])
      \/ /\ {h[p].t, h[q].t} \subseteq {"TUPLE", "TUPLE_OR_LIST"} /\ Len(ps) = Len(qs)
         /\ \A i \in DOMAIN ps : Same(h, ps[i], qs[i])

\* What unify has made equal stays equal: whatever becomes known of one of two
\* types later, through any links, is known of the other one.
UnifiedAgree == outcome = "ok" => \A u \in unified : Same(heap, u[1], u[2])

\* No type is given that a numeric operator on it does not allow, whichever of
\* the linked types the operator constrained and whichever became known.
ConstraintsHold ==
  outcome = "ok" => \A p \in DOMAIN heap :
    heap[p].constraints # {} => heap[p].t \in heap[p].constraints \cup {"UNKNOWN"}

\* What kinds may become: a list becomes the tuple that is assigned to it
\* (types.cpp:246-256), the type of a list atom becomes either.
Narrower == [LIST |-> {"LIST", "TUPLE"}, TUPLE |-> {"TUPLE"}, TUPLE_OR_LIST |-> Compound]

\* What is known of p in the heap g is so of q in the heap h.
RECURSIVE Covers(_, _, _, _)
Covers(g, p, h, q) ==
  LET ps == g[p].subtypes
      qs == h[q].subtypes
      any == "LIST" \in {g[p].t, h[q].t}
  IN  \/ g[p].t = "UNKNOWN"
      \/ /\ g[p].t \notin Compound /\ h[q].t = g[p].t
         /\ g[p].enum_name \in {"", h[q].enum_name}
      \/ /\ g[p].t \in Compound /\ h[q].t \in Narrower[g[p].t]
         /\ \/ Open(g, p)
            \/ /\ any \/ Len(ps) = Len(qs)
               /\ \A i \in DOMAIN ps, j \in DOMAIN qs : any \/ i = j => Covers(g, ps[i], h, qs[j])

\* While no error is found, what is known of a type is never lost or replaced, down
\* to the types of elements, whichever calls follow: a list keeps the type of its
\* elements when it becomes a tuple, an atom of a list that of each of its own.
OnlyRefined ==
  [][outcome' = "ok" => \A p \in DOMAIN heap : Covers(heap, p, heap', p)]_vars

=============================================================================

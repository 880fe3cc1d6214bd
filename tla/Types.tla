------------------------------- MODULE Types --------------------------------
(***************************************************************************)
(* Type objects and their unification (class Type). Every AST node has a   *)
(* Type object; unify makes two of them equal, and links them when neither *)
(* is known yet, so that what becomes known of one later becomes known of  *)
(* the other.                                                              *)
(*                                                                         *)
(* An operation takes the heap of Type objects and returns the new one.    *)
(***************************************************************************)
EXTENDS Integers, FiniteSets, SequencesExt

Compound == {"LIST", "TUPLE", "TUPLE_OR_LIST"}

Null == 0

\* A Type object. The constraints are kinds, any of which will do.
Type(t, subtypes, constraints, enum_name) ==
  [t |-> t, left |-> Null, right |-> Null, subtypes |-> subtypes,
   constraints |-> constraints, enum_name |-> enum_name]

Of(t) == Type(t, <<>>, {}, "")
Constrained(constraints) == Type("UNKNOWN", <<>>, constraints, "")
EnumType(name) == Type("ENUM", <<>>, {}, name)
ListOf(p) == Type("LIST", <<p>>, {}, "")

\* What a call leaves: the heap, what it returns, and whether it returns at all.
Result(h, ok) == [h |-> h, ok |-> ok, ends |-> TRUE]
Hangs(h) == [h |-> h, ok |-> FALSE, ends |-> FALSE]

-----------------------------------------------------------------------------
(* What is known of a type.                                                *)

RECURSIVE is_complete(_, _), eq(_, _, _), copy(_, _)

is_complete(h, p) ==
  /\ h[p].t # "UNKNOWN"
  /\ h[p].t \in Compound =>
       h[p].subtypes # <<>> /\ \A i \in DOMAIN h[p].subtypes : is_complete(h, h[p].subtypes[i])

\* The types of the elements have not been determined.
Open(h, p) ==
  \/ h[p].subtypes = <<>>
  \/ Len(h[p].subtypes) = 1 /\ h[h[p].subtypes[1]].t = "UNKNOWN"

is_unknown(h, p) ==
  h[p].t = "UNKNOWN" \/ (h[p].t \in {"TUPLE", "TUPLE_OR_LIST"} /\ Open(h, p))

\* operator==: the names of enums are not compared.
eq(h, p, q) ==
  /\ h[p].t = h[q].t
  /\ Len(h[p].subtypes) = Len(h[q].subtypes)
  /\ \A i \in DOMAIN h[p].subtypes : eq(h, h[p].subtypes[i], h[q].subtypes[i])

\* The heap with a new object at its end.
New(h, type) == Append(h, type)

\* Type(Type*): a deep copy without links and constraints; it is the last object.
copy(h, p) ==
  LET sub(r, q) == LET c == copy(r.h, q) IN [h |-> c, subs |-> Append(r.subs, Len(c))]
      r == FoldLeft(sub, [h |-> h, subs |-> <<>>], h[p].subtypes)
  IN  New(r.h, Type(h[p].t, r.subs, {}, h[p].enum_name))

-----------------------------------------------------------------------------
(* unify                                                                   *)

\* p and what is linked to it on one side, in order, and whether that ends.
RECURSIVE LinkedFrom(_, _, _, _)
LinkedFrom(h, side, p, seen) ==
  IF p = Null \/ p \in Range(seen) THEN [objects |-> seen, ends |-> p = Null]
  ELSE LinkedFrom(h, side, h[p][side], Append(seen, p))

Linked(h, side, p) == LinkedFrom(h, side, p, <<>>)

\* One of the four loops over links, which do not look at the last object:
\* whether it returns because it finds the type it looks for, or never ends.
Loop(h, side, p, wanted) ==
  LET l == Linked(h, side, p)
  IN  CASE wanted \in Range(IF l.ends THEN Front(l.objects) ELSE l.objects) -> "found"
        [] OTHER -> IF l.ends THEN "over" ELSE "endless"

Joined(h, last, first) == [h EXCEPT ![first].left = last, ![last].right = first]

\* Two unknown types: each is looked for in the links of the other; if the loops
\* do not find it, the links of p are put in front of those of q.
Link(h, p, q) ==
  LET loops == << Loop(h, "left", p, q), Loop(h, "right", q, p),
                  Loop(h, "left", q, p), Loop(h, "right", p, q) >>
      stop  == SelectInSeq(loops, LAMBDA l : l # "over")
  IN  CASE stop = 0 -> Result(Joined(h, Last(Linked(h, "right", p).objects),
                                        Last(Linked(h, "left", q).objects)), TRUE)
        [] stop # 0 -> IF loops[stop] = "found" THEN Result(h, TRUE) ELSE Hangs(h)

\* q is p or a part of it.
RECURSIVE Occurs(_, _, _)
Occurs(h, q, p) ==
  q = p \/ \E i \in DOMAIN h[p].subtypes : Occurs(h, q, h[p].subtypes[i])

RECURSIVE unify(_, _, _)

\* b after a, unless a fails.
And(a, b(_)) == IF a.ends /\ a.ok THEN b(a.h) ELSE a

\* unify after r, unless r fails.
AndUnify(r, p, q) == IF r.ends /\ r.ok THEN unify(r.h, p, q) ELSE r

\* unify of the members of two sequences, from the left, until one fails.
All(h, ps, qs) ==
  FoldLeft(LAMBDA r, i : AndUnify(r, ps[i], qs[i]), Result(h, TRUE), [i \in 1 .. Len(ps) |-> i])

\* unify of each member of a sequence with q.
Each(h, ps, q) == FoldLeft(LAMBDA r, p : AndUnify(r, p, q), Result(h, TRUE), ps)

\* q is unknown and takes the type of p. If it is a part of it then is_complete
\* and the next call of unify do not end.
Take(h, p, q) ==
  IF h[q].constraints # {} THEN Result(h, FALSE)
  ELSE IF Occurs(h, q, p) THEN Hangs(h)
  ELSE Result([h EXCEPT ![q].t = h[p].t, ![q].subtypes = h[p].subtypes,
                        ![q].enum_name = h[p].enum_name], TRUE)

\* The list atom at q is a list of the type at elem, if its elements r had that type.
AtomAsList(h, elem, q, r) ==
  IF r.ends /\ r.ok
    THEN Result([copy(r.h, elem) EXCEPT ![q].t = "LIST", ![q].subtypes = <<Len(copy(r.h, elem))>>], TRUE)
  ELSE IF r.ends /\ ~ is_complete(h, elem)
    THEN Result([r.h EXCEPT ![elem].t = "UNKNOWN"], FALSE)
  ELSE r

\* The list at p is a tuple of the types subs, if they were those of its elements.
ListAsTuple(p, subs, r) ==
  IF r.ends /\ r.ok
    THEN Result([r.h EXCEPT ![p].t = "TUPLE", ![p].subtypes = subs], TRUE) ELSE r

unify_list(h, p, q) ==
  LET elem == h[p].subtypes[1]
      subs == h[q].subtypes
  IN  CASE h[q].t = "LIST" -> unify(h, elem, subs[1])
        [] h[q].t = "TUPLE_OR_LIST" ->
             AtomAsList(h, elem, q, IF subs # <<>> /\ h[subs[1]].t # "UNKNOWN"
                                      THEN Each(h, subs, elem) ELSE Result(h, TRUE))
        [] h[q].t = "TUPLE" ->
             IF is_complete(h, p) THEN ListAsTuple(p, subs, Each(h, subs, elem))
             ELSE Result(h, FALSE)
        [] h[q].t = "UNKNOWN" ->
             IF h[q].constraints # {} THEN Result(h, FALSE)
             ELSE IF Occurs(h, q, p) THEN Hangs(h)
             ELSE unify([New(h, Of("UNKNOWN")) EXCEPT ![q].t = "LIST", ![q].subtypes = <<Len(h) + 1>>],
                        elem, Len(h) + 1)
        [] OTHER -> Result(h, FALSE)

\* Two types whose elements are listed one by one.
Elementwise(h, p, q) ==
  CASE Open(h, p) -> Result([h EXCEPT ![p].subtypes = h[q].subtypes], TRUE)
    [] ~ Open(h, p) /\ Open(h, q) -> Result([h EXCEPT ![q].subtypes = h[p].subtypes], TRUE)
    [] OTHER -> IF Len(h[p].subtypes) = Len(h[q].subtypes)
                  THEN All(h, h[p].subtypes, h[q].subtypes) ELSE Result(h, FALSE)

unify_tuple(h, p, q) ==
  CASE h[q].t \in {"TUPLE_OR_LIST", "TUPLE"} -> Elementwise([h EXCEPT ![q].t = "TUPLE"], p, q)
    [] h[q].t = "UNKNOWN" -> Take(h, p, q)
    [] OTHER -> Result(h, FALSE)

unify_tuple_or_list(h, p, q) ==
  CASE h[q].t = "TUPLE_OR_LIST" -> Elementwise(h, p, q)
    [] h[q].t = "UNKNOWN" -> Take(h, p, q)
    [] OTHER -> Result(h, FALSE)

\* A type ENUM without a name (Enum2Int, Int2Enum) stands for any enum.
unify_enum(h, p, q) ==
  CASE h[q].t = "ENUM" ->
         LET name == IF h[p].enum_name = "" THEN h[q].enum_name ELSE h[p].enum_name
         IN  IF "" \in {h[p].enum_name, h[q].enum_name}
               THEN Result([h EXCEPT ![p].enum_name = name, ![q].enum_name = name], TRUE)
               ELSE Result(h, h[p].enum_name = h[q].enum_name)
    [] h[q].t = "UNKNOWN" -> Take(h, p, q)
    [] OTHER -> Result(h, FALSE)

\* Mutant: constraints are not looked at.
unify_basic_unconstrained(h, p, q) ==
  IF h[p].t = "UNKNOWN" THEN Result([h EXCEPT ![p].t = h[q].t], TRUE)
  ELSE IF h[q].t = "UNKNOWN" THEN Result([h EXCEPT ![q].t = h[p].t], TRUE)
  ELSE Result(h, h[p].t = h[q].t)

\* Mutant: a known type takes the other one as well.
unify_basic_overwrites(h, p, q) ==
  IF h[q].t = "UNKNOWN" THEN Result([h EXCEPT ![q].t = h[p].t], TRUE)
  ELSE Result([h EXCEPT ![p].t = h[q].t], TRUE)

\* An unknown type takes the other one, which must then be one of its constraints.
unify_basic(h, p, q) ==
  LET fits(r) == h[r].constraints = {} \/ {h[p].t, h[q].t} \cap h[r].constraints # {}
  IN  CASE h[p].t # "UNKNOWN" /\ h[q].t # "UNKNOWN" -> Result(h, h[p].t = h[q].t)
        [] h[p].t = "UNKNOWN" /\ h[q].t # "UNKNOWN" -> Result([h EXCEPT ![p].t = h[q].t], fits(p))
        [] h[p].t # "UNKNOWN" /\ h[q].t = "UNKNOWN" -> Result([h EXCEPT ![q].t = h[p].t], fits(q))
        [] OTHER -> Result(h, TRUE)

\* Which of the two decides how: lists come first, then tuples, then the types of
\* list atoms, then enums.
unify_nofollow(h, p, q) ==
  LET kinds == <<"LIST", "TUPLE", "TUPLE_OR_LIST", "ENUM">>
      k == SelectInSeq(kinds, LAMBDA t : t \in {h[p].t, h[q].t})
      a == IF k # 0 /\ h[p].t # kinds[k] THEN q ELSE p
      b == IF a = p THEN q ELSE p
  IN  CASE k = 0 -> unify_basic(h, p, q)
        [] k = 1 -> unify_list(h, a, b)
        [] k = 2 -> unify_tuple(h, a, b)
        [] k = 3 -> unify_tuple_or_list(h, a, b)
        [] k = 4 -> unify_enum(h, a, b)

\* unify_nofollow after r, unless r fails.
AndNofollow(r, p, q) == IF r.ends /\ r.ok THEN unify_nofollow(r.h, p, q) ELSE r

\* Links that form a ring are followed for ever.
Endless(r, l) == IF r.ok /\ ~ l.ends THEN Hangs(r.h) ELSE r

\* unify_left looks twice at every object that has another one behind it.
Visited(side, objects) ==
  IF side = "right" THEN objects
  ELSE FlattenSeq([i \in DOMAIN objects |->
                     IF i = Len(objects) THEN <<objects[i]>> ELSE <<objects[i], objects[i]>>])

\* unify_left and unify_right: p with what is linked to o on one side.
Follow(r, side, p, o) ==
  LET l == Linked(r.h, side, r.h[o][side])
  IN  IF r.ends /\ r.ok
        THEN Endless(FoldLeft(LAMBDA m, q : AndNofollow(m, p, q), r, Visited(side, l.objects)), l)
        ELSE r

\* p with what is linked to both types, on the left first.
FollowAll(r, p, steps) == FoldLeft(LAMBDA m, s : Follow(m, s[1], p, s[2]), r, steps)

\* Mutant: what is linked to this type on the right is not followed.
unify_left_only(h, p, q) ==
  IF is_unknown(h, p) /\ is_unknown(h, q) THEN Link(h, p, q)
  ELSE FollowAll(unify_nofollow(h, p, q), p,
                 << <<"left", q>>, <<"left", p>>, <<"right", q>> >>)

unify(h, p, q) ==
  IF is_unknown(h, p) /\ is_unknown(h, q) THEN Link(h, p, q)
  ELSE FollowAll(unify_nofollow(h, p, q), p,
                 << <<"left", q>>, <<"left", p>>, <<"right", q>>, <<"right", p>> >>)

\* unify with a temporary type: only the kind, and no links.
unify_value(h, p, t) ==
  IF h[p].t = "UNKNOWN" THEN Result([h EXCEPT ![p].t = t], TRUE) ELSE Result(h, h[p].t = t)

=============================================================================

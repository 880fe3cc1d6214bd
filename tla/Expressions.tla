----------------------------- MODULE Expressions ----------------------------
(***************************************************************************)
(* Updates f(a) := e from the type checker to the function states: what    *)
(* TypecheckVisitor accepts, what the interpreter then computes, and how   *)
(* apply_updates stores it and a function is read again.                   *)
(*                                                                         *)
(* A program is a sequence of updates. All of them are checked, in one     *)
(* heap of Type objects; then they are executed, each in a step of its own *)
(* (updates of one step are in UpdateSet and AsmBlocks). Functions have    *)
(* one argument at most.                                                   *)
(***************************************************************************)
EXTENDS Types, Values

CONSTANTS
  Declared,     \* the Type objects of the declarations
  Functions,    \* per function: the addresses of its argument types and result
                \* type, and the subrange of the result if it has one
  Programs,     \* the updates that the first, second, ... statement may be
  Length        \* the number of statements

VARIABLES
  types,     \* the heap of Type objects
  program,   \* the updates that have been accepted, with the types of all nodes
  pc,        \* how many of them have been executed
  states,    \* function_states: per function, pairs of a key and a value
  assigned,  \* auxiliary: the updates that were executed, as values, last first
  gaps,      \* auxiliary: where the statements executed have left what the checker
             \* has made sure of (see Gaps)
  phase      \* "check", "run", or why there is nothing more to do

vars == <<types, program, pc, states, assigned, gaps, phase>>

-----------------------------------------------------------------------------
(* Expressions. An atom is a value, a node has a name and arguments.       *)

Atom(v) == [k |-> "atom", v |-> v, args |-> <<>>]
Op(op, l, r) == [k |-> "op", v |-> <<op>>, args |-> <<l, r>>]
Not(e) == [k |-> "not", v |-> <<"NOT">>, args |-> <<e>>]
Builtin(name, args) == [k |-> "builtin", v |-> <<name>>, args |-> args]
Fun(f, args) == [k |-> "fun", v |-> <<f>>, args |-> args]
ListAtom(args) == [k |-> "list", v |-> <<"LIST">>, args |-> args]
Update(f, args, e) == [f |-> Fun(f, args), e |-> e]

Typed(e, args, p) == [k |-> e.k, v |-> e.v, args |-> args, p |-> p]

\* The type a node has when it is made.
NodeType(e) ==
  CASE e.k = "atom" -> (CASE is_undef(e.v)    -> Of("UNKNOWN")
                          [] e.v[1] = "ENUM"  -> EnumType(e.v[2][1])
                          [] OTHER            -> Of(e.v[1]))
    [] e.k # "atom" -> Of("UNKNOWN")

-----------------------------------------------------------------------------
(* The type checker. An error does not stop it, but the program is not     *)
(* executed then; it is taken to stop at the first one here.               *)

\* The result of unify is not looked at.
Ignored(r) == [r EXCEPT !.ok = r.ends]

\* A new node for a type that is not shared.
With(h, t) == New(h, Of(t))

check_numeric_operator(h, p, op) ==
  CASE h[p].t = "UNKNOWN" ->
         Result([h EXCEPT ![p].constraints =
                   @ \cup {"INT"} \cup (IF op = "MOD" THEN {} ELSE {"RATIONAL", "FLOAT"})], TRUE)
    [] h[p].t # "UNKNOWN" ->
         Result(h, h[p].t = "INT" \/ (op \notin {"MOD", "RAT_DIV"} /\ h[p].t \in {"FLOAT", "RATIONAL"}))

\* Mutant: the types of the operands may differ.
visit_expression_unmatched(h, op, p, ps) == unify_value(h, p, "BOOLEAN")

visit_expression(h, op, p, ps) ==
  And(unify(h, ps[1], ps[2]), LAMBDA g :
    CASE op \in Numeric \cup {"MOD"} ->
           And(check_numeric_operator(g, ps[1], op), LAMBDA k : Ignored(unify(k, p, ps[1])))
      [] op = "RAT_DIV" ->
           And(check_numeric_operator(g, ps[1], op), LAMBDA k : Ignored(unify_value(k, p, "RATIONAL")))
      [] op \in Order ->
           And(check_numeric_operator(g, ps[1], op), LAMBDA k : Ignored(unify_value(k, p, "BOOLEAN")))
      [] op \in Logical ->
           And(unify(With(g, "BOOLEAN"), ps[1], Len(g) + 1),
               LAMBDA k : Ignored(unify_value(k, p, "BOOLEAN")))
      [] op \in {"EQ", "NEQ"} -> Ignored(unify_value(g, p, "BOOLEAN")))

visit_expression_single(h, p, ps) ==
  And(unify(With(h, "BOOLEAN"), ps[1], Len(h) + 1),
      LAMBDA k : Ignored(unify_value(k, p, "BOOLEAN")))

\* The Type objects a BuiltinAtom is made with, behind the first b ones: those of
\* the arguments, that of the result, and which of them are unified at once.
Signature(b, name) ==
  LET sig(objects, args, ret, links) ==
        [objects |-> objects, args |-> args, ret |-> ret, links |-> links]
      unknown == Of("UNKNOWN")
      from(t, u) == sig(<<t, u>>, <<b + 1>>, b + 2, <<>>)
      any == Constrained({"INT", "FLOAT", "RATIONAL"})
  IN  CASE name = "pow" ->
             sig(<<unknown, unknown, unknown>>, <<b + 1, b + 2>>, b + 3,
                 << <<b + 1, b + 2>>, <<b + 2, b + 3>> >>)
        [] name = "nth" ->
             sig(<<unknown, Type("TUPLE_OR_LIST", <<b + 1>>, {}, ""), Of("INT"), unknown>>,
                 <<b + 2, b + 3>>, b + 4, << <<b + 1, b + 4>> >>)
        [] name \in {"cons", "app"} ->
             sig(<<unknown, unknown, ListOf(b + 2), unknown, ListOf(b + 4)>>,
                 IF name = "cons" THEN <<b + 1, b + 3>> ELSE <<b + 3, b + 1>>, b + 5,
                 << <<b + 1, b + 2>>, <<b + 3, b + 5>> >>)
        [] name = "len"  -> sig(<<unknown, ListOf(b + 1), Of("INT")>>, <<b + 2>>, b + 3, <<>>)
        [] name = "tail" ->
             sig(<<unknown, ListOf(b + 1), unknown>>, <<b + 2>>, b + 3, << <<b + 2, b + 3>> >>)
        [] name = "peek" ->
             sig(<<unknown, ListOf(b + 1), unknown>>, <<b + 2>>, b + 3, << <<b + 1, b + 3>> >>)
        [] name = "hex"         -> from(Of("INT"), Of("STRING"))
        [] name = "Boolean2Int" -> from(Of("BOOLEAN"), Of("INT"))
        [] name = "Int2Boolean" -> from(Of("INT"), Of("BOOLEAN"))
        [] name = "Enum2Int"    -> from(EnumType(""), Of("INT"))
        [] name = "Int2Enum"    -> from(Of("INT"), EnumType(""))
        [] name = "asInt"       -> from(any, Of("INT"))
        [] name = "asFloat"     -> from(any, Of("FLOAT"))
        [] name = "asRational"  -> from(any, Of("RATIONAL"))
        [] name = "symbolic"    -> from(unknown, Of("BOOLEAN"))

\* The end of visit_builtin_atom for nth: a list atom with elements of one type is
\* a list; the index of a tuple must be a constant.
visit_nth(h, p, ps, s, index) ==
  LET t     == s.args[1]
      subs  == h[t].subtypes
      known == h[t].t = "TUPLE_OR_LIST" /\ subs # <<>> /\ h[subs[1]].t # "UNKNOWN"
      g     == IF known /\ \A i \in DOMAIN subs : eq(h, subs[1], subs[i])
                 THEN [New(h, [h[subs[1]] EXCEPT !.left = Null, !.right = Null, !.constraints = {}])
                         EXCEPT ![t].t = "LIST", ![t].subtypes = <<Len(h) + 1>>]
                 ELSE h
  IN  CASE g[t].t # "TUPLE" ->
             And(Ignored(unify(g, p, g[t].subtypes[1])), LAMBDA a :
             And(Ignored(unify(a, ps[1], p)), LAMBDA b : Ignored(unify(b, p, s.ret))))
        [] g[t].t = "TUPLE" ->
             IF index.k # "atom" \/ index.v[1] # "INT" THEN Result(g, FALSE)
             ELSE IF index.v[2] <= 0 THEN Result(g, FALSE)
             ELSE IF is_unknown(g, t) /\ is_unknown(g, p) THEN Result(g, TRUE)
             ELSE IF index.v[2] > Len(subs) THEN Result(g, FALSE)
             ELSE Ignored(unify(g, p, subs[index.v[2]]))

visit_builtin_atom(h, e, p, ps) ==
  LET s == Signature(Len(h), e.v[1])
      linked == FoldLeft(LAMBDA r, l : And(r, LAMBDA g : unify(g, l[1], l[2])),
                         Result(h \o s.objects, TRUE), s.links)
  IN  IF Len(ps) # Len(s.args) THEN Result(h, FALSE)
      ELSE And(linked, LAMBDA a : And(All(a, ps, s.args), LAMBDA g :
             IF e.v[1] = "nth" THEN visit_nth(g, p, ps, s, e.args[2])
             ELSE Ignored(unify(g, p, s.ret))))

visit_function_atom(h, f, p, ps) ==
  IF Len(ps) # Len(Functions[f].args) THEN Result(h, FALSE)
  ELSE And(All(h, ps, Functions[f].args), LAMBDA g : Ignored(unify(g, p, Functions[f].ret)))

\* A list atom is a tuple if its elements are known up to the first that differs.
visit_list_atom(h, p, ps) ==
  LET differ == {i \in DOMAIN ps : ~ eq(h, ps[1], ps[i])}
      known  == \A i \in DOMAIN ps : (\A j \in differ : i <= j) => is_complete(h, ps[i])
  IN  Result([h EXCEPT ![p].t = IF differ # {} /\ known THEN "TUPLE" ELSE "TUPLE_OR_LIST",
                       ![p].subtypes = ps], TRUE)

RECURSIVE Check(_, _)

\* The arguments of a node, from the left.
CheckAll(h, es) ==
  LET next(r, e) ==
        LET c == Check(r.h, e)
        IN  IF ~ r.ok THEN r
            ELSE [h |-> c.h, ok |-> c.ok, ends |-> c.ends, es |-> Append(r.es, c.e)]
  IN  FoldLeft(next, [h |-> h, ok |-> TRUE, ends |-> TRUE, es |-> <<>>], es)

\* What a check returns, for the node or the update that was checked.
Checked(r, e) == [h |-> r.h, ok |-> r.ok, ends |-> r.ends, e |-> e]

\* A node with the type p, in the heap h, whose arguments have the types ps.
Visit(h, e, p, ps) ==
  CASE e.k = "atom"    -> Result(h, TRUE)
    [] e.k = "op"      -> visit_expression(h, e.v[1], p, ps)
    [] e.k = "not"     -> visit_expression_single(h, p, ps)
    [] e.k = "builtin" -> visit_builtin_atom(h, e, p, ps)
    [] e.k = "fun"     -> visit_function_atom(h, e.v[1], p, ps)
    [] e.k = "list"    -> visit_list_atom(h, p, ps)

\* The node comes after its arguments a, if they are all right.
CheckNode(e, a) ==
  Checked(IF a.ok THEN Visit(New(a.h, NodeType(e)), e, Len(a.h) + 1, [i \in DOMAIN a.es |-> a.es[i].p])
          ELSE a,
          Typed(e, a.es, Len(a.h) + 1))

\* The heap after an expression was checked, and the expression with its types.
Check(h, e) == CheckNode(e, CheckAll(h, e.args))

\* Mutant: the types of the function and the expression are not compared.
CheckMatch_unmatched(e, f) == Checked(f, [f |-> f.e, e |-> e.e])

CheckMatch(e, f) ==
  Checked(IF f.ok THEN unify(f.h, f.e.p, e.e.p) ELSE f, [f |-> f.e, e |-> e.e])

CheckFunction(e, f) == CheckMatch(e, IF e.ok THEN Check(e.h, f) ELSE e)

\* The expression is walked before the function.
CheckUpdate(h, u) == CheckFunction(Check(h, u.e), u.f)

-----------------------------------------------------------------------------
(* Function states: maps from arguments to values. A key holds the 64 bits *)
(* of each argument, which are hashed and compared by the declared types.  *)

NoArguments == <<"NONE", 0>>

\* to_uint64_t: the bits of undef are 0, which is a null pointer or a number.
to_key(t, v) == IF is_undef(v) THEN (IF t = "INT" THEN IntVal(0) ELSE <<"NULL", 0>>) ELSE v

\* The bits of what is read as a number; a list atom that starts with undef may
\* bring a Boolean or a float in its place.
Bits(v) ==
  CASE v[1] = "BOOLEAN" -> IF v[2] THEN 1 ELSE 0
    [] v[1] = "FLOAT"   -> Quot(v[2][1], v[2][2])
    [] OTHER            -> v[2]

\* std::hash of a string: any function of it will do.
str_hasher(s) == Len(s)

\* A number, or why there is none.
RECURSIVE hash_uint64_value(_, _)
hash_uint64_value(p, k) ==
  LET t == types[p].t
      elem == types[p].subtypes[1]
      hashes == [i \in DOMAIN k[2] |-> hash_uint64_value(elem, to_key(types[elem].t, k[2][i]))]
      bad == SelectSeq(hashes, is_stop)
  IN  CASE t \in {"STRING", "ENUM", "RATIONAL", "LIST"} /\ k[1] = "NULL" -> Stop("CRASH")
        [] k[1] # "NULL" /\ t = "STRING"   -> IntVal(str_hasher(k[2]))
        [] k[1] # "NULL" /\ t = "ENUM"     -> IntVal(k[2][2] - 1)
        [] k[1] # "NULL" /\ t = "RATIONAL" -> IntVal(k[2][1] + k[2][2])
        [] k[1] # "NULL" /\ t = "LIST" ->
             IF bad # <<>> THEN Head(bad)
             ELSE IntVal(FoldLeft(LAMBDA n, v : n + v[2], 0, hashes))
        [] t = "INT" -> IntVal(Bits(k))
        [] OTHER -> Stop("FAILURE")


\* Values with the same hash are compared as values (enums by their ids).
eq_uint64_value(k, l) == Equal(k, l) = Bool(TRUE)

\* The key of a function's argument, and what stops the lookup of it.
KeyOf(f, vs) == IF vs = <<>> THEN NoArguments ELSE to_key(types[Functions[f].args[1]].t, vs[1])

HashOf(f, k) == IF k = NoArguments THEN IntVal(0) ELSE hash_uint64_value(Functions[f].args[1], k)

\* Where k is in the map of f; 0 if it is not.
Find(f, k) ==
  SelectInSeq(states[f], LAMBDA s :
    k = NoArguments \/ (HashOf(f, s.k) = HashOf(f, k) /\ eq_uint64_value(s.k, k)))

get_function_value(f, vs) ==
  LET k == KeyOf(f, vs)
      i == Find(f, k)
  IN  CASE is_stop(HashOf(f, k)) -> HashOf(f, k)
        [] OTHER -> IF i = 0 THEN UndefValue ELSE states[f][i].v

-----------------------------------------------------------------------------
(* The interpreter.                                                        *)

\* A subrange is checked on the number, which undef does not have.
OutOfRange(range, v) ==
  CASE range = <<>> -> FALSE
    [] range # <<>> -> v[1] = "INT" /\ v[2] \notin range[1] .. range[2]

Unset(range, v) == range # <<>> /\ is_undef(v)

visit_function_value(f, vs) ==
  CASE vs # <<>> /\ Unset(Functions[f].arg_range, vs[1]) -> Stop("UB")
    [] vs # <<>> /\ OutOfRange(Functions[f].arg_range, vs[1]) -> Stop("RANGE")
    [] OTHER -> get_function_value(f, vs)

\* The value of a node, given the values of its arguments.
Apply(e, vs) ==
  CASE e.k = "atom" -> e.v
    [] e.k = "op"   -> dispatch(e.v[1], vs[1], vs[2])
    [] e.k = "not"  -> not_(vs[1])
    [] e.k = "list" -> List(types[e.p].t, vs)
    [] e.k = "fun"  -> visit_function_value(e.v[1], vs)
    [] e.k = "builtin" ->
         IF e.v[1] = "Int2Enum" THEN int2enum(types[e.p].enum_name, vs[1]) ELSE builtin(e.v[1], vs)

\* walk_expression_base. Nothing follows what ends the process.
RECURSIVE Eval(_)
Eval(e) ==
  LET vs  == [i \in DOMAIN e.args |-> Eval(e.args[i])]
      bad == SelectSeq(vs, is_stop)
  IN  IF bad # <<>> THEN Head(bad) ELSE Apply(e, vs)

\* What the function states hold after an update is applied: its 64 bits, read as
\* the type of the function. A float goes through an integer. A list is folded, for
\* which collect takes as many elements from a vector as are left out.
Stored(t, v) ==
  CASE is_undef(v)       -> v
    [] ~ is_undef(v) /\ t \in {"TUPLE", "TUPLE_OR_LIST"} -> Stop("EXCEPTION")
    [] ~ is_undef(v) /\ t = "LIST" /\ v[1] \in ListKinds ->
         IF v[3] > 0 THEN Stop("UB") ELSE List("LIST", v[2])
    [] ~ is_undef(v) /\ t = v[1] ->
         IF t = "FLOAT" THEN Float(<<Quot(v[2][1], v[2][2]), 1>>) ELSE v
    [] OTHER -> Stop("UB")

\* walk_update and walk_update_subrange, the update and the end of the step: why
\* it stops, or the location and the value. A subrange of one number is not
\* checked here.
Executed(u) ==
  LET f  == u.f.v[1]
      F  == Functions[f]
      v  == Eval(u.e)
      vs == [i \in DOMAIN u.f.args |-> Eval(u.f.args[i])]
      range == IF F.range # <<>> /\ F.range[1] < F.range[2] THEN F.range ELSE <<>>
      checks == << v, IF F.arg_range # <<>> THEN Eval(u.f) ELSE v >> \o vs
                \o << IF Unset(range, v) THEN Stop("UB") ELSE v,
                      IF OutOfRange(range, v) THEN Stop("RANGE") ELSE v,
                      HashOf(f, KeyOf(f, vs)), Stored(types[F.ret].t, v) >>
      bad == SelectInSeq(checks, is_stop)
  IN  [stop |-> IF bad = 0 THEN "" ELSE checks[bad][2], f |-> f, vs |-> vs, v |-> v]

\* The entry is created if there is none, and set.
Write(f, k, v) ==
  LET i == Find(f, k)
  IN  IF i = 0 THEN Append(states[f], [k |-> k, v |-> v]) ELSE [states[f] EXCEPT ![i].v = v]

-----------------------------------------------------------------------------
(* What the type checker accepts although the interpreter is not prepared  *)
(* for it. Each has a name. ("list as tuple": an argument declared as a    *)
(* list becomes the tuple that a call passes.)                             *)

GapNames ==
  {"rational order", "pow", "Int2Enum(undef)", "undef argument", "number of a list", "undef head",
   "undef in subrange", "tail of an empty list", "list as tuple"}

\* At a node, for the values of its arguments.
NodeGap(g, e, vs) ==
  LET kinds == {vs[i][1] : i \in DOMAIN vs}
  IN  CASE g = "rational order" -> e.v[1] \in Order /\ "RATIONAL" \in kinds
        [] g = "pow" -> e.v[1] = "pow" /\ kinds \notin {{"INT"}, {"FLOAT"}}
        [] g = "Int2Enum(undef)" -> e.v[1] = "Int2Enum" /\ "UNDEF" \in kinds
        [] g = "undef argument" -> e.k = "fun" /\ "UNDEF" \in kinds
        [] g = "number of a list" ->
             e.v[1] \in {"asInt", "asFloat", "asRational"} /\ kinds \cap ListKinds # {}
        [] g = "undef head" -> e.k = "list" /\ vs # <<>> /\ is_undef(vs[1])
        [] g = "list as tuple" ->
             e.k = "fun" /\ vs # <<>> /\ types[Functions[e.v[1]].args[1]].t = "TUPLE"
        [] OTHER -> FALSE

RECURSIVE NodeGaps(_)
NodeGaps(e) ==
  {g \in GapNames : NodeGap(g, e, [i \in DOMAIN e.args |-> Eval(e.args[i])])}
    \cup UNION {NodeGaps(e.args[i]) : i \in DOMAIN e.args}

\* In an update, for the value that is assigned.
UpdateGap(g, F, v) ==
  CASE g = "undef in subrange" -> Unset(F.range, v)
    [] g = "tail of an empty list" -> v[1] \in ListKinds /\ v[3] > 0
    [] OTHER -> FALSE

UpdateGaps(u) ==
  NodeGaps(u.e) \cup NodeGaps(u.f)
    \cup {g \in GapNames : UpdateGap(g, Functions[u.f.v[1]], Eval(u.e))}

-----------------------------------------------------------------------------
(* The program.                                                            *)

Init ==
  /\ types = Declared
  /\ program = <<>>
  /\ pc = 0
  /\ states = [f \in DOMAIN Functions |-> <<>>]
  /\ assigned = <<>>
  /\ gaps = {}
  /\ phase = "check"

\* The next statement is checked. (What a program that is not accepted leaves in
\* the heap does not matter.)
visit_update(u) ==
  /\ phase = "check" /\ Len(program) < Length
  /\ \E r \in {CheckUpdate(types, u)} :
       /\ types' = IF r.ok THEN r.h ELSE Declared
       /\ program' = IF r.ok THEN Append(program, r.e) ELSE <<>>
       /\ phase' = CASE r.ok -> phase [] ~ r.ok -> IF r.ends THEN "rejected" ELSE "hangs"
  /\ UNCHANGED <<pc, states, assigned, gaps>>

start ==
  /\ phase = "check" /\ Len(program) = Length
  /\ phase' = "run"
  /\ UNCHANGED <<types, program, pc, states, assigned, gaps>>

\* The next statement is executed, in a step.
walk_update ==
  /\ phase = "run" /\ pc < Length
  /\ \E x \in {Executed(program[pc + 1])} :
         IF x.stop # ""
           THEN phase' = x.stop /\ UNCHANGED <<pc, states, assigned>>
           ELSE /\ pc' = pc + 1
                /\ states' = [states EXCEPT ![x.f] =
                     Write(x.f, KeyOf(x.f, x.vs), Stored(types[Functions[x.f].ret].t, x.v))]
                /\ assigned' = <<[f |-> x.f, vs |-> x.vs, v |-> x.v]>> \o assigned
                /\ UNCHANGED phase
  /\ gaps' = gaps \cup UpdateGaps(program[pc + 1])
  /\ UNCHANGED <<types, program>>

ended == (phase \notin {"check", "run"} \/ pc = Length) /\ UNCHANGED vars

Next ==
  \/ Len(program) < Length /\ \E u \in Programs[Len(program) + 1] : visit_update(u)
  \/ start \/ walk_update \/ ended

Spec == Init /\ [][Next]_vars

-----------------------------------------------------------------------------
(* Properties.                                                             *)

\* The process ends in FAILURE(), follows a null pointer, reads or removes a part of
\* a value that is not there, or meets a type that cannot be stored. (A division by
\* zero and a subrange may end it, too.)
Aborted == phase \in {"FAILURE", "CRASH", "UB", "EXCEPTION"}

\* What operators.cpp, builtins.cpp and value.cpp assume of the types is what the
\* type checker has established, but for the places GapNames lists: only there
\* does an accepted program abort, whatever its operands, undef and empty lists
\* included. Two of these places contradict the repository: typecheck_visitor.cpp:350
\* counts Rational among the operands of an order, and tests/integration/run-pass/
\* builtin/builtins.casm:59 has `tail( [] ) = []`.
AbortsOnlyInGaps == Aborted => gaps # {}

RECURSIVE Conforms(_, _)
Conforms(v, p) ==
  \/ is_undef(v)
  \/ /\ v[1] = Declared[p].t
     /\ v[1] = "LIST" => \A i \in DOMAIN v[2] : Conforms(v[2][i], Declared[p].subtypes[1])
     /\ v[1] = "ENUM" => v[2][1] = Declared[p].enum_name

\* Functions hold values of the types they were declared with, down to the elements
\* of lists, whatever has been unified with the declared types since. A list atom
\* that starts with undef is the exception: its elements are not looked at.
ValuesConform ==
  "undef head" \notin gaps =>
    \A f \in DOMAIN states : \A i \in DOMAIN states[f] :
      Conforms(states[f][i].v, Functions[f].ret)

SameLocation(a, b) ==
  a.f = b.f /\ \A i \in DOMAIN a.vs : Equal(a.vs[i], b.vs[i]) = Bool(TRUE)

\* Nothing was assigned to the location of the i-th update after it.
IsLast(i) == \A j \in 1 .. i - 1 : ~ SameLocation(assigned[j], assigned[i])

\* What is to be read again. Of a float that is the integer part, although tests/
\* integration/run-pass/calc/numbers.casm:97-103 keeps fractions in functions.
Expected(v) == IF v[1] = "FLOAT" THEN asfloat(asint(v)) ELSE v


=============================================================================

---------------------------- MODULE MCCasmWalker ----------------------------
(***************************************************************************)
(* Small CASM programs for CasmWalker. x, y and the rule reference z are   *)
(* nullary functions, undef at first; the machine of every program stops   *)
(* itself after one or two steps.                                          *)
(***************************************************************************)
EXTENDS RuleMeaning

Const(v) == [t |-> "const", v |-> v]
Read(l) == [t |-> "read", l |-> l]
Upd(l, e) == [t |-> "update", l |-> l, e |-> e]
Seqb(ss) == [t |-> "seq", body |-> ss]
Parb(ss) == [t |-> "par", body |-> ss]
Iter(s) == [t |-> "iterate", s |-> s]
Forall(in, s) == [t |-> "forall", in |-> in, s |-> s]
Skip == [t |-> "skip"]
If(l, v, s, e) == [t |-> "if", l |-> l, v |-> v, strict |-> FALSE, s |-> s, else |-> e]
IfStrict(l, v, s, e) == [If(l, v, s, e) EXCEPT !.strict = TRUE]
AssertEq(l, v) == [t |-> "assert", l |-> l, v |-> v]
Call(e) == [t |-> "call", e |-> e]
Case(l, v, s, w, r, d) ==
  [t |-> "case", l |-> l, labels |-> <<[v |-> v, s |-> s], [v |-> w, s |-> r]>>, default |-> d]

Locs == {"x", "y", "z", "program"}
Values == {"undef", "a", "b", "x", "y", "init", "rule", "other"}

Blocks(S) == {Seqb(ss) : ss \in S \X S} \cup {Parb(ss) : ss \in S \X S}

Updates == {Upd("x", Const("a")), Upd("x", Read("y")), Upd("y", Read("x")), Upd("y", Const("b"))}

Loops ==
  { Iter(If("x", "undef", Upd("x", Const("a")), Skip)),
    Iter(If("x", "a", Upd("x", Const("b")),
            If("y", "undef", Seqb(<<Upd("y", Read("x")), Upd("y", Const("b"))>>), Skip))),
    Iter(Parb(<<If("x", "b", Upd("x", Const("a")), Skip),
                If("y", "undef", Upd("y", Const("a")), Skip)>>)),
    Iter(Seqb(<<If("x", "undef", Upd("x", Const("b")), Skip),
                If("x", "b", Upd("x", Const("a")), Skip)>>)),
    Forall(<<"x", "y">>, Upd("var", Const("a"))),
    Forall(<<"x", "y">>, Seqb(<<Upd("var", Const("b")), Upd("var", [t |-> "var"])>>)),
    Forall(<<"a", "b">>, Upd("x", [t |-> "var"])),
    Forall(<<>>, Upd("x", Const("a"))) }

Others ==
  { If("x", "a", Upd("y", Const("a")), Skip),
    IfStrict("x", "a", Upd("y", Const("b")), Upd("z", Const("other"))),
    Case("x", "a", Upd("y", Const("a")), "undef", Upd("y", Const("b")), Upd("x", Const("a"))),
    AssertEq("x", "a"), Call(Const("other")), Call(Read("z")), Upd("z", Const("other")), [t |-> "diedie"] }

\* Every pair of these in a block, next to an update.
Inner2 == Updates \cup Blocks(Updates) \cup Loops \cup Others

Stop == Upd("program", Const("undef"))
Switch == Upd("program", Const("rule"))

Other == Seqb(<<Upd("y", Read("x")), Upd("x", Const("b"))>>)

Shallow ==
  { [init |-> b, rules |-> [rule |-> Skip, other |-> Other]] :
      b \in {Seqb(<<p, q, Stop>>) : p \in Inner2, q \in Inner2}
              \cup {Parb(<<p, q, Stop>>) : p \in Inner2, q \in Inner2} }

\* Four updates in blocks nested three deep.
Deep ==
  LET two   == Blocks(Updates)
      three == {Seqb(<<u, b>>) : u \in Updates, b \in two}
                 \cup {Parb(<<b, u>>) : u \in Updates, b \in two}
  IN  { [init |-> b, rules |-> [rule |-> Skip, other |-> Skip]] :
          b \in {Seqb(<<u, c, Stop>>) : u \in Updates, c \in three}
                  \cup {Parb(<<c, u, Stop>>) : u \in Updates, c \in three} }

\* Two steps: the rule of the second sees what the first has committed, and
\* runs in the pseudostate the init rule has chosen.
TwoSteps ==
  { [init |-> b, rules |-> [rule |-> r, other |-> Other]] :
      b \in {Seqb(<<u, Switch>>) : u \in Updates} \cup {Parb(<<u, Switch>>) : u \in Updates}
              \cup {Parb(<<Seqb(<<Upd("x", Const("a")), u>>), Switch>>) : u \in Updates},
      r \in {Seqb(<<p, q, Stop>>) : p \in Updates \cup Loops \cup Others, q \in Updates}
              \cup {Seqb(<<q, p, Stop>>) : p \in Loops, q \in Updates}
              \cup {Parb(<<p, q, Stop>>) : p \in Updates \cup Loops \cup Others, q \in Updates}
              \cup {Forall(<<"x", "y", "program">>, Upd("var", Const("undef"))), Stop} }

AllMachines == Shallow \cup Deep \cup TwoSteps

\* The statements right inside s, and what the walker can meet within five of
\* these steps: no machine here nests deeper.
Inside(s, i) ==
  CASE s.t \in {"seq", "par"} -> {<<s.body[n], i>> : n \in DOMAIN s.body}
    [] s.t = "forall" -> {<<s.s, s.in[n]>> : n \in DOMAIN s.in}
    [] s.t = "iterate" -> {<<s.s, i>>}
    [] s.t = "if" -> {<<s.s, i>>, <<s.else, i>>}
    [] s.t = "case" -> {<<s.default, i>>} \cup {<<s.labels[n].s, i>> : n \in DOMAIN s.labels}
    [] OTHER -> {}

Further(P) == P \cup UNION {Inside(p[1], p[2]) : p \in P}

AllVisits ==
  LET start == {<<m.init, "undef">> : m \in AllMachines}
                 \cup {<<m.rules[r], "undef">> : m \in AllMachines, r \in {"rule", "other"}}
  IN  {p : p \in Further(Further(Further(Further(Further(start)))))}

\* The solution of the equations that evaluates them.
MeaningOf(m, s, S, i) == LET result == Unfold(m, s, S, i) IN result

=============================================================================

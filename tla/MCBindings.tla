----------------------------- MODULE MCBindings -----------------------------
(***************************************************************************)
(* Programs for Bindings.                                                  *)
(***************************************************************************)
EXTENDS Bindings

D(e) == Derived("d", <<e, Lit(2)>>)

\* d(x, w) = w. The parameters of a derived function have names of the rules, too.
MCDerived == [d |-> Rule(<<"x", "w">>, Var("w")), e |-> Rule(<<"w">>, D(Var("w")))]

Uses == {Use(e) : e \in {Var("x"), Var("y"), Var("p"), Derived("e", <<Var("x")>>)}}

\* Statements around s which bind y (and z), or go through s not at all or twice.
Around(s) ==
  {Let("y", Var("x"), s), Let("y", Lit(3), Let("z", D(Var("y")), s)), Forall("y", Var("x"), s),
   Forall("y", Lit(1), Let("z", Var("y"), Block(<<s, Use(Var("z"))>>))),
   If(Var("x"), s, Let("y", Lit(3), s)), Case(Var("x"), <<s, Let("z", Lit(3), s)>>), Iterate(s)}

\* Statements of the rule sub(x). A name is bound only where it is not known, and
\* pop is a statement of the rule itself. (What goes wrong otherwise: README.)
Stmts == UNION {Around(s) : s \in Uses} \cup Uses
           \cup {Let("y", Lit(3), Call("sub", <<Var("y")>>)), CallRef(<<Lit(3)>>)}

\* A pop that may not happen, with no binding after it.
MayPop(s, t) == Block(<<s, If(Var("x"), Pop("p"), Use(Var("x"))), t>>)

Bodies == {MayPop(s, t) : s \in Stmts, t \in Uses} \cup {Block(<<Pop("p"), s, t>>) : s, t \in Stmts} \cup {Block(<<s, Pop("p"), t>>) : s, t \in Stmts}

MainBody == Let("y", Lit(1), Block(<<Call("sub", <<Var("y")>>), Use(Var("y"))>>))

Main(body) == [rules |-> [main |-> Rule(<<>>, MainBody), sub |-> Rule(<<"x">>, body)],
               derived |-> MCDerived]

WellScoped == {Main(b) : b \in Bodies}

\* The rule of the program pops into a new binding in every step.
PopInEveryStep ==
  {[rules |-> [main |-> Rule(<<>>, Block(<<Pop("x"), Use(Var("x"))>>))], derived |-> MCDerived]}

=============================================================================

----------------------------- MODULE RuleMeaning -----------------------------
(***************************************************************************)
(* What a rule means, independently of the walker, and the comparison of   *)
(* the steps of CasmWalker with it.                                        *)
(***************************************************************************)
EXTENDS CasmWalker

(* What a statement means: the updates it yields in a state, or failure.   *)
(* The parts of a parallel block all see the state before the block and    *)
(* may not meet in a location; each part of a sequential block sees what   *)
(* the parts before it have yielded. Unfold says what a statement means in *)
(* terms of what the statements inside it mean, the rules it calls and the *)
(* rounds an iterate has still to take; Meaning is any solution of these   *)
(* equations.                                                              *)
CONSTANT Meaning(_, _, _, _) \* what statement s of machine m means in state S, where
                             \* the variable of the forall around it is i

Ok(upd) == [st |-> "ok", upd |-> upd]
NoUpdates == [l \in {} |-> Undef]
Failure == [st |-> "fail", upd |-> NoUpdates]

In(S, e, i) ==
  CASE e.t = "const" -> e.v [] e.t = "read" -> S[e.l] [] e.t = "var" -> i

\* The rule of machine m with a name.
Named(m, name) == IF name = "init" THEN m.init ELSE m.rules[name]

\* S after the updates u, and the updates u before v.
After(S, u) == [l \in DOMAIN S |-> IF l \in DOMAIN u THEN u[l] ELSE S[l]]
Both(u, v) == [l \in DOMAIN u \cup DOMAIN v |-> IF l \in DOMAIN v THEN v[l] ELSE u[l]]

\* One result, and another of what comes after it or runs beside it.
Then(r, q) == IF r.st = "ok" /\ q.st = "ok" THEN Ok(Both(r.upd, q.upd)) ELSE Failure
Beside(r, q) == IF DOMAIN r.upd \cap DOMAIN q.upd = {} THEN Then(r, q) ELSE Failure

\* What the statement s yields besides r, after it in a sequential block and
\* next to it in a parallel one.
Onwards(r, m, s, S, i) == Then(r, Meaning(m, s, After(S, r.upd), i))

InTurn(m, ss, S, i) ==
  LET r[n \in 0 .. Len(ss)] ==
        IF n = 0 THEN Ok(NoUpdates) ELSE Onwards(r[n - 1], m, ss[n], S, i)
  IN  r[Len(ss)]

\* parts is a sequence of statements with their variable.
Together(m, parts, S) ==
  LET r[n \in 0 .. Len(parts)] ==
        IF n = 0 THEN Ok(NoUpdates)
        ELSE Beside(r[n - 1], Meaning(m, parts[n][1], S, parts[n][2]))
  IN  r[Len(parts)]

\* The body of an iterate once, and the rounds after it.
Rounds(m, s, S, i) ==
  LET one == Meaning(m, s.s, S, i)
  IN  IF one = Ok(NoUpdates) THEN one
      ELSE IF one.st = "ok" THEN Then(one, Meaning(m, s, After(S, one.upd), i))
      ELSE Failure

Unfold(m, s, S, i) ==
  CASE s.t = "update"  -> Ok([l \in {Place(s.l, i)} |-> In(S, s.e, i)])
    [] s.t = "skip"    -> Ok(NoUpdates)
    [] s.t = "diedie"  -> Failure
    [] s.t = "assert"  -> IF S[s.l] = s.v THEN Ok(NoUpdates) ELSE Failure
    [] s.t = "if"      -> IF s.strict /\ S[s.l] = Undef THEN Failure
                          ELSE Meaning(m, IF S[s.l] = s.v THEN s.s ELSE s.else, S, i)
    [] s.t = "case"    ->
         LET hits == {n \in DOMAIN s.labels : s.labels[n].v = S[s.l]}
         IN  IF hits = {} THEN Meaning(m, s.default, S, i)
             ELSE Meaning(m, s.labels[CHOOSE n \in hits : \A k \in hits : n <= k].s, S, i)
    [] s.t = "call"    -> IF In(S, s.e, i) = Undef THEN Failure
                          ELSE Meaning(m, Named(m, In(S, s.e, i)), S, Undef)
    [] s.t = "par"     -> Together(m, [n \in DOMAIN s.body |-> <<s.body[n], i>>], S)
    [] s.t = "forall"  -> Together(m, [n \in DOMAIN s.in |-> <<s.s, s.in[n]>>], S)
    [] s.t = "seq"     -> InTurn(m, s.body, S, i)
    [] s.t = "iterate" -> Rounds(m, s, S, i)

\* States and updates that respect the types of the locations.
States == {S \in [Loc -> Val] : \A l \in Loc : S[l] \in ValuesAt(l)}
Upds ==
  {u \in UNION {[D -> Val] : D \in SUBSET Loc} : \A l \in DOMAIN u : u[l] \in ValuesAt(l)}

Results == {Ok(u) : u \in Upds} \cup {Failure}

\* The equations, for the statements P. They have a solution: what comes out
\* after finitely many unfoldings, and failure where no number of them is enough
\* (an iterate or a recursion without end).
Denotes(P) ==
  \A m \in Machines, p \in P, S \in States :
    LET r == Meaning(m, p[1], S, p[2])
    IN  r = Unfold(m, p[1], S, p[2]) /\ r \in Results

-----------------------------------------------------------------------------
(* Properties.                                                             *)

StepMeaning == Meaning(machine, RuleOf(seen), AbsState, Undef)

\* When the walker has walked the program rule, the update set is exactly what
\* the rule means in the state the step started from: the forks and merges of
\* nested seq, par, forall and iterate neither lose, reorder nor leak updates,
\* and no inconsistent rule gets this far.
StepYieldsMeaning ==
  main = "walk" /\ todo = <<>> /\ phase = "walk" =>
    StepMeaning = Ok(Level(base))

\* The interpreter gives up a step only when the rule has no consistent
\* meaning in the state of the step.
FailsOnlyIfInconsistent ==
  phase = "error" => StepMeaning.st = "fail"

=============================================================================

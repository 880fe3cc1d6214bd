------------------------------ MODULE InitOrder ------------------------------
(***************************************************************************)
(* The initialisation of functions before the main loop:                   *)
(* ExecutionWalker::init_function and the first half of run(). Every       *)
(* declared function has an entry in init_dependencies, with the names its *)
(* initializers mention; init_function walks them depth first, and its     *)
(* recursion is the stack `calls` here.                                    *)
(*                                                                         *)
(* Names are numbers, in the order of std::map: 1 .. N are the declared    *)
(* functions, Program is known to the symbol table without a declaration,  *)
(* and Enumerator is the name of an enum element, which initializers may   *)
(* mention but which is not a function.                                    *)
(***************************************************************************)
EXTENDS Integers, Sequences

CONSTANTS
  N,             \* the number of declared functions
  Initializers   \* lists of argument values a function may be initialised at

ASSUME InitAssumption ==
  /\ N \in Nat \ {0}
  /\ \A l \in Initializers : l \in Seq(Nat)

Enumerator == 0
Program == N + 1

Declared == 1 .. N
Functions == 1 .. N + 1
Names == 0 .. N + 1

VARIABLES
  init_dependencies,  \* names mentioned by the initializers of each function
  initializers,       \* the arguments of the initializers of each function
  function_states,    \* the initialised arguments of each function
  initialized,        \* names whose init_function has returned true
  visited,            \* the set handed down the recursion
  calls,              \* the activations of init_function
  next,               \* the loop of run(): the next name of init_dependencies
  phase               \* "first" and "second" loop, "main", "error"

ivars == <<init_dependencies, initializers, function_states, initialized, visited, calls,
           next, phase>>

\* An activation: the name and the dependencies it has still to look at.
Call(name) ==
  [name |-> name, left |-> IF name \in Declared THEN init_dependencies[name] ELSE {}]

\* A function without initializers depends on nothing.
IInit ==
  /\ initializers \in [Functions -> Initializers]
  /\ initializers[Program] = <<1>>
  /\ init_dependencies \in [Declared -> SUBSET Names]
  /\ \A f \in Declared : initializers[f] = <<>> => init_dependencies[f] = {}
  /\ function_states = [f \in Functions |-> {}]
  /\ initialized = {}
  /\ visited = {}
  /\ calls = <<>>
  /\ next = 1
  /\ phase = "first"

-----------------------------------------------------------------------------
Top == calls[Len(calls)]
Pop == SubSeq(calls, 1, Len(calls) - 1)

\* Entering init_function: only names with an entry are marked.
Mark(name) == IF name \in Declared THEN {name} ELSE {}

\* The loops of run() call init_function with an empty visited set.
Start(name) ==
  /\ calls' = <<Call(name)>>
  /\ visited' = Mark(name)
  /\ UNCHANGED <<init_dependencies, initializers, function_states, initialized>>

\* Mutant: the loop does not move on.
first_loop_stuck ==
  /\ phase = "first" /\ calls = <<>> /\ next \in Declared
  /\ IF next \in initialized
       THEN UNCHANGED <<init_dependencies, initializers, function_states, initialized,
                        visited, calls>>
       ELSE Start(next)
  /\ UNCHANGED <<next, phase>>

first_loop ==
  /\ phase = "first" /\ calls = <<>> /\ next \in Declared
  /\ IF next \in initialized
       THEN UNCHANGED <<init_dependencies, initializers, function_states, initialized,
                        visited, calls>>
       ELSE Start(next)
  /\ next' = next + 1
  /\ UNCHANGED phase

first_loop_done ==
  /\ phase = "first" /\ calls = <<>> /\ next \notin Declared
  /\ phase' = "second"
  /\ UNCHANGED <<init_dependencies, initializers, function_states, initialized, visited,
                 calls, next>>

\* The functions of the symbol table that are left.
second_loop ==
  /\ phase = "second" /\ calls = <<>>
  /\ \E f \in Functions \ initialized : Start(f)
  /\ UNCHANGED <<next, phase>>

start_main ==
  /\ phase = "second" /\ calls = <<>>
  /\ Functions \subseteq initialized
  /\ phase' = "main"
  /\ UNCHANGED <<init_dependencies, initializers, function_states, initialized, visited,
                 calls, next>>

\* The next dependency of the innermost activation.
Initialising == phase \in {"first", "second"} /\ calls # <<>>
Dep == CHOOSE d \in Top.left : \A e \in Top.left : d <= e

\* Mutant: a dependency that was visited is passed over.
cycle_passed_over ==
  /\ Initialising /\ Top.left # {} /\ Dep \in visited
  /\ calls' = [calls EXCEPT ![Len(calls)].left = @ \ {Dep}]
  /\ UNCHANGED <<init_dependencies, initializers, function_states, initialized, visited,
                 next, phase>>

\* "initializer dependency cycle detected": a dependency that was visited.
cycle ==
  /\ Initialising /\ Top.left # {} /\ Dep \in visited
  /\ phase' = "error"
  /\ UNCHANGED <<init_dependencies, initializers, function_states, initialized, visited,
                 calls, next>>

\* Mutant: a dependency that is initialised ends the list.
descend_stop ==
  /\ Initialising /\ Top.left # {} /\ Dep \notin visited
  /\ calls' = Append([calls EXCEPT ![Len(calls)].left =
                        IF Dep \in initialized THEN {} ELSE @ \ {Dep}], Call(Dep))
  /\ visited' = visited \cup Mark(Dep)
  /\ UNCHANGED <<init_dependencies, initializers, function_states, initialized, next, phase>>

descend ==
  /\ Initialising /\ Top.left # {} /\ Dep \notin visited
  /\ calls' = Append([calls EXCEPT ![Len(calls)].left = @ \ {Dep}], Call(Dep))
  /\ visited' = visited \cup Mark(Dep)
  /\ UNCHANGED <<init_dependencies, initializers, function_states, initialized, next, phase>>

\* The arguments are distinct: no "already initialized".
Distinct(args) == \A i, j \in DOMAIN args : args[i] = args[j] => i = j

Elements(args) == {args[i] : i \in DOMAIN args}

\* Mutant: the second time the new map stays empty.
initialise_emptied ==
  /\ Initialising /\ Top.left = {} /\ Top.name \in Functions
  /\ Distinct(initializers[Top.name])
  /\ function_states' = [function_states EXCEPT ![Top.name] =
       IF Top.name \in initialized THEN {} ELSE Elements(initializers[Top.name])]
  /\ initialized' = initialized \cup {Top.name}
  /\ calls' = Pop
  /\ UNCHANGED <<init_dependencies, initializers, visited, next, phase>>

\* All dependencies are done: a new map for the function, filled with what its
\* initializers evaluate to. A function may be initialised again for the sake
\* of another one that depends on it.
initialise ==
  /\ Initialising /\ Top.left = {} /\ Top.name \in Functions
  /\ Distinct(initializers[Top.name])
  /\ function_states' = [function_states EXCEPT ![Top.name] = Elements(initializers[Top.name])]
  /\ initialized' = initialized \cup {Top.name}
  /\ calls' = Pop
  /\ UNCHANGED <<init_dependencies, initializers, visited, next, phase>>

already_initialized ==
  /\ Initialising /\ Top.left = {} /\ Top.name \in Functions
  /\ ~ Distinct(initializers[Top.name])
  /\ phase' = "error"
  /\ UNCHANGED <<init_dependencies, initializers, function_states, initialized, visited,
                 calls, next>>

\* A value is out of the subrange of the function.
subrange_violated ==
  /\ Initialising /\ Top.left = {} /\ Top.name \in Functions
  /\ initializers[Top.name] # <<>>
  /\ phase' = "error"
  /\ UNCHANGED <<init_dependencies, initializers, function_states, initialized, visited,
                 calls, next>>

\* Not a function: nothing to initialise.
not_a_function ==
  /\ Initialising /\ Top.left = {} /\ Top.name \notin Functions
  /\ calls' = Pop
  /\ UNCHANGED <<init_dependencies, initializers, function_states, initialized, visited,
                 next, phase>>

ready == phase \in {"main", "error"} /\ UNCHANGED ivars

INext ==
  \/ first_loop \/ first_loop_done \/ second_loop \/ start_main
  \/ cycle \/ descend \/ initialise \/ already_initialized
  \/ subrange_violated \/ not_a_function
  \/ ready

ISpec == IInit /\ [][INext]_ivars
IFairSpec == ISpec /\ WF_ivars(INext)

-----------------------------------------------------------------------------
(* Properties.                                                             *)

\* Reach[k][f]: the functions mentioned by f over at most k + 1 initializers.
Reach[k \in Nat] ==
  IF k = 0 THEN init_dependencies
  ELSE [f \in Declared |->
          Reach[k - 1][f] \cup
            UNION {init_dependencies[g] : g \in Reach[k - 1][f] \cap Declared}]

Cyclic == \E f \in Declared : f \in Reach[N][f]

\* Initializers read no function before it is initialised: when those of a
\* function are evaluated, all functions they mention have their values.
DependenciesFirst ==
  Initialising /\ Top.left = {} /\ Top.name \in Declared =>
    \A d \in init_dependencies[Top.name] \cap Functions :
      d \in initialized /\ function_states[d] = Elements(initializers[d])

\* A program whose initializers depend on each other never starts.
CyclesRejected == phase = "main" => ~ Cyclic

\* When the main loop starts every function has the values its initializers
\* give it, program included, however often it was initialised on the way.
AllInitialised ==
  phase = "main" => function_states = [f \in Functions |-> Elements(initializers[f])]

\* "initializer dependency cycle detected" is reported for cycles only (the
\* comment "cycle in initilizer dependencies" on the tests of the message).
OnlyCyclesReported == phase = "error" /\ Top.left # {} => Cyclic

\* Initialisation ends, with the main loop or with an error.
InitEnds == <>(phase \in {"main", "error"})

=============================================================================

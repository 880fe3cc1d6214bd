--------------------------- MODULE InitOrderProofs ---------------------------
(***************************************************************************)
(* The initialisation of functions for any number of them and any          *)
(* dependencies: initializers read initialised functions only, the main    *)
(* loop starts with the values of all of them, and it starts for no        *)
(* program whose initializers depend on each other.                        *)
(***************************************************************************)
EXTENDS InitOrder, SequenceTheorems, NatLemmas

Activation == [name : Names, left : SUBSET Names]

ITypeOK ==
  /\ init_dependencies \in [Declared -> SUBSET Names]
  /\ initializers \in [Functions -> Initializers]
  /\ function_states \in [Functions -> SUBSET Nat]
  /\ initialized \in SUBSET Functions
  /\ visited \in SUBSET Declared
  /\ calls \in Seq(Activation)
  /\ next \in Nat
  /\ phase \in {"first", "second", "main", "error"}

\* Functions marked as initialised have the values of their initializers.
ValuesInPlace ==
  \A f \in initialized : function_states[f] = Elements(initializers[f])

\* The functions an activation has passed are initialised, but for the one
\* whose own activation is above it.
PassedDone ==
  \A i \in 1 .. Len(calls) : calls[i].name \in Declared =>
    \A d \in init_dependencies[calls[i].name] \cap Functions :
      \/ d \in calls[i].left
      \/ d \in initialized
      \/ i + 1 \in 1 .. Len(calls) /\ calls[i + 1].name = d

\* Initialised functions depend on functions of a lower rank, below the
\* bound b, which are initialised too.
Ranked(r, b) ==
  \A f \in initialized \cap Declared :
    /\ r[f] < b
    /\ \A d \in init_dependencies[f] \cap Declared : d \in initialized /\ r[d] < r[f]

InOrder == \E r \in [Declared -> Nat], b \in Nat : Ranked(r, b)

\* The main loop does not start before all functions are initialised.
StartedComplete == phase = "main" => Functions \subseteq initialized

OrderInv == ITypeOK /\ ValuesInPlace /\ PassedDone /\ InOrder /\ StartedComplete

-----------------------------------------------------------------------------
\* While calls is not empty, its last activation is well formed, and Pop is
\* what lies below it.
LEMMA TopType ==
  ASSUME ITypeOK, calls # <<>>
  PROVE  /\ Len(calls) \in Nat \ {0}
         /\ Top = calls[Len(calls)] /\ Top \in Activation
         /\ Top.name \in Names /\ Top.left \in SUBSET Names
         /\ Pop \in Seq(Activation) /\ Len(Pop) = Len(calls) - 1
         /\ \A i \in 1 .. Len(calls) - 1 : Pop[i] = calls[i]
<1>1. calls \in Seq(Activation)
  BY DEF ITypeOK
<1>2. Len(calls) \in Nat \ {0}
  BY <1>1
<1>3. Top = calls[Len(calls)] /\ Top \in Activation
  BY <1>1, <1>2 DEF Top
<1>4. Top.name \in Names /\ Top.left \in SUBSET Names
  BY <1>3 DEF Activation
<1>5. /\ Pop \in Seq(Activation) /\ Len(Pop) = Len(calls) - 1
      /\ \A i \in 1 .. Len(calls) - 1 : Pop[i] = calls[i]
  <2>1. \A i \in 1 .. Len(calls) - 1 : calls[i] \in Activation
    BY <1>1, <1>2
  <2>2. 1 \in Int /\ Len(calls) - 1 \in Int
    BY <1>2
  <2>3. /\ Pop \in Seq(Activation)
        /\ Len(Pop) = IF 1 <= Len(calls) - 1 THEN Len(calls) - 1 - 1 + 1 ELSE 0
        /\ \A i \in 1 .. Len(calls) - 1 - 1 + 1 : Pop[i] = calls[1 + i - 1]
    BY <2>1, <2>2, SubSeqProperties DEF Pop
  <2>4. Len(Pop) = Len(calls) - 1
    <3> DEFINE n == Len(calls)
    <3>1. n \in Nat \ {0}
      BY <1>2
    <3>2. Len(Pop) = IF 1 <= n - 1 THEN n - 1 - 1 + 1 ELSE 0
      BY <2>3
    <3> HIDE DEF n
    <3>3. Len(Pop) = n - 1
      BY <3>1, <3>2
    <3> QED
      BY <3>3 DEF n
  <2>5. ASSUME NEW i \in 1 .. Len(calls) - 1
        PROVE  Pop[i] = calls[i]
    <3>1. i \in 1 .. Len(calls) - 1 - 1 + 1 /\ 1 + i - 1 = i
      BY <1>2
    <3> QED
      BY <2>3, <3>1
  <2> QED
    BY <2>3, <2>4, <2>5
<1> QED
  BY <1>2, <1>3, <1>4, <1>5

\* The dependency looked at next is one of those that are left.
LEMMA DepLeft ==
  ASSUME ITypeOK, calls # <<>>, Top.left # {}
  PROVE  Dep \in Top.left /\ Dep \in Names
<1>1. Top.left \in SUBSET Names
  BY TopType
<1>2. Names \subseteq Nat
  BY InitAssumption DEF Names
<1>3. \E m \in Top.left : \A k \in Top.left : m <= k
  BY <1>1, <1>2, LeastOf
<1> QED
  BY <1>1, <1>3 DEF Dep

\* A new activation has all dependencies of its name left.
LEMMA CallType ==
  ASSUME ITypeOK, NEW name \in Names
  PROVE  /\ Call(name) \in Activation
         /\ Call(name).name = name
         /\ name \in Declared => Call(name).left = init_dependencies[name]
  BY DEF ITypeOK, Call, Activation

\* The activations once the innermost one has looked at a dependency.
LEMMA DescendCalls ==
  ASSUME ITypeOK, calls # <<>>, Top.left # {},
         NEW new, new = Append([calls EXCEPT ![Len(calls)].left = @ \ {Dep}], Call(Dep))
  PROVE  /\ new \in Seq(Activation)
         /\ Len(new) = Len(calls) + 1
         /\ new[Len(calls) + 1] = Call(Dep)
         /\ new[Len(calls)].name = Top.name
         /\ new[Len(calls)].left = Top.left \ {Dep}
         /\ \A i \in 1 .. Len(calls) - 1 : new[i] = calls[i]
<1> DEFINE n == Len(calls)
           t == [Top EXCEPT !.left = @ \ {Dep}]
           old == [calls EXCEPT ![n] = t]
<1>1. calls \in Seq(Activation) /\ n \in 1 .. Len(calls) /\ Len(calls) \in Nat
  BY TopType DEF ITypeOK
<1>2. t \in Activation /\ t.name = Top.name /\ t.left = Top.left \ {Dep}
  BY TopType DEF Activation
<1>3. old = [calls EXCEPT ![Len(calls)].left = @ \ {Dep}]
  BY DEF Top
<1> HIDE DEF t
<1>4. /\ old \in Seq(Activation)
      /\ Len(old) = n
      /\ \A j \in 1 .. n : old[j] = IF j = n THEN t ELSE calls[j]
  BY <1>1, <1>2, ExceptSeq
<1> HIDE DEF old
<1>5. Call(Dep) \in Activation
  BY CallType, DepLeft
<1>6. /\ Append(old, Call(Dep)) \in Seq(Activation)
      /\ Len(Append(old, Call(Dep))) = n + 1
      /\ \A i \in 1 .. n : Append(old, Call(Dep))[i] = old[i]
      /\ Append(old, Call(Dep))[n + 1] = Call(Dep)
  BY <1>4, <1>5, AppendProperties
<1>7. /\ new \in Seq(Activation)
      /\ Len(new) = n + 1
      /\ \A i \in 1 .. n : new[i] = old[i]
      /\ new[n + 1] = Call(Dep)
  BY <1>3, <1>6, Zenon
<1>8. new[n] = t
  BY <1>1, <1>4, <1>7
<1>9. \A i \in 1 .. n - 1 : new[i] = calls[i]
  BY <1>1, <1>4, <1>7
<1> QED
  BY <1>2, <1>7, <1>8, <1>9

-----------------------------------------------------------------------------
(* The invariant, action by action.                                        *)

\* At the start no function has been visited.
LEMMA OrderInitially ==
  ASSUME IInit
  PROVE  OrderInv
<1>1. ITypeOK
  BY DEF IInit, ITypeOK, Activation
<1>2. ValuesInPlace /\ StartedComplete
  BY DEF IInit, ValuesInPlace, StartedComplete
<1>3. PassedDone
  BY DEF IInit, PassedDone
<1>4. InOrder
  <2> DEFINE r == [f \in Declared |-> 0]
  <2>1. r \in [Declared -> Nat] /\ Ranked(r, 0)
    BY DEF IInit, Ranked
  <2> QED
    BY <2>1 DEF InOrder
<1> QED
  BY <1>1, <1>2, <1>3, <1>4 DEF OrderInv

\* Steps of the loops of run() and errors move next and phase only.
LEMMA OrderControl ==
  ASSUME OrderInv,
         UNCHANGED <<init_dependencies, initializers, function_states, initialized,
                     visited, calls>>,
         next' \in Nat, phase' \in {"first", "second", "main", "error"},
         phase' = "main" => Functions \subseteq initialized
  PROVE  OrderInv'
<1>1. ITypeOK'
  BY DEF OrderInv, ITypeOK
<1>2. ValuesInPlace' /\ StartedComplete'
  BY DEF OrderInv, ValuesInPlace, StartedComplete
<1>3. PassedDone'
  BY DEF OrderInv, PassedDone
<1>4. InOrder'
  BY DEF OrderInv, InOrder, Ranked
<1> QED
  BY <1>1, <1>2, <1>3, <1>4 DEF OrderInv

\* A loop of run() calls init_function.
LEMMA OrderStart ==
  ASSUME OrderInv, NEW name \in Names, Start(name), next' \in Nat,
         phase' = phase, phase # "main"
  PROVE  OrderInv'
<1>1. ITypeOK /\ Call(name) \in Activation
  BY CallType DEF OrderInv
<1>2. ITypeOK'
  BY <1>1 DEF ITypeOK, Start, Mark
<1>3. ValuesInPlace' /\ StartedComplete'
  BY DEF OrderInv, ValuesInPlace, StartedComplete, Start
<1>4. PassedDone'
  <2>1. /\ Len(calls') = 1 /\ calls'[1] = Call(name)
        /\ init_dependencies' = init_dependencies
    BY <1>1 DEF Start
  <2>2. \A i \in 1 .. Len(calls') : i = 1
    BY <2>1
  <2>3. calls'[1].name \in Declared => calls'[1].left = init_dependencies'[calls'[1].name]
    BY <1>1, <2>1, CallType
  <2> QED
    BY <2>2, <2>3 DEF PassedDone
<1>5. InOrder'
  BY DEF OrderInv, InOrder, Ranked, Start
<1> QED
  BY <1>2, <1>3, <1>4, <1>5 DEF OrderInv

\* init_function calls itself for a dependency.
LEMMA OrderDescend ==
  ASSUME OrderInv, descend
  PROVE  OrderInv'
<1>1. ITypeOK /\ PassedDone /\ calls # <<>> /\ Top.left # {}
  BY DEF OrderInv, descend, Initialising
<1>2. Dep \in Top.left /\ Dep \in Names
  BY <1>1, DepLeft
<1> DEFINE n == Len(calls)
<1>3. /\ calls' \in Seq(Activation)
      /\ Len(calls') = n + 1
      /\ calls'[n + 1] = Call(Dep)
      /\ calls'[n].name = Top.name
      /\ calls'[n].left = Top.left \ {Dep}
      /\ \A i \in 1 .. n - 1 : calls'[i] = calls[i]
  <2>1. calls' = Append([calls EXCEPT ![Len(calls)].left = @ \ {Dep}], Call(Dep))
    BY DEF descend
  <2> QED
    BY <1>1, <2>1, DescendCalls, Zenon
<1>4. n \in Nat \ {0} /\ Top = calls[n]
  BY <1>1, TopType
<1>5. UNCHANGED <<init_dependencies, initializers, function_states, initialized, next, phase>>
  BY DEF descend
<1>6. visited' = visited \cup Mark(Dep)
  BY DEF descend
<1>7. ITypeOK'
  BY <1>1, <1>3, <1>5, <1>6 DEF ITypeOK, Mark
<1>8. ValuesInPlace' /\ StartedComplete'
  BY <1>5 DEF OrderInv, ValuesInPlace, StartedComplete
<1>9. PassedDone'
  <2> SUFFICES ASSUME NEW i \in 1 .. Len(calls'), calls'[i].name \in Declared,
                      NEW d \in init_dependencies[calls'[i].name] \cap Functions
               PROVE  \/ d \in calls'[i].left
                      \/ d \in initialized
                      \/ i + 1 \in 1 .. Len(calls') /\ calls'[i + 1].name = d
    BY <1>5 DEF PassedDone
  <2>1. CASE i = n + 1
    BY <1>1, <1>2, <1>3, <2>1, CallType
  <2>2. CASE i = n
    <3>1. calls[n].name \in Declared /\ d \in init_dependencies[calls[n].name] \cap Functions
      BY <1>3, <1>4, <2>2
    <3>2. d \in Top.left \/ d \in initialized
      BY <1>1, <1>4, <3>1 DEF PassedDone
    <3>3. d = Dep => calls'[n + 1].name = d /\ n + 1 \in 1 .. Len(calls')
      BY <1>1, <1>2, <1>3, <1>4, CallType
    <3> QED
      BY <1>3, <2>2, <3>2, <3>3
  <2>3. CASE i \in 1 .. n - 1
    <3>1. i \in 1 .. n /\ i + 1 \in 1 .. n /\ i + 1 \in 1 .. Len(calls')
      BY <1>3, <1>4, <2>3
    <3>2. calls'[i] = calls[i] /\ calls'[i + 1].name = calls[i + 1].name
      BY <1>3, <1>4, <2>3
    <3>3. \/ d \in calls[i].left
          \/ d \in initialized
          \/ calls[i + 1].name = d
      BY <1>1, <3>1, <3>2 DEF PassedDone
    <3> QED
      BY <3>1, <3>2, <3>3
  <2>4. i = n + 1 \/ i = n \/ i \in 1 .. n - 1
    BY <1>3, <1>4
  <2> QED
    BY <2>1, <2>2, <2>3, <2>4
<1>10. InOrder'
  BY <1>5 DEF OrderInv, InOrder, Ranked
<1> QED
  BY <1>7, <1>8, <1>9, <1>10 DEF OrderInv

\* When the innermost activation ends, what the ones below it have passed is
\* initialised, provided that its own name is, or is not a function.
LEMMA PassedDonePop ==
  ASSUME ITypeOK, PassedDone, calls # <<>>, calls' = Pop,
         init_dependencies' = init_dependencies,
         initialized \subseteq initialized',
         Top.name \in Functions => Top.name \in initialized'
  PROVE  PassedDone'
<1> DEFINE n == Len(calls)
<1>1. /\ n \in Nat \ {0} /\ Top = calls[n]
      /\ Len(calls') = n - 1
      /\ \A i \in 1 .. n - 1 : calls'[i] = calls[i]
  BY TopType
<1> SUFFICES ASSUME NEW i \in 1 .. Len(calls'), calls'[i].name \in Declared,
                    NEW d \in init_dependencies[calls'[i].name] \cap Functions
             PROVE  \/ d \in calls'[i].left
                    \/ d \in initialized'
                    \/ i + 1 \in 1 .. Len(calls') /\ calls'[i + 1].name = d
  BY DEF PassedDone
<1>2. i \in 1 .. n - 1 /\ i \in 1 .. n /\ i + 1 \in 1 .. n
  BY <1>1
<1>3. calls'[i] = calls[i]
  BY <1>1, <1>2
<1>4. d \in calls[i].left \/ d \in initialized \/ calls[i + 1].name = d
  BY <1>2, <1>3 DEF PassedDone
<1>5. CASE i + 1 = n
  BY <1>1, <1>3, <1>4, <1>5
<1>6. CASE i + 1 # n
  <2>1. i + 1 \in 1 .. n - 1
    BY <1>1, <1>2, <1>6
  <2>2. calls'[i + 1] = calls[i + 1] /\ i + 1 \in 1 .. Len(calls')
    BY <1>1, <2>1
  <2> QED
    BY <1>3, <1>4, <2>2
<1> QED
  BY <1>5, <1>6

\* A function whose dependencies are done gets its values, and a rank above
\* all others unless it has one.
LEMMA OrderInitialise ==
  ASSUME OrderInv, initialise
  PROVE  OrderInv'
<1> DEFINE name == Top.name
<1>1. /\ ITypeOK /\ PassedDone /\ ValuesInPlace /\ InOrder
      /\ calls # <<>> /\ Top.left = {} /\ name \in Functions
      /\ phase # "main"
  BY DEF OrderInv, initialise, Initialising
<1>2. /\ function_states' = [function_states EXCEPT ![name] = Elements(initializers[name])]
      /\ initialized' = initialized \cup {name}
      /\ calls' = Pop
      /\ UNCHANGED <<init_dependencies, initializers, visited, next, phase>>
  BY DEF initialise
<1>3. Elements(initializers[name]) \in SUBSET Nat
  <2>1. initializers[name] \in Seq(Nat)
    BY <1>1, InitAssumption DEF ITypeOK
  <2> QED
    BY <2>1 DEF Elements
<1>4. Pop \in Seq(Activation)
  BY <1>1, TopType
<1>5. ITypeOK'
  BY <1>1, <1>2, <1>3, <1>4 DEF ITypeOK
<1>6. ValuesInPlace'
  BY <1>1, <1>2 DEF ValuesInPlace, ITypeOK
<1>7. StartedComplete'
  BY <1>1, <1>2 DEF StartedComplete
<1>8. PassedDone'
  BY <1>1, <1>2, PassedDonePop
<1>9. \A d \in Functions : name \in Declared /\ d \in init_dependencies[name] => d \in initialized
  <2>1. Len(calls) \in Nat \ {0} /\ Top = calls[Len(calls)]
    BY <1>1, TopType
  <2>2. Len(calls) \in 1 .. Len(calls) /\ ~ (Len(calls) + 1 \in 1 .. Len(calls))
    BY <2>1
  <2> QED
    BY <1>1, <2>1, <2>2 DEF PassedDone
<1>10. InOrder'
  <2>1. PICK r \in [Declared -> Nat], b \in Nat : Ranked(r, b)
    BY <1>1 DEF InOrder
  <2>2. Declared \subseteq Functions
    BY InitAssumption DEF Declared, Functions
  <2>3. CASE name \in initialized \/ name \notin Declared
    <3>1. initialized' \cap Declared = initialized \cap Declared
      BY <1>2, <2>3
    <3>2. Ranked(r, b)'
      BY <1>2, <2>1, <3>1 DEF Ranked
    <3> QED
      BY <3>2 DEF InOrder
  <2>4. CASE name \notin initialized /\ name \in Declared
    <3>1. b + 1 \in Nat
      OBVIOUS
    <3>2. PICK q \in [Declared -> Nat] :
            q[name] = b /\ \A f \in Declared : f # name => q[f] = r[f]
      <4>1. [r EXCEPT ![name] = b] \in [Declared -> Nat]
        OBVIOUS
      <4> QED
        BY <2>4, <4>1
    <3> SUFFICES ASSUME NEW f \in initialized' \cap Declared
                 PROVE  /\ q[f] < b + 1
                        /\ \A d \in init_dependencies[f] \cap Declared :
                             d \in initialized' /\ q[d] < q[f]
      <4>1. Ranked(q, b + 1)'
        BY <1>2 DEF Ranked
      <4> QED
        BY <3>1, <4>1 DEF InOrder
    <3>3. CASE f = name
      <4>1. \A d \in init_dependencies[name] \cap Declared : d \in initialized /\ d # name
        BY <1>9, <2>2, <2>4
      <4>2. \A d \in init_dependencies[name] \cap Declared : r[d] < b
        BY <2>1, <4>1 DEF Ranked
      <4> QED
        BY <1>2, <3>2, <3>3, <4>1, <4>2
    <3>4. CASE f # name
      <4>1. f \in initialized \cap Declared
        BY <1>2, <3>4
      <4>2. r[f] < b /\ q[f] = r[f] /\ r[f] \in Nat
        BY <2>1, <3>2, <3>4, <4>1 DEF Ranked
      <4>3. \A d \in init_dependencies[f] \cap Declared :
              d \in initialized /\ d # name /\ r[d] < r[f]
        BY <2>1, <2>4, <4>1 DEF Ranked
      <4> QED
        BY <1>2, <3>2, <4>2, <4>3
    <3> QED
      BY <3>3, <3>4
  <2> QED
    BY <2>3, <2>4
<1> QED
  BY <1>5, <1>6, <1>7, <1>8, <1>10 DEF OrderInv

\* A name that is no function has nothing to initialise.
LEMMA OrderNotAFunction ==
  ASSUME OrderInv, not_a_function
  PROVE  OrderInv'
<1>1. /\ ITypeOK /\ PassedDone /\ calls # <<>>
      /\ Top.name \notin Functions /\ calls' = Pop
      /\ UNCHANGED <<init_dependencies, initializers, function_states, initialized,
                     visited, next, phase>>
  BY DEF OrderInv, not_a_function, Initialising
<1>2. Pop \in Seq(Activation)
  BY <1>1, TopType
<1>3. ITypeOK'
  BY <1>1, <1>2 DEF ITypeOK
<1>4. ValuesInPlace' /\ StartedComplete'
  BY <1>1 DEF OrderInv, ValuesInPlace, StartedComplete
<1>5. PassedDone'
  BY <1>1, PassedDonePop
<1>6. InOrder'
  BY <1>1 DEF OrderInv, InOrder, Ranked
<1> QED
  BY <1>3, <1>4, <1>5, <1>6 DEF OrderInv

\* The order in which init_function works: OrderInv holds in every state.
THEOREM OrderInvariance == ISpec => []OrderInv
<1>1. IInit => OrderInv
  BY OrderInitially
<1>2. OrderInv /\ [INext]_ivars => OrderInv'
  <2> SUFFICES ASSUME OrderInv, [INext]_ivars
               PROVE  OrderInv'
    OBVIOUS
  <2>1. next \in Nat /\ phase \in {"first", "second", "main", "error"}
    BY DEF OrderInv, ITypeOK
  <2>2. Declared \subseteq Names /\ Functions \subseteq Names
    BY InitAssumption DEF Declared, Functions, Names
  <2>3. CASE first_loop
    <3>1. next' \in Nat /\ phase' = phase /\ phase # "main" /\ next \in Names
      BY <2>1, <2>2, <2>3 DEF first_loop
    <3>2. CASE next \in initialized
      BY <2>1, <2>3, <3>1, <3>2, OrderControl DEF first_loop
    <3>3. CASE next \notin initialized
      BY <2>3, <3>1, <3>3, OrderStart DEF first_loop
    <3> QED
      BY <3>2, <3>3
  <2>4. CASE second_loop
    <3>1. PICK f \in Functions : Start(f)
      BY <2>4 DEF second_loop
    <3>2. next' \in Nat /\ phase' = phase /\ phase # "main" /\ f \in Names
      BY <2>1, <2>2, <2>4 DEF second_loop
    <3> QED
      BY <3>1, <3>2, OrderStart
  <2>5. CASE first_loop_done \/ start_main
    BY <2>1, <2>5, OrderControl DEF first_loop_done, start_main
  <2>6. CASE cycle \/ already_initialized \/ subrange_violated
    BY <2>1, <2>6, OrderControl DEF cycle, already_initialized, subrange_violated
  <2>7. CASE descend
    BY <2>7, OrderDescend
  <2>8. CASE initialise
    BY <2>8, OrderInitialise
  <2>9. CASE not_a_function
    BY <2>9, OrderNotAFunction
  <2>10. CASE ready \/ UNCHANGED ivars
    <3>1. UNCHANGED ivars
      BY <2>10 DEF ready
    <3>2. phase' = "main" => Functions \subseteq initialized
      BY <3>1 DEF OrderInv, StartedComplete, ivars
    <3> QED
      BY <2>1, <3>1, <3>2, OrderControl DEF ivars
  <2> QED
    BY <2>3, <2>4, <2>5, <2>6, <2>7, <2>8, <2>9, <2>10 DEF INext
<1> QED
  BY <1>1, <1>2, PTL DEF ISpec

\* Initializers read no function before it is initialised.
THEOREM InitialisersReadValues == ISpec => []DependenciesFirst
<1>1. OrderInv => DependenciesFirst
  <2> SUFFICES ASSUME OrderInv, Initialising, Top.left = {}, Top.name \in Declared,
                      NEW d \in init_dependencies[Top.name] \cap Functions
               PROVE  d \in initialized /\ function_states[d] = Elements(initializers[d])
    BY DEF DependenciesFirst
  <2>1. Len(calls) \in Nat \ {0} /\ Top = calls[Len(calls)]
    BY TopType DEF OrderInv, Initialising
  <2>2. Len(calls) \in 1 .. Len(calls) /\ ~ (Len(calls) + 1 \in 1 .. Len(calls))
    BY <2>1
  <2>3. d \in initialized
    BY <2>1, <2>2 DEF OrderInv, PassedDone
  <2> QED
    BY <2>3 DEF OrderInv, ValuesInPlace
<1> QED
  BY <1>1, OrderInvariance, PTL

\* The main loop starts with the values of all initializers.
THEOREM MainStartsComplete == ISpec => []AllInitialised
<1>1. OrderInv => AllInitialised
  <2> SUFFICES ASSUME OrderInv, phase = "main"
               PROVE  function_states = [f \in Functions |-> Elements(initializers[f])]
    BY DEF AllInitialised
  <2>1. \A f \in Functions : function_states[f] = Elements(initializers[f])
    BY DEF OrderInv, StartedComplete, ValuesInPlace
  <2> QED
    BY <2>1 DEF OrderInv, ITypeOK
<1> QED
  BY <1>1, OrderInvariance, PTL

-----------------------------------------------------------------------------
(* Cycles.                                                                 *)

\* Reach is the sequence its definition describes.
LEMMA ReachSteps ==
  ASSUME init_dependencies \in [Declared -> SUBSET Names]
  PROVE  /\ Reach[0] = init_dependencies
         /\ \A k \in Nat : Reach[k + 1] =
              [f \in Declared |-> Reach[k][f] \cup
                 UNION {init_dependencies[g] : g \in Reach[k][f] \cap Declared}]
<1> DEFINE V == [Declared -> SUBSET Names]
           Wider(v) == [f \in Declared |-> v[f] \cup
                          UNION {init_dependencies[g] : g \in v[f] \cap Declared}]
           F == [v \in V |-> Wider(v)]
<1>1. ASSUME NEW v \in V
      PROVE  Wider(v) \in V
  OBVIOUS
<1>2. F \in [V -> V]
  BY <1>1
<1>3. \A v \in V : F[v] = Wider(v)
  OBVIOUS
<1> HIDE DEF F, V, Wider
<1>4. PICK h \in [Nat -> V] : h[0] = init_dependencies /\ \A n \in Nat : h[n + 1] = F[h[n]]
  <2>1. init_dependencies \in V
    BY DEF V
  <2>2. \E f : Iterates(init_dependencies, F, V, f)
    BY <1>2, <2>1, Iteration
  <2> QED
    BY <2>2 DEF Iterates
<1>5. h = [k \in Nat |-> IF k = 0 THEN init_dependencies ELSE Wider(h[k - 1])]
  <2>1. ASSUME NEW k \in Nat, k # 0
        PROVE  h[k] = Wider(h[k - 1])
    <3>1. k - 1 \in Nat /\ (k - 1) + 1 = k
      BY <2>1
    <3>2. h[k - 1] \in V /\ h[k] = F[h[k - 1]]
      BY <1>4, <3>1
    <3> QED
      BY <1>3, <3>2
  <2> QED
    BY <1>4, <2>1
<1> DEFINE Eqn(r) == r = [k \in Nat |-> IF k = 0 THEN init_dependencies ELSE Wider(r[k - 1])]
<1>6. Reach = CHOOSE r : Eqn(r)
  BY DEF Reach, Wider
<1>7. Eqn(Reach)
  <2>1. Eqn(h)
    BY <1>5
  <2> HIDE DEF Eqn
  <2> QED
    BY <1>6, <2>1, Zenon
<1>8. Reach[0] = init_dependencies
  BY <1>7
<1>9. ASSUME NEW k \in Nat
      PROVE  Reach[k + 1] = Wider(Reach[k])
  <2>1. k + 1 \in Nat /\ k + 1 # 0 /\ (k + 1) - 1 = k
    OBVIOUS
  <2> QED
    BY <1>7, <2>1
<1> QED
  BY <1>8, <1>9 DEF Wider

\* With ranks, what a function reaches has a lower rank: no function reaches
\* itself.
LEMMA RankedAcyclic ==
  ASSUME init_dependencies \in [Declared -> SUBSET Names],
         NEW r \in [Declared -> Nat],
         \A f \in Declared : \A d \in init_dependencies[f] \cap Declared : r[d] < r[f]
  PROVE  ~ Cyclic
<1> DEFINE Lower(k) == \A f \in Declared : \A g \in Reach[k][f] \cap Declared : r[g] < r[f]
           S == {k \in Nat : Lower(k)}
<1>1. 0 \in S
  BY ReachSteps
<1>2. ASSUME NEW k \in Nat, k \in S
      PROVE  k + 1 \in S
  <2> SUFFICES ASSUME NEW f \in Declared, NEW g \in Reach[k + 1][f] \cap Declared
               PROVE  r[g] < r[f]
    OBVIOUS
  <2>1. Reach[k + 1][f] =
          Reach[k][f] \cup UNION {init_dependencies[e] : e \in Reach[k][f] \cap Declared}
    BY ReachSteps
  <2>2. CASE g \in Reach[k][f]
    BY <1>2, <2>2
  <2>3. CASE g \notin Reach[k][f]
    <3>1. PICK e \in Reach[k][f] \cap Declared : g \in init_dependencies[e]
      BY <2>1, <2>3
    <3>2. r[e] < r[f] /\ r[g] < r[e]
      BY <1>2, <3>1
    <3>3. r[e] \in Nat /\ r[f] \in Nat /\ r[g] \in Nat
      BY <3>1
    <3> QED
      BY <3>2, <3>3
  <2> QED
    BY <2>2, <2>3
<1>3. \A k \in Nat : k \in S
  <2> HIDE DEF S
  <2> QED
    BY <1>1, <1>2, SetInduction
<1>4. N \in S
  BY <1>3, InitAssumption
<1>5. \A f \in Declared : f \notin Reach[N][f]
  <2> SUFFICES ASSUME NEW f \in Declared, f \in Reach[N][f]
               PROVE  FALSE
    OBVIOUS
  <2>1. r[f] < r[f] /\ r[f] \in Nat
    BY <1>4
  <2> QED
    BY <2>1
<1> QED
  BY <1>5 DEF Cyclic

\* A program whose initializers depend on each other, over any number of
\* functions, never gets to its main loop.
THEOREM CyclesNeverStart == ISpec => []CyclesRejected
<1>1. OrderInv => CyclesRejected
  <2> SUFFICES ASSUME OrderInv, phase = "main"
               PROVE  ~ Cyclic
    BY DEF CyclesRejected
  <2>1. PICK r \in [Declared -> Nat], b \in Nat : Ranked(r, b)
    BY DEF OrderInv, InOrder
  <2>2. Declared \subseteq initialized
    BY InitAssumption DEF OrderInv, StartedComplete, Declared, Functions
  <2>3. \A f \in Declared : \A d \in init_dependencies[f] \cap Declared : r[d] < r[f]
    BY <2>1, <2>2 DEF Ranked
  <2>4. init_dependencies \in [Declared -> SUBSET Names]
    BY DEF OrderInv, ITypeOK
  <2> QED
    BY <2>3, <2>4, RankedAcyclic
<1> QED
  BY <1>1, OrderInvariance, PTL

=============================================================================

----------------------- MODULE ServiceContainerProofs -----------------------
(***************************************************************************)
(* Proofs that resolution is sound for every set of services, whatever     *)
(* depends on what: type correctness, no name twice on the stack, starts   *)
(* only on well-founded ground, no false alarm, and readiness of all that  *)
(* was resolved.                                                           *)
(*                                                                         *)
(* The invariant says that the stack is a path in the dependency graph     *)
(* (PathInv), that each activation has returned from every dependency that *)
(* is no longer pending (FrameInv), and that what has returned is well     *)
(* founded and ready (ReturnedInv).                                        *)
(***************************************************************************)
EXTENDS ServiceContainer, SequenceTheorems, TLAPS

USE ServiceAssumption

PathInv ==
  \A k \in DOMAIN stack :
    k + 1 \in DOMAIN stack =>
      stack[k].pending # <<>> /\ Head(stack[k].pending) = stack[k + 1].name

FrameInv ==
  \A k \in DOMAIN stack :
    /\ Registered(stack[k].name)
    /\ stack[k].svc = Lookup(stack[k].name)
    /\ stack[k].resolving = {stack[j].name : j \in 1 .. k}
    /\ Elements(stack[k].pending) \subseteq Elements(DepsOf(stack[k].name))
    /\ Elements(DepsOf(stack[k].name)) \subseteq Elements(stack[k].pending) \cup returned

ReturnedInv ==
  \A n \in returned :
    /\ Registered(n)
    /\ WellFounded(n)
    /\ Elements(DepsOf(n)) \subseteq returned
    /\ services[n] # NoInstance =>
         status[services[n]] = "RUNNING" \/ services[n] \in declined

OutcomeInv ==
  /\ stack # <<>> => outcome = None
  /\ outcome.kind = "resolved" => outcome.name \in returned
  /\ NoFalseAlarm

IInv == TypeOK /\ NoNameTwice /\ PathInv /\ FrameInv /\ ReturnedInv /\ OutcomeInv

-----------------------------------------------------------------------------
(* Sequences of names. *)

\* What a sequence holds is its head and what its tail holds.
LEMMA HeadTail ==
  ASSUME NEW S, NEW s \in Seq(S), s # <<>>
  PROVE  /\ Head(s) \in S
         /\ Tail(s) \in Seq(S)
         /\ Elements(s) = {Head(s)} \cup Elements(Tail(s))
<1>1. Len(s) \in Nat \ {0} /\ DOMAIN s = 1 .. Len(s) /\ Head(s) = s[1] /\ s[1] \in S
  OBVIOUS
<1>2. /\ Tail(s) \in Seq(S)
      /\ DOMAIN Tail(s) = 1 .. Len(s) - 1
      /\ \A i \in 1 .. Len(s) - 1 : Tail(s)[i] = s[i + 1]
  OBVIOUS
<1>3. ASSUME NEW x \in Elements(s) PROVE x = Head(s) \/ x \in Elements(Tail(s))
  <2>1. PICK k \in 1 .. Len(s) : x = s[k] BY <1>1 DEF Elements
  <2>2. CASE k = 1 BY <2>1, <2>2, <1>1
  <2>3. CASE k # 1
    <3>1. k - 1 \in 1 .. Len(s) - 1 /\ Tail(s)[k - 1] = x
      BY <2>1, <2>3, <1>1, <1>2
    <3> QED BY <3>1, <1>2 DEF Elements
  <2> QED BY <2>2, <2>3
<1>4. Head(s) \in Elements(s) BY <1>1 DEF Elements
<1>5. ASSUME NEW x \in Elements(Tail(s)) PROVE x \in Elements(s)
  <2>1. PICK k \in 1 .. Len(s) - 1 : x = Tail(s)[k] BY <1>2 DEF Elements
  <2>2. k + 1 \in 1 .. Len(s) /\ s[k + 1] = x BY <2>1, <1>1, <1>2
  <2> QED BY <2>2, <1>1 DEF Elements
<1> QED BY <1>1, <1>2, <1>3, <1>4, <1>5

\* What is above the top of the stack, and below, after a push.
LEMMA Pushed ==
  ASSUME NEW S, NEW s \in Seq(S), NEW e \in S
  PROVE  /\ Append(s, e) \in Seq(S)
         /\ Append(s, e) # <<>>
         /\ DOMAIN s = 1 .. Len(s)
         /\ DOMAIN Append(s, e) = 1 .. Len(s) + 1
         /\ \A k \in 1 .. Len(s) : Append(s, e)[k] = s[k]
         /\ Append(s, e)[Len(s) + 1] = e
         /\ Len(s) \in Nat
BY AppendProperties, LenProperties

-----------------------------------------------------------------------------
(* Well-foundedness. *)

\* A registered name whose dependencies are well founded is well founded.
LEMMA WellFoundedUp ==
  ASSUME NEW n \in Names, Registered(n),
         \A d \in Elements(DepsOf(n)) : WellFounded(d)
  PROVE  WellFounded(n)
BY DEF WellFounded, Inductive

\* A set of names, each unregistered or depending on one of the set, holds no
\* well-founded name: its complement is inductive.
LEMMA NotWellFounded ==
  ASSUME NEW B \in SUBSET Names,
         \A m \in B : Registered(m) => \E d \in Elements(DepsOf(m)) : d \in B,
         NEW n \in B
  PROVE  ~WellFounded(n)
<1> DEFINE S == Names \ B
<1>1. Inductive(S) BY DEF Inductive
<1> QED BY <1>1 DEF WellFounded

\* The registry alone decides what is registered and well founded.
LEMMA SameRegistry ==
  ASSUME UNCHANGED registry
  PROVE  /\ \A n : (Registered(n))' <=> Registered(n)
         /\ \A n : Lookup(n)' = Lookup(n) /\ DepsOf(n)' = DepsOf(n)
         /\ \A n : (WellFounded(n))' <=> WellFounded(n)
BY DEF registry, Registered, Lookup, DepsOf, WellFounded, Inductive

-----------------------------------------------------------------------------
(* The initial state, and the registry's actions. *)

LEMMA InitIInv == Init => IInv
<1> SUFFICES ASSUME Init PROVE IInv OBVIOUS
<1> USE DEF Init
<1>1. TypeOK BY DEF TypeOK, Lifecycle
<1>2. NoNameTwice /\ PathInv /\ FrameInv /\ ReturnedInv
  BY DEF NoNameTwice, PathInv, FrameInv, ReturnedInv
<1>3. OutcomeInv BY DEF OutcomeInv, NoFalseAlarm, None
<1> QED BY <1>1, <1>2, <1>3 DEF IInv

\* Between resolutions there is no stack, and the history is cleared.
LEMMA BetweenKeeps ==
  ASSUME Between
  PROVE  (NoNameTwice /\ PathInv /\ FrameInv /\ ReturnedInv /\ OutcomeInv)'
<1> USE DEF Between
<1>1. (NoNameTwice /\ PathInv /\ FrameInv /\ ReturnedInv)'
  BY DEF NoNameTwice, PathInv, FrameInv, ReturnedInv
<1>2. OutcomeInv' BY DEF OutcomeInv, NoFalseAlarm, None
<1> QED BY <1>1, <1>2

\* A failure changes the lifecycle of one service, which counts as declined from then on
\* if a resolution is under way.
LEMMA FailStep ==
  ASSUME IInv, NEW s \in Instances, Fail(s)
  PROVE  IInv'
<1>1. TypeOK /\ NoNameTwice /\ PathInv /\ FrameInv /\ ReturnedInv /\ OutcomeInv BY DEF IInv
<1>2. /\ UNCHANGED registry /\ status' = [status EXCEPT ![s] = "FAILED"]
      /\ status' \in [Instances -> Lifecycle]
  BY <1>1 DEF Fail, TypeOK, Lifecycle
<1>3. CASE Between
  <2>1. TypeOK' BY <1>1, <1>2, <1>3 DEF Between, TypeOK, registry
  <2> QED BY <2>1, <1>3, BetweenKeeps DEF IInv
<1>4. CASE /\ stack # <<>>
           /\ declined' = declined \cup {s}
           /\ UNCHANGED <<stack, outcome, returned>>
  <2>1. TypeOK' BY <1>1, <1>2, <1>4 DEF TypeOK, registry
  <2>2. (NoNameTwice /\ PathInv)' BY <1>1, <1>4 DEF NoNameTwice, PathInv
  <2>3. FrameInv'
    <3>1. \A n : /\ (Registered(n))' <=> Registered(n)
                 /\ Lookup(n)' = Lookup(n) /\ DepsOf(n)' = DepsOf(n)
      BY <1>2, SameRegistry
    <3> QED BY <1>1, <1>4, <3>1, Zenon DEF FrameInv
  <2>4. ReturnedInv'
    <3> SUFFICES ASSUME NEW n \in returned
                 PROVE  (/\ Registered(n)
                         /\ WellFounded(n)
                         /\ Elements(DepsOf(n)) \subseteq returned
                         /\ services[n] # NoInstance =>
                              status[services[n]] = "RUNNING" \/ services[n] \in declined)'
      BY <1>4 DEF ReturnedInv
    <3>1. n \in Names BY <1>1 DEF TypeOK
    <3>2. (Registered(n) /\ WellFounded(n) /\ Elements(DepsOf(n)) \subseteq returned)'
      BY <1>1, <1>2, <1>4, SameRegistry DEF ReturnedInv
    <3>3. ASSUME services[n] # NoInstance
          PROVE  status'[services[n]] = "RUNNING" \/ services[n] \in declined'
      BY <1>1, <1>2, <1>4, <3>1, <3>3 DEF ReturnedInv, TypeOK
    <3> QED BY <3>2, <3>3, <1>2 DEF registry
  <2>5. OutcomeInv' BY <1>1, <1>2, <1>4, SameRegistry DEF OutcomeInv, NoFalseAlarm
  <2> QED BY <2>1, <2>2, <2>3, <2>4, <2>5 DEF IInv
<1> QED BY <1>3, <1>4 DEF Fail

LEMMA AdministerStep == IInv /\ Administer => IInv'
<1> SUFFICES ASSUME IInv, Administer PROVE IInv' OBVIOUS
<1>1. TypeOK BY DEF IInv
<1> USE <1>1
<1>2. ASSUME Between
      PROVE  (stack \in Seq(Activations) /\ returned \subseteq Names
                /\ declined \subseteq Instances /\ outcome = None)'
  BY <1>2 DEF Between, TypeOK
<1>3. ASSUME NEW r \in Registrations, Register(r[1], r[2]) PROVE Between /\ TypeOK'
  BY <1>2, <1>3 DEF Register, Between, TypeOK, Lifecycle
<1>4. ASSUME NEW r \in Registrations, Replace(r[1], r[2]) PROVE Between /\ TypeOK'
  BY <1>2, <1>4 DEF Replace, Between, TypeOK, Lifecycle
<1>5. ASSUME NEW n \in FactoryNames, RegisterFactory(n) PROVE Between /\ TypeOK'
  BY <1>2, <1>5 DEF RegisterFactory, Between, TypeOK
<1>6. ASSUME NEW n \in Names, Unregister(n) PROVE Between /\ TypeOK'
  <2>1. CASE services[n] # NoInstance
    BY <1>2, <1>6, <2>1 DEF Unregister, Between, TypeOK, Lifecycle
  <2>2. CASE services[n] = NoInstance
    BY <1>2, <1>6, <2>2 DEF Unregister, Between, TypeOK, Lifecycle
  <2> QED BY <2>1, <2>2
<1>7. ASSUME NEW stopped \in SUBSET Singletons, Clear(stopped) PROVE Between /\ TypeOK'
  <2>1. CASE stopped = Singletons
    BY <1>2, <1>7, <2>1 DEF Clear, Between, TypeOK, Lifecycle
  <2>2. CASE stopped # Singletons
    BY <1>2, <1>7, <2>2 DEF Clear, Between, TypeOK, Lifecycle, registry
  <2> QED BY <2>1, <2>2
<1>8. CASE \E s \in Instances : Fail(s)
  BY <1>8, FailStep
<1>9. ASSUME ~\E s \in Instances : Fail(s) PROVE Between /\ TypeOK'
  BY <1>3, <1>4, <1>5, <1>6, <1>7, <1>9 DEF Administer
<1> QED BY <1>8, <1>9, BetweenKeeps DEF IInv

-----------------------------------------------------------------------------
(* The container's actions. *)

\* The activation of a registered name has the type of activations.
LEMMA ActivationType ==
  ASSUME TypeOK, NEW n \in Names, Registered(n), NEW R \in SUBSET Names
  PROVE  Activation(n, R) \in Activations /\ DepsOf(n) \in Seq(Names)
BY DEF TypeOK, Registered, Activation, Activations, Lookup, DepsOf

LEMMA ResolveStep == IInv /\ ResolveAny => IInv'
<1> SUFFICES ASSUME IInv, NEW n \in Names, Resolve(n) PROVE IInv'
  BY DEF ResolveAny
<1>0. TypeOK BY DEF IInv
<1>1. UNCHANGED registry /\ UNCHANGED status BY DEF Resolve
<1>2. CASE Registered(n) /\ stack' = <<Activation(n, {})>> /\ outcome' = None
  <2> DEFINE A == Activation(n, {})
  <2>1. stack' = <<A>> /\ outcome' = None /\ returned' = {} /\ declined' = {}
    BY <1>2 DEF Resolve
  <2>2. A \in Activations BY <1>0, <1>2, ActivationType
  <2>3. TypeOK' BY <1>0, <1>1, <2>1, <2>2 DEF TypeOK, registry
  <2>4. DOMAIN stack' = {1} /\ stack'[1] = A BY <2>1
  <2>5. NoNameTwice' /\ PathInv' BY <2>4 DEF NoNameTwice, PathInv
  <2>6. FrameInv'
    <3>1. A.name = n /\ A.svc = Lookup(n) /\ A.pending = DepsOf(n) /\ A.resolving = {n}
      BY DEF Activation
    <3>2. A.resolving = {stack'[j].name : j \in 1 .. 1} BY <3>1, <2>4
    <3> QED BY <3>1, <3>2, <2>4, <1>1, <1>2, SameRegistry DEF FrameInv
  <2>7. ReturnedInv' BY <2>1 DEF ReturnedInv
  <2>8. OutcomeInv' BY <2>1 DEF OutcomeInv, NoFalseAlarm, None
  <2> QED BY <2>3, <2>5, <2>6, <2>7, <2>8 DEF IInv
<1>3. CASE ~Registered(n) /\ Raise("missing", n)
  <2>1. stack' = <<>> /\ outcome' = [kind |-> "missing", name |-> n]
          /\ returned' = {} /\ declined' = {}
    BY <1>3 DEF Resolve, Raise
  <2>2. TypeOK' BY <1>0, <1>1, <2>1 DEF TypeOK, registry, Kinds
  <2>3. (NoNameTwice /\ PathInv /\ FrameInv /\ ReturnedInv)'
    BY <2>1 DEF NoNameTwice, PathInv, FrameInv, ReturnedInv
  <2>4. ~WellFounded(n) BY <1>3, NotWellFounded, {n} \in SUBSET Names
  <2>5. OutcomeInv' BY <2>1, <2>4, <1>1, SameRegistry DEF OutcomeInv, NoFalseAlarm
  <2> QED BY <2>2, <2>3, <2>5 DEF IInv
<1>4. CASE Made(n) /\ Raise("raised", n)
  <2>1. stack' = <<>> /\ outcome' = [kind |-> "raised", name |-> n]
          /\ returned' = {} /\ declined' = {}
    BY <1>4 DEF Resolve, Raise
  <2>2. TypeOK' BY <1>0, <1>1, <2>1 DEF TypeOK, registry, Kinds
  <2>3. (NoNameTwice /\ PathInv /\ FrameInv /\ ReturnedInv)'
    BY <2>1 DEF NoNameTwice, PathInv, FrameInv, ReturnedInv
  <2>4. OutcomeInv' BY <2>1 DEF OutcomeInv, NoFalseAlarm
  <2> QED BY <2>2, <2>3, <2>4 DEF IInv
<1> QED BY <1>2, <1>3, <1>4 DEF Resolve

\* An exception empties the stack; what it reports must be true of the name
\* that was asked for.
LEMMA Unwind ==
  ASSUME IInv, stack # <<>>, NEW kind \in {"circular", "missing", "raised"},
         Raise(kind, stack[1].name), UNCHANGED <<registry, status, returned, declined>>,
         kind # "raised" => ~WellFounded(stack[1].name)
  PROVE  IInv'
<1>1. TypeOK BY DEF IInv
<1>2. 1 \in DOMAIN stack /\ stack[1].name \in Names
  <2>1. Len(stack) \in Nat \ {0} /\ DOMAIN stack = 1 .. Len(stack)
    BY <1>1 DEF TypeOK
  <2>2. stack[1] \in Activations BY <1>1, <2>1 DEF TypeOK
  <2> QED BY <2>1, <2>2 DEF Activations
<1>3. stack' = <<>> /\ outcome' = [kind |-> kind, name |-> stack[1].name] BY DEF Raise
<1>4. TypeOK' BY <1>1, <1>2, <1>3 DEF TypeOK, Kinds, registry
<1>5. (NoNameTwice /\ PathInv /\ FrameInv)'
  BY <1>3 DEF NoNameTwice, PathInv, FrameInv
<1>6. ReturnedInv' BY SameRegistry DEF IInv, ReturnedInv, registry
<1>7. OutcomeInv' BY <1>3, SameRegistry DEF OutcomeInv, NoFalseAlarm
<1> QED BY <1>4, <1>5, <1>6, <1>7 DEF IInv

\* The top activation waits for its next dependency; each one below it waits for
\* the one above.
LEMMA StackWaits ==
  ASSUME IInv, stack # <<>>, Top.pending # <<>>
  PROVE  /\ Len(stack) \in Nat \ {0}
         /\ DOMAIN stack = 1 .. Len(stack)
         /\ \A k \in 1 .. Len(stack) :
              /\ stack[k] \in Activations
              /\ Head(stack[k].pending) \in Elements(DepsOf(stack[k].name))
         /\ \A k \in 1 .. Len(stack) - 1 : Head(stack[k].pending) = stack[k + 1].name
         /\ Head(Top.pending) \in Names
         /\ Top.resolving = {stack[j].name : j \in 1 .. Len(stack)}
<1>1. TypeOK /\ PathInv /\ FrameInv BY DEF IInv
<1>2. /\ Len(stack) \in Nat \ {0}
      /\ DOMAIN stack = 1 .. Len(stack)
      /\ \A k \in 1 .. Len(stack) : stack[k] \in Activations
  BY <1>1 DEF TypeOK
<1>3. ASSUME NEW k \in 1 .. Len(stack) - 1
      PROVE  stack[k].pending # <<>> /\ Head(stack[k].pending) = stack[k + 1].name
  <2>1. k \in DOMAIN stack /\ k + 1 \in DOMAIN stack BY <1>2
  <2> QED BY <1>1, <2>1 DEF PathInv
<1>4. ASSUME NEW k \in 1 .. Len(stack)
      PROVE  Head(stack[k].pending) \in Elements(DepsOf(stack[k].name))
  <2>1. stack[k].pending # <<>> BY <1>2, <1>3 DEF Top
  <2>2. stack[k].pending \in Seq(Names) BY <1>2 DEF Activations
  <2>3. Head(stack[k].pending) \in Elements(stack[k].pending)
    BY <2>1, <2>2, HeadTail
  <2>4. Elements(stack[k].pending) \subseteq Elements(DepsOf(stack[k].name))
    BY <1>1, <1>2 DEF FrameInv
  <2> QED BY <2>3, <2>4
<1>5. Head(Top.pending) \in Names
  <2>1. Top.pending \in Seq(Names) BY <1>2 DEF Top, Activations
  <2> QED BY <2>1, HeadTail
<1>6. Top.resolving = {stack[j].name : j \in 1 .. Len(stack)}
  BY <1>1, <1>2 DEF Top, FrameInv
<1> QED BY <1>2, <1>3, <1>4, <1>5, <1>6

\* Every activation depends on the name above it, so that if the next dependency
\* is on the stack or not registered, nothing on the stack is well founded.
LEMMA AlarmIsReal ==
  ASSUME IInv, stack # <<>>, Top.pending # <<>>,
         Circular(Head(Top.pending)) \/ ~Registered(Head(Top.pending))
  PROVE  ~WellFounded(stack[1].name)
<1> DEFINE next == Head(Top.pending)
           B == {stack[j].name : j \in 1 .. Len(stack)} \cup {next}
<1>0. Len(stack) \in Nat \ {0} BY StackWaits
<1>1. /\ B \in SUBSET Names
      /\ stack[1].name \in B
  BY StackWaits DEF Activations
<1>2. ASSUME NEW m \in B, Registered(m) PROVE \E d \in Elements(DepsOf(m)) : d \in B
  <2>1. PICK j \in 1 .. Len(stack) : m = stack[j].name
    BY <1>2, StackWaits DEF Circular
  <2>2. CASE j = Len(stack)
    BY <2>1, <2>2, StackWaits DEF Top
  <2>3. CASE j # Len(stack)
    <3>1. j \in 1 .. Len(stack) - 1 /\ j + 1 \in 1 .. Len(stack)
      BY <2>3, <1>0
    <3> QED BY <3>1, <2>1, StackWaits
  <2> QED BY <2>2, <2>3
<1> HIDE DEF B
<1> QED BY <1>1, <1>2, NotWellFounded

LEMMA DescendStep == IInv /\ Descend => IInv'
<1> SUFFICES ASSUME IInv, Descend PROVE IInv' OBVIOUS
<1> DEFINE next == Head(Top.pending)
<1>1. /\ TypeOK /\ NoNameTwice /\ PathInv /\ FrameInv /\ ReturnedInv /\ OutcomeInv
      /\ stack # <<>> /\ Top.pending # <<>>
      /\ UNCHANGED <<registry, status, returned, declined>>
  BY DEF IInv, Descend
<1>2. CASE Circular(next) /\ Raise("circular", stack[1].name)
  BY <1>1, <1>2, AlarmIsReal, Unwind
<1>3. CASE ~Circular(next) /\ ~Registered(next) /\ Raise("missing", stack[1].name)
  BY <1>1, <1>3, AlarmIsReal, Unwind
<1>4. CASE /\ ~Circular(next) /\ Registered(next)
           /\ stack' = Append(stack, Activation(next, Top.resolving))
           /\ UNCHANGED outcome
  <2> DEFINE A == Activation(next, Top.resolving)
             L == Len(stack)
  <2>1. /\ L \in Nat \ {0} /\ DOMAIN stack = 1 .. L /\ next \in Names
        /\ Top \in Activations
        /\ Top.resolving = {stack[j].name : j \in 1 .. L}
        /\ Top = stack[L]
    BY <1>1, StackWaits DEF Top
  <2>2. Top.resolving \in SUBSET Names BY <2>1 DEF Activations
  <2>3. A \in Activations BY <1>1, <1>4, <2>1, <2>2, ActivationType
  <2>4. /\ A.name = next /\ A.svc = Lookup(next) /\ A.pending = DepsOf(next)
        /\ A.resolving = Top.resolving \cup {next}
    BY DEF Activation
  <2> HIDE DEF A
  <2>5. /\ stack' \in Seq(Activations) /\ stack' # <<>>
        /\ DOMAIN stack' = 1 .. L + 1
        /\ \A k \in 1 .. L : stack'[k] = stack[k]
        /\ stack'[L + 1] = A
    BY <1>1, <1>4, <2>3, Pushed DEF A, TypeOK
  <2> HIDE DEF L
  <2>6. TypeOK' BY <1>1, <1>4, <2>5 DEF TypeOK, registry
  <2>7. NoNameTwice'
    <3>1. \A j \in 1 .. L : stack[j].name # next BY <1>4, <2>1 DEF Circular
    <3> QED BY <3>1, <1>1, <2>1, <2>4, <2>5 DEF NoNameTwice
  <2>8. PathInv' BY <1>1, <2>1, <2>4, <2>5 DEF PathInv
  <2>9. FrameInv'
    <3> SUFFICES ASSUME NEW k \in 1 .. L + 1
                 PROVE  /\ Registered(stack'[k].name)
                        /\ stack'[k].svc = Lookup(stack'[k].name)
                        /\ stack'[k].resolving = {stack'[j].name : j \in 1 .. k}
                        /\ Elements(stack'[k].pending) \subseteq Elements(DepsOf(stack'[k].name))
                        /\ Elements(DepsOf(stack'[k].name))
                             \subseteq Elements(stack'[k].pending) \cup returned
      BY <1>1, <2>5, SameRegistry DEF FrameInv
    <3>1. CASE k = L + 1
      <4>1. {stack'[j].name : j \in 1 .. L + 1} = Top.resolving \cup {next}
        BY <2>1, <2>4, <2>5
      <4> QED BY <4>1, <3>1, <1>4, <2>4, <2>5
    <3>2. CASE k # L + 1
      <4>1. k \in 1 .. L /\ \A j \in 1 .. k : stack'[j] = stack[j]
        BY <3>2, <2>1, <2>5
      <4>2. {stack'[j].name : j \in 1 .. k} = {stack[j].name : j \in 1 .. k}
        BY <4>1
      <4>3. /\ Registered(stack[k].name)
            /\ stack[k].svc = Lookup(stack[k].name)
            /\ stack[k].resolving = {stack[j].name : j \in 1 .. k}
            /\ Elements(stack[k].pending) \subseteq Elements(DepsOf(stack[k].name))
            /\ Elements(DepsOf(stack[k].name)) \subseteq Elements(stack[k].pending) \cup returned
        BY <4>1, <1>1, <2>1 DEF FrameInv
      <4>4. stack'[k] = stack[k] BY <4>1
      <4> QED BY <4>2, <4>3, <4>4
    <3> QED BY <3>1, <3>2
  <2>10. ReturnedInv' BY <1>1, SameRegistry DEF ReturnedInv, registry
  <2>11. OutcomeInv' BY <1>1, <1>4, SameRegistry DEF OutcomeInv, NoFalseAlarm
  <2> QED BY <2>6, <2>7, <2>8, <2>9, <2>10, <2>11 DEF IInv
<1> QED BY <1>2, <1>3, <1>4 DEF Descend

\* What a return needs of the activation that returns: it is well founded.
LEMMA TopWellFounded ==
  ASSUME IInv, AllResolved
  PROVE  /\ Len(stack) \in Nat \ {0}
         /\ DOMAIN stack = 1 .. Len(stack)
         /\ \A k \in 1 .. Len(stack) : stack[k] \in Activations
         /\ Top = stack[Len(stack)]
         /\ Top.name \in Names
         /\ Registered(Top.name)
         /\ Top.svc = Lookup(Top.name)
         /\ Elements(DepsOf(Top.name)) \subseteq returned
         /\ WellFounded(Top.name)
<1>1. TypeOK /\ FrameInv /\ ReturnedInv /\ stack # <<>> /\ Top.pending = <<>>
  BY DEF IInv, AllResolved
<1>2. /\ Len(stack) \in Nat \ {0}
      /\ DOMAIN stack = 1 .. Len(stack)
      /\ \A k \in 1 .. Len(stack) : stack[k] \in Activations
      /\ Top = stack[Len(stack)]
  BY <1>1 DEF TypeOK, Top
<1>3. Top.name \in Names BY <1>2 DEF Activations
<1>4. /\ Registered(Top.name)
      /\ Top.svc = Lookup(Top.name)
      /\ Elements(DepsOf(Top.name)) \subseteq Elements(Top.pending) \cup returned
  BY <1>1, <1>2 DEF FrameInv
<1>5. Elements(DepsOf(Top.name)) \subseteq returned
  <2>1. Elements(Top.pending) = {} BY <1>1 DEF Elements
  <2> QED BY <1>4, <2>1
<1>6. WellFounded(Top.name)
  BY <1>1, <1>3, <1>4, <1>5, WellFoundedUp DEF ReturnedInv
<1> QED BY <1>2, <1>3, <1>4, <1>5, <1>6

\* A return passes the well-founded name on to the caller and keeps every part
\* but the readiness of what has returned, which is the starter's business.
LEMMA ReturnKeeps ==
  ASSUME IInv, AllResolved, Return, UNCHANGED registry,
         status' \in [Instances -> Lifecycle], declined' \subseteq Instances,
         \A n \in returned' : services[n] # NoInstance =>
           status'[services[n]] = "RUNNING" \/ services[n] \in declined'
  PROVE  IInv'
<1> DEFINE L == Len(stack)
<1>1. /\ TypeOK /\ NoNameTwice /\ PathInv /\ FrameInv /\ ReturnedInv /\ OutcomeInv
      /\ stack # <<>> /\ Top.pending = <<>>
  BY DEF IInv, AllResolved
<1>2. /\ L \in Nat \ {0} /\ DOMAIN stack = 1 .. L
      /\ \A k \in 1 .. L : stack[k] \in Activations
      /\ Top = stack[L] /\ Top.name \in Names
      /\ Registered(Top.name) /\ Elements(DepsOf(Top.name)) \subseteq returned
      /\ WellFounded(Top.name)
  BY TopWellFounded
<1>3. returned' = returned \cup {Top.name} BY DEF Return
<1>4. ReturnedInv'
  BY <1>1, <1>2, <1>3, SameRegistry DEF ReturnedInv, registry
<1>5. CASE L = 1
  <2>1. stack' = <<>> /\ outcome' = [kind |-> "resolved", name |-> Top.name]
    BY <1>5 DEF Return
  <2>2. TypeOK' BY <1>1, <1>2, <1>3, <2>1 DEF TypeOK, Kinds, registry
  <2>3. (NoNameTwice /\ PathInv /\ FrameInv)'
    BY <2>1 DEF NoNameTwice, PathInv, FrameInv
  <2>4. OutcomeInv' BY <1>3, <2>1 DEF OutcomeInv, NoFalseAlarm
  <2> QED BY <1>4, <2>2, <2>3, <2>4 DEF IInv
<1>6. CASE L # 1
  <2>1. /\ stack' = [k \in 1 .. L - 1 |->
                       IF k = L - 1 THEN AfterReturn(stack[k], Top) ELSE stack[k]]
        /\ UNCHANGED outcome
    BY <1>6 DEF Return
  <2>2. L - 1 \in 1 .. L /\ L - 1 \in Nat \ {0} /\ (L - 1) + 1 = L BY <1>2, <1>6
  <2> DEFINE caller == stack[L - 1]
  <2>3. /\ caller \in Activations
        /\ caller.pending \in Seq(Names)
        /\ caller.pending # <<>> /\ Head(caller.pending) = Top.name
    <3>1. L - 1 \in DOMAIN stack /\ (L - 1) + 1 \in DOMAIN stack BY <1>2, <2>2
    <3>2. caller.pending # <<>> /\ Head(caller.pending) = stack[(L - 1) + 1].name
      BY <3>1, <1>1 DEF PathInv
    <3>3. caller \in Activations /\ caller.pending \in Seq(Names)
      BY <1>2, <2>2 DEF Activations
    <3> QED BY <3>2, <3>3, <1>2, <2>2
  <2>4. /\ Tail(caller.pending) \in Seq(Names)
        /\ Elements(caller.pending) = {Top.name} \cup Elements(Tail(caller.pending))
    BY <2>3, HeadTail
  <2>5. /\ DOMAIN stack' = 1 .. L - 1
        /\ \A k \in 1 .. L - 1 :
             /\ stack'[k] \in Activations
             /\ stack'[k].name = stack[k].name
             /\ stack'[k].svc = stack[k].svc
             /\ stack'[k].resolving = stack[k].resolving
        /\ \A k \in 1 .. L - 1 : k # L - 1 => stack'[k] = stack[k]
        /\ stack'[L - 1].pending = Tail(caller.pending)
    <3>1. /\ DOMAIN stack' = 1 .. L - 1
          /\ \A k \in 1 .. L - 1 :
               stack'[k] = IF k = L - 1 THEN [stack[k] EXCEPT !.pending = Tail(@)] ELSE stack[k]
      BY <2>1 DEF AfterReturn
    <3>2. stack'[L - 1] = [caller EXCEPT !.pending = Tail(@)] /\ L - 1 \in 1 .. L - 1
      <4>1. L - 1 \in 1 .. L - 1
        <5> HIDE DEF L
        <5> QED BY <2>2
      <4> QED BY <3>1, <4>1
    <3>3. /\ stack'[L - 1] \in Activations
          /\ stack'[L - 1].name = caller.name
          /\ stack'[L - 1].svc = caller.svc
          /\ stack'[L - 1].resolving = caller.resolving
          /\ stack'[L - 1].pending = Tail(caller.pending)
      BY <3>2, <2>3, <2>4 DEF Activations
    <3>4. \A k \in 1 .. L - 1 : k # L - 1 => stack'[k] = stack[k] BY <3>1
    <3>5. \A k \in 1 .. L - 1 : k \in 1 .. L BY <1>2
    <3> HIDE DEF L
    <3> QED BY <3>1, <3>3, <3>4, <3>5, <1>2
  <2>6. stack' \in Seq(Activations)
    <3>1. stack' \in [1 .. L - 1 -> Activations] BY <2>1, <2>5
    <3> HIDE DEF L
    <3> QED BY <3>1, <2>2, SeqDef
  <2> HIDE DEF L
  <2>7. TypeOK' BY <1>1, <1>2, <1>3, <2>1, <2>6 DEF TypeOK, registry
  <2>8. NoNameTwice' BY <1>1, <1>2, <2>2, <2>5 DEF NoNameTwice
  <2>9. PathInv'
    <3> SUFFICES ASSUME NEW k \in 1 .. L - 1, k + 1 \in 1 .. L - 1
                 PROVE  /\ stack'[k].pending # <<>>
                        /\ Head(stack'[k].pending) = stack'[k + 1].name
      BY <2>5 DEF PathInv
    <3>1. stack'[k] = stack[k] /\ stack'[k + 1].name = stack[k + 1].name
      BY <1>2, <2>5
    <3>2. k \in DOMAIN stack /\ k + 1 \in DOMAIN stack BY <1>2
    <3> QED BY <3>1, <3>2, <1>1 DEF PathInv
  <2>10. FrameInv'
    <3> SUFFICES ASSUME NEW k \in 1 .. L - 1
                 PROVE  /\ Registered(stack'[k].name)
                        /\ stack'[k].svc = Lookup(stack'[k].name)
                        /\ stack'[k].resolving = {stack'[j].name : j \in 1 .. k}
                        /\ Elements(stack'[k].pending) \subseteq Elements(DepsOf(stack'[k].name))
                        /\ Elements(DepsOf(stack'[k].name))
                             \subseteq Elements(stack'[k].pending) \cup returned'
      BY <2>5, SameRegistry DEF FrameInv
    <3>1. /\ k \in 1 .. L
          /\ \A j \in 1 .. k : stack'[j].name = stack[j].name
      BY <1>2, <2>5
    <3>2. {stack'[j].name : j \in 1 .. k} = {stack[j].name : j \in 1 .. k}
      BY <3>1
    <3>3. /\ Registered(stack[k].name)
          /\ stack[k].svc = Lookup(stack[k].name)
          /\ stack[k].resolving = {stack[j].name : j \in 1 .. k}
          /\ Elements(stack[k].pending) \subseteq Elements(DepsOf(stack[k].name))
          /\ Elements(DepsOf(stack[k].name)) \subseteq Elements(stack[k].pending) \cup returned
      BY <3>1, <1>1, <1>2 DEF FrameInv
    <3>4. CASE k = L - 1 BY <3>2, <3>3, <3>4, <1>3, <2>4, <2>5
    <3>5. CASE k # L - 1 BY <3>2, <3>3, <3>5, <1>3, <2>5
    <3> QED BY <3>4, <3>5
  <2>11. OutcomeInv'
    BY <1>1, <2>1, SameRegistry DEF OutcomeInv, NoFalseAlarm, None
  <2> QED BY <1>4, <2>7, <2>8, <2>9, <2>10, <2>11 DEF IInv
<1> QED BY <1>5, <1>6

LEMMA AlreadyRunningStep == IInv /\ AlreadyRunning => IInv'
<1> SUFFICES ASSUME IInv, AlreadyRunning PROVE IInv' OBVIOUS
<1>1. /\ AllResolved /\ Running(Top.svc) /\ Return
      /\ UNCHANGED <<registry, status, declined>>
  BY DEF AlreadyRunning
<1>2. TypeOK /\ ReturnedInv BY DEF IInv
<1>3. Top.svc = Lookup(Top.name) BY <1>1, TopWellFounded
<1>4. ASSUME NEW n \in returned', services[n] # NoInstance
      PROVE  status'[services[n]] = "RUNNING" \/ services[n] \in declined'
  BY <1>1, <1>2, <1>3, <1>4 DEF Return, Lookup, Running, ReturnedInv
<1> QED BY <1>1, <1>2, <1>4, ReturnKeeps DEF TypeOK

LEMMA StartStep == IInv /\ StartTop => IInv'
<1> SUFFICES ASSUME IInv, NEW to \in {"RUNNING", "FAILED"}, Start(to) PROVE IInv'
  BY DEF StartTop
<1>1. AllResolved /\ Return /\ UNCHANGED registry BY DEF Start
<1>2. TypeOK /\ ReturnedInv BY DEF IInv
<1>3. Top.name \in Names /\ Top.svc = Lookup(Top.name) /\ Registered(Top.name)
  BY <1>1, TopWellFounded
<1>4. returned' = returned \cup {Top.name} BY <1>1 DEF Return
<1>5. CASE Top.svc = Transient
  <2>1. UNCHANGED <<status, declined>> BY <1>5 DEF Start
  <2>2. services[Top.name] = NoInstance
    BY <1>2, <1>3, <1>5 DEF Lookup, TypeOK
  <2>3. ASSUME NEW n \in returned', services[n] # NoInstance
        PROVE  status'[services[n]] = "RUNNING" \/ services[n] \in declined'
    BY <1>2, <1>4, <2>1, <2>2, <2>3 DEF ReturnedInv
  <2> QED BY <1>1, <1>2, <2>1, <2>3, ReturnKeeps DEF TypeOK
<1>6. CASE Top.svc # Transient
  <2>1. /\ status' = [status EXCEPT ![Top.svc] = to]
        /\ declined' = IF to = "RUNNING" THEN declined \ {Top.svc}
                                         ELSE declined \cup {Top.svc}
    BY <1>6 DEF Start
  <2>2. services[Top.name] = Top.svc /\ Top.svc \in Instances
    BY <1>2, <1>3, <1>6 DEF Lookup, TypeOK
  <2>3. status' \in [Instances -> Lifecycle] /\ declined' \subseteq Instances
    BY <1>2, <2>1, <2>2 DEF TypeOK, Lifecycle
  <2>4. ASSUME NEW n \in returned', services[n] # NoInstance
        PROVE  status'[services[n]] = "RUNNING" \/ services[n] \in declined'
    <3>1. n \in Names /\ services[n] \in Instances
      BY <1>2, <1>3, <1>4, <2>4 DEF TypeOK
    <3>2. CASE services[n] = Top.svc BY <1>2, <2>1, <2>2, <3>2 DEF TypeOK
    <3>3. CASE services[n] # Top.svc
      BY <1>2, <1>4, <2>1, <2>2, <2>4, <3>1, <3>3 DEF ReturnedInv, TypeOK
    <3> QED BY <3>2, <3>3
  <2> QED BY <1>1, <2>3, <2>4, ReturnKeeps
<1> QED BY <1>5, <1>6

LEMMA FactoryRaisesStep == IInv /\ FactoryRaises => IInv'
BY Unwind DEF FactoryRaises

LEMMA StartRaisesStep == IInv /\ StartRaises => IInv'
BY Unwind DEF StartRaises, AllResolved

-----------------------------------------------------------------------------
(* The theorems. *)

LEMMA StepKeepsIInv == IInv /\ [Next]_vars => IInv'
<1> SUFFICES ASSUME IInv, [Next]_vars PROVE IInv' OBVIOUS
<1>1. CASE Administer BY <1>1, AdministerStep
<1>2. CASE ResolveAny BY <1>2, ResolveStep
<1>3. CASE Descend BY <1>3, DescendStep
<1>4. CASE AlreadyRunning BY <1>4, AlreadyRunningStep
<1>5. CASE StartTop BY <1>5, StartStep
<1>6. CASE StartRaises BY <1>6, StartRaisesStep
<1>7. CASE UNCHANGED vars
  <2> USE <1>7 DEF vars
  <2>1. UNCHANGED registry BY DEF registry
  <2>2. (TypeOK /\ NoNameTwice /\ PathInv)'
    BY DEF IInv, TypeOK, NoNameTwice, PathInv
  <2>3. FrameInv'
    <3>1. \A n : /\ (Registered(n))' <=> Registered(n)
                 /\ Lookup(n)' = Lookup(n) /\ DepsOf(n)' = DepsOf(n)
      BY <2>1, SameRegistry
    <3>2. FrameInv /\ stack' = stack /\ returned' = returned BY DEF IInv
    <3> HIDE <1>7
    <3> QED BY <3>1, <3>2, Zenon DEF FrameInv
  <2>4. ReturnedInv' BY <2>1, SameRegistry DEF IInv, ReturnedInv
  <2>5. OutcomeInv' BY <2>1, SameRegistry DEF IInv, OutcomeInv, NoFalseAlarm
  <2> QED BY <2>2, <2>3, <2>4, <2>5 DEF IInv
<1>8. CASE FactoryRaises BY <1>8, FactoryRaisesStep
<1> QED BY <1>1, <1>2, <1>3, <1>4, <1>5, <1>6, <1>7, <1>8 DEF Next, Container

LEMMA Invariant == Spec => []IInv
BY InitIInv, StepKeepsIInv, PTL DEF Spec

\* The registry, the lifecycles and the stack keep their types: whatever is
\* registered, the container never goes on with a service it did not find.
THEOREM TypeCorrect == Spec => []TypeOK
<1>1. IInv => TypeOK BY DEF IInv
<1> QED BY <1>1, Invariant, PTL

\* The recursion of resolve_with_dependencies never meets a name twice, so it is
\* no deeper than the number of names, cyclic dependencies included.
THEOREM NoNameResolvedTwice == Spec => []NoNameTwice
<1>1. IInv => NoNameTwice BY DEF IInv
<1> QED BY <1>1, Invariant, PTL

\* start() is called only on services all of whose direct and indirect
\* dependencies are registered and free of cycles.
THEOREM StartsWellFounded == Spec => []StartsOnlyWellFounded
<1>1. IInv => StartsOnlyWellFounded BY TopWellFounded DEF StartsOnlyWellFounded
<1> QED BY <1>1, Invariant, PTL

\* CircularDependencyError and KeyError are raised only when the service asked
\* for really has a cycle or an unregistered name underneath.
THEOREM AlarmsAreReal == Spec => []NoFalseAlarm
<1>1. IInv => NoFalseAlarm BY DEF IInv, OutcomeInv
<1> QED BY <1>1, Invariant, PTL

\* When a resolution returns, the service and everything underneath it is
\* registered and running, unless its own start() left it otherwise or it has failed since.
THEOREM ResolvedReady == Spec => []ResolvedIsReady
<1>1. IInv => ResolvedIsReady
  BY DEF IInv, ReturnedInv, OutcomeInv, ResolvedIsReady
<1> QED BY <1>1, Invariant, PTL

=============================================================================

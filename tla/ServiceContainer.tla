-------------------------- MODULE ServiceContainer --------------------------
(***************************************************************************)
(* backend/core/services: the registry of system services and the          *)
(* container that resolves a service with its dependencies, depth first,   *)
(* and starts what is not running.                                         *)
(*                                                                         *)
(* One thread uses both.  A resolution is a stack of activations of        *)
(* resolve_with_dependencies; the registry changes only between            *)
(* resolutions, while a running service may fail at any moment.  start()   *)
(* and stop() of a service are abstract there: here start() makes it run,  *)
(* leaves it FAILED or raises; stop() leaves it STOPPED or raises, which   *)
(* ends Replace and Unregister before they have changed anything (a        *)
(* stutter) and Clear on its way.                                          *)
(***************************************************************************)
EXTENDS Naturals, Sequences

CONSTANTS
  Names,           \* the (lower-case) names services are registered under
  Instances,       \* the singleton objects
  NoInstance,      \* a name without a singleton
  Transient,       \* the object a factory has just made
  Deps,            \* metadata.dependencies of each singleton
  FactoryDeps,     \* metadata.dependencies of what the factory of a name makes
  Registrations,   \* <<name, singleton>> the session may register or replace with
  FactoryNames     \* names the session may register a factory for

ASSUME ServiceAssumption ==
  /\ NoInstance \notin Instances
  /\ Transient \notin Instances
  /\ Transient # NoInstance
  /\ Deps \in [Instances -> Seq(Names)]
  /\ FactoryDeps \in [Names -> Seq(Names)]
  /\ Registrations \subseteq Names \X Instances
  /\ FactoryNames \subseteq Names

VARIABLES
  services,    \* _services: the singleton of each name, or NoInstance
  factories,   \* the keys of _factories
  status,      \* the lifecycle of each singleton
  stack,       \* the activations, outermost first
  outcome,     \* how the last resolution ended, until something else happens
  returned,    \* history: the names the current or last resolution has resolved
  declined     \* history: singletons whose start() left them not running in it, or that
               \* have failed by themselves since it began

registry == <<services, factories>>
vars == <<services, factories, status, stack, outcome, returned, declined>>

Lifecycle == {"UNREGISTERED", "REGISTERED", "RUNNING", "STOPPED", "FAILED"}
Kinds == {"none", "resolved", "missing", "circular", "raised"}

Elements(s) == {s[k] : k \in DOMAIN s}

\* RuntimeServiceRegistry.resolve: the singleton first, then the factory.
Registered(n) == services[n] # NoInstance \/ n \in factories
Lookup(n) == IF services[n] # NoInstance THEN services[n] ELSE Transient
DepsOf(n) == IF services[n] # NoInstance THEN Deps[services[n]] ELSE FactoryDeps[n]

Activation(n, resolving) ==
  [name |-> n, svc |-> Lookup(n), pending |-> DepsOf(n), resolving |-> resolving \cup {n}]

None == [kind |-> "none"]

Init ==
  /\ services = [n \in Names |-> NoInstance]
  /\ factories = {}
  /\ status = [s \in Instances |-> "UNREGISTERED"]
  /\ stack = <<>>
  /\ outcome = None
  /\ returned = {}
  /\ declined = {}

-----------------------------------------------------------------------------
(* The registry, between resolutions. *)

Between ==
  /\ stack = <<>>
  /\ outcome' = None
  /\ returned' = {}
  /\ declined' = {}
  /\ UNCHANGED stack

\* A singleton registered before under the name is forgotten, not stopped.
Register(n, s) ==
  /\ Between
  /\ services' = [services EXCEPT ![n] = s]
  /\ status' = [status EXCEPT ![s] = "REGISTERED"]
  /\ UNCHANGED factories

RegisterFactory(n) ==
  /\ Between
  /\ factories' = factories \cup {n}
  /\ UNCHANGED <<services, status>>

Replace(n, s) ==
  /\ Between
  /\ services' = [services EXCEPT ![n] = s]
  /\ status' = [x \in Instances |-> IF x = s THEN "REGISTERED"
                                    ELSE IF x = services[n] THEN "STOPPED"
                                    ELSE status[x]]
  /\ UNCHANGED factories

\* A singleton is stopped and removed; otherwise a factory is removed.
Unregister(n) ==
  /\ Between
  /\ IF services[n] # NoInstance
       THEN /\ status' = [status EXCEPT ![services[n]] = "STOPPED"]
            /\ services' = [services EXCEPT ![n] = NoInstance]
            /\ UNCHANGED factories
       ELSE /\ factories' = factories \ {n}
            /\ UNCHANGED <<services, status>>

Singletons == {services[n] : n \in Names} \ {NoInstance}

\* clear stops the singletons one after the other; one that raises leaves
\* the rest as they were and the registry as it was.
Clear(stopped) ==
  /\ Between
  /\ stopped \subseteq Singletons
  /\ status' = [s \in Instances |-> IF s \in stopped THEN "STOPPED" ELSE status[s]]
  /\ IF stopped = Singletons
       THEN services' = [n \in Names |-> NoInstance] /\ factories' = {}
       ELSE UNCHANGED registry

\* A running service may fail by itself, in the middle of a resolution too.
Fail(s) ==
  /\ status[s] = "RUNNING"
  /\ status' = [status EXCEPT ![s] = "FAILED"]
  /\ \/ Between
     \/ /\ stack # <<>>
        /\ declined' = declined \cup {s}
        /\ UNCHANGED <<stack, outcome, returned>>
  /\ UNCHANGED registry

-----------------------------------------------------------------------------
(* The container. *)

Top == stack[Len(stack)]

\* Any exception unwinds the whole resolution: nothing in it catches one.
Raise(kind, n) ==
  /\ outcome' = [kind |-> kind, name |-> n]
  /\ stack' = <<>>

\* A singleton is returned, of a factory the result of calling it, which may raise.
Made(n) == services[n] = NoInstance /\ n \in factories

\* ServiceDiscovery.get_service or the container itself, from outside.  What get_service
\* should catch it lets through: its except clause names CircularDependencyError, which
\* discovery.py does not import, so that evaluating it is a NameError.  Either way the
\* resolution is over.
Resolve(n) ==
  /\ stack = <<>>
  /\ returned' = {}
  /\ declined' = {}
  /\ \/ Registered(n) /\ stack' = <<Activation(n, {})>> /\ outcome' = None
     \/ ~Registered(n) /\ Raise("missing", n)
     \/ Made(n) /\ Raise("raised", n)
  /\ UNCHANGED <<registry, status>>

\* Variant: only a service that depends on itself is seen as a cycle.
CircularAtTop(n) == n = Top.name

Circular(n) == n \in Top.resolving

\* Variant: a dependency nobody registered is passed over.
DescendPastMissing ==
  /\ stack # <<>>
  /\ Top.pending # <<>>
  /\ LET n == Head(Top.pending) IN
     IF Circular(n)
       THEN Raise("circular", stack[1].name)
       ELSE /\ stack' = IF Registered(n)
                          THEN Append(stack, Activation(n, Top.resolving))
                          ELSE [stack EXCEPT ![Len(stack)].pending = Tail(@)]
            /\ UNCHANGED outcome
  /\ UNCHANGED <<registry, status, returned, declined>>

\* Variant: what resolve returns is not looked at.
DescendUnchecked ==
  /\ stack # <<>>
  /\ Top.pending # <<>>
  /\ stack' = Append(stack, [Activation(Head(Top.pending), Top.resolving)
                               EXCEPT !.svc = services[Head(Top.pending)]])
  /\ UNCHANGED <<registry, status, outcome, returned, declined>>

\* The next dependency: it is on the way here, unknown, or resolved in turn.
Descend ==
  /\ stack # <<>>
  /\ Top.pending # <<>>
  /\ LET n == Head(Top.pending) IN
     \/ Circular(n) /\ Raise("circular", stack[1].name)
     \/ ~Circular(n) /\ ~Registered(n) /\ Raise("missing", stack[1].name)
     \/ /\ ~Circular(n) /\ Registered(n)
        /\ stack' = Append(stack, Activation(n, Top.resolving))
        /\ UNCHANGED outcome
  /\ UNCHANGED <<registry, status, returned, declined>>

\* The factory of the next dependency raises.
FactoryRaises ==
  /\ stack # <<>>
  /\ Top.pending # <<>>
  /\ ~Circular(Head(Top.pending)) /\ Made(Head(Top.pending))
  /\ Raise("raised", stack[1].name)
  /\ UNCHANGED <<registry, status, returned, declined>>

\* Variant: the set of names being resolved is shared, not copied.
AfterReturnShared(caller, callee) ==
  [caller EXCEPT !.pending = Tail(@), !.resolving = callee.resolving]

\* Variant: the caller resolves the same dependency again.
AfterReturnAgain(caller, callee) == caller

\* The caller goes on to its next dependency, with its own copy of resolving.
AfterReturn(caller, callee) == [caller EXCEPT !.pending = Tail(@)]

Return ==
  /\ returned' = returned \cup {Top.name}
  /\ IF Len(stack) = 1
       THEN stack' = <<>> /\ outcome' = [kind |-> "resolved", name |-> Top.name]
       ELSE /\ stack' = [k \in 1 .. Len(stack) - 1 |->
                           IF k = Len(stack) - 1 THEN AfterReturn(stack[k], Top) ELSE stack[k]]
            /\ UNCHANGED outcome

\* Variant: only a service that was never started is started.
RunningIfEverStarted(s) == s # Transient /\ status[s] # "REGISTERED"

Running(s) == s # Transient /\ status[s] = "RUNNING"

AllResolved == stack # <<>> /\ Top.pending = <<>>

AlreadyRunning ==
  /\ AllResolved
  /\ Running(Top.svc)
  /\ Return
  /\ UNCHANGED <<registry, status, declined>>

\* start() makes the service run, or leaves it in some other state; what it
\* answers is not looked at.
Start(to) ==
  /\ AllResolved
  /\ ~Running(Top.svc)
  /\ IF Top.svc = Transient
       THEN UNCHANGED <<status, declined>>
       ELSE /\ status' = [status EXCEPT ![Top.svc] = to]
            /\ declined' = IF to = "RUNNING" THEN declined \ {Top.svc}
                                             ELSE declined \cup {Top.svc}
  /\ Return
  /\ UNCHANGED registry

StartRaises ==
  /\ AllResolved
  /\ ~Running(Top.svc)
  /\ Raise("raised", stack[1].name)
  /\ UNCHANGED <<registry, status, returned, declined>>

-----------------------------------------------------------------------------

Administer ==
  \/ \E r \in Registrations : Register(r[1], r[2]) \/ Replace(r[1], r[2])
  \/ \E n \in FactoryNames : RegisterFactory(n)
  \/ \E n \in Names : Unregister(n)
  \/ \E stopped \in SUBSET Singletons : Clear(stopped)
  \/ \E s \in Instances : Fail(s)

ResolveAny == \E n \in Names : Resolve(n)

StartTop == \E to \in {"RUNNING", "FAILED"} : Start(to)

Container == Descend \/ FactoryRaises \/ AlreadyRunning \/ StartTop \/ StartRaises

Next == Administer \/ ResolveAny \/ Container

\* A resolution that has begun goes on; nobody has to ask for one.
Spec == Init /\ [][Next]_vars /\ WF_vars(Container)

-----------------------------------------------------------------------------
(* Properties. *)

Activations ==
  [name : Names, svc : Instances \cup {Transient}, pending : Seq(Names), resolving : SUBSET Names]

TypeOK ==
  /\ services \in [Names -> Instances \cup {NoInstance}]
  /\ factories \subseteq Names
  /\ status \in [Instances -> Lifecycle]
  /\ stack \in Seq(Activations)
  /\ outcome = None \/ outcome \in [kind : Kinds, name : Names]
  /\ returned \subseteq Names
  /\ declined \subseteq Instances

\* A name is in every set that contains each registered name whose dependencies
\* it contains: it can be reached from below, without a cycle and without an
\* unregistered name anywhere underneath.
Inductive(S) ==
  \A m \in Names : Registered(m) /\ Elements(DepsOf(m)) \subseteq S => m \in S

WellFounded(n) == \A S \in SUBSET Names : Inductive(S) => n \in S

\* The names on the stack differ, so that a resolution is never deeper than the
\* number of names, whatever the dependencies of the services are.
NoNameTwice ==
  \A j, k \in DOMAIN stack : stack[j].name = stack[k].name => j = k

\* A service is started only if all it depends on, directly or not, is
\* registered and free of cycles.
StartsOnlyWellFounded == AllResolved => WellFounded(Top.name)

\* A resolution reports a cycle or an unregistered service only if there is one
\* underneath the service asked for: two services that share a dependency are
\* not a cycle.
NoFalseAlarm == outcome.kind \in {"circular", "missing"} => ~WellFounded(outcome.name)

\* After a successful resolution the service and everything underneath is
\* registered and, if it is a singleton, running, unless its own start() left
\* it in another state or it failed since the resolution began: services stopped,
\* failed and replaced before are started again.
ResolvedIsReady ==
  outcome.kind = "resolved" =>
    /\ outcome.name \in returned
    /\ \A n \in returned :
         /\ Registered(n)
         /\ Elements(DepsOf(n)) \subseteq returned
         /\ services[n] # NoInstance => status[services[n]] = "RUNNING" \/ services[n] \in declined

\* Every resolution ends, with cyclic dependencies too.
ResolutionEnds == stack # <<>> ~> stack = <<>>

=============================================================================

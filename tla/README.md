# B.O.S. in TLA+

A verification project for B.O.S.: its own code (`src/backend`) and the Codex Python
SDK it carries along. TLA+ modules translated from the Python source, TLC
configurations that check them on small instances, and TLAPS proofs of what matters
most for every instance.
`PROJECT.json` maps each definition to the lines it models, and lists the
components, runs, mutants, hazards, findings and theorems.

    tlc -workers 2 -config MCPlanExecutor.cfg MCPlanExecutor.tla   # one run
    tlapm PlanExecutorProofs.tla                                   # one proof

## 1. The system

`src/backend` is a library of registries, engines and buses, about 9 000 lines
without asynchronous code. Almost all state is in class attributes, one per
process. There is one test file,
`backend/tests/test_bos_sprint12_capability_framework.py`.

`src/legacy` is archived and `src/LangGraph architecture` is carried along from other
projects. One part of the latter is worth a model of its own, because threads, a child
process and failures meet there: `openinterpreter/sdk/python/src/openai_codex` (below:
`sdk`), the client library of the Codex app-server. The app-server itself is not part
of it: the modules describe what a client can tell about it, and map it as external.

| Part | State | Operations | Works with | What is hard |
|---|---|---|---|---|
| Plan executor `runtime/plan_executor` | `ExecutorState`: status, index, step records, checkpoints, cancel flag | execute, resume, skip, rollback, cancel | calls the adapter router; asks for approval | cancellation from another thread without a lock, exceptions of adapters, rollback then go on |
| Service layer `core/services` | singletons, factories, lifecycle of each service | register, replace, unregister, clear, resolve | `ServiceDiscovery` is its front | cycles, shared dependencies, partial starts, stale lifecycles |
| Command bus and pipeline `core/execution` | commands, transactions | register, dispatch (six stages) | policy engine; event bus | re-entrant dispatch, exceptions between stages |
| Event bus `runtime/events` | subscriptions, history | subscribe, unsubscribe, publish, clear | every framework publishes on it | handlers that publish, subscribe, unsubscribe or raise |
| Policy engine `runtime/policy` | none | evaluate | pipeline, runtime engine | order of the policies, which answers stop what |
| Runtime engine `runtime/engine.py`, `state.py`, `graph.py` | workflow state, current node, checkpoints | execute, resume | planner, policy, context, plan execution | pause and resume, the same plan executed at several nodes |
| Provider framework `providers` | providers, enabled flags, lifecycle | load, register, enable, disable, replace, resolve | event bus | lifecycle reset by registration, fallback, priority order |
| Capability framework `capabilities` | capabilities, index by category, lifecycle | register, enable, disable, resolve, execute | policies, event bus | stale index, lifecycle against enabled flag |
| Module framework `modules` | modules, lifecycle | load, unload, enable, disable | fills the capability registry | failing half way |
| Configuration `config` | values, flags, secrets | register, resolve, override | environment | resolution order |
| Goals, workflow memory, context engine `runtime/*` | goal units; executed workflows and their index; recency cache | update, store, look up | runtime engine | status that follows from units, store against index, state that outlives a request |
| Adapters `adapters` | adapters by name | route, execute | plan executor, external services | exceptions |
| Graphs, intent, decision, reasoning | node and edge sets or none | add, traverse, score | engines | reachability |
| SDK client and message router `sdk/client.py`, `_message_router.py` | the process, reader threads, response waiters, a queue per turn and login, notifications that came too early | start, close, request, turn_start, login, streams | app-server over two pipes; approval handlers of the application | reader against register, unregister and `fail_all`; a reader that outlives `close`; crashes |
| SDK goal operations `sdk/_goal.py`, `client.py` | per operation: state, route, cursor; a thread-start lock per thread | start_goal_operation, cancel_goal_operation, turn_start, the stream | router, app-server that starts turns by itself | a route that must belong to one operation; pause against a turn that just started; late notifications |

What makes each part correct: the plan executor must account for every step it
passes, repeat no effect, honour a cancellation and an approval, and return; the
container must start services only on well-founded ground, report only real
cycles and leave what it resolved running; the buses must deliver each event once
and pair the events of every execution; the policy engine's answers must have the
effect their names promise; registries must keep indexes, flags and lifecycles in
agreement, and a resolver must give the best provider of the moment. The SDK's router
must answer each request once, deliver each notification once, and leave nobody blocked
on a transport that is gone; a goal operation must own its thread for as long as it
goes on and no longer, swallow no turn of others, look like one turn, and stop when it
is cancelled.

## 2. Modules

| Module | Models | Status |
|---|---|---|
| `PlanProgress` | what a plan execution promises, abstractly | done |
| `PlanExecutor`, `MCPlanExecutor` | `runtime/plan_executor` | done |
| `PlanExecutorProofs` | proofs about it | done |
| `ServiceContainer`, `MCServiceContainer` | `core/services` | done |
| `ServiceContainerProofs` | proofs about it | done |
| `Policy` | `PolicyEngineV2` | done |
| `CommandBus`, `MCCommandBus` | `core/execution` and `runtime/events`, EXTENDS `Policy` | done |
| `CommandBusProofs` | proofs about it | done |
| `CodexClient`, `MCCodexClient` | `sdk/client.py` and `_message_router.py`: the transport | done |
| `CodexClientProofs`, `CodexClientOrderProofs` | proofs about it | done |
| `GoalOperation`, `MCGoalOperation` | `sdk/_goal.py`, goal routes and the thread-start lock, over an atomic transport | done |
| `GoalOperationProofs`, `GoalOperationStreamProofs` | proofs about it | done |
| `CapabilityFramework`, `MCCapabilityFramework` | `capabilities` composed with `providers` | done |
| `CapabilityFrameworkProofs` | proofs about it | done |

### PlanExecutor

Two threads share an `ExecutorState` without a lock. The worker makes the calls of
a session one after the other; `pc` names the place in `executor.py` it has
reached. The canceller runs `request_cancel`; `cpc` is its place. A step of the
model is the code between two accesses to `cancel_requested` or `status`, the two
fields both threads touch, so TLC sees every interleaving that matters.

| Model | Code |
|---|---|
| `CallExecute`, `CallResume`, `CallApprove`, `CallSkip`, `CallRollback` | the entry points; `CallApprove` is `resume_execution` used as its comment says, on a plan that waits |
| `Entry`, `Start`, `LoopEnter`, `BreakCancelled`, `LoopExit`, `Final`, `Finish`, `Complete`, `Abort` | `execute_plan` from its first cancel check to its last |
| `RunAsk`, `Route`, `RouteRaises` | `StepRunner.run_step`: ask, adapter answers, adapter raises |
| `CheckWaiting`, `CheckSuccess`, `CheckFailure`, `RollbackLatest` | what `execute_plan` does with the result |
| `CancelFlag`, `CancelReadRunning`, `CancelReadWaiting`, `CancelWrite` | `request_cancel`, one access at a time |

The lists of step records are counts per step. `delivered`, `routed`, `late`,
`approved`, `rewinds` and `begun_cancelled` are history: the code has no such
fields. `skip_step` runs the rest of the plan with the default role, as the code
does. Adapters succeed, fail or raise at will. An `ExecutorState` lives in memory:
a crash of the process loses it, and there is nothing to recover.

`PlanProgress` is the abstract promise: a cursor, the steps settled, and an
admission that a cancellation closes. `PlanExecutor` implements it under
`cursor = current_step_index`, `settled = the steps accounted for`,
`admitted = the worker is between letting a step through and dealing with it`,
`cancelled = cancel_requested`.

### ServiceContainer

`services`, `factories` and `status` are the registry; `stack` holds the
activations of `resolve_with_dependencies`, each with the dependencies it still has
to resolve and its own copy of the set of names being resolved. `Descend` is the
recursive call with its two errors, `AlreadyRunning`, `Start` and `StartRaises` are
what follows the loop. The services themselves are abstract: a factory returns a new
object or raises (`FactoryRaises`), `start()` makes a service run, leaves it failed or
raises, and a running service may fail at any moment, in the middle of a resolution too
(`Fail`).
What depends on what is a constant. `outcome`, `returned` and `declined` are
history.

### CommandBus and Policy

Dispatch and publication are synchronous and re-entrant, so one `stack` holds the
pipelines and publications under way. User code is the handler of an event (top frame a
publication) and the `validate()` and `execute()` of a command (top frame a pipeline at
`"validate"` or `"execute"`): all of it may dispatch, register, subscribe, unsubscribe and
clear, and all may raise. `publish` turns a handler's exception into a result, stage four
one of `execute()` into a failure; one of `validate()` ends the execution without an end
event (`ValidateRaises`) and comes to the code that dispatched, which catches it and goes
on or raises in its turn. Lifecycle events all have the type `SYSTEM`, so a
subscription is to `"system"` or to `"*"`. `Evaluate` is the policy engine with its
five policies in order; texts, and therefore keywords, are abstracted to sets of
actions. Of a role its spelling counts, because one policy lower-cases it and another
does not. `received`, `answer` and `result` are history.

### CodexClient

The threads are the application's callers and one reader per app-server started. A step
of a thread is what it does between two points where another can interleave: a critical
section of the router's lock, a put, a get, a write. The router never puts under its
lock, and that gap, between the lookup of a queue and the put into it, is where the model
looks: `ReadLine` then `PutResponse` or `PutNotification`; `FailAll` then `Wake`;
`Register` then `Replay`.

| Model | Code |
|---|---|
| `Start`, `Close` | `start`, `close`; an async client starts again with its next call. `close` gives up on a reader after half a second, so a reader may outlive it |
| `CreateWaiter`, `WriteRequest`, `WriteFails`, `GetAnswer` | `_request_raw` |
| `RegisterTurn`, `RegisterLogin`, `Replay`, `WaitForLogin`, `LookUpLogin` | `register_turn` (in `turn_start`), `register_login`, `wait_for_login_completed` |
| `GetNotification`, `GetFailure`, `CloseStream` | the streams |
| `Check`, `ReadLine`, `HandlerReturns` | `_reader_loop` with `_read_message`, which looks the process up anew for each line, and `_handle_server_request` |
| `RouteResponse`, `RouteToQueue`, `RouteToPending`, `ForgetTurn`, `FailAll` | the router |
| `Respond`, `Notify`, `AskApproval`, `Crash` | external: the app-server |

A queue is identified by how often one was made for its stream (`made`), since a put may
reach a queue that has been replaced. Each caller makes one call of its kind; the queue
of notifications of no turn, `initialize` and the retry on overload are left out. A response is
a result, an error, or an error whose code `int()` does not take: the last one raises
between the pop of its waiter and the put (`Raises`), so that `fail_all` does not find
the waiter, and the answer stays in the reader's hand (`Orphaned`). A line
that cannot be parsed does what a handler that raises does. `received`, `late`,
`dropped` and `buffered` are history.

### GoalOperation

One conversation thread. The delivery of responses is what `CodexClient` models; here a
response is one step (`RouteAnswer`), while a notification is still looked up
(`LookUpGoal`), observed (`Observe`), put (`PutNotification`) and, when it ends the
operation, unregistered (`UnregisterFinished`) in four. The end of stdout, or a line that
raises, makes the reader clear the routes (`FailAll`), tell the operation it found there
(`FailGoal`) and put the failure (`PutFailure`). An observed message is the last of the
queue from the moment the state changes, but its consumer cannot take it before the put. The
caller's steps are the requests of `start_goal_operation` (`StartOfGoal`, `Reserve`,
`Cleared`, `GoalSet`, `TurnSeen`, with the refusals `GoalRefused` and `Rejected`) and
`cancel_goal_operation` (`StartFails` or `CancelStream`, `Paused`, `InterruptAgain`,
`Cancelled`), and those of `_GoalStreamCursor.process` (`Consume`). The thread-start lock is
modelled with its table: entries are counted and removed by the last user, so two callers
could hold two locks if the count were wrong. The lock is released (`Release`) before its
entry is left (`LeaveThread`). A cancellation tries a second turn only if the error says
"expected active turn id": one that names no turn may be of another kind, and then it gives
up. The external app-server (`AppServer`) answers in order, starts turns of an active goal
by itself, and may refuse requests, fail turns and crash.

### CapabilityFramework

Both registries are dicts in insertion order, so sequences. `ReconfigureProviders` and
`ReconfigureCapabilities` are every operation of the two registries and the policy
manager, callable at any moment: handlers of events and providers run in between, and
may execute capabilities too, so `stack` holds executions and replacements inside one
another. `Execute` and `ExecuteForAction` are the checks of `CapabilityResolver.execute`,
`CallProvider` the capability asking `ProviderResolver`. `replace_provider` disables its
target, whose event is published before the new provider is registered, so it is two
steps (`ReplaceProvider`, `RegisterReplacement`). A capability needs all the flags and
permissions its policies name and one of the tenants; flags and permissions are one set
of grants. States of a provider the resolver does not tell apart are one.

## 3. Runs

| Run | Question | Instance |
|---|---|---|
| `plan_executor` | records, effects, index, cancellation, return, refinement | 3 steps, two of them needing approval, one harmless; both roles; 3 calls |
| `owner_approval` | nothing unapproved runs in an owner's disciplined session | the same plan, 5 calls, owner only |
| `skip_loses_role` | the same with `skip_step`: violated | 3 calls |
| `cancelling_sticks` | a cancellation comes to an end: violated | 1 call |
| `raise_leaves_running` | nothing is left RUNNING: violated | 1 call |
| `service_container` | soundness of resolution | 3 names, 4 singletons and a factory: a diamond, a cycle of three, gaps |
| `command_bus` | delivery and pairing of events, nesting, return | 2 executions, 2 subscriptions, one protected command as "Owner" (allowed), "owner" (to be confirmed) and customer (denied) |
| `codex_client` | one answer, one delivery, order, waking on failure, return | a turn of one event and its completion, a login, a request; 2 app-servers, 1 approval |
| `codex_early_events` | early events are replayed: violated | the same |
| `codex_uncoded_error` | no request blocks for ever: violated | the same |
| `goal_operation` | lock, route, logical turn, cancellation | 2 goals, 2 turn starters, 2 turns; 4 points of calls and faults |
| `capability_framework` | agreement of registries, choice of provider | 3 providers, two of one name; 2 capabilities of one name; 1 grant, 1 tenant; 2 executions or replacements inside one another |

Bounds. Three steps are the least with one before, one at and one after a
checkpoint; three calls let an execution be cancelled, resumed and rolled back, five
let two approvals and a rollback meet. Three names give the diamond, the cycle
through all and a missing dependency below another; services are re-registered and
replaced without a bound. Two executions are one inside the other, from a handler
and from a command, or one after the other; with two subscriptions one handler acts
while the other still waits for the event. `MaxCalls`, `MaxExecutions` and the
number of subscription ids are bounds of the models, not of the code: the recursion
of handlers that dispatch on every event is unbounded in the code, so `AllReturn`
holds for a program that does not recurse for ever.

`CodexClient`: `MaxSessions`, `MaxApprovals` and `MaxCalls` are bounds of the model. Two
app-servers and one approval are what it takes for a reader held up by a handler to outlive
`close` and meet the next process; `MaxCalls`, 2 calls until the first is the last one
started and 1 until the second is, keeps a pair of callers in every combination.
`GoalOperation`: `MaxTurns` and `MaxEvents` are bounds of the model. In `MaxEvents` a goal
call and a fault count two and a `turn_start` one, so that the run has two goals, a goal and
two starters, or a goal and a fault in every order. Callers are symmetric and the module has
no liveness property, so `SYMMETRY` is sound. `CapabilityFramework`: two objects of one name
are what replacement needs, a third provider competes with them, and registrations go on
without a bound. `MaxDepth` bounds the stack: with two, each kind of frame stands on each.
`VIEW Observable` makes one of states that differ in the state or lifecycle of an object
that is not registered: nothing reads it, and registering the object sets it.

Every property of a passing run has a mutant in `PROJECT.json`: an operator named in
the module as a variant, which replaces a definition and breaks the property.

### Fairness

`PlanExecutor`: weak fairness of the worker and of the canceller once inside a call,
since a thread of the operating system goes on and an adapter returns or raises. No
fairness of the session, which need not call, nor of `CancelFlag`.
`ServiceContainer`: weak fairness of the container, whose code is sequential.
`CommandBus`: weak fairness of the buses; user code returns because the return of a
handler and of a command are among their steps.
`CodexClient`: weak fairness of every reader thread and of a caller once it has called;
of the app-server's answer to each request and of the notifications of a turn, as long
as it lives. None of the user who completes a login, of the application's calls, nor of
crashes. `CallsReturn` names who may wait for ever all the same: a caller that made its
queue after `fail_all`, one whose notifications the router dropped, one whose reader
went on to another app-server, and one whose own error, with a code that is no number,
ended the reader.
`GoalOperation` and `CapabilityFramework` state safety only.

### Violations

* `cancelling_sticks`: `request_cancel` writes `CANCELLING` over the final
  `CANCELLED` when the worker finishes between its read and its write; nothing
  changes the status afterwards.
* `raise_leaves_running`: an adapter that raises leaves the plan `RUNNING`, with no
  record and no rollback, against the documented rollback on a crash.
* `skip_loses_role`: `skip_step` continues as a customer, whom nobody asks for
  approval, against the documented block on steps that need it.
* `codex_early_events`: the completion of a turn that nobody has registered yet deletes
  the events buffered for it and is dropped itself, against the documented replay of
  early events. A turn that ends before its caller has looked at the response is lost,
  and its stream waits for ever.
* `codex_uncoded_error`: `route_response` pops the waiter before it reads the error
  (`_message_router.py:156`, `165`). A code that is null or no number raises there and ends
  the reader, and `fail_all` does not find the waiter: its caller blocks for ever, although
  the comment of `fail_all` says that no SDK call does.

Other places where code and documents part, seen while modelling and kept as exceptions
of a property or left out of the models:

* A queue registered after `fail_all` is never woken (`late` in `CodexClient`), although
  `_message_router.py:230` speaks of waking every blocked call.
* The pipeline stops a command on `DENY` only (`pipeline.py:47`): one the policy engine
  answers with `CONFIRM` is executed, although `LANGGRAPH_EQUIVALENCE_VALIDATION.md:42` says
  that execution is blocked until a confirmation. `permissions.py:20` lower-cases the role
  and `approval.py:25` does not, so an "Owner" is never asked to confirm at all.
* The except clause of `get_service` names `CircularDependencyError`, which `discovery.py`
  does not import: an error of a resolution comes out of it as a `NameError`.
* A turn of an earlier goal that ends late can end a newly started operation
  (`_goal.py:79-89`), and a cancelled operation that had already finished may interrupt
  the turn somebody else started since (`client.py:532-549`). Closing a stream leaves the
  goal active at the app-server.
* An entry of the category index outlives its capability (`capabilities/registry.py:87`);
  `RegistriesAgree` claims only the other direction.
* The fallback of `providers/resolver.py:45` is chosen at resolution, not on failure of
  the chosen one; `FAILURE_AND_RECOVERY_VALIDATION.md:54` promises failover. Lists of
  allowed and denied providers are set and never consulted.
* `runtime/engine.py` executes the plan at four nodes of a message's path.

## 4. Proofs

For every value of the constants that satisfies the modules' assumptions.

`PlanExecutorProofs`. An invariance proof per property, each on top of a common
`WorkerInv`: types, the index below the plan's length wherever a step is being run
(`AtAStep`), no `WAITING_APPROVAL` in the loop unless the step itself just asked
(`NotWaiting`), and the last checkpoint at the index where a step is run
(`LastIsCurrent`). None of the checked properties is inductive alone:

| Theorem | Property | Strengthening |
|---|---|---|
| `TypeCorrect` | `TypeOK` | `TypeInv` |
| `LateDispatch` | `LateDispatchBound` | `LateInv`: after a late call the worker is not about to make another |
| `CancelFreezes` | `CancelFreezesLedger` | `FrozenInv`: such a call never leaves the early returns |
| `CancelSettles` | `CancelLeavesNothingLive` | `SettlingInv`: who will still write the status, and from where |
| `ProgressKept` | `ProgressAccounted` | `ProgressInv`: every checkpoint too has all steps before it accounted for |
| `EffectsOnce` | `NoRepeatedEffect` | `OnceInv`: steps at or ahead of the index have run at most `rewinds` times |
| `WaitingPending` | `WaitingStepIsPending` | `PendingInv` |
| `NoLostEffect` | `EffectsRecorded` | inductive with `WorkerInv` |
| `OwnerGate` | `ApprovedBeforeRouted` | `GateInv`, for owner-only sessions without plain resume and skip |

The same module proves `RefinesProgress`: every step of the executor is a step of
`PlanProgress` or changes nothing it sees.

`ServiceContainerProofs`. One invariant, `IInv`: the stack is a path in the
dependency graph (`PathInv`); each activation has returned from every dependency
that is no longer pending (`FrameInv`); what has returned is well founded and ready
(`ReturnedInv`). `WellFounded(n)`, "n is in every set closed under the
dependency rule", replaces a recursive definition: a service whose dependencies
have returned is in every such set (`WellFoundedUp`), and the complement of a path
that bites its tail, or ends at an unregistered name, is such a set
(`NotWellFounded`), so that no alarm is false.

`CommandBusProofs`. One invariant, `IInv`, whose parts take the state as arguments, so
that a step that ends one frame of the stack and pushes another is two lemmas, one after
the other. None of the six properties is inductive, since each relates events that are
already published to frames that are still to come:

| Part | Says |
|---|---|
| `PathInv`, `OrderInv` | a publication stands on the pipeline whose start or end it is, a pipeline on code that dispatched it; ids and events grow along the stack |
| `HistoryInv`, `LedgerInv` | one start per execution and at most one end after it; how far an execution has got is told alike by its frame, its answer, its result and its events |
| `NestInv` | an execution started between the start and the end of another has its end before that end |
| `SubscriptionInv` | a subscription is in one list, once, so that a publication copies everybody once |
| `DeliveryInv` | whoever was in the audience has got the event or is still to be called by its publication |

`TypeCorrect`, `DeliveredOnceHolds`, `EventsPairedHolds`, `EventsTellTheResultHolds`,
`ExecutionsNestHolds` and `StartBeforeEndHolds` follow from it. The step that needs most
is the end of an execution (`PublishEnd`): that no other is under way above it comes from
the order of the stack, and that nobody can get the end before the start from the
pipeline being at "validate" as long as the start is being published (`StartNotEnded`).

`CapabilityFrameworkProofs`. `TypeCorrect` and `AgreementKept` (`RegistriesAgree`) from
`IInv`: `TypeOK`, the agreement of flags and lifecycles (`FlagInv`), and an index that
holds the name of every registered capability in its own category (`IndexInv`), whatever
is under way on the stack. The
lemmas are about the operators that stand for dictionaries: what `Put` and `Pop` keep,
and that both leave one value of each name.
`CalledIsBestHolds` (`CalledIsBest`) is an action property that needs only the types, and
what sorting does: `RankGrows` (of two candidates the one that goes before has fewer before
it) and `SortedByPriority` (so every candidate has a place of its own and every place a
candidate, by counting) give `FirstIsBest`: the first place that a test picks holds the best
of those it picks. `ResolveFindsBest` uses it for READY and then for live providers. The
model says "sorted" by counting who goes before, and "first" as the least place, because
the library's `SortSeq` and `SelectSeq` have no definition the prover can open.

`GoalOperationProofs`. Four invariants, one on top of the other:

| Theorem | Property | Strengthening |
|---|---|---|
| `OneStarterHolds` | `OneStarter` | `LockInv`: every user of the lock table uses the one entry that is there, the counter of the entry is their number, and who works in the critical section is its holder. A step of the whole model is a caller that comes, gets the lock, leaves or goes on (`Enters`, `Gets`, `Leaves`, `GoesOn`), or none of these |
| `TypeCorrect` | `TypeOK` | `TypeInv`: also the lines on the wire and in the queues, and that a turn to interrupt is one that was started |
| `RouteHolds` | `RouteFollowsOperation`, until the reader has cleared the routes | `RouteInv`: a state the reader is about to unregister is finished, so that it takes no route another operation needs |
| `TurnNotSwallowedHolds` | `TurnNotSwallowed` | `NoiseInv`: an answer to `thread/read` that finds the thread idle comes after the last line about a turn of `turn_start` (`QuietAfter`), and nobody can ask for one before the route is reserved because the lock is held |

`GoalOperationStreamProofs`. One invariant, `StreamInv`, on top of these four, about what
one consumer gets:

| Part | Says |
|---|---|
| `LabelInv` | a state, a cursor and what was yielded are new while the goal begins |
| `LineInv`, `CurrentInv` | after the start of a turn the next end on its way, in hand or on stdout, is that turn's own (`NextEnd`); the same of the turn a state takes for the current one |
| `OwnInv` | a goal has no turn of its own before turns are routed to it; after that a turn which ends is either foreign or was announced before its end (`Announced`) |
| `EndInv` | a state is finished exactly when the goal is over for it (`Over`), and then nothing more is routed to it; its consumer has not passed the end |
| `FaithInv` | a cursor that takes what is queued, notification by notification (`Path`), ends up agreeing with the reader's state, and starts with the same turn |
| `TurnInv` | what a consumer has got whose operation is over |

| Theorem | Property | Argument |
|---|---|---|
| `ConsumerNotStrandedHolds` | `ConsumerNotStranded` | with nothing queued the cursor and the state agree (`FaithInv`), and the cursor has not passed the end (`EndInv`), so the state is not finished |
| `OneLogicalTurnHolds` | `OneLogicalTurn` | `YieldedSoFar` in `EndInv` while the stream is read, `TurnInv` after it |

A step of the reader is one of `TakesLine`, `Drops`, `Observes`, `Puts`, `LetsGo`, `Quits`
and `Fails` (`ReaderSteps`), one of the app-server writes, goes on with, ends or starts a
turn, one of a caller stays, opens, takes a notification or stops; each part of the
invariant has a lemma for each of these. Without its second alternative `OneLogicalTurn` is
false with three goals: a turn of the first, still running when the second reserves the
route and interrupted late by the cancellation of the first, completes the second's stream
before any turn of its own was announced. The run's two goals, which let TLC finish, never
reach this; the proof found it, and TLC then confirmed it.

| Theorem | Property | Argument |
|---|---|---|
| `CancelStopsHolds` | `CancelStops` | a second invariant, `CancelInv`, on top of the five above |

| Part of `CancelInv` | Says |
|---|---|
| `AskInv` | until the transport is gone, a caller has at most one request on its way: the request, its answer on stdout, or the answer it has not looked at (`AnswersTo`) |
| `FaultInv` | the reader ends, and the app-server crashes, only by a fault, and an operation fails only with the reader |
| `StopInv` | once the pause is served the goal starts no more turns. A turn of the goal that is still running by then is known to the state when the answer to the pause is looked at, because its start came before that answer (`Heard`, `Reported`). An interrupt that comes too late is answered with the turn that does run (`Named`), and that is the one the second interrupt is for. So a turn still running is always one that the interrupt on its way, or the next one, is for (`StopsFor`) |

`CodexClientProofs`. Three invariants of any number of callers and of app-servers that are
started one after another, each with its own reader thread:

| Theorem | Property | Strengthening |
|---|---|---|
| `TypeCorrect` | `TypeOK` | `TypeInv`, one part each for server, readers, router and callers: also that a reader about to put holds a message, that one which has ended holds at most the error that ended it, that a reader has a snapshot only between the two halves of `fail_all`, and that a session not yet started has no reader. That a waiter belongs to a request on its way needs `OnceInv` |
| `AnsweredOnceHolds` | `AnsweredOnce` | `OnceInv`, with `SnapshotInv` (no reader is about to fail the request whose uncoded error it holds): the answer to a request is awaited by its waiter, in the hand or the snapshot of one reader (`Holds`), in its queue, or taken, and nowhere before the request is made |
| `FailAllWakesAllHolds` | `FailAllWakesAll`, which excepts the request whose uncoded error ended its reader (`Orphaned`) | `WakeInv`: an unanswered request has its waiter or a reader holds it (`Placed`), a waiter that is not late has a reader that will still fail it (`Wakeable`), and a stream that may be read has the failure in its queue, in a snapshot, or its own reader alive (`Told`) |

The three steps of a reader on which it all turns have lemmas of their own: no reader but one
in `fail_all` stops living (`ReadersLive`), no step of a reader loses an answer it was handed
(`AnswerHandedOn`), and a stream that is registered when `fail_all` takes its snapshot stays
in it until the failure is in its queue (`ToldByReader`); a stream that registers again
meanwhile has a new queue, and is late or has its own reader (`ToldByStream`).

`CodexClientOrderProofs`. What becomes of one notification:

| Theorem | Property | Strengthening |
|---|---|---|
| `NotificationsOnceHolds` | `NotificationsOnce` | `NotifiedInv`: what is on stdout was sent there, in order (`SentInv`); what a stream keeps was sent to it, and nothing is kept before its registration but in the pending list (`KeptInv`). `Copies` is a sum over six homes (`OneHome`, `CopiesSum`), and each step moves a notification from one home to the next, makes a first copy or drops the stream's (`Move`, `CopiesMove`) |
| `DirectInOrderHolds` | `DirectInOrder` | `OrderInv`: what is still to come is later than what is there - unread after everything (`UnreadLater`), in the reader's hand after what is given (`HandsLater`), the replay and the pending list in order (`RestInOrder`) - and only replayed numbers are replayed (`BufferedInv`) |

`DirectInOrder` has the premise `SoleReader`, which counts every reader that ever came as
far as the stream's app-server; a premise about fewer of them does not do with three
app-servers, one more than the run has, as the proof showed.

Only model-checked: liveness (`CallsReturn` of both modules, `ResolutionEnds`, `AllReturn`;
`CancellingEnds`, which a run finds violated) and the fairness part of the refinement, which
are out of the prover's reach. Every invariant and every action property of a passing run is
a theorem.

## 5. Not modelled, and the plan

Not modelled because there is no state, one operation at a time or only I/O: secrets,
configuration lookup, goals, workflow memory and context (appends and lookups in
straight-line code), decision, intent and reasoning engines, graphs, adapters behind
their router, templates, the module loader, service health, the architecture validator.
Service, provider and module events are published on the event bus but nothing in the
repository reacts to them, so the other modules leave them out. `ExecutionTransaction`
parents are not modelled: `dispatch` makes a fresh one unless its caller passes one on.
Of the rest of `src/LangGraph architecture`: `generated/v2_all.py` and the other
generated types have no behaviour; `scripts` and `.codex/skills` are tools of the
SDK's maintainers; `api.py` and `async_client.py` forward to the modelled client with
other types; `strategies` are prompts and calls of remote models.

The next stages, in order:

1. `RuntimeEngine`: the node loop, pause at policy, resume from the first node; how
   often the plan is executed. Composes `Policy`.
2. An abstract specification of a message router that delivers atomically, implemented by
   `CodexClient`, on which `GoalOperation` then rests formally.
3. The queue of notifications of no turn in `CodexClient`.

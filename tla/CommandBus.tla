----------------------------- MODULE CommandBus -----------------------------
(***************************************************************************)
(* backend/core/execution and backend/runtime/events: the command bus, its *)
(* pipeline, and the event bus it publishes lifecycle events on.           *)
(*                                                                         *)
(* Everything is synchronous and re-entrant: a command may dispatch while  *)
(* it executes, and so may the handler of an event while the event is      *)
(* being published.  The stack holds the pipelines and publications under  *)
(* way, innermost last; only the innermost one moves.                      *)
(***************************************************************************)
EXTENDS Policy, Naturals, Sequences

CONSTANTS
  Requests,        \* what may be dispatched: [action, params, role]
  Subscriptions,   \* subscription ids, each given out once
  TypeOf,          \* the type each of them subscribes to
  NoHandler,       \* a publication between two handlers
  MaxExecutions    \* bound on dispatches

ASSUME BusAssumption ==
  /\ Requests \subseteq [action : Actions, params : SUBSET Flags, role : Spellings]
  /\ NoHandler \notin Subscriptions
  /\ TypeOf \in [Subscriptions -> {"system", "*"}]
  /\ MaxExecutions \in Nat

VARIABLES
  commands,       \* the names of registered commands
  executions,     \* the requests dispatched so far, in order: none leaves _active_transactions
                  \* when it ends
  subscribers,    \* _subscribers: of the type "system", which is the type of all
                  \* lifecycle events, and of "*"
  stack,          \* pipelines and publications under way
  history,        \* _event_history; ghost field audience: the subscribers then
  issued,         \* subscription ids given out
  received,       \* history: for each subscription, positions in history, in order
  answer,         \* history: how each command's execute() ended, if it has
  result          \* history: how each dispatch ended, if it has

vars == <<commands, executions, subscribers, stack, history, issued, received, answer, result>>

Types == {"system", "*"}
Names == {"ExecutionStarted", "ExecutionCompleted", "ExecutionFailed"}
Ids == 1 .. Len(executions)

Elements(s) == {s[k] : k \in DOMAIN s}
Everybody == subscribers["system"] \o subscribers["*"]

Init ==
  /\ commands = {}
  /\ executions = <<>>
  /\ subscribers = [t \in Types |-> <<>>]
  /\ stack = <<>>
  /\ history = <<>>
  /\ issued = {}
  /\ received = [s \in Subscriptions |-> <<>>]
  /\ answer = <<>>
  /\ result = <<>>

-----------------------------------------------------------------------------
(* The stack. *)

Pipeline(id, stage) == [kind |-> "pipeline", id |-> id, stage |-> stage]
Publication(n, handlers) ==
  [kind |-> "publication", event |-> n, handlers |-> handlers, handler |-> NoHandler]

Top == stack[Len(stack)]
Below(s) == SubSeq(s, 1, Len(s) - 1)
WithTop(s, f) == Append(Below(s), f)

InPipeline(stage) == stack # <<>> /\ Top.kind = "pipeline" /\ Top.stage = stage
InHandler == stack # <<>> /\ Top.kind = "publication" /\ Top.handler # NoHandler
BetweenHandlers == stack # <<>> /\ Top.kind = "publication" /\ Top.handler = NoHandler

\* Code outside the two buses runs at the outset, in a handler, and in the validate() and
\* execute() of a command.
InUserCode == stack = <<>> \/ InHandler \/ InPipeline("validate") \/ InPipeline("execute")

-----------------------------------------------------------------------------
(* The event bus. *)

\* Variant: the position of the event before.
PublishOffByOne(s, name, id) ==
  /\ history' = Append(history, [name |-> name, id |-> id, audience |-> Elements(Everybody)])
  /\ stack' = Append(s, Publication(Len(history), Everybody))

\* RuntimeEventBus.publish up to its loop, called with s below it.
Publish(s, name, id) ==
  /\ history' = Append(history, [name |-> name, id |-> id, audience |-> Elements(Everybody)])
  /\ stack' = Append(s, Publication(Len(history) + 1, Everybody))

Subscribe(s) ==
  /\ InUserCode
  /\ s \notin issued
  /\ issued' = issued \cup {s}
  /\ subscribers' = [subscribers EXCEPT ![TypeOf[s]] = Append(@, s)]
  /\ UNCHANGED <<commands, executions, stack, history, received, answer, result>>

Without(q, s) ==
  LET i == CHOOSE k \in DOMAIN q : q[k] = s
  IN IF s \in Elements(q) THEN SubSeq(q, 1, i - 1) \o SubSeq(q, i + 1, Len(q)) ELSE q

Unsubscribe(s) ==
  /\ InUserCode
  /\ s \in Elements(Everybody)
  /\ subscribers' = [t \in Types |-> Without(subscribers[t], s)]
  /\ UNCHANGED <<commands, executions, stack, history, issued, received, answer, result>>

\* RuntimeEventBus.clear; history goes on here, as a record of what was published.
ClearSubscribers ==
  /\ InUserCode
  /\ subscribers' = [t \in Types |-> <<>>]
  /\ UNCHANGED <<commands, executions, stack, history, issued, received, answer, result>>

\* Variant: the loop runs over the live lists.
StillThere(s) == s \in Elements(Everybody)

\* The loop runs over a list of its own.
ToBeCalled(s) == TRUE

\* Variant: each handler runs under a lock that is not re-entrant.
DeliverUnderLock ==
  /\ BetweenHandlers
  /\ Top.handlers # <<>>
  /\ LET s == Head(Top.handlers) IN
     /\ \A k \in DOMAIN stack : stack[k].kind = "publication" => stack[k].handler # s
     /\ received' = [received EXCEPT ![s] = Append(@, Top.event)]
     /\ stack' = WithTop(stack, [Top EXCEPT !.handlers = Tail(@), !.handler = s])
  /\ UNCHANGED <<commands, executions, subscribers, history, issued, answer, result>>

\* Calls the next handler.
Deliver ==
  /\ BetweenHandlers
  /\ Top.handlers # <<>>
  /\ LET s == Head(Top.handlers) IN
     IF ToBeCalled(s)
       THEN /\ received' = [received EXCEPT ![s] = Append(@, Top.event)]
            /\ stack' = WithTop(stack, [Top EXCEPT !.handlers = Tail(@), !.handler = s])
       ELSE /\ stack' = WithTop(stack, [Top EXCEPT !.handlers = Tail(@)])
            /\ UNCHANGED received
  /\ UNCHANGED <<commands, executions, subscribers, history, issued, answer, result>>

\* A handler returns, or raises: publish makes a result of either and goes on.
HandlerReturns ==
  /\ InHandler
  /\ stack' = WithTop(stack, [Top EXCEPT !.handler = NoHandler])
  /\ UNCHANGED <<commands, executions, subscribers, history, issued, received, answer, result>>

PublishReturns ==
  /\ BetweenHandlers
  /\ Top.handlers = <<>>
  /\ stack' = Below(stack)
  /\ UNCHANGED <<commands, executions, subscribers, history, issued, received, answer, result>>

-----------------------------------------------------------------------------
(* Dispatch, and the six stages of the pipeline. *)

RegisterCommand(a) ==
  /\ InUserCode
  /\ a \notin commands
  /\ commands' = commands \cup {a}
  /\ UNCHANGED <<executions, subscribers, stack, history, issued, received, answer, result>>

\* Variant: the dispatch is queued until all that is under way has returned.
DispatchQueued(r) ==
  /\ InUserCode
  /\ Len(executions) < MaxExecutions
  /\ r.action \in commands
  /\ executions' = Append(executions, r)
  /\ answer' = Append(answer, "none")
  /\ result' = Append(result, "none")
  /\ LET id == Len(executions) + 1 IN
     /\ history' = Append(history, [name |-> "ExecutionStarted", id |-> id,
                                    audience |-> Elements(Everybody)])
     /\ stack' = <<Pipeline(id, "validate"), Publication(Len(history) + 1, Everybody)>> \o stack
  /\ UNCHANGED <<commands, subscribers, issued, received>>

\* Variant: the pipeline runs before the handlers of its start.
DispatchBeforeHandlers(r) ==
  /\ InUserCode
  /\ Len(executions) < MaxExecutions
  /\ r.action \in commands
  /\ executions' = Append(executions, r)
  /\ answer' = Append(answer, "none")
  /\ result' = Append(result, "none")
  /\ LET id == Len(executions) + 1 IN
     /\ history' = Append(history, [name |-> "ExecutionStarted", id |-> id,
                                    audience |-> Elements(Everybody)])
     /\ stack' = stack \o <<Publication(Len(history) + 1, Everybody), Pipeline(id, "validate")>>
  /\ UNCHANGED <<commands, subscribers, issued, received>>

\* A command that is not registered fails at once and leaves no trace.
Dispatch(r) ==
  /\ InUserCode
  /\ Len(executions) < MaxExecutions
  /\ r.action \in commands
  /\ executions' = Append(executions, r)
  /\ answer' = Append(answer, "none")
  /\ result' = Append(result, "none")
  /\ LET id == Len(executions) + 1 IN
     Publish(Append(stack, Pipeline(id, "validate")), "ExecutionStarted", id)
  /\ UNCHANGED <<commands, subscribers, issued, received>>

\* CommandBus.clear; a pipeline under way holds on to its command.
ClearCommands ==
  /\ InUserCode
  /\ commands' = {}
  /\ UNCHANGED <<executions, subscribers, stack, history, issued, received, answer, result>>

Goto(stage) == WithTop(stack, [Top EXCEPT !.stage = stage])

\* The stage ends the pipeline: the terminal event first, then the return.
End(name) == Publish(Goto("return"), name, Top.id)

\* Variant: a failed validation returns at once.
ValidateSilently(ok) ==
  /\ InPipeline("validate")
  /\ stack' = Goto(IF ok THEN "authorize" ELSE "return")
  /\ UNCHANGED <<commands, executions, subscribers, history, issued, received, answer, result>>

Validate(ok) ==
  /\ InPipeline("validate")
  /\ IF ok
       THEN stack' = Goto("authorize") /\ UNCHANGED history
       ELSE End("ExecutionFailed")
  /\ UNCHANGED <<commands, executions, subscribers, issued, received, answer, result>>

\* validate() is called outside the try of stage four, so its exception ends the execution
\* without an end event.  It comes to the code that dispatched, which may catch it and go on
\* or let it through, that is, raise in its turn.
ValidateRaises ==
  /\ InPipeline("validate")
  /\ result' = [result EXCEPT ![Top.id] = "raised"]
  /\ stack' = Below(stack)
  /\ UNCHANGED <<commands, executions, subscribers, history, issued, received, answer>>

Decision(id) == Evaluate(executions[id].action, executions[id].params, executions[id].role)

\* Variant: the first dispatch decides for the nested ones.
BlocksAsOuter(id) == Decision(1) = "DENY"

Blocks(id) == Decision(id) = "DENY"

Authorize ==
  /\ InPipeline("authorize")
  /\ IF Blocks(Top.id)
       THEN End("ExecutionFailed")
       ELSE stack' = Goto("execute") /\ UNCHANGED history
  /\ UNCHANGED <<commands, executions, subscribers, issued, received, answer, result>>

\* execute() ends by a result; stage five tells success from failure.
Execute(ok) ==
  /\ InPipeline("execute")
  /\ answer' = [answer EXCEPT ![Top.id] = IF ok THEN "success" ELSE "failure"]
  /\ End(IF ok THEN "ExecutionCompleted" ELSE "ExecutionFailed")
  /\ UNCHANGED <<commands, executions, subscribers, issued, received, result>>

\* Stage four catches what execute() raises.
ExecuteRaises ==
  /\ InPipeline("execute")
  /\ answer' = [answer EXCEPT ![Top.id] = "raised"]
  /\ End("ExecutionFailed")
  /\ UNCHANGED <<commands, executions, subscribers, issued, received, result>>

PipelineReturns ==
  /\ InPipeline("return")
  /\ result' = [result EXCEPT ![Top.id] = IF answer[Top.id] = "success" THEN "success" ELSE "failure"]
  /\ stack' = Below(stack)
  /\ UNCHANGED <<commands, executions, subscribers, history, issued, received, answer>>

-----------------------------------------------------------------------------

UserCode ==
  \/ \E r \in Requests : Dispatch(r)
  \/ \E s \in Subscriptions : Subscribe(s)
  \/ \E s \in Subscriptions : Unsubscribe(s)
  \/ \E a \in Actions : RegisterCommand(a)
  \/ ClearSubscribers \/ ClearCommands

EventBus == Deliver \/ HandlerReturns \/ PublishReturns

Stages ==
  \/ \E ok \in BOOLEAN : Validate(ok) \/ Execute(ok)
  \/ ValidateRaises \/ Authorize \/ ExecuteRaises \/ PipelineReturns

Next == UserCode \/ EventBus \/ Stages

\* The buses go on with what they have begun, and user code comes to its end.
Spec == Init /\ [][Next]_vars /\ WF_vars(EventBus \/ Stages)

-----------------------------------------------------------------------------
(* Properties. *)

Frames ==
  [kind : {"pipeline"}, id : Ids, stage : {"validate", "authorize", "execute", "return"}]
    \cup [kind : {"publication"}, event : DOMAIN history,
          handlers : Seq(Subscriptions), handler : Subscriptions \cup {NoHandler}]

TypeOK ==
  /\ commands \subseteq Actions
  /\ executions \in Seq(Requests)
  /\ Len(executions) <= MaxExecutions
  /\ subscribers \in [Types -> Seq(Subscriptions)]
  /\ history \in Seq([name : Names, id : Ids, audience : SUBSET Subscriptions])
  /\ stack \in Seq(Frames)
  /\ issued \subseteq Subscriptions
  /\ received \in [Subscriptions -> Seq(DOMAIN history)]
  /\ answer \in [Ids -> {"none", "success", "failure", "raised"}]
  /\ result \in [Ids -> {"none", "success", "failure", "raised"}]

BeingPublished(n) ==
  \E k \in DOMAIN stack : stack[k].kind = "publication" /\ stack[k].event = n

Times(s, n) == {k \in DOMAIN received[s] : received[s][k] = n}

\* Whoever was subscribed when an event was published gets it exactly once and
\* nobody else does, whatever the handlers raise, subscribe, unsubscribe or
\* dispatch meanwhile.
DeliveredOnce ==
  \A s \in Subscriptions, n \in DOMAIN history :
    /\ s \notin history[n].audience => Times(s, n) = {}
    /\ \A j, k \in Times(s, n) : j = k
    /\ s \in history[n].audience /\ ~BeingPublished(n) => Times(s, n) # {}

Events(id, names) == {n \in DOMAIN history : history[n].id = id /\ history[n].name \in names}
Terminal == {"ExecutionCompleted", "ExecutionFailed"}

\* An execution publishes one start; once it has returned it has published one
\* terminal event, later, and one that has raised in validate() none.
EventsPaired ==
  \A id \in Ids :
    \E n \in Events(id, {"ExecutionStarted"}) :
      /\ Events(id, {"ExecutionStarted"}) = {n}
      /\ result[id] \in {"success", "failure"} =>
           \E m \in Events(id, Terminal) : m > n /\ Events(id, Terminal) = {m}
      /\ result[id] = "raised" => Events(id, Terminal) = {}

\* The events of an execution tell what its caller is told: it has completed only
\* if its own request was not denied and its own execute() succeeded, whatever
\* was dispatched in between, and failed otherwise.
EventsTellTheResult ==
  \A id \in Ids :
    /\ Events(id, {"ExecutionCompleted"}) # {} =>
         /\ answer[id] = "success" /\ result[id] \in {"none", "success"}
         /\ Decision(id) # "DENY"
    /\ Events(id, {"ExecutionFailed"}) # {} =>
         answer[id] # "success" /\ result[id] \in {"none", "failure"}
    /\ Decision(id) = "DENY" => answer[id] = "none"

\* Executions nest: one that starts between the start and the end of another has
\* ended before the other ends.
ExecutionsNest ==
  \A i, j \in Ids :
    \A s \in Events(i, {"ExecutionStarted"}), t \in Events(j, {"ExecutionStarted"}),
       e \in Events(i, Terminal) :
      s < t /\ t < e =>
        /\ result[j] # "none"
        /\ \A f \in Events(j, Terminal) : f < e

\* A subscriber that gets the start and the end of an execution gets them in this
\* order, though a nested execution's events may reach it before the outer one's.
StartBeforeEnd ==
  \A s \in Subscriptions, id \in Ids :
    \A m \in Events(id, {"ExecutionStarted"}), n \in Events(id, Terminal) :
      \A j \in Times(s, m), k \in Times(s, n) : j < k

\* Every dispatch returns to the code outside: nothing is left under way.
AllReturn == stack # <<>> ~> stack = <<>>

=============================================================================

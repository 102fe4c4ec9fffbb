---------------------------- MODULE GoalOperation ----------------------------
(***************************************************************************)
(* openai_codex/_goal.py with the goal routes of _message_router.py and    *)
(* start_goal_operation, cancel_goal_operation and turn_start of client.py *)
(* on one conversation thread: a goal runs as a chain of physical turns    *)
(* the app-server starts by itself and is shown to its caller as one       *)
(* logical turn.                                                           *)
(*                                                                         *)
(* The delivery of responses is that of CodexClient and is one step here.  *)
(***************************************************************************)
EXTENDS Naturals, Sequences, FiniteSets

CONSTANTS
  Goals,      \* callers of start_goal_operation; also names their _GoalOperationState
  Starters,   \* callers of turn_start
  Nobody,     \* no caller
  MaxTurns,   \* bound on the turns of the thread
  MaxEvents   \* bound on the calls and the faults: failed turns, refused requests, a crash

Callers == Goals \cup Starters
Turns == 1 .. MaxTurns

ASSUME GoalAssumption ==
  /\ Goals \cap Starters = {} /\ Nobody \notin Callers /\ IsFiniteSet(Callers)
  /\ MaxTurns \in Nat /\ MaxEvents \in Nat

VARIABLES
  goal,       \* app-server: status of the thread's stored goal
  owner,      \* app-server: the caller who set it
  running,    \* app-server: the turn under way, or 0
  startedBy,  \* app-server: the caller each turn so far was started for
  asked,      \* callers whose request the app-server has not answered
  crashed,    \* the app-server is gone
  faults,     \* what went wrong so far
  wire,       \* its stdout, not yet read
  hand,       \* notification in the reader's hand with the state it looked up, and how far it got
  failed,     \* the reader has run fail_all and exited
  answer,     \* the answer each caller has not yet looked at
  route,      \* _goal_operations of this thread
  state,      \* _GoalOperationState of each goal, its _notifications in "queue"
  cursor,     \* _GoalStreamCursor of each goal
  entry,      \* the thread's entry in _thread_start_locks, or 0: entries are numbered
  users,      \* users of each entry
  holder,     \* who holds the lock of each entry
  mine,       \* the entry each caller uses, or 0
  pc,
  target,     \* the turn a goal caller is interrupting
  yielded,    \* history: what each logical stream gave its consumer
  swallowed   \* history: turns a goal state has observed

server == <<goal, owner, running, startedBy, asked, crashed, faults>>
reader == <<hand, failed>>
locks == <<entry, users, holder, mine>>
clients == <<pc, target, yielded>>
vars == <<server, wire, reader, answer, route, state, cursor, locks, clients, swallowed>>

Entries == 0 .. Cardinality(Callers)

Called(group) == Cardinality({c \in group : pc[c] /= "idle"})

\* A goal and a fault count as two turns do.
Events == 2 * faults + 2 * Called(Goals) + Called(Starters)

NewState ==
  [current |-> 0, status |-> "none", started |-> 0, completed |-> 0, cleared |-> FALSE,
   finished |-> FALSE, routing |-> FALSE, failure |-> FALSE, queue |-> <<>>]

NewCursor ==
  [started |-> 0, last |-> 0, status |-> "none", active |-> FALSE, cleared |-> FALSE]

Terminal(status) == status \in {"paused", "complete"}

Init ==
  /\ goal \in {"none", "active"}     \* an earlier operation may have left one
  /\ owner = Nobody /\ running = 0 /\ startedBy = <<>>
  /\ asked = {} /\ crashed = FALSE /\ faults = 0 /\ wire = <<>>
  /\ hand = <<>> /\ failed = FALSE
  /\ answer = [c \in Callers |-> <<>>]
  /\ route = Nobody
  /\ state = [g \in Goals |-> NewState]
  /\ cursor = [g \in Goals |-> NewCursor]
  /\ entry = 0
  /\ users = [e \in Entries |-> 0]
  /\ holder = [e \in Entries |-> Nobody]
  /\ mine = [c \in Callers |-> 0]
  /\ pc = [c \in Callers |-> "idle"]
  /\ target = [g \in Goals |-> 0]
  /\ yielded = [g \in Goals |-> <<>>]
  /\ swallowed = {}

-----------------------------------------------------------------------------
(* The app-server.  It answers a request after the notifications it causes. *)

Started(n) == [kind |-> "started", n |-> n]
Ended(n, status) == [kind |-> "completed", n |-> n, status |-> status]
Goal(status) == [kind |-> "goal", status |-> status]
Answer(c, what, n) == [kind |-> "answer", of |-> c, what |-> what, n |-> n]

Say(lines) == wire' = wire \o lines

Reply(c, at) ==
  /\ c \in asked /\ pc[c] = at /\ ~crashed
  /\ asked' = asked \ {c}
  /\ UNCHANGED <<crashed, reader, answer, route, state, cursor, locks, clients, swallowed>>

ServeRead(c) ==
  /\ Reply(c, "read")
  /\ Say(<<Answer(c, IF running = 0 THEN "ok" ELSE "busy", 0)>>)
  /\ UNCHANGED <<goal, owner, running, startedBy, faults>>

\* thread/goal/clear leaves a turn that runs alone.
ServeClear(c) ==
  /\ Reply(c, "clear")
  /\ goal' = "none" /\ owner' = Nobody
  /\ Say((IF goal = "none" THEN <<>> ELSE <<Goal("cleared")>>) \o <<Answer(c, "ok", 0)>>)
  /\ UNCHANGED <<running, startedBy, faults>>

ServeSet(c) ==
  /\ Reply(c, "set")
  /\ goal' = "active" /\ owner' = c
  /\ Say(<<Goal("active"), Answer(c, "ok", 0)>>)
  /\ UNCHANGED <<running, startedBy, faults>>

ServePause(c) ==
  /\ Reply(c, "pause")
  /\ goal' = IF goal = "active" THEN "paused" ELSE goal
  /\ Say((IF goal = "active" THEN <<Goal("paused")>> ELSE <<>>) \o <<Answer(c, "ok", 0)>>)
  /\ UNCHANGED <<owner, running, startedBy, faults>>

\* An error names the turn that runs instead.
ServeInterrupt(c) ==
  /\ Reply(c, "interrupt") \/ Reply(c, "interrupt again")
  /\ IF running = target[c]
     THEN running' = 0 /\ Say(<<Ended(running, "interrupted"), Answer(c, "ok", 0)>>)
     ELSE running' = running /\ Say(<<Answer(c, "invalid", running)>>)
  /\ UNCHANGED <<goal, owner, startedBy, faults>>

ServeTurn(c) ==
  /\ Reply(c, "turn")
  /\ IF running = 0 /\ Len(startedBy) < MaxTurns
     THEN /\ running' = Len(startedBy) + 1
          /\ startedBy' = Append(startedBy, c)
          /\ Say(<<Answer(c, "ok", 0), Started(Len(startedBy) + 1)>>)
     ELSE /\ Say(<<Answer(c, "invalid", 0)>>)
          /\ UNCHANGED <<running, startedBy>>
  /\ UNCHANGED <<goal, owner, faults>>

Fault == Events + 2 <= MaxEvents /\ faults' = faults + 1

\* A request the app-server refuses, or fails to serve.
Refuse(c, what) ==
  /\ Reply(c, pc[c]) /\ Fault
  /\ Say(<<Answer(c, what, 0)>>)
  /\ UNCHANGED <<goal, owner, running, startedBy>>

Quietly == UNCHANGED <<asked, reader, answer, route, state, cursor, locks, clients, swallowed>>

\* An active goal starts turn after turn.
StartTurn ==
  /\ goal = "active" /\ running = 0 /\ Len(startedBy) < MaxTurns /\ ~crashed
  /\ running' = Len(startedBy) + 1
  /\ startedBy' = Append(startedBy, owner)
  /\ Say(<<Started(Len(startedBy) + 1)>>)
  /\ Quietly /\ UNCHANGED <<goal, owner, crashed, faults>>

EndTurn(status) ==
  /\ running /= 0 /\ ~crashed
  /\ running' = 0
  /\ IF status = "failed" THEN Fault ELSE UNCHANGED faults
  /\ Say(<<Ended(running, status)>>)
  /\ Quietly /\ UNCHANGED <<goal, owner, startedBy, crashed>>

EndGoal ==
  /\ goal = "active" /\ ~crashed
  /\ goal' = "complete"
  /\ Say(<<Goal("complete")>>)
  /\ Quietly /\ UNCHANGED <<owner, running, startedBy, crashed, faults>>

Crash ==
  /\ ~crashed /\ crashed' = TRUE /\ Fault
  /\ Quietly /\ UNCHANGED <<goal, owner, running, startedBy, wire>>

-----------------------------------------------------------------------------
(* The reader: route_notification, _GoalOperationState.observe, fail_all. *)

RouteAnswer ==
  /\ ~failed /\ hand = <<>> /\ wire /= <<>> /\ Head(wire).kind = "answer"
  /\ wire' = Tail(wire)
  /\ answer' = [answer EXCEPT ![Head(wire).of] = <<Head(wire)>>]
  /\ UNCHANGED <<server, reader, route, state, cursor, locks, clients, swallowed>>

\* With no goal registered the notification goes to the queue of its turn.
LookUpGoal ==
  /\ ~failed /\ hand = <<>> /\ wire /= <<>> /\ Head(wire).kind /= "answer"
  /\ wire' = Tail(wire)
  /\ hand' = IF route = Nobody THEN <<>> ELSE <<[at |-> "observe", to |-> route, msg |-> Head(wire)]>>
  /\ UNCHANGED <<server, failed, answer, route, state, cursor, locks, clients, swallowed>>

\* What a notification changes in the state; whether it ends the goal comes after.
Told(st, msg) ==
  CASE msg.kind = "started" ->
         [st EXCEPT !.current = msg.n, !.started = IF @ = 0 THEN msg.n ELSE @]
    [] msg.kind = "completed" ->
         [st EXCEPT !.completed = msg.n, !.current = IF @ = msg.n THEN 0 ELSE @]
    [] msg.kind = "goal" /\ msg.status = "cleared" -> [st EXCEPT !.cleared = TRUE]
    [] msg.kind = "goal" /\ msg.status /= "cleared" ->
         [st EXCEPT !.status = msg.status, !.cleared = @ /\ msg.status /= "active"]

\* Variant: a turn under way does not keep the goal going.
OverEarly(st) == st.completed /= 0 /\ (st.cleared \/ Terminal(st.status))

Over(st) == st.current = 0 /\ st.completed /= 0 /\ (st.cleared \/ Terminal(st.status))

\* The state changes first; what the reader is about to put is the last of the queue already,
\* and the consumer cannot have it yet.
Observe ==
  /\ hand /= <<>> /\ hand[1].at = "observe"
  /\ LET msg == hand[1].msg
         g == hand[1].to
         told == Told(state[g], msg)
     IN IF ~state[g].routing /\ msg.kind /= "goal"
        THEN hand' = <<>> /\ UNCHANGED <<state, swallowed>>
        ELSE /\ state' = [state EXCEPT ![g] = [told EXCEPT !.finished = @ \/ Over(told),
                                                         !.queue = Append(@, msg)]]
             /\ swallowed' = IF msg.kind = "goal" THEN swallowed ELSE swallowed \cup {msg.n}
             /\ hand' = <<[hand[1] EXCEPT !.at = "put"]>>
  /\ UNCHANGED <<server, wire, failed, answer, route, cursor, locks, clients>>

Putting(g) == hand /= <<>> /\ hand[1].at \in {"put", "put failure"} /\ hand[1].to = g

\* It has put the notification, and asks whether the goal has ended.
PutNotification ==
  /\ hand /= <<>> /\ hand[1].at = "put"
  /\ hand' = IF state[hand[1].to].finished THEN <<[hand[1] EXCEPT !.at = "unregister"]>> ELSE <<>>
  /\ UNCHANGED <<server, wire, failed, answer, route, state, cursor, locks, clients, swallowed>>

\* Variant: whoever has the route loses it.
UnregisterAny(g) == route' = Nobody

\* unregister_goal leaves a route that is no longer this state's alone.
Unregister(g) == route' = IF route = g THEN Nobody ELSE route

UnregisterFinished ==
  /\ hand /= <<>> /\ hand[1].at = "unregister"
  /\ Unregister(hand[1].to)
  /\ hand' = <<>>
  /\ UNCHANGED <<server, wire, failed, answer, state, cursor, locks, clients, swallowed>>

\* The end of stdout, or something on it that raises, ends the reader: it clears the routes ...
FailAll ==
  /\ ~failed /\ hand = <<>>
  /\ IF crashed /\ wire = <<>> THEN UNCHANGED faults ELSE Fault
  /\ failed' = TRUE
  /\ route' = Nobody
  /\ hand' = IF route = Nobody THEN <<>> ELSE <<[at |-> "fail", to |-> route]>>
  /\ UNCHANGED <<goal, owner, running, startedBy, asked, crashed, wire, answer, state, cursor, locks,
                 clients, swallowed>>

\* ... tells the operation it found there, and puts the failure.
FailGoal ==
  /\ hand /= <<>> /\ hand[1].at = "fail"
  /\ LET g == hand[1].to IN
       state' = [state EXCEPT ![g].failure = TRUE, ![g].queue = Append(@, [kind |-> "failure"])]
  /\ hand' = <<[hand[1] EXCEPT !.at = "put failure"]>>
  /\ UNCHANGED <<server, wire, failed, answer, route, cursor, locks, clients, swallowed>>

PutFailure ==
  /\ hand /= <<>> /\ hand[1].at = "put failure"
  /\ hand' = <<>>
  /\ UNCHANGED <<server, wire, failed, answer, route, state, cursor, locks, clients, swallowed>>

-----------------------------------------------------------------------------
(* The thread-start lock, and requests. *)

Goto(c, l) == pc' = [pc EXCEPT ![c] = l]

Send(c, l) ==
  /\ Goto(c, l)
  /\ asked' = asked \cup {c}
  /\ answer' = [answer EXCEPT ![c] = <<>>]
  /\ UNCHANGED <<goal, owner, running, startedBy, crashed, faults>>

NoRequest == UNCHANGED <<server, answer>>

Waiting == {"turn", "read", "clear", "set", "pause", "interrupt", "interrupt again"}

\* A request of a client without a transport raises, written or not, answered or not.
TransportError(c) ==
  /\ failed /\ pc[c] \in Waiting /\ answer[c] = <<>>
  /\ asked' = asked \ {c}
  /\ answer' = [answer EXCEPT ![c] = <<Answer(c, "exception", 0)>>]
  /\ UNCHANGED <<goal, owner, running, startedBy, crashed, faults, wire, reader, route, state, cursor, locks,
                 clients, swallowed>>

Answered(c, at) == pc[c] = at /\ answer[c] /= <<>>
What(c) == answer[c][1].what

NewEntry == CHOOSE e \in Entries \ {0} : users[e] = 0 /\ \A c \in Callers : mine[c] /= e

EnterThread(c) ==
  /\ pc[c] = "idle" /\ Events + (IF c \in Goals THEN 2 ELSE 1) <= MaxEvents
  /\ LET e == IF entry = 0 THEN NewEntry ELSE entry IN
     /\ entry' = e
     /\ users' = [users EXCEPT ![e] = @ + 1]
     /\ mine' = [mine EXCEPT ![c] = e]
  /\ Goto(c, "acquire")
  /\ UNCHANGED <<server, wire, reader, answer, route, state, cursor, holder, target, yielded, swallowed>>

Acquired(c) ==
  /\ pc[c] = "acquire" /\ holder[mine[c]] = Nobody
  /\ holder' = [holder EXCEPT ![mine[c]] = c]
  /\ UNCHANGED <<entry, users, mine>>

\* Who has the lock.
Critical(c) ==
  /\ pc[c] \in {"turn", "read", "clear", "set", "wait for start", "pause", "interrupt", "interrupt again"}
  /\ mine[c] /= 0

\* The lock goes before the use of its entry.
Release(c) ==
  /\ holder' = [holder EXCEPT ![mine[c]] = Nobody]
  /\ UNCHANGED <<entry, users, mine>>

Leaves(c) ==
  /\ mine[c] /= 0 /\ pc[c] /= "acquire" /\ ~Critical(c)
  /\ users' = [users EXCEPT ![mine[c]] = @ - 1]
  /\ mine' = [mine EXCEPT ![c] = 0]
  /\ UNCHANGED <<server, wire, reader, answer, route, state, cursor, holder, clients, swallowed>>

\* Variant: the entry goes with its first user.
LeaveThreadPopping(c) == Leaves(c) /\ entry' = 0

\* Variant: the entry stays.
LeaveThreadKeeping(c) == Leaves(c) /\ entry' = entry

\* The entry goes with its last user.
LeaveThread(c) == Leaves(c) /\ entry' = IF users[mine[c]] = 1 THEN 0 ELSE entry

-----------------------------------------------------------------------------
(* turn_start. *)

\* Variant: nobody asks whether a goal owns the thread.
StartOfTurnAnyway(c) ==
  /\ c \in Starters /\ Acquired(c)
  /\ Send(c, "turn")
  /\ UNCHANGED <<wire, reader, route, state, cursor, target, yielded, swallowed>>

StartOfTurn(c) ==
  /\ c \in Starters /\ Acquired(c) /\ route = Nobody
  /\ Send(c, "turn")
  /\ UNCHANGED <<wire, reader, route, state, cursor, target, yielded, swallowed>>

\* A goal owns the thread.
TurnRefused(c) ==
  /\ c \in Starters /\ pc[c] = "acquire" /\ holder[mine[c]] = Nobody /\ route /= Nobody
  /\ Release(c) /\ Goto(c, "raised")
  /\ NoRequest
  /\ UNCHANGED <<wire, reader, route, state, cursor, target, yielded, swallowed>>

AfterTurn(c) ==
  /\ Answered(c, "turn")
  /\ Release(c) /\ Goto(c, IF What(c) = "ok" THEN "started" ELSE "raised")
  /\ NoRequest
  /\ UNCHANGED <<wire, reader, route, state, cursor, target, yielded, swallowed>>

-----------------------------------------------------------------------------
(* start_goal_operation. *)

StartOfGoal(g) ==
  /\ g \in Goals /\ Acquired(g)
  /\ Send(g, "read")
  /\ UNCHANGED <<wire, reader, route, state, cursor, target, yielded, swallowed>>

Reserve(g) ==
  /\ Answered(g, "read") /\ What(g) = "ok" /\ route = Nobody
  /\ route' = g
  /\ Send(g, "clear")
  /\ UNCHANGED <<wire, reader, state, cursor, locks, target, yielded, swallowed>>

\* The thread is not idle, or already has a goal operation.
GoalRefused(g) ==
  /\ Answered(g, "read") /\ (What(g) /= "ok" \/ route /= Nobody)
  /\ Release(g) /\ Goto(g, "raised")
  /\ NoRequest
  /\ UNCHANGED <<wire, reader, route, state, cursor, target, yielded, swallowed>>

Cleared(g) ==
  /\ Answered(g, "clear") /\ What(g) = "ok"
  /\ state' = [state EXCEPT ![g].routing = TRUE]
  /\ Send(g, "set")
  /\ UNCHANGED <<wire, reader, route, cursor, locks, target, yielded, swallowed>>

GoalSet(g) ==
  /\ Answered(g, "set") /\ What(g) = "ok"
  /\ Goto(g, "wait for start")
  /\ NoRequest
  /\ UNCHANGED <<wire, reader, route, state, cursor, locks, target, yielded, swallowed>>

TurnSeen(g) ==
  /\ pc[g] = "wait for start" /\ state[g].started /= 0
  /\ Release(g) /\ Goto(g, "streaming")
  /\ NoRequest
  /\ UNCHANGED <<wire, reader, route, state, cursor, target, yielded, swallowed>>

\* finish and unregister, with or without the thread-start lock.
Finish(g, l) ==
  /\ state' = [state EXCEPT ![g].finished = TRUE, ![g].current = 0]
  /\ Unregister(g)
  /\ Goto(g, l)
  /\ IF mine[g] = 0 THEN UNCHANGED locks ELSE Release(g)

\* The app-server refused the goal: there is nothing to cancel.
Rejected(g) ==
  /\ \/ Answered(g, "clear") \/ Answered(g, "set")
  /\ What(g) = "invalid"
  /\ Finish(g, "raised")
  /\ NoRequest
  /\ UNCHANGED <<wire, reader, cursor, target, yielded, swallowed>>

\* Any other error, and 30 seconds without a turn: cancel_goal_operation pauses first.
StartFails(g) ==
  /\ \/ /\ Answered(g, "clear") \/ Answered(g, "set")
        /\ What(g) \in {"error", "exception"}
     \/ pc[g] = "wait for start" /\ state[g].started = 0
  /\ Send(g, "pause")
  /\ UNCHANGED <<wire, reader, route, state, cursor, locks, target, yielded, swallowed>>

\* Variant: without a current turn there is nothing to interrupt.
TurnForInterruptCurrent(st) == st.current

\* turn_for_interrupt: a stale turn will do, the error names the right one.
TurnForInterrupt(st) ==
  IF st.current /= 0 THEN st.current ELSE IF st.completed /= 0 THEN st.completed ELSE st.started

Paused(g) ==
  /\ Answered(g, "pause") /\ TurnForInterrupt(state[g]) /= 0
  /\ target' = [target EXCEPT ![g] = TurnForInterrupt(state[g])]
  /\ Send(g, "interrupt")
  /\ UNCHANGED <<wire, reader, route, state, cursor, locks, yielded, swallowed>>

\* The turn to try next, or 0.
NextTurn(g) ==
  IF What(g) /= "invalid" THEN 0
  ELSE IF answer[g][1].n /= 0 THEN answer[g][1].n ELSE state[g].current

InterruptAgain(g) ==
  /\ Answered(g, "interrupt") /\ NextTurn(g) \notin {0, target[g]}
  /\ target' = [target EXCEPT ![g] = NextTurn(g)]
  /\ Send(g, "interrupt again")
  /\ UNCHANGED <<wire, reader, route, state, cursor, locks, yielded, swallowed>>

Cancelled(g) ==
  /\ \/ Answered(g, "pause") /\ TurnForInterrupt(state[g]) = 0
     \/ Answered(g, "interrupt") /\ NextTurn(g) \in {0, target[g]}
     \/ Answered(g, "interrupt") /\ answer[g][1].n = 0   \* not an "expected active turn id"
     \/ Answered(g, "interrupt again")
  /\ Finish(g, "cancelled")
  /\ NoRequest
  /\ UNCHANGED <<wire, reader, cursor, target, yielded, swallowed>>

-----------------------------------------------------------------------------
(* The logical stream: _GoalStreamCursor.process and _GoalNotificationStream. *)

Msg(g) == Head(state[g].queue)

\* start_goal_operation has returned.
Streaming(g) == pc[g] = "streaming" /\ mine[g] = 0

Took(g, kind) ==
  /\ Streaming(g) /\ state[g].queue /= <<>> /\ (Putting(g) => Len(state[g].queue) > 1)
  /\ Msg(g).kind = kind
  /\ UNCHANGED <<server, wire, reader, answer, target, swallowed>>

Dequeued(g) == state' = [state EXCEPT ![g].queue = Tail(@)]
Yield(g, what, n) == yielded' = [yielded EXCEPT ![g] = Append(@, <<what, n>>)]

\* The stream is over: finish, unregister, closed.
EndStream(g, l) ==
  /\ state' = [state EXCEPT ![g].finished = TRUE, ![g].current = 0, ![g].queue = Tail(@)]
  /\ Unregister(g)
  /\ Goto(g, l)
  /\ UNCHANGED locks

GoalOver(cur) == cur.cleared \/ Terminal(cur.status)

\* Variant: every physical turn is announced.
TakeStartedEach(g) ==
  /\ Took(g, "started")
  /\ cursor' = [cursor EXCEPT ![g].active = TRUE, ![g].started = IF @ = 0 THEN Msg(g).n ELSE @]
  /\ Yield(g, "started", Msg(g).n)
  /\ Dequeued(g)
  /\ UNCHANGED <<route, pc, locks>>

TakeStarted(g) ==
  /\ Took(g, "started")
  /\ cursor' = [cursor EXCEPT ![g].active = TRUE, ![g].started = IF @ = 0 THEN Msg(g).n ELSE @]
  /\ IF cursor[g].started = 0 THEN Yield(g, "started", Msg(g).n) ELSE UNCHANGED yielded
  /\ Dequeued(g)
  /\ UNCHANGED <<route, pc, locks>>

TakeCompleted(g) ==
  /\ Took(g, "completed")
  /\ cursor' = [cursor EXCEPT ![g].active = FALSE, ![g].last = Msg(g).n]
  /\ IF Msg(g).status = "interrupted" \/ GoalOver(cursor[g])
     THEN Yield(g, "completed", Msg(g).n) /\ EndStream(g, "done")
     ELSE /\ UNCHANGED yielded
          /\ IF Msg(g).status = "completed" /\ cursor[g].status = "none"
             THEN EndStream(g, "raised")     \* goal mode was not activated
             ELSE Dequeued(g) /\ UNCHANGED <<route, pc, locks>>

TakeGoal(g) ==
  /\ Took(g, "goal")
  /\ cursor' = [cursor EXCEPT ![g] =
       IF Msg(g).status = "cleared" THEN [cursor[g] EXCEPT !.cleared = TRUE]
       ELSE [cursor[g] EXCEPT !.status = Msg(g).status,
                              !.cleared = cursor[g].cleared /\ Msg(g).status /= "active"]]
  /\ IF ~cursor[g].active /\ cursor[g].last /= 0 /\ GoalOver(cursor'[g])
     THEN Yield(g, "completed", cursor[g].last) /\ EndStream(g, "done")
     ELSE Dequeued(g) /\ UNCHANGED <<yielded, route, pc, locks>>

TakeFailure(g) ==
  /\ Took(g, "failure")
  /\ EndStream(g, "raised")
  /\ UNCHANGED <<cursor, yielded>>

Consume(g) == TakeStarted(g) \/ TakeCompleted(g) \/ TakeGoal(g) \/ TakeFailure(g)

\* The consumer closes the stream ...
CloseStream(g) ==
  /\ Streaming(g)
  /\ Finish(g, "closed")
  /\ NoRequest
  /\ UNCHANGED <<wire, reader, cursor, target, yielded, swallowed>>

\* ... or is interrupted in it, or was cancelled before start_goal_operation returned.
CancelStream(g) ==
  /\ Streaming(g)
  /\ Send(g, "pause")
  /\ UNCHANGED <<wire, reader, route, state, cursor, locks, target, yielded, swallowed>>

-----------------------------------------------------------------------------

Serve(c) ==
  ServeRead(c) \/ ServeClear(c) \/ ServeSet(c) \/ ServePause(c) \/ ServeTurn(c)
    \/ (c \in Goals /\ ServeInterrupt(c))

AppServer ==
  \/ StartTurn \/ EndGoal \/ Crash
  \/ \E status \in {"completed", "failed"} : EndTurn(status)
  \/ \E c \in Callers : Serve(c) \/ \E what \in {"invalid", "error"} : Refuse(c, what)

Reader ==
  \/ RouteAnswer \/ LookUpGoal \/ Observe \/ PutNotification \/ UnregisterFinished
  \/ FailAll \/ FailGoal \/ PutFailure

TurnStart(c) == StartOfTurn(c) \/ TurnRefused(c) \/ AfterTurn(c) \/ TransportError(c)

GoalCall(g) ==
  \/ StartOfGoal(g) \/ Reserve(g) \/ GoalRefused(g) \/ Cleared(g) \/ GoalSet(g) \/ TurnSeen(g)
  \/ Rejected(g) \/ StartFails(g) \/ Paused(g) \/ InterruptAgain(g) \/ Cancelled(g)
  \/ Consume(g) \/ TransportError(g)

Application ==
  \/ \E c \in Callers : EnterThread(c) \/ LeaveThread(c)
  \/ \E g \in Goals : CloseStream(g) \/ CancelStream(g)

Next ==
  \/ AppServer \/ Reader \/ Application
  \/ \E c \in Starters : TurnStart(c)
  \/ \E g \in Goals : GoalCall(g)

Spec == Init /\ [][Next]_vars

-----------------------------------------------------------------------------
(* Properties. *)

\* Every variable stays in its type; an entry of the lock table exists as long as somebody
\* uses it, and those who do use the same one.
TypeOK ==
  /\ goal \in {"none", "active", "paused", "complete"} /\ owner \in Goals \cup {Nobody}
  /\ running \in {0, Len(startedBy)} /\ startedBy \in Seq(Callers \cup {Nobody})
  /\ asked \subseteq Callers /\ crashed \in BOOLEAN /\ faults \in 0 .. MaxEvents
  /\ \A n \in DOMAIN wire : wire[n].kind \in {"started", "completed", "goal", "answer"}
  /\ Len(hand) <= 1 /\ failed \in BOOLEAN
  /\ \A c \in Callers : Len(answer[c]) <= 1
  /\ route \in Goals \cup {Nobody}
  /\ \A g \in Goals :
       /\ state[g].current \in 0 .. MaxTurns /\ state[g].completed \in 0 .. MaxTurns
       /\ state[g].started \in 0 .. MaxTurns /\ cursor[g].last \in 0 .. MaxTurns
       /\ {state[g].status, cursor[g].status} \subseteq {"none", "active", "paused", "complete"}
  /\ mine \in [Callers -> {0, entry}] /\ (entry = 0 <=> \A c \in Callers : mine[c] = 0)
  /\ \A e \in Entries : users[e] = Cardinality({c \in Callers : e /= 0 /\ mine[c] = e})
  /\ target \in [Goals -> 0 .. MaxTurns] /\ swallowed \subseteq Turns

\* The thread-start lock: the requests that start something on a thread are those of one
\* caller, though the lock itself is made and thrown away on demand.
OneStarter == \A c, d \in Callers : Critical(c) /\ Critical(d) => c = d

Operating(g) ==
  pc[g] \in {"clear", "set", "wait for start", "streaming", "pause", "interrupt", "interrupt again"}

\* fail_all has taken its route and has not told it yet.
Failing(g) == hand /= <<>> /\ hand[1].at = "fail" /\ hand[1].to = g

\* "routes_after_completion": a thread is reserved only for an operation under way, or
\* nobody could start a turn on it any more; and the end of another operation, in its
\* caller or late in the reader, does not take the route of one that goes on.
RouteFollowsOperation ==
  /\ route \in Goals => Operating(route)
  /\ \A g \in Goals : Operating(g) /\ ~state[g].finished /\ ~state[g].failure => route = g \/ Failing(g)

Lifecycle(g) == [n \in DOMAIN yielded[g] |-> yielded[g][n][1]]

\* However many physical turns ran, the consumer sees one: a start, which is that of the turn
\* start_goal_operation waited for, then a completion that ends the stream.  Only a turn that
\* was not started for this goal, and that somebody else's interrupt ends after the route was
\* taken, may complete the stream before it has started.
OneLogicalTurn ==
  \A g \in Goals :
    /\ \/ Lifecycle(g) \in {<<>>, <<"started">>, <<"started", "completed">>}
       \/ Lifecycle(g) = <<"completed">> /\ startedBy[yielded[g][1][2]] /= g
    /\ Lifecycle(g) /= <<>> /\ yielded[g][1][1] = "started" => yielded[g][1][2] = state[g].started
    /\ pc[g] = "done" <=> \E n \in DOMAIN yielded[g] : yielded[g][n][1] = "completed"

\* A turn somebody started with turn_start is never taken for a turn of a goal.
TurnNotSwallowed == \A n \in swallowed : startedBy[n] \notin Starters

\* A cancelled operation leaves neither its goal active nor one of its turns running, as
\* long as the app-server serves the requests.
CancelStops ==
  \A g \in Goals :
    pc[g] = "cancelled" /\ faults = 0 =>
      /\ ~(goal = "active" /\ owner = g)
      /\ ~(running /= 0 /\ startedBy[running] = g)

\* The reader's view of the operation and the consumer's end together: a consumer that waits
\* for a notification waits for one that is still to come.
ConsumerNotStranded ==
  \A g \in Goals : pc[g] = "streaming" /\ state[g].queue = <<>> =>
    ~state[g].finished /\ ~state[g].failure

=============================================================================

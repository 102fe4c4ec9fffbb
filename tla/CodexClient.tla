----------------------------- MODULE CodexClient -----------------------------
(***************************************************************************)
(* openai_codex/client.py and _message_router.py: caller threads share one *)
(* app-server process through its stdin, and one reader thread hands what  *)
(* comes out of its stdout to the queue each caller blocks on.             *)
(*                                                                         *)
(* A step of a thread is what it does between two points another thread    *)
(* can interleave at: a critical section of the router's lock, a put, a    *)
(* get that found something, a write.  A put is never part of the critical *)
(* section that looked its queue up.                                       *)
(***************************************************************************)
EXTENDS Naturals, Sequences, FiniteSets

CONSTANTS
  Requesters,    \* threads that send one request
  TurnCallers,   \* threads that start a turn, and the ids of those turns
  LoginCallers,  \* threads that start a login and wait for it, and the ids of those logins
  Events,        \* events of a turn before its completion
  MaxSessions,   \* bound on the app-servers started
  MaxApprovals,  \* bound on the approvals they ask for
  MaxCalls       \* bounds on the calls made by the time each of them is the last one started

Callers == Requesters \cup TurnCallers \cup LoginCallers
Streams == TurnCallers \cup LoginCallers
Sessions == 1 .. MaxSessions

ASSUME ClientAssumption ==
  /\ Events \in Nat
  /\ MaxSessions \in Nat /\ MaxApprovals \in Nat
  /\ MaxCalls \in [Sessions -> Nat]
  /\ Requesters \cap Streams = {}
  /\ TurnCallers \cap LoginCallers = {}

VARIABLES
  session,     \* app-servers started so far
  proc,        \* _proc is not None
  alive,       \* the processes running, by session
  wire,        \* what they wrote on stdout and nobody read
  asked,       \* requests a server has read and not answered
  started,     \* turns and logins the server has accepted
  sent,        \* notifications it has sent about each of them
  approvals,   \* approvals the servers asked the client for
  reader,      \* the reader thread of each session
  waiters,     \* keys of _response_waiters
  answer,      \* what is in the queue of each response waiter
  registered,  \* keys of _turn_notifications and _login_notifications
  pending,     \* _pending_turn_notifications and _pending_login_notifications
  made,        \* queues made for each stream: the last is the one registered or held
  queue,       \* what is in that queue
  replay,      \* early notifications register_turn or register_login has yet to put there
  pc,          \* where each caller is
  sentIn,      \* the session its request was written to
  received,    \* history: the notifications its stream gave it
  late,        \* history: callers whose queue came after the reader had failed all queues
  dropped,     \* history: streams the router threw notifications of away
  buffered     \* history: notifications that went through pending

server == <<alive, wire, asked, started, sent, approvals>>
router == <<waiters, answer, registered, pending, made, queue, replay>>
callers == <<pc, sentIn, received, late>>
vars == <<session, proc, server, reader, router, callers, dropped, buffered>>

\* The last notification about a stream: turn/completed, account/login/completed.
Completed(c) == IF c \in TurnCallers THEN Events + 1 ELSE 1

\* How an app-server answers: with a result, an error, or an error whose code is no number.
Responses == {"result", "error", "uncoded"}

\* What a queue of notifications holds in place of one when the transport failed.
Failure == 0

\* Calls made so far.
Calls == Cardinality({c \in Callers : pc[c] /= "idle"})

Idle == [at |-> "none", on |-> 0, hand |-> <<>>, answers |-> {}, queues |-> {}]

Init ==
  /\ session = 0 /\ proc = FALSE /\ alive = {}
  /\ wire = [s \in Sessions |-> <<>>]
  /\ asked = {} /\ started = {} /\ approvals = 0
  /\ sent = [c \in Streams |-> 0]
  /\ reader = [s \in Sessions |-> Idle]
  /\ waiters = {} /\ registered = {}
  /\ answer = [c \in Callers |-> <<>>]
  /\ pending = [c \in Streams |-> <<>>]
  /\ made = [c \in Streams |-> 0]
  /\ queue = [c \in Streams |-> <<>>]
  /\ replay = [c \in Streams |-> <<>>]
  /\ pc = [c \in Callers |-> "idle"]
  /\ sentIn = [c \in Callers |-> 0]
  /\ received = [c \in Streams |-> <<>>]
  /\ late = {} /\ dropped = {} /\ buffered = {}

-----------------------------------------------------------------------------
(* The client's life: the first call starts it, close() stops it, and the  *)
(* next call of an AsyncCodex starts it again.                              *)

Start ==
  /\ ~proc /\ session < MaxSessions
  /\ Calls <= MaxCalls[session + 1]
  /\ session' = session + 1
  /\ proc' = TRUE
  /\ alive' = alive \cup {session + 1}
  /\ reader' = [reader EXCEPT ![session + 1].at = "check"]
  /\ UNCHANGED <<wire, asked, started, sent, approvals, router, callers, dropped, buffered>>

\* close waits half a second for the reader and returns whether it ended or not.
Close ==
  /\ proc
  /\ proc' = FALSE
  /\ alive' = alive \ {session}
  /\ UNCHANGED <<session, wire, asked, started, sent, approvals, reader, router, callers,
                 dropped, buffered>>

-----------------------------------------------------------------------------
(* The app-server, as far as the client can tell. *)

Write(s, msg) == wire' = [wire EXCEPT ![s] = Append(@, msg)]

Respond(c, kind) ==
  /\ c \in asked /\ sentIn[c] \in alive
  /\ asked' = asked \ {c}
  /\ started' = IF kind = "result" /\ c \in Streams THEN started \cup {c} ELSE started
  /\ Write(sentIn[c], [kind |-> kind, of |-> c])
  /\ UNCHANGED <<session, proc, alive, sent, approvals, reader, router, callers, dropped, buffered>>

Notify(c) ==
  /\ c \in started /\ sentIn[c] \in alive
  /\ sent[c] < Completed(c)
  /\ sent' = [sent EXCEPT ![c] = @ + 1]
  /\ Write(sentIn[c], [kind |-> "notification", of |-> c, n |-> sent[c] + 1])
  /\ UNCHANGED <<session, proc, alive, asked, started, approvals, reader, router, callers,
                 dropped, buffered>>

AskApproval(s) ==
  /\ s \in alive /\ approvals < MaxApprovals
  /\ approvals' = approvals + 1
  /\ Write(s, [kind |-> "approval"])
  /\ UNCHANGED <<session, proc, alive, asked, started, sent, reader, router, callers,
                 dropped, buffered>>

Crash(s) ==
  /\ s \in alive
  /\ alive' = alive \ {s}
  /\ UNCHANGED <<session, proc, wire, asked, started, sent, approvals, reader, router, callers,
                 dropped, buffered>>

-----------------------------------------------------------------------------
(* The reader thread. *)

\* _read_message looks _proc up before every line, so it may read another session's stdout.
Check(s) ==
  /\ reader[s].at = "check" /\ proc
  /\ reader' = [reader EXCEPT ![s].at = "blocked", ![s].on = session]
  /\ UNCHANGED <<session, proc, server, router, callers, dropped, buffered>>

Took(s, msg) ==
  /\ reader[s].at = "blocked"
  /\ wire[reader[s].on] /= <<>>
  /\ msg = Head(wire[reader[s].on])
  /\ wire' = [wire EXCEPT ![reader[s].on] = Tail(@)]
  /\ UNCHANGED <<session, proc, alive, asked, started, sent, approvals, callers>>

\* Variant: the waiter is looked up and not popped.
RouteResponseKeeping(s, msg) ==
  /\ msg.kind \in Responses
  /\ waiters' = waiters
  /\ reader' = [reader EXCEPT ![s].at = IF msg.of \in waiters THEN "put" ELSE "check",
                              ![s].hand = IF msg.of \in waiters THEN <<msg>> ELSE <<>>]
  /\ UNCHANGED <<answer, registered, pending, made, queue, replay, dropped, buffered>>

\* The lookup of route_response, which takes the waiter away; the put is a step of its own.
RouteResponse(s, msg) ==
  /\ msg.kind \in Responses
  /\ waiters' = waiters \ {msg.of}
  /\ reader' = [reader EXCEPT ![s].at = IF msg.of \in waiters THEN "put" ELSE "check",
                              ![s].hand = IF msg.of \in waiters THEN <<msg>> ELSE <<>>]
  /\ UNCHANGED <<answer, registered, pending, made, queue, replay, dropped, buffered>>

IsCompletion(msg) == msg.n = Completed(msg.of)

\* The lookup of route_notification, of a stream somebody registered.
RouteToQueue(s, msg) ==
  /\ msg.kind = "notification" /\ msg.of \in registered
  /\ reader' = [reader EXCEPT ![s].at = "put",
                              ![s].hand = <<[kind |-> "item", of |-> msg.of, n |-> msg.n,
                                              to |-> made[msg.of]]>>]
  /\ UNCHANGED <<router, dropped, buffered>>

\* Variant: only the notifications of turns wait for a registration.
RouteToPendingTurnsOnly(s, msg) ==
  /\ msg.kind = "notification" /\ msg.of \notin registered
  /\ ~(msg.of \in TurnCallers /\ IsCompletion(msg))
  /\ pending' = IF msg.of \in TurnCallers THEN [pending EXCEPT ![msg.of] = Append(@, msg.n)] ELSE pending
  /\ buffered' = buffered \cup {<<msg.of, msg.n>>}
  /\ reader' = [reader EXCEPT ![s].at = "check"]
  /\ UNCHANGED <<waiters, answer, registered, made, queue, replay, dropped>>

\* A notification nobody registered for waits in pending.
RouteToPending(s, msg) ==
  /\ msg.kind = "notification" /\ msg.of \notin registered
  /\ ~(msg.of \in TurnCallers /\ IsCompletion(msg))
  /\ pending' = [pending EXCEPT ![msg.of] = Append(@, msg.n)]
  /\ buffered' = buffered \cup {<<msg.of, msg.n>>}
  /\ reader' = [reader EXCEPT ![s].at = "check"]
  /\ UNCHANGED <<waiters, answer, registered, made, queue, replay, dropped>>

\* The completion of a turn nobody registered for takes the pending ones with it.
ForgetTurn(s, msg) ==
  /\ msg.kind = "notification" /\ msg.of \in TurnCallers \ registered
  /\ IsCompletion(msg)
  /\ pending' = [pending EXCEPT ![msg.of] = <<>>]
  /\ dropped' = dropped \cup {msg.of}
  /\ reader' = [reader EXCEPT ![s].at = "check"]
  /\ UNCHANGED <<waiters, answer, registered, made, queue, replay, buffered>>

Handle(s, msg) ==
  /\ msg.kind = "approval"
  /\ reader' = [reader EXCEPT ![s].at = "handling"]
  /\ UNCHANGED <<router, dropped, buffered>>

ReadLine(s) ==
  \E msg \in {Head(wire[k]) : k \in {k \in Sessions : wire[k] /= <<>>}} :
    /\ Took(s, msg)
    /\ \/ RouteResponse(s, msg)
       \/ RouteToQueue(s, msg)
       \/ RouteToPending(s, msg)
       \/ ForgetTurn(s, msg)
       \/ Handle(s, msg)

\* The put of route_response.  Of an uncoded error there is none: it raises (Raises).
PutResponse(s) ==
  /\ reader[s].at = "put"
  /\ LET msg == reader[s].hand[1] IN
     /\ msg.kind \in {"result", "error"}
     /\ answer' = [answer EXCEPT ![msg.of] = Append(@, msg.kind)]
  /\ reader' = [reader EXCEPT ![s].at = "check", ![s].hand = <<>>]
  /\ UNCHANGED <<session, proc, server, waiters, registered, pending, made, queue, replay,
                 callers, dropped, buffered>>

\* Variant: the queue is a stack.
PutNotificationLeft(s) ==
  /\ reader[s].at = "put"
  /\ LET msg == reader[s].hand[1] IN
     /\ msg.kind = "item"
     /\ queue' = [queue EXCEPT ![msg.of] = <<msg.n>> \o @]
  /\ reader' = [reader EXCEPT ![s].at = "check", ![s].hand = <<>>]
  /\ UNCHANGED <<session, proc, server, waiters, answer, registered, pending, made, replay,
                 callers, dropped, buffered>>

\* A queue another has replaced meanwhile takes what is put there to nobody.
PutNotification(s) ==
  /\ reader[s].at = "put"
  /\ LET msg == reader[s].hand[1] IN
     /\ msg.kind = "item"
     /\ IF msg.to = made[msg.of]
        THEN queue' = [queue EXCEPT ![msg.of] = Append(@, msg.n)] /\ UNCHANGED dropped
        ELSE dropped' = dropped \cup {msg.of} /\ UNCHANGED queue
  /\ reader' = [reader EXCEPT ![s].at = "check", ![s].hand = <<>>]
  /\ UNCHANGED <<session, proc, server, waiters, answer, registered, pending, made, replay,
                 callers, buffered>>

\* The approval handler is the application's, runs on the reader thread and takes its time;
\* the answer goes to the app-server of the moment.
HandlerReturns(s) ==
  /\ reader[s].at = "handling" /\ proc /\ session \in alive
  /\ reader' = [reader EXCEPT ![s].at = "check"]
  /\ UNCHANGED <<session, proc, server, router, callers, dropped, buffered>>

\* What ends _reader_loop: the client is closed, end of file, the handler raises or its
\* answer cannot be written, or a response whose waiter is gone from the dict has a code that
\* int() does not take.  A line that cannot be parsed does what a raising handler does.
Raises(s) ==
  \/ reader[s].at = "check" /\ ~proc
  \/ /\ reader[s].at = "blocked"
     /\ wire[reader[s].on] = <<>> /\ reader[s].on \notin alive
  \/ reader[s].at = "handling"
  \/ reader[s].at = "put" /\ reader[s].hand[1].kind = "uncoded"

\* Variant: the login queues are cleared before they are collected.
FailAllForgettingLogins(s) ==
  /\ Raises(s)
  /\ reader' = [reader EXCEPT ![s] = [@ EXCEPT !.at = "waking", !.answers = waiters,
                                        !.queues = {<<c, made[c]>> : c \in registered \ LoginCallers}]]
  /\ waiters' = {}
  /\ registered' = registered \ LoginCallers
  /\ pending' = [c \in Streams |-> <<>>]
  /\ dropped' = dropped \cup {c \in Streams : pending[c] /= <<>>}
  /\ UNCHANGED <<session, proc, server, answer, made, queue, replay, callers, buffered>>

\* fail_all, the part under the lock: turns stay registered, logins do not.
FailAll(s) ==
  /\ Raises(s)
  /\ reader' = [reader EXCEPT ![s] = [@ EXCEPT !.at = "waking", !.answers = waiters,
                                        !.queues = {<<c, made[c]>> : c \in registered}]]
  /\ waiters' = {}
  /\ registered' = registered \ LoginCallers
  /\ pending' = [c \in Streams |-> <<>>]
  /\ dropped' = dropped \cup {c \in Streams : pending[c] /= <<>>}
  /\ UNCHANGED <<session, proc, server, answer, made, queue, replay, callers, buffered>>

\* The puts of fail_all; each is into another queue.  An answer whose put raised stays in the
\* hand of the reader, which puts nothing any more.
Wake(s) ==
  /\ reader[s].at = "waking"
  /\ answer' = [c \in Callers |-> IF c \in reader[s].answers THEN Append(answer[c], "exception")
                                                            ELSE answer[c]]
  /\ queue' = [c \in Streams |-> IF <<c, made[c]>> \in reader[s].queues THEN Append(queue[c], Failure)
                                                                       ELSE queue[c]]
  /\ reader' = [reader EXCEPT ![s] = [@ EXCEPT !.at = "exited", !.answers = {}, !.queues = {}]]
  /\ UNCHANGED <<session, proc, server, waiters, registered, pending, made, replay, callers,
                 dropped, buffered>>

-----------------------------------------------------------------------------
(* The callers. *)

\* A reader that will still look at the queues before it ends.
Failed(s) == reader[s].at \in {"none", "waking", "exited"}

Goto(c, l) == pc' = [pc EXCEPT ![c] = l]

CreateWaiter(c) ==
  /\ pc[c] = "idle" /\ session > 0
  /\ Calls < MaxCalls[session]
  /\ waiters' = waiters \cup {c}
  /\ late' = IF \A s \in Sessions : Failed(s) THEN late \cup {c} ELSE late
  /\ Goto(c, "write")
  /\ UNCHANGED <<session, proc, server, reader, answer, registered, pending, made, queue, replay,
                 sentIn, received, dropped, buffered>>

WriteRequest(c) ==
  /\ pc[c] = "write" /\ proc /\ session \in alive
  /\ asked' = asked \cup {c}
  /\ sentIn' = [sentIn EXCEPT ![c] = session]
  /\ Goto(c, "waiting")
  /\ UNCHANGED <<session, proc, alive, wire, started, sent, approvals, reader, router, received, late,
                 dropped, buffered>>

\* Variant: the waiter stays.
WriteFailsLeaking(c) ==
  /\ pc[c] = "write" /\ ~(proc /\ session \in alive)
  /\ Goto(c, "raised")
  /\ UNCHANGED <<session, proc, server, reader, router, sentIn, received, late, dropped, buffered>>

\* Not running, or a broken pipe: the waiter is discarded.
WriteFails(c) ==
  /\ pc[c] = "write" /\ ~(proc /\ session \in alive)
  /\ waiters' = waiters \ {c}
  /\ Goto(c, "raised")
  /\ UNCHANGED <<session, proc, server, reader, answer, registered, pending, made, queue, replay,
                 sentIn, received, late, dropped, buffered>>

GetAnswer(c) ==
  /\ pc[c] = "waiting" /\ answer[c] /= <<>>
  /\ answer' = [answer EXCEPT ![c] = Tail(@)]
  /\ Goto(c, IF Head(answer[c]) /= "result" THEN "raised"
             ELSE IF c \in Streams THEN "register" ELSE "done")
  /\ UNCHANGED <<session, proc, server, reader, waiters, registered, pending, made, queue, replay,
                 sentIn, received, late, dropped, buffered>>

\* Variant: the early notifications are replayed and kept.
RegisterKeeping(c, to) ==
  /\ Goto(c, to)
  /\ registered' = registered \cup {c}
  /\ replay' = [replay EXCEPT ![c] = pending[c]]
  /\ made' = [made EXCEPT ![c] = @ + 1]
  /\ queue' = [queue EXCEPT ![c] = <<>>]
  /\ UNCHANGED <<session, proc, server, reader, waiters, answer, pending, sentIn, received, late,
                 dropped, buffered>>

\* register_turn and register_login, the part under the lock.
Register(c, to) ==
  /\ Goto(c, to)
  /\ IF c \in registered
     THEN UNCHANGED <<registered, pending, made, queue, replay, late, dropped>>
     ELSE /\ registered' = registered \cup {c}
          /\ replay' = [replay EXCEPT ![c] = pending[c]]
          /\ pending' = [pending EXCEPT ![c] = <<>>]
          /\ made' = [made EXCEPT ![c] = @ + 1]
          /\ queue' = [queue EXCEPT ![c] = <<>>]
          /\ dropped' = IF queue[c] = <<>> THEN dropped ELSE dropped \cup {c}
          /\ late' = IF Failed(sentIn[c]) THEN late \cup {c} ELSE late
  /\ UNCHANGED <<session, proc, server, reader, waiters, answer, sentIn, received, buffered>>

RegisterTurn(c) ==
  /\ c \in TurnCallers /\ pc[c] = "register"
  /\ Register(c, "streaming")

RegisterLogin(c) ==
  /\ c \in LoginCallers /\ pc[c] = "register"
  /\ Register(c, "handle")

\* wait_for_login_completed registers again.
WaitForLogin(c) ==
  /\ pc[c] = "handle" /\ replay[c] = <<>>
  /\ Register(c, "lookup")

Replay(c) ==
  /\ replay[c] /= <<>>
  /\ queue' = [queue EXCEPT ![c] = Append(@, Head(replay[c]))]
  /\ replay' = [replay EXCEPT ![c] = Tail(@)]
  /\ UNCHANGED <<session, proc, server, reader, waiters, answer, registered, pending, made, callers,
                 dropped, buffered>>

LookUpLogin(c) ==
  /\ pc[c] = "lookup" /\ replay[c] = <<>>
  /\ Goto(c, IF c \in registered THEN "streaming" ELSE "raised")
  /\ UNCHANGED <<session, proc, server, reader, router, sentIn, received, late, dropped, buffered>>

Unregister(c) == registered' = registered \ {c}

\* next_turn_notification or next_login_notification gets a notification.
GetNotification(c) ==
  /\ pc[c] = "streaming" /\ replay[c] = <<>>
  /\ queue[c] /= <<>> /\ Head(queue[c]) /= Failure
  /\ queue' = [queue EXCEPT ![c] = Tail(@)]
  /\ received' = [received EXCEPT ![c] = Append(@, Head(queue[c]))]
  /\ IF Head(queue[c]) = Completed(c)
     THEN Unregister(c) /\ Goto(c, "done")
     ELSE UNCHANGED <<registered, pc>>
  /\ UNCHANGED <<session, proc, server, reader, waiters, answer, pending, made, replay, sentIn, late,
                 dropped, buffered>>

GetFailure(c) ==
  /\ pc[c] = "streaming" /\ replay[c] = <<>>
  /\ queue[c] /= <<>> /\ Head(queue[c]) = Failure
  /\ queue' = [queue EXCEPT ![c] = Tail(@)]
  /\ Unregister(c) /\ Goto(c, "raised")
  /\ UNCHANGED <<session, proc, server, reader, waiters, answer, pending, made, replay, sentIn, received,
                 late, dropped, buffered>>

\* The application closes the stream of a turn after its first notification.
CloseStream(c) ==
  /\ c \in TurnCallers /\ pc[c] = "streaming" /\ received[c] /= <<>>
  /\ dropped' = dropped \cup {c}
  /\ Unregister(c) /\ Goto(c, "closed")
  /\ UNCHANGED <<session, proc, server, reader, waiters, answer, pending, made, queue, replay, sentIn,
                 received, late, buffered>>

Server ==
  \/ \E c \in Callers : \/ \E kind \in Responses : Respond(c, kind)
                       \/ (c \in Streams /\ Notify(c))
  \/ \E s \in Sessions : AskApproval(s) \/ Crash(s)

ReaderThread(s) ==
  \/ Check(s) \/ ReadLine(s) \/ PutResponse(s) \/ PutNotification(s)
  \/ HandlerReturns(s) \/ FailAll(s) \/ Wake(s)

\* What a caller does once it has called; it is up to the application to call.
Calling(c) ==
  \/ WriteRequest(c) \/ WriteFails(c) \/ GetAnswer(c)
  \/ c \in Streams /\ \/ RegisterTurn(c) \/ RegisterLogin(c) \/ Replay(c) \/ LookUpLogin(c)
                      \/ GetNotification(c) \/ GetFailure(c)

Application ==
  \/ Start \/ Close
  \/ \E c \in Callers : CreateWaiter(c)
  \/ \E c \in Streams : WaitForLogin(c) \/ CloseStream(c)

Next ==
  \/ Application
  \/ Server
  \/ \E s \in Sessions : ReaderThread(s)
  \/ \E c \in Callers : Calling(c)

Fairness ==
  /\ \A s \in Sessions : WF_vars(ReaderThread(s))
  /\ \A c \in Callers : /\ WF_vars(Calling(c))
                        /\ WF_vars(\E kind \in Responses : Respond(c, kind))
  /\ \A c \in TurnCallers : WF_vars(Notify(c))

Spec == Init /\ [][Next]_vars /\ Fairness

-----------------------------------------------------------------------------
(* Properties. *)

Kinds == {"result", "error", "exception"}
Numbers == 0 .. Events + 1
Lines == [kind : Responses, of : Callers]
           \cup [kind : {"notification"}, of : Streams, n : Numbers] \cup {[kind |-> "approval"]}
Items == [kind : {"item"}, of : Streams, n : Numbers, to : Nat]

\* Every variable stays in its type, a waiter belongs to a request that is on its way, and
\* only what a caller may still read is registered.
TypeOK ==
  /\ session \in 0 .. MaxSessions /\ proc \in BOOLEAN
  /\ alive \subseteq 1 .. session
  /\ wire \in [Sessions -> Seq(Lines)]
  /\ asked \subseteq Callers /\ started \subseteq Streams
  /\ sent \in [Streams -> Numbers] /\ approvals \in 0 .. MaxApprovals
  /\ DOMAIN reader = Sessions
  /\ \A s \in Sessions :
       /\ reader[s].at \in {"none", "check", "blocked", "put", "handling", "waking", "exited"}
       /\ reader[s].on \in 0 .. session
       /\ reader[s].hand \in {<<>>} \cup Seq(Lines \cup Items)
       /\ reader[s].answers \subseteq Callers
       /\ reader[s].queues \subseteq Streams \X Nat
  /\ waiters \subseteq {c \in Callers : pc[c] \in {"write", "waiting"}}
  /\ answer \in [Callers -> Seq(Kinds)]
  /\ registered \subseteq {c \in Streams : pc[c] \in {"streaming", "handle", "lookup"}}
  /\ pending \in [Streams -> Seq(Numbers)] /\ replay \in [Streams -> Seq(Numbers)]
  /\ queue \in [Streams -> Seq(Numbers)] /\ received \in [Streams -> Seq(Numbers)]
  /\ made \in [Streams -> Nat] /\ sentIn \in [Callers -> 0 .. session]
  /\ pc \in [Callers -> {"idle", "write", "waiting", "register", "handle", "lookup", "streaming",
                         "done", "closed", "raised"}]
  /\ late \subseteq Callers /\ dropped \subseteq Streams
  /\ buffered \subseteq Streams \X Numbers

If(b) == IF b THEN 1 ELSE 0

\* A response queue holds one item (maxsize=1) and a second put would block the reader for
\* good: of the dict, a reader's hand, a snapshot of fail_all, the queue and the caller, at
\* most one has the answer to a request.
AnsweredOnce ==
  \A c \in Callers :
    Len(answer[c]) + If(c \in waiters)
      + Cardinality({s \in Sessions : \/ c \in reader[s].answers
                                     \/ /\ reader[s].hand /= <<>>
                                        /\ reader[s].hand[1].kind \in Responses
                                        /\ reader[s].hand[1].of = c})
      + If(pc[c] \notin {"idle", "write", "waiting", "raised"}) <= 1

Times(n, s) == Cardinality({k \in DOMAIN s : s[k] = n})

\* Where notification n about c is: unread, in a reader's hand, in the router, or received.
Copies(c, n) ==
  Times(n, pending[c]) + Times(n, replay[c]) + Times(n, queue[c]) + Times(n, received[c])
    + Cardinality({s \in Sessions : \E k \in DOMAIN wire[s] :
                     wire[s][k] = [kind |-> "notification", of |-> c, n |-> n]})
    + Cardinality({s \in Sessions : /\ reader[s].hand /= <<>>
                                   /\ reader[s].hand[1].kind = "item"
                                   /\ reader[s].hand[1].of = c /\ reader[s].hand[1].n = n})

\* However register, unregister and fail_all interleave with the reader, no notification
\* is delivered twice, and none is lost except where the router drops it on purpose.
NotificationsOnce ==
  \A c \in Streams : \A n \in 1 .. sent[c] :
    /\ Copies(c, n) <= 1
    /\ Copies(c, n) = 0 => c \in dropped

\* Of the readers of its app-server and of the ones before, one at most has come that far.
SoleReader(c) == Cardinality({s \in 1 .. sentIn[c] : reader[s].on >= sentIn[c]}) <= 1

\* As long as no more than one thread has read its app-server's stdout, the events of a turn
\* come out of its queue in the order they were sent, but for those register_turn replays:
\* the reader may put newer ones there between two of its puts.
DirectInOrder ==
  \A c \in TurnCallers :
    LET given == received[c] \o queue[c] IN
    SoleReader(c) =>
      \A j \in DOMAIN given : \A i \in 1 .. j - 1 :
        (given[j] /= Failure /\ given[i] > given[j]) =>
           /\ <<c, given[j]>> \in buffered
           /\ <<c, given[i]>> \notin buffered

Blocked(c) ==
  \/ pc[c] = "waiting" /\ answer[c] = <<>>
  \/ pc[c] = "streaming" /\ replay[c] = <<>> /\ queue[c] = <<>>

NobodyReads == \A s \in Sessions : reader[s].at \in {"none", "exited"}

\* Its waiter was popped for an uncoded error, so that fail_all no longer finds it.
Orphaned(c) ==
  \E s \in Sessions : /\ reader[s].hand /= <<>>
                      /\ reader[s].hand[1].kind = "uncoded" /\ reader[s].hand[1].of = c

\* fail_all wakes every call whose queue was there before it, but for the one whose own answer
\* made the reader raise between popping the waiter and the put: whoever else is left blocked
\* when nobody reads any more made its queue afterwards.
FailAllWakesAll ==
  \A c \in Callers : NobodyReads /\ Blocked(c) => c \in late \/ Orphaned(c)

\* fail_all puts the failure into every queue "so no SDK call blocks forever waiting for a
\* response that cannot arrive": a request whose waiter was there in time is not left waiting.
NoRequestBlocksForever ==
  \A c \in Callers : NobodyReads /\ pc[c] = "waiting" /\ answer[c] = <<>> => c \in late

\* register_turn "replays early events": while its app-server runs, a turn that is being
\* streamed has lost nothing.
EarlyEventsReplayed ==
  \A c \in TurnCallers : pc[c] = "streaming" /\ sentIn[c] \in alive => c \notin dropped

Waits(c) ==
  \/ pc[c] = "waiting"
  \/ pc[c] = "streaming" /\ (c \in LoginCallers => sent[c] = 1)

\* The reader of its app-server outlived close() and reads the next one's stdout.
Deserted(c) == reader[sentIn[c]].on > sentIn[c]

\* Every request is answered and every stream ends, whatever the app-server and the approval
\* handler do, except for callers that were late, lost a notification, lost their reader, or
\* whose answer is the uncoded error that ended it.
CallsReturn ==
  \A c \in Callers :
    Waits(c) ~> (~Waits(c) \/ c \in late \/ c \in dropped \/ Deserted(c) \/ Orphaned(c))

=============================================================================

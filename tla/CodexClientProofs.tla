-------------------------- MODULE CodexClientProofs --------------------------
(***************************************************************************)
(* Proofs about the transport, for any callers, sessions and events.       *)
(***************************************************************************)
EXTENDS CodexClient, FiniteSetTheorems, SequenceTheorems, TLAPS

-----------------------------------------------------------------------------
(* Types. *)

Places == {"none", "check", "blocked", "put", "handling", "waking", "exited"}
Labels == {"idle", "write", "waiting", "register", "handle", "lookup", "streaming",
           "done", "closed", "raised"}
Replies == [kind : Responses, of : Callers]
Notices == [kind : {"notification"}, of : Streams, n : Numbers]
Readers ==
  [at : Places, on : 0 .. MaxSessions, hand : {<<>>} \cup {<<x>> : x \in Replies \cup Items},
   answers : SUBSET Callers, queues : SUBSET (Streams \X Nat)]

\* A reader has a message in its hand to put it; what it cannot put stays there.
HandRight(r) ==
  /\ r.at = "put" => r.hand # <<>>
  /\ r.hand # <<>> /\ r.at # "put" => r.at \in {"waking", "exited"} /\ r.hand[1].kind = "uncoded"

ServerType ==
  /\ session \in 0 .. MaxSessions /\ proc \in BOOLEAN
  /\ alive \subseteq 1 .. session /\ (proc => session # 0)
  /\ wire \in [Sessions -> Seq(Lines)]
  /\ asked \subseteq Callers /\ started \subseteq Streams
  /\ sent \in [Streams -> Numbers] /\ approvals \in 0 .. MaxApprovals

ReaderType ==
  /\ reader \in [Sessions -> Readers]
  /\ \A s \in Sessions :
       /\ reader[s].on \in 0 .. session
       /\ s > session => reader[s].at = "none"
       /\ reader[s].at = "blocked" => reader[s].on \in Sessions
       /\ HandRight(reader[s])
       /\ reader[s].at # "waking" => reader[s].answers = {} /\ reader[s].queues = {}

RouterType ==
  /\ waiters \subseteq Callers /\ answer \in [Callers -> Seq(Kinds)]
  /\ registered \subseteq {c \in Streams : pc[c] \in {"streaming", "handle", "lookup"}}
  /\ pending \in [Streams -> Seq(Numbers)] /\ replay \in [Streams -> Seq(Numbers)]
  /\ queue \in [Streams -> Seq(Numbers)] /\ made \in [Streams -> Nat]

CallerType ==
  /\ pc \in [Callers -> Labels]
  /\ sentIn \in [Callers -> 0 .. session]
  /\ \A c \in Callers : pc[c] \notin {"idle", "write", "raised"} => sentIn[c] \in Sessions
  /\ \A c \in Callers : pc[c] \in {"register", "handle", "lookup", "streaming"} => c \in Streams
  /\ received \in [Streams -> Seq(Numbers)]
  /\ late \subseteq Callers /\ dropped \subseteq Streams /\ buffered \subseteq Streams \X Numbers

TypeInv == ServerType /\ ReaderType /\ RouterType /\ CallerType

LEMMA Ranges ==
  /\ Sessions = 1 .. MaxSessions /\ MaxSessions \in Nat /\ MaxApprovals \in Nat /\ Events \in Nat
  /\ Numbers = 0 .. Events + 1 /\ Failure = 0 /\ 0 \in Numbers
  /\ Streams = TurnCallers \cup LoginCallers /\ Callers = Requesters \cup Streams
  /\ Requesters \cap Streams = {} /\ Streams \subseteq Callers /\ TurnCallers \cap LoginCallers = {}
  /\ \A c \in Streams : Completed(c) \in Numbers /\ Completed(c) # 0
  /\ Lines = Replies \cup Notices \cup {[kind |-> "approval"]}
  /\ Responses = {"result", "error", "uncoded"}
BY ClientAssumption DEF Responses, Sessions, Numbers, Failure, Streams, Callers, Completed, Lines, Replies, Notices

\* A line of each kind.
LEMMA LineKinds ==
  ASSUME NEW x \in Lines
  PROVE  /\ x.kind \in Responses \cup {"notification", "approval"}
         /\ x.kind \in Responses => x \in Replies /\ x.kind # "item"
         /\ x.kind = "notification" => x \in Notices /\ x.of \in Streams /\ x.n \in Numbers
BY Ranges DEF Replies, Notices

LEMMA WireTyped ==
  ASSUME ServerType, NEW s \in Sessions, NEW x \in Lines, Write(s, x)
  PROVE  wire' \in [Sessions -> Seq(Lines)]
BY DEF ServerType, Write

\* What a step of a reader takes from its app-server's stdout.
LEMMA TookLine ==
  ASSUME ServerType, ReaderType, NEW s \in Sessions, NEW msg, Took(s, msg)
  PROVE  /\ msg \in Lines /\ reader[s].on \in Sessions /\ wire[reader[s].on] # <<>>
         /\ wire' \in [Sessions -> Seq(Lines)]
         /\ UNCHANGED <<session, proc, alive, asked, started, sent, approvals, callers>>
<1>1. reader[s].on \in Sessions /\ wire[reader[s].on] # <<>> /\ wire[reader[s].on] \in Seq(Lines)
  BY DEF Took, ServerType, ReaderType
<1>2. Head(wire[reader[s].on]) \in Lines /\ Tail(wire[reader[s].on]) \in Seq(Lines)
  BY <1>1
<1>3. wire' \in [Sessions -> Seq(Lines)]
  BY <1>1, <1>2 DEF Took, ServerType
<1> QED BY <1>1, <1>2, <1>3 DEF Took

-----------------------------------------------------------------------------
(* The steps. *)

\* What the three registrations have in common.
Registers(c) ==
  /\ pc[c] \in {"register", "handle"} /\ (pc[c] = "handle" => replay[c] = <<>>)
  /\ \E to \in {"streaming", "handle", "lookup"} :
       Register(c, to) /\ (c \in TurnCallers /\ pc[c] = "register" => to = "streaming")

LEMMA Registrations ==
  ASSUME NEW c \in Streams, RegisterTurn(c) \/ RegisterLogin(c) \/ WaitForLogin(c)
  PROVE  Registers(c)
BY Ranges DEF RegisterTurn, RegisterLogin, WaitForLogin, Registers

CallerStep(c) == CreateWaiter(c) \/ WriteRequest(c) \/ WriteFails(c) \/ GetAnswer(c)
StreamStep(c) ==
  \/ Registers(c) \/ Replay(c) \/ LookUpLogin(c)
  \/ GetNotification(c) \/ GetFailure(c) \/ CloseStream(c)
ServerStep ==
  \/ \E c \in Callers : \E kind \in Responses : Respond(c, kind)
  \/ \E c \in Streams : Notify(c)
  \/ \E s \in Sessions : AskApproval(s) \/ Crash(s)

\* Every step is one of these.
LEMMA Steps ==
  ASSUME Next
  PROVE  \/ Start \/ Close \/ ServerStep
         \/ \E s \in Sessions : ReaderThread(s)
         \/ \E c \in Callers : CallerStep(c)
         \/ \E c \in Streams : StreamStep(c)
<1>1. CASE Application
  BY <1>1, Registrations DEF Application, CallerStep, StreamStep
<1>2. CASE Server
  BY <1>2 DEF Server, ServerStep
<1>3. CASE \E c \in Callers : Calling(c)
  BY <1>3, Registrations DEF Calling, CallerStep, StreamStep
<1> QED BY <1>1, <1>2, <1>3 DEF Next

-----------------------------------------------------------------------------
(* Type correctness of each part of the state. *)

LEMMA ServerTyped ==
  ASSUME TypeInv, Next
  PROVE  ServerType' /\ session <= session' /\ session' \in 0 .. MaxSessions
<1> ServerType /\ ReaderType
  BY DEF TypeInv
<1>0. session \in Nat /\ alive \subseteq 1 .. session /\ session \in 0 .. MaxSessions
  BY Ranges DEF ServerType
<1>a. \A i \in 1 .. session : i \in Sessions
  BY <1>0, Ranges
<1>b. \A i \in alive : i \in Sessions
  BY <1>0, <1>a
<1>c. ASSUME UNCHANGED <<session, proc, server>>
      PROVE  ServerType' /\ session' = session
  BY <1>c DEF server, ServerType
<1>1. CASE Start
  <2>1. session + 1 \in 0 .. MaxSessions /\ alive' \subseteq 1 .. session'
    BY <1>0, <1>1, Ranges DEF Start
  <2> QED BY <2>1, <1>0, <1>1 DEF Start, ServerType
<1>2. CASE Close
  <2>1. UNCHANGED <<session, wire, asked, started, sent, approvals>> /\ alive' \subseteq alive /\ ~proc'
    BY <1>2 DEF Close
  <2>2. proc' \in BOOLEAN
    BY <1>2 DEF Close
  <2> QED BY <2>1, <2>2 DEF ServerType
<1>3. ASSUME NEW c \in Callers, NEW kind \in Responses, Respond(c, kind)
      PROVE  ServerType' /\ session' = session
  <2>1. [kind |-> kind, of |-> c] \in Lines
    BY DEF Lines
  <2>2. sentIn[c] \in Sessions
    BY <1>b, <1>3 DEF Respond
  <2>3. wire' \in [Sessions -> Seq(Lines)]
    BY <1>3, <2>1, <2>2, WireTyped DEF Respond
  <2> QED BY <1>3, <2>3 DEF Respond, ServerType
<1>4. ASSUME NEW c \in Streams, Notify(c)
      PROVE  ServerType' /\ session' = session
  <2>1. sent[c] + 1 \in Numbers
    BY <1>4, Ranges DEF Notify, ServerType
  <2>2. [kind |-> "notification", of |-> c, n |-> sent[c] + 1] \in Lines
    BY <2>1 DEF Lines
  <2>3. sentIn[c] \in Sessions
    BY <1>b, <1>4 DEF Notify
  <2>4. wire' \in [Sessions -> Seq(Lines)]
    BY <1>4, <2>2, <2>3, WireTyped DEF Notify
  <2>5. sent' \in [Streams -> Numbers]
    BY <1>4, <2>1 DEF Notify, ServerType
  <2> QED BY <1>4, <2>4, <2>5 DEF Notify, ServerType
<1>5. ASSUME NEW s \in Sessions, AskApproval(s) \/ Crash(s)
      PROVE  ServerType' /\ session' = session
  <2>1. [kind |-> "approval"] \in Lines
    BY DEF Lines
  <2>2. CASE AskApproval(s)
    <3>1. wire' \in [Sessions -> Seq(Lines)]
      BY <2>2, <2>1, WireTyped DEF AskApproval
    <3>2. approvals' \in 0 .. MaxApprovals
      BY <2>2, Ranges DEF AskApproval, ServerType
    <3> QED BY <2>2, <3>1, <3>2 DEF AskApproval, ServerType
  <2>3. CASE Crash(s)
    BY <2>3 DEF Crash, ServerType
  <2> QED BY <1>5, <2>2, <2>3
<1>6. ASSUME NEW s \in Sessions, ReaderThread(s)
      PROVE  ServerType' /\ session' = session
  <2>1. CASE ReadLine(s)
    <3>1. PICK msg : Took(s, msg)
      BY <2>1 DEF ReadLine
    <3>2. proc' = proc
      BY <3>1 DEF Took
    <3> QED BY <3>1, <3>2, TookLine DEF ServerType
  <2>2. CASE Check(s) \/ PutResponse(s) \/ PutNotification(s) \/ HandlerReturns(s) \/ FailAll(s) \/ Wake(s)
    <3>1. UNCHANGED <<session, proc, server>>
      BY <2>2 DEF Check, PutResponse, PutNotification, HandlerReturns, FailAll, Wake
    <3> QED BY <3>1, <1>c
  <2> QED BY <1>6, <2>1, <2>2 DEF ReaderThread
<1>7. ASSUME NEW c \in Callers, CallerStep(c)
      PROVE  ServerType' /\ session' = session
  <2>1. CASE WriteRequest(c)
    <3>1. asked' \subseteq Callers
      BY <2>1 DEF WriteRequest, ServerType
    <3>2. UNCHANGED <<session, proc, alive, wire, started, sent, approvals>>
      BY <2>1 DEF WriteRequest
    <3> QED BY <3>1, <3>2 DEF ServerType
  <2>2. CASE CreateWaiter(c) \/ WriteFails(c) \/ GetAnswer(c)
    <3>1. UNCHANGED <<session, proc, server>>
      BY <2>2 DEF CreateWaiter, WriteFails, GetAnswer
    <3> QED BY <3>1, <1>c
  <2> QED BY <1>7, <2>1, <2>2 DEF CallerStep
<1>8. ASSUME NEW c \in Streams, StreamStep(c)
      PROVE  ServerType' /\ session' = session
  <2>1. UNCHANGED <<session, proc, server>>
    BY <1>8 DEF StreamStep, Registers, Register, Replay, LookUpLogin, GetNotification, GetFailure,
       CloseStream
  <2> QED BY <2>1, <1>c
<1>9. ServerType'
  BY <1>1, <1>2, <1>3, <1>4, <1>5, <1>6, <1>7, <1>8, Steps DEF ServerStep
<1>10. session' = session \/ session' = session + 1
  BY <1>3, <1>4, <1>5, <1>6, <1>7, <1>8, Steps DEF ServerStep, Start, Close
<1> QED BY <1>0, <1>9, <1>10 DEF ServerType

\* A step that moves one reader, to a state its type allows.
LEMMA OneReader ==
  ASSUME ReaderType, session \in Nat, session' \in Nat, session <= session',
         NEW s \in Sessions, NEW r \in Readers, reader' = [reader EXCEPT ![s] = r],
         reader[s].at # "none" \/ s <= session',
         r.on \in 0 .. session', r.at = "blocked" => r.on \in Sessions,
         HandRight(r),
         r.at # "waking" => r.answers = {} /\ r.queues = {}
  PROVE  ReaderType'
<1> Sessions \subseteq Nat
  BY Ranges
<1>1. reader' \in [Sessions -> Readers]
  BY DEF ReaderType
<1>2. ASSUME NEW t \in Sessions
      PROVE  /\ reader'[t].on \in 0 .. session'
             /\ t > session' => reader'[t].at = "none"
             /\ reader'[t].at = "blocked" => reader'[t].on \in Sessions
             /\ HandRight(reader'[t])
             /\ reader'[t].at # "waking" => reader'[t].answers = {} /\ reader'[t].queues = {}
  <2>1. CASE t = s
    BY <2>1 DEF ReaderType
  <2>2. CASE t # s
    BY <2>2 DEF ReaderType
  <2> QED BY <2>1, <2>2
<1> QED BY <1>1, <1>2 DEF ReaderType

\* What each step of a reader leaves it with.
At(s, l) == reader'[s] = [reader[s] EXCEPT !.at = l]
Empties(s) == reader'[s] = [reader[s] EXCEPT !.at = "check", !.hand = <<>>]
Snapshots(s) ==
  reader'[s] = [reader[s] EXCEPT !.at = "waking", !.answers = waiters,
                                 !.queues = {<<c, made[c]>> : c \in registered}]
Ends(s) == reader'[s] = [reader[s] EXCEPT !.at = "exited", !.answers = {}, !.queues = {}]
Takes(s, h) == reader'[s] = [reader[s] EXCEPT !.at = "put", !.hand = <<h>>]
Item(msg) == [kind |-> "item", of |-> msg.of, n |-> msg.n, to |-> made[msg.of]]

LEMMA ReaderMoves ==
  ASSUME TypeInv, NEW s \in Sessions
  PROVE  /\ Check(s) => /\ reader' = [reader EXCEPT ![s] = reader'[s]]
                        /\ reader'[s] = [reader[s] EXCEPT !.at = "blocked", !.on = session]
         /\ PutResponse(s) \/ PutNotification(s) =>
              reader' = [reader EXCEPT ![s] = reader'[s]] /\ Empties(s)
         /\ HandlerReturns(s) => reader' = [reader EXCEPT ![s] = reader'[s]] /\ At(s, "check")
         /\ FailAll(s) => reader' = [reader EXCEPT ![s] = reader'[s]] /\ Snapshots(s)
         /\ Wake(s) => reader' = [reader EXCEPT ![s] = reader'[s]] /\ Ends(s)
<1> reader \in [Sessions -> Readers]
  BY DEF TypeInv, ReaderType
<1>1. Check(s) => /\ reader' = [reader EXCEPT ![s] = reader'[s]]
                  /\ reader'[s] = [reader[s] EXCEPT !.at = "blocked", !.on = session]
  BY DEF Check, Readers
<1>2. PutResponse(s) \/ PutNotification(s) =>
        reader' = [reader EXCEPT ![s] = reader'[s]] /\ Empties(s)
  BY DEF PutResponse, PutNotification, Empties, Readers
<1>3. HandlerReturns(s) => reader' = [reader EXCEPT ![s] = reader'[s]] /\ At(s, "check")
  BY DEF HandlerReturns, At, Readers
<1>4. FailAll(s) => reader' = [reader EXCEPT ![s] = reader'[s]] /\ Snapshots(s)
  BY DEF FailAll, Snapshots
<1>5. Wake(s) => reader' = [reader EXCEPT ![s] = reader'[s]] /\ Ends(s)
  BY DEF Wake, Ends, Readers
<1> QED BY <1>1, <1>2, <1>3, <1>4, <1>5

\* What a line does to the reader that takes it.
LEMMA LineMoves ==
  ASSUME TypeInv, NEW s \in Sessions, NEW msg \in Lines
  PROVE  /\ RouteResponse(s, msg) =>
              /\ reader' = [reader EXCEPT ![s] = reader'[s]]
              /\ IF msg.of \in waiters THEN Takes(s, msg) ELSE Empties(s)
         /\ RouteToQueue(s, msg) =>
              reader' = [reader EXCEPT ![s] = reader'[s]] /\ Takes(s, Item(msg))
         /\ RouteToPending(s, msg) \/ ForgetTurn(s, msg) =>
              reader' = [reader EXCEPT ![s] = reader'[s]] /\ At(s, "check")
         /\ Handle(s, msg) => reader' = [reader EXCEPT ![s] = reader'[s]] /\ At(s, "handling")
<1> reader \in [Sessions -> Readers]
  BY DEF TypeInv, ReaderType
<1>1. RouteResponse(s, msg) =>
        /\ reader' = [reader EXCEPT ![s] = reader'[s]]
        /\ IF msg.of \in waiters THEN Takes(s, msg) ELSE Empties(s)
  BY DEF RouteResponse, Takes, Empties, Readers
<1>2. RouteToQueue(s, msg) =>
        reader' = [reader EXCEPT ![s] = reader'[s]] /\ Takes(s, Item(msg))
  BY DEF RouteToQueue, Takes, Item, Readers
<1>3. RouteToPending(s, msg) \/ ForgetTurn(s, msg) =>
        reader' = [reader EXCEPT ![s] = reader'[s]] /\ At(s, "check")
  BY DEF RouteToPending, ForgetTurn, At, Readers
<1>4. Handle(s, msg) => reader' = [reader EXCEPT ![s] = reader'[s]] /\ At(s, "handling")
  BY DEF Handle, At, Readers
<1> QED BY <1>1, <1>2, <1>3, <1>4

LEMMA ReaderTyped ==
  ASSUME TypeInv, Next
  PROVE  ReaderType'
<1> ServerType /\ ReaderType /\ RouterType
  BY DEF TypeInv
<1> session \in Nat /\ session' \in Nat /\ session <= session'
  BY ServerTyped, Ranges DEF ServerType
<1> Sessions \subseteq Nat
  BY Ranges
<1>0. ASSUME reader' = reader
      PROVE  ReaderType'
  BY <1>0 DEF ReaderType
<1>1. CASE Start
  <2>0. session + 1 \in Sessions /\ session' = session + 1
    BY <1>1, Ranges DEF Start
  <2> PICK k \in Sessions : k = session + 1
    BY <2>0
  <2>1. k \in Sessions /\ session' = k
    BY <2>0
  <2>2. reader[k] \in Readers /\ reader[k].on \in 0 .. session
    BY <2>1 DEF ReaderType
  <2>3. reader[k].at = "none"
    BY <2>1 DEF ReaderType
  <2> DEFINE r == [reader[k] EXCEPT !.at = "check"]
  <2>4. /\ r \in Readers /\ r.on = reader[k].on /\ r.hand = reader[k].hand
        /\ r.answers = reader[k].answers /\ r.queues = reader[k].queues
        /\ r.at = "check"
    BY <2>2 DEF Readers, Places
  <2>5. r.hand = <<>> /\ r.answers = {} /\ r.queues = {} /\ r.on \in 0 .. session'
    BY <2>1, <2>2, <2>3, <2>4 DEF ReaderType, HandRight
  <2>6. reader' = [reader EXCEPT ![k] = r]
    BY <1>1 DEF Start
  <2>7. /\ r \in Readers /\ r.at # "blocked" /\ k <= session'
        /\ HandRight(r)
        /\ r.at # "waking" => r.answers = {} /\ r.queues = {}
    BY <2>1, <2>4, <2>5 DEF HandRight
  <2>8. r.on \in 0 .. session'
    BY <2>5
  <2> HIDE DEF r
  <2> QED BY <2>6, <2>7, <2>8, OneReader
<1>2. ASSUME NEW s \in Sessions, ReaderThread(s)
      PROVE  ReaderType'
  <2> DEFINE o == reader[s]
  <2>0. /\ o \in Readers /\ o.on \in 0 .. session
        /\ HandRight(o)
        /\ o.at # "waking" => o.answers = {} /\ o.queues = {}
        /\ s > session => o.at = "none"
    BY DEF ReaderType
  <2>a. o.at \in Places /\ o.hand \in {<<>>} \cup {<<x>> : x \in Replies \cup Items}
        /\ o.answers \in SUBSET Callers /\ o.queues \in SUBSET (Streams \X Nat) /\ o.on \in 0 .. MaxSessions
    BY <2>0 DEF Readers
  <2>b. o.at \in {"check", "blocked", "handling"} => o.hand = <<>>
    BY <2>0 DEF HandRight
  <2>1. CASE Check(s)
    <3>1. reader' = [reader EXCEPT ![s] = reader'[s]] /\ reader'[s] = [o EXCEPT !.at = "blocked", !.on = session]
      BY <2>1, ReaderMoves
    <3>2. o.at = "check" /\ session \in Sessions /\ session' = session
      BY <2>1, Ranges DEF Check, ServerType
    <3> DEFINE r == reader'[s]
    <3>a. session \in 0 .. MaxSessions
      BY DEF ServerType
    <3>3. r \in Readers /\ r.at = "blocked" /\ r.on = session /\ r.hand = o.hand
          /\ r.answers = o.answers /\ r.queues = o.queues
      BY <3>1, <3>a, <2>0 DEF Readers, Places
    <3>4. r.on \in 0 .. session' /\ reader' = [reader EXCEPT ![s] = r]
      BY <3>1, <3>2, <3>3
    <3>5. r.hand = <<>> /\ r.answers = {} /\ r.queues = {} /\ HandRight(r)
      BY <2>0, <2>b, <3>2, <3>3 DEF HandRight
    <3> HIDE DEF r, o
    <3> QED BY <3>2, <3>3, <3>4, <3>5, OneReader DEF o
  <2>2. ASSUME reader' = [reader EXCEPT ![s] = reader'[s]], Empties(s), session' = session,
               o.at \in {"put", "blocked"}
        PROVE  ReaderType'
    <3> DEFINE r == reader'[s]
    <3>1. r \in Readers /\ r.at = "check" /\ r.on = o.on /\ r.hand = <<>>
          /\ r.answers = o.answers /\ r.queues = o.queues
      BY <2>2, <2>0, <2>a DEF Readers, Places, Empties
    <3>2. r.on \in 0 .. session' /\ reader' = [reader EXCEPT ![s] = r]
      BY <2>2, <2>0, <3>1
    <3>3. r.answers = {} /\ r.queues = {} /\ HandRight(r)
      BY <2>0, <2>2, <3>1 DEF HandRight
    <3> HIDE DEF r
    <3> QED BY <2>2, <3>1, <3>2, <3>3, OneReader
  <2>3. ASSUME NEW l \in {"check", "handling"}, reader' = [reader EXCEPT ![s] = reader'[s]], At(s, l),
               session' = session, o.at \in {"blocked", "handling"}
        PROVE  ReaderType'
    <3> DEFINE r == reader'[s]
    <3>1. r \in Readers /\ r.at = l /\ r.on = o.on /\ r.hand = o.hand
          /\ r.answers = o.answers /\ r.queues = o.queues
      BY <2>3, <2>0, <2>a DEF Readers, Places, At
    <3>2. r.on \in 0 .. session' /\ reader' = [reader EXCEPT ![s] = r]
      BY <2>3, <2>0, <3>1
    <3>3. r.hand = <<>> /\ r.answers = {} /\ r.queues = {} /\ HandRight(r)
      BY <2>0, <2>b, <2>3, <3>1 DEF HandRight
    <3> HIDE DEF r
    <3> QED BY <2>3, <3>1, <3>2, <3>3, OneReader
  <2>4. ASSUME NEW h \in Replies \cup Items, reader' = [reader EXCEPT ![s] = reader'[s]], Takes(s, h),
               session' = session, o.at = "blocked"
        PROVE  ReaderType'
    <3> DEFINE r == reader'[s]
    <3>a. r = [o EXCEPT !.at = "put", !.hand = <<h>>] /\ <<h>> \in {<<x>> : x \in Replies \cup Items}
      BY <2>4 DEF Takes
    <3> HIDE DEF r
    <3>1. r \in Readers /\ r.at = "put" /\ r.on = o.on /\ r.hand = <<h>>
          /\ r.answers = o.answers /\ r.queues = o.queues
      BY <3>a, <2>0 DEF Readers, Places
    <3>2. r.on \in 0 .. session' /\ reader' = [reader EXCEPT ![s] = r]
      BY <2>4, <2>0, <3>1 DEF r
    <3>3. HandRight(r) /\ r.answers = {} /\ r.queues = {}
      BY <2>0, <2>4, <3>1 DEF HandRight
    <3> QED BY <2>4, <3>1, <3>2, <3>3, OneReader
  <2>5. CASE ReadLine(s)
    <3>1. PICK msg : /\ Took(s, msg)
                     /\ RouteResponse(s, msg) \/ RouteToQueue(s, msg) \/ RouteToPending(s, msg)
                          \/ ForgetTurn(s, msg) \/ Handle(s, msg)
      BY <2>5 DEF ReadLine
    <3>2. msg \in Lines /\ o.at = "blocked" /\ session' = session
      BY <3>1, TookLine DEF Took
    <3>3. CASE RouteResponse(s, msg)
      <4>1. msg \in Replies
        BY <3>2, <3>3, LineKinds DEF RouteResponse
      <4> QED BY <3>2, <3>3, <4>1, <2>2, <2>4, LineMoves
    <3>4. CASE RouteToQueue(s, msg)
      <4>1. msg.of \in Streams /\ msg.n \in Numbers
        BY <3>2, <3>4, LineKinds DEF RouteToQueue
      <4>2. Item(msg) \in Items
        BY <4>1 DEF Item, Items, RouterType
      <4> QED BY <3>2, <3>4, <4>2, <2>4, LineMoves
    <3>5. CASE RouteToPending(s, msg) \/ ForgetTurn(s, msg) \/ Handle(s, msg)
      BY <3>2, <3>5, <2>3, LineMoves
    <3> QED BY <3>1, <3>3, <3>4, <3>5
  <2>6. CASE PutResponse(s) \/ PutNotification(s)
    <3>1. o.at = "put" /\ session' = session
      BY <2>6 DEF PutResponse, PutNotification
    <3> QED BY <3>1, <2>6, <2>2, ReaderMoves
  <2>7. CASE HandlerReturns(s)
    <3>1. o.at = "handling" /\ session' = session
      BY <2>7 DEF HandlerReturns
    <3> QED BY <3>1, <2>7, <2>3, ReaderMoves
  <2>8. CASE FailAll(s)
    <3>1. /\ session' = session /\ o.at # "none"
          /\ o.hand = <<>> \/ o.hand[1].kind = "uncoded"
      <4>1. session' = session /\ (o.at \in {"check", "blocked", "handling"} \/ (o.at = "put" /\ o.hand[1].kind = "uncoded"))
        BY <2>8 DEF FailAll, Raises
      <4> QED BY <2>0, <2>b, <4>1
    <3>2. reader' = [reader EXCEPT ![s] = reader'[s]] /\ Snapshots(s)
      BY <2>8, ReaderMoves
    <3>3. waiters \in SUBSET Callers /\ {<<c, made[c]>> : c \in registered} \in SUBSET (Streams \X Nat)
      BY DEF RouterType
    <3> DEFINE r == reader'[s]
    <3>4. r \in Readers /\ r.at = "waking" /\ r.on = o.on /\ r.hand = o.hand
      BY <3>2, <3>3, <2>0, <2>a DEF Readers, Places, Snapshots
    <3>5. r.on \in 0 .. session' /\ HandRight(r) /\ reader' = [reader EXCEPT ![s] = r]
      BY <3>1, <3>2, <3>4, <2>0 DEF HandRight
    <3> HIDE DEF r
    <3> QED BY <3>1, <3>4, <3>5, OneReader
  <2>9. CASE Wake(s)
    <3>1. o.at = "waking" /\ session' = session
      BY <2>9 DEF Wake
    <3>2. reader' = [reader EXCEPT ![s] = reader'[s]] /\ Ends(s)
      BY <2>9, ReaderMoves
    <3> DEFINE r == reader'[s]
    <3>3. r \in Readers /\ r.at = "exited" /\ r.on = o.on /\ r.hand = o.hand /\ r.answers = {} /\ r.queues = {}
      BY <3>2, <2>0, <2>a DEF Readers, Places, Ends
    <3>4. r.on \in 0 .. session' /\ HandRight(r) /\ reader' = [reader EXCEPT ![s] = r]
      BY <3>1, <3>2, <3>3, <2>0 DEF HandRight
    <3> HIDE DEF r
    <3> QED BY <3>1, <3>3, <3>4, OneReader
  <2> QED BY <1>2, <2>1, <2>5, <2>6, <2>7, <2>8, <2>9 DEF ReaderThread
<1>3. CASE Close \/ ServerStep \/ (\E c \in Callers : CallerStep(c)) \/ \E c \in Streams : StreamStep(c)
  <2>1. reader' = reader
    BY <1>3 DEF Close, ServerStep, Respond, Notify, AskApproval, Crash, CallerStep, CreateWaiter,
       WriteRequest, WriteFails, GetAnswer, StreamStep, Registers, Register, Replay, LookUpLogin,
       GetNotification, GetFailure, CloseStream
  <2> session' \in 0 .. MaxSessions
    BY ServerTyped
  <2> QED BY <2>1, <1>0, OneReader DEF ReaderType
<1> QED BY <1>1, <1>2, <1>3, Steps

\* Queues of numbers and of replies: what a put and a get leave.
LEMMA Puts ==
  ASSUME NEW D, NEW S, NEW f, f \in [D -> Seq(S)], NEW c \in D, NEW x \in S
  PROVE  [f EXCEPT ![c] = Append(@, x)] \in [D -> Seq(S)]
OBVIOUS

LEMMA Gets ==
  ASSUME NEW D, NEW S, NEW f, f \in [D -> Seq(S)], NEW c \in D, f[c] # <<>>
  PROVE  [f EXCEPT ![c] = Tail(@)] \in [D -> Seq(S)] /\ Head(f[c]) \in S
OBVIOUS

LEMMA Replaced ==
  ASSUME NEW D, NEW S, NEW f, f \in [D -> Seq(S)], NEW c \in D, NEW q \in Seq(S)
  PROVE  [f EXCEPT ![c] = q] \in [D -> Seq(S)]
OBVIOUS

\* The hand of a reader about to put.
LEMMA Handed ==
  ASSUME ReaderType, NEW s \in Sessions, reader[s].at = "put"
  PROVE  reader[s].hand[1] \in Replies \cup Items
BY DEF ReaderType, Readers, HandRight

LEMMA HandKinds ==
  ASSUME NEW x \in Replies \cup Items
  PROVE  /\ x.kind \in Responses \cup {"item"} /\ "item" \notin Responses
         /\ x.kind = "item" => x \in Items /\ x.of \in Streams /\ x.n \in Numbers /\ x.to \in Nat
         /\ x.kind # "item" => x \in Replies /\ x.of \in Callers
BY Ranges DEF Replies, Items

\* Whatever leaves the queues, the waiters and the registrations as they are.
Unrouted == UNCHANGED <<waiters, answer, registered, pending, made, queue, replay>>

LEMMA RouterTyped ==
  ASSUME TypeInv, Next
  PROVE  RouterType'
<1> ServerType /\ ReaderType /\ RouterType /\ CallerType
  BY DEF TypeInv
<1> DEFINE Registrable == registered' \subseteq {c \in Streams : pc'[c] \in {"streaming", "handle", "lookup"}}
<1>0. ASSUME Unrouted, pc' = pc
      PROVE  RouterType'
  BY <1>0 DEF RouterType, Unrouted
<1>1. CASE Start \/ Close \/ ServerStep
  <2>1. Unrouted /\ pc' = pc
    BY <1>1 DEF Start, Close, ServerStep, Respond, Notify, AskApproval, Crash, Unrouted, router, callers
  <2> QED BY <2>1, <1>0
<1>2. ASSUME NEW s \in Sessions, ReaderThread(s)
      PROVE  RouterType'
  <2>1. CASE ReadLine(s)
    <3>1. PICK msg : /\ Took(s, msg)
                     /\ RouteResponse(s, msg) \/ RouteToQueue(s, msg) \/ RouteToPending(s, msg)
                          \/ ForgetTurn(s, msg) \/ Handle(s, msg)
      BY <2>1 DEF ReadLine
    <3>2. msg \in Lines /\ pc' = pc
      BY <3>1, TookLine DEF callers
    <3>3. CASE RouteResponse(s, msg)
      <4>1. waiters' \subseteq waiters /\ UNCHANGED <<answer, registered, pending, made, queue, replay>>
        BY <3>3 DEF RouteResponse
      <4> QED BY <3>2, <4>1 DEF RouterType
    <3>4. CASE RouteToQueue(s, msg) \/ Handle(s, msg)
      <4>1. Unrouted
        BY <3>4 DEF RouteToQueue, Handle, router, Unrouted
      <4> QED BY <3>2, <4>1, <1>0
    <3>5. CASE RouteToPending(s, msg)
      <4>1. msg.of \in Streams /\ msg.n \in Numbers
        BY <3>2, <3>5, LineKinds DEF RouteToPending
      <4>2. UNCHANGED <<waiters, answer, registered, made, queue, replay>>
            /\ pending' = [pending EXCEPT ![msg.of] = Append(@, msg.n)]
        BY <3>5 DEF RouteToPending
      <4>3. pending' \in [Streams -> Seq(Numbers)]
        BY <4>1, <4>2, Puts DEF RouterType
      <4> QED BY <3>2, <4>2, <4>3 DEF RouterType
    <3>6. CASE ForgetTurn(s, msg)
      <4>1. msg.of \in Streams
        BY <3>2, <3>6, LineKinds DEF ForgetTurn
      <4>2. UNCHANGED <<waiters, answer, registered, made, queue, replay>>
            /\ pending' = [pending EXCEPT ![msg.of] = <<>>]
        BY <3>6 DEF ForgetTurn
      <4>3. pending' \in [Streams -> Seq(Numbers)]
        BY <4>1, <4>2 DEF RouterType
      <4> QED BY <3>2, <4>2, <4>3 DEF RouterType
    <3> QED BY <3>1, <3>3, <3>4, <3>5, <3>6
  <2>2. CASE Check(s) \/ HandlerReturns(s)
    <3>1. Unrouted /\ pc' = pc
      BY <2>2 DEF Check, HandlerReturns, router, callers, Unrouted
    <3> QED BY <3>1, <1>0
  <2>3. CASE PutResponse(s)
    <3> DEFINE x == reader[s].hand[1]
    <3>1. x \in Replies \cup Items /\ x.kind \in {"result", "error"}
      BY <2>3, Handed DEF PutResponse
    <3>2. x.of \in Callers /\ x.kind \in Kinds
      BY <3>1, HandKinds DEF Kinds
    <3>3. answer' = [answer EXCEPT ![x.of] = Append(@, x.kind)]
          /\ UNCHANGED <<waiters, registered, pending, made, queue, replay>> /\ pc' = pc
      BY <2>3 DEF PutResponse, callers
    <3>4. answer' \in [Callers -> Seq(Kinds)]
      BY <3>2, <3>3, Puts DEF RouterType
    <3> QED BY <3>3, <3>4 DEF RouterType
  <2>4. CASE PutNotification(s)
    <3> DEFINE x == reader[s].hand[1]
    <3>1. x \in Replies \cup Items /\ x.kind = "item"
      BY <2>4, Handed DEF PutNotification
    <3>2. x.of \in Streams /\ x.n \in Numbers
      BY <3>1, HandKinds
    <3>3. queue' = [queue EXCEPT ![x.of] = Append(@, x.n)] \/ queue' = queue
      BY <2>4 DEF PutNotification
    <3>4. UNCHANGED <<waiters, answer, registered, pending, made, replay>> /\ pc' = pc
      BY <2>4 DEF PutNotification, callers
    <3> HIDE DEF x
    <3>5. [queue EXCEPT ![x.of] = Append(@, x.n)] \in [Streams -> Seq(Numbers)]
      BY <3>2, Puts DEF RouterType
    <3>6. queue' \in [Streams -> Seq(Numbers)]
      BY <3>3, <3>5 DEF RouterType
    <3> QED BY <3>4, <3>6 DEF RouterType
  <2>5. CASE FailAll(s)
    <3>1. waiters' = {} /\ registered' \subseteq registered /\ pending' = [c \in Streams |-> <<>>]
          /\ UNCHANGED <<answer, made, queue, replay>> /\ pc' = pc
      BY <2>5 DEF FailAll, callers
    <3>2. pending' \in [Streams -> Seq(Numbers)]
      BY <3>1
    <3> QED BY <3>1, <3>2 DEF RouterType
  <2>6. CASE Wake(s)
    <3>1. \A c \in Callers : answer[c] \in Seq(Kinds) /\ Append(answer[c], "exception") \in Seq(Kinds)
      BY DEF RouterType, Kinds
    <3>2. \A c \in Streams : queue[c] \in Seq(Numbers) /\ Append(queue[c], Failure) \in Seq(Numbers)
      BY Ranges DEF RouterType
    <3>3. answer' \in [Callers -> Seq(Kinds)]
      BY <2>6, <3>1 DEF Wake
    <3>4. queue' \in [Streams -> Seq(Numbers)]
      BY <2>6, <3>2 DEF Wake
    <3>5. UNCHANGED <<waiters, registered, pending, made, replay>> /\ pc' = pc
      BY <2>6 DEF Wake, callers
    <3> QED BY <3>3, <3>4, <3>5 DEF RouterType
  <2> QED BY <1>2, <2>1, <2>2, <2>3, <2>4, <2>5, <2>6 DEF ReaderThread
<1>3. ASSUME NEW c \in Callers, CallerStep(c)
      PROVE  RouterType'
  <2>1. /\ waiters' \subseteq waiters \cup {c}
        /\ UNCHANGED <<registered, pending, made, queue, replay>>
        /\ pc[c] \in {"idle", "write", "waiting"} /\ \A d \in Callers \ {c} : pc'[d] = pc[d]
    BY <1>3 DEF CallerStep, CreateWaiter, WriteRequest, WriteFails, GetAnswer, router, Goto, CallerType
  <2>2. Registrable
    BY <2>1, Ranges DEF RouterType
  <2>3. answer' \in [Callers -> Seq(Kinds)]
    <3>1. CASE GetAnswer(c)
      <4>1. answer[c] # <<>> /\ answer' = [answer EXCEPT ![c] = Tail(@)]
        BY <3>1 DEF GetAnswer
      <4> QED BY <4>1, Gets DEF RouterType
    <3>2. CASE ~GetAnswer(c)
      <4>1. answer' = answer
        BY <1>3, <3>2 DEF CallerStep, CreateWaiter, WriteRequest, WriteFails, router
      <4> QED BY <4>1 DEF RouterType
    <3> QED BY <3>1, <3>2
  <2> QED BY <2>1, <2>2, <2>3 DEF RouterType
<1>4. ASSUME NEW c \in Streams, StreamStep(c)
      PROVE  RouterType'
  <2> c \in Callers
    BY Ranges
  <2>0. UNCHANGED <<waiters, answer>> /\ \A d \in Callers \ {c} : pc'[d] = pc[d]
    BY <1>4 DEF StreamStep, Registers, Register, Replay, LookUpLogin, GetNotification, GetFailure,
       CloseStream, Unregister, Goto, router, callers, CallerType
  <2>1. CASE Registers(c)
    <3>1. PICK to \in {"streaming", "handle", "lookup"} : Register(c, to)
      BY <2>1 DEF Registers
    <3>2. pc'[c] = to /\ registered' \subseteq registered \cup {c}
      BY <3>1 DEF Register, Goto, CallerType
    <3>3. Registrable
      BY <2>0, <3>2, Ranges DEF RouterType
    <3>4. CASE c \in registered
      <4>1. UNCHANGED <<pending, made, replay, queue>>
        BY <3>1, <3>4 DEF Register
      <4> QED BY <2>0, <3>3, <4>1 DEF RouterType
    <3>5. CASE c \notin registered
      <4>1. /\ replay' = [replay EXCEPT ![c] = pending[c]] /\ pending' = [pending EXCEPT ![c] = <<>>]
            /\ made' = [made EXCEPT ![c] = @ + 1] /\ queue' = [queue EXCEPT ![c] = <<>>]
        BY <3>1, <3>5 DEF Register
      <4>2. pending[c] \in Seq(Numbers) /\ <<>> \in Seq(Numbers)
        BY DEF RouterType
      <4>3. replay' \in [Streams -> Seq(Numbers)] /\ pending' \in [Streams -> Seq(Numbers)]
            /\ queue' \in [Streams -> Seq(Numbers)]
        BY <4>1, <4>2, Replaced DEF RouterType
      <4>4. made' \in [Streams -> Nat]
        BY <4>1 DEF RouterType
      <4> QED BY <2>0, <3>3, <4>3, <4>4 DEF RouterType
    <3> QED BY <3>4, <3>5
  <2>2. CASE Replay(c)
    <3>1. /\ replay[c] # <<>> /\ queue' = [queue EXCEPT ![c] = Append(@, Head(replay[c]))]
          /\ replay' = [replay EXCEPT ![c] = Tail(@)] /\ UNCHANGED <<registered, pending, made>> /\ pc' = pc
      BY <2>2 DEF Replay, callers
    <3>2. Head(replay[c]) \in Numbers /\ replay' \in [Streams -> Seq(Numbers)]
      BY <3>1, Gets DEF RouterType
    <3>3. queue' \in [Streams -> Seq(Numbers)]
      BY <3>1, <3>2, Puts DEF RouterType
    <3> QED BY <2>0, <3>1, <3>2, <3>3 DEF RouterType
  <2>3. CASE LookUpLogin(c)
    <3>1. Unrouted /\ (c \in registered => pc'[c] = "streaming")
      BY <2>3 DEF LookUpLogin, Unrouted, router, Goto, CallerType
    <3>2. Registrable
      BY <2>0, <3>1, Ranges DEF RouterType, Unrouted
    <3> QED BY <3>1, <3>2 DEF RouterType, Unrouted
  <2>4. CASE GetNotification(c) \/ GetFailure(c)
    <3>1. queue[c] # <<>> /\ queue' = [queue EXCEPT ![c] = Tail(@)] /\ UNCHANGED <<pending, made, replay>>
      BY <2>4 DEF GetNotification, GetFailure
    <3>2. queue' \in [Streams -> Seq(Numbers)]
      BY <3>1, Gets DEF RouterType
    <3>3. (registered' = registered /\ pc' = pc) \/ registered' = registered \ {c}
      BY <2>4 DEF GetNotification, GetFailure, Unregister
    <3>4. Registrable
      BY <2>0, <3>3, Ranges DEF RouterType
    <3> QED BY <2>0, <3>1, <3>2, <3>4 DEF RouterType
  <2>5. CASE CloseStream(c)
    <3>1. UNCHANGED <<pending, made, queue, replay>> /\ registered' = registered \ {c}
      BY <2>5 DEF CloseStream, Unregister
    <3>2. Registrable
      BY <2>0, <3>1, Ranges DEF RouterType
    <3> QED BY <2>0, <3>1, <3>2 DEF RouterType
  <2> QED BY <1>4, <2>1, <2>2, <2>3, <2>4, <2>5 DEF StreamStep
<1> QED BY <1>1, <1>2, <1>3, <1>4, Steps

LEMMA CallerTyped ==
  ASSUME TypeInv, Next
  PROVE  CallerType'
<1> ServerType /\ ReaderType /\ RouterType /\ CallerType
  BY DEF TypeInv
<1> session \in Nat /\ session' \in Nat /\ session <= session'
  BY ServerTyped, Ranges DEF ServerType
<1>0. sentIn \in [Callers -> 0 .. session']
  BY DEF CallerType
<1>1. ASSUME callers' = callers, dropped' \subseteq Streams, buffered' \subseteq Streams \X Numbers
      PROVE  CallerType'
  BY <1>0, <1>1 DEF callers, CallerType
<1>2. CASE Start \/ Close \/ ServerStep
  <2>1. callers' = callers /\ UNCHANGED <<dropped, buffered>>
    BY <1>2 DEF Start, Close, ServerStep, Respond, Notify, AskApproval, Crash
  <2> QED BY <2>1, <1>1 DEF CallerType
<1>3. ASSUME NEW s \in Sessions, ReaderThread(s)
      PROVE  CallerType'
  <2>1. CASE ReadLine(s)
    <3>1. PICK msg : /\ Took(s, msg)
                     /\ RouteResponse(s, msg) \/ RouteToQueue(s, msg) \/ RouteToPending(s, msg)
                          \/ ForgetTurn(s, msg) \/ Handle(s, msg)
      BY <2>1 DEF ReadLine
    <3>2. msg \in Lines /\ callers' = callers
      BY <3>1, TookLine
    <3>3. msg.kind = "notification" => msg.of \in Streams /\ msg.n \in Numbers
      BY <3>2, LineKinds
    <3>4. dropped' \subseteq Streams
      BY <3>1, <3>3 DEF RouteResponse, RouteToQueue, RouteToPending, ForgetTurn, Handle, CallerType
    <3>5. buffered' = buffered \/ (msg.kind = "notification" /\ buffered' = buffered \cup {<<msg.of, msg.n>>})
      BY <3>1 DEF RouteResponse, RouteToQueue, RouteToPending, ForgetTurn, Handle
    <3>6. buffered' \subseteq Streams \X Numbers
      BY <3>3, <3>5 DEF CallerType
    <3> QED BY <3>2, <3>4, <3>6, <1>1
  <2>2. CASE Check(s) \/ PutResponse(s) \/ HandlerReturns(s) \/ FailAll(s) \/ Wake(s)
    <3>1. callers' = callers /\ buffered' = buffered /\ dropped' \subseteq dropped \cup Streams
      BY <2>2 DEF Check, PutResponse, HandlerReturns, FailAll, Wake
    <3> QED BY <3>1, <1>1 DEF CallerType
  <2>3. CASE PutNotification(s)
    <3>1. reader[s].hand[1] \in Replies \cup Items /\ reader[s].hand[1].kind = "item"
      BY <2>3, Handed DEF PutNotification
    <3>2. reader[s].hand[1].of \in Streams
      BY <3>1, HandKinds
    <3>3. callers' = callers /\ buffered' = buffered /\ dropped' \subseteq dropped \cup {reader[s].hand[1].of}
      BY <2>3 DEF PutNotification
    <3> QED BY <3>2, <3>3, <1>1 DEF CallerType
  <2> QED BY <1>3, <2>1, <2>2, <2>3 DEF ReaderThread
<1>4. ASSUME NEW c \in Callers, CallerStep(c)
      PROVE  CallerType'
  <2>1. UNCHANGED <<received, dropped, buffered>> /\ late' \subseteq late \cup {c}
    BY <1>4 DEF CallerStep, CreateWaiter, WriteRequest, WriteFails, GetAnswer
  <2>2. CASE WriteRequest(c)
    <3>1. session \in alive /\ pc' = [pc EXCEPT ![c] = "waiting"] /\ sentIn' = [sentIn EXCEPT ![c] = session]
          /\ session' = session
      BY <2>2 DEF WriteRequest, Goto
    <3>2. session \in Sessions /\ session \in 0 .. session'
      BY <3>1, Ranges DEF ServerType
    <3>3. pc' \in [Callers -> Labels] /\ sentIn' \in [Callers -> 0 .. session']
      BY <3>1, <3>2, <1>0 DEF CallerType, Labels
    <3>4. \A d \in Callers : pc'[d] \notin {"idle", "write", "raised"} => sentIn'[d] \in Sessions
      BY <3>1, <3>2 DEF CallerType
    <3>5. \A d \in Callers : pc'[d] \in {"register", "handle", "lookup", "streaming"} => d \in Streams
      BY <3>1 DEF CallerType
    <3> QED BY <2>1, <3>3, <3>4, <3>5 DEF CallerType
  <2>3. CASE CreateWaiter(c) \/ WriteFails(c) \/ GetAnswer(c)
    <3>0. sentIn' = sentIn
      BY <2>3 DEF CreateWaiter, WriteFails, GetAnswer
    <3>1. PICK l \in Labels : /\ pc' = [pc EXCEPT ![c] = l]
                              /\ l \in {"write", "raised"} \/ pc[c] = "waiting"
                              /\ l \in {"register", "handle", "lookup", "streaming"} => c \in Streams
      BY <2>3 DEF CreateWaiter, WriteFails, GetAnswer, Goto, Labels
    <3>2. pc' \in [Callers -> Labels]
      BY <3>1 DEF CallerType
    <3>3. \A d \in Callers : pc'[d] \notin {"idle", "write", "raised"} => sentIn'[d] \in Sessions
      BY <3>0, <3>1 DEF CallerType
    <3>4. \A d \in Callers : pc'[d] \in {"register", "handle", "lookup", "streaming"} => d \in Streams
      BY <3>1 DEF CallerType
    <3> QED BY <1>0, <2>1, <3>0, <3>2, <3>3, <3>4 DEF CallerType
  <2> QED BY <1>4, <2>2, <2>3 DEF CallerStep
<1>5. ASSUME NEW c \in Streams, StreamStep(c)
      PROVE  CallerType'
  <2> c \in Callers
    BY Ranges
  <2>1. sentIn' = sentIn /\ buffered' = buffered /\ late' \subseteq late \cup {c} /\ dropped' \subseteq dropped \cup {c}
    BY <1>5 DEF StreamStep, Registers, Register, Replay, LookUpLogin, GetNotification, GetFailure,
       CloseStream, callers
  <2>2. pc' = pc \/ (/\ pc[c] \in {"register", "handle", "lookup", "streaming"}
                     /\ \E l \in Labels : pc' = [pc EXCEPT ![c] = l])
    <3>1. CASE Registers(c)
      BY <3>1 DEF Registers, Register, Goto, Labels
    <3>2. CASE ~Registers(c)
      BY <1>5, <3>2 DEF StreamStep, Replay, LookUpLogin, GetNotification, GetFailure,
         CloseStream, callers, Goto, Labels
    <3> QED BY <3>1, <3>2
  <2>3. pc' \in [Callers -> Labels]
    BY <2>2 DEF CallerType
  <2>4. \A d \in Callers : pc'[d] \notin {"idle", "write", "raised"} => sentIn'[d] \in Sessions
    BY <2>1, <2>2 DEF CallerType
  <2>a. \A d \in Callers : pc'[d] \in {"register", "handle", "lookup", "streaming"} => d \in Streams
    BY <2>2 DEF CallerType
  <2>5. received' \in [Streams -> Seq(Numbers)]
    <3>1. CASE GetNotification(c)
      <4>1. queue[c] # <<>> /\ received' = [received EXCEPT ![c] = Append(@, Head(queue[c]))]
        BY <3>1 DEF GetNotification
      <4>2. Head(queue[c]) \in Numbers
        BY <4>1, Gets DEF RouterType
      <4> QED BY <4>1, <4>2, Puts DEF CallerType
    <3>2. CASE ~GetNotification(c)
      <4>1. received' = received
        BY <1>5, <3>2 DEF StreamStep, Registers, Register, Replay, LookUpLogin, GetFailure,
           CloseStream, callers
      <4> QED BY <4>1 DEF CallerType
    <3> QED BY <3>1, <3>2
  <2> QED BY <1>0, <2>1, <2>3, <2>4, <2>5, <2>a DEF CallerType
<1> QED BY <1>2, <1>3, <1>4, <1>5, Steps

\* The state the client starts in.
LEMMA InitTyped ==
  ASSUME Init
  PROVE  TypeInv
<1>1. ServerType
  <2>1. session \in 0 .. MaxSessions /\ approvals \in 0 .. MaxApprovals /\ alive \subseteq 1 .. session
    BY Ranges DEF Init
  <2>2. proc \in BOOLEAN /\ ~proc
    BY DEF Init
  <2>3. wire \in [Sessions -> Seq(Lines)]
    BY DEF Init
  <2>4. asked \subseteq Callers /\ started \subseteq Streams /\ sent \in [Streams -> Numbers]
    BY Ranges DEF Init
  <2> QED BY <2>1, <2>2, <2>3, <2>4 DEF ServerType
<1>2. Idle \in Readers
  BY Ranges DEF Idle, Readers, Places
<1>3. ReaderType
  BY <1>2 DEF Init, ReaderType, Idle, HandRight
<1>4. RouterType
  BY DEF Init, RouterType
<1>5. CallerType
  BY Ranges DEF Init, CallerType, Labels
<1> QED BY <1>1, <1>3, <1>4, <1>5 DEF TypeInv

\* A step that changes nothing.
LEMMA StutterTyped ==
  ASSUME TypeInv, UNCHANGED vars
  PROVE  TypeInv'
BY DEF TypeInv, vars, server, router, callers, ServerType, ReaderType, RouterType, CallerType

-----------------------------------------------------------------------------
(* AnsweredOnce. *)

\* A reader that has the answer to a request in its hand, or its waiter in a snapshot.
Carries(s, c) ==
  /\ reader[s].hand # <<>>
  /\ reader[s].hand[1].kind \in Responses
  /\ reader[s].hand[1].of = c

Holds(s, c) == c \in reader[s].answers \/ Carries(s, c)

Past(c) == pc[c] \notin {"idle", "write", "waiting", "raised"}

\* The answer to a request is in one place at most, and nowhere before the request is made.
Once(c) ==
  /\ Len(answer[c]) <= 1
  /\ c \in waiters => Len(answer[c]) = 0 /\ pc[c] \in {"write", "waiting"} /\ \A s \in Sessions : ~Holds(s, c)
  /\ \A s \in Sessions : Holds(s, c) =>
       Len(answer[c]) = 0 /\ ~Past(c) /\ pc[c] # "idle" /\ \A t \in Sessions : Holds(t, c) => t = s
  /\ Len(answer[c]) = 1 => ~Past(c) /\ pc[c] # "idle"

OnceInv == \A c \in Callers : Once(c)

\* Who waits to be woken is nobody whose answer the same reader could not put.
SnapshotInv == \A s \in Sessions : \A c \in reader[s].answers : ~Carries(s, c)

LEMMA Lengths ==
  ASSUME NEW S, NEW q \in Seq(S), Len(q) <= 1
  PROVE  /\ Len(q) = 0 \/ Len(q) = 1
         /\ q # <<>> => Len(q) = 1 /\ Len(Tail(q)) = 0
<1> DEFINE n == Len(q)
<1>1. n \in Nat /\ n <= 1
  BY LenProperties
<1> HIDE DEF n
<1>a. n = 0 \/ n = 1
  BY <1>1
<1>2. Len(q) = 0 \/ Len(q) = 1
  BY <1>a DEF n
<1>3. ASSUME q # <<>>
      PROVE  Len(q) = 1 /\ Len(Tail(q)) = 0
  <2>1. Len(q) # 0
    BY <1>3, EmptySeq
  <2>2. Len(Tail(q)) = Len(q) - 1
    BY <1>3, HeadTailProperties
  <2> QED BY <1>2, <2>1, <2>2
<1> QED BY <1>2, <1>3

\* A step that hands no answer on: no reader gets one, none is put, and a caller moves on only
\* from where it has none.
LEMMA NothingHandedOn ==
  ASSUME TypeInv, OnceInv, waiters' \subseteq waiters, answer' = answer,
         \A s \in Sessions : \A c \in Callers : Holds(s, c)' => Holds(s, c),
         \A c \in Callers : (Past(c)' => Past(c)) /\ (pc'[c] = "idle" => pc[c] = "idle"),
         \A c \in Callers : c \in waiters' => pc'[c] \in {"write", "waiting"}
  PROVE  OnceInv'
BY DEF OnceInv, Once

\* The readers a step leaves alone hold what they held.
LEMMA HeldElsewhere ==
  ASSUME TypeInv, NEW s \in Sessions, reader' = [reader EXCEPT ![s] = reader'[s]]
  PROVE  \A t \in Sessions \ {s} : \A c \in Callers : Holds(t, c)' <=> Holds(t, c)
BY DEF Holds, Carries, TypeInv, ReaderType

\* What a reader holds after its step.
LEMMA HeldHere ==
  ASSUME TypeInv, NEW s \in Sessions
  PROVE  /\ \A l : At(s, l) => \A c \in Callers : Holds(s, c)' <=> Holds(s, c)
         /\ reader'[s] = [reader[s] EXCEPT !.at = "blocked", !.on = session]
              => \A c \in Callers : Holds(s, c)' <=> Holds(s, c)
         /\ Empties(s) /\ reader[s].at # "waking" => \A c \in Callers : ~Holds(s, c)'
         /\ Ends(s) => \A c \in Callers : Holds(s, c)' <=> Carries(s, c)
<1> reader[s] \in Readers /\ (reader[s].at # "waking" => reader[s].answers = {})
  BY DEF TypeInv, ReaderType
<1>1. ASSUME NEW l, At(s, l)
      PROVE  \A c \in Callers : Holds(s, c)' <=> Holds(s, c)
  <2>1. reader'[s].answers = reader[s].answers /\ reader'[s].hand = reader[s].hand
    BY <1>1 DEF At, Readers
  <2> QED BY <2>1 DEF Holds, Carries
<1>2. ASSUME reader'[s] = [reader[s] EXCEPT !.at = "blocked", !.on = session]
      PROVE  \A c \in Callers : Holds(s, c)' <=> Holds(s, c)
  <2>1. reader'[s].answers = reader[s].answers /\ reader'[s].hand = reader[s].hand
    BY <1>2 DEF Readers
  <2> QED BY <2>1 DEF Holds, Carries
<1>3. ASSUME Empties(s), reader[s].at # "waking"
      PROVE  \A c \in Callers : ~Holds(s, c)'
  <2>1. reader'[s].answers = {} /\ reader'[s].hand = <<>>
    BY <1>3 DEF Empties, Readers
  <2> QED BY <2>1 DEF Holds, Carries
<1>4. ASSUME Ends(s)
      PROVE  \A c \in Callers : Holds(s, c)' <=> Carries(s, c)
  <2>1. reader'[s].answers = {} /\ reader'[s].hand = reader[s].hand
    BY <1>4 DEF Ends, Readers
  <2> QED BY <2>1 DEF Holds, Carries
<1> QED BY <1>1, <1>2, <1>3, <1>4

\* A reader that takes a line holds it if it is a response.
LEMMA HeldTaken ==
  ASSUME TypeInv, NEW s \in Sessions, reader[s].at = "blocked", NEW h \in Replies \cup Items, Takes(s, h)
  PROVE  /\ \A c \in Callers : Holds(s, c)' <=> (h.kind # "item" /\ h.of = c)
         /\ \A c \in Callers : ~Holds(s, c)
<1>1. reader[s] \in Readers /\ reader[s].answers = {} /\ reader[s].hand = <<>>
  BY DEF TypeInv, ReaderType, HandRight
<1>2. reader'[s].answers = {} /\ reader'[s].hand = <<h>>
  BY <1>1 DEF Takes, Readers
<1>3. h.kind \in Responses <=> h.kind # "item"
  BY HandKinds
<1> QED BY <1>1, <1>2, <1>3 DEF Holds, Carries

LEMMA OnceByReader ==
  ASSUME TypeInv, OnceInv, SnapshotInv, NEW s \in Sessions, ReaderThread(s)
  PROVE  OnceInv'
<1> ServerType /\ ReaderType /\ RouterType /\ CallerType
  BY DEF TypeInv
<1>0. pc' = pc
  <2>1. CASE ReadLine(s)
    BY <2>1 DEF ReadLine, Took, callers
  <2>2. CASE ~ReadLine(s)
    BY <2>2 DEF ReaderThread, Check, PutResponse, PutNotification, HandlerReturns, FailAll, Wake, callers
  <2> QED BY <2>1, <2>2
<1>a. \A c \in Callers : (Past(c)' <=> Past(c))
  BY <1>0 DEF Past
<1>b. ASSUME waiters' \subseteq waiters, answer' = answer,
             reader' = [reader EXCEPT ![s] = reader'[s]],
             \A c \in Callers : Holds(s, c)' => Holds(s, c)
      PROVE  OnceInv'
  <2>1. \A t \in Sessions : \A c \in Callers : Holds(t, c)' => Holds(t, c)
    BY <1>b, HeldElsewhere
  <2>2. \A c \in Callers : c \in waiters' => pc'[c] \in {"write", "waiting"}
    BY <1>0, <1>b DEF OnceInv, Once
  <2> QED BY <1>0, <1>a, <1>b, <2>1, <2>2, NothingHandedOn
<1>1. CASE ReadLine(s)
  <2>1. PICK msg : /\ Took(s, msg)
                   /\ RouteResponse(s, msg) \/ RouteToQueue(s, msg) \/ RouteToPending(s, msg)
                        \/ ForgetTurn(s, msg) \/ Handle(s, msg)
    BY <1>1 DEF ReadLine
  <2>2. msg \in Lines /\ reader[s].at = "blocked"
    BY <2>1, TookLine DEF Took
  <2>3. CASE RouteResponse(s, msg) /\ msg.of \in waiters
    <3>1. /\ waiters' = waiters \ {msg.of} /\ answer' = answer
          /\ reader' = [reader EXCEPT ![s] = reader'[s]] /\ Takes(s, msg)
      BY <2>2, <2>3, LineMoves DEF RouteResponse
    <3>2. msg \in Replies /\ msg.kind # "item"
      BY <2>2, <2>3, LineKinds DEF RouteResponse
    <3>3. \A c \in Callers : Holds(s, c)' <=> msg.of = c
      BY <2>2, <3>1, <3>2, HeldTaken
    <3>4. \A t \in Sessions \ {s} : \A c \in Callers : Holds(t, c)' <=> Holds(t, c)
      BY <3>1, HeldElsewhere
    <3>5. \A c \in Callers : ~Holds(s, c)
      BY <2>2, <3>1, <3>2, HeldTaken
    <3>6. ASSUME NEW c \in Callers
          PROVE  Once(c)'
      <4>1. Once(c)
        BY DEF OnceInv
      <4>2. CASE c = msg.of
        <5>1. c \in waiters /\ c \notin waiters'
          BY <2>3, <3>1, <4>2
        <5> QED BY <1>0, <1>a, <3>1, <3>3, <3>4, <4>1, <4>2, <5>1 DEF Once, Past
      <4>3. CASE c # msg.of
        BY <1>0, <1>a, <3>1, <3>3, <3>4, <3>5, <4>1, <4>3 DEF Once
      <4> QED BY <4>2, <4>3
    <3> QED BY <3>6 DEF OnceInv
  <2>4. CASE RouteResponse(s, msg) /\ msg.of \notin waiters
    <3>1. waiters' \subseteq waiters /\ answer' = answer
      BY <2>4 DEF RouteResponse
    <3>2. reader' = [reader EXCEPT ![s] = reader'[s]] /\ Empties(s)
      BY <2>2, <2>4, LineMoves
    <3>3. \A c \in Callers : ~Holds(s, c)'
      BY <2>2, <3>2, HeldHere
    <3> QED BY <3>1, <3>2, <3>3, <1>b
  <2>5. CASE RouteToQueue(s, msg)
    <3>1. waiters' \subseteq waiters /\ answer' = answer
      BY <2>5 DEF RouteToQueue, router
    <3>2. reader' = [reader EXCEPT ![s] = reader'[s]] /\ Takes(s, Item(msg))
      BY <2>2, <2>5, LineMoves
    <3>3. msg.of \in Streams /\ msg.n \in Numbers
      BY <2>2, <2>5, LineKinds DEF RouteToQueue
    <3>4. Item(msg) \in Items /\ Item(msg).kind = "item"
      BY <3>3 DEF Item, Items, RouterType
    <3>5. \A c \in Callers : ~Holds(s, c)'
      BY <2>2, <3>2, <3>4, HeldTaken
    <3> QED BY <3>1, <3>2, <3>5, <1>b
  <2>6. CASE RouteToPending(s, msg) \/ ForgetTurn(s, msg) \/ Handle(s, msg)
    <3>1. waiters' \subseteq waiters /\ answer' = answer
      BY <2>6 DEF RouteToPending, ForgetTurn, Handle, router
    <3>2. reader' = [reader EXCEPT ![s] = reader'[s]] /\ \E l : At(s, l)
      BY <2>2, <2>6, LineMoves
    <3>3. \A c \in Callers : Holds(s, c)' <=> Holds(s, c)
      BY <3>2, HeldHere
    <3> QED BY <3>1, <3>2, <3>3, <1>b
  <2> QED BY <2>1, <2>3, <2>4, <2>5, <2>6
<1>2. CASE Check(s) \/ HandlerReturns(s)
  <2>1. waiters' \subseteq waiters /\ answer' = answer
    BY <1>2 DEF Check, HandlerReturns, router
  <2>2. reader' = [reader EXCEPT ![s] = reader'[s]] /\ \A c \in Callers : Holds(s, c)' <=> Holds(s, c)
    BY <1>2, ReaderMoves, HeldHere
  <2> QED BY <2>1, <2>2, <1>b
<1>3. CASE PutNotification(s)
  <2>1. waiters' \subseteq waiters /\ answer' = answer /\ reader[s].at = "put"
    BY <1>3 DEF PutNotification
  <2>2. reader' = [reader EXCEPT ![s] = reader'[s]] /\ \A c \in Callers : ~Holds(s, c)'
    BY <1>3, <2>1, ReaderMoves, HeldHere
  <2> QED BY <2>1, <2>2, <1>b
<1>4. CASE PutResponse(s)
  <2> DEFINE x == reader[s].hand[1]
  <2>1. x.kind \in {"result", "error"} /\ answer' = [answer EXCEPT ![x.of] = Append(@, x.kind)]
        /\ waiters' = waiters /\ reader[s].at = "put"
    BY <1>4 DEF PutResponse
  <2>2. x.of \in Callers /\ reader[s].hand # <<>>
    BY <2>1, Handed, HandKinds DEF ReaderType, HandRight
  <2>3. Holds(s, x.of) /\ x.kind \in Kinds
    BY <2>1, <2>2, Ranges DEF Holds, Carries, Kinds
  <2>4. \A t \in Sessions \ {s} : \A c \in Callers : Holds(t, c)' <=> Holds(t, c)
    BY <1>4, ReaderMoves, HeldElsewhere
  <2>5. \A c \in Callers : ~Holds(s, c)'
    BY <1>4, <2>1, ReaderMoves, HeldHere
  <2> HIDE DEF x
  <2>6. ASSUME NEW c \in Callers
        PROVE  Once(c)'
    <3>1. Once(c) /\ answer[c] \in Seq(Kinds)
      BY DEF OnceInv, RouterType
    <3>2. CASE c = x.of
      <4>1. c \notin waiters /\ Len(answer[c]) = 0 /\ ~Past(c) /\ pc[c] # "idle"
            /\ \A t \in Sessions \ {s} : ~Holds(t, c)
        BY <2>3, <3>1, <3>2 DEF Once
      <4>2. answer'[c] = Append(answer[c], x.kind)
        BY <2>1, <3>2 DEF RouterType
      <4>3. Len(answer'[c]) = 1
        BY <2>3, <3>1, <4>1, <4>2
      <4> QED BY <1>0, <1>a, <2>1, <2>4, <2>5, <4>1, <4>3 DEF Once
    <3>3. CASE c # x.of
      <4>1. answer'[c] = answer[c]
        BY <2>1, <3>3 DEF RouterType
      <4> QED BY <1>0, <1>a, <2>1, <2>4, <2>5, <3>1, <4>1 DEF Once
    <3> QED BY <3>2, <3>3
  <2> QED BY <2>6 DEF OnceInv
<1>5. CASE FailAll(s)
  <2>1. waiters' = {} /\ answer' = answer /\ reader[s].at # "waking"
    BY <1>5 DEF FailAll, Raises
  <2>2. reader' = [reader EXCEPT ![s] = reader'[s]] /\ Snapshots(s)
    BY <1>5, ReaderMoves
  <2>3. reader[s].answers = {} /\ reader[s] \in Readers
    BY <2>1 DEF ReaderType
  <2>4. reader'[s].answers = waiters /\ reader'[s].hand = reader[s].hand
    BY <2>2, <2>3 DEF Snapshots, Readers
  <2>5. \A c \in Callers : Holds(s, c)' <=> (c \in waiters \/ Holds(s, c))
    BY <2>3, <2>4 DEF Holds, Carries
  <2>6. \A t \in Sessions \ {s} : \A c \in Callers : Holds(t, c)' <=> Holds(t, c)
    BY <2>2, HeldElsewhere
  <2>7. \A c \in Callers : Once(c)
    BY DEF OnceInv
  <2>8. ASSUME NEW c \in Callers
        PROVE  Once(c)'
    <3>1. CASE c \in waiters
      BY <1>0, <1>a, <2>1, <2>5, <2>6, <2>7, <3>1 DEF Once, Past
    <3>2. CASE c \notin waiters
      BY <1>0, <1>a, <2>1, <2>5, <2>6, <2>7, <3>2 DEF Once
    <3> QED BY <3>1, <3>2
  <2> QED BY <2>8 DEF OnceInv
<1>6. CASE Wake(s)
  <2>1. waiters' = waiters /\ reader[s].at = "waking"
        /\ answer' = [c \in Callers |-> IF c \in reader[s].answers THEN Append(answer[c], "exception")
                                                                  ELSE answer[c]]
    BY <1>6 DEF Wake
  <2>2. \A t \in Sessions \ {s} : \A c \in Callers : Holds(t, c)' <=> Holds(t, c)
    BY <1>6, ReaderMoves, HeldElsewhere
  <2>3. \A c \in Callers : Holds(s, c)' <=> Carries(s, c)
    BY <1>6, ReaderMoves, HeldHere
  <2>4. ASSUME NEW c \in Callers
        PROVE  Once(c)'
    <3>1. Once(c) /\ answer[c] \in Seq(Kinds)
      BY DEF OnceInv, RouterType
    <3>2. CASE c \in reader[s].answers
      <4>1. Holds(s, c)
        BY <3>2 DEF Holds
      <4>2. c \notin waiters /\ Len(answer[c]) = 0 /\ ~Past(c) /\ pc[c] # "idle"
            /\ \A t \in Sessions \ {s} : ~Holds(t, c)
        BY <3>1, <4>1 DEF Once
      <4>3. answer'[c] = Append(answer[c], "exception") /\ "exception" \in Kinds
        BY <2>1, <3>2 DEF Kinds
      <4>4. Len(answer'[c]) = 1
        BY <3>1, <4>2, <4>3
      <4>5. ~Holds(s, c)'
        BY <2>3, <3>2 DEF SnapshotInv
      <4> QED BY <1>0, <1>a, <2>1, <2>2, <4>2, <4>4, <4>5 DEF Once
    <3>3. CASE c \notin reader[s].answers
      <4>1. answer'[c] = answer[c]
        BY <2>1, <3>3
      <4>2. Holds(s, c)' <=> Holds(s, c)
        BY <2>3, <3>3 DEF Holds
      <4> QED BY <1>0, <1>a, <2>1, <2>2, <3>1, <4>1, <4>2 DEF Once
    <3> QED BY <3>2, <3>3
  <2> QED BY <2>4 DEF OnceInv
<1> QED BY <1>1, <1>2, <1>3, <1>4, <1>5, <1>6 DEF ReaderThread

LEMMA OnceByCaller ==
  ASSUME TypeInv, OnceInv, NEW c \in Callers, CallerStep(c)
  PROVE  OnceInv'
<1> RouterType /\ CallerType
  BY DEF TypeInv
<1>0. reader' = reader
  BY DEF CallerStep, CreateWaiter, WriteRequest, WriteFails, GetAnswer
<1>1. \A s \in Sessions : \A d \in Callers : Holds(s, d)' <=> Holds(s, d)
  BY <1>0 DEF Holds, Carries
<1>2. \A d \in Callers \ {c} : pc'[d] = pc[d]
  BY DEF CallerStep, CreateWaiter, WriteRequest, WriteFails, GetAnswer, Goto, CallerType
<1>3. \A d \in Callers \ {c} : answer'[d] = answer[d] /\ (d \in waiters' <=> d \in waiters)
  BY DEF CallerStep, CreateWaiter, WriteRequest, WriteFails, GetAnswer, RouterType, router
<1>4. Once(c)'
  <2>1. Once(c) /\ answer[c] \in Seq(Kinds)
    BY DEF OnceInv, RouterType
  <2>2. CASE CreateWaiter(c)
    <3>1. pc[c] = "idle" /\ pc'[c] = "write" /\ answer'[c] = answer[c] /\ c \in waiters'
      BY <2>2 DEF CreateWaiter, Goto, CallerType
    <3>2. Len(answer[c]) = 0
      BY <2>1, <3>1, Lengths DEF Once
    <3> QED BY <1>1, <2>1, <3>1, <3>2 DEF Once, Past
  <2>3. CASE WriteRequest(c)
    <3>1. pc[c] = "write" /\ pc'[c] = "waiting" /\ answer'[c] = answer[c] /\ waiters' = waiters
      BY <2>3 DEF WriteRequest, Goto, CallerType, router
    <3> QED BY <1>1, <2>1, <3>1 DEF Once, Past
  <2>4. CASE WriteFails(c)
    <3>1. pc[c] = "write" /\ pc'[c] = "raised" /\ answer'[c] = answer[c] /\ c \notin waiters'
      BY <2>4 DEF WriteFails, Goto, CallerType
    <3> QED BY <1>1, <2>1, <3>1 DEF Once, Past
  <2>5. CASE GetAnswer(c)
    <3>1. pc[c] = "waiting" /\ pc'[c] # "idle" /\ answer[c] # <<>> /\ waiters' = waiters
          /\ answer'[c] = Tail(answer[c])
      BY <2>5 DEF GetAnswer, Goto, CallerType, RouterType
    <3>2. Len(answer[c]) = 1 /\ Len(answer'[c]) = 0
      BY <2>1, <3>1, Lengths DEF Once
    <3>3. c \notin waiters' /\ \A s \in Sessions : ~Holds(s, c)'
      BY <1>1, <2>1, <3>1, <3>2 DEF Once
    <3> QED BY <3>2, <3>3 DEF Once
  <2> QED BY <2>2, <2>3, <2>4, <2>5 DEF CallerStep
<1>5. ASSUME NEW d \in Callers, d # c
      PROVE  Once(d)'
  BY <1>1, <1>2, <1>3, <1>5 DEF OnceInv, Once, Past
<1> QED BY <1>4, <1>5 DEF OnceInv

LEMMA OnceByStream ==
  ASSUME TypeInv, OnceInv, NEW c \in Streams, StreamStep(c)
  PROVE  OnceInv'
<1> RouterType /\ CallerType /\ c \in Callers
  BY Ranges DEF TypeInv
<1>0. reader' = reader /\ waiters' = waiters /\ answer' = answer
  BY DEF StreamStep, Registers, Register, Replay, LookUpLogin, GetNotification, GetFailure,
     CloseStream, router
<1>1. \A s \in Sessions : \A d \in Callers : Holds(s, d)' <=> Holds(s, d)
  BY <1>0 DEF Holds, Carries
<1>2. pc' = pc \/ (/\ pc[c] \in {"register", "handle", "lookup", "streaming"}
                   /\ \E l \in Labels \ {"idle"} : pc' = [pc EXCEPT ![c] = l])
  <2>1. CASE Registers(c)
    BY <2>1 DEF Registers, Register, Goto, Labels
  <2>2. CASE ~Registers(c)
    BY <2>2 DEF StreamStep, Replay, LookUpLogin, GetNotification, GetFailure, CloseStream, callers,
       Goto, Labels
  <2> QED BY <2>1, <2>2
<1>3. \A d \in Callers : (Past(d)' => Past(d)) /\ (pc'[d] = "idle" => pc[d] = "idle")
  BY <1>2 DEF Past, CallerType
<1>4. \A d \in Callers : d \in waiters' => pc'[d] \in {"write", "waiting"}
  BY <1>0, <1>2 DEF OnceInv, Once, CallerType
<1> QED BY <1>0, <1>1, <1>3, <1>4, NothingHandedOn

LEMMA OnceElsewhere ==
  ASSUME TypeInv, OnceInv, Start \/ Close \/ ServerStep \/ UNCHANGED vars
  PROVE  OnceInv'
<1> ReaderType
  BY DEF TypeInv
<1>0. UNCHANGED <<waiters, answer, pc>>
  BY DEF Start, Close, ServerStep, Respond, Notify, AskApproval, Crash, router, callers, vars
<1>1. \A s \in Sessions : \A c \in Callers : Holds(s, c)' <=> Holds(s, c)
  <2>1. CASE Start
    <3>1. \A s \in Sessions : reader'[s].hand = reader[s].hand /\ reader'[s].answers = reader[s].answers
      BY <2>1 DEF Start, ReaderType, Readers
    <3> QED BY <3>1 DEF Holds, Carries
  <2>2. CASE ~Start
    <3>1. reader' = reader
      BY <2>2 DEF Close, ServerStep, Respond, Notify, AskApproval, Crash, vars
    <3> QED BY <3>1 DEF Holds, Carries
  <2> QED BY <2>1, <2>2
<1>2. \A c \in Callers : c \in waiters' => pc'[c] \in {"write", "waiting"}
  BY <1>0 DEF OnceInv, Once
<1>3. \A c \in Callers : (Past(c)' <=> Past(c))
  BY <1>0 DEF Past
<1> QED BY <1>0, <1>1, <1>2, <1>3, NothingHandedOn

LEMMA OnceInitially ==
  ASSUME Init
  PROVE  OnceInv
<1>1. \A s \in Sessions : reader[s].answers = {} /\ reader[s].hand = <<>>
  BY DEF Init, Idle
<1>2. \A s \in Sessions : \A c \in Callers : ~Holds(s, c)
  BY <1>1 DEF Holds, Carries
<1>3. waiters = {} /\ \A c \in Callers : Len(answer[c]) = 0
  BY DEF Init
<1> QED BY <1>2, <1>3 DEF OnceInv, Once

\* A step of a reader that is not fail_all moves it alone, and not to fail_all's second half.
LEMMA ReaderAlone ==
  ASSUME TypeInv, NEW s \in Sessions, ReaderThread(s), ~FailAll(s)
  PROVE  /\ reader' = [reader EXCEPT ![s] = reader'[s]]
         /\ reader'[s].at \in {"check", "blocked", "put", "handling"}
              \/ (reader[s].at = "waking" /\ reader'[s].at = "exited")
<1> ReaderType /\ reader[s] \in Readers
  BY DEF TypeInv, ReaderType
<1>1. CASE ReadLine(s)
  <2>1. PICK msg : /\ Took(s, msg)
                   /\ RouteResponse(s, msg) \/ RouteToQueue(s, msg) \/ RouteToPending(s, msg)
                        \/ ForgetTurn(s, msg) \/ Handle(s, msg)
    BY <1>1 DEF ReadLine
  <2>2. msg \in Lines
    BY <2>1, TookLine DEF TypeInv
  <2>3. (\E h : Takes(s, h)) \/ Empties(s) \/ \E l \in {"check", "handling"} : At(s, l)
    BY <2>1, <2>2, LineMoves
  <2>4. reader'[s].at \in {"put", "check", "handling"}
    BY <2>3 DEF Takes, Empties, At, Readers
  <2> QED BY <2>1, <2>2, <2>4, LineMoves
<1>2. CASE Check(s)
  <2>1. reader'[s].at = "blocked"
    BY <1>2, ReaderMoves DEF Readers
  <2> QED BY <1>2, <2>1, ReaderMoves
<1>3. CASE PutResponse(s) \/ PutNotification(s) \/ HandlerReturns(s)
  <2>1. Empties(s) \/ At(s, "check")
    BY <1>3, ReaderMoves
  <2>2. reader'[s].at = "check"
    BY <2>1 DEF Empties, At, Readers
  <2> QED BY <1>3, <2>2, ReaderMoves
<1>4. CASE Wake(s)
  <2>1. reader[s].at = "waking" /\ Ends(s)
    BY <1>4, ReaderMoves DEF Wake
  <2>2. reader'[s].at = "exited"
    BY <2>1 DEF Ends, Readers
  <2> QED BY <1>4, <2>1, <2>2, ReaderMoves
<1> QED BY <1>1, <1>2, <1>3, <1>4 DEF ReaderThread

\* fail_all collects waiters, and an answer in a hand has none.
LEMMA SnapshotKept ==
  ASSUME TypeInv, OnceInv, SnapshotInv, Next
  PROVE  SnapshotInv'
<1> ReaderType /\ RouterType /\ ReaderType'
  BY ReaderTyped DEF TypeInv
<1>0. ASSUME NEW t \in Sessions, reader'[t].answers = reader[t].answers, reader'[t].hand = reader[t].hand
      PROVE  \A c \in reader'[t].answers : ~Carries(t, c)'
  BY <1>0 DEF SnapshotInv, Carries
<1>1. CASE Start
  <2>1. \A t \in Sessions : reader'[t].hand = reader[t].hand /\ reader'[t].answers = reader[t].answers
    BY <1>1 DEF Start, ReaderType, Readers
  <2> QED BY <1>0, <2>1 DEF SnapshotInv
<1>2. ASSUME NEW s \in Sessions, ReaderThread(s)
      PROVE  SnapshotInv'
  <2>1. CASE FailAll(s)
    <3>1. reader' = [reader EXCEPT ![s] = reader'[s]] /\ Snapshots(s)
      BY <2>1, ReaderMoves
    <3>2. reader'[s].answers = waiters /\ reader'[s].hand = reader[s].hand
      BY <3>1 DEF Snapshots, ReaderType, Readers
    <3>3. \A c \in waiters : ~Carries(s, c)
      BY DEF OnceInv, Once, Holds, RouterType
    <3>4. \A c \in reader'[s].answers : ~Carries(s, c)'
      BY <3>2, <3>3 DEF Carries
    <3>5. \A t \in Sessions \ {s} : reader'[t] = reader[t]
      BY <3>1 DEF ReaderType
    <3> QED BY <1>0, <3>4, <3>5 DEF SnapshotInv
  <2>2. CASE ~FailAll(s)
    <3>1. reader' = [reader EXCEPT ![s] = reader'[s]] /\ reader'[s].at # "waking"
      BY <1>2, <2>2, ReaderAlone
    <3>2. reader'[s].answers = {}
      BY <3>1 DEF ReaderType
    <3>3. \A t \in Sessions \ {s} : reader'[t] = reader[t]
      BY <3>1 DEF ReaderType
    <3> QED BY <1>0, <3>2, <3>3 DEF SnapshotInv
  <2> QED BY <2>1, <2>2
<1>3. CASE Close \/ ServerStep \/ (\E c \in Callers : CallerStep(c)) \/ \E c \in Streams : StreamStep(c)
  <2>1. reader' = reader
    BY <1>3 DEF Close, ServerStep, Respond, Notify, AskApproval, Crash, CallerStep, CreateWaiter,
       WriteRequest, WriteFails, GetAnswer, StreamStep, Registers, Register, Replay, LookUpLogin,
       GetNotification, GetFailure, CloseStream
  <2> QED BY <1>0, <2>1 DEF SnapshotInv
<1> QED BY <1>1, <1>2, <1>3, Steps

LEMMA OnceAlways == Spec => [](TypeInv /\ OnceInv)
<1>1. Init => TypeInv /\ OnceInv /\ SnapshotInv
  <2>1. Init => SnapshotInv
    BY DEF Init, Idle, SnapshotInv
  <2> QED BY <2>1, InitTyped, OnceInitially
<1>2. TypeInv /\ OnceInv /\ SnapshotInv /\ [Next]_vars => TypeInv' /\ OnceInv' /\ SnapshotInv'
  <2>1. TypeInv /\ [Next]_vars => TypeInv'
    BY ServerTyped, ReaderTyped, RouterTyped, CallerTyped, StutterTyped DEF TypeInv
  <2>2. TypeInv /\ OnceInv /\ SnapshotInv /\ [Next]_vars => OnceInv'
    BY OnceByReader, OnceByCaller, OnceByStream, OnceElsewhere, Steps
  <2>3. SnapshotInv /\ UNCHANGED vars => SnapshotInv'
    BY DEF SnapshotInv, Carries, vars
  <2> QED BY <2>1, <2>2, <2>3, SnapshotKept
<1> QED BY <1>1, <1>2, PTL DEF Spec

LEMMA OncePlaced ==
  ASSUME TypeInv, OnceInv
  PROVE  AnsweredOnce
<1> RouterType
  BY DEF TypeInv
<1> SUFFICES ASSUME NEW c \in Callers
             PROVE  Len(answer[c]) + If(c \in waiters)
                      + Cardinality({s \in Sessions : Holds(s, c)})
                      + If(pc[c] \notin {"idle", "write", "waiting", "raised"}) <= 1
  BY DEF AnsweredOnce, Holds, Carries
<1>1. Once(c) /\ answer[c] \in Seq(Kinds)
  BY DEF OnceInv, RouterType
<1>2. Len(answer[c]) = 0 \/ Len(answer[c]) = 1
  BY <1>1, Lengths DEF Once
<1>3. CASE \E s \in Sessions : Holds(s, c)
  <2>1. PICK s \in Sessions : Holds(s, c)
    BY <1>3
  <2>2. {t \in Sessions : Holds(t, c)} = {s}
    BY <1>1, <2>1 DEF Once
  <2>3. Cardinality({t \in Sessions : Holds(t, c)}) = 1
    BY <2>2, FS_Singleton
  <2>4. Len(answer[c]) = 0 /\ c \notin waiters /\ pc[c] \in {"idle", "write", "waiting", "raised"}
    BY <1>1, <2>1 DEF Once, Past
  <2> QED BY <2>3, <2>4 DEF If
<1>4. CASE \A s \in Sessions : ~Holds(s, c)
  <2>1. {t \in Sessions : Holds(t, c)} = {}
    BY <1>4
  <2>2. Cardinality({t \in Sessions : Holds(t, c)}) = 0
    BY <2>1, FS_EmptySet
  <2>3. c \in waiters => Len(answer[c]) = 0 /\ pc[c] \in {"idle", "write", "waiting", "raised"}
    BY <1>1 DEF Once
  <2>4. Len(answer[c]) = 1 => pc[c] \in {"idle", "write", "waiting", "raised"}
    BY <1>1 DEF Once, Past
  <2> DEFINE n == Len(answer[c])
  <2>5. /\ n = 0 \/ n = 1
        /\ c \in waiters => n = 0 /\ pc[c] \in {"idle", "write", "waiting", "raised"}
        /\ n = 1 => pc[c] \in {"idle", "write", "waiting", "raised"}
    BY <1>2, <2>3, <2>4
  <2> HIDE DEF n
  <2>6. n + If(c \in waiters) + 0 + If(pc[c] \notin {"idle", "write", "waiting", "raised"}) <= 1
    <3>1. CASE c \in waiters
      BY <2>5, <3>1 DEF If
    <3>2. CASE c \notin waiters
      BY <2>5, <3>2 DEF If
    <3> QED BY <3>1, <3>2
  <2> QED BY <2>2, <2>6 DEF n
<1> QED BY <1>3, <1>4

\* A request is answered in one place at most: the reader never blocks on a full queue, for any
\* number of requests, turns, logins and app-servers started one after another.
THEOREM AnsweredOnceHolds == Spec => []AnsweredOnce
BY OnceAlways, OncePlaced, PTL

LEMMA TypedAll ==
  ASSUME TypeInv, OnceInv
  PROVE  TypeOK
<1> ServerType /\ ReaderType /\ RouterType /\ CallerType
  BY DEF TypeInv
<1>1. ASSUME NEW s \in Sessions
      PROVE  /\ reader[s].at \in {"none", "check", "blocked", "put", "handling", "waking", "exited"}
             /\ reader[s].on \in 0 .. session
             /\ reader[s].hand \in {<<>>} \cup Seq(Lines \cup Items)
             /\ reader[s].answers \subseteq Callers
             /\ reader[s].queues \subseteq Streams \X Nat
  <2>1. reader[s] \in Readers
    BY DEF ReaderType
  <2>2. \A x \in Replies \cup Items : <<x>> \in Seq(Lines \cup Items)
    BY Ranges
  <2>3. reader[s].hand \in {<<>>} \cup Seq(Lines \cup Items)
    BY <2>1, <2>2 DEF Readers
  <2>4. reader[s].on \in 0 .. session
    BY DEF ReaderType
  <2> QED BY <2>1, <2>3, <2>4 DEF Readers, Places
<1>2. DOMAIN reader = Sessions
  BY DEF ReaderType
<1>3. waiters \subseteq {c \in Callers : pc[c] \in {"write", "waiting"}}
  BY DEF OnceInv, Once, RouterType
<1>4. /\ session \in 0 .. MaxSessions /\ proc \in BOOLEAN
      /\ alive \subseteq 1 .. session
      /\ wire \in [Sessions -> Seq(Lines)]
      /\ asked \subseteq Callers /\ started \subseteq Streams
      /\ sent \in [Streams -> Numbers] /\ approvals \in 0 .. MaxApprovals
  BY DEF ServerType
<1>5. /\ answer \in [Callers -> Seq(Kinds)]
      /\ registered \subseteq {c \in Streams : pc[c] \in {"streaming", "handle", "lookup"}}
      /\ pending \in [Streams -> Seq(Numbers)] /\ replay \in [Streams -> Seq(Numbers)]
      /\ queue \in [Streams -> Seq(Numbers)] /\ made \in [Streams -> Nat]
  BY DEF RouterType
<1>6. /\ received \in [Streams -> Seq(Numbers)] /\ sentIn \in [Callers -> 0 .. session]
      /\ late \subseteq Callers /\ dropped \subseteq Streams /\ buffered \subseteq Streams \X Numbers
  BY DEF CallerType
<1>7. pc \in [Callers -> {"idle", "write", "waiting", "register", "handle", "lookup", "streaming",
                          "done", "closed", "raised"}]
  BY DEF CallerType, Labels
<1> QED BY <1>1, <1>2, <1>3, <1>4, <1>5, <1>6, <1>7 DEF TypeOK

\* Every part of the transport keeps its type, and only a request on its way has a waiter.
THEOREM TypeCorrect == Spec => []TypeOK
BY OnceAlways, TypedAll, PTL

-----------------------------------------------------------------------------
(* FailAllWakesAll. *)

\* A request that is not answered still has its waiter, or a reader has it.
Placed(c) ==
  pc[c] \in {"write", "waiting"} /\ Len(answer[c]) = 0 =>
    c \in waiters \/ \E s \in Sessions : Holds(s, c)

\* A waiter that is not late has a reader that will still fail it.
Wakeable(c) == c \in waiters => c \in late \/ \E s \in Sessions : ~Failed(s)

\* The queue of a stream has the failure, or a reader that is failing all has the queue.
Broken(c) == \E k \in DOMAIN queue[c] : queue[c][k] = Failure
Waking(c) == \E s \in Sessions : reader[s].at = "waking" /\ <<c, made[c]>> \in reader[s].queues

\* A stream somebody may read is broken, being broken, or has its own reader to break it.
Told(c) ==
  c \notin late /\ (c \in registered \/ pc[c] = "streaming") =>
    Broken(c) \/ Waking(c) \/ (c \in registered /\ ~Failed(sentIn[c]))

WakeInv ==
  /\ \A c \in Callers : Placed(c) /\ Wakeable(c)
  /\ \A c \in Streams : Told(c)

\* A step of a reader that is not fail_all leaves every reader that lives alive.
LEMMA ReadersLive ==
  ASSUME TypeInv, NEW s \in Sessions, ReaderThread(s), ~FailAll(s), NEW t \in Sessions, ~Failed(t)
  PROVE  ~Failed(t)'
<1>1. CASE t # s
  <2>1. reader'[t] = reader[t]
    BY <1>1, ReaderAlone DEF TypeInv, ReaderType
  <2> QED BY <2>1 DEF Failed
<1>2. CASE t = s
  BY <1>2, ReaderAlone DEF Failed
<1> QED BY <1>1, <1>2

\* No step of a reader loses the answer to a request: it is handed on until it is put.
LEMMA AnswerHandedOn ==
  ASSUME TypeInv, NEW s \in Sessions, ReaderThread(s), NEW c \in Callers
  PROVE  /\ Len(answer'[c]) = 0 => Len(answer[c]) = 0
         /\ (c \in waiters \/ \E t \in Sessions : Holds(t, c)) /\ Len(answer'[c]) = 0 =>
              (c \in waiters' \/ \E t \in Sessions : Holds(t, c)')
<1> ReaderType /\ RouterType /\ reader[s] \in Readers /\ answer[c] \in Seq(Kinds)
  BY DEF TypeInv, ReaderType, RouterType
<1>0. reader[s].at \notin {"put", "waking", "exited"} => ~Holds(s, c)
  BY DEF ReaderType, HandRight, Holds, Carries
<1>a. \A x \in Kinds : Len(Append(answer[c], x)) # 0
  <2> SUFFICES ASSUME NEW x \in Kinds
               PROVE  Len(Append(answer[c], x)) # 0
    OBVIOUS
  <2>1. Len(Append(answer[c], x)) = Len(answer[c]) + 1 /\ Len(answer[c]) \in Nat
    BY AppendProperties, LenProperties
  <2> DEFINE n == Len(answer[c])
  <2>2. n + 1 # 0
    BY <2>1
  <2> QED BY <2>1, <2>2
<1>b. ASSUME reader' = [reader EXCEPT ![s] = reader'[s]], Holds(s, c) => Holds(s, c)',
             waiters \subseteq waiters', answer' = answer
      PROVE  (\E t \in Sessions : Holds(t, c)) => \E t \in Sessions : Holds(t, c)'
  BY <1>b, HeldElsewhere
<1>1. CASE ReadLine(s)
  <2>1. PICK msg : /\ Took(s, msg)
                   /\ RouteResponse(s, msg) \/ RouteToQueue(s, msg) \/ RouteToPending(s, msg)
                        \/ ForgetTurn(s, msg) \/ Handle(s, msg)
    BY <1>1 DEF ReadLine
  <2>2. msg \in Lines /\ reader[s].at = "blocked"
    BY <2>1, TookLine DEF Took, TypeInv
  <2>3. ~Holds(s, c)
    BY <1>0, <2>2
  <2>4. reader' = [reader EXCEPT ![s] = reader'[s]]
    BY <2>1, <2>2, LineMoves
  <2>5. CASE RouteResponse(s, msg) /\ msg.of \in waiters /\ c = msg.of
    <3>1. msg \in Replies /\ msg.kind # "item" /\ Takes(s, msg) /\ answer' = answer
      BY <2>2, <2>5, LineKinds, LineMoves DEF RouteResponse
    <3>2. Holds(s, c)'
      BY <2>2, <2>5, <3>1, HeldTaken
    <3> QED BY <3>1, <3>2
  <2>6. CASE ~(RouteResponse(s, msg) /\ msg.of \in waiters /\ c = msg.of)
    <3>1. (c \in waiters => c \in waiters') /\ answer' = answer
      BY <2>1, <2>6 DEF RouteResponse, RouteToQueue, RouteToPending, ForgetTurn, Handle, router
    <3>2. (\E t \in Sessions : Holds(t, c)) => \E t \in Sessions : Holds(t, c)'
      BY <2>3, <2>4, HeldElsewhere
    <3> QED BY <3>1, <3>2
  <2> QED BY <2>5, <2>6
<1>2. CASE Check(s) \/ HandlerReturns(s)
  <2>1. waiters' = waiters /\ answer' = answer
    BY <1>2 DEF Check, HandlerReturns, router
  <2>2. reader' = [reader EXCEPT ![s] = reader'[s]] /\ (Holds(s, c)' <=> Holds(s, c))
    BY <1>2, ReaderMoves, HeldHere
  <2> QED BY <2>1, <2>2, <1>b
<1>3. CASE PutNotification(s)
  <2>1. waiters' = waiters /\ answer' = answer /\ reader[s].at = "put" /\ reader[s].hand[1].kind = "item"
    BY <1>3 DEF PutNotification
  <2>2. ~Holds(s, c)
    BY <2>1, Ranges DEF Holds, Carries, ReaderType
  <2>3. reader' = [reader EXCEPT ![s] = reader'[s]]
    BY <1>3, ReaderMoves
  <2> QED BY <2>1, <2>2, <2>3, <1>b
<1>4. CASE PutResponse(s)
  <2> DEFINE x == reader[s].hand[1]
  <2>1. x.kind \in Kinds /\ answer' = [answer EXCEPT ![x.of] = Append(@, x.kind)]
        /\ waiters' = waiters /\ reader[s].at = "put"
    BY <1>4 DEF PutResponse, Kinds
  <2>2. \A t \in Sessions \ {s} : Holds(t, c)' <=> Holds(t, c)
    BY <1>4, ReaderMoves, HeldElsewhere
  <2>3. Holds(s, c) => c = x.of
    BY <2>1 DEF Holds, Carries, ReaderType
  <2> HIDE DEF x
  <2>4. CASE c = x.of
    <3>1. answer'[c] = Append(answer[c], x.kind)
      BY <2>1, <2>4 DEF RouterType
    <3>2. Len(answer'[c]) # 0
      BY <1>a, <2>1, <3>1
    <3> QED BY <3>2
  <2>5. CASE c # x.of
    <3>1. answer'[c] = answer[c]
      BY <2>1, <2>5 DEF RouterType
    <3> QED BY <2>1, <2>2, <2>3, <2>5, <3>1
  <2> QED BY <2>4, <2>5
<1>5. CASE FailAll(s)
  <2>1. answer' = answer /\ reader[s].at # "waking"
    BY <1>5 DEF FailAll, Raises
  <2>2. reader' = [reader EXCEPT ![s] = reader'[s]] /\ Snapshots(s)
    BY <1>5, ReaderMoves
  <2>3. reader'[s].answers = waiters /\ reader'[s].hand = reader[s].hand /\ reader[s].answers = {}
    BY <2>1, <2>2 DEF Snapshots, Readers, ReaderType
  <2>4. c \in waiters => Holds(s, c)'
    BY <2>3 DEF Holds
  <2>5. Holds(s, c) => Holds(s, c)'
    BY <2>3 DEF Holds, Carries
  <2> QED BY <2>1, <2>2, <2>4, <2>5, HeldElsewhere
<1>6. CASE Wake(s)
  <2>1. waiters' = waiters /\ reader[s].at = "waking"
        /\ answer' = [d \in Callers |-> IF d \in reader[s].answers THEN Append(answer[d], "exception")
                                                                  ELSE answer[d]]
    BY <1>6 DEF Wake
  <2>2. \A t \in Sessions \ {s} : Holds(t, c)' <=> Holds(t, c)
    BY <1>6, ReaderMoves, HeldElsewhere
  <2>3. CASE c \in reader[s].answers
    <3>1. answer'[c] = Append(answer[c], "exception") /\ "exception" \in Kinds
      BY <2>1, <2>3 DEF Kinds
    <3>2. Len(answer'[c]) # 0
      BY <1>a, <3>1
    <3> QED BY <3>2
  <2>4. CASE c \notin reader[s].answers
    <3>1. answer'[c] = answer[c]
      BY <2>1, <2>4
    <3>2. Holds(s, c) => Holds(s, c)'
      <4>1. Holds(s, c)' <=> Carries(s, c)
        BY <1>6, ReaderMoves, HeldHere
      <4> QED BY <2>4, <4>1 DEF Holds
    <3> QED BY <2>1, <2>2, <3>1, <3>2
  <2> QED BY <2>3, <2>4
<1> QED BY <1>1, <1>2, <1>3, <1>4, <1>5, <1>6 DEF ReaderThread

\* A failure in a queue stays there while others are put, and until it is taken.
HasFailure(q) == \E k \in DOMAIN q : q[k] = Failure

LEMMA FailureStays ==
  ASSUME NEW q \in Seq(Numbers)
  PROVE  /\ \A x \in Numbers : HasFailure(q) \/ x = Failure => HasFailure(Append(q, x))
         /\ q # <<>> /\ Head(q) # Failure /\ HasFailure(q) => HasFailure(Tail(q))
         /\ HasFailure(q) => q # <<>>
<1>0. DOMAIN q = 1 .. Len(q) /\ Len(q) \in Nat
  BY LenProperties
<1>1. ASSUME NEW x \in Numbers, HasFailure(q) \/ x = Failure
      PROVE  HasFailure(Append(q, x))
  <2>1. /\ DOMAIN Append(q, x) = 1 .. Len(q) + 1
        /\ \A k \in 1 .. Len(q) : Append(q, x)[k] = q[k]
        /\ Append(q, x)[Len(q) + 1] = x
    BY <1>0
  <2>2. CASE HasFailure(q)
    <3>1. PICK k \in 1 .. Len(q) : q[k] = Failure
      BY <1>0, <2>2 DEF HasFailure
    <3>2. k \in DOMAIN Append(q, x) /\ Append(q, x)[k] = Failure
      BY <1>0, <2>1, <3>1
    <3> QED BY <3>2 DEF HasFailure
  <2>3. CASE x = Failure
    <3>1. Len(q) + 1 \in DOMAIN Append(q, x)
      BY <1>0, <2>1
    <3> QED BY <2>1, <2>3, <3>1 DEF HasFailure
  <2> QED BY <1>1, <2>2, <2>3
<1>2. ASSUME q # <<>>, Head(q) # Failure, HasFailure(q)
      PROVE  HasFailure(Tail(q))
  <2>1. PICK k \in 1 .. Len(q) : q[k] = Failure
    BY <1>0, <1>2 DEF HasFailure
  <2>2. k # 1
    BY <1>2, <2>1
  <2>3. k - 1 \in DOMAIN Tail(q) /\ Tail(q)[k - 1] = q[k]
    BY <1>0, <1>2, <2>1, <2>2
  <2> QED BY <2>1, <2>3 DEF HasFailure
<1>3. ASSUME HasFailure(q)
      PROVE  q # <<>>
  BY <1>3 DEF HasFailure
<1> QED BY <1>1, <1>2, <1>3

LEMMA Brokenness == \A c : Broken(c) <=> HasFailure(queue[c])
BY DEF Broken, HasFailure

\* The readers a step of another leaves waking.
LEMMA WakingElsewhere ==
  ASSUME TypeInv, NEW s \in Sessions, reader' = [reader EXCEPT ![s] = reader'[s]], made' = made,
         NEW c \in Streams, Waking(c), ~(reader[s].at = "waking" /\ <<c, made[c]>> \in reader[s].queues)
  PROVE  Waking(c)'
<1>1. PICK t \in Sessions : reader[t].at = "waking" /\ <<c, made[c]>> \in reader[t].queues
  BY DEF Waking
<1>2. t # s
  BY <1>1
<1>3. reader'[t] = reader[t]
  BY <1>2 DEF TypeInv, ReaderType
<1> QED BY <1>1, <1>3 DEF Waking

LEMMA ToldByReader ==
  ASSUME TypeInv, NEW s \in Sessions, ReaderThread(s), NEW c \in Streams, Told(c)
  PROVE  Told(c)'
<1> ReaderType /\ RouterType /\ reader[s] \in Readers /\ queue[c] \in Seq(Numbers) /\ CallerType
  BY DEF TypeInv, ReaderType, RouterType
<1>0. UNCHANGED <<pc, late, sentIn, made>>
  <2>1. CASE ReadLine(s)
    BY <2>1 DEF ReadLine, Took, callers, RouteResponse, RouteToQueue, RouteToPending, ForgetTurn, Handle, router
  <2>2. CASE ~ReadLine(s)
    BY <2>2 DEF ReaderThread, Check, PutResponse, PutNotification, HandlerReturns, FailAll, Wake, callers, router
  <2> QED BY <2>1, <2>2
<1>1. CASE FailAll(s)
  <2>1. queue' = queue /\ reader[s].at # "waking" /\ registered' \subseteq registered
    BY <1>1 DEF FailAll, Raises
  <2>2. reader' = [reader EXCEPT ![s] = reader'[s]] /\ Snapshots(s)
    BY <1>1, ReaderMoves
  <2>3. reader'[s].at = "waking" /\ reader'[s].queues = {<<d, made[d]>> : d \in registered}
    BY <2>2 DEF Snapshots, Readers
  <2>4. CASE c \in registered
    <3>1. Waking(c)'
      BY <1>0, <2>3, <2>4 DEF Waking
    <3> QED BY <3>1 DEF Told
  <2>5. CASE c \notin registered
    <3>1. Broken(c)' <=> Broken(c)
      BY <2>1 DEF Broken
    <3>2. Waking(c) => Waking(c)'
      BY <1>0, <2>1, <2>2, WakingElsewhere
    <3> QED BY <1>0, <2>1, <2>5, <3>1, <3>2 DEF Told
  <2> QED BY <2>4, <2>5
<1>2. CASE Wake(s)
  <2>1. /\ queue' = [d \in Streams |-> IF <<d, made[d]>> \in reader[s].queues THEN Append(queue[d], Failure)
                                                                         ELSE queue[d]]
        /\ registered' = registered /\ reader[s].at = "waking"
    BY <1>2 DEF Wake
  <2>2. reader' = [reader EXCEPT ![s] = reader'[s]]
    BY <1>2, ReaderMoves
  <2>3. CASE <<c, made[c]>> \in reader[s].queues
    <3>1. queue'[c] = Append(queue[c], Failure)
      BY <2>1, <2>3
    <3>2. HasFailure(queue'[c])
      BY <3>1, FailureStays, Ranges
    <3> QED BY <3>2 DEF Told, Broken, HasFailure
  <2>4. CASE <<c, made[c]>> \notin reader[s].queues
    <3>1. queue'[c] = queue[c]
      BY <2>1, <2>4
    <3>2. Waking(c) => Waking(c)'
      BY <1>0, <2>2, <2>4, WakingElsewhere
    <3>3. ~FailAll(s)
      BY <2>1 DEF FailAll, Raises
    <3>4. c \in registered /\ ~Failed(sentIn[c]) => ~Failed(sentIn[c])'
      <4>1. ASSUME c \in registered, ~Failed(sentIn[c])
            PROVE  ~Failed(sentIn[c])'
        <5>1. sentIn[c] \in Sessions /\ sentIn'[c] = sentIn[c]
          BY <1>0, <4>1, Ranges DEF RouterType, CallerType
        <5>2. reader[sentIn[c]].at # "waking"
          BY <4>1 DEF Failed
        <5>3. sentIn[c] # s
          BY <2>1, <5>2
        <5>4. reader'[sentIn[c]] = reader[sentIn[c]]
          BY <2>2, <5>1, <5>3 DEF ReaderType
        <5> QED BY <4>1, <5>1, <5>4 DEF Failed
      <4> QED BY <4>1
    <3> QED BY <1>0, <2>1, <3>1, <3>2, <3>4 DEF Told, Broken
  <2> QED BY <2>3, <2>4
<1>3. CASE ~FailAll(s) /\ ~Wake(s)
  <2>1. registered' = registered /\ reader' = [reader EXCEPT ![s] = reader'[s]] /\ reader[s].at # "waking"
    <3>1. CASE ReadLine(s)
      <4>1. PICK msg : /\ Took(s, msg)
                       /\ RouteResponse(s, msg) \/ RouteToQueue(s, msg) \/ RouteToPending(s, msg)
                            \/ ForgetTurn(s, msg) \/ Handle(s, msg)
        BY <3>1 DEF ReadLine
      <4>2. msg \in Lines /\ reader[s].at = "blocked"
        BY <4>1, TookLine DEF TypeInv, Took
      <4>3. reader' = [reader EXCEPT ![s] = reader'[s]]
        BY <4>1, <4>2, LineMoves
      <4> QED BY <4>1, <4>2, <4>3 DEF RouteResponse, RouteToQueue, RouteToPending, ForgetTurn, Handle, router
    <3>2. CASE ~ReadLine(s)
      <4>1. reader' = [reader EXCEPT ![s] = reader'[s]]
        BY <1>3, <3>2, ReaderMoves DEF ReaderThread
      <4> QED BY <1>3, <3>2, <4>1 DEF ReaderThread, Check, PutResponse, PutNotification, HandlerReturns, router
    <3> QED BY <3>1, <3>2
  <2>2. Broken(c) => Broken(c)'
    <3>1. CASE PutNotification(s)
      <4> DEFINE x == reader[s].hand[1]
      <4>1. x \in Replies \cup Items /\ x.kind = "item"
        BY <3>1, Handed DEF PutNotification
      <4>2. x.n \in Numbers
        BY <4>1, HandKinds
      <4>3. queue' = [queue EXCEPT ![x.of] = Append(@, x.n)] \/ queue' = queue
        BY <3>1 DEF PutNotification
      <4> HIDE DEF x
      <4>4. queue'[c] = Append(queue[c], x.n) \/ queue'[c] = queue[c]
        BY <4>3 DEF RouterType
      <4> QED BY <4>2, <4>4, FailureStays DEF Broken, HasFailure
    <3>2. CASE ~PutNotification(s)
      <4>1. queue' = queue
        <5>1. CASE ReadLine(s)
          BY <5>1 DEF ReadLine, RouteResponse, RouteToQueue, RouteToPending, ForgetTurn, Handle, router
        <5>2. CASE ~ReadLine(s)
          BY <1>3, <3>2, <5>2 DEF ReaderThread, Check, PutResponse, HandlerReturns, router
        <5> QED BY <5>1, <5>2
      <4> QED BY <4>1 DEF Broken
    <3> QED BY <3>1, <3>2
  <2>3. Waking(c) => Waking(c)'
    BY <1>0, <2>1, WakingElsewhere
  <2>4. c \in registered /\ ~Failed(sentIn[c]) => ~Failed(sentIn[c])'
    <3>1. c \in registered => sentIn[c] \in Sessions
      BY Ranges DEF RouterType, CallerType
    <3>2. \A t \in Sessions : ~Failed(t) => ~Failed(t)'
      BY <1>3, ReadersLive
    <3>3. \A t \in Sessions : Failed(t)' <=> (reader'[t].at \in {"none", "waking", "exited"})
      BY DEF Failed
    <3> QED BY <1>0, <3>1, <3>2, <3>3 DEF Failed
  <2> QED BY <1>0, <2>1, <2>2, <2>3, <2>4 DEF Told
<1> QED BY <1>1, <1>2, <1>3

\* A step that leaves the readers alone, and a stream no less to read.
LEMMA ToldKept ==
  ASSUME NEW c \in Streams, Told(c), reader' = reader, late \subseteq late',
         c \in registered' <=> c \in registered,
         pc'[c] = "streaming" => pc[c] = "streaming" \/ c \in registered,
         made'[c] = made[c], sentIn'[c] = sentIn[c], Broken(c) => Broken(c)'
  PROVE  Told(c)'
BY DEF Told, Waking, Failed

LEMMA ToldByStream ==
  ASSUME TypeInv, NEW c \in Streams, StreamStep(c), NEW d \in Streams, Told(d)
  PROVE  Told(d)'
<1> RouterType /\ CallerType /\ queue[d] \in Seq(Numbers) /\ Streams \subseteq Callers
  BY Ranges DEF TypeInv, RouterType
<1>0. reader' = reader /\ late \subseteq late' /\ sentIn' = sentIn
  BY DEF StreamStep, Registers, Register, Replay, LookUpLogin, GetNotification, GetFailure,
     CloseStream, callers
<1>1. CASE d # c
  <2>1. pc'[d] = pc[d] /\ made'[d] = made[d]
    BY <1>1 DEF StreamStep, Registers, Register, Replay, LookUpLogin, GetNotification, GetFailure,
       CloseStream, callers, router, Goto, CallerType, RouterType
  <2>2. d \in registered' <=> d \in registered
    BY <1>1 DEF StreamStep, Registers, Register, Replay, LookUpLogin, GetNotification, GetFailure,
       CloseStream, Unregister, router
  <2>3. queue'[d] = queue[d]
    BY <1>1 DEF StreamStep, Registers, Register, Replay, LookUpLogin, GetNotification, GetFailure,
       CloseStream, router, RouterType
  <2>4. Broken(d) => Broken(d)'
    BY <2>3 DEF Broken
  <2> QED BY <1>0, <2>1, <2>2, <2>4, ToldKept
<1>2. CASE d = c
  <2>1. CASE Registers(c)
    <3>1. PICK to \in {"streaming", "handle", "lookup"} : Register(c, to)
      BY <2>1 DEF Registers
    <3>2. pc[c] \in {"register", "handle"}
      BY <2>1 DEF Registers
    <3>3. CASE c \in registered
      <4>1. UNCHANGED <<registered, made, queue>>
        BY <3>1, <3>3 DEF Register
      <4>2. Broken(c) => Broken(c)'
        BY <4>1 DEF Broken
      <4> QED BY <1>0, <1>2, <3>3, <4>1, <4>2, ToldKept
    <3>4. CASE c \notin registered
      <4>1. c \in registered' /\ (Failed(sentIn[c]) => c \in late')
        BY <3>1, <3>4 DEF Register
      <4>2. Failed(sentIn[c])' <=> Failed(sentIn[c])
        BY <1>0 DEF Failed
      <4> QED BY <1>2, <4>1, <4>2 DEF Told
    <3> QED BY <3>3, <3>4
  <2>2. CASE Replay(c)
    <3>1. UNCHANGED <<registered, made, pc>> /\ replay[c] # <<>>
          /\ queue'[c] = Append(queue[c], Head(replay[c]))
      BY <2>2 DEF Replay, callers, RouterType
    <3> DEFINE x == Head(replay[c])
    <3>2. x \in Numbers
      BY <3>1, Gets DEF RouterType
    <3>a. queue'[c] = Append(queue[c], x)
      BY <3>1
    <3> HIDE DEF x
    <3>b. HasFailure(queue[c]) => HasFailure(queue'[c])
      BY <1>2, <3>a, <3>2, FailureStays
    <3>3. Broken(c) => Broken(c)'
      BY <3>b DEF Broken, HasFailure
    <3> QED BY <1>0, <1>2, <3>1, <3>3, ToldKept
  <2>3. CASE LookUpLogin(c)
    <3>1. UNCHANGED <<registered, made, queue>> /\ (pc'[c] = "streaming" => c \in registered)
      BY <2>3 DEF LookUpLogin, router, Goto, CallerType
    <3>2. Broken(c) => Broken(c)'
      BY <3>1 DEF Broken
    <3> QED BY <1>0, <1>2, <3>1, <3>2, ToldKept
  <2>4. CASE GetNotification(c)
    <3>1. /\ queue[c] # <<>> /\ Head(queue[c]) # Failure /\ queue'[c] = Tail(queue[c]) /\ made' = made
          /\ pc[c] = "streaming"
      BY <2>4 DEF GetNotification, RouterType
    <3>2. CASE UNCHANGED <<registered, pc>>
      <4>1. Broken(c) => Broken(c)'
        BY <1>2, <3>1, FailureStays DEF Broken, HasFailure
      <4> QED BY <1>0, <1>2, <3>1, <3>2, <4>1, ToldKept
    <3>3. CASE ~UNCHANGED <<registered, pc>>
      <4>1. c \notin registered' /\ pc'[c] # "streaming"
        BY <2>4, <3>3 DEF GetNotification, Unregister, Goto, CallerType
      <4> QED BY <1>2, <4>1 DEF Told
    <3> QED BY <3>2, <3>3
  <2>5. CASE GetFailure(c) \/ CloseStream(c)
    <3>1. c \notin registered' /\ pc'[c] # "streaming"
      BY <2>5 DEF GetFailure, CloseStream, Unregister, Goto, CallerType
    <3> QED BY <1>2, <3>1 DEF Told
  <2> QED BY <2>1, <2>2, <2>3, <2>4, <2>5 DEF StreamStep
<1> QED BY <1>1, <1>2

LEMMA ToldByCaller ==
  ASSUME TypeInv, NEW c \in Callers, CallerStep(c), NEW d \in Streams, Told(d)
  PROVE  Told(d)'
<1> RouterType /\ CallerType /\ Streams \subseteq Callers
  BY Ranges DEF TypeInv
<1>1. reader' = reader /\ late \subseteq late' /\ UNCHANGED <<registered, made, queue>>
  BY DEF CallerStep, CreateWaiter, WriteRequest, WriteFails, GetAnswer, router
<1>2. pc'[d] = "streaming" => pc[d] = "streaming"
  BY DEF CallerStep, CreateWaiter, WriteRequest, WriteFails, GetAnswer, Goto, CallerType
<1>3. Broken(d) => Broken(d)'
  BY <1>1 DEF Broken
<1>4. CASE sentIn'[d] = sentIn[d]
  BY <1>1, <1>2, <1>3, <1>4, ToldKept
<1>5. CASE sentIn'[d] # sentIn[d]
  <2>1. pc'[d] = "waiting" /\ pc[d] = "write"
    BY <1>5 DEF CallerStep, CreateWaiter, WriteRequest, WriteFails, GetAnswer, Goto, CallerType
  <2>2. d \notin registered'
    BY <1>1, <2>1 DEF RouterType
  <2> QED BY <2>1, <2>2 DEF Told
<1> QED BY <1>4, <1>5

LEMMA WakeElsewhere ==
  ASSUME TypeInv, WakeInv, Start \/ Close \/ ServerStep \/ UNCHANGED vars
  PROVE  WakeInv'
<1> ReaderType /\ RouterType /\ CallerType
  BY DEF TypeInv
<1>0. UNCHANGED <<waiters, answer, pc, late, registered, made, queue, sentIn>>
  BY DEF Start, Close, ServerStep, Respond, Notify, AskApproval, Crash, router, callers, vars
<1>1. \A s \in Sessions : /\ \A c \in Callers : Holds(s, c)' <=> Holds(s, c)
                          /\ ~Failed(s) => ~Failed(s)'
                          /\ reader[s].at = "waking" => reader'[s] = reader[s]
  <2>1. CASE Start
    <3>1. \A s \in Sessions : reader'[s].hand = reader[s].hand /\ reader'[s].answers = reader[s].answers
      BY <2>1 DEF Start, ReaderType, Readers
    <3>2. session + 1 \in Sessions /\ session + 1 > session
      BY <2>1, Ranges DEF Start, TypeInv, ServerType
    <3>3. \A s \in Sessions : s # session + 1 => reader'[s] = reader[s]
      BY <2>1 DEF Start, ReaderType
    <3>4. reader[session + 1].at = "none"
      BY <3>2 DEF ReaderType
    <3>5. \A s \in Sessions : Failed(s)' <=> (reader'[s].at \in {"none", "waking", "exited"})
      BY DEF Failed
    <3> QED BY <3>1, <3>2, <3>3, <3>4, <3>5 DEF Holds, Carries, Failed
  <2>2. CASE ~Start
    <3>1. reader' = reader
      BY <2>2 DEF Close, ServerStep, Respond, Notify, AskApproval, Crash, vars
    <3> QED BY <3>1 DEF Holds, Carries, Failed
  <2> QED BY <2>1, <2>2
<1>2. \A c \in Callers : Placed(c)' /\ Wakeable(c)'
  BY <1>0, <1>1 DEF WakeInv, Placed, Wakeable
<1>3. ASSUME NEW c \in Streams
      PROVE  Told(c)'
  <2>1. Broken(c)' <=> Broken(c)
    BY <1>0 DEF Broken
  <2>2. Waking(c) => Waking(c)'
    BY <1>0, <1>1 DEF Waking
  <2>3. c \in registered => sentIn[c] \in Sessions
    BY Ranges DEF RouterType, CallerType
  <2>4. c \in registered /\ ~Failed(sentIn[c]) => ~Failed(sentIn[c])'
    <3>1. \A s \in Sessions : Failed(s)' <=> (reader'[s].at \in {"none", "waking", "exited"})
      BY DEF Failed
    <3> QED BY <1>0, <1>1, <2>3, <3>1 DEF Failed
  <2> QED BY <1>0, <2>1, <2>2, <2>4 DEF WakeInv, Told
<1> QED BY <1>2, <1>3 DEF WakeInv

LEMMA WakeByReader ==
  ASSUME TypeInv, WakeInv, NEW s \in Sessions, ReaderThread(s)
  PROVE  WakeInv'
<1>0. UNCHANGED <<pc, late>> /\ waiters' \subseteq waiters
  <2>1. CASE ReadLine(s)
    BY <2>1 DEF ReadLine, Took, callers, RouteResponse, RouteToQueue, RouteToPending, ForgetTurn, Handle, router
  <2>2. CASE ~ReadLine(s)
    BY <2>2 DEF ReaderThread, Check, PutResponse, PutNotification, HandlerReturns, FailAll, Wake, callers, router
  <2> QED BY <2>1, <2>2
<1>1. ASSUME NEW c \in Callers
      PROVE  Placed(c)'
  BY <1>0, AnswerHandedOn DEF WakeInv, Placed
<1>2. ASSUME NEW c \in Callers
      PROVE  Wakeable(c)'
  <2>1. CASE FailAll(s)
    BY <2>1 DEF FailAll, Wakeable
  <2>2. CASE ~FailAll(s)
    BY <1>0, <2>2, ReadersLive DEF WakeInv, Wakeable
  <2> QED BY <2>1, <2>2
<1>3. ASSUME NEW c \in Streams
      PROVE  Told(c)'
  BY ToldByReader DEF WakeInv
<1> QED BY <1>1, <1>2, <1>3 DEF WakeInv

LEMMA WakeByCaller ==
  ASSUME TypeInv, OnceInv, WakeInv, NEW c \in Callers, CallerStep(c)
  PROVE  WakeInv'
<1> RouterType /\ CallerType
  BY DEF TypeInv
<1>0. reader' = reader /\ late \subseteq late'
  BY DEF CallerStep, CreateWaiter, WriteRequest, WriteFails, GetAnswer
<1>1. \A s \in Sessions : (Failed(s)' <=> Failed(s)) /\ \A d \in Callers : Holds(s, d)' <=> Holds(s, d)
  BY <1>0 DEF Holds, Carries, Failed
<1>2. \A d \in Callers \ {c} : /\ pc'[d] = pc[d] /\ answer'[d] = answer[d]
                               /\ d \in waiters' <=> d \in waiters
  BY DEF CallerStep, CreateWaiter, WriteRequest, WriteFails, GetAnswer, Goto, CallerType, RouterType, router
<1>3. Placed(c)' /\ Wakeable(c)'
  <2>1. CASE CreateWaiter(c)
    <3>1. c \in waiters' /\ ((\A s \in Sessions : Failed(s)) => c \in late')
      BY <2>1 DEF CreateWaiter
    <3> QED BY <1>1, <3>1 DEF Placed, Wakeable
  <2>2. CASE WriteRequest(c)
    <3>1. pc[c] = "write" /\ UNCHANGED <<waiters, answer, late>>
      BY <2>2 DEF WriteRequest, router
    <3> QED BY <1>1, <3>1 DEF WakeInv, Placed, Wakeable
  <2>3. CASE WriteFails(c)
    <3>1. pc'[c] = "raised" /\ c \notin waiters'
      BY <2>3 DEF WriteFails, Goto, CallerType
    <3> QED BY <3>1 DEF Placed, Wakeable
  <2>4. CASE GetAnswer(c)
    <3>1. pc'[c] \in {"raised", "register", "done"} /\ UNCHANGED <<waiters, late>>
      BY <2>4 DEF GetAnswer, Goto, CallerType
    <3> QED BY <1>1, <3>1 DEF WakeInv, Placed, Wakeable
  <2> QED BY <2>1, <2>2, <2>3, <2>4 DEF CallerStep
<1>4. ASSUME NEW d \in Callers, d # c
      PROVE  Placed(d)' /\ Wakeable(d)'
  BY <1>0, <1>1, <1>2, <1>4 DEF WakeInv, Placed, Wakeable
<1>5. \A d \in Streams : Told(d)'
  BY ToldByCaller DEF WakeInv
<1> QED BY <1>3, <1>4, <1>5 DEF WakeInv

LEMMA WakeByStream ==
  ASSUME TypeInv, WakeInv, NEW c \in Streams, StreamStep(c)
  PROVE  WakeInv'
<1> CallerType /\ c \in Callers
  BY Ranges DEF TypeInv
<1>0. UNCHANGED <<reader, waiters, answer>> /\ late \subseteq late'
  BY DEF StreamStep, Registers, Register, Replay, LookUpLogin, GetNotification, GetFailure,
     CloseStream, router, callers
<1>1. \A s \in Sessions : (Failed(s)' <=> Failed(s)) /\ \A d \in Callers : Holds(s, d)' <=> Holds(s, d)
  BY <1>0 DEF Holds, Carries, Failed
<1>2. pc' = pc \/ \E l \in Labels \ {"write", "waiting"} : pc' = [pc EXCEPT ![c] = l]
  <2>1. CASE Registers(c)
    BY <2>1 DEF Registers, Register, Goto, Labels
  <2>2. CASE ~Registers(c)
    BY <2>2 DEF StreamStep, Replay, LookUpLogin, GetNotification, GetFailure, CloseStream, callers,
       Goto, Labels
  <2> QED BY <2>1, <2>2
<1>3. \A d \in Callers : pc'[d] \in {"write", "waiting"} => pc[d] = pc'[d]
  BY <1>2 DEF CallerType
<1>4. \A d \in Callers : Placed(d)' /\ Wakeable(d)'
  BY <1>0, <1>1, <1>3 DEF WakeInv, Placed, Wakeable
<1>5. \A d \in Streams : Told(d)'
  BY ToldByStream DEF WakeInv
<1> QED BY <1>4, <1>5 DEF WakeInv

LEMMA WakeInitially ==
  ASSUME Init
  PROVE  WakeInv
<1>1. waiters = {} /\ registered = {} /\ \A c \in Callers : pc[c] = "idle"
  BY DEF Init
<1>2. Streams \subseteq Callers
  BY Ranges
<1> QED BY <1>1, <1>2 DEF WakeInv, Placed, Wakeable, Told

LEMMA NobodyLeftBehind ==
  ASSUME TypeInv, WakeInv
  PROVE  FailAllWakesAll
<1> ReaderType /\ RouterType
  BY DEF TypeInv
<1> SUFFICES ASSUME NEW c \in Callers, NobodyReads, Blocked(c)
             PROVE  c \in late \/ Orphaned(c)
  BY DEF FailAllWakesAll
<1>0. \A s \in Sessions : Failed(s) /\ reader[s].at # "waking" /\ (Holds(s, c) => Orphaned(c))
  BY DEF NobodyReads, Failed, Holds, Carries, Orphaned, ReaderType, HandRight
<1>1. CASE pc[c] = "waiting" /\ answer[c] = <<>>
  <2>1. Len(answer[c]) = 0
    BY <1>1
  <2> QED BY <1>0, <1>1, <2>1 DEF WakeInv, Placed, Wakeable
<1>2. CASE pc[c] = "streaming" /\ queue[c] = <<>> /\ c \in Streams
  <2>1. ~Broken(c)
    BY <1>2 DEF Broken
  <2>2. ~Waking(c)
    BY <1>0 DEF Waking
  <2>3. c \in registered => Failed(sentIn[c])
    <3>1. c \in registered => sentIn[c] \in Sessions
      BY <1>2 DEF TypeInv, CallerType
    <3> QED BY <1>0, <3>1
  <2> QED BY <1>2, <2>1, <2>2, <2>3 DEF WakeInv, Told
<1>3. pc[c] = "streaming" => c \in Streams
  BY DEF TypeInv, CallerType
<1> QED BY <1>1, <1>2, <1>3 DEF Blocked

\* fail_all leaves nobody blocked that had its queue before it, but the one whose uncoded error
\* the reader held when it raised, for any number of callers and of app-servers started one after
\* another, and however their readers overlap.
THEOREM FailAllWakesAllHolds == Spec => []FailAllWakesAll
<1>1. Init => TypeInv /\ OnceInv /\ WakeInv
  BY InitTyped, OnceInitially, WakeInitially
<1>2. TypeInv /\ OnceInv /\ WakeInv /\ [Next]_vars => WakeInv'
  BY WakeElsewhere, WakeByReader, WakeByCaller, WakeByStream, Steps
<1>3. TypeInv /\ WakeInv => FailAllWakesAll
  BY NobodyLeftBehind
<1> QED BY <1>1, <1>2, <1>3, OnceAlways, PTL DEF Spec

=============================================================================

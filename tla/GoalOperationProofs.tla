------------------------- MODULE GoalOperationProofs -------------------------
(***************************************************************************)
(* Proofs about goal operations, for any callers and any number of turns   *)
(* and faults: the thread-start lock admits one caller at a time though    *)
(* its entry comes and goes (LockInv), the route of the thread is that of  *)
(* the operation under way (RouteInv), and nothing of a turn somebody      *)
(* started with turn_start is left on its way when a route is reserved     *)
(* (NoiseInv).                                                             *)
(***************************************************************************)
EXTENDS GoalOperation, FiniteSetTheorems, SequenceTheorems, TLAPS

\* Where a caller is that has not got the lock yet, and where it must have it.
Outside == {"idle", "acquire"}
MustHold == {"turn", "read", "clear", "set", "wait for start"}
Stopping == {"pause", "interrupt", "interrupt again"}
Labels == Outside \cup MustHold \cup Stopping \cup
  {"streaming", "started", "raised", "cancelled", "done", "closed"}

UsersOf(m, e) == {c \in Callers : e /= 0 /\ m[c] = e}

\* The entry of the lock table is there as long as somebody uses it, and who works in the
\* critical section holds its lock.
LockInv ==
  /\ entry \in Entries
  /\ mine \in [Callers -> {0, entry}] /\ (entry = 0 <=> \A c \in Callers : mine[c] = 0)
  /\ users \in [Entries -> Nat] /\ \A e \in Entries : users[e] = Cardinality(UsersOf(mine, e))
  /\ holder \in [Entries -> Callers \cup {Nobody}]
  /\ pc \in [Callers -> Labels]
  /\ \A c \in Callers :
       /\ pc[c] = "idle" => mine[c] = 0
       /\ pc[c] \in MustHold \cup {"acquire"} => mine[c] # 0
       /\ Critical(c) => holder[mine[c]] = c

-----------------------------------------------------------------------------
(* The thread-start lock. *)

\* What a step is to the lock: nothing, a caller that comes, gets the lock, gives it back,
\* leaves, or goes on.
Enters(c) == EnterThread(c)
Gets(c) == Acquired(c) /\ \E l \in {"turn", "read"} : Goto(c, l)
Releases(c) ==
  /\ mine[c] # 0 /\ ((pc[c] = "acquire" /\ holder[mine[c]] = Nobody) \/ Critical(c))
  /\ Release(c)
  /\ \E l \in Labels \ (Outside \cup MustHold \cup Stopping) : Goto(c, l)
GoesOn(c) ==
  /\ pc[c] \notin Outside /\ UNCHANGED locks
  /\ \E l \in Labels \ Outside :
       /\ Goto(c, l) /\ (l \in MustHold => pc[c] \in MustHold)
       /\ (l \in Stopping => mine[c] = 0 \/ Critical(c))

LEMMA CallersFinite ==
  /\ IsFiniteSet(Callers) /\ Cardinality(Callers) \in Nat /\ Entries = 0 .. Cardinality(Callers)
  /\ \A m, e : IsFiniteSet(UsersOf(m, e)) /\ Cardinality(UsersOf(m, e)) \in Nat
  /\ Callers # {} => 1 \in Entries
<1>1. IsFiniteSet(Callers)
  BY GoalAssumption
<1>2. Cardinality(Callers) \in Nat
  BY <1>1, FS_CardinalityType
<1>3. ASSUME NEW m, NEW e PROVE IsFiniteSet(UsersOf(m, e)) /\ Cardinality(UsersOf(m, e)) \in Nat
  <2>1. UsersOf(m, e) \in SUBSET Callers
    BY DEF UsersOf
  <2>2. IsFiniteSet(UsersOf(m, e))
    BY <1>1, <2>1, FS_Subset
  <2> QED BY <2>2, FS_CardinalityType
<1>4. Callers # {} => Cardinality(Callers) # 0
  BY <1>1, FS_EmptySet
<1> QED BY <1>1, <1>2, <1>3, <1>4 DEF Entries

LEMMA EnterKeepsLock ==
  ASSUME LockInv, NEW c \in Callers, Enters(c)
  PROVE  LockInv'
<1> DEFINE e == IF entry = 0 THEN NewEntry ELSE entry
<1>1. /\ pc[c] = "idle" /\ mine[c] = 0
      /\ entry' = e /\ users' = [users EXCEPT ![e] = @ + 1] /\ mine' = [mine EXCEPT ![c] = e]
      /\ pc' = [pc EXCEPT ![c] = "acquire"] /\ holder' = holder
  BY DEF Enters, EnterThread, Goto, LockInv
<1>2. e \in Entries \ {0} /\ \A d \in Callers : mine[d] \in {0, e}
  <2>1. CASE entry # 0
    BY <2>1 DEF LockInv
  <2>2. CASE entry = 0
    <3>1. \A d \in Callers : mine[d] = 0
      BY <2>2 DEF LockInv
    <3>2. UsersOf(mine, 1) = {}
      BY <3>1 DEF UsersOf
    <3>3. 1 \in Entries \ {0} /\ users[1] = 0 /\ \A d \in Callers : mine[d] # 1
      BY <3>1, <3>2, CallersFinite, FS_EmptySet DEF LockInv
    <3>4. NewEntry \in Entries \ {0}
      BY <3>3 DEF NewEntry
    <3> QED BY <2>2, <3>1, <3>4
  <2> QED BY <2>1, <2>2
<1> HIDE DEF e
<1>3. /\ mine' \in [Callers -> {0, e}] /\ mine'[c] = e /\ \A d \in Callers : d # c => mine'[d] = mine[d]
  BY <1>1, <1>2 DEF LockInv
<1>4. ASSUME NEW x \in Entries PROVE users'[x] = Cardinality(UsersOf(mine', x))
  <2>1. users[x] = Cardinality(UsersOf(mine, x)) /\ users[e] = Cardinality(UsersOf(mine, e))
    BY <1>2 DEF LockInv
  <2>2. CASE x = e
    <3>1. UsersOf(mine', e) = UsersOf(mine, e) \cup {c} /\ c \notin UsersOf(mine, e)
      BY <1>1, <1>2, <1>3 DEF UsersOf
    <3>2. Cardinality(UsersOf(mine', e)) = Cardinality(UsersOf(mine, e)) + 1
      BY <3>1, CallersFinite, FS_AddElement
    <3>3. users'[e] = users[e] + 1
      BY <1>1, <1>2 DEF LockInv
    <3> QED BY <2>1, <2>2, <3>2, <3>3
  <2>3. CASE x # e
    <3>1. UsersOf(mine', x) = UsersOf(mine, x)
      BY <2>3, <1>1, <1>2, <1>3 DEF UsersOf
    <3>2. users'[x] = users[x]
      BY <2>3, <1>1 DEF LockInv
    <3> QED BY <2>1, <3>1, <3>2
  <2> QED BY <2>2, <2>3
<1>5. users' \in [Entries -> Nat]
  BY <1>1, <1>2 DEF LockInv
<1>6. pc' \in [Callers -> Labels] /\ pc'[c] = "acquire" /\ \A d \in Callers : d # c => pc'[d] = pc[d]
  BY <1>1 DEF LockInv, Labels, Outside
<1>7. ASSUME NEW d \in Callers
      PROVE  /\ pc'[d] = "idle" => mine'[d] = 0
             /\ pc'[d] \in MustHold \cup {"acquire"} => mine'[d] # 0
             /\ Critical(d)' => holder'[mine'[d]] = d
  BY <1>1, <1>2, <1>3, <1>6 DEF LockInv, Critical
<1>8. entry' = 0 <=> \A d \in Callers : mine'[d] = 0
  BY <1>1, <1>2, <1>3
<1> QED BY <1>1, <1>2, <1>3, <1>4, <1>5, <1>6, <1>7, <1>8 DEF LockInv

LEMMA GetKeepsLock ==
  ASSUME LockInv, NEW c \in Callers, Gets(c)
  PROVE  LockInv'
<1>1. PICK l \in {"turn", "read"} : Goto(c, l)
  BY DEF Gets
<1>2. /\ pc[c] = "acquire" /\ mine[c] = entry /\ entry # 0 /\ holder[entry] = Nobody
      /\ holder' = [holder EXCEPT ![entry] = c] /\ UNCHANGED <<entry, users, mine>>
      /\ pc' = [pc EXCEPT ![c] = l]
  BY <1>1 DEF Gets, Acquired, Goto, LockInv
<1>3. /\ pc' \in [Callers -> Labels] /\ pc'[c] = l /\ \A d \in Callers : d # c => pc'[d] = pc[d]
      /\ holder' \in [Entries -> Callers \cup {Nobody}] /\ holder'[entry] = c
  BY <1>2 DEF LockInv, Labels, MustHold
<1>4. \A d \in Callers : ~Critical(d)
  <2>1. Nobody \notin Callers
    BY GoalAssumption
  <2> QED BY <1>2, <2>1 DEF LockInv, Critical
<1>5. ASSUME NEW d \in Callers
      PROVE  /\ pc'[d] = "idle" => mine'[d] = 0
             /\ pc'[d] \in MustHold \cup {"acquire"} => mine'[d] # 0
             /\ Critical(d)' => holder'[mine'[d]] = d
  BY <1>2, <1>3, <1>4 DEF LockInv, Critical
<1> QED BY <1>2, <1>3, <1>5 DEF LockInv

LEMMA ReleaseKeepsLock ==
  ASSUME LockInv, NEW c \in Callers, Releases(c)
  PROVE  LockInv'
<1>1. PICK l \in Labels \ (Outside \cup MustHold \cup Stopping) : Goto(c, l)
  BY DEF Releases
<1>2. /\ mine[c] = entry /\ entry # 0 /\ entry \in Entries
      /\ holder' = [holder EXCEPT ![entry] = Nobody] /\ UNCHANGED <<entry, users, mine>>
      /\ pc' = [pc EXCEPT ![c] = l]
  BY <1>1 DEF Releases, Release, Goto, LockInv
<1>3. /\ pc' \in [Callers -> Labels] /\ pc'[c] = l /\ \A d \in Callers : d # c => pc'[d] = pc[d]
      /\ holder' \in [Entries -> Callers \cup {Nobody}]
  BY <1>2 DEF LockInv
<1>4. \A d \in Callers : d # c => ~Critical(d)
  <2>1. Nobody \notin Callers
    BY GoalAssumption
  <2>2. \A d \in Callers : Critical(d) => mine[d] = entry /\ holder[entry] = d
    BY DEF LockInv, Critical
  <2> QED BY <1>2, <2>1, <2>2 DEF Releases
<1>5. ASSUME NEW d \in Callers
      PROVE  /\ pc'[d] = "idle" => mine'[d] = 0
             /\ pc'[d] \in MustHold \cup {"acquire"} => mine'[d] # 0
             /\ Critical(d)' => holder'[mine'[d]] = d
  <2>1. CASE d = c
    BY <2>1, <1>3 DEF Critical, Outside, MustHold, Stopping
  <2>2. CASE d # c
    BY <2>2, <1>2, <1>3, <1>4 DEF LockInv, Critical
  <2> QED BY <2>1, <2>2
<1> QED BY <1>2, <1>3, <1>5 DEF LockInv

LEMMA LeaveKeepsLock ==
  ASSUME LockInv, NEW c \in Callers, LeaveThread(c)
  PROVE  LockInv'
<1>2. /\ mine[c] = entry /\ entry # 0 /\ entry \in Entries /\ pc[c] # "acquire" /\ ~Critical(c)
      /\ users' = [users EXCEPT ![entry] = @ - 1]
      /\ entry' = IF users[entry] = 1 THEN 0 ELSE entry
      /\ mine' = [mine EXCEPT ![c] = 0]
      /\ UNCHANGED <<holder, pc>>
  BY DEF LeaveThread, Leaves, clients, LockInv
<1>3. mine'[c] = 0 /\ \A d \in Callers : d # c => mine'[d] = mine[d]
  BY <1>2 DEF LockInv
<1>4. /\ UsersOf(mine', entry) = UsersOf(mine, entry) \ {c} /\ c \in UsersOf(mine, entry)
      /\ \A x \in Entries : x # entry => UsersOf(mine', x) = UsersOf(mine, x)
  BY <1>2, <1>3 DEF UsersOf
<1>5. /\ users[entry] = Cardinality(UsersOf(mine, entry)) /\ users[entry] \in Nat
      /\ Cardinality(UsersOf(mine', entry)) = users[entry] - 1
      /\ users[entry] - 1 \in Nat
      /\ users[entry] = 1 <=> UsersOf(mine', entry) = {}
  <2>1. users[entry] = Cardinality(UsersOf(mine, entry)) /\ users[entry] \in Nat
    BY <1>2 DEF LockInv
  <2>2. Cardinality(UsersOf(mine', entry)) = users[entry] - 1
    <3>1. IsFiniteSet(UsersOf(mine, entry)) /\ c \in UsersOf(mine, entry)
      BY <1>4, CallersFinite
    <3>2. Cardinality(UsersOf(mine, entry) \ {c}) = Cardinality(UsersOf(mine, entry)) - 1
      BY <3>1, FS_RemoveElement
    <3> QED BY <1>4, <2>1, <3>2
  <2>3. Cardinality(UsersOf(mine', entry)) \in Nat /\ IsFiniteSet(UsersOf(mine', entry))
    BY CallersFinite
  <2>4. Cardinality(UsersOf(mine', entry)) = 0 <=> UsersOf(mine', entry) = {}
    BY <2>3, FS_EmptySet
  <2> QED BY <2>1, <2>2, <2>3, <2>4
<1>6. ASSUME NEW x \in Entries PROVE users'[x] = Cardinality(UsersOf(mine', x))
  <2>1. CASE x = entry
    BY <2>1, <1>2, <1>5 DEF LockInv
  <2>2. CASE x # entry
    <3>1. users'[x] = users[x] /\ users[x] = Cardinality(UsersOf(mine, x))
      BY <2>2, <1>2 DEF LockInv
    <3> QED BY <2>2, <3>1, <1>4
  <2> QED BY <2>1, <2>2
<1>7. users' \in [Entries -> Nat]
  BY <1>2, <1>5 DEF LockInv
<1>8. /\ \A d \in Callers : mine[d] \in {0, entry}
      /\ users[entry] = 1 => \A d \in Callers : mine'[d] = 0
      /\ users[entry] # 1 => \E d \in Callers : mine'[d] = entry
  <2>1. \A d \in Callers : mine[d] \in {0, entry}
    BY DEF LockInv
  <2> QED BY <1>2, <1>3, <1>5, <2>1 DEF UsersOf
<1>9. mine' \in [Callers -> {0, entry'}] /\ (entry' = 0 <=> \A d \in Callers : mine'[d] = 0)
  <2>1. DOMAIN mine' = Callers /\ mine' = [d \in Callers |-> mine'[d]]
    BY <1>2 DEF LockInv
  <2>2. \A d \in Callers : mine'[d] \in {0, entry'}
    BY <1>2, <1>3, <1>8
  <2>3. entry' = 0 <=> \A d \in Callers : mine'[d] = 0
    BY <1>2, <1>8
  <2> QED BY <2>1, <2>2, <2>3
<1>11. ASSUME NEW d \in Callers
       PROVE  /\ pc'[d] = "idle" => mine'[d] = 0
              /\ pc'[d] \in MustHold \cup {"acquire"} => mine'[d] # 0
              /\ Critical(d)' => holder'[mine'[d]] = d
  <2>1. CASE d = c
    BY <2>1, <1>2, <1>3 DEF Critical, MustHold
  <2>2. CASE d # c
    BY <2>2, <1>2, <1>3 DEF LockInv, Critical
  <2> QED BY <2>1, <2>2
<1>12. entry' \in Entries
  BY <1>2, CallersFinite
<1> QED BY <1>2, <1>6, <1>7, <1>9, <1>11, <1>12 DEF LockInv

LEMMA GoOnKeepsLock ==
  ASSUME LockInv, NEW c \in Callers, GoesOn(c)
  PROVE  LockInv'
<1>1. PICK l \in Labels \ Outside :
        /\ Goto(c, l) /\ (l \in MustHold => pc[c] \in MustHold)
        /\ (l \in Stopping => mine[c] = 0 \/ Critical(c))
  BY DEF GoesOn
<1>2. /\ pc[c] \notin Outside /\ UNCHANGED <<entry, users, holder, mine>>
      /\ pc' = [pc EXCEPT ![c] = l]
  BY <1>1 DEF GoesOn, Goto, locks
<1>3. pc' \in [Callers -> Labels] /\ pc'[c] = l /\ \A d \in Callers : d # c => pc'[d] = pc[d]
  BY <1>2 DEF LockInv
<1>4. ASSUME NEW d \in Callers
      PROVE  /\ pc'[d] = "idle" => mine'[d] = 0
             /\ pc'[d] \in MustHold \cup {"acquire"} => mine'[d] # 0
             /\ Critical(d)' => holder'[mine'[d]] = d
  BY <1>1, <1>2, <1>3 DEF LockInv, Critical, Outside, MustHold, Stopping
<1> QED BY <1>2, <1>3, <1>4 DEF LockInv

\* A step that has nothing to do with the thread-start lock.
LEMMA ServerAndReaderSteps ==
  ASSUME AppServer \/ Reader \/ \E c \in Callers : TransportError(c)
  PROVE  UNCHANGED <<locks, clients>>
<1>1. CASE AppServer
  <2>1. ASSUME StartTurn \/ EndGoal \/ Crash \/ \E status \in {"completed", "failed"} : EndTurn(status)
        PROVE  UNCHANGED <<locks, clients>>
    BY <2>1 DEF StartTurn, EndGoal, Crash, EndTurn, Quietly
  <2>2. ASSUME NEW c \in Callers, Serve(c) \/ \E what \in {"invalid", "error"} : Refuse(c, what)
        PROVE  UNCHANGED <<locks, clients>>
    <3>1. \E at : Reply(c, at)
      BY <2>2 DEF Serve, ServeRead, ServeClear, ServeSet, ServePause, ServeTurn, ServeInterrupt, Refuse
    <3> QED BY <3>1 DEF Reply
  <2> QED BY <1>1, <2>1, <2>2 DEF AppServer
<1>2. CASE Reader
  BY <1>2 DEF Reader, RouteAnswer, LookUpGoal, Observe, PutNotification, UnregisterFinished,
              FailAll, FailGoal, PutFailure
<1>3. CASE \E c \in Callers : TransportError(c)
  BY <1>3 DEF TransportError
<1> QED BY <1>1, <1>2, <1>3

LEMMA FinishReleases ==
  ASSUME LockInv, NEW g \in Goals, pc[g] \notin Outside, mine[g] = 0 \/ Critical(g),
         NEW l \in Labels \ (Outside \cup MustHold \cup Stopping), Finish(g, l)
  PROVE  Releases(g) \/ GoesOn(g)
<1>1. CASE mine[g] = 0
  BY <1>1 DEF Finish, GoesOn
<1>2. CASE mine[g] # 0
  BY <1>2 DEF Finish, Releases
<1> QED BY <1>1, <1>2

LEMMA StartersStep ==
  ASSUME LockInv, NEW c \in Starters, StartOfTurn(c) \/ TurnRefused(c) \/ AfterTurn(c)
  PROVE  Gets(c) \/ Releases(c)
<1>1. CASE StartOfTurn(c)
  BY <1>1 DEF StartOfTurn, Send, Gets
<1>2. CASE TurnRefused(c)
  <2>1. mine[c] # 0
    BY <1>2 DEF TurnRefused, LockInv, Callers
  <2> QED BY <1>2, <2>1 DEF TurnRefused, Releases, Labels, Outside, MustHold, Stopping
<1>3. CASE AfterTurn(c)
  <2>1. mine[c] # 0 /\ pc[c] = "turn"
    BY <1>3 DEF AfterTurn, Answered, LockInv, Callers, MustHold
  <2>2. \E l \in {"started", "raised"} : Goto(c, l)
    BY <1>3 DEF AfterTurn
  <2>3. Critical(c)
    BY <2>1 DEF Critical
  <2> QED BY <1>3, <2>1, <2>2, <2>3 DEF AfterTurn, Releases, Labels, Outside, MustHold, Stopping
<1> QED BY <1>1, <1>2, <1>3

LEMMA GoalsStep ==
  ASSUME LockInv, NEW g \in Goals,
         GoalCall(g) \/ CloseStream(g) \/ CancelStream(g), ~TransportError(g)
  PROVE  UNCHANGED <<locks, pc>> \/ Gets(g) \/ Releases(g) \/ GoesOn(g)
<1>0. g \in Callers
  BY DEF Callers
<1>1. CASE StartOfGoal(g)
  BY <1>1 DEF StartOfGoal, Send, Gets
<1>2. CASE Reserve(g) \/ Cleared(g) \/ GoalSet(g)
  <2>1. pc[g] \in MustHold /\ UNCHANGED locks
    BY <1>2 DEF Reserve, Cleared, GoalSet, Answered, MustHold
  <2>2. \E l \in {"clear", "set", "wait for start"} : Goto(g, l)
    BY <1>2 DEF Reserve, Cleared, GoalSet, Send
  <2> QED BY <2>1, <2>2 DEF GoesOn, Outside, MustHold, Stopping, Labels
<1>3. CASE GoalRefused(g) \/ TurnSeen(g)
  <2>1. pc[g] \in {"read", "wait for start"} /\ mine[g] # 0 /\ Release(g)
    BY <1>0, <1>3 DEF GoalRefused, TurnSeen, Answered, LockInv, MustHold
  <2>2. \E l \in {"raised", "streaming"} : Goto(g, l)
    BY <1>3 DEF GoalRefused, TurnSeen
  <2> QED BY <2>1, <2>2 DEF Releases, Critical, Outside, MustHold, Stopping, Labels
<1>4. CASE StartFails(g) \/ Paused(g) \/ InterruptAgain(g) \/ CancelStream(g)
  <2>1. /\ pc[g] \in {"clear", "set", "wait for start", "pause", "interrupt"} \/ (pc[g] = "streaming" /\ mine[g] = 0)
        /\ UNCHANGED locks
    BY <1>4 DEF StartFails, Paused, InterruptAgain, CancelStream, Streaming, Answered
  <2>2. \E l \in Stopping : Goto(g, l)
    BY <1>4 DEF StartFails, Paused, InterruptAgain, CancelStream, Send, Stopping
  <2>3. mine[g] = 0 \/ Critical(g)
    BY <2>1 DEF Critical
  <2> QED BY <2>1, <2>2, <2>3 DEF GoesOn, Outside, MustHold, Stopping, Labels
<1>5. CASE Rejected(g) \/ Cancelled(g) \/ CloseStream(g)
  <2>1. \/ pc[g] \in {"clear", "set", "pause", "interrupt", "interrupt again"}
        \/ pc[g] = "streaming" /\ mine[g] = 0
    BY <1>5 DEF Rejected, Cancelled, CloseStream, Streaming, Answered
  <2>2. \E l \in {"raised", "cancelled", "closed"} : Finish(g, l)
    BY <1>5 DEF Rejected, Cancelled, CloseStream
  <2>3. {"raised", "cancelled", "closed"} \subseteq Labels \ (Outside \cup MustHold \cup Stopping)
    BY DEF Labels, Outside, MustHold, Stopping
  <2>4. pc[g] \notin Outside /\ (mine[g] = 0 \/ Critical(g))
    BY <2>1 DEF Critical, Outside
  <2> QED BY <2>2, <2>3, <2>4, FinishReleases
<1>6. CASE Consume(g)
  <2>1. pc[g] = "streaming"
    BY <1>6 DEF Consume, TakeStarted, TakeCompleted, TakeGoal, TakeFailure, Took, Streaming
  <2>2. UNCHANGED <<locks, pc>> \/ (UNCHANGED locks /\ \E l \in {"done", "raised"} : Goto(g, l))
    BY <1>6 DEF Consume, TakeStarted, TakeCompleted, TakeGoal, TakeFailure, EndStream
  <2> QED BY <2>1, <2>2 DEF GoesOn, Outside, MustHold, Stopping, Labels
<1> QED BY <1>1, <1>2, <1>3, <1>4, <1>5, <1>6 DEF GoalCall

LEMMA InitLock == Init => LockInv
<1> SUFFICES ASSUME Init PROVE LockInv
  OBVIOUS
<1>1. entry \in Entries
  BY CallersFinite DEF Init
<1>2. \A e \in Entries : users[e] = Cardinality(UsersOf(mine, e))
  <2>1. ASSUME NEW e \in Entries PROVE UsersOf(mine, e) = {}
    BY DEF Init, UsersOf
  <2> QED BY <2>1, FS_EmptySet DEF Init
<1> QED BY <1>1, <1>2 DEF Init, LockInv, Labels, Outside, MustHold, Stopping, Critical

LEMMA KeepsLock == LockInv /\ [Next]_vars => LockInv'
<1> SUFFICES ASSUME LockInv, [Next]_vars PROVE LockInv'
  OBVIOUS
<1>1. CASE UNCHANGED <<locks, pc>>
  BY <1>1 DEF LockInv, Critical, UsersOf, locks
<1>2. ASSUME AppServer \/ Reader \/ \E c \in Callers : TransportError(c) PROVE LockInv'
  BY <1>1, <1>2, ServerAndReaderSteps DEF clients
<1>3. ASSUME NEW c \in Callers, EnterThread(c) \/ LeaveThread(c) PROVE LockInv'
  BY <1>3, EnterKeepsLock, LeaveKeepsLock DEF Enters
<1>4. ASSUME NEW c \in Starters, TurnStart(c) PROVE LockInv'
  <2>1. c \in Callers
    BY DEF Callers
  <2> QED BY <1>2, <1>4, <2>1, StartersStep, GetKeepsLock, ReleaseKeepsLock DEF TurnStart
<1>5. ASSUME NEW g \in Goals, GoalCall(g) \/ CloseStream(g) \/ CancelStream(g) PROVE LockInv'
  <2>1. g \in Callers
    BY DEF Callers
  <2> QED BY <1>1, <1>2, <1>5, <2>1, GoalsStep, GetKeepsLock, ReleaseKeepsLock, GoOnKeepsLock
<1>6. CASE UNCHANGED vars
  BY <1>1, <1>6 DEF vars, clients
<1> QED BY <1>2, <1>3, <1>4, <1>5, <1>6 DEF Next, Application

LEMMA OneInside == LockInv => OneStarter
BY DEF LockInv, OneStarter, Critical

\* For any number of callers, the thread-start lock lets one of them in, though
\* _thread_start_lock makes it on demand and drops it with its last user.
THEOREM OneStarterHolds == Spec => []OneStarter
<1>1. Spec => []LockInv
  BY InitLock, KeepsLock, PTL DEF Spec
<1> QED BY <1>1, OneInside, PTL

-----------------------------------------------------------------------------
(* Types. *)

Status == {"none", "active", "paused", "complete"}
Upto == 0 .. MaxTurns
StartedLines == [kind : {"started"}, n : Turns]
EndedLines == [kind : {"completed"}, n : Turns, status : {"completed", "failed", "interrupted"}]
GoalLines == [kind : {"goal"}, status : Status \cup {"cleared"}]
Notices == StartedLines \cup EndedLines \cup GoalLines
Answers ==
  [kind : {"answer"}, of : Callers, what : {"ok", "busy", "invalid", "error", "exception"}, n : Upto]
Lines == Notices \cup Answers
Notified == [at : {"observe", "put", "unregister"}, to : Goals, msg : Notices]
Failures == [at : {"fail", "put failure"}, to : Goals]
Queued == Notices \cup {[kind |-> "failure"]}
States ==
  [current : Upto, status : Status, started : Upto, completed : Upto, cleared : BOOLEAN,
   finished : BOOLEAN, routing : BOOLEAN, failure : BOOLEAN, queue : Seq(Queued)]
Cursors ==
  [started : Upto, last : Upto, status : Status, active : BOOLEAN, cleared : BOOLEAN]

ServerType ==
  /\ goal \in Status /\ owner \in Goals \cup {Nobody}
  /\ startedBy \in Seq(Callers \cup {Nobody}) /\ Len(startedBy) <= MaxTurns
  /\ running \in {0, Len(startedBy)}
  /\ asked \subseteq Callers /\ crashed \in BOOLEAN /\ faults \in 0 .. MaxEvents
  /\ wire \in Seq(Lines)

ReaderType ==
  /\ hand = <<>> \/ \E h \in Notified \cup Failures : hand = <<h>>
  /\ failed \in BOOLEAN
  /\ answer \in [Callers -> {<<>>} \cup {<<a>> : a \in Answers}]
  /\ route \in Goals \cup {Nobody}
  /\ state \in [Goals -> States]
  /\ swallowed \subseteq Turns

\* Who is where: the callers of turn_start never set or interrupt anything.
ClientType ==
  /\ cursor \in [Goals -> Cursors]
  /\ pc \in [Callers -> Labels]
  /\ \A c \in Starters : pc[c] \in {"idle", "acquire", "turn", "started", "raised"}
  /\ target \in [Goals -> Upto]
  /\ \A g \in Goals : pc[g] \in {"interrupt", "interrupt again"} => target[g] \in Turns

TypeInv == ServerType /\ ReaderType /\ ClientType

LEMMA Numbers ==
  /\ Turns = 1 .. MaxTurns /\ Turns \subseteq Upto /\ Upto \subseteq Nat /\ 0 \in Upto /\ MaxTurns \in Nat
  /\ ServerType => running \in Upto /\ (running # 0 => running \in Turns)
  /\ ServerType /\ Len(startedBy) < MaxTurns => Len(startedBy) + 1 \in Turns
  /\ Callers = Goals \cup Starters
BY GoalAssumption DEF Turns, Upto, ServerType, Callers

LEMMA FaultsBounded == ServerType /\ Fault => faults' \in 0 .. MaxEvents
<1>1. \A G : G \subseteq Callers => Called(G) \in Nat
  <2> SUFFICES ASSUME NEW G, G \subseteq Callers PROVE Called(G) \in Nat
    OBVIOUS
  <2>1. {c \in G : pc[c] /= "idle"} \in SUBSET Callers
    OBVIOUS
  <2>2. IsFiniteSet({c \in G : pc[c] /= "idle"})
    BY <2>1, CallersFinite, FS_Subset
  <2> QED BY <2>2, FS_CardinalityType DEF Called
<1>2. Called(Goals) \in Nat /\ Called(Starters) \in Nat
  BY <1>1 DEF Callers
<1> QED BY <1>2, GoalAssumption DEF ServerType, Fault, Events

\* Every line the app-server writes is one the reader knows.
LEMMA LinesTyped ==
  /\ \A n \in Turns : Started(n) \in StartedLines
  /\ \A n \in Turns, status \in {"completed", "failed", "interrupted"} : Ended(n, status) \in EndedLines
  /\ \A status \in Status \cup {"cleared"} : Goal(status) \in GoalLines
  /\ \A c \in Callers, what \in {"ok", "busy", "invalid", "error", "exception"}, n \in Upto :
       Answer(c, what, n) \in Answers
  /\ StartedLines \cup EndedLines \cup GoalLines = Notices /\ Notices \cup Answers = Lines
BY DEF Started, Ended, Goal, Answer, StartedLines, EndedLines, GoalLines, Notices, Answers, Lines

LEMMA OneLine == \A x \in Lines : <<x>> \in Seq(Lines)
OBVIOUS

LEMMA TwoLines == \A x, y \in Lines : <<x, y>> \in Seq(Lines) /\ <<x>> \o <<y>> \in Seq(Lines)
OBVIOUS

LEMMA SaidLines ==
  ASSUME wire \in Seq(Lines), NEW s \in Seq(Lines), Say(s)
  PROVE  wire' \in Seq(Lines)
BY DEF Say

\* What a request does to the server.
LEMMA ServeKeepsServer ==
  ASSUME ServerType, ClientType, NEW c \in Callers,
         Serve(c) \/ \E what \in {"invalid", "error"} : Refuse(c, what)
  PROVE  ServerType'
<1> USE Numbers
<1>0. ServerType' <=> 
        /\ goal' \in Status /\ owner' \in Goals \cup {Nobody}
        /\ startedBy' \in Seq(Callers \cup {Nobody}) /\ Len(startedBy') <= MaxTurns
        /\ running' \in {0, Len(startedBy')}
        /\ asked' \subseteq Callers /\ crashed' \in BOOLEAN /\ faults' \in 0 .. MaxEvents
        /\ wire' \in Seq(Lines)
  BY DEF ServerType
<1>1. CASE ServeRead(c)
  <2>1. \E what \in {"ok", "busy"} : Say(<<Answer(c, what, 0)>>)
    BY <1>1 DEF ServeRead
  <2>2. wire' \in Seq(Lines)
    BY <2>1, LinesTyped, OneLine, SaidLines DEF ServerType
  <2> QED BY <1>0, <1>1, <2>2 DEF ServeRead, Reply, ServerType
<1>2. CASE ServeClear(c)
  <2>1. Answer(c, "ok", 0) \in Lines /\ Goal("cleared") \in Lines
    BY LinesTyped
  <2>2. (IF goal = "none" THEN <<>> ELSE <<Goal("cleared")>>) \o <<Answer(c, "ok", 0)>> \in Seq(Lines)
    BY <2>1, TwoLines, OneLine
  <2>3. wire' \in Seq(Lines)
    BY <1>2, <2>2, SaidLines DEF ServeClear, ServerType
  <2> QED BY <1>0, <1>2, <2>3 DEF ServeClear, Reply, ServerType, Status
<1>3. CASE ServeSet(c)
  <2>1. c \in Goals
    BY <1>3 DEF ServeSet, Reply, ClientType
  <2>2. Answer(c, "ok", 0) \in Lines /\ Goal("active") \in Lines
    BY LinesTyped DEF Status
  <2>3. wire' \in Seq(Lines)
    BY <1>3, <2>2, TwoLines, SaidLines DEF ServeSet, ServerType
  <2> QED BY <1>0, <1>3, <2>1, <2>3 DEF ServeSet, Reply, ServerType, Status
<1>4. CASE ServePause(c)
  <2>1. Answer(c, "ok", 0) \in Lines /\ Goal("paused") \in Lines
    BY LinesTyped DEF Status
  <2>2. (IF goal = "active" THEN <<Goal("paused")>> ELSE <<>>) \o <<Answer(c, "ok", 0)>> \in Seq(Lines)
    BY <2>1, TwoLines, OneLine
  <2>3. wire' \in Seq(Lines)
    BY <1>4, <2>2, SaidLines DEF ServePause, ServerType
  <2> QED BY <1>0, <1>4, <2>3 DEF ServePause, Reply, ServerType, Status
<1>5. CASE ServeTurn(c)
  <2>1. CASE running = 0 /\ Len(startedBy) < MaxTurns
    <3>1. Answer(c, "ok", 0) \in Lines /\ Started(Len(startedBy) + 1) \in Lines
      BY <2>1, LinesTyped
    <3>2. wire' \in Seq(Lines)
      BY <1>5, <2>1, <3>1, TwoLines, SaidLines DEF ServeTurn, ServerType
    <3>3. startedBy' = Append(startedBy, c) /\ running' = Len(startedBy) + 1
      BY <1>5, <2>1 DEF ServeTurn
    <3>4. startedBy' \in Seq(Callers \cup {Nobody}) /\ Len(startedBy') = Len(startedBy) + 1
      BY <3>3 DEF ServerType
    <3> QED BY <1>0, <1>5, <2>1, <3>2, <3>3, <3>4 DEF ServeTurn, Reply, ServerType
  <2>2. CASE ~(running = 0 /\ Len(startedBy) < MaxTurns)
    <3>1. wire' \in Seq(Lines)
      BY <1>5, <2>2, LinesTyped, OneLine, SaidLines DEF ServeTurn, ServerType
    <3>2. UNCHANGED <<running, startedBy>>
      BY <1>5, <2>2 DEF ServeTurn
    <3> QED BY <1>0, <1>5, <3>1, <3>2 DEF ServeTurn, Reply, ServerType
  <2> QED BY <2>1, <2>2
<1>6. CASE c \in Goals /\ ServeInterrupt(c)
  <2>1. target[c] \in Turns /\ asked' = asked \ {c} /\ crashed' = crashed
    BY <1>6 DEF ServeInterrupt, Reply, ClientType
  <2>2. CASE running = target[c]
    <3>1. Answer(c, "ok", 0) \in Lines /\ Ended(running, "interrupted") \in Lines
      BY <2>1, <2>2, LinesTyped
    <3>2. wire' \in Seq(Lines)
      BY <1>6, <2>2, <3>1, TwoLines, SaidLines DEF ServeInterrupt, ServerType
    <3> QED BY <1>0, <1>6, <2>1, <2>2, <3>2 DEF ServeInterrupt, ServerType
  <2>3. CASE running # target[c]
    <3>1. wire' \in Seq(Lines)
      BY <1>6, <2>3, LinesTyped, OneLine, SaidLines DEF ServeInterrupt, ServerType
    <3> QED BY <1>0, <1>6, <2>1, <2>3, <3>1 DEF ServeInterrupt, ServerType
  <2> QED BY <2>2, <2>3
<1>7. ASSUME NEW what \in {"invalid", "error"}, Refuse(c, what) PROVE ServerType'
  <2>1. wire' \in Seq(Lines)
    BY <1>7, LinesTyped, OneLine, SaidLines DEF Refuse, ServerType
  <2>2. faults' \in 0 .. MaxEvents
    BY <1>7, FaultsBounded DEF Refuse
  <2> QED BY <1>0, <1>7, <2>1, <2>2 DEF Refuse, Reply, ServerType
<1> QED BY <1>1, <1>2, <1>3, <1>4, <1>5, <1>6, <1>7 DEF Serve

LEMMA ServerKeepsServer ==
  ASSUME ServerType, StartTurn \/ EndGoal \/ Crash \/ \E status \in {"completed", "failed"} : EndTurn(status)
  PROVE  ServerType'
<1> USE Numbers
<1>1. CASE StartTurn
  <2>1. startedBy' = Append(startedBy, owner) /\ running' = Len(startedBy) + 1 /\ Len(startedBy) < MaxTurns
    BY <1>1 DEF StartTurn
  <2>2. startedBy' \in Seq(Callers \cup {Nobody}) /\ Len(startedBy') = Len(startedBy) + 1
    BY <2>1 DEF ServerType
  <2>3. Started(Len(startedBy) + 1) \in Lines
    BY <2>1, LinesTyped
  <2>4. wire' \in Seq(Lines)
    BY <1>1, <2>3, OneLine, SaidLines DEF StartTurn, ServerType
  <2> QED BY <1>1, <2>1, <2>2, <2>4 DEF StartTurn, Quietly, ServerType
<1>2. ASSUME NEW status \in {"completed", "failed"}, EndTurn(status) PROVE ServerType'
  <2>1. Ended(running, status) \in Lines
    BY <1>2, LinesTyped DEF EndTurn
  <2>2. wire' \in Seq(Lines)
    BY <1>2, <2>1, OneLine, SaidLines DEF EndTurn, ServerType
  <2>3. faults' \in 0 .. MaxEvents
    <3>1. Fault \/ faults' = faults
      BY <1>2 DEF EndTurn
    <3> QED BY <3>1, FaultsBounded DEF ServerType
  <2> QED BY <1>2, <2>2, <2>3 DEF EndTurn, Quietly, ServerType
<1>3. CASE EndGoal
  <2>1. Goal("complete") \in Lines
    BY LinesTyped DEF Status
  <2>2. wire' \in Seq(Lines)
    BY <1>3, <2>1, OneLine, SaidLines DEF EndGoal, ServerType
  <2> QED BY <1>3, <2>2 DEF EndGoal, Quietly, ServerType, Status
<1>4. CASE Crash
  <2>1. faults' \in 0 .. MaxEvents
    BY <1>4, FaultsBounded DEF Crash
  <2> QED BY <1>4, <2>1 DEF Crash, Quietly, ServerType
<1> QED BY <1>1, <1>2, <1>3, <1>4

\* What the reader and the clients do to the server: they read its lines and write requests.
Reads ==
  /\ UNCHANGED <<goal, owner, running, startedBy, crashed>> /\ (UNCHANGED faults \/ Fault)
  /\ asked' \subseteq asked \cup Callers
  /\ wire' = wire \/ (wire # <<>> /\ wire' = Tail(wire))

LEMMA ReadsKeepServer == ServerType /\ Reads => ServerType'
<1> SUFFICES ASSUME ServerType, Reads PROVE ServerType'
  OBVIOUS
<1>1. faults' \in 0 .. MaxEvents
  BY FaultsBounded DEF Reads, ServerType
<1>2. wire' \in Seq(Lines)
  <2>1. wire \in Seq(Lines) /\ (wire' = wire \/ (wire # <<>> /\ wire' = Tail(wire)))
    BY DEF Reads, ServerType
  <2> HIDE DEF Lines
  <2> QED BY <2>1
<1>3. UNCHANGED <<goal, owner, running, startedBy, crashed>> /\ asked' \subseteq asked \cup Callers
  BY DEF Reads
<1> QED BY <1>1, <1>2, <1>3 DEF ServerType

LEMMA ReaderReads == Reader => Reads
BY DEF Reader, RouteAnswer, LookUpGoal, Observe, PutNotification, UnregisterFinished, FailAll, FailGoal,
       PutFailure, Reads, server

ClientStep ==
  \/ \E c \in Callers : EnterThread(c) \/ LeaveThread(c) \/ TransportError(c)
  \/ \E c \in Starters : StartOfTurn(c) \/ TurnRefused(c) \/ AfterTurn(c)
  \/ \E g \in Goals : GoalCall(g) \/ CloseStream(g) \/ CancelStream(g)

LEMMA ClientReads == ClientStep => Reads
<1>1. ASSUME NEW c \in Callers, EnterThread(c) \/ LeaveThread(c) \/ TransportError(c) PROVE Reads
  BY <1>1 DEF EnterThread, LeaveThread, Leaves, TransportError, Reads, server
<1>2. ASSUME NEW c \in Starters, StartOfTurn(c) \/ TurnRefused(c) \/ AfterTurn(c) PROVE Reads
  BY <1>2 DEF StartOfTurn, TurnRefused, AfterTurn, Send, NoRequest, Reads, server, Callers
<1>3. ASSUME NEW g \in Goals, CloseStream(g) \/ CancelStream(g) PROVE Reads
  BY <1>3 DEF CloseStream, CancelStream, Send, NoRequest, Reads, server, Callers
<1>4. ASSUME NEW g \in Goals, GoalCall(g) PROVE Reads
  <2>1. ASSUME Consume(g) PROVE Reads
    BY <2>1 DEF Consume, TakeStarted, TakeCompleted, TakeGoal, TakeFailure, Took, Reads, server
  <2>2. ASSUME StartOfGoal(g) \/ Reserve(g) \/ GoalRefused(g) \/ Cleared(g) \/ GoalSet(g) \/ TurnSeen(g)
        PROVE  Reads
    BY <2>2 DEF StartOfGoal, Reserve, GoalRefused, Cleared, GoalSet, TurnSeen, Send, NoRequest, Reads,
                server, Callers
  <2>3. ASSUME Rejected(g) \/ StartFails(g) \/ Paused(g) \/ InterruptAgain(g) \/ Cancelled(g)
        PROVE  Reads
    BY <2>3 DEF Rejected, StartFails, Paused, InterruptAgain, Cancelled, Send, NoRequest, Reads, server,
                Callers
  <2>4. ASSUME TransportError(g) PROVE Reads
    BY <2>4 DEF TransportError, Reads, Callers
  <2> QED BY <1>4, <2>1, <2>2, <2>3, <2>4 DEF GoalCall
<1> QED BY <1>1, <1>2, <1>3, <1>4 DEF ClientStep

LEMMA NextCases ==
  Next =>
    \/ StartTurn \/ EndGoal \/ Crash \/ \E status \in {"completed", "failed"} : EndTurn(status)
    \/ \E c \in Callers : Serve(c) \/ \E what \in {"invalid", "error"} : Refuse(c, what)
    \/ Reader
    \/ ClientStep
BY DEF Next, AppServer, Application, TurnStart, ClientStep, Callers

LEMMA KeepsServerType ==
  ASSUME ServerType, ClientType, Next
  PROVE  ServerType'
BY NextCases, ServerKeepsServer, ServeKeepsServer, ReaderReads, ClientReads, ReadsKeepServer

\* What a notification does to the state of a goal, short of its end.
LEMMA ToldTyped ==
  ASSUME NEW st \in States, NEW msg \in Notices
  PROVE  /\ Told(st, msg) \in States
         /\ Told(st, msg).finished = st.finished /\ Told(st, msg).failure = st.failure
<1> USE Numbers DEF States, Told
<1>1. CASE msg \in StartedLines
  BY <1>1 DEF StartedLines
<1>2. CASE msg \in EndedLines
  BY <1>2 DEF EndedLines
<1>3. CASE msg \in GoalLines
  BY <1>3 DEF GoalLines, Status
<1> QED BY <1>1, <1>2, <1>3 DEF Notices

Observed(st, msg) ==
  [Told(st, msg) EXCEPT !.finished = @ \/ Over(Told(st, msg)), !.queue = Append(@, msg)]

LEMMA ObservedTyped ==
  ASSUME NEW st \in States, NEW msg \in Notices
  PROVE  /\ Observed(st, msg) \in States
         /\ Observed(st, msg).failure = st.failure /\ (st.finished => Observed(st, msg).finished)
<1> DEFINE told == Told(st, msg)
           new == Observed(st, msg)
<1>1. told \in States /\ told.finished = st.finished /\ told.failure = st.failure
  BY ToldTyped
<1> HIDE DEF told
<1>2. msg \in Queued
  BY DEF Queued
<1>3. Over(told) \in BOOLEAN
  BY <1>1 DEF Over, Terminal, States
<1>4. Append(told.queue, msg) \in Seq(Queued)
  BY <1>1, <1>2 DEF States
<1>5. new = [told EXCEPT !.finished = told.finished \/ Over(told), !.queue = Append(told.queue, msg)]
  BY DEF told, Observed
<1> HIDE DEF new
<1>6. new \in States /\ new.failure = told.failure /\ new.finished = (told.finished \/ Over(told))
  BY <1>1, <1>3, <1>4, <1>5 DEF States
<1> QED BY <1>1, <1>6 DEF new

\* A state that only gets finished, or only loses the head of its queue.
Ends(g) ==
  /\ state' \in [Goals -> States] /\ state'[g].finished
  /\ \A h \in Goals : h # g => state'[h] = state[h]
  /\ \A h \in Goals : state[h].finished => state'[h].finished

Keeps ==
  /\ state' \in [Goals -> States]
  /\ \A h \in Goals : state'[h].finished = state[h].finished /\ state'[h].failure = state[h].failure

LEMMA FinishEnds ==
  ASSUME ReaderType, NEW g \in Goals, NEW l, Finish(g, l)
  PROVE  Ends(g)
<1>1. state \in [Goals -> States] /\ state' = [state EXCEPT ![g].finished = TRUE, ![g].current = 0]
  BY DEF Finish, ReaderType
<1>2. /\ state'[g] = [state[g] EXCEPT !.finished = TRUE, !.current = 0]
      /\ \A h \in Goals : h # g => state'[h] = state[h]
      /\ DOMAIN state' = Goals /\ state' = [h \in Goals |-> state'[h]]
  BY <1>1
<1>3. state'[g] \in States /\ state'[g].finished
  <2>1. state[g] \in States /\ 0 \in Upto
    BY <1>1, Numbers
  <2> QED BY <1>2, <2>1 DEF States
<1>4. \A h \in Goals : state'[h] \in States
  BY <1>1, <1>2, <1>3
<1>5. state' \in [Goals -> States]
  BY <1>2, <1>4
<1> QED BY <1>2, <1>3, <1>5 DEF Ends

LEMMA EndStreamEnds ==
  ASSUME ReaderType, NEW g \in Goals, NEW l, EndStream(g, l), state[g].queue # <<>>
  PROVE  Ends(g)
<1>1. Tail(state[g].queue) \in Seq(Queued) /\ state[g] \in States
  BY DEF ReaderType, States
<1> QED BY <1>1, Numbers DEF EndStream, ReaderType, States, Ends

LEMMA DequeuedKeeps ==
  ASSUME ReaderType, NEW g \in Goals, Dequeued(g), state[g].queue # <<>>
  PROVE  Keeps
<1>1. Tail(state[g].queue) \in Seq(Queued) /\ state[g] \in States
  BY DEF ReaderType, States
<1> QED BY <1>1 DEF Dequeued, ReaderType, States, Keeps

LEMMA ClearedKeeps ==
  ASSUME ReaderType, NEW g \in Goals, Cleared(g)
  PROVE  Keeps
<1>1. state \in [Goals -> States] /\ state' = [state EXCEPT ![g].routing = TRUE]
  BY DEF Cleared, ReaderType
<1>2. /\ state'[g] = [state[g] EXCEPT !.routing = TRUE]
      /\ \A h \in Goals : h # g => state'[h] = state[h]
      /\ DOMAIN state' = Goals /\ state' = [h \in Goals |-> state'[h]]
  BY <1>1
<1>3. state'[g] \in States /\ state'[g].finished = state[g].finished /\ state'[g].failure = state[g].failure
  <2>1. state[g] \in States
    BY <1>1
  <2> QED BY <1>2, <2>1 DEF States
<1>4. \A h \in Goals : state'[h] \in States
  BY <1>1, <1>2, <1>3
<1>5. state' \in [Goals -> States]
  BY <1>2, <1>4
<1> QED BY <1>2, <1>3, <1>5 DEF Keeps

LEMMA UnregisterTyped ==
  ASSUME ReaderType, NEW g \in Goals, Unregister(g)
  PROVE  route' \in Goals \cup {Nobody}
BY DEF Unregister, ReaderType

LEMMA Sent ==
  ASSUME ReaderType, NEW c \in Callers, NEW l, Send(c, l)
  PROVE  answer' \in [Callers -> {<<>>} \cup {<<a>> : a \in Answers}]
BY DEF Send, ReaderType

LEMMA HeadTyped ==
  ASSUME ServerType, wire # <<>>
  PROVE  Head(wire) \in Lines /\ (Head(wire).kind = "answer" <=> Head(wire) \in Answers)
<1>1. Head(wire) \in Lines
  BY DEF ServerType
<1> QED BY <1>1 DEF Lines, Notices, Answers, StartedLines, EndedLines, GoalLines

LEMMA HandTyped ==
  ASSUME ReaderType, hand # <<>>
  PROVE  /\ hand[1].to \in Goals /\ hand = <<hand[1]>>
         /\ hand[1].at \in {"observe", "put", "unregister"} => hand[1] \in Notified
         /\ hand[1].at \in {"fail", "put failure"} => hand[1] \in Failures
         /\ hand[1].at \in {"observe", "put", "unregister", "fail", "put failure"}
<1>1. PICK h \in Notified \cup Failures : hand = <<h>>
  BY DEF ReaderType
<1>2. hand[1] = h /\ hand = <<hand[1]>>
  BY <1>1
<1>3. CASE h \in Notified
  <2>1. h.at \in {"observe", "put", "unregister"} /\ h.to \in Goals
    BY <1>3 DEF Notified
  <2> QED BY <1>2, <1>3, <2>1
<1>4. CASE h \in Failures
  <2>1. h.at \in {"fail", "put failure"} /\ h.to \in Goals
    BY <1>4 DEF Failures
  <2> QED BY <1>2, <1>4, <2>1
<1> QED BY <1>1, <1>3, <1>4

\* The reader observes a notification for the state it looked up.
LEMMA ObserveDoes ==
  ASSUME ReaderType, Observe
  PROVE  LET g == hand[1].to msg == hand[1].msg IN
         \/ hand' = <<>> /\ UNCHANGED <<state, swallowed>>
         \/ /\ state' \in [Goals -> States]
            /\ \A h \in Goals : h # g => state'[h] = state[h]
            /\ state'[g] = Observed(state[g], msg)
            /\ state'[g].failure = state[g].failure
            /\ \A h \in Goals : state[h].finished => state'[h].finished
            /\ swallowed' = IF msg.kind = "goal" THEN swallowed ELSE swallowed \cup {msg.n}
            /\ hand' = <<[hand[1] EXCEPT !.at = "put"]>>
<1> DEFINE g == hand[1].to msg == hand[1].msg
<1> DEFINE new == Observed(state[g], msg)
<1>1. g \in Goals /\ msg \in Notices /\ state \in [Goals -> States] /\ state[g] \in States
  <2>1. hand # <<>> /\ hand[1].at = "observe"
    BY DEF Observe
  <2>2. hand[1] \in Notified
    BY <2>1, HandTyped
  <2> QED BY <2>2 DEF ReaderType, Notified
<1>2. new \in States /\ new.failure = state[g].failure /\ (state[g].finished => new.finished)
  BY <1>1, ObservedTyped
<1>3. CASE ~state[g].routing /\ msg.kind /= "goal"
  BY <1>3 DEF Observe
<1>4. CASE ~(~state[g].routing /\ msg.kind /= "goal")
  <2>1. /\ state' = [state EXCEPT ![g] = new]
        /\ swallowed' = IF msg.kind = "goal" THEN swallowed ELSE swallowed \cup {msg.n}
        /\ hand' = <<[hand[1] EXCEPT !.at = "put"]>>
    BY <1>4 DEF Observe, Observed
  <2> HIDE DEF new
  <2>2. state' \in [Goals -> States] /\ state'[g] = new /\ \A h \in Goals : h # g => state'[h] = state[h]
    BY <2>1, <1>1, <1>2
  <2>3. \A h \in Goals : state[h].finished => state'[h].finished
    BY <2>2, <1>2
  <2> QED BY <2>1, <2>2, <2>3, <1>2 DEF new
<1> QED BY <1>3, <1>4

LEMMA ReaderKeepsReader ==
  ASSUME ServerType, ReaderType, Reader
  PROVE  ReaderType'
<1>1. CASE RouteAnswer
  <2>1. Head(wire) \in Answers /\ Head(wire).of \in Callers
    BY <1>1, HeadTyped DEF RouteAnswer, Answers
  <2>2. answer' \in [Callers -> {<<>>} \cup {<<a>> : a \in Answers}]
    BY <1>1, <2>1 DEF RouteAnswer, ReaderType
  <2> QED BY <1>1, <2>2 DEF RouteAnswer, ReaderType, reader
<1>2. CASE LookUpGoal
  <2>1. Head(wire) \in Notices
    BY <1>2, HeadTyped DEF LookUpGoal, Lines
  <2>2. hand' = <<>> \/ (route \in Goals /\ hand' = <<[at |-> "observe", to |-> route, msg |-> Head(wire)]>>)
    BY <1>2 DEF LookUpGoal, ReaderType
  <2>3. hand' = <<>> \/ \E h \in Notified : hand' = <<h>>
    BY <2>1, <2>2 DEF Notified
  <2> QED BY <1>2, <2>3 DEF LookUpGoal, ReaderType
<1>3. CASE Observe
  <2>1. hand # <<>> /\ hand[1].at = "observe"
    BY <1>3 DEF Observe
  <2>2. hand[1] \in Notified
    BY <2>1, HandTyped
  <2>3. [hand[1] EXCEPT !.at = "put"] \in Notified
    BY <2>2 DEF Notified
  <2>4. hand' = <<>> \/ hand' = <<[hand[1] EXCEPT !.at = "put"]>>
    BY <1>3, ObserveDoes
  <2>5. hand[1].msg.kind = "goal" \/ hand[1].msg.n \in Turns
    BY <2>2 DEF Notified, Notices, StartedLines, EndedLines, GoalLines
  <2>6. swallowed' \subseteq Turns /\ state' \in [Goals -> States]
    BY <1>3, <2>5, ObserveDoes DEF ReaderType
  <2>7. UNCHANGED <<failed, answer, route>>
    BY <1>3 DEF Observe
  <2> QED BY <2>3, <2>4, <2>6, <2>7 DEF ReaderType
<1>4. CASE UnregisterFinished
  <2>1. hand[1].to \in Goals
    BY <1>4, HandTyped DEF UnregisterFinished
  <2> QED BY <1>4, <2>1, UnregisterTyped DEF UnregisterFinished, ReaderType
<1>5. CASE PutNotification \/ PutFailure
  <2>1. hand # <<>> /\ hand' \in {<<>>, <<[hand[1] EXCEPT !.at = "unregister"]>>}
        /\ (hand' # <<>> => hand[1].at = "put")
    BY <1>5 DEF PutNotification, PutFailure
  <2>2. hand[1].at = "put" => [hand[1] EXCEPT !.at = "unregister"] \in Notified
    BY <2>1, HandTyped DEF Notified
  <2>3. hand' = <<>> \/ \E h \in Notified : hand' = <<h>>
    BY <2>1, <2>2
  <2> QED BY <1>5, <2>3 DEF PutNotification, PutFailure, ReaderType
<1>6. CASE FailAll
  <2>1. route # Nobody => [at |-> "fail", to |-> route] \in Failures
    BY DEF ReaderType, Failures
  <2>2. hand' = <<>> \/ \E h \in Failures : hand' = <<h>>
    BY <1>6, <2>1 DEF FailAll
  <2> QED BY <1>6, <2>2 DEF FailAll, ReaderType
<1>7. CASE FailGoal
  <2> DEFINE g == hand[1].to
             s == [state[g] EXCEPT !.failure = TRUE, !.queue = Append(state[g].queue, [kind |-> "failure"])]
  <2>1. g \in Goals /\ hand[1] \in Failures
    BY <1>7, HandTyped DEF FailGoal
  <2>2. s \in States
    <3>1. state[g] \in States /\ [kind |-> "failure"] \in Queued
      BY <2>1 DEF ReaderType, Queued
    <3>2. Append(state[g].queue, [kind |-> "failure"]) \in Seq(Queued)
      BY <3>1 DEF States
    <3> QED BY <3>1, <3>2 DEF States
  <2>3. state' = [state EXCEPT ![g] = s]
    <3>1. state[g] \in States /\ state \in [Goals -> States]
      BY <2>1 DEF ReaderType
    <3> QED BY <1>7, <2>1, <3>1 DEF FailGoal, States
  <2>4. hand' = <<[hand[1] EXCEPT !.at = "put failure"]>> /\ [hand[1] EXCEPT !.at = "put failure"] \in Failures
    BY <1>7, <2>1 DEF FailGoal, Failures
  <2> HIDE DEF g, s
  <2>5. state' \in [Goals -> States]
    BY <2>1, <2>2, <2>3 DEF ReaderType
  <2> QED BY <1>7, <2>4, <2>5 DEF FailGoal, ReaderType
<1> QED BY <1>1, <1>2, <1>3, <1>4, <1>5, <1>6, <1>7 DEF Reader

\* What a client step is to the route: nothing, a reservation, or the end of an operation.
OperatingAt == {"clear", "set", "wait for start", "streaming", "pause", "interrupt", "interrupt again"}
LeavesRoute ==
  /\ Keeps /\ UNCHANGED route
  /\ \A g \in Goals : Operating(g)' <=> Operating(g)
EndsOperation(g) ==
  /\ Ends(g) /\ Unregister(g)
  /\ \E l \in Labels \ OperatingAt : Goto(g, l)

LEMMA SameStateKeeps == ReaderType /\ UNCHANGED state => Keeps
BY DEF ReaderType, Keeps

\* A caller that moves without taking up or ending an operation.
LEMMA MovesLeaveRoute ==
  ASSUME ReaderType, ClientType, Keeps, UNCHANGED route, NEW c \in Callers, NEW l, Goto(c, l),
         c \in Goals => (l \in OperatingAt <=> pc[c] \in OperatingAt)
  PROVE  LeavesRoute
<1>1. \A g \in Goals : Operating(g)' <=> Operating(g)
  BY Numbers DEF Operating, OperatingAt, Goto, ClientType
<1> QED BY <1>1 DEF LeavesRoute

LEMMA StreamKeepsRoute ==
  ASSUME ReaderType, ClientType, NEW g \in Goals, Consume(g)
  PROVE  /\ LeavesRoute \/ EndsOperation(g)
         /\ UNCHANGED <<hand, failed, answer, swallowed, target>> /\ cursor' \in [Goals -> Cursors]
         /\ pc' = pc \/ \E l \in {"done", "raised"} : Goto(g, l)
<1>1. PICK k \in {"started", "completed", "goal", "failure"} : Took(g, k)
  BY DEF Consume, TakeStarted, TakeCompleted, TakeGoal, TakeFailure
<1>2. pc[g] = "streaming" /\ state[g].queue # <<>> /\ UNCHANGED <<hand, failed, answer, swallowed, target>>
  BY <1>1 DEF Took, Streaming, reader
<1>3. \/ Dequeued(g) /\ UNCHANGED <<route, pc>>
      \/ \E l \in {"done", "raised"} : EndStream(g, l)
  BY DEF Consume, TakeStarted, TakeCompleted, TakeGoal, TakeFailure
<1>4. ASSUME Dequeued(g), UNCHANGED <<route, pc>> PROVE LeavesRoute
  BY <1>2, <1>4, DequeuedKeeps DEF LeavesRoute, Operating
<1>5. ASSUME NEW l \in {"done", "raised"}, EndStream(g, l) PROVE EndsOperation(g)
  <2>1. Ends(g) /\ Unregister(g) /\ Goto(g, l)
    BY <1>2, <1>5, EndStreamEnds DEF EndStream
  <2> QED BY <2>1 DEF EndsOperation, Labels, OperatingAt
<1>6. Msg(g) \in Queued /\ cursor[g] \in Cursors /\ cursor \in [Goals -> Cursors]
  <2>1. state[g].queue \in Seq(Queued)
    BY DEF ReaderType, States
  <2>2. Head(state[g].queue) \in Queued
    BY <1>2, <2>1
  <2>3. cursor[g] \in Cursors /\ cursor \in [Goals -> Cursors]
    BY DEF ClientType
  <2> QED BY <2>2, <2>3 DEF Msg
<1>7. cursor' \in [Goals -> Cursors]
  <2>1. CASE TakeStarted(g)
    <3>1. Msg(g).kind = "started"
      BY <2>1 DEF TakeStarted, Took
    <3>2. Msg(g).n \in Upto
      BY <1>6, <3>1, Numbers DEF Queued, Notices, StartedLines, EndedLines, GoalLines
    <3>3. /\ cursor'[g] = [cursor[g] EXCEPT !.active = TRUE,
                                           !.started = IF cursor[g].started = 0 THEN Msg(g).n ELSE cursor[g].started]
          /\ \A h \in Goals : h # g => cursor'[h] = cursor[h]
          /\ cursor' = [h \in Goals |-> cursor'[h]]
      BY <2>1, <1>6 DEF TakeStarted, Cursors
    <3>4. cursor'[g] \in Cursors
      BY <1>6, <3>2, <3>3 DEF Cursors
    <3> QED BY <1>6, <3>3, <3>4
  <2>2. CASE TakeCompleted(g)
    <3>1. Msg(g).kind = "completed"
      BY <2>2 DEF TakeCompleted, Took
    <3>2. Msg(g).n \in Upto
      BY <1>6, <3>1, Numbers DEF Queued, Notices, StartedLines, EndedLines, GoalLines
    <3>3. /\ cursor'[g] = [cursor[g] EXCEPT !.active = FALSE, !.last = Msg(g).n]
          /\ \A h \in Goals : h # g => cursor'[h] = cursor[h]
          /\ cursor' = [h \in Goals |-> cursor'[h]]
      BY <2>2, <1>6 DEF TakeCompleted, Cursors
    <3>4. cursor'[g] \in Cursors
      BY <1>6, <3>2, <3>3 DEF Cursors
    <3> QED BY <1>6, <3>3, <3>4
  <2>3. CASE TakeGoal(g)
    <3>1. Msg(g).kind = "goal"
      BY <2>3 DEF TakeGoal, Took
    <3>2. Msg(g).status \in Status \cup {"cleared"}
      BY <1>6, <3>1 DEF Queued, Notices, StartedLines, EndedLines, GoalLines
    <3>3. CASE Msg(g).status = "cleared"
      <4>1. cursor' = [cursor EXCEPT ![g] = [cursor[g] EXCEPT !.cleared = TRUE]]
        BY <2>3, <3>3 DEF TakeGoal
      <4>2. [cursor[g] EXCEPT !.cleared = TRUE] \in Cursors
        BY <1>6 DEF Cursors
      <4> QED BY <1>6, <4>1, <4>2
    <3>4. CASE Msg(g).status # "cleared"
      <4>1. cursor' = [cursor EXCEPT ![g] =
                        [cursor[g] EXCEPT !.status = Msg(g).status,
                                          !.cleared = cursor[g].cleared /\ Msg(g).status /= "active"]]
        BY <2>3, <3>4 DEF TakeGoal
      <4>2. [cursor[g] EXCEPT !.status = Msg(g).status,
                              !.cleared = cursor[g].cleared /\ Msg(g).status /= "active"] \in Cursors
        BY <1>6, <3>2, <3>4 DEF Cursors
      <4> QED BY <1>6, <4>1, <4>2
    <3> QED BY <3>3, <3>4
  <2>4. CASE TakeFailure(g)
    BY <2>4, <1>6 DEF TakeFailure
  <2> QED BY <2>1, <2>2, <2>3, <2>4 DEF Consume
<1>8. pc' = pc \/ \E l \in {"done", "raised"} : Goto(g, l)
  BY <1>3 DEF EndStream
<1> QED BY <1>2, <1>3, <1>4, <1>5, <1>7, <1>8

\* The other steps of a client, what each does to its answer, its label and the route.
Frame == UNCHANGED <<hand, failed, swallowed>>

LEMMA OthersStep ==
  ASSUME ReaderType, ClientType, NEW c \in Callers,
         \/ EnterThread(c) \/ LeaveThread(c) \/ TransportError(c)
         \/ c \in Starters /\ (StartOfTurn(c) \/ TurnRefused(c) \/ AfterTurn(c))
  PROVE  /\ LeavesRoute /\ Frame /\ UNCHANGED <<cursor, target>>
         /\ answer' \in [Callers -> {<<>>} \cup {<<a>> : a \in Answers}]
         /\ \/ UNCHANGED pc
            \/ \E l \in Labels :
                 Goto(c, l) /\ (c \in Starters => l \in {"idle", "acquire", "turn", "started", "raised"})
                            /\ l \notin {"interrupt", "interrupt again"}
<1>0. Goals \cap Starters = {}
  BY GoalAssumption
<1>1. CASE EnterThread(c)
  <2>1. Goto(c, "acquire") /\ pc[c] = "idle" /\ UNCHANGED <<state, route, answer>>
    BY <1>1 DEF EnterThread
  <2>2. LeavesRoute
    BY <2>1, SameStateKeeps, MovesLeaveRoute DEF OperatingAt
  <2>3. Frame /\ UNCHANGED <<cursor, target>>
    BY <1>1 DEF EnterThread, Frame, reader
  <2>4. "acquire" \in Labels
    BY DEF Labels, Outside
  <2> QED BY <2>1, <2>2, <2>3, <2>4 DEF ReaderType
<1>2. CASE TransportError(c)
  <2>1. UNCHANGED <<state, route, pc, hand, failed, swallowed, cursor, target>>
    BY <1>2 DEF TransportError, reader, clients
  <2>2. LeavesRoute
    BY <2>1, SameStateKeeps DEF LeavesRoute, Operating
  <2>3. Answer(c, "exception", 0) \in Answers
    BY LinesTyped, Numbers
  <2>4. answer' \in [Callers -> {<<>>} \cup {<<a>> : a \in Answers}]
    BY <1>2, <2>3 DEF TransportError, ReaderType
  <2> QED BY <2>1, <2>2, <2>4 DEF Frame
<1>3. CASE c \in Starters /\ StartOfTurn(c)
  <2>1. Send(c, "turn") /\ Goto(c, "turn") /\ UNCHANGED <<state, route>>
    BY <1>3 DEF StartOfTurn, Send
  <2>2. LeavesRoute
    BY <1>0, <1>3, <2>1, SameStateKeeps, MovesLeaveRoute
  <2>3. answer' \in [Callers -> {<<>>} \cup {<<a>> : a \in Answers}]
    BY <2>1, Sent
  <2>4. Frame /\ UNCHANGED <<cursor, target>>
    BY <1>3 DEF StartOfTurn, Frame, reader
  <2>5. "turn" \in Labels
    BY DEF Labels, MustHold
  <2> QED BY <2>1, <2>2, <2>3, <2>4, <2>5
<1>4. CASE c \in Starters /\ (TurnRefused(c) \/ AfterTurn(c))
  <2>1. /\ UNCHANGED <<state, route, answer, hand, failed, swallowed, cursor, target>>
        /\ \E l \in {"raised", "started"} : Goto(c, l)
    BY <1>4 DEF TurnRefused, AfterTurn, NoRequest, reader
  <2>2. LeavesRoute
    BY <1>0, <1>4, <2>1, SameStateKeeps, MovesLeaveRoute
  <2> QED BY <2>1, <2>2 DEF Frame, Labels, ReaderType
<1>5. CASE LeaveThread(c)
  <2>1. UNCHANGED <<state, route, pc, hand, failed, swallowed, cursor, target, answer>>
    BY <1>5 DEF LeaveThread, Leaves, reader, clients
  <2>2. LeavesRoute
    BY <2>1, SameStateKeeps DEF LeavesRoute, Operating
  <2> QED BY <2>1, <2>2 DEF Frame, ReaderType
<1> QED BY <1>1, <1>2, <1>3, <1>4, <1>5

LEMMA GoalsRoute ==
  ASSUME ReaderType, ClientType, NEW g \in Goals,
         GoalCall(g) \/ CloseStream(g) \/ CancelStream(g), ~TransportError(g)
  PROVE  /\ LeavesRoute \/ Reserve(g) \/ EndsOperation(g)
         /\ Frame
         /\ answer' \in [Callers -> {<<>>} \cup {<<a>> : a \in Answers}]
         /\ cursor' \in [Goals -> Cursors]
         /\ UNCHANGED pc \/ \E l \in Labels : Goto(g, l)
<1>0. g \in Callers
  BY DEF Callers
<1>1. CASE StartOfGoal(g)
  <2>1. Send(g, "read") /\ Goto(g, "read") /\ pc[g] = "acquire" /\ UNCHANGED <<state, route, cursor>> /\ Frame
    BY <1>1 DEF StartOfGoal, Send, Acquired, Frame, reader
  <2>2. LeavesRoute
    BY <1>0, <2>1, SameStateKeeps, MovesLeaveRoute DEF OperatingAt
  <2> QED BY <1>0, <2>1, <2>2, Sent DEF Labels, MustHold, ClientType
<1>2. CASE Reserve(g)
  <2>1. Send(g, "clear") /\ Goto(g, "clear") /\ UNCHANGED cursor /\ Frame
    BY <1>2 DEF Reserve, Send, Frame, reader
  <2> QED BY <1>0, <1>2, <2>1, Sent DEF Labels, MustHold, ClientType
<1>3. CASE Cleared(g)
  <2>1. Send(g, "set") /\ Goto(g, "set") /\ pc[g] = "clear" /\ UNCHANGED <<route, cursor>> /\ Frame
    BY <1>3 DEF Cleared, Answered, Send, Frame, reader
  <2>2. LeavesRoute
    BY <1>0, <1>3, <2>1, ClearedKeeps, MovesLeaveRoute DEF OperatingAt
  <2> QED BY <1>0, <2>1, <2>2, Sent DEF Labels, MustHold, ClientType
<1>4. CASE GoalSet(g) \/ TurnSeen(g)
  <2>1. /\ UNCHANGED <<state, route, answer, cursor>> /\ Frame
        /\ pc[g] \in OperatingAt
        /\ \E l \in {"wait for start", "streaming"} : Goto(g, l)
    BY <1>4 DEF GoalSet, TurnSeen, Answered, NoRequest, Frame, reader, OperatingAt
  <2>2. LeavesRoute
    BY <1>0, <2>1, SameStateKeeps, MovesLeaveRoute DEF OperatingAt
  <2> QED BY <2>1, <2>2 DEF Labels, MustHold, ClientType, ReaderType
<1>5. CASE GoalRefused(g)
  <2>1. UNCHANGED <<state, route, answer, cursor>> /\ Frame /\ pc[g] = "read" /\ Goto(g, "raised")
    BY <1>5 DEF GoalRefused, Answered, NoRequest, Frame, reader
  <2>2. LeavesRoute
    BY <1>0, <2>1, SameStateKeeps, MovesLeaveRoute DEF OperatingAt
  <2> QED BY <2>1, <2>2 DEF Labels, ClientType, ReaderType
<1>6. CASE StartFails(g) \/ Paused(g) \/ InterruptAgain(g) \/ CancelStream(g)
  <2>1. UNCHANGED <<state, route, cursor>> /\ Frame /\ pc[g] \in OperatingAt
    BY <1>6 DEF StartFails, Paused, InterruptAgain, CancelStream, Streaming, Answered, Frame, reader, OperatingAt
  <2>2. PICK l \in {"pause", "interrupt", "interrupt again"} : Send(g, l)
    BY <1>6 DEF StartFails, Paused, InterruptAgain, CancelStream
  <2>3. Goto(g, l)
    BY <2>2 DEF Send
  <2>4. LeavesRoute
    BY <1>0, <2>1, <2>3, SameStateKeeps, MovesLeaveRoute DEF OperatingAt
  <2> QED BY <1>0, <2>1, <2>2, <2>3, <2>4, Sent DEF Labels, Stopping, ClientType
<1>7. CASE Rejected(g) \/ Cancelled(g) \/ CloseStream(g)
  <2>1. UNCHANGED <<answer, cursor>> /\ Frame
    BY <1>7 DEF Rejected, Cancelled, CloseStream, NoRequest, Frame, reader
  <2>2. PICK l \in {"raised", "cancelled", "closed"} : Finish(g, l)
    BY <1>7 DEF Rejected, Cancelled, CloseStream
  <2>3. Ends(g) /\ Unregister(g) /\ Goto(g, l)
    BY <2>2, FinishEnds DEF Finish
  <2>4. l \in Labels \ OperatingAt
    BY DEF Labels, OperatingAt
  <2> QED BY <2>1, <2>3, <2>4 DEF EndsOperation, ClientType, ReaderType
<1>8. CASE Consume(g)
  BY <1>8, StreamKeepsRoute DEF Frame, Labels, ReaderType
<1> QED BY <1>1, <1>2, <1>3, <1>4, <1>5, <1>6, <1>7, <1>8 DEF GoalCall

\* What every step of a client comes to.
LEMMA ClientCases ==
  ASSUME ReaderType, ClientType, ClientStep
  PROVE  /\ LeavesRoute \/ \E g \in Goals : Reserve(g) \/ EndsOperation(g)
         /\ Frame
         /\ answer' \in [Callers -> {<<>>} \cup {<<a>> : a \in Answers}]
         /\ cursor' \in [Goals -> Cursors]
<1>1. ASSUME NEW c \in Callers,
             \/ EnterThread(c) \/ LeaveThread(c) \/ TransportError(c)
             \/ c \in Starters /\ (StartOfTurn(c) \/ TurnRefused(c) \/ AfterTurn(c))
      PROVE  /\ LeavesRoute /\ Frame /\ cursor' \in [Goals -> Cursors]
             /\ answer' \in [Callers -> {<<>>} \cup {<<a>> : a \in Answers}]
  <2>1. LeavesRoute /\ Frame /\ UNCHANGED cursor /\ answer' \in [Callers -> {<<>>} \cup {<<a>> : a \in Answers}]
    BY <1>1, OthersStep
  <2> QED BY <2>1 DEF ClientType
<1>2. ASSUME NEW g \in Goals, GoalCall(g) \/ CloseStream(g) \/ CancelStream(g), ~TransportError(g)
      PROVE  /\ LeavesRoute \/ Reserve(g) \/ EndsOperation(g)
             /\ Frame /\ cursor' \in [Goals -> Cursors]
             /\ answer' \in [Callers -> {<<>>} \cup {<<a>> : a \in Answers}]
  BY <1>2, GoalsRoute
<1>3. Goals \subseteq Callers /\ Starters \subseteq Callers
  BY DEF Callers
<1> QED BY <1>1, <1>2, <1>3 DEF ClientStep

LEMMA ClientKeepsReader ==
  ASSUME ReaderType, ClientType, ClientStep
  PROVE  ReaderType'
<1>1. Frame /\ answer' \in [Callers -> {<<>>} \cup {<<a>> : a \in Answers}]
  BY ClientCases
<1>2. state' \in [Goals -> States] /\ route' \in Goals \cup {Nobody}
  <2>1. CASE LeavesRoute
    BY <2>1 DEF LeavesRoute, Keeps, ReaderType
  <2>2. ASSUME NEW g \in Goals, Reserve(g)
        PROVE  state' \in [Goals -> States] /\ route' \in Goals \cup {Nobody}
    BY <2>2 DEF Reserve, ReaderType
  <2>3. ASSUME NEW g \in Goals, EndsOperation(g)
        PROVE  state' \in [Goals -> States] /\ route' \in Goals \cup {Nobody}
    BY <2>3, UnregisterTyped DEF EndsOperation, Ends
  <2> QED BY <2>1, <2>2, <2>3, ClientCases
<1> QED BY <1>1, <1>2 DEF Frame, ReaderType

LEMMA ServerSteps ==
  ASSUME \/ StartTurn \/ EndGoal \/ Crash \/ \E status \in {"completed", "failed"} : EndTurn(status)
         \/ \E c \in Callers : Serve(c) \/ \E what \in {"invalid", "error"} : Refuse(c, what)
  PROVE  UNCHANGED <<reader, answer, route, state, cursor, locks, clients, swallowed>>
<1>1. ASSUME StartTurn \/ EndGoal \/ Crash \/ \E status \in {"completed", "failed"} : EndTurn(status)
      PROVE  UNCHANGED <<reader, answer, route, state, cursor, locks, clients, swallowed>>
  BY <1>1 DEF StartTurn, EndGoal, Crash, EndTurn, Quietly
<1>2. ASSUME NEW c \in Callers, Serve(c) \/ \E what \in {"invalid", "error"} : Refuse(c, what)
      PROVE  UNCHANGED <<reader, answer, route, state, cursor, locks, clients, swallowed>>
  <2>1. \E at : Reply(c, at)
    BY <1>2 DEF Serve, ServeRead, ServeClear, ServeSet, ServePause, ServeTurn, ServeInterrupt, Refuse
  <2> QED BY <2>1 DEF Reply
<1> QED BY <1>1, <1>2

LEMMA KeepsReaderType ==
  ASSUME TypeInv, Next
  PROVE  ReaderType'
<1>1. ASSUME UNCHANGED <<reader, answer, route, state, swallowed>> PROVE ReaderType'
  BY <1>1 DEF TypeInv, ReaderType, reader
<1> QED BY <1>1, NextCases, ServerSteps, ReaderKeepsReader, ClientKeepsReader DEF TypeInv

\* A turn to interrupt is a turn that was started.
LEMMA TargetTyped ==
  ASSUME ReaderType, ClientType, NEW g \in Goals,
         GoalCall(g) \/ CloseStream(g) \/ CancelStream(g), ~TransportError(g)
  PROVE  /\ target' \in [Goals -> Upto]
         /\ \A h \in Goals : pc'[h] \in {"interrupt", "interrupt again"} => target'[h] \in Turns
<1> USE Numbers
<1>0. /\ g \in Callers /\ pc \in [Callers -> Labels] /\ target \in [Goals -> Upto] /\ Goals \subseteq Callers
      /\ \A h \in Goals : pc[h] \in {"interrupt", "interrupt again"} => target[h] \in Turns
  BY DEF ClientType
<1>1. ASSUME UNCHANGED target,
             \/ UNCHANGED pc
             \/ \E l : Goto(g, l) /\ l \notin {"interrupt", "interrupt again"}
      PROVE  /\ target' \in [Goals -> Upto]
             /\ \A h \in Goals : pc'[h] \in {"interrupt", "interrupt again"} => target'[h] \in Turns
  BY <1>0, <1>1 DEF Goto
<1>2. ASSUME NEW n \in Turns, NEW l, target' = [target EXCEPT ![g] = n], Goto(g, l)
      PROVE  /\ target' \in [Goals -> Upto]
             /\ \A h \in Goals : pc'[h] \in {"interrupt", "interrupt again"} => target'[h] \in Turns
  BY <1>0, <1>2 DEF Goto
<1>3. \A n \in Upto : n # 0 => n \in Turns
  BY DEF Upto, Turns
<1>4. state[g] \in States
  BY DEF ReaderType
<1>5. CASE Paused(g)
  <2>1. TurnForInterrupt(state[g]) \in Upto
    BY <1>4 DEF TurnForInterrupt, States
  <2> QED BY <1>2, <1>3, <1>5, <2>1 DEF Paused, Send
<1>6. CASE InterruptAgain(g)
  <2>1. answer[g][1] \in Answers
    <3>1. answer[g] # <<>> /\ answer[g] \in {<<>>} \cup {<<a>> : a \in Answers}
      BY <1>0, <1>6 DEF InterruptAgain, Answered, ReaderType
    <3>2. PICK a \in Answers : answer[g] = <<a>>
      BY <3>1
    <3> QED BY <3>2
  <2>2. NextTurn(g) \in Upto
    BY <1>4, <2>1 DEF NextTurn, Answers, States
  <2> QED BY <1>2, <1>3, <1>6, <2>2 DEF InterruptAgain, Send
<1>7. CASE StartOfGoal(g) \/ Reserve(g) \/ GoalRefused(g) \/ Cleared(g) \/ GoalSet(g) \/ TurnSeen(g)
  <2>1. UNCHANGED target /\ \E l \in {"read", "clear", "raised", "set", "wait for start", "streaming"} : Goto(g, l)
    BY <1>7 DEF StartOfGoal, Reserve, GoalRefused, Cleared, GoalSet, TurnSeen, Send
  <2> QED BY <1>1, <2>1
<1>8. CASE Rejected(g) \/ StartFails(g) \/ Cancelled(g) \/ CloseStream(g) \/ CancelStream(g)
  <2>1. UNCHANGED target /\ \E l \in {"raised", "pause", "cancelled", "closed"} : Goto(g, l)
    BY <1>8 DEF Rejected, StartFails, Cancelled, CloseStream, CancelStream, Send, Finish
  <2> QED BY <1>1, <2>1
<1>9. CASE Consume(g)
  <2>1. UNCHANGED target /\ (pc' = pc \/ \E l \in {"done", "raised"} : Goto(g, l))
    BY <1>9, StreamKeepsRoute
  <2> QED BY <1>1, <2>1
<1> QED BY <1>5, <1>6, <1>7, <1>8, <1>9 DEF GoalCall

LEMMA KeepsClientType ==
  ASSUME TypeInv, Next
  PROVE  ClientType'
<1> USE Numbers
<1>0. /\ Goals \cap Starters = {} /\ pc \in [Callers -> Labels]
      /\ \A c \in Starters : pc[c] \in {"idle", "acquire", "turn", "started", "raised"}
      /\ target \in [Goals -> Upto] /\ cursor \in [Goals -> Cursors]
      /\ \A g \in Goals : pc[g] \in {"interrupt", "interrupt again"} => target[g] \in Turns
  BY GoalAssumption DEF TypeInv, ClientType
<1>1. ASSUME UNCHANGED <<cursor, pc, target>> PROVE ClientType'
  BY <1>0, <1>1 DEF ClientType
<1>2. CASE Reader
  <2>1. UNCHANGED <<cursor, clients>>
    BY <1>2 DEF Reader, RouteAnswer, LookUpGoal, Observe, PutNotification, UnregisterFinished, FailAll,
                FailGoal, PutFailure
  <2> QED BY <1>1, <2>1 DEF clients
<1>3. ASSUME NEW c \in Callers,
             \/ EnterThread(c) \/ LeaveThread(c) \/ TransportError(c)
             \/ c \in Starters /\ (StartOfTurn(c) \/ TurnRefused(c) \/ AfterTurn(c))
      PROVE  ClientType'
  <2>1. UNCHANGED <<cursor, target>>
    BY <1>3, OthersStep DEF TypeInv
  <2>2. \/ UNCHANGED pc
        \/ \E l \in Labels :
             Goto(c, l) /\ (c \in Starters => l \in {"idle", "acquire", "turn", "started", "raised"})
                        /\ l \notin {"interrupt", "interrupt again"}
    BY <1>3, OthersStep DEF TypeInv
  <2>3. ASSUME NEW l \in Labels, Goto(c, l), c \in Starters => l \in {"idle", "acquire", "turn", "started", "raised"},
               l \notin {"interrupt", "interrupt again"}
        PROVE  ClientType'
    BY <1>0, <2>1, <2>3 DEF ClientType, Goto
  <2> QED BY <1>1, <2>1, <2>2, <2>3
<1>4. ASSUME NEW g \in Goals, GoalCall(g) \/ CloseStream(g) \/ CancelStream(g), ~TransportError(g)
      PROVE  ClientType'
  <2>1. cursor' \in [Goals -> Cursors] /\ (UNCHANGED pc \/ \E l \in Labels : Goto(g, l))
    BY <1>4, GoalsRoute DEF TypeInv
  <2>2. /\ target' \in [Goals -> Upto]
        /\ \A h \in Goals : pc'[h] \in {"interrupt", "interrupt again"} => target'[h] \in Turns
    BY <1>4, TargetTyped DEF TypeInv
  <2>3. pc' \in [Callers -> Labels] /\ \A c \in Starters : pc'[c] = pc[c]
    BY <1>0, <2>1 DEF Goto
  <2> QED BY <1>0, <2>1, <2>2, <2>3 DEF ClientType
<1>5. ASSUME ClientStep PROVE ClientType'
  BY <1>3, <1>4, <1>5 DEF ClientStep
<1> QED BY <1>1, <1>2, <1>5, NextCases, ServerSteps DEF clients

LEMMA InitTyped == Init => TypeInv
<1> SUFFICES ASSUME Init PROVE TypeInv
  OBVIOUS
<1> USE Numbers
<1>1. NewState \in States
  <2>1. <<>> \in Seq(Queued)
    OBVIOUS
  <2> QED BY <2>1 DEF NewState, States, Status
<1>2. NewCursor \in Cursors
  BY DEF NewCursor, Cursors, Status
<1>3. ServerType
  <2>1. goal \in Status /\ owner \in Goals \cup {Nobody} /\ asked \subseteq Callers /\ crashed \in BOOLEAN
    BY DEF Init, Status
  <2>2. startedBy = <<>> /\ running = 0 /\ wire = <<>> /\ faults = 0
    BY DEF Init
  <2>3. startedBy \in Seq(Callers \cup {Nobody}) /\ wire \in Seq(Lines) /\ Len(startedBy) = 0
    BY <2>2
  <2>4. MaxTurns \in Nat /\ MaxEvents \in Nat
    BY GoalAssumption
  <2> QED BY <2>1, <2>2, <2>3, <2>4 DEF ServerType
<1>4. ReaderType
  BY <1>1 DEF Init, ReaderType
<1>5. ClientType
  <2>1. "idle" \in Labels
    BY DEF Labels, Outside
  <2> QED BY <1>2, <2>1 DEF Init, ClientType
<1> QED BY <1>3, <1>4, <1>5 DEF TypeInv

LEMMA KeepsTypes == TypeInv /\ [Next]_vars => TypeInv'
<1>1. CASE Next
  BY <1>1, KeepsServerType, KeepsReaderType, KeepsClientType DEF TypeInv
<1>2. CASE UNCHANGED vars
  BY <1>2 DEF vars, server, reader, locks, clients, TypeInv, ServerType, ReaderType, ClientType
<1> QED BY <1>1, <1>2

LEMMA TypesSuffice == LockInv /\ TypeInv => TypeOK
<1> SUFFICES ASSUME LockInv, TypeInv PROVE TypeOK
  OBVIOUS
<1>1. /\ goal \in {"none", "active", "paused", "complete"} /\ owner \in Goals \cup {Nobody}
      /\ running \in {0, Len(startedBy)} /\ startedBy \in Seq(Callers \cup {Nobody})
      /\ asked \subseteq Callers /\ crashed \in BOOLEAN /\ faults \in 0 .. MaxEvents
  BY DEF TypeInv, ServerType, Status
<1>2. \A n \in DOMAIN wire : wire[n].kind \in {"started", "completed", "goal", "answer"}
  <2>1. \A n \in DOMAIN wire : wire[n] \in Lines
    BY DEF TypeInv, ServerType
  <2>2. \A x \in Lines : x.kind \in {"started", "completed", "goal", "answer"}
    BY DEF Lines, Notices, StartedLines, EndedLines, GoalLines, Answers
  <2> QED BY <2>1, <2>2
<1>3. /\ Len(hand) <= 1 /\ failed \in BOOLEAN /\ route \in Goals \cup {Nobody} /\ swallowed \subseteq Turns
      /\ \A g \in Goals : state[g] \in States
  <2>1. Len(hand) <= 1
    <3>1. CASE hand = <<>>
      BY <3>1
    <3>2. CASE \E h : hand = <<h>>
      BY <3>2
    <3> QED BY <3>1, <3>2 DEF TypeInv, ReaderType
  <2> QED BY <2>1 DEF TypeInv, ReaderType
<1>4. \A c \in Callers : Len(answer[c]) <= 1
  <2>1. \A c \in Callers : answer[c] \in {<<>>} \cup {<<a>> : a \in Answers}
    BY DEF TypeInv, ReaderType
  <2>2. Len(<<>>) <= 1 /\ \A a \in Answers : Len(<<a>>) <= 1
    OBVIOUS
  <2> QED BY <2>1, <2>2
<1>5. \A g \in Goals :
       /\ state[g].current \in 0 .. MaxTurns /\ state[g].completed \in 0 .. MaxTurns
       /\ state[g].started \in 0 .. MaxTurns /\ cursor[g].last \in 0 .. MaxTurns
       /\ {state[g].status, cursor[g].status} \subseteq {"none", "active", "paused", "complete"}
  <2>1. \A g \in Goals : cursor[g] \in Cursors
    BY DEF TypeInv, ClientType
  <2> QED BY <1>3, <2>1 DEF States, Cursors, Upto, Status
<1>6. target \in [Goals -> 0 .. MaxTurns]
  BY DEF TypeInv, ClientType, Upto
<1>7. /\ mine \in [Callers -> {0, entry}] /\ (entry = 0 <=> \A c \in Callers : mine[c] = 0)
      /\ \A e \in Entries : users[e] = Cardinality({c \in Callers : e /= 0 /\ mine[c] = e})
  BY DEF LockInv, UsersOf
<1> QED BY <1>1, <1>2, <1>3, <1>4, <1>5, <1>6, <1>7 DEF TypeOK

\* Every variable stays in its type, whatever the app-server and the callers do.
THEOREM TypeCorrect == Spec => []TypeOK
<1>1. Spec => []LockInv
  BY InitLock, KeepsLock, PTL DEF Spec
<1>2. Spec => []TypeInv
  BY InitTyped, KeepsTypes, PTL DEF Spec
<1> QED BY <1>1, <1>2, TypesSuffice, PTL

-----------------------------------------------------------------------------
(* The route of the thread. *)

\* RouteFollowsOperation is nearly inductive: a state the reader is about to unregister is
\* finished, so that it takes no route another operation needs.
RouteInv ==
  /\ RouteFollowsOperation
  /\ hand # <<>> /\ hand[1].at = "unregister" => state[hand[1].to].finished

LEMMA EndKeepsRoute ==
  ASSUME TypeInv, RouteInv, NEW g \in Goals, EndsOperation(g), Frame
  PROVE  RouteInv'
<1>1. /\ state'[g].finished /\ Unregister(g)
      /\ \A h \in Goals : h # g => state'[h] = state[h]
      /\ \A h \in Goals : state[h].finished => state'[h].finished
      /\ hand' = hand /\ route \in Goals \cup {Nobody} /\ Nobody \notin Goals
  BY GoalAssumption DEF EndsOperation, Ends, Frame, TypeInv, ReaderType, Callers
<1>2. ~Operating(g)' /\ \A h \in Goals : h # g => (Operating(h)' <=> Operating(h))
  <2>1. PICK l \in Labels \ OperatingAt : Goto(g, l)
    BY DEF EndsOperation
  <2>2. pc'[g] = l /\ \A h \in Goals : h # g => pc'[h] = pc[h]
    BY <2>1 DEF Goto, TypeInv, ClientType, Callers
  <2> QED BY <2>2 DEF Operating, OperatingAt
<1>3. hand # <<>> => hand[1].to \in Goals
  BY HandTyped DEF TypeInv
<1> QED BY <1>1, <1>2, <1>3 DEF RouteInv, RouteFollowsOperation, Failing, Unregister

LEMMA ReserveKeepsRoute ==
  ASSUME TypeInv, RouteInv, NEW g \in Goals, Reserve(g)
  PROVE  RouteInv'
<1>1. /\ route = Nobody /\ route' = g /\ UNCHANGED <<state, hand>> /\ Goto(g, "clear")
      /\ Nobody \notin Goals
  BY GoalAssumption DEF Reserve, Send, reader, Callers
<1>2. pc'[g] = "clear" /\ \A h \in Goals : h # g => pc'[h] = pc[h]
  BY <1>1 DEF Goto, TypeInv, ClientType, Callers
<1>3. Operating(g)' /\ \A h \in Goals : h # g => (Operating(h)' <=> Operating(h))
  BY <1>2 DEF Operating
<1> QED BY <1>1, <1>3 DEF RouteInv, RouteFollowsOperation, Failing

LEMMA LeaveKeepsRoute ==
  ASSUME TypeInv, RouteInv, LeavesRoute, Frame
  PROVE  RouteInv'
<1>1. hand # <<>> => hand[1].to \in Goals
  BY HandTyped DEF TypeInv
<1>2. /\ \A h \in Goals : state'[h].finished = state[h].finished /\ state'[h].failure = state[h].failure
      /\ route' = route /\ hand' = hand /\ \A g \in Goals : Operating(g)' <=> Operating(g)
  BY DEF LeavesRoute, Keeps, Frame
<1> QED BY <1>1, <1>2 DEF RouteInv, RouteFollowsOperation, Failing

LEMMA ReaderKeepsRoute ==
  ASSUME TypeInv, RouteInv, Reader
  PROVE  RouteInv'
<1>0. \A g \in Goals : Operating(g)' <=> Operating(g)
  BY DEF Reader, RouteAnswer, LookUpGoal, Observe, PutNotification, UnregisterFinished, FailAll, FailGoal,
         PutFailure, clients, Operating
<1>1. CASE RouteAnswer
  BY <1>0, <1>1 DEF RouteAnswer, reader, RouteInv, RouteFollowsOperation, Failing
<1>2. CASE LookUpGoal
  <2>1. hand' = <<>> \/ (hand' # <<>> /\ hand'[1].at = "observe")
    BY <1>2 DEF LookUpGoal
  <2> QED BY <1>0, <1>2, <2>1 DEF LookUpGoal, RouteInv, RouteFollowsOperation, Failing
<1>3. CASE Observe
  <2>1. hand # <<>> /\ route' = route
    BY <1>3 DEF Observe
  <2>2. hand[1].to \in Goals
    BY <2>1, HandTyped DEF TypeInv
  <2>3. CASE hand' = <<>> /\ UNCHANGED state
    <3>1. hand[1].at = "observe"
      BY <1>3 DEF Observe
    <3> QED BY <1>0, <2>1, <2>3, <3>1 DEF RouteInv, RouteFollowsOperation, Failing
  <2>4. CASE /\ \A h \in Goals : h # hand[1].to => state'[h] = state[h]
             /\ state'[hand[1].to].failure = state[hand[1].to].failure
             /\ \A h \in Goals : state[h].finished => state'[h].finished
             /\ hand' = <<[hand[1] EXCEPT !.at = "put"]>>
    <3>1. hand'[1].at = "put" /\ hand[1].at = "observe"
      <4>1. hand[1].at = "observe"
        BY <1>3 DEF Observe
      <4>2. hand[1] \in Notified
        BY <2>1, <4>1, HandTyped DEF TypeInv
      <4> QED BY <2>4, <4>1, <4>2 DEF Notified
    <3>2. \A h \in Goals : ~state'[h].finished /\ ~state'[h].failure => ~state[h].finished /\ ~state[h].failure
      BY <2>4
    <3> QED BY <1>0, <2>1, <3>1, <3>2 DEF RouteInv, RouteFollowsOperation, Failing
  <2> QED BY <1>3, <2>3, <2>4, ObserveDoes DEF TypeInv
<1>4. CASE UnregisterFinished
  <2>1. hand # <<>> /\ hand[1].at = "unregister" /\ Unregister(hand[1].to) /\ hand' = <<>> /\ UNCHANGED state
    BY <1>4 DEF UnregisterFinished
  <2>2. Nobody \notin Goals /\ route \in Goals \cup {Nobody}
    BY GoalAssumption DEF TypeInv, ReaderType, Callers
  <2> QED BY <1>0, <2>1, <2>2 DEF RouteInv, RouteFollowsOperation, Failing, Unregister
<1>5. CASE PutNotification
  <2>1. hand # <<>> /\ hand[1].at = "put" /\ UNCHANGED <<state, route>>
        /\ hand' = IF state[hand[1].to].finished THEN <<[hand[1] EXCEPT !.at = "unregister"]>> ELSE <<>>
    BY <1>5 DEF PutNotification
  <2>2. hand[1] \in Notified
    BY <2>1, HandTyped DEF TypeInv
  <2>3. hand' # <<>> => hand'[1].at = "unregister" /\ hand'[1].to = hand[1].to /\ state[hand[1].to].finished
    BY <2>1, <2>2 DEF Notified
  <2> QED BY <1>0, <2>1, <2>3 DEF RouteInv, RouteFollowsOperation, Failing
<1>6. CASE FailAll
  <2>1. /\ hand = <<>> /\ route' = Nobody /\ Nobody \notin Goals /\ UNCHANGED state
        /\ route \in Goals => hand' # <<>> /\ hand'[1].at = "fail" /\ hand'[1].to = route
        /\ route \notin Goals => hand' = <<>>
    BY <1>6, GoalAssumption DEF FailAll, Callers, TypeInv, ReaderType
  <2>2. route \in Goals \/ hand' = <<>>
    BY <2>1
  <2> QED BY <1>0, <2>1, <2>2 DEF RouteInv, RouteFollowsOperation, Failing
<1>7. CASE FailGoal
  <2> DEFINE g == hand[1].to
  <2>1. hand # <<>> /\ hand[1].at = "fail" /\ g \in Goals /\ hand[1] \in Failures
        /\ state[g] \in States /\ DOMAIN state = Goals /\ route' = route
    BY <1>7, HandTyped DEF FailGoal, TypeInv, ReaderType
  <2>2. /\ state'[g] = [state[g] EXCEPT !.failure = TRUE, !.queue = Append(state[g].queue, [kind |-> "failure"])]
        /\ \A h \in Goals : h # g => state'[h] = state[h]
    BY <1>7, <2>1 DEF FailGoal, States
  <2>3. state'[g].failure
    BY <2>1, <2>2 DEF States
  <2>4. hand' # <<>> /\ hand'[1].at = "put failure"
    BY <1>7, <2>1 DEF FailGoal, Failures
  <2> HIDE DEF g
  <2>5. \A h \in Goals : h # g => ~Failing(h)
    BY DEF Failing, g
  <2> QED BY <1>0, <2>1, <2>2, <2>3, <2>4, <2>5 DEF RouteInv, RouteFollowsOperation, Failing
<1>8. CASE PutFailure
  BY <1>0, <1>8 DEF PutFailure, RouteInv, RouteFollowsOperation, Failing
<1> QED BY <1>1, <1>2, <1>3, <1>4, <1>5, <1>6, <1>7, <1>8 DEF Reader

LEMMA KeepsRoute == TypeInv /\ RouteInv /\ [Next]_vars => RouteInv'
<1> SUFFICES ASSUME TypeInv, RouteInv, [Next]_vars PROVE RouteInv'
  OBVIOUS
<1>1. ASSUME UNCHANGED <<hand, route, state, pc>> PROVE RouteInv'
  BY <1>1 DEF RouteInv, RouteFollowsOperation, Failing, Operating
<1>2. CASE ClientStep
  BY <1>2, ClientCases, EndKeepsRoute, ReserveKeepsRoute, LeaveKeepsRoute DEF TypeInv
<1>3. CASE Reader
  BY <1>3, ReaderKeepsRoute
<1>4. CASE UNCHANGED vars
  BY <1>1, <1>4 DEF vars, reader, clients
<1> QED BY <1>1, <1>2, <1>3, <1>4, NextCases, ServerSteps DEF reader, clients

LEMMA InitRoute == Init => RouteInv
<1> SUFFICES ASSUME Init PROVE RouteInv
  OBVIOUS
<1>1. Nobody \notin Goals /\ \A g \in Goals : ~Operating(g)
  BY GoalAssumption DEF Init, Operating, Callers
<1> QED BY <1>1 DEF Init, RouteInv, RouteFollowsOperation

\* For any number of operations on the thread, one after the other or at once: the route is
\* that of the one under way, and neither the reader's late unregister_goal nor the end of
\* another operation takes it away.
THEOREM RouteHolds == Spec => []RouteFollowsOperation
<1>1. Spec => []TypeInv
  BY InitTyped, KeepsTypes, PTL DEF Spec
<1>2. Spec => []RouteInv
  BY <1>1, InitRoute, KeepsRoute, PTL DEF Spec
<1>3. RouteInv => RouteFollowsOperation
  BY DEF RouteInv
<1> QED BY <1>2, <1>3, PTL

-----------------------------------------------------------------------------
(* The turns of others. *)

\* A line about a turn somebody started with turn_start, when sb says who started which.
Noise(line, sb) == line.kind \in {"started", "completed"} /\ sb[line.n] \in Starters
Known(line, sb) == line.kind \in {"started", "completed"} => line.n \in DOMAIN sb

\* Such a turn neither runs nor has been asked for, and from the i-th line on none is spoken of.
QuietServer ==
  /\ running # 0 => startedBy[running] \notin Starters
  /\ \A c \in Starters : ~(c \in asked /\ pc[c] = "turn")
QuietAfter(i) ==
  /\ QuietServer
  /\ \A j \in DOMAIN wire : j > i => ~Noise(wire[j], startedBy)

InHand == hand # <<>> /\ hand[1].at = "observe"
Permits(c, line) == line.kind = "answer" /\ line.of = c /\ line.what = "ok"

\* A goal whose thread was found idle sees no more of the turns that ran before: the answer
\* to thread/read comes after their last line, and the lock keeps others from starting one.
NoiseInv ==
  /\ swallowed \subseteq DOMAIN startedBy /\ TurnNotSwallowed
  /\ InHand => Known(hand[1].msg, startedBy) /\ ~Noise(hand[1].msg, startedBy)
  /\ \A i \in DOMAIN wire : Known(wire[i], startedBy)
  /\ \A c \in asked : pc[c] \notin Outside
  /\ \A i \in DOMAIN wire : wire[i].kind = "answer" => pc[wire[i].of] \notin Outside
  /\ route # Nobody => QuietAfter(0)
  /\ \A g \in Goals : pc[g] = "read" =>
       /\ answer[g] # <<>> /\ What(g) = "ok" => QuietAfter(0)
       /\ \A i \in DOMAIN wire : Permits(g, wire[i]) => QuietAfter(i)

\* The app-server writes s.
Says(s) ==
  /\ wire' = wire \o s /\ s \in Seq(Lines)
  /\ startedBy' = startedBy \/ \E c \in Callers \cup {Nobody} : startedBy' = Append(startedBy, c)
  /\ asked' \subseteq asked
  /\ \A j \in DOMAIN s : Known(s[j], startedBy')
  /\ QuietServer => QuietServer' /\ \A j \in DOMAIN s : ~Noise(s[j], startedBy')
  /\ \A j \in DOMAIN s : s[j].kind = "answer" => pc[s[j].of] \notin Outside
  /\ \A g \in Goals, j \in DOMAIN s :
       pc[g] = "read" /\ Permits(g, s[j]) => QuietServer' /\ \A k \in DOMAIN s : k > j => ~Noise(s[k], startedBy')

LEMMA SaysKeepsNoise ==
  ASSUME TypeInv, NoiseInv, NEW s, Says(s),
         UNCHANGED <<reader, answer, route, state, cursor, locks, clients, swallowed>>
  PROVE  NoiseInv'
<1>1. /\ UNCHANGED <<hand, answer, route, pc, swallowed>>
      /\ wire \in Seq(Lines) /\ s \in Seq(Lines) /\ wire' = wire \o s
      /\ startedBy \in Seq(Callers \cup {Nobody})
  BY DEF Says, reader, clients, TypeInv, ServerType
<1>2. DOMAIN startedBy \subseteq DOMAIN startedBy' /\ \A n \in DOMAIN startedBy : startedBy'[n] = startedBy[n]
  <2>1. CASE startedBy' = startedBy
    BY <2>1
  <2>2. ASSUME NEW c \in Callers \cup {Nobody}, startedBy' = Append(startedBy, c)
        PROVE  DOMAIN startedBy \subseteq DOMAIN startedBy' /\ \A n \in DOMAIN startedBy : startedBy'[n] = startedBy[n]
    BY <1>1, <2>2
  <2> QED BY <2>1, <2>2 DEF Says
<1>3. \A line : Known(line, startedBy) =>
        Known(line, startedBy') /\ (Noise(line, startedBy') <=> Noise(line, startedBy))
  BY <1>2 DEF Known, Noise
<1>4. \A i \in DOMAIN wire' :
        \/ i \in DOMAIN wire /\ wire'[i] = wire[i]
        \/ i - Len(wire) \in DOMAIN s /\ wire'[i] = s[i - Len(wire)] /\ i > Len(wire)
  BY <1>1
<1>5. \A i \in DOMAIN wire : i \in Nat /\ i <= Len(wire)
  BY <1>1
<1>6. \A i \in DOMAIN wire' : Known(wire'[i], startedBy')
  BY <1>3, <1>4 DEF NoiseInv, Says
<1>7. \A i \in DOMAIN wire' : wire'[i].kind = "answer" => pc[wire'[i].of] \notin Outside
  BY <1>4 DEF NoiseInv, Says
<1>8. ASSUME NEW i \in Nat, QuietAfter(i) PROVE QuietAfter(i)'
  <2>1. QuietServer' /\ \A j \in DOMAIN s : ~Noise(s[j], startedBy')
    BY <1>8 DEF QuietAfter, Says
  <2>2. \A j \in DOMAIN wire : j > i => ~Noise(wire[j], startedBy')
    BY <1>3, <1>8 DEF QuietAfter, NoiseInv
  <2> QED BY <1>4, <2>1, <2>2 DEF QuietAfter
<1>9. ASSUME NEW g \in Goals, pc[g] = "read", NEW i \in DOMAIN wire', Permits(g, wire'[i])
      PROVE  QuietAfter(i)'
  <2>1. CASE i \in DOMAIN wire /\ wire'[i] = wire[i]
    BY <1>5, <1>8, <1>9, <2>1 DEF NoiseInv
  <2>2. CASE i - Len(wire) \in DOMAIN s /\ wire'[i] = s[i - Len(wire)] /\ i > Len(wire)
    <3>1. QuietServer' /\ \A k \in DOMAIN s : k > i - Len(wire) => ~Noise(s[k], startedBy')
      BY <1>9, <2>2 DEF Says
    <3>2. i \in Nat /\ Len(wire) \in Nat /\ DOMAIN s \subseteq Nat
      BY <1>1
    <3>3. ASSUME NEW k \in DOMAIN wire', k > i PROVE ~Noise(wire'[k], startedBy')
      <4>1. k \in Nat /\ k > Len(wire)
        BY <1>1, <2>2, <3>2, <3>3
      <4>2. k - Len(wire) \in DOMAIN s /\ wire'[k] = s[k - Len(wire)]
        BY <1>4, <1>5, <3>2, <4>1
      <4> QED BY <3>1, <3>2, <3>3, <4>1, <4>2
    <3> QED BY <3>1, <3>3 DEF QuietAfter
  <2> QED BY <1>4, <2>1, <2>2
<1>10. swallowed' \subseteq DOMAIN startedBy' /\ TurnNotSwallowed'
  BY <1>1, <1>2 DEF NoiseInv, TurnNotSwallowed
<1>11. InHand' => Known(hand'[1].msg, startedBy') /\ ~Noise(hand'[1].msg, startedBy')
  BY <1>1, <1>3 DEF NoiseInv, InHand
<1>12. \A c \in asked' : pc'[c] \notin Outside
  BY <1>1 DEF NoiseInv, Says
<1>13. /\ route' # Nobody => QuietAfter(0)'
       /\ \A g \in Goals : pc'[g] = "read" /\ answer'[g] # <<>> /\ What(g)' = "ok" => QuietAfter(0)'
  BY <1>1, <1>8 DEF NoiseInv, What
<1> QED BY <1>1, <1>6, <1>7, <1>9, <1>10, <1>11, <1>12, <1>13 DEF NoiseInv

\* Answers are not noise; nor is what a goal's turns say.
LEMMA QuietLines ==
  /\ \A c, what, n, sb : /\ Answer(c, what, n).kind = "answer" /\ Answer(c, what, n).of = c
                         /\ Answer(c, what, n).what = what
                         /\ Known(Answer(c, what, n), sb) /\ ~Noise(Answer(c, what, n), sb)
  /\ \A status, sb : /\ Goal(status).kind = "goal"
                     /\ Known(Goal(status), sb) /\ ~Noise(Goal(status), sb)
  /\ \A n, sb : /\ Started(n).kind = "started"
                /\ (Known(Started(n), sb) <=> n \in DOMAIN sb)
                /\ (Noise(Started(n), sb) <=> sb[n] \in Starters)
  /\ \A n, status, sb : /\ Ended(n, status).kind = "completed"
                        /\ (Known(Ended(n, status), sb) <=> n \in DOMAIN sb)
                        /\ (Noise(Ended(n, status), sb) <=> sb[n] \in Starters)
BY DEF Answer, Goal, Started, Ended, Known, Noise

LEMMA Appended ==
  ASSUME NEW S, NEW s \in Seq(S), NEW c \in S
  PROVE  /\ Len(s) \in Nat /\ DOMAIN s = 1 .. Len(s)
         /\ Len(s) + 1 \in DOMAIN Append(s, c) /\ Append(s, c)[Len(s) + 1] = c
OBVIOUS

LEMMA TwoInOne ==
  ASSUME NEW x \in Lines, NEW y \in Lines, NEW s, s = <<>> \o <<y>> \/ s = <<x>> \o <<y>>
  PROVE  s \in Seq(Lines) /\ \A j \in DOMAIN s : s[j] \in {x, y}
<1> DEFINE S == {x, y}
<1>1. <<y>> \in Seq(S) /\ <<x>> \in Seq(S) /\ <<>> \in Seq(S) /\ S \subseteq Lines
  OBVIOUS
<1> HIDE DEF S
<1>2. \A a, b \in Seq(S) : a \o b \in Seq(S)
  OBVIOUS
<1>3. s \in Seq(S)
  BY <1>1, <1>2
<1>4. s \in Seq(Lines) /\ \A j \in DOMAIN s : s[j] \in S
  BY <1>1, <1>3
<1> QED BY <1>4 DEF S

LEMMA StartedByTyped ==
  ASSUME TypeInv
  PROVE  /\ startedBy \in Seq(Callers \cup {Nobody}) /\ Len(startedBy) \in Nat
         /\ DOMAIN startedBy = 1 .. Len(startedBy) /\ running \in {0, Len(startedBy)}
<1>1. startedBy \in Seq(Callers \cup {Nobody})
  BY DEF TypeInv, ServerType
<1>2. Len(startedBy) \in Nat /\ DOMAIN startedBy = 1 .. Len(startedBy)
  BY <1>1
<1> QED BY <1>1, <1>2 DEF TypeInv, ServerType

\* What a new line must be, and what becomes of the rest of the server.
NewLine(x) ==
  /\ x \in Lines /\ Known(x, startedBy') /\ (QuietServer => ~Noise(x, startedBy'))
  /\ x.kind = "answer" => pc[x.of] \notin Outside
NoPermit(x) == \A g \in Goals : pc[g] = "read" => ~Permits(g, x)
Grows ==
  /\ startedBy' = startedBy \/ \E c \in Callers \cup {Nobody} : startedBy' = Append(startedBy, c)
  /\ asked' \subseteq asked
  /\ QuietServer => QuietServer'

LEMMA OneLineSays ==
  ASSUME NEW x, wire' = wire \o <<x>>, NewLine(x), Grows, NoPermit(x) \/ QuietServer'
  PROVE  \E s : Says(s)
<1>1. x \in Lines
  BY DEF NewLine
<1>2. <<x>> \in Seq(Lines) /\ DOMAIN <<x>> = {1} /\ <<x>>[1] = x
  BY <1>1
<1> DEFINE s == <<x>>
<1>3. s \in Seq(Lines) /\ DOMAIN s = {1} /\ s[1] = x /\ wire' = wire \o s
  BY <1>2
<1> HIDE DEF s
<1>4. Says(s)
  BY <1>3 DEF Says, NewLine, Grows, NoPermit
<1> QED BY <1>4

LEMMA TwoLinesSay ==
  ASSUME NEW x, NEW y, wire' = wire \o <<x, y>>, NewLine(x), NewLine(y), Grows, NoPermit(x), NoPermit(y)
  PROVE  \E s : Says(s)
<1>1. x \in Lines /\ y \in Lines
  BY DEF NewLine
<1>2. <<x, y>> \in Seq(Lines) /\ DOMAIN <<x, y>> = {1, 2} /\ <<x, y>>[1] = x /\ <<x, y>>[2] = y
  BY <1>1
<1> DEFINE s == <<x, y>>
<1>3. s \in Seq(Lines) /\ DOMAIN s = {1, 2} /\ s[1] = x /\ s[2] = y /\ wire' = wire \o s
  BY <1>2
<1> HIDE DEF s
<1>4. \A j \in DOMAIN s : s[j] = x \/ s[j] = y
  BY <1>3
<1>5. Says(s)
  BY <1>3, <1>4 DEF Says, NewLine, Grows, NoPermit
<1> QED BY <1>5

LEMMA LinesSay ==
  ASSUME NEW s \in Seq(Lines), wire' = wire \o s, Grows, \A j \in DOMAIN s : NewLine(s[j]) /\ NoPermit(s[j])
  PROVE  Says(s)
BY DEF Says, NewLine, Grows, NoPermit

LEMMA AnswerIsNew ==
  ASSUME NEW c \in Callers, pc[c] \notin Outside,
         NEW what \in {"ok", "busy", "invalid", "error", "exception"}, NEW n \in Upto
  PROVE  /\ NewLine(Answer(c, what, n))
         /\ pc[c] # "read" \/ what # "ok" => NoPermit(Answer(c, what, n))
<1>1. Answer(c, what, n) \in Lines
  BY LinesTyped
<1> QED BY <1>1, QuietLines DEF NewLine, NoPermit, Permits

LEMMA GoalIsNew ==
  ASSUME NEW status \in Status \cup {"cleared"}
  PROVE  NewLine(Goal(status)) /\ NoPermit(Goal(status))
<1>1. Goal(status) \in Lines
  BY LinesTyped
<1> QED BY <1>1, QuietLines DEF NewLine, NoPermit, Permits

LEMMA TurnIsNew ==
  ASSUME NEW n \in Turns, n \in DOMAIN startedBy', QuietServer => startedBy'[n] \notin Starters
  PROVE  /\ NewLine(Started(n)) /\ NoPermit(Started(n))
         /\ \A status \in {"completed", "failed", "interrupted"} :
              NewLine(Ended(n, status)) /\ NoPermit(Ended(n, status))
<1>1. Started(n) \in Lines /\ \A status \in {"completed", "failed", "interrupted"} : Ended(n, status) \in Lines
  BY LinesTyped
<1> QED BY <1>1, QuietLines DEF NewLine, NoPermit, Permits

\* The app-server answers thread/read when no turn runs; nobody else may ask for one then.
LEMMA ReadIsQuiet ==
  ASSUME TypeInv, LockInv, NEW g \in Goals, pc[g] = "read", running = 0
  PROVE  QuietServer
<1>1. ASSUME NEW c \in Starters, pc[c] = "turn" PROVE FALSE
  <2>1. c \in Callers /\ g \in Callers /\ c # g
    BY GoalAssumption DEF Callers
  <2>2. Critical(c) /\ Critical(g)
    BY <1>1, <2>1 DEF LockInv, Critical, MustHold
  <2> QED BY <2>1, <2>2, OneInside DEF OneStarter
<1> QED BY <1>1 DEF QuietServer

LEMMA ServeSays ==
  ASSUME TypeInv, LockInv, NoiseInv, NEW c \in Callers,
         Serve(c) \/ \E what \in {"invalid", "error"} : Refuse(c, what)
  PROVE  \E s : Says(s)
<1> USE Numbers
<1>0. /\ c \in asked /\ pc[c] \notin Outside /\ asked' = asked \ {c} /\ UNCHANGED pc
      /\ startedBy \in Seq(Callers \cup {Nobody}) /\ running \in {0, Len(startedBy)}
      /\ Len(startedBy) \in Nat /\ DOMAIN startedBy = 1 .. Len(startedBy)
  <2>1. PICK at : Reply(c, at)
    BY DEF Serve, ServeRead, ServeClear, ServeSet, ServePause, ServeTurn, ServeInterrupt, Refuse
  <2>2. c \in asked /\ asked' = asked \ {c} /\ UNCHANGED pc
    BY <2>1 DEF Reply, clients
  <2> QED BY <2>2, StartedByTyped DEF NoiseInv
<1>1. ASSUME UNCHANGED <<running, startedBy>> PROVE Grows
  BY <1>0, <1>1 DEF QuietServer, Grows
<1>2. CASE ServeRead(c)
  <2>1. PICK what \in {"ok", "busy"} :
          wire' = wire \o <<Answer(c, what, 0)>> /\ (what = "ok" => running = 0)
    BY <1>2 DEF ServeRead, Say
  <2>2. Grows /\ NewLine(Answer(c, what, 0))
    BY <1>0, <1>1, <1>2, AnswerIsNew DEF ServeRead
  <2>3. CASE c \in Goals /\ pc[c] = "read" /\ what = "ok"
    <3>1. QuietServer'
      BY <2>1, <2>2, <2>3, ReadIsQuiet DEF Grows
    <3> QED BY <2>1, <2>2, <3>1, OneLineSays
  <2>4. CASE what # "ok" \/ c \notin Goals
    <3>1. NoPermit(Answer(c, what, 0))
      BY <2>4, QuietLines DEF NoPermit, Permits
    <3> QED BY <2>1, <2>2, <3>1, OneLineSays
  <2>5. pc[c] = "read"
    BY <1>2 DEF ServeRead, Reply
  <2> QED BY <2>3, <2>4, <2>5
<1>3. ASSUME NEW what \in {"invalid", "error"}, Refuse(c, what) PROVE \E s : Says(s)
  <2>1. wire' = wire \o <<Answer(c, what, 0)>> /\ UNCHANGED <<running, startedBy>>
    BY <1>3 DEF Refuse, Say
  <2>2. NewLine(Answer(c, what, 0)) /\ NoPermit(Answer(c, what, 0))
    BY <1>0, AnswerIsNew
  <2> QED BY <1>1, <2>1, <2>2, OneLineSays
<1>4. CASE ServeClear(c) \/ ServeSet(c) \/ ServePause(c)
  <2>1. Grows /\ pc[c] # "read"
    BY <1>1, <1>4 DEF ServeClear, ServeSet, ServePause, Reply
  <2>2. NewLine(Answer(c, "ok", 0)) /\ NoPermit(Answer(c, "ok", 0))
    BY <1>0, <2>1, AnswerIsNew
  <2>3. PICK x \in {Goal(status) : status \in {"cleared", "active", "paused"}} :
          \E t \in {<<>>, <<x>>} : wire' = wire \o (t \o <<Answer(c, "ok", 0)>>)
    <3>1. CASE ServeClear(c)
      BY <3>1 DEF ServeClear, Say
    <3>2. CASE ServePause(c)
      BY <3>2 DEF ServePause, Say
    <3>3. CASE ServeSet(c)
      <4>1. <<Goal("active"), Answer(c, "ok", 0)>> = <<Goal("active")>> \o <<Answer(c, "ok", 0)>>
        OBVIOUS
      <4> QED BY <3>3, <4>1 DEF ServeSet, Say
    <3> QED BY <1>4, <3>1, <3>2, <3>3
  <2> PICK s \in {<<>>, <<x>>} : wire' = wire \o (s \o <<Answer(c, "ok", 0)>>)
    BY <2>3
  <2>4. NewLine(x) /\ NoPermit(x)
    BY GoalIsNew DEF Status
  <2>5. x \in Lines /\ Answer(c, "ok", 0) \in Lines
    BY <2>2, <2>4 DEF NewLine
  <2> DEFINE all == s \o <<Answer(c, "ok", 0)>>
  <2>6. all \in Seq(Lines) /\ \A j \in DOMAIN all : all[j] \in {x, Answer(c, "ok", 0)}
    BY <2>5, TwoInOne
  <2>7. wire' = wire \o all
    OBVIOUS
  <2> HIDE DEF all
  <2>8. \A j \in DOMAIN all : NewLine(all[j]) /\ NoPermit(all[j])
    BY <2>2, <2>4, <2>6
  <2> QED BY <2>1, <2>6, <2>7, <2>8, LinesSay
<1>5. CASE ServeTurn(c)
  <2>1. CASE running = 0 /\ Len(startedBy) < MaxTurns
    <3>1. /\ wire' = wire \o <<Answer(c, "ok", 0), Started(Len(startedBy) + 1)>>
          /\ startedBy' = Append(startedBy, c) /\ running' = Len(startedBy) + 1 /\ pc[c] = "turn"
      BY <1>5, <2>1 DEF ServeTurn, Say, Reply
    <3>2. Len(startedBy) + 1 \in Turns
      BY <2>1 DEF TypeInv
    <3>3. Len(startedBy) + 1 \in DOMAIN startedBy' /\ startedBy'[Len(startedBy) + 1] = c
      <4>1. c \in Callers \cup {Nobody} /\ startedBy \in Seq(Callers \cup {Nobody})
        BY <1>0
      <4> QED BY <3>1, <4>1, Appended
    <3>4. QuietServer => c \notin Starters
      BY <1>0, <3>1 DEF QuietServer
    <3>5. Grows
      BY <1>0, <3>1, <3>3, <3>4 DEF Grows, QuietServer
    <3>6. NewLine(Answer(c, "ok", 0)) /\ NoPermit(Answer(c, "ok", 0))
      BY <1>0, <3>1, AnswerIsNew
    <3>7. NewLine(Started(Len(startedBy) + 1)) /\ NoPermit(Started(Len(startedBy) + 1))
      BY <3>2, <3>3, <3>4, TurnIsNew
    <3> QED BY <3>1, <3>5, <3>6, <3>7, TwoLinesSay
  <2>2. CASE ~(running = 0 /\ Len(startedBy) < MaxTurns)
    <3>1. wire' = wire \o <<Answer(c, "invalid", 0)>> /\ UNCHANGED <<running, startedBy>>
      BY <1>5, <2>2 DEF ServeTurn, Say
    <3>2. NewLine(Answer(c, "invalid", 0)) /\ NoPermit(Answer(c, "invalid", 0))
      BY <1>0, AnswerIsNew
    <3> QED BY <1>1, <3>1, <3>2, OneLineSays
  <2> QED BY <2>1, <2>2
<1>6. CASE c \in Goals /\ ServeInterrupt(c)
  <2>1. target[c] \in Turns /\ pc[c] # "read" /\ UNCHANGED startedBy
    BY <1>6 DEF ServeInterrupt, Reply, TypeInv, ClientType
  <2>2. CASE running = target[c]
    <3>1. wire' = wire \o <<Ended(running, "interrupted"), Answer(c, "ok", 0)>> /\ running' = 0
      BY <1>6, <2>2 DEF ServeInterrupt, Say
    <3>2. running # 0 /\ running \in Turns /\ running \in DOMAIN startedBy'
      BY <1>0, <2>1, <2>2
    <3>3. Grows /\ (QuietServer => startedBy'[running] \notin Starters)
      BY <1>0, <2>1, <3>1, <3>2 DEF QuietServer, Grows
    <3>4. NewLine(Ended(running, "interrupted")) /\ NoPermit(Ended(running, "interrupted"))
      BY <3>2, <3>3, TurnIsNew
    <3>5. NewLine(Answer(c, "ok", 0)) /\ NoPermit(Answer(c, "ok", 0))
      BY <1>0, <2>1, AnswerIsNew
    <3> QED BY <3>1, <3>3, <3>4, <3>5, TwoLinesSay
  <2>3. CASE running # target[c]
    <3>1. wire' = wire \o <<Answer(c, "invalid", running)>> /\ running' = running
      BY <1>6, <2>3 DEF ServeInterrupt, Say
    <3>2. running \in Upto
      BY DEF TypeInv
    <3>3. NewLine(Answer(c, "invalid", running)) /\ NoPermit(Answer(c, "invalid", running))
      BY <1>0, <3>2, AnswerIsNew
    <3> QED BY <1>1, <2>1, <3>1, <3>3, OneLineSays
  <2> QED BY <2>2, <2>3
<1> QED BY <1>2, <1>3, <1>4, <1>5, <1>6 DEF Serve

LEMMA ServerSays ==
  ASSUME TypeInv, LockInv, NoiseInv,
         StartTurn \/ EndGoal \/ \E status \in {"completed", "failed"} : EndTurn(status)
  PROVE  \E s : Says(s)
<1> USE Numbers
<1>0. /\ UNCHANGED <<pc, asked>> /\ owner \in Goals \cup {Nobody} /\ Goals \cap Starters = {} /\ Nobody \notin Callers
      /\ startedBy \in Seq(Callers \cup {Nobody}) /\ running \in {0, Len(startedBy)}
      /\ Len(startedBy) \in Nat /\ DOMAIN startedBy = 1 .. Len(startedBy)
  BY GoalAssumption, StartedByTyped DEF StartTurn, EndGoal, EndTurn, Quietly, clients, TypeInv, ServerType
<1>1. CASE StartTurn
  <2>1. /\ wire' = wire \o <<Started(Len(startedBy) + 1)>> /\ Len(startedBy) < MaxTurns
        /\ startedBy' = Append(startedBy, owner) /\ running' = Len(startedBy) + 1
    BY <1>1 DEF StartTurn, Say
  <2>2. Len(startedBy) + 1 \in Turns
    BY <2>1 DEF TypeInv
  <2>3. Len(startedBy) + 1 \in DOMAIN startedBy' /\ startedBy'[Len(startedBy) + 1] = owner
    <3>1. owner \in Callers \cup {Nobody}
      BY <1>0
    <3> QED BY <1>0, <2>1, <3>1, Appended
  <2>4. owner \in Callers \cup {Nobody} /\ owner \notin Starters
    BY <1>0
  <2>5. Grows
    BY <1>0, <2>1, <2>3, <2>4 DEF Grows, QuietServer
  <2>6. NewLine(Started(Len(startedBy) + 1)) /\ NoPermit(Started(Len(startedBy) + 1))
    BY <2>2, <2>3, <2>4, TurnIsNew
  <2> QED BY <2>1, <2>5, <2>6, OneLineSays
<1>2. ASSUME NEW status \in {"completed", "failed"}, EndTurn(status) PROVE \E s : Says(s)
  <2>1. wire' = wire \o <<Ended(running, status)>> /\ running # 0 /\ running' = 0 /\ UNCHANGED startedBy
    BY <1>2 DEF EndTurn, Say
  <2>2. running \in Turns /\ running \in DOMAIN startedBy'
    <3>1. running \in Turns
      BY <2>1 DEF TypeInv
    <3>2. running = Len(startedBy) /\ DOMAIN startedBy' = 1 .. Len(startedBy)
      BY <2>1, StartedByTyped
    <3>3. running \in 1 .. Len(startedBy)
      BY <2>1, <3>2, StartedByTyped
    <3> QED BY <3>1, <3>2, <3>3
  <2>3. Grows /\ (QuietServer => startedBy'[running] \notin Starters)
    BY <1>0, <2>1 DEF QuietServer, Grows
  <2>4. NewLine(Ended(running, status)) /\ NoPermit(Ended(running, status))
    BY <2>2, <2>3, TurnIsNew
  <2> QED BY <2>1, <2>3, <2>4, OneLineSays
<1>3. CASE EndGoal
  <2>1. wire' = wire \o <<Goal("complete")>> /\ UNCHANGED <<running, startedBy>>
    BY <1>3 DEF EndGoal, Say
  <2>2. Grows
    BY <1>0, <2>1 DEF QuietServer, Grows
  <2>3. NewLine(Goal("complete")) /\ NoPermit(Goal("complete"))
    BY GoalIsNew DEF Status
  <2> QED BY <2>1, <2>2, <2>3, OneLineSays
<1> QED BY <1>1, <1>2, <1>3

\* The reader takes the first line: the others move up.
LEMMA ReadLine ==
  ASSUME TypeInv, NoiseInv, wire # <<>>, wire' = Tail(wire),
         UNCHANGED <<running, startedBy, asked, pc>>
  PROVE  /\ \A i \in DOMAIN wire' : i \in Nat /\ i + 1 \in DOMAIN wire /\ wire'[i] = wire[i + 1]
         /\ 1 \in DOMAIN wire /\ Head(wire) = wire[1]
         /\ \A i \in Nat : QuietAfter(i + 1) => QuietAfter(i)'
         /\ QuietAfter(0) => QuietAfter(0)'
         /\ \A i \in DOMAIN wire' : Known(wire'[i], startedBy')
         /\ \A i \in DOMAIN wire' : wire'[i].kind = "answer" => pc[wire'[i].of] \notin Outside
<1>1. wire \in Seq(Lines)
  BY DEF TypeInv, ServerType
<1>2. /\ \A i \in DOMAIN wire' : i \in Nat /\ i + 1 \in DOMAIN wire /\ wire'[i] = wire[i + 1]
      /\ 1 \in DOMAIN wire /\ Head(wire) = wire[1]
  BY <1>1
<1>3. QuietServer' <=> QuietServer
  BY DEF QuietServer
<1>4. \A i \in Nat : QuietAfter(i + 1) => QuietAfter(i)'
  BY <1>2, <1>3 DEF QuietAfter
<1>5. QuietAfter(0) => QuietAfter(0)'
  BY <1>2, <1>3 DEF QuietAfter
<1> QED BY <1>2, <1>4, <1>5 DEF NoiseInv

LEMMA ReaderKeepsNoise ==
  ASSUME TypeInv, NoiseInv, Reader
  PROVE  NoiseInv'
<1>0. UNCHANGED <<pc, running, startedBy, asked>>
  BY DEF Reader, RouteAnswer, LookUpGoal, Observe, PutNotification, UnregisterFinished, FailAll, FailGoal,
         PutFailure, clients, server
<1>1. CASE RouteAnswer
  <2>1. /\ wire # <<>> /\ wire' = Tail(wire) /\ Head(wire).kind = "answer"
        /\ answer' = [answer EXCEPT ![Head(wire).of] = <<Head(wire)>>]
        /\ UNCHANGED <<hand, route, swallowed>>
    BY <1>1 DEF RouteAnswer, reader
  <2>2. Goals \subseteq Callers /\ DOMAIN answer = Callers
    BY DEF TypeInv, ReaderType, Callers
  <2>3. ASSUME NEW g \in Goals, pc[g] = "read"
        PROVE  /\ answer'[g] # <<>> /\ What(g)' = "ok" => QuietAfter(0)'
               /\ \A i \in DOMAIN wire' : Permits(g, wire'[i]) => QuietAfter(i)'
    <3>1. CASE Head(wire).of = g
      <4>1. answer'[g] = <<Head(wire)>>
        BY <2>1, <2>2, <3>1
      <4>2. What(g)' = Head(wire).what
        BY <4>1 DEF What
      <4>3. What(g)' = "ok" => QuietAfter(1)
        <5>1. 1 \in DOMAIN wire /\ Head(wire) = wire[1]
          BY <1>0, <2>1, ReadLine
        <5> QED BY <2>1, <2>3, <3>1, <4>2, <5>1 DEF NoiseInv, Permits
      <4>4. QuietAfter(1) => QuietAfter(0)'
        <5>1. \A i \in Nat : QuietAfter(i + 1) => QuietAfter(i)'
          BY <1>0, <2>1, ReadLine
        <5> QED BY <5>1
      <4>5. \A i \in DOMAIN wire' : Permits(g, wire'[i]) => QuietAfter(i)'
        BY <1>0, <2>1, <2>3, ReadLine DEF NoiseInv
      <4> QED BY <4>3, <4>4, <4>5
    <3>2. CASE Head(wire).of # g
      <4>1. answer'[g] = answer[g]
        BY <2>1, <3>2
      <4>2. answer'[g] # <<>> /\ What(g)' = "ok" => QuietAfter(0)'
        BY <1>0, <2>1, <2>3, <4>1, ReadLine DEF NoiseInv, What
      <4>3. \A i \in DOMAIN wire' : Permits(g, wire'[i]) => QuietAfter(i)'
        BY <1>0, <2>1, <2>3, ReadLine DEF NoiseInv
      <4> QED BY <4>2, <4>3
    <3> QED BY <3>1, <3>2
  <2>4. route' # Nobody => QuietAfter(0)'
    BY <1>0, <2>1, ReadLine DEF NoiseInv
  <2>5. /\ \A i \in DOMAIN wire' : Known(wire'[i], startedBy')
        /\ \A i \in DOMAIN wire' : wire'[i].kind = "answer" => pc[wire'[i].of] \notin Outside
    BY <1>0, <2>1, ReadLine
  <2> QED BY <1>0, <2>1, <2>3, <2>4, <2>5 DEF NoiseInv, TurnNotSwallowed, InHand
<1>2. CASE LookUpGoal
  <2>1. /\ wire # <<>> /\ wire' = Tail(wire)
        /\ hand' = IF route = Nobody THEN <<>> ELSE <<[at |-> "observe", to |-> route, msg |-> Head(wire)]>>
        /\ UNCHANGED <<answer, route, swallowed>>
    BY <1>2 DEF LookUpGoal
  <2>2. 1 \in DOMAIN wire /\ Head(wire) = wire[1]
    BY <1>0, <2>1, ReadLine
  <2>3. InHand' => Known(hand'[1].msg, startedBy') /\ ~Noise(hand'[1].msg, startedBy')
    BY <1>0, <2>1, <2>2 DEF NoiseInv, QuietAfter, InHand
  <2>4. ASSUME NEW g \in Goals, pc[g] = "read"
        PROVE  /\ answer'[g] # <<>> /\ What(g)' = "ok" => QuietAfter(0)'
               /\ \A i \in DOMAIN wire' : Permits(g, wire'[i]) => QuietAfter(i)'
    BY <1>0, <2>1, <2>4, ReadLine DEF NoiseInv, What
  <2>5. route' # Nobody => QuietAfter(0)'
    BY <1>0, <2>1, ReadLine DEF NoiseInv
  <2>6. /\ \A i \in DOMAIN wire' : Known(wire'[i], startedBy')
        /\ \A i \in DOMAIN wire' : wire'[i].kind = "answer" => pc[wire'[i].of] \notin Outside
    BY <1>0, <2>1, ReadLine
  <2> QED BY <1>0, <2>1, <2>3, <2>4, <2>5, <2>6 DEF NoiseInv, TurnNotSwallowed, InHand
<1>3. ASSUME UNCHANGED <<wire, answer>>, route' \in {route, Nobody}, ~InHand',
             swallowed' = swallowed \/ (swallowed' = swallowed \cup {hand[1].msg.n} /\ InHand
                                          /\ hand[1].msg.kind \in {"started", "completed"})
      PROVE  NoiseInv'
  <2>1. /\ QuietServer' <=> QuietServer
        /\ \A i : QuietAfter(i)' <=> QuietAfter(i)
    BY <1>0, <1>3 DEF QuietServer, QuietAfter
  <2>2. swallowed' \subseteq DOMAIN startedBy' /\ TurnNotSwallowed'
    BY <1>0, <1>3 DEF NoiseInv, TurnNotSwallowed, Known, Noise
  <2>3. \A g \in Goals : What(g)' = What(g)
    BY <1>3 DEF What
  <2> QED BY <1>0, <1>3, <2>1, <2>2, <2>3 DEF NoiseInv
<1>4. CASE Observe
  <2>1. InHand /\ hand # <<>> /\ UNCHANGED <<wire, answer, route>>
    BY <1>4 DEF Observe, InHand
  <2>2. hand[1] \in Notified
    BY <2>1, HandTyped DEF TypeInv, InHand
  <2>3. hand[1].msg.kind = "goal" \/ hand[1].msg.kind \in {"started", "completed"}
    BY <2>2 DEF Notified, Notices, StartedLines, EndedLines, GoalLines
  <2>4. [hand[1] EXCEPT !.at = "put"].at = "put"
    BY <2>2 DEF Notified
  <2>5. /\ swallowed' = swallowed \/ (swallowed' = swallowed \cup {hand[1].msg.n} /\ hand[1].msg.kind # "goal")
        /\ hand' = <<>> \/ hand' = <<[hand[1] EXCEPT !.at = "put"]>>
    BY <1>4 DEF Observe
  <2>6. ~InHand'
    <3>1. \A h : <<h>>[1] = h
      OBVIOUS
    <3>2. hand' = <<>> \/ hand'[1].at = "put"
      BY <2>4, <2>5, <3>1
    <3> QED BY <3>2 DEF InHand
  <2>7. swallowed' = swallowed \/ (swallowed' = swallowed \cup {hand[1].msg.n}
                                     /\ hand[1].msg.kind \in {"started", "completed"})
    BY <2>3, <2>5
  <2> QED BY <1>3, <2>1, <2>6, <2>7
<1>5. CASE PutNotification \/ UnregisterFinished \/ FailAll \/ FailGoal \/ PutFailure
  <2>1. UNCHANGED <<wire, answer, swallowed>> /\ route' \in {route, Nobody}
    BY <1>5 DEF PutNotification, UnregisterFinished, FailAll, FailGoal, PutFailure, Unregister
  <2>2. \/ hand' = <<>> \/ \E to : hand' = <<[at |-> "fail", to |-> to]>>
        \/ hand # <<>> /\ \E at \in {"unregister", "put failure"} : hand' = <<[hand[1] EXCEPT !.at = at]>>
    BY <1>5 DEF PutNotification, UnregisterFinished, FailAll, FailGoal, PutFailure
  <2>3. ASSUME hand # <<>>, NEW at \in {"unregister", "put failure"}, hand' = <<[hand[1] EXCEPT !.at = at]>>
        PROVE  hand'[1].at = at
    BY <2>3, HandTyped DEF TypeInv, Notified, Failures
  <2>4. ~InHand'
    <3>1. ASSUME NEW to, hand' = <<[at |-> "fail", to |-> to]>> PROVE hand'[1].at = "fail"
      BY <3>1
    <3>2. hand' = <<>> \/ hand'[1].at \in {"fail", "unregister", "put failure"}
      BY <2>2, <2>3, <3>1
    <3> QED BY <3>2 DEF InHand
  <2> QED BY <1>3, <2>1, <2>4
<1> QED BY <1>1, <1>2, <1>4, <1>5 DEF Reader

\* A step of one client that neither asks for a turn or a read nor takes the route.
Moves(c) ==
  /\ UNCHANGED <<running, startedBy, wire, hand, swallowed>>
  /\ route' \in {route, Nobody}
  /\ asked' \subseteq asked \cup {c}
  /\ \A d \in Callers : d # c => pc'[d] = pc[d] /\ answer'[d] = answer[d]
  /\ \/ pc'[c] = pc[c] /\ asked' \subseteq asked /\ (answer'[c] = answer[c] \/ What(c)' # "ok")
     \/ pc'[c] \notin Outside \cup {"read", "turn"}
     \/ pc[c] = "idle" /\ pc'[c] = "acquire" /\ asked' \subseteq asked

LEMMA SentOne ==
  ASSUME TypeInv, NEW c \in Callers, NEW l, Send(c, l)
  PROVE  /\ UNCHANGED <<running, startedBy>> /\ asked' = asked \cup {c}
         /\ pc'[c] = l /\ answer'[c] = <<>>
         /\ \A d \in Callers : d # c => pc'[d] = pc[d] /\ answer'[d] = answer[d]
BY DEF Send, Goto, TypeInv, ReaderType, ClientType

LEMMA WentOn ==
  ASSUME TypeInv, NEW c \in Callers, NEW l, Goto(c, l), NoRequest
  PROVE  /\ UNCHANGED <<running, startedBy, asked, answer>>
         /\ pc'[c] = l /\ \A d \in Callers : d # c => pc'[d] = pc[d]
BY DEF Goto, NoRequest, server, TypeInv, ClientType

LEMMA OthersMove ==
  ASSUME TypeInv, NEW c \in Callers,
         \/ EnterThread(c) \/ LeaveThread(c) \/ TransportError(c)
         \/ c \in Starters /\ (TurnRefused(c) \/ AfterTurn(c))
  PROVE  Moves(c)
<1>1. CASE EnterThread(c)
  <2>1. pc' = [pc EXCEPT ![c] = "acquire"] /\ pc[c] = "idle" /\ pc \in [Callers -> Labels]
    BY <1>1 DEF EnterThread, Goto, TypeInv, ClientType
  <2>2. UNCHANGED <<running, startedBy, wire, hand, swallowed, route, asked, answer>>
    BY <1>1 DEF EnterThread, server, reader
  <2> QED BY <2>1, <2>2 DEF Moves
<1>2. CASE TransportError(c)
  <2>1. /\ UNCHANGED <<running, startedBy, wire, hand, swallowed, route, pc>> /\ asked' \subseteq asked
        /\ answer' = [answer EXCEPT ![c] = <<Answer(c, "exception", 0)>>]
        /\ DOMAIN answer = Callers
    BY <1>2 DEF TransportError, reader, clients, TypeInv, ReaderType
  <2>2. answer'[c] = <<Answer(c, "exception", 0)>> /\ \A d \in Callers : d # c => answer'[d] = answer[d]
    BY <2>1
  <2>3. What(c)' = "exception"
    BY <2>2 DEF What, Answer
  <2> QED BY <2>1, <2>2, <2>3 DEF Moves
<1>3. CASE c \in Starters /\ (TurnRefused(c) \/ AfterTurn(c))
  <2>1. PICK l \in {"raised", "started"} : Goto(c, l) /\ NoRequest
    BY <1>3 DEF TurnRefused, AfterTurn
  <2>2. UNCHANGED <<wire, hand, swallowed, route>>
    BY <1>3 DEF TurnRefused, AfterTurn, reader
  <2>3. l \notin Outside \cup {"read", "turn"}
    BY DEF Outside
  <2> QED BY <2>1, <2>2, <2>3, WentOn DEF Moves
<1>4. CASE LeaveThread(c)
  BY <1>4 DEF LeaveThread, Leaves, Moves, server, reader, clients
<1> QED BY <1>1, <1>2, <1>3, <1>4

LEMMA GoalsMove ==
  ASSUME TypeInv, NEW g \in Goals,
         GoalCall(g) \/ CloseStream(g) \/ CancelStream(g), ~TransportError(g), ~StartOfGoal(g), ~Reserve(g)
  PROVE  Moves(g)
<1>0. g \in Callers
  BY DEF Callers
<1>1. CASE Cleared(g) \/ StartFails(g) \/ Paused(g) \/ InterruptAgain(g) \/ CancelStream(g)
  <2>1. PICK l \in {"set", "pause", "interrupt", "interrupt again"} : Send(g, l)
    BY <1>1 DEF Cleared, StartFails, Paused, InterruptAgain, CancelStream
  <2>2. UNCHANGED <<wire, hand, swallowed, route>>
    BY <1>1 DEF Cleared, StartFails, Paused, InterruptAgain, CancelStream, reader
  <2>3. l \notin Outside \cup {"read", "turn"}
    BY DEF Outside
  <2> QED BY <1>0, <2>1, <2>2, <2>3, SentOne DEF Moves
<1>2. CASE GoalRefused(g) \/ GoalSet(g) \/ TurnSeen(g) \/ Rejected(g) \/ Cancelled(g) \/ CloseStream(g)
  <2>1. PICK l \in {"raised", "wait for start", "streaming", "cancelled", "closed"} : Goto(g, l) /\ NoRequest
    BY <1>2 DEF GoalRefused, GoalSet, TurnSeen, Rejected, Cancelled, CloseStream, Finish
  <2>2. UNCHANGED <<wire, hand, swallowed>> /\ route' \in {route, Nobody}
    BY <1>2 DEF GoalRefused, GoalSet, TurnSeen, Rejected, Cancelled, CloseStream, Finish, Unregister, reader
  <2>3. l \notin Outside \cup {"read", "turn"}
    BY DEF Outside
  <2> QED BY <1>0, <2>1, <2>2, <2>3, WentOn DEF Moves
<1>3. CASE Consume(g)
  <2>1. PICK k \in {"started", "completed", "goal", "failure"} : Took(g, k)
    BY <1>3 DEF Consume, TakeStarted, TakeCompleted, TakeGoal, TakeFailure
  <2>2. UNCHANGED <<running, startedBy, asked, answer, wire, hand, swallowed>>
    BY <2>1 DEF Took, server, reader
  <2>3. (route' = route /\ pc' = pc) \/ (Unregister(g) /\ \E l \in {"done", "raised"} : Goto(g, l))
    BY <1>3 DEF Consume, TakeStarted, TakeCompleted, TakeGoal, TakeFailure, EndStream
  <2>4. CASE route' = route /\ pc' = pc
    BY <2>2, <2>4 DEF Moves
  <2>5. ASSUME Unregister(g), NEW l \in {"done", "raised"}, Goto(g, l) PROVE Moves(g)
    <3>1. pc'[g] = l /\ \A d \in Callers : d # g => pc'[d] = pc[d]
      BY <1>0, <2>5 DEF Goto, TypeInv, ClientType
    <3>2. route' \in {route, Nobody} /\ l \notin Outside \cup {"read", "turn"}
      BY <2>5 DEF Unregister, Outside
    <3> QED BY <2>2, <3>1, <3>2 DEF Moves
  <2> QED BY <2>3, <2>4, <2>5
<1> QED BY <1>1, <1>2, <1>3 DEF GoalCall

LEMMA MoveKeepsNoise ==
  ASSUME TypeInv, NoiseInv, NEW c \in Callers, Moves(c)
  PROVE  NoiseInv'
<1>0. /\ UNCHANGED <<running, startedBy, wire, hand, swallowed>> /\ route' \in {route, Nobody}
      /\ asked' \subseteq asked \cup {c}
      /\ \A d \in Callers : d # c => pc'[d] = pc[d] /\ answer'[d] = answer[d]
      /\ Goals \subseteq Callers /\ Starters \subseteq Callers /\ asked \subseteq Callers
  BY DEF Moves, Callers, TypeInv, ServerType
<1>1. QuietServer => QuietServer'
  <2>1. ASSUME QuietServer, NEW d \in Starters, d \in asked', pc'[d] = "turn" PROVE FALSE
    BY <1>0, <2>1 DEF QuietServer, Moves, Outside
  <2> QED BY <1>0, <2>1 DEF QuietServer
<1>2. \A i : QuietAfter(i) => QuietAfter(i)'
  BY <1>0, <1>1 DEF QuietAfter
<1>3. \A d \in Callers : pc[d] \notin Outside => pc'[d] \notin Outside
  BY <1>0 DEF Moves, Outside
<1>4. \A d \in asked' : pc'[d] \notin Outside
  BY <1>0, <1>3 DEF Moves, NoiseInv
<1>5. \A i \in DOMAIN wire' : wire'[i].kind = "answer" => pc'[wire'[i].of] \notin Outside
  <2>1. \A i \in DOMAIN wire : wire[i] \in Lines
    BY DEF TypeInv, ServerType
  <2>2. \A x \in Lines : x.kind = "answer" => x.of \in Callers
    BY DEF Lines, Notices, StartedLines, EndedLines, GoalLines, Answers
  <2> QED BY <1>0, <1>3, <2>1, <2>2 DEF NoiseInv
<1>6. ASSUME NEW g \in Goals, pc'[g] = "read"
      PROVE  /\ answer'[g] # <<>> /\ What(g)' = "ok" => QuietAfter(0)'
             /\ \A i \in DOMAIN wire' : Permits(g, wire'[i]) => QuietAfter(i)'
  <2>1. pc[g] = "read" /\ (answer'[g] = answer[g] \/ What(g)' # "ok")
    BY <1>0, <1>6 DEF Moves
  <2>2. answer'[g] = answer[g] => What(g)' = What(g)
    BY DEF What
  <2> QED BY <1>0, <1>2, <2>1, <2>2 DEF NoiseInv
<1>7. route' # Nobody => QuietAfter(0)'
  BY <1>0, <1>2 DEF NoiseInv
<1> QED BY <1>0, <1>4, <1>5, <1>6, <1>7 DEF NoiseInv, TurnNotSwallowed, InHand

LEMMA ReserveKeepsNoise ==
  ASSUME TypeInv, NoiseInv, NEW g \in Goals, Reserve(g)
  PROVE  NoiseInv'
<1>0. g \in Callers /\ Goals \subseteq Callers /\ Starters \subseteq Callers /\ g \notin Starters
  BY GoalAssumption DEF Callers
<1>1. /\ UNCHANGED <<running, startedBy, wire, hand, swallowed>> /\ asked' = asked \cup {g}
      /\ pc'[g] = "clear" /\ \A d \in Callers : d # g => pc'[d] = pc[d] /\ answer'[d] = answer[d]
  BY <1>0, SentOne DEF Reserve, reader
<1>2. QuietAfter(0)
  BY DEF Reserve, Answered, NoiseInv
<1>3. \A i : QuietAfter(i) => QuietAfter(i)'
  BY <1>0, <1>1 DEF QuietAfter, QuietServer
<1>4. \A i \in DOMAIN wire' : wire'[i].kind = "answer" => pc'[wire'[i].of] \notin Outside
  <2>1. \A i \in DOMAIN wire : wire[i] \in Lines
    BY DEF TypeInv, ServerType
  <2>2. \A x \in Lines : x.kind = "answer" => x.of \in Callers
    BY DEF Lines, Notices, StartedLines, EndedLines, GoalLines, Answers
  <2> QED BY <1>1, <2>1, <2>2 DEF NoiseInv, Outside
<1>5. \A d \in asked' : pc'[d] \notin Outside
  <2>1. asked \subseteq Callers
    BY DEF TypeInv, ServerType
  <2> QED BY <1>1, <2>1 DEF NoiseInv, Outside
<1>6. ASSUME NEW h \in Goals, pc'[h] = "read"
      PROVE  /\ answer'[h] # <<>> /\ What(h)' = "ok" => QuietAfter(0)'
             /\ \A i \in DOMAIN wire' : Permits(h, wire'[i]) => QuietAfter(i)'
  <2>1. h # g /\ pc[h] = "read" /\ answer'[h] = answer[h]
    BY <1>0, <1>1, <1>6
  <2>2. What(h)' = What(h)
    BY <2>1 DEF What
  <2> QED BY <1>1, <1>3, <2>1, <2>2 DEF NoiseInv
<1> QED BY <1>1, <1>2, <1>3, <1>4, <1>5, <1>6 DEF NoiseInv, TurnNotSwallowed, InHand

\* A caller that gets the lock finds no other in the critical section.
LEMMA GettingIsAlone ==
  ASSUME LockInv, NEW c \in Callers, Acquired(c), NEW d \in Callers
  PROVE  ~Critical(d)
<1>1. mine[c] = entry /\ entry # 0 /\ holder[entry] = Nobody /\ Nobody \notin Callers
  BY GoalAssumption DEF Acquired, LockInv
<1> QED BY <1>1 DEF LockInv, Critical

LEMMA StartKeepsNoise ==
  ASSUME TypeInv, LockInv, NoiseInv, NEW c \in Callers,
         (c \in Starters /\ StartOfTurn(c)) \/ (c \in Goals /\ StartOfGoal(c))
  PROVE  NoiseInv'
<1>0. /\ Goals \subseteq Callers /\ Starters \subseteq Callers /\ asked \subseteq Callers
      /\ Goals \cap Starters = {}
  BY GoalAssumption DEF Callers, TypeInv, ServerType
<1>1. /\ Acquired(c) /\ pc[c] = "acquire" /\ UNCHANGED <<wire, hand, swallowed, route>>
      /\ \E l \in {"turn", "read"} : Send(c, l) /\ (l = "turn" => c \in Starters /\ route = Nobody)
                                                /\ (l = "read" => c \in Goals)
  BY DEF StartOfTurn, StartOfGoal, Acquired, reader
<1>2. PICK l \in {"turn", "read"} : Send(c, l) /\ (l = "turn" => c \in Starters /\ route = Nobody)
                                               /\ (l = "read" => c \in Goals)
  BY <1>1
<1>3. /\ UNCHANGED <<running, startedBy>> /\ asked' = asked \cup {c} /\ pc'[c] = l /\ answer'[c] = <<>>
      /\ \A d \in Callers : d # c => pc'[d] = pc[d] /\ answer'[d] = answer[d]
  BY <1>2, SentOne
<1>4. \A g \in Goals : pc[g] # "read"
  BY <1>0, <1>1, GettingIsAlone DEF LockInv, Critical, MustHold
<1>5. \A i \in DOMAIN wire : wire[i].kind = "answer" => wire[i].of \in Callers /\ wire[i].of # c
  <2>1. \A i \in DOMAIN wire : wire[i] \in Lines
    BY DEF TypeInv, ServerType
  <2>2. \A x \in Lines : x.kind = "answer" => x.of \in Callers
    BY DEF Lines, Notices, StartedLines, EndedLines, GoalLines, Answers
  <2> QED BY <1>1, <2>1, <2>2 DEF NoiseInv, Outside
<1>6. \A i \in DOMAIN wire' : wire'[i].kind = "answer" => pc'[wire'[i].of] \notin Outside
  BY <1>1, <1>3, <1>5 DEF NoiseInv
<1>7. \A d \in asked' : pc'[d] \notin Outside
  BY <1>0, <1>2, <1>3 DEF NoiseInv, Outside
<1>8. \A g \in Goals : pc'[g] = "read" => /\ answer'[g] = <<>>
                                         /\ \A i \in DOMAIN wire' : ~Permits(g, wire'[i])
  BY <1>0, <1>1, <1>3, <1>4, <1>5 DEF Permits
<1>9. route' # Nobody => QuietAfter(0)'
  <2>1. CASE l = "turn"
    BY <1>1, <1>2, <2>1
  <2>2. CASE l = "read"
    <3>1. QuietServer => QuietServer'
      BY <1>0, <1>2, <1>3, <2>2 DEF QuietServer
    <3> QED BY <1>1, <1>3, <3>1 DEF QuietAfter, NoiseInv
  <2> QED BY <2>1, <2>2
<1> QED BY <1>1, <1>3, <1>6, <1>7, <1>8, <1>9 DEF NoiseInv, TurnNotSwallowed, InHand

LEMMA KeepsNoise == TypeInv /\ LockInv /\ NoiseInv /\ [Next]_vars => NoiseInv'
<1> SUFFICES ASSUME TypeInv, LockInv, NoiseInv, [Next]_vars PROVE NoiseInv'
  OBVIOUS
<1>1. ASSUME UNCHANGED <<running, startedBy, asked, wire, hand, answer, route, pc, swallowed>> PROVE NoiseInv'
  <2>1. QuietServer' <=> QuietServer
    BY <1>1 DEF QuietServer
  <2>2. \A i : QuietAfter(i)' <=> QuietAfter(i)
    BY <1>1, <2>1 DEF QuietAfter
  <2>3. \A g : What(g)' = What(g)
    BY <1>1 DEF What
  <2> QED BY <1>1, <2>2, <2>3 DEF NoiseInv, TurnNotSwallowed, InHand
<1>2. ASSUME StartTurn \/ EndGoal \/ \E status \in {"completed", "failed"} : EndTurn(status) PROVE NoiseInv'
  <2>1. \E s : Says(s)
    BY <1>2, ServerSays
  <2>2. UNCHANGED <<reader, answer, route, state, cursor, locks, clients, swallowed>>
    BY <1>2, ServerSteps
  <2> QED BY <2>1, <2>2, SaysKeepsNoise
<1>3. ASSUME NEW c \in Callers, Serve(c) \/ \E what \in {"invalid", "error"} : Refuse(c, what) PROVE NoiseInv'
  <2>1. \E s : Says(s)
    BY <1>3, ServeSays
  <2>2. UNCHANGED <<reader, answer, route, state, cursor, locks, clients, swallowed>>
    BY <1>3, ServerSteps
  <2> QED BY <2>1, <2>2, SaysKeepsNoise
<1>4. CASE Crash
  BY <1>1, <1>4 DEF Crash, Quietly, reader, clients
<1>5. CASE Reader
  BY <1>5, ReaderKeepsNoise
<1>6. CASE ClientStep
  <2>1. ASSUME NEW c \in Callers, EnterThread(c) \/ LeaveThread(c) \/ TransportError(c) PROVE NoiseInv'
    BY <2>1, OthersMove, MoveKeepsNoise
  <2>2. ASSUME NEW c \in Starters, StartOfTurn(c) \/ TurnRefused(c) \/ AfterTurn(c) PROVE NoiseInv'
    <3>1. c \in Callers
      BY DEF Callers
    <3> QED BY <2>2, <3>1, OthersMove, MoveKeepsNoise, StartKeepsNoise
  <2>3. ASSUME NEW g \in Goals, GoalCall(g) \/ CloseStream(g) \/ CancelStream(g) PROVE NoiseInv'
    <3>1. g \in Callers
      BY DEF Callers
    <3> QED BY <2>1, <2>3, <3>1, GoalsMove, MoveKeepsNoise, StartKeepsNoise, ReserveKeepsNoise
  <2> QED BY <1>6, <2>1, <2>2, <2>3 DEF ClientStep
<1>7. CASE UNCHANGED vars
  BY <1>1, <1>7 DEF vars, server, reader, clients
<1> QED BY <1>2, <1>3, <1>4, <1>5, <1>6, <1>7, NextCases

LEMMA InitNoise == Init => NoiseInv
<1> SUFFICES ASSUME Init PROVE NoiseInv
  OBVIOUS
<1>1. DOMAIN wire = {} /\ hand = <<>> /\ asked = {} /\ swallowed = {} /\ route = Nobody
  BY DEF Init
<1>2. \A g \in Goals : pc[g] # "read"
  BY DEF Init, Callers
<1> QED BY <1>1, <1>2 DEF NoiseInv, TurnNotSwallowed, InHand

\* For any number of callers and turns: no notification of a turn somebody started with
\* turn_start reaches a goal's state, though a route takes every notification of the thread.
THEOREM TurnNotSwallowedHolds == Spec => []TurnNotSwallowed
<1>1. Spec => []LockInv
  BY InitLock, KeepsLock, PTL DEF Spec
<1>2. Spec => []TypeInv
  BY InitTyped, KeepsTypes, PTL DEF Spec
<1>3. Spec => []NoiseInv
  BY <1>1, <1>2, InitNoise, KeepsNoise, PTL DEF Spec
<1>4. NoiseInv => TurnNotSwallowed
  BY DEF NoiseInv
<1> QED BY <1>3, <1>4, PTL

=============================================================================

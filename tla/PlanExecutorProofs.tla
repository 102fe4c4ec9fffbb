------------------------- MODULE PlanExecutorProofs -------------------------
(***************************************************************************)
(* What holds of PlanExecutor for every plan length, every set of steps    *)
(* that need approval or are not critical, every session and every number  *)
(* of calls.  Each theorem adds to the property it proves the facts about  *)
(* the program counters that make it inductive.                            *)
(***************************************************************************)
EXTENDS PlanExecutor, TLAPS

\* Notation only: jumps, frames and the tuples of variables.
USE DEF Goto, BranchOnCancel, CancelGoto, SetStatus, ThreadsKeep, CancellerKeeps,
        planVars, ledger, threadVars, history

-----------------------------------------------------------------------------
(* Types.  The worker at a step is at a step of the plan. *)

LEMMA StepsDef ==
  /\ PlanLength \in Nat
  /\ Steps \subseteq Nat
  /\ \A i \in Steps : i < PlanLength /\ i + 1 \in 0..PlanLength
  /\ \A i \in 0..PlanLength : i < PlanLength => i \in Steps
  BY ConstantsAssumption DEF Steps

AtAStep ==
  pc \in {"run", "check", "rollback"} => current_step_index \in Steps

TypeInv == TypeOK /\ AtAStep

LEMMA TypeInit == Init => TypeInv
  <1> SUFFICES ASSUME Init PROVE TypeInv
    OBVIOUS
  <1>1. PerStep \in [Steps -> Nat]
    BY DEF PerStep
  <1>2. requires_approval \in [Steps -> BOOLEAN]
    BY DEF Init
  <1>3. AtAStep
    BY DEF Init, AtAStep
  <1>4. checkpoints \in Seq(Steps)
    BY DEF Init
  <1>5. current_step_index \in 0..PlanLength /\ approved \subseteq 0..PlanLength
    BY StepsDef DEF Init
  <1>6. TypeOK
    BY <1>1, <1>2, <1>4, <1>5
    DEF Init, TypeOK, Statuses, Results, WorkerPCs, CancellerPCs, AllRoles
  <1> QED
    BY <1>3, <1>6 DEF TypeInv

\* Every step of either thread and every call keeps the types.
LEMMA TypeNext == TypeInv /\ [Next]_vars => TypeInv'
  <1> SUFFICES ASSUME TypeInv, [Next]_vars
               PROVE TypeInv'
    OBVIOUS
  <1> USE StepsDef DEF TypeInv, TypeOK, AtAStep, Statuses, Results, WorkerPCs,
                       CancellerPCs
  <1>1. CASE CallExecute
    BY <1>1, ConstantsAssumption DEF CallExecute, BeginCall
  <1>2. CASE CallResume
    BY <1>2, ConstantsAssumption DEF CallResume, BeginCall
  <1>3. CASE CallApprove
    BY <1>3, ConstantsAssumption DEF CallApprove, BeginCall
  <1>4. CASE CallSkip
    BY <1>4 DEF CallSkip, BeginCall, AllRoles
  <1>5. CASE CallRollback
    BY <1>5 DEF CallRollback, RollbackTargets
  <1>6. CASE ResumeCheck
    BY <1>6 DEF ResumeCheck
  <1>7. CASE ResumeStart
    <2>1. requires_approval' \in [Steps -> BOOLEAN]
      BY <1>7 DEF ResumeStart
    <2>2. approved' \subseteq 0..PlanLength
      BY <1>7, <2>1 DEF ResumeStart
    <2> QED
      BY <1>7, <2>1, <2>2 DEF ResumeStart
  <1>8. CASE SkipStep
    <2>1. CASE ~cancel_requested /\ current_step_index < PlanLength
      <3>1. current_step_index \in Steps
        BY <2>1
      <3>2. skipped_steps' \in [Steps -> Nat]
        <4>1. skipped_steps' = [skipped_steps EXCEPT ![current_step_index] = @ + 1]
          BY <1>8, <2>1 DEF SkipStep
        <4>2. skipped_steps \in [Steps -> Nat]
          OBVIOUS
        <4> QED
          BY <3>1, <4>1, <4>2
      <3>3. current_step_index' \in 0..PlanLength
        BY <1>8, <2>1, <3>1 DEF SkipStep
      <3> QED
        BY <1>8, <2>1, <3>2, <3>3 DEF SkipStep
    <2>2. CASE ~(~cancel_requested /\ current_step_index < PlanLength)
      BY <1>8, <2>2 DEF SkipStep
    <2> QED
      BY <2>1, <2>2
  <1>9. CASE Entry
    BY <1>9 DEF Entry
  <1>10. CASE Abort
    BY <1>10 DEF Abort
  <1>11. CASE Start
    BY <1>11 DEF Start
  <1>12. CASE LoopEnter
    <2>1. current_step_index \in Steps
      BY <1>12 DEF LoopEnter
    <2>2. checkpoints' \in Seq(Steps)
      BY <1>12, <2>1 DEF LoopEnter
    <2> QED
      BY <1>12, <2>1, <2>2 DEF LoopEnter
  <1>13. CASE LoopExit
    BY <1>13 DEF LoopExit
  <1>14. CASE BreakCancelled
    BY <1>14 DEF BreakCancelled
  <1>15. CASE RunAsk
    BY <1>15 DEF RunAsk
  <1>16. CASE RouteAnswers
    <2>1. current_step_index \in Steps
      BY <1>16 DEF RouteAnswers, Route
    <2>2. delivered' \in [Steps -> Nat]
      BY <1>16, <2>1 DEF RouteAnswers, Route
    <2>3. late' \in Nat
      BY <1>16, <2>1, <2>2 DEF RouteAnswers, Route
    <2> QED
      BY <1>16, <2>1, <2>2, <2>3 DEF RouteAnswers, Route
  <1>17. CASE RouteRaises
    <2>1. current_step_index \in Steps
      BY <1>17 DEF RouteRaises
    <2>2. late' \in Nat
      BY <1>17, <2>1 DEF RouteRaises
    <2> QED
      BY <1>17, <2>1, <2>2 DEF RouteRaises
  <1>18. CASE CheckWaiting
    BY <1>18 DEF CheckWaiting
  <1>19. CASE CheckSuccess
    <2>1. current_step_index \in Steps
      BY <1>19 DEF CheckSuccess
    <2>2. completed_steps' \in [Steps -> Nat]
      BY <1>19, <2>1 DEF CheckSuccess
    <2>3. current_step_index' \in 0..PlanLength
      BY <1>19, <2>1, <2>2 DEF CheckSuccess
    <2> QED
      BY <1>19, <2>1, <2>2, <2>3 DEF CheckSuccess
  <1>20. CASE CheckFailure
    <2>1. current_step_index \in Steps
      BY <1>20 DEF CheckFailure
    <2>2. failed_steps' \in [Steps -> Nat]
      BY <1>20, <2>1 DEF CheckFailure
    <2>3. CASE current_step_index \in NonCritical
      BY <1>20, <2>3, <2>1, <2>2 DEF CheckFailure
    <2>4. CASE current_step_index \notin NonCritical
      BY <1>20, <2>4, <2>1, <2>2 DEF CheckFailure
    <2> QED
      BY <1>20, <2>1, <2>2, <2>3, <2>4 DEF CheckFailure
  <1>21. CASE RollbackLatest
    <2>1. LatestCheckpoint \in 0..PlanLength
      BY <1>21 DEF RollbackLatest, LatestCheckpoint
    <2> QED
      BY <1>21, <2>1 DEF RollbackLatest
  <1>22. CASE Final
    BY <1>22 DEF Final
  <1>23. CASE Finish
    BY <1>23 DEF Finish
  <1>24. CASE Complete
    BY <1>24 DEF Complete
  <1>25. CASE CancelFlag
    BY <1>25 DEF CancelFlag
  <1>26. CASE CancelReadRunning
    BY <1>26 DEF CancelReadRunning
  <1>27. CASE CancelReadWaiting
    BY <1>27 DEF CancelReadWaiting
  <1>28. CASE CancelWrite
    BY <1>28 DEF CancelWrite
  <1>29. CASE UNCHANGED vars
    BY <1>29 DEF vars, threadVars, planVars, ledger, history
  <1> QED
    BY <1>1, <1>2, <1>3, <1>4, <1>5, <1>6, <1>7, <1>8, <1>9, <1>10,
       <1>11, <1>12, <1>13, <1>14, <1>15, <1>16, <1>17, <1>18, <1>19, <1>20,
       <1>21, <1>22, <1>23, <1>24, <1>25, <1>26, <1>27, <1>28, <1>29
       DEF Next, Session, Worker, RunStep, CheckResult, Canceller, CancelContinues

\* No component of the state leaves its type: the index stays inside the plan
\* and every checkpoint names a step of it.
THEOREM TypeCorrect == Spec => []TypeOK
  <1>1. TypeInv => TypeOK
    BY DEF TypeInv
  <1> QED
    BY <1>1, TypeInit, TypeNext, PTL DEF Spec

-----------------------------------------------------------------------------
(* Control: what the program counter of the worker says of the state. *)

NotWaiting ==
  /\ pc \in {"loop", "run", "rollback"} => status # "WAITING_APPROVAL"
  /\ pc = "check" /\ res # "WAITING_APPROVAL" => status # "WAITING_APPROVAL"

LastIsCurrent ==
  pc \in {"run", "check", "rollback"}
    => checkpoints # <<>> /\ LatestCheckpoint = current_step_index

WorkerInv == TypeInv /\ NotWaiting /\ LastIsCurrent

LEMMA WorkerInit == Init => WorkerInv
  <1>1. Init => NotWaiting /\ LastIsCurrent
    BY DEF Init, NotWaiting, LastIsCurrent
  <1> QED
    BY <1>1, TypeInit DEF WorkerInv

\* Between the start of a call and run_step the status is never
\* WAITING_APPROVAL: the canceller does not write it.
LEMMA NotWaitingNext == TypeInv /\ NotWaiting /\ [Next]_vars => NotWaiting'
  <1> SUFFICES ASSUME TypeInv, NotWaiting, [Next]_vars
               PROVE NotWaiting'
    OBVIOUS
  <1> USE DEF NotWaiting
  <1>1. CASE CallExecute
    BY <1>1 DEF CallExecute, BeginCall
  <1>2. CASE CallResume
    BY <1>2 DEF CallResume, BeginCall
  <1>3. CASE CallApprove
    BY <1>3 DEF CallApprove, BeginCall
  <1>4. CASE CallSkip
    BY <1>4 DEF CallSkip, BeginCall
  <1>5. CASE CallRollback
    BY <1>5 DEF CallRollback, RollbackTargets
  <1>6. CASE ResumeCheck
    BY <1>6 DEF ResumeCheck
  <1>7. CASE ResumeStart
    BY <1>7 DEF ResumeStart
  <1>8. CASE SkipStep
    BY <1>8 DEF SkipStep
  <1>9. CASE Entry
    BY <1>9 DEF Entry
  <1>10. CASE Abort
    BY <1>10 DEF Abort
  <1>11. CASE Start
    BY <1>11 DEF Start
  <1>12. CASE LoopEnter
    BY <1>12 DEF LoopEnter
  <1>13. CASE LoopExit
    BY <1>13 DEF LoopExit
  <1>14. CASE BreakCancelled
    BY <1>14 DEF BreakCancelled
  <1>15. CASE RunAsk
    BY <1>15 DEF RunAsk
  <1>16. CASE RouteAnswers
    BY <1>16 DEF RouteAnswers, Route
  <1>17. CASE RouteRaises
    BY <1>17 DEF RouteRaises
  <1>18. CASE CheckWaiting
    BY <1>18 DEF CheckWaiting
  <1>19. CASE CheckSuccess
    BY <1>19 DEF CheckSuccess
  <1>20. CASE CheckFailure
    BY <1>20 DEF CheckFailure
  <1>21. CASE RollbackLatest
    BY <1>21 DEF RollbackLatest, LatestCheckpoint
  <1>22. CASE Final
    BY <1>22 DEF Final
  <1>23. CASE Finish
    BY <1>23 DEF Finish
  <1>24. CASE Complete
    BY <1>24 DEF Complete
  <1>25. CASE CancelFlag
    BY <1>25 DEF CancelFlag
  <1>26. CASE CancelReadRunning
    BY <1>26 DEF CancelReadRunning
  <1>27. CASE CancelReadWaiting
    BY <1>27 DEF CancelReadWaiting
  <1>28. CASE CancelWrite
    BY <1>28 DEF CancelWrite
  <1>29. CASE UNCHANGED vars
    BY <1>29 DEF vars, threadVars, planVars, ledger, history
  <1> QED
    BY <1>1, <1>2, <1>3, <1>4, <1>5, <1>6, <1>7, <1>8, <1>9, <1>10,
       <1>11, <1>12, <1>13, <1>14, <1>15, <1>16, <1>17, <1>18, <1>19, <1>20,
       <1>21, <1>22, <1>23, <1>24, <1>25, <1>26, <1>27, <1>28, <1>29
       DEF Next, Session, Worker, RunStep, CheckResult, Canceller, CancelContinues

\* The checkpoint saved before a step is the latest one until the step is
\* settled, so that a failure rolls back to the step itself.
LEMMA LastIsCurrentNext == TypeInv /\ LastIsCurrent /\ [Next]_vars => LastIsCurrent'
  <1> SUFFICES ASSUME TypeInv, LastIsCurrent, [Next]_vars
               PROVE LastIsCurrent'
    OBVIOUS
  <1> USE DEF LastIsCurrent, LatestCheckpoint
  <1>1. CASE CallExecute
    BY <1>1 DEF CallExecute, BeginCall
  <1>2. CASE CallResume
    BY <1>2 DEF CallResume, BeginCall
  <1>3. CASE CallApprove
    BY <1>3 DEF CallApprove, BeginCall
  <1>4. CASE CallSkip
    BY <1>4 DEF CallSkip, BeginCall
  <1>5. CASE CallRollback
    BY <1>5 DEF CallRollback, RollbackTargets
  <1>6. CASE ResumeCheck
    BY <1>6 DEF ResumeCheck
  <1>7. CASE ResumeStart
    BY <1>7 DEF ResumeStart
  <1>8. CASE SkipStep
    BY <1>8 DEF SkipStep
  <1>9. CASE Entry
    BY <1>9 DEF Entry
  <1>10. CASE Abort
    BY <1>10 DEF Abort
  <1>11. CASE Start
    BY <1>11 DEF Start
  <1>12. CASE LoopEnter
    <2>1. current_step_index \in Steps /\ checkpoints \in Seq(Steps)
      BY <1>12, StepsDef DEF LoopEnter, TypeInv, TypeOK
    <2> QED
      BY <1>12, <2>1 DEF LoopEnter
  <1>13. CASE LoopExit
    BY <1>13 DEF LoopExit
  <1>14. CASE BreakCancelled
    BY <1>14 DEF BreakCancelled
  <1>15. CASE RunAsk
    BY <1>15 DEF RunAsk
  <1>16. CASE RouteAnswers
    BY <1>16 DEF RouteAnswers, Route
  <1>17. CASE RouteRaises
    BY <1>17 DEF RouteRaises
  <1>18. CASE CheckWaiting
    BY <1>18 DEF CheckWaiting
  <1>19. CASE CheckSuccess
    BY <1>19 DEF CheckSuccess
  <1>20. CASE CheckFailure
    BY <1>20 DEF CheckFailure
  <1>21. CASE RollbackLatest
    BY <1>21 DEF RollbackLatest, LatestCheckpoint
  <1>22. CASE Final
    BY <1>22 DEF Final
  <1>23. CASE Finish
    BY <1>23 DEF Finish
  <1>24. CASE Complete
    BY <1>24 DEF Complete
  <1>25. CASE CancelFlag
    BY <1>25 DEF CancelFlag
  <1>26. CASE CancelReadRunning
    BY <1>26 DEF CancelReadRunning
  <1>27. CASE CancelReadWaiting
    BY <1>27 DEF CancelReadWaiting
  <1>28. CASE CancelWrite
    BY <1>28 DEF CancelWrite
  <1>29. CASE UNCHANGED vars
    BY <1>29 DEF vars, threadVars, planVars, ledger, history
  <1> QED
    BY <1>1, <1>2, <1>3, <1>4, <1>5, <1>6, <1>7, <1>8, <1>9, <1>10,
       <1>11, <1>12, <1>13, <1>14, <1>15, <1>16, <1>17, <1>18, <1>19, <1>20,
       <1>21, <1>22, <1>23, <1>24, <1>25, <1>26, <1>27, <1>28, <1>29
       DEF Next, Session, Worker, RunStep, CheckResult, Canceller, CancelContinues

LEMMA WorkerNext == WorkerInv /\ [Next]_vars => WorkerInv'
  BY TypeNext, NotWaitingNext, LastIsCurrentNext DEF WorkerInv

-----------------------------------------------------------------------------
(* Cancellation stops the adapter calls. *)

\* After the one late call the worker cannot be about to make another.
LateInv ==
  /\ late <= 1
  /\ late = 1 => cancel_requested /\ pc # "run"

LEMMA LateInvInit == Init => LateInv
  BY DEF Init, LateInv

\* Only LoopEnter lets a step through, and only while the flag is not set.
LEMMA LateInvNext == WorkerInv /\ LateInv /\ [Next]_vars => LateInv'
  <1> SUFFICES ASSUME WorkerInv, LateInv, [Next]_vars
               PROVE LateInv'
    OBVIOUS
  <1>0. late \in Nat
    BY DEF WorkerInv, TypeInv, TypeOK
  <1> USE <1>0 DEF LateInv
  <1>1. CASE CallExecute
    BY <1>1 DEF CallExecute, BeginCall
  <1>2. CASE CallResume
    BY <1>2 DEF CallResume, BeginCall
  <1>3. CASE CallApprove
    BY <1>3 DEF CallApprove, BeginCall
  <1>4. CASE CallSkip
    BY <1>4 DEF CallSkip, BeginCall
  <1>5. CASE CallRollback
    BY <1>5 DEF CallRollback, RollbackTargets
  <1>6. CASE ResumeCheck
    BY <1>6 DEF ResumeCheck
  <1>7. CASE ResumeStart
    BY <1>7 DEF ResumeStart
  <1>8. CASE SkipStep
    BY <1>8 DEF SkipStep
  <1>9. CASE Entry
    BY <1>9 DEF Entry
  <1>10. CASE Abort
    BY <1>10 DEF Abort
  <1>11. CASE Start
    BY <1>11 DEF Start
  <1>12. CASE LoopEnter
    BY <1>12 DEF LoopEnter
  <1>13. CASE LoopExit
    BY <1>13 DEF LoopExit
  <1>14. CASE BreakCancelled
    BY <1>14 DEF BreakCancelled
  <1>15. CASE RunAsk
    BY <1>15 DEF RunAsk
  <1>16. CASE RouteAnswers
    BY <1>16 DEF RouteAnswers, Route
  <1>17. CASE RouteRaises
    BY <1>17 DEF RouteRaises
  <1>18. CASE CheckWaiting
    BY <1>18 DEF CheckWaiting
  <1>19. CASE CheckSuccess
    BY <1>19 DEF CheckSuccess
  <1>20. CASE CheckFailure
    BY <1>20 DEF CheckFailure
  <1>21. CASE RollbackLatest
    BY <1>21 DEF RollbackLatest, LatestCheckpoint
  <1>22. CASE Final
    BY <1>22 DEF Final
  <1>23. CASE Finish
    BY <1>23 DEF Finish
  <1>24. CASE Complete
    BY <1>24 DEF Complete
  <1>25. CASE CancelFlag
    BY <1>25 DEF CancelFlag
  <1>26. CASE CancelReadRunning
    BY <1>26 DEF CancelReadRunning
  <1>27. CASE CancelReadWaiting
    BY <1>27 DEF CancelReadWaiting
  <1>28. CASE CancelWrite
    BY <1>28 DEF CancelWrite
  <1>29. CASE UNCHANGED vars
    BY <1>29 DEF vars, threadVars, planVars, ledger, history
  <1> QED
    BY <1>1, <1>2, <1>3, <1>4, <1>5, <1>6, <1>7, <1>8, <1>9, <1>10,
       <1>11, <1>12, <1>13, <1>14, <1>15, <1>16, <1>17, <1>18, <1>19, <1>20,
       <1>21, <1>22, <1>23, <1>24, <1>25, <1>26, <1>27, <1>28, <1>29
       DEF Next, Session, Worker, RunStep, CheckResult, Canceller, CancelContinues

\* At most one adapter call starts after request_cancel has set the flag
\* (executor.py 37-48), whatever the interleaving.
THEOREM LateDispatch == Spec => []LateDispatchBound
  <1>1. LateInv => LateDispatchBound
    BY StepsDef DEF LateInv, LateDispatchBound
  <1> QED
    BY <1>1, WorkerInit, WorkerNext, LateInvInit, LateInvNext, PTL DEF Spec

-----------------------------------------------------------------------------
(* Calls made after the cancellation. *)

\* A call that begins after the flag was set stays before the loop.
FrozenInv ==
  begun_cancelled => cancel_requested /\ pc \in {"idle", "resume", "skip", "entry", "abort"}

LEMMA FrozenInvInit == Init => FrozenInv
  BY DEF Init, FrozenInv

\* A call that begins cancelled only ever reaches an early return.
LEMMA FrozenInvNext == WorkerInv /\ FrozenInv /\ [Next]_vars => FrozenInv'
  <1> SUFFICES ASSUME WorkerInv, FrozenInv, [Next]_vars
               PROVE FrozenInv'
    OBVIOUS
  <1>0. begun_cancelled \in BOOLEAN /\ cancel_requested \in BOOLEAN
    BY DEF WorkerInv, TypeInv, TypeOK
  <1> USE <1>0 DEF FrozenInv
  <1>1. CASE CallExecute
    BY <1>1 DEF CallExecute, BeginCall
  <1>2. CASE CallResume
    BY <1>2 DEF CallResume, BeginCall
  <1>3. CASE CallApprove
    BY <1>3 DEF CallApprove, BeginCall
  <1>4. CASE CallSkip
    BY <1>4 DEF CallSkip, BeginCall
  <1>5. CASE CallRollback
    BY <1>5 DEF CallRollback, RollbackTargets
  <1>6. CASE ResumeCheck
    BY <1>6 DEF ResumeCheck
  <1>7. CASE ResumeStart
    BY <1>7 DEF ResumeStart
  <1>8. CASE SkipStep
    BY <1>8 DEF SkipStep
  <1>9. CASE Entry
    BY <1>9 DEF Entry
  <1>10. CASE Abort
    BY <1>10 DEF Abort
  <1>11. CASE Start
    BY <1>11 DEF Start
  <1>12. CASE LoopEnter
    BY <1>12 DEF LoopEnter
  <1>13. CASE LoopExit
    BY <1>13 DEF LoopExit
  <1>14. CASE BreakCancelled
    BY <1>14 DEF BreakCancelled
  <1>15. CASE RunAsk
    BY <1>15 DEF RunAsk
  <1>16. CASE RouteAnswers
    BY <1>16 DEF RouteAnswers, Route
  <1>17. CASE RouteRaises
    BY <1>17 DEF RouteRaises
  <1>18. CASE CheckWaiting
    BY <1>18 DEF CheckWaiting
  <1>19. CASE CheckSuccess
    BY <1>19 DEF CheckSuccess
  <1>20. CASE CheckFailure
    BY <1>20 DEF CheckFailure
  <1>21. CASE RollbackLatest
    BY <1>21 DEF RollbackLatest, LatestCheckpoint
  <1>22. CASE Final
    BY <1>22 DEF Final
  <1>23. CASE Finish
    BY <1>23 DEF Finish
  <1>24. CASE Complete
    BY <1>24 DEF Complete
  <1>25. CASE CancelFlag
    BY <1>25 DEF CancelFlag
  <1>26. CASE CancelReadRunning
    BY <1>26 DEF CancelReadRunning
  <1>27. CASE CancelReadWaiting
    BY <1>27 DEF CancelReadWaiting
  <1>28. CASE CancelWrite
    BY <1>28 DEF CancelWrite
  <1>29. CASE UNCHANGED vars
    BY <1>29 DEF vars, threadVars, planVars, ledger, history
  <1> QED
    BY <1>1, <1>2, <1>3, <1>4, <1>5, <1>6, <1>7, <1>8, <1>9, <1>10,
       <1>11, <1>12, <1>13, <1>14, <1>15, <1>16, <1>17, <1>18, <1>19, <1>20,
       <1>21, <1>22, <1>23, <1>24, <1>25, <1>26, <1>27, <1>28, <1>29
       DEF Next, Session, Worker, RunStep, CheckResult, Canceller, CancelContinues

\* What such a call can still do leaves the records and the adapters alone.
LEMMA FrozenStep ==
  ASSUME FrozenInv, begun_cancelled, [Next]_vars
  PROVE  UNCHANGED <<ledger, delivered, routed>>
  <1>0. cancel_requested /\ pc \in {"idle", "resume", "skip", "entry", "abort"}
    BY DEF FrozenInv
  <1> USE <1>0
  <1>1. CASE CallExecute
    BY <1>1 DEF CallExecute, BeginCall
  <1>2. CASE CallResume
    BY <1>2 DEF CallResume, BeginCall
  <1>3. CASE CallApprove
    BY <1>3 DEF CallApprove, BeginCall
  <1>4. CASE CallSkip
    BY <1>4 DEF CallSkip, BeginCall
  <1>5. CASE CallRollback
    BY <1>5 DEF CallRollback, RollbackTargets
  <1>6. CASE ResumeCheck
    BY <1>6 DEF ResumeCheck
  <1>7. CASE ResumeStart
    BY <1>7 DEF ResumeStart
  <1>8. CASE SkipStep
    BY <1>8 DEF SkipStep
  <1>9. CASE Entry
    BY <1>9 DEF Entry
  <1>10. CASE Abort
    BY <1>10 DEF Abort
  <1>11. CASE Start
    BY <1>11 DEF Start
  <1>12. CASE LoopEnter
    BY <1>12 DEF LoopEnter
  <1>13. CASE LoopExit
    BY <1>13 DEF LoopExit
  <1>14. CASE BreakCancelled
    BY <1>14 DEF BreakCancelled
  <1>15. CASE RunAsk
    BY <1>15 DEF RunAsk
  <1>16. CASE RouteAnswers
    BY <1>16 DEF RouteAnswers, Route
  <1>17. CASE RouteRaises
    BY <1>17 DEF RouteRaises
  <1>18. CASE CheckWaiting
    BY <1>18 DEF CheckWaiting
  <1>19. CASE CheckSuccess
    BY <1>19 DEF CheckSuccess
  <1>20. CASE CheckFailure
    BY <1>20 DEF CheckFailure
  <1>21. CASE RollbackLatest
    BY <1>21 DEF RollbackLatest, LatestCheckpoint
  <1>22. CASE Final
    BY <1>22 DEF Final
  <1>23. CASE Finish
    BY <1>23 DEF Finish
  <1>24. CASE Complete
    BY <1>24 DEF Complete
  <1>25. CASE CancelFlag
    BY <1>25 DEF CancelFlag
  <1>26. CASE CancelReadRunning
    BY <1>26 DEF CancelReadRunning
  <1>27. CASE CancelReadWaiting
    BY <1>27 DEF CancelReadWaiting
  <1>28. CASE CancelWrite
    BY <1>28 DEF CancelWrite
  <1>29. CASE UNCHANGED vars
    BY <1>29 DEF vars, threadVars, planVars, ledger, history
  <1> QED
    BY <1>1, <1>2, <1>3, <1>4, <1>5, <1>6, <1>7, <1>8, <1>9, <1>10,
       <1>11, <1>12, <1>13, <1>14, <1>15, <1>16, <1>17, <1>18, <1>19, <1>20,
       <1>21, <1>22, <1>23, <1>24, <1>25, <1>26, <1>27, <1>28, <1>29
       DEF Next, Session, Worker, RunStep, CheckResult, Canceller, CancelContinues

\* A call that begins after the cancellation was requested leaves the records
\* of the steps and the adapters as they are (executor.py 28-30, 85-87, 98-100).
THEOREM CancelFreezes == Spec => CancelFreezesLedger
  <1>1. FrozenInv /\ [Next]_vars
          => [begun_cancelled => UNCHANGED <<ledger, delivered, routed>>]_vars
    BY FrozenStep
  <1> QED
    BY <1>1, WorkerInit, WorkerNext, FrozenInvInit, FrozenInvNext, PTL DEF Spec, CancelFreezesLedger

-----------------------------------------------------------------------------
(* A settled cancellation. *)

\* A worker that passed its last look at the flag before the flag was set
\* leaves a RUNNING or WAITING_APPROVAL status to a canceller not yet done.
SettlingInv ==
  cancel_requested =>
    /\ pc \in {"run", "finish", "idle"} /\ status = "RUNNING"
         => cpc \in {"readRunning", "writeCancelling"}
    /\ pc \in {"finish", "idle"} /\ status = "WAITING_APPROVAL" => cpc # "idle"

LEMMA SettlingInvInit == Init => SettlingInv
  BY DEF Init, SettlingInv

\* The worker's last look at the flag sends it to abort; the status it leaves
\* when it does not look again is one request_cancel itself still overwrites.
LEMMA SettlingInvNext == WorkerInv /\ SettlingInv /\ [Next]_vars => SettlingInv'
  <1> SUFFICES ASSUME WorkerInv, SettlingInv, [Next]_vars
               PROVE SettlingInv'
    OBVIOUS
  <1> USE DEF SettlingInv
  <1>1. CASE CallExecute
    BY <1>1 DEF CallExecute, BeginCall
  <1>2. CASE CallResume
    BY <1>2 DEF CallResume, BeginCall
  <1>3. CASE CallApprove
    BY <1>3 DEF CallApprove, BeginCall
  <1>4. CASE CallSkip
    BY <1>4 DEF CallSkip, BeginCall
  <1>5. CASE CallRollback
    BY <1>5 DEF CallRollback, RollbackTargets
  <1>6. CASE ResumeCheck
    BY <1>6 DEF ResumeCheck
  <1>7. CASE ResumeStart
    BY <1>7 DEF ResumeStart
  <1>8. CASE SkipStep
    BY <1>8 DEF SkipStep
  <1>9. CASE Entry
    BY <1>9 DEF Entry
  <1>10. CASE Abort
    BY <1>10 DEF Abort
  <1>11. CASE Start
    BY <1>11 DEF Start
  <1>12. CASE LoopEnter
    BY <1>12 DEF LoopEnter
  <1>13. CASE LoopExit
    BY <1>13 DEF LoopExit
  <1>14. CASE BreakCancelled
    BY <1>14 DEF BreakCancelled
  <1>15. CASE RunAsk
    BY <1>15 DEF RunAsk
  <1>16. CASE RouteAnswers
    BY <1>16 DEF RouteAnswers, Route
  <1>17. CASE RouteRaises
    BY <1>17 DEF RouteRaises, WorkerInv, NotWaiting
  <1>18. CASE CheckWaiting
    BY <1>18 DEF CheckWaiting
  <1>19. CASE CheckSuccess
    BY <1>19 DEF CheckSuccess
  <1>20. CASE CheckFailure
    BY <1>20 DEF CheckFailure
  <1>21. CASE RollbackLatest
    BY <1>21 DEF RollbackLatest, LatestCheckpoint
  <1>22. CASE Final
    BY <1>22 DEF Final
  <1>23. CASE Finish
    BY <1>23 DEF Finish
  <1>24. CASE Complete
    BY <1>24 DEF Complete
  <1>25. CASE CancelFlag
    BY <1>25 DEF CancelFlag
  <1>26. CASE CancelReadRunning
    BY <1>26 DEF CancelReadRunning
  <1>27. CASE CancelReadWaiting
    BY <1>27 DEF CancelReadWaiting
  <1>28. CASE CancelWrite
    BY <1>28 DEF CancelWrite
  <1>29. CASE UNCHANGED vars
    BY <1>29 DEF vars, threadVars, planVars, ledger, history
  <1> QED
    BY <1>1, <1>2, <1>3, <1>4, <1>5, <1>6, <1>7, <1>8, <1>9, <1>10,
       <1>11, <1>12, <1>13, <1>14, <1>15, <1>16, <1>17, <1>18, <1>19, <1>20,
       <1>21, <1>22, <1>23, <1>24, <1>25, <1>26, <1>27, <1>28, <1>29
       DEF Next, Session, Worker, RunStep, CheckResult, Canceller, CancelContinues

\* Once a cancellation is requested and both threads have returned, nothing is
\* left RUNNING or WAITING_APPROVAL, even when the adapter raised
\* (executor.py 67-68, 75-81).
THEOREM CancelSettles == Spec => []CancelLeavesNothingLive
  <1>1. SettlingInv => CancelLeavesNothingLive
    BY StepsDef DEF SettlingInv, CancelLeavesNothingLive
  <1> QED
    BY <1>1, WorkerInit, WorkerNext, SettlingInvInit, SettlingInvNext, PTL DEF Spec

-----------------------------------------------------------------------------
(* Progress: what the index has passed is accounted for. *)

\* The steps before the index, and before every checkpoint the plan may be
\* rolled back to, have a record that lets the plan pass them.
ProgressInv ==
  /\ \A i \in Steps : i < current_step_index => Accounted(i)
  /\ \A k \in DOMAIN checkpoints : \A i \in Steps : i < checkpoints[k] => Accounted(i)
  /\ pc = "complete" => current_step_index >= PlanLength
  /\ status = "COMPLETED" => \A i \in Steps : Accounted(i)

LEMMA ProgressInvInit == Init => ProgressInv
  BY StepsDef DEF Init, ProgressInv

\* A step is passed only when a record of it is made; a rollback goes to a
\* checkpoint, and everything before a checkpoint was accounted for when it
\* was saved.
LEMMA ProgressInvNext == WorkerInv /\ ProgressInv /\ [Next]_vars => ProgressInv'
  <1> SUFFICES ASSUME WorkerInv, ProgressInv, [Next]_vars
               PROVE ProgressInv'
    OBVIOUS
  <1>types. /\ current_step_index \in 0..PlanLength
            /\ completed_steps \in [Steps -> Nat]
            /\ skipped_steps \in [Steps -> Nat]
            /\ failed_steps \in [Steps -> Nat]
            /\ checkpoints \in Seq(Steps)
    BY DEF WorkerInv, TypeInv, TypeOK
  <1> USE StepsDef DEF ProgressInv
  <1>1. CASE CallExecute
    BY <1>1 DEF CallExecute, BeginCall, Accounted
  <1>2. CASE CallResume
    BY <1>2 DEF CallResume, BeginCall, Accounted
  <1>3. CASE CallApprove
    BY <1>3 DEF CallApprove, BeginCall, Accounted
  <1>4. CASE CallSkip
    BY <1>4 DEF CallSkip, BeginCall, Accounted
  <1>5. CASE CallRollback
    BY <1>5, <1>types DEF CallRollback, RollbackTargets, Accounted
  <1>6. CASE ResumeCheck
    BY <1>6 DEF ResumeCheck, Accounted
  <1>7. CASE ResumeStart
    BY <1>7 DEF ResumeStart, Accounted
  <1>8. CASE SkipStep
    <2>1. CASE ~cancel_requested /\ current_step_index < PlanLength
      <3>1. current_step_index \in Steps
        BY <1>types, <2>1
      <3>2. \A i \in Steps : skipped_steps'[i] = IF i = current_step_index THEN skipped_steps[i] + 1
                                                                       ELSE skipped_steps[i]
        BY <1>8, <1>types, <2>1, <3>1 DEF SkipStep
      <3>3. completed_steps' = completed_steps /\ failed_steps' = failed_steps
        BY <1>8 DEF SkipStep
      <3>4. /\ \A i \in Steps : Accounted(i) => Accounted(i)'
            /\ \A i \in Steps : i = current_step_index => Accounted(i)'
        BY <1>types, <3>2, <3>3 DEF Accounted
      <3> QED
        BY <1>8, <1>types, <2>1, <3>1, <3>4 DEF SkipStep
    <2>2. CASE ~(~cancel_requested /\ current_step_index < PlanLength)
      BY <1>8, <2>2 DEF SkipStep, Accounted
    <2> QED
      BY <2>1, <2>2
  <1>9. CASE Entry
    BY <1>9 DEF Entry, Accounted
  <1>10. CASE Abort
    BY <1>10 DEF Abort, Accounted
  <1>11. CASE Start
    BY <1>11 DEF Start, Accounted
  <1>12. CASE LoopEnter
    BY <1>12, <1>types DEF LoopEnter, Accounted
  <1>13. CASE LoopExit
    BY <1>13 DEF LoopExit, Accounted
  <1>14. CASE BreakCancelled
    BY <1>14 DEF BreakCancelled, Accounted
  <1>15. CASE RunAsk
    BY <1>15 DEF RunAsk, Accounted
  <1>16. CASE RouteAnswers
    BY <1>16 DEF RouteAnswers, Route, Accounted
  <1>17. CASE RouteRaises
    BY <1>17 DEF RouteRaises, Accounted
  <1>18. CASE CheckWaiting
    BY <1>18 DEF CheckWaiting, Accounted
  <1>19. CASE CheckSuccess
    <2>1. current_step_index \in Steps
      BY <1>19 DEF CheckSuccess, WorkerInv, TypeInv, AtAStep
    <2>2. \A i \in Steps : completed_steps'[i] = IF i = current_step_index THEN completed_steps[i] + 1
                                                                       ELSE completed_steps[i]
      BY <1>19, <1>types, <2>1 DEF CheckSuccess
    <2>3. /\ \A i \in Steps : Accounted(i) => Accounted(i)'
          /\ \A i \in Steps : i = current_step_index => Accounted(i)'
      BY <1>19, <1>types, <2>1, <2>2 DEF CheckSuccess, Accounted
    <2> QED
      BY <1>19, <1>types, <2>1, <2>3 DEF CheckSuccess
  <1>20. CASE CheckFailure
    <2>1. current_step_index \in Steps
      BY <1>20 DEF CheckFailure, WorkerInv, TypeInv, AtAStep
    <2>2. \A i \in Steps : failed_steps'[i] = IF i = current_step_index THEN failed_steps[i] + 1
                                                                    ELSE failed_steps[i]
      BY <1>20, <1>types, <2>1 DEF CheckFailure
    <2>3. /\ \A i \in Steps : Accounted(i) => Accounted(i)'
          /\ \A i \in Steps : i = current_step_index /\ i \in NonCritical => Accounted(i)'
      BY <1>20, <1>types, <2>1, <2>2 DEF CheckFailure, Accounted
    <2> QED
      BY <1>20, <1>types, <2>1, <2>3 DEF CheckFailure
  <1>21. CASE RollbackLatest
    BY <1>21 DEF RollbackLatest, WorkerInv, LastIsCurrent, Accounted
  <1>22. CASE Final
    BY <1>22 DEF Final, Accounted
  <1>23. CASE Finish
    BY <1>23 DEF Finish, Accounted
  <1>24. CASE Complete
    <2>1. \A i \in Steps : i < current_step_index
      BY <1>24, <1>types DEF Complete
    <2> QED
      BY <1>24, <2>1 DEF Complete, Accounted
  <1>25. CASE CancelFlag
    BY <1>25 DEF CancelFlag, Accounted
  <1>26. CASE CancelReadRunning
    BY <1>26 DEF CancelReadRunning, Accounted
  <1>27. CASE CancelReadWaiting
    BY <1>27 DEF CancelReadWaiting, Accounted
  <1>28. CASE CancelWrite
    BY <1>28 DEF CancelWrite, Accounted
  <1>29. CASE UNCHANGED vars
    BY <1>29 DEF vars, threadVars, planVars, ledger, history, Accounted
  <1> QED
    BY <1>1, <1>2, <1>3, <1>4, <1>5, <1>6, <1>7, <1>8, <1>9, <1>10,
       <1>11, <1>12, <1>13, <1>14, <1>15, <1>16, <1>17, <1>18, <1>19, <1>20,
       <1>21, <1>22, <1>23, <1>24, <1>25, <1>26, <1>27, <1>28, <1>29
       DEF Next, Session, Worker, RunStep, CheckResult, Canceller, CancelContinues

\* The index never passes a step nothing accounts for (executor.py 53-63,
\* 101-107, rollback.py 16-28), and a plan reported COMPLETED accounts for all
\* of its steps, in every session with every interleaving of cancellations.
THEOREM ProgressKept == Spec => []ProgressAccounted
  <1>1. ProgressInv => ProgressAccounted
    BY StepsDef DEF ProgressInv, ProgressAccounted
  <1> QED
    BY <1>1, WorkerInit, WorkerNext, ProgressInvInit, ProgressInvNext, PTL DEF Spec

-----------------------------------------------------------------------------
(* No effect is repeated. *)

\* A step at or beyond the index has not taken effect since the last rollback
\* of the session.
OnceInv ==
  /\ NoRepeatedEffect
  /\ \A i \in Steps :
       i > current_step_index \/ (i = current_step_index /\ ~(pc = "check" /\ res = "SUCCESS"))
         => delivered[i] <= rewinds

LEMMA OnceInvInit == Init => OnceInv
  BY StepsDef DEF Init, OnceInv, NoRepeatedEffect, PerStep

\* A success moves the index past its step, and only the session's rollback
\* moves it back.
LEMMA OnceInvNext == WorkerInv /\ OnceInv /\ [Next]_vars => OnceInv'
  <1> SUFFICES ASSUME WorkerInv, OnceInv, [Next]_vars
               PROVE OnceInv'
    OBVIOUS
  <1>types. /\ current_step_index \in 0..PlanLength
            /\ delivered \in [Steps -> Nat]
            /\ rewinds \in Nat
    BY DEF WorkerInv, TypeInv, TypeOK
  <1> USE StepsDef DEF OnceInv, NoRepeatedEffect
  <1>1. CASE CallExecute
    BY <1>1 DEF CallExecute, BeginCall
  <1>2. CASE CallResume
    BY <1>2 DEF CallResume, BeginCall
  <1>3. CASE CallApprove
    BY <1>3 DEF CallApprove, BeginCall
  <1>4. CASE CallSkip
    BY <1>4 DEF CallSkip, BeginCall
  <1>5. CASE CallRollback
    BY <1>5, <1>types DEF CallRollback
  <1>6. CASE ResumeCheck
    BY <1>6 DEF ResumeCheck
  <1>7. CASE ResumeStart
    BY <1>7 DEF ResumeStart
  <1>8. CASE SkipStep
    <2>1. CASE ~cancel_requested /\ current_step_index < PlanLength
      BY <1>8, <1>types, <2>1 DEF SkipStep
    <2>2. CASE ~(~cancel_requested /\ current_step_index < PlanLength)
      BY <1>8, <2>2 DEF SkipStep
    <2> QED
      BY <2>1, <2>2
  <1>9. CASE Entry
    BY <1>9 DEF Entry
  <1>10. CASE Abort
    BY <1>10 DEF Abort
  <1>11. CASE Start
    BY <1>11 DEF Start
  <1>12. CASE LoopEnter
    BY <1>12 DEF LoopEnter
  <1>13. CASE LoopExit
    BY <1>13 DEF LoopExit
  <1>14. CASE BreakCancelled
    BY <1>14 DEF BreakCancelled
  <1>15. CASE RunAsk
    BY <1>15 DEF RunAsk
  <1>16. CASE RouteAnswers
    <2> PICK answer \in {"SUCCESS", "FAILED"} : Route(answer)
      BY <1>16 DEF RouteAnswers
    <2>1. current_step_index \in Steps
      BY DEF Route, WorkerInv, TypeInv, AtAStep
    <2>2. \A i \in Steps :
            delivered'[i] = IF answer = "SUCCESS" /\ i = current_step_index THEN delivered[i] + 1
                                                                           ELSE delivered[i]
      BY <1>types, <2>1 DEF Route
    <2> QED
      BY <1>types, <2>1, <2>2 DEF Route
  <1>17. CASE RouteRaises
    BY <1>17 DEF RouteRaises
  <1>18. CASE CheckWaiting
    BY <1>18 DEF CheckWaiting, WorkerInv, NotWaiting
  <1>19. CASE CheckSuccess
    BY <1>19, <1>types DEF CheckSuccess
  <1>20. CASE CheckFailure
    BY <1>20, <1>types DEF CheckFailure
  <1>21. CASE RollbackLatest
    BY <1>21, <1>types DEF RollbackLatest, WorkerInv, LastIsCurrent
  <1>22. CASE Final
    BY <1>22 DEF Final
  <1>23. CASE Finish
    BY <1>23 DEF Finish
  <1>24. CASE Complete
    BY <1>24 DEF Complete
  <1>25. CASE CancelFlag
    BY <1>25 DEF CancelFlag
  <1>26. CASE CancelReadRunning
    BY <1>26 DEF CancelReadRunning
  <1>27. CASE CancelReadWaiting
    BY <1>27 DEF CancelReadWaiting
  <1>28. CASE CancelWrite
    BY <1>28 DEF CancelWrite
  <1>29. CASE UNCHANGED vars
    BY <1>29 DEF vars, threadVars, planVars, ledger, history
  <1> QED
    BY <1>1, <1>2, <1>3, <1>4, <1>5, <1>6, <1>7, <1>8, <1>9, <1>10,
       <1>11, <1>12, <1>13, <1>14, <1>15, <1>16, <1>17, <1>18, <1>19, <1>20,
       <1>21, <1>22, <1>23, <1>24, <1>25, <1>26, <1>27, <1>28, <1>29
       DEF Next, Session, Worker, RunStep, CheckResult, Canceller, CancelContinues

\* An adapter reports success for a step at most once more than the session
\* rolled the plan back: no failure, approval, skip, exception, resume or
\* cancellation repeats an effect.
THEOREM EffectsOnce == Spec => []NoRepeatedEffect
  <1>1. OnceInv => NoRepeatedEffect
    BY StepsDef DEF OnceInv
  <1> QED
    BY <1>1, WorkerInit, WorkerNext, OnceInvInit, OnceInvNext, PTL DEF Spec

-----------------------------------------------------------------------------
(* The step an owner is asked about. *)

\* From the moment run_step asks until the next call, the step asked about is
\* the step at the index.
PendingInv ==
  pc \in {"check", "final", "finish", "idle"} /\ status = "WAITING_APPROVAL"
    => /\ current_step_index \in Steps
       /\ requires_approval[current_step_index]
       /\ delivered[current_step_index] <= rewinds
       /\ LatestCheckpoint = current_step_index

LEMMA PendingInvInit == Init => PendingInv
  BY DEF Init, PendingInv

\* run_step asks about the step at the index; nothing moves the index or
\* clears the requirement while the plan waits.
LEMMA PendingInvNext == WorkerInv /\ OnceInv /\ PendingInv /\ [Next]_vars => PendingInv'
  <1> SUFFICES ASSUME WorkerInv, OnceInv, PendingInv, [Next]_vars
               PROVE PendingInv'
    OBVIOUS
  <1> USE DEF PendingInv
  <1>1. CASE CallExecute
    BY <1>1 DEF CallExecute, BeginCall, LatestCheckpoint
  <1>2. CASE CallResume
    BY <1>2 DEF CallResume, BeginCall, LatestCheckpoint
  <1>3. CASE CallApprove
    BY <1>3 DEF CallApprove, BeginCall, LatestCheckpoint
  <1>4. CASE CallSkip
    BY <1>4 DEF CallSkip, BeginCall, LatestCheckpoint
  <1>5. CASE CallRollback
    BY <1>5 DEF CallRollback, RollbackTargets, LatestCheckpoint
  <1>6. CASE ResumeCheck
    BY <1>6 DEF ResumeCheck, LatestCheckpoint
  <1>7. CASE ResumeStart
    BY <1>7 DEF ResumeStart, LatestCheckpoint
  <1>8. CASE SkipStep
    BY <1>8 DEF SkipStep, LatestCheckpoint
  <1>9. CASE Entry
    BY <1>9 DEF Entry, LatestCheckpoint
  <1>10. CASE Abort
    BY <1>10 DEF Abort, LatestCheckpoint
  <1>11. CASE Start
    BY <1>11 DEF Start, LatestCheckpoint
  <1>12. CASE LoopEnter
    BY <1>12 DEF LoopEnter
  <1>13. CASE LoopExit
    BY <1>13 DEF LoopExit, WorkerInv, NotWaiting
  <1>14. CASE BreakCancelled
    BY <1>14 DEF BreakCancelled, LatestCheckpoint
  <1>15. CASE RunAsk
    <2>1. current_step_index \in Steps
      BY <1>15 DEF RunAsk, WorkerInv, TypeInv, AtAStep
    <2>2. delivered[current_step_index] <= rewinds
      BY <1>15, <2>1 DEF RunAsk, OnceInv
    <2> QED
      BY <1>15, <2>1, <2>2 DEF RunAsk, MustAsk, WorkerInv, LastIsCurrent, LatestCheckpoint
  <1>16. CASE RouteAnswers
    BY <1>16 DEF RouteAnswers, Route, WorkerInv, NotWaiting
  <1>17. CASE RouteRaises
    BY <1>17 DEF RouteRaises, WorkerInv, NotWaiting
  <1>18. CASE CheckWaiting
    BY <1>18 DEF CheckWaiting, LatestCheckpoint
  <1>19. CASE CheckSuccess
    BY <1>19 DEF CheckSuccess, LatestCheckpoint
  <1>20. CASE CheckFailure
    BY <1>20 DEF CheckFailure, LatestCheckpoint
  <1>21. CASE RollbackLatest
    BY <1>21 DEF RollbackLatest, LatestCheckpoint
  <1>22. CASE Final
    BY <1>22 DEF Final, LatestCheckpoint
  <1>23. CASE Finish
    BY <1>23 DEF Finish, LatestCheckpoint
  <1>24. CASE Complete
    BY <1>24 DEF Complete, LatestCheckpoint
  <1>25. CASE CancelFlag
    BY <1>25 DEF CancelFlag, LatestCheckpoint
  <1>26. CASE CancelReadRunning
    BY <1>26 DEF CancelReadRunning, LatestCheckpoint
  <1>27. CASE CancelReadWaiting
    BY <1>27 DEF CancelReadWaiting, LatestCheckpoint
  <1>28. CASE CancelWrite
    BY <1>28 DEF CancelWrite, LatestCheckpoint
  <1>29. CASE UNCHANGED vars
    BY <1>29 DEF vars, threadVars, planVars, ledger, history, LatestCheckpoint
  <1> QED
    BY <1>1, <1>2, <1>3, <1>4, <1>5, <1>6, <1>7, <1>8, <1>9, <1>10,
       <1>11, <1>12, <1>13, <1>14, <1>15, <1>16, <1>17, <1>18, <1>19, <1>20,
       <1>21, <1>22, <1>23, <1>24, <1>25, <1>26, <1>27, <1>28, <1>29
       DEF Next, Session, Worker, RunStep, CheckResult, Canceller, CancelContinues

\* While the session looks at WAITING_APPROVAL, resume_execution would approve
\* the very step the owner was asked about, and that step has not run since the
\* plan last reached it (step_runner.py 18-20, executor.py 50-51, 88-93).
THEOREM WaitingPending == Spec => []WaitingStepIsPending
  <1>1. PendingInv => WaitingStepIsPending
    BY StepsDef DEF PendingInv, WaitingStepIsPending
  <1> QED
    BY <1>1, WorkerInit, WorkerNext, OnceInvInit, OnceInvNext, PendingInvInit, PendingInvNext, PTL DEF Spec

-----------------------------------------------------------------------------
(* Every effect is recorded. *)

LEMMA EffectsRecordedInit == Init => EffectsRecorded
  BY DEF Init, EffectsRecorded, PerStep

\* The answer of the adapter is recorded by the step that reads it, which a
\* cancellation cannot keep from being taken.
LEMMA EffectsRecordedNext == WorkerInv /\ EffectsRecorded /\ [Next]_vars => EffectsRecorded'
  <1> SUFFICES ASSUME WorkerInv, EffectsRecorded, [Next]_vars
               PROVE EffectsRecorded'
    OBVIOUS
  <1>types. /\ completed_steps \in [Steps -> Nat]
            /\ delivered \in [Steps -> Nat]
    BY DEF WorkerInv, TypeInv, TypeOK
  <1> USE DEF EffectsRecorded
  <1>1. CASE CallExecute
    BY <1>1 DEF CallExecute, BeginCall
  <1>2. CASE CallResume
    BY <1>2 DEF CallResume, BeginCall
  <1>3. CASE CallApprove
    BY <1>3 DEF CallApprove, BeginCall
  <1>4. CASE CallSkip
    BY <1>4 DEF CallSkip, BeginCall
  <1>5. CASE CallRollback
    BY <1>5 DEF CallRollback, RollbackTargets
  <1>6. CASE ResumeCheck
    BY <1>6 DEF ResumeCheck
  <1>7. CASE ResumeStart
    BY <1>7 DEF ResumeStart
  <1>8. CASE SkipStep
    BY <1>8 DEF SkipStep
  <1>9. CASE Entry
    BY <1>9 DEF Entry
  <1>10. CASE Abort
    BY <1>10 DEF Abort
  <1>11. CASE Start
    BY <1>11 DEF Start
  <1>12. CASE LoopEnter
    BY <1>12 DEF LoopEnter
  <1>13. CASE LoopExit
    BY <1>13 DEF LoopExit
  <1>14. CASE BreakCancelled
    BY <1>14 DEF BreakCancelled
  <1>15. CASE RunAsk
    BY <1>15 DEF RunAsk
  <1>16. CASE RouteAnswers
    <2> PICK answer \in {"SUCCESS", "FAILED"} : Route(answer)
      BY <1>16 DEF RouteAnswers
    <2>1. current_step_index \in Steps
      BY DEF Route, WorkerInv, TypeInv, AtAStep
    <2>2. \A i \in Steps :
            delivered'[i] = IF answer = "SUCCESS" /\ i = current_step_index THEN delivered[i] + 1
                                                                           ELSE delivered[i]
      BY <1>types, <2>1 DEF Route
    <2> QED
      BY <1>types, <2>1, <2>2 DEF Route
  <1>17. CASE RouteRaises
    BY <1>17 DEF RouteRaises
  <1>18. CASE CheckWaiting
    BY <1>18 DEF CheckWaiting, WorkerInv, NotWaiting
  <1>19. CASE CheckSuccess
    <2>1. current_step_index \in Steps
      BY <1>19 DEF CheckSuccess, WorkerInv, TypeInv, AtAStep
    <2>2. \A i \in Steps : completed_steps'[i] = IF i = current_step_index THEN completed_steps[i] + 1
                                                                       ELSE completed_steps[i]
      BY <1>19, <1>types, <2>1 DEF CheckSuccess
    <2> QED
      BY <1>19, <1>types, <2>2 DEF CheckSuccess
  <1>20. CASE CheckFailure
    BY <1>20 DEF CheckFailure
  <1>21. CASE RollbackLatest
    BY <1>21 DEF RollbackLatest, LatestCheckpoint
  <1>22. CASE Final
    BY <1>22 DEF Final
  <1>23. CASE Finish
    BY <1>23 DEF Finish
  <1>24. CASE Complete
    BY <1>24 DEF Complete
  <1>25. CASE CancelFlag
    BY <1>25 DEF CancelFlag
  <1>26. CASE CancelReadRunning
    BY <1>26 DEF CancelReadRunning
  <1>27. CASE CancelReadWaiting
    BY <1>27 DEF CancelReadWaiting
  <1>28. CASE CancelWrite
    BY <1>28 DEF CancelWrite
  <1>29. CASE UNCHANGED vars
    BY <1>29 DEF vars, threadVars, planVars, ledger, history
  <1> QED
    BY <1>1, <1>2, <1>3, <1>4, <1>5, <1>6, <1>7, <1>8, <1>9, <1>10,
       <1>11, <1>12, <1>13, <1>14, <1>15, <1>16, <1>17, <1>18, <1>19, <1>20,
       <1>21, <1>22, <1>23, <1>24, <1>25, <1>26, <1>27, <1>28, <1>29
       DEF Next, Session, Worker, RunStep, CheckResult, Canceller, CancelContinues

\* Each success an adapter reported has exactly one record in completed_steps,
\* or is the answer the worker holds: cancelling never loses the record of an
\* effect (executor.py 48-55).
THEOREM NoLostEffect == Spec => []EffectsRecorded
  BY WorkerInit, WorkerNext, EffectsRecordedInit, EffectsRecordedNext, PTL DEF Spec

-----------------------------------------------------------------------------
(* The owner's gate. *)

\* Every call comes from the owner, a plan is resumed only where it waits for
\* approval, and no step is skipped.
OwnersSession == Roles \subseteq {"owner"} /\ Ops \cap {"resume", "skip"} = {}

\* What requires approval still does, or has been approved.
StillGated == \A i \in NeedsApproval : requires_approval[i] \/ i \in approved

\* A resume that finds the status overwritten by a cancellation drops a
\* requirement nobody approved, but then the flag keeps the step from running.
GateInv ==
  OwnersSession =>
    /\ ApprovedBeforeRouted
    /\ StillGated \/ (cancel_requested /\ pc # "run")
    /\ pc # "idle" => role = "owner" /\ pc # "skip"
    /\ pc \in {"resume", "approve"} => status = "WAITING_APPROVAL" \/ cancel_requested
    /\ cpc # "idle" => cancel_requested

LEMMA GateInvInit == Init => GateInv
  BY ConstantsAssumption DEF Init, GateInv, ApprovedBeforeRouted, StillGated, OwnersSession

\* Resuming a plan that waits approves exactly the step whose requirement it
\* drops; a step that still requires approval makes run_step ask an owner.
LEMMA GateInvNext == WorkerInv /\ GateInv /\ [Next]_vars => GateInv'
  <1> SUFFICES ASSUME WorkerInv, GateInv, [Next]_vars
               PROVE GateInv'
    OBVIOUS
  <1> SUFFICES ASSUME OwnersSession PROVE GateInv'
    BY DEF GateInv
  <1>types. /\ current_step_index \in 0..PlanLength
            /\ requires_approval \in [Steps -> BOOLEAN]
            /\ NeedsApproval \subseteq Steps
    BY ConstantsAssumption DEF WorkerInv, TypeInv, TypeOK
  <1> USE DEF GateInv, OwnersSession, ApprovedBeforeRouted, StillGated
  <1>1. CASE CallExecute
    BY <1>1 DEF CallExecute, BeginCall
  <1>2. CASE CallResume
    BY <1>2 DEF CallResume, BeginCall
  <1>3. CASE CallApprove
    BY <1>3 DEF CallApprove, BeginCall
  <1>4. CASE CallSkip
    BY <1>4 DEF CallSkip, BeginCall
  <1>5. CASE CallRollback
    BY <1>5 DEF CallRollback, RollbackTargets
  <1>6. CASE ResumeCheck
    BY <1>6 DEF ResumeCheck
  <1>7. CASE ResumeStart
    <2>1. CASE status = "WAITING_APPROVAL"
      <3>1. \A i \in NeedsApproval : requires_approval[i] \/ i \in approved
              => requires_approval'[i] \/ i \in approved'
        BY <1>7, <2>1, <1>types DEF ResumeStart
      <3> QED
        BY <1>7, <2>1, <3>1 DEF ResumeStart
    <2>2. CASE status # "WAITING_APPROVAL"
      BY <1>7, <2>2 DEF ResumeStart
    <2> QED
      BY <2>1, <2>2
  <1>8. CASE SkipStep
    BY <1>8 DEF SkipStep
  <1>9. CASE Entry
    BY <1>9 DEF Entry
  <1>10. CASE Abort
    BY <1>10 DEF Abort
  <1>11. CASE Start
    BY <1>11 DEF Start
  <1>12. CASE LoopEnter
    BY <1>12 DEF LoopEnter
  <1>13. CASE LoopExit
    BY <1>13 DEF LoopExit
  <1>14. CASE BreakCancelled
    BY <1>14 DEF BreakCancelled
  <1>15. CASE RunAsk
    BY <1>15 DEF RunAsk
  <1>16. CASE RouteAnswers
    BY <1>16, <1>types DEF RouteAnswers, Route, MustAsk
  <1>17. CASE RouteRaises
    BY <1>17, <1>types DEF RouteRaises, MustAsk
  <1>18. CASE CheckWaiting
    BY <1>18 DEF CheckWaiting
  <1>19. CASE CheckSuccess
    BY <1>19 DEF CheckSuccess
  <1>20. CASE CheckFailure
    BY <1>20 DEF CheckFailure
  <1>21. CASE RollbackLatest
    BY <1>21 DEF RollbackLatest, LatestCheckpoint
  <1>22. CASE Final
    BY <1>22 DEF Final
  <1>23. CASE Finish
    BY <1>23 DEF Finish
  <1>24. CASE Complete
    BY <1>24 DEF Complete
  <1>25. CASE CancelFlag
    BY <1>25 DEF CancelFlag
  <1>26. CASE CancelReadRunning
    BY <1>26 DEF CancelReadRunning
  <1>27. CASE CancelReadWaiting
    BY <1>27 DEF CancelReadWaiting
  <1>28. CASE CancelWrite
    BY <1>28 DEF CancelWrite
  <1>29. CASE UNCHANGED vars
    BY <1>29 DEF vars, threadVars, planVars, ledger, history
  <1> QED
    BY <1>1, <1>2, <1>3, <1>4, <1>5, <1>6, <1>7, <1>8, <1>9, <1>10,
       <1>11, <1>12, <1>13, <1>14, <1>15, <1>16, <1>17, <1>18, <1>19, <1>20,
       <1>21, <1>22, <1>23, <1>24, <1>25, <1>26, <1>27, <1>28, <1>29
       DEF Next, Session, Worker, RunStep, CheckResult, Canceller, CancelContinues

\* In a session of the owner's that resumes only plans that wait and skips no
\* step, a step made to require approval never reaches an adapter before the
\* owner was asked about it and resumed the plan (step_runner.py 17-20,
\* executor.py 88-93).
THEOREM OwnerGate ==
  ASSUME Roles \subseteq {"owner"}, Ops \cap {"resume", "skip"} = {}
  PROVE  Spec => []ApprovedBeforeRouted
  <1>1. GateInv => ApprovedBeforeRouted
    BY DEF GateInv, OwnersSession
  <1> QED
    BY <1>1, WorkerInit, WorkerNext, GateInvInit, GateInvNext, PTL DEF Spec

-----------------------------------------------------------------------------
(* The refinement.  Every step of the executor is a step of PlanProgress   *)
(* or changes nothing PlanProgress can see, for every plan and every       *)
(* session.  That admitted steps come back is a fairness question and is   *)
(* left to TLC.                                                            *)

\* What PlanProgress sees of the ledger.
Settled == {i \in Steps : Accounted(i)}

\* A step that writes no record settles nothing.
LEMMA Unsettled == UNCHANGED ledger => Settled' = Settled
  BY DEF Settled, Accounted

LEMMA RefinesInit == Init => Progress!Init
  BY StepsDef DEF Init, Progress!Init, Accounted, PerStep

\* LoopEnter admits; a success, a harmless failure and a skip settle; a
\* pause, a critical failure and an exception abandon; a rollback restores.
LEMMA RefinesNext ==
  WorkerInv /\ ProgressInv /\ [Next]_vars => [Progress!Next]_(Progress!vars)
  <1> SUFFICES ASSUME WorkerInv, ProgressInv, [Next]_vars
               PROVE  Progress!Next \/ UNCHANGED Progress!vars
    OBVIOUS
  <1>types. /\ current_step_index \in 0..PlanLength
            /\ completed_steps \in [Steps -> Nat]
            /\ skipped_steps \in [Steps -> Nat]
            /\ failed_steps \in [Steps -> Nat]
            /\ checkpoints \in Seq(Steps)
            /\ cancel_requested \in BOOLEAN
            /\ pc \in {"run", "check", "rollback"} => current_step_index \in Steps
    BY DEF WorkerInv, TypeInv, TypeOK, AtAStep
  <1>1. CASE CallExecute
    BY <1>1, Unsettled DEF CallExecute, BeginCall, Progress!vars, Settled
  <1>2. CASE CallResume
    BY <1>2, Unsettled DEF CallResume, BeginCall, Progress!vars, Settled
  <1>3. CASE CallApprove
    BY <1>3, Unsettled DEF CallApprove, BeginCall, Progress!vars, Settled
  <1>4. CASE CallSkip
    BY <1>4, Unsettled DEF CallSkip, BeginCall, Progress!vars, Settled
  <1>5. CASE CallRollback
    <2>1. current_step_index' \in 0..PlanLength
      BY <1>5, <1>types, StepsDef DEF CallRollback, RollbackTargets
    <2>2. \A i \in Steps : i < current_step_index' => Accounted(i)
      BY <1>5, <1>types, StepsDef DEF CallRollback, RollbackTargets, ProgressInv
    <2>3. pc = "idle" /\ UNCHANGED <<ledger, pc, cancel_requested>>
      BY <1>5 DEF CallRollback
    <2>4. Progress!Restore
      BY <2>1, <2>2, <2>3, Unsettled DEF Progress!Restore, Settled, Steps
    <2> QED
      BY <2>4 DEF Progress!Next
  <1>6. CASE ResumeCheck
    BY <1>6, Unsettled DEF ResumeCheck, Progress!vars, Settled
  <1>7. CASE ResumeStart
    BY <1>7, Unsettled DEF ResumeStart, Progress!vars, Settled
  <1>8. CASE SkipStep
    <2>1. CASE ~cancel_requested /\ current_step_index < PlanLength
      <3>1. current_step_index \in Steps
        BY <1>types, <2>1, StepsDef
      <3>2. \A i \in Steps : skipped_steps'[i] = IF i = current_step_index THEN skipped_steps[i] + 1
                                                                       ELSE skipped_steps[i]
        BY <1>8, <1>types, <2>1, <3>1 DEF SkipStep
      <3>3. UNCHANGED <<completed_steps, failed_steps>>
        BY <1>8 DEF SkipStep
      <3>4. Settled' = Settled \cup {current_step_index}
        <4>1. \A i \in Steps : Accounted(i)' <=> Accounted(i) \/ i = current_step_index
          BY <1>types, <3>1, <3>2, <3>3 DEF Accounted
        <4> QED
          BY <3>1, <4>1 DEF Settled
      <3>5. Progress!Skip
        BY <1>8, <2>1, <3>4 DEF SkipStep, Progress!Skip, Settled
      <3> QED
        BY <3>5 DEF Progress!Next
    <2>2. CASE ~(~cancel_requested /\ current_step_index < PlanLength)
      BY <1>8, <2>2, Unsettled DEF SkipStep, Progress!vars, Settled
    <2> QED
      BY <2>1, <2>2
  <1>9. CASE Entry
    BY <1>9, Unsettled DEF Entry, Progress!vars, Settled
  <1>10. CASE Abort
    BY <1>10, Unsettled DEF Abort, Progress!vars, Settled
  <1>11. CASE Start
    BY <1>11, Unsettled DEF Start, Progress!vars, Settled
  <1>12. CASE LoopEnter
    <2>1. CASE cancel_requested
      BY <1>12, <2>1, Unsettled DEF LoopEnter, Progress!vars, Settled
    <2>2. CASE ~cancel_requested
      <3>1. Progress!Admit
        BY <1>12, <2>2, Unsettled DEF LoopEnter, Progress!Admit, Settled
      <3> QED
        BY <3>1 DEF Progress!Next
    <2> QED
      BY <2>1, <2>2
  <1>13. CASE LoopExit
    BY <1>13, Unsettled DEF LoopExit, Progress!vars, Settled
  <1>14. CASE BreakCancelled
    BY <1>14, Unsettled DEF BreakCancelled, Progress!vars, Settled
  <1>15. CASE RunAsk
    BY <1>15, Unsettled DEF RunAsk, Progress!vars, Settled
  <1>16. CASE RouteAnswers
    BY <1>16, Unsettled DEF RouteAnswers, Route, Progress!vars, Settled
  <1>17. CASE RouteRaises
    <2>1. Progress!Abandon
      BY <1>17, Unsettled DEF RouteRaises, Progress!Abandon, Settled
    <2> QED
      BY <2>1 DEF Progress!Next
  <1>18. CASE CheckWaiting
    <2>1. Progress!Abandon
      BY <1>18, Unsettled DEF CheckWaiting, Progress!Abandon, Settled
    <2> QED
      BY <2>1 DEF Progress!Next
  <1>19. CASE CheckSuccess
    <2>1. current_step_index \in Steps
      BY <1>19, <1>types DEF CheckSuccess
    <2>2. \A i \in Steps : completed_steps'[i] = IF i = current_step_index THEN completed_steps[i] + 1
                                                                       ELSE completed_steps[i]
      BY <1>19, <1>types, <2>1 DEF CheckSuccess
    <2>3. Settled' = Settled \cup {current_step_index}
      BY <1>19, <1>types, <2>1, <2>2 DEF CheckSuccess, Settled, Accounted
    <2>4. Progress!Settle
      BY <1>19, <2>3 DEF CheckSuccess, Progress!Settle, Settled
    <2> QED
      BY <2>4 DEF Progress!Next
  <1>20. CASE CheckFailure
    <2>1. current_step_index \in Steps
      BY <1>20, <1>types DEF CheckFailure
    <2>2. \A i \in Steps : failed_steps'[i] = IF i = current_step_index THEN failed_steps[i] + 1
                                                                    ELSE failed_steps[i]
      BY <1>20, <1>types, <2>1 DEF CheckFailure
    <2>3. CASE current_step_index \in NonCritical
      <3>1. Settled' = Settled \cup {current_step_index}
        BY <1>20, <1>types, <2>1, <2>2, <2>3 DEF CheckFailure, Settled, Accounted
      <3>2. Progress!Settle
        BY <1>20, <2>3, <3>1 DEF CheckFailure, Progress!Settle, Settled
      <3> QED
        BY <3>2 DEF Progress!Next
    <2>4. CASE current_step_index \notin NonCritical
      <3>1. Settled' = Settled
        BY <1>20, <1>types, <2>1, <2>2, <2>4 DEF CheckFailure, Settled, Accounted
      <3>2. Progress!Abandon
        BY <1>20, <2>4, <3>1 DEF CheckFailure, Progress!Abandon, Settled
      <3> QED
        BY <3>2 DEF Progress!Next
    <2> QED
      BY <2>3, <2>4
  <1>21. CASE RollbackLatest
    BY <1>21, Unsettled DEF RollbackLatest, WorkerInv, LastIsCurrent, Progress!vars, Settled
  <1>22. CASE Final
    BY <1>22, Unsettled DEF Final, Progress!vars, Settled
  <1>23. CASE Finish
    BY <1>23, Unsettled DEF Finish, Progress!vars, Settled
  <1>24. CASE Complete
    BY <1>24, Unsettled DEF Complete, Progress!vars, Settled
  <1>25. CASE CancelFlag
    <2>1. Progress!Cancel
      BY <1>25, Unsettled DEF CancelFlag, Progress!Cancel, Settled
    <2> QED
      BY <2>1 DEF Progress!Next
  <1>26. CASE CancelReadRunning
    BY <1>26, Unsettled DEF CancelReadRunning, Progress!vars, Settled
  <1>27. CASE CancelReadWaiting
    BY <1>27, Unsettled DEF CancelReadWaiting, Progress!vars, Settled
  <1>28. CASE CancelWrite
    BY <1>28, Unsettled DEF CancelWrite, Progress!vars, Settled
  <1>29. CASE UNCHANGED vars
    BY <1>29, Unsettled DEF vars, Progress!vars, Settled
  <1> QED
    BY <1>1, <1>2, <1>3, <1>4, <1>5, <1>6, <1>7, <1>8, <1>9, <1>10,
       <1>11, <1>12, <1>13, <1>14, <1>15, <1>16, <1>17, <1>18, <1>19, <1>20,
       <1>21, <1>22, <1>23, <1>24, <1>25, <1>26, <1>27, <1>28, <1>29
       DEF Next, Session, Worker, RunStep, CheckResult, Canceller, CancelContinues

\* The executor admits, settles, abandons and restores steps as PlanProgress
\* allows: nothing is admitted after a cancellation, a step is passed only when
\* it settles, and a rollback never lands beyond what has been settled.
THEOREM RefinesProgress == Spec => Progress!SafeSpec
  <1> QED
    BY WorkerInit, WorkerNext, ProgressInvInit, ProgressInvNext, RefinesInit, RefinesNext,
       PTL DEF Spec, Progress!SafeSpec

=============================================================================

---------------------------- MODULE PlanExecutor ----------------------------
(***************************************************************************)
(* backend/runtime/plan_executor: the executor that runs the steps of a    *)
(* plan, its pause for the owner's approval, resume, skip and rollback,    *)
(* and the cancellation another thread may request at any moment.          *)
(*                                                                         *)
(* Two threads share one ExecutorState without a lock:                     *)
(*   - the worker runs the calls of the session (execute_plan,             *)
(*     resume_execution, skip_step, RollbackHandler.rollback) one at a     *)
(*     time; pc is where it is in executor.py;                             *)
(*   - the canceller runs request_cancel; cpc is where it is.              *)
(* A step of the model is the code between two accesses to cancel_requested*)
(* or status, the two fields both threads use.  The other fields belong to *)
(* the worker alone.                                                       *)
(***************************************************************************)
EXTENDS Naturals, Sequences

CONSTANTS
  PlanLength,     \* len(plan.steps)
  NeedsApproval,  \* steps whose params hold requires_approval when the plan is made
  NonCritical,    \* steps with continue_on_failure
  Roles,          \* the roles execute_plan and resume_execution are called with
  Ops,            \* the calls the session makes, see AllOps
  MaxCalls        \* bound of the model: the number of calls the session makes

Steps == 0 .. PlanLength - 1

(***************************************************************************)
(* "resume" is resume_execution called whatever the status; "approve" is   *)
(* the use its comment describes, called when the status is                *)
(* WAITING_APPROVAL.                                                       *)
(***************************************************************************)
AllOps == {"execute", "resume", "approve", "skip", "rollback"}
AllRoles == {"owner", "customer"}

ASSUME ConstantsAssumption ==
  /\ PlanLength \in Nat
  /\ NeedsApproval \subseteq Steps
  /\ NonCritical \subseteq Steps
  /\ Roles \subseteq AllRoles
  /\ Ops \subseteq AllOps
  /\ MaxCalls \in Nat

VARIABLES
  \* the ExecutorState; the two lists of step records are kept as the number
  \* of records per step, and skip records are counted apart
  status,
  current_step_index,
  completed_steps,
  skipped_steps,
  failed_steps,
  checkpoints,        \* step_index of each checkpoint, oldest first
  cancel_requested,
  \* step.params["requires_approval"] of each step of the plan object
  requires_approval,
  \* the worker: where it is, the role of its call, the result of run_step
  pc, role, res,
  \* the canceller
  cpc,
  \* bound
  calls,
  \* history: adapter calls that reported success, per step; steps handed to
  \* an adapter at least once; adapter calls made after the cancel flag was
  \* set; steps approved by a resume that answered WAITING_APPROVAL; rewinds
  \* the session asked for; whether the current call began after the flag
  delivered, routed, late, approved, rewinds, begun_cancelled

planVars == <<status, current_step_index, completed_steps, skipped_steps,
              failed_steps, checkpoints, cancel_requested, requires_approval>>
ledger == <<completed_steps, skipped_steps, failed_steps>>
threadVars == <<pc, role, res, cpc, calls>>
history == <<delivered, routed, late, approved, rewinds, begun_cancelled>>
vars == <<planVars, threadVars, history>>

Statuses == {"IDLE", "RUNNING", "PAUSED", "WAITING_APPROVAL", "COMPLETED",
             "FAILED", "ROLLED_BACK", "CANCELLING", "CANCELLED"}
Results == {"SUCCESS", "FAILED", "WAITING_APPROVAL"}
WorkerPCs == {"idle", "resume", "approve", "skip", "entry", "abort", "start", "loop",
              "break", "run", "check", "rollback", "final", "finish", "complete"}
CancellerPCs == {"idle", "readRunning", "readWaiting", "writeCancelling", "writeCancelled"}

PerStep == [i \in Steps |-> 0]

Init ==
  /\ status = "IDLE"
  /\ current_step_index = 0
  /\ completed_steps = PerStep
  /\ skipped_steps = PerStep
  /\ failed_steps = PerStep
  /\ checkpoints = <<>>
  /\ cancel_requested = FALSE
  /\ requires_approval = [i \in Steps |-> i \in NeedsApproval]
  /\ pc = "idle"
  /\ role = "customer"
  /\ res = "SUCCESS"
  /\ cpc = "idle"
  /\ calls = 0
  /\ delivered = PerStep
  /\ routed = {}
  /\ late = 0
  /\ approved = {}
  /\ rewinds = 0
  /\ begun_cancelled = FALSE

-----------------------------------------------------------------------------
(* The session: it makes its next call when the previous one has returned. *)

\* Variant: a rollback resumes after the checkpointed step.
RollbackPastTargets == {checkpoints[k] + 1 : k \in DOMAIN checkpoints} \cup {0}

\* checkpoint_id is None or unknown: the latest checkpoint, else step 0;
\* otherwise the step_index of the checkpoint named.
RollbackTargets ==
  IF checkpoints = <<>>
    THEN {0}
    ELSE {checkpoints[k] : k \in DOMAIN checkpoints}

\* Variant: a failure rolls back to the oldest checkpoint.
OldestCheckpoint ==
  IF checkpoints = <<>> THEN 0 ELSE checkpoints[1]

LatestCheckpoint ==
  IF checkpoints = <<>> THEN 0 ELSE checkpoints[Len(checkpoints)]

BeginCall(op, r, at) ==
  /\ pc = "idle"
  /\ op \in Ops
  /\ calls < MaxCalls
  /\ calls' = calls + 1
  /\ role' = r
  /\ pc' = at
  /\ begun_cancelled' = cancel_requested
  /\ UNCHANGED <<planVars, res, cpc, delivered, routed, late, approved, rewinds>>

CallExecute == \E r \in Roles : BeginCall("execute", r, "entry")
CallResume == \E r \in Roles : BeginCall("resume", r, "resume")
CallApprove == status = "WAITING_APPROVAL" /\ \E r \in Roles : BeginCall("approve", r, "resume")
\* skip_step passes no role on to execute_plan, whose default is "customer".
CallSkip == BeginCall("skip", "customer", "skip")

\* RollbackHandler.rollback(state, target_checkpoint_id) from outside.
CallRollback ==
  /\ pc = "idle"
  /\ "rollback" \in Ops
  /\ calls < MaxCalls
  /\ calls' = calls + 1
  /\ current_step_index' \in RollbackTargets
  /\ status' = "ROLLED_BACK"
  /\ rewinds' = rewinds + 1
  /\ UNCHANGED <<completed_steps, skipped_steps, failed_steps, checkpoints, cancel_requested,
                 requires_approval, pc, role, res, cpc,
                 delivered, routed, late, approved, begun_cancelled>>

-----------------------------------------------------------------------------
(* The worker. *)

Goto(from, to) == pc = from /\ pc' = to

\* A read of cancel_requested that sends the worker to one of two places.
BranchOnCancel(from, ifCancelled, otherwise) ==
  Goto(from, IF cancel_requested THEN ifCancelled ELSE otherwise)

SetStatus(s) ==
  /\ status' = s
  /\ UNCHANGED <<current_step_index, ledger, checkpoints, cancel_requested, requires_approval>>

ThreadsKeep == UNCHANGED <<role, res, cpc, calls>>

ResumeCheck ==
  /\ BranchOnCancel("resume", "abort", "approve")
  /\ UNCHANGED planVars /\ ThreadsKeep /\ UNCHANGED history

\* Variant: one approval covers the whole plan.
ResumeApprovesAll ==
  /\ Goto("approve", "entry")
  /\ status' = "RUNNING"
  /\ requires_approval' = [i \in Steps |-> FALSE]
  /\ approved' = IF status = "WAITING_APPROVAL" THEN approved \cup {current_step_index}
                                                ELSE approved
  /\ UNCHANGED <<current_step_index, ledger, checkpoints, cancel_requested,
                 delivered, routed, late, rewinds, begun_cancelled>>
  /\ ThreadsKeep

\* The step at the index loses its approval requirement, whatever the status was.
ResumeStart ==
  /\ Goto("approve", "entry")
  /\ status' = "RUNNING"
  /\ requires_approval' = [i \in Steps |-> requires_approval[i] /\ i # current_step_index]
  /\ approved' = IF status = "WAITING_APPROVAL" THEN approved \cup {current_step_index}
                                                ELSE approved
  /\ UNCHANGED <<current_step_index, ledger, checkpoints, cancel_requested,
                 delivered, routed, late, rewinds, begun_cancelled>>
  /\ ThreadsKeep

\* Variant: skip_step without its cancellation check.
SkipStepUnchecked ==
  /\ Goto("skip", "entry")
  /\ IF current_step_index < PlanLength
       THEN /\ skipped_steps' = [skipped_steps EXCEPT ![current_step_index] = @ + 1]
            /\ current_step_index' = current_step_index + 1
       ELSE UNCHANGED <<skipped_steps, current_step_index>>
  /\ UNCHANGED <<status, completed_steps, failed_steps, checkpoints, cancel_requested,
                 requires_approval, history>>
  /\ ThreadsKeep

SkipStep ==
  /\ BranchOnCancel("skip", "abort", "entry")
  /\ IF ~cancel_requested /\ current_step_index < PlanLength
       THEN /\ skipped_steps' = [skipped_steps EXCEPT ![current_step_index] = @ + 1]
            /\ current_step_index' = current_step_index + 1
       ELSE UNCHANGED <<skipped_steps, current_step_index>>
  /\ UNCHANGED <<status, completed_steps, failed_steps, checkpoints, cancel_requested,
                 requires_approval, history>>
  /\ ThreadsKeep

Entry ==
  /\ BranchOnCancel("entry", "abort", "start")
  /\ UNCHANGED planVars /\ ThreadsKeep /\ UNCHANGED history

\* Every early or final return that finds the flag set writes CANCELLED.
Abort ==
  /\ Goto("abort", "idle")
  /\ SetStatus("CANCELLED") /\ ThreadsKeep /\ UNCHANGED history

Start ==
  /\ Goto("start", "loop")
  /\ SetStatus("RUNNING") /\ ThreadsKeep /\ UNCHANGED history

\* Variant: the loop goes on without looking at the flag.
LoopEnterUnchecked ==
  /\ current_step_index < PlanLength
  /\ Goto("loop", "run")
  /\ checkpoints' = Append(checkpoints, current_step_index)
  /\ UNCHANGED <<status, current_step_index, ledger, cancel_requested, requires_approval, history>>
  /\ ThreadsKeep

\* Variant: the loop bound is off by one.
LoopEnterOnePastEnd ==
  /\ current_step_index <= PlanLength
  /\ BranchOnCancel("loop", "break", "run")
  /\ checkpoints' = IF cancel_requested THEN checkpoints
                                        ELSE Append(checkpoints, current_step_index)
  /\ UNCHANGED <<status, current_step_index, ledger, cancel_requested, requires_approval, history>>
  /\ ThreadsKeep

\* while current_step_index < len(steps): the cancel check, and the
\* checkpoint saved before the step.
LoopEnter ==
  /\ current_step_index < PlanLength
  /\ BranchOnCancel("loop", "break", "run")
  /\ checkpoints' = IF cancel_requested THEN checkpoints
                                        ELSE Append(checkpoints, current_step_index)
  /\ UNCHANGED <<status, current_step_index, ledger, cancel_requested, requires_approval, history>>
  /\ ThreadsKeep

LoopExit ==
  /\ current_step_index >= PlanLength
  /\ Goto("loop", "final")
  /\ UNCHANGED planVars /\ ThreadsKeep /\ UNCHANGED history

\* Variant: continue where the code breaks.
ContinueCancelled ==
  /\ Goto("break", "loop")
  /\ SetStatus("CANCELLED") /\ ThreadsKeep /\ UNCHANGED history

BreakCancelled ==
  /\ Goto("break", "final")
  /\ SetStatus("CANCELLED") /\ ThreadsKeep /\ UNCHANGED history

\* StepRunner.run_step asks only an owner for approval.
MustAsk == requires_approval[current_step_index] /\ role = "owner"

RunAsk ==
  /\ Goto("run", "check")
  /\ MustAsk
  /\ res' = "WAITING_APPROVAL"
  /\ SetStatus("WAITING_APPROVAL")
  /\ UNCHANGED <<role, cpc, calls, history>>

\* The adapter answers with success or failure ...
Route(answer) ==
  /\ Goto("run", "check")
  /\ ~MustAsk
  /\ res' = answer
  /\ routed' = routed \cup {current_step_index}
  /\ delivered' = IF answer = "SUCCESS"
                    THEN [delivered EXCEPT ![current_step_index] = @ + 1]
                    ELSE delivered
  /\ late' = IF cancel_requested THEN late + 1 ELSE late
  /\ UNCHANGED <<planVars, role, cpc, calls, approved, rewinds, begun_cancelled>>

\* ... or raises, which nothing in run_step or execute_plan catches.
RouteRaises ==
  /\ Goto("run", "idle")
  /\ ~MustAsk
  /\ routed' = routed \cup {current_step_index}
  /\ late' = IF cancel_requested THEN late + 1 ELSE late
  /\ UNCHANGED <<planVars, delivered, approved, rewinds, begun_cancelled>>
  /\ ThreadsKeep

\* Variant: the worker breaks on any status but RUNNING, a cancellation included.
CheckNotRunning ==
  /\ status # "RUNNING"
  /\ Goto("check", "final")
  /\ UNCHANGED planVars /\ ThreadsKeep /\ UNCHANGED history

\* Variant: the index advances before the plan pauses.
CheckWaitingAdvances ==
  /\ status = "WAITING_APPROVAL"
  /\ Goto("check", "final")
  /\ current_step_index' = current_step_index + 1
  /\ UNCHANGED <<status, ledger, checkpoints, cancel_requested, requires_approval, history>>
  /\ ThreadsKeep

CheckWaiting ==
  /\ status = "WAITING_APPROVAL"
  /\ Goto("check", "final")
  /\ UNCHANGED planVars /\ ThreadsKeep /\ UNCHANGED history

CheckSuccess ==
  /\ status # "WAITING_APPROVAL"
  /\ res = "SUCCESS"
  /\ Goto("check", "loop")
  /\ completed_steps' = [completed_steps EXCEPT ![current_step_index] = @ + 1]
  /\ current_step_index' = current_step_index + 1
  /\ UNCHANGED <<status, skipped_steps, failed_steps, checkpoints, cancel_requested,
                 requires_approval, history>>
  /\ ThreadsKeep

\* Variant: every failure is treated as harmless.
CheckFailureAdvances ==
  /\ pc = "check"
  /\ status # "WAITING_APPROVAL"
  /\ res # "SUCCESS"
  /\ failed_steps' = [failed_steps EXCEPT ![current_step_index] = @ + 1]
  /\ Goto("check", "loop")
  /\ current_step_index' = current_step_index + 1
  /\ UNCHANGED <<status, completed_steps, skipped_steps, checkpoints, cancel_requested,
                 requires_approval, history>>
  /\ ThreadsKeep

\* Anything but SUCCESS is a failure: the WAITING_APPROVAL result too, when
\* the canceller has overwritten the status in the meantime.
CheckFailure ==
  /\ pc = "check"
  /\ status # "WAITING_APPROVAL"
  /\ res # "SUCCESS"
  /\ failed_steps' = [failed_steps EXCEPT ![current_step_index] = @ + 1]
  /\ IF current_step_index \in NonCritical
       THEN Goto("check", "loop") /\ current_step_index' = current_step_index + 1
       ELSE Goto("check", "rollback") /\ UNCHANGED current_step_index
  /\ UNCHANGED <<status, completed_steps, skipped_steps, checkpoints, cancel_requested,
                 requires_approval, history>>
  /\ ThreadsKeep

RollbackLatest ==
  /\ Goto("rollback", "final")
  /\ current_step_index' = LatestCheckpoint
  /\ status' = "ROLLED_BACK"
  /\ UNCHANGED <<ledger, checkpoints, cancel_requested, requires_approval, history>>
  /\ ThreadsKeep

\* Variant: no cancellation check after the loop.
FinalUnchecked ==
  /\ Goto("final", "finish")
  /\ UNCHANGED planVars /\ ThreadsKeep /\ UNCHANGED history

Final ==
  /\ BranchOnCancel("final", "abort", "finish")
  /\ UNCHANGED planVars /\ ThreadsKeep /\ UNCHANGED history

Finish ==
  /\ Goto("finish", IF current_step_index >= PlanLength /\ status = "RUNNING"
                      THEN "complete" ELSE "idle")
  /\ UNCHANGED planVars /\ ThreadsKeep /\ UNCHANGED history

Complete ==
  /\ Goto("complete", "idle")
  /\ SetStatus("COMPLETED") /\ ThreadsKeep /\ UNCHANGED history

-----------------------------------------------------------------------------
(* The canceller: request_cancel, which may be called again. *)

CancelGoto(from, to) == cpc = from /\ cpc' = to

CancellerKeeps == UNCHANGED <<pc, role, res, calls, history>>

CancelFlag ==
  /\ CancelGoto("idle", "readRunning")
  /\ cancel_requested' = TRUE
  /\ UNCHANGED <<status, current_step_index, ledger, checkpoints, requires_approval>>
  /\ CancellerKeeps

CancelReadRunning ==
  /\ CancelGoto("readRunning", IF status = "RUNNING" THEN "writeCancelling" ELSE "readWaiting")
  /\ UNCHANGED planVars /\ CancellerKeeps

CancelReadWaiting ==
  /\ CancelGoto("readWaiting", IF status \in {"WAITING_APPROVAL", "PAUSED"}
                                 THEN "writeCancelled" ELSE "idle")
  /\ UNCHANGED planVars /\ CancellerKeeps

CancelWrite ==
  /\ \/ CancelGoto("writeCancelling", "idle") /\ SetStatus("CANCELLING")
     \/ CancelGoto("writeCancelled", "idle") /\ SetStatus("CANCELLED")
  /\ CancellerKeeps

-----------------------------------------------------------------------------

Session == CallExecute \/ CallResume \/ CallApprove \/ CallSkip \/ CallRollback

RouteAnswers == \E answer \in {"SUCCESS", "FAILED"} : Route(answer)

RunStep == RunAsk \/ RouteAnswers \/ RouteRaises

CheckResult == CheckWaiting \/ CheckSuccess \/ CheckFailure

Worker ==
  \/ ResumeCheck \/ ResumeStart \/ SkipStep \/ Entry \/ Abort \/ Start
  \/ LoopEnter \/ LoopExit \/ BreakCancelled
  \/ RunStep \/ CheckResult \/ RollbackLatest \/ Final \/ Finish \/ Complete

CancelContinues == CancelReadRunning \/ CancelReadWaiting \/ CancelWrite

Canceller == CancelFlag \/ CancelContinues

Next == Session \/ Worker \/ Canceller

\* The two threads keep running once they are in a call; nothing obliges the
\* session to call, or anybody to cancel.
Fairness == WF_vars(Worker) /\ WF_vars(CancelContinues)

Spec == Init /\ [][Next]_vars /\ Fairness

-----------------------------------------------------------------------------
(* Properties. *)

TypeOK ==
  /\ status \in Statuses
  /\ current_step_index \in 0..PlanLength
  /\ completed_steps \in [Steps -> Nat]
  /\ skipped_steps \in [Steps -> Nat]
  /\ failed_steps \in [Steps -> Nat]
  /\ checkpoints \in Seq(Steps)
  /\ cancel_requested \in BOOLEAN
  /\ requires_approval \in [Steps -> BOOLEAN]
  /\ pc \in WorkerPCs
  /\ role \in AllRoles
  /\ res \in Results
  /\ cpc \in CancellerPCs
  /\ calls \in Nat
  /\ delivered \in [Steps -> Nat]
  /\ routed \subseteq Steps
  /\ late \in Nat
  /\ approved \subseteq 0..PlanLength
  /\ rewinds \in Nat
  /\ begun_cancelled \in BOOLEAN

\* The step has a record that lets the plan go past it.
Accounted(i) ==
  \/ completed_steps[i] > 0
  \/ skipped_steps[i] > 0
  \/ failed_steps[i] > 0 /\ i \in NonCritical

\* The index never passes a step nothing accounts for, through failures,
\* approvals, skips, cancellations, exceptions and rollbacks to any checkpoint;
\* and a plan reported COMPLETED accounts for all of its steps.
ProgressAccounted ==
  /\ \A i \in Steps : i < current_step_index => Accounted(i)
  /\ status = "COMPLETED" => \A i \in Steps : Accounted(i)

\* Each success an adapter reported is recorded in completed_steps exactly
\* once, the answer the worker holds but has not recorded yet excepted: no
\* interleaving of a cancellation loses or repeats the record of an effect.
EffectsRecorded ==
  \A i \in Steps :
    delivered[i] = completed_steps[i]
                   + (IF pc = "check" /\ res = "SUCCESS" /\ i = current_step_index THEN 1 ELSE 0)

\* A step takes effect twice only if the session rolled the plan back itself:
\* failures, approvals, skips, exceptions and resumes never repeat an effect.
NoRepeatedEffect ==
  \A i \in Steps : delivered[i] <= 1 + rewinds

\* At most one adapter call starts after the cancel flag is set, the one the
\* worker had let through before it.
LateDispatchBound == late <= 1

\* With a cancellation requested and both threads at rest, the state is not
\* left looking as if it were running or waiting for somebody.
CancelLeavesNothingLive ==
  cancel_requested /\ pc = "idle" /\ cpc = "idle"
    => status \notin {"RUNNING", "WAITING_APPROVAL"}

\* While the session looks at WAITING_APPROVAL, the step at the index is one
\* that still requires approval and has not run since the plan last reached it.
WaitingStepIsPending ==
  pc = "idle" /\ status = "WAITING_APPROVAL"
    => /\ current_step_index < PlanLength
       /\ requires_approval[current_step_index]
       /\ delivered[current_step_index] <= rewinds
       /\ LatestCheckpoint = current_step_index

\* A call that begins after the cancellation leaves the step records and the
\* adapters alone.
CancelFreezesLedger ==
  [][begun_cancelled => UNCHANGED <<ledger, delivered, routed>>]_vars

\* A step made to require approval reaches an adapter only after the owner
\* was asked about it and resumed the plan.
ApprovedBeforeRouted == routed \cap NeedsApproval \subseteq approved

\* Every call returns: the loop over the steps ends.
CallsReturn == pc # "idle" ~> pc = "idle"

\* A cancellation does not stay in progress for ever.
CancellingEnds == status = "CANCELLING" ~> status # "CANCELLING"

\* A plan no thread is running is not left RUNNING.
NoOrphanRunning == pc = "idle" => status # "RUNNING"

-----------------------------------------------------------------------------
(* Refinement of the promise. *)

Progress == INSTANCE PlanProgress WITH
  cursor <- current_step_index,
  settled <- {i \in Steps : Accounted(i)},
  cancelled <- cancel_requested,
  admitted <- pc \in {"run", "check"}

\* The executor implements the admission, settlement and cancellation rules of
\* PlanProgress, step by step.
ImplementsProgress == Progress!Spec

=============================================================================

---------------------------- MODULE PlanProgress ----------------------------
(***************************************************************************)
(* What a plan execution promises its caller, without threads, statuses or *)
(* checkpoints: a cursor moves over the steps of the plan, a step is       *)
(* admitted before it runs and either settles (the cursor passes it) or is *)
(* abandoned (the cursor stays), and a cancellation closes the admission   *)
(* of steps for good.  PlanExecutor is shown to implement this module.     *)
(***************************************************************************)
EXTENDS Naturals

CONSTANT PlanLength    \* number of steps of the plan

VARIABLES
  cursor,      \* the step the plan is at
  settled,     \* the steps that succeeded, were skipped, or failed harmlessly
  cancelled,   \* somebody asked for cancellation
  admitted     \* a step has been let through and has not come back yet

vars == <<cursor, settled, cancelled, admitted>>

Init ==
  /\ cursor = 0
  /\ settled = {}
  /\ cancelled = FALSE
  /\ admitted = FALSE

Cancel ==
  /\ cancelled' = TRUE
  /\ UNCHANGED <<cursor, settled, admitted>>

\* A step is admitted only while nobody has asked for cancellation.
Admit ==
  /\ ~cancelled
  /\ ~admitted
  /\ cursor < PlanLength
  /\ admitted' = TRUE
  /\ UNCHANGED <<cursor, settled, cancelled>>

Settle ==
  /\ admitted
  /\ settled' = settled \cup {cursor}
  /\ cursor' = cursor + 1
  /\ admitted' = FALSE
  /\ UNCHANGED cancelled

\* The step failed critically, raised, or is waiting for an approval.
Abandon ==
  /\ admitted
  /\ admitted' = FALSE
  /\ UNCHANGED <<cursor, settled, cancelled>>

Skip ==
  /\ ~cancelled
  /\ ~admitted
  /\ cursor < PlanLength
  /\ settled' = settled \cup {cursor}
  /\ cursor' = cursor + 1
  /\ UNCHANGED <<cancelled, admitted>>

\* A rollback restores a place the plan has been at: every step before it is
\* settled.  After an earlier rollback that place may lie ahead.  What has
\* been settled stays settled.
Restore ==
  /\ ~admitted
  /\ cursor' \in 0..PlanLength
  /\ \A i \in 0 .. PlanLength - 1 : i < cursor' => i \in settled
  /\ UNCHANGED <<settled, cancelled, admitted>>

Next == Cancel \/ Admit \/ Settle \/ Abandon \/ Skip \/ Restore

\* What may happen ...
SafeSpec == Init /\ [][Next]_vars

\* ... and what must: a step that was admitted comes back.
Spec == SafeSpec /\ WF_vars(Settle \/ Abandon)

=============================================================================

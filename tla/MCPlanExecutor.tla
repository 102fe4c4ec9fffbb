--------------------------- MODULE MCPlanExecutor ---------------------------
(* Plans and sessions on which TLC checks PlanExecutor. *)
EXTENDS PlanExecutor

\* Three steps: the first two ask the owner first; the middle one may fail
\* without stopping the plan, the others are critical.
ApprovalSteps == {0, 1}
HarmlessSteps == {1}
BothRoles == {"owner", "customer"}
OwnerOnly == {"owner"}
AnySession == {"execute", "resume", "skip", "rollback"}
ApprovingSession == {"execute", "approve", "rollback"}
SkippingSession == {"execute", "approve", "skip"}
PlainSession == {"execute"}

=============================================================================

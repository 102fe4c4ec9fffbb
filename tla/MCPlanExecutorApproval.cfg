SPECIFICATION Spec
CONSTANTS
  PlanLength = 3
  NeedsApproval <- ApprovalSteps
  NonCritical <- HarmlessSteps
  Roles <- OwnerOnly
  Ops <- ApprovingSession
  MaxCalls = 5
INVARIANTS
  ApprovedBeforeRouted

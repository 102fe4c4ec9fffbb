SPECIFICATION Spec
CONSTANTS
  PlanLength = 3
  NeedsApproval <- ApprovalSteps
  NonCritical <- HarmlessSteps
  Roles <- OwnerOnly
  Ops <- SkippingSession
  MaxCalls = 3
INVARIANTS
  ApprovedBeforeRouted

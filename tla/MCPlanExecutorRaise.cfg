SPECIFICATION Spec
CONSTANTS
  PlanLength = 3
  NeedsApproval <- ApprovalSteps
  NonCritical <- HarmlessSteps
  Roles <- BothRoles
  Ops <- PlainSession
  MaxCalls = 1
INVARIANTS
  NoOrphanRunning

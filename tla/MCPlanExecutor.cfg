SPECIFICATION Spec
CONSTANTS
  PlanLength = 3
  NeedsApproval <- ApprovalSteps
  NonCritical <- HarmlessSteps
  Roles <- BothRoles
  Ops <- AnySession
  MaxCalls = 3
INVARIANTS
  TypeOK
  ProgressAccounted
  EffectsRecorded
  NoRepeatedEffect
  LateDispatchBound
  CancelLeavesNothingLive
  WaitingStepIsPending
PROPERTIES
  CancelFreezesLedger
  CallsReturn
  ImplementsProgress

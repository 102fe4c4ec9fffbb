SPECIFICATION Spec
CONSTANTS
  publish = publish
  s1 = s1
  s2 = s2
  NoHandler = NoHandler
  Actions <- OneAction
  Forbidden = {}
  Protected <- OneAction
  RolePermissions <- Permissions
  Requests <- AnyRequest
  Subscriptions <- TwoSubscriptions
  TypeOf <- TwoTypes
  MaxExecutions = 2
INVARIANTS
  TypeOK
  DeliveredOnce
  EventsPaired
  EventsTellTheResult
  ExecutionsNest
  StartBeforeEnd
PROPERTIES
  AllReturn

SPECIFICATION Spec
CONSTANTS
  turn = turn
  login = login
  request = request
  Requesters <- OneRequester
  TurnCallers <- OneTurn
  LoginCallers <- OneLogin
  Events = 1
  MaxSessions = 2
  MaxApprovals = 1
  MaxCalls <- CallBounds

INVARIANT NoRequestBlocksForever
CHECK_DEADLOCK FALSE

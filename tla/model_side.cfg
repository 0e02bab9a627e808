SPECIFICATION SideSpec
CONSTANTS
  c1 = c1
  c2 = c2
  c3 = c3
  c4 = c4
  k1 = k1
  k2 = k2
  NoCall = NoCall
  Unlimited = Unlimited
  Calls <- LiveCalls
  Keys <- MCKeys
  KeyOf <- LiveKeyOf
  StreamedKeys <- MCStreamed
  Purpose = "agent"
  Subscription = TRUE
  PayloadRetention = TRUE
  Ceiling <- CallCeiling
  TokenCounts <- NoCounts
  MaxCall = 2
  MaxEvent = 2
  Files = 1
  Size = 2
  Acknowledged = TRUE
  Ops = {"plain", "tree", "read", "exec", "timed_exec"}
  Requests = {1, 2, 3}
  ProcessOf <- Profiles
  MaxExchange = 3
  CommandKinds = {"run", "validate", "prepare", "reverify"}
  MaxTasks = 3
  PerTask = 1
  Slots = 2
CHECK_DEADLOCK FALSE
INVARIANTS
  AnswersAreTheirOwn
  LoginSurvives
PROPERTIES
  CommandsEndTruly
  AcceptedCallsAreAnswered
  UninterruptedCallsAreAnswered

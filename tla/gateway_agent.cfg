SPECIFICATION Spec
CONSTANTS
  c1 = c1
  c2 = c2
  c3 = c3
  c4 = c4
  k1 = k1
  k2 = k2
  NoCall = NoCall
  Unlimited = Unlimited
  Calls <- MCCalls
  Keys <- MCKeys
  KeyOf <- MCKeyOf
CHECK_DEADLOCK FALSE
CONSTANTS
  StreamedKeys <- MCStreamed
  Purpose = "agent"
  Subscription = TRUE
  PayloadRetention = TRUE
  Ceiling <- BothCeilings
  TokenCounts <- OneOrTwo
INVARIANTS
  ReservationsAreFlights
  TraceAgreesWithUsage
  OneSamplePerKey
  ReplaysAreFaithful
PROPERTIES
  ImplementsBudget

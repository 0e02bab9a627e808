SPECIFICATION FairEpisodeSpec
CONSTANTS
  solver = solver
  verifier = verifier
  NoBox = NoBox
  Sandboxes <- MCSandboxes
  Order <- MCOrder
  PoliciesOf <- MCPolicies
  Faults <- BothFaults
  Solver = solver
  Verifier = verifier
  Plans <- MCPlans
  Silence = TRUE
INVARIANTS
  AgentSeesOnlyItsTask
  RetainedIsClean
PROPERTIES
  ImplementsLease
  AnsweredEpisodesEnd
CHECK_DEADLOCK FALSE

SPECIFICATION FairEpisodeSpec
CONSTANTS
  solver = solver
  verifier = verifier
  NoBox = NoBox
  Sandboxes <- MCSandboxes
  Order <- MCOrder
  PoliciesOf <- MCPolicies
  Faults <- NoFaults
  Solver = solver
  Verifier = verifier
  Plans <- OnePlan
  Silence = TRUE
PROPERTIES
  EveryEpisodeEnds
CHECK_DEADLOCK FALSE

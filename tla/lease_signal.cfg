SPECIFICATION Spec
CONSTANTS
  solver = solver
  verifier = verifier
  NoBox = NoBox
  Sandboxes <- MCSandboxes
  Order <- MCOrder
  PoliciesOf <- MCPolicies
  Faults <- Signals
INVARIANTS
  EveryLeasedSandboxIsReaped
CHECK_DEADLOCK FALSE

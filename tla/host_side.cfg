SPECIFICATION HostSpec
CONSTANTS
  NoHost = NoHost
  NoRow = NoRow
  Hosts <- MCHosts
  Episodes <- MCEpisodes
  Counts <- MCCounts
  Retries = 1
  Concurrency = 1
  Beside <- MCBeside
  solver = solver
  verifier = verifier
  NoBox = NoBox
  Sandboxes <- MCSandboxes
  Order <- MCOrder
  PoliciesOf <- MCPolicies
  Faults <- BothFaults
CHECK_DEADLOCK FALSE
INVARIANTS
  UndisturbedEpisodesReap
  
  SuccessesAreNotRepeated

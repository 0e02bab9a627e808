SPECIFICATION LedgerSpec
CONSTANTS
  NoHost = NoHost
  NoRow = NoRow
  Hosts <- MCHosts
  Episodes <- MCEpisodes
  Counts <- MCCounts
  Retries = 1
  Concurrency = 1
  Beside <- MCBeside
INVARIANTS
  ArchivesAreComplete
CHECK_DEADLOCK FALSE

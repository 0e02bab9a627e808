SPECIFICATION SideSpec
CONSTANTS
  Absent = Absent
  Logs = {l1}
  Pieces = {1, 2}
  MaxSize = 3
  Commands = {a, b}
  MaxOutput = 2
  ModelCalls = {c1, c2}
  MaxCrash = 2
  Creates = {1, 2}
  Devices = {1, 2, 3}
  Requested <- OneAndTwo
  MaxDestroy = 3
  Preparers = {p1, p2}
  MaxEdit = 2
  Kinds <- ImageKinds
  Vms = {1, 2}
  HostPorts = {1, 2}
  Episodes = {1, 2, 3}
  Looks = {1, 2}
  MaxSteps = 1
  Budgets = {99, 4}
  NoBudget = 99
  Margin = 1
  MaxDelay = 2
  Repairs = 1
  PlainRetries = 1
  MaxLimit = 1
  MaxJudges = 1
  MaxResults = 2
  Adapters = {"codex_cli", "claude_code", "droid", "pi_cli", "hermes", "openclaw_cli",
              "qwen_code", "kimi_code", "zcode", "openhands_cli", "forgecode",
              "grok_build", "muse_code", "antigravity_cli"}
  MaxTurns = 2
  MaxItems = 2
  Spawners = {"codex_cli", "claude_code", "hermes", "openclaw_cli", "qwen_code", "kimi_code",
              "zcode", "openhands_cli", "forgecode", "muse_code", "antigravity_cli"}
  Goals = {g1, g2}
  MaxCalls = 2
  MaxSays = 3
  Jobs = {j1, j2}
  Manual = {j2}
  Checkouts = {c1, c2}
  MaxTip = 1
  MaxOthers = 2
  Names = {a, b}
  Nodes = {1, 2, 3, 4, 5}
  MaxEntries = 2
  MaxTouch = 2
  Creators = {k1, k2}
  Sizes = {"small", "large"}
  MaxFramed = 3
  MaxStrays = 1
CHECK_DEADLOCK FALSE
INVARIANTS
  UnreportedCopiesAreExact
  EvidenceResolves
  DevicesAreExclusive
  
  ImagesMatchTheirInputs
  
  SnapshotsStayWhole
  SourcesAreAsLeft
  SegmentsAreOwn
  StepsFollowTheTurns
  
  DelegationsAreTold
  FilesLandWhereSent
  FramesAreSettled
PROPERTIES
  JudgesArePatient
  PublicationResumes

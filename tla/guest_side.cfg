SPECIFICATION SideSpec
CONSTANTS
  StreamCount = 2
  Slow = {1}
  Chunks <- BothWays
  Window = 1
  Limits = {1, 2}
  PipeRoom = 0
  MaxToggle = 3
  Systems = {"linux", "windows", "macos"}
  Threads = {g1}
  Agent = m
  Batches <- ClickOrMoveAndScroll
  DriverIds = {1, 2, 3}
  MaxFault = 2
CHECK_DEADLOCK FALSE
INVARIANTS
  DeliveryIsWhole
  CreatesLeaveNothing
  ActionsAreDoneInOrder
PROPERTIES
  NobodyWaitsForASlowStream
  DroppedTunnelsSettle
  DesktopsComeBack

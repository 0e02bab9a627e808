SPECIFICATION Spec
CONSTANTS
  p1 = p1
  p2 = p2
  v1 = v1
  v2 = v2
  s1 = s1
  s2 = s2
  s3 = s3
  s4 = s4
  NoFiles = NoFiles
  Partial = Partial
  NoStamp = NoStamp
  NoProc = NoProc
  NoMarker = NoMarker
  Procs <- MCProcs
  Roots <- MCRoots
  Order <- MCOrder
  Versions <- MCVersions
  Stamps <- MCStamps
  Sources <- MCSources
  MaxEdits = 1
SYMMETRY Interchangeable
CHECK_DEADLOCK FALSE
INVARIANTS
  UnracedCleanMeansCommitted

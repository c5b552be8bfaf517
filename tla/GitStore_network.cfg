SPECIFICATION LiveSpec
CONSTANTS
  doc = doc
  sys = sys
  b1 = b1
  b2 = b2
  Absent = Absent
  Garbage = Garbage
  Paths <- MCTwoDocs
  DataPaths <- MCTwoDocs
  Bodies <- MCTwoBodies
  InitTrees <- MCInitTrees
  ExternalFiles <- MCOneEdit
  Writers = {"hubd", "external"}
  Faults = {"push", "fetch", "read", "panic"}
  Expected = {0, 1, 2}
  MaxVersion = 3
  MaxHubd = 2
  MaxExternal = 1
INVARIANTS EventsReplayPaths WorkIsHead VersionNamesContent
PROPERTIES CommitTouchesOnlyPath OptimisticLock PushedIsServed

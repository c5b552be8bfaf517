SPECIFICATION Spec
CONSTANTS
  doc = doc
  sys = sys
  b1 = b1
  b2 = b2
  Absent = Absent
  Garbage = Garbage
  Paths <- MCTwoDocs
  DataPaths <- MCTwoDocs
  Bodies <- MCBodies
  InitTrees <- MCInitTrees
  ExternalFiles <- MCOneEdit
  Writers = {"hubd", "external"}
  Faults = {}
  Expected = {0}
  MaxVersion = 2
  MaxHubd = 2
  MaxExternal = 1
INVARIANTS ListAtFixedCommit

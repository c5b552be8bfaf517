SPECIFICATION Spec
CONSTANTS
  doc = doc
  sys = sys
  b1 = b1
  b2 = b2
  Absent = Absent
  Garbage = Garbage
  Paths <- MCPaths
  DataPaths <- MCDataPaths
  Bodies <- MCBodies
  InitTrees <- MCInitTrees
  ExternalFiles <- MCOneEdit
  Writers = {"hubd"}
  Faults = {"commit"}
  Expected = {0, 2}
  MaxVersion = 3
  MaxHubd = 2
  MaxExternal = 0
PROPERTIES OptimisticLock

SPECIFICATION LiveSpec
CONSTANTS
  doc = doc
  sys = sys
  b1 = b1
  b2 = b2
  Absent = Absent
  Garbage = Garbage
  Paths <- MCOneDoc
  DataPaths <- MCOneDoc
  Bodies <- MCBodies
  InitTrees <- MCInitTrees
  ExternalFiles <- MCOneEdit
  Writers = {"hubd", "external"}
  Faults = {}
  Expected = {0}
  MaxVersion = 2
  MaxHubd = 1
  MaxExternal = 1
PROPERTIES StaysInSync

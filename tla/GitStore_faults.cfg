SPECIFICATION Spec
CONSTANTS
  doc = doc
  sys = sys
  b1 = b1
  b2 = b2
  Absent = Absent
  Garbage = Garbage
  Paths <- MCOneDoc
  DataPaths <- MCOneDoc
  Bodies <- MCBodies
  InitTrees <- MCInitTrees
  ExternalFiles <- MCExternalFiles
  Writers = {"hubd", "external"}
  Faults = {"write", "add", "rm", "commit", "push", "fetch", "merge", "panic", "crash", "volume"}
  Expected = {0}
  MaxVersion = 3
  MaxHubd = 2
  MaxExternal = 2
INVARIANTS TypeOK AckedDurable ServedInHistory IndexAtServed
PROPERTIES HeadGrows DivergedIsFinal ImplementsLog

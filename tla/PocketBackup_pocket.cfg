SPECIFICATION Spec
CONSTANTS
  c1 = c1
  c2 = c2
  Torn = Torn
  Missing = Missing
  Commands = {c1, c2}
  Keep = 2
  MaxStarts = 2
  MaxTxns = 1
  MaxEdits = 1
  MaxEra = 2
INVARIANTS TypeOK PairsAreExplained ReadableWhileKept DownHasReason
PROPERTIES BackupHasAll RestoreIsExact
SYMMETRY Symmetric
CHECK_DEADLOCK FALSE

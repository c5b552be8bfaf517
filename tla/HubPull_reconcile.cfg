SPECIFICATION LiveSpec
CONSTANTS
  Absent = Absent
  Edited = Edited
  Instances = {o1}
  MaxDocs = 2
  MaxGen = 2
  Unrefreshed = {1}
  MaxEdits = 1
INVARIANTS TypeOK ObservedWasApplied
PROPERTIES OverwritesWhatItRead NeverBackAlone Converges

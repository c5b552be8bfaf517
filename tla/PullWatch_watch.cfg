SPECIFICATION LiveSpec
CONSTANTS
  d1 = d1
  d2 = d2
  Docs = {d1, d2}
  Path = d1
  NL = NL
  MaxRuns = 2
  MaxSent = 3
INVARIANTS TypeOK FramesOnce OneStream LittleAfterCancel
PROPERTIES SentIsHandled UnwantedEnds

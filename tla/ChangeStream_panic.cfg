SPECIFICATION Spec
CONSTANTS
  a = a
  ab = ab
  b = b
  c1 = c1
  c2 = c2
  p1 = p1
  Paths = {a}
  Streams = {c1, c2}
  Leavers = {c2}
  Pollers = {}
  Under = {a}
  Begins = {a}
  Cursors = {0}
  MaxHist = 2
  Buffer = 1
  MaxEvents = 3
INVARIANTS LeaverHarmless
CHECK_DEADLOCK FALSE

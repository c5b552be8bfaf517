SPECIFICATION LiveSpec
CONSTANTS
  a = a
  ab = ab
  b = b
  c1 = c1
  c2 = c2
  p1 = p1
  Paths = {a, ab}
  Streams = {c1, c2}
  Leavers = {c2}
  Pollers = {p1}
  Under = {a}
  Begins = {a, ab}
  Cursors = {0, 1}
  MaxHist = 2
  Buffer = 1
  MaxEvents = 3
INVARIANTS TypeOK HistoryContiguous StreamOrdered StreamMissesOnly PollMissesOnly
PROPERTIES PublisherNotBlocked
CHECK_DEADLOCK FALSE

CONSTANTS
  m1 = m1  m2 = m2  w1 = w1
  Msg = {m1, m2}
  Junk = {}
  Worker = {w1}
  MaxDeliver = 2
  MaxAckPending = 2
  Ages = FALSE
  Faults = FALSE
  BatchSize = 2
  Ends = TRUE
  MaxUnsure = 0
SPECIFICATION Spec
PROPERTY FlushedAtShutdown

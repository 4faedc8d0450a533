CONSTANTS
  m1 = m1  m2 = m2  w1 = w1
  Msg = {m1, m2}
  Junk = {}
  Worker = {w1}
  MaxDeliver = 2
  MaxAckPending = 2
  Ages = FALSE
  Faults = TRUE
  BatchSize = 2
  Ends = TRUE
  MaxUnsure = 1
SPECIFICATION FairSpec
INVARIANTS TypeOK AckedIsKept RowsWithinDeliveries
PROPERTY AckedIsInserted

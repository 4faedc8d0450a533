CONSTANTS
  m1 = m1  m2 = m2  w1 = w1  w2 = w2
  Msg = {m1, m2}
  Junk = {m2}
  Worker = {w1, w2}
  None = None
  MaxDeliver = 3
  MaxAckPending = 2
  Ages = TRUE
  Faults = TRUE
SPECIFICATION FairSpec
INVARIANTS TypeOK OneCopyPerDelivery
PROPERTIES StageSpec EnrichedUnlessHarmed

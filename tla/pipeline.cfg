CONSTANTS
  t1 = t1  t2 = t2   agent1 = agent1  indexer1 = indexer1
  Task = {t1}
  Agent = {agent1}
  Indexer = {indexer1}
  TaskDeliver = 2
  Copies = 1
  IndexDeliver = 2
  Attempts = 2
  MaxRepeated = 1
  MaxAckPending = 1
  Faults = TRUE
SPECIFICATION FairSpec
INVARIANTS TypeOK Accounted
PROPERTIES EndToEnd IndexedUnlessHarmed
CHECK_DEADLOCK FALSE

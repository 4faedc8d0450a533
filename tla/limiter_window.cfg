SPECIFICATION Spec
CONSTANTS
  ASN = {a1, a2}
  Caller = {c1}
  Rate = 2
  TTL = 2
  Faults = TRUE
  MaxTime = 4
SYMMETRY Symmetry
INVARIANTS TypeOK WindowBound CounterCovers

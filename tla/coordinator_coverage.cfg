SPECIFICATION Spec
CONSTANTS
  p1 = p1
  p2 = p2
  s1 = s1
  s2 = s2
  s3 = s3
  a1 = a1
  a2 = a2
  Port = {p1, p2}
  Interval <- MCInterval
  Subnets <- MCSubnets
  AsnOf <- MCAsnOf
  Blocked = {s2}
  ASN = {a1, a2}
  Period = 2
  SlowPass = FALSE
  Rate = 1
  TTL = 1
  Faults = FALSE
  MaxTime = 13
INVARIANT EverySubnetTasked
CHECK_DEADLOCK FALSE

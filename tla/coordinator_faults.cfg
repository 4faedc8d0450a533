SPECIFICATION Spec
CONSTANTS
  p1 = p1
  p2 = p2
  s1 = s1
  s2 = s2
  s3 = s3
  a1 = a1
  a2 = a2
  Port = {p1, p2}
  Interval <- ShortInterval
  Subnets <- TwoSubnets
  AsnOf <- TwoAsnOf
  Blocked = {s2}
  ASN = {a1}
  Period = 2
  SlowPass = TRUE
  Rate = 1
  TTL = 2
  Faults = TRUE
  MaxTime = 4

INVARIANTS TypeOK TaskWindow NotOverdue EverySubnetAnswered
PROPERTY LimiterSpec

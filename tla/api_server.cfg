CONSTANTS
  c1 = c1  c2 = c2  h1 = h1  h2 = h2  x = x  y = y  z = z
  Handler = {h1, h2}
  Client = {c1, c2}
  Unknown = {c2}
  Limit = 2
  TTL = 3
  MaxRetries = 1
  MaxLate = 1
  Address = {x, y, z}
  Default = {y}
  Ips = {z}
  Nets <- Prefixes
  Nobody = Nobody
  Faults = TRUE
SPECIFICATION FairSpec
INVARIANTS TypeOK TwoWindows OptOutKept
PROPERTY RefusalEnds

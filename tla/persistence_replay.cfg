CONSTANTS
  m1 = m1  m2 = m2  m3 = m3  m4 = m4  m5 = m5
  h1 = h1  p1 = p1  p2 = p2  c1 = c1  c2 = c2
  Msg = {m1, m2, m3, m4, m5}
  HostOf <- MCHostOf
  PortOf <- MCPortOf
  Host = {h1}
  Port = {p1, p2}
  Junk = {m4}
  Unfit = {m5}
  Process = {c1}
  MaxDeaths = 2
SPECIFICATION FairSpec
INVARIANTS TypeOK OneEntryPerService CaughtUp
PROPERTIES PersistedUnlessBlocked SettlesOnNewest

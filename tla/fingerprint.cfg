CONSTANTS
  Server <- MCServer
  Says <- MCSays
  Target <- MCTarget
  StrangePorts = {80, 25, 443, 5000, 389, 53, 161, 99}
SPECIFICATION Spec
INVARIANTS TypeOK Accurate NeverMisread StopsOnlyWhere Verdict TableAgrees
PROPERTIES FreshConnection FingerprintReturns
CHECK_DEADLOCK FALSE

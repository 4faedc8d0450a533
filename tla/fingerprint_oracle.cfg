CONSTANTS
  Server <- MCServer
  Says <- MCSays
  Target <- MCTarget
  StrangePorts = {80}
SPECIFICATION Spec
INVARIANT OracleRecognised
CHECK_DEADLOCK FALSE

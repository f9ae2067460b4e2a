CONSTANTS
  w1 = w1
  w2 = w2
  w3 = w3
  s2k = s2k
  win2k = win2k
  Workers <- MCWorkers
  Job <- MCJob
  SealProofs <- MCSealProofs
  PoStProofs <- MCPoStProofs
  CircuitOf <- MCCircuitOf
  ParamChunks = 2
  FetchMode = "rename"
  MaxCrashes = 1

SPECIFICATION Spec

INVARIANTS
  TypeOK


PROPERTIES
  EveryJobVerified

\* Every thread ends its job; the run then stops.
CHECK_DEADLOCK FALSE

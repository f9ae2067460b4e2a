\* Two sectors, restart after a failed Commit1, up to three failed calls.
CONSTANTS
  s1 = s1  s2 = s2  t1 = t1  t2 = t2  e1 = e1  d1 = d1  d2 = d2
  NONE = NONE
  Sectors <- MCSectors
  Tickets <- MCTickets
  Seeds <- MCSeeds
  Data <- MCData
  MaxFailures = 3

SPECIFICATION CallerSpec

INVARIANTS
  
  CommittedSectorsProvable
  CommittedSectorsUnsealable

PROPERTIES
  EverySectorProven

\* Sealed and proven sectors are the end of the caller's work.
CHECK_DEADLOCK FALSE

---------------------------- MODULE MCParamStore ----------------------------
EXTENDS ParamStore

CONSTANTS w1, w2, w3,   \* caller threads
          s2k,          \* fil_RegisteredSealProof_StackedDrg2KiBV1
          win2k         \* fil_RegisteredPoStProof_StackedDrgWinning2KiBV1

\* Two threads seal sectors of the same proof type, and so share the seal
\* parameter file and verifying key; a third proves winning PoSt.
MCWorkers == {w1, w2, w3}
MCJob == [w \in MCWorkers |-> IF w = w3 THEN win2k ELSE s2k]
MCSealProofs == {s2k}
MCPoStProofs == {win2k}
MCCircuitOf(pt) == IF pt = s2k THEN "stacked-proof-of-replication-2KiB"
                   ELSE "proof-of-spacetime-winning-2KiB"

=============================================================================

---------------------------- MODULE MCSealCaller ----------------------------
EXTENDS SealCaller, TLC

CONSTANTS s1, s2, t1, t2, e1, d1, d2

MCSectors == {s1, s2}
MCTickets == {t1, t2}
MCSeeds == {e1}
MCData == {d1, d2}

\* Sector ids and contents are only compared for equality.
MCSymmetry == Permutations(MCSectors) \cup Permutations(MCData)

=============================================================================

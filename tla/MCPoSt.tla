-------------------------------- MODULE MCPoSt --------------------------------
EXTENDS PoSt

CONSTANTS a, b, ra, rb, ca, cb

MCSectors == {a, b}
MCCommRs == {ca, cb}
MCRandomness == {ra, rb}
\* The window run proves with one randomness value, rb, whose challenge
\* index (1) is not the index of the first replica, and through one header.
MCOneRandomness == {rb}
MCProvingSet == <<a, b>>

\* Both headers, and the Winning2KiB (0) and Window2KiB (5) enumerators of
\* 2 KiB sectors plus Window8MiB (6), a window type of another size.
MCSurfaces == {"v1", "v2"}
MCOneSurface == {"v1"}
MCPoStProofEnums == {0, 5}

\* Fixed challenge hashes: randomness ra selects index 0 and rb index 1 of a
\* two-sector list; both are large enough that the reduction matters.
MCChallengeHash(r, n) == IF r = ra THEN 1000 + n ELSE 1001 + n
=============================================================================

-------------------------------- MODULE MCBLS --------------------------------
EXTENDS BLS

CONSTANTS x1, x2, k1, k2

MCSeeds == {x1, x2}
MCKeyOfSeed(x) == IF x = x1 THEN k1 ELSE k2

\* Messages whose concatenations can be cut in more than one way.
MCMessages == {<<0>>, <<1>>, <<0, 1>>}
=============================================================================

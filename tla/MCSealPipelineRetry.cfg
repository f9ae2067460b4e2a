\* One sector, one ticket: no stale labels, only aborted and retried PreCommit2.
CONSTANTS
    s1 = s1  s2 = s2  t1 = t1  t2 = t2  e1 = e1  d1 = d1  d2 = d2
    NONE = NONE
    Sectors <- OneSector
    Tickets <- OneTicket
    Seeds <- OneSeed
    Data <- TwoContents

SPECIFICATION Spec
SYMMETRY MCSymmetry

PROPERTY PC2RetryReturnsSameCommR

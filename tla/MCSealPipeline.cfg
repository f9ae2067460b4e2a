\* One sector, two tickets.
CONSTANTS
    s1 = s1  s2 = s2  t1 = t1  t2 = t2  e1 = e1  d1 = d1  d2 = d2
    NONE = NONE
    Sectors <- OneSector
    Tickets <- TwoTickets
    Seeds <- OneSeed
    Data <- OneContent

SPECIFICATION Spec
SYMMETRY MCSymmetry

INVARIANT TypeOK

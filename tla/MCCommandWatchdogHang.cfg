CONSTANTS
    c1 = c1
    c2 = c2
    p1 = p1
    p2 = p2
    p3 = p3
    Conns = {c1, c2}
    Pages = {p1, p2, p3}
    Owner <- PagesOwner
    Budget = 2
    MaxArms = 3
    Careless = {}
    None = None
    Gone = Gone
    Forever = Forever
SPECIFICATION FairSpec
PROPERTIES EveryHangEnds
CHECK_DEADLOCK FALSE

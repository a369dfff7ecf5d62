CONSTANTS
    Producers = {p1, p2}
    Getters = {c}
    Pollers = {r}
    TimedGetters = {t}
    Clearers = {p1, t}
    Rows = 3
    max_size = 2
    p1 = p1
    p2 = p2
    r = r
    t = t
    c = c
SPECIFICATION FairSpec
INVARIANTS
    RowsConserved
PROPERTIES
    IsBoundedQueue
    EverythingLeaves
CHECK_DEADLOCK FALSE

SPECIFICATION Spec
CONSTANTS
    n1 = n1
    n2 = n2
    n3 = n3
    Nodes = {n1, n2, n3}
    Info <- MCInfo
    Procs = {p1, p2}
    FilterChoices <- MCFilters
    Seeds <- MCSeeds
    MaxFilters = 3
    Asked <- MCAsked
    MaxChanges = 1
SYMMETRY Symmetry
INVARIANTS
    ProjectionFaithful
    ResultIsOfSnapshot
    CacheFollows
\* A group whose filters are not among those Asked is dropped, unasked.
CHECK_DEADLOCK FALSE

\* Two chains, so that two writers meet on the free list only, and room for a
\* chain of two records and one more.
CONSTANTS
    p1 = p1  p2 = p2
    k1 = k1  k2 = k2  k3 = k3
    short = short  long = long
    h1 = h1  h2 = h2
    Procs = {p1, p2}
    Keys = {k1, k2, k3}
    Values = {short, long}
    Chains = {h1, h2}
    Hash <- MCHash
    Length <- MCLength
    Free = Free
    Blank = Blank
    None = None
    MaxRec = 3
SPECIFICATION Spec
INVARIANT TypeOK
INVARIANT ChainsHoldMap
INVARIANT RecordsConserved
INVARIANT FetchIsRight
INVARIANT NextrecIsWhole
INVARIANT ScanIsComplete
INVARIANT LocksOrdered
SYMMETRY MCSymmetry

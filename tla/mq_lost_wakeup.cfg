\* Three processes: two receivers block, then two messages arrive.
CONSTANTS
    MaxMsg = 2
    Prios = {0}
    Procs = {p1, p2, p3}
    Mortal = {}
    NoPid = NoPid
SPECIFICATION FairSpec
PROPERTY BlockedReceiverWakes

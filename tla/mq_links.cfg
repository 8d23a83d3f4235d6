\* Up to four messages of three priorities.
CONSTANTS
    MaxMsg = 4
    Prios = {0, 1, 2}
SPECIFICATION Spec
INVARIANT NeverDumps
INVARIANT LinksConserveSlots
PROPERTY ImplementsPrioQueue

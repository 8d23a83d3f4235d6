\* Three processes, one of which may die, share two slots.
CONSTANTS
    MaxMsg = 2
    Prios = {0, 1}
    Procs = {p1, p2, p3}
    Mortal = {p1}
    NoPid = NoPid
SPECIFICATION Spec
INVARIANT TypeOK
INVARIANT CurmsgsExact
INVARIANT SlotsConserved
INVARIANT PriorityFifo
INVARIANT NwaitExact
INVARIANT RegistrationExact
PROPERTY RegistrationKept

\* Two processes share two slots; whoever is blocked is woken in time.
CONSTANTS
    MaxMsg = 2
    Prios = {0, 1}
    Procs = {p1, p2}
    Mortal = {p1}
    NoPid = NoPid
SPECIFICATION FairSpec
PROPERTY BlockedReceiverWakes
PROPERTY BlockedSenderWakes

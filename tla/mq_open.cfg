\* Two processes, whose calls may fail and of which one may die; mymq_unlink
\* is called.  Two inodes are always enough for a new file.
CONSTANTS
    Procs = {p1, p2}
    Inodes = {f1, f2}
    NoFile = NoFile
    MaxTries = 2
    MayFail = {p1, p2}
    Mortal = {p2}
    MayUnlink = TRUE
SPECIFICATION FairSpec
INVARIANT TypeOK
INVARIANT OneInitialiser
INVARIANT BitOffMeansReady
INVARIANT NamedIsReady
PROPERTY OpenReturns

\* The creator of a queue fails while a second process waits for it, and the
\* queue is created anew; nobody calls mymq_unlink.
CONSTANTS
    Procs = {p1, p2}
    Inodes = {f1, f2}
    NoFile = NoFile
    MaxTries = 2
    MayFail = {p1}
    Mortal = {}
    MayUnlink = FALSE
SPECIFICATION Spec
INVARIANT OpenedIsReady

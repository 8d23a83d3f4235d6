\* my_rwlock: four threads, nobody is cancelled.
CONSTANTS
    Threads = {t1, t2, t3, t4}
    CancelVersion = FALSE
    Cancellable = {}
SPECIFICATION FairSpec
INVARIANT TypeOK
INVARIANT NoLostWakeup
PROPERTY WritersPreferred
PROPERTY FreeLockIsTaken
PROPERTY ImplementsRWLock

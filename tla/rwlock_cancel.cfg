\* my_rwlock_cancel: four threads, three of which may be cancelled.
CONSTANTS
    Threads = {t1, t2, t3, t4}
    CancelVersion = TRUE
    Cancellable = {t1, t2, t3}
SPECIFICATION Spec
INVARIANT RefcountExact
INVARIANT WaitCountsExact
INVARIANT DestroySeesUsers

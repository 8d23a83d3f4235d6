\* my_rwlock_cancel: a writer is cancelled while the lock is released.
CONSTANTS
    Threads = {t1, t2, t3}
    CancelVersion = TRUE
    Cancellable = {t2}
SPECIFICATION FairSpec
PROPERTY FreeLockIsTaken

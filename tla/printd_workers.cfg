CONSTANTS
    Threads = {t1, t2, t3}
    Null = Null
SPECIFICATION Spec
INVARIANT KillsAllOutstanding
CHECK_DEADLOCK FALSE

\* Two clients, whose numbers may be given out again after the daemon ended,
\* and wrap around when the job file holds the largest number.  From a job file
\* with mixed digits the daemon may start with any number from -3 to 2.
CONSTANTS
    Clients = {c1, c2}
    None = None
    Short = Short
    MaxJob = 2
    Mixed = Mixed
    MaxEnds = 1
SPECIFICATION FairSpec
INVARIANT TypeOK
INVARIANT NoLostWakeup
INVARIANT PrinterCurrent
INVARIANT SpoolKeepsAccepted
INVARIANT PrintsOwnFile
INVARIANT QueuedExactlyOnce
PROPERTY AcceptedIsPrinted

\* Two processes besides idleproc and initproc, time slices of two ticks and
\* sleeps shorter than, and as long as, a slice.  No symmetry: the run checks
\* liveness.
CONSTANTS
    User = {u1, u2}
    idleproc = idleproc
    initproc = initproc
    NULL = NULL
    MAX_PROCESS = 4
    MAX_TIME_SLICE = 2
    SleepTimes = {1, 2}
    KillTargets = {u1, u2}
    FilesOutcomes = {TRUE}
SPECIFICATION FairSpec
INVARIANT SchedInv
INVARIANT SliceUsedUp
PROPERTY NoStarvation
PROPERTY SleepEnds
PROPERTY InitReaps

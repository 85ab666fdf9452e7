\* Three processes besides idleproc and initproc: a process, its child and its
\* grandchild, or two children of which one kills the other.  A time slice of one
\* tick lets every tick preempt; KernelLiveness.cfg has longer ones.
CONSTANTS
    User = {u1, u2, u3}
    idleproc = idleproc
    initproc = initproc
    NULL = NULL
    MAX_PROCESS = 5
    MAX_TIME_SLICE = 1
    SleepTimes = {1, 2}
    KillTargets = {u1, u2, u3}
    FilesOutcomes = {TRUE}
SPECIFICATION Spec
SYMMETRY UserSymmetry
INVARIANT TypeOK
INVARIANT RunQueueExact
INVARIANT NoPanic
INVARIANT FamilyOK
INVARIANT SleeperHasWaker
INVARIANT OrphansAdopted

CONSTANTS
    User = {u1, u2}
    idleproc = idleproc
    initproc = initproc
    NULL = NULL
    MAX_PROCESS = 4
    MAX_TIME_SLICE = 1
    SleepTimes = {1}
    KillTargets = {u1, u2}
    FilesOutcomes = {TRUE}
SPECIFICATION FairSpec
PROPERTY KilledExits

\* Six processes besides idleproc share seven pids, the tightest case that
\* MAX_PID > MAX_PROCESS allows: pids wrap around, and a full process table
\* leaves one pid for get_pid to find.
CONSTANTS
    MAX_PID = 8
    MAX_PROCESS = 7
SPECIFICATION PidSpec
INVARIANT UniquePids
INVARIANT PidInv
PROPERTY GetPidReturns

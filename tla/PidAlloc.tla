------------------------------ MODULE PidAlloc ------------------------------
(***************************************************************************)
(* Process identifiers: get_pid, its two static variables, and the list of *)
(* live processes it scans (lab8/kern/process/proc.c).                     *)
(*                                                                         *)
(* get_pid keeps a window: no live process has a pid strictly between      *)
(* last_pid and next_safe, so the pids of the window are handed out        *)
(* without a scan.  When the window is used up it scans proc_list for a    *)
(* new one, and starts the scan over whenever the window it is building    *)
(* collapses.  The loop is modelled one list entry per step.  get_pid runs *)
(* with interrupts off, so no pid is released while it scans.              *)
(***************************************************************************)
EXTENDS Integers, Sequences, SequencesExt

CONSTANTS MAX_PID,          \* pids are 1 .. MAX_PID - 1; 0 is idleproc
          MAX_PROCESS       \* most processes alive, idleproc included

\* The static_assert of get_pid.
ASSUME PidAssumption ==
    /\ MAX_PID \in Nat
    /\ MAX_PROCESS \in Nat \ {0}
    /\ MAX_PID > MAX_PROCESS

VARIABLES
    proc_list,      \* the pids on proc_list, front first; idleproc is not on it
    last_pid,       \* static int of get_pid
    next_safe,      \* static int of get_pid
    cursor          \* the entry the scan looks at, 0 outside get_pid

pid_vars == <<proc_list, last_pid, next_safe, cursor>>

\* The pids in use, and idleproc: the processes alive.
nr_process == Len(proc_list) + 1

PidTypeOK ==
    /\ proc_list \in Seq(Nat)
    /\ last_pid \in 1 .. MAX_PID
    /\ next_safe \in 1 .. MAX_PID
    /\ cursor \in Nat

PidInit ==
    /\ proc_list = <<>>
    /\ last_pid = MAX_PID
    /\ next_safe = MAX_PID
    /\ cursor = 0

\* set_links puts the new process at the front of proc_list: list_add.
ReturnPid(pid) ==
    /\ proc_list' = <<pid>> \o proc_list
    /\ cursor' = 0

\* Mutant: do_fork without its limit on the number of processes.
MayForkAlways == cursor = 0

\* do_fork refuses when the process table is full.
MayFork == cursor = 0 /\ nr_process < MAX_PROCESS

\* The window is not used up: the next pid is returned without a scan.
TakeFromWindow ==
    /\ MayFork
    /\ last_pid + 1 < MAX_PID
    /\ last_pid + 1 < next_safe
    /\ last_pid' = last_pid + 1
    /\ ReturnPid(last_pid + 1)
    /\ UNCHANGED next_safe

\* The label "inside": wrap around at MAX_PID and scan from the front.
StartScan ==
    /\ MayFork
    /\ last_pid + 1 >= MAX_PID \/ last_pid + 1 >= next_safe
    /\ last_pid' = IF last_pid + 1 >= MAX_PID THEN 1 ELSE last_pid + 1
    /\ next_safe' = MAX_PID
    /\ cursor' = 1
    /\ UNCHANGED proc_list

Scanning == cursor \in DOMAIN proc_list

\* Mutant: the pid after a pid in use is taken without starting over.
SkipUsedNoRepeat ==
    /\ Scanning
    /\ proc_list[cursor] = last_pid
    /\ last_pid' = IF last_pid + 1 >= MAX_PID THEN 1 ELSE last_pid + 1
    /\ cursor' = cursor + 1
    /\ UNCHANGED <<proc_list, next_safe>>

\* The candidate is in use: try the next one.  It is still inside the window
\* built so far, or the window collapses and the scan is repeated.
SkipUsed ==
    /\ Scanning
    /\ proc_list[cursor] = last_pid
    /\ IF last_pid + 1 >= next_safe
       THEN /\ last_pid' = IF last_pid + 1 >= MAX_PID THEN 1 ELSE last_pid + 1
            /\ next_safe' = MAX_PID
            /\ cursor' = 1
       ELSE /\ last_pid' = last_pid + 1
            /\ cursor' = cursor + 1
            /\ UNCHANGED next_safe
    /\ UNCHANGED proc_list

\* Mutant: any larger pid becomes the end of the window.
NarrowAlways ==
    /\ Scanning
    /\ proc_list[cursor] # last_pid
    /\ next_safe' = IF proc_list[cursor] > last_pid
                    THEN proc_list[cursor] ELSE next_safe
    /\ cursor' = cursor + 1
    /\ UNCHANGED <<proc_list, last_pid>>

\* Another pid: the window ends before it, if it is in the window.
Narrow ==
    /\ Scanning
    /\ proc_list[cursor] # last_pid
    /\ next_safe' = IF proc_list[cursor] > last_pid /\ next_safe > proc_list[cursor]
                    THEN proc_list[cursor] ELSE next_safe
    /\ cursor' = cursor + 1
    /\ UNCHANGED <<proc_list, last_pid>>

\* The scan has reached the end of proc_list: last_pid is the new pid.
EndScan ==
    /\ cursor = Len(proc_list) + 1
    /\ ReturnPid(last_pid)
    /\ UNCHANGED <<last_pid, next_safe>>

\* do_wait reaps a child: remove_links takes it off proc_list.  initproc, the
\* first process created, is never reaped.
Reap(i) ==
    /\ cursor = 0
    /\ i \in 1 .. Len(proc_list) - 1
    /\ proc_list' = RemoveAt(proc_list, i)
    /\ UNCHANGED <<last_pid, next_safe, cursor>>

PidNext ==
    \/ TakeFromWindow
    \/ StartScan
    \/ SkipUsed
    \/ Narrow
    \/ EndScan
    \/ \E i \in DOMAIN proc_list : Reap(i)

\* get_pid runs to its end with interrupts off: its steps are taken.
PidSpec == PidInit /\ [][PidNext]_pid_vars /\ WF_pid_vars(SkipUsed \/ Narrow \/ EndScan)

-----------------------------------------------------------------------------
\* get_pid's comment, "alloc a unique pid for process": two live processes
\* never have the same pid, after any history of wrap-arounds and reaps, and
\* no process gets idleproc's pid or one that find_proc rejects.
UniquePids ==
    /\ \A i, j \in DOMAIN proc_list : proc_list[i] = proc_list[j] => i = j
    /\ \A i \in DOMAIN proc_list : proc_list[i] \in 1 .. MAX_PID - 1

\* No pid in use lies strictly between last_pid and next_safe: the window that
\* get_pid trusts without looking is really free.
WindowFree ==
    cursor = 0 =>
        \A i \in DOMAIN proc_list :
            ~(last_pid < proc_list[i] /\ proc_list[i] < next_safe)

\* Every call of get_pid returns, even with the process table as full as
\* do_fork allows: the repeated scans always find a free pid.
GetPidReturns == (cursor # 0) ~> (cursor = 0)

-----------------------------------------------------------------------------
\* What the scan knows of the entries it has passed: they are neither the
\* candidate nor inside the window.
ScannedFree ==
    \A i \in DOMAIN proc_list :
        i < cursor => /\ proc_list[i] # last_pid
                      /\ ~(last_pid < proc_list[i] /\ proc_list[i] < next_safe)

\* The inductive invariant behind UniquePids.
PidInv ==
    /\ PidTypeOK
    /\ UniquePids
    /\ WindowFree
    /\ ScannedFree
    /\ cursor # 0 => last_pid < MAX_PID
    /\ cursor <= Len(proc_list) + 1

=============================================================================

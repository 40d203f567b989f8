-------------------------------- MODULE Pid --------------------------------
(***************************************************************************)
(* The process-id table of kern/proc/pid.c: a hash table of pidinfo        *)
(* structures with one process per slot, the next candidate pid, and the   *)
(* count of allocated pids.  Every operation below runs under pidlock, so  *)
(* it is one atomic step; pid_wait gives the lock up in cv_wait and is     *)
(* therefore two steps (see Proc).  A failed KASSERT sets panic.           *)
(***************************************************************************)
EXTENDS Integers, FiniteSets

CONSTANTS
    PROCS_MAX,      \* slots of the table (128 in kern/limits.h)
    PID_MAX,        \* largest pid (32767 in kern/limits.h)
    Procs,          \* process lifetimes, kproc among them
    kproc,          \* the kernel's own process
    Status,         \* exit statuses a process may pass to proc_exit
    NULL            \* an empty slot of the table, or no process

INVALID_PID == 0
KERNEL_PID == 1
PID_MIN == 2

Slots == 0 .. PROCS_MAX - 1
Pids == 0 .. PID_MAX

\* pi_exitstatus before the exit ("recognizably invalid", 0xbeef)
NoStatus == "0xbeef"

ASSUME SizeAssumption ==
    /\ PROCS_MAX \in Nat
    /\ PROCS_MAX > 1
    /\ PID_MAX \in Nat
    /\ PID_MAX >= PID_MIN + 2 * PROCS_MAX + 5

ASSUME ProcsAssumption ==
    /\ kproc \in Procs
    /\ NULL \notin Procs
    /\ NoStatus \notin Status

(***************************************************************************)
(* struct pidinfo.  pi_proc is auxiliary: the process the entry was        *)
(* allocated for, which no code reads.  The threads asleep on pi_cv are    *)
(* kept by Proc.                                                           *)
(***************************************************************************)
PidInfo == [pi_pid : Pids, pi_ppid : Pids, pi_exited : BOOLEAN,
            pi_exitstatus : Status \cup {NoStatus}, pi_proc : Procs]

ASSUME NullAssumption == NULL \notin PidInfo

VARIABLES
    pidinfo,    \* the table
    nextpid,    \* next candidate pid
    nprocs,     \* number of allocated pids
    p_pid,      \* p_pid of each struct proc, INVALID_PID if it has none
    panic       \* a KASSERT failed and the kernel stopped

pidVars == <<pidinfo, nextpid, nprocs, p_pid, panic>>

Slot(pid) == pid % PROCS_MAX

Used(table) == {i \in Slots : table[i] # NULL}

pidinfo_create(pid, ppid, p) ==
    [pi_pid |-> pid, pi_ppid |-> ppid, pi_exited |-> FALSE,
     pi_exitstatus |-> NoStatus, pi_proc |-> p]

pi_get(table, pid) ==
    IF table[Slot(pid)] # NULL /\ table[Slot(pid)].pi_pid = pid
    THEN table[Slot(pid)] ELSE NULL

pid_bootstrap ==
    /\ pidinfo = [i \in Slots |->
                    IF i = KERNEL_PID
                    THEN pidinfo_create(KERNEL_PID, INVALID_PID, kproc)
                    ELSE NULL]
    /\ nextpid = PID_MIN
    /\ nprocs = 1
    /\ p_pid = [p \in Procs |-> IF p = kproc THEN KERNEL_PID ELSE INVALID_PID]
    /\ panic = FALSE

----------------------------------------------------------------------------
(* pid_alloc *)

\* mutant: inc_nextpid forgets to wrap
AdvanceNoWrap(pid, k) == pid + k

\* k calls of inc_nextpid from pid, for k no larger than the pid range
Advance(pid, k) ==
    IF pid + k > PID_MAX THEN pid + k - (PID_MAX - PID_MIN + 1) ELSE pid + k

MaxLoops == 2 * PROCS_MAX + 5

\* mutants: the loop takes the slot of an exited process, or any slot
StopsAtZombies ==
    {k \in 0 .. MaxLoops :
        LET pi == pidinfo[Slot(Advance(nextpid, k))]
        IN  IF pi = NULL THEN TRUE ELSE pi.pi_exited}

StopsAnywhere == 0 .. MaxLoops

\* numbers of loop iterations after which pid_alloc's loop may stop
Stops == {k \in 0 .. MaxLoops : pidinfo[Slot(Advance(nextpid, k))] = NULL}

\* the candidate at which pid_alloc's loop does stop
Candidate ==
    Advance(nextpid, CHOOSE k \in Stops : \A j \in Stops : k <= j)


pid_alloc_full == nprocs = PROCS_MAX

\* EAGAIN, by process p
pid_alloc_eagain(p) ==
    /\ pid_alloc_full
    /\ panic' = (p_pid[p] = INVALID_PID)
    /\ UNCHANGED <<pidinfo, nextpid, nprocs, p_pid>>

\* ENOMEM from pidinfo_create: nextpid stays where the loop left it
pid_alloc_enomem(p) ==
    /\ ~pid_alloc_full
    /\ panic' = (p_pid[p] = INVALID_PID \/ Stops = {})
    /\ nextpid' = IF Stops = {} THEN nextpid ELSE Candidate
    /\ UNCHANGED <<pidinfo, nprocs, p_pid>>

\* process p obtains a pid for the new process c
pid_alloc(p, c) ==
    /\ ~pid_alloc_full
    /\ IF p_pid[p] = INVALID_PID \/ Stops = {}
       THEN /\ panic' = TRUE
            /\ UNCHANGED <<pidinfo, nextpid, nprocs, p_pid>>
       ELSE /\ pidinfo' = [pidinfo EXCEPT ![Slot(Candidate)] =
                              pidinfo_create(Candidate, p_pid[p], c)]
            /\ nprocs' = nprocs + 1
            /\ nextpid' = Advance(Candidate, 1)
            /\ p_pid' = [p_pid EXCEPT ![c] = Candidate]
            /\ UNCHANGED panic

----------------------------------------------------------------------------
(* pid_unalloc, pid_disown, pid_setexitstatus, and the tail of pid_wait *)

\* p takes back the pid of c, which never ran, and clears c's p_pid
pid_unalloc(p, c) ==
    LET them == pi_get(pidinfo, p_pid[c])
    IN  IF /\ p_pid[c] >= PID_MIN
           /\ them # NULL
           /\ ~them.pi_exited
           /\ them.pi_ppid = p_pid[p]
        THEN /\ pidinfo' = [pidinfo EXCEPT ![Slot(p_pid[c])] = NULL]
             /\ nprocs' = nprocs - 1
             /\ p_pid' = [p_pid EXCEPT ![c] = INVALID_PID]
             /\ UNCHANGED <<nextpid, panic>>
        ELSE /\ panic' = TRUE
             /\ UNCHANGED <<pidinfo, nextpid, nprocs, p_pid>>

\* the entry pi once its parent has lost interest
Disowned(pi) ==
    IF pi.pi_exited THEN NULL ELSE [pi EXCEPT !.pi_ppid = INVALID_PID]

\* mutant: nprocs is not decremented when a zombie is disowned
DisownNoCount(p, theirpid) ==
    LET i == Slot(theirpid)
    IN  /\ pidinfo' = [pidinfo EXCEPT ![i] = Disowned(pidinfo[i])]
        /\ UNCHANGED <<nprocs, nextpid, p_pid, panic>>

\* p gives up waiting for its child theirpid
pid_disown(p, theirpid) ==
    LET i == Slot(theirpid)
    IN  IF pi_get(pidinfo, theirpid) # NULL /\ pidinfo[i].pi_ppid = p_pid[p]
        THEN /\ pidinfo' = [pidinfo EXCEPT ![i] = Disowned(pidinfo[i])]
             /\ nprocs' = IF pidinfo[i].pi_exited THEN nprocs - 1 ELSE nprocs
             /\ UNCHANGED <<nextpid, p_pid, panic>>
        ELSE /\ panic' = TRUE
             /\ UNCHANGED <<pidinfo, nextpid, nprocs, p_pid>>

\* mutant: an exiting process leaves its children alone
KeepChildren(pid) == pidinfo

\* the table after the process with this pid disowned all its children
DisownChildren(pid) ==
    [i \in Slots |-> IF pidinfo[i] # NULL /\ pidinfo[i].pi_ppid = pid
                     THEN Disowned(pidinfo[i]) ELSE pidinfo[i]]

\* the entry of an exiting process, once the status is in it
ExitedEntry(us, status) ==
    IF us.pi_ppid = INVALID_PID
    THEN NULL
    ELSE [us EXCEPT !.pi_exited = TRUE, !.pi_exitstatus = status]

pid_setexitstatus(p, status) ==
    LET table == DisownChildren(p_pid[p])
        us == pi_get(table, p_pid[p])
        after == [table EXCEPT ![Slot(p_pid[p])] = ExitedEntry(us, status)]
    IN  IF p_pid[p] # INVALID_PID /\ us # NULL
        THEN /\ pidinfo' = after
             /\ nprocs' = nprocs - Cardinality(Used(pidinfo) \ Used(after))
             /\ p_pid' = [p_pid EXCEPT ![p] = INVALID_PID]
             /\ UNCHANGED <<nextpid, panic>>
        ELSE /\ panic' = TRUE
             /\ UNCHANGED <<pidinfo, nextpid, nprocs, p_pid>>

\* mutant: any process may be waited for, own child or not
WaitCheckAnyone(p, theirpid) ==
    LET them == pi_get(pidinfo, theirpid)
    IN  CASE theirpid = p_pid[p] -> "EINVAL"
          [] theirpid # p_pid[p] /\ them = NULL -> "ESRCH"
          [] theirpid # p_pid[p] /\ them # NULL ->
                IF them.pi_exited THEN "collect" ELSE "sleep"

\* What pid_wait(theirpid) does first, called by p
pid_wait_check(p, theirpid) ==
    CASE theirpid = p_pid[p] -> "EINVAL"
      [] theirpid # p_pid[p] /\ theirpid <= INVALID_PID -> "ENOSYS"
      [] theirpid # p_pid[p] /\ theirpid > INVALID_PID ->
            LET them == pi_get(pidinfo, theirpid)
            IN  CASE them = NULL -> "ESRCH"
                  [] them # NULL /\ them.pi_ppid # p_pid[p] -> "EPERM"
                  [] them # NULL /\ them.pi_ppid = p_pid[p] ->
                        IF them.pi_exited THEN "collect" ELSE "sleep"

\* mutant: the entry is left in the table
CollectKeepsEntry(theirpid) == UNCHANGED <<pidinfo, nextpid, nprocs, p_pid, panic>>

\* The tail of pid_wait, after a possible cv_wait during which the pointer to
\* the entry was kept: an entry that is gone, or not exited, is a panic.
pid_wait_collect(theirpid) ==
    IF pi_get(pidinfo, theirpid) # NULL /\ pidinfo[Slot(theirpid)].pi_exited
    THEN /\ pidinfo' = [pidinfo EXCEPT ![Slot(theirpid)] = NULL]
         /\ nprocs' = nprocs - 1
         /\ UNCHANGED <<nextpid, p_pid, panic>>
    ELSE /\ panic' = TRUE
         /\ UNCHANGED <<pidinfo, nextpid, nprocs, p_pid>>
=============================================================================

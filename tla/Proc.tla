-------------------------------- MODULE Proc --------------------------------
(***************************************************************************)
(* The life of a process: kern/proc/proc.c, kern/syscall/proc_syscalls.c   *)
(* and the program launcher of kern/main/menu.c, over the table of Pid.    *)
(* Processes are single-threaded (design/procsyscalls.txt), so a process   *)
(* is in one place at a time, which pc records.                            *)
(***************************************************************************)
EXTENDS Pid

VARIABLES
    pc,         \* where each process is
    child,      \* the child a process in sys_fork is making
    wpid,       \* the pid a process in cv_wait waits for
    exitcode,   \* auxiliary: what the process passed to pid_setexitstatus
    kids,       \* pids fork gave a process that it has not waited for yet
    got         \* the last status pid_wait gave each process

procVars == <<pc, child, wpid, exitcode, kids, got>>
vars == <<pidVars, procVars>>

(***************************************************************************)
(* none     no struct proc                                                 *)
(* embryo   proc_create and pid_alloc done, no thread yet                  *)
(* user     its thread runs and may make any call                          *)
(* fork     in sys_fork (or the menu), between pid_alloc and thread_fork   *)
(* sleep    in cv_wait on the pi_cv of the child wpid                      *)
(* woken    taken off pi_cv's wait channel, has yet to retake pidlock      *)
(* exiting  past pid_setexitstatus, before proc_destroy                    *)
(***************************************************************************)
Places == {"none", "embryo", "user", "fork", "sleep", "woken", "exiting"}

Init ==
    /\ pid_bootstrap
    /\ pc = [p \in Procs |-> IF p = kproc THEN "user" ELSE "none"]
    /\ child = [p \in Procs |-> NULL]
    /\ wpid = [p \in Procs |-> INVALID_PID]
    /\ exitcode = [p \in Procs |-> NoStatus]
    /\ kids = [p \in Procs |-> {}]
    /\ got = [p \in Procs |-> NoStatus]

\* c can name a new process: no struct proc and no table entry is left of it
Unused(c) ==
    /\ pc[c] = "none"
    /\ \A i \in Used(pidinfo) : pidinfo[i].pi_proc # c

----------------------------------------------------------------------------
(* sys_fork, and proc_create_runprogram called by the menu *)

\* proc_create and pid_alloc succeed: p has a child to finish
ForkAlloc(p, c) ==
    /\ ~panic
    /\ pc[p] = "user"
    /\ Unused(c)
    /\ pid_alloc(p, c)
    /\ pc' = [pc EXCEPT ![p] = "fork", ![c] = "embryo"]
    /\ child' = [child EXCEPT ![p] = c]
    /\ exitcode' = [exitcode EXCEPT ![c] = NoStatus]
    /\ got' = [got EXCEPT ![c] = NoStatus]
    /\ UNCHANGED <<wpid, kids>>

\* pid_alloc fails, and proc_destroy frees the new struct proc
ForkEagain(p) ==
    /\ ~panic
    /\ pc[p] = "user"
    /\ pid_alloc_eagain(p)
    /\ UNCHANGED procVars

ForkEnomem(p) ==
    /\ ~panic
    /\ pc[p] = "user"
    /\ pid_alloc_enomem(p)
    /\ UNCHANGED procVars

\* as_copy, filetable_copy or thread_fork fails: pid_unalloc, proc_destroy
ForkUndo(p) ==
    /\ ~panic
    /\ pc[p] = "fork"
    /\ pid_unalloc(p, child[p])
    /\ pc' = [pc EXCEPT ![p] = "user", ![child[p]] = "none"]
    /\ child' = [child EXCEPT ![p] = NULL]
    /\ UNCHANGED <<wpid, exitcode, kids, got>>

\* thread_fork starts the child, and p knows its pid
ForkDone(p) ==
    /\ ~panic
    /\ pc[p] = "fork"
    /\ pc' = [pc EXCEPT ![p] = "user", ![child[p]] = "user"]
    /\ kids' = [kids EXCEPT ![p] = @ \cup {p_pid[child[p]]}]
    /\ child' = [child EXCEPT ![p] = NULL]
    /\ UNCHANGED <<pidVars, wpid, exitcode, got>>

\* common_prog when thread_fork fails: proc_destroy without pid_unalloc
MenuForkFails ==
    /\ ~panic
    /\ pc[kproc] = "fork"
    /\ panic' = (p_pid[child[kproc]] # INVALID_PID)
    /\ pc' = [pc EXCEPT ![kproc] = "user", ![child[kproc]] = "none"]
    /\ child' = [child EXCEPT ![kproc] = NULL]
    /\ UNCHANGED <<pidinfo, nextpid, nprocs, p_pid,
                   wpid, exitcode, kids, got>>

----------------------------------------------------------------------------
(* sys_waitpid, the menu's pid_wait, and pid_disown *)

\* pid_wait on a child that has exited
WaitCollect(p, theirpid) ==
    /\ ~panic
    /\ pc[p] = "user"
    /\ pid_wait_check(p, theirpid) = "collect"
    /\ pid_wait_collect(theirpid)
    /\ got' = [got EXCEPT ![p] = pidinfo[Slot(theirpid)].pi_exitstatus]
    /\ kids' = [kids EXCEPT ![p] = @ \ {theirpid}]
    /\ UNCHANGED <<pc, child, wpid, exitcode>>

\* pid_wait on a child that runs: cv_wait gives up pidlock
WaitSleep(p, theirpid) ==
    /\ ~panic
    /\ pc[p] = "user"
    /\ pid_wait_check(p, theirpid) = "sleep"
    /\ pc' = [pc EXCEPT ![p] = "sleep"]
    /\ wpid' = [wpid EXCEPT ![p] = theirpid]
    /\ UNCHANGED <<pidVars, child, exitcode, kids, got>>

\* cv_wait returns with pidlock; the test of pi_exited is not repeated
WaitResume(p) ==
    /\ ~panic
    /\ pc[p] = "woken"
    /\ pid_wait_collect(wpid[p])
    /\ got' = [got EXCEPT ![p] =
                  IF pi_get(pidinfo, wpid[p]) = NULL THEN NoStatus
                  ELSE pidinfo[Slot(wpid[p])].pi_exitstatus]
    /\ kids' = [kids EXCEPT ![p] = @ \ {wpid[p]}]
    /\ pc' = [pc EXCEPT ![p] = "user"]
    /\ wpid' = [wpid EXCEPT ![p] = INVALID_PID]
    /\ UNCHANGED <<child, exitcode>>

\* pid_disown, which kern/test/waittest.c calls on children of the caller
Disown(p, theirpid) ==
    /\ ~panic
    /\ pc[p] = "user"
    /\ theirpid \in kids[p]
    /\ pid_disown(p, theirpid)
    /\ kids' = [kids EXCEPT ![p] = @ \ {theirpid}]
    /\ UNCHANGED <<pc, child, wpid, exitcode, got>>

----------------------------------------------------------------------------
(* proc_exit, called by sys__exit, kill_curthread and cmd_progthread *)

\* mutant: the broadcast is forgotten
NoWaiters(pid) == {}

\* the threads that cv_broadcast(us->pi_cv) wakes
Waiters(pid) == {p \in Procs : pc[p] = "sleep" /\ wpid[p] = pid}

\* pid_setexitstatus: only a process with an interested parent broadcasts
Exit(p, status) ==
    /\ ~panic
    /\ p # kproc
    /\ pc[p] = "user"
    /\ pid_setexitstatus(p, status)
    /\ LET us == pi_get(DisownChildren(p_pid[p]), p_pid[p])
           woken == IF us # NULL /\ us.pi_ppid # INVALID_PID
                    THEN Waiters(p_pid[p]) ELSE {}
       IN  pc' = [q \in Procs |-> CASE q = p -> "exiting"
                                    [] q \in woken \ {p} -> "woken"
                                    [] OTHER -> pc[q]]
    /\ exitcode' = [exitcode EXCEPT ![p] = status]
    /\ kids' = [kids EXCEPT ![p] = {}]
    /\ UNCHANGED <<child, wpid, got>>

\* the thread moves to kproc, proc_destroy frees p, thread_exit
Destroy(p) ==
    /\ ~panic
    /\ pc[p] = "exiting"
    /\ panic' = (p_pid[p] # INVALID_PID)
    /\ pc' = [pc EXCEPT ![p] = "none"]
    /\ UNCHANGED <<pidinfo, nextpid, nprocs, p_pid,
                   child, wpid, exitcode, kids, got>>

----------------------------------------------------------------------------

Next ==
    \E p \in Procs :
        \/ \E c \in Procs : ForkAlloc(p, c)
        \/ ForkEagain(p)
        \/ ForkEnomem(p)
        \/ ForkUndo(p)
        \/ ForkDone(p)
        \/ \E theirpid \in Pids : WaitCollect(p, theirpid)
        \/ \E theirpid \in Pids : WaitSleep(p, theirpid)
        \/ WaitResume(p)
        \/ \E theirpid \in Pids : Disown(p, theirpid)
        \/ \E status \in Status : Exit(p, status)
        \/ Destroy(p)

Spec == Init /\ [][Next]_vars

\* Once in the kernel a process is scheduled again and gets pidlock in the end;
\* when a program forks, waits or exits is its own affair.
Fairness ==
    \A p \in Procs :
        /\ WF_vars(ForkUndo(p) \/ ForkDone(p))
        /\ WF_vars(WaitResume(p))
        /\ WF_vars(Destroy(p))

FairSpec == Spec /\ Fairness

\* Spec and the error path of the menu's common_prog
MenuSpec == Init /\ [][Next \/ MenuForkFails]_vars

----------------------------------------------------------------------------
(* Properties *)

Live(p) == pc[p] \in {"embryo", "user", "fork", "sleep", "woken"}

\* Every variable has its type: the fields of struct proc and struct pidinfo.
TypeOK ==
    /\ pidinfo \in [Slots -> PidInfo \cup {NULL}]
    /\ nextpid \in PID_MIN .. PID_MAX
    /\ nprocs \in Int
    /\ p_pid \in [Procs -> Pids]
    /\ panic \in BOOLEAN
    /\ pc \in [Procs -> Places]
    /\ child \in [Procs -> Procs \cup {NULL}]
    /\ wpid \in [Procs -> Pids]
    /\ exitcode \in [Procs -> Status \cup {NoStatus}]
    /\ kids \in [Procs -> SUBSET Pids]
    /\ got \in [Procs -> Status \cup {NoStatus}]

\* No KASSERT of pid.c or proc.c ever fails: the pid_alloc loop finds a slot
\* within its count, the pointer pid_wait keeps across cv_wait is still the
\* exited child, pid_unalloc and pid_disown find the caller's own child, and
\* proc_destroy never sees a process that still has a pid.
NoPanic == ~panic

\* pi_get finds what pi_put stored: an entry sits in the slot its pid hashes
\* to, and nprocs, which pid_alloc trusts to bound its loop, is exact.
TableConsistent ==
    /\ \A i \in Used(pidinfo) : Slot(pidinfo[i].pi_pid) = i
    /\ nprocs = Cardinality(Used(pidinfo))

\* A process owns its pid from pid_alloc to pid_setexitstatus: the entry is in
\* the table, is its own, and is not marked exited; so no two live processes
\* share a pid, and a pid is not reused while a parent may still wait for it.
PidOwned ==
    \A p \in Procs :
        IF Live(p)
        THEN LET us == pi_get(pidinfo, p_pid[p])
             IN  us # NULL /\ us.pi_proc = p /\ ~us.pi_exited
        ELSE p_pid[p] = INVALID_PID

\* A recorded parent is a live process, so a later process that is given the
\* pid of a dead parent never inherits its children; and an exited entry has
\* such a parent: what nobody can wait for is freed ("If pi_ppid is INVALID_PID
\* and pi_exited is true, the structure can be freed").
ParentsLive ==
    \A i \in Used(pidinfo) :
        IF pidinfo[i].pi_ppid = INVALID_PID
        THEN ~pidinfo[i].pi_exited
        ELSE \E p \in Procs : Live(p) /\ p_pid[p] = pidinfo[i].pi_ppid

\* pid_wait need not loop on the cv: a sleeping parent's child has not exited
\* (no wakeup was lost), a woken parent's child has, and in both cases the
\* entry is still the child's.
WaitSound ==
    \A p \in Procs :
        pc[p] \in {"sleep", "woken"} =>
            LET them == pi_get(pidinfo, wpid[p])
            IN  /\ them # NULL
                /\ them.pi_ppid = p_pid[p]
                /\ (them.pi_exited <=> pc[p] = "woken")

\* pid_wait accepts exactly the children a process still has to wait for: no
\* child is refused with ESRCH or EPERM, and no other process is collected.
WaitExactlyOwnKids ==
    \A p \in Procs : pc[p] = "user" =>
        \A q \in Pids :
            (pid_wait_check(p, q) \in {"sleep", "collect"}) <=> (q \in kids[p])

\* A zombie keeps its status until its parent collects it or exits: no other
\* step changes or frees the entry of an exited process.
ZombieKept ==
    [][\A i \in Slots :
          pidinfo[i] # NULL =>
            (pidinfo[i].pi_exited /\ pidinfo'[i] # pidinfo[i] =>
                \E p \in Procs :
                    /\ p_pid[p] = pidinfo[i].pi_ppid
                    /\ \/ kids'[p] = kids[p] \ {pidinfo[i].pi_pid}
                       \/ pc'[p] = "exiting")]_vars

\* pid_wait returns: a parent asleep on a child that has exited gets to run
\* again (that it gets the child's own status is ImplementsWaitExit).
WaitReturns ==
    \A p \in Procs :
        (/\ pc[p] \in {"sleep", "woken"}
         /\ pi_get(pidinfo, wpid[p]) # NULL
         /\ pi_get(pidinfo, wpid[p]).pi_exited)
            ~> (pc[p] = "user")

----------------------------------------------------------------------------
(* What makes the safety properties inductive *)

\* pids in the table are valid, a child's is one pid_alloc hands out, and no
\* process is its own parent
EntryPids ==
    \A i \in Used(pidinfo) :
        /\ pidinfo[i].pi_pid # INVALID_PID
        /\ pidinfo[i].pi_ppid # pidinfo[i].pi_pid
        /\ pidinfo[i].pi_ppid # INVALID_PID => pidinfo[i].pi_pid >= PID_MIN

\* an entry is that of the live process with its pid until it is marked exited
EntriesOwned ==
    \A i \in Used(pidinfo) :
        LET p == pidinfo[i].pi_proc
        IN  IF pidinfo[i].pi_exited THEN ~Live(p)
            ELSE Live(p) /\ p_pid[p] = pidinfo[i].pi_pid

\* the child of a process in fork is an embryo with that process as parent
ForkSound ==
    \A p \in Procs : pc[p] = "fork" =>
        /\ child[p] \in Procs
        /\ pc[child[p]] = "embryo"
        /\ pi_get(pidinfo, p_pid[child[p]]).pi_ppid = p_pid[p]

\* a process that has not run has no children
EmbryoChildless ==
    \A c \in Procs : pc[c] = "embryo" =>
        \A i \in Used(pidinfo) : pidinfo[i].pi_ppid # p_pid[c]

\* a pid a process knows is that of a child which ran
KidsSound ==
    \A p \in Procs : \A q \in kids[p] :
        /\ Live(p)
        /\ pi_get(pidinfo, q) # NULL
        /\ pi_get(pidinfo, q).pi_ppid = p_pid[p]
        /\ pc[pi_get(pidinfo, q).pi_proc] # "embryo"

\* and it knows all of them, but for the one it is making
KidsComplete ==
    \A i \in Used(pidinfo) : \A p \in Procs :
        (Live(p) /\ pidinfo[i].pi_ppid = p_pid[p]) =>
            \/ pidinfo[i].pi_pid \in kids[p]
            \/ pc[p] = "fork" /\ p_pid[child[p]] = pidinfo[i].pi_pid

IInv ==
    /\ TypeOK
    /\ NoPanic
    /\ TableConsistent
    /\ EntryPids
    /\ EntriesOwned
    /\ PidOwned
    /\ ParentsLive
    /\ WaitSound
    /\ ForkSound
    /\ EmbryoChildless
    /\ KidsSound
    /\ KidsComplete
=============================================================================

------------------------------- MODULE Semfs --------------------------------
(***************************************************************************)
(* The names, vnodes and objects of semfs: kern/fs/semfs/semfs_vnops.c and *)
(* semfs_obj.c, with vnode_decref of kern/vfs/vnode.c.                     *)
(*                                                                         *)
(* A semaphore lives in the table semfs_sems while it has a directory      *)
(* entry (sems_linked) or a vnode (sems_hasvnode).  The entry is under     *)
(* semfs_dirlock, the vnode under semfs_tablelock, and the two flags are   *)
(* read and written by remove and by reclaim under different locks; the    *)
(* steps below keep those reads and writes apart.  A section that holds a  *)
(* lock and touches nothing outside of it is one step.  The vnode of the   *)
(* root directory, which has no semaphore, is left out.                    *)
(***************************************************************************)
EXTENDS Naturals, FiniteSets

CONSTANTS
    Threads,
    Names,
    Sems,           \* struct semfs_sem
    NULL

ASSUME SemfsAssumption ==
    /\ NULL \notin Threads \cup Sems
    /\ IsFiniteSet(Threads) /\ IsFiniteSet(Sems)

VARIABLES
    semfs_dents,    \* the directory: the number under each name
    semfs_sems,     \* the table: the semaphore with each number
    vn_refcount,    \* references to the vnode of each number; 0 if it has none
    allocated,      \* the semaphores that exist
    sems_linked, sems_hasvnode, sems_holder,
    dirlock, tablelock,
    open,           \* the number of the vnode a thread holds a reference to
    pc, arg, panic

sems == <<allocated, sems_linked, sems_hasvnode, sems_holder>>
tables == <<semfs_dents, semfs_sems, vn_refcount>>
locks == <<dirlock, tablelock>>
vars == <<tables, sems, locks, open, pc, arg, panic>>

Semnums == 0 .. Cardinality(Sems) - 1
None == Cardinality(Sems)       \* no number

\* name, num, sem: the locals; new: whether creat made the semaphore.
NoArg == [name |-> NULL, num |-> None, sem |-> NULL, new |-> FALSE, result |-> "ok"]

Init ==
    /\ semfs_dents = [n \in Names |-> None]
    /\ semfs_sems = [i \in Semnums |-> NULL]
    /\ vn_refcount = [i \in Semnums |-> 0]
    /\ allocated = {}
    /\ sems_linked = [s \in Sems |-> FALSE]
    /\ sems_hasvnode = [s \in Sems |-> FALSE]
    /\ sems_holder = [s \in Sems |-> NULL]
    /\ dirlock = NULL /\ tablelock = NULL
    /\ open = [t \in Threads |-> None]
    /\ pc = [t \in Threads |-> "idle"]
    /\ arg = [t \in Threads |-> NoArg]
    /\ panic = "none"

\* A kernel that has panicked stops.
At(t, label) == panic = "none" /\ pc[t] = label

Goto(t, label) == pc' = [pc EXCEPT ![t] = label]

\* The end of an operation.
Done(t) == Goto(t, "idle") /\ arg' = [arg EXCEPT ![t] = NoArg]

\* The end of an operation that holds semfs_dirlock.
DoneDir(t) == Done(t) /\ dirlock' = NULL

\* semfs_sem_destroy of s, whose fields the next semfs_sem_create sets.
Destroyed(s) ==
    /\ allocated' = allocated \ {s}
    /\ sems_linked' = [sems_linked EXCEPT ![s] = FALSE]
    /\ sems_hasvnode' = [sems_hasvnode EXCEPT ![s] = FALSE]

----------------------------------------------------------------------------
(* semfs_lookup and semfs_creat *)

StartDir(t) ==
    /\ At(t, "idle")
    /\ dirlock = NULL
    /\ dirlock' = t
    /\ UNCHANGED <<tables, tablelock, open, panic>>

\* semfs_lookup, or semfs_creat without excl, finds the name.
semfs_lookup(t, n) ==
    /\ StartDir(t)
    /\ open[t] = None
    /\ semfs_dents[n] # None
    /\ Goto(t, "getvnode")
    /\ arg' = [arg EXCEPT ![t].name = n, ![t].num = semfs_dents[n]]
    /\ UNCHANGED sems

\* semfs_creat does not find it and makes a semaphore.
semfs_creat(t, n, s) ==
    /\ StartDir(t)
    /\ open[t] = None
    /\ semfs_dents[n] = None
    /\ s \notin allocated
    /\ allocated' = allocated \cup {s}
    /\ Goto(t, "insert")
    /\ arg' = [arg EXCEPT ![t].name = n, ![t].sem = s, ![t].new = TRUE]
    /\ UNCHANGED <<sems_linked, sems_hasvnode, sems_holder>>

\* The smallest unused number.
FreeNum == CHOOSE i \in Semnums :
              semfs_sems[i] = NULL /\ \A j \in Semnums : semfs_sems[j] = NULL => i <= j

semfs_sem_insert(t) ==
    /\ At(t, "insert")
    /\ tablelock = NULL
    /\ semfs_sems' = [semfs_sems EXCEPT ![FreeNum] = arg[t].sem]
    /\ arg' = [arg EXCEPT ![t].num = FreeNum]
    /\ Goto(t, "dent")
    /\ UNCHANGED <<semfs_dents, vn_refcount, sems, locks, open, panic>>

\* The table cannot grow: the semaphore is destroyed again.
InsertFails(t) ==
    /\ At(t, "insert")
    /\ tablelock = NULL
    /\ Destroyed(arg[t].sem)
    /\ DoneDir(t)
    /\ UNCHANGED <<tables, sems_holder, tablelock, open, panic>>

semfs_direntry_create(t) ==
    /\ At(t, "dent")
    /\ semfs_dents' = [semfs_dents EXCEPT ![arg[t].name] = arg[t].num]
    /\ Goto(t, "getvnode")
    /\ UNCHANGED <<semfs_sems, vn_refcount, sems, locks, open, arg, panic>>

\* No memory for the entry, where result is still 0, or for the directory.
DentFails(t, result) ==
    /\ At(t, "dent")
    /\ Goto(t, "uninsert")
    /\ arg' = [arg EXCEPT ![t].result = result]
    /\ UNCHANGED <<tables, sems, locks, open, panic>>

\* Find the vnode or make it.
semfs_getvnode(t) ==
    LET i == arg[t].num
        found == vn_refcount[i] > 0
    IN  /\ At(t, "getvnode")
        /\ tablelock = NULL
        /\ vn_refcount' = [vn_refcount EXCEPT ![i] = @ + 1]
        /\ sems_hasvnode' = IF found THEN sems_hasvnode
                            ELSE [sems_hasvnode EXCEPT ![semfs_sems[i]] = TRUE]
        /\ IF arg[t].new
           THEN /\ Goto(t, "link")
                /\ UNCHANGED <<open, arg, dirlock>>
           ELSE /\ open' = [open EXCEPT ![t] = i]
                /\ DoneDir(t)
        /\ UNCHANGED <<semfs_dents, semfs_sems, allocated, sems_linked, sems_holder,
                       tablelock, panic>>

\* There is no memory for the vnode; creat takes the entry back.
GetvnodeFails(t) ==
    /\ At(t, "getvnode")
    /\ tablelock = NULL
    /\ vn_refcount[arg[t].num] = 0
    /\ IF arg[t].new
       THEN /\ semfs_dents' = [semfs_dents EXCEPT ![arg[t].name] = None]
            /\ Goto(t, "uninsert")
            /\ arg' = [arg EXCEPT ![t].result = "ENOMEM"]
            /\ UNCHANGED dirlock
       ELSE /\ DoneDir(t)
            /\ UNCHANGED semfs_dents
    /\ UNCHANGED <<semfs_sems, vn_refcount, sems, tablelock, open, panic>>

CreatDone(t) ==
    /\ At(t, "link")
    /\ sems_linked' = [sems_linked EXCEPT ![arg[t].sem] = TRUE]
    /\ open' = [open EXCEPT ![t] = arg[t].num]
    /\ DoneDir(t)
    /\ UNCHANGED <<tables, allocated, sems_hasvnode, sems_holder, tablelock, panic>>

\* fail_uninsert, and vfs_open, which asserts that success comes with a vnode.
CreatFails(t) ==
    /\ At(t, "uninsert")
    /\ tablelock = NULL
    /\ semfs_sems' = [semfs_sems EXCEPT ![arg[t].num] = NULL]
    /\ Destroyed(arg[t].sem)
    /\ DoneDir(t)
    /\ panic' = IF arg[t].result = "ok" THEN "no vnode" ELSE panic
    /\ UNCHANGED <<semfs_dents, vn_refcount, sems_holder, tablelock, open>>

----------------------------------------------------------------------------
(* semfs_remove *)

semfs_remove(t, n) ==
    /\ StartDir(t)
    /\ semfs_dents[n] # None
    /\ Goto(t, "getsem")
    /\ arg' = [arg EXCEPT ![t].name = n, ![t].num = semfs_dents[n]]
    /\ UNCHANGED sems

semfs_getsembynum(t) ==
    /\ At(t, "getsem")
    /\ tablelock = NULL
    /\ arg' = [arg EXCEPT ![t].sem = semfs_sems[arg[t].num]]
    /\ Goto(t, "unlink")
    /\ UNCHANGED <<tables, sems, locks, open, panic>>

Unlink(t) ==
    LET s == arg[t].sem
    IN  /\ At(t, "unlink")
        /\ sems_holder[s] = NULL
        /\ sems_holder' = [sems_holder EXCEPT ![s] = t]
        /\ sems_linked' = [sems_linked EXCEPT ![s] = FALSE]
        /\ Goto(t, "unlinked")
        /\ UNCHANGED <<tables, allocated, sems_hasvnode, locks, open, arg, panic>>

\* sems_hasvnode is read with sems_lock and without semfs_tablelock.
TestVnode(t) ==
    LET s == arg[t].sem
    IN  /\ At(t, "unlinked")
        /\ IF sems_hasvnode[s]
           THEN /\ sems_holder' = [sems_holder EXCEPT ![s] = NULL]
                /\ Goto(t, "undent")
           ELSE /\ Goto(t, "free")
                /\ UNCHANGED sems_holder
        /\ UNCHANGED <<tables, allocated, sems_linked, sems_hasvnode, locks, open,
                       arg, panic>>

\* Mutant: the semaphore is left in the table.
RemoveKeeps(t) ==
    /\ At(t, "free")
    /\ tablelock = NULL
    /\ sems_holder' = [sems_holder EXCEPT ![arg[t].sem] = NULL]
    /\ Goto(t, "undent")
    /\ UNCHANGED <<tables, allocated, sems_linked, sems_hasvnode, locks, open, arg,
                   panic>>

RemoveFrees(t) ==
    /\ At(t, "free")
    /\ tablelock = NULL
    /\ semfs_sems' = [semfs_sems EXCEPT ![arg[t].num] = NULL]
    /\ sems_holder' = [sems_holder EXCEPT ![arg[t].sem] = NULL]
    /\ Destroyed(arg[t].sem)
    /\ Goto(t, "undent")
    /\ UNCHANGED <<semfs_dents, vn_refcount, locks, open, arg, panic>>

RemoveDone(t) ==
    /\ At(t, "undent")
    /\ semfs_dents' = [semfs_dents EXCEPT ![arg[t].name] = None]
    /\ DoneDir(t)
    /\ UNCHANGED <<semfs_sems, vn_refcount, sems, tablelock, open, panic>>

----------------------------------------------------------------------------
(* vnode_decref and semfs_reclaim *)

\* The last reference is not dropped but passed to semfs_reclaim.
vnode_decref(t) ==
    LET i == open[t]
    IN  /\ At(t, "idle")
        /\ i # None
        /\ open' = [open EXCEPT ![t] = None]
        /\ IF vn_refcount[i] > 1
           THEN /\ vn_refcount' = [vn_refcount EXCEPT ![i] = @ - 1]
                /\ UNCHANGED <<pc, arg>>
           ELSE /\ Goto(t, "reclaim")
                /\ arg' = [arg EXCEPT ![t].num = i]
                /\ UNCHANGED vn_refcount
        /\ UNCHANGED <<semfs_dents, semfs_sems, sems, locks, panic>>

\* Mutant: EBUSY is returned with the table locked.
ReclaimBusyLocked(t) ==
    /\ At(t, "reclaim")
    /\ tablelock = NULL
    /\ vn_refcount[arg[t].num] > 1
    /\ vn_refcount' = [vn_refcount EXCEPT ![arg[t].num] = @ - 1]
    /\ tablelock' = t
    /\ Done(t)
    /\ UNCHANGED <<semfs_dents, semfs_sems, sems, dirlock, open, panic>>

\* Somebody has taken a reference in the meantime: EBUSY.
ReclaimBusy(t) ==
    /\ At(t, "reclaim")
    /\ tablelock = NULL
    /\ vn_refcount[arg[t].num] > 1
    /\ vn_refcount' = [vn_refcount EXCEPT ![arg[t].num] = @ - 1]
    /\ Done(t)
    /\ UNCHANGED <<semfs_dents, semfs_sems, sems, locks, open, panic>>

TakeVnode(t) ==
    LET i == arg[t].num
        s == semfs_sems[i]
    IN  /\ At(t, "reclaim")
        /\ tablelock = NULL
        /\ tablelock' = t
        /\ vn_refcount' = [vn_refcount EXCEPT ![i] = 0]
        /\ sems_hasvnode' = [sems_hasvnode EXCEPT ![s] = FALSE]
        /\ arg' = [arg EXCEPT ![t].sem = s]
        /\ Goto(t, "reclaimed")
        /\ UNCHANGED <<semfs_dents, semfs_sems, allocated, sems_linked, sems_holder,
                       dirlock, open, panic>>

\* Mutant: the reference count is not looked at again.
ReclaimUnchecked(t) == TakeVnode(t)

semfs_reclaim(t) ==
    /\ At(t, "reclaim") /\ vn_refcount[arg[t].num] = 1
    /\ TakeVnode(t)

\* Mutant: reclaim destroys a semaphore that still has a name.
LinkedIgnored(s) == FALSE

StillLinked(s) == sems_linked[s]

\* sems_linked is read with semfs_tablelock and without sems_lock; lock_destroy
\* asserts that nobody holds sems_lock.
ReclaimDone(t) ==
    LET s == arg[t].sem
    IN  /\ At(t, "reclaimed")
        /\ \/ /\ StillLinked(s)
              /\ UNCHANGED <<semfs_sems, allocated, sems_linked, sems_hasvnode, panic>>
           \/ /\ ~StillLinked(s)
              /\ semfs_sems' = [semfs_sems EXCEPT ![arg[t].num] = NULL]
              /\ Destroyed(s)
              /\ panic' = IF sems_holder[s] = NULL THEN panic ELSE "lock held"
        /\ tablelock' = NULL
        /\ Done(t)
        /\ UNCHANGED <<semfs_dents, vn_refcount, sems_holder, dirlock, open>>

----------------------------------------------------------------------------
Step(t) ==
    \/ semfs_sem_insert(t) \/ InsertFails(t)
    \/ semfs_direntry_create(t) \/ \E r \in {"ok", "ENOMEM"} : DentFails(t, r)
    \/ semfs_getvnode(t) \/ GetvnodeFails(t) \/ CreatDone(t) \/ CreatFails(t)
    \/ semfs_getsembynum(t) \/ Unlink(t) \/ TestVnode(t) \/ RemoveFrees(t)
    \/ RemoveDone(t)
    \/ ReclaimBusy(t) \/ semfs_reclaim(t) \/ ReclaimDone(t)

Call(t) ==
    \/ \E n \in Names :
          semfs_lookup(t, n) \/ semfs_remove(t, n) \/ \E s \in Sems : semfs_creat(t, n, s)
    \/ vnode_decref(t)

Halted == panic # "none" /\ UNCHANGED vars

Next == (\E t \in Threads : Call(t) \/ Step(t)) \/ Halted

Spec == Init /\ [][Next]_vars

\* A thread that has started an operation is scheduled again, and gets a lock
\* that becomes free again and again: lock_release wakes its sleepers first come,
\* first served, and only endless barging could starve one.
FairSpec == Spec /\ \A t \in Threads : SF_vars(Step(t))

----------------------------------------------------------------------------
(* Properties *)

\* While nobody has the directory locked, every name in it is the name of one
\* semaphore that exists and is linked: creat, remove and their failures leave
\* no name behind, and reclaim destroys nothing that has one.
NamesLive ==
    panic = "none" /\ dirlock = NULL =>
        /\ \A n \in Names : semfs_dents[n] # None =>
              LET s == semfs_sems[semfs_dents[n]]
              IN  s \in allocated /\ sems_linked[s]
        /\ \A n, m \in Names : semfs_dents[n] = semfs_dents[m] /\ n # m
                                   => semfs_dents[n] = None

\* A reference to a vnode keeps its semaphore: a vnode has one reference for
\* every holder, including a reclaim that has not looked yet, and whoever has
\* one open has a semaphore in the table, although others remove its name and
\* close it at the same time.
OpenLive ==
    panic = "none" =>
        \A i \in Semnums :
            /\ vn_refcount[i] = Cardinality({t \in Threads :
                  \/ open[t] = i
                  \/ arg[t].num = i /\ pc[t] \in {"reclaim", "link"}})
            /\ vn_refcount[i] > 0 =>
                  semfs_sems[i] \in allocated /\ sems_hasvnode[semfs_sems[i]]

\* No semaphore is leaked: one that exists is in the table and has a name, a
\* vnode or an operation at work on it.
NoSemLeak ==
    panic = "none" =>
        \A s \in allocated :
            \/ \E t \in Threads : arg[t].sem = s
            \/ /\ \E i \in Semnums : semfs_sems[i] = s
               /\ sems_linked[s] \/ sems_hasvnode[s]

\* Every operation finishes: the order in which directory, semaphore and table
\* are locked admits no deadlock, and every failure unlocks.
OperationsFinish ==
    \A t \in Threads : (pc[t] # "idle") ~> (pc[t] = "idle" \/ panic # "none")

\* lock_destroy: KASSERT(lock->lk_holder == NULL).
DestroyedUnheld == panic # "lock held"
=============================================================================

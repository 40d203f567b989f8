------------------------------ MODULE SemfsSem ------------------------------
(***************************************************************************)
(* One user-level semaphore of kern/fs/semfs/semfs_vnops.c: read is P,     *)
(* write is V, truncate sets the count.  Every operation holds sems_lock   *)
(* except while it waits on sems_cv, so it is one step up to cv_wait and   *)
(* one step for each return from it; that the lock and the condition       *)
(* variable give these steps is what SynchRefinement shows.                *)
(***************************************************************************)
EXTENDS Naturals, Sequences, FiniteSets

CONSTANTS
    Readers,        \* threads that read
    UINT_MAX        \* the largest count

SemfsSemAssumption == UINT_MAX \in Nat

VARIABLES
    sems_count,
    cv,             \* sleepers on sems_cv, in order
    pc,             \* "idle", "asleep", or "woken" and waiting for sems_lock
    uio_resid       \* what each reader still wants

vars == <<sems_count, cv, pc, uio_resid>>

Counts == 0 .. UINT_MAX

Init ==
    /\ sems_count = 0
    /\ cv = <<>>
    /\ pc = [r \in Readers |-> "idle"]
    /\ uio_resid = [r \in Readers |-> 0]

\* Mutant: the amount is not limited to the count.
TakeAll(resid) == resid

consume(resid) == IF resid > sems_count THEN sems_count ELSE resid

\* The loop of semfs_read with the lock held, for a reader that wants resid.
ReadLoop(r, resid) ==
    LET left == resid - consume(resid)
    IN  /\ sems_count' = sems_count - consume(resid)
        /\ uio_resid' = [uio_resid EXCEPT ![r] = left]
        /\ pc' = [pc EXCEPT ![r] = IF left = 0 THEN "idle" ELSE "asleep"]
        /\ cv' = IF left = 0 THEN cv ELSE Append(cv, r)

semfs_read(r, size) == pc[r] = "idle" /\ ReadLoop(r, size)

ReadResume(r) == pc[r] = "woken" /\ ReadLoop(r, uio_resid[r])

Wake(rs) == pc' = [r \in Readers |-> IF r \in rs THEN "woken" ELSE pc[r]]


\* Nobody, the first sleeper, or all of them.
semfs_wakeup(newcount) ==
    \/ /\ sems_count > 0 \/ newcount = 0 \/ cv = <<>>
       /\ UNCHANGED <<cv, pc>>
    \/ /\ sems_count = 0 /\ newcount = 1 /\ cv # <<>>
       /\ Wake({Head(cv)})
       /\ cv' = Tail(cv)
    \/ /\ sems_count = 0 /\ newcount > 1 /\ cv # <<>>
       /\ Wake({cv[i] : i \in DOMAIN cv})
       /\ cv' = <<>>


\* An overflow is EFBIG and changes nothing.
semfs_write(size) ==
    LET newcount == (sems_count + size) % (UINT_MAX + 1)
    IN  /\ newcount >= sems_count
        /\ semfs_wakeup(newcount)
        /\ sems_count' = newcount
        /\ UNCHANGED uio_resid

\* Lengths outside the counts are EINVAL or EFBIG.
semfs_truncate(newcount) ==
    /\ semfs_wakeup(newcount)
    /\ sems_count' = newcount
    /\ UNCHANGED uio_resid

Write == \E size \in Counts : semfs_write(size)

Next ==
    \/ \E r \in Readers : ReadResume(r) \/ \E size \in Counts : semfs_read(r, size)
    \/ Write
    \/ \E newcount \in Counts : semfs_truncate(newcount)

Spec == Init /\ [][Next]_vars

----------------------------------------------------------------------------
TypeOK ==
    /\ sems_count \in Counts
    /\ cv \in Seq(Readers)
    /\ pc \in [Readers -> {"idle", "asleep", "woken"}]
    /\ uio_resid \in [Readers -> Counts]


\* "The count will not decrease below zero; attempts to do so will block until
\* other concurrent write operations raise the count again"
\* (man/misc/semfs.html): when there are units to take, a reader is not left
\* asleep with nobody awake who would take them.
NoStrandedReader ==
    sems_count > 0 /\ cv # <<>> => \E r \in Readers : pc[r] = "woken"
=============================================================================

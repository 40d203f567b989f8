------------------------------ MODULE Usemtest -------------------------------
(***************************************************************************)
(* userland/testbin/usemtest: the test of the semaphores of semfs.  The    *)
(* parent drives NUMJOBS children, each through a pair of semaphores; in   *)
(* basetest every process opens them for itself, in conctest the children  *)
(* inherit the parent's open files.                                        *)
(*                                                                         *)
(* A semaphore does what semfs_read and semfs_write promise (Semfs); the   *)
(* lock of an open file is taken as in sys_readwrite.  A fork may fail;    *)
(* the parent then exits, and its children are left asleep.                *)
(***************************************************************************)
EXTENDS Integers, Sequences, FiniteSets

CONSTANTS
    NUMJOBS, ONCELOOPS, TWICELOOPS, THRICELOOPS,
    UsStale,       \* counts that an earlier run may have left in a semaphore
    UsFaults       \* how many forks may fail

VARIABLE us

UsemtestAssumption ==
    /\ NUMJOBS \in Nat \ {0} /\ {ONCELOOPS, TWICELOOPS, THRICELOOPS} \subseteq Nat
    /\ UsStale \subseteq Nat /\ UsFaults \in Nat

LOOPS == ONCELOOPS + 2 * TWICELOOPS + 3 * THRICELOOPS
Jobs == 0 .. NUMJOBS - 1
Parent == NUMJOBS
gosem(i) == <<"g", i>>
waitsem(i) == <<"w", i>>
sems == {gosem(i) : i \in Jobs} \cup {waitsem(i) : i \in Jobs}
Nobody == -1

----------------------------------------------------------------------------
(* The semaphores and the system calls *)

At(p, label) == us.pc[p] = label
Go(s, p, label) == us' = [s EXCEPT !.pc[p] = label]

\* Open files are named after the process that opened them.
usem_init(s, made) ==
    [s EXCEPT !.count = [x \in DOMAIN @ \cup made |-> IF x \in made THEN 0 ELSE @[x]]]
usem_open(s, p, mine) == [s EXCEPT !.fd[p] = [x \in DOMAIN @ |-> IF x \in mine THEN p ELSE @[x]]]
usem_close(s, p, mine) ==
    [s EXCEPT !.fd[p] = [x \in DOMAIN @ |-> IF x \in mine THEN Nobody ELSE @[x]]]
usem_cleanup(s, gone) == [s EXCEPT !.count = [x \in DOMAIN @ \ gone |-> @[x]]]

semfs_isseekable == FALSE

\* The lock of the open file, which sys_readwrite keeps while it waits.
File(p, sem) == <<us.fd[p][sem], sem>>
CanLock(p, sem) == semfs_isseekable => us.holder[File(p, sem)] = Nobody
Locked(s, p, sem, who) ==
    IF semfs_isseekable THEN [s EXCEPT !.holder[File(p, sem)] = who] ELSE s

\* read of one byte: the lock, then the semaphore
P(p, sem, label, next) ==
    \/ At(p, label) /\ CanLock(p, sem) /\ Go(Locked(us, p, sem, p), p, label \o "...")
    \/ /\ At(p, label \o "...") /\ us.count[sem] > 0
       /\ Go([Locked(us, p, sem, Nobody) EXCEPT !.count[sem] = @ - 1], p, next)

\* write of one byte
V(p, sem, label, next, s) ==
    At(p, label) /\ CanLock(p, sem) /\ Go([s EXCEPT !.count[sem] = @ + 1], p, next)

----------------------------------------------------------------------------
(* The children *)

\* say: character by character, so that others may come between
child_plain(i) ==
    \/ us.turn[i] < LOOPS /\ P(i, gosem(i), "P", "say")
    \/ V(i, waitsem(i), "say", "P", [us EXCEPT !.turn[i] = @ + 1])
    \/ At(i, "P") /\ us.turn[i] = LOOPS /\ Go([us EXCEPT !.turn[i] = 0], i, "close")

child_with_own_fd(i) ==
    At(i, "open") /\ Go(usem_open(us, i, {gosem(i), waitsem(i)}), i, "P")

\* usem_close in basetest; and _exit closes what is open
Exit(i) == At(i, "close") /\ Go(usem_close(us, i, sems), i, "exit")

----------------------------------------------------------------------------
(* The parent *)

\* the jobs in the order of their turns: n rounds in which each has m turns
Rounds(n, m) == [k \in 1 .. n * m * NUMJOBS |-> ((k - 1) \div m) % NUMJOBS]
baseparent == Rounds(ONCELOOPS, 1) \o Rounds(TWICELOOPS, 2) \o Rounds(THRICELOOPS, 3)
concparent == Rounds(LOOPS, 1)
Turns == IF us.test = "basetest" THEN baseparent ELSE concparent

k == us.turn[Parent]
Counted(s, n) == [s EXCEPT !.turn[Parent] = n]

\* The semaphores are made; conctest also opens them before it forks.
Begin ==
    /\ At(Parent, "init")
    /\ LET made == usem_init(us, sems)
       IN Go(IF us.test = "conctest" THEN usem_open(made, Parent, sems) ELSE made, Parent, "fork")

fork ==
    /\ At(Parent, "fork")
    /\ \/ /\ k < NUMJOBS
          /\ us' = [Counted(us, k + 1) EXCEPT
                       !.fd[k] = us.fd[Parent],
                       !.pc[k] = IF us.test = "basetest" THEN "open" ELSE "P"]
       \/ k < NUMJOBS /\ us.faults < UsFaults /\ Go([us EXCEPT !.faults = @ + 1], Parent, "exit(1)")
       \/ k = NUMJOBS /\ us.test = "basetest" /\
          Go(usem_open(Counted(us, 1), Parent, sems), Parent, "V")
       \/ k = NUMJOBS /\ us.test = "conctest" /\ Go(Counted(us, 1), Parent, "V")

\* One turn of a job, and the end of all turns.
drive ==
    \/ k <= Len(Turns) /\ V(Parent, gosem(Turns[k]), "V", "P", us)
    \/ k <= Len(Turns) /\ P(Parent, waitsem(Turns[k]), "P", "put")
    \/ At(Parent, "put") /\ Go(Counted(us, k + 1), Parent, "V")
    \/ At(Parent, "V") /\ k > Len(Turns) /\
       Go(IF us.test = "basetest" THEN usem_close(Counted(us, 0), Parent, sems)
          ELSE Counted(us, 0), Parent, "wait")

dowait ==
    /\ At(Parent, "wait") /\ k < NUMJOBS /\ At(k, "exit")
    /\ us' = [Counted(us, k + 1) EXCEPT !.pc[k] = "none"]

\* Everything is closed and removed; after conctest the test has passed.
End ==
    /\ At(Parent, "wait") /\ k = NUMJOBS
    /\ LET removed == usem_cleanup(usem_close(Counted(us, 0), Parent, sems), sems)
       IN IF us.test = "basetest" THEN Go([removed EXCEPT !.test = "conctest"], Parent, "init")
          ELSE Go(removed, Parent, "passed")

\* A run that failed may have left semaphores behind.
UsInit ==
    \E left \in {<<>>} \cup {[x \in sems |-> n] : n \in UsStale} :
       us = [test |-> "basetest", count |-> left, faults |-> 0,
             pc |-> [p \in 0 .. NUMJOBS |-> IF p = Parent THEN "init" ELSE "none"],
             turn |-> [p \in 0 .. NUMJOBS |-> 0],
             fd |-> [p \in 0 .. NUMJOBS |-> [x \in sems |-> Nobody]],
             holder |-> [x \in (0 .. NUMJOBS) \X sems |-> Nobody]]

UsNext ==
    \/ Begin \/ fork \/ drive \/ dowait \/ End
    \/ \E i \in Jobs : child_plain(i) \/ child_with_own_fd(i) \/ Exit(i)

----------------------------------------------------------------------------
(* Properties *)

Printing == {p \in DOMAIN us.pc : us.pc[p] \in {"say", "put"}}

\* usemtest does not hang, also where parent and children read and write through
\* the same open files, and passes with every semaphore closed and removed,
\* whatever counts an earlier run left in them; only when a fork fails are
\* children left.  Its output is not mixed up: one process prints at a time, and
\* a child only in its turn.
UsemtestSound ==
    /\ Cardinality(Printing) <= 1
    /\ \A i \in Jobs : At(i, "say") => Turns[k] = i
    /\ ~ENABLED UsNext => \/ At(Parent, "exit(1)")
                          \/ /\ At(Parent, "passed")
                             /\ us.count = <<>>
                             /\ \A i \in Jobs : At(i, "none")
                             /\ \A p \in DOMAIN us.fd, x \in sems : us.fd[p][x] = Nobody
=============================================================================

------------------------------ MODULE KernTests ------------------------------
(***************************************************************************)
(* The kernel's own tests of threads, semaphores, locks, condition         *)
(* variables and waiting (kern/test/synchtest.c, tt3.c, threadtest.c,      *)
(* waittest.c) and the balloon problem (kern/synchprobs/airballoon.c).     *)
(* The primitives do what Monitor and WaitExit promise of synch.c and      *)
(* pid.c.  A test is one main thread that forks the others; a label in pc  *)
(* is a place where a thread may be held up or be preempted to the effect. *)
(*                                                                         *)
(* Left out: what is printed, except who prints; the matrices of           *)
(* compute_thread; the time cv_wait takes, which cvtestthread compares     *)
(* with 80 us; failures of thread_fork, lock_create and kmalloc, which     *)
(* panic.                                                                  *)
(***************************************************************************)
EXTENDS Integers, FiniteSets, Sequences

CONSTANTS
    KtTests,       \* the tests that are run
    KtThreads,     \* NTHREADS of the tests
    KtLoops,       \* iterations of their loops
    KtCvs,         \* NCVS, and NWAITCHANS
    NROPES,        \* ropes of the balloon
    KtKillers      \* N_LORD_FLOWERKILLER

VARIABLE kt

KernTestsAssumption ==
    /\ {KtThreads, KtLoops, KtCvs, NROPES, KtKillers} \subseteq Nat \ {0}
    /\ KtTests \subseteq {"semtest", "locktest", "cvtest", "cvtest2", "threadtest",
                          "threadtest2", "threadtest3", "waittest", "airballoon"}

----------------------------------------------------------------------------
(* Threads and the primitives *)

Ropes == 0 .. NROPES - 1
Workers == 0 .. KtThreads + KtKillers + 3
Main == KtThreads + KtKillers + 4
Nobody == -1

\* The main thread is at "start"; the others are not forked.
KtInit ==
    \E test \in KtTests :
       kt = [test |-> test,
             pc |-> [t \in Workers \cup {Main} |-> IF t = Main THEN test ELSE "none"],
             i |-> [t \in Workers \cup {Main} |-> 0],
             at |-> [t \in Workers \cup {Main} |-> <<>>],
             sem |-> [s \in {"testsem", "donesem", "gatesem", "exitsem", "wakersem", "tsem"} |->
                         CASE s = "testsem" -> 2 [] s = "wakersem" -> 1 [] OTHER -> 0],
             exitsems |-> [n \in 0 .. KtThreads - 1 |-> 0],
             holder |-> [k \in {"testlock"} |-> Nobody],
             testlocks |-> [n \in 0 .. KtCvs - 1 |-> Nobody],
             rope_locks |-> [r \in Ropes |-> Nobody],
             asleep |-> {},
             testval1 |-> 0, testval2 |-> 0, testval3 |-> 0,
             printing |-> {}, printed |-> KtThreads, wakerdone |-> FALSE,
             pid |-> [n \in 0 .. KtThreads - 1 |-> "gone"], waited |-> <<>>,
             ropes_left |-> NROPES, rope_to_stake |-> [r \in Ropes |-> r],
             stake_to_rope |-> [r \in Ropes |-> r], rope_cut |-> [r \in Ropes |-> 0],
             threads_remaining |-> 2 + KtKillers + 1, freed |-> FALSE, destroyed |-> FALSE,
             bad |-> {}]

At(t, label) == kt.pc[t] = label
Go(t, label, s) == kt' = [s EXCEPT !.pc[t] = label]

\* for (i = 0; i < n; i++): around again, or on.
Loop(t, n, again, on, s) ==
    kt' = IF kt.i[t] + 1 < n THEN [s EXCEPT !.i[t] = @ + 1, !.pc[t] = again]
          ELSE [s EXCEPT !.i[t] = 0, !.pc[t] = on]

P(t, s) == kt.sem[s] > 0
Taken(s) == [kt EXCEPT !.sem[s] = @ - 1]
V(s) == [kt EXCEPT !.sem[s] = @ + 1]

lock_free(k) == kt.holder[k] = Nobody
lock_acquire(t, k) == [kt EXCEPT !.holder[k] = t]
lock_release(k) == [kt EXCEPT !.holder[k] = Nobody]

\* A sleeper of a condition variable or wait channel, until it is woken.
Asleep(t, c) == <<t, c>> \in kt.asleep
wakeall(s, c) == [s EXCEPT !.asleep = {p \in @ : p[2] # c}]
wakeone(s, c) ==
    {[s EXCEPT !.asleep = @ \ {p}] : p \in {q \in s.asleep : q[2] = c}} \cup
    (IF \E q \in s.asleep : q[2] = c THEN {} ELSE {s})

\* thread_fork of thread t, which starts at the label.
thread_fork(s, t, label) == [s EXCEPT !.pc[t] = label]

----------------------------------------------------------------------------
(* synchtest.c *)

semtestthread(t) ==
    \/ At(t, "semtestthread") /\ P(t, "testsem") /\
       Go(t, "st.print", [Taken("testsem") EXCEPT !.printing = @ \cup {t}])
    \/ At(t, "st.print") /\ Go(t, "st.V", [kt EXCEPT !.printing = @ \ {t}])
    \/ At(t, "st.V") /\ Go(t, "exit", V("donesem"))

semtest(t) ==
    \/ At(t, "semtest") /\ P(t, "testsem") /\ Go(t, "sem.2", Taken("testsem"))
    \/ At(t, "sem.2") /\ P(t, "testsem") /\ Go(t, "sem.fork", Taken("testsem"))
    \/ At(t, "sem.fork") /\
       Loop(t, KtThreads, "sem.fork", "sem.V", thread_fork(kt, kt.i[t], "semtestthread"))
    \/ At(t, "sem.V") /\ Go(t, "sem.P", V("testsem"))
    \/ At(t, "sem.P") /\ P(t, "donesem") /\ Loop(t, KtThreads, "sem.V", "sem.again", Taken("donesem"))
    \/ At(t, "sem.again") /\ Go(t, "done", [kt EXCEPT !.sem["testsem"] = @ + 2])

\* The six comparisons of locktestthread.
Matches(num) ==
    /\ kt.testval2 = kt.testval1 * kt.testval1
    /\ kt.testval2 % 3 = (kt.testval3 * kt.testval3) % 3
    /\ kt.testval3 = kt.testval1 % 3
    /\ kt.testval1 = num /\ kt.testval2 = num * num /\ kt.testval3 = num % 3

\* fail() ends the thread.
fail(t) ==
    \/ At(t, "fail") /\ Go(t, "fail.V", [lock_release("testlock") EXCEPT !.bad = @ \cup {"mismatch"}])
    \/ At(t, "fail.V") /\ Go(t, "exit", V("donesem"))

locktestthread(t) ==
    \/ At(t, "locktestthread") /\ lock_free("testlock") /\ Go(t, "lt.1", lock_acquire(t, "testlock"))
    \/ At(t, "lt.1") /\ Go(t, "lt.2", [kt EXCEPT !.testval1 = t])
    \/ At(t, "lt.2") /\ Go(t, "lt.3", [kt EXCEPT !.testval2 = t * t])
    \/ At(t, "lt.3") /\ Go(t, "lt.check", [kt EXCEPT !.testval3 = t % 3])
    \/ At(t, "lt.check") /\ Go(t, IF Matches(t) THEN "lt.release" ELSE "fail", kt)
    \/ At(t, "lt.release") /\ Loop(t, KtLoops, "locktestthread", "lt.V", lock_release("testlock"))
    \/ At(t, "lt.V") /\ Go(t, "exit", V("donesem"))
    \/ fail(t)

\* locktest and cvtest fork the threads and wait for all.
locktest(t) ==
    \/ At(t, "locktest") /\
       Loop(t, KtThreads, "locktest", "P(donesem)", thread_fork(kt, kt.i[t], "locktestthread"))
    \/ At(t, "P(donesem)") /\ P(t, "donesem") /\
       Loop(t, KtThreads, "P(donesem)", "done", Taken("donesem"))

cvtestthread(t) ==
    \/ At(t, "cvtestthread") /\ lock_free("testlock") /\ Go(t, "cv.while", lock_acquire(t, "testlock"))
    \/ At(t, "cv.while") /\ kt.testval1 # t /\
       Go(t, "cv.asleep", [lock_release("testlock") EXCEPT !.asleep = @ \cup {<<t, "testcv">>}])
    \/ At(t, "cv.asleep") /\ ~Asleep(t, "testcv") /\ lock_free("testlock") /\
       Go(t, "cv.while", lock_acquire(t, "testlock"))
    \/ At(t, "cv.while") /\ kt.testval1 = t /\
       Go(t, "cv.turn", [kt EXCEPT !.printed = t,
                                   !.bad = IF (t + 1) % KtThreads = kt.printed % KtThreads
                                           THEN @ ELSE @ \cup {"order"}])
    \/ At(t, "cv.turn") /\
       Go(t, "cv.release",
          wakeall([kt EXCEPT !.testval1 = (@ + KtThreads - 1) % KtThreads], "testcv"))
    \/ At(t, "cv.release") /\ Loop(t, KtLoops, "cvtestthread", "cv.V", lock_release("testlock"))
    \/ At(t, "cv.V") /\ Go(t, "exit", V("donesem"))

cvtest(t) ==
    \/ At(t, "cvtest") /\ Go(t, "cv.fork", [kt EXCEPT !.testval1 = KtThreads - 1])
    \/ At(t, "cv.fork") /\
       Loop(t, KtThreads, "cv.fork", "P(donesem)", thread_fork(kt, kt.i[t], "cvtestthread"))

\* The lock and condition variable of the i-th turn, around the NCVS pairs.
Pair(t) == kt.i[t] % KtCvs
Turns == KtLoops * KtCvs

sleepthread(t) ==
    \/ At(t, "sleepthread") /\ kt.testlocks[Pair(t)] = Nobody /\
       Go(t, "sl.V", [kt EXCEPT !.testlocks[Pair(t)] = t])
    \/ At(t, "sl.V") /\ Go(t, "sl.wait", V("gatesem"))
    \/ At(t, "sl.wait") /\
       Go(t, "sl.asleep", [kt EXCEPT !.testlocks[Pair(t)] = Nobody,
                                     !.asleep = @ \cup {<<t, Pair(t)>>}])
    \/ At(t, "sl.asleep") /\ ~Asleep(t, Pair(t)) /\ kt.testlocks[Pair(t)] = Nobody /\
       Go(t, "sl.release", [kt EXCEPT !.testlocks[Pair(t)] = t])
    \/ At(t, "sl.release") /\
       Loop(t, Turns, "sleepthread", "V(exitsem)", [kt EXCEPT !.testlocks[Pair(t)] = Nobody])
    \/ At(t, "V(exitsem)") /\ Go(t, "exit", V("exitsem"))


wakethread(t) ==
    \/ At(t, "wakethread") /\ P(t, "gatesem") /\ Go(t, "wk.lock", Taken("gatesem"))
    \/ At(t, "wk.lock") /\ kt.testlocks[Pair(t)] = Nobody /\
       Go(t, "wk.signal", [kt EXCEPT !.testlocks[Pair(t)] = t])
    \/ At(t, "wk.signal") /\ \E s \in wakeone(kt, Pair(t)) : Go(t, "wk.release", s)
    \/ At(t, "wk.release") /\
       Loop(t, Turns, "wakethread", "V(exitsem)", [kt EXCEPT !.testlocks[Pair(t)] = Nobody])

\* The locks, condition variables and semaphores are destroyed at the end:
\* nobody may hold a lock or sleep.
cvtest2(t) ==
    \/ At(t, "cvtest2") /\ Go(t, "cv2.wake", thread_fork(kt, 0, "sleepthread"))
    \/ At(t, "cv2.wake") /\ Go(t, "cv2.P", thread_fork(kt, 1, "wakethread"))
    \/ At(t, "cv2.P") /\ P(t, "exitsem") /\ Loop(t, 2, "cv2.P", "cv2.destroy", Taken("exitsem"))
    \/ At(t, "cv2.destroy") /\
       Go(t, "done", IF kt.asleep = {} /\ \A n \in DOMAIN kt.testlocks : kt.testlocks[n] = Nobody
                     THEN kt ELSE [kt EXCEPT !.bad = @ \cup {"destroy"}])

----------------------------------------------------------------------------
(* threadtest.c, tt3.c *)

\* A loud or quiet thread: only the V at its end is seen by others.
loudthread(t) == At(t, "loudthread") /\ Go(t, "exit", V("tsem"))
quietthread(t) ==
    \/ At(t, "quietthread") /\ Loop(t, 2, "quietthread", "qt.V", kt)
    \/ At(t, "qt.V") /\ Go(t, "exit", V("tsem"))

runthreads(t) ==
    \/ At(t, "runthreads") /\
       Loop(t, KtThreads, "runthreads", "P(tsem)",
            thread_fork(kt, kt.i[t], IF kt.test = "threadtest" THEN "loudthread" ELSE "quietthread"))
    \/ At(t, "P(tsem)") /\ P(t, "tsem") /\ Loop(t, KtThreads, "P(tsem)", "done", Taken("tsem"))

threadtest(t) == At(t, "threadtest") /\ Go(t, "runthreads", kt)
threadtest2(t) == At(t, "threadtest2") /\ Go(t, "runthreads", kt)

\* A random wait channel each time; the channel's spinlock makes going to
\* sleep one step.
sleepalot_thread(t) ==
    \/ At(t, "sleepalot_thread") /\ \E n \in 0 .. KtCvs - 1 :
          Go(t, "sa.asleep", [kt EXCEPT !.asleep = @ \cup {<<t, n>>}])
    \/ At(t, "sa.asleep") /\ (\A p \in kt.asleep : p[1] # t) /\
       Loop(t, KtLoops, "sleepalot_thread", "V(done)", kt)

waker_thread(t) ==
    \/ At(t, "waker_thread") /\ P(t, "wakersem") /\ Go(t, "wa.look", Taken("wakersem"))
    \/ At(t, "wa.look") /\
       Go(t, IF kt.wakerdone THEN "V(done)" ELSE "wa.wake", V("wakersem"))
    \/ At(t, "wa.wake") /\ \E n \in 0 .. KtCvs - 1 :
          Loop(t, KtLoops, "wa.wake", "waker_thread", wakeall(kt, n))

compute_thread(t) == At(t, "compute_thread") /\ Loop(t, KtLoops, "compute_thread", "V(done)", kt)

VDone(t) == At(t, "V(done)") /\ Go(t, "exit", V("donesem"))

\* KtThreads sleepers, the waker, a computing thread.
make_sleepalots(t) ==
    \/ At(t, "make_sleepalots") /\
       Loop(t, KtThreads, "make_sleepalots", "tt3.waker", thread_fork(kt, kt.i[t], "sleepalot_thread"))
    \/ At(t, "tt3.waker") /\ Go(t, "make_computes", thread_fork(kt, KtThreads, "waker_thread"))
make_computes(t) ==
    At(t, "make_computes") /\ Go(t, "finish", thread_fork(kt, KtThreads + 1, "compute_thread"))

finish(t) ==
    \/ At(t, "finish") /\ P(t, "donesem") /\
       Loop(t, KtThreads + 1, "finish", "fi.lock", Taken("donesem"))
    \/ At(t, "fi.lock") /\ P(t, "wakersem") /\ Go(t, "fi.set", Taken("wakersem"))
    \/ At(t, "fi.set") /\ Go(t, "fi.V", [kt EXCEPT !.wakerdone = TRUE])
    \/ At(t, "fi.V") /\ Go(t, "fi.P", V("wakersem"))
    \/ At(t, "fi.P") /\ P(t, "donesem") /\ Go(t, "done", Taken("donesem"))

setup(t) == At(t, "threadtest3") /\ Go(t, "make_sleepalots", [kt EXCEPT !.wakerdone = FALSE])

----------------------------------------------------------------------------
(* waittest.c: three sets of children *)

\* A child: V only in sets 2 and 3, then proc_exit.  Its pidinfo stays with
\* its status while it has a parent.
proc_exit(t) ==
    [kt EXCEPT !.pid[t] = IF @ = "disowned" THEN "gone" ELSE "exited"]
waitfirstthread(t) == At(t, "waitfirstthread") /\ Go(t, "exit", proc_exit(t))
exitfirstthread(t) ==
    \/ At(t, "exitfirstthread") /\ Go(t, "waitfirstthread", [kt EXCEPT !.exitsems[t] = @ + 1])

\* dofork reads the pid before the thread runs.
dofork(t, f) == [kt EXCEPT !.pid[kt.i[t]] = "running", !.pc[kt.i[t]] = f]

pid_disown(n) == [kt EXCEPT !.pid[n] = IF @ = "exited" THEN "gone" ELSE "disowned"]

\* pid_wait for child n: ESRCH without a pidinfo, EPERM when it is not ours,
\* or its status when it has exited.
pid_wait(n) ==
    /\ kt.pid[n] # "running"
    /\ kt' = [kt EXCEPT !.waited = Append(@, IF kt.pid[n] = "exited" THEN "status" ELSE "error"),
                        !.pid[n] = IF @ = "exited" THEN "gone" ELSE @,
                        !.i[Main] = (@ + 1) % KtThreads,
                        !.pc[Main] = IF kt.i[Main] + 1 < KtThreads
                                     THEN CASE @ = "wt.wait1" -> "wt.wait1"
                                            [] @ = "wt.wait2" -> "wt.P2"
                                            [] @ = "wt.wait3" -> "wt.P3"
                                     ELSE CASE @ = "wt.wait1" -> "wt.fork2"
                                            [] @ = "wt.wait2" -> "wt.fork3"
                                            [] @ = "wt.wait3" -> "done"]

waittest(t) ==
    \/ At(t, "waittest") /\ Loop(t, KtThreads, "waittest", "wt.wait1", dofork(t, "waitfirstthread"))
    \/ At(t, "wt.wait1") /\ pid_wait(kt.i[t])
    \/ At(t, "wt.fork2") /\ Loop(t, KtThreads, "wt.fork2", "wt.P2", dofork(t, "exitfirstthread"))
    \/ At(t, "wt.P2") /\ kt.exitsems[kt.i[t]] > 0 /\
       Go(t, "wt.wait2", [kt EXCEPT !.exitsems[kt.i[t]] = @ - 1])
    \/ At(t, "wt.wait2") /\ pid_wait(kt.i[t])
    \/ At(t, "wt.fork3") /\ Go(t, "wt.disown", dofork(t, "exitfirstthread"))
    \/ At(t, "wt.disown") /\ Loop(t, KtThreads, "wt.fork3", "wt.P3", pid_disown(kt.i[t]))
    \/ At(t, "wt.P3") /\ kt.exitsems[kt.i[t]] > 0 /\
       Go(t, "wt.wait3", [kt EXCEPT !.exitsems[kt.i[t]] = @ - 1])
    \/ At(t, "wt.wait3") /\ pid_wait(kt.i[t])

----------------------------------------------------------------------------
(* airballoon.c.  A critical section that waits for no other lock than the  *)
(* print_lock is one step, and so is a print under print_lock.              *)

\* print_lock is taken, the line printed, the lock released; the lines printed
\* at the start of a thread and under a rope's lock are left out.  Once main
\* has cleaned up, lock_acquire(NULL) fails its assertion.
print(t, label, s) ==
    IF kt.destroyed THEN kt' = [s EXCEPT !.bad = @ \cup {"late print"}, !.pc[t] = "panic"]
    ELSE Go(t, label, s)

rope_free(r) == kt.rope_locks[r] = Nobody

\* while (true): when all ropes are gone the thread leaves its loop.  The test
\* and the choice of ropes that follows it are one step: a thread that chooses
\* after the last rope was cut finds it cut and comes around.
Leave(t, fn) ==
    /\ At(t, fn) /\ kt.ropes_left = 0
    /\ Go(t, "thread_exit_notify",
          IF fn = "flowerkiller" THEN kt ELSE wakeall(kt, "all_ropes_gone"))
Turn(t, fn) == At(t, fn) /\ kt.ropes_left # 0

\* Rope r is locked, cut if it is not, and unlocked.
Sever(t, r, again, count) ==
    /\ rope_free(r)
    /\ IF kt.rope_cut[r] > 0 THEN Go(t, again, [kt EXCEPT !.at[t] = <<>>])
       ELSE Go(t, count, [kt EXCEPT !.rope_cut[r] = @ + 1, !.at[t] = <<>>])

Counted(t, again) == Go(t, again, [kt EXCEPT !.ropes_left = @ - 1])

dandelion(t) ==
    \/ Leave(t, "dandelion")
    \/ Turn(t, "dandelion") /\ \E r \in Ropes : Sever(t, r, "dandelion", "da.count")
    \/ At(t, "da.count") /\ Counted(t, "dandelion")

\* A stake is chosen and its rope looked up before the rope is locked; the rope
\* must then still be at that stake.
marigold(t) ==
    \/ Leave(t, "marigold")
    \/ Turn(t, "marigold") /\ \E k \in Ropes :
          Go(t, "ma.lock", [kt EXCEPT !.at[t] = <<kt.rope_to_stake[k], k>>])
    \/ At(t, "ma.lock") /\ kt.stake_to_rope[kt.at[t][1]] = kt.at[t][2] /\
       Sever(t, kt.at[t][1], "marigold", "ma.count")
    \/ At(t, "ma.lock") /\ kt.stake_to_rope[kt.at[t][1]] # kt.at[t][2] /\
       rope_free(kt.at[t][1]) /\ Go(t, "marigold", [kt EXCEPT !.at[t] = <<>>])
    \/ At(t, "ma.count") /\ Counted(t, "marigold")

\* Two stakes, the one with the lower rope first; their ropes are locked in
\* that order, and are not looked up again.
flowerkiller(t) ==
    \/ Leave(t, "flowerkiller")
    \/ Turn(t, "flowerkiller") /\ \E first, second \in Ropes :
          LET f == kt.rope_to_stake[first]
              s == kt.rope_to_stake[second] IN
          IF f = s THEN Go(t, "flowerkiller", kt)
          ELSE Go(t, "fk.lock", [kt EXCEPT !.at[t] = IF s < f THEN <<s, f, second, first>>
                                                     ELSE <<f, s, first, second>>])
    \/ At(t, "fk.lock") /\ rope_free(kt.at[t][1]) /\
       Go(t, "fk.lock2", [kt EXCEPT !.rope_locks[kt.at[t][1]] = t])
    \/ At(t, "fk.lock2") /\ LET a == kt.at[t]
                                unlocked == [kt EXCEPT !.rope_locks[a[1]] = Nobody, !.at[t] = <<>>] IN
          rope_free(a[2]) /\
          IF kt.rope_cut[a[1]] > 0 \/ kt.rope_cut[a[2]] > 0 THEN Go(t, "flowerkiller", unlocked)
          ELSE Go(t, "flowerkiller",
                  [unlocked EXCEPT !.rope_to_stake = [@ EXCEPT ![a[3]] = a[2], ![a[4]] = a[1]],
                                   !.stake_to_rope = [@ EXCEPT ![a[1]] = a[4], ![a[2]] = a[3]]])

\* cv_wait of the balloon's and of the main thread: the lock is given up with
\* the last look at the counter, and the counter looked at again.
balloon(t) ==
    \/ At(t, "balloon") /\
       IF kt.ropes_left > 0
       THEN Go(t, "ba.asleep", [kt EXCEPT !.asleep = @ \cup {<<t, "all_ropes_gone">>}])
       ELSE Go(t, "ba.freed", kt)
    \/ At(t, "ba.asleep") /\ ~Asleep(t, "all_ropes_gone") /\ Go(t, "balloon", kt)
    \/ At(t, "ba.freed") /\ print(t, "thread_exit_notify", [kt EXCEPT !.freed = TRUE])

\* The last thread signals main; each then prints that it is done.
thread_exit_notify(t) ==
    \/ At(t, "thread_exit_notify") /\
       LET s == [kt EXCEPT !.threads_remaining = @ - 1] IN
       \E w \in IF s.threads_remaining = 0 THEN wakeone(s, "threads_done") ELSE {s} :
          Go(t, "ab.done", w)
    \/ At(t, "ab.done") /\ print(t, "exit", kt)

\* Everything is destroyed; lock_destroy asserts that nobody holds the lock.
airballoon_cleanup(t) ==
    At(t, "airballoon_cleanup") /\
    Go(t, "done", [kt EXCEPT !.destroyed = TRUE,
                             !.bad = IF (\A r \in Ropes : rope_free(r)) /\ kt.asleep = {}
                                     THEN @ ELSE @ \cup {"destroy"}])

airballoon_init(t) == At(t, "airballoon") /\ Go(t, "ab.fork", kt)

\* The forks touch nothing the threads use and are one step.
airballoon(t) ==
    \/ At(t, "ab.fork") /\
       kt' = [kt EXCEPT !.pc = [u \in DOMAIN @ |->
                 CASE u = 0 -> "marigold"
                   [] u = 1 -> "dandelion"
                   [] u \in 2 .. KtKillers + 1 -> "flowerkiller"
                   [] u = KtKillers + 2 -> "balloon"
                   [] u = t -> "ab.wait"
                   [] OTHER -> @[u]]]
    \/ At(t, "ab.wait") /\
       IF kt.threads_remaining > 0
       THEN Go(t, "ab.asleep", [kt EXCEPT !.asleep = @ \cup {<<t, "threads_done">>}])
       ELSE Go(t, "ab.main", kt)
    \/ At(t, "ab.asleep") /\ ~Asleep(t, "threads_done") /\ Go(t, "ab.wait", kt)
    \/ At(t, "ab.main") /\ print(t, "airballoon_cleanup", kt)

----------------------------------------------------------------------------
(* Specification *)

SynchStep(t) ==
    \/ semtestthread(t) \/ semtest(t) \/ locktestthread(t) \/ locktest(t)
    \/ cvtestthread(t) \/ cvtest(t) \/ sleepthread(t) \/ wakethread(t) \/ cvtest2(t)

ThreadStep(t) ==
    \/ loudthread(t) \/ quietthread(t) \/ runthreads(t) \/ threadtest(t) \/ threadtest2(t)
    \/ sleepalot_thread(t) \/ waker_thread(t) \/ compute_thread(t) \/ VDone(t)
    \/ setup(t) \/ make_sleepalots(t) \/ make_computes(t) \/ finish(t)
    \/ waitfirstthread(t) \/ exitfirstthread(t) \/ waittest(t)

BalloonStep(t) ==
    \/ dandelion(t) \/ marigold(t) \/ flowerkiller(t) \/ balloon(t) \/ thread_exit_notify(t)
    \/ airballoon_init(t) \/ airballoon(t) \/ airballoon_cleanup(t)

KtNext ==
    /\ \A t \in DOMAIN kt.pc : kt.pc[t] # "panic"
    /\ \E t \in {u \in DOMAIN kt.pc : kt.pc[u] \notin {"none", "exit", "done"}} :
          SynchStep(t) \/ ThreadStep(t) \/ BalloonStep(t)

KtSpec == KtInit /\ [][KtNext]_kt

----------------------------------------------------------------------------
(* Properties *)

\* Every thread of the test has ended and what the tests share is as before.
Finished ==
    /\ kt.pc[Main] = "done"
    /\ \A t \in Workers : kt.pc[t] \in {"none", "exit"}
    /\ kt.asleep = {} /\ \A s \in DOMAIN kt.sem :
          kt.sem[s] = CASE s = "testsem" -> 2 [] s = "wakersem" -> 1 [] OTHER -> 0

\* The waits of the first two sets of waittest succeed, those of the third fail.
WaitsRight ==
    \A j \in DOMAIN kt.waited : kt.waited[j] = IF j <= 2 * KtThreads THEN "status" ELSE "error"

\* "A rope is cut at most once"; ropes_left counts the ropes that are not cut
\* and those whose cutting thread has yet to count them; the balloon is free
\* only when all are cut.
RopesCounted ==
    LET cut == {r \in Ropes : kt.rope_cut[r] > 0}
        uncounted == {t \in Workers : kt.pc[t] \in {"da.count", "ma.count"}} IN
    /\ \A r \in Ropes : kt.rope_cut[r] <= 1
    /\ kt.ropes_left = NROPES - Cardinality(cut) + Cardinality(uncounted)
    /\ kt.freed => cut = Ropes /\ uncounted = {}

=============================================================================

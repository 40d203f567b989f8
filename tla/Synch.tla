------------------------------- MODULE Synch --------------------------------
(***************************************************************************)
(* kern/thread/synch.c: semaphores, sleep locks and condition variables,   *)
(* each a wait channel and a spinlock (kern/thread/thread.c).              *)
(*                                                                         *)
(* A critical section of sem_lock or lk_lock is one step: nothing another  *)
(* thread can see happens inside it.  wchan_sleep puts the thread on the   *)
(* channel and lets go of the spinlock in the same step, which is what     *)
(* Sched shows of thread_switch.  Only cv_wchanlock is a variable: cv_wait *)
(* holds it across lock_release, which others can see.                     *)
(*                                                                         *)
(* The threads are arbitrary clients that obey the KASSERTs of lock_acquire*)
(* and lock_release; V may also come from an interrupt handler.            *)
(***************************************************************************)
EXTENDS Integers, Sequences, FiniteSets

CONSTANTS
    Threads, Sems, Locks, CVs,
    NULL,           \* no thread, no object
    initial_count,  \* initial_count of every sem_create
    MaxCount        \* bound: no V beyond this count (2^32 - 1 in the code)

ASSUME CountAssumption ==
    /\ initial_count \in Nat
    /\ MaxCount \in Nat
    /\ initial_count <= MaxCount

ASSUME NullAssumption == NULL \notin Threads \cup Sems \cup Locks \cup CVs

ASSUME ThreadsAssumption == IsFiniteSet(Threads)

VARIABLES
    sem_count, sem_wchan,
    lk_holder, lk_wchan,
    cv_wchan, cv_wchanlock,
    pc,             \* where each thread is
    psem,           \* the semaphore of its P
    plock,          \* the lock of its lock_acquire or cv_wait
    pcv,            \* the condition variable of its cv_wait
    held            \* auxiliary: the locks each thread has come to hold

semVars == <<sem_count, sem_wchan>>
lockVars == <<lk_holder, lk_wchan, held>>
cvVars == <<cv_wchan, cv_wchanlock>>
vars == <<semVars, lockVars, cvVars, pc, psem, plock, pcv>>

(***************************************************************************)
(* "sleep" is on a wait channel, "woken" has been made runnable and is     *)
(* about to take the spinlock again.  cv_release holds cv_wchanlock and    *)
(* has released the lock.                                                  *)
(***************************************************************************)
Places == {"run", "P_sleep", "P_woken", "lock_sleep", "lock_woken",
           "cv_release", "cv_sleep", "cv_woken"}

TypeOK ==
    /\ sem_count \in [Sems -> 0 .. MaxCount]
    /\ sem_wchan \in [Sems -> Seq(Threads)]
    /\ lk_holder \in [Locks -> Threads \cup {NULL}]
    /\ lk_wchan \in [Locks -> Seq(Threads)]
    /\ cv_wchan \in [CVs -> Seq(Threads)]
    /\ cv_wchanlock \in [CVs -> Threads \cup {NULL}]
    /\ pc \in [Threads -> Places]
    /\ psem \in [Threads -> Sems \cup {NULL}]
    /\ plock \in [Threads -> Locks \cup {NULL}]
    /\ pcv \in [Threads -> CVs \cup {NULL}]
    /\ held \in [Threads -> SUBSET Locks]

Init ==
    /\ sem_count = [s \in Sems |-> initial_count]
    /\ sem_wchan = [s \in Sems |-> <<>>]
    /\ lk_holder = [l \in Locks |-> NULL]
    /\ lk_wchan = [l \in Locks |-> <<>>]
    /\ cv_wchan = [v \in CVs |-> <<>>]
    /\ cv_wchanlock = [v \in CVs |-> NULL]
    /\ pc = [t \in Threads |-> "run"]
    /\ psem = [t \in Threads |-> NULL]
    /\ plock = [t \in Threads |-> NULL]
    /\ pcv = [t \in Threads |-> NULL]
    /\ held = [t \in Threads |-> {}]

\* wchan_wakeone: the places of the threads when the first one on the channel
\* is made runnable at place w.
WakeOne(wchan, places, w) ==
    IF wchan = <<>> THEN places ELSE [places EXCEPT ![Head(wchan)] = w]

\* No thread is on a channel twice.
IsInjectiveSeq(wchan) ==
    \A i, j \in DOMAIN wchan : wchan[i] = wchan[j] => i = j

\* Mutant: wakes the first thread but leaves it on the channel.
PeekHead(wchan) == wchan

\* threadlist_remhead, on a list that may be empty.
RemHead(wchan) == IF wchan = <<>> THEN <<>> ELSE Tail(wchan)

----------------------------------------------------------------------------
(* Semaphores *)

\* Mutant: the loop of P lets a zero count through.
PLoopOffByOne(t, s) ==
    /\ sem_count' = [sem_count EXCEPT ![s] = @ - 1]
    /\ pc' = [pc EXCEPT ![t] = "run"]
    /\ psem' = [psem EXCEPT ![t] = NULL]
    /\ UNCHANGED sem_wchan

\* The loop of P, with sem_lock held.
PLoop(t, s) ==
    \/ /\ sem_count[s] > 0
       /\ sem_count' = [sem_count EXCEPT ![s] = @ - 1]
       /\ pc' = [pc EXCEPT ![t] = "run"]
       /\ psem' = [psem EXCEPT ![t] = NULL]
       /\ UNCHANGED sem_wchan
    \/ /\ sem_count[s] = 0
       /\ sem_wchan' = [sem_wchan EXCEPT ![s] = Append(@, t)]
       /\ pc' = [pc EXCEPT ![t] = "P_sleep"]
       /\ psem' = [psem EXCEPT ![t] = s]
       /\ UNCHANGED sem_count

P(t, s) ==
    /\ pc[t] = "run"
    /\ PLoop(t, s)
    /\ UNCHANGED <<lockVars, cvVars, plock, pcv>>

PResume(t) ==
    /\ pc[t] = "P_woken"
    /\ PLoop(t, psem[t])
    /\ UNCHANGED <<lockVars, cvVars, plock, pcv>>

\* Mutant: V wakes a thread only when the count was zero.
VFromZeroOnly(s) ==
    /\ sem_count[s] < MaxCount
    /\ sem_count' = [sem_count EXCEPT ![s] = @ + 1]
    /\ IF sem_count[s] = 0
       THEN /\ pc' = WakeOne(sem_wchan[s], pc, "P_woken")
            /\ sem_wchan' = [sem_wchan EXCEPT ![s] = RemHead(@)]
       ELSE UNCHANGED <<pc, sem_wchan>>
    /\ UNCHANGED <<lockVars, cvVars, psem, plock, pcv>>

V(s) ==
    /\ sem_count[s] < MaxCount
    /\ sem_count' = [sem_count EXCEPT ![s] = @ + 1]
    /\ pc' = WakeOne(sem_wchan[s], pc, "P_woken")
    /\ sem_wchan' = [sem_wchan EXCEPT ![s] = RemHead(@)]
    /\ UNCHANGED <<lockVars, cvVars, psem, plock, pcv>>

----------------------------------------------------------------------------
(* Locks *)

\* Mutant: lock_acquire tests lk_holder once, with if for while.
AcquireIf(t, l) ==
    \/ /\ lk_holder[l] = NULL \/ pc[t] = "lock_woken"
       /\ lk_holder' = [lk_holder EXCEPT ![l] = t]
       /\ held' = [held EXCEPT ![t] = @ \cup {l}]
       /\ pc' = [pc EXCEPT ![t] = "run"]
       /\ plock' = [plock EXCEPT ![t] = NULL]
       /\ UNCHANGED lk_wchan
    \/ /\ lk_holder[l] # NULL /\ pc[t] # "lock_woken"
       /\ lk_wchan' = [lk_wchan EXCEPT ![l] = Append(@, t)]
       /\ pc' = [pc EXCEPT ![t] = "lock_sleep"]
       /\ plock' = [plock EXCEPT ![t] = l]
       /\ UNCHANGED <<lk_holder, held>>

\* The loop of lock_acquire, with lk_lock held.
AcquireLoop(t, l) ==
    \/ /\ lk_holder[l] = NULL
       /\ lk_holder' = [lk_holder EXCEPT ![l] = t]
       /\ held' = [held EXCEPT ![t] = @ \cup {l}]
       /\ pc' = [pc EXCEPT ![t] = "run"]
       /\ plock' = [plock EXCEPT ![t] = NULL]
       /\ UNCHANGED lk_wchan
    \/ /\ lk_holder[l] # NULL
       /\ lk_wchan' = [lk_wchan EXCEPT ![l] = Append(@, t)]
       /\ pc' = [pc EXCEPT ![t] = "lock_sleep"]
       /\ plock' = [plock EXCEPT ![t] = l]
       /\ UNCHANGED <<lk_holder, held>>

\* A client does not acquire a lock it holds (KASSERT in lock_acquire).
lock_acquire(t, l) ==
    /\ pc[t] = "run"
    /\ l \notin held[t]
    /\ AcquireLoop(t, l)
    /\ UNCHANGED <<semVars, cvVars, psem, pcv>>

AcquireResume(t) ==
    /\ pc[t] = "lock_woken"
    /\ AcquireLoop(t, plock[t])
    /\ UNCHANGED <<semVars, cvVars, psem, pcv>>

\* Mutant: lock_release without wchan_wakeone.
ReleasedNoWake(t, l, place) ==
    /\ lk_holder' = [lk_holder EXCEPT ![l] = NULL]
    /\ held' = [held EXCEPT ![t] = @ \ {l}]
    /\ pc' = [pc EXCEPT ![t] = place]
    /\ UNCHANGED lk_wchan

\* The body of lock_release, called by t which goes on at the given place.
Released(t, l, place) ==
    /\ lk_holder' = [lk_holder EXCEPT ![l] = NULL]
    /\ held' = [held EXCEPT ![t] = @ \ {l}]
    /\ pc' = [WakeOne(lk_wchan[l], pc, "lock_woken") EXCEPT ![t] = place]
    /\ lk_wchan' = [lk_wchan EXCEPT ![l] = RemHead(@)]

\* A client releases a lock it holds (KASSERT in lock_release).
lock_release(t, l) ==
    /\ pc[t] = "run"
    /\ l \in held[t]
    /\ Released(t, l, "run")
    /\ UNCHANGED <<semVars, cvVars, psem, plock, pcv>>

----------------------------------------------------------------------------
(* Condition variables *)

\* Mutant: cv_wait takes cv_wchanlock only after lock_release.
CvWaitUnlocked(t, v, l) ==
    /\ pc[t] = "run"
    /\ l \in held[t]
    /\ Released(t, l, "cv_release")
    /\ pcv' = [pcv EXCEPT ![t] = v]
    /\ plock' = [plock EXCEPT ![t] = l]
    /\ UNCHANGED <<semVars, cvVars, psem>>

\* cv_wait up to lock_release: cv_wchanlock is taken first and kept.
cv_wait(t, v, l) ==
    /\ pc[t] = "run"
    /\ l \in held[t]
    /\ cv_wchanlock[v] = NULL
    /\ cv_wchanlock' = [cv_wchanlock EXCEPT ![v] = t]
    /\ Released(t, l, "cv_release")
    /\ pcv' = [pcv EXCEPT ![t] = v]
    /\ plock' = [plock EXCEPT ![t] = l]
    /\ UNCHANGED <<semVars, cv_wchan, psem>>

\* wchan_sleep on the cv's channel: lets go of cv_wchanlock.
CvSleep(t) ==
    /\ pc[t] = "cv_release"
    /\ cv_wchan' = [cv_wchan EXCEPT ![pcv[t]] = Append(@, t)]
    /\ cv_wchanlock' = [cv_wchanlock EXCEPT ![pcv[t]] = NULL]
    /\ pc' = [pc EXCEPT ![t] = "cv_sleep"]
    /\ UNCHANGED <<semVars, lockVars, psem, plock, pcv>>

\* Mutant: cv_wait returns without the lock.
CvResumeNoLock(t) ==
    /\ pc[t] = "cv_woken"
    /\ cv_wchanlock[pcv[t]] = NULL
    /\ pcv' = [pcv EXCEPT ![t] = NULL]
    /\ pc' = [pc EXCEPT ![t] = "run"]
    /\ plock' = [plock EXCEPT ![t] = NULL]
    /\ UNCHANGED <<semVars, lockVars, cvVars, psem>>

\* Back from wchan_sleep: takes cv_wchanlock, lets go of it, and goes on to
\* acquire the lock.
CvResume(t) ==
    /\ pc[t] = "cv_woken"
    /\ cv_wchanlock[pcv[t]] = NULL
    /\ pcv' = [pcv EXCEPT ![t] = NULL]
    /\ pc' = [pc EXCEPT ![t] = "lock_woken"]
    /\ UNCHANGED <<semVars, lockVars, cvVars, psem, plock>>

cv_signal(t, v) ==
    /\ pc[t] = "run"
    /\ cv_wchanlock[v] = NULL
    /\ pc' = WakeOne(cv_wchan[v], pc, "cv_woken")
    /\ cv_wchan' = [cv_wchan EXCEPT ![v] = RemHead(@)]
    /\ UNCHANGED <<semVars, lockVars, cv_wchanlock, psem, plock, pcv>>

cv_broadcast(t, v) ==
    /\ pc[t] = "run"
    /\ cv_wchanlock[v] = NULL
    /\ pc' = [u \in Threads |->
                 IF \E i \in DOMAIN cv_wchan[v] : cv_wchan[v][i] = u
                 THEN "cv_woken" ELSE pc[u]]
    /\ cv_wchan' = [cv_wchan EXCEPT ![v] = <<>>]
    /\ UNCHANGED <<semVars, lockVars, cv_wchanlock, psem, plock, pcv>>

----------------------------------------------------------------------------
Next ==
    \/ \E t \in Threads, s \in Sems : P(t, s)
    \/ \E s \in Sems : V(s)
    \/ \E t \in Threads, l \in Locks : lock_acquire(t, l) \/ lock_release(t, l)
    \/ \E t \in Threads, v \in CVs, l \in Locks : cv_wait(t, v, l)
    \/ \E t \in Threads, v \in CVs : cv_signal(t, v) \/ cv_broadcast(t, v)
    \/ \E t \in Threads :
          PResume(t) \/ AcquireResume(t) \/ CvSleep(t) \/ CvResume(t)

Spec == Init /\ [][Next]_vars

----------------------------------------------------------------------------
(* Properties *)

OnChannel(wchan, t) == \E i \in DOMAIN wchan : wchan[i] = t

WokenForSem(s) == {t \in Threads : pc[t] = "P_woken" /\ psem[t] = s}

WokenForLock(l) == {t \in Threads : pc[t] = "lock_woken" /\ plock[t] = l}

\* lock_acquire returns only to the thread lk_holder names, however the lock
\* is released to a sleeper while others ask for it: no two threads hold it.
MutualExclusion ==
    \A l \in Locks, t \in Threads : l \in held[t] <=> lk_holder[l] = t

\* A thread is on the wait channel it sleeps on, once, and on no other;
\* wchan_wakeone and wchan_wakeall take it off before it runs.
ChannelsSound ==
    /\ \A t \in Threads :
          /\ \A s \in Sems : OnChannel(sem_wchan[s], t) <=>
                                  pc[t] = "P_sleep" /\ psem[t] = s
          /\ \A l \in Locks : OnChannel(lk_wchan[l], t) <=>
                                   pc[t] = "lock_sleep" /\ plock[t] = l
          /\ \A v \in CVs : OnChannel(cv_wchan[v], t) <=>
                                 pc[t] = "cv_sleep" /\ pcv[t] = v
    /\ \A s \in Sems : IsInjectiveSeq(sem_wchan[s])
    /\ \A l \in Locks : IsInjectiveSeq(lk_wchan[l])
    /\ \A v \in CVs : IsInjectiveSeq(cv_wchan[v])

\* While threads sleep on a semaphore, every unit of its count has a woken thread
\* on its way to it.
SemNoLostWakeup ==
    \A s \in Sems : sem_wchan[s] # <<>> =>
                        sem_count[s] <= Cardinality(WokenForSem(s))

\* A free lock with sleepers has a woken thread.
LockNoLostWakeup ==
    \A l \in Locks :
        lk_holder[l] = NULL /\ lk_wchan[l] # <<>> => WokenForLock(l) # {}

\* From lock_release on, a cv_signal or cv_broadcast, which needs cv_wchanlock,
\* finds the waiter on the channel.
CvNoLostWakeup ==
    \A t \in Threads, v \in CVs :
        pc[t] \in {"cv_release", "cv_sleep"} /\ pcv[t] = v /\ cv_wchanlock[v] = NULL
            => OnChannel(cv_wchan[v], t)

\* No wakeup is lost: neither by V although P may take the count before the thread
\* V woke, nor by lock_release although another thread may acquire the lock before
\* the one it woke, nor by cv_wait between its lock_release and its sleep.
NoLostWakeup == SemNoLostWakeup /\ LockNoLostWakeup /\ CvNoLostWakeup
============================================================================

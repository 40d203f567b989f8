--------------------------- MODULE SynchRefinement --------------------------
(***************************************************************************)
(* Synch implements Monitor.  A thread is waiting from the moment cv_wait  *)
(* has released the lock, before it is on the wait channel, until a        *)
(* cv_signal or cv_broadcast takes it off.                                 *)
(***************************************************************************)
EXTENDS Synch

Doing ==
    [t \in Threads |->
        CASE pc[t] = "run" -> <<>>
          [] pc[t] \in {"P_sleep", "P_woken"} -> <<"P", psem[t]>>
          [] pc[t] \in {"lock_sleep", "lock_woken", "cv_woken"} -> <<"acquire", plock[t]>>
          [] pc[t] \in {"cv_release", "cv_sleep"} -> <<"wait", pcv[t], plock[t]>>]

M == INSTANCE Monitor WITH count <- sem_count, holder <- lk_holder, doing <- Doing

\* The wait channels, spinlocks and retries of synch.c implement atomic
\* semaphores, locks and condition variables: in particular a signal sent
\* while a thread is between lock_release and its wait channel is not lost.
ImplementsMonitor == M!Spec
============================================================================

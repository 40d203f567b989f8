------------------------------ MODULE Monitor -------------------------------
(***************************************************************************)
(* What kern/include/synch.h promises of semaphores, locks and condition   *)
(* variables, with no wait channels, spinlocks or wakeups: P returns when  *)
(* it has taken one from a positive count, lock_acquire when the lock is   *)
(* free, and cv_wait releases the lock and waits in one step, is ended by  *)
(* a signal or broadcast, and returns with the lock.                       *)
(***************************************************************************)
EXTENDS Integers

CONSTANTS Threads, Sems, Locks, CVs, NULL, initial_count

VARIABLES
    count,      \* of each semaphore
    holder,     \* of each lock
    doing       \* the call each thread is blocked in, <<>> if none

vars == <<count, holder, doing>>

Init ==
    /\ count = [s \in Sems |-> initial_count]
    /\ holder = [l \in Locks |-> NULL]
    /\ doing = [t \in Threads |-> <<>>]

\* A call that cannot return yet blocks.
Block(t) ==
    /\ doing[t] = <<>>
    /\ \/ \E s \in Sems : count[s] = 0 /\ doing' = [doing EXCEPT ![t] = <<"P", s>>]
       \/ \E l \in Locks : /\ holder[l] \notin {NULL, t}
                           /\ doing' = [doing EXCEPT ![t] = <<"acquire", l>>]
    /\ UNCHANGED <<count, holder>>

P(t, s) ==
    /\ doing[t] \in {<<>>, <<"P", s>>}
    /\ count[s] > 0
    /\ count' = [count EXCEPT ![s] = @ - 1]
    /\ doing' = [doing EXCEPT ![t] = <<>>]
    /\ UNCHANGED holder

V(s) ==
    /\ count' = [count EXCEPT ![s] = @ + 1]
    /\ UNCHANGED <<holder, doing>>

Acquire(t, l) ==
    /\ doing[t] \in {<<>>, <<"acquire", l>>}
    /\ holder[l] = NULL
    /\ holder' = [holder EXCEPT ![l] = t]
    /\ doing' = [doing EXCEPT ![t] = <<>>]
    /\ UNCHANGED count

Release(t, l) ==
    /\ doing[t] = <<>>
    /\ holder[l] = t
    /\ holder' = [holder EXCEPT ![l] = NULL]
    /\ UNCHANGED <<count, doing>>

Wait(t, v, l) ==
    /\ doing[t] = <<>>
    /\ holder[l] = t
    /\ holder' = [holder EXCEPT ![l] = NULL]
    /\ doing' = [doing EXCEPT ![t] = <<"wait", v, l>>]
    /\ UNCHANGED count

Waiters(v) == {t \in Threads : \E l \in Locks : doing[t] = <<"wait", v, l>>}

\* The threads of W stop waiting and ask for their lock.
Wake(W) ==
    /\ doing' = [t \in Threads |->
                    IF t \in W THEN <<"acquire", doing[t][3]>> ELSE doing[t]]
    /\ UNCHANGED <<count, holder>>

\* A signal wakes one waiter if there is one.
Signal(v) == \E t \in Waiters(v) : Wake({t})

Broadcast(v) == Wake(Waiters(v))

Next ==
    \/ \E t \in Threads : Block(t)
    \/ \E t \in Threads, s \in Sems : P(t, s)
    \/ \E s \in Sems : V(s)
    \/ \E t \in Threads, l \in Locks : Acquire(t, l) \/ Release(t, l)
    \/ \E t \in Threads, v \in CVs, l \in Locks : Wait(t, v, l)
    \/ \E v \in CVs : Signal(v) \/ Broadcast(v)

Spec == Init /\ [][Next]_vars
============================================================================

------------------------------- MODULE Sched --------------------------------
(***************************************************************************)
(* The scheduler of kern/thread/thread.c on several cpus: thread_switch,   *)
(* run queues, idling, wakeups through a wait channel, interprocessor      *)
(* interrupts, migration and the reaping of exited threads.                *)
(*                                                                         *)
(* A cpu holds its own runqueue lock at the places of OwnRq and the wait   *)
(* channel's spinlock at those of HoldsWc; a critical section on another   *)
(* cpu's run queue is one step.  Interrupts are off except at the places   *)
(* of Interruptible.                                                       *)
(***************************************************************************)
EXTENDS Integers, Sequences, Functions

CONSTANTS
    NCPU,       \* cpuarray_num(&allcpus)
    Threads,    \* struct threads
    NULL,       \* no thread
    Boot        \* the thread cpu_create makes for each cpu

CPUs == 1 .. NCPU

ASSUME CPUAssumption == NCPU \in Nat /\ NCPU > 0
ASSUME BootAssumption ==
    /\ Boot \in [CPUs -> Threads]
    /\ \A c, d \in CPUs : Boot[c] = Boot[d] => c = d
    /\ NULL \notin Threads

VARIABLES
    t_state,        \* threadstate_t; "free" before thread_create, after thread_destroy
    t_cpu,
    c_curthread, c_runqueue, c_isidle, c_zombies,
    ipi,            \* IPI_UNIDLE in c_ipi_pending
    wc_threads,     \* the wait channel
    pc,             \* where each cpu is
    ret,            \* where the cpu goes on after its interrupt
    target,         \* the thread a wakeup has taken off the channel
    mig,            \* locals of thread_consider_migration
    victims         \* its list of threads to send

threadVars == <<t_state, t_cpu>>
cpuVars == <<c_curthread, c_runqueue, c_isidle, c_zombies, ipi>>
migVars == <<mig, victims>>
vars == <<threadVars, cpuVars, wc_threads, pc, ret, target, migVars>>

(***************************************************************************)
(* thread_switch(s) with s being S_READY, S_SLEEP or S_ZOMBIE is at place  *)
(* s_READY, s_SLEEP or s_ZOMBIE, then at queued, pick, idle, unidle, tail; *)
(* yield is the end of hardclock; wake is inside wchan_wakeone; the last   *)
(* four are inside thread_consider_migration.                              *)
(***************************************************************************)
Places == {"run", "s_READY", "s_SLEEP", "s_ZOMBIE", "queued", "pick", "idle",
           "unidle", "tail", "yield", "wake", "count", "take", "give", "putback"}

OwnRq == {"s_READY", "s_SLEEP", "s_ZOMBIE", "queued", "pick", "tail"}

\* The runqueue lock of cpu c is free.
RqFree(c) == pc[c] \notin OwnRq

HoldsWc(c) == pc[c] \in {"wake", "s_SLEEP"}

WcFree == \A c \in CPUs : ~HoldsWc(c)

Interruptible(c) == pc[c] \in {"run", "idle", "unidle"}

\* Where an interrupt returns to: cpu_idle returns once it has taken one.
Resume(c) == IF pc[c] = "run" THEN "run" ELSE "unidle"

\* The end of an interrupt handler or of a wakeup.
Return(c) ==
    /\ pc' = [pc EXCEPT ![c] = ret[c]]
    /\ ret' = [ret EXCEPT ![c] = "run"]

NoMig == [i |-> 0, my |-> 0, total |-> 0, send |-> 0]

\* DIVROUNDUP(total_count, numcpus)
one_share(m) == (m.total + NCPU - 1) \div NCPU

Init ==
    /\ t_state = [t \in Threads |->
                     IF \E c \in CPUs : Boot[c] = t THEN "RUN" ELSE "free"]
    /\ t_cpu = [t \in Threads |->
                   IF \E c \in CPUs : Boot[c] = t
                   THEN CHOOSE c \in CPUs : Boot[c] = t ELSE NULL]
    /\ c_curthread = Boot
    /\ c_runqueue = [c \in CPUs |-> <<>>]
    /\ c_isidle = [c \in CPUs |-> FALSE]
    /\ c_zombies = [c \in CPUs |-> <<>>]
    /\ ipi = [c \in CPUs |-> FALSE]
    /\ wc_threads = <<>>
    /\ pc = [c \in CPUs |-> "run"]
    /\ ret = [c \in CPUs |-> "run"]
    /\ target = [c \in CPUs |-> NULL]
    /\ mig = [c \in CPUs |-> NoMig]
    /\ victims = [c \in CPUs |-> <<>>]

----------------------------------------------------------------------------
(* Threads start and stop *)

\* Mutant: new threads always start with the boot cpu in t_cpu.
ForkOnBootCpu(c, t) ==
    /\ pc[c] = "run"
    /\ t_state[t] = "free"
    /\ t_state' = [t_state EXCEPT ![t] = "READY"]
    /\ t_cpu' = [t_cpu EXCEPT ![t] = 1]
    /\ c_runqueue' = [c_runqueue EXCEPT ![c] = Append(@, t)]
    /\ UNCHANGED <<c_curthread, c_isidle, c_zombies, ipi, wc_threads, pc,
                   ret, target, migVars>>

\* thread_fork: the new thread is runnable on the cpu of its parent.
thread_fork(c, t) ==
    /\ pc[c] = "run"
    /\ t_state[t] = "free"
    /\ t_state' = [t_state EXCEPT ![t] = "READY"]
    /\ t_cpu' = [t_cpu EXCEPT ![t] = c]
    /\ c_runqueue' = [c_runqueue EXCEPT ![c] = Append(@, t)]
    /\ UNCHANGED <<c_curthread, c_isidle, c_zombies, ipi, wc_threads, pc,
                   ret, target, migVars>>

EnterSwitch(c, s) ==
    /\ pc' = [pc EXCEPT ![c] = s]
    /\ UNCHANGED <<threadVars, cpuVars, wc_threads, ret, target, migVars>>

\* The thread of kmain, which is in menu, never does.
thread_exit(c) ==
    pc[c] = "run" /\ c_curthread[c] # Boot[1] /\ EnterSwitch(c, "s_ZOMBIE")

\* The caller has taken the channel's spinlock and found it must wait.
wchan_sleep(c) == pc[c] = "run" /\ WcFree /\ EnterSwitch(c, "s_SLEEP")

\* From the timer interrupt, or called by the thread.  Nothing happens if no
\* other thread is ready.
thread_yield(c) ==
    /\ pc[c] \in {"run", "yield"}
    /\ IF c_runqueue[c] # <<>>
       THEN EnterSwitch(c, "s_READY")
       ELSE /\ pc' = [pc EXCEPT ![c] = "run"]
            /\ UNCHANGED <<threadVars, cpuVars, wc_threads, ret,
                           target, migVars>>

----------------------------------------------------------------------------
(* thread_switch *)

SwitchReady(c) ==
    /\ pc[c] = "s_READY"
    /\ t_state' = [t_state EXCEPT ![c_curthread[c]] = "READY"]
    /\ c_runqueue' = [c_runqueue EXCEPT ![c] = Append(@, c_curthread[c])]
    /\ c_isidle' = [c_isidle EXCEPT ![c] = TRUE]
    /\ pc' = [pc EXCEPT ![c] = "pick"]
    /\ UNCHANGED <<t_cpu, c_curthread, c_zombies, ipi, wc_threads,
                   ret, target, migVars>>

\* Onto the wait channel, whose spinlock is released while t_state is old.
SwitchSleep(c) ==
    /\ pc[c] = "s_SLEEP"
    /\ wc_threads' = Append(wc_threads, c_curthread[c])
    /\ pc' = [pc EXCEPT ![c] = "queued"]
    /\ UNCHANGED <<threadVars, cpuVars, ret, target, migVars>>

SwitchSleepState(c) ==
    /\ pc[c] = "queued"
    /\ t_state' = [t_state EXCEPT ![c_curthread[c]] = "SLEEP"]
    /\ c_isidle' = [c_isidle EXCEPT ![c] = TRUE]
    /\ pc' = [pc EXCEPT ![c] = "pick"]
    /\ UNCHANGED <<t_cpu, c_curthread, c_runqueue, c_zombies, ipi, wc_threads,
                   ret, target, migVars>>

\* Mutant: the exiting thread is destroyed while its stack is in use.
ZombieFreed(c) ==
    /\ pc[c] = "s_ZOMBIE"
    /\ t_state' = [t_state EXCEPT ![c_curthread[c]] = "free"]
    /\ t_cpu' = [t_cpu EXCEPT ![c_curthread[c]] = NULL]
    /\ c_isidle' = [c_isidle EXCEPT ![c] = TRUE]
    /\ pc' = [pc EXCEPT ![c] = "pick"]
    /\ UNCHANGED <<c_curthread, c_runqueue, c_zombies, ipi, wc_threads,
                   ret, target, migVars>>

SwitchZombie(c) ==
    /\ pc[c] = "s_ZOMBIE"
    /\ t_state' = [t_state EXCEPT ![c_curthread[c]] = "ZOMBIE"]
    /\ c_zombies' = [c_zombies EXCEPT ![c] = Append(@, c_curthread[c])]
    /\ c_isidle' = [c_isidle EXCEPT ![c] = TRUE]
    /\ pc' = [pc EXCEPT ![c] = "pick"]
    /\ UNCHANGED <<t_cpu, c_curthread, c_runqueue, ipi, wc_threads,
                   ret, target, migVars>>


\* The loop that looks for the next thread: switch to it, or release the
\* runqueue lock and idle on the stack of the old one.
Pick(c) ==
    /\ pc[c] = "pick"
    /\ IF c_runqueue[c] # <<>>
       THEN /\ c_curthread' = [c_curthread EXCEPT ![c] = Head(c_runqueue[c])]
            /\ c_runqueue' = [c_runqueue EXCEPT ![c] = Tail(@)]
            /\ c_isidle' = [c_isidle EXCEPT ![c] = FALSE]
            /\ pc' = [pc EXCEPT ![c] = "tail"]
       ELSE /\ pc' = [pc EXCEPT ![c] = "idle"]
            /\ UNCHANGED <<c_curthread, c_runqueue, c_isidle>>
    /\ UNCHANGED <<threadVars, c_zombies, ipi, wc_threads, ret,
                   target, migVars>>

\* cpu_idle has returned: the runqueue lock is taken again.
Unidle(c) ==
    /\ pc[c] = "unidle"
    /\ pc' = [pc EXCEPT ![c] = "pick"]
    /\ UNCHANGED <<threadVars, cpuVars, wc_threads, ret, target, migVars>>

\* The end of thread_switch and the start of thread_startup, with exorcise:
\* the zombies of this cpu are destroyed.
SwitchTail(c) ==
    /\ pc[c] = "tail"
    /\ t_state' = [t \in Threads |->
                      CASE t = c_curthread[c] -> "RUN"
                        [] t \in Range(c_zombies[c]) -> "free"
                        [] OTHER -> t_state[t]]
    /\ t_cpu' = [t \in Threads |->
                    IF t \in Range(c_zombies[c]) THEN NULL ELSE t_cpu[t]]
    /\ c_zombies' = [c_zombies EXCEPT ![c] = <<>>]
    /\ pc' = [pc EXCEPT ![c] = "run"]
    /\ UNCHANGED <<c_curthread, c_runqueue, c_isidle, ipi, wc_threads,
                   ret, target, migVars>>

----------------------------------------------------------------------------
(* Interrupts and wakeups *)

\* interprocessor_interrupt for IPI_UNIDLE.
IpiInterrupt(c) ==
    /\ Interruptible(c) /\ ipi[c]
    /\ ipi' = [ipi EXCEPT ![c] = FALSE]
    /\ pc' = [pc EXCEPT ![c] = Resume(c)]
    /\ UNCHANGED <<threadVars, c_curthread, c_runqueue, c_isidle, c_zombies,
                   wc_threads, ret, target, migVars>>

\* wchan_wakeone by a thread or by a device's interrupt handler, up to the
\* call of thread_make_runnable.
wchan_wakeone(c) ==
    /\ Interruptible(c) /\ WcFree
    /\ wc_threads # <<>>
    /\ target' = [target EXCEPT ![c] = Head(wc_threads)]
    /\ wc_threads' = Tail(wc_threads)
    /\ ret' = [ret EXCEPT ![c] = Resume(c)]
    /\ pc' = [pc EXCEPT ![c] = "wake"]
    /\ UNCHANGED <<threadVars, cpuVars, migVars>>

MakeRunnable(c, locked, notify) ==
    LET t == target[c]
        d == t_cpu[t]
    IN  /\ pc[c] = "wake"
        /\ locked => RqFree(d)
        /\ t_state' = [t_state EXCEPT ![t] = "READY"]
        /\ c_runqueue' = [c_runqueue EXCEPT ![d] = Append(@, t)]
        /\ ipi' = [ipi EXCEPT ![d] = @ \/ (notify /\ c_isidle[d])]
        /\ target' = [target EXCEPT ![c] = NULL]
        /\ Return(c)
        /\ UNCHANGED <<t_cpu, c_curthread, c_isidle, c_zombies, wc_threads,
                       migVars>>

\* Mutants: the runqueue lock is not taken; an idle cpu is not told.
RunnableNoLock(c) == MakeRunnable(c, FALSE, TRUE)
RunnableNoIpi(c) == MakeRunnable(c, TRUE, FALSE)

\* thread_make_runnable under the runqueue lock of the target's cpu.
thread_make_runnable(c) == MakeRunnable(c, TRUE, TRUE)

\* hardclock: every MIGRATE_HARDCLOCKS ticks it considers migration, then it
\* yields; thread_switch returns at once on an idle cpu.
AfterClock(c) == IF Resume(c) = "run" THEN "yield" ELSE "unidle"

hardclock(c) ==
    /\ Interruptible(c)
    /\ \/ /\ pc' = [pc EXCEPT ![c] = AfterClock(c)]
          /\ UNCHANGED <<ret, mig>>
       \/ /\ pc' = [pc EXCEPT ![c] = "count"]
          /\ ret' = [ret EXCEPT ![c] = AfterClock(c)]
          /\ mig' = [mig EXCEPT ![c] = [NoMig EXCEPT !.i = 1]]
    /\ UNCHANGED <<threadVars, cpuVars, wc_threads, target, victims>>

----------------------------------------------------------------------------
(* thread_consider_migration *)

Finish(c) ==
    /\ Return(c)
    /\ mig' = [mig EXCEPT ![c] = NoMig]

\* Mutant: every run queue counts as one's own.
CountedAsOwn(c, m, n) == [m EXCEPT !.total = @ + n, !.my = @ + n]

\* What cpu c makes of its count m once n threads were seen on cpu m.i.
Counted(c, m, n) == [m EXCEPT !.total = @ + n, !.my = IF m.i = c THEN n ELSE @]

\* Mutant: a cpu with less than its share goes on.
NeverBelowShare(m) == FALSE

BelowShare(m) == m.my < one_share(m)

\* One turn of the loop that counts the ready threads, cpu by cpu; after the
\* last one, nothing more to do if this cpu has less than its share.
MigCount(c) ==
    LET m == mig[c]
        counted == Counted(c, m, Len(c_runqueue[m.i]))
    IN  /\ pc[c] = "count"
        /\ RqFree(m.i)
        /\ \/ /\ m.i < NCPU
              /\ mig' = [mig EXCEPT ![c] = [counted EXCEPT !.i = @ + 1]]
              /\ UNCHANGED <<pc, ret>>
           \/ /\ m.i = NCPU /\ BelowShare(counted)
              /\ Finish(c)
           \/ /\ m.i = NCPU /\ ~BelowShare(counted)
              /\ mig' = [mig EXCEPT ![c] =
                            [counted EXCEPT !.i = 1,
                                            !.send = counted.my - one_share(counted)]]
              /\ pc' = [pc EXCEPT ![c] = "take"]
              /\ UNCHANGED ret
        /\ UNCHANGED <<threadVars, cpuVars, wc_threads, target, victims>>

\* send threads move from the tail of the run queue to victims.
MigTake(c) ==
    LET keep == Len(c_runqueue[c]) - mig[c].send
    IN  /\ pc[c] = "take"
        /\ keep >= 0
        /\ victims' = [victims EXCEPT ![c] =
                           SubSeq(c_runqueue[c], keep + 1, Len(c_runqueue[c]))]
        /\ c_runqueue' = [c_runqueue EXCEPT ![c] = SubSeq(@, 1, keep)]
        /\ pc' = [pc EXCEPT ![c] = "give"]
        /\ UNCHANGED <<threadVars, c_curthread, c_isidle, c_zombies, ipi,
                       wc_threads, ret, target, mig>>

\* What the while loop leaves of the victims vs of cpu c when the other cpu
\* has room for that many threads: [given, left, send].  When the loop comes
\* to curthread it puts it at the end and counts it as sent.
MigSplit(c, vs, room, send) ==
    LET cur == c_curthread[c]
        before == IF cur \in Range(vs)
                  THEN (CHOOSE i \in DOMAIN vs : vs[i] = cur) - 1
                  ELSE Len(vs)
        others == SubSeq(vs, 1, before) \o SubSeq(vs, before + 2, Len(vs))
        skips == before < send /\ before < room
        limit == IF skips THEN send - 1 ELSE send
        k == IF room < limit THEN room ELSE limit
    IN  [given |-> SubSeq(others, 1, k),
         left |-> IF skips THEN SubSeq(others, k + 1, Len(others)) \o <<cur>>
                           ELSE SubSeq(vs, k + 1, Len(vs)),
         send |-> limit - k]

\* One turn of the loop over the other cpus.
MigGive(c) ==
    LET m == mig[c]
        d == m.i
        room == IF one_share(m) > Len(c_runqueue[d])
                THEN one_share(m) - Len(c_runqueue[d]) ELSE 0
        split == MigSplit(c, victims[c], room, m.send)
    IN  /\ pc[c] = "give"
        /\ \/ /\ d <= NCPU /\ m.send > 0 /\ d = c
              /\ mig' = [mig EXCEPT ![c].i = @ + 1]
              /\ UNCHANGED <<t_cpu, c_runqueue, ipi, victims, pc>>
           \/ /\ d <= NCPU /\ m.send > 0 /\ d # c
              /\ RqFree(d)
              /\ t_cpu' = [t \in Threads |->
                              IF t \in Range(split.given) THEN d ELSE t_cpu[t]]
              /\ c_runqueue' = [c_runqueue EXCEPT ![d] = @ \o split.given]
              /\ ipi' = [ipi EXCEPT ![d] =
                            @ \/ (c_isidle[d] /\ split.given # <<>>)]
              /\ victims' = [victims EXCEPT ![c] = split.left]
              /\ mig' = [mig EXCEPT ![c].i = d + 1, ![c].send = split.send]
              /\ UNCHANGED pc
           \/ /\ d > NCPU \/ m.send = 0
              /\ pc' = [pc EXCEPT ![c] = "putback"]
              /\ UNCHANGED <<t_cpu, c_runqueue, ipi, victims, mig>>
        /\ UNCHANGED <<t_state, c_curthread, c_isidle, c_zombies, wc_threads,
                       ret, target>>

\* Mutant: leftovers are dropped.
LeftoversDropped(c) ==
    /\ pc[c] = "putback"
    /\ victims' = [victims EXCEPT ![c] = <<>>]
    /\ Finish(c)
    /\ UNCHANGED <<threadVars, cpuVars, wc_threads, target>>

\* Leftovers go back on this cpu's run queue.
MigPutBack(c) ==
    /\ pc[c] = "putback"
    /\ c_runqueue' = [c_runqueue EXCEPT ![c] = @ \o victims[c]]
    /\ victims' = [victims EXCEPT ![c] = <<>>]
    /\ Finish(c)
    /\ UNCHANGED <<threadVars, c_curthread, c_isidle, c_zombies, ipi,
                   wc_threads, target>>

----------------------------------------------------------------------------
thread_switch(c) ==
    \/ SwitchReady(c) \/ SwitchSleep(c) \/ SwitchSleepState(c) \/ SwitchZombie(c)
    \/ Pick(c) \/ Unidle(c) \/ SwitchTail(c)

thread_consider_migration(c) ==
    MigCount(c) \/ MigTake(c) \/ MigGive(c) \/ MigPutBack(c)

Next ==
    \E c \in CPUs :
        \/ \E t \in Threads : thread_fork(c, t)
        \/ thread_exit(c) \/ wchan_sleep(c) \/ thread_yield(c)
        \/ thread_switch(c)
        \/ IpiInterrupt(c) \/ wchan_wakeone(c) \/ thread_make_runnable(c)
        \/ hardclock(c) \/ thread_consider_migration(c)

Spec == Init /\ [][Next]_vars

\* The timer keeps ticking, a pending interrupt is taken once interrupts are
\* enabled, interrupts leave the interrupted code time to go on, and spinlocks
\* are handed on.
Fairness ==
    \A c \in CPUs :
        /\ SF_vars(thread_switch(c))
        /\ SF_vars(IpiInterrupt(c))
        /\ SF_vars(thread_make_runnable(c))
        /\ SF_vars(hardclock(c))
        /\ WF_vars(pc[c] = "yield" /\ thread_yield(c))
        /\ SF_vars(thread_consider_migration(c))

FairSpec == Spec /\ Fairness

----------------------------------------------------------------------------
(* Properties *)

ThreadStates == {"free", "RUN", "READY", "SLEEP", "ZOMBIE"}

TypeOK ==
    /\ t_state \in [Threads -> ThreadStates]
    /\ t_cpu \in [Threads -> CPUs \cup {NULL}]
    /\ c_curthread \in [CPUs -> Threads]
    /\ c_runqueue \in [CPUs -> Seq(Threads)]
    /\ c_isidle \in [CPUs -> BOOLEAN]
    /\ c_zombies \in [CPUs -> Seq(Threads)]
    /\ ipi \in [CPUs -> BOOLEAN]
    /\ wc_threads \in Seq(Threads)
    /\ pc \in [CPUs -> Places]
    /\ ret \in [CPUs -> {"run", "yield", "unidle"}]
    /\ target \in [CPUs -> Threads \cup {NULL}]
    /\ mig \in [CPUs -> [i : Nat, my : Nat, total : Nat, send : Nat]]
    /\ victims \in [CPUs -> Seq(Threads)]

\* No two cpus ever run on the stack of one thread.  An idle cpu stays on the
\* stack of the thread that went to sleep, which may meanwhile have been
\* woken: thread_consider_migration must not move it.
NoSharedStack ==
    \A c, d \in CPUs : c_curthread[c] = c_curthread[d] => c = d

\* The current thread of c runs: it is not on a list.
OnCpu(c) == ~c_isidle[c] /\ pc[c] # "queued"

\* Every list that cpu c has to do with, end to end.
ListsOf(c) ==
    c_runqueue[c] \o victims[c] \o c_zombies[c]
        \o (IF target[c] = NULL THEN <<>> ELSE <<target[c]>>)
        \o (IF OnCpu(c) THEN <<c_curthread[c]>> ELSE <<>>)

\* Every thread that exists is in exactly one place, so none is lost and none
\* is run twice: on one run queue, one list of victims or zombies, the wait
\* channel, in the hands of one wakeup, or running.
InOnePlace ==
    /\ IsInjective(wc_threads)
    /\ \A c \in CPUs : IsInjective(ListsOf(c))
    /\ \A c \in CPUs : Range(wc_threads) \cap Range(ListsOf(c)) = {}
    /\ \A c, d \in CPUs : c # d => Range(ListsOf(c)) \cap Range(ListsOf(d)) = {}
    /\ \A t \in Threads :
          t_state[t] # "free" <=>
              t \in Range(wc_threads) \/ \E c \in CPUs : t \in Range(ListsOf(c))

\* A cpu does not sleep through work: while it idles with a thread on its run
\* queue, an interprocessor interrupt is pending.  c_isidle is looked at under
\* the runqueue lock, which is released before cpu_idle.
IdleNotified ==
    \A c \in CPUs : pc[c] = "idle" /\ c_runqueue[c] # <<>> => ipi[c]

\* Every thread on a run queue, or on its way to another one, is S_READY:
\* thread_switch puts a thread on the wait channel and releases the channel's
\* spinlock before it sets S_SLEEP, and still never overwrites the S_READY of
\* a wakeup that came in between.
QueuedReady ==
    \A c \in CPUs :
        \A t \in Range(c_runqueue[c] \o victims[c]) : t_state[t] = "READY"

\* thread_consider_migration uses the counts after it has let go of the locks
\* it read them under; its threadlist_remtail and threadlist_remhead still
\* find a thread each time.
MigrationNeverShort ==
    \A c \in CPUs :
        /\ pc[c] = "take" => mig[c].send <= Len(c_runqueue[c])
        /\ pc[c] = "give" => mig[c].send <= Len(victims[c])

\* The stack a cpu runs on has not been freed, and exorcise does not meet the
\* thread it runs in (KASSERT(z != curthread)).
NoFreedStack ==
    \A c \in CPUs :
        /\ t_state[c_curthread[c]] # "free"
        /\ pc[c] = "tail" => c_curthread[c] \notin Range(c_zombies[c])

\* A cpu runs on a stack that is its own and has not been freed.
StackSafe == NoSharedStack /\ NoFreedStack

\* t_cpu is the cpu a thread runs on or is queued on, across migrations
\* (DEBUGASSERT(curthread->t_cpu == curcpu->c_self) in thread_switch).
CpuOfThread ==
    \A c \in CPUs :
        /\ ~c_isidle[c] => t_cpu[c_curthread[c]] = c
        /\ \A t \in Range(c_runqueue[c]) : t_cpu[t] = c

=============================================================================

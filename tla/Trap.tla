-------------------------------- MODULE Trap --------------------------------
(***************************************************************************)
(* Exceptions, the interrupt level and spinlocks: exception-mips1.S,       *)
(* trap.c, syscall.c, spl.c, spinlock.c, cpu.c, the interrupt dispatcher   *)
(* and what thread_switch and the copy functions do to them.               *)
(*                                                                         *)
(* A thread has a stack of contexts, the innermost last: user code, trap   *)
(* frames, kernel code (a body), a spin on a spinlock, a call of           *)
(* thread_switch.  What a body computes is left out; it takes and leaves   *)
(* spinlocks, raises and lowers the level, copies from user memory, yields *)
(* and sleeps.  The queues of Sched are a state and a cpu for each thread. *)
(***************************************************************************)
EXTENDS Integers, Sequences, FiniteSets, SequencesExt, TLC

CONSTANTS
    TrCpus, TrThreads,
    TrBoot,         \* cpu -> the thread it starts with
    TrNoStack,      \* the boot thread, which has no t_stack of its own
    TrUser,         \* threads that wait to enter user mode
    TrTraps,        \* bound: exceptions
    TrOps,          \* bound: what a body of each kind does
    NoCpu

VARIABLE tr

TrapAssumption ==
    /\ TrBoot \in [TrCpus -> TrThreads] /\ TrNoStack \subseteq TrThreads
    /\ TrUser \subseteq TrThreads /\ TrUser \cap {TrBoot[c] : c \in TrCpus} = {}
    /\ NoCpu \notin TrCpus /\ TrTraps \in Nat /\ TrOps \in [{"thread", "sys", "fault", "irq"} -> Nat]

IPL_NONE == 0
IPL_HIGH == 1

\* Spinlocks: the run queues', and one of a device and its wait channel.
Rq(c) == <<"rq", c>>
Dev == <<"dev", NoCpu>>
TrLocks == {Rq(c) : c \in TrCpus} \cup {Dev}

----------------------------------------------------------------------------
(* The machine *)

\* The status register: kernel or user and interrupts, current, previous, old.
Kernel(ie) == [ku |-> FALSE, ie |-> ie]
User == [ku |-> TRUE, ie |-> TRUE]
NoRegs == [epc |-> 0, v0 |-> 0, a3 |-> 0]

Body(of) == [at |-> "body", of |-> of, held |-> {}, spls |-> <<>>, copy |-> FALSE, n |-> TrOps[of]]

\* thread_create, and thread_fork's count for the run queue lock.
NewThread(c, k) == [spl |-> IPL_HIGH, ipl |-> 2, in |-> FALSE, bad |-> FALSE, cpu |-> c,
                    state |-> "READY", k |-> k]
Running(c) == [NewThread(c, <<Body("thread")>>) EXCEPT !.spl = IPL_NONE, !.ipl = 0, !.state = "RUN"]

TrInit ==
    \E home \in [TrUser -> TrCpus] :
         tr = [status |-> [c \in TrCpus |-> <<Kernel(TRUE), Kernel(FALSE), Kernel(FALSE)>>],
               sp |-> TrBoot, s7 |-> TrBoot, regs |-> [c \in TrCpus |-> NoRegs],
               cpustacks |-> TrBoot, cputhreads |-> TrBoot,
               spinlocks |-> [c \in TrCpus |-> 0], isidle |-> [c \in TrCpus |-> FALSE],
               holder |-> [l \in TrLocks |-> NoCpu],
               th |-> [t \in TrThreads |->
                         IF \E c \in TrCpus : TrBoot[c] = t
                         THEN Running(CHOOSE c \in TrCpus : TrBoot[c] = t)
                         ELSE IF t \in TrUser
                         THEN NewThread(home[t], <<[at |-> "startup", regs |-> NoRegs]>>)
                         ELSE [NewThread(NoCpu, <<>>) EXCEPT !.state = "free"]],
               sees |-> [t \in TrThreads |-> NoRegs], traps |-> 0, panic |-> FALSE]

\* curthread is register s7; curcpu is curthread->t_cpu.
Cur(s, c) == s.th[s.s7[c]]
curcpu(s, c) == Cur(s, c).cpu
Top(s, c) == Last(s.th[s.sp[c]].k)

SetCur(s, c, new) == [s EXCEPT !.th[s.s7[c]] = new @@ @]
Push(s, c, x) == [s EXCEPT !.th[s.sp[c]].k = Append(@, x)]
Pop(s, c) == [s EXCEPT !.th[s.sp[c]].k = Front(@)]
SetTop(s, c, new) == [s EXCEPT !.th[s.sp[c]].k[Len(s.th[s.sp[c]].k)] = new @@ @]

KASSERT(s, cond) == [s EXCEPT !.panic = @ \/ ~cond]

cpu_irqon(s, c) == [s EXCEPT !.status[c][1].ie = TRUE]
cpu_irqoff(s, c) == [s EXCEPT !.status[c][1].ie = FALSE]

----------------------------------------------------------------------------
(* spl.c *)

splraise(s, c) ==
    LET u == IF Cur(s, c).ipl = 0 THEN cpu_irqoff(s, c) ELSE s
    IN  SetCur(u, c, [ipl |-> Cur(s, c).ipl + 1])

spllower(s, c) ==
    LET u == SetCur(s, c, [ipl |-> Cur(s, c).ipl - 1])
    IN  IF Cur(u, c).ipl = 0 THEN cpu_irqon(u, c) ELSE u

splx(s, c, spl) ==
    IF Cur(s, c).spl < spl THEN SetCur(splraise(s, c), c, [spl |-> spl])
    ELSE IF Cur(s, c).spl > spl THEN spllower(SetCur(s, c, [spl |-> spl]), c)
    ELSE s

spl0(s, c) == splx(s, c, IPL_NONE)
splhigh(s, c) == splx(s, c, IPL_HIGH)

----------------------------------------------------------------------------
(* spinlock.c *)

spinlock_do_i_hold(s, c, l) == s.holder[l] = curcpu(s, c)

\* Up to the loop, where the thread then is.
spinlock_acquire(s, c, l) ==
    LET u == splraise(s, c)
    IN  Push([KASSERT(u, ~spinlock_do_i_hold(u, c, l)) EXCEPT !.spinlocks[curcpu(s, c)] = @ + 1],
             c, [at |-> "spin", lock |-> l])

spinlock_release(s, c, l) ==
    LET u == KASSERT(s, spinlock_do_i_hold(s, c, l) /\ s.spinlocks[curcpu(s, c)] > 0)
    IN  spllower([u EXCEPT !.spinlocks[curcpu(s, c)] = @ - 1, !.holder[l] = NoCpu], c)

\* The test-and-set that finds the lock free.
spinlock_testandset(c) ==
    /\ ~tr.panic /\ ~tr.status[c][1].ku /\ Top(tr, c).at = "spin"
    /\ tr.holder[Top(tr, c).lock] = NoCpu
    /\ tr' = Pop([tr EXCEPT !.holder[Top(tr, c).lock] = curcpu(tr, c)], c)

----------------------------------------------------------------------------
(* thread_switch *)

Ready(s, c) == {t \in TrThreads : s.th[t].state = "READY" /\ s.th[t].cpu = c}

\* Up to the run queue lock; an idle cpu's timer interrupt gets no further.
thread_switch(s, c, new, lk) ==
    LET u == splhigh(s, c)
        old == Cur(s, c).spl
    IN  IF s.isidle[curcpu(s, c)] THEN splx(u, c, old)
        ELSE spinlock_acquire(Push(u, c, [at |-> "switch", ph |-> "locked", spl |-> old, new |-> new,
                                          lk |-> lk]), c, Rq(curcpu(s, c)))

thread_exit(s, c) == thread_switch(splhigh(s, c), c, "ZOMBIE", Dev)

wchan_sleep(s, c, lk) ==
    thread_switch(KASSERT(s, ~Cur(s, c).in /\ spinlock_do_i_hold(s, c, lk)
                             /\ s.spinlocks[curcpu(s, c)] = 1), c, "SLEEP", lk)

At(c, at) == ~tr.panic /\ ~tr.status[c][1].ku /\ Top(tr, c).at = at
InSwitch(c, ph) == At(c, "switch") /\ Top(tr, c).ph = ph

\* With nothing else to run a yield comes back at once.
switch_locked(c) ==
    /\ InSwitch(c, "locked")
    /\ LET x == Top(tr, c)
           off == [SetTop(SetCur(tr, c, [state |-> x.new]), c, [ph |-> "pick"])
                     EXCEPT !.isidle[curcpu(tr, c)] = TRUE]
       IN  tr' = IF x.new = "READY" /\ Ready(tr, curcpu(tr, c)) = {}
                 THEN splx(spinlock_release(Pop(tr, c), c, Rq(curcpu(tr, c))), c, x.spl)
                 ELSE IF x.new = "SLEEP" THEN spinlock_release(off, c, x.lk) ELSE off

\* The next thread, or cpu_idle, which takes an interrupt with the level high.
switch_pick(c) ==
    /\ InSwitch(c, "pick")
    /\ LET me == curcpu(tr, c)
           rq == Ready(tr, me) \ (IF Top(tr, c).new = "READY" THEN {tr.s7[c]} ELSE {})
       IN  \/ \E next \in rq :
                tr' = [SetTop(tr, c, [ph |-> "out"]) EXCEPT
                         !.isidle[me] = FALSE, !.s7[c] = next, !.sp[c] = next]
           \/ rq = {} /\ tr' = cpu_irqon(SetTop(spinlock_release(tr, c, Rq(me)), c,
                                                [ph |-> "idling"]), c)

cpu_idle(c) ==
    /\ InSwitch(c, "idling")
    /\ tr' = spinlock_acquire(SetTop(cpu_irqoff(tr, c), c, [ph |-> "pick"]), c, Rq(curcpu(tr, c)))

\* Back in a thread, perhaps on another cpu: the lock that its cpu took is let
\* go and the level of its own call restored.
switch_in(c) ==
    /\ InSwitch(c, "out")
    /\ LET x == Top(tr, c)
           s == splx(spinlock_release(SetCur(Pop(tr, c), c, [state |-> "RUN"]), c,
                                      Rq(curcpu(tr, c))), c, x.spl)
       IN  tr' = IF x.new = "SLEEP" THEN spinlock_acquire(s, c, x.lk) ELSE s

thread_startup(c) ==
    /\ At(c, "startup")
    /\ tr' = spl0(spinlock_release(SetTop(SetCur(tr, c, [state |-> "RUN"]), c, [at |-> "enter"]), c,
                                   Rq(curcpu(tr, c))), c)

\* thread_consider_migration, of which Sched has more; never of the curthread of
\* a cpu, which may be on the run queue while the cpu idles.
migrate(t, c) ==
    /\ ~tr.panic /\ tr.th[t].state = "READY" /\ tr.th[t].cpu # c
    /\ tr.s7[tr.th[t].cpu] # t
    /\ \A r \in {c, tr.th[t].cpu} : tr.holder[Rq(r)] = NoCpu
    /\ tr' = [tr EXCEPT !.th[t].cpu = c]

----------------------------------------------------------------------------
(* The end of a trap *)

\* rfe pops the status register that the frame has.
exception_return(s, c) ==
    LET x == Top(s, c)
    IN  Pop([s EXCEPT !.status[c] = <<x.status[2], x.status[3], x.status[3]>>,
                      !.regs[c] = IF x.status[2].ku THEN x.regs ELSE @], c)

\* Where the next exception from user mode finds its stack and curthread.
SetStacks(s, c) ==
    [KASSERT(s, s.s7[c] = s.sp[c]) EXCEPT !.cputhreads[curcpu(s, c)] = s.s7[c],
                                          !.cpustacks[curcpu(s, c)] = s.s7[c]]

\* Mutant: an interrupt goes back without setting them.
ReturnIrqEarly(s, c) ==
    exception_return(IF s.s7[c] \in TrNoStack \/ Top(s, c).code = "IRQ" THEN s ELSE SetStacks(s, c), c)

\* mips_trap from done2.
trap_done2(s, c) ==
    exception_return(IF s.s7[c] \in TrNoStack THEN s ELSE SetStacks(s, c), c)

trap_done(s, c) == trap_done2(cpu_irqoff(s, c), c)

mips_usermode(c) ==
    /\ At(c, "enter")
    /\ LET frame == [status |-> <<Kernel(FALSE), User, User>>, at |-> "trap"]
           s == SetStacks(cpu_irqoff(spl0(tr, c), c), c)
           u == SetTop(s, c, frame)
       IN  tr' = [exception_return(u, c) EXCEPT
                    !.th[tr.sp[c]].k = <<[at |-> "user"]>>, !.sees[tr.sp[c]] = Top(tr, c).regs]

----------------------------------------------------------------------------
(* Exceptions *)

\* A fault that vm_fault could not repair or another error: the end of a user
\* thread; in copyin and the like the frame returns to copyfail.
trap_fatal(s, c) ==
    IF Top(s, c).status[2].ku THEN thread_exit(s, c)
    ELSE IF Cur(s, c).bad THEN trap_done(s, c)
    ELSE KASSERT(s, FALSE)

mainbus_interrupt(s, c, cause) ==
    LET u == KASSERT(s, Cur(s, c).spl > 0)
    IN  CASE cause = "lamebus" -> Push(u, c, Body("irq"))
          [] cause = "timer" -> thread_switch(u, c, "READY", Dev)
          [] cause = "none" -> u

mips_trap(s, c, code, cause) ==
    LET t == Cur(s, c)
        adjust == t.spl = IPL_NONE
        irq == SetTop(SetCur(KASSERT(s, adjust => t.ipl = 0), c,
                             [in |-> TRUE, spl |-> IPL_HIGH,
                              ipl |-> IF adjust THEN t.ipl + 1 ELSE t.ipl]),
                      c, [adjust |-> adjust, in |-> t.in])
        sync == splx(splhigh(s, c), c, t.spl)
    IN  CASE code = "IRQ" -> mainbus_interrupt(irq, c, cause)
          [] code = "SYS" -> Push(KASSERT(sync, t.spl = 0 /\ t.ipl = 0), c, Body("sys"))
          [] code = "TLB" -> Push(sync, c, Body("fault"))
          [] code = "OTHER" -> trap_fatal(sync, c)

\* The processor turns interrupts off; an exception from user mode takes the
\* stack and curthread of the cpu's slot.
common_exception(c, code, cause) ==
    LET old == tr.status[c]
        s == [tr EXCEPT !.status[c] = <<Kernel(FALSE), old[1], old[2]>>, !.traps = @ + 1,
                        !.sp[c] = IF old[1].ku THEN tr.cpustacks[c] ELSE @,
                        !.s7[c] = IF old[1].ku THEN tr.cputhreads[c] ELSE @]
        frame == [at |-> "trap", code |-> code, status |-> s.status[c], regs |-> tr.regs[c],
                  adjust |-> FALSE, in |-> FALSE]
    IN  mips_trap(Push(s, c, frame), c, code, cause)

\* Interrupts come when they are on; a system call or an error from user code;
\* a fault also in a copy.
exception(c) ==
    /\ ~tr.panic /\ tr.traps < TrTraps
    /\ \/ /\ tr.status[c][1].ie
          /\ \E cause \in {"lamebus", "timer", "none"} : tr' = common_exception(c, "IRQ", cause)
       \/ /\ tr.status[c][1].ku
          /\ \E code \in {"SYS", "TLB", "OTHER"} : tr' = common_exception(c, code, "none")
       \/ /\ At(c, "body") /\ Top(tr, c).copy
          /\ tr' = common_exception(c, "TLB", "none")

\* The interrupt has been handled.
trap_irqdone(c) ==
    /\ At(c, "trap") /\ Top(tr, c).code = "IRQ"
    /\ LET x == Top(tr, c)
           s == IF x.adjust THEN SetCur(KASSERT(tr, Cur(tr, c).spl = IPL_HIGH /\ Cur(tr, c).ipl = 1),
                                        c, [spl |-> IPL_NONE, ipl |-> 0]) ELSE tr
       IN  tr' = trap_done2(SetCur(s, c, [in |-> x.in]), c)

----------------------------------------------------------------------------
(* Kernel code *)

InBody(c, of) == At(c, "body") /\ Top(tr, c).of \in of
Uses(s, c, new) == SetTop(s, c, new @@ [n |-> Top(s, c).n - 1])
AnyBody == {"sys", "fault", "irq", "thread"}
Sleepers == {"sys", "fault", "thread"}

body_lock(c) ==
    /\ InBody(c, AnyBody) /\ Top(tr, c).n > 0 /\ Top(tr, c).held = {} /\ ~Top(tr, c).copy
    /\ tr' = spinlock_acquire(Uses(tr, c, [held |-> {Dev}]), c, Dev)

body_unlock(c) ==
    /\ InBody(c, AnyBody) /\ Top(tr, c).held # {}
    /\ tr' = spinlock_release(SetTop(tr, c, [held |-> {}]), c, Dev)

body_splhigh(c) ==
    /\ InBody(c, AnyBody) /\ Top(tr, c).n > 0 /\ Top(tr, c).spls = <<>> /\ ~Top(tr, c).copy
    /\ tr' = splhigh(Uses(tr, c, [spls |-> <<Cur(tr, c).spl>>]), c)

body_splx(c) ==
    /\ InBody(c, AnyBody) /\ Top(tr, c).spls # <<>>
    /\ tr' = splx(SetTop(tr, c, [spls |-> <<>>]), c, Top(tr, c).spls[1])

body_yield(c) ==
    /\ InBody(c, {"sys", "thread"}) /\ Top(tr, c).n > 0 /\ Top(tr, c).held = {} /\ ~Top(tr, c).copy
    /\ tr' = thread_switch(Uses(tr, c, [held |-> {}]), c, "READY", Dev)

body_sleep(c) ==
    /\ InBody(c, Sleepers) /\ Top(tr, c).held # {}
    /\ tr' = wchan_sleep(tr, c, Dev)

\* wchan_wakeone; the run queue lock is taken and let go within.
body_wake(c) ==
    /\ InBody(c, AnyBody) /\ Top(tr, c).held # {}
    /\ \E t \in TrThreads : /\ tr.th[t].state = "SLEEP" /\ tr.holder[Rq(tr.th[t].cpu)] = NoCpu
                            /\ tr' = [tr EXCEPT !.th[t].state = "READY"]

\* copyin and its like set tm_badfaultfunc; copyfail clears it too.
copyin(c) ==
    /\ InBody(c, {"sys"}) /\ Top(tr, c).n > 0 /\ Top(tr, c).held = {} /\ ~Top(tr, c).copy
    /\ Top(tr, c).spls = <<>>
    /\ tr' = SetCur(Uses(tr, c, [copy |-> TRUE]), c, [bad |-> TRUE])

copied(c) ==
    /\ InBody(c, {"sys"}) /\ Top(tr, c).copy
    /\ tr' = SetCur(SetTop(tr, c, [copy |-> FALSE]), c, [bad |-> FALSE])

\* A body ends with nothing held.
Ends(c, of) ==
    InBody(c, {of}) /\ Top(tr, c).held = {} /\ Top(tr, c).spls = <<>> /\ ~Top(tr, c).copy

irq_return(c) == Ends(c, "irq") /\ tr' = Pop(tr, c)

fault_return(c) == Ends(c, "fault") /\ tr' \in {trap_done(Pop(tr, c), c), trap_fatal(Pop(tr, c), c)}

\* The result goes to the frame, and the pc past the instruction.
Answered(s, c, ret, err) ==
    LET t == s.sp[c]
        regs == [epc |-> Top(s, c).regs.epc + 1, v0 |-> ret, a3 |-> err]
    IN  [SetTop(KASSERT(s, Cur(s, c).spl = 0 /\ Cur(s, c).ipl = 0), c, [regs |-> regs])
           EXCEPT !.sees[t] = regs]

syscall(c) ==
    /\ Ends(c, "sys")
    /\ \E err \in {0, 1} : tr' = trap_done(Answered(Pop(tr, c), c, 0, err), c)

sys__exit(c) == Ends(c, "sys") /\ tr' = thread_exit(tr, c)

\* The child starts in enter_forked_process with a copy of the frame.
sys_fork(c) ==
    /\ Ends(c, "sys") /\ Top(tr, c).n > 0 /\ tr.holder[Rq(curcpu(tr, c))] = NoCpu
    /\ \E t \in TrThreads :
         /\ tr.th[t].state = "free"
         /\ LET s == Pop(tr, c)
                regs == [epc |-> Top(s, c).regs.epc + 1, v0 |-> 0, a3 |-> 0]
                u == [s EXCEPT !.th[t] = NewThread(curcpu(s, c), <<[at |-> "startup", regs |-> regs]>>)]
            IN  tr' = trap_done(Answered(u, c, 1, 0), c)

TrNext ==
    \/ \E c \in TrCpus :
         \/ spinlock_testandset(c) \/ switch_locked(c) \/ switch_pick(c) \/ cpu_idle(c) \/ switch_in(c)
         \/ thread_startup(c) \/ mips_usermode(c) \/ exception(c) \/ trap_irqdone(c)
         \/ body_lock(c) \/ body_unlock(c) \/ body_splhigh(c) \/ body_splx(c) \/ body_yield(c)
         \/ body_sleep(c) \/ body_wake(c) \/ copyin(c) \/ copied(c) \/ irq_return(c)
         \/ fault_return(c) \/ syscall(c) \/ sys__exit(c) \/ sys_fork(c)
    \/ \E t \in TrThreads, c \in TrCpus : migrate(t, c)

TrSpec == TrInit /\ [][TrNext]_tr

----------------------------------------------------------------------------
(* Properties *)

\* The spinlocks that a cpu has or is about to have.
LocksOf(c) ==
    Cardinality({l \in TrLocks : tr.holder[l] = c}) + IF At(c, "spin") THEN 1 ELSE 0

\* No assertion of the trap, spl, spinlock or sleep code fails.  User code runs
\* with interrupts on, nothing held, its own stack and curthread in the slots
\* of its cpu, and the registers it had before, or the result of its system
\* call.  Kernel code that can be interrupted holds no spinlock, unless it is
\* the idle loop which has the level high.  The count of a running thread is
\* its level and the spinlocks of its cpu, whichever thread took them.
TrapSound ==
    /\ ~tr.panic
    /\ \A c \in TrCpus :
         LET t == tr.sp[c]
             me == tr.th[t]
         IN  /\ IF tr.status[c][1].ku
                THEN /\ tr.status[c][1].ie /\ me.k = <<[at |-> "user"]>>
                     /\ tr.cpustacks[c] = t /\ tr.cputhreads[c] = t
                     /\ me.spl = 0 /\ me.ipl = 0 /\ ~me.in /\ ~me.bad
                     /\ tr.regs[c] = tr.sees[t]
                ELSE tr.s7[c] = t
             /\ me.cpu = c /\ \A d \in TrCpus : tr.sp[d] = t => d = c
             /\ tr.status[c][1].ie => LocksOf(c) = 0 /\ (me.spl = 0 \/ tr.isidle[c])
             /\ me.ipl = me.spl + LocksOf(c) /\ tr.spinlocks[c] = LocksOf(c)
=============================================================================

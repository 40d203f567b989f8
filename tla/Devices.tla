------------------------------ MODULE Devices ------------------------------
(* The system bus, its interrupt dispatcher, the serial port, the timer and  *)
(* the console: lamebus.c, lser.c, ltimer.c, console.c, clock.c, kprintf.c.  *)
(*                                                                           *)
(* The boot thread attaches the drivers and configures the console; then     *)
(* each of DvThreads does one job: a con_io read or write, a kprintf with    *)
(* interrupts on (locked) or off (polled), a gettime or a clocksleep. The    *)
(* boot cpu takes the bus interrupts; the handlers interleave with the       *)
(* threads of the other cpus, so every spinlock section is one step and      *)
(* lser_writepolled, which spins on the device inside its section, several.  *)
(* A character is <<owner, index, "c" | "\n" | "\r">>.                       *)
EXTENDS Integers, Sequences, FiniteSets, SequencesExt

CONSTANTS
    DvSlots,        \* sequence of the devices in slots 1.. : [dev, drl]
    DvCpuMasks,     \* the mainboards: [cpus |-> set of hardware numbers, self]
    DvThreads,
    DvJobs,         \* set of functions DvThreads -> {"write", "read", ...}
    DvText,         \* what a writer prints: a sequence over {"c", "\n"}
    DvKeys,         \* what is typed: a sequence over {"c", "\r"}
    DvReadLen,      \* uio_resid of a con_io read
    CONSOLE_INPUT_BUFFER_SIZE,
    DELAYBUFSIZE,
    DvBoot,         \* characters printed before the console is configured
    DvGlitches,     \* stray assertions of interrupt lines
    MaxDuds,        \* 10000 in lamebus_interrupt
    DvTime, DvSecond, DvSmall, DvSlow, \* clock ticks: last, per second, the
                    \* 5 ms threshold, and the longest time between two
                    \* register reads with interrupts off
    DvSleep,        \* num_secs of a clocksleep
    DvErrors,       \* uiomove failures
    NoOne

DevicesAssumption ==
    /\ DvSmall + DvSlow <= DvSecond /\ DvSlow < DvSmall
    /\ CONSOLE_INPUT_BUFFER_SIZE > 1 /\ DvBoot <= DELAYBUFSIZE

VARIABLE dv

Main == "main"
Slots == DOMAIN DvSlots
Printers == {"write", "kprintf", "polled"}

\* con_io prints '\n' as '\r' '\n'; kprintf's console_send does not.
Emitted(job) ==
    IF job = "write"
    THEN FlattenSeq([i \in DOMAIN DvText |->
                        IF DvText[i] = "\n" THEN <<"\r", "\n">> ELSE <<DvText[i]>>])
    ELSE DvText
Text(t, job) == LET e == Emitted(job) IN [i \in DOMAIN e |-> <<t, i, e[i]>>]
BootText == [i \in 1..DvBoot |-> <<Main, i, "c">>]

KASSERT(s, ok) == IF ok THEN s ELSE [s EXCEPT !.panic = TRUE]

---------------------------------------------------------------------------
(* Hardware: slots, the serial port's registers, the clock.                  *)

IrqReg(en, act, force) == [en |-> en, act |-> act, force |-> force]
Asserted(r) == r.en /\ (r.act \/ r.force)

\* CTLREG_IRQS: the slots whose interrupt line is asserted.
Irqs(s) == {k \in Slots :
              \/ k \in s.glitch
              \/ DvSlots[k].dev = "serial" /\ (Asserted(s.w) \/ Asserted(s.r))
              \/ DvSlots[k].dev = "timer" /\ k \in s.lt_irq}

WriteChar(s, ch) == [s EXCEPT !.tx = ch]

\* The transmitter finishes a character.
tx_done ==
    /\ dv.tx # <<>>
    /\ dv' = [dv EXCEPT !.out = Append(@, dv.tx), !.tx = <<>>, !.w.act = TRUE]

\* A key is typed; the port holds back further input until it is read. (Keys
\* before the console is configured would reach an ls_input not yet set.)
key ==
    /\ \E t \in DvThreads : dv.job[t] = "read"
    /\ dv.boot.pc = "up" /\ ~dv.r.act /\ dv.typed < Len(DvKeys)
    /\ dv' = [dv EXCEPT !.typed = @ + 1, !.r.act = TRUE]

\* A transient: a line is raised, and drops again unseen or when IRQS is read.
glitch ==
    \E k \in Slots :
       \/ /\ dv.glitches < DvGlitches /\ k \notin dv.glitch
          /\ dv' = [dv EXCEPT !.glitch = @ \cup {k}, !.glitches = @ + 1]
       \/ /\ k \in dv.glitch
          /\ dv' = [dv EXCEPT !.glitch = @ \ {k}]

Clocking(t) == dv.th[t].pc \in {"nsec", "secs2"}

\* Time passes. A configured timer interrupts once a second; the lock holder
\* reading the clock has interrupts off and is not delayed for long.
tick ==
    /\ dv.boot.pc = "up" /\ dv.now < DvTime
    /\ \E t \in DvThreads : dv.job[t] \in {"gettime", "clocksleep"}
    /\ \A t \in DvThreads : Clocking(t) => dv.now - dv.th[t].from < DvSlow
    /\ dv' = [dv EXCEPT !.now = @ + 1,
                        !.lt_irq = IF (dv.now + 1) % DvSecond = 0
                                   THEN @ \cup dv.roe ELSE @]

---------------------------------------------------------------------------
(* lamebus.c                                                                 *)

\* The cpus found, boot cpu first: the index minus one is the c_number that
\* cpu_create gives them.
lamebus_find_cpus(s, m) ==
    LET order == SetToSortSeq(m.cpus, <)
    IN [s EXCEPT !.cpus = <<m.self>> \o SelectSeq(order, LAMBDA i : i # m.self),
                 !.cirqe = {m.self}]

\* cram[1] of each secondary cpu is its software number, then all are enabled.
lamebus_start_cpus(s, m) ==
    LET others == SelectSeq(SetToSortSeq(m.cpus, <), LAMBDA i : i # m.self)
    IN [s EXCEPT !.cram = [i \in m.cpus \ {m.self} |->
                              CHOOSE n \in DOMAIN others : others[n] = i],
                 !.cpue = m.cpus]

\* The first free slot with that device at a supported revision, or 0.
lamebus_probe(s, dev, lowver) ==
    LET fit == {k \in Slots \ s.slotsinuse :
                   DvSlots[k].dev = dev /\ DvSlots[k].drl >= lowver}
    IN IF fit = {} THEN 0 ELSE CHOOSE k \in fit : \A l \in fit : k <= l

lamebus_mark(s, slot) ==
    KASSERT([s EXCEPT !.slotsinuse = @ \cup {slot}], slot \notin s.slotsinuse)

lamebus_attach_interrupt(s, slot, irqfunc) ==
    KASSERT([s EXCEPT !.irqfuncs[slot] = irqfunc],
            slot \in s.slotsinuse /\ s.irqfuncs[slot] = "NULL")

Finish(s, duds, this) ==
    LET d == IF this = 0 /\ duds > 0 THEN 0 ELSE duds
    IN KASSERT([s EXCEPT !.duds = d,
                         !.ih = [pc |-> "idle", slot |-> 0, duds |-> 0,
                                 start |-> FALSE, got |-> FALSE]],
               d <= MaxDuds)

\* One hold of ls_lock: from slot k on, over the lines irqs just read, count
\* the slots without driver or handler up to the next handler and call it.
ScanSlots(s, k, irqs) ==
    LET live == {j \in irqs : j >= k}
        handled == {j \in live : j \in s.slotsinuse /\ s.irqfuncs[j] # "NULL"}
        next == IF handled = {} THEN Len(DvSlots) + 1
                ELSE CHOOSE j \in handled : \A l \in handled : j <= l
        stray == IF k = 1 /\ irqs = {} THEN 1 ELSE 0
        duds == Cardinality({j \in live : j < next}) + stray
    IN IF handled = {}
       THEN Finish(s, s.duds + duds, s.ih.duds + duds)
       ELSE [s EXCEPT !.duds = @ + duds,
                      !.ih = [pc |-> s.irqfuncs[next], slot |-> next,
                              duds |-> @.duds + duds,
                              start |-> FALSE, got |-> FALSE]]

\* The boot cpu takes the bus interrupt (a line may have dropped again by the
\* time IRQS is read).
lamebus_interrupt ==
    /\ dv.ih.pc = "idle" /\ dv.boot.pc # "off"
    /\ \/ /\ Irqs(dv) # {}
          /\ dv' = ScanSlots([dv EXCEPT !.glitch = {}], 1, Irqs(dv))
       \/ /\ dv.glitches < DvGlitches
          /\ dv' = ScanSlots([dv EXCEPT !.glitches = @ + 1], 1, Irqs(dv))

\* The handler is back: IRQS is read again for the slots after it.
Return(s) == ScanSlots(s, s.ih.slot + 1, Irqs(s))

---------------------------------------------------------------------------
(* lser.c                                                                    *)

LsFree == dv.ls_lock = NoOne

lser_irq ==
    /\ dv.ih.pc = "lser_irq" /\ LsFree
    /\ LET s == IF dv.w.act
                THEN [dv EXCEPT !.wbusy = FALSE, !.w = IrqReg(TRUE, FALSE, FALSE),
                                !.ih.start = TRUE]
                ELSE dv
       IN dv' = IF dv.r.act
                THEN [s EXCEPT !.r = IrqReg(TRUE, FALSE, FALSE), !.ih.got = TRUE,
                               !.ih.pc = "upcall", !.rx = dv.typed]
                ELSE [s EXCEPT !.ih.pc = "upcall"]

lser_write(s, ch) ==
    WriteChar(KASSERT([s EXCEPT !.wbusy = TRUE], ~s.wbusy), ch)

config_lser(s) ==
    [s EXCEPT !.wbusy = FALSE, !.r = [@ EXCEPT !.en = TRUE, !.force = FALSE],
              !.w = IrqReg(TRUE, FALSE, FALSE)]

---------------------------------------------------------------------------
(* console.c                                                                 *)

con_start ==
    /\ dv.ih.pc = "upcall" /\ dv.ih.start
    /\ dv' = [dv EXCEPT !.wsem = @ + 1, !.ih.start = FALSE]

Next1(i) == (i + 1) % CONSOLE_INPUT_BUFFER_SIZE

con_input ==
    /\ dv.ih.pc = "upcall" /\ ~dv.ih.start /\ dv.ih.got
    /\ dv' = IF Next1(dv.head) = dv.tail
             THEN [dv EXCEPT !.ih.got = FALSE, !.dropped = @ \cup {dv.rx}]
             ELSE [dv EXCEPT !.gotchars[dv.head] = dv.rx, !.head = Next1(dv.head),
                             !.rsem = @ + 1, !.ih.got = FALSE]

lser_return ==
    /\ dv.ih.pc = "upcall" /\ ~dv.ih.start /\ ~dv.ih.got
    /\ dv' = Return(dv)

SetTh(s, t, pc) == [s EXCEPT !.th[t].pc = pc]

\* The next character t has to print, and the state after it.
Rest(t) == dv.th[t].todo
Printed(s, t) == [s EXCEPT !.th[t].todo = Tail(@)]

Polled(t) == dv.job[t] = "polled"

\* putch once the console is configured, with interrupts on: wait for the
\* port to be free, then hand it the character.
putch_intr(t) ==
    /\ dv.th[t].pc = "print" /\ Rest(t) # <<>> /\ ~Polled(t) /\ dv.wsem > 0
    /\ dv' = SetTh([dv EXCEPT !.wsem = @ - 1], t, "send")

cs_send(t) ==
    /\ dv.th[t].pc = "send" /\ LsFree
    /\ dv' = SetTh(Printed(lser_write(dv, Head(Rest(t))), t), t, "print")

\* putch in an interrupt handler, at splhigh or with a spinlock held.
putch_polled(t) ==
    /\ dv.th[t].pc = "print" /\ Rest(t) # <<>> /\ Polled(t) /\ LsFree
    /\ dv' = SetTh([dv EXCEPT !.ls_lock = t, !.th[t].irqpending = dv.wbusy],
                   t, "polled")

\* lser_writepolled: with an interrupt outstanding, wait for the device and
\* keep the line asserted; else turn the interrupt off. Then send.
lser_writepolled(t) ==
    /\ dv.th[t].pc = "polled"
    /\ LET pending == dv.th[t].irqpending
       IN /\ pending => dv.w.act
          /\ dv' = SetTh(WriteChar([dv EXCEPT !.w = IrqReg(pending, FALSE, pending)],
                                   Head(Rest(t))), t, "wait")


\* The character is out; without an interrupt outstanding the ready condition
\* is cleared and interruption turned back on.
lser_poll_until_write(t) ==
    /\ dv.th[t].pc = "wait" /\ dv.w.act
    /\ dv' = SetTh(Printed([dv EXCEPT
                      !.ls_lock = NoOne,
                      !.w = IF dv.th[t].irqpending THEN @
                            ELSE IrqReg(TRUE, FALSE, FALSE)], t), t, "print")

LockOf(t) == CASE dv.job[t] = "write" -> "wlock"
               [] dv.job[t] = "read" -> "rlock"
               [] dv.job[t] = "kprintf" -> "kprintf_lock"
               [] dv.job[t] = "polled" -> "kprintf_spinlock"
               [] OTHER -> "none"

\* con_io and kprintf take the lock of their kind.
Acquire(t) ==
    /\ dv.boot.pc = "up" /\ dv.th[t].pc = "start"
    /\ dv.job[t] \in Printers \cup {"read"}
    /\ dv.locks[LockOf(t)] = NoOne
    /\ dv' = SetTh([dv EXCEPT !.locks[LockOf(t)] = t], t,
                   IF dv.job[t] = "read" THEN "getch" ELSE "print")

Release(s, t) == SetTh([s EXCEPT !.locks[LockOf(t)] = NoOne], t, "done")

kprintf(t) ==
    /\ dv.th[t].pc = "print" /\ Rest(t) = <<>> /\ t # Main
    /\ dv' = Release(dv, t)

\* con_io: the uiomove that takes the next user character fails.
con_io_fault(t) ==
    /\ dv.th[t].pc = "print" /\ dv.job[t] = "write" /\ Rest(t) # <<>>
    /\ dv.errors < DvErrors
    /\ Len(Rest(t)) < Len(Emitted("write"))
       => Emitted("write")[Len(Emitted("write")) - Len(Rest(t))] # "\r"
    /\ dv' = Release([dv EXCEPT !.errors = @ + 1], t)

getch_intr(t) ==
    /\ dv.th[t].pc = "getch" /\ dv.rsem > 0
    /\ dv' = SetTh([dv EXCEPT !.rsem = @ - 1], t, "take")

\* con_io: the character leaves the buffer; '\r' ends the line, as '\n'.
con_io_read(t) ==
    /\ dv.th[t].pc = "take"
    /\ LET k == dv.gotchars[dv.tail]
           s == [dv EXCEPT !.tail = Next1(dv.tail)]
       IN \/ LET r == [s EXCEPT !.th[t].got = Append(@, k), !.read = Append(@, k)]
             IN dv' = IF DvKeys[k] = "\r" \/ Len(r.th[t].got) = DvReadLen
                      THEN Release(r, t)
                      ELSE SetTh(r, t, "getch")
          \/ /\ dv.errors < DvErrors
             /\ dv' = Release([s EXCEPT !.errors = @ + 1, !.dropped = @ \cup {k}], t)

---------------------------------------------------------------------------
(* ltimer.c, rtclock.c and clock.c                                           *)

\* lt_irq is cleared by the read of LT_REG_IRQ; timerclock wakes all of lbolt.
timerclock(s) ==
    [s EXCEPT !.seconds = @ + 1,
              !.th = [t \in DOMAIN s.th |->
                         IF s.th[t].pc = "lbolt" THEN [s.th[t] EXCEPT !.pc = "woken"]
                         ELSE s.th[t]]]

ltimer_irq ==
    /\ dv.ih.pc = "ltimer_irq"
    /\ LET s == [dv EXCEPT !.lt_irq = @ \ {dv.ih.slot}]
       IN dv' = Return(IF dv.ih.slot \in dv.lt_irq /\ dv.ih.slot \in dv.roe
                       THEN timerclock(s) ELSE s)

\* Only the first timer becomes the timer clock.
config_ltimer(s, slot) ==
    IF s.roe = {} THEN [s EXCEPT !.roe = {slot}] ELSE s

clocksleep(t) ==
    /\ dv.job[t] = "clocksleep"
    /\ \/ /\ dv.boot.pc = "up" /\ dv.th[t].pc = "start"
          /\ dv' = [dv EXCEPT !.th[t] = [@ EXCEPT !.pc = "lbolt", !.left = DvSleep,
                                                  !.from = dv.seconds]]
       \/ /\ dv.th[t].pc = "woken"
          /\ dv' = [dv EXCEPT !.th[t] = [@ EXCEPT !.left = @ - 1,
                              !.pc = IF dv.th[t].left > 1 THEN "lbolt" ELSE "done"]]

Secs == dv.now \div DvSecond
Nsec == dv.now % DvSecond

\* The seconds are read on either side of the nanoseconds.
ltimer_gettime(t) ==
    /\ dv.job[t] = "gettime"
    /\ \/ /\ dv.boot.pc = "up" /\ dv.th[t].pc = "start"
          /\ dv' = [dv EXCEPT !.th[t] = [@ EXCEPT !.pc = "nsec", !.secs1 = Secs,
                                                  !.from = dv.now]]
       \/ /\ dv.th[t].pc = "nsec"
          /\ dv' = [dv EXCEPT !.th[t] = [@ EXCEPT !.pc = "secs2", !.nsec = Nsec]]
       \/ /\ dv.th[t].pc = "secs2"
          /\ dv' = [dv EXCEPT !.th[t] = [@ EXCEPT !.pc = "done", !.to = dv.now,
                       !.secs1 = IF dv.th[t].nsec < DvSmall THEN Secs ELSE @]]

---------------------------------------------------------------------------
(* Boot: mainbus_bootstrap and the attachments it makes through autoconf.    *)

\* the_console is set.
Configured == dv.boot.pc = "flush" \/ dv.th[Main].pc = "done"

SetBoot(s, pc) == [s EXCEPT !.boot.pc = pc]

mainbus_bootstrap ==
    /\ dv.boot.pc = "off"
    /\ dv' = SetBoot(lamebus_find_cpus(dv, dv.board), "ltimer")

\* Before the console is there kprintf's characters are kept.
putch_delayed ==
    /\ dv.boot.pc \in {"ltimer", "lser", "con"} /\ ~Configured
    /\ dv.boot.print < DvBoot
    /\ dv' = KASSERT([dv EXCEPT !.boot.print = @ + 1,
                                !.delayed = Append(@, BootText[dv.boot.print + 1])],
                     Len(dv.delayed) < DELAYBUFSIZE)

\* autoconf attaches devices of a kind until a probe finds no more.
attach_ltimer_to_lamebus ==
    LET slot == lamebus_probe(dv, "timer", 1)
    IN /\ dv.boot.pc = "ltimer"
       /\ dv' = IF slot = 0 THEN SetBoot(dv, "lser")
                ELSE [lamebus_mark(dv, slot) EXCEPT !.boot.pc = "ltimer_irq",
                                                    !.boot.slot = slot]

attach_lser_to_lamebus ==
    LET slot == lamebus_probe(dv, "serial", 1)
    IN /\ dv.boot.pc = "lser"
       /\ dv' = IF slot = 0 THEN SetBoot(dv, "cpus")
                ELSE [lamebus_mark(dv, slot) EXCEPT !.boot.pc = "lser_irq",
                                                    !.boot.slot = slot]

attach_handler ==
    /\ dv.boot.pc \in {"ltimer_irq", "lser_irq"}
    /\ dv' = SetBoot(lamebus_attach_interrupt(dv, dv.boot.slot, dv.boot.pc),
                     IF dv.boot.pc = "lser_irq" THEN "lser_config" ELSE "ltimer_config")

config_devices ==
    \/ /\ dv.boot.pc = "ltimer_config"
       /\ dv' = SetBoot(config_ltimer(dv, dv.boot.slot), "ltimer")
    \/ /\ dv.boot.pc = "lser_config"
       /\ dv' = SetBoot(config_lser(dv), "con")

\* config_con: the semaphores and locks exist, the kept characters are printed.
config_con ==
    /\ dv.boot.pc = "con"
    /\ dv' = [dv EXCEPT !.boot.pc = "flush", !.wsem = 1, !.rsem = 0,
                        !.head = 0, !.tail = 0, !.delayed = <<>>,
                        !.th[Main] = [@ EXCEPT !.pc = "print", !.todo = dv.delayed]]

flush_delay_buf ==
    /\ dv.boot.pc = "flush" /\ dv.th[Main].pc = "print" /\ Rest(Main) = <<>>
    /\ dv' = SetTh(SetBoot(dv, "lser"), Main, "done")

mainbus_start_cpus ==
    /\ dv.boot.pc = "cpus"
    /\ dv' = SetBoot(lamebus_start_cpus(dv, dv.board), "up")

---------------------------------------------------------------------------
DvInit ==
    \E m \in DvCpuMasks, j \in DvJobs :
       dv = [board |-> m, job |-> [t \in DvThreads \cup {Main} |->
                                      IF t = Main THEN "kprintf" ELSE j[t]],
             cpus |-> <<>>, cirqe |-> {}, cram |-> <<>>, cpue |-> {m.self},
             slotsinuse |-> {}, irqfuncs |-> [k \in Slots |-> "NULL"], duds |-> 0,
             ih |-> [pc |-> "idle", slot |-> 0, duds |-> 0, start |-> FALSE,
                     got |-> FALSE],
             w |-> IrqReg(FALSE, FALSE, FALSE), r |-> IrqReg(FALSE, FALSE, FALSE),
             tx |-> <<>>, rx |-> 0, out |-> <<>>, typed |-> 0, glitch |-> {},
             glitches |-> 0, now |-> 0, roe |-> {}, lt_irq |-> {}, seconds |-> 0,
             wbusy |-> FALSE, ls_lock |-> NoOne, delayed |-> <<>>,
             gotchars |-> [i \in 0..CONSOLE_INPUT_BUFFER_SIZE - 1 |-> 0],
             head |-> 0, tail |-> 0, wsem |-> 0, rsem |-> 0,
             locks |-> [l \in {"wlock", "rlock", "kprintf_lock",
                               "kprintf_spinlock"} |-> NoOne],
             th |-> [t \in DvThreads \cup {Main} |->
                        [pc |-> "start", todo |-> IF t # Main /\ j[t] \in Printers
                                                  THEN Text(t, j[t]) ELSE <<>>,
                         irqpending |-> FALSE, got |-> <<>>, from |-> 0, to |-> 0,
                         secs1 |-> 0, nsec |-> 0, left |-> 0]],
             read |-> <<>>, dropped |-> {}, errors |-> 0,
             boot |-> [pc |-> "off", slot |-> 0, print |-> 0], panic |-> FALSE]

DvNext ==
    \/ tx_done \/ key \/ glitch \/ tick
    \/ lamebus_interrupt \/ lser_irq \/ con_start \/ con_input \/ lser_return
    \/ ltimer_irq
    \/ \E t \in DvThreads \cup {Main} : putch_intr(t) \/ cs_send(t)
    \/ \E t \in DvThreads :
          \/ Acquire(t) \/ putch_polled(t) \/ lser_writepolled(t)
          \/ lser_poll_until_write(t) \/ kprintf(t) \/ con_io_fault(t)
          \/ getch_intr(t) \/ con_io_read(t) \/ clocksleep(t) \/ ltimer_gettime(t)
    \/ mainbus_bootstrap \/ putch_delayed \/ attach_ltimer_to_lamebus
    \/ attach_lser_to_lamebus \/ attach_handler \/ config_devices \/ config_con
    \/ flush_delay_buf \/ mainbus_start_cpus

DvSpec == DvInit /\ [][DvNext]_dv

---------------------------------------------------------------------------
Threads == DvThreads \cup {Main}
At(pc) == {t \in Threads : dv.th[t].pc = pc}
Count(b) == IF b THEN 1 ELSE 0

\* What has left the transmitter or is in it, of thread t.
Shown(t) == SelectSeq(dv.out \o (IF dv.tx = <<>> THEN <<>> ELSE <<dv.tx>>),
                      LAMBDA c : c[1] = t)

\* All a thread printed is on the line once and in order: what it has not
\* handed over yet is the rest of its text. A failed con_io stops early, and
\* a polled character counts from the moment it is sent.
InOrder ==
    /\ ~Configured => Shown(Main) = <<>>
    /\ \A t \in Threads : dv.job[t] \in Printers /\ (t = Main => Configured) =>
       LET all == IF t = Main THEN SubSeq(BootText, 1, dv.boot.print)
                  ELSE Text(t, dv.job[t])
           left == Len(Rest(t)) - Count(dv.th[t].pc = "wait")
       IN Shown(t) = SubSeq(all, 1, Len(all) - left)

\* Two operations that take the same lock do not mix their characters.
Unmixed ==
    \A i, j, k \in DOMAIN dv.out :
       i < j /\ j < k /\ dv.out[i][1] = dv.out[k][1] /\ dv.out[j][1] # dv.out[i][1]
       => dv.job[dv.out[j][1]] # dv.job[dv.out[i][1]]

\* The console's write semaphore is the port's readiness: exactly one of the
\* semaphore, a thread about to send, the port and the interrupt handler has it;
\* a busy port is about to interrupt.
PortAccounted ==
    Configured =>
       /\ dv.wsem + Cardinality(At("send")) + Count(dv.wbusy) + Count(dv.ih.start) = 1
       /\ dv.wbusy /\ LsFree => dv.w.en /\ (dv.tx # <<>> \/ dv.w.act)

\* The input buffer holds what rsem and the reader about to take one say, and
\* every key is read in order, waiting, or dropped with the buffer full.
Buffered == (dv.head - dv.tail) % CONSOLE_INPUT_BUFFER_SIZE
InputAccounted ==
    Configured =>
       /\ Buffered = dv.rsem + Cardinality(At("take"))
       /\ \A i, j \in DOMAIN dv.read : i < j => dv.read[i] < dv.read[j]
       /\ dv.typed = Len(dv.read) + Buffered + Cardinality(dv.dropped)
                     + Count(dv.r.act) + Count(dv.ih.got)

\* The time gettime returns was the time at some moment of the call, and a
\* clocksleep of n seconds lasts n ticks of the timer clock at least.
TimeRight ==
    \A t \in DvThreads : dv.th[t].pc = "done" =>
       /\ dv.job[t] = "gettime" =>
             dv.th[t].secs1 * DvSecond + dv.th[t].nsec \in dv.th[t].from..dv.th[t].to
       /\ dv.job[t] = "clocksleep" => dv.seconds - dv.th[t].from >= DvSleep

\* A secondary cpu is started with the number cpu_create gave it, and only the
\* boot cpu takes bus interrupts.
CpusNumbered ==
    \A i \in DOMAIN dv.cram : dv.cpus[dv.cram[i] + 1] = i /\ i \notin dv.cirqe

============================================================================

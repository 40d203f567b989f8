----------------------------- MODULE SchedSteps ------------------------------
(***************************************************************************)
(* The inductive invariant IInv of the scheduler, on any number of cpus    *)
(* and for any set of threads, and one lemma per action, showing that the  *)
(* action keeps it: the actions of thread_switch, thread_fork, the wait    *)
(* channel and the interrupts.  IInv adds to the safety properties which   *)
(* cpu a thread belongs to (HomeCpu), what c_isidle means (IdleFlags), who *)
(* holds the wait channel's spinlock (WcExclusive) and that the counts of  *)
(* thread_consider_migration stay lower bounds (CountsHold).               *)
(***************************************************************************)
EXTENDS Sched, SequenceTheorems, TLAPS

----------------------------------------------------------------------------
(* Sequences without repetition, and the sets of their elements *)

\* threadlist_addtail of a thread that is not on the list.
LEMMA AppendList ==
    ASSUME NEW S, NEW s \in Seq(S), NEW x \in S
    PROVE  /\ Append(s, x) \in Seq(S)
           /\ Len(Append(s, x)) = Len(s) + 1
           /\ Range(Append(s, x)) = Range(s) \cup {x}
           /\ IsInjective(s) /\ x \notin Range(s) => IsInjective(Append(s, x))
<1>1. /\ Append(s, x) \in Seq(S)
      /\ Len(Append(s, x)) = Len(s) + 1
      /\ DOMAIN Append(s, x) = 1 .. Len(s) + 1
      /\ \A i \in 1 .. Len(s) : Append(s, x)[i] = s[i]
      /\ Append(s, x)[Len(s) + 1] = x
      /\ DOMAIN s = 1 .. Len(s) /\ Len(s) \in Nat
  OBVIOUS
<1>2. Range(Append(s, x)) = Range(s) \cup {x}
  BY <1>1, SMT DEF Range
<1>3. ASSUME IsInjective(s), x \notin Range(s) PROVE IsInjective(Append(s, x))
  BY <1>1, <1>3, SMT DEF Range, IsInjective
<1> QED
  BY <1>1, <1>2, <1>3, Zenon

\* threadlist_remhead.
LEMMA TailList ==
    ASSUME NEW S, NEW s \in Seq(S), s # <<>>
    PROVE  /\ Tail(s) \in Seq(S) /\ Head(s) \in S
           /\ Len(Tail(s)) = Len(s) - 1
           /\ \A i \in 1 .. Len(s) - 1 : Tail(s)[i] = s[i + 1]
           /\ Head(s) \in Range(s)
           /\ IsInjective(s) => /\ IsInjective(Tail(s))
                                /\ Range(Tail(s)) = Range(s) \ {Head(s)}
<1>1. /\ Tail(s) \in Seq(S) /\ Head(s) \in S
      /\ Len(s) \in Nat /\ Len(s) > 0
      /\ DOMAIN s = 1 .. Len(s) /\ DOMAIN Tail(s) = 1 .. Len(s) - 1
      /\ Len(Tail(s)) = Len(s) - 1
      /\ \A i \in 1 .. Len(s) - 1 : Tail(s)[i] = s[i + 1]
      /\ Head(s) = s[1]
  OBVIOUS
<1>2. Head(s) \in Range(s)
  BY <1>1, SMT DEF Range
<1>3. ASSUME IsInjective(s) PROVE IsInjective(Tail(s))
  BY <1>1, <1>3, SMT DEF IsInjective
<1>4. ASSUME IsInjective(s) PROVE Range(Tail(s)) = Range(s) \ {Head(s)}
  <2>1. Range(Tail(s)) \subseteq Range(s) \ {Head(s)}
    BY <1>1, <1>4, SMT DEF IsInjective, Range
  <2>2. ASSUME NEW e \in Range(s) \ {Head(s)} PROVE e \in Range(Tail(s))
    <3>1. PICK i \in 1 .. Len(s) : e = s[i]
      BY <1>1, Zenon DEF Range
    <3>2. i - 1 \in 1 .. Len(s) - 1 /\ Tail(s)[i - 1] = e
      BY <1>1, <3>1
    <3> QED BY <1>1, <3>2, ZenonT(30) DEF Range
  <2> QED BY <2>1, <2>2
<1> QED
  BY <1>1, <1>2, <1>3, <1>4, Zenon

\* One list after another.
LEMMA ConcatList ==
    ASSUME NEW S, NEW s \in Seq(S), NEW u \in Seq(S)
    PROVE  /\ s \o u \in Seq(S)
           /\ Len(s \o u) = Len(s) + Len(u)
           /\ Range(s \o u) = Range(s) \cup Range(u)
           /\ IsInjective(s \o u) <=> /\ IsInjective(s) /\ IsInjective(u)
                                      /\ Range(s) \cap Range(u) = {}
<1>1. /\ s \o u \in Seq(S)
      /\ Len(s \o u) = Len(s) + Len(u)
      /\ Len(s) \in Nat /\ Len(u) \in Nat
      /\ DOMAIN s = 1 .. Len(s) /\ DOMAIN u = 1 .. Len(u)
      /\ DOMAIN (s \o u) = 1 .. Len(s) + Len(u)
      /\ \A i \in 1 .. Len(s) : (s \o u)[i] = s[i]
      /\ \A i \in 1 .. Len(u) : (s \o u)[Len(s) + i] = u[i]
  BY ConcatProperties
<1>2. \A i \in Len(s) + 1 .. Len(s) + Len(u) :
         i - Len(s) \in 1 .. Len(u) /\ (s \o u)[i] = u[i - Len(s)]
  BY <1>1
<1> HIDE <1>1
<1>3. Range(s \o u) = Range(s) \cup Range(u)
  <2>1. ASSUME NEW e \in Range(s \o u) PROVE e \in Range(s) \cup Range(u)
    BY <1>1, <1>2, <2>1 DEF Range
  <2>2. ASSUME NEW e \in Range(s) PROVE e \in Range(s \o u)
    BY <1>1, <2>2 DEF Range
  <2>3. ASSUME NEW e \in Range(u) PROVE e \in Range(s \o u)
    <3>1. PICK i \in 1 .. Len(u) : e = u[i]
      BY <1>1, <2>3, Zenon DEF Range
    <3>2. Len(s) + i \in DOMAIN (s \o u) /\ (s \o u)[Len(s) + i] = e
      BY <1>1, <3>1
    <3> QED BY <3>2 DEF Range
  <2> QED BY <2>1, <2>2, <2>3
<1>4. ASSUME IsInjective(s), IsInjective(u), Range(s) \cap Range(u) = {}
      PROVE  IsInjective(s \o u)
  <2> SUFFICES ASSUME NEW a \in DOMAIN (s \o u), NEW b \in DOMAIN (s \o u),
                      (s \o u)[a] = (s \o u)[b]
               PROVE  a = b
    BY Zenon DEF IsInjective
  <2>1. CASE a <= Len(s) /\ b <= Len(s)
    BY <1>1, <1>4, <2>1 DEF IsInjective
  <2>2. CASE a > Len(s) /\ b > Len(s)
    BY <1>1, <1>2, <1>4, <2>2 DEF IsInjective
  <2>3. CASE a <= Len(s) /\ b > Len(s)
    <3>1. a \in DOMAIN s /\ s[a] = (s \o u)[a]
      BY <1>1, <2>3
    <3>2. b - Len(s) \in DOMAIN u /\ u[b - Len(s)] = (s \o u)[b]
      BY <1>1, <1>2, <2>3
    <3> QED BY <1>4, <3>1, <3>2 DEF Range
  <2>4. CASE a > Len(s) /\ b <= Len(s)
    <3>1. b \in DOMAIN s /\ s[b] = (s \o u)[b]
      BY <1>1, <2>4
    <3>2. a - Len(s) \in DOMAIN u /\ u[a - Len(s)] = (s \o u)[a]
      BY <1>1, <1>2, <2>4
    <3> QED BY <1>4, <3>1, <3>2, ZenonT(30) DEF Range
  <2> QED BY <1>1, <2>1, <2>2, <2>3, <2>4
<1>5. ASSUME IsInjective(s \o u)
      PROVE  IsInjective(s) /\ IsInjective(u) /\ Range(s) \cap Range(u) = {}
  <2>1. IsInjective(s)
    BY <1>1, <1>5 DEF IsInjective
  <2>2. IsInjective(u)
    <3> SUFFICES ASSUME NEW a \in DOMAIN u, NEW b \in DOMAIN u, u[a] = u[b] PROVE a = b
      BY Zenon DEF IsInjective
    <3>1. /\ Len(s) + a \in DOMAIN (s \o u) /\ Len(s) + b \in DOMAIN (s \o u)
          /\ (s \o u)[Len(s) + a] = (s \o u)[Len(s) + b]
      BY <1>1
    <3>2. Len(s) + a = Len(s) + b
      BY <1>5, <3>1, Zenon DEF IsInjective
    <3> QED BY <1>1, <3>2
  <2>3. ASSUME NEW e \in Range(s), e \in Range(u) PROVE FALSE
    <3>1. PICK i \in 1 .. Len(s) : e = s[i]
      BY <1>1, <2>3, Zenon DEF Range
    <3>2. PICK j \in 1 .. Len(u) : e = u[j]
      BY <1>1, <2>3, Zenon DEF Range
    <3>3. i \in DOMAIN (s \o u) /\ Len(s) + j \in DOMAIN (s \o u) /\ i # Len(s) + j
      BY <1>1
    <3>4. (s \o u)[i] = e /\ (s \o u)[Len(s) + j] = e
      BY <1>1, <3>1, <3>2, Zenon
    <3> QED BY <1>5, <3>3, <3>4 DEF IsInjective
  <2> QED BY <2>1, <2>2, <2>3
<1> QED
  BY <1>1, <1>3, <1>4, <1>5, Zenon

\* A list cut in two.
LEMMA CutList ==
    ASSUME NEW S, NEW s \in Seq(S), NEW k \in 0 .. Len(s)
    PROVE  /\ SubSeq(s, 1, k) \in Seq(S) /\ SubSeq(s, k + 1, Len(s)) \in Seq(S)
           /\ Len(SubSeq(s, 1, k)) = k /\ Len(SubSeq(s, k + 1, Len(s))) = Len(s) - k
           /\ s = SubSeq(s, 1, k) \o SubSeq(s, k + 1, Len(s))
<1>1. Len(s) \in Nat /\ k \in Nat /\ k <= Len(s)
  OBVIOUS
<1>2. SubSeq(s, 1, k) \o SubSeq(s, k + 1, Len(s)) = SubSeq(s, 1, Len(s))
  <2>1. 1 \in 1 .. Len(s) + 1 /\ k \in 1 - 1 .. Len(s) /\ Len(s) \in k .. Len(s)
    BY <1>1
  <2> HIDE <1>1
  <2> QED BY <2>1, ConcatAdjacentSubSeq, ZenonT(30)
<1>3. SubSeq(s, 1, Len(s)) = s
  BY SubSeqFull, Zenon
<1>4. SubSeq(s, 1, k) \in Seq(S) /\ Len(SubSeq(s, 1, k)) = k
  BY <1>1, SubSeqProperties
<1>5. SubSeq(s, k + 1, Len(s)) \in Seq(S) /\ Len(SubSeq(s, k + 1, Len(s))) = Len(s) - k
  BY <1>1, SubSeqProperties
<1> QED
  BY <1>2, <1>3, <1>4, <1>5, Zenon

----------------------------------------------------------------------------
\* The handlers a cpu may be in on the stack of a thread that has gone to sleep.
InHandler == {"wake", "count", "take", "give", "putback"}

\* c_isidle is set from the moment thread_switch has put the old thread away
\* until it has found a new one, through the interrupts taken meanwhile.
IdleFlags ==
    \A c \in CPUs :
        c_isidle[c] <=> \/ pc[c] \in {"pick", "idle", "unidle"}
                        \/ pc[c] \in InHandler /\ ret[c] = "unidle"

\* A thread is in the hands of a wakeup only inside wchan_wakeone.
Targets == \A c \in CPUs : target[c] # NULL <=> pc[c] = "wake"

\* The list of victims lives from the taking to the putting back.
VictimsHeld == \A c \in CPUs : victims[c] # <<>> => pc[c] \in {"give", "putback"}

\* One cpu at a time is inside the wait channel's spinlock.
WcExclusive == \A c, d \in CPUs : HoldsWc(c) /\ HoldsWc(d) => c = d

\* The lists that hold threads of cpu c.
Listed(c) == Range(c_runqueue[c]) \cup Range(victims[c]) \cup Range(c_zombies[c])

\* Cpu c has thread t, on a list, in the hands of a wakeup, or running.
At(c, t) ==
    t \in Listed(c) \/ t = target[c] \/ (OnCpu(c) /\ t = c_curthread[c])

\* t_cpu names the cpu whose lists a thread is on and, asleep or not, the one
\* whose idle loop may still be using its stack.
HomeCpu ==
    /\ \A t \in Threads : t_state[t] # "free" => t_cpu[t] \in CPUs
    /\ \A c \in CPUs : t_cpu[c_curthread[c]] = c /\ t_state[c_curthread[c]] # "free"
    /\ \A c \in CPUs : \A t \in Listed(c) : t_cpu[t] = c

\* Nothing is listed twice at one cpu.
WithinCpu(c) ==
    /\ IsInjective(c_runqueue[c]) /\ IsInjective(victims[c]) /\ IsInjective(c_zombies[c])
    /\ Range(c_runqueue[c]) \cap Range(victims[c]) = {}
    /\ Range(c_zombies[c]) \cap (Range(c_runqueue[c]) \cup Range(victims[c])) = {}
    /\ target[c] \notin Listed(c)
    /\ OnCpu(c) => c_curthread[c] \notin Listed(c) \cup {target[c]}

Within == \A c \in CPUs : WithinCpu(c)

\* Nothing is at two cpus, nor at a cpu and on the wait channel.
OnePlace ==
    /\ IsInjective(wc_threads)
    /\ \A c \in CPUs, t \in Threads : At(c, t) => t \notin Range(wc_threads)
    /\ \A c, d \in CPUs, t \in Threads : At(c, t) /\ At(d, t) => c = d

\* The threads that exist are those some place has.
Accounted ==
    \A t \in Threads :
        t_state[t] # "free" <=> t \in Range(wc_threads) \/ \E c \in CPUs : At(c, t)

\* What thread_consider_migration counted on its own run queue is still there:
\* while it runs, its cpu takes no thread off that queue.
CountsHold ==
    \A c \in CPUs :
        /\ pc[c] = "count" =>
              /\ mig[c].i \in CPUs
              /\ mig[c].my <= IF mig[c].i > c THEN Len(c_runqueue[c]) ELSE 0
        /\ pc[c] = "take" => mig[c].send <= Len(c_runqueue[c])
        /\ pc[c] = "give" => mig[c].send <= Len(victims[c])
        /\ pc[c] \in {"take", "give"} => mig[c].i >= 1

\* The inductive invariant.
IInv ==
    /\ TypeOK
    /\ IdleFlags /\ Targets /\ VictimsHeld /\ WcExclusive
    /\ HomeCpu /\ Within /\ OnePlace /\ Accounted
    /\ IdleNotified /\ CountsHold

----------------------------------------------------------------------------
\* thread_bootstrap and cpu_create establish the invariant.
LEMMA InitIInv == Init => IInv
<1> SUFFICES ASSUME Init PROVE IInv
  BY Zenon
<1> USE CPUAssumption, BootAssumption DEF Init
<1>1. Range(<<>>) = {} /\ IsInjective(<<>>)
  BY DEF Range, IsInjective
<1>2. \A c \in CPUs : (CHOOSE d \in CPUs : Boot[d] = Boot[c]) = c
  BY Zenon
<1>3. TypeOK
  BY DEF TypeOK, NoMig, ThreadStates, Places
<1>4. IdleFlags /\ Targets /\ VictimsHeld /\ WcExclusive
  BY Zenon DEF IdleFlags, Targets, VictimsHeld, WcExclusive, HoldsWc, InHandler
<1>5. HomeCpu
  BY <1>1, <1>2, Zenon DEF HomeCpu, Listed
<1>6. Within
  BY <1>1 DEF Within, WithinCpu, Listed
<1>7. \A c \in CPUs, t \in Threads : At(c, t) <=> t = Boot[c]
  BY <1>1, Zenon DEF At, Listed, OnCpu
<1>8. OnePlace /\ Accounted
  BY <1>1, <1>7, Zenon DEF OnePlace, Accounted
<1>9. IdleNotified /\ CountsHold
  BY Zenon DEF IdleNotified, CountsHold
<1> QED
  BY <1>3, <1>4, <1>5, <1>6, <1>8, <1>9, Zenon DEF IInv

\* The lists hold threads.
LEMMA ListedThreads ==
    ASSUME TypeOK
    PROVE  \A c \in CPUs : Listed(c) \subseteq Threads
<1>1. \A s \in Seq(Threads) : Range(s) \subseteq Threads
  BY DEF Range
<1> QED
  BY <1>1, Zenon DEF TypeOK, Listed

----------------------------------------------------------------------------
(* Steps in which no thread changes place *)

\* If no thread changes place and none is made or destroyed, all are still in one.
LEMMA SamePlaces ==
    ASSUME OnePlace, Accounted, UNCHANGED wc_threads,
           \A c \in CPUs, t \in Threads : At(c, t)' <=> At(c, t),
           \A t \in Threads : t_state'[t] = "free" <=> t_state[t] = "free"
    PROVE  OnePlace' /\ Accounted'
  BY Zenon DEF OnePlace, Accounted

\* A step that touches no list and leaves every cpu on its stack.
Quiet ==
    /\ UNCHANGED <<t_cpu, c_curthread, c_runqueue, c_zombies, wc_threads, target, victims>>
    /\ t_state' \in [Threads -> ThreadStates]
    /\ \A t \in Threads : t_state'[t] = "free" <=> t_state[t] = "free"
    /\ \A c \in CPUs : OnCpu(c)' <=> OnCpu(c)

\* Such a step leaves every thread where it is.
LEMMA QuietKeepsPlaces ==
    ASSUME TypeOK, HomeCpu, Within, OnePlace, Accounted, Quiet
    PROVE  HomeCpu' /\ Within' /\ OnePlace' /\ Accounted'
<1> USE DEF Quiet
<1>1. \A c \in CPUs : Listed(c)' = Listed(c)
  BY Zenon DEF Listed
<1>2. HomeCpu'
  BY <1>1 DEF TypeOK, HomeCpu
<1>3. Within'
  BY <1>1, Zenon DEF Within, WithinCpu
<1>4. \A c \in CPUs, t \in Threads : At(c, t)' <=> At(c, t)
  BY <1>1, Zenon DEF At
<1> QED
  BY <1>2, <1>3, <1>4, SamePlaces, Zenon

\* thread_exit, wchan_sleep and thread_yield enter thread_switch.
LEMMA EnterSwitchStep ==
    ASSUME IInv, NEW c \in CPUs, thread_exit(c) \/ wchan_sleep(c) \/ thread_yield(c)
    PROVE  IInv'
<1>a. PICK p \in {"run", "s_READY", "s_SLEEP", "s_ZOMBIE"} :
        /\ pc[c] \in {"run", "yield"} /\ pc' = [pc EXCEPT ![c] = p]
        /\ p = "s_SLEEP" => WcFree
        /\ UNCHANGED <<threadVars, cpuVars, wc_threads, ret, target, migVars>>
  BY Zenon DEF thread_exit, wchan_sleep, thread_yield, EnterSwitch
<1> USE <1>a DEF threadVars, cpuVars, migVars
<1>1. TypeOK'
  BY Zenon DEF IInv, TypeOK, Places
<1>2. pc \in [CPUs -> Places] /\ ret \in [CPUs -> {"run", "yield", "unidle"}]
  BY Zenon DEF IInv, TypeOK
<1>3. IdleFlags'
  BY <1>2, Zenon DEF IInv, IdleFlags, InHandler
<1>4. Targets' /\ VictimsHeld'
  BY <1>2, Zenon DEF IInv, Targets, VictimsHeld
<1>5. WcExclusive'
  BY <1>2, Zenon DEF IInv, WcExclusive, HoldsWc, WcFree
<1>6. Quiet
  <2>1. \A d \in CPUs : OnCpu(d)' <=> OnCpu(d)
    BY <1>2, Zenon DEF OnCpu
  <2> QED
    BY <1>1, <2>1, Zenon DEF Quiet, TypeOK
<1>7. HomeCpu' /\ Within' /\ OnePlace' /\ Accounted'
  BY <1>6, QuietKeepsPlaces, Zenon DEF IInv
<1>8. IdleNotified'
  BY <1>2, Zenon DEF IInv, IdleNotified
<1>9. CountsHold'
  BY <1>2, Zenon DEF IInv, CountsHold
<1> QED
  BY <1>1, <1>3, <1>4, <1>5, <1>7, <1>8, <1>9, Zenon DEF IInv

\* thread_switch sets S_SLEEP after the channel has been unlocked.
LEMMA SwitchSleepStateStep ==
    ASSUME IInv, NEW c \in CPUs, SwitchSleepState(c)
    PROVE  IInv'
<1> USE DEF SwitchSleepState, migVars
<1>1. TypeOK'
  BY Zenon DEF IInv, TypeOK, Places, ThreadStates
<1>2. pc \in [CPUs -> Places] /\ ret \in [CPUs -> {"run", "yield", "unidle"}]
  BY Zenon DEF IInv, TypeOK
<1>3. IdleFlags'
  BY <1>2, Zenon DEF IInv, TypeOK, IdleFlags, InHandler
<1>4. Targets' /\ VictimsHeld'
  BY <1>2, Zenon DEF IInv, Targets, VictimsHeld
<1>5. WcExclusive'
  BY <1>2, Zenon DEF IInv, WcExclusive, HoldsWc
<1>6. Quiet
  <2>1. \A d \in CPUs : OnCpu(d)' <=> OnCpu(d)
    BY <1>2, Zenon DEF OnCpu, IInv, TypeOK
  <2> QED
    BY <1>1, <2>1, Zenon DEF Quiet, TypeOK, IInv, HomeCpu
<1>7. HomeCpu' /\ Within' /\ OnePlace' /\ Accounted'
  BY <1>6, QuietKeepsPlaces, Zenon DEF IInv
<1>8. IdleNotified'
  BY <1>2, Zenon DEF IInv, IdleNotified
<1>9. CountsHold'
  BY <1>2, Zenon DEF IInv, CountsHold
<1> QED
  BY <1>1, <1>3, <1>4, <1>5, <1>7, <1>8, <1>9, Zenon DEF IInv

\* cpu_idle returns.
LEMMA UnidleStep ==
    ASSUME IInv, NEW c \in CPUs, Unidle(c)
    PROVE  IInv'
<1> USE DEF Unidle, threadVars, cpuVars, migVars
<1>1. TypeOK'
  BY Zenon DEF IInv, TypeOK, Places
<1>2. pc \in [CPUs -> Places] /\ ret \in [CPUs -> {"run", "yield", "unidle"}]
  BY Zenon DEF IInv, TypeOK
<1>3. IdleFlags'
  BY <1>2, Zenon DEF IInv, IdleFlags, InHandler
<1>4. Targets' /\ VictimsHeld'
  BY <1>2, Zenon DEF IInv, Targets, VictimsHeld
<1>5. WcExclusive'
  BY <1>2, Zenon DEF IInv, WcExclusive, HoldsWc
<1>6. Quiet
  <2>1. \A d \in CPUs : OnCpu(d)' <=> OnCpu(d)
    BY <1>2, Zenon DEF OnCpu
  <2> QED
    BY <1>1, <2>1, Zenon DEF Quiet, TypeOK
<1>7. HomeCpu' /\ Within' /\ OnePlace' /\ Accounted'
  BY <1>6, QuietKeepsPlaces, Zenon DEF IInv
<1>8. IdleNotified'
  BY <1>2, Zenon DEF IInv, IdleNotified
<1>9. CountsHold'
  BY <1>2, Zenon DEF IInv, CountsHold
<1> QED
  BY <1>1, <1>3, <1>4, <1>5, <1>7, <1>8, <1>9, Zenon DEF IInv

\* The interrupt that ends idling.
LEMMA IpiInterruptStep ==
    ASSUME IInv, NEW c \in CPUs, IpiInterrupt(c)
    PROVE  IInv'
<1> USE DEF IpiInterrupt, threadVars, migVars, Interruptible, Resume
<1>1. TypeOK'
  BY Zenon DEF IInv, TypeOK, Places
<1>2. pc \in [CPUs -> Places] /\ ret \in [CPUs -> {"run", "yield", "unidle"}]
  BY Zenon DEF IInv, TypeOK
<1>3. IdleFlags'
  BY <1>2, Zenon DEF IInv, IdleFlags, InHandler
<1>4. Targets' /\ VictimsHeld'
  BY <1>2, Zenon DEF IInv, Targets, VictimsHeld
<1>5. WcExclusive'
  BY <1>2, ZenonT(30) DEF IInv, WcExclusive, HoldsWc
<1>6. Quiet
  <2>1. \A d \in CPUs : OnCpu(d)' <=> OnCpu(d)
    BY <1>2, Zenon DEF OnCpu
  <2> QED
    BY <1>1, <2>1, Zenon DEF Quiet, TypeOK
<1>7. HomeCpu' /\ Within' /\ OnePlace' /\ Accounted'
  BY <1>6, QuietKeepsPlaces, Zenon DEF IInv
<1>8. IdleNotified'
  BY <1>2, Zenon DEF IInv, TypeOK, IdleNotified
<1>9. CountsHold'
  BY <1>2, Zenon DEF IInv, CountsHold
<1> QED
  BY <1>1, <1>3, <1>4, <1>5, <1>7, <1>8, <1>9, Zenon DEF IInv

\* The timer interrupt starts counting or goes on to yield.
LEMMA HardclockStep ==
    ASSUME IInv, NEW c \in CPUs, hardclock(c)
    PROVE  IInv'
<1> USE DEF hardclock, threadVars, cpuVars, Interruptible, Resume, AfterClock
<1>1. TypeOK'
  <2>1. [NoMig EXCEPT !.i = 1] \in [i : Nat, my : Nat, total : Nat, send : Nat]
    BY Zenon DEF NoMig
  <2>2. mig' \in [CPUs -> [i : Nat, my : Nat, total : Nat, send : Nat]]
    BY <2>1, ZenonT(30) DEF IInv, TypeOK
  <2> QED
    BY <2>2, Zenon DEF IInv, TypeOK, Places
<1>2. pc \in [CPUs -> Places] /\ ret \in [CPUs -> {"run", "yield", "unidle"}]
  BY Zenon DEF IInv, TypeOK
<1>3. IdleFlags'
  BY <1>2, ZenonT(30) DEF IInv, IdleFlags, InHandler
<1>4. Targets' /\ VictimsHeld'
  BY <1>2, Zenon DEF IInv, Targets, VictimsHeld
<1>5. WcExclusive'
  BY <1>2, Zenon DEF IInv, WcExclusive, HoldsWc
<1>6. Quiet
  <2>1. \A d \in CPUs : OnCpu(d)' <=> OnCpu(d)
    BY <1>2, Zenon DEF OnCpu
  <2> QED
    BY <1>1, <2>1, Zenon DEF Quiet, TypeOK
<1>7. HomeCpu' /\ Within' /\ OnePlace' /\ Accounted'
  BY <1>6, QuietKeepsPlaces, Zenon DEF IInv
<1>8. IdleNotified'
  BY <1>2, Zenon DEF IInv, IdleNotified
<1>9. CountsHold'
  <2>1. CASE pc'[c] \in {"yield", "unidle"} /\ UNCHANGED mig
    BY <1>2, <2>1, Zenon DEF IInv, CountsHold
  <2>2. CASE pc'[c] = "count" /\ mig' = [mig EXCEPT ![c] = [NoMig EXCEPT !.i = 1]]
    <3>1. mig'[c].i = 1 /\ mig'[c].my = 0 /\ \A d \in CPUs : d # c => mig'[d] = mig[d]
      BY <2>2, Zenon DEF IInv, TypeOK, NoMig
    <3>2. 1 \in CPUs /\ ~(1 > c)
      BY CPUAssumption DEF CPUs
    <3> QED
      BY <1>2, <2>2, <3>1, <3>2 DEF IInv, CountsHold
  <2> QED
    BY <1>2, <2>1, <2>2, Zenon
<1> QED
  BY <1>1, <1>3, <1>4, <1>5, <1>7, <1>8, <1>9, Zenon DEF IInv

----------------------------------------------------------------------------
(* thread_fork and thread_switch *)

\* thread_fork puts a new thread on the run queue of this cpu.
LEMMA ForkStep ==
    ASSUME IInv, NEW c \in CPUs, NEW t \in Threads, thread_fork(c, t)
    PROVE  IInv'
<1> USE DEF thread_fork, migVars
<1>1. /\ c_runqueue \in [CPUs -> Seq(Threads)] /\ t_cpu \in [Threads -> CPUs \cup {NULL}]
      /\ t_state \in [Threads -> ThreadStates] /\ c_curthread \in [CPUs -> Threads]
  BY Zenon DEF IInv, TypeOK
<1>2. t \notin Range(wc_threads) /\ \A d \in CPUs : ~At(d, t) /\ t # c_curthread[d]
  BY Zenon DEF IInv, HomeCpu, Accounted
<1>3. \A d \in CPUs : t \notin Listed(d)
  BY <1>2, Zenon DEF At
<1>4. /\ Append(c_runqueue[c], t) \in Seq(Threads)
      /\ Len(Append(c_runqueue[c], t)) = Len(c_runqueue[c]) + 1
      /\ Range(Append(c_runqueue[c], t)) = Range(c_runqueue[c]) \cup {t}
      /\ IsInjective(Append(c_runqueue[c], t))
  BY <1>1, <1>3, AppendList DEF IInv, Within, WithinCpu, Listed
<1>5. /\ \A d \in CPUs : Listed(d)' = IF d = c THEN Listed(d) \cup {t} ELSE Listed(d)
      /\ \A d \in CPUs : OnCpu(d)' <=> OnCpu(d)
  BY <1>1, <1>4, Zenon DEF Listed, OnCpu
<1>6. TypeOK'
  BY <1>4, Zenon DEF IInv, TypeOK, ThreadStates
<1>7. IdleFlags' /\ Targets' /\ VictimsHeld' /\ WcExclusive' /\ IdleNotified'
  BY <1>1, Zenon DEF IInv, IdleFlags, Targets, VictimsHeld, WcExclusive, HoldsWc, IdleNotified
<1>8. HomeCpu'
  <2>1. \A d \in CPUs : \A u \in Listed(d)' : t_cpu'[u] = d
    BY <1>1, <1>2, <1>3, <1>5, ListedThreads DEF IInv, HomeCpu
  <2> QED
    BY <1>1, <1>2, <2>1, Zenon DEF IInv, HomeCpu
<1>9. Within'
  <2>1. /\ \A d \in CPUs : t # target[d] /\ t # c_curthread[d]
        /\ t \notin Range(victims[c]) /\ t \notin Range(c_zombies[c])
    BY <1>2, <1>3, Zenon DEF At, Listed
  <2>2. ASSUME NEW d \in CPUs, d # c PROVE WithinCpu(d)'
    BY <1>1, <1>5, <2>2, Zenon DEF IInv, Within, WithinCpu
  <2>3. WithinCpu(c)'
    <3>1. IsInjective(c_runqueue'[c]) /\ Range(c_runqueue'[c]) = Range(c_runqueue[c]) \cup {t}
      BY <1>1, <1>4, Zenon
    <3>2. WithinCpu(c)
      BY Zenon DEF IInv, Within
    <3> QED
      BY <1>5, <2>1, <3>1, <3>2, Zenon DEF WithinCpu
  <2> QED
    BY <2>2, <2>3, Zenon DEF Within
<1>10. OnePlace' /\ Accounted'
  <2>1. \A d \in CPUs, u \in Threads : At(d, u)' <=> At(d, u) \/ (d = c /\ u = t)
    BY <1>5, Zenon DEF At
  <2>2. \A u \in Threads : t_state'[u] # "free" <=> t_state[u] # "free" \/ u = t
    BY <1>1, Zenon
  <2> QED
    BY <1>2, <2>1, <2>2, Zenon DEF IInv, OnePlace, Accounted
<1>11. CountsHold'
  BY <1>1, <1>4, Zenon DEF IInv, TypeOK, CountsHold
<1> QED
  BY <1>6, <1>7, <1>8, <1>9, <1>10, <1>11, Zenon DEF IInv

\* thread_switch(S_READY): the current thread goes to the end of the run queue.
LEMMA SwitchReadyStep ==
    ASSUME IInv, NEW c \in CPUs, SwitchReady(c)
    PROVE  IInv'
<1> USE DEF SwitchReady, migVars
<1> DEFINE cur == c_curthread[c]
<1>1. /\ c_runqueue \in [CPUs -> Seq(Threads)] /\ c_curthread \in [CPUs -> Threads]
      /\ t_state \in [Threads -> ThreadStates] /\ pc \in [CPUs -> Places]
      /\ c_isidle \in [CPUs -> BOOLEAN]
  BY Zenon DEF IInv, TypeOK
<1>2. OnCpu(c) /\ cur \notin Listed(c) /\ cur # target[c] /\ t_state[cur] # "free"
  BY Zenon DEF IInv, IdleFlags, InHandler, HomeCpu, Within, WithinCpu, OnCpu
<1>3. /\ Append(c_runqueue[c], cur) \in Seq(Threads)
      /\ Len(Append(c_runqueue[c], cur)) = Len(c_runqueue[c]) + 1
      /\ Range(Append(c_runqueue[c], cur)) = Range(c_runqueue[c]) \cup {cur}
      /\ IsInjective(Append(c_runqueue[c], cur))
  BY <1>1, <1>2, AppendList DEF IInv, Within, WithinCpu, Listed
<1>4. /\ \A d \in CPUs : Listed(d)' = IF d = c THEN Listed(d) \cup {cur} ELSE Listed(d)
      /\ \A d \in CPUs : OnCpu(d)' <=> OnCpu(d) /\ d # c
  BY <1>1, <1>3, Zenon DEF Listed, OnCpu
<1>5. TypeOK'
  BY <1>3, Zenon DEF IInv, TypeOK, ThreadStates, Places
<1>6. IdleFlags'
  BY <1>1, Zenon DEF IInv, IdleFlags, InHandler
<1>7. Targets' /\ VictimsHeld' /\ WcExclusive' /\ IdleNotified'
  BY <1>1, Zenon DEF IInv, Targets, VictimsHeld, WcExclusive, HoldsWc, IdleNotified
<1>8. HomeCpu'
  <2>1. \A d \in CPUs : \A u \in Listed(d)' : t_cpu'[u] = d
    BY <1>4 DEF IInv, HomeCpu
  <2> QED
    BY <1>1, <1>2, <2>1, Zenon DEF IInv, HomeCpu
<1>9. Within'
  <2>1. cur \notin Range(victims[c]) /\ cur \notin Range(c_zombies[c])
    BY <1>2, Zenon DEF Listed
  <2>2. ASSUME NEW d \in CPUs, d # c PROVE WithinCpu(d)'
    BY <1>1, <1>4, <2>2, Zenon DEF IInv, Within, WithinCpu
  <2>3. WithinCpu(c)'
    <3>1. IsInjective(c_runqueue'[c]) /\ Range(c_runqueue'[c]) = Range(c_runqueue[c]) \cup {cur}
      BY <1>1, <1>3, Zenon
    <3>2. WithinCpu(c)
      BY Zenon DEF IInv, Within
    <3> QED
      BY <1>2, <1>4, <2>1, <3>1, <3>2, Zenon DEF WithinCpu
  <2> QED
    BY <2>2, <2>3, Zenon DEF Within
<1>10. OnePlace' /\ Accounted'
  <2>1. \A d \in CPUs, u \in Threads : At(d, u)' <=> At(d, u)
    BY <1>1, <1>2, <1>4, Zenon DEF At
  <2>2. \A u \in Threads : t_state'[u] = "free" <=> t_state[u] = "free"
    BY <1>1, <1>2, Zenon
  <2> QED
    BY <2>1, <2>2, SamePlaces, Zenon DEF IInv
<1>11. CountsHold'
  BY <1>1, <1>3, Zenon DEF IInv, CountsHold
<1> QED
  BY <1>5, <1>6, <1>7, <1>8, <1>9, <1>10, <1>11, Zenon DEF IInv

\* thread_switch(S_SLEEP): the current thread goes onto the wait channel.
LEMMA SwitchSleepStep ==
    ASSUME IInv, NEW c \in CPUs, SwitchSleep(c)
    PROVE  IInv'
<1> USE DEF SwitchSleep, threadVars, cpuVars, migVars
<1> DEFINE cur == c_curthread[c]
<1>1. /\ c_curthread \in [CPUs -> Threads] /\ wc_threads \in Seq(Threads)
      /\ pc \in [CPUs -> Places]
  BY Zenon DEF IInv, TypeOK
<1>2. OnCpu(c) /\ cur \notin Listed(c) /\ cur # target[c]
  BY Zenon DEF IInv, IdleFlags, InHandler, Within, WithinCpu, OnCpu
<1>3. cur \notin Range(wc_threads) /\ \A d \in CPUs : At(d, cur) <=> d = c
  BY <1>1, <1>2, Zenon DEF IInv, OnePlace, At
<1>4. /\ Append(wc_threads, cur) \in Seq(Threads)
      /\ Range(Append(wc_threads, cur)) = Range(wc_threads) \cup {cur}
      /\ IsInjective(Append(wc_threads, cur))
  BY <1>1, <1>3, AppendList DEF IInv, OnePlace
<1>5. /\ \A d \in CPUs : Listed(d)' = Listed(d)
      /\ \A d \in CPUs : OnCpu(d)' <=> OnCpu(d) /\ d # c
  BY <1>1, Zenon DEF Listed, OnCpu
<1>6. TypeOK'
  BY <1>4, Zenon DEF IInv, TypeOK, Places
<1>7. IdleFlags'
  BY <1>1, Zenon DEF IInv, IdleFlags, InHandler
<1>8. Targets' /\ VictimsHeld' /\ WcExclusive' /\ IdleNotified'
  BY <1>1, Zenon DEF IInv, Targets, VictimsHeld, WcExclusive, HoldsWc, IdleNotified
<1>9. HomeCpu' /\ Within'
  <2>1. HomeCpu'
    BY <1>5, Zenon DEF IInv, HomeCpu
  <2>2. Within'
    BY <1>5, Zenon DEF IInv, Within, WithinCpu
  <2> QED
    BY <2>1, <2>2, Zenon
<1>10. OnePlace' /\ Accounted'
  <2>1. \A d \in CPUs, u \in Threads : At(d, u)' <=> At(d, u) /\ u # cur
    <3>1. \A u \in Threads : At(c, u)' <=> At(c, u) /\ u # cur
      BY <1>2, <1>5, Zenon DEF At
    <3>2. \A d \in CPUs, u \in Threads : d # c => (At(d, u)' <=> At(d, u))
      BY <1>5, Zenon DEF At
    <3> QED
      BY <1>1, <1>3, <3>1, <3>2, Zenon
  <2> QED
    BY <1>1, <1>3, <1>4, <2>1, Zenon DEF IInv, OnePlace, Accounted
<1>11. CountsHold'
  BY <1>1, Zenon DEF IInv, CountsHold
<1> QED
  BY <1>6, <1>7, <1>8, <1>9, <1>10, <1>11, Zenon DEF IInv

\* thread_switch(S_ZOMBIE): the current thread goes onto the list of zombies.
LEMMA SwitchZombieStep ==
    ASSUME IInv, NEW c \in CPUs, SwitchZombie(c)
    PROVE  IInv'
<1> USE DEF SwitchZombie, migVars
<1> DEFINE cur == c_curthread[c]
<1>1. /\ c_zombies \in [CPUs -> Seq(Threads)] /\ c_curthread \in [CPUs -> Threads]
      /\ t_state \in [Threads -> ThreadStates] /\ pc \in [CPUs -> Places]
      /\ c_isidle \in [CPUs -> BOOLEAN]
  BY Zenon DEF IInv, TypeOK
<1>2. OnCpu(c) /\ cur \notin Listed(c) /\ cur # target[c] /\ t_state[cur] # "free"
  BY Zenon DEF IInv, IdleFlags, InHandler, HomeCpu, Within, WithinCpu, OnCpu
<1>3. /\ Append(c_zombies[c], cur) \in Seq(Threads)
      /\ Range(Append(c_zombies[c], cur)) = Range(c_zombies[c]) \cup {cur}
      /\ IsInjective(Append(c_zombies[c], cur))
  BY <1>1, <1>2, AppendList DEF IInv, Within, WithinCpu, Listed
<1>4. /\ \A d \in CPUs : Listed(d)' = IF d = c THEN Listed(d) \cup {cur} ELSE Listed(d)
      /\ \A d \in CPUs : OnCpu(d)' <=> OnCpu(d) /\ d # c
  BY <1>1, <1>3, Zenon DEF Listed, OnCpu
<1>5. TypeOK'
  BY <1>3, Zenon DEF IInv, TypeOK, ThreadStates, Places
<1>6. IdleFlags'
  BY <1>1, Zenon DEF IInv, IdleFlags, InHandler
<1>7. Targets' /\ VictimsHeld' /\ WcExclusive' /\ IdleNotified'
  BY <1>1, Zenon DEF IInv, Targets, VictimsHeld, WcExclusive, HoldsWc, IdleNotified
<1>8. HomeCpu'
  <2>1. \A d \in CPUs : \A u \in Listed(d)' : t_cpu'[u] = d
    BY <1>4 DEF IInv, HomeCpu
  <2> QED
    BY <1>1, <1>2, <2>1, Zenon DEF IInv, HomeCpu
<1>9. Within'
  <2>1. cur \notin Range(victims[c]) /\ cur \notin Range(c_runqueue[c])
    BY <1>2, Zenon DEF Listed
  <2>2. ASSUME NEW d \in CPUs, d # c PROVE WithinCpu(d)'
    BY <1>1, <1>4, <2>2, Zenon DEF IInv, Within, WithinCpu
  <2>3. WithinCpu(c)'
    <3>1. IsInjective(c_zombies'[c]) /\ Range(c_zombies'[c]) = Range(c_zombies[c]) \cup {cur}
      BY <1>1, <1>3, Zenon
    <3>2. WithinCpu(c)
      BY Zenon DEF IInv, Within
    <3> QED
      BY <1>2, <1>4, <2>1, <3>1, <3>2, ZenonT(30) DEF WithinCpu
  <2> QED
    BY <2>2, <2>3, Zenon DEF Within
<1>10. OnePlace' /\ Accounted'
  <2>1. \A d \in CPUs, u \in Threads : At(d, u)' <=> At(d, u)
    BY <1>1, <1>2, <1>4, Zenon DEF At
  <2>2. \A u \in Threads : t_state'[u] = "free" <=> t_state[u] = "free"
    BY <1>1, <1>2, Zenon
  <2> QED
    BY <2>1, <2>2, SamePlaces, Zenon DEF IInv
<1>11. CountsHold'
  BY <1>1, Zenon DEF IInv, CountsHold
<1> QED
  BY <1>5, <1>6, <1>7, <1>8, <1>9, <1>10, <1>11, Zenon DEF IInv

\* thread_switch takes the next thread, or idles.
LEMMA PickStep ==
    ASSUME IInv, NEW c \in CPUs, Pick(c)
    PROVE  IInv'
<1> USE DEF Pick, threadVars, migVars
<1>1. /\ c_runqueue \in [CPUs -> Seq(Threads)] /\ c_curthread \in [CPUs -> Threads]
      /\ pc \in [CPUs -> Places] /\ c_isidle \in [CPUs -> BOOLEAN]
  BY Zenon DEF IInv, TypeOK
<1>2. c_isidle[c] /\ target[c] = NULL /\ pc[c] = "pick"
  BY Zenon DEF IInv, IdleFlags, Targets
<1>3. CASE c_runqueue[c] = <<>>
  <2> USE <1>3
  <2>1. TypeOK'
    BY Zenon DEF IInv, TypeOK, Places
  <2>2. IdleFlags'
    BY <1>1, Zenon DEF IInv, IdleFlags, InHandler
  <2>3. Targets' /\ VictimsHeld' /\ WcExclusive' /\ IdleNotified'
    BY <1>1, ZenonT(30) DEF IInv, Targets, VictimsHeld, WcExclusive, HoldsWc, IdleNotified
  <2>4. Quiet
    <3>1. \A d \in CPUs : OnCpu(d)' <=> OnCpu(d)
      BY <1>1, <1>2, Zenon DEF OnCpu
    <3> QED
      BY <2>1, <3>1, Zenon DEF Quiet, TypeOK
  <2>5. CountsHold'
    BY <1>1, Zenon DEF IInv, CountsHold
  <2> QED
    BY <2>1, <2>2, <2>3, <2>4, <2>5, QuietKeepsPlaces, Zenon DEF IInv
<1>4. CASE c_runqueue[c] # <<>>
  <2> USE <1>4
  <2> DEFINE t == Head(c_runqueue[c])
  <2>1. /\ t \in Threads /\ Tail(c_runqueue[c]) \in Seq(Threads)
        /\ t \in Range(c_runqueue[c])
        /\ IsInjective(Tail(c_runqueue[c]))
        /\ Range(Tail(c_runqueue[c])) = Range(c_runqueue[c]) \ {t}
    BY <1>1, TailList, Zenon DEF IInv, Within, WithinCpu
  <2>2. t \in Listed(c)
    BY <2>1, Zenon DEF Listed
  <2>3. t \notin Range(victims[c]) /\ t \notin Range(c_zombies[c])
    BY <2>1, Zenon DEF IInv, Within, WithinCpu
  <2>4. /\ c_runqueue' = [c_runqueue EXCEPT ![c] = Tail(c_runqueue[c])]
        /\ c_curthread' = [c_curthread EXCEPT ![c] = t]
        /\ c_isidle' = [c_isidle EXCEPT ![c] = FALSE]
        /\ pc' = [pc EXCEPT ![c] = "tail"]
        /\ UNCHANGED <<t_state, t_cpu, c_zombies, ipi, wc_threads, ret, target, mig, victims>>
    BY Zenon
  <2> HIDE DEF t, Pick
  <2>5. /\ \A d \in CPUs : Listed(d)' = IF d = c THEN Listed(d) \ {t} ELSE Listed(d)
        /\ \A d \in CPUs : OnCpu(d)' <=> OnCpu(d) \/ d = c
    BY <1>1, <1>2, <2>1, <2>3, <2>4, Zenon DEF Listed, OnCpu
  <2>6. TypeOK'
    BY <2>1, <2>4, Zenon DEF IInv, TypeOK, Places
  <2>7. IdleFlags'
    BY <1>1, <2>4, Zenon DEF IInv, IdleFlags, InHandler
  <2>8. Targets' /\ VictimsHeld' /\ WcExclusive'
    BY <1>1, <1>2, <2>4, ZenonT(30) DEF IInv, Targets, VictimsHeld, WcExclusive, HoldsWc
  <2>9. HomeCpu'
    <3>1. t_cpu[t] = c /\ t_state[t] # "free"
      <4>1. At(c, t)
        BY <2>2, Zenon DEF At
      <4> QED
        BY <2>1, <2>2, <4>1, Zenon DEF IInv, HomeCpu, Accounted
    <3>2. \A d \in CPUs : \A u \in Listed(d)' : t_cpu'[u] = d
      BY <2>4, <2>5, ZenonT(30) DEF IInv, HomeCpu
    <3> QED
      BY <1>1, <2>4, <3>1, <3>2, Zenon DEF IInv, HomeCpu
  <2>10. Within'
    <3>1. ASSUME NEW d \in CPUs, d # c PROVE WithinCpu(d)'
      BY <1>1, <2>4, <2>5, <3>1, Zenon DEF IInv, Within, WithinCpu
    <3>2. WithinCpu(c)'
      <4>1. /\ IsInjective(c_runqueue'[c]) /\ Range(c_runqueue'[c]) = Range(c_runqueue[c]) \ {t}
            /\ c_curthread'[c] = t /\ t # target[c]
        BY <1>1, <1>2, <2>1, <2>4, BootAssumption, Zenon
      <4>2. WithinCpu(c)
        BY Zenon DEF IInv, Within
      <4> QED
        BY <2>4, <2>5, <4>1, <4>2, Zenon DEF WithinCpu
    <3> QED
      BY <3>1, <3>2, Zenon DEF Within
  <2>11. OnePlace' /\ Accounted'
    <3>1. \A d \in CPUs, u \in Threads : At(d, u)' <=> At(d, u)
      <4>1. ~OnCpu(c)
        BY <1>2, Zenon DEF OnCpu
      <4> QED
        BY <1>1, <2>2, <2>4, <2>5, <4>1, Zenon DEF At
    <3> QED
      BY <2>4, <3>1, SamePlaces, Zenon DEF IInv
  <2>12. IdleNotified'
    BY <1>1, <2>4, Zenon DEF IInv, IdleNotified
  <2>13. CountsHold'
    BY <1>1, <2>4, Zenon DEF IInv, CountsHold
  <2> QED
    BY <2>6, <2>7, <2>8, <2>9, <2>10, <2>11, <2>12, <2>13, Zenon DEF IInv
<1> QED
  BY <1>3, <1>4, Zenon

\* exorcise destroys the zombies, none of which is a current thread.
LEMMA SwitchTailStep ==
    ASSUME IInv, NEW c \in CPUs, SwitchTail(c)
    PROVE  IInv'
<1> USE DEF SwitchTail, migVars
<1> DEFINE cur == c_curthread[c]
           Z == Range(c_zombies[c])
<1>1. /\ c_zombies \in [CPUs -> Seq(Threads)] /\ c_curthread \in [CPUs -> Threads]
      /\ t_state \in [Threads -> ThreadStates] /\ pc \in [CPUs -> Places]
      /\ t_cpu \in [Threads -> CPUs \cup {NULL}]
  BY Zenon DEF IInv, TypeOK
<1>2. OnCpu(c) /\ cur \notin Listed(c) /\ t_state[cur] # "free" /\ target[c] = NULL
  BY Zenon DEF IInv, IdleFlags, Targets, InHandler, HomeCpu, Within, WithinCpu, OnCpu
<1>3. /\ Z \subseteq Listed(c) /\ cur \notin Z
      /\ Z \cap Range(c_runqueue[c]) = {} /\ Z \cap Range(victims[c]) = {}
      /\ \A d \in CPUs : \A z \in Z : At(d, z) => d = c
      /\ \A z \in Z : At(c, z)
  <2>1. Z \subseteq Listed(c)
    BY Zenon DEF Listed
  <2>2. \A z \in Z : At(c, z) /\ z \in Threads
    BY <2>1, ListedThreads, Zenon DEF At, IInv
  <2>3. Z \cap Range(c_runqueue[c]) = {} /\ Z \cap Range(victims[c]) = {}
    BY Zenon DEF IInv, Within, WithinCpu
  <2> HIDE DEF Z
  <2> QED
    BY <1>2, <2>1, <2>2, <2>3, Zenon DEF IInv, OnePlace
<1>4. /\ \A u \in Threads : t_state'[u] = "free" <=> t_state[u] = "free" \/ u \in Z
      /\ \A u \in Threads : t_cpu'[u] = IF u \in Z THEN NULL ELSE t_cpu[u]
      /\ t_state' \in [Threads -> ThreadStates] /\ t_cpu' \in [Threads -> CPUs \cup {NULL}]
  <2> HIDE DEF Z
  <2>1. /\ t_state' = [t \in Threads |-> CASE t = cur -> "RUN"
                                           [] t \in Z -> "free"
                                           [] OTHER -> t_state[t]]
        /\ t_cpu' = [t \in Threads |-> IF t \in Z THEN NULL ELSE t_cpu[t]]
    BY Zenon DEF Z
  <2> QED
    BY <1>1, <1>2, <1>3, <2>1 DEF ThreadStates
<1>5. Range(<<>>) = {} /\ IsInjective(<<>>) /\ <<>> \in Seq(Threads)
  BY DEF Range, IsInjective
<1>6. /\ c_zombies' = [c_zombies EXCEPT ![c] = <<>>] /\ pc' = [pc EXCEPT ![c] = "run"]
      /\ pc[c] = "tail"
      /\ UNCHANGED <<c_curthread, c_runqueue, c_isidle, ipi, wc_threads, ret, target, mig, victims>>
  BY Zenon
<1>7. Range(c_zombies'[c]) = {} /\ IsInjective(c_zombies'[c])
  BY <1>1, <1>5, <1>6, Zenon
<1>8. /\ \A d \in CPUs : Listed(d)' = IF d = c THEN Listed(d) \ Z ELSE Listed(d)
      /\ \A d \in CPUs : OnCpu(d)' <=> OnCpu(d)
  BY <1>1, <1>3, <1>6, <1>7, Zenon DEF Listed, OnCpu
<1> HIDE DEF SwitchTail, Z
<1>9. TypeOK'
  BY <1>4, <1>5, <1>6, Zenon DEF IInv, TypeOK, Places
<1>10. IdleFlags'
  BY <1>1, <1>6, Zenon DEF IInv, IdleFlags, InHandler
<1>11. Targets' /\ VictimsHeld' /\ WcExclusive' /\ IdleNotified'
  BY <1>1, <1>6, Zenon DEF IInv, Targets, VictimsHeld, WcExclusive, HoldsWc, IdleNotified
<1>12. HomeCpu'
  <2>1. ASSUME NEW d \in CPUs, NEW u \in Listed(d)' PROVE t_cpu'[u] = d
    <3>1. u \in Listed(d) /\ u \in Threads
      BY <1>8, ListedThreads, Zenon DEF IInv
    <3>2. u \notin Z
      BY <1>3, <1>8, <3>1, Zenon DEF At
    <3> QED
      BY <1>4, <3>1, <3>2, Zenon DEF IInv, HomeCpu
  <2>2. \A d \in CPUs : c_curthread[d] \notin Z
    <3>1. \A z \in Z : t_cpu[z] = c
      BY <1>3, Zenon DEF IInv, HomeCpu
    <3> QED
      BY <1>3, <3>1, Zenon DEF IInv, HomeCpu
  <2> QED
    BY <1>1, <1>4, <1>6, <2>1, <2>2, Zenon DEF IInv, HomeCpu
<1>13. Within'
  <2>1. ASSUME NEW d \in CPUs, d # c PROVE WithinCpu(d)'
    BY <1>1, <1>6, <1>8, <2>1, Zenon DEF IInv, Within, WithinCpu
  <2>2. WithinCpu(c)'
    <3>1. WithinCpu(c)
      BY Zenon DEF IInv, Within
    <3> QED
      BY <1>6, <1>7, <1>8, <3>1, Zenon DEF WithinCpu
  <2> QED
    BY <2>1, <2>2, Zenon DEF Within
<1>14. OnePlace' /\ Accounted'
  <2>1. \A u \in Threads : At(c, u)' <=> At(c, u) /\ u \notin Z
    BY <1>2, <1>3, <1>6, <1>8, BootAssumption, Zenon DEF At
  <2>2. \A d \in CPUs, u \in Threads : d # c => (At(d, u)' <=> At(d, u))
    BY <1>6, <1>8, Zenon DEF At
  <2>3. \A d \in CPUs, u \in Threads : At(d, u)' <=> At(d, u) /\ u \notin Z
    BY <1>3, <2>1, <2>2, Zenon
  <2>4. \A z \in Z : z \notin Range(wc_threads)
    BY <1>3, ListedThreads, Zenon DEF IInv, OnePlace
  <2> QED
    BY <1>4, <1>6, <2>3, <2>4, Zenon DEF IInv, OnePlace, Accounted
<1>15. CountsHold'
  BY <1>1, <1>6, Zenon DEF IInv, CountsHold
<1> QED
  BY <1>9, <1>10, <1>11, <1>12, <1>13, <1>14, <1>15, Zenon DEF IInv

----------------------------------------------------------------------------
(* Wakeups *)

\* wchan_wakeone takes the first thread off the channel.
LEMMA WakeoneStep ==
    ASSUME IInv, NEW c \in CPUs, wchan_wakeone(c)
    PROVE  IInv'
<1> DEFINE t == Head(wc_threads)
<1>1. /\ pc \in [CPUs -> Places] /\ ret \in [CPUs -> {"run", "yield", "unidle"}]
      /\ target \in [CPUs -> Threads \cup {NULL}] /\ wc_threads \in Seq(Threads)
      /\ c_isidle \in [CPUs -> BOOLEAN] /\ c_curthread \in [CPUs -> Threads]
  BY Zenon DEF IInv, TypeOK
<1>2. /\ pc[c] \in {"run", "idle", "unidle"} /\ WcFree /\ wc_threads # <<>>
      /\ target' = [target EXCEPT ![c] = t]
      /\ wc_threads' = Tail(wc_threads)
      /\ ret' = [ret EXCEPT ![c] = IF pc[c] = "run" THEN "run" ELSE "unidle"]
      /\ pc' = [pc EXCEPT ![c] = "wake"]
      /\ UNCHANGED <<t_state, t_cpu, c_curthread, c_runqueue, c_isidle, c_zombies, ipi, mig, victims>>
  BY Zenon DEF wchan_wakeone, Interruptible, Resume, threadVars, cpuVars, migVars
<1>3. /\ t \in Threads /\ Tail(wc_threads) \in Seq(Threads) /\ t \in Range(wc_threads)
      /\ IsInjective(Tail(wc_threads)) /\ Range(Tail(wc_threads)) = Range(wc_threads) \ {t}
  BY <1>1, <1>2, TailList, Zenon DEF IInv, OnePlace
<1> HIDE DEF t
<1>4. \A d \in CPUs : ~At(d, t) /\ t \notin Listed(d)
  BY <1>3, Zenon DEF IInv, OnePlace, At
<1>5. /\ \A d \in CPUs : Listed(d)' = Listed(d)
      /\ \A d \in CPUs : OnCpu(d)' <=> OnCpu(d)
  BY <1>1, <1>2, Zenon DEF Listed, OnCpu
<1>6. target[c] = NULL
  BY <1>2, Zenon DEF IInv, Targets
<1>7. TypeOK'
  BY <1>2, <1>3, Zenon DEF IInv, TypeOK, Places
<1>8. IdleFlags'
  BY <1>1, <1>2, Zenon DEF IInv, IdleFlags, InHandler
<1>9. Targets' /\ VictimsHeld' /\ WcExclusive' /\ IdleNotified'
  <2>1. Targets' /\ VictimsHeld' /\ IdleNotified'
    BY <1>1, <1>2, <1>3, BootAssumption, Zenon DEF IInv, Targets, VictimsHeld, IdleNotified
  <2>2. WcExclusive'
    BY <1>1, <1>2, Zenon DEF IInv, WcExclusive, HoldsWc, WcFree
  <2> QED
    BY <2>1, <2>2, Zenon
<1>10. HomeCpu'
  BY <1>2, <1>5, Zenon DEF IInv, HomeCpu
<1>11. Within'
  <2>1. ASSUME NEW d \in CPUs, d # c PROVE WithinCpu(d)'
    BY <1>1, <1>2, <1>5, <2>1, Zenon DEF IInv, Within, WithinCpu
  <2>2. WithinCpu(c)'
    <3>1. WithinCpu(c) /\ target'[c] = t /\ (OnCpu(c) => c_curthread[c] # t)
      BY <1>1, <1>2, <1>4, Zenon DEF IInv, Within, At
    <3> QED
      BY <1>2, <1>4, <1>5, <3>1, Zenon DEF WithinCpu
  <2> QED
    BY <2>1, <2>2, Zenon DEF Within
<1>12. OnePlace' /\ Accounted'
  <2>1. \A d \in CPUs, u \in Threads : At(d, u)' <=> At(d, u) \/ (d = c /\ u = t)
    BY <1>1, <1>2, <1>5, <1>6, BootAssumption, Zenon DEF At
  <2> QED
    BY <1>2, <1>3, <1>4, <2>1 DEF IInv, OnePlace, Accounted
<1>13. CountsHold'
  BY <1>1, <1>2, Zenon DEF IInv, CountsHold
<1> QED
  BY <1>7, <1>8, <1>9, <1>10, <1>11, <1>12, <1>13, Zenon DEF IInv

\* thread_make_runnable queues it on the cpu it belongs to and tells that cpu.
LEMMA MakeRunnableStep ==
    ASSUME IInv, NEW c \in CPUs, thread_make_runnable(c)
    PROVE  IInv'
<1>1. /\ pc \in [CPUs -> Places] /\ ret \in [CPUs -> {"run", "yield", "unidle"}]
      /\ target \in [CPUs -> Threads \cup {NULL}] /\ c_runqueue \in [CPUs -> Seq(Threads)]
      /\ c_isidle \in [CPUs -> BOOLEAN] /\ c_curthread \in [CPUs -> Threads]
      /\ t_state \in [Threads -> ThreadStates] /\ ipi \in [CPUs -> BOOLEAN]
  BY Zenon DEF IInv, TypeOK
<1>a. PICK t \in Threads : t = target[c]
  BY <1>1, Zenon DEF thread_make_runnable, MakeRunnable, IInv, Targets
<1>b. At(c, t)
  BY <1>a, Zenon DEF At
<1>c. PICK d \in CPUs : d = t_cpu[t]
  BY <1>b, Zenon DEF IInv, Accounted, HomeCpu
<1> DEFINE rq == Append(c_runqueue[d], t)
<1>2. /\ pc[c] = "wake"
      /\ t_state' = [t_state EXCEPT ![t] = "READY"]
      /\ c_runqueue' = [c_runqueue EXCEPT ![d] = rq]
      /\ ipi' = [ipi EXCEPT ![d] = @ \/ c_isidle[d]]
      /\ target' = [target EXCEPT ![c] = NULL]
      /\ pc' = [pc EXCEPT ![c] = ret[c]]
      /\ ret' = [ret EXCEPT ![c] = "run"]
      /\ UNCHANGED <<t_cpu, c_curthread, c_isidle, c_zombies, wc_threads, mig, victims>>
  BY <1>a, <1>c, Zenon DEF thread_make_runnable, MakeRunnable, Return, migVars
<1>3. t_state[t] # "free"
  BY <1>b, Zenon DEF IInv, Accounted
<1>5. \A e \in CPUs : t \notin Listed(e) /\ (OnCpu(e) => t # c_curthread[e])
  <2>1. t \notin Listed(c) /\ (OnCpu(c) => t # c_curthread[c])
    BY <1>a, Zenon DEF IInv, Within, WithinCpu
  <2>2. \A e \in CPUs : e # c => ~At(e, t)
    BY <1>b, Zenon DEF IInv, OnePlace
  <2> QED
    BY <2>1, <2>2, Zenon DEF At
<1>6. /\ rq \in Seq(Threads) /\ Len(rq) = Len(c_runqueue[d]) + 1
      /\ Range(rq) = Range(c_runqueue[d]) \cup {t} /\ IsInjective(rq)
  BY <1>1, <1>3, <1>5, AppendList, ZenonT(30) DEF IInv, Within, WithinCpu, Listed
<1>7. /\ \A e \in CPUs : Listed(e)' = IF e = d THEN Listed(e) \cup {t} ELSE Listed(e)
      /\ \A e \in CPUs : OnCpu(e)' <=> OnCpu(e)
  BY <1>1, <1>2, <1>6, Zenon DEF Listed, OnCpu
<1>8. TypeOK'
  BY <1>1, <1>2, <1>3, <1>6, Zenon DEF IInv, TypeOK, ThreadStates, Places
<1>9. IdleFlags'
  BY <1>1, <1>2, Zenon DEF IInv, IdleFlags, InHandler
<1>10. Targets' /\ VictimsHeld' /\ WcExclusive' /\ IdleNotified'
  <2>1. Targets'
    BY <1>1, <1>2, Zenon DEF IInv, Targets
  <2>2. VictimsHeld'
    BY <1>1, <1>2, Zenon DEF IInv, VictimsHeld
  <2>3. WcExclusive'
    BY <1>1, <1>2, Zenon DEF IInv, WcExclusive, HoldsWc
  <2>4. IdleNotified'
    BY <1>1, <1>2, Zenon DEF IInv, IdleNotified, IdleFlags
  <2> QED
    BY <2>1, <2>2, <2>3, <2>4, Zenon
<1>11. HomeCpu'
  <2>1. \A e \in CPUs : \A u \in Listed(e)' : t_cpu'[u] = e
    <3> SUFFICES ASSUME NEW e \in CPUs, NEW u \in Listed(e)' PROVE t_cpu'[u] = e
      BY Zenon
    <3>1. u \in Listed(e) \/ (e = d /\ u = t)
      BY <1>7, Zenon
    <3>2. u \in Listed(e) => t_cpu[u] = e
      BY Zenon DEF IInv, HomeCpu
    <3> QED
      BY <1>c, <1>2, <3>1, <3>2, Zenon
  <2> QED
    BY <1>1, <1>2, <1>3, <2>1, Zenon DEF IInv, HomeCpu
<1>12. Within'
  <2>1. ASSUME NEW e \in CPUs, e # d PROVE WithinCpu(e)'
    <3>1. target'[e] = target[e] \/ target'[e] = NULL
      BY <1>1, <1>2, Zenon
    <3>2. NULL \notin Listed(e) /\ c_curthread[e] # NULL
      BY <1>1, BootAssumption, ListedThreads, Zenon DEF IInv
    <3> QED
      BY <1>1, <1>2, <1>7, <2>1, <3>1, <3>2, Zenon DEF IInv, Within, WithinCpu
  <2>2. WithinCpu(d)'
    <3>1. /\ IsInjective(c_runqueue'[d]) /\ Range(c_runqueue'[d]) = Range(c_runqueue[d]) \cup {t}
          /\ target'[d] \notin Listed(d)' /\ target'[d] \in {target[d], NULL}
      <4>1. \A e \in CPUs : target[e] = t => e = c
        BY <1>b, Zenon DEF IInv, OnePlace, At
      <4>2. NULL \notin Listed(d) /\ t # NULL
        BY <1>3, BootAssumption, ListedThreads, Zenon DEF IInv
      <4>3. target[d] \notin Listed(d)
        BY Zenon DEF IInv, Within, WithinCpu
      <4> QED
        BY <1>a, <1>1, <1>2, <1>6, <1>7, <4>1, <4>2, <4>3, Zenon
    <3>2. WithinCpu(d) /\ t \notin Range(victims[d]) /\ t \notin Range(c_zombies[d])
      BY <1>5, Zenon DEF IInv, Within, Listed
    <3>3. OnCpu(d) => c_curthread[d] # t /\ c_curthread[d] # NULL
      BY <1>1, <1>5, BootAssumption
    <3> QED
      BY <1>2, <1>7, <3>1, <3>2, <3>3, Zenon DEF WithinCpu
  <2> QED
    BY <2>1, <2>2, Zenon DEF Within
<1>13. OnePlace' /\ Accounted'
  <2>1. \A e \in CPUs, u \in Threads : At(e, u)' <=> (At(e, u) /\ u # t) \/ (e = d /\ u = t)
    <3>1. \A e \in CPUs, u \in Threads : u = target[e] /\ u # t => u = target'[e]
      BY <1>a, <1>1, <1>2, Zenon
    <3>2. \A e \in CPUs, u \in Threads : u = target'[e] => u = target[e] /\ u # t
      <4>1. \A e \in CPUs : target[e] = t => e = c
        BY <1>b, Zenon DEF IInv, OnePlace, At
      <4> QED
        BY <1>a, <1>1, <1>2, <4>1, BootAssumption, Zenon
    <3> SUFFICES ASSUME NEW e \in CPUs, NEW u \in Threads
                 PROVE  At(e, u)' <=> (At(e, u) /\ u # t) \/ (e = d /\ u = t)
      BY Zenon
    <3>3. u \in Listed(e)' <=> u \in Listed(e) \/ (e = d /\ u = t)
      BY <1>7, Zenon
    <3>4. (OnCpu(e)' <=> OnCpu(e)) /\ c_curthread'[e] = c_curthread[e]
      BY <1>2, <1>7, Zenon
    <3>5. u = target'[e] <=> u = target[e] /\ u # t
      BY <3>1, <3>2, Zenon
    <3> QED
      BY <1>5, <3>3, <3>4, <3>5, Zenon DEF At
  <2>2. t \notin Range(wc_threads)
    BY <1>b, Zenon DEF IInv, OnePlace
  <2>3. \A u \in Threads : t_state'[u] = "free" <=> t_state[u] = "free"
    BY <1>1, <1>2, <1>3, Zenon
  <2> QED
    BY <1>2, <1>3, <2>1, <2>2, <2>3, ZenonT(30) DEF IInv, OnePlace, Accounted
<1>14. CountsHold'
  <2>1. \A e \in CPUs : /\ Len(c_runqueue[e]) \in Nat /\ Len(c_runqueue'[e]) \in Nat
                        /\ Len(c_runqueue'[e]) >= Len(c_runqueue[e])
    BY <1>1, <1>2, <1>6
  <2>2. \A e \in CPUs : mig[e].my \in Nat /\ mig[e].send \in Nat
    BY Zenon DEF IInv, TypeOK
  <2>3. \A e \in CPUs : pc'[e] \in {"count", "take", "give"} => pc'[e] = pc[e]
    BY <1>1, <1>2, Zenon
  <2>4. UNCHANGED <<mig, victims>>
    BY <1>2, Zenon
  <2> QED
    BY <2>1, <2>2, <2>3, <2>4 DEF IInv, CountsHold
<1> QED
  BY <1>8, <1>9, <1>10, <1>11, <1>12, <1>13, <1>14, Zenon DEF IInv
=============================================================================

---------------------------- MODULE SynchProofs -----------------------------
(***************************************************************************)
(* Proofs about Synch for every value of the constants: no lost wakeup,    *)
(* sound wait channels, mutual exclusion, and the refinement of Monitor.   *)
(*                                                                         *)
(* The inductive invariant IInv adds to NoLostWakeup, ChannelsSound and    *)
(* MutualExclusion the locals of a blocked call (Locals) and that cv_wait  *)
(* keeps cv_wchanlock over its lock_release (WaitLocked).  It is split by  *)
(* the kind of object, and a step on one kind leaves the parts of the      *)
(* others alone (SemFrame, LockFrame, CvFrame).                            *)
(***************************************************************************)
EXTENDS SynchRefinement, FiniteSetTheorems, TLAPS

\* The objects a thread that is in a call works on.
Locals ==
    \A t \in Threads :
        /\ pc[t] \in {"P_sleep", "P_woken"} => psem[t] \in Sems
        /\ pc[t] \in {"lock_sleep", "lock_woken", "cv_release", "cv_sleep", "cv_woken"}
              => plock[t] \in Locks
        /\ pc[t] \in {"cv_release", "cv_sleep", "cv_woken"} => pcv[t] \in CVs

\* cv_wait keeps cv_wchanlock from before its lock_release until it sleeps.
WaitLocked == \A t \in Threads : pc[t] = "cv_release" => cv_wchanlock[pcv[t]] = t

\* ChannelsSound, for each kind of channel.
SemChannels ==
    \A s \in Sems :
        /\ IsInjectiveSeq(sem_wchan[s])
        /\ \A t \in Threads : OnChannel(sem_wchan[s], t) <=> pc[t] = "P_sleep" /\ psem[t] = s

LockChannels ==
    \A l \in Locks :
        /\ IsInjectiveSeq(lk_wchan[l])
        /\ \A t \in Threads : OnChannel(lk_wchan[l], t) <=> pc[t] = "lock_sleep" /\ plock[t] = l

CvChannels ==
    \A v \in CVs :
        /\ IsInjectiveSeq(cv_wchan[v])
        /\ \A t \in Threads : OnChannel(cv_wchan[v], t) <=> pc[t] = "cv_sleep" /\ pcv[t] = v

\* What the inductive invariant says of semaphores, locks and condition variables.
SemPart == SemChannels /\ SemNoLostWakeup

LockPart == LockChannels /\ LockNoLostWakeup /\ MutualExclusion

CvPart == CvChannels /\ WaitLocked

\* The inductive invariant.
IInv == TypeOK /\ Locals /\ SemPart /\ LockPart /\ CvPart

\* Append puts one more thread on a channel, once.
LEMMA AppendChannel ==
    ASSUME NEW q \in Seq(Threads), NEW t \in Threads
    PROVE  /\ Append(q, t) \in Seq(Threads)
           /\ Append(q, t) # <<>>
           /\ \A u \in Threads : OnChannel(Append(q, t), u) <=> OnChannel(q, u) \/ u = t
           /\ IsInjectiveSeq(q) /\ ~OnChannel(q, t) => IsInjectiveSeq(Append(q, t))
<1>1. /\ Append(q, t) \in Seq(Threads) /\ Len(Append(q, t)) = Len(q) + 1 /\ Len(q) \in Nat
      /\ \A i \in 1 .. Len(q) : Append(q, t)[i] = q[i]
      /\ Append(q, t)[Len(q) + 1] = t
      /\ DOMAIN q = 1 .. Len(q) /\ DOMAIN Append(q, t) = 1 .. Len(q) + 1
  OBVIOUS
<1>2. \A i \in DOMAIN Append(q, t) : i \in DOMAIN q \/ i = Len(q) + 1
  BY <1>1
<1>3. DOMAIN q \subseteq DOMAIN Append(q, t) /\ Len(q) + 1 \in DOMAIN Append(q, t)
  BY <1>1
<1>4. \A u \in Threads : OnChannel(Append(q, t), u) <=> OnChannel(q, u) \/ u = t
  BY <1>1, <1>2, <1>3, Zenon DEF OnChannel
<1>5. IsInjectiveSeq(q) /\ ~OnChannel(q, t) => IsInjectiveSeq(Append(q, t))
  BY <1>1, <1>2, Zenon DEF OnChannel, IsInjectiveSeq
<1> QED
  BY <1>1, <1>4, <1>5

\* threadlist_remhead takes the first thread off, and only that one.
LEMMA RemHeadChannel ==
    ASSUME NEW q \in Seq(Threads), IsInjectiveSeq(q), q # <<>>
    PROVE  /\ Head(q) \in Threads /\ OnChannel(q, Head(q))
           /\ RemHead(q) \in Seq(Threads)
           /\ IsInjectiveSeq(RemHead(q))
           /\ \A u \in Threads : OnChannel(RemHead(q), u) <=> OnChannel(q, u) /\ u # Head(q)
<1>1. /\ Len(q) \in Nat /\ Len(q) > 0 /\ DOMAIN q = 1 .. Len(q) /\ Head(q) = q[1]
      /\ RemHead(q) = Tail(q) /\ Tail(q) \in Seq(Threads) /\ Len(Tail(q)) = Len(q) - 1
      /\ \A i \in 1 .. Len(q) - 1 : Tail(q)[i] = q[i + 1]
      /\ DOMAIN Tail(q) = 1 .. Len(q) - 1
  BY DEF RemHead
<1>2. 1 \in DOMAIN q
  BY <1>1
<1>3. Head(q) \in Threads /\ OnChannel(q, Head(q))
  BY <1>1, <1>2 DEF OnChannel
<1>4. \A i \in DOMAIN Tail(q) : i + 1 \in DOMAIN q /\ i + 1 # 1 /\ Tail(q)[i] = q[i + 1]
  BY <1>1
<1>5. \A i \in DOMAIN q : i # 1 => i - 1 \in DOMAIN Tail(q) /\ Tail(q)[i - 1] = q[i]
  BY <1>1
<1>6. IsInjectiveSeq(Tail(q))
  <2> SUFFICES ASSUME NEW i \in DOMAIN Tail(q), NEW j \in DOMAIN Tail(q), Tail(q)[i] = Tail(q)[j]
               PROVE  i = j
    BY Zenon DEF IsInjectiveSeq
  <2>1. i + 1 = j + 1
    BY <1>4, Zenon DEF IsInjectiveSeq
  <2> QED
    BY <1>1, <2>1
<1>7. ASSUME NEW u \in Threads
      PROVE  OnChannel(Tail(q), u) <=> OnChannel(q, u) /\ u # Head(q)
  <2>1. OnChannel(Tail(q), u) => OnChannel(q, u) /\ u # Head(q)
    BY <1>1, <1>2, <1>4, Zenon DEF OnChannel, IsInjectiveSeq
  <2>2. OnChannel(q, u) /\ u # Head(q) => OnChannel(Tail(q), u)
    BY <1>1, <1>5, Zenon DEF OnChannel
  <2> QED
    BY <2>1, <2>2, Zenon
<1> QED
  BY <1>1, <1>3, <1>6, <1>7, Zenon

\* An empty channel has nobody on it.
LEMMA EmptyChannel ==
    /\ \A u : ~OnChannel(<<>>, u)
    /\ IsInjectiveSeq(<<>>)
    /\ RemHead(<<>>) = <<>>
BY DEF OnChannel, IsInjectiveSeq, RemHead

\* Threads are counted one at a time.
LEMMA CountThreads ==
    ASSUME NEW S \in SUBSET Threads, NEW t \in Threads
    PROVE  /\ Cardinality(S) \in Nat
           /\ t \notin S => Cardinality(S \cup {t}) = Cardinality(S) + 1
           /\ t \in S => Cardinality(S \ {t}) = Cardinality(S) - 1
<1>1. IsFiniteSet(S)
  BY ThreadsAssumption, FS_Subset, Zenon
<1> QED
  BY <1>1, FS_CardinalityType, FS_AddElement, FS_RemoveElement, Zenon

\* A step that leaves the semaphores and the threads in P alone.
LEMMA SemFrame ==
    ASSUME SemPart, sem_count' = sem_count, sem_wchan' = sem_wchan,
           \A u \in Threads :
               \/ pc'[u] = pc[u] /\ psem'[u] = psem[u]
               \/ pc[u] \notin {"P_sleep", "P_woken"} /\ pc'[u] \notin {"P_sleep", "P_woken"}
    PROVE  SemPart'
<1>1. SemChannels'
  BY Zenon DEF SemPart, SemChannels
<1>2. \A s \in Sems : WokenForSem(s)' = WokenForSem(s)
  BY Zenon DEF WokenForSem
<1>3. SemNoLostWakeup'
  BY <1>2, Zenon DEF SemPart, SemNoLostWakeup
<1> QED
  BY <1>1, <1>3, Zenon DEF SemPart

\* A step that leaves the locks and the threads in lock_acquire alone.
LEMMA LockFrame ==
    ASSUME LockPart, lk_holder' = lk_holder, lk_wchan' = lk_wchan, held' = held,
           \A u \in Threads :
               \/ pc'[u] = pc[u] /\ plock'[u] = plock[u]
               \/ /\ pc[u] \notin {"lock_sleep", "lock_woken"}
                  /\ pc'[u] # "lock_sleep"
    PROVE  LockPart'
<1>1. LockChannels'
  BY Zenon DEF LockPart, LockChannels
<1>2. \A l \in Locks : WokenForLock(l) \subseteq WokenForLock(l)'
  BY Zenon DEF WokenForLock
<1>3. LockNoLostWakeup'
  BY <1>2, Zenon DEF LockPart, LockNoLostWakeup
<1>4. MutualExclusion'
  BY Zenon DEF LockPart, MutualExclusion
<1> QED
  BY <1>1, <1>3, <1>4, Zenon DEF LockPart

\* A step that leaves the condition variables and the threads in cv_wait alone.
LEMMA CvFrame ==
    ASSUME CvPart, cv_wchan' = cv_wchan, cv_wchanlock' = cv_wchanlock,
           \A u \in Threads :
               \/ pc'[u] = pc[u] /\ pcv'[u] = pcv[u]
               \/ pc[u] # "cv_sleep" /\ pc'[u] \notin {"cv_sleep", "cv_release"}
    PROVE  CvPart'
<1>1. CvChannels'
  BY Zenon DEF CvPart, CvChannels
<1>2. WaitLocked'
  BY Zenon DEF CvPart, WaitLocked
<1> QED
  BY <1>1, <1>2, Zenon DEF CvPart

\* P takes one from the count or goes to sleep, the first time or woken.
LEMMA PLoopStep ==
    ASSUME IInv, NEW t \in Threads, NEW s \in Sems, PLoop(t, s),
           pc[t] = "run" \/ (pc[t] = "P_woken" /\ psem[t] = s),
           lk_holder' = lk_holder, lk_wchan' = lk_wchan, held' = held,
           cv_wchan' = cv_wchan, cv_wchanlock' = cv_wchanlock, plock' = plock, pcv' = pcv
    PROVE  IInv'
<1>1. TypeOK /\ Locals /\ SemPart /\ LockPart /\ CvPart
  BY Zenon DEF IInv
<1>2. /\ sem_count \in [Sems -> 0 .. MaxCount] /\ sem_wchan \in [Sems -> Seq(Threads)]
      /\ pc \in [Threads -> Places] /\ psem \in [Threads -> Sems \cup {NULL}] /\ MaxCount \in Nat
  BY <1>1, CountAssumption, Zenon DEF TypeOK
<1>3. \/ /\ sem_count[s] > 0 /\ sem_count' = [sem_count EXCEPT ![s] = @ - 1]
         /\ pc' = [pc EXCEPT ![t] = "run"] /\ psem' = [psem EXCEPT ![t] = NULL]
         /\ sem_wchan' = sem_wchan
      \/ /\ sem_count[s] = 0 /\ sem_wchan' = [sem_wchan EXCEPT ![s] = Append(@, t)]
         /\ pc' = [pc EXCEPT ![t] = "P_sleep"] /\ psem' = [psem EXCEPT ![t] = s]
         /\ sem_count' = sem_count
  BY Zenon DEF PLoop
<1>4. /\ \A u \in Threads : u # t => pc'[u] = pc[u] /\ psem'[u] = psem[u]
      /\ pc'[t] \in {"run", "P_sleep"} /\ (pc'[t] = "P_sleep" => psem'[t] = s)
  BY <1>2, <1>3, Zenon
<1>5. TypeOK'
  <2>1. sem_count' \in [Sems -> 0 .. MaxCount]
    <3>1. \/ sem_count' = sem_count
          \/ sem_count[s] > 0 /\ sem_count' = [sem_count EXCEPT ![s] = @ - 1]
      BY <1>3, Zenon
    <3>2. sem_count[s] > 0 => sem_count[s] - 1 \in 0 .. MaxCount
      BY <1>2
    <3> QED
      BY <1>2, <3>1, <3>2, Zenon
  <2>2. sem_wchan' \in [Sems -> Seq(Threads)]
    <3>1. sem_wchan' = sem_wchan \/ sem_wchan' = [sem_wchan EXCEPT ![s] = Append(@, t)]
      BY <1>3, Zenon
    <3>2. Append(sem_wchan[s], t) \in Seq(Threads)
      BY <1>2, AppendChannel, Zenon
    <3> QED
      BY <1>2, <3>1, <3>2, Zenon
  <2>3. pc' \in [Threads -> Places] /\ psem' \in [Threads -> Sems \cup {NULL}]
    <3>1. pc' = [pc EXCEPT ![t] = "run"] \/ pc' = [pc EXCEPT ![t] = "P_sleep"]
      BY <1>3, Zenon
    <3>2. psem' = [psem EXCEPT ![t] = NULL] \/ psem' = [psem EXCEPT ![t] = s]
      BY <1>3, Zenon
    <3>3. pc' \in [Threads -> Places]
      BY <1>2, <3>1, Zenon DEF Places
    <3> QED
      BY <1>2, <3>2, <3>3, Zenon
  <2> QED
    BY <1>1, <2>1, <2>2, <2>3, Zenon DEF TypeOK
<1>6. Locals'
  BY <1>1, <1>4, Zenon DEF Locals
<1>7. LockPart'
  <2>1. \A u \in Threads : \/ pc'[u] = pc[u] /\ plock'[u] = plock[u]
                           \/ pc[u] \notin {"lock_sleep", "lock_woken"} /\ pc'[u] # "lock_sleep"
    BY <1>4, Zenon
  <2> QED
    BY <1>1, <2>1, LockFrame, Zenon
<1>8. CvPart'
  <2>1. \A u \in Threads : \/ pc'[u] = pc[u] /\ pcv'[u] = pcv[u]
                           \/ pc[u] # "cv_sleep" /\ pc'[u] \notin {"cv_sleep", "cv_release"}
    BY <1>4, Zenon
  <2> QED
    BY <1>1, <2>1, CvFrame, Zenon
<1>9. ~OnChannel(sem_wchan[s], t) /\ \A r \in Sems : ~OnChannel(sem_wchan[r], t)
  BY <1>1, Zenon DEF SemPart, SemChannels
<1>10. CASE sem_count[s] > 0
  <2>1. /\ sem_count'[s] = sem_count[s] - 1 /\ pc'[t] = "run" /\ sem_wchan' = sem_wchan
        /\ \A r \in Sems : r # s => sem_count'[r] = sem_count[r]
    BY <1>2, <1>3, <1>10
  <2>2. SemChannels'
    BY <1>1, <1>4, <1>9, <2>1 DEF SemPart, SemChannels
  <2>3. ASSUME NEW r \in Sems, sem_wchan'[r] # <<>>
        PROVE  sem_count'[r] <= Cardinality(WokenForSem(r)')
    <3>1. sem_count[r] <= Cardinality(WokenForSem(r))
      BY <1>1, <2>1, <2>3, Zenon DEF SemPart, SemNoLostWakeup
    <3>2. WokenForSem(r) \in SUBSET Threads
      BY Zenon DEF WokenForSem
    <3>3. CASE t \notin WokenForSem(r)
      <4>1. WokenForSem(r)' = WokenForSem(r)
        BY <1>4, <2>1, <3>3, Zenon DEF WokenForSem
      <4> QED
        <5>1. Cardinality(WokenForSem(r)) \in Nat
          BY <3>2, CountThreads, Zenon
        <5>2. sem_count'[r] <= sem_count[r] /\ sem_count[r] \in Int /\ sem_count'[r] \in Int
          BY <1>2, <2>1
        <5> QED
          BY <3>1, <4>1, <5>1, <5>2
    <3>4. CASE t \in WokenForSem(r)
      <4>1. WokenForSem(r)' = WokenForSem(r) \ {t} /\ r = s
        BY <1>4, <2>1, <3>4, Zenon DEF WokenForSem
      <4>2. Cardinality(WokenForSem(r) \ {t}) = Cardinality(WokenForSem(r)) - 1
            /\ Cardinality(WokenForSem(r)) \in Nat
        BY <3>2, <3>4, CountThreads, Zenon
      <4> QED
        BY <1>2, <2>1, <3>1, <4>1, <4>2
    <3> QED
      BY <3>3, <3>4, Zenon
  <2> QED
    BY <1>5, <1>6, <1>7, <1>8, <2>2, <2>3, Zenon DEF IInv, SemPart, SemNoLostWakeup
<1>11. CASE sem_count[s] = 0
  <2>1. /\ sem_count' = sem_count /\ pc'[t] = "P_sleep" /\ psem'[t] = s
        /\ sem_wchan'[s] = Append(sem_wchan[s], t)
        /\ \A r \in Sems : r # s => sem_wchan'[r] = sem_wchan[r]
    BY <1>2, <1>3, <1>11
  <2>2. SemChannels'
    <3> SUFFICES ASSUME NEW r \in Sems
                 PROVE  /\ IsInjectiveSeq(sem_wchan'[r])
                        /\ \A u \in Threads : OnChannel(sem_wchan'[r], u) <=>
                                                  pc'[u] = "P_sleep" /\ psem'[u] = r
      BY Zenon DEF SemChannels
    <3>1. /\ IsInjectiveSeq(sem_wchan[r]) /\ sem_wchan[r] \in Seq(Threads)
          /\ \A u \in Threads : OnChannel(sem_wchan[r], u) <=> pc[u] = "P_sleep" /\ psem[u] = r
      BY <1>1, <1>2, Zenon DEF SemPart, SemChannels
    <3>2. CASE r = s
      <4>1. /\ IsInjectiveSeq(Append(sem_wchan[s], t))
            /\ \A u \in Threads :
                  OnChannel(Append(sem_wchan[s], t), u) <=> OnChannel(sem_wchan[s], u) \/ u = t
        BY <1>9, <3>1, <3>2, AppendChannel, Zenon
      <4> QED
        BY <1>4, <2>1, <3>1, <3>2, <4>1, Zenon
    <3>3. CASE r # s
      BY <1>4, <1>9, <2>1, <3>1, <3>3, Zenon
    <3> QED
      BY <3>2, <3>3, Zenon
  <2>3. ASSUME NEW r \in Sems, sem_wchan'[r] # <<>>
        PROVE  sem_count'[r] <= Cardinality(WokenForSem(r)')
    <3>1. WokenForSem(r)' \in SUBSET Threads
      BY Zenon DEF WokenForSem
    <3>2. CASE r = s
      <4>1. Cardinality(WokenForSem(r)') \in Nat
        BY <3>1, CountThreads, Zenon
      <4> QED
        BY <1>11, <2>1, <3>2, <4>1
    <3>3. CASE r # s
      <4>1. WokenForSem(r)' = WokenForSem(r)
        BY <1>4, <2>1, <3>3, Zenon DEF WokenForSem
      <4> QED
        BY <1>1, <2>1, <2>3, <3>3, <4>1, Zenon DEF SemPart, SemNoLostWakeup
    <3> QED
      BY <3>2, <3>3, Zenon
  <2> QED
    BY <1>5, <1>6, <1>7, <1>8, <2>2, <2>3, Zenon DEF IInv, SemPart, SemNoLostWakeup
<1> QED
  BY <1>2, <1>3, <1>10, <1>11, Zenon

\* V adds one to the count and wakes the first sleeper.
LEMMA VStep ==
    ASSUME IInv, NEW s \in Sems, V(s)
    PROVE  IInv'
<1>1. TypeOK /\ Locals /\ SemPart /\ LockPart /\ CvPart
  BY Zenon DEF IInv
<1>2. /\ sem_count \in [Sems -> 0 .. MaxCount] /\ sem_wchan \in [Sems -> Seq(Threads)]
      /\ pc \in [Threads -> Places] /\ MaxCount \in Nat
  BY <1>1, CountAssumption, Zenon DEF TypeOK
<1>3. /\ sem_count[s] < MaxCount /\ sem_count' = [sem_count EXCEPT ![s] = @ + 1]
      /\ sem_wchan' = [sem_wchan EXCEPT ![s] = RemHead(@)]
      /\ lk_holder' = lk_holder /\ lk_wchan' = lk_wchan /\ held' = held
      /\ cv_wchan' = cv_wchan /\ cv_wchanlock' = cv_wchanlock
      /\ psem' = psem /\ plock' = plock /\ pcv' = pcv
      /\ pc' = IF sem_wchan[s] = <<>> THEN pc ELSE [pc EXCEPT ![Head(sem_wchan[s])] = "P_woken"]
  BY Zenon DEF V, WakeOne, lockVars, cvVars
<1>4. /\ sem_count'[s] = sem_count[s] + 1 /\ sem_wchan'[s] = RemHead(sem_wchan[s])
      /\ \A r \in Sems : r # s => sem_count'[r] = sem_count[r] /\ sem_wchan'[r] = sem_wchan[r]
      /\ sem_count' \in [Sems -> 0 .. MaxCount]
  BY <1>2, <1>3
<1>5. CASE sem_wchan[s] = <<>>
  <2>1. pc' = pc /\ sem_wchan' = sem_wchan
    BY <1>2, <1>3, <1>5, EmptyChannel, Zenon
  <2>2. TypeOK'
    BY <1>1, <1>3, <1>4, <2>1, Zenon DEF TypeOK
  <2>3. Locals' /\ SemChannels'
    BY <1>1, <1>3, <2>1, Zenon DEF Locals, SemPart, SemChannels
  <2>4. LockPart' /\ CvPart'
    BY <1>1, <1>3, <2>1, LockFrame, CvFrame, Zenon
  <2>5. \A r \in Sems : WokenForSem(r)' = WokenForSem(r)
    BY <1>3, <2>1, Zenon DEF WokenForSem
  <2>6. SemNoLostWakeup'
    BY <1>1, <1>4, <1>5, <2>1, <2>5, Zenon DEF SemPart, SemNoLostWakeup
  <2> QED
    BY <2>2, <2>3, <2>4, <2>6, Zenon DEF IInv, SemPart
<1>6. CASE sem_wchan[s] # <<>>
  <2>1. PICK h \in Threads : h = Head(sem_wchan[s])
    BY <1>1, <1>2, <1>6, RemHeadChannel, Zenon DEF SemPart, SemChannels
  <2>2. /\ OnChannel(sem_wchan[s], h) /\ sem_wchan'[s] \in Seq(Threads)
        /\ IsInjectiveSeq(sem_wchan'[s])
        /\ \A u \in Threads : OnChannel(sem_wchan'[s], u) <=> OnChannel(sem_wchan[s], u) /\ u # h
    BY <1>1, <1>2, <1>4, <1>6, <2>1, RemHeadChannel DEF SemPart, SemChannels
  <2>3. pc[h] = "P_sleep" /\ psem[h] = s
    BY <1>1, <2>2, Zenon DEF SemPart, SemChannels
  <2>4. pc' = [pc EXCEPT ![h] = "P_woken"]
    BY <1>3, <1>6, <2>1, Zenon
  <2>5. pc'[h] = "P_woken" /\ \A u \in Threads : u # h => pc'[u] = pc[u]
    BY <1>2, <2>4, Zenon
  <2>6. TypeOK'
    <3>1. sem_wchan' \in [Sems -> Seq(Threads)]
      BY <1>2, <1>3, <1>4, <2>2, Zenon
    <3>2. pc' \in [Threads -> Places]
      BY <1>2, <2>4, Zenon DEF Places
    <3> QED
      BY <1>1, <1>3, <1>4, <3>1, <3>2, Zenon DEF TypeOK
  <2>7. Locals'
    BY <1>1, <1>3, <2>3, <2>5, Zenon DEF Locals
  <2>8. LockPart'
    <3>1. \A u \in Threads : \/ pc'[u] = pc[u] /\ plock'[u] = plock[u]
                             \/ pc[u] \notin {"lock_sleep", "lock_woken"} /\ pc'[u] # "lock_sleep"
      BY <1>3, <2>3, <2>5, Zenon
    <3> QED
      BY <1>1, <1>3, <3>1, LockFrame, Zenon
  <2>9. CvPart'
    <3>1. \A u \in Threads : \/ pc'[u] = pc[u] /\ pcv'[u] = pcv[u]
                             \/ pc[u] # "cv_sleep" /\ pc'[u] \notin {"cv_sleep", "cv_release"}
      BY <1>3, <2>3, <2>5, Zenon
    <3> QED
      BY <1>1, <1>3, <3>1, CvFrame, Zenon
  <2>10. SemChannels'
    BY <1>1, <1>3, <1>4, <2>2, <2>3, <2>5 DEF SemPart, SemChannels
  <2>11. ASSUME NEW r \in Sems, sem_wchan'[r] # <<>>
         PROVE  sem_count'[r] <= Cardinality(WokenForSem(r)')
    <3>1. sem_count[r] <= Cardinality(WokenForSem(r))
      BY <1>1, <1>4, <1>6, <2>11, Zenon DEF SemPart, SemNoLostWakeup
    <3>2. WokenForSem(r) \in SUBSET Threads /\ h \notin WokenForSem(r)
      BY <2>3, Zenon DEF WokenForSem
    <3>3. CASE r = s
      <4>1. WokenForSem(r)' = WokenForSem(r) \cup {h}
        BY <1>3, <2>3, <2>5, <3>3, Zenon DEF WokenForSem
      <4>2. Cardinality(WokenForSem(r)') = Cardinality(WokenForSem(r)) + 1
            /\ Cardinality(WokenForSem(r)) \in Nat
        BY <3>2, <4>1, CountThreads, Zenon
      <4> QED
        BY <1>2, <1>4, <3>1, <3>3, <4>2
    <3>4. CASE r # s
      <4>1. WokenForSem(r)' = WokenForSem(r)
        BY <1>3, <2>3, <2>5, <3>4, Zenon DEF WokenForSem
      <4> QED
        BY <1>4, <3>1, <3>4, <4>1, Zenon
    <3> QED
      BY <3>3, <3>4, Zenon
  <2> QED
    BY <2>6, <2>7, <2>8, <2>9, <2>10, <2>11, Zenon DEF IInv, SemPart, SemNoLostWakeup
<1> QED
  BY <1>5, <1>6, Zenon

\* lock_acquire takes the lock or goes to sleep, the first time or woken.
LEMMA AcquireStep ==
    ASSUME IInv, NEW t \in Threads, NEW l \in Locks, AcquireLoop(t, l),
           pc[t] = "run" \/ (pc[t] = "lock_woken" /\ plock[t] = l),
           sem_count' = sem_count, sem_wchan' = sem_wchan, psem' = psem,
           cv_wchan' = cv_wchan, cv_wchanlock' = cv_wchanlock, pcv' = pcv
    PROVE  IInv'
<1>1. TypeOK /\ Locals /\ SemPart /\ LockPart /\ CvPart
  BY Zenon DEF IInv
<1>2. /\ lk_holder \in [Locks -> Threads \cup {NULL}] /\ lk_wchan \in [Locks -> Seq(Threads)]
      /\ held \in [Threads -> SUBSET Locks]
      /\ pc \in [Threads -> Places] /\ plock \in [Threads -> Locks \cup {NULL}]
  BY <1>1, Zenon DEF TypeOK
<1>3. \/ /\ lk_holder[l] = NULL /\ lk_holder' = [lk_holder EXCEPT ![l] = t]
         /\ held' = [held EXCEPT ![t] = @ \cup {l}]
         /\ pc' = [pc EXCEPT ![t] = "run"] /\ plock' = [plock EXCEPT ![t] = NULL]
         /\ lk_wchan' = lk_wchan
      \/ /\ lk_holder[l] # NULL /\ lk_wchan' = [lk_wchan EXCEPT ![l] = Append(@, t)]
         /\ pc' = [pc EXCEPT ![t] = "lock_sleep"] /\ plock' = [plock EXCEPT ![t] = l]
         /\ lk_holder' = lk_holder /\ held' = held
  BY Zenon DEF AcquireLoop
<1>4. /\ \A u \in Threads : u # t => pc'[u] = pc[u] /\ plock'[u] = plock[u]
      /\ pc'[t] \in {"run", "lock_sleep"} /\ (pc'[t] = "lock_sleep" => plock'[t] = l)
  BY <1>2, <1>3, Zenon
<1>5. TypeOK'
  <2>1. lk_holder' \in [Locks -> Threads \cup {NULL}] /\ held' \in [Threads -> SUBSET Locks]
    <3>1. lk_holder' = lk_holder \/ lk_holder' = [lk_holder EXCEPT ![l] = t]
      BY <1>3, Zenon
    <3>2. lk_holder' \in [Locks -> Threads \cup {NULL}]
      BY <1>2, <3>1, Zenon
    <3>3. held' = held \/ held' = [held EXCEPT ![t] = held[t] \cup {l}]
      BY <1>3, Zenon
    <3>4. held[t] \cup {l} \in SUBSET Locks
      BY <1>2, Zenon
    <3>5. held' \in [Threads -> SUBSET Locks]
      BY <1>2, <3>3, <3>4, Zenon
    <3> QED
      BY <3>2, <3>5, Zenon
  <2>2. lk_wchan' \in [Locks -> Seq(Threads)]
    <3>1. lk_wchan' = lk_wchan \/ lk_wchan' = [lk_wchan EXCEPT ![l] = Append(@, t)]
      BY <1>3, Zenon
    <3>2. Append(lk_wchan[l], t) \in Seq(Threads)
      BY <1>2, AppendChannel, Zenon
    <3> QED
      BY <1>2, <3>1, <3>2, Zenon
  <2>3. pc' \in [Threads -> Places] /\ plock' \in [Threads -> Locks \cup {NULL}]
    <3>1. pc' = [pc EXCEPT ![t] = "run"] \/ pc' = [pc EXCEPT ![t] = "lock_sleep"]
      BY <1>3, Zenon
    <3>2. plock' = [plock EXCEPT ![t] = NULL] \/ plock' = [plock EXCEPT ![t] = l]
      BY <1>3, Zenon
    <3>3. pc' \in [Threads -> Places]
      BY <1>2, <3>1, Zenon DEF Places
    <3> QED
      BY <1>2, <3>2, <3>3, Zenon
  <2> QED
    BY <1>1, <2>1, <2>2, <2>3, Zenon DEF TypeOK
<1>6. Locals'
  BY <1>1, <1>4, Zenon DEF Locals
<1>7. SemPart'
  <2>1. \A u \in Threads :
           \/ pc'[u] = pc[u] /\ psem'[u] = psem[u]
           \/ pc[u] \notin {"P_sleep", "P_woken"} /\ pc'[u] \notin {"P_sleep", "P_woken"}
    BY <1>4, Zenon
  <2> QED
    BY <1>1, <2>1, SemFrame, Zenon
<1>8. CvPart'
  <2>1. \A u \in Threads : \/ pc'[u] = pc[u] /\ pcv'[u] = pcv[u]
                           \/ pc[u] # "cv_sleep" /\ pc'[u] \notin {"cv_sleep", "cv_release"}
    BY <1>4, Zenon
  <2> QED
    BY <1>1, <2>1, CvFrame, Zenon
<1>9. \A m \in Locks : ~OnChannel(lk_wchan[m], t)
  BY <1>1, Zenon DEF LockPart, LockChannels
<1>10. ASSUME NEW m \in Locks, m # l PROVE WokenForLock(m)' = WokenForLock(m)
  BY <1>4, <1>10, Zenon DEF WokenForLock
<1>11. CASE lk_holder[l] = NULL
  <2>1. /\ lk_holder'[l] = t /\ \A m \in Locks : m # l => lk_holder'[m] = lk_holder[m]
        /\ held'[t] = held[t] \cup {l} /\ \A u \in Threads : u # t => held'[u] = held[u]
        /\ lk_wchan' = lk_wchan /\ pc'[t] = "run"
    BY <1>2, <1>3, <1>11, Zenon
  <2>2. LockChannels'
    BY <1>1, <1>4, <1>9, <2>1 DEF LockPart, LockChannels
  <2>3. LockNoLostWakeup'
    BY <1>1, <1>10, <2>1, NullAssumption, Zenon DEF LockPart, LockNoLostWakeup
  <2>4. MutualExclusion'
    BY <1>1, <1>11, <2>1, NullAssumption DEF LockPart, MutualExclusion
  <2> QED
    BY <1>5, <1>6, <1>7, <1>8, <2>2, <2>3, <2>4, Zenon DEF IInv, LockPart
<1>12. CASE lk_holder[l] # NULL
  <2>1. /\ lk_holder' = lk_holder /\ held' = held /\ pc'[t] = "lock_sleep" /\ plock'[t] = l
        /\ lk_wchan'[l] = Append(lk_wchan[l], t)
        /\ \A m \in Locks : m # l => lk_wchan'[m] = lk_wchan[m]
    BY <1>2, <1>3, <1>12, Zenon
  <2>2. LockChannels'
    <3> SUFFICES ASSUME NEW m \in Locks
                 PROVE  /\ IsInjectiveSeq(lk_wchan'[m])
                        /\ \A u \in Threads : OnChannel(lk_wchan'[m], u) <=>
                                                  pc'[u] = "lock_sleep" /\ plock'[u] = m
      BY Zenon DEF LockChannels
    <3>1. /\ IsInjectiveSeq(lk_wchan[m]) /\ lk_wchan[m] \in Seq(Threads)
          /\ \A u \in Threads : OnChannel(lk_wchan[m], u) <=> pc[u] = "lock_sleep" /\ plock[u] = m
      BY <1>1, <1>2, Zenon DEF LockPart, LockChannels
    <3>2. CASE m = l
      <4>1. /\ IsInjectiveSeq(Append(lk_wchan[l], t))
            /\ \A u \in Threads :
                  OnChannel(Append(lk_wchan[l], t), u) <=> OnChannel(lk_wchan[l], u) \/ u = t
        BY <1>9, <3>1, <3>2, AppendChannel, Zenon
      <4> QED
        BY <1>4, <2>1, <3>1, <3>2, <4>1, ZenonT(30)
    <3>3. CASE m # l
      BY <1>4, <1>9, <2>1, <3>1, <3>3, Zenon
    <3> QED
      BY <3>2, <3>3, Zenon
  <2>3. LockNoLostWakeup'
    BY <1>1, <1>10, <1>12, <2>1, Zenon DEF LockPart, LockNoLostWakeup
  <2>4. MutualExclusion'
    BY <1>1, <2>1, Zenon DEF LockPart, MutualExclusion
  <2> QED
    BY <1>5, <1>6, <1>7, <1>8, <2>2, <2>3, <2>4, Zenon DEF IInv, LockPart
<1> QED
  BY <1>11, <1>12, Zenon

\* lock_release frees the lock and wakes the first sleeper, for a client or for
\* cv_wait: its effect on the locks and on the places of the threads.
LEMMA ReleasedPart ==
    ASSUME TypeOK, LockPart, NEW t \in Threads, NEW l \in Locks, pc[t] = "run", l \in held[t],
           NEW place \in {"run", "cv_release"}, Released(t, l, place),
           \A u \in Threads : u # t => plock'[u] = plock[u]
    PROVE  /\ lk_holder' \in [Locks -> Threads \cup {NULL}]
           /\ lk_wchan' \in [Locks -> Seq(Threads)]
           /\ held' \in [Threads -> SUBSET Locks]
           /\ pc' \in [Threads -> Places]
           /\ pc'[t] = place
           /\ \A u \in Threads : u # t =>
                 \/ pc'[u] = pc[u]
                 \/ pc[u] = "lock_sleep" /\ pc'[u] = "lock_woken"
           /\ LockPart'
<1>1. /\ lk_holder \in [Locks -> Threads \cup {NULL}] /\ lk_wchan \in [Locks -> Seq(Threads)]
      /\ held \in [Threads -> SUBSET Locks] /\ pc \in [Threads -> Places]
  BY Zenon DEF TypeOK
<1>2. /\ lk_holder' = [lk_holder EXCEPT ![l] = NULL]
      /\ held' = [held EXCEPT ![t] = @ \ {l}]
      /\ lk_wchan' = [lk_wchan EXCEPT ![l] = RemHead(@)]
  BY Zenon DEF Released
<1>3. /\ lk_holder'[l] = NULL /\ \A m \in Locks : m # l => lk_holder'[m] = lk_holder[m]
      /\ held'[t] = held[t] \ {l} /\ \A u \in Threads : u # t => held'[u] = held[u]
      /\ lk_wchan'[l] = RemHead(lk_wchan[l])
      /\ \A m \in Locks : m # l => lk_wchan'[m] = lk_wchan[m]
  BY <1>1, <1>2, Zenon
<1>4. lk_holder' \in [Locks -> Threads \cup {NULL}] /\ held' \in [Threads -> SUBSET Locks]
  BY <1>1, <1>2, Zenon
<1>5. MutualExclusion'
  <2>1. MutualExclusion
    BY Zenon DEF LockPart
  <2> QED
    BY <1>3, <2>1, NullAssumption DEF MutualExclusion
<1>6. /\ IsInjectiveSeq(lk_wchan[l])
      /\ \A u \in Threads : OnChannel(lk_wchan[l], u) <=> pc[u] = "lock_sleep" /\ plock[u] = l
  BY Zenon DEF LockPart, LockChannels
<1>7. CASE lk_wchan[l] = <<>>
  <2>1. lk_wchan' = lk_wchan
    BY <1>1, <1>2, <1>7, EmptyChannel, Zenon
  <2>2. pc' = [pc EXCEPT ![t] = place]
    BY <1>7, Zenon DEF Released, WakeOne
  <2>3. pc'[t] = place /\ pc' \in [Threads -> Places] /\ \A u \in Threads : u # t => pc'[u] = pc[u]
    BY <1>1, <2>2, Zenon DEF Places
  <2>4. LockChannels'
    BY <2>1, <2>3 DEF LockPart, LockChannels
  <2>5. \A m \in Locks : WokenForLock(m)' = WokenForLock(m)
    BY <2>3, Zenon DEF WokenForLock
  <2>6. LockNoLostWakeup'
    BY <1>3, <1>7, <2>1, <2>5, Zenon DEF LockPart, LockNoLostWakeup
  <2> QED
    BY <1>1, <1>4, <1>5, <2>1, <2>3, <2>4, <2>6, Zenon DEF LockPart
<1>8. CASE lk_wchan[l] # <<>>
  <2>1. PICK h \in Threads : h = Head(lk_wchan[l])
    BY <1>1, <1>6, <1>8, RemHeadChannel, Zenon
  <2>2. /\ OnChannel(lk_wchan[l], h) /\ lk_wchan'[l] \in Seq(Threads)
        /\ IsInjectiveSeq(lk_wchan'[l])
        /\ \A u \in Threads : OnChannel(lk_wchan'[l], u) <=> OnChannel(lk_wchan[l], u) /\ u # h
    BY <1>1, <1>3, <1>6, <1>8, <2>1, RemHeadChannel
  <2>3. pc[h] = "lock_sleep" /\ plock[h] = l /\ h # t
    BY <1>6, <2>2, Zenon
  <2>4. pc' = [[pc EXCEPT ![h] = "lock_woken"] EXCEPT ![t] = place]
    BY <1>8, <2>1, Zenon DEF Released, WakeOne
  <2>5. /\ pc'[t] = place /\ pc'[h] = "lock_woken"
        /\ \A u \in Threads : u # t /\ u # h => pc'[u] = pc[u]
        /\ pc' \in [Threads -> Places]
    BY <1>1, <2>3, <2>4, Zenon DEF Places
  <2>6. lk_wchan' \in [Locks -> Seq(Threads)]
    BY <1>1, <1>2, <1>3, <2>2, Zenon
  <2>7. LockChannels'
    BY <1>3, <2>2, <2>3, <2>5 DEF LockPart, LockChannels
  <2>8. h \in WokenForLock(l)'
    BY <2>3, <2>5, Zenon DEF WokenForLock
  <2>9. \A m \in Locks : WokenForLock(m) \subseteq WokenForLock(m)'
    BY <2>3, <2>5, Zenon DEF WokenForLock
  <2>10. LockNoLostWakeup'
    BY <1>3, <2>8, <2>9, ZenonT(30) DEF LockPart, LockNoLostWakeup
  <2> QED
    BY <1>4, <1>5, <2>3, <2>5, <2>6, <2>7, <2>10, Zenon DEF LockPart
<1> QED
  BY <1>7, <1>8, Zenon

\* lock_release by a client.
LEMMA ReleaseStep ==
    ASSUME IInv, NEW t \in Threads, NEW l \in Locks, lock_release(t, l)
    PROVE  IInv'
<1>1. TypeOK /\ Locals /\ SemPart /\ LockPart /\ CvPart
  BY Zenon DEF IInv
<1>2. /\ pc[t] = "run" /\ l \in held[t] /\ Released(t, l, "run")
      /\ sem_count' = sem_count /\ sem_wchan' = sem_wchan
      /\ cv_wchan' = cv_wchan /\ cv_wchanlock' = cv_wchanlock
      /\ psem' = psem /\ plock' = plock /\ pcv' = pcv
  BY Zenon DEF lock_release, semVars, cvVars
<1>3. /\ lk_holder' \in [Locks -> Threads \cup {NULL}]
      /\ lk_wchan' \in [Locks -> Seq(Threads)] /\ held' \in [Threads -> SUBSET Locks]
      /\ pc' \in [Threads -> Places] /\ pc'[t] = "run"
      /\ \A u \in Threads : u # t =>
            \/ pc'[u] = pc[u]
            \/ pc[u] = "lock_sleep" /\ pc'[u] = "lock_woken"
      /\ LockPart'
  BY <1>1, <1>2, ReleasedPart, Zenon
<1>4. TypeOK'
  BY <1>1, <1>2, <1>3, Zenon DEF TypeOK
<1>5. Locals'
  BY <1>1, <1>2, <1>3, Zenon DEF Locals
<1>6. SemPart'
  BY <1>1, <1>2, <1>3, SemFrame, ZenonT(30)
<1>7. CvPart'
  BY <1>1, <1>2, <1>3, CvFrame, Zenon
<1> QED
  BY <1>3, <1>4, <1>5, <1>6, <1>7, Zenon DEF IInv

\* cv_wait takes cv_wchanlock and releases the lock.
LEMMA CvWaitStep ==
    ASSUME IInv, NEW t \in Threads, NEW v \in CVs, NEW l \in Locks, cv_wait(t, v, l)
    PROVE  IInv'
<1>1. TypeOK /\ Locals /\ SemPart /\ LockPart /\ CvPart
  BY Zenon DEF IInv
<1>2. /\ pc[t] = "run" /\ l \in held[t] /\ Released(t, l, "cv_release")
      /\ sem_count' = sem_count /\ sem_wchan' = sem_wchan /\ psem' = psem
      /\ cv_wchan' = cv_wchan /\ cv_wchanlock[v] = NULL
      /\ cv_wchanlock' = [cv_wchanlock EXCEPT ![v] = t]
      /\ pcv' = [pcv EXCEPT ![t] = v] /\ plock' = [plock EXCEPT ![t] = l]
  BY Zenon DEF cv_wait, semVars
<1>3. /\ pcv \in [Threads -> CVs \cup {NULL}] /\ plock \in [Threads -> Locks \cup {NULL}]
      /\ cv_wchanlock \in [CVs -> Threads \cup {NULL}]
  BY <1>1, Zenon DEF TypeOK
<1>4. /\ pcv'[t] = v /\ plock'[t] = l /\ cv_wchanlock'[v] = t
      /\ \A u \in Threads : u # t => pcv'[u] = pcv[u] /\ plock'[u] = plock[u]
      /\ \A w \in CVs : w # v => cv_wchanlock'[w] = cv_wchanlock[w]
  BY <1>2, <1>3, ZenonT(30)
<1>5. /\ lk_holder' \in [Locks -> Threads \cup {NULL}]
      /\ lk_wchan' \in [Locks -> Seq(Threads)] /\ held' \in [Threads -> SUBSET Locks]
      /\ pc' \in [Threads -> Places] /\ pc'[t] = "cv_release"
      /\ \A u \in Threads : u # t =>
            \/ pc'[u] = pc[u]
            \/ pc[u] = "lock_sleep" /\ pc'[u] = "lock_woken"
      /\ LockPart'
  BY <1>1, <1>2, <1>4, ReleasedPart, Zenon
<1>6. TypeOK'
  <2>1. /\ pcv' \in [Threads -> CVs \cup {NULL}] /\ plock' \in [Threads -> Locks \cup {NULL}]
        /\ cv_wchanlock' \in [CVs -> Threads \cup {NULL}]
    BY <1>2, <1>3, Zenon
  <2> QED
    BY <1>1, <1>2, <1>5, <2>1, Zenon DEF TypeOK
<1>7. Locals'
  BY <1>1, <1>2, <1>4, <1>5, ZenonT(30) DEF Locals
<1>8. SemPart'
  BY <1>1, <1>2, <1>5, SemFrame, Zenon
<1>9. CvChannels'
  BY <1>1, <1>2, <1>4, <1>5 DEF CvPart, CvChannels
<1>10. WaitLocked'
  <2>1. \A u \in Threads : pc[u] = "cv_release" => pcv[u] # v /\ pcv[u] \in CVs
    BY <1>1, <1>2, NullAssumption, Zenon DEF CvPart, WaitLocked, Locals
  <2> QED
    BY <1>1, <1>4, <1>5, <2>1 DEF CvPart, WaitLocked
<1> QED
  BY <1>5, <1>6, <1>7, <1>8, <1>9, <1>10, Zenon DEF IInv, CvPart

\* cv_wait goes to sleep on the channel.
LEMMA CvSleepStep ==
    ASSUME IInv, NEW t \in Threads, CvSleep(t)
    PROVE  IInv'
<1>1. TypeOK /\ Locals /\ SemPart /\ LockPart /\ CvPart
  BY Zenon DEF IInv
<1>2. pc[t] = "cv_release"
  BY Zenon DEF CvSleep
<1>3. PICK v \in CVs : v = pcv[t]
  BY <1>1, <1>2, Zenon DEF Locals
<1>4. /\ cv_wchan' = [cv_wchan EXCEPT ![v] = Append(@, t)]
      /\ cv_wchanlock' = [cv_wchanlock EXCEPT ![v] = NULL]
      /\ pc' = [pc EXCEPT ![t] = "cv_sleep"]
      /\ sem_count' = sem_count /\ sem_wchan' = sem_wchan
      /\ lk_holder' = lk_holder /\ lk_wchan' = lk_wchan /\ held' = held
      /\ psem' = psem /\ plock' = plock /\ pcv' = pcv
  BY <1>3, Zenon DEF CvSleep, semVars, lockVars
<1>5. /\ cv_wchan \in [CVs -> Seq(Threads)] /\ cv_wchanlock \in [CVs -> Threads \cup {NULL}]
      /\ pc \in [Threads -> Places]
  BY <1>1, Zenon DEF TypeOK
<1>6. /\ cv_wchan'[v] = Append(cv_wchan[v], t) /\ cv_wchanlock'[v] = NULL
      /\ \A w \in CVs : w # v => cv_wchan'[w] = cv_wchan[w] /\ cv_wchanlock'[w] = cv_wchanlock[w]
      /\ pc'[t] = "cv_sleep" /\ \A u \in Threads : u # t => pc'[u] = pc[u]
  BY <1>4, <1>5, Zenon
<1>7. TypeOK'
  <2>1. Append(cv_wchan[v], t) \in Seq(Threads)
    BY <1>5, AppendChannel, Zenon
  <2>2. cv_wchan' \in [CVs -> Seq(Threads)] /\ cv_wchanlock' \in [CVs -> Threads \cup {NULL}]
    BY <1>4, <1>5, <2>1, Zenon
  <2>3. pc' \in [Threads -> Places]
    BY <1>4, <1>5, Zenon DEF Places
  <2> QED
    BY <1>1, <1>4, <2>2, <2>3, Zenon DEF TypeOK
<1>8. Locals'
  BY <1>1, <1>2, <1>4, <1>6, Zenon DEF Locals
<1>9. SemPart' /\ LockPart'
  BY <1>1, <1>2, <1>4, <1>6, SemFrame, LockFrame, Zenon
<1>10. \A w \in CVs : ~OnChannel(cv_wchan[w], t)
  BY <1>1, <1>2, Zenon DEF CvPart, CvChannels
<1>11. CvChannels'
  <2> SUFFICES ASSUME NEW w \in CVs
               PROVE  /\ IsInjectiveSeq(cv_wchan'[w])
                      /\ \A u \in Threads : OnChannel(cv_wchan'[w], u) <=>
                                                pc'[u] = "cv_sleep" /\ pcv'[u] = w
    BY Zenon DEF CvChannels
  <2>1. /\ IsInjectiveSeq(cv_wchan[w]) /\ cv_wchan[w] \in Seq(Threads)
        /\ \A u \in Threads : OnChannel(cv_wchan[w], u) <=> pc[u] = "cv_sleep" /\ pcv[u] = w
    BY <1>1, <1>5, Zenon DEF CvPart, CvChannels
  <2>2. CASE w = v
    <3>1. /\ IsInjectiveSeq(Append(cv_wchan[v], t))
          /\ \A u \in Threads :
                OnChannel(Append(cv_wchan[v], t), u) <=> OnChannel(cv_wchan[v], u) \/ u = t
      BY <1>10, <2>1, <2>2, AppendChannel, Zenon
    <3> QED
      BY <1>3, <1>4, <1>6, <2>1, <2>2, <3>1
  <2>3. CASE w # v
    BY <1>3, <1>4, <1>6, <1>10, <2>1, <2>3, Zenon
  <2> QED
    BY <2>2, <2>3, Zenon
<1>12. WaitLocked'
  <2>1. \A u \in Threads : u # t /\ pc[u] = "cv_release" => pcv[u] # v /\ pcv[u] \in CVs
    BY <1>1, <1>2, <1>3, Zenon DEF CvPart, WaitLocked, Locals
  <2> QED
    BY <1>1, <1>4, <1>6, <2>1 DEF CvPart, WaitLocked
<1> QED
  BY <1>7, <1>8, <1>9, <1>11, <1>12, Zenon DEF IInv, CvPart

\* cv_wait, woken, goes on to acquire the lock.
LEMMA CvResumeStep ==
    ASSUME IInv, NEW t \in Threads, CvResume(t)
    PROVE  IInv'
<1>1. TypeOK /\ Locals /\ SemPart /\ LockPart /\ CvPart
  BY Zenon DEF IInv
<1>2. /\ pc[t] = "cv_woken" /\ pcv' = [pcv EXCEPT ![t] = NULL]
      /\ pc' = [pc EXCEPT ![t] = "lock_woken"]
      /\ sem_count' = sem_count /\ sem_wchan' = sem_wchan
      /\ lk_holder' = lk_holder /\ lk_wchan' = lk_wchan /\ held' = held
      /\ cv_wchan' = cv_wchan /\ cv_wchanlock' = cv_wchanlock
      /\ psem' = psem /\ plock' = plock
  BY Zenon DEF CvResume, semVars, lockVars, cvVars
<1>3. pcv \in [Threads -> CVs \cup {NULL}] /\ pc \in [Threads -> Places]
  BY <1>1, Zenon DEF TypeOK
<1>4. /\ pc'[t] = "lock_woken" /\ \A u \in Threads : u # t => pc'[u] = pc[u] /\ pcv'[u] = pcv[u]
      /\ pcv' \in [Threads -> CVs \cup {NULL}] /\ pc' \in [Threads -> Places]
  BY <1>2, <1>3, Zenon DEF Places
<1>5. TypeOK'
  BY <1>1, <1>2, <1>4, Zenon DEF TypeOK
<1>6. Locals'
  BY <1>1, <1>2, <1>4, Zenon DEF Locals
<1>7. SemPart' /\ LockPart' /\ CvPart'
  BY <1>1, <1>2, <1>4, SemFrame, LockFrame, CvFrame, Zenon
<1> QED
  BY <1>5, <1>6, <1>7, Zenon DEF IInv

\* cv_signal wakes the first waiter on the channel.
LEMMA CvSignalStep ==
    ASSUME IInv, NEW t \in Threads, NEW v \in CVs, cv_signal(t, v)
    PROVE  IInv'
<1>1. TypeOK /\ Locals /\ SemPart /\ LockPart /\ CvPart
  BY Zenon DEF IInv
<1>2. /\ cv_wchan' = [cv_wchan EXCEPT ![v] = RemHead(@)]
      /\ pc' = IF cv_wchan[v] = <<>> THEN pc ELSE [pc EXCEPT ![Head(cv_wchan[v])] = "cv_woken"]
      /\ sem_count' = sem_count /\ sem_wchan' = sem_wchan
      /\ lk_holder' = lk_holder /\ lk_wchan' = lk_wchan /\ held' = held
      /\ cv_wchanlock' = cv_wchanlock /\ psem' = psem /\ plock' = plock /\ pcv' = pcv
  BY Zenon DEF cv_signal, WakeOne, semVars, lockVars
<1>3. /\ cv_wchan \in [CVs -> Seq(Threads)] /\ pc \in [Threads -> Places]
  BY <1>1, Zenon DEF TypeOK
<1>4. /\ cv_wchan'[v] = RemHead(cv_wchan[v])
      /\ \A w \in CVs : w # v => cv_wchan'[w] = cv_wchan[w]
  BY <1>2, <1>3, Zenon
<1>5. CASE cv_wchan[v] = <<>>
  <2>1. pc' = pc /\ cv_wchan' = cv_wchan
    BY <1>2, <1>3, <1>5, EmptyChannel, Zenon
  <2>2. TypeOK' /\ Locals'
    BY <1>1, <1>2, <2>1, ZenonT(30) DEF TypeOK, Locals
  <2>3. SemPart' /\ LockPart' /\ CvPart'
    BY <1>1, <1>2, <2>1, SemFrame, LockFrame, CvFrame, Zenon
  <2> QED
    BY <2>2, <2>3, Zenon DEF IInv
<1>6. CASE cv_wchan[v] # <<>>
  <2>1. PICK h \in Threads : h = Head(cv_wchan[v])
    BY <1>1, <1>3, <1>6, RemHeadChannel, ZenonT(30) DEF CvPart, CvChannels
  <2>2. /\ OnChannel(cv_wchan[v], h) /\ cv_wchan'[v] \in Seq(Threads)
        /\ IsInjectiveSeq(cv_wchan'[v])
        /\ \A u \in Threads : OnChannel(cv_wchan'[v], u) <=> OnChannel(cv_wchan[v], u) /\ u # h
    BY <1>1, <1>3, <1>4, <1>6, <2>1, RemHeadChannel DEF CvPart, CvChannels
  <2>3. pc[h] = "cv_sleep" /\ pcv[h] = v
    BY <1>1, <2>2, Zenon DEF CvPart, CvChannels
  <2>4. pc' = [pc EXCEPT ![h] = "cv_woken"]
    BY <1>2, <1>6, <2>1, Zenon
  <2>5. pc'[h] = "cv_woken" /\ \A u \in Threads : u # h => pc'[u] = pc[u]
    BY <1>3, <2>4, Zenon
  <2>6. TypeOK'
    <3>1. cv_wchan' \in [CVs -> Seq(Threads)]
      BY <1>2, <1>3, <1>4, <2>2, Zenon
    <3>2. pc' \in [Threads -> Places]
      BY <1>3, <2>4, Zenon DEF Places
    <3> QED
      BY <1>1, <1>2, <3>1, <3>2, Zenon DEF TypeOK
  <2>7. Locals'
    BY <1>1, <1>2, <2>3, <2>5, Zenon DEF Locals
  <2>8. SemPart' /\ LockPart'
    BY <1>1, <1>2, <2>3, <2>5, SemFrame, LockFrame, ZenonT(30)
  <2>9. CvChannels'
    BY <1>1, <1>2, <1>4, <2>2, <2>3, <2>5 DEF CvPart, CvChannels
  <2>10. WaitLocked'
    BY <1>1, <1>2, <2>5, Zenon DEF CvPart, WaitLocked
  <2> QED
    BY <2>6, <2>7, <2>8, <2>9, <2>10, Zenon DEF IInv, CvPart
<1> QED
  BY <1>5, <1>6, Zenon

\* cv_broadcast wakes every waiter on the channel.
LEMMA CvBroadcastStep ==
    ASSUME IInv, NEW t \in Threads, NEW v \in CVs, cv_broadcast(t, v)
    PROVE  IInv'
<1>1. TypeOK /\ Locals /\ SemPart /\ LockPart /\ CvPart
  BY Zenon DEF IInv
<1>2. /\ cv_wchan' = [cv_wchan EXCEPT ![v] = <<>>]
      /\ pc' = [u \in Threads |-> IF OnChannel(cv_wchan[v], u) THEN "cv_woken" ELSE pc[u]]
      /\ sem_count' = sem_count /\ sem_wchan' = sem_wchan
      /\ lk_holder' = lk_holder /\ lk_wchan' = lk_wchan /\ held' = held
      /\ cv_wchanlock' = cv_wchanlock /\ psem' = psem /\ plock' = plock /\ pcv' = pcv
  BY Zenon DEF cv_broadcast, OnChannel, semVars, lockVars
<1>3. /\ cv_wchan \in [CVs -> Seq(Threads)] /\ pc \in [Threads -> Places]
  BY <1>1, Zenon DEF TypeOK
<1>4. /\ cv_wchan'[v] = <<>>
      /\ \A w \in CVs : w # v => cv_wchan'[w] = cv_wchan[w]
  BY <1>2, <1>3, Zenon
<1>5. \A u \in Threads : OnChannel(cv_wchan[v], u) <=> pc[u] = "cv_sleep" /\ pcv[u] = v
  BY <1>1, Zenon DEF CvPart, CvChannels
<1>6. \A u \in Threads : pc'[u] = IF pc[u] = "cv_sleep" /\ pcv[u] = v THEN "cv_woken" ELSE pc[u]
  BY <1>2, <1>5, Zenon
<1>7. TypeOK'
  <2>1. cv_wchan' \in [CVs -> Seq(Threads)]
    BY <1>2, <1>3
  <2>2. pc' \in [Threads -> Places]
    BY <1>2, <1>3, Zenon DEF Places
  <2> QED
    BY <1>1, <1>2, <2>1, <2>2, Zenon DEF TypeOK
<1>8. Locals'
  BY <1>1, <1>2, <1>6, Zenon DEF Locals
<1>9. SemPart' /\ LockPart'
  BY <1>1, <1>2, <1>6, SemFrame, LockFrame, Zenon
<1>10. CvChannels'
  <2> SUFFICES ASSUME NEW w \in CVs
               PROVE  /\ IsInjectiveSeq(cv_wchan'[w])
                      /\ \A u \in Threads : OnChannel(cv_wchan'[w], u) <=>
                                                pc'[u] = "cv_sleep" /\ pcv'[u] = w
    BY Zenon DEF CvChannels
  <2>1. CASE w = v
    BY <1>2, <1>4, <1>6, <2>1, EmptyChannel
  <2>2. CASE w # v
    BY <1>1, <1>2, <1>4, <1>6, <2>2, Zenon DEF CvPart, CvChannels
  <2> QED
    BY <2>1, <2>2, Zenon
<1>11. WaitLocked'
  BY <1>1, <1>2, <1>6, Zenon DEF CvPart, WaitLocked
<1> QED
  BY <1>7, <1>8, <1>9, <1>10, <1>11, Zenon DEF IInv, CvPart

\* The inductive invariant holds of the objects as they are created.
LEMMA InitIInv == Init => IInv
<1> SUFFICES ASSUME Init PROVE IInv
  BY Zenon
<1>1. TypeOK
  BY CountAssumption DEF Init, TypeOK, Places
<1>2. Locals /\ WaitLocked
  BY Zenon DEF Init, Locals, WaitLocked
<1>3. SemChannels /\ LockChannels /\ CvChannels
  BY EmptyChannel, Zenon DEF Init, SemChannels, LockChannels, CvChannels
<1>4. SemNoLostWakeup /\ LockNoLostWakeup /\ MutualExclusion
  BY NullAssumption, Zenon DEF Init, SemNoLostWakeup, LockNoLostWakeup, MutualExclusion
<1> QED
  BY <1>1, <1>2, <1>3, <1>4, Zenon DEF IInv, SemPart, LockPart, CvPart

\* Every step keeps the inductive invariant.
LEMMA NextIInv == IInv /\ [Next]_vars => IInv'
<1> SUFFICES ASSUME IInv, [Next]_vars PROVE IInv'
  BY Zenon
<1>1. ASSUME NEW t \in Threads, NEW s \in Sems, P(t, s) PROVE IInv'
  BY <1>1, PLoopStep, Zenon DEF P, lockVars, cvVars
<1>2. ASSUME NEW t \in Threads, PResume(t) PROVE IInv'
  <2>1. psem[t] \in Sems
    BY <1>2, Zenon DEF PResume, IInv, Locals
  <2> QED
    BY <1>2, <2>1, PLoopStep, Zenon DEF PResume, lockVars, cvVars
<1>3. ASSUME NEW t \in Threads, NEW l \in Locks, lock_acquire(t, l) PROVE IInv'
  BY <1>3, AcquireStep, Zenon DEF lock_acquire, semVars, cvVars
<1>4. ASSUME NEW t \in Threads, AcquireResume(t) PROVE IInv'
  <2>1. plock[t] \in Locks
    BY <1>4, Zenon DEF AcquireResume, IInv, Locals
  <2> QED
    BY <1>4, <2>1, AcquireStep, Zenon DEF AcquireResume, semVars, cvVars
<1>5. CASE UNCHANGED vars
  <2> USE <1>5 DEF vars, semVars, lockVars, cvVars
  <2>1. TypeOK' /\ Locals'
    BY Zenon DEF IInv, TypeOK, Locals
  <2>2. SemPart' /\ LockPart' /\ CvPart'
    BY SemFrame, LockFrame, CvFrame, Zenon DEF IInv
  <2> QED
    BY <2>1, <2>2, Zenon DEF IInv
<1> QED
  BY <1>1, <1>2, <1>3, <1>4, <1>5, VStep, ReleaseStep, CvWaitStep, CvSignalStep,
     CvBroadcastStep, CvSleepStep, CvResumeStep, Zenon DEF Next

\* The inductive invariant holds in every reachable state.
LEMMA SpecIInv == Spec => []IInv
BY InitIInv, NextIInv, PTL DEF Spec

\* What a thread at place p with the given objects is doing.
DoingAt(p, s, l, v) ==
    CASE p = "run" -> <<>>
      [] p \in {"P_sleep", "P_woken"} -> <<"P", s>>
      [] p \in {"lock_sleep", "lock_woken", "cv_woken"} -> <<"acquire", l>>
      [] p \in {"cv_release", "cv_sleep"} -> <<"wait", v, l>>

\* The refinement mapping, before and after a step.
LEMMA DoingIs ==
    /\ Doing = [t \in Threads |-> DoingAt(pc[t], psem[t], plock[t], pcv[t])]
    /\ Doing' = [t \in Threads |-> DoingAt(pc'[t], psem'[t], plock'[t], pcv'[t])]
BY Zenon DEF Doing, DoingAt

\* Its values.
LEMMA DoingVals ==
    ASSUME NEW s, NEW l, NEW v
    PROVE  /\ DoingAt("run", s, l, v) = <<>>
           /\ \A p \in {"P_sleep", "P_woken"} : DoingAt(p, s, l, v) = <<"P", s>>
           /\ \A p \in {"lock_sleep", "lock_woken", "cv_woken"} :
                 DoingAt(p, s, l, v) = <<"acquire", l>>
           /\ \A p \in {"cv_release", "cv_sleep"} : DoingAt(p, s, l, v) = <<"wait", v, l>>
BY Zenon DEF DoingAt

\* The threads that wait on v are those that cv_signal and cv_broadcast find.
LEMMA WaitersAre ==
    ASSUME TypeOK, Locals, NEW v \in CVs
    PROVE  M!Waiters(v) = {t \in Threads : pc[t] \in {"cv_release", "cv_sleep"} /\ pcv[t] = v}
<1> SUFFICES ASSUME NEW t \in Threads
             PROVE  (\E l \in Locks : Doing[t] = <<"wait", v, l>>) <=>
                        pc[t] \in {"cv_release", "cv_sleep"} /\ pcv[t] = v
  BY Zenon DEF M!Waiters
<1>1. Doing[t] = DoingAt(pc[t], psem[t], plock[t], pcv[t])
  BY DoingIs, Zenon
<1>2. pc[t] \in Places
  BY Zenon DEF TypeOK
<1>3. CASE pc[t] \in {"cv_release", "cv_sleep"}
  <2>1. Doing[t] = <<"wait", pcv[t], plock[t]>> /\ plock[t] \in Locks
    BY <1>1, <1>3, DoingVals DEF Locals
  <2> QED
    BY <1>3, <2>1
<1>4. CASE pc[t] \notin {"cv_release", "cv_sleep"}
  <2>1. Doing[t] \in {<<>>, <<"P", psem[t]>>, <<"acquire", plock[t]>>}
    BY <1>1, <1>2, <1>4, DoingVals DEF Places
  <2> QED
    BY <1>4, <2>1
<1> QED
  BY <1>3, <1>4, Zenon

\* What a thread at a place is doing, before and after a step.
LEMMA DoingOf ==
    ASSUME NEW t \in Threads
    PROVE  /\ pc[t] = "run" => Doing[t] = <<>>
           /\ pc[t] \in {"P_sleep", "P_woken"} => Doing[t] = <<"P", psem[t]>>
           /\ pc[t] \in {"lock_sleep", "lock_woken", "cv_woken"} => Doing[t] = <<"acquire", plock[t]>>
           /\ pc[t] \in {"cv_release", "cv_sleep"} => Doing[t] = <<"wait", pcv[t], plock[t]>>
<1>1. Doing[t] = DoingAt(pc[t], psem[t], plock[t], pcv[t])
  BY DoingIs, Zenon
<1> QED
  BY <1>1, DoingVals

LEMMA DoingOfNext ==
    ASSUME NEW t \in Threads
    PROVE  /\ pc'[t] = "run" => Doing'[t] = <<>>
           /\ pc'[t] \in {"P_sleep", "P_woken"} => Doing'[t] = <<"P", psem'[t]>>
           /\ pc'[t] \in {"lock_sleep", "lock_woken", "cv_woken"} => Doing'[t] = <<"acquire", plock'[t]>>
           /\ pc'[t] \in {"cv_release", "cv_sleep"} => Doing'[t] = <<"wait", pcv'[t], plock'[t]>>
<1>1. Doing'[t] = DoingAt(pc'[t], psem'[t], plock'[t], pcv'[t])
  BY DoingIs, Zenon
<1> QED
  BY <1>1, DoingVals

\* A thread whose place and objects stay is doing what it was doing.
LEMMA DoingStays ==
    ASSUME NEW u \in Threads,
           pc'[u] = pc[u], psem'[u] = psem[u], plock'[u] = plock[u], pcv'[u] = pcv[u]
    PROVE  Doing'[u] = Doing[u]
BY DoingIs, Zenon

\* Doing changes at one thread when it changes at no other.
LEMMA DoingPut ==
    ASSUME NEW t \in Threads, NEW d, Doing'[t] = d,
           \A u \in Threads : u # t => Doing'[u] = Doing[u]
    PROVE  Doing' = [Doing EXCEPT ![t] = d]
<1>1. /\ Doing' = [u \in Threads |-> Doing'[u]]
      /\ Doing = [u \in Threads |-> Doing[u]]
  BY DoingIs, Zenon
<1> QED
  BY <1>1, Zenon

\* Doing stays when it stays at every thread.
LEMMA DoingKept ==
    ASSUME \A u \in Threads : Doing'[u] = Doing[u]
    PROVE  Doing' = Doing
<1>1. /\ Doing' = [u \in Threads |-> Doing'[u]]
      /\ Doing = [u \in Threads |-> Doing[u]]
  BY DoingIs, Zenon
<1> QED
  BY <1>1, Zenon

\* P takes one from the count, or blocks, or stays blocked.
LEMMA PLoopRefines ==
    ASSUME IInv, NEW t \in Threads, NEW s \in Sems, PLoop(t, s),
           pc[t] = "run" \/ (pc[t] = "P_woken" /\ psem[t] = s),
           lk_holder' = lk_holder, plock' = plock, pcv' = pcv
    PROVE  M!Next \/ UNCHANGED M!vars
<1>1. /\ sem_count \in [Sems -> 0 .. MaxCount] /\ pc \in [Threads -> Places]
      /\ psem \in [Threads -> Sems \cup {NULL}] /\ MaxCount \in Nat
  BY CountAssumption, Zenon DEF IInv, TypeOK
<1>2. Doing[t] = IF pc[t] = "run" THEN <<>> ELSE <<"P", s>>
  BY DoingOf, Zenon
<1>3. CASE sem_count[s] > 0
  <2>1. /\ sem_count' = [sem_count EXCEPT ![s] = @ - 1] /\ pc' = [pc EXCEPT ![t] = "run"]
        /\ psem' = [psem EXCEPT ![t] = NULL]
    BY <1>3 DEF PLoop
  <2>2. pc'[t] = "run" /\ \A u \in Threads : u # t => pc'[u] = pc[u] /\ psem'[u] = psem[u]
    BY <1>1, <2>1, Zenon
  <2>3. Doing' = [Doing EXCEPT ![t] = <<>>]
    <3>1. Doing'[t] = <<>>
      BY <2>2, DoingOfNext, Zenon
    <3>2. ASSUME NEW u \in Threads, u # t PROVE Doing'[u] = Doing[u]
      BY <2>2, <3>2, DoingStays, Zenon
    <3> QED
      BY <3>1, <3>2, DoingPut, Zenon
  <2>4. M!P(t, s)
    BY <1>2, <1>3, <2>1, <2>3, Zenon DEF M!P
  <2> QED
    BY <2>4, Zenon DEF M!Next
<1>4. CASE sem_count[s] = 0
  <2>1. /\ sem_count' = sem_count /\ pc' = [pc EXCEPT ![t] = "P_sleep"]
        /\ psem' = [psem EXCEPT ![t] = s]
    BY <1>4 DEF PLoop
  <2>2. /\ pc'[t] = "P_sleep" /\ psem'[t] = s
        /\ \A u \in Threads : u # t => pc'[u] = pc[u] /\ psem'[u] = psem[u]
    BY <1>1, <2>1, Zenon
  <2>3. Doing' = [Doing EXCEPT ![t] = <<"P", s>>]
    <3>1. Doing'[t] = <<"P", s>>
      BY <2>2, DoingOfNext, Zenon
    <3>2. ASSUME NEW u \in Threads, u # t PROVE Doing'[u] = Doing[u]
      BY <2>2, <3>2, DoingStays, Zenon
    <3> QED
      BY <3>1, <3>2, DoingPut, Zenon
  <2>4. CASE pc[t] = "run"
    <3>1. M!Block(t)
      BY <1>2, <1>4, <2>1, <2>3, <2>4, Zenon DEF M!Block
    <3> QED
      BY <3>1, Zenon DEF M!Next
  <2>5. CASE pc[t] # "run"
    <3>1. Doing' = Doing
      BY <1>2, <2>3, <2>5, DoingIs, Zenon
    <3> QED
      BY <2>1, <3>1, Zenon DEF M!vars
  <2> QED
    BY <2>4, <2>5, Zenon
<1> QED
  BY <1>1, <1>3, <1>4

\* V adds one: the thread it wakes is still in P.
LEMMA VRefines ==
    ASSUME IInv, NEW s \in Sems, V(s)
    PROVE  M!Next
<1>1. /\ sem_count' = [sem_count EXCEPT ![s] = @ + 1] /\ lk_holder' = lk_holder
      /\ psem' = psem /\ plock' = plock /\ pcv' = pcv
      /\ pc' = IF sem_wchan[s] = <<>> THEN pc ELSE [pc EXCEPT ![Head(sem_wchan[s])] = "P_woken"]
  BY Zenon DEF V, WakeOne, lockVars
<1>2. pc \in [Threads -> Places] /\ sem_wchan[s] \in Seq(Threads) /\ IsInjectiveSeq(sem_wchan[s])
  BY Zenon DEF IInv, TypeOK, SemPart, SemChannels
<1>3. \A u \in Threads : pc'[u] = pc[u] \/ (pc[u] = "P_sleep" /\ pc'[u] = "P_woken")
  <2>1. CASE sem_wchan[s] = <<>>
    BY <1>1, <2>1, Zenon
  <2>2. CASE sem_wchan[s] # <<>>
    <3>1. PICK h \in Threads : h = Head(sem_wchan[s]) /\ OnChannel(sem_wchan[s], h)
      BY <1>2, <2>2, RemHeadChannel, Zenon
    <3>2. pc[h] = "P_sleep" /\ pc' = [pc EXCEPT ![h] = "P_woken"]
      BY <1>1, <2>2, <3>1, Zenon DEF IInv, SemPart, SemChannels
    <3> QED
      BY <1>2, <3>2, Zenon
  <2> QED
    BY <2>1, <2>2, Zenon
<1>4. Doing' = Doing
  <2>1. ASSUME NEW u \in Threads, pc'[u] = pc[u] PROVE Doing'[u] = Doing[u]
    BY <1>1, <2>1, DoingStays, Zenon
  <2>2. ASSUME NEW u \in Threads, pc[u] = "P_sleep", pc'[u] = "P_woken"
        PROVE  Doing'[u] = Doing[u]
    <3>1. Doing[u] = <<"P", psem[u]>>
      BY <2>2, DoingOf, Zenon
    <3>2. Doing'[u] = <<"P", psem'[u]>>
      BY <2>2, DoingOfNext, Zenon
    <3> QED
      BY <1>1, <3>1, <3>2, Zenon
  <2> QED
    BY <1>3, <2>1, <2>2, DoingKept, Zenon
<1>5. M!V(s)
  BY <1>1, <1>4, Zenon DEF M!V
<1> QED
  BY <1>5, Zenon DEF M!Next

\* lock_acquire takes the free lock, or blocks, or stays blocked.
LEMMA AcquireRefines ==
    ASSUME IInv, NEW t \in Threads, NEW l \in Locks, AcquireLoop(t, l),
           (pc[t] = "run" /\ l \notin held[t]) \/ (pc[t] = "lock_woken" /\ plock[t] = l),
           sem_count' = sem_count, psem' = psem, pcv' = pcv
    PROVE  M!Next \/ UNCHANGED M!vars
<1>1. pc \in [Threads -> Places] /\ plock \in [Threads -> Locks \cup {NULL}]
  BY Zenon DEF IInv, TypeOK
<1>2. Doing[t] = IF pc[t] = "run" THEN <<>> ELSE <<"acquire", l>>
  BY DoingOf, Zenon
<1>3. CASE lk_holder[l] = NULL
  <2>1. /\ lk_holder' = [lk_holder EXCEPT ![l] = t] /\ pc' = [pc EXCEPT ![t] = "run"]
        /\ plock' = [plock EXCEPT ![t] = NULL]
    BY <1>3, Zenon DEF AcquireLoop
  <2>2. pc'[t] = "run" /\ \A u \in Threads : u # t => pc'[u] = pc[u] /\ plock'[u] = plock[u]
    BY <1>1, <2>1, Zenon
  <2>3. Doing' = [Doing EXCEPT ![t] = <<>>]
    <3>1. Doing'[t] = <<>>
      BY <2>2, DoingOfNext, Zenon
    <3>2. ASSUME NEW u \in Threads, u # t PROVE Doing'[u] = Doing[u]
      BY <2>2, <3>2, DoingStays, Zenon
    <3> QED
      BY <3>1, <3>2, DoingPut, Zenon
  <2>4. M!Acquire(t, l)
    BY <1>2, <1>3, <2>1, <2>3, Zenon DEF M!Acquire
  <2> QED
    BY <2>4, Zenon DEF M!Next
<1>4. CASE lk_holder[l] # NULL
  <2>1. /\ lk_holder' = lk_holder /\ pc' = [pc EXCEPT ![t] = "lock_sleep"]
        /\ plock' = [plock EXCEPT ![t] = l]
    BY <1>4, Zenon DEF AcquireLoop
  <2>2. /\ pc'[t] = "lock_sleep" /\ plock'[t] = l
        /\ \A u \in Threads : u # t => pc'[u] = pc[u] /\ plock'[u] = plock[u]
    BY <1>1, <2>1, Zenon
  <2>3. Doing' = [Doing EXCEPT ![t] = <<"acquire", l>>]
    <3>1. Doing'[t] = <<"acquire", l>>
      BY <2>2, DoingOfNext, Zenon
    <3>2. ASSUME NEW u \in Threads, u # t PROVE Doing'[u] = Doing[u]
      BY <2>2, <3>2, DoingStays, Zenon
    <3> QED
      BY <3>1, <3>2, DoingPut, Zenon
  <2>4. CASE pc[t] = "run"
    <3>1. lk_holder[l] # t
      BY <2>4, Zenon DEF IInv, LockPart, MutualExclusion
    <3>2. M!Block(t)
      BY <1>2, <1>4, <2>1, <2>3, <2>4, <3>1, Zenon DEF M!Block
    <3> QED
      BY <3>2, Zenon DEF M!Next
  <2>5. CASE pc[t] # "run"
    <3>1. Doing' = Doing
      BY <1>2, <2>3, <2>5, DoingIs, Zenon
    <3> QED
      BY <2>1, <3>1, Zenon DEF M!vars
  <2> QED
    BY <2>4, <2>5, Zenon
<1> QED
  BY <1>3, <1>4, Zenon

\* lock_release frees the lock: the thread it wakes is still in lock_acquire.
LEMMA ReleaseRefines ==
    ASSUME IInv, NEW t \in Threads, NEW l \in Locks, lock_release(t, l)
    PROVE  M!Next
<1>1. /\ pc[t] = "run" /\ l \in held[t] /\ Released(t, l, "run")
      /\ sem_count' = sem_count /\ psem' = psem /\ plock' = plock /\ pcv' = pcv
      /\ lk_holder' = [lk_holder EXCEPT ![l] = NULL]
  BY Zenon DEF lock_release, Released, semVars
<1>2. TypeOK /\ LockPart
  BY Zenon DEF IInv
<1>3. /\ pc'[t] = "run"
      /\ \A u \in Threads : u # t =>
            pc'[u] = pc[u] \/ (pc[u] = "lock_sleep" /\ pc'[u] = "lock_woken")
  BY <1>1, <1>2, ReleasedPart, Zenon
<1>4. Doing' = Doing
  <2>1. ASSUME NEW u \in Threads, pc'[u] = pc[u] PROVE Doing'[u] = Doing[u]
    BY <1>1, <2>1, DoingStays, Zenon
  <2>2. ASSUME NEW u \in Threads, pc[u] = "lock_sleep", pc'[u] = "lock_woken"
        PROVE  Doing'[u] = Doing[u]
    <3>1. Doing[u] = <<"acquire", plock[u]>>
      BY <2>2, DoingOf, Zenon
    <3>2. Doing'[u] = <<"acquire", plock'[u]>>
      BY <2>2, DoingOfNext, Zenon
    <3> QED
      BY <1>1, <3>1, <3>2, Zenon
  <2> QED
    BY <1>1, <1>3, <2>1, <2>2, DoingKept, Zenon
<1>5. Doing[t] = <<>> /\ lk_holder[l] = t
  <2>1. Doing[t] = <<>>
    BY <1>1, DoingOf, Zenon
  <2>2. lk_holder[l] = t
    BY <1>1, <1>2, Zenon DEF LockPart, MutualExclusion
  <2> QED
    BY <2>1, <2>2, Zenon
<1>6. M!Release(t, l)
  BY <1>1, <1>4, <1>5, Zenon DEF M!Release
<1> QED
  BY <1>6, Zenon DEF M!Next

\* cv_wait waits from its lock_release on.
LEMMA CvWaitRefines ==
    ASSUME IInv, NEW t \in Threads, NEW v \in CVs, NEW l \in Locks, cv_wait(t, v, l)
    PROVE  M!Next
<1>1. /\ pc[t] = "run" /\ l \in held[t] /\ Released(t, l, "cv_release")
      /\ sem_count' = sem_count /\ psem' = psem
      /\ pcv' = [pcv EXCEPT ![t] = v] /\ plock' = [plock EXCEPT ![t] = l]
      /\ lk_holder' = [lk_holder EXCEPT ![l] = NULL]
  BY Zenon DEF cv_wait, Released, semVars
<1>2. /\ TypeOK /\ LockPart
      /\ pcv \in [Threads -> CVs \cup {NULL}] /\ plock \in [Threads -> Locks \cup {NULL}]
  BY Zenon DEF IInv, TypeOK
<1>3. /\ pcv'[t] = v /\ plock'[t] = l
      /\ \A u \in Threads : u # t => pcv'[u] = pcv[u] /\ plock'[u] = plock[u]
  BY <1>1, <1>2, Zenon
<1>4. /\ pc'[t] = "cv_release"
      /\ \A u \in Threads : u # t =>
            pc'[u] = pc[u] \/ (pc[u] = "lock_sleep" /\ pc'[u] = "lock_woken")
  BY <1>1, <1>2, <1>3, ReleasedPart, Zenon
<1>5. Doing' = [Doing EXCEPT ![t] = <<"wait", v, l>>]
  <2>1. Doing'[t] = <<"wait", v, l>>
    BY <1>3, <1>4, DoingOfNext, Zenon
  <2>2. ASSUME NEW u \in Threads, u # t
        PROVE  Doing'[u] = Doing[u]
    <3>1. psem'[u] = psem[u] /\ plock'[u] = plock[u] /\ pcv'[u] = pcv[u]
      BY <1>1, <1>3, <2>2, Zenon
    <3>2. pc'[u] = pc[u] \/ (pc[u] = "lock_sleep" /\ pc'[u] = "lock_woken")
      BY <1>4, <2>2, Zenon
    <3>3. CASE pc'[u] = pc[u]
      BY <3>1, <3>3, DoingStays, Zenon
    <3>4. CASE pc[u] = "lock_sleep" /\ pc'[u] = "lock_woken"
      <4>1. Doing[u] = <<"acquire", plock[u]>>
        BY <3>4, DoingOf, Zenon
      <4>2. Doing'[u] = <<"acquire", plock'[u]>>
        BY <3>4, DoingOfNext, Zenon
      <4> QED
        BY <3>1, <4>1, <4>2, Zenon
    <3> QED
      BY <3>2, <3>3, <3>4, Zenon
  <2> QED
    BY <2>1, <2>2, DoingPut, Zenon
<1>6. Doing[t] = <<>> /\ lk_holder[l] = t
  <2>1. Doing[t] = <<>>
    BY <1>1, DoingOf, Zenon
  <2>2. lk_holder[l] = t
    BY <1>1, <1>2, Zenon DEF LockPart, MutualExclusion
  <2> QED
    BY <2>1, <2>2, Zenon
<1>7. M!Wait(t, v, l)
  BY <1>1, <1>5, <1>6, Zenon DEF M!Wait
<1> QED
  BY <1>7, Zenon DEF M!Next

\* Going to sleep on the channel, and waking up there, are not visible.
LEMMA CvSleepRefines ==
    ASSUME IInv, NEW t \in Threads, CvSleep(t) \/ CvResume(t)
    PROVE  UNCHANGED M!vars
<1>1. sem_count' = sem_count /\ lk_holder' = lk_holder /\ psem' = psem /\ plock' = plock
  BY Zenon DEF CvSleep, CvResume, semVars, lockVars
<1>2. pc \in [Threads -> Places] /\ pcv \in [Threads -> CVs \cup {NULL}]
  BY Zenon DEF IInv, TypeOK
<1>3. \A u \in Threads : u # t => pc'[u] = pc[u] /\ pcv'[u] = pcv[u]
  <2>1. CASE CvSleep(t)
    BY <1>2, <2>1, Zenon DEF CvSleep
  <2>2. CASE CvResume(t)
    BY <1>2, <2>2, Zenon DEF CvResume
  <2> QED
    BY <2>1, <2>2, Zenon
<1>4. \/ pc[t] = "cv_release" /\ pc'[t] = "cv_sleep" /\ pcv'[t] = pcv[t]
      \/ pc[t] = "cv_woken" /\ pc'[t] = "lock_woken"
  <2>1. CASE CvSleep(t)
    BY <1>2, <2>1, Zenon DEF CvSleep
  <2>2. CASE CvResume(t)
    BY <1>2, <2>2, Zenon DEF CvResume
  <2> QED
    BY <2>1, <2>2, Zenon
<1>5. Doing'[t] = Doing[t]
  <2>1. CASE pc[t] = "cv_release" /\ pc'[t] = "cv_sleep" /\ pcv'[t] = pcv[t]
    <3>1. Doing[t] = <<"wait", pcv[t], plock[t]>>
      BY <2>1, DoingOf, Zenon
    <3>2. Doing'[t] = <<"wait", pcv'[t], plock'[t]>>
      BY <2>1, DoingOfNext, Zenon
    <3> QED
      BY <1>1, <2>1, <3>1, <3>2, Zenon
  <2>2. CASE pc[t] = "cv_woken" /\ pc'[t] = "lock_woken"
    <3>1. Doing[t] = <<"acquire", plock[t]>>
      BY <2>2, DoingOf, Zenon
    <3>2. Doing'[t] = <<"acquire", plock'[t]>>
      BY <2>2, DoingOfNext, Zenon
    <3> QED
      BY <1>1, <3>1, <3>2, Zenon
  <2> QED
    BY <1>4, <2>1, <2>2, Zenon
<1>6. Doing' = Doing
  <2>1. ASSUME NEW u \in Threads, u # t PROVE Doing'[u] = Doing[u]
    BY <1>1, <1>3, <2>1, DoingStays, Zenon
  <2> QED
    BY <1>5, <2>1, DoingKept, Zenon
<1> QED
  BY <1>1, <1>6, Zenon DEF M!vars

\* cv_signal ends the wait of one thread, if any waits on a channel.
LEMMA CvSignalRefines ==
    ASSUME IInv, NEW t \in Threads, NEW v \in CVs, cv_signal(t, v)
    PROVE  M!Next \/ UNCHANGED M!vars
<1>1. /\ pc' = IF cv_wchan[v] = <<>> THEN pc ELSE [pc EXCEPT ![Head(cv_wchan[v])] = "cv_woken"]
      /\ sem_count' = sem_count /\ lk_holder' = lk_holder
      /\ psem' = psem /\ plock' = plock /\ pcv' = pcv
  BY Zenon DEF cv_signal, WakeOne, semVars, lockVars
<1>2. /\ pc \in [Threads -> Places] /\ cv_wchan[v] \in Seq(Threads)
      /\ IsInjectiveSeq(cv_wchan[v]) /\ TypeOK /\ Locals
  BY Zenon DEF IInv, TypeOK, CvPart, CvChannels
<1>3. CASE cv_wchan[v] = <<>>
  <2>1. Doing' = Doing
    BY <1>1, <1>3, DoingStays, DoingKept, Zenon
  <2> QED
    BY <1>1, <2>1, Zenon DEF M!vars
<1>4. CASE cv_wchan[v] # <<>>
  <2>1. PICK h \in Threads : h = Head(cv_wchan[v]) /\ OnChannel(cv_wchan[v], h)
    BY <1>2, <1>4, RemHeadChannel, Zenon
  <2>2. pc[h] = "cv_sleep" /\ pcv[h] = v /\ pc' = [pc EXCEPT ![h] = "cv_woken"]
    BY <1>1, <1>4, <2>1, Zenon DEF IInv, CvPart, CvChannels
  <2>3. pc'[h] = "cv_woken" /\ \A u \in Threads : u # h => pc'[u] = pc[u]
    BY <1>2, <2>2, Zenon
  <2>4. h \in M!Waiters(v)
    BY <1>2, <2>2, WaitersAre, Zenon
  <2>5. Doing[h] = <<"wait", v, plock[h]>>
    BY <2>2, DoingOf, Zenon
  <2>6. Doing' = [u \in Threads |-> IF u \in {h} THEN <<"acquire", Doing[u][3]>> ELSE Doing[u]]
    <3>1. Doing'[h] = <<"acquire", plock'[h]>>
      BY <2>3, DoingOfNext, Zenon
    <3>2. Doing'[h] = <<"acquire", Doing[h][3]>>
      BY <1>1, <2>5, <3>1
    <3>3. ASSUME NEW u \in Threads, u # h PROVE Doing'[u] = Doing[u]
      BY <1>1, <2>3, <3>3, DoingStays, Zenon
    <3>4. Doing' = [u \in Threads |-> Doing'[u]]
      BY DoingIs, Zenon
    <3> QED
      BY <3>2, <3>3, <3>4, Zenon
  <2>7. M!Wake({h})
    BY <1>1, <2>6, Zenon DEF M!Wake
  <2>8. M!Signal(v)
    BY <2>4, <2>7, Zenon DEF M!Signal
  <2> QED
    BY <2>8, Zenon DEF M!Next
<1> QED
  BY <1>3, <1>4, Zenon

\* cv_broadcast ends the wait of every thread: with cv_wchanlock free, nobody is
\* between lock_release and the channel.
LEMMA CvBroadcastRefines ==
    ASSUME IInv, NEW t \in Threads, NEW v \in CVs, cv_broadcast(t, v)
    PROVE  M!Next
<1>1. /\ pc' = [u \in Threads |-> IF OnChannel(cv_wchan[v], u) THEN "cv_woken" ELSE pc[u]]
      /\ sem_count' = sem_count /\ lk_holder' = lk_holder /\ cv_wchanlock[v] = NULL
      /\ psem' = psem /\ plock' = plock /\ pcv' = pcv
  BY Zenon DEF cv_broadcast, OnChannel, semVars, lockVars
<1>2. TypeOK /\ Locals /\ \A u \in Threads :
         OnChannel(cv_wchan[v], u) <=> pc[u] = "cv_sleep" /\ pcv[u] = v
  BY Zenon DEF IInv, CvPart, CvChannels
<1>3. \A u \in Threads : pc[u] = "cv_release" => pcv[u] # v
  BY <1>1, NullAssumption, Zenon DEF IInv, CvPart, WaitLocked
<1>4. M!Waiters(v) = {u \in Threads : pc[u] = "cv_sleep" /\ pcv[u] = v}
  BY <1>2, <1>3, WaitersAre, Zenon
<1>5. ASSUME NEW u \in Threads
      PROVE  Doing'[u] = IF u \in M!Waiters(v) THEN <<"acquire", Doing[u][3]>> ELSE Doing[u]
  <2>1. CASE u \in M!Waiters(v)
    <3>1. pc[u] = "cv_sleep" /\ pcv[u] = v /\ pc'[u] = "cv_woken"
      BY <1>1, <1>2, <1>4, <2>1, Zenon
    <3>2. Doing[u] = <<"wait", v, plock[u]>> /\ Doing'[u] = <<"acquire", plock[u]>>
      <4>1. Doing[u] = <<"wait", pcv[u], plock[u]>>
        BY <3>1, DoingOf, Zenon
      <4>2. Doing'[u] = <<"acquire", plock'[u]>>
        BY <3>1, DoingOfNext, Zenon
      <4> QED
        BY <1>1, <3>1, <4>1, <4>2, Zenon
    <3> QED
      BY <2>1, <3>2
  <2>2. CASE u \notin M!Waiters(v)
    <3>1. pc'[u] = pc[u]
      BY <1>1, <1>2, <1>4, <2>2, Zenon
    <3>2. Doing'[u] = Doing[u]
      BY <1>1, <3>1, DoingStays, Zenon
    <3> QED
      BY <2>2, <3>2, Zenon
  <2> QED
    BY <2>1, <2>2, Zenon
<1>6. Doing' = [u \in Threads |->
                   IF u \in M!Waiters(v) THEN <<"acquire", Doing[u][3]>> ELSE Doing[u]]
  <2>1. Doing' = [u \in Threads |-> Doing'[u]]
    BY DoingIs, Zenon
  <2> QED
    BY <1>5, <2>1, Zenon
<1>7. M!Wake(M!Waiters(v))
  BY <1>1, <1>6, Zenon DEF M!Wake
<1>8. M!Broadcast(v)
  BY <1>7, Zenon DEF M!Broadcast
<1> QED
  BY <1>8, Zenon DEF M!Next

\* Every step of synch.c is a step of the monitor or is not visible in it.
LEMMA NextRefines == IInv /\ [Next]_vars => [M!Next]_(M!vars)
<1> SUFFICES ASSUME IInv, [Next]_vars PROVE M!Next \/ UNCHANGED M!vars
  BY Zenon
<1>1. ASSUME NEW t \in Threads, NEW s \in Sems, P(t, s) PROVE M!Next \/ UNCHANGED M!vars
  BY <1>1, PLoopRefines, Zenon DEF P, lockVars
<1>2. ASSUME NEW t \in Threads, PResume(t) PROVE M!Next \/ UNCHANGED M!vars
  <2>1. psem[t] \in Sems
    BY <1>2, Zenon DEF PResume, IInv, Locals
  <2> QED
    BY <1>2, <2>1, PLoopRefines, Zenon DEF PResume, lockVars
<1>3. ASSUME NEW t \in Threads, NEW l \in Locks, lock_acquire(t, l)
      PROVE  M!Next \/ UNCHANGED M!vars
  BY <1>3, AcquireRefines, Zenon DEF lock_acquire, semVars
<1>4. ASSUME NEW t \in Threads, AcquireResume(t) PROVE M!Next \/ UNCHANGED M!vars
  <2>1. plock[t] \in Locks
    BY <1>4, Zenon DEF AcquireResume, IInv, Locals
  <2> QED
    BY <1>4, <2>1, AcquireRefines, Zenon DEF AcquireResume, semVars
<1>5. CASE UNCHANGED vars
  <2>1. /\ sem_count' = sem_count /\ lk_holder' = lk_holder /\ pc' = pc
        /\ psem' = psem /\ plock' = plock /\ pcv' = pcv
    BY <1>5, Zenon DEF vars, semVars, lockVars, cvVars
  <2> QED
    BY <2>1, DoingStays, DoingKept, Zenon DEF M!vars
<1> QED
  BY <1>1, <1>2, <1>3, <1>4, <1>5, VRefines, ReleaseRefines, CvWaitRefines, CvSignalRefines,
     CvBroadcastRefines, CvSleepRefines, Zenon DEF Next

\* The inductive invariant gives NoLostWakeup, ChannelsSound and MutualExclusion.
LEMMA IInvSound == IInv => NoLostWakeup /\ ChannelsSound /\ MutualExclusion
<1> SUFFICES ASSUME IInv PROVE NoLostWakeup /\ ChannelsSound /\ MutualExclusion
  BY Zenon
<1>1. CvNoLostWakeup
  <2> SUFFICES ASSUME NEW t \in Threads, NEW v \in CVs, pc[t] \in {"cv_release", "cv_sleep"},
                      pcv[t] = v, cv_wchanlock[v] = NULL
               PROVE  OnChannel(cv_wchan[v], t)
    BY Zenon DEF CvNoLostWakeup
  <2>1. pc[t] # "cv_release"
    BY NullAssumption, Zenon DEF IInv, CvPart, WaitLocked
  <2> QED
    BY <2>1, Zenon DEF IInv, CvPart, CvChannels
<1>2. ChannelsSound
  BY Zenon DEF IInv, SemPart, SemChannels, LockPart, LockChannels, CvPart, CvChannels, ChannelsSound
<1> QED
  BY <1>1, <1>2, Zenon DEF IInv, SemPart, LockPart, NoLostWakeup

\* synch.c loses no wakeup, for any number of threads, semaphores, locks and
\* condition variables: a unit of a semaphore with sleepers has a woken thread for
\* it, a free lock with sleepers has a woken thread, and a thread that has begun
\* to wait in cv_wait is on the channel before anyone can signal it.
THEOREM NoWakeupLost == Spec => []NoLostWakeup
BY SpecIInv, IInvSound, PTL

\* The wait channels of synch.c hold exactly the threads that sleep on them, each
\* once.
THEOREM ChannelsHoldSleepers == Spec => []ChannelsSound
BY SpecIInv, IInvSound, PTL

\* A lock has the one holder that lock_acquire gave it to, and it is the thread
\* that has not released it since.
THEOREM LocksExclude == Spec => []MutualExclusion
BY SpecIInv, IInvSound, PTL

\* The semaphores, locks and condition variables of synch.c, with their wait
\* channels, spinlocks and retries, implement the atomic ones of Monitor.
THEOREM SynchImplementsMonitor == Spec => ImplementsMonitor
<1>1. Init => M!Init
  <2> SUFFICES ASSUME Init PROVE M!Init
    BY Zenon
  <2>1. \A t \in Threads : pc[t] = "run"
    BY Zenon DEF Init
  <2>2. Doing = [t \in Threads |-> <<>>]
    BY <2>1, DoingOf, DoingIs, Zenon
  <2> QED
    BY <2>2, Zenon DEF Init, M!Init
<1> QED
  BY <1>1, NextRefines, SpecIInv, PTL DEF Spec, ImplementsMonitor, M!Spec
=============================================================================

------------------------------ MODULE ProcSteps ------------------------------
(***************************************************************************)
(* The steps of Proc preserve the inductive invariant, for every table     *)
(* size, pid range and set of processes: one lemma per action.             *)
(***************************************************************************)
EXTENDS Proc, TLAPS

\* The hash of a pid is a slot (pid % PROCS_MAX in pi_get, pi_put, pi_drop).
LEMMA SlotType == ASSUME NEW pid \in Nat PROVE Slot(pid) \in Slots
  BY SizeAssumption DEF Slot, Slots

\* inc_nextpid keeps a candidate between PID_MIN and PID_MAX, as often as
\* pid_alloc's loop may call it.
LEMMA AdvanceType ==
    ASSUME NEW pid \in PID_MIN .. PID_MAX, NEW k \in 0 .. MaxLoops
    PROVE  Advance(pid, k) \in PID_MIN .. PID_MAX
  BY SizeAssumption DEF Advance, MaxLoops, PID_MIN

\* The facts about counting that the proofs below use: how many slots a set
\* has after one is filled or some are emptied, and that a loop which stops at
\* all stops a first time. ProcProofs proves them from the library; they are
\* hypotheses here so that the library stays out of these proofs.
Counting ==
    /\ Cardinality(Slots) = PROCS_MAX
    /\ \A s \in Slots : Cardinality({s}) = 1
    /\ \A S \in SUBSET Slots : Cardinality(S) \in Nat
    /\ \A S \in SUBSET Slots : \A s \in Slots \ S :
          Cardinality(S \cup {s}) = Cardinality(S) + 1
    /\ \A S \in SUBSET Slots : \A s \in S :
          Cardinality(S \ {s}) = Cardinality(S) - 1
    /\ \A S \in SUBSET Slots : \A T \in SUBSET S :
          Cardinality(S \ T) = Cardinality(S) - Cardinality(T)
    /\ \A S \in SUBSET Nat : S # {} => \E k \in S : \A j \in S : k <= j

\* Pids are natural numbers.
LEMMA PidsNat == ASSUME NEW pid \in Pids PROVE pid \in Nat
  BY DEF Pids

\* The loop of pid_alloc stops at a candidate whose slot is empty.
LEMMA CandidateType ==
    ASSUME Counting, nextpid \in PID_MIN .. PID_MAX, Stops # {}
    PROVE  /\ Candidate \in PID_MIN .. PID_MAX
           /\ Candidate \in Pids
           /\ pidinfo[Slot(Candidate)] = NULL
           /\ Advance(Candidate, 1) \in PID_MIN .. PID_MAX
<1>1. Stops \in SUBSET Nat
  BY SizeAssumption DEF Stops, MaxLoops
<1>3. \E k \in Stops : \A j \in Stops : k <= j
  BY <1>1, Zenon DEF Counting
<1>4. PICK m \in Stops : Candidate = Advance(nextpid, m)
  BY <1>3, Zenon DEF Candidate
<1>5. /\ m \in 0 .. MaxLoops
      /\ pidinfo[Slot(Candidate)] = NULL
  BY <1>4, Zenon DEF Stops
<1>6. Candidate \in PID_MIN .. PID_MAX
  BY <1>4, <1>5, AdvanceType, Zenon
<1>7. 1 \in 0 .. MaxLoops
  BY SizeAssumption DEF MaxLoops
<1> QED
  BY <1>5, <1>6, <1>7, AdvanceType, SizeAssumption DEF Pids, PID_MIN

\* From any pid, one of the next PROCS_MAX pids hashes to a given slot.
LEMMA SlotReached ==
    ASSUME NEW n \in Nat, NEW s \in Slots
    PROVE  \E k \in 0 .. PROCS_MAX - 1 : Slot(n + k) = s
<1> DEFINE r == n % PROCS_MAX
           d == n \div PROCS_MAX
<1> HIDE DEF r, d
<1>1. /\ r \in 0 .. PROCS_MAX - 1
      /\ d \in Nat
      /\ n = PROCS_MAX * d + r
  BY SizeAssumption DEF r, d
<1>2. ASSUME NEW q \in Nat PROVE (PROCS_MAX * q + s) % PROCS_MAX = s
  BY SizeAssumption DEF Slots
<1>3. CASE r <= s
  <2>1. n + (s - r) = PROCS_MAX * d + s
    BY <1>1, SizeAssumption DEF Slots
  <2>2. s - r \in 0 .. PROCS_MAX - 1
    BY <1>1, <1>3, SizeAssumption DEF Slots
  <2>3. Slot(n + (s - r)) = s
    BY <1>1, <1>2, <2>1, Zenon DEF Slot
  <2> QED
    BY <2>2, <2>3, Zenon
<1>4. CASE s < r
  <2>1. n + (s - r + PROCS_MAX) = PROCS_MAX * (d + 1) + s
    BY <1>1, SizeAssumption DEF Slots
  <2>2. s - r + PROCS_MAX \in 0 .. PROCS_MAX - 1
    BY <1>1, <1>4, SizeAssumption DEF Slots
  <2>3. /\ d + 1 \in Nat
        /\ Slot(n + (s - r + PROCS_MAX)) = s
    BY <1>1, <1>2, <2>1 DEF Slot
  <2> QED
    BY <2>2, <2>3, Zenon
<1> QED
  BY <1>1, <1>3, <1>4, SizeAssumption DEF Slots

\* While a slot is free the loop of pid_alloc stops in time, so its KASSERT
\* holds: the next PROCS_MAX candidates before the wraparound, or else those
\* after it, cover every slot.
LEMMA LoopStops ==
    ASSUME nextpid \in PID_MIN .. PID_MAX,
           NEW s \in Slots, pidinfo[s] = NULL
    PROVE  Stops # {}
<1>1. nextpid \in Nat
  BY DEF PID_MIN
<1>2. CASE nextpid + PROCS_MAX - 1 <= PID_MAX
  <2>1. PICK k \in 0 .. PROCS_MAX - 1 : Slot(nextpid + k) = s
    BY <1>1, SlotReached, Zenon
  <2>2. k \in 0 .. MaxLoops /\ Advance(nextpid, k) = nextpid + k
    BY <1>1, <1>2, SizeAssumption DEF MaxLoops, Advance
  <2> QED
    BY <2>1, <2>2, Zenon DEF Stops
<1>3. CASE nextpid + PROCS_MAX - 1 > PID_MAX
  <2>1. PICK j \in 0 .. PROCS_MAX - 1 : Slot(PID_MIN + j) = s
    BY SlotReached, Zenon DEF PID_MIN
  <2> DEFINE k == PID_MAX - nextpid + 1 + j
  <2>2. k \in 0 .. MaxLoops /\ Advance(nextpid, k) = PID_MIN + j
    BY <1>1, <1>3, SizeAssumption DEF MaxLoops, Advance, PID_MIN
  <2> QED
    BY <2>1, <2>2, Zenon DEF Stops
<1> QED
  BY <1>1, <1>2, <1>3, SizeAssumption

\* What pid_wait has found when it sleeps or collects.
LEMMA WaitCheck ==
    ASSUME NEW p \in Procs, NEW q \in Pids, TypeOK,
           pid_wait_check(p, q) \in {"sleep", "collect"}
    PROVE  /\ pi_get(pidinfo, q) # NULL
           /\ pi_get(pidinfo, q).pi_ppid = p_pid[p]
           /\ pi_get(pidinfo, q).pi_exited <=> pid_wait_check(p, q) = "collect"
<1> DEFINE them == pi_get(pidinfo, q)
<1>1. p_pid[p] \in Nat /\ q \in Nat
  BY DEF TypeOK, Pids
<1> HIDE DEF them
<1> QED
  BY <1>1 DEF pid_wait_check, them, INVALID_PID

----------------------------------------------------------------------------

\* The state proc_bootstrap and pid_bootstrap set up satisfies the invariant.
LEMMA InitIInv == Counting /\ Init => IInv
<1> SUFFICES ASSUME Counting, Init PROVE IInv
  BY Zenon
<1>1. KERNEL_PID \in Slots /\ Slot(KERNEL_PID) = KERNEL_PID
  BY SizeAssumption DEF KERNEL_PID, Slots, Slot
<1> USE SizeAssumption, ProcsAssumption, NullAssumption DEF Init, pid_bootstrap
<1> DEFINE kinfo == pidinfo_create(KERNEL_PID, INVALID_PID, kproc)
<1>2. kinfo \in PidInfo /\ kinfo # NULL
  <2>1. KERNEL_PID \in Pids /\ INVALID_PID \in Pids
    BY DEF KERNEL_PID, INVALID_PID, Pids, PID_MIN
  <2>2. kinfo \in PidInfo
    BY <2>1, Zenon DEF pidinfo_create, PidInfo
  <2> QED
    BY <2>2, Zenon
<1>3. /\ pidinfo \in [Slots -> PidInfo \cup {NULL}]
      /\ pidinfo[KERNEL_PID] = kinfo
      /\ Used(pidinfo) = {KERNEL_PID}
  BY <1>1, <1>2, Zenon DEF Used
<1>4. /\ kinfo.pi_pid = KERNEL_PID
      /\ kinfo.pi_ppid = INVALID_PID
      /\ kinfo.pi_proc = kproc
      /\ ~kinfo.pi_exited
  BY Zenon DEF pidinfo_create
<1> HIDE DEF kinfo
<1>5. TypeOK
  <2>1. /\ nextpid \in PID_MIN .. PID_MAX
        /\ nprocs \in Int
        /\ KERNEL_PID \in Pids
        /\ INVALID_PID \in Pids
    BY DEF KERNEL_PID, INVALID_PID, Pids, PID_MIN
  <2>2. panic \in BOOLEAN
    BY Zenon
  <2>3. pc \in [Procs -> Places]
    BY Zenon DEF Places
  <2> QED
    BY <1>3, <2>1, <2>2, <2>3, Zenon DEF TypeOK
<1>6. TableConsistent
  BY <1>1, <1>3, <1>4, Zenon DEF TableConsistent, Counting
<1>7. EntryPids /\ ParentsLive
  <2>1. EntryPids
    BY <1>3, <1>4 DEF EntryPids, KERNEL_PID, INVALID_PID
  <2>2. ParentsLive
    BY <1>3, <1>4, Zenon DEF ParentsLive
  <2> QED
    BY <2>1, <2>2, Zenon
<1>8. PidOwned
  BY <1>1, <1>2, <1>3, <1>4, Zenon DEF PidOwned, Live, pi_get
<1>10. EntriesOwned
  BY <1>3, <1>4, Zenon DEF EntriesOwned, Live
<1>9. KidsComplete
  BY <1>3, <1>4 DEF KidsComplete, Live, KERNEL_PID, INVALID_PID
<1> QED
  BY <1>5, <1>6, <1>7, <1>8, <1>9, <1>10, Zenon
     DEF IInv, NoPanic, WaitSound, ForkSound, KidsSound, EmbryoChildless

\* pid_wait on a running child, up to cv_wait, preserves the invariant.
LEMMA WaitSleepIInv ==
    ASSUME IInv, NEW p \in Procs, NEW theirpid \in Pids, WaitSleep(p, theirpid)
    PROVE  IInv'
<1> USE DEF WaitSleep, pidVars
<1>1. TypeOK'
  BY Zenon DEF IInv, TypeOK, Places
<1>2. (NoPanic /\ TableConsistent /\ EntryPids)'
  BY Zenon DEF IInv, NoPanic, TableConsistent, EntryPids, Used
<1>3. \A q \in Procs : Live(q)' = Live(q)
  BY DEF Live, IInv, TypeOK
<1>4. (PidOwned /\ ParentsLive /\ EntriesOwned)'
  <2>1. \A i \in Used(pidinfo) : pidinfo[i].pi_proc \in Procs
    BY Zenon DEF Used, IInv, TypeOK, PidInfo
  <2> QED
    BY <1>3, <2>1, Zenon DEF IInv, PidOwned, ParentsLive, EntriesOwned, Used, pi_get
<1>5. WaitSound'
  BY WaitCheck DEF IInv, WaitSound, TypeOK, pi_get
<1>6. ForkSound'
  BY Zenon DEF IInv, ForkSound, TypeOK, pi_get
<1>7. EmbryoChildless'
  BY Zenon DEF IInv, EmbryoChildless, TypeOK, Used
<1>8. KidsSound'
  BY <1>3 DEF IInv, KidsSound, TypeOK, pi_get
<1>9. KidsComplete'
  BY <1>3 DEF IInv, KidsComplete, TypeOK, Used
<1> QED
  BY <1>1, <1>2, <1>4, <1>5, <1>6, <1>7, <1>8, <1>9, Zenon DEF IInv

\* The end of sys_fork, when the child starts to run.
LEMMA ForkDoneIInv ==
    ASSUME IInv, NEW p \in Procs, ForkDone(p)
    PROVE  IInv'
<1> USE DEF ForkDone, pidVars
<1> DEFINE c == child[p]
<1>0. /\ c \in Procs
      /\ c # p
      /\ pc[c] = "embryo"
      /\ p_pid[c] \in Pids
      /\ pi_get(pidinfo, p_pid[c]) # NULL
      /\ pi_get(pidinfo, p_pid[c]).pi_ppid = p_pid[p]
      /\ pi_get(pidinfo, p_pid[c]).pi_pid = p_pid[c]
      /\ pi_get(pidinfo, p_pid[c]).pi_proc = c
  BY Zenon DEF IInv, ForkSound, PidOwned, Live, TypeOK, pi_get
<1>1. TypeOK'
  BY <1>0, ProcsAssumption, Zenon DEF IInv, TypeOK, Places
<1>2. (NoPanic /\ TableConsistent /\ EntryPids)'
  BY Zenon DEF IInv, NoPanic, TableConsistent, EntryPids, Used
<1>3. \A q \in Procs : Live(q)' = Live(q)
  BY <1>0 DEF Live, IInv, TypeOK
<1>4. (PidOwned /\ ParentsLive /\ EntriesOwned)'
  <2>1. \A i \in Used(pidinfo) : pidinfo[i].pi_proc \in Procs
    BY Zenon DEF Used, IInv, TypeOK, PidInfo
  <2> QED
    BY <1>3, <2>1, Zenon DEF IInv, PidOwned, ParentsLive, EntriesOwned, Used, pi_get
<1>5. WaitSound'
  BY <1>0, ZenonT(30) DEF IInv, WaitSound, TypeOK, pi_get
<1>6. ForkSound'
  <2> SUFFICES ASSUME NEW q \in Procs, q # p, pc[q] = "fork"
               PROVE  /\ child[q] \in Procs
                      /\ child[q] # c
                      /\ pc[child[q]] = "embryo"
                      /\ pi_get(pidinfo, p_pid[child[q]]).pi_ppid = p_pid[q]
    BY <1>0, Zenon DEF ForkSound, IInv, TypeOK, pi_get
  <2>1. p_pid[p] # p_pid[q]
    BY Zenon DEF IInv, PidOwned, Live
  <2> QED
    BY <1>0, <2>1, Zenon DEF IInv, ForkSound
<1>7. EmbryoChildless'
  BY <1>0, Zenon DEF IInv, EmbryoChildless, TypeOK, Used
<1>8. KidsSound'
  <2> SUFFICES ASSUME NEW q \in Procs, NEW k \in kids'[q]
               PROVE  (/\ Live(q)
                       /\ pi_get(pidinfo, k) # NULL
                       /\ pi_get(pidinfo, k).pi_ppid = p_pid[q]
                       /\ pc[pi_get(pidinfo, k).pi_proc] # "embryo")'
    BY Zenon DEF KidsSound
  <2>0. pidinfo' = pidinfo /\ p_pid' = p_pid
    BY Zenon
  <2>1. CASE k \in kids[q]
    <3>1. /\ k \in Pids
          /\ Live(q)
          /\ pi_get(pidinfo, k) # NULL
          /\ pi_get(pidinfo, k).pi_ppid = p_pid[q]
          /\ pc[pi_get(pidinfo, k).pi_proc] # "embryo"
      BY <2>1, Zenon DEF IInv, TypeOK, KidsSound
    <3>2. pi_get(pidinfo, k).pi_proc \in Procs
      BY <3>1, PidsNat, SlotType, Zenon DEF IInv, TypeOK, PidInfo, pi_get
    <3>3. pc'[pi_get(pidinfo, k).pi_proc] # "embryo"
      BY <1>0, <3>1, <3>2, Zenon DEF IInv, TypeOK
    <3> QED
      BY <1>3, <2>0, <3>1, <3>3, Zenon DEF pi_get
  <2>2. CASE q = p /\ k = p_pid[c]
    <3>1. Live(p) /\ pc'[c] # "embryo"
      BY <1>0, Zenon DEF Live, IInv, TypeOK
    <3> QED
      BY <1>0, <1>3, <2>0, <2>2, <3>1, Zenon DEF pi_get
  <2> QED
    BY <2>1, <2>2, Zenon DEF IInv, TypeOK
<1>9. KidsComplete'
  <2> SUFFICES ASSUME NEW i \in Used(pidinfo), NEW q \in Procs, Live(q),
                      pidinfo[i].pi_ppid = p_pid[q]
               PROVE  \/ pidinfo[i].pi_pid \in kids'[q]
                      \/ /\ pc'[q] = "fork"
                         /\ p_pid[child'[q]] = pidinfo[i].pi_pid
    BY <1>3, ZenonT(30) DEF KidsComplete, Used
  <2>1. CASE q # p
    BY <1>0, <2>1, Zenon DEF IInv, KidsComplete, TypeOK, Live
  <2> QED
    BY <1>0, <2>1 DEF IInv, KidsComplete, TypeOK
<1> QED
  BY <1>1, <1>2, <1>4, <1>5, <1>6, <1>7, <1>8, <1>9, Zenon DEF IInv

\* proc_destroy of a process that gave its pid up in pid_setexitstatus.
LEMMA DestroyIInv ==
    ASSUME IInv, NEW p \in Procs, Destroy(p)
    PROVE  IInv'
<1> USE DEF Destroy
<1>0. p_pid[p] = INVALID_PID
  BY Zenon DEF IInv, PidOwned, Live
<1>1. TypeOK'
  BY <1>0, Zenon DEF IInv, TypeOK, Places
<1>2. (NoPanic /\ TableConsistent /\ EntryPids)'
  BY <1>0, Zenon DEF IInv, NoPanic, TableConsistent, EntryPids, Used
<1>3. \A q \in Procs : Live(q)' = Live(q)
  BY DEF Live, IInv, TypeOK
<1>4. (PidOwned /\ ParentsLive /\ EntriesOwned)'
  <2>1. \A i \in Used(pidinfo) : pidinfo[i].pi_proc \in Procs
    BY Zenon DEF Used, IInv, TypeOK, PidInfo
  <2> QED
    BY <1>3, <2>1, Zenon DEF IInv, PidOwned, ParentsLive, EntriesOwned, Used, pi_get
<1>5. WaitSound'
  BY Zenon DEF IInv, WaitSound, TypeOK, pi_get
<1>6. ForkSound'
  BY Zenon DEF IInv, ForkSound, TypeOK, pi_get
<1>7. EmbryoChildless'
  BY Zenon DEF IInv, EmbryoChildless, TypeOK, Used
<1>8. KidsSound'
  BY <1>3 DEF IInv, KidsSound, TypeOK, pi_get
<1>9. KidsComplete'
  BY <1>3 DEF IInv, KidsComplete, TypeOK, Used
<1> QED
  BY <1>1, <1>2, <1>4, <1>5, <1>6, <1>7, <1>8, <1>9, Zenon DEF IInv

\* Two live processes never have the same pid.
LEMMA UniquePids ==
    ASSUME IInv, NEW p \in Procs, NEW q \in Procs, Live(p), Live(q),
           p_pid[p] = p_pid[q]
    PROVE  p = q
  BY Zenon DEF IInv, PidOwned

\* pi_drop on the entry of pid q: other pids are still found, and the count
\* of used slots goes down by one.
LEMMA DropEntry ==
    ASSUME Counting, TypeOK, NEW q \in Pids, pi_get(pidinfo, q) # NULL,
           pidinfo' = [pidinfo EXCEPT ![Slot(q)] = NULL],
           TableConsistent
    PROVE  /\ pidinfo' \in [Slots -> PidInfo \cup {NULL}]
           /\ Used(pidinfo') = Used(pidinfo) \ {Slot(q)}
           /\ Cardinality(Used(pidinfo')) = nprocs - 1
           /\ \A i \in Used(pidinfo') : /\ pidinfo'[i] = pidinfo[i]
                                        /\ pidinfo[i].pi_pid # q
           /\ \A k \in Pids : k # q /\ pi_get(pidinfo, k) # NULL =>
                                  pi_get(pidinfo', k) = pi_get(pidinfo, k)
<1>1. Slot(q) \in Used(pidinfo) /\ pidinfo[Slot(q)].pi_pid = q
  BY PidsNat, SlotType, Zenon DEF Used, pi_get
<1>2. pidinfo' \in [Slots -> PidInfo \cup {NULL}]
  BY Zenon DEF TypeOK
<1>3. Used(pidinfo') = Used(pidinfo) \ {Slot(q)}
  BY <1>1, Zenon DEF TypeOK, Used
<1>4. Used(pidinfo) \in SUBSET Slots
  BY Zenon DEF Used
<1>5. Cardinality(Used(pidinfo')) = nprocs - 1
  BY <1>1, <1>3, <1>4, Zenon DEF TableConsistent, Counting
<1>6. \A i \in Used(pidinfo') : pidinfo'[i] = pidinfo[i] /\ pidinfo[i].pi_pid # q
  BY <1>1, <1>3, Zenon DEF TypeOK, Used, TableConsistent
<1>7. ASSUME NEW k \in Pids, k # q, pi_get(pidinfo, k) # NULL
      PROVE  pi_get(pidinfo', k) = pi_get(pidinfo, k)
  BY <1>1, <1>7, PidsNat, SlotType, Zenon DEF TypeOK, pi_get
<1> QED
  BY <1>2, <1>3, <1>5, <1>6, <1>7, Zenon

\* Freeing the entry q of an exited child of p, which then forgets q: what
\* pid_wait and, for a zombie, pid_disown do.
Collect(p, q) ==
    /\ pc[p] \in {"user", "woken"}
    /\ pc[p] = "woken" => wpid[p] = q
    /\ pi_get(pidinfo, q) # NULL
    /\ pi_get(pidinfo, q).pi_exited
    /\ pi_get(pidinfo, q).pi_ppid = p_pid[p]
    /\ pidinfo' = [pidinfo EXCEPT ![Slot(q)] = NULL]
    /\ nprocs' = nprocs - 1
    /\ UNCHANGED <<nextpid, p_pid, panic, child, exitcode>>
    /\ kids' = [kids EXCEPT ![p] = @ \ {q}]
    /\ pc' = [pc EXCEPT ![p] = "user"]
    /\ wpid' \in [Procs -> Pids]
    /\ \A r \in Procs \ {p} : wpid'[r] = wpid[r]
    /\ got' \in [Procs -> Status \cup {NoStatus}]

\* Such a step preserves the invariant.
LEMMA CollectIInv ==
    ASSUME Counting, IInv, NEW p \in Procs, NEW q \in Pids, Collect(p, q)
    PROVE  IInv'
<1>a. /\ pi_get(pidinfo, q) # NULL
      /\ pi_get(pidinfo, q).pi_exited
      /\ pi_get(pidinfo, q).pi_ppid = p_pid[p]
  BY Zenon DEF Collect
<1>b. pidinfo' \in [Slots -> PidInfo \cup {NULL}]
  BY DropEntry, Zenon DEF IInv, Collect
<1>c. Used(pidinfo') = Used(pidinfo) \ {Slot(q)}
  BY DropEntry, Zenon DEF IInv, Collect
<1>d. Cardinality(Used(pidinfo')) = nprocs - 1
  BY DropEntry, Zenon DEF IInv, Collect
<1>e. \A i \in Used(pidinfo') : pidinfo'[i] = pidinfo[i] /\ pidinfo[i].pi_pid # q
  BY DropEntry, Zenon DEF IInv, Collect
<1>f. \A k \in Pids : k # q /\ pi_get(pidinfo, k) # NULL =>
                            pi_get(pidinfo', k) = pi_get(pidinfo, k)
  BY DropEntry, Zenon DEF IInv, Collect
<1>g. p_pid' = p_pid /\ child' = child /\ nprocs' = nprocs - 1
  BY Zenon DEF Collect
<1>h. /\ \A r \in Procs : pc'[r] = IF r = p THEN "user" ELSE pc[r]
      /\ \A r \in Procs : kids'[r] = IF r = p THEN kids[r] \ {q} ELSE kids[r]
      /\ pc[p] \in {"user", "woken"}
  BY Zenon DEF Collect, IInv, TypeOK
<1>1. TypeOK'
  <2>1. nextpid' = nextpid /\ panic' = panic /\ exitcode' = exitcode
    BY Zenon DEF Collect
  <2>2. pc' \in [Procs -> Places] /\ kids' \in [Procs -> SUBSET Pids]
    BY Zenon DEF Collect, IInv, TypeOK, Places
  <2>3. wpid' \in [Procs -> Pids] /\ got' \in [Procs -> Status \cup {NoStatus}]
    BY Zenon DEF Collect
  <2>4. nprocs' \in Int
    BY <1>g DEF IInv, TypeOK
  <2> QED
    BY <1>b, <1>g, <2>1, <2>2, <2>3, <2>4, Zenon DEF IInv, TypeOK
<1>2. (NoPanic /\ TableConsistent /\ EntryPids)'
  <2>1. NoPanic'
    BY Zenon DEF Collect, IInv, NoPanic
  <2>2. TableConsistent'
    BY <1>c, <1>d, <1>e, <1>g, Zenon DEF IInv, TableConsistent
  <2>3. EntryPids'
    BY <1>c, <1>e, Zenon DEF IInv, EntryPids
  <2> QED
    BY <2>1, <2>2, <2>3, Zenon
<1>3. /\ Live(p)
      /\ \A r \in Procs : Live(r)' <=> Live(r)
      /\ \A i \in Used(pidinfo) : pidinfo[i].pi_proc \in Procs
  BY <1>h, Zenon DEF Live, IInv, TypeOK, Used, PidInfo
<1>4. (ParentsLive /\ EntriesOwned)'
  <2>1. ParentsLive'
    BY <1>c, <1>e, <1>g, <1>3, Zenon DEF IInv, ParentsLive
  <2>2. EntriesOwned'
    BY <1>c, <1>e, <1>g, <1>3, Zenon DEF IInv, EntriesOwned
  <2> QED
    BY <2>1, <2>2, Zenon
<1>5. PidOwned'
  <2>1. \A r \in Procs : Live(r) => p_pid[r] # q
    BY <1>a, Zenon DEF IInv, PidOwned
  <2>2. \A r \in Procs : p_pid[r] \in Pids
    BY Zenon DEF IInv, TypeOK
  <2> QED
    BY <1>f, <1>g, <1>3, <2>1, <2>2, Zenon DEF IInv, PidOwned
<1>6. WaitSound'
  <2> SUFFICES ASSUME NEW r \in Procs, pc'[r] \in {"sleep", "woken"}
               PROVE  (LET them == pi_get(pidinfo, wpid[r])
                       IN  /\ them # NULL
                           /\ them.pi_ppid = p_pid[r]
                           /\ (them.pi_exited <=> pc[r] = "woken"))'
    BY Zenon DEF WaitSound
  <2>1. r # p /\ pc'[r] = pc[r] /\ wpid'[r] = wpid[r]
    BY <1>h DEF Collect
  <2>2. Live(r)
    BY <2>1, Zenon DEF Live
  <2>3. p_pid[r] # p_pid[p]
    BY <1>3, <2>1, <2>2, UniquePids, Zenon
  <2>4. wpid[r] \in Pids /\ wpid[r] # q /\ pi_get(pidinfo, wpid[r]) # NULL
    BY <1>a, <2>1, <2>3, Zenon DEF IInv, WaitSound, TypeOK
  <2> QED
    BY <1>f, <1>g, <2>1, <2>4, Zenon DEF IInv, WaitSound
<1>7. ForkSound'
  <2> SUFFICES ASSUME NEW r \in Procs, r # p, pc[r] = "fork"
               PROVE  /\ child[r] \in Procs
                      /\ child[r] # p
                      /\ pc[child[r]] = "embryo"
                      /\ pi_get(pidinfo', p_pid[child[r]]).pi_ppid = p_pid[r]
    BY <1>g, <1>h, ZenonT(30) DEF ForkSound
  <2>1. /\ child[r] \in Procs
        /\ pc[child[r]] = "embryo"
        /\ pi_get(pidinfo, p_pid[child[r]]).pi_ppid = p_pid[r]
    BY Zenon DEF IInv, ForkSound
  <2>2. /\ pi_get(pidinfo, p_pid[child[r]]) # NULL
        /\ p_pid[child[r]] # q
        /\ p_pid[child[r]] \in Pids
    BY <1>a, <2>1, Zenon DEF IInv, PidOwned, Live, TypeOK
  <2> QED
    BY <1>f, <1>h, <2>1, <2>2, Zenon
<1>8. EmbryoChildless'
  BY <1>c, <1>e, <1>g, <1>h, Zenon DEF IInv, EmbryoChildless
<1>9. KidsSound'
  <2> SUFFICES ASSUME NEW r \in Procs, NEW k \in kids'[r]
               PROVE  (/\ Live(r)
                       /\ pi_get(pidinfo, k) # NULL
                       /\ pi_get(pidinfo, k).pi_ppid = p_pid[r]
                       /\ pc[pi_get(pidinfo, k).pi_proc] # "embryo")'
    BY Zenon DEF KidsSound
  <2>1. k \in kids[r] /\ k \in Pids /\ (r = p => k # q)
    BY <1>h, Zenon DEF IInv, TypeOK
  <2>2. /\ Live(r)
        /\ pi_get(pidinfo, k) # NULL
        /\ pi_get(pidinfo, k).pi_ppid = p_pid[r]
        /\ pc[pi_get(pidinfo, k).pi_proc] # "embryo"
    BY <2>1, Zenon DEF IInv, KidsSound
  <2>3. k # q
    BY <1>a, <1>3, <2>1, <2>2, UniquePids, Zenon
  <2>4. pi_get(pidinfo', k) = pi_get(pidinfo, k)
    BY <1>f, <2>1, <2>2, <2>3, Zenon
  <2>5. pi_get(pidinfo, k).pi_proc \in Procs
    BY <2>1, <2>2, PidsNat, SlotType, Zenon DEF IInv, TypeOK, PidInfo, pi_get
  <2>6. pc'[pi_get(pidinfo, k).pi_proc] # "embryo"
    BY <1>h, <2>2, <2>5, Zenon
  <2> QED
    BY <1>g, <1>3, <2>2, <2>4, <2>6, Zenon
<1>10. KidsComplete'
  <2> SUFFICES ASSUME NEW i \in Used(pidinfo'), NEW r \in Procs, Live(r),
                      pidinfo'[i].pi_ppid = p_pid[r]
               PROVE  \/ pidinfo'[i].pi_pid \in kids'[r]
                      \/ pc'[r] = "fork" /\ p_pid[child[r]] = pidinfo'[i].pi_pid
    BY <1>g, <1>3, Zenon DEF KidsComplete
  <2>1. i \in Used(pidinfo) /\ pidinfo'[i] = pidinfo[i] /\ pidinfo[i].pi_pid # q
    BY <1>c, <1>e, Zenon
  <2>2. \/ pidinfo[i].pi_pid \in kids[r]
        \/ pc[r] = "fork" /\ p_pid[child[r]] = pidinfo[i].pi_pid
    BY <2>1, Zenon DEF IInv, KidsComplete
  <2> QED
    BY <1>h, <2>1, <2>2, Zenon
<1> QED
  BY <1>1, <1>2, <1>4, <1>5, <1>6, <1>7, <1>8, <1>9, <1>10, Zenon DEF IInv

\* pid_wait of an exited child.
LEMMA WaitCollectIInv ==
    ASSUME Counting, IInv, NEW p \in Procs, NEW q \in Pids, WaitCollect(p, q)
    PROVE  IInv'
<1>1. /\ pi_get(pidinfo, q) # NULL
      /\ pi_get(pidinfo, q).pi_ppid = p_pid[p]
      /\ pi_get(pidinfo, q).pi_exited
      /\ pidinfo[Slot(q)] = pi_get(pidinfo, q)
  BY WaitCheck DEF WaitCollect, IInv, pi_get
<1>2. pidinfo[Slot(q)].pi_exitstatus \in Status \cup {NoStatus}
  BY <1>1, PidsNat, SlotType, Zenon DEF IInv, TypeOK, PidInfo
<1>3. got' \in [Procs -> Status \cup {NoStatus}]
  BY <1>2, Zenon DEF WaitCollect, IInv, TypeOK
<1>4. /\ pidinfo' = [pidinfo EXCEPT ![Slot(q)] = NULL]
      /\ nprocs' = nprocs - 1
      /\ UNCHANGED <<nextpid, p_pid, panic>>
  BY <1>1, Zenon DEF WaitCollect, pid_wait_collect
<1>5. pc' = [pc EXCEPT ![p] = "user"] /\ wpid' \in [Procs -> Pids]
  BY Zenon DEF WaitCollect, IInv, TypeOK
<1>6. Collect(p, q)
  BY <1>1, <1>3, <1>4, <1>5, Zenon DEF WaitCollect, Collect
<1> QED
  BY <1>6, CollectIInv, Zenon

\* pid_wait after cv_wait: the entry is still that of the exited child.
LEMMA WaitResumeIInv ==
    ASSUME Counting, IInv, NEW p \in Procs, WaitResume(p)
    PROVE  IInv'
<1> DEFINE q == wpid[p]
<1>1. /\ q \in Pids
      /\ pi_get(pidinfo, q) # NULL
      /\ pi_get(pidinfo, q).pi_ppid = p_pid[p]
      /\ pi_get(pidinfo, q).pi_exited
      /\ pidinfo[Slot(q)] = pi_get(pidinfo, q)
  BY Zenon DEF WaitResume, IInv, WaitSound, TypeOK, pi_get
<1>2. pidinfo[Slot(q)].pi_exitstatus \in Status \cup {NoStatus}
  BY <1>1, PidsNat, SlotType, Zenon DEF IInv, TypeOK, PidInfo
<1>3. got' \in [Procs -> Status \cup {NoStatus}]
  BY <1>1, <1>2, Zenon DEF WaitResume, IInv, TypeOK
<1>4. /\ pidinfo' = [pidinfo EXCEPT ![Slot(q)] = NULL]
      /\ nprocs' = nprocs - 1
      /\ UNCHANGED <<nextpid, p_pid, panic>>
  BY <1>1, Zenon DEF WaitResume, pid_wait_collect
<1>5. INVALID_PID \in Pids
  BY SizeAssumption DEF INVALID_PID, Pids, PID_MIN
<1>6. /\ wpid' \in [Procs -> Pids]
      /\ \A r \in Procs \ {p} : wpid'[r] = wpid[r]
  BY <1>5, Zenon DEF WaitResume, IInv, TypeOK
<1>7. /\ UNCHANGED <<child, exitcode>>
      /\ kids' = [kids EXCEPT ![p] = @ \ {q}]
      /\ pc[p] = "woken"
      /\ pc' = [pc EXCEPT ![p] = "user"]
  BY Zenon DEF WaitResume
<1> HIDE DEF q
<1>8. pc[p] = "woken" => wpid[p] = q
  BY Zenon DEF q
<1>9. Collect(p, q)
  BY <1>1, <1>3, <1>4, <1>6, <1>7, <1>8, Zenon DEF Collect
<1> QED
  BY <1>1, <1>9, CollectIInv, Zenon

\* A step that changes nothing but nextpid preserves the invariant.
LEMMA StutterIInv ==
    ASSUME IInv, UNCHANGED <<pidinfo, nprocs, p_pid, panic, procVars>>,
           nextpid' \in PID_MIN .. PID_MAX
    PROVE  IInv'
<1> USE DEF procVars
<1>1. TypeOK'
  BY Zenon DEF IInv, TypeOK
<1>2. \A r \in Procs : Live(r)' <=> Live(r)
  BY Zenon DEF Live
<1>3. (NoPanic /\ TableConsistent /\ EntryPids)'
  BY Zenon DEF IInv, NoPanic, TableConsistent, EntryPids, Used
<1>4. (PidOwned /\ ParentsLive /\ EntriesOwned)'
  BY Zenon DEF IInv, PidOwned, ParentsLive, EntriesOwned, Used, pi_get, Live
<1>5. (WaitSound /\ ForkSound)'
  BY Zenon DEF IInv, WaitSound, ForkSound, pi_get
<1>7. EmbryoChildless'
  BY Zenon DEF IInv, EmbryoChildless, Used
<1>6. (KidsSound /\ KidsComplete)'
  BY DEF IInv, KidsSound, KidsComplete, Used, pi_get, Live
<1> QED
  BY <1>1, <1>3, <1>4, <1>5, <1>6, <1>7, Zenon DEF IInv

\* The entry of a live process, and its pid, which is never INVALID_PID.
LEMMA LiveEntry ==
    ASSUME IInv, NEW p \in Procs, Live(p)
    PROVE  /\ p_pid[p] \in Pids
           /\ p_pid[p] # INVALID_PID
           /\ Slot(p_pid[p]) \in Used(pidinfo)
           /\ pi_get(pidinfo, p_pid[p]) = pidinfo[Slot(p_pid[p])]
           /\ pidinfo[Slot(p_pid[p])].pi_pid = p_pid[p]
           /\ pidinfo[Slot(p_pid[p])].pi_proc = p
           /\ ~pidinfo[Slot(p_pid[p])].pi_exited
<1>1. p_pid[p] \in Pids /\ pi_get(pidinfo, p_pid[p]) # NULL
  BY Zenon DEF IInv, TypeOK, PidOwned
<1>2. /\ Slot(p_pid[p]) \in Used(pidinfo)
      /\ pi_get(pidinfo, p_pid[p]) = pidinfo[Slot(p_pid[p])]
      /\ pidinfo[Slot(p_pid[p])].pi_pid = p_pid[p]
  BY <1>1, PidsNat, SlotType, Zenon DEF pi_get, Used
<1> QED
  BY <1>1, <1>2, Zenon DEF IInv, PidOwned, EntryPids

\* A full table: fork fails with EAGAIN and changes nothing.
LEMMA ForkEagainIInv ==
    ASSUME IInv, NEW p \in Procs, ForkEagain(p)
    PROVE  IInv'
<1>1. p_pid[p] # INVALID_PID
  BY LiveEntry, Zenon DEF ForkEagain, Live
<1>2. panic = FALSE /\ panic' = FALSE
  <2>1. panic' = (p_pid[p] = INVALID_PID)
    BY Zenon DEF ForkEagain, pid_alloc_eagain
  <2>2. ~panic /\ panic \in BOOLEAN
    BY Zenon DEF ForkEagain, IInv, TypeOK
  <2> QED
    BY <1>1, <2>1, <2>2, Zenon
<1>3. nextpid' \in PID_MIN .. PID_MAX
  BY Zenon DEF ForkEagain, pid_alloc_eagain, IInv, TypeOK
<1> QED
  BY <1>2, <1>3, StutterIInv, Zenon DEF ForkEagain, pid_alloc_eagain, procVars

\* When nprocs allows another process, the pid_alloc loop finds a free slot.
LEMMA FreeSlot ==
    ASSUME Counting, IInv, ~pid_alloc_full
    PROVE  Stops # {}
<1>1. Used(pidinfo) # Slots
  <2>2. Cardinality(Slots) = PROCS_MAX
    BY Zenon DEF Counting
  <2> QED
    BY <2>2, Zenon DEF IInv, TableConsistent, pid_alloc_full
<1>2. PICK s \in Slots : pidinfo[s] = NULL
  BY <1>1, Zenon DEF Used
<1> QED
  BY <1>2, LoopStops, Zenon DEF IInv, TypeOK

\* pidinfo_create fails: fork fails with ENOMEM, only nextpid has moved.
LEMMA ForkEnomemIInv ==
    ASSUME Counting, IInv, NEW p \in Procs, ForkEnomem(p)
    PROVE  IInv'
<1>1. p_pid[p] # INVALID_PID
  BY LiveEntry, Zenon DEF ForkEnomem, Live
<1>2. Stops # {}
  BY FreeSlot, Zenon DEF ForkEnomem, pid_alloc_enomem
<1>3. panic = FALSE /\ panic' = FALSE
  <2>1. panic' = (p_pid[p] = INVALID_PID \/ Stops = {})
    BY Zenon DEF ForkEnomem, pid_alloc_enomem
  <2>2. ~panic /\ panic \in BOOLEAN
    BY Zenon DEF ForkEnomem, IInv, TypeOK
  <2> QED
    BY <1>1, <1>2, <2>1, <2>2, Zenon
<1>4. nextpid' \in PID_MIN .. PID_MAX
  BY <1>2, CandidateType, Zenon DEF ForkEnomem, pid_alloc_enomem, IInv, TypeOK
<1> QED
  BY <1>3, <1>4, StutterIInv, Zenon DEF ForkEnomem, pid_alloc_enomem, procVars

\* pid_disown of a child that still runs: its entry loses its parent.
LEMMA DisownRunningIInv ==
    ASSUME IInv, NEW p \in Procs, NEW q \in Pids, Disown(p, q),
           ~pidinfo[Slot(q)].pi_exited
    PROVE  IInv'
<1> DEFINE s == Slot(q)
<1>a. /\ s \in Slots
      /\ s \in Used(pidinfo)
      /\ pi_get(pidinfo, q) = pidinfo[s]
      /\ pidinfo[s].pi_pid = q
      /\ pidinfo[s].pi_ppid = p_pid[p]
      /\ pidinfo[s] \in PidInfo
  BY PidsNat, SlotType DEF Disown, IInv, KidsSound, TypeOK, Used, pi_get
<1>b. /\ pidinfo' = [pidinfo EXCEPT ![s] = [pidinfo[s] EXCEPT !.pi_ppid = INVALID_PID]]
      /\ nprocs' = nprocs
      /\ UNCHANGED <<nextpid, p_pid, panic>>
  BY <1>a, NullAssumption, Zenon DEF Disown, pid_disown, Disowned, Used
<1>c. /\ UNCHANGED <<pc, child, wpid, exitcode, got>>
      /\ kids' = [kids EXCEPT ![p] = @ \ {q}]
      /\ pc[p] = "user"
  BY Zenon DEF Disown
<1>d. INVALID_PID \in Pids
  BY SizeAssumption DEF INVALID_PID, Pids, PID_MIN
<1> HIDE DEF s
<1>e. /\ pidinfo'[s] \in PidInfo
      /\ pidinfo'[s] # NULL
      /\ pidinfo'[s].pi_pid = q
      /\ pidinfo'[s].pi_ppid = INVALID_PID
      /\ pidinfo'[s].pi_proc = pidinfo[s].pi_proc
      /\ ~pidinfo'[s].pi_exited
  BY <1>a, <1>b, <1>d, NullAssumption, Zenon DEF PidInfo, IInv, TypeOK, s
<1>f. \A i \in Slots : i # s => pidinfo'[i] = pidinfo[i]
  BY <1>a, <1>b, Zenon DEF IInv, TypeOK
<1>g. Used(pidinfo') = Used(pidinfo)
  BY <1>a, <1>e, <1>f, Zenon DEF Used
<1>h. \A i \in Used(pidinfo) :
         /\ i \in Slots
         /\ pidinfo'[i].pi_pid = pidinfo[i].pi_pid
         /\ pidinfo'[i].pi_proc = pidinfo[i].pi_proc
         /\ (pidinfo'[i].pi_exited <=> pidinfo[i].pi_exited)
         /\ pidinfo'[i].pi_ppid = IF i = s THEN INVALID_PID ELSE pidinfo[i].pi_ppid
  BY <1>a, <1>e, <1>f, Zenon DEF Used, s
<1>i. \A k \in Pids : k # q /\ pi_get(pidinfo, k) # NULL =>
                            pi_get(pidinfo', k) = pi_get(pidinfo, k)
  BY <1>a, <1>f, PidsNat, SlotType, Zenon DEF pi_get
<1>j. Live(p)
  BY <1>c, Zenon DEF Live
<1>k. \A r \in Procs : Live(r)' <=> Live(r)
  BY <1>c, Zenon DEF Live
<1>1. TypeOK'
  <2>1. pidinfo' \in [Slots -> PidInfo \cup {NULL}]
    BY <1>a, <1>b, <1>e, Zenon DEF IInv, TypeOK
  <2>2. kids' \in [Procs -> SUBSET Pids]
    BY <1>c, Zenon DEF IInv, TypeOK
  <2> QED
    BY <1>b, <1>c, <2>1, <2>2, Zenon DEF IInv, TypeOK
<1>2. (NoPanic /\ TableConsistent /\ EntryPids)'
  <2>1. NoPanic' /\ TableConsistent'
    BY <1>b, <1>g, <1>h, Zenon DEF IInv, NoPanic, TableConsistent
  <2>2. EntryPids'
    BY <1>g, <1>h, Zenon DEF IInv, EntryPids
  <2> QED
    BY <2>1, <2>2, Zenon
<1>3. ParentsLive'
  BY <1>b, <1>e, <1>g, <1>h, <1>k DEF IInv, ParentsLive
<1>4. EntriesOwned'
  <2>1. \A i \in Used(pidinfo) : pidinfo[i].pi_proc \in Procs
    BY Zenon DEF Used, IInv, TypeOK, PidInfo
  <2>2. \A i \in Used(pidinfo) :
            IF pidinfo[i].pi_exited THEN ~Live(pidinfo[i].pi_proc)
            ELSE Live(pidinfo[i].pi_proc) /\ p_pid[pidinfo[i].pi_proc] = pidinfo[i].pi_pid
    BY Zenon DEF IInv, EntriesOwned
  <2> QED
    BY <1>b, <1>g, <1>h, <1>k, <2>1, <2>2 DEF EntriesOwned
<1>5. PidOwned'
  <2> SUFFICES ASSUME NEW r \in Procs, Live(r)
               PROVE  (LET us == pi_get(pidinfo, p_pid[r])
                       IN  us # NULL /\ us.pi_proc = r /\ ~us.pi_exited)'
    BY <1>b, <1>k, Zenon DEF PidOwned, IInv
  <2>1. CASE p_pid[r] = q
    BY <1>a, <1>b, <1>e, <2>1, Zenon DEF IInv, PidOwned, pi_get, s
  <2>2. CASE p_pid[r] # q
    BY <1>b, <1>i, <2>2, Zenon DEF IInv, PidOwned, TypeOK
  <2> QED
    BY <2>1, <2>2, Zenon
<1>6. WaitSound'
  <2> SUFFICES ASSUME NEW r \in Procs, pc[r] \in {"sleep", "woken"}
               PROVE  (LET them == pi_get(pidinfo, wpid[r])
                       IN  /\ them # NULL
                           /\ them.pi_ppid = p_pid[r]
                           /\ (them.pi_exited <=> pc[r] = "woken"))'
    BY <1>c, Zenon DEF WaitSound
  <2>1. r # p /\ Live(r)
    BY <1>c, Zenon DEF Live
  <2>2. p_pid[r] # p_pid[p]
    BY <1>j, <2>1, UniquePids, Zenon
  <2>3. wpid[r] \in Pids /\ wpid[r] # q /\ pi_get(pidinfo, wpid[r]) # NULL
    BY <1>a, <2>2, Zenon DEF IInv, WaitSound, TypeOK
  <2> QED
    BY <1>b, <1>c, <1>i, <2>3, Zenon DEF IInv, WaitSound
<1>7. ForkSound'
  <2> SUFFICES ASSUME NEW r \in Procs, pc[r] = "fork"
               PROVE  /\ child[r] \in Procs
                      /\ pc[child[r]] = "embryo"
                      /\ pi_get(pidinfo', p_pid[child[r]]).pi_ppid = p_pid[r]
    BY <1>b, <1>c, Zenon DEF ForkSound
  <2>1. r # p /\ Live(r)
    BY <1>c, Zenon DEF Live
  <2>2. p_pid[r] # p_pid[p]
    BY <1>j, <2>1, UniquePids, Zenon
  <2>3. /\ child[r] \in Procs
        /\ pc[child[r]] = "embryo"
        /\ pi_get(pidinfo, p_pid[child[r]]).pi_ppid = p_pid[r]
    BY Zenon DEF IInv, ForkSound
  <2>4. /\ p_pid[child[r]] \in Pids
        /\ p_pid[child[r]] # q
        /\ pi_get(pidinfo, p_pid[child[r]]) # NULL
    BY <1>a, <2>2, <2>3, Zenon DEF IInv, PidOwned, Live, TypeOK
  <2> QED
    BY <1>i, <2>3, <2>4, Zenon
<1>8. EmbryoChildless'
  <2>1. \A c \in Procs : pc[c] = "embryo" => p_pid[c] # INVALID_PID
    BY LiveEntry, Zenon DEF Live
  <2>2. \A c \in Procs : pc[c] = "embryo" =>
            \A i \in Used(pidinfo) : pidinfo[i].pi_ppid # p_pid[c]
    BY Zenon DEF IInv, EmbryoChildless
  <2> QED
    BY <1>b, <1>c, <1>g, <1>h, <2>1, <2>2, SMTT(20) DEF EmbryoChildless
<1>9. KidsSound'
  <2> SUFFICES ASSUME NEW r \in Procs, NEW k \in kids'[r]
               PROVE  (/\ Live(r)
                       /\ pi_get(pidinfo, k) # NULL
                       /\ pi_get(pidinfo, k).pi_ppid = p_pid[r]
                       /\ pc[pi_get(pidinfo, k).pi_proc] # "embryo")'
    BY Zenon DEF KidsSound
  <2>1. k \in kids[r] /\ k \in Pids /\ (r = p => k # q)
    BY <1>c, Zenon DEF IInv, TypeOK
  <2>2. /\ Live(r)
        /\ pi_get(pidinfo, k) # NULL
        /\ pi_get(pidinfo, k).pi_ppid = p_pid[r]
        /\ pc[pi_get(pidinfo, k).pi_proc] # "embryo"
    BY <2>1, Zenon DEF IInv, KidsSound
  <2>3. k # q
    BY <1>a, <1>j, <2>1, <2>2, UniquePids, Zenon
  <2>4. pi_get(pidinfo', k) = pi_get(pidinfo, k)
    BY <1>i, <2>1, <2>2, <2>3, Zenon
  <2> QED
    BY <1>b, <1>c, <1>k, <2>2, <2>4, Zenon
<1>10. KidsComplete'
  <2> SUFFICES ASSUME NEW i \in Used(pidinfo), NEW r \in Procs, Live(r),
                      pidinfo'[i].pi_ppid = p_pid[r]
               PROVE  \/ pidinfo'[i].pi_pid \in kids'[r]
                      \/ pc[r] = "fork" /\ p_pid[child[r]] = pidinfo'[i].pi_pid
    BY <1>b, <1>c, <1>g, <1>k DEF KidsComplete
  <2>1. p_pid[r] # INVALID_PID
    BY LiveEntry, Zenon
  <2>2. i # s /\ pidinfo[i].pi_ppid = p_pid[r] /\ pidinfo'[i].pi_pid = pidinfo[i].pi_pid
    BY <1>h, <2>1, Zenon
  <2>3. pidinfo[i].pi_pid # q
    BY <2>2, Zenon DEF IInv, TableConsistent, s
  <2>4. \/ pidinfo[i].pi_pid \in kids[r]
        \/ pc[r] = "fork" /\ p_pid[child[r]] = pidinfo[i].pi_pid
    BY <2>2, Zenon DEF IInv, KidsComplete
  <2>5. kids'[r] = kids[r] \/ kids'[r] = kids[r] \ {q}
    BY <1>c, Zenon DEF IInv, TypeOK
  <2> QED
    BY <2>2, <2>3, <2>4, <2>5, Zenon
<1> QED
  BY <1>1, <1>2, <1>3, <1>4, <1>5, <1>6, <1>7, <1>8, <1>9, <1>10, Zenon DEF IInv

\* pid_disown: a zombie is freed, a running child is orphaned.
LEMMA DisownIInv ==
    ASSUME Counting, IInv, NEW p \in Procs, NEW q \in Pids, Disown(p, q)
    PROVE  IInv'
<1>1. CASE pidinfo[Slot(q)].pi_exited
  <2>1. /\ pi_get(pidinfo, q) # NULL
        /\ pi_get(pidinfo, q).pi_ppid = p_pid[p]
        /\ pi_get(pidinfo, q) = pidinfo[Slot(q)]
    BY Zenon DEF Disown, IInv, KidsSound, pi_get
  <2>2. /\ pidinfo' = [pidinfo EXCEPT ![Slot(q)] = NULL]
        /\ nprocs' = nprocs - 1
        /\ UNCHANGED <<nextpid, p_pid, panic>>
    BY <1>1, <2>1, Zenon DEF Disown, pid_disown, Disowned
  <2>3. /\ pc[p] = "user"
        /\ UNCHANGED <<child, exitcode>>
        /\ pc' = [pc EXCEPT ![p] = "user"]
        /\ wpid' \in [Procs -> Pids]
        /\ wpid' = wpid
        /\ got' \in [Procs -> Status \cup {NoStatus}]
        /\ kids' = [kids EXCEPT ![p] = @ \ {q}]
    BY Zenon DEF Disown, IInv, TypeOK
  <2>4. Collect(p, q)
    BY <1>1, <2>1, <2>2, <2>3, Zenon DEF Collect
  <2> QED
    BY <2>4, CollectIInv, Zenon
<1>2. CASE ~pidinfo[Slot(q)].pi_exited
  BY <1>2, DisownRunningIInv, Zenon
<1> QED
  BY <1>1, <1>2, Zenon

-----------------------------------------------------------------------------
(* fork: the step that gives the child its pid, and the step that takes the
   pid back on an error. *)

\* A pid that pid_alloc gives out is not INVALID_PID.
LEMMA ValidPid == \A n \in PID_MIN .. PID_MAX : n # INVALID_PID /\ n >= PID_MIN
  BY SizeAssumption DEF INVALID_PID, PID_MIN

\* A fork that fails after pid_alloc: pid_unalloc finds the child's entry as
\* pid_alloc left it, and the process is as before the fork.
LEMMA ForkUndoIInv ==
    ASSUME Counting, IInv, NEW p \in Procs, ForkUndo(p)
    PROVE  IInv'
<1> DEFINE c == child[p]
           q == p_pid[c]
<1>a. /\ c \in Procs
      /\ c # p
      /\ pc[c] = "embryo"
      /\ pc[p] = "fork"
      /\ Live(c)
      /\ Live(p)
      /\ q \in Pids
      /\ pi_get(pidinfo, q).pi_ppid = p_pid[p]
  BY Zenon DEF ForkUndo, IInv, ForkSound, Live, TypeOK
<1>b. /\ pi_get(pidinfo, q) # NULL
      /\ pi_get(pidinfo, q).pi_proc = c
      /\ ~pi_get(pidinfo, q).pi_exited
      /\ q # INVALID_PID
  BY <1>a, LiveEntry, Zenon DEF IInv, PidOwned
<1>c. q >= PID_MIN
  BY <1>a, LiveEntry, SMTT(20) DEF IInv, EntryPids
<1>d. /\ pidinfo' = [pidinfo EXCEPT ![Slot(q)] = NULL]
      /\ nprocs' = nprocs - 1
      /\ p_pid' = [p_pid EXCEPT ![c] = INVALID_PID]
      /\ UNCHANGED <<nextpid, panic>>
  <2>1. pid_unalloc(p, c)
    BY Zenon DEF ForkUndo
  <2> QED
    BY <1>a, <1>b, <1>c, <2>1, Zenon DEF pid_unalloc
<1>e. /\ pc' = [pc EXCEPT ![p] = "user", ![c] = "none"]
      /\ child' = [child EXCEPT ![p] = NULL]
      /\ UNCHANGED <<wpid, exitcode, kids, got>>
  BY Zenon DEF ForkUndo
<1> HIDE DEF c, q
<1>f. pidinfo' \in [Slots -> PidInfo \cup {NULL}]
  BY <1>a, <1>b, <1>d, DropEntry, Zenon DEF IInv
<1>g. Used(pidinfo') = Used(pidinfo) \ {Slot(q)}
  BY <1>a, <1>b, <1>d, DropEntry, Zenon DEF IInv
<1>h. Cardinality(Used(pidinfo')) = nprocs - 1
  BY <1>a, <1>b, <1>d, DropEntry, Zenon DEF IInv
<1>i. \A i \in Used(pidinfo') : pidinfo'[i] = pidinfo[i] /\ pidinfo[i].pi_pid # q
  BY <1>a, <1>b, <1>d, DropEntry, Zenon DEF IInv
<1>j. \A k \in Pids : k # q /\ pi_get(pidinfo, k) # NULL =>
                            pi_get(pidinfo', k) = pi_get(pidinfo, k)
  BY <1>a, <1>b, <1>d, DropEntry, Zenon DEF IInv
<1>k. /\ \A r \in Procs : p_pid'[r] = IF r = c THEN INVALID_PID ELSE p_pid[r]
      /\ \A r \in Procs : r # p => child'[r] = child[r]
      /\ pc'[p] = "user"
      /\ pc'[c] = "none"
      /\ \A r \in Procs : r # p /\ r # c => pc'[r] = pc[r]
  BY <1>a, <1>d, <1>e, Zenon DEF IInv, TypeOK
<1>l. /\ \A r \in Procs : Live(r)' <=> Live(r) /\ r # c
      /\ \A i \in Used(pidinfo) : pidinfo[i].pi_proc \in Procs
  BY <1>a, <1>k, Zenon DEF Live, IInv, TypeOK, Used, PidInfo
<1>m. p_pid[c] = q
  BY Zenon DEF q
<1>n. \A i \in Used(pidinfo) : pidinfo[i].pi_ppid # q
  BY <1>a, <1>m, Zenon DEF IInv, EmbryoChildless
<1>1. TypeOK'
  <2>1. INVALID_PID \in Pids
    BY SizeAssumption DEF INVALID_PID, Pids, PID_MIN
  <2>2. p_pid' \in [Procs -> Pids]
    BY <1>a, <1>d, <2>1, Zenon DEF IInv, TypeOK
  <2>4. nprocs' \in Int
    BY <1>d DEF IInv, TypeOK
  <2>3. pc' \in [Procs -> Places] /\ child' \in [Procs -> Procs \cup {NULL}]
    BY <1>e, Zenon DEF IInv, TypeOK, Places
  <2> QED
    BY <1>d, <1>e, <1>f, <2>2, <2>3, <2>4, Zenon DEF IInv, TypeOK
<1>2. (NoPanic /\ TableConsistent /\ EntryPids)'
  <2>1. NoPanic' /\ TableConsistent'
    BY <1>d, <1>g, <1>h, <1>i, Zenon DEF IInv, NoPanic, TableConsistent
  <2>2. EntryPids'
    BY <1>g, <1>i, Zenon DEF IInv, EntryPids
  <2> QED
    BY <2>1, <2>2, Zenon
<1>3. ParentsLive'
  <2> SUFFICES ASSUME NEW i \in Used(pidinfo'), pidinfo[i].pi_ppid # INVALID_PID
               PROVE  \E r \in Procs : Live(r)' /\ p_pid'[r] = pidinfo[i].pi_ppid
    BY <1>g, <1>i, Zenon DEF IInv, ParentsLive
  <2>1. PICK r \in Procs : Live(r) /\ p_pid[r] = pidinfo[i].pi_ppid
    BY <1>g, Zenon DEF IInv, ParentsLive
  <2>2. r # c
    BY <1>g, <1>m, <1>n, <2>1, Zenon
  <2> QED
    BY <1>k, <1>l, <2>1, <2>2, Zenon
<1>4. EntriesOwned'
  <2>1. \A i \in Used(pidinfo') : pidinfo[i].pi_proc = c => pidinfo[i].pi_exited
    BY <1>g, <1>i, <1>m, Zenon DEF IInv, EntriesOwned
  <2>2. SUFFICES ASSUME NEW i \in Used(pidinfo'), NEW r \in Procs, r = pidinfo[i].pi_proc
                 PROVE  IF pidinfo[i].pi_exited THEN ~Live(r)'
                        ELSE Live(r)' /\ p_pid'[r] = pidinfo[i].pi_pid
    BY <1>g, <1>i, <1>l, SMTT(20) DEF EntriesOwned, Live
  <2>3. i \in Used(pidinfo)
    BY <1>g, Zenon
  <2>4. IF pidinfo[i].pi_exited THEN ~Live(r) ELSE Live(r) /\ p_pid[r] = pidinfo[i].pi_pid
    BY <2>2, <2>3, Zenon DEF IInv, EntriesOwned
  <2>5. r = c => pidinfo[i].pi_exited
    BY <2>1, <2>2, Zenon
  <2>6. Live(r)' <=> Live(r) /\ r # c
    BY <1>l, Zenon
  <2>7. r # c => p_pid'[r] = p_pid[r]
    BY <1>k, Zenon
  <2> QED
    BY <2>4, <2>5, <2>6, <2>7, Zenon
<1>5. PidOwned'
  <2>1. \A r \in Procs : Live(r) /\ r # c => p_pid[r] # q
    BY <1>a, <1>m, UniquePids, Zenon
  <2>2. \A r \in Procs : p_pid[r] \in Pids
    BY Zenon DEF IInv, TypeOK
  <2>3. ASSUME NEW r \in Procs, r # c, Live(r)
        PROVE  LET us == pi_get(pidinfo', p_pid'[r])
               IN  us # NULL /\ us.pi_proc = r /\ ~us.pi_exited
    <3>1. /\ pi_get(pidinfo, p_pid[r]) # NULL
          /\ pi_get(pidinfo, p_pid[r]).pi_proc = r
          /\ ~pi_get(pidinfo, p_pid[r]).pi_exited
      BY <2>3, Zenon DEF IInv, PidOwned
    <3>2. pi_get(pidinfo', p_pid'[r]) = pi_get(pidinfo, p_pid[r])
      BY <1>j, <1>k, <2>1, <2>2, <2>3, <3>1, Zenon
    <3> QED
      BY <3>1, <3>2, Zenon
  <2>4. \A r \in Procs : r = c \/ ~Live(r) => p_pid'[r] = INVALID_PID
    BY <1>k, Zenon DEF IInv, PidOwned
  <2> QED
    BY <1>l, <2>3, <2>4, Zenon DEF PidOwned
<1>6. WaitSound'
  <2> SUFFICES ASSUME NEW r \in Procs, pc'[r] \in {"sleep", "woken"}
               PROVE  (LET them == pi_get(pidinfo, wpid[r])
                       IN  /\ them # NULL
                           /\ them.pi_ppid = p_pid[r]
                           /\ (them.pi_exited <=> pc[r] = "woken"))'
    BY Zenon DEF WaitSound
  <2>1. r # p /\ r # c /\ pc'[r] = pc[r] /\ wpid'[r] = wpid[r] /\ p_pid'[r] = p_pid[r]
    BY <1>e, <1>k, Zenon
  <2>2. p_pid[r] # p_pid[p]
    BY <1>a, <2>1, UniquePids, Zenon DEF Live
  <2>3. wpid[r] \in Pids /\ wpid[r] # q /\ pi_get(pidinfo, wpid[r]) # NULL
    BY <1>a, <2>1, <2>2, Zenon DEF IInv, WaitSound, TypeOK
  <2> QED
    BY <1>j, <2>1, <2>3, Zenon DEF IInv, WaitSound
<1>7. ForkSound'
  <2> SUFFICES ASSUME NEW r \in Procs, pc'[r] = "fork"
               PROVE  (/\ child[r] \in Procs
                       /\ pc[child[r]] = "embryo"
                       /\ pi_get(pidinfo, p_pid[child[r]]).pi_ppid = p_pid[r])'
    BY Zenon DEF ForkSound
  <2>1. r # p /\ r # c /\ pc[r] = "fork"
    BY <1>k, Zenon
  <2>2. /\ child[r] \in Procs
        /\ pc[child[r]] = "embryo"
        /\ pi_get(pidinfo, p_pid[child[r]]).pi_ppid = p_pid[r]
    BY <2>1, Zenon DEF IInv, ForkSound
  <2>3. p_pid[r] # p_pid[p]
    BY <1>a, <2>1, UniquePids, Zenon DEF Live
  <2>4. child[r] # c /\ child[r] # p
    BY <1>a, <1>m, <2>2, <2>3, Zenon
  <2>5. /\ p_pid[child[r]] \in Pids
        /\ p_pid[child[r]] # q
        /\ pi_get(pidinfo, p_pid[child[r]]) # NULL
    BY <1>a, <1>m, <2>2, <2>4, UniquePids, Zenon DEF IInv, PidOwned, Live, TypeOK
  <2> QED
    BY <1>j, <1>k, <2>1, <2>2, <2>4, <2>5, Zenon
<1>8. EmbryoChildless'
  BY <1>g, <1>i, <1>k, ZenonT(30) DEF IInv, EmbryoChildless
<1>9. KidsSound'
  <2> SUFFICES ASSUME NEW r \in Procs, NEW k \in kids[r]
               PROVE  (/\ Live(r)
                       /\ pi_get(pidinfo, k) # NULL
                       /\ pi_get(pidinfo, k).pi_ppid = p_pid[r]
                       /\ pc[pi_get(pidinfo, k).pi_proc] # "embryo")'
    BY <1>e, Zenon DEF KidsSound
  <2>1. /\ k \in Pids
        /\ Live(r)
        /\ pi_get(pidinfo, k) # NULL
        /\ pi_get(pidinfo, k).pi_ppid = p_pid[r]
        /\ pc[pi_get(pidinfo, k).pi_proc] # "embryo"
    BY Zenon DEF IInv, TypeOK, KidsSound
  <2>2. k # q
    BY <1>a, <1>b, <2>1, Zenon
  <2>3. pi_get(pidinfo, k) = pidinfo[Slot(k)] /\ Slot(k) \in Used(pidinfo)
    BY <2>1, PidsNat, SlotType, Zenon DEF pi_get, Used
  <2>4. r # c
    BY <1>m, <1>n, <2>1, <2>3, Zenon
  <2>5. pi_get(pidinfo', k) = pi_get(pidinfo, k)
    BY <1>j, <2>1, <2>2, Zenon
  <2>6. pc'[pi_get(pidinfo, k).pi_proc] # "embryo"
    BY <1>k, <1>l, <2>1, <2>3, Zenon
  <2> QED
    BY <1>k, <1>l, <2>1, <2>4, <2>5, <2>6, Zenon
<1>10. KidsComplete'
  <2> SUFFICES ASSUME NEW i \in Used(pidinfo'), NEW r \in Procs, Live(r)',
                      (pidinfo[i].pi_ppid = p_pid[r])'
               PROVE  (\/ pidinfo[i].pi_pid \in kids[r]
                       \/ pc[r] = "fork" /\ p_pid[child[r]] = pidinfo[i].pi_pid)'
    BY Zenon DEF KidsComplete
  <2>0. /\ pidinfo'[i] = pidinfo[i]
        /\ kids' = kids
        /\ Live(r)
        /\ r # c
        /\ pidinfo[i].pi_ppid = p_pid[r]
    BY <1>e, <1>i, <1>k, <1>l, Zenon
  <2>1. i \in Used(pidinfo) /\ pidinfo[i].pi_pid # q
    BY <1>g, <1>i, Zenon
  <2>2. \/ pidinfo[i].pi_pid \in kids[r]
        \/ pc[r] = "fork" /\ p_pid[child[r]] = pidinfo[i].pi_pid
    BY <2>0, <2>1, Zenon DEF IInv, KidsComplete
  <2>3. r = p => pidinfo[i].pi_pid \in kids[r]
    BY <1>m, <2>1, <2>2, Zenon DEF c
  <2>4. CASE r # p /\ pc[r] = "fork" /\ p_pid[child[r]] = pidinfo[i].pi_pid
    <3>1. child[r] \in Procs /\ child[r] # c
      BY <1>m, <2>1, <2>4, Zenon DEF IInv, ForkSound
    <3> QED
      BY <1>k, <2>0, <2>4, <3>1, Zenon
  <2> QED
    BY <2>0, <2>2, <2>3, <2>4, Zenon
<1> QED
  BY <1>1, <1>2, <1>3, <1>4, <1>5, <1>6, <1>7, <1>8, <1>9, <1>10, Zenon DEF IInv

\* pid_alloc: the new pid n is nobody's pid and nobody's parent.
LEMMA ForkAllocIInv ==
    ASSUME Counting, IInv, NEW p \in Procs, NEW c \in Procs, ForkAlloc(p, c)
    PROVE  IInv'
<1> DEFINE n == Candidate
           s == Slot(n)
           e == pidinfo_create(n, p_pid[p], c)
<1>a. pc[p] = "user" /\ pc[c] = "none" /\ c # p /\ Live(p) /\ ~Live(c)
  BY Zenon DEF ForkAlloc, Unused, Live
<1>b. /\ n \in PID_MIN .. PID_MAX
      /\ n \in Pids
      /\ s \in Slots
      /\ pidinfo[s] = NULL
      /\ Advance(n, 1) \in PID_MIN .. PID_MAX
  BY FreeSlot, CandidateType, PidsNat, SlotType, Zenon
     DEF ForkAlloc, pid_alloc, IInv, TypeOK
<1>c. p_pid[p] # INVALID_PID /\ Stops # {}
  BY <1>a, LiveEntry, FreeSlot, Zenon DEF ForkAlloc, pid_alloc
<1>d. /\ pidinfo' = [pidinfo EXCEPT ![s] = e]
      /\ nprocs' = nprocs + 1
      /\ nextpid' = Advance(n, 1)
      /\ p_pid' = [p_pid EXCEPT ![c] = n]
      /\ panic' = panic
  BY <1>c, Zenon DEF ForkAlloc, pid_alloc
<1>e. /\ pc' = [pc EXCEPT ![p] = "fork", ![c] = "embryo"]
      /\ child' = [child EXCEPT ![p] = c]
      /\ exitcode' = [exitcode EXCEPT ![c] = NoStatus]
      /\ got' = [got EXCEPT ![c] = NoStatus]
      /\ UNCHANGED <<wpid, kids>>
  BY Zenon DEF ForkAlloc
<1>f. /\ e \in PidInfo
      /\ e.pi_pid = n
      /\ e.pi_ppid = p_pid[p]
      /\ e.pi_proc = c
      /\ ~e.pi_exited
  <2>1. p_pid[p] \in Pids
    BY Zenon DEF IInv, TypeOK
  <2>2. e \in PidInfo
    BY <1>b, <2>1, Zenon DEF pidinfo_create, PidInfo
  <2> QED
    BY <2>2, Zenon DEF pidinfo_create
<1>g. \A i \in Used(pidinfo) : pidinfo[i].pi_proc \in Procs /\ pidinfo[i].pi_proc # c
  BY Zenon DEF Used, IInv, TypeOK, PidInfo, ForkAlloc, Unused
<1> HIDE DEF n, e
<1>h. /\ pidinfo'[s] = e
      /\ s \notin Used(pidinfo)
      /\ Used(pidinfo') = Used(pidinfo) \cup {s}
      /\ \A i \in Used(pidinfo) : pidinfo'[i] = pidinfo[i]
  BY <1>b, <1>d, <1>f, NullAssumption, Zenon DEF Used, IInv, TypeOK
<1>i. /\ \A r \in Procs : p_pid'[r] = IF r = c THEN n ELSE p_pid[r]
      /\ \A r \in Procs : child'[r] = IF r = p THEN c ELSE child[r]
      /\ pc'[p] = "fork"
      /\ pc'[c] = "embryo"
      /\ \A r \in Procs : r # p /\ r # c => pc'[r] = pc[r]
  BY <1>a, <1>d, <1>e, Zenon DEF IInv, TypeOK
<1>j. \A r \in Procs : Live(r)' <=> Live(r) \/ r = c
  BY <1>a, <1>i, Zenon DEF Live
<1>k. \A k \in Pids : pi_get(pidinfo, k) # NULL =>
                          /\ k # n
                          /\ pi_get(pidinfo', k) = pi_get(pidinfo, k)
  <2> SUFFICES ASSUME NEW k \in Pids, pi_get(pidinfo, k) # NULL
               PROVE  k # n /\ pi_get(pidinfo', k) = pi_get(pidinfo, k)
    BY Zenon
  <2>1. Slot(k) \in Used(pidinfo)
    BY PidsNat, SlotType, Zenon DEF Used, pi_get
  <2>2. pidinfo'[Slot(k)] = pidinfo[Slot(k)] /\ k # n
    BY <1>h, <2>1, Zenon
  <2> QED
    BY <2>2, Zenon DEF pi_get
<1> HIDE DEF s
<1>l. \A r \in Procs : Live(r) => /\ p_pid[r] # n
                                  /\ pi_get(pidinfo', p_pid[r]) = pi_get(pidinfo, p_pid[r])
                                  /\ r # c
  BY <1>a, <1>k, Zenon DEF IInv, PidOwned, TypeOK
<1>m. \A i \in Used(pidinfo) : pidinfo[i].pi_ppid # n
  <2>1. n # INVALID_PID
    BY <1>b, ValidPid, Zenon
  <2> QED
    BY <1>l, <2>1, Zenon DEF IInv, ParentsLive
<1>n. pi_get(pidinfo', n) = e
  BY <1>f, <1>h, NullAssumption, Zenon DEF pi_get, s
<1>1. TypeOK'
  <2>1. pidinfo' \in [Slots -> PidInfo \cup {NULL}]
    BY <1>b, <1>d, <1>f, Zenon DEF IInv, TypeOK
  <2>2. nextpid' \in PID_MIN .. PID_MAX /\ nprocs' \in Int
    BY <1>b, <1>d DEF IInv, TypeOK
  <2>3. p_pid' \in [Procs -> Pids] /\ panic' \in BOOLEAN
    BY <1>b, <1>d, Zenon DEF IInv, TypeOK
  <2>4. pc' \in [Procs -> Places] /\ child' \in [Procs -> Procs \cup {NULL}]
    BY <1>e, Zenon DEF IInv, TypeOK, Places
  <2>5. /\ exitcode' \in [Procs -> Status \cup {NoStatus}]
        /\ got' \in [Procs -> Status \cup {NoStatus}]
    BY <1>e, Zenon DEF IInv, TypeOK
  <2> QED
    BY <1>e, <2>1, <2>2, <2>3, <2>4, <2>5, Zenon DEF IInv, TypeOK
<1>2. (NoPanic /\ TableConsistent /\ EntryPids)'
  <2>1. NoPanic'
    BY <1>d, Zenon DEF IInv, NoPanic
  <2>2. Cardinality(Used(pidinfo')) = nprocs'
    BY <1>d, <1>h, Zenon DEF IInv, TableConsistent, Counting, Used
  <2>3. TableConsistent'
    BY <1>f, <1>h, <2>2, Zenon DEF IInv, TableConsistent, s
  <2>4. EntryPids'
    <3>1. /\ e.pi_pid # INVALID_PID
          /\ e.pi_ppid # e.pi_pid
          /\ e.pi_pid >= PID_MIN
      BY <1>a, <1>b, <1>f, <1>l, ValidPid, Zenon
    <3>2. \A i \in Used(pidinfo) :
              /\ pidinfo[i].pi_pid # INVALID_PID
              /\ pidinfo[i].pi_ppid # pidinfo[i].pi_pid
              /\ pidinfo[i].pi_ppid # INVALID_PID => pidinfo[i].pi_pid >= PID_MIN
      BY Zenon DEF IInv, EntryPids
    <3> QED
      BY <1>h, <3>1, <3>2, Zenon DEF EntryPids
  <2> QED
    BY <2>1, <2>3, <2>4, Zenon
<1>3. ParentsLive'
  <2> SUFFICES ASSUME NEW i \in Used(pidinfo')
               PROVE  (IF pidinfo[i].pi_ppid = INVALID_PID
                       THEN ~pidinfo[i].pi_exited
                       ELSE \E r \in Procs : Live(r) /\ p_pid[r] = pidinfo[i].pi_ppid)'
    BY Zenon DEF ParentsLive
  <2>1. CASE i = s
    BY <1>a, <1>c, <1>f, <1>h, <1>i, <1>j, <2>1, ZenonT(30)
  <2>2. CASE i \in Used(pidinfo)
    <3>1. pidinfo'[i] = pidinfo[i]
      BY <1>h, <2>2, Zenon
    <3>2. CASE pidinfo[i].pi_ppid = INVALID_PID
      BY <2>2, <3>1, <3>2, Zenon DEF IInv, ParentsLive
    <3>3. CASE pidinfo[i].pi_ppid # INVALID_PID
      <4>1. PICK r \in Procs : Live(r) /\ p_pid[r] = pidinfo[i].pi_ppid
        BY <2>2, <3>3, Zenon DEF IInv, ParentsLive
      <4> QED
        BY <1>i, <1>j, <1>l, <3>1, <3>3, <4>1, Zenon
    <3> QED
      BY <3>2, <3>3, Zenon
  <2> QED
    BY <1>h, <2>1, <2>2, Zenon
<1>4. EntriesOwned'
  <2> SUFFICES ASSUME NEW i \in Used(pidinfo')
               PROVE  (LET r == pidinfo[i].pi_proc
                       IN  IF pidinfo[i].pi_exited THEN ~Live(r)
                           ELSE Live(r) /\ p_pid[r] = pidinfo[i].pi_pid)'
    BY Zenon DEF EntriesOwned
  <2>1. CASE i = s
    BY <1>f, <1>h, <1>i, <1>j, <2>1, Zenon
  <2>2. CASE i \in Used(pidinfo)
    BY <1>g, <1>h, <1>i, <1>j, <2>2 DEF IInv, EntriesOwned
  <2> QED
    BY <1>h, <2>1, <2>2, Zenon
<1>5. PidOwned'
  <2> SUFFICES ASSUME NEW r \in Procs
               PROVE  (IF Live(r)
                       THEN LET us == pi_get(pidinfo, p_pid[r])
                            IN  us # NULL /\ us.pi_proc = r /\ ~us.pi_exited
                       ELSE p_pid[r] = INVALID_PID)'
    BY Zenon DEF PidOwned
  <2>1. CASE r = c
    BY <1>f, <1>i, <1>j, <1>n, <2>1, NullAssumption
  <2>2. CASE r # c
    <3>1. p_pid'[r] = p_pid[r] /\ (Live(r)' <=> Live(r))
      BY <1>i, <1>j, <2>2, Zenon
    <3>2. CASE Live(r)
      <4>1. /\ pi_get(pidinfo, p_pid[r]) # NULL
            /\ pi_get(pidinfo, p_pid[r]).pi_proc = r
            /\ ~pi_get(pidinfo, p_pid[r]).pi_exited
        BY <3>2, Zenon DEF IInv, PidOwned
      <4>2. pi_get(pidinfo', p_pid[r]) = pi_get(pidinfo, p_pid[r])
        BY <1>l, <3>2, Zenon
      <4> QED
        BY <3>1, <3>2, <4>1, <4>2, Zenon
    <3>3. CASE ~Live(r)
      BY <3>1, <3>3, Zenon DEF IInv, PidOwned
    <3> QED
      BY <3>2, <3>3, Zenon
  <2> QED
    BY <2>1, <2>2, Zenon
<1>6. WaitSound'
  <2> SUFFICES ASSUME NEW r \in Procs, pc'[r] \in {"sleep", "woken"}
               PROVE  (LET them == pi_get(pidinfo, wpid[r])
                       IN  /\ them # NULL
                           /\ them.pi_ppid = p_pid[r]
                           /\ (them.pi_exited <=> pc[r] = "woken"))'
    BY Zenon DEF WaitSound
  <2>1. r # p /\ r # c /\ pc'[r] = pc[r] /\ wpid'[r] = wpid[r] /\ p_pid'[r] = p_pid[r]
    BY <1>e, <1>i, Zenon
  <2>2. wpid[r] \in Pids /\ pi_get(pidinfo, wpid[r]) # NULL
    BY <2>1, Zenon DEF IInv, WaitSound, TypeOK
  <2> QED
    BY <1>k, <2>1, <2>2, Zenon DEF IInv, WaitSound
<1>7. ForkSound'
  <2> SUFFICES ASSUME NEW r \in Procs, pc'[r] = "fork"
               PROVE  (/\ child[r] \in Procs
                       /\ pc[child[r]] = "embryo"
                       /\ pi_get(pidinfo, p_pid[child[r]]).pi_ppid = p_pid[r])'
    BY Zenon DEF ForkSound
  <2>1. CASE r = p
    BY <1>a, <1>f, <1>i, <1>n, <2>1, Zenon
  <2>2. CASE r # p
    <3>1. r # c /\ pc[r] = "fork"
      BY <1>i, <2>2, Zenon
    <3>2. /\ child[r] \in Procs
          /\ pc[child[r]] = "embryo"
          /\ pi_get(pidinfo, p_pid[child[r]]).pi_ppid = p_pid[r]
      BY <3>1, Zenon DEF IInv, ForkSound
    <3>3. child[r] # p /\ child[r] # c /\ Live(child[r])
      BY <1>a, <3>2, Zenon DEF Live
    <3> QED
      BY <1>i, <1>l, <2>2, <3>1, <3>2, <3>3, Zenon
  <2> QED
    BY <2>1, <2>2, Zenon
<1>8. EmbryoChildless'
  <2> SUFFICES ASSUME NEW r \in Procs, pc'[r] = "embryo", NEW i \in Used(pidinfo')
               PROVE  (pidinfo[i].pi_ppid # p_pid[r])'
    BY Zenon DEF EmbryoChildless
  <2>1. CASE i = s
    <3>1. r = c => p_pid[p] # n
      BY <1>a, <1>l, Zenon
    <3>2. r # c => p_pid[p] # p_pid[r]
      BY <1>a, <1>i, UniquePids, Zenon DEF Live
    <3> QED
      BY <1>f, <1>h, <1>i, <2>1, <3>1, <3>2, Zenon
  <2>2. CASE i \in Used(pidinfo)
    BY <1>h, <1>i, <1>m, <2>2 DEF IInv, EmbryoChildless
  <2> QED
    BY <1>h, <2>1, <2>2, Zenon
<1>9. KidsSound'
  <2> SUFFICES ASSUME NEW r \in Procs, NEW k \in kids[r]
               PROVE  (/\ Live(r)
                       /\ pi_get(pidinfo, k) # NULL
                       /\ pi_get(pidinfo, k).pi_ppid = p_pid[r]
                       /\ pc[pi_get(pidinfo, k).pi_proc] # "embryo")'
    BY <1>e, Zenon DEF KidsSound
  <2>1. /\ k \in Pids
        /\ Live(r)
        /\ pi_get(pidinfo, k) # NULL
        /\ pi_get(pidinfo, k).pi_ppid = p_pid[r]
        /\ pc[pi_get(pidinfo, k).pi_proc] # "embryo"
    BY Zenon DEF IInv, TypeOK, KidsSound
  <2>2. pi_get(pidinfo, k) = pidinfo[Slot(k)] /\ Slot(k) \in Used(pidinfo)
    BY <2>1, PidsNat, SlotType, Zenon DEF pi_get, Used
  <2>3. pc'[pi_get(pidinfo, k).pi_proc] # "embryo"
    BY <1>g, <1>i, <2>1, <2>2, Zenon
  <2> QED
    BY <1>i, <1>j, <1>k, <1>l, <2>1, <2>3, Zenon
<1>10. KidsComplete'
  <2> SUFFICES ASSUME NEW i \in Used(pidinfo'), NEW r \in Procs, Live(r)',
                      (pidinfo[i].pi_ppid = p_pid[r])'
               PROVE  (\/ pidinfo[i].pi_pid \in kids[r]
                       \/ pc[r] = "fork" /\ p_pid[child[r]] = pidinfo[i].pi_pid)'
    BY Zenon DEF KidsComplete
  <2>0. kids' = kids
    BY <1>e, Zenon
  <2>1. CASE i = s
    <3>1. p_pid'[r] = p_pid[p]
      BY <1>f, <1>h, <2>1, Zenon
    <3>2. r = p
      BY <1>a, <1>i, <1>j, <1>l, <3>1, UniquePids, Zenon
    <3> QED
      BY <1>f, <1>h, <1>i, <2>1, <3>2, Zenon
  <2>2. CASE i \in Used(pidinfo)
    <3>1. pidinfo'[i] = pidinfo[i] /\ r # c
      BY <1>h, <1>i, <1>m, <2>2, Zenon
    <3>2. Live(r) /\ pidinfo[i].pi_ppid = p_pid[r]
      BY <1>i, <1>j, <3>1, Zenon
    <3>3. \/ pidinfo[i].pi_pid \in kids[r]
          \/ pc[r] = "fork" /\ p_pid[child[r]] = pidinfo[i].pi_pid
      BY <2>2, <3>2, Zenon DEF IInv, KidsComplete
    <3>4. CASE pc[r] = "fork" /\ p_pid[child[r]] = pidinfo[i].pi_pid
      <4>1. r # p /\ child[r] \in Procs /\ child[r] # c
        BY <1>a, <3>4, Zenon DEF IInv, ForkSound
      <4> QED
        BY <1>i, <3>1, <3>4, <4>1, Zenon
    <3> QED
      BY <2>0, <3>1, <3>3, <3>4, Zenon
  <2> QED
    BY <1>h, <2>1, <2>2, Zenon
<1> QED
  BY <1>1, <1>2, <1>3, <1>4, <1>5, <1>6, <1>7, <1>8, <1>9, <1>10, Zenon DEF IInv

=============================================================================

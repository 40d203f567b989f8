----------------------------- MODULE ProcProofs -----------------------------
(***************************************************************************)
(* The theorems about Proc, for every table size, pid range and set of     *)
(* processes: the invariants, what a step may do to a zombie, and that the *)
(* table implements WaitExit.                                              *)
(***************************************************************************)
EXTENDS ProcExitSteps, FiniteSetTheorems

\* A nonempty set of naturals has a least element.
LEMMA LeastNatural ==
    ASSUME NEW S \in SUBSET Nat, S # {}
    PROVE  \E k \in S : \A j \in S : k <= j
<1> DEFINE T == {0 .. k : k \in S}
<1>1. T \subseteq FiniteSubsetsOf(Nat)
  <2> SUFFICES ASSUME NEW k \in S PROVE 0 .. k \in FiniteSubsetsOf(Nat)
    BY Zenon
  <2>1. IsFiniteSet(0 .. k)
    BY FS_Interval
  <2> QED
    BY <2>1 DEF FiniteSubsetsOf
<1>2. T # {}
  BY Zenon
<1>3. PICK x \in T : \A y \in T : <<y, x>> \notin StrictSubsetOrdering(Nat)
  <2> HIDE DEF T
  <2> QED
    BY <1>1, <1>2, FS_StrictSubsetOrderingWellFounded, WFMin, Zenon
<1>4. PICK k \in S : x = 0 .. k
  BY <1>3, Zenon
<1>5. ASSUME NEW j \in S, j < k PROVE FALSE
  <2>1. /\ 0 .. j \in SUBSET Nat
        /\ 0 .. k \in SUBSET Nat
        /\ 0 .. j \subseteq 0 .. k
        /\ k \in 0 .. k
        /\ k \notin 0 .. j
    BY <1>5
  <2>2. <<0 .. j, 0 .. k>> \in StrictSubsetOrdering(Nat)
    BY <2>1, Zenon DEF StrictSubsetOrdering
  <2> QED
    BY <1>3, <1>4, <2>2, Zenon
<1> QED
  BY <1>4, <1>5

\* The facts about counting hold: the slots are finitely many.
LEMMA CountingHolds == Counting
<1>1. 0 \in Int /\ PROCS_MAX - 1 \in Int /\ PROCS_MAX \in Nat \ {0}
  BY SizeAssumption
<1>2. IsFiniteSet(Slots) /\ Cardinality(Slots) = PROCS_MAX
  BY <1>1, FS_Interval DEF Slots
<1>3. \A s \in Slots : Cardinality({s}) = 1
  BY FS_Singleton, Zenon
<1>4. ASSUME NEW S \in SUBSET Slots
      PROVE  IsFiniteSet(S) /\ Cardinality(S) \in Nat
  BY <1>2, FS_Subset, FS_CardinalityType, Zenon
<1>5. ASSUME NEW S \in SUBSET Slots, NEW s \in Slots \ S
      PROVE  Cardinality(S \cup {s}) = Cardinality(S) + 1
  BY <1>4, FS_AddElement, Zenon
<1>6. ASSUME NEW S \in SUBSET Slots, NEW s \in S
      PROVE  Cardinality(S \ {s}) = Cardinality(S) - 1
  BY <1>4, FS_RemoveElement, Zenon
<1>7. ASSUME NEW S \in SUBSET Slots, NEW T \in SUBSET S
      PROVE  Cardinality(S \ T) = Cardinality(S) - Cardinality(T)
  <2>1. S \cap T = T /\ T \in SUBSET Slots
    BY Zenon
  <2>2. IsFiniteSet(S) /\ IsFiniteSet(T)
    BY <1>4, <2>1, Zenon
  <2>3. Cardinality(S \ T) = Cardinality(S) - Cardinality(S \cap T)
    BY <2>2, FS_Difference, ZenonT(30)
  <2> QED
    BY <2>1, <2>3, Zenon
<1>8. \A S \in SUBSET Nat : S # {} => \E k \in S : \A j \in S : k <= j
  BY LeastNatural, Zenon
<1> QED
  BY <1>2, <1>3, <1>4, <1>5, <1>6, <1>7, <1>8, Zenon DEF Counting

\* Every step of fork, wait, disown and exit preserves the invariant.
LEMMA NextIInv ==
    ASSUME Counting, IInv, [Next]_vars
    PROVE  IInv'
<1>1. ASSUME NEW p \in Procs, NEW c \in Procs, ForkAlloc(p, c) PROVE IInv'
  BY <1>1, ForkAllocIInv, Zenon
<1>2. ASSUME NEW p \in Procs, ForkEagain(p) PROVE IInv'
  BY <1>2, ForkEagainIInv, Zenon
<1>3. ASSUME NEW p \in Procs, ForkEnomem(p) PROVE IInv'
  BY <1>3, ForkEnomemIInv, Zenon
<1>4. ASSUME NEW p \in Procs, ForkUndo(p) PROVE IInv'
  BY <1>4, ForkUndoIInv, ZenonT(30)
<1>5. ASSUME NEW p \in Procs, ForkDone(p) PROVE IInv'
  BY <1>5, ForkDoneIInv, Zenon
<1>6. ASSUME NEW p \in Procs, NEW q \in Pids, WaitCollect(p, q) PROVE IInv'
  BY <1>6, WaitCollectIInv, Zenon
<1>7. ASSUME NEW p \in Procs, NEW q \in Pids, WaitSleep(p, q) PROVE IInv'
  BY <1>7, WaitSleepIInv, Zenon
<1>8. ASSUME NEW p \in Procs, WaitResume(p) PROVE IInv'
  BY <1>8, WaitResumeIInv, Zenon
<1>9. ASSUME NEW p \in Procs, NEW q \in Pids, Disown(p, q) PROVE IInv'
  BY <1>9, DisownIInv, Zenon
<1>10. ASSUME NEW p \in Procs, NEW status \in Status, Exit(p, status) PROVE IInv'
  BY <1>10, ExitIInv, ZenonT(30)
<1>11. ASSUME NEW p \in Procs, Destroy(p) PROVE IInv'
  BY <1>11, DestroyIInv, Zenon
<1>12. CASE UNCHANGED vars
  <2>1. nextpid' \in PID_MIN .. PID_MAX
    BY <1>12, Zenon DEF vars, pidVars, IInv, TypeOK
  <2> QED
    BY <1>12, <2>1, StutterIInv, Zenon DEF vars, pidVars, procVars
<1> QED
  BY <1>1, <1>2, <1>3, <1>4, <1>5, <1>6, <1>7, <1>8, <1>9, <1>10, <1>11, <1>12, Zenon
     DEF Next

\* The inductive invariant holds in every reachable state.
THEOREM Invariance == Spec => []IInv
<1>1. Init => IInv
  BY InitIInv, CountingHolds, Zenon
<1>2. IInv /\ [Next]_vars => IInv'
  BY NextIInv, CountingHolds, Zenon
<1> QED
  BY <1>1, <1>2, PTL DEF Spec

\* The fields of struct proc and struct pidinfo keep their types.
THEOREM TypeCorrect == Spec => []TypeOK
<1>1. IInv => TypeOK
  BY Zenon DEF IInv
<1> QED
  BY <1>1, Invariance, PTL

\* For every size of the table, every number of processes and every range of
\* pids that holds 2 * PROCS_MAX + 5 candidates, no KASSERT of pid.c or of
\* proc_destroy fails in any interleaving of fork, wait, disown and exit.
THEOREM AssertionsHold == Spec => []NoPanic
<1>1. IInv => NoPanic
  BY Zenon DEF IInv
<1> QED
  BY <1>1, Invariance, PTL

\* The hash table and nprocs agree with each other.
THEOREM TableCorrect == Spec => []TableConsistent
<1>1. IInv => TableConsistent
  BY Zenon DEF IInv
<1> QED
  BY <1>1, Invariance, PTL

\* No two live processes share a pid, and a pid is not reused while a parent
\* may still wait for it.
THEOREM PidsOwned == Spec => []PidOwned
<1>1. IInv => PidOwned
  BY Zenon DEF IInv
<1> QED
  BY <1>1, Invariance, PTL

\* A recorded parent is alive, and a zombie has one.
THEOREM ParentsAlive == Spec => []ParentsLive
<1>1. IInv => ParentsLive
  BY Zenon DEF IInv
<1> QED
  BY <1>1, Invariance, PTL

\* pid_wait may use its pointer after cv_wait without testing again.
THEOREM WaitCorrect == Spec => []WaitSound
<1>1. IInv => WaitSound
  BY Zenon DEF IInv
<1> QED
  BY <1>1, Invariance, PTL

\* pid_wait accepts exactly the children not waited for yet.
THEOREM WaitOwnKids == Spec => []WaitExactlyOwnKids
<1>1. ASSUME IInv PROVE WaitExactlyOwnKids
  <2> SUFFICES ASSUME NEW p \in Procs, pc[p] = "user", NEW q \in Pids
               PROVE  (pid_wait_check(p, q) \in {"sleep", "collect"}) <=> (q \in kids[p])
    BY Zenon DEF WaitExactlyOwnKids
  <2>0. TypeOK /\ Live(p)
    BY <1>1, Zenon DEF IInv, Live
  <2>1. ASSUME pid_wait_check(p, q) \in {"sleep", "collect"}
        PROVE  q \in kids[p]
    <3>1. pi_get(pidinfo, q) # NULL /\ pi_get(pidinfo, q).pi_ppid = p_pid[p]
      BY <2>0, <2>1, WaitCheck, Zenon
    <3>2. /\ Slot(q) \in Used(pidinfo)
          /\ pidinfo[Slot(q)].pi_pid = q
          /\ pidinfo[Slot(q)].pi_ppid = p_pid[p]
      BY <3>1, PidsNat, SlotType, Zenon DEF pi_get, Used
    <3> QED
      BY <1>1, <2>0, <3>2, ZenonT(30) DEF IInv, KidsComplete
  <2>2. ASSUME q \in kids[p]
        PROVE  pid_wait_check(p, q) \in {"sleep", "collect"}
    <3>1. pi_get(pidinfo, q) # NULL /\ pi_get(pidinfo, q).pi_ppid = p_pid[p]
      BY <1>1, <2>2, Zenon DEF IInv, KidsSound
    <3>2. /\ Slot(q) \in Used(pidinfo)
          /\ pidinfo[Slot(q)].pi_pid = q
          /\ pidinfo[Slot(q)].pi_ppid = p_pid[p]
      BY <3>1, PidsNat, SlotType, Zenon DEF pi_get, Used
    <3>3. q # p_pid[p] /\ q # INVALID_PID
      BY <1>1, <3>2, Zenon DEF IInv, EntryPids
    <3>4. q \in Nat /\ ~(q <= INVALID_PID) /\ q > INVALID_PID
      BY <3>3, PidsNat DEF INVALID_PID
    <3> QED
      BY <3>1, <3>3, <3>4, ZenonT(30) DEF pid_wait_check
  <2> QED
    BY <2>1, <2>2, Zenon
<1> QED
  BY <1>1, Invariance, PTL

-----------------------------------------------------------------------------
(* The refinement of WaitExit, continued: disown, exit and the whole of Next. *)

\* pid_disown is Disown: an exited child is freed, a running one loses its parent.
LEMMA DisownRefines ==
    ASSUME RInv, IInv', NEW p \in Procs, NEW q \in Pids, Disown(p, q)
    PROVE  RInv' /\ Abs!Next
<1>1. /\ pc[p] = "user" /\ q \in kids[p] /\ pid_disown(p, q)
      /\ pc' = pc /\ exitcode' = exitcode /\ got' = got
  BY Zenon DEF Disown
<1>2. /\ pi_get(pidinfo, q) # NULL /\ pi_get(pidinfo, q).pi_ppid = p_pid[p]
      /\ pc[pi_get(pidinfo, q).pi_proc] # "embryo" /\ Live(p)
  BY <1>1, Zenon DEF RInv, IInv, KidsSound
<1>3. pidinfo[Slot(q)] = pi_get(pidinfo, q)
  BY <1>2, ZenonT(30) DEF pi_get
<1>4. PICK s \in Used(pidinfo) : s = Slot(q)
  BY <1>2, PidsNat, SlotType, Zenon DEF pi_get, Used
<1>5. pidinfo' = [pidinfo EXCEPT ![s] = Disowned(pidinfo[s])] /\ p_pid' = p_pid
  BY <1>1, <1>2, <1>3, <1>4, Zenon DEF pid_disown
<1>6. pidinfo[s] \in PidInfo /\ s \in Slots /\ pidinfo \in [Slots -> PidInfo \cup {NULL}]
  BY Zenon DEF RInv, IInv, TypeOK, Used
<1>7. CASE pidinfo[s].pi_exited
  <2>1. pidinfo' = [pidinfo EXCEPT ![Slot(q)] = NULL]
    BY <1>4, <1>5, <1>7, Zenon DEF Disowned
  <2>2. pidinfo[Slot(q)].pi_exited /\ pidinfo[Slot(q)].pi_ppid = p_pid[p]
    BY <1>2, <1>3, <1>4, <1>7, Zenon
  <2>a. \A d \in Procs : pc'[d] = pc[d] \/ (pc[d] = "woken" /\ pc'[d] = "user")
    BY <1>1, Zenon
  <2>b. p_pid' = p_pid /\ exitcode' = exitcode
    BY <1>1, <1>5, Zenon
  <2>c. Live(p) /\ pi_get(pidinfo, q) # NULL
    BY <1>2, Zenon
  <2>3. /\ RInv'
        /\ \E c \in Procs :
              /\ stBar[c] = "zombie" /\ parentBar[c] = p
              /\ exitcode[c] = pidinfo[Slot(q)].pi_exitstatus
              /\ stBar' = [stBar EXCEPT ![c] = "free"]
              /\ parentBar' = [parentBar EXCEPT ![c] = NULL]
    BY <2>a, <2>b, <2>c, <2>1, <2>2, CollectBars, ZenonT(30)
  <2>4. PICK c \in Procs :
              /\ stBar[c] = "zombie" /\ parentBar[c] = p
              /\ stBar' = [stBar EXCEPT ![c] = "free"]
              /\ parentBar' = [parentBar EXCEPT ![c] = NULL]
    BY <2>3, Zenon
  <2>5. stBar' = [stBar EXCEPT ![c] = IF @ = "zombie" THEN "free" ELSE @]
    BY <2>4, Zenon
  <2>6. Abs!Disown(p, c)
    BY <1>1, <2>4, <2>5, Zenon DEF Abs!Disown
  <2> QED
    BY <2>3, <2>6, Zenon DEF Abs!Next
<1>8. CASE ~pidinfo[s].pi_exited
  <2>1. PICK c \in Procs : c = pidinfo[s].pi_proc
    BY <1>6, Zenon DEF PidInfo
  <2>2. Live(c) /\ pc[c] # "embryo"
    BY <1>2, <1>3, <1>4, <1>8, <2>1, ZenonT(30) DEF RInv, IInv, EntriesOwned
  <2>3. PICK e \in PidInfo : e = [pidinfo[s] EXCEPT !.pi_ppid = INVALID_PID]
    <3>1. INVALID_PID \in Pids
      BY SizeAssumption DEF INVALID_PID, Pids, PID_MIN
    <3> QED
      BY <1>6, <3>1, Zenon DEF PidInfo
  <2>4. e.pi_proc = c /\ e.pi_ppid = INVALID_PID /\ (e.pi_exited <=> pidinfo[s].pi_exited)
    BY <1>6, <2>1, <2>3, Zenon DEF PidInfo
  <2>5. pidinfo' = [pidinfo EXCEPT ![s] = e]
    BY <1>5, <1>8, <2>3, Zenon DEF Disowned
  <2>6. /\ pidinfo'[s] = e /\ \A i \in Slots : i # s => pidinfo'[i] = pidinfo[i]
        /\ Used(pidinfo)' = Used(pidinfo)
    <3>1. pidinfo'[s] = e /\ \A i \in Slots : i # s => pidinfo'[i] = pidinfo[i]
      BY <1>6, <2>5, Zenon
    <3>2. e # NULL
      BY NullAssumption, Zenon
    <3> QED
      BY <1>4, <3>1, <3>2, Zenon DEF Used
  <2>7. /\ \A i \in Used(pidinfo) : i \in Slots /\ pidinfo'[i].pi_proc = pidinfo[i].pi_proc
        /\ \A i \in Used(pidinfo) : i # s => pidinfo'[i] = pidinfo[i]
    BY <2>1, <2>4, <2>6, Zenon DEF Used
  <2>8. RInv'
    <3>1. OneEntry'
      BY <2>6, <2>7, Zenon DEF RInv, OneEntry
    <3>2. ASSUME NEW i \in Used(pidinfo), pidinfo'[i].pi_exited
          PROVE  pidinfo'[i].pi_exitstatus = exitcode'[pidinfo'[i].pi_proc]
      <4>1. i # s
        BY <1>8, <2>4, <2>6, <3>2, ZenonT(30)
      <4>2. pidinfo'[i] = pidinfo[i]
        BY <2>7, <4>1, Zenon
      <4> QED
        BY <1>1, <3>2, <4>2, Zenon DEF RInv, StatusKept
    <3>3. StatusKept'
      BY <2>6, <3>2, Zenon DEF StatusKept
    <3> QED
      BY <3>1, <3>3, ZenonT(30) DEF RInv
  <2>9. \A d \in Procs : HasEntry(d)' = HasEntry(d)
    <3>1. \A d \in Procs : /\ HasEntry(d) <=> \E i \in Used(pidinfo) : pidinfo[i].pi_proc = d
                           /\ HasEntry(d)' <=> \E i \in Used(pidinfo)' : pidinfo'[i].pi_proc = d
                           /\ HasEntry(d) \in BOOLEAN /\ HasEntry(d)' \in BOOLEAN
      BY Zenon DEF HasEntry, Used
    <3> QED
      BY <2>6, <2>7, <3>1, ZenonT(30)
  <2>10. ASSUME NEW d \in Procs, NEW r \in Procs
         PROVE  IsParent(r, d)' <=> IsParent(r, d) /\ d # c
    <3>1. ASSUME IsParent(r, d)' PROVE IsParent(r, d) /\ d # c
      <4>1. PICK i \in Used(pidinfo) : /\ pidinfo'[i].pi_proc = d /\ pidinfo'[i].pi_ppid = p_pid[r]
                                       /\ p_pid[r] # INVALID_PID
        BY <1>5, <2>6, <3>1, Zenon DEF IsParent
      <4>2. i # s
        BY <2>4, <2>6, <4>1, Zenon
      <4>3. pidinfo'[i] = pidinfo[i]
        BY <2>7, <4>2, ZenonT(30)
      <4>4. d # c
        BY <2>1, <4>1, <4>2, <4>3, Zenon DEF RInv, OneEntry
      <4> QED
        BY <4>1, <4>3, <4>4, ZenonT(30) DEF IsParent
    <3>2. ASSUME IsParent(r, d), d # c PROVE IsParent(r, d)'
      <4>1. PICK i \in Used(pidinfo) : /\ pidinfo[i].pi_proc = d /\ pidinfo[i].pi_ppid = p_pid[r]
                                       /\ p_pid[r] # INVALID_PID
        BY <3>2, ZenonT(30) DEF IsParent
      <4>2. i # s
        BY <2>1, <3>2, <4>1, Zenon
      <4>3. pidinfo'[i] = pidinfo[i]
        BY <2>7, <4>2, Zenon
      <4> QED
        BY <1>5, <2>6, <4>1, <4>3, Zenon DEF IsParent
    <3> QED
      BY <3>1, <3>2, Zenon
  <2>11. parentBar[c] = p
    <3>1. p_pid[p] # INVALID_PID
      BY <1>2, LiveEntry, ZenonT(30) DEF RInv
    <3>2. IsParent(p, c)
      BY <1>2, <1>3, <1>4, <2>1, <3>1, Zenon DEF IsParent
    <3> QED
      BY <3>2, ParentIs, Zenon
  <2>12. parentBar' = [parentBar EXCEPT ![c] = NULL]
    <3>1. parentBar \in [Procs -> Procs \cup {NULL}]
      BY BarTypes, Zenon
    <3>2. PICK f : f = [parentBar EXCEPT ![c] = NULL]
      BY Zenon
    <3>3. /\ f \in [Procs -> Procs \cup {NULL}]
          /\ \A d \in Procs : f[d] = IF d = c THEN NULL ELSE parentBar[d]
      BY <3>1, <3>2, Zenon
    <3>4. \A d, r \in Procs : IsParent(r, d)' <=> f[d] = r
      BY <2>10, <3>3, ParentIs, ProcsAssumption
    <3> QED
      BY <2>8, <3>2, <3>3, <3>4, ParentBars, Zenon
  <2>13. stBar[c] = "alive"
    BY <2>2, StIs, Zenon DEF StAt, Live
  <2>14. stBar' = stBar
    <3>1. ASSUME NEW d \in Procs PROVE StAt(pc'[d], HasEntry(d)') = stBar[d]
      BY <1>1, <2>9, StIs, ZenonT(30)
    <3> QED
      BY <3>1, BarFunctions, StBars, Zenon
  <2>15. stBar' = [stBar EXCEPT ![c] = IF @ = "zombie" THEN "free" ELSE @]
    BY <2>13, <2>14, BarFunctions, Zenon
  <2>16. Abs!Disown(p, c)
    BY <1>1, <2>11, <2>12, <2>13, <2>15, Zenon DEF Abs!Disown
  <2> QED
    BY <2>8, <2>16, Zenon DEF Abs!Next
<1> QED
  BY <1>7, <1>8, Zenon

\* The statuses in the table after pid_setexitstatus by p: p's own is posted, the
\* others stay.
LEMMA ExitStatuses ==
    ASSUME Counting, IInv, NEW p \in Procs, NEW status \in Status, Exit(p, status)
    PROVE  \A i \in Used(pidinfo') :
               pidinfo'[i].pi_exitstatus =
                   IF i = Slot(p_pid[p]) THEN status ELSE pidinfo[i].pi_exitstatus
<1>1. Live(p) /\ pc[p] = "user"
  BY Zenon DEF Exit, Live
<1>2. PICK s \in Used(pidinfo) : s = Slot(p_pid[p])
  BY <1>1, LiveEntry, Zenon
<1>3. /\ p_pid[p] # INVALID_PID /\ p_pid[p] \in Pids
      /\ pi_get(DisownChildren(p_pid[p]), p_pid[p]) # NULL
  BY <1>1, ExitTable, LiveEntry, Zenon
<1>4. PICK table : table = DisownChildren(p_pid[p])
  BY Zenon
<1>5. \A i \in Slots : table[i] = IF pidinfo[i] # NULL /\ pidinfo[i].pi_ppid = p_pid[p]
                                  THEN Disowned(pidinfo[i]) ELSE pidinfo[i]
  BY <1>4, Zenon DEF DisownChildren
<1>6. table = [i \in Slots |-> table[i]]
  BY <1>4, <1>5, ZenonT(30) DEF DisownChildren
<1>7. PICK us : us = pi_get(table, p_pid[p])
  BY Zenon
<1>8. pidinfo' = [table EXCEPT ![s] = ExitedEntry(us, status)]
  BY <1>2, <1>3, <1>4, <1>7, Zenon DEF Exit, pid_setexitstatus
<1>9. s \in Slots /\ pidinfo[s] \in PidInfo
  BY Zenon DEF IInv, TypeOK, Used
<1>10. /\ pidinfo'[s] = ExitedEntry(us, status)
       /\ \A i \in Slots : i # s => pidinfo'[i] = table[i]
  BY <1>6, <1>8, <1>9, Zenon
<1>11. \A pi \in PidInfo : Disowned(pi) # NULL => Disowned(pi).pi_exitstatus = pi.pi_exitstatus
  BY Zenon DEF Disowned, PidInfo
<1>12. ASSUME NEW i \in Used(pidinfo'), i # s
       PROVE  pidinfo'[i].pi_exitstatus = pidinfo[i].pi_exitstatus
  <2>1. i \in Slots /\ pidinfo'[i] # NULL /\ pidinfo'[i] = table[i]
    BY <1>10, <1>12, Zenon DEF Used
  <2>2. CASE pidinfo[i] # NULL /\ pidinfo[i].pi_ppid = p_pid[p]
    <3>1. pidinfo[i] \in PidInfo /\ pidinfo'[i] = Disowned(pidinfo[i])
      BY <1>5, <2>1, <2>2, ZenonT(30) DEF IInv, TypeOK
    <3> QED
      BY <1>11, <2>1, <3>1, Zenon
  <2>3. CASE ~(pidinfo[i] # NULL /\ pidinfo[i].pi_ppid = p_pid[p])
    BY <1>5, <2>1, <2>3, Zenon
  <2> QED
    BY <2>2, <2>3, ZenonT(30)
<1>13. ASSUME s \in Used(pidinfo') PROVE pidinfo'[s].pi_exitstatus = status
  <2>1. ExitedEntry(us, status) # NULL
    BY <1>10, <1>13, ZenonT(30) DEF Used
  <2>2. ExitedEntry(us, status) = [us EXCEPT !.pi_exited = TRUE, !.pi_exitstatus = status]
    BY <2>1, Zenon DEF ExitedEntry
  <2>3. us = table[s]
    BY <1>2, <1>3, <1>4, <1>7, Zenon DEF pi_get
  <2>4. us \in PidInfo
    <3>1. INVALID_PID \in Pids
      BY SizeAssumption DEF INVALID_PID, Pids, PID_MIN
    <3>2. us # NULL
      BY <1>3, <1>4, <1>7, Zenon
    <3>3. CASE pidinfo[s].pi_ppid = p_pid[p]
      <4>1. us = Disowned(pidinfo[s])
        BY <1>5, <1>9, <2>3, <3>3, ZenonT(30) DEF Used
      <4>2. us = [pidinfo[s] EXCEPT !.pi_ppid = INVALID_PID]
        BY <3>2, <4>1, Zenon DEF Disowned
      <4> QED
        BY <1>9, <3>1, <4>2, Zenon DEF PidInfo
    <3>4. CASE pidinfo[s].pi_ppid # p_pid[p]
      BY <1>5, <1>9, <2>3, <3>4, Zenon
    <3> QED
      BY <3>3, <3>4, ZenonT(30)
  <2>5. [us EXCEPT !.pi_exited = TRUE, !.pi_exitstatus = status].pi_exitstatus = status
    BY <2>4, ZenonT(30) DEF PidInfo
  <2> QED
    BY <1>10, <2>2, <2>5, Zenon
<1> QED
  BY <1>2, <1>12, <1>13, ZenonT(30)

\* The entries of the table after p's exit: they are of the processes they were
\* of, and gone are those of the exited children of p, and p's own if p has no
\* parent.
LEMMA ExitEntries ==
    ASSUME Counting, RInv, IInv', NEW p \in Procs, NEW status \in Status, Exit(p, status)
    PROVE  /\ RInv'
           /\ HasEntry(p)' <=> \E r \in Procs : IsParent(r, p)
           /\ \A c \in Procs : c # p /\ ~Live(c) =>
                 (HasEntry(c)' <=> HasEntry(c) /\ ~IsParent(p, c))
           /\ \A c, r \in Procs : IsParent(r, c)' <=> IsParent(r, c) /\ r # p
<1>0. IInv /\ Live(p) /\ pc[p] = "user" /\ exitcode' = [exitcode EXCEPT ![p] = status]
  BY Zenon DEF Exit, Live, RInv
<1>1. PICK s \in Used(pidinfo) : /\ s = Slot(p_pid[p]) /\ pidinfo[s].pi_proc = p
                                 /\ p_pid[p] # INVALID_PID /\ pidinfo[s].pi_pid = p_pid[p]
  BY <1>0, LiveEntry, ZenonT(30)
<1>2. \A i \in Used(pidinfo') :
         /\ i \in Used(pidinfo)
         /\ pidinfo'[i].pi_proc = pidinfo[i].pi_proc
         /\ pidinfo'[i].pi_exited <=> (pidinfo[i].pi_exited \/ i = s)
         /\ pidinfo'[i].pi_ppid = IF pidinfo[i].pi_ppid = p_pid[p] THEN INVALID_PID
                                  ELSE pidinfo[i].pi_ppid
         /\ (i = s \/ pidinfo[i].pi_exited) => pidinfo'[i].pi_ppid # INVALID_PID
  BY <1>0, <1>1, ExitTable, ZenonT(30)
<1>3. \A i \in Used(pidinfo) :
         (pidinfo[i].pi_ppid # p_pid[p] /\ (i = s => pidinfo[i].pi_ppid # INVALID_PID))
             => i \in Used(pidinfo')
  BY <1>0, <1>1, ExitTable, Zenon
<1>4. \A r \in Procs : p_pid'[r] = IF r = p THEN INVALID_PID ELSE p_pid[r]
  <2>1. p_pid' = [p_pid EXCEPT ![p] = INVALID_PID]
    BY <1>0, ExitTable, ZenonT(30)
  <2> QED
    BY <1>0, <2>1, Zenon DEF IInv, TypeOK
<1>5. \A i \in Used(pidinfo') :
         pidinfo'[i].pi_exitstatus = IF i = s THEN status ELSE pidinfo[i].pi_exitstatus
  BY <1>0, <1>1, ExitStatuses, Zenon
<1>6. \A i, j \in Used(pidinfo) : pidinfo[i].pi_proc = pidinfo[j].pi_proc => i = j
  BY Zenon DEF RInv, OneEntry
<1>7. Used(pidinfo)' = Used(pidinfo')
  BY Zenon DEF Used
<1>8. RInv'
  <2>1. ASSUME NEW i \in Used(pidinfo'), NEW j \in Used(pidinfo'),
               pidinfo'[i].pi_proc = pidinfo'[j].pi_proc
        PROVE  i = j
    BY <1>2, <1>6, <2>1, ZenonT(30)
  <2>2. ASSUME NEW i \in Used(pidinfo'), pidinfo'[i].pi_exited
        PROVE  pidinfo'[i].pi_exitstatus = exitcode'[pidinfo'[i].pi_proc]
    <3>1. exitcode \in [Procs -> Status \cup {NoStatus}]
      BY <1>0, Zenon DEF IInv, TypeOK
    <3>2. CASE i = s
      BY <1>0, <1>1, <1>2, <1>5, <3>1, <3>2
    <3>3. CASE i # s
      <4>1. i \in Used(pidinfo) /\ pidinfo[i].pi_exited /\ pidinfo'[i].pi_proc = pidinfo[i].pi_proc
        BY <1>2, <2>2, <3>3, Zenon
      <4>2. pidinfo[i].pi_proc # p
        BY <1>1, <1>6, <3>3, <4>1, ZenonT(30)
      <4>3. pidinfo[i].pi_proc \in Procs
        BY <1>0, <4>1, ZenonT(30) DEF IInv, TypeOK, Used, PidInfo
      <4>4. pidinfo[i].pi_exitstatus = exitcode[pidinfo[i].pi_proc]
        BY <4>1, Zenon DEF RInv, StatusKept
      <4>5. exitcode'[pidinfo[i].pi_proc] = exitcode[pidinfo[i].pi_proc]
        BY <1>0, <3>1, <4>2, <4>3, Zenon
      <4>6. pidinfo'[i].pi_exitstatus = pidinfo[i].pi_exitstatus
        BY <1>5, <3>3, ZenonT(30)
      <4> QED
        BY <4>1, <4>4, <4>5, <4>6, Zenon
    <3> QED
      BY <3>2, <3>3, Zenon
  <2>3. OneEntry'
    BY <1>7, <2>1, Zenon DEF OneEntry
  <2>4. StatusKept'
    BY <1>7, <2>2, Zenon DEF StatusKept
  <2> QED
    BY <2>3, <2>4, Zenon DEF RInv
<1>9. \A d \in Procs : /\ HasEntry(d) <=> \E i \in Used(pidinfo) : pidinfo[i].pi_proc = d
                       /\ HasEntry(d)' <=> \E i \in Used(pidinfo') : pidinfo'[i].pi_proc = d
  BY ZenonT(30) DEF HasEntry, Used
<1>10. HasEntry(p)' <=> \E r \in Procs : IsParent(r, p)
  <2>1. ASSUME HasEntry(p)' PROVE \E r \in Procs : IsParent(r, p)
    <3>1. PICK i \in Used(pidinfo') : pidinfo'[i].pi_proc = p
      BY <1>9, <2>1, ZenonT(30)
    <3>2. i = s
      BY <1>1, <1>2, <1>6, <3>1, Zenon
    <3>3. pidinfo[s].pi_ppid # INVALID_PID
      BY <1>2, <3>2, Zenon
    <3>4. PICK r \in Procs : Live(r) /\ p_pid[r] = pidinfo[s].pi_ppid
      BY <1>0, <3>3, ZenonT(30) DEF IInv, ParentsLive
    <3> QED
      BY <1>1, <3>3, <3>4, Zenon DEF IsParent
  <2>2. ASSUME NEW r \in Procs, IsParent(r, p) PROVE HasEntry(p)'
    <3>1. PICK i \in Used(pidinfo) : /\ pidinfo[i].pi_proc = p /\ pidinfo[i].pi_ppid = p_pid[r]
                                     /\ p_pid[r] # INVALID_PID
      BY <2>2, Zenon DEF IsParent
    <3>2. i = s
      BY <1>1, <1>6, <3>1, Zenon
    <3>3. pidinfo[s].pi_ppid # p_pid[p]
      BY <1>0, <1>1, Zenon DEF IInv, EntryPids
    <3>4. s \in Used(pidinfo')
      BY <1>3, <3>1, <3>2, <3>3, ZenonT(30)
    <3> QED
      BY <1>1, <1>2, <1>9, <3>4, ZenonT(30)
  <2> QED
    BY <2>1, <2>2, Zenon
<1>11. ASSUME NEW c \in Procs, c # p, ~Live(c)
       PROVE  HasEntry(c)' <=> HasEntry(c) /\ ~IsParent(p, c)
  <2>1. ASSUME HasEntry(c)' PROVE HasEntry(c) /\ ~IsParent(p, c)
    <3>1. PICK i \in Used(pidinfo') : pidinfo'[i].pi_proc = c
      BY <1>9, <2>1, ZenonT(30)
    <3>2. i \in Used(pidinfo) /\ pidinfo[i].pi_proc = c
      BY <1>2, <3>1, Zenon
    <3>3. pidinfo[i].pi_exited
      BY <1>0, <1>11, <3>2, Zenon DEF IInv, EntriesOwned
    <3>4. pidinfo[i].pi_ppid # p_pid[p]
      BY <1>2, <3>3, ZenonT(30)
    <3>5. ~IsParent(p, c)
      BY <1>6, <3>2, <3>4, Zenon DEF IsParent
    <3> QED
      BY <1>9, <3>2, <3>5, Zenon
  <2>2. ASSUME HasEntry(c), ~IsParent(p, c) PROVE HasEntry(c)'
    <3>1. PICK i \in Used(pidinfo) : pidinfo[i].pi_proc = c
      BY <1>9, <2>2, ZenonT(30)
    <3>2. pidinfo[i].pi_ppid # p_pid[p] /\ i # s
      BY <1>1, <1>11, <2>2, <3>1, Zenon DEF IsParent
    <3>3. i \in Used(pidinfo')
      BY <1>3, <3>2, Zenon
    <3> QED
      BY <1>2, <1>9, <3>1, <3>3, Zenon
  <2> QED
    BY <2>1, <2>2, Zenon
<1>12. ASSUME NEW c \in Procs, NEW r \in Procs
       PROVE  IsParent(r, c)' <=> IsParent(r, c) /\ r # p
  <2>1. ASSUME IsParent(r, c)' PROVE IsParent(r, c) /\ r # p
    <3>1. PICK i \in Used(pidinfo') : /\ pidinfo'[i].pi_proc = c /\ pidinfo'[i].pi_ppid = p_pid'[r]
                                      /\ p_pid'[r] # INVALID_PID
      BY <1>7, <2>1, Zenon DEF IsParent
    <3>2. r # p /\ p_pid'[r] = p_pid[r]
      BY <1>4, <3>1, ZenonT(30)
    <3>3. i \in Used(pidinfo) /\ pidinfo[i].pi_proc = c /\ pidinfo[i].pi_ppid = p_pid[r]
      BY <1>2, <3>1, <3>2, Zenon
    <3> QED
      BY <3>1, <3>2, <3>3, ZenonT(30) DEF IsParent
  <2>2. ASSUME IsParent(r, c), r # p PROVE IsParent(r, c)'
    <3>1. PICK i \in Used(pidinfo) : /\ pidinfo[i].pi_proc = c /\ pidinfo[i].pi_ppid = p_pid[r]
                                     /\ p_pid[r] # INVALID_PID
      BY <2>2, ZenonT(30) DEF IsParent
    <3>2. Live(r)
      BY <1>0, <3>1, Zenon DEF IInv, PidOwned
    <3>3. p_pid[r] # p_pid[p]
      BY <1>0, <2>2, <3>2, UniquePids, Zenon
    <3>4. i \in Used(pidinfo')
      BY <1>3, <3>1, <3>3, ZenonT(30)
    <3>5. pidinfo'[i].pi_proc = c /\ pidinfo'[i].pi_ppid = p_pid'[r] /\ p_pid'[r] # INVALID_PID
      BY <1>2, <1>4, <2>2, <3>1, <3>3, <3>4, Zenon
    <3> QED
      BY <1>7, <3>4, <3>5, Zenon DEF IsParent
  <2> QED
    BY <2>1, <2>2, ZenonT(30)
<1> QED
  BY <1>8, <1>10, <1>11, <1>12, Zenon

\* proc_exit is Exit.
LEMMA ExitRefines ==
    ASSUME Counting, RInv, IInv', NEW p \in Procs, NEW status \in Status, Exit(p, status)
    PROVE  RInv' /\ Abs!Next
<1>1. /\ p # kproc /\ pc[p] = "user" /\ got' = got
      /\ exitcode' = [exitcode EXCEPT ![p] = status]
  BY Zenon DEF Exit
<1>2. /\ pc'[p] = "exiting"
      /\ \A c \in Procs : c # p => pc'[c] = pc[c] \/ (pc[c] = "sleep" /\ pc'[c] = "woken")
  BY Zenon DEF Exit, Waiters
<1>3. RInv'
  BY ExitEntries, Zenon
<1>4. HasEntry(p)' <=> parentBar[p] # NULL
  <2>1. HasEntry(p)' <=> \E r \in Procs : IsParent(r, p)
    BY ExitEntries, Zenon
  <2> QED
    BY <2>1, ParentIs, ProcsAssumption, Zenon
<1>5. \A c, r \in Procs : IsParent(r, c)' <=> parentBar[c] = r /\ r # p
  <2>1. \A c, r \in Procs : IsParent(r, c)' <=> IsParent(r, c) /\ r # p
    BY ExitEntries, Zenon
  <2> QED
    BY <2>1, ParentIs, Zenon
<1>6. parentBar' = [c \in Procs |-> IF parentBar[c] = p THEN NULL ELSE parentBar[c]]
  <2>1. PICK f : f = [c \in Procs |-> IF parentBar[c] = p THEN NULL ELSE parentBar[c]]
    BY Zenon
  <2>2. /\ f \in [Procs -> Procs \cup {NULL}]
        /\ \A c \in Procs : f[c] = IF parentBar[c] = p THEN NULL ELSE parentBar[c]
    BY <2>1, BarTypes, ZenonT(30)
  <2>3. \A c, r \in Procs : IsParent(r, c)' <=> f[c] = r
    BY <1>5, <2>2, ProcsAssumption, Zenon
  <2> QED
    BY <1>3, <2>1, <2>2, <2>3, ParentBars, Zenon
<1>7. stBar' = [c \in Procs |->
                  CASE c = p -> IF parentBar[p] = NULL THEN "free" ELSE "zombie"
                    [] c # p /\ parentBar[c] = p /\ stBar[c] = "zombie" -> "free"
                    [] OTHER -> stBar[c]]
  <2>1. PICK g : g = [c \in Procs |->
                        CASE c = p -> IF parentBar[p] = NULL THEN "free" ELSE "zombie"
                          [] c # p /\ parentBar[c] = p /\ stBar[c] = "zombie" -> "free"
                          [] OTHER -> stBar[c]]
    BY Zenon
  <2>2. /\ g = [c \in Procs |-> g[c]]
        /\ g[p] = IF parentBar[p] = NULL THEN "free" ELSE "zombie"
        /\ \A c \in Procs : c # p =>
              g[c] = IF parentBar[c] = p /\ stBar[c] = "zombie" THEN "free" ELSE stBar[c]
    BY <2>1, Zenon
  <2>3. StAt(pc'[p], HasEntry(p)') = g[p]
    BY <1>2, <1>4, <2>2, Zenon DEF StAt
  <2>4. ASSUME NEW c \in Procs, c # p, Live(c) PROVE StAt(pc'[c], HasEntry(c)') = g[c]
    <3>1. stBar[c] # "zombie" /\ stBar[c] = StAt(pc[c], HasEntry(c))
      BY <2>4, StIs, ZenonT(30) DEF StAt, Live
    <3>2. StAt(pc'[c], HasEntry(c)') = StAt(pc[c], HasEntry(c))
      BY <1>2, <2>4, Zenon DEF StAt, Live
    <3> QED
      BY <2>2, <2>4, <3>1, <3>2, Zenon
  <2>5. ASSUME NEW c \in Procs, c # p, ~Live(c) PROVE StAt(pc'[c], HasEntry(c)') = g[c]
    <3>1. pc'[c] = pc[c] /\ pc[c] \in {"none", "exiting"}
      BY <1>2, <2>5, ZenonT(30) DEF RInv, IInv, TypeOK, Places, Live
    <3>2. stBar[c] = IF HasEntry(c) THEN "zombie" ELSE "free"
      BY <3>1, StIs, Zenon DEF StAt
    <3>3. StAt(pc'[c], HasEntry(c)') = IF HasEntry(c)' THEN "zombie" ELSE "free"
      BY <3>1, Zenon DEF StAt
    <3>4. HasEntry(c)' <=> HasEntry(c) /\ parentBar[c] # p
      <4>1. HasEntry(c)' <=> HasEntry(c) /\ ~IsParent(p, c)
        BY <2>5, ExitEntries, Zenon
      <4> QED
        BY <4>1, ParentIs, ZenonT(30)
    <3> QED
      BY <2>2, <2>5, <3>2, <3>3, <3>4, Zenon
  <2> QED
    BY <2>1, <2>2, <2>3, <2>4, <2>5, StBars
<1>8. stBar[p] = "alive"
  BY <1>1, StIs, Zenon DEF StAt
<1>9. Abs!Exit(p, status)
  BY <1>1, <1>6, <1>7, <1>8, ZenonT(30) DEF Abs!Exit
<1> QED
  BY <1>3, <1>9, Zenon DEF Abs!Next

\* Every step of Proc is a step of WaitExit or is not visible in it.
LEMMA NextRefines ==
    ASSUME Counting, RInv, IInv', [Next]_vars
    PROVE  RInv' /\ [Abs!Next]_(Abs!vars)
<1>1. ASSUME NEW p \in Procs, NEW c \in Procs, ForkAlloc(p, c) PROVE RInv' /\ Abs!Next
  BY <1>1, ForkAllocRefines, ZenonT(30)
<1>2. ASSUME NEW p \in Procs, ForkUndo(p) PROVE RInv' /\ Abs!Next
  BY <1>2, ForkUndoRefines, Zenon
<1>3. ASSUME NEW p \in Procs, ForkDone(p) PROVE RInv' /\ Abs!Next
  BY <1>3, ForkDoneRefines, Zenon
<1>4. ASSUME NEW p \in Procs, NEW q \in Pids, WaitCollect(p, q) PROVE RInv' /\ Abs!Next
  BY <1>4, WaitRefines, ZenonT(30)
<1>5. ASSUME NEW p \in Procs, WaitResume(p) PROVE RInv' /\ Abs!Next
  <2>1. wpid[p] \in Pids
    BY Zenon DEF RInv, IInv, TypeOK
  <2> QED
    BY <1>5, <2>1, WaitRefines, Zenon
<1>6. ASSUME NEW p \in Procs, NEW q \in Pids, Disown(p, q) PROVE RInv' /\ Abs!Next
  BY <1>6, DisownRefines, ZenonT(30)
<1>7. ASSUME NEW p \in Procs, NEW status \in Status, Exit(p, status) PROVE RInv' /\ Abs!Next
  BY <1>7, ExitRefines, Zenon
<1>8. ASSUME NEW p \in Procs,
             \/ ForkEagain(p) \/ ForkEnomem(p) \/ Destroy(p)
             \/ \E q \in Pids : WaitSleep(p, q)
      PROVE  RInv' /\ UNCHANGED Abs!vars
  BY <1>8, QuietRefines, Zenon
<1>9. CASE UNCHANGED vars
  BY <1>9, ProcsAssumption, QuietRefines, ZenonT(30)
<1> QED
  BY <1>1, <1>2, <1>3, <1>4, <1>5, <1>6, <1>7, <1>8, <1>9, Zenon DEF Next

\* The table that pid_bootstrap makes is the initial state of WaitExit.
LEMMA InitRefines ==
    ASSUME Init, IInv
    PROVE  RInv /\ Abs!Init
<1>1. /\ KERNEL_PID \in Slots /\ kproc \in Procs /\ NULL \notin PidInfo
  BY SizeAssumption, ProcsAssumption, NullAssumption DEF KERNEL_PID, Slots, PID_MIN
<1>2. PICK e : e = pidinfo_create(KERNEL_PID, INVALID_PID, kproc)
  BY Zenon
<1>3. e.pi_proc = kproc /\ e.pi_ppid = INVALID_PID /\ ~e.pi_exited
  BY <1>2, Zenon DEF pidinfo_create
<1>4. pidinfo = [i \in Slots |-> IF i = KERNEL_PID THEN e ELSE NULL]
  BY <1>2, ZenonT(30) DEF Init, pid_bootstrap
<1>5. Used(pidinfo) \subseteq {KERNEL_PID} /\ pidinfo[KERNEL_PID] = e
  BY <1>1, <1>4, Zenon DEF Used
<1>6. RInv
  <2>1. OneEntry
    BY <1>5, ZenonT(30) DEF OneEntry
  <2>2. StatusKept
    BY <1>3, <1>5, Zenon DEF StatusKept
  <2> QED
    BY <2>1, <2>2, Zenon DEF RInv
<1>7. \A c \in Procs : HasEntry(c) => c = kproc
  BY <1>3, <1>5, Zenon DEF HasEntry, Used
<1>8. \A c \in Procs : pc[c] = IF c = kproc THEN "user" ELSE "none"
  BY ZenonT(30) DEF Init
<1>9. stBar = [p \in Procs |-> IF p = kproc THEN "alive" ELSE "free"]
  <2>1. ASSUME NEW c \in Procs PROVE stBar[c] = IF c = kproc THEN "alive" ELSE "free"
    BY <1>7, <1>8, StIs, Zenon DEF StAt
  <2> QED
    BY <2>1, BarFunctions, Zenon
<1>10. parentBar = [p \in Procs |-> NULL]
  <2>1. \A c, p \in Procs : ~IsParent(p, c)
    BY <1>3, <1>5, Zenon DEF IsParent
  <2>2. ASSUME NEW c \in Procs PROVE parentBar[c] = NULL
    BY <1>6, <2>1, ParentIs, Zenon
  <2> QED
    BY <2>2, BarFunctions, ZenonT(30)
<1>11. exitcode = [p \in Procs |-> NoStatus] /\ got = [p \in Procs |-> NoStatus]
  BY ZenonT(30) DEF Init
<1> QED
  BY <1>6, <1>9, <1>10, <1>11, Zenon DEF Abs!Init

\* What a step may do to the entry of an exited process.
LEMMA ZombieStep ==
    ASSUME Counting, IInv, IInv', [Next]_vars, NEW i \in Slots, pidinfo[i] # NULL,
           pidinfo[i].pi_exited, pidinfo'[i] # pidinfo[i]
    PROVE  \E p \in Procs :
               /\ p_pid[p] = pidinfo[i].pi_ppid
               /\ \/ kids'[p] = kids[p] \ {pidinfo[i].pi_pid}
                  \/ pc'[p] = "exiting"
<1>1. /\ i \in Used(pidinfo) /\ pidinfo[i] \in PidInfo
      /\ pidinfo \in [Slots -> PidInfo \cup {NULL}] /\ kids \in [Procs -> SUBSET Pids]
  BY ZenonT(30) DEF IInv, TypeOK, Used
<1>2. ASSUME NEW p \in Procs, NEW c \in Procs, ForkAlloc(p, c) PROVE FALSE
  <2>1. Stops # {} /\ p_pid[p] # INVALID_PID
    BY <1>2, Zenon DEF ForkAlloc, pid_alloc, IInv, NoPanic
  <2>2. pidinfo[Slot(Candidate)] = NULL
    BY <2>1, CandidateType, ZenonT(30) DEF IInv, TypeOK
  <2>3. PICK e : pidinfo' = [pidinfo EXCEPT ![Slot(Candidate)] = e]
    BY <1>2, <2>1, Zenon DEF ForkAlloc, pid_alloc
  <2> QED
    BY <1>1, <2>2, <2>3, Zenon
<1>3. ASSUME NEW p \in Procs, ForkUndo(p) PROVE FALSE
  <2>1. child[p] \in Procs /\ Live(child[p])
    BY <1>3, ZenonT(30) DEF ForkUndo, IInv, ForkSound, Live
  <2>2. ~pidinfo[Slot(p_pid[child[p]])].pi_exited
    BY <2>1, LiveEntry, Zenon
  <2>3. pidinfo' = [pidinfo EXCEPT ![Slot(p_pid[child[p]])] = NULL]
    BY <1>3, Zenon DEF ForkUndo, pid_unalloc, IInv, NoPanic
  <2> QED
    BY <1>1, <2>2, <2>3, Zenon
<1>4. ASSUME NEW p \in Procs, NEW q \in Pids, NEW e,
             pi_get(pidinfo, q) # NULL, pi_get(pidinfo, q).pi_ppid = p_pid[p],
             pidinfo' = [pidinfo EXCEPT ![Slot(q)] = e],
             kids' = [kids EXCEPT ![p] = @ \ {q}]
      PROVE  p_pid[p] = pidinfo[i].pi_ppid /\ kids'[p] = kids[p] \ {pidinfo[i].pi_pid}
  <2>1. i = Slot(q)
    BY <1>1, <1>4, Zenon
  <2>2. pidinfo[i] = pi_get(pidinfo, q) /\ pidinfo[i].pi_pid = q
    BY <1>4, <2>1, Zenon DEF pi_get
  <2> QED
    BY <1>1, <1>4, <2>2, ZenonT(30)
<1>5. ASSUME NEW p \in Procs, NEW q \in Pids,
             WaitCollect(p, q) \/ (WaitResume(p) /\ q = wpid[p])
      PROVE  p_pid[p] = pidinfo[i].pi_ppid /\ kids'[p] = kids[p] \ {pidinfo[i].pi_pid}
  <2>1. pi_get(pidinfo, q) # NULL /\ pi_get(pidinfo, q).pi_ppid = p_pid[p]
    <3>1. CASE WaitCollect(p, q)
      BY <3>1, WaitCheck, Zenon DEF WaitCollect, IInv
    <3>2. CASE WaitResume(p) /\ q = wpid[p]
      BY <3>2, ZenonT(30) DEF WaitResume, IInv, WaitSound
    <3> QED
      BY <1>5, <3>1, <3>2, Zenon
  <2>2. /\ pidinfo' = [pidinfo EXCEPT ![Slot(q)] = NULL] \/ pidinfo' = pidinfo
        /\ kids' = [kids EXCEPT ![p] = @ \ {q}]
    BY <1>5, Zenon DEF WaitCollect, WaitResume, pid_wait_collect
  <2> QED
    BY <1>4, <2>1, <2>2, ZenonT(30)
<1>6. ASSUME NEW p \in Procs, NEW q \in Pids, Disown(p, q)
      PROVE  p_pid[p] = pidinfo[i].pi_ppid /\ kids'[p] = kids[p] \ {pidinfo[i].pi_pid}
  <2>1. pi_get(pidinfo, q) # NULL /\ pi_get(pidinfo, q).pi_ppid = p_pid[p]
    BY <1>6, ZenonT(30) DEF Disown, IInv, KidsSound
  <2>2. /\ pidinfo' = [pidinfo EXCEPT ![Slot(q)] = Disowned(pidinfo[Slot(q)])] \/ pidinfo' = pidinfo
        /\ kids' = [kids EXCEPT ![p] = @ \ {q}]
    BY <1>6, Zenon DEF Disown, pid_disown
  <2> QED
    BY <1>4, <2>1, <2>2, Zenon
<1>7. ASSUME NEW p \in Procs, NEW status \in Status, Exit(p, status)
      PROVE  p_pid[p] = pidinfo[i].pi_ppid /\ pc'[p] = "exiting"
  <2>1. pc'[p] = "exiting"
    BY <1>7, ZenonT(30) DEF Exit
  <2>2. Live(p)
    BY <1>7, Zenon DEF Exit, Live
  <2>3. ~pidinfo[Slot(p_pid[p])].pi_exited /\ p_pid[p] # INVALID_PID
    BY <2>2, LiveEntry, Zenon
  <2>4. pi_get(DisownChildren(p_pid[p]), p_pid[p]) # NULL
    BY <1>7, ExitTable, ZenonT(30)
  <2>5. PICK e : pidinfo' = [DisownChildren(p_pid[p]) EXCEPT ![Slot(p_pid[p])] = e]
    BY <1>7, <2>3, <2>4, Zenon DEF Exit, pid_setexitstatus
  <2>6. pidinfo'[i] = DisownChildren(p_pid[p])[i]
    BY <2>3, <2>5, Zenon DEF DisownChildren
  <2>7. pidinfo[i].pi_ppid = p_pid[p]
    BY <2>6, ZenonT(30) DEF DisownChildren
  <2> QED
    BY <2>1, <2>7, Zenon
<1>8. ASSUME NEW p \in Procs,
             \/ ForkEagain(p) \/ ForkEnomem(p) \/ ForkDone(p) \/ Destroy(p)
             \/ \E q \in Pids : WaitSleep(p, q)
      PROVE  FALSE
  BY <1>8, Zenon DEF ForkEagain, ForkEnomem, ForkDone, Destroy, WaitSleep, pid_alloc_eagain,
              pid_alloc_enomem, pidVars
<1>9. CASE UNCHANGED vars
  BY <1>9, Zenon DEF vars, pidVars
<1>10. \A p \in Procs : wpid[p] \in Pids
  BY ZenonT(30) DEF IInv, TypeOK
<1> QED
  BY <1>2, <1>3, <1>5, <1>6, <1>7, <1>8, <1>9, <1>10, ZenonT(30) DEF Next

\* A zombie's entry is changed or freed only by the parent recorded in it, when it
\* waits, disowns the child or exits.
THEOREM ZombiesKept == Spec => ZombieKept
<1>1. ASSUME IInv, [Next]_vars
      PROVE  \A i \in Slots :
                pidinfo[i] # NULL =>
                  (pidinfo[i].pi_exited /\ pidinfo'[i] # pidinfo[i] =>
                      \E p \in Procs :
                          /\ p_pid[p] = pidinfo[i].pi_ppid
                          /\ \/ kids'[p] = kids[p] \ {pidinfo[i].pi_pid}
                             \/ pc'[p] = "exiting")
  <2>1. IInv'
    BY <1>1, CountingHolds, NextIInv, ZenonT(30)
  <2> QED
    BY <1>1, <2>1, CountingHolds, ZombieStep, Zenon
<1> QED
  BY <1>1, Invariance, PTL DEF Spec, ZombieKept

\* The process-id table implements WaitExit: each child's own status reaches its
\* parent, at most once, whatever pids are reused and however forks, waits, disowns
\* and exits interleave.
THEOREM TableImplementsWaitExit == Spec => ImplementsWaitExit
<1>1. Init => RInv /\ Abs!Init
  BY InitIInv, CountingHolds, InitRefines, Zenon
<1>2. RInv /\ [Next]_vars => RInv' /\ [Abs!Next]_(Abs!vars)
  BY NextIInv, NextRefines, CountingHolds, Zenon DEF RInv
<1> QED
  BY <1>1, <1>2, PTL DEF Spec, ImplementsWaitExit, Abs!Spec
=============================================================================

--------------------------- MODULE ProcExitSteps ---------------------------
(***************************************************************************)
(* The steps of Proc, continued: exit preserves the inductive invariant,   *)
(* and wait and fork refine WaitExit under the mapping of ProcRefinement.  *)
(***************************************************************************)
EXTENDS ProcRefinement, ProcSteps

-----------------------------------------------------------------------------
(* _exit disowns the children, posts the status and wakes the parent in one
   critical section. *)

\* The table after pid_setexitstatus by p: entries keep their pid and process,
\* p's children are orphaned or gone, p's own entry is exited or gone.
LEMMA ExitTable ==
    ASSUME Counting, IInv, NEW p \in Procs, NEW status \in Status, Exit(p, status)
    PROVE  /\ pidinfo' \in [Slots -> PidInfo \cup {NULL}]
           /\ nprocs' = Cardinality(Used(pidinfo'))
           /\ p_pid' = [p_pid EXCEPT ![p] = INVALID_PID]
           /\ nextpid' = nextpid
           /\ panic' = panic
           /\ \A i \in Used(pidinfo') :
                 /\ i \in Used(pidinfo)
                 /\ pidinfo'[i].pi_pid = pidinfo[i].pi_pid
                 /\ pidinfo'[i].pi_proc = pidinfo[i].pi_proc
                 /\ pidinfo'[i].pi_exited <=>
                       (pidinfo[i].pi_exited \/ i = Slot(p_pid[p]))
                 /\ pidinfo'[i].pi_ppid =
                       IF pidinfo[i].pi_ppid = p_pid[p] THEN INVALID_PID
                       ELSE pidinfo[i].pi_ppid
                 /\ (i = Slot(p_pid[p]) \/ pidinfo[i].pi_exited)
                       => pidinfo'[i].pi_ppid # INVALID_PID
           /\ \A i \in Used(pidinfo) :
                 (/\ pidinfo[i].pi_ppid # p_pid[p]
                  /\ i = Slot(p_pid[p]) => pidinfo[i].pi_ppid # INVALID_PID)
                     => i \in Used(pidinfo')
           /\ \A i \in Used(pidinfo) :
                 i # Slot(p_pid[p]) /\ ~pidinfo[i].pi_exited => i \in Used(pidinfo')
           /\ pi_get(DisownChildren(p_pid[p]), p_pid[p]) # NULL
           /\ pi_get(DisownChildren(p_pid[p]), p_pid[p]).pi_ppid =
                 IF pidinfo[Slot(p_pid[p])].pi_ppid = p_pid[p] THEN INVALID_PID
                 ELSE pidinfo[Slot(p_pid[p])].pi_ppid
<1> DEFINE pid == p_pid[p]
           s == Slot(pid)
           table == DisownChildren(pid)
           us == pi_get(table, pid)
<1>a. /\ Live(p)
      /\ pid \in Pids
      /\ pid # INVALID_PID
      /\ s \in Slots
      /\ s \in Used(pidinfo)
      /\ pidinfo[s].pi_pid = pid
      /\ ~pidinfo[s].pi_exited
  <2>1. Live(p)
    BY Zenon DEF Exit, Live
  <2> QED
    BY <2>1, LiveEntry, PidsNat, SlotType, Zenon
<1>b. INVALID_PID \in Pids
  BY SizeAssumption DEF INVALID_PID, Pids, PID_MIN
<1> HIDE DEF pid, s
<1>c. ASSUME NEW pi \in PidInfo
      PROVE  /\ [pi EXCEPT !.pi_ppid = INVALID_PID] \in PidInfo
             /\ [pi EXCEPT !.pi_ppid = INVALID_PID].pi_pid = pi.pi_pid
             /\ [pi EXCEPT !.pi_ppid = INVALID_PID].pi_ppid = INVALID_PID
             /\ [pi EXCEPT !.pi_ppid = INVALID_PID].pi_proc = pi.pi_proc
             /\ [pi EXCEPT !.pi_ppid = INVALID_PID].pi_exited <=> pi.pi_exited
  BY <1>b, Zenon DEF PidInfo
<1>d. /\ table \in [Slots -> PidInfo \cup {NULL}]
      /\ \A i \in Slots :
            table[i] = IF pidinfo[i] # NULL /\ pidinfo[i].pi_ppid = pid
                       THEN Disowned(pidinfo[i]) ELSE pidinfo[i]
  <2>1. \A pi \in PidInfo : Disowned(pi) \in PidInfo \cup {NULL}
    BY <1>c, Zenon DEF Disowned
  <2> QED
    BY <2>1, Zenon DEF DisownChildren, IInv, TypeOK
<1> HIDE DEF table
<1>e. \A i \in Slots : table[i] # NULL =>
         /\ i \in Used(pidinfo)
         /\ table[i].pi_pid = pidinfo[i].pi_pid
         /\ table[i].pi_proc = pidinfo[i].pi_proc
         /\ table[i].pi_exited <=> pidinfo[i].pi_exited
         /\ table[i].pi_ppid = IF pidinfo[i].pi_ppid = pid THEN INVALID_PID
                               ELSE pidinfo[i].pi_ppid
         /\ pidinfo[i].pi_exited => pidinfo[i].pi_ppid # pid
  <2> SUFFICES ASSUME NEW i \in Slots, table[i] # NULL
               PROVE  /\ i \in Used(pidinfo)
                      /\ table[i].pi_pid = pidinfo[i].pi_pid
                      /\ table[i].pi_proc = pidinfo[i].pi_proc
                      /\ table[i].pi_exited <=> pidinfo[i].pi_exited
                      /\ table[i].pi_ppid = IF pidinfo[i].pi_ppid = pid THEN INVALID_PID
                                            ELSE pidinfo[i].pi_ppid
                      /\ pidinfo[i].pi_exited => pidinfo[i].pi_ppid # pid
    BY Zenon
  <2>1. pidinfo[i] # NULL /\ pidinfo[i] \in PidInfo /\ i \in Used(pidinfo)
    BY <1>d, Zenon DEF IInv, TypeOK, Used
  <2>2. CASE pidinfo[i].pi_ppid = pid
    <3>1. ~pidinfo[i].pi_exited /\ table[i] = [pidinfo[i] EXCEPT !.pi_ppid = INVALID_PID]
      BY <1>d, <2>1, <2>2, Zenon DEF Disowned
    <3> QED
      BY <1>c, <2>1, <2>2, <3>1
  <2>3. CASE pidinfo[i].pi_ppid # pid
    BY <1>d, <2>1, <2>3, Zenon
  <2> QED
    BY <2>2, <2>3, Zenon
<1>f. \A i \in Used(pidinfo) :
        (pidinfo[i].pi_ppid # pid \/ ~pidinfo[i].pi_exited) => table[i] # NULL
  <2> SUFFICES ASSUME NEW i \in Used(pidinfo),
                      pidinfo[i].pi_ppid # pid \/ ~pidinfo[i].pi_exited
               PROVE  table[i] # NULL
    BY Zenon
  <2>1. i \in Slots /\ pidinfo[i] # NULL /\ pidinfo[i] \in PidInfo
    BY Zenon DEF IInv, TypeOK, Used
  <2> QED
    BY <1>c, <1>d, <2>1, NullAssumption DEF Disowned
<1>g. /\ us = table[s]
      /\ us # NULL
      /\ us \in PidInfo
      /\ us.pi_ppid = IF pidinfo[s].pi_ppid = pid THEN INVALID_PID
                      ELSE pidinfo[s].pi_ppid
  BY <1>a, <1>d, <1>e, <1>f, ZenonT(30) DEF pi_get, s
<1> DEFINE after == [table EXCEPT ![s] = ExitedEntry(us, status)]
<1>h. /\ pidinfo' = after
      /\ nprocs' = nprocs - Cardinality(Used(pidinfo) \ Used(after))
      /\ p_pid' = [p_pid EXCEPT ![p] = INVALID_PID]
      /\ nextpid' = nextpid
      /\ panic' = panic
  BY <1>a, <1>g, Zenon DEF Exit, pid_setexitstatus, pid, s, table
<1>i. /\ us.pi_ppid = INVALID_PID => ExitedEntry(us, status) = NULL
      /\ us.pi_ppid # INVALID_PID =>
            /\ ExitedEntry(us, status) \in PidInfo
            /\ ExitedEntry(us, status) # NULL
            /\ ExitedEntry(us, status).pi_pid = us.pi_pid
            /\ ExitedEntry(us, status).pi_ppid = us.pi_ppid
            /\ ExitedEntry(us, status).pi_proc = us.pi_proc
            /\ ExitedEntry(us, status).pi_exited
  <2>1. CASE us.pi_ppid = INVALID_PID
    BY <2>1, Zenon DEF ExitedEntry
  <2>2. CASE us.pi_ppid # INVALID_PID
    <3> DEFINE x == [us EXCEPT !.pi_exited = TRUE, !.pi_exitstatus = status]
    <3>1. ExitedEntry(us, status) = x
      BY <2>2, Zenon DEF ExitedEntry
    <3>2. x \in PidInfo
      BY <1>g, Zenon DEF PidInfo
    <3>3. /\ x.pi_pid = us.pi_pid
          /\ x.pi_ppid = us.pi_ppid
          /\ x.pi_proc = us.pi_proc
          /\ x.pi_exited
      BY <1>g, Zenon DEF PidInfo
    <3> QED
      BY <2>2, <3>1, <3>2, <3>3, NullAssumption, Zenon
  <2> QED
    BY <2>1, <2>2, Zenon
<1> HIDE DEF us
<1>j. /\ pidinfo'[s] = ExitedEntry(us, status)
      /\ \A i \in Slots : i # s => pidinfo'[i] = table[i]
      /\ pidinfo' \in [Slots -> PidInfo \cup {NULL}]
  BY <1>a, <1>d, <1>h, <1>i, Zenon
<1>k. Used(pidinfo') \subseteq Used(pidinfo)
  BY <1>a, <1>e, <1>j, Zenon DEF Used
<1>l. nprocs' = Cardinality(Used(pidinfo'))
  <2>1. Used(pidinfo) \in SUBSET Slots
    BY Zenon DEF Used
  <2>2. Used(pidinfo') \in SUBSET Used(pidinfo)
    BY <1>k, Zenon
  <2>3. /\ Cardinality(Used(pidinfo)) \in Nat
        /\ Cardinality(Used(pidinfo')) \in Nat
        /\ Cardinality(Used(pidinfo) \ Used(pidinfo')) =
              Cardinality(Used(pidinfo)) - Cardinality(Used(pidinfo'))
    BY <2>1, <2>2, Zenon DEF Counting
  <2> QED
    BY <1>h, <2>3 DEF IInv, TableConsistent
<1>m. \A i \in Used(pidinfo') :
         /\ i \in Used(pidinfo)
         /\ pidinfo'[i].pi_pid = pidinfo[i].pi_pid
         /\ pidinfo'[i].pi_proc = pidinfo[i].pi_proc
         /\ pidinfo'[i].pi_exited <=> (pidinfo[i].pi_exited \/ i = s)
         /\ pidinfo'[i].pi_ppid = IF pidinfo[i].pi_ppid = pid THEN INVALID_PID
                                  ELSE pidinfo[i].pi_ppid
         /\ (i = s \/ pidinfo[i].pi_exited) => pidinfo'[i].pi_ppid # INVALID_PID
  <2> SUFFICES ASSUME NEW i \in Used(pidinfo')
               PROVE  /\ i \in Used(pidinfo)
                      /\ pidinfo'[i].pi_pid = pidinfo[i].pi_pid
                      /\ pidinfo'[i].pi_proc = pidinfo[i].pi_proc
                      /\ pidinfo'[i].pi_exited <=> (pidinfo[i].pi_exited \/ i = s)
                      /\ pidinfo'[i].pi_ppid = IF pidinfo[i].pi_ppid = pid THEN INVALID_PID
                                               ELSE pidinfo[i].pi_ppid
                      /\ (i = s \/ pidinfo[i].pi_exited) => pidinfo'[i].pi_ppid # INVALID_PID
    BY Zenon
  <2>1. i \in Used(pidinfo) /\ i \in Slots /\ pidinfo'[i] # NULL
    BY <1>k, Zenon DEF Used
  <2>2. CASE i = s
    <3>1. us.pi_ppid # INVALID_PID
      BY <1>i, <1>j, <2>1, <2>2, Zenon
    <3>2. us.pi_pid = pidinfo[s].pi_pid /\ us.pi_proc = pidinfo[s].pi_proc
      BY <1>a, <1>e, <1>g, Zenon
    <3> QED
      BY <1>g, <1>i, <1>j, <2>1, <2>2, <3>1, <3>2, ZenonT(30)
  <2>3. CASE i # s
    <3>1. pidinfo'[i] = table[i] /\ table[i] # NULL
      BY <1>j, <2>1, <2>3, Zenon
    <3>2. pidinfo[i].pi_exited => pidinfo[i].pi_ppid # INVALID_PID
      BY <2>1, Zenon DEF IInv, ParentsLive
    <3> QED
      BY <1>e, <2>1, <2>3, <3>1, <3>2, Zenon
  <2> QED
    BY <2>2, <2>3, Zenon
<1>n. \A i \in Used(pidinfo) :
         (/\ pidinfo[i].pi_ppid # pid
          /\ i = s => pidinfo[i].pi_ppid # INVALID_PID) => i \in Used(pidinfo')
  BY <1>f, <1>g, <1>i, <1>j, Zenon DEF Used
<1>o. \A i \in Used(pidinfo) :
         i # s /\ ~pidinfo[i].pi_exited => i \in Used(pidinfo')
  BY <1>f, <1>j, Zenon DEF Used
<1>p. us # NULL /\ us.pi_ppid = IF pidinfo[s].pi_ppid = pid THEN INVALID_PID
                                ELSE pidinfo[s].pi_ppid
  BY <1>g, Zenon
<1> QED
  BY <1>h, <1>j, <1>l, <1>m, <1>n, <1>o, <1>p, Zenon DEF pid, s, us, table

\* proc_exit preserves the invariant.
LEMMA ExitIInv ==
    ASSUME Counting, IInv, NEW p \in Procs, NEW status \in Status, Exit(p, status)
    PROVE  IInv'
<1> DEFINE pid == p_pid[p]
           s == Slot(pid)
<1>a. pc[p] = "user" /\ Live(p)
  BY Zenon DEF Exit, Live
<1>b. /\ pid \in Pids
      /\ pid # INVALID_PID
      /\ s \in Used(pidinfo)
      /\ pidinfo[s].pi_pid = pid
      /\ pidinfo[s].pi_proc = p
  BY <1>a, LiveEntry, Zenon
<1>c. pidinfo' \in [Slots -> PidInfo \cup {NULL}] /\ nprocs' = Cardinality(Used(pidinfo'))
  BY ExitTable, Zenon
<1>d. p_pid' = [p_pid EXCEPT ![p] = INVALID_PID] /\ nextpid' = nextpid /\ panic' = panic
  BY ExitTable, Zenon
<1>e. \A i \in Used(pidinfo') :
         /\ i \in Used(pidinfo)
         /\ pidinfo'[i].pi_pid = pidinfo[i].pi_pid
         /\ pidinfo'[i].pi_proc = pidinfo[i].pi_proc
         /\ pidinfo'[i].pi_exited <=> (pidinfo[i].pi_exited \/ i = s)
         /\ pidinfo'[i].pi_ppid = IF pidinfo[i].pi_ppid = pid THEN INVALID_PID
                                  ELSE pidinfo[i].pi_ppid
         /\ (i = s \/ pidinfo[i].pi_exited) => pidinfo'[i].pi_ppid # INVALID_PID
  BY ExitTable, Zenon
<1>f. \A i \in Used(pidinfo) :
         (/\ pidinfo[i].pi_ppid # pid
          /\ i = s => pidinfo[i].pi_ppid # INVALID_PID) => i \in Used(pidinfo')
  BY ExitTable, Zenon
<1>g. \A i \in Used(pidinfo) :
         i # s /\ ~pidinfo[i].pi_exited => i \in Used(pidinfo')
  BY ExitTable, Zenon
<1>h. /\ exitcode' = [exitcode EXCEPT ![p] = status]
      /\ kids' = [kids EXCEPT ![p] = {}]
      /\ UNCHANGED <<child, wpid, got>>
  BY Zenon DEF Exit
<1>i. /\ pc'[p] = "exiting"
      /\ \A r \in Procs : r # p =>
            \/ /\ pc'[r] = pc[r]
               /\ ~ /\ pc[r] = "sleep" /\ wpid[r] = pid
                    /\ pidinfo[s].pi_ppid \notin {INVALID_PID, pid}
            \/ pc'[r] = "woken" /\ pc[r] = "sleep" /\ wpid[r] = pid
      /\ pc' \in [Procs -> Places]
  <2> DEFINE us == pi_get(DisownChildren(pid), pid)
             woken == IF us # NULL /\ us.pi_ppid # INVALID_PID
                      THEN Waiters(pid) ELSE {}
  <2>1. pc' = [q \in Procs |-> CASE q = p -> "exiting"
                                 [] q \in woken \ {p} -> "woken"
                                 [] OTHER -> pc[q]]
    BY Zenon DEF Exit
  <2>2. /\ us # NULL
        /\ us.pi_ppid = IF pidinfo[s].pi_ppid = pid THEN INVALID_PID
                        ELSE pidinfo[s].pi_ppid
    BY ExitTable, Zenon
  <2> HIDE DEF us, pid, s
  <2>3. /\ \A r \in woken : pc[r] = "sleep" /\ wpid[r] = pid
        /\ \A r \in Procs : /\ pc[r] = "sleep"
                             /\ wpid[r] = pid
                             /\ pidinfo[s].pi_ppid \notin {INVALID_PID, pid}
                                => r \in woken
    BY <2>2, Zenon DEF Waiters
  <2> HIDE DEF woken
  <2>4. \A r \in Procs : r # p => pc'[r] = IF r \in woken THEN "woken" ELSE pc[r]
    BY <2>1, Zenon
  <2>5. pc'[p] = "exiting"
    BY <2>1, Zenon
  <2>6. pc' \in [Procs -> Places]
    BY <2>1, Zenon DEF IInv, TypeOK, Places
  <2> QED
    BY <2>3, <2>4, <2>5, <2>6, Zenon
<1>j. /\ \A r \in Procs : p_pid'[r] = IF r = p THEN INVALID_PID ELSE p_pid[r]
      /\ \A r \in Procs : kids'[r] = IF r = p THEN {} ELSE kids[r]
      /\ child' = child
      /\ wpid' = wpid
  BY <1>d, <1>h, Zenon DEF IInv, TypeOK
<1>k. \A r \in Procs : Live(r)' <=> Live(r) /\ r # p
  BY <1>i, Zenon DEF Live
<1>l. \A r \in Procs : Live(r) /\ r # p => /\ p_pid[r] # pid
                                           /\ p_pid[r] # INVALID_PID
  BY <1>a, UniquePids, LiveEntry, Zenon
<1>m. \A i \in Used(pidinfo) : /\ pidinfo[i].pi_proc \in Procs
                               /\ pidinfo[i].pi_pid = pid => i = s
                               /\ Slot(pidinfo[i].pi_pid) = i
  BY Zenon DEF Used, IInv, TypeOK, PidInfo, TableConsistent
<1>n. \A k \in Pids : pi_get(pidinfo, k) # NULL =>
         /\ Slot(k) \in Used(pidinfo)
         /\ pi_get(pidinfo, k) = pidinfo[Slot(k)]
         /\ pidinfo[Slot(k)].pi_pid = k
         /\ k # pid => Slot(k) # s
  BY <1>b, PidsNat, SlotType, Zenon DEF pi_get, Used
<1>o. \A k \in Pids : Slot(k) \in Used(pidinfo') /\ pidinfo[Slot(k)].pi_pid = k =>
         /\ pi_get(pidinfo', k) # NULL
         /\ pi_get(pidinfo', k) = pidinfo'[Slot(k)]
  BY <1>e, Zenon DEF pi_get, Used
<1> HIDE DEF pid, s
<1>1. TypeOK'
  <2>1. INVALID_PID \in Pids
    BY SizeAssumption DEF INVALID_PID, Pids, PID_MIN
  <2>2. p_pid' \in [Procs -> Pids]
    BY <1>d, <2>1, Zenon DEF IInv, TypeOK
  <2>3. nprocs' \in Int
    BY <1>c DEF Counting, Used
  <2>4. /\ kids' \in [Procs -> SUBSET Pids]
        /\ exitcode' \in [Procs -> Status \cup {NoStatus}]
    BY <1>h, Zenon DEF IInv, TypeOK
  <2> QED
    BY <1>c, <1>d, <1>h, <1>i, <2>2, <2>3, <2>4, Zenon DEF IInv, TypeOK
<1>2. (NoPanic /\ TableConsistent /\ EntryPids)'
  <2>1. NoPanic'
    BY <1>d, Zenon DEF IInv, NoPanic
  <2>2. TableConsistent'
    BY <1>c, <1>e, Zenon DEF IInv, TableConsistent
  <2>3. EntryPids'
    BY <1>e, Zenon DEF IInv, EntryPids
  <2> QED
    BY <2>1, <2>2, <2>3, Zenon
<1>3. ParentsLive'
  <2> SUFFICES ASSUME NEW i \in Used(pidinfo')
               PROVE  (IF pidinfo[i].pi_ppid = INVALID_PID
                       THEN ~pidinfo[i].pi_exited
                       ELSE \E r \in Procs : Live(r) /\ p_pid[r] = pidinfo[i].pi_ppid)'
    BY Zenon DEF ParentsLive
  <2>1. CASE pidinfo'[i].pi_ppid = INVALID_PID
    BY <1>e, <2>1, Zenon
  <2>2. CASE pidinfo'[i].pi_ppid # INVALID_PID
    <3>1. /\ i \in Used(pidinfo)
          /\ pidinfo'[i].pi_ppid = pidinfo[i].pi_ppid
          /\ pidinfo[i].pi_ppid # pid
      BY <1>e, <2>2, Zenon
    <3>2. PICK r \in Procs : Live(r) /\ p_pid[r] = pidinfo[i].pi_ppid
      BY <2>2, <3>1, Zenon DEF IInv, ParentsLive
    <3>3. r # p
      BY <3>1, <3>2, Zenon DEF pid
    <3> QED
      BY <1>j, <1>k, <2>2, <3>1, <3>2, <3>3, Zenon
  <2> QED
    BY <2>1, <2>2, Zenon
<1>4. EntriesOwned'
  <2> SUFFICES ASSUME NEW i \in Used(pidinfo')
               PROVE  (LET r == pidinfo[i].pi_proc
                       IN  IF pidinfo[i].pi_exited THEN ~Live(r)
                           ELSE Live(r) /\ p_pid[r] = pidinfo[i].pi_pid)'
    BY Zenon DEF EntriesOwned
  <2>1. /\ i \in Used(pidinfo)
        /\ pidinfo'[i].pi_pid = pidinfo[i].pi_pid
        /\ pidinfo'[i].pi_proc = pidinfo[i].pi_proc
        /\ pidinfo'[i].pi_exited <=> (pidinfo[i].pi_exited \/ i = s)
        /\ pidinfo[i].pi_proc \in Procs
    BY <1>e, <1>m, Zenon
  <2>2. CASE i = s
    BY <1>b, <1>k, <2>1, <2>2, Zenon
  <2>3. CASE i # s
    <3>1. ~pidinfo[i].pi_exited => pidinfo[i].pi_proc # p
      BY <1>m, <2>1, <2>3, Zenon DEF IInv, EntriesOwned, pid
    <3> QED
      BY <1>j, <1>k, <2>1, <2>3, <3>1, Zenon DEF IInv, EntriesOwned
  <2> QED
    BY <2>2, <2>3, Zenon
<1>5. PidOwned'
  <2> SUFFICES ASSUME NEW r \in Procs
               PROVE  (IF Live(r)
                       THEN LET us == pi_get(pidinfo, p_pid[r])
                            IN  us # NULL /\ us.pi_proc = r /\ ~us.pi_exited
                       ELSE p_pid[r] = INVALID_PID)'
    BY Zenon DEF PidOwned
  <2>1. CASE Live(r) /\ r # p
    <3>1. /\ p_pid[r] \in Pids
          /\ pi_get(pidinfo, p_pid[r]) # NULL
          /\ pi_get(pidinfo, p_pid[r]).pi_proc = r
          /\ ~pi_get(pidinfo, p_pid[r]).pi_exited
      BY <2>1, Zenon DEF IInv, PidOwned, TypeOK
    <3>2. Slot(p_pid[r]) \in Used(pidinfo') /\ Slot(p_pid[r]) # s
      BY <1>g, <1>l, <1>n, <2>1, <3>1, Zenon
    <3> QED
      BY <1>e, <1>j, <1>k, <1>n, <1>o, <2>1, <3>1, <3>2
  <2>2. CASE ~(Live(r) /\ r # p)
    BY <1>j, <1>k, <2>2, Zenon DEF IInv, PidOwned
  <2> QED
    BY <2>1, <2>2, Zenon
<1>6. WaitSound'
  <2> SUFFICES ASSUME NEW r \in Procs, pc'[r] \in {"sleep", "woken"}
               PROVE  (LET them == pi_get(pidinfo, wpid[r])
                       IN  /\ them # NULL
                           /\ them.pi_ppid = p_pid[r]
                           /\ (them.pi_exited <=> pc[r] = "woken"))'
    BY Zenon DEF WaitSound
  <2> DEFINE w == wpid[r]
  <2>1. r # p /\ pc[r] \in {"sleep", "woken"} /\ Live(r)
    BY <1>i, Zenon DEF Live
  <2>2. p_pid[r] # pid /\ p_pid[r] # INVALID_PID
    BY <1>l, <2>1, Zenon
  <2>3. /\ w \in Pids
        /\ pi_get(pidinfo, w) # NULL
        /\ pi_get(pidinfo, w).pi_ppid = p_pid[r]
        /\ (pi_get(pidinfo, w).pi_exited <=> pc[r] = "woken")
    BY <2>1, Zenon DEF IInv, WaitSound, TypeOK
  <2>4. wpid'[r] = w /\ p_pid'[r] = p_pid[r]
    BY <1>j, <2>1, Zenon
  <2> HIDE DEF w
  <2>5. Slot(w) \in Used(pidinfo')
    BY <1>f, <1>n, <2>2, <2>3, Zenon
  <2>6. /\ pi_get(pidinfo', w) # NULL
        /\ pi_get(pidinfo', w) = pidinfo'[Slot(w)]
    BY <1>n, <1>o, <2>3, <2>5, Zenon
  <2>7. pidinfo'[Slot(w)].pi_ppid = p_pid[r]
    BY <1>e, <1>n, <2>2, <2>3, <2>5, Zenon
  <2>8. pidinfo'[Slot(w)].pi_exited <=> pc'[r] = "woken"
    <3>1. CASE w = pid
      <4>1. pidinfo[s].pi_ppid = p_pid[r]
        BY <1>n, <2>3, <3>1, Zenon DEF s
      <4>2. pc'[r] = "woken"
        BY <1>i, <2>1, <2>2, <3>1, <4>1, Zenon DEF w
      <4> QED
        BY <1>e, <2>5, <3>1, <4>2, Zenon DEF s
    <3>2. CASE w # pid
      <4>1. pc'[r] = pc[r]
        BY <1>i, <2>1, <3>2, Zenon DEF w
      <4> QED
        BY <1>e, <1>n, <2>3, <2>5, <3>2, <4>1, Zenon
    <3> QED
      BY <3>1, <3>2, Zenon
  <2> QED
    BY <2>4, <2>6, <2>7, <2>8, Zenon
<1>7. ForkSound'
  <2> SUFFICES ASSUME NEW r \in Procs, pc'[r] = "fork"
               PROVE  (/\ child[r] \in Procs
                       /\ pc[child[r]] = "embryo"
                       /\ pi_get(pidinfo, p_pid[child[r]]).pi_ppid = p_pid[r])'
    BY Zenon DEF ForkSound
  <2> DEFINE c == child[r]
  <2>1. r # p /\ pc[r] = "fork" /\ Live(r)
    BY <1>i, Zenon DEF Live
  <2>2. c \in Procs /\ pc[c] = "embryo" /\ pi_get(pidinfo, p_pid[c]).pi_ppid = p_pid[r]
    BY <2>1, Zenon DEF IInv, ForkSound
  <2>3. c # p /\ Live(c) /\ pc'[c] = "embryo"
    BY <1>a, <1>i, <2>2, Zenon DEF Live
  <2> HIDE DEF c
  <2>4. /\ p_pid[c] \in Pids
        /\ p_pid[c] # pid
        /\ pi_get(pidinfo, p_pid[c]) # NULL
    BY <1>l, <2>2, <2>3, Zenon DEF IInv, PidOwned, TypeOK
  <2>5. Slot(p_pid[c]) \in Used(pidinfo')
    BY <1>f, <1>l, <1>n, <2>1, <2>2, <2>4, Zenon
  <2>6. pi_get(pidinfo', p_pid[c]).pi_ppid = p_pid[r]
    BY <1>e, <1>l, <1>n, <1>o, <2>1, <2>2, <2>4, <2>5
  <2> QED
    BY <1>j, <2>1, <2>2, <2>3, <2>6, Zenon DEF c
<1>8. EmbryoChildless'
  <2> SUFFICES ASSUME NEW r \in Procs, pc'[r] = "embryo", NEW i \in Used(pidinfo')
               PROVE  (pidinfo[i].pi_ppid # p_pid[r])'
    BY Zenon DEF EmbryoChildless
  <2>1. r # p /\ pc[r] = "embryo" /\ Live(r) /\ p_pid'[r] = p_pid[r]
    BY <1>i, <1>j, Zenon DEF Live
  <2>2. pidinfo[i].pi_ppid # p_pid[r]
    BY <1>e, <2>1, Zenon DEF IInv, EmbryoChildless
  <2> QED
    BY <1>e, <1>l, <2>1, <2>2, Zenon
<1>9. KidsSound'
  <2> SUFFICES ASSUME NEW r \in Procs, NEW k \in kids'[r]
               PROVE  (/\ Live(r)
                       /\ pi_get(pidinfo, k) # NULL
                       /\ pi_get(pidinfo, k).pi_ppid = p_pid[r]
                       /\ pc[pi_get(pidinfo, k).pi_proc] # "embryo")'
    BY Zenon DEF KidsSound
  <2>1. r # p /\ k \in kids[r] /\ k \in Pids
    BY <1>j, Zenon DEF IInv, TypeOK
  <2>2. /\ Live(r)
        /\ pi_get(pidinfo, k) # NULL
        /\ pi_get(pidinfo, k).pi_ppid = p_pid[r]
        /\ pc[pi_get(pidinfo, k).pi_proc] # "embryo"
    BY <2>1, Zenon DEF IInv, KidsSound
  <2>3. Slot(k) \in Used(pidinfo')
    BY <1>f, <1>l, <1>n, <2>1, <2>2, Zenon
  <2>4. /\ pi_get(pidinfo', k) # NULL
        /\ pi_get(pidinfo', k).pi_ppid = p_pid[r]
        /\ pi_get(pidinfo', k).pi_proc = pi_get(pidinfo, k).pi_proc
    BY <1>e, <1>l, <1>n, <1>o, <2>1, <2>2, <2>3
  <2>5. pc'[pi_get(pidinfo, k).pi_proc] # "embryo"
    BY <1>i, <1>m, <1>n, <2>1, <2>2, ZenonT(30)
  <2> QED
    BY <1>j, <1>k, <2>1, <2>2, <2>4, <2>5, Zenon
<1>10. KidsComplete'
  <2> SUFFICES ASSUME NEW i \in Used(pidinfo'), NEW r \in Procs, Live(r)',
                      (pidinfo[i].pi_ppid = p_pid[r])'
               PROVE  (\/ pidinfo[i].pi_pid \in kids[r]
                       \/ pc[r] = "fork" /\ p_pid[child[r]] = pidinfo[i].pi_pid)'
    BY Zenon DEF KidsComplete
  <2>1. Live(r) /\ r # p /\ p_pid'[r] = p_pid[r] /\ kids'[r] = kids[r]
    BY <1>j, <1>k, Zenon
  <2>2. /\ i \in Used(pidinfo)
        /\ pidinfo[i].pi_ppid = p_pid[r]
        /\ pidinfo'[i].pi_pid = pidinfo[i].pi_pid
    BY <1>e, <1>l, <2>1, Zenon
  <2>3. \/ pidinfo[i].pi_pid \in kids[r]
        \/ pc[r] = "fork" /\ p_pid[child[r]] = pidinfo[i].pi_pid
    BY <2>1, <2>2, Zenon DEF IInv, KidsComplete
  <2>4. CASE pc[r] = "fork" /\ p_pid[child[r]] = pidinfo[i].pi_pid
    <3>1. child[r] \in Procs /\ child[r] # p
      BY <1>a, <2>4, Zenon DEF IInv, ForkSound
    <3>2. pc'[r] = "fork"
      BY <1>i, <2>1, <2>4, Zenon
    <3> QED
      BY <1>j, <2>2, <2>4, <3>1, <3>2, Zenon
  <2> QED
    BY <2>1, <2>2, <2>3, <2>4, Zenon
<1> QED
  BY <1>1, <1>2, <1>3, <1>4, <1>5, <1>6, <1>7, <1>8, <1>9, <1>10, Zenon DEF IInv

-----------------------------------------------------------------------------
(* The refinement of WaitExit: one lemma per action, from the place of a
   process, its entry in the table and the parent recorded there. *)

\* p is recorded as the parent of c.
IsParent(p, c) ==
    /\ p_pid[p] # INVALID_PID
    /\ \E i \in Used(pidinfo) : pidinfo[i].pi_proc = c /\ pidinfo[i].pi_ppid = p_pid[p]

\* What the refinement needs of a state.
RInv == IInv /\ OneEntry /\ StatusKept

\* The state of a process in WaitExit.
StAt(place, entry) ==
    IF place = "embryo" THEN "embryo"
    ELSE IF place \in {"user", "fork", "sleep", "woken"} THEN "alive"
    ELSE IF entry THEN "zombie" ELSE "free"

\* The refinement mapping of a process, before and after a step.
LEMMA StIs ==
    ASSUME NEW c \in Procs
    PROVE  /\ stBar[c] = StAt(pc[c], HasEntry(c))
           /\ stBar'[c] = StAt(pc'[c], HasEntry(c)')
<1>1. HasEntry(c) \in BOOLEAN /\ HasEntry(c)' \in BOOLEAN
  BY Zenon DEF HasEntry
<1>2. stBar[c] = StAt(pc[c], HasEntry(c))
  BY <1>1, Zenon DEF stBar, StAt, Live
<1>3. stBar'[c] = StAt(pc'[c], HasEntry(c)')
  BY <1>1, Zenon DEF stBar, StAt, Live
<1> QED
  BY <1>2, <1>3, Zenon

\* The mapping as functions.
LEMMA BarFunctions ==
    /\ stBar = [c \in Procs |-> stBar[c]] /\ stBar' = [c \in Procs |-> stBar'[c]]
    /\ parentBar = [c \in Procs |-> parentBar[c]]
    /\ parentBar' = [c \in Procs |-> parentBar'[c]]
BY DEF stBar, parentBar

\* The recorded parents of c are the set parentBar chooses from.
LEMMA ParentsAre ==
    ASSUME NEW c \in Procs
    PROVE  /\ Parents(c) = {p \in Procs : IsParent(p, c)}
           /\ Parents(c)' = {p \in Procs : IsParent(p, c)'}
BY Zenon DEF Parents, IsParent, Used

\* A process has one recorded parent at most.
LEMMA OneParent ==
    /\ RInv => \A c, p, q \in Procs : IsParent(p, c) /\ IsParent(q, c) => p = q
    /\ RInv' => \A c, p, q \in Procs : IsParent(p, c)' /\ IsParent(q, c)' => p = q
<1>1. RInv => \A c, p, q \in Procs : IsParent(p, c) /\ IsParent(q, c) => p = q
  <2> SUFFICES ASSUME RInv, NEW c \in Procs, NEW p \in Procs, NEW q \in Procs,
                      IsParent(p, c), IsParent(q, c)
               PROVE  p = q
    BY Zenon
  <2>1. p_pid[p] = p_pid[q] /\ p_pid[p] # INVALID_PID
    BY Zenon DEF IsParent, RInv, OneEntry
  <2>2. Live(p) /\ Live(q)
    BY <2>1, Zenon DEF RInv, IInv, PidOwned
  <2> QED
    BY <2>1, <2>2, Zenon DEF RInv, IInv, PidOwned
<1>2. RInv' => \A c, p, q \in Procs : IsParent(p, c)' /\ IsParent(q, c)' => p = q
  <2> SUFFICES ASSUME RInv', NEW c \in Procs, NEW p \in Procs, NEW q \in Procs,
                      IsParent(p, c)', IsParent(q, c)'
               PROVE  p = q
    BY Zenon
  <2>1. p_pid'[p] = p_pid'[q] /\ p_pid'[p] # INVALID_PID
    BY Zenon DEF IsParent, RInv, OneEntry
  <2>2. Live(p)' /\ Live(q)'
    BY <2>1, Zenon DEF RInv, IInv, PidOwned
  <2> QED
    BY <2>1, <2>2, Zenon DEF RInv, IInv, PidOwned
<1> QED
  BY <1>1, <1>2, Zenon

\* parentBar names the recorded parent.
LEMMA ParentIs ==
    ASSUME NEW c \in Procs
    PROVE  /\ RInv => \A p \in Procs : IsParent(p, c) <=> parentBar[c] = p
           /\ RInv => parentBar[c] \in Procs \cup {NULL}
           /\ RInv' => \A p \in Procs : IsParent(p, c)' <=> parentBar'[c] = p
           /\ RInv' => parentBar'[c] \in Procs \cup {NULL}
<1>1. ASSUME RInv
      PROVE  /\ \A p \in Procs : IsParent(p, c) <=> parentBar[c] = p
             /\ parentBar[c] \in Procs \cup {NULL}
  <2>1. CASE Parents(c) = {}
    <3>1. parentBar[c] = NULL
      BY <2>1, Zenon DEF parentBar
    <3> QED
      BY <2>1, <3>1, ParentsAre, ProcsAssumption, Zenon
  <2>2. CASE Parents(c) # {}
    <3>1. PICK q : q = CHOOSE p \in Parents(c) : TRUE
      BY Zenon
    <3>2. parentBar[c] = q
      BY <2>2, <3>1, Zenon DEF parentBar
    <3>3. q \in Procs /\ IsParent(q, c)
      BY <2>2, <3>1, ParentsAre, Zenon
    <3> QED
      BY <1>1, <3>2, <3>3, OneParent, Zenon
  <2> QED
    BY <2>1, <2>2, Zenon
<1>2. ASSUME RInv'
      PROVE  /\ \A p \in Procs : IsParent(p, c)' <=> parentBar'[c] = p
             /\ parentBar'[c] \in Procs \cup {NULL}
  <2>1. CASE Parents(c)' = {}
    <3>1. parentBar'[c] = NULL
      BY <2>1, Zenon DEF parentBar
    <3> QED
      BY <2>1, <3>1, ParentsAre, ProcsAssumption, Zenon
  <2>2. CASE Parents(c)' # {}
    <3>1. PICK q : q = CHOOSE p \in Parents(c)' : TRUE
      BY Zenon
    <3>2. parentBar'[c] = q
      BY <2>2, <3>1, Zenon DEF parentBar
    <3>3. q \in Procs /\ IsParent(q, c)'
      BY <2>2, <3>1, ParentsAre, Zenon
    <3> QED
      BY <1>2, <3>2, <3>3, OneParent, Zenon
  <2> QED
    BY <2>1, <2>2, Zenon
<1> QED
  BY <1>1, <1>2, Zenon

\* The mapping after a step, from what the step does to the table.
LEMMA ParentBars ==
    ASSUME RInv', NEW f \in [Procs -> Procs \cup {NULL}],
           \A c, p \in Procs : IsParent(p, c)' <=> f[c] = p
    PROVE  parentBar' = f
<1>1. ASSUME NEW c \in Procs PROVE parentBar'[c] = f[c]
  BY ParentIs, ProcsAssumption, Zenon
<1> QED
  BY <1>1, BarFunctions, Zenon

LEMMA StBars ==
    ASSUME NEW g, g = [c \in Procs |-> g[c]],
           \A c \in Procs : StAt(pc'[c], HasEntry(c)') = g[c]
    PROVE  stBar' = g
BY StIs, BarFunctions, ZenonT(30)

\* The mapping has the types of WaitExit.
LEMMA BarTypes ==
    ASSUME RInv
    PROVE  parentBar \in [Procs -> Procs \cup {NULL}]
BY ParentIs, BarFunctions, Zenon

\* A step that leaves the table, statuses and pids alone, and the places that
\* WaitExit tells apart, is not visible there.
LEMMA Invisible ==
    ASSUME RInv, RInv', pidinfo' = pidinfo, p_pid' = p_pid, exitcode' = exitcode, got' = got,
           \A c \in Procs : StAt(pc'[c], HasEntry(c)) = StAt(pc[c], HasEntry(c))
    PROVE  UNCHANGED Abs!vars
<1>1. \A c \in Procs : HasEntry(c)' <=> HasEntry(c)
  BY Zenon DEF HasEntry
<1>2. \A c, p \in Procs : IsParent(p, c)' <=> IsParent(p, c)
  BY Zenon DEF IsParent
<1>3. parentBar' = parentBar
  <2>1. \A c, p \in Procs : IsParent(p, c)' <=> parentBar[c] = p
    BY <1>2, ParentIs, Zenon
  <2> QED
    BY <2>1, BarTypes, ParentBars, Zenon
<1>4. stBar' = stBar
  <2>1. ASSUME NEW c \in Procs PROVE StAt(pc'[c], HasEntry(c)') = stBar[c]
    <3>1. HasEntry(c)' = HasEntry(c)
      BY <1>1, Zenon DEF HasEntry
    <3> QED
      BY <3>1, StIs, Zenon
  <2> QED
    BY <2>1, BarFunctions, StBars, Zenon
<1> QED
  BY <1>3, <1>4, Zenon DEF Abs!vars

\* Taking an entry out of the table leaves its process without one, and the
\* others as they are.
LEMMA EntryGone ==
    ASSUME RInv, NEW s \in Used(pidinfo), pidinfo' = [pidinfo EXCEPT ![s] = NULL],
           \A q \in Procs : \/ p_pid'[q] = p_pid[q]
                            \/ p_pid'[q] = INVALID_PID /\ \A d \in Procs : ~IsParent(q, d)
    PROVE  /\ OneEntry'
           /\ exitcode' = exitcode => StatusKept'
           /\ \A d \in Procs : HasEntry(d)' <=> HasEntry(d) /\ d # pidinfo[s].pi_proc
           /\ \A d, q \in Procs :
                 IsParent(q, d)' <=> IsParent(q, d) /\ d # pidinfo[s].pi_proc
<1>1. pidinfo \in [Slots -> PidInfo \cup {NULL}]
  BY Zenon DEF RInv, IInv, TypeOK
<1>2. /\ Used(pidinfo)' = Used(pidinfo) \ {s}
      /\ \A i \in Used(pidinfo)' : pidinfo'[i] = pidinfo[i]
  <2>1. s \in Slots /\ NULL \notin PidInfo
    BY NullAssumption, Zenon DEF Used
  <2>2. \A i \in Slots : pidinfo'[i] = IF i = s THEN NULL ELSE pidinfo[i]
    BY <1>1, <2>1, Zenon
  <2>3. Used(pidinfo)' = {i \in Slots : pidinfo'[i] # NULL}
    BY Zenon DEF Used
  <2> QED
    BY <2>1, <2>2, <2>3, Zenon DEF Used
<1>6. \A i, j \in Used(pidinfo) : pidinfo[i].pi_proc = pidinfo[j].pi_proc => i = j
  BY Zenon DEF RInv, OneEntry
<1>7. \A i \in Used(pidinfo) : pidinfo[i].pi_exited =>
         pidinfo[i].pi_exitstatus = exitcode[pidinfo[i].pi_proc]
  BY Zenon DEF RInv, StatusKept
<1>3. OneEntry' /\ (exitcode' = exitcode => StatusKept')
  <2>1. ASSUME NEW i \in Used(pidinfo)', NEW j \in Used(pidinfo)',
               pidinfo'[i].pi_proc = pidinfo'[j].pi_proc
        PROVE  i = j
    <3>1. i \in Used(pidinfo) /\ j \in Used(pidinfo)
      BY <1>2, Zenon
    <3>2. pidinfo'[i] = pidinfo[i] /\ pidinfo'[j] = pidinfo[j]
      BY <1>2, Zenon
    <3> QED
      BY <1>6, <2>1, <3>1, <3>2, Zenon
  <2>2. ASSUME NEW i \in Used(pidinfo)', pidinfo'[i].pi_exited, exitcode' = exitcode
        PROVE  pidinfo'[i].pi_exitstatus = exitcode'[pidinfo'[i].pi_proc]
    <3>1. i \in Used(pidinfo) /\ pidinfo'[i] = pidinfo[i]
      BY <1>2, Zenon
    <3> QED
      BY <1>7, <2>2, <3>1, Zenon
  <2>3. OneEntry'
    BY <2>1, Zenon DEF OneEntry
  <2>4. ASSUME exitcode' = exitcode PROVE StatusKept'
    BY <2>2, <2>4, Zenon DEF StatusKept
  <2> QED
    BY <2>3, <2>4, Zenon
<1>4. ASSUME NEW d \in Procs PROVE HasEntry(d)' <=> HasEntry(d) /\ d # pidinfo[s].pi_proc
  <2>1. /\ HasEntry(d) <=> \E i \in Used(pidinfo) : pidinfo[i].pi_proc = d
        /\ HasEntry(d)' <=> \E i \in Used(pidinfo)' : pidinfo'[i].pi_proc = d
    BY Zenon DEF HasEntry, Used
  <2>2. ASSUME NEW i \in Used(pidinfo)', pidinfo'[i].pi_proc = d
        PROVE  HasEntry(d) /\ d # pidinfo[s].pi_proc
    <3>1. i \in Used(pidinfo) /\ i # s /\ pidinfo'[i] = pidinfo[i]
      BY <1>2, Zenon
    <3> QED
      BY <1>6, <2>1, <2>2, <3>1, Zenon
  <2>3. ASSUME NEW i \in Used(pidinfo), pidinfo[i].pi_proc = d, d # pidinfo[s].pi_proc
        PROVE  HasEntry(d)'
    <3>1. i \in Used(pidinfo)' /\ pidinfo'[i] = pidinfo[i]
      BY <1>2, <2>3, Zenon
    <3> QED
      BY <2>1, <2>3, <3>1, Zenon
  <2> QED
    BY <2>1, <2>2, <2>3, Zenon
<1>5. ASSUME NEW d \in Procs, NEW q \in Procs
      PROVE  IsParent(q, d)' <=> IsParent(q, d) /\ d # pidinfo[s].pi_proc
  <2>1. IsParent(q, d)' <=>
          /\ p_pid'[q] # INVALID_PID
          /\ \E i \in Used(pidinfo)' : pidinfo'[i].pi_proc = d /\ pidinfo'[i].pi_ppid = p_pid'[q]
    BY Zenon DEF IsParent
  <2>2. CASE p_pid'[q] = p_pid[q]
    BY <1>2, <2>1, <2>2, ZenonT(30) DEF RInv, OneEntry, IsParent
  <2>3. CASE p_pid'[q] = INVALID_PID /\ ~IsParent(q, d)
    BY <2>1, <2>3, Zenon
  <2> QED
    BY <2>2, <2>3, Zenon
<1> QED
  BY <1>3, <1>4, <1>5, Zenon

\* The mapping after the entry of c, which is not or no longer running, is gone.
LEMMA GoneBars ==
    ASSUME RInv, RInv', NEW c \in Procs,
           \A d \in Procs : HasEntry(d)' <=> HasEntry(d) /\ d # c,
           \A d, q \in Procs : IsParent(q, d)' <=> IsParent(q, d) /\ d # c,
           pc'[c] \in {"none", "exiting"},
           \A d \in Procs : d # c =>
               StAt(pc'[d], HasEntry(d)) = StAt(pc[d], HasEntry(d))
    PROVE  /\ stBar' = [stBar EXCEPT ![c] = "free"]
           /\ parentBar' = [parentBar EXCEPT ![c] = NULL]
<1>1. parentBar' = [parentBar EXCEPT ![c] = NULL]
  <2>1. parentBar \in [Procs -> Procs \cup {NULL}]
    BY BarTypes, Zenon
  <2>2. PICK f : f = [parentBar EXCEPT ![c] = NULL]
    BY Zenon
  <2>3. f \in [Procs -> Procs \cup {NULL}]
    BY <2>1, <2>2, Zenon
  <2>4. \A d, q \in Procs : IsParent(q, d)' <=> f[d] = q
    BY <2>1, <2>2, ParentIs, ProcsAssumption, Zenon
  <2> QED
    BY <2>2, <2>3, <2>4, ParentBars, Zenon
<1>2. stBar' = [stBar EXCEPT ![c] = "free"]
  <2>1. PICK g : g = [stBar EXCEPT ![c] = "free"]
    BY Zenon
  <2>2. g = [d \in Procs |-> g[d]] /\ g[c] = "free" /\ \A d \in Procs : d # c => g[d] = stBar[d]
    BY <2>1, BarFunctions, Zenon
  <2>3. ~HasEntry(c)'
    BY Zenon
  <2>4. StAt(pc'[c], HasEntry(c)') = "free"
    BY <2>3, Zenon DEF StAt
  <2>5. ASSUME NEW d \in Procs, d # c PROVE StAt(pc'[d], HasEntry(d)') = stBar[d]
    <3>1. HasEntry(d)' = HasEntry(d)
      BY <2>5, Zenon DEF HasEntry
    <3> QED
      BY <2>5, <3>1, StIs, Zenon
  <2> QED
    BY <2>1, <2>2, <2>4, <2>5, StBars, ZenonT(30)
<1> QED
  BY <1>1, <1>2, Zenon

\* Freeing the entry of an exited child of p: the child is a zombie of p's, its
\* entry holds its status, and it is free afterwards.
LEMMA CollectBars ==
    ASSUME RInv, IInv', NEW p \in Procs, NEW q \in Pids, Live(p),
           pi_get(pidinfo, q) # NULL, pidinfo[Slot(q)].pi_exited,
           pidinfo[Slot(q)].pi_ppid = p_pid[p],
           pidinfo' = [pidinfo EXCEPT ![Slot(q)] = NULL],
           p_pid' = p_pid, exitcode' = exitcode,
           \A d \in Procs : pc'[d] = pc[d] \/ (pc[d] = "woken" /\ pc'[d] = "user")
    PROVE  /\ RInv'
           /\ \E c \in Procs :
                 /\ stBar[c] = "zombie" /\ parentBar[c] = p
                 /\ exitcode[c] = pidinfo[Slot(q)].pi_exitstatus
                 /\ stBar' = [stBar EXCEPT ![c] = "free"]
                 /\ parentBar' = [parentBar EXCEPT ![c] = NULL]
<1>1. PICK s \in Used(pidinfo) : s = Slot(q)
  BY PidsNat, SlotType, Zenon DEF pi_get, Used
<1>2. pidinfo[s] \in PidInfo
  BY Zenon DEF RInv, IInv, TypeOK, Used
<1>3. PICK c \in Procs : c = pidinfo[s].pi_proc
  BY <1>2, Zenon DEF PidInfo
<1>4. ~Live(c) /\ exitcode[c] = pidinfo[s].pi_exitstatus
  BY <1>1, <1>3, Zenon DEF RInv, IInv, EntriesOwned, StatusKept
<1>5. HasEntry(c)
  BY <1>3, Zenon DEF HasEntry, Used
<1>6. p_pid[p] # INVALID_PID
  BY LiveEntry, Zenon DEF RInv
<1>7. IsParent(p, c)
  BY <1>1, <1>3, <1>6, Zenon DEF IsParent
<1>8. pc[c] \in {"none", "exiting"} /\ pc'[c] \in {"none", "exiting"}
  BY <1>4, Zenon DEF RInv, IInv, TypeOK, Places, Live
<1>9. stBar[c] = "zombie"
  BY <1>5, <1>8, StIs, Zenon DEF StAt
<1>10. /\ OneEntry' /\ StatusKept'
       /\ \A d \in Procs : HasEntry(d)' <=> HasEntry(d) /\ d # c
       /\ \A d, r \in Procs : IsParent(r, d)' <=> IsParent(r, d) /\ d # c
  BY <1>1, <1>3, EntryGone, Zenon
<1>11. RInv'
  BY <1>10, Zenon DEF RInv
<1>12. ASSUME NEW d \in Procs
       PROVE  StAt(pc'[d], HasEntry(d)) = StAt(pc[d], HasEntry(d))
  BY Zenon DEF StAt
<1>13. /\ stBar' = [stBar EXCEPT ![c] = "free"]
       /\ parentBar' = [parentBar EXCEPT ![c] = NULL]
  BY <1>8, <1>10, <1>11, <1>12, GoneBars, Zenon
<1> QED
  BY <1>1, <1>4, <1>7, <1>9, <1>11, <1>13, ParentIs, Zenon

\* pid_wait, with or without a sleep, is Wait.
LEMMA WaitRefines ==
    ASSUME RInv, IInv', NEW p \in Procs, NEW q \in Pids,
           WaitCollect(p, q) \/ (WaitResume(p) /\ q = wpid[p])
    PROVE  RInv' /\ Abs!Next
<1>1. /\ pi_get(pidinfo, q) # NULL
      /\ pi_get(pidinfo, q).pi_ppid = p_pid[p]
      /\ pi_get(pidinfo, q).pi_exited
      /\ Live(p)
  <2>1. CASE WaitCollect(p, q)
    BY <2>1, WaitCheck, Zenon DEF WaitCollect, RInv, IInv, Live
  <2>2. CASE WaitResume(p) /\ q = wpid[p]
    BY <2>2, Zenon DEF WaitResume, RInv, IInv, WaitSound, Live
  <2> QED
    BY <2>1, <2>2, Zenon
<1>2. pidinfo[Slot(q)] = pi_get(pidinfo, q)
  BY <1>1, Zenon DEF pi_get
<1>3. /\ pidinfo' = [pidinfo EXCEPT ![Slot(q)] = NULL] /\ p_pid' = p_pid
      /\ exitcode' = exitcode
      /\ got' = [got EXCEPT ![p] = pidinfo[Slot(q)].pi_exitstatus]
  <2>1. pid_wait_collect(q) /\ exitcode' = exitcode
    BY Zenon DEF WaitCollect, WaitResume
  <2>2. got' = [got EXCEPT ![p] = pidinfo[Slot(q)].pi_exitstatus]
    BY <1>1, <1>2, Zenon DEF WaitCollect, WaitResume
  <2> QED
    BY <1>1, <1>2, <2>1, <2>2, Zenon DEF pid_wait_collect
<1>4. pc \in [Procs -> Places]
  BY Zenon DEF RInv, IInv, TypeOK
<1>5. \A d \in Procs : pc'[d] = pc[d] \/ (pc[d] = "woken" /\ pc'[d] = "user")
  <2>1. CASE WaitCollect(p, q)
    BY <2>1, Zenon DEF WaitCollect
  <2>2. CASE WaitResume(p)
    BY <1>4, <2>2, Zenon DEF WaitResume
  <2> QED
    BY <2>1, <2>2, Zenon
<1>6. /\ RInv'
      /\ \E c \in Procs :
            /\ stBar[c] = "zombie" /\ parentBar[c] = p
            /\ exitcode[c] = pidinfo[Slot(q)].pi_exitstatus
            /\ stBar' = [stBar EXCEPT ![c] = "free"]
            /\ parentBar' = [parentBar EXCEPT ![c] = NULL]
  <2>1. pidinfo[Slot(q)].pi_exited /\ pidinfo[Slot(q)].pi_ppid = p_pid[p]
    BY <1>1, <1>2, Zenon
  <2> QED
    BY <1>1, <1>3, <1>5, <2>1, CollectBars, ZenonT(30)
<1>7. \E c \in Procs : Abs!Wait(p, c)
  BY <1>3, <1>6, Zenon DEF Abs!Wait
<1> QED
  BY <1>6, <1>7, Zenon DEF Abs!Next

\* The steps that WaitExit does not see.
LEMMA QuietRefines ==
    ASSUME RInv, IInv', NEW p \in Procs,
           \/ ForkEagain(p) \/ ForkEnomem(p) \/ Destroy(p)
           \/ \E q \in Pids : WaitSleep(p, q)
           \/ UNCHANGED vars
    PROVE  RInv' /\ UNCHANGED Abs!vars
<1>1. pidinfo' = pidinfo /\ p_pid' = p_pid /\ exitcode' = exitcode /\ got' = got
  BY Zenon DEF ForkEagain, ForkEnomem, Destroy, WaitSleep, pid_alloc_eagain, pid_alloc_enomem,
         procVars, pidVars, vars
<1>2. RInv'
  BY <1>1, Zenon DEF RInv, OneEntry, StatusKept
<1>3. pc \in [Procs -> Places]
  BY Zenon DEF RInv, IInv, TypeOK
<1>4. ASSUME NEW d \in Procs
      PROVE  \/ pc'[d] = pc[d]
             \/ pc[d] = "user" /\ pc'[d] = "sleep"
             \/ pc[d] = "exiting" /\ pc'[d] = "none"
  <2>1. CASE ForkEagain(p) \/ ForkEnomem(p) \/ UNCHANGED vars
    BY <2>1, Zenon DEF ForkEagain, ForkEnomem, procVars, vars
  <2>2. CASE Destroy(p)
    BY <1>3, <2>2, Zenon DEF Destroy
  <2>3. CASE \E q \in Pids : WaitSleep(p, q)
    BY <1>3, <2>3, Zenon DEF WaitSleep
  <2> QED
    BY <2>1, <2>2, <2>3, Zenon
<1>5. \A d \in Procs : StAt(pc'[d], HasEntry(d)) = StAt(pc[d], HasEntry(d))
  BY <1>4, Zenon DEF StAt
<1> QED
  BY <1>1, <1>2, <1>5, Invisible, Zenon

\* ForkDone starts the child.
LEMMA ForkDoneRefines ==
    ASSUME RInv, IInv', NEW p \in Procs, ForkDone(p)
    PROVE  RInv' /\ Abs!Next
<1>1. /\ pidinfo' = pidinfo /\ p_pid' = p_pid /\ exitcode' = exitcode /\ got' = got
      /\ pc[p] = "fork" /\ pc' = [pc EXCEPT ![p] = "user", ![child[p]] = "user"]
  BY Zenon DEF ForkDone, pidVars
<1>2. RInv'
  BY <1>1, Zenon DEF RInv, OneEntry, StatusKept
<1>3. pc \in [Procs -> Places]
  BY Zenon DEF RInv, IInv, TypeOK
<1>4. PICK c \in Procs : /\ c = child[p] /\ pc[c] = "embryo"
                         /\ pi_get(pidinfo, p_pid[c]).pi_ppid = p_pid[p]
  BY <1>1, Zenon DEF RInv, IInv, ForkSound
<1>5. pc'[c] = "user" /\ \A d \in Procs : d # c =>
                            pc'[d] = pc[d] \/ (pc[d] = "fork" /\ pc'[d] = "user")
  BY <1>1, <1>3, <1>4, Zenon
<1>6. IsParent(p, c)
  <2>1. Live(p) /\ Live(c)
    BY <1>1, <1>4, Zenon DEF Live
  <2> QED
    BY <1>4, <2>1, LiveEntry DEF RInv, IsParent
<1>7. stBar[c] = "embryo" /\ parentBar[c] = p
  BY <1>2, <1>4, <1>6, StIs, ParentIs, Zenon DEF StAt
<1>8. \A d \in Procs : HasEntry(d)' = HasEntry(d)
  BY <1>1, Zenon DEF HasEntry
<1>9. parentBar' = parentBar
  <2>1. \A d, r \in Procs : IsParent(r, d)' <=> parentBar[d] = r
    BY <1>1, ParentIs DEF IsParent
  <2> QED
    BY <1>2, <2>1, BarTypes, ParentBars, Zenon
<1>10. stBar' = [stBar EXCEPT ![c] = "alive"]
  <2>1. PICK g : g = [stBar EXCEPT ![c] = "alive"]
    BY Zenon
  <2>2. g = [d \in Procs |-> g[d]] /\ g[c] = "alive" /\ \A d \in Procs : d # c => g[d] = stBar[d]
    BY <2>1, BarFunctions, Zenon
  <2>3. StAt(pc'[c], HasEntry(c)') = "alive"
    BY <1>5, Zenon DEF StAt
  <2>4. ASSUME NEW d \in Procs, d # c PROVE StAt(pc'[d], HasEntry(d)') = stBar[d]
    <3>1. StAt(pc'[d], HasEntry(d)) = StAt(pc[d], HasEntry(d))
      BY <1>5, <2>4, Zenon DEF StAt
    <3> QED
      BY <1>8, <3>1, StIs, Zenon
  <2> QED
    BY <2>1, <2>2, <2>3, <2>4, StBars, Zenon
<1>11. Abs!Start(p, c)
  BY <1>1, <1>7, <1>9, <1>10, Zenon DEF Abs!Start
<1> QED
  BY <1>2, <1>11, Zenon DEF Abs!Next

\* ForkUndo discards the child.
LEMMA ForkUndoRefines ==
    ASSUME RInv, IInv', NEW p \in Procs, ForkUndo(p)
    PROVE  RInv' /\ Abs!Next
<1>1. /\ pc[p] = "fork" /\ pc' = [pc EXCEPT ![p] = "user", ![child[p]] = "none"]
      /\ exitcode' = exitcode /\ got' = got
  BY Zenon DEF ForkUndo
<1>2. PICK c \in Procs : /\ c = child[p] /\ pc[c] = "embryo"
                         /\ pi_get(pidinfo, p_pid[c]).pi_ppid = p_pid[p]
  BY <1>1, Zenon DEF RInv, IInv, ForkSound
<1>3. Live(p) /\ Live(c)
  BY <1>1, <1>2, Zenon DEF Live
<1>4. PICK s \in Used(pidinfo) : /\ s = Slot(p_pid[c]) /\ pidinfo[s].pi_proc = c
                                 /\ pidinfo[s].pi_ppid = p_pid[p]
  BY <1>2, <1>3, LiveEntry DEF RInv
<1>5. /\ pidinfo' = [pidinfo EXCEPT ![s] = NULL]
      /\ p_pid' = [p_pid EXCEPT ![c] = INVALID_PID]
  <2>1. ~panic'
    BY Zenon DEF IInv, NoPanic
  <2> QED
    BY <1>2, <1>4, <2>1, Zenon DEF ForkUndo, pid_unalloc
<1>6. IsParent(p, c)
  BY <1>3, <1>4, LiveEntry, Zenon DEF RInv, IsParent
<1>7. stBar[c] = "embryo" /\ parentBar[c] = p
  BY <1>2, <1>6, StIs, ParentIs, Zenon DEF StAt
<1>8. /\ OneEntry' /\ StatusKept'
      /\ \A d \in Procs : HasEntry(d)' <=> HasEntry(d) /\ d # c
      /\ \A d, r \in Procs : IsParent(r, d)' <=> IsParent(r, d) /\ d # c
  <2>1. ASSUME NEW r \in Procs
        PROVE  \/ p_pid'[r] = p_pid[r]
               \/ p_pid'[r] = INVALID_PID /\ \A d \in Procs : ~IsParent(r, d)
    <3>1. CASE r = c
      <4>1. \A d \in Procs : ~IsParent(c, d)
        BY <1>2, Zenon DEF IsParent, RInv, IInv, EmbryoChildless
      <4>2. p_pid'[c] = INVALID_PID
        BY <1>5, Zenon DEF RInv, IInv, TypeOK
      <4> QED
        BY <3>1, <4>1, <4>2, Zenon
    <3>2. CASE r # c
      BY <1>5, <3>2, Zenon DEF RInv, IInv, TypeOK
    <3> QED
      BY <3>1, <3>2, Zenon
  <2> QED
    BY <1>1, <1>4, <1>5, <2>1, EntryGone, ZenonT(30)
<1>9. RInv'
  BY <1>8, Zenon DEF RInv
<1>10. pc'[c] = "none" /\ \A d \in Procs : d # c =>
                             pc'[d] = pc[d] \/ (pc[d] = "fork" /\ pc'[d] = "user")
  BY <1>1, <1>2, Zenon DEF RInv, IInv, TypeOK
<1>11. \A d \in Procs : d # c => StAt(pc'[d], HasEntry(d)) = StAt(pc[d], HasEntry(d))
  BY <1>10, Zenon DEF StAt
<1>12. /\ stBar' = [stBar EXCEPT ![c] = "free"]
       /\ parentBar' = [parentBar EXCEPT ![c] = NULL]
  BY <1>8, <1>9, <1>10, <1>11, GoneBars, Zenon
<1>13. Abs!Discard(p, c)
  BY <1>1, <1>7, <1>12, Zenon DEF Abs!Discard
<1> QED
  BY <1>9, <1>13, Zenon DEF Abs!Next

\* ForkAlloc makes the child.
LEMMA ForkAllocRefines ==
    ASSUME Counting, RInv, IInv', NEW p \in Procs, NEW c \in Procs, ForkAlloc(p, c)
    PROVE  RInv' /\ Abs!Next
<1>1. /\ pc[p] = "user" /\ pc[c] = "none" /\ c # p
      /\ pc' = [pc EXCEPT ![p] = "fork", ![c] = "embryo"]
      /\ exitcode' = [exitcode EXCEPT ![c] = NoStatus]
      /\ got' = [got EXCEPT ![c] = NoStatus]
      /\ \A i \in Used(pidinfo) : pidinfo[i].pi_proc # c
  BY Zenon DEF ForkAlloc, Unused
<1>2. TypeOK /\ pc \in [Procs -> Places] /\ p_pid \in [Procs -> Pids]
  BY Zenon DEF RInv, IInv, TypeOK
<1>3. p_pid[p] # INVALID_PID /\ Stops # {} /\ ~panic'
  BY Zenon DEF ForkAlloc, pid_alloc, IInv, NoPanic
<1>4. PICK n \in Pids : /\ n = Candidate /\ n \in PID_MIN .. PID_MAX
                        /\ pidinfo[Slot(n)] = NULL
  BY <1>2, <1>3, CandidateType, Zenon DEF TypeOK
<1>5. PICK e : e = pidinfo_create(n, p_pid[p], c)
  BY Zenon
<1>6. /\ pidinfo' = [pidinfo EXCEPT ![Slot(n)] = e]
      /\ p_pid' = [p_pid EXCEPT ![c] = n]
  BY <1>3, <1>4, <1>5, Zenon DEF ForkAlloc, pid_alloc
<1>7. PICK s \in Slots : s = Slot(n) /\ s \notin Used(pidinfo)
  BY <1>4, PidsNat, SlotType, Zenon DEF Used
<1>8. e \in PidInfo /\ e.pi_proc = c /\ e.pi_ppid = p_pid[p] /\ ~e.pi_exited /\ e # NULL
  <2>1. n \in Pids /\ p_pid[p] \in Pids /\ NoStatus \in Status \cup {NoStatus}
    BY <1>2, <1>4, Zenon
  <2>2. e = [pi_pid |-> n, pi_ppid |-> p_pid[p], pi_exited |-> FALSE,
             pi_exitstatus |-> NoStatus, pi_proc |-> c]
    BY <1>5, Zenon DEF pidinfo_create
  <2>3. e \in PidInfo
    BY <2>1, <2>2, Zenon DEF PidInfo
  <2>4. e.pi_proc = c /\ e.pi_ppid = p_pid[p] /\ ~e.pi_exited
    BY <2>2, Zenon
  <2> QED
    BY <2>3, <2>4, NullAssumption, Zenon
<1>9. \A i \in Slots : pidinfo'[i] = IF i = s THEN e ELSE pidinfo[i]
  BY <1>2, <1>6, <1>7, Zenon DEF TypeOK
<1>10. /\ pidinfo'[s] = e
       /\ \A i \in Slots : i \in Used(pidinfo)' <=> i \in Used(pidinfo) \/ i = s
       /\ \A i \in Used(pidinfo) : i \in Used(pidinfo)' /\ pidinfo'[i] = pidinfo[i]
  BY <1>7, <1>8, <1>9, Zenon DEF Used
<1>11. Used(pidinfo)' \subseteq Slots /\ Used(pidinfo) \subseteq Slots
  BY Zenon DEF Used
<1>12. RInv'
  <2>1. ASSUME NEW i \in Used(pidinfo)', NEW j \in Used(pidinfo)',
               pidinfo'[i].pi_proc = pidinfo'[j].pi_proc
        PROVE  i = j
    <3>1. /\ i = s \/ (i \in Used(pidinfo) /\ pidinfo'[i] = pidinfo[i])
          /\ j = s \/ (j \in Used(pidinfo) /\ pidinfo'[j] = pidinfo[j])
      BY <1>10, <1>11, Zenon
    <3> QED
      BY <1>1, <1>8, <1>10, <2>1, <3>1, ZenonT(30) DEF RInv, OneEntry
  <2>2. ASSUME NEW i \in Used(pidinfo)', pidinfo'[i].pi_exited
        PROVE  pidinfo'[i].pi_exitstatus = exitcode'[pidinfo'[i].pi_proc]
    <3>1. i \in Used(pidinfo) /\ pidinfo'[i] = pidinfo[i]
      BY <1>8, <1>10, <1>11, <2>2, Zenon
    <3>2. pidinfo[i].pi_proc \in Procs /\ pidinfo[i].pi_proc # c
      BY <1>1, <1>2, <3>1, Zenon DEF TypeOK, Used, PidInfo
    <3>3. exitcode'[pidinfo[i].pi_proc] = exitcode[pidinfo[i].pi_proc]
      BY <1>1, <1>2, <3>2, Zenon DEF TypeOK
    <3> QED
      BY <2>2, <3>1, <3>3, Zenon DEF RInv, StatusKept
  <2>3. OneEntry'
    BY <2>1, Zenon DEF OneEntry
  <2>4. StatusKept'
    BY <2>2, Zenon DEF StatusKept
  <2> QED
    BY <2>3, <2>4, Zenon DEF RInv
<1>13. /\ ~HasEntry(c) /\ HasEntry(c)'
       /\ \A d \in Procs : d # c => (HasEntry(d)' = HasEntry(d))
  <2>1. \A d \in Procs : /\ HasEntry(d) <=> \E i \in Used(pidinfo) : pidinfo[i].pi_proc = d
                         /\ HasEntry(d)' <=> \E i \in Used(pidinfo)' : pidinfo'[i].pi_proc = d
                         /\ HasEntry(d) \in BOOLEAN /\ HasEntry(d)' \in BOOLEAN
    BY Zenon DEF HasEntry, Used
  <2>2. ~HasEntry(c) /\ HasEntry(c)'
    BY <1>1, <1>7, <1>8, <1>10, <2>1, Zenon
  <2>3. ASSUME NEW d \in Procs, d # c, HasEntry(d)' PROVE HasEntry(d)
    <3>1. PICK i \in Used(pidinfo)' : pidinfo'[i].pi_proc = d
      BY <2>1, <2>3, Zenon
    <3>2. i \in Used(pidinfo) /\ pidinfo'[i] = pidinfo[i]
      BY <1>8, <1>10, <1>11, <2>3, <3>1, Zenon
    <3> QED
      BY <2>1, <3>1, <3>2, Zenon
  <2>4. ASSUME NEW d \in Procs, HasEntry(d) PROVE HasEntry(d)'
    <3>1. PICK i \in Used(pidinfo) : pidinfo[i].pi_proc = d
      BY <2>1, <2>4, Zenon
    <3> QED
      BY <1>10, <2>1, <3>1, Zenon
  <2> QED
    BY <2>1, <2>2, <2>3, <2>4, Zenon
<1>14. \A r \in Procs : p_pid'[r] = IF r = c THEN n ELSE p_pid[r]
  BY <1>2, <1>6, Zenon
<1>15. \A d, r \in Procs : IsParent(r, d)' <=> IF d = c THEN r = p ELSE IsParent(r, d)
  <2>0. n # INVALID_PID
    BY <1>4 DEF INVALID_PID, PID_MIN
  <2>a. \A r \in Procs : IsParent(r, c)' => r = p
    <3>1. IsParent(p, c)'
      BY <1>1, <1>3, <1>8, <1>10, <1>14, <1>7, Zenon DEF IsParent
    <3> QED
      BY <1>12, <3>1, OneParent, Zenon
  <2>b. IsParent(p, c)'
    BY <1>1, <1>3, <1>8, <1>10, <1>14, <1>7, Zenon DEF IsParent
  <2>1. ASSUME NEW d \in Procs, NEW r \in Procs, d # c, IsParent(r, d)' PROVE IsParent(r, d)
    <3>1. PICK i \in Used(pidinfo)' : /\ pidinfo'[i].pi_proc = d
                                      /\ pidinfo'[i].pi_ppid = p_pid'[r]
                                      /\ p_pid'[r] # INVALID_PID
      BY <2>1, Zenon DEF IsParent
    <3>2. i \in Used(pidinfo) /\ pidinfo'[i] = pidinfo[i]
      BY <1>8, <1>10, <1>11, <2>1, <3>1, Zenon
    <3>3. r # c
      <4>1. PICK q \in Procs : Live(q) /\ p_pid[q] = pidinfo[i].pi_ppid
        BY <3>1, <3>2, Zenon DEF RInv, IInv, ParentsLive
      <4>2. /\ Slot(p_pid[q]) \in Used(pidinfo) /\ q # c
        BY <1>1, <4>1, LiveEntry, Zenon DEF RInv, Live
      <4> QED
        BY <1>7, <1>14, <3>1, <3>2, <4>1, <4>2, Zenon
    <3> QED
      BY <1>14, <3>1, <3>2, <3>3, Zenon DEF IsParent
  <2>2. ASSUME NEW d \in Procs, NEW r \in Procs, IsParent(r, d) PROVE IsParent(r, d)'
    <3>1. PICK i \in Used(pidinfo) : /\ pidinfo[i].pi_proc = d
                                     /\ pidinfo[i].pi_ppid = p_pid[r]
                                     /\ p_pid[r] # INVALID_PID
      BY <2>2, Zenon DEF IsParent
    <3>2. r # c
      BY <1>1, <3>1, Zenon DEF RInv, IInv, PidOwned, Live
    <3>3. p_pid'[r] = p_pid[r] /\ i \in Used(pidinfo)' /\ pidinfo'[i] = pidinfo[i]
      BY <1>10, <1>14, <3>2, Zenon
    <3> QED
      BY <3>1, <3>3, Zenon DEF IsParent
  <2> QED
    BY <2>a, <2>b, <2>1, <2>2, Zenon
<1>16. parentBar' = [parentBar EXCEPT ![c] = p]
  <2>1. parentBar \in [Procs -> Procs \cup {NULL}]
    BY BarTypes, Zenon
  <2>2. PICK f : f = [parentBar EXCEPT ![c] = p]
    BY Zenon
  <2>3. /\ f \in [Procs -> Procs \cup {NULL}]
        /\ \A d \in Procs : f[d] = IF d = c THEN p ELSE parentBar[d]
    BY <2>1, <2>2, Zenon
  <2>4. \A d, r \in Procs : IsParent(r, d)' <=> f[d] = r
    BY <1>15, <2>3, ParentIs
  <2> QED
    BY <1>12, <2>2, <2>3, <2>4, ParentBars, Zenon
<1>17. pc'[c] = "embryo" /\ \A d \in Procs : d # c =>
                               pc'[d] = pc[d] \/ (pc[d] = "user" /\ pc'[d] = "fork")
  BY <1>1, <1>2, Zenon
<1>18. stBar' = [stBar EXCEPT ![c] = "embryo"]
  <2>1. PICK g : g = [stBar EXCEPT ![c] = "embryo"]
    BY Zenon
  <2>2. g = [d \in Procs |-> g[d]] /\ g[c] = "embryo" /\ \A d \in Procs : d # c => g[d] = stBar[d]
    BY <2>1, BarFunctions, Zenon
  <2>3. StAt(pc'[c], HasEntry(c)') = "embryo"
    BY <1>17, Zenon DEF StAt
  <2>4. ASSUME NEW d \in Procs, d # c PROVE StAt(pc'[d], HasEntry(d)') = stBar[d]
    <3>1. StAt(pc'[d], HasEntry(d)) = StAt(pc[d], HasEntry(d))
      BY <1>17, <2>4, Zenon DEF StAt
    <3> QED
      BY <1>13, <2>4, <3>1, StIs, Zenon
  <2> QED
    BY <2>1, <2>2, <2>3, <2>4, StBars, ZenonT(30)
<1>19. stBar[p] = "alive" /\ stBar[c] = "free"
  BY <1>1, <1>13, StIs, Zenon DEF StAt
<1>20. Abs!Create(p, c)
  BY <1>1, <1>16, <1>18, <1>19, Zenon DEF Abs!Create
<1> QED
  BY <1>12, <1>20, Zenon DEF Abs!Next

=============================================================================

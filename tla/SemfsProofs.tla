---------------------------- MODULE SemfsProofs -----------------------------
(***************************************************************************)
(* What semfs promises, for any number of threads, names and semaphores:   *)
(* the steps of remove, vnode_decref and reclaim keep the inductive        *)
(* invariant of SemfsSteps, and so does every step; and the theorems.      *)
(***************************************************************************)
EXTENDS SemfsSteps, FiniteSetTheorems

\* semfs_remove finds its name.
LEMMA RemoveStep ==
    ASSUME IInv, NEW t \in Threads, NEW n \in Names, semfs_remove(t, n)
    PROVE  IInv'
<1>1. /\ panic = "none" /\ pc[t] = "idle" /\ dirlock = NULL /\ dirlock' = t
      /\ semfs_dents[n] # None
      /\ pc' = [pc EXCEPT ![t] = "getsem"]
      /\ semfs_dents' = semfs_dents /\ semfs_sems' = semfs_sems
      /\ vn_refcount' = vn_refcount /\ allocated' = allocated
      /\ sems_linked' = sems_linked /\ sems_hasvnode' = sems_hasvnode
      /\ sems_holder' = sems_holder /\ tablelock' = tablelock
      /\ open' = open /\ panic' = panic
  BY Zenon DEF semfs_remove, StartDir, At, Goto, tables, sems
<1>2. TypeOK /\ Good
  BY <1>1, Zenon DEF IInv
<1>3. pc \in [Threads -> Places] /\ arg \in [Threads -> Locals]
  BY <1>2, Zenon DEF TypeOK
<1>4. arg[t] = NoArg /\ \A u \in Threads : pc[u] \notin InDir /\ ~arg[u].new
  BY <1>1, <1>2, DirFree, Zenon DEF Good, Held
<1>5. PICK i \in Semnums : i = semfs_dents[n] /\ Live(i)
  BY <1>1, <1>2, DirFree, Zenon DEF TypeOK
<1>6. arg' = [arg EXCEPT ![t].name = n, ![t].num = i]
  BY <1>5, Zenon DEF semfs_remove
<1>7. /\ pc'[t] = "getsem" /\ arg'[t].name = n /\ arg'[t].num = i
      /\ arg'[t].sem = NULL /\ ~arg'[t].new
      /\ \A u \in Threads : u # t => pc'[u] = pc[u] /\ arg'[u] = arg[u]
  BY <1>1, <1>3, <1>4, <1>6 DEF Locals, NoArg
<1>8. TypeOK'
  <2>1. arg' \in [Threads -> Locals]
    BY <1>3, <1>6, SetNameNum, Zenon
  <2>2. pc' \in [Threads -> Places]
    BY <1>1, <1>3, Zenon DEF Places, InDir
  <2> QED
    BY <1>1, <1>2, <2>1, <2>2, Zenon DEF TypeOK
<1>9. \A u \in Threads : u # t => Held(u)' /\ Creating(u)' /\ Naming(u)' /\ Reclaiming(u)'
  BY <1>1, <1>2, <1>7, OthersKept, Zenon
<1>10. Held(t)' /\ Creating(t)' /\ Naming(t)' /\ Reclaiming(t)'
  <2>1. Held(t)
    BY <1>2, Zenon DEF Good
  <2>2. Held(t)'
    BY <1>1, <1>7, <2>1, Zenon DEF Held, InDir
  <2>3. Live(i)'
    BY <1>1, <1>5, Zenon DEF Live
  <2> QED
    BY <1>1, <1>5, <1>7, <2>2, <2>3, ZenonT(30) DEF Creating, Naming, Reclaiming, Live
<1>11. Table'
  BY <1>1, <1>2, Zenon DEF Good, Table
<1>12. Counted'
  <2>1. \A u \in Threads, j \in Semnums : HoldsRef(u, j)' <=> HoldsRef(u, j)
    BY <1>1, <1>7, ZenonT(30) DEF HoldsRef
  <2> QED
    BY <1>1, <1>2, <2>1, SameRefs, Zenon
<1>13. Named'
  BY <1>1, <1>2, DirFree, Zenon DEF Good, Named, Live
<1>14. Kept'
  <2>1. \A u \in Threads, s \in Sems : (Makes(u, s) => Makes(u, s)') /\ (Answers(u, s) => Answers(u, s)')
    BY <1>1, <1>4, <1>7, ZenonT(30) DEF Makes, Answers
  <2>2. \A s \in Sems : InTable(s)' <=> InTable(s)
    BY <1>1, Zenon DEF InTable
  <2> QED
    BY <1>1, <1>2, <2>1, <2>2, Zenon DEF Good, Kept, TypeOK
<1> QED
  BY <1>8, <1>9, <1>10, <1>11, <1>12, <1>13, <1>14, Zenon DEF IInv, Good

\* semfs_remove looks the semaphore up.
LEMMA GetsemStep ==
    ASSUME IInv, NEW t \in Threads, semfs_getsembynum(t)
    PROVE  IInv'
<1>1. /\ panic = "none" /\ pc[t] = "getsem" /\ pc' = [pc EXCEPT ![t] = "unlink"]
      /\ semfs_dents' = semfs_dents /\ semfs_sems' = semfs_sems
      /\ vn_refcount' = vn_refcount /\ allocated' = allocated
      /\ sems_linked' = sems_linked /\ sems_hasvnode' = sems_hasvnode
      /\ sems_holder' = sems_holder /\ dirlock' = dirlock /\ tablelock' = tablelock
      /\ open' = open /\ panic' = panic
  BY Zenon DEF semfs_getsembynum, At, Goto, tables, sems, locks
<1>2. TypeOK /\ Good
  BY <1>1, Zenon DEF IInv
<1>3. /\ pc \in [Threads -> Places] /\ arg \in [Threads -> Locals] /\ allocated \subseteq Sems
  BY <1>2, Zenon DEF TypeOK
<1>4. Held(t) /\ Naming(t) /\ ~arg[t].new /\ dirlock = t
  BY <1>1, <1>2, Zenon DEF Good, Held, InDir
<1>5. PICK i \in Semnums : i = arg[t].num /\ Live(i)
  BY <1>1, <1>4, Zenon DEF Naming
<1>6. PICK s \in Sems : s \in allocated /\ s = semfs_sems[i]
  BY <1>3, <1>5, Zenon DEF Live
<1>7. arg' = [arg EXCEPT ![t].sem = s]
  BY <1>5, <1>6, ZenonT(30) DEF semfs_getsembynum
<1>8. /\ pc'[t] = "unlink" /\ arg'[t].name = arg[t].name /\ arg'[t].num = i
      /\ arg'[t].sem = s /\ ~arg'[t].new
      /\ \A u \in Threads : u # t => pc'[u] = pc[u] /\ arg'[u] = arg[u]
  BY <1>1, <1>3, <1>4, <1>5, <1>7, Zenon DEF Locals
<1>9. TypeOK'
  <2>1. arg' \in [Threads -> Locals]
    BY <1>3, <1>7 DEF Locals
  <2>2. pc' \in [Threads -> Places]
    BY <1>1, <1>3, Zenon DEF Places, InDir
  <2> QED
    BY <1>1, <1>2, <2>1, <2>2, Zenon DEF TypeOK
<1>10. \A u \in Threads : u # t => Held(u)' /\ Creating(u)' /\ Naming(u)' /\ Reclaiming(u)'
  BY <1>1, <1>2, <1>4, <1>8, OthersKept, Zenon
<1>11. Held(t)' /\ Creating(t)' /\ Naming(t)' /\ Reclaiming(t)'
  <2>1. Held(t)'
    BY <1>1, <1>4, <1>8, Zenon DEF Held, InDir
  <2>2. Naming(t)'
    BY <1>1, <1>4, <1>5, <1>6, <1>8, ZenonT(30) DEF Naming, Live
  <2> QED
    BY <1>8, <2>1, <2>2, Zenon DEF Creating, Reclaiming
<1>12. Table'
  BY <1>1, <1>2, Zenon DEF Good, Table
<1>13. Counted'
  <2>1. \A u \in Threads, j \in Semnums : HoldsRef(u, j)' <=> HoldsRef(u, j)
    BY <1>1, <1>8, Zenon DEF HoldsRef
  <2> QED
    BY <1>1, <1>2, <2>1, SameRefs, Zenon
<1>14. Named'
  <2>1. \A m \in Names : InTransit(m) => InTransit(m)'
    BY <1>1, <1>4, <1>8, Zenon DEF InTransit
  <2> QED
    BY <1>1, <1>2, <2>1, Zenon DEF Good, Named, Live
<1>15. Kept'
  <2>1. \A u \in Threads, r \in Sems : (Makes(u, r) => Makes(u, r)') /\ (Answers(u, r) => Answers(u, r)')
    BY <1>1, <1>4, <1>8, Zenon DEF Makes, Answers
  <2>2. \A r \in Sems : InTable(r)' <=> InTable(r)
    BY <1>1, Zenon DEF InTable
  <2> QED
    BY <1>1, <1>2, <2>1, <2>2, Zenon DEF Good, Kept, TypeOK
<1> QED
  BY <1>9, <1>10, <1>11, <1>12, <1>13, <1>14, <1>15, Zenon DEF IInv, Good

\* semfs_remove clears sems_linked.
LEMMA UnlinkStep ==
    ASSUME CountingFacts, IInv, NEW t \in Threads, Unlink(t)
    PROVE  IInv'
<1>1. panic = "none" /\ pc[t] = "unlink"
  BY Zenon DEF Unlink, At
<1>2. TypeOK /\ Good
  BY <1>1, Zenon DEF IInv
<1>3. /\ pc \in [Threads -> Places] /\ allocated \subseteq Sems
      /\ sems_linked \in [Sems -> BOOLEAN] /\ sems_holder \in [Sems -> Threads \cup {NULL}]
  BY <1>2, Zenon DEF TypeOK
<1>4. Held(t) /\ Naming(t) /\ ~arg[t].new
  BY <1>1, <1>2, Zenon DEF Good, Held
<1>5. /\ dirlock = t /\ \A u \in Threads : u # t => pc[u] \notin InDir /\ ~arg[u].new
  BY <1>1, <1>2, DirAlone, Zenon DEF InDir
<1>6. PICK i \in Semnums : i = arg[t].num
  BY <1>1, <1>4, Zenon DEF Naming
<1>7. PICK n \in Names : n = arg[t].name /\ semfs_dents[n] = i
  BY <1>1, <1>4, <1>6, Zenon DEF Naming
<1>8. PICK s \in Sems : s = arg[t].sem /\ s = semfs_sems[i] /\ s \in allocated
  BY <1>1, <1>3, <1>4, <1>6, Zenon DEF Naming, Live
<1>9. /\ sems_holder' = [sems_holder EXCEPT ![s] = t]
      /\ sems_linked' = [sems_linked EXCEPT ![s] = FALSE]
      /\ pc' = [pc EXCEPT ![t] = "unlinked"]
      /\ semfs_dents' = semfs_dents /\ semfs_sems' = semfs_sems
      /\ vn_refcount' = vn_refcount /\ allocated' = allocated
      /\ sems_hasvnode' = sems_hasvnode /\ dirlock' = dirlock /\ tablelock' = tablelock
      /\ open' = open /\ arg' = arg /\ panic' = panic
  BY <1>8, Zenon DEF Unlink, Goto, tables, locks
<1>10. /\ pc'[t] = "unlinked" /\ \A u \in Threads : u # t => pc'[u] = pc[u]
       /\ sems_holder'[s] = t /\ ~sems_linked'[s]
       /\ \A r \in Sems : r # s => sems_linked'[r] = sems_linked[r]
  BY <1>3, <1>9, Zenon
<1>11. TypeOK'
  <2>1. pc' \in [Threads -> Places]
    BY <1>3, <1>9, ZenonT(30) DEF Places, InDir
  <2> QED
    BY <1>2, <1>9, <2>1, Zenon DEF TypeOK
<1>12. \A u \in Threads : u # t => Held(u)' /\ Creating(u)' /\ Naming(u)' /\ Reclaiming(u)'
  BY <1>2, <1>5, <1>9, <1>10, OthersKept, Zenon
<1>13. Held(t)' /\ Creating(t)' /\ Naming(t)' /\ Reclaiming(t)'
  <2>1. Held(t)'
    BY <1>1, <1>4, <1>9, <1>10, ZenonT(30) DEF Held, InDir
  <2>2. Naming(t)'
    BY <1>6, <1>7, <1>8, <1>9, <1>10, Zenon DEF Naming
  <2> QED
    BY <1>4, <1>9, <1>10, <2>1, <2>2, Zenon DEF Creating, Reclaiming
<1>14. Table'
  BY <1>2, <1>9, <1>10, ZenonT(30) DEF Good, Table
<1>15. Counted'
  <2>1. \A u \in Threads, j \in Semnums : HoldsRef(u, j)' <=> HoldsRef(u, j)
    BY <1>1, <1>9, <1>10, Zenon DEF HoldsRef
  <2> QED
    BY <1>2, <1>9, <2>1, SameRefs, Zenon
<1>16. Named'
  <2>1. InTransit(n)' /\ \A m \in Names : InTransit(m) => InTransit(m)'
    BY <1>1, <1>4, <1>7, <1>9, <1>10, Zenon DEF InTransit
  <2>2. \A j \in Semnums : j # i => semfs_sems[j] # s
    BY <1>2, <1>8, SemfsAssumption, Zenon DEF Good, Table
  <2>3. \A j \in Semnums : j # i /\ Live(j) => Live(j)'
    BY <1>3, <1>9, <1>10, <2>2, ZenonT(30) DEF Live
  <2>4. \A m \in Names : semfs_dents[m] = i => m = n
    BY <1>2, <1>7, NoneNotNum, Zenon DEF Good, Named
  <2> QED
    BY <1>2, <1>9, <2>1, <2>3, <2>4, ZenonT(30) DEF Good, Named
<1>17. Kept'
  <2>1. Answers(t, s)' /\ InTable(s)
    BY <1>8, <1>9, <1>10, Zenon DEF Answers, InTable
  <2>2. \A u \in Threads, r \in Sems : (Makes(u, r) => Makes(u, r)') /\ (Answers(u, r) => Answers(u, r)')
    BY <1>1, <1>9, <1>10, Zenon DEF Makes, Answers
  <2>3. \A r \in Sems : InTable(r)' <=> InTable(r)
    BY <1>9, Zenon DEF InTable
  <2> QED
    BY <1>2, <1>3, <1>9, <1>10, <2>1, <2>2, <2>3 DEF Good, Kept
<1> QED
  BY <1>11, <1>12, <1>13, <1>14, <1>15, <1>16, <1>17, Zenon DEF IInv, Good

\* semfs_remove reads sems_hasvnode.
LEMMA TestVnodeStep ==
    ASSUME IInv, NEW t \in Threads, TestVnode(t)
    PROVE  IInv'
<1>1. panic = "none" /\ pc[t] = "unlinked"
  BY Zenon DEF TestVnode, At
<1>2. TypeOK /\ Good
  BY <1>1, Zenon DEF IInv
<1>3. /\ pc \in [Threads -> Places] /\ allocated \subseteq Sems
      /\ sems_holder \in [Sems -> Threads \cup {NULL}]
  BY <1>2, Zenon DEF TypeOK
<1>4. Held(t) /\ Naming(t) /\ ~arg[t].new /\ dirlock = t
  BY <1>1, <1>2, Zenon DEF Good, Held, InDir
<1>5. PICK s \in Sems : s = arg[t].sem /\ s \in allocated
  BY <1>1, <1>3, <1>4, Zenon DEF Naming
<1>6. /\ semfs_dents' = semfs_dents /\ semfs_sems' = semfs_sems
      /\ vn_refcount' = vn_refcount /\ allocated' = allocated
      /\ sems_linked' = sems_linked /\ sems_hasvnode' = sems_hasvnode
      /\ dirlock' = dirlock /\ tablelock' = tablelock
      /\ open' = open /\ arg' = arg /\ panic' = panic
  BY Zenon DEF TestVnode, tables, locks
<1>7. \/ /\ sems_hasvnode[s] /\ pc' = [pc EXCEPT ![t] = "undent"]
         /\ sems_holder' = [sems_holder EXCEPT ![s] = NULL]
      \/ /\ ~sems_hasvnode[s] /\ pc' = [pc EXCEPT ![t] = "free"]
         /\ sems_holder' = sems_holder
  BY <1>5, Zenon DEF TestVnode, Goto
<1>8. /\ \A u \in Threads : u # t => pc'[u] = pc[u]
      /\ \/ pc'[t] = "undent" /\ sems_hasvnode[s]
         \/ pc'[t] = "free" /\ ~sems_hasvnode[s] /\ sems_holder' = sems_holder
  BY <1>3, <1>7, Zenon
<1>9. TypeOK'
  <2>1. pc' \in [Threads -> Places]
    BY <1>3, <1>7, Zenon DEF Places, InDir
  <2>2. sems_holder' \in [Sems -> Threads \cup {NULL}]
    BY <1>3, <1>7, Zenon
  <2> QED
    BY <1>2, <1>6, <2>1, <2>2, Zenon DEF TypeOK
<1>10. \A u \in Threads : u # t => Held(u)' /\ Creating(u)' /\ Naming(u)' /\ Reclaiming(u)'
  BY <1>2, <1>4, <1>6, <1>8, OthersKept, Zenon
<1>11. Held(t)' /\ Creating(t)' /\ Naming(t)' /\ Reclaiming(t)'
  <2>1. Held(t)'
    BY <1>1, <1>4, <1>6, <1>8, Zenon DEF Held, InDir
  <2>2. Naming(t)'
    BY <1>1, <1>4, <1>5, <1>6, <1>8, Zenon DEF Naming
  <2> QED
    BY <1>4, <1>6, <1>8, <2>1, <2>2, ZenonT(30) DEF Creating, Reclaiming
<1>12. Table'
  BY <1>2, <1>6, Zenon DEF Good, Table
<1>13. Counted'
  <2>1. \A u \in Threads, j \in Semnums : HoldsRef(u, j)' <=> HoldsRef(u, j)
    BY <1>1, <1>6, <1>8, Zenon DEF HoldsRef
  <2> QED
    BY <1>2, <1>6, <2>1, SameRefs, Zenon
<1>14. Named'
  <2>1. \A m \in Names : InTransit(m) => InTransit(m)'
    BY <1>1, <1>6, <1>8, Zenon DEF InTransit
  <2> QED
    BY <1>2, <1>6, <2>1, ZenonT(30) DEF Good, Named, Live
<1>15. Kept'
  <2>1. \A u \in Threads, r \in Sems :
           /\ Makes(u, r) => Makes(u, r)'
           /\ Answers(u, r) => Answers(u, r)' \/ sems_hasvnode[r]
    BY <1>1, <1>5, <1>6, <1>8, ZenonT(30) DEF Makes, Answers
  <2>2. \A r \in Sems : InTable(r)' <=> InTable(r)
    BY <1>6, Zenon DEF InTable
  <2> QED
    BY <1>2, <1>3, <1>6, <2>1, <2>2, Zenon DEF Good, Kept
<1> QED
  BY <1>9, <1>10, <1>11, <1>12, <1>13, <1>14, <1>15, Zenon DEF IInv, Good

\* semfs_remove destroys a semaphore without vnode.
LEMMA RemoveFreesStep ==
    ASSUME CountingFacts, IInv, NEW t \in Threads, RemoveFrees(t)
    PROVE  IInv'
<1>1. panic = "none" /\ pc[t] = "free" /\ tablelock = NULL
  BY Zenon DEF RemoveFrees, At
<1>2. TypeOK /\ Good
  BY <1>1, Zenon DEF IInv
<1>3. /\ pc \in [Threads -> Places] /\ allocated \subseteq Sems
      /\ sems_holder \in [Sems -> Threads \cup {NULL}]
  BY <1>2, Zenon DEF TypeOK
<1>4. Held(t) /\ Naming(t) /\ ~arg[t].new
  BY <1>1, <1>2, Zenon DEF Good, Held
<1>5. /\ dirlock = t /\ \A u \in Threads : u # t => pc[u] \notin InDir /\ ~arg[u].new
      /\ \A u \in Threads : pc[u] # "reclaimed"
  BY <1>1, <1>2, DirAlone, TableFree, Zenon DEF InDir
<1>6. PICK i \in Semnums : i = arg[t].num
  BY <1>1, <1>4, Zenon DEF Naming
<1>7. PICK n \in Names : n = arg[t].name /\ semfs_dents[n] = i
  BY <1>1, <1>4, <1>6, Zenon DEF Naming
<1>8. PICK s \in Sems : s \in allocated /\ s = arg[t].sem /\ s = semfs_sems[i] /\ ~sems_hasvnode[s]
  BY <1>1, <1>3, <1>4, <1>6, Zenon DEF Naming
<1>9. vn_refcount[i] = 0
  <2>1. vn_refcount[i] \in Nat
    BY <1>2, Zenon DEF TypeOK
  <2> QED
    BY <1>2, <1>8, <2>1 DEF Good, Table
<1>10. /\ semfs_sems' = [semfs_sems EXCEPT ![i] = NULL] /\ Destroyed(s)
       /\ sems_holder' = [sems_holder EXCEPT ![s] = NULL]
       /\ pc' = [pc EXCEPT ![t] = "undent"] /\ semfs_dents' = semfs_dents
       /\ vn_refcount' = vn_refcount /\ dirlock' = dirlock /\ tablelock' = tablelock
       /\ open' = open /\ arg' = arg /\ panic' = panic
  BY <1>6, <1>8, Zenon DEF RemoveFrees, Goto, locks
<1>11. pc'[t] = "undent" /\ \A u \in Threads : u # t => pc'[u] = pc[u]
  BY <1>3, <1>10, Zenon
<1>12. /\ Table'
       /\ \A j \in Semnums : j # i /\ Live(j) => Live(j)'
       /\ \A r \in allocated' : /\ r \in allocated /\ r # s /\ (InTable(r) => InTable(r)')
                                /\ sems_linked'[r] = sems_linked[r]
                                /\ sems_hasvnode'[r] = sems_hasvnode[r]
  BY <1>2, <1>8, <1>9, <1>10, DestroyedSem, Zenon DEF Good
<1>13. TypeOK'
  <2>1. pc' \in [Threads -> Places]
    BY <1>3, <1>10, Zenon DEF Places, InDir
  <2> QED
    BY <1>2, <1>10, <2>1, ZenonT(30) DEF TypeOK, Destroyed
<1>14. \A u \in Threads : u # t => Held(u)' /\ Creating(u)' /\ Naming(u)' /\ Reclaiming(u)'
  BY <1>1, <1>2, <1>5, <1>10, <1>11, OthersKept, Zenon
<1>15. Held(t)' /\ Creating(t)' /\ Naming(t)' /\ Reclaiming(t)'
  <2>1. Held(t)'
    BY <1>1, <1>4, <1>10, <1>11, Zenon DEF Held, InDir
  <2>2. Naming(t)'
    BY <1>6, <1>7, <1>10, <1>11, Zenon DEF Naming
  <2> QED
    BY <1>4, <1>10, <1>11, <2>1, <2>2, ZenonT(30) DEF Creating, Reclaiming
<1>16. Counted'
  <2>1. \A u \in Threads, j \in Semnums : HoldsRef(u, j)' <=> HoldsRef(u, j)
    BY <1>1, <1>10, <1>11, Zenon DEF HoldsRef
  <2> QED
    BY <1>2, <1>10, <2>1, SameRefs, ZenonT(30)
<1>17. Named'
  <2>1. InTransit(n)' /\ \A m \in Names : InTransit(m) => InTransit(m)'
    BY <1>1, <1>7, <1>10, <1>11, ZenonT(30) DEF InTransit
  <2>2. \A m \in Names : semfs_dents[m] = i => m = n
    BY <1>2, <1>7, NoneNotNum, Zenon DEF Good, Named
  <2> QED
    BY <1>2, <1>10, <1>12, <2>1, <2>2, Zenon DEF Good, Named
<1>18. Kept'
  <2>1. \A u \in Threads, r \in allocated' : ~Makes(u, r) /\ (Answers(u, r) => Answers(u, r)')
    BY <1>1, <1>4, <1>5, <1>8, <1>10, <1>11, <1>12, ZenonT(30) DEF Makes, Answers
  <2> QED
    BY <1>2, <1>12, <2>1, Zenon DEF Good, Kept
<1> QED
  BY <1>12, <1>13, <1>14, <1>15, <1>16, <1>17, <1>18, Zenon DEF IInv, Good

\* semfs_remove deletes the entry.
LEMMA RemoveDoneStep ==
    ASSUME CountingFacts, IInv, NEW t \in Threads, RemoveDone(t)
    PROVE  IInv'
<1>1. panic = "none" /\ pc[t] = "undent"
  BY Zenon DEF RemoveDone, At
<1>2. TypeOK /\ Good
  BY <1>1, Zenon DEF IInv
<1>3. /\ pc \in [Threads -> Places] /\ arg \in [Threads -> Locals]
      /\ semfs_dents \in [Names -> Semnums \cup {None}]
  BY <1>2, Zenon DEF TypeOK
<1>4. Held(t) /\ Naming(t) /\ ~arg[t].new
  BY <1>1, <1>2, Zenon DEF Good, Held
<1>5. /\ dirlock = t /\ \A u \in Threads : u # t => pc[u] \notin InDir /\ ~arg[u].new
  BY <1>1, <1>2, DirAlone, Zenon DEF InDir
<1>6. PICK n \in Names : n = arg[t].name
  BY <1>1, <1>4, Zenon DEF Naming
<1>7. /\ semfs_dents' = [semfs_dents EXCEPT ![n] = None]
      /\ pc' = [pc EXCEPT ![t] = "idle"] /\ arg' = [arg EXCEPT ![t] = NoArg]
      /\ dirlock' = NULL /\ semfs_sems' = semfs_sems
      /\ vn_refcount' = vn_refcount /\ allocated' = allocated
      /\ sems_linked' = sems_linked /\ sems_hasvnode' = sems_hasvnode
      /\ sems_holder' = sems_holder /\ tablelock' = tablelock
      /\ open' = open /\ panic' = panic
  BY <1>6, Zenon DEF RemoveDone, DoneDir, Done, Goto, sems
<1>8. /\ pc'[t] = "idle" /\ arg'[t] = NoArg /\ ~arg'[t].new /\ semfs_dents'[n] = None
      /\ \A u \in Threads : u # t => pc'[u] = pc[u] /\ arg'[u] = arg[u]
      /\ \A m \in Names : m # n => semfs_dents'[m] = semfs_dents[m]
  BY <1>3, <1>7, Zenon DEF NoArg
<1>9. TypeOK'
  <2>1. arg' \in [Threads -> Locals]
    BY <1>3, <1>7, SetOthers, ZenonT(30)
  <2>2. pc' \in [Threads -> Places]
    BY <1>3, <1>7, Zenon DEF Places
  <2> QED
    BY <1>2, <1>7, <2>1, <2>2, Zenon DEF TypeOK
<1>10. \A u \in Threads : u # t => Held(u)' /\ Creating(u)' /\ Naming(u)' /\ Reclaiming(u)'
  BY <1>2, <1>5, <1>7, <1>8, OthersKept, Zenon
<1>11. Held(t)' /\ Creating(t)' /\ Naming(t)' /\ Reclaiming(t)'
  <2>1. Held(t)'
    BY <1>1, <1>4, <1>7, <1>8, SemfsAssumption, Zenon DEF Held, InDir
  <2> QED
    BY <1>8, <2>1, Zenon DEF Creating, Naming, Reclaiming
<1>12. Table'
  BY <1>2, <1>7, Zenon DEF Good, Table
<1>13. Counted'
  <2>1. \A u \in Threads, j \in Semnums : HoldsRef(u, j)' <=> HoldsRef(u, j)
    BY <1>1, <1>7, <1>8, Zenon DEF HoldsRef
  <2> QED
    BY <1>2, <1>7, <2>1, SameRefs, Zenon
<1>14. Named'
  <2>1. \A m \in Names : InTransit(m) => m = n
    BY <1>5, <1>6, Zenon DEF InTransit, InDir
  <2>2. \A j \in Semnums : Live(j)' <=> Live(j)
    BY <1>7, Zenon DEF Live
  <2> QED
    BY <1>2, <1>8, <2>1, <2>2, NoneNotNum DEF Good, Named
<1>15. Kept'
  <2>1. \A u \in Threads, r \in Sems : ~Makes(u, r) /\ (Answers(u, r) => Answers(u, r)')
    BY <1>1, <1>4, <1>5, <1>8, Zenon DEF Makes, Answers
  <2>2. \A r \in Sems : InTable(r)' <=> InTable(r)
    BY <1>7, Zenon DEF InTable
  <2> QED
    BY <1>2, <1>7, <2>1, <2>2, Zenon DEF Good, Kept, TypeOK
<1> QED
  BY <1>9, <1>10, <1>11, <1>12, <1>13, <1>14, <1>15, Zenon DEF IInv, Good

\* A step of vnode_decref or semfs_reclaim keeps the facts about the others.
LEMMA OthersReclaim ==
    ASSUME TypeOK, Good, NEW t \in Threads,
           semfs_dents' = semfs_dents, semfs_sems' = semfs_sems, allocated' = allocated,
           sems_linked' = sems_linked, sems_holder' = sems_holder, dirlock' = dirlock,
           \/ tablelock' = tablelock
           \/ tablelock \in {NULL, t} /\ tablelock' \in {NULL, t},
           \A u \in Threads : u # t => open'[u] = open[u] /\ pc'[u] = pc[u] /\ arg'[u] = arg[u],
           \A j \in Semnums : vn_refcount[j] = 0 => vn_refcount'[j] = 0,
           \A r \in Sems : sems_hasvnode'[r] => sems_hasvnode[r],
           pc'[t] = "reclaimed" => \A u \in Threads : arg[u].new => arg[u].sem # arg'[t].sem
    PROVE  \A u \in Threads : u # t =>
              Held(u)' /\ Creating(u)' /\ Naming(u)' /\ Reclaiming(u)'
<1> SUFFICES ASSUME NEW u \in Threads, u # t
             PROVE  Held(u)' /\ Creating(u)' /\ Naming(u)' /\ Reclaiming(u)'
  BY Zenon
<1>1. Held(u) /\ Creating(u) /\ Naming(u) /\ Reclaiming(u)
  BY Zenon DEF Good
<1>2. open'[u] = open[u] /\ pc'[u] = pc[u] /\ arg'[u] = arg[u]
  BY Zenon
<1>3. tablelock' = u <=> tablelock = u
  BY SemfsAssumption, Zenon
<1>4. Held(u)'
  BY <1>1, <1>2, <1>3, Zenon DEF Held
<1>5. Creating(u)'
  <2>1. ASSUME NEW v \in Threads, pc'[v] = "reclaimed", arg[u].new PROVE arg'[v].sem # arg[u].sem
    <3>1. CASE v = t
      BY <2>1, <3>1, Zenon
    <3>2. CASE v # t
      <4>1. pc[v] = "reclaimed" /\ arg'[v] = arg[v]
        BY <2>1, <3>2, Zenon
      <4> QED
        BY <1>1, <2>1, <4>1, ZenonT(30) DEF Creating
    <3> QED
      BY <3>1, <3>2, Zenon
  <2>2. CASE ~arg[u].new
    BY <1>2, <2>2, Zenon DEF Creating
  <2>3. CASE arg[u].new
    <3>1. arg'[u].sem \in allocated' /\ ~sems_linked'[arg'[u].sem]
      BY <1>1, <1>2, <2>3, Zenon DEF Creating
    <3>2. \A v \in Threads : pc'[v] = "reclaimed" => arg'[v].sem # arg'[u].sem
      BY <1>2, <2>1, <2>3, Zenon
    <3>3. pc'[u] = "insert" => /\ \A i \in Semnums : semfs_sems'[i] # arg'[u].sem
                               /\ semfs_dents'[arg'[u].name] = None /\ arg'[u].name \in Names
      BY <1>1, <1>2, <2>3, ZenonT(30) DEF Creating
    <3>4. pc'[u] # "insert" => arg'[u].num \in Semnums /\ semfs_sems'[arg'[u].num] = arg'[u].sem
      BY <1>1, <1>2, <2>3, Zenon DEF Creating
    <3>5. pc'[u] \in {"dent", "uninsert", "getvnode"} =>
             vn_refcount[arg'[u].num] = 0 /\ arg'[u].num \in Semnums
      BY <1>1, <1>2, <2>3, Zenon DEF Creating
    <3>6. pc'[u] \in {"dent", "uninsert"} =>
             /\ \A n \in Names : semfs_dents'[n] # arg'[u].num
             /\ semfs_dents'[arg'[u].name] = None /\ arg'[u].name \in Names
      BY <1>1, <1>2, <2>3, ZenonT(30) DEF Creating
    <3>7. pc'[u] \in {"dent", "uninsert", "getvnode"} => vn_refcount'[arg'[u].num] = 0
      BY <3>5, Zenon
    <3> QED
      BY <3>1, <3>2, <3>3, <3>4, <3>6, <3>7, Zenon DEF Creating
  <2> QED
    BY <2>2, <2>3, Zenon
<1>6. Naming(u)'
  <2>1. pc[u] = "free" => ~sems_hasvnode'[arg[u].sem]
    BY <1>1, Zenon DEF Naming, TypeOK
  <2> QED
    BY <1>1, <1>2, <2>1, Zenon DEF Naming, Live
<1>7. Reclaiming(u)'
  BY <1>1, <1>2, Zenon DEF Reclaiming
<1> QED
  BY <1>4, <1>5, <1>6, <1>7, Zenon

\* Reference counts stay right when a thread gives up one reference.
LEMMA DropRef ==
    ASSUME CountingFacts, TypeOK, Good, NEW t \in Threads, NEW i \in Semnums,
           HoldsRef(t, i), ~HoldsRef(t, i)',
           \A u \in Threads, j \in Semnums : u # t \/ j # i => (HoldsRef(u, j)' <=> HoldsRef(u, j)),
           vn_refcount' = [vn_refcount EXCEPT ![i] = @ - 1]
    PROVE  Counted' /\ vn_refcount[i] > 0
<1>1. ASSUME NEW j \in Semnums, j # i
      PROVE  vn_refcount'[j] = Cardinality({u \in Threads : HoldsRef(u, j)'})
  <2>1. {u \in Threads : HoldsRef(u, j)'} = {u \in Threads : HoldsRef(u, j)}
    BY <1>1, Zenon
  <2>2. vn_refcount'[j] = vn_refcount[j]
    BY <1>1, Zenon DEF TypeOK
  <2> QED
    BY <2>1, <2>2, Zenon DEF Good, Counted
<1> DEFINE S == {u \in Threads : HoldsRef(u, i)}
<1>2. {u \in Threads : HoldsRef(u, i)'} = S \ {t} /\ t \in S /\ S \in SUBSET Threads
  BY Zenon
<1>3. vn_refcount[i] = Cardinality(S) /\ vn_refcount'[i] = vn_refcount[i] - 1
  BY Zenon DEF Good, Counted, TypeOK
<1> HIDE DEF S
<1>4. Cardinality(S \ {t}) = Cardinality(S) - 1 /\ Cardinality(S) > 0
  BY <1>2, Counting, Zenon
<1>5. vn_refcount'[i] = Cardinality({u \in Threads : HoldsRef(u, i)'})
  BY <1>2, <1>3, <1>4, Zenon
<1> QED
  BY <1>1, <1>3, <1>4, <1>5, Zenon DEF Counted

\* vnode_decref drops a reference or goes to semfs_reclaim with the last one.
LEMMA DecrefStep ==
    ASSUME CountingFacts, IInv, NEW t \in Threads, vnode_decref(t)
    PROVE  IInv'
<1>1. /\ panic = "none" /\ pc[t] = "idle" /\ open[t] # None
      /\ semfs_dents' = semfs_dents /\ semfs_sems' = semfs_sems /\ allocated' = allocated
      /\ sems_linked' = sems_linked /\ sems_hasvnode' = sems_hasvnode
      /\ sems_holder' = sems_holder /\ dirlock' = dirlock /\ tablelock' = tablelock
      /\ panic' = panic
  BY Zenon DEF vnode_decref, At, sems, locks
<1>2. TypeOK /\ Good
  BY <1>1, Zenon DEF IInv
<1>3. /\ pc \in [Threads -> Places] /\ arg \in [Threads -> Locals]
      /\ open \in [Threads -> Semnums \cup {None}] /\ vn_refcount \in [Semnums -> Nat]
  BY <1>2, Zenon DEF TypeOK
<1>4. Held(t) /\ arg[t] = NoArg
  BY <1>1, <1>2, Zenon DEF Good, Held
<1>5. PICK i \in Semnums : i = open[t]
  BY <1>1, <1>3, Zenon
<1>6. open' = [open EXCEPT ![t] = None]
  BY Zenon DEF vnode_decref
<1>7. \/ /\ vn_refcount[i] > 1 /\ vn_refcount' = [vn_refcount EXCEPT ![i] = @ - 1]
         /\ pc' = pc /\ arg' = arg
      \/ /\ pc' = [pc EXCEPT ![t] = "reclaim"] /\ arg' = [arg EXCEPT ![t].num = i]
         /\ vn_refcount' = vn_refcount
  BY <1>5, Zenon DEF vnode_decref, Goto
<1>8. /\ open'[t] = None /\ ~arg'[t].new
      /\ \A u \in Threads : u # t => open'[u] = open[u] /\ pc'[u] = pc[u] /\ arg'[u] = arg[u]
      /\ \/ pc'[t] = "idle" /\ arg'[t] = NoArg
         \/ pc'[t] = "reclaim" /\ arg'[t].num = i /\ arg'[t].name = NULL
      /\ \A j \in Semnums : vn_refcount[j] = 0 => vn_refcount'[j] = 0
      /\ \A j \in Semnums : vn_refcount'[j] > 0 => vn_refcount[j] > 0
  <2>1. /\ open'[t] = None
        /\ \A u \in Threads : u # t => open'[u] = open[u] /\ pc'[u] = pc[u]
    BY <1>3, <1>6, <1>7, Zenon
  <2>5. /\ \A j \in Semnums : vn_refcount[j] = 0 => vn_refcount'[j] = 0
        /\ \A j \in Semnums : vn_refcount'[j] > 0 => vn_refcount[j] > 0
    <3>1. \/ vn_refcount' = vn_refcount
          \/ vn_refcount[i] > 1 /\ vn_refcount' = [vn_refcount EXCEPT ![i] = @ - 1]
      BY <1>7, Zenon
    <3> QED
      BY <1>3, <3>1
  <2>2. \A u \in Threads : u # t => arg'[u] = arg[u]
    BY <1>3, <1>7, Zenon
  <2>3. CASE pc' = [pc EXCEPT ![t] = "reclaim"] /\ arg' = [arg EXCEPT ![t].num = i]
    <3>1. arg'[t] = [NoArg EXCEPT !.num = i]
      BY <1>3, <1>4, <2>3, Zenon
    <3>2. arg'[t].num = i /\ arg'[t].name = NULL /\ ~arg'[t].new
      BY <3>1, Zenon DEF NoArg
    <3> QED
      BY <1>3, <2>1, <2>2, <2>3, <2>5, <3>2, Zenon
  <2>4. CASE pc' = pc /\ arg' = arg
    <3>1. arg'[t] = NoArg /\ pc'[t] = pc[t]
      BY <1>4, <2>4, Zenon
    <3>2. NoArg.new = FALSE
      BY Zenon DEF NoArg
    <3> QED
      BY <1>1, <2>1, <2>2, <2>5, <3>1, <3>2, Zenon
  <2> QED
    BY <1>7, <2>3, <2>4, Zenon
<1>9. TypeOK'
  <2>1. arg' \in [Threads -> Locals]
    <3>1. arg' = arg \/ arg' = [arg EXCEPT ![t].num = i]
      BY <1>7, Zenon
    <3> QED
      BY <1>3, <3>1 DEF Locals
  <2>2. pc' \in [Threads -> Places]
    BY <1>3, <1>7, Zenon DEF Places
  <2>3. vn_refcount' \in [Semnums -> Nat] /\ open' \in [Threads -> Semnums \cup {None}]
    <3>1. vn_refcount' \in [Semnums -> Nat]
      BY <1>3, <1>7
    <3>2. open' \in [Threads -> Semnums \cup {None}]
      BY <1>3, <1>6, Zenon
    <3> QED
      BY <3>1, <3>2, Zenon
  <2> QED
    BY <1>1, <1>2, <2>1, <2>2, <2>3, Zenon DEF TypeOK
<1>10. \A u \in Threads : u # t => Held(u)' /\ Creating(u)' /\ Naming(u)' /\ Reclaiming(u)'
  BY <1>1, <1>2, <1>8, OthersReclaim, Zenon
<1>11. Held(t)' /\ Creating(t)' /\ Naming(t)' /\ Reclaiming(t)'
  <2>1. Held(t)'
    BY <1>1, <1>4, <1>8, Zenon DEF Held, InDir
  <2> QED
    BY <1>8, <2>1, Zenon DEF Creating, Naming, Reclaiming
<1>12. Table'
  BY <1>1, <1>2, <1>8, Zenon DEF Good, Table
<1>13. Counted'
  <2>1. HoldsRef(t, i)
    BY <1>5, Zenon DEF HoldsRef
  <2>2. CASE vn_refcount' = vn_refcount /\ pc'[t] = "reclaim" /\ arg'[t].num = i
    <3>1. \A u \in Threads, j \in Semnums : HoldsRef(u, j)' <=> HoldsRef(u, j)
      BY <1>1, <1>5, <1>8, <2>2, NoneNotNum, Zenon DEF HoldsRef
    <3> QED
      BY <1>2, <2>2, <3>1, SameRefs, ZenonT(30)
  <2>3. CASE vn_refcount' = [vn_refcount EXCEPT ![i] = @ - 1] /\ pc' = pc /\ arg' = arg
    <3>1. ~HoldsRef(t, i)'
      BY <1>1, <1>8, <2>3, NoneNotNum, ZenonT(30) DEF HoldsRef
    <3>2. \A u \in Threads, j \in Semnums : u # t \/ j # i => (HoldsRef(u, j)' <=> HoldsRef(u, j))
      BY <1>1, <1>5, <1>8, <2>3, NoneNotNum, Zenon DEF HoldsRef
    <3> QED
      BY <1>2, <2>1, <2>3, <3>1, <3>2, DropRef, Zenon
  <2> QED
    BY <1>3, <1>7, <1>8, <2>2, <2>3, Zenon DEF Locals
<1>14. Named'
  <2>1. \A m \in Names : InTransit(m) => InTransit(m)'
    <3>1. ~arg[t].new
      BY <1>4 DEF NoArg
    <3> QED
      BY <1>1, <1>8, <3>1, ZenonT(30) DEF InTransit
  <2> QED
    BY <1>1, <1>2, <2>1, Zenon DEF Good, Named, Live
<1>15. Kept'
  <2>1. \A u \in Threads, r \in Sems : (Makes(u, r) => Makes(u, r)') /\ (Answers(u, r) => Answers(u, r)')
    <3>1. ~arg[t].new
      BY <1>4 DEF NoArg
    <3>2. \A r \in Sems : ~Makes(t, r) /\ ~Answers(t, r)
      BY <1>1, <1>4, <3>1, Zenon DEF Makes, Answers
    <3>3. \A u \in Threads, r \in Sems :
             u # t => (Makes(u, r) => Makes(u, r)') /\ (Answers(u, r) => Answers(u, r)')
      BY <1>8, Zenon DEF Makes, Answers
    <3> QED
      BY <3>2, <3>3, Zenon
  <2>2. \A r \in Sems : InTable(r)' <=> InTable(r)
    BY <1>1, ZenonT(30) DEF InTable
  <2> QED
    BY <1>1, <1>2, <2>1, <2>2, Zenon DEF Good, Kept, TypeOK
<1> QED
  BY <1>9, <1>10, <1>11, <1>12, <1>13, <1>14, <1>15, Zenon DEF IInv, Good

\* semfs_reclaim finds that the vnode is in use again.
LEMMA ReclaimBusyStep ==
    ASSUME CountingFacts, IInv, NEW t \in Threads, ReclaimBusy(t)
    PROVE  IInv'
<1>1. /\ panic = "none" /\ pc[t] = "reclaim"
      /\ semfs_dents' = semfs_dents /\ semfs_sems' = semfs_sems /\ allocated' = allocated
      /\ sems_linked' = sems_linked /\ sems_hasvnode' = sems_hasvnode
      /\ sems_holder' = sems_holder /\ dirlock' = dirlock /\ tablelock' = tablelock
      /\ open' = open /\ panic' = panic
      /\ pc' = [pc EXCEPT ![t] = "idle"] /\ arg' = [arg EXCEPT ![t] = NoArg]
  BY Zenon DEF ReclaimBusy, At, Done, Goto, sems, locks
<1>2. TypeOK /\ Good
  BY <1>1, Zenon DEF IInv
<1>3. /\ pc \in [Threads -> Places] /\ arg \in [Threads -> Locals]
      /\ vn_refcount \in [Semnums -> Nat]
  BY <1>2, Zenon DEF TypeOK
<1>4. Held(t) /\ Reclaiming(t) /\ ~arg[t].new /\ open[t] = None
  BY <1>1, <1>2, Zenon DEF Good, Held
<1>5. PICK i \in Semnums : i = arg[t].num
  BY <1>1, <1>4, Zenon DEF Reclaiming
<1>6. vn_refcount[i] > 1 /\ vn_refcount' = [vn_refcount EXCEPT ![i] = @ - 1]
  BY <1>5, ZenonT(30) DEF ReclaimBusy
<1>7. /\ pc'[t] = "idle" /\ arg'[t] = NoArg /\ ~arg'[t].new
      /\ \A u \in Threads : u # t => pc'[u] = pc[u] /\ arg'[u] = arg[u]
      /\ \A j \in Semnums : vn_refcount[j] = 0 => vn_refcount'[j] = 0
      /\ \A j \in Semnums : vn_refcount'[j] > 0 => vn_refcount[j] > 0
  <2>1. pc'[t] = "idle" /\ arg'[t] = NoArg /\ ~arg'[t].new
    BY <1>1, <1>3, Zenon DEF NoArg
  <2>2. \A u \in Threads : u # t => pc'[u] = pc[u] /\ arg'[u] = arg[u]
    BY <1>1, <1>3, Zenon
  <2>3. \A j \in Semnums : vn_refcount'[j] = IF j = i THEN vn_refcount[i] - 1 ELSE vn_refcount[j]
    BY <1>3, <1>6, Zenon
  <2>4. vn_refcount[i] \in Nat /\ vn_refcount[i] > 1
    BY <1>3, <1>6, ZenonT(30)
  <2> QED
    BY <2>1, <2>2, <2>3, <2>4
<1>8. TypeOK'
  <2>1. arg' \in [Threads -> Locals]
    BY <1>1, <1>3, SetOthers, Zenon
  <2>2. pc' \in [Threads -> Places] /\ vn_refcount' \in [Semnums -> Nat]
    BY <1>1, <1>3, <1>6, SMTT(20) DEF Places
  <2> QED
    BY <1>1, <1>2, <2>1, <2>2, Zenon DEF TypeOK
<1>9. \A u \in Threads : u # t => Held(u)' /\ Creating(u)' /\ Naming(u)' /\ Reclaiming(u)'
  BY <1>1, <1>2, <1>7, OthersReclaim, Zenon
<1>10. Held(t)' /\ Creating(t)' /\ Naming(t)' /\ Reclaiming(t)'
  <2>1. Held(t)'
    BY <1>1, <1>4, <1>7, ZenonT(30) DEF Held, InDir
  <2> QED
    BY <1>7, <2>1, Zenon DEF Creating, Naming, Reclaiming
<1>11. Table'
  BY <1>1, <1>2, <1>7, Zenon DEF Good, Table
<1>12. Counted'
  <2>1. HoldsRef(t, i) /\ ~HoldsRef(t, i)'
    BY <1>1, <1>4, <1>5, <1>7, NoneNotNum, ZenonT(30) DEF HoldsRef
  <2>2. \A u \in Threads, j \in Semnums : u # t \/ j # i => (HoldsRef(u, j)' <=> HoldsRef(u, j))
    BY <1>1, <1>4, <1>5, <1>7, NoneNotNum, Zenon DEF HoldsRef
  <2> QED
    BY <1>2, <1>6, <2>1, <2>2, DropRef, Zenon
<1>13. Named'
  <2>1. \A m \in Names : InTransit(m) => InTransit(m)'
    BY <1>1, <1>4, <1>7, ZenonT(30) DEF InTransit
  <2> QED
    BY <1>1, <1>2, <2>1, Zenon DEF Good, Named, Live
<1>14. Kept'
  <2>1. \A u \in Threads, r \in Sems : (Makes(u, r) => Makes(u, r)') /\ (Answers(u, r) => Answers(u, r)')
    BY <1>1, <1>4, <1>7, Zenon DEF Makes, Answers
  <2>2. \A r \in Sems : InTable(r)' <=> InTable(r)
    BY <1>1, ZenonT(30) DEF InTable
  <2> QED
    BY <1>1, <1>2, <2>1, <2>2, Zenon DEF Good, Kept, TypeOK
<1> QED
  BY <1>8, <1>9, <1>10, <1>11, <1>12, <1>13, <1>14, Zenon DEF IInv, Good

\* semfs_reclaim takes the vnode away: no creat is at work on its semaphore.
LEMMA ReclaimStep ==
    ASSUME CountingFacts, IInv, NEW t \in Threads, semfs_reclaim(t)
    PROVE  IInv'
<1>1. /\ panic = "none" /\ pc[t] = "reclaim" /\ tablelock = NULL
      /\ semfs_dents' = semfs_dents /\ semfs_sems' = semfs_sems /\ allocated' = allocated
      /\ sems_linked' = sems_linked /\ sems_holder' = sems_holder /\ dirlock' = dirlock
      /\ tablelock' = t /\ open' = open /\ panic' = panic
      /\ pc' = [pc EXCEPT ![t] = "reclaimed"]
  BY Zenon DEF semfs_reclaim, TakeVnode, At, Goto
<1>2. TypeOK /\ Good
  BY <1>1, Zenon DEF IInv
<1>3. /\ pc \in [Threads -> Places] /\ arg \in [Threads -> Locals]
      /\ vn_refcount \in [Semnums -> Nat] /\ sems_hasvnode \in [Sems -> BOOLEAN]
      /\ allocated \subseteq Sems
  BY <1>2, Zenon DEF TypeOK
<1>4. Held(t) /\ Reclaiming(t) /\ ~arg[t].new /\ open[t] = None
  BY <1>1, <1>2, Zenon DEF Good, Held
<1>5. PICK i \in Semnums : i = arg[t].num
  BY <1>1, <1>4, Zenon DEF Reclaiming
<1>6. vn_refcount[i] = 1 /\ vn_refcount' = [vn_refcount EXCEPT ![i] = 0]
  BY <1>5, Zenon DEF semfs_reclaim, TakeVnode
<1>7. PICK s \in allocated : s = semfs_sems[i] /\ sems_hasvnode[s]
  <2>1. vn_refcount[i] > 0
    BY <1>6
  <2> QED
    BY <1>2, <2>1, Zenon DEF Good, Table
<1>8. s \in Sems /\ s # NULL /\ \A j \in Semnums : j # i => semfs_sems[j] # s
  BY <1>2, <1>3, <1>7, SemfsAssumption, Zenon DEF Good, Table
<1>9. /\ sems_hasvnode' = [sems_hasvnode EXCEPT ![s] = FALSE]
      /\ arg' = [arg EXCEPT ![t].sem = s]
  BY <1>5, <1>7, Zenon DEF semfs_reclaim, TakeVnode
<1>10. /\ arg'[t].num = i /\ arg'[t].sem = s /\ ~arg'[t].new /\ arg'[t].name = arg[t].name
       /\ \A u \in Threads : u # t => arg'[u] = arg[u]
  BY <1>3, <1>4, <1>5, <1>9, ZenonT(30) DEF Locals
<1>11. /\ pc'[t] = "reclaimed" /\ vn_refcount'[i] = 0 /\ ~sems_hasvnode'[s]
       /\ \A u \in Threads : u # t => pc'[u] = pc[u]
       /\ \A j \in Semnums : j # i => vn_refcount'[j] = vn_refcount[j]
       /\ \A r \in Sems : r # s => sems_hasvnode'[r] = sems_hasvnode[r]
  BY <1>1, <1>3, <1>6, <1>8, <1>9, Zenon
<1>12. TypeOK'
  <2>1. arg' \in [Threads -> Locals]
    BY <1>3, <1>8, <1>9 DEF Locals
  <2>2. /\ pc' \in [Threads -> Places] /\ vn_refcount' \in [Semnums -> Nat]
        /\ sems_hasvnode' \in [Sems -> BOOLEAN]
    BY <1>1, <1>3, <1>6, <1>9, Zenon DEF Places
  <2> QED
    BY <1>1, <1>2, <2>1, <2>2, Zenon DEF TypeOK
<1>13. HoldsRef(t, i)
  BY <1>1, <1>5, Zenon DEF HoldsRef
<1>14. ASSUME NEW u \in Threads, arg[u].new PROVE arg[u].sem # s
  <2>1. u # t /\ Creating(u) /\ Held(u)
    BY <1>2, <1>4, <1>14, Zenon DEF Good
  <2>2. CASE pc[u] = "insert"
    BY <1>7, <1>14, <2>1, <2>2, Zenon DEF Creating
  <2>3. CASE pc[u] # "insert"
    <3>1. SUFFICES ASSUME arg[u].sem = s PROVE FALSE
      BY Zenon
    <3>2. arg[u].num = i
      BY <1>8, <1>14, <2>1, <2>3, <3>1, Zenon DEF Creating
    <3>3. pc[u] = "link"
      <4>1. pc[u] \notin {"dent", "uninsert", "getvnode"}
        BY <1>6, <1>14, <2>1, <3>2 DEF Creating
      <4> QED
        BY <1>14, <2>1, <2>3, <4>1, Zenon DEF Held
    <3>4. HoldsRef(u, i)
      BY <3>2, <3>3, Zenon DEF HoldsRef
    <3> DEFINE S == {v \in Threads : HoldsRef(v, i)}
    <3>5. u \in S /\ t \in S /\ S \in SUBSET Threads /\ Cardinality(S) = 1
      BY <1>2, <1>6, <1>13, <3>4, Zenon DEF Good, Counted
    <3> HIDE DEF S
    <3>6. Cardinality(S) > 1
      BY <2>1, <3>5, Counting, Zenon
    <3> QED
      BY <3>5, <3>6
  <2> QED
    BY <2>2, <2>3, Zenon
<1>15. \A u \in Threads : u # t => Held(u)' /\ Creating(u)' /\ Naming(u)' /\ Reclaiming(u)'
  <2>1. /\ \A j \in Semnums : vn_refcount[j] = 0 => vn_refcount'[j] = 0
        /\ \A r \in Sems : sems_hasvnode'[r] => sems_hasvnode[r]
        /\ pc'[t] = "reclaimed" => \A u \in Threads : arg[u].new => arg[u].sem # arg'[t].sem
        /\ \A u \in Threads : u # t => open'[u] = open[u] /\ pc'[u] = pc[u] /\ arg'[u] = arg[u]
        /\ tablelock \in {NULL, t} /\ tablelock' \in {NULL, t}
    BY <1>1, <1>10, <1>11, <1>14, Zenon
  <2> QED
    BY <1>1, <1>2, <2>1, OthersReclaim, ZenonT(30)
<1>16. Held(t)' /\ Creating(t)' /\ Naming(t)' /\ Reclaiming(t)'
  <2>1. Held(t)'
    BY <1>1, <1>4, <1>10, <1>11, ZenonT(30) DEF Held, InDir
  <2> QED
    BY <1>1, <1>7, <1>10, <1>11, <2>1, Zenon DEF Creating, Naming, Reclaiming
<1>17. Table'
  <2>1. \A j \in Semnums : vn_refcount'[j] > 0 =>
            semfs_sems[j] \in allocated /\ sems_hasvnode'[semfs_sems[j]]
    <3> SUFFICES ASSUME NEW j \in Semnums, vn_refcount'[j] > 0
                 PROVE  semfs_sems[j] \in allocated /\ sems_hasvnode'[semfs_sems[j]]
      BY Zenon
    <3>1. j # i
      BY <1>11
    <3>2. vn_refcount[j] > 0
      BY <1>11, <3>1, Zenon
    <3>3. semfs_sems[j] \in allocated /\ sems_hasvnode[semfs_sems[j]]
      BY <1>2, <3>2, Zenon DEF Good, Table
    <3>4. semfs_sems[j] \in Sems /\ semfs_sems[j] # s
      BY <1>3, <1>8, <3>1, <3>3, Zenon
    <3> QED
      BY <1>11, <3>3, <3>4, Zenon
  <2> QED
    BY <1>1, <1>2, <2>1, Zenon DEF Good, Table
<1>18. Counted'
  <2>1. ~HoldsRef(t, i)'
    BY <1>1, <1>4, <1>11, NoneNotNum, Zenon DEF HoldsRef
  <2>2. \A u \in Threads, j \in Semnums : u # t \/ j # i => (HoldsRef(u, j)' <=> HoldsRef(u, j))
    BY <1>1, <1>4, <1>5, <1>10, <1>11, NoneNotNum, ZenonT(30) DEF HoldsRef
  <2>3. vn_refcount' = [vn_refcount EXCEPT ![i] = @ - 1]
    BY <1>3, <1>6
  <2> QED
    BY <1>2, <1>13, <2>1, <2>2, <2>3, DropRef, ZenonT(30)
<1>19. Named'
  <2>1. \A m \in Names : InTransit(m) => InTransit(m)'
    BY <1>1, <1>4, <1>10, <1>11, Zenon DEF InTransit
  <2> QED
    BY <1>1, <1>2, <2>1, Zenon DEF Good, Named, Live
<1>20. Kept'
  <2>1. \A u \in Threads, r \in Sems : (Makes(u, r) => Makes(u, r)') /\ (Answers(u, r) => Answers(u, r)')
    BY <1>1, <1>4, <1>10, <1>11, Zenon DEF Makes, Answers
  <2>2. \A r \in Sems : InTable(r)' <=> InTable(r)
    BY <1>1, Zenon DEF InTable
  <2>3. Answers(t, s)'
    BY <1>10, <1>11, Zenon DEF Answers
  <2> QED
    <3> SUFFICES ASSUME NEW r \in allocated
                 PROVE  \/ \E u \in Threads : Makes(u, r)'
                        \/ /\ InTable(r)'
                           /\ sems_linked'[r] \/ sems_hasvnode'[r] \/ \E u \in Threads : Answers(u, r)'
      BY <1>1, Zenon DEF Kept
    <3>1. \/ \E u \in Threads : Makes(u, r)
          \/ /\ InTable(r)
             /\ sems_linked[r] \/ sems_hasvnode[r] \/ \E u \in Threads : Answers(u, r)
      BY <1>2, Zenon DEF Good, Kept
    <3>2. r \in Sems /\ (r = s \/ sems_hasvnode'[r] = sems_hasvnode[r])
      BY <1>3, <1>11, Zenon
    <3> QED
      BY <1>1, <2>1, <2>2, <2>3, <3>1, <3>2, Zenon
<1> QED
  BY <1>12, <1>15, <1>16, <1>17, <1>18, <1>19, <1>20, ZenonT(30) DEF IInv, Good

\* semfs_reclaim destroys a semaphore without name, or leaves one with a name.
LEMMA ReclaimDoneStep ==
    ASSUME IInv, NEW t \in Threads, ReclaimDone(t)
    PROVE  IInv'
<1>1. /\ panic = "none" /\ pc[t] = "reclaimed" /\ semfs_dents' = semfs_dents
      /\ vn_refcount' = vn_refcount /\ sems_holder' = sems_holder /\ dirlock' = dirlock
      /\ tablelock' = NULL /\ open' = open
      /\ pc' = [pc EXCEPT ![t] = "idle"] /\ arg' = [arg EXCEPT ![t] = NoArg]
  BY Zenon DEF ReclaimDone, At, Done, Goto
<1>2. TypeOK /\ Good
  BY <1>1, Zenon DEF IInv
<1>3. /\ pc \in [Threads -> Places] /\ arg \in [Threads -> Locals] /\ allocated \subseteq Sems
      /\ semfs_sems \in [Semnums -> Sems \cup {NULL}]
      /\ sems_linked \in [Sems -> BOOLEAN] /\ sems_hasvnode \in [Sems -> BOOLEAN]
      /\ panic \in {"none", "no vnode", "lock held"}
  BY <1>2, Zenon DEF TypeOK
<1>4. /\ Held(t) /\ Reclaiming(t) /\ ~arg[t].new /\ open[t] = None /\ tablelock = t
  BY <1>1, <1>2, Zenon DEF Good, Held
<1>5. PICK i \in Semnums : i = arg[t].num /\ vn_refcount[i] = 0
  BY <1>1, <1>4, Zenon DEF Reclaiming
<1>6. PICK s \in Sems : s = arg[t].sem /\ s = semfs_sems[i] /\ s \in allocated
  BY <1>1, <1>3, <1>4, <1>5, Zenon DEF Reclaiming
<1>7. \/ /\ sems_linked[s] /\ semfs_sems' = semfs_sems /\ allocated' = allocated
         /\ sems_linked' = sems_linked /\ sems_hasvnode' = sems_hasvnode /\ panic' = panic
      \/ /\ ~sems_linked[s]
         /\ semfs_sems' = [semfs_sems EXCEPT ![i] = NULL] /\ Destroyed(s)
         /\ panic' = IF sems_holder[s] = NULL THEN panic ELSE "lock held"
  BY <1>5, <1>6, Zenon DEF ReclaimDone, StillLinked
<1>8. /\ pc'[t] = "idle" /\ arg'[t] = NoArg /\ ~arg'[t].new /\ arg'[t].num = None
      /\ \A u \in Threads : u # t => pc'[u] = pc[u] /\ arg'[u] = arg[u]
  BY <1>1, <1>3, Zenon DEF NoArg
<1>9. TypeOK'
  <2>1. arg' \in [Threads -> Locals]
    BY <1>1, <1>3, SetOthers, Zenon
  <2>2. pc' \in [Threads -> Places] /\ panic' \in {"none", "no vnode", "lock held"}
    BY <1>1, <1>3, <1>7, Zenon DEF Places
  <2>3. /\ semfs_sems' \in [Semnums -> Sems \cup {NULL}] /\ allocated' \subseteq Sems
        /\ sems_linked' \in [Sems -> BOOLEAN] /\ sems_hasvnode' \in [Sems -> BOOLEAN]
    BY <1>3, <1>7, ZenonT(30) DEF Destroyed
  <2> QED
    BY <1>1, <1>2, <2>1, <2>2, <2>3, ZenonT(30) DEF TypeOK
<1>10. Held(t)' /\ Creating(t)' /\ Naming(t)' /\ Reclaiming(t)'
  <2>1. Held(t)'
    BY <1>1, <1>4, <1>8, SemfsAssumption, Zenon DEF Held, InDir
  <2> QED
    BY <1>8, <2>1, Zenon DEF Creating, Naming, Reclaiming
<1>11. Counted'
  <2>1. \A u \in Threads, j \in Semnums : HoldsRef(u, j)' <=> HoldsRef(u, j)
    BY <1>1, <1>8, Zenon DEF HoldsRef
  <2> QED
    BY <1>1, <1>2, <2>1, SameRefs, ZenonT(30)
<1>12. \A m \in Names : InTransit(m) => InTransit(m)'
  BY <1>1, <1>4, <1>8, Zenon DEF InTransit
<1>13. \A u \in Threads, r \in Sems : /\ Makes(u, r) => Makes(u, r)'
                                      /\ Answers(u, r) /\ r # s => Answers(u, r)'
  BY <1>4, <1>6, <1>8, ZenonT(30) DEF Makes, Answers
<1>14. CASE sems_linked[s] /\ semfs_sems' = semfs_sems
  <2>1. /\ allocated' = allocated /\ sems_linked' = sems_linked
        /\ sems_hasvnode' = sems_hasvnode
    BY <1>7, <1>14, Zenon
  <2>2. \A u \in Threads : u # t => Held(u)' /\ Creating(u)' /\ Naming(u)' /\ Reclaiming(u)'
    BY <1>1, <1>2, <1>4, <1>8, <1>14, <2>1, OthersReclaim, ZenonT(30)
  <2>3. Table'
    BY <1>1, <1>2, <1>14, <2>1, Zenon DEF Good, Table
  <2>4. Named'
    BY <1>1, <1>2, <1>12, <1>14, <2>1, Zenon DEF Good, Named, Live
  <2>5. Kept'
    <3>1. \A r \in Sems : InTable(r)' <=> InTable(r)
      BY <1>14, Zenon DEF InTable
    <3> QED
      BY <1>2, <1>3, <1>13, <1>14, <2>1, <3>1, ZenonT(30) DEF Good, Kept
  <2> QED
    BY <1>9, <1>10, <1>11, <2>2, <2>3, <2>4, <2>5, Zenon DEF IInv, Good
<1>15. CASE ~sems_linked[s] /\ panic' = "none"
  <2>1. semfs_sems' = [semfs_sems EXCEPT ![i] = NULL] /\ Destroyed(s) /\ sems_holder[s] = NULL
    BY <1>7, <1>15, Zenon
  <2>2. /\ Table'
        /\ semfs_sems'[i] = NULL
        /\ \A j \in Semnums : j # i => semfs_sems'[j] = semfs_sems[j] /\ semfs_sems[j] # s
        /\ \A j \in Semnums : j # i /\ Live(j) => Live(j)'
        /\ \A r \in allocated' : /\ r \in allocated /\ r # s /\ (InTable(r) => InTable(r)')
                                 /\ sems_linked'[r] = sems_linked[r]
                                 /\ sems_hasvnode'[r] = sems_hasvnode[r]
    BY <1>1, <1>2, <1>5, <1>6, <2>1, DestroyedSem, Zenon DEF Good
  <2>3. allocated' = allocated \ {s}
    BY <2>1, Zenon DEF Destroyed
  <2>4. ~Live(i)
    BY <1>6, <1>15, ZenonT(30) DEF Live
  <2>5. ASSUME NEW u \in Threads, u # t
        PROVE  Held(u)' /\ Creating(u)' /\ Naming(u)' /\ Reclaiming(u)'
    <3>1. Held(u) /\ Creating(u) /\ Naming(u) /\ Reclaiming(u)
      BY <1>2, Zenon DEF Good
    <3>2. pc'[u] = pc[u] /\ arg'[u] = arg[u] /\ pc[u] # "reclaimed"
      BY <1>4, <1>8, <2>5, <3>1, ZenonT(30) DEF Held
    <3>3. Held(u)'
      BY <1>1, <1>4, <2>5, <3>1, <3>2, SemfsAssumption, Zenon DEF Held
    <3>4. Creating(u)'
      <4>1. SUFFICES ASSUME arg[u].new PROVE Creating(u)'
        BY <3>2, Zenon DEF Creating
      <4>2. arg[u].sem # s
        BY <1>1, <1>6, <3>1, <4>1, Zenon DEF Creating
      <4>3. arg[u].sem \in allocated' /\ ~sems_linked'[arg[u].sem]
        BY <2>2, <2>3, <3>1, <4>1, <4>2, ZenonT(30) DEF Creating
      <4>4. \A v \in Threads : pc'[v] = "reclaimed" => arg'[v].sem # arg[u].sem
        BY <1>8, <3>1, <4>1, ZenonT(30) DEF Creating
      <4>5. pc[u] = "insert" => \A j \in Semnums : semfs_sems'[j] # arg[u].sem
        <5>1. semfs_sems'[i] = NULL /\ arg[u].sem # NULL
          BY <1>3, <2>1, <2>3, <4>3, SemfsAssumption, Zenon
        <5> QED
          BY <2>2, <3>1, <4>1, <5>1, Zenon DEF Creating
      <4>6. pc[u] # "insert" =>
               arg[u].num \in Semnums /\ semfs_sems'[arg[u].num] = arg[u].sem
        BY <1>6, <2>2, <3>1, <4>1, <4>2, ZenonT(30) DEF Creating
      <4> QED
        BY <1>1, <3>1, <3>2, <4>1, <4>3, <4>4, <4>5, <4>6, ZenonT(30) DEF Creating
    <3>5. Naming(u)'
      <4>1. \A j \in Semnums : Live(j) => Live(j)' /\ semfs_sems'[j] = semfs_sems[j]
        BY <2>2, <2>4, Zenon
      <4>2. pc[u] \in {"unlinked", "free"} =>
              /\ arg[u].sem # s /\ arg[u].num # i
              /\ arg[u].sem \in allocated'
              /\ sems_linked'[arg[u].sem] = sems_linked[arg[u].sem]
              /\ sems_hasvnode'[arg[u].sem] = sems_hasvnode[arg[u].sem]
              /\ semfs_sems'[arg[u].num] = semfs_sems[arg[u].num]
        <5> SUFFICES ASSUME pc[u] \in {"unlinked", "free"}
                     PROVE  /\ arg[u].sem # s /\ arg[u].num # i
                            /\ arg[u].sem \in allocated'
                            /\ sems_linked'[arg[u].sem] = sems_linked[arg[u].sem]
                            /\ sems_hasvnode'[arg[u].sem] = sems_hasvnode[arg[u].sem]
                            /\ semfs_sems'[arg[u].num] = semfs_sems[arg[u].num]
          BY Zenon
        <5>1. /\ arg[u].sem \in allocated /\ arg[u].num \in Semnums
              /\ arg[u].sem = semfs_sems[arg[u].num] /\ sems_holder[arg[u].sem] = u
          BY <3>1, Zenon DEF Naming
        <5>2. arg[u].sem # s /\ arg[u].num # i
          BY <1>6, <2>1, <5>1, SemfsAssumption, ZenonT(30)
        <5> QED
          BY <2>2, <2>3, <5>1, <5>2, Zenon
      <4>3. /\ pc[u] = "getsem" \/ (pc[u] = "getvnode" /\ ~arg[u].new) => Live(arg[u].num)'
            /\ pc[u] = "unlink" => Live(arg[u].num)' /\ arg[u].sem = semfs_sems'[arg[u].num]
        <5>1. \A j \in Semnums : arg[u].num = j /\ Live(j) => Live(arg[u].num)'
          BY <3>2, <4>1, Zenon DEF Live
        <5> QED
          BY <3>1, <4>1, <5>1, Zenon DEF Naming
      <4> QED
        BY <1>1, <3>1, <3>2, <4>2, <4>3, Zenon DEF Naming
    <3>6. Reclaiming(u)'
      BY <3>1, <3>2, Zenon DEF Reclaiming
    <3> QED
      BY <3>3, <3>4, <3>5, <3>6, Zenon
  <2>6. Named'
    BY <1>1, <1>2, <1>12, <2>2, <2>4, Zenon DEF Good, Named
  <2>7. Kept'
    BY <1>2, <1>3, <1>13, <2>2, Zenon DEF Good, Kept
  <2> QED
    BY <1>9, <1>10, <1>11, <2>2, <2>5, <2>6, <2>7, Zenon DEF IInv, Good
<1>16. CASE panic' # "none"
  BY <1>9, <1>16, Zenon DEF IInv
<1> QED
  BY <1>1, <1>7, <1>14, <1>15, <1>16, Zenon

-----------------------------------------------------------------------------
(* Numbers and counts, and the theorems. *)

\* Whoever has a semaphore to insert finds a free number: the table has as many
\* places as there are semaphores, and none is in it twice.
LEMMA FreeNumber ==
    ASSUME TypeOK, Table, NEW s \in Sems, \A i \in Semnums : semfs_sems[i] # s
    PROVE  FreeNum \in Semnums /\ semfs_sems[FreeNum] = NULL
<1>1. Cardinality(Sems) \in Nat \ {0} /\ IsFiniteSet(Sems \ {s})
      /\ Cardinality(Sems \ {s}) = Cardinality(Sems) - 1
  BY SemfsAssumption, FS_CardinalityType, FS_RemoveElement, FS_EmptySet, Zenon
<1>2. IsFiniteSet(Semnums) /\ Cardinality(Semnums) = Cardinality(Sems)
  <2>1. 0 \in Int /\ Cardinality(Sems) - 1 \in Int
    BY <1>1
  <2> QED
    BY <1>1, <2>1, FS_Interval DEF Semnums
<1>3. \E i \in Semnums : semfs_sems[i] = NULL
  <2> SUFFICES ASSUME \A i \in Semnums : semfs_sems[i] # NULL PROVE FALSE
    BY Zenon
  <2>1. semfs_sems \in [Semnums -> Sems \ {s}]
    BY Zenon DEF TypeOK
  <2>2. Cardinality(Sems \ {s}) < Cardinality(Semnums)
    BY <1>1, <1>2
  <2>3. \E i, j \in Semnums : i # j /\ semfs_sems[i] = semfs_sems[j]
    BY <1>1, <1>2, <2>1, <2>2, FS_PigeonHole
  <2> QED
    BY <2>3, Zenon DEF Table
<1> DEFINE F == {i \in Semnums : semfs_sems[i] = NULL}
<1>4. Semnums \subseteq Nat
  BY <1>1 DEF Semnums
<1>5. \E i \in F : \A j \in F : ~(<<j, i>> \in OpToRel(<, Nat))
  BY <1>3, <1>4, NatLessThanWellFounded, WFMin, Zenon
<1>6. \E i \in F : \A j \in F : i <= j
  <2>1. PICK i \in F : \A j \in F : ~(<<j, i>> \in OpToRel(<, Nat))
    BY <1>5, Zenon
  <2>2. \A j \in F : j \in Nat /\ i \in Nat /\ ~(j < i)
    BY <1>4, <2>1, Zenon DEF OpToRel
  <2> HIDE DEF F
  <2> QED
    BY <2>2
<1> QED
  BY <1>6, Zenon DEF FreeNum

\* CountingFacts, from the theorems on finite sets.
LEMMA CountingThreads ==
    ASSUME NEW S \in SUBSET Threads
    PROVE  /\ Cardinality(S) \in Nat
           /\ \A t \in S : Cardinality(S) > 0 /\ Cardinality(S \ {t}) = Cardinality(S) - 1
           /\ \A t \in S : \A u \in S : t # u => Cardinality(S) > 1
           /\ \A t \in Threads \ S : Cardinality(S \cup {t}) = Cardinality(S) + 1
<1>1. IsFiniteSet(S) /\ Cardinality(S) \in Nat
  BY SemfsAssumption, FS_Subset, FS_CardinalityType, Zenon
<1>2. \A t \in Threads \ S : Cardinality(S \cup {t}) = Cardinality(S) + 1
  BY <1>1, FS_AddElement, Zenon
<1>3. ASSUME NEW t \in S
      PROVE  /\ Cardinality(S) > 0 /\ Cardinality(S \ {t}) = Cardinality(S) - 1
             /\ \A u \in S : t # u => Cardinality(S) > 1
  <2>1. IsFiniteSet(S \ {t}) /\ Cardinality(S \ {t}) = Cardinality(S) - 1
    BY <1>1, FS_RemoveElement, Zenon
  <2>2. Cardinality(S) # 0
    BY <1>1, FS_EmptySet, Zenon
  <2>3. ASSUME NEW u \in S, t # u PROVE Cardinality(S) > 1
    <3>1. u \in S \ {t} /\ Cardinality(S \ {t}) \in Nat
      BY <2>1, <2>3, FS_CardinalityType, Zenon
    <3>2. Cardinality(S \ {t}) # 0
      BY <2>1, <3>1, FS_EmptySet, Zenon
    <3> QED
      BY <1>1, <2>1, <3>1, <3>2
  <2> QED
    BY <1>1, <2>1, <2>2, <2>3
<1> QED
  BY <1>1, <1>2, <1>3, Zenon

\* The facts that the steps assume hold.
LEMMA CountingHolds == CountingFacts
<1>1. None \notin Semnums
  BY SemfsAssumption, FS_CardinalityType DEF None, Semnums
<1> QED
  BY <1>1, CountingThreads, Zenon DEF CountingFacts

\* The inductive invariant holds of the empty file system.
LEMMA InitIInv == Init => IInv
<1> SUFFICES ASSUME Init PROVE IInv
  BY Zenon
<1>1. \A t \in Threads : pc[t] = "idle" /\ arg[t] = NoArg /\ open[t] = None
  BY Zenon DEF Init
<1>2. NoArg \in Locals /\ ~NoArg.new /\ NoArg.num = None
  BY Zenon DEF NoArg, Locals
<1>3. TypeOK
  BY <1>2, Zenon DEF Init, TypeOK, Places
<1>4. \A t \in Threads : Held(t) /\ Creating(t) /\ Naming(t) /\ Reclaiming(t)
  <2>1. \A t \in Threads : Held(t)
    BY <1>1, <1>2, SemfsAssumption, Zenon DEF Held, Init, InDir
  <2> QED
    BY <1>1, <1>2, <2>1, Zenon DEF Creating, Naming, Reclaiming
<1>5. Table
  BY DEF Init, Table
<1>6. Counted
  <2>1. ASSUME NEW i \in Semnums PROVE {t \in Threads : HoldsRef(t, i)} = {}
    BY <1>1, NoneNotNum, CountingHolds, Zenon DEF HoldsRef
  <2> QED
    BY <2>1, FS_EmptySet, Zenon DEF Counted, Init
<1>7. Named /\ Kept
  BY NoneNotNum, CountingHolds, Zenon DEF Named, Kept, Init
<1> QED
  BY <1>3, <1>4, <1>5, <1>6, <1>7, Zenon DEF IInv, Good

\* Nothing changes.
LEMMA StutterStep == IInv /\ UNCHANGED vars => IInv'
<1> SUFFICES ASSUME IInv, UNCHANGED vars PROVE IInv'
  BY Zenon
<1> USE DEF vars, tables, sems, locks
<1>1. TypeOK' <=> TypeOK
  BY Zenon DEF TypeOK
<1>2. /\ \A t \in Threads : (Held(t)' <=> Held(t)) /\ (Creating(t)' <=> Creating(t))
      /\ \A t \in Threads : (Naming(t)' <=> Naming(t)) /\ (Reclaiming(t)' <=> Reclaiming(t))
  BY SMTT(20) DEF Held, Creating, Naming, Reclaiming, Live
<1>3. (Table' <=> Table) /\ (Counted' <=> Counted)
  BY Zenon DEF Table, Counted, HoldsRef
<1>4. (Named' <=> Named) /\ (Kept' <=> Kept)
  BY Zenon DEF Named, Kept, Live, InTransit, InTable, Makes, Answers
<1> QED
  BY <1>1, <1>2, <1>3, <1>4, Zenon DEF IInv, Good

\* Every step keeps the inductive invariant.
LEMMA NextIInv == IInv /\ [Next]_vars => IInv'
<1> SUFFICES ASSUME IInv, [Next]_vars PROVE IInv'
  BY Zenon
<1> USE CountingHolds
<1>1. ASSUME NEW t \in Threads, Call(t) PROVE IInv'
  BY <1>1, LookupStep, RemoveStep, CreatStep, DecrefStep, ZenonT(30) DEF Call
<1>2. ASSUME NEW t \in Threads, Step(t) PROVE IInv'
  <2>1. semfs_sem_insert(t) => CanInsert
    BY FreeNumber, Zenon DEF CanInsert, IInv, Good, semfs_sem_insert, At
  <2> QED
    BY <1>2, <2>1, InsertStep, InsertFailsStep, DirentryStep, DentFailsStep, GetvnodeStep,
     GetvnodeFailsStep, CreatDoneStep, CreatFailsStep, GetsemStep, UnlinkStep,
     TestVnodeStep, RemoveFreesStep, RemoveDoneStep, ReclaimBusyStep, ReclaimStep,
     ReclaimDoneStep, Zenon DEF Step
<1>3. CASE UNCHANGED vars
  BY <1>3, StutterStep, Zenon
<1> QED
  BY <1>1, <1>2, <1>3, Zenon DEF Next, Halted

\* The inductive invariant holds in every reachable state.
LEMMA SpecIInv == Spec => []IInv
  BY InitIInv, NextIInv, PTL DEF Spec

\* While nobody has the directory locked, every name in it is the name of one
\* semaphore that exists and is linked (semfs_creat, semfs_remove and their
\* failures, against semfs_reclaim), for any number of threads.
THEOREM NamesHold == Spec => []NamesLive
<1>1. IInv => NamesLive
  <2> SUFFICES ASSUME IInv, panic = "none", dirlock = NULL PROVE NamesLive
    BY Zenon DEF NamesLive
  <2>1. TypeOK /\ Good
    BY ZenonT(30) DEF IInv
  <2>2. \A n \in Names : ~InTransit(n)
    BY <2>1, SemfsAssumption, ZenonT(30) DEF Good, Held, InTransit, InDir
  <2>3. \A n \in Names : semfs_dents[n] # None => Live(semfs_dents[n])
    BY <2>1, <2>2, Zenon DEF Good, Named, TypeOK
  <2> QED
    BY <2>1, <2>3, Zenon DEF NamesLive, Live, Good, Named
<1> QED
  BY <1>1, SpecIInv, PTL

\* The reference count of a vnode is the number of its holders, and a vnode that
\* somebody holds has its semaphore in the table (semfs_getvnode, vnode_decref and
\* semfs_reclaim).
THEOREM OpenHold == Spec => []OpenLive
<1>1. IInv => OpenLive
  BY Zenon DEF IInv, Good, Counted, HoldsRef, Table, OpenLive
<1> QED
  BY <1>1, SpecIInv, PTL

\* A semaphore that exists is in the table with a name or a vnode, or an operation
\* is at work on it: what semfs_remove leaves to semfs_reclaim, and the reverse,
\* is destroyed by one of them.
THEOREM LeakFree == Spec => []NoSemLeak
<1>1. IInv => NoSemLeak
  BY Zenon DEF IInv, Good, Kept, Makes, Answers, InTable, NoSemLeak
<1> QED
  BY <1>1, SpecIInv, PTL
=============================================================================

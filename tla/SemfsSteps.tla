----------------------------- MODULE SemfsSteps -----------------------------
(***************************************************************************)
(* The inductive invariant of Semfs, and the lemmas that lookup, creat and *)
(* their failures keep it.                                                 *)
(*                                                                         *)
(* Between two steps of an operation the tables are not what they are when *)
(* everybody is idle: the invariant says for each place of each operation what *)
(* its thread may rely on although the others go on (Held, Creating, Naming, *)
(* Reclaiming), and for the tables what is true all the time (Table, Counted, *)
(* Named, Kept).                                                           *)
(***************************************************************************)
EXTENDS Semfs, TLAPS

\* The places of an operation that holds semfs_dirlock.
InDir == {"insert", "dent", "getvnode", "link", "uninsert",
          "getsem", "unlink", "unlinked", "free", "undent"}
Places == InDir \cup {"idle", "reclaim", "reclaimed"}

\* The locals of an operation.
Locals == [name : Names \cup {NULL}, num : Semnums \cup {None}, sem : Sems \cup {NULL},
           new : BOOLEAN, result : {"ok", "ENOMEM"}]

\* The values the variables take.
TypeOK ==
    /\ semfs_dents \in [Names -> Semnums \cup {None}]
    /\ semfs_sems \in [Semnums -> Sems \cup {NULL}]
    /\ vn_refcount \in [Semnums -> Nat]
    /\ allocated \subseteq Sems
    /\ sems_linked \in [Sems -> BOOLEAN] /\ sems_hasvnode \in [Sems -> BOOLEAN]
    /\ sems_holder \in [Sems -> Threads \cup {NULL}]
    /\ dirlock \in Threads \cup {NULL} /\ tablelock \in Threads \cup {NULL}
    /\ open \in [Threads -> Semnums \cup {None}]
    /\ pc \in [Threads -> Places]
    /\ arg \in [Threads -> Locals]
    /\ panic \in {"none", "no vnode", "lock held"}

\* The number i is that of a semaphore with a name.
Live(i) == semfs_sems[i] \in allocated /\ sems_linked[semfs_sems[i]]

\* The locks a thread holds, and what its locals are, at each place.
Held(t) ==
    /\ pc[t] \in InDir <=> dirlock = t
    /\ pc[t] = "reclaimed" <=> tablelock = t
    /\ pc[t] \in {"insert", "dent", "getvnode", "link", "uninsert", "reclaim", "reclaimed"}
          => open[t] = None
    /\ pc[t] = "idle" => arg[t] = NoArg
    /\ pc[t] \in {"insert", "dent", "link", "uninsert"} => arg[t].new
    /\ arg[t].new => pc[t] \in {"insert", "dent", "getvnode", "link", "uninsert"}

\* The semaphore creat has made is its own until it is linked.
Creating(t) ==
    arg[t].new =>
        /\ arg[t].sem \in allocated /\ ~sems_linked[arg[t].sem]
        /\ \A u \in Threads : pc[u] = "reclaimed" => arg[u].sem # arg[t].sem
        /\ pc[t] = "insert" =>
              /\ \A i \in Semnums : semfs_sems[i] # arg[t].sem
              /\ semfs_dents[arg[t].name] = None /\ arg[t].name \in Names
        /\ pc[t] # "insert" =>
              arg[t].num \in Semnums /\ semfs_sems[arg[t].num] = arg[t].sem
        /\ pc[t] \in {"dent", "uninsert", "getvnode"} =>
              vn_refcount[arg[t].num] = 0
        /\ pc[t] \in {"dent", "uninsert"} =>
              /\ \A n \in Names : semfs_dents[n] # arg[t].num
              /\ semfs_dents[arg[t].name] = None /\ arg[t].name \in Names

\* lookup, creat and remove work on the number of a name.
Naming(t) ==
    /\ pc[t] \in {"getvnode", "link", "getsem", "unlink", "unlinked", "free", "undent"} =>
          /\ arg[t].name \in Names /\ arg[t].num \in Semnums
          /\ semfs_dents[arg[t].name] = arg[t].num
    /\ pc[t] = "getsem" \/ (pc[t] = "getvnode" /\ ~arg[t].new) =>
          Live(arg[t].num)
    /\ pc[t] = "unlink" => Live(arg[t].num) /\ arg[t].sem = semfs_sems[arg[t].num]
    /\ pc[t] \in {"unlinked", "free"} =>
          /\ arg[t].sem \in allocated /\ arg[t].sem = semfs_sems[arg[t].num]
          /\ sems_holder[arg[t].sem] = t
          /\ ~sems_linked[arg[t].sem]
    /\ pc[t] = "free" => ~sems_hasvnode[arg[t].sem]

\* semfs_reclaim works on a number, and after it has taken the vnode on a
\* semaphore that has none.
Reclaiming(t) ==
    /\ pc[t] = "reclaim" => arg[t].num \in Semnums
    /\ pc[t] = "reclaimed" =>
          /\ arg[t].num \in Semnums
          /\ arg[t].sem \in allocated /\ arg[t].sem = semfs_sems[arg[t].num]
          /\ vn_refcount[arg[t].num] = 0

\* The table holds semaphores that exist, each once, and every vnode is that of
\* one of them.
Table ==
    /\ \A i \in Semnums : semfs_sems[i] # NULL => semfs_sems[i] \in allocated
    /\ \A i, j \in Semnums : semfs_sems[i] = semfs_sems[j] /\ i # j => semfs_sems[i] = NULL
    /\ \A i \in Semnums : vn_refcount[i] > 0 =>
          semfs_sems[i] \in allocated /\ sems_hasvnode[semfs_sems[i]]
    /\ \A s \in Sems \ allocated : ~sems_linked[s]

\* Thread t has one of the references to the vnode with number i.
HoldsRef(t, i) == open[t] = i \/ (arg[t].num = i /\ pc[t] \in {"reclaim", "link"})

\* The reference count is the number of holders.
Counted == \A i \in Semnums : vn_refcount[i] = Cardinality({t \in Threads : HoldsRef(t, i)})

\* The name whose entry creat or remove, in the middle, has yet to complete.
InTransit(n) ==
    \E t \in Threads : /\ arg[t].name = n
                       /\ pc[t] \in {"unlinked", "free", "undent"} \/ arg[t].new

\* A name leads to a semaphore that is linked or is being made or removed, and
\* no two names to the same.
Named ==
    /\ \A n \in Names, i \in Semnums : semfs_dents[n] = i => Live(i) \/ InTransit(n)
    /\ \A n, m \in Names : semfs_dents[n] = semfs_dents[m] /\ n # m => semfs_dents[n] = None

\* The table has s under some number.
InTable(s) == \E i \in Semnums : semfs_sems[i] = s

\* The semaphore s is the one the creat of t has made.
Makes(t, s) == arg[t].new /\ arg[t].sem = s

\* Whoever unlinks a semaphore or takes its vnode answers for it.
Answers(t, s) == pc[t] \in {"unlinked", "free", "reclaimed"} /\ arg[t].sem = s

\* Every semaphore is accounted for.
Kept ==
    \A s \in allocated :
        \/ \E t \in Threads : Makes(t, s)
        \/ /\ InTable(s)
           /\ sems_linked[s] \/ sems_hasvnode[s] \/ \E t \in Threads : Answers(t, s)

\* What holds until the kernel panics.
Good ==
    /\ \A t \in Threads : Held(t) /\ Creating(t) /\ Naming(t) /\ Reclaiming(t)
    /\ Table /\ Counted /\ Named /\ Kept

\* The inductive invariant.
IInv == TypeOK /\ (panic = "none" => Good)

\* The facts about finite sets of threads and about the numbers of semaphores
\* that the steps need; SemfsProofs proves them from SemfsAssumption.
CountingFacts ==
    /\ None \notin Semnums
    /\ \A S \in SUBSET Threads :
          /\ Cardinality(S) \in Nat
          /\ \A t \in S : Cardinality(S) > 0 /\ Cardinality(S \ {t}) = Cardinality(S) - 1
          /\ \A t \in S : \A u \in S : t # u => Cardinality(S) > 1
          /\ \A t \in Threads \ S : Cardinality(S \cup {t}) = Cardinality(S) + 1

\* A semaphore that is not in the table finds a free number.
CanInsert ==
    \A s \in Sems : (\A i \in Semnums : semfs_sems[i] # s) =>
        FreeNum \in Semnums /\ semfs_sems[FreeNum] = NULL

\* None is no number of a semaphore.
LEMMA NoneNotNum == CountingFacts => None \notin Semnums
BY Zenon DEF CountingFacts

\* Threads are counted one at a time.
LEMMA Counting ==
    ASSUME CountingFacts, NEW S \in SUBSET Threads
    PROVE  /\ Cardinality(S) \in Nat
           /\ \A t \in S : Cardinality(S) > 0 /\ Cardinality(S \ {t}) = Cardinality(S) - 1
           /\ \A t \in S : \A u \in S : t # u => Cardinality(S) > 1
           /\ \A t \in Threads \ S : Cardinality(S \cup {t}) = Cardinality(S) + 1
BY Zenon DEF CountingFacts

\* What is to be shown of a thread whose operation is over.
LEMMA BackToIdle ==
    ASSUME NEW t \in Threads, pc'[t] = "idle", arg'[t] = NoArg, dirlock' # t, tablelock' # t
    PROVE  Held(t)' /\ Creating(t)' /\ Naming(t)' /\ Reclaiming(t)'
<1>1. ~arg'[t].new
  BY DEF NoArg
<1>2. Held(t)'
  BY <1>1, Zenon DEF Held, InDir
<1> QED
  BY <1>1, <1>2, Zenon DEF Creating, Naming, Reclaiming

\* Whoever is in a directory operation has semfs_dirlock, and the others are not.
LEMMA DirAlone ==
    ASSUME TypeOK, Good, NEW t \in Threads, pc[t] \in InDir
    PROVE  dirlock = t /\ \A u \in Threads : u # t => pc[u] \notin InDir /\ ~arg[u].new
<1>1. \A u \in Threads : Held(u)
  BY Zenon DEF Good
<1>2. \A u \in Threads : arg[u].new => pc[u] \in InDir
  BY <1>1, Zenon DEF Held, InDir
<1> QED
  BY <1>1, <1>2, Zenon DEF Held

\* While semfs_dirlock is free nobody is in a directory operation.
LEMMA DirFree ==
    ASSUME TypeOK, Good, dirlock = NULL
    PROVE  /\ \A u \in Threads : pc[u] \notin InDir /\ ~arg[u].new
           /\ \A n \in Names, i \in Semnums : semfs_dents[n] = i => Live(i)
<1>1. \A u \in Threads : Held(u)
  BY Zenon DEF Good
<1>2. \A u \in Threads : pc[u] \notin InDir
  BY <1>1, SemfsAssumption, Zenon DEF Held
<1>3. \A u \in Threads : ~arg[u].new
  BY <1>1, <1>2, Zenon DEF Held, InDir
<1>4. \A n \in Names : ~InTransit(n)
  BY <1>2, <1>3, Zenon DEF InTransit, InDir
<1> QED
  BY <1>2, <1>3, <1>4, Zenon DEF Good, Named

\* While semfs_tablelock is free nobody is at "reclaimed".
LEMMA TableFree ==
    ASSUME TypeOK, Good, tablelock = NULL
    PROVE  \A u \in Threads : pc[u] # "reclaimed"
BY SemfsAssumption, Zenon DEF Good, Held

\* The locals a lookup or remove starts with.
LEMMA SetNameNum ==
    ASSUME NEW f \in [Threads -> Locals], NEW t \in Threads, NEW n \in Names,
           NEW i \in Semnums
    PROVE  [f EXCEPT ![t].name = n, ![t].num = i] \in [Threads -> Locals]
<1> DEFINE g == [f EXCEPT ![t].name = n]
<1>1. g \in [Threads -> Locals]
  BY Zenon DEF Locals
<1> HIDE DEF g
<1>2. [g EXCEPT ![t].num = i] \in [Threads -> Locals]
  BY <1>1 DEF Locals
<1> QED
  BY <1>2, Zenon DEF g

\* The locals a creat starts with.
LEMMA SetNameSem ==
    ASSUME NEW f \in [Threads -> Locals], NEW t \in Threads, NEW n \in Names,
           NEW s \in Sems
    PROVE  [f EXCEPT ![t].name = n, ![t].sem = s, ![t].new = TRUE] \in [Threads -> Locals]
<1> DEFINE g == [f EXCEPT ![t].name = n]
           h == [g EXCEPT ![t].sem = s]
<1>1. g \in [Threads -> Locals]
  BY Zenon DEF Locals
<1> HIDE DEF g
<1>2. h \in [Threads -> Locals]
  BY <1>1 DEF Locals
<1> HIDE DEF h
<1>3. [h EXCEPT ![t].new = TRUE] \in [Threads -> Locals]
  BY <1>2, ZenonT(30) DEF Locals
<1> QED
  BY <1>3, Zenon DEF g, h

\* The locals at the end of an operation.
LEMMA SetOthers ==
    ASSUME NEW f \in [Threads -> Locals], NEW t \in Threads
    PROVE  /\ [f EXCEPT ![t] = NoArg] \in [Threads -> Locals]
           /\ \A r \in {"ok", "ENOMEM"} : [f EXCEPT ![t].result = r] \in [Threads -> Locals]
           /\ \A i \in Semnums : [f EXCEPT ![t].num = i] \in [Threads -> Locals]
           /\ \A s \in Sems : [f EXCEPT ![t].sem = s] \in [Threads -> Locals]
<1>1. NoArg \in Locals
  BY Zenon DEF NoArg, Locals
<1>2. [f EXCEPT ![t] = NoArg] \in [Threads -> Locals]
  BY <1>1, Zenon
<1>3. \A r \in {"ok", "ENOMEM"} : [f EXCEPT ![t].result = r] \in [Threads -> Locals]
  BY ZenonT(30) DEF Locals
<1>4. \A i \in Semnums : [f EXCEPT ![t].num = i] \in [Threads -> Locals]
  BY Zenon DEF Locals
<1>5. \A s \in Sems : [f EXCEPT ![t].sem = s] \in [Threads -> Locals]
  BY Zenon DEF Locals
<1> QED
  BY <1>2, <1>3, <1>4, <1>5, Zenon

\* A step of the directory operation of t that leaves table, flags and reference
\* counts alone keeps the facts about the others.
LEMMA OthersKept ==
    ASSUME TypeOK, Good, NEW t \in Threads,
           dirlock \in {NULL, t}, dirlock' \in {NULL, t}, tablelock' = tablelock,
           \A u \in Threads : u # t => open'[u] = open[u] /\ pc'[u] = pc[u] /\ arg'[u] = arg[u],
           \/ tablelock = NULL
           \/ allocated \subseteq allocated' /\ semfs_sems' = semfs_sems /\ vn_refcount' = vn_refcount
    PROVE  \A u \in Threads : u # t =>
              Held(u)' /\ Creating(u)' /\ Naming(u)' /\ Reclaiming(u)'
<1> SUFFICES ASSUME NEW u \in Threads, u # t
             PROVE  Held(u)' /\ Creating(u)' /\ Naming(u)' /\ Reclaiming(u)'
  BY Zenon
<1>1. Held(u) /\ Reclaiming(u)
  BY Zenon DEF Good
<1>2. open'[u] = open[u] /\ pc'[u] = pc[u] /\ arg'[u] = arg[u]
  BY Zenon
<1>3. dirlock # u /\ dirlock' # u
  BY SemfsAssumption, Zenon
<1>4. pc[u] \notin InDir /\ ~arg[u].new
  BY <1>1, <1>3, Zenon DEF Held, InDir
<1>5. Held(u)'
  BY <1>1, <1>2, <1>3, <1>4, Zenon DEF Held
<1>6. Creating(u)' /\ Naming(u)'
  BY <1>2, <1>4, Zenon DEF Creating, Naming, InDir
<1>7. Reclaiming(u)'
  BY <1>1, <1>2, SemfsAssumption, Zenon DEF Held, Reclaiming
<1> QED
  BY <1>5, <1>6, <1>7, Zenon

\* Reference counts stay right when nobody gains or loses a reference.
LEMMA SameRefs ==
    ASSUME Good, vn_refcount' = vn_refcount,
           \A u \in Threads, i \in Semnums : HoldsRef(u, i)' <=> HoldsRef(u, i)
    PROVE  Counted'
BY Zenon DEF Good, Counted

\* semfs_sem_destroy of the semaphore with number i, which has no vnode: the table
\* stays sound, and other numbers and semaphores are what they were.
LEMMA DestroyedSem ==
    ASSUME TypeOK, Table, NEW i \in Semnums, NEW s \in Sems, s = semfs_sems[i],
           vn_refcount[i] = 0, vn_refcount' = vn_refcount,
           semfs_sems' = [semfs_sems EXCEPT ![i] = NULL], Destroyed(s)
    PROVE  /\ Table'
           /\ semfs_sems'[i] = NULL
           /\ \A j \in Semnums : j # i => semfs_sems'[j] = semfs_sems[j] /\ semfs_sems[j] # s
           /\ \A j \in Semnums : j # i /\ Live(j) => Live(j)'
           /\ \A r \in allocated' : /\ r \in allocated /\ r # s /\ (InTable(r) => InTable(r)')
                                    /\ sems_linked'[r] = sems_linked[r]
                                    /\ sems_hasvnode'[r] = sems_hasvnode[r]
<1>1. /\ sems_linked \in [Sems -> BOOLEAN] /\ sems_hasvnode \in [Sems -> BOOLEAN]
      /\ allocated \subseteq Sems /\ semfs_sems \in [Semnums -> Sems \cup {NULL}]
      /\ vn_refcount \in [Semnums -> Nat]
  BY Zenon DEF TypeOK
<1>2. /\ allocated' = allocated \ {s}
      /\ sems_linked' = [sems_linked EXCEPT ![s] = FALSE]
      /\ sems_hasvnode' = [sems_hasvnode EXCEPT ![s] = FALSE]
  BY Zenon DEF Destroyed
<1>3. s # NULL /\ \A j \in Semnums : j # i => semfs_sems[j] # s
  BY SemfsAssumption, Zenon DEF Table
<1>4. /\ semfs_sems'[i] = NULL /\ \A j \in Semnums : j # i => semfs_sems'[j] = semfs_sems[j]
      /\ \A r \in Sems : r # s => sems_linked'[r] = sems_linked[r]
      /\ \A r \in Sems : r # s => sems_hasvnode'[r] = sems_hasvnode[r]
      /\ sems_linked'[s] = FALSE
  BY <1>1, <1>2, Zenon
<1>5. \A r \in allocated' : r \in allocated /\ r # s /\ r \in Sems
  BY <1>1, <1>2, Zenon
<1>6. Table'
  <2>1. \A j \in Semnums : semfs_sems'[j] # NULL => semfs_sems'[j] \in allocated'
    BY <1>2, <1>3, <1>4 DEF Table
  <2>2. \A j, k \in Semnums : semfs_sems'[j] = semfs_sems'[k] /\ j # k => semfs_sems'[j] = NULL
    BY <1>4 DEF Table
  <2>3. ASSUME NEW j \in Semnums, vn_refcount'[j] > 0
        PROVE  semfs_sems'[j] \in allocated' /\ sems_hasvnode'[semfs_sems'[j]]
    <3>1. j # i
      BY <2>3
    <3>2. semfs_sems[j] \in allocated /\ sems_hasvnode[semfs_sems[j]] /\ semfs_sems[j] # s
      BY <1>3, <2>3, <3>1, Zenon DEF Table
    <3> QED
      BY <1>1, <1>2, <1>4, <3>1, <3>2, Zenon
  <2>4. \A r \in Sems \ allocated' : ~sems_linked'[r]
    BY <1>2, <1>4, Zenon DEF Table
  <2> QED
    BY <2>1, <2>2, <2>3, <2>4, Zenon DEF Table
<1>7. \A j \in Semnums : j # i /\ Live(j) => Live(j)'
  BY <1>1, <1>2, <1>3, <1>4, Zenon DEF Live
<1>8. \A r \in allocated' : InTable(r) => InTable(r)'
  BY <1>4, <1>5, Zenon DEF InTable
<1> QED
  BY <1>3, <1>4, <1>5, <1>6, <1>7, <1>8, Zenon

\* semfs_lookup finds its name.
LEMMA LookupStep ==
    ASSUME IInv, NEW t \in Threads, NEW n \in Names, semfs_lookup(t, n)
    PROVE  IInv'
<1>1. /\ panic = "none" /\ pc[t] = "idle" /\ dirlock = NULL /\ dirlock' = t
      /\ open[t] = None /\ semfs_dents[n] # None
      /\ pc' = [pc EXCEPT ![t] = "getvnode"]
      /\ semfs_dents' = semfs_dents /\ semfs_sems' = semfs_sems
      /\ vn_refcount' = vn_refcount /\ allocated' = allocated
      /\ sems_linked' = sems_linked /\ sems_hasvnode' = sems_hasvnode
      /\ sems_holder' = sems_holder /\ tablelock' = tablelock
      /\ open' = open /\ panic' = panic
  BY Zenon DEF semfs_lookup, StartDir, At, Goto, tables, sems
<1>2. TypeOK /\ Good
  BY <1>1, Zenon DEF IInv
<1>3. /\ pc \in [Threads -> Places] /\ semfs_dents[n] \in Semnums
      /\ arg \in [Threads -> Locals]
  BY <1>1, <1>2, Zenon DEF TypeOK
<1>4. arg[t] = NoArg /\ \A u \in Threads : pc[u] \notin InDir /\ ~arg[u].new
  BY <1>1, <1>2, DirFree, Zenon DEF Good, Held
<1>a. arg' = [arg EXCEPT ![t].name = n, ![t].num = semfs_dents[n]]
  BY Zenon DEF semfs_lookup
<1>5. /\ pc'[t] = "getvnode" /\ arg'[t].name = n /\ arg'[t].num = semfs_dents[n]
      /\ arg'[t].sem = NULL /\ ~arg'[t].new
      /\ \A u \in Threads : u # t => pc'[u] = pc[u] /\ arg'[u] = arg[u]
  BY <1>a, <1>1, <1>3, <1>4 DEF Locals, NoArg
<1>6. TypeOK'
  <2>1. arg' \in [Threads -> Locals]
    BY <1>a, <1>3, SetNameNum, Zenon
  <2>2. pc' \in [Threads -> Places]
    BY <1>1, <1>3, Zenon DEF Places, InDir
  <2> QED
    BY <1>1, <1>2, <2>1, <2>2, Zenon DEF TypeOK
<1>7. \A u \in Threads : u # t => Held(u)' /\ Creating(u)' /\ Naming(u)' /\ Reclaiming(u)'
  BY <1>1, <1>2, <1>5, OthersKept, Zenon
<1>8. Held(t)' /\ Creating(t)' /\ Naming(t)' /\ Reclaiming(t)'
  <2>1. Held(t)
    BY <1>2, Zenon DEF Good
  <2>2. Held(t)'
    BY <1>1, <1>5, <2>1, Zenon DEF Held, InDir
  <2>3. Live(semfs_dents[n])
    BY <1>1, <1>2, <1>3, DirFree, Zenon
  <2> QED
    BY <1>1, <1>3, <1>5, <2>2, <2>3, Zenon DEF Creating, Naming, Reclaiming, Live
<1>9. Table'
  BY <1>1, <1>2, Zenon DEF Good, Table
<1>10. Counted'
  <2>1. \A u \in Threads, i \in Semnums : HoldsRef(u, i)' <=> HoldsRef(u, i)
    BY <1>1, <1>5, Zenon DEF HoldsRef
  <2> QED
    BY <1>1, <1>2, <2>1, SameRefs, Zenon
<1>11. Named'
  BY <1>1, <1>2, DirFree, Zenon DEF Good, Named, Live
<1>12. Kept'
  <2>1. \A u \in Threads, s \in Sems : (Makes(u, s)' <=> Makes(u, s)) /\ (Answers(u, s)' <=> Answers(u, s))
    BY <1>1, <1>4, <1>5, Zenon DEF Makes, Answers
  <2>2. \A s \in Sems : InTable(s)' <=> InTable(s)
    BY <1>1, Zenon DEF InTable
  <2> QED
    BY <1>1, <1>2, <2>1, <2>2, Zenon DEF Good, Kept, TypeOK
<1> QED
  BY <1>6, <1>7, <1>8, <1>9, <1>10, <1>11, <1>12, Zenon DEF IInv, Good

\* semfs_creat makes a semaphore.
LEMMA CreatStep ==
    ASSUME IInv, NEW t \in Threads, NEW n \in Names, NEW s \in Sems, semfs_creat(t, n, s)
    PROVE  IInv'
<1>1. /\ panic = "none" /\ pc[t] = "idle" /\ dirlock = NULL /\ dirlock' = t
      /\ open[t] = None /\ semfs_dents[n] = None /\ s \notin allocated
      /\ pc' = [pc EXCEPT ![t] = "insert"] /\ allocated' = allocated \cup {s}
      /\ semfs_dents' = semfs_dents /\ semfs_sems' = semfs_sems
      /\ vn_refcount' = vn_refcount
      /\ sems_linked' = sems_linked /\ sems_hasvnode' = sems_hasvnode
      /\ sems_holder' = sems_holder /\ tablelock' = tablelock
      /\ open' = open /\ panic' = panic
  BY Zenon DEF semfs_creat, StartDir, At, Goto, tables
<1>2. TypeOK /\ Good
  BY <1>1, Zenon DEF IInv
<1>3. pc \in [Threads -> Places] /\ arg \in [Threads -> Locals]
  BY <1>2, Zenon DEF TypeOK
<1>4. arg[t] = NoArg /\ \A u \in Threads : pc[u] \notin InDir /\ ~arg[u].new
  BY <1>1, <1>2, DirFree, Zenon DEF Good, Held
<1>a. arg' = [arg EXCEPT ![t].name = n, ![t].sem = s, ![t].new = TRUE]
  BY Zenon DEF semfs_creat
<1>5. /\ pc'[t] = "insert" /\ arg'[t].name = n /\ arg'[t].num = None
      /\ arg'[t].sem = s /\ arg'[t].new
      /\ \A u \in Threads : u # t => pc'[u] = pc[u] /\ arg'[u] = arg[u]
  BY <1>a, <1>1, <1>3, <1>4 DEF Locals, NoArg
<1>6. TypeOK'
  <2>1. arg' \in [Threads -> Locals]
    BY <1>a, <1>3, SetNameSem, Zenon
  <2>2. pc' \in [Threads -> Places]
    BY <1>1, <1>3, Zenon DEF Places, InDir
  <2> QED
    BY <1>1, <1>2, <2>1, <2>2, Zenon DEF TypeOK
<1>7. \A u \in Threads : u # t => Held(u)' /\ Creating(u)' /\ Naming(u)' /\ Reclaiming(u)'
  BY <1>1, <1>2, <1>5, OthersKept, Zenon
<1>8. Held(t)' /\ Creating(t)' /\ Naming(t)' /\ Reclaiming(t)'
  <2>1. Held(t) /\ \A u \in Threads : pc[u] = "reclaimed" => arg[u].sem # s
    BY <1>1, <1>2, Zenon DEF Good, Reclaiming
  <2>2. Held(t)'
    BY <1>1, <1>5, <2>1, Zenon DEF Held, InDir
  <2>3. ~sems_linked[s] /\ \A i \in Semnums : semfs_sems[i] # s
    BY <1>1, <1>2, SemfsAssumption, Zenon DEF Good, Table
  <2>4. Creating(t)'
    BY <1>1, <1>5, <2>1, <2>3, Zenon DEF Creating
  <2> QED
    BY <1>5, <2>2, <2>4, Zenon DEF Naming, Reclaiming
<1>9. Table'
  BY <1>1, <1>2, Zenon DEF Good, Table
<1>10. Counted'
  <2>1. \A u \in Threads, i \in Semnums : HoldsRef(u, i)' <=> HoldsRef(u, i)
    BY <1>1, <1>5, Zenon DEF HoldsRef
  <2> QED
    BY <1>1, <1>2, <2>1, SameRefs, Zenon
<1>11. Named'
  BY <1>1, <1>2, DirFree, Zenon DEF Good, Named, Live
<1>12. Kept'
  <2>1. \A u \in Threads, r \in allocated : ~Makes(u, r) /\ (Answers(u, r) => Answers(u, r)')
    BY <1>1, <1>4, <1>5, Zenon DEF Makes, Answers
  <2>2. \A r \in Sems : InTable(r)' <=> InTable(r)
    BY <1>1, Zenon DEF InTable
  <2>3. Makes(t, s)'
    BY <1>5, Zenon DEF Makes
  <2> QED
    BY <1>1, <1>2, <2>1, <2>2, <2>3, Zenon DEF Good, Kept, TypeOK
<1> QED
  BY <1>6, <1>7, <1>8, <1>9, <1>10, <1>11, <1>12, Zenon DEF IInv, Good

\* semfs_sem_insert gives it a number.
LEMMA InsertStep ==
    ASSUME CountingFacts, CanInsert, IInv, NEW t \in Threads, semfs_sem_insert(t)
    PROVE  IInv'
<1>1. panic = "none" /\ pc[t] = "insert" /\ tablelock = NULL
  BY Zenon DEF semfs_sem_insert, At
<1>2. TypeOK /\ Good
  BY <1>1, Zenon DEF IInv
<1>3. /\ pc \in [Threads -> Places] /\ arg \in [Threads -> Locals]
      /\ semfs_sems \in [Semnums -> Sems \cup {NULL}]
  BY <1>2, Zenon DEF TypeOK
<1>4. Held(t) /\ Creating(t) /\ arg[t].new
  BY <1>1, <1>2, Zenon DEF Good, Held
<1>5. /\ dirlock = t /\ \A u \in Threads : u # t => pc[u] \notin InDir /\ ~arg[u].new
      /\ \A u \in Threads : pc[u] # "reclaimed"
  BY <1>1, <1>2, DirAlone, TableFree, Zenon DEF InDir
<1>6. PICK s \in Sems : s = arg[t].sem
  BY <1>2, <1>4, Zenon DEF Creating, TypeOK
<1>7. PICK n \in Names : n = arg[t].name
  BY <1>1, <1>4, Zenon DEF Creating
<1>8. /\ s \in allocated /\ ~sems_linked[s] /\ semfs_dents[n] = None
      /\ \A i \in Semnums : semfs_sems[i] # s
  BY <1>1, <1>4, <1>6, <1>7, Zenon DEF Creating
<1>9. PICK k \in Semnums : k = FreeNum /\ semfs_sems[k] = NULL
  BY <1>8, Zenon DEF CanInsert
<1>10. /\ semfs_sems' = [semfs_sems EXCEPT ![k] = s] /\ pc' = [pc EXCEPT ![t] = "dent"]
       /\ semfs_dents' = semfs_dents /\ vn_refcount' = vn_refcount
       /\ allocated' = allocated
       /\ sems_linked' = sems_linked /\ sems_hasvnode' = sems_hasvnode
       /\ sems_holder' = sems_holder /\ dirlock' = dirlock /\ tablelock' = tablelock
       /\ open' = open /\ panic' = panic
  BY <1>6, <1>9, Zenon DEF semfs_sem_insert, Goto, sems, locks
<1>11. arg' = [arg EXCEPT ![t].num = k]
  BY <1>9, Zenon DEF semfs_sem_insert
<1>12. /\ pc'[t] = "dent" /\ arg'[t].name = n /\ arg'[t].num = k
       /\ arg'[t].sem = s /\ arg'[t].new
       /\ \A u \in Threads : u # t => pc'[u] = pc[u] /\ arg'[u] = arg[u]
  BY <1>3, <1>4, <1>6, <1>7, <1>10, <1>11, Zenon DEF Locals
<1>13. TypeOK'
  <2>1. arg' \in [Threads -> Locals]
    BY <1>11, <1>3 DEF Locals
  <2>2. pc' \in [Threads -> Places]
    BY <1>10, <1>3, Zenon DEF Places, InDir
  <2> QED
    BY <1>2, <1>10, <2>1, <2>2, Zenon DEF TypeOK
<1>14. \A u \in Threads : u # t => Held(u)' /\ Creating(u)' /\ Naming(u)' /\ Reclaiming(u)'
  BY <1>1, <1>2, <1>5, <1>10, <1>12, OthersKept, Zenon
<1>15. ~Live(k) /\ \A m \in Names : semfs_dents[m] # k
  <2>1. s # NULL /\ NULL \notin allocated
    BY <1>2, SemfsAssumption, Zenon DEF TypeOK
  <2>2. ~Live(k)
    BY <1>9, <2>1, Zenon DEF Live
  <2>3. \A m \in Names : InTransit(m) => m = n
    BY <1>5, <1>7, Zenon DEF InTransit, InDir
  <2> QED
    BY <1>2, <1>8, <2>2, <2>3, NoneNotNum, Zenon DEF Good, Named
<1>16. vn_refcount[k] = 0
  <2>1. NULL \notin allocated /\ vn_refcount[k] \in Nat
    BY <1>2, SemfsAssumption, Zenon DEF TypeOK
  <2> QED
    BY <1>2, <1>9, <2>1 DEF Good, Table
<1>17. Held(t)' /\ Creating(t)' /\ Naming(t)' /\ Reclaiming(t)'
  <2>1. Held(t)'
    BY <1>1, <1>4, <1>5, <1>10, <1>12, Zenon DEF Held, InDir
  <2>2. semfs_sems'[k] = s
    BY <1>3, <1>10, Zenon
  <2>3. Creating(t)'
    BY <1>5, <1>8, <1>10, <1>12, <1>15, <1>16, <2>2 DEF Creating
  <2> QED
    BY <1>12, <2>1, <2>3, Zenon DEF Naming, Reclaiming
<1>18. Table'
  BY <1>2, <1>3, <1>8, <1>9, <1>10, <1>16 DEF Good, Table
<1>19. Counted'
  <2>1. \A u \in Threads, i \in Semnums : HoldsRef(u, i)' <=> HoldsRef(u, i)
    BY <1>1, <1>10, <1>12, Zenon DEF HoldsRef
  <2> QED
    BY <1>2, <1>10, <2>1, SameRefs, Zenon
<1>20. Named'
  <2>1. \A m \in Names : InTransit(m) => InTransit(m)'
    BY <1>1, <1>4, <1>5, <1>7, <1>12, Zenon DEF InTransit, InDir
  <2>2. \A i \in Semnums : Live(i) => Live(i)'
    BY <1>3, <1>8, <1>10, <1>15, Zenon DEF Live
  <2> QED
    BY <1>2, <1>10, <2>1, <2>2, Zenon DEF Good, Named, TypeOK
<1>21. Kept'
  <2>1. \A u \in Threads, r \in Sems : (Makes(u, r) => Makes(u, r)') /\ (Answers(u, r) => Answers(u, r)')
    BY <1>1, <1>6, <1>12, Zenon DEF Makes, Answers
  <2>2. \A r \in Sems : InTable(r) => InTable(r)'
    BY <1>2, <1>3, <1>9, <1>10, SemfsAssumption, Zenon DEF InTable
  <2> QED
    BY <1>2, <1>10, <2>1, <2>2, Zenon DEF Good, Kept, TypeOK
<1> QED
  BY <1>13, <1>14, <1>17, <1>18, <1>19, <1>20, <1>21, Zenon DEF IInv, Good

\* semfs_sem_insert fails and creat destroys the semaphore.
LEMMA InsertFailsStep ==
    ASSUME CountingFacts, IInv, NEW t \in Threads, InsertFails(t)
    PROVE  IInv'
<1>1. panic = "none" /\ pc[t] = "insert" /\ tablelock = NULL
  BY Zenon DEF InsertFails, At
<1>2. TypeOK /\ Good
  BY <1>1, Zenon DEF IInv
<1>3. /\ pc \in [Threads -> Places] /\ arg \in [Threads -> Locals]
      /\ sems_linked \in [Sems -> BOOLEAN] /\ sems_hasvnode \in [Sems -> BOOLEAN]
      /\ allocated \subseteq Sems
  BY <1>2, Zenon DEF TypeOK
<1>4. Held(t) /\ Creating(t) /\ arg[t].new
  BY <1>1, <1>2, Zenon DEF Good, Held
<1>5. /\ dirlock = t /\ \A u \in Threads : u # t => pc[u] \notin InDir /\ ~arg[u].new
  BY <1>1, <1>2, DirAlone, Zenon DEF InDir
<1>6. PICK s \in Sems : s = arg[t].sem
  BY <1>2, <1>4, Zenon DEF Creating, TypeOK
<1>7. PICK n \in Names : n = arg[t].name
  BY <1>1, <1>4, Zenon DEF Creating
<1>8. /\ s \in allocated /\ semfs_dents[n] = None
      /\ \A i \in Semnums : semfs_sems[i] # s
  BY <1>1, <1>4, <1>6, <1>7, Zenon DEF Creating
<1>9. /\ allocated' = allocated \ {s}
      /\ sems_linked' = [sems_linked EXCEPT ![s] = FALSE]
      /\ sems_hasvnode' = [sems_hasvnode EXCEPT ![s] = FALSE]
      /\ pc' = [pc EXCEPT ![t] = "idle"] /\ arg' = [arg EXCEPT ![t] = NoArg]
      /\ dirlock' = NULL
      /\ semfs_dents' = semfs_dents /\ semfs_sems' = semfs_sems
      /\ vn_refcount' = vn_refcount /\ sems_holder' = sems_holder
      /\ tablelock' = tablelock /\ open' = open /\ panic' = panic
  BY <1>6, Zenon DEF InsertFails, Destroyed, DoneDir, Done, Goto, tables
<1>10. /\ pc'[t] = "idle" /\ arg'[t] = NoArg /\ ~arg'[t].new
       /\ \A u \in Threads : u # t => pc'[u] = pc[u] /\ arg'[u] = arg[u]
  BY <1>3, <1>9, Zenon DEF NoArg
<1>11. TypeOK'
  <2>1. arg' \in [Threads -> Locals]
    BY <1>9, <1>3, SetOthers, Zenon
  <2>2. pc' \in [Threads -> Places]
    BY <1>9, <1>3, Zenon DEF Places
  <2> QED
    BY <1>2, <1>9, <2>1, <2>2, Zenon DEF TypeOK
<1>12. \A u \in Threads : u # t => Held(u)' /\ Creating(u)' /\ Naming(u)' /\ Reclaiming(u)'
  BY <1>1, <1>2, <1>5, <1>9, <1>10, OthersKept, Zenon
<1>13. Held(t)' /\ Creating(t)' /\ Naming(t)' /\ Reclaiming(t)'
  <2>1. Held(t)'
    BY <1>1, <1>4, <1>9, <1>10, SemfsAssumption, Zenon DEF Held, InDir
  <2> QED
    BY <1>10, <2>1, Zenon DEF Creating, Naming, Reclaiming
<1>14. Table'
  BY <1>2, <1>3, <1>8, <1>9, Zenon DEF Good, Table
<1>15. Counted'
  <2>1. \A u \in Threads, i \in Semnums : HoldsRef(u, i)' <=> HoldsRef(u, i)
    BY <1>1, <1>9, <1>10, Zenon DEF HoldsRef
  <2> QED
    BY <1>2, <1>9, <2>1, SameRefs, Zenon
<1>16. Named'
  <2>1. \A m \in Names : InTransit(m) => m = n
    BY <1>5, <1>7, Zenon DEF InTransit, InDir
  <2>2. \A i \in Semnums : Live(i) => Live(i)'
    BY <1>3, <1>8, <1>9, Zenon DEF Live
  <2> QED
    BY <1>2, <1>8, <1>9, <2>1, <2>2, NoneNotNum, Zenon DEF Good, Named
<1>17. Kept'
  <2>1. \A u \in Threads, r \in allocated' : ~Makes(u, r) /\ (Answers(u, r) => Answers(u, r)')
    BY <1>1, <1>5, <1>6, <1>9, <1>10, Zenon DEF Makes, Answers
  <2>2. \A r \in Sems : InTable(r)' <=> InTable(r)
    BY <1>9, Zenon DEF InTable
  <2> QED
    BY <1>2, <1>3, <1>9, <2>1, <2>2, Zenon DEF Good, Kept
<1> QED
  BY <1>11, <1>12, <1>13, <1>14, <1>15, <1>16, <1>17, Zenon DEF IInv, Good

\* semfs_direntry_create enters the name.
LEMMA DirentryStep ==
    ASSUME IInv, NEW t \in Threads, semfs_direntry_create(t)
    PROVE  IInv'
<1>1. panic = "none" /\ pc[t] = "dent"
  BY Zenon DEF semfs_direntry_create, At
<1>2. TypeOK /\ Good
  BY <1>1, Zenon DEF IInv
<1>3. /\ pc \in [Threads -> Places] /\ arg \in [Threads -> Locals]
      /\ semfs_dents \in [Names -> Semnums \cup {None}]
  BY <1>2, Zenon DEF TypeOK
<1>4. Held(t) /\ Creating(t) /\ arg[t].new
  BY <1>1, <1>2, Zenon DEF Good, Held
<1>5. /\ dirlock = t /\ \A u \in Threads : u # t => pc[u] \notin InDir /\ ~arg[u].new
  BY <1>1, <1>2, DirAlone, Zenon DEF InDir
<1>6. PICK n \in Names : n = arg[t].name
  BY <1>1, <1>4, Zenon DEF Creating
<1>7. PICK k \in Semnums : k = arg[t].num
  BY <1>1, <1>4, Zenon DEF Creating
<1>8. \A m \in Names : semfs_dents[m] # k
  BY <1>1, <1>4, <1>7, Zenon DEF Creating
<1>9. /\ semfs_dents' = [semfs_dents EXCEPT ![n] = k] /\ pc' = [pc EXCEPT ![t] = "getvnode"]
      /\ arg' = arg /\ semfs_sems' = semfs_sems
      /\ vn_refcount' = vn_refcount /\ allocated' = allocated
      /\ sems_linked' = sems_linked /\ sems_hasvnode' = sems_hasvnode
      /\ sems_holder' = sems_holder /\ dirlock' = dirlock /\ tablelock' = tablelock
      /\ open' = open /\ panic' = panic
  BY <1>6, <1>7, Zenon DEF semfs_direntry_create, Goto, sems, locks
<1>10. /\ pc'[t] = "getvnode" /\ semfs_dents'[n] = k
       /\ \A u \in Threads : u # t => pc'[u] = pc[u]
       /\ \A m \in Names : m # n => semfs_dents'[m] = semfs_dents[m]
  BY <1>3, <1>9, Zenon
<1>11. TypeOK'
  <2>1. pc' \in [Threads -> Places]
    BY <1>9, <1>3, Zenon DEF Places, InDir
  <2> QED
    BY <1>2, <1>9, <2>1, Zenon DEF TypeOK
<1>12. \A u \in Threads : u # t => Held(u)' /\ Creating(u)' /\ Naming(u)' /\ Reclaiming(u)'
  BY <1>2, <1>5, <1>9, <1>10, OthersKept, Zenon
<1>13. Held(t)' /\ Creating(t)' /\ Naming(t)' /\ Reclaiming(t)'
  <2>1. Held(t)'
    BY <1>1, <1>4, <1>9, <1>10, Zenon DEF Held, InDir
  <2>2. \A u \in Threads : pc'[u] = "reclaimed" => pc[u] = "reclaimed"
    BY <1>10, Zenon
  <2>3. Creating(t)'
    BY <1>1, <1>4, <1>7, <1>9, <1>10, <2>2, Zenon DEF Creating
  <2>4. Naming(t)'
    BY <1>4, <1>6, <1>7, <1>9, <1>10, Zenon DEF Naming
  <2> QED
    BY <1>10, <2>1, <2>3, <2>4, Zenon DEF Reclaiming
<1>14. Table'
  BY <1>2, <1>9, Zenon DEF Good, Table
<1>15. Counted'
  <2>1. \A u \in Threads, i \in Semnums : HoldsRef(u, i)' <=> HoldsRef(u, i)
    BY <1>1, <1>9, <1>10, Zenon DEF HoldsRef
  <2> QED
    BY <1>2, <1>9, <2>1, SameRefs, Zenon
<1>16. Named'
  <2>1. \A m \in Names : InTransit(m) => InTransit(m)'
    BY <1>1, <1>9, <1>10, Zenon DEF InTransit
  <2>2. InTransit(n)'
    BY <1>4, <1>6, <1>9, Zenon DEF InTransit
  <2>3. \A i \in Semnums : Live(i)' <=> Live(i)
    BY <1>9, Zenon DEF Live
  <2>4. \A m \in Names, i \in Semnums : semfs_dents'[m] = i => Live(i)' \/ InTransit(m)'
    BY <1>2, <1>10, <2>1, <2>2, <2>3, Zenon DEF Good, Named
  <2>5. \A m, l \in Names : semfs_dents'[m] = semfs_dents'[l] /\ m # l => semfs_dents'[m] = None
    BY <1>2, <1>8, <1>10, ZenonT(30) DEF Good, Named
  <2> QED
    BY <2>4, <2>5, Zenon DEF Named
<1>17. Kept'
  <2>1. \A u \in Threads, r \in Sems : (Makes(u, r) => Makes(u, r)') /\ (Answers(u, r) => Answers(u, r)')
    BY <1>1, <1>9, <1>10, Zenon DEF Makes, Answers
  <2>2. \A r \in Sems : InTable(r)' <=> InTable(r)
    BY <1>9, Zenon DEF InTable
  <2> QED
    BY <1>2, <1>9, <2>1, <2>2, Zenon DEF Good, Kept, TypeOK
<1> QED
  BY <1>11, <1>12, <1>13, <1>14, <1>15, <1>16, <1>17, Zenon DEF IInv, Good

\* The entry cannot be made.
LEMMA DentFailsStep ==
    ASSUME IInv, NEW t \in Threads, NEW r \in {"ok", "ENOMEM"}, DentFails(t, r)
    PROVE  IInv'
<1>1. /\ panic = "none" /\ pc[t] = "dent" /\ pc' = [pc EXCEPT ![t] = "uninsert"]
      /\ semfs_dents' = semfs_dents /\ semfs_sems' = semfs_sems
      /\ vn_refcount' = vn_refcount /\ allocated' = allocated
      /\ sems_linked' = sems_linked /\ sems_hasvnode' = sems_hasvnode
      /\ sems_holder' = sems_holder /\ dirlock' = dirlock /\ tablelock' = tablelock
      /\ open' = open /\ panic' = panic
  BY Zenon DEF DentFails, At, Goto, tables, sems, locks
<1>a. arg' = [arg EXCEPT ![t].result = r]
  BY Zenon DEF DentFails
<1>2. TypeOK /\ Good
  BY <1>1, Zenon DEF IInv
<1>3. pc \in [Threads -> Places] /\ arg \in [Threads -> Locals]
  BY <1>2, Zenon DEF TypeOK
<1>4. Held(t) /\ Creating(t) /\ arg[t].new
  BY <1>1, <1>2, Zenon DEF Good, Held
<1>5. dirlock = t
  BY <1>1, <1>2, DirAlone, Zenon DEF InDir
<1>6. /\ pc'[t] = "uninsert" /\ arg'[t].name = arg[t].name /\ arg'[t].num = arg[t].num
      /\ arg'[t].sem = arg[t].sem /\ arg'[t].new
      /\ \A u \in Threads : u # t => pc'[u] = pc[u] /\ arg'[u] = arg[u]
  BY <1>a, <1>1, <1>3, <1>4, Zenon DEF Locals
<1>7. TypeOK'
  <2>1. arg' \in [Threads -> Locals]
    BY <1>a, <1>3, ZenonT(30) DEF Locals
  <2>2. pc' \in [Threads -> Places]
    BY <1>1, <1>3, Zenon DEF Places, InDir
  <2> QED
    BY <1>1, <1>2, <2>1, <2>2, Zenon DEF TypeOK
<1>8. \A u \in Threads : u # t => Held(u)' /\ Creating(u)' /\ Naming(u)' /\ Reclaiming(u)'
  BY <1>1, <1>2, <1>5, <1>6, OthersKept, Zenon
<1>9. Held(t)' /\ Creating(t)' /\ Naming(t)' /\ Reclaiming(t)'
  <2>1. Held(t)'
    BY <1>1, <1>4, <1>5, <1>6, Zenon DEF Held, InDir
  <2>2. \A u \in Threads : pc'[u] = "reclaimed" => pc[u] = "reclaimed" /\ arg'[u] = arg[u]
    BY <1>6, Zenon
  <2>3. Creating(t)'
    <3>1. /\ arg[t].sem \in allocated /\ ~sems_linked[arg[t].sem]
          /\ \A u \in Threads : pc[u] = "reclaimed" => arg[u].sem # arg[t].sem
          /\ arg[t].num \in Semnums /\ semfs_sems[arg[t].num] = arg[t].sem
          /\ vn_refcount[arg[t].num] = 0
          /\ \A n \in Names : semfs_dents[n] # arg[t].num
          /\ semfs_dents[arg[t].name] = None /\ arg[t].name \in Names
      BY <1>1, <1>4, Zenon DEF Creating
    <3>2. \A u \in Threads : pc'[u] = "reclaimed" => arg'[u].sem # arg'[t].sem
      BY <1>6, <2>2, <3>1, Zenon
    <3> QED
      BY <1>1, <1>6, <3>1, <3>2, Zenon DEF Creating
  <2> QED
    BY <1>6, <2>1, <2>3, Zenon DEF Naming, Reclaiming
<1>10. Table'
  BY <1>1, <1>2, Zenon DEF Good, Table
<1>11. Counted'
  <2>1. \A u \in Threads, i \in Semnums : HoldsRef(u, i)' <=> HoldsRef(u, i)
    BY <1>1, <1>6, Zenon DEF HoldsRef
  <2> QED
    BY <1>1, <1>2, <2>1, SameRefs, Zenon
<1>12. Named'
  <2>1. \A m \in Names : InTransit(m) => InTransit(m)'
    BY <1>1, <1>6 DEF InTransit
  <2> QED
    BY <1>1, <1>2, <2>1, Zenon DEF Good, Named, Live
<1>13. Kept'
  <2>1. \A u \in Threads, s \in Sems : (Makes(u, s) => Makes(u, s)') /\ (Answers(u, s) => Answers(u, s)')
    BY <1>1, <1>6, Zenon DEF Makes, Answers
  <2>2. \A s \in Sems : InTable(s)' <=> InTable(s)
    BY <1>1, Zenon DEF InTable
  <2> QED
    BY <1>1, <1>2, <2>1, <2>2, Zenon DEF Good, Kept, TypeOK
<1> QED
  BY <1>7, <1>8, <1>9, <1>10, <1>11, <1>12, <1>13, Zenon DEF IInv, Good

\* semfs_getvnode finds or makes the vnode, for a lookup or for a creat.
LEMMA GetvnodeStep ==
    ASSUME CountingFacts, IInv, NEW t \in Threads, semfs_getvnode(t)
    PROVE  IInv'
<1>1. panic = "none" /\ pc[t] = "getvnode" /\ tablelock = NULL
  BY Zenon DEF semfs_getvnode, At
<1>2. TypeOK /\ Good
  BY <1>1, Zenon DEF IInv
<1>3. /\ pc \in [Threads -> Places] /\ arg \in [Threads -> Locals]
      /\ open \in [Threads -> Semnums \cup {None}] /\ vn_refcount \in [Semnums -> Nat]
      /\ sems_hasvnode \in [Sems -> BOOLEAN] /\ allocated \subseteq Sems
      /\ semfs_sems \in [Semnums -> Sems \cup {NULL}]
  BY <1>2, Zenon DEF TypeOK
<1>4. Held(t) /\ Creating(t) /\ Naming(t) /\ open[t] = None
  BY <1>1, <1>2, Zenon DEF Good, Held
<1>5. /\ dirlock = t /\ \A u \in Threads : u # t => pc[u] \notin InDir /\ ~arg[u].new
      /\ \A u \in Threads : pc[u] # "reclaimed"
  BY <1>1, <1>2, DirAlone, TableFree, Zenon DEF InDir
<1>6. PICK i \in Semnums : i = arg[t].num
  BY <1>1, <1>4, Zenon DEF Naming
<1>7. PICK s \in allocated : s = semfs_sems[i]
  BY <1>1, <1>4, <1>6, Zenon DEF Creating, Naming, Live
<1>8. /\ vn_refcount' = [vn_refcount EXCEPT ![i] = @ + 1]
      /\ sems_hasvnode' = IF vn_refcount[i] > 0 THEN sems_hasvnode
                          ELSE [sems_hasvnode EXCEPT ![s] = TRUE]
      /\ semfs_dents' = semfs_dents /\ semfs_sems' = semfs_sems /\ allocated' = allocated
      /\ sems_linked' = sems_linked /\ sems_holder' = sems_holder
      /\ tablelock' = tablelock /\ panic' = panic
  BY <1>6, <1>7, Zenon DEF semfs_getvnode
<1>9. \/ /\ arg[t].new /\ pc' = [pc EXCEPT ![t] = "link"]
         /\ arg' = arg /\ open' = open /\ dirlock' = dirlock
      \/ /\ ~arg[t].new /\ pc' = [pc EXCEPT ![t] = "idle"]
         /\ arg' = [arg EXCEPT ![t] = NoArg] /\ open' = [open EXCEPT ![t] = i]
         /\ dirlock' = NULL
  BY <1>6, Zenon DEF semfs_getvnode, DoneDir, Done, Goto
<1>10. /\ \A u \in Threads : u # t => pc'[u] = pc[u] /\ arg'[u] = arg[u] /\ open'[u] = open[u]
       /\ \/ /\ arg[t].new /\ pc'[t] = "link" /\ arg'[t] = arg[t] /\ open'[t] = None
             /\ dirlock' = t
          \/ /\ ~arg[t].new /\ pc'[t] = "idle" /\ arg'[t] = NoArg /\ open'[t] = i
             /\ dirlock' = NULL
  BY <1>3, <1>4, <1>5, <1>9, Zenon
<1>11. /\ vn_refcount'[i] = vn_refcount[i] + 1 /\ vn_refcount[i] \in Nat
       /\ \A j \in Semnums : j # i => vn_refcount'[j] = vn_refcount[j]
       /\ \A r \in Sems : sems_hasvnode'[r] <=> sems_hasvnode[r] \/ r = s
  <2>1. vn_refcount[i] > 0 => sems_hasvnode[s]
    BY <1>2, <1>7, Zenon DEF Good, Table
  <2> QED
    BY <1>3, <1>7, <1>8, <2>1, Zenon
<1>12. TypeOK'
  <2>1. arg' \in [Threads -> Locals]
    <3>1. arg' = arg \/ arg' = [arg EXCEPT ![t] = NoArg]
      BY <1>9, Zenon
    <3>2. [arg EXCEPT ![t] = NoArg] \in [Threads -> Locals]
      BY <1>3, SetOthers, Zenon
    <3> QED
      BY <1>3, <3>1, <3>2, Zenon
  <2>2. pc' \in [Threads -> Places] /\ open' \in [Threads -> Semnums \cup {None}]
    BY <1>9, <1>3 DEF Places, InDir
  <2>3. vn_refcount' \in [Semnums -> Nat] /\ sems_hasvnode' \in [Sems -> BOOLEAN]
    BY <1>3, <1>8
  <2>4. dirlock' \in Threads \cup {NULL}
    BY <1>10, Zenon
  <2> QED
    BY <1>2, <1>8, <2>1, <2>2, <2>3, <2>4, Zenon DEF TypeOK
<1>13. \A u \in Threads : u # t => Held(u)' /\ Creating(u)' /\ Naming(u)' /\ Reclaiming(u)'
  BY <1>1, <1>2, <1>5, <1>8, <1>10, OthersKept, Zenon
<1>14. Held(t)' /\ Creating(t)' /\ Naming(t)' /\ Reclaiming(t)'
  <2>1. CASE arg[t].new
    <3>1. Held(t)'
      BY <1>1, <1>4, <1>8, <1>10, <2>1, Zenon DEF Held, InDir
    <3>2. Creating(t)'
      BY <1>1, <1>4, <1>5, <1>8, <1>10, <2>1, ZenonT(30) DEF Creating
    <3>3. Naming(t)'
      BY <1>1, <1>4, <1>8, <1>10, <2>1, Zenon DEF Naming
    <3> QED
      BY <1>10, <2>1, <3>1, <3>2, <3>3, Zenon DEF Reclaiming
  <2>2. CASE ~arg[t].new
    <3>1. pc'[t] = "idle" /\ arg'[t] = NoArg /\ dirlock' # t /\ tablelock' # t
      BY <1>1, <1>8, <1>10, <2>2, SemfsAssumption, Zenon
    <3> QED
      BY <3>1, BackToIdle, Zenon
  <2> QED
    BY <2>1, <2>2, Zenon
<1>15. Table'
  BY <1>2, <1>3, <1>7, <1>8, <1>11 DEF Good, Table
<1>16. Counted'
  <2>1. ~HoldsRef(t, i) /\ HoldsRef(t, i)'
    BY <1>1, <1>4, <1>6, <1>10, NoneNotNum, Zenon DEF HoldsRef
  <2>2. \A u \in Threads, j \in Semnums : u # t \/ j # i => (HoldsRef(u, j)' <=> HoldsRef(u, j))
    BY <1>1, <1>4, <1>6, <1>10, NoneNotNum, Zenon DEF HoldsRef, NoArg
  <2>3. ASSUME NEW j \in Semnums, j # i
        PROVE  vn_refcount'[j] = Cardinality({u \in Threads : HoldsRef(u, j)'})
    BY <1>2, <1>11, <2>2, <2>3, Zenon DEF Good, Counted
  <2>4. vn_refcount'[i] = Cardinality({u \in Threads : HoldsRef(u, i)'})
    <3> DEFINE S == {u \in Threads : HoldsRef(u, i)}
    <3>1. {u \in Threads : HoldsRef(u, i)'} = S \cup {t} /\ t \in Threads \ S
      BY <2>1, <2>2, Zenon
    <3>2. vn_refcount[i] = Cardinality(S) /\ S \in SUBSET Threads
      BY <1>2, Zenon DEF Good, Counted
    <3> HIDE DEF S
    <3>3. Cardinality(S \cup {t}) = Cardinality(S) + 1
      BY <3>1, <3>2, Counting, Zenon
    <3> QED
      BY <1>11, <3>1, <3>2, <3>3, Zenon
  <2> QED
    BY <2>3, <2>4, Zenon DEF Counted
<1>17. Named'
  <2>1. \A m \in Names : InTransit(m) => InTransit(m)'
    BY <1>1, <1>5, <1>10, ZenonT(30) DEF InTransit, InDir
  <2> QED
    BY <1>2, <1>8, <2>1, Zenon DEF Good, Named, Live
<1>18. Kept'
  <2>1. \A u \in Threads, r \in Sems : (Makes(u, r) => Makes(u, r)') /\ (Answers(u, r) => Answers(u, r)')
    BY <1>1, <1>10, Zenon DEF Makes, Answers
  <2>2. \A r \in Sems : InTable(r)' <=> InTable(r)
    BY <1>8, Zenon DEF InTable
  <2> QED
    BY <1>2, <1>3, <1>8, <1>11, <2>1, <2>2, Zenon DEF Good, Kept
<1> QED
  BY <1>12, <1>13, <1>14, <1>15, <1>16, <1>17, <1>18, Zenon DEF IInv, Good

\* semfs_getvnode has no memory, for a lookup or for a creat.
LEMMA GetvnodeFailsStep ==
    ASSUME CountingFacts, IInv, NEW t \in Threads, GetvnodeFails(t)
    PROVE  IInv'
<1>1. /\ panic = "none" /\ pc[t] = "getvnode" /\ tablelock = NULL
      /\ semfs_sems' = semfs_sems /\ vn_refcount' = vn_refcount /\ allocated' = allocated
      /\ sems_linked' = sems_linked /\ sems_hasvnode' = sems_hasvnode
      /\ sems_holder' = sems_holder /\ tablelock' = tablelock
      /\ open' = open /\ panic' = panic
  BY Zenon DEF GetvnodeFails, At, sems
<1>2. TypeOK /\ Good
  BY <1>1, Zenon DEF IInv
<1>3. /\ pc \in [Threads -> Places] /\ arg \in [Threads -> Locals]
      /\ semfs_dents \in [Names -> Semnums \cup {None}]
  BY <1>2, Zenon DEF TypeOK
<1>4. Held(t) /\ Creating(t) /\ Naming(t)
  BY <1>1, <1>2, Zenon DEF Good
<1>5. /\ dirlock = t /\ \A u \in Threads : u # t => pc[u] \notin InDir /\ ~arg[u].new
  BY <1>1, <1>2, DirAlone, Zenon DEF InDir
<1>6. PICK n \in Names : n = arg[t].name
  BY <1>1, <1>4, Zenon DEF Naming
<1>7. \/ /\ arg[t].new /\ semfs_dents' = [semfs_dents EXCEPT ![n] = None]
         /\ pc' = [pc EXCEPT ![t] = "uninsert"]
         /\ arg' = [arg EXCEPT ![t].result = "ENOMEM"] /\ dirlock' = dirlock
      \/ /\ ~arg[t].new /\ pc' = [pc EXCEPT ![t] = "idle"]
         /\ arg' = [arg EXCEPT ![t] = NoArg] /\ dirlock' = NULL
         /\ semfs_dents' = semfs_dents
  BY <1>6, Zenon DEF GetvnodeFails, DoneDir, Done, Goto
<1>8. CASE arg[t].new
  <2>1. /\ pc'[t] = "uninsert" /\ arg'[t].num = arg[t].num /\ arg'[t].sem = arg[t].sem
        /\ arg'[t].name = n /\ arg'[t].new /\ semfs_dents'[n] = None
        /\ \A u \in Threads : u # t => pc'[u] = pc[u] /\ arg'[u] = arg[u]
        /\ \A m \in Names : m # n => semfs_dents'[m] = semfs_dents[m]
        /\ dirlock' = dirlock
    BY <1>3, <1>6, <1>7, <1>8 DEF Locals
  <2>2. TypeOK'
    <3>1. arg' \in [Threads -> Locals]
      <4>1. arg' = [arg EXCEPT ![t].result = "ENOMEM"]
        BY <1>7, <1>8, Zenon
      <4> QED
        BY <1>3, <4>1 DEF Locals
    <3>2. pc' \in [Threads -> Places]
      BY <1>3, <1>7, <1>8, Zenon DEF Places, InDir
    <3>3. semfs_dents' \in [Names -> Semnums \cup {None}]
      BY <1>3, <1>7, <1>8, Zenon
    <3> QED
      BY <1>1, <1>2, <2>1, <3>1, <3>2, <3>3, Zenon DEF TypeOK
  <2>3. \A u \in Threads : u # t => Held(u)' /\ Creating(u)' /\ Naming(u)' /\ Reclaiming(u)'
    BY <1>1, <1>2, <1>5, <2>1, OthersKept, Zenon
  <2>4. Held(t)' /\ Creating(t)' /\ Naming(t)' /\ Reclaiming(t)'
    <3>1. Held(t)'
      BY <1>1, <1>4, <2>1, Zenon DEF Held, InDir
    <3>2. \A m \in Names : semfs_dents'[m] # arg[t].num
      <4>1. semfs_dents[n] = arg[t].num /\ arg[t].num \in Semnums
        BY <1>1, <1>4, <1>6, Zenon DEF Naming
      <4> QED
        <5>1. \A m \in Names : semfs_dents[m] = semfs_dents[n] /\ m # n => semfs_dents[m] = None
          BY <1>2, Zenon DEF Good, Named
        <5>2. semfs_dents'[n] = None /\ \A m \in Names : m # n => semfs_dents'[m] = semfs_dents[m]
          BY <2>1, Zenon
        <5> QED
          BY <4>1, <5>1, <5>2, NoneNotNum, Zenon
    <3>3. \A u \in Threads : pc'[u] = "reclaimed" => pc[u] = "reclaimed" /\ arg'[u] = arg[u]
      BY <2>1, Zenon
    <3>4. Creating(t)'
      BY <1>1, <1>4, <1>8, <2>1, <3>2, <3>3, ZenonT(30) DEF Creating
    <3> QED
      BY <2>1, <3>1, <3>4, Zenon DEF Naming, Reclaiming
  <2>5. Table'
    BY <1>1, <1>2, Zenon DEF Good, Table
  <2>6. Counted'
    <3>1. \A u \in Threads, i \in Semnums : HoldsRef(u, i)' <=> HoldsRef(u, i)
      BY <1>1, <2>1, Zenon DEF HoldsRef
    <3> QED
      BY <1>1, <1>2, <3>1, SameRefs, Zenon
  <2>7. Named'
    <3>1. \A m \in Names : InTransit(m) => InTransit(m)'
      BY <1>1, <1>6, <2>1 DEF InTransit
    <3>2. \A i \in Semnums : Live(i)' <=> Live(i)
      BY <1>1, Zenon DEF Live
    <3> QED
      <4>1. semfs_dents'[n] = None /\ \A m \in Names : m # n => semfs_dents'[m] = semfs_dents[m]
        BY <2>1, Zenon
      <4> QED
        BY <1>2, <3>1, <3>2, <4>1, NoneNotNum, Zenon DEF Good, Named
  <2>8. Kept'
    <3>1. \A u \in Threads, r \in Sems : (Makes(u, r) => Makes(u, r)') /\ (Answers(u, r) => Answers(u, r)')
      BY <1>1, <2>1, Zenon DEF Makes, Answers
    <3>2. \A r \in Sems : InTable(r)' <=> InTable(r)
      BY <1>1, Zenon DEF InTable
    <3> QED
      BY <1>1, <1>2, <3>1, <3>2, Zenon DEF Good, Kept, TypeOK
  <2> QED
    BY <2>2, <2>3, <2>4, <2>5, <2>6, <2>7, <2>8, Zenon DEF IInv, Good
<1>9. CASE ~arg[t].new
  <2>1. /\ pc'[t] = "idle" /\ arg'[t] = NoArg /\ dirlock' = NULL /\ semfs_dents' = semfs_dents
        /\ \A u \in Threads : u # t => pc'[u] = pc[u] /\ arg'[u] = arg[u]
    BY <1>3, <1>7, <1>9, Zenon
  <2>2. TypeOK'
    <3>1. arg' \in [Threads -> Locals]
      <4>1. arg' = [arg EXCEPT ![t] = NoArg]
        BY <1>7, <1>9, Zenon
      <4> QED
        BY <1>3, <4>1, SetOthers, Zenon
    <3>2. pc' \in [Threads -> Places]
      BY <1>3, <1>7, <1>9, Zenon DEF Places
    <3> QED
      BY <1>1, <1>2, <2>1, <3>1, <3>2, Zenon DEF TypeOK
  <2>3. \A u \in Threads : u # t => Held(u)' /\ Creating(u)' /\ Naming(u)' /\ Reclaiming(u)'
    BY <1>1, <1>2, <1>5, <2>1, OthersKept, Zenon
  <2>4. Held(t)' /\ Creating(t)' /\ Naming(t)' /\ Reclaiming(t)'
    <3>1. dirlock' # t /\ tablelock' # t
      BY <1>1, <2>1, SemfsAssumption, Zenon
    <3> QED
      BY <2>1, <3>1, BackToIdle, Zenon
  <2>5. Table'
    BY <1>1, <1>2, Zenon DEF Good, Table
  <2>6. Counted'
    <3>1. \A u \in Threads, i \in Semnums : HoldsRef(u, i)' <=> HoldsRef(u, i)
      BY <1>1, <2>1, Zenon DEF HoldsRef
    <3> QED
      BY <1>1, <1>2, <3>1, SameRefs, Zenon
  <2>7. Named'
    <3>1. \A m \in Names : ~InTransit(m)
      BY <1>1, <1>5, <1>9, Zenon DEF InTransit, InDir
    <3> QED
      BY <1>1, <1>2, <2>1, <3>1, Zenon DEF Good, Named, Live
  <2>8. Kept'
    <3>1. \A u \in Threads, r \in Sems : ~Makes(u, r) /\ (Answers(u, r) => Answers(u, r)')
      BY <1>1, <1>5, <1>9, <2>1, Zenon DEF Makes, Answers
    <3>2. \A r \in Sems : InTable(r)' <=> InTable(r)
      BY <1>1, Zenon DEF InTable
    <3> QED
      BY <1>1, <1>2, <3>1, <3>2, Zenon DEF Good, Kept, TypeOK
  <2> QED
    BY <2>2, <2>3, <2>4, <2>5, <2>6, <2>7, <2>8, Zenon DEF IInv, Good
<1> QED
  BY <1>8, <1>9, Zenon

\* creat links the semaphore.
LEMMA CreatDoneStep ==
    ASSUME CountingFacts, IInv, NEW t \in Threads, CreatDone(t)
    PROVE  IInv'
<1>1. panic = "none" /\ pc[t] = "link"
  BY Zenon DEF CreatDone, At
<1>2. TypeOK /\ Good
  BY <1>1, Zenon DEF IInv
<1>3. /\ pc \in [Threads -> Places] /\ arg \in [Threads -> Locals]
      /\ open \in [Threads -> Semnums \cup {None}] /\ sems_linked \in [Sems -> BOOLEAN]
      /\ allocated \subseteq Sems
  BY <1>2, Zenon DEF TypeOK
<1>4. Held(t) /\ Creating(t) /\ Naming(t) /\ open[t] = None /\ arg[t].new
  BY <1>1, <1>2, Zenon DEF Good, Held
<1>5. /\ dirlock = t /\ \A u \in Threads : u # t => pc[u] \notin InDir /\ ~arg[u].new
  BY <1>1, <1>2, DirAlone, Zenon DEF InDir
<1>6. PICK i \in Semnums : i = arg[t].num
  BY <1>1, <1>4, Zenon DEF Naming
<1>7. PICK s \in allocated : s = arg[t].sem /\ s = semfs_sems[i]
  BY <1>1, <1>4, <1>6, Zenon DEF Creating
<1>8. PICK n \in Names : n = arg[t].name /\ semfs_dents[n] = i
  BY <1>1, <1>4, <1>6, Zenon DEF Naming
<1>9. /\ sems_linked' = [sems_linked EXCEPT ![s] = TRUE] /\ open' = [open EXCEPT ![t] = i]
      /\ pc' = [pc EXCEPT ![t] = "idle"] /\ arg' = [arg EXCEPT ![t] = NoArg]
      /\ dirlock' = NULL
      /\ semfs_dents' = semfs_dents /\ semfs_sems' = semfs_sems
      /\ vn_refcount' = vn_refcount /\ allocated' = allocated
      /\ sems_hasvnode' = sems_hasvnode /\ sems_holder' = sems_holder
      /\ tablelock' = tablelock /\ panic' = panic
  BY <1>6, <1>7, Zenon DEF CreatDone, DoneDir, Done, Goto, tables
<1>10. /\ pc'[t] = "idle" /\ arg'[t] = NoArg /\ ~arg'[t].new /\ open'[t] = i
       /\ \A u \in Threads : u # t => pc'[u] = pc[u] /\ arg'[u] = arg[u] /\ open'[u] = open[u]
       /\ sems_linked'[s] /\ \A r \in Sems : r # s => sems_linked'[r] = sems_linked[r]
  BY <1>3, <1>9, Zenon DEF NoArg
<1>11. TypeOK'
  <2>1. arg' \in [Threads -> Locals]
    BY <1>3, <1>9, SetOthers, Zenon
  <2>2. pc' \in [Threads -> Places]
    BY <1>3, <1>9, Zenon DEF Places
  <2> QED
    BY <1>2, <1>9, <2>1, <2>2, Zenon DEF TypeOK
<1>12. \A u \in Threads : u # t => Held(u)' /\ Creating(u)' /\ Naming(u)' /\ Reclaiming(u)'
  BY <1>2, <1>5, <1>9, <1>10, OthersKept, Zenon
<1>13. Held(t)' /\ Creating(t)' /\ Naming(t)' /\ Reclaiming(t)'
  <2>1. Held(t)'
    BY <1>1, <1>4, <1>9, <1>10, SemfsAssumption, Zenon DEF Held, InDir
  <2> QED
    BY <1>10, <2>1, Zenon DEF Creating, Naming, Reclaiming
<1>14. Table'
  BY <1>2, <1>9, <1>10, Zenon DEF Good, Table
<1>15. Counted'
  <2>1. \A u \in Threads, j \in Semnums : HoldsRef(u, j)' <=> HoldsRef(u, j)
    BY <1>1, <1>4, <1>6, <1>10, NoneNotNum, ZenonT(30) DEF HoldsRef, NoArg
  <2> QED
    BY <1>2, <1>9, <2>1, SameRefs, Zenon
<1>16. Named'
  <2>1. \A m \in Names : InTransit(m) => m = n
    BY <1>5, <1>8, Zenon DEF InTransit, InDir
  <2>2. Live(i)' /\ \A j \in Semnums : Live(j) => Live(j)'
    BY <1>3, <1>7, <1>9, <1>10, ZenonT(30) DEF Live
  <2> QED
    BY <1>2, <1>8, <1>9, <2>1, <2>2, Zenon DEF Good, Named
<1>17. Kept'
  <2>1. \A u \in Threads, r \in Sems : (Makes(u, r) => r = s) /\ (Answers(u, r) => Answers(u, r)')
    BY <1>1, <1>5, <1>7, <1>10, Zenon DEF Makes, Answers
  <2>2. InTable(s) /\ \A r \in Sems : InTable(r)' <=> InTable(r)
    BY <1>7, <1>9, Zenon DEF InTable
  <2> QED
    BY <1>2, <1>3, <1>9, <1>10, <2>1, <2>2 DEF Good, Kept
<1> QED
  BY <1>11, <1>12, <1>13, <1>14, <1>15, <1>16, <1>17, Zenon DEF IInv, Good

\* creat takes the number back and destroys the semaphore.
LEMMA CreatFailsStep ==
    ASSUME CountingFacts, IInv, NEW t \in Threads, CreatFails(t)
    PROVE  IInv'
<1>1. panic = "none" /\ pc[t] = "uninsert" /\ tablelock = NULL
  BY Zenon DEF CreatFails, At
<1>2. TypeOK /\ Good
  BY <1>1, Zenon DEF IInv
<1>3. /\ pc \in [Threads -> Places] /\ arg \in [Threads -> Locals]
      /\ sems_linked \in [Sems -> BOOLEAN] /\ sems_hasvnode \in [Sems -> BOOLEAN]
      /\ allocated \subseteq Sems /\ semfs_sems \in [Semnums -> Sems \cup {NULL}]
  BY <1>2, Zenon DEF TypeOK
<1>4. Held(t) /\ Creating(t) /\ arg[t].new
  BY <1>1, <1>2, Zenon DEF Good, Held
<1>5. /\ dirlock = t /\ \A u \in Threads : u # t => pc[u] \notin InDir /\ ~arg[u].new
  BY <1>1, <1>2, DirAlone, Zenon DEF InDir
<1>6. PICK i \in Semnums : i = arg[t].num /\ vn_refcount[i] = 0 /\ \A m \in Names : semfs_dents[m] # i
  BY <1>1, <1>4, Zenon DEF Creating
<1>7. PICK s \in Sems : s \in allocated /\ s = arg[t].sem /\ s = semfs_sems[i]
  BY <1>1, <1>3, <1>4, <1>6, Zenon DEF Creating
<1>8. /\ semfs_sems' = [semfs_sems EXCEPT ![i] = NULL] /\ Destroyed(s)
      /\ pc' = [pc EXCEPT ![t] = "idle"] /\ arg' = [arg EXCEPT ![t] = NoArg]
      /\ dirlock' = NULL /\ panic' \in {"none", "no vnode"}
      /\ semfs_dents' = semfs_dents
      /\ vn_refcount' = vn_refcount /\ sems_holder' = sems_holder
      /\ tablelock' = tablelock /\ open' = open
  BY <1>1, <1>6, <1>7, Zenon DEF CreatFails, DoneDir, Done, Goto
<1>9. /\ pc'[t] = "idle" /\ arg'[t] = NoArg /\ ~arg'[t].new
      /\ \A u \in Threads : u # t => pc'[u] = pc[u] /\ arg'[u] = arg[u]
  BY <1>3, <1>8, Zenon DEF NoArg
<1>a. /\ Table'
      /\ \A j \in Semnums : j # i /\ Live(j) => Live(j)'
      /\ \A r \in allocated' : /\ r \in allocated /\ r # s /\ (InTable(r) => InTable(r)')
                               /\ sems_linked'[r] = sems_linked[r]
                               /\ sems_hasvnode'[r] = sems_hasvnode[r]
  BY <1>2, <1>6, <1>7, <1>8, DestroyedSem, Zenon DEF Good
<1>10. TypeOK'
  <2>1. arg' \in [Threads -> Locals]
    BY <1>3, <1>8, SetOthers, Zenon
  <2>2. pc' \in [Threads -> Places]
    BY <1>3, <1>8, Zenon DEF Places
  <2> QED
    BY <1>2, <1>8, <2>1, <2>2, Zenon DEF TypeOK, Destroyed
<1>11. \A u \in Threads : u # t => Held(u)' /\ Creating(u)' /\ Naming(u)' /\ Reclaiming(u)'
  BY <1>1, <1>2, <1>5, <1>8, <1>9, OthersKept, Zenon
<1>12. Held(t)' /\ Creating(t)' /\ Naming(t)' /\ Reclaiming(t)'
  <2>1. Held(t)'
    BY <1>1, <1>4, <1>8, <1>9, SemfsAssumption, Zenon DEF Held, InDir
  <2> QED
    BY <1>9, <2>1, Zenon DEF Creating, Naming, Reclaiming
<1>14. Counted'
  <2>1. \A u \in Threads, j \in Semnums : HoldsRef(u, j)' <=> HoldsRef(u, j)
    BY <1>1, <1>8, <1>9, Zenon DEF HoldsRef
  <2> QED
    BY <1>2, <1>8, <2>1, SameRefs, Zenon
<1>15. Named'
  <2>1. \A m \in Names : InTransit(m) => m = arg[t].name
    BY <1>5, Zenon DEF InTransit, InDir
  <2>3. semfs_dents[arg[t].name] = None
    BY <1>1, <1>4, Zenon DEF Creating
  <2> QED
    BY <1>a, <1>2, <1>6, <1>8, <2>1, <2>3, NoneNotNum, Zenon DEF Good, Named
<1>16. Kept'
  <2>1. \A u \in Threads, r \in allocated' : ~Makes(u, r) /\ (Answers(u, r) => Answers(u, r)')
    BY <1>a, <1>1, <1>5, <1>7, <1>9, ZenonT(30) DEF Makes, Answers
  <2> QED
    BY <1>a, <1>2, <2>1, Zenon DEF Good, Kept
<1> QED
  BY <1>a, <1>10, <1>11, <1>12, <1>14, <1>15, <1>16, Zenon DEF IInv, Good
=============================================================================

------------------------------- MODULE Emufs --------------------------------
(***************************************************************************)
(* The emulator file system, kern/dev/lamebus/emu.c: vnodes for files of   *)
(* the host, which the device reaches by handles.  A thread writes the     *)
(* registers, the device does the operation, emu_irq wakes the thread.     *)
(* e_lock is held over an operation and vfs_biglock over a lookup.         *)
(*                                                                         *)
(* The device (external) gives out handles that are not open; when it      *)
(* reports an I/O error it has done nothing.                               *)
(***************************************************************************)
EXTENDS Integers, Sequences, FiniteSets, SequencesExt, FiniteSetsExt, Functions, TLC

CONSTANTS
    EmThreads, EmVnodes,    \* threads, and places for vnodes besides the root's
    EmHandles,              \* handles 0 .. EmHandles-1
    EmNames,                \* names in the host directory
    EMU_MAXIO,              \* what one operation transfers
    EmSize,                 \* bound: the size of a file
    EmRetries,              \* retries of a close that fails
    EmErrors,               \* bound: I/O errors of the device
    EmNoMem,                \* bound: allocations that fail
    EmOps,                  \* bound: operations of a thread
    NoThread

VARIABLE em

EmufsAssumption ==
    /\ NoThread \notin EmThreads /\ 0 \notin EmVnodes
    /\ \A n \in {EmHandles, EMU_MAXIO, EmSize, EmOps} : n \in Nat \ {0}
    /\ EmRetries \in Nat /\ EmErrors \in Nat /\ EmNoMem \in Nat

EMU_ROOTHANDLE == 0
ef_root == 0
Root == "/"

\* Nobody's operation.
Idle == [pc |-> "idle", op |-> "", v |-> ef_root, name |-> Root, mine |-> FALSE,
         big |-> 0, retries |-> 0, h |-> 0, off |-> 0, resid |-> 0, result |-> "", held |-> {},
         done |-> 0]

\* config_emu, emufs_addtovfs: the root's vnode is loaded and stays.
EmInit ==
    em = [vn |-> (ef_root :> [handle |-> EMU_ROOTHANDLE, dir |-> TRUE, refcount |-> 1]),
          open |-> (EMU_ROOTHANDLE :> Root), file |-> (Root :> <<>>),
          reg |-> [handle |-> 0, iolen |-> 0, offset |-> 0, oper |-> "", result |-> ""],
          iobuf |-> <<>>, e_result |-> "", e_sem |-> 0, e_lock |-> NoThread,
          big |-> NoThread, th |-> [t \in EmThreads |-> Idle],
          errors |-> 0, nomem |-> 0, lost |-> {}, panic |-> FALSE]

T(t) == em.th[t]
Set(s, t, new) == [s EXCEPT !.th[t] = new @@ @]

\* The call of t is over.
Finish(s, t) == [s EXCEPT !.th[t] = [Idle EXCEPT !.big = s.th[t].big, !.held = s.th[t].held,
                                                 !.done = s.th[t].done]]

----------------------------------------------------------------------------
(* Locks *)

\* vfs_biglock may be taken again by its holder.
BigFree(s, t) == s.big \in {NoThread, t}
vfs_biglock_acquire(s, t) == [s EXCEPT !.big = t, !.th[t].big = @ + 1]
vfs_biglock_release(s, t) ==
    [s EXCEPT !.big = IF s.th[t].big = 1 THEN NoThread ELSE @, !.th[t].big = @ - 1]

lock_release(s) == [s EXCEPT !.e_lock = NoThread]

----------------------------------------------------------------------------
(* The device and its interrupt *)

\* The operation in the registers is done, with the file that the handle is
\* open on; result is what REG_RESULT says.
Done(s, result) == [s EXCEPT !.reg.oper = "", !.reg.result = result]

Opened(s, name, h) ==
    [Done(s, "SUCCESS") EXCEPT !.open = (h :> name) @@ @, !.reg.handle = h,
                               !.reg.iolen = IF name = Root THEN 1 ELSE 0]

Opens(s, oper, name) ==
    LET free    == (0 .. EmHandles - 1) \ DOMAIN s.open
        made    == [s EXCEPT !.file = IF name \in DOMAIN @ THEN @ ELSE (name :> <<>>) @@ @]
    IN  IF oper = "OPEN" /\ name \notin DOMAIN s.file THEN {Done(s, "BADPATH")}
        ELSE IF oper = "EXCLCREATE" /\ name \in DOMAIN s.file THEN {Done(s, "EXISTS")}
        ELSE IF free = {} THEN {Done(s, "NOHANDLES")}
        ELSE {Opened(made, name, h) : h \in {Min(free)}}

Written(data, off, new) ==
    [i \in 1 .. Max({Len(data), off + Len(new)}) |->
        CASE i \in off + 1 .. off + Len(new) -> new[i - off]
          [] i <= Min({off, Len(data)}) \/ i > off + Len(new) -> data[i]
          [] OTHER -> 0]

\* The part of the file from off, at most len.
Slice(data, off, len) == SubSeq(data, off + 1, Min({Len(data), off + len}))

Operates(s) ==
    LET r == s.reg
        name == s.open[r.handle]
        data == s.file[name]
    IN  CASE r.oper \in {"OPEN", "CREATE", "EXCLCREATE"} -> Opens(s, r.oper, s.iobuf[1])
          [] r.oper = "CLOSE" -> {[Done(s, "SUCCESS") EXCEPT !.open = Restrict(@, DOMAIN @ \ {r.handle})]}
          [] r.oper = "READ" -> {[Done(s, "SUCCESS") EXCEPT
                                   !.iobuf = Slice(data, r.offset, r.iolen),
                                   !.reg.iolen = Len(Slice(data, r.offset, r.iolen)),
                                   !.reg.offset = @ + Len(Slice(data, r.offset, r.iolen))]}
          [] r.oper = "READDIR" -> {[Done(s, "SUCCESS") EXCEPT
                                      !.iobuf = <<>>, !.reg.iolen = 0]}
          [] r.oper = "WRITE" -> {[Done(s, "SUCCESS") EXCEPT
                                    !.file[name] = Written(@, r.offset, s.iobuf)]}
          [] r.oper = "GETSIZE" -> {[Done(s, "SUCCESS") EXCEPT !.reg.iolen = Len(data)]}
          [] r.oper = "TRUNC" -> {[Done(s, "SUCCESS") EXCEPT
                                    !.file[name] = [i \in 1 .. r.iolen |->
                                                      IF i <= Len(data) THEN data[i] ELSE 0]]}

device ==
    /\ ~em.panic /\ em.reg.oper # ""
    /\ \/ /\ em.reg.handle \in DOMAIN em.open
          /\ em' \in Operates(em)
       \/ em.reg.handle \notin DOMAIN em.open /\ em' = Done(em, "BADHANDLE")
       \/ em.errors < EmErrors /\ em' = [Done(em, "MEDIA") EXCEPT !.errors = @ + 1]

emu_irq ==
    /\ ~em.panic /\ em.reg.result # ""
    /\ em' = [em EXCEPT !.e_result = em.reg.result, !.reg.result = "", !.e_sem = @ + 1]

\* emu_wreg, up to REG_OPER, which starts the device.
emu_wreg(s, regs) == [s EXCEPT !.reg = regs @@ @]

translate_err(code) ==
    CASE code = "SUCCESS" -> "" [] code = "BADPATH" -> "ENOENT" [] code = "EXISTS" -> "EEXIST"
      [] code = "NOHANDLES" -> "ENFILE" [] code = "MEDIA" -> "EIO" [] code = "BADHANDLE" -> "panic"

\* The thread has slept on the semaphore; then does what follows.
emu_waitdone(t, pc, Then(_, _)) ==
    /\ T(t).pc = pc /\ em.e_sem > 0
    /\ LET s == [em EXCEPT !.e_sem = @ - 1]
           result == translate_err(em.e_result)
       IN  em' = IF result = "panic" THEN [s EXCEPT !.panic = TRUE] ELSE Then(s, result)

----------------------------------------------------------------------------
(* VOP_LOOKUP and VOP_CREAT, called by vfs_lookup and vfs_open *)

Free(t) == ~em.panic /\ T(t).pc = "idle" /\ T(t).done < EmOps

\* vfs_lookup holds vfs_biglock to its end; vfs_open lets it go after
\* vfs_lookparent.  Either has a reference to the directory.
emufs_lookup(t) ==
    /\ Free(t) /\ T(t).held = {} /\ BigFree(em, t)
    /\ \E name \in EmNames :
         em' = [Set(vfs_biglock_acquire(em, t), t, [pc |-> "open", op |-> "OPEN", name |-> name])
                  EXCEPT !.vn[ef_root].refcount = @ + 1]

emufs_creat(t) ==
    /\ Free(t) /\ T(t).held = {} /\ BigFree(em, t)
    /\ \E name \in EmNames, op \in {"CREATE", "EXCLCREATE"} :
         em' = [Set(em, t, [pc |-> "open", op |-> op, name |-> name])
                  EXCEPT !.vn[ef_root].refcount = @ + 1]

emu_open(t) ==
    /\ ~em.panic /\ T(t).pc = "open" /\ em.e_lock = NoThread
    /\ em' = [emu_wreg(Set(em, t, [pc |-> "opening"]),
                       [handle |-> em.vn[ef_root].handle, iolen |-> 1, oper |-> T(t).op])
                EXCEPT !.e_lock = t, !.iobuf = <<T(t).name>>]

emu_opened(t) ==
    emu_waitdone(t, "opening", LAMBDA s, result :
        lock_release(Set(s, t, IF result = "" THEN [pc |-> "load", h |-> s.reg.handle]
                               ELSE [pc |-> "return", result |-> result])))

\* The vnode of the handle, or a new one.  When the handle cannot have one it
\* is closed again; kmalloc's failure leaves vfs_biglock taken.
emufs_loadvnode(t) ==
    /\ ~em.panic /\ T(t).pc = "load" /\ BigFree(em, t) /\ em.e_lock = NoThread
    /\ LET found == {v \in DOMAIN em.vn : em.vn[v].handle = T(t).h}
           got(s, v) == Set(s, t, [pc |-> "return", result |-> "", held |-> {v}])
           fails(s) == [Set(s, t, [pc |-> "close", result |-> "ENOMEM", mine |-> FALSE])
                          EXCEPT !.nomem = @ + 1]
       IN  \/ \E v \in found : em' = got([em EXCEPT !.vn[v].refcount = @ + 1], v)
           \/ /\ found = {}
              /\ \/ \E v \in {CHOOSE v \in EmVnodes \ DOMAIN em.vn : TRUE} :
                      em' = got([em EXCEPT !.vn = (v :> [handle |-> T(t).h, dir |-> FALSE,
                                                         refcount |-> 1]) @@ @], v)
                 \/ em.nomem < EmNoMem /\ em' = fails(em)
                 \/ em.nomem < EmNoMem /\ em' = fails(vfs_biglock_acquire(em, t))

\* VOP_DECREF of the directory, which has a reference of the file system.
emufs_return(t) ==
    /\ ~em.panic /\ T(t).pc = "return"
    /\ LET s == Finish([em EXCEPT !.vn[ef_root].refcount = @ - 1, !.th[t].done = @ + 1], t)
       IN  em' = IF T(t).op = "OPEN" THEN vfs_biglock_release(s, t) ELSE s

----------------------------------------------------------------------------
(* emu_close, and VOP_RECLAIM which calls it with the locks held *)

Closing(t) == IF T(t).op = "DECREF" THEN em.vn[T(t).v].handle ELSE T(t).h

emu_close(t) ==
    /\ ~em.panic /\ T(t).pc = "close" /\ em.e_lock \in {NoThread, t}
    /\ em' = [emu_wreg(Set(em, t, [pc |-> "closing", mine |-> em.e_lock = t]),
                       [handle |-> Closing(t), oper |-> "CLOSE"]) EXCEPT !.e_lock = t]

emu_closed(t) ==
    emu_waitdone(t, "closing", LAMBDA s, result :
        IF result = "EIO" /\ T(t).retries < EmRetries
        THEN emu_wreg(Set(s, t, [retries |-> T(t).retries + 1]),
                      [handle |-> Closing(t), oper |-> "CLOSE"])
        ELSE LET u == Set(IF result = "" THEN s ELSE [s EXCEPT !.lost = @ \cup {Closing(t)}], t,
                          [retries |-> 0, result |-> IF T(t).op = "DECREF" THEN result ELSE T(t).result,
                           pc |-> IF T(t).op = "DECREF" THEN "reclaimed" ELSE "return"])
             IN  IF T(t).mine THEN u ELSE lock_release(u))

\* The last reference is passed to VOP_RECLAIM.
vnode_decref(t) ==
    /\ Free(t)
    /\ \E v \in T(t).held :
         LET s == Set(em, t, [op |-> "DECREF", v |-> v, held |-> {}, done |-> T(t).done + 1])
         IN  em' = IF em.vn[v].refcount > 1 THEN [Finish(s, t) EXCEPT !.vn[v].refcount = @ - 1]
                   ELSE Set(s, t, [pc |-> "reclaim"])

\* Mutant: the locks are left to emu_close, which takes only its own.
ReclaimUnlocked(t) ==
    /\ ~em.panic /\ T(t).pc = "reclaim" /\ BigFree(em, t) /\ em.e_lock = NoThread
    /\ em' = IF em.vn[T(t).v].refcount > 1
             THEN [Finish(em, t) EXCEPT !.vn[T(t).v].refcount = @ - 1]
             ELSE Set(em, t, [pc |-> "close"])

emufs_reclaim(t) ==
    /\ ~em.panic /\ T(t).pc = "reclaim" /\ BigFree(em, t) /\ em.e_lock = NoThread
    /\ em' = IF em.vn[T(t).v].refcount > 1
             THEN [Finish(em, t) EXCEPT !.vn[T(t).v].refcount = @ - 1]
             ELSE [Set(vfs_biglock_acquire(em, t), t, [pc |-> "close"]) EXCEPT !.e_lock = t]

\* vnode_cleanup asserts that nobody has a reference.
emufs_reclaimed(t) ==
    /\ ~em.panic /\ T(t).pc = "reclaimed"
    /\ LET s == Finish(em, t)
           u == IF em.e_lock = t THEN vfs_biglock_release(lock_release(s), t) ELSE s
       IN  em' = IF T(t).result # "" THEN u
                 ELSE IF em.vn[T(t).v].refcount # 1 THEN [em EXCEPT !.panic = TRUE]
                 ELSE [u EXCEPT !.vn = Restrict(@, DOMAIN @ \ {T(t).v})]

\* A reference is given to another thread, as fork gives its open files.
vnode_incref(t) ==
    /\ Free(t) /\ T(t).held = {}
    /\ \E o \in EmThreads \ {t} : \E v \in T(o).held :
         /\ T(o).pc = "idle"
         /\ em' = Set([em EXCEPT !.vn[v].refcount = @ + 1], t,
                      [held |-> {v}, done |-> T(t).done + 1])

----------------------------------------------------------------------------
(* The operations on a vnode *)

\* The operations that only a directory could have, which the file system does
\* not do to one, and which are refused for a file.
NoSysOps == {"SYMLINK", "MKDIR", "LINK", "REMOVE", "RMDIR", "RENAME"}
NotDirOps == {"READDIR", "NAMEFILE", "CREAT", "LOOKUP", "LOOKPARENT"} \cup NoSysOps
IsDirOps == {"READ", "WRITE", "FSYNC", "MMAP"}
DeviceOps == {"READ", "WRITE", "GETSIZE", "TRUNC", "READDIR"}

\* What the tables of operations have for a file and for a directory.
emufs_fileops(op) ==
    CASE op \in DeviceOps \ NotDirOps -> op
      [] op = "IOCTL" -> "EINVAL" [] op = "MMAP" -> "ENOSYS" [] op = "FSYNC" -> ""
      [] op \in NotDirOps -> "ENOTDIR"
emufs_dirops(op) ==
    CASE op \in {"READDIR", "GETSIZE"} -> op
      [] op \in IsDirOps -> "EISDIR"
      [] op \in NoSysOps -> "ENOSYS"
      [] op = "TRUNC" -> "ENOTDIR" [] op = "IOCTL" -> "EINVAL" [] op = "NAMEFILE" -> ""

emufs_op(v, op) == IF em.vn[v].dir THEN emufs_dirops(op) ELSE emufs_fileops(op)

\* emufs_read, emufs_write, emufs_stat, emufs_truncate, emufs_getdirentry, on a
\* vnode that is held or on the root.
emufs_start(t) ==
    /\ Free(t)
    /\ \E v \in T(t).held \cup {ef_root}, n \in {1, EmSize},
          op \in DeviceOps \cup NoSysOps \cup IsDirOps \cup {"IOCTL", "NAMEFILE"} :
         em' = IF emufs_op(v, op) \notin DeviceOps
               THEN Set(em, t, [done |-> T(t).done + 1])
               ELSE Set(em, t, [pc |-> "rw", op |-> op, v |-> v, off |-> 0, resid |-> n,
                                done |-> T(t).done + 1])

\* emu_doread, emu_write, emu_getsize and emu_trunc: one operation, for a read
\* or write of at most EMU_MAXIO.  What a thread writes is its own.
emu_doop(t) ==
    /\ ~em.panic /\ T(t).pc = "rw" /\ em.e_lock = NoThread
    /\ LET amt == IF T(t).op = "TRUNC" THEN T(t).resid ELSE Min({T(t).resid, EMU_MAXIO})
       IN  em' = [emu_wreg(Set(em, t, [pc |-> "rwing"]),
                           [handle |-> em.vn[T(t).v].handle, iolen |-> amt, offset |-> T(t).off,
                            oper |-> T(t).op])
                    EXCEPT !.e_lock = t,
                           !.iobuf = IF T(t).op = "WRITE" THEN [i \in 1 .. amt |-> t] ELSE @]

\* A read stops when nothing was read.
emu_opdone(t) ==
    emu_waitdone(t, "rwing", LAMBDA s, result :
        LET moved == IF T(t).op = "WRITE" THEN Min({T(t).resid, EMU_MAXIO}) ELSE s.reg.iolen
            more == result = "" /\ T(t).op \in {"READ", "WRITE"} /\ moved # 0 /\ moved < T(t).resid
        IN  lock_release(IF more THEN Set(s, t, [pc |-> "rw", off |-> T(t).off + moved,
                                                 resid |-> T(t).resid - moved])
                         ELSE Finish(s, t)))

EmNext ==
    \/ device \/ emu_irq
    \/ \E t \in EmThreads :
         \/ emufs_lookup(t) \/ emufs_creat(t) \/ emu_open(t) \/ emu_opened(t)
         \/ emufs_loadvnode(t) \/ emufs_return(t) \/ emu_close(t) \/ emu_closed(t)
         \/ vnode_decref(t) \/ vnode_incref(t) \/ emufs_reclaim(t) \/ emufs_reclaimed(t)
         \/ emufs_start(t) \/ emu_doop(t) \/ emu_opdone(t)

EmSpec == EmInit /\ [][EmNext]_em

----------------------------------------------------------------------------
(* Properties *)

\* The references that threads have to a vnode.
Refs(v) ==
    Cardinality({t \in EmThreads : v \in T(t).held})
      + Cardinality({t \in EmThreads : T(t).v = v /\ T(t).pc \in {"reclaim", "close", "closing", "reclaimed"}
                                       /\ T(t).op = "DECREF"})
      + IF v = ef_root
        THEN 1 + Cardinality({t \in EmThreads : T(t).op \in {"OPEN", "CREATE", "EXCLCREATE"}
                                                /\ T(t).pc # "idle"})
        ELSE IF /\ em.vn[v].handle \in em.lost
                /\ \A t \in EmThreads : T(t).pc = "reclaimed" => T(t).v # v
        THEN 1 ELSE 0

\* The handles of threads that are between emu_open and emufs_loadvnode.
Pending == {T(t).h : t \in {t \in EmThreads : T(t).pc \in {"load", "close", "closing"}
                                              /\ T(t).op # "DECREF"}}

\* Vnodes and handles go together: no two vnodes have one handle, the handle of
\* a vnode stays open while anyone can use it, and a handle that is open has a
\* vnode or a thread that will load or close it, unless a close has failed.
\* References are exact.  What a thread finds in e_iobuf after a read is what
\* its file holds at its offset.  A thread that is not in a call holds no lock,
\* but the one that emufs_loadvnode had no memory for.
EmufsSound ==
    /\ ~em.panic
    /\ \A v \in DOMAIN em.vn :
         /\ \A w \in DOMAIN em.vn : em.vn[v].handle = em.vn[w].handle => v = w
         /\ \/ em.vn[v].handle \in DOMAIN em.open
            \/ \E t \in EmThreads : T(t).op = "DECREF" /\ T(t).v = v /\ T(t).pc \in {"closing", "reclaimed"}
         /\ em.vn[v].refcount = Refs(v)
    /\ DOMAIN em.open \subseteq {em.vn[v].handle : v \in DOMAIN em.vn} \cup Pending \cup em.lost
         \cup (IF \E t \in EmThreads : T(t).pc = "opening" THEN {em.reg.handle} ELSE {})
    /\ \A t \in EmThreads :
         /\ T(t).pc = "rwing" /\ T(t).op = "READ" /\ em.e_sem > 0 /\ em.e_result = "SUCCESS" =>
              em.iobuf = Slice(em.file[em.open[em.vn[T(t).v].handle]], T(t).off,
                               Min({T(t).resid, EMU_MAXIO}))
         /\ T(t).pc = "idle" => em.e_lock # t /\ (em.big = t => em.nomem > 0)
=============================================================================

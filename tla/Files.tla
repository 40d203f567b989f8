------------------------------- MODULE Files --------------------------------
(***************************************************************************)
(* File tables and open files: kern/syscall/filetable.c, openfile.c and    *)
(* file_syscalls.c, with the parts of fork and exit that copy and destroy  *)
(* a file table.                                                           *)
(*                                                                         *)
(* A file table belongs to one process, which has one thread, so a look    *)
(* at it is part of the step that follows.  Open files are shared across   *)
(* fork: their reference counts change one spinlock section at a time, and *)
(* their seek position is used under of_offsetlock, across the VOP call.   *)
(***************************************************************************)
EXTENDS Integers, FiniteSets

CONSTANTS
    Procs,          \* processes
    Openfiles,      \* struct openfiles
    Vnodes,
    Seekable,       \* the vnodes with VOP_ISSEEKABLE
    con,            \* the vnode of "con:"
    StdFds,         \* bound: the standard descriptors
    Modes,          \* bound: the access modes of open
    NULL,
    OPEN_MAX,
    MaxOffset       \* bound: positions and sizes

FilesAssumption ==
    /\ OPEN_MAX \in Nat /\ OPEN_MAX > 0
    /\ MaxOffset \in Nat
    /\ Seekable \subseteq Vnodes /\ con \in Vnodes
    /\ StdFds \subseteq 0 .. OPEN_MAX - 1 /\ Modes \subseteq {"RDONLY", "WRONLY", "RDWR"}
    /\ NULL \notin Openfiles \cup Vnodes \cup Procs

VARIABLES
    ft_openfiles,   \* the file table of each process
    of_vnode, of_accmode, of_offset, of_refcount,
    of_holder,      \* who holds of_offsetlock
    vn_refs,        \* references to the vnode from vfs_open
    vn_size,
    pc,             \* where each process is; "none" if it does not exist
    arg,            \* the locals of its system call
    result          \* what its last system call returned

ofVars == <<of_vnode, of_accmode, of_offset, of_refcount, of_holder>>
vnVars == <<vn_refs, vn_size>>
vars == <<ft_openfiles, ofVars, vnVars, pc, arg, result>>

Fds == 0 .. OPEN_MAX - 1

EmptyTable == [fd \in Fds |-> NULL]

\* file: the open file at hand; fd: a descriptor or loop index; pos, rw: of
\* the uio; proc: the process whose table is copied to or destroyed.
NoArg == [file |-> NULL, fd |-> 0, pos |-> 0, rw |-> "none", proc |-> NULL]

Freed(f) == of_refcount[f] = 0

FreeFiles == {f \in Openfiles : Freed(f)}

IsSeekable(f) == of_vnode[f] \in Seekable

Init ==
    /\ ft_openfiles = [p \in Procs |-> EmptyTable]
    /\ of_vnode = [f \in Openfiles |-> NULL]
    /\ of_accmode = [f \in Openfiles |-> "RDWR"]
    /\ of_offset = [f \in Openfiles |-> 0]
    /\ of_refcount = [f \in Openfiles |-> 0]
    /\ of_holder = [f \in Openfiles |-> NULL]
    /\ vn_refs = [v \in Vnodes |-> 0]
    /\ vn_size = [v \in Vnodes |-> 0]
    /\ pc = [p \in Procs |-> "none"]
    /\ arg = [p \in Procs |-> NoArg]
    /\ result = [p \in Procs |-> "ok"]

----------------------------------------------------------------------------
(* Steps that several system calls take *)

\* Back to user mode with result r.
Return(p, r) ==
    /\ pc' = [pc EXCEPT ![p] = "user"]
    /\ arg' = [arg EXCEPT ![p] = NoArg]
    /\ result' = [result EXCEPT ![p] = r]

\* On to openfile_decref(f), then to return r.
Drop(p, f, r) ==
    /\ pc' = [pc EXCEPT ![p] = "decref"]
    /\ arg' = [arg EXCEPT ![p] = [NoArg EXCEPT !.file = f]]
    /\ result' = [result EXCEPT ![p] = r]

\* After openfile_decref: filetable_destroy clears the entry and goes on with
\* the next descriptor.
Dropped(p) ==
    /\ IF arg[p].proc = NULL
       THEN /\ pc' = [pc EXCEPT ![p] = "user"]
            /\ arg' = [arg EXCEPT ![p] = NoArg]
            /\ UNCHANGED ft_openfiles
       ELSE /\ pc' = [pc EXCEPT ![p] = "destroy_table"]
            /\ arg' = [arg EXCEPT ![p].file = NULL, ![p].fd = @ + 1]
            /\ ft_openfiles' = [ft_openfiles EXCEPT ![arg[p].proc][arg[p].fd] = NULL]
    /\ UNCHANGED result

\* openfile_decref up to the release of of_reflock.
openfile_decref(p) ==
    LET f == arg[p].file
    IN  /\ pc[p] = "decref"
        /\ \/ /\ of_refcount[f] = 1
              /\ pc' = [pc EXCEPT ![p] = "destroy_file"]
              /\ UNCHANGED <<ft_openfiles, of_refcount, arg, result>>
           \/ /\ of_refcount[f] > 1
              /\ of_refcount' = [of_refcount EXCEPT ![f] = @ - 1]
              /\ Dropped(p)
        /\ UNCHANGED <<of_vnode, of_accmode, of_offset, of_holder, vnVars>>

DestroyFile(p, closed) ==
    LET f == arg[p].file
    IN  /\ pc[p] = "destroy_file"
        /\ vn_refs' = [vn_refs EXCEPT ![of_vnode[f]] = @ - closed]
        /\ of_vnode' = [of_vnode EXCEPT ![f] = NULL]
        /\ of_accmode' = [of_accmode EXCEPT ![f] = "RDWR"]
        /\ of_offset' = [of_offset EXCEPT ![f] = 0]
        /\ of_refcount' = [of_refcount EXCEPT ![f] = 0]
        /\ Dropped(p)
        /\ UNCHANGED <<of_holder, vn_size>>

openfile_destroy(p) == DestroyFile(p, 1)

----------------------------------------------------------------------------
(* System calls *)

\* A call that fails with nothing changed: vfs_open or an allocation of open,
\* an allocation of fork before any table entry is copied.
Fails(p, error) ==
    /\ pc[p] = "user"
    /\ Return(p, error)
    /\ UNCHANGED <<ft_openfiles, ofVars, vnVars>>

\* The menu starts a program: a process with a new table and the standard
\* descriptors open on the console as files c, or only those of opened if the next
\* one cannot be opened, and then the process exits.  Nobody else has a reference
\* to any of this.
runprogram(p, opened, c) ==
    /\ pc[p] = "none"
    /\ \A i, j \in opened : c[i] = c[j] => i = j
    /\ \A q \in Procs : arg[q].proc # p
    /\ LET new == {c[fd] : fd \in opened}
       IN  /\ ft_openfiles' = [ft_openfiles EXCEPT ![p] =
                 [fd \in Fds |-> IF fd \in opened THEN c[fd] ELSE NULL]]
           /\ of_vnode' = [f \in Openfiles |-> IF f \in new THEN con ELSE of_vnode[f]]
           /\ of_accmode' = [f \in Openfiles |->
                 IF f \notin new THEN of_accmode[f]
                 ELSE IF f = c[0] THEN "RDONLY" ELSE "WRONLY"]
           /\ of_refcount' = [f \in Openfiles |-> IF f \in new THEN 1 ELSE of_refcount[f]]
           /\ vn_refs' = [vn_refs EXCEPT ![con] = @ + Cardinality(opened)]
    /\ IF opened = StdFds
       THEN pc' = [pc EXCEPT ![p] = "user"] /\ UNCHANGED arg
       ELSE /\ pc' = [pc EXCEPT ![p] = "destroy_table"]
            /\ arg' = [arg EXCEPT ![p] = [NoArg EXCEPT !.proc = p]]
    /\ UNCHANGED <<of_offset, of_holder, vn_size, result>>

\* sys_open: openfile_open, which may truncate the file, then filetable_place
\* in the smallest free descriptor.
sys_open(p, v, m, trunc, f) ==
    LET free == {fd \in Fds : ft_openfiles[p][fd] = NULL}
    IN  /\ pc[p] = "user"
        /\ f \in FreeFiles
        /\ trunc => m # "RDONLY"
        /\ vn_size' = IF trunc THEN [vn_size EXCEPT ![v] = 0] ELSE vn_size
        /\ of_vnode' = [of_vnode EXCEPT ![f] = v]
        /\ of_accmode' = [of_accmode EXCEPT ![f] = m]
        /\ of_offset' = [of_offset EXCEPT ![f] = 0]
        /\ of_refcount' = [of_refcount EXCEPT ![f] = 1]
        /\ vn_refs' = [vn_refs EXCEPT ![v] = @ + 1]
        /\ \/ /\ free # {}
              /\ ft_openfiles' = [ft_openfiles EXCEPT
                    ![p][CHOOSE fd \in free : \A e \in free : fd <= e] = f]
              /\ Return(p, "ok")
           \/ /\ free = {}
              /\ Drop(p, f, "EMFILE")
              /\ UNCHANGED ft_openfiles
        /\ UNCHANGED of_holder

\* A call that finds no open file for its descriptor.
BadFd(p, fd) ==
    /\ pc[p] = "user"
    /\ ft_openfiles[p][fd] = NULL
    /\ Return(p, "EBADF")
    /\ UNCHANGED <<ft_openfiles, ofVars, vnVars>>

sys_close(p, fd) ==
    /\ pc[p] = "user"
    /\ ft_openfiles[p][fd] # NULL
    /\ ft_openfiles' = [ft_openfiles EXCEPT ![p][fd] = NULL]
    /\ Drop(p, ft_openfiles[p][fd], "ok")
    /\ UNCHANGED <<ofVars, vnVars>>

\* dup2 of a descriptor onto itself succeeds before it is looked up.
sys_dup2_self(p, fd) ==
    /\ pc[p] = "user"
    /\ Return(p, "ok")
    /\ UNCHANGED <<ft_openfiles, ofVars, vnVars>>

sys_dup2(p, oldfd, newfd) ==
    LET oldfile == ft_openfiles[p][oldfd]
        newfile == ft_openfiles[p][newfd]
    IN  /\ pc[p] = "user"
        /\ oldfd # newfd
        /\ oldfile # NULL
        /\ of_refcount' = [of_refcount EXCEPT ![oldfile] = @ + 1]
        /\ ft_openfiles' = [ft_openfiles EXCEPT ![p][newfd] = oldfile]
        /\ IF newfile = NULL THEN Return(p, "ok") ELSE Drop(p, newfile, "ok")
        /\ UNCHANGED <<of_vnode, of_accmode, of_offset, of_holder, vnVars>>

\* filetable_get, then of_offsetlock if the object is seekable; next is where
\* the call goes on.
GetFile(p, fd, next, rw) ==
    LET f == ft_openfiles[p][fd]
    IN  /\ pc[p] = "user"
        /\ f # NULL
        /\ pc' = [pc EXCEPT ![p] = next]
        /\ arg' = [arg EXCEPT ![p] =
                      [NoArg EXCEPT !.file = f, !.rw = rw,
                          !.pos = IF IsSeekable(f) THEN of_offset[f] ELSE 0]]
        /\ UNCHANGED <<ft_openfiles, of_vnode, of_accmode, of_offset,
                       of_refcount, vnVars, result>>

Lock(p, f) ==
    /\ of_holder[f] = NULL
    /\ of_holder' = [of_holder EXCEPT ![f] = p]

Unlock(f) == of_holder' = [of_holder EXCEPT ![f] = NULL]

sys_readwrite(p, fd, rw) ==
    /\ GetFile(p, fd, "rw", rw)
    /\ IF IsSeekable(ft_openfiles[p][fd])
       THEN Lock(p, ft_openfiles[p][fd]) ELSE UNCHANGED of_holder

\* The mode that of_accmode must not be.
badaccmode(rw) == IF rw = "read" THEN "WRONLY" ELSE "RDONLY"

\* A write that gets as far as position end.
Extend(f, end) ==
    vn_size' = [vn_size EXCEPT ![of_vnode[f]] =
                   IF IsSeekable(f) /\ end > @ THEN end ELSE @]

Moves(p) == of_accmode[arg[p].file] # badaccmode(arg[p].rw)

\* EBADF for the wrong mode.
RwMode(p) ==
    LET f == arg[p].file
    IN  /\ pc[p] = "rw"
        /\ ~Moves(p)
        /\ IF IsSeekable(f) THEN Unlock(f) ELSE UNCHANGED of_holder
        /\ Return(p, "EBADF")
        /\ UNCHANGED <<ft_openfiles, of_vnode, of_accmode, of_offset,
                       of_refcount, vnVars>>

\* VOP_READ or VOP_WRITE moves n bytes and fails: what a write has added stays,
\* the seek position is the old one.
RwError(p, n) ==
    LET f == arg[p].file
    IN  /\ pc[p] = "rw"
        /\ Moves(p)
        /\ arg[p].pos + n <= MaxOffset
        /\ IF arg[p].rw = "write" /\ n > 0
           THEN Extend(f, arg[p].pos + n) ELSE UNCHANGED vn_size
        /\ IF IsSeekable(f) THEN Unlock(f) ELSE UNCHANGED of_holder
        /\ Return(p, "EIO")
        /\ UNCHANGED <<ft_openfiles, of_vnode, of_accmode, of_offset,
                       of_refcount, vn_refs>>

\* VOP_READ or VOP_WRITE moves n bytes; a read stops at the end of the file.
Vop(p, n) ==
    LET f == arg[p].file
        end == arg[p].pos + n
    IN  /\ pc[p] = "rw"
        /\ Moves(p)
        /\ end <= MaxOffset
        /\ \/ /\ arg[p].rw = "read"
              /\ n = 0 \/ end <= vn_size[of_vnode[f]] \/ ~IsSeekable(f)
              /\ UNCHANGED vn_size
           \/ /\ arg[p].rw = "write"
              /\ IF n > 0 THEN Extend(f, end) ELSE UNCHANGED vn_size
        /\ IF IsSeekable(f)
           THEN /\ pc' = [pc EXCEPT ![p] = "offset"]
                /\ arg' = [arg EXCEPT ![p].pos = end]
                /\ UNCHANGED result
           ELSE Return(p, "ok")
        /\ UNCHANGED <<ft_openfiles, ofVars, vn_refs>>

\* of_offset becomes the uio's offset.
RwDone(p) ==
    LET f == arg[p].file
    IN  /\ pc[p] = "offset"
        /\ of_offset' = [of_offset EXCEPT ![f] = arg[p].pos]
        /\ Unlock(f)
        /\ Return(p, "ok")
        /\ UNCHANGED <<ft_openfiles, of_vnode, of_accmode, of_refcount, vnVars>>

\* Mutant: the seek position is not locked.
LseekUnlocked(p, fd) ==
    /\ ft_openfiles[p][fd] # NULL /\ IsSeekable(ft_openfiles[p][fd])
    /\ GetFile(p, fd, "seek", "none")
    /\ UNCHANGED of_holder

sys_lseek(p, fd) ==
    /\ ft_openfiles[p][fd] # NULL /\ IsSeekable(ft_openfiles[p][fd])
    /\ GetFile(p, fd, "seek", "none")
    /\ Lock(p, ft_openfiles[p][fd])

LseekEspipe(p, fd) ==
    /\ pc[p] = "user"
    /\ ft_openfiles[p][fd] # NULL /\ ~IsSeekable(ft_openfiles[p][fd])
    /\ Return(p, "ESPIPE")
    /\ UNCHANGED <<ft_openfiles, ofVars, vnVars>>

\* SEEK_SET, SEEK_CUR and SEEK_END.
SeekBases(f) == {0, of_offset[f], vn_size[of_vnode[f]]}

\* Mutant: negative positions are accepted.
SeekAnywhere(pos) == TRUE

SeekOk(pos) == pos >= 0

LseekDone(p, offset, base) ==
    LET f == arg[p].file
        pos == base + offset
    IN  /\ pc[p] = "seek"
        /\ base \in SeekBases(f)
        /\ pos <= MaxOffset
        /\ Unlock(f)
        /\ IF SeekOk(pos)
           THEN of_offset' = [of_offset EXCEPT ![f] = pos] /\ Return(p, "ok")
           ELSE UNCHANGED of_offset /\ Return(p, "EINVAL")
        /\ UNCHANGED <<ft_openfiles, of_vnode, of_accmode, of_refcount, vnVars>>

\* VOP_STAT fails, or whence is none of the three.
LseekFail(p, error) ==
    /\ pc[p] = "seek"
    /\ Unlock(arg[p].file)
    /\ Return(p, error)
    /\ UNCHANGED <<ft_openfiles, of_vnode, of_accmode, of_offset, of_refcount,
                   vnVars>>

----------------------------------------------------------------------------
(* fork and exit *)

sys_fork(p, q) ==
    /\ pc[p] = "user" /\ pc[q] = "none"
    /\ pc' = [pc EXCEPT ![p] = "copy_table", ![q] = "new"]
    /\ arg' = [arg EXCEPT ![p] = [NoArg EXCEPT !.proc = q]]
    /\ UNCHANGED <<ft_openfiles, ofVars, vnVars, result>>

CopyEntry(p, refs) ==
    LET fd == arg[p].fd
        f == ft_openfiles[p][fd]
    IN  /\ pc[p] = "copy_table"
        /\ fd < OPEN_MAX
        /\ ft_openfiles' = [ft_openfiles EXCEPT ![arg[p].proc][fd] = f]
        /\ of_refcount' = IF f = NULL THEN of_refcount
                          ELSE [of_refcount EXCEPT ![f] = @ + refs]
        /\ arg' = [arg EXCEPT ![p].fd = @ + 1]
        /\ UNCHANGED <<of_vnode, of_accmode, of_offset, of_holder, vnVars, pc,
                       result>>

\* Mutant: the child's table takes no references.
CopyNoRef(p) == CopyEntry(p, 0)

\* One turn of the loop of filetable_copy.
filetable_copy(p) == CopyEntry(p, 1)

\* thread_fork succeeds and the child runs.
ForkDone(p) ==
    /\ pc[p] = "copy_table"
    /\ arg[p].fd = OPEN_MAX
    /\ pc' = [pc EXCEPT ![p] = "user", ![arg[p].proc] = "user"]
    /\ arg' = [arg EXCEPT ![p] = NoArg]
    /\ result' = [result EXCEPT ![p] = "ok", ![arg[p].proc] = "ok"]
    /\ UNCHANGED <<ft_openfiles, ofVars, vnVars>>

\* thread_fork fails: proc_unfork destroys the table of the child.
ForkUndo(p) ==
    /\ pc[p] = "copy_table"
    /\ arg[p].fd = OPEN_MAX
    /\ pc' = [pc EXCEPT ![p] = "destroy_table"]
    /\ arg' = [arg EXCEPT ![p].fd = 0]
    /\ result' = [result EXCEPT ![p] = "ENOMEM"]
    /\ UNCHANGED <<ft_openfiles, ofVars, vnVars>>

\* proc_destroy of an exiting process destroys its table.
proc_exit(p) ==
    /\ pc[p] = "user"
    /\ pc' = [pc EXCEPT ![p] = "destroy_table"]
    /\ arg' = [arg EXCEPT ![p] = [NoArg EXCEPT !.proc = p]]
    /\ UNCHANGED <<ft_openfiles, ofVars, vnVars, result>>

\* One turn of the loop of filetable_destroy, and its end.
filetable_destroy(p) ==
    LET q == arg[p].proc
        fd == arg[p].fd
    IN  /\ pc[p] = "destroy_table"
        /\ \/ /\ fd < OPEN_MAX
              /\ IF ft_openfiles[q][fd] = NULL
                 THEN /\ arg' = [arg EXCEPT ![p].fd = @ + 1]
                      /\ UNCHANGED pc
                 ELSE /\ arg' = [arg EXCEPT ![p].file = ft_openfiles[q][fd]]
                      /\ pc' = [pc EXCEPT ![p] = "decref"]
              /\ UNCHANGED result
           \/ /\ fd = OPEN_MAX
              /\ pc' = [pc EXCEPT ![p] = "user", ![q] = "none"]
              /\ arg' = [arg EXCEPT ![p] = NoArg]
              /\ result' = [result EXCEPT ![q] = "ok"]
        /\ UNCHANGED <<ft_openfiles, ofVars, vnVars>>

----------------------------------------------------------------------------
Next ==
    \E p \in Procs :
        \/ \E n \in 0 .. Cardinality(StdFds) :
              \E c \in [{fd \in StdFds : fd < n} -> FreeFiles] : runprogram(p, DOMAIN c, c)
        \/ \E error \in {"ENOENT", "ENOMEM"} : Fails(p, error)
        \/ \E v \in Vnodes, m \in Modes, trunc \in BOOLEAN, f \in FreeFiles :
              sys_open(p, v, m, trunc, f)
        \/ \E fd \in Fds :
              \/ BadFd(p, fd) \/ sys_close(p, fd) \/ sys_dup2_self(p, fd)
              \/ sys_lseek(p, fd) \/ LseekEspipe(p, fd)
              \/ \E rw \in {"read", "write"} : sys_readwrite(p, fd, rw)
              \/ \E newfd \in Fds : sys_dup2(p, fd, newfd)
        \/ RwMode(p) \/ RwDone(p)
        \/ \E n \in 0 .. MaxOffset : Vop(p, n) \/ RwError(p, n)
        \/ \E offset \in -1 .. 1, base \in 0 .. MaxOffset : LseekDone(p, offset, base)
        \/ \E error \in {"EIO", "EINVAL"} : LseekFail(p, error)
        \/ openfile_decref(p) \/ openfile_destroy(p)
        \/ \E q \in Procs : sys_fork(p, q)
        \/ filetable_copy(p) \/ ForkDone(p) \/ ForkUndo(p)
        \/ proc_exit(p) \/ filetable_destroy(p)

Spec == Init /\ [][Next]_vars

----------------------------------------------------------------------------
(* Properties *)

Results == {"ok", "ENOENT", "EBADF", "EMFILE", "ESPIPE", "EINVAL", "EIO", "ENOMEM"}

TypeOK ==
    /\ ft_openfiles \in [Procs -> [Fds -> Openfiles \cup {NULL}]]
    /\ of_vnode \in [Openfiles -> Vnodes \cup {NULL}]
    /\ of_accmode \in [Openfiles -> {"RDONLY", "WRONLY", "RDWR"}]
    /\ of_offset \in [Openfiles -> 0 .. MaxOffset]
    /\ of_refcount \in [Openfiles -> Nat]
    /\ of_holder \in [Openfiles -> Procs \cup {NULL}]
    /\ vn_refs \in [Vnodes -> Nat]
    /\ vn_size \in [Vnodes -> 0 .. MaxOffset]
    /\ pc \in [Procs -> {"none", "new", "user", "rw", "offset", "seek", "decref",
                         "destroy_file", "copy_table", "destroy_table"}]
    /\ arg \in [Procs -> [file : Openfiles \cup {NULL}, fd : 0 .. OPEN_MAX,
                          pos : 0 .. MaxOffset, rw : {"none", "read", "write"},
                          proc : Procs \cup {NULL}]]
    /\ result \in [Procs -> Results]

\* The reference count of an open file is the number of descriptors it has in
\* all processes, plus the openfile_decrefs of close, dup2 and open on their
\* way: it is never freed
\* while a table refers to it and never leaked, whatever happens in between
\* the steps of fork, exit, close and dup2.
RefcountExact ==
    \A f \in Openfiles :
        of_refcount[f] =
            Cardinality({x \in Procs \X Fds : ft_openfiles[x[1]][x[2]] = f})
            + Cardinality({p \in Procs : /\ pc[p] \in {"decref", "destroy_file"}
                                         /\ arg[p].file = f /\ arg[p].proc = NULL})

\* Every vfs_open is balanced by one vfs_close: a vnode has one reference for
\* each open file on it.
VnodeBalanced ==
    \A v \in Vnodes :
        vn_refs[v] = Cardinality({f \in Openfiles : ~Freed(f) /\ of_vnode[f] = v})

\* From the moment a call reads the seek position of a shared open file until
\* it writes it back nobody else changes it: reads and writes of processes
\* that share it through fork never overlap or leave a gap.
OffsetStable ==
    \A p \in Procs :
        pc[p] \in {"rw", "seek"} /\ IsSeekable(arg[p].file) =>
            /\ of_offset[arg[p].file] = arg[p].pos
            /\ of_holder[arg[p].file] = p
=============================================================================

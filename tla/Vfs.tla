-------------------------------- MODULE Vfs ---------------------------------
(***************************************************************************)
(* The VFS layer: the device list (kern/vfs/vfslist.c), name translation   *)
(* (vfslookup.c, vfspath.c), current directories (vfscwd.c) and device     *)
(* vnodes (device.c).                                                      *)
(*                                                                         *)
(* Name translation and the operations on the device list run under        *)
(* vfs_biglock and are steps; a call such as open() is several of them,    *)
(* with the vnodes it has in hand in between.  A file system is what this  *)
(* layer needs of it: a root directory that may hold one file, "f", and    *)
(* the refusal to be unmounted while one of its vnodes is in use.          *)
(***************************************************************************)
EXTENDS Naturals, Sequences, SequencesExt, FiniteSets, FiniteSetsExt, Outcome

CONSTANTS
    VfsProcs,
    VfsAutoconf,    \* the devices, in the order they are attached:
                    \* records of name, rawname, volname, hardwired
    VfsFlags,       \* the flags of open() enumerated: creat, excl, trunc, write
    VfsMaxOpen      \* bound: open files of a process

VfsDevices == {VfsAutoconf[i] : i \in DOMAIN VfsAutoconf}

VfsAssumption ==
    \A d \in VfsDevices : d.hardwired => d.rawname = ""

VARIABLES
    vfs,            \* what vfs_biglock and the vnode counts protect
    vfsPc,          \* where each process is in its call
    vfsHeld         \* the vnodes that call has in its local variables

vfsVars == <<vfs, vfsPc, vfsHeld>>

None == "none"
VNode(d, what) == <<d.name, what>>
Vnodes == {VNode(d, w) : d \in VfsDevices, w \in {"dev", "root", "f"}}
NoVnode == <<None, None>>

\* knowndevs in the order of the list; mounted: the devices with a kd_fs;
\* exists: the file systems whose root has "f"; open: a process's open vnodes.
VfsInit ==
    /\ vfs = [knowndevs |-> <<>>, mounted |-> {}, exists |-> {}, panic |-> "",
              ref |-> [v \in Vnodes |-> 0], bootfs |-> NoVnode,
              cwd |-> [p \in VfsProcs |-> NoVnode], open |-> [p \in VfsProcs |-> <<>>]]
    /\ vfsPc = [p \in VfsProcs |-> <<"idle">>]
    /\ vfsHeld = [p \in VfsProcs |-> <<>>]

IncRef(s, v) == [s EXCEPT !.ref[v] = @ + 1]

DecRef(s, v) == [s EXCEPT !.ref[v] = @ - 1]

\* The file system a vnode is in; "none" for a device.
FsOf(v) == IF v[2] = "dev" THEN None ELSE v[1]

----------------------------------------------------------------------------
(* The device list *)

Known(s) == {s.knowndevs[i] : i \in DOMAIN s.knowndevs}

NamesOf(s, d) ==
    ({d.name, d.rawname} \cup IF d.name \in s.mounted THEN {d.volname} ELSE {}) \ {""}

badnames(s, names) == \E d \in Known(s) : NamesOf(s, d) \cap names # {}

\* A device, or a file system that is its own device.
vfs_doadd(s, d) ==
    LET t == [s EXCEPT !.mounted = IF d.hardwired THEN @ \cup {d.name} ELSE @]
    IN  IF badnames(s, NamesOf(t, d)) THEN Err(s, "EEXIST")
        ELSE Ok([t EXCEPT !.knowndevs = Append(@, d), !.ref[VNode(d, "dev")] = 1], 0)

findmount(s, name) == {d \in Known(s) : d.rawname # "" /\ d.name = name}

vfs_mount(s, d) ==
    IF findmount(s, d.name) = {} THEN Err(s, "ENODEV")
    ELSE IF d.name \in s.mounted THEN Err(s, "EBUSY")
    ELSE Ok([s EXCEPT !.mounted = @ \cup {d.name}], 0) \cup Err(s, "EIO")

\* FSOP_UNMOUNT.
Busy(s, d) == s.ref[VNode(d, "root")] + s.ref[VNode(d, "f")] > 0

vfs_unmount(s, d) ==
    IF findmount(s, d.name) = {} THEN Err(s, "ENODEV")
    ELSE IF d.name \notin s.mounted THEN Err(s, "EINVAL")
    ELSE IF Busy(s, d) THEN Err(s, "EBUSY")
    ELSE Ok([s EXCEPT !.mounted = @ \ {d.name}], 0) \cup Err(s, "EIO")

\* The busy ones stay, and those whose sync fails twice.
vfs_unmountall(s) ==
    LET may == {n \in s.mounted : \E d \in Known(s) :
                  d.name = n /\ d.rawname # "" /\ ~Busy(s, d)}
    IN  UNION {Ok([s EXCEPT !.mounted = @ \ gone], 0) : gone \in SUBSET may}

\* The first entry that answers to the name.
vfs_getroot(s, name) ==
    LET hits == {i \in DOMAIN s.knowndevs : name \in NamesOf(s, s.knowndevs[i])}
        d == s.knowndevs[Min(hits)]
    IN  IF hits = {} THEN Err(s, "ENODEV")
        ELSE IF d.name \in s.mounted /\ name \in {d.name, d.volname}
             THEN Ok(IncRef(s, VNode(d, "root")), VNode(d, "root"))
        ELSE IF name = d.name /\ d.rawname # "" THEN Err(s, "ENXIO")
        ELSE Ok(IncRef(s, VNode(d, "dev")), VNode(d, "dev"))

----------------------------------------------------------------------------
(* Names *)

\* A path: where it starts (the current directory, "/", ":" or a device) and the
\* rest, which is empty or the name of the file.
VfsPaths ==
    [start : {"cwd", "boot", "root"}, dev : {""}, sub : {"", "f"}] \cup
    [start : {"dev"}, dev : UNION {{d.name, d.rawname, d.volname} : d \in VfsDevices} \ {""},
     sub : {"", "f"}]

vfs_getcurdir(s, p) ==
    IF s.cwd[p] = NoVnode THEN Err(s, "ENOENT") ELSE Ok(IncRef(s, s.cwd[p]), s.cwd[p])

getdevice(s, p, path) ==
    CASE path.start = "cwd" -> vfs_getcurdir(s, p)
      [] path.start = "dev" -> vfs_getroot(s, path.dev)
      [] path.start = "boot" -> IF s.bootfs = NoVnode THEN Err(s, "ENOENT")
                                ELSE Ok(IncRef(s, s.bootfs), s.bootfs)
      [] path.start = "root" ->
           Then(vfs_getcurdir(s, p), LAMBDA t, v :
             IF FsOf(v) = None THEN Panic(t, "vn->vn_fs!=NULL")
             ELSE Ok(DecRef(IncRef(t, <<v[1], "root">>), v), <<v[1], "root">>))

\* VOP_LOOKUP and VOP_LOOKPARENT of a file system and of a device.
VOP_LOOKUP(s, v) ==
    IF v[2] = "root" /\ v[1] \in s.exists
    THEN Ok(IncRef(s, <<v[1], "f">>), <<v[1], "f">>) ELSE Err(s, "ENOENT")

VOP_LOOKPARENT(s, v) ==
    IF v[2] = "root" THEN Ok(IncRef(s, v), v) ELSE Err(s, "ENOTDIR")

vfs_lookup(s, p, path) ==
    Then(getdevice(s, p, path), LAMBDA t, v :
      IF path.sub = "" THEN Ok(t, v)
      ELSE Either(VOP_LOOKUP(t, v), LAMBDA u, e, w :
             IF e = "" THEN Ok(DecRef(u, v), w) ELSE Err(DecRef(u, v), e)))

\* Mutant: the first vnode is given back only on success.
LookparentLeaks(s, p, path) ==
    Then(getdevice(s, p, path), LAMBDA t, v :
      IF path.sub = "" THEN Err(t, "EINVAL")
      ELSE Then(VOP_LOOKPARENT(t, v), LAMBDA u, w : Ok(DecRef(u, v), w)))

vfs_lookparent(s, p, path) ==
    Then(getdevice(s, p, path), LAMBDA t, v :
      IF path.sub = "" THEN Err(DecRef(t, v), "EINVAL")
      ELSE Either(VOP_LOOKPARENT(t, v), LAMBDA u, e, w :
             IF e = "" THEN Ok(DecRef(u, v), w) ELSE Err(DecRef(u, v), e)))

vfs_setcurdir(s, p, v) ==
    IF v[2] # "root" THEN Err(s, "ENOTDIR")
    ELSE LET t == [IncRef(s, v) EXCEPT !.cwd[p] = v]
         IN  Ok(IF s.cwd[p] = NoVnode THEN t ELSE DecRef(t, s.cwd[p]), 0)

\* chdir() within one critical section.
chdir_locked(s, p, path) ==
    Then(vfs_lookup(s, p, path), LAMBDA t, v :
      Either(vfs_setcurdir(t, p, v), LAMBDA u, e, x : Err(DecRef(u, v), e)))

vfs_clearcurdir(s, p) ==
    IF s.cwd[p] = NoVnode THEN s
    ELSE [DecRef(s, s.cwd[p]) EXCEPT !.cwd[p] = NoVnode]

change_bootfs(s, v) ==
    [IF s.bootfs = NoVnode THEN s ELSE DecRef(s, s.bootfs) EXCEPT !.bootfs = v]

\* The current directory becomes the root of the file system, then the boot file
\* system.  A name with a colon, even at its end, is refused.
vfs_setbootfs(s, p, name, colon) ==
    Either(chdir_locked(s, p, [start |-> "dev", dev |-> name, sub |-> ""]), LAMBDA t, e, x :
      IF colon THEN Err(s, "EINVAL")
      ELSE IF e # "" THEN Err(t, e)
      ELSE Then(vfs_getcurdir(t, p), LAMBDA u, v : Ok(change_bootfs(u, v), 0)))

----------------------------------------------------------------------------
(* Calls on paths *)

\* VOP_CREAT, VOP_REMOVE, VOP_LINK and VOP_RENAME of the file system.
VOP_CREAT(s, dir, excl) ==
    IF excl /\ dir[1] \in s.exists THEN Err(s, "EEXIST")
    ELSE Ok(IncRef([s EXCEPT !.exists = @ \cup {dir[1]}], <<dir[1], "f">>), <<dir[1], "f">>)

VOP_REMOVE(s, dir) ==
    IF dir[1] \in s.exists THEN Ok([s EXCEPT !.exists = @ \ {dir[1]}], 0)
    ELSE Err(s, "ENOENT")

\* VOP_EACHOPEN and, if asked for, VOP_TRUNCATE: a directory can only be read, a
\* device cannot be truncated.
MayOpen(v, flags) ==
    /\ v[2] = "root" => ~flags.write
    /\ v[2] = "dev" => ~flags.creat /\ ~flags.trunc
    /\ flags.trunc => flags.write

Idle(p) == vfs.panic = "" /\ vfsPc[p] = <<"idle">>

\* The call of p goes on at label with held, or is over.
Continue(p, s, label, held) ==
    /\ vfs' = s
    /\ vfsPc' = [vfsPc EXCEPT ![p] = label]
    /\ vfsHeld' = [vfsHeld EXCEPT ![p] = held]

\* A call of one step.
AtOnce(p, R) == Idle(p) /\ \E r \in R : Continue(p, r.s, <<"idle">>, <<>>)

\* The first lookup of a call; its vnode is in hand at label.
Begin(p, R, label) ==
    Idle(p) /\ \E r \in R : IF r.err = "" THEN Continue(p, r.s, label, <<r.v[1]>>)
                            ELSE Continue(p, r.s, <<"idle">>, <<>>)

DropAll(s, held) == FoldLeft(DecRef, s, held)

\* vfs_open without O_CREAT.
open_lookup(p, path, flags) ==
    /\ ~flags.creat
    /\ Len(vfs.open[p]) < VfsMaxOpen
    /\ Begin(p, vfs_lookup(vfs, p, path), <<"opened", flags>>)

\* vfs_open with O_CREAT: the directory, then the file.
open_lookparent(p, path, flags) ==
    /\ flags.creat
    /\ Len(vfs.open[p]) < VfsMaxOpen
    /\ Begin(p, vfs_lookparent(vfs, p, path), <<"creat", flags>>)

open_creat(p) ==
    LET dir == vfsHeld[p][1]
    IN  /\ vfsPc[p][1] = "creat"
        /\ \E r \in VOP_CREAT(vfs, dir, vfsPc[p][2].excl) :
             IF r.err = "" THEN Continue(p, DecRef(r.s, dir), <<"opened", vfsPc[p][2]>>, r.v)
             ELSE Continue(p, DecRef(r.s, dir), <<"idle">>, <<>>)

vfs_open(p) ==
    LET v == vfsHeld[p][1]
    IN  /\ vfsPc[p][1] = "opened"
        /\ IF MayOpen(v, vfsPc[p][2])
           THEN Continue(p, [vfs EXCEPT !.open[p] = Append(@, v)], <<"idle">>, <<>>)
           ELSE Continue(p, DecRef(vfs, v), <<"idle">>, <<>>)

vfs_close(p) ==
    /\ Idle(p)
    /\ vfs.open[p] # <<>>
    /\ Continue(p, DecRef([vfs EXCEPT !.open[p] = Tail(@)], Head(vfs.open[p])), <<"idle">>, <<>>)

\* remove, and the calls that no file system here supports (mkdir, rmdir,
\* symlink): the directory, the operation, the reference back.
remove_lookparent(p, path) == Begin(p, vfs_lookparent(vfs, p, path), <<"remove">>)

vfs_remove(p) ==
    /\ vfsPc[p][1] = "remove"
    /\ \E r \in VOP_REMOVE(vfs, vfsHeld[p][1]) \cup Err(vfs, "ENOSYS") :
         Continue(p, DecRef(r.s, vfsHeld[p][1]), <<"idle">>, <<>>)

\* link and rename: a file or a directory, then the directory of the new name.
rename_old(p, path) ==
    Begin(p, vfs_lookup(vfs, p, path) \cup vfs_lookparent(vfs, p, path), <<"new">>)

rename_new(p, path) ==
    LET old == vfsHeld[p][1]
    IN  /\ vfsPc[p][1] = "new"
        /\ \E r \in vfs_lookparent(vfs, p, path) :
             IF r.err = "" THEN Continue(p, r.s, <<"both">>, <<old, r.v[1]>>)
             ELSE Continue(p, DecRef(r.s, old), <<"idle">>, <<>>)

\* Across file systems it is EXDEV; otherwise the operation succeeds or fails.
vfs_rename(p) ==
    /\ vfsPc[p][1] = "both"
    /\ Continue(p, DropAll(vfs, vfsHeld[p]), <<"idle">>, <<>>)

chdir_lookup(p, path) == Begin(p, vfs_lookup(vfs, p, path), <<"chdir">>)

vfs_chdir(p) ==
    /\ vfsPc[p][1] = "chdir"
    /\ \E r \in vfs_setcurdir(vfs, p, vfsHeld[p][1]) :
         Continue(p, DecRef(r.s, vfsHeld[p][1]), <<"idle">>, <<>>)

vfs_getcwd(p) == Begin(p, vfs_getcurdir(vfs, p), <<"getcwd">>)

getcwd_done(p) ==
    /\ vfsPc[p][1] = "getcwd"
    /\ IF FsOf(vfsHeld[p][1]) = None
       THEN Continue(p, [vfs EXCEPT !.panic = "cwd->vn_fs != NULL"], <<"idle">>, vfsHeld[p])
       ELSE Continue(p, DecRef(vfs, vfsHeld[p][1]), <<"idle">>, <<>>)

VfsNext ==
    \E p \in VfsProcs :
      \/ \E i \in 1..Min({Len(vfs.knowndevs) + 1, Len(VfsAutoconf)}) :
           AtOnce(p, vfs_doadd(vfs, VfsAutoconf[i]))
      \/ \E d \in VfsDevices : \/ AtOnce(p, vfs_mount(vfs, d))
                               \/ AtOnce(p, vfs_unmount(vfs, d))
                               \/ \E colon \in BOOLEAN :
                                    AtOnce(p, vfs_setbootfs(vfs, p, d.name, colon))
      \/ AtOnce(p, vfs_unmountall(vfs))
      \/ AtOnce(p, Ok(change_bootfs(vfs, NoVnode), 0))
      \/ AtOnce(p, Ok(vfs_clearcurdir(vfs, p), 0))
      \/ \E path \in VfsPaths : \/ chdir_lookup(p, path)
                                \/ \E flags \in VfsFlags : \/ open_lookup(p, path, flags)
                                                        \/ open_lookparent(p, path, flags)
                                \/ remove_lookparent(p, path)
                                \/ rename_old(p, path)
                                \/ rename_new(p, path)
      \/ open_creat(p)
      \/ vfs_open(p)
      \/ vfs_close(p)
      \/ vfs_remove(p)
      \/ vfs_rename(p)
      \/ vfs_chdir(p)
      \/ vfs_getcwd(p)
      \/ getcwd_done(p)

----------------------------------------------------------------------------
(* Properties *)

Count(v, seq) == Cardinality({i \in DOMAIN seq : seq[i] = v})

\* Every vnode is counted exactly once for each current directory, open file,
\* local variable of a running call and the boot file system that has it, and a
\* device once for its list entry: on no path, error or not, is a reference lost
\* or given back twice.
RefsExact ==
    vfs.panic = "" =>
      \A v \in Vnodes :
        vfs.ref[v] =
          Cardinality({p \in VfsProcs : vfs.cwd[p] = v}) +
          (IF vfs.bootfs = v THEN 1 ELSE 0) +
          (IF v[2] = "dev" /\ \E d \in Known(vfs) : d.name = v[1] THEN 1 ELSE 0) +
          MapThenSumSet(LAMBDA p : Count(v, vfs.open[p]) + Count(v, vfsHeld[p]), VfsProcs)

\* A file system stays mounted while anyone has a vnode of it, and the panics on
\* a current directory that is a device are never reached.
InUseStaysMounted ==
    /\ vfs.panic = ""
    /\ \A v \in Vnodes : vfs.ref[v] > 0 /\ v[2] # "dev" => v[1] \in vfs.mounted

=============================================================================

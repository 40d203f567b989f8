-------------------------------- MODULE Sfs ---------------------------------
(***************************************************************************)
(* The simple file system of kern/fs/sfs: blocks, inodes, the one          *)
(* directory, the vnode table, mounting and unmounting.                    *)
(*                                                                         *)
(* Every operation runs under vfs_biglock from end to end, so it is one    *)
(* step; the decision to reclaim a vnode is taken without that lock, so it *)
(* and sfs_reclaim are two.  A read of the disk may fail, as may an        *)
(* allocation of memory (a fault).  A write is never reported as failed:   *)
(* module Lhd shows why.  An inode number is the number of its block, and  *)
(* block 0, the superblock, stands for "none".                             *)
(***************************************************************************)
EXTENDS Naturals, Integers, Sequences, FiniteSets, FiniteSetsExt, Outcome

CONSTANTS
    SfsBlocks,      \* sb_nblocks
    SfsNames,       \* file names
    SfsValues,      \* contents of a unit of data; 0 is what a cleared block has
    SFS_BLOCKSIZE,  \* units of data in a block
    SFS_NDIRECT,
    SFS_DBPERIDB,
    SfsPerBlock,    \* directory entries in a block
    SfsWrites,      \* bound: offsets and lengths of writes
    SfsLengths,     \* bound: lengths that files are truncated to
    SfsMaxRefs,     \* bound: references that users hold to one vnode
    SfsMaxFaults,   \* bound: faults in a behaviour
    SfsMaxOps       \* bound: operations in a behaviour

SfsAssumption ==
    /\ {SfsBlocks, SFS_BLOCKSIZE, SFS_NDIRECT, SFS_DBPERIDB, SfsPerBlock} \subseteq Nat \ {0}
    /\ SfsBlocks > 3
    /\ 0 \in SfsValues

VARIABLES
    sfs,
    sfsOps          \* operations so far

Blocks == 0 .. SfsBlocks - 1
SFS_ROOTDIR_INO == 1
SFS_FREEMAP_START == 2
SfsReserved == {0, SFS_ROOTDIR_INO, SFS_FREEMAP_START}

SfsFileBlocks == SFS_NDIRECT + SFS_DBPERIDB
SfsUnits == 0 .. SfsFileBlocks * SFS_BLOCKSIZE - 1

\* The contents of a block; a cleared one reads as zeros of any kind.
Zeros == <<"zeros">>

ZeroInode == [type |-> "inval", size |-> 0, linkcount |-> 0,
              direct |-> [i \in 0 .. SFS_NDIRECT - 1 |-> 0], indirect |-> 0]

NoEntry == [ino |-> 0, name |-> ""]

AsInode(c) == IF c = Zeros THEN ZeroInode ELSE c[2]
AsIdb(c) == IF c = Zeros THEN [j \in 0 .. SFS_DBPERIDB - 1 |-> 0] ELSE c[2]
AsDir(c) == IF c = Zeros THEN [j \in 0 .. SfsPerBlock - 1 |-> NoEntry] ELSE c[2]
AsData(c) == IF c = Zeros THEN [u \in 0 .. SFS_BLOCKSIZE - 1 |-> 0] ELSE c[2]

\* What mksfs leaves on the disk.
SfsRootInode == [ZeroInode EXCEPT !.type = "dir", !.linkcount = 1]

FreshDisk == [b \in Blocks |->
    CASE b = SFS_ROOTDIR_INO -> <<"inode", SfsRootInode>>
      [] b = SFS_FREEMAP_START -> <<"freemap", SfsReserved>>
      [] OTHER -> Zeros]

\* A vnode has its inode (i), dirty, ref, the references held by callers, and
\* whether a thread has decided to reclaim it.
LoadedVnode(i, forced) ==
    [i |-> i, dirty |-> forced, ref |-> 1, held |-> 0, reclaim |-> FALSE]

\* A fresh volume, mounted, with its root directory in use.  vn is the vnode
\* table; want, auxiliary, is what each file should hold.
SfsInit ==
    /\ sfsOps = 0
    /\ sfs = [disk |-> FreshDisk, mounted |-> TRUE, freemap |-> SfsReserved,
              freemapdirty |-> FALSE, faults |-> 0, panic |-> "", off |-> 0,
              vn |-> [j \in {SFS_ROOTDIR_INO} |->
                        [LoadedVnode(SfsRootInode, FALSE) EXCEPT !.held = 1]],
              want |-> [b \in Blocks |-> [u \in SfsUnits |-> 0]]]

----------------------------------------------------------------------------
(* Blocks *)

\* sfs_readblock gives up after its retries; kmalloc has no memory.
Fault(s) ==
    IF s.faults < SfsMaxFaults THEN Err([s EXCEPT !.faults = @ + 1], "EIO") ELSE {}

sfs_readblock(s, b) == Ok(s, s.disk[b]) \cup Fault(s)

sfs_writeblock(s, b, kind, v) == [s EXCEPT !.disk[b] = <<kind, v>>]

sfs_balloc(s) ==
    LET free == Blocks \ s.freemap
    IN  IF free = {}
        THEN Err(s, "ENOSPC")
        ELSE Ok([s EXCEPT !.freemap = @ \cup {Min(free)},
                          !.freemapdirty = TRUE,
                          !.disk[Min(free)] = Zeros], Min(free))

sfs_bfree(s, blocks) ==
    IF blocks = {} THEN s
    ELSE [s EXCEPT !.freemap = @ \ blocks, !.freemapdirty = TRUE]

\* The block is handed back unless it is marked free.
sfs_bused(s, b) ==
    IF b # 0 /\ b \notin s.freemap THEN Panic(s, "block marked free") ELSE Ok(s, b)

bmap_direct(s, ino, fb, doalloc) ==
    LET b == s.vn[ino].i.direct[fb]
    IN  IF b = 0 /\ doalloc
        THEN Then(sfs_balloc(s), LAMBDA t, new :
               Ok([t EXCEPT !.vn[ino].i.direct[fb] = new, !.vn[ino].dirty = TRUE], new))
        ELSE sfs_bused(s, b)

\* The indirect block, allocated or read.
bmap_idblock(s, ino) ==
    LET b == s.vn[ino].i.indirect
    IN  IF b = 0
        THEN Then(sfs_balloc(s), LAMBDA t, new :
               Ok([t EXCEPT !.vn[ino].i.indirect = new, !.vn[ino].dirty = TRUE], Zeros))
        ELSE sfs_readblock(s, b)

bmap_indirect(s, ino, idoff, doalloc) ==
    IF s.vn[ino].i.indirect = 0 /\ ~doalloc
    THEN Ok(s, 0)
    ELSE Then(bmap_idblock(s, ino), LAMBDA t, c :
           IF AsIdb(c)[idoff] = 0 /\ doalloc
           THEN Then(sfs_balloc(t), LAMBDA u, new :
                  Ok(sfs_writeblock(u, u.vn[ino].i.indirect, "idb",
                                    [AsIdb(c) EXCEPT ![idoff] = new]), new))
           ELSE sfs_bused(t, AsIdb(c)[idoff]))

sfs_bmap(s, ino, fb, doalloc) ==
    IF fb < SFS_NDIRECT THEN bmap_direct(s, ino, fb, doalloc)
    ELSE IF fb - SFS_NDIRECT >= SFS_DBPERIDB THEN Err(s, "EFBIG")
    ELSE bmap_indirect(s, ino, fb - SFS_NDIRECT, doalloc)

----------------------------------------------------------------------------
(* Truncation *)

\* The direct blocks from blocklen on are freed.
itrunc_direct(s, ino, blocklen) ==
    LET d == s.vn[ino].i.direct
        gone == {i \in DOMAIN d : i >= blocklen /\ d[i] # 0}
        t == sfs_bfree(s, {d[i] : i \in gone})
    IN  IF gone = {} THEN s
        ELSE [t EXCEPT !.vn[ino].i.direct = [i \in DOMAIN d |-> IF i \in gone THEN 0 ELSE d[i]],
                       !.vn[ino].dirty = TRUE]

\* Of the indirect block, those whose number is greater than blocklen; then the
\* block itself, if nothing is left in it.
itrunc_indirect(s, ino, blocklen) ==
    LET b == s.vn[ino].i.indirect
    IN  IF ~(blocklen < SFS_NDIRECT + SFS_DBPERIDB - 1 /\ b # 0)
        THEN Ok(s, 0)
        ELSE Then(sfs_readblock(s, b), LAMBDA t, c :
               LET idb == AsIdb(c)
                   gone == {j \in DOMAIN idb : blocklen < SFS_NDIRECT + j /\ idb[j] # 0}
                   left == [j \in DOMAIN idb |-> IF j \in gone THEN 0 ELSE idb[j]]
                   u == sfs_bfree(t, {idb[j] : j \in gone})
               IN  IF \A j \in DOMAIN idb : left[j] = 0
                   THEN Ok([sfs_bfree(u, {b}) EXCEPT !.vn[ino].i.indirect = 0,
                                                     !.vn[ino].dirty = TRUE], 0)
                   ELSE IF gone # {} THEN Ok(sfs_writeblock(u, b, "idb", left), 0)
                   ELSE Ok(u, 0))

sfs_itrunc(s, ino, len) ==
    LET blocklen == (len + SFS_BLOCKSIZE - 1) \div SFS_BLOCKSIZE
    IN  Then(itrunc_indirect(itrunc_direct(s, ino, blocklen), ino, blocklen), LAMBDA t, x :
          Ok([t EXCEPT !.vn[ino].i.size = len, !.vn[ino].dirty = TRUE,
                       !.want[ino] = [u \in SfsUnits |-> IF u < len THEN @[u] ELSE 0]], 0))

----------------------------------------------------------------------------
(* Vnodes *)

sfs_sync_inode(s, ino) ==
    IF s.vn[ino].dirty
    THEN [sfs_writeblock(s, ino, "inode", s.vn[ino].i) EXCEPT !.vn[ino].dirty = FALSE]
    ELSE s

\* Erase a file with no links, write its inode, drop the vnode.
reclaim_last(s, ino) ==
    Then(IF s.vn[ino].i.linkcount = 0 THEN sfs_itrunc(s, ino, 0) ELSE Ok(s, 0), LAMBDA t, x :
      LET u == sfs_sync_inode(t, ino)
          w == IF u.vn[ino].i.linkcount = 0 THEN sfs_bfree(u, {ino}) ELSE u
      IN  Ok([w EXCEPT !.vn = [j \in DOMAIN w.vn \ {ino} |-> w.vn[j]]], 0))

\* The reference of the thread that is to reclaim is given up first if someone
\* has picked up the vnode meanwhile.
sfs_reclaim(s, ino) ==
    LET t == [s EXCEPT !.vn[ino].reclaim = FALSE]
    IN  IF t.vn[ino].ref # 1
        THEN Err([t EXCEPT !.vn[ino].ref = @ - 1], "EBUSY")
        ELSE reclaim_last(t, ino)

\* VOP_DECREF by a thread that holds vfs_biglock: an error of sfs_reclaim is
\* only printed.
Decref(s, ino) ==
    IF s.vn[ino].ref > 1 THEN {[s EXCEPT !.vn[ino].ref = @ - 1]}
    ELSE {r.s : r \in sfs_reclaim(s, ino)}

\* The vnode is found, or loaded.
sfs_loadvnode(s, ino, forcetype) ==
    IF \E j \in DOMAIN s.vn : j \notin s.freemap
    THEN Panic(s, "inode in unallocated block")
    ELSE IF ino \in DOMAIN s.vn
    THEN IF forcetype = "inval" THEN Ok([s EXCEPT !.vn[ino].ref = @ + 1], ino)
         ELSE Panic(s, "forcetype==SFS_TYPE_INVAL")
    ELSE IF ino \notin s.freemap
    THEN Panic(s, "inode loaded from unallocated block")
    ELSE Then(sfs_readblock(s, ino), LAMBDA t, c :
           LET i == AsInode(c)
               new == IF forcetype = "inval" THEN i ELSE [i EXCEPT !.type = forcetype]
           IN  IF new.type = "inval" \/ (forcetype # "inval" /\ i.type # "inval")
               THEN Panic(t, "invalid inode type")
               ELSE Ok([t EXCEPT !.vn = [j \in DOMAIN t.vn \cup {ino} |->
                          IF j = ino THEN LoadedVnode(new, forcetype # "inval")
                          ELSE t.vn[j]]], ino))

sfs_makeobj(s) ==
    Then(sfs_balloc(s), LAMBDA t, ino :
      OnError(sfs_loadvnode(t, ino, "file"), LAMBDA u, e : Err(sfs_bfree(u, {ino}), e)))

\* The caller keeps the vnode.
Keep(s, ino) == [s EXCEPT !.vn[ino].held = @ + 1]

----------------------------------------------------------------------------
(* The directory *)

\* The block of the directory that has slot n; 0 if there is none.
DirBlock(s, n) ==
    LET i == s.vn[SFS_ROOTDIR_INO].i
        fb == n \div SfsPerBlock
    IN  IF fb < SFS_NDIRECT THEN i.direct[fb]
        ELSE IF i.indirect = 0 THEN 0
        ELSE AsIdb(s.disk[i.indirect])[fb - SFS_NDIRECT]

sfs_readdir(s, n) ==
    IF DirBlock(s, n) = 0 THEN NoEntry
    ELSE AsDir(s.disk[DirBlock(s, n)])[n % SfsPerBlock]

sfs_dir_nentries(s) == s.vn[SFS_ROOTDIR_INO].i.size

\* The slot and inode of a name, and the last empty slot (-1: none).
sfs_dir_findname(s, name) ==
    LET slots == 0 .. sfs_dir_nentries(s) - 1
        at == {n \in slots : sfs_readdir(s, n).ino # 0 /\ sfs_readdir(s, n).name = name}
        empty == {n \in slots : sfs_readdir(s, n).ino = 0}
    IN  IF \E n \in slots : DirBlock(s, n) \notin s.freemap \cup {0}
        THEN Panic(s, "block marked free")
        ELSE IF Cardinality(at) > 1
        THEN Panic(s, "found==0")
        ELSE (IF slots = {} THEN {} ELSE Fault(s)) \cup
             Ok(s, [slot |-> IF at = {} THEN -1 ELSE Min(at),
                    ino |-> IF at = {} THEN 0 ELSE sfs_readdir(s, Min(at)).ino,
                    empty |-> IF empty = {} THEN -1 ELSE Max(empty)])

\* sfs_metaio of one entry.
sfs_writedir(s, n, entry) ==
    Then(sfs_bmap(s, SFS_ROOTDIR_INO, n \div SfsPerBlock, TRUE), LAMBDA t, b :
      Then(sfs_readblock(t, b), LAMBDA u, c :
        LET w == sfs_writeblock(u, b, "dir", [AsDir(c) EXCEPT ![n % SfsPerBlock] = entry])
        IN  IF n + 1 > sfs_dir_nentries(w)
            THEN Ok([w EXCEPT !.vn[SFS_ROOTDIR_INO].i.size = n + 1,
                              !.vn[SFS_ROOTDIR_INO].dirty = TRUE], n)
            ELSE Ok(w, n)))

sfs_dir_link(s, name, ino) ==
    Then(sfs_dir_findname(s, name), LAMBDA t, f :
      IF f.slot # -1 THEN Err(t, "EEXIST")
      ELSE sfs_writedir(t, IF f.empty = -1 THEN sfs_dir_nentries(t) ELSE f.empty,
                        [ino |-> ino, name |-> name]))

sfs_dir_unlink(s, n) == sfs_writedir(s, n, NoEntry)

\* The vnode of a name, with the slot.
sfs_lookonce(s, name) ==
    Then(sfs_dir_findname(s, name), LAMBDA t, f :
      IF f.slot = -1 THEN Err(t, "ENOENT")
      ELSE Then(sfs_loadvnode(t, f.ino, "inval"), LAMBDA u, ino :
             IF u.vn[ino].i.linkcount = 0 THEN Panic(u, "linkcount 0") ELSE Ok(u, f)))


AddLinks(s, ino, n) ==
    [s EXCEPT !.vn[ino].i.linkcount = @ + n, !.vn[ino].dirty = TRUE]

----------------------------------------------------------------------------
(* Vnode operations on the directory *)

sfs_creat(s, name, excl) ==
    Then(sfs_dir_findname(s, name), LAMBDA t, f :
      IF f.slot # -1
      THEN IF excl THEN Err(t, "EEXIST")
           ELSE Then(sfs_loadvnode(t, f.ino, "inval"), LAMBDA u, ino : Ok(Keep(u, ino), ino))
      ELSE Then(sfs_makeobj(t), LAMBDA u, ino :
             Either(sfs_dir_link(u, name, ino), LAMBDA w, e, n :
               IF e = "" THEN Ok(Keep([AddLinks(w, ino, 1) EXCEPT
                                         !.want[ino] = [x \in SfsUnits |-> 0]], ino), ino)
               ELSE UNION {Err(d, e) : d \in Decref(w, ino)})))

sfs_lookup(s, name) ==
    Then(sfs_lookonce(s, name), LAMBDA t, f : Ok(Keep(t, f.ino), f.ino))

sfs_link(s, name, ino) ==
    IF s.vn[ino].i.type = "dir" THEN Err(s, "EINVAL")
    ELSE Then(sfs_dir_link(s, name, ino), LAMBDA t, n : Ok(AddLinks(t, ino, 1), 0))

sfs_remove(s, name) ==
    Then(sfs_lookonce(s, name), LAMBDA t, f :
      Either(sfs_dir_unlink(t, f.slot), LAMBDA u, e, n :
        LET w == IF e = "" THEN AddLinks(u, f.ino, -1) ELSE u
        IN  UNION {Err(d, e) : d \in Decref(w, f.ino)}))

\* The new name is linked, the old one unlinked; if that fails the new one is
\* unlinked again.
sfs_rename(s, n1, n2) ==
    Then(sfs_lookonce(s, n1), LAMBDA t, f :
      LET Puke(w, e) == UNION {Err(d, e) : d \in Decref(w, f.ino)}
      IN  Either(sfs_dir_link(t, n2, f.ino), LAMBDA u, e1, slot2 :
            IF e1 # "" THEN Puke(u, e1)
            ELSE Either(sfs_dir_unlink(AddLinks(u, f.ino, 1), f.slot), LAMBDA w, e2, x :
                   IF e2 = "" THEN Puke(AddLinks(w, f.ino, -1), "")
                   ELSE Either(sfs_dir_unlink(w, slot2), LAMBDA y, e3, z :
                          IF e3 # "" THEN Panic(y, "rename: Cannot recover")
                          ELSE Puke([y EXCEPT !.vn[f.ino].i.linkcount = @ - 1], e2)))))

----------------------------------------------------------------------------
(* Writing a file *)

\* One block or a part of one: sfs_blockio and sfs_partialio.  The latter reads
\* the block first.
WritePiece(s, ino, n, v) ==
    LET u0 == s.off % SFS_BLOCKSIZE
    IN  Then(sfs_bmap(s, ino, s.off \div SFS_BLOCKSIZE, TRUE), LAMBDA t, b :
          Then(IF n = SFS_BLOCKSIZE THEN Ok(t, t.disk[b]) ELSE sfs_readblock(t, b), LAMBDA w, c :
            Ok([sfs_writeblock(w, b, "data",
                  [u \in 0 .. SFS_BLOCKSIZE - 1 |->
                     IF u0 <= u /\ u < u0 + n THEN v ELSE AsData(c)[u]])
                EXCEPT !.off = @ + n,
                       !.want[ino] = [u \in SfsUnits |->
                          IF w.off <= u /\ u < w.off + n THEN v ELSE @[u]]], 0)))

RECURSIVE WriteLoop(_, _, _, _)
WriteLoop(s, ino, resid, v) ==
    LET n == Min({SFS_BLOCKSIZE - (s.off % SFS_BLOCKSIZE), resid})
    IN  IF resid = 0 THEN Ok(s, 0)
        ELSE Then(WritePiece(s, ino, n, v), LAMBDA t, x : WriteLoop(t, ino, resid - n, v))

\* The file grows to what was written, errors or not.
sfs_io(s, ino, off, len, v) ==
    Either(WriteLoop([s EXCEPT !.off = off], ino, len, v), LAMBDA t, e, x :
      LET u == [t EXCEPT !.off = 0]
      IN  Err(IF t.off # off /\ t.off > t.vn[ino].i.size
              THEN [u EXCEPT !.vn[ino].i.size = t.off, !.vn[ino].dirty = TRUE]
              ELSE u, e))

----------------------------------------------------------------------------
(* The volume *)

\* The inodes and the freemap are written; the superblock is never dirty.
sfs_sync(s) ==
    LET t == [s EXCEPT
                !.disk = [b \in Blocks |->
                            IF b \in DOMAIN s.vn /\ s.vn[b].dirty
                            THEN <<"inode", s.vn[b].i>> ELSE @[b]],
                !.vn = [j \in DOMAIN s.vn |-> [s.vn[j] EXCEPT !.dirty = FALSE]]]
    IN  IF t.freemapdirty
        THEN [sfs_writeblock(t, SFS_FREEMAP_START, "freemap", t.freemap)
              EXCEPT !.freemapdirty = FALSE]
        ELSE t

\* vfs_unmount: FSOP_SYNC, then FSOP_UNMOUNT.
sfs_unmount(s) ==
    LET t == sfs_sync(s)
    IN  IF DOMAIN t.vn # {} THEN Err(t, "EBUSY")
        ELSE IF t.freemapdirty THEN Panic(t, "sfs_freemapdirty == false")
        ELSE Ok([t EXCEPT !.mounted = FALSE, !.freemap = {}], 0)

\* The superblock and the freemap are read.
sfs_domount(s) ==
    Then(sfs_readblock(s, 0), LAMBDA t, sb :
      Then(sfs_readblock(t, SFS_FREEMAP_START), LAMBDA u, c :
        Ok([u EXCEPT !.mounted = TRUE, !.freemap = c[2]], 0)))

sfs_getroot(s) ==
    Either(sfs_loadvnode(s, SFS_ROOTDIR_INO, "inval"), LAMBDA t, e, ino :
      IF e # "" THEN Panic(t, "Cannot load root vnode")
      ELSE IF t.vn[ino].i.type # "dir" THEN Panic(t, "not directory")
      ELSE Ok(Keep(t, ino), ino))

----------------------------------------------------------------------------
(* Steps *)

SfsUp == sfs.panic = "" /\ sfs.mounted

\* A caller has a reference to the vnode.
Held(ino) == SfsUp /\ ino \in DOMAIN sfs.vn /\ sfs.vn[ino].held > 0

\* Bound: callers hold at most SfsMaxRefs references to a vnode.
Becomes(R) ==
    /\ sfsOps < SfsMaxOps
    /\ sfsOps' = sfsOps + 1
    /\ \E r \in R : /\ \A ino \in DOMAIN r.s.vn : r.s.vn[ino].held <= SfsMaxRefs
                    /\ sfs' = r.s

Mount == sfs.panic = "" /\ ~sfs.mounted /\ Becomes(sfs_domount(sfs))
Unmount == SfsUp /\ Becomes(sfs_unmount(sfs))
Sync == SfsUp /\ Becomes(Ok(sfs_sync(sfs), 0))
GetRoot == SfsUp /\ ~Held(SFS_ROOTDIR_INO) /\ Becomes(sfs_getroot(sfs))

\* vnode_decref by a caller that gives its reference up.
Release(ino) ==
    /\ Held(ino)
    /\ Becomes(Ok(IF sfs.vn[ino].ref > 1
                  THEN [sfs EXCEPT !.vn[ino].held = @ - 1, !.vn[ino].ref = @ - 1]
                  ELSE [sfs EXCEPT !.vn[ino].held = @ - 1, !.vn[ino].reclaim = TRUE], 0))

Reclaim(ino) ==
    /\ SfsUp
    /\ ino \in DOMAIN sfs.vn
    /\ sfs.vn[ino].reclaim
    /\ Becomes(sfs_reclaim(sfs, ino))

Creat(name, excl) ==
    Held(SFS_ROOTDIR_INO) /\ Becomes(sfs_creat(sfs, name, excl))

Lookup(name) == Held(SFS_ROOTDIR_INO) /\ Becomes(sfs_lookup(sfs, name))

Link(name, ino) ==
    Held(SFS_ROOTDIR_INO) /\ Held(ino) /\ Becomes(sfs_link(sfs, name, ino))

Remove(name) == Held(SFS_ROOTDIR_INO) /\ Becomes(sfs_remove(sfs, name))

Rename(n1, n2) == Held(SFS_ROOTDIR_INO) /\ Becomes(sfs_rename(sfs, n1, n2))

IsFile(ino) == Held(ino) /\ sfs.vn[ino].i.type = "file"

Write(ino, off, len, v) ==
    IsFile(ino) /\ Becomes(sfs_io(sfs, ino, off, len, v))

Truncate(ino, len) == IsFile(ino) /\ Becomes(sfs_itrunc(sfs, ino, len))

Fsync(ino) == Held(ino) /\ Becomes(Ok(sfs_sync_inode(sfs, ino), 0))

SfsNext ==
    \/ Mount
    \/ Unmount
    \/ Sync
    \/ GetRoot
    \/ \E ino \in Blocks :
         \/ Release(ino)
         \/ Reclaim(ino)
         \/ Fsync(ino)
         \/ \E len \in SfsLengths : Truncate(ino, len)
         \/ \E w \in SfsWrites, v \in SfsValues : Write(ino, w[1], w[2], v)
    \/ \E name \in SfsNames :
         \/ \E excl \in BOOLEAN : Creat(name, excl)
         \/ Lookup(name)
         \/ Remove(name)
         \/ \E ino \in Blocks : Link(name, ino)
         \/ \E n2 \in SfsNames : Rename(name, n2)

----------------------------------------------------------------------------
(* Properties *)

\* The blocks an inode refers to, with the indirect block as it is on the disk.
BlocksOf(i) ==
    LET idb == AsIdb(sfs.disk[i.indirect])
    IN  {i.direct[n] : n \in DOMAIN i.direct} \cup {i.indirect} \cup
        (IF i.indirect = 0 THEN {} ELSE {idb[j] : j \in DOMAIN idb})

\* An inode as it is now: the vnode's if there is one.
InodeNow(ino) ==
    IF ino \in DOMAIN sfs.vn THEN sfs.vn[ino].i ELSE AsInode(sfs.disk[ino])

\* The entries of the directory whose inode is root.
Entries(root) ==
    LET Slot(n) == LET fb == n \div SfsPerBlock
                       b == IF fb < SFS_NDIRECT THEN root.direct[fb]
                            ELSE IF root.indirect = 0 THEN 0
                            ELSE AsIdb(sfs.disk[root.indirect])[fb - SFS_NDIRECT]
                   IN  IF b = 0 THEN NoEntry ELSE AsDir(sfs.disk[b])[n % SfsPerBlock]
    IN  {<<n, Slot(n)>> : n \in {m \in 0 .. root.size - 1 : Slot(m).ino # 0}}

\* A volume with these inodes, root directory and freemap is sound: a block is
\* in use exactly if something refers to it, nothing is referred to twice, each
\* name occurs once and each file has as many links as entries.
SoundVolume(inodes, freemap, Inode(_)) ==
    LET entries == Entries(Inode(SFS_ROOTDIR_INO))
        named == {e[2].ino : e \in entries}
        files == inodes \cup named \cup {SFS_ROOTDIR_INO}
        owned == {<<f, b>> \in files \X (Blocks \ {0}) : b \in BlocksOf(Inode(f))}
    IN  /\ freemap = SfsReserved \cup files \cup {o[2] : o \in owned}
        /\ Cardinality(owned) = Cardinality({o[2] : o \in owned})
        /\ {o[2] : o \in owned} \cap (SfsReserved \cup files) = {}
        /\ Cardinality(entries) = Cardinality({e[2].name : e \in entries})
        /\ \A f \in files \ {SFS_ROOTDIR_INO} :
              Inode(f).linkcount = Cardinality({e \in entries : e[2].ino = f})


\* Once it is unmounted, the disk alone is: everything that was only in memory has
\* been written in time, and no erased file has kept its blocks.
UnmountedSound ==
    ~sfs.mounted =>
      SoundVolume({}, sfs.disk[SFS_FREEMAP_START][2], InodeNow)

\* No KASSERT or panic() of the file system is reached, except where the code
\* gives up on an unreadable disk.
SfsNoPanic ==
    sfs.panic \in {"", "Cannot load root vnode", "rename: Cannot recover"}

\* A file reads as what was written to it; what truncation cut off does not come
\* back: "If the action shrinks the file, the excess data is discarded".
FileContents ==
    \A ino \in DOMAIN sfs.vn :
      LET i == sfs.vn[ino].i
          At(fb) == IF fb < SFS_NDIRECT THEN i.direct[fb]
                    ELSE IF i.indirect = 0 THEN 0
                    ELSE AsIdb(sfs.disk[i.indirect])[fb - SFS_NDIRECT]
          Unit(u) == LET b == At(u \div SFS_BLOCKSIZE)
                     IN  IF b = 0 THEN 0 ELSE AsData(sfs.disk[b])[u % SFS_BLOCKSIZE]
      IN  i.type = "file" => \A u \in SfsUnits : u < i.size => Unit(u) = sfs.want[ino][u]

=============================================================================

------------------------------- MODULE Sfsck --------------------------------
(***************************************************************************)
(* mksfs and sfsck (userland/sbin): a volume is made or given, some of its *)
(* fields are damaged, and sfsck is run on it, once or again.              *)
(*                                                                         *)
(* sfsck is one sequential program.  Its phases are the steps of the       *)
(* model, and the machine may stop between two of them; the disk is then   *)
(* what the phases so far have left.  ck.dead is the failed assertion or   *)
(* errx that ended the program.  The layout is the one of kern/sfs.h: one  *)
(* indirect block, none of higher level.                                   *)
(***************************************************************************)
EXTENDS Qsort, FiniteSets, FiniteSetsExt, SequencesExt, TLC

CONSTANTS
    CkBlocks,        \* sb_nblocks
    CkBits,          \* SFS_FREEMAPBITS(sb_nblocks)
    CkDirent,        \* sizeof(struct sfs_direntry)
    CkPerBlock,      \* SFS_BLOCKSIZE/sizeof(struct sfs_direntry)
    CK_NDIRECT,      \* SFS_NDIRECT
    CK_DBPERIDB,     \* SFS_DBPERIDB
    CK_NAMELEN,      \* SFS_NAMELEN
    CkImages,        \* the volumes before they are damaged
    CkPointers,      \* bound: what damage makes of a block or inode number
    CkSizes,         \* bound: what it makes of a size
    CkNames,         \* bound: what it makes of a name
    CkFaults,        \* bound: fields damaged
    CkRuns           \* bound: times sfsck is run, by the number of fields damaged

VARIABLE ck

SfsckAssumption ==
    /\ {CkBlocks, CkDirent, CkPerBlock, CK_NDIRECT, CK_DBPERIDB, CK_NAMELEN} \subseteq Nat \ {0}
    /\ 3 < CkBlocks /\ CkBlocks <= CkBits

EXIT_CLEAN == 0
EXIT_RECOV == 1
EXIT_UNRECOV == 2
EXIT_FATAL == 3

SFS_SUPER_BLOCK == 0
SFS_ROOTDIR_INO == 1
SFS_FREEMAP_START == 2
SFS_NOINO == 0

CkBlockSize == CkPerBlock * CkDirent
CkPastEnd == CkBlocks .. CkBits - 1
SFS_ROUNDUP(a, b) == ((a + b - 1) \div b) * b

----------------------------------------------------------------------------
(* The disk.  A name is a sequence; the empty one has sfd_name[0] = 0. *)

Dot == <<".">>
DotDot == <<".", ".">>
NoEntry == [ino |-> SFS_NOINO, name |-> <<>>]

ZeroInode == [type |-> "inval", size |-> 0, linkcount |-> 0, waste |-> FALSE,
              direct |-> [j \in 0 .. CK_NDIRECT - 1 |-> 0], indirect |-> 0]

\* What a block reads as; one of another kind, as zeros.
AsInode(c) == IF c[1] = "inode" THEN c[2] ELSE ZeroInode
AsIdb(c) == IF c[1] = "idb" THEN c[2] ELSE [j \in 0 .. CK_DBPERIDB - 1 |-> 0]
AsDir(c) == IF c[1] = "dir" THEN c[2] ELSE [j \in 0 .. CkPerBlock - 1 |-> NoEntry]

\* The superblock says whether its magic number is right.
GoodSuper == [magic |-> TRUE, volname |-> <<"v">>, reserved |-> FALSE]

\* What mksfs writes: superblock, free block bitmap and root directory.
mksfs == [b \in 0 .. CkBlocks - 1 |->
    CASE b = SFS_SUPER_BLOCK -> <<"super", GoodSuper>>
      [] b = SFS_FREEMAP_START ->
           <<"freemap", {SFS_SUPER_BLOCK, SFS_ROOTDIR_INO, SFS_FREEMAP_START} \cup CkPastEnd>>
      [] b = SFS_ROOTDIR_INO -> <<"inode", [ZeroInode EXCEPT !.type = "dir", !.linkcount = 1]>>
      [] OTHER -> <<"zeros">>]

diskwrite(s, b, kind, v) == [s EXCEPT !.disk[b] = <<kind, v>>]

sfs_readinode(s, ino) == AsInode(s.disk[ino])
sfs_writeinode(s, ino, i) == diskwrite(s, ino, "inode", i)

bmap(s, i, fb) ==
    CASE fb < CK_NDIRECT -> i.direct[fb]
      [] fb >= CK_NDIRECT /\ fb < CK_NDIRECT + CK_DBPERIDB ->
           IF i.indirect = 0 THEN 0 ELSE AsIdb(s.disk[i.indirect])[fb - CK_NDIRECT]
      [] OTHER -> 0

\* A missing block of a sparse directory reads as free entries.
sfs_readdir(s, i, nd) ==
    [k \in 0 .. nd - 1 |->
        LET b == bmap(s, i, k \div CkPerBlock)
        IN  IF b = 0 THEN NoEntry ELSE AsDir(s.disk[b])[k % CkPerBlock]]

----------------------------------------------------------------------------
(* The state of the program *)

setbadness(s, code) == [s EXCEPT !.badness = Max({@, code})]

\* An assertion fails, or errx.
die(s, why) == [s EXCEPT !.dead = why]

\* for (k=0; k<n; k++), on a state w whose field s is the program's.
For(n, w, Body(_, _)) ==
    LET RECURSIVE from(_, _)
        from(k, x) == IF k >= n \/ x.s.dead # "" THEN x ELSE from(k + 1, Body(x, k))
    IN  from(0, w)

\* One block of a directory; entries past nd are written as free.
sfs_writedirblock(s, b, d) ==
    IF b # 0 THEN diskwrite(s, b, "dir", d)
    ELSE IF \E j \in DOMAIN d : d[j] # NoEntry THEN setbadness(s, EXIT_UNRECOV)
    ELSE s

sfs_writedir(s, i, d, nd) ==
    For(SFS_ROUNDUP(nd, CkPerBlock) \div CkPerBlock, [s |-> s], LAMBDA w, k :
        [s |-> sfs_writedirblock(w.s, bmap(s, i, k), [j \in 0 .. CkPerBlock - 1 |->
            IF k * CkPerBlock + j < nd THEN d[k * CkPerBlock + j] ELSE NoEntry])]).s

\* The name given to a file that has none, or not one of its own.
uniquename(s, ino) == <<"FSCK", ToString(ino), ToString(s.uid)>>
uniqueid(s) == [s EXCEPT !.uid = @ + 1]

----------------------------------------------------------------------------
(* The free block bitmap as found *)

freemap_blockinuse(s, b) ==
    LET t == [s EXCEPT !.tofreedata = @ \ {b}, !.freemapdata = @ \cup {b}]
    IN  IF b \in s.freemapdata THEN setbadness(t, EXIT_UNRECOV) ELSE t

\* A block that is used elsewhere is not freed.
freemap_blockfree(s, b) ==
    IF b \in s.tofreedata \cup s.freemapdata THEN s ELSE [s EXCEPT !.tofreedata = @ \cup {b}]

freemap_setup(s) ==
    [s EXCEPT !.freemapdata = CkPastEnd \cup {SFS_SUPER_BLOCK, SFS_FREEMAP_START},
              !.tofreedata = {}]

\* Bits that are wrong only by the blocks being freed are set right silently.
freemap_check(s) ==
    LET actual == s.disk[SFS_FREEMAP_START][2]
        t == IF actual \ s.tofreedata = s.freemapdata THEN s ELSE setbadness(s, EXIT_RECOV)
    IN  IF s.freemapdata \cap s.tofreedata # {} THEN die(s, "freemap.c assert")
        ELSE IF actual = s.freemapdata THEN s
        ELSE diskwrite(t, SFS_FREEMAP_START, "freemap", s.freemapdata)

----------------------------------------------------------------------------
(* The inode table: for each inode found its type, links and whether visited *)

inode_addtable(s, ino, type) ==
    [s EXCEPT !.inodes = (ino :> [type |-> type, linkcount |-> 0, visited |-> FALSE]) @@ @]

\* inode_find: only pass 1 adds to the table.
inode_visitdir(s, ino) ==
    CASE ino \notin DOMAIN s.inodes -> die(s, "inode_find")
      [] ino \in DOMAIN s.inodes /\ s.inodes[ino].type # "dir" -> die(s, "inode.c assert")
      [] OTHER -> [s EXCEPT !.inodes[ino].visited = TRUE]

inode_addlink(s, ino) ==
    CASE ino \notin DOMAIN s.inodes -> die(s, "inode_find")
      [] ino \in DOMAIN s.inodes /\ s.inodes[ino].type # "file" -> die(s, "inode.c assert")
      [] OTHER -> [s EXCEPT !.inodes[ino].linkcount = @ + 1]

\* Phase 3, in the order of the sorted table.
inode_adjust_filelinks(s) ==
    For(CkBlocks, [s |-> s], LAMBDA w, ino :
        IF ino \notin DOMAIN s.inodes \/ s.inodes[ino].type = "dir" THEN w
        ELSE LET i == sfs_readinode(w.s, ino)
                 n == s.inodes[ino].linkcount
             IN  IF n = 0 \/ i.type # "file" THEN [s |-> die(w.s, "inode.c assert")]
                 ELSE IF i.linkcount = n THEN w
                 ELSE [s |-> sfs_writeinode(setbadness(w.s, EXIT_RECOV), ino,
                                            [i EXCEPT !.linkcount = n])]).s

----------------------------------------------------------------------------
(* Pass 1: blocks and sizes *)

\* The pointer p to the block fb of a file: the program's state and what
\* becomes of the pointer.
\* Mutant: the block after the last is taken for one of the file (<= for <).
check_block_after(s, p, fb, fileblocks) ==
    CASE p >= CkBlocks -> [s |-> setbadness(s, EXIT_RECOV), p |-> 0]
      [] p = 0 -> [s |-> s, p |-> 0]
      [] p \in 1 .. CkBlocks - 1 /\ fb <= fileblocks -> [s |-> freemap_blockinuse(s, p), p |-> p]
      [] OTHER -> [s |-> freemap_blockfree(setbadness(s, EXIT_RECOV), p), p |-> 0]
check_block(s, p, fb, fileblocks) ==
    CASE p >= CkBlocks -> [s |-> setbadness(s, EXIT_RECOV), p |-> 0]
      [] p = 0 -> [s |-> s, p |-> 0]
      [] p \in 1 .. CkBlocks - 1 /\ fb < fileblocks -> [s |-> freemap_blockinuse(s, p), p |-> p]
      [] OTHER -> [s |-> freemap_blockfree(setbadness(s, EXIT_RECOV), p), p |-> 0]

check_blocks(s, ptrs, first, fileblocks) ==
    For(Cardinality(DOMAIN ptrs), [s |-> s, ptrs |-> ptrs], LAMBDA w, k :
        LET r == check_block(w.s, ptrs[k], first + k, fileblocks)
        IN  [s |-> r.s, ptrs |-> [w.ptrs EXCEPT ![k] = r.p]])

\* An indirect block that is left empty is dropped.  It has been marked in
\* use by then, so freeing it has no effect in this run.
check_entries(r, ientry, entries) ==
    CASE \A k \in DOMAIN entries : r.ptrs[k] = 0 ->
           [s |-> freemap_blockfree(setbadness(r.s, EXIT_RECOV), ientry), p |-> 0]
      [] r.ptrs = entries /\ \E k \in DOMAIN entries : r.ptrs[k] # 0 -> [s |-> r.s, p |-> ientry]
      [] OTHER -> [s |-> diskwrite(r.s, ientry, "idb", r.ptrs), p |-> ientry]

check_indirect_block(s, ientry, fileblocks) ==
    CASE ientry >= CkBlocks -> [s |-> setbadness(s, EXIT_RECOV), p |-> 0]
      [] ientry = 0 -> [s |-> s, p |-> 0]
      [] OTHER -> LET entries == AsIdb(s.disk[ientry])
                  IN  check_entries(check_blocks(freemap_blockinuse(s, ientry), entries,
                                                 CK_NDIRECT, fileblocks), ientry, entries)

check_indirect(d, i, fileblocks) ==
    LET id == check_indirect_block(d.s, i.indirect, fileblocks)
    IN  [s |-> id.s, i |-> [i EXCEPT !.direct = d.ptrs, !.indirect = id.p]]

check_inode_blocks(s, i) ==
    LET fileblocks == SFS_ROUNDUP(i.size, CkBlockSize) \div CkBlockSize
    IN  check_indirect(check_blocks(s, i.direct, 0, fileblocks), i, fileblocks)

\* been: the inode was found before.
pass1_written(r, ino, i, changed) ==
    [s |-> IF r.i = i /\ ~changed THEN r.s ELSE sfs_writeinode(r.s, ino, r.i),
     i |-> r.i, been |-> FALSE]

pass1_inode(s, ino, i, changed) ==
    IF ino \in DOMAIN s.inodes
    THEN [s |-> IF s.inodes[ino].type # i.type \/ changed
                THEN die(s, "pass1_inode assert") ELSE s,
          i |-> i, been |-> TRUE]
    ELSE LET t == freemap_blockinuse(inode_addtable(s, ino, i.type), ino)
         IN  pass1_written(check_inode_blocks(IF i.waste THEN setbadness(t, EXIT_RECOV) ELSE t,
                                              [i EXCEPT !.waste = FALSE]), ino, i, changed)

checknullstring(n) == IF Len(n) < CK_NAMELEN THEN n ELSE SubSeq(n, 1, CK_NAMELEN - 1)
checkbadstring(n) == [k \in DOMAIN n |-> IF n[k] \in {":", "/"} THEN "_" ELSE n[k]]

pass1_direntry(s, sfd) ==
    LET name == IF sfd.name = <<>> THEN uniquename(s, sfd.ino) ELSE sfd.name
        new  == IF sfd.ino = SFS_NOINO \/ sfd.ino >= CkBlocks THEN NoEntry
                ELSE [sfd EXCEPT !.name = checkbadstring(checknullstring(name))]
        t    == IF sfd.ino \in 1 .. CkBlocks - 1 /\ sfd.name = <<>> THEN uniqueid(s) ELSE s
    IN  [s |-> IF new = sfd THEN t ELSE setbadness(t, EXIT_RECOV), sfd |-> new]

\* Every entry of the directory d by the loop that checks names.
pass1_direntries(s, d, nd) ==
    For(nd, [s |-> s, d |-> d], LAMBDA w, k :
        LET r == pass1_direntry(w.s, w.d[k])
        IN  [s |-> r.s, d |-> [w.d EXCEPT ![k] = r.sfd]])

\* The entries that name a file or a subdirectory.
IsChild(sfd) == sfd.ino # SFS_NOINO /\ sfd.name \notin {Dot, DotDot}

\* The directory d of inode i, written back if the loops have changed it.
pass1_writedir(w, i, d) ==
    IF w.d = d \/ w.s.dead # "" THEN w.s
    ELSE sfs_writedir(w.s, i, w.d, Cardinality(DOMAIN d))

RECURSIVE pass1_dir(_, _)
pass1_dir(s, ino) ==
    LET visit(w, k) ==
            LET sub == sfs_readinode(w.s, w.d[k].ino)
            IN  CASE ~IsChild(w.d[k]) -> w
                  [] IsChild(w.d[k]) /\ sub.type = "file" ->
                       [w EXCEPT !.s = pass1_inode(w.s, w.d[k].ino, sub, FALSE).s]
                  [] IsChild(w.d[k]) /\ sub.type = "dir" ->
                       [w EXCEPT !.s = pass1_dir(w.s, w.d[k].ino)]
                  [] OTHER -> [s |-> setbadness(w.s, EXIT_RECOV), d |-> [w.d EXCEPT ![k] = NoEntry]]
        loops(t, i, d) ==
            LET nd == Cardinality(DOMAIN d)
            IN  pass1_writedir(For(nd, pass1_direntries(t, d, nd), visit), i, d)
        load(r) == IF r.been \/ r.s.dead # "" THEN r.s
                   ELSE loops(r.s, r.i, sfs_readdir(r.s, r.i, r.i.size \div CkDirent))
        i0  == sfs_readinode(s, ino)
        ill == i0.size % CkDirent # 0
    IN  load(pass1_inode(IF ill THEN setbadness(s, EXIT_RECOV) ELSE s, ino,
                         [i0 EXCEPT !.size = SFS_ROUNDUP(@, CkDirent)], ill))

pass1_rootdir(s) ==
    LET i == sfs_readinode(s, SFS_ROOTDIR_INO)
    IN  pass1_dir(IF i.type = "dir" THEN s
                  ELSE sfs_writeinode(setbadness(s, EXIT_RECOV), SFS_ROOTDIR_INO,
                                      [i EXCEPT !.type = "dir"]),
                  SFS_ROOTDIR_INO)

----------------------------------------------------------------------------
(* Pass 2: the directory tree *)

\* sfsdir_sort: the indexes of the entries by name, free ones last.
sfsdir_sort(d, nd) ==
    LET names == {d[k].name : k \in {k \in 0 .. nd - 1 : d[k].ino # SFS_NOINO}}
        order == SetToSeq(names)
        key   == [k \in 0 .. nd - 1 |->
                    IF d[k].ino = SFS_NOINO THEN Len(order) + 1
                    ELSE CHOOSE p \in DOMAIN order : order[p] = d[k].name]
    IN  qsort([k \in 1 .. nd |-> k - 1], key)

\* Of two adjacent entries of one name, one goes or is renamed.
pass2_names(s, d, nd) ==
    LET v == sfsdir_sort(d, nd)
    IN  For(nd - 1, [s |-> s, d |-> d], LAMBDA w, k :
          LET d1 == w.d[v[k + 1]]
              d2 == w.d[v[k + 2]]
          IN  IF SFS_NOINO \in {d1.ino, d2.ino} \/ d1.name # d2.name THEN w
              ELSE IF d1.ino = d2.ino
              THEN [s |-> setbadness(w.s, EXIT_RECOV), d |-> [w.d EXCEPT ![v[k + 1]] = NoEntry]]
              ELSE [s |-> uniqueid(setbadness(w.s, EXIT_RECOV)),
                    d |-> [w.d EXCEPT ![v[k + 1]].name = uniquename(w.s, d1.ino)]])

\* The entry name of the directory, which should be for ino: set right, or
\* put in a free slot, perhaps one after the nd entries in the last block.
pass2_dot(w, name, ino) ==
    LET at   == {k \in 0 .. w.nd - 1 : w.d[k].name = name}
        free == {k \in DOMAIN w.d : w.d[k].ino = SFS_NOINO}
        add  == [w EXCEPT !.s = setbadness(@, EXIT_RECOV),
                          !.d[Min(free)] = [ino |-> ino, name |-> name],
                          !.nd = IF Min(free) < w.nd THEN @ ELSE @ + 1]
    IN  CASE Cardinality(at) > 1 -> [w EXCEPT !.s = die(@, "dotseen assert")]
          [] Cardinality(at) = 1 ->
               IF w.d[Min(at)].ino = ino THEN w
               ELSE [w EXCEPT !.s = setbadness(@, EXIT_RECOV), !.d[Min(at)].ino = ino]
          [] at = {} /\ free # {} -> add
          [] OTHER -> [w EXCEPT !.s = setbadness(@, EXIT_UNRECOV)]

\* The directory d of inode i, written back as w has it.
pass2_writedir(w, ino, i, d) ==
    LET nd  == Cardinality(DOMAIN d)
        new == [i EXCEPT !.linkcount = w.subdirs + 2, !.size = @ + (w.nd - nd) * CkDirent]
        dirs(t) == IF \A k \in 0 .. w.nd - 1 : k < nd /\ w.d[k] = d[k] THEN t
                   ELSE sfs_writedir(t, new, w.d, w.nd)
        inodes(t) == IF new = i THEN t ELSE sfs_writeinode(t, ino, new)
    IN  IF w.s.dead # "" THEN w.s
        ELSE inodes(dirs(IF i.linkcount = new.linkcount THEN w.s
                         ELSE setbadness(w.s, EXIT_RECOV)))

\* A subdirectory was visited, or has been visited before (been), so that it
\* is dropped from the directory.
pass2_drop(w, t, k) == [w EXCEPT !.s = setbadness(t, EXIT_RECOV), !.d[k] = NoEntry]
pass2_subdir(w, r, k) ==
    IF r.been THEN pass2_drop(w, r.s, k) ELSE [w EXCEPT !.s = r.s, !.subdirs = @ + 1]

RECURSIVE pass2_dir(_, _, _)
pass2_dir(s, ino, parentino) ==
    LET visit(w, k) ==
            LET sub  == w.d[k].ino
                type == sfs_readinode(w.s, sub).type
            IN  CASE ~IsChild(w.d[k]) -> w
                  [] IsChild(w.d[k]) /\ type = "file" -> [w EXCEPT !.s = inode_addlink(@, sub)]
                  [] IsChild(w.d[k]) /\ type = "dir" ->
                       pass2_subdir(w, pass2_dir(w.s, sub, ino), k)
                  [] OTHER -> pass2_drop(w, w.s, k)
        loop(w) == For(w.nd, w, visit)
        room(w, nd) == [s |-> w.s, nd |-> nd, subdirs |-> 0,
                        d |-> [k \in 0 .. SFS_ROUNDUP(nd, CkPerBlock) - 1 |->
                                 IF k < nd THEN w.d[k] ELSE NoEntry]]
        checks(t, i, d) ==
            LET nd == Cardinality(DOMAIN d)
            IN  pass2_writedir(loop(pass2_dot(pass2_dot(room(pass2_names(t, d, nd), nd),
                                                        Dot, ino), DotDot, parentino)),
                               ino, i, d)
        load(t, i) == IF t.dead # "" THEN t
                      ELSE checks(t, i, sfs_readdir(t, i, i.size \div CkDirent))
    IN  IF ino \in DOMAIN s.inodes /\ s.inodes[ino].visited THEN [s |-> s, been |-> TRUE]
        ELSE [s |-> load(inode_visitdir(s, ino), sfs_readinode(s, ino)), been |-> FALSE]

pass2(s) == pass2_dir(s, SFS_ROOTDIR_INO, SFS_ROOTDIR_INO).s

----------------------------------------------------------------------------
(* Behaviour *)

CkInit ==
    \E d \in {mksfs} \cup CkImages :
        ck = [disk |-> d, pc |-> "idle", faults |-> 0, runs |-> 0, before |-> d,
              freemapdata |-> {}, tofreedata |-> {}, inodes |-> <<>>,
              badness |-> EXIT_CLEAN, uid |-> 0, dead |-> ""]

\* A field of an inode, a directory entry, an indirect block, the bitmap or
\* the superblock has another value.
DamagedInodes(i) ==
    {[i EXCEPT !.type = t] : t \in {"inval", "file", "dir"}}
    \cup {[i EXCEPT !.size = z] : z \in CkSizes}
    \cup {[i EXCEPT !.linkcount = @ + 1], [i EXCEPT !.waste = TRUE]}
    \cup {[i EXCEPT !.direct[j] = p] : j \in 0 .. CK_NDIRECT - 1, p \in CkPointers}
    \cup {[i EXCEPT !.indirect = p] : p \in CkPointers}

DamagedDirs(d) ==
    {[d EXCEPT ![j].ino = p] : j \in DOMAIN d, p \in CkPointers}
    \cup {[d EXCEPT ![j].name = n] : j \in DOMAIN d, n \in CkNames}

DamagedBlocks(c) ==
    CASE c[1] = "inode" -> {<<"inode", i>> : i \in DamagedInodes(c[2])}
      [] c[1] = "dir" -> {<<"dir", d>> : d \in DamagedDirs(c[2])}
      [] c[1] = "idb" -> {<<"idb", [c[2] EXCEPT ![j] = p]>> : j \in DOMAIN c[2], p \in CkPointers}
      [] c[1] = "freemap" -> {<<"freemap", SymDiff(c[2], {b})>> : b \in 1 .. CkBits - 1}
      [] c[1] = "super" -> {<<"super", [c[2] EXCEPT !.reserved = TRUE]>>,
                            <<"super", [c[2] EXCEPT !.magic = FALSE]>>}
      [] OTHER -> {}

damage ==
    /\ ck.pc = "idle" /\ ck.runs = 0 /\ ck.faults < CkFaults
    /\ \E b \in 0 .. CkBlocks - 1 : \E c \in DamagedBlocks(ck.disk[b]) :
         ck' = [ck EXCEPT !.disk[b] = c, !.faults = @ + 1]

\* main up to the first phase: sb_load, sb_check, freemap_setup.
start ==
    /\ ck.pc = "idle" /\ ck.runs < CkRuns[ck.faults]
    /\ LET s  == [ck EXCEPT !.runs = @ + 1, !.before = ck.disk, !.inodes = <<>>,
                            !.badness = EXIT_CLEAN, !.uid = 0, !.dead = ""]
           sb == s.disk[SFS_SUPER_BLOCK][2]
           t  == IF sb.reserved
                 THEN diskwrite(setbadness(s, EXIT_RECOV), SFS_SUPER_BLOCK, "super",
                                [sb EXCEPT !.reserved = FALSE])
                 ELSE s
       IN  ck' = IF sb.magic THEN [freemap_setup(t) EXCEPT !.pc = "pass1"]
                 ELSE [die(s, "sb_load") EXCEPT !.pc = "done", !.badness = EXIT_FATAL]

\* A phase, after which the program goes on unless it has died.
phase(at, result, next) ==
    /\ ck.pc = at
    /\ ck' = [result EXCEPT !.pc = IF result.dead = "" THEN next ELSE "done"]

pass1 == phase("pass1", pass1_rootdir(ck), "freemap")
bitmap == phase("freemap", freemap_check(ck), "pass2")
tree == phase("pass2", pass2(ck), "links")
links == phase("links", inode_adjust_filelinks(ck), "done")

\* The machine stops between two phases.
stop ==
    /\ ck.pc \in {"freemap", "pass2", "links"} /\ ck.runs < CkRuns[ck.faults]
    /\ ck' = [ck EXCEPT !.pc = "idle"]

again ==
    /\ ck.pc = "done" /\ ck.runs < CkRuns[ck.faults]
    /\ ck' = [ck EXCEPT !.pc = "idle"]

CkNext == damage \/ start \/ pass1 \/ bitmap \/ tree \/ links \/ stop \/ again

CkSpec == CkInit /\ [][CkNext]_ck

----------------------------------------------------------------------------
(* What a sound volume is *)

\* The directory of inode ino on disk d.
Listing(d, ino) ==
    LET i == AsInode(d[ino]) IN sfs_readdir([disk |-> d], i, i.size \div CkDirent)

\* Its entries for children: the directory, the slot, the inode and its type.
Children(d, dir) ==
    LET l == Listing(d, dir)
    IN  {[dir |-> dir, slot |-> k, ino |-> l[k].ino, type |-> AsInode(d[l[k].ino]).type] :
            k \in {k \in DOMAIN l : IsChild(l[k])}}

SubDirs(es) == {e.ino : e \in {e \in es : e.type = "dir"}}

\* The entries for children in all the directories that can be reached.
Entries(d) ==
    LET reach[n \in Nat] ==
          IF n = 0 THEN Children(d, SFS_ROOTDIR_INO)
          ELSE LET r == reach[n - 1] IN r \cup UNION {Children(d, p) : p \in SubDirs(r)}
    IN  reach[CkBlocks]

EntriesFor(es, ino) == {e \in es : e.ino = ino}
Inodes(es) == {SFS_ROOTDIR_INO} \cup {e.ino : e \in es}

\* The blocks of an inode, as pairs of a place in the file and a block.
FileBlocks(d, ino) ==
    LET i == AsInode(d[ino])
    IN  {f \in {<<fb, i.direct[fb]>> : fb \in 0 .. CK_NDIRECT - 1}
               \cup {<<CK_NDIRECT + j, AsIdb(d[i.indirect])[j]>> :
                       j \in IF i.indirect = 0 THEN {} ELSE 0 .. CK_DBPERIDB - 1} : f[2] # 0}

\* Every use of a block, as pairs of a user and a block.
Uses(d, es) ==
    {<<<<"inode", ino>>, ino>> : ino \in Inodes(es)}
    \cup {<<<<"idb", ino>>, AsInode(d[ino]).indirect>> :
            ino \in {x \in Inodes(es) : AsInode(d[x]).indirect # 0}}
    \cup UNION {{<<<<"data", ino, f[1]>>, f[2]>> : f \in FileBlocks(d, ino)} : ino \in Inodes(es)}
    \cup {<<<<"sb">>, SFS_SUPER_BLOCK>>, <<<<"map">>, SFS_FREEMAP_START>>}

\* Each directory names itself and its parent, and is in one place only; no
\* two of its entries have one name.
TreeSound(d, es) ==
    /\ EntriesFor(es, SFS_ROOTDIR_INO) = {}
    /\ \A p \in {SFS_ROOTDIR_INO} \cup SubDirs(es) :
         LET l == Listing(d, p)
             used == {k \in DOMAIN l : l[k].ino # SFS_NOINO}
             up == IF p = SFS_ROOTDIR_INO THEN p ELSE (CHOOSE e \in EntriesFor(es, p) : TRUE).dir
         IN  /\ AsInode(d[p]).size % CkDirent = 0
             /\ \E k \in used : l[k] = [ino |-> p, name |-> Dot]
             /\ \E k \in used : l[k] = [ino |-> up, name |-> DotDot]
             /\ \A j, k \in used : l[j].name = l[k].name => j = k
             /\ p # SFS_ROOTDIR_INO => Cardinality(EntriesFor(es, p)) = 1

LinksSound(d, es) ==
    \A ino \in Inodes(es) :
        LET i == AsInode(d[ino])
        IN  /\ i.type \in {"file", "dir"} /\ ~i.waste
            /\ i.linkcount = IF i.type = "file" THEN Cardinality(EntriesFor(es, ino))
                             ELSE 2 + Cardinality({e \in es : e.dir = ino /\ e.type = "dir"})

\* Every block has one use, within the file it is of, and is marked used; a
\* block that is marked and not used is one of leaked.
BlocksSound(d, es, leaked) ==
    LET uses == Uses(d, es)
        used == {u[2] : u \in uses}
        map  == d[SFS_FREEMAP_START][2]
    IN  /\ Cardinality(used) = Cardinality(uses) /\ \A b \in used : b < CkBlocks
        /\ \A ino \in Inodes(es) : \A f \in FileBlocks(d, ino) :
             f[1] * CkBlockSize < AsInode(d[ino]).size
        /\ used \cup CkPastEnd \subseteq map
        /\ map \ (used \cup CkPastEnd) \subseteq leaked

VolumeSound(d, leaked) ==
    LET es == Entries(d) IN TreeSound(d, es) /\ LinksSound(d, es) /\ BlocksSound(d, es, leaked)

----------------------------------------------------------------------------
(* Properties *)

\* A run of sfsck that ends with EXIT_CLEAN or EXIT_RECOV leaves a volume
\* that is sound, except that an indirect block the run has dropped may stay
\* marked used; one that ends with EXIT_CLEAN has found it so and changed
\* nothing.  So it is also after an earlier run was cut short.  No assertion
\* of the program fails unless the damage is beyond repair.
SfsckSound ==
    ck.pc = "done" =>
        /\ ck.dead \in {"", "sb_load", "inode_find"} \/ ck.badness = EXIT_UNRECOV
        /\ ck.dead = "" /\ ck.badness = EXIT_CLEAN =>
             ck.disk = ck.before /\ VolumeSound(ck.disk, {})
        /\ ck.dead = "" /\ ck.badness = EXIT_RECOV =>
             VolumeSound(ck.disk, {AsInode(c).indirect : c \in {ck.before[b] : b \in DOMAIN ck.before}})

=============================================================================

----------------------------- MODULE MCStorage ------------------------------
(***************************************************************************)
(* The parts of the storage system for TLC, one of them in a behaviour:    *)
(* SFS, the disk driver under it, the VFS layer over it, the count of a    *)
(* semfs semaphore, the emulator file system; and the bus with its console *)
(* and clock.                                                              *)
(***************************************************************************)
EXTENDS Naturals, Sequences, TLC

CONSTANTS Procs, Disks

VARIABLES
    part,
    sfs, sfsOps,
    lhdPc, lhdRw, lhdResid, lhdTried, lhdGot, lhdErr, lh_clear, lh_done, lh_result,
    lhdSect, lhdStat, lhdBuf, lhdDisk, lhdErrors,
    vfs, vfsPc, vfsHeld,
    sems_count, cv, semPc, uio_resid,
    em,
    dv

S == INSTANCE Sfs WITH
       SfsBlocks <- 8, SfsNames <- {"a", "b"}, SfsValues <- {0}, SFS_BLOCKSIZE <- 2,
       SFS_NDIRECT <- 1, SFS_DBPERIDB <- 2, SfsPerBlock <- 1, SfsWrites <- {<<1, 2>>},
       SfsLengths <- {0, 2}, SfsMaxRefs <- 1, SfsMaxFaults <- 1, SfsMaxOps <- 6

L == INSTANCE Lhd WITH
       LhdThreads <- Disks, LhdRaw <- {CHOOSE t \in Disks : TRUE}, LhdTries <- 2,
       LhdMaxErrors <- 3, LhdBadWrites <- FALSE

lhd0 == [name |-> "lhd0", rawname |-> "lhd0raw", volname |-> "vol", hardwired |-> FALSE]
con == [name |-> "con", rawname |-> "", volname |-> "", hardwired |-> FALSE]

truncFlags == [creat |-> FALSE, excl |-> FALSE, trunc |-> TRUE, write |-> TRUE]
creatFlags == [creat |-> TRUE, excl |-> TRUE, trunc |-> FALSE, write |-> TRUE]

V == INSTANCE Vfs WITH
       VfsProcs <- Procs, VfsAutoconf <- <<lhd0, con>>, VfsMaxOpen <- 1,
       VfsFlags <- {truncFlags, creatFlags}

C == INSTANCE SemfsSem WITH Readers <- {CHOOSE p \in Procs : TRUE}, UINT_MAX <- 9, pc <- semPc

E == INSTANCE Emufs WITH
       EmThreads <- Procs, EmVnodes <- 1 .. 3, EmHandles <- 3, EmNames <- {"a"}, EMU_MAXIO <- 1,
       EmSize <- 2, EmRetries <- 1, EmErrors <- 2, EmNoMem <- 1, EmOps <- 2, NoThread <- "none"

jobs == {[w1 |-> "write", w2 |-> "write"], [w1 |-> "write", w2 |-> "polled"],
         [w1 |-> "kprintf", w2 |-> "kprintf"], [w1 |-> "read", w2 |-> "read"],
         [w1 |-> "write", w2 |-> "read"], [w1 |-> "polled", w2 |-> "polled"],
         [w1 |-> "gettime", w2 |-> "none"], [w1 |-> "none", w2 |-> "clocksleep"]}

B == INSTANCE Devices WITH
       DvSlots <- <<[dev |-> "timer", drl |-> 1], [dev |-> "serial", drl |-> 1],
                    [dev |-> "none", drl |-> 0]>>,
       DvCpuMasks <- {[cpus |-> {0, 1, 3}, self |-> 1]}, DvThreads <- {"w1", "w2"},
       DvJobs <- jobs, DvText <- <<"c", "\n">>, DvKeys <- <<"c", "\r", "c">>, DvReadLen <- 2,
       CONSOLE_INPUT_BUFFER_SIZE <- 3, DELAYBUFSIZE <- 1, DvBoot <- 1, DvGlitches <- 1,
       MaxDuds <- 3, DvTime <- 9, DvSecond <- 4, DvSmall <- 2, DvSlow <- 1, DvSleep <- 2,
       DvErrors <- 1, NoOne <- "none"

ASSUME /\ S!SfsAssumption /\ L!LhdAssumption /\ V!VfsAssumption
       /\ C!SemfsSemAssumption /\ E!EmufsAssumption /\ B!DevicesAssumption

sfsV == <<sfs, sfsOps>>
lhdV == <<lhdPc, lhdRw, lhdResid, lhdTried, lhdGot, lhdErr, lh_clear, lh_done, lh_result,
          lhdSect, lhdStat, lhdBuf, lhdDisk, lhdErrors>>
vfsV == <<vfs, vfsPc, vfsHeld>>
semV == <<sems_count, cv, semPc, uio_resid>>

Init ==
    /\ part \in {"sfs", "lhd", "vfs", "semfs", "emufs", "devices"}
    /\ S!SfsInit /\ L!LhdInit /\ V!VfsInit /\ C!Init /\ E!EmInit /\ B!DvInit

Next ==
    \/ /\ part = "sfs" /\ S!SfsNext
       /\ UNCHANGED <<part, lhdV, vfsV, semV, em, dv>>
    \/ /\ part = "lhd" /\ L!LhdNext
       /\ UNCHANGED <<part, sfsV, vfsV, semV, em, dv>>
    \/ /\ part = "vfs" /\ V!VfsNext
       /\ UNCHANGED <<part, sfsV, lhdV, semV, em, dv>>
    \/ /\ part = "semfs" /\ C!Next
       /\ UNCHANGED <<part, sfsV, lhdV, vfsV, em, dv>>
    \/ /\ part = "emufs" /\ E!EmNext
       /\ UNCHANGED <<part, sfsV, lhdV, vfsV, semV, dv>>
    \/ /\ part = "devices" /\ B!DvNext
       /\ UNCHANGED <<part, sfsV, lhdV, vfsV, semV, em>>

Spec == Init /\ [][Next]_<<part, sfsV, lhdV, vfsV, semV, em, dv>>

symmetry == Permutations(Procs)

\* What the future depends on: blocks that are free, written behind a dirty inode
\* or only data are not read again; nor are the registers of the emulator device
\* when nobody has its lock; the other parts do not move.  (The comparison of sfs
\* with itself has TLC bring the record into its normal form first.)
live ==
    CASE part = "sfs" -> <<part, sfsOps,
           IF sfs # sfs THEN 0 ELSE
             [sfs EXCEPT !.want = 0, !.disk = [b \in S!Blocks |->
                IF b = S!SFS_FREEMAP_START
                THEN IF sfs.freemapdirty THEN S!Zeros ELSE @[b]
                ELSE IF \/ sfs.mounted /\ b \notin sfs.freemap
                        \/ sfs.mounted /\ b \in DOMAIN sfs.vn /\ sfs.vn[b].dirty
                        \/ @[b][1] = "data"
                THEN S!Zeros ELSE @[b]]]>>
      [] part = "lhd" -> <<part, lhdV>>
      [] part = "vfs" -> <<part, vfsV>>
      [] part = "semfs" -> <<part, semV>>
      [] part = "devices" -> <<part, dv>>
      [] part = "emufs" -> <<part, IF em.e_lock # "none" THEN em
                                   ELSE [em EXCEPT !.reg = 0, !.iobuf = 0, !.e_result = 0]>>

----------------------------------------------------------------------------
(* The properties of the parts *)


\* What lhd_io and sfs_rwblock say was transferred was.
ReadBack == part = "lhd" => L!ReadBack

\* vnode references are exact in every call of vfspath.c and vfslookup.c, and a
\* file system in use stays mounted.
VfsSound == part = "vfs" => V!RefsExact /\ V!InUseStaysMounted

\* A reader of a semfs semaphore is not asleep while there are units.
NoStrandedReader == part = "semfs" => C!NoStrandedReader


\* Vnodes, references and device handles agree in the emulator file system.
EmufsSound == part = "emufs" => E!EmufsSound

=============================================================================

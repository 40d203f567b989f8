------------------------------- MODULE MCUser -------------------------------
(***************************************************************************)
(* The file system calls and user programs for TLC, one of them in a       *)
(* behaviour.  The parts take their variables from the same few, and leave *)
(* those they do not need at 0.                                            *)
(***************************************************************************)
EXTENDS Integers, Sequences, FiniteSets, TLC

CONSTANTS p1, p2, f1, f2, reg, con, NULL

VARIABLES part, s1, s2, s3, s4, s5, s6, s7, s8, s9, s10, s11

----------------------------------------------------------------------------
(* Instances *)

F == INSTANCE Files WITH
       Procs <- {p1, p2}, Openfiles <- {f1, f2}, Vnodes <- {reg, con}, Seekable <- {reg},
       StdFds <- {0}, Modes <- {"RDONLY", "RDWR"}, OPEN_MAX <- 2, MaxOffset <- 1,
       ft_openfiles <- s1, of_vnode <- s2, of_accmode <- s3, of_offset <- s4,
       of_refcount <- s5, of_holder <- s6, vn_refs <- s7, vn_size <- s8, pc <- s9,
       arg <- s10, result <- s11

sized == {"createwrite", "rewrite", "randupdate", "truncwrite", "makehole", "fillhole",
          "truncfill", "append", "trunczero", "trunconeblock", "truncsmallersize",
          "trunclargersize", "appendandtrunczero", "appendandtruncpartly"}
unsized == {"mkfile", "mkdir", "mkmanyfile", "mkmanydir", "mktree", "untar", "rmfile", "rmdir",
            "rmfiledelayed", "rmfiledelayedappend", "rmdirdelayed", "rmmanyfile",
            "rmmanyfiledelayed", "rmmanyfiledelayedandappend", "rmmanydir",
            "rmmanydirdelayed", "rmtree", "linkfile", "linkmanyfile", "unlinkfile",
            "unlinkmanyfile", "linkunlinkfile", "renamefile", "renamedir", "renamesubtree",
            "renamexdfile", "renamexddir", "renamexdsubtree", "renamemanyfile",
            "renamemanydir", "renamemanysubtree", "copyandrename", "mkrandtree",
            "rmrandtree", "writefileseq", "writetruncseq", "mkrmseq", "linkunlinkseq",
            "renameseq", "diropseq", "genseq"}

R == INSTANCE Frack WITH
       BLOCKSIZE <- 2, SFS_NDIRECT <- 2, SFS_DBPERIDB <- 2, DATA_MAXSIZE <- 8, MAXFILES <- 5,
       FrMany <- 4, FrFew <- 2, FrThings <- 2, FrRandThings <- 3, FrOps <- 2,
       FrRandWrites <- {<<1, 2>>, <<0, 4>>}, FrRandTruncs <- {0, 3},
       FrWorkloads <- (sized \X {"small", "medium", "large"}) \cup (unsized \X {""}),
       fr <- s1, frk <- s2, frv <- s3, frh <- s4, frOut <- s5

\* A volume with a file that has two names, one of them in a subdirectory; and
\* one as the kernel leaves it, without "." and "..".
inode(type, size, links, first, indirect) ==
    <<"inode", [type |-> type, size |-> size, linkcount |-> links, waste |-> FALSE,
                direct |-> (0 :> first) @@ (1 :> 0), indirect |-> indirect]>>
entry(ino, name) == [ino |-> ino, name |-> name]
dirblock(es) == <<"dir", [j \in 0 .. 3 |-> IF j < Len(es) THEN es[j + 1] ELSE entry(0, <<>>)]>>

treeVolume ==
    (0 :> <<"super", [magic |-> TRUE, volname |-> <<"v">>, reserved |-> FALSE]>>) @@
    (1 :> inode("dir", 8, 3, 3, 0)) @@
    (2 :> <<"freemap", (0 .. 9) \cup {11}>>) @@
    (3 :> dirblock(<<entry(1, <<".">>), entry(1, <<".", ".">>), entry(4, <<"a">>),
                     entry(6, <<"b">>)>>)) @@
    (4 :> inode("file", 20, 2, 5, 7)) @@
    (6 :> inode("dir", 6, 2, 9, 0)) @@
    (7 :> <<"idb", (0 :> 8) @@ (1 :> 0)>>) @@
    (9 :> dirblock(<<entry(6, <<".">>), entry(1, <<".", ".">>), entry(4, <<"c">>)>>)) @@
    [b \in {5, 8, 10} |-> <<"zeros">>]

kernelVolume ==
    [treeVolume EXCEPT ![1] = inode("dir", 2, 1, 3, 0), ![3] = dirblock(<<entry(4, <<"a">>)>>),
                       ![2] = <<"freemap", {0, 1, 2, 3, 4, 5, 7, 8, 11}>>,
                       ![4] = inode("file", 20, 1, 5, 7), ![6] = <<"zeros">>, ![9] = <<"zeros">>]

C == INSTANCE Sfsck WITH
       CkBlocks <- 11, CkBits <- 12, CkDirent <- 2, CkPerBlock <- 4, CK_NDIRECT <- 2,
       CK_DBPERIDB <- 2, CK_NAMELEN <- 4, CkImages <- {treeVolume, kernelVolume},
       CkPointers <- {1, 4, 8, 11}, CkSizes <- {3, 20}, CkNames <- {<<>>, <<".">>, <<"a">>},
       CkFaults <- 2, CkRuns <- (0 :> 3) @@ (1 :> 2) @@ (2 :> 1), ck <- s1

H == INSTANCE UserHeap WITH
       HpPage <- 4, HpStart <- 4, HpStack <- 52, HpSmall <- 3, HpMedium <- 5, HpBig <- 9,
       HpHuge <- 64, HpSizes <- {1, 5}, HpSlots <- 3, HpNum <- 3, HpClamp <- 6, HpRuns <- 2,
       hp <- s1

Q == INSTANCE Psort WITH
       PsProcs <- {1, 2}, PsNumkeys <- {1, 3}, PsWork <- {1, 2}, RANDOM_MAX <- 5,
       PsRandom <- {0, 1, 2, 4, 5}, PsCatBuf <- 1, PsFaults <- 1, ps <- s1

S == INSTANCE Shell WITH
       ShPids <- {2, 3, 4}, MAXBG <- 2, ShCodes <- {0, 1, 4}, SigCodes <- {3}, ShVal <- 4,
       ShLines <- 3, sh <- s1

ASSUME /\ F!FilesAssumption /\ R!FrackAssumption /\ C!SfsckAssumption
       /\ H!UserHeapAssumption /\ Q!PsortAssumption /\ S!ShellAssumption

----------------------------------------------------------------------------
(* Behaviour *)

From2 == s2 = 0 /\ s3 = 0 /\ s4 = 0 /\ s5 = 0
From6 == s6 = 0 /\ s7 = 0 /\ s8 = 0 /\ s9 = 0 /\ s10 = 0 /\ s11 = 0

Init ==
    \/ part = "files" /\ F!Init
    \/ part = "frack" /\ R!FrInit /\ From6
    \/ part = "sfsck" /\ C!CkInit /\ From2 /\ From6
    \/ part = "heap" /\ H!HpInit /\ From2 /\ From6
    \/ part = "psort" /\ Q!PsInit /\ From2 /\ From6
    \/ part = "shell" /\ S!ShInit /\ From2 /\ From6

after1 == <<s2, s3, s4, s5, s6, s7, s8, s9, s10, s11>>
after5 == <<s6, s7, s8, s9, s10, s11>>

Next ==
    /\ UNCHANGED part
    /\ \/ part = "files" /\ F!Next
       \/ part = "frack" /\ R!FrNext /\ UNCHANGED after5
       \/ part = "sfsck" /\ C!CkNext /\ UNCHANGED after1
       \/ part = "heap" /\ H!HpNext /\ UNCHANGED after1
       \/ part = "psort" /\ Q!PsNext /\ UNCHANGED after1
       \/ part = "shell" /\ S!ShNext /\ UNCHANGED after1

Spec == Init /\ [][Next]_<<part, s1, after1>>

\* Of a system call the result, s11, is written and never read.
live == <<part, s1, s2, s3, s4, s5, s6, s7, s8, s9, s10>>

symmetry == Permutations({p1, p2}) \cup Permutations({f1, f2})

----------------------------------------------------------------------------
(* The properties of the parts *)

\* References to open files are counted exactly, and each vfs_open is closed
\* once, when the last reference goes; the seek position that open files share is
\* not used stale.
FilesSound == part = "files" => F!RefcountExact /\ F!VnodeBalanced /\ F!OffsetStable


\* A run of sfsck leaves a sound volume unless it says otherwise.
SfsckSound == part = "sfsck" => C!SfsckSound

\* malloctest and sbrktest find no fault with malloc, free and sbrk.
HeapSound == part = "heap" => H!HeapSound


\* The shell keeps exact account of its background jobs.
ShellSound == part = "shell" => S!ShellSound
=============================================================================

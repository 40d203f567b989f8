------------------------------- MODULE MCProc -------------------------------
(***************************************************************************)
(* Proc, whose user processes are interchangeable, the kernel's tests of   *)
(* threads, waiting and file systems, usemtest, and the kernel's           *)
(* containers, for TLC: one of them in a behaviour, while the variables of *)
(* the others stay as they are at first.                                   *)
(***************************************************************************)
EXTENDS ProcRefinement, TLC

VARIABLES part, kt

T == INSTANCE KernTests WITH
       KtTests <- {"semtest", "locktest", "cvtest", "cvtest2", "threadtest", "threadtest2",
                   "threadtest3", "waittest", "airballoon"},
       KtThreads <- 3, KtLoops <- 2, KtCvs <- 2, NROPES <- 2, KtKillers <- 2

FT == INSTANCE FsTests WITH
        FtTests <- {"fstest", "readstress", "writestress", "writestress2", "longstress",
                    "createstress", "printfile"},
        NCHUNKS <- 4, NTHREADS <- 2, NLONG <- 2, NCREATE <- 2, FtAlphabet <- 3, FtBuf <- 2,
        FtFaults <- 1, ft <- kt

U == INSTANCE Usemtest WITH
       NUMJOBS <- 3, ONCELOOPS <- 1, TWICELOOPS <- 1, THRICELOOPS <- 1, UsStale <- {2},
       UsFaults <- 1, us <- kt

C == INSTANCE Containers WITH
       NUMNAMES <- 5, CnThreads <- 3, CnArray <- 6, CnMax <- 5, CnBits <- {0, 1, 4, 5},
       BITS_PER_WORD <- 2, cn <- kt

ASSUME T!KernTestsAssumption /\ FT!FsTestsAssumption /\ U!UsemtestAssumption
ASSUME C!ContainersBounds

UserSymmetry == Permutations(Procs \ {kproc})

SumInit ==
    /\ Init
    /\ \/ part = "proc" /\ kt = 0
       \/ part = "tests" /\ T!KtInit
       \/ part = "fstests" /\ FT!FtInit
       \/ part = "usemtest" /\ U!UsInit
       \/ part = "containers" /\ C!CnInit

\* A test that has ended, or a kernel that has panicked, does no more.
SumNext ==
    /\ UNCHANGED part
    /\ \/ part = "proc" /\ Next /\ UNCHANGED kt
       \/ part = "tests" /\ T!KtNext /\ UNCHANGED vars
       \/ part = "fstests" /\ FT!FtNext /\ UNCHANGED vars
       \/ part = "usemtest" /\ U!UsNext /\ UNCHANGED vars
       \/ part = "containers" /\ C!CnNext /\ UNCHANGED vars
       \/ part # "proc" /\ UNCHANGED <<vars, kt>>

SumSpec == SumInit /\ [][SumNext]_<<part, kt, vars>>

=============================================================================

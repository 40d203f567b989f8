------------------------------ MODULE MCKernel ------------------------------
(***************************************************************************)
(* Parts of the kernel for TLC, one of them in a behaviour: semaphores,    *)
(* locks and condition variables, virtual memory, the heap, execv, and     *)
(* exceptions with the interrupt level and spinlocks.                      *)
(***************************************************************************)
EXTENDS SynchRefinement, TLC

CONSTANTS t1, t2, t3

VARIABLES
    part,       \* with the variables of Synch
    cm, cm_evict_index, mem, swap_bitmap, disk, pt, l2_entries, pt_frames, as_lock,
    heap_end, tlb, curproc, vmPc, vmArg, vmPanic, val,
    kmTestName, km, kmPc, kmArg, kmTest,
    execthrottle, ex,
    tr

Mem == INSTANCE Vm WITH
       CPUs <- {"c"}, Procs <- {t1, t2}, first <- t1, NPAGES <- 1, NFRAMES <- 6,
       swap_slots <- 2, L2_SIZE <- 2, pc <- vmPc, arg <- vmArg, panic <- vmPanic

K == INSTANCE Kmalloc WITH
       KmThreads <- {t1, t2}, KmMain <- t1, KmNFrames <- 4, KmTaken <- 1, PAGE_SIZE <- 8,
       sizes <- <<2, 4>>, GUARD_OVERHEAD <- 1, LABEL_OVERHEAD <- 1, NUM_PAGEREFPAGES <- 2,
       NPAGEREFS_PER_PAGE <- 3, NTRIES <- 3, ITEMSIZE <- 1, Km3Sizes <- <<1, 0>>,
       Km4Sizes <- <<1, 2>>

load == [type |-> "LOAD", vaddr |-> 0, memsz |-> 2, filesz |-> 2, short |-> FALSE,
         write |-> FALSE, exec |-> TRUE]
elf == [magic |-> TRUE, shortheader |-> FALSE, shortphdr |-> FALSE,
        seg |-> <<[type |-> "skip"], load,
                  [load EXCEPT !.vaddr = 16, !.memsz = 3, !.filesz = 1, !.write = TRUE]>>]

X == INSTANCE Exec WITH
       ExProcs <- {t1, t2}, ExArgvs <- {<<>>, <<4, 3>>, <<10, 6>>, <<10, 7>>, <<3, 0>>, <<10, 7, 0>>, <<33>>},
       ExFiles <- {elf, [elf EXCEPT !.seg = <<[load EXCEPT !.vaddr = 16, !.memsz = 17, !.filesz = 18]>>],
                   [elf EXCEPT !.magic = FALSE], [elf EXCEPT !.seg[3].short = TRUE],
                   [elf EXCEPT !.seg[1] = [type |-> "other"]]},
       PAGE_SIZE <- 16, WORD <- 2, ARG_MAX <- 32, EXEC_BIGBUF_THROTTLE <- 1,
       USERSPACETOP <- 80, STACK_SIZE <- 16

Tr == INSTANCE Trap WITH
       TrCpus <- {1, 2}, TrThreads <- {"b1", "b2", "a", "b"}, TrBoot <- (1 :> "b1") @@ (2 :> "b2"),
       TrNoStack <- {"b1"}, TrUser <- {"a"}, TrTraps <- 4,
       TrOps <- [thread |-> 0, sys |-> 1, fault |-> 1, irq |-> 1], NoCpu <- 0

ASSUME /\ Threads = {t1, t2, t3} /\ Mem!VmAssumption
       /\ K!KmallocAssumption /\ X!ExecAssumption /\ Tr!TrapAssumption

vmV == <<cm, cm_evict_index, mem, swap_bitmap, disk, pt, l2_entries, pt_frames, as_lock,
         heap_end, tlb, curproc, vmPc, vmArg, vmPanic, val>>
kmV == <<kmTestName, km, kmPc, kmArg, kmTest>>
execV == <<execthrottle, ex>>

PartsInit ==
    /\ part \in {"synch", "vm", "kmalloc", "exec", "trap"}
    /\ Init /\ Mem!Init /\ K!KmInit /\ X!ExInit /\ Tr!TrInit

PartsNext ==
    \/ part = "synch" /\ Next /\ UNCHANGED <<part, vmV, kmV, execV, tr>>
    \/ part = "vm" /\ Mem!Next /\ UNCHANGED <<part, vars, kmV, execV, tr>>
    \/ part = "kmalloc" /\ K!KmNext /\ UNCHANGED <<part, vars, vmV, execV, tr>>
    \/ part = "exec" /\ X!ExNext /\ UNCHANGED <<part, vars, vmV, kmV, tr>>
    \/ part = "trap" /\ Tr!TrNext /\ UNCHANGED <<part, vars, vmV, kmV, execV>>

PartsSpec == PartsInit /\ [][PartsNext]_<<part, vars, vmV, kmV, execV, tr>>

----------------------------------------------------------------------------
(* What the future depends on *)

\* A frame that holds no page, and a slot that holds none, is written before it is
\* read.
readFrames ==
    {pt[h[1]][h[2]].ppn : h \in {<<p, v>> \in {t1, t2} \X Mem!Pages : Mem!Resident(p, v)}} \cup
    UNION {{vmArg[p].src, vmArg[p].frame} : p \in {t1, t2}}

readSlots ==
    {pt[h[1]][h[2]].swap_offset :
       h \in {<<p, v>> \in {t1, t2} \X Mem!Pages : pt[p][v].valid}} \cup
    {vmArg[p].slot : p \in {q \in {t1, t2} : vmPc[q] = "unmap"}}

\* Of its two spaces a process has one between two calls of execv, whichever.
live ==
    CASE part = "synch" -> <<part, vars>>
      [] part = "kmalloc" -> <<part, kmV>>
      [] part = "trap" -> <<part, tr>>
      [] part = "exec" -> <<part, execthrottle, [p \in {t1, t2} |->
           [ex[p] EXCEPT !.as = 0, !.space = IF ex[p].as = 0 THEN X!NoSpace ELSE X!Space(ex[p])]]>>
      [] part = "vm" ->
           <<part, cm, cm_evict_index, [f \in readFrames \cap Mem!Frames |-> mem[f]],
             swap_bitmap, [s \in readSlots \cap Mem!Slots |-> disk[s]],
             pt, l2_entries, pt_frames, as_lock, heap_end, tlb, curproc, vmPc, vmArg,
             vmPanic, val>>

----------------------------------------------------------------------------
(* The properties of the parts *)

\* No frame holds two pages or a page and a table, and none of them is free; a
\* swap slot is in use exactly while a page lives in it or is on its way there.
FramesAndSlots == part = "vm" => Mem!FramesPrivate /\ Mem!SlotsExact





\* The levels, counts, stacks and saved registers of the trap code agree, however
\* interrupts, system calls, faults, switches and migrations nest.
TrapSound == part = "trap" => Tr!TrapSound
=============================================================================

--------------------------------- MODULE Vm ---------------------------------
(***************************************************************************)
(* Paged virtual memory: the coremap, page faults and eviction of          *)
(* kern/arch/mips/vm/vm.c, the page tables of kern/vm/pagetable.c, the     *)
(* address spaces of kern/vm/addrspace.c, kern/vm/swap.c and sbrk.         *)
(*                                                                         *)
(* A process has one thread and one address space, so it names both.  A    *)
(* thread moves only while a cpu runs it.  Sections under cm_spinlock,     *)
(* under the owner's as_lock, or inside swap.c are steps; what happens     *)
(* between them is any step of another thread.  A page is its place in the *)
(* page table; the pages below heap_end are valid.  Tables and copies come *)
(* from alloc_kpages one frame at a time.  A failed KASSERT, and the first *)
(* use of an address space that has been freed, stop the model (panic).    *)
(***************************************************************************)
EXTENDS Naturals, FiniteSets, FiniteSetsExt

CONSTANTS
    CPUs,
    Procs,          \* process lifetimes
    first,          \* the process that runs at the start
    NPAGES,         \* bound: pages of an address space
    NFRAMES,        \* last_page - first_page
    swap_slots,
    L2_SIZE,        \* entries of a second-level table
    NULL

VmAssumption ==
    /\ first \in Procs
    /\ {NPAGES, NFRAMES, swap_slots, L2_SIZE} \subseteq Nat \ {0}
    /\ NULL \notin Procs \cup CPUs \cup Nat

Pages == 0 .. NPAGES - 1
Frames == 0 .. NFRAMES - 1
Slots == 0 .. swap_slots - 1

L1_INDEX(v) == v \div L2_SIZE

\* What a page holds: zeros, what the program wrote, or what the kernel keeps
\* in physical page 0.
Data == {"zero", "written", "page 0"}

VARIABLES
    cm,             \* the coremap
    cm_evict_index,
    mem,            \* the contents of each frame
    swap_bitmap,    \* the slots in use
    disk,           \* the contents of each slot
    pt,             \* the page table of each address space
    l2_entries,     \* the second-level tables it has
    pt_frames,      \* the frames the tables themselves are in
    as_lock,        \* the thread that holds it
    heap_end,
    tlb,            \* of each cpu: the frame it has for a page
    curproc,        \* the process each cpu runs
    pc, arg, panic,
    val             \* auxiliary: what the process last stored in each page

coremap == <<cm, cm_evict_index>>
swap == <<swap_bitmap, disk>>
spaces == <<pt, l2_entries, pt_frames, as_lock, heap_end>>
cpus == <<tlb, curproc>>
vars == <<coremap, mem, swap, spaces, cpus, pc, arg, panic, val>>

NoPte == [valid |-> FALSE, in_mem |-> FALSE, swap_offset |-> NULL, ppn |-> NULL]

FreeFrame == [used |-> FALSE, kernel_page |-> FALSE, busy |-> FALSE,
              owner |-> NULL, vaddr |-> NULL]

KernelFrame == [FreeFrame EXCEPT !.used = TRUE, !.kernel_page = TRUE]

UserFrame(p, v) == [FreeFrame EXCEPT !.used = TRUE, !.owner = p, !.vaddr = v]

\* page: the page of a fault or of the copying loop; next: where to go on with
\* the frame that is asked for; try: how often alloc_user_page has tried;
\* frame: the frame of the faulting page, or the table as_create made;
\* victim, owner, vaddr, slot: of evict_one; src: the frame copied from;
\* child: the process fork makes.
NoArg == [page |-> NULL, next |-> NULL, try |-> 0, frame |-> NULL,
          victim |-> NULL, owner |-> NULL, vaddr |-> NULL, slot |-> NULL,
          src |-> NULL, child |-> NULL]

Init ==
    /\ cm = [f \in Frames |-> IF f = 0 THEN KernelFrame ELSE FreeFrame]
    /\ cm_evict_index = 0
    /\ mem = [f \in Frames |-> "zero"]
    /\ swap_bitmap = {}
    /\ disk = [s \in Slots |-> "zero"]
    /\ pt = [p \in Procs |-> [v \in Pages |-> NoPte]]
    /\ l2_entries = [p \in Procs |-> {}]
    /\ pt_frames = [p \in Procs |-> IF p = first THEN {0} ELSE {}]
    /\ as_lock = [p \in Procs |-> NULL]
    /\ heap_end = [p \in Procs |-> 0]
    /\ tlb = [c \in CPUs |-> [v \in Pages |-> NULL]]
    /\ curproc = [c \in CPUs |-> NULL]
    /\ pc = [p \in Procs |-> IF p = first THEN "user" ELSE "none"]
    /\ arg = [p \in Procs |-> NoArg]
    /\ panic = "none"
    /\ val = [p \in Procs |-> [v \in Pages |-> "zero"]]

----------------------------------------------------------------------------
(* Threads and cpus *)

Exists(p) == pc[p] \notin {"none", "dead"}

\* Thread p runs and is at label.
At(p, label) ==
    /\ panic = "none"
    /\ pc[p] = label
    /\ \E c \in CPUs : curproc[c] = p

cpu(p) == CHOOSE c \in CPUs : curproc[c] = p

Goto(p, label) == pc' = [pc EXCEPT ![p] = label]

\* The end of a system call or of a fault.
Return(p) == Goto(p, "user") /\ arg' = [arg EXCEPT ![p] = NoArg]

KASSERT(p, what) ==
    /\ panic' = what
    /\ UNCHANGED <<coremap, mem, swap, spaces, cpus, pc, arg, val>>

\* thread_switch to p, with as_activate at its end, which empties the TLB.
as_activate(c, p) ==
    /\ panic = "none"
    /\ Exists(p)
    /\ \A d \in CPUs : curproc[d] # p
    /\ curproc' = [curproc EXCEPT ![c] = p]
    /\ tlb' = [tlb EXCEPT ![c] = [v \in Pages |-> NULL]]
    /\ UNCHANGED <<coremap, mem, swap, spaces, pc, arg, panic, val>>

\* The program stores to a page that the TLB has.
Store(p, v) ==
    LET f == tlb[cpu(p)][v]
    IN  /\ At(p, "user")
        /\ f # NULL
        /\ mem' = [mem EXCEPT ![f] = "written"]
        /\ val' = [val EXCEPT ![p][v] = "written"]
        /\ UNCHANGED <<coremap, swap, spaces, cpus, pc, arg, panic>>

----------------------------------------------------------------------------
(* alloc_kpages, alloc_user_page and evict_one *)

\* Ask for a frame and go on at next.  A table or a copy is one call of
\* alloc_kpages (try 3); a faulting page is alloc_user_page (try 1).
Alloc(p, args, next) ==
    /\ Goto(p, "alloc")
    /\ arg' = [arg EXCEPT ![p] = [args EXCEPT !.next = next, !.victim = NULL,
                                      !.try = IF next \in {"zero", "swap in"}
                                              THEN 1 ELSE 3]]

FreeFrames == {f \in Frames : ~cm[f].used}

Evictable(f) ==
    /\ cm[f].used
    /\ ~cm[f].kernel_page
    /\ ~cm[f].busy
    /\ cm[f].owner # NULL

\* The first evictable frame from cm_evict_index on.
Candidate ==
    (cm_evict_index + Min({i \in Frames :
                             Evictable((cm_evict_index + i) % NFRAMES)})) % NFRAMES

\* The first free frame becomes a kernel page and goes to the caller, in victim.
alloc_kpages(p) ==
    /\ At(p, "alloc")
    /\ FreeFrames # {}
    /\ LET f == Min(FreeFrames)
       IN  /\ cm' = [cm EXCEPT ![f] = KernelFrame]
           /\ arg' = [arg EXCEPT ![p].victim = f]
    /\ Goto(p, arg[p].next)
    /\ UNCHANGED <<cm_evict_index, mem, swap, spaces, cpus, panic, val>>

\* No frame is free.
alloc_full(p) ==
    /\ At(p, "alloc")
    /\ FreeFrames = {}
    /\ Goto(p, "evict")
    /\ UNCHANGED <<coremap, mem, swap, spaces, cpus, arg, panic, val>>

\* evict_one fails: alloc_kpages returns 0, after which alloc_user_page calls
\* evict_one once more by itself.
EvictFails(p) ==
    /\ Goto(p, IF arg[p].try = 1 THEN "evict" ELSE "no memory")
    /\ arg' = [arg EXCEPT ![p].try = IF @ = 1 THEN 2 ELSE 3,
                          ![p].victim = NULL, ![p].owner = NULL,
                          ![p].vaddr = NULL, ![p].slot = NULL]

\* The scan under cm_spinlock.
evict_scan(p) ==
    /\ At(p, "evict")
    /\ IF \E f \in Frames : Evictable(f)
       THEN /\ cm' = [cm EXCEPT ![Candidate].busy = TRUE]
            /\ cm_evict_index' = (Candidate + 1) % NFRAMES
            /\ arg' = [arg EXCEPT ![p].victim = Candidate]
            /\ Goto(p, "owner")
       ELSE EvictFails(p) /\ UNCHANGED coremap
    /\ UNCHANGED <<mem, swap, spaces, cpus, panic, val>>

\* The owner and its page are read after cm_spinlock is released.
evict_owner(p) ==
    LET e == cm[arg[p].victim]
    IN  /\ At(p, "owner")
        /\ IF e.owner = NULL
           THEN KASSERT(p, "as != NULL")
           ELSE /\ arg' = [arg EXCEPT ![p].owner = e.owner, ![p].vaddr = e.vaddr]
                /\ Goto(p, "lock")
                /\ UNCHANGED <<coremap, mem, swap, spaces, cpus, panic, val>>

\* lock_acquire(as->as_lock).
evict_lock(p) ==
    LET q == arg[p].owner
    IN  /\ At(p, "lock")
        /\ Exists(q)
        /\ \/ /\ as_lock[q] = p
              /\ KASSERT(p, "lk_holder != curthread")
           \/ /\ as_lock[q] = NULL
              /\ as_lock' = [as_lock EXCEPT ![q] = p]
              /\ Goto(p, "recheck")
              /\ UNCHANGED <<coremap, mem, swap, pt, l2_entries, pt_frames,
                             heap_end, cpus, arg, panic, val>>

\* The owner has exited since it was read from the coremap, or before.
evict_freed(p) ==
    /\ pc[p] \in {"lock", "recheck", "unmap"}
    /\ At(p, pc[p])
    /\ ~Exists(arg[p].owner)
    /\ KASSERT(p, "as has been freed")

\* The page must still be in the frame: otherwise the loop goes on without
\* cm_spinlock, and the next spinlock_release of it fails its assertion.
\* Then swap_alloc_slot.
evict_recheck(p) ==
    LET q == arg[p].owner
        f == arg[p].victim
        e == pt[q][arg[p].vaddr]
    IN  /\ At(p, "recheck")
        /\ Exists(q)
        /\ \/ /\ ~(e.valid /\ e.in_mem /\ e.ppn = f)
              /\ KASSERT(p, "splk_holder == curcpu")
           \/ /\ e.valid /\ e.in_mem /\ e.ppn = f
              /\ swap_bitmap # Slots
              /\ LET s == Min(Slots \ swap_bitmap)
                 IN  /\ swap_bitmap' = swap_bitmap \cup {s}
                     /\ arg' = [arg EXCEPT ![p].slot = s]
              /\ Goto(p, "write")
              /\ UNCHANGED <<coremap, mem, disk, spaces, cpus, panic, val>>
           \/ /\ e.valid /\ e.in_mem /\ e.ppn = f
              /\ swap_bitmap = Slots
              /\ as_lock' = [as_lock EXCEPT ![q] = NULL]
              /\ cm' = [cm EXCEPT ![f].busy = FALSE]
              /\ EvictFails(p)
              /\ UNCHANGED <<cm_evict_index, mem, swap, pt, l2_entries, pt_frames,
                             heap_end, cpus, panic, val>>


\* swap_write_page.
swap_write_page(p) ==
    /\ At(p, "write")
    /\ disk' = [disk EXCEPT ![arg[p].slot] = mem[arg[p].victim]]
    /\ Goto(p, "unmap")
    /\ UNCHANGED <<coremap, mem, swap_bitmap, spaces, cpus, arg, panic, val>>

\* swap_write_page fails.
evict_write_fails(p) ==
    LET q == arg[p].owner
    IN  /\ At(p, "write")
        /\ Exists(q)
        /\ as_lock' = [as_lock EXCEPT ![q] = NULL]
        /\ cm' = [cm EXCEPT ![arg[p].victim].busy = FALSE]
        /\ swap_bitmap' = swap_bitmap \ {arg[p].slot}
        /\ EvictFails(p)
        /\ UNCHANGED <<cm_evict_index, mem, disk, pt, l2_entries, pt_frames,
                       heap_end, cpus, panic, val>>


\* vm_tlbshootdown: the running cpu's TLB forgets the page.
vm_tlbshootdown(p, pages) ==
    tlb' = [tlb EXCEPT ![cpu(p)] =
              [v \in Pages |-> IF v \in pages THEN NULL ELSE @[v]]]

\* The entry is changed, the TLB told and the lock released.
evict_unmap(p) ==
    LET q == arg[p].owner
        v == arg[p].vaddr
    IN  /\ At(p, "unmap")
        /\ Exists(q)
        /\ pt' = [pt EXCEPT ![q][v] = [@ EXCEPT !.swap_offset = arg[p].slot,
                                               !.in_mem = FALSE, !.ppn = NULL]]
        /\ vm_tlbshootdown(p, {v})
        /\ as_lock' = [as_lock EXCEPT ![q] = NULL]
        /\ Goto(p, "free")
        /\ UNCHANGED <<coremap, mem, swap, l2_entries, pt_frames, heap_end, curproc,
                       arg, panic, val>>

\* free_ppage, and back to alloc_kpages.
evict_free(p) ==
    /\ At(p, "free")
    /\ cm' = [cm EXCEPT ![arg[p].victim] = FreeFrame]
    /\ arg' = [arg EXCEPT ![p].try = IF @ = 1 THEN 1 ELSE 3,
                          ![p].victim = NULL, ![p].owner = NULL,
                          ![p].vaddr = NULL, ![p].slot = NULL]
    /\ Goto(p, "alloc")
    /\ UNCHANGED <<cm_evict_index, mem, swap, spaces, cpus, panic, val>>

evict_one(p) ==
    \/ evict_scan(p)
    \/ evict_owner(p)
    \/ evict_lock(p)
    \/ evict_freed(p)
    \/ evict_recheck(p)
    \/ swap_write_page(p)
    \/ evict_write_fails(p)
    \/ evict_unmap(p)
    \/ evict_free(p)

----------------------------------------------------------------------------
(* vm_fault *)

Release(p) == as_lock' = [as_lock EXCEPT ![p] = NULL]

\* The TLB has no entry for a page of the address space.
vm_fault(p, v) ==
    LET e == pt[p][v]
        args == [NoArg EXCEPT !.page = v]
    IN  /\ At(p, "user")
        /\ tlb[cpu(p)][v] = NULL
        /\ v < heap_end[p]
        /\ as_lock[p] = NULL
        /\ as_lock' = [as_lock EXCEPT ![p] = p]
        /\ \/ /\ e.valid /\ e.in_mem
              /\ Goto(p, "tlb")
              /\ arg' = [arg EXCEPT ![p] = args]
           \/ e.valid /\ ~e.in_mem /\ Alloc(p, args, "swap in")
           \/ ~e.valid /\ Alloc(p, args, "zero")
        /\ UNCHANGED <<coremap, mem, swap, pt, l2_entries, pt_frames, heap_end,
                       cpus, panic, val>>

\* pagetable_insert into a table that is there, and cm_set_user_page.
pagetable_insert(p, f) ==
    LET v == arg[p].page
    IN  /\ pt' = [pt EXCEPT ![p][v] = [valid |-> TRUE, in_mem |-> TRUE,
                                       swap_offset |-> NULL, ppn |-> f]]
        /\ cm' = [cm EXCEPT ![f] = UserFrame(p, v)]
        /\ arg' = [arg EXCEPT ![p] = [NoArg EXCEPT !.page = v]]
        /\ Goto(p, "tlb")

\* The new page is zeroed; its table may be missing.
fault_zero(p) ==
    LET f == arg[p].victim
    IN  /\ At(p, "zero")
        /\ mem' = [mem EXCEPT ![f] = "zero"]
        /\ \/ /\ L1_INDEX(arg[p].page) \in l2_entries[p]
              /\ pagetable_insert(p, f)
           \/ /\ L1_INDEX(arg[p].page) \notin l2_entries[p]
              /\ Alloc(p, [arg[p] EXCEPT !.frame = f], "new l2")
              /\ UNCHANGED <<cm, pt>>
        /\ UNCHANGED <<cm_evict_index, swap, l2_entries, pt_frames, as_lock,
                       heap_end, cpus, panic, val>>

fault_l2(p) ==
    /\ At(p, "new l2")
    /\ l2_entries' = [l2_entries EXCEPT ![p] = @ \cup {L1_INDEX(arg[p].page)}]
    /\ pt_frames' = [pt_frames EXCEPT ![p] = @ \cup {arg[p].victim}]
    /\ pagetable_insert(p, arg[p].frame)
    /\ UNCHANGED <<cm_evict_index, mem, swap, as_lock, heap_end, cpus,
                   panic, val>>

\* Mutant: the slot is not freed.
SlotKept(p) ==
    LET f == arg[p].victim
        s == pt[p][arg[p].page].swap_offset
    IN  /\ At(p, "swap in")
        /\ mem' = [mem EXCEPT ![f] = disk[s]]
        /\ pagetable_insert(p, f)
        /\ UNCHANGED <<cm_evict_index, swap, l2_entries, pt_frames, as_lock,
                       heap_end, cpus, panic, val>>

\* The page is read from its slot, which is then free.
swap_read_page(p) ==
    LET f == arg[p].victim
        s == pt[p][arg[p].page].swap_offset
    IN  /\ At(p, "swap in")
        /\ mem' = [mem EXCEPT ![f] = disk[s]]
        /\ swap_bitmap' = swap_bitmap \ {s}
        /\ pagetable_insert(p, f)
        /\ UNCHANGED <<cm_evict_index, disk, l2_entries, pt_frames, as_lock,
                       heap_end, cpus, panic, val>>

\* It cannot be read.
swap_read_fails(p) ==
    /\ At(p, "swap in")
    /\ cm' = [cm EXCEPT ![arg[p].victim] = FreeFrame]
    /\ Release(p)
    /\ Return(p)
    /\ UNCHANGED <<cm_evict_index, mem, swap, pt, l2_entries, pt_frames, heap_end,
                   cpus, panic, val>>

\* tlb_insert_entry, on the cpu that runs the thread by now.
tlb_insert_entry(p) ==
    LET v == arg[p].page
    IN  /\ At(p, "tlb")
        /\ tlb' = [tlb EXCEPT ![cpu(p)][v] = pt[p][v].ppn]
        /\ Release(p)
        /\ Return(p)
        /\ UNCHANGED <<coremap, mem, swap, pt, l2_entries, pt_frames, heap_end,
                       curproc, panic, val>>

\* ENOMEM: the frame of a page whose table cannot be had is not given back.
fault_no_memory(p) ==
    /\ At(p, "no memory")
    /\ arg[p].next \in {"zero", "swap in", "new l2"}
    /\ Release(p)
    /\ Return(p)
    /\ UNCHANGED <<coremap, mem, swap, pt, l2_entries, pt_frames, heap_end, cpus,
                   panic, val>>

----------------------------------------------------------------------------
(* sbrk, fork and exit *)

\* The heap grows to n pages; they come at their first fault.
sbrk_grow(p, n) ==
    /\ At(p, "user")
    /\ as_lock[p] = NULL
    /\ n > heap_end[p]
    /\ heap_end' = [heap_end EXCEPT ![p] = n]
    /\ UNCHANGED <<coremap, mem, swap, pt, l2_entries, pt_frames, as_lock, cpus,
                   pc, arg, panic, val>>

\* The heap shrinks to n pages (free_heap_pages).  Others look at these
\* entries under as_lock only, so the loop is one step.
sbrk_shrink(p, n) ==
    LET gone == {v \in Pages : n <= v /\ v < heap_end[p] /\ pt[p][v].valid}
        frames == {pt[p][v].ppn : v \in {w \in gone : pt[p][w].in_mem}}
        slots == {pt[p][v].swap_offset : v \in {w \in gone : ~pt[p][w].in_mem}}
    IN  /\ At(p, "user")
        /\ as_lock[p] = NULL
        /\ n < heap_end[p]
        /\ cm' = [f \in Frames |-> IF f \in frames THEN FreeFrame ELSE cm[f]]
        /\ swap_bitmap' = swap_bitmap \ slots
        /\ pt' = [pt EXCEPT ![p] = [v \in Pages |->
                                      IF v \in gone THEN NoPte ELSE @[v]]]
        /\ vm_tlbshootdown(p, gone)
        /\ heap_end' = [heap_end EXCEPT ![p] = n]
        /\ val' = [val EXCEPT ![p] = [v \in Pages |->
                                        IF v >= n THEN "zero" ELSE @[v]]]
        /\ UNCHANGED <<cm_evict_index, mem, disk, l2_entries, pt_frames, as_lock,
                       curproc, pc, arg, panic>>

\* as_copy(old = p, new = q) begins: as_create makes a page table.
fork(p, q) ==
    /\ At(p, "user")
    /\ pc[q] = "none"
    /\ \A r \in Procs : arg[r].child # q
    /\ Alloc(p, [NoArg EXCEPT !.child = q], "as_create")
    /\ UNCHANGED <<coremap, mem, swap, spaces, cpus, panic, val>>

\* A table of the new address space has its frame.
NewTable(p) ==
    /\ pt_frames' = [pt_frames EXCEPT ![arg[p].child] = @ \cup {arg[p].victim}]
    /\ UNCHANGED <<coremap, mem, swap, pt, as_lock, heap_end, cpus, panic, val>>

as_create(p) ==
    /\ At(p, "as_create")
    /\ Alloc(p, [arg[p] EXCEPT !.frame = arg[p].victim], "pagetable_copy")
    /\ NewTable(p)
    /\ UNCHANGED l2_entries

\* pagetable_copy makes a table of its own.
pagetable_copy(p) ==
    /\ At(p, "pagetable_copy")
    /\ arg' = [arg EXCEPT ![p].page = 0, ![p].victim = NULL]
    /\ Goto(p, "copy")
    /\ NewTable(p)
    /\ UNCHANGED l2_entries

l2_ptable_copy(p) ==
    /\ At(p, "l2_ptable_copy")
    /\ l2_entries' = [l2_entries EXCEPT ![arg[p].child] =
                        @ \cup {L1_INDEX(arg[p].page)}]
    /\ arg' = [arg EXCEPT ![p].victim = NULL]
    /\ Goto(p, "copy")
    /\ NewTable(p)

\* The next entry: a missing table and an entry that is not valid are left out.
copy_next(p) ==
    LET v == arg[p].page
        q == arg[p].child
        i == L1_INDEX(v)
    IN  /\ At(p, "copy")
        /\ v < NPAGES
        /\ \/ /\ i \in l2_entries[p] /\ i \notin l2_entries[q]
              /\ Alloc(p, arg[p], "l2_ptable_copy")
           \/ /\ i \in l2_entries[p] /\ i \in l2_entries[q]
              /\ pt[p][v].valid
              /\ Alloc(p, arg[p], "copy_entry")
           \/ /\ i \notin l2_entries[p] \/ (i \in l2_entries[q] /\ ~pt[p][v].valid)
              /\ arg' = [arg EXCEPT ![p].page = v + 1]
              /\ UNCHANGED pc
        /\ UNCHANGED <<coremap, mem, swap, spaces, cpus, panic, val>>

\* copy_entry reads the frame of the page, without as_lock.
copy_entry(p) ==
    /\ At(p, "copy_entry")
    /\ arg' = [arg EXCEPT ![p].src = pt[p][arg[p].page].ppn]
    /\ Goto(p, "memcpy")
    /\ UNCHANGED <<coremap, mem, swap, spaces, cpus, panic, val>>

\* The copy: ppn 0 is physical page 0.  The frame stays a kernel page.
copy_memcpy(p) ==
    LET v == arg[p].page
        q == arg[p].child
        f == arg[p].victim
        data == IF arg[p].src = NULL THEN "page 0" ELSE mem[arg[p].src]
    IN  /\ At(p, "memcpy")
        /\ mem' = [mem EXCEPT ![f] = data]
        /\ pt' = [pt EXCEPT ![q][v] = [valid |-> TRUE, in_mem |-> TRUE,
                      swap_offset |-> pt[p][v].swap_offset, ppn |-> f]]
        /\ val' = [val EXCEPT ![q][v] = data]
        /\ arg' = [arg EXCEPT ![p].page = v + 1, ![p].src = NULL, ![p].victim = NULL]
        /\ Goto(p, "copy")
        /\ UNCHANGED <<coremap, swap, l2_entries, pt_frames, as_lock, heap_end, cpus,
                       panic>>

\* The child starts.  The table as_create made is not given back.
copy_done(p) ==
    LET q == arg[p].child
    IN  /\ At(p, "copy")
        /\ arg[p].page = NPAGES
        /\ pt_frames' = [pt_frames EXCEPT ![q] = @ \ {arg[p].frame}]
        /\ heap_end' = [heap_end EXCEPT ![q] = heap_end[p]]
        /\ pc' = [pc EXCEPT ![p] = "user", ![q] = "user"]
        /\ arg' = [arg EXCEPT ![p] = NoArg]
        /\ UNCHANGED <<coremap, mem, swap, pt, l2_entries, as_lock, cpus, panic, val>>

\* ENOMEM: every table is given back, no page is.  A page already copied from
\* the same second-level table is passed to free_kpages by an address that is
\* not a page's.
fork_no_memory(p) ==
    LET q == arg[p].child
        v == arg[p].page
    IN  /\ At(p, "no memory")
        /\ arg[p].next \in {"as_create", "pagetable_copy", "l2_ptable_copy",
                            "copy_entry"}
        /\ IF /\ arg[p].next = "copy_entry"
              /\ \E w \in Pages : /\ w < v
                                  /\ L1_INDEX(w) = L1_INDEX(v)
                                  /\ pt[q][w].valid
           THEN KASSERT(p, "pp_num < last_page")
           ELSE /\ cm' = [f \in Frames |-> IF f \in pt_frames[q]
                                           THEN FreeFrame ELSE cm[f]]
                /\ pt_frames' = [pt_frames EXCEPT ![q] = {}]
                /\ l2_entries' = [l2_entries EXCEPT ![q] = {}]
                /\ pt' = [pt EXCEPT ![q] = [w \in Pages |-> NoPte]]
                /\ val' = [val EXCEPT ![q] = [w \in Pages |-> "zero"]]
                /\ Return(p)
                /\ UNCHANGED <<cm_evict_index, mem, swap, as_lock, heap_end, cpus,
                               panic>>

\* as_destroy at exit: the tables and the slots, but no frame of a page.
as_destroy(p) ==
    LET out == {v \in Pages : pt[p][v].valid /\ ~pt[p][v].in_mem}
    IN  /\ At(p, "user")
        /\ cm' = [f \in Frames |-> IF f \in pt_frames[p] THEN FreeFrame ELSE cm[f]]
        /\ swap_bitmap' = swap_bitmap \ {pt[p][v].swap_offset : v \in out}
        /\ pt_frames' = [pt_frames EXCEPT ![p] = {}]
        /\ l2_entries' = [l2_entries EXCEPT ![p] = {}]
        /\ pt' = [pt EXCEPT ![p] = [v \in Pages |-> NoPte]]
        /\ val' = [val EXCEPT ![p] = [v \in Pages |-> "zero"]]
        /\ heap_end' = [heap_end EXCEPT ![p] = 0]
        /\ as_lock' = [as_lock EXCEPT ![p] = NULL]
        /\ Goto(p, "dead")
        /\ UNCHANGED <<cm_evict_index, mem, disk, cpus, arg, panic>>

Next ==
    \/ \E c \in CPUs, p \in Procs : as_activate(c, p)
    \/ \E p \in Procs :
         \/ alloc_kpages(p)
         \/ alloc_full(p)
         \/ evict_one(p)
         \/ \E v \in Pages : Store(p, v) \/ vm_fault(p, v)
         \/ fault_zero(p)
         \/ fault_l2(p)
         \/ swap_read_page(p)
         \/ swap_read_fails(p)
         \/ tlb_insert_entry(p)
         \/ fault_no_memory(p)
         \/ \E n \in 0 .. NPAGES : sbrk_grow(p, n) \/ sbrk_shrink(p, n)
         \/ \E q \in Procs : fork(p, q)
         \/ as_create(p)
         \/ pagetable_copy(p)
         \/ l2_ptable_copy(p)
         \/ copy_next(p)
         \/ copy_entry(p)
         \/ copy_memcpy(p)
         \/ copy_done(p)
         \/ fork_no_memory(p)
         \/ as_destroy(p)

Spec == Init /\ [][Next]_vars

----------------------------------------------------------------------------
(* Properties *)

\* The entry that a coremap entry names is the one that is in the frame.
Resident(p, v) == pt[p][v].valid /\ pt[p][v].in_mem

\* Every variable has its type.
TypeOK ==
    /\ cm \in [Frames -> [used : BOOLEAN, kernel_page : BOOLEAN, busy : BOOLEAN,
                          owner : Procs \cup {NULL}, vaddr : Pages \cup {NULL}]]
    /\ cm_evict_index \in Frames
    /\ mem \in [Frames -> Data]
    /\ swap_bitmap \subseteq Slots
    /\ disk \in [Slots -> Data]
    /\ pt \in [Procs -> [Pages -> [valid : BOOLEAN, in_mem : BOOLEAN,
                                   swap_offset : Slots \cup {NULL},
                                   ppn : Frames \cup {NULL}]]]
    /\ as_lock \in [Procs -> Procs \cup {NULL}]
    /\ heap_end \in [Procs -> 0 .. NPAGES]
    /\ tlb \in [CPUs -> [Pages -> Frames \cup {NULL}]]
    /\ curproc \in [CPUs -> Procs \cup {NULL}]
    /\ val \in [Procs -> [Pages -> Data]]

\* No frame holds two pages, and none that holds a page, or a page table, is
\* free or is a table as well: whatever is allocated, evicted and given back
\* meanwhile, alloc_kpages never hands out a frame that is in use.
FramesPrivate ==
    LET homes == {<<p, v>> \in Procs \X Pages : Resident(p, v)}
    IN  /\ \A h, k \in homes : h # k => pt[h[1]][h[2]].ppn # pt[k[1]][k[2]].ppn
        /\ \A h \in homes : /\ cm[pt[h[1]][h[2]].ppn].used
                            /\ \A q \in Procs : pt[h[1]][h[2]].ppn \notin pt_frames[q]
        /\ \A p, q \in Procs : p # q => pt_frames[p] \cap pt_frames[q] = {}
        /\ \A p \in Procs : \A f \in pt_frames[p] : cm[f].used /\ cm[f].kernel_page

\* A slot is in use exactly while a page lives in it or evict_one is writing
\* one there, and two pages never share it: no slot is lost, and none is taken
\* from a page that still needs it.
SlotsExact ==
    LET out == {<<p, v>> \in Procs \X Pages : pt[p][v].valid /\ ~pt[p][v].in_mem}
        writing == {p \in Procs : pc[p] \in {"write", "unmap"}}
    IN  /\ swap_bitmap = {pt[h[1]][h[2]].swap_offset : h \in out} \cup
                         {arg[p].slot : p \in writing}
        /\ Cardinality(swap_bitmap) = Cardinality(out) + Cardinality(writing)



\* fork gives the child what the parent has stored: as_copy makes "an exact
\* copy of an old one".
ForkExact ==
    [][\A p, q \in Procs :
         arg[p].child = q /\ pc[q] = "none" /\ pc'[q] = "user" => val'[q] = val[p]]_vars

\* evict_one finds an owner in the coremap entry it has made busy
\* (KASSERT(as != NULL)).
OwnerKnown == panic # "as != NULL"

\* vm_fault never asks for the lock it holds.
NotOwnLock == panic # "lk_holder != curthread"

=============================================================================

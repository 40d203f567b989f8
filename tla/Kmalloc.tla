------------------------------ MODULE Kmalloc -------------------------------
(***************************************************************************)
(* The kernel heap, kern/vm/kmalloc.c, with the debugging options the file *)
(* sets (SLOWER, GUARDS, LABELS, CHECKBEEF, CHECKGUARDS), over the page    *)
(* allocator of kern/arch/mips/vm/vm.c when there is no user page to       *)
(* evict, and under the threads of kern/test/malloctest.c.                 *)
(*                                                                         *)
(* The heap is one record, km; a section under kmalloc_spinlock or         *)
(* cm_spinlock is a step.  A block is its number on its page: its free     *)
(* list is a sequence of numbers, a free block holds "beef" and an         *)
(* allocated one its guard band (the client's size) and the client's data. *)
(* Addresses count pages and blocks; the constants choose the unit of      *)
(* sizes.                                                                  *)
(***************************************************************************)
EXTENDS Naturals, Sequences, FiniteSets, SequencesExt

CONSTANTS
    KmThreads,          \* the threads a test forks
    KmMain,             \* the one that runs malloctest3 alone
    KmNFrames,          \* pages alloc_kpages can hand out
    KmTaken,            \* bound: how many of them others may have taken before
    PAGE_SIZE,
    sizes,              \* the block sizes, ascending
    GUARD_OVERHEAD, LABEL_OVERHEAD,
    NUM_PAGEREFPAGES, NPAGEREFS_PER_PAGE,
    NTRIES,             \* bound: turns of a test thread's loop
    ITEMSIZE,
    Km3Sizes,           \* the sizes malloctest3 rotates through
    Km4Sizes            \* pages per allocation of malloctest4thread

KmallocAssumption ==
    /\ \A i \in 1 .. Len(sizes) - 1 : sizes[i] < sizes[i + 1]
    /\ sizes[Len(sizes)] <= PAGE_SIZE

VARIABLES
    kmTestName,         \* the test the menu runs
    km,                 \* the heap and the page allocator
    kmPc, kmArg,        \* where each thread is, and its locals in kmalloc
    kmTest              \* and in the test

kmVars == <<kmTestName, km, kmPc, kmArg, kmTest>>

KmFrames == 0 .. KmNFrames - 1
Roots == 0 .. NUM_PAGEREFPAGES - 1
NoFrame == KmNFrames
NoPtr == [frame |-> NoFrame, block |-> 0]

\* A pointer to a whole page, as alloc_kpages returns it.
Page(f) == [frame |-> f, block |-> 0]

Blocks(b) == 0 .. (PAGE_SIZE \div sizes[b]) - 1

\* What malloctest3 allocates: the upper tier, one block of the lower tier, and
\* NTRIES objects.
NPtrs == IF NTRIES + 2 > Len(Km4Sizes) THEN NTRIES + 2 ELSE Len(Km4Sizes)

NoCall == [size |-> 0, frame |-> NoFrame, refs |-> NoFrame, ref |-> <<0, 0>>, ptr |-> NoPtr]

Taken(n) == KmNFrames - n .. KmNFrames - 1

KmInit ==
    /\ kmTestName \in {"mallocstress", "malloctest3", "malloctest4"}
    /\ \E n \in 0 .. KmTaken :
         km = [used |-> Taken(n), kmalloc_end |-> Taken(n), taken |-> Taken(n),
               root |-> [r \in Roots |-> [page |-> NoFrame, inuse |-> {}, numinuse |-> 0]],
               pr |-> <<>>,                \* pageref -> its contents
               block |-> <<>>,             \* heap page -> block -> its contents
               sizebases |-> [b \in 1 .. Len(sizes) |-> <<>>],
               allbase |-> <<>>, panic |-> ""]
    /\ kmPc = [t \in KmThreads |-> "test"]
    /\ kmArg = [t \in KmThreads |-> NoCall]
    /\ kmTest = [t \in KmThreads |->
                   [i |-> 0, p |-> 1, ptrs |-> [k \in 1 .. NPtrs |-> NoPtr],
                    call |-> "", failed |-> FALSE]]

----------------------------------------------------------------------------
(* Whole pages *)

\* The first n free pages in a row, or NoFrame.
find_free_pp(s, n) ==
    LET fits == {f \in KmFrames : f + n <= KmNFrames /\ f .. f + n - 1 \cap s.used = {}}
    IN  IF fits = {} THEN NoFrame ELSE CHOOSE f \in fits : \A g \in fits : f <= g

kalloc(s, f, n) ==
    [s EXCEPT !.used = @ \cup f .. f + n - 1, !.kmalloc_end = @ \cup {f + n - 1}]

\* Free from f on, to the first page that ends an allocation or is not used.
free_kpages(s, f) ==
    LET stops == {e \in f .. KmNFrames - 1 : e \in s.kmalloc_end \/ e \notin s.used}
        last == IF stops = {} THEN KmNFrames - 1
                ELSE CHOOSE e \in stops : \A g \in stops : e <= g
    IN  [s EXCEPT !.used = @ \ f .. last, !.kmalloc_end = @ \ f .. last]

----------------------------------------------------------------------------
(* The checks of SLOWER *)

KASSERT(s, ok, what) == IF ok \/ s.panic # "" THEN s ELSE [s EXCEPT !.panic = what]

smallerblocksize(b) == IF b > 1 THEN sizes[b - 1] ELSE 0

checkguardband(s, f, i, b) ==
    /\ s.block[f][i] # "beef"
    /\ s.block[f][i][1] + GUARD_OVERHEAD > smallerblocksize(b)
    /\ s.block[f][i][1] + GUARD_OVERHEAD <= sizes[b]

checksubpage(s, p) ==
    LET pr == s.pr[p]
        listed == {pr.freelist[k] : k \in 1 .. Len(pr.freelist)}
    IN  IF pr.freelist = <<>> THEN pr.nfree = 0
        ELSE /\ listed \subseteq Blocks(pr.blktype)
             /\ \A i \in listed : s.block[pr.page][i] = "beef"
             /\ Cardinality(listed) = Len(pr.freelist)
             /\ Len(pr.freelist) = pr.nfree
             /\ \A i \in Blocks(pr.blktype) \ listed : checkguardband(s, pr.page, i, pr.blktype)

OnLists(s) == UNION {ToSet(s.sizebases[b]) : b \in 1 .. Len(sizes)}

\* A pageref that has been freed describes no page.
checksubpages(s) ==
    /\ OnLists(s) \cup ToSet(s.allbase) \subseteq DOMAIN s.pr
    /\ \A p \in OnLists(s) \cup ToSet(s.allbase) : checksubpage(s, p)
    /\ Len(FlattenSeq(s.sizebases)) = Len(s.allbase)

----------------------------------------------------------------------------
(* Pagerefs *)

Room(s) == {r \in Roots : s.root[r].numinuse < NPAGEREFS_PER_PAGE}

FirstFree(s, r) ==
    CHOOSE j \in 0 .. NPAGEREFS_PER_PAGE - 1 :
       /\ j \notin s.root[r].inuse
       /\ \A k \in 0 .. j - 1 : k \in s.root[r].inuse

\* The first free pageref of the first root that has one is marked in use
\* before there is a page for it to be on.
allocpageref(s) ==
    LET r == CHOOSE r \in Room(s) : \A q \in Room(s) : r <= q
        j == FirstFree(s, r)
    IN  [ref |-> <<r, j>>,
         s |-> [s EXCEPT !.root[r].inuse = @ \cup {j}, !.root[r].numinuse = @ + 1]]

freepageref(s, p) ==
    LET r == p[1]
        s1 == KASSERT(s, \A q \in 0 .. r - 1 : s.root[q].page = NoFrame => s.root[q].numinuse = 0,
                      "root->numinuse == 0")
        s2 == KASSERT(s1, p[2] \in s.root[r].inuse /\ s.root[r].numinuse > 0, "pagerefs_inuse")
    IN  [s2 EXCEPT !.root[r].inuse = @ \ {p[2]}, !.root[r].numinuse = @ - 1]

----------------------------------------------------------------------------
(* Blocks *)

blocktype(sz) == CHOOSE b \in 1 .. Len(sizes) : sz <= sizes[b] /\ sz > smallerblocksize(b)

WithRoom(s, b) == {k \in 1 .. Len(s.sizebases[b]) : s.pr[s.sizebases[b][k]].nfree > 0}

\* doalloc: take the head of the page's free list for a client of size sz,
\* whose label counts as client data.
doalloc(s, p, sz) ==
    LET pr == s.pr[p]
        rest == Tail(pr.freelist)
        i == Head(pr.freelist)
        s1 == KASSERT(s, pr.freelist # <<>>, "freelist_offset < PAGE_SIZE")
        s2 == KASSERT(s1, (rest = <<>>) <=> (pr.nfree = 1), "pr->nfree")
        s3 == [s2 EXCEPT !.pr[p].freelist = rest, !.pr[p].nfree = @ - 1,
                         !.block[pr.page][i] = <<sz + LABEL_OVERHEAD, 0>>]
    IN  [ptr |-> [frame |-> pr.page, block |-> i + 1],
         s |-> KASSERT(s3, checksubpages(s3), "checksubpages")]

\* A fresh page of blocks of type b: all free, the last block first.
newpage(s, p, f, b) ==
    LET n == PAGE_SIZE \div sizes[b]
        new == [page |-> f, blktype |-> b, nfree |-> n, freelist |-> [k \in 1 .. n |-> n - k]]
    IN  [s EXCEPT !.pr = [q \in DOMAIN @ \cup {p} |-> IF q = p THEN new ELSE @[q]],
                  !.sizebases[b] = <<p>> \o @, !.allbase = <<p>> \o @]

remove_lists(s, p, b) ==
    [s EXCEPT !.sizebases[b] = SelectSeq(@, LAMBDA q : q # p),
              !.allbase = SelectSeq(@, LAMBDA q : q # p)]

\* The pageref of the page a pointer is on, in the order of the search.
Holding(s, ptr) == {k \in 1 .. Len(s.allbase) : s.pr[s.allbase[k]].page = ptr.frame}

Forget(f, x) == [y \in DOMAIN f \ {x} |-> f[y]]

----------------------------------------------------------------------------
(* Steps of a thread in the allocator *)

At(t, label) == kmPc[t] = label /\ km.panic = ""

Goto(t, label, arg) ==
    /\ kmPc' = [kmPc EXCEPT ![t] = label]
    /\ kmArg' = [kmArg EXCEPT ![t] = arg]
    /\ UNCHANGED <<kmTestName, kmTest>>

Returns(t, ptr) == Goto(t, "test", [NoCall EXCEPT !.ptr = ptr])

kmalloc_pages(t) ==
    /\ At(t, "kmalloc")
    /\ kmArg[t].size + GUARD_OVERHEAD + LABEL_OVERHEAD >= sizes[Len(sizes)]
    /\ LET n == (kmArg[t].size + PAGE_SIZE - 1) \div PAGE_SIZE
           f == find_free_pp(km, n)
       IN  /\ km' = IF f = NoFrame THEN km ELSE kalloc(km, f, n)
           /\ Returns(t, Page(f))

subpage_kmalloc(t) ==
    /\ At(t, "kmalloc")
    /\ kmArg[t].size + GUARD_OVERHEAD + LABEL_OVERHEAD < sizes[Len(sizes)]
    /\ LET b == blocktype(kmArg[t].size + GUARD_OVERHEAD + LABEL_OVERHEAD)
           s == KASSERT(km, checksubpages(km), "checksubpages")
           k == CHOOSE k \in WithRoom(s, b) : \A j \in WithRoom(s, b) : k <= j
           got == doalloc(s, s.sizebases[b][k], kmArg[t].size)
       IN  IF WithRoom(s, b) = {} THEN km' = s /\ Goto(t, "alloc page", kmArg[t])
           ELSE km' = got.s /\ Returns(t, got.ptr)

\* The spinlock has been released to call alloc_kpages; the page is filled.
subpage_page(t) ==
    /\ At(t, "alloc page")
    /\ LET f == find_free_pp(km, 1)
           b == blocktype(kmArg[t].size + GUARD_OVERHEAD + LABEL_OVERHEAD)
       IN  IF f = NoFrame THEN UNCHANGED km /\ Returns(t, NoPtr)
           ELSE /\ km' = [kalloc(km, f, 1) EXCEPT !.block =
                            [g \in DOMAIN @ \cup {f} |->
                               IF g = f THEN [i \in Blocks(b) |-> "beef"] ELSE @[g]]]
                /\ Goto(t, "alloc pageref", [kmArg[t] EXCEPT !.frame = f])

\* The rest of subpage_kmalloc once it has a pageref.
Finish(t, s, p) ==
    LET b == blocktype(kmArg[t].size + GUARD_OVERHEAD + LABEL_OVERHEAD)
        got == doalloc(newpage(s, p, kmArg[t].frame, b), p, kmArg[t].size)
    IN  km' = got.s /\ Returns(t, got.ptr)

subpage_pageref(t) ==
    /\ At(t, "alloc pageref")
    /\ IF Room(km) = {} THEN UNCHANGED km /\ Goto(t, "give back page", kmArg[t])
       ELSE LET got == allocpageref(km)
            IN  IF got.s.root[got.ref[1]].page = NoFrame
                THEN km' = got.s /\ Goto(t, "alloc refs", [kmArg[t] EXCEPT !.ref = got.ref])
                ELSE Finish(t, got.s, got.ref)

\* allocpagerefpage, which also drops the spinlock.
pagerefpage_alloc(t) ==
    /\ At(t, "alloc refs")
    /\ LET f == find_free_pp(km, 1)
       IN  /\ km' = IF f = NoFrame THEN km ELSE kalloc(km, f, 1)
           /\ Goto(t, "have refs", [kmArg[t] EXCEPT !.refs = f])


pagerefpage_set(t) ==
    /\ At(t, "have refs")
    /\ LET r == kmArg[t].ref[1]
           s == [km EXCEPT !.root[r].page = kmArg[t].refs]
       IN  CASE kmArg[t].refs = NoFrame /\ km.root[r].page = NoFrame ->
                  km' = km /\ Goto(t, "give back page", kmArg[t])
             [] kmArg[t].refs = NoFrame /\ km.root[r].page # NoFrame ->
                  Finish(t, km, kmArg[t].ref)
             [] kmArg[t].refs # NoFrame /\ km.root[r].page = NoFrame ->
                  Finish(t, s, kmArg[t].ref)
             [] OTHER -> km' = km /\ Goto(t, "give back refs", kmArg[t])

\* "Oops, somebody else allocated it."
pagerefpage_oops(t) ==
    /\ At(t, "give back refs")
    /\ km' = free_kpages(km, kmArg[t].refs)
    /\ Goto(t, "have refs", [kmArg[t] EXCEPT !.refs = NoFrame])

subpage_nopageref(t) ==
    /\ At(t, "give back page")
    /\ km' = free_kpages([km EXCEPT !.block = Forget(@, kmArg[t].frame)], kmArg[t].frame)
    /\ Returns(t, NoPtr)

\* kfree of a whole page goes past the subpage allocator.
kfree_pages(t) ==
    /\ At(t, "kfree")
    /\ kmArg[t].ptr.block = 0
    /\ km' = free_kpages(km, kmArg[t].ptr.frame)
    /\ Returns(t, NoPtr)

subpage_kfree(t) ==
    /\ At(t, "kfree")
    /\ kmArg[t].ptr.block > 0
    /\ LET ptr == kmArg[t].ptr
           s0 == KASSERT(km, checksubpages(km), "checksubpages")
           s1 == KASSERT(s0, Holding(km, ptr) # {}, "ptr % PAGE_SIZE == 0")
           p == km.allbase[CHOOSE k \in Holding(km, ptr) : \A j \in Holding(km, ptr) : k <= j]
           pr == km.pr[p]
           i == ptr.block - 1
           s2 == KASSERT(s1, checkguardband(km, ptr.frame, i, pr.blktype), "checkguardband")
           s3 == KASSERT(s2, i \notin ToSet(pr.freelist), "fl2 != fl")
           s4 == [s3 EXCEPT !.block[ptr.frame][i] = "beef", !.pr[p].freelist = <<i>> \o @,
                            !.pr[p].nfree = @ + 1]
           s5 == freepageref(remove_lists(s4, p, pr.blktype), p)
       IN  IF s1.panic # "" THEN km' = s1 /\ Goto(t, "panic", kmArg[t])
           ELSE IF pr.nfree + 1 = PAGE_SIZE \div sizes[pr.blktype]
           THEN /\ km' = [s5 EXCEPT !.pr = Forget(@, p), !.block = Forget(@, ptr.frame)]
                /\ Goto(t, "free page", kmArg[t])
           ELSE km' = s4 /\ Goto(t, "check", kmArg[t])

subpage_freepage(t) ==
    /\ At(t, "free page")
    /\ km' = free_kpages(km, kmArg[t].ptr.frame)
    /\ Goto(t, "check", kmArg[t])

subpage_check(t) ==
    /\ At(t, "check")
    /\ km' = KASSERT(km, checksubpages(km), "checksubpages")
    /\ Returns(t, NoPtr)

----------------------------------------------------------------------------
(* The test threads *)

Test(t, label, arg, test) ==
    /\ kmPc' = [kmPc EXCEPT ![t] = label]
    /\ kmArg' = [kmArg EXCEPT ![t] = arg]
    /\ kmTest' = [kmTest EXCEPT ![t] = test]
    /\ UNCHANGED kmTestName

Mallocs(t, sz, c) ==
    Test(t, "kmalloc", [NoCall EXCEPT !.size = sz], [c EXCEPT !.i = @ + 1, !.call = "kmalloc"])

\* Free ptrs[k].
Frees(t, k, c) ==
    Test(t, "kfree", [NoCall EXCEPT !.ptr = c.ptrs[k]],
         [c EXCEPT !.ptrs[k] = NoPtr, !.call = "kfree"])

\* The loop is over: free what is left, in the order of k, and V(sem).
Ends(t, order, c) ==
    LET left == {j \in 1 .. Len(order) : c.ptrs[order[j]] # NoPtr}
    IN  IF left = {} THEN Test(t, "done", NoCall, c)
        ELSE Frees(t, order[CHOOSE j \in left : \A k \in left : j <= k], c)

\* mallocthread: ptrs[1] is oldptr, ptrs[2] oldptr2.
mallocthread(t) ==
    LET c == kmTest[t]
        ptr == kmArg[t].ptr
        shifted == [c EXCEPT !.ptrs[2] = c.ptrs[1], !.ptrs[1] = ptr]
        Turn(d) == IF d.i < NTRIES THEN Mallocs(t, ITEMSIZE, d) ELSE Ends(t, <<2, 1>>, d)
    IN
    /\ kmTestName = "mallocstress" /\ UNCHANGED km
    /\ At(t, "test")
    /\ CASE c.call = "kmalloc" /\ ptr = NoPtr -> Test(t, "done", NoCall, [c EXCEPT !.failed = TRUE])
         [] c.call = "kmalloc" /\ ptr # NoPtr /\ c.ptrs[2] # NoPtr ->
              Test(t, "kfree", [NoCall EXCEPT !.ptr = c.ptrs[2]], [shifted EXCEPT !.call = "kfree"])
         [] c.call = "kmalloc" /\ ptr # NoPtr /\ c.ptrs[2] = NoPtr -> Turn(shifted)
         [] OTHER -> Turn(c)

NKM4 == Len(Km4Sizes)

\* q runs NKM4 \div 2 places ahead of p.
Ahead(p) == 1 + ((p - 1 + (NKM4 \div 2)) % NKM4)

\* malloctest4thread: free ptrs[q], allocate ptrs[p], advance both.
malloctest4thread(t) ==
    LET c == kmTest[t]
        stored == [c EXCEPT !.ptrs[c.p] = kmArg[t].ptr, !.p = 1 + (@ % NKM4)]
        Turn(d) ==
            IF d.i = NTRIES THEN Ends(t, [k \in 1 .. NKM4 |-> k], d)
            ELSE IF d.ptrs[Ahead(d.p)] # NoPtr THEN Frees(t, Ahead(d.p), d)
            ELSE Mallocs(t, Km4Sizes[d.p] * PAGE_SIZE, d)
    IN
    /\ kmTestName = "malloctest4" /\ UNCHANGED km
    /\ At(t, "test")
    /\ CASE c.call = "kmalloc" /\ kmArg[t].ptr = NoPtr -> Test(t, "out of memory", NoCall, c)
         [] c.call = "kmalloc" /\ kmArg[t].ptr # NoPtr -> Turn(stored)
         [] OTHER -> Turn(c)

Data(s, ptr) == s.block[ptr.frame][ptr.block - 1][2]

\* malloctest3: pointer k is the upper tier, a block of the lower tier, or
\* object k - 2, which is filled with its number and checked before it is freed.
malloctest3(t) ==
    LET c == kmTest[t]
        ptr == kmArg[t].ptr
        got == c.call = "kmalloc" /\ ptr # NoPtr
        d == IF got THEN [c EXCEPT !.ptrs[c.i] = ptr] ELSE c
        filled == IF got /\ c.i > 2
                  THEN [km EXCEPT !.block[ptr.frame][ptr.block - 1][2] = c.i] ELSE km
        order == [j \in 1 .. NTRIES + 2 |-> IF j <= NTRIES THEN j + 2 ELSE NTRIES + 3 - j]
        Size(j) == IF j <= 2 THEN Km3Sizes[1] ELSE Km3Sizes[1 + ((j - 3) % Len(Km3Sizes))]
    IN
    /\ kmTestName = "malloctest3"
    /\ t = KmMain
    /\ At(t, "test")
    /\ km' = KASSERT(filled, d.i < NTRIES + 2 \/
                       \A j \in 3 .. NTRIES + 2 : d.ptrs[j] # NoPtr => Data(filled, d.ptrs[j]) = j,
                     "malloctest3: failed")
    /\ IF c.call = "kmalloc" /\ ptr = NoPtr THEN Test(t, "out of memory", NoCall, c)
       ELSE IF d.i < NTRIES + 2 THEN Mallocs(t, Size(d.i + 1), d)
       ELSE Ends(t, order, d)

KmNext ==
    \E t \in KmThreads :
       \/ mallocthread(t) \/ malloctest3(t) \/ malloctest4thread(t)
       \/ kmalloc_pages(t) \/ subpage_kmalloc(t) \/ subpage_page(t) \/ subpage_pageref(t)
       \/ pagerefpage_alloc(t) \/ pagerefpage_set(t) \/ pagerefpage_oops(t)
       \/ subpage_nopageref(t) \/ kfree_pages(t) \/ subpage_kfree(t)
       \/ subpage_freepage(t) \/ subpage_check(t)

----------------------------------------------------------------------------
(* Properties *)

\* What the tests hold: pointers kmalloc returned and kfree was not given.
Held(t) ==
    ({kmTest[t].ptrs[k] : k \in 1 .. NPtrs} \cup
     (IF kmPc[t] = "test" THEN {kmArg[t].ptr} ELSE {})) \ {NoPtr}

\* No assertion of kmalloc.c fails, those of checksubpages included, whatever
\* happens while kmalloc_spinlock is dropped around alloc_kpages, and malloctest3
\* finds in each object what it wrote there.
KmNoPanic == km.panic = ""

\* Memory belongs to one holder: a block a test holds is allocated, on a page
\* of the heap that alloc_kpages has handed out, and no two threads hold one
\* block or one page; the pageref pages and the heap's pages are all in use.
KmExclusive ==
    /\ \A t \in KmThreads, u \in KmThreads :
         t # u => Held(t) \cap Held(u) = {}
    /\ \A t \in KmThreads : \A ptr \in Held(t) :
         /\ ptr.frame \in km.used
         /\ IF ptr.block = 0 THEN ptr.frame \notin DOMAIN km.block
            ELSE /\ ptr.frame \in DOMAIN km.block
                 /\ km.block[ptr.frame][ptr.block - 1] # "beef"
    /\ DOMAIN km.block \subseteq km.used
    /\ \A r \in Roots : km.root[r].page # NoFrame =>
         km.root[r].page \in km.used \ DOMAIN km.block

\* When every test thread has ended without failing, all memory is back but
\* the pageref pages, which are never freed.
KmAllBack ==
    (\A t \in IF kmTestName = "malloctest3" THEN {KmMain} ELSE KmThreads :
        kmPc[t] = "done" /\ ~kmTest[t].failed) =>
       km.used = km.taken \cup ({km.root[r].page : r \in Roots} \ {NoFrame})

\* The two together.
KmMemory == KmExclusive /\ KmAllBack
=============================================================================

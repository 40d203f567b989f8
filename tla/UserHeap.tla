------------------------------ MODULE UserHeap ------------------------------
(***************************************************************************)
(* The heap of a user process: sys_sbrk, the first-fit allocator of libc   *)
(* (userland/lib/libc/stdlib/malloc.c), and the two programs that test     *)
(* them (testbin/malloctest, testbin/sbrktest).                            *)
(*                                                                         *)
(* Memory is an array of words; a malloc header is two words, one with the *)
(* offset of the previous block and one with that of the next and the      *)
(* in-use bit, in units of MBLOCKSIZE.  A word without the right tag fails *)
(* M_OK, as one without the magic bits does.  The pages of a heap are      *)
(* present or can be brought in: what paging does to them is in Vm.  The   *)
(* random numbers of the tests are arbitrary.                              *)
(***************************************************************************)
EXTENDS Integers, Sequences, FiniteSets

CONSTANTS
    HpPage,      \* PAGE_SIZE in words
    HpStart,     \* heap_start, a multiple of HpPage other than 0
    HpStack,     \* stack_base: the heap ends below it
    HpSmall,     \* SMALLSIZE, MEDIUMSIZE, BIGSIZE and HUGESIZE of malloctest in words
    HpMedium,
    HpBig,
    HpHuge,
    HpSizes,     \* the sizes that test567 of malloctest asks for
    HpSlots,     \* and how many pointers it keeps
    HpNum,       \* pages that the tests of sbrktest allocate at once
    HpClamp,     \* pages that the stress test of sbrktest keeps at most
    HpRuns       \* tests that one run of a program does

VARIABLE hp

UserHeapAssumption ==
    /\ {HpPage, HpStart, HpStack, HpSmall, HpMedium, HpBig, HpHuge, HpSlots, HpNum, HpClamp,
        HpRuns} \cup HpSizes \subseteq Nat \ {0}
    /\ HpStart % HpPage = 0 /\ HpStack % HpPage = 0 /\ HpPage % 2 = 0

MBLOCKSIZE == 2
OVERHEAD == 4 * MBLOCKSIZE
NoPtr == 0
Nothing == <<"zero", 0, 0>>
Addr == HpStart .. HpStack - 1
ROUNDUP(a, b) == b * ((a + b - 1) \div b)

----------------------------------------------------------------------------
(* The address space: as = [end, mem] *)

\* A shrinking heap loses its pages from the new end on; a growing one may not
\* reach the stack.  The result is the old end, or -1.
sys_sbrk(as, amount) ==
    LET new == as.end + amount IN
    IF amount < 0 /\ new < HpStart THEN [as |-> as, ret |-> -1]
    ELSE IF amount < 0
    THEN [as |-> [end |-> new,
                  mem |-> [a \in Addr |-> IF a >= ROUNDUP(new, HpPage) THEN Nothing ELSE as.mem[a]]],
          ret |-> as.end]
    ELSE IF amount > 0 /\ ROUNDUP(new, HpPage) >= HpStack THEN [as |-> as, ret |-> -1]
    ELSE [as |-> [as EXCEPT !.end = new], ret |-> as.end]

Valid(as, a) == a >= HpStart /\ a < as.end

----------------------------------------------------------------------------
(* malloc.c: s = [as, base, top, ret, err] *)

M_OK(m, a) == m[a][1] = "prev" /\ m[a + 1][1] = "next"
M_PREVOFF(m, a) == m[a][2] * MBLOCKSIZE
M_NEXTOFF(m, a) == m[a + 1][2] * MBLOCKSIZE
M_SIZE(m, a) == M_NEXTOFF(m, a) - MBLOCKSIZE
M_DATA(a) == a + MBLOCKSIZE
M_MKFIELD(off) == off \div MBLOCKSIZE
inuse(m, a) == m[a + 1][3] = 1
SetPrev(m, a, n) == [m EXCEPT ![a] = <<"prev", n, 0>>]
SetNext(m, a, n, u) == [m EXCEPT ![a + 1] = <<"next", n, u>>]

errx(s, what) == [s EXCEPT !.err = what, !.ret = NoPtr]

\* sbrk(0) gives the base of the heap, which is page aligned.
__malloc_init(s) ==
    IF s.base # 0 \/ s.top # 0 THEN errx(s, "bad init call")
    ELSE [s EXCEPT !.base = s.as.end, !.top = s.as.end]

\* r is what sys_sbrk gave.
__malloc_sbrk(s, r, size) ==
    IF r.ret = -1 THEN [s EXCEPT !.ret = NoPtr]
    ELSE IF r.ret # s.top THEN errx(s, "heap top moved itself")
    ELSE [s EXCEPT !.as = r.as, !.top = @ + size, !.ret = r.ret]

\* The rest of a block becomes a free block when there is room for a header
\* and one unit of data.
__malloc_split(m, a, size, top) ==
    IF M_SIZE(m, a) - size < 2 * MBLOCKSIZE THEN m
    ELSE LET old == M_SIZE(m, a)
             next == a + M_NEXTOFF(m, a)
             new == a + size + MBLOCKSIZE
             m1 == SetNext(SetPrev(SetNext(m, a, M_MKFIELD(size + MBLOCKSIZE), m[a + 1][3]),
                                   new, M_MKFIELD(size + MBLOCKSIZE)),
                           new, M_MKFIELD(old - size), 0) IN
         IF next # top THEN SetPrev(m1, next, M_MKFIELD(old - size)) ELSE m1

\* The first-fit search from header i on: right is the size of the block below,
\* last the header looked at before.
RECURSIVE Search(_, _, _, _, _, _)
Search(m, top, i, right, last, size) ==
    IF i >= top
    THEN [mh |-> last, right |-> right, found |-> FALSE, corrupt |-> i # top]
    ELSE IF ~M_OK(m, i) \/ m[i][2] # right
    THEN [mh |-> last, right |-> right, found |-> FALSE, corrupt |-> TRUE]
    ELSE IF inuse(m, i) \/ M_SIZE(m, i) < size
    THEN Search(m, top, i + M_NEXTOFF(m, i), m[i + 1][2], i, size)
    ELSE [mh |-> i, right |-> m[i + 1][2], found |-> TRUE, corrupt |-> FALSE]

\* The block found is split and marked.
Allocated(s, m, a) == [s EXCEPT !.as.mem = SetNext(m, a, m[a + 1][2], 1), !.ret = M_DATA(a)]

\* A free top block grows, or a new block starts at the old top.
TopFree(s, f) == f.mh # NoPtr /\ ~inuse(s.as.mem, f.mh)
Morespace(s, f, size) ==
    ROUNDUP(IF TopFree(s, f) THEN size - M_SIZE(s.as.mem, f.mh) ELSE MBLOCKSIZE + size, HpPage)

\* t is the state after __malloc_sbrk.
Expanded(s, t, f, size, more) ==
    IF t.ret = NoPtr THEN t
    ELSE LET a == IF TopFree(s, f) THEN f.mh ELSE t.ret
             m == t.as.mem
             m1 == IF TopFree(s, f) THEN SetNext(m, a, M_MKFIELD(M_NEXTOFF(m, a) + more), 1)
                   ELSE SetNext(SetPrev(m, a, f.right), a, M_MKFIELD(more), 1) IN
         [t EXCEPT !.as.mem = __malloc_split(m1, a, size, t.top), !.ret = M_DATA(a)]

malloc_in(s, f, size) ==
    IF f.corrupt THEN errx(s, "heap corrupt")
    ELSE IF f.found THEN Allocated(s, __malloc_split(s.as.mem, f.mh, size, s.top), f.mh)
    ELSE Expanded(s, __malloc_sbrk(s, sys_sbrk(s.as, Morespace(s, f, size)), Morespace(s, f, size)),
                  f, size, Morespace(s, f, size))

malloc_rounded(s, size) ==
    malloc_in(s, Search(s.as.mem, s.top, s.base, 0, NoPtr, size), size)

malloc(s, size) ==
    malloc_rounded(IF s.base = 0 THEN __malloc_init(s) ELSE s, ROUNDUP(size, MBLOCKSIZE))

__malloc_deadbeef(m, a, n) == [b \in Addr |-> IF b >= a /\ b < a + n THEN <<"dead", 0, 0>> ELSE m[b]]

\* Mutant: the block after the merged ones keeps the old offset.
MergeAlone(s, a, b) ==
    IF s.as.mem[a + 1][2] # s.as.mem[b][2] THEN errx(s, "heap corrupt")
    ELSE IF inuse(s.as.mem, a) \/ inuse(s.as.mem, b) THEN s
    ELSE [s EXCEPT !.as.mem =
             __malloc_deadbeef(SetNext(@, a, M_MKFIELD(M_NEXTOFF(@, a) + M_NEXTOFF(@, b)), 0), b, MBLOCKSIZE)]

\* Blocks a and b, b above a, become one when both are free.
__malloc_trymerge(s, a, b) ==
    LET m == s.as.mem
        size == M_MKFIELD(M_NEXTOFF(m, a) + M_NEXTOFF(m, b))
        after == b + M_NEXTOFF(m, b)
        m1 == SetNext(m, a, size, 0) IN
    IF m[a + 1][2] # m[b][2] THEN errx(s, "heap corrupt")
    ELSE IF inuse(m, a) \/ inuse(m, b) THEN s
    ELSE [s EXCEPT !.as.mem =
             __malloc_deadbeef(IF after # s.top THEN SetPrev(m1, after, size) ELSE m1, b, MBLOCKSIZE)]

MergeUp(s, a) ==
    IF a + M_NEXTOFF(s.as.mem, a) # s.top
    THEN __malloc_trymerge(s, a, a + M_NEXTOFF(s.as.mem, a)) ELSE s
MergeDown(s, a) ==
    IF a # s.base /\ s.err = "" THEN __malloc_trymerge(s, a - M_PREVOFF(s.as.mem, a), a) ELSE s

free(s, x) ==
    LET a == x - MBLOCKSIZE
        m == s.as.mem IN
    IF x = NoPtr THEN s
    ELSE IF s.base = 0 \/ x < s.base \/ x >= s.top THEN errx(s, "out of range")
    ELSE IF ~M_OK(m, a) THEN errx(s, "corrupt header")
    ELSE IF ~inuse(m, a) THEN errx(s, "already free")
    ELSE MergeDown(MergeUp([s EXCEPT !.as.mem =
             __malloc_deadbeef(SetNext(m, a, m[a + 1][2], 0), M_DATA(a), M_SIZE(m, a))], a), a)

----------------------------------------------------------------------------
(* The two programs: hp = [pc, runs, s, x, y, size, ptrs, kid, reports] *)

NoKid == [pc |-> "none", as |-> [end |-> HpStart, mem |-> [a \in Addr |-> Nothing]], num |-> 0]

\* setup() of sbrktest finds the heap aligned.
HpInit ==
    \E prog \in {"malloctest", "sbrktest"} :
       hp = [prog |-> prog, pc |-> "main", runs |-> HpRuns,
             s |-> [as |-> [end |-> HpStart, mem |-> [a \in Addr |-> Nothing]],
                    base |-> 0, top |-> 0, ret |-> NoPtr, err |-> ""],
             x |-> 0, y |-> 0, size |-> 0, ptrs |-> [n \in 1 .. HpSlots |-> <<NoPtr, 0>>],
             kid |-> NoKid, reports |-> {}]

At(label) == hp.pc = label
\* The process goes on with s, unless errx has ended it.
Go(label, s) == hp' = [hp EXCEPT !.s = s, !.pc = IF s.err = "" THEN label ELSE "exit"]
Set(label, h) == hp' = [h EXCEPT !.pc = IF h.s.err = "" THEN label ELSE "exit"]

\* A test says that it has passed or failed, and main's loop goes on.
Report(h, what) == [h EXCEPT !.reports = @ \cup {what}, !.x = 0, !.y = 0, !.size = 0]
Passed(h) == Set("main", Report(h, "Passed"))
Failed(h, what) == Set("main", Report(h, what))

main ==
    /\ At("main") /\ hp.runs > 0
    /\ \E t \in IF hp.prog = "malloctest" THEN {"m1", "m2", "m3", "m4", "m567"}
                ELSE {"s1", "s2", "s3", "s4", "s5", "s6", "s7", "s8", "s9", "s10", "s11", "s12",
                      "s13", "s14", "s15", "stress"} :
          hp' = [hp EXCEPT !.pc = t, !.runs = @ - 1]

markblock(s, p, n, bias) ==
    [s EXCEPT !.as.mem = [a \in Addr |-> IF a >= p /\ a < p + n THEN <<"mark", bias, a - p>> ELSE @[a]]]
checkblock(s, p, n, bias) == \A i \in 0 .. n - 1 : s.as.mem[p + i] = <<"mark", bias, i>>

\* Test 1: one big block holds its data.
test1 ==
    \/ At("m1") /\ LET s == malloc(hp.s, HpBig) IN
          IF s.ret = NoPtr THEN Failed([hp EXCEPT !.s = s], "malloc failed")
          ELSE Set("m1.check", [hp EXCEPT !.s = markblock(s, s.ret, HpBig, 0), !.x = s.ret])
    \/ At("m1.check") /\
       IF checkblock(hp.s, hp.x, HpBig, 0) THEN Passed([hp EXCEPT !.s = free(@, hp.x)])
       ELSE Failed(hp, "data corrupt")

\* Test 2: the largest block there is, twice.
test2 ==
    \/ At("m2") /\ Set("m2.try", [hp EXCEPT !.size = HpHuge])
    \/ At("m2.try") /\ LET s == malloc(hp.s, hp.size) IN
          IF s.ret = NoPtr THEN Set("m2.try", [hp EXCEPT !.s = s, !.size = @ \div 2])
          ELSE Set("m2.check", [hp EXCEPT !.s = markblock(s, s.ret, hp.size, 0), !.x = s.ret])
    \/ At("m2.check") /\
       IF checkblock(hp.s, hp.x, hp.size, 0) THEN Go("m2.again", free(hp.s, hp.x))
       ELSE Failed(hp, "data corrupt")
    \/ At("m2.again") /\ LET s == malloc(hp.s, hp.size) IN
          IF s.ret = NoPtr THEN Failed([hp EXCEPT !.s = s], "free didn't return the memory?")
          ELSE Passed([hp EXCEPT !.s = free(s, s.ret)])

\* Test 3: small blocks, linked through their first word, until none is left.
test3 ==
    \/ At("m3") /\ LET s == malloc(hp.s, HpSmall) IN
          IF s.ret = NoPtr THEN Go("m3.more", s)
          ELSE Set("m3", [hp EXCEPT !.x = s.ret,
                                    !.s = [markblock(s, s.ret + 1, HpSmall - 1, s.ret) EXCEPT
                                             !.as.mem[s.ret] = <<"ptr", hp.x, 0>>]])
    \/ At("m3.more") /\
       IF \E n \in {HpSmall, HpMedium, HpBig} : malloc(hp.s, n).ret # NoPtr
       THEN Failed(hp, "malloc succeeded") ELSE Set("m3.free", hp)
    \/ At("m3.free") /\ hp.x # NoPtr /\
       Set("m3.free", [hp EXCEPT !.y = IF checkblock(hp.s, hp.x + 1, HpSmall - 1, hp.x) THEN @ ELSE 1,
                                 !.s = free(@, hp.x),
                                 !.x = hp.s.as.mem[hp.x][2]])
    \/ At("m3.free") /\ hp.x = NoPtr /\ hp.y = 1 /\ Failed(hp, "data corruption")
    \/ At("m3.free") /\ hp.x = NoPtr /\ hp.y = 0 /\ LET s == malloc(hp.s, HpMedium) IN
          IF s.ret = NoPtr THEN Failed([hp EXCEPT !.s = s], "Nope, I couldn't") ELSE Passed([hp EXCEPT !.s = free(s, s.ret)])

\* Test 4: two neighbours are freed and their space is found again as one.
Overlap(x, y) == x = y \/ (x < y /\ x + HpSmall > y) \/ (y < x /\ y + HpMedium > x)
test4 ==
    \/ At("m4") /\ LET s == malloc(hp.s, HpSmall) IN
          IF s.ret = NoPtr THEN Failed([hp EXCEPT !.s = s], "malloc failed")
          ELSE Set("m4.y", [hp EXCEPT !.s = s, !.x = s.ret])
    \/ At("m4.y") /\ LET s == malloc(hp.s, HpMedium) IN
          IF s.ret = NoPtr THEN Failed([hp EXCEPT !.s = s], "malloc failed")
          ELSE Set("m4.look", [hp EXCEPT !.s = s, !.y = s.ret])
    \/ At("m4.look") /\
       IF Overlap(hp.x, hp.y) THEN Failed(hp, "overlap")
       ELSE IF hp.y < hp.x THEN Failed(hp, "TEST UNSUITABLE")
       ELSE IF hp.y - (hp.x + HpSmall) > OVERHEAD THEN Failed(hp, "overhead too large")
       ELSE Set("m4.free", [hp EXCEPT !.size = HpSmall + HpMedium + (hp.y - (hp.x + HpSmall))])
    \/ At("m4.free") /\ Go("m4.free2", free(hp.s, hp.x))
    \/ At("m4.free2") /\ Go("m4.z", free(hp.s, hp.y))
    \/ At("m4.z") /\ LET s == malloc(hp.s, hp.size) IN
          IF s.ret = NoPtr THEN Failed([hp EXCEPT !.s = s], "allocation failed")
          ELSE IF s.ret # hp.x THEN Failed([hp EXCEPT !.s = free(s, s.ret)], "space not reused")
          ELSE Passed([hp EXCEPT !.s = free(s, s.ret)])

\* Tests 5, 6 and 7: random allocations and frees, then all is freed.
test567 ==
    \/ At("m567") /\ \E n \in 1 .. HpSlots, size \in HpSizes :
          /\ hp.ptrs[n][1] = NoPtr
          /\ LET s == malloc(hp.s, size) IN
             IF s.ret = NoPtr THEN Set("m567.free", [hp EXCEPT !.s = s, !.x = 1, !.y = 1])
             ELSE Set("m567", [hp EXCEPT !.s = markblock(s, s.ret, size, n), !.ptrs[n] = <<s.ret, size>>])
    \/ At("m567") /\ \E n \in 1 .. HpSlots :
          /\ hp.ptrs[n][1] # NoPtr
          /\ IF ~checkblock(hp.s, hp.ptrs[n][1], hp.ptrs[n][2], n)
             THEN Set("m567.free", [hp EXCEPT !.x = 1, !.y = 1])
             ELSE Set("m567", [hp EXCEPT !.s = free(@, hp.ptrs[n][1]), !.ptrs[n] = <<NoPtr, 0>>])
    \/ At("m567") /\ Set("m567.free", [hp EXCEPT !.x = 1])
    \/ At("m567.free") /\ hp.x <= HpSlots /\
       Set("m567.free", [hp EXCEPT !.x = @ + 1, !.ptrs[hp.x] = <<NoPtr, 0>>,
                                   !.s = free(@, hp.ptrs[hp.x][1])])
    \/ At("m567.free") /\ hp.x > HpSlots /\ (IF hp.y = 1 THEN Failed(hp, "FAILED") ELSE Passed(hp))

----------------------------------------------------------------------------
(* sbrktest.  Its test 1 is s1, and so on; x is the pointer p, y the old     *)
(* break op, size the number of pages.                                       *)

\* errx and err end the process.
Die(h, what) == hp' = [h EXCEPT !.pc = "exit", !.reports = @ \cup {what}]

\* sbrk by n pages, from h.
dosbrk(n, label, h) ==
    LET r == sys_sbrk(h.s.as, n * HpPage) IN
    IF r.ret = -1 THEN Die(h, "FAILED: sbrk")
    ELSE Set(label, [h EXCEPT !.s.as = r.as, !.s.ret = r.ret])

PageOf(p, i) == p + i * HpPage
\* Pages from .. to - 1 of the block at p; the first n words of each are written.
marked(as, p, from, to, n) ==
    [as EXCEPT !.mem = [a \in Addr |->
        IF a >= PageOf(p, from) /\ a < PageOf(p, to) /\ (a - p) % HpPage < n
        THEN <<"mark", (a - p) \div HpPage, (a - p) % HpPage>> ELSE @[a]]]
checked(as, p, num, n) ==
    \A i \in 0 .. num - 1, w \in 0 .. n - 1 : as.mem[PageOf(p, i) + w] = <<"mark", i, w>>

markpage(p, from, to) == marked(hp.s.as, p, from, to, HpPage)
checkpage(as, p, num) == checked(as, p, num, HpPage)
markpagelight(p, from, to) == marked(hp.s.as, p, from, to, 1)
checkpagelight(p, num) == checked(hp.s.as, p, num, 1)

\* A store past the end of the heap is a fault that ends the process.
Store ==
    IF Valid(hp.s.as, hp.s.as.end) THEN Die(hp, "FAILED: I didn't crash")
    ELSE hp' = [hp EXCEPT !.pc = "signal"]

\* Test 1 leaks its page.
sbrk1 ==
    \/ At("s1") /\ dosbrk(1, "s1.mark", hp)
    \/ At("s1.mark") /\ LET as == markpage(hp.s.ret, 0, 1) IN
          IF checkpage(as, hp.s.ret, 1) THEN Passed([hp EXCEPT !.s.as = as])
          ELSE Die(hp, "FAILED: data corrupt")

\* Tests 2, 3 and 4: pages are allocated, hold their data and are freed, at
\* once or one at a time; sbrk returns the old break each time.
sbrk234 ==
    \/ At("s2") /\ Set("sb.grow", [hp EXCEPT !.y = hp.s.as.end, !.size = 1])
    \/ At("s3") /\ Set("sb.grow", [hp EXCEPT !.y = hp.s.as.end, !.size = HpNum])
    \/ At("s4") /\ Set("sb.grow", [hp EXCEPT !.y = hp.s.as.end, !.size = HpNum, !.x = 1])
    \/ At("sb.grow") /\ dosbrk(hp.size, "sb.mark", hp)
    \/ At("sb.mark") /\ LET as == markpage(hp.s.ret, 0, hp.size) IN
          IF hp.s.ret # hp.y THEN Die(hp, "FAILED: sbrk grow didn't return the old break")
          ELSE IF ~checkpage(as, hp.s.ret, hp.size) THEN Die(hp, "FAILED: data corrupt")
          ELSE Set(IF hp.x = 1 THEN "sb.one" ELSE "sb.shrink", [hp EXCEPT !.s.as = as])
    \/ At("sb.shrink") /\ dosbrk(-hp.size, "sb.end", [hp EXCEPT !.x = hp.s.as.end])
    \/ At("sb.end") /\
       IF hp.s.ret # hp.x THEN Die(hp, "FAILED: sbrk shrink didn't return the old break")
       ELSE IF hp.s.as.end # hp.y THEN Die(hp, "FAILED: sbrk shrink didn't restore the heap")
       ELSE Passed(hp)
    \/ At("sb.one") /\ hp.size > 0 /\ dosbrk(-1, "sb.look", [hp EXCEPT !.size = @ - 1])
    \/ At("sb.look") /\
       IF checkpage(hp.s.as, hp.y, hp.size) THEN Set("sb.one", hp) ELSE Die(hp, "FAILED: data corrupt")
    \/ At("sb.one") /\ hp.size = 0 /\
       IF hp.s.as.end # hp.y THEN Die(hp, "FAILED: sbrk shrink didn't restore the heap") ELSE Passed(hp)

\* Tests 5 to 8 end with a store behind the heap.
sbrk5678 ==
    \/ At("s5") /\ Store
    \/ At("s6") /\ dosbrk(1, "s5", hp)
    \/ At("s7") /\ dosbrk(1, "s7.free", hp)
    \/ At("s7.free") /\ dosbrk(-1, "s5", hp)
    \/ At("s8") /\ dosbrk(2 * HpNum, "s8.free", hp)
    \/ At("s8.free") /\ dosbrk(-HpNum, "s5", hp)

\* Test 9: halving until it fits; the memory can be had again.
sbrk9 ==
    \/ At("s9") /\ Set("s9.try", [hp EXCEPT !.size = 4 * HpHuge])
    \/ At("s9.try") /\ LET r == sys_sbrk(hp.s.as, hp.size * HpPage) IN
          IF r.ret = -1 THEN Set("s9.try", [hp EXCEPT !.size = @ \div 2])
          ELSE Set("s9.mark", [hp EXCEPT !.s.as = r.as, !.x = r.ret])
    \/ At("s9.mark") /\ Set("s9.check", [hp EXCEPT !.s.as = markpagelight(hp.x, 0, hp.size)])
    \/ At("s9.check") /\
       IF checkpagelight(hp.x, hp.size) THEN Set("s9.free", hp) ELSE Die(hp, "FAILED: data corrupt")
    \/ At("s9.free") /\ dosbrk(-hp.size, "s9.again", hp)
    \/ At("s9.again") /\ dosbrk(hp.size, "s9.last", hp)
    \/ At("s9.last") /\ dosbrk(-hp.size, "pass", hp)
    \/ At("pass") /\ Passed(hp)

\* Test 10: a page at a time until none is left, then all back.
sbrk10 ==
    \/ At("s10") /\ Set("s10.grow", [hp EXCEPT !.y = hp.s.as.end])
    \/ At("s10.grow") /\ LET r == sys_sbrk(hp.s.as, HpPage) IN
          IF r.ret = -1 THEN Set("s10.free", hp)
          ELSE Set("s10.grow", [hp EXCEPT !.s.as = marked(r.as, hp.y, hp.size, hp.size + 1, 1),
                                          !.size = @ + 1])
    \/ At("s10.free") /\ hp.size > 0 /\
       IF hp.s.as.mem[PageOf(hp.y, hp.size - 1)] # <<"mark", hp.size - 1, 0>>
       THEN Die(hp, "FAILED: data corrupt")
       ELSE dosbrk(-1, "s10.free", [hp EXCEPT !.size = @ - 1])
    \/ At("s10.free") /\ hp.size = 0 /\
       IF hp.s.as.end # hp.y THEN Die(hp, "FAILURE: break did not return to original value")
       ELSE dosbrk(1, "s10.mark", hp)
    \/ At("s10.mark") /\ LET as == markpage(hp.s.ret, 0, 1) IN
          IF checkpage(as, hp.s.ret, 1) THEN dosbrk(-1, "pass", [hp EXCEPT !.s.as = as])
          ELSE Die(hp, "FAILED: data corrupt")

\* Test 11 leaks its pages.
sbrk11 ==
    \/ At("s11") /\ dosbrk(HpNum, "s11.mark", hp)
    \/ At("s11.mark") /\ Set("s11.check", [hp EXCEPT !.s.as = markpagelight(hp.s.ret, 0, HpNum)])
    \/ At("s11.check") /\
       IF checkpagelight(hp.s.ret, HpNum) THEN Passed(hp) ELSE Die(hp, "FAILED: data corrupt")

\* fork: as_copy gives the child the same heap.
dofork(label, kid) ==
    hp' = [hp EXCEPT !.pc = label, !.kid = [pc |-> kid, as |-> hp.s.as, num |-> hp.size]]

KidDies(what) == hp' = [hp EXCEPT !.kid.pc = "exit", !.reports = @ \cup {what}]
KidSbrk(n, label, kid) ==
    LET r == sys_sbrk(kid.as, n * HpPage) IN
    IF r.ret = -1 THEN KidDies("FAILED: sbrk in child")
    ELSE hp' = [hp EXCEPT !.kid = [kid EXCEPT !.as = r.as, !.pc = label]]
\* The child frees three pages and allocates two, and keeps its data.
Kid ==
    \/ hp.kid.pc = "k12" /\ KidSbrk(1, "k12.mark", hp.kid)
    \/ hp.kid.pc = "k12.mark" /\
       LET p == hp.kid.as.end - HpPage
           as == marked(hp.kid.as, p, 0, 1, HpPage) IN
       IF checkpage(as, p, 1) THEN hp' = [hp EXCEPT !.kid.as = as, !.kid.pc = "exit0"]
       ELSE KidDies("FAILED: data corrupt in child")
    \/ hp.kid.pc \in {"k13", "k14", "k15"} /\
       IF ~checkpage(hp.kid.as, hp.x, hp.kid.num) THEN KidDies("FAILED: data corrupt in child")
       ELSE CASE hp.kid.pc = "k13" -> hp' = [hp EXCEPT !.kid.pc = "exit0"]
              [] hp.kid.pc = "k14" -> KidSbrk(-1, "exit0", hp.kid)
              [] hp.kid.pc = "k15" -> KidSbrk(-3, "k15.grow", [hp.kid EXCEPT !.num = @ - 3])
    \/ hp.kid.pc = "k15.grow" /\
       IF ~checkpage(hp.kid.as, hp.x, hp.kid.num) THEN KidDies("FAILED: data corrupt in child (2)")
       ELSE KidSbrk(2, "k15.mark", hp.kid)
    \/ hp.kid.pc = "k15.mark" /\
       LET n == hp.kid.num
           as == marked(hp.kid.as, hp.x, n, n + 2, HpPage) IN
       IF ~checkpage(as, hp.x, n + 2) THEN KidDies("FAILED: data corrupt in child (3)")
       ELSE KidSbrk(-(n + 2), "exit0", [hp.kid EXCEPT !.as = as])

\* dowait: the child's status must be 0.
dowait(label) ==
    /\ hp.kid.pc \in {"exit", "exit0"}
    /\ IF hp.kid.pc = "exit" THEN Die(hp, "child: Exit") ELSE Set(label, [hp EXCEPT !.kid = NoKid])

\* Tests 12 to 15.
sbrk12 ==
    \/ At("s12") /\ dofork("s12.grow", "k12")
    \/ At("s12.grow") /\ dosbrk(1, "s12.mark", hp)
    \/ At("s12.mark") /\ LET as == markpage(hp.s.ret, 0, 1) IN
          IF checkpage(as, hp.s.ret, 1) THEN Set("s12.wait", [hp EXCEPT !.s.as = as])
          ELSE Die(hp, "FAILED: data corrupt in parent")
    \/ At("s12.wait") /\ dowait("pass")

sbrk1314 ==
    \/ At("s13") /\ dosbrk(1, "s13.mark", hp)
    \/ At("s14") /\ dosbrk(1, "s14.mark", hp)
    \/ \E t \in {"s13", "s14"} :
          At(t \o ".mark") /\
          Set(t \o ".fork", [hp EXCEPT !.x = hp.s.ret, !.size = 1, !.s.as = markpage(hp.s.ret, 0, 1)])
    \/ At("s13.fork") /\ dofork("s13.wait", "k13")
    \/ At("s14.fork") /\ dofork("s14.wait", "k14")
    \/ At("s13.wait") /\
       IF checkpage(hp.s.as, hp.x, 1) THEN dowait("pass") ELSE Die(hp, "FAILED: data corrupt in parent")
    \/ At("s14.wait") /\ dowait("s14.check")
    \/ At("s14.check") /\
       IF checkpage(hp.s.as, hp.x, 1) THEN Passed(hp) ELSE Die(hp, "FAILED: data corrupt in parent")

\* marked pages 0 .. to - 1 of which those below from are from before.
More(from, to, label, what) ==
    LET as == markpage(hp.x, from, to) IN
    IF checkpage(as, hp.x, to) THEN Set(label, [hp EXCEPT !.s.as = as, !.size = to]) ELSE Die(hp, what)

sbrk15 ==
    \/ At("s15") /\ dosbrk(HpNum, "s15.mark", [hp EXCEPT !.x = hp.s.as.end])
    \/ At("s15.mark") /\ More(0, HpNum, "s15.free", "FAILED: data corrupt before forking")
    \/ At("s15.free") /\ dosbrk(-1, "s15.two", hp)
    \/ At("s15.two") /\
       IF checkpage(hp.s.as, hp.x, HpNum - 1) THEN dosbrk(2, "s15.mark2", hp)
       ELSE Die(hp, "FAILED: data corrupt before forking (2)")
    \/ At("s15.mark2") /\ More(HpNum - 1, HpNum + 1, "s15.fork", "FAILED: data corrupt before forking (3)")
    \/ At("s15.fork") /\ dofork("s15.four", "k15")
    \/ At("s15.four") /\ dosbrk(4, "s15.mark4", hp)
    \/ At("s15.mark4") /\ More(hp.size, hp.size + 4, "s15.wait", "FAILED: data corrupt in parent")
    \/ At("s15.wait") /\ dowait("s15.check")
    \/ At("s15.check") /\
       IF checkpage(hp.s.as, hp.x, hp.size) THEN dosbrk(-hp.size, "pass", hp)
       ELSE Die(hp, "FAILED: data corrupt after waiting")

\* Tests 16 to 21: the heap grows and shrinks at random, between 0 and HpClamp
\* pages, and every page keeps its data.
stresstest ==
    \/ At("stress") /\ Set("stress.loop", [hp EXCEPT !.y = hp.s.as.end])
    \/ At("stress.loop") /\ \E pages \in 0 .. HpClamp \div 2 - 1, bit \in BOOLEAN :
          IF (pages <= hp.size /\ bit) \/ hp.size + pages > HpClamp
          THEN dosbrk(-pages, "stress.check", [hp EXCEPT !.size = @ - pages])
          ELSE dosbrk(pages, "stress.mark", [hp EXCEPT !.size = @ + pages, !.x = hp.size])
    \/ At("stress.mark") /\
       Set("stress.check", [hp EXCEPT !.s.as = markpagelight(hp.y, hp.x, hp.size), !.x = 0])
    \/ At("stress.check") /\
       IF checkpagelight(hp.y, hp.size) THEN Set("stress.loop", hp) ELSE Die(hp, "FAILED")
    \/ At("stress.loop") /\ dosbrk(-hp.size, "pass", hp)

----------------------------------------------------------------------------
(* Specification *)

HpNext ==
    \/ main \/ Kid
    \/ test1 \/ test2 \/ test3 \/ test4 \/ test567
    \/ sbrk1 \/ sbrk234 \/ sbrk5678 \/ sbrk9 \/ sbrk10 \/ sbrk11 \/ sbrk12 \/ sbrk1314 \/ sbrk15
    \/ stresstest

HpSpec == HpInit /\ [][HpNext]_hp

----------------------------------------------------------------------------
(* Properties *)

\* The headers from i on: each has the size of the one below, and no two free
\* blocks are neighbours.  The result is the set of blocks in use, or {-1}.
RECURSIVE InUse(_, _, _)
InUse(i, right, free_below) ==
    LET m == hp.s.as.mem IN
    IF i = hp.s.top THEN {}
    ELSE IF i > hp.s.top \/ ~M_OK(m, i) \/ m[i][2] # right \/ M_SIZE(m, i) <= 0 THEN {-1}
    ELSE IF free_below /\ ~inuse(m, i) THEN {-1}
    ELSE (IF inuse(m, i) THEN {M_DATA(i)} ELSE {}) \cup
         InUse(i + M_NEXTOFF(m, i), m[i + 1][2], ~inuse(m, i))

\* The pointers that malloctest holds, in the place where the test keeps them.
Held ==
    IF hp.pc \in {"m567", "m567.free"} THEN {hp.ptrs[n][1] : n \in 1 .. HpSlots} \ {NoPtr}
    ELSE IF hp.pc \in {"m1.check", "m2.check", "m4.y"} THEN {hp.x}
    ELSE IF hp.pc \in {"m4.look", "m4.free"} THEN {hp.x, hp.y}
    ELSE IF hp.pc = "m4.free2" THEN {hp.y} ELSE {}

\* The programs find no fault with the heap: blocks and pages hold what was
\* written to them until they are freed, memory that was freed can be had
\* again, a store behind the break ends the process and a child's heap is its
\* own.  malloc's blocks tile the heap up to the break, free neighbours are
\* merged, and the blocks in use are those the program holds.
HeapSound ==
    /\ hp.reports \subseteq {"Passed"}
    /\ hp.s.err = ""
    /\ (hp.s.base # 0) => (hp.s.top = hp.s.as.end)
    /\ (hp.s.base # 0) /\ (hp.pc \notin {"m3", "m3.more", "m3.free"})
         => (InUse(hp.s.base, 0, FALSE) = Held)
=============================================================================

-------------------------------- MODULE Exec --------------------------------
(***************************************************************************)
(* Starting a program: execv and runprogram (kern/syscall/runprogram.c)    *)
(* with the argument buffer and its throttle, load_elf                     *)
(* (kern/syscall/loadelf.c), the regions of kern/vm/addrspace.c, and the   *)
(* copies of kern/vm/copyinout.c that move arguments and segments.         *)
(*                                                                         *)
(* What a process does between two operations on the throttle touches only *)
(* its own state and is one step, a set of outcomes (module Outcome): any  *)
(* allocation and any read of the file may fail.  User memory counts in    *)
(* units of which a page has PAGE_SIZE and a pointer WORD; a string is     *)
(* its number and its length, the final 0 included.                        *)
(***************************************************************************)
EXTENDS Integers, Sequences, SequencesExt, FiniteSets, Outcome

CONSTANTS
    ExProcs,
    ExArgvs,            \* the argument vectors: sequences of lengths, 0 for a bad pointer
    ExFiles,            \* the executables
    PAGE_SIZE, WORD,
    ARG_MAX,
    EXEC_BIGBUF_THROTTLE,
    USERSPACETOP,
    STACK_SIZE

ExecAssumption ==
    /\ {PAGE_SIZE, WORD, ARG_MAX, EXEC_BIGBUF_THROTTLE} \subseteq Nat \ {0}
    /\ STACK_SIZE < USERSPACETOP /\ PAGE_SIZE <= ARG_MAX

VARIABLES
    execthrottle,       \* the count of the semaphore
    ex                  \* each process

exVars == <<execthrottle, ex>>

USERSTACK == USERSPACETOP

----------------------------------------------------------------------------
(* Address spaces: regions, the heap, the stack, and what is in memory *)

NoSpace == [exists |-> FALSE, regions |-> <<>>, heap |-> 0, mem |-> <<>>, stack_base |-> 0]

NewSpace == [NoSpace EXCEPT !.exists = TRUE, !.stack_base = USERSTACK - STACK_SIZE]

PageOf(a) == a - (a % PAGE_SIZE)

InRegion(r, a) == r.vbase <= a /\ a < r.vbase + r.npages * PAGE_SIZE

\* No program grows its heap before it runs.
is_valid_address(as, a) ==
    \/ \E k \in 1 .. Len(as.regions) : InRegion(as.regions[k], a)
    \/ as.stack_base <= a /\ a < USERSTACK

NPages(sz) == (sz + PAGE_SIZE - 1) \div PAGE_SIZE

as_define_region(as, seg) ==
    LET end == PageOf(seg.vaddr) + NPages(seg.memsz) * PAGE_SIZE
    IN  [as EXCEPT !.regions = Append(@, [vbase |-> PageOf(seg.vaddr), npages |-> NPages(seg.memsz),
                                          write |-> seg.write, exec |-> seg.exec]),
                   !.heap = IF end > @ THEN end ELSE @]

as_prepare_load(as) ==
    [as EXCEPT !.regions = [k \in DOMAIN as.regions |-> [as.regions[k] EXCEPT !.write = TRUE]]]

as_complete_load(as) ==
    [as EXCEPT !.regions = [k \in DOMAIN as.regions |->
       [as.regions[k] EXCEPT !.write = IF as.regions[k].exec /\ ~@ THEN FALSE ELSE @]]]

\* The space the process runs in, and a write to it.
Space(s) == s.space[s.as]

Put(s, at) == [s EXCEPT !.space[s.as].mem = [a \in DOMAIN @ \cup DOMAIN at |->
                                               IF a \in DOMAIN at THEN at[a] ELSE @[a]]]

\* copycheck and the copy itself: all of the block must be below USERSPACETOP,
\* and each unit valid, or copyfail ends it with what has been copied in place.
copyout(s, a, len, val(_)) ==
    LET bad == {i \in 0 .. len - 1 : ~is_valid_address(Space(s), a + i)}
        n == IF bad = {} THEN len ELSE CHOOSE i \in bad : \A j \in bad : i <= j
        t == Put(s, [x \in a .. a + n - 1 |-> val(x - a)])
    IN  IF a < 0 \/ a + len > USERSPACETOP THEN Err(s, "EFAULT")
        ELSE IF bad # {} THEN Err(t, "EFAULT")
        ELSE Ok(t, len)

----------------------------------------------------------------------------
(* Kernel memory of the call *)

kmalloc(s, what) == Ok([s EXCEPT !.heap = @ \cup {what}], 0) \cup Err(s, "ENOMEM")

kfree(s, what) ==
    IF what \in s.heap THEN [s EXCEPT !.heap = @ \ {what}] ELSE [s EXCEPT !.panic = "kfree"]

----------------------------------------------------------------------------
(* The argument buffer *)

argbuf_init(s) == [s EXCEPT !.args = <<>>, !.len = 0, !.max = 0]

argbuf_free(s) == argbuf_init(IF <<"data">> \in s.heap THEN kfree(s, <<"data">>) ELSE s)

\* Mutant: the semaphore is given back only when a buffer was allocated.
CleanupNoBuffer(s) ==
    [argbuf_free(s) EXCEPT !.tooksem = IF <<"data">> \in s.heap THEN FALSE ELSE @]

argbuf_cleanup(s) == [argbuf_free(s) EXCEPT !.tooksem = FALSE]

argbuf_allocate(s, size) ==
    Then(kmalloc(s, <<"data">>), LAMBDA t, v : Ok([t EXCEPT !.max = size], 0))

\* One string after the other until NULL; argv[i] is string i.
argbuf_copyin(s) ==
    LET bad == {i \in 1 .. Len(s.argv) : s.argv[i] = 0}
        upto(i) == FoldSeq(+, 0, SubSeq(s.argv, 1, i))
        big == {i \in 1 .. Len(s.argv) : upto(i) > s.max}
        stop == bad \cup big
        n == IF stop = {} THEN Len(s.argv) ELSE (CHOOSE i \in stop : \A j \in stop : i <= j) - 1
        t == [s EXCEPT !.args = [i \in 1 .. n |-> <<i, s.argv[i]>>], !.len = upto(n)]
    IN  IF stop = {} THEN Ok(t, n)
        ELSE IF n + 1 \in bad THEN Err(t, "EFAULT") ELSE Err(t, "E2BIG")

\* argv[i] points to string i, which is put at strings + pos; the pointer goes
\* out before the string, the NULL last.
PushArgs(s, strings, uargv) ==
    LET pos(i) == FoldSeq(+, 0, [k \in 1 .. i - 1 |-> s.args[k][2]])
        push(R, i) ==
            Then(Then(R, LAMBDA t, v : copyout(t, uargv + (i - 1) * WORD, WORD,
                                               LAMBDA o : <<"ptr", strings + pos(i)>>)),
                 LAMBDA t, v : copyout(t, strings + pos(i), s.args[i][2],
                                       LAMBDA o : <<s.args[i][1], o>>))
    IN  Then(FoldLeft(push, Ok(s, 0), [i \in 1 .. Len(s.args) |-> i]),
             LAMBDA t, v : copyout(t, uargv + Len(s.args) * WORD, WORD, LAMBDA o : <<"ptr", 0>>))

\* Where the strings begin on the stack: aligned down to a pointer.
ustringbase(s) == (USERSTACK - s.len) - ((USERSTACK - s.len) % WORD)

\* Mutant: no room is left for the final NULL.
CopyoutNoNull(s) ==
    LET uargv == ustringbase(s) - Len(s.args) * WORD
    IN  Then(PushArgs(s, ustringbase(s), uargv),
             LAMBDA t, v : Ok([t EXCEPT !.argc = Len(s.args), !.uargv = uargv], 0))

argbuf_copyout(s) ==
    LET uargv == ustringbase(s) - (Len(s.args) + 1) * WORD
    IN  Then(PushArgs(s, ustringbase(s), uargv),
             LAMBDA t, v : Ok([t EXCEPT !.argc = Len(s.args), !.uargv = uargv], 0))

----------------------------------------------------------------------------
(* load_elf *)

\* Reading n units that the file may not have: an error, or a short read.
VOP_READ(s, short) ==
    Err(s, "EIO") \cup (IF short THEN Err(s, "ENOEXEC") ELSE Ok(s, 0))

\* Fill the segment from the file; what is left of it is zero, as the memory
\* of a new space is.
load_segment(s, i) ==
    LET seg == s.file.seg[i]
        filesize == IF seg.filesz > seg.memsz THEN seg.memsz ELSE seg.filesz
    IN  Then(VOP_READ(s, seg.short),
             LAMBDA t, v : copyout(t, seg.vaddr, filesize, LAMBDA o : <<i, o>>))

\* Read program header i again and do F if it is to be loaded.
phdr(R, i, F(_)) ==
    Then(Then(R, LAMBDA t, v : VOP_READ(t, t.file.shortphdr)),
         LAMBDA t, v : CASE t.file.seg[i].type = "LOAD" -> F(t)
                         [] t.file.seg[i].type = "skip" -> Ok(t, 0)
                         [] OTHER -> Err(t, "ENOEXEC"))

define_segment(s, i) ==
    Then(kmalloc(s, <<"region", i>>),
         LAMBDA t, v : Ok([t EXCEPT !.space[t.as] = as_define_region(@, t.file.seg[i])], 0))

load_elf(s) ==
    LET each == [i \in 1 .. Len(s.file.seg) |-> i]
        header == Then(VOP_READ(s, s.file.shortheader),
                       LAMBDA t, v : IF t.file.magic THEN Ok(t, 0) ELSE Err(t, "ENOEXEC"))
        defined == FoldLeft(LAMBDA R, i : phdr(R, i, LAMBDA t : define_segment(t, i)), header, each)
        prepared == Then(defined, LAMBDA t, v :
                       Ok([t EXCEPT !.space[t.as] = as_prepare_load(@)], 0))
        loaded == FoldLeft(LAMBDA R, i : phdr(R, i, LAMBDA t : load_segment(t, i)), prepared, each)
    IN  Then(loaded, LAMBDA t, v : Ok([t EXCEPT !.space[t.as] = as_complete_load(@)], 0))

----------------------------------------------------------------------------
(* loadexec *)

vfs_open(s) == Ok([s EXCEPT !.open = @ + 1], 0) \cup Err(s, "ENOENT")
vfs_close(s) == [s EXCEPT !.open = @ - 1]

\* The space that is not in use is made new.
Other(s) == IF s.as = 1 THEN 2 ELSE 1

as_create(s) == Ok([s EXCEPT !.space[Other(s)] = NewSpace], 0) \cup Err(s, "ENOMEM")

Regions(s) == {x \in s.heap : x[1] = "region"}

\* as_destroy of space k; regions go with it.
as_destroy(s, k) ==
    IF s.space[k].exists THEN [s EXCEPT !.space[k] = NoSpace] ELSE [s EXCEPT !.panic = "as_destroy"]

proc_setas(s, k) == [s EXCEPT !.as = k]


\* A failure after the new space is in place: put the old one back, destroy the
\* new one with the regions it had got.
Restore(s, old) ==
    LET t == as_destroy(proc_setas(s, old), s.as)
    IN  kfree([t EXCEPT !.heap = @ \ Regions(s)], <<"newname">>)

loadexec(s) ==
    LET named == kmalloc(s, <<"newname">>)
        opened == Then(named, LAMBDA t, v :
                    OnError(vfs_open(t), LAMBDA u, e : Err(kfree(u, <<"newname">>), e)))
        created == Then(opened, LAMBDA t, v :
                     OnError(as_create(t), LAMBDA u, e : Err(kfree(vfs_close(u), <<"newname">>), e)))
        loaded == Then(created, LAMBDA t, v :
                    OnError(load_elf(proc_setas(t, Other(t))),
                            LAMBDA u, e : Err(Restore(vfs_close(u), t.as), e)))
        wiped(t) == IF t.space[Other(t)].exists THEN as_destroy(t, Other(t)) ELSE t
        renamed(t) == [kfree(t, <<"newname">>) EXCEPT !.heap = @ \ Regions(t)]
    IN  Then(loaded, LAMBDA t, v : Ok(renamed(wiped(vfs_close(t))), 0))

----------------------------------------------------------------------------
(* The calls *)

NoFile == [magic |-> FALSE]

ExStart == [pc |-> "menu", as |-> 0, space |-> [k \in 0 .. 2 |-> NoSpace], heap |-> {},
            args |-> <<>>, len |-> 0, max |-> 0, tooksem |-> FALSE,
            argv |-> <<>>, file |-> NoFile, open |-> 0,
            argc |-> 0, uargv |-> 0, ran |-> <<>>, panic |-> ""]

ExInit ==
    /\ execthrottle = EXEC_BIGBUF_THROTTLE
    /\ ex = [p \in ExProcs |-> ExStart]

\* What the new program has: the call's own variables are gone.
enter_new_process(s) ==
    Ok([s EXCEPT !.pc = "user", !.ran = <<s.file, s.argv>>, !.argv = <<>>,
                 !.file = NoFile], 0)

\* "If copyout fails, *we* messed up, so panic": it does when strings and pointers
\* are more than STACK_SIZE, which as_create takes for the user stack too.
Started(R) ==
    LET copied == Then(R, LAMBDA t, v : OnError(argbuf_copyout(t),
                                          LAMBDA u, e : Panic(u, "copyout_args failed")))
    IN  Then(copied, LAMBDA t, v : enter_new_process(argbuf_cleanup(t)))

\* The end of one of process p's calls: whatever the outcome, the throttle is
\* given back if the buffer had it.
Returns(p, R) ==
    \E r \in R :
       /\ ex' = [ex EXCEPT ![p] = r.s]
       /\ execthrottle' = execthrottle + IF ex[p].tooksem /\ ~r.s.tooksem THEN 1 ELSE 0

Live == \A q \in ExProcs : ex[q].panic = ""

\* runprogram in a new process of the menu, whose argv is the program's name; the
\* standard descriptors are in module Files.
runprogram(p) ==
    /\ Live /\ ex[p].pc = "menu"
    /\ \E file \in ExFiles :
         LET s == argbuf_init([ex[p] EXCEPT !.argv = <<1>>, !.file = file])
             cons == Then(argbuf_allocate(s, 1), LAMBDA t, v : argbuf_copyin(t))
             loaded == Then(cons, LAMBDA t, v : loadexec(t))
             failed == OnError(loaded, LAMBDA t, e : Err([argbuf_cleanup(t) EXCEPT !.pc = "exit"], e))
         IN  Returns(p, Started(failed))

\* execv returns an error: back to the program that called it.
ExecFails(s, e) ==
    Err([kfree(s, <<"path">>) EXCEPT !.pc = "user", !.argv = <<>>, !.file = NoFile], e)

\* The rest of sys_execv, once argbuf_fromuser has returned; the path may name
\* any file.
execv_load(R) ==
    LET found == Then(R, LAMBDA t, v : UNION {Ok([t EXCEPT !.file = f], 0) : f \in ExFiles})
        loaded == Then(found, LAMBDA t, v : loadexec(t))
        failed == OnError(loaded, LAMBDA t, e : ExecFails(argbuf_cleanup(t), e))
    IN  Started(Then(failed, LAMBDA t, v : Ok(kfree(t, <<"path">>), 0)))

\* Up to the end, or to the P of argbuf_fromuser when a page is too small.
sys_execv(p) ==
    /\ Live /\ ex[p].pc = "user"
    /\ \E argv \in ExArgvs :
         LET s == [ex[p] EXCEPT !.argv = argv]
             copied == OnError(kmalloc(s, <<"path">>), LAMBDA t, e : Err(ex[p], e))
             path == Then(copied, LAMBDA t, v : Ok(argbuf_init(t), 0) \cup ExecFails(t, "EFAULT"))
             args == Then(path, LAMBDA t, v : Then(argbuf_allocate(t, PAGE_SIZE),
                       LAMBDA u, w : argbuf_copyin(u)))
             big == {r \in args : r.err = "E2BIG"}
             nopath == {r \in args : <<"path">> \notin r.s.heap}
         IN  \/ Returns(p, {[r EXCEPT !.s = [argbuf_free(r.s) EXCEPT !.pc = "throttle"]] : r \in big})
             \/ Returns(p, nopath)
             \/ Returns(p, execv_load(args \ (big \cup nopath)))

\* P(execthrottle)
execv_throttle(p) ==
    /\ Live /\ ex[p].pc = "throttle"
    /\ execthrottle > 0
    /\ execthrottle' = execthrottle - 1
    /\ ex' = [ex EXCEPT ![p].pc = "big", ![p].tooksem = TRUE]

execv_big(p) ==
    /\ Live /\ ex[p].pc = "big"
    /\ Returns(p, execv_load(Then(argbuf_allocate(ex[p], ARG_MAX), LAMBDA t, v : argbuf_copyin(t))))

ExNext ==
    \E p \in ExProcs : runprogram(p) \/ sys_execv(p) \/ execv_throttle(p) \/ execv_big(p)

ExSpec == ExInit /\ [][ExNext]_exVars

----------------------------------------------------------------------------
(* Properties *)

Get(as, a) == IF a \in DOMAIN as.mem THEN as.mem[a] ELSE "zero"

\* Space as holds the segments of the file, zeros after what the file has, and
\* nothing of it is outside a region.
SegmentsIn(as, file) ==
    \A i \in 1 .. Len(file.seg) : file.seg[i].type = "LOAD" =>
       \A o \in 0 .. file.seg[i].memsz - 1 :
          /\ is_valid_address(as, file.seg[i].vaddr + o)
          /\ Get(as, file.seg[i].vaddr + o) = IF o < file.seg[i].filesz THEN <<i, o>> ELSE "zero"

\* And on the stack argc pointers to the strings of argv, then NULL.
ArgvIn(s, argv) ==
    /\ s.argc = Len(argv)
    /\ Get(Space(s), s.uargv + Len(argv) * WORD) = <<"ptr", 0>>
    /\ \A i \in 1 .. Len(argv) :
         LET ptr == Get(Space(s), s.uargv + (i - 1) * WORD)
         IN  ptr[1] = "ptr" /\ \A o \in 0 .. argv[i] - 1 : Get(Space(s), ptr[2] + o) = <<i, o>>

=============================================================================

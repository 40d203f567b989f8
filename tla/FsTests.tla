------------------------------- MODULE FsTests -------------------------------
(***************************************************************************)
(* The kernel's tests of a file system (kern/test/fstest.c): fstest,       *)
(* readstress, writestress, writestress2, longstress and createstress,     *)
(* and printfile.  The file system does what a correct one promises: each  *)
(* of its operations is one step, and a file that is removed while open    *)
(* can still be used.  An operation may also fail, or do only a part; a    *)
(* behaviour has at most FtFaults such faults.                             *)
(*                                                                         *)
(* A file is a sequence of chunks, each of the length of SLOGAN; a chunk   *)
(* is how far SLOGAN is rotated in it, Hole or Torn.                       *)
(***************************************************************************)
EXTENDS Integers, Sequences, FiniteSets, FiniteSetsExt

CONSTANTS
    FtTests,       \* the tests that are run
    NCHUNKS,       \* chunks of a file
    NTHREADS,      \* threads of a test
    NLONG,         \* files of a thread of longstress
    NCREATE,       \* files of a thread of createstress
    FtAlphabet,    \* letters in the alphabet, 26
    FtBuf,         \* chunks in the buffer of printfile
    FtFaults       \* the greatest number of faults

VARIABLE ft

FsTestsAssumption ==
    /\ {NCHUNKS, NTHREADS, NLONG, NCREATE, FtAlphabet, FtBuf} \subseteq Nat \ {0}
    /\ NCHUNKS <= 100 * FtAlphabet /\ FtFaults \in Nat
    /\ FtTests \subseteq {"fstest", "readstress", "writestress", "writestress2", "longstress",
                          "createstress", "printfile"}

Threads == 0 .. NTHREADS - 1
Main == NTHREADS
Hole == -1
Torn == -2
None == 0

----------------------------------------------------------------------------
(* Names, chunks and the file system *)

\* FILENAME and a suffix: none, the thread's number, or also the file's
fstest_makename(t) ==
    CASE ft.test \in {"writestress"} -> <<t>>
      [] ft.test \in {"longstress", "createstress"} -> <<t, ft.th[t].n>>
      [] OTHER -> <<>>

\* amt is made positive before % is taken
rotate(chunk, amt) ==
    IF chunk < 0 THEN chunk ELSE (chunk + ((amt + 100 * FtAlphabet) % FtAlphabet)) % FtAlphabet
SLOGAN == 0

Th(t) == ft.th[t]
At(t, label) == Th(t).at = label
Exists(name) == name \in DOMAIN ft.dir
Vnodes == {ft.dir[name] : name \in DOMAIN ft.dir} \cup {Th(t).vn : t \in DOMAIN ft.th}
NewVnode == Min((1 .. Cardinality(Vnodes) + 1) \ Vnodes)
File(t) == ft.data[Th(t).vn]

Fault == ft.faults < FtFaults
Faulty(s) == [s EXCEPT !.faults = @ + 1]

\* The state in which vfs_open has given thread t its vnode; O_CREAT makes a
\* file that is not there, O_TRUNC empties one that is.
vfs_open(t, name, trunc) ==
    LET v == IF Exists(name) THEN ft.dir[name] ELSE NewVnode
    IN [ft EXCEPT !.th[t].vn = v,
                  !.dir = [x \in DOMAIN @ \cup {name} |-> IF x = name THEN v ELSE @[x]],
                  !.data = [x \in DOMAIN @ \cup {v} |->
                               IF x = v /\ (trunc \/ ~Exists(name)) THEN <<>> ELSE @[x]]]

\* VOP_WRITE of a chunk at a position
VOP_WRITE(s, t, pos, chunk) ==
    [s EXCEPT !.data[Th(t).vn] =
        [x \in 1 .. Max({Len(@), pos + 1}) |->
            IF x = pos + 1 THEN chunk ELSE IF x <= Len(@) THEN @[x] ELSE Hole]]

\* the chunk VOP_READ finds, if it is not at the end of the file
Short(t, pos) == pos >= Len(File(t))
Chunk(t, pos) == File(t)[pos + 1]

\* a vnode without a name or a user is reclaimed
Reclaimed(s) ==
    LET used == {s.dir[name] : name \in DOMAIN s.dir} \cup {s.th[t].vn : t \in DOMAIN s.th}
    IN [s EXCEPT !.data = [v \in DOMAIN @ \cap used |-> @[v]]]
vfs_close(s, t) == Reclaimed([s EXCEPT !.th[t].vn = None])
vfs_remove(s, name) == Reclaimed([s EXCEPT !.dir = [x \in DOMAIN @ \ {name} |-> @[x]]])

----------------------------------------------------------------------------
(* fstest_write, fstest_read, fstest_remove, and what their callers do next *)

Go(s, t, label) == ft' = [s EXCEPT !.th[t].at = label, !.th[t].k = 0]

\* A failure ends dofstest and the like, and the thread's part of a stress test.
Returns(s, t, fn, result) ==
    IF result # 0
    THEN Go([s EXCEPT !.failed = @ \cup {t}], t, IF t = Main THEN "done" ELSE "V")
    ELSE CASE fn = "write" ->
                Go(s, t, IF ft.test = "readstress" THEN "fork"
                         ELSE IF ft.test = "writestress2" THEN "V" ELSE "read")
           [] fn = "read" -> Go(s, t, IF ft.test = "readstress" THEN "V" ELSE "remove")
           [] fn = "remove" /\ t = Main -> Go(s, t, "done")
           [] fn = "remove" /\ t # Main ->
                IF ft.test = "longstress" /\ Th(t).n + 1 < NLONG
                THEN Go([s EXCEPT !.th[t].n = @ + 1], t, "write")
                ELSE Go(s, t, "V")

\* the chunks a thread writes
stridesize == IF ft.test = "writestress2" THEN NTHREADS ELSE 1
stridepos(t) == IF ft.test = "writestress2" THEN t ELSE 0
Strided(t, k) == {i \in k .. NCHUNKS - 1 : i % stridesize = stridepos(t)}

fstest_write(t) ==
    \/ /\ At(t, "write")
       /\ Go(vfs_open(t, fstest_makename(t), stridesize = 1), t, "write.loop")
    \/ At(t, "write") /\ Fault /\ Returns(Faulty(ft), t, "write", -1)
    \/ /\ At(t, "write.loop") /\ Strided(t, Th(t).k) # {}
       /\ LET i == Min(Strided(t, Th(t).k))
          IN \/ ft' = [VOP_WRITE(ft, t, i, rotate(SLOGAN, i)) EXCEPT !.th[t].k = i + 1]
             \/ /\ Fault
                /\ \E s \in {ft, VOP_WRITE(ft, t, i, Torn)} :
                      Go(vfs_close(Faulty(s), t), t, "write.remove")
    \/ At(t, "write.loop") /\ Strided(t, Th(t).k) = {} /\ Returns(vfs_close(ft, t), t, "write", 0)
    \/ At(t, "write.remove") /\ Returns(vfs_remove(ft, fstest_makename(t)), t, "write", -1)

fstest_read(t) ==
    LET name == fstest_makename(t)
        k == Th(t).k
        good == ~Short(t, k) /\ rotate(Chunk(t, k), -k) = SLOGAN
    IN
    \/ At(t, "read") /\ Exists(name) /\ Go([ft EXCEPT !.th[t].vn = ft.dir[name]], t, "read.loop")
    \/ At(t, "read") /\ ~Exists(name) /\ Returns(ft, t, "read", -1)
    \/ At(t, "read") /\ Fault /\ Returns(Faulty(ft), t, "read", -1)
    \/ At(t, "read.loop") /\ k < NCHUNKS /\ good /\ ft' = [ft EXCEPT !.th[t].k = @ + 1]
    \/ At(t, "read.loop") /\ k < NCHUNKS /\ ~good /\ Returns(vfs_close(ft, t), t, "read", -1)
    \/ /\ At(t, "read.loop") /\ k < NCHUNKS /\ Fault
       /\ Returns(vfs_close(Faulty(ft), t), t, "read", -1)
    \/ At(t, "read.loop") /\ k = NCHUNKS /\ Returns(vfs_close(ft, t), t, "read", 0)

fstest_remove(t) ==
    LET name == fstest_makename(t) IN
    \/ At(t, "remove") /\ Exists(name) /\ Returns(vfs_remove(ft, name), t, "remove", 0)
    \/ At(t, "remove") /\ ~Exists(name) /\ Returns(ft, t, "remove", -1)
    \/ At(t, "remove") /\ Fault /\ Returns(Faulty(ft), t, "remove", -1)

----------------------------------------------------------------------------
(* createstress_thread: all files written, then all read, then all removed *)

\* the next file of the loop, or on
Turn(s, t, again, on) ==
    ft' = IF Th(t).n + 1 < NCREATE THEN [s EXCEPT !.th[t].n = @ + 1, !.th[t].at = again]
          ELSE [s EXCEPT !.th[t].n = 0, !.th[t].at = on]
Counted(s, t, what) == [s EXCEPT !.count[t] = [@ EXCEPT ![what] = @ + 1]]

createwrite(t) ==
    LET i == Th(t).n IN
    \/ At(t, "create") /\ Go(vfs_open(t, fstest_makename(t), TRUE), t, "create.write")
    \/ At(t, "create") /\ Fault /\ Turn(Faulty(ft), t, "create", "create.read")
    \/ /\ At(t, "create.write")
       /\ Turn(Counted(vfs_close(VOP_WRITE(ft, t, 0, rotate(SLOGAN, i)), t), t, "written"), t,
               "create", "create.read")
    \/ /\ At(t, "create.write") /\ Fault
       /\ \E s \in {ft, VOP_WRITE(ft, t, 0, Torn)} :
             Turn(vfs_close(Faulty(s), t), t, "create", "create.read")

\* the file is read and closed; the tests that follow touch only the buffer
createread(t) ==
    LET name == fstest_makename(t)
        good == ~Short(t, 0) /\ rotate(Chunk(t, 0), -Th(t).n) = SLOGAN
        Next(s) == Turn(s, t, "create.read", "create.remove")
    IN
    \/ /\ At(t, "create.read") /\ Exists(name)
       /\ Go([ft EXCEPT !.th[t].vn = ft.dir[name]], t, "create.check")
    \/ At(t, "create.read") /\ ~Exists(name) /\ Next(ft)
    \/ At(t, "create.read") /\ Fault /\ Next(Faulty(ft))
    \/ At(t, "create.check") /\ good /\ Next(Counted(vfs_close(ft, t), t, "read"))
    \/ At(t, "create.check") /\ ~good /\ Next(vfs_close(ft, t))
    \/ At(t, "create.check") /\ Fault /\ Next(vfs_close(Faulty(ft), t))

createremove(t) ==
    LET name == fstest_makename(t) IN
    \/ /\ At(t, "create.remove") /\ Exists(name)
       /\ Turn(Counted(vfs_remove(ft, name), t, "removed"), t, "create.remove", "V")
    \/ At(t, "create.remove") /\ ~Exists(name) /\ Turn(ft, t, "create.remove", "V")
    \/ At(t, "create.remove") /\ Fault /\ Turn(Faulty(ft), t, "create.remove", "V")

createstress_thread(t) == createwrite(t) \/ createread(t) \/ createremove(t)

----------------------------------------------------------------------------
(* The tests *)

\* where the thread of a stress test begins
threadstart ==
    CASE ft.test = "readstress" -> "read"
      [] ft.test = "createstress" -> "create"
      [] OTHER -> "write"

\* the loops that fork the threads and wait for them; a failed fork panics
dostress ==
    LET k == Th(Main).k IN
    \/ /\ At(Main, "fork") /\ k < NTHREADS
       /\ ft' = [ft EXCEPT !.th[k].at = threadstart, !.th[Main].k = @ + 1]
    \/ At(Main, "fork") /\ k = NTHREADS /\ Go(ft, Main, "P")
    \/ /\ At(Main, "P") /\ k < NTHREADS /\ ft.threadsem > 0
       /\ ft' = [ft EXCEPT !.threadsem = @ - 1, !.th[Main].k = @ + 1]
    \/ /\ At(Main, "P") /\ k = NTHREADS
       /\ Go(ft, Main, CASE ft.test = "readstress" -> "remove"
                         [] ft.test = "writestress2" -> "read"
                         [] OTHER -> "done")

V(t) == At(t, "V") /\ Go([ft EXCEPT !.threadsem = @ + 1], t, "exit")

\* the file is made, or emptied, before the threads write parts of it
dowritestress2 ==
    \/ At(Main, "make") /\ Go(vfs_close(vfs_open(Main, <<>>, TRUE), Main), Main, "fork")
    \/ At(Main, "make") /\ Fault /\ Go([Faulty(ft) EXCEPT !.failed = {Main}], Main, "done")

\* printfile: a buffer is read and written to the console, till one is not
\* full.  A short write is only warned of.
printfile ==
    LET pos == Th(Main).k
        file == ft.data[ft.dir[<<>>]]
        buf == SubSeq(file, pos + 1, Min({pos + FtBuf, Len(file)}))
        Written(s, out) == [s EXCEPT !.out = @ \o out, !.th[Main].k = @ + Len(buf),
                                     !.th[Main].at = IF Len(buf) < FtBuf THEN "done" ELSE @]
    IN
    \/ At(Main, "print") /\ Exists(<<>>) /\ ft' = Written(ft, buf)
    \/ /\ At(Main, "print") /\ Exists(<<>>) /\ Fault /\ buf # <<>>
       /\ ft' = Written(Faulty(ft), Tail(buf))
    \/ At(Main, "print") /\ ~Exists(<<>>) /\ Go(ft, Main, "done")
    \/ At(Main, "print") /\ Fault /\ Go(Faulty(ft), Main, "done")

\* checkfilesystem finds a device; the files of an earlier run may be there.
FtInit ==
    \E test \in FtTests, stale \in BOOLEAN :
       LET start == CASE test \in {"fstest", "readstress"} -> "write"
                      [] test = "writestress2" -> "make"
                      [] test = "printfile" -> "print"
                      [] OTHER -> "fork"
           dir == IF stale THEN [x \in {<<>>} |-> 1] ELSE <<>>
       IN ft = [test |-> test, threadsem |-> 0, faults |-> 0, failed |-> {}, out |-> <<>>,
                dir |-> dir,
                data |-> [v \in {dir[x] : x \in DOMAIN dir} |-> [i \in 1 .. NCHUNKS + 1 |-> 1]],
                count |-> [t \in Threads |-> [written |-> 0, read |-> 0, removed |-> 0]],
                th |-> [t \in Threads \cup {Main} |->
                          [at |-> IF t = Main THEN start ELSE "none", k |-> 0, n |-> 0,
                           vn |-> None]]]

FtNext ==
    \/ dostress \/ dowritestress2 \/ printfile
    \/ \E t \in Threads \cup {Main} : fstest_write(t) \/ fstest_read(t) \/ fstest_remove(t)
    \/ \E t \in Threads : createstress_thread(t) \/ V(t)

----------------------------------------------------------------------------
(* Properties *)

Over == At(Main, "done")

\* The tests of a file system end however the threads are scheduled: each thread
\* raises threadsem once, so the next test that shares it begins from 0, and no
\* vnode stays open on any path.  Of a correct file system they report no failure
\* and leave no file; a fault in one thread fails no other thread, except that in
\* writestress2 it always shows in what the main thread reads; and createstress
\* counts a file as read only if it was counted as written.  printfile shows the
\* file.
FsTestsSound ==
    /\ ~ENABLED FtNext => Over
    /\ Over => /\ \A t \in Threads : At(t, "none") \/ At(t, "exit")
               /\ ft.threadsem = 0
               /\ \A t \in DOMAIN ft.th : Th(t).vn = None
    /\ (Over /\ ft.faults = 0) => ft.failed = {} /\ DOMAIN ft.dir \subseteq {<<>>}
    /\ (Over /\ ft.faults = 0 /\ ft.test \in {"fstest", "readstress", "writestress2"})
          => ft.dir = <<>>
    /\ Cardinality(ft.failed \cap Threads) <= ft.faults
    /\ (Over /\ ft.test = "writestress2" /\ ft.failed # {}) => Main \in ft.failed
    /\ \A t \in Threads : ft.count[t].read <= ft.count[t].written
    /\ (Over /\ ft.test = "createstress" /\ ft.faults = 0) =>
          \A t \in Threads : \A what \in DOMAIN ft.count[t] : ft.count[t][what] = NCREATE
    /\ (Over /\ ft.test = "printfile" /\ ft.faults = 0 /\ Exists(<<>>))
          => ft.out = ft.data[ft.dir[<<>>]]
=============================================================================

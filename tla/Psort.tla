-------------------------------- MODULE Psort --------------------------------
(***************************************************************************)
(* userland/testbin/psort: a sort by several processes.  The parent        *)
(* (main, genkeys, sort, validate) directs six phases; in each, doforkall  *)
(* forks numprocs children that work on files and waits for all of them.   *)
(* In the phase "assemble" a child turns into cat (userland/bin/cat).      *)
(*                                                                         *)
(* A file is the sequence of its integers: everything psort reads, writes  *)
(* and seeks is a multiple of sizeof(int).  What the calls of a child do   *)
(* to files that no other process looks at in that phase is one step with  *)
(* the call before it.  A fault is a failed fork, system call, exec or     *)
(* remove; a behaviour has at most PsFaults.                               *)
(***************************************************************************)
EXTENDS Integers, Sequences, FiniteSets, FiniteSetsExt, SequencesExt

CONSTANTS
    PsProcs,        \* the values of numprocs (option -p)
    PsNumkeys,      \* the values of numkeys (option -k)
    PsWork,         \* the values of WORKNUM
    RANDOM_MAX,     \* the largest number random() returns
    PsRandom,       \* the numbers it may return
    PsCatBuf,       \* how many integers the buffer of cat holds
    PsFaults        \* the greatest number of faults

VARIABLE ps

PsortAssumption ==
    /\ PsProcs \cup PsNumkeys \cup PsWork \cup {RANDOM_MAX, PsCatBuf} \subseteq Nat \ {0}
    /\ PsRandom \subseteq 0 .. RANDOM_MAX
    /\ PsFaults \in Nat

Kids == 0 .. ps.numprocs - 1

----------------------------------------------------------------------------
(* Files *)

PATH_KEYS == <<"sortkeys", 0, 0>>
PATH_SORTED == <<"output", 0, 0>>
binname(a, b) == <<"bin", a, b>>
mergedname(a) == <<"merged", a, 0>>
validname(a) == <<"valid", a, 0>>

binnames == {binname(a, b) : a \in Kids, b \in Kids}
mergednames == {mergedname(a) : a \in Kids}
validnames == {validname(a) : a \in Kids}

\* open with O_CREAT | O_TRUNC, of each of some files
docreate(files, names) ==
    [f \in DOMAIN files \cup names |-> IF f \in names THEN <<>> ELSE files[f]]

doremove(files, names) == [f \in DOMAIN files \ names |-> files[f]]

\* whichever of stat, fstat and lseek the kernel has
getsize(files, name) == Len(files[name])

\* read of up to n integers at an offset; fewer are left at the end of the file
doread(files, name, offset, n) ==
    SubSeq(files[name], offset + 1, Min({offset + n, Len(files[name])}))

\* a short count is an error
doexactreadFails(files, name, offset, n) == Len(doread(files, name, offset, n)) # n

Patched(f, offset, vals) ==
    [x \in 1 .. Max({Len(f), offset + Len(vals)}) |->
        IF x > offset /\ x <= offset + Len(vals) THEN vals[x - offset]
        ELSE IF x <= Len(f) THEN f[x] ELSE 0]

dowrite(files, name, offset, vals) ==
    [f \in DOMAIN files |->
        IF f = name /\ vals # <<>> THEN Patched(files[f], offset, vals) ELSE files[f]]

\* The sum of the bytes; an integer of the model is one byte and three zeros.
checksum_file(files, name) == FoldLeft(+, 0, files[name])

SizeOf(files, names) == MapThenSumSet(LAMBDA f : getsize(files, f), names)

----------------------------------------------------------------------------
(* sortints: quicksort with three parts *)

\* The loop: smaller integers are moved to the front, larger ones to the end.
RECURSIVE Toss(_, _, _, _, _)
Toss(v, pivot, front, read, end) ==
    IF read >= end THEN [v |-> v, front |-> front, end |-> end]
    ELSE IF v[read] < pivot
    THEN Toss([v EXCEPT ![front] = v[read]], pivot, front + 1, read + 1, end)
    ELSE IF v[read] = pivot THEN Toss(v, pivot, front, read + 1, end)
    ELSE Toss([v EXCEPT ![end - 1] = v[read], ![read] = v[end - 1]], pivot, front, read, end - 1)

\* The integers equal to the pivot are filled in between, and the end reversed.
Tossed(t, pivot) ==
    [i \in DOMAIN t.v |->
        IF i < t.front THEN t.v[i]
        ELSE IF i < t.end THEN pivot
        ELSE t.v[t.end + Len(t.v) - i]]

RECURSIVE sortints(_)
sortints(v) ==
    IF Len(v) < 2 THEN v
    ELSE LET pivot == v[(Len(v) \div 2) + 1]
             t == Toss(v, pivot, 1, 1, Len(v) + 1)
             w == Tossed(t, pivot)
         IN sortints(SubSeq(w, 1, t.front - 1)) \o SubSeq(w, t.front, t.end - 1)
              \o sortints(SubSeq(w, t.end, Len(w)))

----------------------------------------------------------------------------
(* The children *)

\* A child that does not exist, with its local variables cleared.
NoKid == [st |-> "none", at |-> "open", done |-> 0, pos |-> 0, buf |-> <<>>, ins |-> <<>>,
          low |-> 0, high |-> 0]

keys_per == ps.numkeys \div ps.numprocs
seekmyplace(me) == me * keys_per
getmykeys(me) == IF me < ps.numprocs - 1 THEN keys_per ELSE ps.numkeys - me * keys_per
keys_to_do(me) == Min({getmykeys(me) - ps.kid[me].done, ps.worknum})
pivot == RANDOM_MAX \div ps.numprocs

In(me, phase, at) ==
    ps.phase = phase /\ me \in Kids /\ ps.kid[me].st = "run" /\ ps.kid[me].at = at

Becomes(me, kid, files) == ps' = [ps EXCEPT !.kid[me] = kid, !.files = files]
Does(me, kid) == Becomes(me, kid, ps.files)
Exits(me, status, files) == Becomes(me, [NoKid EXCEPT !.st = status], files)

\* complain and exit(1), after any call that may fail; or a failed assertion
exit1(me) ==
    /\ ps.faults < PsFaults
    /\ me \in Kids /\ ps.kid[me].st = "run"
    /\ ps' = [ps EXCEPT !.kid[me] = [NoKid EXCEPT !.st = "failed"], !.faults = @ + 1]

\* genkeys_sub: write my part of the keys, WORKNUM at a time.  random() is
\* called again for 0 and for RANDOM_MAX.
genkeys_sub(me) ==
    LET kid == ps.kid[me] IN
    \/ In(me, "genkeys", "open")
       /\ Does(me, [kid EXCEPT !.at = "loop", !.pos = seekmyplace(me)])
    \/ /\ In(me, "genkeys", "loop")
       /\ kid.done < getmykeys(me)
       /\ \E vals \in [1 .. keys_to_do(me) -> PsRandom \ {0, RANDOM_MAX}] :
             Becomes(me, [kid EXCEPT !.done = @ + Len(vals), !.pos = @ + Len(vals)],
                     dowrite(ps.files, PATH_KEYS, kid.pos, vals))
    \/ /\ In(me, "genkeys", "loop")
       /\ kid.done >= getmykeys(me)
       /\ Exits(me, "exited", ps.files)

\* bin: distribute my part of the keys over my bins.
Appended(files, me, keys) ==
    [f \in DOMAIN files |->
        files[f] \o SelectSeq(keys, LAMBDA key : binname(me, key \div pivot) = f)]

bin(me) ==
    LET kid == ps.kid[me]
        n == keys_to_do(me)
        keys == doread(ps.files, PATH_KEYS, kid.pos, n)
        bad == {i \in DOMAIN keys : keys[i] \div pivot >= ps.numprocs}
    IN
    \/ /\ In(me, "bin", "open")
       /\ Becomes(me, [kid EXCEPT !.at = "loop", !.pos = seekmyplace(me)],
                  docreate(ps.files, {binname(me, i) : i \in Kids}))
    \/ /\ In(me, "bin", "loop")
       /\ kid.done < getmykeys(me)
       /\ ~doexactreadFails(ps.files, PATH_KEYS, kid.pos, n)
       /\ bad = {}
       /\ Becomes(me, [kid EXCEPT !.done = @ + n, !.pos = @ + n], Appended(ps.files, me, keys))
    \/ /\ In(me, "bin", "loop")
       /\ kid.done < getmykeys(me)
       /\ ~doexactreadFails(ps.files, PATH_KEYS, kid.pos, n)
       /\ bad # {}
       /\ Exits(me, "failed", Appended(ps.files, me, SubSeq(keys, 1, Min(bad) - 1)))
    \/ /\ In(me, "bin", "loop")
       /\ kid.done < getmykeys(me)
       /\ doexactreadFails(ps.files, PATH_KEYS, kid.pos, n)
       /\ Exits(me, "failed", ps.files)
    \/ /\ In(me, "bin", "loop")
       /\ kid.done >= getmykeys(me)
       /\ Exits(me, "exited", ps.files)

\* sortbins: each of my bins in turn, which must fit in the workspace.
sortbins(me) ==
    LET kid == ps.kid[me]
        name == binname(me, kid.done)
    IN
    \/ In(me, "sortbins", "open") /\ Does(me, [kid EXCEPT !.at = "loop"])
    \/ /\ In(me, "sortbins", "loop") /\ kid.done \in Kids
       /\ getsize(ps.files, name) <= ps.worknum
       /\ Becomes(me, [kid EXCEPT !.done = @ + 1],
                  dowrite(ps.files, name, 0, sortints(ps.files[name])))
    \/ /\ In(me, "sortbins", "loop") /\ kid.done \in Kids
       /\ getsize(ps.files, name) > ps.worknum
       /\ Exits(me, "failed", ps.files)
    \/ In(me, "sortbins", "loop") /\ kid.done \notin Kids /\ Exits(me, "exited", ps.files)

\* mergebins: read an integer from each bin that is not ready and not at its end
Readied(ins, me) ==
    [i \in Kids |->
        IF ~ins[i].open \/ ins[i].ready THEN ins[i]
        ELSE LET val == doread(ps.files, binname(i, me), ins[i].pos, 1)
             IN IF val = <<>> THEN [ins[i] EXCEPT !.open = FALSE]
                ELSE [ins[i] EXCEPT !.ready = TRUE, !.value = val[1], !.pos = @ + 1]]

\* the first of the smallest values that are ready
Place(ins) ==
    LET ready == {i \in Kids : ins[i].ready}
        least == Min({ins[i].value : i \in ready})
    IN Min({i \in ready : ins[i].value = least})

\* One turn of the loop; a full workspace is written out.
Turn(me, kid, ins, place) ==
    LET work == Append(kid.buf, ins[place].value)
        full == Len(work) >= ps.worknum
    IN Becomes(me, [kid EXCEPT !.ins = [ins EXCEPT ![place].ready = FALSE],
                               !.buf = IF full THEN <<>> ELSE work,
                               !.pos = IF full THEN @ + Len(work) ELSE @],
               IF full THEN dowrite(ps.files, mergedname(me), kid.pos, work) ELSE ps.files)

MergeTurn(me, kid, ins) ==
    \/ (\E i \in Kids : ins[i].ready) /\ Turn(me, kid, ins, Place(ins))
    \/ /\ \A i \in Kids : ~ins[i].ready
       /\ Exits(me, "exited", dowrite(ps.files, mergedname(me), kid.pos, kid.buf))

mergebins(me) ==
    LET kid == ps.kid[me] IN
    \/ /\ In(me, "mergebins", "open")
       /\ \A i \in Kids : binname(i, me) \in DOMAIN ps.files
       /\ Becomes(me, [kid EXCEPT !.at = "loop",
                                  !.ins = [i \in Kids |-> [open |-> TRUE, ready |-> FALSE,
                                                           value |-> 0, pos |-> 0]]],
                  docreate(ps.files, {mergedname(me)}))
    \/ In(me, "mergebins", "loop") /\ MergeTurn(me, kid, Readied(kid.ins, me))

\* assemble: my place in the output comes after the merged files before mine;
\* standard output is made the output file at that place.
assemble(me) ==
    LET kid == ps.kid[me] IN
    /\ In(me, "assemble", "open")
    /\ Does(me, [kid EXCEPT !.at = "cat",
                            !.pos = SizeOf(ps.files, {mergedname(i) : i \in 0 .. me - 1})])

\* the loop of cat; write returns the whole count
docat(me) ==
    LET kid == ps.kid[me]
        buf == doread(ps.files, mergedname(me), kid.done, PsCatBuf)
    IN
    \/ /\ In(me, "assemble", "cat") /\ buf # <<>>
       /\ Becomes(me, [kid EXCEPT !.done = @ + Len(buf), !.pos = @ + Len(buf)],
                  dowrite(ps.files, PATH_SORTED, kid.pos, buf))
    \/ In(me, "assemble", "cat") /\ buf = <<>> /\ Exits(me, "exited", ps.files)

\* dovalidate: the smallest and the largest key of my part of the output
dovalidate(me) ==
    LET kid == ps.kid[me]
        n == keys_to_do(me)
        keys == doread(ps.files, PATH_SORTED, kid.pos, n)
        found == {keys[i] : i \in DOMAIN keys}
    IN
    \/ /\ In(me, "validate", "open")
       /\ Does(me, [kid EXCEPT !.at = "loop", !.pos = seekmyplace(me), !.low = RANDOM_MAX])
    \/ /\ In(me, "validate", "loop") /\ kid.done < getmykeys(me)
       /\ ~doexactreadFails(ps.files, PATH_SORTED, kid.pos, n)
       /\ found \subseteq 1 .. RANDOM_MAX - 1
       /\ Does(me, [kid EXCEPT !.done = @ + n, !.pos = @ + n,
                               !.low = Min(found \cup {@}), !.high = Max(found \cup {@})])
    \/ /\ In(me, "validate", "loop") /\ kid.done < getmykeys(me)
       /\ \/ doexactreadFails(ps.files, PATH_SORTED, kid.pos, n)
          \/ ~(found \subseteq 1 .. RANDOM_MAX - 1)
       /\ Exits(me, "failed", ps.files)
    \/ /\ In(me, "validate", "loop") /\ kid.done >= getmykeys(me)
       /\ Exits(me, "exited",
                dowrite(docreate(ps.files, {validname(me)}), validname(me), 0,
                        <<kid.low, kid.high>>))

----------------------------------------------------------------------------
(* The parent *)

\* doforkall begins a phase.
Begin(phase, files) ==
    ps' = [ps EXCEPT !.phase = phase, !.at = "fork", !.i = 0, !.bad = FALSE, !.files = files]
Fails == ps' = [ps EXCEPT !.at = "over", !.result = "failed"]

\* the first loop of doforkall; a failed fork is remembered
dofork ==
    /\ ps.at = "fork"
    /\ \/ /\ ps.i < ps.numprocs
          /\ ps' = [ps EXCEPT !.kid[ps.i].st = "run", !.i = @ + 1]
       \/ /\ ps.i < ps.numprocs
          /\ ps.faults < PsFaults
          /\ ps' = [ps EXCEPT !.bad = TRUE, !.i = @ + 1, !.faults = @ + 1]
       \/ /\ ps.i = ps.numprocs
          /\ ps' = [ps EXCEPT !.at = "wait", !.i = 0]


\* waitpid for a child that was forked
dowait ==
    /\ ps.kid[ps.i].st # "run"
    /\ ps' = [ps EXCEPT !.bad = @ \/ ps.kid[ps.i].st = "failed", !.i = @ + 1,
                        !.kid[ps.i] = NoKid]

\* the second loop of doforkall, and what it concludes
doforkall ==
    /\ ps.at = "wait"
    /\ \/ ps.i < ps.numprocs /\ dowait
       \/ ps.i = ps.numprocs /\ ps.bad /\ Fails
       \/ ps.i = ps.numprocs /\ ~ps.bad /\ ps' = [ps EXCEPT !.at = "check"]

Checking(phase) == ps.phase = phase /\ ps.at = "check"

\* What may remain of some names after remove, which is only complained about
\* when it fails; it always fails where the kernel does not have it (noremove).
Kept(names) ==
    IF ps.noremove THEN {names}
    ELSE {S \in SUBSET names : Cardinality(S) + ps.faults <= PsFaults}
Removed(names, kept) == doremove(ps.files, names \ kept)
Missed(kept) == IF ps.noremove THEN 0 ELSE Cardinality(kept)

\* a failed call of the parent itself
Dies ==
    /\ ps.faults < PsFaults
    /\ ps.at = "check"
    /\ ps' = [ps EXCEPT !.at = "over", !.result = "failed", !.faults = @ + 1]

\* genkeys: create the file, have it filled, then check its size and sum it
genkeys ==
    \/ Checking("start") /\ Begin("genkeys", docreate(ps.files, {PATH_KEYS}))
    \/ Checking("genkeys") /\ getsize(ps.files, PATH_KEYS) # ps.numkeys /\ Fails
    \/ /\ Checking("genkeys") /\ getsize(ps.files, PATH_KEYS) = ps.numkeys
       /\ ps' = [ps EXCEPT !.phase = "bin", !.at = "fork", !.i = 0,
                           !.checksum = checksum_file(ps.files, PATH_KEYS)]

checksize_bins == SizeOf(ps.files, binnames) = ps.numkeys
checksize_merge == SizeOf(ps.files, mergednames) = ps.numkeys
checksize_valid == SizeOf(ps.files, validnames) = 2 * ps.numprocs

\* sort: what comes after each of its phases
sort ==
    \/ Checking("bin") /\ checksize_bins /\ Begin("sortbins", ps.files)
    \/ Checking("sortbins") /\ checksize_bins /\ Begin("mergebins", ps.files)
    \/ (Checking("bin") \/ Checking("sortbins")) /\ ~checksize_bins /\ Fails
    \/ /\ Checking("mergebins") /\ checksize_merge
       /\ \E kept \in Kept(binnames) :
             ps' = [ps EXCEPT !.phase = "assemble", !.at = "fork", !.i = 0,
                              !.files = docreate(Removed(binnames, kept), {PATH_SORTED}),
                              !.faults = @ + Missed(kept)]
    \/ Checking("mergebins") /\ ~checksize_merge /\ Fails
    \/ /\ Checking("assemble") /\ getsize(ps.files, PATH_SORTED) = ps.numkeys
       /\ \E kept \in Kept(mergednames) :
             ps' = [ps EXCEPT !.phase = "sum", !.files = Removed(mergednames, kept),
                              !.faults = @ + Missed(kept)]
    \/ Checking("assemble") /\ getsize(ps.files, PATH_SORTED) # ps.numkeys /\ Fails
    \/ /\ Checking("sum") /\ checksum_file(ps.files, PATH_SORTED) = ps.checksum
       /\ Begin("validate", ps.files)
    \/ Checking("sum") /\ checksum_file(ps.files, PATH_SORTED) # ps.checksum /\ Fails

\* validate: the tests of each block's smallest and largest key.  prev_largest
\* keeps its first value, 1.
BlockGood(block) ==
    block[1] >= 1 /\ block[2] < RANDOM_MAX /\ block[1] <= block[2]

ValidateGood == checksize_valid /\ \A i \in Kids : BlockGood(ps.files[validname(i)])

validate ==
    \/ Checking("validate") /\ ~ValidateGood /\ Fails
    \/ /\ Checking("validate") /\ ValidateGood
       /\ \E kept \in Kept(validnames) :
             ps' = [ps EXCEPT !.at = "succeeded", !.result = "succeeded",
                              !.files = Removed(validnames, kept),
                              !.faults = @ + Missed(kept)]

unsetdir ==
    /\ ps.at = "succeeded"
    /\ \E kept \in Kept({PATH_KEYS, PATH_SORTED}) :
          ps' = [ps EXCEPT !.at = "over", !.faults = @ + Missed(kept),
                           !.files = Removed({PATH_KEYS, PATH_SORTED}, kept)]

\* The files psort uses may be there from an earlier run that failed.
Stale(n) ==
    LET kids == 0 .. n - 1
        names == {PATH_KEYS, PATH_SORTED} \cup {binname(a, b) : a \in kids, b \in kids}
                   \cup {mergedname(a) : a \in kids} \cup {validname(a) : a \in kids}
    IN [f \in names |-> <<3, 1, 3, 1, 3, 1>>]

\* doargs, and main before genkeys
PsInit ==
    \E numprocs \in PsProcs, numkeys \in PsNumkeys, work \in PsWork, stale \in BOOLEAN,
       noremove \in BOOLEAN :
       ps = [numprocs |-> numprocs, numkeys |-> numkeys, worknum |-> work, phase |-> "start",
             at |-> "check", i |-> 0, bad |-> FALSE, result |-> "none", checksum |-> 0,
             faults |-> 0, noremove |-> noremove, kid |-> [k \in 0 .. numprocs - 1 |-> NoKid],
             files |-> IF stale THEN Stale(numprocs) ELSE <<>>]

PsNext ==
    \/ genkeys \/ sort \/ validate \/ unsetdir \/ Dies \/ dofork \/ doforkall
    \/ \E me \in Kids : \/ genkeys_sub(me) \/ bin(me) \/ sortbins(me) \/ mergebins(me)
                        \/ assemble(me) \/ docat(me) \/ dovalidate(me) \/ exit1(me)

----------------------------------------------------------------------------
(* Properties *)

Ascending(s) == \A i \in 1 .. Len(s) - 1 : s[i] <= s[i + 1]
SameKeys(s, t) ==
    \A v \in 0 .. RANDOM_MAX :
       Cardinality({i \in DOMAIN s : s[i] = v}) = Cardinality({i \in DOMAIN t : t[i] = v})

Mine(me) == SubSeq(ps.files[PATH_KEYS], seekmyplace(me) + 1, seekmyplace(me) + getmykeys(me))

\* What a phase may rely on when it begins.
BinsRight ==
    \A a \in Kids :
       /\ SizeOf(ps.files, {binname(a, b) : b \in Kids}) = getmykeys(a)
       /\ \A b \in Kids :
             SameKeys(ps.files[binname(a, b)], SelectSeq(Mine(a), LAMBDA key : key \div pivot = b))
MergedRight ==
    \A a \in Kids :
       /\ Ascending(ps.files[mergedname(a)])
       /\ SameKeys(ps.files[mergedname(a)],
                   SelectSeq(ps.files[PATH_KEYS], LAMBDA key : key \div pivot = a))

\* Reasons for which psort gives up though nothing has failed: a key that belongs
\* to no bin, a bin larger than the workspace, and a part without keys.
Excused ==
    \/ ps.faults > 0
    \/ \E i \in DOMAIN ps.files[PATH_KEYS] : ps.files[PATH_KEYS][i] \div pivot >= ps.numprocs
    \/ \E f \in binnames : f \in DOMAIN ps.files /\ getsize(ps.files, f) > ps.worknum
    \/ \E me \in Kids : getmykeys(me) = 0

=============================================================================

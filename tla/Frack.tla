------------------------------- MODULE Frack --------------------------------
(***************************************************************************)
(* The crash tester userland/testbin/frack.  "frack do" runs a workload on *)
(* a volume that may crash under it; "frack check" runs the same workload  *)
(* against a model of the volume (check.c), which keeps a log of changes,  *)
(* and then looks for the version of the log that the volume holds.  The   *)
(* two runs are made with one seed and make the same choices, so the model *)
(* makes them side by side: a step performs one operation in check mode    *)
(* and, until the crash, on the volume.                                    *)
(*                                                                         *)
(* The volume is external: a file system that applies operations in order, *)
(* and that after a crash may show a replacing rename half done, or the    *)
(* part of the last write beyond the old size as zeros from some block on. *)
(* Lengths are in units, BLOCKSIZE of them in a block.                     *)
(***************************************************************************)
EXTENDS Integers, Sequences, FiniteSetsExt, SequencesExt, TLC

CONSTANTS
    BLOCKSIZE, SFS_NDIRECT, SFS_DBPERIDB,  \* what workloads.c knows of SFS
    DATA_MAXSIZE,                          \* the most one write record covers
    MAXFILES,                              \* open files in the pool of ops.c
    FrMany, FrFew,                         \* bounds: the 27 and the 14 files of a "many"
    FrThings, FrRandThings,                \* bounds: what a tree has in it
    FrRandWrites, FrRandTruncs,            \* bounds: what randwrite and randtruncate draw
    FrOps,                                 \* bound: operations of a random sequence
    FrWorkloads                            \* the workloads run, with their argument

FrackAssumption ==
    /\ {BLOCKSIZE, SFS_NDIRECT, SFS_DBPERIDB, DATA_MAXSIZE, MAXFILES} \subseteq Nat \ {0}
    /\ {FrMany, FrFew, FrThings, FrRandThings, FrOps} \subseteq Nat
    /\ FrMany < MAXFILES /\ DATA_MAXSIZE % BLOCKSIZE = 0

VARIABLES
    fr,      \* the workload: its name, the operations to come, what it draws from
    frk,     \* check.c: the log, the state it leads to, cwd, the counters
    frv,     \* the volume, and whether it is still up
    frh,     \* struct file: the open files of ops.c
    frOut    \* how frack check ended

frVars == <<fr, frk, frv, frh, frOut>>

-----------------------------------------------------------------------------
(* workloads.c: sizes and common suboperations *)

sizeblocks(sz) ==
    CASE sz = "one"       -> 1
      [] sz = "small"     -> SFS_NDIRECT
      [] sz = "medium"    -> SFS_NDIRECT + (SFS_DBPERIDB \div 2)
      [] sz = "large"     -> SFS_NDIRECT + SFS_DBPERIDB + ((SFS_DBPERIDB * SFS_DBPERIDB) \div 2)
      [] sz = "largeplus" -> SFS_NDIRECT + SFS_DBPERIDB + SFS_DBPERIDB * SFS_DBPERIDB
                               + (SFS_DBPERIDB \div 2)

sizebytes(sz) == BLOCKSIZE * sizeblocks(sz)

sizes == <<"one", "small", "medium", "large", "largeplus">>
sizeindex(sz) == CHOOSE i \in DOMAIN sizes : sizes[i] = sz
nextsmallersize(sz) == sizes[sizeindex(sz) - 1]
nextlargersize(sz) == sizes[sizeindex(sz) + 1]

\* A handle is named by the variable of the workload that holds it: f, or files[i].
f == -1

op_open(h, code, name, flags) ==
    <<[op |-> "open", h |-> h, code |-> code, name |-> name, flags |-> flags]>>
op_close(h) == <<[op |-> "close", h |-> h]>>
op_truncate(h, len) == <<[op |-> "truncate", h |-> h, len |-> len]>>

\* A write is made in pieces of DATA_MAXSIZE.
op_write(h, pos, len) ==
    [i \in 1..((len + DATA_MAXSIZE - 1) \div DATA_MAXSIZE) |->
       [op |-> "write", h |-> h, pos |-> pos + (i - 1) * DATA_MAXSIZE,
        len |-> Min({DATA_MAXSIZE, len - (i - 1) * DATA_MAXSIZE})]]

op_1(op, name) == <<[op |-> op, name |-> name]>>
op_mkdir(n) == op_1("mkdir", n)
op_rmdir(n) == op_1("rmdir", n)
op_unlink(n) == op_1("unlink", n)
op_chdir(n) == op_1("chdir", n)
op_link(from, to) == <<[op |-> "link", name |-> from, to |-> to]>>
op_rename(from, to) == <<[op |-> "rename", name |-> from, to |-> to]>>
op_renamexd(d1, from, d2, to) ==
    <<[op |-> "renamexd", fromdir |-> d1, name |-> from, todir |-> d2, to |-> to]>>
op_chdirup == <<[op |-> "chdirup"]>>
op_sync == <<[op |-> "sync"]>>
\* opendir and closedir only hold the directory open; check mode does nothing.
op_opendir(n) == <<[op |-> "opendir", name |-> n]>>
op_closedir == <<[op |-> "closedir"]>>

\* ops(i) for each i from 0 to n - 1, one after the other.
For(n, ops(_)) == FoldLeft(LAMBDA s, i : s \o ops(i - 1), <<>>, [i \in 1..n |-> i])

writeoutfile(code, name, flags, sz) ==
    op_open(f, code, name, flags) \o op_write(f, 0, sizebytes(sz)) \o op_close(f)
writenewfile(code, name, sz) == writeoutfile(code, name, "creat", sz)
writeemptyfile(name) == op_open(f, 0, name, "creat") \o op_close(f)
writeholeyfile(code, name, sz) ==
    op_open(f, code, name, "creat") \o op_write(f, 0, BLOCKSIZE)
      \o op_write(f, sizebytes(sz) - BLOCKSIZE, BLOCKSIZE) \o op_close(f)

\* Writes to blocks drawn from those of the file, some skipped at its ends.
file_randomwrite(h, sz, startskip, endskip) ==
    For(Max({2, sizeblocks(sz) \div 6}), LAMBDA i :
        <<[op |-> "random", h |-> h, from |-> startskip,
           to |-> sizeblocks(sz) - endskip - 1]>>)

makesubtree(code, name) ==
    LET new(n) == writenewfile(code, n, "one")
    IN  op_mkdir(name) \o op_chdir(name)
          \o For(7, LAMBDA i : IF i \in {2, 5} THEN op_mkdir(i) ELSE new(i))
          \o op_chdir(2) \o For(4, LAMBDA i : new(i + 3)) \o op_chdirup
          \o op_chdir(5) \o For(5, LAMBDA i : IF i = 3 THEN op_mkdir(6) ELSE new(i + 3))
          \o op_chdir(6) \o For(2, LAMBDA i : new(i + 7)) \o op_chdirup
          \o op_chdirup \o op_chdirup

RECURSIVE wl_mktree_sub(_, _)
wl_mktree_sub(code, depth) ==
    For(FrThings, LAMBDA i :
        IF i < depth THEN writenewfile(code, i, "one")
        ELSE op_mkdir(i) \o IF depth < FrThings
                            THEN op_chdir(i) \o wl_mktree_sub(code, depth + 1) \o op_chdirup
                            ELSE <<>>)

RECURSIVE wl_rmtree_sub(_)
wl_rmtree_sub(depth) ==
    For(FrThings, LAMBDA i :
        IF i < depth THEN op_unlink(i)
        ELSE (IF depth < FrThings
              THEN op_chdir(i) \o wl_rmtree_sub(depth + 1) \o op_chdirup
              ELSE <<>>) \o op_rmdir(i))

many(ops(_)) == For(FrMany, ops)
few(ops(_)) == For(FrFew, ops)

\* What an append to an existing file adds.
appended(h, sz) == op_write(h, sizebytes(sz), BLOCKSIZE * 4)

\* The delayed removal that appends: half the files first, a quarter closed, then
\* one appended and two closed until all are.
RECURSIVE appendclose(_, _)
appendclose(i, j) ==
    IF j >= FrMany THEN <<>>
    ELSE LET i2 == IF i < FrMany THEN i + 1 ELSE i
             j2 == IF j + 1 < i2 THEN j + 2 ELSE j + 1
         IN  (IF i < FrMany THEN op_write(i, sizebytes("small"), 6 * BLOCKSIZE) ELSE <<>>)
               \o op_close(j) \o (IF j + 1 < i2 THEN op_close(j + 1) ELSE <<>>)
               \o appendclose(i2, j2)

\* Writing workloads, on a file of the size asked for.
wl_writing(name, sz) ==
    LET again(code, ops) == op_sync \o op_open(f, code, 0, "") \o ops \o op_close(f)
    IN  CASE name = "createwrite" -> writenewfile(1, 0, sz)
          [] name = "rewrite"     -> writenewfile(2, 0, sz) \o op_sync
                                       \o writeoutfile(3, 0, "", sz)
          [] name = "randupdate"  -> writenewfile(4, 0, sz)
                                       \o again(5, file_randomwrite(f, sz, 0, 0))
          [] name = "truncwrite"  -> writenewfile(6, 0, sz) \o op_sync
                                       \o writeoutfile(6, 0, "trunc", sz)
          [] name = "makehole"    -> writeholeyfile(8, 0, sz)
          [] name = "fillhole"    -> writeholeyfile(9, 0, sz)
                                       \o again(10, file_randomwrite(f, sz, 1, 1))
          [] name = "truncfill"   -> op_open(f, 11, 0, "creat")
                                       \o op_truncate(f, sizebytes(sz)) \o op_close(f)
                                       \o again(11, file_randomwrite(f, sz, 0, 0))
          [] name = "append"      -> writenewfile(11, 0, sz) \o again(12, appended(f, sz))
          [] OTHER                -> <<>>

\* Truncating workloads.
wl_truncating(name, sz) ==
    LET cut(ops) == writenewfile(50, 0, sz) \o op_sync \o op_open(f, 50, 0, "")
                      \o ops \o op_close(f)
    IN  CASE name = "trunczero"       -> cut(op_truncate(f, 0))
          [] name = "trunconeblock"   -> cut(op_truncate(f, sizebytes(sz) - BLOCKSIZE))
          [] name = "truncsmallersize" -> cut(op_truncate(f, sizebytes(nextsmallersize(sz))))
          [] name = "trunclargersize" -> cut(op_truncate(f, sizebytes(nextlargersize(sz))))
          [] name = "appendandtrunczero" -> cut(appended(f, sz) \o op_truncate(f, 0))
          [] name = "appendandtruncpartly" ->
               cut(appended(f, sz) \o op_truncate(f, sizebytes(sz) + BLOCKSIZE * 2))
          [] OTHER -> <<>>

\* Creating workloads.
wl_creating(name) ==
    CASE name = "mkfile"     -> writenewfile(100, 0, "one")
      [] name = "mkdir"      -> op_mkdir(0)
      [] name = "mkmanyfile" -> many(LAMBDA i : writenewfile(101, i, "one"))
      [] name = "mkmanydir"  -> many(LAMBDA i : op_mkdir(i))
      [] name = "mktree"     -> wl_mktree_sub(102, 0)
      [] name = "untar"      -> makesubtree(302, 0)
      [] OTHER               -> <<>>

\* Deleting workloads: what is made is synced first, beside a file that stays.
kept(make, n, rm) == make \o writeemptyfile(n) \o op_sync \o rm

wl_deleting(name) ==
    LET new(code, sz) == writenewfile(code, 0, sz)
    IN  CASE name = "rmfile" -> kept(new(150, "one"), 1, op_unlink(0))
          [] name = "rmdir"  -> kept(op_mkdir(0), 1, op_rmdir(0))
          [] name = "rmfiledelayed" ->
               kept(new(151, "one"), 1,
                    op_open(f, 151, 0, "") \o op_unlink(0) \o op_close(f))
          [] name = "rmfiledelayedappend" ->
               kept(new(152, "small"), 1,
                    op_open(f, 152, 0, "") \o op_unlink(0)
                      \o op_write(f, sizebytes("small"), 6 * BLOCKSIZE) \o op_close(f))
          [] name = "rmdirdelayed" ->
               kept(op_mkdir(0), 1, op_opendir(0) \o op_rmdir(0) \o op_closedir)
          [] name = "rmtree" -> wl_mktree_sub(156, 0) \o op_sync \o wl_rmtree_sub(0)
          [] OTHER -> <<>>

wl_deletingmany(name) ==
    LET files(code, sz) == many(LAMBDA i : writenewfile(code, i, sz))
        opened(code) == many(LAMBDA i : op_open(i, code, i, ""))
        unlinked == many(LAMBDA i : op_unlink(i))
        dirs == many(LAMBDA i : op_mkdir(i))
        removed == many(LAMBDA i : op_rmdir(i))
    IN  CASE name = "rmmanyfile" -> kept(files(153, "one"), FrMany, unlinked)
          [] name = "rmmanyfiledelayed" ->
               kept(files(154, "one"), FrMany,
                    opened(154) \o unlinked \o many(LAMBDA i : op_close(i)))
          [] name = "rmmanyfiledelayedandappend" ->
               kept(files(155, "small"), FrMany,
                    opened(155) \o unlinked
                      \o For(FrMany \div 2, LAMBDA i :
                             op_write(i, sizebytes("small"), 6 * BLOCKSIZE))
                      \o For(FrMany \div 4, LAMBDA i : op_close(i))
                      \o appendclose(FrMany \div 2, FrMany \div 4))
          [] name = "rmmanydir" -> kept(dirs, FrMany, removed)
          [] name = "rmmanydirdelayed" ->
               kept(dirs, FrMany, many(LAMBDA i : op_opendir(i)) \o removed
                                    \o many(LAMBDA i : op_closedir))
          [] OTHER -> <<>>

\* Linking workloads.
wl_linking(name) ==
    LET one(code) == writenewfile(code, 0, "one")
        all(code) == few(LAMBDA i : writenewfile(code, i, "one"))
        linked == few(LAMBDA i : op_link(i, FrFew + i))
    IN  CASE name = "linkfile"     -> one(200) \o op_sync \o op_link(0, 1)
          [] name = "linkmanyfile" -> all(201) \o op_sync \o linked
          [] name = "unlinkfile"   -> one(202) \o op_link(0, 1) \o writeemptyfile(2)
                                        \o op_sync \o op_unlink(1)
          [] name = "unlinkmanyfile" ->
               all(203) \o linked \o writeemptyfile(FrFew * 2) \o op_sync
                 \o few(LAMBDA i : op_unlink(IF i < FrFew \div 2 THEN i ELSE FrFew + i))
          [] name = "linkunlinkfile" -> one(204) \o op_sync \o op_link(0, 1) \o op_unlink(1)
          [] OTHER -> <<>>

\* Renaming workloads, in one directory and from one to another.
beside(make, rename) == make \o writeemptyfile(2) \o op_sync \o rename

wl_renaming(name) ==
    LET across(make) == op_mkdir(0) \o op_mkdir(1) \o op_chdir(0) \o make \o op_chdirup
                          \o op_sync \o op_renamexd(0, 2, 1, 3)
    IN  CASE name = "renamefile"    -> beside(writenewfile(250, 0, "one"), op_rename(0, 1))
          [] name = "renamedir"     -> beside(op_mkdir(0), op_rename(0, 1))
          [] name = "renamesubtree" -> beside(makesubtree(251, 0), op_rename(0, 1))
          [] name = "renamexdfile"  -> across(writenewfile(252, 2, "one"))
          [] name = "renamexddir"   -> across(op_mkdir(2))
          [] name = "renamexdsubtree" -> across(makesubtree(253, 2))
          [] OTHER -> <<>>

wl_renamingmany(name) ==
    LET all(make(_)) == few(make) \o writeemptyfile(FrFew * 2) \o op_sync
                          \o few(LAMBDA i : op_rename(i, FrFew + i))
    IN  CASE name = "renamemanyfile"  -> all(LAMBDA i : writenewfile(254, i, "one"))
          [] name = "renamemanydir"   -> all(LAMBDA i : op_mkdir(i))
          [] name = "renamemanysubtree" -> all(LAMBDA i : makesubtree(255, i))
          [] name = "copyandrename" ->
               beside(writenewfile(300, 0, "medium"),
                      writenewfile(301, 1, "medium") \o op_rename(1, 0))
          [] OTHER -> <<>>

\* What a random sequence makes before it draws.
wl_prepared(name) ==
    LET half(code) == For(FrMany \div 2, LAMBDA i : writenewfile(code, i, "medium")) \o op_sync
                        \o For(FrMany \div 2, LAMBDA i : op_open(i, code + 1, i, ""))
        prep(code) == For(FrMany \div 4, LAMBDA i : writenewfile(code, i, "one"))
                        \o For(FrMany \div 3, LAMBDA i : op_mkdir((FrMany \div 4) + i)) \o op_sync
    IN  CASE name = "writefileseq"  -> half(350)
          [] name = "writetruncseq" -> half(352)
          [] name = "linkunlinkseq" -> few(LAMBDA i : writenewfile(355, i, "one")) \o op_sync
          [] name = "renameseq"     ->
               For(FrMany \div 3, LAMBDA i : writenewfile(356, i, "one")) \o op_sync
          [] name = "diropseq"      -> prep(357)
          [] name = "genseq"        -> prep(358)
          [] OTHER                  -> <<>>

workload(w) ==
    wl_writing(w[1], w[2]) \o wl_truncating(w[1], w[2]) \o wl_creating(w[1])
      \o wl_deleting(w[1]) \o wl_deletingmany(w[1]) \o wl_linking(w[1])
      \o wl_renaming(w[1]) \o wl_renamingmany(w[1]) \o wl_prepared(w[1])

-----------------------------------------------------------------------------
(* check.c: the current state, and the changes that lead to it *)

file(id) == [dir |-> FALSE, id |-> id]
dir(id) == [dir |-> TRUE, id |-> id]

\* The root directory alone.
newfs == [ent |-> (0 :> <<>>), parent |-> (0 :> 0), len |-> <<>>, dead |-> FALSE]

die(st) == [st EXCEPT !.dead = TRUE]

Without(g, k) == [x \in DOMAIN g \ {k} |-> g[x]]

fsdir_add_entry(st, d, n, obj) ==
    IF st.dead \/ d \notin DOMAIN st.ent \/ n \in DOMAIN st.ent[d] THEN die(st)
    ELSE [st EXCEPT !.ent[d] = (n :> obj) @@ @]

\* The callers assert that the entry is the object they name.
fsdir_remove_entry(st, d, n, obj) ==
    IF st.dead \/ d \notin DOMAIN st.ent \/ n \notin DOMAIN st.ent[d] THEN die(st)
    ELSE IF st.ent[d][n] # obj THEN die(st)
    ELSE [st EXCEPT !.ent[d] = Without(@, n)]

fsdir_find_entry(st, d, n) ==
    IF n \in DOMAIN st.ent[d] THEN {st.ent[d][n]} ELSE {}

Linked(st, id) ==
    \E d \in DOMAIN st.ent : \E n \in DOMAIN st.ent[d] : st.ent[d][n] = file(id)

\* A file goes with its last link.
fsobject_decref(st, id) ==
    IF st.dead \/ Linked(st, id) THEN st ELSE [st EXCEPT !.len = Without(@, id)]

\* Truncates and writes of a file that is unlinked are tolerated.
apply_change(st, c) ==
    CASE c.type = "truncate" ->
           IF c.file \in DOMAIN st.len THEN [st EXCEPT !.len[c.file] = c.len] ELSE st
      [] c.type = "write" ->
           IF c.file \in DOMAIN st.len
           THEN [st EXCEPT !.len[c.file] = Max({@, c.pos + c.len})] ELSE st
      [] c.type = "creat" ->
           [fsdir_add_entry(st, c.dir, c.name, file(c.file)) EXCEPT !.len = (c.file :> 0) @@ @]
      [] c.type = "mkdir" ->
           [fsdir_add_entry(st, c.dir, c.name, dir(c.newdir)) EXCEPT
              !.ent = (c.newdir :> <<>>) @@ @, !.parent = (c.newdir :> c.dir) @@ @]
      [] c.type = "rmdir" ->
           LET gone == fsdir_remove_entry(st, c.dir, c.name, dir(c.victimdir))
           IN  IF \/ gone.dead \/ st.ent[c.victimdir] # <<>>
                  \/ st.parent[c.victimdir] # c.dir THEN die(st)
               ELSE [gone EXCEPT !.ent = Without(@, c.victimdir),
                                 !.parent = Without(@, c.victimdir)]
      [] c.type = "unlink" ->
           fsobject_decref(fsdir_remove_entry(st, c.dir, c.name, file(c.file)), c.file)
      [] c.type = "link" ->
           IF fsdir_find_entry(st, c.dir, c.name) # {file(c.file)} THEN die(st)
           ELSE fsdir_add_entry(st, c.todir, c.toname, file(c.file))
      [] c.type = "renamefile" ->
           fsdir_add_entry(fsdir_remove_entry(st, c.dir, c.name, file(c.file)),
                           c.todir, c.toname, file(c.file))
      [] c.type = "renamedir" ->
           IF c.dir # st.parent[c.moveddir] THEN die(st)
           ELSE [fsdir_add_entry(fsdir_remove_entry(st, c.dir, c.name, dir(c.moveddir)),
                                 c.todir, c.toname, dir(c.moveddir))
                   EXCEPT !.parent[c.moveddir] = c.todir]
      [] c.type = "newfs" -> st

\* The records.  Those that affect the contents of a file, and renames of it, name the
\* record of the file before them.
fc_create(type) == [type |-> type, partial |-> FALSE]
fc_create_newfs == fc_create("newfs")
fc_create_truncate(prev, id, len) ==
    fc_create("truncate") @@ [prev |-> prev, file |-> id, len |-> len]
fc_create_write(prev, id, pos, len, oldfilesize, code, seq) ==
    fc_create("write") @@ [prev |-> prev, file |-> id, pos |-> pos, len |-> len,
                           oldfilesize |-> oldfilesize, code |-> code, seq |-> seq]
fc_create_creat(d, n, newfile) ==
    fc_create("creat") @@ [dir |-> d, name |-> n, file |-> newfile]
fc_create_mkdir(d, n, newdir) ==
    fc_create("mkdir") @@ [dir |-> d, name |-> n, newdir |-> newdir]
fc_create_rmdir(d, n, victimdir) ==
    fc_create("rmdir") @@ [dir |-> d, name |-> n, victimdir |-> victimdir]
fc_create_unlink(d, n, victimfile) ==
    fc_create("unlink") @@ [dir |-> d, name |-> n, file |-> victimfile]
fc_create_link(d, n, d2, n2, id) ==
    fc_create("link") @@ [dir |-> d, name |-> n, todir |-> d2, toname |-> n2, file |-> id]
fc_create_renamefile(prev, d, n, d2, n2, movedfile) ==
    fc_create("renamefile") @@ [prev |-> prev, dir |-> d, name |-> n, todir |-> d2,
                                toname |-> n2, file |-> movedfile]
fc_create_renamedir(d, n, d2, n2, moveddir) ==
    fc_create("renamedir") @@ [dir |-> d, name |-> n, todir |-> d2, toname |-> n2,
                               moveddir |-> moveddir]

\* The record goes to the end of the log and is applied; its version is its place.
fc_attach(k, c) == [k EXCEPT !.log = Append(@, c), !.state = apply_change(@, c)]

\* The most recent record that mentions a file.
changes_findprevfile(log, id) ==
    Max({i \in DOMAIN log : "file" \in DOMAIN log[i] /\ log[i].file = id})

model_find(k, d, n, obj(_)) ==
    {e.id : e \in {x \in fsdir_find_entry(k.state, d, n) : x = obj(x.id)}}
model_findfile(k, d, n) == model_find(k, d, n, file)
model_finddir(k, d, n) == model_find(k, d, n, dir)

model_getfilesize(k, id) == IF id \in DOMAIN k.state.len THEN k.state.len[id] ELSE 0

\* What the operations need an object for: they die without it.
With(k, found, attach(_)) ==
    IF found = {} THEN [k EXCEPT !.state = die(@)] ELSE attach(CHOOSE id \in found : TRUE)

check_setup ==
    [log |-> <<fc_create_newfs>>, state |-> newfs, cwd |-> 0,
     nextfilenum |-> 0, nextdirnum |-> 1]

check_createfile(k, n) ==
    [fc_attach(k, fc_create_creat(k.cwd, n, k.nextfilenum)) EXCEPT !.nextfilenum = @ + 1]

check_write(k, h, pos, len) ==
    fc_attach(k, fc_create_write(changes_findprevfile(k.log, h.file), h.file, pos, len,
                                 model_getfilesize(k, h.file), h.code, h.seq))

check_truncate(k, h, len) ==
    fc_attach(k, fc_create_truncate(changes_findprevfile(k.log, h.file), h.file, len))

check_mkdir(k, n) ==
    [fc_attach(k, fc_create_mkdir(k.cwd, n, k.nextdirnum)) EXCEPT !.nextdirnum = @ + 1]

rmdir_at(k, d, n, partial) ==
    With(k, model_finddir(k, d, n), LAMBDA id :
         fc_attach(k, [fc_create_rmdir(d, n, id) EXCEPT !.partial = partial]))
check_rmdir(k, n) == rmdir_at(k, k.cwd, n, FALSE)

unlink_at(k, d, n, partial) ==
    With(k, model_findfile(k, d, n), LAMBDA id :
         fc_attach(k, [fc_create_unlink(d, n, id) EXCEPT !.partial = partial]))
check_unlink(k, n) == unlink_at(k, k.cwd, n, FALSE)

check_link(k, from, to) ==
    With(k, model_findfile(k, k.cwd, from), LAMBDA id :
         fc_attach(k, fc_create_link(k.cwd, from, k.cwd, to, id)))

\* A rename onto something that exists removes it first, by a partial record.
common_rename(k, d1, n1, d2, n2) ==
    LET isfile == model_findfile(k, d1, n1) # {}
        k2 == IF model_findfile(k, d2, n2) # {}
              THEN IF isfile THEN unlink_at(k, d2, n2, TRUE) ELSE [k EXCEPT !.state = die(@)]
              ELSE IF model_finddir(k, d2, n2) # {}
              THEN IF isfile THEN [k EXCEPT !.state = die(@)] ELSE rmdir_at(k, d2, n2, TRUE)
              ELSE k
    IN  IF isfile
        THEN With(k2, model_findfile(k2, d1, n1), LAMBDA id :
                  fc_attach(k2, fc_create_renamefile(changes_findprevfile(k2.log, id),
                                                     d1, n1, d2, n2, id)))
        ELSE With(k2, model_finddir(k2, d1, n1), LAMBDA id :
                  fc_attach(k2, fc_create_renamedir(d1, n1, d2, n2, id)))

check_renamexd(k, d1, n1, d2, n2) ==
    With(k, model_finddir(k, k.cwd, d1), LAMBDA from :
      With(k, model_finddir(k, k.cwd, d2), LAMBDA to : common_rename(k, from, n1, to, n2)))

check_chdir(k, n) ==
    With(k, model_finddir(k, k.cwd, n), LAMBDA id : [k EXCEPT !.cwd = id])
check_chdirup(k) == [k EXCEPT !.cwd = k.state.parent[k.cwd]]

-----------------------------------------------------------------------------
(* The volume: what is at each path, and the data of each file. *)

zero == <<>>

\* The pattern a write puts at an offset of it.
prepdata(code, seq, off) == <<code, seq, off>>

emptyvol == [tree |-> (<<>> :> dir(0)), data |-> <<>>, cwd |-> <<>>, next |-> 0]

Path(v, n) == Append(v.cwd, n)
Under(p, q) == Len(q) >= Len(p) /\ SubSeq(q, 1, Len(p)) = p
Moved(tree, p, q) ==
    LET rest == [r \in {r \in DOMAIN tree : ~Under(p, r) /\ ~Under(q, r)} |-> tree[r]]
        from == {r \in DOMAIN tree : Under(p, r)}
        to(r) == q \o SubSeq(r, Len(p) + 1, Len(r))
    IN  rest @@ [x \in {to(r) : r \in from} |-> tree[CHOOSE r \in from : to(r) = x]]

Resized(data, len) ==
    [u \in 1..len |-> IF u <= Len(data) THEN data[u] ELSE zero]

\* A write whose units from upto on did not reach the disk.
do_write(v, ino, h, pos, len, upto) ==
    [v EXCEPT !.data[ino] =
       [u \in 1..Max({Len(@), pos + len}) |->
          IF u \in pos+1..Min({pos + len, upto}) THEN prepdata(h.code, h.seq, u - 1 - pos)
          ELSE Resized(@, Max({Len(@), pos + len}))[u]]]

do_truncate(v, ino, len) == [v EXCEPT !.data[ino] = Resized(@, len)]

do_createfile(v, n) ==
    [v EXCEPT !.tree = (Path(v, n) :> file(v.next)) @@ @,
              !.data = (v.next :> <<>>) @@ @, !.next = @ + 1]

do_rename(v, p, q) == [v EXCEPT !.tree = Moved(@, p, q)]

\* Whether the kernel lets the operation go ahead; an error ends "frack do".
Allowed(v, o) ==
    CASE o.op = "open" -> IF o.flags = "creat" THEN Path(v, o.name) \notin DOMAIN v.tree
                          ELSE Path(v, o.name) \in DOMAIN v.tree
      [] o.op = "mkdir" -> Path(v, o.name) \notin DOMAIN v.tree
      [] o.op \in {"rmdir", "unlink", "chdir", "opendir", "rename", "link"} ->
           Path(v, o.name) \in DOMAIN v.tree
      [] OTHER -> TRUE

\* The effect of an operation on the volume, the data of a write as far as upto.
do_op(v, o, upto) ==
    CASE o.op = "open" -> IF o.flags = "creat" THEN do_createfile(v, o.name)
                          ELSE IF o.flags = "trunc"
                          THEN do_truncate(v, v.tree[Path(v, o.name)].id, 0) ELSE v
      [] o.op = "write" -> do_write(v, frh[o.h].ino, frh[o.h], o.pos, o.len, upto)
      [] o.op = "truncate" -> do_truncate(v, frh[o.h].ino, o.len)
      [] o.op = "mkdir" -> [v EXCEPT !.tree = (Path(v, o.name) :> dir(0)) @@ @]
      [] o.op \in {"rmdir", "unlink"} -> [v EXCEPT !.tree = Without(@, Path(v, o.name))]
      [] o.op = "link" -> [v EXCEPT !.tree = (Path(v, o.to) :> @[Path(v, o.name)]) @@ @]
      [] o.op = "rename" -> do_rename(v, Path(v, o.name), Path(v, o.to))
      [] o.op = "renamexd" -> do_rename(v, v.cwd \o <<o.fromdir, o.name>>,
                                        v.cwd \o <<o.todir, o.to>>)
      [] o.op = "chdir" -> [v EXCEPT !.cwd = Path(v, o.name)]
      [] o.op = "chdirup" -> [v EXCEPT !.cwd = Front(@)]
      [] o.op \in {"close", "sync", "opendir", "closedir"} -> v

\* The volumes a crash in the middle of an operation can leave.
Torn(v, o) ==
    CASE o.op = "write" ->
           LET old == Len(v.data[frh[o.h].ino])
           IN  {do_op(v, o, u) :
                  u \in {u \in Max({old, o.pos})..(o.pos + o.len) :
                           u = Max({old, o.pos}) \/ u % BLOCKSIZE = 0}}
      [] o.op = "rename" ->
           IF Path(v, o.to) \in DOMAIN v.tree
           THEN {[v EXCEPT !.tree = Without(@, Path(v, o.to))]} ELSE {}
      [] OTHER -> {}

-----------------------------------------------------------------------------
(* check.c: inspection of the volume and comparison with the log *)

RECURSIVE inspectdir(_, _)
inspectdir(v, p) ==
    IF v.tree[p].dir
    THEN [dir |-> TRUE, len |-> 0,
          sub |-> [n \in {Last(q) : q \in {q \in DOMAIN v.tree : q # <<>> /\ Front(q) = p}}
                     |-> inspectdir(v, Append(p, n))]]
    ELSE [dir |-> FALSE, len |-> Len(v.data[v.tree[p].id]), sub |-> <<>>]

\* The state as a tree of the same form.
RECURSIVE subtree(_, _)
subtree(st, obj) ==
    IF obj.dir
    THEN [dir |-> TRUE, len |-> 0,
          sub |-> [n \in DOMAIN st.ent[obj.id] |-> subtree(st, st.ent[obj.id][n])]]
    ELSE [dir |-> FALSE, len |-> st.len[obj.id], sub |-> <<>>]

RECURSIVE count_subtree(_)
count_subtree(t) == 1 + MapThenSumSet(LAMBDA n : count_subtree(t.sub[n]), DOMAIN t.sub)

\* The points a name is worth that one side lacks.
missing(t) == 1 + IF t.dir THEN count_subtree(t) ELSE 0

RECURSIVE compare_objects(_, _)
compare_objects(a, b) ==
    IF a.dir # b.dir THEN count_subtree(IF a.dir THEN a ELSE b)
    ELSE IF ~a.dir THEN IF a.len # b.len THEN 1 ELSE 0
    ELSE LET both == DOMAIN a.sub \cap DOMAIN b.sub
         IN  MapThenSumSet(LAMBDA n : compare_objects(a.sub[n], b.sub[n]), both)
               + MapThenSumSet(LAMBDA n : missing(a.sub[n]), DOMAIN a.sub \ both)
               + MapThenSumSet(LAMBDA n : missing(b.sub[n]), DOMAIN b.sub \ both)

\* The newest version up to i with a change of the directory tree.
findokversion(log, i) == Max({j \in 1..i : log[j].type \notin {"truncate", "write"}})

\* The newest record up to i that affects the contents of a file; 0: none.
backup_for_file(log, i, id) ==
    Max({0} \cup {j \in 1..i : /\ log[j].type \in {"truncate", "write", "creat"}
                               /\ log[j].file = id})

\* Whether units from..to-1 of a write that began at off hold its pattern.  It is
\* compared a block at a time, and a block after zerostart may be zeros instead.
data_matches(data, off, c, zerostart, from, to) ==
    \A u \in from..to-1 :
       LET block == {w \in from..to-1 : /\ (off + w) \div BLOCKSIZE = (off + u) \div BLOCKSIZE
                                        /\ (w >= zerostart) = (u >= zerostart)}
       IN  \/ \A w \in block : data[off + w + 1] = prepdata(c.code, c.seq, w)
           \/ u >= zerostart /\ \A w \in block : data[off + w + 1] = zero

checkfilezeros(data, start, end) ==
    IF \A u \in start..end-1 : data[u + 1] = zero THEN {} ELSE {"trash"}

\* The read runs to the end of the region, for the last arguments are swapped, and
\* its assertion does not hold when the file ends before.
checkfiledata(data, c, zerostart, start, end) ==
    LET wend == c.pos + c.len
        from == Max({start, c.pos})
        to == Min({end, wend})
    IN  IF wend > Len(data) THEN {"assert"}
        ELSE IF data_matches(data, c.pos, c, zerostart - c.pos, from - c.pos, to - c.pos)
        THEN {} ELSE {"garbage"}

RECURSIVE checkfilerange(_, _, _, _, _)
checkfilerange(log, data, i, start, end) ==
    LET c == log[i]
        prev(s, e) == checkfilerange(log, data, c.prev, s, e)
    IN  CASE c.type = "truncate" ->
               IF c.len < start THEN checkfilezeros(data, start, end)
               ELSE IF c.len < end
               THEN (IF start < c.len THEN prev(start, c.len) ELSE {"assert"})
                      \cup checkfilezeros(data, c.len, end)
               ELSE prev(start, end)
          [] c.type = "write" ->
               LET wend == c.pos + c.len
                   zerostart == Min({wend, Max({c.pos, c.oldfilesize})})
               IN  IF end <= c.pos \/ start >= wend THEN prev(start, end)
                   ELSE (IF start < c.pos THEN prev(start, c.pos) ELSE {})
                          \cup checkfiledata(data, c, zerostart, start, end)
                          \cup (IF end > wend THEN prev(wend, end) ELSE {})
          [] c.type = "renamefile" -> prev(start, end)
          [] c.type = "creat" -> checkfilezeros(data, start, end)
          [] OTHER -> {"assert"}

\* "short": the read of a write that is beyond the end of the file.
change_is_present(data, c) ==
    CASE c.type = "truncate" -> {Len(data) = c.len}
      [] c.type = "write" ->
           IF c.pos + c.len > Len(data) THEN {}
           ELSE LET zerostart == IF c.oldfilesize < c.pos THEN 0
                                 ELSE Min({c.len, c.oldfilesize - c.pos})
                IN  {data_matches(data, c.pos, c, zerostart, 0, c.len)}
      [] c.type = "creat" -> {TRUE}

\* Back through the changes of the file to one that the volume shows.
RECURSIVE checkversions(_, _, _, _)
checkversions(log, data, i, id) ==
    IF i = 0 THEN {"nomatch"}
    ELSE LET here == change_is_present(data, log[i])
         IN  IF here = {} THEN {"assert"}
             ELSE IF here = {TRUE} THEN checkfilerange(log, data, i, 0, Len(data))
             ELSE checkversions(log, data, backup_for_file(log, i - 1, id), id)

checkonefilecontents(log, best, data, id) ==
    LET i == backup_for_file(log, best, id)
    IN  IF i = 0 THEN {"nevercreated"}
        ELSE IF data = <<>> THEN IF log[i].type = "write" THEN {"empty"} ELSE {}
        ELSE IF log[i].type = "creat" THEN {"unwritten"}
        ELSE checkversions(log, data, i, id)

RECURSIVE checkallfilecontents(_, _, _, _, _)
checkallfilecontents(log, best, st, d, p) ==
    UNION {LET e == st.ent[d][n]
           IN  IF e.dir THEN checkallfilecontents(log, best, st, e.id, Append(p, n))
               ELSE checkonefilecontents(log, best, frv.data[frv.tree[Append(p, n)].id], e.id) :
             n \in DOMAIN st.ent[d]}

\* The states of the versions, in order.
versions(log) ==
    FoldLeft(LAMBDA sts, c : Append(sts, apply_change(Last(sts), c)), <<newfs>>, Tail(log))

bestversion(score, least) == Max({i \in DOMAIN score : score[i] = least})

\* Compares every version with the volume; the files are compared when a tree matched.
checkfs(log) ==
    LET sts == versions(log)
        found == inspectdir(frv, <<>>)
        score == [i \in DOMAIN sts |-> compare_objects(subtree(sts[i], dir(0)), found)]
        bestscore == Min({score[i] : i \in DOMAIN score})
        best == bestversion(score, bestscore)
    IN  [how |-> "done", best |-> best, score |-> bestscore,
         notes |-> IF bestscore > 0 THEN {}
                   ELSE checkallfilecontents(log, best, sts[best], 0, <<>>)]

-----------------------------------------------------------------------------
(* workloads.c: what a random sequence draws next, given what exists *)

Names == 0..FrMany-1
isnt == [n \in 0..FrMany+FrFew |-> "isnt"]

Drawn(ops, exists) == [ops |-> ops, exists |-> exists]

\* The file is opened if it is not yet: writetruncseq opens one never made, too.
wl_writeseq(code, flags, truncates) ==
    LET opened(n) == IF n \in DOMAIN frh THEN <<>> ELSE op_open(n, code + 1, n, flags)
    IN  {Drawn(opened(n) \o op_write(n, r[1], r[2]), fr.exists) :
           n \in Names, r \in FrRandWrites}
          \cup {Drawn(opened(n) \o op_truncate(n, t), fr.exists) :
                  n \in Names, t \in IF truncates THEN FrRandTruncs ELSE {}}

wl_mkrmseq ==
    {IF fr.exists[n] = "file"
     THEN Drawn(op_unlink(n), [fr.exists EXCEPT ![n] = "isnt"])
     ELSE Drawn(writenewfile(354, n, "one"), [fr.exists EXCEPT ![n] = "file"]) : n \in Names}

wl_linkunlinkseq ==
    {IF fr.exists[n] = "file"
     THEN Drawn(op_unlink(n + FrFew), [fr.exists EXCEPT ![n] = "isnt"])
     ELSE Drawn(op_link(m, n + FrFew), [fr.exists EXCEPT ![n] = "file"]) :
       n \in 0..FrFew-1, m \in 0..FrFew-1}

renamed(n, m) == Drawn(op_rename(n, m), [fr.exists EXCEPT ![m] = fr.exists[n], ![n] = "isnt"])

wl_renameseq ==
    {renamed(n, m) : n \in {n \in Names : fr.exists[n] = "file"},
                     m \in {m \in Names : fr.exists[m] = "isnt"}}

\* A handle stays with its number when the file is renamed, and a file renamed
\* over stays open.
randop(code, dofileops) ==
    LET are(what) == {n \in Names : fr.exists[n] = what}
        become(n, what) == [fr.exists EXCEPT ![n] = what]
    IN  {Drawn(writenewfile(code, n, sz), become(n, "file")) :
           n \in are("isnt"), sz \in IF dofileops THEN {"one", "small", "medium"} ELSE {"one"}}
      \cup {Drawn(op_mkdir(n), become(n, "dir")) : n \in are("isnt")}
      \cup {Drawn(op_unlink(n) \o IF dofileops /\ n \in DOMAIN frh THEN op_close(n) ELSE <<>>,
                  become(n, "isnt")) : n \in are("file")}
      \cup {Drawn(op_rmdir(n), become(n, "isnt")) : n \in are("dir")}
      \cup {renamed(x[1], x[2]) :
              x \in {x \in Names \X Names :
                       /\ x[1] # x[2] /\ fr.exists[x[1]] # "isnt"
                       /\ fr.exists[x[2]] \in {"isnt", fr.exists[x[1]]}}}
      \cup {Drawn((IF n \in DOMAIN frh THEN <<>> ELSE op_open(n, code, n, ""))
                    \o op_write(n, r[1], r[2]), fr.exists) :
              n \in IF dofileops THEN are("file") ELSE {}, r \in FrRandWrites}

draws ==
    CASE fr.wl[1] = "writefileseq"  -> wl_writeseq(350, "creat", FALSE)
      [] fr.wl[1] = "writetruncseq" -> wl_writeseq(352, "", TRUE)
      [] fr.wl[1] = "mkrmseq"       -> wl_mkrmseq
      [] fr.wl[1] = "linkunlinkseq" -> wl_linkunlinkseq
      [] fr.wl[1] = "renameseq"     -> wl_renameseq
      [] fr.wl[1] = "diropseq"      -> randop(357, FALSE)
      [] fr.wl[1] = "genseq"        -> randop(358, TRUE)
      [] OTHER                      -> {}

\* mkrandtree: here has the names used at each depth, hist what was drawn.
Bumped(here) == Append(Front(here), Last(here) + 1)

mkrandtree_sub(x) ==
    CASE x = "dir"  -> [ops |-> op_mkdir(Last(fr.here)) \o op_chdir(Last(fr.here)),
                        here |-> Append(fr.here, 0)]
      [] x = "up"   -> [ops |-> op_chdirup, here |-> Bumped(Front(fr.here))]
      [] x = "file" -> [ops |-> writenewfile(103, Last(fr.here), "one"),
                        here |-> Bumped(fr.here)]

\* rmrandtree seeds again and draws the same.
RECURSIVE rmrandtree_sub(_, _)
rmrandtree_sub(hist, here) ==
    IF hist = <<>> THEN <<>>
    ELSE CASE Head(hist) = "dir"  -> op_chdir(Last(here))
                                       \o rmrandtree_sub(Tail(hist), Append(here, 0))
           [] Head(hist) = "up"   -> op_chdirup \o op_rmdir(Last(Front(here)))
                                       \o rmrandtree_sub(Tail(hist), Bumped(Front(here)))
           [] Head(hist) = "file" -> op_unlink(Last(here))
                                       \o rmrandtree_sub(Tail(hist), Bumped(here))

isrand(w) == w[1] \in {"writefileseq", "writetruncseq", "mkrmseq", "linkunlinkseq",
                       "renameseq", "diropseq", "genseq"}
israndtree(w) == w[1] \in {"mkrandtree", "rmrandtree"}

\* What exists after the preparation of a random sequence.
prepared(w) ==
    [n \in DOMAIN isnt |->
       CASE w[1] = "renameseq" -> IF n < FrMany \div 3 THEN "file" ELSE "isnt"
         [] w[1] \in {"diropseq", "genseq"} ->
              IF n < FrMany \div 4 THEN "file"
              ELSE IF n < (FrMany \div 4) + (FrMany \div 3) THEN "dir" ELSE "isnt"
         [] OTHER -> "isnt"]

-----------------------------------------------------------------------------
(* The two runs *)

FrInit ==
    /\ \E w \in FrWorkloads :
         fr = [wl |-> w, todo |-> workload(w), exists |-> prepared(w), here |-> <<0>>,
               hist |-> <<>>, left |-> IF isrand(w) THEN FrOps
                                       ELSE IF israndtree(w) THEN FrRandThings ELSE 0]
    /\ frk = check_setup
    /\ frv = emptyvol @@ [up |-> TRUE, at |-> 1]
    /\ frh = <<>>
    /\ frOut = [how |-> "running"]

Running == frOut.how = "running"

\* The operation in check mode.
check_op(k, o) ==
    CASE o.op = "open" ->
           IF o.flags = "creat" THEN check_createfile(k, o.name)
           ELSE With(k, model_findfile(k, k.cwd, o.name), LAMBDA id :
                     IF o.flags = "trunc" THEN check_truncate(k, [file |-> id], 0) ELSE k)
      [] o.op = "write" -> check_write(k, frh[o.h], o.pos, o.len)
      [] o.op = "truncate" -> check_truncate(k, frh[o.h], o.len)
      [] o.op = "mkdir" -> check_mkdir(k, o.name)
      [] o.op = "rmdir" -> check_rmdir(k, o.name)
      [] o.op = "unlink" -> check_unlink(k, o.name)
      [] o.op = "link" -> check_link(k, o.name, o.to)
      [] o.op = "rename" -> common_rename(k, k.cwd, o.name, k.cwd, o.to)
      [] o.op = "renamexd" -> check_renamexd(k, o.fromdir, o.name, o.todir, o.to)
      [] o.op = "chdir" -> check_chdir(k, o.name)
      [] o.op = "chdirup" -> check_chdirup(k)
      [] o.op \in {"close", "sync", "opendir", "closedir"} -> k

\* struct file, with its handle in either mode.
Handles(o, up) ==
    CASE o.op = "open" ->
           LET id == IF o.flags = "creat" THEN frk.nextfilenum
                     ELSE CHOOSE i \in model_findfile(frk, frk.cwd, o.name) : TRUE
               ino == IF ~up THEN 0 ELSE IF o.flags = "creat" THEN frv.next
                      ELSE frv.tree[Path(frv, o.name)].id
           IN  (o.h :> [file |-> id, ino |-> ino, code |-> o.code, seq |-> 0]) @@ frh
      [] o.op = "close" -> Without(frh, o.h)
      [] o.op = "write" -> [frh EXCEPT ![o.h].seq = @ + 1]
      [] OTHER -> frh

perform ==
    /\ Running /\ fr.todo # <<>>
    /\ LET o == Head(fr.todo)
           k == check_op(frk, o)
           up == frv.up /\ Allowed(frv, o)
       IN  /\ o.op # "random"
           /\ fr' = [fr EXCEPT !.todo = Tail(@)]
           /\ IF k.state.dead \/ (o.op = "open" /\ Cardinality(DOMAIN frh) >= MAXFILES)
              THEN frOut' = [how |-> "died"] /\ UNCHANGED <<frk, frv, frh>>
              ELSE /\ frk' = k
                   /\ frh' = Handles(o, up)
                   /\ frv' = IF up THEN [do_op(frv, o, IF o.op = "write" THEN o.pos + o.len ELSE 0)
                                           EXCEPT !.at = Len(k.log)]
                             ELSE [frv EXCEPT !.up = FALSE]
                   /\ UNCHANGED frOut

\* file_randomwrite draws the block to write.
perform_random ==
    /\ Running /\ fr.todo # <<>>
    /\ LET o == Head(fr.todo)
       IN  /\ o.op = "random"
           /\ \E b \in o.from..o.to :
                fr' = [fr EXCEPT !.todo = op_write(o.h, b * BLOCKSIZE, BLOCKSIZE) \o Tail(@)]
    /\ UNCHANGED <<frk, frv, frh, frOut>>

crash ==
    /\ Running /\ frv.up
    /\ \/ frv' = [frv EXCEPT !.up = FALSE]
       \/ /\ fr.todo # <<>> /\ Allowed(frv, Head(fr.todo))
          /\ \E v \in Torn(frv, Head(fr.todo)) :
               frv' = [v EXCEPT !.up = FALSE, !.at = Len(frk.log) + 1]
    /\ UNCHANGED <<fr, frk, frh, frOut>>

draw ==
    /\ Running /\ fr.todo = <<>> /\ fr.left > 0
    /\ \E d \in draws :
         fr' = [fr EXCEPT !.todo = d.ops, !.exists = d.exists, !.left = @ - 1]
    /\ UNCHANGED <<frk, frv, frh, frOut>>

draw_tree ==
    /\ Running /\ fr.todo = <<>> /\ israndtree(fr.wl) /\ fr.left + Len(fr.here) > 1
    /\ \E x \in IF fr.left = 0 THEN {"up"}
                ELSE IF Len(fr.here) > 1 THEN {"dir", "file", "up"} ELSE {"dir", "file"} :
         fr' = [fr EXCEPT !.todo = mkrandtree_sub(x).ops, !.here = mkrandtree_sub(x).here,
                          !.hist = Append(@, x), !.left = IF x = "up" THEN @ ELSE @ - 1]
    /\ UNCHANGED <<frk, frv, frh, frOut>>

\* The tree is made: rmrandtree takes it away again.
remove_tree ==
    /\ Running /\ fr.todo = <<>> /\ fr.wl[1] = "rmrandtree"
    /\ fr.left = 0 /\ fr.here[1] > 0 /\ Len(fr.here) = 1
    /\ fr' = [fr EXCEPT !.todo = op_sync \o rmrandtree_sub(fr.hist, <<0>>), !.here = <<0>>]
    /\ UNCHANGED <<frk, frv, frh, frOut>>

complete ==
    /\ Running /\ fr.todo = <<>> /\ fr.left = 0 /\ Len(fr.here) = 1
    /\ ~(fr.wl[1] = "rmrandtree" /\ fr.here[1] > 0)
    /\ frOut' = checkfs(frk.log)
    /\ UNCHANGED <<fr, frk, frv, frh>>

FrNext ==
    \/ perform \/ perform_random \/ crash \/ draw \/ draw_tree \/ remove_tree \/ complete

FrSpec == FrInit /\ [][FrNext]_frVars

-----------------------------------------------------------------------------
Truncates == \E i \in DOMAIN frk.log : frk.log[i].type = "truncate"

=============================================================================

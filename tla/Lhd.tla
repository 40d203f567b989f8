-------------------------------- MODULE Lhd ---------------------------------
(***************************************************************************)
(* The disk driver kern/dev/lamebus/lhd.c and the layer above it that      *)
(* retries, sfs_rwblock of kern/fs/sfs/sfs_io.c.                           *)
(*                                                                         *)
(* A thread transfers one sector of its own: it writes it, then reads it   *)
(* back.  The threads share the card: its registers, its buffer and the    *)
(* interrupt.  The transfer is described by a uio, whose position moves    *)
(* when data is copied; only the sectors left (resid) matter here.         *)
(***************************************************************************)
EXTENDS Naturals, FiniteSets

CONSTANTS
    LhdThreads,     \* each with a sector of its own
    LhdRaw,         \* those of them that use the raw device, without SFS
    LhdTries,       \* how often sfs_rwblock retries (10 in the code)
    LhdMaxErrors,   \* bound: media errors in a behaviour
    LhdBadWrites    \* whether a write may meet a media error

LhdAssumption ==
    /\ LhdRaw \subseteq LhdThreads
    /\ LhdTries \in Nat /\ LhdMaxErrors \in Nat /\ LhdBadWrites \in BOOLEAN

VARIABLES
    lhdPc, lhdRw, lhdResid, lhdTried, lhdGot, lhdErr,   \* of each thread
    lh_clear, lh_done, lh_result,           \* of the driver
    lhdSect, lhdStat, lhdBuf,               \* the card
    lhdDisk, lhdErrors

lhdThread == <<lhdPc, lhdRw, lhdResid, lhdTried, lhdGot, lhdErr>>
lhdDriver == <<lh_clear, lh_done, lh_result>>
lhdCard == <<lhdSect, lhdStat, lhdBuf>>
lhdVars == <<lhdThread, lhdDriver, lhdCard, lhdDisk, lhdErrors>>

LhdInit ==
    /\ lhdPc = [t \in LhdThreads |-> "io"]
    /\ lhdRw = [t \in LhdThreads |-> "write"]
    /\ lhdResid = [t \in LhdThreads |-> 1]
    /\ lhdTried = [t \in LhdThreads |-> 0]
    /\ lhdGot = [t \in LhdThreads |-> "blank"]
    /\ lhdErr = [t \in LhdThreads |-> ""]
    /\ lh_clear = 1
    /\ lh_done = 0
    /\ lh_result = ""
    /\ lhdSect = "blank"
    /\ lhdStat = "idle"
    /\ lhdBuf = "blank"
    /\ lhdDisk = [t \in LhdThreads |-> "blank"]
    /\ lhdErrors = 0

LhdGoto(t, label) == lhdPc' = [lhdPc EXCEPT ![t] = label]

\* Mutant: the card is used without waiting for it.
StartUnclaimed(t) ==
    /\ lhdPc[t] = "io"
    /\ lhdResid[t] > 0
    /\ LhdGoto(t, "move")
    /\ UNCHANGED <<lhdRw, lhdResid, lhdTried, lhdGot, lhdErr, lhdDriver,
                   lhdCard, lhdDisk, lhdErrors>>

\* P(lh_clear), unless there is no sector left to do.
lhd_start(t) ==
    /\ lhdPc[t] = "io"
    /\ lhdResid[t] > 0
    /\ lh_clear > 0
    /\ lh_clear' = lh_clear - 1
    /\ LhdGoto(t, "move")
    /\ UNCHANGED <<lhdRw, lhdResid, lhdTried, lhdGot, lhdErr, lh_done, lh_result,
                   lhdCard, lhdDisk, lhdErrors>>

\* uiomove to the buffer, when writing.
lhd_move(t) ==
    /\ lhdPc[t] = "move"
    /\ IF lhdRw[t] = "write"
       THEN lhdBuf' = t /\ lhdResid' = [lhdResid EXCEPT ![t] = @ - 1]
       ELSE UNCHANGED <<lhdBuf, lhdResid>>
    /\ LhdGoto(t, "regs")
    /\ UNCHANGED <<lhdRw, lhdTried, lhdGot, lhdErr, lhdDriver, lhdSect, lhdStat,
                   lhdDisk, lhdErrors>>

\* The sector register, then the status register.
lhd_wreg(t) ==
    /\ lhdPc[t] = "regs"
    /\ lhdSect' = t
    /\ lhdStat' = lhdRw[t]
    /\ LhdGoto(t, "wait")
    /\ UNCHANGED <<lhdRw, lhdResid, lhdTried, lhdGot, lhdErr, lhdDriver, lhdBuf,
                   lhdDisk, lhdErrors>>

\* The card finishes.
LhdDone ==
    /\ lhdStat \in {"read", "write"}
    /\ \/ /\ lhdStat' = "ok"
          /\ IF lhdStat = "write"
             THEN lhdDisk' = [lhdDisk EXCEPT ![lhdSect] = lhdBuf] /\ UNCHANGED lhdBuf
             ELSE lhdBuf' = lhdDisk[lhdSect] /\ UNCHANGED lhdDisk
          /\ UNCHANGED lhdErrors
       \/ /\ lhdErrors < LhdMaxErrors
          /\ lhdStat = "write" => LhdBadWrites
          /\ lhdErrors' = lhdErrors + 1
          /\ lhdStat' = "media"
          /\ UNCHANGED <<lhdDisk, lhdBuf>>
    /\ UNCHANGED <<lhdThread, lhdDriver, lhdSect>>

\* The interrupt handler: the status is read and cleared, and lhd_iodone.
lhd_irq ==
    /\ lhdStat \in {"ok", "media"}
    /\ lhdStat' = "idle"
    /\ lh_result' = IF lhdStat = "ok" THEN "" ELSE "EIO"
    /\ lh_done' = lh_done + 1
    /\ UNCHANGED <<lhdThread, lh_clear, lhdSect, lhdBuf, lhdDisk, lhdErrors>>

\* P(lh_done); the result, and uiomove from the buffer when reading; V(lh_clear).
lhd_finish(t) ==
    /\ lhdPc[t] = "wait"
    /\ lh_done > 0
    /\ lh_done' = lh_done - 1
    /\ IF lh_result = "" /\ lhdRw[t] = "read"
       THEN /\ lhdGot' = [lhdGot EXCEPT ![t] = lhdBuf]
            /\ lhdResid' = [lhdResid EXCEPT ![t] = @ - 1]
       ELSE UNCHANGED <<lhdGot, lhdResid>>
    /\ lhdErr' = [lhdErr EXCEPT ![t] = lh_result]
    /\ lh_clear' = lh_clear + 1
    /\ LhdGoto(t, IF lh_result = "" THEN "io" ELSE "error")
    /\ UNCHANGED <<lhdRw, lhdTried, lh_result, lhdCard, lhdDisk, lhdErrors>>

\* lhd_io returns 0: there is nothing (more) to transfer.  The thread goes on to
\* read its sector back, or has read it.
lhd_done(t) ==
    /\ lhdPc[t] = "io"
    /\ lhdResid[t] = 0
    /\ lhdErr' = [lhdErr EXCEPT ![t] = ""]
    /\ lhdTried' = [lhdTried EXCEPT ![t] = 0]
    /\ IF lhdRw[t] = "write"
       THEN /\ lhdRw' = [lhdRw EXCEPT ![t] = "read"]
            /\ lhdResid' = [lhdResid EXCEPT ![t] = 1]
            /\ UNCHANGED lhdPc
       ELSE LhdGoto(t, "done") /\ UNCHANGED <<lhdRw, lhdResid>>
    /\ UNCHANGED <<lhdGot, lhdDriver, lhdCard, lhdDisk, lhdErrors>>

\* sfs_rwblock gets EIO: the same uio once more, or give up.  Without SFS the
\* error goes to the caller.
sfs_rwblock(t) ==
    /\ lhdPc[t] = "error"
    /\ IF t \notin LhdRaw /\ lhdTried[t] < LhdTries
       THEN LhdGoto(t, "io") /\ lhdTried' = [lhdTried EXCEPT ![t] = @ + 1]
       ELSE LhdGoto(t, "failed") /\ UNCHANGED lhdTried
    /\ UNCHANGED <<lhdRw, lhdResid, lhdGot, lhdErr, lhdDriver, lhdCard, lhdDisk,
                   lhdErrors>>

LhdNext ==
    \/ LhdDone
    \/ lhd_irq
    \/ \E t \in LhdThreads :
         \/ lhd_start(t)
         \/ lhd_move(t)
         \/ lhd_wreg(t)
         \/ lhd_finish(t)
         \/ lhd_done(t)
         \/ sfs_rwblock(t)

LhdSpec == LhdInit /\ [][LhdNext]_lhdVars

----------------------------------------------------------------------------
(* Properties *)

\* A thread that was told its write and its read succeeded has read what it had
\* written, whatever the other threads did with the card meanwhile and however
\* often a read was tried again: "Read or write a block, retrying I/O errors".
ReadBack == \A t \in LhdThreads : lhdPc[t] = "done" => lhdGot[t] = t

=============================================================================

--------------------------- MODULE ProcRefinement ---------------------------
(***************************************************************************)
(* The process-id table implements WaitExit.  What a process is to the     *)
(* abstract specification is read off its table entry.                     *)
(***************************************************************************)
EXTENDS Proc

HasEntry(c) == \E i \in Slots : pidinfo[i] # NULL /\ pidinfo[i].pi_proc = c

stBar ==
    [c \in Procs |->
        CASE pc[c] = "embryo" -> "embryo"
          [] Live(c) /\ pc[c] # "embryo" -> "alive"
          [] ~Live(c) /\ HasEntry(c) -> "zombie"
          [] ~Live(c) /\ ~HasEntry(c) -> "free"]

\* the processes whose pid is recorded as that of c's parent: one or none
Parents(c) ==
    {p \in Procs :
        /\ p_pid[p] # INVALID_PID
        /\ \E i \in Slots :
              /\ pidinfo[i] # NULL
              /\ pidinfo[i].pi_proc = c
              /\ pidinfo[i].pi_ppid = p_pid[p]}

parentBar ==
    [c \in Procs |->
        LET found == Parents(c)
        IN  IF found = {} THEN NULL ELSE CHOOSE p \in found : TRUE]

Abs == INSTANCE WaitExit WITH
          st <- stBar, parent <- parentBar, code <- exitcode, got <- got

\* Every behaviour of the table and of the processes is one of WaitExit: each
\* child's own status reaches its parent, at most once, whatever pids are
\* reused and however exits, waits and forks interleave.
ImplementsWaitExit == Abs!Spec

\* What the refinement needs besides IInv: a process has one entry in the table,
OneEntry ==
    \A i, j \in Used(pidinfo) : pidinfo[i].pi_proc = pidinfo[j].pi_proc => i = j

\* and an exited entry holds the status its process exited with.
StatusKept ==
    \A i \in Used(pidinfo) :
        pidinfo[i].pi_exited => pidinfo[i].pi_exitstatus = exitcode[pidinfo[i].pi_proc]
=============================================================================

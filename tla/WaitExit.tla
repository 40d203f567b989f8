------------------------------ MODULE WaitExit ------------------------------
(***************************************************************************)
(* What fork, waitpid and _exit promise, with no table, pids or condition  *)
(* variables: a process is born with a parent, its status is kept from its *)
(* exit until the parent collects it, once, or loses interest.             *)
(***************************************************************************)
CONSTANTS
    Procs,      \* processes
    kproc,      \* the kernel's process, which never exits
    Status,     \* exit statuses
    NoStatus,   \* no status yet
    NULL        \* no parent

VARIABLES
    st,         \* "free", "embryo", "alive" or "zombie"
    parent,     \* the process that may still wait for this one, or NULL
    code,       \* the status a process exited with
    got         \* the last status a process collected

vars == <<code, got, st, parent>>

Init ==
    /\ st = [p \in Procs |-> IF p = kproc THEN "alive" ELSE "free"]
    /\ parent = [p \in Procs |-> NULL]
    /\ code = [p \in Procs |-> NoStatus]
    /\ got = [p \in Procs |-> NoStatus]

\* fork makes a child, which then starts or is discarded
Create(p, c) ==
    /\ st[p] = "alive"
    /\ st[c] = "free"
    /\ code' = [code EXCEPT ![c] = NoStatus]
    /\ got' = [got EXCEPT ![c] = NoStatus]
    /\ st' = [st EXCEPT ![c] = "embryo"]
    /\ parent' = [parent EXCEPT ![c] = p]

Start(p, c) ==
    /\ st[c] = "embryo"
    /\ parent[c] = p
    /\ UNCHANGED <<code, got>>
    /\ st' = [st EXCEPT ![c] = "alive"]
    /\ UNCHANGED parent

Discard(p, c) ==
    /\ st[c] = "embryo"
    /\ parent[c] = p
    /\ UNCHANGED <<code, got>>
    /\ st' = [st EXCEPT ![c] = "free"]
    /\ parent' = [parent EXCEPT ![c] = NULL]

\* the parent collects the status of a child that exited
Wait(p, c) ==
    /\ st[c] = "zombie"
    /\ parent[c] = p
    /\ got' = [got EXCEPT ![p] = code[c]]
    /\ st' = [st EXCEPT ![c] = "free"]
    /\ parent' = [parent EXCEPT ![c] = NULL]
    /\ UNCHANGED code

\* the parent will not wait for c
Disown(p, c) ==
    /\ st[c] \in {"alive", "zombie"}
    /\ parent[c] = p
    /\ UNCHANGED <<code, got>>
    /\ parent' = [parent EXCEPT ![c] = NULL]
    /\ st' = [st EXCEPT ![c] = IF @ = "zombie" THEN "free" ELSE @]

\* p exits: its children are orphans, and it is a zombie if it has a parent
Exit(p, status) ==
    /\ p # kproc
    /\ st[p] = "alive"
    /\ code' = [code EXCEPT ![p] = status]
    /\ UNCHANGED got
    /\ st' = [c \in Procs |->
                CASE c = p -> IF parent[p] = NULL THEN "free" ELSE "zombie"
                  [] c # p /\ parent[c] = p /\ st[c] = "zombie" -> "free"
                  [] OTHER -> st[c]]
    /\ parent' = [c \in Procs |-> IF parent[c] = p THEN NULL ELSE parent[c]]

Next ==
    \E p \in Procs :
        \/ \E c \in Procs :
              \/ Create(p, c)
              \/ Start(p, c)
              \/ Discard(p, c)
              \/ Wait(p, c)
              \/ Disown(p, c)
        \/ \E status \in Status : Exit(p, status)

Spec == Init /\ [][Next]_vars
=============================================================================

-------------------------------- MODULE Shell --------------------------------
(***************************************************************************)
(* The shell, userland/bin/sh/sh.c: commands, builtins, and jobs in the    *)
(* background, over fork, waitpid and _exit as WaitExit promises them.     *)
(*                                                                         *)
(* sh.kids are the shell's children that have a pid: running, or exited    *)
(* and not waited for; a pid may be given out again once it is waited for. *)
(* A command line is what docommand makes of its words.  Left out: editing *)
(* in getcmd, the time taken, and messages other than the status reports.  *)
(***************************************************************************)
EXTENDS Integers, FiniteSets, FiniteSetsExt

CONSTANTS
    ShPids,     \* the pids the kernel may give to children
    MAXBG,      \* the length of bgpids
    ShCodes,    \* the exit codes of programs
    SigCodes,   \* the signals they may die of
    ShVal,      \* how many values the field val has, 256
    ShLines     \* how many command lines are read

VARIABLE sh

ShellAssumption ==
    /\ ShPids \subseteq Nat \ {0} /\ MAXBG \in Nat \ {0}
    /\ ShCodes \cup SigCodes \subseteq Nat /\ ShVal \in Nat \ {0} /\ ShLines \in Nat

Slots == 1 .. MAXBG

----------------------------------------------------------------------------
(* wait.h, and what the shell makes of a status *)

MKWAIT_EXIT(x) == 4 * x
MKWAIT_SIG(x) == 4 * x + 1
WWHAT(x) == x % 4
WVAL(x) == x \div 4

\* struct exitinfo has eight bits for the value
exitinfo(val, what) ==
    [val |-> val % ShVal, signaled |-> what \in {1, 2}, stopped |-> what = 3,
     coredump |-> what = 2]
exitinfo_exit(code) == exitinfo(code, 0)
readstatus(status) == exitinfo(WVAL(status), WWHAT(status))

Fails(ei) == ei.signaled \/ ei.stopped \/ ei.val # 0

----------------------------------------------------------------------------
(* The children, and waitpid *)

\* execvp fails and the child calls _exit(1), or the program ends as it likes.
KidEnds(p) ==
    /\ sh.kids[p].st = "run"
    /\ \E s \in {MKWAIT_EXIT(x) : x \in ShCodes \cup {1}} \cup {MKWAIT_SIG(x) : x \in SigCodes} :
          sh' = [sh EXCEPT !.kids[p].st = "zombie", !.kids[p].status = s]

IsKid(p) == p \in DOMAIN sh.kids
Blocks(p) == IsKid(p) /\ sh.kids[p].st = "run"
Without(p) == [k \in DOMAIN sh.kids \ {p} |-> sh.kids[k]]

\* dowait: the state after waiting for p, with an error for what is no child.
\* told (what has been reported of jobs since the last prompt), due (the jobs that
\* had ended when the poll began) and last (the status of the last program in the
\* foreground) are auxiliary.
dowait(s, p) ==
    IF IsKid(p)
    THEN [s EXCEPT !.kids = Without(p),
                   !.told = @ \cup {<<p, readstatus(sh.kids[p].status)>>}]
    ELSE s

\* Mutant: the job is not forgotten.
dowaitpollKept(s, i) == IF Blocks(sh.bgpids[i]) THEN s ELSE dowait(s, sh.bgpids[i])

\* dowaitpoll of the job in slot i, and the part of waitpoll that clears the slot
dowaitpoll(s, i) ==
    IF Blocks(sh.bgpids[i]) \/ ~IsKid(sh.bgpids[i]) THEN s
    ELSE [dowait(s, sh.bgpids[i]) EXCEPT !.bgpids[i] = 0]

----------------------------------------------------------------------------
(* Commands *)

At(place) == sh.at = place

\* docommand is done; interactive polls, and main ends with sh -c.
Done(s, ei) ==
    IF s.once
    THEN [s EXCEPT !.at = "exited", !.ei = ei, !.code = IF Fails(ei) THEN 1 ELSE 0]
    ELSE [s EXCEPT !.at = "poll", !.ei = ei, !.i = 1,
                   !.due = {p \in DOMAIN s.kids : s.kids[p].st = "zombie"}]

Reads == At("prompt") /\ sh.lines > 0
Read == [sh EXCEPT !.lines = @ - 1, !.told = {}, !.pid = 0]

\* too many words, an empty line, a builtin used wrongly, cd
Simple == Reads /\ \E code \in {0, 1} : sh' = Done(Read, exitinfo_exit(code))

cmd_exit == Reads /\ \E code \in ShCodes : sh' = [Read EXCEPT !.at = "exited", !.code = code]

\* wait with a pid, which may be anybody's, or 0 when the word is no number
cmd_wait_pid ==
    \/ Reads /\ \E p \in ShPids \cup {0} : sh' = [Read EXCEPT !.at = "waitpid", !.pid = p]
    \/ /\ At("waitpid") /\ ~Blocks(sh.pid)
       /\ LET s == dowait(sh, sh.pid)
              cleared == [i \in Slots |-> IF s.bgpids[i] = s.pid THEN 0 ELSE s.bgpids[i]]
          IN sh' = Done([s EXCEPT !.bgpids = cleared], exitinfo_exit(0))

\* wait without a pid: all the jobs, in the order of the array
cmd_wait_all ==
    \/ Reads /\ sh' = [Read EXCEPT !.at = "waitall", !.i = 1]
    \/ /\ At("waitall") /\ sh.i <= MAXBG
       /\ ~Blocks(sh.bgpids[sh.i])
       /\ sh' = [dowait(sh, sh.bgpids[sh.i]) EXCEPT !.bgpids[sh.i] = 0, !.i = @ + 1]
    \/ At("waitall") /\ sh.i > MAXBG /\ sh' = Done(sh, exitinfo_exit(0))

can_bg == \E i \in Slots : sh.bgpids[i] = 0

\* Mutant: the array has one slot more than it has.
can_bgOffByOne == \E i \in Slots \cup {MAXBG + 1} : i > MAXBG \/ sh.bgpids[i] = 0

\* A command that is not a builtin: fork.
docommand(bg) ==
    \/ Reads /\ bg /\ ~can_bg /\ sh' = Done(Read, exitinfo_exit(1))
    \/ /\ Reads /\ (bg => can_bg)
       /\ \/ sh' = Done(Read, exitinfo_exit(255))
          \/ \E p \in ShPids \ DOMAIN sh.kids :
                sh' = [Read EXCEPT !.at = IF bg THEN "remember" ELSE "wait", !.pid = p,
                                   !.kids = [k \in DOMAIN @ \cup {p} |->
                                       IF k = p THEN [st |-> "run", status |-> 0, bg |-> bg]
                                       ELSE @[k]]]

\* remember_bg, and its assertion
remember_bg ==
    /\ At("remember")
    /\ LET free == {i \in Slots : sh.bgpids[i] = 0}
       IN IF free = {} THEN sh' = [sh EXCEPT !.at = "assert"]
          ELSE sh' = Done([sh EXCEPT !.bgpids[Min(free)] = sh.pid], exitinfo_exit(0))

\* the program in the foreground
waitpid ==
    /\ At("wait") /\ ~Blocks(sh.pid)
    /\ LET status == sh.kids[sh.pid].status
       IN sh' = Done([sh EXCEPT !.kids = Without(sh.pid), !.last = status], readstatus(status))

waitpoll ==
    \/ /\ At("poll") /\ sh.i <= MAXBG
       /\ sh' = [IF sh.bgpids[sh.i] = 0 THEN sh ELSE dowaitpoll(sh, sh.i) EXCEPT !.i = @ + 1]
    \/ At("poll") /\ sh.i > MAXBG /\ sh' = [sh EXCEPT !.at = "prompt"]

\* main: interactive(), or sh -c with one command
ShInit ==
    \E once \in BOOLEAN :
       sh = [at |-> "prompt", once |-> once, lines |-> IF once THEN 1 ELSE ShLines,
             bgpids |-> [i \in Slots |-> 0], kids |-> <<>>, pid |-> 0, i |-> 0,
             ei |-> exitinfo_exit(0), code |-> 0, told |-> {}, due |-> {}, last |-> 0]

ShNext ==
    \/ Simple \/ cmd_exit \/ cmd_wait_pid \/ cmd_wait_all \/ remember_bg \/ waitpid \/ waitpoll
    \/ \E bg \in BOOLEAN : docommand(bg)
    \/ \E p \in DOMAIN sh.kids : sh.at # "exited" /\ KidEnds(p)

----------------------------------------------------------------------------
(* Properties *)

Jobs == {p \in DOMAIN sh.kids : sh.kids[p].bg}
Listed == {sh.bgpids[i] : i \in Slots} \ {0}

\* The array of jobs (remember_bg, cmd_wait, waitpoll) is exactly the background
\* children not yet waited for, each in one slot, although pids are used again;
\* the slot can_bg found is there when it is needed; when the prompt comes back
\* no foreground child is left, every job that had ended before the poll has been
\* reported, and a job is reported once; sh -c ends with 1 when its command failed
\* with a code the field val can hold.
ShellSound ==
    /\ sh.at # "assert"
    /\ Listed = Jobs \ (IF sh.at = "remember" THEN {sh.pid} ELSE {})
    /\ \A i, j \in Slots : sh.bgpids[i] = sh.bgpids[j] => i = j \/ sh.bgpids[i] = 0
    /\ DOMAIN sh.kids \ Jobs = IF sh.at = "wait" THEN {sh.pid} ELSE {}
    /\ sh.at = "prompt" => sh.due \cap DOMAIN sh.kids = {}
    /\ \A t, u \in sh.told : t[1] = u[1] => t = u
    /\ (sh.at = "exited" /\ sh.last # 0 /\ WVAL(sh.last) < ShVal /\ sh.once) => sh.code = 1
=============================================================================

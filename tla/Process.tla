------------------------------- MODULE Process -------------------------------
(***************************************************************************)
(* Processes and their families: sys_fork (find_empty_process,             *)
(* copy_process), do_exit, tell_father, release, sys_waitpid, sys_kill,    *)
(* kill_session, sys_setsid, the default actions of do_signal, and the     *)
(* program of init, which adopts and reaps orphans.                        *)
(*                                                                         *)
(* The kernel is not preemptive, so a call is one step up to the place     *)
(* where it sleeps: sys_waitpid sleeps until a signal arrives, do_exit     *)
(* sleeps while it closes files and puts inodes.  Signals are SIGCHLD and  *)
(* one that kills (TERM, which stands for SIGHUP and SIGKILL as well).     *)
(* Nobody blocks or ignores them, and a process group is a session:        *)
(* sys_ssetmask, sys_sigaction and sys_setpgid are left out.               *)
(***************************************************************************)
EXTENDS Naturals, FiniteSets

CONSTANTS
  NR_TASKS,  \* the slots of task[], task 0 included
  MaxPid     \* the largest pid, after which last_pid starts again at 1

Slot == 1 .. NR_TASKS - 1
InitSlot == 1
Pid == 1 .. MaxPid
Sig == {"CHLD", "TERM"}

ASSUME ProcessAssumption ==
  /\ NR_TASKS \in Nat /\ NR_TASKS > 1
  /\ MaxPid \in Nat /\ MaxPid >= NR_TASKS

VARIABLES
  pc,       \* none (a free slot), user, waitpid (asleep), exit, zombie
  pid,      \* task_struct.pid
  father,   \* task_struct.father, a pid
  session,  \* task_struct.session and pgrp
  leader,   \* task_struct.leader
  signal,   \* pending signals
  arg,      \* the argument pid of waitpid while it sleeps
  last_pid,
  child     \* init's variable pid: the child it waits for, 0 for none

ids == <<pid, father, session, leader>>
vars == <<pc, ids, signal, arg, last_pid, child>>

\* The argument pid of waitpid: one child, a group, the own group, any child.
Selection ==
  [kind : {"pid", "group"}, id : Pid] \cup {[kind |-> "own"], [kind |-> "any"]}
Any == [kind |-> "any"]

TypeOK ==
  /\ pc \in [Slot -> {"none", "user", "waitpid", "exit", "zombie"}]
  /\ pid \in [Slot -> Pid \cup {0}]
  /\ father \in [Slot -> Pid \cup {0}]
  /\ session \in [Slot -> Pid \cup {0}]
  /\ leader \in [Slot -> BOOLEAN]
  /\ signal \in [Slot -> SUBSET Sig]
  /\ arg \in [Slot -> Selection]
  /\ last_pid \in Pid
  /\ child \in Pid \cup {0}

\* main() has forked init; task 0, with pid 0, is not in the tables here.
Init ==
  /\ pc = [s \in Slot |-> IF s = InitSlot THEN "user" ELSE "none"]
  /\ pid = [s \in Slot |-> IF s = InitSlot THEN 1 ELSE 0]
  /\ father = [s \in Slot |-> 0]
  /\ session = [s \in Slot |-> 0]
  /\ leader = [s \in Slot |-> FALSE]
  /\ signal = [s \in Slot |-> {}]
  /\ arg = [s \in Slot |-> Any]
  /\ last_pid = 1
  /\ child = 0

Used == {s \in Slot : pc[s] # "none"}

-----------------------------------------------------------------------------
(* fork                                                                    *)

\* The distance of a pid from last_pid, going up and starting again at 1.
Distance(n) == IF n > last_pid THEN n - last_pid ELSE n + MaxPid - last_pid

\* find_empty_process: the next pid that no task has.
NewPid ==
  LET unused == Pid \ {pid[s] : s \in Used}
  IN CHOOSE n \in unused : \A m \in unused : Distance(n) <= Distance(m)

FreeSlots == Slot \ Used

\* copy_process into the lowest free slot.
CopyTo(t, s) ==
  /\ \A u \in FreeSlots : s <= u
  /\ pc' = [pc EXCEPT ![s] = "user"]
  /\ pid' = [pid EXCEPT ![s] = NewPid]
  /\ father' = [father EXCEPT ![s] = pid[t]]
  /\ session' = [session EXCEPT ![s] = session[t]]
  /\ leader' = [leader EXCEPT ![s] = FALSE]
  /\ signal' = [signal EXCEPT ![s] = {}]
  /\ UNCHANGED arg

\* What init does in user mode: it forks while it has no child to wait for.
Forks(t) == pc[t] = "user" /\ (pid[t] = 1 => child = 0)

sys_fork(t) ==
  /\ Forks(t)
  /\ \E s \in FreeSlots : CopyTo(t, s)
  /\ last_pid' = NewPid
  /\ child' = IF pid[t] = 1 THEN NewPid ELSE child

\* No slot or no memory: the pid is used up all the same.  init tries again at
\* once.
ForkFails(t) ==
  /\ Forks(t)
  /\ last_pid' = NewPid
  /\ UNCHANGED <<pc, ids, signal, arg, child>>

sys_setsid(t) ==
  /\ pc[t] = "user" /\ pid[t] # 1
  /\ ~leader[t]
  /\ leader' = [leader EXCEPT ![t] = TRUE]
  /\ session' = [session EXCEPT ![t] = pid[t]]
  /\ UNCHANGED <<pc, pid, father, signal, arg, last_pid, child>>

-----------------------------------------------------------------------------
(* exit                                                                    *)

Children(t) == {c \in Used : father[c] = pid[t]}

\* Mistake: the children are not handed over.
ExitAlone(t) ==
  /\ pc' = [pc EXCEPT ![t] = "exit"]
  /\ UNCHANGED <<ids, signal, arg, last_pid, child>>

\* Mistake: init is not told of the zombies it inherits.
ExitSilently(t) ==
  /\ pc' = [pc EXCEPT ![t] = "exit"]
  /\ father' = [c \in Slot |-> IF c \in Children(t) THEN 1 ELSE father[c]]
  /\ UNCHANGED <<pid, session, leader, signal, arg, last_pid, child>>

\* do_exit up to the files: the children go to init, which is told of the
\* zombies among them.
ExitBegin(t) ==
  /\ pc' = [pc EXCEPT ![t] = "exit"]
  /\ father' = [c \in Slot |-> IF c \in Children(t) THEN 1 ELSE father[c]]
  /\ IF \E c \in Children(t) : pc[c] = "zombie"
     THEN signal' = [signal EXCEPT ![InitSlot] =
                       IF pc[InitSlot] = "none" THEN @ ELSE @ \cup {"CHLD"}]
     ELSE UNCHANGED signal
  /\ UNCHANGED <<pid, session, leader, arg, last_pid, child>>

sys_exit(t) ==
  /\ pc[t] = "user" /\ pid[t] # 1
  /\ ExitBegin(t)

\* The slot is free again.
Cleared(f, s, v) == [f EXCEPT ![s] = v]
release(s) ==
  /\ pc' = Cleared(pc, s, "none")
  /\ pid' = Cleared(pid, s, 0)
  /\ father' = Cleared(father, s, 0)
  /\ session' = Cleared(session, s, 0)
  /\ leader' = Cleared(leader, s, FALSE)
  /\ arg' = Cleared(arg, s, Any)

\* The tasks that get SIGHUP from kill_session.
Session(t) ==
  IF leader[t] THEN {s \in Used : session[s] = session[t]} ELSE {}

Hangup(t) ==
  [s \in Slot |-> IF s \in Session(t) THEN signal[s] \cup {"TERM"}
                  ELSE signal[s]]

\* The rest of do_exit: kill_session, TASK_ZOMBIE and tell_father.  A task
\* whose father is not found releases itself.
ExitEnd(t) ==
  LET fathers == {f \in Used : pid[f] = father[t]}
  IN /\ pc[t] = "exit"
     /\ \/ /\ fathers # {}
           /\ \E f \in fathers :
                signal' = [Hangup(t) EXCEPT ![f] = @ \cup {"CHLD"}]
           /\ pc' = [pc EXCEPT ![t] = "zombie"]
           /\ UNCHANGED <<ids, arg>>
        \/ /\ fathers = {}
           /\ release(t)
           /\ signal' = [Hangup(t) EXCEPT ![t] = {}]
     /\ UNCHANGED <<last_pid, child>>

-----------------------------------------------------------------------------
(* waitpid                                                                 *)

Matches(t, c, a) ==
  /\ c # t /\ c \in Children(t)
  /\ CASE a.kind = "pid"   -> pid[c] = a.id
       [] a.kind = "group" -> session[c] = a.id
       [] a.kind = "own"   -> session[c] = session[t]
       [] a.kind = "any"   -> TRUE

Zombies(t, a) == {c \in Slot : Matches(t, c, a) /\ pc[c] = "zombie"}

\* One round of the loop, sig being the pending signals when it starts: the
\* highest zombie is reaped; without one the task sleeps, or returns 0 or
\* -ECHILD.
Scan(t, a, nohang, sig) ==
  \/ \E c \in Zombies(t, a) :
       /\ \A d \in Zombies(t, a) : d <= c
       /\ pc' = [pc EXCEPT ![t] = "user", ![c] = "none"]
       /\ pid' = Cleared(pid, c, 0)
       /\ father' = Cleared(father, c, 0)
       /\ session' = Cleared(session, c, 0)
       /\ leader' = Cleared(leader, c, FALSE)
       /\ arg' = [arg EXCEPT ![t] = Any]
       /\ signal' = [sig EXCEPT ![c] = {}]
       /\ child' = IF pid[t] = 1 /\ pid[c] = child THEN 0 ELSE child
  \/ /\ Zombies(t, a) = {}
     /\ IF ~nohang /\ \E c \in Slot : Matches(t, c, a)
        THEN /\ pc' = [pc EXCEPT ![t] = "waitpid"]
             /\ arg' = [arg EXCEPT ![t] = a]
        ELSE /\ pc' = [pc EXCEPT ![t] = "user"]
             /\ arg' = [arg EXCEPT ![t] = Any]
     /\ signal' = sig
     /\ UNCHANGED <<ids, child>>

\* init waits for any child, in a loop, until the one it forked has died.
sys_waitpid(t, a, nohang) ==
  /\ pc[t] = "user"
  /\ pid[t] = 1 => child # 0 /\ a = Any /\ ~nohang
  /\ Scan(t, a, nohang, signal)
  /\ UNCHANGED last_pid

\* Mistake: SIGCHLD is taken and the loop not repeated.
WaitGoesOn(t) ==
  /\ pc[t] = "waitpid" /\ "CHLD" \in signal[t]
  /\ signal' = [signal EXCEPT ![t] = @ \ {"CHLD"}]
  /\ UNCHANGED <<pc, ids, arg, last_pid, child>>

\* schedule() lets a sleeper with a signal run: SIGCHLD is taken and the loop
\* repeated, any other signal ends the call.
WaitResumes(t) ==
  LET sig == [signal EXCEPT ![t] = @ \ {"CHLD"}]
  IN /\ pc[t] = "waitpid"
     /\ signal[t] # {}
     /\ \/ sig[t] = {} /\ Scan(t, arg[t], FALSE, sig)
        \/ /\ sig[t] # {}
           /\ pc' = [pc EXCEPT ![t] = "user"]
           /\ arg' = [arg EXCEPT ![t] = Any]
           /\ signal' = sig
           /\ UNCHANGED <<ids, child>>
     /\ UNCHANGED last_pid

-----------------------------------------------------------------------------
(* Signals                                                                 *)

\* The targets of kill(n, sig) for n > 0, n = 0, n < -1 and n = -1.
Targets(t) ==
  LET named(n) == {s \in Used : pid[s] = n}
      group(n) == {s \in Used : session[s] = n}
  IN {named(n) : n \in Pid} \cup {group(n) : n \in Pid} \cup {Used}

\* sys_kill, or tty_intr for the group of a terminal.  Only root may kill
\* init, and is assumed not to.
sys_kill(t, sig) ==
  /\ pc[t] = "user"
  /\ \E S \in Targets(t) :
       signal' = [s \in Slot |-> IF s \in S /\ s # InitSlot
                                 THEN signal[s] \cup {sig} ELSE signal[s]]
  /\ UNCHANGED <<pc, ids, arg, last_pid, child>>

\* ret_from_sys_call and do_signal: SIGCHLD is ignored; the other signal, which
\* has the lower number, is caught or ends the task.
TakeSignal(t) ==
  LET ready == signal[t]
      sig == IF "TERM" \in ready THEN "TERM" ELSE "CHLD"
  IN /\ pc[t] = "user" /\ ready # {}
     /\ signal' = [signal EXCEPT ![t] = @ \ {sig}]
     /\ sig = "TERM" => t # InitSlot
     /\ UNCHANGED <<pc, ids, arg, last_pid, child>>

Killed(t) ==
  /\ pc[t] = "user" /\ "TERM" \in signal[t]
  /\ ExitBegin(t)

-----------------------------------------------------------------------------

\* The program of init, one call after the other.
InitForks == \E t \in Slot : pid[t] = 1 /\ sys_fork(t)
InitTries == \E t \in Slot : pid[t] = 1 /\ ForkFails(t)
InitWaits == \E t \in Slot : pid[t] = 1 /\ sys_waitpid(t, Any, FALSE)

Next ==
  \E t \in Slot :
    \/ sys_fork(t) \/ ForkFails(t) \/ sys_setsid(t)
    \/ sys_exit(t) \/ ExitEnd(t)
    \/ \E a \in Selection, nohang \in BOOLEAN : sys_waitpid(t, a, nohang)
    \/ WaitResumes(t)
    \/ \E sig \in Sig : sys_kill(t, sig)
    \/ TakeSignal(t) \/ Killed(t)

Spec == Init /\ [][Next]_vars

\* do_exit comes to its end, a sleeper with a signal is resumed, and init runs
\* its program: it waits for its children, and a fork succeeds now and then if
\* there is room now and then.
Fairness ==
  /\ \A t \in Slot : WF_vars(ExitEnd(t)) /\ WF_vars(WaitResumes(t))
  /\ WF_vars(InitWaits)
  /\ WF_vars(InitForks \/ InitTries) /\ SF_vars(InitForks)

FairSpec == Spec /\ Fairness

-----------------------------------------------------------------------------
(* Properties.                                                             *)

\* The tables are well-typed, and no two tasks have the same pid, zombies
\* included, although pids start again at 1 (fork.c:144-147); waitpid, kill and
\* tell_father look tasks up by it.
PidsAreUnique ==
  /\ TypeOK
  /\ \A s, u \in Used : pid[s] = pid[u] => s = u

\* The father of every task exists and will still look for its children
\* (exit.c:96-98: "BAD BAD - no father found"): however exits, reaping and new
\* pids interleave, it is not a zombie and not past the handing over of its
\* children.
FatherIsThere ==
  \A s \in Used : s # InitSlot =>
    \E f \in Used : pid[f] = father[s] /\ pc[f] \in {"user", "waitpid"}

\* Both: whoever looks for a task by its pid, as tell_father does for the
\* father, finds it, and no other.
PidsLeadToTasks == PidsAreUnique /\ FatherIsThere

\* A father does not sleep over a dead child (sys_waitpid): while a child that
\* it waits for is a zombie, SIGCHLD is pending.
NoMissedChild ==
  \A t \in Slot :
    pc[t] = "waitpid" /\ Zombies(t, arg[t]) # {} => "CHLD" \in signal[t]

\* init reaps the orphans (schedule.md: a zombie is deleted by wait()).
OrphansAreReaped ==
  \A s \in Slot : pc[s] = "zombie" /\ father[s] = 1 ~> pc[s] = "none"

\* It does so if the table is not full for ever.
OrphansAreReapedIfRoom == []<>(FreeSlots # {}) => OrphansAreReaped

=============================================================================

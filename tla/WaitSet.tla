------------------------------- MODULE WaitSet -------------------------------
(***************************************************************************)
(* What a wait queue promises its users: it is a set of sleeping tasks,    *)
(* and waking it releases every member, each of which then resumes.        *)
(* Module WaitQueue implements this with one pointer per queue and one     *)
(* local variable per sleeper.                                             *)
(***************************************************************************)
CONSTANTS Task, Queue

VARIABLES
  waiting,   \* the tasks asleep on each queue
  released   \* the tasks that were woken and have not resumed yet

wvars == <<waiting, released>>

Init ==
  /\ waiting = [q \in Queue |-> {}]
  /\ released = {}

Sleep(t, q) ==
  /\ t \notin released
  /\ \A r \in Queue : t \notin waiting[r]
  /\ waiting' = [waiting EXCEPT ![q] = @ \cup {t}]
  /\ UNCHANGED released

WakeAll(q) ==
  /\ released' = released \cup waiting[q]
  /\ waiting' = [waiting EXCEPT ![q] = {}]

Resume(t) ==
  /\ t \in released
  /\ released' = released \ {t}
  /\ UNCHANGED waiting

Next ==
  \/ \E t \in Task, q \in Queue : Sleep(t, q)
  \/ \E q \in Queue : WakeAll(q)
  \/ \E t \in Task : Resume(t)

\* Released tasks do resume; nobody is obliged to wake a queue.
Spec == Init /\ [][Next]_wvars /\ \A t \in Task : WF_wvars(Resume(t))

=============================================================================

--------------------------- MODULE WaitQueueProof ---------------------------
(***************************************************************************)
(* Proofs about the wait queues of locks, for any number of tasks and      *)
(* queues: without tty queues (InputQueue = {}), and with interrupts off   *)
(* around the test of every lock that an interrupt releases, no sleeper is *)
(* lost and no stale pointer is ever followed.  With a tty queue stale     *)
(* pointers are followed; what holds all the same is proved at the end.    *)
(***************************************************************************)
EXTENDS WaitQueue, TLAPS

LocksOnly == InputQueue = {} /\ IrqQueue \subseteq CliQueue

\* Between the test of the lock and the switch of the processor a task is
\* never preempted, and nobody can release the lock it found held.
Going == {"enter", "link", "mark", "switch"}

GoingInv ==
  \A t \in Task :
    /\ pc[t] \in Going \cup {"test"} => current = t
    /\ pc[t] \in Going => held[on[t]] # Null
    /\ pc[t] \in Going \cup {"test", "asleep"} => on[t] \in Queue

\* The running task is runnable, except between the assignment of its state
\* and the call of schedule().
CurrentInv ==
  \A t \in Task :
    /\ current = t => state[t] = "RUNNING" \/ pc[t] = "switch"
    /\ pc[t] # "kick"

\* What the pointers refer to: the head is a task on that queue; a saved task
\* is asleep on the queue of the one that saved it; both are uninterruptible.
PointerInv ==
  /\ \A q \in Queue : head[q] # Null =>
       /\ on[head[q]] = q
       /\ pc[head[q]] \in {"mark", "switch", "asleep"}
       /\ pc[head[q]] # "mark" => state[head[q]] = "UNINTERRUPTIBLE"
  /\ \A t \in Task : tmp[t] # Null =>
       /\ pc[t] \in {"link", "mark", "switch", "asleep"}
       /\ on[tmp[t]] = on[t]
       /\ pc[tmp[t]] = "asleep"
       /\ state[tmp[t]] = "UNINTERRUPTIBLE"
  /\ \A t \in Task :
       /\ pc[t] = "link" => tmp[t] = head[on[t]]
       /\ pc[t] \in {"mark", "switch"} => head[on[t]] = t

\* Nobody is referred to twice, except by a task that has read *p and not yet
\* replaced it.
UniqueInv ==
  /\ \A t, u \in Task : tmp[t] # Null /\ tmp[t] = tmp[u] => t = u
  /\ \A t \in Task, q \in Queue :
       tmp[t] # Null /\ tmp[t] = head[q] => pc[t] = "link"

\* A task in pause() is runnable only with a signal.
PauseInv ==
  \A t \in Task : pc[t] = "pause" /\ state[t] = "RUNNING" => signal[t]

QueueInv ==
  /\ TypeOK
  /\ GoingInv
  /\ CurrentInv
  /\ PointerInv
  /\ UniqueInv
  /\ PauseInv
  /\ NoLostWakeup
  /\ NoOrphans
  /\ ZombieStaysDead

-----------------------------------------------------------------------------

\* Every step preserves the invariant.
LEMMA QueueInvStep ==
  ASSUME LocksOnly, QueueInv, [Next]_vars
  PROVE QueueInv'
<1>1. ASSUME NEW t \in Task, TestFails(t)
      PROVE  QueueInv'
  <2>1. TypeOK' /\ GoingInv' /\ CurrentInv' /\ PointerInv' /\ UniqueInv' /\
       PauseInv' /\ NoLostWakeup' /\ NoOrphans' /\ ZombieStaysDead'
    BY <1>1, NameAssumption DEF QueueInv, TestFails, At, TypeOK, InLoop,
       Sleeping, Queue, GoingInv, Going, CurrentInv, PointerInv, UniqueInv,
       PauseInv, NoLostWakeup, NoOrphans, Sleepers, WokenFromOutside,
       ZombieStaysDead
  <2> QED BY <2>1 DEF QueueInv
<1>2. ASSUME NEW t \in Task, TestHolds(t)
      PROVE  QueueInv'
  <2>1. TypeOK' /\ GoingInv' /\ CurrentInv' /\ PointerInv' /\ UniqueInv' /\
       PauseInv' /\ NoLostWakeup' /\ NoOrphans' /\ ZombieStaysDead'
    BY <1>2, NameAssumption DEF QueueInv, TestHolds, At, TypeOK, InLoop,
       Sleeping, Queue, GoingInv, Going, CurrentInv, PointerInv, UniqueInv,
       PauseInv, NoLostWakeup, NoOrphans, Sleepers, WokenFromOutside,
       ZombieStaysDead
  <2> QED BY <2>1 DEF QueueInv
\* The head it saves is asleep, and nobody else has saved it: whoever had
\* would still be between Enter and Link.
<1>3. ASSUME NEW t \in Task, Enter(t)
      PROVE  QueueInv'
  <2>1. TypeOK'
    BY <1>3, NameAssumption, QueueAssumption DEF QueueInv, Enter, At, TypeOK,
       InLoop, Sleeping, Queue, GoingInv, CurrentInv, Going, LocksOnly
  <2>2. GoingInv' /\ CurrentInv' /\ PauseInv' /\ NoLostWakeup' /\
       ZombieStaysDead'
    BY <1>3, NameAssumption DEF QueueInv, Enter, At, GoingInv, Going,
       CurrentInv, PauseInv, NoLostWakeup, Queue, ZombieStaysDead
  <2>3. PointerInv'
    BY <1>3, NameAssumption, QueueAssumption DEF QueueInv, Enter, At,
       PointerInv, TypeOK, GoingInv, CurrentInv, Going, LocksOnly, Queue
  <2>4. UniqueInv'
    BY <1>3, NameAssumption, QueueAssumption DEF QueueInv, Enter, At,
       UniqueInv, TypeOK, GoingInv, CurrentInv, Going, LocksOnly, Queue
  <2>5. NoOrphans'
    BY <1>3, NameAssumption DEF QueueInv, Enter, At, NoOrphans, Sleepers,
       Sleeping, WokenFromOutside, TypeOK, PointerInv
  <2> QED BY <2>1, <2>2, <2>3, <2>4, <2>5 DEF QueueInv
\* The old head loses the reference of *p and keeps the one in tmp.
<1>4. ASSUME NEW t \in Task, Link(t)
      PROVE  QueueInv'
  <2>1. TypeOK' /\ GoingInv' /\ CurrentInv' /\ PauseInv' /\ ZombieStaysDead'
    BY <1>4, NameAssumption DEF QueueInv, Link, At, TypeOK, InLoop, Sleeping,
       Queue, GoingInv, Going, CurrentInv, PauseInv, ZombieStaysDead
  <2>2. PointerInv'
    BY <1>4, NameAssumption, QueueAssumption DEF QueueInv, Link, At,
       PointerInv, TypeOK, GoingInv, CurrentInv, Going, LocksOnly, Queue
  <2>3. UniqueInv'
    BY <1>4, NameAssumption DEF QueueInv, Link, At, UniqueInv, TypeOK,
       PointerInv
  <2>4. NoLostWakeup'
    BY <1>4, NameAssumption, QueueAssumption DEF QueueInv, Link, At,
       NoLostWakeup, Queue, TypeOK, GoingInv, CurrentInv, Going, LocksOnly
  <2>5. NoOrphans'
    BY <1>4, NameAssumption DEF QueueInv, Link, At, NoOrphans, Sleepers,
       Sleeping, WokenFromOutside, TypeOK, PointerInv
  <2> QED BY <2>1, <2>2, <2>3, <2>4, <2>5 DEF QueueInv
<1>5. ASSUME NEW t \in Task, Mark(t)
      PROVE  QueueInv'
  <2>1. TypeOK' /\ GoingInv' /\ CurrentInv' /\ UniqueInv' /\ PauseInv' /\
       NoLostWakeup' /\ NoOrphans' /\ ZombieStaysDead'
    BY <1>5, NameAssumption DEF QueueInv, Mark, At, TypeOK, InLoop, Sleeping,
       Queue, GoingInv, Going, CurrentInv, UniqueInv, PauseInv, NoLostWakeup,
       NoOrphans, Sleepers, WokenFromOutside, ZombieStaysDead
  <2>2. PointerInv'
    BY <1>5, NameAssumption, QueueAssumption DEF QueueInv, Mark, At,
       PointerInv, TypeOK, GoingInv, CurrentInv, Going, LocksOnly, Queue
  <2> QED BY <2>1, <2>2 DEF QueueInv
\* The only new sleeper is the task itself, and it is the head of its queue.
<1>6. ASSUME NEW t \in Task, Switch(t)
      PROVE  QueueInv'
  <2>1. TypeOK'
    BY <1>6, NameAssumption DEF QueueInv, Switch, At, TypeOK, InLoop,
       Sleeping, Queue, Schedule
  <2>2. GoingInv' /\ PointerInv' /\ UniqueInv' /\ PauseInv' /\ NoLostWakeup'
       /\ ZombieStaysDead'
    BY <1>6, NameAssumption DEF QueueInv, Switch, At, GoingInv, Going, TypeOK,
       PointerInv, UniqueInv, PauseInv, NoLostWakeup, Queue, ZombieStaysDead,
       Schedule
  <2>3. CurrentInv'
    BY <1>6, NameAssumption DEF QueueInv, Switch, At, CurrentInv, Schedule
  <2>4. NoOrphans'
    <3>1. on[t] \in Queue /\ head[on[t]] = t
      BY <1>6 DEF QueueInv, Switch, At, GoingInv, PointerInv, Going
    <3>2. Sleepers' \subseteq Sleepers \cup {t}
      BY <1>6 DEF QueueInv, Switch, At, TypeOK, Sleepers, Sleeping, Schedule
    <3>3. UNCHANGED <<head, tmp>>
      BY <1>6 DEF Switch
    <3> QED
      BY <3>1, <3>2, <3>3 DEF QueueInv, NoOrphans, WokenFromOutside
  <2> QED BY <2>1, <2>2, <2>3, <2>4 DEF QueueInv
\* The saved task is woken and loses its only reference; nobody refers to the
\* task that returns, because it is runnable.
<1>7. ASSUME NEW t \in Task, Return(t)
      PROVE  QueueInv'
  <2>1. TypeOK' /\ GoingInv' /\ CurrentInv' /\ UniqueInv' /\ NoLostWakeup' /\
       NoOrphans'
    BY <1>7, NameAssumption DEF QueueInv, Return, At, WakeSaved, TypeOK,
       InLoop, Sleeping, Queue, GoingInv, Going, CurrentInv, UniqueInv,
       NoLostWakeup, NoOrphans, Sleepers, WokenFromOutside
  <2>2. PointerInv'
    BY <1>7, NameAssumption, QueueAssumption DEF QueueInv, Return, At,
       WakeSaved, PointerInv, TypeOK, GoingInv, CurrentInv, UniqueInv, Going,
       Queue, LocksOnly
  <2>3. PauseInv'
    BY <1>7, NameAssumption DEF QueueInv, Return, At, WakeSaved, PauseInv,
       TypeOK, PointerInv
  <2>4. ZombieStaysDead'
    BY <1>7, NameAssumption DEF QueueInv, Return, At, WakeSaved,
       ZombieStaysDead, TypeOK, PointerInv
  <2> QED BY <2>1, <2>2, <2>3, <2>4 DEF QueueInv
<1>8. ASSUME NEW t \in Task, SeesOther(t)
      PROVE  QueueInv'
  BY <1>8 DEF QueueInv, LocksOnly, CurrentInv, At, SeesOther
<1>9. ASSUME NEW t \in Task, Kick(t)
      PROVE  QueueInv'
  BY <1>9 DEF QueueInv, LocksOnly, CurrentInv, At, Kick
<1>10. ASSUME NEW t \in Task, IReturn(t)
      PROVE  QueueInv'
  BY <1>10 DEF QueueInv, LocksOnly, CurrentInv, At, IReturn
<1>11. ASSUME NEW t \in Task, PauseReturns(t)
      PROVE  QueueInv'
  <2>1. TypeOK' /\ GoingInv' /\ CurrentInv' /\ PointerInv' /\ UniqueInv' /\
       PauseInv' /\ NoLostWakeup' /\ NoOrphans' /\ ZombieStaysDead'
    BY <1>11, NameAssumption DEF QueueInv, PauseReturns, At, TypeOK, InLoop,
       Sleeping, Queue, GoingInv, Going, CurrentInv, PointerInv, UniqueInv,
       PauseInv, NoLostWakeup, NoOrphans, Sleepers, WokenFromOutside,
       ZombieStaysDead
  <2> QED BY <2>1 DEF QueueInv
<1>12. ASSUME NEW t \in Task, ExitReturns(t)
      PROVE  QueueInv'
  <2>1. TypeOK' /\ GoingInv' /\ CurrentInv' /\ PointerInv' /\ UniqueInv' /\
       PauseInv' /\ NoLostWakeup' /\ NoOrphans' /\ ZombieStaysDead'
    BY <1>12, NameAssumption DEF QueueInv, ExitReturns, At, TypeOK, InLoop,
       Sleeping, Queue, GoingInv, Going, CurrentInv, PointerInv, UniqueInv,
       PauseInv, NoLostWakeup, NoOrphans, Sleepers, WokenFromOutside,
       ZombieStaysDead
  <2> QED BY <2>1 DEF QueueInv
\* The head is woken and loses its only reference.
<1>13. ASSUME NEW t \in Task, NEW q \in Queue, Unlock(t, q)
      PROVE  QueueInv'
  <2>1. TypeOK' /\ GoingInv' /\ CurrentInv' /\ UniqueInv' /\ NoLostWakeup' /\
       NoOrphans'
    BY <1>13, NameAssumption, QueueAssumption DEF QueueInv, Unlock, Free,
       wake_up, TypeOK, InLoop, Sleeping, Queue, GoingInv, Going, CurrentInv,
       UniqueInv, NoLostWakeup, NoOrphans, Sleepers, WokenFromOutside,
       LocksOnly
  <2>2. PointerInv'
    BY <1>13, NameAssumption, QueueAssumption DEF QueueInv, Unlock, Free,
       wake_up, PointerInv, TypeOK, GoingInv, CurrentInv, UniqueInv, Going,
       Queue, LocksOnly
  <2>3. PauseInv'
    BY <1>13, NameAssumption, QueueAssumption DEF QueueInv, Unlock, Free,
       wake_up, PauseInv, TypeOK, PointerInv, LocksOnly, Queue
  <2>4. ZombieStaysDead'
    BY <1>13, NameAssumption, QueueAssumption DEF QueueInv, Unlock, Free,
       wake_up, ZombieStaysDead, TypeOK, PointerInv, LocksOnly, Queue
  <2> QED BY <2>1, <2>2, <2>3, <2>4 DEF QueueInv
<1>14. ASSUME NEW t \in Task, NEW q \in Queue,
               NEW g \in {"wait", "lock", "read"}, Start(t, q, g)
      PROVE  QueueInv'
  <2>1. TypeOK' /\ GoingInv' /\ CurrentInv' /\ PointerInv' /\ UniqueInv' /\
       PauseInv' /\ NoLostWakeup' /\ NoOrphans' /\ ZombieStaysDead'
    BY <1>14, NameAssumption, QueueAssumption DEF QueueInv, Start, Free,
       TypeOK, InLoop, Sleeping, Queue, GoingInv, Going, CurrentInv,
       PointerInv, UniqueInv, PauseInv, NoLostWakeup, NoOrphans, Sleepers,
       WokenFromOutside, ZombieStaysDead, LocksOnly
  <2> QED BY <2>1 DEF QueueInv
<1>15. ASSUME NEW t \in Task, Signal(t)
      PROVE  QueueInv'
  <2>1. TypeOK' /\ GoingInv' /\ CurrentInv' /\ PointerInv' /\ UniqueInv' /\
       PauseInv' /\ NoLostWakeup' /\ NoOrphans' /\ ZombieStaysDead'
    BY <1>15, NameAssumption DEF QueueInv, Signal, TypeOK, InLoop, Sleeping,
       Queue, GoingInv, Going, CurrentInv, PointerInv, UniqueInv, PauseInv,
       NoLostWakeup, NoOrphans, Sleepers, WokenFromOutside, ZombieStaysDead
  <2> QED BY <2>1 DEF QueueInv
<1>16. ASSUME NEW t \in Task, Deliver(t)
      PROVE  QueueInv'
  <2>1. TypeOK' /\ GoingInv' /\ CurrentInv' /\ PointerInv' /\ UniqueInv' /\
       PauseInv' /\ NoLostWakeup' /\ NoOrphans' /\ ZombieStaysDead'
    BY <1>16, NameAssumption DEF QueueInv, Deliver, Free, TypeOK, InLoop,
       Sleeping, Queue, GoingInv, Going, CurrentInv, PointerInv, UniqueInv,
       PauseInv, NoLostWakeup, NoOrphans, Sleepers, WokenFromOutside,
       ZombieStaysDead
  <2> QED BY <2>1 DEF QueueInv
<1>17. ASSUME NEW t \in Task, sys_pause(t)
      PROVE  QueueInv'
  <2>1. TypeOK'
    BY <1>17, NameAssumption DEF QueueInv, sys_pause, Free, TypeOK, InLoop,
       Sleeping, Queue, Schedule
  <2>2. GoingInv' /\ PointerInv' /\ UniqueInv' /\ PauseInv' /\ NoLostWakeup'
       /\ ZombieStaysDead'
    BY <1>17, NameAssumption DEF QueueInv, sys_pause, Free, GoingInv, Going,
       PointerInv, TypeOK, UniqueInv, PauseInv, NoLostWakeup, Queue,
       ZombieStaysDead, Schedule
  <2>3. CurrentInv'
    BY <1>17, NameAssumption DEF QueueInv, sys_pause, Free, CurrentInv,
       Schedule
  <2>4. NoOrphans'
    BY <1>17, NameAssumption DEF QueueInv, sys_pause, Free, NoOrphans,
       Sleepers, Sleeping, WokenFromOutside, Schedule
  <2> QED BY <2>1, <2>2, <2>3, <2>4 DEF QueueInv
<1>18. ASSUME NEW t \in Task, do_exit(t)
      PROVE  QueueInv'
  <2>1. TypeOK'
    BY <1>18, NameAssumption DEF QueueInv, do_exit, Free, TypeOK, InLoop,
       Sleeping, Queue, Schedule
  <2>2. GoingInv' /\ PointerInv' /\ UniqueInv' /\ PauseInv' /\ NoLostWakeup'
       /\ ZombieStaysDead'
    BY <1>18, NameAssumption DEF QueueInv, do_exit, Free, GoingInv, Going,
       PointerInv, TypeOK, UniqueInv, PauseInv, NoLostWakeup, Queue,
       ZombieStaysDead, Schedule
  <2>3. CurrentInv'
    BY <1>18, NameAssumption DEF QueueInv, do_exit, Free, CurrentInv, Schedule
  <2>4. NoOrphans'
    BY <1>18, NameAssumption DEF QueueInv, do_exit, Free, NoOrphans, Sleepers,
       Sleeping, WokenFromOutside, Schedule
  <2> QED BY <2>1, <2>2, <2>3, <2>4 DEF QueueInv
\* As Unlock; no sleeper of the queue is between its test and its switch.
<1>19. ASSUME NEW q \in Queue, Interrupt(q)
      PROVE  QueueInv'
  <2>1. TypeOK' /\ GoingInv' /\ CurrentInv' /\ UniqueInv' /\ NoLostWakeup' /\
       NoOrphans'
    BY <1>19, NameAssumption, QueueAssumption DEF QueueInv, Interrupt,
       InterruptsOn, wake_up, TypeOK, InLoop, Sleeping, Queue, GoingInv,
       Going, CurrentInv, UniqueInv, NoLostWakeup, NoOrphans, Sleepers,
       WokenFromOutside, LocksOnly
  <2>2. PointerInv'
    BY <1>19, NameAssumption, QueueAssumption DEF QueueInv, Interrupt,
       InterruptsOn, wake_up, PointerInv, TypeOK, GoingInv, CurrentInv,
       UniqueInv, Going, Queue, LocksOnly
  <2>3. PauseInv'
    BY <1>19, NameAssumption, QueueAssumption DEF QueueInv, Interrupt,
       InterruptsOn, wake_up, PauseInv, TypeOK, PointerInv, LocksOnly, Queue
  <2>4. ZombieStaysDead'
    BY <1>19, NameAssumption, QueueAssumption DEF QueueInv, Interrupt,
       InterruptsOn, wake_up, ZombieStaysDead, TypeOK, PointerInv, LocksOnly,
       Queue
  <2> QED BY <2>1, <2>2, <2>3, <2>4 DEF QueueInv
<1>20. ASSUME Reschedule
      PROVE  QueueInv'
  <2>1. TypeOK'
    BY <1>20, NameAssumption DEF QueueInv, Reschedule, Free, TypeOK, InLoop,
       Sleeping, Queue, Schedule
  <2>2. GoingInv' /\ PointerInv' /\ UniqueInv' /\ PauseInv' /\ NoLostWakeup'
       /\ ZombieStaysDead'
    BY <1>20, NameAssumption DEF QueueInv, Reschedule, Free, GoingInv, Going,
       PointerInv, TypeOK, UniqueInv, PauseInv, NoLostWakeup, Queue,
       ZombieStaysDead, Schedule
  <2>3. CurrentInv'
    BY <1>20, NameAssumption DEF QueueInv, Reschedule, Free, CurrentInv,
       Schedule
  <2>4. NoOrphans'
    BY <1>20, NameAssumption DEF QueueInv, Reschedule, Free, NoOrphans,
       Sleepers, Sleeping, WokenFromOutside, Schedule
  <2> QED BY <2>1, <2>2, <2>3, <2>4 DEF QueueInv
<1>21. CASE UNCHANGED vars
  BY <1>21 DEF QueueInv, vars, Sleepers, WokenFromOutside, TypeOK, GoingInv,
     CurrentInv, PointerInv, UniqueInv, PauseInv, NoLostWakeup, NoOrphans,
     ZombieStaysDead
<1> QED BY <1>1, <1>2, <1>3, <1>4, <1>5, <1>6, <1>7, <1>8, <1>9, <1>10, <1>11,
    <1>12, <1>13, <1>14, <1>15, <1>16, <1>17, <1>18, <1>19, <1>20, <1>21 DEF
    Next, Step

\* The invariant holds in every reachable state.
THEOREM QueueInvariant ==
  ASSUME LocksOnly
  PROVE  Spec => []QueueInv
<1>1. Init => QueueInv
  BY LocksOnly, QueueAssumption, NameAssumption
  DEF LocksOnly, Init, QueueInv, TypeOK, InLoop, Sleeping, Queue, GoingInv,
      Going, CurrentInv, PointerInv, UniqueInv, PauseInv, NoLostWakeup,
      NoOrphans, Sleepers, ZombieStaysDead
<1>2. QueueInv /\ [Next]_vars => QueueInv'
  BY LocksOnly, QueueInvStep
<1> QED
  BY <1>1, <1>2, PTL DEF Spec

\* sched.c: every variable of the sleep code stays in its type.
THEOREM TypeCorrect ==
  ASSUME LocksOnly
  PROVE  Spec => []TypeOK
<1>1. QueueInv => TypeOK
  BY DEF QueueInv
<1> QED
  BY <1>1, QueueInvariant, PTL

\* sleep_on: every sleeper is the head of its queue or is reached from a task
\* that will wake it, however many tasks sleep on however many queues.
THEOREM SleepersAreReachable ==
  ASSUME LocksOnly
  PROVE  Spec => []NoOrphans
<1>1. QueueInv => NoOrphans
  BY DEF QueueInv
<1> QED
  BY <1>1, QueueInvariant, PTL

\* wait_on_buffer, lock_inode, lock_super: no unlock falls between the test of
\* the lock and the sleep.
THEOREM WakeupsAreNotLost ==
  ASSUME LocksOnly
  PROVE  Spec => []NoLostWakeup
<1>1. QueueInv => NoLostWakeup
  BY DEF QueueInv
<1> QED
  BY <1>1, QueueInvariant, PTL

\* sleep_on: the task a sleeper wakes through tmp is still asleep on the same
\* queue, so that the assignment to its state is never a stale one.
THEOREM TmpIsNeverStale ==
  ASSUME LocksOnly
  PROVE  Spec => []SavedStillSleeps
<1>1. QueueInv => SavedStillSleeps
  BY DEF QueueInv, PointerInv, SavedStillSleeps, Sleeping
<1> QED
  BY <1>1, QueueInvariant, PTL

\* do_exit: nothing makes a zombie runnable, and its last schedule() does not
\* return.
THEOREM ZombiesStayDead ==
  ASSUME LocksOnly
  PROVE  Spec => []ZombieStaysDead
<1>1. QueueInv => ZombieStaysDead
  BY DEF QueueInv
<1> QED
  BY <1>1, QueueInvariant, PTL

\* sleep_on: an uninterruptible sleeper is made runnable by its own queue only.
THEOREM WokenByOwnQueue ==
  ASSUME LocksOnly
  PROVE  Spec => OnlyOwnQueueWakes
<1> DEFINE Own ==
      \A t \in Task : state[t] = "UNINTERRUPTIBLE" /\ state'[t] = "RUNNING" =>
        \/ head[on[t]] = t /\ head'[on[t]] = Null
        \/ \E u \in Task : tmp[u] = t /\ tmp'[u] = Null /\ on[u] = on[t]
<1>1. QueueInv /\ [Next]_vars => [Own]_vars
  <2> SUFFICES ASSUME QueueInv, Next PROVE Own
    OBVIOUS
  <2> USE NameAssumption DEF QueueInv, TypeOK, Sleeping
  <2>1. ASSUME NEW t \in Task, Return(t) PROVE Own
    BY <2>1 DEF Return, WakeSaved, PointerInv
  <2>2. ASSUME NEW t \in Task, NEW q \in Queue, Unlock(t, q) PROVE Own
    BY <2>2 DEF Unlock, wake_up, PointerInv
  <2>3. ASSUME NEW q \in Queue, Interrupt(q) PROVE Own
    BY <2>3 DEF Interrupt, wake_up, PointerInv
  <2>4. ASSUME NEW t \in Task, Switch(t) \/ sys_pause(t) \/ do_exit(t)
        PROVE  Own
    BY <2>4 DEF Switch, sys_pause, do_exit, Schedule, CurrentInv, Free
  <2>5. CASE Reschedule
    BY <2>5 DEF Reschedule, Schedule
  <2>6. ASSUME NEW t \in Task, SeesOther(t) \/ Kick(t) \/ IReturn(t)
        PROVE  Own
    BY LocksOnly, <2>6
    DEF LocksOnly, CurrentInv, SeesOther, Kick, IReturn, At
  <2>7. ASSUME NEW t \in Task, Mark(t)
        PROVE  Own
    BY <2>7 DEF Mark
  <2>8. ASSUME UNCHANGED state
        PROVE  Own
    BY <2>8
  <2> QED
    BY <2>1, <2>2, <2>3, <2>4, <2>5, <2>6, <2>7, <2>8
    DEF Next, Step, TestFails, TestHolds, Enter, Link, PauseReturns,
        ExitReturns, Start, Signal, Deliver
<1> QED
  BY <1>1, QueueInvariant, PTL DEF Spec, OnlyOwnQueueWakes

\* sys_pause: pause() returns only to a task that has a signal.
THEOREM PauseEndsWithSignal ==
  ASSUME LocksOnly
  PROVE  Spec => PauseNeedsSignal
<1> DEFINE GotSignal == \A t \in Task : PauseReturns(t) => signal[t]
<1>1. QueueInv /\ [Next]_vars => [GotSignal]_vars
  BY DEF QueueInv, PauseInv, CurrentInv, PauseReturns, At
<1> QED
  BY <1>1, QueueInvariant, PTL DEF Spec, PauseNeedsSignal

-----------------------------------------------------------------------------
(* Locks and terminals together                                            *)

\* Whoever tests and sleeps for an interrupt does so with interrupts off.
InterruptsGuarded == IrqQueue \subseteq CliQueue

\* Where a task runs in the sleep code nobody disturbs it.  A task that sleeps
\* for a lock is the head of its queue when it calls schedule(), and has saved
\* the head that it replaced; of an interruptible sleep neither holds.
PlaceInv ==
  \A t \in Task :
    /\ pc[t] \in InLoop \ {"asleep"} => current = t
    /\ pc[t] \in InLoop => on[t] \in Queue
    /\ current = t => state[t] = "RUNNING" \/ pc[t] = "switch"
    /\ pc[t] \in {"test", "enter", "run", "pause", "dead"} => tmp[t] = Null
    /\ pc[t] = "link" => tmp[t] = head[on[t]]
    /\ pc[t] \in {"mark", "switch"} /\ on[t] \in LockQueue => head[on[t]] = t
    /\ pc[t] = "kick" => on[t] \in InputQueue /\ head[on[t]] # Null

MixedInv == TypeOK /\ PlaceInv /\ NoLockOrphans

LockSleepers == {t \in Sleepers : on[t] \in LockQueue}

\* No lock waiter is forgotten by a step if whoever falls asleep is the head of
\* a queue, and if nobody is taken from a queue who goes on sleeping.
LEMMA SleepersKept ==
  ASSUME NoLockOrphans,
         \A u \in LockSleepers' : u \in LockSleepers \/ \E q \in Queue : head'[q] = u,
         \A u \in LockSleepers', q \in Queue :
           head[q] = u => \/ \E r \in Queue : head'[r] = u
                          \/ \E w \in Task \ LockSleepers' : tmp'[w] = u,
         \A u \in LockSleepers', w \in Task : tmp[w] = u => tmp'[w] = u
  PROVE  NoLockOrphans'
<1> SUFFICES ASSUME NEW S \in SUBSET LockSleepers', S # {}
             PROVE  \E u \in S : WokenFromOutside(u, S)'
  BY DEF NoLockOrphans, LockSleepers
<1>1. CASE \E u \in S, q \in Queue : head'[q] = u
  BY <1>1 DEF WokenFromOutside
<1>2. CASE S \subseteq LockSleepers
  <2>1. PICK u \in S : WokenFromOutside(u, S)
    BY <1>2 DEF NoLockOrphans, LockSleepers
  <2>2. CASE \E q \in Queue : head[q] = u
    BY <2>2 DEF WokenFromOutside
  <2>3. CASE \E w \in Task \ S : tmp[w] = u
    BY <2>3 DEF WokenFromOutside
  <2> QED
    BY <2>1, <2>2, <2>3 DEF WokenFromOutside
<1> QED
  BY <1>1, <1>2

\* Whoever schedule() chooses is runnable.
LEMMA ScheduleRuns ==
  ASSUME NEW s, Schedule(s)
  PROVE  \A t \in Task : current' = t => state'[t] = "RUNNING"
BY NameAssumption DEF Schedule

\* Every step keeps the invariant, with terminals as well as without.
LEMMA MixedStep ==
  ASSUME InterruptsGuarded, MixedInv, [Next]_vars
  PROVE  MixedInv'
<1> USE NameAssumption
<1>0. TypeOK /\ PlaceInv /\ NoLockOrphans
  BY DEF MixedInv
<1>1. ASSUME NEW t \in Task, TestFails(t) \/ TestHolds(t) \/ SeesOther(t) \/ Enter(t)
                             \/ PauseReturns(t) \/ ExitReturns(t) \/ Mark(t) \/ Link(t)
      PROVE  TypeOK' /\ PlaceInv'
  BY <1>0, <1>1 DEF TestFails, TestHolds, SeesOther, Enter, PauseReturns, ExitReturns, Mark,
     Link, At, TypeOK, PlaceInv, InLoop, Sleeping, Queue
<1>2. ASSUME NEW t \in Task, TestFails(t) \/ TestHolds(t) \/ SeesOther(t) \/ Enter(t)
                             \/ PauseReturns(t) \/ ExitReturns(t) \/ Mark(t)
      PROVE  NoLockOrphans'
  BY <1>0, <1>2, SleepersKept DEF TestFails, TestHolds, SeesOther, Enter, PauseReturns,
     ExitReturns, Mark, At, TypeOK, PlaceInv, LockSleepers, Sleepers, Sleeping, InLoop
<1>3. ASSUME NEW t \in Task, Link(t) PROVE NoLockOrphans'
  BY <1>0, <1>3, SleepersKept DEF Link, At, TypeOK, PlaceInv, LockSleepers, Sleepers, InLoop
<1>4. ASSUME NEW t \in Task, Switch(t) PROVE MixedInv'
  <2>1. TypeOK'
    BY <1>0, <1>4 DEF Switch, Schedule, At, TypeOK, InLoop, Sleeping
  <2>3. PlaceInv'
    <3>1. \A u \in Task : u # t => pc[u] \notin InLoop \ {"asleep"} /\ pc'[u] = pc[u]
      BY <1>0, <1>4 DEF Switch, At, TypeOK, PlaceInv
    <3>2. pc'[t] = "asleep" /\ on[t] \in Queue /\ UNCHANGED <<on, tmp, head>>
      BY <1>0, <1>4 DEF Switch, At, TypeOK, PlaceInv, InLoop
    <3>3. \A u \in Task : current' = u => state'[u] = "RUNNING"
      BY <1>4, ScheduleRuns DEF Switch
    <3> QED
      BY <1>0, <3>1, <3>2, <3>3 DEF PlaceInv, InLoop
  <2>2. NoLockOrphans'
    BY <1>0, <1>4, SleepersKept DEF Switch, Schedule, At, TypeOK, PlaceInv, LockSleepers,
       Sleepers, Sleeping, InLoop, Queue
  <2> QED
    BY <2>1, <2>2, <2>3 DEF MixedInv
<1>5. ASSUME NEW t \in Task, Return(t) \/ IReturn(t) \/ Kick(t) PROVE MixedInv'
  <2>1. TypeOK' /\ PlaceInv'
    BY <1>0, <1>5, QueueAssumption DEF Return, IReturn, Kick, WakeSaved, At, TypeOK, PlaceInv,
       InLoop, Sleeping, Queue
  <2>2. NoLockOrphans'
    BY <1>0, <1>5, SleepersKept DEF Return, IReturn, Kick, WakeSaved, At, TypeOK, PlaceInv,
       LockSleepers, Sleepers, Sleeping, InLoop, Queue
  <2> QED
    BY <2>1, <2>2 DEF MixedInv
<1>6. ASSUME NEW t \in Task, NEW q \in Queue, Unlock(t, q) PROVE MixedInv'
  <2>1. TypeOK' /\ PlaceInv'
    BY <1>0, <1>6 DEF Unlock, wake_up, Free, TypeOK, PlaceInv, InLoop, Sleeping, Queue
  <2>2. NoLockOrphans'
    BY <1>0, <1>6, SleepersKept DEF Unlock, wake_up, Free, TypeOK, PlaceInv,
       LockSleepers, Sleepers, Sleeping, InLoop, Queue
  <2> QED
    BY <2>1, <2>2 DEF MixedInv
<1>7. ASSUME NEW q \in Queue, Interrupt(q) PROVE MixedInv'
  <2>1. \A t \in Task : pc[t] \in InLoop \ {"asleep"} => on[t] # q
    BY <1>0, <1>7 DEF Interrupt, InterruptsOn, InterruptsGuarded, PlaceInv
  <2>2. TypeOK' /\ PlaceInv'
    BY <1>0, <1>7, <2>1 DEF Interrupt, wake_up, TypeOK, PlaceInv, InLoop, Sleeping, Queue
  <2>3. NoLockOrphans'
    BY <1>0, <1>7, SleepersKept DEF Interrupt, wake_up, TypeOK, PlaceInv,
       LockSleepers, Sleepers, Sleeping, InLoop, Queue
  <2> QED
    BY <2>2, <2>3 DEF MixedInv
<1>8. ASSUME NEW t \in Task, NEW q \in Queue, NEW g \in {"wait", "lock", "read"}, Start(t, q, g)
      PROVE  MixedInv'
  <2>1. TypeOK' /\ PlaceInv'
    BY <1>0, <1>8 DEF Start, Free, TypeOK, PlaceInv, InLoop, Sleeping, Queue
  <2>2. NoLockOrphans'
    BY <1>0, <1>8, SleepersKept DEF Start, Free, TypeOK, PlaceInv, LockSleepers, Sleepers
  <2> QED
    BY <2>1, <2>2 DEF MixedInv
<1>9. ASSUME NEW t \in Task, Signal(t) \/ Deliver(t) PROVE MixedInv'
  <2>1. TypeOK'
    BY <1>0, <1>9 DEF Signal, Deliver, TypeOK
  <2>3. PlaceInv'
    BY <1>0, <1>9 DEF Signal, Deliver, PlaceInv
  <2>2. NoLockOrphans'
    BY <1>0, <1>9, SleepersKept DEF Signal, Deliver, LockSleepers, Sleepers
  <2> QED
    BY <2>1, <2>2, <2>3 DEF MixedInv
<1>10. ASSUME NEW t \in Task, sys_pause(t) \/ do_exit(t) PROVE MixedInv'
  <2>1. TypeOK'
    BY <1>0, <1>10 DEF sys_pause, do_exit, Schedule, Free, TypeOK, Sleeping
  <2>3. PlaceInv'
    <3>1. \A u \in Task : u # t => pc[u] \notin InLoop \ {"asleep"} /\ pc'[u] = pc[u]
      BY <1>0, <1>10 DEF sys_pause, do_exit, Free, TypeOK, PlaceInv
    <3>2. pc[t] = "run" /\ pc'[t] \in {"pause", "dead"} /\ UNCHANGED <<on, tmp, head>>
      BY <1>0, <1>10 DEF sys_pause, do_exit, Free, TypeOK
    <3>3. \A u \in Task : current' = u => state'[u] = "RUNNING"
      BY <1>10, ScheduleRuns DEF sys_pause, do_exit
    <3> QED
      BY <1>0, <3>1, <3>2, <3>3 DEF PlaceInv, InLoop
  <2>2. NoLockOrphans'
    BY <1>0, <1>10, SleepersKept DEF sys_pause, do_exit, Schedule, Free, TypeOK, PlaceInv,
       LockSleepers, Sleepers, Sleeping, InLoop
  <2> QED
    BY <2>1, <2>2, <2>3 DEF MixedInv
<1>11. CASE Reschedule
  <2>1. TypeOK'
    BY <1>0, <1>11 DEF Reschedule, Schedule, TypeOK, Sleeping
  <2>3. PlaceInv'
    <3>1. \A u \in Task : pc[u] \notin InLoop \ {"asleep"}
      BY <1>0, <1>11 DEF Reschedule, Free, PlaceInv, InLoop
    <3>2. \A u \in Task : current' = u => state'[u] = "RUNNING"
      BY <1>11, ScheduleRuns DEF Reschedule
    <3> QED
      BY <1>0, <1>11, <3>1, <3>2 DEF Reschedule, PlaceInv
  <2>2. NoLockOrphans'
    BY <1>0, <1>11, SleepersKept DEF Reschedule, Schedule, TypeOK, LockSleepers, Sleepers, Sleeping
  <2> QED
    BY <2>1, <2>2, <2>3 DEF MixedInv
<1>12. CASE UNCHANGED vars
  BY <1>12 DEF vars, MixedInv, TypeOK, PlaceInv, NoLockOrphans, Sleepers, WokenFromOutside
<1> QED
  BY <1>1, <1>2, <1>3, <1>4, <1>5, <1>6, <1>7, <1>8, <1>9, <1>10, <1>11, <1>12
     DEF Next, Step, MixedInv

\* The invariant of locks and terminals holds in every reachable state.
THEOREM MixedInvariant ==
  ASSUME InterruptsGuarded
  PROVE  Spec => []MixedInv
<1>1. Init => MixedInv
  BY NameAssumption, QueueAssumption DEF Init, MixedInv, TypeOK, PlaceInv, InLoop, Sleeping,
     Queue, NoLockOrphans, Sleepers
<1>2. MixedInv /\ [Next]_vars => MixedInv'
  BY InterruptsGuarded, MixedStep
<1> QED
  BY <1>1, <1>2, PTL DEF Spec

\* interruptible_sleep_on: the head that it makes runnable is there.
THEOREM NullIsNotWritten ==
  ASSUME InterruptsGuarded
  PROVE  Spec => []NoNullWrite
<1>1. MixedInv => NoNullWrite
  BY DEF MixedInv, PlaceInv, NoNullWrite
<1> QED
  BY <1>1, MixedInvariant, PTL

\* sleep_on: who sleeps for a lock is not forgotten, whatever stale pointers of
\* the interruptible sleeps make runnable.
THEOREM LockSleepersAreReachable ==
  ASSUME InterruptsGuarded
  PROVE  Spec => []NoLockOrphans
<1>1. MixedInv => NoLockOrphans
  BY DEF MixedInv
<1> QED
  BY <1>1, MixedInvariant, PTL

=============================================================================

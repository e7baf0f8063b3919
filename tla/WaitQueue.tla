------------------------------ MODULE WaitQueue ------------------------------
(***************************************************************************)
(* The sleep and wake primitives of kernel/sched.c (sleep_on,              *)
(* interruptible_sleep_on, wake_up, sys_pause) together with the loops     *)
(* around them: wait_on_buffer, lock_buffer, wait_on_inode, lock_inode,    *)
(* lock_super (sleep until a lock is free, then perhaps take it) and       *)
(* sleep_if_empty (sleep until input arrives or a signal is pending).      *)
(*                                                                         *)
(* A wait queue is one pointer *p.  The rest of the queue lives in the     *)
(* local variable tmp of every sleeper: whoever sleeps saves the old head  *)
(* and, once woken, wakes the task it saved.                               *)
(*                                                                         *)
(* The kernel is not preemptive: only `current' executes kernel code, and  *)
(* the processor is given away in schedule() alone.  Interrupt handlers    *)
(* run between any two steps of a task that has interrupts enabled.        *)
(* schedule() is abstracted to "some runnable task, the idle task if there *)
(* is none"; module Sched models how it chooses.                           *)
(***************************************************************************)
EXTENDS Naturals

CONSTANTS
  Task,        \* the tasks other than task 0
  Idle,        \* task 0, which never sleeps on a queue
  LockQueue,   \* wait queues of locks, slept on with sleep_on
  InputQueue,  \* tty queues, slept on with interruptible_sleep_on
  IrqQueue,    \* the queues whose event is signalled by an interrupt handler
  CliQueue,    \* the queues whose sleepers test and sleep with interrupts off
  Signalled,   \* the tasks that signals are sent to
  Device,      \* the holder of a locked buffer, the reason a tty is empty
  Null         \* the NULL pointer

Queue == LockQueue \cup InputQueue

ASSUME QueueAssumption ==
  /\ LockQueue \cap InputQueue = {}
  /\ InputQueue \subseteq IrqQueue
  /\ IrqQueue \subseteq Queue
  /\ CliQueue \subseteq Queue
  /\ Signalled \subseteq Task

ASSUME NameAssumption ==
  /\ Idle \notin Task /\ Device \notin Task /\ Null \notin Task
  /\ Device # Null

VARIABLES
  current,  \* the task that owns the processor
  state,    \* task_struct.state
  signal,   \* a signal that is not blocked is pending
  pc,       \* where the task is in the sleep code
  on,       \* the argument p of its sleep
  goal,     \* what it does once the wait is over
  tmp,      \* its local variable tmp
  head,     \* the pointer *p of every queue
  held      \* the lock, b_lock or i_lock, with its holder; EMPTY for a tty

vars == <<current, state, signal, pc, on, goal, tmp, head, held>>

Sleeping == {"INTERRUPTIBLE", "UNINTERRUPTIBLE"}

\* Between "test" and the return from sleep_on the task is inside the loop
\* while (condition) sleep_on(p).
InLoop == {"test", "enter", "link", "mark", "switch", "asleep", "kick"}

TypeOK ==
  /\ current \in Task \cup {Idle}
  /\ state \in [Task -> Sleeping \cup {"RUNNING", "ZOMBIE"}]
  /\ signal \in [Task -> BOOLEAN]
  /\ pc \in [Task -> InLoop \cup {"run", "pause", "dead"}]
  /\ on \in [Task -> Queue \cup {Null}]
  /\ goal \in [Task -> {"none", "wait", "lock", "read"}]
  /\ tmp \in [Task -> Task \cup {Null}]
  /\ head \in [Queue -> Task \cup {Null}]
  /\ held \in [Queue -> Task \cup {Device, Null}]

Init ==
  /\ current = Idle
  /\ state = [t \in Task |-> "RUNNING"]
  /\ signal = [t \in Task |-> FALSE]
  /\ pc = [t \in Task |-> "run"]
  /\ on = [t \in Task |-> Null]
  /\ goal = [t \in Task |-> "none"]
  /\ tmp = [t \in Task |-> Null]
  /\ head = [q \in Queue |-> Null]
  /\ held = [q \in Queue |-> IF q \in InputQueue THEN Device ELSE Null]

-----------------------------------------------------------------------------
(* schedule() and the interrupt flag.                                      *)

\* Mistake: a signal ends every sleep.
ScheduleWakesAll(s) ==
  LET awake == [t \in Task |-> IF s[t] \in Sleeping /\ signal[t]
                               THEN "RUNNING" ELSE s[t]]
      ready == {t \in Task : awake[t] = "RUNNING"}
  IN /\ state' = awake
     /\ current' \in IF ready = {} THEN {Idle} ELSE ready

\* schedule() first makes every interruptible sleeper with a pending signal
\* runnable, s being the states on entry, and then switches to a runnable task.
Schedule(s) ==
  LET awake == [t \in Task |-> IF s[t] = "INTERRUPTIBLE" /\ signal[t]
                               THEN "RUNNING" ELSE s[t]]
      ready == {t \in Task : awake[t] = "RUNNING"}
  IN /\ state' = awake
     /\ current' \in IF ready = {} THEN {Idle} ELSE ready

\* Mistake: nobody runs cli().
InterruptsAlwaysOn == TRUE

\* The interrupt flag is part of a task's saved flags: it is off exactly while
\* a task that runs cli() before its test is in the loop.
InterruptsOn == current \in Task => on[current] \notin CliQueue

\* t runs outside the sleep code.
Free(t) == current = t /\ pc[t] = "run"

At(t, l) == current = t /\ pc[t] = l

-----------------------------------------------------------------------------
(* Waiting: the loops around sleep_on and interruptible_sleep_on.          *)

\* wait_on_x and lock_x.  A task that holds a lock waits for an interrupt only
\* (write_inode locks the inode and then reads its block), never for a second
\* lock of a task.
Start(t, q, g) ==
  /\ Free(t)
  /\ q \in LockQueue => g \in {"wait", "lock"}
  /\ q \in InputQueue => g = "read"
  /\ (\E r \in Queue : held[r] = t) => q \in IrqQueue
  /\ pc' = [pc EXCEPT ![t] = "test"]
  /\ on' = [on EXCEPT ![t] = q]
  /\ goal' = [goal EXCEPT ![t] = g]
  /\ UNCHANGED <<current, state, signal, tmp, head, held>>

\* The condition of the while loop holds: sleep.
TestFails(t) ==
  /\ At(t, "test")
  /\ held[on[t]] # Null
  /\ goal[t] = "read" => ~signal[t]
  /\ pc' = [pc EXCEPT ![t] = "enter"]
  /\ UNCHANGED <<current, state, signal, on, goal, tmp, head, held>>

\* The loop is left.  A buffer that is locked is handed to its driver; input
\* that is taken leaves the tty empty again; a read that a signal ends takes
\* nothing.
TestHolds(t) ==
  LET q == on[t]
  IN /\ At(t, "test")
     /\ held[q] = Null \/ (goal[t] = "read" /\ signal[t])
     /\ held' = [held EXCEPT ![q] =
          CASE goal[t] = "lock" /\ q \notin IrqQueue -> t
            [] goal[t] = "lock" /\ q \in IrqQueue -> Device
            [] goal[t] = "read" /\ ~signal[t] -> Device
            [] OTHER -> @]
     /\ pc' = [pc EXCEPT ![t] = "run"]
     /\ on' = [on EXCEPT ![t] = Null]
     /\ goal' = [goal EXCEPT ![t] = "none"]
     /\ UNCHANGED <<current, state, signal, tmp, head>>

-----------------------------------------------------------------------------
(* sleep_on and interruptible_sleep_on, statement by statement.            *)

\* Mistake: tmp is not set.
EnterForgetsHead(t) ==
  /\ At(t, "enter")
  /\ pc' = [pc EXCEPT ![t] = "link"]
  /\ UNCHANGED <<current, state, signal, on, goal, tmp, head, held>>

\* tmp = *p
Enter(t) ==
  /\ At(t, "enter")
  /\ tmp' = [tmp EXCEPT ![t] = head[on[t]]]
  /\ pc' = [pc EXCEPT ![t] = "link"]
  /\ UNCHANGED <<current, state, signal, on, goal, head, held>>

\* *p = current
Link(t) ==
  /\ At(t, "link")
  /\ head' = [head EXCEPT ![on[t]] = t]
  /\ pc' = [pc EXCEPT ![t] = "mark"]
  /\ UNCHANGED <<current, state, signal, on, goal, tmp, held>>

\* Mistake: every sleep is interruptible.
MarkInterruptible(t) ==
  /\ At(t, "mark")
  /\ state' = [state EXCEPT ![t] = "INTERRUPTIBLE"]
  /\ pc' = [pc EXCEPT ![t] = "switch"]
  /\ UNCHANGED <<current, signal, on, goal, tmp, head, held>>

\* current->state = TASK_UNINTERRUPTIBLE, or the label repeat of the
\* interruptible version
Mark(t) ==
  /\ At(t, "mark")
  /\ state' = [state EXCEPT ![t] =
       IF on[t] \in InputQueue THEN "INTERRUPTIBLE" ELSE "UNINTERRUPTIBLE"]
  /\ pc' = [pc EXCEPT ![t] = "switch"]
  /\ UNCHANGED <<current, signal, on, goal, tmp, head, held>>

\* the call of schedule()
Switch(t) ==
  /\ At(t, "switch")
  /\ Schedule(state)
  /\ pc' = [pc EXCEPT ![t] = "asleep"]
  /\ UNCHANGED <<signal, on, goal, tmp, head, held>>

\* Mistake: the task that was saved is not woken.
WakeNobody(t) ==
  /\ tmp' = [tmp EXCEPT ![t] = Null]
  /\ pc' = [pc EXCEPT ![t] = "test"]
  /\ UNCHANGED <<current, state, signal, on, goal, held>>

\* The end of both functions: wake the task that was saved.
WakeSaved(t) ==
  /\ state' = IF tmp[t] = Null THEN state
              ELSE [state EXCEPT ![tmp[t]] = "RUNNING"]
  /\ tmp' = [tmp EXCEPT ![t] = Null]
  /\ pc' = [pc EXCEPT ![t] = "test"]
  /\ UNCHANGED <<current, signal, on, goal, held>>

\* sleep_on returns from schedule()
Return(t) ==
  /\ At(t, "asleep")
  /\ on[t] \in LockQueue
  /\ WakeSaved(t)
  /\ UNCHANGED head

\* interruptible_sleep_on returns from schedule() and finds a later sleeper
SeesOther(t) ==
  /\ At(t, "asleep")
  /\ on[t] \in InputQueue
  /\ head[on[t]] \notin {Null, t}
  /\ pc' = [pc EXCEPT ![t] = "kick"]
  /\ UNCHANGED <<current, state, signal, on, goal, tmp, head, held>>

\* (**p).state = 0; goto repeat.  A NULL *p here is a write through NULL; the
\* model leaves the tasks alone and NoNullWrite reports it.
Kick(t) ==
  /\ At(t, "kick")
  /\ state' = IF head[on[t]] = Null THEN state
              ELSE [state EXCEPT ![head[on[t]]] = "RUNNING"]
  /\ pc' = [pc EXCEPT ![t] = "mark"]
  /\ UNCHANGED <<current, signal, on, goal, tmp, head, held>>

\* interruptible_sleep_on returns from schedule() and leaves
IReturn(t) ==
  /\ At(t, "asleep")
  /\ on[t] \in InputQueue
  /\ head[on[t]] \in {Null, t}
  /\ head' = [head EXCEPT ![on[t]] = Null]
  /\ WakeSaved(t)

-----------------------------------------------------------------------------
(* Events.                                                                 *)

\* Mistake: the queue is emptied and nobody is woken.
WakeEmpties(q) ==
  /\ head' = [head EXCEPT ![q] = Null]
  /\ UNCHANGED state

\* if (p && *p) { (**p).state = 0; *p = NULL; }
wake_up(q) ==
  /\ state' = IF head[q] = Null THEN state
              ELSE [state EXCEPT ![head[q]] = "RUNNING"]
  /\ head' = [head EXCEPT ![q] = Null]

\* unlock_inode, free_super: the holder clears the lock and wakes the queue.
Unlock(t, q) ==
  /\ Free(t)
  /\ held[q] = t
  /\ held' = [held EXCEPT ![q] = Null]
  /\ wake_up(q)
  /\ UNCHANGED <<current, signal, pc, on, goal, tmp>>

\* unlock_buffer in end_request, copy_to_cooked: the same from an interrupt.
Interrupt(q) ==
  /\ InterruptsOn
  /\ q \in IrqQueue
  /\ held[q] = Device
  /\ held' = [held EXCEPT ![q] = Null]
  /\ wake_up(q)
  /\ UNCHANGED <<current, signal, pc, on, goal, tmp>>

\* tty_intr, or send_sig by another task.
Signal(t) ==
  /\ InterruptsOn
  /\ t \in Signalled /\ ~signal[t]
  /\ signal' = [signal EXCEPT ![t] = TRUE]
  /\ UNCHANGED <<current, state, pc, on, goal, tmp, head, held>>

\* ret_from_sys_call clears the bit and runs do_signal; the handler runs.
Deliver(t) ==
  /\ Free(t)
  /\ signal[t]
  /\ signal' = [signal EXCEPT ![t] = FALSE]
  /\ UNCHANGED <<current, state, pc, on, goal, tmp, head, held>>

-----------------------------------------------------------------------------
(* The other callers of schedule().                                        *)

sys_pause(t) ==
  /\ Free(t)
  /\ \A q \in Queue : held[q] # t
  /\ Schedule([state EXCEPT ![t] = "INTERRUPTIBLE"])
  /\ pc' = [pc EXCEPT ![t] = "pause"]
  /\ UNCHANGED <<signal, on, goal, tmp, head, held>>

PauseReturns(t) ==
  /\ At(t, "pause")
  /\ pc' = [pc EXCEPT ![t] = "run"]
  /\ UNCHANGED <<current, state, signal, on, goal, tmp, head, held>>

\* do_exit: the task becomes a zombie and calls schedule() for the last time.
do_exit(t) ==
  /\ Free(t)
  /\ \A q \in Queue : held[q] # t
  /\ Schedule([state EXCEPT ![t] = "ZOMBIE"])
  /\ pc' = [pc EXCEPT ![t] = "dead"]
  /\ UNCHANGED <<signal, on, goal, tmp, head, held>>

\* Should a stale pointer make a zombie runnable, do_exit returns -1 and the
\* task is back in user mode, its memory and files gone.
ExitReturns(t) ==
  /\ At(t, "dead")
  /\ pc' = [pc EXCEPT ![t] = "run"]
  /\ UNCHANGED <<current, state, signal, on, goal, tmp, head, held>>

\* do_timer in user mode when the time slice is used up, the end of a system
\* call, release() in sys_waitpid, and task 0, which does nothing but call
\* pause() in a loop.
Reschedule ==
  /\ current \in Task => Free(current) /\ \A q \in Queue : held[q] # current
  /\ Schedule(state)
  /\ UNCHANGED <<signal, pc, on, goal, tmp, head, held>>

-----------------------------------------------------------------------------

Step(t) ==
  \/ TestFails(t) \/ TestHolds(t)
  \/ Enter(t) \/ Link(t) \/ Mark(t) \/ Switch(t)
  \/ Return(t) \/ SeesOther(t) \/ Kick(t) \/ IReturn(t)
  \/ PauseReturns(t) \/ ExitReturns(t)

Next ==
  \/ \E t \in Task :
       \/ Step(t)
       \/ \E q \in Queue : Unlock(t, q)
       \/ \E q \in Queue, g \in {"wait", "lock", "read"} : Start(t, q, g)
       \/ Signal(t) \/ Deliver(t) \/ sys_pause(t) \/ do_exit(t)
  \/ \E q \in Queue : Interrupt(q)
  \/ Reschedule

Spec == Init /\ [][Next]_vars

\* A task that owns the processor goes on; no runnable task waits for the
\* processor for ever (module Sched: NoStarvation); the interrupt of a finished
\* transfer stays pending until interrupts are on; and a holder, which waits
\* for finitely many blocks while it holds the lock, releases it.
Fairness ==
  /\ WF_vars(\E t \in Task : Step(t))
  /\ \A t \in Task : SF_vars(Next /\ current # t /\ current' = t)
  /\ \A q \in IrqQueue : SF_vars(Interrupt(q))
  /\ \A q \in LockQueue \ IrqQueue : SF_vars(\E t \in Task : Unlock(t, q))

FairSpec == Spec /\ Fairness

-----------------------------------------------------------------------------
(* Properties.                                                             *)

\* The tasks that wait in schedule() inside sleep_on.
Sleepers == {t \in Task : pc[t] = "asleep" /\ state[t] \in Sleeping}

\* Someone outside S will wake t: a queue whose head it is, or a task that
\* saved t in its tmp.
WokenFromOutside(t, S) ==
  \/ \E q \in Queue : head[q] = t
  \/ \E u \in Task \ S : tmp[u] = t

\* No sleeper is forgotten (sched.c:151-194): every set of sleepers, however
\* the tmp pointers link them to one another, has a member that a queue head
\* or a task outside the set refers to.  A task that fell off its queue, or a
\* ring of sleepers that only wait for each other, would violate it.
NoOrphans ==
  \A S \in SUBSET Sleepers : S # {} => \E t \in S : WokenFromOutside(t, S)

\* The same for the sleepers of the locks alone.  It must survive what the
\* interruptible queues do to them: a lock waiter that a stale tmp makes
\* runnable sleeps again, is then on its queue twice, and saves itself or a
\* task behind it.
NoLockOrphans ==
  \A S \in SUBSET {t \in Sleepers : on[t] \in LockQueue} :
    S # {} => \E t \in S : WokenFromOutside(t, S)

\* A sleeper is never left behind by the event it waits for (wait_on_buffer,
\* lock_inode): a queue that is not empty guards a lock that is still held, so
\* that an unlock is still to come.
NoLostWakeup ==
  \A q \in LockQueue : head[q] # Null => held[q] # Null

\* tmp is never stale: the task a sleeper saved still sleeps on the same queue
\* when the sleeper comes to wake it (sched.c:163 writes state through tmp
\* without any test).
SavedStillSleeps ==
  \A t \in Task : tmp[t] # Null =>
    /\ pc[tmp[t]] = "asleep" /\ on[tmp[t]] = on[t]
    /\ state[tmp[t]] \in Sleeping

\* An uninterruptible sleeper is made runnable only by its own queue: by
\* wake_up of the queue it heads, or by the sleeper of the same queue that
\* saved it.
OnlyOwnQueueWakes ==
  [][\A t \in Task : state[t] = "UNINTERRUPTIBLE" /\ state'[t] = "RUNNING" =>
       \/ head[on[t]] = t /\ head'[on[t]] = Null
       \/ \E u \in Task : tmp[u] = t /\ tmp'[u] = Null /\ on[u] = on[t]]_vars

\* A zombie is never made runnable again: do_exit's last schedule() does not
\* return (exit.c: "just to suppress warnings").
ZombieStaysDead ==
  \A t \in Task : pc[t] = "dead" => state[t] = "ZOMBIE"

\* pause() returns only to a task that got a signal (main.c: "we have to get a
\* signal to awaken").
PauseNeedsSignal ==
  [][\A t \in Task : PauseReturns(t) => signal[t]]_vars

\* (**p).state = 0 in interruptible_sleep_on never goes through NULL: between
\* the test of *p and the write no interrupt may empty the queue.
NoNullWrite ==
  \A t \in Task : pc[t] = "kick" => head[on[t]] # Null

-----------------------------------------------------------------------------
(* The pointers implement a set of waiters.                                *)

\* The tasks that head and the tmp pointers lead to: the least set that
\* contains the head and is closed under tmp.
Linked(q) ==
  {t \in Task : \A S \in SUBSET Task :
     head[q] \in S /\ (\A u \in S : tmp[u] \in S \cup {Null}) => t \in S}

Waiting == [q \in LockQueue |-> IF head[q] = Null THEN {} ELSE Linked(q)]

\* On its queue, but no longer linked to it: woken, directly or in the chain.
Released ==
  {t \in Task : pc[t] \in {"mark", "switch", "asleep"} /\ on[t] \in LockQueue}
    \ UNION {Waiting[q] : q \in LockQueue}

Set == INSTANCE WaitSet WITH Queue <- LockQueue,
                             waiting <- Waiting, released <- Released

\* The wait queues of the locks implement a set of waiters that is woken as a
\* whole: wake_up of the one task at the head releases everyone who slept, and
\* everyone released resumes.
ImplementsWaitSet == Set!Spec

\* A task that sleeps for a lock is made runnable again, wherever it stands in
\* the chain, if only the holder of the lock comes back from its own sleeps
\* from time to time.  (Locks are not fair: a holder can lose the buffer it
\* waits for to other tasks for ever, and then so do all who wait for it.)
SleepersWake ==
  \A q \in LockQueue :
    []<>(\A u \in Task : held[q] = u => Free(u))
      => \A t \in Task : t \in Sleepers /\ on[t] = q ~> state[t] = "RUNNING"

=============================================================================

-------------------------------- MODULE Sched --------------------------------
(***************************************************************************)
(* The scheduler: schedule(), do_timer(), sys_alarm(), sys_nice() and      *)
(* sys_pause() of kernel/sched.c, and the paths of kernel/system_call.s    *)
(* that call them: the timer interrupt, the check at the end of every      *)
(* system call and the delivery of signals on the way back to user mode.   *)
(*                                                                         *)
(* Time is the number of clock ticks.  Instead of jiffies growing for      *)
(* ever, an alarm is the number of ticks left until it is overdue          *)
(* (alarm < jiffies).  What a system call does besides scheduling is a     *)
(* choice: it blocks on some wait queue, or not (module WaitQueue).        *)
(***************************************************************************)
EXTENDS Integers

CONSTANTS
  NTask,        \* NR_TASKS - 1: the slots of task[] besides task 0
  InitPriority, \* the priority of init, which children inherit
  MaxPriority,  \* bound: how far programs raise a priority (Moderate)
  Increments,   \* the arguments of sys_nice
  Seconds,      \* the arguments of sys_alarm
  HZ,           \* clock ticks in a second
  MaxLong       \* the largest long

ASSUME SchedAssumption ==
  /\ NTask \in Nat \ {0}
  /\ InitPriority \in Nat \ {0}
  /\ MaxPriority \in Nat /\ InitPriority <= MaxPriority
  /\ Increments \subseteq -MaxLong - 1 .. MaxLong
  /\ Seconds \subseteq Int
  /\ HZ \in Nat \ {0}
  /\ MaxLong \in Nat /\ MaxPriority <= MaxLong

Task == 1 .. NTask
Idle == 0         \* task 0
NoAlarm == -1     \* task_struct.alarm is 0

VARIABLES
  current,   \* the task that owns the processor
  state,     \* task_struct.state, NONE for an empty slot
  counter,   \* the ticks left of its time slice
  priority,  \* what a new time slice is made of
  alarm,     \* the ticks until SIGALRM is due, or NoAlarm
  signalled, \* a signal that is not blocked is pending
  mode       \* user mode, in a system call, at its end, about to iret

sched_vars == <<current, state, counter, priority, alarm, signalled, mode>>

States == {"NONE", "RUNNING", "INTERRUPTIBLE", "UNINTERRUPTIBLE", "ZOMBIE"}

SchedTypeOK ==
  /\ current \in Task \cup {Idle}
  /\ state \in [Task \cup {Idle} -> States]
  /\ counter \in [Task \cup {Idle} -> Int]
  /\ priority \in [Task -> 1 .. MaxLong]
  /\ alarm \in [Task -> Nat \cup {NoAlarm}]
  /\ signalled \in [Task -> BOOLEAN]
  /\ mode \in [Task \cup {Idle} -> {"user", "syscall", "exit", "iret"}]

\* main() has forked init; INIT_TASK gives task 0 a time slice like any other.
SchedInit ==
  /\ current = Idle
  /\ state = [t \in Task \cup {Idle} |-> IF t <= 1 THEN "RUNNING" ELSE "NONE"]
  /\ counter = [t \in Task \cup {Idle} |-> IF t <= 1 THEN InitPriority ELSE 0]
  /\ priority = [t \in Task |-> InitPriority]
  /\ alarm = [t \in Task |-> NoAlarm]
  /\ signalled = [t \in Task |-> FALSE]
  /\ mode = [t \in Task \cup {Idle} |-> "user"]

-----------------------------------------------------------------------------
(* schedule()                                                              *)

\* Two's complement: the result of an addition that is not too small for a long.
Wrap(n) == IF n > MaxLong THEN n - 2 * (MaxLong + 1) ELSE n

\* Mistake: the old counter is not halved.
RecomputeUnhalved(s, c) ==
  [t \in Task \cup {Idle} |->
     IF t # Idle /\ s[t] # "NONE" THEN Wrap(c[t] + priority[t]) ELSE c[t]]

\* counter = (counter >> 1) + priority, for every slot in use but task 0.
Recompute(s, c) ==
  [t \in Task \cup {Idle} |->
     IF t # Idle /\ s[t] # "NONE" THEN Wrap(c[t] \div 2 + priority[t])
     ELSE c[t]]

\* Mistake: c starts at 0.
ReadyWithTicks(s, c) == {t \in Task : s[t] = "RUNNING" /\ c[t] > 0}

\* The scan looks at runnable tasks only, and its c starts at -1.
Ready(s, c) == {t \in Task : s[t] = "RUNNING" /\ c[t] > -1}

\* It runs from the last slot down to the first and replaces its choice by a
\* larger counter only; next starts at 0.
Choice(s, c) ==
  IF Ready(s, c) = {} THEN {Idle}
  ELSE {t \in Ready(s, c) : \A u \in Ready(s, c) :
          c[u] < c[t] \/ (c[u] = c[t] /\ u <= t)}

\* Mistake: nobody gets a new time slice.
NeverExhausted(s, c) == FALSE

\* It found a task, but nobody has a tick left.
Exhausted(s, c) ==
  Ready(s, c) # {} /\ \A t \in Ready(s, c) : c[t] = 0

\* Mistake: signals are looked at for the current task alone.
ScheduleDeaf(s, c, a) ==
  LET due == {t \in Task : s[t] # "NONE" /\ a[t] = 0}
      awake == [t \in Task \cup {Idle} |->
                  IF /\ t = current /\ t # Idle
                     /\ s[t] = "INTERRUPTIBLE" /\ signalled[t]
                  THEN "RUNNING" ELSE s[t]]
      slices == IF Exhausted(awake, c) THEN Recompute(awake, c) ELSE c
  IN /\ alarm' = [t \in Task |-> IF t \in due THEN NoAlarm ELSE a[t]]
     /\ signalled' = [t \in Task |-> signalled[t] \/ t \in due]
     /\ state' = awake
     /\ counter' = slices
     /\ current' \in Choice(awake, slices)

\* Called with task states s, counters c and alarms a.  Priorities are
\* positive, so that the loop computes the counters at most once.
Schedule(s, c, a) ==
  LET due == {t \in Task : s[t] # "NONE" /\ a[t] = 0}
      sig == [t \in Task |-> signalled[t] \/ t \in due]
      awake == [t \in Task \cup {Idle} |->
                  IF t # Idle /\ s[t] = "INTERRUPTIBLE" /\ sig[t]
                  THEN "RUNNING" ELSE s[t]]
      slices == IF Exhausted(awake, c) THEN Recompute(awake, c) ELSE c
  IN /\ alarm' = [t \in Task |-> IF t \in due THEN NoAlarm ELSE a[t]]
     /\ signalled' = sig
     /\ state' = awake
     /\ counter' = slices
     /\ current' \in Choice(awake, slices)

-----------------------------------------------------------------------------
(* The clock.                                                              *)

\* Every alarm that has not been noticed comes a tick nearer; it stays overdue.
Elapse == [t \in Task |-> IF alarm[t] > 0 THEN alarm[t] - 1 ELSE alarm[t]]

\* timer_interrupt and do_timer in kernel mode: the slice may end, nothing is
\* scheduled.
TickInKernel ==
  /\ mode[current] # "user"
  /\ alarm' = Elapse
  /\ counter' = [counter EXCEPT ![current] = IF @ - 1 > 0 THEN @ - 1 ELSE 0]
  /\ UNCHANGED <<current, state, priority, signalled, mode>>

\* In user mode: the task is rescheduled when its slice ends, and leaves by
\* ret_from_sys_call either way.
TickInUser ==
  LET left == IF counter[current] - 1 > 0 THEN counter[current] - 1 ELSE 0
      c == [counter EXCEPT ![current] = left]
  IN /\ mode[current] = "user"
     /\ mode' = [mode EXCEPT ![current] = "iret"]
     /\ IF left > 0
        THEN /\ alarm' = Elapse
             /\ counter' = c
             /\ UNCHANGED <<current, state, signalled>>
        ELSE Schedule(state, c, Elapse)
     /\ UNCHANGED priority

-----------------------------------------------------------------------------
(* System calls.                                                           *)

At(t, l) == current = t /\ mode[t] = l

system_call(t) ==
  /\ At(t, "user")
  /\ mode' = [mode EXCEPT ![t] = "syscall"]
  /\ UNCHANGED <<current, state, counter, priority, alarm, signalled>>

\* A call that neither blocks nor touches the scheduler.
Other(t) ==
  /\ At(t, "syscall") /\ t # Idle
  /\ mode' = [mode EXCEPT ![t] = "exit"]
  /\ UNCHANGED <<current, state, counter, priority, alarm, signalled>>

\* sleep_on or interruptible_sleep_on somewhere in a call.
Block(t, s) ==
  /\ At(t, "syscall") /\ t # Idle
  /\ Schedule([state EXCEPT ![t] = s], counter, alarm)
  /\ UNCHANGED <<priority, mode>>

\* The only call task 0 makes.
sys_pause(t) ==
  /\ At(t, "syscall")
  /\ Schedule([state EXCEPT ![t] = "INTERRUPTIBLE"], counter, alarm)
  /\ mode' = [mode EXCEPT ![t] = "exit"]
  /\ UNCHANGED priority

\* A sum that does not fit in a long is negative, and refused.  init's program
\* calls neither this nor sys_alarm (main.c:171-212).
sys_nice(t, increment) ==
  LET new == Wrap(priority[t] - increment)
  IN /\ At(t, "syscall") /\ t \notin {Idle, 1}
     /\ priority' = [priority EXCEPT ![t] = IF new > 0 THEN new ELSE @]
     /\ mode' = [mode EXCEPT ![t] = "exit"]
     /\ UNCHANGED <<current, state, counter, alarm, signalled>>

\* Overdue is "alarm < jiffies", one tick after HZ * seconds.
sys_alarm(t, seconds) ==
  /\ At(t, "syscall") /\ t \notin {Idle, 1}
  /\ alarm' = [alarm EXCEPT ![t] =
                 IF seconds > 0 THEN HZ * seconds + 1 ELSE NoAlarm]
  /\ mode' = [mode EXCEPT ![t] = "exit"]
  /\ UNCHANGED <<current, state, counter, priority, signalled>>

\* copy_process: the child gets a full slice and no alarm or signal.
copy_process(t, child) ==
  /\ At(t, "syscall") /\ t # Idle
  /\ state[child] = "NONE"
  /\ state' = [state EXCEPT ![child] = "RUNNING"]
  /\ counter' = [counter EXCEPT ![child] = priority[t]]
  /\ priority' = [priority EXCEPT ![child] = priority[t]]
  /\ alarm' = [alarm EXCEPT ![child] = NoAlarm]
  /\ signalled' = [signalled EXCEPT ![child] = FALSE]
  /\ mode' = [mode EXCEPT ![t] = "exit", ![child] = "user"]
  /\ UNCHANGED current

\* sys_waitpid frees the slot of a zombie child, whose contents are gone, and
\* calls schedule() although the task stays runnable.
Reap(t, child) ==
  /\ At(t, "syscall") /\ t # Idle
  /\ state[child] = "ZOMBIE"
  /\ Schedule([state EXCEPT ![child] = "NONE"], [counter EXCEPT ![child] = 0],
              [alarm EXCEPT ![child] = NoAlarm])
  /\ priority' = [priority EXCEPT ![child] = InitPriority]
  /\ mode' = [mode EXCEPT ![t] = "exit", ![child] = "user"]

\* init never exits.
do_exit(t) ==
  /\ At(t, "syscall") /\ t \notin {Idle, 1}
  /\ Schedule([state EXCEPT ![t] = "ZOMBIE"], counter, alarm)
  /\ UNCHANGED <<priority, mode>>

\* The end of system_call: schedule again if the task is not runnable or its
\* slice is used up.
SyscallExit(t) ==
  /\ At(t, "exit")
  /\ mode' = [mode EXCEPT ![t] = "iret"]
  /\ IF state[t] # "RUNNING" \/ counter[t] = 0
     THEN Schedule(state, counter, alarm)
     ELSE UNCHANGED <<current, state, counter, alarm, signalled>>
  /\ UNCHANGED priority

\* Back to user mode, with the handler of a pending signal run first.
ret_from_sys_call(t) ==
  /\ At(t, "iret")
  /\ mode' = [mode EXCEPT ![t] = "user"]
  /\ IF t = Idle THEN UNCHANGED signalled
                 ELSE signalled' = [signalled EXCEPT ![t] = FALSE]
  /\ UNCHANGED <<current, state, counter, priority, alarm>>

\* do_signal of a signal without a handler ends in do_exit.
do_signal(t) ==
  /\ At(t, "iret") /\ t \notin {Idle, 1}
  /\ signalled[t]
  /\ mode' = [mode EXCEPT ![t] = "syscall"]
  /\ Schedule([state EXCEPT ![t] = "ZOMBIE"], counter, alarm)
  /\ UNCHANGED priority

-----------------------------------------------------------------------------
(* Events from outside.                                                    *)

\* wake_up of the queue a task sleeps on.  A task in sys_pause is on none.
Wake(t) ==
  /\ state[t] \in {"INTERRUPTIBLE", "UNINTERRUPTIBLE"}
  /\ mode[t] = "syscall"
  /\ state' = [state EXCEPT ![t] = "RUNNING"]
  /\ UNCHANGED <<current, counter, priority, alarm, signalled, mode>>

\* sys_kill, tell_father, tty_intr.
send_sig(t) ==
  /\ state[t] \notin {"NONE", "ZOMBIE"}
  /\ ~signalled[t]
  /\ signalled' = [signalled EXCEPT ![t] = TRUE]
  /\ UNCHANGED <<current, state, counter, priority, alarm, mode>>

-----------------------------------------------------------------------------

Call(t) ==
  \/ Other(t)
  \/ \E s \in {"INTERRUPTIBLE", "UNINTERRUPTIBLE"} : Block(t, s)
  \/ sys_pause(t)
  \/ \E i \in Increments : sys_nice(t, i)
  \/ \E s \in Seconds : sys_alarm(t, s)
  \/ \E child \in Task : copy_process(t, child) \/ Reap(t, child)
  \/ do_exit(t)

Leave(t) == SyscallExit(t) \/ ret_from_sys_call(t) \/ do_signal(t)

Tick == TickInKernel \/ TickInUser

SchedNext ==
  \/ Tick
  \/ \E t \in Task \cup {Idle} : system_call(t) \/ Call(t) \/ Leave(t)
  \/ \E t \in Task : Wake(t) \/ send_sig(t)

SchedSpec == SchedInit /\ [][SchedNext]_sched_vars

\* The clock ticks for ever, and kernel code runs on.  A task in user mode may
\* stay there; a sleeper may sleep for ever.
SchedFairness ==
  /\ WF_sched_vars(Tick)
  /\ WF_sched_vars(\E t \in Task \cup {Idle} : Call(t) \/ Leave(t))

\* Programs raise no priority above the bound.  The code has no such bound.
Moderate == \A t \in Task : priority[t] <= MaxPriority

SchedModerateSpec ==
  SchedInit /\ [][SchedNext /\ Moderate']_sched_vars /\ SchedFairness

-----------------------------------------------------------------------------
(* Properties.                                                             *)

\* The reward of a task that sleeps is bounded (sched.c:138): however often
\* its counter is halved and added to, no time slice reaches twice the highest
\* priority, and none is negative.  (Of programs that stay below the bound.)
CounterBound ==
  \A t \in Task : counter[t] \in 0 .. 2 * MaxPriority - 1

\* Task 0 gets the processor only when no other task can run (sched.c:100-101:
\* "gets called when no other tasks can run").  It fails without a bound on
\* priorities: a counter that overflows is below the c that the scan starts at.
IdleOnlyWhenNoneCanRun ==
  [][current # Idle /\ current' = Idle
       => \A t \in Task : state'[t] # "RUNNING"]_sched_vars

\* A task that can run gets the processor (schedule.md: no task starves).
NoStarvation ==
  \A t \in Task : state[t] = "RUNNING" ~> current = t \/ state[t] # "RUNNING"

\* The same, unless processes are created for ever.
NoStarvationWithoutForks ==
  <>[][\A t, child \in Task : ~copy_process(t, child)]_sched_vars
    => NoStarvation

\* Only schedule() looks for alarms and signals (sched.c:111-120), and it is
\* not called at every tick.  Still an overdue alarm becomes a signal, and a
\* signal ends an interruptible sleep.
SignalsAreNoticed ==
  \A t \in Task :
    /\ alarm[t] = 0 ~> alarm[t] # 0
    /\ state[t] = "INTERRUPTIBLE" /\ signalled[t] ~> state[t] # "INTERRUPTIBLE"

=============================================================================

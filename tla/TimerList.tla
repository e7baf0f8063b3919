------------------------------ MODULE TimerList ------------------------------
(***************************************************************************)
(* The kernel timers of kernel/sched.c: add_timer() and the part of        *)
(* do_timer() that runs them.  The list is a delta list: each entry holds  *)
(* the ticks between the one before it and itself, and the clock counts    *)
(* down the first entry only.                                              *)
(*                                                                         *)
(* Both run with interrupts off, but add_timer() ends with sti(): when a   *)
(* timer function calls it, the next tick may interrupt the loop of        *)
(* do_timer().                                                             *)
(***************************************************************************)
EXTENDS Integers, Sequences

CONSTANTS
  Fn,             \* the functions that timers are set for
  Delay,          \* the delays that are asked for
  TIME_REQUESTS   \* the size of the table

ASSUME TimerAssumption ==
  /\ Delay \subseteq Nat
  /\ TIME_REQUESTS \in Nat \ {0}

VARIABLES
  list,      \* the entries from next_timer on
  loop,      \* do_timer is in its loop
  callback,  \* and in the function of a timer
  sti,       \* that has called add_timer
  wanted     \* history: the ticks left until a function should run, or Unset

vars == <<list, loop, callback, sti, wanted>>

Unset == -1

Entry == [fn : Fn, jiffies : Int]

TypeOK ==
  /\ list \in Seq(Entry)
  /\ loop \in BOOLEAN /\ callback \in BOOLEAN /\ sti \in BOOLEAN
  /\ wanted \in [Fn -> Nat \cup {Unset}]

Init ==
  /\ list = << >>
  /\ loop = FALSE /\ callback = FALSE /\ sti = FALSE
  /\ wanted = [f \in Fn |-> Unset]

-----------------------------------------------------------------------------

\* Mistake: p->next is not set to the list before p becomes its head.
InsertUnlinked(e, l) == <<e>>

RECURSIVE Insert(_, _)
\* The loop of add_timer: the new entry moves behind every entry that is
\* smaller, and gets smaller by it.  The entry it stops at keeps its delta.
Insert(e, l) ==
  IF l # << >> /\ Head(l).jiffies < e.jiffies
  THEN <<Head(l)>>
         \o Insert([e EXCEPT !.jiffies = @ - Head(l).jiffies], Tail(l))
  ELSE <<e>> \o l

\* Called by a driver, or by the function of a timer.  Without a delay the
\* function runs at once; a full table is a panic.
add_timer(jiffies, fn) ==
  /\ loop => callback
  /\ wanted[fn] = Unset
  /\ IF jiffies = 0
     THEN UNCHANGED <<list, wanted>>
     ELSE /\ Len(list) < TIME_REQUESTS
          /\ list' = Insert([fn |-> fn, jiffies |-> jiffies], list)
          /\ wanted' = [wanted EXCEPT ![fn] = jiffies]
  /\ sti' = callback
  /\ UNCHANGED <<loop, callback>>

\* Mistake: every entry counts down.
TickAll ==
  /\ loop => callback /\ sti
  /\ list # << >>
  /\ list' = [n \in DOMAIN list |-> [list[n] EXCEPT !.jiffies = @ - 1]]
  /\ wanted' = [f \in Fn |-> IF wanted[f] > 0 THEN wanted[f] - 1 ELSE wanted[f]]
  /\ loop' = TRUE
  /\ callback' = FALSE /\ sti' = FALSE

\* do_timer up to its loop.
Tick ==
  /\ loop => callback /\ sti
  /\ list # << >>
  /\ list' = [list EXCEPT ![1].jiffies = @ - 1]
  /\ wanted' = [f \in Fn |-> IF wanted[f] > 0 THEN wanted[f] - 1 ELSE wanted[f]]
  /\ loop' = TRUE
  /\ callback' = FALSE /\ sti' = FALSE

\* The condition of the loop.
Due == list # << >> /\ Head(list).jiffies <= 0

\* The first entry is due: it is unlinked, its slot is free, its function runs.
Fire ==
  /\ loop /\ ~callback
  /\ Due
  /\ list' = Tail(list)
  /\ wanted' = [wanted EXCEPT ![Head(list).fn] = Unset]
  /\ callback' = TRUE /\ sti' = FALSE
  /\ UNCHANGED loop

\* The function returns.
CallbackReturns ==
  /\ callback
  /\ callback' = FALSE /\ sti' = FALSE
  /\ UNCHANGED <<list, loop, wanted>>

LoopEnds ==
  /\ loop /\ ~callback
  /\ ~Due
  /\ loop' = FALSE
  /\ UNCHANGED <<list, callback, sti, wanted>>

Next ==
  \/ \E jiffies \in Delay, fn \in Fn : add_timer(jiffies, fn)
  \/ Tick \/ Fire \/ CallbackReturns \/ LoopEnds

Spec == Init /\ [][Next]_vars

\* The clock ticks and do_timer runs on.
FairSpec ==
  Spec /\ WF_vars(Tick) /\ WF_vars(Fire \/ CallbackReturns \/ LoopEnds)

-----------------------------------------------------------------------------
(* Properties.                                                             *)

RECURSIVE DeltaSum(_)
DeltaSum(l) == IF l = << >> THEN 0 ELSE Head(l).jiffies + DeltaSum(Tail(l))

\* No timer runs early (sched.c:291-300): wherever later calls put other
\* entries, the deltas up to an entry add up to the ticks it was set for at
\* least.  (Not to exactly as many: an entry that is put in front of another
\* delays it.)
NeverEarly ==
  \A n \in 1 .. Len(list) :
    DeltaSum(SubSeq(list, 1, n)) >= wanted[list[n].fn]

\* The list is well-typed, and it holds the timers that are set and no other,
\* although a tick may interrupt the loop that takes them off.
EveryTimerIsListed ==
  /\ TypeOK
  /\ \A f \in Fn :
       (wanted[f] # Unset) <=> \E n \in 1 .. Len(list) : list[n].fn = f

\* Both: add_timer and do_timer keep every entry, and its time.
TimersAreKept == NeverEarly /\ EveryTimerIsListed

\* A timer runs in the end, once no timers are added in front of it for ever.
TimersRun ==
  <>[][\A f \in Fn : wanted[f] = Unset => wanted'[f] = Unset]_vars
    => \A f \in Fn : wanted[f] # Unset ~> wanted[f] = Unset

=============================================================================

------------------------------ MODULE BlkQueue ------------------------------
(***************************************************************************)
(* The request table of the block devices: make_request() and              *)
(* add_request() of kernel/blk_drv/ll_rw_blk.c, end_request() and the      *)
(* IN_ORDER elevator of kernel/blk_drv/blk.h, and the hard disk driver     *)
(* kernel/blk_drv/hd.c: a request is a transfer of two sectors, each of    *)
(* which may fail, is tried again, and brings a reset and a recalibration. *)
(*                                                                         *)
(* A buffer stands for the block it caches: buffers are numbered in the    *)
(* order (device, sector) that the elevator sorts by.  Waiting for a       *)
(* locked buffer is the guard of an action (module WaitQueue shows that    *)
(* sleep_on implements it); waiting for a free request is modelled in      *)
(* full, because make_request tests and sleeps with interrupts on.         *)
(*                                                                         *)
(* The disk brings one interrupt for every command it takes: hd.c has no   *)
(* time-out.  A write that shows no DRQ brings none.                       *)
(***************************************************************************)
EXTENDS Integers, Sequences, FiniteSets

CONSTANTS
  Task,        \* the tasks that call ll_rw_block
  NR_REQUEST,  \* the size of the request table
  NBuf,        \* the number of buffers
  Calls,       \* who may ask for what: triples task, rw, buffer
  MAX_ERRORS,  \* the errors that end a request
  Bad,         \* buffers whose block lies beyond the end of the partition
  Last,        \* those whose second sector is the last of the partition
  Fails,       \* those with which the disk may report errors
  None

Buf == 1 .. NBuf
Slot == 0 .. NR_REQUEST - 1
RW == {"READ", "WRITE", "READA"}

SECTORS == 2   \* of a block

Request == [cmd : {"READ", "WRITE"}, bh : Buf, errors : 0 .. MAX_ERRORS - 1,
            nr_sectors : 1 .. SECTORS]

Arguments == [rw : RW, bh : Buf]

ASSUME BlkAssumption ==
  /\ NR_REQUEST \in Nat \ {0} /\ NBuf \in Nat
  /\ MAX_ERRORS \in Nat \ {0}
  /\ Bad \subseteq Buf /\ Last \subseteq Buf /\ Fails \subseteq Buf
  /\ Calls \subseteq Task \X RW \X Buf
  /\ None \notin Task \cup Slot \cup Request \cup Arguments

VARIABLES
  cpu,       \* the task that runs kernel code, which nobody preempts
  pc,        \* where each task is in make_request
  arg,       \* its arguments rw and bh
  slot,      \* the request it has found
  req,       \* the request table, None when dev < 0
  queue,     \* the requests of the disk, current_request first
  lock,      \* b_lock of each buffer
  dirt,      \* b_dirt
  uptodate,  \* b_uptodate
  driver,    \* "run" in do_hd_request, else what do_hd waits for, or "idle"
  reset,     \* the controller is to be reset
  recalibrate

bufs == <<lock, dirt, uptodate>>
flags == <<reset, recalibrate>>
disk == <<driver, flags>>
vars == <<cpu, pc, arg, slot, req, queue, bufs, disk>>

TypeOK ==
  /\ cpu \in Task \cup {None}
  /\ pc \in [Task -> {"user", "lock", "locked", "scan", "sleep", "asleep",
                      "add"}]
  /\ arg \in [Task -> Arguments \cup {None}]
  /\ slot \in [Task -> Slot \cup {None}]
  /\ req \in [Slot -> Request \cup {None}]
  /\ queue \in Seq(Slot)
  /\ lock \in [Buf -> BOOLEAN]
  /\ dirt \in [Buf -> BOOLEAN]
  /\ uptodate \in [Buf -> BOOLEAN]
  /\ driver \in {"idle", "run", "READ", "WRITE", "recal"}
  /\ reset \in BOOLEAN /\ recalibrate \in BOOLEAN

Init ==
  /\ cpu = None
  /\ pc = [t \in Task |-> "user"]
  /\ arg = [t \in Task |-> None]
  /\ slot = [t \in Task |-> None]
  /\ req = [s \in Slot |-> None]
  /\ queue = << >>
  /\ lock = [b \in Buf |-> FALSE]
  /\ dirt = [b \in Buf |-> FALSE]
  /\ uptodate = [b \in Buf |-> FALSE]
  /\ driver = "idle" /\ reset = FALSE /\ recalibrate = FALSE

-----------------------------------------------------------------------------
(* The elevator.                                                           *)

\* IN_ORDER(s1,s2): reads before writes, then by device and sector.
InOrder(r1, r2) ==
  \/ r1.cmd = "READ" /\ r2.cmd = "WRITE"
  \/ r1.cmd = r2.cmd /\ r1.bh < r2.bh

\* The condition of the loop in add_request, tmp being the i-th request.
FitsAfter(q, i, r) ==
  /\ InOrder(req[q[i]], r) \/ ~InOrder(req[q[i]], req[q[i + 1]])
  /\ InOrder(r, req[q[i + 1]])

\* The loop stops at the first place that fits, or at the last request.
InsertAt(q, r) ==
  CHOOSE i \in 1 .. Len(q) :
    /\ i = Len(q) \/ FitsAfter(q, i, r)
    /\ \A j \in 1 .. i - 1 : ~FitsAfter(q, j, r)

\* Mistake: req->next is not set.
InsertLoses(q, s, r) == SubSeq(q, 1, InsertAt(q, r)) \o <<s>>

InsertRequest(q, s, r) ==
  LET i == InsertAt(q, r)
  IN SubSeq(q, 1, i) \o <<s>> \o SubSeq(q, i + 1, Len(q))

-----------------------------------------------------------------------------
(* The end of a request.                                                   *)

Slots(q) == {q[i] : i \in DOMAIN q}

CURRENT == req[Head(queue)]

\* end_request: the buffer is unlocked, the slot free, the next request is the
\* current one, and whoever sleeps for a request is woken.
end_request(good) ==
  LET b == CURRENT.bh
  IN /\ req' = [req EXCEPT ![Head(queue)] = None]
     /\ queue' = Tail(queue)
     /\ lock' = [lock EXCEPT ![b] = FALSE]
     /\ uptodate' = [uptodate EXCEPT ![b] = good]
     /\ pc' = [t \in Task |-> IF pc[t] = "asleep" THEN "scan" ELSE pc[t]]
     /\ UNCHANGED dirt

-----------------------------------------------------------------------------
(* make_request.                                                           *)

\* A task runs; do_hd_request and the handlers that call it go before it.
Runs(t) == driver # "run" /\ (cpu = t \/ cpu = None)

Return(t, p) == [p EXCEPT ![t] = "user"]

\* Read-ahead forgets about a locked buffer; otherwise lock_buffer.
ll_rw_block(t, rw, b) ==
  /\ Runs(t) /\ cpu = None /\ pc[t] = "user"
  /\ rw = "READA" => ~lock[b]
  /\ pc' = [pc EXCEPT ![t] = "lock"]
  /\ arg' = [arg EXCEPT ![t] = [rw |-> rw, bh |-> b]]
  /\ cpu' = t
  /\ UNCHANGED <<slot, req, queue, bufs, disk>>

\* sleep_on(&bh->b_wait)
WaitForLock(t) ==
  /\ Runs(t) /\ cpu = t /\ pc[t] = "lock"
  /\ lock[arg[t].bh]
  /\ cpu' = None
  /\ UNCHANGED <<pc, arg, slot, req, queue, bufs, disk>>

lock_buffer(t) ==
  /\ Runs(t) /\ pc[t] = "lock"
  /\ ~lock[arg[t].bh]
  /\ lock' = [lock EXCEPT ![arg[t].bh] = TRUE]
  /\ pc' = [pc EXCEPT ![t] = "locked"]
  /\ cpu' = t
  /\ UNCHANGED <<arg, slot, req, queue, dirt, uptodate, disk>>

Cmd(rw) == IF rw = "WRITE" THEN "WRITE" ELSE "READ"

\* Mistake: the buffer stays locked.
GiveUpLocked(t) ==
  /\ pc' = Return(t, pc)
  /\ arg' = [arg EXCEPT ![t] = None]
  /\ cpu' = None
  /\ UNCHANGED <<slot, req, queue, bufs, disk>>

\* unlock_buffer and return
GiveUp(t) ==
  /\ lock' = [lock EXCEPT ![arg[t].bh] = FALSE]
  /\ pc' = Return(t, pc)
  /\ arg' = [arg EXCEPT ![t] = None]
  /\ cpu' = None
  /\ UNCHANGED <<slot, req, queue, dirt, uptodate, disk>>

Needed(t) ==
  LET b == arg[t].bh
  IN IF Cmd(arg[t].rw) = "WRITE" THEN dirt[b] ELSE ~uptodate[b]

NotNeeded(t) ==
  /\ Runs(t) /\ cpu = t /\ pc[t] = "locked"
  /\ ~Needed(t)
  /\ GiveUp(t)

IsNeeded(t) ==
  /\ Runs(t) /\ cpu = t /\ pc[t] = "locked"
  /\ Needed(t)
  /\ pc' = [pc EXCEPT ![t] = "scan"]
  /\ UNCHANGED <<cpu, arg, slot, req, queue, bufs, disk>>

\* The slots a request may use: writes only the low two thirds.
Allowed(rw) == {s \in Slot : Cmd(rw) = "READ" \/ s < (NR_REQUEST * 2) \div 3}

Free(rw) == {s \in Allowed(rw) : req[s] = None}

\* The search runs from the top of the table.
FindRequest(t) ==
  LET free == Free(arg[t].rw)
  IN /\ Runs(t) /\ pc[t] = "scan"
     /\ free # {}
     /\ \E s \in free :
          /\ \A u \in free : u <= s
          /\ slot' = [slot EXCEPT ![t] = s]
          /\ req' = [req EXCEPT ![s] =
                       [cmd |-> Cmd(arg[t].rw), bh |-> arg[t].bh,
                        errors |-> 0, nr_sectors |-> SECTORS]]
     /\ pc' = [pc EXCEPT ![t] = "add"]
     /\ cpu' = t
     /\ UNCHANGED <<arg, queue, bufs, disk>>

NoRequestAhead(t) ==
  /\ Runs(t) /\ pc[t] = "scan"
  /\ Free(arg[t].rw) = {}
  /\ arg[t].rw = "READA"
  /\ GiveUp(t)

\* The search has failed; interrupts are on until sleep_on links the task.
NoRequest(t) ==
  /\ Runs(t) /\ pc[t] = "scan"
  /\ Free(arg[t].rw) = {}
  /\ arg[t].rw # "READA"
  /\ pc' = [pc EXCEPT ![t] = "sleep"]
  /\ cpu' = t
  /\ UNCHANGED <<arg, slot, req, queue, bufs, disk>>

\* sleep_on(&wait_for_request)
SleepForRequest(t) ==
  /\ Runs(t) /\ cpu = t /\ pc[t] = "sleep"
  /\ pc' = [pc EXCEPT ![t] = "asleep"]
  /\ cpu' = None
  /\ UNCHANGED <<arg, slot, req, queue, bufs, disk>>

\* An idle disk is started by the task itself.
add_request(t) ==
  LET s == slot[t]
  IN /\ Runs(t) /\ cpu = t /\ pc[t] = "add"
     /\ dirt' = [dirt EXCEPT ![arg[t].bh] = FALSE]
     /\ IF queue = << >> THEN queue' = <<s>> /\ driver' = "run"
        ELSE queue' = InsertRequest(queue, s, req[s]) /\ UNCHANGED driver
     /\ pc' = Return(t, pc)
     /\ slot' = [slot EXCEPT ![t] = None]
     /\ arg' = [arg EXCEPT ![t] = None]
     /\ cpu' = None
     /\ UNCHANGED <<req, lock, uptodate, flags>>

-----------------------------------------------------------------------------
(* hd.c.                                                                   *)

\* do_hd_request is called, or goes to repeat.
RunDriver == driver' = "run"

Command(d) == driver' = d /\ UNCHANGED <<req, queue, pc, bufs>>

\* bad_rw_intr: the last error ends the request.  The second test reads the
\* errors of what is then current: none yet, or, if there is no request, the
\* word at address 8, an entry of the page directory and a large number.
bad_rw_intr ==
  LET e == CURRENT.errors + 1
  IN /\ IF e >= MAX_ERRORS THEN end_request(FALSE)
        ELSE /\ req' = [req EXCEPT ![Head(queue)].errors = e]
             /\ UNCHANGED <<queue, pc, bufs>>
     /\ reset' = \/ reset
                 \/ IF e >= MAX_ERRORS THEN Len(queue) = 1
                    ELSE e > MAX_ERRORS \div 2
     /\ UNCHANGED recalibrate

MayFail == CURRENT.bh \in Fails

\* block + 2 > nr_sects: block is the next sector, also when it is the second
\* of the request.
BeyondEnd ==
  \/ CURRENT.bh \in Bad
  \/ CURRENT.bh \in Last /\ CURRENT.nr_sectors < SECTORS

Running == driver = "run" /\ UNCHANGED <<cpu, arg, slot>>

NothingToDo ==
  /\ Running /\ queue = << >>
  /\ Command("idle")
  /\ UNCHANGED flags

Refuse ==
  /\ Running /\ queue # << >> /\ BeyondEnd
  /\ end_request(FALSE)
  /\ RunDriver
  /\ UNCHANGED flags

\* Mistake: the errors are forgotten with the reset.
RecoverAfresh ==
  /\ Running /\ queue # << >> /\ ~BeyondEnd
  /\ reset \/ recalibrate
  /\ reset' = FALSE
  /\ recalibrate' = reset
  /\ driver' = "recal"
  /\ req' = [req EXCEPT ![Head(queue)].errors = 0]
  /\ UNCHANGED <<queue, pc, bufs>>

\* A reset sets the parameters of the drive, then its heads go to cylinder 0.
Recover ==
  /\ Running /\ queue # << >> /\ ~BeyondEnd
  /\ reset \/ recalibrate
  /\ reset' = FALSE
  /\ recalibrate' = reset
  /\ Command("recal")

Transfer ==
  /\ Running /\ queue # << >> /\ ~BeyondEnd
  /\ ~reset /\ ~recalibrate
  /\ \/ Command(CURRENT.cmd) /\ UNCHANGED flags
     \/ CURRENT.cmd = "WRITE" /\ MayFail /\ bad_rw_intr /\ RunDriver

do_hd_request == NothingToDo \/ Refuse \/ Recover \/ Transfer

\* hd_interrupt calls what do_hd holds.
Handler(d) == driver = d /\ UNCHANGED <<cpu, arg, slot>>

\* win_result says that the command has failed.
CommandFails ==
  /\ \E d \in {"READ", "WRITE", "recal"} : Handler(d)
  /\ MayFail
  /\ bad_rw_intr
  /\ RunDriver

\* read_intr counts the errors of each sector, write_intr those of both.
SectorDone ==
  /\ \E d \in {"READ", "WRITE"} : Handler(d)
  /\ CURRENT.nr_sectors > 1
  /\ req' = [req EXCEPT
       ![Head(queue)].nr_sectors = @ - 1,
       ![Head(queue)].errors = IF driver = "READ" THEN 0 ELSE @]
  /\ UNCHANGED <<queue, pc, bufs, disk>>

RequestDone ==
  /\ \E d \in {"READ", "WRITE"} : Handler(d)
  /\ CURRENT.nr_sectors = 1
  /\ end_request(TRUE)
  /\ RunDriver
  /\ UNCHANGED flags

recal_intr ==
  /\ Handler("recal")
  /\ RunDriver
  /\ UNCHANGED <<req, queue, pc, bufs, flags>>

Interrupt == CommandFails \/ SectorDone \/ RequestDone \/ recal_intr

-----------------------------------------------------------------------------
(* What else happens to the buffers.                                       *)

\* A task writes into a buffer it has read, and will write it back.
Modify(b) ==
  /\ cpu = None /\ driver # "run"
  /\ \E t \in Task : <<t, "WRITE", b>> \in Calls
  /\ uptodate[b] /\ ~dirt[b]
  /\ dirt' = [dirt EXCEPT ![b] = TRUE]
  /\ UNCHANGED <<cpu, pc, arg, slot, req, queue, lock, uptodate, disk>>

\* getblk gives a clean unlocked buffer another block.
Forget(b) ==
  /\ cpu = None /\ driver # "run"
  /\ ~lock[b] /\ ~dirt[b] /\ uptodate[b]
  /\ uptodate' = [uptodate EXCEPT ![b] = FALSE]
  /\ UNCHANGED <<cpu, pc, arg, slot, req, queue, lock, dirt, disk>>

-----------------------------------------------------------------------------

Step(t) ==
  \/ WaitForLock(t) \/ lock_buffer(t) \/ NotNeeded(t) \/ IsNeeded(t)
  \/ FindRequest(t) \/ NoRequestAhead(t) \/ NoRequest(t) \/ SleepForRequest(t)
  \/ add_request(t)

Next ==
  \/ \E t \in Task : Step(t)
  \/ \E t \in Task, rw \in RW, b \in Buf :
       <<t, rw, b>> \in Calls /\ ll_rw_block(t, rw, b)
  \/ do_hd_request \/ Interrupt
  \/ \E b \in Buf : Modify(b) \/ Forget(b)

Spec == Init /\ [][Next]_vars

\* The driver runs on, and the disk answers every command.
Fairness == WF_vars(do_hd_request \/ Interrupt)

FairSpec == Spec /\ Fairness

-----------------------------------------------------------------------------
(* Properties.                                                             *)

Claimed == {slot[t] : t \in {u \in Task : slot[u] # None}}
Queued == Slots(queue)

\* The elevator sweeps in one direction and starts over once: at most one
\* request in the list is followed by one that should have come before it.
OneSweep ==
  Cardinality({i \in 1 .. Len(queue) - 1 :
                 ~InOrder(req[queue[i]], req[queue[i + 1]])}) <= 1

\* Retries, resets and interrupts never lose their place: a handler that waits
\* for the disk has a current request, of its own command (read_intr and
\* write_intr do not look), only that request has errors or sectors done, and
\* the disk never rests while requests wait.
HandlerHasRequest ==
  /\ driver = "idle" => queue = << >>
  /\ driver \in {"READ", "WRITE", "recal"} => queue # << >>
  /\ driver \in {"READ", "WRITE"} => CURRENT.cmd = driver
  /\ \A i \in 2 .. Len(queue) :
       req[queue[i]].errors = 0 /\ req[queue[i]].nr_sectors = SECTORS

\* The table is well-typed, and the driver's panics never fire (blk.h: "request
\* list destroyed", "block not locked"): the list holds requests for locked
\* buffers, none twice; every request in use is in the list or in the hands of
\* the one task that fills it.  The list is in the order of the elevator, and the
\* handlers of the disk work on its first request.
RequestsInOrder ==
  /\ TypeOK /\ OneSweep /\ HandlerHasRequest
  /\ Cardinality(Queued) = Len(queue)
  /\ \A s \in Queued : req[s] # None /\ lock[req[s].bh] /\ s \notin Claimed
  /\ \A s \in Slot : req[s] # None => s \in Claimed \cup Queued
  /\ \A t, u \in Task : slot[t] # None /\ slot[t] = slot[u] => t = u

\* A locked buffer belongs to exactly one request, or to one task in
\* make_request: two transfers never share a buffer, and no lock is left
\* behind when a request cannot be queued.
OneOwnerPerLock ==
  \A b \in Buf :
    LET requests == {s \in Slot : req[s] # None /\ req[s].bh = b}
        tasks == {t \in Task :
                    /\ pc[t] \in {"locked", "scan", "sleep", "asleep"}
                    /\ arg[t].bh = b}
    IN Cardinality(requests) + Cardinality(tasks) = IF lock[b] THEN 1 ELSE 0

\* A request that is queued comes to its end, although later ones may be put in
\* front of it and the disk may report errors for ever: the elevator starves
\* nobody, and the retries, each after a reset that may fail as well, are bounded.
RequestsEnd ==
  \A s \in Slot : (req[s] # None /\ s \notin Claimed) ~> req[s] = None

=============================================================================

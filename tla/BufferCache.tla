----------------------------- MODULE BufferCache -----------------------------
(***************************************************************************)
(* The buffer cache: fs/buffer.c (getblk, get_hash_table, bread, breada,   *)
(* brelse, sys_sync, sync_dev), with the callers that read and write file  *)
(* data (file_write, block_write, block_read), in front of the disks.      *)
(*                                                                         *)
(* The kernel is not preemptive: a task keeps `cpu' until it has to sleep. *)
(* Waiting for a locked buffer is a guard (module WaitQueue shows that     *)
(* sleep_on implements it); the queue buffer_wait is modelled in full.     *)
(* ll_rw_block locks the buffer, may sleep for a free request and queues   *)
(* it (module BlkQueue); an interrupt ends the transfer.  The inodes that  *)
(* sync_inodes would write are left out, and tasks that are killed in      *)
(* their copy (die, oom): they keep b_count for ever.                      *)
(***************************************************************************)
EXTENDS Naturals, Sequences, FiniteSets

CONSTANTS
  Task,      \* the tasks that use the cache
  NR_BUFFERS,
  NBlock,    \* the number of blocks on all disks
  DevOf,     \* the device of each block
  Calls,     \* the calls that tasks make: <<operation, block>>
  Faults,    \* where a page fault may put the holder of a buffer to sleep
  Fails,     \* the transfers that may fail
  None

Buf == 1 .. NR_BUFFERS
Block == 1 .. NBlock
Data == {0, 1}
Ops == {"bread", "breada", "file_write", "block_write", "sync"}

ASSUME CacheAssumption ==
  /\ IsFiniteSet(Task)
  /\ NR_BUFFERS \in Nat \ {0} /\ NBlock \in Nat
  /\ DOMAIN DevOf = Block /\ \A k \in Block : DevOf[k] # None
  /\ Calls \subseteq Ops \X Block
  /\ \A c \in Calls : c[1] = "breada" => c[2] + 1 \in Block
  /\ Faults \subseteq {"use", "copy"}
  /\ Fails \subseteq {"READ", "WRITE"}
  /\ None \notin Task \cup Ops /\ None \notin Nat

VARIABLES
  cpu,       \* the task that runs kernel code
  pc,        \* where each task is
  op,        \* the call it makes
  want,      \* the block it asks for
  bh,        \* the buffer it has found or chosen
  first,     \* breada: the buffer of the first block
  i,         \* where the loop of sync_dev or sys_sync is
  sdev,      \* the device it syncs, None for all
  blk,       \* b_dev and b_blocknr of each buffer
  count,     \* b_count
  lock,      \* b_lock
  dirt,      \* b_dirt
  uptodate,  \* b_uptodate
  data,      \* b_data
  io,        \* the transfer under way
  sent,      \* what the buffer held when it was queued for writing
  free,      \* free_list: all buffers, the next to be reused first
  disk       \* the contents of the disks

task == <<pc, op, want, bh, first, i, sdev>>
store == <<data, io, sent, disk>>
vars == <<cpu, task, blk, count, lock, dirt, uptodate, store, free>>

TypeOK ==
  /\ cpu \in Task \cup {None}
  /\ pc \in [Task -> {"user", "find", "bufwait", "found", "victim", "got",
                      "submit", "request", "ahead", "readwait", "use", "copy",
                      "brelse", "sync", "syncwait"}]
  /\ op \in [Task -> Ops \cup {None}]
  /\ want \in [Task -> Block \cup {None}]
  /\ bh \in [Task -> Buf \cup {None}]
  /\ first \in [Task -> Buf \cup {None}]
  /\ i \in [Task -> 1 .. 2 * NR_BUFFERS + 1]
  /\ \A t \in Task : sdev[t] \in {None} \cup {DevOf[k] : k \in Block}
  /\ blk \in [Buf -> Block \cup {None}]
  /\ count \in [Buf -> 0 .. 2 * Cardinality(Task)]
  /\ lock \in [Buf -> BOOLEAN]
  /\ dirt \in [Buf -> BOOLEAN]
  /\ uptodate \in [Buf -> BOOLEAN]
  /\ data \in [Buf -> Data]
  /\ io \in [Buf -> {"none", "READ", "WRITE"}]
  /\ sent \in [Buf -> Data]
  /\ free \in [Buf -> Buf]
  /\ disk \in [Block -> Data]

\* buffer_init
Init ==
  /\ cpu = None
  /\ pc = [t \in Task |-> "user"]
  /\ op = [t \in Task |-> None]
  /\ want = [t \in Task |-> None]
  /\ bh = [t \in Task |-> None]
  /\ first = [t \in Task |-> None]
  /\ i = [t \in Task |-> 1]
  /\ sdev = [t \in Task |-> None]
  /\ blk = [b \in Buf |-> None]
  /\ count = [b \in Buf |-> 0]
  /\ lock = [b \in Buf |-> FALSE]
  /\ dirt = [b \in Buf |-> FALSE]
  /\ uptodate = [b \in Buf |-> FALSE]
  /\ data = [b \in Buf |-> 0]
  /\ io = [b \in Buf |-> "none"]
  /\ sent = [b \in Buf |-> 0]
  /\ free = [b \in Buf |-> b]
  /\ disk = [k \in Block |-> 0]

-----------------------------------------------------------------------------
(* Running and sleeping.                                                   *)

Goto(t, l) == pc' = [pc EXCEPT ![t] = l]

\* t runs on at l, or is resumed there after a sleep.
Resumes(t, l) == cpu \in {t, None} /\ pc[t] = l /\ cpu' = t

\* The buffer of the loop in sync_dev (two rounds) and sys_sync (one).
Nth(n) == IF n > NR_BUFFERS THEN n - NR_BUFFERS ELSE n

\* The buffer that a task waits for in wait_on_buffer or lock_buffer.
AwaitedBy(t) == IF pc[t] = "syncwait" THEN Nth(i[t]) ELSE bh[t]

Awaits == {"found", "victim", "submit", "readwait", "brelse", "syncwait"}

\* wait_on_buffer, lock_buffer: sleep_on(&bh->b_wait)
WaitOnBuffer(t) ==
  /\ cpu = t /\ pc[t] \in Awaits
  /\ lock[AwaitedBy(t)]
  /\ cpu' = None
  /\ UNCHANGED <<task, blk, count, lock, dirt, uptodate, store, free>>

\* make_request finds no free request, or the holder of a buffer touches a
\* user page that has to be read first (get_fs_byte, put_fs_byte).
SleepElsewhere(t) ==
  /\ cpu = t /\ pc[t] \in {"request"} \cup Faults
  /\ cpu' = None
  /\ UNCHANGED <<task, blk, count, lock, dirt, uptodate, store, free>>

-----------------------------------------------------------------------------
(* getblk                                                                  *)

Holding(k) == {b \in Buf : blk[b] = k}

Badness(b) == (IF dirt[b] THEN 2 ELSE 0) + (IF lock[b] THEN 1 ELSE 0)

Unused == {b \in Buf : count[b] = 0}

Place(b) == CHOOSE n \in Buf : free[n] = b

\* The best unused buffer, the first of them in the free list.
Victims ==
  {b \in Unused : \A c \in Unused \ {b} :
     \/ Badness(b) < Badness(c)
     \/ Badness(b) = Badness(c) /\ Place(b) < Place(c)}

\* The label repeat: get_hash_table, then the search of the free list.
Find(t) ==
  /\ cpu \in {t, None} /\ pc[t] = "find"
  /\ LET hit == Holding(want[t])
     IN \/ /\ hit # {}
           /\ \E b \in hit :
                /\ bh' = [bh EXCEPT ![t] = b]
                /\ count' = [count EXCEPT ![b] = @ + 1]
           /\ Goto(t, "found") /\ cpu' = t
        \/ /\ hit = {} /\ Unused # {}
           /\ \E b \in Victims : bh' = [bh EXCEPT ![t] = b]
           /\ Goto(t, "victim") /\ cpu' = t
           /\ UNCHANGED count
        \/ /\ hit = {} /\ Unused = {}
           /\ Goto(t, "bufwait") /\ cpu' = None
           /\ UNCHANGED <<bh, count>>
  /\ UNCHANGED <<op, want, first, i, sdev>>
  /\ UNCHANGED <<blk, lock, dirt, uptodate, store, free>>

\* get_hash_table after wait_on_buffer: is it still the same block?
Found(t) ==
  /\ Resumes(t, "found") /\ ~lock[bh[t]]
  /\ IF blk[bh[t]] = want[t]
     THEN Goto(t, "got") /\ UNCHANGED count
     ELSE Goto(t, "find") /\ count' = [count EXCEPT ![bh[t]] = @ - 1]
  /\ UNCHANGED <<op, want, bh, first, i, sdev>>
  /\ UNCHANGED <<blk, lock, dirt, uptodate, store, free>>

\* The victim has been taken by somebody, or the block has been cached.
VictimLost(t) ==
  /\ Resumes(t, "victim") /\ ~lock[bh[t]]
  /\ \/ count[bh[t]] > 0
     \/ ~dirt[bh[t]] /\ Holding(want[t]) # {}
  /\ Goto(t, "find")
  /\ bh' = [bh EXCEPT ![t] = None]
  /\ UNCHANGED <<op, want, first, i, sdev>>
  /\ UNCHANGED <<blk, count, lock, dirt, uptodate, store, free>>

\* sync_dev(bh->b_dev)
VictimDirty(t) ==
  /\ Resumes(t, "victim") /\ ~lock[bh[t]]
  /\ count[bh[t]] = 0 /\ dirt[bh[t]]
  /\ sdev' = [sdev EXCEPT ![t] = DevOf[blk[bh[t]]]]
  /\ i' = [i EXCEPT ![t] = 1]
  /\ Goto(t, "sync")
  /\ UNCHANGED <<op, want, bh, first>>
  /\ UNCHANGED <<blk, count, lock, dirt, uptodate, store, free>>

MoveToEnd(b) ==
  LET n == Place(b)
  IN [m \in Buf |-> IF m < n THEN free[m]
                    ELSE IF m < NR_BUFFERS THEN free[m + 1] ELSE b]

\* Mistake: nobody looks again, after the sleeps, whether the victim is free and
\* clean and the block still not cached.
AssignUnchecked(t) ==
  LET b == bh[t]
  IN /\ Resumes(t, "victim") /\ ~lock[b]
     /\ count' = [count EXCEPT ![b] = 1]
     /\ uptodate' = [uptodate EXCEPT ![b] = FALSE]
     /\ blk' = [blk EXCEPT ![b] = want[t]]
     /\ free' = MoveToEnd(b)
     /\ Goto(t, "got")
     /\ UNCHANGED <<op, want, bh, first, i, sdev, lock, dirt, store>>

\* The victim becomes the buffer of the block.
Assign(t) ==
  LET b == bh[t]
  IN /\ Resumes(t, "victim") /\ ~lock[b]
     /\ count[b] = 0 /\ ~dirt[b] /\ Holding(want[t]) = {}
     /\ count' = [count EXCEPT ![b] = 1]
     /\ uptodate' = [uptodate EXCEPT ![b] = FALSE]
     /\ blk' = [blk EXCEPT ![b] = want[t]]
     /\ free' = MoveToEnd(b)
     /\ Goto(t, "got")
     /\ UNCHANGED <<op, want, bh, first, i, sdev, lock, dirt, store>>

-----------------------------------------------------------------------------
(* sys_sync and sync_dev, ll_rw_block                                      *)

\* The buffers at which the loop, standing at n, has something to do.
ToSync(t) ==
  {n \in i[t] .. 2 * NR_BUFFERS :
     /\ blk[Nth(n)] # None
     /\ sdev[t] # None => DevOf[blk[Nth(n)]] = sdev[t]
     /\ lock[Nth(n)] \/ dirt[Nth(n)]}

\* On to the next such buffer, or to the end of the loop: getblk goes on with
\* its victim, sys_sync returns.
SyncNext(t) ==
  /\ cpu = t /\ pc[t] = "sync"
  /\ \/ \E n \in ToSync(t) :
          /\ \A m \in ToSync(t) : n <= m
          /\ i' = [i EXCEPT ![t] = n]
          /\ Goto(t, "syncwait")
          /\ UNCHANGED <<cpu, op, sdev>>
     \/ /\ ToSync(t) = {}
        /\ i' = [i EXCEPT ![t] = 1]
        /\ sdev' = [sdev EXCEPT ![t] = None]
        /\ IF op[t] = "sync"
           THEN /\ op' = [op EXCEPT ![t] = None]
                /\ Goto(t, "user") /\ cpu' = None
           ELSE Goto(t, "victim") /\ UNCHANGED <<cpu, op>>
  /\ UNCHANGED <<want, bh, first>>
  /\ UNCHANGED <<blk, count, lock, dirt, uptodate, store, free>>

\* The buffer is unlocked: if it is still dirty and of this device, lock it
\* and make a request.
SyncBuffer(t) ==
  LET b == Nth(i[t])
      write == dirt[b] /\ (sdev[t] # None => DevOf[blk[b]] = sdev[t])
  IN /\ Resumes(t, "syncwait") /\ ~lock[b]
     /\ lock' = [lock EXCEPT ![b] = write]
     /\ Goto(t, IF write THEN "request" ELSE "sync")
     /\ i' = IF write THEN i ELSE [i EXCEPT ![t] = @ + 1]
     /\ UNCHANGED <<op, want, bh, first, sdev>>
     /\ UNCHANGED <<blk, count, dirt, uptodate, store, free>>

\* What breada does once the first block is read or being read.
AfterRead(t) == IF op[t] = "breada" THEN "ahead" ELSE "readwait"

\* bread and breada: ll_rw_block(READ,bh).  make_request returns at once when
\* the buffer has become uptodate while it waited for the lock.
SubmitRead(t) ==
  /\ Resumes(t, "submit") /\ ~lock[bh[t]]
  /\ lock' = [lock EXCEPT ![bh[t]] = ~uptodate[bh[t]]]
  /\ Goto(t, IF uptodate[bh[t]] THEN AfterRead(t) ELSE "request")
  /\ UNCHANGED <<op, want, bh, first, i, sdev>>
  /\ UNCHANGED <<blk, count, dirt, uptodate, store, free>>

\* add_request: the buffer is clean from here on.
Request(t) ==
  LET syncs == op[t] = "sync" \/ sdev[t] # None
      b == IF syncs THEN Nth(i[t]) ELSE bh[t]
  IN /\ Resumes(t, "request")
     /\ dirt' = [dirt EXCEPT ![b] = FALSE]
     /\ io' = [io EXCEPT ![b] = IF syncs THEN "WRITE" ELSE "READ"]
     /\ sent' = IF syncs THEN [sent EXCEPT ![b] = data[b]] ELSE sent
     /\ i' = IF syncs THEN [i EXCEPT ![t] = @ + 1] ELSE i
     /\ Goto(t, IF syncs THEN "sync" ELSE AfterRead(t))
     /\ UNCHANGED <<op, want, bh, first, sdev>>
     /\ UNCHANGED <<blk, count, lock, uptodate, data, disk, free>>

\* end_request.  A buffer that was written to during the transfer is written
\* in its old or in its new form.
Interrupt(b, ok) ==
  /\ io[b] # "none"
  /\ ok \/ io[b] \in Fails
  /\ lock' = [lock EXCEPT ![b] = FALSE]
  /\ uptodate' = [uptodate EXCEPT ![b] = ok]
  /\ io' = [io EXCEPT ![b] = "none"]
  /\ sent' = [sent EXCEPT ![b] = 0]
  /\ IF ok /\ io[b] = "READ" THEN data' = [data EXCEPT ![b] = disk[blk[b]]]
                             ELSE UNCHANGED data
  /\ IF ok /\ io[b] = "WRITE"
     THEN \E v \in {sent[b], data[b]} : disk' = [disk EXCEPT ![blk[b]] = v]
     ELSE UNCHANGED disk
  /\ UNCHANGED <<cpu, task, blk, count, dirt, free>>

-----------------------------------------------------------------------------
(* bread, breada, brelse and their callers                                 *)

\* A system call that reads or writes the block k.
Call(t, o, k) ==
  /\ cpu = None /\ pc[t] = "user"
  /\ <<o, k>> \in Calls /\ o # "sync"
  /\ cpu' = t
  /\ op' = [op EXCEPT ![t] = o]
  /\ want' = [want EXCEPT ![t] = k]
  /\ Goto(t, "find")
  /\ UNCHANGED <<bh, first, i, sdev>>
  /\ UNCHANGED <<blk, count, lock, dirt, uptodate, store, free>>

sys_sync(t) ==
  /\ \E k \in Block : <<"sync", k>> \in Calls
  /\ cpu = None /\ pc[t] = "user"
  /\ cpu' = t
  /\ op' = [op EXCEPT ![t] = "sync"]
  /\ i' = [i EXCEPT ![t] = NR_BUFFERS + 1]
  /\ Goto(t, "sync")
  /\ UNCHANGED <<want, bh, first, sdev>>
  /\ UNCHANGED <<blk, count, lock, dirt, uptodate, store, free>>

\* getblk has returned.  block_write overwrites a whole block, whatever is in
\* it; everybody else reads it first.
Got(t) ==
  /\ cpu = t /\ pc[t] = "got"
  /\ Goto(t, IF op[t] = "block_write" THEN "copy"
             ELSE IF first[t] # None \/ (op[t] = "breada" /\ uptodate[bh[t]])
                  THEN "ahead"
             ELSE IF uptodate[bh[t]] THEN "use" ELSE "submit")
  /\ UNCHANGED <<cpu, op, want, bh, first, i, sdev>>
  /\ UNCHANGED <<blk, count, lock, dirt, uptodate, store, free>>

\* breada: on to the block after the first.
Further(t) ==
  /\ cpu = t /\ pc[t] = "ahead" /\ first[t] = None
  /\ first' = [first EXCEPT ![t] = bh[t]]
  /\ want' = [want EXCEPT ![t] = @ + 1]
  /\ Goto(t, "find")
  /\ UNCHANGED <<cpu, op, bh, i, sdev>>
  /\ UNCHANGED <<blk, count, lock, dirt, uptodate, store, free>>

\* breada: if (!tmp->b_uptodate) ll_rw_block(READA,bh); tmp->b_count--.
\* The request is for bh, the first block.  A read-ahead gives up when the
\* buffer is locked or no request is free.
ReadAhead(t) ==
  LET b == first[t]
      tmp == bh[t]
      ask == ~uptodate[tmp] /\ ~lock[b] /\ ~uptodate[b]
  IN /\ cpu = t /\ pc[t] = "ahead" /\ b # None
     /\ \/ /\ ask
           /\ lock' = [lock EXCEPT ![b] = TRUE]
           /\ io' = [io EXCEPT ![b] = "READ"]
           /\ dirt' = [dirt EXCEPT ![b] = FALSE]
        \/ UNCHANGED <<lock, io, dirt>>
     /\ count' = [count EXCEPT ![tmp] = @ - 1]
     /\ bh' = [bh EXCEPT ![t] = b]
     /\ want' = [want EXCEPT ![t] = @ - 1]
     /\ first' = [first EXCEPT ![t] = None]
     /\ Goto(t, "readwait")
     /\ UNCHANGED <<cpu, op, i, sdev, blk, uptodate, data, sent, disk, free>>

\* The end of bread and breada.  A block that cannot be read is released, and
\* the caller gets NULL.
ReadDone(t) ==
  /\ Resumes(t, "readwait") /\ ~lock[bh[t]]
  /\ Goto(t, IF uptodate[bh[t]] THEN "use" ELSE "brelse")
  /\ UNCHANGED <<op, want, bh, first, i, sdev>>
  /\ UNCHANGED <<blk, count, lock, dirt, uptodate, store, free>>

\* Mistake: the buffer is not marked dirty.
UseClean(t) ==
  /\ Resumes(t, "use")
  /\ Goto(t, IF op[t] = "file_write" THEN "copy" ELSE "brelse")
  /\ UNCHANGED <<op, want, bh, first, i, sdev>>
  /\ UNCHANGED <<blk, count, lock, dirt, uptodate, store, free>>

\* The caller copies data out of the buffer, or marks it dirty before it
\* copies data into it (file_write).
Use(t) ==
  /\ Resumes(t, "use")
  /\ IF op[t] = "file_write"
     THEN Goto(t, "copy") /\ dirt' = [dirt EXCEPT ![bh[t]] = TRUE]
     ELSE Goto(t, "brelse") /\ UNCHANGED dirt
  /\ UNCHANGED <<op, want, bh, first, i, sdev>>
  /\ UNCHANGED <<blk, count, lock, uptodate, store, free>>

\* The copy; block_write marks the buffer dirty after it.
Copy(t) ==
  /\ Resumes(t, "copy")
  /\ data' = [data EXCEPT ![bh[t]] = 1 - @]
  /\ dirt' = IF op[t] = "block_write" THEN [dirt EXCEPT ![bh[t]] = TRUE]
             ELSE dirt
  /\ Goto(t, "brelse")
  /\ UNCHANGED <<op, want, bh, first, i, sdev>>
  /\ UNCHANGED <<blk, count, lock, uptodate, io, sent, disk, free>>

\* Mistake: nobody is woken.
BrelseSilently(t) ==
  /\ cpu \in {t, None} /\ pc[t] = "brelse" /\ ~lock[bh[t]]
  /\ count' = [count EXCEPT ![bh[t]] = @ - 1]
  /\ pc' = [pc EXCEPT ![t] = "user"]
  /\ cpu' = None
  /\ op' = [op EXCEPT ![t] = None]
  /\ want' = [want EXCEPT ![t] = None]
  /\ bh' = [bh EXCEPT ![t] = None]
  /\ UNCHANGED <<first, i, sdev, blk, lock, dirt, uptodate, store, free>>

\* Everybody on buffer_wait is woken.
brelse(t) ==
  /\ cpu \in {t, None} /\ pc[t] = "brelse" /\ ~lock[bh[t]]
  /\ count' = [count EXCEPT ![bh[t]] = @ - 1]
  /\ pc' = [u \in Task |-> IF u = t THEN "user"
                           ELSE IF pc[u] = "bufwait" THEN "find" ELSE pc[u]]
  /\ cpu' = None
  /\ op' = [op EXCEPT ![t] = None]
  /\ want' = [want EXCEPT ![t] = None]
  /\ bh' = [bh EXCEPT ![t] = None]
  /\ UNCHANGED <<first, i, sdev, blk, lock, dirt, uptodate, store, free>>

-----------------------------------------------------------------------------

Step(t) ==
  \/ WaitOnBuffer(t) \/ SleepElsewhere(t)
  \/ Find(t) \/ Found(t) \/ VictimLost(t) \/ VictimDirty(t) \/ Assign(t)
  \/ SyncNext(t) \/ SyncBuffer(t) \/ SubmitRead(t) \/ Request(t)
  \/ Got(t) \/ Further(t) \/ ReadAhead(t) \/ ReadDone(t) \/ Use(t) \/ Copy(t)
  \/ brelse(t)

Next ==
  \/ \E t \in Task :
       \/ Step(t)
       \/ \E o \in Ops, k \in Block : Call(t, o, k)
       \/ sys_sync(t)
  \/ \E b \in Buf, ok \in BOOLEAN : Interrupt(b, ok)

Spec == Init /\ [][Next]_vars

\* Transfers end; kernel code runs on; whoever can be resumed is, in the end.
Fairness ==
  /\ \A b \in Buf : WF_vars(\E ok \in BOOLEAN : Interrupt(b, ok))
  /\ WF_vars(\E t \in Task : cpu = t /\ Step(t))
  /\ \A t \in Task : SF_vars(cpu = None /\ Step(t))

FairSpec == Spec /\ Fairness

-----------------------------------------------------------------------------
(* Properties.                                                             *)

\* A block is in one buffer at most, although getblk may sleep between the
\* search and the assignment (buffer.c:240-245).
OneBufferPerBlock == \A k \in Block : Cardinality(Holding(k)) <= 1

\* Where bh[t] is a buffer that the task has counted.
Counted ==
  {"found", "got", "submit", "ahead", "readwait", "use", "copy", "brelse"}

Refers(t, b) ==
  /\ bh[t] = b
  /\ \/ pc[t] \in Counted
     \/ pc[t] = "request" /\ op[t] # "sync" /\ sdev[t] = None

\* The cache is well-typed, and b_count is the number of tasks that use the
\* buffer: none is released twice ("Trying to free free buffer") and none stays
\* in use for ever.
CountsAreExact ==
  /\ TypeOK
  /\ \A b \in Buf :
       count[b] = Cardinality({t \in Task : Refers(t, b)})
                  + Cardinality({t \in Task : first[t] = b})

\* Whoever uses a buffer finds in it the block it asked for, from getblk to
\* brelse and over all sleeps between them.
HolderKeepsBlock ==
  \A t \in Task :
    pc[t] \in {"got", "submit", "use", "copy"} => blk[bh[t]] = want[t]

\* The buffers as the users of getblk rely on them: what OneBufferPerBlock,
\* CountsAreExact and HolderKeepsBlock say, over all sleeps of getblk.
CacheIsConsistent == OneBufferPerBlock /\ CountsAreExact /\ HolderKeepsBlock

\* What the disk lacks is written in the end: a buffer that differs from its
\* block is dirty, or about to be written, or still being written to.
NothingLost ==
  \A b \in Buf :
    blk[b] # None /\ uptodate[b] /\ data[b] # disk[blk[b]] =>
      \/ dirt[b]
      \/ io[b] = "WRITE" /\ data[b] = sent[b]
      \/ \E t \in Task : pc[t] = "copy" /\ bh[t] = b

\* A task sleeps on buffer_wait only while another task, which does not sleep
\* there, holds a buffer: its brelse will wake the sleeper.
SleeperIsWoken ==
  (\E t \in Task : pc[t] = "bufwait") =>
    \E u \in Task : /\ pc[u] # "bufwait"
                    /\ first[u] # None \/ \E b \in Buf : Refers(u, b)

-----------------------------------------------------------------------------
(* The cache implements a store of blocks.                                 *)

\* The data of a buffer counts when it has been read or written to.
Valid(b) == uptodate[b] \/ dirt[b] \/ io[b] = "WRITE"

Content ==
  [k \in Block |->
     IF \E b \in Holding(k) : Valid(b)
     THEN data[CHOOSE b \in Holding(k) : Valid(b)]
     ELSE disk[k]]

Writes ==
  [t \in Task |->
     IF op[t] \in {"file_write", "block_write"} /\ pc[t] # "brelse"
     THEN want[t] ELSE None]

Store == INSTANCE BlockStore WITH content <- Content, writes <- Writes

\* A block changes only when a task writes it: no buffer is reused before it
\* is written back, read over after it was written to, or cached twice.
ImplementsBlockStore == Store!Spec

=============================================================================

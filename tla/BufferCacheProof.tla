-------------------------- MODULE BufferCacheProof --------------------------
(***************************************************************************)
(* Proofs about the buffer cache, for any number of tasks, buffers and     *)
(* blocks: a block is in one buffer, the counts are exact, a holder keeps  *)
(* its block, nothing that was written is forgotten, and a sleeper on      *)
(* buffer_wait will be woken.                                              *)
(***************************************************************************)
EXTENDS BufferCache, FiniteSetTheorems, TLAPS

\* The copy of a write does not sleep in a page fault: the buffer stays dirty
\* from the mark of file_write to the end of its copy.
CopiesDoNotSleep == "copy" \notin Faults

\* More buffers than tasks: main.c gives them the memory from the end of the
\* kernel to 1 MB or more, and NR_TASKS is 64.  Otherwise tasks that each hold
\* the first buffer of a breada may hold them all, and wait for each other.
EnoughBuffers == Cardinality(Task) < NR_BUFFERS

-----------------------------------------------------------------------------
(* The inductive invariant                                                 *)

\* TypeOK without the bound of b_count, which follows from the counts.
TypeInv ==
  /\ cpu \in Task \cup {None}
  /\ pc \in [Task -> {"user", "find", "bufwait", "found", "victim", "got",
                      "submit", "request", "ahead", "readwait", "use", "copy",
                      "brelse", "sync", "syncwait"}]
  /\ op \in [Task -> Ops \cup {None}]
  /\ want \in [Task -> Block \cup {None}]
  /\ bh \in [Task -> Buf \cup {None}]
  /\ first \in [Task -> Buf \cup {None}]
  /\ i \in [Task -> 1 .. 2 * NR_BUFFERS + 1]
  /\ sdev \in [Task -> {None} \cup {DevOf[k] : k \in Block}]
  /\ blk \in [Buf -> Block \cup {None}]
  /\ count \in [Buf -> Int]
  /\ lock \in [Buf -> BOOLEAN]
  /\ dirt \in [Buf -> BOOLEAN]
  /\ uptodate \in [Buf -> BOOLEAN]
  /\ data \in [Buf -> Data]
  /\ io \in [Buf -> {"none", "READ", "WRITE"}]
  /\ sent \in [Buf -> Data]
  /\ free \in [Buf -> Buf]
  /\ disk \in [Block -> Data]

\* Where a task syncs, for itself or for getblk.
InSync == {"sync", "syncwait", "request"}
Syncs(t) == op[t] = "sync" \/ sdev[t] # None

\* The buffer that a request is made for.
Target(t) == IF Syncs(t) THEN Nth(i[t]) ELSE bh[t]

\* What a task has in its registers and on its stack, place by place.
ControlAt(t) ==
  /\ (pc[t] = "user") <=> (op[t] = None)
  /\ op[t] = "sync" => pc[t] \in InSync /\ sdev[t] = None
  /\ sdev[t] # None => pc[t] \in InSync
  /\ pc[t] \in {"sync", "syncwait"} => Syncs(t)
  /\ pc[t] = "syncwait" \/ (pc[t] = "request" /\ Syncs(t)) =>
       i[t] <= 2 * NR_BUFFERS
  /\ op[t] \in Ops \ {"sync"} =>
       /\ want[t] # None
       /\ <<op[t], IF first[t] = None THEN want[t] ELSE want[t] - 1>> \in Calls
       /\ pc[t] \notin {"find", "bufwait"} => bh[t] # None
  /\ first[t] # None =>
       /\ op[t] = "breada"
       /\ pc[t] \in {"find", "bufwait", "found", "victim", "got", "ahead"}
                    \cup InSync
       /\ pc[t] = "request" => sdev[t] # None
  /\ pc[t] = "ahead" => op[t] = "breada"
  /\ pc[t] = "copy" => op[t] \in {"file_write", "block_write"}

ControlInv == \A t \in Task : ControlAt(t)

\* The counts, without their types.
ExactInv ==
  \A b \in Buf :
    count[b] = Cardinality({t \in Task : Refers(t, b)})
               + Cardinality({t \in Task : first[t] = b})

\* What a task counts is the buffer of the block that it asked for.
BlockAt(t) ==
  /\ \A b \in Buf : Refers(t, b) => blk[b] = want[t]
  /\ first[t] # None => blk[first[t]] = want[t] - 1

\* A block is in one buffer, and a buffer that is counted keeps its block.
BlockInv ==
  /\ \A b, c \in Buf : blk[b] # None /\ blk[b] = blk[c] => b = c
  /\ \A t \in Task : BlockAt(t)

\* Who is about to make a request has locked the buffer for it.
RequestAt(t) ==
  pc[t] = "request" =>
    /\ lock[Target(t)] /\ io[Target(t)] = "none" /\ blk[Target(t)] # None
    /\ ~Syncs(t) => ~uptodate[bh[t]]

\* A transfer has the buffer to itself, from its lock to its end, and a
\* buffer that is being read is not up to date.
LockInv ==
  /\ \A b \in Buf : io[b] # "none" => lock[b] /\ blk[b] # None
  /\ \A b \in Buf : io[b] = "READ" => ~uptodate[b]
  /\ \A b \in Buf : dirt[b] => blk[b] # None
  /\ \A t \in Task : RequestAt(t)
  /\ \A t, u \in Task :
       pc[t] = "request" /\ pc[u] = "request" /\ Target(t) = Target(u) => t = u

CacheInv == TypeInv /\ ControlInv /\ ExactInv /\ BlockInv /\ LockInv

\* A copy runs to its end once it has begun, in a buffer that file_write has
\* marked.
CopyInv ==
  \A t \in Task : pc[t] = "copy" =>
    cpu = t /\ (op[t] = "file_write" => dirt[bh[t]])

\* What was written into a buffer while it is written back is marked.
SentInv == \A b \in Buf : io[b] = "WRITE" /\ data[b] # sent[b] => dirt[b]

\* What the disk lacks is marked, or on its way.
KeptInv ==
  \A b \in Buf :
    blk[b] # None /\ uptodate[b] /\ data[b] # disk[blk[b]] =>
      dirt[b] \/ (io[b] = "WRITE" /\ data[b] = sent[b])

DataInv == CopyInv /\ SentInv /\ KeptInv

-----------------------------------------------------------------------------
(* Types                                                                   *)

\* The initial state satisfies the invariant: no buffer is in use.
LEMMA InitCacheInv == Init => CacheInv
<1> SUFFICES ASSUME Init PROVE CacheInv
  OBVIOUS
<1> USE CacheAssumption DEF Init
<1>1. TypeInv
  BY DEF TypeInv, Buf, Block, Data, Ops
<1>2. ControlInv
  <2> SUFFICES ASSUME NEW t \in Task
               PROVE  /\ pc[t] = "user" /\ op[t] = None /\ sdev[t] = None
                      /\ first[t] = None /\ None \notin Ops
    BY DEF ControlInv, ControlAt, Syncs, Ops
  <2> QED
    OBVIOUS
<1>3. ExactInv
  <2> SUFFICES ASSUME NEW b \in Buf
               PROVE  count[b] = Cardinality({t \in Task : Refers(t, b)})
                                 + Cardinality({t \in Task : first[t] = b})
    BY DEF ExactInv
  <2> DEFINE R == {t \in Task : Refers(t, b)}
             F == {t \in Task : first[t] = b}
  <2>1. None # b
    BY DEF Buf
  <2>2. R = {} /\ F = {}
    BY <2>1 DEF Refers
  <2>3. count[b] = 0
    OBVIOUS
  <2> HIDE DEF R, F
  <2>4. count[b] = Cardinality(R) + Cardinality(F)
    BY <2>2, <2>3, FS_EmptySet
  <2> QED
    BY <2>4 DEF R, F
<1>4. BlockInv
  BY DEF BlockInv, BlockAt, Refers, Counted
<1>5. LockInv
  BY DEF LockInv, RequestAt
<1> QED
  BY <1>1, <1>2, <1>3, <1>4, <1>5 DEF CacheInv

\* A place in the loop of sync_dev is a buffer.
LEMMA NthIsBuffer ==
  ASSUME NEW n \in 1 .. 2 * NR_BUFFERS
  PROVE  Nth(n) \in Buf
BY CacheAssumption DEF Nth, Buf

\* A call of breada is for a block that another one follows.
LEMMA CallBlocks ==
  ASSUME NEW o \in Ops, NEW k, <<o, k>> \in Calls
  PROVE  k \in Block /\ (o = "breada" => k + 1 \in Block)
<1>1. <<o, k>> \in Ops \X Block
  BY CacheAssumption
<1>2. <<o, k>>[1] = "breada" => <<o, k>>[2] + 1 \in Block
  BY CacheAssumption
<1> QED
  BY <1>1, <1>2

\* Whoever uses a buffer has one, and a block that it asked for.
LEMMA UserHasBuffer ==
  ASSUME TypeInv, ControlInv, NEW t \in Task, pc[t] \in Counted \cup {"victim"}
  PROVE  /\ bh[t] \in Buf /\ want[t] \in Block
         /\ op[t] \in Ops \ {"sync"} /\ sdev[t] = None /\ ~Syncs(t)
<1>1. op[t] # "sync" /\ sdev[t] = None /\ op[t] # None
  BY DEF ControlInv, ControlAt, InSync, Counted
<1>2. op[t] \in Ops
  BY <1>1 DEF TypeInv
<1>3. bh[t] # None /\ want[t] # None
  BY <1>1, <1>2 DEF ControlInv, ControlAt, Counted
<1> QED
  BY <1>1, <1>2, <1>3 DEF TypeInv, Syncs

\* A request is made for a buffer.
LEMMA TargetIsBuffer ==
  ASSUME TypeInv, ControlInv, NEW t \in Task, pc[t] = "request"
  PROVE  /\ Target(t) \in Buf
         /\ Syncs(t) => i[t] + 1 \in 1 .. 2 * NR_BUFFERS + 1
         /\ ~Syncs(t) => /\ op[t] \in Ops \ {"sync"} /\ first[t] = None
                         /\ want[t] \in Block
<1>1. CASE Syncs(t)
  <2>1. i[t] \in 1 .. 2 * NR_BUFFERS + 1 /\ i[t] <= 2 * NR_BUFFERS
    BY <1>1 DEF ControlInv, ControlAt, TypeInv
  <2>2. i[t] \in 1 .. 2 * NR_BUFFERS /\ i[t] + 1 \in 1 .. 2 * NR_BUFFERS + 1
    BY <2>1, CacheAssumption
  <2> QED
    BY <1>1, <2>2, NthIsBuffer DEF Target
<1>2. CASE ~Syncs(t)
  <2>1. op[t] # "sync" /\ op[t] # None
    BY <1>2 DEF Syncs, ControlInv, ControlAt
  <2>2. op[t] \in Ops
    BY <2>1 DEF TypeInv
  <2>3. bh[t] # None /\ want[t] # None /\ first[t] = None
    BY <1>2, <2>1, <2>2 DEF ControlInv, ControlAt, Syncs
  <2> QED
    BY <1>2, <2>1, <2>2, <2>3 DEF TypeInv, Target
<1> QED
  BY <1>1, <1>2

\* Every step keeps the types.
LEMMA TypeStep == CacheInv /\ [Next]_vars => TypeInv'
<1> SUFFICES ASSUME CacheInv, [Next]_vars PROVE TypeInv'
  OBVIOUS
<1> USE DEF CacheInv, TypeInv, task, store, Goto, Resumes
<1>1. ASSUME NEW t \in Task, WaitOnBuffer(t) \/ SleepElsewhere(t) PROVE TypeInv'
  BY <1>1 DEF WaitOnBuffer, SleepElsewhere
<1>2. ASSUME NEW t \in Task, Find(t) PROVE TypeInv'
  <2>1. \A b \in Holding(want[t]) \cup Victims : b \in Buf
    BY DEF Holding, Victims, Unused
  <2> QED
    BY <1>2, <2>1 DEF Find
<1>3. ASSUME NEW t \in Task, Found(t) PROVE TypeInv'
  BY <1>3 DEF Found
<1>4. ASSUME NEW t \in Task, VictimLost(t) PROVE TypeInv'
  BY <1>4 DEF VictimLost
<1>5. ASSUME NEW t \in Task, VictimDirty(t) PROVE TypeInv'
  <2>1. bh[t] \in Buf
    BY <1>5, UserHasBuffer DEF VictimDirty
  <2>2. blk[bh[t]] \in Block
    BY <1>5, <2>1 DEF VictimDirty, LockInv
  <2>3. 1 \in 1 .. 2 * NR_BUFFERS + 1
    BY CacheAssumption
  <2> QED
    BY <1>5, <2>2, <2>3 DEF VictimDirty
<1>6. ASSUME NEW t \in Task, Assign(t) PROVE TypeInv'
  <2>1. bh[t] \in Buf /\ want[t] \in Block
    BY <1>6, UserHasBuffer DEF Assign
  <2>2. MoveToEnd(bh[t]) \in [Buf -> Buf]
    <3> SUFFICES ASSUME NEW m \in Buf PROVE MoveToEnd(bh[t])[m] \in Buf
      BY DEF MoveToEnd
    <3>1. m < NR_BUFFERS => m + 1 \in Buf
      BY CacheAssumption DEF Buf
    <3> QED
      BY <2>1, <3>1 DEF MoveToEnd
  <2>3. /\ count' \in [Buf -> Int] /\ uptodate' \in [Buf -> BOOLEAN]
        /\ blk' \in [Buf -> Block \cup {None}] /\ free' \in [Buf -> Buf]
    <3>1. free' \in [Buf -> Buf]
      BY <1>6, <2>2 DEF Assign
    <3>2. blk' = [blk EXCEPT ![bh[t]] = want[t]]
      BY <1>6 DEF Assign
    <3>3. count' = [count EXCEPT ![bh[t]] = 1]
      BY <1>6 DEF Assign
    <3>4. uptodate' = [uptodate EXCEPT ![bh[t]] = FALSE]
      BY <1>6 DEF Assign
    <3> QED
      BY <2>1, <3>1, <3>2, <3>3, <3>4
  <2> QED
    BY <1>6, <2>3 DEF Assign
<1>7. ASSUME NEW t \in Task, SyncNext(t) PROVE TypeInv'
  <2>1. 1 \in 1 .. 2 * NR_BUFFERS + 1
    BY CacheAssumption
  <2>2. \A n \in ToSync(t) : n \in 1 .. 2 * NR_BUFFERS + 1
    BY CacheAssumption DEF ToSync
  <2> QED
    BY <1>7, <2>1, <2>2 DEF SyncNext
<1>8. ASSUME NEW t \in Task, SyncBuffer(t) PROVE TypeInv'
  <2>1. i[t] \in 1 .. 2 * NR_BUFFERS + 1 /\ i[t] <= 2 * NR_BUFFERS
    BY <1>8 DEF SyncBuffer, ControlInv, ControlAt
  <2>2. i[t] + 1 \in 1 .. 2 * NR_BUFFERS + 1
    BY <2>1, CacheAssumption
  <2> QED
    BY <1>8, <2>2 DEF SyncBuffer
<1>9. ASSUME NEW t \in Task, SubmitRead(t) PROVE TypeInv'
  <2>1. bh[t] \in Buf
    BY <1>9, UserHasBuffer DEF SubmitRead, Counted
  <2> QED
    BY <1>9, <2>1 DEF SubmitRead, AfterRead
<1>10. ASSUME NEW t \in Task, Request(t) PROVE TypeInv'
  <2>1. /\ Target(t) \in Buf
        /\ Syncs(t) => i[t] + 1 \in 1 .. 2 * NR_BUFFERS + 1
    BY <1>10, TargetIsBuffer DEF Request
  <2> QED
    BY <1>10, <2>1 DEF Request, AfterRead, Target, Syncs
<1>11. ASSUME NEW t \in Task, Got(t) PROVE TypeInv'
  BY <1>11 DEF Got
<1>12. ASSUME NEW t \in Task, Further(t) PROVE TypeInv'
  <2>1. op[t] = "breada" /\ <<op[t], want[t]>> \in Calls
    BY <1>12 DEF Further, ControlInv, ControlAt, Ops
  <2>2. want[t] + 1 \in Block
    BY <2>1, CallBlocks DEF Ops
  <2> QED
    BY <1>12, <2>2 DEF Further
<1>13. ASSUME NEW t \in Task, ReadAhead(t) PROVE TypeInv'
  <2>1. op[t] = "breada" /\ <<op[t], want[t] - 1>> \in Calls
    BY <1>13 DEF ReadAhead, ControlInv, ControlAt, Ops
  <2>2. want[t] - 1 \in Block
    BY <2>1, CallBlocks DEF Ops
  <2>3. /\ lock' \in [Buf -> BOOLEAN] /\ dirt' \in [Buf -> BOOLEAN]
        /\ io' \in [Buf -> {"none", "READ", "WRITE"}]
    BY <1>13 DEF ReadAhead
  <2>4. bh[t] \in Buf
    BY <1>13, UserHasBuffer DEF ReadAhead, Counted
  <2>5. /\ count' \in [Buf -> Int] /\ want' \in [Task -> Block \cup {None}]
        /\ bh' \in [Task -> Buf \cup {None}]
        /\ first' \in [Task -> Buf \cup {None}]
    BY <1>13, <2>2, <2>4 DEF ReadAhead
  <2> QED
    BY <1>13, <2>3, <2>5 DEF ReadAhead
<1>14. ASSUME NEW t \in Task, ReadDone(t) PROVE TypeInv'
  BY <1>14 DEF ReadDone
<1>15. ASSUME NEW t \in Task, Use(t) PROVE TypeInv'
  <2>1. bh[t] \in Buf
    BY <1>15, UserHasBuffer DEF Use, Counted
  <2> QED
    BY <1>15, <2>1 DEF Use
<1>16. ASSUME NEW t \in Task, Copy(t) PROVE TypeInv'
  <2>1. bh[t] \in Buf
    BY <1>16, UserHasBuffer DEF Copy, Counted
  <2> QED
    BY <1>16, <2>1 DEF Copy, Data
<1>17. ASSUME NEW t \in Task, brelse(t) PROVE TypeInv'
  <2>1. bh[t] \in Buf
    BY <1>17, UserHasBuffer DEF brelse, Counted
  <2> QED
    BY <1>17, <2>1 DEF brelse
<1>18. ASSUME NEW t \in Task, NEW o \in Ops, NEW k \in Block, Call(t, o, k)
       PROVE  TypeInv'
  BY <1>18 DEF Call
<1>19. ASSUME NEW t \in Task, sys_sync(t) PROVE TypeInv'
  <2>1. NR_BUFFERS + 1 \in 1 .. 2 * NR_BUFFERS + 1
    BY CacheAssumption
  <2> QED
    BY <1>19, <2>1 DEF sys_sync, Ops
<1>20. ASSUME NEW b \in Buf, NEW ok \in BOOLEAN, Interrupt(b, ok) PROVE TypeInv'
  <2>1. blk[b] \in Block
    BY <1>20 DEF Interrupt, LockInv
  <2>2. data' \in [Buf -> Data]
    BY <1>20, <2>1 DEF Interrupt
  <2>3. disk' \in [Block -> Data]
    BY <1>20, <2>1 DEF Interrupt
  <2>4. /\ lock' \in [Buf -> BOOLEAN] /\ uptodate' \in [Buf -> BOOLEAN]
        /\ io' \in [Buf -> {"none", "READ", "WRITE"}] /\ sent' \in [Buf -> Data]
    BY <1>20 DEF Interrupt, Data
  <2> QED
    BY <1>20, <2>2, <2>3, <2>4 DEF Interrupt
<1>21. CASE UNCHANGED vars
  BY <1>21 DEF vars
<1> QED
  BY <1>1, <1>2, <1>3, <1>4, <1>5, <1>6, <1>7, <1>8, <1>9, <1>10, <1>11,
     <1>12, <1>13, <1>14, <1>15, <1>16, <1>17, <1>18, <1>19, <1>20, <1>21
  DEF Next, Step

-----------------------------------------------------------------------------
(* The registers of the tasks                                              *)

\* A step of a task: its system call begins or goes on.
Acts(t) ==
  \/ Step(t)
  \/ \E o \in Ops, k \in Block : Call(t, o, k)
  \/ sys_sync(t)

\* A task changes its own registers only; brelse makes the sleepers of
\* buffer_wait runnable.
LEMMA OthersUntouched ==
  ASSUME TypeInv, NEW t \in Task, Acts(t), NEW u \in Task \ {t}
  PROVE  /\ op'[u] = op[u] /\ want'[u] = want[u] /\ bh'[u] = bh[u]
         /\ first'[u] = first[u] /\ i'[u] = i[u] /\ sdev'[u] = sdev[u]
         /\ pc'[u] = pc[u] \/ (pc[u] = "bufwait" /\ pc'[u] = "find")
<1> USE DEF TypeInv, task, store, Goto, Resumes
<1>1. CASE WaitOnBuffer(t) \/ SleepElsewhere(t)
  BY <1>1 DEF WaitOnBuffer, SleepElsewhere
<1>2. CASE Find(t) \/ Found(t)
  BY <1>2 DEF Find, Found
<1>3. CASE VictimLost(t) \/ VictimDirty(t) \/ Assign(t)
  BY <1>3 DEF VictimLost, VictimDirty, Assign
<1>4. CASE SyncNext(t) \/ SyncBuffer(t)
  BY <1>4 DEF SyncNext, SyncBuffer
<1>5. CASE SubmitRead(t) \/ Request(t)
  BY <1>5 DEF SubmitRead, Request
<1>6. CASE Got(t) \/ Further(t) \/ ReadAhead(t)
  BY <1>6 DEF Got, Further, ReadAhead
<1>7. CASE ReadDone(t) \/ Use(t) \/ Copy(t)
  BY <1>7 DEF ReadDone, Use, Copy
<1>8. CASE brelse(t)
  BY <1>8 DEF brelse
<1>9. CASE (\E o \in Ops, k \in Block : Call(t, o, k)) \/ sys_sync(t)
  BY <1>9 DEF Call, sys_sync
<1> QED
  BY <1>1, <1>2, <1>3, <1>4, <1>5, <1>6, <1>7, <1>8, <1>9 DEF Acts, Step

\* Every step keeps the registers in order.
LEMMA ControlStep == CacheInv /\ [Next]_vars => ControlInv'
<1> SUFFICES ASSUME CacheInv, [Next]_vars PROVE ControlInv'
  OBVIOUS
<1>1. ASSUME NEW t \in Task, Acts(t), ControlAt(t)' PROVE ControlInv'
  <2> SUFFICES ASSUME NEW u \in Task \ {t} PROVE ControlAt(u)'
    BY <1>1 DEF ControlInv
  <2>1. ControlAt(u)
    BY DEF CacheInv, ControlInv
  <2>2. /\ op'[u] = op[u] /\ want'[u] = want[u] /\ bh'[u] = bh[u]
        /\ first'[u] = first[u] /\ i'[u] = i[u] /\ sdev'[u] = sdev[u]
        /\ pc'[u] = pc[u] \/ (pc[u] = "bufwait" /\ pc'[u] = "find")
    BY <1>1, OthersUntouched DEF CacheInv
  <2> QED
    BY <2>1, <2>2 DEF ControlAt, InSync, Syncs
<1>2. ASSUME NEW t \in Task, Acts(t) PROVE ControlAt(t)'
  <2>1. ControlAt(t) /\ ControlInv /\ TypeInv
    BY DEF CacheInv, ControlInv
  <2>2. pc[t] \in Counted \cup {"victim"} =>
          /\ bh[t] \in Buf /\ want[t] \in Block
          /\ op[t] \in Ops \ {"sync"} /\ sdev[t] = None /\ ~Syncs(t)
    BY <2>1, UserHasBuffer
  <2>3. op[t] \in Ops \cup {None} /\ None \notin Ops
    BY <2>1, CacheAssumption DEF TypeInv
  <2> USE DEF TypeInv, ControlAt, task, store, Goto, Resumes, InSync, Syncs,
              Counted
  <2>4. CASE WaitOnBuffer(t) \/ SleepElsewhere(t)
    BY <2>1, <2>4 DEF WaitOnBuffer, SleepElsewhere
  <2>5. CASE Find(t)
    <3>1. \A b \in Holding(want[t]) \cup Victims : b \in Buf /\ b # None
      BY CacheAssumption DEF Holding, Victims, Unused, Buf
    <3> QED
      BY <2>1, <2>3, <2>5, <3>1 DEF Find
  <2>6. CASE Found(t) \/ VictimLost(t)
    BY <2>1, <2>2, <2>3, <2>6 DEF Found, VictimLost
  <2>7. CASE VictimDirty(t)
    <3>1. DevOf[blk[bh[t]]] # None
      <4>1. blk[bh[t]] \in Block
        BY <2>1, <2>2, <2>7 DEF VictimDirty, CacheInv, LockInv
      <4> QED
        BY <4>1, CacheAssumption
    <3> QED
      BY <2>1, <2>2, <2>3, <2>7, <3>1 DEF VictimDirty
  <2>8. CASE Assign(t)
    BY <2>1, <2>2, <2>3, <2>8 DEF Assign
  <2>9. CASE SyncNext(t)
    <3>1. \A n \in ToSync(t) : n <= 2 * NR_BUFFERS
      BY <2>1, CacheAssumption DEF ToSync
    <3> QED
      BY <2>1, <2>3, <2>9, <3>1 DEF SyncNext
  <2>10. CASE SyncBuffer(t)
    BY <2>1, <2>3, <2>10 DEF SyncBuffer
  <2>11. CASE SubmitRead(t)
    BY <2>1, <2>2, <2>3, <2>11 DEF SubmitRead, AfterRead
  <2>12. CASE Request(t)
    BY <2>1, <2>3, <2>12 DEF Request, AfterRead
  <2>13. CASE Got(t)
    BY <2>1, <2>2, <2>3, <2>13 DEF Got
  <2>14. CASE Further(t)
    <3>1. want[t] \in Nat /\ want[t] + 1 # None /\ bh[t] # None
      BY <2>2, <2>14, CacheAssumption DEF Further, Buf, Block
    <3>2. /\ op[t] = "breada" /\ <<op[t], want[t]>> \in Calls
          /\ op[t] \in Ops \ {"sync"} /\ sdev[t] = None
      BY <2>1, <2>2, <2>14 DEF Further
    <3>3. /\ want'[t] = want[t] + 1 /\ first'[t] = bh[t] /\ pc'[t] = "find"
          /\ bh'[t] = bh[t] /\ op'[t] = op[t] /\ sdev'[t] = sdev[t]
      BY <2>1, <2>14 DEF Further
    <3>4. want[t] = IF first'[t] = None THEN want'[t] ELSE want'[t] - 1
      BY <3>1, <3>3
    <3>5. <<op'[t], IF first'[t] = None THEN want'[t] ELSE want'[t] - 1>> \in Calls
      BY <3>2, <3>3, <3>4
    <3> QED
      BY <2>3, <3>1, <3>2, <3>3, <3>5
  <2>15. CASE ReadAhead(t)
    <3>1. /\ op[t] = "breada" /\ <<op[t], want[t] - 1>> \in Calls
          /\ op[t] \in Ops \ {"sync"} /\ sdev[t] = None
      BY <2>1, <2>2, <2>15 DEF ReadAhead
    <3>2. want[t] - 1 # None
      BY <3>1, CallBlocks, CacheAssumption DEF Block
    <3>3. /\ want'[t] = want[t] - 1 /\ first'[t] = None /\ pc'[t] = "readwait"
          /\ bh'[t] = first[t] /\ op'[t] = op[t] /\ sdev'[t] = sdev[t]
          /\ first[t] # None
      BY <2>1, <2>15 DEF ReadAhead
    <3> QED
      BY <2>3, <3>1, <3>2, <3>3
  <2>16. CASE ReadDone(t) \/ Use(t) \/ Copy(t)
    BY <2>1, <2>2, <2>3, <2>16 DEF ReadDone, Use, Copy
  <2>17. CASE brelse(t)
    <3>1. pc'[t] = "user" /\ op'[t] = None /\ first'[t] = None /\ sdev'[t] = None
      BY <2>1, <2>2, <2>17 DEF brelse
    <3> QED
      BY <2>3, <3>1 DEF Ops
  <2>18. ASSUME NEW o \in Ops, NEW k \in Block, Call(t, o, k)
         PROVE  ControlAt(t)'
    <3>1. first[t] = None /\ sdev[t] = None
      BY <2>1, <2>3, <2>18 DEF Call, Ops
    <3>2. k # None
      BY CacheAssumption DEF Block
    <3>3. /\ pc'[t] = "find" /\ op'[t] = o /\ want'[t] = k /\ first'[t] = None
          /\ sdev'[t] = None /\ o # "sync" /\ <<o, k>> \in Calls /\ o # None
      BY <2>1, <2>3, <2>18, <3>1 DEF Call
    <3> QED
      BY <3>2, <3>3
  <2>19. CASE sys_sync(t)
    BY <2>1, <2>3, <2>19 DEF sys_sync, Ops
  <2> QED
    BY <1>2, <2>4, <2>5, <2>6, <2>7, <2>8, <2>9, <2>10, <2>11, <2>12, <2>13,
       <2>14, <2>15, <2>16, <2>17, <2>18, <2>19 DEF Acts, Step
<1>3. CASE \E b \in Buf, ok \in BOOLEAN : Interrupt(b, ok)
  BY <1>3 DEF CacheInv, ControlInv, ControlAt, Interrupt, task, Syncs
<1>4. CASE UNCHANGED vars
  BY <1>4 DEF CacheInv, ControlInv, ControlAt, vars, task, Syncs
<1> QED
  BY <1>1, <1>2, <1>3, <1>4 DEF Next, Acts

-----------------------------------------------------------------------------
(* The counts                                                              *)

One(p) == IF p THEN 1 ELSE 0

\* Sets of tasks that agree on all tasks but one differ by that one.
LEMMA OneChanges ==
  ASSUME NEW S, NEW T, S \subseteq Task, T \subseteq Task,
         NEW t \in Task, S \ {t} = T \ {t}
  PROVE  /\ Cardinality(S) \in Nat /\ Cardinality(T) \in Nat
         /\ Cardinality(T) + One(t \in S) = Cardinality(S) + One(t \in T)
<1>1. IsFiniteSet(S) /\ IsFiniteSet(T)
  BY FS_Subset, CacheAssumption
<1>2. Cardinality(S) \in Nat /\ Cardinality(T) \in Nat
  BY <1>1, FS_CardinalityType
<1>3. Cardinality(S \ {t})
        = IF t \in S THEN Cardinality(S) - 1 ELSE Cardinality(S)
  BY <1>1, FS_RemoveElement
<1>4. Cardinality(T \ {t})
        = IF t \in T THEN Cardinality(T) - 1 ELSE Cardinality(T)
  BY <1>1, FS_RemoveElement
<1>5. (IF t \in S THEN Cardinality(S) - 1 ELSE Cardinality(S))
        = (IF t \in T THEN Cardinality(T) - 1 ELSE Cardinality(T))
  BY <1>3, <1>4
<1> QED
  BY <1>2, <1>5 DEF One

\* The counts stay exact when the count of each buffer changes as the task that
\* acts takes or drops it.
LEMMA ExactKept ==
  ASSUME TypeInv, ExactInv, count' \in [Buf -> Int], NEW t \in Task, Acts(t),
         \A b \in Buf :
           count'[b] + One(Refers(t, b)) + One(first[t] = b)
             = count[b] + One(Refers(t, b)') + One(first'[t] = b)
  PROVE  ExactInv'
<1> SUFFICES ASSUME NEW b \in Buf
             PROVE  (count[b] = Cardinality({u \in Task : Refers(u, b)})
                                + Cardinality({u \in Task : first[u] = b}))'
  BY DEF ExactInv
<1> DEFINE R == {u \in Task : Refers(u, b)}
           F == {u \in Task : first[u] = b}
<1>1. \A u \in Task \ {t} : /\ Refers(u, b) <=> Refers(u, b)'
                            /\ first[u] = b <=> first'[u] = b
  BY OthersUntouched DEF Refers, Counted
<1>2. /\ R \subseteq Task /\ R' \subseteq Task /\ R \ {t} = R' \ {t}
      /\ F \subseteq Task /\ F' \subseteq Task /\ F \ {t} = F' \ {t}
  BY <1>1
<1>3. /\ t \in R <=> Refers(t, b)
      /\ t \in R' <=> Refers(t, b)'
      /\ t \in F <=> first[t] = b
      /\ t \in F' <=> first'[t] = b
  OBVIOUS
<1>4. count[b] = Cardinality(R) + Cardinality(F)
  BY DEF ExactInv
<1> HIDE DEF R, F
<1>5. /\ Cardinality(R) \in Nat /\ Cardinality(R') \in Nat
      /\ Cardinality(R') + One(t \in R) = Cardinality(R) + One(t \in R')
  BY <1>2, OneChanges
<1>6. /\ Cardinality(F) \in Nat /\ Cardinality(F') \in Nat
      /\ Cardinality(F') + One(t \in F) = Cardinality(F) + One(t \in F')
  BY <1>2, OneChanges
<1>7. /\ count'[b] \in Int
      /\ count'[b] + One(t \in R) + One(t \in F)
           = count[b] + One(t \in R') + One(t \in F')
  BY <1>3 DEF One
<1>8. count'[b] = Cardinality(R') + Cardinality(F')
  BY <1>4, <1>5, <1>6, <1>7 DEF One
<1> QED
  BY <1>8 DEF R, F

\* A buffer that is not counted has no user, and a user is counted.
LEMMA CountedAreUsed ==
  ASSUME TypeInv, ExactInv, NEW b \in Buf
  PROVE  /\ count[b] \in Nat
         /\ count[b] = 0 <=> \A t \in Task : ~Refers(t, b) /\ first[t] # b
<1> DEFINE R == {u \in Task : Refers(u, b)}
           F == {u \in Task : first[u] = b}
<1>1. IsFiniteSet(R) /\ IsFiniteSet(F)
  BY FS_Subset, CacheAssumption
<1>2. count[b] = Cardinality(R) + Cardinality(F)
  BY DEF ExactInv
<1>3. (R = {} /\ F = {}) <=> (\A t \in Task : ~Refers(t, b) /\ first[t] # b)
  OBVIOUS
<1> HIDE DEF R, F
<1>4. /\ Cardinality(R) \in Nat /\ Cardinality(F) \in Nat
      /\ Cardinality(R) = 0 <=> R = {}
      /\ Cardinality(F) = 0 <=> F = {}
  BY <1>1, FS_CardinalityType, FS_EmptySet
<1>5. count[b] \in Nat /\ (count[b] = 0 <=> (R = {} /\ F = {}))
  BY <1>2, <1>4
<1> QED
  BY <1>3, <1>5

\* The counts stay exact when the task that acts goes on using what it uses.
LEMMA SameUse ==
  ASSUME TypeInv, TypeInv', ExactInv, NEW t \in Task, Acts(t), count' = count,
         first'[t] = first[t],
         \A b \in Buf : Refers(t, b) <=> Refers(t, b)'
  PROVE  ExactInv'
<1>1. \A b \in Buf : count'[b] + One(Refers(t, b)) + One(first[t] = b)
                      = count[b] + One(Refers(t, b)') + One(first'[t] = b)
  BY DEF One
<1> QED
  BY <1>1, ExactKept DEF TypeInv

\* Every step keeps the counts exact.
LEMMA ExactStep == CacheInv /\ TypeInv' /\ [Next]_vars => ExactInv'
<1> SUFFICES ASSUME CacheInv, TypeInv', [Next]_vars PROVE ExactInv'
  OBVIOUS
<1>1. TypeInv /\ ControlInv /\ ExactInv
  BY DEF CacheInv
<1>2. ASSUME NEW t \in Task, Acts(t) PROVE ExactInv'
  <2> DEFINE Keeps == /\ count' = count /\ first'[t] = first[t]
                      /\ \A b \in Buf : Refers(t, b) <=> Refers(t, b)'
             Exact == /\ count' \in [Buf -> Int]
                      /\ \A b \in Buf :
                           count'[b] + One(Refers(t, b)) + One(first[t] = b)
                             = count[b] + One(Refers(t, b)') + One(first'[t] = b)
  <2>1. Keeps => ExactInv'
    BY <1>1, <1>2, SameUse
  <2>2. Exact => ExactInv'
    BY <1>1, <1>2, ExactKept
  <2>3. count' \in [Buf -> Int]
    BY DEF TypeInv
  <2>4. pc[t] \in Counted \cup {"victim"} =>
          /\ bh[t] \in Buf /\ want[t] \in Block
          /\ op[t] \in Ops \ {"sync"} /\ sdev[t] = None /\ ~Syncs(t)
    BY <1>1, UserHasBuffer
  <2>5. ControlAt(t) /\ None \notin Buf
    BY <1>1, CacheAssumption DEF ControlInv, Buf
  <2> USE DEF TypeInv, task, store, Goto, Resumes, InSync, Counted, Syncs
  <2>6. CASE WaitOnBuffer(t) \/ SleepElsewhere(t)
    <3>1. Keeps
      BY <2>6 DEF WaitOnBuffer, SleepElsewhere, Refers
    <3> QED
      BY <2>1, <3>1
  <2>7. CASE Find(t)
    <3>1. \A b \in Holding(want[t]) \cup Victims : b \in Buf
      BY DEF Holding, Victims, Unused
    <3>2. ASSUME NEW c \in Buf, bh' = [bh EXCEPT ![t] = c], pc'[t] = "found",
                 count' = [count EXCEPT ![c] = @ + 1], pc[t] = "find",
                 first' = first
          PROVE  Exact
      BY <1>1, <2>3, <3>2 DEF Refers, One
    <3>3. CASE count' = count
      <4>1. Keeps
        BY <1>1, <2>7, <3>3 DEF Find, Refers
      <4> QED
        BY <2>1, <4>1
    <3>4. CASE count' # count
      <4>1. PICK c \in Buf : /\ bh' = [bh EXCEPT ![t] = c] /\ pc'[t] = "found"
                             /\ count' = [count EXCEPT ![c] = @ + 1]
                             /\ pc[t] = "find" /\ first' = first
        BY <1>1, <2>7, <3>1, <3>4 DEF Find
      <4> QED
        BY <2>2, <3>2, <4>1
    <3> QED
      BY <3>3, <3>4
  <2>8. CASE Found(t)
    <3>1. blk[bh[t]] = want[t]
      BY <2>4, <2>8 DEF Found, CacheInv, BlockInv, BlockAt, Refers
    <3>2. Keeps
      BY <1>1, <2>4, <2>8, <3>1 DEF Found, Refers
    <3> QED
      BY <2>1, <3>2
  <2>9. CASE VictimLost(t) \/ VictimDirty(t)
    <3>1. Keeps
      BY <1>1, <2>4, <2>5, <2>9 DEF VictimLost, VictimDirty, Refers
    <3> QED
      BY <2>1, <3>1
  <2>10. CASE Assign(t)
    <3>1. /\ bh[t] \in Buf /\ pc[t] = "victim" /\ pc'[t] = "got" /\ bh' = bh
          /\ count' = [count EXCEPT ![bh[t]] = 1] /\ count[bh[t]] = 0
          /\ first' = first
      BY <1>1, <2>4, <2>10 DEF Assign
    <3>2. Exact
      BY <1>1, <2>3, <3>1 DEF Refers, One
    <3> QED
      BY <2>2, <3>2
  <2>11. CASE SyncNext(t) \/ SyncBuffer(t)
    <3>1. Keeps
      BY <1>1, <2>5, <2>11 DEF SyncNext, SyncBuffer, Refers, ControlAt
    <3> QED
      BY <2>1, <3>1
  <2>12. CASE SubmitRead(t) \/ Request(t)
    <3>1. Keeps
      BY <1>1, <2>4, <2>5, <2>12 DEF SubmitRead, Request, Refers, AfterRead
    <3> QED
      BY <2>1, <3>1
  <2>13. CASE Got(t)
    <3>1. Keeps
      BY <1>1, <2>4, <2>13 DEF Got, Refers
    <3> QED
      BY <2>1, <3>1
  <2>14. CASE Further(t)
    <3>1. /\ pc[t] = "ahead" /\ pc'[t] = "find" /\ bh' = bh /\ count' = count
          /\ first[t] = None /\ first'[t] = bh[t] /\ bh[t] \in Buf
      BY <1>1, <2>4, <2>14 DEF Further
    <3>2. Exact
      BY <1>1, <2>3, <2>5, <3>1 DEF Refers, One
    <3> QED
      BY <2>2, <3>2
  <2>15. CASE ReadAhead(t)
    <3>1. /\ pc[t] = "ahead" /\ pc'[t] = "readwait" /\ bh'[t] = first[t]
          /\ first[t] \in Buf /\ first'[t] = None /\ bh[t] \in Buf
          /\ count' = [count EXCEPT ![bh[t]] = @ - 1]
      BY <1>1, <2>4, <2>15 DEF ReadAhead
    <3>2. blk[first[t]] = want[t] - 1
      BY <2>5, <3>1 DEF CacheInv, BlockInv, BlockAt
    <3>3. blk[bh[t]] = want[t]
      BY <2>4, <3>1 DEF CacheInv, BlockInv, BlockAt, Refers
    <3>4. want[t] \in Nat
      BY <2>4, <3>1 DEF Block
    <3>5. first[t] # bh[t]
      BY <3>2, <3>3, <3>4
    <3>6. Exact
      BY <1>1, <2>3, <2>5, <3>1, <3>5 DEF Refers, One
    <3> QED
      BY <2>2, <3>6
  <2>16. CASE ReadDone(t) \/ Use(t) \/ Copy(t)
    <3>1. Keeps
      BY <1>1, <2>4, <2>16 DEF ReadDone, Use, Copy, Refers
    <3> QED
      BY <2>1, <3>1
  <2>17. CASE brelse(t)
    <3>1. /\ pc[t] = "brelse" /\ pc'[t] = "user" /\ bh[t] \in Buf
          /\ first' = first /\ count' = [count EXCEPT ![bh[t]] = @ - 1]
      BY <1>1, <2>4, <2>17 DEF brelse
    <3>2. Exact
      BY <1>1, <2>3, <3>1 DEF Refers, One
    <3> QED
      BY <2>2, <3>2
  <2>18. CASE (\E o \in Ops, k \in Block : Call(t, o, k)) \/ sys_sync(t)
    <3>1. /\ pc[t] = "user" /\ pc'[t] \in {"find", "sync"}
          /\ count' = count /\ first' = first
      BY <1>1, <2>18 DEF Call, sys_sync
    <3>2. Keeps
      BY <3>1 DEF Refers
    <3> QED
      BY <2>1, <3>2
  <2> QED
    BY <1>2, <2>6, <2>7, <2>8, <2>9, <2>10, <2>11, <2>12, <2>13,
       <2>14, <2>15, <2>16, <2>17, <2>18 DEF Acts, Step
<1>3. ASSUME UNCHANGED <<count, task>> PROVE ExactInv'
  BY <1>1, <1>3 DEF ExactInv, Refers, task
<1> QED
  BY <1>2, <1>3 DEF Next, Acts, Interrupt, vars

-----------------------------------------------------------------------------
(* The blocks of the buffers                                               *)

\* A step keeps every block in one buffer, and every user at its block.
LEMMA BlockStep == CacheInv /\ [Next]_vars => BlockInv'
<1> SUFFICES ASSUME CacheInv, [Next]_vars PROVE BlockInv'
  OBVIOUS
<1>1. TypeInv /\ ControlInv /\ ExactInv /\ BlockInv
  BY DEF CacheInv
<1>2. ASSUME NEW t \in Task, Acts(t), blk' = blk, BlockAt(t)' PROVE BlockInv'
  <2>1. ASSUME NEW u \in Task \ {t} PROVE BlockAt(u)'
    <3>1. BlockAt(u)
      BY <1>1 DEF BlockInv
    <3>2. /\ op'[u] = op[u] /\ want'[u] = want[u] /\ bh'[u] = bh[u]
          /\ first'[u] = first[u] /\ sdev'[u] = sdev[u]
          /\ pc'[u] = pc[u] \/ (pc[u] = "bufwait" /\ pc'[u] = "find")
      BY <1>1, <1>2, OthersUntouched
    <3> QED
      BY <1>2, <3>1, <3>2 DEF BlockAt, Refers, Counted
  <2> QED
    BY <1>1, <1>2, <2>1 DEF BlockInv
<1>3. ASSUME NEW t \in Task, Acts(t) PROVE BlockInv'
  <2>1. pc[t] \in Counted \cup {"victim"} =>
          /\ bh[t] \in Buf /\ want[t] \in Block
          /\ op[t] \in Ops \ {"sync"} /\ sdev[t] = None /\ ~Syncs(t)
    BY <1>1, UserHasBuffer
  <2>2. ControlAt(t) /\ BlockAt(t) /\ None \notin Buf
    BY <1>1, CacheAssumption DEF ControlInv, BlockInv, Buf
  <2>3. blk' = blk /\ BlockAt(t)' => BlockInv'
    BY <1>2, <1>3
  <2> USE DEF TypeInv, task, store, Goto, Resumes, InSync, Counted, Syncs
  <2>4. CASE \/ WaitOnBuffer(t) \/ SleepElsewhere(t)
             \/ VictimLost(t) \/ VictimDirty(t)
    <3>1. blk' = blk /\ BlockAt(t)'
      BY <1>1, <2>1, <2>2, <2>4 DEF WaitOnBuffer, SleepElsewhere, VictimLost,
         VictimDirty, BlockAt, Refers
    <3> QED
      BY <2>3, <3>1
  <2>5. CASE Find(t)
    <3>1. \A b \in Holding(want[t]) : blk[b] = want[t]
      BY DEF Holding
    <3>2. blk' = blk /\ BlockAt(t)'
      BY <1>1, <2>2, <2>5, <3>1 DEF Find, BlockAt, Refers
    <3> QED
      BY <2>3, <3>2
  <2>6. CASE Found(t)
    <3>1. blk' = blk /\ BlockAt(t)'
      BY <1>1, <2>1, <2>2, <2>6 DEF Found, BlockAt, Refers
    <3> QED
      BY <2>3, <3>1
  <2>7. CASE Assign(t)
    <3>1. /\ bh[t] \in Buf /\ want[t] \in Block /\ want[t] # None
          /\ count[bh[t]] = 0 /\ pc[t] = "victim" /\ pc'[t] = "got"
          /\ blk' = [blk EXCEPT ![bh[t]] = want[t]] /\ bh' = bh
          /\ want' = want /\ first' = first /\ op' = op /\ sdev' = sdev
      BY <1>1, <2>1, <2>7, CacheAssumption DEF Assign, Block
    <3>2. \A b \in Buf : blk[b] # want[t]
      BY <2>7 DEF Assign, Holding
    <3>3. \A u \in Task : ~Refers(u, bh[t]) /\ first[u] # bh[t]
      BY <1>1, <3>1, CountedAreUsed
    <3>4. ASSUME NEW u \in Task PROVE BlockAt(u)'
      <4>1. BlockAt(u)
        BY <1>1 DEF BlockInv
      <4>2. CASE u = t
        BY <1>1, <3>1, <3>3, <4>1, <4>2 DEF BlockAt, Refers
      <4>3. CASE u # t
        <5>1. pc'[u] = pc[u] \/ (pc[u] = "bufwait" /\ pc'[u] = "find")
          BY <1>1, <1>3, <4>3, OthersUntouched
        <5> QED
          BY <1>1, <3>1, <3>3, <4>1, <5>1 DEF BlockAt, Refers
      <4> QED
        BY <4>2, <4>3
    <3>5. \A b, c \in Buf : blk'[b] # None /\ blk'[b] = blk'[c] => b = c
      BY <1>1, <3>1, <3>2 DEF BlockInv
    <3> QED
      BY <3>4, <3>5 DEF BlockInv
  <2>8. CASE SyncNext(t) \/ SyncBuffer(t)
    <3>1. blk' = blk /\ BlockAt(t)'
      BY <1>1, <2>2, <2>8 DEF SyncNext, SyncBuffer, BlockAt, Refers, ControlAt
    <3> QED
      BY <2>3, <3>1
  <2>9. CASE SubmitRead(t) \/ Request(t)
    <3>1. blk' = blk /\ BlockAt(t)'
      BY <1>1, <2>1, <2>2, <2>9
      DEF SubmitRead, Request, BlockAt, Refers, ControlAt, AfterRead
    <3> QED
      BY <2>3, <3>1
  <2>10. CASE Got(t)
    <3>1. blk' = blk /\ BlockAt(t)'
      BY <1>1, <2>1, <2>2, <2>10 DEF Got, BlockAt, Refers
    <3> QED
      BY <2>3, <3>1
  <2>11. CASE Further(t)
    <3>1. /\ pc[t] = "ahead" /\ pc'[t] = "find" /\ bh' = bh /\ blk' = blk
          /\ first'[t] = bh[t] /\ bh[t] \in Buf /\ want'[t] = want[t] + 1
          /\ want[t] \in Nat
      BY <1>1, <2>1, <2>11 DEF Further, Block
    <3>2. blk[bh[t]] = want[t]
      BY <2>2, <3>1 DEF BlockAt, Refers
    <3>3. BlockAt(t)'
      BY <3>1, <3>2 DEF BlockAt, Refers
    <3> QED
      BY <2>3, <3>1, <3>3
  <2>12. CASE ReadAhead(t)
    <3>1. /\ pc[t] = "ahead" /\ pc'[t] = "readwait" /\ blk' = blk
          /\ first'[t] = None /\ bh'[t] = first[t] /\ want'[t] = want[t] - 1
          /\ first[t] # None
      BY <1>1, <2>1, <2>12 DEF ReadAhead
    <3>2. BlockAt(t)'
      BY <2>2, <3>1 DEF BlockAt, Refers
    <3> QED
      BY <2>3, <3>1, <3>2
  <2>13. CASE ReadDone(t) \/ Use(t) \/ Copy(t)
    <3>1. blk' = blk /\ BlockAt(t)'
      BY <1>1, <2>1, <2>2, <2>13 DEF ReadDone, Use, Copy, BlockAt, Refers
    <3> QED
      BY <2>3, <3>1
  <2>14. CASE brelse(t)
    <3>1. blk' = blk /\ pc'[t] = "user" /\ first'[t] = None
      BY <1>1, <2>2, <2>14 DEF brelse, ControlAt
    <3>2. BlockAt(t)'
      BY <3>1 DEF BlockAt, Refers
    <3> QED
      BY <2>3, <3>1, <3>2
  <2>15. CASE (\E o \in Ops, k \in Block : Call(t, o, k)) \/ sys_sync(t)
    <3>1. blk' = blk /\ pc'[t] \in {"find", "sync"} /\ first'[t] = None
      <4>1. first[t] = None /\ pc[t] = "user"
        BY <2>2, <2>15, CacheAssumption DEF Call, sys_sync, ControlAt, Ops
      <4> QED
        BY <1>1, <2>15, <4>1 DEF Call, sys_sync
    <3>2. BlockAt(t)'
      BY <3>1 DEF BlockAt, Refers
    <3> QED
      BY <2>3, <3>1, <3>2
  <2> QED
    BY <1>3, <2>4, <2>5, <2>6, <2>7, <2>8, <2>9, <2>10, <2>11, <2>12, <2>13,
       <2>14, <2>15 DEF Acts, Step
<1>4. ASSUME UNCHANGED <<blk, task>> PROVE BlockInv'
  BY <1>1, <1>4 DEF BlockInv, BlockAt, Refers, task
<1> QED
  BY <1>3, <1>4 DEF Next, Acts, Interrupt, vars

-----------------------------------------------------------------------------
(* The locks of the buffers                                                *)

\* What a step of t has to keep: the other tasks that are about to make a
\* request still have their buffer, and it is not the one that t asks for.
LEMMA LockKept ==
  ASSUME TypeInv, LockInv, NEW t \in Task, Acts(t),
         \A b \in Buf : /\ io'[b] # "none" => lock'[b] /\ blk'[b] # None
                        /\ io'[b] = "READ" => ~uptodate'[b]
                        /\ dirt'[b] => blk'[b] # None,
         RequestAt(t)',
         \A u \in Task \ {t} : pc[u] = "request" =>
           /\ lock'[Target(u)] /\ io'[Target(u)] = "none"
           /\ blk'[Target(u)] # None
           /\ ~Syncs(u) => ~uptodate'[bh[u]]
           /\ pc'[t] = "request" => Target(t)' # Target(u)
  PROVE  LockInv'
<1>1. ASSUME NEW u \in Task \ {t}
      PROVE  /\ (pc'[u] = "request") <=> (pc[u] = "request")
             /\ Target(u)' = Target(u) /\ Syncs(u)' = Syncs(u)
             /\ bh'[u] = bh[u]
  BY OthersUntouched DEF Target, Syncs
<1>2. ASSUME NEW u \in Task \ {t} PROVE RequestAt(u)'
  BY <1>1 DEF RequestAt
<1>3. ASSUME NEW u \in Task, NEW v \in Task, pc'[u] = "request",
             pc'[v] = "request", Target(u)' = Target(v)'
      PROVE  u = v
  <2>1. CASE u # t /\ v # t
    BY <1>1, <1>3, <2>1 DEF LockInv
  <2>2. CASE u = t /\ v # t
    BY <1>1, <1>3, <2>2
  <2>3. CASE v = t /\ u # t
    BY <1>1, <1>3, <2>3
  <2> QED
    BY <2>1, <2>2, <2>3
<1> QED
  BY <1>2, <1>3 DEF LockInv

\* Every step keeps the locks in order.
LEMMA LockStep == CacheInv /\ [Next]_vars => LockInv'
<1> SUFFICES ASSUME CacheInv, [Next]_vars PROVE LockInv'
  OBVIOUS
<1>1. TypeInv /\ ControlInv /\ ExactInv /\ BlockInv /\ LockInv
  BY DEF CacheInv
<1>2. \A u \in Task : pc[u] = "request" => Target(u) \in Buf
  BY <1>1, TargetIsBuffer
<1>3. ASSUME NEW t \in Task, Acts(t) PROVE LockInv'
  <2>1. pc[t] \in Counted \cup {"victim"} =>
          /\ bh[t] \in Buf /\ want[t] \in Block
          /\ op[t] \in Ops \ {"sync"} /\ sdev[t] = None /\ ~Syncs(t)
    BY <1>1, UserHasBuffer
  <2>2. ControlAt(t) /\ BlockAt(t) /\ RequestAt(t)
    BY <1>1 DEF ControlInv, BlockInv, LockInv
  <2>3. None \notin Buf /\ None \notin Block
    BY CacheAssumption DEF Buf, Block
  <2> DEFINE BufsOK == \A b \in Buf : /\ io[b] # "none" => lock[b] /\ blk[b] # None
                                      /\ io[b] = "READ" => ~uptodate[b]
                                      /\ dirt[b] => blk[b] # None
             OthersOK == \A u \in Task \ {t} : pc[u] = "request" =>
                           /\ lock'[Target(u)] /\ io'[Target(u)] = "none"
                           /\ blk'[Target(u)] # None
                           /\ ~Syncs(u) => ~uptodate'[bh[u]]
                           /\ pc'[t] = "request" => Target(t)' # Target(u)
  <2>4. BufsOK' /\ RequestAt(t)' /\ OthersOK => LockInv'
    BY <1>1, <1>3, LockKept
  <2>5. BufsOK /\ \A u \in Task : RequestAt(u)
    BY <1>1 DEF LockInv
  <2>6. ASSUME UNCHANGED <<blk, lock, io, uptodate>>, BufsOK', pc'[t] # "request"
        PROVE  LockInv'
    <3>1. OthersOK /\ RequestAt(t)'
      BY <2>5, <2>6 DEF RequestAt
    <3> QED
      BY <2>4, <2>6, <3>1
  <2>7. ASSUME UNCHANGED <<blk, lock, io, uptodate, dirt>>, pc'[t] # "request"
        PROVE  LockInv'
    BY <2>5, <2>6, <2>7
  <2> USE DEF TypeInv, task, store, Goto, Resumes, InSync, Counted
  <2>8. CASE WaitOnBuffer(t) \/ SleepElsewhere(t)
    BY <1>1, <2>8 DEF WaitOnBuffer, SleepElsewhere, LockInv, RequestAt, Target,
       Syncs
  <2>9. CASE \/ Find(t) \/ Found(t) \/ VictimLost(t) \/ VictimDirty(t)
             \/ SyncNext(t) \/ Got(t) \/ Further(t) \/ ReadDone(t) \/ brelse(t)
             \/ (\E o \in Ops, k \in Block : Call(t, o, k)) \/ sys_sync(t)
    <3>1. UNCHANGED <<blk, lock, io, uptodate, dirt>>
      BY <2>9 DEF Find, Found, VictimLost, VictimDirty, SyncNext, Got, Further,
         ReadDone, brelse, Call, sys_sync
    <3>2. pc'[t] # "request"
      BY <1>1, <2>9 DEF Find, Found, VictimLost, VictimDirty, SyncNext, Got,
         Further, ReadDone, brelse, Call, sys_sync
    <3> QED
      BY <2>7, <3>1, <3>2
  <2>10. CASE Use(t) \/ Copy(t)
    <3>1. /\ UNCHANGED <<blk, lock, io, uptodate>> /\ pc'[t] # "request"
          /\ dirt' \in {dirt, [dirt EXCEPT ![bh[t]] = TRUE]}
          /\ pc[t] \in {"use", "copy"} /\ bh[t] \in Buf /\ want[t] \in Block
      BY <1>1, <2>1, <2>10 DEF Use, Copy
    <3>2. blk[bh[t]] # None
      BY <2>2, <2>3, <3>1 DEF BlockAt, Refers
    <3>3. BufsOK'
      BY <1>1, <2>5, <3>1, <3>2
    <3> QED
      BY <2>6, <3>1, <3>3
  <2>11. CASE Assign(t)
    <3>1. /\ bh[t] \in Buf /\ want[t] \in Block /\ ~lock[bh[t]] /\ ~dirt[bh[t]]
          /\ uptodate' = [uptodate EXCEPT ![bh[t]] = FALSE]
          /\ blk' = [blk EXCEPT ![bh[t]] = want[t]]
          /\ pc'[t] = "got" /\ UNCHANGED <<lock, io, dirt>>
      BY <1>1, <2>1, <2>11 DEF Assign
    <3>2. BufsOK'
      BY <1>1, <2>3, <2>5, <3>1
    <3>3. OthersOK
      BY <1>1, <1>2, <2>5, <3>1 DEF RequestAt
    <3>4. RequestAt(t)'
      BY <3>1 DEF RequestAt
    <3> QED
      BY <2>4, <3>2, <3>3, <3>4
  <2>12. CASE SyncBuffer(t)
    <3> DEFINE b == Nth(i[t])
               write == dirt[b] /\ (sdev[t] # None => DevOf[blk[b]] = sdev[t])
    <3>1. /\ UNCHANGED <<blk, io, uptodate, dirt, op, sdev, bh>> /\ ~lock[b]
          /\ lock' = [lock EXCEPT ![b] = write] /\ pc[t] = "syncwait"
          /\ pc'[t] = IF write THEN "request" ELSE "sync"
          /\ write => i' = i
      BY <1>1, <2>12 DEF SyncBuffer
    <3>2. b \in Buf /\ Syncs(t)
      <4>1. i[t] \in 1 .. 2 * NR_BUFFERS
        BY <1>1, <2>2, <3>1, CacheAssumption DEF ControlAt
      <4> QED
        BY <2>2, <3>1, <4>1, NthIsBuffer DEF ControlAt
    <3>3. write \in BOOLEAN
      BY <1>1, <3>2
    <3>4. Syncs(t)' /\ (write => Target(t)' = b)
      BY <3>1, <3>2 DEF Syncs, Target, Nth
    <3> HIDE DEF b
    <3>5. io[b] = "none" /\ (write => blk[b] # None)
      BY <1>1, <2>5, <3>1, <3>2
    <3>6. BufsOK'
      BY <1>1, <2>5, <3>1, <3>2, <3>5
    <3>7. \A u \in Task : pc[u] = "request" => Target(u) # b
      BY <2>5, <3>1 DEF RequestAt
    <3>8. OthersOK
      BY <1>1, <1>2, <2>5, <3>1, <3>4, <3>7 DEF RequestAt
    <3>9. RequestAt(t)'
      BY <1>1, <3>1, <3>2, <3>4, <3>5 DEF RequestAt
    <3> QED
      BY <2>4, <3>6, <3>8, <3>9
  <2>13. CASE SubmitRead(t)
    <3>1. /\ UNCHANGED <<blk, io, uptodate, dirt, op, sdev, bh>> /\ ~lock[bh[t]]
          /\ lock' = [lock EXCEPT ![bh[t]] = ~uptodate[bh[t]]]
          /\ pc[t] = "submit" /\ bh[t] \in Buf /\ want[t] \in Block /\ ~Syncs(t)
          /\ pc'[t] # "request" \/ ~uptodate[bh[t]]
      BY <1>1, <2>1, <2>13 DEF SubmitRead, AfterRead
    <3>2. /\ ~Syncs(t)' /\ Target(t)' = bh[t] /\ blk[bh[t]] = want[t]
          /\ io[bh[t]] = "none"
      BY <1>1, <2>2, <2>5, <3>1 DEF Syncs, Target, BlockAt, Refers
    <3>3. BufsOK'
      BY <1>1, <2>5, <3>1, <3>2
    <3>4. \A u \in Task : pc[u] = "request" => Target(u) # bh[t]
      BY <2>5, <3>1 DEF RequestAt
    <3>5. OthersOK
      BY <1>1, <1>2, <2>5, <3>1, <3>2, <3>4 DEF RequestAt
    <3>6. RequestAt(t)'
      <4>1. CASE uptodate[bh[t]]
        BY <3>1, <4>1 DEF RequestAt
      <4>2. CASE ~uptodate[bh[t]]
        <5>1. /\ lock'[bh[t]] /\ io'[bh[t]] = "none" /\ blk'[bh[t]] # None
              /\ ~uptodate'[bh'[t]]
          BY <1>1, <2>3, <3>1, <3>2, <4>2
        <5> QED
          BY <3>2, <5>1 DEF RequestAt
      <4> QED
        BY <4>1, <4>2
    <3> QED
      BY <2>4, <3>3, <3>5, <3>6
  <2>14. CASE Request(t)
    <3> DEFINE b == Target(t)
    <3>1. /\ UNCHANGED <<blk, lock, uptodate>> /\ pc[t] = "request"
          /\ dirt' = [dirt EXCEPT ![b] = FALSE]
          /\ io' = [io EXCEPT ![b] = IF Syncs(t) THEN "WRITE" ELSE "READ"]
          /\ pc'[t] # "request"
      BY <1>1, <2>14 DEF Request, Target, Syncs, AfterRead
    <3>2. /\ b \in Buf /\ lock[b] /\ blk[b] # None
          /\ ~Syncs(t) => ~uptodate[b]
      BY <1>2, <2>2, <3>1 DEF RequestAt, Target
    <3>3. \A u \in Task \ {t} : pc[u] = "request" => Target(u) # b
      BY <1>1, <3>1 DEF LockInv
    <3> HIDE DEF b
    <3>4. BufsOK'
      BY <1>1, <2>5, <3>1, <3>2
    <3>5. OthersOK
      BY <1>1, <1>2, <2>5, <3>1, <3>2, <3>3 DEF RequestAt
    <3>6. RequestAt(t)'
      BY <3>1 DEF RequestAt
    <3> QED
      BY <2>4, <3>4, <3>5, <3>6
  <2>15. CASE ReadAhead(t)
    <3> DEFINE b == first[t]
    <3>1. UNCHANGED <<blk, uptodate>> /\ pc'[t] = "readwait" /\ b \in Buf
      BY <1>1, <2>15 DEF ReadAhead
    <3>2. \/ UNCHANGED <<lock, io, dirt>>
          \/ /\ ~lock[b] /\ ~uptodate[b]
             /\ lock' = [lock EXCEPT ![b] = TRUE]
             /\ io' = [io EXCEPT ![b] = "READ"]
             /\ dirt' = [dirt EXCEPT ![b] = FALSE]
      BY <1>1, <2>15 DEF ReadAhead
    <3>3. CASE UNCHANGED <<lock, io, dirt>>
      BY <2>7, <3>1, <3>3
    <3>4. CASE /\ ~lock[b] /\ ~uptodate[b]
               /\ lock' = [lock EXCEPT ![b] = TRUE]
               /\ io' = [io EXCEPT ![b] = "READ"]
               /\ dirt' = [dirt EXCEPT ![b] = FALSE]
      <4>1. blk[b] # None
        <5>1. want[t] - 1 \in Nat /\ blk[b] = want[t] - 1
          BY <1>1, <2>1, <2>2, <2>3, <2>15, <3>1
          DEF ReadAhead, BlockAt, Block
        <5> QED
          BY <5>1, CacheAssumption
      <4>2. BufsOK'
        BY <1>1, <2>5, <3>1, <3>4, <4>1
      <4>3. OthersOK
        BY <1>1, <1>2, <2>5, <3>1, <3>4 DEF RequestAt
      <4>4. RequestAt(t)'
        BY <3>1 DEF RequestAt
      <4> QED
        BY <2>4, <4>2, <4>3, <4>4
    <3> QED
      BY <3>2, <3>3, <3>4
  <2> QED
    BY <1>3, <2>8, <2>9, <2>10, <2>11, <2>12, <2>13, <2>14, <2>15
    DEF Acts, Step
<1>4. ASSUME NEW b \in Buf, NEW ok \in BOOLEAN, Interrupt(b, ok) PROVE LockInv'
  <2>1. /\ UNCHANGED <<task, blk, dirt>> /\ io[b] # "none"
        /\ lock' = [lock EXCEPT ![b] = FALSE]
        /\ uptodate' = [uptodate EXCEPT ![b] = ok]
        /\ io' = [io EXCEPT ![b] = "none"]
    BY <1>4 DEF Interrupt
  <2>2. \A u \in Task : /\ Target(u)' = Target(u) /\ Syncs(u)' = Syncs(u)
                        /\ pc'[u] = pc[u] /\ bh'[u] = bh[u]
    BY <2>1 DEF Target, Syncs, task, Nth
  <2>3. \A u \in Task : pc[u] = "request" => /\ Target(u) # b
                                           /\ (~Syncs(u) => bh[u] # b)
    BY <1>1, <2>1 DEF LockInv, RequestAt, Target
  <2>4. \A u \in Task : RequestAt(u)'
    BY <1>1, <1>2, <2>1, <2>2, <2>3 DEF LockInv, RequestAt, TypeInv
  <2> QED
    BY <1>1, <2>1, <2>2, <2>4 DEF LockInv, TypeInv
<1>5. CASE UNCHANGED vars
  BY <1>1, <1>5 DEF LockInv, RequestAt, Target, Syncs, vars, task, store
<1> QED
  BY <1>3, <1>4, <1>5 DEF Next, Acts

\* The invariant is inductive.
LEMMA CacheStep == CacheInv /\ [Next]_vars => CacheInv'
BY TypeStep, ControlStep, ExactStep, BlockStep, LockStep DEF CacheInv

-----------------------------------------------------------------------------
(* The data of the buffers                                                 *)

\* Who acts has the processor, or takes it.
LEMMA ActsOnCpu ==
  ASSUME NEW t \in Task, Acts(t)
  PROVE  cpu \in {t, None}
BY DEF Acts, Step, WaitOnBuffer, SleepElsewhere, Find, Found, VictimLost,
       VictimDirty, Assign, SyncNext, SyncBuffer, SubmitRead, Request, Got,
       Further, ReadAhead, ReadDone, Use, Copy, brelse, Call, sys_sync, Resumes

\* Every step keeps what was written.
LEMMA DataStep ==
  ASSUME CopiesDoNotSleep
  PROVE  CacheInv /\ DataInv /\ [Next]_vars => DataInv'
<1> SUFFICES ASSUME CacheInv, DataInv, [Next]_vars PROVE DataInv'
  OBVIOUS
<1>1. TypeInv /\ ControlInv /\ BlockInv /\ LockInv
  BY DEF CacheInv
<1>2. CopyInv /\ SentInv /\ KeptInv
  BY DEF DataInv
<1>3. ASSUME NEW t \in Task, Acts(t) PROVE DataInv'
  <2> DEFINE CopyAt == pc[t] = "copy" =>
                         cpu = t /\ (op[t] = "file_write" => dirt[bh[t]])
  <2>1. CopyAt' => CopyInv'
    <3>1. \A u \in Task \ {t} : pc[u] # "copy"
      BY <1>2, <1>3, ActsOnCpu, CacheAssumption DEF CopyInv
    <3>2. \A u \in Task \ {t} : pc'[u] # "copy"
      BY <1>1, <1>3, <3>1, OthersUntouched
    <3> QED
      BY <3>2 DEF CopyInv
  <2>2. ASSUME UNCHANGED <<blk, uptodate, dirt, store>>, CopyAt' PROVE DataInv'
    BY <1>2, <2>1, <2>2 DEF DataInv, SentInv, KeptInv, store
  <2>3. pc[t] \in Counted \cup {"victim"} =>
          /\ bh[t] \in Buf /\ want[t] \in Block
          /\ op[t] \in Ops \ {"sync"} /\ sdev[t] = None /\ ~Syncs(t)
    BY <1>1, UserHasBuffer
  <2>4. ControlAt(t)
    BY <1>1 DEF ControlInv
  <2> USE DEF TypeInv, task, store, Goto, Resumes, Counted
  <2>5. CASE \/ WaitOnBuffer(t) \/ SleepElsewhere(t)
             \/ Find(t) \/ Found(t) \/ VictimLost(t) \/ VictimDirty(t)
             \/ SyncNext(t) \/ SyncBuffer(t) \/ SubmitRead(t) \/ Further(t)
             \/ ReadDone(t) \/ brelse(t)
             \/ (\E o \in Ops, k \in Block : Call(t, o, k)) \/ sys_sync(t)
    <3>1. UNCHANGED <<blk, uptodate, dirt, store>>
      BY <2>5 DEF WaitOnBuffer, SleepElsewhere, Find, Found, VictimLost,
         VictimDirty, SyncNext, SyncBuffer, SubmitRead, Further, ReadDone,
         brelse, Call, sys_sync
    <3>2. pc'[t] # "copy"
      <4>1. CASE WaitOnBuffer(t) \/ SleepElsewhere(t)
        BY <4>1 DEF WaitOnBuffer, SleepElsewhere, Awaits, CopiesDoNotSleep
      <4>2. CASE Find(t) \/ Found(t) \/ VictimLost(t) \/ VictimDirty(t)
        BY <1>1, <4>2 DEF Find, Found, VictimLost, VictimDirty
      <4>3. CASE \/ SyncNext(t) \/ SyncBuffer(t) \/ SubmitRead(t)
                 \/ Further(t) \/ ReadDone(t) \/ brelse(t)
        BY <1>1, <4>3 DEF SyncNext, SyncBuffer, SubmitRead, Further, ReadDone,
           brelse, AfterRead
      <4>4. CASE (\E o \in Ops, k \in Block : Call(t, o, k)) \/ sys_sync(t)
        BY <1>1, <4>4 DEF Call, sys_sync
      <4> QED
        BY <2>5, <4>1, <4>2, <4>3, <4>4
    <3> QED
      BY <2>2, <3>1, <3>2
  <2>6. CASE Got(t)
    <3>1. UNCHANGED <<blk, uptodate, dirt, store, op, cpu>> /\ cpu = t
      BY <2>6 DEF Got
    <3>2. pc'[t] = "copy" => op[t] = "block_write"
      BY <1>1, <2>6 DEF Got
    <3> QED
      BY <2>2, <3>1, <3>2
  <2>7. CASE Assign(t)
    <3>1. /\ uptodate' = [uptodate EXCEPT ![bh[t]] = FALSE]
          /\ blk' = [blk EXCEPT ![bh[t]] = want[t]]
          /\ UNCHANGED <<dirt, store>> /\ bh[t] \in Buf /\ pc'[t] = "got"
      BY <1>1, <2>3, <2>7 DEF Assign
    <3>2. SentInv' /\ KeptInv'
      BY <1>1, <1>2, <3>1 DEF SentInv, KeptInv
    <3> QED
      BY <2>1, <3>1, <3>2 DEF DataInv
  <2>8. CASE Request(t)
    <3> DEFINE b == Target(t)
    <3>1. /\ UNCHANGED <<blk, uptodate, data, disk>> /\ pc[t] = "request"
          /\ dirt' = [dirt EXCEPT ![b] = FALSE]
          /\ io' = [io EXCEPT ![b] = IF Syncs(t) THEN "WRITE" ELSE "READ"]
          /\ sent' = IF Syncs(t) THEN [sent EXCEPT ![b] = data[b]] ELSE sent
          /\ pc'[t] # "copy"
      BY <1>1, <2>8 DEF Request, Target, Syncs, AfterRead
    <3>2. b \in Buf /\ (~Syncs(t) => ~uptodate[b])
      BY <1>1, <3>1, TargetIsBuffer DEF LockInv, RequestAt, Target
    <3> HIDE DEF b
    <3>3. SentInv' /\ KeptInv'
      <4>1. CASE Syncs(t)
        BY <1>1, <1>2, <3>1, <3>2, <4>1 DEF SentInv, KeptInv
      <4>2. CASE ~Syncs(t)
        BY <1>1, <1>2, <3>1, <3>2, <4>2 DEF SentInv, KeptInv
      <4> QED
        BY <4>1, <4>2
    <3> QED
      BY <2>1, <3>1, <3>3 DEF DataInv
  <2>9. CASE ReadAhead(t)
    <3> DEFINE b == first[t]
    <3>1. /\ UNCHANGED <<blk, uptodate, data, sent, disk>> /\ b \in Buf
          /\ pc'[t] = "readwait"
          /\ \/ UNCHANGED <<io, dirt>>
             \/ /\ ~uptodate[b]
                /\ io' = [io EXCEPT ![b] = "READ"]
                /\ dirt' = [dirt EXCEPT ![b] = FALSE]
      BY <1>1, <2>9 DEF ReadAhead
    <3> HIDE DEF b
    <3>2. SentInv' /\ KeptInv'
      BY <1>1, <1>2, <3>1 DEF SentInv, KeptInv
    <3> QED
      BY <2>1, <3>1, <3>2 DEF DataInv
  <2>10. CASE Use(t)
    <3>1. /\ UNCHANGED <<blk, uptodate, store, bh, op>> /\ cpu' = t
          /\ bh[t] \in Buf
          /\ \/ pc'[t] # "copy" /\ dirt' = dirt
             \/ dirt' = [dirt EXCEPT ![bh[t]] = TRUE]
      BY <1>1, <2>3, <2>10 DEF Use
    <3>2. SentInv' /\ KeptInv'
      BY <1>1, <1>2, <3>1 DEF SentInv, KeptInv
    <3> QED
      BY <1>1, <2>1, <3>1, <3>2 DEF DataInv
  <2>11. CASE Copy(t)
    <3>1. /\ UNCHANGED <<blk, uptodate, io, sent, disk>> /\ bh[t] \in Buf
          /\ data' = [data EXCEPT ![bh[t]] = 1 - @] /\ pc'[t] = "brelse"
          /\ dirt' = IF op[t] = "block_write" THEN [dirt EXCEPT ![bh[t]] = TRUE]
                     ELSE dirt
          /\ pc[t] = "copy"
      BY <1>1, <2>3, <2>11 DEF Copy
    <3>2. op[t] = "block_write" \/ dirt[bh[t]]
      BY <1>2, <2>4, <3>1 DEF CopyInv, ControlAt
    <3>3. dirt'[bh[t]] /\ \A b \in Buf : dirt[b] => dirt'[b]
      BY <1>1, <3>1, <3>2
    <3>4. \A b \in Buf : b # bh[t] => data'[b] = data[b]
      BY <1>1, <3>1
    <3>5. SentInv' /\ KeptInv'
      BY <1>1, <1>2, <3>1, <3>3, <3>4 DEF SentInv, KeptInv
    <3> QED
      BY <2>1, <3>1, <3>5 DEF DataInv
  <2> QED
    BY <1>3, <2>5, <2>6, <2>7, <2>8, <2>9, <2>10, <2>11 DEF Acts, Step
<1>4. ASSUME NEW b \in Buf, NEW ok \in BOOLEAN, Interrupt(b, ok) PROVE DataInv'
  <2>1. /\ UNCHANGED <<cpu, task, blk, dirt>> /\ io[b] # "none"
        /\ uptodate' = [uptodate EXCEPT ![b] = ok]
        /\ io' = [io EXCEPT ![b] = "none"]
        /\ sent' = [sent EXCEPT ![b] = 0]
    BY <1>4 DEF Interrupt
  <2>2. CopyInv'
    BY <1>2, <2>1 DEF CopyInv, task
  <2>3. \A c \in Buf \ {b} : data'[c] = data[c]
    BY <1>1, <1>4 DEF Interrupt, TypeInv
  <2>4. SentInv'
    BY <1>1, <1>2, <2>1, <2>3 DEF SentInv, TypeInv
  <2>5. ASSUME NEW c \in Buf, blk[c] # None, uptodate'[c],
               data'[c] # disk'[blk[c]]
        PROVE  dirt[c] \/ (io'[c] = "WRITE" /\ data'[c] = sent'[c])
    <3>1. blk[c] \in Block /\ blk[b] \in Block
      BY <1>1, <2>1, <2>5 DEF TypeInv, LockInv
    <3>2. CASE c = b
      <4>1. ok /\ data[b] # disk'[blk[b]] /\ io[b] = "WRITE" /\ data'[b] = data[b]
        BY <1>1, <1>4, <2>1, <2>5, <3>1, <3>2 DEF Interrupt, TypeInv
      <4>2. disk'[blk[b]] \in {sent[b], data[b]}
        BY <1>1, <1>4, <3>1, <4>1 DEF Interrupt, TypeInv
      <4> QED
        BY <1>2, <3>2, <4>1, <4>2 DEF SentInv
    <3>3. CASE c # b
      <4>1. blk[c] # blk[b]
        BY <1>1, <2>5, <3>3 DEF BlockInv
      <4>2. disk'[blk[c]] = disk[blk[c]]
        BY <1>1, <1>4, <3>1, <4>1 DEF Interrupt, TypeInv
      <4>3. /\ data'[c] = data[c] /\ uptodate'[c] = uptodate[c]
            /\ io'[c] = io[c] /\ sent'[c] = sent[c]
        BY <1>1, <2>1, <2>3, <3>3 DEF TypeInv
      <4> QED
        BY <1>2, <2>5, <4>2, <4>3 DEF KeptInv
    <3> QED
      BY <3>2, <3>3
  <2>6. KeptInv'
    BY <2>1, <2>5 DEF KeptInv
  <2> QED
    BY <2>2, <2>4, <2>6 DEF DataInv
<1>5. CASE UNCHANGED vars
  BY <1>2, <1>5 DEF DataInv, CopyInv, SentInv, KeptInv, vars, task, store
<1> QED
  BY <1>3, <1>4, <1>5 DEF Next, Acts

-----------------------------------------------------------------------------
(* The sleepers on buffer_wait                                             *)

\* The task has a buffer that it will release.
Holds(t) == first[t] # None \/ \E b \in Buf : Refers(t, b)

\* All buffers cannot be the first blocks of as many breadas: there are fewer
\* tasks.
LEMMA SomeBufferIsNotFirst ==
  ASSUME EnoughBuffers, TypeInv
  PROVE  \E b \in Buf : \A t \in Task : first[t] # b
<1> SUFFICES ASSUME \A b \in Buf : \E t \in Task : first[t] = b PROVE FALSE
  OBVIOUS
<1> DEFINE f == [t \in Task |-> IF first[t] = None THEN 1 ELSE first[t]]
<1>1. f \in [Task -> Buf]
  BY CacheAssumption DEF TypeInv, Buf
<1>2. \A b \in Buf : \E t \in Task : f[t] = b
  BY CacheAssumption DEF Buf
<1> HIDE DEF f
<1>3. f \in Surjection(Task, Buf)
  BY <1>1, <1>2 DEF Surjection
<1>4. Cardinality(Buf) <= Cardinality(Task)
  BY <1>3, FS_Surjection, CacheAssumption
<1>5. Cardinality(Buf) = NR_BUFFERS
  BY FS_Interval, CacheAssumption DEF Buf
<1>6. Cardinality(Task) \in Nat
  BY FS_CardinalityType, CacheAssumption
<1> QED
  BY <1>4, <1>5, <1>6, CacheAssumption DEF EnoughBuffers

\* Every step leaves a holder for every sleeper.
LEMMA SleeperStep ==
  ASSUME EnoughBuffers
  PROVE  CacheInv /\ SleeperIsWoken /\ [Next]_vars => SleeperIsWoken'
<1> SUFFICES ASSUME CacheInv, SleeperIsWoken, [Next]_vars PROVE SleeperIsWoken'
  OBVIOUS
<1>1. TypeInv /\ ControlInv /\ ExactInv /\ BlockInv
  BY DEF CacheInv
<1>2. ASSUME NEW t \in Task, Acts(t) PROVE SleeperIsWoken'
  <2>1. \A u \in Task \ {t} :
          /\ pc'[u] = pc[u] \/ (pc[u] = "bufwait" /\ pc'[u] = "find")
          /\ first'[u] = first[u]
          /\ \A b \in Buf : Refers(u, b) => Refers(u, b)'
    BY <1>1, <1>2, OthersUntouched DEF Refers, Counted
  <2>2. ASSUME pc'[t] # "bufwait", pc[t] # "bufwait", Holds(t) => Holds(t)'
        PROVE  SleeperIsWoken'
    <3> SUFFICES ASSUME NEW s \in Task, pc'[s] = "bufwait"
                 PROVE  \E u \in Task : pc'[u] # "bufwait" /\ Holds(u)'
      BY DEF SleeperIsWoken, Holds
    <3>1. pc[s] = "bufwait"
      BY <2>1, <2>2
    <3>2. PICK u \in Task : pc[u] # "bufwait" /\ Holds(u)
      BY <3>1 DEF SleeperIsWoken, Holds
    <3>3. pc'[u] # "bufwait" /\ Holds(u)'
      BY <2>1, <2>2, <3>2 DEF Holds
    <3> QED
      BY <3>3
  <2>3. pc[t] \in Counted \cup {"victim"} =>
          /\ bh[t] \in Buf /\ want[t] \in Block
          /\ op[t] \in Ops \ {"sync"} /\ sdev[t] = None /\ ~Syncs(t)
    BY <1>1, UserHasBuffer
  <2>4. ControlAt(t) /\ BlockAt(t) /\ None \notin Buf
    BY <1>1, CacheAssumption DEF ControlInv, BlockInv, Buf
  <2> DEFINE Uses == /\ first'[t] = first[t]
                     /\ \A b \in Buf : Refers(t, b) => Refers(t, b)'
  <2>5. Uses => (Holds(t) => Holds(t)')
    BY DEF Holds
  <2> USE DEF TypeInv, task, store, Goto, Resumes, InSync, Counted, Syncs
  <2>6. CASE WaitOnBuffer(t) \/ SleepElsewhere(t)
    <3>1. Uses /\ pc' = pc /\ pc[t] # "bufwait"
      BY <2>6, CacheAssumption
      DEF WaitOnBuffer, SleepElsewhere, Awaits, Refers
    <3> QED
      BY <2>2, <2>5, <3>1
  <2>7. CASE Find(t)
    <3>1. /\ pc[t] = "find" /\ first' = first
          /\ \/ pc'[t] # "bufwait"
             \/ Unused = {} /\ pc' = [pc EXCEPT ![t] = "bufwait"] /\ bh' = bh
      BY <1>1, <2>7 DEF Find
    <3>2. CASE pc'[t] # "bufwait"
      BY <2>2, <2>5, <3>1, <3>2 DEF Refers
    <3>3. CASE Unused = {} /\ pc' = [pc EXCEPT ![t] = "bufwait"] /\ bh' = bh
      <4>1. PICK b \in Buf : \A u \in Task : first[u] # b
        BY <1>1, SomeBufferIsNotFirst
      <4>2. count[b] # 0
        BY <3>3 DEF Unused
      <4>3. PICK u \in Task : Refers(u, b)
        BY <1>1, <4>1, <4>2, CountedAreUsed
      <4>4. u # t /\ pc'[u] # "bufwait"
        BY <1>1, <3>1, <3>3, <4>3 DEF Refers
      <4>5. Refers(u, b)'
        BY <2>1, <4>3, <4>4
      <4> QED
        BY <4>4, <4>5 DEF SleeperIsWoken
    <3> QED
      BY <3>1, <3>2, <3>3
  <2>8. CASE Found(t)
    <3>1. blk[bh[t]] = want[t]
      BY <2>3, <2>4, <2>8 DEF Found, BlockAt, Refers
    <3>2. Uses /\ pc[t] # "bufwait" /\ pc'[t] # "bufwait"
      BY <1>1, <2>3, <2>8, <3>1 DEF Found, Refers
    <3> QED
      BY <2>2, <2>5, <3>2
  <2>9. CASE VictimLost(t) \/ VictimDirty(t) \/ Assign(t)
    <3>1. Uses /\ pc[t] # "bufwait" /\ pc'[t] # "bufwait"
      BY <1>1, <2>3, <2>4, <2>9 DEF VictimLost, VictimDirty, Assign, Refers
    <3> QED
      BY <2>2, <2>5, <3>1
  <2>10. CASE SyncNext(t) \/ SyncBuffer(t)
    <3>1. Uses /\ pc[t] # "bufwait" /\ pc'[t] # "bufwait"
      BY <1>1, <2>4, <2>10 DEF SyncNext, SyncBuffer, Refers, ControlAt
    <3> QED
      BY <2>2, <2>5, <3>1
  <2>11. CASE SubmitRead(t) \/ Request(t)
    <3>1. Uses /\ pc[t] # "bufwait" /\ pc'[t] # "bufwait"
      BY <1>1, <2>3, <2>4, <2>11 DEF SubmitRead, Request, Refers, AfterRead
    <3> QED
      BY <2>2, <2>5, <3>1
  <2>12. CASE Got(t)
    <3>1. Uses /\ pc[t] # "bufwait" /\ pc'[t] # "bufwait"
      BY <1>1, <2>3, <2>12 DEF Got, Refers
    <3> QED
      BY <2>2, <2>5, <3>1
  <2>13. CASE Further(t)
    <3>1. pc[t] = "ahead" /\ pc'[t] = "find" /\ first'[t] # None
      BY <1>1, <2>3, <2>4, <2>13 DEF Further
    <3> QED
      BY <2>2, <3>1 DEF Holds
  <2>14. CASE ReadAhead(t)
    <3>1. /\ pc[t] = "ahead" /\ pc'[t] = "readwait" /\ bh'[t] = first[t]
          /\ first[t] \in Buf
      BY <1>1, <2>14 DEF ReadAhead
    <3>2. Holds(t)'
      BY <3>1 DEF Holds, Refers
    <3> QED
      BY <2>2, <3>1, <3>2
  <2>15. CASE ReadDone(t) \/ Use(t) \/ Copy(t)
    <3>1. Uses /\ pc[t] # "bufwait" /\ pc'[t] # "bufwait"
      BY <1>1, <2>3, <2>15 DEF ReadDone, Use, Copy, Refers
    <3> QED
      BY <2>2, <2>5, <3>1
  <2>16. CASE brelse(t)
    <3>1. \A u \in Task : pc'[u] # "bufwait"
      BY <2>16 DEF brelse
    <3> QED
      BY <3>1 DEF SleeperIsWoken
  <2>17. CASE (\E o \in Ops, k \in Block : Call(t, o, k)) \/ sys_sync(t)
    <3>1. /\ pc[t] = "user" /\ pc'[t] \in {"find", "sync"}
          /\ first' = first
      BY <1>1, <2>17 DEF Call, sys_sync
    <3> QED
      BY <2>2, <2>5, <3>1 DEF Refers
  <2> QED
    BY <1>2, <2>6, <2>7, <2>8, <2>9, <2>10, <2>11, <2>12, <2>13, <2>14, <2>15,
       <2>16, <2>17 DEF Acts, Step
<1>3. ASSUME UNCHANGED task PROVE SleeperIsWoken'
  BY <1>3 DEF SleeperIsWoken, Refers, task
<1> QED
  BY <1>2, <1>3 DEF Next, Acts, Interrupt, vars

-----------------------------------------------------------------------------
(* The theorems                                                            *)

\* The registers, the counts, the blocks and the locks of the cache agree in
\* every state (buffer.c).
THEOREM CacheInvariant == Spec => []CacheInv
BY InitCacheInv, CacheStep, PTL DEF Spec

\* A set whose elements are all the same has one at most.
LEMMA AtMostOne ==
  ASSUME NEW S, \A x, y \in S : x = y
  PROVE  Cardinality(S) <= 1
<1>1. CASE S = {}
  BY <1>1, FS_EmptySet
<1>2. CASE S # {}
  <2>1. PICK x \in S : TRUE
    BY <1>2
  <2>2. S = {x}
    BY <2>1
  <2> QED
    BY <2>2, FS_Singleton
<1> QED
  BY <1>1, <1>2

\* A block is in one buffer at most, b_count is the number of the users, and
\* whoever uses a buffer finds in it the block it asked for, over all sleeps of
\* getblk, bread and breada.
THEOREM CacheStaysConsistent == Spec => []CacheIsConsistent
<1>1. CacheInv => CacheIsConsistent
  <2> SUFFICES ASSUME CacheInv PROVE CacheIsConsistent
    OBVIOUS
  <2>1. TypeInv /\ ControlInv /\ ExactInv /\ BlockInv
    BY DEF CacheInv
  <2>2. OneBufferPerBlock
    <3> SUFFICES ASSUME NEW k \in Block PROVE Cardinality(Holding(k)) <= 1
      BY DEF OneBufferPerBlock
    <3>1. k # None
      BY CacheAssumption DEF Block
    <3>2. \A b, c \in Holding(k) : b = c
      BY <2>1, <3>1 DEF Holding, BlockInv
    <3> QED
      BY <3>2, AtMostOne
  <2>3. CountsAreExact
    <3>1. ASSUME NEW b \in Buf PROVE count[b] \in 0 .. 2 * Cardinality(Task)
      <4> DEFINE R == {u \in Task : Refers(u, b)}
                 F == {u \in Task : first[u] = b}
      <4>1. R \subseteq Task /\ F \subseteq Task
        OBVIOUS
      <4>2. count[b] = Cardinality(R) + Cardinality(F)
        BY <2>1 DEF ExactInv
      <4> HIDE DEF R, F
      <4>3. /\ IsFiniteSet(R) /\ IsFiniteSet(F)
            /\ Cardinality(R) <= Cardinality(Task)
            /\ Cardinality(F) <= Cardinality(Task)
        BY <4>1, FS_Subset, CacheAssumption
      <4>4. /\ Cardinality(R) \in Nat /\ Cardinality(F) \in Nat
            /\ Cardinality(Task) \in Nat
        BY <4>3, FS_CardinalityType, CacheAssumption
      <4> QED
        BY <4>2, <4>3, <4>4
    <3>2. count \in [Buf -> 0 .. 2 * Cardinality(Task)]
      BY <2>1, <3>1 DEF TypeInv
    <3>3. TypeOK
      BY <2>1, <3>2 DEF TypeInv, TypeOK
    <3> QED
      BY <2>1, <3>3 DEF CountsAreExact, ExactInv
  <2>4. HolderKeepsBlock
    <3> SUFFICES ASSUME NEW t \in Task,
                        pc[t] \in {"got", "submit", "use", "copy"}
                 PROVE  blk[bh[t]] = want[t]
      BY DEF HolderKeepsBlock
    <3>1. bh[t] \in Buf
      BY <2>1, UserHasBuffer DEF Counted
    <3> QED
      BY <2>1, <3>1 DEF BlockInv, BlockAt, Refers, Counted
  <2> QED
    BY <2>2, <2>3, <2>4 DEF CacheIsConsistent
<1> QED
  BY <1>1, CacheInvariant, PTL

\* What was written to a buffer reaches the disk or stays marked for it, when
\* no copy sleeps in a page fault (file_write marks before it copies, and
\* block_write after it).
THEOREM NothingIsLost ==
  ASSUME CopiesDoNotSleep
  PROVE  Spec => []NothingLost
<1>1. Init => DataInv
  BY DEF Init, DataInv, CopyInv, SentInv, KeptInv
<1>2. CacheInv /\ DataInv /\ [Next]_vars => DataInv'
  BY DataStep
<1>3. DataInv => NothingLost
  BY DEF DataInv, KeptInv, NothingLost
<1> QED
  BY <1>1, <1>2, <1>3, CacheInvariant, PTL DEF Spec

\* Whoever sleeps on buffer_wait sleeps while somebody else has a buffer and
\* goes on, when there are more buffers than tasks.
THEOREM SleepersAreWoken ==
  ASSUME EnoughBuffers
  PROVE  Spec => []SleeperIsWoken
<1>1. Init => SleeperIsWoken
  BY DEF Init, SleeperIsWoken
<1>2. CacheInv /\ SleeperIsWoken /\ [Next]_vars => SleeperIsWoken'
  BY SleeperStep
<1> QED
  BY <1>1, <1>2, CacheInvariant, PTL DEF Spec

=============================================================================

---------------------------- MODULE BlkQueueProof ----------------------------
(***************************************************************************)
(* Proofs about the request table, for any number of tasks, requests and   *)
(* buffers: the list of requests and the table agree, every locked buffer  *)
(* has one owner, the handlers of the disk find their request, and the     *)
(* elevator sweeps once.                                                   *)
(***************************************************************************)
EXTENDS BlkQueue, FiniteSetTheorems, SequenceTheorems, TLAPS

\* A task has its buffer locked and no request for it.
Holds(t) == pc[t] \in {"locked", "scan", "sleep", "asleep"}

\* The arguments of a call, and the request it fills, exist while they are used.
CallInv ==
  \A t \in Task :
    /\ pc[t] # "user" => arg[t] # None
    /\ pc[t] = "add" <=> slot[t] # None
    /\ pc[t] = "add" =>
         /\ cpu = t
         /\ slot[t] \notin Queued
         /\ req[slot[t]] = [cmd |-> Cmd(arg[t].rw), bh |-> arg[t].bh,
                            errors |-> 0, nr_sectors |-> SECTORS]

\* Every locked buffer has an owner, and every owner a buffer for itself.
OwnerInv ==
  /\ \A s \in Slot : req[s] # None => lock[req[s].bh]
  /\ \A s, u \in Slot :
       req[s] # None /\ req[u] # None /\ req[s].bh = req[u].bh => s = u
  /\ \A t \in Task : Holds(t) => lock[arg[t].bh]
  /\ \A t, u \in Task : Holds(t) /\ Holds(u) /\ arg[t].bh = arg[u].bh => t = u
  /\ \A t \in Task, s \in Slot :
       Holds(t) /\ req[s] # None => arg[t].bh # req[s].bh
  /\ \A b \in Buf : lock[b] =>
       \/ \E s \in Slot : req[s] # None /\ req[s].bh = b
       \/ \E t \in Task : Holds(t) /\ arg[t].bh = b

\* The list holds each request that is complete, once.
ListInv ==
  /\ \A i, j \in DOMAIN queue : queue[i] = queue[j] => i = j
  /\ \A i \in DOMAIN queue : req[queue[i]] # None
  /\ \A s \in Slot : req[s] # None => s \in Claimed \cup Queued

\* The requests q[i] and q[i + 1] are not in the order of the elevator.
Descent(q, i) == ~InOrder(req[q[i]], req[q[i + 1]])

SweepInv ==
  \A i, j \in 1 .. Len(queue) - 1 :
    Descent(queue, i) /\ Descent(queue, j) => i = j

BlkInv ==
  /\ TypeOK
  /\ CallInv
  /\ OwnerInv
  /\ ListInv
  /\ HandlerHasRequest
  /\ SweepInv

-----------------------------------------------------------------------------
(* The elevator                                                            *)

\* A set of natural numbers that is not empty has a least element.
LEMMA LeastElement ==
  ASSUME NEW T \in SUBSET Nat, T # {}
  PROVE  \E x \in T : \A y \in T : x <= y
<1>1. PICK n \in T : TRUE
  OBVIOUS
<1> DEFINE N == 0 .. n
           R == StrictSubsetOrdering(N)
           F == {U \in SUBSET N : \E x \in T : x <= n /\ U = 0 .. x}
<1>2. IsWellFoundedOn(R, SUBSET N)
  <2>1. IsFiniteSet(N)
    BY <1>1, FS_Interval
  <2> QED
    BY <2>1, FS_FiniteSubsetsOfFinite, FS_StrictSubsetOrderingWellFounded
<1>3. F # {}
  <2>1. N \in F
    BY <1>1
  <2> QED
    BY <2>1
<1>4. PICK U \in F : \A V \in F : ~ (<<V, U>> \in R)
  <2> HIDE DEF R, F, N
  <2>1. F \subseteq SUBSET N
    BY DEF F
  <2> QED
    BY <1>2, <1>3, <2>1, WFMin
<1>5. PICK x \in T : x <= n /\ U = 0 .. x
  OBVIOUS
<1>6. ASSUME NEW y \in T, ~ (x <= y)
      PROVE  FALSE
  <2>1. y < x /\ x \in Nat /\ y \in Nat
    BY <1>6
  <2>2. 0 .. y \in F
    BY <1>5, <2>1
  <2>3. 0 .. y \subseteq 0 .. x
    BY <2>1
  <2>4. x \in 0 .. x /\ x \notin 0 .. y
    BY <2>1
  <2>5. <<0 .. y, U>> \in R
    BY <1>5, <2>2, <2>3, <2>4 DEF StrictSubsetOrdering
  <2> QED
    BY <1>4, <2>2, <2>5
<1> QED
  BY <1>6


\* The place where add_request inserts is the first one that fits, or the end.
LEMMA InsertAtProperties ==
  ASSUME NEW q \in Seq(Slot), q # << >>, NEW r
  PROVE  LET i == InsertAt(q, r)
         IN /\ i \in 1 .. Len(q)
            /\ i = Len(q) \/ FitsAfter(q, i, r)
            /\ \A j \in 1 .. i - 1 : ~FitsAfter(q, j, r)
<1> DEFINE T == {i \in 1 .. Len(q) : i = Len(q) \/ FitsAfter(q, i, r)}
<1>1. Len(q) \in Nat \ {0}
  BY EmptySeq
<1>2. T \in SUBSET Nat /\ Len(q) \in T
  BY <1>1
<1>3. PICK i \in T : \A j \in T : i <= j
  <2> HIDE DEF T
  <2> QED
    BY <1>2, LeastElement
<1>4. \A j \in 1 .. i - 1 : ~FitsAfter(q, j, r)
  BY <1>1, <1>3
<1>5. \E k \in 1 .. Len(q) :
        /\ k = Len(q) \/ FitsAfter(q, k, r)
        /\ \A j \in 1 .. k - 1 : ~FitsAfter(q, j, r)
  BY <1>3, <1>4
<1> QED
  BY <1>5 DEF InsertAt

\* The list after the insertion, place by place.
LEMMA InsertProperties ==
  ASSUME NEW q \in Seq(Slot), q # << >>, NEW s \in Slot, NEW r
  PROVE  LET i == InsertAt(q, r)
             p == InsertRequest(q, s, r)
         IN /\ p \in Seq(Slot) /\ Len(p) = Len(q) + 1 /\ i \in 1 .. Len(q)
            /\ \A k \in 1 .. Len(p) :
                 p[k] = IF k <= i THEN q[k]
                        ELSE IF k = i + 1 THEN s ELSE q[k - 1]
<1> DEFINE i == InsertAt(q, r)
           before == SubSeq(q, 1, i)
           after == SubSeq(q, i + 1, Len(q))
<1>1. i \in 1 .. Len(q) /\ Len(q) \in Nat
  BY InsertAtProperties, LenProperties
<1> HIDE DEF i
<1>2. /\ before \in Seq(Slot) /\ Len(before) = i
      /\ \A k \in 1 .. i : before[k] = q[k]
  BY <1>1, SubSeqProperties, ElementOfSeq
<1>3. /\ after \in Seq(Slot) /\ Len(after) = Len(q) - i
      /\ \A k \in 1 .. Len(q) - i : after[k] = q[i + k]
  BY <1>1, SubSeqProperties, ElementOfSeq
<1>4. <<s>> \in Seq(Slot) /\ Len(<<s>>) = 1 /\ <<s>>[1] = s
  OBVIOUS
<1> HIDE DEF before, after
<1> DEFINE first == before \o <<s>>
<1>5. /\ first \in Seq(Slot) /\ Len(first) = i + 1
      /\ \A k \in 1 .. i + 1 : first[k] = IF k <= i THEN q[k] ELSE s
  BY <1>1, <1>2, <1>4, ConcatProperties
<1> HIDE DEF first
<1>6. /\ first \o after \in Seq(Slot)
      /\ Len(first \o after) = Len(q) + 1
      /\ \A k \in 1 .. Len(q) + 1 :
           (first \o after)[k] =
             IF k <= i + 1 THEN first[k] ELSE after[k - (i + 1)]
  <2>1. /\ first \o after \in Seq(Slot)
        /\ Len(first \o after) = Len(first) + Len(after)
        /\ \A k \in 1 .. Len(first) + Len(after) : (first \o after)[k] =
             IF k <= Len(first) THEN first[k] ELSE after[k - Len(first)]
    BY <1>3, <1>5, ConcatProperties
  <2>2. Len(first) + Len(after) = Len(q) + 1
    BY <1>1, <1>3, <1>5
  <2> QED
    BY <1>5, <2>1, <2>2
<1>7. \A k \in 1 .. Len(q) + 1 :
        (first \o after)[k] = IF k <= i THEN q[k]
                              ELSE IF k = i + 1 THEN s ELSE q[k - 1]
  <2> TAKE k \in 1 .. Len(q) + 1
  <2>1. CASE k <= i + 1
    <3>1. (first \o after)[k] = first[k] /\ k \in 1 .. i + 1
      BY <1>1, <1>6, <2>1
    <3> QED
      BY <1>1, <1>5, <3>1
  <2>2. CASE k > i + 1
    <3>1. k - (i + 1) \in 1 .. Len(q) - i /\ i + (k - (i + 1)) = k - 1
      BY <1>1, <2>2
    <3>2. (first \o after)[k] = after[k - (i + 1)]
      BY <1>1, <1>6, <2>2
    <3>3. after[k - (i + 1)] = q[k - 1]
      BY <1>3, <3>1
    <3> QED
      BY <1>1, <2>2, <3>2, <3>3
  <2>3. k <= i + 1 \/ k > i + 1
    BY <1>1
  <2> QED
    BY <2>1, <2>2, <2>3, Zenon
<1>8. InsertRequest(q, s, r) = first \o after
  BY DEF InsertRequest, i, before, after, first
<1> QED
  BY <1>1, <1>6, <1>7, <1>8 DEF i

\* The elevator sweeps once more in the list that add_request leaves, if all
\* requests are for different buffers.
LEMMA InsertSweepsOnce ==
  ASSUME NEW q \in Seq(Slot), q # << >>, NEW s \in Slot,
         req[s] \in Request, \A i \in 1 .. Len(q) : req[q[i]] \in Request,
         \A i \in 1 .. Len(q) : req[q[i]].bh # req[s].bh,
         \A i, j \in 1 .. Len(q) - 1 : Descent(q, i) /\ Descent(q, j) => i = j,
         NEW p, p = InsertRequest(q, s, req[s])
  PROVE  \A i, j \in 1 .. Len(p) - 1 : Descent(p, i) /\ Descent(p, j) => i = j
<1> DEFINE n == InsertAt(q, req[s])
           Before(x, y) == InOrder(req[x], req[y])
<1>1. Len(q) \in Nat /\ Len(p) = Len(q) + 1 /\ n \in 1 .. Len(q)
  BY InsertProperties, LenProperties
<1>2. \A k \in 1 .. Len(p) : p[k] = IF k <= n THEN q[k]
                                    ELSE IF k = n + 1 THEN s ELSE q[k - 1]
  BY InsertProperties
<1>3. /\ n = Len(q) \/ FitsAfter(q, n, req[s])
      /\ \A j \in 1 .. n - 1 : ~FitsAfter(q, j, req[s])
  BY InsertAtProperties
<1> HIDE DEF n
<1>4. \A i \in 1 .. Len(q) : Before(q[i], s) <=> ~Before(s, q[i])
  BY DEF InOrder, Request, Buf
<1>5. ASSUME n # Len(q)
      PROVE  Before(s, q[n + 1]) /\ (Descent(q, n) <=> ~Before(q[n], s))
  <2>1. \A r \in Request : r.cmd \in {"READ", "WRITE"} /\ r.bh \in Int
    BY DEF Request, Buf
  <2>2. req[q[n]] \in Request /\ req[q[n + 1]] \in Request
    BY <1>1, <1>5
  <2> QED
    <3>1. Before(q[n], s) /\ Before(s, q[n + 1]) => Before(q[n], q[n + 1])
      BY <2>1, <2>2 DEF InOrder
    <3> QED
      BY <1>1, <1>3, <1>5, <3>1 DEF FitsAfter, Descent
<1>6. ASSUME n = Len(q), NEW j \in 1 .. n - 1, Descent(q, j)
      PROVE  Before(q[n], s)
  <2>1. ~Before(s, q[j + 1])
    BY <1>1, <1>3, <1>6 DEF FitsAfter, Descent
  <2> SUFFICES ASSUME Before(s, q[n])
               PROVE  FALSE
    BY <1>1, <1>4
  <2> DEFINE T == {k \in j + 1 .. n : Before(s, q[k])}
  <2>2. T \in SUBSET Nat /\ n \in T
    BY <1>1
  <2>3. PICK k \in T : \A m \in T : k <= m
    <3> HIDE DEF T
    <3> QED
      BY <2>2, LeastElement
  <2>4. k - 1 \in j + 1 .. n - 1 /\ ~Before(s, q[k - 1])
    BY <1>1, <2>1, <2>3
  <2>5. FitsAfter(q, k - 1, req[s])
    BY <1>1, <1>4, <2>3, <2>4 DEF FitsAfter
  <2> QED
    BY <1>1, <1>3, <2>4, <2>5
<1>7. \A i \in 1 .. n - 1 : Descent(p, i) <=> Descent(q, i)
  BY <1>1, <1>2 DEF Descent
<1>8. Descent(p, n) <=> ~Before(q[n], s)
  BY <1>1, <1>2 DEF Descent
<1>9. n # Len(q) => ~Descent(p, n + 1)
  BY <1>1, <1>2, <1>5 DEF Descent
<1>10. \A i \in n + 2 .. Len(p) - 1 :
         i - 1 \in n + 1 .. Len(q) - 1 /\ (Descent(p, i) <=> Descent(q, i - 1))
  BY <1>1, <1>2 DEF Descent
<1> DEFINE Old(i) == IF i <= n THEN i ELSE i - 1
<1>11. CASE n = Len(q)
  BY <1>1, <1>6, <1>7, <1>8, <1>11
<1>12. CASE n # Len(q)
  <2>1. ASSUME NEW i \in 1 .. Len(p) - 1, Descent(p, i)
        PROVE  /\ i # n + 1
               /\ Old(i) \in 1 .. Len(q) - 1 /\ Descent(q, Old(i))
    BY <1>1, <1>5, <1>7, <1>8, <1>9, <1>10, <1>12, <2>1
  <2> QED
    BY <1>1, <2>1
<1> QED
  BY <1>11, <1>12

-----------------------------------------------------------------------------
(* The steps of make_request                                               *)

\* A buffer is what the owners of locks own.
LEMMA OwnedBuffers ==
  ASSUME BlkInv
  PROVE  /\ \A s \in Slot : req[s] # None => req[s].bh \in Buf
         /\ \A t \in Task : Holds(t) => arg[t].bh \in Buf
<1>1. \A s \in Slot : req[s] # None => req[s].bh \in Buf
  BY DEF BlkInv, TypeOK, Request
<1>2. \A t \in Task : Holds(t) => arg[t].bh \in Buf
  BY DEF BlkInv, TypeOK, CallInv, Holds, Arguments
<1> QED
  BY <1>1, <1>2

\* What a step that leaves the requests and the disk alone preserves.
LEMMA SameRequests ==
  ASSUME BlkInv, UNCHANGED <<slot, req, queue, driver>>
  PROVE  ListInv' /\ HandlerHasRequest' /\ SweepInv'
BY DEF BlkInv, ListInv, HandlerHasRequest, SweepInv, Descent, Claimed, Queued,
   Slots, CURRENT

\* A call begins, and lock_buffer waits for the buffer.
LEMMA CallStep ==
  ASSUME BlkInv, NEW t \in Task,
         \/ \E rw \in RW, b \in Buf : ll_rw_block(t, rw, b)
         \/ WaitForLock(t)
  PROVE  BlkInv'
<1> USE DEF BlkInv
<1>1. /\ pc[t] \in {"user", "lock"} /\ pc' = [pc EXCEPT ![t] = "lock"]
      /\ cpu \in {t, None} /\ cpu' \in {t, None}
      /\ UNCHANGED <<slot, req, queue, bufs, disk>>
      /\ \A u \in Task \ {t} : arg'[u] = arg[u]
      /\ arg' \in [Task -> Arguments \cup {None}] /\ arg'[t] # None
  <2>0. \A rw \in RW, b \in Buf : [rw |-> rw, bh |-> b] \in Arguments
    BY DEF Arguments
  <2>1. CASE WaitForLock(t)
    BY <2>1 DEF WaitForLock, TypeOK, CallInv
  <2>2. CASE \E rw \in RW, b \in Buf : ll_rw_block(t, rw, b)
    BY <2>0, <2>2, BlkAssumption DEF ll_rw_block, TypeOK
  <2> QED
    BY <2>1, <2>2
<1>2. ListInv' /\ HandlerHasRequest' /\ SweepInv'
  BY <1>1, SameRequests DEF disk
<1>3. TypeOK'
  BY <1>1 DEF TypeOK, bufs, disk, flags
<1>4. CallInv'
  <2>1. ASSUME NEW u \in Task \ {t}
        PROVE  pc'[u] = pc[u] /\ arg'[u] = arg[u] /\ pc[u] # "add"
    <3>1. u # t /\ u # None
      BY BlkAssumption
    <3> QED
      BY <1>1, <3>1 DEF TypeOK, CallInv
  <2>2. pc[t] # "add" /\ pc'[t] = "lock"
    BY <1>1 DEF TypeOK
  <2> QED
    BY <1>1, <2>1, <2>2 DEF CallInv
<1>5. OwnerInv'
  <2>1. \A u \in Task : /\ Holds(u)' <=> Holds(u)
                        /\ Holds(u) => arg'[u] = arg[u]
    BY <1>1 DEF TypeOK, Holds
  <2> QED
    BY <1>1, <2>1 DEF OwnerInv, bufs
<1> QED
  BY <1>2, <1>3, <1>4, <1>5

\* lock_buffer finds the buffer free.
LEMMA LockStep ==
  ASSUME BlkInv, NEW t \in Task, lock_buffer(t)
  PROVE  BlkInv'
<1> USE DEF BlkInv
<1>1. ListInv' /\ HandlerHasRequest' /\ SweepInv'
  BY SameRequests DEF lock_buffer, disk
<1>2. arg[t] \in Arguments /\ arg[t].bh \in Buf
  BY DEF TypeOK, CallInv, lock_buffer, Arguments
<1>3. TypeOK'
  BY <1>2 DEF TypeOK, lock_buffer, disk, flags
<1>4. CallInv'
  BY BlkAssumption DEF TypeOK, CallInv, Queued, Slots, lock_buffer, Runs
<1>5. OwnerInv'
  BY <1>2 DEF TypeOK, OwnerInv, Holds, lock_buffer
<1> QED
  BY <1>1, <1>3, <1>4, <1>5

\* unlock_buffer and return.
LEMMA GiveUpStep ==
  ASSUME BlkInv, NEW t \in Task, NotNeeded(t) \/ NoRequestAhead(t)
  PROVE  BlkInv'
<1> USE DEF BlkInv
<1>1. pc[t] \in {"locked", "scan"} /\ cpu \in {t, None} /\ GiveUp(t)
  BY DEF NotNeeded, NoRequestAhead, Runs
<1>2. ListInv' /\ HandlerHasRequest' /\ SweepInv'
  BY <1>1, SameRequests DEF GiveUp, disk
<1>3. arg[t] \in Arguments /\ arg[t].bh \in Buf
  BY <1>1 DEF TypeOK, CallInv, Arguments
<1>4. TypeOK'
  BY <1>1, <1>3 DEF TypeOK, GiveUp, Return, disk, flags
<1>5. CallInv'
  BY <1>1, BlkAssumption DEF TypeOK, CallInv, Queued, Slots, GiveUp, Return
<1>6. OwnerInv'
  BY <1>1, <1>3 DEF TypeOK, OwnerInv, Holds, GiveUp, Return
<1> QED
  BY <1>2, <1>4, <1>5, <1>6

\* The steps of a task that keeps its buffer and has no request.
LEMMA WaitStep ==
  ASSUME BlkInv, NEW t \in Task,
         IsNeeded(t) \/ NoRequest(t) \/ SleepForRequest(t)
  PROVE  BlkInv'
<1> USE DEF BlkInv
<1>1. /\ Holds(t) /\ cpu \in {t, None} /\ cpu' \in {t, None}
      /\ \E p \in {"scan", "sleep", "asleep"} : pc' = [pc EXCEPT ![t] = p]
      /\ UNCHANGED <<arg, slot, req, queue, bufs, disk>>
  BY DEF IsNeeded, NoRequest, SleepForRequest, Runs, Holds
<1>2. ListInv' /\ HandlerHasRequest' /\ SweepInv'
  BY <1>1, SameRequests DEF disk
<1>3. TypeOK'
  BY <1>1 DEF TypeOK, bufs, disk, flags
<1>4. CallInv'
  BY <1>1, BlkAssumption DEF TypeOK, CallInv, Queued, Slots, Holds
<1>5. OwnerInv'
  BY <1>1 DEF TypeOK, OwnerInv, Holds, bufs
<1> QED
  BY <1>2, <1>3, <1>4, <1>5

\* A request is found and filled.
LEMMA FindStep ==
  ASSUME BlkInv, NEW t \in Task, FindRequest(t)
  PROVE  BlkInv'
<1> USE DEF BlkInv
<1> DEFINE r == [cmd |-> Cmd(arg[t].rw), bh |-> arg[t].bh,
                 errors |-> 0, nr_sectors |-> SECTORS]
<1>1. PICK s \in Slot : /\ req[s] = None
                        /\ slot' = [slot EXCEPT ![t] = s]
                        /\ req' = [req EXCEPT ![s] = r]
  BY DEF FindRequest, Free, Allowed
<1>2. /\ pc[t] = "scan" /\ pc' = [pc EXCEPT ![t] = "add"]
      /\ cpu \in {t, None} /\ cpu' = t
      /\ UNCHANGED <<arg, queue, lock, dirt, uptodate, disk>>
  BY DEF FindRequest, Runs, bufs
<1>3. arg[t] \in Arguments /\ arg[t].bh \in Buf
  BY <1>2 DEF TypeOK, CallInv, Arguments
<1>4. r \in Request /\ r # None /\ r.bh = arg[t].bh
  BY <1>3, BlkAssumption DEF Request, Cmd, SECTORS
<1> HIDE DEF r
<1>5. slot[t] = None /\ s # None /\ s \notin Queued /\ s \notin Claimed
  <2>1. slot[t] = None /\ s # None
    BY <1>2, BlkAssumption DEF CallInv
  <2>2. s \notin Queued
    BY <1>1 DEF ListInv, Queued, Slots
  <2>3. s \notin Claimed
    BY <1>1, <1>2, BlkAssumption DEF Claimed, CallInv
  <2> QED
    BY <2>1, <2>2, <2>3
<1>6. TypeOK'
  BY <1>1, <1>2, <1>4 DEF TypeOK, disk, flags
<1>7. CallInv'
  <2>1. ASSUME NEW u \in Task, u # t
        PROVE  pc'[u] = pc[u] /\ slot'[u] = slot[u] /\ pc[u] # "add"
    <3>1. u # None
      BY BlkAssumption
    <3> QED
      BY <1>1, <1>2, <2>1, <3>1 DEF TypeOK, CallInv
  <2>2. pc'[t] = "add" /\ slot'[t] = s /\ req'[s] = r /\ Queued' = Queued
    BY <1>1, <1>2 DEF TypeOK, Queued, Slots
  <2> QED
    BY <1>2, <1>3, <1>5, <2>1, <2>2, BlkAssumption DEF CallInv, r
<1>8. OwnerInv'
  <2>1. \A u \in Slot : req'[u] = IF u = s THEN r ELSE req[u]
    BY <1>1 DEF TypeOK
  <2>2. \A u \in Task : Holds(u)' <=> Holds(u) /\ u # t
    BY <1>2 DEF TypeOK, Holds
  <2>3. Holds(t)
    BY <1>2 DEF Holds
  <2> QED
    BY <1>1, <1>2, <1>4, <2>1, <2>2, <2>3, OwnedBuffers DEF OwnerInv
<1>9. \A i \in DOMAIN queue : req'[queue[i]] = req[queue[i]]
  BY <1>1, <1>5 DEF TypeOK, Queued, Slots
<1>10. ListInv'
  <2>1. Claimed \subseteq Claimed' /\ s \in Claimed' /\ Queued' = Queued
    BY <1>1, <1>2, <1>5 DEF TypeOK, Claimed, Queued, Slots
  <2>2. \A u \in Slot : req'[u] # None => u \in Claimed' \cup Queued'
    BY <1>1, <2>1 DEF TypeOK, ListInv
  <2> QED
    BY <1>2, <1>9, <2>2 DEF ListInv
<1>11. HandlerHasRequest' /\ SweepInv'
  <2>1. queue \in Seq(Slot) /\ DOMAIN queue = 1 .. Len(queue) /\ Len(queue) \in Nat
    BY LenProperties DEF TypeOK
  <2>2. queue # << >> => Len(queue) > 0 /\ Head(queue) = queue[1]
    BY <2>1, EmptySeq
  <2>3. HandlerHasRequest'
    BY <1>2, <1>9, <2>1, <2>2 DEF HandlerHasRequest, CURRENT, disk
  <2>4. SweepInv'
    BY <1>2, <1>9, <2>1 DEF SweepInv, Descent
  <2> QED
    BY <2>3, <2>4
<1> QED
  BY <1>6, <1>7, <1>8, <1>10, <1>11

\* The request comes into the list of the disk, which is started if it is idle.
LEMMA AddStep ==
  ASSUME BlkInv, NEW t \in Task, add_request(t)
  PROVE  BlkInv'
<1> USE DEF BlkInv
<1> DEFINE s == slot[t]
<1>1. /\ pc[t] = "add" /\ cpu = t /\ cpu' = None
      /\ pc' = [pc EXCEPT ![t] = "user"]
      /\ slot' = [slot EXCEPT ![t] = None]
      /\ arg' = [arg EXCEPT ![t] = None]
      /\ UNCHANGED <<req, lock, uptodate, flags>>
  BY DEF add_request, Return
<1>2. /\ s \in Slot /\ s # None /\ s \notin Queued
      /\ req[s] \in Request /\ req[s] # None
      /\ req[s].errors = 0 /\ req[s].nr_sectors = SECTORS
  <2>1. s \in Slot /\ s # None /\ s \notin Queued
    BY <1>1 DEF TypeOK, CallInv
  <2>2. arg[t] \in Arguments
    BY <1>1 DEF TypeOK, CallInv
  <2>3. req[s] = [cmd |-> Cmd(arg[t].rw), bh |-> arg[t].bh,
                  errors |-> 0, nr_sectors |-> SECTORS]
    BY <1>1 DEF CallInv
  <2> HIDE DEF s
  <2>4. Cmd(arg[t].rw) \in {"READ", "WRITE"} /\ arg[t].bh \in Buf
    BY <2>2 DEF Arguments, Cmd
  <2>5. 0 \in 0 .. MAX_ERRORS - 1 /\ SECTORS \in 1 .. SECTORS
    BY BlkAssumption DEF SECTORS
  <2>6. req[s] \in Request
    BY <2>3, <2>4, <2>5 DEF Request
  <2>7. req[s].errors = 0 /\ req[s].nr_sectors = SECTORS
    BY <2>3
  <2> QED
    BY <2>1, <2>6, <2>7, BlkAssumption
<1>3. queue \in Seq(Slot) /\ DOMAIN queue = 1 .. Len(queue) /\ Len(queue) \in Nat
  BY LenProperties DEF TypeOK
<1> HIDE DEF s
<1> DEFINE n == IF queue = << >> THEN 0 ELSE InsertAt(queue, req[s])
<1>4. /\ queue' \in Seq(Slot) /\ Len(queue') = Len(queue) + 1
      /\ n \in 0 .. Len(queue) /\ (n = 0 <=> queue = << >>)
      /\ \A k \in 1 .. Len(queue') :
           queue'[k] = IF k <= n THEN queue[k]
                       ELSE IF k = n + 1 THEN s ELSE queue[k - 1]
  <2>1. CASE queue = << >>
    <3>1. queue' = <<s>> /\ n = 0
      BY <2>1 DEF add_request, s
    <3>2. /\ Len(queue) = 0 /\ Len(<<s>>) = 1 /\ <<s>>[1] = s
          /\ <<s>> \in Seq(Slot)
      BY <1>2, <2>1
    <3> HIDE DEF n
    <3> QED
      BY <2>1, <3>1, <3>2
  <2>2. CASE queue # << >>
    <3>1. queue' = InsertRequest(queue, s, req[s])
      BY <2>2 DEF add_request, s
    <3>2. n = InsertAt(queue, req[s])
      BY <2>2
    <3> HIDE DEF n
    <3>3. /\ queue' \in Seq(Slot) /\ Len(queue') = Len(queue) + 1
          /\ n \in 1 .. Len(queue)
          /\ \A k \in 1 .. Len(queue') :
               queue'[k] = IF k <= n THEN queue[k]
                           ELSE IF k = n + 1 THEN s ELSE queue[k - 1]
      BY <1>2, <1>3, <2>2, <3>1, <3>2, InsertProperties
    <3> QED
      BY <1>3, <2>2, <3>3
  <2> QED
    BY <2>1, <2>2
<1>5. driver' = IF queue = << >> THEN "run" ELSE driver
  BY DEF add_request
<1>6. SweepInv'
  <2>1. CASE queue = << >>
    BY <1>3, <1>4, <2>1 DEF SweepInv
  <2>2. CASE queue # << >>
    <3>1. queue' = InsertRequest(queue, s, req[s])
      BY <2>2 DEF add_request, s
    <3>2. \A i \in 1 .. Len(queue) : req[queue[i]] \in Request
      BY <1>3 DEF TypeOK, ListInv
    <3>3. \A i \in 1 .. Len(queue) : req[queue[i]].bh # req[s].bh
      BY <1>2, <1>3, <3>2 DEF TypeOK, ListInv, OwnerInv, Queued, Slots
    <3>4. \A i, j \in 1 .. Len(queue') - 1 :
            Descent(queue', i) /\ Descent(queue', j) => i = j
      BY <1>2, <1>3, <2>2, <3>1, <3>2, <3>3, InsertSweepsOnce DEF SweepInv
    <3> QED
      BY <1>1, <3>4 DEF SweepInv, Descent, InOrder
  <2> QED
    BY <2>1, <2>2
<1> HIDE DEF n
<1>7. DOMAIN queue' = 1 .. Len(queue') /\ Queued' = Queued \cup {s}
  <2>1. DOMAIN queue' = 1 .. Len(queue')
    BY <1>4, LenProperties
  <2>2. ASSUME NEW k \in 1 .. Len(queue') PROVE queue'[k] \in Queued \cup {s}
    BY <1>3, <1>4 DEF Queued, Slots
  <2>3. ASSUME NEW k \in 1 .. Len(queue)
        PROVE  \E m \in 1 .. Len(queue') : queue'[m] = queue[k]
    <3>1. CASE k <= n
      BY <1>3, <1>4, <3>1
    <3>2. CASE k > n
      <4>1. k + 1 \in 1 .. Len(queue') /\ queue'[k + 1] = queue[k]
        BY <1>3, <1>4, <3>2
      <4> QED
        BY <4>1
    <3> QED
      BY <1>4, <3>1, <3>2
  <2>4. n + 1 \in 1 .. Len(queue') /\ queue'[n + 1] = s
    BY <1>3, <1>4
  <2>5. /\ Queued = {queue[k] : k \in 1 .. Len(queue)}
        /\ Queued' = {queue'[k] : k \in 1 .. Len(queue')}
    BY <1>3, <2>1 DEF Queued, Slots
  <2>6. Queued' \subseteq Queued \cup {s}
    BY <2>2, <2>5
  <2>7. Queued \subseteq Queued' /\ s \in Queued'
    BY <2>3, <2>4, <2>5
  <2> QED
    BY <2>1, <2>6, <2>7
<1>8. TypeOK'
  BY <1>1, <1>4, <1>5 DEF TypeOK, add_request, flags
<1>9. CallInv'
  <2>1. ASSUME NEW u \in Task, u # t
        PROVE  pc'[u] = pc[u] /\ slot'[u] = slot[u] /\ arg'[u] = arg[u]
               /\ pc[u] # "add"
    BY <1>1, <2>1 DEF TypeOK, CallInv
  <2>2. pc'[t] = "user" /\ slot'[t] = None
    BY <1>1 DEF TypeOK
  <2> QED
    BY <2>1, <2>2 DEF CallInv
<1>10. OwnerInv'
  BY <1>1 DEF TypeOK, OwnerInv, Holds
<1>11. ListInv'
  <2>1. Claimed \subseteq Claimed' \cup {s}
    BY <1>1 DEF TypeOK, Claimed, s
  <2>2. \A u \in Slot : req'[u] # None => u \in Claimed' \cup Queued'
    BY <1>1, <1>7, <2>1 DEF ListInv
  <2>3. \A k \in 1 .. Len(queue) : queue[k] # s
    BY <1>2, <1>3 DEF Queued, Slots
  <2>4. \A k \in 1 .. Len(queue') : req[queue'[k]] # None
    BY <1>2, <1>3, <1>4 DEF ListInv
  <2>5. ASSUME NEW i \in 1 .. Len(queue'), NEW j \in 1 .. Len(queue'),
               queue'[i] = queue'[j]
        PROVE  i = j
    <3>1. ASSUME NEW k \in 1 .. Len(queue')
          PROVE  \/ k <= n /\ k \in 1 .. Len(queue) /\ queue'[k] = queue[k]
                 \/ k = n + 1 /\ queue'[k] = s
                 \/ /\ k > n + 1 /\ k - 1 \in 1 .. Len(queue)
                    /\ queue'[k] = queue[k - 1]
      BY <1>3, <1>4
    <3>2. \A k, m \in 1 .. Len(queue) : queue[k] = queue[m] => k = m
      BY <1>3 DEF ListInv
    <3> HIDE DEF s
    <3> QED
      BY <1>3, <1>4, <2>3, <2>5, <3>1, <3>2
  <2> QED
    BY <1>1, <1>7, <2>2, <2>4, <2>5 DEF ListInv
<1>12. HandlerHasRequest'
  <2>1. queue' # << >> /\ Head(queue') = queue'[1]
    BY <1>3, <1>4, EmptySeq
  <2>2. queue # << >> => queue'[1] = queue[1] /\ Head(queue) = queue[1]
    BY <1>3, <1>4, EmptySeq
  <2>3. driver' # "idle"
    BY <1>5 DEF HandlerHasRequest
  <2>4. driver' \in {"READ", "WRITE"} => CURRENT'.cmd = driver'
    BY <1>1, <1>5, <2>1, <2>2 DEF HandlerHasRequest, CURRENT
  <2>5. ASSUME NEW i \in 2 .. Len(queue')
        PROVE  req[queue'[i]].errors = 0 /\ req[queue'[i]].nr_sectors = SECTORS
    BY <1>2, <1>3, <1>4 DEF HandlerHasRequest
  <2> QED
    BY <1>1, <2>1, <2>3, <2>4, <2>5 DEF HandlerHasRequest
<1> QED
  BY <1>6, <1>8, <1>9, <1>10, <1>11, <1>12

\* The buffers are written and forgotten outside of make_request.
LEMMA BufferStep ==
  ASSUME BlkInv, NEW b \in Buf, Modify(b) \/ Forget(b)
  PROVE  BlkInv'
<1> USE DEF BlkInv
<1>1. ListInv' /\ HandlerHasRequest' /\ SweepInv'
  BY SameRequests DEF Modify, Forget, disk
<1>2. TypeOK'
  BY DEF TypeOK, Modify, Forget, disk, flags
<1>3. CallInv' /\ OwnerInv'
  BY DEF CallInv, OwnerInv, Queued, Slots, Holds, Modify, Forget
<1> QED
  BY <1>1, <1>2, <1>3

-----------------------------------------------------------------------------
(* The steps of the disk                                                   *)

\* The current request is the first in the list.
LEMMA CurrentProperties ==
  ASSUME BlkInv, queue # << >>
  PROVE  /\ Len(queue) \in Nat \ {0} /\ DOMAIN queue = 1 .. Len(queue)
         /\ Head(queue) = queue[1] /\ Head(queue) \in Slot
         /\ Head(queue) \in Queued
         /\ CURRENT = req[Head(queue)] /\ CURRENT \in Request
         /\ CURRENT # None /\ CURRENT.bh \in Buf
         /\ \A t \in Task : slot[t] # Head(queue)
         /\ \A i \in 2 .. Len(queue) : queue[i] # Head(queue)
<1>1. /\ Len(queue) \in Nat \ {0} /\ DOMAIN queue = 1 .. Len(queue)
      /\ Head(queue) = queue[1] /\ Head(queue) \in Slot
      /\ Head(queue) \in Queued
  BY EmptySeq, LenProperties, HeadTailProperties
     DEF BlkInv, TypeOK, Queued, Slots
<1>2. CURRENT = req[Head(queue)] /\ CURRENT # None
  BY <1>1 DEF BlkInv, ListInv, CURRENT
<1>3. CURRENT \in Request
  BY <1>1, <1>2 DEF BlkInv, TypeOK
<1>4. \A t \in Task : slot[t] # Head(queue)
  BY <1>1, BlkAssumption DEF BlkInv, CallInv
<1>5. \A i \in 2 .. Len(queue) : queue[i] # Head(queue)
  BY <1>1 DEF BlkInv, ListInv
<1> QED
  BY <1>1, <1>2, <1>3, <1>4, <1>5 DEF Request

\* end_request: the list and the table lose the same request, and its buffer
\* loses its owner and its lock.
LEMMA EndStep ==
  ASSUME BlkInv, queue # << >>, NEW good \in BOOLEAN, end_request(good),
         driver' = "run", reset' \in BOOLEAN, recalibrate' \in BOOLEAN,
         UNCHANGED <<cpu, arg, slot>>
  PROVE  BlkInv'
<1> USE DEF BlkInv
<1> DEFINE h == Head(queue)
<1>1. /\ Len(queue) \in Nat \ {0} /\ DOMAIN queue = 1 .. Len(queue)
      /\ h = queue[1] /\ h \in Slot /\ CURRENT = req[h]
      /\ req[h] # None /\ req[h].bh \in Buf
      /\ \A t \in Task : slot[t] # h
      /\ \A i \in 2 .. Len(queue) : queue[i] # h
  BY CurrentProperties
<1>2. /\ queue' \in Seq(Slot) /\ Len(queue') = Len(queue) - 1
      /\ DOMAIN queue' = 1 .. Len(queue) - 1
      /\ \A i \in 1 .. Len(queue) - 1 : queue'[i] = queue[i + 1]
  <2>1. queue' = Tail(queue) /\ queue \in Seq(Slot)
    BY DEF end_request, TypeOK
  <2>2. /\ queue' \in Seq(Slot) /\ Len(queue') = Len(queue) - 1
        /\ \A i \in 1 .. Len(queue') : queue'[i] = queue[i + 1]
    BY <2>1, HeadTailProperties
  <2> QED
    BY <2>2, LenProperties
<1>3. /\ req' = [req EXCEPT ![h] = None]
      /\ lock' = [lock EXCEPT ![req[h].bh] = FALSE]
      /\ uptodate' = [uptodate EXCEPT ![req[h].bh] = good]
      /\ pc' = [t \in Task |-> IF pc[t] = "asleep" THEN "scan" ELSE pc[t]]
      /\ UNCHANGED dirt
  BY <1>1 DEF end_request
<1> HIDE DEF h
<1>4. TypeOK'
  BY <1>1, <1>2, <1>3 DEF TypeOK
<1>5. Queued' \subseteq Queued /\ Queued \subseteq Queued' \cup {h}
  <2>1. ASSUME NEW i \in 1 .. Len(queue)
        PROVE  queue[i] = h \/ \E j \in 1 .. Len(queue) - 1 : queue'[j] = queue[i]
    <3>1. CASE i = 1
      BY <1>1, <3>1
    <3>2. CASE i # 1
      <4>1. i - 1 \in 1 .. Len(queue) - 1 /\ queue'[i - 1] = queue[i]
        BY <1>1, <1>2, <3>2
      <4> QED
        BY <4>1
    <3> QED
      BY <3>1, <3>2
  <2>2. ASSUME NEW j \in 1 .. Len(queue) - 1
        PROVE  \E i \in 1 .. Len(queue) : queue'[j] = queue[i]
    BY <1>1, <1>2
  <2>3. /\ Queued = {queue[i] : i \in 1 .. Len(queue)}
        /\ Queued' = {queue'[i] : i \in 1 .. Len(queue) - 1}
    BY <1>1, <1>2 DEF Queued, Slots
  <2>4. Queued \subseteq Queued' \cup {h}
    BY <2>1, <2>3
  <2>5. Queued' \subseteq Queued
    BY <2>2, <2>3
  <2> QED
    BY <2>4, <2>5
<1>6. CallInv'
  BY <1>1, <1>3, <1>5 DEF TypeOK, CallInv
<1>7. OwnerInv'
  <2>1. \A s \in Slot : req'[s] = IF s = h THEN None ELSE req[s]
    BY <1>1, <1>3 DEF TypeOK
  <2>2. \A b \in Buf : lock'[b] = IF b = req[h].bh THEN FALSE ELSE lock[b]
    BY <1>1, <1>3 DEF TypeOK
  <2>3. \A t \in Task : Holds(t)' <=> Holds(t)
    BY <1>3 DEF TypeOK, Holds
  <2>4. ASSUME NEW b \in Buf, lock'[b]
        PROVE  \/ \E s \in Slot : req'[s] # None /\ req'[s].bh = b
               \/ \E t \in Task : Holds(t)' /\ arg'[t].bh = b
    <3>1. b # req[h].bh /\ lock[b]
      BY <2>2, <2>4
    <3>2. CASE \E s \in Slot : req[s] # None /\ req[s].bh = b
      BY <2>1, <3>1, <3>2
    <3>3. CASE \E t \in Task : Holds(t) /\ arg[t].bh = b
      BY <2>3, <3>3
    <3> QED
      BY <3>1, <3>2, <3>3 DEF OwnerInv
  <2>5. ASSUME NEW s \in Slot, req'[s] # None
        PROVE  lock'[req'[s].bh]
    <3>1. s # h /\ req'[s] = req[s] /\ req[s] # None
      BY <2>1, <2>5
    <3>2. lock[req[s].bh] /\ req[s].bh # req[h].bh /\ req[s].bh \in Buf
      BY <1>1, <3>1, OwnedBuffers DEF OwnerInv
    <3> QED
      BY <2>2, <3>1, <3>2
  <2>6. ASSUME NEW t \in Task, Holds(t)'
        PROVE  lock'[arg[t].bh]
    <3>1. Holds(t)
      BY <2>3, <2>6
    <3>2. lock[arg[t].bh] /\ arg[t].bh # req[h].bh /\ arg[t].bh \in Buf
      BY <1>1, <3>1, OwnedBuffers DEF OwnerInv
    <3> QED
      BY <2>2, <3>2
  <2> QED
    BY <2>1, <2>3, <2>4, <2>5, <2>6 DEF OwnerInv
<1>8. \A i \in 1 .. Len(queue) - 1 : req'[queue'[i]] = req[queue[i + 1]]
  BY <1>1, <1>2, <1>3 DEF TypeOK
<1>9. ListInv'
  <2>1. Claimed' = Claimed
    BY DEF Claimed
  <2>2. \A u \in Slot : req'[u] # None => u \in Claimed' \cup Queued'
    BY <1>1, <1>3, <1>5, <2>1 DEF TypeOK, ListInv
  <2>3. \A i, j \in 1 .. Len(queue) - 1 : queue'[i] = queue'[j] => i = j
    BY <1>1, <1>2 DEF ListInv
  <2>4. \A i \in 1 .. Len(queue) - 1 : req'[queue'[i]] # None
    BY <1>1, <1>8 DEF ListInv
  <2> QED
    BY <1>2, <2>2, <2>3, <2>4 DEF ListInv
<1>10. HandlerHasRequest'
  BY <1>1, <1>2, <1>8 DEF HandlerHasRequest
<1>11. SweepInv'
  <2>1. ASSUME NEW i \in 1 .. Len(queue') - 1
        PROVE  i + 1 \in 1 .. Len(queue) - 1
               /\ (Descent(queue, i)' <=> Descent(queue, i + 1))
    BY <1>1, <1>2, <1>8 DEF Descent, InOrder
  <2> QED
    BY <1>1, <1>2, <2>1 DEF SweepInv
<1> QED
  BY <1>4, <1>6, <1>7, <1>9, <1>10, <1>11

\* The current request goes on, with its errors or its sectors counted, and the
\* driver runs or waits for the disk.
LEMMA RetryStep ==
  ASSUME BlkInv, queue # << >>, NEW STATE r, r \in Request,
         r.cmd = CURRENT.cmd, r.bh = CURRENT.bh,
         req' = [req EXCEPT ![Head(queue)] = r],
         driver' \in {"run", "recal", CURRENT.cmd},
         reset' \in BOOLEAN, recalibrate' \in BOOLEAN,
         UNCHANGED <<cpu, pc, arg, slot, queue, bufs>>
  PROVE  BlkInv'
<1> USE DEF BlkInv
<1> DEFINE h == Head(queue)
<1>1. /\ Len(queue) \in Nat \ {0} /\ DOMAIN queue = 1 .. Len(queue)
      /\ h = queue[1] /\ h \in Slot /\ CURRENT = req[h]
      /\ req[h] # None /\ req[h] \in Request
      /\ h \in Queued
      /\ \A t \in Task : slot[t] # h
      /\ \A i \in 2 .. Len(queue) : queue[i] # h
  BY CurrentProperties
<1>2. r # None /\ r.cmd \in {"READ", "WRITE"}
  BY BlkAssumption DEF Request
<1>3. /\ req' = [req EXCEPT ![h] = r] /\ r.cmd = req[h].cmd
      /\ r.bh = req[h].bh /\ CURRENT' = r
  BY <1>1 DEF CURRENT, TypeOK
<1>4. driver' \in {"run", "recal", r.cmd}
  OBVIOUS
<1> HIDE DEF h
<1>5. TypeOK'
  BY <1>1, <1>2, <1>3, <1>4 DEF TypeOK, bufs
<1>6. Queued' = Queued /\ Claimed' = Claimed
  BY DEF Queued, Slots, Claimed
<1>7. CallInv'
  BY <1>1, <1>3, <1>6 DEF TypeOK, CallInv
<1>8. OwnerInv'
  <2>1. \A s \in Slot : /\ req'[s] # None <=> req[s] # None
                        /\ req[s] # None => req'[s].bh = req[s].bh
    BY <1>1, <1>2, <1>3 DEF TypeOK
  <2> QED
    BY <2>1 DEF OwnerInv, Holds, bufs
<1>9. ListInv'
  BY <1>1, <1>2, <1>3, <1>6 DEF TypeOK, ListInv
<1>10. HandlerHasRequest'
  BY <1>1, <1>2, <1>3, <1>4 DEF TypeOK, HandlerHasRequest
<1>11. SweepInv'
  <2>1. ASSUME NEW i \in 1 .. Len(queue)
        PROVE  /\ req'[queue[i]].cmd = req[queue[i]].cmd
               /\ req'[queue[i]].bh = req[queue[i]].bh
    BY <1>1, <1>3 DEF TypeOK
  <2>2. ASSUME NEW i \in 1 .. Len(queue) - 1
        PROVE  Descent(queue, i)' <=> Descent(queue, i)
    <3>1. i \in 1 .. Len(queue) /\ i + 1 \in 1 .. Len(queue)
      BY <1>1
    <3> QED
      BY <2>1, <3>1 DEF Descent, InOrder
  <2> QED
    BY <2>2 DEF SweepInv
<1> QED
  BY <1>5, <1>7, <1>8, <1>9, <1>10, <1>11

\* Where do_hd_request is called with nothing to do, the list is empty.
LEMMA RestStep ==
  ASSUME BlkInv, NothingToDo
  PROVE  BlkInv'
<1> USE DEF BlkInv
<1>1. queue = << >> /\ driver' = "idle"
      /\ UNCHANGED <<cpu, pc, arg, slot, req, queue, bufs, flags>>
  BY DEF NothingToDo, Running, Command
<1>2. TypeOK'
  BY <1>1 DEF TypeOK, bufs, flags
<1>3. CallInv' /\ OwnerInv' /\ ListInv'
  BY <1>1 DEF CallInv, OwnerInv, ListInv, Holds, Queued, Slots, Claimed, bufs
<1>4. HandlerHasRequest' /\ SweepInv'
  BY <1>1 DEF HandlerHasRequest, SweepInv, Descent
<1> QED
  BY <1>2, <1>3, <1>4

\* bad_rw_intr: an error is counted, or ends the request.
LEMMA ErrorStep ==
  ASSUME BlkInv, queue # << >>, bad_rw_intr, RunDriver,
         UNCHANGED <<cpu, arg, slot>>
  PROVE  BlkInv'
<1> DEFINE e == CURRENT.errors + 1
           h == Head(queue)
<1>1. /\ CURRENT \in Request /\ CURRENT = req[h] /\ h \in Slot
  BY CurrentProperties
<1>2. reset' \in BOOLEAN /\ recalibrate' \in BOOLEAN /\ driver' = "run"
  BY DEF bad_rw_intr, RunDriver, BlkInv, TypeOK
<1>3. CASE e >= MAX_ERRORS
  <2>1. end_request(FALSE)
    BY <1>3 DEF bad_rw_intr
  <2> QED
    BY <1>2, <2>1, EndStep
<1>4. CASE ~(e >= MAX_ERRORS)
  <2> DEFINE r == [CURRENT EXCEPT !.errors = e]
  <2>1. req' = [req EXCEPT ![h].errors = e] /\ UNCHANGED <<queue, pc, bufs>>
    BY <1>4 DEF bad_rw_intr
  <2>2. r \in Request /\ r.cmd = CURRENT.cmd /\ r.bh = CURRENT.bh
    BY <1>1, <1>4, BlkAssumption DEF Request
  <2>3. req' = [req EXCEPT ![h] = r]
    BY <1>1, <2>1
  <2> HIDE DEF r
  <2> QED
    BY <1>2, <2>1, <2>2, <2>3, RetryStep
<1> QED
  BY <1>3, <1>4

\* do_hd_request.
LEMMA DriverStep ==
  ASSUME BlkInv, do_hd_request
  PROVE  BlkInv'
<1>1. CASE NothingToDo
  BY <1>1, RestStep
<1>2. CASE Refuse
  BY <1>2, EndStep DEF Refuse, Running, RunDriver, flags, BlkInv, TypeOK
<1>3. ASSUME queue # << >>, UNCHANGED <<req, queue, pc, bufs, cpu, arg, slot>>,
             driver' \in {"recal", CURRENT.cmd},
             reset' \in BOOLEAN, recalibrate' \in BOOLEAN
      PROVE  BlkInv'
  <2>1. /\ CURRENT \in Request /\ CURRENT = req[Head(queue)]
    BY <1>3, CurrentProperties
  <2>2. req' = [req EXCEPT ![Head(queue)] = CURRENT]
    BY <1>3, <2>1 DEF BlkInv, TypeOK
  <2> QED
    BY <1>3, <2>1, <2>2, RetryStep
<1>4. CASE Recover
  BY <1>3, <1>4 DEF Recover, Running, Command, BlkInv, TypeOK
<1>5. CASE Transfer
  <2>1. CASE bad_rw_intr /\ RunDriver
    BY <1>5, <2>1, ErrorStep DEF Transfer, Running
  <2>2. CASE Command(CURRENT.cmd) /\ UNCHANGED flags
    BY <1>3, <1>5, <2>2 DEF Transfer, Running, Command, flags, BlkInv, TypeOK
  <2> QED
    BY <1>5, <2>1, <2>2 DEF Transfer
<1> QED
  BY <1>1, <1>2, <1>4, <1>5 DEF do_hd_request

\* hd_interrupt and the handler it calls.
LEMMA InterruptStep ==
  ASSUME BlkInv, Interrupt
  PROVE  BlkInv'
<1>1. /\ driver \in {"READ", "WRITE", "recal"} /\ queue # << >>
      /\ UNCHANGED <<cpu, arg, slot>>
  BY DEF Interrupt, CommandFails, SectorDone, RequestDone, recal_intr, Handler,
     BlkInv, HandlerHasRequest
<1> DEFINE h == Head(queue)
<1>2. /\ CURRENT \in Request /\ CURRENT = req[h] /\ h \in Slot
  BY <1>1, CurrentProperties
<1>3. CASE CommandFails
  BY <1>1, <1>3, ErrorStep DEF CommandFails
<1>4. CASE SectorDone
  <2> DEFINE r == [CURRENT EXCEPT
               !.nr_sectors = @ - 1,
               !.errors = IF driver = "READ" THEN 0 ELSE @]
  <2>1. /\ CURRENT.nr_sectors > 1
        /\ driver' = CURRENT.cmd /\ UNCHANGED <<queue, pc, bufs, disk>>
    BY <1>4 DEF SectorDone, Handler, BlkInv, HandlerHasRequest, disk
  <2>2. r \in Request /\ r.cmd = CURRENT.cmd /\ r.bh = CURRENT.bh
    <3>1. CURRENT.nr_sectors - 1 \in 1 .. SECTORS
      BY <1>2, <2>1 DEF Request, SECTORS
    <3>2. (IF driver = "READ" THEN 0 ELSE CURRENT.errors)
             \in 0 .. MAX_ERRORS - 1
      BY <1>2, BlkAssumption DEF Request
    <3> QED
      BY <1>2, <3>1, <3>2 DEF Request
  <2>3. req' = [req EXCEPT ![h] = r]
    BY <1>2, <1>4 DEF SectorDone, BlkInv, TypeOK
  <2>4. reset' \in BOOLEAN /\ recalibrate' \in BOOLEAN
    BY <2>1 DEF disk, flags, BlkInv, TypeOK
  <2> HIDE DEF r
  <2> QED
    BY <1>1, <2>1, <2>2, <2>3, <2>4, RetryStep
<1>5. CASE RequestDone
  BY <1>1, <1>5, EndStep DEF RequestDone, RunDriver, flags, BlkInv, TypeOK
<1>6. CASE recal_intr
  <2>1. req' = [req EXCEPT ![h] = CURRENT]
    BY <1>2, <1>6 DEF recal_intr, BlkInv, TypeOK
  <2> QED
    BY <1>1, <1>2, <1>6, <2>1, RetryStep
       DEF recal_intr, RunDriver, flags, BlkInv, TypeOK
<1> QED
  BY <1>3, <1>4, <1>5, <1>6 DEF Interrupt

-----------------------------------------------------------------------------
(* The theorems                                                            *)

\* The inductive invariant, for any number of tasks, requests and buffers.
THEOREM BlkInvariant == Spec => []BlkInv
<1>1. Init => BlkInv
  <2> SUFFICES ASSUME Init PROVE BlkInv
    OBVIOUS
  <2>1. queue = << >> /\ DOMAIN queue = {} /\ Len(queue) = 0
    BY EmptySeq DEF Init
  <2>2. TypeOK
    BY EmptySeq DEF Init, TypeOK
  <2>3. CallInv /\ OwnerInv
    BY DEF Init, CallInv, OwnerInv, Holds
  <2>4. ListInv /\ HandlerHasRequest /\ SweepInv
    BY <2>1 DEF Init, ListInv, HandlerHasRequest, SweepInv
  <2> QED
    BY <2>2, <2>3, <2>4 DEF BlkInv
<1>2. BlkInv /\ [Next]_vars => BlkInv'
  <2> SUFFICES ASSUME BlkInv, [Next]_vars
               PROVE  BlkInv'
    OBVIOUS
  <2>1. ASSUME NEW t \in Task, Step(t)
        PROVE  BlkInv'
    BY <2>1, CallStep, LockStep, GiveUpStep, WaitStep, FindStep, AddStep
       DEF Step
  <2>2. CASE UNCHANGED vars
    BY <2>2, SameRequests DEF BlkInv, TypeOK, CallInv, OwnerInv, Holds, Queued,
       Slots, vars, bufs, disk, flags
  <2> QED
    BY <2>1, <2>2, CallStep, DriverStep, InterruptStep, BufferStep DEF Next
<1> QED
  BY <1>1, <1>2, PTL DEF Spec

\* A finite set has one element at most if any two are the same.
LEMMA AtMostOne ==
  ASSUME NEW S, \A x, y \in S : x = y
  PROVE  IsFiniteSet(S) /\ Cardinality(S) = IF S = {} THEN 0 ELSE 1
<1>1. CASE S = {}
  BY <1>1, FS_EmptySet
<1>2. CASE S # {}
  <2>1. PICK x \in S : TRUE
    BY <1>2
  <2>2. S = {x}
    BY <2>1
  <2> QED
    BY <1>2, <2>2, FS_Singleton
<1> QED
  BY <1>1, <1>2

\* The panics of the driver never fire: the list and the table of requests
\* agree, the list is in the order of the elevator, and the handlers of the disk
\* find the request they work on (blk.h: "request list destroyed", "block not
\* locked").
THEOREM RequestsAreInOrder == Spec => []RequestsInOrder
<1>1. BlkInv => RequestsInOrder
  <2> SUFFICES ASSUME BlkInv PROVE RequestsInOrder
    OBVIOUS
  <2> USE DEF BlkInv
  <2>1. /\ Len(queue) \in Nat /\ DOMAIN queue = 1 .. Len(queue)
        /\ queue \in [1 .. Len(queue) -> Slot]
    BY LenProperties DEF TypeOK
  <2>2. OneSweep
    <3> DEFINE D == {i \in 1 .. Len(queue) - 1 :
                       ~InOrder(req[queue[i]], req[queue[i + 1]])}
    <3>1. \A i, j \in D : i = j
      BY DEF SweepInv, Descent
    <3>2. Cardinality(D) <= 1
      <4> HIDE DEF D
      <4> QED
        BY <3>1, AtMostOne
    <3> QED
      BY <3>2 DEF OneSweep
  <2>3. Cardinality(Queued) = Len(queue)
    <3>1. queue \in Surjection(1 .. Len(queue), Queued)
      BY <2>1 DEF Surjection, Queued, Slots
    <3>2. queue \in Injection(1 .. Len(queue), Queued)
      <4>1. queue \in [1 .. Len(queue) -> Queued]
        BY <3>1 DEF Surjection
      <4>2. \A i, j \in 1 .. Len(queue) : queue[i] = queue[j] => i = j
        BY <2>1 DEF ListInv
      <4> QED
        BY <4>1, <4>2 DEF Injection, IsInjective
    <3>3. /\ IsFiniteSet(1 .. Len(queue))
          /\ Cardinality(1 .. Len(queue)) = Len(queue)
      BY <2>1, FS_Interval
    <3> QED
      BY <3>1, <3>2, <3>3, FS_Surjection
  <2>4. \A s \in Queued : req[s] # None /\ lock[req[s].bh] /\ s \notin Claimed
    <3> SUFFICES ASSUME NEW s \in Queued
                 PROVE  req[s] # None /\ lock[req[s].bh] /\ s \notin Claimed
      OBVIOUS
    <3>1. s \in Slot /\ req[s] # None
      BY <2>1 DEF Queued, Slots, ListInv
    <3>2. \A t \in Task : slot[t] # None => slot[t] \notin Queued
      BY DEF CallInv
    <3>3. s \notin Claimed
      BY <3>2 DEF Claimed
    <3> QED
      BY <3>1, <3>3 DEF OwnerInv
  <2>5. \A t, u \in Task : slot[t] # None /\ slot[t] = slot[u] => t = u
    BY DEF CallInv
  <2> QED
    BY <2>2, <2>3, <2>4, <2>5 DEF RequestsInOrder, ListInv
<1> QED
  BY <1>1, BlkInvariant, PTL

\* A locked buffer has one owner, a request or a task in make_request, and a
\* buffer that is not locked has none.
THEOREM LocksHaveOneOwner == Spec => []OneOwnerPerLock
<1>1. BlkInv => OneOwnerPerLock
  <2> SUFFICES ASSUME BlkInv, NEW b \in Buf
               PROVE  LET requests == {s \in Slot : req[s] # None
                                                    /\ req[s].bh = b}
                          tasks == {t \in Task :
                             /\ pc[t] \in {"locked", "scan", "sleep", "asleep"}
                             /\ arg[t].bh = b}
                      IN Cardinality(requests) + Cardinality(tasks) =
                           IF lock[b] THEN 1 ELSE 0
    BY DEF OneOwnerPerLock
  <2> DEFINE requests == {s \in Slot : req[s] # None /\ req[s].bh = b}
             tasks == {t \in Task :
                         /\ pc[t] \in {"locked", "scan", "sleep", "asleep"}
                         /\ arg[t].bh = b}
  <2>1. /\ \A s, u \in requests : s = u
        /\ \A t, u \in tasks : t = u
        /\ requests = {} \/ tasks = {}
        /\ lock[b] <=> ~(requests = {} /\ tasks = {})
    <3> USE DEF BlkInv, OwnerInv, Holds
    <3>1. (\A s, u \in requests : s = u) /\ (\A t, u \in tasks : t = u)
      OBVIOUS
    <3>2. requests = {} \/ tasks = {}
      OBVIOUS
    <3>3. lock[b] => requests # {} \/ tasks # {}
      OBVIOUS
    <3>4. requests # {} \/ tasks # {} => lock[b]
      OBVIOUS
    <3> QED
      BY <3>1, <3>2, <3>3, <3>4 DEF TypeOK
  <2>2. Cardinality(requests) + Cardinality(tasks) = IF lock[b] THEN 1 ELSE 0
    <3> HIDE DEF requests, tasks
    <3>1. Cardinality(requests) = IF requests = {} THEN 0 ELSE 1
      BY <2>1, AtMostOne
    <3>2. Cardinality(tasks) = IF tasks = {} THEN 0 ELSE 1
      BY <2>1, AtMostOne
    <3> QED
      BY <2>1, <3>1, <3>2
  <2> QED
    BY <2>2
<1> QED
  BY <1>1, BlkInvariant, PTL

=============================================================================

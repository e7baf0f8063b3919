------------------------------ MODULE TaskProof ------------------------------
(***************************************************************************)
(* Proofs about tasks.  First their families, for any number of slots and  *)
(* of pids: pids are unique, the father of every task is there, and no     *)
(* father sleeps over a zombie it waits for.  Then their time slices, for  *)
(* any number of tasks and any priorities, if two slices of the highest    *)
(* priority fit in a long.                                                 *)
(***************************************************************************)
EXTENDS Process, Sched, FiniteSetTheorems, TLAPS

\* The pids find_empty_process may give.
UnusedPids == Pid \ {pid[s] : s \in Used}

\* init is always there: it is neither killed nor released.  Its session is 0,
\* which no leader has, so that kill_session never reaches it.
InitStays ==
  /\ pc[InitSlot] \in {"user", "waitpid"}
  /\ pid[InitSlot] = 1
  /\ session[InitSlot] = 0
  /\ "TERM" \notin signal[InitSlot]

\* Task 0, which has no slot here, is the only task with pid 0 or leading
\* session 0.
IdsAreSet ==
  /\ \A s \in Used : pid[s] # 0
  /\ \A s \in Slot : leader[s] => session[s] # 0

FamilyInv ==
  /\ PidsLeadToTasks
  /\ NoMissedChild
  /\ InitStays
  /\ IdsAreSet

-----------------------------------------------------------------------------
(* The pid of a new task                                                   *)

\* A set of natural numbers that is not empty has a least element.
LEMMA LeastElement ==
  ASSUME NEW T \in SUBSET Nat, T # {}
  PROVE  \E x \in T : \A y \in T : x <= y
<1>1. PICK n \in T : TRUE
  OBVIOUS
<1> DEFINE N == 0 .. n
           R == StrictSubsetOrdering(N)
           F == {U \in SUBSET N : \E x \in T : x <= n /\ U = 0 .. x}
<1>2. IsWellFoundedOn(R, SUBSET N)
  <2>1. IsFiniteSet(N)
    BY <1>1, FS_Interval
  <2> QED
    BY <2>1, FS_FiniteSubsetsOfFinite, FS_StrictSubsetOrderingWellFounded
<1>3. F # {}
  <2>1. N \in F
    BY <1>1
  <2> QED
    BY <2>1
<1>4. PICK U \in F : \A V \in F : ~ (<<V, U>> \in R)
  <2> HIDE DEF R, F, N
  <2>1. F \subseteq SUBSET N
    BY DEF F
  <2> QED
    BY <1>2, <1>3, <2>1, WFMin
<1>5. PICK x \in T : x <= n /\ U = 0 .. x
  OBVIOUS
<1>6. ASSUME NEW y \in T, ~ (x <= y)
      PROVE  FALSE
  <2>1. y < x /\ x \in Nat /\ y \in Nat
    BY <1>6
  <2>2. 0 .. y \in F
    BY <1>5, <2>1
  <2>3. 0 .. y \subseteq 0 .. x
    BY <2>1
  <2>4. x \in 0 .. x /\ x \notin 0 .. y
    BY <2>1
  <2>5. <<0 .. y, U>> \in R
    BY <1>5, <2>2, <2>3, <2>4 DEF StrictSubsetOrdering
  <2> QED
    BY <1>4, <2>2, <2>5
<1> QED
  BY <1>6

\* There are more pids than slots (fork.c:144-147 looks for one in a loop
\* without end): some pid is always unused.
LEMMA SomePidIsUnused ==
  ASSUME TypeOK
  PROVE  UnusedPids # {}
<1> DEFINE f == [s \in Used |-> pid[s]]
           T == {pid[s] : s \in Used}
<1>1. IsFiniteSet(Slot) /\ Cardinality(Slot) = NR_TASKS - 1
  BY ProcessAssumption, FS_Interval DEF Slot
<1>2. IsFiniteSet(Pid) /\ Cardinality(Pid) = MaxPid
  BY ProcessAssumption, FS_Interval DEF Pid
<1>3. IsFiniteSet(Used) /\ Cardinality(Used) <= NR_TASKS - 1
  <2>1. Used \in SUBSET Slot
    BY DEF Used
  <2> QED
    BY <1>1, <2>1, FS_Subset
<1>4. IsFiniteSet(T) /\ Cardinality(T) <= Cardinality(Used)
  <2>1. f \in Surjection(Used, T)
    BY DEF Surjection
  <2> HIDE DEF f, T
  <2> QED
    BY <1>3, <2>1, FS_Surjection
<1>5. SUFFICES ASSUME UnusedPids = {}
               PROVE  FALSE
  OBVIOUS
<1>6. Pid \in SUBSET T
  BY <1>5 DEF UnusedPids
<1>7. Cardinality(Pid) <= Cardinality(T)
  <2> HIDE DEF T
  <2> QED
    BY <1>4, <1>6, FS_Subset
<1>8. Cardinality(Used) \in Nat /\ Cardinality(T) \in Nat
  <2> HIDE DEF T
  <2> QED
    BY <1>3, <1>4, FS_CardinalityType
<1> QED
  <2> HIDE DEF T
  <2> QED
    BY <1>2, <1>3, <1>4, <1>7, <1>8, ProcessAssumption

\* find_empty_process returns a pid that no task has (fork.c:144-147).
LEMMA NewPidIsUnused ==
  ASSUME TypeOK
  PROVE  NewPid \in UnusedPids
<1> DEFINE D == {Distance(n) : n \in UnusedPids}
<1>1. D \in SUBSET Nat
  BY ProcessAssumption DEF TypeOK, Distance, UnusedPids, Pid
<1>2. D # {}
  BY SomePidIsUnused
<1>3. \E d \in D : \A e \in D : d <= e
  <2> HIDE DEF D
  <2> QED
    BY <1>1, <1>2, LeastElement
<1>4. \E n \in UnusedPids : \A m \in UnusedPids : Distance(n) <= Distance(m)
  BY <1>3
<1> QED
  BY <1>4 DEF NewPid, UnusedPids

-----------------------------------------------------------------------------
(* The steps                                                               *)

\* A father that sleeps has missed nothing if each zombie child it has after a
\* step was there before, looked the same and has not lost its SIGCHLD, or was
\* looked for in vain by the father in this step.
LEMMA NothingMissed ==
  ASSUME NoMissedChild, TypeOK',
         \A t, c \in Slot :
           /\ pc'[t] = "waitpid" /\ pc'[c] = "zombie"
           /\ c # t /\ father'[c] = pid'[t]
           => \/ "CHLD" \in signal'[t]
              \/ /\ pc[c] = "zombie"
                 /\ father[c] = pid[t] /\ pid'[c] = pid[c]
                 /\ session'[c] = session[c] /\ session'[t] = session[t]
                 /\ \/ Zombies(t, arg'[t]) = {}
                    \/ /\ pc[t] = "waitpid" /\ arg'[t] = arg[t]
                       /\ "CHLD" \in signal[t] => "CHLD" \in signal'[t]
  PROVE  NoMissedChild'
<1> SUFFICES ASSUME NEW t \in Slot, NEW c \in Slot, pc'[t] = "waitpid",
                    Matches(t, c, arg[t])', pc'[c] = "zombie",
                    "CHLD" \notin signal'[t]
             PROVE  FALSE
  BY DEF NoMissedChild, Zombies
<1>1. c # t /\ father'[c] = pid'[t]
  BY DEF Matches, Children
<1>2. /\ pc[c] = "zombie" /\ father[c] = pid[t] /\ pid'[c] = pid[c]
      /\ session'[c] = session[c] /\ session'[t] = session[t]
      /\ \/ Zombies(t, arg'[t]) = {}
         \/ /\ pc[t] = "waitpid" /\ arg'[t] = arg[t]
            /\ "CHLD" \in signal[t] => "CHLD" \in signal'[t]
  BY <1>1
<1>3. Matches(t, c, arg'[t])
  <2>1. c \in Children(t)
    BY <1>2 DEF Children, Used
  <2>2. CASE arg'[t].kind = "pid"
    BY <1>1, <1>2, <2>1, <2>2 DEF Matches
  <2>3. CASE arg'[t].kind = "group"
    BY <1>1, <1>2, <2>1, <2>3 DEF Matches
  <2>4. CASE arg'[t].kind = "own"
    BY <1>1, <1>2, <2>1, <2>4 DEF Matches
  <2>5. CASE arg'[t].kind = "any"
    BY <1>1, <1>2, <2>1, <2>5 DEF Matches
  <2>6. arg'[t] \in Selection
    BY DEF TypeOK
  <2> QED
    BY <2>2, <2>3, <2>4, <2>5, <2>6 DEF Selection
<1>4. c \in Zombies(t, arg'[t])
  BY <1>2, <1>3 DEF Zombies
<1> QED
  BY <1>2, <1>4 DEF NoMissedChild

\* find_empty_process and copy_process.
LEMMA ForkStep ==
  ASSUME FamilyInv, NEW t \in Slot, sys_fork(t) \/ ForkFails(t)
  PROVE  FamilyInv'
<1> USE DEF FamilyInv, PidsLeadToTasks, PidsAreUnique
<1>1. NewPid \in Pid /\ \A s \in Used : pid[s] # NewPid
  BY NewPidIsUnused DEF UnusedPids
<1>2. CASE ForkFails(t)
  <2>1. TypeOK'
    BY <1>1, <1>2 DEF ForkFails, TypeOK, ids
  <2>2. NoMissedChild'
    BY <1>2, <2>1, NothingMissed DEF ForkFails, ids, NoMissedChild
  <2> QED
    BY <1>2, <2>1, <2>2 DEF ForkFails, ids, Used, FatherIsThere, InitStays,
       IdsAreSet
<1>3. CASE sys_fork(t)
  <2>1. PICK s \in FreeSlots : CopyTo(t, s)
    BY <1>3 DEF sys_fork
  <2>2. s \in Slot /\ pc[s] = "none" /\ pc[t] = "user"
    BY <1>3 DEF FreeSlots, Used, sys_fork, Forks
  <2>3. TypeOK'
    BY <1>1, <1>3, <2>1, <2>2 DEF sys_fork, CopyTo, TypeOK
  <2>4. Used' = Used \cup {s}
    BY <2>1, <2>2 DEF CopyTo, TypeOK, Used
  <2>5. \A u, v \in Used' : pid'[u] = pid'[v] => u = v
    BY <1>1, <2>1, <2>2, <2>4 DEF CopyTo, TypeOK, Used
  <2>6. FatherIsThere'
    BY <2>1, <2>2, <2>4 DEF CopyTo, TypeOK, Used, FatherIsThere
  <2>7. NoMissedChild'
    BY <2>1, <2>2, <2>3, NothingMissed DEF CopyTo, TypeOK
  <2>8. InitStays' /\ IdsAreSet'
    BY <1>1, <2>1, <2>2 DEF CopyTo, TypeOK, Used, InitStays, IdsAreSet, Pid
  <2> QED
    BY <2>3, <2>5, <2>6, <2>7, <2>8
<1> QED
  BY <1>2, <1>3

\* sys_setsid.
LEMMA SetsidStep ==
  ASSUME FamilyInv, NEW t \in Slot, sys_setsid(t)
  PROVE  FamilyInv'
<1> USE DEF FamilyInv, PidsLeadToTasks, PidsAreUnique
<1>1. TypeOK'
  BY DEF sys_setsid, TypeOK
<1>2. NoMissedChild'
  BY <1>1, NothingMissed DEF sys_setsid, TypeOK
<1>3. PidsAreUnique' /\ FatherIsThere'
  BY <1>1 DEF sys_setsid, Used, FatherIsThere
<1>4. InitStays' /\ IdsAreSet'
  BY DEF sys_setsid, TypeOK, Used, InitStays, IdsAreSet
<1> QED
  BY <1>2, <1>3, <1>4

\* The first half of do_exit: whoever exits is not init, so its children have
\* a father in init, which is told of the zombies among them.
LEMMA ExitBeginStep ==
  ASSUME FamilyInv, NEW t \in Slot, sys_exit(t) \/ Killed(t)
  PROVE  FamilyInv'
<1> USE DEF FamilyInv, PidsLeadToTasks, PidsAreUnique
<1>1. ExitBegin(t) /\ pc[t] = "user" /\ t # InitSlot
  BY DEF sys_exit, Killed, InitStays
<1>2. InitSlot \in Slot
  BY ProcessAssumption DEF Slot, InitSlot
<1>3. TypeOK'
  <2>1. 1 \in Pid
    BY ProcessAssumption DEF Pid
  <2> QED
    BY <1>1, <1>2, <2>1 DEF ExitBegin, TypeOK, Sig
<1>4. Used' = Used
  BY <1>1 DEF ExitBegin, TypeOK, Used
<1>5. PidsAreUnique'
  BY <1>1, <1>3, <1>4 DEF ExitBegin
<1>6. FatherIsThere'
  <2> SUFFICES ASSUME NEW s \in Used, s # InitSlot
               PROVE  \E f \in Used : /\ pid[f] = father'[s]
                                      /\ pc'[f] \in {"user", "waitpid"}
    BY <1>1, <1>4 DEF ExitBegin, FatherIsThere
  <2>1. CASE s \in Children(t)
    BY <1>1, <1>2, <2>1 DEF ExitBegin, TypeOK, InitStays, Used
  <2>2. CASE s \notin Children(t)
    <3>1. father'[s] = father[s] /\ father[s] # pid[t]
      BY <1>1, <2>2 DEF ExitBegin, Children, TypeOK, Used
    <3> QED
      BY <1>1, <3>1 DEF ExitBegin, FatherIsThere, TypeOK, Used
  <2> QED
    BY <2>1, <2>2
<1>7. NoMissedChild'
  <2> SUFFICES ASSUME NEW u \in Slot, NEW c \in Slot,
                      pc'[u] = "waitpid", pc'[c] = "zombie",
                      father'[c] = pid'[u], "CHLD" \notin signal'[u]
               PROVE  c \notin Children(t) /\ signal[u] = signal'[u]
    BY <1>1, <1>3, NothingMissed DEF ExitBegin, TypeOK
  <2>1. signal[u] = signal'[u]
    BY <1>1, <1>2 DEF ExitBegin, TypeOK, InitStays
  <2>2. ASSUME c \in Children(t)
        PROVE  FALSE
    <3>1. father'[c] = 1 /\ pc[c] = "zombie" /\ u \in Used
      BY <1>1, <2>2 DEF ExitBegin, TypeOK, Used
    <3>2. u = InitSlot
      BY <1>1, <1>2, <3>1 DEF ExitBegin, InitStays, Used
    <3> QED
      BY <1>1, <1>2, <2>2, <3>1, <3>2 DEF ExitBegin, TypeOK, InitStays
  <2> QED
    BY <2>1, <2>2
<1>8. InitStays' /\ IdsAreSet'
  BY <1>1, <1>2, <1>4 DEF ExitBegin, TypeOK, InitStays, IdsAreSet
<1> QED
  BY <1>5, <1>6, <1>7, <1>8

\* The second half: the father is found and told.
LEMMA ExitEndStep ==
  ASSUME FamilyInv, NEW t \in Slot, ExitEnd(t)
  PROVE  FamilyInv'
<1> USE DEF FamilyInv, PidsLeadToTasks, PidsAreUnique
<1>1. t \in Used /\ pc[t] = "exit" /\ t # InitSlot /\ InitSlot \in Slot
  BY ProcessAssumption DEF ExitEnd, Used, InitStays, Slot, InitSlot
<1>2. PICK f \in Used : /\ pid[f] = father[t]
                        /\ signal' = [Hangup(t) EXCEPT ![f] = @ \cup {"CHLD"}]
  BY <1>1 DEF ExitEnd, FatherIsThere
<1>3. /\ pc' = [pc EXCEPT ![t] = "zombie"]
      /\ UNCHANGED <<ids, arg, last_pid, child>>
  BY <1>1 DEF ExitEnd, FatherIsThere
<1>4. \A s \in Slot : signal[s] \subseteq signal'[s]
  BY <1>2 DEF TypeOK, Hangup, Used
<1>5. TypeOK'
  BY <1>2, <1>3 DEF TypeOK, Hangup, Sig, ids
<1>6. Used' = Used
  BY <1>1, <1>3 DEF TypeOK, Used
<1>7. PidsAreUnique' /\ FatherIsThere'
  BY <1>1, <1>3, <1>5, <1>6 DEF FatherIsThere, ids, Used, TypeOK
<1>8. NoMissedChild'
  <2>1. ASSUME NEW u \in Slot, pc'[u] = "waitpid", father'[t] = pid'[u]
        PROVE  "CHLD" \in signal'[u]
    BY <1>1, <1>2, <1>3, <2>1 DEF TypeOK, Used, ids, Hangup
  <2> QED
    BY <1>1, <1>3, <1>4, <1>5, <2>1, NothingMissed DEF TypeOK, ids
<1>9. InitStays' /\ IdsAreSet'
  <2>1. InitSlot \notin Session(t)
    BY <1>1 DEF Session, InitStays, IdsAreSet
  <2> QED
    BY <1>1, <1>2, <1>3, <1>6, <2>1
       DEF TypeOK, Hangup, InitStays, IdsAreSet, ids
<1> QED
  BY <1>7, <1>8, <1>9

\* One round of the loop in sys_waitpid.
LEMMA ScanStep ==
  ASSUME FamilyInv, NEW t \in Slot, NEW STATE a, NEW nohang, NEW STATE sig,
         a \in Selection,
         pc[t] \in {"user", "waitpid"}, sig \in [Slot -> SUBSET Sig],
         \A s \in Slot : sig[s] \subseteq signal[s],
         \A s \in Slot \ {t} : sig[s] = signal[s],
         Scan(t, a, nohang, sig), UNCHANGED last_pid
  PROVE  FamilyInv'
<1> USE DEF FamilyInv, PidsLeadToTasks, PidsAreUnique
<1>1. Any \in Selection /\ InitSlot \in Slot
  BY ProcessAssumption DEF Any, Selection, Slot, InitSlot
<1>2. ASSUME NEW c \in Zombies(t, a),
             pc' = [pc EXCEPT ![t] = "user", ![c] = "none"],
             pid' = Cleared(pid, c, 0),
             father' = Cleared(father, c, 0),
             session' = Cleared(session, c, 0),
             leader' = Cleared(leader, c, FALSE),
             arg' = [arg EXCEPT ![t] = Any],
             signal' = [sig EXCEPT ![c] = {}],
             child' = IF pid[t] = 1 /\ pid[c] = child THEN 0 ELSE child
      PROVE  FamilyInv'
  <2>1. c \in Slot /\ pc[c] = "zombie" /\ c # InitSlot /\ c # t
    BY DEF Zombies, Matches, InitStays
  <2>2. TypeOK'
    BY <1>1, <1>2, <2>1 DEF TypeOK, Cleared
  <2>3. Used' = Used \ {c}
    BY <1>2, <2>1 DEF TypeOK, Used
  <2>4. PidsAreUnique'
    BY <1>2, <2>1, <2>2, <2>3 DEF TypeOK, Cleared, Used
  <2>5. FatherIsThere'
    BY <1>2, <2>1, <2>3 DEF TypeOK, Cleared, Used, FatherIsThere
  <2>6. NoMissedChild'
    BY <1>2, <2>1, <2>2, NothingMissed DEF TypeOK, Cleared
  <2>7. InitStays' /\ IdsAreSet'
    BY <1>1, <1>2, <2>1, <2>3
       DEF TypeOK, Cleared, Used, InitStays, IdsAreSet
  <2> QED
    BY <2>4, <2>5, <2>6, <2>7
<1>3. ASSUME Zombies(t, a) = {}, signal' = sig, UNCHANGED <<ids, child>>,
             \/ /\ pc' = [pc EXCEPT ![t] = "waitpid"]
                /\ arg' = [arg EXCEPT ![t] = a]
             \/ /\ pc' = [pc EXCEPT ![t] = "user"]
                /\ arg' = [arg EXCEPT ![t] = Any]
      PROVE  FamilyInv'
  <2>1. TypeOK'
    BY <1>1, <1>3 DEF TypeOK, ids
  <2>2. Used' = Used
    BY <1>3 DEF TypeOK, Used
  <2>3. PidsAreUnique' /\ FatherIsThere'
    BY <1>3, <2>1, <2>2 DEF TypeOK, Used, FatherIsThere, ids
  <2>4. NoMissedChild'
    BY <1>3, <2>1, NothingMissed DEF TypeOK, ids
  <2>5. InitStays' /\ IdsAreSet'
    BY <1>1, <1>3, <2>2 DEF TypeOK, InitStays, IdsAreSet, ids
  <2> QED
    BY <2>3, <2>4, <2>5
<1> QED
  BY <1>2, <1>3 DEF Scan

\* sys_waitpid, and schedule() when it resumes a task that sleeps in it.
LEMMA WaitStep ==
  ASSUME FamilyInv, NEW t \in Slot,
         \/ \E a \in Selection, nohang \in BOOLEAN : sys_waitpid(t, a, nohang)
         \/ WaitResumes(t)
  PROVE  FamilyInv'
<1>0. TypeOK
  BY DEF FamilyInv, PidsLeadToTasks, PidsAreUnique
<1>1. ASSUME NEW a \in Selection, NEW nohang \in BOOLEAN,
             sys_waitpid(t, a, nohang)
      PROVE  FamilyInv'
  BY <1>0, <1>1, ScanStep DEF sys_waitpid, TypeOK
<1> DEFINE sig == [signal EXCEPT ![t] = @ \ {"CHLD"}]
<1>2. ASSUME WaitResumes(t), Scan(t, arg[t], FALSE, sig)
      PROVE  FamilyInv'
  <2>1. /\ sig \in [Slot -> SUBSET Sig] /\ arg[t] \in Selection
        /\ \A s \in Slot : sig[s] \subseteq signal[s]
        /\ \A s \in Slot \ {t} : sig[s] = signal[s]
    BY <1>0 DEF TypeOK
  <2> HIDE DEF sig
  <2> QED
    BY <1>2, <2>1, ScanStep DEF WaitResumes
<1>3. ASSUME WaitResumes(t), ~ Scan(t, arg[t], FALSE, sig)
      PROVE  FamilyInv'
  <2>1. /\ pc' = [pc EXCEPT ![t] = "user"]
        /\ arg' = [arg EXCEPT ![t] = Any]
        /\ signal' = sig
        /\ UNCHANGED <<ids, child, last_pid>>
        /\ pc[t] = "waitpid"
    BY <1>3 DEF WaitResumes
  <2>2. TypeOK'
    BY <1>0, <2>1 DEF TypeOK, ids, Any, Selection
  <2>3. Used' = Used
    BY <1>0, <2>1 DEF TypeOK, Used
  <2>4. NoMissedChild'
    BY <1>0, <2>1, <2>2, NothingMissed DEF FamilyInv, TypeOK, ids
  <2> QED
    BY <1>0, <2>1, <2>2, <2>3, <2>4 DEF FamilyInv, TypeOK, PidsLeadToTasks,
       PidsAreUnique, FatherIsThere, InitStays, IdsAreSet, ids, Used
<1> QED
  BY <1>1, <1>2, <1>3

\* sys_kill and tty_intr, and the signals that do_signal takes.
LEMMA SignalStep ==
  ASSUME FamilyInv, NEW t \in Slot,
         (\E sig \in Sig : sys_kill(t, sig)) \/ TakeSignal(t)
  PROVE  FamilyInv'
<1> USE DEF FamilyInv, PidsLeadToTasks, PidsAreUnique
<1>1. UNCHANGED <<pc, ids, arg, last_pid, child>>
  BY DEF sys_kill, TakeSignal
<1> DEFINE Safe(sig) ==
             /\ sig \in [Slot -> SUBSET Sig]
             /\ \A s \in Slot : pc[s] = "waitpid" => signal[s] \subseteq sig[s]
             /\ "TERM" \notin sig[InitSlot]
<1>2. Safe(signal')
  <2>1. ASSUME NEW sig \in Sig, NEW S,
               signal' = [s \in Slot |-> IF s \in S /\ s # InitSlot
                                         THEN signal[s] \cup {sig}
                                         ELSE signal[s]]
        PROVE  Safe(signal')
    BY <2>1, ProcessAssumption DEF TypeOK, InitStays, Slot, InitSlot
  <2>2. CASE TakeSignal(t)
    BY <2>2, ProcessAssumption DEF TypeOK, InitStays, TakeSignal
  <2> QED
    BY <2>1, <2>2 DEF sys_kill
<1>3. TypeOK'
  BY <1>1, <1>2 DEF TypeOK, ids
<1>4. NoMissedChild'
  BY <1>1, <1>2, <1>3, NothingMissed DEF ids
<1> QED
  BY <1>1, <1>2, <1>3, <1>4 DEF ids, Used, FatherIsThere, InitStays, IdsAreSet

-----------------------------------------------------------------------------
(* The theorems                                                            *)

\* The inductive invariant, for any number of slots and of pids.
THEOREM FamilyInvariant == Spec => []FamilyInv
<1>1. Init => FamilyInv
  <2> SUFFICES ASSUME Init PROVE FamilyInv
    OBVIOUS
  <2>1. TypeOK
    BY ProcessAssumption DEF Init, TypeOK, Slot, InitSlot, Pid, Any, Selection
  <2>2. Used = {InitSlot}
    BY ProcessAssumption DEF Init, Used, Slot, InitSlot
  <2> QED
    BY <2>1, <2>2, ProcessAssumption DEF Init, FamilyInv, PidsLeadToTasks,
       PidsAreUnique, FatherIsThere, NoMissedChild, InitStays, IdsAreSet, Slot,
       InitSlot
<1>2. FamilyInv /\ [Next]_vars => FamilyInv'
  <2> SUFFICES ASSUME FamilyInv, [Next]_vars
               PROVE  FamilyInv'
    OBVIOUS
  <2>1. CASE Next
    BY <2>1, ForkStep, SetsidStep, ExitBeginStep, ExitEndStep, WaitStep,
       SignalStep DEF Next
  <2>2. CASE UNCHANGED vars
    <3>1. TypeOK'
      BY <2>2 DEF FamilyInv, PidsLeadToTasks, PidsAreUnique, TypeOK, vars, ids
    <3>2. NoMissedChild'
      BY <2>2, <3>1, NothingMissed DEF FamilyInv, vars, ids
    <3> QED
      BY <2>2, <3>1, <3>2 DEF FamilyInv, PidsLeadToTasks, PidsAreUnique,
         FatherIsThere, InitStays, IdsAreSet, Used, vars, ids
  <2> QED
    BY <2>1, <2>2
<1> QED
  BY <1>1, <1>2, PTL DEF Spec

\* Pids lead to tasks: a pid belongs to one task at most, zombies included
\* (fork.c:144-147), and the father of every task exists and will still look
\* for its children (exit.c:96-98 prints "BAD BAD" otherwise).
THEOREM PidsAlwaysLeadToTasks == Spec => []PidsLeadToTasks
<1>1. FamilyInv => PidsLeadToTasks
  BY DEF FamilyInv
<1> QED
  BY <1>1, FamilyInvariant, PTL

\* SIGCHLD is pending while a father sleeps in sys_waitpid and a child it waits
\* for is a zombie.
THEOREM NoChildIsMissed == Spec => []NoMissedChild
<1>1. FamilyInv => NoMissedChild
  BY DEF FamilyInv
<1> QED
  BY <1>1, FamilyInvariant, PTL

-----------------------------------------------------------------------------
(* The scheduler                                                            *)

NoOverflow == 2 * MaxPriority - 1 <= MaxLong

SchedInv == SchedTypeOK /\ CounterBound

Counters == [Task \cup {Idle} -> Int]

Bounded(c) == \A t \in Task : c[t] \in 0 .. 2 * MaxPriority - 1

\* counter = (counter >> 1) + priority stays below twice the priority.
LEMMA RecomputeBounded ==
  ASSUME NoOverflow, Moderate, SchedTypeOK,
         NEW s \in [Task \cup {Idle} -> States],
         NEW c \in Counters, Bounded(c)
  PROVE  Bounded(Recompute(s, c))
<1>1. ASSUME NEW t \in Task
      PROVE  c[t] \div 2 \in 0 .. MaxPriority - 1
  <2>1. c[t] \in 0 .. 2 * MaxPriority - 1 /\ MaxPriority \in Nat
    BY SchedAssumption DEF Bounded
  <2> QED
    BY <2>1
<1>2. ASSUME NEW t \in Task
      PROVE  Wrap(c[t] \div 2 + priority[t]) \in 0 .. 2 * MaxPriority - 1
  <2>1. priority[t] \in 1 .. MaxPriority
    BY SchedAssumption DEF Moderate, SchedTypeOK
  <2> QED
    BY <1>1, <1>2, <2>1, NoOverflow, SchedAssumption DEF NoOverflow, Wrap
<1>3. Idle \notin Task
  BY DEF Idle, Task
<1> QED
  BY <1>2, <1>3 DEF Bounded, Recompute, Counters

\* The counters are numbers whatever they are made of.
LEMMA RecomputeCounts ==
  ASSUME SchedTypeOK, NEW s, NEW c \in Counters
  PROVE  Recompute(s, c) \in Counters
<1>1. ASSUME NEW t \in Task
      PROVE  Wrap(c[t] \div 2 + priority[t]) \in Int
  <2>1. c[t] \in Int /\ priority[t] \in Int /\ MaxLong \in Int
    BY SchedAssumption DEF Counters, SchedTypeOK
  <2>2. c[t] \div 2 \in Int
    BY <2>1
  <2> QED
    BY <2>1, <2>2 DEF Wrap
<1> QED
  BY <1>1 DEF Recompute, Counters, Idle, Task

\* A new slice is made only by the recomputation, and keeps the bound as long as
\* priorities do.
Slices(c, d) == NoOverflow /\ Moderate /\ Bounded(c) => Bounded(d)

\* schedule() keeps the types and the bound, and it chooses task 0 only if every
\* task that can run has a negative counter.
LEMMA ScheduleKeeps ==
  ASSUME SchedTypeOK,
         NEW s \in [Task \cup {Idle} -> States], NEW c \in Counters,
         NEW a \in [Task -> Nat \cup {NoAlarm}],
         Schedule(s, c, a)
  PROVE  /\ current' \in Task \cup {Idle}
         /\ state' \in [Task \cup {Idle} -> States]
         /\ counter' \in Counters
         /\ Slices(c, counter')
         /\ alarm' \in [Task -> Nat \cup {NoAlarm}]
         /\ signalled' \in [Task -> BOOLEAN]
         /\ current' = Idle
              => \A t \in Task : state'[t] = "RUNNING" => counter'[t] < 0
<1> DEFINE due == {t \in Task : s[t] # "NONE" /\ a[t] = 0}
           sig == [t \in Task |-> signalled[t] \/ t \in due]
           awake == [t \in Task \cup {Idle} |->
                       IF t # Idle /\ s[t] = "INTERRUPTIBLE" /\ sig[t]
                       THEN "RUNNING" ELSE s[t]]
           slices == IF Exhausted(awake, c) THEN Recompute(awake, c) ELSE c
<1>1. /\ alarm' = [t \in Task |-> IF t \in due THEN NoAlarm ELSE a[t]]
      /\ signalled' = sig
      /\ state' = awake
      /\ counter' = slices
      /\ current' \in Choice(awake, slices)
  BY DEF Schedule
<1>2. awake \in [Task \cup {Idle} -> States]
  BY DEF States
<1>3. slices \in Counters /\ Slices(c, slices)
  BY <1>2, RecomputeBounded, RecomputeCounts DEF Slices
<1>4. sig \in [Task -> BOOLEAN]
  BY DEF SchedTypeOK
<1>5. Idle \notin Task
  BY DEF Idle, Task
<1>6. current' \in Task \cup {Idle}
  BY <1>1 DEF Choice, Ready
<1>7. current' = Idle => \A t \in Task : awake[t] = "RUNNING" => slices[t] < 0
  <2> HIDE DEF awake, slices
  <2>1. CASE Ready(awake, slices) = {}
    BY <1>3, <2>1 DEF Ready, Counters
  <2>2. CASE Ready(awake, slices) # {}
    BY <1>1, <1>5, <2>2 DEF Choice, Ready
  <2> QED
    BY <2>1, <2>2
<1>8. alarm' \in [Task -> Nat \cup {NoAlarm}]
  BY <1>1
<1> HIDE DEF awake, slices, sig
<1> QED
  BY <1>1, <1>2, <1>3, <1>4, <1>6, <1>7, <1>8

LEMMA SchedInvInit == SchedInit => SchedInv
<1> SUFFICES ASSUME SchedInit PROVE SchedInv
  OBVIOUS
<1> USE SchedAssumption DEF SchedInit
<1>1. Idle \notin Task
  BY DEF Idle, Task
<1>2. SchedTypeOK
  BY DEF SchedTypeOK, States, NoAlarm
<1>3. CounterBound
  <2>1. /\ InitPriority \in 0 .. 2 * MaxPriority - 1
        /\ 0 \in 0 .. 2 * MaxPriority - 1
    OBVIOUS
  <2> QED
    BY <2>1 DEF CounterBound
<1> QED
  BY <1>2, <1>3 DEF SchedInv

\* What a step does to a bound on the counters.
StaysBounded == NoOverflow /\ Moderate /\ CounterBound => CounterBound'

\* Task 0 gets the processor only if no task can run but with a negative counter.
IdleRest ==
  current # Idle /\ current' = Idle
    => \A t \in Task : state'[t] = "RUNNING" => counter'[t] < 0

\* What a step keeps.
Kept == SchedTypeOK' /\ StaysBounded /\ IdleRest

\* sys_nice stores a priority only if it is positive, whatever it is asked for.
LEMMA NiceKeeps ==
  ASSUME SchedTypeOK, NEW t \in Task \cup {Idle}, NEW i \in Increments,
         sys_nice(t, i)
  PROVE  Kept
<1> DEFINE new == Wrap(priority[t] - i)
<1>1. /\ t \in Task /\ counter' = counter /\ state' = state
      /\ current' = current
      /\ priority' = [priority EXCEPT ![t] = IF new > 0 THEN new ELSE @]
      /\ mode' = [mode EXCEPT ![t] = "exit"]
      /\ alarm' = alarm /\ signalled' = signalled
  BY DEF sys_nice
<1>2. new \in Int /\ new <= MaxLong
  BY <1>1, SchedAssumption DEF SchedTypeOK, Wrap
<1>3. MaxLong \in Nat
  BY SchedAssumption
<1> HIDE DEF new
<1>4. priority' \in [Task -> 1 .. MaxLong]
  BY <1>1, <1>2, <1>3 DEF SchedTypeOK
<1>5. SchedTypeOK'
  BY <1>1, <1>4 DEF SchedTypeOK
<1> QED
  BY <1>1, <1>5 DEF Kept, StaysBounded, IdleRest, CounterBound

LEMMA SchedStep ==
  ASSUME SchedTypeOK, [SchedNext]_sched_vars
  PROVE  Kept
<1> USE SchedAssumption DEF At, Kept, StaysBounded, IdleRest
<1>0. Idle \notin Task /\ counter \in Counters
      /\ (CounterBound <=> Bounded(counter))
  BY DEF Idle, Task, Bounded, SchedTypeOK, CounterBound, Counters
<1>1. CASE TickInKernel
  BY <1>0, <1>1
  DEF TickInKernel, Elapse, SchedTypeOK, CounterBound, NoAlarm
<1>2. CASE TickInUser
  <2> DEFINE left == IF counter[current] - 1 > 0
                     THEN counter[current] - 1 ELSE 0
             c == [counter EXCEPT ![current] = left]
  <2>1. /\ c \in Counters /\ (Bounded(counter) => Bounded(c))
        /\ Elapse \in [Task -> Nat \cup {NoAlarm}]
    BY <1>0 DEF Bounded, Elapse, SchedTypeOK, Counters, NoAlarm
  <2>2. CASE left > 0
    <3> HIDE DEF c
    <3>1. /\ counter' = c /\ alarm' = Elapse
          /\ UNCHANGED <<current, state, signalled, priority>>
          /\ mode' = [mode EXCEPT ![current] = "iret"]
      BY <1>2, <2>2 DEF TickInUser, c
    <3> QED
      BY <1>0, <2>1, <3>1 DEF SchedTypeOK, Bounded, CounterBound, Counters
  <2>3. CASE ~(left > 0)
    <3>1. Schedule(state, c, Elapse)
      BY <1>2, <2>3 DEF TickInUser
    <3> HIDE DEF c
    <3> QED
      BY <1>0, <1>2, <2>1, <3>1, ScheduleKeeps
      DEF TickInUser, SchedTypeOK, CounterBound, Bounded, Slices, Counters
  <2> QED
    BY <2>2, <2>3
<1>3. ASSUME NEW t \in Task \cup {Idle},
             \/ system_call(t) \/ Other(t) \/ ret_from_sys_call(t)
             \/ \E i \in Increments : sys_nice(t, i)
             \/ \E s \in Seconds : sys_alarm(t, s)
      PROVE  Kept
  <2>1. CASE system_call(t) \/ Other(t) \/ ret_from_sys_call(t)
    BY <2>1 DEF system_call, Other, ret_from_sys_call, SchedTypeOK, CounterBound
  <2>2. ASSUME NEW i \in Increments, sys_nice(t, i) PROVE Kept
    BY <2>2, NiceKeeps
  <2>3. ASSUME NEW s \in Seconds, sys_alarm(t, s) PROVE Kept
    BY <2>3 DEF sys_alarm, SchedTypeOK, CounterBound
  <2> QED
    BY <1>3, <2>1, <2>2, <2>3
<1>4. ASSUME NEW t \in Task \cup {Idle}, NEW s \in States,
             mode' \in [Task \cup {Idle} ->
                         {"user", "syscall", "exit", "iret"}],
             priority' = priority,
             Schedule([state EXCEPT ![t] = s], counter, alarm)
      PROVE  Kept
  <2>1. [state EXCEPT ![t] = s] \in [Task \cup {Idle} -> States]
    BY DEF SchedTypeOK
  <2> QED
    BY <1>0, <1>4, <2>1, ScheduleKeeps
    DEF SchedTypeOK, CounterBound, Bounded, Slices, Counters
<1>5. ASSUME NEW t \in Task \cup {Idle},
             \/ \E s \in {"INTERRUPTIBLE", "UNINTERRUPTIBLE"} : Block(t, s)
             \/ sys_pause(t) \/ do_exit(t) \/ do_signal(t)
      PROVE  Kept
  BY <1>4, <1>5 DEF Block, sys_pause, do_exit, do_signal, States, SchedTypeOK
<1>6. ASSUME NEW t \in Task, NEW n \in Task,
             copy_process(t, n) \/ Reap(t, n)
      PROVE  Kept
  <2>1. CASE copy_process(t, n)
    <3>1. SchedTypeOK'
      BY <1>0, <2>1 DEF copy_process, SchedTypeOK, States
    <3>2. ASSUME Moderate, CounterBound PROVE CounterBound'
      <4>1. counter' = [counter EXCEPT ![n] = priority[t]]
        BY <2>1 DEF copy_process
      <4>2. priority[t] \in 0 .. 2 * MaxPriority - 1
        BY <3>2 DEF Moderate, SchedTypeOK
      <4> QED
        BY <3>2, <4>1, <4>2 DEF SchedTypeOK, CounterBound
    <3> QED
      BY <2>1, <3>1, <3>2 DEF copy_process
  <2>2. CASE Reap(t, n)
    <3> DEFINE s == [state EXCEPT ![n] = "NONE"]
               c == [counter EXCEPT ![n] = 0]
               a == [alarm EXCEPT ![n] = NoAlarm]
    <3>1. Schedule(s, c, a)
      BY <2>2 DEF Reap
    <3>2. s \in [Task \cup {Idle} -> States]
      BY DEF SchedTypeOK, States
    <3>3. c \in Counters /\ (Bounded(counter) => Bounded(c))
      <4>1. 0 \in 0 .. 2 * MaxPriority - 1
        OBVIOUS
      <4> QED
        BY <1>0, <4>1 DEF Bounded, Counters
    <3>4. a \in [Task -> Nat \cup {NoAlarm}]
      BY DEF SchedTypeOK
    <3> HIDE DEF s, c, a
    <3>5. /\ current' \in Task \cup {Idle}
          /\ state' \in [Task \cup {Idle} -> States]
          /\ counter' \in Counters
          /\ Slices(c, counter')
          /\ alarm' \in [Task -> Nat \cup {NoAlarm}]
          /\ signalled' \in [Task -> BOOLEAN]
          /\ current' = Idle
               => \A u \in Task : state'[u] = "RUNNING" => counter'[u] < 0
      BY <3>1, <3>2, <3>3, <3>4, ScheduleKeeps
    <3>6. priority' \in [Task -> 1 .. MaxLong]
      BY <2>2 DEF Reap, SchedTypeOK
    <3>7. mode' \in [Task \cup {Idle} -> {"user", "syscall", "exit", "iret"}]
      BY <2>2 DEF Reap, SchedTypeOK
    <3>8. SchedTypeOK'
      BY <3>5, <3>6, <3>7 DEF SchedTypeOK, Counters
    <3> QED
      BY <1>0, <3>3, <3>5, <3>8 DEF Slices, CounterBound, Bounded
  <2> QED
    BY <1>6, <2>1, <2>2
<1>7. ASSUME NEW t \in Task \cup {Idle}, SyscallExit(t)
      PROVE  Kept
  <2>1. CASE state[t] # "RUNNING" \/ counter[t] = 0
    BY <1>0, <1>7, <2>1, ScheduleKeeps
    DEF SyscallExit, SchedTypeOK, CounterBound, Bounded, Slices, Counters
  <2>2. CASE ~(state[t] # "RUNNING" \/ counter[t] = 0)
    BY <1>7, <2>2 DEF SyscallExit, SchedTypeOK, CounterBound
  <2> QED
    BY <2>1, <2>2
<1>8. ASSUME NEW t \in Task, Wake(t) \/ send_sig(t)
      PROVE  Kept
  BY <1>8 DEF Wake, send_sig, SchedTypeOK, CounterBound, States
<1>9. CASE UNCHANGED sched_vars
  BY <1>9 DEF sched_vars, SchedTypeOK, CounterBound
<1>10. ASSUME NEW n \in Task
       PROVE  ~copy_process(Idle, n) /\ ~Reap(Idle, n)
  BY DEF copy_process, Reap
<1> QED
  BY <1>1, <1>2, <1>3, <1>5, <1>6, <1>7, <1>8, <1>9, <1>10
  DEF SchedNext, Tick, Call, Leave

\* The variables of the scheduler stay in their types: a priority is positive
\* and fits in a long whatever sys_nice is called with (sched.c:378-383).
THEOREM SchedTypeCorrect == SchedSpec => []SchedTypeOK
<1>1. SchedTypeOK /\ [SchedNext]_sched_vars => SchedTypeOK'
  BY SchedStep DEF Kept
<1>2. SchedInit => SchedTypeOK
  BY SchedInvInit DEF SchedInv
<1> QED
  BY <1>1, <1>2, PTL DEF SchedSpec

\* sched.c:104-141: as long as programs raise no priority above MaxPriority, and
\* two slices of it fit in a long, no sequence of sleeps, forks and changes of
\* priority makes a time slice reach twice that, or negative.
THEOREM CountersAreBounded ==
  ASSUME NoOverflow
  PROVE  SchedSpec /\ []Moderate => []CounterBound
<1>1. Moderate /\ SchedInv /\ [SchedNext]_sched_vars => SchedInv'
  BY NoOverflow, SchedStep DEF SchedInv, Kept, StaysBounded
<1>2. SchedInv => CounterBound
  BY DEF SchedInv
<1> QED
  BY <1>1, <1>2, SchedInvInit, PTL DEF SchedSpec

\* schedule(), without a bound on priorities: when task 0 is chosen, each task
\* that can run has a negative counter.
THEOREM IdleMeansNoTicks ==
  SchedSpec => [][IdleRest]_sched_vars
<1>1. SchedTypeOK /\ [SchedNext]_sched_vars => SchedTypeOK' /\ IdleRest
  BY SchedStep DEF Kept
<1>2. SchedInit => SchedTypeOK
  BY SchedInvInit DEF SchedInv
<1> QED
  BY <1>1, <1>2, PTL DEF SchedSpec

\* So that task 0 is chosen only if no other task can run, as long as programs
\* raise no priority above MaxPriority, and two slices of it fit in a long.
THEOREM IdleIsLast ==
  ASSUME NoOverflow
  PROVE  SchedSpec /\ []Moderate => IdleOnlyWhenNoneCanRun
<1> DEFINE Last == current # Idle /\ current' = Idle
                     => \A t \in Task : state'[t] # "RUNNING"
<1>1. Moderate /\ SchedInv /\ [SchedNext]_sched_vars => SchedInv' /\ Last
  <2> SUFFICES ASSUME Moderate, SchedInv, [SchedNext]_sched_vars
               PROVE  SchedInv' /\ Last
    OBVIOUS
  <2>1. SchedInv' /\ IdleRest
    BY NoOverflow, SchedStep DEF SchedInv, Kept, StaysBounded
  <2>2. \A t \in Task : ~(counter'[t] < 0)
    BY <2>1, SchedAssumption DEF SchedInv, CounterBound
  <2> QED
    BY <2>1, <2>2 DEF IdleRest
<1> QED
  BY <1>1, SchedInvInit, PTL DEF SchedSpec, IdleOnlyWhenNoneCanRun

=============================================================================

----------------------------- MODULE FilesProof -----------------------------
(***************************************************************************)
(* Proofs about open files and pipes, for any number of tasks, files and   *)
(* descriptors and any size of the ring: the counts of files and inodes    *)
(* are exact, a closed descriptor is not marked for exec, and nobody       *)
(* sleeps in a pipe who could go on.  They are proved of the files alone   *)
(* and of the files with the terminal on top of them.                      *)
(***************************************************************************)
EXTENDS Tty, FiniteSetTheorems, TLAPS

-----------------------------------------------------------------------------
(* The inductive invariant                                                 *)

\* Where a task may be: in the calls about descriptors, in the pipe, in the
\* terminal.
Filing == {"user", "absent", "open_namei", "get_pipe_inode", "dupfd", "closing",
           "iput", "stale_iput", "leave", "dead", "close_on_exec", "new_program"}
Piping == {"read_pipe", "sleep_read", "put_fs_byte",
           "write_pipe", "sleep_write", "get_fs_byte"}
Terminal == {"tty_read", "tty_spin", "getch", "tty_give", "sleep_tty_read", "tty_write",
             "tty_full", "sleep_tty_write", "tty_take", "tty_put", "tty_inc", "tty_flush"}

Opening == {"open_namei", "get_pipe_inode"}

\* A record with the fields of Registers.
Shaped(q) ==
  q \in [pc : {q.pc}, fd : {q.fd}, closing : {q.closing}, next : {q.next},
         old : {q.old}, new : {q.new}, need : {q.need}, put : {q.put},
         at : {q.at}, keeps : {q.keeps}]

\* What a task may have in its registers and on its stack.
Sound(q) ==
  /\ Shaped(q)
  /\ q.pc \in Filing \cup Piping \cup Terminal
  /\ q.next \in {"user", "dupfd", "leave", "close_on_exec", "new_program"}
  /\ q.fd \subseteq Fd /\ (q.pc \notin Opening => q.fd = {})
  /\ q.pc = "open_namei" => \E d \in Fd : q.fd = {d}
  /\ q.pc = "get_pipe_inode" => \E d, e \in Fd : d < e /\ q.fd = {d, e}
  /\ q.closing \subseteq Fd
  /\ q.closing # {} => q.pc \in {"closing", "iput", "stale_iput"}
  /\ q.pc = "closing" => q.closing # {}
  /\ q.next = "dupfd" \/ q.pc = "dupfd" => q.old \in Fd /\ q.new \in Fd
  /\ q.next = "leave" => q.pc \in {"closing", "iput", "stale_iput", "leave", "dead"}
  /\ q.pc \in {"leave", "dead"} => q.next = "leave"
  /\ q.keeps \in 0 .. 3
  /\ q.pc # "absent" /\ q.next # "leave" => q.keeps = 3
  /\ q.pc \in {"absent", "dead"} => q.keeps = 0
  /\ q.pc \in {"read_pipe", "sleep_read", "put_fs_byte"} => q.need \in Nat
  /\ q.pc \in {"write_pipe", "sleep_write", "get_fs_byte"} => q.put \in Seq(Byte)
  /\ q.pc = "get_fs_byte" => q.at \in Seq(Int)

RegisterInv ==
  /\ DOMAIN r = Task /\ r = [t \in Task |-> r[t]]
  /\ \A t \in Task : Sound(r[t])

Kind == {"", "file", "read", "write"}
FileTable == [File -> [count : Int, kind : Kind]]
Tables == [Task -> [Fd -> File \cup {None}]]
Marks == [Task -> SUBSET Fd]

\* A ring with its places in the page.
Whole(p) ==
  /\ p \in [count : {p.count}, head : {p.head}, tail : {p.tail}, buf : {p.buf},
            untold : {p.untold}]
  /\ p.head \in 0 .. PAGE_SIZE - 1 /\ p.tail \in 0 .. PAGE_SIZE - 1

TypeInv ==
  /\ file \in FileTable /\ filp \in Tables /\ cloexec \in Marks
  /\ inodes \in Int
  /\ pipe.count \in Int /\ Whole(pipe)

\* The descriptors, of all tasks, that lead to a file.
Leads(fp, f) == {x \in Task \X Fd : fp[x[1]][x[2]] = f}
Plain == {"file"}
PipeEnds == {"read", "write"}
OfKind(tab, K) == {f \in File : tab[f].kind \in K}
Kept(tab) == {x \in Task \X (1 .. 3) : x[2] <= tab[x[1]].keeps}
Puts(tab) == {t \in Task : tab[t].pc = "iput"}

CountInv ==
  \A f \in File : /\ file[f].count = Cardinality(Leads(filp, f))
                  /\ file[f].count = 0 => file[f].kind = ""

InodeInv ==
  inodes = Cardinality(OfKind(file, Plain)) + Cardinality(Puts(r))
           + Cardinality(Kept(r))

PipeInv == pipe.count = Cardinality(OfKind(file, PipeEnds))

\* A file has its inode, or it is the file of a task that was killed while it
\* opened it, and nobody else has it.
HasInode(q, tab, f) == tab[f].kind # "" \/ (q.next = "leave" /\ tab[f].count = 1)

\* A descriptor that is about to be returned leads to a file that nobody else
\* has and that has no inode yet; any other one to a file that has one.  A task
\* that exits closes all it has.
Fits(t, q, row, marks, tab) ==
  /\ q.pc = "absent" => \A d \in Fd : row[d] = None
  /\ q.next = "leave" => \A d \in Fd : row[d] # None => d \in q.closing
  /\ \A d \in q.fd : row[d] # None /\ tab[row[d]].count = 1 /\ tab[row[d]].kind = ""
  /\ \A d \in Fd \ q.fd : row[d] # None => HasInode(q, tab, row[d])
  /\ \A d \in marks : row[d] # None /\ d \notin q.fd

FitInv == \A t \in Task : Fits(t, r[t], filp[t], cloexec[t], file)

FilesInv ==
  /\ TypeInv /\ RegisterInv
  /\ CountInv /\ InodeInv /\ PipeInv /\ FitInv
  /\ SleepersMustWait

-----------------------------------------------------------------------------
(* Sets of numbers and of pairs                                            *)

\* A set of natural numbers that is not empty has a least element, which
\* find_empty_file and the searches for a descriptor come to first.
LEMMA LeastElement ==
  ASSUME NEW T \in SUBSET Nat, T # {}
  PROVE  \E x \in T : \A y \in T : x <= y
<1>1. PICK n \in T : TRUE
  OBVIOUS
<1> DEFINE N == 0 .. n
           R == StrictSubsetOrdering(N)
           F == {U \in SUBSET N : \E x \in T : x <= n /\ U = 0 .. x}
<1>2. IsWellFoundedOn(R, SUBSET N)
  <2>1. IsFiniteSet(N)
    BY <1>1, FS_Interval
  <2> QED
    BY <2>1, FS_FiniteSubsetsOfFinite, FS_StrictSubsetOrderingWellFounded
<1>3. F # {}
  <2>1. N \in F
    BY <1>1
  <2> QED
    BY <2>1
<1>4. PICK U \in F : \A V \in F : ~ (<<V, U>> \in R)
  <2> HIDE DEF R, F, N
  <2>1. F \subseteq SUBSET N
    BY DEF F
  <2> QED
    BY <1>2, <1>3, <2>1, WFMin
<1>5. PICK x \in T : x <= n /\ U = 0 .. x
  OBVIOUS
<1>6. ASSUME NEW y \in T, ~ (x <= y)
      PROVE  FALSE
  <2>1. y < x /\ x \in Nat /\ y \in Nat
    BY <1>6
  <2>2. 0 .. y \in F
    BY <1>5, <2>1
  <2>3. 0 .. y \subseteq 0 .. x
    BY <2>1
  <2>4. x \in 0 .. x /\ x \notin 0 .. y
    BY <2>1
  <2>5. <<0 .. y, U>> \in R
    BY <1>5, <2>2, <2>3, <2>4 DEF StrictSubsetOrdering
  <2> QED
    BY <1>4, <2>2, <2>5
<1> QED
  BY <1>6

\* So Min, in which the model writes those searches, finds a member.
LEMMA MinIsLeast ==
  ASSUME NEW T \in SUBSET Nat, T # {}
  PROVE  Min(T) \in T /\ \A y \in T : Min(T) <= y
BY LeastElement DEF Min

\* sys_pipe takes the two smallest of the free files and descriptors.
LEMMA TwoAreSmallest ==
  ASSUME NEW T \in SUBSET Nat, IsFiniteSet(T), Cardinality(T) >= 2
  PROVE  Two(T)[1] \in T /\ Two(T)[2] \in T /\ Two(T)[1] < Two(T)[2]
<1> DEFINE a == Min(T)
           b == Min(T \ {a})
<1>1. T # {}
  BY FS_EmptySet
<1>2. a \in T /\ \A y \in T : a <= y
  BY <1>1, MinIsLeast
<1>3. T \ {a} # {}
  <2>1. Cardinality(T \ {a}) = Cardinality(T) - 1 /\ IsFiniteSet(T \ {a})
    BY <1>2, FS_RemoveElement
  <2>2. Cardinality(T \ {a}) # 0
    BY <2>1, FS_CardinalityType
  <2> QED
    BY <2>2, FS_EmptySet
<1>4. b \in T \ {a}
  BY <1>3, MinIsLeast
<1>5. Two(T) = <<a, b>>
  BY DEF Two
<1> HIDE DEF a, b
<1> QED
  BY <1>2, <1>4, <1>5

\* Two descriptors come out of the pair that get_pipe_inode is given.
LEMMA TwoOfAPair ==
  ASSUME NEW d \in Nat, NEW e \in Nat, d < e
  PROVE  Two({d, e}) = <<d, e>>
<1>1. Min({d, e}) = d
  BY MinIsLeast
<1>2. {d, e} \ {d} = {e}
  OBVIOUS
<1>3. Min({e}) = e
  BY MinIsLeast
<1> QED
  BY <1>1, <1>2, <1>3 DEF Two

\* The tasks, files and descriptors are finitely many.
LEMMA AllFinite ==
  /\ IsFiniteSet(Task) /\ IsFiniteSet(File) /\ IsFiniteSet(Fd)
  /\ IsFiniteSet(Task \X Fd) /\ IsFiniteSet(Task \X (1 .. 3))
  /\ Task \subseteq Nat /\ File \subseteq Nat /\ Fd \subseteq Nat
  /\ None \notin File /\ None \notin Fd
<1>1. IsFiniteSet(Task) /\ IsFiniteSet(File) /\ IsFiniteSet(Fd) /\ IsFiniteSet(1 .. 3)
  <2>1. NTask \in Int /\ NR_FILE \in Int /\ NR_OPEN \in Int
    BY FilesAssumption
  <2>2. \A n \in Int : IsFiniteSet(1 .. n)
    BY FS_Interval
  <2> QED
    <3>1. IsFiniteSet(1 .. NTask) /\ IsFiniteSet(1 .. NR_FILE) /\ IsFiniteSet(1 .. NR_OPEN)
      BY <2>1, <2>2
    <3>2. IsFiniteSet(1 .. 3)
      <4>1. \A n : n \in Int => IsFiniteSet(1 .. n)
        BY <2>2
      <4>2. 3 \in Int
        OBVIOUS
      <4> QED
        BY <4>1, <4>2, Zenon
    <3> QED
      BY <3>1, <3>2 DEF Task, File, Fd
<1>2. IsFiniteSet(Task \X Fd) /\ IsFiniteSet(Task \X (1 .. 3))
  BY <1>1, FS_Product
<1> QED
  BY <1>1, <1>2, FilesAssumption DEF Task, File, Fd, None

\* How many descriptors lead to a file.
LEMMA LeadsFinite ==
  ASSUME NEW fp, NEW f
  PROVE  IsFiniteSet(Leads(fp, f)) /\ Cardinality(Leads(fp, f)) \in Nat
<1>1. Leads(fp, f) \subseteq Task \X Fd
  BY DEF Leads
<1>2. IsFiniteSet(Leads(fp, f))
  BY <1>1, AllFinite, FS_Subset
<1> QED
  BY <1>2, FS_CardinalityType

\* A descriptor leads to another file, and what that adds to a count.
Pointed(fp, t, d, g) == [fp EXCEPT ![t][d] = g]
Is(a, b) == IF a = b THEN 1 ELSE 0

\* One descriptor is changed: one fewer leads to what it led to, and one more to
\* what it leads to now.
LEMMA LeadsChange ==
  ASSUME NEW fp \in Tables, NEW t \in Task, NEW d \in Fd,
         NEW g \in File \cup {None}, NEW f \in File
  PROVE  Cardinality(Leads(Pointed(fp, t, d, g), f)) =
           Cardinality(Leads(fp, f)) - Is(fp[t][d], f) + Is(g, f)
<1> DEFINE new == Pointed(fp, t, d, g)
           x == <<t, d>>
           less == Leads(fp, f) \ {x}
<1>1. \A u \in Task, e \in Fd :
        new[u][e] = IF u = t /\ e = d THEN g ELSE fp[u][e]
  BY DEF Tables, Pointed
<1>2. x \in Task \X Fd /\ x[1] = t /\ x[2] = d
  OBVIOUS
<1>3. \A y \in Task \X Fd : y[1] \in Task /\ y[2] \in Fd /\ (y[1] = t /\ y[2] = d <=> y = x)
  OBVIOUS
<1> HIDE DEF x, new
<1>4. Leads(new, f) = IF g = f THEN less \cup {x} ELSE less
  BY <1>1, <1>2, <1>3 DEF Leads
<1>5. x \in Leads(fp, f) <=> fp[t][d] = f
  BY <1>2 DEF Leads
<1>6. Cardinality(less) = Cardinality(Leads(fp, f)) - Is(fp[t][d], f) /\ IsFiniteSet(less)
  BY <1>5, LeadsFinite, FS_RemoveElement DEF Is
<1>7. Cardinality(less \cup {x}) = Cardinality(less) + 1
  BY <1>6, FS_AddElement
<1>8. Cardinality(Leads(new, f)) = Cardinality(less) + Is(g, f)
  <2>1. Cardinality(less) \in Nat
    BY <1>6, FS_CardinalityType
  <2> HIDE DEF less
  <2> QED
    BY <1>4, <1>7, <2>1 DEF Is
<1> HIDE DEF less
<1> QED
  BY <1>6, <1>8 DEF new

\* Nobody has a file that is not counted, and one counted once is in one place.
LEMMA LeadsOnce ==
  ASSUME NEW fp, NEW f, NEW t \in Task, NEW d \in Fd, fp[t][d] = f
  PROVE  /\ Cardinality(Leads(fp, f)) # 0
         /\ Cardinality(Leads(fp, f)) = 1 =>
              \A u \in Task, e \in Fd : fp[u][e] = f => u = t /\ e = d
<1>1. <<t, d>> \in Leads(fp, f)
  BY DEF Leads
<1>2. Leads(fp, f) # {}
  BY <1>1
<1>3. Cardinality(Leads(fp, f)) # 0
  BY <1>2, LeadsFinite, FS_EmptySet
<1>4. ASSUME Cardinality(Leads(fp, f)) = 1, NEW u \in Task, NEW e \in Fd, fp[u][e] = f
      PROVE  u = t /\ e = d
  <2>1. <<u, e>> \in Leads(fp, f)
    BY <1>4 DEF Leads
  <2>2. PICK y : Leads(fp, f) = {y}
    BY <1>4, LeadsFinite, FS_Singleton
  <2>3. <<u, e>> = <<t, d>>
    BY <1>1, <2>1, <2>2
  <2> QED
    BY <2>3
<1> QED
  BY <1>3, <1>4

\* fork: the child, which had no descriptors, has those of its parent, which
\* are as many to a file as copy_process counts.
LEMMA LeadsInherited ==
  ASSUME NEW fp \in Tables, NEW t \in Task, NEW u \in Task, u # t, NEW f \in File,
         \A d \in Fd : fp[u][d] = None
  PROVE  Cardinality(Leads([fp EXCEPT ![u] = fp[t]], f)) =
           Cardinality(Leads(fp, f)) + Cardinality({d \in Fd : fp[t][d] = f})
<1> DEFINE new == [fp EXCEPT ![u] = fp[t]]
           D == {d \in Fd : fp[t][d] = f}
           copy == {x \in Task \X Fd : x[1] = u /\ fp[t][x[2]] = f}
           place == [d \in D |-> <<u, d>>]
<1>1. \A v \in Task : new[v] = IF v = u THEN fp[t] ELSE fp[v]
  BY DEF Tables
<1>2. Leads(new, f) = Leads(fp, f) \cup copy
  BY <1>1, AllFinite DEF Leads
<1>3. Leads(fp, f) \cap copy = {}
  BY AllFinite DEF Leads
<1>4. IsFiniteSet(D) /\ IsFiniteSet(copy)
  <2>1. D \subseteq Fd /\ copy \subseteq Task \X Fd
    OBVIOUS
  <2> HIDE DEF D, copy
  <2> QED
    BY <2>1, AllFinite, FS_Subset
<1>5. Cardinality(copy) = Cardinality(D)
  <2>1. place \in Surjection(D, copy)
    <3>1. place \in [D -> copy]
      OBVIOUS
    <3>2. \A x \in copy : \E d \in D : place[d] = x
      <4> TAKE x \in copy
      <4>1. x[2] \in D /\ x = <<u, x[2]>>
        OBVIOUS
      <4> QED
        BY <4>1
    <3> QED
      BY <3>1, <3>2 DEF Surjection
  <2>2. place \in Injection(D, copy)
    <3>1. \A d, e \in D : place[d] = place[e] => d = e
      OBVIOUS
    <3> QED
      BY <2>1, <3>1 DEF Surjection, Injection, IsInjective
  <2> HIDE DEF place, D, copy
  <2> QED
    BY <1>4, <2>1, <2>2, FS_Surjection
<1>6. Cardinality(Leads(fp, f) \cap copy) = 0
  BY <1>3, FS_EmptySet
<1>7. Cardinality(D) \in Nat /\ Cardinality(Leads(fp, f)) \in Nat
  BY <1>4, LeadsFinite, FS_CardinalityType
<1>8. Cardinality(Leads(fp, f) \cup copy) = Cardinality(Leads(fp, f)) + Cardinality(D)
  <2>1. Cardinality(Leads(fp, f) \cup copy) =
          Cardinality(Leads(fp, f)) + Cardinality(copy) - Cardinality(Leads(fp, f) \cap copy)
    BY <1>4, LeadsFinite, FS_Union
  <2> HIDE DEF D, copy
  <2> QED
    BY <1>5, <1>6, <1>7, <2>1
<1> HIDE DEF D, copy, new
<1> QED
  BY <1>2, <1>8 DEF D, new

-----------------------------------------------------------------------------
(* What a step changes                                                     *)

\* A file whose entry changes keeps an inode that it has; one that is being
\* opened does not change.
Allowed(tab, new, f) ==
  /\ tab[f].kind # "" => new[f].kind # ""
  /\ tab[f].count = 1 /\ tab[f].kind = "" => new[f].count = 1 /\ new[f].kind = ""

\* The registers of one task change.
LEMMA RegisterStep ==
  ASSUME RegisterInv, NEW t \in Task, NEW q, Set(t, q)
  PROVE  /\ \A u \in Task : r'[u] = IF u = t THEN q ELSE r[u]
         /\ Sound(q) => RegisterInv'
<1>1. r = [u \in Task |-> r[u]] /\ \A u \in Task : Sound(r[u])
  BY DEF RegisterInv
<1>2. \A u \in Task : r'[u] = IF u = t THEN q ELSE r[u]
  BY <1>1 DEF Set
<1>3. r' = [u \in Task |-> r'[u]] /\ DOMAIN r' = Task
  BY <1>1 DEF Set
<1> QED
  BY <1>1, <1>2, <1>3 DEF RegisterInv

\* The descriptors of the other tasks fit as before.
LEMMA FitTable ==
  ASSUME RegisterInv, TypeInv, FitInv, NEW t \in Task, NEW q,
         NEW tab, \A u \in Task : tab[u] = IF u = t THEN q ELSE r[u],
         \A u \in Task \ {t} : filp'[u] = filp[u] /\ cloexec'[u] = cloexec[u],
         \A u \in Task \ {t}, d \in Fd : filp[u][d] # None => Allowed(file, file', filp[u][d]),
         Fits(t, q, filp'[t], cloexec'[t], file')
  PROVE  \A u \in Task : Fits(u, tab[u], filp'[u], cloexec'[u], file')
<1> TAKE u \in Task
<1>1. CASE u = t
  BY <1>1
<1>2. CASE u # t
  <2>1. tab[u] = r[u] /\ filp'[u] = filp[u] /\ cloexec'[u] = cloexec[u]
    BY <1>2
  <2>2. Fits(u, r[u], filp[u], cloexec[u], file)
    BY DEF FitInv
  <2>3. r[u].fd \subseteq Fd /\ cloexec[u] \subseteq Fd
    BY DEF RegisterInv, Sound, TypeInv, Marks
  <2>4. \A d \in Fd : filp[u][d] # None => Allowed(file, file', filp[u][d])
    BY <1>2
  <2>5. Fits(u, r[u], filp[u], cloexec[u], file')
    BY <2>2, <2>3, <2>4 DEF Fits, HasInode, Allowed
  <2> QED
    BY <2>1, <2>5
<1> QED
  BY <1>1, <1>2

\* So they do when the registers of one task change.
LEMMA FitStep ==
  ASSUME RegisterInv, TypeInv, FitInv, NEW t \in Task, NEW q, Set(t, q),
         \A u \in Task \ {t} : filp'[u] = filp[u] /\ cloexec'[u] = cloexec[u],
         \A u \in Task \ {t}, d \in Fd : filp[u][d] # None => Allowed(file, file', filp[u][d]),
         Fits(t, q, filp'[t], cloexec'[t], file')
  PROVE  FitInv'
<1>1. \A u \in Task : r'[u] = IF u = t THEN q ELSE r[u]
  BY RegisterStep
<1>2. \A u \in Task : Fits(u, r'[u], filp'[u], cloexec'[u], file')
  BY <1>1, FitTable
<1> QED
  BY <1>2 DEF FitInv

\* Nobody begins to sleep in the pipe or to copy, and the pipe is as before.
LEMMA SleepStep ==
  ASSUME RegisterInv, SleepersMustWait, NEW t \in Task, NEW q, Set(t, q),
         r[t].pc \notin {"put_fs_byte", "get_fs_byte"},
         q.pc \notin {"sleep_read", "sleep_write"}, UNCHANGED pipe
  PROVE  SleepersMustWait'
<1>1. \A u \in Task : r'[u] = IF u = t THEN q ELSE r[u]
  BY RegisterStep
<1>2. Copying' = {} => Copying = {}
  BY <1>1 DEF Copying
<1> QED
  BY <1>1, <1>2 DEF SleepersMustWait, At, PIPE_SIZE, Room

\* The references that tasks keep, while the registers of one task change.
LEMMA KeptSame ==
  ASSUME NEW tab, NEW new, \A t \in Task : new[t].keeps = tab[t].keeps
  PROVE  Kept(new) = Kept(tab)
BY DEF Kept

\* There are finitely many references that tasks keep or are about to put.
LEMMA CountsOfTasks ==
  ASSUME NEW tab
  PROVE  /\ IsFiniteSet(Kept(tab)) /\ Cardinality(Kept(tab)) \in Nat
         /\ IsFiniteSet(Puts(tab)) /\ Cardinality(Puts(tab)) \in Nat
<1>1. Kept(tab) \subseteq Task \X (1 .. 3) /\ Puts(tab) \subseteq Task
  BY DEF Kept, Puts
<1>2. IsFiniteSet(Kept(tab)) /\ IsFiniteSet(Puts(tab))
  BY <1>1, AllFinite, FS_Subset
<1> QED
  BY <1>2, FS_CardinalityType

\* The tasks that are in iput, while the registers of one task change.
LEMMA PutsChange ==
  ASSUME NEW tab, NEW new, NEW t \in Task,
         \A u \in Task \ {t} : new[u].pc = tab[u].pc
  PROVE  Cardinality(Puts(new)) =
           Cardinality(Puts(tab)) - (IF tab[t].pc = "iput" THEN 1 ELSE 0)
                                  + (IF new[t].pc = "iput" THEN 1 ELSE 0)
<1> DEFINE rest == Puts(tab) \ {t}
<1>1. Puts(new) = IF new[t].pc = "iput" THEN rest \cup {t} ELSE rest
  BY DEF Puts
<1>2. t \in Puts(tab) <=> tab[t].pc = "iput"
  BY DEF Puts
<1>3. t \notin rest /\ IsFiniteSet(Puts(tab)) /\ Cardinality(Puts(tab)) \in Nat
  BY CountsOfTasks
<1>4. /\ Cardinality(rest) = Cardinality(Puts(tab)) - (IF tab[t].pc = "iput" THEN 1 ELSE 0)
      /\ IsFiniteSet(rest)
  BY <1>2, <1>3, FS_RemoveElement
<1>5. Cardinality(rest \cup {t}) = Cardinality(rest) + 1
  BY <1>3, <1>4, FS_AddElement
<1> HIDE DEF rest
<1> QED
  BY <1>1, <1>3, <1>4, <1>5

\* The files of a kind, while one entry of the table changes.
LEMMA OfKindFinite ==
  ASSUME NEW tab, NEW K
  PROVE  IsFiniteSet(OfKind(tab, K)) /\ Cardinality(OfKind(tab, K)) \in Nat
<1>1. OfKind(tab, K) \subseteq File
  BY DEF OfKind
<1>2. IsFiniteSet(OfKind(tab, K))
  BY <1>1, AllFinite, FS_Subset
<1> QED
  BY <1>2, FS_CardinalityType

\* What a file of kind k adds to the count of those in K.
Has(k, K) == IF k \in K THEN 1 ELSE 0

\* The files of a kind are counted once less and once more as the entry is
\* and becomes one of them.
LEMMA OfKindChange ==
  ASSUME NEW tab, NEW new, NEW f \in File, NEW K,
         \A g \in File \ {f} : new[g].kind = tab[g].kind
  PROVE  Cardinality(OfKind(new, K)) =
           Cardinality(OfKind(tab, K)) - Has(tab[f].kind, K)
                                       + Has(new[f].kind, K)
<1> DEFINE rest == OfKind(tab, K) \ {f}
<1>1. OfKind(new, K) = IF new[f].kind \in K THEN rest \cup {f} ELSE rest
  BY DEF OfKind
<1>2. f \in OfKind(tab, K) <=> tab[f].kind \in K
  BY DEF OfKind
<1>3. f \notin rest /\ IsFiniteSet(OfKind(tab, K)) /\ Cardinality(OfKind(tab, K)) \in Nat
  BY OfKindFinite
<1>4. /\ Cardinality(rest) = Cardinality(OfKind(tab, K)) - Has(tab[f].kind, K)
      /\ IsFiniteSet(rest)
  BY <1>2, <1>3, FS_RemoveElement DEF Has
<1>5. Cardinality(rest \cup {f}) = Cardinality(rest) + 1
  BY <1>3, <1>4, FS_AddElement
<1> HIDE DEF rest
<1> QED
  BY <1>1, <1>3, <1>4, <1>5 DEF Has

\* The files of a kind are the same while no entry changes its kind.
LEMMA OfKindSame ==
  ASSUME NEW tab, NEW new, NEW K, \A g \in File : new[g].kind = tab[g].kind
  PROVE  OfKind(new, K) = OfKind(tab, K)
BY DEF OfKind

\* References to inodes that are not pipes: the task keeps as many, and the
\* change of the count is that of the files and of the iput under way.
LEMMA InodeStep ==
  ASSUME RegisterInv, InodeInv, NEW t \in Task, NEW q, Set(t, q),
         q.keeps = r[t].keeps, NEW k \in Int,
         Cardinality(OfKind(file', Plain)) = Cardinality(OfKind(file, Plain)) + k,
         inodes' = inodes + k - (IF r[t].pc = "iput" THEN 1 ELSE 0)
                              + (IF q.pc = "iput" THEN 1 ELSE 0)
  PROVE  InodeInv'
<1>1. \A u \in Task : r'[u] = IF u = t THEN q ELSE r[u]
  BY RegisterStep
<1>2. Kept(r') = Kept(r)
  <2>1. \A u \in Task : r'[u].keeps = r[u].keeps
    BY <1>1
  <2> QED
    BY <2>1, KeptSame
<1>3. Cardinality(Puts(r')) =
        Cardinality(Puts(r)) - (IF r[t].pc = "iput" THEN 1 ELSE 0)
                             + (IF q.pc = "iput" THEN 1 ELSE 0)
  <2>1. r'[t] = q /\ \A u \in Task \ {t} : r'[u].pc = r[u].pc
    BY <1>1
  <2> QED
    BY <2>1, PutsChange
<1>4. /\ Cardinality(Puts(r)) \in Nat /\ Cardinality(Kept(r)) \in Nat
      /\ Cardinality(OfKind(file, Plain)) \in Nat
  BY CountsOfTasks, OfKindFinite
<1> QED
  BY <1>2, <1>3, <1>4 DEF InodeInv

-----------------------------------------------------------------------------
(* Steps that change no descriptor                                         *)

\* The descriptors and the pipe stay as they are, except for marks.
LEMMA QuietStep ==
  ASSUME FilesInv, NEW t \in Task, NEW q, Set(t, q), Sound(q),
         NEW marks \in SUBSET Fd, cloexec' = [cloexec EXCEPT ![t] = marks],
         UNCHANGED <<file, filp, pipe>>,
         r[t].pc \notin {"put_fs_byte", "get_fs_byte"},
         q.pc \notin {"sleep_read", "sleep_write"},
         Fits(t, q, filp[t], marks, file),
         inodes' \in Int, InodeInv'
  PROVE  FilesInv'
<1>1. TypeInv /\ RegisterInv /\ FitInv
  BY DEF FilesInv
<1>2. TypeInv'
  BY <1>1 DEF TypeInv, Marks
<1>3. RegisterInv'
  BY <1>1, RegisterStep
<1>4. CountInv' /\ PipeInv'
  BY DEF FilesInv, CountInv, PipeInv
<1>5. FitInv'
  <2>1. cloexec'[t] = marks /\ \A u \in Task \ {t} : cloexec'[u] = cloexec[u]
    BY <1>1 DEF TypeInv, Marks
  <2>2. \A f : Allowed(file, file', f)
    BY DEF Allowed
  <2>3. Fits(t, q, filp'[t], cloexec'[t], file')
    BY <2>1
  <2> QED
    BY <1>1, <2>1, <2>2, <2>3, FitStep
<1>6. SleepersMustWait'
  BY <1>1, SleepStep DEF FilesInv
<1> QED
  BY <1>2, <1>3, <1>4, <1>5, <1>6 DEF FilesInv

\* So do the marks.
LEMMA FrameStep ==
  ASSUME FilesInv, NEW t \in Task, NEW q, Set(t, q), Sound(q),
         UNCHANGED <<table, pipe>>,
         r[t].pc \notin {"put_fs_byte", "get_fs_byte"},
         q.pc \notin {"sleep_read", "sleep_write"},
         Fits(t, q, filp[t], cloexec[t], file), q.keeps = r[t].keeps,
         inodes' = inodes - (IF r[t].pc = "iput" THEN 1 ELSE 0)
                          + (IF q.pc = "iput" THEN 1 ELSE 0)
  PROVE  FilesInv'
<1>1. TypeInv /\ RegisterInv /\ InodeInv
  BY DEF FilesInv
<1>2. cloexec[t] \in SUBSET Fd /\ cloexec' = [cloexec EXCEPT ![t] = cloexec[t]]
  BY <1>1 DEF TypeInv, Marks, table
<1>0. inodes \in Int
  BY <1>1 DEF TypeInv
<1>3. UNCHANGED <<file, filp, pipe>> /\ inodes' \in Int
  BY <1>0 DEF table
<1>4. InodeInv'
  <2>1. Cardinality(OfKind(file', Plain)) = Cardinality(OfKind(file, Plain)) + 0
    BY <1>3, OfKindFinite
  <2>2. inodes' = inodes + 0 - (IF r[t].pc = "iput" THEN 1 ELSE 0)
                             + (IF q.pc = "iput" THEN 1 ELSE 0)
    BY <1>0
  <2> QED
    BY <1>1, <2>1, <2>2, InodeStep
<1> QED
  BY <1>2, <1>3, <1>4, QuietStep

\* The registers of a task, and how they fit its descriptors.
LEMMA Facts ==
  ASSUME FilesInv, NEW t \in Task
  PROVE  Sound(r[t]) /\ Fits(t, r[t], filp[t], cloexec[t], file)
BY DEF FilesInv, RegisterInv, FitInv

\* A program enters a system call.
LEMMA EnterStep ==
  ASSUME FilesInv, NEW t \in Task, At(t, "user"), NEW q, Set(t, q), Sound(q),
         q.pc \notin {"sleep_read", "sleep_write", "absent"} \cup Opening,
         q.next # "leave", q.keeps = 3,
         UNCHANGED <<table, pipe>>,
         inodes' = inodes + (IF q.pc = "iput" THEN 1 ELSE 0)
  PROVE  FilesInv'
<1>1. Sound(r[t]) /\ Fits(t, r[t], filp[t], cloexec[t], file)
  BY Facts
<1>2. r[t].pc = "user" /\ r[t].keeps = 3 /\ r[t].fd = {} /\ r[t].next # "leave"
  BY <1>1 DEF Sound, At, Opening
<1>3. q.fd = {}
  BY DEF Sound
<1>4. Fits(t, q, filp[t], cloexec[t], file)
  BY <1>1, <1>2, <1>3 DEF Fits, HasInode
<1>5. inodes' = inodes - (IF r[t].pc = "iput" THEN 1 ELSE 0)
                       + (IF q.pc = "iput" THEN 1 ELSE 0)
  <2>1. inodes \in Int
    BY DEF FilesInv, TypeInv
  <2> QED
    BY <1>2, <2>1
<1> QED
  BY <1>2, <1>4, <1>5, FrameStep

\* The registers at the start of a call, and of a task in the terminal.
LEMMA StartSound ==
  ASSUME NEW q, Shaped(q),
         q.pc \in {"user", "iput", "read_pipe", "write_pipe"} \cup Terminal,
         q.next \in {"user", "close_on_exec"}, q.fd = {}, q.closing = {}, q.keeps = 3,
         q.pc = "read_pipe" => q.need \in Nat,
         q.pc = "write_pipe" => q.put \in Seq(Byte)
  PROVE  Sound(q)
BY DEF Sound, Filing, Piping, Terminal, Opening

\* A task at work in its program.
LEMMA RegistersSound ==
  Sound(Registers)
<1>1. Shaped(Registers)
  BY DEF Shaped, Registers
<1>2. /\ Registers.fd = {} /\ Registers.closing = {} /\ Registers.keeps = 3
      /\ Registers.pc = "user" /\ Registers.next = "user"
  BY DEF Registers
<1> QED
  BY <1>1, <1>2, StartSound

\* A slot that no task has.
LEMMA AbsentSound ==
  Sound(Absent)
<1>1. Shaped(Absent)
  BY DEF Shaped, Absent, Registers
<1>2. /\ Absent.fd = {} /\ Absent.closing = {} /\ Absent.keeps = 0
      /\ Absent.pc = "absent" /\ Absent.next = "user"
  BY DEF Absent, Registers
<1> QED
  BY <1>1, <1>2 DEF Sound, Filing, Opening

\* A task that has called read, of the pipe or the terminal, or write of the
\* terminal.
LEMMA NeedSound ==
  ASSUME NEW p \in {"read_pipe", "tty_read", "tty_write"}, NEW n \in Nat, NEW q,
         q = [Registers EXCEPT !.pc = p, !.need = n]
  PROVE  Sound(q) /\ q.pc = p /\ q.next = "user" /\ q.keeps = 3
<1>1. Shaped(q)
  BY DEF Shaped, Registers
<1>2. /\ q.fd = {} /\ q.closing = {} /\ q.keeps = 3
      /\ q.pc = p /\ q.next = "user" /\ q.need = n
  BY DEF Registers
<1> QED
  BY <1>1, <1>2, StartSound DEF Terminal

\* A task that has called write of the pipe.
LEMMA PutSound ==
  ASSUME NEW s \in Seq(Byte), NEW q, q = [Registers EXCEPT !.pc = "write_pipe", !.put = s]
  PROVE  Sound(q) /\ q.pc = "write_pipe" /\ q.next = "user" /\ q.keeps = 3
<1>1. Shaped(q)
  BY DEF Shaped, Registers
<1>2. /\ q.fd = {} /\ q.closing = {} /\ q.keeps = 3
      /\ q.pc = "write_pipe" /\ q.next = "user" /\ q.put = s
  BY DEF Registers
<1> QED
  BY <1>1, <1>2, StartSound

\* A task that has to put an inode before it goes on.
LEMMA NextSound ==
  ASSUME NEW n \in {"user", "close_on_exec"}, NEW q,
         q = [Registers EXCEPT !.pc = "iput", !.next = n]
  PROVE  Sound(q) /\ q.pc = "iput" /\ q.next = n /\ q.keeps = 3
<1>1. Shaped(q)
  BY DEF Shaped, Registers
<1>2. /\ q.fd = {} /\ q.closing = {} /\ q.keeps = 3
      /\ q.pc = "iput" /\ q.next = n
  BY DEF Registers
<1> QED
  BY <1>1, <1>2, StartSound

\* sys_read of a pipe.
LEMMA ReadCall ==
  ASSUME FilesInv, NEW t \in Task, sys_read(t)
  PROVE  FilesInv'
<1>1. PICK n \in Count : Set(t, [Registers EXCEPT !.pc = "read_pipe", !.need = n])
  BY DEF sys_read
<1> DEFINE q == [Registers EXCEPT !.pc = "read_pipe", !.need = n]
<1>2. Sound(q) /\ q.pc = "read_pipe" /\ q.next = "user" /\ q.keeps = 3
  <2>1. n \in Nat
    BY FilesAssumption
  <2> QED
    BY <2>1, NeedSound
<1>3. At(t, "user") /\ UNCHANGED <<table, inodes, pipe>>
  BY DEF sys_read, Calls
<1>4. inodes' = inodes + (IF q.pc = "iput" THEN 1 ELSE 0)
  <2>1. inodes \in Int
    BY DEF FilesInv, TypeInv
  <2> QED
    BY <1>2, <1>3, <2>1
<1> HIDE DEF q
<1> QED
  BY <1>1, <1>2, <1>3, <1>4, EnterStep DEF Opening, q

\* sys_write of the pipe.
LEMMA WriteCall ==
  ASSUME FilesInv, NEW t \in Task, sys_write(t)
  PROVE  FilesInv'
<1>1. PICK s \in Text : Set(t, [Registers EXCEPT !.pc = "write_pipe", !.put = s])
  BY DEF sys_write
<1> DEFINE q == [Registers EXCEPT !.pc = "write_pipe", !.put = s]
<1>2. Sound(q) /\ q.pc = "write_pipe" /\ q.next = "user" /\ q.keeps = 3
  BY FilesAssumption, PutSound
<1>3. At(t, "user") /\ UNCHANGED <<table, inodes, pipe>>
  BY DEF sys_write, Calls
<1>4. inodes' = inodes + (IF q.pc = "iput" THEN 1 ELSE 0)
  <2>1. inodes \in Int
    BY DEF FilesInv, TypeInv
  <2> QED
    BY <1>2, <1>3, <2>1
<1> HIDE DEF q
<1> QED
  BY <1>1, <1>2, <1>3, <1>4, EnterStep DEF Opening, q

\* sys_chdir, and do_execve before it closes descriptors: one inode is put for
\* another.
LEMMA ExchangeCall ==
  ASSUME FilesInv, NEW t \in Task, At(t, "user"),
         NEW n \in {"user", "close_on_exec"}, Exchange(t, n)
  PROVE  FilesInv'
<1> DEFINE q == [Registers EXCEPT !.pc = "iput", !.next = n]
<1>1. Set(t, q) /\ inodes' = inodes + 1 /\ UNCHANGED <<table, pipe>>
  BY DEF Exchange
<1>2. Sound(q) /\ q.pc = "iput" /\ q.next = n /\ q.keeps = 3
  BY NextSound
<1>3. inodes' = inodes + (IF q.pc = "iput" THEN 1 ELSE 0)
  BY <1>1, <1>2
<1> HIDE DEF q
<1> QED
  BY <1>1, <1>2, <1>3, EnterStep DEF Opening, q

\* sys_read and sys_write of the terminal.
LEMMA TerminalCall ==
  ASSUME FilesInv, NEW t \in Task, sys_tty(t)
  PROVE  FilesInv'
<1>1. PICK p \in {"tty_read", "tty_write"}, n \in Count :
        Set(t, [Registers EXCEPT !.pc = p, !.need = n])
  BY DEF sys_tty
<1> DEFINE q == [Registers EXCEPT !.pc = p, !.need = n]
<1>2. Sound(q) /\ q.pc = p /\ q.next = "user" /\ q.keeps = 3
  <2>1. n \in Nat /\ p \in {"read_pipe", "tty_read", "tty_write"}
    BY FilesAssumption
  <2> QED
    BY <2>1, NeedSound
<1>3. At(t, "user") /\ UNCHANGED <<table, inodes, pipe>>
  BY DEF sys_tty, TtyCalls, Calls, Frame
<1>4. inodes' = inodes + (IF q.pc = "iput" THEN 1 ELSE 0)
  <2>1. inodes \in Int
    BY DEF FilesInv, TypeInv
  <2> QED
    BY <1>2, <1>3, <2>1
<1> HIDE DEF q
<1> QED
  BY <1>1, <1>2, <1>3, <1>4, EnterStep DEF Opening, q

-----------------------------------------------------------------------------
(* Closing                                                                 *)

\* A task that begins to close descriptors, all of them if it exits.
LEMMA ClosingSound ==
  ASSUME FilesInv, NEW t \in Task,
         r[t].pc \notin {"absent", "iput", "closing", "stale_iput", "leave", "dead"},
         NEW D \in SUBSET Fd, NEW n \in {"user", "dupfd", "leave", "new_program"},
         NEW o, NEW e, n = "dupfd" => o \in Fd /\ e \in Fd,
         n = "leave" => D = Open(t), n # "leave" => r[t].fd = {},
         Closing(t, D, n, o, e)
  PROVE  \E q : /\ Set(t, q) /\ Sound(q) /\ Fits(t, q, filp[t], cloexec[t], file)
                /\ q.pc \notin {"iput", "sleep_read", "sleep_write"}
                /\ q.keeps = r[t].keeps
<1> DEFINE q == [Registers EXCEPT !.pc = IF D = {} THEN n ELSE "closing",
                                  !.closing = D, !.next = n, !.old = o, !.new = e]
<1>1. Set(t, q)
  BY DEF Closing
<1>2. Shaped(q)
  BY DEF Shaped, Registers
<1>3. /\ q.pc = IF D = {} THEN n ELSE "closing"
      /\ q.closing = D /\ q.next = n /\ q.old = o /\ q.new = e /\ q.fd = {} /\ q.keeps = 3
  BY DEF Registers
<1> HIDE DEF q
<1>4. Sound(q)
  BY <1>2, <1>3 DEF Sound, Filing, Opening
<1>5. Sound(r[t]) /\ Fits(t, r[t], filp[t], cloexec[t], file)
  BY Facts
<1>6. r[t].keeps = 3 /\ r[t].next # "leave"
  BY <1>5 DEF Sound
<1>7. Fits(t, q, filp[t], cloexec[t], file)
  <2>1. \A d \in Fd : filp[t][d] # None => HasInode(q, file, filp[t][d])
    <3> SUFFICES ASSUME NEW d \in Fd, filp[t][d] # None
                 PROVE  HasInode(q, file, filp[t][d])
      OBVIOUS
    <3>1. CASE d \in r[t].fd
      BY <1>3, <1>5, <3>1 DEF Fits, HasInode
    <3>2. CASE d \notin r[t].fd
      BY <1>5, <1>6, <3>2 DEF Fits, HasInode
    <3> QED
      BY <3>1, <3>2
  <2>2. \A d \in cloexec[t] : filp[t][d] # None
    BY <1>5 DEF Fits
  <2>3. q.pc # "absent"
    BY <1>3
  <2> QED
    BY <1>3, <2>1, <2>2, <2>3 DEF Fits, Open
<1> QED
  BY <1>1, <1>3, <1>4, <1>6, <1>7

\* sys_close, sys_dup2, do_exit, the end of do_execve and die in the terminal
\* begin to close.
LEMMA ClosesStep ==
  ASSUME FilesInv, NEW t \in Task,
         r[t].pc \in {"user", "close_on_exec", "tty_take", "tty_give"},
         NEW D \in SUBSET Fd, NEW n \in {"user", "dupfd", "leave", "new_program"},
         NEW o, NEW e, n = "dupfd" => o \in Fd /\ e \in Fd,
         n = "leave" => D = Open(t), Closes(t, D, n, o, e)
  PROVE  FilesInv'
<1>1. Closing(t, D, n, o, e) /\ UNCHANGED <<table, inodes, pipe>>
  BY DEF Closes
<1>2. r[t].fd = {}
  <2>1. Sound(r[t])
    BY Facts
  <2> QED
    BY <2>1 DEF Sound, Opening
<1>3. PICK q : /\ Set(t, q) /\ Sound(q) /\ Fits(t, q, filp[t], cloexec[t], file)
               /\ q.pc \notin {"iput", "sleep_read", "sleep_write"}
               /\ q.keeps = r[t].keeps
  BY <1>1, <1>2, ClosingSound
<1>4. inodes' = inodes - (IF r[t].pc = "iput" THEN 1 ELSE 0)
                       + (IF q.pc = "iput" THEN 1 ELSE 0)
  <2>1. inodes \in Int
    BY DEF FilesInv, TypeInv
  <2> QED
    BY <1>1, <1>3, <2>1
<1> QED
  BY <1>1, <1>3, <1>4, FrameStep

\* A task is killed in open_namei, or while its copy to or from the pipe waits.
LEMMA DieStep ==
  ASSUME FilesInv, NEW t \in Task, die(t)
  PROVE  FilesInv'
<1>1. Closing(t, Open(t), "leave", None, None) /\ UNCHANGED <<table, inodes>>
  BY DEF die
<1>2. \/ r[t].pc = "open_namei" /\ UNCHANGED pipe
      \/ /\ r[t].pc \in {"put_fs_byte", "get_fs_byte"}
         /\ pipe' = [pipe EXCEPT !.untold = TRUE]
  BY DEF die, At, Copying
<1>3. Open(t) \in SUBSET Fd
  BY DEF Open
<1>4. PICK q : /\ Set(t, q) /\ Sound(q) /\ Fits(t, q, filp[t], cloexec[t], file)
               /\ q.pc \notin {"iput", "sleep_read", "sleep_write"}
               /\ q.keeps = r[t].keeps
  BY <1>1, <1>2, <1>3, ClosingSound
<1>5. inodes' = inodes - (IF r[t].pc = "iput" THEN 1 ELSE 0)
                       + (IF q.pc = "iput" THEN 1 ELSE 0)
  <2>1. inodes \in Int
    BY DEF FilesInv, TypeInv
  <2> QED
    BY <1>1, <1>2, <1>4, <2>1
<1>6. CASE UNCHANGED pipe /\ r[t].pc = "open_namei"
  BY <1>1, <1>4, <1>5, <1>6, FrameStep
<1>7. CASE pipe' = [pipe EXCEPT !.untold = TRUE]
  <2>1. TypeInv /\ RegisterInv /\ InodeInv /\ PipeInv /\ CountInv /\ FitInv /\ Whole(pipe)
    BY DEF FilesInv, TypeInv
  <2>2. file' = file /\ filp' = filp /\ cloexec' = cloexec /\ inodes' = inodes
    BY <1>1 DEF table
  <2>3. /\ pipe'.count = pipe.count /\ pipe'.head = pipe.head /\ pipe'.tail = pipe.tail
        /\ pipe'.untold /\ Whole(pipe')
    BY <1>7, <2>1 DEF Whole
  <2>4. TypeInv' /\ PipeInv'
    BY <2>1, <2>2, <2>3 DEF TypeInv, PipeInv
  <2>5. RegisterInv'
    BY <1>4, <2>1, RegisterStep
  <2>6. CountInv'
    BY <2>1, <2>2, Zenon DEF CountInv, Leads
  <2>7. InodeInv'
    <3>1. Cardinality(OfKind(file', Plain)) = Cardinality(OfKind(file, Plain)) + 0
      BY <2>2, OfKindFinite
    <3>2. inodes' = inodes + 0 - (IF r[t].pc = "iput" THEN 1 ELSE 0)
                               + (IF q.pc = "iput" THEN 1 ELSE 0)
      BY <1>5, <2>1 DEF TypeInv
    <3> QED
      BY <1>4, <2>1, <3>1, <3>2, InodeStep
  <2>8. FitInv'
    <3>1. \A u \in Task \ {t} : filp'[u] = filp[u] /\ cloexec'[u] = cloexec[u]
      BY <2>2
    <3>2. \A u \in Task \ {t}, d \in Fd : Allowed(file, file', filp[u][d])
      BY <2>2 DEF Allowed
    <3>3. Fits(t, q, filp'[t], cloexec'[t], file')
      BY <1>4, <2>2
    <3> QED
      BY <1>4, <2>1, <3>1, <3>2, <3>3, FitStep
  <2>9. SleepersMustWait'
    <3>1. \A u \in Task : r'[u] = IF u = t THEN q ELSE r[u]
      BY <1>4, <2>1, RegisterStep
    <3>2. SleepersMustWait
      BY DEF FilesInv
    <3> QED
      BY <1>4, <2>3, <3>1, <3>2 DEF SleepersMustWait, At
  <2> QED
    BY <2>4, <2>5, <2>6, <2>7, <2>8, <2>9 DEF FilesInv
<1> QED
  BY <1>2, <1>6, <1>7

\* An inode has been put, and the task goes on where it was.
LEMMA PutStep ==
  ASSUME FilesInv, NEW t \in Task, iput(t)
  PROVE  FilesInv'
<1> DEFINE p == IF r[t].closing = {} THEN r[t].next ELSE "closing"
           q == [r[t] EXCEPT !.pc = p]
<1>1. r[t].pc = "iput" /\ Set(t, q) /\ inodes' = inodes - 1 /\ UNCHANGED <<table, pipe>>
  BY DEF iput, At
<1>2. Sound(r[t]) /\ Fits(t, r[t], filp[t], cloexec[t], file)
  BY Facts
<1>3. Shaped(q)
  BY <1>2 DEF Sound, Shaped
<1>4. /\ q.pc = p /\ q.closing = r[t].closing /\ q.next = r[t].next
      /\ q.old = r[t].old /\ q.new = r[t].new /\ q.fd = r[t].fd /\ q.keeps = r[t].keeps
  BY <1>2 DEF Sound, Shaped
<1> HIDE DEF q
<1>5. /\ r[t].fd = {} /\ p # "iput" /\ p # "absent"
      /\ p \in {"user", "dupfd", "leave", "close_on_exec", "new_program", "closing"}
  BY <1>1, <1>2 DEF Sound, Opening
<1>6. Sound(q)
  BY <1>1, <1>2, <1>3, <1>4, <1>5 DEF Sound, Filing, Opening
<1>7. Fits(t, q, filp[t], cloexec[t], file)
  BY <1>2, <1>4, <1>5 DEF Fits, HasInode
<1>8. inodes' = inodes - (IF r[t].pc = "iput" THEN 1 ELSE 0)
                       + (IF q.pc = "iput" THEN 1 ELSE 0)
  <2>1. inodes \in Int
    BY DEF FilesInv, TypeInv
  <2> QED
    BY <1>1, <1>4, <1>5, <2>1
<1> QED
  BY <1>1, <1>4, <1>5, <1>6, <1>7, <1>8, FrameStep

\* One reference fewer that a task keeps.
LEMMA KeptLess ==
  ASSUME NEW tab, NEW new, NEW t \in Task, tab[t].keeps \in 1 .. 3,
         new[t].keeps = tab[t].keeps - 1,
         \A u \in Task \ {t} : new[u].keeps = tab[u].keeps
  PROVE  Cardinality(Kept(new)) = Cardinality(Kept(tab)) - 1
<1> DEFINE x == <<t, tab[t].keeps>>
<1>1. x \in Kept(tab)
  BY DEF Kept
<1>2. Kept(new) = Kept(tab) \ {x}
  <2>1. ASSUME NEW y \in Task \X (1 .. 3)
        PROVE  y \in Kept(new) <=> y \in Kept(tab) /\ y # x
    <3>1. y = <<y[1], y[2]>> /\ y[1] \in Task /\ y[2] \in 1 .. 3
      OBVIOUS
    <3>2. CASE y[1] = t
      BY <3>1, <3>2 DEF Kept
    <3>3. CASE y[1] # t
      BY <3>1, <3>3 DEF Kept
    <3> QED
      BY <3>2, <3>3
  <2>2. Kept(new) \subseteq Task \X (1 .. 3) /\ Kept(tab) \subseteq Task \X (1 .. 3)
    BY DEF Kept
  <2> HIDE DEF x
  <2> QED
    BY <2>1, <2>2
<1> HIDE DEF x
<1> QED
  BY <1>1, <1>2, CountsOfTasks, FS_RemoveElement

\* do_exit puts what the task keeps, one after the other.
LEMMA LeaveStep ==
  ASSUME FilesInv, NEW t \in Task, leave(t)
  PROVE  FilesInv'
<1>1. r[t].pc = "leave" /\ UNCHANGED <<table, inodes, pipe>>
  BY DEF leave, At
<1>2. Sound(r[t]) /\ Fits(t, r[t], filp[t], cloexec[t], file)
  BY Facts
<1>3. r[t].fd = {} /\ r[t].closing = {} /\ r[t].next = "leave" /\ r[t].keeps \in 0 .. 3
  BY <1>1, <1>2 DEF Sound, Opening
<1>4. inodes \in Int /\ TypeInv /\ RegisterInv /\ InodeInv
  BY DEF FilesInv, TypeInv
<1>5. CASE r[t].keeps = 0
  <2> DEFINE q == [r[t] EXCEPT !.pc = "dead"]
  <2>1. Set(t, q)
    BY <1>5 DEF leave
  <2>2. Shaped(q)
    BY <1>2 DEF Sound, Shaped
  <2>3. /\ q.pc = "dead" /\ q.closing = {} /\ q.next = "leave" /\ q.fd = {} /\ q.keeps = 0
        /\ q.old = r[t].old /\ q.new = r[t].new
    BY <1>2, <1>3, <1>5 DEF Sound, Shaped
  <2> HIDE DEF q
  <2>4. Sound(q)
    BY <2>2, <2>3 DEF Sound, Filing, Opening
  <2>5. Fits(t, q, filp[t], cloexec[t], file)
    BY <1>2, <1>3, <2>3 DEF Fits, HasInode
  <2>6. inodes' = inodes - (IF r[t].pc = "iput" THEN 1 ELSE 0)
                         + (IF q.pc = "iput" THEN 1 ELSE 0)
    BY <1>1, <1>4, <2>3
  <2> QED
    BY <1>1, <1>5, <2>1, <2>3, <2>4, <2>5, <2>6, FrameStep
<1>6. CASE r[t].keeps # 0
  <2> DEFINE q == [r[t] EXCEPT !.pc = "iput", !.next = "leave", !.keeps = @ - 1]
  <2>1. Set(t, q)
    BY <1>6 DEF leave
  <2>2. Shaped(q)
    BY <1>2 DEF Sound, Shaped
  <2>3. /\ q.pc = "iput" /\ q.closing = {} /\ q.next = "leave" /\ q.fd = {}
        /\ q.keeps = r[t].keeps - 1 /\ q.old = r[t].old /\ q.new = r[t].new
    BY <1>2, <1>3 DEF Sound, Shaped
  <2> HIDE DEF q
  <2>4. r[t].keeps \in 1 .. 3 /\ q.keeps \in 0 .. 3
    BY <1>3, <1>6, <2>3
  <2>5. Sound(q)
    BY <2>2, <2>3, <2>4 DEF Sound, Filing, Opening
  <2>6. Fits(t, q, filp[t], cloexec[t], file)
    BY <1>2, <1>3, <2>3 DEF Fits, HasInode
  <2>7. InodeInv'
    <3>1. \A u \in Task : r'[u] = IF u = t THEN q ELSE r[u]
      BY <1>4, <2>1, RegisterStep
    <3>2. Cardinality(Kept(r')) = Cardinality(Kept(r)) - 1
      <4>1. r'[t].keeps = r[t].keeps - 1 /\ \A u \in Task \ {t} : r'[u].keeps = r[u].keeps
        BY <2>3, <3>1
      <4> QED
        BY <2>4, <4>1, KeptLess
    <3>3. Cardinality(Puts(r')) = Cardinality(Puts(r)) + 1
      <4>1. r'[t].pc = "iput" /\ r[t].pc # "iput" /\ \A u \in Task \ {t} : r'[u].pc = r[u].pc
        BY <1>1, <2>3, <3>1
      <4> QED
        BY <4>1, PutsChange, CountsOfTasks
    <3>4. file' = file /\ inodes' = inodes
      BY <1>1 DEF table
    <3> QED
      BY <1>4, <3>2, <3>3, <3>4, CountsOfTasks, OfKindFinite DEF InodeInv
  <2>8. cloexec[t] \in SUBSET Fd /\ cloexec' = [cloexec EXCEPT ![t] = cloexec[t]]
    BY <1>1, <1>4 DEF TypeInv, Marks, table
  <2>9. UNCHANGED <<file, filp, pipe>> /\ inodes' \in Int
    BY <1>1, <1>4 DEF table
  <2> QED
    BY <1>1, <2>1, <2>3, <2>5, <2>6, <2>7, <2>8, <2>9, QuietStep
<1> QED
  BY <1>5, <1>6

\* The new program of exec has no mark left; the slot of a task that has exited
\* is free again.
LEMMA ProgramStep ==
  ASSUME FilesInv, NEW t \in Task, new_program(t)
  PROVE  FilesInv'
<1>1. /\ r[t].pc = "new_program" /\ Set(t, Registers)
      /\ cloexec' = [cloexec EXCEPT ![t] = {}] /\ UNCHANGED <<file, filp, inodes, pipe>>
  BY DEF new_program, At
<1>2. Sound(r[t]) /\ Fits(t, r[t], filp[t], cloexec[t], file)
  BY Facts
<1>3. r[t].fd = {} /\ r[t].keeps = 3 /\ r[t].next # "leave"
  BY <1>1, <1>2 DEF Sound, Opening
<1>4. Registers.pc = "user" /\ Registers.next = "user" /\ Registers.fd = {} /\ Registers.keeps = 3
  BY DEF Registers
<1>5. Fits(t, Registers, filp[t], {}, file)
  BY <1>2, <1>3, <1>4 DEF Fits, HasInode
<1>6. inodes \in Int /\ TypeInv /\ RegisterInv /\ InodeInv
  BY DEF FilesInv, TypeInv
<1>7. InodeInv'
  <2>1. Cardinality(OfKind(file', Plain)) = Cardinality(OfKind(file, Plain)) + 0
    BY <1>1, OfKindFinite
  <2>2. inodes' = inodes + 0 - (IF r[t].pc = "iput" THEN 1 ELSE 0)
                             + (IF Registers.pc = "iput" THEN 1 ELSE 0)
    BY <1>1, <1>4, <1>6
  <2> QED
    BY <1>1, <1>3, <1>4, <1>6, <2>1, <2>2, InodeStep
<1> QED
  BY <1>1, <1>4, <1>5, <1>6, <1>7, RegistersSound, QuietStep

\* release: the slot of a task that has exited is free, and it kept nothing.
LEMMA ReleaseStep ==
  ASSUME FilesInv, NEW t \in Task, release(t)
  PROVE  FilesInv'
<1>1. r[t].pc = "dead" /\ Set(t, Absent) /\ UNCHANGED <<table, inodes, pipe>>
  BY DEF release, At
<1>2. Sound(r[t]) /\ Fits(t, r[t], filp[t], cloexec[t], file)
  BY Facts
<1>3. r[t].fd = {} /\ r[t].keeps = 0 /\ r[t].next = "leave" /\ r[t].closing = {}
  BY <1>1, <1>2 DEF Sound, Opening
<1>4. /\ Absent.pc = "absent" /\ Absent.next = "user" /\ Absent.fd = {} /\ Absent.keeps = 0
  BY DEF Absent, Registers
<1>5. Fits(t, Absent, filp[t], cloexec[t], file)
  BY <1>2, <1>3, <1>4 DEF Fits, HasInode
<1>6. inodes' = inodes - (IF r[t].pc = "iput" THEN 1 ELSE 0)
                       + (IF Absent.pc = "iput" THEN 1 ELSE 0)
  <2>1. inodes \in Int
    BY DEF FilesInv, TypeInv
  <2> QED
    BY <1>1, <1>4, <2>1
<1> QED
  BY <1>1, <1>3, <1>4, <1>5, <1>6, AbsentSound, FrameStep

\* The task stays where it is.
LEMMA SameRegisters ==
  ASSUME FilesInv, NEW t \in Task, UNCHANGED r
  PROVE  Set(t, r[t])
BY DEF FilesInv, RegisterInv, Set

\* F_SETFD, and an open that finds no entry of the table: only marks change,
\* those of descriptors that lead to a file.
LEMMA MarksStep ==
  ASSUME FilesInv, NEW t \in Task, r[t].pc = "user",
         NEW marks \in SUBSET Fd, cloexec' = [cloexec EXCEPT ![t] = marks],
         \A d \in marks : filp[t][d] # None,
         UNCHANGED <<file, filp, inodes, pipe, r>>
  PROVE  FilesInv'
<1>1. Sound(r[t]) /\ Fits(t, r[t], filp[t], cloexec[t], file)
  BY Facts
<1>2. r[t].fd = {}
  BY <1>1 DEF Sound, Opening
<1>3. Fits(t, r[t], filp[t], marks, file)
  BY <1>1, <1>2 DEF Fits, HasInode
<1>4. InodeInv' /\ inodes' \in Int
  BY DEF FilesInv, InodeInv, TypeInv, Kept, Puts
<1> QED
  BY <1>1, <1>3, <1>4, SameRegisters, QuietStep

\* F_SETFD marks only a descriptor that is open.
LEMMA FcntlStep ==
  ASSUME FilesInv, NEW t \in Task, sys_fcntl(t)
  PROVE  FilesInv'
<1>1. PICK d \in Open(t), set \in BOOLEAN :
        cloexec' = [cloexec EXCEPT ![t] = IF set THEN @ \cup {d} ELSE @ \ {d}]
  BY DEF sys_fcntl
<1> DEFINE marks == IF set THEN cloexec[t] \cup {d} ELSE cloexec[t] \ {d}
<1>2. cloexec[t] \in SUBSET Fd /\ d \in Fd /\ filp[t][d] # None
  BY DEF FilesInv, TypeInv, Marks, Open
<1>3. marks \in SUBSET Fd /\ cloexec' = [cloexec EXCEPT ![t] = marks]
  BY <1>1, <1>2 DEF FilesInv, TypeInv
<1>4. Fits(t, r[t], filp[t], cloexec[t], file)
  BY Facts
<1>5. \A e \in marks : filp[t][e] # None
  BY <1>2, <1>4 DEF Fits, HasInode
<1>6. r[t].pc = "user" /\ UNCHANGED <<file, filp, inodes, pipe, r>>
  BY DEF sys_fcntl, Calls, At
<1> HIDE DEF marks
<1> QED
  BY <1>3, <1>5, <1>6, MarksStep

-----------------------------------------------------------------------------
(* Steps that change descriptors                                           *)

\* Every file that a descriptor leads to is counted, once if nobody else has it.
LEMMA CountFacts ==
  ASSUME FilesInv, NEW t \in Task, NEW d \in Fd, filp[t][d] # None
  PROVE  /\ filp[t][d] \in File
         /\ file[filp[t][d]].count \in Nat \ {0}
         /\ file[filp[t][d]].count = 1 =>
              \A u \in Task, e \in Fd : filp[u][e] = filp[t][d] => u = t /\ e = d
<1> DEFINE f == filp[t][d]
<1>0. filp \in Tables
  BY DEF FilesInv, TypeInv
<1>1. f \in File
  BY <1>0 DEF Tables
<1>2. file[f].count = Cardinality(Leads(filp, f))
  BY <1>1 DEF FilesInv, CountInv
<1> HIDE DEF f
<1>3. /\ Cardinality(Leads(filp, f)) # 0
      /\ Cardinality(Leads(filp, f)) = 1 =>
           \A u \in Task, e \in Fd : filp[u][e] = f => u = t /\ e = d
  <2>1. filp[t][d] = f
    BY DEF f
  <2> QED
    BY <2>1, LeadsOnce
<1> QED
  BY <1>1, <1>2, <1>3, LeadsFinite DEF f

\* The count of one entry changes.
Counted(tab, f, n) == [tab EXCEPT ![f].count = n]

\* The kind of the entry and the other entries are as before.
LEMMA EntryCounted ==
  ASSUME NEW tab \in FileTable, NEW f \in File, NEW n \in Int
  PROVE  /\ Counted(tab, f, n) \in FileTable
         /\ Counted(tab, f, n)[f].count = n /\ Counted(tab, f, n)[f].kind = tab[f].kind
         /\ \A g \in File : g # f => Counted(tab, f, n)[g] = tab[g]
<1> DEFINE e == [tab[f] EXCEPT !.count = n]
<1>1. tab[f] \in [count : Int, kind : Kind]
  BY DEF FileTable
<1>2. e \in [count : Int, kind : Kind] /\ e.count = n /\ e.kind = tab[f].kind
  BY <1>1
<1>3. Counted(tab, f, n) = [tab EXCEPT ![f] = e]
  BY DEF FileTable, Counted
<1> HIDE DEF e
<1> QED
  BY <1>2, <1>3 DEF FileTable

\* sys_pipe counts two entries.
LEMMA TwoCounted ==
  ASSUME NEW tab \in FileTable, NEW f \in File, NEW g \in File, f # g
  PROVE  [tab EXCEPT ![f].count = @ + 1, ![g].count = @ + 1] =
           Counted(Counted(tab, f, tab[f].count + 1), g, tab[g].count + 1)
BY DEF FileTable, Counted

\* One descriptor changes, and the counts with it.
LEMMA CountStep ==
  ASSUME FilesInv, NEW t \in Task, NEW d \in Fd, NEW g \in File \cup {None},
         filp' = Pointed(filp, t, d, g),
         \A f \in File :
           /\ file'[f].count = file[f].count - Is(filp[t][d], f) + Is(g, f)
           /\ file'[f].count = 0 => file'[f].kind = ""
  PROVE  CountInv'
<1> SUFFICES ASSUME NEW f \in File
             PROVE  file'[f].count = Cardinality(Leads(filp', f))
  BY DEF CountInv
<1>1. filp \in Tables
  BY DEF FilesInv, TypeInv
<1>2. Cardinality(Leads(filp', f)) = Cardinality(Leads(filp, f)) - Is(filp[t][d], f) + Is(g, f)
  BY <1>1, LeadsChange
<1>3. file[f].count = Cardinality(Leads(filp, f))
  BY DEF FilesInv, CountInv
<1> QED
  BY <1>2, <1>3

\* The parts of the invariant, put together again.
LEMMA TableStep ==
  ASSUME FilesInv, NEW t \in Task, NEW q, Set(t, q), Sound(q),
         r[t].pc \notin {"put_fs_byte", "get_fs_byte"},
         q.pc \notin {"sleep_read", "sleep_write"}, UNCHANGED pipe,
         TypeInv', CountInv', InodeInv', PipeInv',
         \A u \in Task \ {t} : filp'[u] = filp[u] /\ cloexec'[u] = cloexec[u],
         \A u \in Task \ {t}, d \in Fd : filp[u][d] # None => Allowed(file, file', filp[u][d]),
         Fits(t, q, filp'[t], cloexec'[t], file')
  PROVE  FilesInv'
<1>1. TypeInv /\ RegisterInv /\ FitInv /\ SleepersMustWait
  BY DEF FilesInv
<1>2. RegisterInv'
  BY <1>1, RegisterStep
<1>3. FitInv'
  BY <1>1, FitStep
<1>4. SleepersMustWait'
  BY <1>1, SleepStep
<1> QED
  BY <1>2, <1>3, <1>4 DEF FilesInv

\* No inode is given to a file or taken from it.
LEMMA KindsSame ==
  ASSUME FilesInv, \A f \in File : file'[f].kind = file[f].kind
  PROVE  /\ Cardinality(OfKind(file', Plain)) = Cardinality(OfKind(file, Plain)) + 0
         /\ UNCHANGED pipe => PipeInv'
<1>1. \A K : OfKind(file', K) = OfKind(file, K)
  BY OfKindSame
<1> QED
  BY <1>1, OfKindFinite DEF FilesInv, PipeInv

\* The search for a descriptor comes to one that is free.
LEMMA FreeFdFacts ==
  ASSUME NEW t \in Task, NEW from \in Fd, FreeFds(t, from) # {}
  PROVE  /\ Min(FreeFds(t, from)) \in Fd
         /\ filp[t][Min(FreeFds(t, from))] = None
<1>1. FreeFds(t, from) \in SUBSET Nat
  BY AllFinite DEF FreeFds
<1>2. Min(FreeFds(t, from)) \in FreeFds(t, from)
  BY <1>1, MinIsLeast
<1> QED
  BY <1>2 DEF FreeFds

\* A file that is free has no kind, and nobody leads to it.
LEMMA FreeFileFacts ==
  ASSUME FilesInv, NEW f \in FreeFiles
  PROVE  /\ f \in File /\ file[f].count = 0 /\ file[f].kind = ""
         /\ \A u \in Task, e \in Fd : filp[u][e] # f
<1>1. f \in File /\ file[f].count = 0
  BY DEF FreeFiles
<1>2. file[f].kind = ""
  BY <1>1 DEF FilesInv, CountInv
<1>3. ASSUME NEW u \in Task, NEW e \in Fd, filp[u][e] = f
      PROVE  FALSE
  <2>1. filp[u][e] # None
    BY <1>1, <1>3, AllFinite
  <2>2. file[filp[u][e]].count \in Nat \ {0}
    BY <2>1, CountFacts
  <2> QED
    BY <1>1, <1>3, <2>2
<1> QED
  BY <1>1, <1>2, <1>3

\* sys_open takes a descriptor and an entry of the table.
LEMMA OpenStep ==
  ASSUME FilesInv, NEW t \in Task, sys_open(t)
  PROVE  FilesInv'
<1> DEFINE d == Min(FreeFds(t, 1))
           f == Min(FreeFiles)
           marks == cloexec[t] \ {d}
           q == [r[t] EXCEPT !.pc = "open_namei", !.fd = {d}]
<1>1. /\ r[t].pc = "user" /\ FreeFds(t, 1) # {}
      /\ cloexec' = [cloexec EXCEPT ![t] = @ \ {d}] /\ UNCHANGED <<inodes, pipe>>
  BY DEF sys_open, Calls, At
<1>2. d \in Fd /\ filp[t][d] = None
  <2>1. 1 \in Fd
    BY FilesAssumption DEF Fd
  <2> QED
    BY <1>1, <2>1, FreeFdFacts
<1>3. Sound(r[t]) /\ Fits(t, r[t], filp[t], cloexec[t], file)
  BY Facts
<1>4. TypeInv /\ RegisterInv /\ InodeInv
  BY DEF FilesInv
<1>5. marks \in SUBSET Fd /\ cloexec' = [cloexec EXCEPT ![t] = marks] /\ d \notin marks
  BY <1>1, <1>4 DEF TypeInv, Marks
<1>6. CASE FreeFiles = {}
  <2>1. UNCHANGED <<file, filp, r>>
    BY <1>6 DEF sys_open
  <2>2. \A e \in marks : filp[t][e] # None
    BY <1>3 DEF Fits, HasInode
  <2> HIDE DEF marks
  <2> QED
    BY <1>1, <1>5, <2>1, <2>2, MarksStep
<1>7. CASE FreeFiles # {}
  <2>1. /\ file' = [file EXCEPT ![f].count = @ + 1]
        /\ filp' = [filp EXCEPT ![t][d] = f]
        /\ Set(t, q)
    BY <1>7 DEF sys_open
  <2>2. f \in FreeFiles
    <3>1. FreeFiles \in SUBSET Nat
      BY AllFinite DEF FreeFiles
    <3> QED
      BY <1>7, <3>1, MinIsLeast
  <2>3. /\ f \in File /\ file[f].count = 0 /\ file[f].kind = ""
        /\ \A u \in Task, e \in Fd : filp[u][e] # f
    BY <2>2, FreeFileFacts
  <2>4. Shaped(q)
    BY <1>3 DEF Sound, Shaped
  <2>5. /\ q.pc = "open_namei" /\ q.fd = {d} /\ q.closing = r[t].closing /\ q.next = r[t].next
        /\ q.old = r[t].old /\ q.new = r[t].new /\ q.keeps = r[t].keeps
    BY <1>3 DEF Sound, Shaped
  <2> HIDE DEF q, d, f, marks
  <2>6. Sound(q)
    BY <1>1, <1>2, <1>3, <2>4, <2>5 DEF Sound, Filing, Opening
  <2>7. /\ file'[f].count = 1 /\ file'[f].kind = ""
        /\ \A g \in File : g # f => file'[g] = file[g]
        /\ file' \in FileTable
    <3>0. f \in File /\ file \in FileTable
      BY <1>4, <2>3 DEF TypeInv
    <3>1. file[f].count = 0 /\ file[f].kind = ""
      BY <2>3
    <3>2. file' = Counted(file, f, file[f].count + 1)
      BY <2>1 DEF Counted
    <3>3. file[f].count + 1 = 1
      <4>1. file[f].count = 0
        BY <3>1
      <4> QED
        BY <4>1
    <3>4. file' = Counted(file, f, 1)
      BY <3>2, <3>3, Zenon
    <3> DEFINE new == Counted(file, f, 1)
    <3>5. /\ new \in FileTable /\ new[f].count = 1 /\ new[f].kind = file[f].kind
          /\ \A g \in File : g # f => new[g] = file[g]
      BY <3>0, EntryCounted
    <3> HIDE DEF new
    <3>6. file' = new
      BY <3>4 DEF new
    <3> QED
      BY <3>1, <3>5, <3>6
  <2>8. /\ \A u \in Task \ {t} : filp'[u] = filp[u] /\ cloexec'[u] = cloexec[u]
        /\ \A e \in Fd : filp'[t][e] = IF e = d THEN f ELSE filp[t][e]
        /\ cloexec'[t] = marks
        /\ filp' \in Tables /\ cloexec' \in Marks
    BY <1>2, <1>4, <1>5, <2>1, <2>3 DEF TypeInv, Tables, Marks
  <2>9. TypeInv'
    BY <1>1, <1>4, <2>7, <2>8 DEF TypeInv
  <2>10. CountInv'
    <3>1. ASSUME NEW g \in File
          PROVE  /\ file'[g].count = file[g].count - Is(filp[t][d], g) + Is(f, g)
                 /\ file'[g].count = 0 => file'[g].kind = ""
      <4>1. filp[t][d] # g /\ file[g].count \in Int
        BY <1>2, <1>4, AllFinite DEF TypeInv, FileTable
      <4>2. file[g].count = 0 => file[g].kind = ""
        BY DEF FilesInv, CountInv
      <4>3. CASE g = f
        <5>1. Is(filp[t][d], g) = 0 /\ Is(f, g) = 1
          BY <4>1, <4>3 DEF Is
        <5>2. file[g].count = 0 /\ file'[g].count = 1
          BY <2>3, <2>7, <4>3
        <5>3. file'[g].count = file[g].count - Is(filp[t][d], g) + Is(f, g)
          BY <5>1, <5>2
        <5> QED
          BY <5>2, <5>3
      <4>4. CASE g # f
        <5>1. Is(filp[t][d], g) = 0 /\ Is(f, g) = 0
          BY <4>1, <4>4 DEF Is
        <5>2. file'[g] = file[g]
          BY <2>7, <4>4
        <5>3. file'[g].count = file[g].count - Is(filp[t][d], g) + Is(f, g)
          BY <4>1, <5>1, <5>2
        <5> QED
          BY <4>2, <5>2, <5>3
      <4> QED
        BY <4>3, <4>4
    <3>2. filp' = Pointed(filp, t, d, f)
      BY <2>1 DEF Pointed
    <3>3. d \in Fd /\ f \in File \cup {None}
      BY <1>2, <2>3
    <3> QED
      BY <3>1, <3>2, <3>3, CountStep
  <2>11. \A g \in File : file'[g].kind = file[g].kind
    BY <2>3, <2>7
  <2>12. PipeInv'
    BY <1>1, <2>11, KindsSame
  <2>13. InodeInv'
    <3>1. inodes' = inodes + 0 - (IF r[t].pc = "iput" THEN 1 ELSE 0)
                               + (IF q.pc = "iput" THEN 1 ELSE 0)
      <4>1. inodes \in Int
        BY <1>4 DEF TypeInv
      <4> QED
        BY <1>1, <2>5, <4>1
    <3>2. Cardinality(OfKind(file', Plain)) = Cardinality(OfKind(file, Plain)) + 0
      BY <2>11, KindsSame
    <3>3. Set(t, q) /\ q.keeps = r[t].keeps
      BY <2>1, <2>5
    <3> QED
      BY <1>4, <3>1, <3>2, <3>3, InodeStep
  <2>14. \A u \in Task \ {t}, e \in Fd : filp[u][e] # None => Allowed(file, file', filp[u][e])
    <3> SUFFICES ASSUME NEW u \in Task \ {t}, NEW e \in Fd, filp[u][e] # None
                 PROVE  Allowed(file, file', filp[u][e])
      OBVIOUS
    <3>1. filp[u][e] \in File /\ filp[u][e] # f
      BY <1>4, <2>3 DEF TypeInv, Tables
    <3>2. file'[filp[u][e]] = file[filp[u][e]]
      BY <2>7, <3>1
    <3> QED
      BY <3>2 DEF Allowed
  <2>15. Fits(t, q, filp'[t], cloexec'[t], file')
    <3>1. r[t].fd = {} /\ r[t].next # "leave"
      BY <1>1, <1>3 DEF Sound, Opening
    <3>2. f # None
      BY <2>3, AllFinite
    <3>3. \A e \in Fd \ {d} : filp'[t][e] # None => file'[filp'[t][e]].kind # ""
      <4> SUFFICES ASSUME NEW e \in Fd \ {d}, filp'[t][e] # None
                   PROVE  file'[filp'[t][e]].kind # ""
        OBVIOUS
      <4>1. filp'[t][e] = filp[t][e] /\ filp[t][e] \in File
        BY <1>4, <2>8 DEF TypeInv, Tables
      <4>2. file[filp[t][e]].kind # ""
        BY <1>3, <3>1, <4>1 DEF Fits, HasInode
      <4> QED
        BY <2>11, <4>1, <4>2
    <3>4. \A e \in marks : filp'[t][e] # None /\ e # d
      BY <1>3, <1>5, <2>8 DEF Fits, HasInode, marks
    <3> QED
      BY <1>2, <2>5, <2>7, <2>8, <3>1, <3>2, <3>3, <3>4 DEF Fits, HasInode
  <2> QED
    BY <1>1, <2>1, <2>5, <2>6, <2>8, <2>9, <2>10, <2>12, <2>13, <2>14, <2>15, TableStep
<1> QED
  BY <1>6, <1>7

\* Files that only this task leads to, or nobody, change: the others' fit.
LEMMA OthersAllowed ==
  ASSUME FilesInv, NEW t \in Task, NEW F,
         \A u \in Task \ {t}, e \in Fd : filp[u][e] \notin F,
         \A g \in File \ F : file'[g] = file[g]
  PROVE  \A u \in Task \ {t}, e \in Fd : filp[u][e] # None => Allowed(file, file', filp[u][e])
<1> SUFFICES ASSUME NEW u \in Task \ {t}, NEW e \in Fd, filp[u][e] # None
             PROVE  Allowed(file, file', filp[u][e])
  OBVIOUS
<1>1. filp[u][e] \in File \ F
  BY CountFacts
<1>2. file'[filp[u][e]] = file[filp[u][e]]
  BY <1>1
<1> QED
  BY <1>2 DEF Allowed

\* No file changes its kind, and no inode is put.
LEMMA InodesSame ==
  ASSUME FilesInv, NEW t \in Task, NEW q, Set(t, q), q.keeps = r[t].keeps,
         r[t].pc # "iput", q.pc # "iput", UNCHANGED <<inodes, pipe>>,
         \A f \in File : file'[f].kind = file[f].kind
  PROVE  InodeInv' /\ PipeInv'
<1>1. RegisterInv /\ InodeInv /\ inodes \in Int
  BY DEF FilesInv, TypeInv
<1>2. inodes' = inodes + 0 - (IF r[t].pc = "iput" THEN 1 ELSE 0)
                           + (IF q.pc = "iput" THEN 1 ELSE 0)
  BY <1>1
<1>3. /\ Cardinality(OfKind(file', Plain)) = Cardinality(OfKind(file, Plain)) + 0
      /\ PipeInv'
  BY KindsSame
<1> QED
  BY <1>1, <1>2, <1>3, InodeStep

\* An entry is replaced.
Replaced(tab, f, n, k) == [tab EXCEPT ![f] = [count |-> n, kind |-> k]]

\* The other entries are as before.
LEMMA EntryReplaced ==
  ASSUME NEW tab \in FileTable, NEW f \in File, NEW n \in Int, NEW k \in Kind
  PROVE  /\ Replaced(tab, f, n, k) \in FileTable
         /\ Replaced(tab, f, n, k)[f].count = n /\ Replaced(tab, f, n, k)[f].kind = k
         /\ \A g \in File : g # f => Replaced(tab, f, n, k)[g] = tab[g]
BY DEF FileTable, Replaced

\* An entry is free again.
Dropped(tab, f) == [tab EXCEPT ![f] = Unused]

\* It has neither a count nor a kind.
LEMMA EntryDropped ==
  ASSUME NEW tab \in FileTable, NEW f \in File
  PROVE  /\ Dropped(tab, f) \in FileTable
         /\ Dropped(tab, f)[f].count = 0
         /\ Dropped(tab, f)[f].kind = ""
         /\ \A g \in File : g # f => Dropped(tab, f)[g] = tab[g]
<1>1. Unused \in [count : Int, kind : Kind]
  BY DEF Unused, Kind
<1>2. Unused.count = 0
  BY DEF Unused
<1>3. Unused.kind = ""
  BY DEF Unused
<1>4. /\ Dropped(tab, f) \in FileTable /\ Dropped(tab, f)[f] = Unused
      /\ \A g \in File : g # f => Dropped(tab, f)[g] = tab[g]
  BY <1>1 DEF FileTable, Dropped
<1> QED
  BY <1>2, <1>3, <1>4

\* One descriptor of the table changes.
LEMMA DescriptorChanged ==
  ASSUME NEW fp \in Tables, NEW t \in Task, NEW d \in Fd, NEW g \in File \cup {None}
  PROVE  /\ Pointed(fp, t, d, g) \in Tables
         /\ \A u \in Task \ {t} : Pointed(fp, t, d, g)[u] = fp[u]
         /\ \A e \in Fd : Pointed(fp, t, d, g)[t][e] = IF e = d THEN g ELSE fp[t][e]
BY DEF Tables, Pointed

\* The end of sys_open, with an inode or without one.
LEMMA NameiFacts ==
  ASSUME FilesInv, NEW t \in Task, At(t, "open_namei")
  PROVE  LET d == Min(r[t].fd)
             f == filp[t][d]
         IN /\ d \in Fd /\ r[t].fd = {d} /\ f \in File
            /\ file[f].count = 1 /\ file[f].kind = ""
            /\ \A u \in Task, e \in Fd : filp[u][e] = f => u = t /\ e = d
<1>1. Sound(r[t]) /\ Fits(t, r[t], filp[t], cloexec[t], file)
  BY Facts
<1>2. PICK d \in Fd : r[t].fd = {d}
  BY <1>1 DEF At, Sound
<1>3. Min(r[t].fd) = d
  <2>1. {d} \in SUBSET Nat /\ {d} # {}
    BY AllFinite
  <2>2. Min({d}) \in {d}
    BY <2>1, MinIsLeast
  <2> QED
    BY <1>2, <2>2
<1>4. filp[t][d] # None /\ file[filp[t][d]].count = 1 /\ file[filp[t][d]].kind = ""
  BY <1>1, <1>2 DEF Fits, HasInode
<1>5. /\ filp[t][d] \in File
      /\ \A u \in Task, e \in Fd : filp[u][e] = filp[t][d] => u = t /\ e = d
  <2>1. /\ filp[t][d] \in File
        /\ file[filp[t][d]].count = 1 =>
             \A u \in Task, e \in Fd : filp[u][e] = filp[t][d] => u = t /\ e = d
    BY <1>4, CountFacts
  <2> QED
    BY <1>4, <2>1
<1> QED
  BY <1>2, <1>3, <1>4, <1>5

\* What the two outcomes of a call that opens have in common: the entry of a
\* file changes that only this task leads to.
LEMMA OpenedStep ==
  ASSUME FilesInv, NEW t \in Task, r[t].pc \in Opening, Set(t, Registers),
         UNCHANGED cloexec, file' \in FileTable, filp' \in Tables,
         inodes' \in Int, pipe'.count \in Int, Whole(pipe'),
         NEW F, F = {filp[t][d] : d \in r[t].fd},
         \A g \in File \ F : file'[g] = file[g],
         \A u \in Task \ {t} : filp'[u] = filp[u],
         \A d \in Fd \ r[t].fd : filp'[t][d] = filp[t][d],
         \A d \in r[t].fd : filp'[t][d] # None => file'[filp'[t][d]].kind # "",
         CountInv', InodeInv', PipeInv', SleepersMustWait'
  PROVE  FilesInv'
<1>1. TypeInv /\ RegisterInv /\ FitInv
  BY DEF FilesInv
<1>2. Sound(r[t]) /\ Fits(t, r[t], filp[t], cloexec[t], file)
  BY Facts
<1>3. TypeInv'
  BY <1>1 DEF TypeInv
<1>4. RegisterInv'
  BY <1>1, RegistersSound, RegisterStep
<1>5. ASSUME NEW u \in Task, NEW e \in Fd, filp[u][e] \in F
      PROVE  u = t /\ e \in r[t].fd
  <2>1. PICK d \in r[t].fd : filp[u][e] = filp[t][d]
    BY <1>5
  <2>2. d \in Fd /\ filp[t][d] # None /\ file[filp[t][d]].count = 1
    BY <1>2 DEF Sound, Fits, HasInode
  <2>3. \A v \in Task, c \in Fd : filp[v][c] = filp[t][d] => v = t /\ c = d
    BY <2>2, CountFacts
  <2> QED
    BY <2>1, <2>3
<1>6. \A u \in Task \ {t}, e \in Fd : filp[u][e] # None => Allowed(file, file', filp[u][e])
  <2>1. \A u \in Task \ {t}, e \in Fd : filp[u][e] \notin F
    BY <1>5
  <2> QED
    BY <2>1, OthersAllowed
<1>7. Registers.pc = "user" /\ Registers.next = "user" /\ Registers.fd = {}
  BY DEF Registers
<1>10. r[t].next # "leave"
  BY <1>2 DEF Sound, Opening
<1>8. Fits(t, Registers, filp'[t], cloexec'[t], file')
  <2>1. ASSUME NEW d \in Fd, filp'[t][d] # None
        PROVE  file'[filp'[t][d]].kind # ""
    <3>1. CASE d \in r[t].fd
      BY <2>1, <3>1
    <3>2. CASE d \notin r[t].fd
      <4>1. filp'[t][d] = filp[t][d] /\ filp[t][d] # None
        BY <2>1, <3>2
      <4>2. filp[t][d] \in File \ F
        BY <1>5, <3>2, <4>1, CountFacts
      <4>3. file[filp[t][d]].kind # ""
        BY <1>2, <1>10, <3>2, <4>1 DEF Fits, HasInode
      <4>4. file'[filp[t][d]] = file[filp[t][d]]
        BY <4>2
      <4> QED
        BY <4>1, <4>3, <4>4
    <3> QED
      BY <3>1, <3>2
  <2>2. \A d \in cloexec[t] : d \in Fd /\ filp[t][d] # None /\ d \notin r[t].fd
    BY <1>1, <1>2 DEF Fits, HasInode, TypeInv, Marks
  <2>3. \A d \in cloexec'[t] : filp'[t][d] # None
    BY <2>2
  <2> QED
    BY <1>7, <2>1, <2>3 DEF Fits, HasInode
<1>9. FitInv'
  <2>1. \A u \in Task \ {t} : filp'[u] = filp[u] /\ cloexec'[u] = cloexec[u]
    OBVIOUS
  <2> QED
    BY <1>1, <1>6, <1>8, <2>1, FitStep
<1> QED
  BY <1>3, <1>4, <1>9 DEF FilesInv

\* open_namei has found the inode, which is now counted by the file, or sys_open
\* gives back the entry and the descriptor.
LEMMA NameiStep ==
  ASSUME FilesInv, NEW t \in Task, open_namei(t)
  PROVE  FilesInv'
<1> DEFINE d == Min(r[t].fd)
           f == filp[t][d]
<1>1. /\ r[t].pc = "open_namei" /\ Set(t, Registers) /\ UNCHANGED <<cloexec, pipe>>
      /\ At(t, "open_namei")
  BY DEF open_namei, At
<1>2. /\ d \in Fd /\ r[t].fd = {d} /\ f \in File
      /\ \A u \in Task, e \in Fd : filp[u][e] = f => u = t /\ e = d
  BY <1>1, NameiFacts
<1>10. file[f].count = 1
  BY <1>1, NameiFacts
<1>11. file[f].kind = ""
  BY <1>1, NameiFacts
<1>3. \/ /\ file' = [file EXCEPT ![f] = [count |-> 1, kind |-> "file"]]
         /\ inodes' = inodes + 1
         /\ UNCHANGED filp
      \/ /\ file' = [file EXCEPT ![f] = Unused]
         /\ filp' = [filp EXCEPT ![t][d] = None]
         /\ UNCHANGED inodes
  BY DEF open_namei
<1>4. /\ file \in FileTable /\ filp \in Tables /\ inodes \in Int /\ pipe.count \in Int
      /\ Whole(pipe) /\ RegisterInv /\ InodeInv /\ PipeInv /\ SleepersMustWait
  BY DEF FilesInv, TypeInv
<1> HIDE DEF d, f
<1>5. /\ Registers.pc = "user" /\ Registers.keeps = 3
      /\ r[t].keeps = 3
  <2>1. Sound(r[t])
    BY Facts
  <2> QED
    BY <1>1, <2>1 DEF Sound, Registers
<1>6. SleepersMustWait'
  BY <1>1, <1>4, <1>5, SleepStep
<1>7. {f} = {filp[t][e] : e \in r[t].fd}
  BY <1>2 DEF f
<1>8. CASE /\ file' = [file EXCEPT ![f] = [count |-> 1, kind |-> "file"]]
           /\ inodes' = inodes + 1
           /\ UNCHANGED filp
  <2>1. /\ file' \in FileTable /\ file'[f].count = 1 /\ file'[f].kind = "file"
        /\ \A g \in File : g # f => file'[g] = file[g]
    <3>1. "file" \in Kind /\ 1 \in Int /\ f \in File /\ file \in FileTable
      BY <1>2, <1>4 DEF Kind
    <3>2. file' = Replaced(file, f, 1, "file")
      BY <1>8 DEF Replaced
    <3> QED
      BY <3>1, <3>2, EntryReplaced
  <2>2. CountInv'
    <3>1. ASSUME NEW g \in File
          PROVE  /\ file'[g].count = file[g].count
                 /\ file'[g].count = 0 => file'[g].kind = ""
      <4>1. file[g].count = 0 => file[g].kind = ""
        BY DEF FilesInv, CountInv
      <4>2. CASE g = f
        <5>1. file'[g].count = 1 /\ file[g].count = 1
          BY <1>10, <2>1, <4>2
        <5> QED
          BY <5>1
      <4>3. CASE g # f
        BY <2>1, <4>1, <4>3
      <4> QED
        BY <4>2, <4>3
    <3> QED
      BY <1>8, <3>1 DEF FilesInv, CountInv
  <2>3. \A g \in File \ {f} : file'[g].kind = file[g].kind
    BY <2>1
  <2>4. Cardinality(OfKind(file', Plain)) = Cardinality(OfKind(file, Plain)) + 1
    <3>1. Cardinality(OfKind(file', Plain)) =
            Cardinality(OfKind(file, Plain)) - Has(file[f].kind, Plain)
                                                + Has(file'[f].kind, Plain)
      BY <1>2, <2>3, OfKindChange
    <3>2. Has(file[f].kind, Plain) = 0 /\ Has(file'[f].kind, Plain) = 1
      BY <1>11, <2>1 DEF Has, Plain
    <3> QED
      BY <3>1, <3>2, OfKindFinite
  <2>5. InodeInv'
    <3>1. inodes' = inodes + 1 - (IF r[t].pc = "iput" THEN 1 ELSE 0)
                               + (IF Registers.pc = "iput" THEN 1 ELSE 0)
      BY <1>1, <1>4, <1>5, <1>8
    <3>2. 1 \in Int
      OBVIOUS
    <3> QED
      BY <1>1, <1>4, <1>5, <2>4, <3>1, <3>2, InodeStep
  <2>6. PipeInv'
    <3>1. Cardinality(OfKind(file', PipeEnds)) =
            Cardinality(OfKind(file, PipeEnds))
              - Has(file[f].kind, PipeEnds) + Has(file'[f].kind, PipeEnds)
      BY <1>2, <2>3, OfKindChange
    <3>2. Has(file[f].kind, PipeEnds) = 0 /\ Has(file'[f].kind, PipeEnds) = 0
      BY <1>11, <2>1 DEF Has, PipeEnds
    <3>3. Cardinality(OfKind(file', PipeEnds)) = Cardinality(OfKind(file, PipeEnds))
      BY <3>1, <3>2, OfKindFinite
    <3> QED
      BY <1>1, <1>4, <3>3 DEF PipeInv
  <2>7. inodes' \in Int /\ filp' \in Tables /\ pipe'.count \in Int /\ Whole(pipe')
    BY <1>1, <1>4, <1>8
  <2>8. \A e \in r[t].fd : filp'[t][e] # None => file'[filp'[t][e]].kind # ""
    BY <1>2, <1>8, <2>1 DEF f
  <2>9. /\ \A g \in File \ {f} : file'[g] = file[g]
        /\ \A u \in Task \ {t} : filp'[u] = filp[u]
        /\ \A e \in Fd \ r[t].fd : filp'[t][e] = filp[t][e]
    BY <1>8, <2>1
  <2> QED
    BY <1>1, <1>6, <1>7, <2>1, <2>2, <2>5, <2>6, <2>7, <2>8, <2>9, OpenedStep DEF Opening
<1>9. CASE /\ file' = [file EXCEPT ![f] = Unused]
           /\ filp' = [filp EXCEPT ![t][d] = None]
           /\ UNCHANGED inodes
  <2>1. /\ file' \in FileTable /\ file'[f].count = 0 /\ file'[f].kind = ""
        /\ \A g \in File : g # f => file'[g] = file[g]
    <3>1. f \in File /\ file \in FileTable /\ file' = Dropped(file, f)
      BY <1>2, <1>4, <1>9 DEF Dropped
    <3> QED
      BY <3>1, EntryDropped
  <2>2. /\ filp' \in Tables
        /\ \A u \in Task \ {t} : filp'[u] = filp[u]
        /\ \A e \in Fd : filp'[t][e] = IF e = d THEN None ELSE filp[t][e]
    <3>1. filp \in Tables /\ d \in Fd /\ None \in File \cup {None}
      BY <1>2, <1>4
    <3>2. filp' = Pointed(filp, t, d, None)
      BY <1>9 DEF Pointed
    <3> QED
      BY <3>1, <3>2, DescriptorChanged
  <2>3. CountInv'
    <3>1. ASSUME NEW g \in File
          PROVE  /\ file'[g].count = file[g].count - Is(filp[t][d], g) + Is(None, g)
                 /\ file'[g].count = 0 => file'[g].kind = ""
      <4>1. file[g].count = 0 => file[g].kind = ""
        BY DEF FilesInv, CountInv
      <4>2. file[g].count \in Int /\ None # g
        BY <1>4, AllFinite DEF FileTable
      <4>3. CASE g = f
        <5>1. file'[g].count = 0 /\ file[g].count = 1 /\ Is(filp[t][d], g) = 1 /\ Is(None, g) = 0
          BY <1>2, <1>10, <2>1, <4>2, <4>3 DEF Is, f
        <5>2. file'[g].kind = ""
          BY <2>1, <4>3
        <5>3. file'[g].count = file[g].count - Is(filp[t][d], g) + Is(None, g)
          BY <5>1
        <5> QED
          BY <5>2, <5>3
      <4>4. CASE g # f
        <5>1. file'[g] = file[g] /\ Is(filp[t][d], g) = 0 /\ Is(None, g) = 0
          BY <2>1, <4>2, <4>4 DEF Is, f
        <5>2. file'[g].count = file[g].count - Is(filp[t][d], g) + Is(None, g)
          BY <4>2, <5>1
        <5> QED
          BY <4>1, <5>1, <5>2
      <4> QED
        BY <4>3, <4>4
    <3>2. filp' = Pointed(filp, t, d, None) /\ None \in File \cup {None}
      BY <1>9 DEF Pointed
    <3> QED
      BY <1>2, <3>1, <3>2, CountStep
  <2>4. InodeInv' /\ PipeInv'
    <3>1. \A g \in File : file'[g].kind = file[g].kind
      BY <1>2, <1>11, <2>1
    <3>2. r[t].pc # "iput" /\ Registers.pc # "iput" /\ Registers.keeps = r[t].keeps
          /\ UNCHANGED <<inodes, pipe>>
      BY <1>1, <1>5, <1>9
    <3> QED
      BY <1>1, <3>1, <3>2, InodesSame
  <2>5. inodes' \in Int /\ pipe'.count \in Int /\ Whole(pipe')
    BY <1>1, <1>4, <1>9
  <2>6. \A e \in r[t].fd : filp'[t][e] # None => file'[filp'[t][e]].kind # ""
    BY <1>2, <2>2
  <2>7. /\ \A g \in File \ {f} : file'[g] = file[g]
        /\ \A e \in Fd \ r[t].fd : filp'[t][e] = filp[t][e]
    BY <1>2, <2>1, <2>2
  <2> QED
    BY <1>1, <1>6, <1>7, <2>1, <2>2, <2>3, <2>4, <2>5, <2>6, <2>7, OpenedStep DEF Opening
<1> QED
  BY <1>3, <1>8, <1>9

\* What is added and taken when counting is a number.
LEMMA IsNumber ==
  \A a, b : Is(a, b) \in Int
BY DEF Is

\* Two descriptors change.
LEMMA LeadsChangeTwice ==
  ASSUME NEW fp \in Tables, NEW t \in Task, NEW d \in Fd, NEW e \in Fd, d # e,
         NEW g \in File \cup {None}, NEW h \in File \cup {None}, NEW f \in File
  PROVE  Cardinality(Leads(Pointed(Pointed(fp, t, d, g), t, e, h), f)) =
           Cardinality(Leads(fp, f)) - Is(fp[t][d], f) + Is(g, f)
                                     - Is(fp[t][e], f) + Is(h, f)
<1> DEFINE mid == Pointed(fp, t, d, g)
<1>1. mid \in Tables /\ mid[t][e] = fp[t][e]
  <2>1. /\ mid \in Tables
        /\ \A u \in Task \ {t} : mid[u] = fp[u]
        /\ \A c \in Fd : mid[t][c] = IF c = d THEN g ELSE fp[t][c]
    BY DescriptorChanged
  <2> HIDE DEF mid
  <2> QED
    BY <2>1
<1>2. Cardinality(Leads(mid, f)) = Cardinality(Leads(fp, f)) - Is(fp[t][d], f) + Is(g, f)
  BY LeadsChange
<1> HIDE DEF mid
<1>3. Cardinality(Leads(Pointed(mid, t, e, h), f)) =
        Cardinality(Leads(mid, f)) - Is(mid[t][e], f) + Is(h, f)
  BY <1>1, LeadsChange
<1>4. /\ Is(fp[t][d], f) \in Int /\ Is(g, f) \in Int
      /\ Is(fp[t][e], f) \in Int /\ Is(h, f) \in Int
  BY IsNumber
<1>5. Cardinality(Leads(fp, f)) \in Int
  BY LeadsFinite
<1> QED
  BY <1>1, <1>2, <1>3, <1>4, <1>5 DEF mid

\* An entry that is not counted has no inode.
Freed(tab, f) == tab[f].count = 0 => tab[f].kind = ""

\* So do the counts.
LEMMA CountsStep ==
  ASSUME FilesInv, NEW t \in Task, NEW d \in Fd, NEW e \in Fd, d # e,
         NEW g \in File \cup {None}, NEW h \in File \cup {None},
         filp' = Pointed(Pointed(filp, t, d, g), t, e, h),
         \A f \in File :
           file'[f].count = file[f].count - Is(filp[t][d], f) + Is(g, f)
                                          - Is(filp[t][e], f) + Is(h, f),
         \A f \in File : Freed(file', f)
  PROVE  CountInv'
<1> SUFFICES ASSUME NEW f \in File
             PROVE  file'[f].count = Cardinality(Leads(filp', f))
  BY DEF CountInv, Freed
<1>1. filp \in Tables
  BY DEF FilesInv, TypeInv
<1>2. Cardinality(Leads(filp', f)) =
        Cardinality(Leads(filp, f)) - Is(filp[t][d], f) + Is(g, f)
                                    - Is(filp[t][e], f) + Is(h, f)
  <2>1. Cardinality(Leads(Pointed(Pointed(filp, t, d, g), t, e, h), f)) =
          Cardinality(Leads(filp, f)) - Is(filp[t][d], f) + Is(g, f)
                                      - Is(filp[t][e], f) + Is(h, f)
    BY <1>1, LeadsChangeTwice
  <2> QED
    BY <2>1, Zenon
<1>3. file[f].count = Cardinality(Leads(filp, f))
  BY DEF FilesInv, CountInv
<1> QED
  BY <1>2, <1>3

\* sys_pipe takes two of both.
LEMMA PipeFacts ==
  ASSUME FilesInv, NEW t \in Task, Cardinality(FreeFiles) >= 2,
         Cardinality(FreeFds(t, 1)) >= 2
  PROVE  LET f == Two(FreeFiles)
             d == Two(FreeFds(t, 1))
         IN /\ f[1] \in FreeFiles /\ f[2] \in FreeFiles /\ f[1] # f[2]
            /\ d[1] \in Fd /\ d[2] \in Fd /\ d[1] < d[2]
            /\ filp[t][d[1]] = None /\ filp[t][d[2]] = None
<1>1. FreeFiles \in SUBSET Nat /\ IsFiniteSet(FreeFiles)
  <2>1. FreeFiles \subseteq File
    BY DEF FreeFiles
  <2> QED
    BY <2>1, AllFinite, FS_Subset
<1>2. FreeFds(t, 1) \in SUBSET Nat /\ IsFiniteSet(FreeFds(t, 1)) /\ FreeFds(t, 1) \subseteq Fd
  <2>1. FreeFds(t, 1) \subseteq Fd
    BY DEF FreeFds
  <2> QED
    BY <2>1, AllFinite, FS_Subset
<1> DEFINE f == Two(FreeFiles)
           d == Two(FreeFds(t, 1))
<1>3. f[1] \in FreeFiles /\ f[2] \in FreeFiles /\ f[1] < f[2]
  BY <1>1, TwoAreSmallest
<1>4. f[1] # f[2]
  <2>1. f[1] \in Nat /\ f[2] \in Nat
    BY <1>1, <1>3
  <2> HIDE DEF f
  <2> QED
    BY <1>3, <2>1
<1>5. d[1] \in FreeFds(t, 1) /\ d[2] \in FreeFds(t, 1) /\ d[1] < d[2]
  BY <1>2, TwoAreSmallest
<1>6. \A e \in FreeFds(t, 1) : e \in Fd /\ filp[t][e] = None
  BY DEF FreeFds
<1> HIDE DEF f, d
<1> QED
  BY <1>3, <1>4, <1>5, <1>6 DEF f, d

\* sys_pipe up to get_pipe_inode takes two entries and two descriptors, and
\* counts each entry once.
LEMMA PipeCallStep ==
  ASSUME FilesInv, NEW t \in Task, sys_pipe(t)
  PROVE  FilesInv'
<1> DEFINE f == Two(FreeFiles)[1]
           g == Two(FreeFiles)[2]
           d == Two(FreeFds(t, 1))[1]
           e == Two(FreeFds(t, 1))[2]
           q == [r[t] EXCEPT !.pc = "get_pipe_inode", !.fd = {d, e}]
           mid == Counted(file, f, 1)
<1>1. r[t].pc = "user" /\ UNCHANGED <<cloexec, inodes, pipe>>
  BY DEF sys_pipe, Calls, At
<1>2. /\ f \in FreeFiles /\ g \in FreeFiles /\ f # g
      /\ d \in Fd /\ e \in Fd /\ d < e
      /\ filp[t][d] = None /\ filp[t][e] = None
  BY PipeFacts DEF sys_pipe
<1>3. /\ file' = [file EXCEPT ![f].count = @ + 1, ![g].count = @ + 1]
      /\ filp' = [filp EXCEPT ![t][d] = f, ![t][e] = g]
      /\ Set(t, q)
  BY DEF sys_pipe
<1>4. Sound(r[t]) /\ Fits(t, r[t], filp[t], cloexec[t], file)
  BY Facts
<1>5. Shaped(q)
  BY <1>4 DEF Sound, Shaped
<1>6. /\ q.pc = "get_pipe_inode" /\ q.fd = {d, e} /\ q.closing = r[t].closing
      /\ q.next = r[t].next /\ q.old = r[t].old /\ q.new = r[t].new /\ q.keeps = r[t].keeps
  BY <1>4 DEF Sound, Shaped
<1> HIDE DEF f, g, d, e, q
<1>7. Sound(q)
  BY <1>1, <1>2, <1>4, <1>5, <1>6 DEF Sound, Filing, Opening
<1>8. /\ file \in FileTable /\ filp \in Tables /\ cloexec \in Marks
      /\ TypeInv /\ RegisterInv
  BY DEF FilesInv, TypeInv
<1>9. /\ f \in File /\ g \in File
      /\ \A u \in Task, c \in Fd : filp[u][c] # f /\ filp[u][c] # g
  BY <1>2, FreeFileFacts
<1>10. file[f].count = 0 /\ file[g].count = 0
  BY <1>2, FreeFileFacts
<1>11. file[f].kind = "" /\ file[g].kind = ""
  BY <1>2, FreeFileFacts
<1>12. file' = Counted(mid, g, 1)
  <2>1. file' = Counted(Counted(file, f, file[f].count + 1), g, file[g].count + 1)
    BY <1>2, <1>3, <1>8, <1>9, TwoCounted
  <2>2. file[f].count + 1 = 1 /\ file[g].count + 1 = 1
    BY <1>10
  <2> QED
    BY <2>1, <2>2
<1>13. /\ file' \in FileTable /\ file'[f].count = 1 /\ file'[g].count = 1
       /\ \A h \in File : h # f /\ h # g => file'[h] = file[h]
       /\ \A h \in File : file'[h].kind = file[h].kind
  <2>1. /\ mid \in FileTable /\ mid[f].count = 1 /\ mid[f].kind = file[f].kind
        /\ \A h \in File : h # f => mid[h] = file[h]
    BY <1>8, <1>9, EntryCounted
  <2> HIDE DEF mid
  <2>2. /\ file' \in FileTable /\ file'[g].count = 1 /\ file'[g].kind = mid[g].kind
        /\ \A h \in File : h # g => file'[h] = mid[h]
    BY <1>9, <1>12, <2>1, EntryCounted
  <2> QED
    BY <1>2, <1>9, <2>1, <2>2
<1>14. filp' = Pointed(Pointed(filp, t, d, f), t, e, g)
  BY <1>3 DEF Pointed
<1>15. /\ filp' \in Tables
       /\ \A u \in Task \ {t} : filp'[u] = filp[u]
       /\ filp'[t][d] = f /\ filp'[t][e] = g
       /\ \A c \in Fd : c # d /\ c # e => filp'[t][c] = filp[t][c]
  <2> DEFINE half == Pointed(filp, t, d, f)
  <2>1. /\ half \in Tables
        /\ \A u \in Task \ {t} : half[u] = filp[u]
        /\ \A c \in Fd : half[t][c] = IF c = d THEN f ELSE filp[t][c]
    BY <1>2, <1>8, <1>9, DescriptorChanged
  <2> HIDE DEF half
  <2>2. filp' = Pointed(half, t, e, g)
    BY <1>14 DEF half
  <2>3. /\ filp' \in Tables
        /\ \A u \in Task \ {t} : filp'[u] = half[u]
        /\ \A c \in Fd : filp'[t][c] = IF c = e THEN g ELSE half[t][c]
    BY <1>2, <1>9, <2>1, <2>2, DescriptorChanged
  <2>4. d # e
    BY <1>2, AllFinite
  <2> QED
    BY <1>2, <2>1, <2>3, <2>4
<1>16. TypeInv'
  BY <1>1, <1>8, <1>13, <1>15 DEF TypeInv
<1>17. d # e
  BY <1>2, AllFinite
<1>18. CountInv'
  <2>1. ASSUME NEW h \in File
        PROVE  /\ file'[h].count = file[h].count - Is(filp[t][d], h) + Is(f, h)
                                                 - Is(filp[t][e], h) + Is(g, h)
               /\ file'[h].count = 0 => file'[h].kind = ""
    <3>1. file[h].count = 0 => file[h].kind = ""
      BY DEF FilesInv, CountInv
    <3>2. file[h].count \in Int /\ None # h
      BY <1>8, AllFinite DEF FileTable
    <3>3. Is(filp[t][d], h) = 0 /\ Is(filp[t][e], h) = 0
      BY <1>2, <3>2 DEF Is
    <3>4. CASE h = f
      <4>1. Is(f, h) = 1 /\ Is(g, h) = 0
        BY <1>2, <3>4 DEF Is
      <4>2. file'[h].count = 1 /\ file[h].count = 0
        BY <1>10, <1>13, <3>4
      <4> QED
        BY <3>3, <4>1, <4>2
    <3>5. CASE h = g
      <4>1. Is(f, h) = 0 /\ Is(g, h) = 1
        BY <1>2, <3>5 DEF Is
      <4>2. file'[h].count = 1 /\ file[h].count = 0
        BY <1>10, <1>13, <3>5
      <4> QED
        BY <3>3, <4>1, <4>2
    <3>6. CASE h # f /\ h # g
      <4>1. Is(f, h) = 0 /\ Is(g, h) = 0
        BY <3>6 DEF Is
      <4>2. file'[h] = file[h]
        BY <1>13, <3>6
      <4>3. file'[h].count = file[h].count - Is(filp[t][d], h) + Is(f, h)
                                           - Is(filp[t][e], h) + Is(g, h)
        BY <3>2, <3>3, <4>1, <4>2
      <4> QED
        BY <3>1, <4>2, <4>3
    <3> QED
      BY <3>4, <3>5, <3>6
  <2>2. \A h \in File :
          file'[h].count = file[h].count - Is(filp[t][d], h) + Is(f, h)
                                         - Is(filp[t][e], h) + Is(g, h)
    BY <2>1
  <2>4. \A h \in File : Freed(file', h)
    BY <2>1 DEF Freed
  <2>3. f \in File \cup {None} /\ g \in File \cup {None}
    BY <1>9
  <2> QED
    BY <1>2, <1>14, <1>17, <2>2, <2>3, <2>4, CountsStep
<1>19. InodeInv' /\ PipeInv'
  BY <1>1, <1>3, <1>6, <1>13, InodesSame
<1>20. \A u \in Task \ {t}, c \in Fd : filp[u][c] # None => Allowed(file, file', filp[u][c])
  <2>1. \A u \in Task \ {t}, c \in Fd : filp[u][c] \notin {f, g}
    BY <1>9
  <2>2. \A h \in File \ {f, g} : file'[h] = file[h]
    BY <1>13
  <2> QED
    BY <2>1, <2>2, OthersAllowed
<1>21. Fits(t, q, filp'[t], cloexec'[t], file')
  <2>1. r[t].fd = {} /\ r[t].next # "leave"
    BY <1>1, <1>4 DEF Sound, Opening
  <2>2. f # None /\ g # None
    BY <1>9, AllFinite
  <2>3. \A c \in q.fd : filp'[t][c] # None /\ file'[filp'[t][c]].count = 1
    BY <1>6, <1>13, <1>15, <2>2
  <2>4. \A c \in q.fd : file'[filp'[t][c]].kind = ""
    BY <1>6, <1>9, <1>11, <1>13, <1>15
  <2>5. ASSUME NEW c \in Fd \ q.fd, filp'[t][c] # None
        PROVE  file'[filp'[t][c]].kind # ""
    <3>1. filp'[t][c] = filp[t][c]
      BY <1>6, <1>15
    <3>2. filp[t][c] \in File
      BY <1>8, <2>5, <3>1 DEF Tables
    <3>3. file[filp[t][c]].kind # ""
      BY <1>4, <2>1, <2>5, <3>1 DEF Fits, HasInode
    <3> QED
      BY <1>13, <3>1, <3>2, <3>3
  <2>6. ASSUME NEW c \in cloexec[t]
        PROVE  filp'[t][c] # None /\ c \notin q.fd
    <3>1. c \in Fd /\ filp[t][c] # None
      BY <1>4, <1>8 DEF Fits, HasInode, Marks
    <3>2. c # d /\ c # e
      BY <1>2, <3>1
    <3> QED
      BY <1>6, <1>15, <3>1, <3>2
  <2> QED
    BY <1>1, <1>4, <1>6, <2>1, <2>3, <2>4, <2>5, <2>6 DEF Fits, HasInode
<1> QED
  BY <1>1, <1>3, <1>6, <1>7, <1>15, <1>16, <1>18, <1>19, <1>20, <1>21, TableStep

\* get_pipe_inode is given two descriptors that lead to two files.
LEMMA GetPipeFacts ==
  ASSUME FilesInv, NEW t \in Task, At(t, "get_pipe_inode")
  PROVE  LET d == Two(r[t].fd)[1]
             e == Two(r[t].fd)[2]
             f == filp[t][d]
             g == filp[t][e]
         IN /\ d \in Fd /\ e \in Fd /\ d # e /\ r[t].fd = {d, e}
            /\ f \in File /\ g \in File /\ f # g
            /\ file[f].count = 1 /\ file[g].count = 1
            /\ file[f].kind = "" /\ file[g].kind = ""
<1>1. Sound(r[t]) /\ Fits(t, r[t], filp[t], cloexec[t], file)
  BY Facts
<1>2. PICK d \in Fd, e \in Fd : d < e /\ r[t].fd = {d, e}
  BY <1>1 DEF At, Sound
<1>3. Two(r[t].fd)[1] = d /\ Two(r[t].fd)[2] = e /\ d # e
  <2>1. d \in Nat /\ e \in Nat
    BY AllFinite
  <2>2. Two({d, e}) = <<d, e>>
    BY <1>2, <2>1, TwoOfAPair
  <2> QED
    BY <1>2, <2>1, <2>2
<1>4. \A c \in {d, e} : filp[t][c] # None /\ file[filp[t][c]].count = 1
  BY <1>1, <1>2 DEF Fits, HasInode
<1>5. \A c \in {d, e} : file[filp[t][c]].kind = ""
  BY <1>1, <1>2 DEF Fits, HasInode
<1>6. filp[t][d] \in File /\ filp[t][e] \in File
  BY <1>4, CountFacts
<1>7. filp[t][d] # filp[t][e]
  <2>1. file[filp[t][d]].count = 1 =>
          \A u \in Task, c \in Fd : filp[u][c] = filp[t][d] => u = t /\ c = d
    BY <1>4, CountFacts
  <2>2. file[filp[t][d]].count = 1
    BY <1>4
  <2> QED
    BY <1>3, <2>1, <2>2
<1>8. /\ file[filp[t][d]].count = 1 /\ file[filp[t][e]].count = 1
  BY <1>4
<1>9. /\ file[filp[t][d]].kind = "" /\ file[filp[t][e]].kind = ""
  BY <1>5
<1> QED
  BY <1>2, <1>3, <1>6, <1>7, <1>8, <1>9

\* The entry of a file that is being opened.
Fresh(f) == file[f].count = 1 /\ file[f].kind = ""

\* The two entries have got the inode of the pipe.
Ended(tab, f, g) == [tab EXCEPT ![f].kind = "read", ![g].kind = "write"]

\* The counts of both entries and all other entries are as before.
LEMMA EntriesEnded ==
  ASSUME NEW tab \in FileTable, NEW f \in File, NEW g \in File, f # g
  PROVE  /\ Ended(tab, f, g) \in FileTable
         /\ Ended(tab, f, g)[f].count = tab[f].count
         /\ Ended(tab, f, g)[g].count = tab[g].count
         /\ \A h \in File : h # f /\ h # g => Ended(tab, f, g)[h] = tab[h]
<1>1. "read" \in Kind /\ "write" \in Kind
  BY DEF Kind
<1> QED
  BY <1>1 DEF FileTable, Ended

\* They are the two ends.
LEMMA EndsNamed ==
  ASSUME NEW tab \in FileTable, NEW f \in File, NEW g \in File, f # g
  PROVE  Ended(tab, f, g)[f].kind = "read" /\ Ended(tab, f, g)[g].kind = "write"
<1>1. tab[f] \in [count : Int, kind : Kind] /\ tab[g] \in [count : Int, kind : Kind]
  BY DEF FileTable
<1> QED
  BY <1>1 DEF FileTable, Ended

\* They are free again.
LEMMA TwoDropped ==
  ASSUME NEW tab \in FileTable, NEW f \in File, NEW g \in File, f # g
  PROVE  [tab EXCEPT ![f] = Unused, ![g] = Unused] = Dropped(Dropped(tab, f), g)
BY DEF FileTable, Dropped

\* With the inode: two more ends of the pipe, which had none.
LEMMA EndsCounted ==
  ASSUME NEW tab, NEW new, NEW f \in File, NEW g \in File, f # g,
         Cardinality(OfKind(tab, PipeEnds)) = 0,
         new[f].kind \in PipeEnds, new[g].kind \in PipeEnds,
         \A h \in File : h # f /\ h # g => new[h] = tab[h]
  PROVE  Cardinality(OfKind(new, PipeEnds)) = 2
<1>1. OfKind(tab, PipeEnds) = {}
  BY OfKindFinite, FS_EmptySet
<1>2. OfKind(new, PipeEnds) = {f} \cup {g}
  <2>1. ASSUME NEW h \in File, h # f, h # g
        PROVE  h \notin OfKind(new, PipeEnds)
    <3>1. new[h] = tab[h]
      BY <2>1
    <3>2. h \notin OfKind(tab, PipeEnds)
      BY <1>1
    <3> QED
      BY <2>1, <3>1, <3>2 DEF OfKind
  <2>2. f \in OfKind(new, PipeEnds) /\ g \in OfKind(new, PipeEnds)
    BY DEF OfKind
  <2>3. OfKind(new, PipeEnds) \subseteq File
    BY DEF OfKind
  <2> QED
    BY <2>1, <2>2, <2>3
<1>3. IsFiniteSet({f}) /\ Cardinality({f}) = 1
  BY FS_Singleton
<1>4. Cardinality({f} \cup {g}) = Cardinality({f}) + 1
  BY <1>3, FS_AddElement
<1> QED
  BY <1>2, <1>3, <1>4

\* A new pipe is empty.
NewPipe == [NoPipe EXCEPT !.count = 2]

\* Its ring is empty, and it has two ends.
LEMMA NewPipeIsWhole ==
  NewPipe.count = 2 /\ Whole(NewPipe)
<1>1. NewPipe \in [count : {NewPipe.count}, head : {NewPipe.head},
                   tail : {NewPipe.tail}, buf : {NewPipe.buf}, untold : {NewPipe.untold}]
  BY DEF NewPipe, NoPipe
<1>2. NewPipe.count = 2 /\ NewPipe.head = 0 /\ NewPipe.tail = 0
  BY DEF NewPipe, NoPipe
<1>3. NewPipe.head \in 0 .. PAGE_SIZE - 1 /\ NewPipe.tail \in 0 .. PAGE_SIZE - 1
  BY <1>2, FilesAssumption
<1> QED
  BY <1>1, <1>2, <1>3 DEF Whole

\* sys_pipe with an inode: both entries become ends of the pipe.
LEMMA GotPipeStep ==
  ASSUME FilesInv, NEW t \in Task, r[t].pc = "get_pipe_inode", Set(t, Registers),
         NEW d \in Fd, NEW e \in Fd, d # e, r[t].fd = {d, e},
         NEW f \in File, NEW g \in File, f # g, filp[t][d] = f, filp[t][e] = g,
         Fresh(f), Fresh(g),
         UNCHANGED <<cloexec, inodes, filp>>, pipe.count = 0, pipe' = NewPipe,
         file' = Ended(file, f, g)
  PROVE  FilesInv'
<1>1. d \in Fd /\ e \in Fd /\ f \in File /\ g \in File /\ f # g
  OBVIOUS
<1>2. file[f].count = 1 /\ file[g].count = 1
  BY DEF Fresh
<1>3. file[f].kind = "" /\ file[g].kind = ""
  BY DEF Fresh
<1>4. {f, g} = {filp[t][c] : c \in r[t].fd}
  OBVIOUS
<1>5. file' = Ended(file, f, g)
  OBVIOUS
<1>6. r[t].pc = "get_pipe_inode" /\ r[t].keeps = 3
  <2>1. Sound(r[t])
    BY Facts
  <2> QED
    BY <2>1 DEF Sound
<1>7. Registers.pc = "user" /\ Registers.keeps = 3
  BY DEF Registers
<1>8. /\ file \in FileTable /\ filp \in Tables /\ inodes \in Int
      /\ RegisterInv /\ InodeInv /\ PipeInv /\ SleepersMustWait /\ CountInv
  BY DEF FilesInv, TypeInv
<1>9. /\ file' \in FileTable
      /\ file'[f].count = 1 /\ file'[g].count = 1
      /\ \A h \in File : h # f /\ h # g => file'[h] = file[h]
  <2>1. file \in FileTable
    BY <1>8
  <2>2. /\ Ended(file, f, g) \in FileTable
        /\ Ended(file, f, g)[f].count = file[f].count
        /\ Ended(file, f, g)[g].count = file[g].count
        /\ \A h \in File : h # f /\ h # g => Ended(file, f, g)[h] = file[h]
    BY ONLY f \in File, g \in File, f # g, <2>1, EntriesEnded
  <2>3. /\ file' \in FileTable
        /\ file'[f].count = file[f].count /\ file'[g].count = file[g].count
        /\ \A h \in File : h # f /\ h # g => file'[h] = file[h]
    BY <1>5, <2>2, Zenon
  <2> QED
    BY <1>2, <2>3
<1>10. file'[f].kind = "read" /\ file'[g].kind = "write"
  <2>1. file \in FileTable
    BY <1>8
  <2>2. Ended(file, f, g)[f].kind = "read" /\ Ended(file, f, g)[g].kind = "write"
    BY <1>1, <2>1, EndsNamed
  <2> QED
    BY <1>5, <2>2, Zenon
<1>11. pipe'.count = 2 /\ Whole(pipe')
  BY NewPipeIsWhole
<1>12. CountInv'
  <2>1. ASSUME NEW h \in File
        PROVE  /\ file'[h].count = file[h].count
               /\ file'[h].count = 0 => file'[h].kind = ""
    <3>1. file[h].count = 0 => file[h].kind = ""
      BY <1>8 DEF CountInv
    <3>2. CASE h = f
      <4>1. file'[h].count = 1 /\ file[h].count = 1
        BY <1>2, <1>9, <3>2
      <4> QED
        BY <4>1
    <3>3. CASE h = g
      <4>1. file'[h].count = 1 /\ file[h].count = 1
        BY <1>2, <1>9, <3>3
      <4> QED
        BY <4>1
    <3>4. CASE h # f /\ h # g
      BY <1>9, <3>1, <3>4
    <3> QED
      BY <3>2, <3>3, <3>4
  <2> QED
    BY <1>8, <2>1 DEF CountInv
<1>13. InodeInv'
  <2>1. OfKind(file', Plain) = OfKind(file, Plain)
    <3>1. ASSUME NEW h \in File
          PROVE  file'[h].kind \in Plain <=> file[h].kind \in Plain
      <4>1. CASE h = f
        BY <1>3, <1>10, <4>1 DEF Plain
      <4>2. CASE h = g
        BY <1>3, <1>10, <4>2 DEF Plain
      <4>3. CASE h # f /\ h # g
        BY <1>9, <4>3
      <4> QED
        BY <4>1, <4>2, <4>3
    <3> QED
      BY <3>1 DEF OfKind
  <2>2. Cardinality(OfKind(file', Plain)) = Cardinality(OfKind(file, Plain)) + 0
    BY <2>1, OfKindFinite
  <2>3. inodes' = inodes + 0 - (IF r[t].pc = "iput" THEN 1 ELSE 0)
                             + (IF Registers.pc = "iput" THEN 1 ELSE 0)
    BY <1>6, <1>7, <1>8
  <2>4. 0 \in Int
    OBVIOUS
  <2> QED
    BY <1>6, <1>7, <1>8, <2>2, <2>3, <2>4, InodeStep
<1>14. PipeInv'
  <2>1. Cardinality(OfKind(file, PipeEnds)) = 0
    BY <1>8 DEF PipeInv
  <2>2. file'[f].kind \in PipeEnds /\ file'[g].kind \in PipeEnds
    BY <1>10 DEF PipeEnds
  <2>3. Cardinality(OfKind(file', PipeEnds)) = 2
    <3>1. \A h \in File : h # f /\ h # g => file'[h] = file[h]
      BY <1>9
    <3> QED
      BY <1>1, <2>1, <2>2, <3>1, EndsCounted
  <2> QED
    BY <1>11, <2>3 DEF PipeInv
<1>15. SleepersMustWait'
  <2>1. \A u \in Task : r'[u] = IF u = t THEN Registers ELSE r[u]
    BY <1>8, RegisterStep
  <2>2. \A u \in Task : ~ At(u, "sleep_read") /\ ~ At(u, "sleep_write")
    BY <1>8 DEF SleepersMustWait
  <2>3. \A u \in Task : ~ At(u, "sleep_read")' /\ ~ At(u, "sleep_write")'
    BY <1>7, <2>1, <2>2 DEF At
  <2> QED
    BY <2>3 DEF SleepersMustWait
<1>16. /\ filp' \in Tables /\ inodes' \in Int /\ pipe'.count \in Int
  BY <1>8, <1>11
<1>17. \A c \in r[t].fd : filp'[t][c] # None => file'[filp'[t][c]].kind # ""
  BY <1>1, <1>10
<1>18. /\ \A h \in File \ {f, g} : file'[h] = file[h]
       /\ \A u \in Task \ {t} : filp'[u] = filp[u]
       /\ \A c \in Fd \ r[t].fd : filp'[t][c] = filp[t][c]
  BY <1>9
<1>19. UNCHANGED cloexec /\ r[t].pc \in Opening
  BY <1>6 DEF Opening
<1> QED
  BY <1>4, <1>9, <1>11, <1>12, <1>13, <1>14, <1>15, <1>16, <1>17, <1>18, <1>19, OpenedStep

\* Without it: both entries and both descriptors are free again.
LEMMA NoPipeStep ==
  ASSUME FilesInv, NEW t \in Task, r[t].pc = "get_pipe_inode", Set(t, Registers),
         NEW d \in Fd, NEW e \in Fd, d # e, r[t].fd = {d, e},
         NEW f \in File, NEW g \in File, f # g, filp[t][d] = f, filp[t][e] = g,
         Fresh(f), Fresh(g),
         UNCHANGED <<cloexec, inodes, pipe>>,
         file' = Dropped(Dropped(file, f), g),
         filp' = Pointed(Pointed(filp, t, d, None), t, e, None)
  PROVE  FilesInv'
<1> DEFINE mid == Dropped(file, f)
           half == Pointed(filp, t, d, None)
<1>1. d \in Fd /\ e \in Fd /\ d # e /\ r[t].fd = {d, e} /\ f \in File /\ g \in File /\ f # g
  OBVIOUS
<1>2. file[f].count = 1 /\ file[g].count = 1
  BY DEF Fresh
<1>3. file[f].kind = "" /\ file[g].kind = ""
  BY DEF Fresh
<1>5. /\ file \in FileTable /\ filp \in Tables /\ inodes \in Int /\ pipe.count \in Int
      /\ Whole(pipe) /\ RegisterInv /\ InodeInv /\ PipeInv /\ SleepersMustWait
  BY DEF FilesInv, TypeInv
<1>6. file' = Dropped(mid, g)
  OBVIOUS
<1>7. filp' = Pointed(half, t, e, None)
  OBVIOUS
<1>8. filp[t][d] = f /\ filp[t][e] = g
  OBVIOUS
<1>9. r[t].pc = "get_pipe_inode" /\ r[t].keeps = 3
  <2>1. Sound(r[t])
    BY Facts
  <2> QED
    BY <2>1 DEF Sound
<1>10. Registers.pc = "user" /\ Registers.keeps = 3
  BY DEF Registers
<1>30. /\ mid \in FileTable /\ mid[f].count = 0 /\ mid[f].kind = ""
       /\ \A h \in File : h # f => mid[h] = file[h]
  BY <1>1, <1>5, EntryDropped
<1>11. /\ mid \in FileTable /\ mid[f].count = 0
       /\ \A h \in File : h # f => mid[h] = file[h]
  BY <1>30
<1>12. mid[f].kind = ""
  BY <1>30
<1> HIDE DEF mid
<1>31. /\ file' \in FileTable /\ file'[g].count = 0 /\ file'[g].kind = ""
       /\ \A h \in File : h # g => file'[h] = mid[h]
  <2>1. /\ Dropped(mid, g) \in FileTable
        /\ Dropped(mid, g)[g].count = 0 /\ Dropped(mid, g)[g].kind = ""
        /\ \A h \in File : h # g => Dropped(mid, g)[h] = mid[h]
    BY <1>1, <1>11, EntryDropped
  <2> QED
    BY <1>6, <2>1, Zenon
<1>13. /\ file' \in FileTable /\ file'[g].count = 0
       /\ \A h \in File : h # g => file'[h] = mid[h]
  BY <1>31
<1>14. file'[g].kind = ""
  BY <1>31
<1>15. /\ file'[f].count = 0
       /\ \A h \in File : h # f /\ h # g => file'[h] = file[h]
  BY <1>1, <1>11, <1>13
<1>16. file'[f].kind = ""
  BY <1>1, <1>12, <1>13
<1>17. /\ filp' \in Tables
       /\ \A u \in Task \ {t} : filp'[u] = filp[u]
       /\ \A c \in Fd : c # d /\ c # e => filp'[t][c] = filp[t][c]
       /\ filp'[t][d] = None /\ filp'[t][e] = None
  <2>1. None \in File \cup {None}
    OBVIOUS
  <2>2. /\ half \in Tables
        /\ \A u \in Task \ {t} : half[u] = filp[u]
        /\ \A c \in Fd : half[t][c] = IF c = d THEN None ELSE filp[t][c]
    BY <1>1, <1>5, <2>1, DescriptorChanged
  <2> HIDE DEF half
  <2>3. /\ filp' \in Tables
        /\ \A u \in Task \ {t} : filp'[u] = half[u]
        /\ \A c \in Fd : filp'[t][c] = IF c = e THEN None ELSE half[t][c]
    BY <1>1, <1>7, <2>1, <2>2, DescriptorChanged
  <2> QED
    BY <1>1, <2>2, <2>3
<1>18. CountInv'
  <2>1. ASSUME NEW h \in File
        PROVE  /\ file'[h].count = file[h].count - Is(f, h) + Is(None, h)
                                                 - Is(g, h) + Is(None, h)
               /\ file'[h].count = 0 => file'[h].kind = ""
    <3>1. file[h].count = 0 => file[h].kind = ""
      BY DEF FilesInv, CountInv
    <3>2. file[h].count \in Int /\ None # h
      BY <1>5, AllFinite DEF FileTable
    <3>3. Is(None, h) = 0
      BY <3>2 DEF Is
    <3>4. CASE h = f
      <4>1. Is(f, h) = 1 /\ Is(g, h) = 0
        BY <1>1, <3>4 DEF Is
      <4>2. file'[h].count = 0 /\ file[h].count = 1
        BY <1>2, <1>15, <3>4
      <4>3. file'[h].kind = ""
        BY <1>16, <3>4
      <4>4. file'[h].count = file[h].count - Is(f, h) + Is(None, h) - Is(g, h) + Is(None, h)
        BY <3>3, <4>1, <4>2
      <4> QED
        BY <4>3, <4>4
    <3>5. CASE h = g
      <4>1. Is(f, h) = 0 /\ Is(g, h) = 1
        BY <1>1, <3>5 DEF Is
      <4>2. file'[h].count = 0 /\ file[h].count = 1
        BY <1>2, <1>13, <3>5
      <4>3. file'[h].kind = ""
        BY <1>14, <3>5
      <4>4. file'[h].count = file[h].count - Is(f, h) + Is(None, h) - Is(g, h) + Is(None, h)
        BY <3>3, <4>1, <4>2
      <4> QED
        BY <4>3, <4>4
    <3>6. CASE h # f /\ h # g
      <4>1. Is(f, h) = 0 /\ Is(g, h) = 0
        BY <3>6 DEF Is
      <4>2. file'[h] = file[h]
        BY <1>15, <3>6
      <4>3. file'[h].count = file[h].count - Is(f, h) + Is(None, h) - Is(g, h) + Is(None, h)
        BY <3>2, <3>3, <4>1, <4>2
      <4> QED
        BY <3>1, <4>2, <4>3
    <3> QED
      BY <3>4, <3>5, <3>6
  <2>2. \A h \in File :
          file'[h].count = file[h].count - Is(filp[t][d], h) + Is(None, h)
                                         - Is(filp[t][e], h) + Is(None, h)
    BY <1>8, <2>1
  <2>4. \A h \in File : Freed(file', h)
    BY <2>1 DEF Freed
  <2>3. None \in File \cup {None} /\ filp' = Pointed(Pointed(filp, t, d, None), t, e, None)
    BY <1>7
  <2> QED
    BY <1>1, <2>2, <2>3, <2>4, CountsStep
<1>19. InodeInv' /\ PipeInv'
  <2>1. \A h \in File : file'[h].kind = file[h].kind
    BY <1>3, <1>14, <1>15, <1>16
  <2>2. UNCHANGED <<inodes, pipe>>
    OBVIOUS
  <2> QED
    BY <1>9, <1>10, <2>1, <2>2, InodesSame
<1>20. SleepersMustWait'
  BY <1>5, <1>9, <1>10, SleepStep
<1>21. inodes' \in Int /\ pipe'.count \in Int /\ Whole(pipe')
  BY <1>5
<1>22. \A c \in r[t].fd : filp'[t][c] # None => file'[filp'[t][c]].kind # ""
  BY <1>1, <1>17
<1>23. /\ \A h \in File \ {f, g} : file'[h] = file[h]
       /\ \A u \in Task \ {t} : filp'[u] = filp[u]
       /\ \A c \in Fd \ r[t].fd : filp'[t][c] = filp[t][c]
  BY <1>1, <1>15, <1>17
<1>24. UNCHANGED cloexec /\ r[t].pc \in Opening
  BY <1>9 DEF Opening
<1>25. {f, g} = {filp[t][c] : c \in r[t].fd}
  BY <1>1, <1>8
<1> QED
  BY <1>13, <1>17, <1>18, <1>19, <1>20, <1>21, <1>22, <1>23, <1>24, <1>25, OpenedStep

\* get_pipe_inode has an inode for sys_pipe or has none.
LEMMA GetPipeStep ==
  ASSUME FilesInv, NEW t \in Task, get_pipe_inode(t)
  PROVE  FilesInv'
<1> DEFINE d == Two(r[t].fd)[1]
           e == Two(r[t].fd)[2]
           f == filp[t][d]
           g == filp[t][e]
<1>1. /\ At(t, "get_pipe_inode") /\ r[t].pc = "get_pipe_inode" /\ Set(t, Registers)
      /\ UNCHANGED <<cloexec, inodes>>
  BY DEF get_pipe_inode, At
<1>2. \/ /\ pipe.count = 0
         /\ pipe' = [NoPipe EXCEPT !.count = 2]
         /\ file' = [file EXCEPT ![f].kind = "read", ![g].kind = "write"]
         /\ UNCHANGED filp
      \/ /\ file' = [file EXCEPT ![f] = Unused, ![g] = Unused]
         /\ filp' = [filp EXCEPT ![t][d] = None, ![t][e] = None]
         /\ UNCHANGED pipe
  BY DEF get_pipe_inode
<1>3. /\ d \in Fd /\ e \in Fd /\ d # e /\ r[t].fd = {d, e}
      /\ f \in File /\ g \in File /\ f # g
  BY <1>1, GetPipeFacts
<1>4. Fresh(f) /\ Fresh(g)
  <2>1. file[f].count = 1 /\ file[g].count = 1
    BY <1>1, GetPipeFacts
  <2>2. file[f].kind = "" /\ file[g].kind = ""
    BY <1>1, GetPipeFacts
  <2> QED
    BY <2>1, <2>2 DEF Fresh
<1>5. filp[t][d] = f /\ filp[t][e] = g
  OBVIOUS
<1> HIDE DEF d, e, f, g
<1>6. CASE /\ pipe.count = 0
           /\ pipe' = [NoPipe EXCEPT !.count = 2]
           /\ file' = [file EXCEPT ![f].kind = "read", ![g].kind = "write"]
           /\ UNCHANGED filp
  <2>1. file' = Ended(file, f, g) /\ pipe' = NewPipe
    BY <1>6 DEF Ended, NewPipe
  <2>2. UNCHANGED <<cloexec, inodes, filp>> /\ pipe.count = 0
    BY <1>1, <1>6
  <2> QED
    BY <1>1, <1>3, <1>4, <1>5, <2>1, <2>2, GotPipeStep
<1>7. CASE /\ file' = [file EXCEPT ![f] = Unused, ![g] = Unused]
           /\ filp' = [filp EXCEPT ![t][d] = None, ![t][e] = None]
           /\ UNCHANGED pipe
  <2>1. file' = Dropped(Dropped(file, f), g)
    <3>1. file \in FileTable
      BY DEF FilesInv, TypeInv
    <3> QED
      BY <1>3, <1>7, <3>1, TwoDropped
  <2>2. filp' = Pointed(Pointed(filp, t, d, None), t, e, None)
    BY <1>7 DEF Pointed
  <2>3. UNCHANGED <<cloexec, inodes, pipe>>
    BY <1>1, <1>7
  <2> QED
    BY <1>1, <1>3, <1>4, <1>5, <2>1, <2>2, <2>3, NoPipeStep
<1> QED
  BY <1>2, <1>6, <1>7

-----------------------------------------------------------------------------
(* dup, dup2 and fork                                                      *)

\* dupfd: one more descriptor leads to a file that has its inode.
LEMMA DuplicateStep ==
  ASSUME FilesInv, NEW t \in Task, r[t].pc \in {"user", "dupfd"},
         NEW q, Set(t, q), Sound(q), q.pc = "user", q.next # "leave",
         UNCHANGED <<inodes, pipe>>,
         NEW d \in Fd, NEW from \in Fd, Duplicate(t, d, from)
  PROVE  FilesInv'
<1> DEFINE e == Min(FreeFds(t, from))
           f == filp[t][d]
<1>1. Sound(r[t]) /\ Fits(t, r[t], filp[t], cloexec[t], file)
  BY Facts
<1>2. r[t].fd = {} /\ q.fd = {} /\ q.keeps = 3 /\ r[t].next # "leave" /\ r[t].keeps = 3
  BY <1>1 DEF Sound, Opening
<1>3. /\ file \in FileTable /\ filp \in Tables /\ cloexec \in Marks /\ inodes \in Int
      /\ pipe.count \in Int /\ Whole(pipe)
  BY DEF FilesInv, TypeInv
<1>4. CASE f = None \/ FreeFds(t, from) = {}
  <2>1. UNCHANGED <<table, pipe>>
    BY <1>4 DEF Duplicate
  <2>2. Fits(t, q, filp[t], cloexec[t], file)
    BY <1>1, <1>2 DEF Fits, HasInode
  <2>3. inodes' = inodes - (IF r[t].pc = "iput" THEN 1 ELSE 0)
                         + (IF q.pc = "iput" THEN 1 ELSE 0)
    BY <1>3
  <2> QED
    BY <1>2, <2>1, <2>2, <2>3, FrameStep
<1>5. CASE f # None /\ FreeFds(t, from) # {}
  <2>1. /\ filp' = [filp EXCEPT ![t][e] = f]
        /\ file' = [file EXCEPT ![f].count = @ + 1]
        /\ cloexec' = [cloexec EXCEPT ![t] = @ \ {e}]
    BY <1>5 DEF Duplicate
  <2>2. e \in Fd /\ filp[t][e] = None
    BY <1>5, FreeFdFacts
  <2>3. f \in File /\ file[f].count \in Nat \ {0}
    BY <1>5, CountFacts
  <2>4. filp[t][d] = f
    OBVIOUS
  <2> HIDE DEF e, f
  <2> DEFINE new == Counted(file, f, file[f].count + 1)
  <2>4a. /\ new \in FileTable
         /\ new[f].count = file[f].count + 1 /\ new[f].kind = file[f].kind
         /\ \A g \in File : g # f => new[g] = file[g]
    <3>1. file[f].count + 1 \in Int /\ f \in File /\ file \in FileTable
      BY <1>3, <2>3
    <3> QED
      BY <3>1, EntryCounted
  <2>4b. file' = new
    BY <2>1 DEF Counted
  <2> HIDE DEF new
  <2>5. /\ file' \in FileTable /\ file'[f].count = file[f].count + 1
        /\ \A g \in File : g # f => file'[g] = file[g]
    BY <2>4a, <2>4b, Zenon
  <2>6. file'[f].kind = file[f].kind
    BY <2>4a, <2>4b, Zenon
  <2>7. \A g \in File : file'[g].kind = file[g].kind
    BY <2>5, <2>6
  <2>8. filp' = Pointed(filp, t, e, f) /\ f \in File \cup {None}
    BY <2>1, <2>3 DEF Pointed
  <2>9. /\ filp' \in Tables
        /\ \A u \in Task \ {t} : filp'[u] = filp[u]
        /\ \A c \in Fd : filp'[t][c] = IF c = e THEN f ELSE filp[t][c]
    BY <1>3, <2>2, <2>8, DescriptorChanged
  <2>10. /\ cloexec' \in Marks
         /\ \A u \in Task \ {t} : cloexec'[u] = cloexec[u]
         /\ cloexec'[t] = cloexec[t] \ {e}
    BY <1>3, <2>1 DEF Marks
  <2>11. TypeInv'
    BY <1>3, <2>5, <2>9, <2>10 DEF TypeInv
  <2>12. CountInv'
    <3>1. ASSUME NEW g \in File
          PROVE  /\ file'[g].count = file[g].count - Is(filp[t][e], g) + Is(f, g)
                 /\ file'[g].count = 0 => file'[g].kind = ""
      <4>1. file[g].count = 0 => file[g].kind = ""
        BY DEF FilesInv, CountInv
      <4>2. Is(filp[t][e], g) = 0
        BY <2>2, AllFinite DEF Is
      <4>3. CASE g = f
        <5>1. Is(f, g) = 1
          BY <4>3 DEF Is
        <5>2. file'[g].count = file[g].count - Is(filp[t][e], g) + Is(f, g)
          BY <2>3, <2>5, <4>2, <4>3, <5>1
        <5>3. file'[g].count # 0
          BY <2>3, <2>5, <4>3
        <5> QED
          BY <5>2, <5>3
      <4>4. CASE g # f
        <5>1. Is(f, g) = 0
          BY <4>4 DEF Is
        <5>2. file[g].count \in Int /\ file'[g] = file[g]
          BY <1>3, <2>5, <4>4 DEF FileTable
        <5>3. file'[g].count = file[g].count - Is(filp[t][e], g) + Is(f, g)
          BY <4>2, <5>1, <5>2
        <5> QED
          BY <4>1, <5>2, <5>3
      <4> QED
        BY <4>3, <4>4
    <3> QED
      BY <2>2, <2>8, <3>1, CountStep
  <2>13. InodeInv' /\ PipeInv'
    <3>1. UNCHANGED <<inodes, pipe>> /\ q.keeps = r[t].keeps /\ r[t].pc # "iput" /\ q.pc # "iput"
      BY <1>2
    <3> QED
      BY <2>7, <3>1, InodesSame
  <2>14. file[f].kind # ""
    BY <1>1, <1>2, <1>5, <2>4 DEF Fits, HasInode
  <2>15. \A u \in Task \ {t}, c \in Fd : filp[u][c] # None => Allowed(file, file', filp[u][c])
    <3>1. ASSUME NEW g \in File
          PROVE  Allowed(file, file', g)
      <4>1. CASE g = f
        BY <2>6, <2>14, <4>1 DEF Allowed
      <4>2. CASE g # f
        BY <2>5, <4>2 DEF Allowed
      <4> QED
        BY <4>1, <4>2
    <3>2. \A u \in Task, c \in Fd : filp[u][c] # None => filp[u][c] \in File
      BY <1>3 DEF Tables
    <3> QED
      BY <3>1, <3>2
  <2>16. Fits(t, q, filp'[t], cloexec'[t], file')
    <3>1. ASSUME NEW c \in Fd, filp'[t][c] # None
          PROVE  file'[filp'[t][c]].kind # ""
      <4>1. CASE c = e
        BY <2>2, <2>6, <2>9, <2>14, <4>1
      <4>2. CASE c # e
        <5>1. filp'[t][c] = filp[t][c] /\ filp[t][c] # None
          BY <2>9, <3>1, <4>2
        <5>2. filp[t][c] \in File
          BY <1>3, <5>1 DEF Tables
        <5>3. file[filp[t][c]].kind # ""
          BY <1>1, <1>2, <5>1 DEF Fits, HasInode
        <5> QED
          BY <2>7, <5>1, <5>2, <5>3
      <4> QED
        BY <4>1, <4>2
    <3>2. \A c \in cloexec[t] : c \in Fd /\ filp[t][c] # None
      BY <1>1, <1>3 DEF Fits, HasInode, Marks
    <3>3. \A c \in cloexec'[t] : filp'[t][c] # None
      BY <2>9, <2>10, <3>2
    <3> QED
      BY <1>2, <3>1, <3>3 DEF Fits, HasInode
  <2>17. r[t].pc \notin {"put_fs_byte", "get_fs_byte"} /\ q.pc \notin {"sleep_read", "sleep_write"}
    OBVIOUS
  <2>18. \A u \in Task \ {t} : filp'[u] = filp[u] /\ cloexec'[u] = cloexec[u]
    BY <2>9, <2>10
  <2> QED
    BY <2>11, <2>12, <2>13, <2>15, <2>16, <2>17, <2>18, TableStep
<1> QED
  BY <1>4, <1>5

\* sys_dup and F_DUPFD.
LEMMA DupStep ==
  ASSUME FilesInv, NEW t \in Task, sys_dup(t)
  PROVE  FilesInv'
<1>1. /\ r[t].pc = "user" /\ UNCHANGED <<inodes, pipe, r>>
  BY DEF sys_dup, Calls, At
<1>2. PICK d \in Open(t), from \in Fd : Duplicate(t, d, from)
  BY DEF sys_dup
<1>3. d \in Fd
  BY DEF Open
<1>4. Set(t, r[t])
  BY <1>1, SameRegisters
<1>5. Sound(r[t]) /\ r[t].next # "leave"
  <2>1. Sound(r[t])
    BY Facts
  <2> QED
    BY <1>1, <2>1 DEF Sound
<1> QED
  BY <1>1, <1>2, <1>3, <1>4, <1>5, DuplicateStep

\* sys_dup2 after the new descriptor was closed.
LEMMA DupfdStep ==
  ASSUME FilesInv, NEW t \in Task, dupfd(t)
  PROVE  FilesInv'
<1>1. /\ r[t].pc = "dupfd" /\ Set(t, Registers) /\ UNCHANGED <<inodes, pipe>>
      /\ Duplicate(t, r[t].old, r[t].new)
  BY DEF dupfd, At
<1>2. r[t].old \in Fd /\ r[t].new \in Fd
  <2>1. Sound(r[t])
    BY Facts
  <2> QED
    BY <1>1, <2>1 DEF Sound
<1>3. Sound(Registers) /\ Registers.pc = "user" /\ Registers.next # "leave"
  <2>1. Registers.pc = "user" /\ Registers.next # "leave"
    BY DEF Registers
  <2> QED
    BY <2>1, RegistersSound
<1> QED
  BY <1>1, <1>2, <1>3, DuplicateStep

\* The child keeps three references more.
LEMMA KeptMore ==
  ASSUME NEW tab, NEW new, NEW t \in Task, tab[t].keeps = 0, new[t].keeps = 3,
         \A u \in Task \ {t} : new[u].keeps = tab[u].keeps
  PROVE  Cardinality(Kept(new)) = Cardinality(Kept(tab)) + 3
<1> DEFINE m(k) == [u \in Task |-> [keeps |-> IF u = t THEN k ELSE tab[u].keeps]]
<1>1. \A k : m(k)[t].keeps = k /\ \A u \in Task \ {t} : m(k)[u].keeps = tab[u].keeps
  OBVIOUS
<1> HIDE DEF m
<1>2. Kept(m(3)) = Kept(new)
  <2>1. \A u \in Task : m(3)[u].keeps = new[u].keeps
    BY <1>1
  <2> QED
    BY <2>1, KeptSame
<1>3. Kept(m(0)) = Kept(tab)
  <2>1. \A u \in Task : m(0)[u].keeps = tab[u].keeps
    BY <1>1
  <2> QED
    BY <2>1, KeptSame
<1>4. ASSUME NEW k \in 1 .. 3
      PROVE  Cardinality(Kept(m(k - 1))) = Cardinality(Kept(m(k))) - 1
  <2>1. m(k)[t].keeps = k /\ m(k - 1)[t].keeps = k - 1
    BY <1>1
  <2>2. \A u \in Task \ {t} : m(k - 1)[u].keeps = m(k)[u].keeps
    BY <1>1
  <2>3. m(k)[t].keeps \in 1 .. 3 /\ m(k - 1)[t].keeps = m(k)[t].keeps - 1
    BY <2>1
  <2> QED
    BY <2>2, <2>3, KeptLess
<1>5. Cardinality(Kept(m(2))) = Cardinality(Kept(m(3))) - 1
  <2>1. 3 \in 1 .. 3 /\ 3 - 1 = 2
    OBVIOUS
  <2> QED
    BY <1>4, <2>1
<1>6. Cardinality(Kept(m(1))) = Cardinality(Kept(m(2))) - 1
  <2>1. 2 \in 1 .. 3 /\ 2 - 1 = 1
    OBVIOUS
  <2> QED
    BY <1>4, <2>1
<1>7. Cardinality(Kept(m(0))) = Cardinality(Kept(m(1))) - 1
  <2>1. 1 \in 1 .. 3 /\ 1 - 1 = 0
    OBVIOUS
  <2> QED
    BY <1>4, <2>1
<1>8. Cardinality(Kept(m(3))) \in Nat
  BY CountsOfTasks
<1> QED
  BY <1>2, <1>3, <1>5, <1>6, <1>7, <1>8

\* How many descriptors of a task lead to a file.
Mine(t, f) == Cardinality({d \in Fd : filp[t][d] = f})

\* It is a number, zero if none does.
LEMMA MineFacts ==
  ASSUME NEW t \in Task, NEW f
  PROVE  /\ Mine(t, f) \in Nat
         /\ (\A d \in Fd : filp[t][d] # f) => Mine(t, f) = 0
<1> DEFINE D == {d \in Fd : filp[t][d] = f}
<1>1. IsFiniteSet(D)
  <2>1. D \subseteq Fd
    OBVIOUS
  <2> HIDE DEF D
  <2> QED
    BY <2>1, AllFinite, FS_Subset
<1>2. Cardinality(D) \in Nat
  BY <1>1, FS_CardinalityType
<1>3. (\A d \in Fd : filp[t][d] # f) => Cardinality(D) = 0
  BY FS_EmptySet
<1> QED
  BY <1>2, <1>3 DEF Mine

\* copy_process counts the descriptors of the child, and leaves the kinds.
LEMMA InheritedFacts ==
  ASSUME file \in FileTable, NEW t \in Task
  PROVE  /\ Inherited(t) \in FileTable
         /\ \A f \in File : Inherited(t)[f].count = file[f].count + Mine(t, f)
         /\ \A f \in File : Inherited(t)[f].kind = file[f].kind
<1>1. \A f \in File : file[f].count + Mine(t, f) \in Int
  <2>1. \A f \in File : file[f].count \in Int /\ Mine(t, f) \in Nat
    BY MineFacts DEF FileTable
  <2> QED
    BY <2>1
<1>2. Inherited(t) = [f \in File |-> [file[f] EXCEPT !.count = file[f].count + Mine(t, f)]]
  BY DEF Inherited, Mine
<1> DEFINE n(f) == file[f].count + Mine(t, f)
<1>3. \A f \in File : n(f) \in Int
  BY <1>1
<1>4. Inherited(t) = [f \in File |-> [file[f] EXCEPT !.count = n(f)]]
  BY <1>2
<1>5. \A f \in File : n(f) = file[f].count + Mine(t, f)
  OBVIOUS
<1> HIDE DEF n
<1>6. ASSUME NEW f \in File
      PROVE  /\ Inherited(t)[f] \in [count : Int, kind : Kind]
             /\ Inherited(t)[f].count = n(f) /\ Inherited(t)[f].kind = file[f].kind
  BY <1>3, <1>4 DEF FileTable
<1>7. Inherited(t) \in FileTable
  <2>1. Inherited(t) = [f \in File |-> Inherited(t)[f]]
    BY <1>4
  <2> QED
    BY <1>6, <2>1 DEF FileTable
<1> QED
  BY <1>5, <1>6, <1>7

\* copy_process finds a slot that is free.
LEMMA FreeTaskFacts ==
  ASSUME FreeTasks # {}
  PROVE  Min(FreeTasks) \in Task /\ r[Min(FreeTasks)].pc = "absent"
<1>1. FreeTasks \subseteq Task
  BY DEF FreeTasks
<1>2. FreeTasks \in SUBSET Nat
  BY <1>1, AllFinite
<1>3. Min(FreeTasks) \in FreeTasks
  BY <1>2, MinIsLeast
<1> QED
  BY <1>3 DEF FreeTasks, At

\* A file that has no inode.
Kindless(tab, f) == tab[f].kind = ""

\* sys_fork: the child has what the task has.
LEMMA ForkStep ==
  ASSUME FilesInv, NEW t \in Task, sys_fork(t)
  PROVE  FilesInv'
<1> DEFINE u == Min(FreeTasks)
<1>1. r[t].pc = "user" /\ FreeTasks # {} /\ UNCHANGED pipe
  BY DEF sys_fork, Calls, At
<1>2. u \in Task /\ r[u].pc = "absent" /\ u # t
  BY <1>1, FreeTaskFacts
<1>3. /\ filp' = [filp EXCEPT ![u] = filp[t]]
      /\ cloexec' = [cloexec EXCEPT ![u] = cloexec[t]]
      /\ Set(u, Registers)
      /\ file' = Inherited(t)
      /\ inodes' = inodes + Registers.keeps
  BY DEF sys_fork
<1> HIDE DEF u
<1>4. Sound(r[t]) /\ Fits(t, r[t], filp[t], cloexec[t], file)
  BY Facts
<1>5. Sound(r[u]) /\ Fits(u, r[u], filp[u], cloexec[u], file)
  BY <1>2, Facts
<1>6. r[t].fd = {} /\ r[t].next # "leave" /\ r[u].keeps = 0 /\ \A d \in Fd : filp[u][d] = None
  BY <1>1, <1>2, <1>4, <1>5 DEF Sound, Opening, Fits, HasInode
<1>7. /\ Registers.pc = "user" /\ Registers.keeps = 3 /\ Registers.next = "user"
      /\ Registers.fd = {}
  BY DEF Registers
<1>8. /\ file \in FileTable /\ filp \in Tables /\ cloexec \in Marks /\ inodes \in Int
      /\ pipe.count \in Int /\ Whole(pipe) /\ RegisterInv
  BY DEF FilesInv, TypeInv
<1>9. /\ filp' \in Tables /\ filp'[u] = filp[t]
      /\ \A v \in Task \ {u} : filp'[v] = filp[v]
  BY <1>2, <1>3, <1>8 DEF Tables
<1>10. /\ cloexec' \in Marks /\ cloexec'[u] = cloexec[t]
       /\ \A v \in Task \ {u} : cloexec'[v] = cloexec[v]
  BY <1>2, <1>3, <1>8 DEF Marks
<1>11. /\ file' \in FileTable
       /\ \A f \in File : file'[f].count = file[f].count + Mine(t, f)
  BY <1>3, <1>8, InheritedFacts
<1>12. \A f \in File : file'[f].kind = file[f].kind
  BY <1>3, <1>8, InheritedFacts
<1>13. TypeInv'
  <2>1. inodes' \in Int
    BY <1>3, <1>7, <1>8
  <2> QED
    BY <1>1, <1>8, <1>9, <1>10, <1>11, <2>1 DEF TypeInv
<1>14. CountInv'
  <2>1. ASSUME NEW f \in File
        PROVE  /\ file'[f].count = Cardinality(Leads(filp', f))
               /\ file'[f].count = 0 => file'[f].kind = ""
    <3>1. file[f].count = Cardinality(Leads(filp, f)) /\ file[f].count \in Nat
      BY LeadsFinite DEF FilesInv, CountInv
    <3>2. file[f].count = 0 => file[f].kind = ""
      BY DEF FilesInv, CountInv
    <3>3. Cardinality(Leads([filp EXCEPT ![u] = filp[t]], f)) =
            Cardinality(Leads(filp, f)) + Cardinality({d \in Fd : filp[t][d] = f})
      BY <1>2, <1>6, <1>8, LeadsInherited
    <3>4. Cardinality(Leads(filp', f)) = Cardinality(Leads(filp, f)) + Mine(t, f)
      BY <1>3, <3>3 DEF Mine
    <3>5. Mine(t, f) \in Nat
      BY MineFacts
    <3>6. file'[f].count = 0 => file[f].count = 0
      BY <1>11, <3>1, <3>5
    <3>7. file'[f].count = 0 => file'[f].kind = ""
      BY <1>12, <3>2, <3>6
    <3> QED
      BY <1>11, <3>1, <3>4, <3>7
  <2> QED
    BY <2>1 DEF CountInv
<1>15. \A v \in Task : r'[v] = IF v = u THEN Registers ELSE r[v]
  BY <1>2, <1>3, <1>8, RegisterStep
<1>16. InodeInv'
  <2>1. Cardinality(Kept(r')) = Cardinality(Kept(r)) + 3
    <3>1. r'[u].keeps = 3 /\ \A v \in Task \ {u} : r'[v].keeps = r[v].keeps
      BY <1>2, <1>7, <1>15
    <3> QED
      BY <1>2, <1>6, <3>1, KeptMore
  <2>2. Puts(r') = Puts(r)
    BY <1>2, <1>7, <1>15 DEF Puts
  <2>3. OfKind(file', Plain) = OfKind(file, Plain)
    BY <1>12, OfKindSame
  <2>4. /\ Cardinality(Puts(r)) \in Nat /\ Cardinality(Kept(r)) \in Nat
        /\ Cardinality(OfKind(file, Plain)) \in Nat
    BY CountsOfTasks, OfKindFinite
  <2>5. inodes' = inodes + 3
    BY <1>3, <1>7
  <2> QED
    BY <2>1, <2>2, <2>3, <2>4, <2>5 DEF FilesInv, InodeInv
<1>17. PipeInv'
  BY <1>1, <1>12, KindsSame
<1>18. ASSUME NEW v \in Task, NEW c \in Fd, filp[v][c] # None
       PROVE  Allowed(file, file', filp[v][c])
  <2> DEFINE f == filp[v][c]
  <2>1. f \in File
    BY <1>8, <1>18 DEF Tables
  <2> HIDE DEF f
  <2>2. file'[f].kind = file[f].kind
    BY <1>12, <2>1
  <2>3. Kindless(file, f) => Mine(t, f) = 0
    <3>1. None # f
      BY <2>1, AllFinite
    <3>2. Kindless(file, f) => \A d \in Fd : filp[t][d] # f
      BY <1>4, <1>6, <3>1 DEF Fits, HasInode, Kindless
    <3> QED
      BY <3>2, MineFacts
  <2>4. Kindless(file, f) /\ file[f].count = 1 => file'[f].count = 1
    BY <1>11, <2>1, <2>3
  <2> QED
    BY <2>2, <2>4, Zenon DEF f, Allowed, Kindless
<1>19. Fits(u, Registers, filp'[u], cloexec'[u], file')
  <2>1. ASSUME NEW d \in Fd, filp[t][d] # None
        PROVE  file'[filp[t][d]].kind # ""
    <3>1. filp[t][d] \in File
      BY <1>8, <2>1 DEF Tables
    <3>2. file[filp[t][d]].kind # ""
      BY <1>4, <1>6, <2>1 DEF Fits, HasInode
    <3> QED
      BY <1>12, <3>1, <3>2
  <2>2. \A d \in cloexec[t] : filp[t][d] # None
    BY <1>4 DEF Fits, HasInode
  <2> QED
    BY <1>7, <1>9, <1>10, <2>1, <2>2 DEF Fits, HasInode
<1>20. Sound(Registers) /\ r[u].pc \notin {"put_fs_byte", "get_fs_byte"}
       /\ Registers.pc \notin {"sleep_read", "sleep_write"}
  BY <1>2, <1>7, RegistersSound
<1>21. /\ \A v \in Task \ {u} : filp'[v] = filp[v] /\ cloexec'[v] = cloexec[v]
       /\ \A v \in Task \ {u}, c \in Fd : filp[v][c] # None => Allowed(file, file', filp[v][c])
  BY <1>9, <1>10, <1>18
<1> QED
  BY <1>1, <1>2, <1>3, <1>13, <1>14, <1>16, <1>17, <1>19, <1>20, <1>21, TableStep

-----------------------------------------------------------------------------
(* sys_close                                                               *)

\* The last descriptor of a file is closed.
LastOne(f) == f # None /\ file[f].count = 1

\* It is not an end of the pipe.
IsPlain(f) == file[f].kind = "file"

\* What becomes of the entry of the file that a descriptor leads to.
EntryAfter(f) ==
  IF f = None THEN file
  ELSE IF LastOne(f) THEN Dropped(file, f)
  ELSE Counted(file, f, file[f].count - 1)

\* The entry is counted once less, and the others are left alone.
LEMMA CloseEntry ==
  ASSUME FilesInv, NEW f \in File \cup {None}
  PROVE  /\ EntryAfter(f) \in FileTable
         /\ \A g \in File : g # f => EntryAfter(f)[g] = file[g]
         /\ f # None => EntryAfter(f)[f].count = file[f].count - 1
<1>1. file \in FileTable /\ None \notin File
  BY AllFinite DEF FilesInv, TypeInv
<1>2. CASE f = None
  <2>1. EntryAfter(f) = file
    BY <1>2 DEF EntryAfter
  <2> QED
    BY <1>1, <1>2, <2>1
<1>3. CASE LastOne(f)
  <2>1. f \in File /\ f # None /\ file[f].count = 1
    BY <1>3 DEF LastOne
  <2>2. EntryAfter(f) = Dropped(file, f)
    BY <1>3, <2>1, Zenon DEF EntryAfter
  <2>3. /\ Dropped(file, f) \in FileTable
        /\ Dropped(file, f)[f].count = 0
        /\ Dropped(file, f)[f].kind = ""
        /\ \A g \in File : g # f => Dropped(file, f)[g] = file[g]
    BY <1>1, <2>1, EntryDropped
  <2>4. /\ EntryAfter(f) \in FileTable
        /\ EntryAfter(f)[f].count = 0
        /\ \A g \in File : g # f => EntryAfter(f)[g] = file[g]
    BY <2>2, <2>3, Zenon
  <2> QED
    BY <2>1, <2>4
<1>4. CASE f # None /\ ~ LastOne(f)
  <2>1. f \in File /\ EntryAfter(f) = Counted(file, f, file[f].count - 1)
    BY <1>4, Zenon DEF EntryAfter
  <2>2. file[f].count - 1 \in Int
    BY <1>1, <2>1 DEF FileTable
  <2>3. /\ Counted(file, f, file[f].count - 1) \in FileTable
        /\ Counted(file, f, file[f].count - 1)[f].count = file[f].count - 1
        /\ Counted(file, f, file[f].count - 1)[f].kind = file[f].kind
        /\ \A g \in File : g # f => Counted(file, f, file[f].count - 1)[g] = file[g]
    BY <1>1, <2>1, <2>2, EntryCounted
  <2> QED
    BY <2>1, <2>3, Zenon
<1> QED
  BY <1>2, <1>3, <1>4 DEF LastOne

\* It keeps its inode unless it was the last.
LEMMA CloseKind ==
  ASSUME FilesInv, NEW f \in File
  PROVE  /\ ~ LastOne(f) => EntryAfter(f)[f].kind = file[f].kind
         /\ LastOne(f) => EntryAfter(f)[f].kind = ""
         /\ \A g \in File \ {f} : EntryAfter(f)[g].kind = file[g].kind
<1>1. file \in FileTable /\ f # None
  BY AllFinite DEF FilesInv, TypeInv
<1>2. CASE LastOne(f)
  <2>1. EntryAfter(f) = Dropped(file, f)
    BY <1>1, <1>2, Zenon DEF EntryAfter
  <2>2. /\ Dropped(file, f) \in FileTable
        /\ Dropped(file, f)[f].count = 0
        /\ Dropped(file, f)[f].kind = ""
        /\ \A g \in File : g # f => Dropped(file, f)[g] = file[g]
    BY <1>1, EntryDropped
  <2> QED
    BY <1>2, <2>1, <2>2, Zenon
<1>3. CASE ~ LastOne(f)
  <2>1. EntryAfter(f) = Counted(file, f, file[f].count - 1)
    BY <1>1, <1>3, Zenon DEF EntryAfter
  <2>2. file[f].count - 1 \in Int
    BY <1>1 DEF FileTable
  <2>3. /\ Counted(file, f, file[f].count - 1) \in FileTable
        /\ Counted(file, f, file[f].count - 1)[f].count = file[f].count - 1
        /\ Counted(file, f, file[f].count - 1)[f].kind = file[f].kind
        /\ \A g \in File : g # f => Counted(file, f, file[f].count - 1)[g] = file[g]
    BY <1>1, <2>2, EntryCounted
  <2> QED
    BY <1>3, <2>1, <2>3, Zenon
<1>4. \A g \in File \ {f} : EntryAfter(f)[g].kind = file[g].kind
  <2>1. f \in File \cup {None}
    OBVIOUS
  <2>2. /\ EntryAfter(f) \in FileTable
        /\ \A g \in File : g # f => EntryAfter(f)[g] = file[g]
        /\ f # None => EntryAfter(f)[f].count = file[f].count - 1
    BY <2>1, CloseEntry
  <2> QED
    BY <2>2, Zenon
<1> QED
  BY <1>2, <1>3, <1>4

\* The counts after a descriptor was closed.
LEMMA ClosedCounts ==
  ASSUME FilesInv, NEW t \in Task, NEW d \in Fd,
         filp' = Pointed(filp, t, d, None), file' = EntryAfter(filp[t][d])
  PROVE  CountInv'
<1> DEFINE f == filp[t][d]
<1>1. f \in File \cup {None} /\ filp \in Tables /\ file \in FileTable
  BY DEF FilesInv, TypeInv, Tables
<1>2. file' = EntryAfter(f)
  OBVIOUS
<1>3. f # None => f \in File /\ file[f].count \in Nat \ {0}
  BY CountFacts
<1>4. \A g : Is(f, g) = Is(filp[t][d], g)
  OBVIOUS
<1> HIDE DEF f
<1>5. /\ \A g \in File : g # f => file'[g] = file[g]
      /\ f # None => file'[f].count = file[f].count - 1
  BY <1>1, <1>2, CloseEntry
<1>6. ASSUME NEW g \in File
      PROVE  file'[g].count = Cardinality(Leads(filp', g))
  <2>1. Cardinality(Leads(filp', g)) =
          Cardinality(Leads(filp, g)) - Is(filp[t][d], g) + Is(None, g)
    <3>1. None \in File \cup {None}
      OBVIOUS
    <3> QED
      BY <1>1, <3>1, LeadsChange
  <2>2. file[g].count = Cardinality(Leads(filp, g)) /\ Cardinality(Leads(filp, g)) \in Nat
    BY LeadsFinite DEF FilesInv, CountInv
  <2>3. None # g
    BY AllFinite
  <2>4. Is(None, g) = 0
    BY <2>3 DEF Is
  <2>5. CASE g = f
    <3>1. Is(f, g) = 1 /\ f # None
      BY <2>3, <2>5 DEF Is
    <3>2. file'[g].count = file[g].count - 1
      BY <1>5, <2>5, <3>1
    <3> QED
      BY <1>4, <2>1, <2>2, <2>4, <3>1, <3>2
  <2>6. CASE g # f
    <3>1. Is(f, g) = 0
      BY <2>6 DEF Is
    <3>2. file'[g].count = file[g].count
      BY <1>5, <2>6
    <3> QED
      BY <1>4, <2>1, <2>2, <2>4, <3>1, <3>2
  <2> QED
    BY <2>5, <2>6
<1>7. ASSUME NEW g \in File, file'[g].count = 0
      PROVE  file'[g].kind = ""
  <2>1. file[g].count = 0 => file[g].kind = ""
    BY DEF FilesInv, CountInv
  <2>2. CASE g # f
    BY <1>5, <1>7, <2>1, <2>2, Zenon
  <2>3. CASE g = f
    <3>1. f # None
      BY <2>3, AllFinite
    <3>2. file[f].count = 1
      BY <1>3, <1>5, <1>7, <2>3, <3>1
    <3>3. LastOne(f)
      BY <3>1, <3>2 DEF LastOne
    <3>4. EntryAfter(f)[f].kind = ""
      BY <2>3, <3>3, CloseKind
    <3> QED
      BY <1>2, <2>3, <3>4, Zenon
  <2> QED
    BY <2>2, <2>3
<1> QED
  BY <1>6, <1>7, Zenon DEF CountInv

\* A file is not of the kind any more.
LEMMA KindLost ==
  ASSUME NEW tab, NEW new, NEW f \in File, NEW K, new[f].kind \notin K,
         \A g \in File \ {f} : new[g].kind = tab[g].kind
  PROVE  Cardinality(OfKind(new, K)) = Cardinality(OfKind(tab, K)) - Has(tab[f].kind, K)
<1>1. Has(new[f].kind, K) = 0
  BY DEF Has
<1>2. Cardinality(OfKind(new, K)) =
        Cardinality(OfKind(tab, K)) - Has(tab[f].kind, K) + Has(new[f].kind, K)
  BY OfKindChange
<1>3. Cardinality(OfKind(tab, K)) \in Nat /\ Has(tab[f].kind, K) \in Int
  BY OfKindFinite DEF Has
<1> QED
  BY <1>1, <1>2, <1>3

\* It is of no kind any more.
LEMMA KindGone ==
  ASSUME NEW f \in File, \A g \in File \ {f} : file'[g].kind = file[g].kind,
         Kindless(file', f)
  PROVE  /\ Cardinality(OfKind(file', Plain)) =
              Cardinality(OfKind(file, Plain)) - Has(file[f].kind, Plain)
         /\ Cardinality(OfKind(file', PipeEnds)) =
              Cardinality(OfKind(file, PipeEnds)) - Has(file[f].kind, PipeEnds)
<1>1. file'[f].kind \notin Plain /\ file'[f].kind \notin PipeEnds
  BY DEF Kindless, Plain, PipeEnds
<1> QED
  BY <1>1, KindLost

\* The tables after sys_close.
LEMMA CloseTable ==
  ASSUME FilesInv, NEW t \in Task, r[t].fd = {}, NEW d \in Fd,
         NEW f, f = filp[t][d],
         filp' = Pointed(filp, t, d, None),
         cloexec' = ClearFlag(t, d),
         file' = EntryAfter(f)
  PROVE  /\ file' \in FileTable /\ filp' \in Tables /\ cloexec' \in Marks
         /\ CountInv'
         /\ \A u \in Task \ {t} : filp'[u] = filp[u] /\ cloexec'[u] = cloexec[u]
         /\ \A u \in Task \ {t}, c \in Fd :
              filp[u][c] # None => Allowed(file, file', filp[u][c])
         /\ \A c \in Fd : filp'[t][c] # None =>
              c # d /\ filp[t][c] # None /\ HasInode(r[t], file', filp'[t][c])
         /\ \A c \in cloexec'[t] : filp'[t][c] # None
<1>1. Sound(r[t]) /\ Fits(t, r[t], filp[t], cloexec[t], file)
  BY Facts
<1>2. file \in FileTable /\ filp \in Tables /\ cloexec \in Marks
  BY DEF FilesInv, TypeInv
<1>3. f \in File \cup {None} /\ None \notin File
  BY <1>2, AllFinite DEF Tables
<1>4. /\ EntryAfter(f) \in FileTable
      /\ \A g \in File : g # f => EntryAfter(f)[g] = file[g]
      /\ f # None => EntryAfter(f)[f].count = file[f].count - 1
  BY <1>3, CloseEntry
<1>5. file' \in FileTable /\ \A g \in File : g # f => file'[g] = file[g]
  BY <1>4, Zenon
<1>6. f # None /\ ~ LastOne(f) => file'[f].kind = file[f].kind
  BY <1>3, CloseKind
<1>7. /\ filp' \in Tables
      /\ \A u \in Task \ {t} : filp'[u] = filp[u]
      /\ \A c \in Fd : filp'[t][c] = IF c = d THEN None ELSE filp[t][c]
  <2>1. None \in File \cup {None}
    OBVIOUS
  <2> QED
    BY <1>2, <2>1, DescriptorChanged
<1>8. /\ cloexec' \in Marks
      /\ \A u \in Task \ {t} : cloexec'[u] = cloexec[u]
      /\ cloexec'[t] = cloexec[t] \ {d}
  BY <1>2 DEF Marks, ClearFlag
<1>9. LastOne(f) => \A u \in Task, e \in Fd : filp[u][e] = f => u = t /\ e = d
  BY CountFacts DEF LastOne
<1>10. f # None /\ ~ LastOne(f) => file[f].kind # ""
  BY <1>1 DEF Fits, HasInode, LastOne
<1>11. CountInv'
  BY ClosedCounts
<1>12. ASSUME NEW u \in Task \ {t}, NEW c \in Fd, filp[u][c] # None
       PROVE  Allowed(file, file', filp[u][c])
  <2>1. filp[u][c] \in File
    BY <1>2, <1>12 DEF Tables
  <2>2. CASE filp[u][c] # f
    <3>1. file'[filp[u][c]] = file[filp[u][c]]
      BY <1>5, <2>1, <2>2
    <3> QED
      BY <3>1 DEF Allowed
  <2>3. CASE filp[u][c] = f
    <3>1. f # None /\ ~ LastOne(f)
      BY <1>9, <1>12, <2>3
    <3>2. file'[f].kind = file[f].kind /\ file[f].kind # ""
      BY <1>6, <1>10, <3>1
    <3> QED
      BY <2>3, <3>2 DEF Allowed
  <2> QED
    BY <2>2, <2>3
<1>13. ASSUME NEW c \in Fd, filp'[t][c] # None
       PROVE  c # d /\ filp[t][c] # None /\ HasInode(r[t], file', filp'[t][c])
  <2>1. c # d /\ filp'[t][c] = filp[t][c] /\ filp[t][c] # None
    BY <1>7, <1>13
  <2>2. filp[t][c] \in File
    BY <1>2, <2>1 DEF Tables
  <2>3. HasInode(r[t], file, filp[t][c])
    BY <1>1, <2>1 DEF Fits
  <2>4. CASE filp[t][c] = f
    <3>1. f # None /\ ~ LastOne(f)
      BY <1>9, <2>1, <2>4
    <3>2. file'[f].kind # ""
      BY <1>6, <1>10, <3>1
    <3> QED
      BY <2>1, <2>4, <3>2 DEF HasInode
  <2>5. CASE filp[t][c] # f
    <3>1. file'[filp[t][c]] = file[filp[t][c]]
      BY <1>5, <2>2, <2>5
    <3> QED
      BY <2>1, <2>3, <3>1 DEF HasInode
  <2> QED
    BY <2>1, <2>4, <2>5
<1>14. \A c \in cloexec'[t] : filp'[t][c] # None
  <2>1. \A c \in cloexec[t] : c \in Fd /\ filp[t][c] # None
    BY <1>1, <1>2 DEF Fits, HasInode, Marks
  <2> QED
    BY <1>7, <1>8, <2>1
<1> QED
  BY <1>5, <1>7, <1>8, <1>11, <1>12, <1>13, <1>14

\* The registers of the task after sys_close, as on and q in the code of the
\* model, and in iput.
On(t, left) == [r[t] EXCEPT !.closing = left, !.pc = IF left = {} THEN @ ELSE "closing"]
Closed(t, left) == IF left = {} THEN [On(t, left) EXCEPT !.pc = On(t, left).next] ELSE On(t, left)
PutNext(t, left) == [On(t, left) EXCEPT !.pc = "iput"]
StaleNext(t, left) == [On(t, left) EXCEPT !.pc = "stale_iput"]

\* What they have in common.
After(t, left, q) ==
  /\ Sound(q) /\ q.fd = {} /\ q.closing = left
  /\ q.next = r[t].next /\ q.keeps = r[t].keeps
  /\ q.pc \notin {"absent", "sleep_read", "sleep_write"}

\* All of them are registers that a task may have, and still name what is to
\* be closed.
LEMMA CloseRegisters ==
  ASSUME FilesInv, NEW t \in Task, r[t].pc = "closing", NEW left \in SUBSET r[t].closing
  PROVE  /\ r[t].fd = {}
         /\ After(t, left, Closed(t, left)) /\ Closed(t, left).pc # "iput"
         /\ After(t, left, PutNext(t, left)) /\ PutNext(t, left).pc = "iput"
         /\ After(t, left, StaleNext(t, left)) /\ StaleNext(t, left).pc # "iput"
<1>1. Sound(r[t])
  BY Facts
<1>2. r[t].fd = {} /\ left \subseteq Fd
  BY <1>1 DEF Sound, Opening
<1> DEFINE o == On(t, left)
<1>3. /\ Shaped(o) /\ o.pc = "closing" /\ o.closing = left /\ o.next = r[t].next
      /\ o.fd = {} /\ o.old = r[t].old /\ o.new = r[t].new /\ o.keeps = r[t].keeps
  <2>1. Shaped(o)
    BY <1>1 DEF Sound, Shaped, On
  <2>2. /\ o.pc = "closing" /\ o.closing = left /\ o.next = r[t].next
        /\ o.fd = {} /\ o.old = r[t].old /\ o.new = r[t].new /\ o.keeps = r[t].keeps
    BY <1>1, <1>2 DEF Sound, Shaped, On
  <2> QED
    BY <2>1, <2>2
<1> HIDE DEF o
<1>4. ASSUME NEW p \in {r[t].next, "closing", "iput", "stale_iput"}, NEW q, q = [o EXCEPT !.pc = p],
             p = r[t].next => left = {}, p = "closing" => left # {}
      PROVE  After(t, left, q) /\ q.pc = p
  <2>1. /\ Shaped(q) /\ q.pc = p /\ q.closing = left /\ q.next = r[t].next
        /\ q.fd = {} /\ q.old = r[t].old /\ q.new = r[t].new /\ q.keeps = r[t].keeps
    BY <1>3, <1>4 DEF Shaped
  <2>2. /\ r[t].next \in {"user", "dupfd", "leave", "close_on_exec", "new_program"}
        /\ r[t].closing \subseteq Fd /\ r[t].keeps \in 0 .. 3
        /\ r[t].next = "dupfd" => r[t].old \in Fd /\ r[t].new \in Fd
        /\ r[t].next # "leave" => r[t].keeps = 3
    BY <1>1 DEF Sound
  <2>3. Sound(q)
    BY <1>2, <1>4, <2>1, <2>2 DEF Sound, Filing, Opening
  <2> QED
    BY <1>4, <2>1, <2>2, <2>3 DEF After
<1>5. r[t].next \notin {"closing", "iput", "stale_iput"}
  BY <1>1 DEF Sound
<1>6. After(t, left, PutNext(t, left)) /\ PutNext(t, left).pc = "iput"
  <2>1. PutNext(t, left) = [o EXCEPT !.pc = "iput"]
    BY DEF PutNext, o
  <2> QED
    BY <1>4, <1>5, <2>1
<1>7. After(t, left, Closed(t, left)) /\ Closed(t, left).pc # "iput"
  <2>1. CASE left = {}
    <3>1. Closed(t, left) = [o EXCEPT !.pc = r[t].next]
      BY <1>3, <2>1 DEF Closed, o
    <3> QED
      BY <1>4, <1>5, <2>1, <3>1
  <2>2. CASE left # {}
    <3>1. Closed(t, left) = o
      BY <2>2 DEF Closed, o
    <3>2. o = [o EXCEPT !.pc = "closing"]
      BY <1>3 DEF Shaped
    <3> QED
      BY <1>4, <1>5, <2>2, <3>1, <3>2
  <2> QED
    BY <2>1, <2>2
<1>8. After(t, left, StaleNext(t, left)) /\ StaleNext(t, left).pc # "iput"
  <2>1. StaleNext(t, left) = [o EXCEPT !.pc = "stale_iput"]
    BY DEF StaleNext, o
  <2> QED
    BY <1>4, <1>5, <2>1
<1> QED
  BY <1>2, <1>6, <1>7, <1>8

\* The descriptors fit the registers that the task has after sys_close.
LEMMA CloseFits ==
  ASSUME FilesInv, NEW t \in Task, r[t].pc = "closing", NEW d \in r[t].closing,
         NEW q, After(t, r[t].closing \ {d}, q),
         \A c \in Fd : filp'[t][c] # None =>
           c # d /\ filp[t][c] # None /\ HasInode(r[t], file', filp'[t][c]),
         \A c \in cloexec'[t] : filp'[t][c] # None
  PROVE  Fits(t, q, filp'[t], cloexec'[t], file')
<1>1. Fits(t, r[t], filp[t], cloexec[t], file)
  BY Facts
<1>2. q.next = "leave" => \A c \in Fd : filp'[t][c] # None => c \in q.closing
  BY <1>1 DEF Fits, HasInode, After
<1> QED
  BY <1>2 DEF Fits, HasInode, After

\* A descriptor that was not open, or not the last one of its file, or the one
\* that a killed task has never got.
LEMMA CloseSomeStep ==
  ASSUME FilesInv, NEW t \in Task, r[t].pc = "closing", NEW d \in r[t].closing,
         d \in Fd, NEW f, f = filp[t][d], ~ LastOne(f) \/ Kindless(file, f),
         NEW q, After(t, r[t].closing \ {d}, q), q.pc # "iput", Set(t, q),
         UNCHANGED <<inodes, pipe>>,
         filp' = Pointed(filp, t, d, None), cloexec' = ClearFlag(t, d),
         file' = EntryAfter(f)
  PROVE  FilesInv'
<1>1. r[t].fd = {}
  <2>1. Sound(r[t])
    BY Facts
  <2> QED
    BY <2>1 DEF Sound, Opening
<1>2. /\ file' \in FileTable /\ filp' \in Tables /\ cloexec' \in Marks
      /\ CountInv'
      /\ \A u \in Task \ {t} : filp'[u] = filp[u] /\ cloexec'[u] = cloexec[u]
      /\ \A u \in Task \ {t}, c \in Fd : filp[u][c] # None => Allowed(file, file', filp[u][c])
      /\ \A c \in Fd : filp'[t][c] # None =>
           c # d /\ filp[t][c] # None /\ HasInode(r[t], file', filp'[t][c])
      /\ \A c \in cloexec'[t] : filp'[t][c] # None
  BY <1>1, CloseTable
<1>3. Fits(t, q, filp'[t], cloexec'[t], file')
  BY <1>2, CloseFits
<1>4. f \in File \cup {None}
  BY DEF FilesInv, TypeInv, Tables
<1>5. \A g \in File : file'[g].kind = file[g].kind
  <2>1. CASE f = None
    <3>1. file' = file
      BY <2>1, Zenon DEF EntryAfter
    <3> QED
      BY <3>1
  <2>2. CASE f \in File
    <3>1. /\ ~ LastOne(f) => EntryAfter(f)[f].kind = file[f].kind
          /\ LastOne(f) => EntryAfter(f)[f].kind = ""
          /\ \A g \in File \ {f} : EntryAfter(f)[g].kind = file[g].kind
      BY <2>2, CloseKind
    <3> QED
      BY <3>1 DEF Kindless
  <2> QED
    BY <1>4, <2>1, <2>2
<1>6. InodeInv' /\ PipeInv'
  <2>1. q.keeps = r[t].keeps
    BY DEF After
  <2> QED
    BY <1>5, <2>1, InodesSame
<1>7. TypeInv'
  BY <1>2 DEF FilesInv, TypeInv
<1>8. Sound(q) /\ q.pc \notin {"sleep_read", "sleep_write"}
  BY DEF After
<1> QED
  BY <1>2, <1>3, <1>6, <1>7, <1>8, TableStep

\* The last one of a file that is not a pipe: its inode is put next.
LEMMA CloseFileStep ==
  ASSUME FilesInv, NEW t \in Task, r[t].pc = "closing", NEW d \in r[t].closing,
         d \in Fd, NEW f, f = filp[t][d], LastOne(f), IsPlain(f),
         NEW q, After(t, r[t].closing \ {d}, q), q.pc = "iput", Set(t, q),
         UNCHANGED <<inodes, pipe>>,
         filp' = Pointed(filp, t, d, None), cloexec' = ClearFlag(t, d),
         file' = EntryAfter(f)
  PROVE  FilesInv'
<1>1. r[t].fd = {}
  <2>1. Sound(r[t])
    BY Facts
  <2> QED
    BY <2>1 DEF Sound, Opening
<1>2. /\ file' \in FileTable /\ filp' \in Tables /\ cloexec' \in Marks
      /\ CountInv'
      /\ \A u \in Task \ {t} : filp'[u] = filp[u] /\ cloexec'[u] = cloexec[u]
      /\ \A u \in Task \ {t}, c \in Fd : filp[u][c] # None => Allowed(file, file', filp[u][c])
      /\ \A c \in Fd : filp'[t][c] # None =>
           c # d /\ filp[t][c] # None /\ HasInode(r[t], file', filp'[t][c])
      /\ \A c \in cloexec'[t] : filp'[t][c] # None
  BY <1>1, CloseTable
<1>3. Fits(t, q, filp'[t], cloexec'[t], file')
  BY <1>2, CloseFits
<1>4. f \in File
  BY DEF LastOne, FilesInv, TypeInv, Tables
<1>5. \A g \in File \ {f} : file'[g].kind = file[g].kind
  BY <1>4, CloseKind
<1>6. file'[f].kind = ""
  BY <1>4, CloseKind
<1>7. InodeInv'
  <2>1. Cardinality(OfKind(file', Plain)) =
          Cardinality(OfKind(file, Plain)) - Has(file[f].kind, Plain)
    BY <1>4, <1>5, <1>6, KindGone DEF Kindless
  <2>2. Has(file[f].kind, Plain) = 1
    BY <1>6 DEF Has, Plain, IsPlain
  <2>3. -1 \in Int
    OBVIOUS
  <2>4. Cardinality(OfKind(file', Plain)) = Cardinality(OfKind(file, Plain)) + (-1)
    BY <2>1, <2>2, OfKindFinite
  <2>5. inodes' = inodes + (-1) - (IF r[t].pc = "iput" THEN 1 ELSE 0)
                                + (IF q.pc = "iput" THEN 1 ELSE 0)
    <3>1. inodes \in Int
      BY DEF FilesInv, TypeInv
    <3> QED
      BY <3>1
  <2>6. RegisterInv /\ InodeInv /\ q.keeps = r[t].keeps
    BY DEF FilesInv, After
  <2> QED
    BY <2>3, <2>4, <2>5, <2>6, InodeStep
<1>8. PipeInv'
  <2>1. Cardinality(OfKind(file', PipeEnds)) =
          Cardinality(OfKind(file, PipeEnds)) - Has(file[f].kind, PipeEnds)
    BY <1>4, <1>5, <1>6, KindGone DEF Kindless
  <2>2. Has(file[f].kind, PipeEnds) = 0
    BY <1>6 DEF Has, PipeEnds, IsPlain
  <2>3. Cardinality(OfKind(file', PipeEnds)) = Cardinality(OfKind(file, PipeEnds))
    BY <2>1, <2>2, OfKindFinite
  <2> QED
    BY <2>3 DEF FilesInv, PipeInv
<1>9. TypeInv'
  BY <1>2 DEF FilesInv, TypeInv
<1>10. Sound(q) /\ q.pc \notin {"sleep_read", "sleep_write"}
  BY DEF After
<1> QED
  BY <1>2, <1>3, <1>7, <1>8, <1>9, <1>10, TableStep

-----------------------------------------------------------------------------
(* wake_up                                                                 *)

\* Registers that mean the same for the descriptors and the inodes.
Alike(p, q) ==
  /\ q.fd = p.fd /\ q.closing = p.closing /\ q.keeps = p.keeps
  /\ q.next = "leave" <=> p.next = "leave"
  /\ q.pc = "absent" <=> p.pc = "absent"
  /\ q.pc = "iput" <=> p.pc = "iput"

\* The tasks that wake_up finds, and those whose copy waits in a page fault.
Sleeping == {"sleep_read", "sleep_write"}
InFault == {"put_fs_byte", "get_fs_byte"}

\* Another point of the code, and nothing else.
LEMMA MovedSound ==
  ASSUME NEW p, Sound(p), NEW pc, p.pc \in Piping \cup Terminal,
         \/ p.pc = "sleep_read" /\ pc = "read_pipe"
         \/ p.pc = "sleep_write" /\ pc = "write_pipe"
         \/ p.pc \in Terminal /\ pc \in Terminal
  PROVE  /\ Sound([p EXCEPT !.pc = pc]) /\ Alike(p, [p EXCEPT !.pc = pc])
         /\ [p EXCEPT !.pc = pc].pc = pc
<1> DEFINE q == [p EXCEPT !.pc = pc]
<1>1. /\ Shaped(q) /\ q.pc = pc /\ q.closing = p.closing /\ q.next = p.next
      /\ q.fd = p.fd /\ q.old = p.old /\ q.new = p.new /\ q.keeps = p.keeps
      /\ q.need = p.need /\ q.put = p.put /\ q.at = p.at
  BY DEF Sound, Shaped
<1> HIDE DEF q
<1>2. Alike(p, q)
  BY <1>1 DEF Alike, Piping, Terminal
<1>3. Sound(q)
  BY <1>1 DEF Sound, Filing, Piping, Terminal, Opening
<1> QED
  BY <1>1, <1>2, <1>3 DEF q

\* wake_up makes those who sleep in the pipe go on.
LEMMA WokenFacts ==
  ASSUME NEW tab, \A u \in Task : Sound(tab[u])
  PROVE  /\ DOMAIN Woken(tab) = Task /\ Woken(tab) = [u \in Task |-> Woken(tab)[u]]
         /\ \A u \in Task :
              /\ Sound(Woken(tab)[u]) /\ Alike(tab[u], Woken(tab)[u])
              /\ Woken(tab)[u].pc \notin Sleeping
              /\ Woken(tab)[u].pc \in InFault <=> tab[u].pc \in InFault
<1>1. ASSUME NEW u \in Task
      PROVE  /\ Sound(Woken(tab)[u]) /\ Alike(tab[u], Woken(tab)[u])
             /\ Woken(tab)[u].pc \notin Sleeping
             /\ Woken(tab)[u].pc \in InFault <=> tab[u].pc \in InFault
  <2>1. CASE tab[u].pc = "sleep_read"
    <3>1. Woken(tab)[u] = [tab[u] EXCEPT !.pc = "read_pipe"]
      BY <2>1 DEF Woken
    <3>2. /\ Sound([tab[u] EXCEPT !.pc = "read_pipe"])
          /\ Alike(tab[u], [tab[u] EXCEPT !.pc = "read_pipe"])
          /\ [tab[u] EXCEPT !.pc = "read_pipe"].pc = "read_pipe"
      BY <2>1, MovedSound DEF Piping
    <3> QED
      BY <2>1, <3>1, <3>2 DEF Sleeping, InFault
  <2>2. CASE tab[u].pc = "sleep_write"
    <3>1. Woken(tab)[u] = [tab[u] EXCEPT !.pc = "write_pipe"]
      BY <2>2 DEF Woken
    <3>2. /\ Sound([tab[u] EXCEPT !.pc = "write_pipe"])
          /\ Alike(tab[u], [tab[u] EXCEPT !.pc = "write_pipe"])
          /\ [tab[u] EXCEPT !.pc = "write_pipe"].pc = "write_pipe"
      BY <2>2, MovedSound DEF Piping
    <3> QED
      BY <2>2, <3>1, <3>2 DEF Sleeping, InFault
  <2>3. CASE tab[u].pc \notin Sleeping
    <3>1. Woken(tab)[u] = tab[u]
      BY <2>3 DEF Woken, Sleeping
    <3> QED
      BY <2>3, <3>1 DEF Alike
  <2> QED
    BY <2>1, <2>2, <2>3 DEF Sleeping
<1>2. DOMAIN Woken(tab) = Task /\ Woken(tab) = [u \in Task |-> Woken(tab)[u]]
  BY DEF Woken
<1> QED
  BY <1>1, <1>2

\* Registers that are alike fit the same descriptors, and count as much.
LEMMA AlikeFits ==
  ASSUME NEW p, NEW q, Alike(p, q), NEW t, NEW row, NEW marks, NEW tab,
         Fits(t, p, row, marks, tab)
  PROVE  Fits(t, q, row, marks, tab)
BY DEF Alike, Fits, HasInode

\* They keep the same references, and put as many inodes.
LEMMA AlikeCounts ==
  ASSUME NEW tab, NEW new, \A u \in Task : Alike(tab[u], new[u])
  PROVE  Kept(new) = Kept(tab) /\ Puts(new) = Puts(tab)
BY DEF Alike, Kept, Puts

\* Nobody sleeps in the pipe.
LEMMA NobodySleeps ==
  ASSUME \A u \in Task : r[u].pc \notin Sleeping
  PROVE  SleepersMustWait
BY DEF SleepersMustWait, At, Sleeping

\* The last descriptor of an end of the pipe: those who sleep in it are woken.
LEMMA CloseEndStep ==
  ASSUME FilesInv, NEW t \in Task, r[t].pc = "closing", NEW d \in r[t].closing,
         d \in Fd, NEW f, f = filp[t][d], LastOne(f), file[f].kind \in PipeEnds,
         NEW q, After(t, r[t].closing \ {d}, q), q.pc # "iput",
         ClosePipe([r EXCEPT ![t] = q]), UNCHANGED inodes,
         filp' = Pointed(filp, t, d, None), cloexec' = ClearFlag(t, d),
         file' = EntryAfter(f)
  PROVE  FilesInv'
<1> DEFINE tab == [r EXCEPT ![t] = q]
<1>1. r[t].fd = {}
  <2>1. Sound(r[t])
    BY Facts
  <2> QED
    BY <2>1 DEF Sound, Opening
<1>2. /\ file' \in FileTable /\ filp' \in Tables /\ cloexec' \in Marks
      /\ CountInv'
      /\ \A u \in Task \ {t} : filp'[u] = filp[u] /\ cloexec'[u] = cloexec[u]
      /\ \A u \in Task \ {t}, c \in Fd : filp[u][c] # None => Allowed(file, file', filp[u][c])
      /\ \A c \in Fd : filp'[t][c] # None =>
           c # d /\ filp[t][c] # None /\ HasInode(r[t], file', filp'[t][c])
      /\ \A c \in cloexec'[t] : filp'[t][c] # None
  BY <1>1, CloseTable
<1>3. Fits(t, q, filp'[t], cloexec'[t], file')
  BY <1>2, CloseFits
<1>4. f \in File
  BY DEF LastOne, FilesInv, TypeInv, Tables
<1>5. \A g \in File \ {f} : file'[g].kind = file[g].kind
  BY <1>4, CloseKind
<1>6. file'[f].kind = ""
  BY <1>4, CloseKind
<1>7. file[f].kind \in PipeEnds
  OBVIOUS
<1>8. /\ TypeInv /\ RegisterInv /\ FitInv /\ InodeInv /\ PipeInv
      /\ r = [u \in Task |-> r[u]] /\ inodes \in Int /\ pipe.count \in Int /\ Whole(pipe)
  BY DEF FilesInv, TypeInv, RegisterInv
<1>9. \A u \in Task : tab[u] = IF u = t THEN q ELSE r[u]
  BY <1>8
<1>10. r' = Woken(tab)
  BY DEF ClosePipe
<1> HIDE DEF tab
<1>11. \A u \in Task : Sound(tab[u])
  BY <1>8, <1>9 DEF After, RegisterInv
<1>12. /\ RegisterInv'
       /\ \A u \in Task : Alike(tab[u], r'[u]) /\ r'[u].pc \notin Sleeping
  BY <1>10, <1>11, WokenFacts DEF RegisterInv
<1>13. FitInv'
  <2>0. /\ \A u \in Task \ {t} : filp'[u] = filp[u] /\ cloexec'[u] = cloexec[u]
        /\ \A u \in Task \ {t}, c \in Fd : filp[u][c] # None => Allowed(file, file', filp[u][c])
    BY <1>2
  <2>1. \A u \in Task : Fits(u, tab[u], filp'[u], cloexec'[u], file')
    BY <1>3, <1>8, <1>9, <2>0, FitTable
  <2>2. \A u \in Task : Fits(u, r'[u], filp'[u], cloexec'[u], file')
    BY <1>12, <2>1, AlikeFits
  <2> QED
    BY <2>2 DEF FitInv
<1>14. InodeInv'
  <2>1. Cardinality(OfKind(file', Plain)) =
          Cardinality(OfKind(file, Plain)) - Has(file[f].kind, Plain)
    BY <1>4, <1>5, <1>6, KindGone DEF Kindless
  <2>2. Has(file[f].kind, Plain) = 0
    BY <1>6, <1>7 DEF Has, Plain, PipeEnds
  <2>3. Cardinality(OfKind(file', Plain)) = Cardinality(OfKind(file, Plain))
    BY <2>1, <2>2, OfKindFinite
  <2>4. Kept(r') = Kept(tab) /\ Puts(r') = Puts(tab)
    BY <1>12, AlikeCounts
  <2>5. Kept(tab) = Kept(r)
    <3>1. \A u \in Task : tab[u].keeps = r[u].keeps
      BY <1>9 DEF After
    <3> QED
      BY <3>1, KeptSame
  <2>6. Puts(tab) = Puts(r)
    BY <1>9 DEF Puts
  <2> QED
    BY <1>8, <2>3, <2>4, <2>5, <2>6 DEF InodeInv
<1>15. PipeInv' /\ pipe'.count \in Int /\ Whole(pipe')
  <2>1. Cardinality(OfKind(file', PipeEnds)) =
          Cardinality(OfKind(file, PipeEnds)) - Has(file[f].kind, PipeEnds)
    BY <1>4, <1>5, <1>6, KindGone DEF Kindless
  <2>2. Has(file[f].kind, PipeEnds) = 1
    BY <1>6, <1>7 DEF Has, PipeEnds
  <2>3. Cardinality(OfKind(file', PipeEnds)) = Cardinality(OfKind(file, PipeEnds)) - 1
    BY <2>1, <2>2, OfKindFinite
  <2>4. pipe' = IF pipe.count = 1 THEN NoPipe ELSE [pipe EXCEPT !.count = @ - 1, !.untold = FALSE]
    BY DEF ClosePipe
  <2>5. pipe'.count = pipe.count - 1 /\ Whole(pipe')
    <3>1. CASE pipe.count = 1
      BY <2>4, <3>1, FilesAssumption DEF NoPipe, Whole
    <3>2. CASE pipe.count # 1
      BY <1>8, <2>4, <3>2 DEF Whole
    <3> QED
      BY <3>1, <3>2
  <2>6. pipe'.count \in Int
    BY <1>8, <2>5
  <2> QED
    BY <1>8, <2>3, <2>5, <2>6 DEF PipeInv
<1>16. SleepersMustWait'
  BY <1>12 DEF SleepersMustWait, At, Sleeping
<1>17. TypeInv'
  BY <1>2, <1>8, <1>15 DEF TypeInv
<1> QED
  BY <1>2, <1>12, <1>13, <1>14, <1>15, <1>16, <1>17 DEF FilesInv

\* sys_close, with each of the outcomes above.
LEMMA CloseStep ==
  ASSUME FilesInv, NEW t \in Task, sys_close(t)
  PROVE  FilesInv'
<1> DEFINE d == Min(r[t].closing)
           f == filp[t][d]
           left == r[t].closing \ {d}
<1>1. /\ r[t].pc = "closing" /\ UNCHANGED inodes
      /\ cloexec' = ClearFlag(t, d)
      /\ filp' = Pointed(filp, t, d, None)
  BY DEF sys_close, At, Pointed
<1>0. file' = EntryAfter(f)
  <2>1. file' = IF f = None THEN file
                ELSE IF f # None /\ file[f].count = 1 THEN [file EXCEPT ![f] = Unused]
                ELSE [file EXCEPT ![f].count = @ - 1]
    BY DEF sys_close
  <2> HIDE DEF f
  <2> QED
    BY <2>1, Zenon DEF EntryAfter, LastOne, Dropped, Counted
<1>2. \/ ~ LastOne(f) /\ Set(t, Closed(t, left)) /\ UNCHANGED pipe
      \/ LastOne(f) /\ IsPlain(f) /\ Set(t, PutNext(t, left)) /\ UNCHANGED pipe
      \/ /\ LastOne(f) /\ file[f].kind \in PipeEnds
         /\ ClosePipe([r EXCEPT ![t] = Closed(t, left)])
      \/ /\ LastOne(f) /\ Kindless(file, f) /\ UNCHANGED pipe
         /\ Set(t, Closed(t, left)) \/ Set(t, StaleNext(t, left))
  BY DEF sys_close, LastOne, IsPlain, PipeEnds, Kindless, Closed, PutNext, StaleNext, On
<1>3. d \in r[t].closing /\ d \in Fd
  <2>1. Sound(r[t])
    BY Facts
  <2>2. r[t].closing # {} /\ r[t].closing \subseteq Fd
    BY <1>1, <2>1 DEF Sound
  <2>3. r[t].closing \in SUBSET Nat
    BY <2>2, AllFinite
  <2>4. d \in r[t].closing
    BY <2>2, <2>3, MinIsLeast
  <2> QED
    BY <2>2, <2>4
<1>5. f = filp[t][d] /\ left = r[t].closing \ {d}
  OBVIOUS
<1> HIDE DEF d, f, left
<1>6. /\ After(t, left, Closed(t, left)) /\ Closed(t, left).pc # "iput"
      /\ After(t, left, PutNext(t, left)) /\ PutNext(t, left).pc = "iput"
      /\ After(t, left, StaleNext(t, left)) /\ StaleNext(t, left).pc # "iput"
  BY <1>1, <1>5, CloseRegisters
<1>7. CASE ~ LastOne(f) /\ Set(t, Closed(t, left)) /\ UNCHANGED pipe
  BY <1>0, <1>1, <1>3, <1>5, <1>6, <1>7, CloseSomeStep
<1>8. CASE LastOne(f) /\ IsPlain(f) /\ Set(t, PutNext(t, left)) /\ UNCHANGED pipe
  BY <1>0, <1>1, <1>3, <1>5, <1>6, <1>8, CloseFileStep
<1>9. CASE /\ LastOne(f) /\ file[f].kind \in PipeEnds
           /\ ClosePipe([r EXCEPT ![t] = Closed(t, left)])
  BY <1>0, <1>1, <1>3, <1>5, <1>6, <1>9, CloseEndStep
<1>10. CASE /\ LastOne(f) /\ Kindless(file, f) /\ UNCHANGED pipe
            /\ Set(t, Closed(t, left)) \/ Set(t, StaleNext(t, left))
  <2>1. CASE Set(t, Closed(t, left))
    BY <1>0, <1>1, <1>3, <1>5, <1>6, <1>10, <2>1, CloseSomeStep
  <2>2. CASE Set(t, StaleNext(t, left))
    BY <1>0, <1>1, <1>3, <1>5, <1>6, <1>10, <2>2, CloseSomeStep
  <2> QED
    BY <1>10, <2>1, <2>2
<1> QED
  BY <1>2, <1>7, <1>8, <1>9, <1>10

-----------------------------------------------------------------------------
(* The ring of the pipe                                                    *)

\* How far a place in a ring of N is behind another.
LEMMA Distance ==
  ASSUME NEW N \in Nat \ {0}, NEW h \in 0 .. N - 1, NEW t \in 0 .. N - 1
  PROVE  (h - t) % N = IF h >= t THEN h - t ELSE h - t + N
BY SMTT(30)

\* The place after the last one is the first.
LEMMA Wrapped ==
  ASSUME NEW N \in Nat \ {0}, NEW h \in 0 .. N
  PROVE  h % N = IF h = N THEN 0 ELSE h
BY SMTT(30)

\* The tail goes on by no more than there is: as much less is left.
LEMMA TailMoves ==
  ASSUME NEW N \in Nat \ {0}, NEW h \in 0 .. N - 1, NEW t \in 0 .. N - 1, NEW c \in Nat,
         c <= N - t, c <= (h - t) % N
  PROVE  /\ (t + c) % N \in 0 .. N - 1
         /\ (h - ((t + c) % N)) % N = ((h - t) % N) - c
         /\ c = N - t => (t + c) % N = 0
<1>1. t + c \in 0 .. N
  OBVIOUS
<1>2. (t + c) % N = IF t + c = N THEN 0 ELSE t + c
  BY <1>1, Wrapped
<1>3. (t + c) % N \in 0 .. N - 1
  BY <1>1, <1>2
<1> DEFINE u == (t + c) % N
           a == (h - t) % N
           b == (h - u) % N
<1>4. a = IF h >= t THEN h - t ELSE h - t + N
  BY Distance
<1>5. b = IF h >= u THEN h - u ELSE h - u + N
  BY <1>3, Distance
<1>6. c <= a /\ u = (IF t + c = N THEN 0 ELSE t + c)
  BY <1>2
<1> HIDE DEF a, b, u
<1>7. b = a - c
  BY <1>1, <1>4, <1>5, <1>6
<1> QED
  BY <1>2, <1>3, <1>7 DEF a, b, u

\* The head goes on by no more than there is room: there is as much more.
LEMMA HeadMoves ==
  ASSUME NEW N \in Nat \ {0}, NEW h \in 0 .. N - 1, NEW t \in 0 .. N - 1, NEW c \in Nat,
         c <= N - h, c <= (N - 1) - ((h - t) % N)
  PROVE  /\ (h + c) % N \in 0 .. N - 1
         /\ (((h + c) % N) - t) % N = ((h - t) % N) + c
         /\ c = N - h => (h + c) % N = 0
<1>1. h + c \in 0 .. N
  OBVIOUS
<1>2. (h + c) % N = IF h + c = N THEN 0 ELSE h + c
  BY <1>1, Wrapped
<1>3. (h + c) % N \in 0 .. N - 1
  BY <1>1, <1>2
<1> DEFINE u == (h + c) % N
           a == (h - t) % N
           b == (u - t) % N
<1>4. a = IF h >= t THEN h - t ELSE h - t + N
  BY Distance
<1>5. b = IF u >= t THEN u - t ELSE u - t + N
  BY <1>3, Distance
<1>6. c <= (N - 1) - a /\ u = (IF h + c = N THEN 0 ELSE h + c)
  BY <1>2
<1> HIDE DEF a, b, u
<1>7. b = a + c
  BY <1>1, <1>4, <1>5, <1>6
<1> QED
  BY <1>2, <1>3, <1>7 DEF a, b, u

\* The smallest of three numbers.
LEMMA LeastOfThree ==
  ASSUME NEW a \in Nat, NEW b \in Nat, NEW c \in Nat
  PROVE  /\ Min({a, b, c}) \in Nat
         /\ Min({a, b, c}) = a \/ Min({a, b, c}) = b \/ Min({a, b, c}) = c
         /\ Min({a, b, c}) <= a /\ Min({a, b, c}) <= b /\ Min({a, b, c}) <= c
<1> DEFINE T == {a, b, c}
<1>1. T \in SUBSET Nat /\ T # {} /\ a \in T /\ b \in T /\ c \in T
  OBVIOUS
<1>2. \A x \in T : x = a \/ x = b \/ x = c
  OBVIOUS
<1> HIDE DEF T
<1>3. Min(T) \in T /\ \A y \in T : Min(T) <= y
  BY <1>1, MinIsLeast
<1>4. /\ Min(T) \in Nat /\ (Min(T) = a \/ Min(T) = b \/ Min(T) = c)
      /\ Min(T) <= a /\ Min(T) <= b /\ Min(T) <= c
  BY <1>1, <1>2, <1>3
<1> QED
  BY <1>4 DEF T

\* How much there is in the ring, and how much room.
LEMMA SizeFacts ==
  ASSUME NEW p, Whole(p)
  PROVE  /\ PIPE_SIZE(p) \in 0 .. PAGE_SIZE - 1 /\ Room(p) \in 0 .. PAGE_SIZE - 1
         /\ Room(p) = (PAGE_SIZE - 1) - PIPE_SIZE(p)
         /\ PIPE_SIZE(p) = IF p.head >= p.tail THEN p.head - p.tail
                           ELSE p.head - p.tail + PAGE_SIZE
         /\ p.head \in 0 .. PAGE_SIZE - 1 /\ p.tail \in 0 .. PAGE_SIZE - 1
         /\ PAGE_SIZE \in Nat \ {0, 1}
<1>1. /\ PAGE_SIZE \in Nat \ {0, 1} /\ PAGE_SIZE \in Nat \ {0}
      /\ p.head \in 0 .. PAGE_SIZE - 1 /\ p.tail \in 0 .. PAGE_SIZE - 1
  BY FilesAssumption DEF Whole
<1>2. PIPE_SIZE(p) = IF p.head >= p.tail THEN p.head - p.tail
                     ELSE p.head - p.tail + PAGE_SIZE
  BY <1>1, Distance DEF PIPE_SIZE
<1>3. Room(p) = (PAGE_SIZE - 1) - PIPE_SIZE(p)
  BY DEF Room
<1> QED
  BY <1>1, <1>2, <1>3

\* One round of the loop of read_pipe: as much less is in the ring as less is
\* left to read; then nothing is left, or the ring is empty, or the tail is at
\* the start of the page.
LEMMA ReadRoundFacts ==
  ASSUME NEW x, Whole(x.p), x.left \in Nat
  PROVE  /\ Whole(ReadRound(x).p) /\ ReadRound(x).p.count = x.p.count
         /\ ReadRound(x).left \in Nat
         /\ \/ ReadRound(x).left = 0
            \/ PIPE_SIZE(ReadRound(x).p) = 0
            \/ ReadRound(x).p.tail = 0 /\ x.p.tail # 0
<1> DEFINE p == x.p
           N == PAGE_SIZE
           chars == Min({N - p.tail, x.left, PIPE_SIZE(p)})
           y == ReadRound(x)
<1>1. /\ PIPE_SIZE(p) \in 0 .. N - 1 /\ N \in Nat \ {0}
      /\ p.head \in 0 .. N - 1 /\ p.tail \in 0 .. N - 1
  BY SizeFacts
<1>2. N - p.tail \in Nat /\ PIPE_SIZE(p) \in Nat
  BY <1>1
<1>3. /\ chars \in Nat /\ (chars = N - p.tail \/ chars = x.left \/ chars = PIPE_SIZE(p))
      /\ chars <= N - p.tail /\ chars <= x.left /\ chars <= PIPE_SIZE(p)
  BY <1>2, LeastOfThree
<1>4. /\ y.p = [p EXCEPT !.tail = (p.tail + chars) % N]
      /\ y.left = x.left - chars
  BY DEF ReadRound
<1> HIDE DEF chars, y
<1>5. /\ (p.tail + chars) % N \in 0 .. N - 1
      /\ (p.head - ((p.tail + chars) % N)) % N = ((p.head - p.tail) % N) - chars
      /\ chars = N - p.tail => (p.tail + chars) % N = 0
  <2> DEFINE h == p.head
             k == p.tail
  <2>1. /\ h \in 0 .. N - 1 /\ k \in 0 .. N - 1 /\ N \in Nat \ {0} /\ chars \in Nat
        /\ chars <= N - k /\ chars <= (h - k) % N
    BY <1>1, <1>3 DEF PIPE_SIZE
  <2> HIDE DEF h, k, N
  <2>2. /\ (k + chars) % N \in 0 .. N - 1
        /\ (h - ((k + chars) % N)) % N = ((h - k) % N) - chars
        /\ chars = N - k => (k + chars) % N = 0
    BY <2>1, TailMoves
  <2> QED
    BY <2>2 DEF h, k, N
<1> DEFINE m == (p.tail + chars) % N
<1>6. y.p = [p EXCEPT !.tail = m]
  BY <1>4
<1>7. /\ m \in 0 .. N - 1 /\ (p.head - m) % N = PIPE_SIZE(p) - chars
      /\ chars = N - p.tail => m = 0
  BY <1>5 DEF PIPE_SIZE
<1> HIDE DEF m
<1>8. /\ Whole(y.p) /\ y.p.count = p.count /\ y.p.tail = m /\ y.p.head = p.head
  BY <1>6, <1>7 DEF Whole
<1>9. PIPE_SIZE(y.p) = PIPE_SIZE(p) - chars
  BY <1>7, <1>8 DEF PIPE_SIZE
<1>10. y.left = 0 \/ PIPE_SIZE(y.p) = 0 \/ (y.p.tail = 0 /\ p.tail # 0)
  <2>1. CASE chars = x.left
    BY <1>3, <1>4, <2>1
  <2>2. CASE chars = PIPE_SIZE(p)
    BY <1>1, <1>9, <2>2
  <2>3. CASE chars = N - p.tail
    <3>1. m = 0
      BY <1>7, <2>3
    <3>2. p.tail # 0
      BY <1>1, <1>3, <2>3
    <3> QED
      BY <1>8, <3>1, <3>2
  <2> QED
    BY <1>3, <2>1, <2>2, <2>3
<1>11. y.left \in Nat
  BY <1>3, <1>4
<1> QED
  BY <1>8, <1>10, <1>11 DEF y

\* One round of the loop of write_pipe.
LEMMA WriteRoundFacts ==
  ASSUME NEW x, Whole(x.p), x.left \in Nat
  PROVE  /\ Whole(WriteRound(x).p) /\ WriteRound(x).p.count = x.p.count
         /\ WriteRound(x).left \in Nat /\ WriteRound(x).left <= x.left
         /\ \/ WriteRound(x).left = 0
            \/ Room(WriteRound(x).p) = 0
            \/ WriteRound(x).p.head = 0 /\ x.p.head # 0
<1> DEFINE p == x.p
           N == PAGE_SIZE
           chars == Min({N - p.head, x.left, Room(p)})
           y == WriteRound(x)
<1>1. /\ Room(p) \in 0 .. N - 1 /\ N \in Nat \ {0} /\ PIPE_SIZE(p) \in 0 .. N - 1
      /\ Room(p) = (N - 1) - PIPE_SIZE(p)
      /\ p.head \in 0 .. N - 1 /\ p.tail \in 0 .. N - 1
  BY SizeFacts
<1>2. N - p.head \in Nat /\ Room(p) \in Nat
  BY <1>1
<1>3. /\ chars \in Nat /\ (chars = N - p.head \/ chars = x.left \/ chars = Room(p))
      /\ chars <= N - p.head /\ chars <= x.left /\ chars <= Room(p)
  BY <1>2, LeastOfThree
<1>4. /\ y.p = [p EXCEPT !.head = (p.head + chars) % N]
      /\ y.left = x.left - chars
  BY DEF WriteRound
<1> HIDE DEF chars, y
<1>5. /\ (p.head + chars) % N \in 0 .. N - 1
      /\ (((p.head + chars) % N) - p.tail) % N = ((p.head - p.tail) % N) + chars
      /\ chars = N - p.head => (p.head + chars) % N = 0
  <2> DEFINE h == p.head
             k == p.tail
  <2>1. /\ h \in 0 .. N - 1 /\ k \in 0 .. N - 1 /\ N \in Nat \ {0} /\ chars \in Nat
        /\ chars <= N - h /\ chars <= (N - 1) - ((h - k) % N)
    BY <1>1, <1>3 DEF PIPE_SIZE
  <2> HIDE DEF h, k, N
  <2>2. /\ (h + chars) % N \in 0 .. N - 1
        /\ (((h + chars) % N) - k) % N = ((h - k) % N) + chars
        /\ chars = N - h => (h + chars) % N = 0
    BY <2>1, HeadMoves
  <2> QED
    BY <2>2 DEF h, k, N
<1> DEFINE m == (p.head + chars) % N
<1>6. y.p = [p EXCEPT !.head = m]
  BY <1>4
<1>7. /\ m \in 0 .. N - 1 /\ (m - p.tail) % N = PIPE_SIZE(p) + chars
      /\ chars = N - p.head => m = 0
  BY <1>5 DEF PIPE_SIZE
<1> HIDE DEF m
<1>8. /\ Whole(y.p) /\ y.p.count = p.count /\ y.p.head = m /\ y.p.tail = p.tail
  BY <1>6, <1>7 DEF Whole
<1>9. PIPE_SIZE(y.p) = PIPE_SIZE(p) + chars
  BY <1>7, <1>8 DEF PIPE_SIZE
<1>10. Room(y.p) = Room(p) - chars
  BY <1>1, <1>3, <1>9 DEF Room
<1>11. y.left = 0 \/ Room(y.p) = 0 \/ (y.p.head = 0 /\ p.head # 0)
  <2>1. CASE chars = x.left
    BY <1>3, <1>4, <2>1
  <2>2. CASE chars = Room(p)
    BY <1>1, <1>10, <2>2
  <2>3. CASE chars = N - p.head
    <3>1. m = 0
      BY <1>7, <2>3
    <3>2. p.head # 0
      BY <1>1, <1>3, <2>3
    <3> QED
      BY <1>8, <3>1, <3>2
  <2> QED
    BY <1>3, <2>1, <2>2, <2>3
<1>12. y.left \in Nat /\ y.left <= x.left
  BY <1>3, <1>4
<1> QED
  BY <1>8, <1>11, <1>12 DEF y

\* After two rounds read_pipe has what it wants or the pipe is empty.
LEMMA TwoReads ==
  ASSUME NEW x, Whole(x.p), x.left \in Nat,
         NEW z, z.p = ReadRound(x).p, z.left = ReadRound(x).left
  PROVE  LET y == ReadRound(z) IN
         /\ Whole(z.p) /\ z.p.count = x.p.count /\ z.left \in Nat
         /\ Whole(y.p) /\ y.p.count = x.p.count /\ y.left \in Nat
         /\ y.left = 0 \/ PIPE_SIZE(y.p) = 0
<1> DEFINE y == ReadRound(z)
<1>1. /\ Whole(z.p) /\ z.p.count = x.p.count /\ z.left \in Nat
      /\ z.left = 0 \/ PIPE_SIZE(z.p) = 0 \/ (z.p.tail = 0 /\ x.p.tail # 0)
  BY ReadRoundFacts
<1>2. /\ Whole(y.p) /\ y.p.count = z.p.count /\ y.left \in Nat
      /\ y.left = 0 \/ PIPE_SIZE(y.p) = 0 \/ (y.p.tail = 0 /\ z.p.tail # 0)
  BY <1>1, ReadRoundFacts
<1>3. z.left = 0 \/ PIPE_SIZE(z.p) = 0 => y.left = z.left /\ PIPE_SIZE(y.p) = PIPE_SIZE(z.p)
  <2> HAVE z.left = 0 \/ PIPE_SIZE(z.p) = 0
  <2>1. /\ PIPE_SIZE(z.p) \in Nat /\ PAGE_SIZE - z.p.tail \in Nat
        /\ z.p.tail \in 0 .. PAGE_SIZE - 1 /\ PAGE_SIZE \in Nat \ {0}
    BY <1>1, SizeFacts
  <2> DEFINE chars == Min({PAGE_SIZE - z.p.tail, z.left, PIPE_SIZE(z.p)})
  <2>2. chars \in Nat /\ chars <= z.left /\ chars <= PIPE_SIZE(z.p)
    BY <1>1, <2>1, LeastOfThree
  <2>3. y.p = [z.p EXCEPT !.tail = (z.p.tail + chars) % PAGE_SIZE] /\ y.left = z.left - chars
    BY DEF ReadRound
  <2> HIDE DEF chars, y
  <2>4. chars = 0
    BY <1>1, <2>1, <2>2
  <2>5. (z.p.tail + chars) % PAGE_SIZE = z.p.tail
    BY <2>1, <2>4, Wrapped
  <2>6. y.p = [z.p EXCEPT !.tail = z.p.tail] /\ y.left = z.left
    BY <1>1, <2>3, <2>4, <2>5
  <2>7. y.p.head = z.p.head /\ y.p.tail = z.p.tail
    BY <1>1, <2>6 DEF Whole
  <2> QED
    BY <2>6, <2>7 DEF PIPE_SIZE
<1> HIDE DEF y
<1>4. y.left = 0 \/ PIPE_SIZE(y.p) = 0
  BY <1>1, <1>2, <1>3
<1> QED
  BY <1>1, <1>2, <1>4 DEF y

\* After two rounds write_pipe is done or the pipe is full.  z: the ring after
\* the first round, with its bytes.
LEMMA TwoWrites ==
  ASSUME NEW x, Whole(x.p), x.left \in Nat,
         NEW z, Whole(z.p), z.p.count = WriteRound(x).p.count,
         z.p.head = WriteRound(x).p.head, Room(z.p) = Room(WriteRound(x).p),
         z.left = WriteRound(x).left
  PROVE  LET y == WriteRound(z) IN
         /\ z.p.count = x.p.count /\ z.left \in Nat /\ z.left <= x.left
         /\ Whole(y.p) /\ y.p.count = x.p.count /\ y.left \in Nat /\ y.left <= x.left
         /\ y.left = 0 \/ Room(y.p) = 0
<1> DEFINE y == WriteRound(z)
<1>1. /\ Whole(z.p) /\ z.p.count = x.p.count /\ z.left \in Nat /\ z.left <= x.left
      /\ z.left = 0 \/ Room(z.p) = 0 \/ (z.p.head = 0 /\ x.p.head # 0)
  BY WriteRoundFacts
<1>2. /\ Whole(y.p) /\ y.p.count = z.p.count /\ y.left \in Nat /\ y.left <= z.left
      /\ y.left = 0 \/ Room(y.p) = 0 \/ (y.p.head = 0 /\ z.p.head # 0)
  BY <1>1, WriteRoundFacts
<1>3. z.left = 0 \/ Room(z.p) = 0 => y.left = z.left /\ Room(y.p) = Room(z.p)
  <2> HAVE z.left = 0 \/ Room(z.p) = 0
  <2>1. /\ Room(z.p) \in Nat /\ PAGE_SIZE - z.p.head \in Nat
        /\ z.p.head \in 0 .. PAGE_SIZE - 1 /\ PAGE_SIZE \in Nat \ {0}
    BY <1>1, SizeFacts
  <2> DEFINE chars == Min({PAGE_SIZE - z.p.head, z.left, Room(z.p)})
  <2>2. chars \in Nat /\ chars <= z.left /\ chars <= Room(z.p)
    BY <1>1, <2>1, LeastOfThree
  <2>3. y.p = [z.p EXCEPT !.head = (z.p.head + chars) % PAGE_SIZE] /\ y.left = z.left - chars
    BY DEF WriteRound
  <2> HIDE DEF chars, y
  <2>4. chars = 0
    BY <1>1, <2>1, <2>2
  <2>5. (z.p.head + chars) % PAGE_SIZE = z.p.head
    BY <2>1, <2>4, Wrapped
  <2>6. y.p = [z.p EXCEPT !.head = z.p.head] /\ y.left = z.left
    BY <1>1, <2>3, <2>4, <2>5
  <2>7. y.p.head = z.p.head /\ y.p.tail = z.p.tail
    BY <1>1, <2>6 DEF Whole
  <2> QED
    BY <2>6, <2>7 DEF PIPE_SIZE, Room
<1> HIDE DEF y
<1>4. y.left = 0 \/ Room(y.p) = 0
  BY <1>1, <1>2, <1>3
<1> QED
  BY <1>1, <1>2, <1>4 DEF y

\* The bytes that are copied to the ring leave its head and tail alone.
LEMMA FilledFacts ==
  ASSUME NEW p, Whole(p), NEW at, NEW s
  PROVE  /\ Whole(Filled(p, at, s)) /\ Filled(p, at, s).count = p.count
         /\ PIPE_SIZE(Filled(p, at, s)) = PIPE_SIZE(p)
         /\ Room(Filled(p, at, s)) = Room(p) /\ Filled(p, at, s).head = p.head
<1> DEFINE b == [i \in DOMAIN p.buf |->
                   IF \E n \in DOMAIN at : at[n] = i
                   THEN s[CHOOSE n \in DOMAIN at : at[n] = i] ELSE p.buf[i]]
           e == Filled(p, at, s)
<1>1. e = [p EXCEPT !.buf = b]
  BY DEF Filled
<1> HIDE DEF b, e
<1>2. Whole(e) /\ e.count = p.count /\ e.head = p.head /\ e.tail = p.tail
  BY <1>1 DEF Whole
<1>3. PIPE_SIZE(e) = PIPE_SIZE(p) /\ Room(e) = Room(p)
  BY <1>2 DEF PIPE_SIZE, Room
<1> QED
  BY <1>2, <1>3 DEF e

\* Those who sleep are told.
LEMMA ToldFacts ==
  ASSUME NEW p, Whole(p)
  PROVE  /\ Whole(Told(p)) /\ Told(p).count = p.count
         /\ PIPE_SIZE(Told(p)) = PIPE_SIZE(p) /\ Room(Told(p)) = Room(p)
<1> DEFINE e == Told(p)
<1>1. e = [p EXCEPT !.untold = FALSE]
  BY DEF Told
<1> HIDE DEF e
<1>2. Whole(e) /\ e.count = p.count /\ e.head = p.head /\ e.tail = p.tail
  BY <1>1 DEF Whole
<1>3. PIPE_SIZE(e) = PIPE_SIZE(p) /\ Room(e) = Room(p)
  BY <1>2 DEF PIPE_SIZE, Room
<1> QED
  BY <1>2, <1>3 DEF e

\* The places that write_pipe copies to are numbers, as many as the bytes that
\* are no longer left to be written.
LEMMA PlacesOfRound ==
  ASSUME NEW x, Whole(x.p), x.left \in Nat, x.at = << >>
  PROVE  /\ WriteRound(x).at \in Seq(Int)
         /\ WriteRound(x).left + Len(WriteRound(x).at) = x.left
<1> DEFINE chars == Min({PAGE_SIZE - x.p.head, x.left, Room(x.p)})
           a == x.p.head
           g == [i \in 1 .. chars |-> a + i - 1]
           y == WriteRound(x)
<1>1. a \in Int /\ PAGE_SIZE - a \in Nat /\ Room(x.p) \in Nat
  BY SizeFacts
<1>2. chars \in Nat
  BY <1>1, LeastOfThree
<1>3. y.at = << >> \o g /\ y.left = x.left - chars
  BY DEF WriteRound
<1> HIDE DEF chars, a, y
<1>4. g \in Seq(Int) /\ Len(g) = chars
  BY <1>1, <1>2
<1> HIDE DEF g
<1>5. << >> \o g = g
  BY <1>4
<1>6. y.at \in Seq(Int) /\ y.left + Len(y.at) = x.left
  BY <1>2, <1>3, <1>4, <1>5
<1> QED
  BY <1>6 DEF y

\* The registers of a task in the pipe.
LEMMA PipeSound ==
  ASSUME NEW q, Shaped(q), q.pc \in Piping, q.next = "user", q.fd = {}, q.closing = {},
         q.keeps = 3,
         q.pc \in {"read_pipe", "sleep_read", "put_fs_byte"} => q.need \in Nat,
         q.pc \in {"write_pipe", "sleep_write", "get_fs_byte"} => q.put \in Seq(Byte),
         q.pc = "get_fs_byte" => q.at \in Seq(Int)
  PROVE  Sound(q)
BY DEF Sound, Filing, Piping, Opening

\* They mean the same for the descriptors as those at any point of the pipe or
\* the terminal.
LEMMA PipingAlike ==
  ASSUME NEW p, Sound(p), p.pc \in Piping \cup Terminal,
         NEW q, q.pc \in {"user"} \cup Piping \cup Terminal, q.next = "user",
         q.fd = {}, q.closing = {}, q.keeps = 3
  PROVE  Alike(p, q)
<1>1. /\ p.pc \notin {"closing", "iput", "stale_iput", "leave", "dead", "absent"}
      /\ p.pc \notin Opening
  BY DEF Piping, Terminal, Opening
<1>2. p.fd = {} /\ p.closing = {} /\ p.next # "leave" /\ p.keeps = 3
  BY <1>1 DEF Sound
<1>3. q.pc \notin {"absent", "iput"}
  BY DEF Piping, Terminal
<1> QED
  BY <1>1, <1>2, <1>3 DEF Alike

\* A step that leaves the tables alone and moves bytes in the ring.
LEMMA RingStep ==
  ASSUME FilesInv, UNCHANGED <<table, inodes>>, pipe'.count = pipe.count, Whole(pipe'),
         RegisterInv', \A u \in Task : Alike(r[u], r'[u]), SleepersMustWait'
  PROVE  FilesInv'
<1>1. file' = file /\ filp' = filp /\ cloexec' = cloexec /\ inodes' = inodes
  BY DEF table
<1>2. TypeInv'
  BY <1>1 DEF FilesInv, TypeInv
<1>3. CountInv'
  <2>1. CountInv
    BY DEF FilesInv
  <2> QED
    BY <1>1, <2>1, Zenon DEF CountInv, Leads
<1>4. InodeInv'
  <2>1. Kept(r') = Kept(r) /\ Puts(r') = Puts(r)
    BY AlikeCounts
  <2> QED
    BY <1>1, <2>1 DEF FilesInv, InodeInv
<1>5. PipeInv'
  BY <1>1 DEF FilesInv, PipeInv
<1>6. FitInv'
  <2>1. \A u \in Task : Fits(u, r'[u], filp[u], cloexec[u], file)
    BY AlikeFits DEF FilesInv, FitInv
  <2> QED
    BY <1>1, <2>1, Zenon DEF FitInv
<1> QED
  BY <1>2, <1>3, <1>4, <1>5, <1>6 DEF FilesInv

\* A task is done in the pipe, and all who sleep in it are woken.
LEMMA DoneStep ==
  ASSUME FilesInv, UNCHANGED <<table, inodes>>, pipe'.count = pipe.count, Whole(pipe'),
         NEW t \in Task, r[t].pc \in Piping, Done(t)
  PROVE  FilesInv'
<1> DEFINE tab == [r EXCEPT ![t] = Registers]
<1>1. r = [u \in Task |-> r[u]] /\ \A u \in Task : Sound(r[u])
  BY DEF FilesInv, RegisterInv
<1>2. \A u \in Task : tab[u] = IF u = t THEN Registers ELSE r[u]
  BY <1>1
<1>3. r' = Woken(tab)
  BY DEF Done
<1> HIDE DEF tab
<1>4. Alike(r[t], Registers)
  <2>1. /\ Registers.pc = "user" /\ Registers.next = "user" /\ Registers.fd = {}
        /\ Registers.closing = {} /\ Registers.keeps = 3
    BY DEF Registers
  <2> QED
    BY <1>1, <2>1, PipingAlike
<1>5. \A u \in Task : Sound(tab[u]) /\ Alike(r[u], tab[u])
  BY <1>1, <1>2, <1>4, RegistersSound DEF Alike
<1>6. /\ RegisterInv'
      /\ \A u \in Task : Alike(tab[u], r'[u]) /\ r'[u].pc \notin Sleeping
  BY <1>3, <1>5, WokenFacts DEF RegisterInv
<1>7. \A u \in Task : Alike(r[u], r'[u])
  BY <1>5, <1>6 DEF Alike
<1>8. SleepersMustWait'
  BY <1>6 DEF SleepersMustWait, At, Sleeping
<1> QED
  BY <1>6, <1>7, <1>8, RingStep

\* A task goes to sleep in the pipe, after it has woken the others.
LEMMA AsleepStep ==
  ASSUME FilesInv, UNCHANGED <<table, inodes>>, pipe'.count = pipe.count, Whole(pipe'),
         NEW t \in Task, r[t].pc \in Piping, NEW e, r' = [Woken(r) EXCEPT ![t] = e],
         Sound(e), Alike(r[t], e), e.pc \in Sleeping, pipe.count = 2,
         e.pc = "sleep_read" => PIPE_SIZE(pipe') = 0,
         e.pc = "sleep_write" => Room(pipe') = 0
  PROVE  FilesInv'
<1>1. \A u \in Task : Sound(r[u])
  BY DEF FilesInv, RegisterInv
<1> DEFINE w == Woken(r)
<1>2. /\ DOMAIN w = Task /\ w = [u \in Task |-> w[u]]
      /\ \A u \in Task : Sound(w[u]) /\ Alike(r[u], w[u]) /\ w[u].pc \notin Sleeping
  BY <1>1, WokenFacts
<1>3. r' = [w EXCEPT ![t] = e]
  OBVIOUS
<1> HIDE DEF w
<1>4. \A u \in Task : r'[u] = IF u = t THEN e ELSE w[u]
  BY <1>2, <1>3
<1>5. DOMAIN r' = Task /\ r' = [u \in Task |-> r'[u]]
  BY <1>2, <1>3
<1>6. RegisterInv'
  BY <1>2, <1>4, <1>5 DEF RegisterInv
<1>7. \A u \in Task : Alike(r[u], r'[u])
  BY <1>2, <1>4
<1>8. SleepersMustWait'
  <2>1. ASSUME NEW u \in Task
        PROVE  /\ r'[u].pc = "sleep_read" => PIPE_SIZE(pipe') = 0
               /\ r'[u].pc = "sleep_write" => Room(pipe') = 0
    BY <1>2, <1>4 DEF Sleeping
  <2>2. pipe'.count = 2
    OBVIOUS
  <2> QED
    BY <2>1, <2>2 DEF SleepersMustWait, At, PIPE_SIZE, Room
<1> QED
  BY <1>6, <1>7, <1>8, RingStep

\* A task waits in a page fault: nobody need be told yet.
LEMMA FaultStep ==
  ASSUME FilesInv, UNCHANGED <<table, inodes>>, pipe'.count = pipe.count, Whole(pipe'),
         NEW t \in Task, r[t].pc \in Piping, NEW e, Set(t, e),
         Sound(e), Alike(r[t], e), e.pc \in InFault
  PROVE  FilesInv'
<1>1. RegisterInv /\ \A u \in Task : Sound(r[u])
  BY DEF FilesInv, RegisterInv
<1>2. RegisterInv' /\ \A u \in Task : r'[u] = IF u = t THEN e ELSE r[u]
  BY <1>1, RegisterStep
<1>3. \A u \in Task : Alike(r[u], r'[u])
  BY <1>2 DEF Alike
<1>4. SleepersMustWait'
  <2>1. t \in Copying'
    BY <1>2 DEF Copying, InFault
  <2>2. SleepersMustWait /\ e.pc \notin {"sleep_read", "sleep_write"}
    BY DEF FilesInv, InFault
  <2> QED
    BY <1>2, <2>1, <2>2 DEF SleepersMustWait, At
<1> QED
  BY <1>2, <1>3, <1>4, RingStep

\* The copy of read_pipe sleeps.
LEMMA ReadFault ==
  ASSUME FilesInv, UNCHANGED <<table, inodes>>, NEW t \in Task, r[t].pc \in Piping,
         NEW x, pipe' = x.p, Whole(x.p), x.p.count = pipe.count, x.left \in Nat,
         Fault(t, x, "put_fs_byte", [Registers EXCEPT !.need = x.left])
  PROVE  FilesInv'
<1> DEFINE e == [[Registers EXCEPT !.need = x.left] EXCEPT !.pc = "put_fs_byte", !.at = x.at]
<1>1. Set(t, e)
  BY DEF Fault
<1>2. Shaped(e)
  BY DEF Shaped, Registers
<1>3. /\ e.pc = "put_fs_byte" /\ e.next = "user" /\ e.fd = {} /\ e.closing = {}
      /\ e.keeps = 3 /\ e.need = x.left
  BY DEF Registers
<1> HIDE DEF e
<1>4. Sound(e)
  BY <1>2, <1>3, PipeSound DEF Piping
<1>5. Alike(r[t], e)
  <2>1. Sound(r[t])
    BY Facts
  <2> QED
    BY <1>3, <2>1, PipingAlike DEF Piping
<1>6. e.pc \in InFault
  BY <1>3 DEF InFault
<1>7. Whole(pipe') /\ pipe'.count = pipe.count
  OBVIOUS
<1> QED
  BY <1>1, <1>4, <1>5, <1>6, <1>7, FaultStep

\* The loop of read_pipe, to each of its ends.
LEMMA ReadOnStep ==
  ASSUME FilesInv, NEW t \in Task, r[t].pc \in {"read_pipe", "put_fs_byte"},
         NEW before, ReadOn(t, r[t].need, before)
  PROVE  FilesInv'
<1> DEFINE y == [p |-> pipe, left |-> r[t].need, at |-> << >>]
           one == ReadRound(y)
           z == [one EXCEPT !.at = << >>]
           x == ReadRound(z)
           q == [Registers EXCEPT !.need = x.left]
           e == [q EXCEPT !.pc = "sleep_read"]
<1>1. Sound(r[t]) /\ r[t].pc \in Piping
  BY Facts DEF Piping
<1>2. Whole(pipe) /\ r[t].need \in Nat
  BY <1>1 DEF FilesInv, TypeInv, Sound
<1>3. y.p = pipe /\ y.left = r[t].need
  OBVIOUS
<1>4. UNCHANGED <<table, inodes>>
  BY DEF ReadOn
<1>5. \/ pipe' = Told(x.p) /\ Done(t)
      \/ pipe' = Told(x.p) /\ pipe.count = 2 /\ x.left # 0 /\ Sleep(t, q, "sleep_read")
      \/ pipe' = one.p /\ Fault(t, one, "put_fs_byte", [Registers EXCEPT !.need = one.left])
      \/ pipe' = x.p /\ Fault(t, x, "put_fs_byte", [Registers EXCEPT !.need = x.left])
  BY DEF ReadOn
<1> HIDE DEF y
<1>6. z.p = one.p /\ z.left = one.left
  BY DEF ReadRound
<1> HIDE DEF z, x
<1>7. /\ Whole(z.p) /\ z.p.count = y.p.count /\ z.left \in Nat
      /\ Whole(x.p) /\ x.p.count = y.p.count /\ x.left \in Nat
      /\ x.left = 0 \/ PIPE_SIZE(x.p) = 0
  BY <1>2, <1>3, <1>6, TwoReads DEF x
<1> HIDE DEF one
<1>8. /\ Whole(Told(x.p)) /\ Told(x.p).count = pipe.count
      /\ PIPE_SIZE(Told(x.p)) = PIPE_SIZE(x.p)
  BY <1>3, <1>7, ToldFacts
<1>9. CASE pipe' = Told(x.p) /\ Done(t)
  BY <1>1, <1>4, <1>8, <1>9, DoneStep
<1>10. CASE pipe' = Told(x.p) /\ pipe.count = 2 /\ x.left # 0 /\ Sleep(t, q, "sleep_read")
  <2>1. Shaped(e)
    BY DEF Shaped, Registers
  <2>2. /\ e.pc = "sleep_read" /\ e.next = "user" /\ e.fd = {} /\ e.closing = {}
        /\ e.keeps = 3 /\ e.need = x.left
    BY DEF Registers
  <2>3. r' = [Woken(r) EXCEPT ![t] = e]
    BY <1>10 DEF Sleep
  <2> HIDE DEF e, q
  <2>4. Sound(e)
    BY <1>7, <2>1, <2>2, PipeSound DEF Piping
  <2>5. Alike(r[t], e)
    BY <1>1, <2>2, PipingAlike DEF Piping
  <2>6. e.pc \in Sleeping /\ e.pc # "sleep_write"
    BY <2>2 DEF Sleeping
  <2>7. PIPE_SIZE(pipe') = 0 /\ Whole(pipe') /\ pipe'.count = pipe.count
    BY <1>7, <1>8, <1>10
  <2> QED
    BY <1>1, <1>4, <1>10, <2>3, <2>4, <2>5, <2>6, <2>7, AsleepStep
<1>11. CASE pipe' = one.p /\ Fault(t, one, "put_fs_byte", [Registers EXCEPT !.need = one.left])
  <2>1. Whole(one.p) /\ one.p.count = pipe.count /\ one.left \in Nat
    BY <1>3, <1>6, <1>7
  <2> QED
    BY <1>1, <1>4, <1>11, <2>1, ReadFault
<1>12. CASE pipe' = x.p /\ Fault(t, x, "put_fs_byte", [Registers EXCEPT !.need = x.left])
  <2>1. Whole(x.p) /\ x.p.count = pipe.count /\ x.left \in Nat
    BY <1>3, <1>7
  <2> QED
    BY <1>1, <1>4, <1>12, <2>1, ReadFault
<1> QED
  BY <1>5, <1>9, <1>10, <1>11, <1>12

\* The end of a text is a text.
LEMMA EndOfText ==
  ASSUME NEW s \in Seq(Byte), NEW m \in Nat \ {0}
  PROVE  SubSeq(s, m, Len(s)) \in Seq(Byte)
OBVIOUS

\* The copy of write_pipe sleeps.
LEMMA WriteFault ==
  ASSUME FilesInv, UNCHANGED <<table, inodes>>, NEW t \in Task, r[t].pc \in Piping,
         NEW x, pipe' = x.p, Whole(x.p), x.p.count = pipe.count, x.at \in Seq(Int),
         NEW s \in Seq(Byte), Fault(t, x, "get_fs_byte", [Registers EXCEPT !.put = s])
  PROVE  FilesInv'
<1> DEFINE e == [[Registers EXCEPT !.put = s] EXCEPT !.pc = "get_fs_byte", !.at = x.at]
<1>1. Set(t, e)
  BY DEF Fault
<1>2. Shaped(e)
  BY DEF Shaped, Registers
<1>3. /\ e.pc = "get_fs_byte" /\ e.next = "user" /\ e.fd = {} /\ e.closing = {}
      /\ e.keeps = 3 /\ e.put = s /\ e.at = x.at
  BY DEF Registers
<1> HIDE DEF e
<1>4. Sound(e)
  BY <1>2, <1>3, PipeSound DEF Piping
<1>5. Alike(r[t], e)
  <2>1. Sound(r[t])
    BY Facts
  <2> QED
    BY <1>3, <2>1, PipingAlike DEF Piping
<1>6. e.pc \in InFault
  BY <1>3 DEF InFault
<1>7. Whole(pipe') /\ pipe'.count = pipe.count
  OBVIOUS
<1> QED
  BY <1>1, <1>4, <1>5, <1>6, <1>7, FaultStep

\* The loop of write_pipe, to each of its ends.  ring: the ring with what has
\* been copied since.
LEMMA WriteOnStep ==
  ASSUME FilesInv, NEW t \in Task, r[t].pc \in {"write_pipe", "get_fs_byte"},
         NEW ring, Whole(ring), ring.count = pipe.count,
         NEW text \in Seq(Byte), WriteOn(t, ring, text)
  PROVE  FilesInv'
<1> DEFINE n == Len(text)
           y == [p |-> ring, left |-> n, at |-> << >>]
           one == WriteRound(y)
           z == [p |-> Filled(one.p, one.at, text), left |-> one.left, at |-> << >>]
           x == WriteRound(z)
           Rest(w) == SubSeq(text, n - w.left - Len(w.at) + 1, n)
           left == SubSeq(text, n - x.left + 1, n)
           full == Filled(x.p, x.at, Rest(x))
           q == [Registers EXCEPT !.put = left]
           e == [q EXCEPT !.pc = "sleep_write"]
<1>1. Sound(r[t]) /\ r[t].pc \in Piping
  BY Facts DEF Piping
<1>2. n \in Nat
  OBVIOUS
<1>3. y.p = ring /\ y.left = n /\ y.at = << >>
  OBVIOUS
<1>4. UNCHANGED <<table, inodes>>
  BY DEF WriteOn
<1>5. \/ pipe' = Told(full) /\ Done(t)
      \/ pipe' = Told(full) /\ pipe.count = 2 /\ x.left # 0 /\ Sleep(t, q, "sleep_write")
      \/ pipe' = one.p /\ Fault(t, one, "get_fs_byte", [Registers EXCEPT !.put = Rest(one)])
      \/ pipe' = x.p /\ Fault(t, x, "get_fs_byte", [Registers EXCEPT !.put = Rest(x)])
  BY DEF WriteOn
<1> HIDE DEF y
<1>6. /\ Whole(one.p) /\ one.p.count = ring.count /\ one.left \in Nat
      /\ one.at \in Seq(Int) /\ one.left + Len(one.at) = n
  BY <1>2, <1>3, WriteRoundFacts, PlacesOfRound
<1>7. z.p = Filled(one.p, one.at, text) /\ z.left = one.left /\ z.at = << >>
  OBVIOUS
<1> HIDE DEF z, x
<1>8. /\ Whole(z.p) /\ z.p.count = one.p.count /\ z.p.head = one.p.head
      /\ Room(z.p) = Room(one.p)
  BY <1>6, <1>7, FilledFacts
<1>9. /\ Whole(x.p) /\ x.p.count = ring.count /\ x.left \in Nat /\ x.left <= n
      /\ x.left = 0 \/ Room(x.p) = 0
  BY <1>2, <1>3, <1>7, <1>8, TwoWrites DEF x
<1>10. x.at \in Seq(Int) /\ x.left + Len(x.at) = one.left
  BY <1>6, <1>7, <1>8, PlacesOfRound DEF x
<1> HIDE DEF one
<1>11. left \in Seq(Byte) /\ Rest(one) \in Seq(Byte) /\ Rest(x) \in Seq(Byte)
  <2> DEFINE a == Len(one.at)
             b == Len(x.at)
             c == one.left
             d == x.left
             k == n
  <2>1. /\ a \in Nat /\ b \in Nat /\ c \in Nat /\ d \in Nat /\ k \in Nat
        /\ c + a = k /\ d + b = c
    BY <1>6, <1>9, <1>10
  <2> HIDE DEF a, b, c, d, k
  <2>2. k - d + 1 \in Nat \ {0} /\ k - c - a + 1 \in Nat \ {0} /\ k - d - b + 1 \in Nat \ {0}
    BY <2>1
  <2>3. \A m \in Nat \ {0} : SubSeq(text, m, n) \in Seq(Byte)
    BY EndOfText
  <2> QED
    BY <2>2, <2>3 DEF a, b, c, d, k
<1> HIDE DEF n, left, Rest
<1>12. Whole(full) /\ full.count = x.p.count /\ Room(full) = Room(x.p)
  BY <1>9, FilledFacts
<1> HIDE DEF full
<1>13. /\ Whole(Told(full)) /\ Told(full).count = pipe.count
       /\ Room(Told(full)) = Room(x.p)
  BY <1>9, <1>12, ToldFacts
<1>14. CASE pipe' = Told(full) /\ Done(t)
  BY <1>1, <1>4, <1>13, <1>14, DoneStep
<1>15. CASE pipe' = Told(full) /\ pipe.count = 2 /\ x.left # 0 /\ Sleep(t, q, "sleep_write")
  <2>1. Shaped(e)
    BY DEF Shaped, Registers
  <2>2. /\ e.pc = "sleep_write" /\ e.next = "user" /\ e.fd = {} /\ e.closing = {}
        /\ e.keeps = 3 /\ e.put = left
    BY DEF Registers
  <2>3. r' = [Woken(r) EXCEPT ![t] = e]
    BY <1>15 DEF Sleep
  <2> HIDE DEF e, q
  <2>4. Sound(e)
    BY <1>11, <2>1, <2>2, PipeSound DEF Piping
  <2>5. Alike(r[t], e)
    BY <1>1, <2>2, PipingAlike DEF Piping
  <2>6. e.pc \in Sleeping /\ e.pc # "sleep_read"
    BY <2>2 DEF Sleeping
  <2>7. Room(pipe') = 0 /\ Whole(pipe') /\ pipe'.count = pipe.count
    BY <1>9, <1>13, <1>15
  <2> QED
    BY <1>1, <1>4, <1>15, <2>3, <2>4, <2>5, <2>6, <2>7, AsleepStep
<1>16. CASE pipe' = one.p /\ Fault(t, one, "get_fs_byte", [Registers EXCEPT !.put = Rest(one)])
  BY <1>1, <1>4, <1>6, <1>11, <1>16, WriteFault
<1>17. CASE pipe' = x.p /\ Fault(t, x, "get_fs_byte", [Registers EXCEPT !.put = Rest(x)])
  BY <1>1, <1>4, <1>9, <1>10, <1>11, <1>17, WriteFault
<1> QED
  BY <1>5, <1>14, <1>15, <1>16, <1>17

\* read_pipe and write_pipe, from their start or from where the copy slept.
LEMMA PipeStep ==
  ASSUME FilesInv, NEW t \in Task,
         read_pipe(t) \/ put_fs_byte(t) \/ write_pipe(t) \/ get_fs_byte(t)
  PROVE  FilesInv'
<1>1. Whole(pipe) /\ Sound(r[t])
  BY Facts DEF FilesInv, TypeInv
<1>2. CASE read_pipe(t)
  BY <1>2, ReadOnStep DEF read_pipe, At
<1>3. CASE put_fs_byte(t)
  BY <1>3, ReadOnStep DEF put_fs_byte, At
<1>4. CASE write_pipe(t)
  <2>1. r[t].pc = "write_pipe" /\ WriteOn(t, pipe, r[t].put)
    BY <1>4 DEF write_pipe, At
  <2>2. r[t].put \in Seq(Byte)
    BY <1>1, <2>1 DEF Sound
  <2> QED
    BY <1>1, <2>1, <2>2, WriteOnStep
<1>5. CASE get_fs_byte(t)
  <2> DEFINE ring == Filled(pipe, r[t].at, r[t].put)
             text == SubSeq(r[t].put, Len(r[t].at) + 1, Len(r[t].put))
  <2>1. r[t].pc = "get_fs_byte" /\ WriteOn(t, ring, text)
    BY <1>5 DEF get_fs_byte, At
  <2>2. r[t].put \in Seq(Byte) /\ r[t].at \in Seq(Int)
    BY <1>1, <2>1 DEF Sound
  <2>3. Len(r[t].at) + 1 \in Nat \ {0}
    BY <2>2
  <2>4. text \in Seq(Byte)
    BY <2>2, <2>3, EndOfText
  <2>5. Whole(ring) /\ ring.count = pipe.count
    BY <1>1, FilledFacts
  <2> HIDE DEF ring, text
  <2> QED
    BY <2>1, <2>4, <2>5, WriteOnStep
<1> QED
  BY <1>2, <1>3, <1>4, <1>5

-----------------------------------------------------------------------------
(* The terminal                                                            *)

\* A step that changes nothing the invariant speaks of.
LEMMA StillStep ==
  ASSUME FilesInv, UNCHANGED <<table, inodes, pipe, r>>
  PROVE  FilesInv'
<1>1. /\ file' = file /\ filp' = filp /\ cloexec' = cloexec /\ inodes' = inodes
      /\ pipe' = pipe /\ r' = r
  BY DEF table
<1>2. \A u \in Task : Alike(r[u], r'[u])
  BY <1>1 DEF Alike
<1>3. RegisterInv' /\ SleepersMustWait' /\ Whole(pipe') /\ pipe'.count = pipe.count
  <2>1. RegisterInv /\ SleepersMustWait /\ Whole(pipe)
    BY DEF FilesInv, TypeInv
  <2>2. RegisterInv'
    BY <1>1, <2>1, Zenon DEF RegisterInv
  <2>3. SleepersMustWait'
    BY <1>1, <2>1, Zenon DEF SleepersMustWait, At, Copying, PIPE_SIZE, Room
  <2> QED
    BY <1>1, <2>1, <2>2, <2>3, Zenon
<1> QED
  BY <1>2, <1>3, RingStep

\* Another point of the terminal, whatever is left to do there.
LEMMA TerminalSound ==
  ASSUME NEW p, Sound(p), p.pc \in Terminal, NEW q, Shaped(q), q.pc \in Terminal,
         q.fd = p.fd, q.closing = p.closing, q.next = p.next, q.keeps = p.keeps,
         q.old = p.old, q.new = p.new
  PROVE  Sound(q) /\ Alike(p, q)
<1>1. Alike(p, q)
  BY DEF Alike, Terminal
<1>2. Sound(q)
  BY DEF Sound, Filing, Piping, Terminal, Opening
<1> QED
  BY <1>1, <1>2

\* A task moves in the terminal, or leaves it.
LEMMA TerminalStep ==
  ASSUME FilesInv, NEW t \in Task, r[t].pc \in Terminal, NEW q, Set(t, q), Frame,
         Sound(q), Alike(r[t], q), q.pc \in {"user"} \cup Terminal
  PROVE  FilesInv'
<1>1. UNCHANGED <<table, inodes, pipe>>
  BY DEF Frame
<1>2. RegisterInv /\ SleepersMustWait /\ Whole(pipe)
  BY DEF FilesInv, TypeInv
<1>3. RegisterInv' /\ \A u \in Task : r'[u] = IF u = t THEN q ELSE r[u]
  BY <1>2, RegisterStep
<1>4. \A u \in Task : Alike(r[u], r'[u])
  BY <1>3 DEF Alike
<1>5. SleepersMustWait'
  <2>1. r[t].pc \notin {"put_fs_byte", "get_fs_byte"} /\ q.pc \notin {"sleep_read", "sleep_write"}
    BY DEF Terminal
  <2> QED
    BY <1>1, <1>2, <2>1, SleepStep
<1>6. Whole(pipe') /\ pipe'.count = pipe.count
  BY <1>1, <1>2
<1> QED
  BY <1>1, <1>3, <1>4, <1>5, <1>6, RingStep

\* The call is over.
LEMMA TerminalLeft ==
  ASSUME FilesInv, NEW t \in Task, r[t].pc \in Terminal, Leave(t), Frame
  PROVE  FilesInv'
<1>1. /\ Registers.pc = "user" /\ Registers.next = "user" /\ Registers.fd = {}
      /\ Registers.closing = {} /\ Registers.keeps = 3
  BY DEF Registers
<1>2. Sound(r[t]) /\ Sound(Registers) /\ Set(t, Registers)
  BY Facts, RegistersSound DEF Leave
<1>3. Alike(r[t], Registers)
  BY <1>1, <1>2, PipingAlike
<1> QED
  BY <1>1, <1>2, <1>3, TerminalStep

\* The task goes on at another point.
LEMMA TerminalGoes ==
  ASSUME FilesInv, NEW t \in Task, r[t].pc \in Terminal, NEW p \in Terminal,
         Set(t, [r[t] EXCEPT !.pc = p]), Frame
  PROVE  FilesInv'
<1> DEFINE q == [r[t] EXCEPT !.pc = p]
<1>1. Sound(r[t])
  BY Facts
<1>2. Sound(q) /\ Alike(r[t], q) /\ q.pc = p
  BY <1>1, MovedSound
<1>3. Set(t, q)
  OBVIOUS
<1> HIDE DEF q
<1> QED
  BY <1>2, <1>3, TerminalStep

\* tty_read up to its next sleep, or to GETCH.
LEMMA TtyReadStep ==
  ASSUME FilesInv, NEW t \in Task, tty_read(t)
  PROVE  FilesInv'
<1>1. r[t].pc \in Terminal /\ Frame
  BY DEF tty_read, Terminal
<1>2. \/ Leave(t)
      \/ Set(t, [r[t] EXCEPT !.pc = "sleep_tty_read"])
      \/ Set(t, [r[t] EXCEPT !.pc = "tty_spin"])
      \/ Set(t, [r[t] EXCEPT !.pc = "getch"])
  BY DEF tty_read
<1>3. "sleep_tty_read" \in Terminal /\ "tty_spin" \in Terminal /\ "getch" \in Terminal
  BY DEF Terminal
<1>4. CASE Leave(t)
  BY <1>1, <1>4, TerminalLeft
<1>5. CASE Set(t, [r[t] EXCEPT !.pc = "sleep_tty_read"])
  BY <1>1, <1>3, <1>5, TerminalGoes
<1>6. CASE Set(t, [r[t] EXCEPT !.pc = "tty_spin"])
  BY <1>1, <1>3, <1>6, TerminalGoes
<1>7. CASE Set(t, [r[t] EXCEPT !.pc = "getch"])
  BY <1>1, <1>3, <1>7, TerminalGoes
<1> QED
  BY <1>2, <1>4, <1>5, <1>6, <1>7

\* GETCH, with or without a sleep in the copy, and the test for more to read.
LEMMA GetchStep ==
  ASSUME FilesInv, NEW t \in Task, getch(t) \/ tty_give(t)
  PROVE  FilesInv'
<1> DEFINE q == [r[t] EXCEPT !.pc = "getch", !.need = r[t].need - 1]
<1>1. r[t].pc \in {"getch", "tty_give"} /\ Frame
  BY DEF getch, tty_give, At
<1>2. Leave(t) \/ Set(t, q) \/ Set(t, [r[t] EXCEPT !.pc = "tty_give"])
  BY DEF getch, tty_give, NextChar
<1>3. r[t].pc \in Terminal /\ "getch" \in Terminal /\ "tty_give" \in Terminal
  BY <1>1 DEF Terminal
<1>4. Sound(r[t])
  BY Facts
<1>5. CASE Leave(t)
  BY <1>1, <1>3, <1>5, TerminalLeft
<1>6. CASE Set(t, q)
  <2>1. Shaped(q)
    BY <1>4 DEF Sound, Shaped
  <2>2. /\ q.pc = "getch" /\ q.fd = r[t].fd /\ q.closing = r[t].closing /\ q.next = r[t].next
        /\ q.keeps = r[t].keeps /\ q.old = r[t].old /\ q.new = r[t].new
    BY <1>4 DEF Sound, Shaped
  <2> HIDE DEF q
  <2>3. Sound(q) /\ Alike(r[t], q)
    BY <1>3, <1>4, <2>1, <2>2, TerminalSound
  <2> QED
    BY <1>1, <1>3, <1>6, <2>2, <2>3, TerminalStep
<1>7. CASE Set(t, [r[t] EXCEPT !.pc = "tty_give"])
  BY <1>1, <1>3, <1>7, TerminalGoes
<1> QED
  BY <1>2, <1>5, <1>6, <1>7

\* get_fs_byte sleeps, and has slept.
LEMMA TtyTakeStep ==
  ASSUME FilesInv, NEW t \in Task, tty_take(t)
  PROVE  FilesInv'
<1>1. r[t].pc \in Terminal /\ Frame
  BY DEF tty_take, At, Terminal
<1>2. PICK p \in Terminal : Set(t, [r[t] EXCEPT !.pc = p])
  BY DEF tty_take, Terminal
<1> QED
  BY <1>1, <1>2, TerminalGoes

\* tty_write up to its next sleep, or to PUTCH.
LEMMA TtyWriteStep ==
  ASSUME FilesInv, NEW t \in Task, tty_write(t)
  PROVE  FilesInv'
<1>1. r[t].pc \in Terminal /\ Frame
  BY DEF tty_write, Terminal
<1>2. Leave(t) \/ \E p \in {"sleep_tty_write", "tty_put"} : Set(t, [r[t] EXCEPT !.pc = p])
  BY DEF tty_write
<1>3. {"sleep_tty_write", "tty_put"} \subseteq Terminal
  BY DEF Terminal
<1>4. CASE Leave(t)
  BY <1>1, <1>4, TerminalLeft
<1>5. CASE \E p \in {"sleep_tty_write", "tty_put"} : Set(t, [r[t] EXCEPT !.pc = p])
  <2>1. PICK p \in Terminal : Set(t, [r[t] EXCEPT !.pc = p])
    BY <1>3, <1>5
  <2> QED
    BY <1>1, <2>1, TerminalGoes
<1> QED
  BY <1>2, <1>4, <1>5

\* Both halves of PUTCH by a task.
LEMMA TtyPutStep ==
  ASSUME FilesInv, NEW t \in Task, tty_put(t) \/ tty_inc(t)
  PROVE  FilesInv'
<1>1. r[t].pc \in Terminal /\ Frame
  BY DEF tty_put, tty_inc, At, Terminal
<1>2. \E p \in Terminal : \E n, at : Set(t, [r[t] EXCEPT !.pc = p, !.need = n, !.at = at])
  <2>1. CASE tty_put(t)
    <3>1. Set(t, [r[t] EXCEPT !.pc = "tty_inc", !.at = <<INC(write_q.head)>>])
      BY <2>1 DEF tty_put
    <3>2. [r[t] EXCEPT !.pc = "tty_inc", !.at = <<INC(write_q.head)>>] =
            [r[t] EXCEPT !.pc = "tty_inc", !.need = r[t].need, !.at = <<INC(write_q.head)>>]
      <4>1. Shaped(r[t])
        BY Facts DEF Sound
      <4> QED
        BY <4>1 DEF Shaped
    <3>3. "tty_inc" \in Terminal
      BY DEF Terminal
    <3>4. Set(t, [r[t] EXCEPT !.pc = "tty_inc", !.need = r[t].need, !.at = <<INC(write_q.head)>>])
      BY <3>1, <3>2, Zenon
    <3> QED
      BY <3>3, <3>4, Zenon
  <2>2. CASE tty_inc(t)
    <3> DEFINE p == IF Goes(write_q', r[t].need) THEN "tty_put" ELSE "tty_flush"
    <3>1. Set(t, [r[t] EXCEPT !.pc = p, !.need = r[t].need - 1, !.at = << >>])
      BY <2>2 DEF tty_inc
    <3>2. p \in Terminal
      BY DEF Terminal
    <3> HIDE DEF p
    <3> QED
      BY <3>1, <3>2, Zenon
  <2> QED
    BY <2>1, <2>2
<1>8. PICK p \in Terminal : \E n, at : Set(t, [r[t] EXCEPT !.pc = p, !.need = n, !.at = at])
  BY <1>2
<1>9. PICK n, at : Set(t, [r[t] EXCEPT !.pc = p, !.need = n, !.at = at])
  BY <1>8
<1> DEFINE q == [r[t] EXCEPT !.pc = p, !.need = n, !.at = at]
<1>3. Sound(r[t])
  BY Facts
<1>4. Shaped(q)
  BY <1>3 DEF Sound, Shaped
<1>5. /\ q.pc = p /\ q.fd = r[t].fd /\ q.closing = r[t].closing /\ q.next = r[t].next
      /\ q.keeps = r[t].keeps /\ q.old = r[t].old /\ q.new = r[t].new
  BY <1>3 DEF Sound, Shaped
<1>6. Set(t, q)
  BY <1>9
<1> HIDE DEF q
<1>7. Sound(q) /\ Alike(r[t], q)
  BY <1>1, <1>3, <1>4, <1>5, TerminalSound
<1> QED
  BY <1>1, <1>5, <1>6, <1>7, TerminalStep

\* rs_write, and the end of tty_write.
LEMMA TtyFlushStep ==
  ASSUME FilesInv, NEW t \in Task, tty_flush(t)
  PROVE  FilesInv'
<1>1. r[t].pc \in Terminal /\ Frame
  BY DEF tty_flush, At, Terminal
<1>2. Leave(t) \/ Set(t, [r[t] EXCEPT !.pc = "tty_write"])
  BY DEF tty_flush
<1>3. "tty_write" \in Terminal
  BY DEF Terminal
<1>4. CASE Leave(t)
  BY <1>1, <1>4, TerminalLeft
<1>5. CASE Set(t, [r[t] EXCEPT !.pc = "tty_write"])
  BY <1>1, <1>3, <1>5, TerminalGoes
<1> QED
  BY <1>2, <1>4, <1>5

\* The interrupts wake those who sleep in the terminal.
LEMMA WakesFacts ==
  ASSUME FilesInv, NEW S, NEW sig
  PROVE  LET new == Wakes(S, sig, r) IN
         /\ DOMAIN new = Task /\ new = [u \in Task |-> new[u]]
         /\ \A u \in Task :
              /\ Sound(new[u]) /\ Alike(r[u], new[u])
              /\ new[u].pc \in Sleeping \cup InFault \/ r[u].pc \in Sleeping \cup InFault
                   => new[u].pc = r[u].pc
<1> DEFINE new == Wakes(S, sig, r)
<1>1. DOMAIN new = Task /\ new = [u \in Task |-> new[u]]
  BY DEF Wakes
<1>2. ASSUME NEW u \in Task
      PROVE  /\ Sound(new[u]) /\ Alike(r[u], new[u])
             /\ new[u].pc \in Sleeping \cup InFault \/ r[u].pc \in Sleeping \cup InFault
                  => new[u].pc = r[u].pc
  <2>1. Sound(r[u])
    BY Facts
  <2>2. CASE new[u] = r[u]
    BY <2>1, <2>2 DEF Alike
  <2>3. ASSUME NEW p \in Terminal, r[u].pc \in Terminal, new[u] = [r[u] EXCEPT !.pc = p]
        PROVE  /\ Sound(new[u]) /\ Alike(r[u], new[u])
               /\ new[u].pc \in Sleeping \cup InFault \/ r[u].pc \in Sleeping \cup InFault
                    => new[u].pc = r[u].pc
    <3>1. /\ Sound([r[u] EXCEPT !.pc = p]) /\ Alike(r[u], [r[u] EXCEPT !.pc = p])
          /\ [r[u] EXCEPT !.pc = p].pc = p
      BY <2>1, <2>3, MovedSound
    <3>2. Sound(new[u]) /\ Alike(r[u], new[u]) /\ new[u].pc = p
      BY <2>3, <3>1, Zenon
    <3> QED
      BY <2>3, <3>2 DEF Terminal, Sleeping, InFault
  <2>4. \/ new[u] = r[u]
        \/ r[u].pc = "sleep_tty_read" /\ new[u] = [r[u] EXCEPT !.pc = "tty_read"]
        \/ r[u].pc = "sleep_tty_write" /\ new[u] = [r[u] EXCEPT !.pc = "tty_full"]
    BY DEF Wakes
  <2>5. /\ "tty_read" \in Terminal /\ "tty_full" \in Terminal
        /\ "sleep_tty_read" \in Terminal /\ "sleep_tty_write" \in Terminal
    BY DEF Terminal
  <2> HIDE DEF new
  <2> QED
    BY <2>2, <2>3, <2>4, <2>5
<1> QED
  BY <1>1, <1>2

\* The descriptors and the pipe do not notice.
LEMMA InterruptStep ==
  ASSUME FilesInv, UNCHANGED <<table, inodes, pipe>>,
         NEW S, NEW sig, r' = Wakes(S, sig, r)
  PROVE  FilesInv'
<1> DEFINE new == Wakes(S, sig, r)
<1>1. /\ DOMAIN new = Task /\ new = [u \in Task |-> new[u]]
      /\ \A u \in Task :
           /\ Sound(new[u]) /\ Alike(r[u], new[u])
           /\ new[u].pc \in Sleeping \cup InFault \/ r[u].pc \in Sleeping \cup InFault
                => new[u].pc = r[u].pc
  BY WakesFacts
<1> HIDE DEF new
<1>2. r' = new
  BY DEF new
<1>3. RegisterInv'
  BY <1>1, <1>2 DEF RegisterInv
<1>4. \A u \in Task : Alike(r[u], r'[u])
  BY <1>1, <1>2
<1>5. SleepersMustWait'
  <2>1. Copying' = Copying
    BY <1>1, <1>2 DEF Copying, InFault
  <2>2. \A u \in Task : r'[u].pc \in Sleeping => r'[u].pc = r[u].pc
    BY <1>1, <1>2
  <2>3. SleepersMustWait /\ pipe' = pipe
    BY DEF FilesInv
  <2> QED
    BY <2>1, <2>2, <2>3 DEF SleepersMustWait, At, Sleeping, PIPE_SIZE, Room
<1>6. Whole(pipe') /\ pipe'.count = pipe.count
  BY DEF FilesInv, TypeInv
<1> QED
  BY <1>3, <1>4, <1>5, <1>6, RingStep

\* read_char and write_char.
LEMMA CharStep ==
  ASSUME FilesInv, read_char \/ write_char
  PROVE  FilesInv'
<1>1. UNCHANGED <<table, inodes, pipe>>
  BY DEF read_char, write_char
<1>2. CASE read_char
  <2>1. \E sig : r' = Wakes({"read"}, sig, r)
    BY <1>2, Zenon DEF read_char
  <2> QED
    BY <1>1, <2>1, InterruptStep
<1>3. CASE write_char
  <2>1. r' = Wakes({"write"}, {}, r) \/ r' = r
    BY <1>3, Zenon DEF write_char
  <2>2. CASE r' = r
    BY <1>1, <2>2, StillStep
  <2>3. CASE r' = Wakes({"write"}, {}, r)
    BY <1>1, <2>3, InterruptStep
  <2> QED
    BY <2>1, <2>2, <2>3
<1> QED
  BY <1>2, <1>3

-----------------------------------------------------------------------------
(* All steps                                                               *)

\* A task that begins to close descriptors.
LEMMA ClosesCall ==
  ASSUME FilesInv, NEW t \in Task,
         Close(t) \/ sys_dup2(t) \/ do_exit(t) \/ close_on_exec(t)
  PROVE  FilesInv'
<1>1. Open(t) \subseteq Fd /\ cloexec[t] \subseteq Fd
  BY DEF Open, FilesInv, TypeInv, Marks
<1>2. CASE Close(t)
  <2>1. PICK d \in Open(t) : Closes(t, {d}, "user", None, None)
    BY <1>2 DEF Close
  <2>2. r[t].pc \in {"user", "close_on_exec"} /\ {d} \in SUBSET Fd
    BY <1>1, <1>2 DEF Close, Calls, At
  <2> QED
    BY <2>1, <2>2, ClosesStep
<1>3. CASE sys_dup2(t)
  <2>1. PICK d \in Open(t), e \in Fd : Closes(t, {e}, "dupfd", d, e)
    BY <1>3 DEF sys_dup2
  <2>2. r[t].pc \in {"user", "close_on_exec"} /\ {e} \in SUBSET Fd /\ d \in Fd
    BY <1>1, <1>3 DEF sys_dup2, Calls, At
  <2> QED
    BY <2>1, <2>2, ClosesStep
<1>4. CASE do_exit(t)
  <2>1. Closes(t, Open(t), "leave", None, None) /\ r[t].pc \in {"user", "close_on_exec"}
    BY <1>4 DEF do_exit, Calls, At
  <2> QED
    BY <1>1, <2>1, ClosesStep
<1>5. CASE close_on_exec(t)
  <2>1. Closes(t, cloexec[t], "new_program", None, None) /\ r[t].pc \in {"user", "close_on_exec"}
    BY <1>5 DEF close_on_exec, At
  <2> QED
    BY <1>1, <2>1, ClosesStep
<1> QED
  BY <1>2, <1>3, <1>4, <1>5

\* A program that changes its directory or is replaced by another.
LEMMA ExchangeStep ==
  ASSUME FilesInv, NEW t \in Task, sys_chdir(t) \/ do_execve(t)
  PROVE  FilesInv'
<1>1. At(t, "user") /\ \E n \in {"user", "close_on_exec"} : Exchange(t, n)
  BY DEF sys_chdir, do_execve, Calls
<1> QED
  BY <1>1, ExchangeCall

\* Every step of a task in the files.
LEMMA FileStep ==
  ASSUME FilesInv, NEW t \in Task, Step(t)
  PROVE  FilesInv'
<1>1. CASE sys_open(t) \/ open_namei(t)
  BY <1>1, OpenStep, NameiStep
<1>2. CASE sys_pipe(t) \/ get_pipe_inode(t)
  BY <1>2, PipeCallStep, GetPipeStep
<1>3. CASE sys_dup(t) \/ dupfd(t)
  BY <1>3, DupStep, DupfdStep
<1>4. CASE sys_fcntl(t) \/ sys_fork(t)
  BY <1>4, FcntlStep, ForkStep
<1>5. CASE Close(t) \/ sys_dup2(t) \/ do_exit(t) \/ close_on_exec(t)
  BY <1>5, ClosesCall
<1>6. CASE sys_close(t) \/ iput(t)
  BY <1>6, CloseStep, PutStep
<1>7. CASE leave(t) \/ new_program(t) \/ release(t)
  BY <1>7, LeaveStep, ProgramStep, ReleaseStep
<1>8. CASE sys_chdir(t) \/ do_execve(t)
  BY <1>8, ExchangeStep
<1>9. CASE sys_read(t) \/ sys_write(t)
  BY <1>9, ReadCall, WriteCall
<1>10. CASE read_pipe(t) \/ put_fs_byte(t) \/ write_pipe(t) \/ get_fs_byte(t)
  BY <1>10, PipeStep
<1>11. CASE die(t)
  BY <1>11, DieStep
<1> QED
  BY <1>1, <1>2, <1>3, <1>4, <1>5, <1>6, <1>7, <1>8, <1>9, <1>10, <1>11, Zenon DEF Step

\* Every step of a task in the terminal.
LEMMA TerminalSteps ==
  ASSUME FilesInv, NEW t \in Task, TtyStep(t)
  PROVE  FilesInv'
<1>1. CASE sys_tty(t)
  BY <1>1, TerminalCall
<1>2. CASE tty_read(t) \/ getch(t) \/ tty_give(t)
  BY <1>2, TtyReadStep, GetchStep
<1>3. CASE tty_write(t) \/ tty_take(t) \/ tty_put(t) \/ tty_inc(t) \/ tty_flush(t)
  BY <1>3, TtyWriteStep, TtyTakeStep, TtyPutStep, TtyFlushStep
<1>5. CASE tty_die(t)
  <2>1. r[t].pc \in {"tty_take", "tty_give"} /\ Closes(t, Open(t), "leave", None, None)
    BY <1>5 DEF tty_die
  <2>2. Open(t) \in SUBSET Fd
    BY DEF Open
  <2> QED
    BY <2>1, <2>2, ClosesStep
<1>4. CASE tty_ioctl(t) \/ do_signal(t)
  <2>1. UNCHANGED <<table, inodes, pipe, r>>
    BY <1>4 DEF tty_ioctl, do_signal, Frame
  <2> QED
    BY <2>1, StillStep
<1> QED
  BY <1>1, <1>2, <1>3, <1>4, <1>5, Zenon DEF TtyStep

\* The invariant holds when the first task has started.
LEMMA InitInv ==
  ASSUME Init
  PROVE  FilesInv
<1>1. /\ file = [f \in File |-> Unused]
      /\ filp = [t \in Task |-> [d \in Fd |-> None]]
      /\ cloexec = [t \in Task |-> {}]
      /\ inodes = 3 /\ pipe = NoPipe
      /\ r = [t \in Task |-> IF t = 1 THEN Registers ELSE Absent]
  BY DEF Init
<1>2. 1 \in Task
  BY FilesAssumption DEF Task
<1>3. \A t \in Task : r[t] = IF t = 1 THEN Registers ELSE Absent
  BY <1>1
<1>4. /\ Registers.pc = "user" /\ Registers.next = "user" /\ Registers.fd = {}
      /\ Absent.pc = "absent" /\ Absent.next = "user" /\ Absent.fd = {}
  BY DEF Absent, Registers
<1>5. Registers.keeps = 3 /\ Absent.keeps = 0
  BY DEF Absent, Registers
<1>6. NoPipe.count = 0 /\ Whole(NoPipe)
  BY FilesAssumption DEF NoPipe, Whole
<1>7. Unused \in [count : Int, kind : Kind]
  BY DEF Unused, Kind
<1>8. Unused.count = 0
  BY DEF Unused
<1>9. Unused.kind = ""
  BY DEF Unused
<1>10. /\ filp \in Tables /\ cloexec \in Marks
       /\ \A t \in Task, d \in Fd : filp[t][d] = None
       /\ \A t \in Task : cloexec[t] = {}
  BY <1>1 DEF Tables, Marks
<1>11. TypeInv
  <2>1. file \in FileTable
    BY <1>1, <1>7 DEF FileTable
  <2>2. inodes \in Int /\ pipe.count \in Int /\ Whole(pipe)
    BY <1>1, <1>6
  <2> QED
    BY <1>10, <2>1, <2>2 DEF TypeInv
<1>12. RegisterInv
  BY <1>1, <1>3, RegistersSound, AbsentSound DEF RegisterInv
<1>13. CountInv
  <2>1. \A f \in File : file[f] = Unused
    BY <1>1
  <2>2. ASSUME NEW f \in File
        PROVE  Cardinality(Leads(filp, f)) = 0
    <3>1. None # f
      BY AllFinite
    <3>2. Leads(filp, f) = {}
      BY <1>10, <3>1 DEF Leads
    <3> QED
      BY <3>2, FS_EmptySet
  <2>3. \A f \in File : file[f].count = Cardinality(Leads(filp, f))
    BY <1>8, <2>1, <2>2
  <2>4. \A f \in File : file[f].kind = ""
    BY <1>9, <2>1
  <2> QED
    BY <2>3, <2>4, Zenon DEF CountInv
<1>14. Cardinality(OfKind(file, Plain)) = 0 /\ Cardinality(OfKind(file, PipeEnds)) = 0
  <2>1. OfKind(file, Plain) = {} /\ OfKind(file, PipeEnds) = {}
    BY <1>1, <1>9 DEF OfKind, Plain, PipeEnds
  <2> QED
    BY <2>1, FS_EmptySet
<1>15. PipeInv
  BY <1>1, <1>6, <1>14 DEF PipeInv
<1>16. InodeInv
  <2>1. Cardinality(Puts(r)) = 0
    <3>1. Puts(r) = {}
      BY <1>3, <1>4 DEF Puts
    <3> QED
      BY <3>1, FS_EmptySet
  <2>2. Cardinality(Kept(r)) = 3
    <3> DEFINE zero == [t \in Task |-> [keeps |-> 0]]
    <3>1. \A t \in Task : zero[t].keeps = 0
      OBVIOUS
    <3> HIDE DEF zero
    <3>2. Kept(zero) = {}
      BY <3>1 DEF Kept
    <3>3. r[1].keeps = 3 /\ \A t \in Task \ {1} : r[t].keeps = zero[t].keeps
      BY <1>2, <1>3, <1>5, <3>1
    <3>4. Cardinality(Kept(r)) = Cardinality(Kept(zero)) + 3
      BY <1>2, <3>1, <3>3, KeptMore
    <3>5. Cardinality(Kept(zero)) = 0
      BY <3>2, FS_EmptySet
    <3> QED
      BY <3>4, <3>5
  <2> QED
    BY <1>1, <1>14, <2>1, <2>2 DEF InodeInv
<1>17. FitInv
  <2>1. ASSUME NEW t \in Task
        PROVE  Fits(t, r[t], filp[t], cloexec[t], file)
    <3>1. r[t].fd = {} /\ r[t].next = "user"
      BY <1>3, <1>4
    <3> QED
      BY <1>10, <3>1 DEF Fits, HasInode
  <2> QED
    BY <2>1 DEF FitInv
<1>18. SleepersMustWait
  <2>1. \A t \in Task : r[t].pc \notin Sleeping
    BY <1>3, <1>4 DEF Sleeping
  <2> QED
    BY <2>1, NobodySleeps
<1> QED
  BY <1>11, <1>12, <1>13, <1>15, <1>16, <1>17, <1>18 DEF FilesInv

\* What the runs check follows from it.
LEMMA InvIsEnough ==
  ASSUME FilesInv
  PROVE  DescriptorsAreExact
<1>1. CountInv /\ InodeInv /\ PipeInv /\ FitInv /\ TypeInv
  BY DEF FilesInv
<1>2. \A f \in File :
        file[f].count = Cardinality({x \in Task \X Fd : filp[x[1]][x[2]] = f})
  BY <1>1 DEF CountInv, Leads
<1>3. inodes = Cardinality({f \in File : file[f].kind = "file"})
               + Cardinality({t \in Task : At(t, "iput")})
               + Cardinality({x \in Task \X (1 .. 3) : x[2] <= r[x[1]].keeps})
  <2>1. OfKind(file, Plain) = {f \in File : file[f].kind = "file"}
    BY DEF OfKind, Plain
  <2>2. Puts(r) = {t \in Task : At(t, "iput")}
    BY DEF Puts, At
  <2>3. Kept(r) = {x \in Task \X (1 .. 3) : x[2] <= r[x[1]].keeps}
    BY DEF Kept
  <2> QED
    BY <1>1, <2>1, <2>2, <2>3, Zenon DEF InodeInv
<1>4. pipe.count = Cardinality({f \in File : file[f].kind \in {"read", "write"}})
  BY <1>1 DEF PipeInv, OfKind, PipeEnds
<1>5. MarkedAreOpen
  <2>1. \A t \in Task : \A d \in cloexec[t] : filp[t][d] # None
    BY <1>1 DEF FitInv, Fits, HasInode
  <2>2. \A t \in Task : cloexec[t] \subseteq Fd
    BY <1>1 DEF TypeInv, Marks
  <2> QED
    BY <2>1, <2>2 DEF MarkedAreOpen, Open
<1> QED
  BY <1>2, <1>3, <1>4, <1>5, Zenon DEF DescriptorsAreExact, CountsAreExact

-----------------------------------------------------------------------------
(* Theorems                                                                *)

\* The tables of files and descriptors, the references to inodes, the ends of
\* the pipe and the registers of every task agree at all times.
THEOREM FilesInvariant ==
  Spec => []FilesInv
<1>1. Init => FilesInv
  BY InitInv
<1>2. FilesInv /\ [Next]_vars => FilesInv'
  <2> SUFFICES ASSUME FilesInv, [Next]_vars
               PROVE  FilesInv'
    OBVIOUS
  <2>1. CASE Next
    <3>1. \E t \in Task : Step(t)
      BY <2>1 DEF Next
    <3> QED
      BY <3>1, FileStep
  <2>2. CASE UNCHANGED vars
    BY <2>2, StillStep DEF vars
  <2> QED
    BY <2>1, <2>2
<1> QED
  BY <1>1, <1>2, PTL DEF Spec

\* So they do when tasks use the terminal and its interrupts come.
THEOREM TerminalInvariant ==
  TtySpec => []FilesInv
<1>1. TtyInit => FilesInv
  BY InitInv DEF TtyInit
<1>2. FilesInv /\ [TtyNext]_<<vars, tty>> => FilesInv'
  <2> SUFFICES ASSUME FilesInv, [TtyNext]_<<vars, tty>>
               PROVE  FilesInv'
    OBVIOUS
  <2>1. CASE TtyNext
    <3>1. \/ \E t \in Task : Step(t)
          \/ \E t \in Task : TtyStep(t)
          \/ read_char
          \/ write_char
      BY <2>1 DEF TtyNext
    <3> QED
      BY <3>1, FileStep, TerminalSteps, CharStep
  <2>2. CASE UNCHANGED <<vars, tty>>
    BY <2>2, StillStep DEF vars
  <2> QED
    BY <2>1, <2>2
<1> QED
  BY <1>1, <1>2, PTL DEF TtySpec

\* f_count is the number of descriptors that lead to a file, every reference to
\* an inode and every end of the pipe is counted, and no closed descriptor is
\* marked for exec: in the files alone, and with the terminal.
THEOREM CountsStayExact ==
  (Spec => []DescriptorsAreExact) /\ (TtySpec => []DescriptorsAreExact)
<1>1. FilesInv => DescriptorsAreExact
  BY InvIsEnough
<1>2. Spec => []DescriptorsAreExact
  BY <1>1, FilesInvariant, PTL
<1>3. TtySpec => []DescriptorsAreExact
  BY <1>1, TerminalInvariant, PTL
<1> QED
  BY <1>2, <1>3

\* A task sleeps in the pipe only while both ends are open, a reader only while
\* it is empty and a writer only while it is full, unless the copy of another task
\* waits in a page fault, or such a task has been killed in its copy and nobody
\* has called wake_up for the pipe since.
THEOREM NobodySleepsForNothing ==
  (Spec => []SleepersMustWait) /\ (TtySpec => []SleepersMustWait)
<1>1. FilesInv => SleepersMustWait
  BY DEF FilesInv
<1>2. Spec => []SleepersMustWait
  BY <1>1, FilesInvariant, PTL
<1>3. TtySpec => []SleepersMustWait
  BY <1>1, TerminalInvariant, PTL
<1> QED
  BY <1>2, <1>3
=============================================================================

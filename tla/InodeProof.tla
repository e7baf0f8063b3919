----------------------------- MODULE InodeProof -----------------------------
(***************************************************************************)
(* Proofs about inodes in memory and mounted devices, for any number of    *)
(* tasks, entries, inodes and devices.                                     *)
(***************************************************************************)
EXTENDS Mount, FiniteSetTheorems, TLAPS

\* Of the races that AllRaces names only open(O_TRUNC) of a file that others use
\* may happen: it takes zones from them, and does no harm to the table.
NoTableRaces == Races \subseteq {"truncate"}

-----------------------------------------------------------------------------
(* The inductive invariant                                                 *)

\* Where a task may sleep, and where it may return to from there.
Taking == {"iget", "read_inode", "new_inode", "get_pipe_inode"}
Mapping == {"_bmap", "new_block", "data"}
Places ==
  Taking \cup Mapping
  \cup {"user", "iput", "write_inode", "sync_inodes", "truncate", "add_entry",
        "sys_mount", "read_super", "put_super"}
Returns(pc) ==
  IF pc \in {"iget", "read_inode"} THEN {<< >>, <<"sys_mount">>}
  ELSE IF pc = "iput" THEN {<< >>, <<"put_super">>}
  ELSE IF pc = "write_inode"
    THEN {<<"repeat">>, <<"repeat", "put_super">>, <<"synced">>}
  ELSE IF pc = "truncate"
    THEN {<< >>, <<"free_inode">>, <<"free_inode", "put_super">>}
  ELSE {<< >>}

Device == {i[1] : i \in Ino}
Number == Zone \cup {0}
Entry == [ino : Ino \cup {NoIno}, count : Int, lock : BOOLEAN, dirt : BOOLEAN,
          links : Int, zone : [0 .. 2 -> Number], mount : BOOLEAN, pipe : BOOLEAN]
SuperBlock == [there : BOOLEAN, lock : BOOLEAN,
               imount : Slot \cup {None, RootEntry}]

TypeInv ==
  /\ inode \in [Slot -> Entry]
  /\ disk \in [Ino -> [links : Int, zone : [0 .. 2 -> Number]]]
  /\ imap \subseteq Ino
  /\ zmap \subseteq Zone
  /\ ind \in [Zone -> Number]
  /\ super \in [Device -> SuperBlock]
  /\ entry \in [Ino -> Nat]

\* Records with the fields of Registers, and with the stack back.
Shape(back) ==
  [pc : Places \cup {"repeat", "synced", "free_inode"}, ret : {back}, s : Slot \cup {None},
   empty : Slot \cup {None}, ino : Ino \cup {NoIno},
   file : Slot \cup {None}, refs : 0 .. 2, k : 0 .. 3, hold : SUBSET Zone,
   todo : Seq(Zone \X (0 .. 2)), rest : SUBSET Slot, make : BOOLEAN,
   dev : Device \cup {0}]
Shaped(q) == q \in Shape(q.ret)

\* What a task may have in its registers and on its stack.
Sound(q) ==
  /\ Shaped(q)
  /\ q.pc \in Places /\ q.ret \in Returns(q.pc)
  /\ q.file = None <=> q.refs = 0
  /\ q.empty # None <=> q.pc \in Taking
  /\ q.empty # None => q.file = None
  /\ q.pc \in {"iget", "read_inode"} => q.ino \in Ino
  /\ q.pc = "read_inode" => q.s = q.empty
  /\ q.pc \in {"iput", "write_inode", "sync_inodes", "truncate", "put_super"} => q.s # None
  /\ q.pc \in Mapping \/ (q.pc = "truncate" /\ q.ret = << >>) =>
       q.file # None /\ q.s = q.file
  /\ q.pc \in Mapping => q.k \in 0 .. 2
  /\ q.pc = "new_block" => q.todo # << >>
  /\ q.pc \in {"add_entry", "sys_mount", "read_super"} => q.refs = 1
  /\ q.pc \in {"sys_mount", "read_super"} \/ q.ret = <<"sys_mount">> \/ Unmounting(q) =>
       q.dev \in Device
  /\ q.pc = "user" => q = Leave(q)

RegInv == r = [t \in Task |-> r[t]] /\ \A t \in Task : Sound(r[t])

\* The references that a task has to the entry s, and the lock.
One(p) == IF p THEN 1 ELSE 0
Share(q, s) ==
  (IF q.file = s THEN q.refs ELSE 0) + One(q.empty = s) + One(q.s = s /\ Putting(q))
Locks(q, s) == q.pc \in {"read_inode", "write_inode"} /\ q.s = s

CountInv == \A s \in Slot : inode[s].count = References(s)

\* The root directories of the devices that may be mounted.
Roots == {i \in Ino : i[1] # ROOT_DEV /\ i[2] = ROOT_INO}

\* iget passes from the directory that device d is mounted on to its root.
Passes(tab, supers, d) == supers[d].imount \in Slot /\ tab[supers[d].imount].mount

Filled(i) == i.ino # NoIno \/ i.pipe

\* What a task relies on in the entries and super blocks that it uses.
Fit(q, tab, supers, names) ==
  /\ q.empty # None =>
       LET i == tab[q.empty]
       IN /\ i.count = 1 /\ ~i.dirt /\ ~i.pipe /\ ~i.mount
          /\ i.ino = IF q.pc = "read_inode" THEN q.ino ELSE NoIno
  /\ q.file # None => Filled(tab[q.file])
  /\ Putting(q) => Filled(tab[q.s])
  /\ q.pc \in {"add_entry", "sys_mount", "read_super"} => tab[q.file].ino # NoIno
  /\ q.pc \in Mapping \cup {"truncate", "write_inode"} => tab[q.s].ino # NoIno
  /\ q.pc \in {"read_inode", "write_inode"} => tab[q.s].lock
  /\ q.pc = "add_entry" =>
       LET i == tab[q.file]
       IN i.count = 1 /\ i.links = 1 /\ i.ino[1] = ROOT_DEV /\ names[i.ino] = 0
  /\ q.pc = "truncate" /\ q.ret # << >> =>
       LET i == tab[q.s]
       IN i.count = 1 /\ i.links = 0 /\ ~i.lock
  /\ q.ino # NoIno =>
       \/ names[q.ino] > 0
       \/ q.ino \in Roots /\ Passes(tab, supers, q.ino[1])
  /\ q.pc = "read_super" =>
       /\ supers[q.dev] = [there |-> TRUE, lock |-> TRUE, imount |-> None]
       /\ ~tab[q.file].mount
       /\ \A d \in Device : supers[d].imount # q.file
  /\ Unmounting(q) => supers[q.dev].imount = q.s /\ ~tab[q.s].mount

FitInv == \A t \in Task : Fit(r[t], inode, super, entry)

\* Two tasks do not lock one entry, nor mount or umount one device.
Apart(p, q) ==
  /\ \A s \in Slot : ~(Locks(p, s) /\ Locks(q, s))
  /\ p.pc = "read_super" /\ q.pc = "read_super" => p.dev # q.dev /\ p.file # q.file
  /\ Unmounting(p) /\ Unmounting(q) => p.dev # q.dev

ApartInv == \A t, u \in Task : t # u => Apart(r[t], r[u])

Reading(s) == \E t \in Task : r[t].pc = "read_inode" /\ r[t].s = s

\* An inode has as many links as names.
Linked(i, links) ==
  /\ i \in Roots => links = 1
  /\ entry[i] > 0 => links = entry[i]

SlotAt(s) ==
  LET i == inode[s]
  IN /\ i.pipe => i.ino = NoIno
     /\ i.ino = NoIno => ~i.dirt /\ ~i.lock
     /\ i.mount => i.ino # NoIno /\ \E d \in Device : super[d].imount = s
     /\ i.dirt \/ i.lock => i.count > 0
     /\ i.ino # NoIno =>
          /\ i.ino \in imap
          /\ i.ino[1] = ROOT_DEV \/ i.ino \in Roots
          /\ i.ino[1] # ROOT_DEV /\ i.count > 0 => Passes(inode, super, i.ino[1])
          /\ ~Reading(s) => Linked(i.ino, i.links)
          /\ i.links > 0 /\ ~i.dirt /\ ~Reading(s) /\ ~Truncating(s) =>
               disk[i.ino] = [links |-> i.links, zone |-> i.zone]

SlotInv == \A s \in Slot : SlotAt(s)

\* An inode that is not in the table.
InoAt(i) ==
  /\ entry[i] > 0 => i \in imap /\ i[1] = ROOT_DEV
  /\ i \in Roots => i \in imap
  /\ i \in imap /\ (\A s \in SlotsOf(i) : Reading(s)) => Linked(i, disk[i].links)

InoInv == \A i \in Ino : InoAt(i)

DevInv ==
  /\ ROOT_DEV \in Device =>
       super[ROOT_DEV] = [there |-> TRUE, lock |-> FALSE, imount |-> RootEntry]
  /\ \A d \in Device \ {ROOT_DEV} :
       /\ super[d].imount # None =>
            super[d].imount \in Slot /\ super[d].there /\ ~super[d].lock
       /\ super[d].lock => super[d].there
  /\ \A d, e \in Device :
       super[d].imount = super[e].imount /\ super[d].imount # None => d = e

\* The directories that devices are mounted on are marked.
MountInv == \A s \in Slot : Mounts(s) # {} => inode[s].mount

InodeInv ==
  /\ TypeInv /\ RegInv /\ CountInv /\ FitInv /\ ApartInv
  /\ SlotInv /\ OneEntryPerInode /\ InoInv /\ DevInv /\ MountInv

-----------------------------------------------------------------------------
(* Registers                                                               *)

\* Sequences with the same elements are the same.
LEMMA SameElements ==
  ASSUME NEW S, NEW u \in Seq(S), NEW v \in Seq(S), Len(u) = Len(v),
         \A i \in 1 .. Len(u) : u[i] = v[i]
  PROVE  u = v
  OBVIOUS

\* A call with one label below it.
LEMMA TwoLabels ==
  ASSUME NEW a, NEW b
  PROVE  <<a>> \o <<b>> = <<a, b>>
<1> DEFINE u == <<a>> \o <<b>>
           v == <<a, b>>
<1>1. Len(u) = 2 /\ u \in Seq({a, b}) /\ u[1] = a /\ u[2] = b
  OBVIOUS
<1>2. v \in Seq({a, b})
  OBVIOUS
<1>3. Len(v) = 2 /\ v[1] = a /\ v[2] = b
  OBVIOUS
<1> HIDE DEF u, v
<1>4. \A i \in 1 .. Len(u) : i = 1 \/ i = 2
  BY <1>1
<1>5. u = v
  BY <1>1, <1>2, <1>3, <1>4, SameElements
<1> QED
  BY <1>5 DEF u, v

\* What is on the stacks that tasks have.
LEMMA ShortStacks ==
  /\ Tail(<<"sys_mount">>) = << >> /\ Head(<<"sys_mount">>) = "sys_mount"
  /\ Tail(<<"put_super">>) = << >> /\ Head(<<"put_super">>) = "put_super"
  /\ Tail(<<"repeat">>) = << >> /\ Head(<<"repeat">>) = "repeat"
  /\ Tail(<<"synced">>) = << >> /\ Head(<<"synced">>) = "synced"
  /\ Tail(<<"free_inode">>) = << >> /\ Head(<<"free_inode">>) = "free_inode"
  /\ Tail(<<"repeat", "put_super">>) = <<"put_super">>
  /\ Head(<<"repeat", "put_super">>) = "repeat"
  /\ Tail(<<"free_inode", "put_super">>) = <<"put_super">>
  /\ Head(<<"free_inode", "put_super">>) = "free_inode"
  /\ Tail(<<"iget">>) = << >> /\ Head(<<"iget">>) = "iget"
  /\ Tail(<<"iget", "sys_mount">>) = <<"sys_mount">>
  /\ Head(<<"iget", "sys_mount">>) = "iget"
  /\ <<"repeat">> \o << >> = <<"repeat">>
  /\ <<"synced">> \o << >> = <<"synced">>
  /\ <<"free_inode">> \o << >> = <<"free_inode">>
  /\ <<"repeat">> \o <<"put_super">> = <<"repeat", "put_super">>
  /\ <<"free_inode">> \o <<"put_super">> = <<"free_inode", "put_super">>
<1>1. /\ Tail(<<"sys_mount">>) = << >> /\ Head(<<"sys_mount">>) = "sys_mount"
      /\ Tail(<<"put_super">>) = << >> /\ Head(<<"put_super">>) = "put_super"
      /\ Tail(<<"repeat">>) = << >> /\ Head(<<"repeat">>) = "repeat"
      /\ Tail(<<"synced">>) = << >> /\ Head(<<"synced">>) = "synced"
      /\ Tail(<<"free_inode">>) = << >> /\ Head(<<"free_inode">>) = "free_inode"
      /\ Tail(<<"iget">>) = << >> /\ Head(<<"iget">>) = "iget"
  OBVIOUS
<1>2. /\ Tail(<<"repeat", "put_super">>) = <<"put_super">>
      /\ Head(<<"repeat", "put_super">>) = "repeat"
      /\ Tail(<<"free_inode", "put_super">>) = <<"put_super">>
      /\ Head(<<"free_inode", "put_super">>) = "free_inode"
  OBVIOUS
<1>3. /\ Tail(<<"iget", "sys_mount">>) = <<"sys_mount">>
      /\ Head(<<"iget", "sys_mount">>) = "iget"
  OBVIOUS
<1>4. /\ <<"repeat">> \o << >> = <<"repeat">>
      /\ <<"synced">> \o << >> = <<"synced">>
      /\ <<"free_inode">> \o << >> = <<"free_inode">>
  OBVIOUS
<1>5. <<"repeat">> \o <<"put_super">> = <<"repeat", "put_super">>
  BY TwoLabels
<1>6. <<"free_inode">> \o <<"put_super">> = <<"free_inode", "put_super">>
  BY TwoLabels
<1> QED
  BY <1>1, <1>2, <1>3, <1>4, <1>5, <1>6, Zenon

\* The stacks are different.
LEMMA StacksDiffer ==
  /\ << >> # <<"sys_mount">> /\ << >> # <<"put_super">> /\ << >> # <<"repeat">>
  /\ << >> # <<"synced">> /\ << >> # <<"free_inode">> /\ << >> # <<"repeat", "put_super">>
  /\ << >> # <<"free_inode", "put_super">> /\ <<"sys_mount">> # <<"put_super">>
  /\ <<"repeat">> # <<"synced">> /\ <<"repeat", "put_super">> # <<"synced">>
  /\ <<"repeat", "put_super">> # <<"repeat">>
  /\ <<"free_inode", "put_super">> # <<"free_inode">>
  /\ << >> # <<"iget">> /\ << >> # <<"iget", "sys_mount">>
  OBVIOUS

\* The places where a task gives back a reference, and those of umount.
Puts(q) ==
  \/ q.pc = "iput"
  \/ q.pc = "write_inode" /\ q.ret # <<"synced">>
  \/ q.pc = "truncate" /\ q.ret # << >>
Ends(q) ==
  \/ q.pc = "put_super"
  \/ q.pc = "iput" /\ q.ret # << >>
  \/ q.pc = "write_inode" /\ q.ret = <<"repeat", "put_super">>
  \/ q.pc = "truncate" /\ q.ret = <<"free_inode", "put_super">>

LEMMA LabelsOfShort ==
  ASSUME NEW q
  PROVE  /\ q.ret = << >> => Labels(q) = {q.pc}
         /\ \A a : q.ret = <<a>> => Labels(q) = {q.pc, a}
         /\ \A a, b : q.ret = <<a, b>> => Labels(q) = {q.pc, a, b}
<1>1. ASSUME q.ret = << >> PROVE Labels(q) = {q.pc}
  <2>1. DOMAIN q.ret = {}
    BY <1>1
  <2> QED
    BY <2>1 DEF Labels
<1>2. ASSUME NEW a, q.ret = <<a>> PROVE Labels(q) = {q.pc, a}
  <2>1. DOMAIN q.ret = {1} /\ q.ret[1] = a
    BY <1>2
  <2> QED
    BY <2>1 DEF Labels
<1>3. ASSUME NEW a, NEW b, q.ret = <<a, b>> PROVE Labels(q) = {q.pc, a, b}
  <2>1. DOMAIN q.ret = {1, 2} /\ q.ret[1] = a /\ q.ret[2] = b
    BY <1>3
  <2> QED
    BY <2>1 DEF Labels
<1> QED
  BY <1>1, <1>2, <1>3

\* A task gives back a reference in iput and in what iput calls.
LEMMA PuttingIs ==
  ASSUME NEW q, q.pc \in Places, q.ret \in Returns(q.pc)
  PROVE  (Putting(q) <=> Puts(q)) /\ (Unmounting(q) <=> Ends(q))
<1> USE StacksDiffer
<1>1. CASE q.ret = << >>
  BY <1>1, LabelsOfShort DEF Putting, Unmounting, Puts, Ends, Places, Taking, Mapping, Returns
<1>2. CASE q.ret = <<"sys_mount">>
  <2>1. q.pc \in {"iget", "read_inode"} /\ Labels(q) = {q.pc, "sys_mount"}
    BY <1>2, LabelsOfShort DEF Places, Taking, Mapping, Returns
  <2> QED
    BY <1>2, <2>1 DEF Putting, Unmounting, Puts, Ends
<1>3. CASE q.ret = <<"put_super">>
  <2>1. q.pc = "iput" /\ Labels(q) = {q.pc, "put_super"}
    BY <1>3, LabelsOfShort DEF Places, Taking, Mapping, Returns
  <2> QED
    BY <1>3, <2>1 DEF Putting, Unmounting, Puts, Ends
<1>4. CASE q.ret = <<"repeat">>
  <2>1. q.pc = "write_inode" /\ Labels(q) = {q.pc, "repeat"}
    BY <1>4, LabelsOfShort DEF Places, Taking, Mapping, Returns
  <2> QED
    BY <1>4, <2>1 DEF Putting, Unmounting, Puts, Ends
<1>5. CASE q.ret = <<"synced">>
  <2>1. q.pc = "write_inode" /\ Labels(q) = {q.pc, "synced"}
    BY <1>5, LabelsOfShort DEF Places, Taking, Mapping, Returns
  <2> QED
    BY <1>5, <2>1 DEF Putting, Unmounting, Puts, Ends
<1>6. CASE q.ret = <<"repeat", "put_super">>
  <2>1. q.pc = "write_inode" /\ Labels(q) = {q.pc, "repeat", "put_super"}
    BY <1>6, LabelsOfShort DEF Places, Taking, Mapping, Returns
  <2> QED
    BY <1>6, <2>1 DEF Putting, Unmounting, Puts, Ends
<1>7. CASE q.ret = <<"free_inode">>
  <2>1. q.pc = "truncate" /\ Labels(q) = {q.pc, "free_inode"}
    BY <1>7, LabelsOfShort DEF Places, Taking, Mapping, Returns
  <2> QED
    BY <1>7, <2>1 DEF Putting, Unmounting, Puts, Ends
<1>8. CASE q.ret = <<"free_inode", "put_super">>
  <2>1. q.pc = "truncate" /\ Labels(q) = {q.pc, "free_inode", "put_super"}
    BY <1>8, LabelsOfShort DEF Places, Taking, Mapping, Returns
  <2> QED
    BY <1>8, <2>1 DEF Putting, Unmounting, Puts, Ends
<1> QED
  BY <1>1, <1>2, <1>3, <1>4, <1>5, <1>6, <1>7, <1>8 DEF Returns

-----------------------------------------------------------------------------
(* Counting                                                                *)

\* Finite sets that agree but for one element differ by that one.
LEMMA OneChanges ==
  ASSUME NEW U, IsFiniteSet(U), NEW S, NEW T, S \subseteq U, T \subseteq U,
         NEW x, S \ {x} = T \ {x}
  PROVE  /\ Cardinality(S) \in Nat /\ Cardinality(T) \in Nat
         /\ Cardinality(T) + One(x \in S) = Cardinality(S) + One(x \in T)
<1>1. IsFiniteSet(S) /\ IsFiniteSet(T)
  BY FS_Subset
<1>2. Cardinality(S) \in Nat /\ Cardinality(T) \in Nat
  BY <1>1, FS_CardinalityType
<1>3. Cardinality(S \ {x})
        = IF x \in S THEN Cardinality(S) - 1 ELSE Cardinality(S)
  BY <1>1, FS_RemoveElement
<1>4. Cardinality(T \ {x})
        = IF x \in T THEN Cardinality(T) - 1 ELSE Cardinality(T)
  BY <1>1, FS_RemoveElement
<1>5. (IF x \in S THEN Cardinality(S) - 1 ELSE Cardinality(S))
        = (IF x \in T THEN Cardinality(T) - 1 ELSE Cardinality(T))
  BY <1>3, <1>4
<1> QED
  BY <1>2, <1>5 DEF One

\* A set of natural numbers that is not empty has a least element: the first
\* bit that is clear in a bitmap.
LEMMA LeastElement ==
  ASSUME NEW T \in SUBSET Nat, T # {}
  PROVE  \E x \in T : \A y \in T : x <= y
<1>1. PICK n \in T : TRUE
  OBVIOUS
<1> DEFINE N == 0 .. n
           R == StrictSubsetOrdering(N)
           F == {U \in SUBSET N : \E x \in T : x <= n /\ U = 0 .. x}
<1>2. IsWellFoundedOn(R, SUBSET N)
  <2>1. IsFiniteSet(N)
    BY <1>1, FS_Interval
  <2> QED
    BY <2>1, FS_FiniteSubsetsOfFinite, FS_StrictSubsetOrderingWellFounded
<1>3. F # {}
  <2>1. N \in F
    BY <1>1
  <2> QED
    BY <2>1
<1>4. PICK U \in F : \A V \in F : ~ (<<V, U>> \in R)
  <2> HIDE DEF R, F, N
  <2>1. F \subseteq SUBSET N
    BY DEF F
  <2> QED
    BY <1>2, <1>3, <2>1, WFMin
<1>5. PICK x \in T : x <= n /\ U = 0 .. x
  OBVIOUS
<1>6. ASSUME NEW y \in T, ~ (x <= y)
      PROVE  FALSE
  <2>1. y < x /\ x \in Nat /\ y \in Nat
    BY <1>6
  <2>2. 0 .. y \in F
    BY <1>5, <2>1
  <2>3. 0 .. y \subseteq 0 .. x
    BY <2>1
  <2>4. x \in 0 .. x /\ x \notin 0 .. y
    BY <2>1
  <2>5. <<0 .. y, U>> \in R
    BY <1>5, <2>2, <2>3, <2>4 DEF StrictSubsetOrdering
  <2> QED
    BY <1>4, <2>2, <2>5
<1> QED
  BY <1>6

\* So Min, in which the model writes that search, finds a member.
LEMMA MinIsLeast ==
  ASSUME NEW T \in SUBSET Nat, T # {}
  PROVE  Min(T) \in T /\ \A y \in T : Min(T) <= y
BY LeastElement DEF Min

\* The row of the relation S at t, and the rest of it.
RowOf(X, S, t) == {x \in X : <<t, x>> \in S}
RestOf(S, t) == {p \in S : p[1] # t}

\* A relation is as large as one row of it and the rest.
LEMMA RowSize ==
  ASSUME NEW X, IsFiniteSet(X), NEW S, S \subseteq Task \X X, NEW t \in Task
  PROVE  /\ Cardinality(RestOf(S, t)) \in Nat
         /\ Cardinality(RowOf(X, S, t)) \in Nat
         /\ Cardinality(S) = Cardinality(RestOf(S, t)) + Cardinality(RowOf(X, S, t))
<1> DEFINE Rest == RestOf(S, t)
           Row == RowOf(X, S, t)
           Here == {t} \X Row
<1> USE DEF RestOf, RowOf
<1>1. IsFiniteSet(Task)
  BY InodeAssumption
<1>2. IsFiniteSet(S)
  <2>1. IsFiniteSet(Task \X X)
    BY <1>1, FS_Product
  <2> QED
    BY <2>1, FS_Subset
<1>3. IsFiniteSet(Rest) /\ IsFiniteSet(Row)
  <2>1. Rest \subseteq S /\ Row \subseteq X
    OBVIOUS
  <2> QED
    BY <1>2, <2>1, FS_Subset
<1>4. IsFiniteSet(Here) /\ Cardinality(Here) = Cardinality(Row)
  <2>1. IsFiniteSet({t}) /\ Cardinality({t}) = 1
    BY FS_Singleton
  <2>2. IsFiniteSet(Here) /\ Cardinality(Here) = 1 * Cardinality(Row)
    BY <1>3, <2>1, FS_Product
  <2>3. Cardinality(Row) \in Nat
    BY <1>3, FS_CardinalityType
  <2> QED
    BY <2>2, <2>3
<1>5. S = Rest \cup Here /\ Rest \cap Here = {}
  <2>1. ASSUME NEW p \in S, p \notin Rest PROVE p \in Here
    <3>1. p \in Task \X X
      OBVIOUS
    <3>2. p = <<p[1], p[2]>> /\ p[2] \in X /\ p[1] = t
      BY <2>1, <3>1
    <3> QED
      BY <3>2
  <2>2. ASSUME NEW p \in Here PROVE p \in S /\ p \notin Rest
    <3>1. p = <<t, p[2]>> /\ p[2] \in Row /\ p[1] = t
      OBVIOUS
    <3> QED
      BY <3>1
  <2> QED
    BY <2>1, <2>2
<1> HIDE DEF Rest, Row, Here
<1>6. /\ Cardinality(Rest) \in Nat /\ Cardinality(Row) \in Nat
      /\ Cardinality(Here) \in Nat /\ Cardinality(Rest \cap Here) = 0
  BY <1>3, <1>4, <1>5, FS_CardinalityType, FS_EmptySet
<1>7. Cardinality(S) = Cardinality(Rest) + Cardinality(Here)
                       - Cardinality(Rest \cap Here)
  BY <1>3, <1>4, <1>5, FS_Union
<1>8. Cardinality(S) = Cardinality(Rest) + Cardinality(Row)
  BY <1>4, <1>6, <1>7
<1> QED
  BY <1>6, <1>8 DEF Rest, Row

\* Relations with the same rest differ by the row.
LEMMA OneRowChanges ==
  ASSUME NEW X, IsFiniteSet(X), NEW t \in Task,
         NEW S, NEW T, S \subseteq Task \X X, T \subseteq Task \X X,
         RestOf(S, t) = RestOf(T, t)
  PROVE  /\ Cardinality(S) \in Nat /\ Cardinality(T) \in Nat
         /\ Cardinality(RowOf(X, S, t)) \in Nat
         /\ Cardinality(RowOf(X, T, t)) \in Nat
         /\ Cardinality(T) + Cardinality(RowOf(X, S, t))
              = Cardinality(S) + Cardinality(RowOf(X, T, t))
<1>3. /\ Cardinality(RestOf(S, t)) \in Nat /\ Cardinality(RowOf(X, S, t)) \in Nat
      /\ Cardinality(S) = Cardinality(RestOf(S, t)) + Cardinality(RowOf(X, S, t))
  BY RowSize
<1>4. /\ Cardinality(RestOf(T, t)) \in Nat /\ Cardinality(RowOf(X, T, t)) \in Nat
      /\ Cardinality(T) = Cardinality(RestOf(T, t)) + Cardinality(RowOf(X, T, t))
  BY RowSize
<1> QED
  BY <1>3, <1>4

FilePairs(s) == {x \in Task \X (1 .. 2) : r[x[1]].file = s /\ x[2] <= r[x[1]].refs}
Empties(s) == {t \in Task : r[t].empty = s}
Putters(s) == {t \in Task : r[t].s = s /\ Putting(r[t])}

\* The row of a task in the references of files.
LEMMA FileRow ==
  ASSUME NEW q, NEW s \in Slot, q.refs \in 0 .. 2
  PROVE  Cardinality({n \in 1 .. 2 : q.file = s /\ n <= q.refs})
           = IF q.file = s THEN q.refs ELSE 0
<1> DEFINE S == {n \in 1 .. 2 : q.file = s /\ n <= q.refs}
<1>1. CASE q.file = s /\ q.refs # 0
  <2>1. S = 1 .. q.refs
    BY <1>1
  <2>2. q.refs \in Int /\ 1 <= q.refs
    BY <1>1
  <2>3. \A n \in Int : 1 <= n => Cardinality(1 .. n) = n
    BY FS_Interval
  <2>4. Cardinality(S) = q.refs
    BY <2>1, <2>2, <2>3
  <2> QED
    BY <1>1, <2>4
<1>2. CASE ~(q.file = s /\ q.refs # 0)
  <2>1. S = {}
    BY <1>2
  <2> QED
    BY <1>2, <2>1, FS_EmptySet
<1> QED
  BY <1>1, <1>2

\* When one task changes its registers the references differ by its share.
LEMMA ReferencesChange ==
  ASSUME RegInv, TypeInv, NEW t \in Task, NEW q, r' = [r EXCEPT ![t] = q],
         q.refs \in 0 .. 2, NEW s \in Slot,
         IsFiniteSet(Mounts(s)), IsFiniteSet(Mounts(s)')
  PROVE  /\ References(s) \in Int /\ References(s)' \in Int
         /\ Share(r[t], s) \in Nat /\ Share(q, s) \in Nat
         /\ References(s)' = References(s) - Share(r[t], s) + Share(q, s)
                             + Cardinality(Mounts(s)') - Cardinality(Mounts(s))
<1>0. /\ DOMAIN r = Task /\ \A u \in Task : r[u].refs \in 0 .. 2
      /\ \A u \in Task : r'[u] = IF u = t THEN q ELSE r[u]
  BY DEF RegInv, Sound, Shaped, Shape
<1> HIDE DEF RegInv
<1>1. IsFiniteSet(Task) /\ IsFiniteSet(1 .. 2)
  <2>1. \A n \in Int : IsFiniteSet(1 .. n)
    BY FS_Interval
  <2>2. IsFiniteSet(1 .. 2)
    <3>1. \A n : n \in Int => IsFiniteSet(1 .. n)
      BY <2>1
    <3>2. 2 \in Int
      OBVIOUS
    <3> QED
      BY <3>1, <3>2, Zenon
  <2> QED
    BY <2>2, InodeAssumption
<1>2. /\ Cardinality(FilePairs(s)) \in Nat /\ Cardinality(FilePairs(s)') \in Nat
      /\ Cardinality(FilePairs(s)') + (IF r[t].file = s THEN r[t].refs ELSE 0)
           = Cardinality(FilePairs(s)) + (IF q.file = s THEN q.refs ELSE 0)
  <2> DEFINE S == FilePairs(s)  T == FilePairs(s)'
  <2>1. S \subseteq Task \X (1 .. 2) /\ T \subseteq Task \X (1 .. 2)
    BY DEF FilePairs
  <2>2. RestOf(S, t) = RestOf(T, t)
    BY <1>0 DEF RestOf, FilePairs
  <2>3. RowOf(1 .. 2, S, t) = {n \in 1 .. 2 : r[t].file = s /\ n <= r[t].refs}
    BY DEF RowOf, FilePairs
  <2>4. RowOf(1 .. 2, T, t) = {n \in 1 .. 2 : q.file = s /\ n <= q.refs}
    BY <1>0 DEF RowOf, FilePairs
  <2> HIDE DEF S, T
  <2>5. /\ Cardinality(S) \in Nat /\ Cardinality(T) \in Nat
        /\ Cardinality(T) + Cardinality(RowOf(1 .. 2, S, t))
             = Cardinality(S) + Cardinality(RowOf(1 .. 2, T, t))
    BY <1>1, <2>1, <2>2, OneRowChanges
  <2>6. /\ Cardinality(RowOf(1 .. 2, S, t)) = IF r[t].file = s THEN r[t].refs ELSE 0
        /\ Cardinality(RowOf(1 .. 2, T, t)) = IF q.file = s THEN q.refs ELSE 0
    BY <1>0, <2>3, <2>4, FileRow
  <2> QED
    BY <2>5, <2>6 DEF S, T
<1>3. /\ Cardinality(Empties(s)) \in Nat /\ Cardinality(Empties(s)') \in Nat
      /\ Cardinality(Empties(s)') + One(r[t].empty = s)
           = Cardinality(Empties(s)) + One(q.empty = s)
  <2> DEFINE S == Empties(s)  T == Empties(s)'
  <2>1. /\ S \subseteq Task /\ T \subseteq Task /\ S \ {t} = T \ {t}
        /\ (t \in S <=> r[t].empty = s) /\ (t \in T <=> q.empty = s)
    BY <1>0 DEF Empties
  <2> HIDE DEF S, T
  <2>2. /\ Cardinality(S) \in Nat /\ Cardinality(T) \in Nat
        /\ Cardinality(T) + One(t \in S) = Cardinality(S) + One(t \in T)
    BY <1>1, <2>1, OneChanges
  <2> QED
    BY <2>1, <2>2 DEF S, T, One
<1>4. /\ Cardinality(Putters(s)) \in Nat /\ Cardinality(Putters(s)') \in Nat
      /\ Cardinality(Putters(s)') + One(r[t].s = s /\ Putting(r[t]))
           = Cardinality(Putters(s)) + One(q.s = s /\ Putting(q))
  <2> DEFINE S == Putters(s)  T == Putters(s)'
  <2>1. /\ S \subseteq Task /\ T \subseteq Task /\ S \ {t} = T \ {t}
        /\ (t \in S <=> r[t].s = s /\ Putting(r[t]))
        /\ (t \in T <=> q.s = s /\ Putting(q))
    BY <1>0 DEF Putters
  <2> HIDE DEF S, T
  <2>2. /\ Cardinality(S) \in Nat /\ Cardinality(T) \in Nat
        /\ Cardinality(T) + One(t \in S) = Cardinality(S) + One(t \in T)
    BY <1>1, <2>1, OneChanges
  <2> QED
    BY <2>1, <2>2 DEF S, T, One
<1>5. Cardinality(Mounts(s)) \in Nat /\ Cardinality(Mounts(s)') \in Nat
  BY FS_CardinalityType
<1>6. /\ References(s) = Cardinality(FilePairs(s)) + Cardinality(Empties(s))
                         + Cardinality(Putters(s)) + Cardinality(Mounts(s))
      /\ References(s)' = Cardinality(FilePairs(s)') + Cardinality(Empties(s)')
                         + Cardinality(Putters(s)') + Cardinality(Mounts(s)')
  BY DEF References, FilePairs, Empties, Putters
<1>7. r[t].refs \in Nat /\ q.refs \in Nat
  BY <1>0
<1> QED
  BY <1>2, <1>3, <1>4, <1>5, <1>6, <1>7 DEF Share, One

\* The devices are finitely many.
LEMMA DevicesAreFinite == IsFiniteSet(Device)
<1> DEFINE f == [i \in Ino |-> i[1]]
<1>1. Device = {f[i] : i \in Ino}
  BY DEF Device
<1>2. f \in Surjection(Ino, Device)
  BY <1>1 DEF Surjection
<1> QED
  BY <1>2, InodeAssumption, FS_Surjection

\* The mounts that keep an entry are finitely many.
LEMMA MountsAreFinite ==
  ASSUME TypeInv, NEW s \in Slot
  PROVE  IsFiniteSet(Mounts(s)) /\ Mounts(s) \subseteq Device
<1>1. Mounts(s) \subseteq Device
  BY DEF Mounts, TypeInv
<1> QED
  BY <1>1, DevicesAreFinite, FS_Subset

\* The mounts stay when neither a mount nor umount begins or ends.
LEMMA MountsStay ==
  ASSUME TypeInv, TypeInv', RegInv, NEW t \in Task, NEW q, r' = [r EXCEPT ![t] = q],
         \A d \in Device : super'[d].imount = super[d].imount,
         Unmounting(q) <=> Unmounting(r[t]),
         Unmounting(q) => q.dev = r[t].dev
  PROVE  \A s \in Slot : Mounts(s)' = Mounts(s)
<1>1. DOMAIN super = Device /\ DOMAIN super' = Device
  BY DEF TypeInv
<1>2. \A u \in Task : r'[u] = IF u = t THEN q ELSE r[u]
  BY DEF RegInv
<1>3. \A u \in Task, d \in Device :
        (Unmounting(r'[u]) /\ r'[u].dev = d) <=> (Unmounting(r[u]) /\ r[u].dev = d)
  BY <1>2
<1> QED
  BY <1>1, <1>3 DEF Mounts

\* The counts stay exact when a task counts what it takes and gives back.
LEMMA CountsStay ==
  ASSUME TypeInv, TypeInv', RegInv, CountInv,
         NEW t \in Task, NEW q, r' = [r EXCEPT ![t] = q], q.refs \in 0 .. 2,
         \A s \in Slot : Mounts(s)' = Mounts(s),
         \A s \in Slot :
           inode'[s].count = inode[s].count - Share(r[t], s) + Share(q, s)
  PROVE  CountInv'
<1> SUFFICES ASSUME NEW s \in Slot PROVE inode'[s].count = References(s)'
  BY DEF CountInv
<1>1. IsFiniteSet(Mounts(s)) /\ IsFiniteSet(Mounts(s)') /\ Mounts(s)' = Mounts(s)
  BY MountsAreFinite
<1>2. Cardinality(Mounts(s)) \in Nat /\ Cardinality(Mounts(s)') = Cardinality(Mounts(s))
  BY <1>1, FS_CardinalityType
<1>3. /\ References(s) \in Int /\ References(s)' \in Int
      /\ Share(r[t], s) \in Nat /\ Share(q, s) \in Nat
      /\ References(s)' = References(s) - Share(r[t], s) + Share(q, s)
                          + Cardinality(Mounts(s)') - Cardinality(Mounts(s))
  BY <1>1, ReferencesChange
<1> QED
  BY <1>2, <1>3 DEF CountInv

\* What a set has at least.
LEMMA HasOne ==
  ASSUME NEW S, IsFiniteSet(S), NEW x \in S
  PROVE  Cardinality(S) \in Nat /\ Cardinality(S) >= 1
<1>1. Cardinality(S) \in Nat /\ (Cardinality(S) = 0 <=> S = {})
  BY FS_CardinalityType, FS_EmptySet
<1> QED
  BY <1>1

LEMMA HasTwo ==
  ASSUME NEW S, IsFiniteSet(S), NEW x \in S, NEW y \in S, x # y
  PROVE  Cardinality(S) \in Nat /\ Cardinality(S) >= 2
<1>1. /\ IsFiniteSet(S \ {x})
      /\ Cardinality(S \ {x}) = Cardinality(S) - 1
  BY FS_RemoveElement
<1>2. Cardinality(S \ {x}) >= 1 /\ Cardinality(S) \in Nat
  BY <1>1, HasOne
<1> QED
  BY <1>1, <1>2

\* A task uses an entry if it has it open, empty, or gives it back.
Refers(q, s) == q.file = s \/ q.empty = s \/ (q.s = s /\ Putting(q))

\* Every user of an entry is counted, and so is every mount.
LEMMA UsersAreCounted ==
  ASSUME TypeInv, RegInv, CountInv, NEW s \in Slot
  PROVE  /\ \A t \in Task : Refers(r[t], s) => inode[s].count >= 1
         /\ \A t, u \in Task :
              t # u /\ Refers(r[t], s) /\ Refers(r[u], s) => inode[s].count >= 2
         /\ \A t \in Task :
              Refers(r[t], s) /\ Mounts(s) # {} => inode[s].count >= 2
         /\ Mounts(s) # {} => inode[s].count >= 1
         /\ \A t \in Task :
              r[t].file = s /\ r[t].s = s /\ Putting(r[t]) => inode[s].count >= 2
<1> DEFINE A == FilePairs(s)
           B == Empties(s)
           C == Putters(s)
           D == Mounts(s)
<1>1. /\ IsFiniteSet(A) /\ IsFiniteSet(B) /\ IsFiniteSet(C) /\ IsFiniteSet(D)
  <2>1. IsFiniteSet(Task)
    BY InodeAssumption
  <2>2. IsFiniteSet(1 .. 2)
    <3>1. \A n : n \in Int => IsFiniteSet(1 .. n)
      BY FS_Interval
    <3>2. 2 \in Int
      OBVIOUS
    <3> QED
      BY <3>1, <3>2, Zenon
  <2>3. IsFiniteSet(Task \X (1 .. 2))
    BY <2>1, <2>2, FS_Product
  <2>4. A \subseteq Task \X (1 .. 2) /\ B \subseteq Task /\ C \subseteq Task
    BY DEF FilePairs, Empties, Putters
  <2> QED
    BY <2>1, <2>3, <2>4, FS_Subset, MountsAreFinite
<1>2. inode[s].count = Cardinality(A) + Cardinality(B) + Cardinality(C) + Cardinality(D)
  BY DEF CountInv, References, FilePairs, Empties, Putters
<1>3. /\ Cardinality(A) \in Nat /\ Cardinality(B) \in Nat
      /\ Cardinality(C) \in Nat /\ Cardinality(D) \in Nat
  BY <1>1, FS_CardinalityType
<1>4. \A t \in Task :
        /\ r[t].file = s => <<t, 1>> \in A
        /\ r[t].empty = s => t \in B
        /\ r[t].s = s /\ Putting(r[t]) => t \in C
  <2> TAKE t \in Task
  <2>1. r[t].file = s => r[t].refs \in 0 .. 2 /\ r[t].refs # 0
    BY InodeAssumption DEF RegInv, Sound, Shaped, Shape
  <2> QED
    BY <2>1 DEF FilePairs, Empties, Putters
<1> HIDE DEF A, B, C, D
<1>5. /\ \A x : x \in A => Cardinality(A) >= 1
      /\ \A x : x \in B => Cardinality(B) >= 1
      /\ \A x : x \in C => Cardinality(C) >= 1
      /\ \A x : x \in D => Cardinality(D) >= 1
  BY <1>1, HasOne
<1>6. /\ \A x, y : x \in A /\ y \in A /\ x # y => Cardinality(A) >= 2
      /\ \A x, y : x \in B /\ y \in B /\ x # y => Cardinality(B) >= 2
      /\ \A x, y : x \in C /\ y \in C /\ x # y => Cardinality(C) >= 2
  BY <1>1, HasTwo
<1>7. ASSUME NEW t \in Task, Refers(r[t], s)
      PROVE  Cardinality(A) >= 1 \/ Cardinality(B) >= 1 \/ Cardinality(C) >= 1
  BY <1>4, <1>5, <1>7 DEF Refers
<1>8. ASSUME NEW t \in Task, NEW u \in Task, t # u, Refers(r[t], s), Refers(r[u], s)
      PROVE  inode[s].count >= 2
  <2>1. <<t, 1>> # <<u, 1>>
    BY <1>8
  <2>2. \/ Cardinality(A) >= 2 \/ Cardinality(B) >= 2 \/ Cardinality(C) >= 2
        \/ Cardinality(A) >= 1 /\ Cardinality(B) >= 1
        \/ Cardinality(A) >= 1 /\ Cardinality(C) >= 1
        \/ Cardinality(B) >= 1 /\ Cardinality(C) >= 1
    BY <1>4, <1>5, <1>6, <1>8, <2>1 DEF Refers
  <2> QED
    BY <1>2, <1>3, <2>2
<1>9. D # {} => Cardinality(D) >= 1
  BY <1>5
<1>10. ASSUME NEW t \in Task, r[t].file = s, r[t].s = s, Putting(r[t])
       PROVE  inode[s].count >= 2
  <2>1. <<t, 1>> \in A /\ t \in C
    BY <1>4, <1>10
  <2>2. Cardinality(A) >= 1 /\ Cardinality(C) >= 1
    BY <1>5, <2>1
  <2> QED
    BY <1>2, <1>3, <2>2
<1>11. \A t \in Task : Refers(r[t], s) => inode[s].count >= 1
  BY <1>2, <1>3, <1>7
<1>12. \A t \in Task : Refers(r[t], s) /\ D # {} => inode[s].count >= 2
  BY <1>2, <1>3, <1>7, <1>9
<1>13. D # {} => inode[s].count >= 1
  BY <1>2, <1>3, <1>9
<1> QED
  BY <1>8, <1>10, <1>11, <1>12, <1>13 DEF D

-----------------------------------------------------------------------------
(* What a step leaves alone                                                *)

Reads(q, s) == q.pc = "read_inode" /\ q.s = s
Cuts(q, s) == q.pc = "truncate" /\ q.s = s

\* What is known of inode j outside the table stays.
Same(j) ==
  disk'[j] = disk[j] /\ entry'[j] = entry[j] /\ (j \in imap' <=> j \in imap)

\* A task that runs changes its own registers only.
LEMMA OneTaskMoves ==
  ASSUME RegInv, NEW t \in Task, NEW q, r' = [r EXCEPT ![t] = q]
  PROVE  /\ DOMAIN r' = Task /\ r'[t] = q
         /\ r' = [u \in Task |-> r'[u]]
         /\ \A u \in Task : r'[u] = IF u = t THEN q ELSE r[u]
         /\ \A s : Reading(s)' <=> Reads(q, s) \/ \E u \in Task \ {t} : Reads(r[u], s)
         /\ \A s : Reading(s) <=> Reads(r[t], s) \/ \E u \in Task \ {t} : Reads(r[u], s)
         /\ \A s : Truncating(s)' <=> Cuts(q, s) \/ \E u \in Task \ {t} : Cuts(r[u], s)
         /\ \A s : Truncating(s) <=> Cuts(r[t], s) \/ \E u \in Task \ {t} : Cuts(r[u], s)
<1>1. /\ DOMAIN r = Task /\ DOMAIN r' = Task
      /\ \A u \in Task : r'[u] = IF u = t THEN q ELSE r[u]
  BY DEF RegInv
<1>2. r' = [u \in Task |-> r'[u]]
  BY <1>1
<1> QED
  BY <1>1, <1>2 DEF Reading, Truncating, Reads, Cuts

\* The step of one task, outside the super blocks, that changes the entries V.
LEMMA StepKeeps ==
  ASSUME InodeInv, TypeInv', NEW t \in Task, NEW q, r' = [r EXCEPT ![t] = q],
         Sound(q), super' = super, NEW V \in SUBSET Slot,
         Unmounting(q) <=> Unmounting(r[t]), Unmounting(q) => q.dev = r[t].dev,
         \A s \in Slot :
           inode'[s].count = inode[s].count - Share(r[t], s) + Share(q, s),
         \A s \in Slot : inode'[s].mount = inode[s].mount,
         \A s \in Slot \ V :
           /\ inode'[s] = inode[s]
           /\ Reads(q, s) <=> Reads(r[t], s)
           /\ Cuts(r[t], s) => Cuts(q, s)
           /\ inode[s].ino # NoIno => Same(inode[s].ino),
         \A s \in V : SlotAt(s)',
         OneEntryPerInode',
         \A j \in Ino : InoAt(j)',
         Fit(q, inode', super', entry'),
         \A u \in Task \ {t} : Fit(r[u], inode', super', entry'),
         \A u \in Task \ {t} : Apart(q, r[u]) /\ Apart(r[u], q)
  PROVE  InodeInv'
<1> USE DEF InodeInv
<1>1. /\ DOMAIN r' = Task /\ r'[t] = q /\ r' = [u \in Task |-> r'[u]]
      /\ \A u \in Task : r'[u] = IF u = t THEN q ELSE r[u]
      /\ \A s : Reading(s)' <=> Reads(q, s) \/ \E u \in Task \ {t} : Reads(r[u], s)
      /\ \A s : Reading(s) <=> Reads(r[t], s) \/ \E u \in Task \ {t} : Reads(r[u], s)
      /\ \A s : Truncating(s)' <=> Cuts(q, s) \/ \E u \in Task \ {t} : Cuts(r[u], s)
      /\ \A s : Truncating(s) <=> Cuts(r[t], s) \/ \E u \in Task \ {t} : Cuts(r[u], s)
  BY OneTaskMoves
<1>2. RegInv'
  BY <1>1 DEF RegInv
<1>a. \A s \in Slot : Mounts(s)' = Mounts(s)
  BY MountsStay
<1>3. CountInv'
  <2>1. q.refs \in 0 .. 2
    BY DEF Sound, Shaped, Shape
  <2> QED
    BY <1>a, <2>1, CountsStay
<1>4. FitInv'
  BY <1>1 DEF FitInv
<1>5. ApartInv'
  BY <1>1 DEF ApartInv
<1>6. SlotInv'
  <2> SUFFICES ASSUME NEW s \in Slot, s \notin V PROVE SlotAt(s)'
    BY DEF SlotInv
  <2>1. SlotAt(s) /\ inode'[s] = inode[s]
    BY DEF SlotInv
  <2>2. (Reading(s)' <=> Reading(s)) /\ (Truncating(s) => Truncating(s)')
    BY <1>1
  <2>3. \A d \in Device : Passes(inode', super', d) <=> Passes(inode, super, d)
    BY DEF Passes
  <2>4. inode[s].ino # NoIno => inode[s].ino \in Ino
    BY DEF TypeInv, Entry
  <2>5. inode[s].ino # NoIno => inode[s].ino[1] \in Device
    BY <2>4 DEF Device
  <2>6. inode[s].ino # NoIno =>
          \A n : Linked(inode[s].ino, n)' <=> Linked(inode[s].ino, n)
    BY DEF Linked, Same
  <2> QED
    BY <2>1, <2>2, <2>3, <2>5, <2>6 DEF SlotAt, Same
<1>7. InoInv'
  BY DEF InoInv
<1>8. DevInv'
  BY DEF DevInv
<1>9. MountInv'
  BY <1>a DEF MountInv
<1> QED
  BY <1>2, <1>3, <1>4, <1>5, <1>6, <1>7, <1>8, <1>9

\* An inode stays as it is outside the table if the table has it as before.
LEMMA InoKept ==
  ASSUME InodeInv, NEW j \in Ino, Same(j),
         \A s \in Slot : inode'[s].ino = j <=> inode[s].ino = j,
         \A s \in Slot : inode[s].ino = j /\ Reading(s)' => Reading(s)
  PROVE  InoAt(j)'
<1>1. InoAt(j)
  BY DEF InodeInv, InoInv
<1>2. (\A s \in SlotsOf(j)' : Reading(s)') => \A s \in SlotsOf(j) : Reading(s)
  BY DEF SlotsOf
<1>3. \A n : Linked(j, n)' <=> Linked(j, n)
  BY DEF Linked, Same
<1>4. disk'[j] = disk[j] /\ entry'[j] = entry[j] /\ (j \in imap' <=> j \in imap)
  BY DEF Same
<1> QED
  BY <1>1, <1>2, <1>3, <1>4 DEF InoAt

\* A task relies on the count and the links of an inode that is to be freed, of
\* a new one, and of an empty one.
Frozen(q, s) ==
  \/ q.empty = s
  \/ q.pc = "add_entry" /\ q.file = s
  \/ q.pc = "truncate" /\ q.ret # << >> /\ q.s = s

\* What a task relies on stays if nobody disturbs the entries that it uses.
LEMMA FitKept ==
  ASSUME NEW q, Sound(q), NEW tab, NEW tab2, NEW supers, NEW names, NEW names2,
         Fit(q, tab, supers, names),
         q.ino # NoIno => names2[q.ino] = names[q.ino],
         q.pc = "add_entry" => names2[tab[q.file].ino] = names[tab[q.file].ino],
         \A s \in Slot : tab2[s].mount = tab[s].mount,
         \A s \in Slot : Refers(q, s) \/ Locks(q, s) =>
           tab2[s].ino = tab[s].ino /\ tab2[s].pipe = tab[s].pipe,
         \A s \in Slot : Locks(q, s) => tab2[s].lock,
         \A s \in Slot : Frozen(q, s) =>
           tab2[s].count = tab[s].count /\ tab2[s].links = tab[s].links,
         \A s \in Slot : q.empty = s => ~tab2[s].dirt,
         \A s \in Slot : q.pc = "truncate" /\ q.ret # << >> /\ q.s = s => ~tab2[s].lock
  PROVE  Fit(q, tab2, supers, names2)
<1>1. /\ q.pc \in Places /\ q.ret \in Returns(q.pc)
      /\ (q.empty \in Slot \/ q.empty = None) /\ (q.file \in Slot \/ q.file = None)
      /\ (q.s \in Slot \/ q.s = None)
      /\ q.pc \in {"iput", "write_inode", "sync_inodes", "truncate", "put_super"} => q.s \in Slot
      /\ q.pc = "read_inode" => q.s = q.empty
      /\ q.pc \in {"add_entry", "sys_mount", "read_super"} => q.file \in Slot
      /\ q.pc \in Mapping \/ (q.pc = "truncate" /\ q.ret = << >>) => q.file \in Slot /\ q.s = q.file
      /\ q.empty # None <=> q.pc \in Taking
  BY DEF Sound, Shaped, Shape
<1>2. (Putting(q) <=> Puts(q)) /\ (Unmounting(q) <=> Ends(q))
  BY <1>1, PuttingIs
<1>3. Putting(q) => q.s \in Slot /\ Refers(q, q.s)
  BY <1>1, <1>2 DEF Puts, Refers
<1>4. Unmounting(q) => q.s \in Slot
  BY <1>1, <1>2 DEF Ends
<1>5. q.empty # None => q.empty \in Slot /\ Refers(q, q.empty) /\ Frozen(q, q.empty)
  BY <1>1 DEF Refers, Frozen
<1>6. q.file # None => q.file \in Slot /\ Refers(q, q.file)
  BY <1>1 DEF Refers
<1>7. q.pc \in {"read_inode", "write_inode"} => q.s \in Slot /\ Locks(q, q.s)
  BY <1>1 DEF Locks, Taking
<1>8. \A d : Passes(tab2, supers, d) <=> Passes(tab, supers, d)
  BY DEF Passes
<1>a. q.empty # None =>
       LET i == tab2[q.empty]
       IN /\ i.count = 1 /\ ~i.dirt /\ ~i.pipe /\ ~i.mount
          /\ i.ino = IF q.pc = "read_inode" THEN q.ino ELSE NoIno
  BY <1>5 DEF Fit
<1>b. (q.file # None => Filled(tab2[q.file])) /\ (Putting(q) => Filled(tab2[q.s]))
  BY <1>6, <1>3 DEF Fit, Filled
<1>c. q.pc \in {"add_entry", "sys_mount", "read_super"} => tab2[q.file].ino # NoIno
  BY <1>1, <1>6 DEF Fit, Refers
<1>d. q.pc \in Mapping \cup {"truncate", "write_inode"} => tab2[q.s].ino # NoIno
  <2>1. q.pc \in Mapping \cup {"truncate", "write_inode"} =>
          q.s \in Slot /\ (Refers(q, q.s) \/ Locks(q, q.s))
    BY <1>1, <1>2, <1>7 DEF Puts, Refers
  <2> QED
    BY <2>1 DEF Fit
<1>e. q.pc \in {"read_inode", "write_inode"} => tab2[q.s].lock
  BY <1>7
<1>f. q.pc = "add_entry" =>
       LET i == tab2[q.file]
       IN i.count = 1 /\ i.links = 1 /\ i.ino[1] = ROOT_DEV /\ names2[i.ino] = 0
  <2>1. q.pc = "add_entry" =>
          q.file \in Slot /\ Refers(q, q.file) /\ Frozen(q, q.file)
    BY <1>1 DEF Refers, Frozen
  <2> QED
    BY <2>1 DEF Fit
<1>g. q.pc = "truncate" /\ q.ret # << >> =>
       LET i == tab2[q.s]
       IN i.count = 1 /\ i.links = 0 /\ ~i.lock
  <2>1. q.pc = "truncate" /\ q.ret # << >> => q.s \in Slot /\ Frozen(q, q.s)
    BY <1>1 DEF Frozen
  <2> QED
    BY <2>1 DEF Fit
<1>h. q.ino # NoIno =>
       \/ names2[q.ino] > 0
       \/ q.ino \in Roots /\ Passes(tab2, supers, q.ino[1])
  BY <1>8 DEF Fit
<1>i. q.pc = "read_super" =>
       /\ supers[q.dev] = [there |-> TRUE, lock |-> TRUE, imount |-> None]
       /\ ~tab2[q.file].mount
       /\ \A d \in Device : supers[d].imount # q.file
  BY <1>1 DEF Fit
<1>j. Unmounting(q) => supers[q.dev].imount = q.s /\ ~tab2[q.s].mount
  BY <1>4 DEF Fit
<1> QED
  BY <1>a, <1>b, <1>c, <1>d, <1>e, <1>f, <1>g, <1>h, <1>i, <1>j DEF Fit

-----------------------------------------------------------------------------
(* Who uses an entry with whom                                             *)

\* Nobody relies on the count and the links of an entry that another one uses.
LEMMA NotFrozen ==
  ASSUME InodeInv, NEW t \in Task, NEW u \in Task, t # u, NEW v \in Slot,
         Refers(r[t], v)
  PROVE  ~Frozen(r[u], v)
<1>1. /\ Sound(r[u]) /\ Fit(r[u], inode, super, entry)
      /\ r[u].pc \in Places /\ r[u].ret \in Returns(r[u].pc)
  BY DEF InodeInv, RegInv, FitInv, Sound, Shaped, Shape
<1>2. Putting(r[u]) <=> Puts(r[u])
  BY <1>1, PuttingIs
<1>3. Frozen(r[u], v) => Refers(r[u], v) /\ inode[v].count = 1
  <2>1. r[u].empty = v => inode[v].count = 1
    BY <1>1, InodeAssumption DEF Fit
  <2>2. r[u].pc = "add_entry" /\ r[u].file = v => inode[v].count = 1
    BY <1>1 DEF Fit
  <2>3. r[u].pc = "truncate" /\ r[u].ret # << >> /\ r[u].s = v
           => inode[v].count = 1 /\ Puts(r[u])
    BY <1>1 DEF Fit, Puts
  <2> QED
    BY <1>2, <2>1, <2>2, <2>3 DEF Frozen, Refers
<1>4. Refers(r[u], v) => inode[v].count >= 2
  BY UsersAreCounted DEF InodeInv
<1> QED
  BY <1>3, <1>4

\* The only one who is counted is alone, and nobody uses what is not counted.
LEMMA AloneUser ==
  ASSUME InodeInv, NEW v \in Slot
  PROVE  /\ inode[v].count \in Int
         /\ \A t \in Task : Refers(r[t], v) => inode[v].count >= 1
         /\ \A t, u \in Task : inode[v].count < 2 /\ Refers(r[t], v) /\ u # t
                                 => ~Refers(r[u], v)
         /\ \A t \in Task : inode[v].count < 2 /\ Refers(r[t], v) => Mounts(v) = {}
         /\ inode[v].count < 1 => Mounts(v) = {}
         /\ \A t \in Task :
              r[t].file = v /\ r[t].s = v /\ Putting(r[t]) => inode[v].count >= 2
<1>1. inode[v].count \in Int
  BY DEF InodeInv, TypeInv, Entry
<1>2. /\ \A t \in Task : Refers(r[t], v) => inode[v].count >= 1
      /\ \A t, u \in Task :
           t # u /\ Refers(r[t], v) /\ Refers(r[u], v) => inode[v].count >= 2
      /\ \A t \in Task :
           Refers(r[t], v) /\ Mounts(v) # {} => inode[v].count >= 2
      /\ Mounts(v) # {} => inode[v].count >= 1
      /\ \A t \in Task :
           r[t].file = v /\ r[t].s = v /\ Putting(r[t]) => inode[v].count >= 2
  BY UsersAreCounted DEF InodeInv
<1> QED
  BY <1>1, <1>2

\* Nobody has locked an entry that is not locked.
LEMMA NobodyLocks ==
  ASSUME InodeInv, NEW v \in Slot, ~inode[v].lock, NEW t \in Task
  PROVE  ~Locks(r[t], v)
  BY DEF InodeInv, FitInv, Fit, Locks

\* What a step does to the entry s does not disturb the task with registers q.
Undisturbed(q, s) ==
  /\ Refers(q, s) \/ Locks(q, s) =>
       inode'[s].ino = inode[s].ino /\ inode'[s].pipe = inode[s].pipe
  /\ Locks(q, s) => inode'[s].lock
  /\ Frozen(q, s) => inode'[s].count = inode[s].count /\ inode'[s].links = inode[s].links
  /\ q.empty = s => ~inode'[s].dirt
  /\ q.pc = "truncate" /\ q.ret # << >> /\ q.s = s => ~inode'[s].lock

\* Nothing is known of inode j that a step could disturb.
Kept(j) ==
  /\ Same(j)
  /\ \A s \in Slot : inode'[s].ino = j <=> inode[s].ino = j
  /\ \A s \in Slot : inode[s].ino = j /\ Reading(s)' => Reading(s)

\* The step of a task that does not disturb the others.
LEMMA StepPreserves ==
  ASSUME InodeInv, TypeInv', NEW t \in Task, NEW q, r' = [r EXCEPT ![t] = q],
         Sound(q), super' = super, NEW V \in SUBSET Slot,
         Unmounting(q) <=> Unmounting(r[t]), Unmounting(q) => q.dev = r[t].dev,
         \A s \in Slot :
           inode'[s].count = inode[s].count - Share(r[t], s) + Share(q, s),
         \A s \in Slot : inode'[s].mount = inode[s].mount,
         \A s \in Slot \ V :
           /\ inode'[s] = inode[s]
           /\ Reads(q, s) <=> Reads(r[t], s)
           /\ Cuts(r[t], s) => Cuts(q, s)
           /\ inode[s].ino # NoIno => Same(inode[s].ino),
         \A s \in V : SlotAt(s)',
         OneEntryPerInode',
         \A j \in Ino : Kept(j) \/ InoAt(j)',
         Fit(q, inode', super', entry'),
         \A u \in Task \ {t} :
           /\ \A s \in V : Undisturbed(r[u], s)
           /\ r[u].ino # NoIno => entry'[r[u].ino] = entry[r[u].ino]
           /\ r[u].pc = "add_entry" =>
                entry'[inode[r[u].file].ino] = entry[inode[r[u].file].ino],
         q.pc # "read_super",
         \A s \in Slot : Locks(q, s) => Locks(r[t], s) \/ ~inode[s].lock
  PROVE  InodeInv'
<1>1. \A j \in Ino : InoAt(j)'
  BY InoKept DEF Kept
<1>2. ASSUME NEW u \in Task \ {t} PROVE Fit(r[u], inode', super', entry')
  <2>1. Sound(r[u]) /\ Fit(r[u], inode, super, entry)
    BY DEF InodeInv, RegInv, FitInv
  <2>2. \A s \in Slot : Undisturbed(r[u], s)
    <3>1. ASSUME NEW s \in Slot \ V PROVE Undisturbed(r[u], s)
      <4>1. r[u].empty = s => ~inode[s].dirt
        BY <2>1, InodeAssumption DEF Fit
      <4>2. Locks(r[u], s) => inode[s].lock
        BY <2>1 DEF Fit, Locks
      <4>3. r[u].pc = "truncate" /\ r[u].ret # << >> /\ r[u].s = s => ~inode[s].lock
        BY <2>1 DEF Fit
      <4> QED
        BY <4>1, <4>2, <4>3 DEF Undisturbed
    <3> QED
      BY <3>1
  <2> DEFINE tab == inode'
             names == entry'
  <2>3. /\ r[u].ino # NoIno => names[r[u].ino] = entry[r[u].ino]
        /\ r[u].pc = "add_entry" =>
             names[inode[r[u].file].ino] = entry[inode[r[u].file].ino]
        /\ \A s \in Slot : tab[s].mount = inode[s].mount
        /\ \A s \in Slot : Refers(r[u], s) \/ Locks(r[u], s) =>
             tab[s].ino = inode[s].ino /\ tab[s].pipe = inode[s].pipe
        /\ \A s \in Slot : Locks(r[u], s) => tab[s].lock
        /\ \A s \in Slot : Frozen(r[u], s) =>
             tab[s].count = inode[s].count /\ tab[s].links = inode[s].links
        /\ \A s \in Slot : r[u].empty = s => ~tab[s].dirt
        /\ \A s \in Slot : r[u].pc = "truncate" /\ r[u].ret # << >> /\ r[u].s = s
             => ~tab[s].lock
    BY <2>2 DEF Undisturbed
  <2> HIDE DEF tab, names
  <2>4. Fit(r[u], tab, super, names)
    BY <2>1, <2>3, FitKept
  <2> QED
    BY <2>4 DEF tab, names
<1>3. ASSUME NEW u \in Task \ {t} PROVE Apart(q, r[u]) /\ Apart(r[u], q)
  <2>1. Apart(r[t], r[u]) /\ Apart(r[u], r[t])
    BY DEF InodeInv, ApartInv
  <2>2. \A s \in Slot : ~inode[s].lock => ~Locks(r[u], s)
    BY NobodyLocks
  <2> QED
    BY <2>1, <2>2 DEF Apart
<1> QED
  BY <1>1, <1>2, <1>3, StepKeeps

\* The step of a task that keeps all inodes in their entries.
LEMMA StepKeepsInodes ==
  ASSUME InodeInv, TypeInv', NEW t \in Task, NEW q, r' = [r EXCEPT ![t] = q],
         Sound(q), UNCHANGED <<disk, imap, super, entry>>, NEW V \in SUBSET Slot,
         Unmounting(q) <=> Unmounting(r[t]), Unmounting(q) => q.dev = r[t].dev,
         q.pc # "read_super",
         \A s \in Slot :
           /\ inode'[s].count = inode[s].count - Share(r[t], s) + Share(q, s)
           /\ inode'[s].mount = inode[s].mount /\ inode'[s].ino = inode[s].ino
           /\ Reads(q, s) => Reads(r[t], s)
           /\ Locks(q, s) => Locks(r[t], s) \/ ~inode[s].lock,
         \A s \in Slot \ V :
           /\ inode'[s] = inode[s]
           /\ Reads(r[t], s) => Reads(q, s)
           /\ Cuts(r[t], s) => Cuts(q, s),
         \A s \in V : SlotAt(s)',
         Fit(q, inode', super', entry'),
         \A u \in Task \ {t}, s \in V : Undisturbed(r[u], s)
  PROVE  InodeInv'
<1>1. /\ \A s : Reading(s)' <=> Reads(q, s) \/ \E u \in Task \ {t} : Reads(r[u], s)
      /\ \A s : Reading(s) <=> Reads(r[t], s) \/ \E u \in Task \ {t} : Reads(r[u], s)
  BY OneTaskMoves DEF InodeInv
<1>2. \A j \in Ino : Kept(j)
  BY <1>1 DEF Kept, Same
<1>3. OneEntryPerInode'
  BY DEF InodeInv, OneEntryPerInode
<1>4. \A j : Same(j)
  BY DEF Same
<1>5. \A s \in Slot : inode'[s].count = inode[s].count - Share(r[t], s) + Share(q, s)
  OBVIOUS
<1>6. \A s \in Slot \ V :
           /\ inode'[s] = inode[s]
           /\ Reads(q, s) <=> Reads(r[t], s)
           /\ Cuts(r[t], s) => Cuts(q, s)
           /\ inode[s].ino # NoIno => Same(inode[s].ino)
  BY <1>4
<1>7. \A u \in Task \ {t} :
           /\ \A s \in V : Undisturbed(r[u], s)
           /\ r[u].ino # NoIno => entry'[r[u].ino] = entry[r[u].ino]
           /\ r[u].pc = "add_entry" =>
                entry'[inode[r[u].file].ino] = entry[inode[r[u].file].ino]
  OBVIOUS
<1>8. /\ \A s \in Slot : inode'[s].mount = inode[s].mount
      /\ \A s \in Slot : Locks(q, s) => Locks(r[t], s) \/ ~inode[s].lock
      /\ super' = super
      /\ \A j \in Ino : Kept(j) \/ InoAt(j)'
  BY <1>2
<1> QED
  BY <1>3, <1>5, <1>6, <1>7, <1>8, StepPreserves

\* A step that leaves the inodes alone.
LEMMA QuietStep ==
  ASSUME InodeInv, NEW t \in Task, NEW q, r' = [r EXCEPT ![t] = q],
         Sound(q), UNCHANGED <<inode, disk, imap, super, entry>>,
         zmap' \subseteq Zone, ind' \in [Zone -> Number],
         Unmounting(q) <=> Unmounting(r[t]), Unmounting(q) => q.dev = r[t].dev,
         q.pc # "read_super",
         \A s \in Slot :
           /\ Share(r[t], s) = Share(q, s)
           /\ Reads(q, s) <=> Reads(r[t], s)
           /\ Cuts(r[t], s) => Cuts(q, s)
           /\ Locks(q, s) => Locks(r[t], s) \/ ~inode[s].lock,
         Fit(q, inode, super, entry)
  PROVE  InodeInv'
<1>1. TypeInv'
  BY DEF InodeInv, TypeInv
<1>2. Fit(q, inode', super', entry')
  OBVIOUS
<1>3. \A s \in Slot : inode[s].count \in Int
  BY DEF InodeInv, TypeInv, Entry
<1>4. \A s \in Slot : Share(q, s) \in Int
  BY DEF Share, One, Sound, Shaped, Shape
<1>5. \A s \in Slot :
           /\ inode'[s].count = inode[s].count - Share(r[t], s) + Share(q, s)
           /\ inode'[s].mount = inode[s].mount /\ inode'[s].ino = inode[s].ino
           /\ Reads(q, s) => Reads(r[t], s)
           /\ Locks(q, s) => Locks(r[t], s) \/ ~inode[s].lock
  BY <1>3, <1>4
<1> DEFINE V == {}
<1>6. \A s \in Slot \ V :
           /\ inode'[s] = inode[s]
           /\ Reads(r[t], s) => Reads(q, s)
           /\ Cuts(r[t], s) => Cuts(q, s)
  OBVIOUS
<1>7. /\ V \in SUBSET Slot /\ \A s \in V : SlotAt(s)'
      /\ \A u \in Task \ {t}, s \in V : Undisturbed(r[u], s)
  OBVIOUS
<1>8. UNCHANGED <<disk, imap, super, entry>>
  OBVIOUS
<1> HIDE DEF V
<1> QED
  BY <1>1, <1>2, <1>5, <1>6, <1>7, <1>8, StepKeepsInodes

\* A step after which an entry has its inode and links as before.
LEMMA SlotKept ==
  ASSUME InodeInv, NEW v \in Slot, UNCHANGED <<imap, super, entry>>,
         \A s \in Slot : inode'[s].mount = inode[s].mount,
         inode'[v].ino = inode[v].ino, inode'[v].links = inode[v].links,
         inode'[v].pipe => inode[v].ino = NoIno,
         inode[v].ino = NoIno => ~inode'[v].dirt /\ ~inode'[v].lock,
         inode'[v].dirt \/ inode'[v].lock => inode'[v].count > 0,
         inode[v].ino # NoIno /\ inode'[v].count > 0 => inode[v].count > 0,
         Reading(v) => Reading(v)',
         inode[v].ino # NoIno /\ inode[v].links > 0 /\ ~inode'[v].dirt
           /\ ~Reading(v)' /\ ~Truncating(v)' =>
             disk'[inode[v].ino] = [links |-> inode[v].links, zone |-> inode'[v].zone]
  PROVE  SlotAt(v)'
<1>1. SlotAt(v)
  BY DEF InodeInv, SlotInv
<1>2. \A n : Linked(inode[v].ino, n)' <=> Linked(inode[v].ino, n)
  BY DEF Linked
<1>3. \A d \in Device : Passes(inode', super', d) <=> Passes(inode, super, d)
  BY DEF Passes
<1>4. inode[v].ino # NoIno => inode[v].ino[1] \in Device
  BY DEF InodeInv, TypeInv, Entry, Device
<1> QED
  BY <1>1, <1>2, <1>3, <1>4 DEF SlotAt

-----------------------------------------------------------------------------
(* Registers after a step                                                  *)

\* What the registers of a task say.
LEMMA RegistersAre ==
  ASSUME InodeInv, NEW t \in Task
  PROVE  /\ Sound(r[t]) /\ Shaped(r[t]) /\ Fit(r[t], inode, super, entry)
         /\ r[t].pc \in Places /\ r[t].ret \in Returns(r[t].pc)
         /\ (Putting(r[t]) <=> Puts(r[t])) /\ (Unmounting(r[t]) <=> Ends(r[t]))
<1>1. Sound(r[t]) /\ Fit(r[t], inode, super, entry)
  BY DEF InodeInv, RegInv, FitInv
<1>2. Shaped(r[t]) /\ r[t].pc \in Places /\ r[t].ret \in Returns(r[t].pc)
  BY <1>1 DEF Sound, Shaped, Shape
<1> QED
  BY <1>1, <1>2, PuttingIs

\* The registers of a task in its program.
LEMMA RegistersHaveShape ==
  Registers \in Shape(<< >>)
<1> DEFINE todo == Seq(Zone \X (0 .. 2))
<1>1. << >> \in todo /\ {} \in SUBSET Zone /\ {} \in SUBSET Slot
  OBVIOUS
<1> HIDE DEF todo
<1>2. 0 \in 0 .. 3 /\ 0 \in 0 .. 2 /\ "user" \in Places
  BY DEF Places
<1>3. Registers \in [pc : Places \cup {"repeat", "synced", "free_inode"}, ret : {<< >>}, s : Slot \cup {None},
   empty : Slot \cup {None}, ino : Ino \cup {NoIno},
   file : Slot \cup {None}, refs : 0 .. 2, k : 0 .. 3, hold : SUBSET Zone,
   todo : todo, rest : SUBSET Slot, make : BOOLEAN,
   dev : Device \cup {0}]
  BY <1>1, <1>2 DEF Registers
<1> QED
  BY <1>3 DEF Shape, todo

\* Registers keep their shape when a field gets another value.
LEMMA ShapeKept ==
  ASSUME NEW back, NEW p \in Shape(back)
  PROVE  /\ \A x \in Places \cup {"repeat", "synced", "free_inode"} :
              [p EXCEPT !.pc = x] \in Shape(back)
         /\ \A x : [p EXCEPT !.ret = x] \in Shape(x)
         /\ \A x \in Slot \cup {None} :
              /\ [p EXCEPT !.s = x] \in Shape(back)
              /\ [p EXCEPT !.empty = x] \in Shape(back)
              /\ [p EXCEPT !.file = x] \in Shape(back)
         /\ \A x \in Ino \cup {NoIno} : [p EXCEPT !.ino = x] \in Shape(back)
         /\ \A x \in 0 .. 2 : [p EXCEPT !.refs = x] \in Shape(back)
         /\ \A x \in 0 .. 3 : [p EXCEPT !.k = x] \in Shape(back)
         /\ \A x \in SUBSET Zone : [p EXCEPT !.hold = x] \in Shape(back)
         /\ \A x \in Seq(Zone \X (0 .. 2)) : [p EXCEPT !.todo = x] \in Shape(back)
         /\ \A x \in SUBSET Slot : [p EXCEPT !.rest = x] \in Shape(back)
         /\ \A x \in BOOLEAN : [p EXCEPT !.make = x] \in Shape(back)
         /\ \A x \in Device \cup {0} : [p EXCEPT !.dev = x] \in Shape(back)
<1> DEFINE todo == Seq(Zone \X (0 .. 2))
           pcs == Places \cup {"repeat", "synced", "free_inode"}
           shape(x) == [pc : pcs, ret : {x}, s : Slot \cup {None},
             empty : Slot \cup {None}, ino : Ino \cup {NoIno},
             file : Slot \cup {None}, refs : 0 .. 2, k : 0 .. 3, hold : SUBSET Zone,
             todo : todo, rest : SUBSET Slot, make : BOOLEAN,
             dev : Device \cup {0}]
<1>0. \A x : Shape(x) = shape(x)
  BY DEF Shape
<1> HIDE DEF todo, pcs
<1>1. p \in shape(back)
  BY <1>0
<1>2. \A x \in pcs : [p EXCEPT !.pc = x] \in shape(back)
  BY <1>1
<1>3. \A x : [p EXCEPT !.ret = x] \in shape(x)
  BY <1>1
<1>4. \A x \in Slot \cup {None} : [p EXCEPT !.s = x] \in shape(back)
  BY <1>1
<1>5. \A x \in Slot \cup {None} : [p EXCEPT !.empty = x] \in shape(back)
  BY <1>1
<1>6. \A x \in Slot \cup {None} : [p EXCEPT !.file = x] \in shape(back)
  BY <1>1
<1>7. \A x \in Ino \cup {NoIno} : [p EXCEPT !.ino = x] \in shape(back)
  BY <1>1
<1>8. \A x \in 0 .. 2 : [p EXCEPT !.refs = x] \in shape(back)
  BY <1>1
<1>9. \A x \in 0 .. 3 : [p EXCEPT !.k = x] \in shape(back)
  BY <1>1
<1>10. \A x \in SUBSET Zone : [p EXCEPT !.hold = x] \in shape(back)
  BY <1>1
<1>11. \A x \in todo : [p EXCEPT !.todo = x] \in shape(back)
  BY <1>1
<1>12. \A x \in SUBSET Slot : [p EXCEPT !.rest = x] \in shape(back)
  BY <1>1
<1>13. \A x \in BOOLEAN : [p EXCEPT !.make = x] \in shape(back)
  BY <1>1
<1>14. \A x \in Device \cup {0} : [p EXCEPT !.dev = x] \in shape(back)
  BY <1>1
<1> HIDE DEF shape
<1> QED
  BY <1>0, <1>2, <1>3, <1>4, <1>5, <1>6, <1>7, <1>8, <1>9, <1>10, <1>11, <1>12,
     <1>13, <1>14 DEF todo, pcs

\* Back in the program with the file p, or without one.
LEMMA LeaveIsSound ==
  ASSUME NEW p, Sound(p)
  PROVE  LET q == Leave(p)
         IN /\ Sound(q)
            /\ q.pc = "user" /\ q.ret = << >> /\ q.s = None /\ q.empty = None
            /\ q.file = p.file /\ q.refs = p.refs /\ q.ino = NoIno
            /\ ~Putting(q) /\ ~Unmounting(q)
            /\ \A s \in Slot : ~Reads(q, s) /\ ~Locks(q, s) /\ ~Cuts(q, s)
            /\ \A s \in Slot : Share(q, s) = IF p.file = s THEN p.refs ELSE 0
            /\ \A tab, supers, names :
                 (p.file # None => Filled(tab[p.file])) => Fit(q, tab, supers, names)
<1> DEFINE q == Leave(p)
<1>1. /\ q.pc = "user" /\ q.ret = << >> /\ q.s = None /\ q.empty = None
      /\ q.file = p.file /\ q.refs = p.refs /\ q.ino = NoIno /\ q.k = 0
      /\ q.hold = {} /\ q.todo = << >> /\ q.rest = {} /\ q.make = FALSE /\ q.dev = 0
  BY DEF Leave, Registers
<1>2. Shaped(q)
  <2>1. p.file \in Slot \cup {None} /\ p.refs \in 0 .. 2
    BY DEF Sound, Shaped, Shape
  <2>2. q \in Shape(<< >>)
    BY <2>1, RegistersHaveShape DEF Shape, Leave
  <2> QED
    BY <1>1, <2>2 DEF Shaped, Shape
<1>3. q = Leave(q)
  BY DEF Leave, Registers
<1>4. q.pc \in Places /\ q.ret \in Returns(q.pc)
  BY <1>1 DEF Places, Returns
<1>5. ~Putting(q) /\ ~Unmounting(q)
  BY <1>1, <1>4, PuttingIs DEF Puts, Ends
<1> HIDE DEF q
<1>6. p.file = None <=> p.refs = 0
  BY DEF Sound
<1>7. Sound(q)
  BY <1>1, <1>2, <1>3, <1>4, <1>5, <1>6, StacksDiffer DEF Sound, Taking, Mapping
<1>8. \A s \in Slot : Share(q, s) = IF p.file = s THEN p.refs ELSE 0
  <2>1. p.refs \in Int
    BY DEF Sound, Shaped, Shape
  <2> QED
    BY <1>1, <1>5, <2>1, InodeAssumption DEF Share, One
<1>9. \A s \in Slot : ~Reads(q, s) /\ ~Locks(q, s) /\ ~Cuts(q, s)
  BY <1>1 DEF Reads, Locks, Cuts
<1>10. ASSUME NEW tab, NEW supers, NEW names, p.file # None => Filled(tab[p.file])
       PROVE  Fit(q, tab, supers, names)
  BY <1>1, <1>5, <1>10 DEF Fit, Mapping
<1> QED
  BY <1>1, <1>5, <1>7, <1>8, <1>9, <1>10 DEF q

\* The step of a task that is in none of its inodes.
LEMMA DataKeeps ==
  ASSUME InodeInv, NEW t \in Task, r[t].pc \in Mapping \cup {"user"},
         r' = [r EXCEPT ![t] = Leave(r[t])],
         UNCHANGED <<inode, disk, imap, super, entry>>,
         zmap' \subseteq Zone, ind' \in [Zone -> Number]
  PROVE  InodeInv'
<1> DEFINE q == Leave(r[t])
<1>1. /\ Sound(r[t]) /\ Fit(r[t], inode, super, entry)
      /\ ~Putting(r[t]) /\ ~Unmounting(r[t])
  BY RegistersAre DEF Mapping, Puts, Ends
<1>2. /\ Sound(q) /\ q.pc = "user"
      /\ ~Putting(q) /\ ~Unmounting(q)
      /\ \A s \in Slot : ~Reads(q, s) /\ ~Locks(q, s) /\ ~Cuts(q, s)
      /\ \A s \in Slot : Share(q, s) = IF r[t].file = s THEN r[t].refs ELSE 0
      /\ Fit(q, inode, super, entry)
  BY <1>1, LeaveIsSound DEF Fit
<1>3. r[t].empty = None /\ r[t].refs \in Int
  BY <1>1 DEF Sound, Shaped, Shape, Taking, Mapping
<1>4. \A s \in Slot :
           /\ Share(r[t], s) = Share(q, s)
           /\ Reads(q, s) <=> Reads(r[t], s)
           /\ Cuts(r[t], s) => Cuts(q, s)
           /\ Locks(q, s) => Locks(r[t], s) \/ ~inode[s].lock
  BY <1>1, <1>2, <1>3, InodeAssumption DEF Share, One, Reads, Cuts, Mapping
<1> HIDE DEF q
<1>5. r' = [r EXCEPT ![t] = q]
  BY DEF q
<1> QED
  BY <1>1, <1>2, <1>4, <1>5, QuietStep

-----------------------------------------------------------------------------
(* bmap: the file stays open                                               *)

\* A task in bmap, or on its way there.
LEMMA InBmap ==
  ASSUME InodeInv, NEW t \in Task, r[t].pc \in Mapping \cup {"user"},
         NEW q, Shaped(q), q.ret = << >>, q.pc \in Mapping, q.file # None,
         q.file = r[t].file, q.refs = r[t].refs, q.s = q.file, q.empty = None,
         q.ino = r[t].ino, q.k \in 0 .. 2, q.pc = "new_block" => q.todo # << >>
  PROVE  /\ Sound(q) /\ ~Unmounting(q) /\ ~Unmounting(r[t])
         /\ \A s \in Slot :
              /\ Share(q, s) = Share(r[t], s) /\ Share(q, s) \in Int
              /\ ~Reads(q, s) /\ ~Reads(r[t], s) /\ ~Cuts(r[t], s) /\ ~Locks(q, s)
         /\ \A tab :
              /\ tab[q.file].ino # NoIno
              /\ \A s \in Slot : tab[s].mount = inode[s].mount
              => Fit(q, tab, super, entry)
<1>1. /\ Sound(r[t]) /\ Fit(r[t], inode, super, entry)
      /\ ~Putting(r[t]) /\ ~Unmounting(r[t])
  BY RegistersAre DEF Mapping, Puts, Ends
<1>2. /\ r[t].empty = None /\ r[t].refs \in Int
      /\ (r[t].file = None <=> r[t].refs = 0)
  BY <1>1 DEF Sound, Shaped, Shape, Taking, Mapping
<1>3. q.pc \in Places /\ q.ret \in Returns(q.pc)
  BY DEF Places, Mapping, Returns
<1>4. ~Putting(q) /\ ~Unmounting(q)
  BY <1>3, PuttingIs DEF Puts, Ends, Mapping
<1>5. Sound(q)
  BY <1>2, <1>3, <1>4, StacksDiffer DEF Sound, Mapping, Taking
<1>6. \A s \in Slot :
        /\ Share(q, s) = Share(r[t], s) /\ Share(q, s) \in Int
        /\ ~Reads(q, s) /\ ~Reads(r[t], s) /\ ~Cuts(r[t], s) /\ ~Locks(q, s)
  BY <1>1, <1>2, <1>4, InodeAssumption DEF Share, One, Reads, Cuts, Locks, Mapping
<1>7. ASSUME NEW tab, tab[q.file].ino # NoIno,
             \A s \in Slot : tab[s].mount = inode[s].mount
      PROVE  Fit(q, tab, super, entry)
  <2>1. \A d : Passes(tab, super, d) <=> Passes(inode, super, d)
    BY <1>7 DEF Passes
  <2> QED
    BY <1>1, <1>4, <1>7, <2>1 DEF Fit, Filled, Mapping
<1> QED
  BY <1>1, <1>4, <1>5, <1>6, <1>7

\* The registers with which _bmap goes on with p.
Follows(p, q) ==
  /\ Shaped(q) /\ q.ret = << >> /\ q.pc \in {"data", "_bmap"} /\ q.file = p.file
  /\ q.refs = p.refs /\ q.s = p.s /\ q.empty = p.empty /\ q.ino = p.ino /\ q.k \in 0 .. 2

LEMMA FollowGoes ==
  ASSUME NEW t \in Task, NEW p, Shaped(p), p.ret = << >>, p.k \in 0 .. 2,
         NEW v \in Number, v # 0, Follow(t, p, v)
  PROVE  \E q : Follows(p, q) /\ r' = [r EXCEPT ![t] = q]
<1> DEFINE q == IF p.k = 0 THEN [p EXCEPT !.hold = {v}, !.pc = "data"]
                ELSE [p EXCEPT !.hold = {v}, !.pc = "_bmap", !.k = @ - 1]
<1>1. r' = [r EXCEPT ![t] = q]
  BY DEF Follow, Set
<1>2. p.k \in 0 .. 3 /\ {v} \in SUBSET Zone
  BY DEF Shaped, Shape, Number
<1>3. q \in Shape(<< >>)
  <2> DEFINE todo == Seq(Zone \X (0 .. 2))
             shape == [pc : Places \cup {"repeat", "synced", "free_inode"}, ret : {<< >>}, s : Slot \cup {None},
               empty : Slot \cup {None}, ino : Ino \cup {NoIno},
               file : Slot \cup {None}, refs : 0 .. 2, k : 0 .. 3, hold : SUBSET Zone,
               todo : todo, rest : SUBSET Slot, make : BOOLEAN,
               dev : Device \cup {0}]
  <2>1. p \in shape
    BY DEF Shaped, Shape
  <2>2. "data" \in Places /\ "_bmap" \in Places
    BY DEF Places, Mapping
  <2> HIDE DEF todo
  <2>3. [p EXCEPT !.hold = {v}, !.pc = "data"] \in shape
    BY <1>2, <2>1, <2>2
  <2>4. p.k # 0 => p.k - 1 \in 0 .. 3
    BY <1>2
  <2>5. p.k # 0 => [p EXCEPT !.hold = {v}, !.pc = "_bmap", !.k = p.k - 1] \in shape
    BY <1>2, <2>1, <2>2, <2>4
  <2>6. [p EXCEPT !.k = @ - 1] = [p EXCEPT !.k = p.k - 1]
    BY <2>1
  <2>7. q \in shape
    BY <2>3, <2>5
  <2> QED
    BY <2>7 DEF Shape, todo
<1>4. /\ q.ret = << >> /\ q.pc \in {"data", "_bmap"} /\ q.file = p.file /\ q.refs = p.refs
      /\ q.s = p.s /\ q.empty = p.empty /\ q.ino = p.ino /\ q.k \in 0 .. 2
  BY DEF Shaped, Shape
<1> HIDE DEF q
<1>5. Shaped(q)
  BY <1>3, <1>4 DEF Shaped
<1> QED
  BY <1>1, <1>4, <1>5 DEF Follows

\* _bmap goes on with p to the zone v.
LEMMA FollowKeeps ==
  ASSUME InodeInv, NEW t \in Task, r[t].pc \in Mapping \cup {"user"},
         NEW p, Shaped(p), p.ret = << >>, p.file # None,
         p.file = r[t].file, p.refs = r[t].refs, p.s = p.file, p.empty = None,
         p.ino = r[t].ino, inode[p.file].ino # NoIno, p.k \in 0 .. 2,
         NEW v \in Number, Follow(t, p, v),
         UNCHANGED <<inode, disk, imap, super, entry>>,
         zmap' \subseteq Zone, ind' \in [Zone -> Number]
  PROVE  InodeInv'
<1>1. CASE v = 0
  <2>1. Leave(p) = Leave(r[t])
    BY DEF Leave
  <2> QED
    BY <1>1, <2>1, DataKeeps DEF Follow, Set
<1>2. CASE v # 0
  <2>1. PICK q : Follows(p, q) /\ r' = [r EXCEPT ![t] = q]
    BY <1>2, FollowGoes
  <2>4. /\ q.ret = << >> /\ q.pc \in Mapping /\ q.file = p.file /\ q.refs = p.refs
        /\ q.s = p.s /\ q.empty = p.empty /\ q.ino = p.ino /\ q.k \in 0 .. 2
        /\ Shaped(q) /\ q.pc # "new_block"
    BY <2>1 DEF Follows, Mapping
  <2>6. /\ Sound(q) /\ ~Unmounting(q) /\ ~Unmounting(r[t])
        /\ \A s \in Slot :
              /\ Share(q, s) = Share(r[t], s)
              /\ ~Reads(q, s) /\ ~Reads(r[t], s) /\ ~Cuts(r[t], s) /\ ~Locks(q, s)
        /\ Fit(q, inode, super, entry)
    BY <2>4, InBmap
  <2>7. q.pc # "read_super"
    BY <2>4 DEF Mapping
  <2> QED
    BY <2>1, <2>6, <2>7, QuietStep
<1> QED
  BY <1>1, <1>2

\* _bmap with p up to its next sleep.
LEMMA WalkKeeps ==
  ASSUME InodeInv, NEW t \in Task, r[t].pc \in Mapping \cup {"user"},
         NEW p, Shaped(p), p.ret = << >>, p.file # None,
         p.file = r[t].file, p.refs = r[t].refs, p.s = p.file, p.empty = None,
         p.ino = r[t].ino, inode[p.file].ino # NoIno, p.k \in 0 .. 2,
         Walk(t, p), UNCHANGED <<inode, disk, imap, ind, super, entry>>
  PROVE  InodeInv'
<1>1. ind' \in [Zone -> Number] /\ zmap \subseteq Zone /\ Zone \subseteq Nat
  BY InodeAssumption DEF InodeInv, TypeInv
<1>2. CASE Pointer(p) = 0 /\ p.make /\ zmap # Zone
  <2> DEFINE z == NewZone
             q == [p EXCEPT !.pc = "new_block", !.todo = <<<<z, 0>>>>]
  <2>1. z \in Zone
    <3>1. Zone \ zmap \in SUBSET Nat /\ Zone \ zmap # {}
      BY <1>1, <1>2
    <3> QED
      BY <3>1, MinIsLeast DEF NewZone
  <2>2. r' = [r EXCEPT ![t] = q] /\ zmap' = zmap \cup {z}
    BY <1>2 DEF Walk, Set
  <2> HIDE DEF z
  <2>3. <<<<z, 0>>>> \in Seq(Zone \X (0 .. 2))
    BY <2>1
  <2>4. q \in Shape(<< >>)
    <3> DEFINE todo == Seq(Zone \X (0 .. 2))
    <3>1. p \in [pc : Places \cup {"repeat", "synced", "free_inode"}, ret : {<< >>}, s : Slot \cup {None},
                 empty : Slot \cup {None}, ino : Ino \cup {NoIno},
                 file : Slot \cup {None}, refs : 0 .. 2, k : 0 .. 3, hold : SUBSET Zone,
                 todo : todo, rest : SUBSET Slot, make : BOOLEAN,
                 dev : Device \cup {0}]
      BY DEF Shaped, Shape
    <3>2. <<<<z, 0>>>> \in todo /\ "new_block" \in Places
      BY <2>3 DEF Places, Mapping
    <3> HIDE DEF todo
    <3>3. q \in [pc : Places \cup {"repeat", "synced", "free_inode"}, ret : {<< >>}, s : Slot \cup {None},
                 empty : Slot \cup {None}, ino : Ino \cup {NoIno},
                 file : Slot \cup {None}, refs : 0 .. 2, k : 0 .. 3, hold : SUBSET Zone,
                 todo : todo, rest : SUBSET Slot, make : BOOLEAN,
                 dev : Device \cup {0}]
      BY <3>1, <3>2
    <3> QED
      BY <3>3 DEF Shape, todo
  <2>5. /\ q.ret = << >> /\ q.pc \in Mapping /\ q.file = p.file /\ q.refs = p.refs
        /\ q.s = p.s /\ q.empty = p.empty /\ q.ino = p.ino /\ q.k = p.k
        /\ q.todo # << >>
    BY DEF Shaped, Shape, Mapping
  <2> HIDE DEF q
  <2>6. Shaped(q)
    BY <2>4, <2>5 DEF Shaped
  <2>7. /\ Sound(q) /\ ~Unmounting(q) /\ ~Unmounting(r[t])
        /\ \A s \in Slot :
              /\ Share(q, s) = Share(r[t], s)
              /\ ~Reads(q, s) /\ ~Reads(r[t], s) /\ ~Cuts(r[t], s) /\ ~Locks(q, s)
        /\ Fit(q, inode, super, entry)
    BY <2>5, <2>6, InBmap
  <2>8. q.pc # "read_super"
    BY <2>5 DEF Mapping
  <2>9. zmap' \subseteq Zone
    BY <1>1, <2>1, <2>2
  <2> QED
    BY <1>1, <2>2, <2>7, <2>8, <2>9, QuietStep
<1>3. CASE ~(Pointer(p) = 0 /\ p.make /\ zmap # Zone)
  <2>1. Follow(t, p, Pointer(p)) /\ zmap' = zmap
    BY <1>3 DEF Walk
  <2>2. Pointer(p) \in Number
    <3>1. CASE p.hold = {}
      <4>1. p.s \in Slot /\ p.k \in 0 .. 2
        BY <3>1 DEF Shaped, Shape
      <4> QED
        BY <3>1, <4>1 DEF Pointer, InodeInv, TypeInv, Entry
    <3>2. CASE p.hold # {}
      <4>1. p.hold \in SUBSET Zone
        BY DEF Shaped, Shape
      <4>2. Min(p.hold) \in Zone
        BY <1>1, <3>2, <4>1, MinIsLeast
      <4> QED
        BY <3>2, <4>2 DEF Pointer, InodeInv, TypeInv
    <3> QED
      BY <3>1, <3>2
  <2> QED
    BY <1>1, <2>1, <2>2, FollowKeeps
<1> QED
  BY <1>2, <1>3

\* The block is released.
LEMMA Keeps_data ==
  ASSUME InodeInv, NEW t \in Task, data(t)
  PROVE  InodeInv'
<1>1. r[t].pc \in Mapping /\ r' = [r EXCEPT ![t] = Leave(r[t])]
  BY DEF data, At, Set, Mapping
<1>2. UNCHANGED <<inode, disk, imap, super, entry, zmap, ind>>
  BY DEF data, fs
<1>3. zmap' \subseteq Zone /\ ind' \in [Zone -> Number]
  BY <1>2 DEF InodeInv, TypeInv
<1> QED
  BY <1>1, <1>2, <1>3, DataKeeps

\* bread has returned the indirect zone.
LEMMA Keeps_bmap ==
  ASSUME InodeInv, NEW t \in Task, _bmap(t)
  PROVE  InodeInv'
<1>1. r[t].pc = "_bmap" /\ UNCHANGED <<inode, disk, imap, ind, super, entry>>
  BY DEF _bmap, At
<1>2. CASE Walk(t, r[t])
  <2>1. /\ Sound(r[t]) /\ Shaped(r[t]) /\ Fit(r[t], inode, super, entry)
    BY RegistersAre
  <2>2. /\ r[t].ret = << >> /\ r[t].file # None /\ r[t].s = r[t].file
        /\ r[t].empty = None /\ r[t].k \in 0 .. 2
    BY <1>1, <2>1 DEF Sound, Mapping, Taking, Returns
  <2>3. inode[r[t].file].ino # NoIno
    BY <1>1, <2>1, <2>2 DEF Fit, Mapping
  <2>4. r[t].pc \in Mapping \cup {"user"}
    BY <1>1 DEF Mapping
  <2> QED
    BY <1>1, <1>2, <2>1, <2>2, <2>3, <2>4, WalkKeeps
<1>3. CASE Set(t, Leave(r[t])) /\ UNCHANGED zmap
  <2>1. zmap' \subseteq Zone /\ ind' \in [Zone -> Number]
    BY <1>1, <1>3 DEF InodeInv, TypeInv
  <2> QED
    BY <1>1, <1>3, <2>1, DataKeeps DEF Set, Mapping
<1> QED
  BY <1>2, <1>3 DEF _bmap

\* What the registers of a task in its program say.
LEMMA UserRegisters ==
  ASSUME InodeInv, NEW t \in Task, r[t].pc = "user"
  PROVE  /\ r[t] = Leave(r[t]) /\ r[t].ret = << >> /\ r[t].s = None
         /\ r[t].empty = None /\ r[t].ino = NoIno /\ r[t].k = 0 /\ r[t].dev = 0
         /\ r[t].refs \in 0 .. 2 /\ (r[t].file = None <=> r[t].refs = 0)
         /\ r[t].file \in Slot \cup {None}
         /\ ~Putting(r[t]) /\ ~Unmounting(r[t])
         /\ \A s : ~Reads(r[t], s) /\ ~Cuts(r[t], s) /\ ~Locks(r[t], s)
         /\ r[t].file # None => Filled(inode[r[t].file])
<1>1. /\ Sound(r[t]) /\ Shaped(r[t]) /\ Fit(r[t], inode, super, entry)
      /\ ~Putting(r[t]) /\ ~Unmounting(r[t])
  BY RegistersAre DEF Puts, Ends
<1>2. r[t] = Leave(r[t])
  BY <1>1 DEF Sound
<1>3. LET q == Leave(r[t])
      IN /\ q.pc = "user" /\ q.ret = << >> /\ q.s = None
         /\ q.empty = None /\ q.ino = NoIno /\ q.k = 0 /\ q.dev = 0
  BY DEF Leave, Registers
<1>4. /\ r[t].ret = << >> /\ r[t].s = None
      /\ r[t].empty = None /\ r[t].ino = NoIno /\ r[t].k = 0 /\ r[t].dev = 0
  BY <1>2, <1>3
<1>5. /\ r[t].refs \in 0 .. 2 /\ (r[t].file = None <=> r[t].refs = 0)
      /\ r[t].file \in Slot \cup {None}
  BY <1>1 DEF Sound, Shaped, Shape
<1> QED
  BY <1>1, <1>2, <1>4, <1>5 DEF Reads, Cuts, Locks, Fit

\* A file that is not a pipe has an inode, which tasks use while nothing frees it.
LEMMA FileHasInode ==
  ASSUME InodeInv, NEW t \in Task, r[t].pc = "user", r[t].file # None,
         ~inode[r[t].file].pipe
  PROVE  inode[r[t].file].ino \in Ino /\ inode[r[t].file].ino # NoIno
<1>1. r[t].file \in Slot /\ Filled(inode[r[t].file])
  BY UserRegisters
<1>2. inode[r[t].file].ino \in Ino \cup {NoIno}
  BY <1>1 DEF InodeInv, TypeInv, Entry
<1> QED
  BY <1>1, <1>2 DEF Filled

\* A read or a write of the file begins.
LEMMA Keeps_Access ==
  ASSUME InodeInv, NEW t \in Task, Access(t)
  PROVE  InodeInv'
<1>1. /\ r[t].pc = "user" /\ r[t].file # None /\ ~inode[r[t].file].pipe
      /\ UNCHANGED <<inode, disk, imap, ind, super, entry>>
  BY DEF Access, Uses, At, File
<1>2. PICK b \in Block, create \in BOOLEAN :
        Walk(t, [r[t] EXCEPT !.s = r[t].file, !.k = b, !.make = create])
  BY DEF Access
<1> DEFINE p == [r[t] EXCEPT !.s = r[t].file, !.k = b, !.make = create]
<1>3. /\ r[t].ret = << >> /\ r[t].empty = None /\ r[t].file \in Slot
      /\ Shaped(r[t]) /\ b \in 0 .. 2 /\ b \in 0 .. 3
  BY <1>1, UserRegisters, RegistersAre, InodeAssumption
<1>4. inode[r[t].file].ino # NoIno
  BY <1>1, FileHasInode
<1>5. p \in Shape(<< >>)
  <2> DEFINE p1 == [r[t] EXCEPT !.s = r[t].file]
             p2 == [p1 EXCEPT !.k = b]
  <2>1. r[t] \in Shape(<< >>)
    BY <1>3 DEF Shaped
  <2>2. p1 \in Shape(<< >>)
    BY <1>3, <2>1, ShapeKept
  <2> HIDE DEF p1
  <2>3. p2 \in Shape(<< >>)
    BY <1>3, <2>2, ShapeKept
  <2> HIDE DEF p2
  <2>4. [p2 EXCEPT !.make = create] \in Shape(<< >>)
    BY <2>3, ShapeKept
  <2>5. p = [p2 EXCEPT !.make = create]
    BY DEF p1, p2
  <2> QED
    BY <2>4, <2>5
<1>6. /\ p.ret = << >> /\ p.file # None /\ p.file = r[t].file /\ p.refs = r[t].refs
      /\ p.s = p.file /\ p.empty = None /\ p.ino = r[t].ino /\ p.k = b
  BY <1>1, <1>3 DEF Shaped, Shape
<1>7. Walk(t, p)
  BY <1>2
<1> HIDE DEF p
<1>8. Shaped(p)
  BY <1>5, <1>6 DEF Shaped
<1>9. inode[p.file].ino # NoIno /\ p.k \in 0 .. 2
  BY <1>3, <1>4, <1>6
<1> QED
  BY <1>1, <1>6, <1>7, <1>8, <1>9, WalkKeeps

\* sys_open truncates the file.
LEMMA Keeps_Truncate ==
  ASSUME InodeInv, NEW t \in Task, Truncate(t)
  PROVE  InodeInv'
<1> DEFINE q == [r[t] EXCEPT !.pc = "truncate", !.s = r[t].file]
<1>1. /\ r[t].pc = "user" /\ r[t].file # None /\ ~inode[r[t].file].pipe
      /\ UNCHANGED <<inode, disk, imap, zmap, ind, super, entry>>
      /\ r' = [r EXCEPT ![t] = q]
  BY DEF Truncate, Uses, At, File, Set, fs
<1>2. /\ r[t].ret = << >> /\ r[t].s = None /\ r[t].empty = None /\ r[t].ino = NoIno
      /\ r[t].refs \in 0 .. 2 /\ (r[t].file = None <=> r[t].refs = 0)
      /\ r[t].file \in Slot
      /\ ~Putting(r[t]) /\ ~Unmounting(r[t])
      /\ \A s : ~Reads(r[t], s) /\ ~Cuts(r[t], s) /\ ~Locks(r[t], s)
      /\ Filled(inode[r[t].file]) /\ Shaped(r[t])
  BY <1>1, UserRegisters, RegistersAre
<1>3. inode[r[t].file].ino # NoIno
  BY <1>1, FileHasInode
<1>4. q \in Shape(<< >>)
  BY <1>2 DEF Shaped, Shape, Places
<1>5. /\ q.pc = "truncate" /\ q.ret = << >> /\ q.file = r[t].file /\ q.refs = r[t].refs
      /\ q.s = q.file /\ q.empty = None /\ q.ino = NoIno
  BY <1>2 DEF Shaped, Shape
<1> HIDE DEF q
<1>6. Shaped(q) /\ q.pc \in Places /\ q.ret \in Returns(q.pc)
  BY <1>4, <1>5 DEF Shaped, Places, Returns
<1>7. ~Putting(q) /\ ~Unmounting(q)
  <2>1. ~Puts(q) /\ ~Ends(q)
    BY <1>5, StacksDiffer DEF Puts, Ends
  <2> QED
    BY <1>6, <2>1, PuttingIs
<1>8. Sound(q)
  BY <1>1, <1>2, <1>5, <1>6, <1>7, StacksDiffer DEF Sound, Taking, Mapping
<1>9. Fit(q, inode, super, entry)
  BY <1>2, <1>3, <1>5, <1>7 DEF Fit, Mapping, Taking
<1>10. \A s \in Slot :
           /\ Share(r[t], s) = Share(q, s)
           /\ Reads(q, s) <=> Reads(r[t], s)
           /\ Cuts(r[t], s) => Cuts(q, s)
           /\ Locks(q, s) => Locks(r[t], s) \/ ~inode[s].lock
  BY <1>1, <1>2, <1>5, <1>7 DEF Share, One, Reads, Cuts, Locks
<1>11. zmap' \subseteq Zone /\ ind' \in [Zone -> Number]
  BY <1>1 DEF InodeInv, TypeInv
<1> QED
  BY <1>1, <1>2, <1>5, <1>7, <1>8, <1>9, <1>10, <1>11, QuietStep

\* sys_close gives one reference to iput.
LEMMA Keeps_Close ==
  ASSUME InodeInv, NEW t \in Task, Close(t)
  PROVE  InodeInv'
<1> DEFINE q == [Registers EXCEPT !.pc = "iput", !.s = r[t].file, !.refs = r[t].refs - 1,
                                 !.file = IF r[t].refs = 1 THEN None ELSE r[t].file]
<1>1. /\ r[t].pc = "user" /\ r[t].file # None
      /\ UNCHANGED <<inode, disk, imap, zmap, ind, super, entry>>
      /\ r' = [r EXCEPT ![t] = q]
  BY DEF Close, At, Set, fs
<1>2. /\ r[t].s = None /\ r[t].empty = None
      /\ r[t].refs \in 1 .. 2 /\ r[t].file \in Slot
      /\ ~Putting(r[t]) /\ ~Unmounting(r[t])
      /\ \A s : ~Reads(r[t], s) /\ ~Cuts(r[t], s) /\ ~Locks(r[t], s)
      /\ Filled(inode[r[t].file])
  BY <1>1, UserRegisters
<1>4. q \in Shape(<< >>)
  <2>1. r[t].refs - 1 \in 0 .. 2 /\ "iput" \in Places
    BY <1>2 DEF Places
  <2> QED
    BY <1>2, <2>1, RegistersHaveShape, ShapeKept
<1>5. /\ q.pc = "iput" /\ q.ret = << >> /\ q.s = r[t].file /\ q.refs = r[t].refs - 1
      /\ q.file = IF r[t].refs = 1 THEN None ELSE r[t].file
      /\ q.empty = None /\ q.ino = NoIno
  BY DEF Registers
<1> HIDE DEF q
<1>6. Shaped(q) /\ q.pc \in Places /\ q.ret \in Returns(q.pc)
  BY <1>4, <1>5 DEF Shaped, Places, Returns
<1>7. Putting(q) /\ ~Unmounting(q)
  BY <1>5, <1>6, PuttingIs DEF Puts, Ends
<1>8. Sound(q)
  BY <1>1, <1>2, <1>5, <1>6, <1>7, StacksDiffer DEF Sound, Taking, Mapping
<1>9. Fit(q, inode, super, entry)
  BY <1>2, <1>5, <1>7 DEF Fit, Mapping, Taking
<1>10. \A s \in Slot :
           /\ Share(r[t], s) = Share(q, s)
           /\ Reads(q, s) <=> Reads(r[t], s)
           /\ Cuts(r[t], s) => Cuts(q, s)
           /\ Locks(q, s) => Locks(r[t], s) \/ ~inode[s].lock
  BY <1>1, <1>2, <1>5, <1>7, InodeAssumption DEF Share, One, Reads, Cuts, Locks
<1>11. zmap' \subseteq Zone /\ ind' \in [Zone -> Number]
  BY <1>1 DEF InodeInv, TypeInv
<1> QED
  BY <1>1, <1>2, <1>5, <1>7, <1>8, <1>9, <1>10, <1>11, QuietStep

-----------------------------------------------------------------------------
(* Entries that keep their inodes and links                                *)

\* The inodes that somebody counts are of mounted devices.
LEMMA UsedAreMounted ==
  ASSUME InodeInv
  PROVE  UsedInodesAreMounted
<1> SUFFICES ASSUME NEW s \in Slot, inode[s].count > 0, inode[s].ino # NoIno
             PROVE  super[inode[s].ino[1]].there
  BY DEF UsedInodesAreMounted
<1>1. SlotAt(s)
  BY DEF InodeInv, SlotInv
<1>2. inode[s].ino[1] \in Device
  BY DEF InodeInv, TypeInv, Entry, Device
<1>3. CASE inode[s].ino[1] = ROOT_DEV
  BY <1>2, <1>3 DEF InodeInv, DevInv
<1>4. CASE inode[s].ino[1] # ROOT_DEV
  <2>1. super[inode[s].ino[1]].imount \in Slot
    BY <1>1, <1>4 DEF SlotAt, Passes
  <2> QED
    BY <1>2, <1>4, <2>1, InodeAssumption DEF InodeInv, DevInv
<1> QED
  BY <1>3, <1>4

\* The entry after its inode has been copied, and what is copied.
Written(i) == [i EXCEPT !.dirt = FALSE, !.lock = FALSE]
OnDisk(i) == [links |-> i.links, zone |-> i.zone]

LEMMA LockedIs ==
  ASSUME NEW i \in Entry
  PROVE  /\ Locked(i) \in Entry
         /\ Locked(i).count = i.count /\ Locked(i).ino = i.ino
         /\ Locked(i).links = i.links /\ Locked(i).mount = i.mount
         /\ Locked(i).pipe = i.pipe /\ Locked(i).zone = i.zone
         /\ Locked(i).dirt = i.dirt /\ Locked(i).lock
  BY DEF Entry, Locked

LEMMA WrittenIs ==
  ASSUME NEW i \in Entry
  PROVE  /\ Written(i) \in Entry
         /\ Written(i).count = i.count /\ Written(i).ino = i.ino
         /\ Written(i).links = i.links /\ Written(i).mount = i.mount
         /\ Written(i).pipe = i.pipe /\ Written(i).zone = i.zone
         /\ ~Written(i).dirt /\ ~Written(i).lock
  BY DEF Entry, Written

\* The task t goes on with the registers q, and no mount or umount begins or ends.
MovesTo(t, q) ==
  /\ r' = [r EXCEPT ![t] = q] /\ Sound(q)
  /\ Unmounting(q) <=> Unmounting(r[t])
  /\ Unmounting(q) => q.dev = r[t].dev
  /\ q.pc # "read_super"

\* It counts the entry s as before, and locks it only if it was not locked.
Counted(t, q, s) ==
  /\ inode'[s].count = inode[s].count - Share(r[t], s) + Share(q, s)
  /\ inode'[s].mount = inode[s].mount
  /\ Locks(q, s) => Locks(r[t], s) \/ ~inode[s].lock

\* The entry s has the inode with the links that it had, and nobody begins or
\* ends to read it.
HasItsInode(t, q, s) ==
  /\ inode'[s].ino = inode[s].ino /\ inode'[s].links = inode[s].links
  /\ Reads(q, s) <=> Reads(r[t], s)

\* The entry s stays as it is.
Still(t, q, s) == inode'[s] = inode[s] /\ (Cuts(r[t], s) => Cuts(q, s))

\* The entry s is changed to what an entry with its inode may be.
WellChanged(s) ==
  /\ inode'[s].pipe => inode[s].ino = NoIno
  /\ inode[s].ino = NoIno => ~inode'[s].dirt /\ ~inode'[s].lock
  /\ inode'[s].dirt \/ inode'[s].lock => inode'[s].count > 0
  /\ inode[s].ino # NoIno /\ inode'[s].count > 0 => inode[s].count > 0
  /\ inode[s].ino # NoIno /\ inode[s].links > 0 /\ ~inode'[s].dirt
       /\ ~Reading(s) /\ ~Truncating(s)' => disk'[inode[s].ino] = OnDisk(inode'[s])

\* A step that leaves the entry s and the inode that it has alone.
Passive(t, q, s) ==
  /\ inode'[s] = inode[s]
  /\ Reads(q, s) <=> Reads(r[t], s)
  /\ Cuts(r[t], s) => Cuts(q, s)
  /\ inode[s].ino # NoIno => Same(inode[s].ino)

\* A step that changes the entries V does not disturb the task u.
Spared(u, V) ==
  /\ \A s \in V : Undisturbed(r[u], s)
  /\ r[u].ino # NoIno => entry'[r[u].ino] = entry[r[u].ino]
  /\ r[u].pc = "add_entry" =>
       entry'[inode[r[u].file].ino] = entry[inode[r[u].file].ino]

\* A step that leaves the super blocks alone.
LEMMA InodesStep ==
  ASSUME InodeInv, TypeInv', NEW t \in Task, NEW q, MovesTo(t, q), super' = super,
         NEW V \in SUBSET Slot,
         \A s \in Slot : Counted(t, q, s),
         \A s \in Slot \ V : Passive(t, q, s),
         \A s \in V : SlotAt(s)',
         OneEntryPerInode',
         \A j \in Ino : Kept(j) \/ InoAt(j)',
         Fit(q, inode', super', entry'),
         \A u \in Task \ {t} : Spared(u, V)
  PROVE  InodeInv'
<1>1. /\ r' = [r EXCEPT ![t] = q] /\ Sound(q)
      /\ Unmounting(q) <=> Unmounting(r[t])
      /\ Unmounting(q) => q.dev = r[t].dev
      /\ q.pc # "read_super"
  BY DEF MovesTo
<1>2. /\ \A s \in Slot : inode'[s].count = inode[s].count - Share(r[t], s) + Share(q, s)
      /\ \A s \in Slot : inode'[s].mount = inode[s].mount
      /\ \A s \in Slot : Locks(q, s) => Locks(r[t], s) \/ ~inode[s].lock
  BY DEF Counted
<1>3. \A s \in Slot \ V :
           /\ inode'[s] = inode[s]
           /\ Reads(q, s) <=> Reads(r[t], s)
           /\ Cuts(r[t], s) => Cuts(q, s)
           /\ inode[s].ino # NoIno => Same(inode[s].ino)
  BY DEF Passive
<1>4. \A u \in Task \ {t} :
           /\ \A s \in V : Undisturbed(r[u], s)
           /\ r[u].ino # NoIno => entry'[r[u].ino] = entry[r[u].ino]
           /\ r[u].pc = "add_entry" =>
                entry'[inode[r[u].file].ino] = entry[inode[r[u].file].ino]
  BY DEF Spared
<1> QED
  BY <1>1, <1>2, <1>3, <1>4, StepPreserves

\* A step after which every entry has the inode that it had.
LEMMA InodesStayApart ==
  ASSUME InodeInv, \A x \in Slot : inode'[x].ino = inode[x].ino
  PROVE  OneEntryPerInode'
<1>1. OneEntryPerInode
  BY DEF InodeInv
<1>2. ASSUME NEW x \in Slot, NEW y \in Slot,
             inode'[x].ino = inode'[y].ino, inode'[x].ino # NoIno
      PROVE  x = y
  <2>1. inode'[x].ino = inode[x].ino /\ inode'[y].ino = inode[y].ino
    OBVIOUS
  <2>2. inode[x].ino = inode[y].ino /\ inode[x].ino # NoIno
    BY <1>2, <2>1
  <2> QED
    BY <1>1, <2>2 DEF OneEntryPerInode
<1> QED
  BY <1>2 DEF OneEntryPerInode

\* A step that changes neither the inode nor the links of any entry.
LEMMA EntriesStep ==
  ASSUME InodeInv, TypeInv', NEW t \in Task, NEW q, MovesTo(t, q),
         UNCHANGED <<imap, super, entry>>, NEW V \in SUBSET Slot,
         \A s \in Slot : Counted(t, q, s) /\ HasItsInode(t, q, s),
         \A s \in Slot \ V : Still(t, q, s),
         \A j \in Ino : disk'[j] = disk[j] \/ \E s \in V : inode[s].ino = j /\ ~Reading(s),
         \A s \in V : WellChanged(s),
         Fit(q, inode', super', entry'),
         \A u \in Task \ {t}, s \in V : Undisturbed(r[u], s)
  PROVE  InodeInv'
<1>0. /\ r' = [r EXCEPT ![t] = q] /\ Sound(q)
      /\ Unmounting(q) <=> Unmounting(r[t])
      /\ Unmounting(q) => q.dev = r[t].dev
      /\ q.pc # "read_super"
  BY DEF MovesTo
<1>1. \A s \in Slot : Reading(s)' <=> Reading(s)
  BY <1>0, OneTaskMoves DEF InodeInv, HasItsInode
<1>2. ASSUME NEW j \in Ino PROVE Kept(j) \/ InoAt(j)'
  <2>1. CASE disk'[j] = disk[j]
    BY <1>1, <2>1 DEF Kept, Same, HasItsInode
  <2>2. CASE \E s \in V : inode[s].ino = j /\ ~Reading(s)
    <3>1. PICK s \in V : inode[s].ino = j /\ ~Reading(s)
      BY <2>2
    <3>2. s \in SlotsOf(j)' /\ ~Reading(s)'
      BY <1>1, <3>1 DEF SlotsOf, HasItsInode
    <3>3. InoAt(j)
      BY DEF InodeInv, InoInv
    <3> QED
      BY <3>2, <3>3 DEF InoAt
  <2> QED
    BY <2>1, <2>2
<1>3. OneEntryPerInode'
  BY DEF InodeInv, OneEntryPerInode, HasItsInode
<1>4. \A s \in V : SlotAt(s)'
  <2> TAKE v \in V
  <2>1. \A s \in Slot : inode'[s].mount = inode[s].mount
    BY DEF Counted
  <2>2. WellChanged(v) /\ HasItsInode(t, q, v)
    OBVIOUS
  <2> QED
    BY <1>1, <2>1, <2>2, SlotKept DEF OnDisk, WellChanged, HasItsInode
<1>5. ASSUME NEW s \in Slot \ V, inode[s].ino # NoIno PROVE Same(inode[s].ino)
  <2>1. inode[s].ino \in Ino
    BY <1>5 DEF InodeInv, TypeInv, Entry
  <2>2. \A x \in V : inode[x].ino # inode[s].ino
    BY <1>5 DEF InodeInv, OneEntryPerInode
  <2> QED
    BY <2>1, <2>2 DEF Same
<1>6. \A s \in Slot \ V : Passive(t, q, s)
  BY <1>5 DEF Passive, Still, HasItsInode
<1>7. \A u \in Task \ {t} : Spared(u, V)
  BY DEF Spared
<1>8. super' = super /\ \A s \in Slot : Counted(t, q, s)
  OBVIOUS
<1> QED
  BY <1>2, <1>3, <1>4, <1>6, <1>7, <1>8, InodesStep

\* A task may change the count of an entry that it has a reference to.
LEMMA UserDisturbsNobody ==
  ASSUME InodeInv, NEW t \in Task, NEW v \in Slot, Refers(r[t], v),
         inode'[v].ino = inode[v].ino, inode'[v].pipe = inode[v].pipe,
         inode'[v].lock \/ Locks(r[t], v) \/ ~inode[v].lock
  PROVE  \A u \in Task \ {t} : Undisturbed(r[u], v)
<1> TAKE u \in Task \ {t}
<1>1. ~Frozen(r[u], v)
  BY NotFrozen
<1>2. Locks(r[u], v) => ~Locks(r[t], v) /\ inode[v].lock
  BY NobodyLocks DEF InodeInv, ApartInv, Apart
<1> QED
  BY <1>1, <1>2 DEF Undisturbed, Frozen

\* So nobody is reading an entry that another task has locked for writing.
LEMMA WritersDoNotRead ==
  ASSUME InodeInv, NEW t \in Task, NEW v \in Slot,
         (r[t].pc = "write_inode" /\ r[t].s = v) \/ ~inode[v].lock
  PROVE  ~Reading(v)
<1> SUFFICES ASSUME NEW u \in Task, Locks(r[u], v), r[u].pc = "read_inode" PROVE FALSE
  BY DEF Reading, Locks
<1>1. inode[v].lock
  BY NobodyLocks
<1>2. Locks(r[t], v) /\ u # t
  BY <1>1 DEF Locks
<1> QED
  BY <1>2 DEF InodeInv, ApartInv, Apart

-----------------------------------------------------------------------------
(* sync_inodes                                                             *)

\* The task t is in sys_sync or comes to it.
Syncing(t) ==
  r[t].pc \in {"user", "sync_inodes"} \/ (r[t].pc = "write_inode" /\ r[t].ret = <<"synced">>)

\* What the registers of such a task say.
LEMMA SyncRegisters ==
  ASSUME InodeInv, NEW t \in Task, Syncing(t)
  PROVE  /\ ~Putting(r[t]) /\ ~Unmounting(r[t]) /\ r[t].empty = None
         /\ (r[t].file = None <=> r[t].refs = 0) /\ r[t].refs \in 0 .. 2
         /\ Shaped(r[t])
         /\ r[t].pc \in {"sync_inodes", "write_inode"} => r[t].s \in Slot
         /\ r[t].pc \in {"user", "sync_inodes"} => r[t].ret = << >>
         /\ \A s \in Slot : ~Reads(r[t], s) /\ ~Cuts(r[t], s)
<1>1. /\ Sound(r[t]) /\ Shaped(r[t]) /\ Fit(r[t], inode, super, entry)
      /\ ~Putting(r[t]) /\ ~Unmounting(r[t])
  BY RegistersAre, StacksDiffer DEF Puts, Ends, Syncing, Returns
<1>2. /\ r[t].s \in Slot \cup {None} /\ r[t].refs \in 0 .. 2
  BY <1>1 DEF Shaped, Shape
<1>3. /\ r[t].empty = None
      /\ (r[t].file = None <=> r[t].refs = 0)
      /\ r[t].pc \in {"sync_inodes", "write_inode"} => r[t].s # None
      /\ r[t].pc \in {"user", "sync_inodes"} => r[t].ret = << >>
  BY <1>1 DEF Sound, Syncing, Taking, Returns
<1> QED
  BY <1>1, <1>2, <1>3 DEF Syncing, Reads, Cuts

\* A task that sync makes wait, for an entry or for the disk.
LEMMA SyncWaits ==
  ASSUME InodeInv, NEW t \in Task, Syncing(t),
         NEW q, Shaped(q),
         \/ q.pc = "sync_inodes" /\ q.ret = << >>
         \/ q.pc = "write_inode" /\ q.ret = <<"synced">>,
         q.s \in Slot, q.file = r[t].file, q.refs = r[t].refs, q.empty = None,
         q.ino = r[t].ino,
         NEW tab, \A s \in Slot : tab[s].ino = inode[s].ino /\ tab[s].pipe = inode[s].pipe
                                  /\ tab[s].mount = inode[s].mount,
         q.pc = "write_inode" => tab[q.s].lock /\ tab[q.s].ino # NoIno
  PROVE  /\ Sound(q) /\ ~Unmounting(q) /\ ~Unmounting(r[t])
         /\ \A s \in Slot :
              /\ Share(q, s) = Share(r[t], s) /\ Share(q, s) \in Int
              /\ ~Reads(q, s) /\ ~Reads(r[t], s) /\ ~Cuts(r[t], s)
         /\ Fit(q, tab, super, entry)
<1>1. /\ ~Putting(r[t]) /\ ~Unmounting(r[t]) /\ r[t].empty = None
      /\ (r[t].file = None <=> r[t].refs = 0) /\ r[t].refs \in Int
      /\ Fit(r[t], inode, super, entry) /\ Shaped(r[t])
      /\ \A s \in Slot : ~Reads(r[t], s) /\ ~Cuts(r[t], s)
  BY SyncRegisters, RegistersAre
<1>2. q.pc \in Places /\ q.ret \in Returns(q.pc)
  BY DEF Places, Returns
<1>3. ~Putting(q) /\ ~Unmounting(q)
  BY <1>2, PuttingIs, StacksDiffer DEF Puts, Ends
<1>4. Sound(q)
  BY <1>1, <1>2, <1>3, StacksDiffer, InodeAssumption DEF Sound, Mapping, Taking
<1>5. \A d : Passes(tab, super, d) <=> Passes(inode, super, d)
  BY DEF Passes
<1>6. q.file # None => Filled(tab[q.file])
  <2>1. r[t].file \in Slot \cup {None}
    BY <1>1 DEF Shaped, Shape
  <2> QED
    BY <1>1, <2>1 DEF Fit, Filled
<1>7. Fit(q, tab, super, entry)
  BY <1>1, <1>3, <1>5, <1>6 DEF Fit, Mapping
<1>8. \A s \in Slot :
              /\ Share(q, s) = Share(r[t], s) /\ Share(q, s) \in Int
              /\ ~Reads(q, s)
  BY <1>1, <1>3, InodeAssumption DEF Share, One, Reads
<1> QED
  BY <1>1, <1>3, <1>4, <1>7, <1>8

\* The ways in which SyncFrom ends, with the registers p and the table tab: the
\* task waits for an entry, writes it, or has come to the end.
SyncAt(p, q, s, pc) ==
  /\ q.pc = pc /\ q.s = s
  /\ q.file = p.file /\ q.refs = p.refs /\ q.empty = p.empty /\ q.ino = p.ino
SyncWaitsFor(t, p, tab) ==
  \E q : \E s \in Slot :
    /\ q \in Shape(<< >>) /\ q.ret = << >> /\ SyncAt(p, q, s, "sync_inodes")
    /\ inode' = tab /\ r' = [r EXCEPT ![t] = q]
SyncWrites(t, p, tab) ==
  \E q : \E s \in Slot :
    /\ q \in Shape(<<"synced">>) /\ q.ret = <<"synced">> /\ SyncAt(p, q, s, "write_inode")
    /\ ~tab[s].lock /\ tab[s].dirt /\ tab[s].links > 0 /\ ~tab[s].pipe
    /\ inode' = [tab EXCEPT ![s] = Locked(@)] /\ r' = [r EXCEPT ![t] = q]
SyncReturns(t, p, tab) == inode' = tab /\ r' = [r EXCEPT ![t] = Leave(p)]

LEMMA SyncEnds ==
  ASSUME NoTableRaces, NEW t \in Task, NEW p, p \in Shape(<< >>), NEW tab,
         \A s \in Slot : tab[s].dirt => super[tab[s].ino[1]].there,
         SyncFrom(t, p, tab)
  PROVE  SyncReturns(t, p, tab) \/ SyncWaitsFor(t, p, tab) \/ SyncWrites(t, p, tab)
<1> DEFINE stop == {s \in p.rest : tab[s].lock \/ NeedsSync(tab[s])}
           on(s) == [p EXCEPT !.s = s, !.rest = stop \ {s}]
<1>1. p.rest \in SUBSET Slot /\ p.ret = << >>
  BY DEF Shape
<1>2. \A i : NeedsSync(i) => i.dirt /\ i.links > 0 /\ ~i.pipe
  BY DEF NeedsSync, NoTableRaces
<1>3. CASE stop = {}
  BY <1>1, <1>3, Zenon DEF SyncFrom, Set, Return, SyncReturns
<1>4. CASE stop # {}
  <2>1. PICK s \in stop :
            IF tab[s].lock
            THEN /\ inode' = tab
                 /\ Set(t, [on(s) EXCEPT !.pc = "sync_inodes"])
                 /\ UNCHANGED panic
            ELSE WriteBack(t, on(s), tab, "synced")
    BY <1>4, Zenon DEF SyncFrom
  <2>2. s \in Slot /\ (tab[s].lock \/ NeedsSync(tab[s])) /\ stop \ {s} \in SUBSET Slot
    BY <1>1
  <2> HIDE DEF stop
  <2>3. on(s) \in Shape(<< >>)
    BY <2>2, ShapeKept
  <2>4. /\ on(s).s = s /\ on(s).file = p.file /\ on(s).refs = p.refs
        /\ on(s).empty = p.empty /\ on(s).ino = p.ino /\ on(s).ret = << >>
    BY <1>1 DEF Shape
  <2> DEFINE o == on(s)
  <2>5. CASE tab[s].lock
    <3> DEFINE q == [o EXCEPT !.pc = "sync_inodes"]
    <3>1. inode' = tab /\ r' = [r EXCEPT ![t] = q]
      BY <2>1, <2>5 DEF Set
    <3>2. o \in Shape(<< >>)
      BY <2>3
    <3> HIDE DEF o
    <3>3. q \in Shape(<< >>)
      BY <3>2, ShapeKept DEF Places
    <3>4. /\ q.pc = "sync_inodes" /\ q.ret = o.ret /\ q.s = o.s /\ q.file = o.file
          /\ q.refs = o.refs /\ q.empty = o.empty /\ q.ino = o.ino
      BY <3>2 DEF Shape
    <3> HIDE DEF q
    <3>5. /\ q.ret = << >> /\ q.s = s /\ q.file = p.file
          /\ q.refs = p.refs /\ q.empty = p.empty /\ q.ino = p.ino
      BY <2>4, <3>4 DEF o
    <3> QED
      BY <2>2, <3>1, <3>3, <3>4, <3>5 DEF SyncWaitsFor, SyncAt
  <2>6. CASE ~tab[s].lock
    <3> DEFINE q == Call(o, "write_inode", "synced")
    <3>1. WriteBack(t, o, tab, "synced") /\ o.s = s
      BY <2>1, <2>4, <2>6
    <3>2. o \in Shape(<< >>) /\ o.ret = << >>
      BY <2>3, <2>4
    <3> HIDE DEF o
    <3>3. tab[s].dirt /\ tab[s].links > 0 /\ ~tab[s].pipe
      BY <1>2, <2>2, <2>6
    <3>4. inode' = [tab EXCEPT ![s] = Locked(@)] /\ r' = [r EXCEPT ![t] = q]
      BY <2>2, <3>1, <3>3 DEF WriteBack, Set, Locked
    <3> DEFINE back == <<"synced">>
    <3>5. q = [o EXCEPT !.pc = "write_inode", !.ret = back]
      BY <3>2, ShortStacks DEF Call, Shape
    <3>6. q \in Shape(back)
      <4> HIDE DEF back, q
      <4>1. [o EXCEPT !.pc = "write_inode"] \in Shape(<< >>)
        BY <3>2, ShapeKept DEF Places
      <4> QED
        BY <3>5, <4>1, ShapeKept
    <3>7. /\ q.pc = "write_inode" /\ q.ret = <<"synced">> /\ q.s = o.s /\ q.file = o.file
          /\ q.refs = o.refs /\ q.empty = o.empty /\ q.ino = o.ino
      BY <3>2, <3>5 DEF Shape
    <3> HIDE DEF q
    <3>8. /\ q.s = s /\ q.file = p.file
          /\ q.refs = p.refs /\ q.empty = p.empty /\ q.ino = p.ino
      BY <2>4, <3>7 DEF o
    <3> QED
      BY <2>2, <2>6, <3>3, <3>4, <3>6, <3>7, <3>8 DEF SyncWrites, SyncAt
  <2> QED
    BY <2>5, <2>6
<1> QED
  BY <1>3, <1>4

\* A step of sync that unlocks the entries W it has written, and locks N.
SyncMoves(t, q, N) ==
  /\ r' = [r EXCEPT ![t] = q] /\ Sound(q) /\ ~Unmounting(q) /\ q.pc # "read_super"
  /\ \A s \in Slot :
       /\ Share(q, s) = Share(r[t], s) /\ Share(q, s) \in Int
       /\ ~Reads(q, s) /\ (Locks(q, s) => s \in N)

IsWritten(t, s, i) ==
  /\ r[t].pc = "write_inode" /\ r[t].s = s
  /\ i = Written(inode[s]) /\ disk'[inode[s].ino] = OnDisk(inode[s])
IsLocked(s, i) ==
  /\ ~inode[s].lock /\ inode[s].dirt /\ inode[s].links > 0
  /\ i = Locked(inode[s])

LEMMA SyncStep ==
  ASSUME InodeInv, TypeInv', NEW t \in Task, Syncing(t),
         NEW W \in SUBSET Slot, NEW N \in SUBSET Slot,
         NEW q, SyncMoves(t, q, N), Fit(q, inode', super', entry'),
         \A s \in Slot \ (W \cup N) : inode'[s] = inode[s],
         \A s \in W : IsWritten(t, s, inode'[s]),
         \A s \in N : IsLocked(s, inode'[s]),
         \A j \in Ino : disk'[j] = disk[j] \/ \E s \in W : inode[s].ino = j,
         UNCHANGED <<imap, super, entry>>
  PROVE  InodeInv'
<1> DEFINE V == W \cup N
<1>1. /\ ~Unmounting(r[t]) /\ Fit(r[t], inode, super, entry)
      /\ \A s \in Slot : ~Reads(r[t], s) /\ ~Cuts(r[t], s)
  BY SyncRegisters, RegistersAre
<1>2. \A s \in Slot : inode[s] \in Entry /\ inode[s].count \in Int
  BY DEF InodeInv, TypeInv, Entry
<1>3. \A s \in W :
        /\ inode'[s].count = inode[s].count /\ inode'[s].ino = inode[s].ino
        /\ inode'[s].links = inode[s].links /\ inode'[s].mount = inode[s].mount
        /\ inode'[s].pipe = inode[s].pipe /\ inode'[s].zone = inode[s].zone
        /\ ~inode'[s].dirt /\ ~inode'[s].lock
        /\ disk'[inode[s].ino] = OnDisk(inode'[s])
        /\ r[t].pc = "write_inode" /\ r[t].s = s
  <2> TAKE s \in W
  <2>1. /\ r[t].pc = "write_inode" /\ r[t].s = s
        /\ inode'[s] = Written(inode[s]) /\ disk'[inode[s].ino] = OnDisk(inode[s])
    BY DEF IsWritten
  <2>2. inode[s] \in Entry
    BY <1>2
  <2>3. OnDisk(Written(inode[s])) = OnDisk(inode[s])
    BY <2>2, WrittenIs DEF OnDisk
  <2> QED
    BY <2>1, <2>2, <2>3, WrittenIs
<1>4. \A s \in N :
        /\ inode'[s].count = inode[s].count /\ inode'[s].ino = inode[s].ino
        /\ inode'[s].links = inode[s].links /\ inode'[s].mount = inode[s].mount
        /\ inode'[s].pipe = inode[s].pipe /\ inode'[s].zone = inode[s].zone
        /\ inode'[s].dirt = inode[s].dirt /\ inode'[s].lock
        /\ ~inode[s].lock /\ inode[s].dirt /\ inode[s].links > 0
  BY <1>2, LockedIs DEF IsLocked
<1>5. \A s \in Slot : SlotAt(s)
  BY DEF InodeInv, SlotInv
<1>6. \A s \in N : inode[s].ino # NoIno /\ inode[s].count > 0
  BY <1>4, <1>5 DEF SlotAt
<1>7. \A s \in W : inode[s].ino # NoIno /\ ~Reading(s)
  BY <1>1, <1>3, WritersDoNotRead DEF Fit
<1>8. \A s \in Slot : Counted(t, q, s) /\ HasItsInode(t, q, s)
  BY <1>1, <1>2, <1>3, <1>4 DEF SyncMoves, Counted, HasItsInode
<1>9. \A v \in V : WellChanged(v)
  <2>1. \A v \in W : WellChanged(v)
    BY <1>3, <1>5, <1>7 DEF SlotAt, WellChanged
  <2>2. \A v \in N : WellChanged(v)
    BY <1>4, <1>5, <1>6 DEF SlotAt, WellChanged
  <2> QED
    BY <2>1, <2>2
<1>10. \A u \in Task \ {t}, s \in V : Undisturbed(r[u], s)
  <2> SUFFICES ASSUME NEW u \in Task \ {t}, NEW s \in V PROVE Undisturbed(r[u], s)
    OBVIOUS
  <2>0. Fit(r[u], inode, super, entry)
    BY DEF InodeInv, FitInv
  <2>1. CASE s \in W
    <3>1. ~Locks(r[u], s)
      <4>1. Locks(r[t], s)
        BY <1>3, <2>1 DEF Locks
      <4> QED
        BY <4>1 DEF InodeInv, ApartInv, Apart
    <3> QED
      BY <1>3, <2>1, <3>1 DEF Undisturbed
  <2>2. CASE s \in N
    <3>1. ~Locks(r[u], s)
      BY <1>4, <2>2, NobodyLocks
    <3>2. r[u].empty # s
      BY <1>4, <2>0, <2>2, InodeAssumption DEF Fit
    <3>3. ~(r[u].pc = "truncate" /\ r[u].ret # << >> /\ r[u].s = s)
      BY <1>4, <2>0, <2>2 DEF Fit
    <3> QED
      BY <1>4, <2>2, <3>1, <3>2, <3>3 DEF Undisturbed
  <2> QED
    BY <2>1, <2>2
<1>11. \A s \in Slot \ V : Still(t, q, s)
  BY <1>1 DEF Still
<1>12. \A j \in Ino : disk'[j] = disk[j] \/ \E s \in V : inode[s].ino = j /\ ~Reading(s)
  BY <1>7
<1> HIDE DEF V
<1>13. V \in SUBSET Slot
  BY DEF V
<1>14. MovesTo(t, q)
  BY <1>1 DEF MovesTo, SyncMoves
<1> QED
  BY <1>8, <1>9, <1>10, <1>11, <1>12, <1>13, <1>14, EntriesStep

\* sync_inodes goes on with the registers p, perhaps after it has written W.
LEMMA SyncKeeps ==
  ASSUME InodeInv, NoTableRaces, NEW t \in Task, Syncing(t),
         NEW p, p \in Shape(<< >>), p.file = r[t].file, p.refs = r[t].refs,
         p.empty = None, p.ino = r[t].ino,
         NEW W \in SUBSET Slot, NEW tab \in [Slot -> Entry],
         \A s \in Slot \ W : tab[s] = inode[s],
         \A s \in W : IsWritten(t, s, tab[s]),
         disk' \in [Ino -> [links : Int, zone : [0 .. 2 -> Number]]],
         \A j \in Ino : disk'[j] = disk[j] \/ \E s \in W : inode[s].ino = j,
         UNCHANGED <<imap, zmap, ind, super, entry>>,
         SyncFrom(t, p, tab)
  PROVE  InodeInv'
<1>1. /\ ~Unmounting(r[t]) /\ Fit(r[t], inode, super, entry) /\ Sound(r[t])
      /\ r[t].empty = None /\ r[t].refs \in Int /\ ~Putting(r[t])
      /\ \A s \in Slot : ~Reads(r[t], s) /\ ~Cuts(r[t], s)
  BY SyncRegisters, RegistersAre
<1>2. \A s \in Slot : inode[s] \in Entry
  BY DEF InodeInv, TypeInv
<1>3. \A s \in W :
        /\ tab[s].ino = inode[s].ino /\ tab[s].mount = inode[s].mount
        /\ tab[s].pipe = inode[s].pipe /\ ~tab[s].dirt /\ ~tab[s].lock
  BY <1>2, WrittenIs DEF IsWritten
<1>4. \A s \in Slot :
        /\ tab[s].ino = inode[s].ino /\ tab[s].mount = inode[s].mount
        /\ tab[s].pipe = inode[s].pipe /\ (tab[s].dirt => s \notin W)
  BY <1>3
<1>5. \A s \in Slot : tab[s].dirt => super[tab[s].ino[1]].there /\ tab[s].ino # NoIno
  <2> TAKE s \in Slot
  <2> SUFFICES ASSUME tab[s].dirt PROVE super[inode[s].ino[1]].there /\ inode[s].ino # NoIno
    BY <1>4
  <2>1. inode[s].dirt
    BY <1>4
  <2>2. SlotAt(s)
    BY DEF InodeInv, SlotInv
  <2>3. inode[s].count > 0 /\ inode[s].ino # NoIno
    BY <2>1, <2>2 DEF SlotAt
  <2> QED
    BY <2>3, UsedAreMounted DEF UsedInodesAreMounted
<1>6. imap' \subseteq Ino /\ zmap' \subseteq Zone /\ ind' \in [Zone -> Number]
      /\ super' \in [Device -> SuperBlock] /\ entry' \in [Ino -> Nat]
  BY DEF InodeInv, TypeInv
<1>7. SyncReturns(t, p, tab) \/ SyncWaitsFor(t, p, tab) \/ SyncWrites(t, p, tab)
  BY <1>5, SyncEnds
<1>8. CASE inode' = tab /\ r' = [r EXCEPT ![t] = Leave(p)]
  <2> DEFINE q == Leave(r[t])
             N == {}
  <2>1. Leave(p) = q
    BY DEF Leave
  <2>2. /\ Sound(q) /\ q.pc = "user"
        /\ ~Putting(q) /\ ~Unmounting(q)
        /\ \A s \in Slot : ~Reads(q, s) /\ ~Locks(q, s) /\ ~Cuts(q, s)
        /\ \A s \in Slot : Share(q, s) = IF r[t].file = s THEN r[t].refs ELSE 0
        /\ \A tb, supers, names :
             (r[t].file # None => Filled(tb[r[t].file])) => Fit(q, tb, supers, names)
    BY <1>1, LeaveIsSound
  <2> HIDE DEF q
  <2>3. r[t].file # None => Filled(tab[r[t].file])
    <3>1. r[t].file \in Slot \cup {None}
      BY <1>1 DEF Sound, Shaped, Shape
    <3> QED
      BY <1>1, <1>4, <3>1 DEF Fit, Filled
  <2>4. Fit(q, inode', super', entry')
    BY <1>8, <2>2, <2>3
  <2>5. \A s \in Slot :
           /\ Share(q, s) = Share(r[t], s) /\ Share(q, s) \in Int
           /\ ~Reads(q, s) /\ (Locks(q, s) => s \in N)
    BY <1>1, <2>2, InodeAssumption DEF Share, One
  <2>9. SyncMoves(t, q, N)
    BY <1>8, <2>1, <2>2, <2>5 DEF SyncMoves
  <2>6. TypeInv'
    BY <1>6, <1>8 DEF TypeInv
  <2>7. N \in SUBSET Slot /\ W \cup N = W
    OBVIOUS
  <2>8. \A s \in N : IsLocked(s, inode'[s])
    OBVIOUS
  <2> HIDE DEF N
  <2> QED
    BY <1>8, <2>4, <2>6, <2>7, <2>8, <2>9, SyncStep
<1>9. ASSUME NEW q, NEW s \in Slot,
              q \in Shape(<< >>), q.pc = "sync_inodes", q.ret = << >>,
              q.s = s, q.file = p.file, q.refs = p.refs, q.empty = p.empty,
              q.ino = p.ino,
              inode' = tab, r' = [r EXCEPT ![t] = q]
      PROVE  InodeInv'
  <2> DEFINE N == {}
  <2>1. Shaped(q)
    BY <1>9 DEF Shaped
  <2>2. /\ Sound(q) /\ ~Unmounting(q) /\ ~Unmounting(r[t])
        /\ \A x \in Slot :
              /\ Share(q, x) = Share(r[t], x) /\ Share(q, x) \in Int
              /\ ~Reads(q, x) /\ ~Reads(r[t], x) /\ ~Cuts(r[t], x)
        /\ Fit(q, tab, super, entry)
    BY <1>4, <1>9, <2>1, SyncWaits
  <2>5. \A x \in Slot :
           /\ Share(q, x) = Share(r[t], x) /\ Share(q, x) \in Int
           /\ ~Reads(q, x) /\ (Locks(q, x) => x \in N)
    BY <1>9, <2>2 DEF Locks
  <2>6. TypeInv'
    BY <1>6, <1>9 DEF TypeInv
  <2>7. N \in SUBSET Slot /\ W \cup N = W
    OBVIOUS
  <2>8. \A x \in N : IsLocked(x, inode'[x])
    OBVIOUS
  <2> HIDE DEF N
  <2>9. q.pc # "read_super" /\ Fit(q, inode', super', entry')
    BY <1>9, <2>2
  <2>10. SyncMoves(t, q, N)
    BY <1>9, <2>2, <2>5, <2>9 DEF SyncMoves
  <2> QED
    BY <1>9, <2>6, <2>7, <2>8, <2>9, <2>10, SyncStep
<1>10. ASSUME NEW q, NEW s \in Slot,
              q \in Shape(<<"synced">>), q.pc = "write_inode", q.ret = <<"synced">>,
              q.s = s, q.file = p.file, q.refs = p.refs, q.empty = p.empty,
              q.ino = p.ino,
              ~tab[s].lock, tab[s].dirt, tab[s].links > 0, ~tab[s].pipe,
              inode' = [tab EXCEPT ![s] = Locked(@)], r' = [r EXCEPT ![t] = q]
      PROVE  InodeInv'
  <2> DEFINE N == {s}
  <2>1. Shaped(q)
    BY <1>10 DEF Shaped
  <2>2. inode' \in [Slot -> Entry]
    BY <1>10, LockedIs
  <2>3. \A x \in Slot : inode'[x] = IF x = s THEN Locked(tab[s]) ELSE tab[x]
    BY <1>10
  <2>4. \A x \in Slot : /\ inode'[x].ino = tab[x].ino /\ inode'[x].mount = tab[x].mount
                        /\ inode'[x].pipe = tab[x].pipe
    BY <2>3, LockedIs
  <2>5. inode'[s].lock
    BY <2>3, LockedIs
  <2>6. s \notin W /\ tab[s] = inode[s] /\ inode[s].ino # NoIno
    BY <1>4, <1>5, <1>10
  <2>7. /\ Sound(q) /\ ~Unmounting(q) /\ ~Unmounting(r[t])
        /\ \A x \in Slot :
              /\ Share(q, x) = Share(r[t], x) /\ Share(q, x) \in Int
              /\ ~Reads(q, x) /\ ~Reads(r[t], x) /\ ~Cuts(r[t], x)
        /\ Fit(q, inode', super, entry)
    <3> DEFINE tb == inode'
    <3>1. /\ \A x \in Slot : tb[x].ino = inode[x].ino /\ tb[x].pipe = inode[x].pipe
                             /\ tb[x].mount = inode[x].mount
          /\ tb[q.s].lock /\ tb[q.s].ino # NoIno
      BY <1>4, <1>10, <2>4, <2>5, <2>6
    <3> HIDE DEF tb
    <3>2. /\ Sound(q) /\ ~Unmounting(q) /\ ~Unmounting(r[t])
          /\ \A x \in Slot :
              /\ Share(q, x) = Share(r[t], x) /\ Share(q, x) \in Int
              /\ ~Reads(q, x) /\ ~Reads(r[t], x) /\ ~Cuts(r[t], x)
          /\ Fit(q, tb, super, entry)
      BY <1>10, <2>1, <3>1, SyncWaits
    <3> QED
      BY <3>2 DEF tb
  <2>8. \A x \in Slot :
           /\ Share(q, x) = Share(r[t], x) /\ Share(q, x) \in Int
           /\ ~Reads(q, x) /\ (Locks(q, x) => x \in N)
    BY <1>10, <2>7 DEF Locks
  <2>9. TypeInv'
    BY <1>6, <2>2 DEF TypeInv
  <2>10. /\ N \in SUBSET Slot
         /\ \A x \in Slot \ (W \cup N) : inode'[x] = inode[x]
         /\ \A x \in W : inode'[x] = tab[x]
         /\ \A x \in N : IsLocked(x, inode'[x])
    BY <1>10, <2>3, <2>6 DEF IsLocked
  <2> HIDE DEF N
  <2>11. q.pc # "read_super" /\ Fit(q, inode', super', entry')
    BY <1>10, <2>7
  <2>12. SyncMoves(t, q, N)
    BY <1>10, <2>7, <2>8, <2>11 DEF SyncMoves
  <2>13. \A x \in W : IsWritten(t, x, inode'[x])
    BY <2>10
  <2> QED
    BY <2>9, <2>10, <2>11, <2>12, <2>13, SyncStep
<1> QED
  BY <1>7, <1>8, <1>9, <1>10 DEF SyncReturns, SyncWaitsFor, SyncWrites, SyncAt

\* sync_inodes goes on and has written nothing yet.
LEMMA SyncBegins ==
  ASSUME InodeInv, NoTableRaces, NEW t \in Task, Syncing(t),
         NEW p, p \in Shape(<< >>), p.file = r[t].file, p.refs = r[t].refs,
         p.empty = None, p.ino = r[t].ino,
         UNCHANGED fs, SyncFrom(t, p, inode)
  PROVE  InodeInv'
<1> DEFINE W == {}
<1>1. inode \in [Slot -> Entry] /\ disk' \in [Ino -> [links : Int, zone : [0 .. 2 -> Number]]]
  BY DEF InodeInv, TypeInv, fs
<1>2. /\ W \in SUBSET Slot /\ \A s \in Slot \ W : inode[s] = inode[s]
      /\ \A s \in W : IsWritten(t, s, inode[s])
  OBVIOUS
<1>3. \A j \in Ino : disk'[j] = disk[j] \/ \E s \in W : inode[s].ino = j
  BY DEF fs
<1>4. UNCHANGED <<imap, zmap, ind, super, entry>>
  BY DEF fs
<1> HIDE DEF W
<1> QED
  BY <1>1, <1>2, <1>3, <1>4, SyncKeeps

LEMMA Keeps_Sync ==
  ASSUME InodeInv, NoTableRaces, NEW t \in Task, Sync(t)
  PROVE  InodeInv'
<1> DEFINE p == [r[t] EXCEPT !.rest = Slot]
<1>1. r[t].pc = "user" /\ SyncFrom(t, p, inode) /\ UNCHANGED fs
  BY DEF Sync, At
<1>2. /\ r[t] \in Shape(<< >>) /\ r[t].empty = None
  BY <1>1, UserRegisters, RegistersAre DEF Shaped
<1>3. p \in Shape(<< >>)
  BY <1>2, ShapeKept
<1>4. /\ p.file = r[t].file /\ p.refs = r[t].refs /\ p.empty = None /\ p.ino = r[t].ino
  BY <1>2 DEF Shape
<1> HIDE DEF p
<1> QED
  BY <1>1, <1>3, <1>4, SyncBegins DEF Syncing

LEMMA Keeps_sync_inodes ==
  ASSUME InodeInv, NoTableRaces, NEW t \in Task, sync_inodes(t)
  PROVE  InodeInv'
<1>1. r[t].pc = "sync_inodes" /\ ~inode[r[t].s].lock /\ UNCHANGED fs
  BY DEF sync_inodes, At, Unlocked
<1>2. /\ r[t].ret = << >> /\ r[t].s \in Slot /\ Shaped(r[t]) /\ Syncing(t)
      /\ r[t].empty = None
  BY <1>1, SyncRegisters DEF Syncing
<1>3. r[t] \in Shape(<< >>)
  BY <1>2 DEF Shaped
<1>4. CASE NeedsSync(inode[r[t].s])
  <2> DEFINE s == r[t].s
             back == <<"synced">>
             q == [r[t] EXCEPT !.pc = "write_inode", !.ret = back]
             W == {}
             N == {s}
  <2>1. inode[s].dirt /\ inode[s].links > 0
    BY <1>4 DEF NeedsSync, NoTableRaces
  <2>2. inode[s].count > 0 /\ inode[s].ino # NoIno
    BY <1>2, <2>1 DEF InodeInv, SlotInv, SlotAt
  <2>3. super[inode[s].ino[1]].there
    BY <1>2, <2>2, UsedAreMounted DEF UsedInodesAreMounted
  <2>4. WriteBack(t, r[t], inode, "synced")
    BY <1>4 DEF sync_inodes
  <2>5. inode' = [inode EXCEPT ![s] = Locked(@)] /\ Set(t, Call(r[t], "write_inode", "synced"))
    BY <2>3, <2>4 DEF WriteBack, Locked
  <2>6. Call(r[t], "write_inode", "synced") = q
    BY <1>2, <1>3, ShortStacks DEF Call, Shape
  <2>7. r' = [r EXCEPT ![t] = q]
    BY <2>5, <2>6 DEF Set
  <2>8. [r[t] EXCEPT !.pc = "write_inode"] \in Shape(<< >>)
    BY <1>3, ShapeKept DEF Places
  <2>9. q.ret = back
    BY <1>3 DEF Shape
  <2>10. q \in Shape(back)
    <3> DEFINE o == r[t]
    <3>1. q = [o EXCEPT !.pc = "write_inode", !.ret = back]
      OBVIOUS
    <3>2. [o EXCEPT !.pc = "write_inode"] \in Shape(<< >>)
      BY <2>8
    <3> HIDE DEF back, q, o
    <3> QED
      BY <3>1, <3>2, ShapeKept
  <2>11. /\ q.pc = "write_inode" /\ q.s = s /\ q.file = r[t].file
         /\ q.refs = r[t].refs /\ q.empty = None /\ q.ino = r[t].ino
    BY <1>2, <1>3 DEF Shape
  <2> HIDE DEF q
  <2>12. Shaped(q)
    BY <2>9, <2>10 DEF Shaped
  <2>13. inode \in [Slot -> Entry] /\ \A x \in Slot : inode[x] \in Entry
    BY DEF InodeInv, TypeInv
  <2>14. /\ inode' \in [Slot -> Entry]
         /\ \A x \in Slot : inode'[x] = IF x = s THEN Locked(inode[s]) ELSE inode[x]
    BY <1>2, <2>5, <2>13, LockedIs
  <2>15. /\ \A x \in Slot : /\ inode'[x].ino = inode[x].ino /\ inode'[x].mount = inode[x].mount
                            /\ inode'[x].pipe = inode[x].pipe
         /\ inode'[s].lock
    BY <1>2, <2>13, <2>14, LockedIs
  <2>16. /\ Sound(q) /\ ~Unmounting(q) /\ ~Unmounting(r[t])
         /\ \A x \in Slot :
              /\ Share(q, x) = Share(r[t], x) /\ Share(q, x) \in Int
              /\ ~Reads(q, x) /\ ~Reads(r[t], x) /\ ~Cuts(r[t], x)
         /\ Fit(q, inode', super, entry)
    <3> DEFINE tb == inode'
    <3>1. /\ \A x \in Slot : tb[x].ino = inode[x].ino /\ tb[x].pipe = inode[x].pipe
                             /\ tb[x].mount = inode[x].mount
          /\ tb[q.s].lock /\ tb[q.s].ino # NoIno
      BY <1>2, <2>2, <2>11, <2>15
    <3> HIDE DEF tb
    <3>2. /\ Sound(q) /\ ~Unmounting(q) /\ ~Unmounting(r[t])
          /\ \A x \in Slot :
              /\ Share(q, x) = Share(r[t], x) /\ Share(q, x) \in Int
              /\ ~Reads(q, x) /\ ~Reads(r[t], x) /\ ~Cuts(r[t], x)
          /\ Fit(q, tb, super, entry)
      BY <1>2, <2>9, <2>11, <2>12, <3>1, SyncWaits
    <3> QED
      BY <3>2 DEF tb
  <2>17. SyncMoves(t, q, N)
    BY <2>7, <2>11, <2>16 DEF SyncMoves, Locks
  <2>18. TypeInv' /\ Fit(q, inode', super', entry') /\ UNCHANGED <<imap, super, entry>>
    BY <1>1, <2>14, <2>16 DEF InodeInv, TypeInv, fs
  <2>19. /\ W \in SUBSET Slot /\ N \in SUBSET Slot
         /\ \A x \in Slot \ (W \cup N) : inode'[x] = inode[x]
         /\ \A x \in W : IsWritten(t, x, inode'[x])
         /\ \A x \in N : IsLocked(x, inode'[x])
         /\ \A j \in Ino : disk'[j] = disk[j] \/ \E x \in W : inode[x].ino = j
    BY <1>1, <1>2, <2>1, <2>14 DEF IsLocked, fs
  <2> HIDE DEF W, N
  <2> QED
    BY <1>2, <2>17, <2>18, <2>19, SyncStep
<1>5. CASE ~NeedsSync(inode[r[t].s])
  BY <1>1, <1>2, <1>3, <1>5, SyncBegins DEF sync_inodes
<1> QED
  BY <1>4, <1>5

-----------------------------------------------------------------------------
(* iput                                                                    *)

\* A call adds a label to the stack and leaves the other registers alone.
LEMMA CallIs ==
  ASSUME NEW a, NEW p \in Shape(a), NEW pc \in Places, NEW label, NEW back,
         <<label>> \o a = back
  PROVE  LET q == Call(p, pc, label)
         IN /\ q \in Shape(back) /\ q.pc = pc /\ q.ret = back
            /\ q.s = p.s /\ q.empty = p.empty /\ q.ino = p.ino /\ q.file = p.file
            /\ q.refs = p.refs /\ q.dev = p.dev /\ q.todo = p.todo /\ q.k = p.k
<1> DEFINE q == Call(p, pc, label)
<1>1. p.ret = a
  BY DEF Shape
<1>2. q = [p EXCEPT !.pc = pc, !.ret = back]
  BY <1>1 DEF Call, Shape
<1>3. [p EXCEPT !.pc = pc] \in Shape(a)
  BY ShapeKept
<1> HIDE DEF q
<1>4. q \in Shape(back)
  BY <1>2, <1>3, ShapeKept
<1>5. /\ q.pc = pc /\ q.ret = back
      /\ q.s = p.s /\ q.empty = p.empty /\ q.ino = p.ino /\ q.file = p.file
      /\ q.refs = p.refs /\ q.dev = p.dev /\ q.todo = p.todo /\ q.k = p.k
  BY <1>2 DEF Shape
<1> QED
  BY <1>4, <1>5 DEF q

\* A return takes a label from the stack.
LEMMA ReturnIs ==
  ASSUME NEW a, NEW p \in Shape(a), a # << >>, NEW label, NEW back,
         Head(a) = label, Tail(a) = back,
         label \in Places \cup {"repeat", "synced", "free_inode"}
  PROVE  LET q == Return(p)
         IN /\ q \in Shape(back) /\ q.pc = label /\ q.ret = back
            /\ q.s = p.s /\ q.empty = p.empty /\ q.ino = p.ino /\ q.file = p.file
            /\ q.refs = p.refs /\ q.dev = p.dev /\ q.todo = p.todo /\ q.k = p.k
<1> DEFINE q == Return(p)
<1>1. p.ret = a
  BY DEF Shape
<1>2. q = [p EXCEPT !.pc = label, !.ret = back]
  BY <1>1 DEF Return, Shape
<1>3. [p EXCEPT !.pc = label] \in Shape(a)
  BY ShapeKept
<1> HIDE DEF q
<1>4. q \in Shape(back)
  BY <1>2, <1>3, ShapeKept
<1>5. /\ q.pc = label /\ q.ret = back
      /\ q.s = p.s /\ q.empty = p.empty /\ q.ino = p.ino /\ q.file = p.file
      /\ q.refs = p.refs /\ q.dev = p.dev /\ q.todo = p.todo /\ q.k = p.k
  BY <1>2 DEF Shape
<1> QED
  BY <1>4, <1>5 DEF q

\* The task t gives back a reference, and has the registers p in iput.
Giving(t, p) ==
  /\ Putting(r[t]) /\ r[t].s \in Slot
  /\ p \in Shape(p.ret) /\ p.ret \in {<< >>, <<"put_super">>}
  /\ p.ret = <<"put_super">> <=> Unmounting(r[t])
  /\ p.s = r[t].s /\ p.empty = None /\ p.ino = r[t].ino /\ p.file = r[t].file
  /\ p.refs = r[t].refs /\ p.dev = r[t].dev

\* Its share of every entry without the one that it gives back.
Rest(t, s) == IF r[t].file = s THEN r[t].refs ELSE 0

LEMMA GivingIs ==
  ASSUME InodeInv, NEW t \in Task, NEW p, Giving(t, p)
  PROVE  /\ r[t].empty = None /\ r[t].refs \in 0 .. 2
         /\ (r[t].file = None <=> r[t].refs = 0) /\ r[t].file \in Slot \cup {None}
         /\ (Unmounting(r[t]) => r[t].dev \in Device)
         /\ Refers(r[t], r[t].s) /\ Filled(inode[r[t].s])
         /\ Fit(r[t], inode, super, entry)
         /\ \A s \in Slot :
              /\ Rest(t, s) \in Int
              /\ Share(r[t], s) = Rest(t, s) + One(s = r[t].s)
              /\ ~Reads(r[t], s)
<1>1. /\ Sound(r[t]) /\ Fit(r[t], inode, super, entry) /\ Shaped(r[t])
      /\ (Putting(r[t]) <=> Puts(r[t])) /\ r[t].ret \in Returns(r[t].pc)
  BY RegistersAre
<1>2. Puts(r[t]) /\ r[t].pc \notin Taking /\ r[t].pc # "read_inode"
  BY <1>1 DEF Giving, Puts, Taking
<1>3. /\ r[t].empty = None /\ r[t].refs \in 0 .. 2
      /\ (r[t].file = None <=> r[t].refs = 0) /\ r[t].file \in Slot \cup {None}
      /\ (Unmounting(r[t]) => r[t].dev \in Device)
  BY <1>1, <1>2 DEF Sound, Shaped, Shape
<1>4. Refers(r[t], r[t].s) /\ Filled(inode[r[t].s])
  BY <1>1 DEF Giving, Refers, Fit
<1>5. \A s \in Slot : Rest(t, s) \in Int /\ Share(r[t], s) = Rest(t, s) + One(s = r[t].s)
  BY <1>3, InodeAssumption DEF Giving, Share, Rest, One
<1> QED
  BY <1>1, <1>2, <1>3, <1>4, <1>5 DEF Reads

\* The task returns from iput.
LEMMA GivenBack ==
  ASSUME InodeInv, NEW t \in Task, NEW p, Giving(t, p), NEW q, q = Return(p)
  PROVE  /\ Sound(q) /\ (Unmounting(q) <=> Unmounting(r[t]))
         /\ (Unmounting(q) => q.dev = r[t].dev) /\ q.pc \in {"user", "put_super"}
         /\ \A s \in Slot :
              /\ Share(q, s) = Rest(t, s)
              /\ ~Reads(q, s) /\ ~Locks(q, s) /\ ~Cuts(q, s)
         /\ \A tab :
              /\ \A s \in Slot : tab[s].mount = inode[s].mount
              /\ r[t].file # None => Filled(tab[r[t].file])
              => Fit(q, tab, super, entry)
<1>1. /\ r[t].empty = None /\ r[t].refs \in 0 .. 2
      /\ (r[t].file = None <=> r[t].refs = 0) /\ r[t].file \in Slot \cup {None}
      /\ (Unmounting(r[t]) => r[t].dev \in Device)
      /\ Fit(r[t], inode, super, entry)
  BY GivingIs
<1>2. CASE p.ret = << >>
  <2>1. q = Leave(r[t])
    BY <1>2 DEF Return, Leave, Giving
  <2>2. Sound(r[t])
    BY RegistersAre
  <2>3. /\ Sound(q)
        /\ q.pc = "user" /\ ~Putting(q) /\ ~Unmounting(q)
        /\ \A s \in Slot : ~Reads(q, s) /\ ~Locks(q, s) /\ ~Cuts(q, s)
        /\ \A s \in Slot : Share(q, s) = Rest(t, s)
        /\ \A tab, supers, names :
             (r[t].file # None => Filled(tab[r[t].file])) => Fit(q, tab, supers, names)
    BY <2>1, <2>2, LeaveIsSound DEF Rest
  <2>4. ~Unmounting(r[t])
    BY <1>2, StacksDiffer DEF Giving
  <2> QED
    BY <2>3, <2>4
<1>3. CASE p.ret = <<"put_super">>
  <2> DEFINE a == <<"put_super">>
             back == << >>
  <2>1. p \in Shape(a) /\ a # << >> /\ Head(a) = "put_super" /\ Tail(a) = back
    BY <1>3, ShortStacks, StacksDiffer DEF Giving
  <2>2. "put_super" \in Places
    BY DEF Places
  <2> HIDE DEF a, back
  <2>3. /\ q \in Shape(back) /\ q.pc = "put_super" /\ q.ret = back
        /\ q.s = p.s /\ q.empty = p.empty /\ q.ino = p.ino /\ q.file = p.file
        /\ q.refs = p.refs /\ q.dev = p.dev
    BY <2>1, <2>2, StacksDiffer, ReturnIs
  <2>4. Shaped(q) /\ q.pc \in Places /\ q.ret \in Returns(q.pc) /\ q.ret = << >>
    BY <2>2, <2>3 DEF Shaped, Returns, back
  <2>5. ~Putting(q) /\ Unmounting(q)
    BY <2>3, <2>4, PuttingIs DEF Puts, Ends
  <2>6. Unmounting(r[t])
    BY <1>3 DEF Giving
  <2>7. Sound(q)
    BY <1>1, <2>3, <2>4, <2>5, <2>6, StacksDiffer, InodeAssumption
       DEF Sound, Giving, Taking, Mapping
  <2>8. \A s \in Slot :
           /\ Share(q, s) = Rest(t, s)
           /\ ~Reads(q, s) /\ ~Locks(q, s) /\ ~Cuts(q, s)
    BY <1>1, <2>3, <2>5, InodeAssumption DEF Share, One, Rest, Reads, Locks, Cuts, Giving
  <2>9. ASSUME NEW tab, \A s \in Slot : tab[s].mount = inode[s].mount,
               r[t].file # None => Filled(tab[r[t].file])
        PROVE  Fit(q, tab, super, entry)
    <3>1. \A d : Passes(tab, super, d) <=> Passes(inode, super, d)
      BY <2>9 DEF Passes
    <3>2. r[t].s \in Slot /\ q.file = r[t].file /\ q.empty = None /\ q.ino = r[t].ino
          /\ q.dev = r[t].dev /\ q.s = r[t].s
      BY <2>3 DEF Giving
    <3> QED
      BY <1>1, <2>3, <2>4, <2>5, <2>6, <2>9, <3>1, <3>2 DEF Fit, Mapping
  <2> QED
    BY <2>3, <2>5, <2>6, <2>7, <2>8, <2>9 DEF Giving
<1> QED
  BY <1>2, <1>3 DEF Giving

\* The task sleeps in what iput calls.
LEMMA InsideIput ==
  ASSUME InodeInv, NEW t \in Task, NEW p, Giving(t, p), NEW q, Shaped(q),
         \/ q.pc = "write_inode" /\ q.ret = <<"repeat">> \o p.ret
         \/ q.pc = "truncate" /\ q.ret = <<"free_inode">> \o p.ret,
         q.s = p.s, q.empty = p.empty, q.ino = p.ino, q.file = p.file,
         q.refs = p.refs, q.dev = p.dev
  PROVE  /\ Sound(q) /\ (Unmounting(q) <=> Unmounting(r[t]))
         /\ (Unmounting(q) => q.dev = r[t].dev) /\ q.pc # "read_super"
         /\ \A s \in Slot : Share(q, s) = Share(r[t], s) /\ ~Reads(q, s)
         /\ \A tab :
              /\ \A s \in Slot :
                   /\ tab[s].mount = inode[s].mount
                   /\ tab[s].ino = inode[s].ino /\ tab[s].pipe = inode[s].pipe
              /\ tab[q.s].ino # NoIno
              /\ q.pc = "write_inode" => tab[q.s].lock
              /\ q.pc = "truncate" =>
                   tab[q.s].count = 1 /\ tab[q.s].links = 0 /\ ~tab[q.s].lock
              => Fit(q, tab, super, entry)
<1>1. /\ r[t].empty = None /\ r[t].refs \in 0 .. 2
      /\ (r[t].file = None <=> r[t].refs = 0) /\ r[t].file \in Slot \cup {None}
      /\ (Unmounting(r[t]) => r[t].dev \in Device)
      /\ Fit(r[t], inode, super, entry) /\ Filled(inode[r[t].s])
  BY GivingIs
<1>2. \/ q.pc = "write_inode" /\ q.ret = <<"repeat">> /\ ~Unmounting(r[t])
      \/ q.pc = "write_inode" /\ q.ret = <<"repeat", "put_super">> /\ Unmounting(r[t])
      \/ q.pc = "truncate" /\ q.ret = <<"free_inode">> /\ ~Unmounting(r[t])
      \/ q.pc = "truncate" /\ q.ret = <<"free_inode", "put_super">> /\ Unmounting(r[t])
  <2>1. CASE p.ret = << >>
    BY <2>1, ShortStacks, StacksDiffer DEF Giving
  <2>2. CASE p.ret = <<"put_super">>
    BY <2>2, ShortStacks DEF Giving
  <2> QED
    BY <2>1, <2>2 DEF Giving
<1>3. q.pc \in Places /\ q.ret \in Returns(q.pc)
  BY <1>2 DEF Places, Returns
<1>4. Putting(q) /\ (Unmounting(q) <=> Unmounting(r[t]))
  BY <1>2, <1>3, PuttingIs, StacksDiffer DEF Puts, Ends
<1>5. /\ q.s = r[t].s /\ q.empty = None /\ q.ino = r[t].ino /\ q.file = r[t].file
      /\ q.refs = r[t].refs /\ q.dev = r[t].dev /\ r[t].s \in Slot /\ Putting(r[t])
  BY DEF Giving
<1>6. q.ret # << >>
  BY <1>2, StacksDiffer
<1>7. q.ret # <<"sys_mount">>
  BY <1>4, <1>3, <1>5, StacksDiffer DEF Returns
<1>8. Sound(q)
  BY <1>1, <1>2, <1>3, <1>4, <1>5, <1>6, <1>7, InodeAssumption DEF Sound, Taking, Mapping
<1>9. \A s \in Slot : Share(q, s) = Share(r[t], s) /\ ~Reads(q, s)
  BY <1>1, <1>2, <1>4, <1>5 DEF Share, One, Reads
<1>10. ASSUME NEW tab,
              \A s \in Slot :
                   /\ tab[s].mount = inode[s].mount
                   /\ tab[s].ino = inode[s].ino /\ tab[s].pipe = inode[s].pipe,
              tab[q.s].ino # NoIno,
              q.pc = "write_inode" => tab[q.s].lock,
              q.pc = "truncate" =>
                   tab[q.s].count = 1 /\ tab[q.s].links = 0 /\ ~tab[q.s].lock
       PROVE  Fit(q, tab, super, entry)
  <2>1. \A d : Passes(tab, super, d) <=> Passes(inode, super, d)
    BY <1>10 DEF Passes
  <2> QED
    BY <1>1, <1>2, <1>4, <1>5, <1>10, <2>1 DEF Fit, Filled
<1> QED
  BY <1>2, <1>4, <1>5, <1>8, <1>9, <1>10

\* The entry with one reference less.
Dropped(i) == [i EXCEPT !.count = @ - 1]

LEMMA DroppedIs ==
  ASSUME NEW i \in Entry
  PROVE  /\ Dropped(i) \in Entry
         /\ Dropped(i).count = i.count - 1 /\ Dropped(i).ino = i.ino
         /\ Dropped(i).links = i.links /\ Dropped(i).mount = i.mount
         /\ Dropped(i).pipe = i.pipe /\ Dropped(i).zone = i.zone
         /\ Dropped(i).dirt = i.dirt /\ Dropped(i).lock = i.lock
  BY DEF Entry, Dropped

\* The entry i that iput has at the label repeat: it is not locked, or it has
\* just been written.
Begins(t, i) ==
  \/ r[t].pc = "iput" /\ i = inode[r[t].s] /\ ~i.lock /\ disk' = disk
  \/ r[t].pc = "write_inode" /\ IsWritten(t, r[t].s, i)

\* It has the inode that the entry had.
LEMMA BeginsIs ==
  ASSUME InodeInv, NEW t \in Task, r[t].s \in Slot, Putting(r[t]),
         NEW i \in Entry, Begins(t, i)
  PROVE  LET v == r[t].s
         IN /\ i.ino = inode[v].ino /\ i.pipe = inode[v].pipe /\ i.mount = inode[v].mount
            /\ i.links = inode[v].links /\ i.count = inode[v].count /\ ~i.lock
            /\ i.count \in Int /\ i.count >= 1
            /\ i.pipe => i.ino = NoIno
            /\ i.ino = NoIno => ~i.dirt
            /\ ~Reading(v) /\ ~Cuts(r[t], v)
            /\ Locks(r[t], v) \/ ~inode[v].lock
            /\ i.ino # NoIno /\ i.links > 0 /\ ~i.dirt /\ ~Truncating(v)
                 => disk'[i.ino] = OnDisk(i)
<1> DEFINE v == r[t].s
<1>1. SlotAt(v) /\ inode[v] \in Entry
  BY DEF InodeInv, SlotInv, TypeInv
<1>2. inode[v].count >= 1 /\ inode[v].count \in Int
  BY AloneUser DEF Refers
<1>3. CASE r[t].pc = "iput" /\ i = inode[v] /\ ~i.lock /\ disk' = disk
  <2>1. ~Reading(v)
    BY <1>3, WritersDoNotRead
  <2> QED
    BY <1>1, <1>2, <1>3, <2>1 DEF SlotAt, Cuts, OnDisk
<1>4. CASE r[t].pc = "write_inode" /\ IsWritten(t, v, i)
  <2>1. i = Written(inode[v]) /\ disk'[inode[v].ino] = OnDisk(inode[v])
    BY <1>4 DEF IsWritten
  <2>2. /\ i.ino = inode[v].ino /\ i.pipe = inode[v].pipe /\ i.mount = inode[v].mount
        /\ i.links = inode[v].links /\ i.count = inode[v].count /\ ~i.lock /\ ~i.dirt
        /\ i.zone = inode[v].zone
    BY <1>1, <2>1, WrittenIs
  <2>3. OnDisk(i) = OnDisk(inode[v])
    BY <2>2 DEF OnDisk
  <2>4. ~Reading(v) /\ ~Cuts(r[t], v) /\ Locks(r[t], v)
    BY <1>4, WritersDoNotRead DEF Cuts, Locks
  <2> QED
    BY <1>1, <1>2, <2>1, <2>2, <2>3, <2>4 DEF SlotAt
<1> QED
  BY <1>3, <1>4 DEF Begins

\* The entry at work gets the value i, all others stay.
Becomes(v, i) == inode'[v] = i /\ \A s \in Slot \ {v} : inode'[s] = inode[s]
DiskOf(v) == \A j \in Ino : disk'[j] = disk[j] \/ j = inode[v].ino

\* iput changes the entry at work and not the inode that it has.
LEMMA IputStep ==
  ASSUME InodeInv, TypeInv', NEW t \in Task, NEW v \in Slot, v = r[t].s, Putting(r[t]),
         NEW q, MovesTo(t, q), UNCHANGED <<imap, super, entry>>,
         NEW i \in Entry, Begins(t, i), i.ino # NoIno,
         NEW new \in Entry, Becomes(v, new), DiskOf(v),
         new.ino = i.ino, new.pipe = i.pipe, new.mount = i.mount, new.links = i.links,
         new.zone = i.zone, new.dirt <=> i.dirt,
         new.count = i.count - Share(r[t], v) + Share(q, v),
         new.lock \/ new.dirt => new.count > 0,
         \A s \in Slot \ {v} : Share(q, s) = Share(r[t], s) /\ Share(r[t], s) \in Int,
         \A s \in Slot : /\ Reads(q, s) <=> Reads(r[t], s)
                         /\ Locks(q, s) => s = v,
         Fit(q, inode', super', entry')
  PROVE  InodeInv'
<1> DEFINE V == {v}
<1>0. r' = [r EXCEPT ![t] = q]
  BY DEF MovesTo
<1>1. /\ i.ino = inode[v].ino /\ i.pipe = inode[v].pipe /\ i.mount = inode[v].mount
      /\ i.links = inode[v].links /\ i.count = inode[v].count /\ ~i.lock
      /\ i.count \in Int /\ i.count >= 1
      /\ i.pipe => i.ino = NoIno
      /\ i.ino = NoIno => ~i.dirt
      /\ ~Reading(v) /\ ~Cuts(r[t], v)
      /\ Locks(r[t], v) \/ ~inode[v].lock
      /\ i.ino # NoIno /\ i.links > 0 /\ ~i.dirt /\ ~Truncating(v)
           => disk'[i.ino] = OnDisk(i)
  BY BeginsIs
<1>2. inode'[v] = new /\ \A s \in Slot \ {v} : inode'[s] = inode[s]
  BY DEF Becomes
<1>3. \A s \in Slot : inode[s].count \in Int
  BY DEF InodeInv, TypeInv, Entry
<1>4. \A s \in Slot : Counted(t, q, s) /\ HasItsInode(t, q, s)
  <2> TAKE s \in Slot
  <2>1. CASE s = v
    BY <1>1, <1>2, <2>1 DEF Counted, HasItsInode
  <2>2. CASE s # v
    <3>1. inode'[s] = inode[s] /\ Share(q, s) = Share(r[t], s) /\ Share(r[t], s) \in Int
      BY <1>2, <2>2
    <3>2. inode[s].count = inode[s].count - Share(r[t], s) + Share(q, s)
      BY <1>3, <3>1
    <3> QED
      BY <2>2, <3>1, <3>2 DEF Counted, HasItsInode
  <2> QED
    BY <2>1, <2>2
<1>5. \A s \in Slot \ V : Still(t, q, s)
  BY <1>1, <1>2 DEF Still, Cuts
<1>6. \A j \in Ino : disk'[j] = disk[j] \/ \E s \in V : inode[s].ino = j /\ ~Reading(s)
  BY <1>1 DEF DiskOf
<1>7. Truncating(v) => Truncating(v)'
  <2> SUFFICES ASSUME NEW u \in Task, r[u].pc = "truncate", r[u].s = v
               PROVE  Truncating(v)'
    BY DEF Truncating
  <2>1. u # t
    BY <1>1 DEF Cuts
  <2>2. r'[u] = r[u]
    BY <1>0, <2>1, OneTaskMoves DEF InodeInv
  <2> QED
    BY <2>2 DEF Truncating
<1>8. OnDisk(new) = OnDisk(i)
  BY DEF OnDisk
<1>9. WellChanged(v)
  BY <1>1, <1>2, <1>7, <1>8 DEF WellChanged
<1>10. \A u \in Task \ {t} : Undisturbed(r[u], v)
  <2>1. Refers(r[t], v)
    BY DEF Refers
  <2> QED
    BY <1>1, <1>2, <2>1, UserDisturbsNobody
<1>11. V \in SUBSET Slot /\ (\A s \in V : WellChanged(s))
       /\ \A u \in Task \ {t}, s \in V : Undisturbed(r[u], s)
  BY <1>9, <1>10
<1> HIDE DEF V
<1> QED
  BY <1>4, <1>5, <1>6, <1>11, EntriesStep

\* iput from the label repeat on.
LEMMA RepeatKeeps ==
  ASSUME InodeInv, NEW t \in Task, NEW v \in Slot, v = r[t].s,
         NEW p, Giving(t, p), NEW tab \in [Slot -> Entry],
         \A s \in Slot \ {v} : tab[s] = inode[s],
         Begins(t, tab[v]), tab[v].ino # NoIno, DiskOf(v),
         disk' \in [Ino -> [links : Int, zone : [0 .. 2 -> Number]]],
         UNCHANGED <<imap, zmap, ind, super, entry>>,
         Repeat(t, p, tab)
  PROVE  InodeInv'
<1> DEFINE i == tab[v]
<1>1. i \in Entry /\ p.s = v /\ Putting(r[t])
  BY DEF Giving
<1>2. /\ i.ino = inode[v].ino /\ i.pipe = inode[v].pipe /\ i.mount = inode[v].mount
      /\ i.links = inode[v].links /\ i.count = inode[v].count /\ ~i.lock
      /\ i.count \in Int /\ i.count >= 1
  BY <1>1, BeginsIs
<1>3. /\ r[t].empty = None /\ r[t].file \in Slot \cup {None}
      /\ Fit(r[t], inode, super, entry)
      /\ \A s \in Slot :
           /\ Rest(t, s) \in Int
           /\ Share(r[t], s) = Rest(t, s) + One(s = v)
           /\ ~Reads(r[t], s)
  BY GivingIs
<1>4. \A s \in Slot : Share(r[t], s) \in Int
  BY <1>3 DEF One
<1>5. \A s \in Slot : /\ tab[s].mount = inode[s].mount /\ tab[s].ino = inode[s].ino
                      /\ tab[s].pipe = inode[s].pipe
  BY <1>2
<1>6. ASSUME NEW new \in Entry, inode' = [tab EXCEPT ![v] = new]
      PROVE  TypeInv' /\ Becomes(v, new)
  <2>1. inode' \in [Slot -> Entry]
    BY <1>6
  <2>2. TypeInv'
    BY <2>1 DEF InodeInv, TypeInv
  <2> QED
    BY <1>6, <2>2 DEF Becomes
<1> HIDE DEF i
<1>7. CASE i.count > 1 \/ (i.links # 0 /\ ~i.dirt)
  <2> DEFINE q == Return(p)
             new == Dropped(i)
  <2>1. inode' = [tab EXCEPT ![v] = Dropped(@)] /\ r' = [r EXCEPT ![t] = q]
    BY <1>1, <1>7 DEF Repeat, Set, Dropped, i
  <2>2. inode' = [tab EXCEPT ![v] = new]
    BY <2>1 DEF i
  <2>3. /\ new \in Entry
        /\ new.count = i.count - 1 /\ new.ino = i.ino
        /\ new.links = i.links /\ new.mount = i.mount
        /\ new.pipe = i.pipe /\ new.zone = i.zone
        /\ new.dirt = i.dirt /\ new.lock = i.lock
    BY <1>1, DroppedIs
  <2> HIDE DEF q, new
  <2>4. /\ Sound(q) /\ (Unmounting(q) <=> Unmounting(r[t]))
        /\ (Unmounting(q) => q.dev = r[t].dev) /\ q.pc \in {"user", "put_super"}
        /\ \A s \in Slot :
              /\ Share(q, s) = Rest(t, s)
              /\ ~Reads(q, s) /\ ~Locks(q, s) /\ ~Cuts(q, s)
        /\ \A tb :
              /\ \A s \in Slot : tb[s].mount = inode[s].mount
              /\ r[t].file # None => Filled(tb[r[t].file])
              => Fit(q, tb, super, entry)
    BY GivenBack DEF q
  <2>5. TypeInv' /\ Becomes(v, new)
    BY <1>6, <2>2, <2>3
  <2>6. \A s \in Slot : /\ inode'[s].mount = inode[s].mount /\ inode'[s].ino = inode[s].ino
                        /\ inode'[s].pipe = inode[s].pipe
    BY <1>2, <2>3, <2>5 DEF Becomes
  <2>7. r[t].file # None => Filled(inode'[r[t].file])
    BY <1>3, <2>6 DEF Fit, Filled
  <2>8. Fit(q, inode', super', entry')
    BY <2>4, <2>6, <2>7
  <2>9. MovesTo(t, q)
    BY <2>1, <2>4 DEF MovesTo
  <2>10. new.count = i.count - Share(r[t], v) + Share(q, v)
    BY <1>2, <1>3, <2>3, <2>4 DEF One
  <2>11. \A s \in Slot \ {v} : Share(q, s) = Share(r[t], s) /\ Share(r[t], s) \in Int
    BY <1>3, <1>4, <2>4 DEF One
  <2>12. new.lock \/ new.dirt => new.count > 0
    BY <1>2, <1>7, <2>3
  <2>13. i \in Entry /\ Begins(t, i) /\ i.ino # NoIno /\ UNCHANGED <<imap, super, entry>>
    BY <1>1 DEF i
  <2>14. \A s \in Slot : (Reads(q, s) <=> Reads(r[t], s)) /\ (Locks(q, s) => s = v)
    BY <1>3, <2>4
  <2> QED
    BY <1>1, <2>3, <2>5, <2>8, <2>9, <2>10, <2>11, <2>12, <2>13, <2>14, IputStep
<1>8. CASE ~(i.count > 1 \/ (i.links # 0 /\ ~i.dirt)) /\ i.links = 0
  <2> DEFINE o == [p EXCEPT !.k = 0]
             q == Call(o, "truncate", "free_inode")
             back == <<"free_inode">> \o p.ret
             a == p.ret
  <2>1. inode' = tab /\ r' = [r EXCEPT ![t] = q]
    BY <1>1, <1>8 DEF Repeat, Set, i
  <2>2. inode' = [tab EXCEPT ![v] = i]
    BY <2>1 DEF i
  <2>3. o \in Shape(a) /\ "truncate" \in Places
    <3>1. p \in Shape(a) /\ 0 \in 0 .. 3
      BY DEF Giving
    <3> HIDE DEF a
    <3>2. [p EXCEPT !.k = 0] \in Shape(a)
      BY <3>1, ShapeKept
    <3> QED
      BY <3>2 DEF Places
  <2>4. /\ o.s = p.s /\ o.empty = p.empty /\ o.ino = p.ino /\ o.file = p.file
        /\ o.refs = p.refs /\ o.dev = p.dev
    BY DEF Giving, Shape
  <2> HIDE DEF o, a
  <2>5. /\ q \in Shape(back) /\ q.pc = "truncate" /\ q.ret = back
        /\ q.s = o.s /\ q.empty = o.empty /\ q.ino = o.ino /\ q.file = o.file
        /\ q.refs = o.refs /\ q.dev = o.dev
    <3>1. <<"free_inode">> \o a = back
      BY DEF a
    <3> HIDE DEF back
    <3> QED
      BY <2>3, <3>1, CallIs
  <2> HIDE DEF q
  <2>6. Shaped(q) /\ q.ret = <<"free_inode">> \o p.ret
    BY <2>5 DEF Shaped
  <2>7. q.s = v /\ q.pc # "write_inode"
    BY <1>1, <2>4, <2>5
  <2> HIDE DEF back
  <2>8. /\ Sound(q) /\ (Unmounting(q) <=> Unmounting(r[t]))
        /\ (Unmounting(q) => q.dev = r[t].dev) /\ q.pc # "read_super"
        /\ \A s \in Slot : Share(q, s) = Share(r[t], s) /\ ~Reads(q, s)
        /\ \A tb :
              /\ \A s \in Slot :
                   /\ tb[s].mount = inode[s].mount
                   /\ tb[s].ino = inode[s].ino /\ tb[s].pipe = inode[s].pipe
              /\ tb[q.s].ino # NoIno
              /\ q.pc = "write_inode" => tb[q.s].lock
              /\ q.pc = "truncate" =>
                   tb[q.s].count = 1 /\ tb[q.s].links = 0 /\ ~tb[q.s].lock
              => Fit(q, tb, super, entry)
    BY <2>4, <2>5, <2>6, InsideIput
  <2>9. TypeInv' /\ Becomes(v, i)
    BY <1>1, <1>6, <2>2 DEF i
  <2>10. i.count = 1 /\ tab[v].ino # NoIno /\ ~i.lock /\ ~i.dirt => i.links = 0
    BY <1>2, <1>8
  <2>11. Fit(q, tab, super, entry)
    <3>1. tab[v].ino # NoIno /\ tab[v].links = 0 /\ ~tab[v].lock
      BY <1>2, <1>8 DEF i
    <3>2. tab[v].count = 1
      BY <1>2, <1>8 DEF i
    <3> QED
      BY <1>5, <2>7, <2>8, <3>1, <3>2
  <2>12. Fit(q, inode', super', entry')
    BY <2>1, <2>11
  <2>13. MovesTo(t, q)
    BY <2>1, <2>8 DEF MovesTo
  <2>14. i.count = i.count - Share(r[t], v) + Share(q, v)
    BY <1>2, <1>4, <2>8
  <2>15. \A s \in Slot \ {v} : Share(q, s) = Share(r[t], s) /\ Share(r[t], s) \in Int
    BY <1>4, <2>8
  <2>16. i.lock \/ i.dirt => i.count > 0
    BY <1>2
  <2>17. i \in Entry /\ Begins(t, i) /\ i.ino # NoIno /\ UNCHANGED <<imap, super, entry>>
    BY <1>1 DEF i
  <2>18. \A s \in Slot : (Reads(q, s) <=> Reads(r[t], s)) /\ (Locks(q, s) => s = v)
    BY <1>3, <2>7, <2>8 DEF Locks
  <2> QED
    BY <1>1, <2>9, <2>12, <2>13, <2>14, <2>15, <2>16, <2>17, <2>18, IputStep
<1>9. CASE ~(i.count > 1 \/ (i.links # 0 /\ ~i.dirt)) /\ i.links # 0
  <2> DEFINE q == Call(p, "write_inode", "repeat")
             back == <<"repeat">> \o p.ret
             a == p.ret
             new == Locked(i)
  <2>1. super[i.ino[1]].there
    <3>1. inode[v].count > 0 /\ inode[v].ino # NoIno
      BY <1>2 DEF i
    <3> QED
      BY <1>2, <3>1, UsedAreMounted DEF UsedInodesAreMounted
  <2>2. WriteBack(t, p, tab, "repeat")
    BY <1>1, <1>9 DEF Repeat, i
  <2>3. inode' = [tab EXCEPT ![v] = Locked(@)] /\ r' = [r EXCEPT ![t] = q]
    BY <1>1, <2>1, <2>2 DEF WriteBack, Set, Locked, i
  <2>4. inode' = [tab EXCEPT ![v] = new]
    BY <2>3 DEF i
  <2>5. p \in Shape(a) /\ "write_inode" \in Places
    BY DEF Giving, Places
  <2> HIDE DEF a
  <2>6. /\ q \in Shape(back) /\ q.pc = "write_inode" /\ q.ret = back
        /\ q.s = p.s /\ q.empty = p.empty /\ q.ino = p.ino /\ q.file = p.file
        /\ q.refs = p.refs /\ q.dev = p.dev
    <3>1. <<"repeat">> \o a = back
      BY DEF a
    <3> HIDE DEF back
    <3> QED
      BY <2>5, <3>1, CallIs
  <2> HIDE DEF q
  <2>7. Shaped(q) /\ q.ret = <<"repeat">> \o p.ret
    BY <2>6 DEF Shaped
  <2> HIDE DEF back
  <2>8. /\ Sound(q) /\ (Unmounting(q) <=> Unmounting(r[t]))
        /\ (Unmounting(q) => q.dev = r[t].dev) /\ q.pc # "read_super"
        /\ \A s \in Slot : Share(q, s) = Share(r[t], s) /\ ~Reads(q, s)
        /\ \A tb :
              /\ \A s \in Slot :
                   /\ tb[s].mount = inode[s].mount
                   /\ tb[s].ino = inode[s].ino /\ tb[s].pipe = inode[s].pipe
              /\ tb[q.s].ino # NoIno
              /\ q.pc = "write_inode" => tb[q.s].lock
              /\ q.pc = "truncate" =>
                   tb[q.s].count = 1 /\ tb[q.s].links = 0 /\ ~tb[q.s].lock
              => Fit(q, tb, super, entry)
    BY <2>6, <2>7, InsideIput
  <2>9. /\ new \in Entry
         /\ new.count = i.count /\ new.ino = i.ino
         /\ new.links = i.links /\ new.mount = i.mount
         /\ new.pipe = i.pipe /\ new.zone = i.zone
         /\ new.dirt = i.dirt /\ new.lock
    BY <1>1, LockedIs DEF i
  <2> HIDE DEF new
  <2>10. TypeInv' /\ Becomes(v, new)
    BY <1>6, <2>4, <2>9
  <2>11. \A s \in Slot : /\ inode'[s].mount = inode[s].mount /\ inode'[s].ino = inode[s].ino
                         /\ inode'[s].pipe = inode[s].pipe
    BY <1>2, <2>9, <2>10 DEF Becomes
  <2>12. inode'[q.s].ino # NoIno /\ inode'[q.s].lock /\ q.pc # "truncate"
    BY <1>1, <2>6, <2>9, <2>10 DEF Becomes, i
  <2>13. Fit(q, inode', super', entry')
    BY <2>8, <2>11, <2>12
  <2>14. MovesTo(t, q)
    BY <2>3, <2>8 DEF MovesTo
  <2>15. new.count = i.count - Share(r[t], v) + Share(q, v)
    BY <1>2, <1>4, <2>8, <2>9
  <2>16. \A s \in Slot \ {v} : Share(q, s) = Share(r[t], s) /\ Share(r[t], s) \in Int
    BY <1>4, <2>8
  <2>17. new.lock \/ new.dirt => new.count > 0
    BY <1>2, <2>9
  <2>18. i \in Entry /\ Begins(t, i) /\ i.ino # NoIno /\ UNCHANGED <<imap, super, entry>>
    BY <1>1 DEF i
  <2>19. \A s \in Slot : (Reads(q, s) <=> Reads(r[t], s)) /\ (Locks(q, s) => s = v)
    BY <1>1, <1>3, <2>6, <2>8 DEF Locks
  <2> QED
    BY <1>1, <2>9, <2>10, <2>13, <2>14, <2>15, <2>16, <2>17, <2>18, <2>19, IputStep
<1> QED
  BY <1>7, <1>8, <1>9

\* A panic stops the system and changes nothing.
LEMMA NothingChanges ==
  ASSUME InodeInv, UNCHANGED <<inode, disk, imap, zmap, ind, super, entry, r>>
  PROVE  InodeInv'
<1> USE DEF InodeInv
<1>1. TypeInv' /\ RegInv' /\ OneEntryPerInode' /\ DevInv'
  BY DEF TypeInv, RegInv, OneEntryPerInode, DevInv
<1>2. CountInv' /\ MountInv'
  <2>1. \A s : Mounts(s)' = Mounts(s)
    BY DEF Mounts
  <2>2. \A s : References(s)' = References(s)
    BY <2>1 DEF References
  <2> QED
    BY <2>1, <2>2 DEF CountInv, MountInv
<1>3. FitInv' /\ ApartInv'
  BY DEF FitInv, ApartInv
<1>4. \A s : (Reading(s)' <=> Reading(s)) /\ (Truncating(s)' <=> Truncating(s))
  BY DEF Reading, Truncating
<1>5. \A i, n : Linked(i, n)' <=> Linked(i, n)
  BY DEF Linked
<1>6. SlotInv'
  BY <1>4, <1>5 DEF SlotInv, SlotAt
<1>7. InoInv'
  BY <1>4, <1>5 DEF InoInv, InoAt, SlotsOf
<1> QED
  BY <1>1, <1>2, <1>3, <1>6, <1>7

\* The task that begins iput gives a reference back.
LEMMA GivesBack ==
  ASSUME InodeInv, NEW t \in Task, r[t].pc = "iput"
  PROVE  Giving(t, r[t])
<1>1. /\ Sound(r[t]) /\ Shaped(r[t]) /\ r[t].ret \in Returns("iput")
      /\ Putting(r[t]) /\ (Unmounting(r[t]) <=> Ends(r[t]))
  BY RegistersAre DEF Puts
<1>2. r[t].s \in Slot /\ r[t].empty = None
  BY <1>1 DEF Sound, Shaped, Shape, Taking
<1>3. r[t].ret \in {<< >>, <<"put_super">>} /\ (r[t].ret = <<"put_super">> <=> Unmounting(r[t]))
  BY <1>1, StacksDiffer DEF Returns, Ends
<1> QED
  BY <1>1, <1>2, <1>3 DEF Giving, Shaped

\* The last reference to a pipe.
Closed(i) == [i EXCEPT !.count = 0, !.dirt = FALSE, !.pipe = FALSE]

LEMMA ClosedIs ==
  ASSUME NEW i \in Entry
  PROVE  /\ Closed(i) \in Entry /\ Closed(i).count = 0 /\ ~Closed(i).dirt /\ ~Closed(i).pipe
         /\ Closed(i).ino = i.ino /\ Closed(i).links = i.links /\ Closed(i).mount = i.mount
         /\ Closed(i).zone = i.zone /\ Closed(i).lock = i.lock
<1>1. [i EXCEPT !.count = 0] \in Entry
  BY DEF Entry
<1>2. ASSUME NEW j \in Entry
      PROVE  [j EXCEPT !.dirt = FALSE] \in Entry /\ [j EXCEPT !.pipe = FALSE] \in Entry
  BY DEF Entry
<1>3. Closed(i) = [[[i EXCEPT !.count = 0] EXCEPT !.dirt = FALSE] EXCEPT !.pipe = FALSE]
  BY DEF Closed
<1>4. Closed(i) \in Entry
  BY <1>1, <1>2, <1>3
<1>5. DOMAIN i = {"ino", "count", "lock", "dirt", "links", "zone", "mount", "pipe"}
  BY DEF Entry
<1> QED
  BY <1>4, <1>5 DEF Closed

LEMMA Keeps_iput ==
  ASSUME InodeInv, NEW t \in Task, iput(t)
  PROVE  InodeInv'
<1> DEFINE i == inode[r[t].s]
<1>0. PICK v \in Slot : v = r[t].s
  <2>1. r[t].pc = "iput"
    BY DEF iput, At
  <2> QED
    BY <2>1, GivesBack DEF Giving
<1>1. /\ r[t].pc = "iput" /\ ~inode[v].lock /\ Giving(t, r[t])
      /\ UNCHANGED <<disk, imap, zmap, ind, super, entry>>
  BY <1>0, GivesBack DEF iput, At, Unlocked, fs
<1>2. inode \in [Slot -> Entry] /\ inode[v] \in Entry
  BY DEF InodeInv, TypeInv
<1>3. CASE inode[v].count = 0
  BY <1>0, <1>1, <1>3, NothingChanges DEF iput, Panic
<1>4. CASE inode[v].count # 0 /\ ~inode[v].pipe
  <2>1. Repeat(t, r[t], inode)
    BY <1>0, <1>4 DEF iput
  <2>2. inode[v].ino # NoIno
    BY <1>0, <1>1, <1>4, GivingIs DEF Filled
  <2>3. Begins(t, inode[v]) /\ DiskOf(v)
    BY <1>0, <1>1 DEF Begins, DiskOf
  <2>4. disk' \in [Ino -> [links : Int, zone : [0 .. 2 -> Number]]]
    BY <1>1 DEF InodeInv, TypeInv
  <2> QED
    BY <1>0, <1>1, <1>2, <2>1, <2>2, <2>3, <2>4, RepeatKeeps
<1>5. CASE inode[v].count # 0 /\ inode[v].pipe
  <2> DEFINE q == Return(r[t])
             new == IF inode[v].count > 1 THEN Dropped(inode[v]) ELSE Closed(inode[v])
             V == {v}
  <2>1. inode' = [inode EXCEPT ![v] = new] /\ r' = [r EXCEPT ![t] = q]
    BY <1>0, <1>5 DEF iput, Put, Set, Dropped, Closed
  <2>2. /\ r[t].file \in Slot \cup {None} /\ Fit(r[t], inode, super, entry)
        /\ Refers(r[t], v) /\ r[t].refs \in 0 .. 2 /\ (r[t].file = None <=> r[t].refs = 0)
        /\ \A s \in Slot :
             /\ Rest(t, s) \in Int
             /\ Share(r[t], s) = Rest(t, s) + One(s = v)
             /\ ~Reads(r[t], s)
    BY <1>0, <1>1, GivingIs
  <2>3. /\ inode[v].ino = NoIno /\ ~inode[v].dirt /\ ~inode[v].lock
    BY <1>5 DEF InodeInv, SlotInv, SlotAt
  <2>4. /\ new \in Entry
        /\ new.count = inode[v].count - 1 /\ new.ino = NoIno
        /\ new.links = inode[v].links /\ new.mount = inode[v].mount
        /\ ~new.dirt /\ ~new.lock
        /\ inode[v].count > 1 => new.pipe = inode[v].pipe
    <3>1. CASE inode[v].count > 1
      BY <1>2, <2>3, <3>1, DroppedIs
    <3>2. CASE ~(inode[v].count > 1)
      <4>1. inode[v].count = 1
        BY <1>1, <1>5, <2>2, <3>2, AloneUser
      <4>2. new = Closed(inode[v])
        BY <3>2
      <4> QED
        BY <1>2, <2>3, <4>1, <4>2, ClosedIs
    <3> QED
      BY <3>1, <3>2
  <2>5. /\ Sound(q) /\ (Unmounting(q) <=> Unmounting(r[t]))
        /\ (Unmounting(q) => q.dev = r[t].dev) /\ q.pc \in {"user", "put_super"}
        /\ \A s \in Slot :
              /\ Share(q, s) = Rest(t, s)
              /\ ~Reads(q, s) /\ ~Locks(q, s) /\ ~Cuts(q, s)
        /\ \A tb :
              /\ \A s \in Slot : tb[s].mount = inode[s].mount
              /\ r[t].file # None => Filled(tb[r[t].file])
              => Fit(q, tb, super, entry)
    BY <1>1, GivenBack
  <2> HIDE DEF q, new
  <2>6. TypeInv'
    BY <1>1, <1>2, <2>1, <2>4 DEF InodeInv, TypeInv
  <2>7. inode'[v] = new /\ \A s \in Slot \ {v} : inode'[s] = inode[s]
    BY <1>2, <2>1
  <2>8. \A s \in Slot : inode'[s].mount = inode[s].mount
    BY <2>4, <2>7
  <2>9. r[t].file = v => inode[v].count > 1
    <3>1. r[t].s = v /\ Putting(r[t])
      BY <1>0, <1>1 DEF Giving
    <3> QED
      BY <3>1, AloneUser
  <2>10. r[t].file # None => Filled(inode'[r[t].file])
    BY <1>5, <2>2, <2>4, <2>7, <2>9 DEF Fit, Filled
  <2>11. Fit(q, inode', super', entry')
    BY <1>1, <2>5, <2>8, <2>10
  <2>12. MovesTo(t, q)
    BY <2>1, <2>5 DEF MovesTo
  <2>13. \A s \in Slot : inode[s].count \in Int
    BY DEF InodeInv, TypeInv, Entry
  <2>14. \A s \in Slot : Counted(t, q, s) /\ HasItsInode(t, q, s)
    BY <2>2, <2>3, <2>4, <2>5, <2>7, <2>13 DEF Counted, HasItsInode, One
  <2>15. \A s \in Slot \ V : Still(t, q, s)
    BY <1>1, <2>7 DEF Still, Cuts
  <2>16. \A j \in Ino : disk'[j] = disk[j] \/ \E s \in V : inode[s].ino = j /\ ~Reading(s)
    BY <1>1
  <2>17. \A s \in V : WellChanged(s)
    BY <2>3, <2>4, <2>7 DEF WellChanged
  <2>18. \A u \in Task \ {t}, s \in V : Undisturbed(r[u], s)
    <3> TAKE u \in Task \ {t}, s \in V
    <3>1. ~Locks(r[u], v) /\ ~Frozen(r[u], v)
      BY <2>2, <2>3, NobodyLocks, NotFrozen
    <3>2. inode[v].count > 1 \/ ~Refers(r[u], v)
      BY <2>2, AloneUser
    <3> QED
      BY <2>3, <2>4, <2>7, <3>1, <3>2 DEF Undisturbed, Frozen
  <2>19. V \in SUBSET Slot /\ UNCHANGED <<imap, super, entry>>
    BY <1>1
  <2> HIDE DEF V
  <2> QED
    BY <2>6, <2>11, <2>12, <2>14, <2>15, <2>16, <2>17, <2>18, <2>19, EntriesStep
<1> QED
  BY <1>3, <1>4, <1>5

\* write_inode returns to iput or to sync_inodes.
LEMMA Keeps_write_inode ==
  ASSUME InodeInv, NoTableRaces, NEW t \in Task, write_inode(t)
  PROVE  InodeInv'
<1>0. r[t].pc = "write_inode"
  BY DEF write_inode, At
<1>1. /\ Sound(r[t]) /\ Shaped(r[t]) /\ Fit(r[t], inode, super, entry)
      /\ r[t].ret \in Returns(r[t].pc)
      /\ (Putting(r[t]) <=> Puts(r[t])) /\ (Unmounting(r[t]) <=> Ends(r[t]))
  BY RegistersAre
<1>2. r[t].s \in Slot /\ r[t].empty = None
  BY <1>0, <1>1 DEF Sound, Shaped, Shape, Taking
<1>3. PICK v \in Slot : v = r[t].s
  BY <1>2
<1> DEFINE p == Return(r[t])
           tab == [inode EXCEPT ![v] = Written(@)]
           a == r[t].ret
           back == Tail(a)
<1>4. r[t] \in Shape(a)
  BY <1>1 DEF Shaped
<1>5. \/ /\ a = <<"repeat">> /\ Head(a) = "repeat" /\ back = << >>
         /\ ~Ends(r[t]) /\ Puts(r[t])
      \/ /\ a = <<"repeat", "put_super">> /\ Head(a) = "repeat" /\ back = <<"put_super">>
         /\ Ends(r[t]) /\ Puts(r[t])
      \/ /\ a = <<"synced">> /\ Head(a) = "synced" /\ back = << >>
  BY <1>0, <1>1, ShortStacks, StacksDiffer DEF Returns, Puts, Ends
<1>6. /\ p \in Shape(back) /\ p.ret = back /\ p.pc = Head(a)
      /\ p.s = v /\ p.empty = None /\ p.ino = r[t].ino /\ p.file = r[t].file
      /\ p.refs = r[t].refs /\ p.dev = r[t].dev
  <2> DEFINE label == Head(a)
  <2>1. a # << >> /\ label \in Places \cup {"repeat", "synced", "free_inode"}
    BY <1>5, StacksDiffer
  <2>2. Tail(a) = back
    OBVIOUS
  <2> HIDE DEF a, back, label
  <2>3. Head(a) = label /\ Tail(a) = back
    BY <2>2 DEF label
  <2>4. /\ p \in Shape(back) /\ p.pc = label /\ p.ret = back
        /\ p.s = r[t].s /\ p.empty = r[t].empty /\ p.ino = r[t].ino /\ p.file = r[t].file
        /\ p.refs = r[t].refs /\ p.dev = r[t].dev
    BY <1>4, <2>1, <2>3, ReturnIs
  <2> QED
    BY <1>2, <1>3, <2>4 DEF label
<1>7. inode[v].ino # NoIno /\ inode[v].ino \in Ino
  <2>1. inode[v].ino # NoIno
    BY <1>0, <1>1, <1>3 DEF Fit
  <2> QED
    BY <2>1 DEF InodeInv, TypeInv, Entry
<1>8. /\ inode \in [Slot -> Entry] /\ tab \in [Slot -> Entry]
      /\ tab[v] = Written(inode[v]) /\ \A s \in Slot \ {v} : tab[s] = inode[s]
  <2>1. inode \in [Slot -> Entry] /\ inode[v] \in Entry
    BY DEF InodeInv, TypeInv
  <2>2. Written(inode[v]) \in Entry
    BY <2>1, WrittenIs
  <2> QED
    BY <2>1, <2>2
<1>9. /\ disk' = [disk EXCEPT ![inode[v].ino] = OnDisk(inode[v])]
      /\ IF p.pc = "repeat" THEN Repeat(t, p, tab) ELSE SyncFrom(t, p, tab)
      /\ UNCHANGED <<imap, zmap, ind, super, entry>>
  <2> HIDE DEF p
  <2>1. p = Return(r[t]) /\ p.s = v
    BY <1>6 DEF p
  <2> QED
    BY <2>1 DEF write_inode, OnDisk, Written
<1>10. /\ disk' \in [Ino -> [links : Int, zone : [0 .. 2 -> Number]]]
       /\ disk'[inode[v].ino] = OnDisk(inode[v])
       /\ \A j \in Ino : disk'[j] = disk[j] \/ j = inode[v].ino
  <2>1. OnDisk(inode[v]) \in [links : Int, zone : [0 .. 2 -> Number]]
    BY <1>8 DEF OnDisk, Entry
  <2>2. disk \in [Ino -> [links : Int, zone : [0 .. 2 -> Number]]]
    BY DEF InodeInv, TypeInv
  <2> QED
    BY <1>7, <1>9, <2>1, <2>2
<1>11. IsWritten(t, v, tab[v]) /\ DiskOf(v)
  BY <1>0, <1>3, <1>8, <1>10 DEF IsWritten, DiskOf
<1> HIDE DEF p, tab
<1>12. CASE Head(a) = "repeat"
  <2>1. Giving(t, p)
    <3>1. Head(a) = "repeat" /\ a # <<"synced">>
      BY <1>12, ShortStacks
    <3>2. Putting(r[t]) /\ back \in {<< >>, <<"put_super">>}
          /\ (back = <<"put_super">> <=> Unmounting(r[t]))
      BY <1>1, <1>5, <3>1, StacksDiffer
    <3> QED
      BY <1>2, <1>3, <1>6, <3>2 DEF Giving
  <2>2. tab[v].ino # NoIno /\ Begins(t, tab[v])
    <3>1. inode[v] \in Entry
      BY <1>8
    <3>2. tab[v].ino = inode[v].ino
      BY <1>8, <3>1, WrittenIs
    <3> QED
      BY <1>0, <1>3, <1>7, <1>11, <3>2 DEF Begins
  <2>3. Repeat(t, p, tab)
    BY <1>6, <1>9, <1>12
  <2> QED
    BY <1>3, <1>8, <1>9, <1>10, <1>11, <2>1, <2>2, <2>3, RepeatKeeps
<1>13. CASE Head(a) = "synced"
  <2> DEFINE W == {v}
  <2>1. a = <<"synced">> /\ back = << >> /\ Syncing(t)
    BY <1>0, <1>5, <1>13 DEF Syncing
  <2>2. SyncFrom(t, p, tab)
    BY <1>6, <1>9, <1>13
  <2>3. p \in Shape(<< >>)
    BY <1>6, <2>1
  <2>4. /\ W \in SUBSET Slot /\ \A s \in Slot \ W : tab[s] = inode[s]
        /\ \A s \in W : IsWritten(t, s, tab[s])
        /\ \A j \in Ino : disk'[j] = disk[j] \/ \E s \in W : inode[s].ino = j
    BY <1>8, <1>10, <1>11
  <2> HIDE DEF W
  <2> QED
    BY <1>6, <1>8, <1>9, <1>10, <2>1, <2>2, <2>3, <2>4, SyncKeeps
<1> QED
  BY <1>5, <1>12, <1>13

-----------------------------------------------------------------------------
(* truncate                                                                *)

\* The entry without its first zone, and at the end of truncate.
Cleared(i) == [i EXCEPT !.zone[0] = 0]

LEMMA ClearedIs ==
  ASSUME NEW i \in Entry
  PROVE  /\ Cleared(i) \in Entry /\ Cleared(i).count = i.count
         /\ Cleared(i).ino = i.ino /\ Cleared(i).links = i.links
         /\ Cleared(i).mount = i.mount /\ Cleared(i).pipe = i.pipe
         /\ Cleared(i).lock = i.lock /\ Cleared(i).dirt = i.dirt
<1>1. i.zone \in [0 .. 2 -> Number] /\ 0 \in Number
  BY DEF Entry, Number
<1> DEFINE z == [i.zone EXCEPT ![0] = 0]
<1>2. z \in [0 .. 2 -> Number]
  BY <1>1
<1>3. Cleared(i) = [i EXCEPT !.zone = z]
  BY DEF Cleared
<1> HIDE DEF z
<1> QED
  BY <1>2, <1>3 DEF Entry

LEMMA TruncatedIs ==
  ASSUME NEW i \in Entry
  PROVE  /\ Truncated(i) \in Entry /\ Truncated(i).count = i.count
         /\ Truncated(i).ino = i.ino /\ Truncated(i).links = i.links
         /\ Truncated(i).mount = i.mount /\ Truncated(i).pipe = i.pipe
         /\ Truncated(i).lock = i.lock /\ Truncated(i).dirt
<1>1. i.zone \in [0 .. 2 -> Number] /\ 0 \in Number
  BY DEF Entry, Number
<1> DEFINE z == [[i.zone EXCEPT ![1] = 0] EXCEPT ![2] = 0]
<1>2. z \in [0 .. 2 -> Number]
  BY <1>1
<1>3. Truncated(i) = [[i EXCEPT !.zone = z] EXCEPT !.dirt = TRUE]
  BY DEF Truncated, Entry
<1> HIDE DEF z
<1> QED
  BY <1>2, <1>3 DEF Entry

\* What the registers of a task in truncate say: it has the file open, or it
\* gives back the last reference to an inode without links.
LEMMA CuttingIs ==
  ASSUME InodeInv, NEW t \in Task, r[t].pc = "truncate"
  PROVE  /\ r[t].s \in Slot /\ r[t] \in Shape(r[t].ret) /\ Shaped(r[t])
         /\ r[t].empty = None /\ Sound(r[t]) /\ Fit(r[t], inode, super, entry)
         /\ Refers(r[t], r[t].s) /\ inode[r[t].s] \in Entry
         /\ inode[r[t].s].ino # NoIno /\ inode[r[t].s].ino \in Ino
         /\ inode[r[t].s].count \in Int /\ inode[r[t].s].count >= 1
         /\ \A s \in Slot : /\ ~Reads(r[t], s) /\ ~Locks(r[t], s) /\ Share(r[t], s) \in Int
                            /\ Cuts(r[t], s) => s = r[t].s
         /\ \/ /\ r[t].ret = << >> /\ ~Putting(r[t]) /\ ~Unmounting(r[t])
               /\ r[t].file = r[t].s
            \/ /\ r[t].ret = <<"free_inode">> /\ Putting(r[t]) /\ ~Unmounting(r[t])
               /\ inode[r[t].s].count = 1 /\ inode[r[t].s].links = 0 /\ ~inode[r[t].s].lock
            \/ /\ r[t].ret = <<"free_inode", "put_super">> /\ Putting(r[t]) /\ Unmounting(r[t])
               /\ inode[r[t].s].count = 1 /\ inode[r[t].s].links = 0 /\ ~inode[r[t].s].lock
<1>1. /\ Sound(r[t]) /\ Shaped(r[t]) /\ Fit(r[t], inode, super, entry)
      /\ r[t].ret \in Returns("truncate")
      /\ (Putting(r[t]) <=> Puts(r[t])) /\ (Unmounting(r[t]) <=> Ends(r[t]))
  BY RegistersAre
<1>2. r[t].s \in Slot /\ r[t].empty = None /\ r[t].refs \in 0 .. 2 /\ r[t] \in Shape(r[t].ret)
  BY <1>1 DEF Sound, Shaped, Shape, Taking
<1>3. \/ /\ r[t].ret = << >> /\ ~Putting(r[t]) /\ ~Unmounting(r[t])
         /\ r[t].file = r[t].s
      \/ /\ r[t].ret = <<"free_inode">> /\ Putting(r[t]) /\ ~Unmounting(r[t])
         /\ inode[r[t].s].count = 1 /\ inode[r[t].s].links = 0 /\ ~inode[r[t].s].lock
      \/ /\ r[t].ret = <<"free_inode", "put_super">> /\ Putting(r[t]) /\ Unmounting(r[t])
         /\ inode[r[t].s].count = 1 /\ inode[r[t].s].links = 0 /\ ~inode[r[t].s].lock
  BY <1>1, StacksDiffer DEF Returns, Puts, Ends, Sound, Fit
<1>4. Refers(r[t], r[t].s)
  BY <1>3 DEF Refers
<1>5. /\ inode[r[t].s] \in Entry /\ inode[r[t].s].ino # NoIno
      /\ inode[r[t].s].count \in Int /\ inode[r[t].s].count >= 1
  BY <1>1, <1>2, <1>4, AloneUser DEF Fit, InodeInv, TypeInv
<1>6. inode[r[t].s].ino \in Ino
  BY <1>5 DEF Entry
<1>7. \A s \in Slot : /\ ~Reads(r[t], s) /\ ~Locks(r[t], s) /\ Share(r[t], s) \in Int
                      /\ Cuts(r[t], s) => s = r[t].s
  BY <1>2 DEF Reads, Locks, Cuts, Share, One
<1> QED
  BY <1>1, <1>2, <1>3, <1>4, <1>5, <1>6, <1>7

\* It sleeps again in truncate.
StillCutting(t, q) ==
  /\ q \in Shape(r[t].ret) /\ q.pc = "truncate" /\ q.ret = r[t].ret
  /\ q.s = r[t].s /\ q.empty = r[t].empty /\ q.ino = r[t].ino /\ q.file = r[t].file
  /\ q.refs = r[t].refs /\ q.dev = r[t].dev

LEMMA CutsOn ==
  ASSUME InodeInv, NEW t \in Task, r[t].pc = "truncate", NEW q, StillCutting(t, q)
  PROVE  /\ Sound(q) /\ (Unmounting(q) <=> Unmounting(r[t]))
         /\ (Unmounting(q) => q.dev = r[t].dev) /\ q.pc # "read_super"
         /\ \A s \in Slot : /\ Share(q, s) = Share(r[t], s) /\ ~Reads(q, s) /\ ~Locks(q, s)
                            /\ Cuts(q, s) <=> Cuts(r[t], s)
         /\ \A tab :
              (\A s \in Slot :
                   /\ tab[s].mount = inode[s].mount /\ tab[s].ino = inode[s].ino
                   /\ tab[s].pipe = inode[s].pipe /\ tab[s].count = inode[s].count
                   /\ tab[s].links = inode[s].links /\ tab[s].lock = inode[s].lock)
              => Fit(q, tab, super, entry)
<1>1. /\ r[t].s \in Slot /\ Sound(r[t]) /\ Fit(r[t], inode, super, entry) /\ r[t].empty = None
      /\ Shaped(r[t]) /\ r[t].ret \in Returns("truncate")
      /\ (Putting(r[t]) <=> Puts(r[t])) /\ (Unmounting(r[t]) <=> Ends(r[t]))
  BY CuttingIs, RegistersAre
<1>2. Shaped(q) /\ q.pc \in Places /\ q.ret \in Returns(q.pc)
  BY <1>1 DEF Shaped, StillCutting, Places
<1>3. (Putting(q) <=> Putting(r[t])) /\ (Unmounting(q) <=> Unmounting(r[t]))
  BY <1>1, <1>2, PuttingIs DEF Puts, Ends, StillCutting
<1>5. Sound(q)
  BY <1>1, <1>2, <1>3, InodeAssumption DEF Sound, StillCutting, Taking, Mapping
<1>6. \A s \in Slot : /\ Share(q, s) = Share(r[t], s) /\ ~Reads(q, s) /\ ~Locks(q, s)
                      /\ Cuts(q, s) <=> Cuts(r[t], s)
  BY <1>3 DEF StillCutting, Share, One, Reads, Locks, Cuts
<1>7. ASSUME NEW tab,
             \A s \in Slot :
                   /\ tab[s].mount = inode[s].mount /\ tab[s].ino = inode[s].ino
                   /\ tab[s].pipe = inode[s].pipe /\ tab[s].count = inode[s].count
                   /\ tab[s].links = inode[s].links /\ tab[s].lock = inode[s].lock
      PROVE  Fit(q, tab, super, entry)
  <2>1. \A d : Passes(tab, super, d) <=> Passes(inode, super, d)
    BY <1>7 DEF Passes
  <2>2. r[t].file \in Slot \cup {None}
    BY <1>1 DEF Shaped, Shape
  <2> QED
    BY <1>1, <1>3, <1>7, <2>1, <2>2 DEF Fit, Filled, StillCutting, Mapping
<1> QED
  BY <1>3, <1>5, <1>6, <1>7 DEF StillCutting

\* The entry j is i but for its zones.
Trimmed(i, j) ==
  /\ j \in Entry /\ j.ino = i.ino /\ j.count = i.count /\ j.links = i.links
  /\ j.mount = i.mount /\ j.pipe = i.pipe /\ j.lock = i.lock

\* truncate goes on.
LEMMA CutStep ==
  ASSUME InodeInv, NEW t \in Task, r[t].pc = "truncate", NEW v \in Slot, v = r[t].s,
         NEW q, StillCutting(t, q), r' = [r EXCEPT ![t] = q],
         NEW new, Trimmed(inode[v], new), new.dirt = inode[v].dirt,
         inode' = [inode EXCEPT ![v] = new],
         zmap' \subseteq Zone, UNCHANGED <<disk, imap, ind, super, entry>>
  PROVE  InodeInv'
<1> DEFINE V == {v}
<1>1. /\ inode \in [Slot -> Entry] /\ new \in Entry /\ \A s \in Slot : inode[s].count \in Int
  BY DEF InodeInv, TypeInv, Trimmed, Entry
<1>2. inode'[v] = new /\ \A s \in Slot \ {v} : inode'[s] = inode[s]
  BY <1>1
<1>3. TypeInv'
  <2>1. inode' \in [Slot -> Entry]
    BY <1>1
  <2> QED
    BY <2>1 DEF InodeInv, TypeInv
<1>4. /\ Sound(q) /\ (Unmounting(q) <=> Unmounting(r[t]))
      /\ (Unmounting(q) => q.dev = r[t].dev) /\ q.pc # "read_super"
      /\ \A s \in Slot : /\ Share(q, s) = Share(r[t], s) /\ ~Reads(q, s) /\ ~Locks(q, s)
                         /\ Cuts(q, s) <=> Cuts(r[t], s)
      /\ \A tab :
              (\A s \in Slot :
                   /\ tab[s].mount = inode[s].mount /\ tab[s].ino = inode[s].ino
                   /\ tab[s].pipe = inode[s].pipe /\ tab[s].count = inode[s].count
                   /\ tab[s].links = inode[s].links /\ tab[s].lock = inode[s].lock)
              => Fit(q, tab, super, entry)
  BY CutsOn
<1>5. /\ Refers(r[t], v) /\ inode[v].ino # NoIno
      /\ \A s \in Slot : ~Reads(r[t], s) /\ Share(r[t], s) \in Int
  BY CuttingIs
<1>6. \A s \in Slot :
           /\ inode'[s].mount = inode[s].mount /\ inode'[s].ino = inode[s].ino
           /\ inode'[s].pipe = inode[s].pipe /\ inode'[s].count = inode[s].count
           /\ inode'[s].links = inode[s].links /\ inode'[s].lock = inode[s].lock
  BY <1>2 DEF Trimmed
<1>7. Fit(q, inode', super', entry')
  BY <1>4, <1>6
<1>8. MovesTo(t, q)
  BY <1>4 DEF MovesTo
<1>9. \A s \in Slot : Counted(t, q, s) /\ HasItsInode(t, q, s)
  BY <1>1, <1>4, <1>5, <1>6 DEF Counted, HasItsInode
<1>10. \A s \in Slot \ V : Still(t, q, s)
  BY <1>2, <1>4 DEF Still
<1>11. \A j \in Ino : disk'[j] = disk[j] \/ \E s \in V : inode[s].ino = j /\ ~Reading(s)
  OBVIOUS
<1>12. Truncating(v)'
  <2>1. r'[t] = q /\ q.pc = "truncate" /\ q.s = v
    BY DEF InodeInv, RegInv, StillCutting
  <2> QED
    BY <2>1 DEF Truncating
<1>13. \A s \in V : WellChanged(s)
  <2>1. SlotAt(v) /\ inode'[v].dirt = inode[v].dirt
    BY <1>2 DEF InodeInv, SlotInv
  <2>2. WellChanged(v)
    BY <1>6, <1>12, <2>1 DEF SlotAt, WellChanged
  <2> QED
    BY <2>2
<1>14. \A u \in Task \ {t}, s \in V : Undisturbed(r[u], s)
  BY <1>5, <1>6, UserDisturbsNobody
<1>15. V \in SUBSET Slot /\ UNCHANGED <<imap, super, entry>>
  OBVIOUS
<1> HIDE DEF V
<1> QED
  BY <1>3, <1>7, <1>8, <1>9, <1>10, <1>11, <1>13, <1>14, <1>15, EntriesStep

\* sys_open is done with truncate.
LEMMA CutEnds ==
  ASSUME InodeInv, NEW t \in Task, r[t].pc = "truncate", NEW v \in Slot, v = r[t].s,
         r[t].ret = << >>, r' = [r EXCEPT ![t] = Leave(r[t])],
         NEW new, Trimmed(inode[v], new), new.dirt,
         inode' = [inode EXCEPT ![v] = new],
         zmap' \subseteq Zone, UNCHANGED <<disk, imap, ind, super, entry>>
  PROVE  InodeInv'
<1> DEFINE V == {v}
           q == Leave(r[t])
<1>1. /\ inode \in [Slot -> Entry] /\ new \in Entry /\ \A s \in Slot : inode[s].count \in Int
  BY DEF InodeInv, TypeInv, Trimmed, Entry
<1>2. inode'[v] = new /\ \A s \in Slot \ {v} : inode'[s] = inode[s]
  BY <1>1
<1>3. TypeInv'
  <2>1. inode' \in [Slot -> Entry]
    BY <1>1
  <2> QED
    BY <2>1 DEF InodeInv, TypeInv
<1>4. /\ Refers(r[t], v) /\ inode[v].ino # NoIno /\ inode[v].count >= 1
      /\ Sound(r[t]) /\ Fit(r[t], inode, super, entry) /\ r[t].empty = None
      /\ \A s \in Slot : /\ ~Reads(r[t], s) /\ Share(r[t], s) \in Int
                         /\ Cuts(r[t], s) => s = v
      /\ ~Putting(r[t]) /\ ~Unmounting(r[t])
  BY CuttingIs, StacksDiffer
<1>5. /\ Sound(q) /\ q.pc = "user" /\ ~Putting(q) /\ ~Unmounting(q)
      /\ \A s \in Slot : ~Reads(q, s) /\ ~Locks(q, s) /\ ~Cuts(q, s)
      /\ \A s \in Slot : Share(q, s) = IF r[t].file = s THEN r[t].refs ELSE 0
      /\ \A tab, supers, names :
           (r[t].file # None => Filled(tab[r[t].file])) => Fit(q, tab, supers, names)
  BY <1>4, LeaveIsSound
<1>6. r' = [r EXCEPT ![t] = q]
  OBVIOUS
<1> HIDE DEF q
<1>7. \A s \in Slot :
           /\ inode'[s].mount = inode[s].mount /\ inode'[s].ino = inode[s].ino
           /\ inode'[s].pipe = inode[s].pipe /\ inode'[s].count = inode[s].count
           /\ inode'[s].links = inode[s].links /\ inode'[s].lock = inode[s].lock
  BY <1>2 DEF Trimmed
<1>8. Fit(q, inode', super', entry')
  <2>1. r[t].file \in Slot \cup {None}
    BY <1>4 DEF Sound, Shaped, Shape
  <2>2. r[t].file # None => Filled(inode'[r[t].file])
    BY <1>4, <1>7, <2>1 DEF Fit, Filled
  <2> QED
    BY <1>5, <2>2
<1>9. MovesTo(t, q)
  BY <1>4, <1>5, <1>6 DEF MovesTo
<1>10. \A s \in Slot : Share(q, s) = Share(r[t], s)
  <2>1. r[t].refs \in Int
    BY <1>4 DEF Sound, Shaped, Shape
  <2> QED
    BY <1>4, <1>5, <2>1, InodeAssumption DEF Share, One
<1>11. \A s \in Slot : Counted(t, q, s) /\ HasItsInode(t, q, s)
  BY <1>1, <1>4, <1>5, <1>7, <1>10 DEF Counted, HasItsInode
<1>12. \A s \in Slot \ V : Still(t, q, s)
  BY <1>2, <1>4 DEF Still
<1>13. \A j \in Ino : disk'[j] = disk[j] \/ \E s \in V : inode[s].ino = j /\ ~Reading(s)
  OBVIOUS
<1>14. \A s \in V : WellChanged(s)
  <2>1. SlotAt(v) /\ inode'[v].dirt
    BY <1>2 DEF InodeInv, SlotInv
  <2>2. WellChanged(v)
    BY <1>1, <1>4, <1>7, <2>1 DEF SlotAt, WellChanged
  <2> QED
    BY <2>2
<1>15. \A u \in Task \ {t}, s \in V : Undisturbed(r[u], s)
  BY <1>4, <1>7, UserDisturbsNobody
<1>16. V \in SUBSET Slot /\ UNCHANGED <<imap, super, entry>>
  OBVIOUS
<1> HIDE DEF V
<1> QED
  BY <1>3, <1>8, <1>9, <1>11, <1>12, <1>13, <1>14, <1>15, <1>16, EntriesStep

LEMMA ZeroedIs ==
  /\ Zeroed \in Entry /\ Zeroed.ino = NoIno /\ Zeroed.count = 0 /\ ~Zeroed.lock
  /\ ~Zeroed.dirt /\ Zeroed.links = 0 /\ ~Zeroed.mount /\ ~Zeroed.pipe
<1>1. NoZones \in [0 .. 2 -> Number]
  BY DEF NoZones, Number
<1>2. /\ Zeroed.ino = NoIno /\ Zeroed.count = 0 /\ ~Zeroed.lock
      /\ ~Zeroed.dirt /\ Zeroed.links = 0 /\ ~Zeroed.mount /\ ~Zeroed.pipe
  BY DEF Zeroed
<1>3. Zeroed \in Entry
  BY <1>1 DEF Zeroed, Entry
<1> QED
  BY <1>2, <1>3

\* The number of no inode is none that the disks have.
LEMMA NoInoIsNone == NoIno \notin Ino
<1>1. ASSUME NoIno \in Ino PROVE FALSE
  <2>1. NoIno \in (Nat \ {0}) \X (Nat \ {0})
    BY <1>1, InodeAssumption
  <2>2. NoIno[1] \in Nat \ {0} /\ NoIno[1] = 0
    BY <2>1 DEF NoIno
  <2> QED
    BY <2>2
<1> QED
  BY <1>1

\* The last one who uses an entry uses no mount point.
LEMMA AloneNoMount ==
  ASSUME InodeInv, NEW v \in Slot, Mounts(v) = {}
  PROVE  ~inode[v].mount
<1> SUFFICES ASSUME inode[v].mount PROVE FALSE
  OBVIOUS
<1>1. PICK d \in Device : super[d].imount = v
  BY DEF InodeInv, SlotInv, SlotAt
<1>2. d \in DOMAIN super
  BY DEF InodeInv, TypeInv
<1>3. PICK u \in Task : Unmounting(r[u]) /\ r[u].dev = d
  BY <1>1, <1>2 DEF Mounts
<1>4. super[r[u].dev].imount = r[u].s /\ ~inode[r[u].s].mount
  BY <1>3 DEF InodeInv, FitInv, Fit
<1> QED
  BY <1>1, <1>3, <1>4

\* free_inode: nobody knows the inode any more.
LEMMA InodeFreed ==
  ASSUME InodeInv, NEW t \in Task, r[t].pc = "truncate", NEW v \in Slot, v = r[t].s,
         r[t].ret # << >>, NEW p, Giving(t, p), NEW q, q = Return(p),
         r' = [r EXCEPT ![t] = q], inode' = [inode EXCEPT ![v] = Zeroed],
         imap' = imap \ {inode[v].ino},
         zmap' \subseteq Zone, UNCHANGED <<disk, ind, super, entry>>
  PROVE  InodeInv'
<1> DEFINE V == {v}
           i == inode[v].ino
<1>1. /\ inode \in [Slot -> Entry] /\ \A s \in Slot : inode[s].count \in Int
  BY DEF InodeInv, TypeInv, Entry
<1>2. inode'[v] = Zeroed /\ \A s \in Slot \ {v} : inode'[s] = inode[s]
  BY <1>1
<1>3. TypeInv'
  <2>1. inode' \in [Slot -> Entry]
    BY <1>1, ZeroedIs
  <2> QED
    BY <2>1 DEF InodeInv, TypeInv
<1>4. /\ Refers(r[t], v) /\ i # NoIno /\ i \in Ino
      /\ inode[v].count = 1 /\ inode[v].links = 0 /\ ~inode[v].lock
      /\ \A s \in Slot : Cuts(r[t], s) => s = v
      /\ Putting(r[t]) /\ r[t].s = v
  BY CuttingIs
<1>5. /\ Fit(r[t], inode, super, entry) /\ r[t].file \in Slot \cup {None}
      /\ \A s \in Slot :
           /\ Rest(t, s) \in Int
           /\ Share(r[t], s) = Rest(t, s) + One(s = v)
           /\ ~Reads(r[t], s)
  BY GivingIs
<1>6. /\ Sound(q) /\ (Unmounting(q) <=> Unmounting(r[t]))
      /\ (Unmounting(q) => q.dev = r[t].dev) /\ q.pc \in {"user", "put_super"}
      /\ \A s \in Slot :
           /\ Share(q, s) = Rest(t, s)
           /\ ~Reads(q, s) /\ ~Locks(q, s) /\ ~Cuts(q, s)
      /\ \A tb :
           /\ \A s \in Slot : tb[s].mount = inode[s].mount
           /\ r[t].file # None => Filled(tb[r[t].file])
           => Fit(q, tb, super, entry)
  BY GivenBack
<1>7. /\ \A u \in Task \ {t} : ~Refers(r[u], v)
      /\ Mounts(v) = {} /\ r[t].file # v
  BY <1>4, AloneUser
<1>8. ~inode[v].mount
  BY <1>7, AloneNoMount
<1>9. \A s \in Slot : inode'[s].mount = inode[s].mount
  <2>1. inode[v].mount \in BOOLEAN /\ Zeroed.mount \in BOOLEAN
    BY <1>1, ZeroedIs DEF Entry
  <2>2. inode'[v].mount = inode[v].mount
    BY <1>2, <1>8, <2>1, ZeroedIs
  <2> QED
    BY <1>2, <2>2
<1>10. Fit(q, inode', super', entry')
  <2>1. r[t].file # None => Filled(inode'[r[t].file])
    BY <1>2, <1>5, <1>7 DEF Fit
  <2> QED
    BY <1>6, <1>9, <2>1
<1>11. SlotAt(v) /\ ~Reading(v)
  BY <1>4, WritersDoNotRead DEF InodeInv, SlotInv
<1>12. entry[i] = 0 /\ i \notin Roots
  <2>1. Linked(i, 0)
    BY <1>4, <1>11 DEF SlotAt
  <2>2. entry[i] \in Nat
    BY <1>4 DEF InodeInv, TypeInv
  <2> QED
    BY <2>1, <2>2 DEF Linked
<1>13. /\ r' = [r EXCEPT ![t] = q]
       /\ \A s : Reading(s)' <=> Reads(q, s) \/ \E u \in Task \ {t} : Reads(r[u], s)
       /\ \A s : Reading(s) <=> Reads(r[t], s) \/ \E u \in Task \ {t} : Reads(r[u], s)
  BY OneTaskMoves DEF InodeInv
<1>14. ASSUME NEW j \in Ino PROVE Kept(j) \/ InoAt(j)'
  <2>1. CASE j = i
    BY <1>12, <2>1 DEF InoAt
  <2>2. CASE j # i
    <3>1. Same(j)
      BY <2>2 DEF Same
    <3>2. \A s \in Slot : inode'[s].ino = j <=> inode[s].ino = j
      BY <1>2, <2>2, ZeroedIs, NoInoIsNone
    <3>3. \A s \in Slot : Reading(s)' => Reading(s)
      BY <1>6, <1>13
    <3> QED
      BY <3>1, <3>2, <3>3 DEF Kept
  <2> QED
    BY <2>1, <2>2
<1>15. OneEntryPerInode'
  BY <1>2, ZeroedIs DEF InodeInv, OneEntryPerInode
<1>16. \A s \in Slot \ V : Passive(t, q, s)
  <2> TAKE s \in Slot \ V
  <2>1. s # v /\ inode[s].ino # NoIno => inode[s].ino # i
    BY <1>4 DEF InodeInv, OneEntryPerInode
  <2> QED
    BY <1>2, <1>4, <1>5, <1>6, <2>1 DEF Passive, Same
<1>17. \A s \in V : SlotAt(s)'
  <2>1. SlotAt(v)'
    BY <1>2, ZeroedIs DEF SlotAt
  <2> QED
    BY <2>1
<1>18. \A u \in Task \ {t} : Spared(u, V)
  <2> TAKE u \in Task \ {t}
  <2>1. ~Refers(r[u], v) /\ ~Locks(r[u], v) /\ ~Frozen(r[u], v)
    BY <1>4, <1>7, NobodyLocks, NotFrozen
  <2>2. Undisturbed(r[u], v)
    BY <2>1 DEF Undisturbed, Refers, Frozen
  <2> QED
    BY <2>2 DEF Spared
<1>19. \A s \in Slot : Counted(t, q, s)
  <2>1. ASSUME NEW s \in Slot
        PROVE  inode'[s].count = inode[s].count - Share(r[t], s) + Share(q, s)
    BY <1>1, <1>2, <1>4, <1>5, <1>6, ZeroedIs DEF One
  <2> QED
    BY <1>6, <1>9, <2>1 DEF Counted
<1>20. MovesTo(t, q) /\ super' = super /\ V \in SUBSET Slot
  BY <1>6 DEF MovesTo
<1> HIDE DEF V, i
<1> QED
  BY <1>3, <1>10, <1>14, <1>15, <1>16, <1>17, <1>18, <1>19, <1>20, InodesStep

\* The loop of truncate goes on with the registers p and the entry new.
LEMMA AdvanceKeeps ==
  ASSUME InodeInv, NEW t \in Task, r[t].pc = "truncate", NEW v \in Slot, v = r[t].s,
         NEW p, StillCutting(t, p),
         NEW new, Trimmed(inode[v], new), new.dirt = inode[v].dirt,
         zmap' \subseteq Zone, UNCHANGED <<disk, ind, super, entry>>,
         Advance(t, p, [inode EXCEPT ![v] = new])
  PROVE  InodeInv'
<1> DEFINE tab == [inode EXCEPT ![v] = new]
           cells == {j \in p.k .. 2 : tab[p.s].zone[j] # 0}
           k == Min(cells)
           back == Return(p)
           done == [tab EXCEPT ![p.s] = Truncated(@)]
<1>1. /\ inode \in [Slot -> Entry] /\ new \in Entry /\ inode[v] \in Entry
      /\ p.s = v /\ tab[v] = new /\ p.k \in 0 .. 3
  BY DEF InodeInv, TypeInv, Trimmed, StillCutting, Shape
<1>2. \/ cells # {} /\ inode' = tab /\ UNCHANGED imap
         /\ Set(t, [p EXCEPT !.k = k + 1, !.todo = <<<<tab[p.s].zone[k], k>>>>])
      \/ cells = {} /\ back.pc = "free_inode" /\ FreeInode(t, back, done)
      \/ cells = {} /\ back.pc # "free_inode" /\ inode' = done /\ Set(t, back) /\ UNCHANGED imap
  BY DEF Advance
<1>3. CASE cells # {}
  <2> DEFINE z == new.zone[k]
             one == <<<<z, k>>>>
             o == [p EXCEPT !.k = k + 1]
             q == [o EXCEPT !.todo = one]
  <2>1. k \in cells
    <3>1. cells \in SUBSET Nat
      BY <1>1
    <3> HIDE DEF cells
    <3> QED
      BY <1>3, <3>1, MinIsLeast
  <2>2. k \in 0 .. 2 /\ k + 1 \in 0 .. 3 /\ z # 0
    <3>1. k \in p.k .. 2 /\ tab[p.s].zone[k] # 0
      BY <2>1
    <3> HIDE DEF k, tab, cells
    <3> QED
      BY <1>1, <3>1
  <2>3. z \in Zone
    BY <1>1, <2>2 DEF Entry, Number
  <2>4. one \in Seq(Zone \X (0 .. 2))
    <3> DEFINE pair == <<z, k>>
    <3>1. pair \in Zone \X (0 .. 2)
      BY <2>2, <2>3
    <3>2. one = <<pair>>
      OBVIOUS
    <3> HIDE DEF pair, one
    <3> QED
      BY <3>1, <3>2
  <2>5. inode' = [inode EXCEPT ![v] = new] /\ r' = [r EXCEPT ![t] = q] /\ UNCHANGED imap
    <3>1. q = [p EXCEPT !.k = k + 1, !.todo = <<<<tab[p.s].zone[k], k>>>>]
      BY <1>1
    <3> HIDE DEF q
    <3> QED
      BY <1>2, <1>3, <3>1 DEF Set
  <2>6. StillCutting(t, q)
    <3> HIDE DEF one, k, cells
    <3>1. o \in Shape(r[t].ret) /\ p \in Shape(r[t].ret)
      BY <2>2, ShapeKept DEF StillCutting
    <3>2. /\ o.pc = p.pc /\ o.ret = p.ret /\ o.s = p.s /\ o.empty = p.empty /\ o.ino = p.ino
          /\ o.file = p.file /\ o.refs = p.refs /\ o.dev = p.dev
      BY <3>1 DEF Shape
    <3> HIDE DEF o
    <3>3. q \in Shape(r[t].ret)
      BY <2>4, <3>1, ShapeKept
    <3>4. /\ q.pc = o.pc /\ q.ret = o.ret /\ q.s = o.s /\ q.empty = o.empty /\ q.ino = o.ino
          /\ q.file = o.file /\ q.refs = o.refs /\ q.dev = o.dev
      BY <3>1 DEF Shape
    <3> QED
      BY <3>2, <3>3, <3>4 DEF StillCutting
  <2> HIDE DEF q
  <2> QED
    BY <2>5, <2>6, CutStep
<1>4. /\ Truncated(new) \in Entry /\ Truncated(new).count = new.count
      /\ Truncated(new).ino = new.ino /\ Truncated(new).links = new.links
      /\ Truncated(new).mount = new.mount /\ Truncated(new).pipe = new.pipe
      /\ Truncated(new).lock = new.lock /\ Truncated(new).dirt
  BY <1>1, TruncatedIs
<1>5. Trimmed(inode[v], Truncated(new))
  BY <1>4 DEF Trimmed
<1>6. done = [inode EXCEPT ![v] = Truncated(new)] /\ done[v] = Truncated(new)
  BY <1>1
<1>7. CASE cells = {} /\ r[t].ret = << >>
  <2>1. back = Leave(r[t]) /\ back.pc # "free_inode"
    BY <1>7 DEF Return, Leave, Registers, StillCutting
  <2>2. inode' = done /\ r' = [r EXCEPT ![t] = back] /\ UNCHANGED imap
    BY <1>2, <1>7, <2>1 DEF Set
  <2> HIDE DEF done, back
  <2> QED
    BY <1>4, <1>5, <1>6, <1>7, <2>1, <2>2, CutEnds
<1>8. CASE cells = {} /\ r[t].ret # << >>
  <2> DEFINE a == r[t].ret
             rest == Tail(a)
             q == Return(back)
  <2>1. /\ Putting(r[t]) /\ r[t].empty = None
        /\ inode[v].count = 1 /\ inode[v].links = 0
        /\ \/ a = <<"free_inode">> /\ ~Unmounting(r[t])
           \/ a = <<"free_inode", "put_super">> /\ Unmounting(r[t])
    BY <1>8, CuttingIs
  <2>2. /\ Head(a) = "free_inode" /\ rest \in {<< >>, <<"put_super">>}
        /\ (rest = <<"put_super">> <=> Unmounting(r[t]))
    BY <2>1, ShortStacks, StacksDiffer
  <2>3. /\ back \in Shape(rest) /\ back.pc = "free_inode" /\ back.ret = rest
        /\ back.s = p.s /\ back.empty = p.empty /\ back.ino = p.ino /\ back.file = p.file
        /\ back.refs = p.refs /\ back.dev = p.dev
    <3>1. p \in Shape(a) /\ Tail(a) = rest /\ a # << >>
      BY <1>8 DEF StillCutting
    <3> DEFINE label == "free_inode"
    <3>2. label \in Places \cup {"repeat", "synced", "free_inode"} /\ Head(a) = label
      BY <2>2
    <3> HIDE DEF a, rest, label
    <3>3. /\ back \in Shape(rest) /\ back.pc = label /\ back.ret = rest
          /\ back.s = p.s /\ back.empty = p.empty /\ back.ino = p.ino /\ back.file = p.file
          /\ back.refs = p.refs /\ back.dev = p.dev
      BY <3>1, <3>2, ReturnIs
    <3> QED
      BY <3>3 DEF label
  <2> HIDE DEF back
  <2>4. Giving(t, back)
    BY <1>1, <2>1, <2>2, <2>3 DEF Giving, StillCutting
  <2>5. FreeInode(t, back, done)
    BY <1>2, <1>8, <2>3
  <2> HIDE DEF done
  <2>6. back.s = v /\ done[v].count = 1 /\ done[v].links = 0 /\ done[v].ino = inode[v].ino
    BY <1>1, <1>5, <1>6, <2>1, <2>3 DEF Trimmed
  <2>7. /\ imap' = imap \ {inode[v].ino}
        /\ inode' = [done EXCEPT ![v] = Zeroed] /\ r' = [r EXCEPT ![t] = q]
    BY <2>5, <2>6 DEF FreeInode, Set
  <2>8. [done EXCEPT ![v] = Zeroed] = [inode EXCEPT ![v] = Zeroed]
    BY <1>1, <1>6
  <2>9. /\ inode' = [inode EXCEPT ![v] = Zeroed] /\ q = Return(back)
        /\ r' = [r EXCEPT ![t] = q] /\ r[t].ret # << >>
        /\ imap' = imap \ {inode[v].ino}
    BY <1>8, <2>7, <2>8
  <2> HIDE DEF q, tab, cells, k
  <2> QED
    BY <2>4, <2>9, InodeFreed
<1> QED
  BY <1>3, <1>7, <1>8

\* What truncate has still to do, in the registers o.
LEMMA TodoIs ==
  ASSUME NEW a, NEW o \in Shape(a), o.todo # << >>
  PROVE  /\ Head(o.todo)[1] \in Zone /\ Head(o.todo)[2] \in 0 .. 2
         /\ Tail(o.todo) \in Seq(Zone \X (0 .. 2))
<1> DEFINE P == Zone \X (0 .. 2)
<1>1. o.todo \in Seq(P)
  BY DEF Shape
<1> HIDE DEF P
<1>2. Head(o.todo) \in P /\ Tail(o.todo) \in Seq(P)
  BY <1>1
<1> QED
  BY <1>2 DEF P

LEMMA Keeps_truncate ==
  ASSUME InodeInv, NEW t \in Task, truncate(t)
  PROVE  InodeInv'
<1>r. PICK read \in BOOLEAN :
        LET z == Head(r[t].todo)[1]
            deep == Head(r[t].todo)[2]
        IN r[t].todo # << >> /\ deep > 0
             => r' = [r EXCEPT ![t] =
                        [r[t] EXCEPT !.todo = Below(z, deep, read) \o <<<<z, 0>>>>
                                                \o Tail(r[t].todo),
                                     !.hold = IF read THEN @ \cup {z} ELSE @]]
  BY DEF truncate, Set
<1> DEFINE o == r[t]
           z == Head(o.todo)[1]
           deep == Head(o.todo)[2]
           left == Tail(o.todo)
           below == Below(z, deep, read)
           more == below \o <<<<z, 0>>>> \o left
           q == [o EXCEPT !.todo = more, !.hold = IF read THEN @ \cup {z} ELSE @]
           p == [o EXCEPT !.todo = left, !.hold = @ \ {z}]
           tab == IF o.k = 1 THEN [inode EXCEPT ![o.s].zone[0] = 0] ELSE inode
<1>1. r[t].pc = "truncate" /\ UNCHANGED <<disk, ind, super, entry>>
  BY DEF truncate, At
<1>2. PICK v \in Slot : v = r[t].s
  BY <1>1, CuttingIs
<1>3. StillCutting(t, r[t]) /\ o \in Shape(r[t].ret)
  BY <1>1, CuttingIs DEF StillCutting
<1>4. /\ inode \in [Slot -> Entry] /\ inode[v] \in Entry /\ zmap \subseteq Zone
      /\ ind \in [Zone -> Number]
  BY DEF InodeInv, TypeInv
<1>5. Trimmed(inode[v], inode[v]) /\ [inode EXCEPT ![v] = inode[v]] = inode
  BY <1>4 DEF Trimmed
<1>6. \/ o.todo = << >> /\ Advance(t, r[t], inode) /\ UNCHANGED zmap
      \/ /\ o.todo # << >> /\ deep > 0 /\ UNCHANGED <<inode, imap, zmap>>
         /\ r' = [r EXCEPT ![t] = q]
      \/ o.todo # << >> /\ UNCHANGED <<imap, zmap, inode, r>>
      \/ /\ o.todo # << >> /\ zmap' = Freed(t, z) /\ left = << >>
         /\ Advance(t, p, tab)
      \/ /\ o.todo # << >> /\ zmap' = Freed(t, z) /\ UNCHANGED <<inode, imap>>
         /\ r' = [r EXCEPT ![t] = p]
  BY <1>r DEF truncate, Set, Panic
<1>7. CASE o.todo = << >> /\ Advance(t, r[t], inode) /\ UNCHANGED zmap
  <2>1. Advance(t, r[t], [inode EXCEPT ![v] = inode[v]]) /\ zmap' \subseteq Zone
    BY <1>4, <1>5, <1>7
  <2> QED
    BY <1>1, <1>2, <1>3, <1>5, <2>1, AdvanceKeeps
<1>8. CASE /\ o.todo # << >> /\ deep > 0 /\ UNCHANGED <<inode, imap, zmap>>
           /\ r' = [r EXCEPT ![t] = q]
  <2>1. z \in Zone /\ deep \in 0 .. 2 /\ deep - 1 \in 0 .. 2 /\ left \in Seq(Zone \X (0 .. 2))
    <3>1. z \in Zone /\ deep \in 0 .. 2 /\ left \in Seq(Zone \X (0 .. 2))
      BY <1>3, <1>8, TodoIs
    <3> HIDE DEF deep
    <3> QED
      BY <1>8, <3>1
  <2>2. more \in Seq(Zone \X (0 .. 2))
    <3> DEFINE P == Zone \X (0 .. 2)
               first == <<z, 0>>
               pair == <<ind[z], deep - 1>>
    <3>1. first \in P /\ left \in Seq(P)
      BY <2>1
    <3>2. ind[z] # 0 => pair \in P
      BY <1>4, <2>1 DEF Number
    <3>3. below = << >> \/ (ind[z] # 0 /\ below = <<pair>>)
      BY DEF Below
    <3>4. more = below \o <<first>> \o left
      OBVIOUS
    <3> HIDE DEF P, first, pair, below, left, more
    <3>5. below \in Seq(P)
      <4>1. CASE below = << >>
        BY <4>1
      <4>2. CASE ind[z] # 0 /\ below = <<pair>>
        <5>1. pair \in P
          BY <3>2, <4>2
        <5> QED
          BY <4>2, <5>1
      <4> QED
        BY <3>3, <4>1, <4>2
    <3>6. more \in Seq(P)
      BY <3>1, <3>4, <3>5
    <3> QED
      BY <3>6 DEF P
  <2>3. StillCutting(t, q)
    <3> DEFINE hold == IF read THEN o.hold \cup {z} ELSE o.hold
               m == [o EXCEPT !.todo = more]
    <3>1. q = [m EXCEPT !.hold = hold] /\ hold \in SUBSET Zone
      BY <1>3, <2>1 DEF Shape
    <3> HIDE DEF more, hold, o
    <3>2. m \in Shape(r[t].ret)
      BY <1>3, <2>2, ShapeKept
    <3>3. /\ m.pc = o.pc /\ m.ret = o.ret /\ m.s = o.s /\ m.empty = o.empty /\ m.ino = o.ino
          /\ m.file = o.file /\ m.refs = o.refs /\ m.dev = o.dev
      BY <1>3 DEF Shape
    <3> HIDE DEF m, q
    <3>4. q \in Shape(r[t].ret)
      BY <3>1, <3>2, ShapeKept
    <3>5. /\ q.pc = m.pc /\ q.ret = m.ret /\ q.s = m.s /\ q.empty = m.empty /\ q.ino = m.ino
          /\ q.file = m.file /\ q.refs = m.refs /\ q.dev = m.dev
      BY <3>1, <3>2 DEF Shape
    <3> QED
      BY <1>3, <3>3, <3>4, <3>5 DEF StillCutting, o
  <2>4. inode' = [inode EXCEPT ![v] = inode[v]] /\ zmap' \subseteq Zone /\ imap' = imap
        /\ r' = [r EXCEPT ![t] = q]
    BY <1>4, <1>5, <1>8
  <2> HIDE DEF q
  <2> QED
    BY <1>1, <1>2, <1>5, <2>3, <2>4, CutStep
<1>9. CASE o.todo # << >> /\ UNCHANGED <<imap, zmap, inode, r>>
  BY <1>1, <1>9, NothingChanges
<1>10. ASSUME o.todo # << >>, zmap' = Freed(t, z)
       PROVE  StillCutting(t, p) /\ zmap' \subseteq Zone
  <2>1. z \in Zone /\ left \in Seq(Zone \X (0 .. 2))
    BY <1>3, <1>10, TodoIs
  <2>2. StillCutting(t, p)
    <3> DEFINE hold == o.hold \ {z}
               m == [o EXCEPT !.todo = left]
    <3>1. p = [m EXCEPT !.hold = hold] /\ hold \in SUBSET Zone
      BY <1>3, <2>1 DEF Shape
    <3> HIDE DEF left, hold, o
    <3>2. m \in Shape(r[t].ret)
      BY <1>3, <2>1, ShapeKept
    <3>3. /\ m.pc = o.pc /\ m.ret = o.ret /\ m.s = o.s /\ m.empty = o.empty /\ m.ino = o.ino
          /\ m.file = o.file /\ m.refs = o.refs /\ m.dev = o.dev
      BY <1>3 DEF Shape
    <3> HIDE DEF m, p
    <3>4. p \in Shape(r[t].ret)
      BY <3>1, <3>2, ShapeKept
    <3>5. /\ p.pc = m.pc /\ p.ret = m.ret /\ p.s = m.s /\ p.empty = m.empty /\ p.ino = m.ino
          /\ p.file = m.file /\ p.refs = m.refs /\ p.dev = m.dev
      BY <3>1, <3>2 DEF Shape
    <3> QED
      BY <1>3, <3>3, <3>4, <3>5 DEF StillCutting, o
  <2> QED
    BY <1>4, <1>10, <2>2 DEF Freed
<1>11. CASE /\ o.todo # << >> /\ zmap' = Freed(t, z) /\ left = << >>
            /\ Advance(t, p, tab)
  <2> DEFINE new == IF o.k = 1 THEN Cleared(inode[v]) ELSE inode[v]
  <2>1. tab = [inode EXCEPT ![v] = new]
    BY <1>2, <1>5 DEF Cleared
  <2>2. Trimmed(inode[v], new) /\ new.dirt = inode[v].dirt
    BY <1>4, <1>5, ClearedIs DEF Trimmed
  <2>3. StillCutting(t, p) /\ zmap' \subseteq Zone /\ Advance(t, p, [inode EXCEPT ![v] = new])
    BY <1>10, <1>11, <2>1
  <2> HIDE DEF p, new
  <2> QED
    BY <1>1, <1>2, <2>2, <2>3, AdvanceKeeps
<1>12. CASE /\ o.todo # << >> /\ zmap' = Freed(t, z) /\ UNCHANGED <<inode, imap>>
            /\ r' = [r EXCEPT ![t] = p]
  <2>1. StillCutting(t, p) /\ zmap' \subseteq Zone
    BY <1>10, <1>12
  <2>2. inode' = [inode EXCEPT ![v] = inode[v]] /\ imap' = imap /\ r' = [r EXCEPT ![t] = p]
    BY <1>5, <1>12
  <2> HIDE DEF p
  <2> QED
    BY <1>1, <1>2, <1>5, <2>1, <2>2, CutStep
<1> QED
  BY <1>6, <1>7, <1>8, <1>9, <1>11, <1>12

-----------------------------------------------------------------------------
(* get_empty_inode and who uses what it returns                            *)

\* Who relies on the count or the links of an entry uses it.
LEMMA FrozenIsUsed ==
  ASSUME InodeInv, NEW u \in Task, NEW v \in Slot, ~Refers(r[u], v)
  PROVE  ~Frozen(r[u], v)
<1>1. Sound(r[u]) /\ (Putting(r[u]) <=> Puts(r[u]))
  BY RegistersAre
<1>2. r[u].pc = "truncate" /\ r[u].ret # << >> => Putting(r[u])
  BY <1>1 DEF Puts
<1> QED
  BY <1>2 DEF Frozen, Refers

\* A step disturbs nobody in an entry that nobody else uses or has locked.
LEMMA StrangersAreUndisturbed ==
  ASSUME InodeInv, NEW u \in Task, NEW v \in Slot, ~Refers(r[u], v), ~inode[v].lock
  PROVE  Undisturbed(r[u], v)
<1>1. ~Locks(r[u], v) /\ ~Frozen(r[u], v)
  BY FrozenIsUsed, NobodyLocks
<1> QED
  BY <1>1 DEF Undisturbed, Refers, Frozen

\* Nobody truncates an entry that nobody counts.
LEMMA CuttersAreCounted ==
  ASSUME InodeInv, NEW v \in Slot, inode[v].count = 0
  PROVE  ~Truncating(v)
<1>1. ASSUME NEW u \in Task, Cuts(r[u], v) PROVE FALSE
  <2>1. Refers(r[u], v) /\ v \in Slot
    BY <1>1, CuttingIs DEF Cuts
  <2>2. inode[v].count >= 1
    BY <2>1, AloneUser
  <2> QED
    BY <2>2
<1> QED
  BY <1>1 DEF Truncating, Cuts

\* An entry that nobody counts, or that has no inode, can be given up: the disk
\* has what it held.
LEMMA EntryEmptied ==
  ASSUME InodeInv, NEW v \in Slot, inode[v].count = 0 \/ inode[v].ino = NoIno,
         NEW new, Becomes(v, new), new.ino = NoIno,
         UNCHANGED <<disk, imap, super, entry>>,
         \A s \in Slot : Reading(s)' => Reading(s)
  PROVE  /\ OneEntryPerInode'
         /\ \A j \in Ino : Kept(j) \/ InoAt(j)'
<1>1. OneEntryPerInode'
  BY DEF InodeInv, OneEntryPerInode, Becomes
<1>2. ASSUME NEW j \in Ino PROVE Kept(j) \/ InoAt(j)'
  <2>1. Same(j) /\ j # NoIno /\ InoAt(j)
    BY NoInoIsNone DEF Same, InodeInv, InoInv
  <2>2. CASE inode[v].ino # j
    <3>1. \A s \in Slot : inode'[s].ino = j <=> inode[s].ino = j
      BY <2>1, <2>2 DEF Becomes
    <3> QED
      BY <2>1, <3>1 DEF Kept
  <2>3. CASE inode[v].ino = j
    <3>1. inode[v].count = 0 /\ SlotAt(v) /\ inode[v].count \in Int
      BY <2>1, <2>3 DEF InodeInv, SlotInv, TypeInv, Entry
    <3>2. ~inode[v].dirt /\ ~inode[v].lock /\ ~Truncating(v)
      BY <3>1, CuttersAreCounted DEF SlotAt
    <3>3. ~Reading(v)
      BY <3>2, WritersDoNotRead, NobodyLocks DEF Reading, Locks
    <3>4. Linked(j, inode[v].links) /\ inode[v].links \in Int /\ entry[j] \in Nat
      BY <2>3, <2>1, <3>1, <3>3 DEF SlotAt, InodeInv, TypeInv, Entry
    <3>5. inode[v].links > 0 => disk[j].links = inode[v].links
      BY <2>1, <2>3, <3>1, <3>2, <3>3 DEF SlotAt
    <3>6. Linked(j, disk[j].links)
      BY <3>4, <3>5 DEF Linked
    <3>7. InoAt(j)'
      BY <2>1, <3>6 DEF InoAt, Linked
    <3> QED
      BY <3>7
  <2> QED
    BY <2>2, <2>3
<1> QED
  BY <1>1, <1>2

\* The entry that get_empty_inode returns.
Fresh == [Zeroed EXCEPT !.count = 1]

LEMMA FreshIs ==
  /\ Fresh \in Entry /\ Fresh.ino = NoIno /\ Fresh.count = 1 /\ ~Fresh.lock
  /\ ~Fresh.dirt /\ Fresh.links = 0 /\ ~Fresh.mount /\ ~Fresh.pipe
<1>2. /\ Fresh.ino = NoIno /\ Fresh.count = 1 /\ ~Fresh.lock
      /\ ~Fresh.dirt /\ Fresh.links = 0 /\ ~Fresh.mount /\ ~Fresh.pipe
  BY DEF Fresh, Zeroed
<1>3. Fresh \in Entry
  BY ZeroedIs DEF Fresh, Entry
<1> QED
  BY <1>2, <1>3

\* A task with an empty inode, and what it is for.
Taken(q, v) ==
  /\ q \in Shape(q.ret) /\ q.pc \in {"iget", "new_inode", "get_pipe_inode"}
  /\ q.ret = << >> \/ (q.pc = "iget" /\ q.ret = <<"sys_mount">> /\ q.dev \in Device)
  /\ q.empty = v /\ q.file = None /\ q.refs = 0 /\ q.s = None
  /\ q.pc = "iget" => q.ino \in Ino
  /\ q.ino # NoIno => entry[q.ino] > 0

LEMMA TakenIs ==
  ASSUME NEW v \in Slot, NEW q, Taken(q, v)
  PROVE  /\ Sound(q) /\ ~Unmounting(q) /\ q.pc # "read_super"
         /\ \A s \in Slot :
              /\ Share(q, s) = One(s = v)
              /\ ~Reads(q, s) /\ ~Locks(q, s) /\ ~Cuts(q, s)
         /\ \A tab, names :
              /\ tab[v].count = 1 /\ ~tab[v].dirt /\ ~tab[v].pipe /\ ~tab[v].mount
              /\ tab[v].ino = NoIno /\ names = entry
              => Fit(q, tab, super, names)
<1>1. q.pc \in Places /\ q.ret \in Returns(q.pc) /\ v # None
  BY InodeAssumption DEF Taken, Places, Taking, Returns
<1>2. ~Putting(q) /\ ~Unmounting(q)
  BY <1>1, PuttingIs DEF Puts, Ends, Taken
<1>3. Sound(q)
  BY <1>1, <1>2, StacksDiffer DEF Sound, Shaped, Taken, Taking, Mapping
<1>4. \A s \in Slot :
              /\ Share(q, s) = One(s = v)
              /\ ~Reads(q, s) /\ ~Locks(q, s) /\ ~Cuts(q, s)
  BY <1>2, InodeAssumption DEF Share, One, Reads, Locks, Cuts, Taken
<1>5. ASSUME NEW tab, NEW names,
             tab[v].count = 1 /\ ~tab[v].dirt /\ ~tab[v].pipe /\ ~tab[v].mount,
             tab[v].ino = NoIno, names = entry
      PROVE  Fit(q, tab, super, names)
  BY <1>1, <1>2, <1>5 DEF Fit, Taken, Mapping
<1> QED
  BY <1>2, <1>3, <1>4, <1>5 DEF Taken

LEMMA TakeKeeps ==
  ASSUME InodeInv, NEW t \in Task, r[t].pc = "user", r[t].file = None,
         NEW v \in Slot, inode[v].count = 0, inode' = [inode EXCEPT ![v] = Fresh],
         NEW q, Taken(q, v), r' = [r EXCEPT ![t] = q], UNCHANGED fs
  PROVE  InodeInv'
<1> DEFINE V == {v}
<1>1. /\ inode \in [Slot -> Entry] /\ \A s \in Slot : inode[s].count \in Int
      /\ UNCHANGED <<disk, imap, zmap, ind, super, entry>>
  BY DEF InodeInv, TypeInv, Entry, fs
<1>2. inode'[v] = Fresh /\ \A s \in Slot \ {v} : inode'[s] = inode[s]
  BY <1>1
<1>3. TypeInv'
  <2>1. inode' \in [Slot -> Entry]
    BY <1>1, FreshIs
  <2> QED
    BY <1>1, <2>1 DEF InodeInv, TypeInv
<1>4. /\ r[t].empty = None /\ ~Putting(r[t]) /\ ~Unmounting(r[t])
      /\ r[t].refs = 0
      /\ \A s : ~Reads(r[t], s) /\ ~Cuts(r[t], s) /\ ~Locks(r[t], s)
  BY UserRegisters
<1>5. /\ Sound(q) /\ ~Unmounting(q) /\ q.pc # "read_super"
      /\ \A s \in Slot :
           /\ Share(q, s) = One(s = v)
           /\ ~Reads(q, s) /\ ~Locks(q, s) /\ ~Cuts(q, s)
      /\ \A tab, names :
           /\ tab[v].count = 1 /\ ~tab[v].dirt /\ ~tab[v].pipe /\ ~tab[v].mount
           /\ tab[v].ino = NoIno /\ names = entry
           => Fit(q, tab, super, names)
  BY TakenIs
<1>6. \A s \in Slot : Share(r[t], s) = 0
  BY <1>4, InodeAssumption DEF Share, One
<1>7. Mounts(v) = {} /\ ~inode[v].mount
  BY AloneUser, AloneNoMount
<1>8. ~inode[v].lock
  <2>1. SlotAt(v)
    BY DEF InodeInv, SlotInv
  <2> QED
    BY <2>1 DEF SlotAt
<1>9. Fit(q, inode', super', entry')
  BY <1>1, <1>2, <1>5, FreshIs
<1>10. \A s \in Slot : inode'[s].mount = inode[s].mount
  <2>1. inode[v].mount \in BOOLEAN /\ Fresh.mount \in BOOLEAN
    BY <1>1, FreshIs DEF Entry
  <2>2. inode'[v].mount = inode[v].mount
    BY <1>2, <1>7, <2>1, FreshIs
  <2> QED
    BY <1>2, <2>2
<1>11. \A s \in Slot : Counted(t, q, s)
  <2>1. ASSUME NEW s \in Slot
        PROVE  inode'[s].count = inode[s].count - Share(r[t], s) + Share(q, s)
    BY <1>1, <1>2, <1>5, <1>6, FreshIs DEF One
  <2> QED
    BY <1>5, <1>10, <2>1 DEF Counted
<1>12. \A s \in Slot \ V : Passive(t, q, s)
  BY <1>1, <1>2, <1>4, <1>5 DEF Passive, Same
<1>13. \A s \in Slot : Reading(s)' => Reading(s)
  <2>1. /\ \A s : Reading(s)' <=> Reads(q, s) \/ \E u \in Task \ {t} : Reads(r[u], s)
        /\ \A s : Reading(s) <=> Reads(r[t], s) \/ \E u \in Task \ {t} : Reads(r[u], s)
    BY OneTaskMoves DEF InodeInv
  <2> QED
    BY <1>5, <2>1
<1>14. OneEntryPerInode' /\ \A j \in Ino : Kept(j) \/ InoAt(j)'
  <2>1. Becomes(v, Fresh)
    BY <1>2 DEF Becomes
  <2> QED
    BY <1>1, <1>13, <2>1, FreshIs, EntryEmptied
<1>15. \A s \in V : SlotAt(s)'
  <2>1. SlotAt(v)'
    BY <1>2, FreshIs DEF SlotAt
  <2> QED
    BY <2>1
<1>16. \A u \in Task \ {t} : Spared(u, V)
  <2> TAKE u \in Task \ {t}
  <2>1. ~Refers(r[u], v)
    BY AloneUser
  <2> QED
    BY <1>1, <1>8, <2>1, StrangersAreUndisturbed DEF Spared
<1>17. MovesTo(t, q) /\ super' = super /\ V \in SUBSET Slot
  BY <1>1, <1>4, <1>5 DEF MovesTo
<1> HIDE DEF V
<1> QED
  BY <1>3, <1>9, <1>11, <1>12, <1>14, <1>15, <1>16, <1>17, InodesStep

LEMMA ReturnGoesBack ==
  ASSUME NEW a, NEW p \in Shape(a), a # << >>,
         Head(a) \in Places \cup {"repeat", "synced", "free_inode"}
  PROVE  LET q == Return(p)
         IN /\ q \in Shape(Tail(a)) /\ q.pc = Head(a) /\ q.ret = Tail(a)
            /\ q.s = p.s /\ q.empty = p.empty /\ q.ino = p.ino /\ q.file = p.file
            /\ q.refs = p.refs /\ q.dev = p.dev
<1> DEFINE label == Head(a)
           back == Tail(a)
           q == Return(p)
<1>1. /\ Head(a) = label /\ Tail(a) = back
      /\ label \in Places \cup {"repeat", "synced", "free_inode"}
  OBVIOUS
<1> HIDE DEF label, back, q
<1>2. /\ q \in Shape(back) /\ q.pc = label /\ q.ret = back
      /\ q.s = p.s /\ q.empty = p.empty /\ q.ino = p.ino /\ q.file = p.file
      /\ q.refs = p.refs /\ q.dev = p.dev
  BY <1>1, ReturnIs DEF q
<1> QED
  BY <1>1, <1>2 DEF q

\* get_empty_inode at the start of a system call, with the registers p.
LEMMA GetEmptyKeeps ==
  ASSUME InodeInv, NEW t \in Task, r[t].pc = "user", r[t].file = None,
         NEW p, NEW a, a # << >>, p \in Shape(a), p.file = None, p.refs = 0, p.s = None,
         Head(a) \in {"iget", "new_inode", "get_pipe_inode"},
         Tail(a) = << >>
           \/ (Head(a) = "iget" /\ Tail(a) = <<"sys_mount">> /\ p.dev \in Device),
         Head(a) = "iget" => p.ino \in Ino,
         p.ino # NoIno => entry[p.ino] > 0,
         GetEmpty(t, p), UNCHANGED fs
  PROVE  InodeInv'
<1>1. CASE UNCHANGED <<inode, r>>
  BY <1>1, NothingChanges DEF fs
<1>2. CASE \E s \in Slot : inode[s].count = 0 /\ Take(t, p, s)
  <2>1. PICK v \in Slot : inode[v].count = 0 /\ Take(t, p, v)
    BY <1>2
  <2> DEFINE m == Return(p)
             q == [m EXCEPT !.empty = v]
  <2>2. inode' = [inode EXCEPT ![v] = Fresh] /\ r' = [r EXCEPT ![t] = q]
    BY <2>1 DEF Take, Put, Set, Fresh
  <2>3. /\ m \in Shape(Tail(a)) /\ m.pc = Head(a) /\ m.ret = Tail(a)
        /\ m.s = p.s /\ m.empty = p.empty /\ m.ino = p.ino /\ m.file = p.file
        /\ m.refs = p.refs /\ m.dev = p.dev
    <3>1. Head(a) \in Places \cup {"repeat", "synced", "free_inode"}
      BY DEF Places, Taking
    <3> QED
      BY <3>1, ReturnGoesBack
  <2> HIDE DEF m
  <2>4. q \in Shape(Tail(a))
    BY <2>3, ShapeKept
  <2>5. /\ q.empty = v /\ q.pc = m.pc /\ q.ret = m.ret /\ q.s = m.s /\ q.ino = m.ino
        /\ q.file = m.file /\ q.refs = m.refs /\ q.dev = m.dev
    BY <2>3 DEF Shape
  <2> HIDE DEF q
  <2>6. Taken(q, v)
    BY <2>3, <2>4, <2>5 DEF Taken
  <2> QED
    BY <2>1, <2>2, <2>6, TakeKeeps
<1> QED
  BY <1>1, <1>2 DEF GetEmpty, Panic

\* The registers with which a task calls get_empty_inode.
Starting(i, d, a) == [Registers EXCEPT !.ino = i, !.dev = d, !.ret = a]

LEMMA StartsWith ==
  ASSUME NEW a, NEW i \in Ino \cup {NoIno}, NEW d \in Device \cup {0}
  PROVE  LET p == Starting(i, d, a)
         IN /\ p \in Shape(a) /\ p.file = None /\ p.refs = 0 /\ p.s = None
            /\ p.ino = i /\ p.dev = d /\ p.ret = a
<1> DEFINE p1 == [Registers EXCEPT !.ino = i]
           p2 == [p1 EXCEPT !.dev = d]
           p3 == [p2 EXCEPT !.ret = a]
<1>1. p1 \in Shape(<< >>)
  BY RegistersHaveShape, ShapeKept
<1>2. p2 \in Shape(<< >>)
  <2> HIDE DEF p1
  <2> QED
    BY <1>1, ShapeKept
<1>3. p3 \in Shape(a)
  <2> HIDE DEF p2
  <2> QED
    BY <1>2, ShapeKept
<1>4. Starting(i, d, a) = p3
  BY DEF Registers, Starting
<1>5. /\ p3.file = None /\ p3.refs = 0 /\ p3.s = None
      /\ p3.ino = i /\ p3.dev = d /\ p3.ret = a
  BY DEF Registers
<1> HIDE DEF p3
<1> QED
  BY <1>3, <1>4, <1>5

\* open, creat and pipe set only some of them.
LEMMA StartsSo ==
  ASSUME NEW a, NEW i
  PROVE  /\ [Registers EXCEPT !.ino = i, !.ret = a] = Starting(i, 0, a)
         /\ [Registers EXCEPT !.ret = a] = Starting(NoIno, 0, a)
<1>1. Registers.dev = 0 /\ Registers.ino = NoIno
  BY DEF Registers
<1>2. Registers \in Shape(<< >>)
  BY RegistersHaveShape
<1>3. [Registers EXCEPT !.ino = i, !.ret = a] = Starting(i, 0, a)
  BY <1>1, <1>2 DEF Shape, Starting
<1>4. [Registers EXCEPT !.ret = a] = Starting(NoIno, 0, a)
  BY <1>1, <1>2 DEF Shape, Starting
<1> QED
  BY <1>3, <1>4

LEMMA Keeps_Open ==
  ASSUME InodeInv, NEW t \in Task, Open(t)
  PROVE  InodeInv'
<1> DEFINE a == <<"iget">>
<1>1. r[t].pc = "user" /\ r[t].file = None /\ UNCHANGED fs
  BY DEF Open, Calls, At
<1>2. PICK i \in Ino : entry[i] > 0 /\ GetEmpty(t, [Registers EXCEPT !.ino = i, !.ret = a])
  BY DEF Open
<1> DEFINE p == Starting(i, 0, a)
<1>4. a # << >> /\ Head(a) = "iget" /\ Tail(a) = << >>
  BY ShortStacks, StacksDiffer
<1> HIDE DEF a
<1>3. GetEmpty(t, p)
  BY <1>2, StartsSo
<1>5. /\ p \in Shape(a) /\ p.file = None /\ p.refs = 0 /\ p.s = None
      /\ p.ino = i
  BY StartsWith
<1> HIDE DEF p
<1> QED
  BY <1>1, <1>2, <1>4, <1>5, <1>3, GetEmptyKeeps

LEMMA Keeps_Create ==
  ASSUME InodeInv, NEW t \in Task, Create(t)
  PROVE  InodeInv'
<1> DEFINE a == <<"new_inode">>
           p == Starting(NoIno, 0, a)
<1>1. r[t].pc = "user" /\ r[t].file = None /\ UNCHANGED fs
  BY DEF Create, Calls, At
<1>2. GetEmpty(t, [Registers EXCEPT !.ret = a])
  BY DEF Create
<1>4. a # << >> /\ Head(a) = "new_inode" /\ Tail(a) = << >>
  OBVIOUS
<1> HIDE DEF a
<1>3. GetEmpty(t, p)
  BY <1>2, StartsSo
<1>5. /\ p \in Shape(a) /\ p.file = None /\ p.refs = 0 /\ p.s = None
      /\ p.ino = NoIno
  BY StartsWith
<1> HIDE DEF p
<1> QED
  BY <1>1, <1>4, <1>5, <1>3, GetEmptyKeeps

LEMMA Keeps_Pipe ==
  ASSUME InodeInv, NEW t \in Task, Pipe(t)
  PROVE  InodeInv'
<1> DEFINE a == <<"get_pipe_inode">>
           p == Starting(NoIno, 0, a)
<1>1. r[t].pc = "user" /\ r[t].file = None /\ UNCHANGED fs
  BY DEF Pipe, Calls, At
<1>2. GetEmpty(t, [Registers EXCEPT !.ret = a])
  BY DEF Pipe
<1>4. a # << >> /\ Head(a) = "get_pipe_inode" /\ Tail(a) = << >>
  OBVIOUS
<1> HIDE DEF a
<1>3. GetEmpty(t, p)
  BY <1>2, StartsSo
<1>5. /\ p \in Shape(a) /\ p.file = None /\ p.refs = 0 /\ p.s = None
      /\ p.ino = NoIno
  BY StartsWith
<1> HIDE DEF p
<1> QED
  BY <1>1, <1>4, <1>5, <1>3, GetEmptyKeeps

LEMMA Keeps_Mount ==
  ASSUME InodeInv, NEW t \in Task, Mount(t)
  PROVE  InodeInv'
<1> DEFINE a == <<"iget", "sys_mount">>
<1>1. r[t].pc = "user" /\ r[t].file = None /\ UNCHANGED fs
  BY DEF Mount, Calls, At
<1>2. PICK i \in Ino, d \in Devices :
        entry[i] > 0 /\ GetEmpty(t, [Registers EXCEPT !.ino = i, !.dev = d, !.ret = a])
  BY DEF Mount
<1> DEFINE p == Starting(i, d, a)
<1>3. d \in Device
  BY DEF Devices, InodeInv, TypeInv
<1>4. a # << >> /\ Head(a) = "iget" /\ Tail(a) = <<"sys_mount">>
  BY ShortStacks, StacksDiffer
<1> HIDE DEF a
<1>5. /\ p \in Shape(a) /\ p.file = None /\ p.refs = 0 /\ p.s = None
      /\ p.ino = i /\ p.dev = d
  BY <1>3, StartsWith
<1>6. GetEmpty(t, p)
  BY <1>2 DEF Starting
<1> HIDE DEF p
<1> QED
  BY <1>1, <1>2, <1>3, <1>4, <1>5, <1>6, GetEmptyKeeps

\* The registers of a program that has entry e open, n times.
Holding(e, n) == [Registers EXCEPT !.file = e, !.refs = n]

LEMMA HoldingIs ==
  ASSUME NEW e \in Slot \cup {None}, NEW n \in 0 .. 2, e = None <=> n = 0
  PROVE  LET q == Holding(e, n)
         IN /\ Sound(q) /\ ~Unmounting(q) /\ q.pc = "user"
            /\ q.file = e /\ q.refs = n
            /\ \A s \in Slot : ~Reads(q, s) /\ ~Locks(q, s) /\ ~Cuts(q, s)
            /\ \A s \in Slot : Share(q, s) = IF s = e THEN n ELSE 0
            /\ \A tab, supers, names :
                 (e # None => Filled(tab[e])) => Fit(q, tab, supers, names)
<1> DEFINE p == [Registers EXCEPT !.file = e]
           q == Holding(e, n)
<1>1. p \in Shape(<< >>)
  BY RegistersHaveShape, ShapeKept
<1>2. q = [p EXCEPT !.refs = n]
  BY DEF Registers, Holding
<1>3. q \in Shape(<< >>)
  <2> HIDE DEF p, q
  <2> QED
    BY <1>1, <1>2, ShapeKept
<1>4. /\ q.pc = "user" /\ q.file = e /\ q.refs = n /\ q.empty = None /\ q.s = None
      /\ q.ino = NoIno /\ q.ret = << >>
  BY DEF Registers, Holding
<1>5. q = Leave(q)
  BY DEF Leave, Registers, Holding
<1> HIDE DEF q
<1>6. q.pc \in Places /\ q.ret \in Returns(q.pc)
  BY <1>4 DEF Places, Returns
<1>7. ~Putting(q) /\ ~Unmounting(q)
  BY <1>4, <1>6, PuttingIs DEF Puts, Ends
<1>8. Sound(q)
  BY <1>3, <1>4, <1>5, <1>6, <1>7, StacksDiffer DEF Sound, Shaped, Taking, Mapping
<1>9. \A s \in Slot : Share(q, s) = IF s = e THEN n ELSE 0
  BY <1>4, <1>7, InodeAssumption DEF Share, One
<1>10. \A s \in Slot : ~Reads(q, s) /\ ~Locks(q, s) /\ ~Cuts(q, s)
  BY <1>4 DEF Reads, Locks, Cuts
<1>11. \A tab, supers, names :
         (e # None => Filled(tab[e])) => Fit(q, tab, supers, names)
  BY <1>4, <1>7 DEF Fit, Mapping
<1> QED
  BY <1>4, <1>7, <1>8, <1>9, <1>10, <1>11 DEF q

\* A task with an empty inode is the only one that knows it.
LEMMA EmptyIs ==
  ASSUME InodeInv, NEW t \in Task, NEW e \in Slot, e = r[t].empty
  PROVE  /\ inode[e] \in Entry /\ inode[e].count = 1
         /\ ~inode[e].dirt /\ ~inode[e].pipe /\ ~inode[e].mount
         /\ r[t].pc # "read_inode" => inode[e].ino = NoIno /\ ~inode[e].lock
         /\ r[t].file = None /\ r[t].refs = 0 /\ r[t].pc \in Taking
         /\ ~Putting(r[t]) /\ ~Unmounting(r[t])
         /\ Refers(r[t], e) /\ \A u \in Task \ {t} : ~Refers(r[u], e)
         /\ \A s \in Slot : Share(r[t], s) = One(s = e) /\ ~Cuts(r[t], s)
         /\ Sound(r[t]) /\ Fit(r[t], inode, super, entry)
<1>1. /\ Sound(r[t]) /\ Fit(r[t], inode, super, entry)
      /\ (Putting(r[t]) <=> Puts(r[t])) /\ (Unmounting(r[t]) <=> Ends(r[t]))
  BY RegistersAre
<1>2. e # None
  BY InodeAssumption
<1>3. r[t].file = None /\ r[t].refs = 0 /\ r[t].pc \in Taking
  BY <1>1, <1>2 DEF Sound
<1>4. ~Putting(r[t]) /\ ~Unmounting(r[t])
  BY <1>1, <1>3 DEF Puts, Ends, Taking
<1>5. /\ inode[e].count = 1 /\ ~inode[e].dirt /\ ~inode[e].pipe /\ ~inode[e].mount
      /\ inode[e].ino = IF r[t].pc = "read_inode" THEN r[t].ino ELSE NoIno
  BY <1>1, <1>2 DEF Fit
<1>6. SlotAt(e) /\ inode[e] \in Entry
  BY DEF InodeInv, SlotInv, TypeInv
<1>7. inode[e].ino = NoIno => ~inode[e].lock
  BY <1>6 DEF SlotAt
<1>8. Refers(r[t], e) /\ \A u \in Task \ {t} : ~Refers(r[u], e)
  <2>1. Refers(r[t], e) /\ inode[e].count < 2
    BY <1>5 DEF Refers
  <2> QED
    BY <2>1, AloneUser
<1>9. \A s \in Slot : Share(r[t], s) = One(s = e) /\ ~Cuts(r[t], s)
  BY <1>2, <1>3, <1>4 DEF Share, One, Cuts, Taking
<1> QED
  BY <1>1, <1>3, <1>4, <1>5, <1>6, <1>7, <1>8, <1>9

\* A task is done with its empty inode, and keeps or gives back the entry.
Settles(e, new, h, n) ==
  /\ new \in Entry /\ new.ino = NoIno /\ ~new.mount /\ ~new.dirt /\ ~new.lock
  /\ h \in Slot \cup {None} /\ n \in 0 .. 2 /\ (h = None <=> n = 0)
  /\ h # None => h = e /\ new.pipe
  /\ n = new.count
Stores(e, new) == inode' = [inode EXCEPT ![e] = new]

LEMMA EmptyBecomes ==
  ASSUME InodeInv, NEW t \in Task, NEW e \in Slot, e = r[t].empty,
         r[t].pc # "read_inode",
         NEW new, NEW h, NEW n, Settles(e, new, h, n), Stores(e, new),
         NEW q, q = Holding(h, n), r' = [r EXCEPT ![t] = q], UNCHANGED fs
  PROVE  InodeInv'
<1> USE DEF Settles, Stores
<1> DEFINE V == {e}
<1>1. /\ inode \in [Slot -> Entry] /\ \A s \in Slot : inode[s].count \in Int
      /\ UNCHANGED <<disk, imap, zmap, ind, super, entry>>
  BY DEF InodeInv, TypeInv, Entry, fs
<1>2. inode'[e] = new /\ \A s \in Slot \ {e} : inode'[s] = inode[s]
  BY <1>1
<1>3. TypeInv'
  <2>1. inode' \in [Slot -> Entry]
    BY <1>1
  <2> QED
    BY <1>1, <2>1 DEF InodeInv, TypeInv
<1>4. /\ inode[e].count = 1 /\ ~inode[e].mount /\ inode[e].ino = NoIno /\ ~inode[e].lock
      /\ ~Unmounting(r[t])
      /\ \A u \in Task \ {t} : ~Refers(r[u], e)
      /\ \A s \in Slot : Share(r[t], s) = One(s = e) /\ ~Cuts(r[t], s)
      /\ inode[e] \in Entry
  BY EmptyIs
<1>5. /\ Sound(q) /\ ~Unmounting(q) /\ q.pc = "user"
      /\ \A s \in Slot : ~Reads(q, s) /\ ~Locks(q, s) /\ ~Cuts(q, s)
      /\ \A s \in Slot : Share(q, s) = IF s = h THEN n ELSE 0
      /\ \A tab, supers, names :
           (h # None => Filled(tab[h])) => Fit(q, tab, supers, names)
  BY HoldingIs
<1>6. Fit(q, inode', super', entry')
  <2>1. h # None => Filled(inode'[h])
    BY <1>2 DEF Filled
  <2> QED
    BY <1>5, <2>1
<1>7. \A s \in Slot : inode'[s].mount = inode[s].mount
  <2>1. inode[e].mount \in BOOLEAN /\ new.mount \in BOOLEAN
    BY <1>4 DEF Entry
  <2>2. inode'[e].mount = inode[e].mount
    BY <1>2, <1>4, <2>1
  <2> QED
    BY <1>2, <2>2
<1>8. \A s \in Slot : Counted(t, q, s)
  <2>1. ASSUME NEW s \in Slot
        PROVE  inode'[s].count = inode[s].count - Share(r[t], s) + Share(q, s)
    <3>1. CASE s = e
      <4>1. Share(q, s) = n
        BY <1>5, <3>1, InodeAssumption
      <4> QED
        BY <1>2, <1>4, <3>1, <4>1 DEF One
    <3>2. CASE s # e
      <4>1. Share(q, s) = 0 /\ Share(r[t], s) = 0
        BY <1>4, <1>5, <3>2, InodeAssumption DEF One
      <4> QED
        BY <1>1, <1>2, <3>2, <4>1
    <3> QED
      BY <3>1, <3>2
  <2> QED
    BY <1>5, <1>7, <2>1 DEF Counted
<1>9. \A s \in Slot : ~Reads(r[t], s)
  BY DEF Reads
<1>10. \A s \in Slot \ V : Passive(t, q, s)
  BY <1>1, <1>2, <1>4, <1>5, <1>9 DEF Passive, Same
<1>11. \A s \in Slot : Reading(s)' => Reading(s)
  <2>1. /\ \A s : Reading(s)' <=> Reads(q, s) \/ \E u \in Task \ {t} : Reads(r[u], s)
        /\ \A s : Reading(s) <=> Reads(r[t], s) \/ \E u \in Task \ {t} : Reads(r[u], s)
    BY OneTaskMoves DEF InodeInv
  <2> QED
    BY <1>5, <2>1
<1>12. OneEntryPerInode' /\ \A j \in Ino : Kept(j) \/ InoAt(j)'
  <2>1. Becomes(e, new)
    BY <1>2 DEF Becomes
  <2> QED
    BY <1>1, <1>4, <1>11, <2>1, EntryEmptied
<1>13. \A s \in V : SlotAt(s)'
  <2>1. SlotAt(e)'
    BY <1>2 DEF SlotAt
  <2> QED
    BY <2>1
<1>14. \A u \in Task \ {t} : Spared(u, V)
  <2> TAKE u \in Task \ {t}
  <2>1. ~Refers(r[u], e)
    BY <1>4
  <2> QED
    BY <1>1, <1>4, <2>1, StrangersAreUndisturbed DEF Spared
<1>15. MovesTo(t, q) /\ super' = super /\ V \in SUBSET Slot
  BY <1>1, <1>4, <1>5 DEF MovesTo
<1> HIDE DEF V
<1> QED
  BY <1>3, <1>6, <1>8, <1>10, <1>12, <1>13, <1>14, <1>15, InodesStep

LEMMA NothingIsHeld == Holding(None, 0) = Registers
<1>1. Registers \in Shape(<< >>)
  BY RegistersHaveShape
<1>2. Registers.file = None /\ Registers.refs = 0
  BY DEF Registers
<1> QED
  BY <1>1, <1>2 DEF Holding, Shape

\* The inode of a new pipe.
Piped(i) == [i EXCEPT !.count = 2, !.pipe = TRUE]

LEMMA PipedIs ==
  ASSUME NEW i \in Entry
  PROVE  /\ Piped(i) \in Entry /\ Piped(i).count = 2 /\ Piped(i).pipe
         /\ Piped(i).ino = i.ino /\ Piped(i).links = i.links /\ Piped(i).mount = i.mount
         /\ Piped(i).lock = i.lock /\ Piped(i).dirt = i.dirt
<1>1. [i EXCEPT !.count = 2] \in Entry
  BY DEF Entry
<1>2. ASSUME NEW j \in Entry
      PROVE  [j EXCEPT !.pipe = TRUE] \in Entry
  BY DEF Entry
<1>3. Piped(i) = [[i EXCEPT !.count = 2] EXCEPT !.pipe = TRUE]
  BY DEF Piped
<1>4. Piped(i) \in Entry
  BY <1>1, <1>2, <1>3
<1>5. DOMAIN i = {"ino", "count", "lock", "dirt", "links", "zone", "mount", "pipe"}
  BY DEF Entry
<1> QED
  BY <1>4, <1>5 DEF Piped

LEMMA Keeps_get_pipe_inode ==
  ASSUME InodeInv, NEW t \in Task, get_pipe_inode(t)
  PROVE  InodeInv'
<1>1. r[t].pc = "get_pipe_inode" /\ UNCHANGED fs
  BY DEF get_pipe_inode, At
<1>2. PICK e \in Slot : e = r[t].empty
  <2>1. Sound(r[t])
    BY RegistersAre
  <2> QED
    BY <1>1, <2>1 DEF Sound, Shaped, Shape, Taking
<1>3. /\ inode[e] \in Entry /\ inode[e].ino = NoIno /\ ~inode[e].lock /\ ~inode[e].dirt
      /\ ~inode[e].mount
  BY <1>1, <1>2, EmptyIs
<1>4. CASE /\ Put(e, [inode[e] EXCEPT !.count = 2, !.pipe = TRUE])
           /\ Set(t, [Registers EXCEPT !.file = e, !.refs = 2])
  <2> DEFINE new == Piped(inode[e])
             q == Holding(e, 2)
  <2>1. inode' = [inode EXCEPT ![e] = new] /\ r' = [r EXCEPT ![t] = q] /\ q = Holding(e, 2)
    BY <1>4 DEF Put, Set, Holding, Piped
  <2>2. /\ new \in Entry /\ new.ino = NoIno /\ ~new.mount /\ ~new.dirt /\ ~new.lock
        /\ new.pipe /\ new.count = 2
    BY <1>3, PipedIs
  <2> DEFINE n == 2
             h == e
  <2>3. Settles(e, new, h, n) /\ Stores(e, new) /\ q = Holding(h, n)
    BY <2>1, <2>2, InodeAssumption DEF Settles, Stores
  <2>4. r[t].pc # "read_inode"
    BY <1>1
  <2> HIDE DEF new, q, n, h
  <2> QED
    BY <1>1, <1>2, <2>1, <2>2, <2>3, <2>4, EmptyBecomes
<1>5. CASE Put(e, Zeroed) /\ Set(t, Registers)
  <2> DEFINE q == Holding(None, 0)
  <2>1. q = Registers
    BY NothingIsHeld
  <2>2. inode' = [inode EXCEPT ![e] = Zeroed] /\ r' = [r EXCEPT ![t] = q] /\ q = Holding(None, 0)
    BY <1>5, <2>1 DEF Put, Set
  <2> DEFINE n == 0
             h == None
             new == Zeroed
  <2>3. Settles(e, new, h, n) /\ Stores(e, new) /\ q = Holding(h, n)
    BY <2>2, ZeroedIs DEF Settles, Stores
  <2>4. r[t].pc # "read_inode"
    BY <1>1
  <2> HIDE DEF new, q, n, h
  <2> QED
    BY <1>1, <1>2, <2>2, <2>3, <2>4, EmptyBecomes
<1> QED
  BY <1>2, <1>4, <1>5 DEF get_pipe_inode

-----------------------------------------------------------------------------
(* new_block                                                               *)

\* The entry whose cell k is zone z now.
Mapped(i, k, z) == [i EXCEPT !.zone[k] = z, !.dirt = TRUE]

LEMMA MappedIs ==
  ASSUME NEW i \in Entry, NEW k \in 0 .. 2, NEW z \in Zone
  PROVE  /\ Mapped(i, k, z) \in Entry /\ Mapped(i, k, z).dirt
         /\ Mapped(i, k, z).count = i.count /\ Mapped(i, k, z).ino = i.ino
         /\ Mapped(i, k, z).links = i.links /\ Mapped(i, k, z).mount = i.mount
         /\ Mapped(i, k, z).pipe = i.pipe /\ Mapped(i, k, z).lock = i.lock
<1> DEFINE zone == [i.zone EXCEPT ![k] = z]
           j == [i EXCEPT !.zone = zone]
<1>1. zone \in [0 .. 2 -> Number]
  BY DEF Entry, Number
<1>2. Mapped(i, k, z) = [j EXCEPT !.dirt = TRUE]
  BY DEF Mapped, Entry
<1> HIDE DEF zone
<1>3. j \in Entry
  BY <1>1 DEF Entry
<1>4. /\ j.count = i.count /\ j.ino = i.ino /\ j.links = i.links /\ j.mount = i.mount
      /\ j.pipe = i.pipe /\ j.lock = i.lock
  BY DEF Entry
<1> HIDE DEF j
<1>5. [j EXCEPT !.dirt = TRUE] \in Entry
  BY <1>3 DEF Entry
<1>6. DOMAIN j = {"ino", "count", "lock", "dirt", "links", "zone", "mount", "pipe"}
  BY <1>3 DEF Entry
<1> QED
  BY <1>2, <1>4, <1>5, <1>6

\* new_block has stored the zone in the inode.
LEMMA ZoneStored ==
  ASSUME InodeInv, NEW t \in Task, r[t].pc = "new_block", NEW v \in Slot, v = r[t].s,
         NEW p, p.file = r[t].file, p.refs = r[t].refs, p.s = r[t].s,
         p.empty = r[t].empty, p.ino = r[t].ino,
         NEW q, Follows(p, q), r' = [r EXCEPT ![t] = q],
         NEW new \in Entry, new.dirt, Trimmed(inode[v], new), Becomes(v, new),
         inode' \in [Slot -> Entry],
         ind' \in [Zone -> Number], UNCHANGED <<disk, imap, zmap, super, entry>>
  PROVE  InodeInv'
<1> DEFINE V == {v}
<1>1. \A s \in Slot : inode[s].count \in Int
  BY DEF InodeInv, TypeInv, Entry
<1>2. inode'[v] = new /\ \A s \in Slot \ {v} : inode'[s] = inode[s]
  BY DEF Becomes
<1>3. TypeInv'
  BY DEF InodeInv, TypeInv
<1>4. /\ Sound(r[t]) /\ Fit(r[t], inode, super, entry)
  BY RegistersAre
<1>5. /\ r[t].ret = << >> /\ r[t].file = v /\ r[t].empty = None
      /\ r[t].pc \in Mapping /\ inode[v].ino # NoIno
  BY <1>4 DEF Sound, Fit, Mapping, Taking, Returns
<1>6. Refers(r[t], v) /\ inode[v].count >= 1
  BY <1>5, AloneUser DEF Refers
<1>7. \A s \in Slot :
           /\ inode'[s].mount = inode[s].mount /\ inode'[s].ino = inode[s].ino
           /\ inode'[s].pipe = inode[s].pipe /\ inode'[s].count = inode[s].count
           /\ inode'[s].links = inode[s].links /\ inode'[s].lock = inode[s].lock
  BY <1>2 DEF Trimmed
<1>8. /\ q.ret = << >> /\ q.pc \in Mapping /\ q.file # None /\ q.file = r[t].file
      /\ q.refs = r[t].refs /\ q.s = q.file /\ q.empty = None /\ q.ino = r[t].ino
      /\ q.k \in 0 .. 2 /\ Shaped(q) /\ q.pc # "new_block"
  BY <1>5, InodeAssumption DEF Follows, Mapping
<1>9. /\ Sound(q) /\ ~Unmounting(q) /\ ~Unmounting(r[t])
      /\ \A s \in Slot :
           /\ Share(q, s) = Share(r[t], s) /\ Share(q, s) \in Int
           /\ ~Reads(q, s) /\ ~Reads(r[t], s) /\ ~Cuts(r[t], s) /\ ~Locks(q, s)
      /\ \A tab :
           /\ tab[q.file].ino # NoIno
           /\ \A s \in Slot : tab[s].mount = inode[s].mount
           => Fit(q, tab, super, entry)
  BY <1>5, <1>8, InBmap
<1>10. Fit(q, inode', super', entry')
  BY <1>5, <1>7, <1>8, <1>9
<1>11. MovesTo(t, q)
  BY <1>8, <1>9 DEF MovesTo, Mapping
<1>12. \A s \in Slot : Counted(t, q, s) /\ HasItsInode(t, q, s)
  BY <1>1, <1>7, <1>9 DEF Counted, HasItsInode
<1>13. \A s \in Slot \ V : Still(t, q, s)
  BY <1>2, <1>9 DEF Still
<1>14. \A j \in Ino : disk'[j] = disk[j] \/ \E s \in V : inode[s].ino = j /\ ~Reading(s)
  OBVIOUS
<1>15. \A s \in V : WellChanged(s)
  <2>1. SlotAt(v) /\ inode'[v].dirt
    BY <1>2 DEF InodeInv, SlotInv
  <2>3. inode'[v].pipe => inode[v].ino = NoIno
    BY <1>7, <2>1 DEF SlotAt
  <2>4. inode'[v].count > 0 /\ inode[v].count > 0
    BY <1>1, <1>6, <1>7
  <2>2. WellChanged(v)
    BY <1>5, <2>1, <2>3, <2>4 DEF WellChanged
  <2> QED
    BY <2>2
<1>16. \A u \in Task \ {t}, s \in V : Undisturbed(r[u], s)
  BY <1>6, <1>7, UserDisturbsNobody
<1>17. V \in SUBSET Slot /\ UNCHANGED <<imap, super, entry>>
  OBVIOUS
<1> HIDE DEF V
<1> QED
  BY <1>3, <1>10, <1>11, <1>12, <1>13, <1>14, <1>15, <1>16, <1>17, EntriesStep

LEMMA Keeps_new_block ==
  ASSUME InodeInv, NEW t \in Task, new_block(t)
  PROVE  InodeInv'
<1> DEFINE z == Head(r[t].todo)[1]
           todo == << >>
           p == [r[t] EXCEPT !.todo = todo]
<1>1. r[t].pc = "new_block"
  BY DEF new_block, At
<1>2. Sound(r[t]) /\ Shaped(r[t]) /\ Fit(r[t], inode, super, entry)
  BY RegistersAre
<1>3. /\ r[t].ret = << >> /\ r[t].file \in Slot /\ r[t].s = r[t].file /\ r[t].empty = None
      /\ r[t].k \in 0 .. 2 /\ r[t].todo # << >> /\ r[t].pc \in Mapping
      /\ r[t].hold \in SUBSET Zone /\ inode[r[t].file].ino # NoIno
  BY <1>1, <1>2 DEF Sound, Shaped, Shape, Fit, Mapping, Taking, Returns
<1>4. PICK v \in Slot : v = r[t].s
  BY <1>3
<1>5. z \in Zone
  BY <1>2, <1>3, TodoIs DEF Shaped
<1>6. p \in Shape(<< >>)
  <2>1. todo \in Seq(Zone \X (0 .. 2)) /\ r[t] \in Shape(<< >>)
    BY <1>2, <1>3 DEF Shaped
  <2> HIDE DEF todo
  <2> QED
    BY <2>1, ShapeKept
<1>7. /\ p.ret = << >> /\ p.file = r[t].file /\ p.refs = r[t].refs /\ p.s = r[t].s
      /\ p.empty = r[t].empty /\ p.ino = r[t].ino /\ p.k = r[t].k
  BY <1>2, <1>3 DEF Shaped, Shape
<1>8. /\ z \in Number /\ z # 0 /\ ind \in [Zone -> Number] /\ zmap \subseteq Zone
      /\ inode \in [Slot -> Entry] /\ 0 \in Number
  BY <1>5, InodeAssumption DEF Number, InodeInv, TypeInv
<1>9. CASE UNCHANGED <<inode, r, fs>>
  BY <1>9, NothingChanges DEF fs
<1>10. CASE /\ r[t].hold = {} /\ ind' = [ind EXCEPT ![z] = 0]
            /\ Put(r[t].s, [inode[r[t].s] EXCEPT !.zone[r[t].k] = z, !.dirt = TRUE])
            /\ Follow(t, p, z) /\ UNCHANGED <<disk, imap, zmap, super, entry>>
  <2> DEFINE new == Mapped(inode[v], r[t].k, z)
  <2>1. inode' = [inode EXCEPT ![v] = new]
    BY <1>4, <1>10 DEF Put, Mapped
  <2>2. inode[v] \in Entry
    BY <1>8
  <2>3. new \in Entry /\ new.dirt /\ Trimmed(inode[v], new)
    BY <1>3, <1>5, <2>2, MappedIs DEF Trimmed
  <2>4. inode' \in [Slot -> Entry] /\ Becomes(v, new)
    <3> HIDE DEF new
    <3> QED
      BY <1>8, <2>1, <2>3 DEF Becomes
  <2>5. ind' \in [Zone -> Number]
    BY <1>5, <1>8, <1>10
  <2> HIDE DEF z, p, new
  <2>6. Shaped(p) /\ p.k \in 0 .. 2
    BY <1>3, <1>6, <1>7 DEF Shaped
  <2>7. PICK q : Follows(p, q) /\ r' = [r EXCEPT ![t] = q]
    BY <1>7, <1>8, <1>10, <2>6, FollowGoes
  <2> QED
    BY <1>1, <1>4, <1>7, <1>10, <2>3, <2>4, <2>5, <2>7, ZoneStored
<1>11. CASE /\ r[t].hold # {} /\ ind' = [ind EXCEPT ![z] = 0, ![Min(r[t].hold)] = z]
            /\ UNCHANGED inode
            /\ Follow(t, p, z) /\ UNCHANGED <<disk, imap, zmap, super, entry>>
  <2>1. ind' \in [Zone -> Number] /\ zmap' \subseteq Zone
    <3>1. Min(r[t].hold) \in Zone
      <4>1. r[t].hold \in SUBSET Nat
        BY <1>3, InodeAssumption
      <4> QED
        BY <1>3, <1>11, <4>1, MinIsLeast
    <3> HIDE DEF z
    <3>2. [ind EXCEPT ![z] = 0] \in [Zone -> Number]
      BY <1>8
    <3>3. ind' = [[ind EXCEPT ![z] = 0] EXCEPT ![Min(r[t].hold)] = z]
      BY <1>11
    <3> QED
      BY <1>8, <1>11, <3>1, <3>2, <3>3
  <2> HIDE DEF z, p
  <2>2. Shaped(p) /\ p.k \in 0 .. 2 /\ p.file # None
    BY <1>3, <1>6, <1>7, InodeAssumption DEF Shaped
  <2> QED
    BY <1>3, <1>7, <1>8, <1>11, <2>1, <2>2, FollowKeeps
<1> QED
  BY <1>9, <1>10, <1>11 DEF new_block, Panic

-----------------------------------------------------------------------------
(* iget                                                                    *)

\* The registers of a task that has got entry s, before iget returns.
Opened(q, s) == [q EXCEPT !.file = s, !.refs = 1, !.empty = None]

LEMMA OpenedIs ==
  ASSUME InodeInv, NEW t \in Task, r[t].pc \in {"iget", "read_inode"},
         NEW s \in Slot, NEW q, q = Return(Opened(r[t], s))
  PROVE  /\ Sound(q) /\ ~Unmounting(q) /\ ~Unmounting(r[t])
         /\ q.pc \in {"user", "sys_mount"}
         /\ \A x \in Slot :
              /\ Share(q, x) = One(x = s)
              /\ ~Reads(q, x) /\ ~Locks(q, x) /\ ~Cuts(q, x) /\ ~Cuts(r[t], x)
         /\ \A tab :
              /\ tab[s].ino # NoIno
              /\ \A x \in Slot : tab[x].mount = inode[x].mount
              => Fit(q, tab, super, entry)
<1> DEFINE a == r[t].ret
           p == Opened(r[t], s)
<1>1. /\ Sound(r[t]) /\ Shaped(r[t]) /\ Fit(r[t], inode, super, entry)
      /\ a \in {<< >>, <<"sys_mount">>}
      /\ (Unmounting(r[t]) <=> Ends(r[t]))
  BY RegistersAre DEF Returns
<1>2. ~Unmounting(r[t]) /\ \A x \in Slot : ~Cuts(r[t], x)
  BY <1>1 DEF Ends, Cuts
<1>3. p \in Shape(a)
  <2> DEFINE p1 == [r[t] EXCEPT !.file = s]
             p2 == [p1 EXCEPT !.refs = 1]
             p3 == [p2 EXCEPT !.empty = None]
  <2>1. p1 \in Shape(a)
    BY <1>1, ShapeKept DEF Shaped
  <2>2. p2 \in Shape(a)
    <3>1. PICK n : n \in 0 .. 2 /\ n = 1
      OBVIOUS
    <3>2. p2 = [p1 EXCEPT !.refs = n]
      BY <3>1
    <3> HIDE DEF p1, p2, a
    <3> QED
      BY <2>1, <3>1, <3>2, ShapeKept
  <2>3. p3 \in Shape(a)
    <3> HIDE DEF p2, a
    <3> QED
      BY <2>2, ShapeKept
  <2>4. p = p3
    BY <1>1 DEF Shaped, Shape, Opened
  <2> QED
    BY <2>3, <2>4
<1>4. /\ p.ret = a /\ p.file = s /\ p.refs = 1 /\ p.empty = None /\ p.dev = r[t].dev
      /\ p.ino = r[t].ino
  BY <1>1 DEF Shaped, Shape, Opened
<1>5. s # None
  BY InodeAssumption
<1>6. CASE a = << >>
  <2>1. q = Holding(s, 1)
    <3>1. q = Leave(p)
      BY <1>4, <1>6 DEF Return
    <3> QED
      BY <1>4, <3>1 DEF Leave, Holding
  <2>2. 1 \in 0 .. 2 /\ s \in Slot \cup {None} /\ (s = None <=> 1 = 0)
    BY <1>5
  <2>3. /\ Sound(q) /\ ~Unmounting(q) /\ q.pc = "user"
        /\ \A x \in Slot : ~Reads(q, x) /\ ~Locks(q, x) /\ ~Cuts(q, x)
        /\ \A x \in Slot : Share(q, x) = IF x = s THEN 1 ELSE 0
        /\ \A tab, supers, names : Filled(tab[s]) => Fit(q, tab, supers, names)
    BY <1>5, <2>1, <2>2, HoldingIs
  <2>4. \A tab : tab[s].ino # NoIno => Fit(q, tab, super, entry)
    BY <2>3 DEF Filled
  <2> QED
    BY <1>2, <2>3, <2>4 DEF One
<1>7. CASE a = <<"sys_mount">>
  <2> DEFINE label == "sys_mount"
             back == << >>
  <2>1. a # << >> /\ Head(a) = label /\ Tail(a) = back /\ label \in Places
    BY <1>7, ShortStacks, StacksDiffer DEF Places
  <2>2. r[t].dev \in Device
    BY <1>1, <1>7 DEF Sound
  <2> HIDE DEF label, back, a, p
  <2>3. /\ q \in Shape(back) /\ q.pc = label /\ q.ret = back
        /\ q.s = p.s /\ q.empty = p.empty /\ q.ino = p.ino /\ q.file = p.file
        /\ q.refs = p.refs /\ q.dev = p.dev
    BY <1>3, <2>1, ReturnIs DEF p
  <2>4. /\ q \in Shape(<< >>) /\ q.pc = "sys_mount" /\ q.ret = << >>
        /\ q.empty = None /\ q.ino = r[t].ino /\ q.file = s /\ q.refs = 1
        /\ q.dev = r[t].dev
    BY <1>4, <2>3 DEF label, back
  <2>5. q.pc \in Places /\ q.ret \in Returns(q.pc)
    BY <2>4 DEF Places, Returns
  <2>6. ~Putting(q) /\ ~Unmounting(q)
    BY <2>4, <2>5, PuttingIs DEF Puts, Ends
  <2>7. Sound(q)
    BY <1>5, <2>2, <2>4, <2>5, <2>6, StacksDiffer DEF Sound, Shaped, Taking, Mapping
  <2>8. \A x \in Slot :
              /\ Share(q, x) = One(x = s)
              /\ ~Reads(q, x) /\ ~Locks(q, x) /\ ~Cuts(q, x)
    BY <2>4, <2>6, InodeAssumption DEF Share, One, Reads, Locks, Cuts
  <2>9. ASSUME NEW tab, tab[s].ino # NoIno,
               \A x \in Slot : tab[x].mount = inode[x].mount
        PROVE  Fit(q, tab, super, entry)
    <3>1. \A d : Passes(tab, super, d) <=> Passes(inode, super, d)
      BY <2>9 DEF Passes
    <3> QED
      BY <1>1, <2>4, <2>6, <2>9, <3>1 DEF Fit, Filled, Mapping
  <2> QED
    BY <1>2, <2>4, <2>6, <2>7, <2>8, <2>9
<1> QED
  BY <1>1, <1>6, <1>7

\* The entry that has been read.
Loaded(i, d) == [i EXCEPT !.links = d.links, !.zone = d.zone, !.lock = FALSE]

LEMMA LoadedIs ==
  ASSUME NEW i \in Entry, NEW d \in [links : Int, zone : [0 .. 2 -> Number]]
  PROVE  /\ Loaded(i, d) \in Entry /\ ~Loaded(i, d).lock
         /\ Loaded(i, d).links = d.links /\ Loaded(i, d).zone = d.zone
         /\ Loaded(i, d).count = i.count /\ Loaded(i, d).ino = i.ino
         /\ Loaded(i, d).mount = i.mount /\ Loaded(i, d).pipe = i.pipe
         /\ Loaded(i, d).dirt = i.dirt
<1> DEFINE a == [i EXCEPT !.links = d.links]
           b == [a EXCEPT !.zone = d.zone]
           c == [b EXCEPT !.lock = FALSE]
<1>1. Loaded(i, d) = c
  BY DEF Loaded, Entry
<1>2. d.links \in Int /\ d.zone \in [0 .. 2 -> Number]
  OBVIOUS
<1>3. a \in Entry
  BY <1>2 DEF Entry
<1>4. /\ a.links = d.links /\ a.count = i.count /\ a.ino = i.ino /\ a.mount = i.mount
      /\ a.pipe = i.pipe /\ a.dirt = i.dirt
  BY DEF Entry
<1> HIDE DEF a
<1>5. b \in Entry
  BY <1>2, <1>3 DEF Entry
<1>6. /\ b.links = a.links /\ b.zone = d.zone /\ b.count = a.count /\ b.ino = a.ino
      /\ b.mount = a.mount /\ b.pipe = a.pipe /\ b.dirt = a.dirt
  BY <1>3 DEF Entry
<1> HIDE DEF b
<1>7. c \in Entry
  BY <1>5 DEF Entry
<1>8. /\ c.links = b.links /\ c.zone = b.zone /\ c.count = b.count /\ c.ino = b.ino
      /\ c.mount = b.mount /\ c.pipe = b.pipe /\ c.dirt = b.dirt /\ ~c.lock
  BY <1>5 DEF Entry
<1> HIDE DEF c
<1> QED
  BY <1>1, <1>4, <1>6, <1>7, <1>8

LEMMA Keeps_read_inode ==
  ASSUME InodeInv, NEW t \in Task, read_inode(t)
  PROVE  InodeInv'
<1> DEFINE d == disk[r[t].ino]
           q == Return(Opened(r[t], r[t].s))
<1>1. /\ r[t].pc = "read_inode" /\ UNCHANGED fs /\ r' = [r EXCEPT ![t] = q]
      /\ Put(r[t].s, [inode[r[t].s] EXCEPT !.links = d.links, !.zone = d.zone, !.lock = FALSE])
  BY DEF read_inode, At, Set, Opened
<1>2. PICK v \in Slot : v = r[t].s
  <2>1. Sound(r[t])
    BY RegistersAre
  <2> QED
    BY <1>1, <2>1 DEF Sound, Shaped, Shape, Taking
<1>3. Sound(r[t]) /\ Fit(r[t], inode, super, entry)
  BY RegistersAre
<1>4. r[t].empty = v /\ r[t].ino \in Ino
  BY <1>1, <1>2, <1>3 DEF Sound
<1>5. inode[v].ino = r[t].ino /\ inode[v].lock
  BY <1>1, <1>2, <1>3, <1>4, InodeAssumption DEF Fit
<1> DEFINE V == {v}
           i == r[t].ino
           new == Loaded(inode[v], d)
<1>6. /\ inode \in [Slot -> Entry] /\ \A s \in Slot : inode[s].count \in Int
      /\ UNCHANGED <<disk, imap, zmap, ind, super, entry>>
      /\ d \in [links : Int, zone : [0 .. 2 -> Number]]
  BY <1>1, <1>4 DEF InodeInv, TypeInv, Entry, fs
<1>7. inode' = [inode EXCEPT ![v] = new]
  BY <1>1, <1>2 DEF Put, Loaded
<1>8. /\ new \in Entry /\ ~new.lock /\ new.links = d.links /\ new.zone = d.zone
      /\ new.count = inode[v].count /\ new.ino = i /\ new.mount = inode[v].mount
      /\ new.pipe = inode[v].pipe /\ new.dirt = inode[v].dirt
  BY <1>5, <1>6, LoadedIs
<1> HIDE DEF new
<1>9. inode'[v] = new /\ \A s \in Slot \ {v} : inode'[s] = inode[s]
  BY <1>6, <1>7
<1>10. TypeInv'
  <2>1. inode' \in [Slot -> Entry]
    BY <1>6, <1>7, <1>8
  <2> QED
    BY <1>6, <2>1 DEF InodeInv, TypeInv
<1>11. /\ inode[v].count = 1 /\ ~inode[v].dirt /\ ~inode[v].mount /\ ~Unmounting(r[t])
       /\ \A u \in Task \ {t} : ~Refers(r[u], v)
       /\ \A s \in Slot : Share(r[t], s) = One(s = v) /\ ~Cuts(r[t], s)
  BY <1>4, EmptyIs
<1>12. /\ Sound(q) /\ ~Unmounting(q) /\ q.pc \in {"user", "sys_mount"}
       /\ \A x \in Slot :
            /\ Share(q, x) = One(x = v)
            /\ ~Reads(q, x) /\ ~Locks(q, x) /\ ~Cuts(q, x)
       /\ \A tab :
            /\ tab[v].ino # NoIno
            /\ \A x \in Slot : tab[x].mount = inode[x].mount
            => Fit(q, tab, super, entry)
  BY <1>1, <1>2, OpenedIs
<1>13. r' = [r EXCEPT ![t] = q]
  BY <1>1
<1> HIDE DEF q
<1>14. \A s \in Slot : inode'[s].mount = inode[s].mount
  BY <1>8, <1>9
<1>15. Fit(q, inode', super', entry')
  BY <1>4, <1>6, <1>8, <1>9, <1>12, <1>14, NoInoIsNone
<1>16. MovesTo(t, q) /\ super' = super /\ V \in SUBSET Slot
  BY <1>6, <1>11, <1>12, <1>13 DEF MovesTo
<1>17. \A s \in Slot : Counted(t, q, s)
  BY <1>6, <1>8, <1>9, <1>11, <1>12, <1>14 DEF Counted, One
<1>18. \A s \in Slot \ V : Passive(t, q, s)
  BY <1>2, <1>6, <1>9, <1>11, <1>12 DEF Passive, Same, Reads
<1>19. OneEntryPerInode'
  BY <1>5, <1>8, <1>9 DEF InodeInv, OneEntryPerInode
<1>20. /\ \A s : Reading(s)' <=> Reads(q, s) \/ \E u \in Task \ {t} : Reads(r[u], s)
       /\ \A s : Reading(s) <=> Reads(r[t], s) \/ \E u \in Task \ {t} : Reads(r[u], s)
       /\ \A s : Truncating(s)' <=> Cuts(q, s) \/ \E u \in Task \ {t} : Cuts(r[u], s)
       /\ \A s : Truncating(s) <=> Cuts(r[t], s) \/ \E u \in Task \ {t} : Cuts(r[u], s)
  BY <1>13, OneTaskMoves DEF InodeInv
<1>21. ASSUME NEW j \in Ino PROVE Kept(j) \/ InoAt(j)'
  BY <1>5, <1>6, <1>8, <1>9, <1>12, <1>20 DEF Kept, Same
<1>22. SlotAt(v)'
  <2>1. SlotAt(v) /\ InoAt(i) /\ i # NoIno
    BY <1>4, NoInoIsNone DEF InodeInv, SlotInv, InoInv
  <2>2. \A s \in SlotsOf(i) : Reading(s)
    <3>1. \A s \in SlotsOf(i) : s = v
      BY <1>5, <2>1 DEF SlotsOf, InodeInv, OneEntryPerInode
    <3> QED
      BY <1>1, <1>2, <3>1 DEF Reading
  <2>3. i \in imap
    BY <1>5, <2>1 DEF SlotAt
  <2>4. Linked(i, d.links)
    BY <2>1, <2>2, <2>3 DEF InoAt
  <2>5. /\ ~new.pipe /\ ~new.mount /\ ~new.dirt /\ ~new.lock
    BY <1>5, <1>8, <1>11, <2>1 DEF SlotAt
  <2>6. i[1] # ROOT_DEV => Passes(inode, super, i[1])
    BY <1>5, <1>11, <2>1 DEF SlotAt
  <2>7. Passes(inode, super, i[1]) => Passes(inode', super', i[1])
    BY <1>6, <1>14 DEF Passes
  <2>8. i[1] = ROOT_DEV \/ i \in Roots
    BY <1>5, <2>1 DEF SlotAt
  <2>9. disk'[i] = [links |-> new.links, zone |-> new.zone]
    BY <1>6, <1>8
  <2>10. (i \in Roots => new.links = 1) /\ (entry'[i] > 0 => new.links = entry'[i])
    BY <1>6, <1>8, <2>4 DEF Linked
  <2> QED
    BY <1>6, <1>8, <1>9, <1>11, <2>1, <2>3, <2>5, <2>6, <2>7, <2>8, <2>9, <2>10
    DEF SlotAt, Linked
<1>23. \A u \in Task \ {t} : Spared(u, V)
  <2> TAKE u \in Task \ {t}
  <2>1. ~Refers(r[u], v) /\ ~Frozen(r[u], v)
    BY <1>11, FrozenIsUsed
  <2>2. ~Locks(r[u], v)
    <3>1. Apart(r[t], r[u]) /\ Locks(r[t], v)
      BY <1>1, <1>2 DEF InodeInv, ApartInv, Locks
    <3> QED
      BY <3>1 DEF Apart
  <2>3. Undisturbed(r[u], v)
    BY <2>1, <2>2 DEF Undisturbed, Refers, Frozen
  <2> QED
    BY <1>6, <2>3 DEF Spared
<1>24. \A s \in V : SlotAt(s)'
  BY <1>22
<1> HIDE DEF V
<1> QED
  BY <1>10, <1>15, <1>16, <1>17, <1>18, <1>19, <1>21, <1>23, <1>24, InodesStep

\* An inode that a name leads to, or from a mount point to the root of a device.
Reached(i) ==
  /\ i \in Ino
  /\ entry[i] > 0 \/ (i \in Roots /\ Passes(inode, super, i[1]))

LEMMA ReachedIs ==
  ASSUME InodeInv, NEW i, Reached(i)
  PROVE  /\ i # NoIno /\ i \in imap
         /\ i[1] = ROOT_DEV \/ i \in Roots
         /\ i[1] # ROOT_DEV => Passes(inode, super, i[1])
<1>1. InoAt(i) /\ i \in Ino /\ i # NoIno
  BY NoInoIsNone DEF InodeInv, InoInv, Reached
<1>2. CASE entry[i] > 0
  BY <1>1, <1>2 DEF InoAt
<1>3. CASE i \in Roots /\ Passes(inode, super, i[1])
  BY <1>1, <1>3 DEF InoAt
<1> QED
  BY <1>2, <1>3 DEF Reached

\* What iget looks for is there for it to find.
LEMMA CrossedIs ==
  ASSUME InodeInv, NEW t \in Task, r[t].pc = "iget"
  PROVE  Reached(Crossed(r[t].ino))
<1> DEFINE j == r[t].ino
           on == {d \in DOMAIN super : \E s \in SlotsOf(j) :
                    Unlocked(s) /\ inode[s].mount /\ super[d].imount = s}
<1>1. Sound(r[t]) /\ Fit(r[t], inode, super, entry)
  BY RegistersAre
<1>2. j \in Ino /\ Reached(j)
  BY <1>1, NoInoIsNone DEF Sound, Fit, Reached
<1>3. CASE on = {}
  BY <1>2, <1>3 DEF Crossed
<1>4. CASE on # {}
  <2>1. PICK d : d = CHOOSE x \in on : TRUE
    OBVIOUS
  <2>2. Crossed(j) = <<d, ROOT_INO>>
    BY <1>4, <2>1 DEF Crossed
  <2>3. d \in on
    BY <1>4, <2>1
  <2>4. PICK s \in Slot : inode[s].mount /\ super[d].imount = s
    BY <2>3 DEF SlotsOf
  <2>5. d \in Device
    BY <2>3 DEF InodeInv, TypeInv
  <2>6. PICK i \in Ino : i[1] = d
    BY <2>5 DEF Device
  <2>7. d # ROOT_DEV
    <3>1. d = ROOT_DEV => super[d].imount = RootEntry
      BY <2>5 DEF InodeInv, DevInv
    <3> QED
      BY <2>4, <3>1, InodeAssumption
  <2>8. <<d, ROOT_INO>> \in Ino
    BY <2>6, <2>7, InodeAssumption
  <2>9. <<d, ROOT_INO>> \in Roots
    BY <2>7, <2>8 DEF Roots
  <2>10. Passes(inode, super, d)
    BY <2>4 DEF Passes
  <2> QED
    BY <2>2, <2>8, <2>9, <2>10 DEF Reached
<1> QED
  BY <1>3, <1>4

\* iget waits for entry s, or begins again.
LEMMA IgetWaits ==
  ASSUME InodeInv, NEW t \in Task, r[t].pc = "iget",
         NEW s \in Slot, NEW i, Reached(i),
         r' = [r EXCEPT ![t] = [r[t] EXCEPT !.pc = "iget", !.s = s, !.ino = i]],
         UNCHANGED inode, UNCHANGED fs
  PROVE  InodeInv'
<1> DEFINE a == r[t].ret
           q == [r[t] EXCEPT !.pc = "iget", !.s = s, !.ino = i]
           e == r[t].empty
<1>1. /\ Sound(r[t]) /\ Shaped(r[t]) /\ Fit(r[t], inode, super, entry)
      /\ r[t].ret \in Returns("iget") /\ "iget" \in Places
      /\ (Unmounting(r[t]) <=> Ends(r[t])) /\ (Putting(r[t]) <=> Puts(r[t]))
  BY RegistersAre DEF Places, Taking
<1>2. i \in Ino /\ i \in Ino \cup {NoIno}
  BY DEF Reached
<1>3. q \in Shape(a)
  <2> DEFINE p1 == [r[t] EXCEPT !.pc = "iget"]
             p2 == [p1 EXCEPT !.s = s]
             p3 == [p2 EXCEPT !.ino = i]
  <2>1. p1 \in Shape(a)
    BY <1>1, ShapeKept DEF Shaped
  <2>2. p2 \in Shape(a)
    <3> HIDE DEF p1, a
    <3> QED
      BY <2>1, ShapeKept
  <2>3. p3 \in Shape(a)
    <3> HIDE DEF p2, a
    <3> QED
      BY <1>2, <2>2, ShapeKept
  <2>4. q = p3
    BY <1>1 DEF Shaped, Shape
  <2> QED
    BY <2>3, <2>4
<1>4. /\ q.pc = "iget" /\ q.ret = r[t].ret /\ q.s = s /\ q.ino = i /\ q.empty = r[t].empty
      /\ q.file = r[t].file /\ q.refs = r[t].refs /\ q.dev = r[t].dev
  BY <1>1 DEF Shaped, Shape
<1>5. r' = [r EXCEPT ![t] = q]
  OBVIOUS
<1> HIDE DEF q
<1>6. /\ ~Putting(r[t]) /\ ~Unmounting(r[t]) /\ ~Putting(q) /\ ~Unmounting(q)
  BY <1>1, <1>4, PuttingIs DEF Puts, Ends
<1>7. Sound(q)
  BY <1>1, <1>2, <1>3, <1>4, <1>6 DEF Sound, Shaped, Taking, Mapping
<1>8. Fit(q, inode, super, entry)
  BY <1>1, <1>4, <1>6 DEF Fit, Reached, Mapping
<1>9. \A x \in Slot :
        /\ Share(r[t], x) = Share(q, x)
        /\ Reads(q, x) <=> Reads(r[t], x)
        /\ Cuts(r[t], x) => Cuts(q, x)
        /\ Locks(q, x) => Locks(r[t], x) \/ ~inode[x].lock
  BY <1>4, <1>6 DEF Share, One, Reads, Cuts, Locks
<1>10. /\ UNCHANGED <<inode, disk, imap, super, entry>>
       /\ zmap' \subseteq Zone /\ ind' \in [Zone -> Number]
  BY DEF fs, InodeInv, TypeInv
<1>11. q.pc # "read_super"
  BY <1>4
<1> QED
  BY <1>5, <1>6, <1>7, <1>8, <1>9, <1>10, <1>11, QuietStep

\* The entry that is to be read.
ToRead(e, i) == [e EXCEPT !.ino = i, !.lock = TRUE]

LEMMA ToReadIs ==
  ASSUME NEW e \in Entry, NEW i \in Ino
  PROVE  /\ ToRead(e, i) \in Entry /\ ToRead(e, i).lock /\ ToRead(e, i).ino = i
         /\ ToRead(e, i).links = e.links
         /\ ToRead(e, i).count = e.count /\ ToRead(e, i).dirt = e.dirt
         /\ ToRead(e, i).mount = e.mount /\ ToRead(e, i).pipe = e.pipe
<1> DEFINE a == [e EXCEPT !.ino = i]
           b == [a EXCEPT !.lock = TRUE]
<1>1. ToRead(e, i) = b
  BY DEF ToRead, Entry
<1>2. a \in Entry
  BY DEF Entry
<1>3. /\ a.links = e.links /\ a.count = e.count /\ a.ino = i /\ a.mount = e.mount
      /\ a.pipe = e.pipe /\ a.dirt = e.dirt
  BY DEF Entry
<1> HIDE DEF a
<1>4. b \in Entry
  BY <1>2 DEF Entry
<1>5. /\ b.links = a.links /\ b.lock /\ b.count = a.count /\ b.ino = a.ino
      /\ b.mount = a.mount /\ b.pipe = a.pipe /\ b.dirt = a.dirt
  BY <1>2 DEF Entry
<1> HIDE DEF b
<1> QED
  BY <1>1, <1>3, <1>4, <1>5

\* The registers of a task that is to read inode i to its empty entry e.
ReadsTo(p, q, e, i) ==
  /\ Shaped(q) /\ q.pc = "read_inode" /\ q.ret = p.ret /\ q.s = e /\ q.ino = i
  /\ q.empty = e /\ q.file = p.file /\ q.refs = p.refs /\ q.dev = p.dev

\* iget takes its empty entry for inode i, which is not in the table.
IgetReads ==
  \A t \in Task : \A e \in Slot : \A i, q :
    /\ r[t].pc = "iget" /\ e = r[t].empty /\ Reached(i) /\ SlotsOf(i) = {}
    /\ ReadsTo(r[t], q, e, i) /\ r' = [r EXCEPT ![t] = q]
    /\ inode' = [inode EXCEPT ![e] = ToRead(inode[e], i)] /\ UNCHANGED fs
    => InodeInv'

LEMMA IgetReadsKeeps ==
  ASSUME InodeInv
  PROVE  IgetReads
<1> SUFFICES ASSUME NEW t \in Task, NEW e \in Slot, NEW i, NEW q,
                    r[t].pc = "iget", e = r[t].empty, Reached(i), SlotsOf(i) = {},
                    ReadsTo(r[t], q, e, i), r' = [r EXCEPT ![t] = q],
                    inode' = [inode EXCEPT ![e] = ToRead(inode[e], i)], UNCHANGED fs
             PROVE  InodeInv'
  BY DEF IgetReads
<1> DEFINE V == {e}
<1>1. PICK new : new = ToRead(inode[e], i)
  OBVIOUS
<1>2. /\ inode \in [Slot -> Entry] /\ \A s \in Slot : inode[s].count \in Int
      /\ UNCHANGED <<disk, imap, zmap, ind, super, entry>>
  BY DEF InodeInv, TypeInv, Entry, fs
<1>3. i \in Ino /\ i # NoIno /\ InoAt(i)
  BY NoInoIsNone DEF Reached, InodeInv, InoInv
<1>4. /\ new \in Entry /\ new.lock /\ new.ino = i /\ new.count = inode[e].count
      /\ new.dirt = inode[e].dirt /\ new.mount = inode[e].mount /\ new.pipe = inode[e].pipe
  BY <1>1, <1>2, <1>3, ToReadIs
<1>5. inode'[e] = new /\ \A s \in Slot \ {e} : inode'[s] = inode[s]
  BY <1>1, <1>2
<1>6. TypeInv'
  <2>1. inode' \in [Slot -> Entry]
    BY <1>1, <1>2, <1>4
  <2> QED
    BY <1>2, <2>1 DEF InodeInv, TypeInv
<1>7. /\ inode[e].count = 1 /\ ~inode[e].dirt /\ ~inode[e].pipe /\ ~inode[e].mount
      /\ inode[e].ino = NoIno /\ ~inode[e].lock /\ ~Unmounting(r[t]) /\ ~Putting(r[t])
      /\ \A u \in Task \ {t} : ~Refers(r[u], e)
      /\ \A s \in Slot : Share(r[t], s) = One(s = e) /\ ~Cuts(r[t], s)
      /\ Sound(r[t]) /\ Fit(r[t], inode, super, entry)
  BY EmptyIs
<1>8. q.pc \in Places /\ q.ret \in Returns(q.pc)
  BY <1>7 DEF ReadsTo, Places, Taking, Returns, Sound
<1>9. ~Putting(q) /\ ~Unmounting(q)
  BY <1>8, PuttingIs DEF ReadsTo, Puts, Ends
<1>10. Sound(q)
  BY <1>3, <1>7, <1>8, <1>9, InodeAssumption DEF Sound, ReadsTo, Taking, Mapping
<1>11. /\ \A s \in Slot : Share(q, s) = One(s = e) /\ ~Cuts(q, s)
       /\ \A s \in Slot : Reads(q, s) <=> s = e
       /\ \A s \in Slot : Locks(q, s) <=> s = e
  <2>1. \A s \in Slot : Share(q, s) = Share(r[t], s)
    BY <1>7, <1>9 DEF Share, One, ReadsTo
  <2> QED
    BY <1>7, <2>1 DEF Reads, Cuts, Locks, ReadsTo
<1>12. \A s \in Slot : inode'[s].mount = inode[s].mount
  BY <1>4, <1>5
<1>13. Passes(inode, super, i[1]) => Passes(inode', super', i[1])
  BY <1>2, <1>12 DEF Passes
<1>14. Fit(q, inode', super', entry')
  <2>1. /\ q.pc = "read_inode" /\ q.empty = e /\ q.s = e /\ q.ino = i
        /\ q.file = None
    BY EmptyIs DEF ReadsTo
  <2>2. /\ inode'[e].count = 1 /\ ~inode'[e].dirt /\ ~inode'[e].pipe /\ ~inode'[e].mount
        /\ inode'[e].ino = i /\ inode'[e].lock
    BY <1>4, <1>5, <1>7
  <2>3. entry'[i] > 0 \/ (i \in Roots /\ Passes(inode', super', i[1]))
    BY <1>2, <1>13 DEF Reached
  <2> QED
    BY <1>9, <2>1, <2>2, <2>3 DEF Fit, Mapping
<1>15. MovesTo(t, q) /\ super' = super /\ V \in SUBSET Slot
  BY <1>2, <1>7, <1>9, <1>10 DEF MovesTo, ReadsTo
<1>16. \A s \in Slot : Counted(t, q, s)
  BY <1>2, <1>4, <1>5, <1>7, <1>11, <1>12 DEF Counted, One
<1>17. \A s \in Slot \ V : Passive(t, q, s)
  BY <1>2, <1>5, <1>7, <1>11 DEF Passive, Same, Reads
<1>18. \A s \in Slot : inode[s].ino # i
  BY DEF SlotsOf
<1>19. OneEntryPerInode'
  BY <1>4, <1>5, <1>18 DEF InodeInv, OneEntryPerInode
<1>20. /\ \A s : Reading(s)' <=> Reads(q, s) \/ \E u \in Task \ {t} : Reads(r[u], s)
       /\ \A s : Reading(s) <=> Reads(r[t], s) \/ \E u \in Task \ {t} : Reads(r[u], s)
  BY OneTaskMoves DEF InodeInv
<1>21. ASSUME NEW j \in Ino PROVE Kept(j) \/ InoAt(j)'
  <2>1. CASE j = i
    <3>1. i \in imap => Linked(i, disk[i].links)
      BY <1>3 DEF InoAt
    <3> QED
      BY <1>2, <1>3, <2>1, <3>1 DEF InoAt, Linked
  <2>2. CASE j # i
    <3>1. \A s \in Slot : inode'[s].ino = j <=> inode[s].ino = j
      BY <1>4, <1>5, <1>7, <2>2, NoInoIsNone
    <3>2. \A s \in Slot : inode[s].ino = j /\ Reading(s)' => Reading(s)
      BY <1>7, <1>11, <1>20, NoInoIsNone
    <3> QED
      BY <1>2, <3>1, <3>2 DEF Kept, Same
  <2> QED
    BY <2>1, <2>2
<1>22. SlotAt(e)'
  <2>1. /\ i \in imap /\ (i[1] = ROOT_DEV \/ i \in Roots)
        /\ i[1] # ROOT_DEV => Passes(inode, super, i[1])
    BY ReachedIs
  <2>2. Reading(e)'
    BY <1>11, <1>20
  <2> DEFINE j == inode'[e]
  <2>3. /\ j.ino = i /\ i # NoIno /\ i \in imap' /\ (i[1] = ROOT_DEV \/ i \in Roots)
        /\ ~j.pipe /\ ~j.mount /\ ~j.dirt /\ j.count = 1
    BY <1>2, <1>3, <1>4, <1>5, <1>7, <2>1
  <2>4. i[1] # ROOT_DEV => Passes(inode', super', i[1])
    BY <1>13, <2>1
  <2> QED
    BY <2>2, <2>3, <2>4 DEF SlotAt
<1>23. \A u \in Task \ {t} : Spared(u, V)
  <2> TAKE u \in Task \ {t}
  <2>1. ~Refers(r[u], e)
    BY <1>7
  <2> QED
    BY <1>2, <1>7, <2>1, StrangersAreUndisturbed DEF Spared
<1>24. \A s \in V : SlotAt(s)'
  BY <1>22
<1> HIDE DEF V
<1> QED
  BY <1>6, <1>14, <1>15, <1>16, <1>17, <1>19, <1>21, <1>23, <1>24, InodesStep

\* An entry with one more user.
Raised(i) == [i EXCEPT !.count = @ + 1]

LEMMA RaisedIs ==
  ASSUME NEW i \in Entry
  PROVE  /\ Raised(i) \in Entry
         /\ Raised(i).count = i.count + 1 /\ Raised(i).ino = i.ino
         /\ Raised(i).links = i.links /\ Raised(i).mount = i.mount
         /\ Raised(i).pipe = i.pipe /\ Raised(i).zone = i.zone
         /\ Raised(i).dirt = i.dirt /\ Raised(i).lock = i.lock
  BY DEF Raised, Entry

\* Who changes or fills an entry alone has one that no name leads to, or has
\* locked it.
LEMMA ReachedIsNotFrozen ==
  ASSUME InodeInv, NEW u \in Task, NEW s \in Slot, Reached(inode[s].ino), ~inode[s].lock
  PROVE  ~Frozen(r[u], s)
<1> DEFINE i == inode[s].ino
<1>1. i \in Ino /\ i # NoIno /\ entry[i] \in Nat /\ SlotAt(s)
  BY NoInoIsNone DEF Reached, InodeInv, SlotInv, TypeInv
<1>2. Sound(r[u]) /\ Fit(r[u], inode, super, entry)
  BY RegistersAre
<1>3. r[u].empty # s
  <2>1. SUFFICES ASSUME r[u].empty = s PROVE FALSE
    OBVIOUS
  <2>2. r[u].pc = "read_inode"
    BY <1>1, <2>1, EmptyIs
  <2>3. r[u].s = s
    BY <1>2, <2>1, <2>2 DEF Sound
  <2> QED
    BY <1>2, <2>2, <2>3 DEF Fit
<1>4. ~(r[u].pc = "add_entry" /\ r[u].file = s)
  BY <1>1, <1>2 DEF Fit, Reached, Roots
<1>5. ~(r[u].pc = "truncate" /\ r[u].ret # << >> /\ r[u].s = s)
  <2>1. SUFFICES ASSUME r[u].pc = "truncate", r[u].ret # << >>, r[u].s = s PROVE FALSE
    OBVIOUS
  <2>2. inode[s].links = 0
    BY <1>2, <2>1 DEF Fit
  <2>3. ~Reading(s)
    BY WritersDoNotRead
  <2>4. Linked(i, 0)
    BY <1>1, <2>2, <2>3 DEF SlotAt
  <2> QED
    BY <1>1, <2>4 DEF Linked, Reached
<1> QED
  BY <1>3, <1>4, <1>5 DEF Frozen

\* A step that leaves the inodes of all entries alone keeps what is not in the
\* table, if it reads no more of them.
LEMMA NamesKept ==
  ASSUME NEW j \in Ino, Same(j), \A s \in Slot : inode'[s].ino = inode[s].ino,
         \A s \in Slot : Reading(s)' => Reading(s)
  PROVE  Kept(j)
  BY DEF Kept

\* iget has found the inode in entry s, and gives its empty one back.
LEMMA IgetFinds ==
  ASSUME InodeInv, NEW t \in Task, r[t].pc = "iget", NEW e \in Slot, e = r[t].empty,
         NEW s \in Slot, Reached(inode[s].ino), ~inode[s].lock,
         NEW q, q = Return(Opened(r[t], s)), r' = [r EXCEPT ![t] = q],
         inode' = [inode EXCEPT ![s].count = @ + 1, ![e].count = @ - 1], UNCHANGED fs
  PROVE  InodeInv'
<1> DEFINE V == {s, e}
           i == inode[s].ino
<1>1. /\ inode \in [Slot -> Entry] /\ \A x \in Slot : inode[x].count \in Int
      /\ UNCHANGED <<disk, imap, zmap, ind, super, entry>>
  BY DEF InodeInv, TypeInv, Entry, fs
<1>2. i \in Ino /\ i # NoIno
  BY NoInoIsNone DEF Reached
<1>3. /\ inode[e].count = 1 /\ ~inode[e].dirt /\ ~inode[e].pipe /\ ~inode[e].mount
      /\ inode[e].ino = NoIno /\ ~inode[e].lock /\ ~Unmounting(r[t])
      /\ \A u \in Task \ {t} : ~Refers(r[u], e)
      /\ \A x \in Slot : Share(r[t], x) = One(x = e) /\ ~Cuts(r[t], x)
  BY EmptyIs
<1>4. s # e
  BY <1>2, <1>3
<1>5. /\ inode'[s] = Raised(inode[s]) /\ inode'[e] = Dropped(inode[e])
      /\ \A x \in Slot \ {s, e} : inode'[x] = inode[x]
  BY <1>1, <1>4 DEF Raised, Dropped
<1>6. /\ Raised(inode[s]) \in Entry
      /\ inode'[s].count = inode[s].count + 1 /\ inode'[s].ino = i
      /\ inode'[s].links = inode[s].links /\ inode'[s].mount = inode[s].mount
      /\ inode'[s].pipe = inode[s].pipe /\ inode'[s].zone = inode[s].zone
      /\ inode'[s].dirt = inode[s].dirt /\ inode'[s].lock = inode[s].lock
  <2>1. inode[s] \in Entry
    BY <1>1
  <2>2. /\ Raised(inode[s]) \in Entry
        /\ Raised(inode[s]).count = inode[s].count + 1 /\ Raised(inode[s]).ino = i
        /\ Raised(inode[s]).links = inode[s].links /\ Raised(inode[s]).mount = inode[s].mount
        /\ Raised(inode[s]).pipe = inode[s].pipe /\ Raised(inode[s]).zone = inode[s].zone
        /\ Raised(inode[s]).dirt = inode[s].dirt /\ Raised(inode[s]).lock = inode[s].lock
    BY <2>1, RaisedIs
  <2> QED
    BY <1>5, <2>2
<1>7. /\ Dropped(inode[e]) \in Entry
      /\ inode'[e].count = 0 /\ inode'[e].ino = NoIno /\ ~inode'[e].mount
      /\ ~inode'[e].pipe /\ ~inode'[e].dirt /\ ~inode'[e].lock
  <2>1. inode[e] \in Entry
    BY <1>1
  <2>2. /\ Dropped(inode[e]) \in Entry /\ Dropped(inode[e]).count = inode[e].count - 1
        /\ Dropped(inode[e]).ino = inode[e].ino /\ Dropped(inode[e]).mount = inode[e].mount
        /\ Dropped(inode[e]).pipe = inode[e].pipe /\ Dropped(inode[e]).dirt = inode[e].dirt
        /\ Dropped(inode[e]).lock = inode[e].lock
    BY <2>1, DroppedIs
  <2>3. inode'[e] = Dropped(inode[e])
    BY <1>5
  <2> QED
    BY <1>3, <2>2, <2>3
<1>8. TypeInv'
  <2>1. inode' = [[inode EXCEPT ![s] = Raised(inode[s])] EXCEPT ![e] = Dropped(inode[e])]
    BY <1>1, <1>4 DEF Raised, Dropped
  <2>2. inode' \in [Slot -> Entry]
    BY <1>1, <1>6, <1>7, <2>1
  <2> QED
    BY <1>1, <2>2 DEF InodeInv, TypeInv
<1>9. /\ Sound(q) /\ ~Unmounting(q) /\ q.pc \in {"user", "sys_mount"}
      /\ \A x \in Slot :
           /\ Share(q, x) = One(x = s)
           /\ ~Reads(q, x) /\ ~Locks(q, x) /\ ~Cuts(q, x) /\ ~Cuts(r[t], x)
      /\ \A tab :
           /\ tab[s].ino # NoIno
           /\ \A x \in Slot : tab[x].mount = inode[x].mount
           => Fit(q, tab, super, entry)
  BY ONLY InodeInv, t \in Task, r[t].pc = "iget", s \in Slot, q = Return(Opened(r[t], s)),
          OpenedIs
<1>10. \A x \in Slot : inode'[x].mount = inode[x].mount
  <2>1. inode[e].mount \in BOOLEAN /\ inode'[e].mount \in BOOLEAN
    BY <1>1, <1>5, <1>7 DEF Entry
  <2>2. inode'[e].mount = inode[e].mount
    BY <1>3, <1>7, <2>1
  <2> QED
    BY <1>5, <1>6, <2>2
<1>11. Fit(q, inode', super', entry')
  BY <1>1, <1>2, <1>6, <1>9, <1>10
<1>12. MovesTo(t, q) /\ super' = super /\ V \in SUBSET Slot
  BY <1>1, <1>3, <1>9 DEF MovesTo
<1>13. \A x \in Slot : Counted(t, q, x)
  <2>1. ASSUME NEW x \in Slot
        PROVE  inode'[x].count = inode[x].count - Share(r[t], x) + Share(q, x)
    <3>1. Share(r[t], x) = One(x = e) /\ Share(q, x) = One(x = s) /\ inode[x].count \in Int
      BY <1>1, <1>3, <1>9
    <3>2. CASE x = s
      BY <1>4, <1>6, <3>1, <3>2 DEF One
    <3>3. CASE x = e
      BY <1>3, <1>4, <1>7, <3>1, <3>3 DEF One
    <3>4. CASE x \notin {s, e}
      <4>1. inode'[x].count = inode[x].count
        BY <1>5, <3>4
      <4>2. Share(r[t], x) = 0 /\ Share(q, x) = 0
        BY <3>1, <3>4 DEF One
      <4> QED
        BY <3>1, <4>1, <4>2
    <3> QED
      BY <3>2, <3>3, <3>4
  <2> QED
    BY <1>9, <1>10, <2>1 DEF Counted
<1>14. \A x \in Slot : ~Reads(r[t], x)
  BY DEF Reads
<1>15. \A x \in Slot \ V : Passive(t, q, x)
  BY <1>1, <1>5, <1>9, <1>14 DEF Passive, Same
<1>16. OneEntryPerInode' /\ \A x \in Slot : inode'[x].ino = inode[x].ino
  <2>1. \A x \in Slot : inode'[x].ino = inode[x].ino
    BY <1>3, <1>5, <1>6, <1>7
  <2> QED
    BY <2>1, InodesStayApart
<1>17. /\ \A x : Reading(x)' <=> Reads(q, x) \/ \E u \in Task \ {t} : Reads(r[u], x)
       /\ \A x : Reading(x) <=> Reads(r[t], x) \/ \E u \in Task \ {t} : Reads(r[u], x)
       /\ \A x : Truncating(x)' <=> Cuts(q, x) \/ \E u \in Task \ {t} : Cuts(r[u], x)
       /\ \A x : Truncating(x) <=> Cuts(r[t], x) \/ \E u \in Task \ {t} : Cuts(r[u], x)
  BY OneTaskMoves DEF InodeInv
<1>18. \A j \in Ino : Kept(j) \/ InoAt(j)'
  <2>1. ASSUME NEW x \in Slot PROVE Reading(x)' <=> Reading(x)
    <3>1. ~Reads(q, x) /\ ~Reads(r[t], x)
      BY <1>9, <1>14
    <3> QED
      BY <1>17, <3>1
  <2> QED
    BY <1>1, <1>16, <2>1, NamesKept DEF Same
<1>19. SlotAt(s)'
  <2>1. SlotAt(s)
    BY DEF InodeInv, SlotInv
  <2>2. /\ Reading(s)' <=> Reading(s)
        /\ Truncating(s)' <=> Truncating(s)
    BY <1>9, <1>14, <1>17
  <2>3. \A d : Passes(inode', super', d) <=> Passes(inode, super, d)
    BY <1>1, <1>10 DEF Passes
  <2>4. i[1] # ROOT_DEV => Passes(inode, super, i[1])
    BY ONLY InodeInv, Reached(inode[s].ino), ReachedIs
  <2> QED
    <3>1. ~inode[s].pipe
      BY <1>2, <2>1 DEF SlotAt
    <3>2. inode[s].mount => \E d \in Device : super'[d].imount = s
      BY <1>1, <2>1 DEF SlotAt
    <3>3. (inode[s].dirt \/ inode[s].lock) => inode[s].count + 1 > 0
      BY <1>1, <2>1 DEF SlotAt
    <3>4. /\ i \in imap' /\ (i[1] = ROOT_DEV \/ i \in Roots)
          /\ i[1] # ROOT_DEV => Passes(inode', super', i[1])
      BY <1>1, <1>2, <2>1, <2>3, <2>4 DEF SlotAt
    <3>5. ~Reading(s)' =>
            (i \in Roots => inode[s].links = 1)
            /\ (entry'[i] > 0 => inode[s].links = entry'[i])
      BY <1>1, <1>2, <2>1, <2>2 DEF SlotAt, Linked
    <3>6. inode[s].links > 0 /\ ~inode[s].dirt /\ ~Reading(s)' /\ ~Truncating(s)' =>
            disk'[i] = [links |-> inode[s].links, zone |-> inode[s].zone]
      BY <1>1, <1>2, <2>1, <2>2 DEF SlotAt
    <3> QED
      BY <1>2, <1>6, <3>1, <3>2, <3>3, <3>4, <3>5, <3>6 DEF SlotAt, Linked
<1>20. SlotAt(e)'
  BY <1>7 DEF SlotAt
<1>21. \A x \in V : SlotAt(x)'
  BY <1>19, <1>20
<1>22. \A u \in Task \ {t} : Spared(u, V)
  <2> TAKE u \in Task \ {t}
  <2>1. ~Refers(r[u], e)
    BY <1>3
  <2>2. Undisturbed(r[u], e)
    BY <1>3, <2>1, StrangersAreUndisturbed
  <2>3. ~Frozen(r[u], s) /\ ~Locks(r[u], s)
    BY ReachedIsNotFrozen, NobodyLocks
  <2>4. Undisturbed(r[u], s)
    BY <1>6, <2>3 DEF Undisturbed, Frozen
  <2> QED
    BY <1>1, <2>2, <2>4 DEF Spared
<1> HIDE DEF V
<1> QED
  BY <1>8, <1>11, <1>12, <1>13, <1>15, <1>16, <1>18, <1>21, <1>22, InodesStep

\* The registers with which iget reads inode i are as they must be.
LEMMA ReadsToIs ==
  ASSUME InodeInv, NEW t \in Task, NEW e \in Slot, e = r[t].empty,
         NEW i \in Ino \cup {NoIno}
  PROVE  ReadsTo(r[t], [r[t] EXCEPT !.pc = "read_inode", !.s = e, !.ino = i], e, i)
<1> DEFINE a == r[t].ret
           q == [r[t] EXCEPT !.pc = "read_inode", !.s = e, !.ino = i]
           p1 == [r[t] EXCEPT !.pc = "read_inode"]
           p2 == [p1 EXCEPT !.s = e]
           p3 == [p2 EXCEPT !.ino = i]
<1>1. Shaped(r[t]) /\ "read_inode" \in Places
  BY RegistersAre DEF Places, Taking
<1>2. p1 \in Shape(a)
  BY <1>1, ShapeKept DEF Shaped
<1>3. p2 \in Shape(a)
  <2> HIDE DEF p1, a
  <2> QED
    BY <1>2, ShapeKept
<1>4. p3 \in Shape(a)
  <2> HIDE DEF p2, a
  <2> QED
    BY <1>3, ShapeKept
<1>5. q = p3
  BY <1>1 DEF Shaped, Shape
<1>6. /\ q.pc = "read_inode" /\ q.ret = a /\ q.s = e /\ q.ino = i
      /\ q.empty = r[t].empty /\ q.file = r[t].file /\ q.refs = r[t].refs /\ q.dev = r[t].dev
  BY <1>1 DEF Shaped, Shape
<1> HIDE DEF q, p3
<1>7. Shaped(q)
  BY <1>4, <1>5, <1>6 DEF Shaped
<1>8. ReadsTo(r[t], q, e, i)
  BY <1>6, <1>7 DEF ReadsTo
<1> QED
  BY <1>8 DEF q

LEMMA Keeps_iget ==
  ASSUME InodeInv, NEW t \in Task, iget(t)
  PROVE  InodeInv'
<1>1. r[t].pc = "iget" /\ UNCHANGED fs /\ Search(t)
  BY DEF iget, At
<1>2. PICK e \in Slot : e = r[t].empty
  <2>1. Sound(r[t])
    BY RegistersAre
  <2> QED
    BY <1>1, <2>1 DEF Sound, Shaped, Shape, Taking
<1>3. PICK i : i = Crossed(r[t].ino)
  OBVIOUS
<1>4. Reached(i) /\ i \in Ino \cup {NoIno}
  BY <1>1, <1>3, CrossedIs DEF Reached
<1>5. \/ UNCHANGED <<inode, r>>
      \/ /\ SlotsOf(i) = {}
         /\ Put(e, [inode[e] EXCEPT !.ino = i, !.lock = TRUE])
         /\ Set(t, [r[t] EXCEPT !.pc = "read_inode", !.s = e, !.ino = i])
      \/ \E s \in SlotsOf(i) :
           /\ Set(t, [r[t] EXCEPT !.pc = "iget", !.s = s, !.ino = i])
           /\ UNCHANGED inode
      \/ \E s \in SlotsOf(i) :
           /\ Unlocked(s)
           /\ inode' = [inode EXCEPT ![s].count = @ + 1, ![e].count = @ - 1]
           /\ Set(t, Return(Opened(r[t], s)))
  BY <1>1, <1>2, <1>3, Zenon DEF Search, Panic, Opened
<1>6. CASE UNCHANGED <<inode, r>>
  BY <1>1, <1>6, NothingChanges DEF fs
<1>7. CASE /\ SlotsOf(i) = {}
           /\ Put(e, [inode[e] EXCEPT !.ino = i, !.lock = TRUE])
           /\ Set(t, [r[t] EXCEPT !.pc = "read_inode", !.s = e, !.ino = i])
  <2> DEFINE q == [r[t] EXCEPT !.pc = "read_inode", !.s = e, !.ino = i]
  <2>1. inode' = [inode EXCEPT ![e] = ToRead(inode[e], i)] /\ r' = [r EXCEPT ![t] = q]
    BY <1>7 DEF Put, Set, ToRead
  <2>2. ReadsTo(r[t], q, e, i)
    BY <1>2, <1>4, ReadsToIs
  <2> HIDE DEF q
  <2>3. IgetReads
    BY IgetReadsKeeps
  <2> QED
    BY <1>1, <1>2, <1>4, <1>7, <2>1, <2>2, <2>3 DEF IgetReads
<1>8. CASE \E s \in SlotsOf(i) :
             /\ Set(t, [r[t] EXCEPT !.pc = "iget", !.s = s, !.ino = i])
             /\ UNCHANGED inode
  <2>1. PICK s \in Slot : /\ r' = [r EXCEPT ![t] = [r[t] EXCEPT !.pc = "iget", !.s = s, !.ino = i]]
                          /\ UNCHANGED inode
    BY <1>8 DEF SlotsOf, Set
  <2> QED
    BY <1>1, <1>4, <2>1, IgetWaits
<1>9. CASE \E s \in SlotsOf(i) :
             /\ Unlocked(s)
             /\ inode' = [inode EXCEPT ![s].count = @ + 1, ![e].count = @ - 1]
             /\ Set(t, Return(Opened(r[t], s)))
  <2>1. PICK s \in SlotsOf(i) :
             /\ Unlocked(s)
             /\ inode' = [inode EXCEPT ![s].count = @ + 1, ![e].count = @ - 1]
             /\ Set(t, Return(Opened(r[t], s)))
    BY <1>9
  <2> DEFINE q == Return(Opened(r[t], s))
  <2>2. s \in Slot /\ inode[s].ino = i /\ ~inode[s].lock /\ r' = [r EXCEPT ![t] = q]
    BY <2>1 DEF SlotsOf, Unlocked, Set
  <2>3. Reached(inode[s].ino) /\ q = Return(Opened(r[t], s))
    BY <1>4, <2>2
  <2> HIDE DEF q
  <2> QED
    BY <1>1, <1>2, <2>1, <2>2, <2>3, IgetFinds
<1> QED
  BY <1>5, <1>6, <1>7, <1>8, <1>9, Zenon

-----------------------------------------------------------------------------
(* new_inode and the names of inodes                                       *)

\* The entry of a new inode.
Made(e, i) == [e EXCEPT !.ino = i, !.links = 1, !.dirt = TRUE]

LEMMA MadeIs ==
  ASSUME NEW e \in Entry, NEW i \in Ino
  PROVE  /\ Made(e, i) \in Entry /\ Made(e, i).dirt /\ Made(e, i).ino = i
         /\ Made(e, i).links = 1
         /\ Made(e, i).count = e.count /\ Made(e, i).lock = e.lock
         /\ Made(e, i).mount = e.mount /\ Made(e, i).pipe = e.pipe
<1> DEFINE a == [e EXCEPT !.ino = i]
           b == [a EXCEPT !.links = 1]
           c == [b EXCEPT !.dirt = TRUE]
<1>1. Made(e, i) = c
  BY DEF Made, Entry
<1>2. a \in Entry
  BY DEF Entry
<1>3. /\ a.count = e.count /\ a.ino = i /\ a.mount = e.mount
      /\ a.pipe = e.pipe /\ a.lock = e.lock
  BY DEF Entry
<1> HIDE DEF a
<1>4. b \in Entry
  BY <1>2 DEF Entry
<1>5. /\ b.links = 1 /\ b.count = a.count /\ b.ino = a.ino
      /\ b.mount = a.mount /\ b.pipe = a.pipe /\ b.lock = a.lock
  BY <1>2 DEF Entry
<1> HIDE DEF b
<1>6. c \in Entry
  BY <1>4 DEF Entry
<1>7. /\ c.links = b.links /\ c.lock = b.lock /\ c.count = b.count /\ c.ino = b.ino
      /\ c.mount = b.mount /\ c.pipe = b.pipe /\ c.dirt
  BY <1>4 DEF Entry
<1> HIDE DEF c
<1> QED
  BY <1>1, <1>3, <1>5, <1>6, <1>7

\* The registers of the task that has made it, with p before.
Makes(p, q, e) ==
  /\ Shaped(q) /\ q.pc = "add_entry" /\ q.ret = p.ret /\ q.s = p.s /\ q.ino = p.ino
  /\ q.empty = None /\ q.file = e /\ q.refs = 1 /\ q.dev = p.dev

LEMMA MakesIs ==
  ASSUME NEW p, Shaped(p), NEW e \in Slot
  PROVE  Makes(p, [p EXCEPT !.pc = "add_entry", !.file = e, !.refs = 1, !.empty = None], e)
<1> DEFINE a == p.ret
           one == 1
           q == [p EXCEPT !.pc = "add_entry", !.file = e, !.refs = 1, !.empty = None]
           p1 == [p EXCEPT !.pc = "add_entry"]
           p2 == [p1 EXCEPT !.file = e]
           p3 == [p2 EXCEPT !.refs = one]
           p4 == [p3 EXCEPT !.empty = None]
<1>1. "add_entry" \in Places /\ one \in 0 .. 2
  BY DEF Places
<1>2. p1 \in Shape(a)
  BY <1>1, ShapeKept DEF Shaped
<1>3. p2 \in Shape(a)
  <2> HIDE DEF p1, a
  <2> QED
    BY <1>2, ShapeKept
<1>4. p3 \in Shape(a)
  <2> HIDE DEF p2, a, one
  <2> QED
    BY <1>1, <1>3, ShapeKept
<1>5. p4 \in Shape(a)
  <2> HIDE DEF p3, a
  <2> QED
    BY <1>4, ShapeKept
<1>6. q = p4
  BY DEF Shaped, Shape
<1>7. /\ q.pc = "add_entry" /\ q.ret = a /\ q.s = p.s /\ q.ino = p.ino
      /\ q.empty = None /\ q.file = e /\ q.refs = 1 /\ q.dev = p.dev
  BY DEF Shaped, Shape
<1> HIDE DEF q, p4
<1>8. Shaped(q)
  BY <1>5, <1>6, <1>7 DEF Shaped
<1>9. Makes(p, q, e)
  BY <1>7, <1>8 DEF Makes
<1> QED
  BY <1>9 DEF q

\* new_inode has found the free inode i.
InodeMade ==
  \A t \in Task : \A e \in Slot : \A i \in Ino : \A q :
    /\ r[t].pc = "new_inode" /\ e = r[t].empty /\ i \notin imap /\ i[1] = ROOT_DEV
    /\ Makes(r[t], q, e) /\ r' = [r EXCEPT ![t] = q]
    /\ inode' = [inode EXCEPT ![e] = Made(inode[e], i)] /\ imap' = imap \cup {i}
    /\ UNCHANGED <<disk, zmap, ind, super, entry>>
    => InodeInv'

LEMMA InodeMadeKeeps ==
  ASSUME InodeInv
  PROVE  InodeMade
<1> SUFFICES ASSUME NEW t \in Task, NEW e \in Slot, NEW i \in Ino, NEW q,
                    r[t].pc = "new_inode", e = r[t].empty, i \notin imap, i[1] = ROOT_DEV,
                    Makes(r[t], q, e), r' = [r EXCEPT ![t] = q],
                    inode' = [inode EXCEPT ![e] = Made(inode[e], i)], imap' = imap \cup {i},
                    UNCHANGED <<disk, zmap, ind, super, entry>>
             PROVE  InodeInv'
  BY DEF InodeMade
<1> DEFINE V == {e}
<1>1. PICK new : new = Made(inode[e], i)
  OBVIOUS
<1>2. /\ inode \in [Slot -> Entry] /\ \A s \in Slot : inode[s].count \in Int
      /\ imap \subseteq Ino /\ entry \in [Ino -> Nat]
  BY DEF InodeInv, TypeInv, Entry
<1>3. i # NoIno /\ InoAt(i)
  BY NoInoIsNone DEF InodeInv, InoInv
<1>4. /\ new \in Entry /\ new.dirt /\ new.ino = i /\ new.links = 1 /\ new.count = inode[e].count
      /\ new.lock = inode[e].lock /\ new.mount = inode[e].mount /\ new.pipe = inode[e].pipe
  BY <1>1, <1>2, MadeIs
<1>5. inode'[e] = new /\ \A s \in Slot \ {e} : inode'[s] = inode[s]
  BY <1>1, <1>2
<1>6. TypeInv'
  <2>1. inode' \in [Slot -> Entry]
    BY <1>1, <1>2, <1>4
  <2> QED
    BY <1>2, <2>1 DEF InodeInv, TypeInv
<1>7. /\ inode[e].count = 1 /\ ~inode[e].pipe /\ ~inode[e].mount
      /\ inode[e].ino = NoIno /\ ~inode[e].lock /\ ~Unmounting(r[t]) /\ ~Putting(r[t])
      /\ \A u \in Task \ {t} : ~Refers(r[u], e)
      /\ \A s \in Slot : Share(r[t], s) = One(s = e) /\ ~Cuts(r[t], s)
      /\ Sound(r[t]) /\ Fit(r[t], inode, super, entry)
  BY EmptyIs
<1>8. q.pc \in Places /\ q.ret \in Returns(q.pc)
  BY <1>7 DEF Makes, Places, Returns, Sound
<1>9. ~Putting(q) /\ ~Unmounting(q)
  BY <1>8, PuttingIs DEF Makes, Puts, Ends
<1>10. Sound(q)
  BY <1>7, <1>8, <1>9, InodeAssumption, StacksDiffer DEF Sound, Makes, Taking, Mapping, Returns
<1>11. /\ \A s \in Slot : Share(q, s) = One(s = e) /\ ~Cuts(q, s) /\ ~Reads(q, s) /\ ~Locks(q, s)
       /\ \A s \in Slot : ~Reads(r[t], s)
  BY <1>9, InodeAssumption DEF Reads, Cuts, Locks, Makes, Share, One
<1>12. \A s \in Slot : inode'[s].mount = inode[s].mount
  BY <1>4, <1>5
<1>13. \A d : Passes(inode, super, d) <=> Passes(inode', super', d)
  BY <1>12 DEF Passes
<1>14. entry[i] = 0 /\ i \notin Roots
  BY <1>2, <1>3 DEF InoAt, Roots
<1>15. Fit(q, inode', super', entry')
  <2>1. /\ q.pc = "add_entry" /\ q.empty = None /\ q.ino = r[t].ino /\ q.file = e
    BY DEF Makes
  <2>2. /\ inode'[e].count = 1 /\ inode'[e].links = 1 /\ inode'[e].ino = i
    BY <1>4, <1>5, <1>7
  <2>3. q.ino # NoIno =>
          entry'[q.ino] > 0 \/ (q.ino \in Roots /\ Passes(inode', super', q.ino[1]))
    BY <1>7, <1>13, <2>1 DEF Fit
  <2> QED
    BY <1>3, <1>9, <1>14, <2>1, <2>2, <2>3 DEF Fit, Mapping, Filled
<1>16. MovesTo(t, q) /\ super' = super /\ V \in SUBSET Slot
  BY <1>7, <1>9, <1>10 DEF MovesTo, Makes
<1>17. \A s \in Slot : Counted(t, q, s)
  BY <1>2, <1>4, <1>5, <1>7, <1>11, <1>12 DEF Counted, One
<1>18. \A s \in Slot : inode[s].ino # i
  BY <1>3 DEF InodeInv, SlotInv, SlotAt
<1>19. \A s \in Slot \ V : Passive(t, q, s)
  BY <1>5, <1>7, <1>11, <1>18 DEF Passive, Same
<1>20. OneEntryPerInode'
  BY <1>4, <1>5, <1>18 DEF InodeInv, OneEntryPerInode
<1>21. /\ \A s : Reading(s)' <=> Reads(q, s) \/ \E u \in Task \ {t} : Reads(r[u], s)
       /\ \A s : Reading(s) <=> Reads(r[t], s) \/ \E u \in Task \ {t} : Reads(r[u], s)
  BY OneTaskMoves DEF InodeInv
<1>22. ~Reading(e)'
  BY <1>7, <1>11, <1>21, WritersDoNotRead
<1>23. ASSUME NEW j \in Ino PROVE Kept(j) \/ InoAt(j)'
  <2>1. CASE j = i
    <3>1. e \in SlotsOf(i)'
      BY <1>4, <1>5 DEF SlotsOf
    <3> QED
      BY <1>14, <1>22, <2>1, <3>1 DEF InoAt
  <2>2. CASE j # i
    <3>1. \A s \in Slot : inode'[s].ino = j <=> inode[s].ino = j
      BY <1>4, <1>5, <1>7, <2>2, NoInoIsNone
    <3>2. \A s \in Slot : inode[s].ino = j /\ Reading(s)' => Reading(s)
      BY <1>11, <1>21
    <3> QED
      BY <2>2, <3>1, <3>2 DEF Kept, Same
  <2> QED
    BY <2>1, <2>2
<1>24. SlotAt(e)'
  <2>1. Linked(i, 1)'
    BY <1>2, <1>14 DEF Linked
  <2>2. imap' = imap \cup {i}
    OBVIOUS
  <2> DEFINE j == inode'[e]
  <2>3. /\ j.ino = i /\ i # NoIno /\ i \in imap' /\ i[1] = ROOT_DEV /\ j.links = 1
        /\ ~j.pipe /\ ~j.mount /\ j.count = 1 /\ j.dirt
    BY <1>3, <1>4, <1>5, <1>7, <2>2
  <2> QED
    BY <2>1, <2>3 DEF SlotAt
<1>25. \A u \in Task \ {t} : Spared(u, V)
  <2> TAKE u \in Task \ {t}
  <2>1. ~Refers(r[u], e)
    BY <1>7
  <2> QED
    BY <1>7, <2>1, StrangersAreUndisturbed DEF Spared
<1>26. \A s \in V : SlotAt(s)'
  BY <1>24
<1> HIDE DEF V
<1> QED
  BY <1>6, <1>15, <1>16, <1>17, <1>19, <1>20, <1>23, <1>25, <1>26, InodesStep

LEMMA Keeps_new_inode ==
  ASSUME InodeInv, NEW t \in Task, new_inode(t)
  PROVE  InodeInv'
<1> DEFINE free == {j \in Ino \ imap : j[1] = ROOT_DEV}
<1>1. r[t].pc = "new_inode" /\ UNCHANGED <<disk, zmap, ind, super, entry>>
  BY DEF new_inode, At
<1>2. PICK e \in Slot : e = r[t].empty
  <2>1. Sound(r[t])
    BY RegistersAre
  <2> QED
    BY <1>1, <2>1 DEF Sound, Shaped, Shape, Taking
<1>3. PICK i : i = CHOOSE j \in free : \A x \in free : j[2] <= x[2]
  OBVIOUS
<1>4. CASE free = {}
  <2> DEFINE q == Holding(None, 0)
             new == Dropped(inode[e])
             h == None
             n == 0
  <2>1. /\ inode' = [inode EXCEPT ![e].count = @ - 1] /\ r' = [r EXCEPT ![t] = Return(r[t])]
        /\ UNCHANGED imap
    BY <1>2, <1>4 DEF new_inode, Set
  <2>2. Return(r[t]) = q
    <3>1. Sound(r[t]) /\ r[t].ret \in Returns(r[t].pc)
      BY RegistersAre
    <3>2. r[t].ret = << >> /\ r[t].file = None /\ r[t].refs = 0
      BY <1>1, <1>2, <3>1, EmptyIs DEF Returns
    <3> QED
      BY <3>2 DEF Return, Leave, Holding
  <2>3. Stores(e, new) /\ r' = [r EXCEPT ![t] = q] /\ UNCHANGED fs
    BY <1>1, <2>1, <2>2 DEF Stores, Dropped, fs
  <2>4. /\ new \in Entry /\ new.ino = NoIno /\ ~new.mount /\ ~new.dirt /\ ~new.lock /\ new.count = 0
    BY <1>1, <1>2, EmptyIs, DroppedIs
  <2>5. Settles(e, new, h, n) /\ q = Holding(h, n) /\ r[t].pc # "read_inode"
    BY <1>1, <2>4 DEF Settles
  <2> HIDE DEF q, new, h, n
  <2> QED
    BY <1>2, <2>3, <2>5, EmptyBecomes
<1>5. CASE free # {}
  <2> DEFINE q == [r[t] EXCEPT !.pc = "add_entry", !.file = e, !.refs = 1, !.empty = None]
  <2>1. i \in free
    <3> DEFINE T == {j[2] : j \in free}
    <3>1. free \subseteq (Nat \ {0}) \X (Nat \ {0})
      BY InodeAssumption
    <3>2. T \in SUBSET Nat /\ T # {}
      BY <1>5, <3>1
    <3> HIDE DEF T
    <3>3. PICK x \in T : \A y \in T : x <= y
      BY <3>2, LeastElement
    <3>4. PICK j \in free : x = j[2]
      BY <3>3 DEF T
    <3>5. \A y \in free : y[2] \in T
      BY DEF T
    <3> HIDE DEF free
    <3>6. \A y \in free : j[2] <= y[2]
      BY <3>3, <3>4, <3>5
    <3> QED
      BY <1>3, <3>4, <3>6
  <2>2. /\ imap' = imap \cup {i}
        /\ Put(e, [inode[e] EXCEPT !.ino = i, !.links = 1, !.dirt = TRUE])
        /\ Set(t, q)
    BY <1>2, <1>3, <1>5 DEF new_inode
  <2>3. inode' = [inode EXCEPT ![e] = Made(inode[e], i)] /\ r' = [r EXCEPT ![t] = q]
    BY <2>2 DEF Put, Set, Made
  <2>4. Makes(r[t], q, e)
    BY RegistersAre, MakesIs
  <2>5. i \in Ino /\ i \notin imap /\ i[1] = ROOT_DEV
    BY <2>1
  <2> HIDE DEF q
  <2>6. InodeMade
    BY InodeMadeKeeps
  <2> QED
    BY <1>1, <1>2, <2>2, <2>3, <2>4, <2>5, <2>6 DEF InodeMade
<1> QED
  BY <1>4, <1>5

\* What a task that has made an inode knows about it.
LEMMA MakerIs ==
  ASSUME InodeInv, NEW t \in Task, r[t].pc = "add_entry"
  PROVE  /\ Sound(r[t]) /\ r[t].ret = << >> /\ r[t].file \in Slot /\ r[t].refs = 1
         /\ r[t].empty = None /\ ~Putting(r[t]) /\ ~Unmounting(r[t])
         /\ \A s \in Slot : ~Reads(r[t], s) /\ ~Cuts(r[t], s) /\ ~Locks(r[t], s)
         /\ \A s \in Slot : Share(r[t], s) = One(s = r[t].file)
         /\ LET s == r[t].file
                i == inode[s].ino
            IN /\ i \in Ino /\ i # NoIno /\ i[1] = ROOT_DEV /\ i \in imap /\ i \notin Roots
               /\ inode[s].count = 1 /\ inode[s].links = 1 /\ entry[i] = 0
               /\ Refers(r[t], s) /\ ~Reading(s)
               /\ \A u \in Task \ {t} : ~Refers(r[u], s)
<1>1. /\ Sound(r[t]) /\ Shaped(r[t]) /\ Fit(r[t], inode, super, entry)
      /\ r[t].ret \in Returns(r[t].pc)
      /\ (Unmounting(r[t]) <=> Ends(r[t])) /\ (Putting(r[t]) <=> Puts(r[t]))
  BY RegistersAre
<1>2. r[t].ret = << >> /\ r[t].refs = 1 /\ r[t].empty = None
  BY <1>1 DEF Returns, Sound, Taking
<1>3. r[t].file \in Slot
  BY <1>1, <1>2 DEF Sound, Shaped, Shape
<1>4. ~Putting(r[t]) /\ ~Unmounting(r[t])
  BY <1>1 DEF Puts, Ends
<1>5. \A s \in Slot : ~Reads(r[t], s) /\ ~Cuts(r[t], s) /\ ~Locks(r[t], s)
  BY DEF Reads, Cuts, Locks
<1>6. \A s \in Slot : Share(r[t], s) = One(s = r[t].file)
  BY <1>2, <1>4, InodeAssumption DEF Share, One
<1>7. PICK v \in Slot : v = r[t].file
  BY <1>3
<1>8. /\ inode[v].ino # NoIno /\ inode[v].ino[1] = ROOT_DEV
      /\ inode[v].count = 1 /\ inode[v].links = 1 /\ entry[inode[v].ino] = 0
  BY <1>1, <1>7 DEF Fit
<1>9. inode[v].ino \in Ino /\ SlotAt(v)
  BY <1>8 DEF InodeInv, TypeInv, SlotInv, Entry
<1>10. inode[v].ino \in imap /\ inode[v].ino \notin Roots
  BY <1>8, <1>9 DEF SlotAt, Roots
<1>11. Refers(r[t], v) /\ \A u \in Task \ {t} : ~Refers(r[u], v)
  <2>1. Refers(r[t], v) /\ inode[v].count < 2
    BY <1>7, <1>8 DEF Refers
  <2> QED
    BY <2>1, AloneUser
<1>12. ~Reading(v)
  <2>1. SUFFICES ASSUME NEW u \in Task, Reads(r[u], v) PROVE FALSE
    BY DEF Reading, Reads
  <2>2. Sound(r[u])
    BY RegistersAre
  <2>3. Refers(r[u], v)
    BY <2>1, <2>2 DEF Reads, Refers, Sound
  <2> QED
    BY <1>5, <1>11, <2>1, <2>3
<1> QED
  BY <1>1, <1>2, <1>3, <1>4, <1>5, <1>6, <1>7, <1>8, <1>9, <1>10, <1>11, <1>12

\* The new inode gets its name.
NameAdded ==
  \A t \in Task : \A s \in Slot :
    /\ r[t].pc = "add_entry" /\ s = r[t].file
    /\ entry' = [entry EXCEPT ![inode[s].ino] = @ + 1]
    /\ r' = [r EXCEPT ![t] = Leave(r[t])]
    /\ UNCHANGED <<inode, disk, imap, zmap, ind, super>>
    => InodeInv'

LEMMA NameAddedKeeps ==
  ASSUME InodeInv
  PROVE  NameAdded
<1> SUFFICES ASSUME NEW t \in Task, NEW s \in Slot, r[t].pc = "add_entry", s = r[t].file,
                    entry' = [entry EXCEPT ![inode[s].ino] = @ + 1],
                    r' = [r EXCEPT ![t] = Leave(r[t])],
                    UNCHANGED <<inode, disk, imap, zmap, ind, super>>
             PROVE  InodeInv'
  BY DEF NameAdded
<1> DEFINE V == {s}
           q == Leave(r[t])
<1>1. PICK i : i = inode[s].ino
  OBVIOUS
<1>2. /\ inode \in [Slot -> Entry] /\ \A x \in Slot : inode[x].count \in Int
      /\ imap \subseteq Ino /\ entry \in [Ino -> Nat]
  BY DEF InodeInv, TypeInv, Entry
<1>3. /\ Sound(r[t]) /\ r[t].refs = 1 /\ ~Unmounting(r[t])
      /\ \A x \in Slot : ~Reads(r[t], x) /\ ~Cuts(r[t], x)
      /\ \A x \in Slot : Share(r[t], x) = One(x = s)
      /\ i \in Ino /\ i # NoIno /\ i[1] = ROOT_DEV /\ i \in imap /\ i \notin Roots
      /\ inode[s].count = 1 /\ inode[s].links = 1 /\ entry[i] = 0
      /\ ~Reading(s) /\ \A u \in Task \ {t} : ~Refers(r[u], s)
  BY <1>1, MakerIs
<1>4. entry'[i] = 1 /\ \A j \in Ino \ {i} : entry'[j] = entry[j]
  BY <1>1, <1>2, <1>3
<1>5. TypeInv'
  <2>1. entry' \in [Ino -> Nat]
    BY <1>1, <1>2, <1>3
  <2> QED
    BY <2>1 DEF InodeInv, TypeInv
<1>6. /\ Sound(q) /\ q.pc = "user" /\ ~Unmounting(q)
      /\ \A x \in Slot : ~Reads(q, x) /\ ~Locks(q, x) /\ ~Cuts(q, x)
      /\ \A x \in Slot : Share(q, x) = IF r[t].file = x THEN r[t].refs ELSE 0
      /\ \A tab, supers, names :
           (r[t].file # None => Filled(tab[r[t].file])) => Fit(q, tab, supers, names)
  BY <1>3, LeaveIsSound
<1>7. r' = [r EXCEPT ![t] = q]
  OBVIOUS
<1> HIDE DEF q
<1>8. Fit(q, inode', super', entry')
  <2>1. Filled(inode'[r[t].file])
    BY <1>1, <1>3 DEF Filled
  <2> QED
    BY <1>6, <2>1
<1>9. MovesTo(t, q) /\ super' = super /\ V \in SUBSET Slot
  BY <1>3, <1>6, <1>7 DEF MovesTo
<1>10. \A x \in Slot : Share(q, x) = Share(r[t], x) /\ Share(q, x) \in Int
  BY <1>3, <1>6 DEF One
<1>11. \A x \in Slot : Counted(t, q, x)
  BY <1>2, <1>6, <1>10 DEF Counted
<1>12. \A x \in Slot \ V : Passive(t, q, x)
  <2> TAKE x \in Slot \ V
  <2>1. inode[x].ino # NoIno => inode[x].ino # i /\ inode[x].ino \in Ino
    BY <1>1, <1>2, <1>3 DEF InodeInv, OneEntryPerInode, Entry
  <2> QED
    BY <1>3, <1>4, <1>6, <2>1 DEF Passive, Same
<1>13. OneEntryPerInode'
  BY DEF InodeInv, OneEntryPerInode
<1>14. /\ \A x : Reading(x)' <=> Reads(q, x) \/ \E u \in Task \ {t} : Reads(r[u], x)
       /\ \A x : Reading(x) <=> Reads(r[t], x) \/ \E u \in Task \ {t} : Reads(r[u], x)
       /\ \A x : Truncating(x)' <=> Cuts(q, x) \/ \E u \in Task \ {t} : Cuts(r[u], x)
       /\ \A x : Truncating(x) <=> Cuts(r[t], x) \/ \E u \in Task \ {t} : Cuts(r[u], x)
  BY <1>7, OneTaskMoves DEF InodeInv
<1>15. \A x \in Slot : (Reading(x)' <=> Reading(x)) /\ (Truncating(x)' <=> Truncating(x))
  BY <1>3, <1>6, <1>14
<1>16. ASSUME NEW j \in Ino PROVE Kept(j) \/ InoAt(j)'
  <2>1. CASE j = i
    <3>1. s \in SlotsOf(i)' /\ ~Reading(s)'
      BY <1>1, <1>3, <1>15 DEF SlotsOf
    <3>2. InoAt(i)'
      BY <1>3, <3>1 DEF InoAt
    <3> QED
      BY <2>1, <3>2
  <2>2. CASE j # i
    <3>1. Same(j)
      BY <1>4, <2>2 DEF Same
    <3> QED
      BY <1>15, <3>1, NamesKept
  <2> QED
    BY <2>1, <2>2
<1>17. SlotAt(s)'
  <2>1. SlotAt(s)
    BY DEF InodeInv, SlotInv
  <2>2. \A d : Passes(inode', super', d) <=> Passes(inode, super, d)
    BY DEF Passes
  <2>3. Linked(i, 1)'
    BY <1>3, <1>4 DEF Linked
  <2>4. inode'[s].ino = i /\ inode'[s].links = 1
    BY <1>1, <1>3
  <2> QED
    BY <1>1, <1>3, <1>15, <2>1, <2>2, <2>3, <2>4 DEF SlotAt
<1>18. \A u \in Task \ {t} : Spared(u, V)
  <2> TAKE u \in Task \ {t}
  <2>1. ~Refers(r[u], s) /\ ~Frozen(r[u], s)
    BY <1>3, FrozenIsUsed
  <2>2. \A x \in V : Undisturbed(r[u], x)
    <3>1. Locks(r[u], s) => inode[s].lock
      BY NobodyLocks
    <3> QED
      BY <2>1, <3>1 DEF Undisturbed, Frozen
  <2>3. Sound(r[u]) /\ Fit(r[u], inode, super, entry)
    BY RegistersAre
  <2>4. r[u].ino # NoIno => r[u].ino # i /\ r[u].ino \in Ino
    BY <1>3, <2>3 DEF Fit, Sound, Shaped, Shape
  <2>5. r[u].pc = "add_entry" => inode[r[u].file].ino # i /\ inode[r[u].file].ino \in Ino
    <3>1. SUFFICES ASSUME r[u].pc = "add_entry" PROVE inode[r[u].file].ino # i /\ inode[r[u].file].ino \in Ino
      OBVIOUS
    <3>2. r[u].file \in Slot /\ Refers(r[u], r[u].file) /\ inode[r[u].file].ino \in Ino
      BY <3>1, MakerIs
    <3>3. r[u].file # s
      BY <1>3, <3>2
    <3> QED
      BY <1>1, <1>3, <3>2, <3>3 DEF InodeInv, OneEntryPerInode
  <2> QED
    BY <1>4, <2>2, <2>4, <2>5 DEF Spared
<1>19. \A x \in V : SlotAt(x)'
  BY <1>17
<1> HIDE DEF V
<1> QED
  BY <1>5, <1>8, <1>9, <1>11, <1>12, <1>13, <1>16, <1>18, <1>19, InodesStep

\* The registers of a task that gives back the entry s without having it open.
GivingBack(s) == [Registers EXCEPT !.pc = "iput", !.s = s]

LEMMA GivingBackIs ==
  ASSUME NEW s \in Slot
  PROVE  LET q == GivingBack(s)
         IN /\ Sound(q) /\ ~Unmounting(q) /\ q.pc = "iput" /\ q.file = None
            /\ \A x : ~Reads(q, x) /\ ~Locks(q, x) /\ ~Cuts(q, x)
            /\ \A x \in Slot : Share(q, x) = One(x = s)
            /\ \A tab, supers, names : Filled(tab[s]) => Fit(q, tab, supers, names)
<1> DEFINE p == [Registers EXCEPT !.pc = "iput"]
           q == GivingBack(s)
<1>1. p \in Shape(<< >>)
  BY RegistersHaveShape, ShapeKept DEF Places
<1>2. q = [p EXCEPT !.s = s]
  BY DEF Registers, GivingBack
<1>3. q \in Shape(<< >>)
  <2> HIDE DEF p, q
  <2> QED
    BY <1>1, <1>2, ShapeKept
<1>4. /\ q.pc = "iput" /\ q.file = None /\ q.refs = 0 /\ q.empty = None /\ q.s = s
      /\ q.ino = NoIno /\ q.ret = << >>
  BY DEF Registers, GivingBack
<1> HIDE DEF q
<1>5. q.pc \in Places /\ q.ret \in Returns(q.pc)
  BY <1>4 DEF Places, Returns
<1>6. Putting(q) /\ ~Unmounting(q)
  BY <1>4, <1>5, PuttingIs DEF Puts, Ends
<1>7. Sound(q)
  BY <1>3, <1>4, <1>5, <1>6, StacksDiffer, InodeAssumption
  DEF Sound, Shaped, Taking, Mapping
<1>8. \A x \in Slot : Share(q, x) = One(x = s)
  BY <1>4, <1>6, InodeAssumption DEF Share, One
<1>9. \A x : ~Reads(q, x) /\ ~Locks(q, x) /\ ~Cuts(q, x)
  BY <1>4 DEF Reads, Locks, Cuts
<1>10. \A tab, supers, names : Filled(tab[s]) => Fit(q, tab, supers, names)
  BY <1>4, <1>6 DEF Fit, Mapping
<1> QED
  BY <1>4, <1>6, <1>7, <1>8, <1>9, <1>10 DEF q

\* There is no room for the name: the new inode has no links, and is given back.
Unlinked(i) == [i EXCEPT !.links = 0]
NameRefused ==
  \A t \in Task : \A s \in Slot :
    /\ r[t].pc = "add_entry" /\ s = r[t].file
    /\ inode' = [inode EXCEPT ![s] = Unlinked(inode[s])]
    /\ r' = [r EXCEPT ![t] = GivingBack(s)]
    /\ UNCHANGED fs
    => InodeInv'

LEMMA NameRefusedKeeps ==
  ASSUME InodeInv
  PROVE  NameRefused
<1> SUFFICES ASSUME NEW t \in Task, NEW s \in Slot, r[t].pc = "add_entry", s = r[t].file,
                    inode' = [inode EXCEPT ![s] = Unlinked(inode[s])],
                    r' = [r EXCEPT ![t] = GivingBack(s)],
                    UNCHANGED fs
             PROVE  InodeInv'
  BY DEF NameRefused
<1> DEFINE V == {s}
           q == GivingBack(s)
<1>1. PICK i : i = inode[s].ino
  OBVIOUS
<1>2. /\ inode \in [Slot -> Entry] /\ \A x \in Slot : inode[x].count \in Int
      /\ UNCHANGED <<disk, imap, zmap, ind, super, entry>>
  BY DEF InodeInv, TypeInv, Entry, fs
<1>3. /\ Sound(r[t]) /\ r[t].refs = 1 /\ ~Unmounting(r[t])
      /\ \A x \in Slot : ~Reads(r[t], x) /\ ~Cuts(r[t], x)
      /\ \A x \in Slot : Share(r[t], x) = One(x = s)
      /\ i \in Ino /\ i # NoIno /\ i[1] = ROOT_DEV /\ i \in imap /\ i \notin Roots
      /\ inode[s].count = 1 /\ inode[s].links = 1 /\ entry[i] = 0
      /\ ~Reading(s) /\ \A u \in Task \ {t} : ~Refers(r[u], s)
  BY <1>1, MakerIs
<1>4. /\ inode'[s].ino = i /\ inode'[s].links = 0 /\ inode'[s].count = inode[s].count
      /\ inode'[s].mount = inode[s].mount /\ inode'[s].dirt = inode[s].dirt
      /\ inode'[s].lock = inode[s].lock /\ inode'[s].pipe = inode[s].pipe
      /\ \A x \in Slot \ {s} : inode'[x] = inode[x]
      /\ inode'[s] \in Entry
  BY <1>1, <1>2 DEF Unlinked, Entry
<1>5. TypeInv'
  <2>1. inode' \in [Slot -> Entry]
    BY <1>2, <1>4
  <2> QED
    BY <1>2, <2>1 DEF InodeInv, TypeInv
<1>6. /\ Sound(q) /\ q.pc = "iput" /\ ~Unmounting(q)
      /\ \A x \in Slot : ~Reads(q, x) /\ ~Locks(q, x) /\ ~Cuts(q, x)
      /\ \A x \in Slot : Share(q, x) = One(x = s)
      /\ \A tab, supers, names : Filled(tab[s]) => Fit(q, tab, supers, names)
  BY GivingBackIs
<1>7. r' = [r EXCEPT ![t] = q]
  OBVIOUS
<1> HIDE DEF q
<1>8. Fit(q, inode', super', entry')
  <2>1. Filled(inode'[s])
    BY <1>3, <1>4 DEF Filled
  <2> QED
    BY <1>6, <2>1
<1>9. MovesTo(t, q) /\ super' = super /\ V \in SUBSET Slot
  BY <1>2, <1>3, <1>6, <1>7 DEF MovesTo
<1>10. \A x \in Slot : Counted(t, q, x)
  <2> TAKE x \in Slot
  <2>1. Share(q, x) = Share(r[t], x) /\ Share(q, x) \in Int
    BY <1>3, <1>6 DEF One
  <2>2. inode'[x].count = inode[x].count /\ inode'[x].mount = inode[x].mount
    BY <1>4
  <2> QED
    BY <1>2, <1>6, <2>1, <2>2 DEF Counted
<1>11. \A x \in Slot \ V : Passive(t, q, x)
  BY <1>2, <1>3, <1>4, <1>6 DEF Passive, Same
<1>12. \A x \in Slot : inode'[x].ino = inode[x].ino
  BY <1>1, <1>4
<1>13. OneEntryPerInode'
  BY <1>12, InodesStayApart
<1>14. /\ \A x : Reading(x)' <=> Reads(q, x) \/ \E u \in Task \ {t} : Reads(r[u], x)
       /\ \A x : Reading(x) <=> Reads(r[t], x) \/ \E u \in Task \ {t} : Reads(r[u], x)
  BY <1>7, OneTaskMoves DEF InodeInv
<1>15. \A x \in Slot : Reading(x)' <=> Reading(x)
  BY <1>3, <1>6, <1>14
<1>16. \A j \in Ino : Kept(j) \/ InoAt(j)'
  BY <1>2, <1>12, <1>15, NamesKept DEF Same
<1>17. SlotAt(s)'
  <2>1. SlotAt(s)
    BY DEF InodeInv, SlotInv
  <2>2. Linked(i, 0)'
    BY <1>2, <1>3 DEF Linked
  <2> DEFINE j == inode'[s]
  <2>3. /\ j.ino = i /\ i # NoIno /\ i \in imap' /\ i[1] = ROOT_DEV /\ j.links = 0
        /\ ~j.pipe /\ j.count > 0
    <3>1. inode[s].ino = i /\ ~inode[s].pipe
      BY <1>1, <1>3, <2>1 DEF SlotAt
    <3> QED
      BY <1>2, <1>3, <1>4, <3>1
  <2>4. j.mount => \E d \in Device : super'[d].imount = s
    BY <1>2, <1>4, <2>1 DEF SlotAt
  <2> QED
    BY <2>2, <2>3, <2>4 DEF SlotAt
<1>18. \A u \in Task \ {t} : Spared(u, V)
  <2> TAKE u \in Task \ {t}
  <2>1. ~Refers(r[u], s) /\ ~Frozen(r[u], s)
    BY <1>3, FrozenIsUsed
  <2>2. Locks(r[u], s) => inode[s].lock
    BY NobodyLocks
  <2> QED
    BY <1>1, <1>2, <1>4, <2>1, <2>2 DEF Spared, Undisturbed, Frozen
<1>19. \A x \in V : SlotAt(x)'
  BY <1>17
<1> HIDE DEF V
<1> QED
  BY <1>5, <1>8, <1>9, <1>10, <1>11, <1>13, <1>16, <1>18, <1>19, InodesStep

LEMMA Keeps_add_entry ==
  ASSUME InodeInv, NEW t \in Task, add_entry(t)
  PROVE  InodeInv'
<1>1. r[t].pc = "add_entry" /\ UNCHANGED <<disk, imap, zmap, ind, super, panic>>
  BY DEF add_entry, At
<1>2. PICK s \in Slot : s = r[t].file
  BY <1>1, MakerIs
<1>3. \/ /\ entry' = [entry EXCEPT ![inode[s].ino] = @ + 1]
         /\ r' = [r EXCEPT ![t] = Leave(r[t])]
         /\ UNCHANGED inode
      \/ /\ inode' = [inode EXCEPT ![s] = Unlinked(inode[s])]
         /\ r' = [r EXCEPT ![t] = GivingBack(s)]
         /\ UNCHANGED entry
  BY <1>2 DEF add_entry, Put, Set, Unlinked, GivingBack
<1>4. NameAdded /\ NameRefused
  BY NameAddedKeeps, NameRefusedKeeps
<1>5. CASE inode' = [inode EXCEPT ![s] = Unlinked(inode[s])] /\ r' = [r EXCEPT ![t] = GivingBack(s)] /\ UNCHANGED entry
  BY <1>1, <1>2, <1>4, <1>5 DEF NameRefused, fs
<1> QED
  BY <1>1, <1>2, <1>3, <1>4, <1>5 DEF NameAdded

\* The inode of a file after unlink.
Unnamed(i) == [i EXCEPT !.links = @ - 1, !.dirt = TRUE]

LEMMA UnnamedIs ==
  ASSUME NEW i \in Entry
  PROVE  /\ Unnamed(i) \in Entry /\ Unnamed(i).links = i.links - 1 /\ Unnamed(i).dirt
         /\ Unnamed(i).ino = i.ino /\ Unnamed(i).count = i.count
         /\ Unnamed(i).mount = i.mount /\ Unnamed(i).lock = i.lock
         /\ Unnamed(i).pipe = i.pipe
<1>1. [i EXCEPT !.links = @ - 1] \in Entry
  BY DEF Entry
<1>2. ASSUME NEW j \in Entry PROVE [j EXCEPT !.dirt = TRUE] \in Entry
  BY DEF Entry
<1>3. Unnamed(i) = [[i EXCEPT !.links = @ - 1] EXCEPT !.dirt = TRUE]
  BY DEF Unnamed, Entry
<1>4. Unnamed(i) \in Entry
  BY <1>1, <1>2, <1>3
<1> QED
  BY <1>4 DEF Unnamed, Entry

\* The root of a device that may be mounted is a directory.
LEMMA RootsAreDirs == Roots \subseteq Dirs
<1> SUFFICES ASSUME NEW i \in Ino, i[1] # ROOT_DEV, i[2] = ROOT_INO PROVE i \in Dirs
  BY DEF Roots
<1>1. i \in (Nat \ {0}) \X (Nat \ {0})
  BY InodeAssumption
<1>2. i = <<i[1], ROOT_INO>>
  BY <1>1
<1>3. <<i[1], ROOT_INO>> \in Dirs
  BY InodeAssumption
<1> QED
  BY <1>2, <1>3

\* Nobody is looking up the name that unlink removes.
LEMMA Keeps_Unlink ==
  ASSUME InodeInv, NoTableRaces, NEW t \in Task, Unlink(t)
  PROVE  InodeInv'
<1> DEFINE q == r[t]
<1>1. /\ r[t].pc = "user" /\ r[t].file # None /\ ~inode[r[t].file].pipe
      /\ UNCHANGED <<disk, imap, zmap, ind, super, r>>
  BY DEF Unlink, Uses, At, File
<1>2. PICK f \in Slot : f = r[t].file
  BY <1>1, UserRegisters
<1>3. PICK i \in Ino : i = inode[f].ino /\ i # NoIno
  BY <1>1, <1>2, FileHasInode
<1>4. /\ i \notin Dirs /\ entry[i] > 0 /\ \A u \in Task : r[u].ino # i
      /\ entry' = [entry EXCEPT ![i] = @ - 1]
      /\ inode' = [inode EXCEPT ![f] = Unnamed(inode[f])]
  BY <1>2, <1>3 DEF Unlink, File, Put, Unnamed, NoTableRaces
<1>5. /\ inode \in [Slot -> Entry] /\ \A x \in Slot : inode[x].count \in Int
      /\ entry \in [Ino -> Nat] /\ imap \subseteq Ino
  BY DEF InodeInv, TypeInv, Entry
<1>6. /\ inode'[f].ino = i /\ inode'[f].links = inode[f].links - 1
      /\ inode'[f].count = inode[f].count /\ inode'[f].mount = inode[f].mount
      /\ inode'[f].dirt /\ inode'[f].lock = inode[f].lock /\ inode'[f].pipe = inode[f].pipe
      /\ \A x \in Slot \ {f} : inode'[x] = inode[x]
      /\ inode'[f] \in Entry
  <2>1. inode'[f] = Unnamed(inode[f]) /\ inode[f] \in Entry
    BY <1>4, <1>5
  <2> QED
    BY <1>3, <1>4, <1>5, <2>1, UnnamedIs
<1>7. entry'[i] = entry[i] - 1 /\ \A j \in Ino \ {i} : entry'[j] = entry[j]
  BY <1>4, <1>5
<1>8. TypeInv'
  <2>1. inode' \in [Slot -> Entry]
    BY <1>4, <1>5, <1>6
  <2>2. entry' \in [Ino -> Nat]
    BY <1>4, <1>5
  <2> QED
    BY <1>1, <2>1, <2>2 DEF InodeInv, TypeInv
<1>9. /\ ~Unmounting(q) /\ q.pc = "user" /\ q.refs \in 0 .. 2
      /\ \A x : ~Reads(q, x) /\ ~Cuts(q, x) /\ ~Locks(q, x)
      /\ Sound(q) /\ Fit(q, inode, super, entry) /\ ~Putting(q)
      /\ q.empty = None /\ q.ino = NoIno
  BY <1>1, UserRegisters, RegistersAre
<1>10. r' = [r EXCEPT ![t] = q]
  BY <1>1 DEF InodeInv, RegInv
<1>11. Share(q, f) \in Int /\ \A x \in Slot : Share(q, x) \in Int
  BY <1>9 DEF Share, One
<1>12. Fit(q, inode', super', entry')
  <2>1. Filled(inode'[f])
    BY <1>3, <1>6 DEF Filled
  <2> QED
    BY <1>2, <1>9, <2>1 DEF Fit, Mapping
<1>13. MovesTo(t, q) /\ super' = super
  BY <1>1, <1>9, <1>10 DEF MovesTo
<1>14. \A x \in Slot : Counted(t, q, x)
  <2> TAKE x \in Slot
  <2>1. inode'[x].count = inode[x].count /\ inode'[x].mount = inode[x].mount
    BY <1>6
  <2> QED
    BY <1>5, <1>9, <1>11, <2>1 DEF Counted
<1>15. \A x \in Slot \ {f} : inode[x].ino # NoIno => inode[x].ino # i /\ inode[x].ino \in Ino
  BY <1>3, <1>5 DEF InodeInv, OneEntryPerInode, Entry
<1> DEFINE V == {f}
<1>16. \A x \in Slot \ V : Passive(t, q, x)
  BY <1>1, <1>6, <1>7, <1>15 DEF Passive, Same
<1>17. \A x \in Slot : inode'[x].ino = inode[x].ino
  BY <1>3, <1>6
<1>18. OneEntryPerInode'
  BY <1>17 DEF InodeInv, OneEntryPerInode
<1>19. \A x \in Slot : (Reading(x)' <=> Reading(x)) /\ (Truncating(x)' <=> Truncating(x))
  BY <1>1 DEF Reading, Truncating
<1>20. \A u \in Task \ {t} : ~Frozen(r[u], f)
  <2>1. Refers(r[t], f)
    BY <1>2 DEF Refers
  <2> QED
    BY <2>1, NotFrozen
<1>21. ~Reading(f)
  <2>1. SUFFICES ASSUME NEW u \in Task, Reads(r[u], f) PROVE FALSE
    BY DEF Reading, Reads
  <2>2. Sound(r[u]) /\ u # t
    BY <1>9, <2>1, RegistersAre
  <2> QED
    BY <1>20, <2>1, <2>2 DEF Reads, Frozen, Sound
<1>22. i \notin Roots
  BY <1>4, RootsAreDirs
<1>23. SlotAt(f)
  BY DEF InodeInv, SlotInv
<1>24. i \in imap /\ inode[f].links = entry[i] /\ inode[f].count > 0
  <2>1. Refers(r[t], f)
    BY <1>2 DEF Refers
  <2>2. inode[f].count >= 1 /\ inode[f].count \in Int
    BY <2>1, AloneUser
  <2> QED
    BY <1>3, <1>4, <1>21, <1>23, <2>2 DEF SlotAt, Linked
<1>25. ASSUME NEW j \in Ino PROVE Kept(j) \/ InoAt(j)'
  <2>1. CASE j = i
    <3>1. f \in SlotsOf(i)' /\ ~Reading(f)'
      BY <1>6, <1>19, <1>21 DEF SlotsOf
    <3>2. InoAt(i)
      BY DEF InodeInv, InoInv
    <3>3. InoAt(i)'
      BY <1>1, <1>4, <1>22, <3>1, <3>2 DEF InoAt
    <3> QED
      BY <2>1, <3>3
  <2>2. CASE j # i
    <3>1. Same(j)
      BY <1>1, <1>7, <2>2 DEF Same
    <3> QED
      BY <1>17, <1>19, <3>1, NamesKept
  <2> QED
    BY <2>1, <2>2
<1>26. SlotAt(f)'
  <2>1. \A d : Passes(inode', super', d) <=> Passes(inode, super, d)
    <3>1. \A x \in Slot : inode'[x].mount = inode[x].mount
      BY <1>6
    <3> QED
      BY <1>1, <3>1 DEF Passes
  <2>2. inode'[f].links = entry[i] - 1
    BY <1>6, <1>24
  <2>3. PICK n : n = inode'[f].links
    OBVIOUS
  <2>4. n = entry'[i] /\ i \notin Roots
    BY <1>7, <1>22, <2>2, <2>3
  <2>5. Linked(i, n)'
    BY <2>4 DEF Linked, Roots
  <2>6. Linked(inode[f].ino, inode[f].links)'
    BY <1>6, <2>3, <2>5 DEF Linked
  <2>7. i \in imap' /\ (i[1] = ROOT_DEV \/ i \in Roots)
    BY <1>1, <1>3, <1>23, <1>24 DEF SlotAt
  <2>8. i[1] # ROOT_DEV => Passes(inode', super', i[1])
    BY <1>3, <1>23, <1>24, <2>1 DEF SlotAt
  <2>9. inode'[f].mount => \E d \in Device : super'[d].imount = f
    BY <1>1, <1>6, <1>23 DEF SlotAt
  <2>10. ~inode'[f].pipe
    BY <1>3, <1>6, <1>23 DEF SlotAt
  <2> QED
    BY <1>3, <1>6, <1>24, <2>6, <2>7, <2>8, <2>9, <2>10 DEF SlotAt
<1>27. \A u \in Task \ {t} : Spared(u, V)
  <2> TAKE u \in Task \ {t}
  <2>1. ~Frozen(r[u], f)
    BY <1>20
  <2>2. Locks(r[u], f) => inode[f].lock
    BY NobodyLocks
  <2>3. Undisturbed(r[u], f)
    BY <1>3, <1>6, <2>1, <2>2 DEF Undisturbed, Frozen
  <2>4. r[u].ino # NoIno => r[u].ino # i /\ r[u].ino \in Ino
    BY <1>4, RegistersAre DEF Shaped, Shape
  <2>5. r[u].pc = "add_entry" => inode[r[u].file].ino # i /\ inode[r[u].file].ino \in Ino
    <3>1. SUFFICES ASSUME r[u].pc = "add_entry" PROVE inode[r[u].file].ino # i /\ inode[r[u].file].ino \in Ino
      OBVIOUS
    <3>2. r[u].file \in Slot /\ inode[r[u].file].ino \in Ino /\ inode[r[u].file].ino # NoIno
      BY <3>1, MakerIs
    <3>3. r[u].file # f
      BY <2>1, <3>1 DEF Frozen
    <3> QED
      BY <1>15, <3>2, <3>3
  <2> QED
    BY <1>7, <2>3, <2>4, <2>5 DEF Spared
<1>28. \A x \in V : SlotAt(x)'
  BY <1>26
<1>29. V \in SUBSET Slot
  OBVIOUS
<1> HIDE DEF V, q
<1> QED
  BY <1>8, <1>12, <1>13, <1>14, <1>16, <1>18, <1>25, <1>27, <1>28, <1>29, InodesStep

-----------------------------------------------------------------------------
(* Mount and umount                                                        *)

\* Of an entry, mount and umount change the mark that a device is mounted on
\* it, and mount makes it dirty.
Marks(x) ==
  /\ inode'[x].ino = inode[x].ino /\ inode'[x].count = inode[x].count
  /\ inode'[x].links = inode[x].links /\ inode'[x].zone = inode[x].zone
  /\ inode'[x].lock = inode[x].lock /\ inode'[x].pipe = inode[x].pipe
  /\ inode[x].dirt => inode'[x].dirt
  /\ inode'[x].dirt => inode[x].dirt \/ (inode[x].count > 0 /\ inode[x].ino # NoIno)
  /\ inode'[x].mount => inode[x].ino # NoIno /\ \E d \in Device : super'[d].imount = x

\* iget passes to device d as before, or nobody uses the device.
LetsPass(d) ==
  Passes(inode, super, d) =>
    \/ Passes(inode', super', d)
    \/ /\ \A x \in Slot : inode[x].ino[1] = d => inode[x].count <= 0
       /\ \A u \in Task : r[u].ino[1] # d

\* A task that does not run relies on what it did.
LEMMA FitMarked ==
  ASSUME InodeInv, entry' = entry, NEW u \in Task,
         \A x \in Slot : Marks(x), \A d \in Device : LetsPass(d),
         r[u].empty # None => ~inode'[r[u].empty].dirt /\ ~inode'[r[u].empty].mount,
         r[u].pc = "read_super" =>
           /\ super'[r[u].dev] = super[r[u].dev] /\ ~inode'[r[u].file].mount
           /\ \A d \in Device : super'[d].imount # r[u].file,
         Unmounting(r[u]) =>
           super'[r[u].dev].imount = super[r[u].dev].imount /\ ~inode'[r[u].s].mount
  PROVE  Fit(r[u], inode', super', entry')
<1>1. /\ Sound(r[u]) /\ Fit(r[u], inode, super, entry)
      /\ r[u].pc \in Places /\ r[u].ret \in Returns(r[u].pc)
      /\ (Putting(r[u]) <=> Puts(r[u])) /\ (Unmounting(r[u]) <=> Ends(r[u]))
      /\ Shaped(r[u])
  BY RegistersAre
<1>2. PICK q : q = r[u]
  OBVIOUS
<1>3. /\ q.empty # None => q.empty \in Slot
      /\ q.file # None => q.file \in Slot
      /\ q.s # None => q.s \in Slot
      /\ q.ino \in Ino \cup {NoIno}
  BY <1>1, <1>2 DEF Shaped, Shape
<1>4. /\ Putting(q) => q.s \in Slot
      /\ q.pc \in Mapping \cup {"truncate", "write_inode", "read_inode"} => q.s \in Slot
      /\ q.pc \in {"add_entry", "sys_mount", "read_super"} => q.file \in Slot
  BY <1>1, <1>2, <1>3 DEF Sound, Puts, Taking, Mapping
<1>5. PICK tab : tab = inode'
  OBVIOUS
<1>6. \A x \in Slot :
        /\ tab[x].ino = inode[x].ino /\ tab[x].count = inode[x].count
        /\ tab[x].links = inode[x].links /\ tab[x].lock = inode[x].lock
        /\ tab[x].pipe = inode[x].pipe
  BY <1>5 DEF Marks
<1>7. q.empty # None =>
       LET i == tab[q.empty]
       IN /\ i.count = 1 /\ ~i.dirt /\ ~i.pipe /\ ~i.mount
          /\ i.ino = IF q.pc = "read_inode" THEN q.ino ELSE NoIno
  BY <1>1, <1>2, <1>3, <1>5, <1>6 DEF Fit
<1>8. /\ q.file # None => Filled(tab[q.file])
      /\ Putting(q) => Filled(tab[q.s])
  BY <1>1, <1>2, <1>3, <1>4, <1>6 DEF Fit, Filled
<1>9. /\ q.pc \in {"add_entry", "sys_mount", "read_super"} => tab[q.file].ino # NoIno
      /\ q.pc \in Mapping \cup {"truncate", "write_inode"} => tab[q.s].ino # NoIno
      /\ q.pc \in {"read_inode", "write_inode"} => tab[q.s].lock
  BY <1>1, <1>2, <1>4, <1>6 DEF Fit
<1>10. q.pc = "add_entry" =>
         LET i == tab[q.file]
         IN i.count = 1 /\ i.links = 1 /\ i.ino[1] = ROOT_DEV /\ entry'[i.ino] = 0
  BY <1>1, <1>2, <1>4, <1>6 DEF Fit
<1>11. q.pc = "truncate" /\ q.ret # << >> =>
         LET i == tab[q.s]
         IN i.count = 1 /\ i.links = 0 /\ ~i.lock
  BY <1>1, <1>2, <1>4, <1>6 DEF Fit
<1>12. q.ino # NoIno =>
         \/ entry'[q.ino] > 0
         \/ q.ino \in Roots /\ Passes(tab, super', q.ino[1])
  <2> SUFFICES ASSUME q.ino # NoIno, ~(entry'[q.ino] > 0)
               PROVE  q.ino \in Roots /\ Passes(tab, super', q.ino[1])
    OBVIOUS
  <2>1. q.ino \in Roots /\ Passes(inode, super, q.ino[1])
    BY <1>1, <1>2 DEF Fit
  <2>2. q.ino[1] \in Device
    BY <1>3 DEF Device
  <2>3. LetsPass(q.ino[1])
    BY <2>2
  <2> QED
    BY <1>2, <1>5, <2>1, <2>3 DEF LetsPass
<1>13. q.pc = "read_super" =>
       /\ super'[q.dev] = [there |-> TRUE, lock |-> TRUE, imount |-> None]
       /\ ~tab[q.file].mount
       /\ \A d \in Device : super'[d].imount # q.file
  BY <1>1, <1>2, <1>5 DEF Fit
<1>14. Unmounting(q) => super'[q.dev].imount = q.s /\ ~tab[q.s].mount
  BY <1>1, <1>2, <1>5 DEF Fit
<1>15. Fit(q, tab, super', entry')
  BY <1>7, <1>8, <1>9, <1>10, <1>11, <1>12, <1>13, <1>14 DEF Fit
<1> QED
  BY <1>2, <1>5, <1>15

\* What an entry is, after a step of mount or umount.
LEMMA SlotMarked ==
  ASSUME InodeInv, UNCHANGED <<disk, imap, entry>>, NEW x \in Slot, Marks(x),
         \A d \in Device : LetsPass(d),
         Reading(x)' <=> Reading(x), Truncating(x)' <=> Truncating(x)
  PROVE  SlotAt(x)'
<1>1. SlotAt(x)
  BY DEF InodeInv, SlotInv
<1>2. /\ inode'[x].ino = inode[x].ino /\ inode'[x].count = inode[x].count
      /\ inode'[x].links = inode[x].links /\ inode'[x].zone = inode[x].zone
      /\ inode'[x].lock = inode[x].lock /\ inode'[x].pipe = inode[x].pipe
      /\ inode[x].dirt => inode'[x].dirt
      /\ inode'[x].dirt => inode[x].dirt \/ (inode[x].count > 0 /\ inode[x].ino # NoIno)
      /\ inode'[x].mount => inode[x].ino # NoIno /\ \E d \in Device : super'[d].imount = x
  BY DEF Marks
<1>3. inode[x].ino # NoIno => inode[x].ino \in Ino
  BY DEF InodeInv, TypeInv, Entry
<1>4. inode[x].ino # NoIno /\ inode[x].ino[1] # ROOT_DEV /\ inode[x].count > 0 =>
        Passes(inode', super', inode[x].ino[1])
  <2> SUFFICES ASSUME inode[x].ino # NoIno, inode[x].ino[1] # ROOT_DEV, inode[x].count > 0
               PROVE  Passes(inode', super', inode[x].ino[1])
    OBVIOUS
  <2>1. inode[x].ino[1] \in Device /\ Passes(inode, super, inode[x].ino[1])
    BY <1>1, <1>3 DEF SlotAt, Device
  <2>2. LetsPass(inode[x].ino[1]) /\ inode[x].count \in Int
    BY <2>1, AloneUser
  <2> QED
    BY <2>1, <2>2 DEF LetsPass
<1>6. inode[x].ino # NoIno /\ ~Reading(x) => Linked(inode[x].ino, inode[x].links)'
  BY <1>1, <1>2 DEF SlotAt, Linked
<1>7. inode[x].ino # NoIno /\ inode[x].links > 0 /\ ~inode'[x].dirt /\ ~Reading(x) /\ ~Truncating(x) =>
        disk'[inode[x].ino] = [links |-> inode'[x].links, zone |-> inode'[x].zone]
  BY <1>1, <1>2 DEF SlotAt
<1>8. /\ inode'[x].pipe => inode'[x].ino = NoIno
      /\ inode'[x].ino = NoIno => ~inode'[x].dirt /\ ~inode'[x].lock
      /\ inode'[x].dirt \/ inode'[x].lock => inode'[x].count > 0
      /\ inode'[x].mount => inode'[x].ino # NoIno /\ \E d \in Device : super'[d].imount = x
  BY <1>1, <1>2 DEF SlotAt
<1>9. inode'[x].ino # NoIno =>
        inode'[x].ino \in imap' /\ (inode'[x].ino[1] = ROOT_DEV \/ inode'[x].ino \in Roots)
  BY <1>1, <1>2 DEF SlotAt
<1> QED
  BY <1>2, <1>4, <1>6, <1>7, <1>8, <1>9 DEF SlotAt

\* A step of mount or umount.
LEMMA MountsStep ==
  ASSUME InodeInv, TypeInv', NEW t \in Task, NEW q, r' = [r EXCEPT ![t] = q], Sound(q),
         UNCHANGED <<disk, imap, entry>>,
         \A x \in Slot : Marks(x), \A d \in Device : LetsPass(d),
         \A x : ~Reads(r[t], x) /\ ~Cuts(r[t], x),
         \A x : ~Reads(q, x) /\ ~Cuts(q, x),
         \A x \in Slot :
           Share(q, x) + Cardinality(Mounts(x)') = Share(r[t], x) + Cardinality(Mounts(x)),
         DevInv', MountInv', Fit(q, inode', super', entry'),
         \A u \in Task \ {t} : Fit(r[u], inode', super', entry'),
         \A u \in Task \ {t} : Apart(q, r[u]) /\ Apart(r[u], q)
  PROVE  InodeInv'
<1> USE DEF InodeInv
<1>1. /\ DOMAIN r' = Task /\ r'[t] = q /\ r' = [u \in Task |-> r'[u]]
      /\ \A u \in Task : r'[u] = IF u = t THEN q ELSE r[u]
      /\ \A s : Reading(s)' <=> Reads(q, s) \/ \E u \in Task \ {t} : Reads(r[u], s)
      /\ \A s : Reading(s) <=> Reads(r[t], s) \/ \E u \in Task \ {t} : Reads(r[u], s)
      /\ \A s : Truncating(s)' <=> Cuts(q, s) \/ \E u \in Task \ {t} : Cuts(r[u], s)
      /\ \A s : Truncating(s) <=> Cuts(r[t], s) \/ \E u \in Task \ {t} : Cuts(r[u], s)
  BY OneTaskMoves
<1>2. RegInv'
  BY <1>1 DEF RegInv
<1>3. \A s : (Reading(s)' <=> Reading(s)) /\ (Truncating(s)' <=> Truncating(s))
  BY <1>1
<1>4. CountInv'
  <2> SUFFICES ASSUME NEW s \in Slot PROVE inode'[s].count = References(s)'
    BY DEF CountInv
  <2>1. q.refs \in 0 .. 2
    BY DEF Sound, Shaped, Shape
  <2>2. IsFiniteSet(Mounts(s)) /\ IsFiniteSet(Mounts(s)')
    <3>1. Mounts(s)' \subseteq Device
      BY DEF Mounts, TypeInv
    <3> QED
      BY <3>1, MountsAreFinite, DevicesAreFinite, FS_Subset
  <2>3. Cardinality(Mounts(s)) \in Nat /\ Cardinality(Mounts(s)') \in Nat
    BY <2>2, FS_CardinalityType
  <2>4. /\ References(s) \in Int /\ References(s)' \in Int
        /\ Share(r[t], s) \in Nat /\ Share(q, s) \in Nat
        /\ References(s)' = References(s) - Share(r[t], s) + Share(q, s)
                          + Cardinality(Mounts(s)') - Cardinality(Mounts(s))
    BY <2>1, <2>2, ReferencesChange
  <2>5. inode'[s].count = inode[s].count /\ inode[s].count = References(s)
    BY DEF Marks, CountInv
  <2> QED
    BY <2>3, <2>4, <2>5
<1>5. FitInv'
  BY <1>1 DEF FitInv
<1>6. ApartInv'
  BY <1>1 DEF ApartInv
<1>7. SlotInv'
  BY <1>3, SlotMarked DEF SlotInv
<1>8. OneEntryPerInode'
  BY DEF OneEntryPerInode, Marks
<1>9. InoInv'
  <2>1. \A j \in Ino : Same(j)
    BY DEF Same
  <2>2. \A s \in Slot : inode'[s].ino = inode[s].ino
    BY DEF Marks
  <2> QED
    BY <1>3, <2>1, <2>2, InoKept DEF InoInv
<1> QED
  BY <1>2, <1>4, <1>5, <1>6, <1>7, <1>8, <1>9

\* A task in sys_mount has the directory open.
LEMMA MounterIs ==
  ASSUME InodeInv, NEW t \in Task, r[t].pc \in {"sys_mount", "read_super"}
  PROVE  /\ Sound(r[t]) /\ r[t].ret = << >> /\ r[t].refs = 1 /\ r[t].empty = None
         /\ r[t].file \in Slot /\ r[t].dev \in Device
         /\ ~Putting(r[t]) /\ ~Unmounting(r[t])
         /\ \A x : ~Reads(r[t], x) /\ ~Cuts(r[t], x) /\ ~Locks(r[t], x)
         /\ \A x \in Slot : Share(r[t], x) = One(x = r[t].file)
         /\ inode[r[t].file].ino # NoIno /\ inode[r[t].file].ino \in Ino
         /\ inode[r[t].file].count > 0 /\ inode[r[t].file].count \in Int
         /\ \A u \in Task \ {t} : ~Frozen(r[u], r[t].file)
<1>1. /\ Sound(r[t]) /\ Shaped(r[t]) /\ Fit(r[t], inode, super, entry)
      /\ r[t].ret \in Returns(r[t].pc)
      /\ (Unmounting(r[t]) <=> Ends(r[t])) /\ (Putting(r[t]) <=> Puts(r[t]))
  BY RegistersAre
<1>2. r[t].ret = << >> /\ r[t].refs = 1 /\ r[t].empty = None /\ r[t].dev \in Device
  BY <1>1 DEF Returns, Sound, Taking
<1>3. r[t].file \in Slot
  BY <1>1, <1>2 DEF Sound, Shaped, Shape
<1>4. ~Putting(r[t]) /\ ~Unmounting(r[t])
  BY <1>1 DEF Puts, Ends
<1>5. \A x : ~Reads(r[t], x) /\ ~Cuts(r[t], x) /\ ~Locks(r[t], x)
  BY DEF Reads, Cuts, Locks
<1>6. \A x \in Slot : Share(r[t], x) = One(x = r[t].file)
  BY <1>2, <1>4, InodeAssumption DEF Share, One
<1>7. PICK v \in Slot : v = r[t].file
  BY <1>3
<1>8. inode[v].ino # NoIno
  BY <1>1, <1>7 DEF Fit
<1>9. inode[v].ino \in Ino
  BY <1>8 DEF InodeInv, TypeInv, Entry
<1>10. Refers(r[t], v)
  BY <1>7 DEF Refers
<1>11. inode[v].count >= 1 /\ inode[v].count \in Int
  BY <1>10, AloneUser
<1>12. \A u \in Task \ {t} : ~Frozen(r[u], v)
  BY <1>10, NotFrozen
<1> QED
  BY <1>1, <1>2, <1>3, <1>4, <1>5, <1>6, <1>7, <1>8, <1>9, <1>11, <1>12

\* Nothing is mounted on the directory that only the task in sys_mount uses.
LEMMA DirectoryIsFree ==
  ASSUME InodeInv, NEW t \in Task, At(t, "sys_mount"), NEW s \in Slot, s = r[t].file,
         inode[s].count = 1
  PROVE  /\ ~inode[s].mount /\ \A d \in Device : super[d].imount # s
         /\ \A u \in Task \ {t} : ~Refers(r[u], s)
<1>1. r[t].pc = "sys_mount" /\ \A u \in Task \ {t} : r[u].pc # "put_super"
  BY DEF At
<1>2. Refers(r[t], s) /\ ~Unmounting(r[t])
  BY <1>1, MounterIs DEF Refers
<1>3. Mounts(s) = {} /\ \A u \in Task \ {t} : ~Refers(r[u], s)
  BY <1>2, AloneUser
<1>4. ASSUME NEW d \in Device, super[d].imount = s PROVE FALSE
  <2>1. PICK u \in Task : Unmounting(r[u]) /\ r[u].dev = d
    BY <1>3, <1>4 DEF Mounts, InodeInv, TypeInv
  <2>2. /\ u # t /\ Fit(r[u], inode, super, entry)
        /\ (Unmounting(r[u]) <=> Ends(r[u])) /\ (Putting(r[u]) <=> Puts(r[u]))
        /\ r[u].ret \in Returns(r[u].pc)
    BY <1>2, <2>1, RegistersAre
  <2>3. r[u].s = s
    BY <1>4, <2>1, <2>2 DEF Fit
  <2>4. Puts(r[u])
    BY <1>1, <2>1, <2>2, StacksDiffer DEF Ends, Puts
  <2> QED
    BY <1>3, <2>2, <2>3, <2>4 DEF Refers
<1>5. SlotAt(s)
  BY DEF InodeInv, SlotInv
<1> QED
  BY <1>3, <1>4, <1>5 DEF SlotAt

\* A step that changes the super block of one device.
SuperBecomes(d, b) ==
  /\ super' \in [Device -> SuperBlock] /\ super'[d] = b
  /\ \A e \in Device \ {d} : super'[e] = super[e]

\* sys_mount is over without success, and has got no super block.
LEMMA MountGivesUp ==
  ASSUME InodeInv, NEW t \in Task, r[t].pc \in {"sys_mount", "read_super"}, MountFails(t),
         UNCHANGED <<inode, disk, imap, zmap, ind, super, entry>>
  PROVE  InodeInv'
<1>1. PICK s \in Slot : s = r[t].file
  BY MounterIs
<1> DEFINE q == GivingBack(s)
<1>2. r' = [r EXCEPT ![t] = q]
  BY <1>1 DEF MountFails, Set, GivingBack
<1>3. /\ Sound(q) /\ ~Unmounting(q) /\ q.pc = "iput"
      /\ \A x : ~Reads(q, x) /\ ~Locks(q, x) /\ ~Cuts(q, x)
      /\ \A x \in Slot : Share(q, x) = One(x = s)
      /\ \A tab, supers, names : Filled(tab[s]) => Fit(q, tab, supers, names)
  BY GivingBackIs
<1> HIDE DEF q
<1>4. /\ ~Unmounting(r[t]) /\ \A x : ~Reads(r[t], x) /\ ~Cuts(r[t], x)
      /\ \A x \in Slot : Share(r[t], x) = One(x = s)
      /\ inode[s].ino # NoIno
  BY <1>1, MounterIs
<1>5. Fit(q, inode, super, entry)
  BY <1>3, <1>4 DEF Filled
<1>6. zmap' \subseteq Zone /\ ind' \in [Zone -> Number]
  BY DEF InodeInv, TypeInv
<1>7. \A x \in Slot :
           /\ Share(r[t], x) = Share(q, x)
           /\ Reads(q, x) <=> Reads(r[t], x)
           /\ Cuts(r[t], x) => Cuts(q, x)
           /\ Locks(q, x) => Locks(r[t], x) \/ ~inode[x].lock
  BY <1>3, <1>4
<1>8. (Unmounting(q) <=> Unmounting(r[t])) /\ (Unmounting(q) => q.dev = r[t].dev) /\ q.pc # "read_super"
  BY <1>3, <1>4
<1> QED
  BY <1>2, <1>3, <1>5, <1>6, <1>7, <1>8, QuietStep

\* A directory that a device is mounted on.
Covered(i) == [i EXCEPT !.mount = TRUE, !.dirt = TRUE]

LEMMA CoveredIs ==
  ASSUME NEW i \in Entry
  PROVE  /\ Covered(i) \in Entry /\ Covered(i).mount /\ Covered(i).dirt
         /\ Covered(i).ino = i.ino /\ Covered(i).count = i.count
         /\ Covered(i).links = i.links /\ Covered(i).zone = i.zone
         /\ Covered(i).lock = i.lock /\ Covered(i).pipe = i.pipe
<1>1. ASSUME NEW j \in Entry
      PROVE  [j EXCEPT !.mount = TRUE] \in Entry /\ [j EXCEPT !.dirt = TRUE] \in Entry
  BY DEF Entry
<1>2. Covered(i) = [[i EXCEPT !.mount = TRUE] EXCEPT !.dirt = TRUE]
  BY DEF Covered, Entry
<1>3. Covered(i) \in Entry
  BY <1>1, <1>2
<1> QED
  BY <1>3 DEF Covered, Entry

\* The super block of a device that is mounted on the entry s.
MountedOn(s) == [there |-> TRUE, lock |-> FALSE, imount |-> s]

\* Device d is mounted on entry s: it is on no other, and nothing else is on s.
MountDone ==
  \A t \in Task : \A d \in Device : \A s \in Slot :
    /\ r[t].pc \in {"sys_mount", "read_super"} /\ s = r[t].file
    /\ super[d].imount = None /\ \A e \in Device : super[e].imount # s
    /\ \A u \in Task \ {t} : r[u].pc = "read_super" => r[u].dev # d /\ r[u].file # s
    /\ SuperBecomes(d, MountedOn(s))
    /\ inode' = [inode EXCEPT ![s] = Covered(inode[s])]
    /\ r' = [r EXCEPT ![t] = Registers]
    /\ UNCHANGED <<disk, imap, zmap, ind, entry>>
    => InodeInv'

LEMMA MountDoneKeeps ==
  ASSUME InodeInv
  PROVE  MountDone
<1> SUFFICES ASSUME NEW t \in Task, NEW d \in Device, NEW s \in Slot,
                    r[t].pc \in {"sys_mount", "read_super"}, s = r[t].file,
                    super[d].imount = None, \A e \in Device : super[e].imount # s,
                    \A u \in Task \ {t} : r[u].pc = "read_super" => r[u].dev # d /\ r[u].file # s,
                    SuperBecomes(d, MountedOn(s)),
                    inode' = [inode EXCEPT ![s] = Covered(inode[s])],
                    r' = [r EXCEPT ![t] = Registers],
                    UNCHANGED <<disk, imap, zmap, ind, entry>>
             PROVE  InodeInv'
  BY DEF MountDone
<1>1. /\ inode \in [Slot -> Entry] /\ DOMAIN super = Device /\ super \in [Device -> SuperBlock]
      /\ DOMAIN r = Task
  BY DEF InodeInv, TypeInv, RegInv
<1>2. /\ ~Unmounting(r[t]) /\ r[t].empty = None
      /\ \A x : ~Reads(r[t], x) /\ ~Cuts(r[t], x)
      /\ \A x \in Slot : Share(r[t], x) = One(x = s)
      /\ inode[s].ino # NoIno /\ inode[s].ino \in Ino
      /\ inode[s].count > 0 /\ \A u \in Task \ {t} : ~Frozen(r[u], s)
  BY MounterIs
<1>3. /\ super' \in [Device -> SuperBlock] /\ DOMAIN super' = Device
      /\ super'[d].there /\ ~super'[d].lock /\ super'[d].imount = s
      /\ \A e \in Device \ {d} : super'[e] = super[e]
  BY DEF SuperBecomes, MountedOn
<1>4. /\ inode'[s].mount /\ inode'[s].dirt
      /\ inode'[s].ino = inode[s].ino /\ inode'[s].count = inode[s].count
      /\ inode'[s].links = inode[s].links /\ inode'[s].zone = inode[s].zone
      /\ inode'[s].lock = inode[s].lock /\ inode'[s].pipe = inode[s].pipe
      /\ \A x \in Slot \ {s} : inode'[x] = inode[x]
      /\ inode'[s] \in Entry
  BY <1>1, CoveredIs
<1>5. TypeInv'
  <2>1. inode' \in [Slot -> Entry]
    BY <1>1, <1>4
  <2> QED
    BY <1>3, <2>1 DEF InodeInv, TypeInv
<1>6. ASSUME NEW x \in Slot PROVE Marks(x)
  <2>1. CASE x = s
    BY <1>2, <1>3, <1>4, <2>1 DEF Marks
  <2>2. CASE x # s
    <3>1. SlotAt(x)
      BY DEF InodeInv, SlotInv
    <3>2. inode[x].mount => \E e \in Device : e # d /\ super[e].imount = x
      BY <3>1, InodeAssumption DEF SlotAt
    <3> QED
      BY <1>3, <1>4, <2>2, <3>1, <3>2 DEF Marks, SlotAt
  <2> QED
    BY <2>1, <2>2
<1>7. \A e \in Device : Passes(inode, super, e) => Passes(inode', super', e)
  BY <1>3, <1>4, InodeAssumption DEF Passes
<1>8. \A e \in Device : LetsPass(e)
  BY <1>7 DEF LetsPass
<1> DEFINE q == Holding(None, 0)
<1>9. r' = [r EXCEPT ![t] = q]
  BY NothingIsHeld
<1>10. /\ Sound(q) /\ ~Unmounting(q) /\ q.pc = "user" /\ q.file = None
       /\ \A x \in Slot : ~Reads(q, x) /\ ~Locks(q, x) /\ ~Cuts(q, x)
       /\ \A x \in Slot : Share(q, x) = 0
       /\ \A tab, supers, names : Fit(q, tab, supers, names)
  <2>1. PICK n \in 0 .. 2 : n = 0
    OBVIOUS
  <2>2. \A x \in Slot : x # None
    BY InodeAssumption
  <2> QED
    BY <2>1, <2>2, HoldingIs
<1>11. \A x : ~Reads(q, x) /\ ~Cuts(q, x)
  BY <1>10 DEF Reads, Cuts
<1> HIDE DEF q
<1>12. \A u \in Task : r'[u] = IF u = t THEN q ELSE r[u]
  BY <1>1, <1>9
<1>13. ASSUME NEW u \in Task, Unmounting(r[u])
       PROVE  /\ u # t /\ r[u].dev # d /\ r[u].dev \in Device
              /\ r[u].s \in Slot /\ r[u].s # s
  <2>1. Sound(r[u]) /\ Fit(r[u], inode, super, entry) /\ Shaped(r[u])
    BY RegistersAre
  <2>2. r[u].dev \in Device /\ super[r[u].dev].imount = r[u].s
    BY <1>13, <2>1 DEF Sound, Fit
  <2>3. Ends(r[u]) /\ r[u].s \in Slot
    BY <1>13, <2>1, RegistersAre DEF Ends, Sound, Shaped, Shape
  <2> QED
    BY <1>2, <1>13, <2>2, <2>3, InodeAssumption
<1>14. \A u \in Task, e \in Device :
         (Unmounting(r'[u]) /\ r'[u].dev = e) <=> (Unmounting(r[u]) /\ r[u].dev = e)
  BY <1>2, <1>10, <1>12
<1>15. ASSUME NEW x \in Slot PROVE Mounts(x)' = IF x = s THEN Mounts(x) \cup {d} ELSE Mounts(x)
  <2>1. Mounts(x)' = {e \in Device : super'[e].imount = x
                                      /\ ~\E u \in Task : Unmounting(r[u]) /\ r[u].dev = e}
    BY <1>3, <1>14 DEF Mounts
  <2>2. Mounts(x) = {e \in Device : super[e].imount = x
                                      /\ ~\E u \in Task : Unmounting(r[u]) /\ r[u].dev = e}
    BY <1>1 DEF Mounts
  <2>3. \A u \in Task : Unmounting(r[u]) => r[u].dev # d
    BY <1>13
  <2> QED
    BY <1>3, <2>1, <2>2, <2>3, InodeAssumption
<1>16. ASSUME NEW x \in Slot
       PROVE  Share(q, x) + Cardinality(Mounts(x)') = Share(r[t], x) + Cardinality(Mounts(x))
  <2>1. IsFiniteSet(Mounts(x)) /\ Cardinality(Mounts(x)) \in Nat
    BY MountsAreFinite, FS_CardinalityType DEF InodeInv
  <2>2. Mounts(s) = {}
    BY <1>1 DEF Mounts
  <2>3. CASE x = s
    <3>1. Cardinality({d}) = 1 /\ Cardinality({}) = 0
      BY FS_Singleton, FS_EmptySet
    <3>2. Mounts(x)' = {d} /\ Mounts(x) = {}
      BY <1>15, <2>2, <2>3
    <3> QED
      BY <1>2, <1>10, <2>3, <3>1, <3>2 DEF One
  <2>4. CASE x # s
    BY <1>2, <1>10, <1>15, <2>4 DEF One
  <2> QED
    BY <2>3, <2>4
<1>17. DevInv'
  <2>1. d # ROOT_DEV
    <3>1. None # RootEntry
      BY InodeAssumption
    <3> QED
      BY <3>1 DEF InodeInv, DevInv
  <2>2. ROOT_DEV \in Device =>
          super'[ROOT_DEV] = [there |-> TRUE, lock |-> FALSE, imount |-> RootEntry]
    BY <1>3, <2>1 DEF InodeInv, DevInv
  <2>3. \A e \in Device \ {ROOT_DEV} :
           /\ super'[e].imount # None =>
                super'[e].imount \in Slot /\ super'[e].there /\ ~super'[e].lock
           /\ super'[e].lock => super'[e].there
    BY <1>3 DEF InodeInv, DevInv
  <2>4. \A e, g \in Device :
          super'[e].imount = super'[g].imount /\ super'[e].imount # None => e = g
    BY <1>3 DEF InodeInv, DevInv
  <2> QED
    BY <2>2, <2>3, <2>4 DEF DevInv
<1>18. MountInv'
  BY <1>4, <1>15 DEF InodeInv, MountInv
<1>19. ASSUME NEW u \in Task \ {t} PROVE Fit(r[u], inode', super', entry')
  <2>1. Sound(r[u]) /\ Fit(r[u], inode, super, entry) /\ Shaped(r[u])
    BY RegistersAre
  <2>2. r[u].empty # None => ~inode'[r[u].empty].dirt /\ ~inode'[r[u].empty].mount
    <3>1. r[u].empty # s
      BY <1>2 DEF Frozen
    <3>2. r[u].empty # None => r[u].empty \in Slot
      BY <2>1 DEF Shaped, Shape
    <3> QED
      BY <1>4, <2>1, <3>1, <3>2 DEF Fit
  <2>3. r[u].pc = "read_super" =>
           /\ super'[r[u].dev] = super[r[u].dev] /\ ~inode'[r[u].file].mount
           /\ \A e \in Device : super'[e].imount # r[u].file
    <3>1. r[u].pc = "read_super" => r[u].dev \in Device /\ r[u].file \in Slot
      BY MounterIs
    <3> QED
      BY <1>3, <1>4, <2>1, <3>1 DEF Fit
  <2>4. Unmounting(r[u]) =>
           super'[r[u].dev].imount = super[r[u].dev].imount /\ ~inode'[r[u].s].mount
    BY <1>3, <1>4, <1>13, <2>1 DEF Fit
  <2> QED
    BY <1>6, <1>8, <2>2, <2>3, <2>4, FitMarked
<1>20. \A u \in Task \ {t} : Apart(q, r[u]) /\ Apart(r[u], q)
  BY <1>10 DEF Apart
<1>21. Fit(q, inode', super', entry')
  BY <1>10
<1>22. \A x \in Slot : Marks(x)
  BY <1>6
<1>23. \A x \in Slot :
           Share(q, x) + Cardinality(Mounts(x)') = Share(r[t], x) + Cardinality(Mounts(x))
  BY <1>16
<1>24. \A u \in Task \ {t} : Fit(r[u], inode', super', entry')
  BY <1>19
<1>25. /\ Sound(q) /\ UNCHANGED <<disk, imap, entry>>
       /\ \A x : ~Reads(r[t], x) /\ ~Cuts(r[t], x)
  BY <1>2, <1>10
<1> QED
  BY <1>5, <1>8, <1>9, <1>11, <1>17, <1>18, <1>20, <1>21, <1>22, <1>23, <1>24, <1>25, MountsStep

\* The super block of a device that is not mounted is claimed or given up.
LEMMA SuperTouched ==
  ASSUME InodeInv, NEW t \in Task, NEW d \in Device, NEW b \in SuperBlock,
         b.imount = None, b.lock => b.there, super[d].imount = None, SuperBecomes(d, b),
         NEW q, r' = [r EXCEPT ![t] = q], Sound(q),
         UNCHANGED <<inode, disk, imap, zmap, ind, entry>>,
         ~Unmounting(q), ~Unmounting(r[t]),
         \A x : ~Reads(r[t], x) /\ ~Cuts(r[t], x),
         \A x : ~Reads(q, x) /\ ~Cuts(q, x),
         \A x \in Slot : Share(q, x) = Share(r[t], x),
         Fit(q, inode, super', entry),
         \A u \in Task \ {t} : r[u].pc = "read_super" => r[u].dev # d,
         \A u \in Task \ {t} : Apart(q, r[u]) /\ Apart(r[u], q)
  PROVE  InodeInv'
<1>1. /\ DOMAIN super = Device /\ DOMAIN r = Task
      /\ super' \in [Device -> SuperBlock] /\ DOMAIN super' = Device
      /\ \A e \in Device \ {d} : super'[e] = super[e]
      /\ super'[d] = b
  BY DEF InodeInv, TypeInv, RegInv, SuperBecomes
<1>2. \A e \in Device : super'[e].imount = super[e].imount
  BY <1>1
<1>3. TypeInv'
  BY <1>1 DEF InodeInv, TypeInv
<1>4. \A u \in Task : r'[u] = IF u = t THEN q ELSE r[u]
  BY <1>1
<1>5. \A x \in Slot : Mounts(x)' = Mounts(x)
  BY <1>2, <1>3, MountsStay DEF InodeInv
<1>6. ASSUME NEW x \in Slot PROVE Marks(x)
  <2>1. SlotAt(x)
    BY DEF InodeInv, SlotInv
  <2> QED
    BY <1>2, <2>1 DEF Marks, SlotAt
<1>7. \A e \in Device : LetsPass(e)
  BY <1>2 DEF LetsPass, Passes
<1>8. DevInv'
  <2>1. d # ROOT_DEV
    <3>1. None # RootEntry
      BY InodeAssumption
    <3> QED
      BY <3>1 DEF InodeInv, DevInv
  <2> QED
    BY <1>1, <1>2, <2>1 DEF InodeInv, DevInv
<1>9. MountInv'
  BY <1>5 DEF InodeInv, MountInv
<1>10. ASSUME NEW x \in Slot
       PROVE  Share(q, x) + Cardinality(Mounts(x)') = Share(r[t], x) + Cardinality(Mounts(x))
  BY <1>5
<1>11. ASSUME NEW u \in Task \ {t} PROVE Fit(r[u], inode', super', entry')
  <2>1. Sound(r[u]) /\ Fit(r[u], inode, super, entry)
    BY RegistersAre
  <2>2. r[u].empty # None => ~inode'[r[u].empty].dirt /\ ~inode'[r[u].empty].mount
    BY <2>1 DEF Fit
  <2>3. r[u].pc = "read_super" =>
           /\ super'[r[u].dev] = super[r[u].dev] /\ ~inode'[r[u].file].mount
           /\ \A e \in Device : super'[e].imount # r[u].file
    <3>1. r[u].pc = "read_super" => r[u].dev \in Device
      BY MounterIs
    <3> QED
      BY <1>1, <1>2, <2>1, <3>1 DEF Fit
  <2>4. Unmounting(r[u]) =>
           super'[r[u].dev].imount = super[r[u].dev].imount /\ ~inode'[r[u].s].mount
    <3>1. Unmounting(r[u]) => r[u].dev \in Device
      BY <2>1 DEF Sound
    <3> QED
      BY <1>2, <2>1, <3>1 DEF Fit
  <2>5. \A x \in Slot : Marks(x)
    BY <1>6
  <2> QED
    BY <1>7, <2>2, <2>3, <2>4, <2>5, FitMarked
<1>12. \A x \in Slot : Marks(x)
  BY <1>6
<1>13. \A x \in Slot :
           Share(q, x) + Cardinality(Mounts(x)') = Share(r[t], x) + Cardinality(Mounts(x))
  BY <1>10
<1>14. \A u \in Task \ {t} : Fit(r[u], inode', super', entry')
  BY <1>11
<1>15. Fit(q, inode', super', entry') /\ UNCHANGED <<disk, imap, entry>>
  OBVIOUS
<1> QED
  BY <1>3, <1>7, <1>8, <1>9, <1>12, <1>13, <1>14, <1>15, MountsStep

\* read_super claims the super block of a device.
Claims(q) == [q EXCEPT !.pc = "read_super"]

LEMMA ClaimsIs ==
  ASSUME InodeInv, NEW t \in Task, r[t].pc = "sys_mount"
  PROVE  LET q == Claims(r[t])
         IN /\ Sound(q) /\ ~Unmounting(q) /\ ~Putting(q) /\ q.pc = "read_super"
            /\ q.ret = << >> /\ q.refs = 1 /\ q.empty = None /\ q.ino = r[t].ino
            /\ q.file = r[t].file /\ q.dev = r[t].dev /\ q.s = r[t].s
            /\ \A x : ~Reads(q, x) /\ ~Locks(q, x) /\ ~Cuts(q, x)
            /\ \A x \in Slot : Share(q, x) = Share(r[t], x)
<1> DEFINE q == Claims(r[t])
<1>1. /\ Sound(r[t]) /\ Shaped(r[t]) /\ r[t].ret = << >> /\ r[t].refs = 1
      /\ r[t].empty = None /\ ~Putting(r[t]) /\ r[t].dev \in Device
  BY MounterIs, RegistersAre
<1>2. q \in Shape(<< >>)
  <2>1. r[t] \in Shape(<< >>) /\ "read_super" \in Places
    BY <1>1 DEF Shaped, Places
  <2> QED
    BY <2>1, ShapeKept DEF Claims
<1>3. /\ q.pc = "read_super" /\ q.ret = r[t].ret /\ q.refs = r[t].refs
      /\ q.empty = r[t].empty /\ q.file = r[t].file /\ q.dev = r[t].dev /\ q.s = r[t].s
      /\ q.ino = r[t].ino
  BY <1>1 DEF Claims, Shaped, Shape
<1> HIDE DEF q
<1>4. q.pc \in Places /\ q.ret \in Returns(q.pc)
  BY <1>1, <1>3 DEF Places, Returns
<1>5. ~Putting(q) /\ ~Unmounting(q)
  BY <1>3, <1>4, PuttingIs DEF Puts, Ends
<1>6. Sound(q)
  BY <1>1, <1>2, <1>3, <1>4, <1>5, StacksDiffer DEF Sound, Shaped, Taking, Mapping
<1>7. \A x \in Slot : Share(q, x) = Share(r[t], x)
  BY <1>1, <1>3, <1>5 DEF Share
<1>8. \A x : ~Reads(q, x) /\ ~Locks(q, x) /\ ~Cuts(q, x)
  BY <1>3 DEF Reads, Locks, Cuts
<1> QED
  BY <1>1, <1>3, <1>5, <1>6, <1>7, <1>8 DEF q

LEMMA Keeps_sys_mount ==
  ASSUME InodeInv, NEW t \in Task, sys_mount(t)
  PROVE  InodeInv'
<1>1. At(t, "sys_mount") /\ UNCHANGED <<disk, imap, zmap, ind, entry, panic>>
  BY DEF sys_mount
<1>2. r[t].pc = "sys_mount"
  BY <1>1 DEF At
<1>3. PICK s \in Slot : s = r[t].file
  BY <1>2, MounterIs
<1>4. PICK d \in Device : d = r[t].dev
  BY <1>2, MounterIs
<1>5. /\ DOMAIN super = Device /\ super \in [Device -> SuperBlock] /\ Devices = Device
      /\ DOMAIN r = Task
  BY DEF InodeInv, TypeInv, RegInv, Devices
<1>6. CASE MountFails(t) /\ UNCHANGED <<inode, super>>
  BY <1>1, <1>2, <1>6, MountGivesUp
<1>7. CASE ~(MountFails(t) /\ UNCHANGED <<inode, super>>)
  <2>1. inode[s].count = 1
    BY <1>3, <1>7 DEF sys_mount
  <2>2. /\ ~inode[s].mount /\ \A e \in Device : super[e].imount # s
        /\ \A u \in Task \ {t} : ~Refers(r[u], s)
    BY <1>1, <1>3, <2>1, DirectoryIsFree
  <2>3. \A u \in Task \ {t} : r[u].pc = "read_super" =>
          r[u].file # s /\ super[r[u].dev] = [there |-> TRUE, lock |-> TRUE, imount |-> None]
    BY <2>2, RegistersAre DEF Fit, Refers
  <2>4. CASE d \in Supers
    <3>1. ~super[d].lock /\ MountOn(t, d, super)
      BY <1>3, <1>4, <1>7, <2>1, <2>4 DEF sys_mount
    <3>2. super[d].there
      BY <2>4 DEF Supers
    <3>3. super[d].imount = None
      BY <1>3, <1>7, <2>2, <3>1 DEF MountOn
    <3>4. /\ super' = [super EXCEPT ![d].imount = s]
          /\ inode' = [inode EXCEPT ![s] = Covered(inode[s])]
          /\ r' = [r EXCEPT ![t] = Registers]
      BY <1>3, <2>2, <3>1, <3>3 DEF MountOn, Put, Set, Covered
    <3>5. SuperBecomes(d, MountedOn(s))
      <4>1. super[d] \in SuperBlock /\ s \in Slot \cup {None, RootEntry}
        BY <1>5
      <4>2. PICK b : b = [super[d] EXCEPT !.imount = s]
        OBVIOUS
      <4>3. super' = [super EXCEPT ![d] = b]
        BY <3>4, <4>2
      <4>4. b = MountedOn(s) /\ b \in SuperBlock
        BY <3>1, <3>2, <4>1, <4>2 DEF SuperBlock, MountedOn
      <4> QED
        BY <1>5, <4>3, <4>4 DEF SuperBecomes
    <3>6. \A u \in Task \ {t} : r[u].pc = "read_super" => r[u].dev # d /\ r[u].file # s
      BY <2>3, <3>1
    <3>7. MountDone
      BY MountDoneKeeps
    <3> QED
      BY <1>1, <1>2, <1>3, <2>2, <3>3, <3>4, <3>5, <3>6, <3>7 DEF MountDone
  <2>5. CASE d \notin Supers
    <3>1. /\ super' = [super EXCEPT ![d] = [there |-> TRUE, lock |-> TRUE, imount |-> None]]
          /\ r' = [r EXCEPT ![t] = Claims(r[t])]
          /\ UNCHANGED inode
      BY <1>3, <1>4, <1>7, <2>1, <2>5 DEF sys_mount, Set, Claims
    <3>2. ~super[d].there
      BY <1>5, <2>5 DEF Supers
    <3>3. super[d].imount = None
      BY <3>2 DEF InodeInv, DevInv
    <3> DEFINE b == [there |-> TRUE, lock |-> TRUE, imount |-> None]
               q == Claims(r[t])
    <3>4. b \in SuperBlock /\ b.imount = None /\ b.lock /\ b.there
      BY DEF SuperBlock
    <3>5. SuperBecomes(d, b)
      BY <1>5, <3>1, <3>4 DEF SuperBecomes
    <3>6. /\ Sound(q) /\ ~Unmounting(q) /\ ~Putting(q) /\ q.pc = "read_super"
          /\ q.ret = << >> /\ q.refs = 1 /\ q.empty = None /\ q.ino = r[t].ino
          /\ q.file = r[t].file /\ q.dev = r[t].dev /\ q.s = r[t].s
          /\ \A x : ~Reads(q, x) /\ ~Locks(q, x) /\ ~Cuts(q, x)
          /\ \A x \in Slot : Share(q, x) = Share(r[t], x)
      BY <1>2, ClaimsIs
    <3>7. ~Unmounting(r[t]) /\ (\A x : ~Reads(r[t], x) /\ ~Cuts(r[t], x))
          /\ inode[s].ino # NoIno
      BY <1>2, <1>3, MounterIs
    <3>8. r' = [r EXCEPT ![t] = q]
      BY <3>1
    <3> HIDE DEF q
    <3>9. Fit(q, inode, super', entry)
      <4>1. Fit(r[t], inode, super, entry)
        BY RegistersAre
      <4>2. \A e \in Device : super'[e].imount = super[e].imount
        BY <3>3, <3>5 DEF SuperBecomes
      <4>3. q.ino # NoIno =>
               \/ entry[q.ino] > 0
               \/ q.ino \in Roots /\ Passes(inode, super', q.ino[1])
        <5>1. r[t].ino \in Roots => r[t].ino[1] \in Device
          BY DEF Roots, Device
        <5> QED
          BY <3>6, <4>1, <4>2, <5>1 DEF Fit, Passes
      <4>4. super'[q.dev] = b
        BY <1>4, <3>5, <3>6 DEF SuperBecomes
      <4>5. q.pc = "read_super" => 
               /\ super'[q.dev] = [there |-> TRUE, lock |-> TRUE, imount |-> None]
               /\ ~inode[q.file].mount /\ \A e \in Device : super'[e].imount # q.file
        BY <1>3, <2>2, <3>6, <4>2, <4>4
      <4> QED
        BY <1>3, <3>6, <3>7, <4>3, <4>5 DEF Fit, Filled, Mapping
    <3>10. \A u \in Task \ {t} : r[u].pc = "read_super" => r[u].dev # d /\ r[u].file # s
      BY <2>3, <3>2
    <3>11. \A u \in Task \ {t} : Apart(q, r[u]) /\ Apart(r[u], q)
      BY <1>3, <1>4, <3>6, <3>10 DEF Apart
    <3>12. \A x : ~Reads(q, x) /\ ~Cuts(q, x)
      BY <3>6
    <3>13. UNCHANGED <<inode, disk, imap, zmap, ind, entry>>
      BY <1>1, <3>1
    <3> HIDE DEF b
    <3> QED
      BY <3>3, <3>4, <3>5, <3>6, <3>7, <3>8, <3>9, <3>10, <3>11, <3>12, <3>13, SuperTouched
  <2> QED
    BY <2>4, <2>5
<1> QED
  BY <1>6, <1>7

LEMMA Keeps_read_super ==
  ASSUME InodeInv, NEW t \in Task, read_super(t)
  PROVE  InodeInv'
<1>1. r[t].pc = "read_super" /\ UNCHANGED <<disk, imap, zmap, ind, entry, panic>>
  BY DEF read_super, At
<1>2. PICK s \in Slot : s = r[t].file
  BY <1>1, MounterIs
<1>3. PICK d \in Device : d = r[t].dev
  BY <1>1, MounterIs
<1>4. /\ DOMAIN super = Device /\ super \in [Device -> SuperBlock] /\ DOMAIN r = Task
  BY DEF InodeInv, TypeInv, RegInv
<1>5. /\ super[d] = [there |-> TRUE, lock |-> TRUE, imount |-> None]
      /\ ~inode[s].mount /\ \A e \in Device : super[e].imount # s
  BY <1>1, <1>2, <1>3, RegistersAre DEF Fit
<1>6. \A u \in Task \ {t} : r[u].pc = "read_super" => r[u].dev # d /\ r[u].file # s
  BY <1>1, <1>2, <1>3 DEF InodeInv, ApartInv, Apart
<1>7. PICK unlocked : unlocked = [super EXCEPT ![d].lock = FALSE]
  OBVIOUS
<1>8. /\ \A b : [unlocked EXCEPT ![d] = b] = [super EXCEPT ![d] = b]
      /\ unlocked[d] = [super[d] EXCEPT !.lock = FALSE]
      /\ DOMAIN unlocked = Device
  BY <1>4, <1>7
<1>12. PICK lock0 : lock0 = super[d]
  OBVIOUS
<1>13. lock0 \in SuperBlock /\ lock0.there = TRUE /\ lock0.lock = TRUE /\ lock0.imount = None
  <2>1. lock0 = [there |-> TRUE, lock |-> TRUE, imount |-> None]
    BY <1>5, <1>12
  <2>2. lock0 \in SuperBlock
    BY <1>4, <1>12
  <2> QED
    BY <2>1, <2>2
<1>14. PICK u0 : u0 = [lock0 EXCEPT !.lock = FALSE]
  OBVIOUS
<1>15. u0 \in SuperBlock /\ u0.there = TRUE /\ u0.lock = FALSE /\ u0.imount = None
  BY <1>13, <1>14 DEF SuperBlock
<1>16. unlocked[d] = u0
  BY <1>8, <1>12, <1>14
<1>9. \/ MountOn(t, d, unlocked)
      \/ /\ super' = [unlocked EXCEPT ![d].there = FALSE]
         /\ MountFails(t)
         /\ UNCHANGED inode
  BY <1>3, <1>7 DEF read_super
<1>10. CASE MountOn(t, d, unlocked)
  <2>1. /\ super' = [unlocked EXCEPT ![d].imount = s]
        /\ inode' = [inode EXCEPT ![s] = Covered(inode[s])]
        /\ r' = [r EXCEPT ![t] = Registers]
    BY <1>2, <1>5, <1>10, <1>15, <1>16 DEF MountOn, Put, Set, Covered
  <2>2. SuperBecomes(d, MountedOn(s))
    <3>1. PICK b : b = [u0 EXCEPT !.imount = s]
      OBVIOUS
    <3>2. b = MountedOn(s) /\ b \in SuperBlock
      BY <1>15, <3>1 DEF SuperBlock, MountedOn
    <3>4. super' = [unlocked EXCEPT ![d] = b]
      BY <1>8, <1>16, <2>1, <3>1
    <3>3. super' = [super EXCEPT ![d] = b]
      BY <1>8, <3>4
    <3> QED
      BY <1>4, <3>2, <3>3 DEF SuperBecomes
  <2>3. MountDone
    BY MountDoneKeeps
  <2>4. super[d].imount = None
    BY <1>5
  <2>5. /\ r[t].pc \in {"sys_mount", "read_super"} /\ s = r[t].file
        /\ \A c \in Device : super[c].imount # s
        /\ UNCHANGED <<disk, imap, zmap, ind, entry>>
    BY <1>1, <1>2, <1>5
  <2> QED
    BY <1>6, <2>1, <2>2, <2>3, <2>4, <2>5 DEF MountDone
<1>11. CASE super' = [unlocked EXCEPT ![d].there = FALSE] /\ MountFails(t) /\ UNCHANGED inode
  <2> DEFINE q == GivingBack(s)
             b == [there |-> FALSE, lock |-> FALSE, imount |-> None]
  <2>1. r' = [r EXCEPT ![t] = q]
    BY <1>2, <1>11 DEF MountFails, Set, GivingBack
  <2>2. /\ Sound(q) /\ ~Unmounting(q) /\ q.pc = "iput"
        /\ \A x : ~Reads(q, x) /\ ~Locks(q, x) /\ ~Cuts(q, x)
        /\ \A x \in Slot : Share(q, x) = One(x = s)
        /\ \A tab, supers, names : Filled(tab[s]) => Fit(q, tab, supers, names)
    BY GivingBackIs
  <2> HIDE DEF q
  <2>3. /\ ~Unmounting(r[t]) /\ \A x : ~Reads(r[t], x) /\ ~Cuts(r[t], x)
        /\ \A x \in Slot : Share(r[t], x) = One(x = s)
        /\ inode[s].ino # NoIno
    BY <1>1, <1>2, MounterIs
  <2>4. Fit(q, inode, super', entry)
    BY <2>2, <2>3 DEF Filled
  <2>5. b \in SuperBlock /\ b.imount = None /\ ~b.lock
    BY DEF SuperBlock
  <2>6. SuperBecomes(d, b)
    <3>4. PICK b0 : b0 = [u0 EXCEPT !.there = FALSE]
      OBVIOUS
    <3>5. b0 \in SuperBlock /\ b0.there = FALSE /\ b0.lock = FALSE /\ b0.imount = None
      BY <1>15, <3>4 DEF SuperBlock
    <3>6. b0 = b
      BY <3>5 DEF SuperBlock
    <3>1. [u0 EXCEPT !.there = FALSE] = b
      BY <3>4, <3>6
    <3>3. super' = [unlocked EXCEPT ![d] = b]
      BY <1>8, <1>11, <1>16, <3>1
    <3>2. super' = [super EXCEPT ![d] = b]
      BY <1>8, <3>3
    <3> QED
      BY <1>4, <2>5, <3>2 DEF SuperBecomes
  <2>7. \A u \in Task \ {t} : Apart(q, r[u]) /\ Apart(r[u], q)
    BY <2>2 DEF Apart
  <2>8. super[d].imount = None
    BY <1>5
  <2>9. \A u \in Task \ {t} : r[u].pc = "read_super" => r[u].dev # d
    BY <1>6
  <2>10. /\ \A x : ~Reads(q, x) /\ ~Cuts(q, x)
         /\ \A x \in Slot : Share(q, x) = Share(r[t], x)
         /\ UNCHANGED <<inode, disk, imap, zmap, ind, entry>>
    BY <1>1, <1>11, <2>2, <2>3
  <2> HIDE DEF b
  <2> QED
    BY <2>1, <2>2, <2>3, <2>4, <2>5, <2>6, <2>7, <2>8, <2>9, <2>10, SuperTouched
<1> QED
  BY <1>9, <1>10, <1>11

\* put_super, when nobody uses the device any more.
LEMMA Keeps_put_super ==
  ASSUME InodeInv, NEW t \in Task, put_super(t)
  PROVE  InodeInv'
<1>1. r[t].pc = "put_super" /\ UNCHANGED <<inode, disk, imap, zmap, ind, entry>>
  BY DEF put_super, At
<1>2. /\ Sound(r[t]) /\ Shaped(r[t]) /\ Fit(r[t], inode, super, entry)
      /\ (Putting(r[t]) <=> Puts(r[t])) /\ (Unmounting(r[t]) <=> Ends(r[t]))
  BY RegistersAre
<1>3. Unmounting(r[t]) /\ ~Putting(r[t]) /\ r[t].s \in Slot /\ r[t].dev \in Device
      /\ r[t].empty = None
  BY <1>1, <1>2 DEF Puts, Ends, Sound, Shaped, Shape, Taking
<1>4. PICK s \in Slot : s = r[t].s
  BY <1>3
<1>5. PICK d \in Device : d = r[t].dev
  BY <1>3
<1>6. super[d].imount = s /\ ~inode[s].mount
  BY <1>2, <1>3, <1>4, <1>5 DEF Fit
<1> DEFINE b == [there |-> FALSE, lock |-> FALSE, imount |-> None]
           q == Leave(r[t])
<1>7. super' = [super EXCEPT ![d] = b] /\ r' = [r EXCEPT ![t] = q]
  BY <1>5 DEF put_super, Set
<1>8. /\ DOMAIN super = Device /\ super \in [Device -> SuperBlock] /\ DOMAIN r = Task
  BY DEF InodeInv, TypeInv, RegInv
<1>9. b \in SuperBlock
  BY DEF SuperBlock
<1>10. /\ super' \in [Device -> SuperBlock] /\ DOMAIN super' = Device
       /\ super'[d].imount = None /\ ~super'[d].lock
       /\ \A e \in Device \ {d} : super'[e] = super[e]
  BY <1>7, <1>8, <1>9
<1>11. TypeInv'
  BY <1>1, <1>10 DEF InodeInv, TypeInv
<1>12. /\ Sound(q) /\ q.pc = "user" /\ ~Unmounting(q)
       /\ \A x \in Slot : ~Reads(q, x) /\ ~Locks(q, x) /\ ~Cuts(q, x)
       /\ \A x \in Slot : Share(q, x) = IF r[t].file = x THEN r[t].refs ELSE 0
       /\ \A tab, supers, names :
            (r[t].file # None => Filled(tab[r[t].file])) => Fit(q, tab, supers, names)
  BY <1>2, LeaveIsSound
<1> HIDE DEF q, b
<1>13. Fit(q, inode', super', entry')
  BY <1>1, <1>2, <1>12 DEF Fit
<1>14. \A u \in Task : r'[u] = IF u = t THEN q ELSE r[u]
  BY <1>7, <1>8
<1>15. ASSUME NEW u \in Task \ {t}, Unmounting(r[u])
       PROVE  r[u].dev # d /\ r[u].dev \in Device
  <2>1. Apart(r[t], r[u]) /\ Sound(r[u])
    BY RegistersAre DEF InodeInv, ApartInv
  <2> QED
    BY <1>3, <1>5, <1>15, <2>1 DEF Apart, Sound
<1>16. \A u \in Task, e \in Device \ {d} :
         (Unmounting(r'[u]) /\ r'[u].dev = e) <=> (Unmounting(r[u]) /\ r[u].dev = e)
  BY <1>5, <1>12, <1>14
<1>17. ASSUME NEW x \in Slot PROVE Mounts(x)' = Mounts(x)
  <2>1. d \notin Mounts(x)
    BY <1>3, <1>5 DEF Mounts
  <2>2. d \notin Mounts(x)'
    BY <1>10, InodeAssumption DEF Mounts
  <2>3. ASSUME NEW e \in Device \ {d} PROVE e \in Mounts(x)' <=> e \in Mounts(x)
    BY <1>8, <1>10, <1>16 DEF Mounts
  <2>4. Mounts(x) \subseteq Device /\ Mounts(x)' \subseteq Device
    BY <1>8, <1>10 DEF Mounts
  <2> QED
    BY <2>1, <2>2, <2>3, <2>4
<1>18. ASSUME NEW x \in Slot PROVE Marks(x)
  <2>1. SlotAt(x)
    BY DEF InodeInv, SlotInv
  <2>2. inode[x].mount => \E e \in Device : super'[e].imount = x
    <3>1. inode[x].mount => x # s /\ \E e \in Device : super[e].imount = x
      BY <1>6, <2>1 DEF SlotAt
    <3> QED
      BY <1>6, <1>10, <3>1
  <2> QED
    BY <1>1, <2>1, <2>2 DEF Marks, SlotAt
<1>19. \A e \in Device : LetsPass(e)
  BY <1>1, <1>6, <1>10 DEF LetsPass, Passes
<1>20. DevInv'
  <2>1. d # ROOT_DEV
    BY <1>6, InodeAssumption DEF InodeInv, DevInv
  <2> QED
    BY <1>10, <2>1 DEF InodeInv, DevInv
<1>21. MountInv'
  BY <1>1, <1>17 DEF InodeInv, MountInv
<1>22. \A x \in Slot :
           Share(q, x) + Cardinality(Mounts(x)') = Share(r[t], x) + Cardinality(Mounts(x))
  <2> TAKE x \in Slot
  <2>1. Share(r[t], x) = IF r[t].file = x THEN r[t].refs ELSE 0
    <3>1. r[t].refs \in Int
      BY <1>2 DEF Shaped, Shape
    <3> QED
      BY <1>3, <3>1, InodeAssumption DEF Share, One
  <2> QED
    BY <1>12, <1>17, <2>1
<1>23. ASSUME NEW u \in Task \ {t} PROVE Fit(r[u], inode', super', entry')
  <2>1. Sound(r[u]) /\ Fit(r[u], inode, super, entry)
    BY RegistersAre
  <2>2. r[u].empty # None => ~inode'[r[u].empty].dirt /\ ~inode'[r[u].empty].mount
    BY <1>1, <2>1 DEF Fit
  <2>3. r[u].pc = "read_super" =>
           /\ super'[r[u].dev] = super[r[u].dev] /\ ~inode'[r[u].file].mount
           /\ \A e \in Device : super'[e].imount # r[u].file
    <3>1. r[u].pc = "read_super" => r[u].dev \in Device /\ r[u].file \in Slot
      BY MounterIs
    <3>2. r[u].pc = "read_super" => super[r[u].dev].imount = None
      BY <2>1 DEF Fit
    <3> QED
      BY <1>1, <1>6, <1>10, <2>1, <3>1, <3>2, InodeAssumption DEF Fit
  <2>4. Unmounting(r[u]) =>
           super'[r[u].dev].imount = super[r[u].dev].imount /\ ~inode'[r[u].s].mount
    BY <1>1, <1>10, <1>15, <2>1 DEF Fit
  <2>5. \A x \in Slot : Marks(x)
    BY <1>18
  <2> QED
    BY <1>1, <1>19, <2>2, <2>3, <2>4, <2>5, FitMarked
<1>24. \A u \in Task \ {t} : Apart(q, r[u]) /\ Apart(r[u], q)
  BY <1>12 DEF Apart
<1>25. /\ \A x : ~Reads(q, x) /\ ~Cuts(q, x)
       /\ \A x : ~Reads(r[t], x) /\ ~Cuts(r[t], x)
  BY <1>1, <1>12 DEF Reads, Cuts
<1>26. \A x \in Slot : Marks(x)
  BY <1>18
<1>27. \A u \in Task \ {t} : Fit(r[u], inode', super', entry')
  BY <1>23
<1>28. UNCHANGED <<disk, imap, entry>>
  BY <1>1
<1> QED
  BY <1>7, <1>11, <1>12, <1>13, <1>19, <1>20, <1>21, <1>22, <1>24, <1>25, <1>26, <1>27,
     <1>28, MountsStep

\* sys_umount takes the mark from the directory, which it will give back.
Uncovered(i) == [i EXCEPT !.mount = FALSE]
Unmounts(q, s, d) == [q EXCEPT !.pc = "iput", !.s = s, !.dev = d, !.ret = <<"put_super">>]

LEMMA UncoveredIs ==
  ASSUME NEW i \in Entry
  PROVE  LET c == Uncovered(i)
         IN /\ c \in Entry /\ ~c.mount /\ c.dirt = i.dirt
            /\ c.ino = i.ino /\ c.count = i.count /\ c.lock = i.lock /\ c.links = i.links
            /\ c.zone = i.zone /\ c.pipe = i.pipe
  BY DEF Entry, Uncovered

\* The registers q are those of a task that had p and has begun to give back
\* the reference that the device d had to the directory s.
GivesUp(p, q, s, d) ==
  /\ Sound(q) /\ Unmounting(q) /\ Putting(q) /\ q.pc = "iput"
  /\ q.s = s /\ q.dev = d /\ q.empty = None /\ q.ino = NoIno
  /\ q.file = p.file
  /\ \A x : ~Reads(q, x) /\ ~Locks(q, x) /\ ~Cuts(q, x)
  /\ \A x \in Slot : Share(q, x) = Share(p, x) + One(x = s)

LEMMA UnmountsIs ==
  ASSUME InodeInv, NEW t \in Task, r[t].pc = "user", NEW s \in Slot, NEW d \in Device
  PROVE  GivesUp(r[t], Unmounts(r[t], s, d), s, d)
<1> DEFINE p1 == [r[t] EXCEPT !.pc = "iput"]
           p2 == [p1 EXCEPT !.s = s]
           p3 == [p2 EXCEPT !.dev = d]
           q == Unmounts(r[t], s, d)
<1>1. /\ Shaped(r[t]) /\ r[t].ret = << >> /\ r[t].empty = None /\ r[t].ino = NoIno
      /\ r[t].s = None /\ ~Putting(r[t]) /\ (r[t].file = None <=> r[t].refs = 0)
  BY RegistersAre, UserRegisters
<1>2. r[t] \in Shape(<< >>)
  BY <1>1 DEF Shaped
<1>3. p1 \in Shape(<< >>)
  <2>1. "iput" \in Places
    BY DEF Places
  <2> QED
    BY <1>2, <2>1, ShapeKept
<1>4. /\ q = [p3 EXCEPT !.ret = <<"put_super">>]
      /\ q.pc = "iput" /\ q.ret = <<"put_super">> /\ q.s = s /\ q.dev = d
      /\ q.empty = r[t].empty /\ q.ino = r[t].ino /\ q.file = r[t].file
      /\ q.refs = r[t].refs
  BY <1>2 DEF Shape, Unmounts
<1> HIDE DEF p1
<1>5. p2 \in Shape(<< >>)
  BY <1>3, ShapeKept
<1> HIDE DEF p2
<1>6. p3 \in Shape(<< >>)
  BY <1>5, ShapeKept
<1> HIDE DEF p3, q
<1>7. q \in Shape(<<"put_super">>)
  BY <1>4, <1>6, ShapeKept
<1>8. q.pc \in Places /\ q.ret \in Returns(q.pc)
  BY <1>4 DEF Places, Returns
<1>9. Putting(q) /\ Unmounting(q)
  BY <1>4, <1>8, StacksDiffer, PuttingIs DEF Puts, Ends
<1>10. Sound(q)
  BY <1>1, <1>4, <1>7, <1>8, <1>9, StacksDiffer, InodeAssumption
  DEF Sound, Shaped, Taking, Mapping
<1>11. \A x \in Slot : Share(q, x) = Share(r[t], x) + One(x = s)
  <2> TAKE x \in Slot
  <2>1. PICK n : n = IF r[t].file = x THEN r[t].refs ELSE 0
    OBVIOUS
  <2>2. n \in Int
    BY <1>2, <2>1 DEF Shape
  <2>3. Share(r[t], x) = n + 0 + 0
    BY <1>1, <2>1, InodeAssumption DEF Share, One
  <2>4. Share(q, x) = n + 0 + One(x = s)
    BY <1>1, <1>4, <1>9, <2>1, InodeAssumption DEF Share, One
  <2> QED
    BY <2>2, <2>3, <2>4 DEF One
<1>12. \A x : ~Reads(q, x) /\ ~Locks(q, x) /\ ~Cuts(q, x)
  BY <1>4 DEF Reads, Locks, Cuts
<1> QED
  BY <1>1, <1>4, <1>9, <1>10, <1>11, <1>12 DEF q, GivesUp

\* sys_umount up to iput, of a device that nobody uses or is about to use.
LEMMA Keeps_Umount ==
  ASSUME InodeInv, NoTableRaces, NEW t \in Task, Umount(t)
  PROVE  InodeInv'
<1>1. r[t].pc = "user" /\ UNCHANGED <<disk, imap, zmap, ind, super, entry>>
  BY DEF Umount, At, fs
<1>2. PICK d \in Supers \ {ROOT_DEV} :
        LET s == super[d].imount
        IN /\ ~super[d].lock /\ s # None
           /\ ~BusyOn(d)
           /\ "umount" \in Races
              \/ \A u \in Task : r[u].ino[1] # d /\ ~(Unmounting(r[u]) /\ r[u].dev = d)
           /\ Put(s, [inode[s] EXCEPT !.mount = FALSE])
           /\ Set(t, [r[t] EXCEPT !.pc = "iput", !.s = s, !.dev = d,
                                  !.ret = <<"put_super">>])
  BY Zenon DEF Umount
<1>3. /\ DOMAIN super = Device /\ DOMAIN inode = Slot /\ DOMAIN r = Task
      /\ inode \in [Slot -> Entry]
  BY DEF InodeInv, TypeInv, RegInv
<1>4. d \in Device /\ d # ROOT_DEV
  BY <1>3 DEF Supers, Devices
<1>5. PICK s \in Slot : s = super[d].imount
  BY <1>2, <1>4 DEF InodeInv, DevInv
<1>6. inode' = [inode EXCEPT ![s] = Uncovered(inode[s])]
  BY <1>2, <1>5 DEF Put, Uncovered
<1> DEFINE q == Unmounts(r[t], s, d)
<1>7. r' = [r EXCEPT ![t] = q]
  BY <1>2, <1>5 DEF Set, Unmounts
<1>8. \A u \in Task : r[u].ino[1] # d /\ ~(Unmounting(r[u]) /\ r[u].dev = d)
  BY <1>2 DEF NoTableRaces
<1>9. /\ Sound(q) /\ Unmounting(q) /\ Putting(q) /\ q.pc = "iput"
      /\ q.s = s /\ q.dev = d /\ q.empty = None /\ q.ino = NoIno
      /\ q.file = r[t].file
      /\ \A x : ~Reads(q, x) /\ ~Locks(q, x) /\ ~Cuts(q, x)
      /\ \A x \in Slot : Share(q, x) = Share(r[t], x) + One(x = s)
  <2>1. GivesUp(r[t], q, s, d)
    BY <1>1, <1>4, UnmountsIs
  <2> QED
    BY <2>1 DEF GivesUp
<1> HIDE DEF q
<1>10. d \in Mounts(s)
  BY <1>3, <1>4, <1>5, <1>8 DEF Mounts
<1>11. inode[s].mount
  BY <1>10 DEF InodeInv, MountInv
<1>12. SlotAt(s) /\ inode[s].ino # NoIno
  <2>1. SlotAt(s)
    BY DEF InodeInv, SlotInv
  <2> QED
    BY <1>11, <2>1 DEF SlotAt
<1>13. LET c == Uncovered(inode[s])
       IN /\ c \in Entry /\ ~c.mount /\ c.dirt = inode[s].dirt
          /\ c.ino = inode[s].ino /\ c.count = inode[s].count /\ c.lock = inode[s].lock
          /\ c.links = inode[s].links /\ c.zone = inode[s].zone /\ c.pipe = inode[s].pipe
  BY <1>3, UncoveredIs
<1>14. /\ inode' \in [Slot -> Entry] /\ ~inode'[s].mount
       /\ \A x \in Slot \ {s} : inode'[x] = inode[x]
  BY <1>3, <1>6, <1>13
<1>15. \A x \in Slot :
         /\ inode'[x].ino = inode[x].ino /\ inode'[x].count = inode[x].count
         /\ inode'[x].links = inode[x].links /\ inode'[x].zone = inode[x].zone
         /\ inode'[x].lock = inode[x].lock /\ inode'[x].pipe = inode[x].pipe
         /\ inode'[x].dirt = inode[x].dirt
         /\ inode'[x].mount <=> (inode[x].mount /\ x # s)
  BY <1>3, <1>6, <1>13, <1>14
<1>16. TypeInv'
  BY <1>1, <1>14 DEF InodeInv, TypeInv
<1>17. ASSUME NEW x \in Slot PROVE Marks(x)
  <2>1. SlotAt(x)
    BY DEF InodeInv, SlotInv
  <2>2. inode'[x].mount => inode[x].ino # NoIno /\ \E e \in Device : super'[e].imount = x
    BY <1>1, <1>15, <2>1 DEF SlotAt
  <2> QED
    BY <1>15, <2>2 DEF Marks
<1>18. ASSUME NEW e \in Device PROVE LetsPass(e)
  <2>1. CASE e = d
    <3>1. \A x \in Slot : inode[x].ino[1] = d => inode[x].count <= 0
      <4>1. \A x \in Slot : inode[x].count \in Int
        BY AloneUser
      <4> QED
        BY <1>2, <4>1 DEF BusyOn
    <3> QED
      BY <1>8, <2>1, <3>1 DEF LetsPass
  <2>2. CASE e # d
    <3>1. super[e].imount # s
      BY <1>2, <1>4, <1>5, <2>2 DEF InodeInv, DevInv
    <3>2. super[e].imount \in Slot /\ inode[super[e].imount].mount =>
            inode'[super[e].imount].mount
      BY <1>15, <3>1
    <3> QED
      BY <1>1, <3>2 DEF LetsPass, Passes
  <2> QED
    BY <2>1, <2>2
<1>19. \A u \in Task : r'[u] = IF u = t THEN q ELSE r[u]
  BY <1>3, <1>7
<1>20. ~Unmounting(r[t])
  BY <1>1, UserRegisters
<1>21. \A u \in Task, e \in Device :
         (Unmounting(r'[u]) /\ r'[u].dev = e) <=>
           (Unmounting(r[u]) /\ r[u].dev = e) \/ (u = t /\ e = d)
  BY <1>9, <1>19, <1>20
<1>22. ASSUME NEW x \in Slot PROVE Mounts(x)' = Mounts(x) \ {d}
  <2>1. DOMAIN super' = Device
    BY <1>1, <1>3
  <2> QED
    BY <1>1, <1>3, <1>4, <1>21, <2>1 DEF Mounts
<1>23. ASSUME NEW x \in Slot, x # s PROVE d \notin Mounts(x)
  BY <1>5, <1>23 DEF Mounts
<1>24. Mounts(s) = {d}
  <2>1. ASSUME NEW e \in Mounts(s) PROVE e = d
    <3>1. e \in Device /\ super[e].imount = s
      BY <1>3 DEF Mounts
    <3> QED
      BY <1>2, <1>4, <1>5, <3>1 DEF InodeInv, DevInv
  <2> QED
    BY <1>10, <2>1
<1>25. ASSUME NEW x \in Slot
       PROVE  Share(q, x) + Cardinality(Mounts(x)') = Share(r[t], x) + Cardinality(Mounts(x))
  <2>1. r[t].refs \in 0 .. 2
    BY <1>1, UserRegisters
  <2>2. Share(r[t], x) \in Int
    <3>1. PICK n : n = IF r[t].file = x THEN r[t].refs ELSE 0
      OBVIOUS
    <3>2. n \in Int
      BY <2>1, <3>1
    <3>3. \A p : One(p) \in Int
      BY DEF One
    <3>4. Share(r[t], x) = n + One(r[t].empty = x) + One(r[t].s = x /\ Putting(r[t]))
      BY <3>1 DEF Share
    <3> QED
      BY <3>2, <3>3, <3>4
  <2>3. CASE x = s
    <3>1. Mounts(x) = {d} /\ Mounts(x)' = {}
      BY <1>22, <1>24, <2>3
    <3>2. Cardinality(Mounts(x)) = 1 /\ Cardinality(Mounts(x)') = 0
      BY <3>1, FS_Singleton, FS_EmptySet
    <3>3. Share(q, x) = Share(r[t], x) + 1
      BY <1>9, <2>3 DEF One
    <3> QED
      BY <2>2, <3>2, <3>3
  <2>4. CASE x # s
    <3>1. Mounts(x)' = Mounts(x)
      BY <1>22, <1>23, <2>4
    <3>2. Share(q, x) = Share(r[t], x) + 0
      BY <1>9, <2>4 DEF One
    <3>3. Share(q, x) = Share(r[t], x)
      BY <2>2, <3>2
    <3> QED
      BY <3>1, <3>3
  <2> QED
    BY <2>3, <2>4
<1>26. DevInv'
  BY <1>1 DEF InodeInv, DevInv
<1>27. MountInv'
  <2> SUFFICES ASSUME NEW x \in Slot, Mounts(x)' # {} PROVE inode'[x].mount
    BY DEF MountInv
  <2>1. x # s
    BY <1>22, <1>24
  <2>2. Mounts(x) # {}
    BY <1>22
  <2> QED
    BY <1>15, <2>1, <2>2 DEF InodeInv, MountInv
<1>28. Fit(q, inode', super', entry')
  <2>1. r[t].file # None => r[t].file \in Slot /\ Filled(inode[r[t].file])
    BY <1>1, UserRegisters
  <2>2. q.file # None => Filled(inode'[q.file])
    BY <1>9, <1>15, <2>1 DEF Filled
  <2>3. Filled(inode'[s])
    BY <1>12, <1>15 DEF Filled
  <2>4. super'[d].imount = s
    BY <1>1, <1>5
  <2> QED
    BY <1>9, <1>14, <2>2, <2>3, <2>4 DEF Fit, Mapping
<1>29. ASSUME NEW u \in Task \ {t} PROVE Fit(r[u], inode', super', entry')
  <2>1. Sound(r[u]) /\ Fit(r[u], inode, super, entry) /\ Shaped(r[u])
        /\ (Unmounting(r[u]) <=> Ends(r[u]))
    BY RegistersAre
  <2>2. r[u].empty # None => ~inode'[r[u].empty].dirt /\ ~inode'[r[u].empty].mount
    <3>1. r[u].empty # None => r[u].empty \in Slot
      BY <2>1 DEF Shaped, Shape
    <3> QED
      BY <1>15, <2>1, <3>1 DEF Fit
  <2>3. r[u].pc = "read_super" =>
           /\ super'[r[u].dev] = super[r[u].dev] /\ ~inode'[r[u].file].mount
           /\ \A e \in Device : super'[e].imount # r[u].file
    <3>1. r[u].pc = "read_super" => r[u].file \in Slot
      BY MounterIs
    <3> QED
      BY <1>1, <1>15, <2>1, <3>1 DEF Fit
  <2>4. Unmounting(r[u]) =>
           super'[r[u].dev].imount = super[r[u].dev].imount /\ ~inode'[r[u].s].mount
    <3>1. Unmounting(r[u]) => r[u].s \in Slot
      BY <2>1 DEF Ends, Sound, Shaped, Shape
    <3> QED
      BY <1>1, <1>15, <2>1, <3>1 DEF Fit
  <2>5. \A x \in Slot : Marks(x)
    BY <1>17
  <2>6. \A e \in Device : LetsPass(e)
    BY <1>18
  <2> QED
    BY <1>1, <2>2, <2>3, <2>4, <2>5, <2>6, FitMarked
<1>30. \A u \in Task \ {t} : Apart(q, r[u]) /\ Apart(r[u], q)
  BY <1>8, <1>9 DEF Apart
<1>31. /\ \A x : ~Reads(q, x) /\ ~Cuts(q, x)
       /\ \A x : ~Reads(r[t], x) /\ ~Cuts(r[t], x)
  BY <1>1, <1>9, UserRegisters
<1>32. \A x \in Slot : Marks(x)
  BY <1>17
<1>33. \A e \in Device : LetsPass(e)
  BY <1>18
<1>34. \A u \in Task \ {t} : Fit(r[u], inode', super', entry')
  BY <1>29
<1>35. \A x \in Slot :
           Share(q, x) + Cardinality(Mounts(x)') = Share(r[t], x) + Cardinality(Mounts(x))
  BY <1>25
<1>36. UNCHANGED <<disk, imap, entry>>
  BY <1>1
<1> QED
  BY <1>7, <1>9, <1>16, <1>26, <1>27, <1>28, <1>30, <1>31, <1>32, <1>33, <1>34, <1>35,
     <1>36, MountsStep

-----------------------------------------------------------------------------
(* The invariant holds                                                     *)

LEMMA RegistersAreSound ==
  /\ Sound(Registers) /\ ~Putting(Registers) /\ ~Unmounting(Registers)
  /\ \A tab, supers, names : Fit(Registers, tab, supers, names)
<1> DEFINE q == Registers
<1>1. /\ q.pc = "user" /\ q.ret = << >> /\ q.s = None /\ q.empty = None
      /\ q.ino = NoIno /\ q.file = None /\ q.refs = 0
  BY DEF Registers
<1>2. q \in Shape(<< >>)
  BY RegistersHaveShape
<1>3. q = Leave(q)
  BY DEF Leave, Registers
<1> HIDE DEF q
<1>4. q.pc \in Places /\ q.ret \in Returns(q.pc)
  BY <1>1 DEF Places, Returns
<1>5. ~Putting(q) /\ ~Unmounting(q)
  BY <1>1, <1>4, PuttingIs DEF Puts, Ends
<1>6. Sound(q)
  BY <1>1, <1>2, <1>3, <1>4, <1>5, StacksDiffer DEF Sound, Shaped, Taking, Mapping
<1>7. \A tab, supers, names : Fit(q, tab, supers, names)
  BY <1>1, <1>5 DEF Fit, Mapping
<1> QED
  BY <1>5, <1>6, <1>7 DEF q

LEMMA InitIsSound ==
  ASSUME Init
  PROVE  InodeInv
<1>1. /\ \A t \in Task : r[t] = Registers
      /\ \A s \in Slot : inode[s] = Zeroed
      /\ DOMAIN super = Device
  BY DEF Init, Device
<1>12. ASSUME NEW i \in Ino
       PROVE  /\ disk[i].links = IF i \in InUse THEN 1 ELSE 0
              /\ entry[i] = IF i \in InUse /\ i[1] = ROOT_DEV THEN 1 ELSE 0
  <2>1. disk[i] = [links |-> IF i \in InUse THEN 1 ELSE 0, zone |-> NoZones]
    BY DEF Init
  <2> QED
    BY <2>1 DEF Init
<1>13. ASSUME NEW d \in Device
       PROVE  /\ super[d].there = (d = ROOT_DEV) /\ super[d].lock = FALSE
              /\ super[d].imount = IF d = ROOT_DEV THEN RootEntry ELSE None
  <2>1. super[d] = [there |-> d = ROOT_DEV, lock |-> FALSE,
                    imount |-> IF d = ROOT_DEV THEN RootEntry ELSE None]
    BY DEF Init, Device
  <2> QED
    BY <2>1
<1>14. imap = InUse
  BY DEF Init
<1>15. ROOT_DEV \in Device =>
         super[ROOT_DEV] = [there |-> TRUE, lock |-> FALSE, imount |-> RootEntry]
  <2>1. SUFFICES ASSUME ROOT_DEV \in Device
                 PROVE  super[ROOT_DEV] = [there |-> TRUE, lock |-> FALSE, imount |-> RootEntry]
    OBVIOUS
  <2>2. super[ROOT_DEV] = [there |-> ROOT_DEV = ROOT_DEV, lock |-> FALSE,
              imount |-> IF ROOT_DEV = ROOT_DEV THEN RootEntry ELSE None]
    BY <2>1 DEF Init, Device
  <2> QED
    BY <2>2
<1>2. TypeInv
  <2>1. NoZones \in [0 .. 2 -> Number]
    BY DEF NoZones, Number
  <2>3. inode \in [Slot -> Entry]
    BY ZeroedIs DEF Init
  <2>4. disk \in [Ino -> [links : Int, zone : [0 .. 2 -> Number]]]
    <3>1. PICK old : old = NoZones
      OBVIOUS
    <3>2. disk = [i \in Ino |-> [links |-> IF i \in InUse THEN 1 ELSE 0, zone |-> old]]
      BY <3>1 DEF Init
    <3> QED
      BY <2>1, <3>1, <3>2
  <2>5. imap \subseteq Ino /\ zmap \subseteq Zone /\ ind \in [Zone -> Number]
    BY InodeAssumption DEF Init, Number
  <2>6. super \in [Device -> SuperBlock]
    BY DEF Init, Device, SuperBlock
  <2>7. entry \in [Ino -> Nat]
    BY DEF Init
  <2> QED
    BY <2>3, <2>4, <2>5, <2>6, <2>7 DEF TypeInv
<1>3. RegInv
  <2>1. r = [t \in Task |-> r[t]]
    BY DEF Init
  <2> QED
    BY <1>1, <2>1, RegistersAreSound DEF RegInv
<1>4. ASSUME NEW s \in Slot PROVE Mounts(s) = {}
  <2>1. \A d \in Device : super[d].imount # s
    <3> TAKE d \in Device
    <3>1. super[d].imount \in {None, RootEntry}
      BY <1>13
    <3> QED
      BY <3>1, InodeAssumption
  <2> QED
    BY <1>1, <2>1 DEF Mounts
<1>5. CountInv
  <2> SUFFICES ASSUME NEW s \in Slot PROVE inode[s].count = References(s)
    BY DEF CountInv
  <2>1. \A t \in Task :
          r[t].file # s /\ r[t].empty # s /\ r[t].s # s
    BY <1>1, InodeAssumption DEF Registers
  <2>2. {x \in Task \X (1 .. 2) : r[x[1]].file = s /\ x[2] <= r[x[1]].refs} = {}
    BY <2>1
  <2>3. {t \in Task : r[t].empty = s} = {}
    BY <2>1
  <2>4. {t \in Task : r[t].s = s /\ Putting(r[t])} = {}
    BY <2>1
  <2>5. References(s) = 0 + 0 + 0 + 0
    BY <1>4, <2>2, <2>3, <2>4, FS_EmptySet DEF References
  <2> QED
    BY <1>1, <2>5, ZeroedIs
<1>6. FitInv
  BY <1>1, RegistersAreSound DEF FitInv
<1>7. ApartInv
  <2>1. Registers.pc = "user"
    BY DEF Registers
  <2> QED
    BY <1>1, <2>1, RegistersAreSound DEF ApartInv, Apart, Locks
<1>8. SlotInv /\ OneEntryPerInode
  <2>1. Zeroed.ino = NoIno /\ ~Zeroed.dirt /\ ~Zeroed.lock /\ ~Zeroed.mount /\ ~Zeroed.pipe
    BY ZeroedIs
  <2> QED
    BY <1>1, <2>1 DEF SlotInv, SlotAt, OneEntryPerInode
<1>9. InoInv
  <2> SUFFICES ASSUME NEW i \in Ino PROVE InoAt(i)
    BY DEF InoInv
  <2>1. i \in Roots => i \in InUse
    <3>1. i \in (Nat \ {0}) \X (Nat \ {0})
      BY InodeAssumption
    <3>2. i = <<i[1], i[2]>>
      BY <3>1
    <3>3. i[1] # ROOT_DEV => <<i[1], ROOT_INO>> \in InUse
      BY InodeAssumption
    <3> QED
      BY <3>2, <3>3 DEF Roots
  <2>2. PICK n : n = disk[i].links
    OBVIOUS
  <2>3. PICK e : e = entry[i]
    OBVIOUS
  <2>4. n = IF i \in InUse THEN 1 ELSE 0
    BY <1>12, <2>2
  <2>5. e = IF i \in InUse /\ i[1] = ROOT_DEV THEN 1 ELSE 0
    BY <1>12, <2>3
  <2>6. e > 0 => i \in imap /\ i[1] = ROOT_DEV
    BY <1>14, <2>5
  <2>7. i \in Roots => i \in imap
    BY <1>14, <2>1
  <2>8. i \in imap => Linked(i, n)
    BY <1>14, <2>3, <2>4, <2>5 DEF Linked
  <2> QED
    BY <2>2, <2>3, <2>6, <2>7, <2>8 DEF InoAt
<1>10. DevInv
  <2>2. ASSUME NEW d \in Device \ {ROOT_DEV} PROVE super[d].imount = None /\ ~super[d].lock
    BY <1>13
  <2>3. ROOT_DEV \in Device =>
          super[ROOT_DEV] = [there |-> TRUE, lock |-> FALSE, imount |-> RootEntry]
    BY <1>15
  <2>4. ASSUME NEW d \in Device, NEW e \in Device,
               super[d].imount = super[e].imount, super[d].imount # None
        PROVE  d = e
    <3>1. super[d].imount = IF d = ROOT_DEV THEN RootEntry ELSE None
      BY <1>13
    <3>2. super[e].imount = IF e = ROOT_DEV THEN RootEntry ELSE None
      BY <1>13
    <3> QED
      BY <2>4, <3>1, <3>2
  <2> QED
    BY <2>2, <2>3, <2>4 DEF DevInv
<1>11. MountInv
  BY <1>4 DEF MountInv
<1> QED
  BY <1>2, <1>3, <1>5, <1>6, <1>7, <1>8, <1>9, <1>10, <1>11 DEF InodeInv

LEMMA NextIsSound ==
  ASSUME InodeInv, NoTableRaces, [MountNext]_vars
  PROVE  InodeInv'
<1>1. CASE UNCHANGED vars
  BY <1>1, NothingChanges DEF vars, fs
<1>2. ASSUME NEW t \in Task, Step(t) PROVE InodeInv'
  <2>1. CASE iget(t)
    BY <2>1, Keeps_iget
  <2>2. CASE read_inode(t)
    BY <2>2, Keeps_read_inode
  <2>3. CASE write_inode(t)
    BY <2>3, Keeps_write_inode
  <2>4. CASE iput(t)
    BY <2>4, Keeps_iput
  <2>5. CASE sync_inodes(t)
    BY <2>5, Keeps_sync_inodes
  <2>6. CASE truncate(t)
    BY <2>6, Keeps_truncate
  <2>7. CASE new_inode(t)
    BY <2>7, Keeps_new_inode
  <2>8. CASE add_entry(t)
    BY <2>8, Keeps_add_entry
  <2>9. CASE _bmap(t)
    BY <2>9, Keeps_bmap
  <2>10. CASE new_block(t)
    BY <2>10, Keeps_new_block
  <2>11. CASE data(t)
    BY <2>11, Keeps_data
  <2>12. CASE get_pipe_inode(t)
    BY <2>12, Keeps_get_pipe_inode
  <2>13. CASE Open(t)
    BY <2>13, Keeps_Open
  <2>14. CASE Create(t)
    BY <2>14, Keeps_Create
  <2>15. CASE Pipe(t)
    BY <2>15, Keeps_Pipe
  <2>16. CASE Close(t)
    BY <2>16, Keeps_Close
  <2>17. CASE Unlink(t)
    BY <2>17, Keeps_Unlink
  <2>18. CASE Truncate(t)
    BY <2>18, Keeps_Truncate
  <2>19. CASE Access(t)
    BY <2>19, Keeps_Access
  <2>20. CASE Sync(t)
    BY <2>20, Keeps_Sync
  <2> QED
    BY <1>2, <2>1, <2>2, <2>3, <2>4, <2>5, <2>6, <2>7, <2>8, <2>9, <2>10, <2>11, <2>12,
       <2>13, <2>14, <2>15, <2>16, <2>17, <2>18, <2>19, <2>20 DEF Step
<1>3. ASSUME NEW t \in Task, MountStep(t) PROVE InodeInv'
  <2>1. CASE Mount(t)
    BY <2>1, Keeps_Mount
  <2>2. CASE sys_mount(t)
    BY <2>2, Keeps_sys_mount
  <2>3. CASE read_super(t)
    BY <2>3, Keeps_read_super
  <2>4. CASE Umount(t)
    BY <2>4, Keeps_Umount
  <2>5. CASE put_super(t)
    BY <2>5, Keeps_put_super
  <2> QED
    BY <1>3, <2>1, <2>2, <2>3, <2>4, <2>5 DEF MountStep
<1> QED
  BY <1>1, <1>2, <1>3 DEF MountNext

\* The inode that names lead to has as many links as it has names.
LEMMA NamedAreLinked ==
  ASSUME InodeInv
  PROVE  NamesLeadToInodes
<1> SUFFICES ASSUME NEW i \in Ino, entry[i] > 0
             PROVE  i \in imap /\ Current(i).links = entry[i]
  BY DEF NamesLeadToInodes
<1>1. InoAt(i) /\ i # NoIno
  BY NoInoIsNone DEF InodeInv, InoInv
<1>2. i \in imap
  BY <1>1 DEF InoAt
<1> DEFINE read == {x \in SlotsOf(i) : ~\E t \in Task : r[t].pc = "read_inode" /\ r[t].s = x}
<1>3. CASE read = {}
  <2>1. \A x \in SlotsOf(i) : Reading(x)
    BY <1>3 DEF Reading
  <2>2. Linked(i, disk[i].links)
    BY <1>1, <1>2, <2>1 DEF InoAt
  <2>3. Current(i) = disk[i]
    BY <1>3 DEF Current
  <2> QED
    BY <1>2, <2>2, <2>3 DEF Linked
<1>4. CASE read # {}
  <2>1. PICK x : x = CHOOSE y \in read : TRUE
    OBVIOUS
  <2>2. x \in read
    BY <1>4, <2>1
  <2>3. x \in Slot /\ inode[x].ino = i /\ ~Reading(x)
    BY <2>2 DEF SlotsOf, Reading
  <2>4. Linked(i, inode[x].links)
    BY <1>1, <2>3 DEF InodeInv, SlotInv, SlotAt
  <2>5. Current(i).links = inode[x].links
    BY <1>4, <2>1 DEF Current
  <2> QED
    BY <1>2, <2>4, <2>5 DEF Linked
<1> QED
  BY <1>3, <1>4

\* What the invariant says of the table.
LEMMA TheTable ==
  ASSUME InodeInv
  PROVE  TableIsExact /\ NoChangeIsLost
<1>1. TableIsExact
  BY DEF InodeInv, CountInv, TableIsExact, CountsAreExact
<1>2. CacheIsWritten
  <2> SUFFICES ASSUME NEW s \in Slot
               PROVE  /\ inode[s].dirt \/ inode[s].lock => inode[s].count > 0
                      /\ inode[s].ino # NoIno /\ inode[s].links > 0 /\ ~inode[s].dirt
                         /\ ~Reading(s) /\ ~Truncating(s)
                           => disk[inode[s].ino] = [links |-> inode[s].links,
                                                    zone |-> inode[s].zone]
    BY DEF CacheIsWritten, Reading
  <2> QED
    BY DEF InodeInv, SlotInv, SlotAt
<1> QED
  BY <1>1, <1>2, NamedAreLinked DEF NoChangeIsLost

-----------------------------------------------------------------------------
(* The theorems                                                            *)

\* The table of inodes, the disks, the bitmaps, the super blocks and what each
\* task relies on while it sleeps agree with each other in every state.
THEOREM InodeInvariant == NoTableRaces => (MountSpec => []InodeInv)
<1> SUFFICES ASSUME NoTableRaces PROVE MountSpec => []InodeInv
  OBVIOUS
<1>1. Init => InodeInv
  BY InitIsSound
<1>2. InodeInv /\ [MountNext]_vars => InodeInv'
  BY NextIsSound
<1> QED
  BY <1>1, <1>2, PTL DEF MountSpec

\* i_count is at every point the number of tasks and mounts that keep an inode
\* and will give it back, and no inode is twice in the table: iget and
\* get_empty_inode may sleep between the search and the use.
THEOREM TableAlwaysExact == NoTableRaces => (MountSpec => []TableIsExact)
<1>1. InodeInv => TableIsExact
  BY TheTable
<1> QED
  BY <1>1, InodeInvariant, PTL

\* What is in the table and not dirty is on the disk, what is dirty will be
\* written, and an inode has as many links as names: iput never gives up an
\* inode whose changes are nowhere else, nor one that a name leads to.
THEOREM NoChangeEverLost == NoTableRaces => (MountSpec => []NoChangeIsLost)
<1>1. InodeInv => NoChangeIsLost
  BY TheTable
<1> QED
  BY <1>1, InodeInvariant, PTL

\* sys_umount takes no super block from under an inode that is in use, except in
\* the race with iget of the root of the device ("umount"), which is left out.
THEOREM UsedAlwaysMounted == NoTableRaces => (MountSpec => []UsedInodesAreMounted)
<1>1. InodeInv => UsedInodesAreMounted
  BY UsedAreMounted
<1> QED
  BY <1>1, InodeInvariant, PTL

=============================================================================

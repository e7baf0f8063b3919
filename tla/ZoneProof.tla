----------------------------- MODULE ZoneProof ------------------------------
(***************************************************************************)
(* Proofs about the zones of files and about the checks of the code, for   *)
(* any number of tasks, entries, inodes, zones and devices.  They rely on  *)
(* what InodeProof shows of the table of inodes.                           *)
(***************************************************************************)
EXTENDS InodeProof

-----------------------------------------------------------------------------
(* Zones: the inductive invariant                                          *)

\* Nobody truncates a file that others use.
NoRaces == Races = {}

\* The pointer in an indirect zone, and the cell of i_zone that the position p
\* of Named is behind.
Via(x) == IF x = 0 THEN 0 ELSE ind[x]
Cell(p) == IF p = 1 THEN 0 ELSE IF p \in {2, 3} THEN 1 ELSE 2
Spots == 1 .. 6

\* The zone that a file has at position p: truncate has taken those behind the
\* cells it has come past.
Cutters(i) == {t \in Task : r[t].pc = "truncate" /\ inode[r[t].s].ino = i}
Has(i, p) ==
  IF i \in imap /\ \A t \in Cutters(i) : r[t].k <= Cell(p) THEN Named(i, p) ELSE 0

\* The zone that a task is about to free, or has allocated and not yet stored:
\* those of todo from 1 on, and behind the first one those at 0 and -1.
Hand(t, m) ==
  LET todo == r[t].todo
  IN IF m \in DOMAIN todo THEN todo[m][1]
     ELSE IF todo # << >> /\ m = 0 /\ todo[1][2] > 0 THEN Via(todo[1][1])
     ELSE IF todo # << >> /\ m = -1 /\ todo[1][2] > 1 THEN Via(Via(todo[1][1]))
     ELSE 0

\* A zone belongs to one position of one file, or to one task, or to nobody.
ZoneInv ==
  /\ \A i \in Ino, p \in Spots : Has(i, p) \in zmap \cup {0}
  /\ \A t \in Task, m \in Int : Hand(t, m) \in zmap \cup {0}
  /\ \A i, j \in Ino, p, q \in Spots : Has(i, p) = Has(j, q) /\ Has(i, p) # 0 => i = j /\ p = q
  /\ \A t, u \in Task, m, n \in Int : Hand(t, m) = Hand(u, n) /\ Hand(t, m) # 0 => t = u /\ m = n
  /\ \A i \in Ino, p \in Spots, t \in Task, m \in Int : Has(i, p) = Hand(t, m) => Has(i, p) = 0

\* A zone that task u may read or write: no other file has it and nobody frees it.
Safe(u, x) ==
  x # 0 =>
    /\ x \in zmap
    /\ \A i \in Ino, p \in Spots : Has(i, p) = x => i = inode[r[u].file].ino
    /\ \A t \in Task, m \in Int : Hand(t, m) # x

\* Task t may go on from what the registers q hold.
Grips(t, q) ==
  /\ \A v, w \in q.hold : v = w
  /\ \A v \in q.hold :
       /\ Safe(t, v)
       /\ q.pc # "data" =>
            q.k < 2 /\ Safe(t, Via(v)) /\ (q.k > 0 => Safe(t, Via(Via(v))))

\* What tasks hold in bmap and truncate.
Holds(t) ==
  LET q == r[t]
  IN IF q.pc \in Mapping
     THEN /\ IF q.pc = "new_block" THEN \E z \in Zone : q.todo = <<<<z, 0>>>>
             ELSE q.todo = << >> /\ q.hold # {}
          /\ Grips(t, q)
     ELSE IF q.pc = "truncate"
     THEN /\ q.todo = << >> <=> q.k = 0
          /\ q.k > 1 => inode[q.s].zone[0] = 0
          /\ \A n \in DOMAIN q.todo : n > 1 => q.todo[n][2] = 0
          /\ \A v \in q.hold : \E n \in DOMAIN q.todo : v = q.todo[n][1]
     ELSE q.hold = {} /\ q.todo = << >>

HoldInv == \A t \in Task : Holds(t)

\* While an inode is truncated no other task reads, writes or truncates it.
CutInv ==
  \A t, u \in Task :
    t # u /\ r[t].pc = "truncate" /\ r[u].s = r[t].s => r[u].pc \notin Mapping \cup {"truncate"}

\* What a slot has that nobody uses is on the disk.
Tidy(s) ==
  LET i == inode[s]
  IN /\ i.ino = NoIno => i.zone = NoZones
     /\ i.ino # NoIno /\ ~Reading(s) => i.links >= 0 /\ (i.count = 0 => i.links > 0)
TidyInv == \A s \in Slot : Tidy(s)

ZInv == ZoneInv /\ HoldInv /\ CutInv /\ TidyInv

-----------------------------------------------------------------------------
(* Zones: which zone is where                                              *)

\* The pointers of the inode as its users see it.
FileZones(i) == Current(i).zone

\* An inode is as its entry has it, and outside the table as on the disk.
LEMMA ZonesAre ==
  ASSUME InodeInv, NEW i \in Ino
  PROVE  /\ \A s \in Slot : inode[s].ino = i /\ ~Reading(s) => FileZones(i) = inode[s].zone
         /\ (\A s \in Slot : inode[s].ino = i => Reading(s)) => FileZones(i) = disk[i].zone
<1> DEFINE S == {x \in SlotsOf(i) : ~\E t \in Task : r[t].pc = "read_inode" /\ r[t].s = x}
<1>1. ASSUME NEW s \in Slot, inode[s].ino = i, ~Reading(s)
      PROVE  FileZones(i) = inode[s].zone
  <2>1. s \in S
    BY <1>1 DEF SlotsOf, Reading
  <2>2. \A x \in S : x = s
    BY <1>1, NoInoIsNone DEF SlotsOf, InodeInv, OneEntryPerInode
  <2>3. (CHOOSE x \in S : TRUE) = s
    BY <2>1, <2>2
  <2> QED
    BY <2>1, <2>3 DEF FileZones, Current
<1>2. ASSUME \A s \in Slot : inode[s].ino = i => Reading(s)
      PROVE  FileZones(i) = disk[i].zone
  <2>1. S = {}
    BY <1>2 DEF SlotsOf, Reading
  <2> QED
    BY <2>1 DEF FileZones, Current
<1> QED
  BY <1>1, <1>2

LEMMA ZonesAreNext ==
  ASSUME InodeInv', NEW i \in Ino
  PROVE  /\ \A s \in Slot : inode'[s].ino = i /\ ~Reading(s)' => FileZones(i)' = inode'[s].zone
         /\ (\A s \in Slot : inode'[s].ino = i => Reading(s)') => FileZones(i)' = disk'[i].zone
<1> DEFINE S == {x \in SlotsOf(i)' : ~\E t \in Task : r'[t].pc = "read_inode" /\ r'[t].s = x}
<1>1. ASSUME NEW s \in Slot, inode'[s].ino = i, ~Reading(s)'
      PROVE  FileZones(i)' = inode'[s].zone
  <2>1. s \in S
    BY <1>1 DEF SlotsOf, Reading
  <2>2. \A x \in S : x = s
    BY <1>1, NoInoIsNone DEF SlotsOf, InodeInv, OneEntryPerInode
  <2>3. (CHOOSE x \in S : TRUE) = s
    BY <2>1, <2>2
  <2> QED
    BY <2>1, <2>3 DEF FileZones, Current
<1>2. ASSUME \A s \in Slot : inode'[s].ino = i => Reading(s)'
      PROVE  FileZones(i)' = disk'[i].zone
  <2>1. S = {}
    BY <1>2 DEF SlotsOf, Reading
  <2> QED
    BY <2>1 DEF FileZones, Current
<1> QED
  BY <1>1, <1>2

\* Zones are numbers of zones or 0.
LEMMA ZonesAreNumbers ==
  ASSUME InodeInv, NEW i \in Ino
  PROVE  FileZones(i) \in [0 .. 2 -> Number]
<1>1. disk[i].zone \in [0 .. 2 -> Number] /\ \A s \in Slot : inode[s].zone \in [0 .. 2 -> Number]
  BY DEF InodeInv, TypeInv, Entry
<1>2. CASE \A s \in Slot : inode[s].ino = i => Reading(s)
  BY <1>1, <1>2, ZonesAre
<1>3. CASE ~\A s \in Slot : inode[s].ino = i => Reading(s)
  BY <1>1, <1>3, ZonesAre
<1> QED
  BY <1>2, <1>3

\* What Named says, position by position.
LEMMA NamedIs ==
  ASSUME NEW i
  PROVE  /\ Named(i, 1) = FileZones(i)[0]
         /\ Named(i, 2) = FileZones(i)[1]
         /\ Named(i, 3) = Via(FileZones(i)[1])
         /\ Named(i, 4) = FileZones(i)[2]
         /\ Named(i, 5) = Via(FileZones(i)[2])
         /\ Named(i, 6) = Via(Via(FileZones(i)[2]))
  BY DEF Named, FileZones, Via

LEMMA NamedIsNext ==
  ASSUME NEW i
  PROVE  /\ Named(i, 1)' = FileZones(i)'[0]
         /\ Named(i, 2)' = FileZones(i)'[1]
         /\ Named(i, 3)' = Via(FileZones(i)[1])'
         /\ Named(i, 4)' = FileZones(i)'[2]
         /\ Named(i, 5)' = Via(FileZones(i)[2])'
         /\ Named(i, 6)' = Via(Via(FileZones(i)[2]))'
  BY DEF Named, FileZones, Via

\* 0 is the pointer that leads nowhere.
LEMMA ZeroIsNoZone == 0 \notin Zone
  BY InodeAssumption

LEMMA ViaIsNumber ==
  ASSUME InodeInv, NEW x \in Number
  PROVE  Via(x) \in Number
  BY DEF Via, Number, InodeInv, TypeInv

\* What a file has or names is a zone or nothing.
LEMMA HasIsNumber ==
  ASSUME InodeInv, NEW i \in Ino, NEW p \in Spots
  PROVE  Has(i, p) \in Number /\ Named(i, p) \in Number
<1>1. \A k \in 0 .. 2 : FileZones(i)[k] \in Number
  BY ZonesAreNumbers
<1>2. \A k \in 0 .. 2 : Via(FileZones(i)[k]) \in Number /\ Via(Via(FileZones(i)[k])) \in Number
  BY <1>1, ViaIsNumber
<1>3. p = 1 \/ p = 2 \/ p = 3 \/ p = 4 \/ p = 5 \/ p = 6
  BY DEF Spots
<1>4. Named(i, p) \in Number
  BY <1>1, <1>2, <1>3, NamedIs
<1> QED
  BY <1>4 DEF Has, Number

-----------------------------------------------------------------------------
(* Zones: steps                                                            *)

\* The registers of the other tasks, and what they find in the inode at work.
Unchanged(u) ==
  /\ r'[u] = r[u]
  /\ r[u].pc \in Mapping \cup {"truncate"} =>
       /\ inode'[r[u].s].ino = inode[r[u].s].ino
       /\ inode'[r[u].s].zone[0] = 0 \/ inode[r[u].s].zone[0] # 0

\* Zones change hands: files may lose some, and task t may have those, or a
\* new one, or other ones of its own; what nobody has may be freed.
ZonesMove(t) ==
  /\ \A i \in Ino, p \in Spots : Has(i, p)' \in {0, Has(i, p)}
  /\ \A u \in Task \ {t}, m \in Int : Hand(u, m)' = Hand(u, m)
  /\ \A m, n \in Int : Hand(t, m)' = Hand(t, n)' /\ Hand(t, m)' # 0 => m = n
  /\ \A m \in Int : Hand(t, m)' # 0 =>
       /\ Hand(t, m)' \in zmap'
       /\ \A i \in Ino, p \in Spots : Has(i, p)' # Hand(t, m)'
       /\ \/ \E n \in Int : Hand(t, m)' = Hand(t, n)
          \/ \E i \in Ino, p \in Spots :
               /\ Hand(t, m)' = Has(i, p)
               /\ \A u \in Task \ {t} : r[u].pc \in Mapping => inode[r[u].file].ino # i
          \/ Hand(t, m)' \notin zmap
  /\ \A z \in zmap : z \in zmap' \/ \E n \in Int :
       Hand(t, n) = z /\ \A m \in Int : Hand(t, m)' # z

\* Zones that go from a file to a task, or from a task to nobody, keep one owner.
LEMMA ZonesMoveKeeps ==
  ASSUME ZoneInv, NEW t \in Task, ZonesMove(t), 0 \notin zmap
  PROVE  ZoneInv'
<1>1. /\ \A i \in Ino, p \in Spots : Has(i, p) \in zmap \cup {0}
      /\ \A u \in Task, m \in Int : Hand(u, m) \in zmap \cup {0}
      /\ \A i, j \in Ino, p, q \in Spots :
           Has(i, p) = Has(j, q) /\ Has(i, p) # 0 => i = j /\ p = q
      /\ \A v, u \in Task, m, n \in Int :
           Hand(v, m) = Hand(u, n) /\ Hand(v, m) # 0 => v = u /\ m = n
      /\ \A i \in Ino, p \in Spots, u \in Task, m \in Int :
           Has(i, p) = Hand(u, m) => Has(i, p) = 0
  BY DEF ZoneInv
<1>2. \A i \in Ino, p \in Spots : Has(i, p)' \in {0, Has(i, p)}
  BY DEF ZonesMove
<1>3. \A u \in Task \ {t}, m \in Int : Hand(u, m)' = Hand(u, m)
  BY DEF ZonesMove
<1>4. \A m, n \in Int : Hand(t, m)' = Hand(t, n)' /\ Hand(t, m)' # 0 => m = n
  BY DEF ZonesMove
<1>5. \A m \in Int : Hand(t, m)' # 0 =>
       /\ Hand(t, m)' \in zmap'
       /\ \A i \in Ino, p \in Spots : Has(i, p)' # Hand(t, m)'
       /\ \/ \E n \in Int : Hand(t, m)' = Hand(t, n)
          \/ \E i \in Ino, p \in Spots : Hand(t, m)' = Has(i, p)
          \/ Hand(t, m)' \notin zmap
  BY DEF ZonesMove
<1>6. \A z \in zmap : z \in zmap' \/ \E n \in Int :
       Hand(t, n) = z /\ \A m \in Int : Hand(t, m)' # z
  BY DEF ZonesMove
<1>7. \A i \in Ino, p \in Spots : Has(i, p)' \in zmap' \cup {0}
  <2> SUFFICES ASSUME NEW i \in Ino, NEW p \in Spots, Has(i, p)' # 0 PROVE Has(i, p)' \in zmap'
    OBVIOUS
  <2>1. Has(i, p)' = Has(i, p) /\ Has(i, p) \in zmap
    BY <1>1, <1>2
  <2> QED
    BY <1>1, <1>6, <2>1
<1>8. \A u \in Task, m \in Int : Hand(u, m)' \in zmap' \cup {0}
  <2> SUFFICES ASSUME NEW u \in Task, NEW m \in Int, Hand(u, m)' # 0, u # t
               PROVE Hand(u, m)' \in zmap'
    BY <1>5
  <2>1. Hand(u, m)' = Hand(u, m) /\ Hand(u, m) \in zmap
    BY <1>1, <1>3
  <2> QED
    BY <1>1, <1>6, <2>1
<1>9. \A i, j \in Ino, p, q \in Spots :
           Has(i, p)' = Has(j, q)' /\ Has(i, p)' # 0 => i = j /\ p = q
  <2> SUFFICES ASSUME NEW i \in Ino, NEW j \in Ino, NEW p \in Spots, NEW q \in Spots,
                      Has(i, p)' = Has(j, q)', Has(i, p)' # 0
               PROVE  i = j /\ p = q
    OBVIOUS
  <2>1. Has(i, p)' = Has(i, p)
    BY <1>2
  <2>2. Has(j, q)' = Has(j, q)
    BY <1>2
  <2>3. Has(i, p) = Has(j, q) /\ Has(i, p) # 0
    BY <2>1, <2>2
  <2> QED
    BY <2>3 DEF ZoneInv
<1>10. ASSUME NEW u \in Task \ {t}, NEW m \in Int, NEW n \in Int,
              Hand(t, n)' = Hand(u, m)', Hand(t, n)' # 0
       PROVE  FALSE
  <2>1. Hand(u, m)' = Hand(u, m)
    BY <1>3
  <2> QED
    BY <1>1, <1>5, <1>10, <2>1
<1>11. \A v, u \in Task, m, n \in Int :
           Hand(v, m)' = Hand(u, n)' /\ Hand(v, m)' # 0 => v = u /\ m = n
  <2> SUFFICES ASSUME NEW v \in Task, NEW u \in Task, NEW m \in Int, NEW n \in Int,
                      Hand(v, m)' = Hand(u, n)', Hand(v, m)' # 0
               PROVE  v = u /\ m = n
    OBVIOUS
  <2>1. CASE v = t /\ u = t
    BY <1>4, <2>1
  <2>2. CASE v # t /\ u # t
    <3>1. Hand(v, m)' = Hand(v, m)
      BY <1>3, <2>2
    <3>2. Hand(u, n)' = Hand(u, n)
      BY <1>3, <2>2
    <3>3. Hand(v, m) = Hand(u, n) /\ Hand(v, m) # 0
      BY <3>1, <3>2
    <3> QED
      BY <3>3 DEF ZoneInv
  <2> QED
    BY <1>10, <2>1, <2>2
<1>12. \A i \in Ino, p \in Spots, u \in Task, m \in Int :
           Has(i, p)' = Hand(u, m)' => Has(i, p)' = 0
  <2> SUFFICES ASSUME NEW i \in Ino, NEW p \in Spots, NEW u \in Task, NEW m \in Int,
                      Has(i, p)' = Hand(u, m)', Has(i, p)' # 0
               PROVE  FALSE
    OBVIOUS
  <2>1. Has(i, p)' = Has(i, p)
    BY <1>2
  <2>2. CASE u = t
    BY <1>5, <2>2
  <2>3. CASE u # t
    <3>1. Hand(u, m)' = Hand(u, m)
      BY <1>3, <2>3
    <3>2. Has(i, p) = Hand(u, m) /\ Has(i, p) # 0
      BY <2>1, <3>1
    <3> QED
      BY <3>2 DEF ZoneInv
  <2> QED
    BY <2>2, <2>3
<1> QED
  BY <1>7, <1>8, <1>9, <1>11, <1>12 DEF ZoneInv

\* What another task may read or write stays safe.
LEMMA SafeKept ==
  ASSUME ZoneInv, NEW t \in Task, ZonesMove(t), NEW u \in Task \ {t}, NEW x,
         r[u].pc \in Mapping, r'[u] = r[u],
         inode'[r[u].file].ino = inode[r[u].file].ino, Safe(u, x)
  PROVE  Safe(u, x)'
<1> SUFFICES ASSUME x # 0
             PROVE  /\ x \in zmap'
                    /\ \A i \in Ino, p \in Spots :
                         Has(i, p)' = x => i = inode'[r'[u].file].ino
                    /\ \A v \in Task, m \in Int : Hand(v, m)' # x
  BY DEF Safe
<1>1. /\ x \in zmap
      /\ \A i \in Ino, p \in Spots : Has(i, p) = x => i = inode[r[u].file].ino
      /\ \A v \in Task, m \in Int : Hand(v, m) # x
  BY DEF Safe
<1>2. x \in zmap'
  BY <1>1 DEF ZonesMove
<1>3. \A i \in Ino, p \in Spots : Has(i, p)' = x => i = inode'[r'[u].file].ino
  BY <1>1 DEF ZonesMove
<1>4. ASSUME NEW v \in Task, NEW m \in Int, Hand(v, m)' = x PROVE FALSE
  <2>1. CASE v # t
    <3>1. Hand(v, m)' = Hand(v, m)
      BY <2>1 DEF ZonesMove
    <3> QED
      BY <1>1, <1>4, <3>1
  <2>2. CASE v = t
    BY <1>1, <1>4, <2>2 DEF ZonesMove
  <2> QED
    BY <2>1, <2>2
<1> QED
  BY <1>2, <1>3, <1>4

\* So what the other tasks hold stays right, if no pointer changes that they see.
LEMMA HoldsKept ==
  ASSUME InodeInv, ZoneInv, HoldInv, NEW t \in Task, ZonesMove(t), NEW u \in Task \ {t},
         Unchanged(u), ind' = ind
  PROVE  Holds(u)'
<1>1. Holds(u) /\ Sound(r[u])
  BY DEF HoldInv, InodeInv, RegInv
<1>2. r'[u] = r[u]
  BY DEF Unchanged
<1>3. CASE r[u].pc \in Mapping
  <2>1. r[u].s = r[u].file /\ inode'[r[u].file].ino = inode[r[u].file].ino
    BY <1>1, <1>3 DEF Unchanged, Sound
  <2>2. \A x : Safe(u, x) => Safe(u, x)'
    BY <1>2, <1>3, <2>1, SafeKept
  <2>3. \A x : Via(x)' = Via(x)
    BY DEF Via
  <2>4. \A v : /\ Safe(u, v) => Safe(u, v)'
               /\ Safe(u, Via(v)) => Safe(u, Via(v))'
               /\ Safe(u, Via(Via(v))) => Safe(u, Via(Via(v)))'
    <3> SUFFICES ASSUME NEW v
                 PROVE  /\ Safe(u, v) => Safe(u, v)'
                        /\ Safe(u, Via(v)) => Safe(u, Via(v))'
                        /\ Safe(u, Via(Via(v))) => Safe(u, Via(Via(v)))'
      OBVIOUS
    <3>1. PICK a, b : a = Via(v) /\ b = Via(Via(v))
      OBVIOUS
    <3>2. Via(v)' = a /\ Via(Via(v))' = b
      BY <3>1 DEF Via
    <3>3. (Safe(u, v) => Safe(u, v)') /\ (Safe(u, a) => Safe(u, a)') /\ (Safe(u, b) => Safe(u, b)')
      BY <2>2
    <3> QED
      BY <3>1, <3>2, <3>3 DEF Safe
  <2> HIDE DEF Mapping
  <2> QED
    BY <1>1, <1>2, <1>3, <2>4 DEF Holds, Grips
<1>4. CASE r[u].pc = "truncate"
  <2>1. r[u].pc \notin Mapping
    BY <1>4 DEF Mapping
  <2> QED
    BY <1>1, <1>2, <1>4, <2>1 DEF Holds, Unchanged
<1>5. CASE r[u].pc \notin Mapping \cup {"truncate"}
  BY <1>1, <1>2, <1>5 DEF Holds
<1> QED
  BY <1>3, <1>4, <1>5

\* A file keeps its zones or loses some.
ZonesShrink(i) ==
  i \in imap' => \A k \in 0 .. 2 :
    FileZones(i)'[k] = 0 \/ (i \in imap /\ FileZones(i)'[k] = FileZones(i)[k])

\* Truncate goes on with inode i, or has taken all of its zones.
StillCuts(t, q, i) ==
  r[t].pc = "truncate" /\ inode[r[t].s].ino = i =>
    \/ q.pc = "truncate" /\ inode'[q.s].ino = i /\ r[t].k <= q.k
    \/ i \in imap' => \A k \in 0 .. 2 : FileZones(i)'[k] = 0

\* A file whose zones shrink, and whose truncate only goes on, has no zone that
\* it did not have.
LEMMA HasShrinks ==
  ASSUME InodeInv, NEW t \in Task, NEW q, q.k \in Int, r' = [r EXCEPT ![t] = q],
         \A u \in Task \ {t} : Unchanged(u), ind' = ind,
         NEW i \in Ino, NEW p \in Spots, ZonesShrink(i), StillCuts(t, q, i)
  PROVE  Has(i, p)' \in {0, Has(i, p)}
<1> SUFFICES ASSUME Has(i, p)' # 0 PROVE Has(i, p)' = Has(i, p)
  OBVIOUS
<1>1. /\ i \in imap' /\ Has(i, p)' = Named(i, p)'
      /\ \A u \in Cutters(i)' : r'[u].k <= Cell(p)
  BY DEF Has, Cell
<1>2. p = 1 \/ p = 2 \/ p = 3 \/ p = 4 \/ p = 5 \/ p = 6
  BY DEF Spots
<1>3. \A x : Via(x)' = Via(x)
  BY DEF Via
<1>a. /\ Via(FileZones(i)[1])' = Via(FileZones(i)'[1])
      /\ Via(FileZones(i)[2])' = Via(FileZones(i)'[2])
      /\ Via(Via(FileZones(i)[2]))' = Via(Via(FileZones(i)'[2]))
  BY DEF Via
<1>b. /\ Named(i, 1)' = FileZones(i)'[0]
      /\ Named(i, 2)' = FileZones(i)'[1]
      /\ Named(i, 3)' = Via(FileZones(i)'[1])
      /\ Named(i, 4)' = FileZones(i)'[2]
      /\ Named(i, 5)' = Via(FileZones(i)'[2])
      /\ Named(i, 6)' = Via(Via(FileZones(i)'[2]))
  BY <1>a, NamedIsNext
<1>4. \E k \in 0 .. 2 : FileZones(i)'[k] # 0
  <2>1. Via(0) = 0
    BY DEF Via
  <2> QED
    BY <1>1, <1>2, <1>b, <2>1
<1>5. i \in imap
  BY <1>1, <1>4 DEF ZonesShrink
<1>6. Named(i, p)' = Named(i, p)
  <2>1. \A k \in 0 .. 2 : FileZones(i)'[k] = 0 \/ FileZones(i)'[k] = FileZones(i)[k]
    BY <1>1 DEF ZonesShrink
  <2>2. Via(0) = 0
    BY DEF Via
  <2>3. Named(i, p)' # 0
    BY <1>1
  <2> QED
    BY <1>2, <1>b, <2>1, <2>2, <2>3, NamedIs
<1>7. ASSUME NEW u \in Cutters(i) PROVE r[u].k <= Cell(p)
  <2>0. u \in Task /\ r[u].pc = "truncate" /\ inode[r[u].s].ino = i
    BY <1>7 DEF Cutters
  <2>1. CASE u # t
    <3>1. r'[u] = r[u] /\ inode'[r[u].s].ino = i
      BY <2>0, <2>1 DEF Unchanged
    <3>2. u \in Cutters(i)'
      BY <2>0, <3>1 DEF Cutters
    <3> QED
      BY <1>1, <3>1, <3>2
  <2>2. CASE u = t
    <3>1. q.pc = "truncate" /\ inode'[q.s].ino = i /\ r[t].k <= q.k
      BY <1>1, <1>4, <2>0, <2>2 DEF StillCuts
    <3>2. r'[t] = q
      BY DEF InodeInv, RegInv
    <3>3. t \in Cutters(i)'
      BY <3>1, <3>2 DEF Cutters
    <3>4. q.k <= Cell(p)
      BY <1>1, <3>2, <3>3
    <3>5. r[t].k \in Int /\ Cell(p) \in Int
      BY DEF Cell, InodeInv, RegInv, Sound, Shaped, Shape
    <3> QED
      BY <2>2, <3>1, <3>4, <3>5
  <2> QED
    BY <2>1, <2>2
<1> QED
  BY <1>1, <1>5, <1>6, <1>7 DEF Has

\* The zones of a task with nothing to free.
LEMMA HandIsEmpty ==
  ASSUME NEW t \in Task, NEW m \in Int
  PROVE  /\ r[t].todo = << >> => Hand(t, m) = 0
         /\ r'[t].todo = << >> => Hand(t, m)' = 0
  BY DEF Hand

\* Another task has in its hands what it had.
LEMMA HandKept ==
  ASSUME NEW u \in Task, r'[u] = r[u], ind' = ind, NEW m \in Int
  PROVE  Hand(u, m)' = Hand(u, m)
  BY DEF Hand, Via

\* A task does not begin to truncate what others read, write or truncate.
CutsAlone(t, q) ==
  \A u \in Task \ {t} : r[u].s = q.s => r[u].pc \notin Mapping \cup {"truncate"}

\* What a task has while it is neither in bmap nor in the middle of truncate.
Idle(t, q) ==
  /\ q.hold = {} /\ q.todo = << >> /\ q.pc \notin Mapping
  /\ q.pc = "truncate" => q.k = 0 /\ CutsAlone(t, q)

\* A task that begins to truncate or to map alone keeps the others out.
LEMMA CutInvKept ==
  ASSUME InodeInv, CutInv, NEW t \in Task, NEW q, r' = [r EXCEPT ![t] = q],
         q.pc = "truncate" => CutsAlone(t, q),
         q.pc \in Mapping => \A u \in Task \ {t} : r[u].s = q.s => r[u].pc # "truncate"
  PROVE  CutInv'
<1> SUFFICES ASSUME NEW u \in Task, NEW v \in Task, u # v, r'[u].pc = "truncate",
                    r'[v].s = r'[u].s
             PROVE  r'[v].pc \notin Mapping \cup {"truncate"}
  BY DEF CutInv
<1>1. \A w \in Task : r'[w] = IF w = t THEN q ELSE r[w]
  BY DEF InodeInv, RegInv
<1>2. CASE u = t
  BY <1>1, <1>2 DEF CutsAlone
<1>3. CASE v = t
  <2>1. r[u].s = q.s /\ r[u].pc = "truncate" /\ r'[v] = q
    BY <1>1, <1>3
  <2>2. q.pc \notin Mapping
    BY <1>3, <2>1
  <2>3. q.pc # "truncate"
    BY <1>3, <2>1 DEF CutsAlone
  <2> QED
    BY <2>1, <2>2, <2>3
<1>4. CASE u # t /\ v # t
  BY <1>1, <1>4 DEF CutInv
<1> QED
  BY <1>2, <1>3, <1>4

LEMMA ZoneBitsAreZones ==
  ASSUME InodeInv
  PROVE  0 \notin zmap
  BY ZeroIsNoZone DEF InodeInv, TypeInv

\* A step after which the task has no zones, and by which files get none.
LEMMA QuietZones ==
  ASSUME InodeInv, ZInv, NEW t \in Task, NEW q, r' = [r EXCEPT ![t] = q], q.k \in Int,
         \A u \in Task \ {t} : Unchanged(u), ind' = ind, zmap' = zmap,
         \A i \in Ino : ZonesShrink(i), \A i \in Ino : StillCuts(t, q, i),
         r[t].todo = << >>, Idle(t, q), TidyInv'
  PROVE  ZInv'
<1>0. r'[t] = q /\ \A u \in Task \ {t} : r'[u] = r[u]
  BY DEF InodeInv, RegInv
<1>1. ZonesMove(t)
  <2>1. \A i \in Ino, p \in Spots : Has(i, p)' \in {0, Has(i, p)}
    BY HasShrinks
  <2>2. \A u \in Task \ {t}, m \in Int : Hand(u, m)' = Hand(u, m)
    BY <1>0, HandKept
  <2>3. \A m \in Int : Hand(t, m)' = 0
    BY <1>0, HandIsEmpty DEF Idle
  <2> QED
    BY <2>1, <2>2, <2>3 DEF ZonesMove
<1>2. ZoneInv'
  BY <1>1, ZonesMoveKeeps, ZoneBitsAreZones DEF ZInv
<1>3. \A u \in Task \ {t} : Holds(u)'
  BY <1>1, HoldsKept DEF ZInv
<1>4. Holds(t)'
  <2>1. r'[t].hold = {} /\ r'[t].todo = << >> /\ r'[t].pc \notin Mapping
        /\ (r'[t].pc = "truncate" => r'[t].k = 0)
    BY <1>0 DEF Idle
  <2> QED
    BY <2>1 DEF Holds
<1>5. HoldInv'
  BY <1>3, <1>4 DEF HoldInv
<1>6. CutInv'
  BY CutInvKept DEF ZInv, Idle
<1> QED
  BY <1>2, <1>5, <1>6 DEF ZInv

-----------------------------------------------------------------------------
(* Zones: steps by which files keep them                                   *)

\* Every entry has the inode and the zones it had.
EntriesKeepZones ==
  /\ \A s \in Slot :
       /\ inode'[s].ino = inode[s].ino /\ inode'[s].zone = inode[s].zone
       /\ Reading(s)' <=> Reading(s)
  /\ \A j \in Ino : disk'[j] = disk[j] \/ \E s \in Slot : inode[s].ino = j /\ ~Reading(s)

\* Steps that keep the entries keep the zones of every file.
LEMMA FileZonesStay ==
  ASSUME InodeInv, InodeInv', EntriesKeepZones, imap' \subseteq imap, NEW i \in Ino
  PROVE  FileZones(i)' = FileZones(i) /\ ZonesShrink(i)
<1>1. CASE \E s \in Slot : inode[s].ino = i /\ ~Reading(s)
  <2>1. PICK s \in Slot : inode[s].ino = i /\ ~Reading(s)
    BY <1>1
  <2>2. inode'[s].ino = i /\ inode'[s].zone = inode[s].zone /\ ~Reading(s)'
    BY <2>1 DEF EntriesKeepZones
  <2>3. FileZones(i) = inode[s].zone /\ FileZones(i)' = inode'[s].zone
    BY <2>1, <2>2, ZonesAre, ZonesAreNext
  <2> QED
    BY <2>2, <2>3 DEF ZonesShrink
<1>2. CASE \A s \in Slot : inode[s].ino = i => Reading(s)
  <2>1. disk'[i] = disk[i] /\ \A s \in Slot : inode'[s].ino = i => Reading(s)'
    BY <1>2 DEF EntriesKeepZones
  <2>2. FileZones(i) = disk[i].zone /\ FileZones(i)' = disk'[i].zone
    BY <1>2, <2>1, ZonesAre, ZonesAreNext
  <2> QED
    BY <2>1, <2>2 DEF ZonesShrink
<1> QED
  BY <1>1, <1>2

\* An entry keeps its links, or stays tidy in another way.
StaysTidy(s) ==
  inode[s].ino # NoIno /\ ~Reading(s) =>
    \/ inode'[s].links = inode[s].links /\ (inode'[s].count = 0 => inode[s].count = 0 \/ inode[s].links # 0)
    \/ inode'[s].links >= 0 /\ inode'[s].count # 0

\* So they keep what unused entries have on the disk.
LEMMA TidyKept ==
  ASSUME InodeInv, TidyInv, EntriesKeepZones, \A s \in Slot : StaysTidy(s)
  PROVE  TidyInv'
<1> SUFFICES ASSUME NEW s \in Slot PROVE Tidy(s)'
  BY DEF TidyInv
<1>1. Tidy(s) /\ StaysTidy(s)
  BY DEF TidyInv
<1>2. /\ inode'[s].ino = inode[s].ino /\ inode'[s].zone = inode[s].zone
      /\ Reading(s)' <=> Reading(s)
  BY DEF EntriesKeepZones
<1>3. inode[s].links \in Int
  BY DEF InodeInv, TypeInv, Entry
<1> QED
  BY <1>1, <1>2, <1>3 DEF Tidy, StaysTidy

\* The file of another task keeps its inode and zones.
LEMMA OthersUnchanged ==
  ASSUME InodeInv, EntriesKeepZones, NEW t \in Task, NEW q, r' = [r EXCEPT ![t] = q],
         NEW u \in Task \ {t}
  PROVE  Unchanged(u)
<1>1. r'[u] = r[u] /\ Sound(r[u])
  BY DEF InodeInv, RegInv
<1>2. r[u].pc \in Mapping \cup {"truncate"} => r[u].s \in Slot
  BY <1>1 DEF Sound, Shaped, Shape
<1> QED
  BY <1>1, <1>2 DEF Unchanged, EntriesKeepZones

\* Outside truncate and new_block a task has no zone in hand.
LEMMA NothingInHand ==
  ASSUME ZInv, NEW t \in Task, r[t].pc \notin {"truncate", "new_block"}
  PROVE  r[t].todo = << >> /\ (r[t].pc \notin Mapping => r[t].hold = {})
  BY DEF ZInv, HoldInv, Holds, Mapping

\* A step of a task without zones in hand, which keeps those of the entries.
LEMMA EntriesKeep ==
  ASSUME InodeInv, InodeInv', ZInv, NEW t \in Task, NEW q, r' = [r EXCEPT ![t] = q],
         q.k \in Int, UNCHANGED <<imap, zmap, ind>>,
         r[t].pc \notin {"truncate", "new_block"}, Idle(t, q),
         EntriesKeepZones, \A s \in Slot : StaysTidy(s)
  PROVE  ZInv'
<1>1. \A u \in Task \ {t} : Unchanged(u)
  BY OthersUnchanged
<1>2. \A i \in Ino : ZonesShrink(i)
  BY FileZonesStay
<1>3. \A i \in Ino : StillCuts(t, q, i)
  BY DEF StillCuts
<1>4. TidyInv'
  BY TidyKept DEF ZInv
<1>5. r[t].todo = << >>
  BY NothingInHand
<1> QED
  BY <1>1, <1>2, <1>3, <1>4, <1>5, QuietZones

\* The step of a task after which no other entries are read.
LEMMA SameReading ==
  ASSUME InodeInv, NEW t \in Task, NEW q, r' = [r EXCEPT ![t] = q],
         r[t].pc # "read_inode", q.pc # "read_inode", NEW s
  PROVE  Reading(s)' <=> Reading(s)
<1>1. /\ Reading(s)' <=> Reads(q, s) \/ \E u \in Task \ {t} : Reads(r[u], s)
      /\ Reading(s) <=> Reads(r[t], s) \/ \E u \in Task \ {t} : Reads(r[u], s)
  BY OneTaskMoves DEF InodeInv
<1> QED
  BY <1>1 DEF Reads

\* Registers without zones.
Plain(q) == q.hold = {} /\ q.todo = << >> /\ q.k \in Int

LEMMA PlainReturn ==
  ASSUME NEW a, NEW p \in Shape(a), Plain(p)
  PROVE  /\ Plain(Return(p))
         /\ p.ret = << >> => Return(p).pc = "user"
         /\ p.ret # << >> => Return(p).pc = Head(p.ret) /\ Return(p).s = p.s
<1>1. Plain(Leave(p)) /\ Leave(p).pc = "user"
  BY DEF Plain, Leave, Registers
<1>2. p.ret # << >> => /\ Return(p).hold = p.hold /\ Return(p).todo = p.todo /\ Return(p).k = p.k
                       /\ Return(p).pc = Head(p.ret) /\ Return(p).s = p.s
  BY DEF Return, Shape
<1> QED
  BY <1>1, <1>2 DEF Plain, Return

LEMMA PlainCall ==
  ASSUME NEW a, NEW p \in Shape(a), Plain(p), NEW pc, NEW back
  PROVE  Plain(Call(p, pc, back)) /\ Call(p, pc, back).pc = pc /\ Call(p, pc, back).s = p.s
  BY DEF Plain, Call, Shape

\* A task in bmap or truncate uses the inode at work.
LEMMA UsesInode ==
  ASSUME InodeInv, NEW u \in Task, r[u].pc \in Mapping \cup {"truncate"}
  PROVE  r[u].s \in Slot /\ Refers(r[u], r[u].s)
<1>1. Sound(r[u]) /\ (Putting(r[u]) <=> Puts(r[u]))
  BY RegistersAre
<1>2. r[u].s # None /\ r[u].s \in Slot \cup {None}
  BY <1>1 DEF Sound, Shaped, Shape
<1>3. CASE r[u].pc \in Mapping \/ r[u].ret = << >>
  BY <1>1, <1>2, <1>3 DEF Sound, Refers, Mapping
<1>4. CASE r[u].pc = "truncate" /\ r[u].ret # << >>
  BY <1>1, <1>2, <1>4 DEF Puts, Refers
<1> QED
  BY <1>3, <1>4

\* An inode that one task uses alone can be truncated by it.
LEMMA AloneCutsAlone ==
  ASSUME InodeInv, NEW t \in Task, NEW v \in Slot, inode[v].count < 2, Refers(r[t], v),
         NEW q, q.s = v
  PROVE  CutsAlone(t, q)
<1> SUFFICES ASSUME NEW u \in Task \ {t}, r[u].s = v, r[u].pc \in Mapping \cup {"truncate"}
             PROVE  FALSE
  BY DEF CutsAlone
<1>1. Refers(r[u], v)
  BY UsesInode
<1> QED
  BY <1>1, AloneUser

\* The table that iput or sync has got to: entries may have been written.
SameZones(tab) ==
  \A s \in Slot :
    /\ tab[s].ino = inode[s].ino /\ tab[s].zone = inode[s].zone
    /\ tab[s].links = inode[s].links /\ tab[s].count = inode[s].count
DiskOfSome == \A j \in Ino : disk'[j] = disk[j] \/ \E s \in Slot : inode[s].ino = j /\ ~Reading(s)

\* A step that writes, locks or unlocks entries.
LEMMA SameZonesKeep ==
  ASSUME InodeInv, InodeInv', ZInv, NEW t \in Task, NEW q, r' = [r EXCEPT ![t] = q],
         Plain(q), UNCHANGED <<imap, zmap, ind>>,
         r[t].pc \notin {"truncate", "new_block", "read_inode"},
         q.pc \notin Mapping \cup {"truncate", "read_inode"},
         SameZones(inode'), DiskOfSome
  PROVE  ZInv'
<1>1. \A s : Reading(s)' <=> Reading(s)
  BY SameReading
<1>2. EntriesKeepZones
  BY <1>1 DEF EntriesKeepZones, SameZones, DiskOfSome
<1>3. \A s \in Slot : StaysTidy(s)
  BY DEF StaysTidy, SameZones
<1>4. Idle(t, q) /\ q.k \in Int
  BY DEF Idle, Plain
<1> QED
  BY <1>2, <1>3, <1>4, EntriesKeep

\* write_inode begins.
LEMMA WriteBackKeepsZones ==
  ASSUME InodeInv, InodeInv', ZInv, NEW t \in Task, NEW a, NEW p \in Shape(a), Plain(p),
         p.s \in Slot, NEW tab \in [Slot -> Entry], SameZones(tab), DiskOfSome,
         UNCHANGED <<imap, zmap, ind>>, NEW back,
         r[t].pc \notin Mapping \cup {"truncate", "read_inode"},
         WriteBack(t, p, tab, back)
  PROVE  ZInv'
<1>0. r[t].pc \notin {"truncate", "new_block", "read_inode"}
  BY DEF Mapping
<1>1. CASE UNCHANGED <<inode, r>>
  <2> DEFINE q == r[t]
  <2>1. r' = [r EXCEPT ![t] = q]
    BY <1>1 DEF InodeInv, RegInv
  <2>2. q.hold = {} /\ q.todo = << >>
    BY <1>0, NothingInHand
  <2>3. q.k \in Int
    BY DEF InodeInv, RegInv, Sound, Shaped, Shape
  <2>4. SameZones(inode')
    BY <1>1 DEF SameZones
  <2>5. q.pc \notin Mapping \cup {"truncate", "read_inode"}
    OBVIOUS
  <2> HIDE DEF q
  <2>6. Plain(q)
    BY <2>2, <2>3 DEF Plain
  <2> QED
    BY <1>0, <2>1, <2>4, <2>5, <2>6, SameZonesKeep
<1>2. CASE inode' = [tab EXCEPT ![p.s].lock = TRUE] /\ Set(t, Call(p, "write_inode", back))
  <2> DEFINE q == Call(p, "write_inode", back)
  <2>1. r' = [r EXCEPT ![t] = q]
    BY <1>2 DEF Set
  <2>2. Plain(q) /\ q.pc = "write_inode"
    BY PlainCall
  <2> HIDE DEF q
  <2>3. \A s \in Slot : /\ inode'[s].ino = tab[s].ino /\ inode'[s].zone = tab[s].zone
                        /\ inode'[s].links = tab[s].links /\ inode'[s].count = tab[s].count
    BY <1>2 DEF Entry
  <2>4. SameZones(inode')
    BY <2>3 DEF SameZones
  <2>5. q.pc \notin Mapping \cup {"truncate", "read_inode"}
    BY <2>2 DEF Mapping
  <2> QED
    BY <1>0, <2>1, <2>2, <2>4, <2>5, SameZonesKeep
<1> QED
  BY <1>1, <1>2 DEF WriteBack, Panic

\* iput from the label repeat on.
LEMMA RepeatKeepsZones ==
  ASSUME InodeInv, InodeInv', ZInv, NEW t \in Task, NEW a \in {<< >>, <<"put_super">>},
         NEW p \in Shape(a), Plain(p), p.s = r[t].s, p.s \in Slot,
         Putting(r[t]), NEW tab \in [Slot -> Entry], SameZones(tab), DiskOfSome,
         UNCHANGED <<imap, zmap, ind>>, r[t].pc \in {"iput", "write_inode"},
         Repeat(t, p, tab)
  PROVE  ZInv'
<1> DEFINE v == p.s
           i == tab[v]
<1>0. r[t].pc \notin {"truncate", "new_block", "read_inode"} /\ r[t].pc \notin Mapping
  BY DEF Mapping
<1>1. CASE i.count > 1 \/ (i.links # 0 /\ ~i.dirt)
  <2> DEFINE q == Return(p)
  <2>1. inode' = [tab EXCEPT ![v].count = @ - 1] /\ r' = [r EXCEPT ![t] = q]
    BY <1>1 DEF Repeat, Set
  <2>2. Plain(q) /\ (q.pc = "user" \/ q.pc = "put_super")
    <3>1. p.ret = a
      BY DEF Shape
    <3> QED
      BY <3>1, PlainReturn, ShortStacks
  <2> HIDE DEF q
  <2>3. \A s : Reading(s)' <=> Reading(s)
    BY <1>0, <2>1, <2>2, SameReading
  <2>4. \A s \in Slot : /\ inode'[s].ino = tab[s].ino /\ inode'[s].zone = tab[s].zone
                        /\ inode'[s].links = tab[s].links
                        /\ s # v => inode'[s].count = tab[s].count
    BY <2>1 DEF Entry
  <2>5. EntriesKeepZones
    BY <2>3, <2>4 DEF EntriesKeepZones, SameZones, DiskOfSome
  <2>6. inode'[v].count = i.count - 1 /\ i.count \in Int
    BY <2>1 DEF Entry
  <2>7. \A s \in Slot : StaysTidy(s)
    BY <1>1, <2>4, <2>6 DEF StaysTidy, SameZones
  <2>8. Idle(t, q) /\ q.k \in Int
    BY <2>2 DEF Idle, Plain, Mapping
  <2> QED
    BY <1>0, <2>1, <2>5, <2>7, <2>8, EntriesKeep
<1>2. CASE ~(i.count > 1 \/ (i.links # 0 /\ ~i.dirt)) /\ i.links = 0
  <2> DEFINE m == [p EXCEPT !.k = 0]
             q == Call(m, "truncate", "free_inode")
  <2>1. inode' = tab /\ r' = [r EXCEPT ![t] = q]
    BY <1>2 DEF Repeat, Set
  <2>2. m \in Shape(a) /\ Plain(m) /\ m.s = v /\ m.k = 0
    BY DEF Shape, Plain
  <2> HIDE DEF m
  <2>3. Plain(q) /\ q.pc = "truncate" /\ q.s = v
    BY <2>2, PlainCall
  <2>4. q.k = 0
    BY <2>2 DEF Call, Shape
  <2> HIDE DEF q
  <2>5. \A s : Reading(s)' <=> Reading(s)
    BY <1>0, <2>1, <2>3, SameReading
  <2>6. EntriesKeepZones
    BY <2>1, <2>5 DEF EntriesKeepZones, SameZones, DiskOfSome
  <2>7. \A s \in Slot : StaysTidy(s)
    BY <2>1 DEF StaysTidy, SameZones
  <2>8. inode[v].count < 2 /\ Refers(r[t], v)
    <3>1. i.count \in Int /\ inode[v].count = i.count
      BY DEF Entry, SameZones
    <3> QED
      BY <1>2, <3>1 DEF Refers
  <2>9. CutsAlone(t, q)
    BY <2>3, <2>8, AloneCutsAlone
  <2>10. Idle(t, q) /\ q.k \in Int
    BY <2>3, <2>4, <2>9 DEF Idle, Plain, Mapping
  <2> QED
    BY <1>0, <2>1, <2>6, <2>7, <2>10, EntriesKeep
<1>3. CASE ~(i.count > 1 \/ (i.links # 0 /\ ~i.dirt)) /\ i.links # 0
  <2>1. WriteBack(t, p, tab, "repeat")
    BY <1>3 DEF Repeat
  <2>2. r[t].pc \notin Mapping \cup {"truncate", "read_inode"}
    BY <1>0
  <2> QED
    BY <2>1, <2>2, WriteBackKeepsZones
<1> QED
  BY <1>1, <1>2, <1>3

\* sync_inodes goes on.
LEMMA SyncKeepsZones ==
  ASSUME InodeInv, InodeInv', ZInv, NEW t \in Task, NEW p \in Shape(<< >>), Plain(p),
         NEW tab \in [Slot -> Entry], SameZones(tab), DiskOfSome,
         UNCHANGED <<imap, zmap, ind>>,
         r[t].pc \notin Mapping \cup {"truncate", "read_inode"},
         SyncFrom(t, p, tab)
  PROVE  ZInv'
<1> DEFINE stop == {s \in p.rest : tab[s].lock \/ NeedsSync(tab[s])}
           on(s) == [p EXCEPT !.s = s, !.rest = stop \ {s}]
<1>0. /\ r[t].pc \notin {"truncate", "new_block", "read_inode"}
      /\ p.rest \in SUBSET Slot /\ p.ret = << >>
  BY DEF Mapping, Shape
<1>1. CASE stop = {}
  <2> DEFINE q == Return(p)
  <2>1. inode' = tab /\ r' = [r EXCEPT ![t] = q]
    BY <1>1, Zenon DEF SyncFrom, Set
  <2>2. Plain(q) /\ q.pc = "user"
    BY <1>0, PlainReturn
  <2> HIDE DEF q
  <2>3. SameZones(inode') /\ q.pc \notin Mapping \cup {"truncate", "read_inode"}
    BY <2>1, <2>2 DEF SameZones, Mapping
  <2> QED
    BY <1>0, <2>1, <2>2, <2>3, SameZonesKeep
<1>2. CASE stop # {}
  <2>1. PICK s \in stop :
            IF tab[s].lock
            THEN /\ inode' = tab
                 /\ Set(t, [on(s) EXCEPT !.pc = "sync_inodes"])
                 /\ UNCHANGED panic
            ELSE WriteBack(t, on(s), tab, "synced")
    BY <1>2, Zenon DEF SyncFrom
  <2>2. s \in Slot /\ stop \ {s} \in SUBSET Slot
    BY <1>0
  <2> HIDE DEF stop
  <2>3. on(s) \in Shape(<< >>)
    BY <2>2, ShapeKept
  <2>4. on(s).s = s /\ Plain(on(s))
    BY DEF Shape, Plain
  <2> DEFINE o == on(s)
  <2>5. o \in Shape(<< >>) /\ o.s = s /\ Plain(o)
    BY <2>3, <2>4
  <2>6. CASE tab[s].lock
    <3> DEFINE q == [o EXCEPT !.pc = "sync_inodes"]
    <3>1. inode' = tab /\ r' = [r EXCEPT ![t] = q]
      BY <2>1, <2>6 DEF Set
    <3> HIDE DEF o
    <3>2. Plain(q) /\ q.pc = "sync_inodes"
      BY <2>5 DEF Plain, Shape
    <3> HIDE DEF q
    <3>3. SameZones(inode') /\ q.pc \notin Mapping \cup {"truncate", "read_inode"}
      BY <3>1, <3>2 DEF SameZones, Mapping
    <3> QED
      BY <1>0, <3>1, <3>2, <3>3, SameZonesKeep
  <2>7. CASE ~tab[s].lock
    <3>1. WriteBack(t, o, tab, "synced")
      BY <2>1, <2>7
    <3> HIDE DEF o
    <3> QED
      BY <2>2, <2>5, <3>1, WriteBackKeepsZones
  <2> QED
    BY <2>6, <2>7
<1> QED
  BY <1>1, <1>2

\* A task that is not in bmap or truncate has no zones.
LEMMA PlainRegisters ==
  ASSUME InodeInv, ZInv, NEW t \in Task, r[t].pc \notin Mapping \cup {"truncate"}
  PROVE  Plain(r[t]) /\ r[t] \in Shape(r[t].ret) /\ r[t].pc \notin {"truncate", "new_block"}
<1>1. r[t].pc \notin {"truncate", "new_block"}
  BY DEF Mapping
<1>2. r[t].k \in Int /\ r[t] \in Shape(r[t].ret)
  BY DEF InodeInv, RegInv, Sound, Shaped, Shape
<1> QED
  BY <1>1, <1>2, NothingInHand DEF Plain

\* Every action keeps the invariant.  write_inode copies the zones to the disk.
LEMMA Zones_write_inode ==
  ASSUME InodeInv, InodeInv', ZInv, NEW t \in Task, write_inode(t)
  PROVE  ZInv'
<1>1. r[t].pc = "write_inode" /\ UNCHANGED <<imap, zmap, ind>>
  BY DEF write_inode, At
<1>2. /\ Sound(r[t]) /\ Fit(r[t], inode, super, entry) /\ r[t].ret \in Returns(r[t].pc)
      /\ (Putting(r[t]) <=> Puts(r[t]))
  BY RegistersAre
<1>3. r[t].pc \notin Mapping \cup {"truncate", "read_inode"}
  BY <1>1 DEF Mapping
<1>4. Plain(r[t]) /\ r[t] \in Shape(r[t].ret)
  BY <1>3, PlainRegisters
<1>5. PICK v \in Slot : v = r[t].s
  BY <1>1, <1>2 DEF Sound, Shaped, Shape
<1>6. inode[v].ino # NoIno /\ ~Reading(v)
  BY <1>1, <1>2, <1>5, WritersDoNotRead DEF Fit
<1> DEFINE q == Return(r[t])
           tab == [inode EXCEPT ![v].dirt = FALSE, ![v].lock = FALSE]
<1>7. /\ disk' = [disk EXCEPT ![inode[v].ino] = [links |-> inode[v].links, zone |-> inode[v].zone]]
      /\ IF q.pc = "repeat" THEN Repeat(t, q, tab) ELSE SyncFrom(t, q, tab)
  <2>1. r[t].ret # << >>
    BY <1>1, <1>2, StacksDiffer DEF Returns
  <2>2. q.s = v
    BY <1>4, <1>5, <2>1, PlainReturn
  <2> HIDE DEF q
  <2>3. q = Return(r[t])
    BY DEF q
  <2> QED
    BY <1>5, <2>2, <2>3 DEF write_inode
<1>8. DiskOfSome
  <2>1. disk \in [Ino -> [links : Int, zone : [0 .. 2 -> Number]]]
    BY DEF InodeInv, TypeInv
  <2>2. \A j \in Ino : disk'[j] = disk[j] \/ inode[v].ino = j
    BY <1>7, <2>1
  <2> QED
    BY <1>6, <2>2 DEF DiskOfSome
<1>9. inode \in [Slot -> Entry]
  BY DEF InodeInv, TypeInv
<1>10. tab \in [Slot -> Entry]
  <2>1. [inode[v] EXCEPT !.dirt = FALSE, !.lock = FALSE] \in Entry
    BY <1>9 DEF Entry
  <2> QED
    BY <1>9, <2>1
<1>11. SameZones(tab)
  BY <1>9 DEF SameZones, Entry
<1>12. \/ /\ r[t].ret = <<"repeat">> /\ Head(r[t].ret) = "repeat" /\ Tail(r[t].ret) = << >>
          /\ Puts(r[t])
       \/ /\ r[t].ret = <<"repeat", "put_super">> /\ Head(r[t].ret) = "repeat"
          /\ Tail(r[t].ret) = <<"put_super">> /\ Puts(r[t])
       \/ /\ r[t].ret = <<"synced">> /\ Head(r[t].ret) = "synced" /\ Tail(r[t].ret) = << >>
  BY <1>1, <1>2, ShortStacks, StacksDiffer DEF Returns, Puts
<1>13. /\ q.pc = Head(r[t].ret) /\ q.s = v /\ Plain(q) /\ q \in Shape(Tail(r[t].ret))
  <2>1. r[t].ret # << >>
    BY <1>12, StacksDiffer
  <2>2. q.pc = Head(r[t].ret) /\ q.s = v /\ Plain(q)
    BY <1>4, <1>5, <2>1, PlainReturn
  <2>3. Head(r[t].ret) \in Places \cup {"repeat", "synced", "free_inode"}
    BY <1>12
  <2>4. q \in Shape(Tail(r[t].ret))
    BY <1>4, <2>1, <2>3, ReturnGoesBack
  <2> QED
    BY <2>2, <2>4
<1> HIDE DEF q, tab
<1>14. CASE Head(r[t].ret) = "repeat"
  <2>1. Repeat(t, q, tab)
    BY <1>7, <1>13, <1>14
  <2>2. Putting(r[t])
    BY <1>2, <1>12, <1>14, ShortStacks
  <2>3. Tail(r[t].ret) \in {<< >>, <<"put_super">>}
    BY <1>12
  <2>4. PICK a \in {<< >>, <<"put_super">>} : a = Tail(r[t].ret)
    BY <2>3
  <2>5. q \in Shape(a) /\ q.s = r[t].s /\ q.s \in Slot /\ r[t].pc \in {"iput", "write_inode"}
    BY <1>1, <1>5, <1>13, <2>4
  <2> QED
    BY <1>1, <1>8, <1>10, <1>11, <1>13, <2>1, <2>2, <2>5, RepeatKeepsZones
<1>15. CASE Head(r[t].ret) = "synced"
  <2>1. SyncFrom(t, q, tab) /\ Tail(r[t].ret) = << >>
    BY <1>7, <1>12, <1>13, <1>15, ShortStacks
  <2>2. q \in Shape(<< >>)
    BY <1>13, <2>1
  <2> QED
    BY <1>1, <1>3, <1>8, <1>10, <1>11, <1>13, <2>1, <2>2, SyncKeepsZones
<1> QED
  BY <1>12, <1>14, <1>15

LEMMA TableIsSame ==
  ASSUME InodeInv, disk' = disk
  PROVE  inode \in [Slot -> Entry] /\ SameZones(inode) /\ DiskOfSome
  BY DEF InodeInv, TypeInv, SameZones, DiskOfSome

\* A step that changes no entry and moves no zones.
LEMMA RegistersStep ==
  ASSUME InodeInv, InodeInv', ZInv, NEW t \in Task, NEW q, r' = [r EXCEPT ![t] = q],
         Plain(q), UNCHANGED <<inode, disk, imap, zmap, ind>>,
         r[t].pc \notin {"truncate", "new_block", "read_inode"},
         q.pc \notin Mapping \cup {"truncate", "read_inode"}
  PROVE  ZInv'
<1>1. SameZones(inode') /\ DiskOfSome
  BY DEF SameZones, DiskOfSome
<1> QED
  BY <1>1, SameZonesKeep

LEMMA ZonesUntouched ==
  ASSUME ZInv, UNCHANGED <<inode, disk, imap, zmap, ind, r>>
  PROVE  ZInv'
<1>1. \A i \in Ino, p \in Spots : Has(i, p)' = Has(i, p)
  BY DEF Has, Named, Current, SlotsOf, Cutters, Cell
<1>2. \A t \in Task, m \in Int : Hand(t, m)' = Hand(t, m)
  BY DEF Hand, Via
<1>3. ZoneInv'
  BY <1>1, <1>2 DEF ZInv, ZoneInv
<1>4. \A u \in Task : \A x : Safe(u, x) => Safe(u, x)'
  BY <1>1, <1>2 DEF Safe
<1>5. \A u \in Task : /\ \A v : Safe(u, v) => Safe(u, v)'
                      /\ \A v : Safe(u, Via(v)) => Safe(u, Via(v))'
                      /\ \A v : Safe(u, Via(Via(v))) => Safe(u, Via(Via(v)))'
  BY <1>1, <1>2 DEF Safe, Via
<1>6. HoldInv'
  <2> SUFFICES ASSUME NEW u \in Task PROVE Holds(u)'
    BY DEF HoldInv
  <2>1. Holds(u)
    BY DEF ZInv, HoldInv
  <2> QED
    BY <1>5, <2>1 DEF Holds, Grips
<1>7. CutInv' /\ TidyInv'
  BY DEF ZInv, CutInv, TidyInv, Tidy, Reading
<1> QED
  BY <1>3, <1>6, <1>7 DEF ZInv

\* iput hands an inode without links to truncate, with its zones.
LEMMA Zones_iput ==
  ASSUME InodeInv, InodeInv', ZInv, NEW t \in Task, iput(t)
  PROVE  ZInv'
<1>1. r[t].pc = "iput" /\ UNCHANGED <<disk, imap, zmap, ind>>
  BY DEF iput, At, fs
<1>2. /\ Sound(r[t]) /\ r[t].ret \in Returns(r[t].pc) /\ (Putting(r[t]) <=> Puts(r[t]))
  BY RegistersAre
<1>3. r[t].ret \in {<< >>, <<"put_super">>} /\ Putting(r[t])
  BY <1>1, <1>2 DEF Returns, Puts
<1>4. r[t].pc \notin Mapping \cup {"truncate", "read_inode"}
  BY <1>1 DEF Mapping
<1>5. Plain(r[t]) /\ r[t] \in Shape(r[t].ret)
  BY <1>4, PlainRegisters
<1>6. PICK v \in Slot : v = r[t].s
  BY <1>1, <1>2 DEF Sound, Shaped, Shape
<1>7. inode \in [Slot -> Entry] /\ SameZones(inode) /\ DiskOfSome
  BY <1>1, TableIsSame
<1>8. CASE UNCHANGED <<inode, r>>
  BY <1>1, <1>8, ZonesUntouched
<1>9. CASE Repeat(t, r[t], inode)
  <2>1. PICK a \in {<< >>, <<"put_super">>} : a = r[t].ret
    BY <1>3
  <2> DEFINE p == r[t]
  <2>2. p \in Shape(a) /\ Plain(p) /\ p.s = r[t].s /\ p.s \in Slot /\ Repeat(t, p, inode)
    BY <1>5, <1>6, <1>9, <2>1
  <2>3. r[t].pc \in {"iput", "write_inode"}
    BY <1>1
  <2> HIDE DEF p
  <2> QED
    BY <1>1, <1>3, <1>7, <2>2, <2>3, RepeatKeepsZones
<1>10. CASE /\ inode[v].pipe /\ Set(t, Return(r[t]))
            /\ Put(v, IF inode[v].count > 1 THEN [inode[v] EXCEPT !.count = @ - 1]
                      ELSE [inode[v] EXCEPT !.count = 0, !.dirt = FALSE, !.pipe = FALSE])
  <2> DEFINE q == Return(r[t])
  <2>1. r' = [r EXCEPT ![t] = q]
    BY <1>10 DEF Set
  <2>2. Plain(q) /\ (q.pc = "user" \/ q.pc = "put_super")
    BY <1>3, <1>5, PlainReturn, ShortStacks
  <2> HIDE DEF q
  <2>3. \A s : Reading(s)' <=> Reading(s)
    BY <1>1, <2>1, <2>2, SameReading
  <2>4. \A s \in Slot : /\ inode'[s].ino = inode[s].ino /\ inode'[s].zone = inode[s].zone
                        /\ s # v => inode'[s] = inode[s]
    BY <1>7, <1>10 DEF Put, Entry
  <2>5. EntriesKeepZones
    BY <1>1, <2>3, <2>4 DEF EntriesKeepZones
  <2>6. inode[v].ino = NoIno
    BY <1>10 DEF InodeInv, SlotInv, SlotAt
  <2>7. \A s \in Slot : StaysTidy(s)
    BY <2>4, <2>6 DEF StaysTidy
  <2>8. Idle(t, q) /\ q.k \in Int /\ r[t].pc \notin {"truncate", "new_block"}
    BY <1>1, <2>2 DEF Idle, Plain, Mapping
  <2> QED
    BY <1>1, <2>1, <2>5, <2>7, <2>8, EntriesKeep
<1> QED
  BY <1>6, <1>8, <1>9, <1>10 DEF iput, Panic

LEMMA Zones_sync_inodes ==
  ASSUME InodeInv, InodeInv', ZInv, NEW t \in Task, sync_inodes(t)
  PROVE  ZInv'
<1>1. r[t].pc = "sync_inodes" /\ UNCHANGED <<disk, imap, zmap, ind>>
  BY DEF sync_inodes, At, fs
<1>2. r[t].ret = << >> /\ r[t].s \in Slot
  BY <1>1, RegistersAre DEF Sound, Shaped, Shape, Returns
<1>3. r[t].pc \notin Mapping \cup {"truncate", "read_inode"}
  BY <1>1 DEF Mapping
<1>4. Plain(r[t]) /\ r[t] \in Shape(<< >>)
  BY <1>2, <1>3, PlainRegisters
<1>5. inode \in [Slot -> Entry] /\ SameZones(inode) /\ DiskOfSome
  BY <1>1, TableIsSame
<1> DEFINE p == r[t]
<1>6. /\ p \in Shape(<< >>) /\ Plain(p) /\ p.s \in Slot
      /\ WriteBack(t, p, inode, "synced") \/ SyncFrom(t, p, inode)
  BY <1>2, <1>4 DEF sync_inodes
<1> HIDE DEF p
<1> QED
  BY <1>1, <1>3, <1>5, <1>6, WriteBackKeepsZones, SyncKeepsZones

LEMMA UserIsPlain ==
  ASSUME InodeInv, ZInv, NEW t \in Task, r[t].pc = "user"
  PROVE  /\ Plain(r[t]) /\ r[t] \in Shape(<< >>)
         /\ r[t].pc \notin Mapping \cup {"truncate", "read_inode"}
         /\ r[t].pc \notin {"truncate", "new_block", "read_inode"}
<1>1. r[t].pc \notin Mapping \cup {"truncate", "read_inode"}
  BY DEF Mapping
<1> QED
  BY <1>1, PlainRegisters, UserRegisters

LEMMA Zones_Sync ==
  ASSUME InodeInv, InodeInv', ZInv, NEW t \in Task, Sync(t)
  PROVE  ZInv'
<1>1. r[t].pc = "user" /\ UNCHANGED <<disk, imap, zmap, ind>>
  BY DEF Sync, At, fs
<1>2. inode \in [Slot -> Entry] /\ SameZones(inode) /\ DiskOfSome
  BY <1>1, TableIsSame
<1> DEFINE p == [r[t] EXCEPT !.rest = Slot]
<1>3. p \in Shape(<< >>)
  BY <1>1, UserIsPlain DEF Shape
<1>4. Plain(p)
  <2>1. r[t] \in Shape(<< >>) /\ Plain(r[t])
    BY <1>1, UserIsPlain
  <2> QED
    BY <2>1 DEF Plain, Shape
<1>5. SyncFrom(t, p, inode)
  BY DEF Sync
<1> HIDE DEF p
<1> QED
  BY <1>1, <1>2, <1>3, <1>4, <1>5, UserIsPlain, SyncKeepsZones

LEMMA Zones_Close ==
  ASSUME InodeInv, InodeInv', ZInv, NEW t \in Task, Close(t)
  PROVE  ZInv'
<1> DEFINE q == [Registers EXCEPT !.pc = "iput", !.s = r[t].file, !.refs = r[t].refs - 1,
                                 !.file = IF r[t].refs = 1 THEN None ELSE r[t].file]
<1>1. /\ r[t].pc = "user" /\ UNCHANGED <<inode, disk, imap, zmap, ind>>
      /\ r' = [r EXCEPT ![t] = q]
  BY DEF Close, At, Set, fs
<1>2. Plain(q) /\ q.pc = "iput"
  BY DEF Registers, Plain
<1> HIDE DEF q
<1>3. q.pc \notin Mapping \cup {"truncate", "read_inode"}
  BY <1>2 DEF Mapping
<1> QED
  BY <1>1, <1>2, <1>3, UserIsPlain, RegistersStep

LEMMA LeaveIsPlain ==
  ASSUME NEW q
  PROVE  Plain(Leave(q)) /\ Leave(q).pc = "user" /\ Leave(q).pc \notin Mapping \cup {"truncate", "read_inode"}
  BY DEF Leave, Registers, Plain, Mapping

LEMMA Zones_data ==
  ASSUME InodeInv, InodeInv', ZInv, NEW t \in Task, data(t)
  PROVE  ZInv'
<1>1. /\ r[t].pc = "data" /\ UNCHANGED <<inode, disk, imap, zmap, ind>>
      /\ r' = [r EXCEPT ![t] = Leave(r[t])]
  BY DEF data, At, Set, fs
<1> QED
  BY <1>1, LeaveIsPlain, RegistersStep

\* sys_unlink takes a link: an inode in use may be left without one.
LEMMA Zones_Unlink ==
  ASSUME InodeInv, InodeInv', ZInv, NEW t \in Task, Unlink(t)
  PROVE  ZInv'
<1>1. /\ r[t].pc = "user" /\ r[t].file # None /\ ~inode[r[t].file].pipe
      /\ UNCHANGED <<disk, imap, zmap, ind, r>>
      /\ entry[inode[r[t].file].ino] > 0
      /\ inode' = [inode EXCEPT ![r[t].file] = [inode[r[t].file] EXCEPT !.links = @ - 1, !.dirt = TRUE]]
  BY DEF Unlink, Uses, At, File, Put
<1>2. PICK v \in Slot : v = r[t].file
  BY <1>1, UserRegisters
<1>3. inode \in [Slot -> Entry]
  BY DEF InodeInv, TypeInv
<1>4. \A s \in Slot : /\ inode'[s].ino = inode[s].ino /\ inode'[s].zone = inode[s].zone
                      /\ s # v => inode'[s] = inode[s]
  BY <1>1, <1>2, <1>3 DEF Entry
<1>5. EntriesKeepZones
  BY <1>1, <1>4 DEF EntriesKeepZones, Reading
<1>6. inode'[v].links = inode[v].links - 1 /\ inode'[v].count = inode[v].count
  BY <1>1, <1>2, <1>3 DEF Entry
<1>7. inode[v].ino \in Ino /\ inode[v].count # 0
  <2>1. Refers(r[t], v)
    BY <1>2 DEF Refers
  <2> QED
    BY <1>1, <1>2, <2>1, FileHasInode, AloneUser
<1>8. ~Reading(v) => inode[v].links - 1 >= 0
  <2>1. SlotAt(v) /\ inode[v].ino # NoIno
    BY <1>7, NoInoIsNone DEF InodeInv, SlotInv
  <2>2. entry[inode[v].ino] \in Nat
    BY <1>7 DEF InodeInv, TypeInv
  <2> QED
    BY <1>1, <1>2, <2>1, <2>2 DEF SlotAt, Linked
<1>9. \A s \in Slot : StaysTidy(s)
  BY <1>4, <1>6, <1>7, <1>8 DEF StaysTidy
<1> DEFINE q == r[t]
<1>10. r' = [r EXCEPT ![t] = q]
  BY <1>1 DEF InodeInv, RegInv
<1>11. Idle(t, q) /\ q.k \in Int
  BY <1>1, UserIsPlain DEF Idle, Plain
<1> HIDE DEF q
<1> QED
  BY <1>1, <1>5, <1>9, <1>10, <1>11, EntriesKeep

\* A new inode without a name is given back with no zones.
LEMMA Zones_add_entry ==
  ASSUME InodeInv, InodeInv', ZInv, NEW t \in Task, add_entry(t)
  PROVE  ZInv'
<1>1. r[t].pc = "add_entry" /\ UNCHANGED <<disk, imap, zmap, ind>>
  BY DEF add_entry, At
<1>2. r[t].pc \notin {"truncate", "new_block", "read_inode"}
  BY <1>1
<1>3. CASE Set(t, Leave(r[t])) /\ UNCHANGED inode
  BY <1>1, <1>2, <1>3, LeaveIsPlain, RegistersStep DEF Set
<1>4. CASE /\ Put(r[t].file, [inode[r[t].file] EXCEPT !.links = 0])
           /\ Set(t, [Registers EXCEPT !.pc = "iput", !.s = r[t].file])
  <2> DEFINE q == [Registers EXCEPT !.pc = "iput", !.s = r[t].file]
  <2>1. Sound(r[t]) /\ Fit(r[t], inode, super, entry)
    BY RegistersAre
  <2>2. PICK v \in Slot : v = r[t].file
    BY <1>1, <2>1 DEF Sound, Shaped, Shape
  <2>3. inode[v].count = 1
    BY <1>1, <2>1, <2>2 DEF Fit
  <2>4. r' = [r EXCEPT ![t] = q] /\ inode' = [inode EXCEPT ![v] = [inode[v] EXCEPT !.links = 0]]
    BY <1>4, <2>2 DEF Set, Put
  <2>5. Plain(q) /\ q.pc = "iput"
    BY DEF Registers, Plain
  <2> HIDE DEF q
  <2>6. \A s : Reading(s)' <=> Reading(s)
    BY <1>1, <2>4, <2>5, SameReading
  <2>7. inode \in [Slot -> Entry]
    BY DEF InodeInv, TypeInv
  <2>8. \A s \in Slot : /\ inode'[s].ino = inode[s].ino /\ inode'[s].zone = inode[s].zone
                        /\ inode'[s].count = inode[s].count
                        /\ s # v => inode'[s] = inode[s]
    BY <2>4, <2>7 DEF Entry
  <2>9. inode'[v].links = 0
    BY <2>4, <2>7 DEF Entry
  <2>10. EntriesKeepZones
    BY <1>1, <2>6, <2>8 DEF EntriesKeepZones
  <2>11. \A s \in Slot : StaysTidy(s)
    BY <2>3, <2>8, <2>9 DEF StaysTidy
  <2>12. Idle(t, q) /\ q.k \in Int
    BY <2>5 DEF Idle, Plain, Mapping
  <2> QED
    BY <1>1, <2>4, <2>10, <2>11, <2>12, EntriesKeep
<1> QED
  BY <1>3, <1>4 DEF add_entry

\* The empty entry that get_empty_inode has found.
LEMMA EmptyIsTidy ==
  ASSUME InodeInv, ZInv, NEW t \in Task, r[t].empty # None
  PROVE  /\ r[t].empty \in Slot /\ inode[r[t].empty].count = 1
         /\ r[t].pc # "read_inode" =>
              inode[r[t].empty].ino = NoIno /\ inode[r[t].empty].zone = NoZones
<1>1. r[t].empty \in Slot /\ Fit(r[t], inode, super, entry)
  BY RegistersAre DEF Sound, Shaped, Shape
<1> QED
  BY <1>1 DEF Fit, ZInv, TidyInv, Tidy

LEMMA Zones_get_pipe_inode ==
  ASSUME InodeInv, InodeInv', ZInv, NEW t \in Task, get_pipe_inode(t)
  PROVE  ZInv'
<1>1. r[t].pc = "get_pipe_inode" /\ UNCHANGED <<disk, imap, zmap, ind>>
  BY DEF get_pipe_inode, At, fs
<1>2. r[t].empty # None
  BY <1>1, RegistersAre DEF Sound, Taking
<1>3. PICK e \in Slot : /\ e = r[t].empty /\ inode[e].ino = NoIno /\ inode[e].zone = NoZones
  BY <1>1, <1>2, EmptyIsTidy
<1>4. PICK q, new : /\ inode' = [inode EXCEPT ![e] = new] /\ r' = [r EXCEPT ![t] = q]
                    /\ Plain(q) /\ q.pc = "user"
                    /\ new.ino = NoIno /\ new.zone = NoZones
  <2>1. CASE /\ Put(e, [inode[e] EXCEPT !.count = 2, !.pipe = TRUE])
             /\ Set(t, [Registers EXCEPT !.file = e, !.refs = 2])
    <3> DEFINE q == [Registers EXCEPT !.file = e, !.refs = 2]
               new == [inode[e] EXCEPT !.count = 2, !.pipe = TRUE]
    <3>1. Plain(q) /\ q.pc = "user"
      BY DEF Registers, Plain
    <3>2. new.ino = NoIno /\ new.zone = NoZones
      BY <1>3 DEF InodeInv, TypeInv, Entry
    <3> QED
      BY <2>1, <3>1, <3>2 DEF Put, Set
  <2>2. CASE Put(e, Zeroed) /\ Set(t, Registers)
    <3>1. Plain(Registers) /\ Registers.pc = "user"
      BY DEF Registers, Plain
    <3>2. Zeroed.ino = NoIno /\ Zeroed.zone = NoZones
      BY DEF Zeroed
    <3> QED
      BY <2>2, <3>1, <3>2 DEF Put, Set
  <2> QED
    BY <1>3, <2>1, <2>2 DEF get_pipe_inode
<1>5. \A s : Reading(s)' <=> Reading(s)
  BY <1>1, <1>4, SameReading
<1>6. \A s \in Slot : /\ inode'[s].ino = inode[s].ino /\ inode'[s].zone = inode[s].zone
                      /\ s # e => inode'[s] = inode[s]
  BY <1>3, <1>4 DEF InodeInv, TypeInv
<1>7. EntriesKeepZones
  BY <1>1, <1>5, <1>6 DEF EntriesKeepZones
<1>8. \A s \in Slot : StaysTidy(s)
  BY <1>3, <1>6 DEF StaysTidy
<1>9. Idle(t, q) /\ q.k \in Int
  BY <1>4 DEF Idle, Plain, Mapping
<1> QED
  BY <1>1, <1>4, <1>7, <1>8, <1>9, EntriesKeep

\* A step of mount or umount: an entry gets a mark or loses it.
LEMMA MarkKeepsZones ==
  ASSUME InodeInv, InodeInv', ZInv, NEW t \in Task, NEW q, r' = [r EXCEPT ![t] = q],
         Plain(q), UNCHANGED <<disk, imap, zmap, ind>>,
         r[t].pc \notin {"truncate", "new_block", "read_inode"},
         q.pc \notin Mapping \cup {"truncate", "read_inode"},
         NEW s, NEW b \in BOOLEAN, NEW d \in BOOLEAN,
         inode' = [inode EXCEPT ![s] = [inode[s] EXCEPT !.mount = b, !.dirt = d]]
  PROVE  ZInv'
<1>1. inode \in [Slot -> Entry]
  BY DEF InodeInv, TypeInv
<1>2. SameZones(inode') /\ DiskOfSome
  BY <1>1 DEF SameZones, DiskOfSome, Entry
<1> QED
  BY <1>2, SameZonesKeep

LEMMA MountFailsPlain ==
  ASSUME NEW s
  PROVE  LET q == [Registers EXCEPT !.pc = "iput", !.s = s]
         IN Plain(q) /\ q.pc \notin Mapping \cup {"truncate", "read_inode"}
  BY DEF Registers, Plain, Mapping

LEMMA MountOnKeepsZones ==
  ASSUME InodeInv, InodeInv', ZInv, NEW t \in Task, NEW d, NEW supers, MountOn(t, d, supers),
         UNCHANGED <<disk, imap, zmap, ind>>,
         r[t].pc \notin {"truncate", "new_block", "read_inode"}
  PROVE  ZInv'
<1>1. CASE MountFails(t) /\ UNCHANGED inode
  BY <1>1, MountFailsPlain, RegistersStep DEF MountFails, Set
<1>2. CASE /\ Put(r[t].file, [inode[r[t].file] EXCEPT !.mount = TRUE, !.dirt = TRUE])
           /\ Set(t, Registers)
  <2>1. Plain(Registers) /\ Registers.pc \notin Mapping \cup {"truncate", "read_inode"}
    BY DEF Registers, Plain, Mapping
  <2> QED
    BY <1>2, <2>1, MarkKeepsZones DEF Put, Set
<1> QED
  BY <1>1, <1>2 DEF MountOn

LEMMA Zones_sys_mount ==
  ASSUME InodeInv, InodeInv', ZInv, NEW t \in Task, sys_mount(t)
  PROVE  ZInv'
<1>1. /\ r[t].pc = "sys_mount" /\ UNCHANGED <<disk, imap, zmap, ind>>
      /\ r[t].pc \notin {"truncate", "new_block", "read_inode"}
      /\ r[t].pc \notin Mapping \cup {"truncate"}
  BY DEF sys_mount, At, Mapping
<1>2. CASE MountFails(t) /\ UNCHANGED inode
  BY <1>1, <1>2, MountFailsPlain, RegistersStep DEF MountFails, Set
<1>3. CASE MountOn(t, r[t].dev, super)
  BY <1>1, <1>3, MountOnKeepsZones
<1>4. CASE Set(t, [r[t] EXCEPT !.pc = "read_super"]) /\ UNCHANGED inode
  <2> DEFINE q == [r[t] EXCEPT !.pc = "read_super"]
  <2>1. Plain(r[t]) /\ r[t] \in Shape(r[t].ret)
    BY <1>1, PlainRegisters
  <2>2. Plain(q) /\ q.pc = "read_super"
    BY <2>1 DEF Plain, Shape
  <2>3. q.pc \notin Mapping \cup {"truncate", "read_inode"} /\ r' = [r EXCEPT ![t] = q]
    BY <1>4, <2>2 DEF Mapping, Set
  <2> HIDE DEF q
  <2> QED
    BY <1>1, <1>4, <2>2, <2>3, RegistersStep
<1> QED
  BY <1>2, <1>3, <1>4 DEF sys_mount

LEMMA Zones_read_super ==
  ASSUME InodeInv, InodeInv', ZInv, NEW t \in Task, read_super(t)
  PROVE  ZInv'
<1>1. /\ r[t].pc = "read_super" /\ UNCHANGED <<disk, imap, zmap, ind>>
      /\ r[t].pc \notin {"truncate", "new_block", "read_inode"}
  BY DEF read_super, At
<1>2. CASE MountFails(t) /\ UNCHANGED inode
  BY <1>1, <1>2, MountFailsPlain, RegistersStep DEF MountFails, Set
<1>3. CASE \E d, supers : MountOn(t, d, supers)
  BY <1>1, <1>3, MountOnKeepsZones
<1> QED
  BY <1>2, <1>3 DEF read_super

LEMMA Zones_Umount ==
  ASSUME InodeInv, InodeInv', ZInv, NEW t \in Task, Umount(t)
  PROVE  ZInv'
<1>1. r[t].pc = "user" /\ UNCHANGED <<disk, imap, zmap, ind>>
  BY DEF Umount, At, fs
<1>2. PICK s, d : /\ Put(s, [inode[s] EXCEPT !.mount = FALSE])
                  /\ Set(t, [r[t] EXCEPT !.pc = "iput", !.s = s, !.dev = d,
                                         !.ret = <<"put_super">>])
  BY DEF Umount
<1> DEFINE q == [r[t] EXCEPT !.pc = "iput", !.s = s, !.dev = d, !.ret = <<"put_super">>]
<1>3. /\ Plain(r[t]) /\ r[t] \in Shape(<< >>)
      /\ r[t].pc \notin {"truncate", "new_block", "read_inode"}
  BY <1>1, UserIsPlain
<1>4. Plain(q) /\ q.pc = "iput" /\ r' = [r EXCEPT ![t] = q]
  BY <1>2, <1>3 DEF Plain, Shape, Set
<1> HIDE DEF q
<1>5. q.pc \notin Mapping \cup {"truncate", "read_inode"}
  BY <1>4 DEF Mapping
<1>6. SameZones(inode') /\ DiskOfSome
  <2>1. inode \in [Slot -> Entry]
    BY DEF InodeInv, TypeInv
  <2> QED
    BY <1>1, <1>2, <2>1 DEF SameZones, DiskOfSome, Entry, Put
<1> QED
  BY <1>1, <1>3, <1>4, <1>5, <1>6, SameZonesKeep

LEMMA Zones_put_super ==
  ASSUME InodeInv, InodeInv', ZInv, NEW t \in Task, put_super(t)
  PROVE  ZInv'
<1>1. /\ r[t].pc = "put_super" /\ UNCHANGED <<inode, disk, imap, zmap, ind>>
      /\ r' = [r EXCEPT ![t] = Leave(r[t])]
  BY DEF put_super, At, Set
<1> QED
  BY <1>1, LeaveIsPlain, RegistersStep

-----------------------------------------------------------------------------
(* Zones: inodes that come into the table and leave it                     *)

LEMMA CountsAreNatural ==
  ASSUME InodeInv, NEW s \in Slot
  PROVE  inode[s].count \in Nat
<1> DEFINE A == FilePairs(s)
           B == Empties(s)
           C == Putters(s)
           D == Mounts(s)
<1>1. /\ IsFiniteSet(A) /\ IsFiniteSet(B) /\ IsFiniteSet(C) /\ IsFiniteSet(D)
  <2>1. IsFiniteSet(Task)
    BY InodeAssumption
  <2>2. IsFiniteSet(1 .. 2)
    <3>1. \A n : n \in Int => IsFiniteSet(1 .. n)
      BY FS_Interval
    <3>2. 2 \in Int
      OBVIOUS
    <3> QED
      BY <3>1, <3>2, Zenon
  <2>3. IsFiniteSet(Task \X (1 .. 2))
    BY <2>1, <2>2, FS_Product
  <2>4. A \subseteq Task \X (1 .. 2) /\ B \subseteq Task /\ C \subseteq Task
    BY DEF FilePairs, Empties, Putters
  <2> QED
    BY <2>1, <2>3, <2>4, FS_Subset, MountsAreFinite DEF InodeInv
<1>2. inode[s].count = Cardinality(A) + Cardinality(B) + Cardinality(C) + Cardinality(D)
  BY DEF InodeInv, CountInv, References, FilePairs, Empties, Putters
<1>3. /\ Cardinality(A) \in Nat /\ Cardinality(B) \in Nat
      /\ Cardinality(C) \in Nat /\ Cardinality(D) \in Nat
  BY <1>1, FS_CardinalityType
<1> HIDE DEF A, B, C, D
<1> QED
  BY <1>2, <1>3

\* The step changes the entry e, which no other task uses for a file.
OnlyEntry(e) ==
  /\ \A s \in Slot \ {e} :
       /\ inode'[s].ino = inode[s].ino /\ inode'[s].zone = inode[s].zone
       /\ inode'[s].links = inode[s].links /\ inode'[s].count = inode[s].count
       /\ Reading(s)' <=> Reading(s)
  /\ disk' = disk

\* A step that changes one entry keeps the zones of the other files.
LEMMA OtherFilesStay ==
  ASSUME InodeInv, InodeInv', NEW e \in Slot, OnlyEntry(e), NEW j \in Ino,
         inode[e].ino # j, inode'[e].ino # j
  PROVE  FileZones(j)' = FileZones(j)
<1>1. CASE \E s \in Slot : inode[s].ino = j /\ ~Reading(s)
  <2>1. PICK s \in Slot : inode[s].ino = j /\ ~Reading(s)
    BY <1>1
  <2>2. inode'[s].ino = j /\ inode'[s].zone = inode[s].zone /\ ~Reading(s)'
    BY <2>1 DEF OnlyEntry
  <2>3. FileZones(j) = inode[s].zone /\ FileZones(j)' = inode'[s].zone
    BY <2>1, <2>2, ZonesAre, ZonesAreNext
  <2> QED
    BY <2>2, <2>3
<1>2. CASE \A s \in Slot : inode[s].ino = j => Reading(s)
  <2>1. disk'[j] = disk[j] /\ \A s \in Slot : inode'[s].ino = j => Reading(s)'
    BY <1>2 DEF OnlyEntry
  <2>2. FileZones(j) = disk[j].zone /\ FileZones(j)' = disk'[j].zone
    BY <1>2, <2>1, ZonesAre, ZonesAreNext
  <2> QED
    BY <2>1, <2>2
<1> QED
  BY <1>1, <1>2

\* A step that changes the entry of one task, which no other refers to.
LEMMA EntryStep ==
  ASSUME InodeInv, InodeInv', ZInv, NEW t \in Task, NEW q, r' = [r EXCEPT ![t] = q],
         Plain(q), q.pc \notin Mapping \cup {"truncate"},
         r[t].pc \notin {"truncate", "new_block"},
         UNCHANGED <<zmap, ind>>, NEW e \in Slot, OnlyEntry(e),
         \A u \in Task \ {t} : ~Refers(r[u], e),
         \A i \in Ino : inode[e].ino = i \/ inode'[e].ino = i => ZonesShrink(i),
         \A i \in Ino : i \in imap' => i \in imap \/ inode'[e].ino = i,
         Tidy(e)'
  PROVE  ZInv'
<1>1. \A u \in Task \ {t} : Unchanged(u)
  <2> TAKE u \in Task \ {t}
  <2>1. r'[u] = r[u]
    BY DEF InodeInv, RegInv
  <2>2. r[u].pc \in Mapping \cup {"truncate"} => r[u].s \in Slot \ {e}
    BY UsesInode
  <2> QED
    BY <2>1, <2>2 DEF Unchanged, OnlyEntry
<1>2. \A i \in Ino : ZonesShrink(i)
  <2> SUFFICES ASSUME NEW i \in Ino, inode[e].ino # i, inode'[e].ino # i PROVE ZonesShrink(i)
    OBVIOUS
  <2>1. FileZones(i)' = FileZones(i)
    BY OtherFilesStay
  <2> QED
    BY <2>1 DEF ZonesShrink
<1>3. \A i \in Ino : StillCuts(t, q, i)
  BY DEF StillCuts
<1>4. TidyInv'
  <2> SUFFICES ASSUME NEW s \in Slot \ {e} PROVE Tidy(s)'
    BY DEF TidyInv
  <2>1. Tidy(s)
    BY DEF ZInv, TidyInv
  <2> QED
    BY <2>1 DEF Tidy, OnlyEntry
<1>5. r[t].todo = << >>
  BY NothingInHand
<1>6. Idle(t, q) /\ q.k \in Int
  BY DEF Idle, Plain
<1> QED
  BY <1>1, <1>2, <1>3, <1>4, <1>5, <1>6, QuietZones

\* The entry of a task that waits in get_empty_inode is its own.
LEMMA EmptyIsOwn ==
  ASSUME InodeInv, ZInv, NEW t \in Task, r[t].empty # None
  PROVE  \A u \in Task \ {t} : ~Refers(r[u], r[t].empty)
<1>1. r[t].empty \in Slot /\ inode[r[t].empty].count < 2 /\ Refers(r[t], r[t].empty)
  BY EmptyIsTidy DEF Refers
<1> QED
  BY <1>1, AloneUser

\* Who reads is told by the registers.
LEMMA ReadingIs ==
  ASSUME InodeInv, NEW t \in Task, NEW q, r' = [r EXCEPT ![t] = q], NEW s
  PROVE  /\ ~Reads(q, s) /\ ~Reads(r[t], s) => (Reading(s)' <=> Reading(s))
         /\ Reads(q, s) => Reading(s)'
         /\ Reads(r[t], s) => Reading(s)
<1>1. /\ Reading(s)' <=> Reads(q, s) \/ \E u \in Task \ {t} : Reads(r[u], s)
      /\ Reading(s) <=> Reads(r[t], s) \/ \E u \in Task \ {t} : Reads(r[u], s)
  BY OneTaskMoves DEF InodeInv
<1> QED
  BY <1>1

\* iget begins to read an inode that is not in the table.
LEMMA IgetReadsZones ==
  ASSUME InodeInv, InodeInv', ZInv, NEW t \in Task, r[t].pc = "iget",
         NEW e \in Slot, e = r[t].empty, NEW i \in Ino, SlotsOf(i) = {},
         inode' = [inode EXCEPT ![e] = [inode[e] EXCEPT !.ino = i, !.lock = TRUE]],
         NEW q, Plain(q), q.pc = "read_inode", q.s = e,
         r' = [r EXCEPT ![t] = q], UNCHANGED fs
  PROVE  ZInv'
<1>1. e # None /\ inode \in [Slot -> Entry]
  BY InodeAssumption DEF InodeInv, TypeInv
<1>2. inode[e].ino = NoIno /\ inode'[e].ino = i /\ \A s \in Slot \ {e} : inode'[s] = inode[s]
  BY <1>1, EmptyIsTidy DEF Entry
<1>3. Reading(e)' /\ \A s \in Slot \ {e} : Reading(s)' <=> Reading(s)
  BY ReadingIs DEF Reads
<1>4. OnlyEntry(e)
  BY <1>2, <1>3 DEF OnlyEntry, fs
<1>5. FileZones(i)' = FileZones(i)
  <2>1. \A s \in Slot : inode[s].ino # i
    BY DEF SlotsOf
  <2>2. \A s \in Slot : inode'[s].ino = i => Reading(s)'
    BY <1>2, <1>3, <2>1
  <2>3. FileZones(i) = disk[i].zone /\ FileZones(i)' = disk'[i].zone
    BY <2>1, <2>2, ZonesAre, ZonesAreNext
  <2> QED
    BY <2>3 DEF fs
<1>6. \A j \in Ino : inode[e].ino = j \/ inode'[e].ino = j => ZonesShrink(j)
  BY <1>2, <1>5, NoInoIsNone DEF ZonesShrink, fs
<1>7. Tidy(e)'
  BY <1>2, <1>3, NoInoIsNone DEF Tidy
<1>8. \A u \in Task \ {t} : ~Refers(r[u], e)
  BY <1>1, EmptyIsOwn
<1>9. q.pc \notin Mapping \cup {"truncate"} /\ r[t].pc \notin {"truncate", "new_block"}
  BY DEF Mapping
<1>10. UNCHANGED <<zmap, ind>> /\ \A j \in Ino : j \in imap' => j \in imap \/ inode'[e].ino = j
  BY DEF fs
<1> QED
  BY <1>4, <1>6, <1>7, <1>8, <1>9, <1>10, EntryStep

\* iget ends with entry s.
LEMMA PlainOpened ==
  ASSUME InodeInv, ZInv, NEW t \in Task, r[t].pc \in {"iget", "read_inode"},
         NEW s \in Slot, NEW q, q = Return(Opened(r[t], s))
  PROVE  Plain(q) /\ q.pc \in {"user", "sys_mount"}
<1> DEFINE a == r[t].ret
           p1 == [r[t] EXCEPT !.file = s]
           p2 == [p1 EXCEPT !.refs = 1]
           p3 == [p2 EXCEPT !.empty = None]
<1>1. r[t].pc \notin Mapping \cup {"truncate"}
  BY DEF Mapping
<1>2. Plain(r[t]) /\ r[t] \in Shape(a)
  BY <1>1, PlainRegisters
<1> HIDE DEF a
<1>3. p1 \in Shape(a) /\ Plain(p1)
  <2>1. p1 \in Shape(a)
    BY <1>2, ShapeKept
  <2> QED
    BY <1>2, <2>1 DEF Plain, Shape
<1>4. p2 \in Shape(a) /\ Plain(p2)
  <2> HIDE DEF p1
  <2>1. 1 \in 0 .. 2
    OBVIOUS
  <2>2. p2 \in Shape(a)
    BY <1>3, <2>1, ShapeKept
  <2> QED
    BY <1>3, <2>2 DEF Plain, Shape
<1>5. p3 \in Shape(a) /\ Plain(p3)
  <2> HIDE DEF p2
  <2>1. p3 \in Shape(a)
    BY <1>4, ShapeKept
  <2> QED
    BY <1>4, <2>1 DEF Plain, Shape
<1>6. Opened(r[t], s) = p3
  BY <1>2 DEF Opened, Shape
<1> HIDE DEF p3
<1>7. Plain(q)
  BY <1>5, <1>6, PlainReturn
<1>8. q.pc \in {"user", "sys_mount"}
  BY OpenedIs
<1> QED
  BY <1>7, <1>8

\* iget finds the inode, waits for it, or claims its entry to read it.
LEMMA Zones_iget ==
  ASSUME InodeInv, InodeInv', ZInv, NEW t \in Task, iget(t)
  PROVE  ZInv'
<1>1. r[t].pc = "iget" /\ UNCHANGED fs /\ UNCHANGED <<disk, imap, zmap, ind>> /\ Search(t)
  BY DEF iget, At, fs
<1>2. PICK e \in Slot : e = r[t].empty
  <2>1. Sound(r[t])
    BY RegistersAre
  <2> QED
    BY <1>1, <2>1 DEF Sound, Shaped, Shape, Taking
<1>3. PICK i : i = Crossed(r[t].ino)
  OBVIOUS
<1>4. i \in Ino
  BY <1>1, <1>3, CrossedIs DEF Reached
<1>5. \/ UNCHANGED <<inode, r>>
      \/ /\ SlotsOf(i) = {}
         /\ Put(e, [inode[e] EXCEPT !.ino = i, !.lock = TRUE])
         /\ Set(t, [r[t] EXCEPT !.pc = "read_inode", !.s = e, !.ino = i])
      \/ \E s \in SlotsOf(i) :
           /\ Set(t, [r[t] EXCEPT !.pc = "iget", !.s = s, !.ino = i])
           /\ UNCHANGED inode
      \/ \E s \in SlotsOf(i) :
           /\ Unlocked(s)
           /\ inode' = [inode EXCEPT ![s].count = @ + 1, ![e].count = @ - 1]
           /\ Set(t, Return(Opened(r[t], s)))
  BY <1>1, <1>2, <1>3, Zenon DEF Search, Panic, Opened
<1>6. r[t].pc \notin Mapping \cup {"truncate"} /\ r[t].pc \notin {"truncate", "new_block", "read_inode"}
  BY <1>1 DEF Mapping
<1>7. Plain(r[t]) /\ r[t] \in Shape(r[t].ret)
  BY <1>6, PlainRegisters
<1>8. CASE UNCHANGED <<inode, r>>
  BY <1>1, <1>8, ZonesUntouched
<1>9. CASE /\ SlotsOf(i) = {}
           /\ Put(e, [inode[e] EXCEPT !.ino = i, !.lock = TRUE])
           /\ Set(t, [r[t] EXCEPT !.pc = "read_inode", !.s = e, !.ino = i])
  <2> DEFINE q == [r[t] EXCEPT !.pc = "read_inode", !.s = e, !.ino = i]
  <2>1. r' = [r EXCEPT ![t] = q] /\ inode' = [inode EXCEPT ![e] = [inode[e] EXCEPT !.ino = i, !.lock = TRUE]]
    BY <1>9 DEF Put, Set
  <2>2. Plain(q) /\ q.pc = "read_inode" /\ q.s = e
    BY <1>7 DEF Plain, Shape
  <2> HIDE DEF q
  <2> QED
    BY <1>1, <1>2, <1>4, <1>9, <2>1, <2>2, IgetReadsZones
<1>10. CASE \E s \in SlotsOf(i) :
             /\ Set(t, [r[t] EXCEPT !.pc = "iget", !.s = s, !.ino = i])
             /\ UNCHANGED inode
  <2>1. PICK s : Set(t, [r[t] EXCEPT !.pc = "iget", !.s = s, !.ino = i]) /\ UNCHANGED inode
    BY <1>10
  <2> DEFINE q == [r[t] EXCEPT !.pc = "iget", !.s = s, !.ino = i]
  <2>2. r' = [r EXCEPT ![t] = q]
    BY <2>1 DEF Set
  <2>3. Plain(q) /\ q.pc = "iget"
    BY <1>7 DEF Plain, Shape
  <2> HIDE DEF q
  <2>4. q.pc \notin Mapping \cup {"truncate", "read_inode"}
    BY <2>3 DEF Mapping
  <2> QED
    BY <1>1, <1>6, <2>1, <2>2, <2>3, <2>4, RegistersStep
<1>11. CASE \E s \in SlotsOf(i) :
             /\ Unlocked(s)
             /\ inode' = [inode EXCEPT ![s].count = @ + 1, ![e].count = @ - 1]
             /\ Set(t, Return(Opened(r[t], s)))
  <2>1. PICK s \in Slot :
             /\ inode[s].ino = i
             /\ inode' = [inode EXCEPT ![s].count = @ + 1, ![e].count = @ - 1]
             /\ Set(t, Return(Opened(r[t], s)))
    BY <1>11 DEF SlotsOf
  <2>2. PICK q : q = Return(Opened(r[t], s))
    OBVIOUS
  <2>3. r' = [r EXCEPT ![t] = q]
    BY <2>1, <2>2 DEF Set
  <2>4. Plain(q) /\ q.pc \in {"user", "sys_mount"}
    BY <1>1, <2>2, PlainOpened
  <2>5. \A x : Reading(x)' <=> Reading(x)
    <3>1. q.pc # "read_inode" /\ r[t].pc # "read_inode"
      BY <1>1, <2>4
    <3> QED
      BY <2>3, <3>1, SameReading
  <2>6. inode[e].ino = NoIno /\ e # s
    <3>1. e # None
      BY InodeAssumption
    <3>2. inode[e].ino = NoIno
      BY <1>1, <1>2, <3>1, EmptyIsTidy
    <3> QED
      BY <1>4, <2>1, <3>2, NoInoIsNone
  <2>7. inode \in [Slot -> Entry] /\ inode[s].count \in Nat
    BY CountsAreNatural DEF InodeInv, TypeInv
  <2>8. /\ \A x \in Slot : /\ inode'[x].ino = inode[x].ino /\ inode'[x].zone = inode[x].zone
                           /\ inode'[x].links = inode[x].links
                           /\ x # e /\ x # s => inode'[x].count = inode[x].count
        /\ inode'[s].count = inode[s].count + 1
    BY <2>1, <2>6, <2>7 DEF Entry
  <2>9. EntriesKeepZones
    BY <1>1, <2>5, <2>8 DEF EntriesKeepZones
  <2>10. \A x \in Slot : StaysTidy(x)
    BY <2>6, <2>7, <2>8 DEF StaysTidy
  <2>11. Idle(t, q) /\ q.k \in Int
    BY <2>4 DEF Idle, Plain, Mapping
  <2>12. UNCHANGED <<imap, zmap, ind>> /\ r[t].pc \notin {"truncate", "new_block"}
    BY <1>1
  <2> QED
    BY <2>3, <2>9, <2>10, <2>11, <2>12, EntriesKeep
<1> QED
  BY <1>5, <1>8, <1>9, <1>10, <1>11, Zenon

\* The inode of a new file, or of a file that comes into the table, is tidy.
LEMMA Zones_read_inode ==
  ASSUME InodeInv, InodeInv', ZInv, NEW t \in Task, read_inode(t)
  PROVE  ZInv'
<1>1. /\ r[t].pc = "read_inode" /\ UNCHANGED fs
      /\ UNCHANGED <<disk, imap, zmap, ind>>
  BY DEF read_inode, At, fs
<1>2. PICK e \in Slot : e = r[t].s /\ e = r[t].empty
  <2>1. Sound(r[t])
    BY RegistersAre
  <2> QED
    BY <1>1, <2>1 DEF Sound, Shaped, Shape, Taking
<1>3. PICK i \in Ino : i = r[t].ino
  BY <1>1, RegistersAre DEF Sound
<1>4. PICK q : q = Return(Opened(r[t], e))
  OBVIOUS
<1>5. /\ r' = [r EXCEPT ![t] = q]
      /\ inode' = [inode EXCEPT ![e] = Loaded(inode[e], disk[i])]
  BY <1>2, <1>3, <1>4 DEF read_inode, Set, Put, Opened, Loaded
<1>6. inode \in [Slot -> Entry] /\ disk[i] \in [links : Int, zone : [0 .. 2 -> Number]]
  BY DEF InodeInv, TypeInv
<1>7. /\ Loaded(inode[e], disk[i]).links = disk[i].links
      /\ Loaded(inode[e], disk[i]).zone = disk[i].zone
      /\ Loaded(inode[e], disk[i]).count = inode[e].count
      /\ Loaded(inode[e], disk[i]).ino = inode[e].ino
  BY <1>6, LoadedIs
<1>8. /\ inode'[e].links = disk[i].links /\ inode'[e].zone = disk[i].zone
      /\ inode'[e].count = inode[e].count /\ inode'[e].ino = inode[e].ino
      /\ \A s \in Slot \ {e} : inode'[s] = inode[s]
  BY <1>5, <1>6, <1>7
<1>9. e # None /\ r[t].empty # None
  BY <1>2, InodeAssumption
<1>10. inode[e].count = 1 /\ \A u \in Task \ {t} : ~Refers(r[u], e)
  BY <1>2, <1>9, EmptyIsTidy, EmptyIsOwn
<1>11. inode[e].ino = i /\ (entry[i] > 0 \/ i \in Roots)
  BY <1>1, <1>2, <1>3, <1>9, RegistersAre, NoInoIsNone DEF Fit
<1>12. Plain(q) /\ q.pc \in {"user", "sys_mount"}
  BY <1>1, <1>4, PlainOpened
<1>13. Reading(e) /\ ~Reading(e)' /\ \A s \in Slot \ {e} : Reading(s)' <=> Reading(s)
  <2>1. \A s \in Slot \ {e} : ~Reads(q, s) /\ ~Reads(r[t], s)
    BY <1>2, <1>12 DEF Reads
  <2>2. Reading(e) /\ \A s \in Slot \ {e} : Reading(s)' <=> Reading(s)
    BY <1>1, <1>2, <1>5, <2>1, ReadingIs DEF Reads
  <2>3. Reading(e)' <=> Reads(q, e) \/ \E u \in Task \ {t} : Reads(r[u], e)
    BY <1>5, OneTaskMoves DEF InodeInv
  <2>4. ~Reads(q, e)
    BY <1>12 DEF Reads
  <2>5. ASSUME NEW u \in Task \ {t}, Reads(r[u], e) PROVE FALSE
    <3>1. Sound(r[u])
      BY RegistersAre
    <3>2. Refers(r[u], e)
      BY <2>5, <3>1 DEF Sound, Reads, Refers
    <3> QED
      BY <1>10, <3>2
  <2> QED
    BY <2>2, <2>3, <2>4, <2>5
<1>14. OnlyEntry(e)
  BY <1>1, <1>8, <1>13 DEF OnlyEntry
<1>15. \A s \in SlotsOf(i) : s = e
  BY <1>11, NoInoIsNone DEF SlotsOf, InodeInv, OneEntryPerInode
<1>16. FileZones(i)' = FileZones(i)
  <2>1. \A s \in Slot : inode[s].ino = i => Reading(s)
    BY <1>13, <1>15 DEF SlotsOf
  <2>2. FileZones(i) = disk[i].zone
    BY <2>1, ZonesAre
  <2>3. FileZones(i)' = inode'[e].zone
    BY <1>8, <1>11, <1>13, ZonesAreNext
  <2> QED
    BY <1>8, <2>2, <2>3
<1>17. \A j \in Ino : inode[e].ino = j \/ inode'[e].ino = j => ZonesShrink(j)
  BY <1>1, <1>8, <1>11, <1>16 DEF ZonesShrink
<1>18. disk[i].links >= 0
  <2>1. InoAt(i) /\ SlotAt(e)
    BY DEF InodeInv, InoInv, SlotInv
  <2>2. i \in imap
    BY <1>11, <2>1, NoInoIsNone DEF SlotAt
  <2>3. Linked(i, disk[i].links)
    BY <1>13, <1>15, <2>1, <2>2 DEF InoAt
  <2>4. entry[i] \in Nat
    BY DEF InodeInv, TypeInv
  <2> QED
    BY <1>11, <2>3, <2>4 DEF Linked
<1>19. Tidy(e)'
  BY <1>8, <1>10, <1>11, <1>18, NoInoIsNone DEF Tidy
<1>20. /\ q.pc \notin Mapping \cup {"truncate"} /\ r[t].pc \notin {"truncate", "new_block"}
       /\ UNCHANGED <<zmap, ind>>
       /\ \A j \in Ino : j \in imap' => j \in imap \/ inode'[e].ino = j
  BY <1>1, <1>12 DEF Mapping
<1> QED
  BY <1>5, <1>10, <1>12, <1>14, <1>17, <1>19, <1>20, EntryStep

\* get_empty_inode takes an entry: what it had is on the disk.
LEMMA TakeKeepsZones ==
  ASSUME InodeInv, InodeInv', ZInv, NEW t \in Task, r[t].pc = "user",
         NEW v \in Slot, inode[v].count = 0, inode' = [inode EXCEPT ![v] = Fresh],
         NEW q, Plain(q), q.pc \in {"iget", "new_inode", "get_pipe_inode"},
         r' = [r EXCEPT ![t] = q], UNCHANGED fs
  PROVE  ZInv'
<1>1. UNCHANGED <<disk, imap, zmap, ind>>
  BY DEF fs
<1>2. inode \in [Slot -> Entry]
  BY DEF InodeInv, TypeInv
<1>3. inode'[v].ino = NoIno /\ inode'[v].zone = NoZones /\ \A s \in Slot \ {v} : inode'[s] = inode[s]
  BY <1>2 DEF Fresh, Zeroed
<1>4. \A u \in Task : ~Refers(r[u], v)
  BY AloneUser
<1>5. ~Reading(v) /\ ~Truncating(v)
  <2>1. \A u \in Task : Sound(r[u])
    BY RegistersAre
  <2>2. ~Reading(v)
    BY <1>4, <2>1 DEF Reading, Sound, Refers
  <2> QED
    BY <2>2, CuttersAreCounted
<1>6. \A s : Reading(s)' <=> Reading(s)
  BY SameReading
<1>7. OnlyEntry(v)
  BY <1>1, <1>3, <1>6 DEF OnlyEntry
<1>8. ASSUME NEW i \in Ino, inode[v].ino = i PROVE FileZones(i)' = FileZones(i)
  <2>1. i # NoIno /\ Tidy(v) /\ SlotAt(v)
    BY NoInoIsNone DEF ZInv, TidyInv, InodeInv, SlotInv
  <2>2. inode[v].links > 0
    BY <1>2, <1>5, <1>8, <2>1 DEF Tidy, Entry
  <2>3. disk[i] = [links |-> inode[v].links, zone |-> inode[v].zone]
    BY <1>5, <1>8, <2>1, <2>2 DEF SlotAt
  <2>4. FileZones(i) = inode[v].zone
    BY <1>5, <1>8, ZonesAre
  <2>5. \A s \in Slot : inode'[s].ino # i
    BY <1>3, <1>8, <2>1 DEF InodeInv, OneEntryPerInode
  <2>6. FileZones(i)' = disk'[i].zone
    BY <2>5, ZonesAreNext
  <2> QED
    BY <1>1, <2>3, <2>4, <2>6
<1>9. \A j \in Ino : inode[v].ino = j \/ inode'[v].ino = j => ZonesShrink(j)
  BY <1>1, <1>3, <1>8, NoInoIsNone DEF ZonesShrink
<1>10. Tidy(v)'
  BY <1>3 DEF Tidy
<1>11. /\ q.pc \notin Mapping \cup {"truncate"} /\ r[t].pc \notin {"truncate", "new_block"}
       /\ UNCHANGED <<zmap, ind>>
       /\ \A j \in Ino : j \in imap' => j \in imap \/ inode'[v].ino = j
  BY <1>1 DEF Mapping
<1> QED
  BY <1>4, <1>7, <1>9, <1>10, <1>11, EntryStep

\* get_empty_inode zeroes an entry whose zones are on the disk.
LEMMA GetEmptyKeepsZones ==
  ASSUME InodeInv, InodeInv', ZInv, NEW t \in Task, r[t].pc = "user",
         NEW a, a # << >>, NEW p \in Shape(a), Plain(p),
         Head(a) \in {"iget", "new_inode", "get_pipe_inode"},
         GetEmpty(t, p), UNCHANGED fs
  PROVE  ZInv'
<1>1. CASE UNCHANGED <<inode, r>>
  BY <1>1, ZonesUntouched DEF fs
<1>2. CASE \E s \in Slot : inode[s].count = 0 /\ Take(t, p, s)
  <2>1. PICK v \in Slot : inode[v].count = 0 /\ Take(t, p, v)
    BY <1>2
  <2> DEFINE m == Return(p)
             q == [m EXCEPT !.empty = v]
  <2>2. inode' = [inode EXCEPT ![v] = Fresh] /\ r' = [r EXCEPT ![t] = q]
    BY <2>1 DEF Take, Put, Set, Fresh
  <2>3. m \in Shape(Tail(a)) /\ m.pc = Head(a)
    <3>1. Head(a) \in Places \cup {"repeat", "synced", "free_inode"}
      BY DEF Places, Taking
    <3> QED
      BY <3>1, ReturnGoesBack
  <2>4. Plain(m)
    BY PlainReturn
  <2> HIDE DEF m
  <2>5. Plain(q) /\ q.pc = Head(a)
    BY <2>3, <2>4 DEF Plain, Shape
  <2> HIDE DEF q
  <2> QED
    BY <2>1, <2>2, <2>5, TakeKeepsZones
<1> QED
  BY <1>1, <1>2 DEF GetEmpty, Panic

LEMMA StartsPlain ==
  ASSUME NEW a, NEW i, NEW d
  PROVE  Plain(Starting(i, d, a))
  BY DEF Plain, Starting, Registers

LEMMA Zones_Open ==
  ASSUME InodeInv, InodeInv', ZInv, NEW t \in Task, Open(t)
  PROVE  ZInv'
<1> DEFINE a == <<"iget">>
<1>1. r[t].pc = "user" /\ UNCHANGED fs
  BY DEF Open, Calls, At
<1>2. PICK i \in Ino : GetEmpty(t, [Registers EXCEPT !.ino = i, !.ret = a])
  BY DEF Open
<1>3. a # << >> /\ Head(a) = "iget"
  OBVIOUS
<1> HIDE DEF a
<1>4. PICK p : p = Starting(i, 0, a)
  OBVIOUS
<1>5. GetEmpty(t, p) /\ p \in Shape(a) /\ Plain(p)
  BY <1>2, <1>4, StartsSo, StartsWith, StartsPlain
<1> QED
  BY <1>1, <1>3, <1>5, GetEmptyKeepsZones

LEMMA Zones_Create ==
  ASSUME InodeInv, InodeInv', ZInv, NEW t \in Task, Create(t)
  PROVE  ZInv'
<1> DEFINE a == <<"new_inode">>
<1>1. r[t].pc = "user" /\ UNCHANGED fs
  BY DEF Create, Calls, At
<1>2. GetEmpty(t, [Registers EXCEPT !.ret = a])
  BY DEF Create
<1>3. a # << >> /\ Head(a) = "new_inode"
  OBVIOUS
<1> HIDE DEF a
<1>4. PICK p : p = Starting(NoIno, 0, a)
  OBVIOUS
<1>5. GetEmpty(t, p) /\ p \in Shape(a) /\ Plain(p)
  BY <1>2, <1>4, StartsSo, StartsWith, StartsPlain
<1> QED
  BY <1>1, <1>3, <1>5, GetEmptyKeepsZones

LEMMA Zones_Pipe ==
  ASSUME InodeInv, InodeInv', ZInv, NEW t \in Task, Pipe(t)
  PROVE  ZInv'
<1> DEFINE a == <<"get_pipe_inode">>
<1>1. r[t].pc = "user" /\ UNCHANGED fs
  BY DEF Pipe, Calls, At
<1>2. GetEmpty(t, [Registers EXCEPT !.ret = a])
  BY DEF Pipe
<1>3. a # << >> /\ Head(a) = "get_pipe_inode"
  OBVIOUS
<1> HIDE DEF a
<1>4. PICK p : p = Starting(NoIno, 0, a)
  OBVIOUS
<1>5. GetEmpty(t, p) /\ p \in Shape(a) /\ Plain(p)
  BY <1>2, <1>4, StartsSo, StartsWith, StartsPlain
<1> QED
  BY <1>1, <1>3, <1>5, GetEmptyKeepsZones

LEMMA Zones_Mount ==
  ASSUME InodeInv, InodeInv', ZInv, NEW t \in Task, Mount(t)
  PROVE  ZInv'
<1> DEFINE a == <<"iget", "sys_mount">>
<1>1. r[t].pc = "user" /\ UNCHANGED fs
  BY DEF Mount, Calls, At
<1>2. PICK i \in Ino, d \in Devices :
        GetEmpty(t, [Registers EXCEPT !.ino = i, !.dev = d, !.ret = a])
  BY DEF Mount
<1>3. a # << >> /\ Head(a) = "iget"
  BY ShortStacks, StacksDiffer
<1>4. d \in Device
  BY DEF Devices, InodeInv, TypeInv
<1> HIDE DEF a
<1>5. PICK p : p = Starting(i, d, a)
  OBVIOUS
<1>6. GetEmpty(t, p)
  BY <1>2, <1>5 DEF Starting
<1>7. p \in Shape(a) /\ Plain(p)
  BY <1>4, <1>5, StartsWith, StartsPlain
<1> QED
  BY <1>1, <1>3, <1>6, <1>7, GetEmptyKeepsZones

\* new_inode sets the bit of an inode that has no zones yet.
LEMMA Zones_new_inode ==
  ASSUME InodeInv, InodeInv', ZInv, NEW t \in Task, new_inode(t)
  PROVE  ZInv'
<1> DEFINE free == {j \in Ino \ imap : j[1] = ROOT_DEV}
<1>1. /\ r[t].pc = "new_inode" /\ UNCHANGED <<disk, zmap, ind>>
      /\ r[t].pc \notin {"truncate", "new_block"} /\ r[t].pc # "read_inode"
      /\ r[t].pc \notin Mapping \cup {"truncate"}
  BY DEF new_inode, At, Mapping
<1>2. PICK e \in Slot : e = r[t].empty
  <2>1. Sound(r[t])
    BY RegistersAre
  <2> QED
    BY <1>1, <2>1 DEF Sound, Shaped, Shape, Taking
<1>3. /\ inode[e].ino = NoIno /\ inode[e].zone = NoZones /\ inode[e].count = 1
      /\ \A u \in Task \ {t} : ~Refers(r[u], e)
  <2>1. r[t].empty # None
    BY <1>2, InodeAssumption
  <2> QED
    BY <1>1, <1>2, <2>1, EmptyIsTidy, EmptyIsOwn
<1>4. inode \in [Slot -> Entry]
  BY DEF InodeInv, TypeInv
<1>5. Plain(r[t]) /\ r[t] \in Shape(r[t].ret)
  BY <1>1, PlainRegisters
<1>6. CASE free = {}
  <2>1. /\ inode' = [inode EXCEPT ![e].count = @ - 1] /\ r' = [r EXCEPT ![t] = Return(r[t])]
        /\ UNCHANGED imap
    BY <1>2, <1>6 DEF new_inode, Set
  <2>2. PICK q : q = Return(r[t])
    OBVIOUS
  <2>3. r[t].ret = << >>
    <3>1. r[t].ret \in Returns(r[t].pc)
      BY RegistersAre
    <3> QED
      BY <1>1, <3>1 DEF Returns
  <2>4. Plain(q) /\ q.pc = "user"
    BY <1>5, <2>2, <2>3, PlainReturn
  <2>5. r' = [r EXCEPT ![t] = q]
    BY <2>1, <2>2
  <2>6. \A s : Reading(s)' <=> Reading(s)
    BY <1>1, <2>4, <2>5, SameReading
  <2>7. \A s \in Slot : /\ inode'[s].ino = inode[s].ino /\ inode'[s].zone = inode[s].zone
                        /\ s # e => inode'[s] = inode[s]
    BY <1>4, <2>1 DEF Entry
  <2>8. EntriesKeepZones
    BY <1>1, <2>6, <2>7 DEF EntriesKeepZones
  <2>9. \A s \in Slot : StaysTidy(s)
    BY <1>3, <2>7 DEF StaysTidy
  <2>10. Idle(t, q) /\ q.k \in Int
    BY <2>4 DEF Idle, Plain, Mapping
  <2> QED
    BY <1>1, <2>1, <2>5, <2>8, <2>9, <2>10, EntriesKeep
<1>7. CASE free # {}
  <2> DEFINE q == [r[t] EXCEPT !.pc = "add_entry", !.file = e, !.refs = 1, !.empty = None]
  <2>1. PICK i : /\ imap' = imap \cup {i}
                 /\ inode' = [inode EXCEPT ![e] = [inode[e] EXCEPT !.ino = i, !.links = 1, !.dirt = TRUE]]
                 /\ r' = [r EXCEPT ![t] = q]
    BY <1>2, <1>7 DEF new_inode, Put, Set
  <2>2. Plain(q) /\ q.pc = "add_entry"
    BY <1>5 DEF Plain, Shape
  <2> HIDE DEF q
  <2>3. /\ inode'[e].ino = i /\ inode'[e].links = 1 /\ inode'[e].zone = NoZones
        /\ inode'[e].count = 1 /\ \A s \in Slot \ {e} : inode'[s] = inode[s]
    BY <1>3, <1>4, <2>1 DEF Entry
  <2>4. \A s : Reading(s)' <=> Reading(s)
    BY <1>1, <2>1, <2>2, SameReading
  <2>5. OnlyEntry(e)
    BY <1>1, <2>3, <2>4 DEF OnlyEntry
  <2>6. ~Reading(e)'
    <3>1. \A u \in Task : Sound(r[u])
      BY RegistersAre
    <3>2. \A u \in Task \ {t} : ~Reads(r[u], e)
      BY <1>3, <3>1 DEF Sound, Reads, Refers
    <3>3. ~Reading(e)
      BY <1>1, <3>2 DEF Reading, Reads
    <3> QED
      BY <2>4, <3>3
  <2>7. ASSUME NEW j \in Ino, inode[e].ino = j \/ inode'[e].ino = j PROVE ZonesShrink(j)
    <3>1. inode'[e].ino = j
      BY <1>3, <2>7, NoInoIsNone
    <3>2. FileZones(j)' = NoZones
      BY <2>3, <2>6, <3>1, ZonesAreNext
    <3> QED
      BY <3>2 DEF ZonesShrink, NoZones
  <2>8. Tidy(e)'
    BY <2>3, <2>6 DEF Tidy
  <2>9. /\ q.pc \notin Mapping \cup {"truncate"}
        /\ \A j \in Ino : j \in imap' => j \in imap \/ inode'[e].ino = j
    BY <2>1, <2>2, <2>3 DEF Mapping
  <2> QED
    BY <1>1, <1>3, <2>1, <2>2, <2>5, <2>7, <2>8, <2>9, EntryStep
<1> QED
  BY <1>6, <1>7

\* Truncate begins, of a file that nobody else uses.
LEMMA Zones_Truncate ==
  ASSUME InodeInv, InodeInv', ZInv, NoRaces, NEW t \in Task, Truncate(t)
  PROVE  ZInv'
<1>1. /\ r[t].pc = "user" /\ r[t].file # None /\ UNCHANGED <<inode, disk, imap, zmap, ind>>
      /\ inode[r[t].file].count = 1
  BY DEF Truncate, Uses, At, fs, Alone, File, NoRaces
<1>2. /\ Plain(r[t]) /\ r[t] \in Shape(<< >>)
      /\ r[t].pc \notin {"truncate", "new_block", "read_inode"}
  BY <1>1, UserIsPlain
<1>3. PICK v \in Slot : v = r[t].file
  BY <1>1, <1>2 DEF Shape
<1> DEFINE q == [r[t] EXCEPT !.pc = "truncate", !.s = v]
<1>4. r' = [r EXCEPT ![t] = q]
  BY <1>3 DEF Truncate, Set
<1>5. r[t].k = 0
  <2>1. r[t] = Leave(r[t])
    BY <1>1, RegistersAre DEF Sound
  <2> QED
    BY <2>1 DEF Leave, Registers
<1>6. q.pc = "truncate" /\ q.s = v /\ q.k = 0 /\ q.hold = {} /\ q.todo = << >>
  BY <1>2, <1>5 DEF Plain, Shape
<1> HIDE DEF q
<1>7. Refers(r[t], v)
  BY <1>3 DEF Refers
<1>8. CutsAlone(t, q)
  BY <1>1, <1>3, <1>6, <1>7, AloneCutsAlone
<1>9. Idle(t, q) /\ q.k \in Int
  BY <1>6, <1>8 DEF Idle, Mapping
<1>10. \A s : Reading(s)' <=> Reading(s)
  BY <1>1, <1>4, <1>6, SameReading
<1>11. EntriesKeepZones /\ \A s \in Slot : StaysTidy(s)
  BY <1>1, <1>10 DEF EntriesKeepZones, StaysTidy
<1> QED
  BY <1>1, <1>2, <1>4, <1>9, <1>11, EntriesKeep

-----------------------------------------------------------------------------
(* Zones: bmap                                                             *)

\* A zone that nobody else has at the same time.
LEMMA HandOne ==
  ASSUME NEW t \in Task, NEW z, r'[t].todo = <<<<z, 0>>>>
  PROVE  /\ Hand(t, 1)' = z
         /\ \A m \in Int : m # 1 => Hand(t, m)' = 0
<1>1. DOMAIN r'[t].todo = {1} /\ r'[t].todo[1][1] = z /\ r'[t].todo[1][2] = 0
  OBVIOUS
<1> QED
  BY <1>1 DEF Hand

\* The zones of the file that a task has open.
LEMMA FileIsSafe ==
  ASSUME ZInv, NEW t \in Task, NEW i \in Ino, i = inode[r[t].file].ino, NEW p \in Spots
  PROVE  Safe(t, Has(i, p))
<1> DEFINE x == Has(i, p)
<1>1. SUFFICES ASSUME x # 0
               PROVE  /\ x \in zmap
                      /\ \A j \in Ino, n \in Spots : Has(j, n) = x => j = i
                      /\ \A u \in Task, m \in Int : Hand(u, m) # x
  BY DEF Safe
<1> QED
  BY <1>1 DEF ZInv, ZoneInv

\* A step of bmap from one sleep to the next: it may take a zone.
LEMMA MapStep ==
  ASSUME InodeInv, InodeInv', ZInv, NEW t \in Task, NEW q, r' = [r EXCEPT ![t] = q],
         UNCHANGED <<inode, disk, imap, ind>>, r[t].pc \in {"user", "_bmap"},
         q.pc \in Mapping \cup {"user"}, q.file = r[t].file, q.k \in Int,
         \/ q.todo = << >> /\ zmap' = zmap
         \/ \E z \in Zone \ zmap : q.todo = <<<<z, 0>>>> /\ zmap' = zmap \cup {z},
         q.pc = "new_block" <=> q.todo # << >>,
         q.pc \in Mapping =>
           /\ Grips(t, q) /\ (q.pc # "new_block" => q.hold # {})
           /\ \A u \in Task \ {t} : r[u].s = q.s => r[u].pc # "truncate",
         q.pc = "user" => q.hold = {}
  PROVE  ZInv'
<1>1. r'[t] = q /\ \A u \in Task \ {t} : r'[u] = r[u]
  BY DEF InodeInv, RegInv
<1>2. \A s : Reading(s)' <=> Reading(s)
  <2>1. q.pc # "read_inode"
    BY DEF Mapping
  <2> QED
    BY <2>1, SameReading
<1>3. EntriesKeepZones /\ \A s \in Slot : StaysTidy(s)
  BY <1>2 DEF EntriesKeepZones, StaysTidy
<1>4. \A u \in Task \ {t} : Unchanged(u)
  BY <1>3, OthersUnchanged
<1>5. \A i \in Ino, p \in Spots : Has(i, p)' \in {0, Has(i, p)}
  <2>1. \A i \in Ino : ZonesShrink(i) /\ StillCuts(t, q, i)
    BY <1>3, FileZonesStay DEF StillCuts
  <2> QED
    BY <1>4, <2>1, HasShrinks
<1>6. \A u \in Task \ {t}, m \in Int : Hand(u, m)' = Hand(u, m)
  BY <1>1, HandKept
<1>7. /\ \A m, n \in Int : Hand(t, m)' = Hand(t, n)' /\ Hand(t, m)' # 0 => m = n
      /\ \A m \in Int : Hand(t, m)' # 0 => Hand(t, m)' \in zmap' \ zmap
      /\ zmap \subseteq zmap'
  <2>1. CASE q.todo = << >> /\ zmap' = zmap
    BY <1>1, <2>1, HandIsEmpty
  <2>2. CASE \E z \in Zone \ zmap : q.todo = <<<<z, 0>>>> /\ zmap' = zmap \cup {z}
    <3>1. PICK z \in Zone \ zmap : q.todo = <<<<z, 0>>>> /\ zmap' = zmap \cup {z}
      BY <2>2
    <3>2. Hand(t, 1)' = z /\ \A m \in Int : m # 1 => Hand(t, m)' = 0
      BY <1>1, <3>1, HandOne
    <3> QED
      BY <3>1, <3>2
  <2> QED
    BY <2>1, <2>2
<1>8. \A i \in Ino, p \in Spots : Has(i, p) \in zmap \cup {0}
  BY DEF ZInv, ZoneInv
<1>9. ZonesMove(t)
  BY <1>5, <1>6, <1>7, <1>8 DEF ZonesMove
<1>10. ZoneInv'
  BY <1>9, ZonesMoveKeeps, ZoneBitsAreZones DEF ZInv
<1>11. \A u \in Task \ {t} : Holds(u)'
  BY <1>4, <1>9, HoldsKept DEF ZInv
<1>12. ASSUME NEW x, Safe(t, x) PROVE Safe(t, x)'
  <2>1. ASSUME x # 0, NEW u \in Task, NEW m \in Int PROVE Hand(u, m)' # x
    <3>1. x \in zmap /\ Hand(u, m) # x
      BY <1>12, <2>1 DEF Safe
    <3> QED
      BY <1>6, <1>7, <2>1, <3>1
  <2>2. ASSUME x # 0, NEW i \in Ino, NEW p \in Spots, Has(i, p)' = x
        PROVE  i = inode'[r'[t].file].ino
    BY <1>1, <1>5, <1>12, <2>2 DEF Safe
  <2> QED
    BY <1>7, <1>12, <2>1, <2>2 DEF Safe
<1>13. ASSUME NEW v
       PROVE  /\ Safe(t, v) => Safe(t, v)'
              /\ Safe(t, Via(v)) => Safe(t, Via(v))'
              /\ Safe(t, Via(Via(v))) => Safe(t, Via(Via(v)))'
  <2>1. PICK a, b : a = Via(v) /\ b = Via(Via(v))
    OBVIOUS
  <2>2. Via(v)' = a /\ Via(Via(v))' = b
    BY <2>1 DEF Via
  <2>3. (Safe(t, v) => Safe(t, v)') /\ (Safe(t, a) => Safe(t, a)') /\ (Safe(t, b) => Safe(t, b)')
    BY <1>12
  <2> QED
    BY <2>1, <2>2, <2>3 DEF Safe
<1>14. Grips(t, q) => Grips(t, q)'
  BY <1>13 DEF Grips
<1>15. Holds(t)'
  <2>1. CASE q.pc \in Mapping
    <3>1. q.pc = "new_block" => \E z \in Zone : q.todo = <<<<z, 0>>>>
      BY <2>1
    <3> QED
      BY <1>1, <1>14, <2>1, <3>1 DEF Holds
  <2>2. CASE q.pc = "user"
    <3>1. q.pc \notin Mapping /\ q.pc # "truncate" /\ q.hold = {} /\ q.todo = << >>
      BY <2>2 DEF Mapping
    <3> QED
      BY <1>1, <3>1 DEF Holds
  <2> QED
    BY <2>1, <2>2
<1>16. HoldInv'
  BY <1>11, <1>15 DEF HoldInv
<1>17. CutInv'
  <2>1. q.pc # "truncate"
    BY DEF Mapping
  <2> QED
    BY <2>1, CutInvKept DEF ZInv
<1>18. TidyInv'
  BY <1>3, TidyKept DEF ZInv
<1> QED
  BY <1>10, <1>16, <1>17, <1>18 DEF ZInv

\* bmap with the registers q has come to the pointer x.
MayFollow(t, q, x) ==
  /\ Safe(t, x)
  /\ q.k > 0 => Safe(t, Via(x))
  /\ q.k > 1 => Safe(t, Via(Via(x)))

\* What task t may walk with.
MayWalk(t, q) ==
  /\ q.file = r[t].file /\ q.todo = << >> /\ q.k \in 0 .. 2
  /\ \A u \in Task \ {t} : r[u].s = q.s => r[u].pc # "truncate"
  /\ \A v, w \in q.hold : v = w
  /\ \A v \in q.hold :
       Safe(t, v) /\ q.k < 2 /\ Safe(t, Via(v)) /\ (q.k > 0 => Safe(t, Via(Via(v))))

\* _bmap goes on to the zone that it has found.
LEMMA FollowKeepsZones ==
  ASSUME InodeInv, InodeInv', ZInv, NEW t \in Task, r[t].pc \in {"user", "_bmap"},
         UNCHANGED <<inode, disk, imap, zmap, ind>>,
         NEW p \in Shape(<< >>), MayWalk(t, p), NEW x, MayFollow(t, p, x), Follow(t, p, x)
  PROVE  ZInv'
<1>1. CASE x = 0
  <2> DEFINE q == Leave(p)
  <2>1. r' = [r EXCEPT ![t] = q]
    BY <1>1 DEF Follow, Set
  <2>2. /\ q.pc = "user" /\ q.file = r[t].file /\ q.hold = {} /\ q.todo = << >> /\ q.k \in Int
    BY DEF Leave, Registers, MayWalk
  <2> HIDE DEF q
  <2> QED
    BY <2>1, <2>2, MapStep DEF Mapping
<1>2. CASE x # 0 /\ p.k = 0
  <2> DEFINE q == [p EXCEPT !.hold = {x}, !.pc = "data"]
  <2>1. r' = [r EXCEPT ![t] = q]
    BY <1>2 DEF Follow, Set
  <2>2. /\ q.pc = "data" /\ q.file = r[t].file /\ q.hold = {x} /\ q.todo = << >>
        /\ q.k \in Int /\ q.s = p.s
    BY DEF Shape, MayWalk
  <2> HIDE DEF q
  <2>3. Grips(t, q)
    BY <2>2 DEF Grips, MayFollow
  <2>4. \A u \in Task \ {t} : r[u].s = q.s => r[u].pc # "truncate"
    BY <2>2 DEF MayWalk
  <2> QED
    BY <2>1, <2>2, <2>3, <2>4, MapStep DEF Mapping
<1>3. CASE x # 0 /\ p.k # 0
  <2> DEFINE q == [p EXCEPT !.hold = {x}, !.pc = "_bmap", !.k = @ - 1]
  <2>1. r' = [r EXCEPT ![t] = q]
    BY <1>3 DEF Follow, Set
  <2>2. /\ q.pc = "_bmap" /\ q.file = r[t].file /\ q.hold = {x} /\ q.todo = << >>
        /\ q.k = p.k - 1 /\ q.s = p.s
    BY DEF Shape, MayWalk
  <2> HIDE DEF q
  <2>3. p.k \in 1 .. 2 /\ q.k \in Int
    BY <1>3, <2>2 DEF MayWalk
  <2>4. Grips(t, q)
    BY <2>2, <2>3 DEF Grips, MayFollow
  <2>5. \A u \in Task \ {t} : r[u].s = q.s => r[u].pc # "truncate"
    BY <2>2 DEF MayWalk
  <2> QED
    BY <2>1, <2>2, <2>3, <2>4, <2>5, MapStep DEF Mapping
<1> QED
  BY <1>1, <1>2, <1>3

\* The bit that new_block sets was clear.
LEMMA NewZoneIsFree ==
  ASSUME InodeInv, zmap # Zone
  PROVE  NewZone \in Zone \ zmap
<1>1. Zone \ zmap \in SUBSET Nat /\ Zone \ zmap # {}
  BY InodeAssumption DEF InodeInv, TypeInv
<1> QED
  BY <1>1, MinIsLeast DEF NewZone

\* _bmap finds a zone, allocates one, or ends.
LEMMA WalkKeepsZones ==
  ASSUME InodeInv, InodeInv', ZInv, NEW t \in Task, r[t].pc \in {"user", "_bmap"},
         UNCHANGED <<inode, disk, imap, ind>>,
         NEW p \in Shape(<< >>), MayWalk(t, p), MayFollow(t, p, Pointer(p)), Walk(t, p)
  PROVE  ZInv'
<1>1. CASE Pointer(p) = 0 /\ p.make /\ zmap # Zone
  <2> DEFINE q == [p EXCEPT !.pc = "new_block", !.todo = <<<<NewZone, 0>>>>]
  <2>1. PICK z : z = NewZone
    OBVIOUS
  <2>2. z \in Zone \ zmap /\ zmap' = zmap \cup {z} /\ r' = [r EXCEPT ![t] = q]
    BY <1>1, <2>1, NewZoneIsFree DEF Walk, Set
  <2>3. /\ q.pc = "new_block" /\ q.file = r[t].file /\ q.hold = p.hold
        /\ q.todo = <<<<z, 0>>>> /\ q.k = p.k /\ q.s = p.s
    BY <2>1 DEF Shape, MayWalk
  <2> HIDE DEF q
  <2>4. Grips(t, q)
    BY <2>3 DEF Grips, MayWalk
  <2>5. \A u \in Task \ {t} : r[u].s = q.s => r[u].pc # "truncate"
    BY <2>3 DEF MayWalk
  <2>6. q.todo # << >> /\ q.k \in Int
    BY <2>3 DEF MayWalk
  <2> QED
    BY <2>2, <2>3, <2>4, <2>5, <2>6, MapStep DEF Mapping
<1>2. CASE ~(Pointer(p) = 0 /\ p.make /\ zmap # Zone)
  <2>1. zmap' = zmap /\ Follow(t, p, Pointer(p))
    BY <1>2 DEF Walk
  <2> QED
    BY <2>1, FollowKeepsZones
<1> QED
  BY <1>1, <1>2

\* The zone whose buffer _bmap holds.
LEMMA HeldZoneIs ==
  ASSUME NEW T \in SUBSET Nat, T # {}, \A v, w \in T : v = w
  PROVE  Min(T) \in T /\ T = {Min(T)}
<1>1. Min(T) \in T
  BY MinIsLeast
<1> QED
  BY <1>1

\* _bmap goes on from an indirect zone that is still of the file.
LEMMA Zones_bmap ==
  ASSUME InodeInv, InodeInv', ZInv, NEW t \in Task, _bmap(t)
  PROVE  ZInv'
<1>1. r[t].pc = "_bmap" /\ UNCHANGED <<inode, disk, imap, ind>>
  BY DEF _bmap, At
<1>2. Sound(r[t]) /\ r[t].ret = << >> /\ r[t] \in Shape(<< >>)
  <2>1. Sound(r[t]) /\ Shaped(r[t]) /\ r[t].ret \in Returns(r[t].pc)
    BY RegistersAre
  <2>2. r[t].ret = << >>
    BY <1>1, <2>1 DEF Returns
  <2> QED
    BY <2>1, <2>2 DEF Shaped
<1>3. r[t].todo = << >> /\ r[t].hold # {} /\ Grips(t, r[t])
  BY <1>1 DEF ZInv, HoldInv, Holds, Mapping
<1>4. MayWalk(t, r[t])
  <2>1. \A u \in Task \ {t} : r[u].s = r[t].s => r[u].pc # "truncate"
    BY <1>1 DEF ZInv, CutInv, Mapping
  <2> QED
    BY <1>1, <1>2, <1>3, <2>1 DEF MayWalk, Grips, Sound, Mapping
<1>5. CASE Walk(t, r[t])
  <2>1. PICK w : w = Min(r[t].hold)
    OBVIOUS
  <2>2. w \in r[t].hold /\ w \in Zone
    <3>1. r[t].hold \in SUBSET Nat /\ r[t].hold \subseteq Zone
      BY <1>2, InodeAssumption DEF Shape
    <3> QED
      BY <1>3, <2>1, <3>1, HeldZoneIs DEF Grips
  <2>3. Pointer(r[t]) = Via(w)
    BY <1>3, <2>1, <2>2, ZeroIsNoZone DEF Pointer, Via
  <2>4. r[t].k \in 0 .. 2
    BY <1>4 DEF MayWalk
  <2>5. MayFollow(t, r[t], Pointer(r[t]))
    BY <1>1, <1>3, <2>2, <2>3, <2>4 DEF MayFollow, Grips
  <2> QED
    BY <1>1, <1>2, <1>4, <1>5, <2>5, WalkKeepsZones
<1>6. CASE Set(t, Leave(r[t])) /\ UNCHANGED zmap
  <2> DEFINE q == Leave(r[t])
  <2>1. r' = [r EXCEPT ![t] = q]
    BY <1>6 DEF Set
  <2>2. /\ q.pc = "user" /\ q.file = r[t].file /\ q.hold = {} /\ q.todo = << >> /\ q.k \in Int
    BY DEF Leave, Registers
  <2> HIDE DEF q
  <2> QED
    BY <1>1, <1>6, <2>1, <2>2, MapStep DEF Mapping
<1> QED
  BY <1>5, <1>6 DEF _bmap

\* The zones of an open file that nobody truncates.
LEMMA FileMayFollow ==
  ASSUME InodeInv, ZInv, NEW t \in Task, r[t].pc # "read_inode", NEW v \in Slot,
         v = r[t].file, inode[v].ino # NoIno, ~Truncating(v), NEW q, NEW k \in 0 .. 2, q.k = k
  PROVE  MayFollow(t, q, inode[v].zone[k])
<1>1. PICK i \in Ino : i = inode[v].ino
  BY DEF InodeInv, TypeInv, Entry
<1>2. i \in imap
  BY <1>1 DEF InodeInv, SlotInv, SlotAt
<1>3. ~Reading(v)
  <2>1. ASSUME NEW u \in Task, r[u].pc = "read_inode", r[u].s = v PROVE FALSE
    <3>1. Sound(r[u]) /\ r[u].empty = v
      BY <2>1, RegistersAre DEF Sound
    <3>2. u # t /\ r[u].empty # None
      BY <2>1, <3>1, InodeAssumption
    <3>3. ~Refers(r[t], v)
      BY <3>1, <3>2, EmptyIsOwn
    <3> QED
      BY <3>3 DEF Refers
  <2> QED
    BY <2>1 DEF Reading
<1>4. FileZones(i) = inode[v].zone
  BY <1>1, <1>3, ZonesAre
<1>5. Cutters(i) = {}
  <2>1. ASSUME NEW u \in Cutters(i) PROVE FALSE
    <3>1. u \in Task /\ r[u].pc = "truncate" /\ inode[r[u].s].ino = i
      BY DEF Cutters
    <3>2. r[u].s \in Slot
      BY <3>1, UsesInode
    <3>3. r[u].s = v
      BY <1>1, <3>1, <3>2, NoInoIsNone DEF InodeInv, OneEntryPerInode
    <3> QED
      BY <3>1, <3>3 DEF Truncating
  <2> QED
    BY <2>1
<1>6. \A p \in Spots : Has(i, p) = Named(i, p) /\ Safe(t, Has(i, p))
  BY <1>1, <1>2, <1>5, FileIsSafe DEF Has
<1>7. \A p \in Spots : Safe(t, Named(i, p))
  BY <1>6
<1>8. /\ Safe(t, FileZones(i)[0]) /\ Safe(t, FileZones(i)[1]) /\ Safe(t, FileZones(i)[2])
      /\ Safe(t, Via(FileZones(i)[1])) /\ Safe(t, Via(FileZones(i)[2]))
      /\ Safe(t, Via(Via(FileZones(i)[2])))
  <2>1. 1 \in Spots /\ 2 \in Spots /\ 3 \in Spots /\ 4 \in Spots /\ 5 \in Spots /\ 6 \in Spots
    BY DEF Spots
  <2> QED
    BY <1>7, <2>1, NamedIs
<1>9. MayFollow(t, q, FileZones(i)[k])
  <2>1. CASE k = 0
    BY <1>8, <2>1 DEF MayFollow
  <2>2. CASE k = 1
    BY <1>8, <2>2 DEF MayFollow
  <2>3. CASE k = 2
    BY <1>8, <2>3 DEF MayFollow
  <2> QED
    BY <2>1, <2>2, <2>3
<1> QED
  BY <1>4, <1>9

\* A read or write begins with the zones of an inode that nobody truncates.
LEMMA Zones_Access ==
  ASSUME InodeInv, InodeInv', ZInv, NoRaces, NEW t \in Task, Access(t)
  PROVE  ZInv'
<1>1. /\ r[t].pc = "user" /\ r[t].file # None /\ ~inode[r[t].file].pipe
      /\ UNCHANGED <<inode, disk, imap, ind>> /\ ~Truncating(r[t].file)
  BY DEF Access, Uses, At, File, NoRaces
<1>2. PICK v \in Slot : v = r[t].file /\ inode[v].ino # NoIno
  BY <1>1, UserRegisters, FileHasInode
<1>3. PICK b \in Block, create \in BOOLEAN :
        Walk(t, [r[t] EXCEPT !.s = r[t].file, !.k = b, !.make = create])
  BY DEF Access
<1> DEFINE p == [r[t] EXCEPT !.s = v, !.k = b, !.make = create]
<1>4. Walk(t, p) /\ b \in 0 .. 2 /\ b \in 0 .. 3
  BY <1>2, <1>3, InodeAssumption
<1>5. Plain(r[t]) /\ r[t] \in Shape(<< >>)
  BY <1>1, UserIsPlain
<1>6. p \in Shape(<< >>)
  <2> DEFINE p1 == [r[t] EXCEPT !.s = v]
             p2 == [p1 EXCEPT !.k = b]
  <2>1. p1 \in Shape(<< >>)
    BY <1>5, ShapeKept
  <2> HIDE DEF p1
  <2>2. p2 \in Shape(<< >>)
    BY <1>4, <2>1, ShapeKept
  <2> HIDE DEF p2
  <2>3. [p2 EXCEPT !.make = create] \in Shape(<< >>)
    BY <2>2, ShapeKept
  <2>4. p = [p2 EXCEPT !.make = create]
    BY DEF p1, p2
  <2> QED
    BY <2>3, <2>4
<1>7. p.s = v /\ p.k = b /\ p.file = v /\ p.hold = {} /\ p.todo = << >>
  BY <1>2, <1>5 DEF Shape, Plain
<1> HIDE DEF p
<1>8. MayWalk(t, p)
  <2>1. \A u \in Task : r[u].s = v => r[u].pc # "truncate"
    BY <1>1, <1>2 DEF Truncating
  <2> QED
    BY <1>2, <1>4, <1>7, <2>1 DEF MayWalk
<1>9. Pointer(p) = inode[v].zone[b]
  BY <1>7 DEF Pointer
<1>10. MayFollow(t, p, Pointer(p))
  BY <1>1, <1>2, <1>4, <1>7, <1>9, FileMayFollow
<1> QED
  BY <1>1, <1>4, <1>6, <1>8, <1>10, WalkKeepsZones

-----------------------------------------------------------------------------
(* Zones: new_block                                                        *)

\* Task t has zone z, which nobody else has, to store it in the file i.
Brings(t, i, z) ==
  /\ i \in Ino /\ i = inode[r[t].file].ino /\ Hand(t, 1) = z /\ z # 0 /\ z \in zmap
  /\ \A j \in Ino, p \in Spots : Has(j, p) # z
  /\ \A u \in Task \ {t}, m \in Int : Hand(u, m) # z
  /\ \A u \in Task : \A x : Safe(u, x) => x # z

\* After the step the file has z at one position, or nobody has it.
Given(t, i, z) ==
  /\ \A j \in Ino, p \in Spots : Has(j, p)' \in {0, Has(j, p)} \/ (j = i /\ Has(j, p)' = z)
  /\ \A p, n \in Spots : Has(i, p)' = z /\ Has(i, n)' = z => p = n
  /\ \A u \in Task \ {t}, m \in Int : Hand(u, m)' = Hand(u, m)
  /\ \A m \in Int : Hand(t, m)' = 0
  /\ zmap' = zmap

\* The zone that new_block brings has one owner when the file has it.
LEMMA GivenKeeps ==
  ASSUME ZoneInv, NEW t \in Task, NEW i, NEW z, Brings(t, i, z), Given(t, i, z)
  PROVE  ZoneInv'
<1>1. /\ \A j \in Ino, p \in Spots : Has(j, p) # z
      /\ \A u \in Task \ {t}, m \in Int : Hand(u, m) # z
      /\ z # 0 /\ z \in zmap
  BY DEF Brings
<1>2. \A j \in Ino, p \in Spots : Has(j, p)' \in {0, Has(j, p)} \/ (j = i /\ Has(j, p)' = z)
  BY DEF Given
<1>3. /\ \A u \in Task \ {t}, m \in Int : Hand(u, m)' = Hand(u, m)
      /\ \A m \in Int : Hand(t, m)' = 0
  BY DEF Given
<1>4. \A j \in Ino, p \in Spots : Has(j, p)' \in zmap' \cup {0}
  BY <1>1, <1>2 DEF Given, ZoneInv
<1>5. \A u \in Task, m \in Int : Hand(u, m)' \in zmap' \cup {0}
  <2> SUFFICES ASSUME NEW u \in Task \ {t}, NEW m \in Int PROVE Hand(u, m)' \in zmap' \cup {0}
    BY <1>3
  <2>1. Hand(u, m)' = Hand(u, m) /\ Hand(u, m) \in zmap \cup {0}
    BY <1>3 DEF ZoneInv
  <2> QED
    BY <2>1 DEF Given
<1>6. \A j, l \in Ino, p, n \in Spots :
           Has(j, p)' = Has(l, n)' /\ Has(j, p)' # 0 => j = l /\ p = n
  <2> SUFFICES ASSUME NEW j \in Ino, NEW l \in Ino, NEW p \in Spots, NEW n \in Spots,
                      Has(j, p)' = Has(l, n)', Has(j, p)' # 0
               PROVE  j = l /\ p = n
    OBVIOUS
  <2>1. CASE Has(j, p)' = z
    <3>1. j = i /\ l = i
      BY <1>1, <1>2, <2>1
    <3> QED
      BY <2>1, <3>1 DEF Given
  <2>2. CASE Has(j, p)' # z
    <3>1. Has(j, p)' = Has(j, p)
      BY <1>2, <2>2
    <3>2. Has(l, n)' = Has(l, n)
      BY <1>2, <2>2
    <3>3. Has(j, p) = Has(l, n) /\ Has(j, p) # 0
      BY <3>1, <3>2
    <3> QED
      BY <3>3 DEF ZoneInv
  <2> QED
    BY <2>1, <2>2
<1>7. \A v, u \in Task, m, n \in Int :
           Hand(v, m)' = Hand(u, n)' /\ Hand(v, m)' # 0 => v = u /\ m = n
  <2> SUFFICES ASSUME NEW v \in Task \ {t}, NEW u \in Task \ {t}, NEW m \in Int, NEW n \in Int,
                      Hand(v, m)' = Hand(u, n)', Hand(v, m)' # 0
               PROVE  v = u /\ m = n
    BY <1>3
  <2>1. Hand(v, m)' = Hand(v, m)
    BY <1>3
  <2>2. Hand(u, n)' = Hand(u, n)
    BY <1>3
  <2>3. Hand(v, m) = Hand(u, n) /\ Hand(v, m) # 0
    BY <2>1, <2>2
  <2> QED
    BY <2>3 DEF ZoneInv
<1>8. \A j \in Ino, p \in Spots, u \in Task, m \in Int :
           Has(j, p)' = Hand(u, m)' => Has(j, p)' = 0
  <2> SUFFICES ASSUME NEW j \in Ino, NEW p \in Spots, NEW u \in Task \ {t}, NEW m \in Int,
                      Has(j, p)' = Hand(u, m)', Has(j, p)' # 0
               PROVE  FALSE
    BY <1>3
  <2>1. Hand(u, m)' = Hand(u, m)
    BY <1>3
  <2>2. Has(j, p)' = Has(j, p)
    BY <1>1, <1>2, <2>1
  <2>3. Has(j, p) = Hand(u, m) /\ Has(j, p) # 0
    BY <2>1, <2>2
  <2> QED
    BY <2>3 DEF ZoneInv
<1> QED
  BY <1>4, <1>5, <1>6, <1>7, <1>8 DEF ZoneInv

\* It disturbs no task that maps zones of a file,
LEMMA GivenSafe ==
  ASSUME NEW t \in Task, NEW i, NEW z, Brings(t, i, z), Given(t, i, z),
         NEW u \in Task, r'[u].file = r[u].file,
         inode'[r[u].file].ino = inode[r[u].file].ino, NEW x, Safe(u, x)
  PROVE  Safe(u, x)'
<1> SUFFICES ASSUME x # 0
             PROVE  /\ x \in zmap'
                    /\ \A j \in Ino, p \in Spots :
                         Has(j, p)' = x => j = inode'[r'[u].file].ino
                    /\ \A v \in Task, m \in Int : Hand(v, m)' # x
  BY DEF Safe
<1>1. /\ x \in zmap /\ x # z
      /\ \A j \in Ino, p \in Spots : Has(j, p) = x => j = inode[r[u].file].ino
      /\ \A v \in Task, m \in Int : Hand(v, m) # x
  BY DEF Safe, Brings
<1>2. \A j \in Ino, p \in Spots : Has(j, p)' = x => j = inode'[r'[u].file].ino
  BY <1>1 DEF Given
<1>3. \A v \in Task, m \in Int : Hand(v, m)' # x
  <2> SUFFICES ASSUME NEW v \in Task \ {t}, NEW m \in Int PROVE Hand(v, m)' # x
    BY DEF Given
  <2>1. Hand(v, m)' = Hand(v, m)
    BY DEF Given
  <2> QED
    BY <1>1, <2>1
<1> QED
  BY <1>1, <1>2, <1>3 DEF Given

\* The zone is safe for those whose file gets it.
LEMMA GivenIsSafe ==
  ASSUME NEW t \in Task, NEW i, NEW z, Brings(t, i, z), Given(t, i, z),
         NEW u \in Task, r'[u].file = r[u].file,
         inode'[r[u].file].ino = inode[r[u].file].ino,
         (\E p \in Spots : Has(i, p)' = z) => i = inode[r[u].file].ino
  PROVE  Safe(u, z)'
<1>1. ASSUME NEW j \in Ino, NEW p \in Spots, Has(j, p)' = z PROVE j = inode'[r'[u].file].ino
  BY <1>1 DEF Given, Brings
<1>2. ASSUME NEW v \in Task, NEW m \in Int PROVE Hand(v, m)' # z
  <2>1. CASE v = t
    BY <2>1 DEF Given, Brings
  <2>2. CASE v # t
    <3>1. Hand(v, m)' = Hand(v, m)
      BY <2>2 DEF Given
    <3> QED
      BY <2>2, <3>1 DEF Brings
  <2> QED
    BY <2>1, <2>2
<1> QED
  BY <1>1, <1>2 DEF Safe, Given, Brings

\* The zone z is cleared, and the pointer in w, if any, leads to it.
Points(z, w) ==
  /\ z # w /\ Via(0)' = 0 /\ Via(0) = 0 /\ Via(z)' = 0 /\ (w # 0 => Via(w)' = z)
  /\ \A x : x # z /\ (x # w \/ w = 0) => Via(x)' = Via(x)

\* The same for the pointers behind pointers.
LEMMA PointsNext ==
  ASSUME NEW z, NEW w, Points(z, w), NEW x, NEW y, y = Via(x)'
  PROVE  Via(Via(x))' = Via(y)'
  BY DEF Via

\* and none that goes on from a zone that it holds.
LEMMA GripsGiven ==
  ASSUME NEW t \in Task, NEW i, NEW z, Brings(t, i, z), Given(t, i, z),
         NEW w, Points(z, w),
         w # 0 /\ (\E p \in Spots : Has(i, p)' = z) => \E n \in Spots : Has(i, n) = w,
         NEW u \in Task, r'[u].file = r[u].file,
         inode'[r[u].file].ino = inode[r[u].file].ino, NEW q, Grips(u, q)
  PROVE  Grips(u, q)'
<1>1. ASSUME NEW x, Safe(u, x) PROVE Safe(u, x)' /\ x # z
  BY <1>1, GivenSafe DEF Brings
<1>2. Safe(u, 0)'
  BY DEF Safe
<1>3. ASSUME Safe(u, w), w # 0 PROVE Safe(u, z)'
  <2>1. (\E p \in Spots : Has(i, p)' = z) => i = inode[r[u].file].ino
    BY <1>3 DEF Safe, Brings
  <2> QED
    BY <2>1, GivenIsSafe
<1>4. ASSUME NEW x, Safe(u, x), Safe(u, Via(x)) PROVE Safe(u, Via(x))'
  <2>1. PICK y : y = Via(x)'
    OBVIOUS
  <2>2. Safe(u, y)'
    <3>1. CASE x = w /\ w # 0
      BY <1>3, <1>4, <2>1, <3>1 DEF Points
    <3>2. CASE x # w \/ w = 0
      <4>1. y = Via(x)
        BY <1>1, <1>4, <2>1, <3>2 DEF Points
      <4> QED
        BY <1>1, <1>4, <4>1
    <3> QED
      BY <3>1, <3>2
  <2> QED
    BY <2>1, <2>2 DEF Safe
<1>5. ASSUME NEW x, Safe(u, x), Safe(u, Via(x)), Safe(u, Via(Via(x)))
      PROVE  Safe(u, Via(Via(x)))'
  <2>1. PICK y : y = Via(x)'
    OBVIOUS
  <2>2. Via(Via(x))' = Via(y)'
    BY <2>1, PointsNext
  <2>3. Safe(u, Via(y))'
    <3>1. CASE x = w /\ w # 0
      <4>1. Via(y)' = 0
        BY <2>1, <3>1 DEF Points
      <4> QED
        BY <4>1 DEF Safe
    <3>2. CASE x # w \/ w = 0
      <4>1. y = Via(x)
        BY <1>1, <1>5, <2>1, <3>2 DEF Points
      <4> QED
        BY <1>4, <1>5, <4>1
    <3> QED
      BY <3>1, <3>2
  <2> QED
    BY <2>2, <2>3 DEF Safe
<1> QED
  BY <1>1, <1>4, <1>5 DEF Grips

\* Nobody is about to free the zones whose pointers change.
LEMMA HandsGiven ==
  ASSUME InodeInv, NEW z, NEW w, Points(z, w), NEW u \in Task, r'[u] = r[u],
         \A m \in Int : Hand(u, m) # z /\ (w # 0 => Hand(u, m) # w), NEW n \in Int
  PROVE  Hand(u, n)' = Hand(u, n)
<1> DEFINE todo == r[u].todo
           x == todo[1][1]
<1>1. todo \in Seq(Zone \X (0 .. 2))
  BY RegistersAre DEF Shaped, Shape
<1>2. CASE n \in DOMAIN todo \/ todo = << >>
  BY <1>2 DEF Hand
<1>3. CASE n \notin DOMAIN todo /\ todo # << >>
  <2>1. 1 \in DOMAIN todo /\ 0 \notin DOMAIN todo /\ -1 \notin DOMAIN todo
    BY <1>1, <1>3
  <2>2. Hand(u, 1) = x
    BY <2>1 DEF Hand
  <2>3. Via(x)' = Via(x)
    BY <2>2 DEF Points
  <2>4. todo[1][2] > 1 => Via(Via(x))' = Via(Via(x))
    <3>1. ASSUME todo[1][2] > 1 PROVE Hand(u, 0) = Via(x)
      <4>1. todo[1][2] \in 0 .. 2
        BY <1>1, <2>1
      <4> QED
        BY <1>3, <2>1, <3>1, <4>1 DEF Hand
    <3>2. PICK y : y = Via(x)
      OBVIOUS
    <3>3. Via(Via(x))' = Via(y)' /\ Via(Via(x)) = Via(y)
      BY <2>3, <3>2, PointsNext
    <3>4. todo[1][2] > 1 => Via(y)' = Via(y)
      BY <3>1, <3>2 DEF Points
    <3> QED
      BY <3>3, <3>4
  <2>5. /\ Hand(u, n) = IF n = 0 /\ todo[1][2] > 0 THEN Via(x)
                        ELSE IF n = -1 /\ todo[1][2] > 1 THEN Via(Via(x)) ELSE 0
        /\ Hand(u, n)' = IF n = 0 /\ todo[1][2] > 0 THEN Via(x)'
                         ELSE IF n = -1 /\ todo[1][2] > 1 THEN Via(Via(x))' ELSE 0
    BY <1>3 DEF Hand
  <2> HIDE DEF x, todo
  <2> QED
    BY <2>3, <2>4, <2>5
<1> QED
  BY <1>2, <1>3

\* What Named says after a step, with the zones that the file then has.
LEMMA NamedThen ==
  ASSUME NEW j, NEW Z, FileZones(j)' = Z
  PROVE  /\ Named(j, 1)' = Z[0]
         /\ Named(j, 2)' = Z[1]
         /\ Named(j, 3)' = Via(Z[1])'
         /\ Named(j, 4)' = Z[2]
         /\ Named(j, 5)' = Via(Z[2])'
         /\ Named(j, 6)' = Via(Via(Z[2]))'
  BY NamedIsNext DEF Via

\* A file in which these zones are not keeps its zones.
LEMMA FileGiven ==
  ASSUME InodeInv, NEW z, NEW w, Points(z, w), NEW j \in Ino, FileZones(j)' = FileZones(j),
         j \in imap' <=> j \in imap, Cutters(j)' = Cutters(j),
         \A u \in Cutters(j) : r'[u].k = r[u].k,
         \A p \in Spots : Has(j, p) # z /\ (w # 0 => Has(j, p) # w), NEW p \in Spots
  PROVE  Has(j, p)' = Has(j, p)
<1> DEFINE Live(n) == j \in imap /\ \A t \in Cutters(j) : r[t].k <= Cell(n)
<1>1. \A n \in Spots : Has(j, n) = IF Live(n) THEN Named(j, n) ELSE 0
  BY DEF Has
<1>2. \A n \in Spots : Has(j, n)' = IF Live(n) THEN Named(j, n)' ELSE 0
  BY DEF Has, Cell
<1>3. SUFFICES ASSUME Live(p) PROVE Named(j, p)' = Named(j, p)
  BY <1>1, <1>2
<1>4. \A n \in Spots : Cell(n) = Cell(p) => Named(j, n) # z /\ (w # 0 => Named(j, n) # w)
  BY <1>1, <1>3
<1> HIDE DEF Live
<1>5. p = 1 \/ p = 2 \/ p = 3 \/ p = 4 \/ p = 5 \/ p = 6
  BY DEF Spots
<1>6. PICK Z : Z = FileZones(j)
  OBVIOUS
<1>7. /\ Named(j, 1) = Z[0] /\ Named(j, 2) = Z[1] /\ Named(j, 3) = Via(Z[1])
      /\ Named(j, 4) = Z[2] /\ Named(j, 5) = Via(Z[2]) /\ Named(j, 6) = Via(Via(Z[2]))
  BY <1>6, NamedIs
<1>8. /\ Named(j, 1)' = Z[0] /\ Named(j, 2)' = Z[1] /\ Named(j, 3)' = Via(Z[1])'
      /\ Named(j, 4)' = Z[2] /\ Named(j, 5)' = Via(Z[2])' /\ Named(j, 6)' = Via(Via(Z[2]))'
  <2>1. FileZones(j)' = Z
    BY <1>6
  <2> QED
    BY <2>1, NamedThen
<1>9. CASE p = 1 \/ p = 2 \/ p = 4
  BY <1>7, <1>8, <1>9
<1>10. CASE p = 3
  <2>1. Z[1] # z /\ (w # 0 => Z[1] # w)
    <3>1. 2 \in Spots /\ Cell(2) = Cell(3)
      BY DEF Spots, Cell
    <3> QED
      BY <1>4, <1>7, <1>10, <3>1
  <2>2. Via(Z[1])' = Via(Z[1])
    BY <2>1 DEF Points
  <2> QED
    BY <1>7, <1>8, <1>10, <2>2
<1>11. ASSUME p = 5 \/ p = 6
       PROVE  Via(Z[2])' = Via(Z[2]) /\ Named(j, 5) # z /\ (w # 0 => Named(j, 5) # w)
  <2>1. 4 \in Spots /\ 5 \in Spots /\ Cell(4) = Cell(p) /\ Cell(5) = Cell(p)
    BY <1>11 DEF Spots, Cell
  <2>2. Z[2] # z /\ (w # 0 => Z[2] # w)
    BY <1>4, <1>7, <2>1
  <2>3. Via(Z[2])' = Via(Z[2])
    BY <2>2 DEF Points
  <2> QED
    BY <1>4, <2>1, <2>3
<1>12. CASE p = 5
  BY <1>7, <1>8, <1>11, <1>12
<1>13. CASE p = 6
  <2>1. PICK y : y = Via(Z[2])
    OBVIOUS
  <2>2. Via(Z[2])' = y /\ y # z /\ (w # 0 => y # w)
    BY <1>7, <1>11, <1>13, <2>1
  <2>3. Via(Via(Z[2]))' = Via(y)'
    BY <2>2, PointsNext
  <2>4. Via(y)' = Via(y)
    BY <2>2 DEF Points
  <2> QED
    BY <1>7, <1>8, <1>13, <2>1, <2>3, <2>4
<1> QED
  BY <1>5, <1>9, <1>10, <1>12, <1>13

\* The file that the task stores the zone in, behind the zone w.
LEMMA OwnFileGivenBehind ==
  ASSUME InodeInv, NEW z \in Zone, NEW w \in Zone, Points(z, w), NEW i \in Ino, i \in imap, i \in imap',
         FileZones(i)' = FileZones(i), Cutters(i) = {}, Cutters(i)' = {},
         \A p \in Spots : Has(i, p) # z,
         \A p, n \in Spots : Has(i, p) = Has(i, n) /\ Has(i, p) # 0 => p = n
  PROVE  /\ \A p \in Spots : Has(i, p)' \in {0, Has(i, p), z}
         /\ \A p, n \in Spots : Has(i, p)' = z /\ Has(i, n)' = z => p = n
         /\ (\E p \in Spots : Has(i, p)' = z) => \E n \in Spots : Has(i, n) = w
<1>1. \A p \in Spots : Has(i, p) = Named(i, p) /\ Has(i, p)' = Named(i, p)'
  BY DEF Has
<1>2. PICK Z : Z = FileZones(i)
  OBVIOUS
<1>3. PICK a, b, c : a = Via(Z[1]) /\ b = Via(Z[2]) /\ c = Via(b)
  OBVIOUS
<1>4. /\ Named(i, 1) = Z[0] /\ Named(i, 2) = Z[1] /\ Named(i, 3) = a
      /\ Named(i, 4) = Z[2] /\ Named(i, 5) = b /\ Named(i, 6) = c
  BY <1>2, <1>3, NamedIs
<1>5. PICK d, e : d = Via(Z[1])' /\ e = Via(Z[2])'
  OBVIOUS
<1>6. PICK f : f = Via(e)'
  OBVIOUS
<1>7. /\ Named(i, 1)' = Z[0] /\ Named(i, 2)' = Z[1] /\ Named(i, 3)' = d
      /\ Named(i, 4)' = Z[2] /\ Named(i, 5)' = e /\ Named(i, 6)' = f
  <2>1. FileZones(i)' = Z
    BY <1>2
  <2>2. Via(Via(Z[2]))' = f
    BY <1>5, <1>6, PointsNext
  <2> QED
    BY <1>5, <2>1, <2>2, NamedThen
<1>8. \A p \in Spots : p = 1 \/ p = 2 \/ p = 3 \/ p = 4 \/ p = 5 \/ p = 6
  BY DEF Spots
<1>9. 1 \in Spots /\ 2 \in Spots /\ 3 \in Spots /\ 4 \in Spots /\ 5 \in Spots /\ 6 \in Spots
  BY DEF Spots
<1>10. /\ Z[0] # z /\ Z[1] # z /\ a # z /\ Z[2] # z /\ b # z /\ c # z
       /\ ~(Z[1] = w /\ Z[2] = w) /\ ~(Z[1] = w /\ b = w) /\ ~(Z[2] = w /\ b = w)
       /\ w # 0 /\ z # 0 /\ z # w
  <2>1. \A p \in Spots : Named(i, p) # z
    BY <1>1
  <2>2. \A p, n \in Spots : Named(i, p) = w /\ Named(i, n) = w => p = n
    BY <1>1, ZeroIsNoZone
  <2>3. Named(i, 1) # z /\ Named(i, 2) # z /\ Named(i, 3) # z
        /\ Named(i, 4) # z /\ Named(i, 5) # z /\ Named(i, 6) # z
    BY <1>9, <2>1
  <2>4. /\ ~(Named(i, 2) = w /\ Named(i, 4) = w) /\ ~(Named(i, 2) = w /\ Named(i, 5) = w)
        /\ ~(Named(i, 4) = w /\ Named(i, 5) = w)
    BY <1>9, <2>2
  <2> QED
    BY <1>4, <2>3, <2>4, ZeroIsNoZone DEF Points
<1>11. d = IF Z[1] = w THEN z ELSE a
  BY <1>3, <1>5, <1>10 DEF Points
<1>12. e = IF Z[2] = w THEN z ELSE b
  BY <1>3, <1>5, <1>10 DEF Points
<1>13. f = IF Z[2] = w THEN 0 ELSE IF b = w THEN z ELSE c
  BY <1>3, <1>6, <1>10, <1>12 DEF Points
<1>14. \A p \in Spots : Has(i, p)' \in {0, Has(i, p), z}
  BY <1>1, <1>4, <1>7, <1>8, <1>11, <1>12, <1>13
<1>15. \A p, n \in Spots : Has(i, p)' = z /\ Has(i, n)' = z => p = n
  <2>1. \A p \in Spots : Has(i, p)' = z =>
          (p = 3 /\ Z[1] = w) \/ (p = 5 /\ Z[2] = w) \/ (p = 6 /\ b = w)
    BY <1>1, <1>7, <1>8, <1>10, <1>11, <1>12, <1>13
  <2> QED
    BY <1>10, <2>1
<1>16. (\E p \in Spots : Has(i, p)' = z) => \E n \in Spots : Has(i, n) = w
  <2>1. (\E p \in Spots : Has(i, p)' = z) => Z[1] = w \/ Z[2] = w \/ b = w
    BY <1>1, <1>7, <1>8, <1>10, <1>11, <1>12, <1>13
  <2>2. Has(i, 2) = Z[1] /\ Has(i, 4) = Z[2] /\ Has(i, 5) = b
    BY <1>1, <1>4, <1>9
  <2> QED
    BY <1>9, <2>1, <2>2
<1> QED
  BY <1>14, <1>15, <1>16

\* The file that the task stores the zone in, in its cell k.
LEMMA OwnFileGivenAt ==
  ASSUME InodeInv, NEW z \in Zone, Points(z, 0), NEW i \in Ino, i \in imap, i \in imap',
         NEW k \in 0 .. 2, FileZones(i)' = [FileZones(i) EXCEPT ![k] = z],
         Cutters(i) = {}, Cutters(i)' = {},
         \A p \in Spots : Has(i, p) # z
  PROVE  /\ \A p \in Spots : Has(i, p)' \in {0, Has(i, p), z}
         /\ \A p, n \in Spots : Has(i, p)' = z /\ Has(i, n)' = z => p = n
<1>1. \A p \in Spots : Has(i, p) = Named(i, p) /\ Has(i, p)' = Named(i, p)'
  BY DEF Has
<1>2. PICK Z : Z = FileZones(i)
  OBVIOUS
<1>3. PICK Y : Y = FileZones(i)'
  OBVIOUS
<1>4. \A c \in 0 .. 2 : Y[c] = IF c = k THEN z ELSE Z[c]
  <2>1. Z \in [0 .. 2 -> Number]
    BY <1>2, ZonesAreNumbers
  <2> QED
    BY <1>2, <1>3, <2>1
<1>5. PICK a, b, c : a = Via(Z[1]) /\ b = Via(Z[2]) /\ c = Via(b)
  OBVIOUS
<1>6. /\ Named(i, 1) = Z[0] /\ Named(i, 2) = Z[1] /\ Named(i, 3) = a
      /\ Named(i, 4) = Z[2] /\ Named(i, 5) = b /\ Named(i, 6) = c
  BY <1>2, <1>5, NamedIs
<1>7. PICK d, e : d = Via(Y[1])' /\ e = Via(Y[2])'
  OBVIOUS
<1>8. PICK f : f = Via(e)'
  OBVIOUS
<1>9. /\ Named(i, 1)' = Y[0] /\ Named(i, 2)' = Y[1] /\ Named(i, 3)' = d
      /\ Named(i, 4)' = Y[2] /\ Named(i, 5)' = e /\ Named(i, 6)' = f
  <2>1. FileZones(i)' = Y
    BY <1>3
  <2>2. Via(Via(Y[2]))' = f
    BY <1>7, <1>8, PointsNext
  <2> QED
    BY <1>7, <2>1, <2>2, NamedThen
<1>10. \A p \in Spots : p = 1 \/ p = 2 \/ p = 3 \/ p = 4 \/ p = 5 \/ p = 6
  BY DEF Spots
<1>11. 1 \in Spots /\ 2 \in Spots /\ 3 \in Spots /\ 4 \in Spots /\ 5 \in Spots /\ 6 \in Spots
  BY DEF Spots
<1>12. /\ Z[0] # z /\ Z[1] # z /\ a # z /\ Z[2] # z /\ b # z /\ c # z /\ z # 0
  <2>1. \A p \in Spots : Named(i, p) # z
    BY <1>1
  <2>2. Named(i, 1) # z /\ Named(i, 2) # z /\ Named(i, 3) # z
        /\ Named(i, 4) # z /\ Named(i, 5) # z /\ Named(i, 6) # z
    BY <1>11, <2>1
  <2> QED
    BY <1>6, <2>2, ZeroIsNoZone
<1>13. d = IF k = 1 THEN 0 ELSE a
  BY <1>4, <1>5, <1>7, <1>12 DEF Points
<1>14. e = IF k = 2 THEN 0 ELSE b
  BY <1>4, <1>5, <1>7, <1>12 DEF Points
<1>15. f = IF k = 2 THEN 0 ELSE c
  BY <1>5, <1>8, <1>12, <1>14 DEF Points
<1>16. /\ Y[0] = IF k = 0 THEN z ELSE Z[0]
       /\ Y[1] = IF k = 1 THEN z ELSE Z[1]
       /\ Y[2] = IF k = 2 THEN z ELSE Z[2]
  BY <1>4
<1>17. \A p \in Spots : Has(i, p)' \in {0, Has(i, p), z}
  BY <1>1, <1>6, <1>9, <1>10, <1>13, <1>14, <1>15, <1>16
<1>18. \A p, n \in Spots : Has(i, p)' = z /\ Has(i, n)' = z => p = n
  <2>1. \A p \in Spots : Has(i, p)' = z =>
          (p = 1 /\ k = 0) \/ (p = 2 /\ k = 1) \/ (p = 4 /\ k = 2)
    BY <1>1, <1>9, <1>10, <1>12, <1>13, <1>14, <1>15, <1>16
  <2> QED
    BY <2>1
<1> QED
  BY <1>17, <1>18

\* What new_block brings.
LEMMA BroughtIs ==
  ASSUME InodeInv, ZInv, NEW t \in Task, r[t].pc = "new_block"
  PROVE  \E v \in Slot, i \in Ino, z \in Zone :
           /\ v = r[t].s /\ v = r[t].file /\ i = inode[v].ino /\ i \in imap
           /\ r[t].todo = <<<<z, 0>>>> /\ Brings(t, i, z)
           /\ ~Reading(v) /\ Cutters(i) = {}
<1>1. Sound(r[t]) /\ Fit(r[t], inode, super, entry)
  BY RegistersAre
<1>2. PICK v \in Slot : v = r[t].s /\ v = r[t].file
  BY <1>1, UsesInode DEF Mapping, Sound
<1>3. inode[v].ino # NoIno
  BY <1>1, <1>2 DEF Fit, Mapping
<1>4. PICK i \in Ino : i = inode[v].ino
  BY <1>3 DEF InodeInv, TypeInv, Entry
<1>5. i \in imap
  BY <1>3, <1>4 DEF InodeInv, SlotInv, SlotAt
<1>6. PICK z \in Zone : r[t].todo = <<<<z, 0>>>>
  BY DEF ZInv, HoldInv, Holds, Mapping
<1>7. ~Reading(v)
  <2>1. ASSUME NEW u \in Task, r[u].pc = "read_inode", r[u].s = v PROVE FALSE
    <3>1. Sound(r[u]) /\ r[u].empty = v
      BY <2>1, RegistersAre DEF Sound
    <3>2. u # t /\ r[u].empty # None
      BY <2>1, <3>1, InodeAssumption
    <3>3. ~Refers(r[t], v)
      BY <3>1, <3>2, EmptyIsOwn
    <3> QED
      BY <1>2, <3>3 DEF Refers
  <2> QED
    BY <2>1 DEF Reading
<1>8. Cutters(i) = {}
  <2>1. ASSUME NEW u \in Cutters(i) PROVE FALSE
    <3>1. u \in Task /\ r[u].pc = "truncate" /\ inode[r[u].s].ino = i
      BY DEF Cutters
    <3>2. r[u].s \in Slot
      BY <3>1, UsesInode
    <3>3. r[u].s = v
      BY <1>3, <1>4, <3>1, <3>2 DEF InodeInv, OneEntryPerInode
    <3>4. u # t
      BY <3>1
    <3> QED
      BY <1>2, <3>1, <3>3, <3>4 DEF ZInv, CutInv, Mapping
  <2> QED
    BY <2>1
<1>9. Hand(t, 1) = z /\ z # 0
  <2>1. DOMAIN r[t].todo = {1} /\ r[t].todo[1][1] = z
    BY <1>6
  <2> QED
    BY <2>1, ZeroIsNoZone DEF Hand
<1>10. Brings(t, i, z)
  <2>1. z \in zmap
    BY <1>9 DEF ZInv, ZoneInv
  <2>2. \A j \in Ino, p \in Spots : Has(j, p) # z
    BY <1>9 DEF ZInv, ZoneInv
  <2>3. \A u \in Task \ {t}, m \in Int : Hand(u, m) # z
    BY <1>9 DEF ZInv, ZoneInv
  <2>4. \A u \in Task : \A x : Safe(u, x) => x # z
    BY <1>9 DEF Safe
  <2> QED
    BY <1>2, <1>4, <1>9, <2>1, <2>2, <2>3, <2>4 DEF Brings
<1> QED
  BY <1>2, <1>4, <1>5, <1>6, <1>7, <1>8, <1>10

\* The file has z behind w, the zone that the pointer is in (0: the inode).
Behind(i, z, w) ==
  w # 0 /\ (\E p \in Spots : Has(i, p)' = z) => \E n \in Spots : Has(i, n) = w
StoresZone(t, q, z) ==
  /\ r[t].pc = "new_block" /\ r[t].s \in Slot /\ r[t].file = r[t].s
  /\ r' = [r EXCEPT ![t] = q] /\ q.pc \in {"_bmap", "data"} /\ q.hold = {z}
  /\ q.todo = << >> /\ q.k < 2 /\ q.s = r[t].s /\ q.file = r[t].s
EntriesStay(v) ==
  /\ inode[v].ino # NoIno
  /\ \A s \in Slot : /\ inode'[s].ino = inode[s].ino /\ inode'[s].links = inode[s].links
                     /\ inode'[s].count = inode[s].count
                     /\ s # v => inode'[s].zone = inode[s].zone

\* The step of new_block, with the pointer in the inode or in the zone w.
LEMMA StoredKeepsZones ==
  ASSUME InodeInv, InodeInv', ZInv, NEW t \in Task, NEW i, NEW z, Brings(t, i, z), Given(t, i, z),
         NEW w, Points(z, w), Behind(i, z, w), NEW q, StoresZone(t, q, z), EntriesStay(r[t].s)
  PROVE  ZInv'
<1> USE DEF Behind, StoresZone
<1>0. PICK v \in Slot :
        /\ v = r[t].s /\ v = r[t].file /\ inode[v].ino # NoIno
        /\ \A s \in Slot : /\ inode'[s].ino = inode[s].ino /\ inode'[s].links = inode[s].links
                           /\ inode'[s].count = inode[s].count
                           /\ s # v => inode'[s].zone = inode[s].zone
  BY DEF EntriesStay
<1>1. r'[t] = q /\ \A u \in Task \ {t} : r'[u] = r[u]
  BY DEF InodeInv, RegInv
<1>2. ZoneInv'
  BY GivenKeeps DEF ZInv
<1>3. ASSUME NEW u \in Task \ {t} PROVE Holds(u)'
  <2>1. Holds(u) /\ Sound(r[u]) /\ r'[u] = r[u]
    BY <1>1, RegistersAre DEF ZInv, HoldInv
  <2>2. CASE r[u].pc \in Mapping
    <3>1. r[u].file \in Slot
      BY <2>1, <2>2, UsesInode DEF Sound
    <3>2. Grips(u, r[u])
      BY <2>1, <2>2 DEF Holds
    <3>3. PICK p : p = r[u]
      OBVIOUS
    <3>4. Grips(u, p)'
      BY <1>0, <2>1, <3>1, <3>2, <3>3, GripsGiven
    <3> QED
      BY <2>1, <2>2, <3>3, <3>4 DEF Holds
  <2>3. CASE r[u].pc = "truncate"
    <3>1. r[u].s \in Slot /\ r[u].s # v
      BY <1>0, <2>3, UsesInode DEF ZInv, CutInv, Mapping
    <3>2. r[u].pc \notin Mapping
      BY <2>3 DEF Mapping
    <3> QED
      BY <1>0, <2>1, <2>3, <3>1, <3>2 DEF Holds
  <2>4. CASE r[u].pc \notin Mapping \cup {"truncate"}
    BY <2>1, <2>4 DEF Holds
  <2> QED
    BY <2>2, <2>3, <2>4
<1>4. Holds(t)'
  <2>1. Safe(t, z)'
    <3>1. r'[t].file = r[t].file /\ inode'[r[t].file].ino = inode[r[t].file].ino
          /\ i = inode[r[t].file].ino
      BY <1>0, <1>1 DEF Brings
    <3> QED
      BY <3>1, GivenIsSafe
  <2>2. Safe(t, Via(z))' /\ Safe(t, Via(Via(z)))'
    <3>1. PICK y : y = Via(z)'
      OBVIOUS
    <3>2. y = 0 /\ Via(Via(z))' = Via(y)' /\ Via(0)' = 0
      BY <3>1, PointsNext DEF Points
    <3> QED
      BY <3>1, <3>2 DEF Safe
  <2>3. Grips(t, q)'
    BY <2>1, <2>2 DEF Grips
  <2> QED
    BY <1>1, <2>3 DEF Holds, Mapping
<1>5. HoldInv'
  BY <1>3, <1>4 DEF HoldInv
<1>6. CutInv'
  <2>1. \A u \in Task \ {t} : r[u].s = q.s => r[u].pc # "truncate"
    BY DEF ZInv, CutInv, Mapping
  <2> QED
    BY <2>1, CutInvKept DEF ZInv
<1>7. TidyInv'
  <2> SUFFICES ASSUME NEW s \in Slot PROVE Tidy(s)'
    BY DEF TidyInv
  <2>1. Tidy(s)
    BY DEF ZInv, TidyInv
  <2>2. Reading(s)' <=> Reading(s)
    BY SameReading
  <2> QED
    BY <1>0, <2>1, <2>2 DEF Tidy
<1> QED
  BY <1>2, <1>5, <1>6, <1>7 DEF ZInv

\* new_block stores the zone in the inode or in the indirect zone it came from.
LEMMA Zones_new_block ==
  ASSUME InodeInv, InodeInv', ZInv, NEW t \in Task, new_block(t)
  PROVE  ZInv'
<1>1. r[t].pc = "new_block"
  BY DEF new_block, At
<1>2. PICK v \in Slot, i \in Ino, z \in Zone :
           /\ v = r[t].s /\ v = r[t].file /\ i = inode[v].ino /\ i \in imap
           /\ r[t].todo = <<<<z, 0>>>> /\ Brings(t, i, z)
           /\ ~Reading(v) /\ Cutters(i) = {}
  BY <1>1, BroughtIs
<1>3. Head(r[t].todo)[1] = z
  BY <1>2
<1>4. CASE HeldByOthers(t, z)
  <2>1. UNCHANGED <<inode, disk, imap, zmap, ind, r>>
    BY <1>3, <1>4 DEF new_block, Panic, fs
  <2> QED
    BY <2>1, ZonesUntouched
<1>5. CASE ~HeldByOthers(t, z)
  <2> DEFINE p == [r[t] EXCEPT !.todo = << >>]
  <2>1. /\ Follow(t, p, z) /\ UNCHANGED <<disk, imap, zmap>>
        /\ IF r[t].hold = {}
           THEN /\ inode' = [inode EXCEPT ![v] = [inode[v] EXCEPT !.zone[r[t].k] = z, !.dirt = TRUE]]
                /\ ind' = [ind EXCEPT ![z] = 0]
           ELSE /\ ind' = [ind EXCEPT ![z] = 0, ![Min(r[t].hold)] = z]
                /\ UNCHANGED inode
    BY <1>2, <1>3, <1>5 DEF new_block, Put
  <2>2. Sound(r[t]) /\ r[t] \in Shape(r[t].ret) /\ r[t].k \in 0 .. 2 /\ Grips(t, r[t])
    <3>1. Sound(r[t]) /\ r[t].k \in 0 .. 2
      BY <1>1, RegistersAre DEF Sound, Mapping
    <3>2. Grips(t, r[t])
      BY <1>1 DEF ZInv, HoldInv, Holds, Mapping
    <3> QED
      BY <3>1, <3>2 DEF Sound, Shaped
  <2>3. PICK q : /\ r' = [r EXCEPT ![t] = q] /\ q.pc \in {"_bmap", "data"} /\ q.hold = {z}
                 /\ q.todo = << >> /\ q.k < 2 /\ q.s = v /\ q.file = v
    <3>1. /\ p.k = r[t].k /\ p.s = v /\ p.file = v /\ p.todo = << >>
          /\ p = [p EXCEPT !.s = v] /\ DOMAIN p = DOMAIN r[t] /\ DOMAIN r[t] = DOMAIN Registers
      BY <1>2, <2>2 DEF Shape, Registers
    <3>2. CASE r[t].k = 0
      <4> DEFINE q == [p EXCEPT !.hold = {z}, !.pc = "data"]
      <4>1. /\ r' = [r EXCEPT ![t] = q]
        BY <2>1, <3>1, <3>2, ZeroIsNoZone DEF Follow, Set
      <4>2. /\ q.pc = "data" /\ q.hold = {z} /\ q.todo = << >> /\ q.k = 0 /\ q.s = v /\ q.file = v
        BY <1>2, <2>2, <3>2 DEF Shape
      <4> HIDE DEF q
      <4>3. q.k < 2
        BY <4>2
      <4> QED
        BY <4>1, <4>2, <4>3
    <3>3. CASE r[t].k # 0
      <4> DEFINE q == [p EXCEPT !.hold = {z}, !.pc = "_bmap", !.k = @ - 1]
      <4>1. /\ r' = [r EXCEPT ![t] = q]
        BY <2>1, <3>1, <3>3, ZeroIsNoZone DEF Follow, Set
      <4>2. /\ q.pc = "_bmap" /\ q.hold = {z} /\ q.todo = << >> /\ q.k = r[t].k - 1
            /\ q.s = v /\ q.file = v
        BY <1>2, <2>2, <3>3 DEF Shape
      <4> HIDE DEF q
      <4>3. q.k < 2
        BY <2>2, <4>2
      <4> QED
        BY <4>1, <4>2, <4>3
    <3> QED
      BY <3>2, <3>3
  <2> HIDE DEF p
  <2>4. r'[t] = q /\ \A u \in Task \ {t} : r'[u] = r[u]
    BY <2>3 DEF InodeInv, RegInv
  <2>5. /\ inode \in [Slot -> Entry] /\ ind \in [Zone -> Number] /\ ind' \in [Zone -> Number]
        /\ inode[v].ino # NoIno /\ z # 0
    BY <1>2, NoInoIsNone, ZeroIsNoZone DEF InodeInv, TypeInv
  <2>6. \A s : Reading(s)' <=> Reading(s)
    BY <1>1, <2>3, SameReading
  <2>7. /\ \A u \in Task \ {t}, m \in Int : Hand(u, m) # z
        /\ \A n \in Spots, j \in Ino : Has(j, n) # z
    BY <1>2 DEF Brings
  <2>8. \A m \in Int : Hand(t, m)' = 0
    BY <2>3, <2>4, HandIsEmpty
  <2>9. ASSUME NEW w, Points(z, w), w = 0 \/ Safe(t, w), NEW j \in Ino \ {i},
               \A s \in Slot : inode'[s].ino = inode[s].ino,
               FileZones(j)' = FileZones(j), NEW n \in Spots
        PROVE  Has(j, n)' = Has(j, n)
    <3>1. Cutters(j)' = Cutters(j) /\ \A u \in Cutters(j) : r'[u].k = r[u].k
      <4>1. \A u \in Task : r[u].pc = "truncate" => r[u].s \in Slot /\ u # t
        BY <1>1, UsesInode
      <4>2. \A u \in Task : r'[u].pc = "truncate" <=> r[u].pc = "truncate"
        BY <1>1, <2>3, <2>4
      <4>3. \A u \in Task : r[u].pc = "truncate" => r'[u] = r[u] /\ inode'[r'[u].s].ino = inode[r[u].s].ino
        BY <2>4, <2>9, <4>1
      <4> QED
        BY <4>2, <4>3 DEF Cutters
    <3>2. \A x \in Spots : Has(j, x) # z /\ (w # 0 => Has(j, x) # w)
      BY <1>2, <2>7, <2>9 DEF Safe
    <3>3. j \in imap' <=> j \in imap
      BY <2>1
    <3> QED
      BY <2>9, <3>1, <3>2, <3>3, FileGiven
  <2>10. Cutters(i)' = {} \/ ~\A s \in Slot : inode'[s].ino = inode[s].ino
    <3> SUFFICES ASSUME \A s \in Slot : inode'[s].ino = inode[s].ino, NEW u \in Task,
                        r'[u].pc = "truncate", inode'[r'[u].s].ino = i
                 PROVE  FALSE
      BY DEF Cutters
    <3>1. u # t /\ r'[u] = r[u]
      BY <2>3, <2>4
    <3>2. r[u].s \in Slot
      BY <3>1, UsesInode
    <3>3. u \in Cutters(i)
      BY <3>1, <3>2 DEF Cutters
    <3> QED
      BY <1>2, <3>3
  <2>11. CASE r[t].hold = {}
    <3> DEFINE k == r[t].k
    <3>1. /\ inode' = [inode EXCEPT ![v] = [inode[v] EXCEPT !.zone[k] = z, !.dirt = TRUE]]
          /\ ind' = [ind EXCEPT ![z] = 0]
      BY <2>1, <2>11
    <3>2. Points(z, 0)
      BY <2>5, <3>1, ZeroIsNoZone DEF Points, Via, Number
    <3>3. \A s \in Slot : /\ inode'[s].ino = inode[s].ino /\ inode'[s].links = inode[s].links
                          /\ inode'[s].count = inode[s].count
                          /\ s # v => inode'[s].zone = inode[s].zone
      BY <2>5, <3>1 DEF Entry
    <3>4. inode'[v].zone = [inode[v].zone EXCEPT ![k] = z]
      BY <2>5, <3>1 DEF Entry
    <3>5. FileZones(i) = inode[v].zone /\ FileZones(i)' = inode'[v].zone
      BY <1>2, <2>6, <3>3, ZonesAre, ZonesAreNext
    <3>6. /\ \A n \in Spots : Has(i, n)' \in {0, Has(i, n), z}
          /\ \A n, m \in Spots : Has(i, n)' = z /\ Has(i, m)' = z => n = m
      <4>1. FileZones(i)' = [FileZones(i) EXCEPT ![k] = z] /\ k \in 0 .. 2
        BY <2>2, <3>4, <3>5
      <4>2. i \in imap' /\ Cutters(i)' = {}
        BY <1>2, <2>1, <2>10, <3>3
      <4> HIDE DEF k
      <4> QED
        BY <1>2, <2>7, <3>2, <4>1, <4>2, OwnFileGivenAt
    <3>7. \A j \in Ino \ {i} : FileZones(j)' = FileZones(j)
      <4>1. OnlyEntry(v)
        BY <2>1, <2>6, <3>3 DEF OnlyEntry
      <4>2. \A j \in Ino \ {i} : inode[v].ino # j /\ inode'[v].ino # j
        BY <1>2, <3>3
      <4> QED
        BY <4>1, <4>2, OtherFilesStay
    <3>8. \A j \in Ino \ {i}, n \in Spots : Has(j, n)' = Has(j, n)
      BY <2>9, <3>2, <3>3, <3>7
    <3>9. \A u \in Task \ {t}, m \in Int : Hand(u, m)' = Hand(u, m)
      BY <2>4, <2>7, <3>2, HandsGiven
    <3>10. Given(t, i, z)
      BY <2>1, <2>8, <3>6, <3>8, <3>9 DEF Given
    <3>11. 0 # 0 /\ (\E n \in Spots : Has(i, n)' = z) => \E n \in Spots : Has(i, n) = 0
      OBVIOUS
    <3> HIDE DEF k
    <3>12. Brings(t, i, z) /\ EntriesStay(r[t].s)
      BY <1>2, <2>5, <3>3 DEF EntriesStay
    <3>13. StoresZone(t, q, z) /\ Behind(i, z, 0)
      BY <1>1, <1>2, <2>3, <3>11 DEF StoresZone, Behind
    <3> QED
      BY <3>2, <3>10, <3>12, <3>13, StoredKeepsZones
  <2>12. CASE r[t].hold # {}
    <3>1. PICK w : w = Min(r[t].hold)
      OBVIOUS
    <3>2. w \in r[t].hold /\ w \in Zone
      <4>1. r[t].hold \in SUBSET Nat /\ r[t].hold \subseteq Zone
        BY <2>2, InodeAssumption DEF Shape
      <4> QED
        BY <2>2, <2>12, <3>1, <4>1, HeldZoneIs DEF Grips
    <3>3. Safe(t, w) /\ w # z /\ w # 0
      BY <1>2, <2>2, <3>2, ZeroIsNoZone DEF Grips, Brings
    <3>4. ind' = [ind EXCEPT ![z] = 0, ![w] = z] /\ inode' = inode
      BY <2>1, <2>12, <3>1
    <3>5. Points(z, w)
      <4>1. Via(0)' = 0 /\ Via(0) = 0 /\ Via(z)' = 0 /\ Via(w)' = z
        BY <2>5, <3>2, <3>3, <3>4 DEF Via
      <4>2. \A x : x # z /\ x # w => Via(x)' = Via(x)
        <5> SUFFICES ASSUME NEW x, x # z, x # w PROVE Via(x)' = Via(x)
          OBVIOUS
        <5>1. PICK a : a = [ind EXCEPT ![z] = 0]
          OBVIOUS
        <5>2. a[x] = ind[x] /\ ind' = [a EXCEPT ![w] = z]
          BY <2>5, <3>4, <5>1
        <5>3. ind'[x] = a[x]
          BY <5>2
        <5>4. ind'[x] = ind[x]
          BY <5>2, <5>3
        <5> QED
          BY <5>4 DEF Via
      <4> QED
        BY <3>3, <4>1, <4>2 DEF Points
    <3>6. \A s \in Slot : inode'[s] = inode[s]
      BY <3>4
    <3>7. \A j \in Ino : FileZones(j)' = FileZones(j)
      <4>1. EntriesKeepZones
        BY <2>1, <2>6, <3>6 DEF EntriesKeepZones
      <4> QED
        BY <2>1, <4>1, FileZonesStay
    <3>8. /\ \A n \in Spots : Has(i, n)' \in {0, Has(i, n), z}
          /\ \A n, m \in Spots : Has(i, n)' = z /\ Has(i, m)' = z => n = m
          /\ (\E n \in Spots : Has(i, n)' = z) => \E n \in Spots : Has(i, n) = w
      <4>1. i \in imap' /\ Cutters(i)' = {}
        BY <1>2, <2>1, <2>10, <3>6
      <4>2. \A n, m \in Spots : Has(i, n) = Has(i, m) /\ Has(i, n) # 0 => n = m
        BY DEF ZInv, ZoneInv
      <4> QED
        BY <1>2, <2>7, <3>2, <3>5, <3>7, <4>1, <4>2, OwnFileGivenBehind
    <3>9. \A j \in Ino \ {i}, n \in Spots : Has(j, n)' = Has(j, n)
      BY <2>9, <3>3, <3>5, <3>6, <3>7
    <3>10. \A u \in Task \ {t}, m \in Int : Hand(u, m)' = Hand(u, m)
      <4>1. \A u \in Task, m \in Int : Hand(u, m) # w
        BY <3>3 DEF Safe
      <4> QED
        BY <2>4, <2>7, <3>5, <4>1, HandsGiven
    <3>11. Given(t, i, z)
      BY <2>1, <2>8, <3>8, <3>9, <3>10 DEF Given
    <3>12. \A s \in Slot : /\ inode'[s].ino = inode[s].ino /\ inode'[s].links = inode[s].links
                           /\ inode'[s].count = inode[s].count
                           /\ s # v => inode'[s].zone = inode[s].zone
      BY <3>6
    <3>13. w # 0 /\ (\E n \in Spots : Has(i, n)' = z) => \E n \in Spots : Has(i, n) = w
      BY <3>8
    <3>14. Brings(t, i, z) /\ EntriesStay(r[t].s)
      BY <1>2, <2>5, <3>12 DEF EntriesStay
    <3>15. StoresZone(t, q, z) /\ Behind(i, z, w)
      BY <1>1, <1>2, <2>3, <3>13 DEF StoresZone, Behind
    <3> QED
      BY <3>5, <3>11, <3>14, <3>15, StoredKeepsZones
  <2> QED
    BY <2>11, <2>12
<1> QED
  BY <1>4, <1>5

-----------------------------------------------------------------------------
(* Zones: truncate                                                         *)

\* The file at work, and who else may look at it.
CutFile(t, v, i) ==
  /\ v = r[t].s /\ i = inode[v].ino /\ i \in imap /\ ~Reading(v)
  /\ Cutters(i) = {t} /\ FileZones(i) = inode[v].zone
  /\ \A u \in Task \ {t} : r[u].pc \in Mapping => inode[r[u].file].ino # i
  /\ \A u \in Task \ {t} : r[u].pc \in Mapping \cup {"truncate"} => r[u].s \in Slot /\ r[u].s # v

\* The inode that a task truncates.
LEMMA CutFileIs ==
  ASSUME InodeInv, ZInv, NEW t \in Task, r[t].pc = "truncate"
  PROVE  \E v \in Slot, i \in Ino : CutFile(t, v, i)
<1>1. PICK v \in Slot : v = r[t].s
  BY CuttingIs
<1>2. inode[v].ino # NoIno /\ inode[v].ino \in Ino /\ Refers(r[t], v) /\ r[t].empty = None
  BY <1>1, CuttingIs
<1>3. PICK i \in Ino : i = inode[v].ino
  BY <1>2
<1>4. i \in imap
  BY <1>2, <1>3 DEF InodeInv, SlotInv, SlotAt
<1>5. ~Reading(v)
  <2>1. ASSUME NEW u \in Task, r[u].pc = "read_inode", r[u].s = v PROVE FALSE
    <3>1. Sound(r[u]) /\ r[u].empty = v
      BY <2>1, RegistersAre DEF Sound
    <3>2. u # t /\ r[u].empty # None
      BY <2>1, <3>1, InodeAssumption
    <3>3. ~Refers(r[t], v)
      BY <3>1, <3>2, EmptyIsOwn
    <3> QED
      BY <1>2, <3>3
  <2> QED
    BY <2>1 DEF Reading
<1>6. \A u \in Task \ {t} : r[u].pc \in Mapping \cup {"truncate"} => r[u].s \in Slot /\ r[u].s # v
  <2> SUFFICES ASSUME NEW u \in Task \ {t}, r[u].pc \in Mapping \cup {"truncate"}
               PROVE  r[u].s \in Slot /\ r[u].s # v
    OBVIOUS
  <2>1. r[u].s \in Slot
    BY UsesInode
  <2>2. r[u].s # r[t].s
    BY DEF ZInv, CutInv
  <2> QED
    BY <1>1, <2>1, <2>2
<1>7. \A u \in Task \ {t} : r[u].pc \in Mapping \cup {"truncate"} => inode[r[u].s].ino # i
  BY <1>2, <1>3, <1>6 DEF InodeInv, OneEntryPerInode
<1>8. Cutters(i) = {t}
  BY <1>1, <1>3, <1>7 DEF Cutters
<1>9. \A u \in Task \ {t} : r[u].pc \in Mapping => inode[r[u].file].ino # i
  <2> SUFFICES ASSUME NEW u \in Task \ {t}, r[u].pc \in Mapping
               PROVE  inode[r[u].file].ino # i
    OBVIOUS
  <2>1. r[u].s = r[u].file
    BY RegistersAre DEF Sound
  <2> QED
    BY <1>7, <2>1
<1>10. FileZones(i) = inode[v].zone
  BY <1>3, <1>5, ZonesAre
<1>11. CutFile(t, v, i)
  BY <1>1, <1>3, <1>4, <1>5, <1>6, <1>8, <1>9, <1>10 DEF CutFile
<1> QED
  BY <1>11

\* What truncate has in hand after the step it had before, or the file had it.
HandsMove(t) ==
  /\ \A m, n \in Int : Hand(t, m)' = Hand(t, n)' /\ Hand(t, m)' # 0 => m = n
  /\ \A m \in Int : Hand(t, m)' # 0 =>
       \/ \E n \in Int : Hand(t, m)' = Hand(t, n)
       \/ \E i \in Ino, p \in Spots :
            /\ Hand(t, m)' = Has(i, p) /\ Has(i, p)' = 0
            /\ \A u \in Task \ {t} : r[u].pc \in Mapping => inode[r[u].file].ino # i
\* It may have freed one zone.
FreesZone(t) ==
  zmap' = zmap \/ \E n \in Int : zmap' = zmap \ {Hand(t, n)} /\ \A m \in Int : Hand(t, m)' # Hand(t, n)

\* A step of truncate that moves zones from the file to the task, or frees one.
LEMMA CutKeepsZones ==
  ASSUME InodeInv, InodeInv', ZInv, NEW t \in Task, r[t].pc = "truncate",
         NEW q, r' = [r EXCEPT ![t] = q], q.k \in Int, q.pc \notin Mapping,
         q.pc = "truncate" => q.s = r[t].s,
         \A u \in Task \ {t} : Unchanged(u), ind' = ind,
         \A i \in Ino : ZonesShrink(i), \A i \in Ino : StillCuts(t, q, i),
         HandsMove(t), FreesZone(t), Holds(t)', TidyInv'
  PROVE  ZInv'
<1>0. r'[t] = q /\ \A u \in Task \ {t} : r'[u] = r[u]
  BY DEF InodeInv, RegInv
<1>1. \A i \in Ino, p \in Spots : Has(i, p)' \in {0, Has(i, p)}
  BY HasShrinks
<1>2. ZonesMove(t)
  <2>2. \A u \in Task \ {t}, m \in Int : Hand(u, m)' = Hand(u, m)
    BY <1>0, HandKept
  <2>3. \A z \in zmap : z \in zmap' \/ \E n \in Int :
          Hand(t, n) = z /\ \A m \in Int : Hand(t, m)' # z
    BY DEF FreesZone
  <2>4. ASSUME NEW m \in Int, Hand(t, m)' # 0
        PROVE  /\ Hand(t, m)' \in zmap'
               /\ \A i \in Ino, p \in Spots : Has(i, p)' # Hand(t, m)'
               /\ \/ \E n \in Int : Hand(t, m)' = Hand(t, n)
                  \/ \E i \in Ino, p \in Spots :
                       /\ Hand(t, m)' = Has(i, p)
                       /\ \A u \in Task \ {t} : r[u].pc \in Mapping => inode[r[u].file].ino # i
    <3>1. PICK z : z = Hand(t, m)'
      OBVIOUS
    <3>2. \/ \E n \in Int : z = Hand(t, n)
          \/ \E i \in Ino, p \in Spots :
               /\ z = Has(i, p) /\ Has(i, p)' = 0
               /\ \A u \in Task \ {t} : r[u].pc \in Mapping => inode[r[u].file].ino # i
      BY <2>4, <3>1 DEF HandsMove
    <3>3. z # 0
      BY <2>4, <3>1
    <3>4. z \in zmap
      BY <3>2, <3>3 DEF ZInv, ZoneInv
    <3>5. z \in zmap'
      BY <2>3, <3>1, <3>4
    <3>6. \A i \in Ino, p \in Spots : Has(i, p)' # z
      <4> SUFFICES ASSUME NEW i \in Ino, NEW p \in Spots, Has(i, p)' = z PROVE FALSE
        OBVIOUS
      <4>1. Has(i, p) = z
        BY <1>1, <3>3
      <4>2. CASE \E n \in Int : z = Hand(t, n)
        BY <3>3, <4>1, <4>2 DEF ZInv, ZoneInv
      <4>3. CASE \E j \in Ino, n \in Spots : z = Has(j, n) /\ Has(j, n)' = 0
        <5>1. PICK j \in Ino, n \in Spots : z = Has(j, n) /\ Has(j, n)' = 0
          BY <4>3
        <5>2. i = j /\ p = n
          BY <3>3, <4>1, <5>1 DEF ZInv, ZoneInv
        <5>3. Has(i, p)' = 0
          BY <5>1, <5>2
        <5> QED
          BY <3>3, <5>3
      <4> QED
        BY <3>2, <4>2, <4>3
    <3> QED
      BY <3>1, <3>2, <3>5, <3>6
  <2> QED
    BY <1>1, <2>2, <2>3, <2>4 DEF ZonesMove, HandsMove
<1>3. ZoneInv'
  BY <1>2, ZonesMoveKeeps, ZoneBitsAreZones DEF ZInv
<1>4. \A u \in Task \ {t} : Holds(u)'
  BY <1>2, HoldsKept DEF ZInv
<1>5. HoldInv'
  BY <1>4 DEF HoldInv
<1>6. q.pc = "truncate" => CutsAlone(t, q)
  BY DEF CutsAlone, ZInv, CutInv
<1>7. CutInv'
  BY <1>6, CutInvKept DEF ZInv
<1> QED
  BY <1>3, <1>5, <1>7 DEF ZInv

\* Truncate changes only the entry at work, and takes zones from it.
CutsTo(t, q) == r' = [r EXCEPT ![t] = q] /\ q.pc # "read_inode"
TrimsZones(v, new) ==
  /\ Trimmed(inode[v], new) /\ inode' = [inode EXCEPT ![v] = new]
  /\ \A k \in 0 .. 2 : new.zone[k] \in {0, inode[v].zone[k]}
  /\ UNCHANGED <<imap, ind, disk>>

\* It keeps what the other tasks and files have.
LEMMA TrimKeepsZones ==
  ASSUME InodeInv, InodeInv', ZInv, NEW t \in Task, r[t].pc = "truncate",
         NEW v \in Slot, NEW i \in Ino, CutFile(t, v, i),
         NEW q, CutsTo(t, q), NEW new, TrimsZones(v, new)
  PROVE  /\ \A u \in Task \ {t} : Unchanged(u)
         /\ \A j \in Ino : ZonesShrink(j)
         /\ TidyInv' /\ FileZones(i)' = new.zone /\ inode'[v].ino = i
<1>0. r' = [r EXCEPT ![t] = q] /\ q.pc # "read_inode"
  BY DEF CutsTo
<1>1. /\ inode \in [Slot -> Entry] /\ inode'[v] = new /\ \A s \in Slot \ {v} : inode'[s] = inode[s]
      /\ new.ino = inode[v].ino /\ new.links = inode[v].links /\ new.count = inode[v].count
      /\ inode[v].ino = i
  BY DEF InodeInv, TypeInv, TrimsZones, Trimmed, CutFile
<1>2. \A s : Reading(s)' <=> Reading(s)
  BY <1>0, SameReading
<1>3. \A u \in Task \ {t} : Unchanged(u)
  <2> SUFFICES ASSUME NEW u \in Task \ {t} PROVE Unchanged(u)
    OBVIOUS
  <2>1. r'[u] = r[u]
    BY <1>0 DEF InodeInv, RegInv
  <2>2. r[u].pc \in Mapping \cup {"truncate"} => inode'[r[u].s] = inode[r[u].s]
    BY <1>1 DEF CutFile
  <2> QED
    BY <2>1, <2>2 DEF Unchanged
<1>4. OnlyEntry(v)
  BY <1>1, <1>2 DEF OnlyEntry, TrimsZones
<1>5. FileZones(i)' = new.zone /\ FileZones(i) = inode[v].zone
  <2>1. ~Reading(v)'
    BY <1>2 DEF CutFile
  <2>2. FileZones(i)' = inode'[v].zone
    BY <1>1, <2>1, ZonesAreNext
  <2> QED
    BY <1>1, <2>2 DEF CutFile
<1>6. \A j \in Ino : ZonesShrink(j)
  <2> SUFFICES ASSUME NEW j \in Ino PROVE ZonesShrink(j)
    OBVIOUS
  <2>1. CASE j = i
    BY <1>5, <2>1 DEF ZonesShrink, TrimsZones
  <2>2. CASE j # i
    <3>1. FileZones(j)' = FileZones(j)
      BY <1>1, <1>4, <2>2, OtherFilesStay
    <3> QED
      BY <3>1 DEF ZonesShrink, TrimsZones
  <2> QED
    BY <2>1, <2>2
<1>7. TidyInv'
  <2> SUFFICES ASSUME NEW s \in Slot PROVE Tidy(s)'
    BY DEF TidyInv
  <2>1. Tidy(s) /\ i # NoIno
    BY NoInoIsNone DEF ZInv, TidyInv
  <2>2. CASE s = v
    BY <1>1, <1>2, <2>1, <2>2 DEF Tidy
  <2>3. CASE s # v
    BY <1>1, <1>2, <2>1, <2>3 DEF Tidy
  <2> QED
    BY <2>2, <2>3
<1> QED
  BY <1>1, <1>3, <1>5, <1>6, <1>7

\* The zones of a cell that truncate comes to.
LEMMA CellInHand ==
  ASSUME NEW t \in Task, NEW q, r'[t] = q, NEW k \in 0 .. 2, NEW i, NEW z, z = FileZones(i)[k],
         q.todo = <<<<z, k>>>>, ind' = ind, NEW m \in Int, Hand(t, m)' # 0
  PROVE  LET n == IF k = 0 THEN 1 ELSE IF k = 1 THEN 3 - m ELSE 5 - m
         IN n \in Spots /\ Cell(n) = k /\ Hand(t, m)' = Named(i, n) /\ (k = 0 => m = 1)
<1> DEFINE n == IF k = 0 THEN 1 ELSE IF k = 1 THEN 3 - m ELSE 5 - m
           todo == <<<<z, k>>>>
<1>1. DOMAIN todo = {1} /\ todo[1] = <<z, k>> /\ todo # << >>
  OBVIOUS
<1>2. todo[1][1] = z /\ todo[1][2] = k
  BY <1>1
<1>3. r'[t].todo = todo
  OBVIOUS
<1> HIDE DEF todo
<1>4. \A x : Via(x)' = Via(x)
  BY DEF Via
<1>5. Hand(t, m)' = IF m = 1 THEN z ELSE IF m = 0 /\ k > 0 THEN Via(z)
                    ELSE IF m = -1 /\ k > 1 THEN Via(Via(z)) ELSE 0
  BY <1>1, <1>2, <1>3 DEF Hand, Via
<1>6. \/ k = 0 /\ m = 1 /\ n = 1 /\ Hand(t, m)' = z
      \/ k = 1 /\ m = 1 /\ n = 2 /\ Hand(t, m)' = z
      \/ k = 1 /\ m = 0 /\ n = 3 /\ Hand(t, m)' = Via(z)
      \/ k = 2 /\ m = 1 /\ n = 4 /\ Hand(t, m)' = z
      \/ k = 2 /\ m = 0 /\ n = 5 /\ Hand(t, m)' = Via(z)
      \/ k = 2 /\ m = -1 /\ n = 6 /\ Hand(t, m)' = Via(Via(z))
  BY <1>5
<1>7. n \in Spots /\ Cell(n) = k /\ (k = 0 => m = 1)
  BY <1>6 DEF Spots, Cell
<1>8. Hand(t, m)' = Named(i, n)
  BY <1>6, NamedIs
<1> QED
  BY <1>7, <1>8

\* Truncate has read an indirect zone, or freed a zone and goes on.
LEMMA ShiftedHands ==
  ASSUME ZoneInv, NEW t \in Task, NEW d \in Int,
         \A m \in Int : Hand(t, m)' = 0 \/ Hand(t, m)' = Hand(t, m + d)
  PROVE  HandsMove(t)
<1>1. ASSUME NEW m \in Int, NEW n \in Int, Hand(t, m)' = Hand(t, n)', Hand(t, m)' # 0
      PROVE  m = n
  <2>1. PICK a \in Int, b \in Int : a = m + d /\ b = n + d
    OBVIOUS
  <2>2. Hand(t, a) = Hand(t, b) /\ Hand(t, a) # 0
    BY <1>1, <2>1
  <2>3. a = b
    BY <2>2 DEF ZoneInv
  <2> QED
    BY <2>1, <2>3
<1>2. ASSUME NEW m \in Int, Hand(t, m)' # 0 PROVE \E n \in Int : Hand(t, m)' = Hand(t, n)
  <2>1. m + d \in Int
    OBVIOUS
  <2> QED
    BY <1>2, <2>1
<1> QED
  BY <1>1, <1>2 DEF HandsMove

\* What is on the list of zones to free, with the first one replaced by one, by
\* two or by none.
PutOne(todo, f) == <<f>> \o Tail(todo)
PutTwo(todo, f, g) == <<g>> \o <<f>> \o Tail(todo)

\* Lists with the first zone replaced, or without it.
LEMMA ListIs ==
  ASSUME NEW P, NEW todo \in Seq(P), todo # << >>, NEW f \in P, NEW g \in P
  PROVE  LET a == PutOne(todo, f)
             b == PutTwo(todo, f, g)
             c == Tail(todo)
         IN /\ DOMAIN todo = 1 .. Len(todo) /\ Len(todo) \in Nat /\ Len(todo) >= 1
            /\ a # << >> /\ DOMAIN a = DOMAIN todo /\ a[1] = f
            /\ \A n \in DOMAIN todo : n > 1 => a[n] = todo[n]
            /\ b # << >> /\ DOMAIN b = 1 .. Len(todo) + 1 /\ b[1] = g /\ b[2] = f
            /\ \A n \in DOMAIN b : n > 2 => n - 1 \in DOMAIN todo /\ b[n] = todo[n - 1]
            /\ DOMAIN c = 1 .. Len(todo) - 1
            /\ \A n \in DOMAIN c : n + 1 \in DOMAIN todo /\ c[n] = todo[n + 1]
            /\ c = << >> => Len(todo) = 1
            /\ Head(todo) = todo[1]
<1> DEFINE c == Tail(todo)
           a == PutOne(todo, f)
           m == <<g>> \o <<f>>
           b == PutTwo(todo, f, g)
<1>1. /\ DOMAIN todo = 1 .. Len(todo) /\ Len(todo) \in Nat /\ Len(todo) >= 1
      /\ Head(todo) = todo[1]
  OBVIOUS
<1>2. /\ c \in Seq(P) /\ Len(c) = Len(todo) - 1 /\ \A n \in 1 .. Len(c) : c[n] = todo[n + 1]
  OBVIOUS
<1>3. m \in Seq(P) /\ Len(m) = 2 /\ m[1] = g /\ m[2] = f
  OBVIOUS
<1>a. a = <<f>> \o c /\ b = m \o c
  BY DEF PutOne, PutTwo
<1> HIDE DEF a, b, c, m
<1>4. a \in Seq(P) /\ Len(a) = Len(c) + 1 /\ a[1] = f /\ \A n \in 2 .. Len(a) : a[n] = c[n - 1]
  BY <1>2, <1>a
<1>5. b \in Seq(P) /\ Len(b) = Len(c) + 2 /\ b[1] = g /\ b[2] = f
      /\ \A n \in 3 .. Len(b) : b[n] = c[n - 2]
  <2>1. c \in Seq(P) /\ m \in Seq(P) /\ Len(m) = 2 /\ b = m \o c
    BY <1>2, <1>3, <1>a
  <2>a. b \in Seq(P) /\ Len(b) = Len(c) + 2 /\ Len(c) \in Nat
    <3>1. \A u, v \in Seq(P) : u \o v \in Seq(P) /\ Len(u \o v) = Len(u) + Len(v) /\ Len(v) \in Nat
      OBVIOUS
    <3>2. m \o c \in Seq(P) /\ Len(m \o c) = Len(m) + Len(c) /\ Len(c) \in Nat
      BY <2>1, <3>1
    <3> QED
      BY <2>1, <3>2
  <2>b. b[1] = m[1] /\ b[2] = m[2]
    <3>1. \A u, v \in Seq(P) : \A n \in 1 .. Len(u) : (u \o v)[n] = u[n]
      OBVIOUS
    <3>2. \A n \in 1 .. Len(m) : (m \o c)[n] = m[n]
      BY <2>1, <3>1
    <3>3. 1 \in 1 .. Len(m) /\ 2 \in 1 .. Len(m)
      BY <2>1
    <3>4. (m \o c)[1] = m[1] /\ (m \o c)[2] = m[2]
      BY <3>2, <3>3
    <3> QED
      BY <2>1, <3>4
  <2>2. b \in Seq(P) /\ Len(b) = Len(c) + 2 /\ b[1] = m[1] /\ b[2] = m[2]
    BY <2>1, <2>a, <2>b
  <2>3. \A n \in 3 .. Len(b) : b[n] = c[n - 2]
    <3>1. \A u, v \in Seq(P) : \A n \in Len(u) + 1 .. Len(u) + Len(v) : (u \o v)[n] = v[n - Len(u)]
      OBVIOUS
    <3>2. \A n \in Len(m) + 1 .. Len(m) + Len(c) : (m \o c)[n] = c[n - Len(m)]
      BY <2>1, <3>1
    <3> QED
      BY <2>1, <2>a, <3>2
  <2> QED
    BY <1>3, <2>2, <2>3
<1>6. /\ a # << >> /\ DOMAIN a = DOMAIN todo /\ \A n \in DOMAIN todo : n > 1 => a[n] = todo[n]
  <2>1. \A n \in 2 .. Len(todo) : n - 1 \in 1 .. Len(c) /\ (n - 1) + 1 = n
    BY <1>1, <1>2
  <2>2. \A n \in 2 .. Len(todo) : a[n] = todo[n]
    BY <1>1, <1>2, <1>4, <2>1
  <2> QED
    BY <1>1, <1>2, <1>4, <2>2
<1>7. /\ b # << >> /\ DOMAIN b = 1 .. Len(todo) + 1
      /\ \A n \in DOMAIN b : n > 2 => n - 1 \in DOMAIN todo /\ b[n] = todo[n - 1]
  <2>1. \A n \in 3 .. Len(b) : n - 2 \in 1 .. Len(c) /\ (n - 2) + 1 = n - 1 /\ n - 1 \in 1 .. Len(todo)
    BY <1>1, <1>2, <1>5
  <2>2. \A n \in 3 .. Len(b) : b[n] = todo[n - 1]
    BY <1>1, <1>2, <1>5, <2>1
  <2> QED
    BY <1>1, <1>2, <1>5, <2>1, <2>2
<1>8. /\ DOMAIN c = 1 .. Len(todo) - 1
      /\ \A n \in DOMAIN c : n + 1 \in DOMAIN todo /\ c[n] = todo[n + 1]
      /\ c = << >> => Len(todo) = 1
  BY <1>1, <1>2
<1> QED
  BY <1>1, <1>4, <1>5, <1>6, <1>7, <1>8 DEF a, b, c, m

\* What truncate has noted of the file at work.
LEMMA CutHolds ==
  ASSUME InodeInv, ZInv, NEW t \in Task, r[t].pc = "truncate"
  PROVE  /\ r[t].todo = << >> <=> r[t].k = 0
         /\ r[t].k > 1 => inode[r[t].s].zone[0] = 0
         /\ \A n \in DOMAIN r[t].todo : n > 1 => r[t].todo[n][2] = 0
         /\ \A v \in r[t].hold : \E n \in DOMAIN r[t].todo : v = r[t].todo[n][1]
         /\ r[t].todo \in Seq(Zone \X (0 .. 2)) /\ r[t].k \in 0 .. 3
<1>1. r[t].pc \notin Mapping /\ Holds(t)
  BY DEF Mapping, ZInv, HoldInv
<1>2. r[t] \in Shape(r[t].ret)
  BY CuttingIs
<1> QED
  BY <1>1, <1>2 DEF Holds, Shape

\* The registers of truncate when it goes on with a list.
LEMMA CutHoldsNext ==
  ASSUME NEW t \in Task, NEW q, r'[t] = q, q.pc = "truncate",
         q.todo # << >> /\ q.k # 0,
         q.k > 1 => inode'[q.s].zone[0] = 0,
         \A n \in DOMAIN q.todo : n > 1 => q.todo[n][2] = 0,
         \A v \in q.hold : \E n \in DOMAIN q.todo : v = q.todo[n][1]
  PROVE  Holds(t)'
<1>1. q.pc \notin Mapping
  BY DEF Mapping
<1> QED
  BY <1>1 DEF Holds

\* What is in hand after a step, from the list.
LEMMA HandNext ==
  ASSUME NEW t \in Task, NEW todo, r'[t].todo = todo, ind' = ind, NEW m \in Int
  PROVE  Hand(t, m)' = IF m \in DOMAIN todo THEN todo[m][1]
                       ELSE IF todo # << >> /\ m = 0 /\ todo[1][2] > 0 THEN Via(todo[1][1])
                       ELSE IF todo # << >> /\ m = -1 /\ todo[1][2] > 1 THEN Via(Via(todo[1][1]))
                       ELSE 0
  BY DEF Hand, Via

\* It has read an indirect zone.
HasRead(t, z, deep, q) ==
  /\ z \in Zone /\ deep \in 1 .. 2
  /\ r[t].todo # << >> /\ Head(r[t].todo) = <<z, deep>> /\ r'[t] = q
  /\ \E read \in BOOLEAN :
       q.todo = Below(z, deep, read) \o <<<<z, 0>>>> \o Tail(r[t].todo)

\* Only the first zone of a list has pointers; the zone w is on a list.
Shallow(todo) == \A n \in DOMAIN todo : n > 1 => todo[n][2] = 0
Listed(w, todo) == \E n \in DOMAIN todo : w = todo[n][1]

\* The pointers of the zone come before it on the list: the task has the zones
\* that it had, or has lost those below.
LEMMA ReadHands ==
  ASSUME InodeInv, ZInv, NEW t \in Task, r[t].pc = "truncate", ind' = ind,
         NEW z, NEW deep, NEW q, HasRead(t, z, deep, q)
  PROVE  /\ HandsMove(t) /\ q.todo # << >> /\ Shallow(q.todo)
         /\ \A w : w = z \/ Listed(w, r[t].todo) => Listed(w, q.todo)
<1> USE DEF HasRead, Shallow, Listed
<1> DEFINE P == Zone \X (0 .. 2)
           todo == r[t].todo
           f == <<z, 0>>
           g == IF ind[z] = 0 THEN f ELSE <<ind[z], deep - 1>>
           a == PutOne(todo, f)
           b == PutTwo(todo, f, g)
<1>1. f \in P /\ g \in P /\ todo \in Seq(P) /\ ind[z] \in Number /\ todo # << >>
  BY CutHolds DEF Number, InodeInv, TypeInv
<1>2. f[1] = z /\ f[2] = 0 /\ (ind[z] # 0 => g[1] = ind[z] /\ g[2] = deep - 1)
  OBVIOUS
<1>3. \A n \in DOMAIN todo : n > 1 => todo[n][2] = 0
  BY CutHolds
<1>4. q.todo = a \/ (ind[z] # 0 /\ q.todo = b)
  <2>1. << >> \o <<f>> = <<f>>
    OBVIOUS
  <2> QED
    BY <2>1 DEF PutOne, PutTwo, Below
<1> HIDE DEF P, f, g
<1>5. /\ DOMAIN todo = 1 .. Len(todo) /\ Len(todo) \in Nat /\ Len(todo) >= 1
      /\ a # << >> /\ DOMAIN a = DOMAIN todo /\ a[1] = f
      /\ \A n \in DOMAIN todo : n > 1 => a[n] = todo[n]
      /\ b # << >> /\ DOMAIN b = 1 .. Len(todo) + 1 /\ b[1] = g /\ b[2] = f
      /\ \A n \in DOMAIN b : n > 2 => n - 1 \in DOMAIN todo /\ b[n] = todo[n - 1]
      /\ Head(todo) = todo[1]
  BY <1>1, ListIs
<1>6. todo[1][1] = z /\ todo[1][2] = deep
  BY <1>5
<1>7. Via(z) = ind[z] /\ Via(0) = 0 /\ \A x : Via(x)' = Via(x)
  BY ZeroIsNoZone DEF Via
<1>8. \A m \in Int : Hand(t, m) = IF m \in DOMAIN todo THEN todo[m][1]
                                  ELSE IF m = 0 THEN Via(z)
                                  ELSE IF m = -1 /\ deep > 1 THEN Via(Via(z)) ELSE 0
  BY <1>6 DEF Hand
<1> HIDE DEF todo, a, b
<1>9. CASE q.todo = a
  <2>0. PICK d \in Int : d = 0
    OBVIOUS
  <2>1. ASSUME NEW m \in Int PROVE Hand(t, m)' = 0 \/ Hand(t, m)' = Hand(t, m + d)
    <3>1. r'[t].todo = a /\ a[1][2] = 0
      BY <1>2, <1>4, <1>5, <1>9
    <3>2. Hand(t, m)' = IF m \in DOMAIN a THEN a[m][1] ELSE 0
      BY <3>1, HandNext
    <3>3. m \in DOMAIN a => a[m][1] = Hand(t, m)
      BY <1>2, <1>5, <1>6, <1>8
    <3>4. m + d = m
      BY <2>0
    <3> QED
      BY <3>2, <3>3, <3>4
  <2>2. HandsMove(t)
    BY <2>1, ShiftedHands DEF ZInv
  <2>3. \A w : (w = z \/ \E n \in DOMAIN todo : w = todo[n][1]) => \E n \in DOMAIN a : w = a[n][1]
    <3>1. \A n \in DOMAIN todo : todo[n][1] = a[n][1]
      BY <1>2, <1>5, <1>6
    <3> QED
      BY <1>5, <1>6, <3>1
  <2>4. \A n \in DOMAIN a : n > 1 => a[n][2] = 0
    BY <1>3, <1>5 DEF todo
  <2>5. q.todo = a /\ a # << >>
    BY <1>4, <1>5, <1>9
  <2> QED
    BY <2>2, <2>3, <2>4, <2>5 DEF todo
<1>10. CASE ind[z] # 0 /\ q.todo = b
  <2>0. PICK d \in Int : d = -1
    OBVIOUS
  <2>1. ASSUME NEW m \in Int PROVE Hand(t, m)' = 0 \/ Hand(t, m)' = Hand(t, m + d)
    <3>1. r'[t].todo = b /\ b[1][2] = deep - 1 /\ b[1][1] = Via(z) /\ b # << >>
      BY <1>2, <1>4, <1>5, <1>7, <1>10, Zenon
    <3>2. Hand(t, m)' = IF m \in DOMAIN b THEN b[m][1]
                        ELSE IF m = 0 /\ deep > 1 THEN Via(Via(z)) ELSE 0
      BY <3>1, HandNext
    <3>3. PICK n \in Int : n = m + d /\ n = m - 1
      BY <2>0
    <3>4. CASE m \in DOMAIN b
      <4>1. CASE m = 1
        <5>1. n = 0 /\ n \notin DOMAIN todo
          BY <1>5, <3>3, <4>1
        <5> QED
          BY <1>8, <3>1, <3>2, <3>3, <3>4, <4>1, <5>1
      <4>2. CASE m = 2
        <5>1. n = 1 /\ n \in DOMAIN todo /\ b[2][1] = z
          BY <1>2, <1>5, <3>3, <4>2
        <5> QED
          BY <1>6, <1>8, <3>2, <3>3, <3>4, <4>2, <5>1
      <4>3. CASE m > 2
        <5>1. n \in DOMAIN todo /\ b[m] = todo[n]
          BY <1>5, <3>3, <3>4, <4>3
        <5> QED
          BY <1>8, <3>2, <3>3, <3>4, <5>1
      <4> QED
        BY <1>5, <3>4, <4>1, <4>2, <4>3
    <3>5. CASE m \notin DOMAIN b
      <4>1. m = 0 => n = -1 /\ n \notin DOMAIN todo
        BY <1>5, <3>3
      <4> QED
        BY <1>8, <3>2, <3>3, <3>5, <4>1
    <3> QED
      BY <3>4, <3>5
  <2>2. HandsMove(t)
    BY <2>1, ShiftedHands DEF ZInv
  <2>3. \A w : (w = z \/ \E n \in DOMAIN todo : w = todo[n][1]) => \E n \in DOMAIN b : w = b[n][1]
    <3>1. 2 \in DOMAIN b /\ b[2][1] = z /\ todo[1][1] = z
      BY <1>2, <1>5, <1>6
    <3>2. ASSUME NEW n \in DOMAIN todo PROVE \E x \in DOMAIN b : todo[n][1] = b[x][1]
      <4>1. CASE n = 1
        BY <3>1, <4>1
      <4>2. CASE n # 1
        <5>1. n + 1 \in DOMAIN b /\ n + 1 > 2 /\ (n + 1) - 1 = n
          BY <1>5, <4>2
        <5>2. b[n + 1] = todo[n]
          BY <1>5, <5>1
        <5> QED
          BY <5>1, <5>2
      <4> QED
        BY <4>1, <4>2
    <3> QED
      BY <3>1, <3>2
  <2>4. \A n \in DOMAIN b : n > 1 => b[n][2] = 0
    <3> SUFFICES ASSUME NEW n \in DOMAIN b, n > 1 PROVE b[n][2] = 0
      OBVIOUS
    <3>1. CASE n = 2
      BY <1>2, <1>5, <3>1
    <3>2. CASE n # 2
      <4>1. n > 2 /\ n - 1 \in DOMAIN todo /\ n - 1 > 1 /\ b[n] = todo[n - 1]
        BY <1>5, <3>2
      <4> QED
        BY <1>3, <4>1 DEF todo
    <3> QED
      BY <3>1, <3>2
  <2>5. q.todo = b /\ b # << >>
    BY <1>4, <1>5, <1>10, Zenon
  <2> QED
    BY <2>2, <2>3, <2>4, <2>5 DEF todo
<1> QED
  BY <1>4, <1>9, <1>10

\* It frees a zone.
Passed(t, z, q) ==
  /\ r[t].todo # << >> /\ Head(r[t].todo) = <<z, 0>> /\ r'[t] = q
  /\ q.todo = Tail(r[t].todo)

\* The zone that is freed is no longer on the list, and the others are.
LEMMA FreedHands ==
  ASSUME InodeInv, ZInv, NEW t \in Task, r[t].pc = "truncate", ind' = ind,
         NEW z \in Zone, NEW q, Passed(t, z, q)
  PROVE  /\ HandsMove(t) /\ Hand(t, 1) = z /\ \A m \in Int : Hand(t, m)' # z
         /\ \A n \in DOMAIN q.todo : n > 1 => q.todo[n][2] = 0
         /\ \A w : w # z /\ (\E n \in DOMAIN r[t].todo : w = r[t].todo[n][1])
                     => \E n \in DOMAIN q.todo : w = q.todo[n][1]
<1> USE DEF Passed
<1> DEFINE P == Zone \X (0 .. 2)
           todo == r[t].todo
           c == Tail(todo)
           f == <<z, 0>>
<1>1. f \in P /\ todo \in Seq(P) /\ todo # << >>
  BY CutHolds
<1>2. \A n \in DOMAIN todo : n > 1 => todo[n][2] = 0
  BY CutHolds
<1> HIDE DEF P
<1>3. /\ DOMAIN todo = 1 .. Len(todo) /\ Len(todo) \in Nat /\ Len(todo) >= 1
      /\ DOMAIN c = 1 .. Len(todo) - 1
      /\ \A n \in DOMAIN c : n + 1 \in DOMAIN todo /\ c[n] = todo[n + 1]
      /\ Head(todo) = todo[1]
  BY <1>1, ListIs
<1>4. todo[1][1] = z /\ todo[1][2] = 0
  BY <1>3
<1>5. Hand(t, 1) = z /\ z # 0
  BY <1>3, <1>4, ZeroIsNoZone DEF Hand
<1>6. r'[t].todo = c
  OBVIOUS
<1> HIDE DEF todo, c
<1>7. ASSUME NEW m \in Int
      PROVE  Hand(t, m)' = IF m \in DOMAIN c THEN c[m][1] ELSE 0
  <2>1. c # << >> => 1 \in DOMAIN c
    <3>1. c = Tail(r[t].todo) /\ r[t].todo \in Seq(P) /\ r[t].todo # << >>
      BY <1>1 DEF c, todo
    <3>2. c \in Seq(P)
      BY <3>1
    <3> QED
      BY <3>2
  <2>2. c # << >> => c[1][2] = 0
    BY <1>2, <1>3, <2>1
  <2> QED
    BY <1>6, <2>2, HandNext
<1>8. ASSUME NEW m \in DOMAIN c PROVE m \in Int /\ c[m][1] = Hand(t, m + 1)
  <2>1. m \in Int /\ m + 1 \in DOMAIN todo /\ c[m] = todo[m + 1]
    BY <1>3
  <2> QED
    BY <2>1 DEF Hand, todo
<1>9. PICK d \in Int : d = 1
  OBVIOUS
<1>10. ASSUME NEW m \in Int PROVE Hand(t, m)' = 0 \/ Hand(t, m)' = Hand(t, m + d)
  BY <1>7, <1>8, <1>9
<1>11. HandsMove(t)
  BY <1>10, ShiftedHands DEF ZInv
<1>12. ASSUME NEW m \in Int, Hand(t, m)' = z PROVE FALSE
  <2>1. m \in DOMAIN c /\ c[m][1] = z
    BY <1>5, <1>7, <1>12
  <2>2. m + 1 \in Int /\ Hand(t, m + 1) = Hand(t, 1) /\ Hand(t, 1) # 0
    BY <1>5, <1>8, <2>1
  <2>3. m + 1 = 1
    <3>1. PICK n \in Int : n = m + 1
      OBVIOUS
    <3>2. n = 1
      BY <2>2, <3>1 DEF ZInv, ZoneInv
    <3> QED
      BY <3>1, <3>2
  <2> QED
    BY <1>3, <2>1, <2>3
<1>13. \A n \in DOMAIN c : n > 1 => c[n][2] = 0
  BY <1>2, <1>3
<1>14. ASSUME NEW n \in DOMAIN todo, todo[n][1] # z
       PROVE  \E m \in DOMAIN c : todo[n][1] = c[m][1]
  <2>1. n # 1
    BY <1>4, <1>14
  <2>2. n - 1 \in DOMAIN c /\ (n - 1) + 1 = n
    BY <1>3, <2>1
  <2>3. c[n - 1] = todo[n]
    BY <1>3, <2>2
  <2> QED
    BY <2>2, <2>3
<1> QED
  BY <1>5, <1>11, <1>12, <1>13, <1>14 DEF todo, c

\* It takes the zones of the next cell.
LEMMA TakenHands ==
  ASSUME InodeInv, ZInv, NEW t \in Task, r[t].pc = "truncate",
         NEW v \in Slot, NEW i \in Ino, CutFile(t, v, i),
         NEW k \in 0 .. 2, r[t].k <= k, NEW z, z = FileZones(i)[k],
         NEW q, r'[t] = q, ind' = ind, q.todo = <<<<z, k>>>>, q.k = k + 1, q.pc = "truncate",
         inode'[q.s].ino = i
  PROVE  /\ HandsMove(t)
         /\ \A m, n \in Int : Hand(t, n) # 0 => Hand(t, m)' # Hand(t, n)
<1> DEFINE at(m) == IF k = 0 THEN 1 ELSE IF k = 1 THEN 3 - m ELSE 5 - m
<1>1. ASSUME NEW m \in Int, Hand(t, m)' # 0
      PROVE  /\ at(m) \in Spots /\ Hand(t, m)' = Has(i, at(m)) /\ Has(i, at(m))' = 0
             /\ k = 0 => m = 1
  <2>1. at(m) \in Spots /\ Cell(at(m)) = k /\ Hand(t, m)' = Named(i, at(m)) /\ (k = 0 => m = 1)
    BY <1>1, CellInHand
  <2>2. PICK n \in Spots : n = at(m)
    BY <2>1
  <2> HIDE DEF at
  <2>3. Has(i, n) = Named(i, n)
    BY <2>1, <2>2 DEF Has, CutFile
  <2>4. t \in Cutters(i)'
    BY DEF Cutters
  <2>5. ~(r'[t].k <= Cell(n))
    BY <2>1, <2>2
  <2>6. Has(i, n)' = 0
    BY <2>4, <2>5 DEF Has, Cell
  <2> QED
    BY <2>1, <2>2, <2>3, <2>6
<1>2. ASSUME NEW m \in Int, NEW n \in Int, Hand(t, m)' = Hand(t, n)', Hand(t, m)' # 0
      PROVE  m = n
  <2>1. PICK a \in Spots, b \in Spots : a = at(m) /\ b = at(n)
    BY <1>1, <1>2
  <2>2. Has(i, a) = Has(i, b) /\ Has(i, a) # 0 /\ (k = 0 => m = 1 /\ n = 1)
    BY <1>1, <1>2, <2>1
  <2>3. a = b
    BY <2>2 DEF ZInv, ZoneInv
  <2> QED
    BY <2>1, <2>2, <2>3
<1> HIDE DEF at
<1>3. ASSUME NEW m \in Int, Hand(t, m)' # 0
      PROVE  \E j \in Ino, p \in Spots :
               /\ Hand(t, m)' = Has(j, p) /\ Has(j, p)' = 0
               /\ \A u \in Task \ {t} : r[u].pc \in Mapping => inode[r[u].file].ino # j
  <2>1. PICK p \in Spots : Hand(t, m)' = Has(i, p) /\ Has(i, p)' = 0
    BY <1>1, <1>3
  <2> QED
    BY <2>1 DEF CutFile
<1>4. HandsMove(t)
  BY <1>2, <1>3 DEF HandsMove
<1>5. ASSUME NEW m \in Int, NEW n \in Int, Hand(t, n) # 0, Hand(t, m)' = Hand(t, n)
      PROVE  FALSE
  <2>1. PICK p \in Spots : Hand(t, m)' = Has(i, p)
    BY <1>1, <1>5
  <2>2. Has(i, p) = Hand(t, n) /\ Has(i, p) # 0
    BY <1>5, <2>1
  <2> QED
    BY <2>2 DEF ZInv, ZoneInv
<1> QED
  BY <1>4, <1>5

\* The zone that it has freed before it goes on.
HasFreed(t) ==
  zmap' = zmap \/ \E n \in Int : zmap' = zmap \ {Hand(t, n)} /\ Hand(t, n) # 0

\* The end of truncate, with the registers q and the entry new.
LEMMA CutEndsZones ==
  ASSUME InodeInv, InodeInv', ZInv, NEW t \in Task, r[t].pc = "truncate",
         NEW v \in Slot, NEW i \in Ino, CutFile(t, v, i),
         NEW q, r' = [r EXCEPT ![t] = q], Plain(q), q.pc \in {"user", "put_super"},
         ind' = ind, HasFreed(t),
         \A u \in Task \ {t} : Unchanged(u), \A j \in Ino : ZonesShrink(j), TidyInv',
         i \in imap' => \A k \in 0 .. 2 : FileZones(i)'[k] = 0
  PROVE  ZInv'
<1>1. r'[t] = q /\ q.k \in Int /\ q.pc \notin Mapping /\ q.pc # "truncate"
  BY DEF InodeInv, RegInv, Plain, Mapping
<1>2. \A m \in Int : Hand(t, m)' = 0
  BY <1>1, HandIsEmpty DEF Plain
<1>3. HandsMove(t) /\ FreesZone(t)
  BY <1>2 DEF HandsMove, FreesZone, HasFreed
<1>4. Holds(t)'
  BY <1>1 DEF Holds, Plain
<1>5. \A j \in Ino : StillCuts(t, q, j)
  BY DEF StillCuts, CutFile
<1> QED
  BY <1>1, <1>3, <1>4, <1>5, CutKeepsZones

\* The inode is given back to the bitmap.
LEMMA FreedKeepsZones ==
  ASSUME InodeInv, InodeInv', ZInv, NEW t \in Task, r[t].pc = "truncate",
         NEW v \in Slot, NEW i \in Ino, CutFile(t, v, i),
         NEW q, r' = [r EXCEPT ![t] = q], q.pc # "read_inode",
         inode' = [inode EXCEPT ![v] = Zeroed], imap' = imap \ {i}, UNCHANGED <<disk, ind>>
  PROVE  /\ \A u \in Task \ {t} : Unchanged(u)
         /\ \A j \in Ino : ZonesShrink(j)
         /\ TidyInv'
<1>1. /\ inode'[v] = Zeroed /\ \A s \in Slot \ {v} : inode'[s] = inode[s]
      /\ inode[v].ino = i /\ Zeroed.ino = NoIno /\ Zeroed.zone = NoZones
  BY DEF InodeInv, TypeInv, CutFile, Zeroed
<1>2. \A s : Reading(s)' <=> Reading(s)
  BY SameReading
<1>3. \A u \in Task \ {t} : Unchanged(u)
  <2> SUFFICES ASSUME NEW u \in Task \ {t} PROVE Unchanged(u)
    OBVIOUS
  <2>1. r'[u] = r[u]
    BY DEF InodeInv, RegInv
  <2>2. r[u].pc \in Mapping \cup {"truncate"} => inode'[r[u].s] = inode[r[u].s]
    BY <1>1 DEF CutFile
  <2> QED
    BY <2>1, <2>2 DEF Unchanged
<1>4. OnlyEntry(v)
  BY <1>1, <1>2 DEF OnlyEntry
<1>5. \A j \in Ino : ZonesShrink(j)
  <2> SUFFICES ASSUME NEW j \in Ino, j # i PROVE ZonesShrink(j)
    BY DEF ZonesShrink
  <2>1. FileZones(j)' = FileZones(j)
    BY <1>1, <1>4, NoInoIsNone, OtherFilesStay
  <2> QED
    BY <2>1 DEF ZonesShrink
<1>6. TidyInv'
  <2> SUFFICES ASSUME NEW s \in Slot PROVE Tidy(s)'
    BY DEF TidyInv
  <2>1. Tidy(s)
    BY DEF ZInv, TidyInv
  <2>2. CASE s = v
    BY <1>1, <2>2 DEF Tidy
  <2>3. CASE s # v
    BY <1>1, <1>2, <2>1, <2>3 DEF Tidy
  <2> QED
    BY <2>2, <2>3
<1> QED
  BY <1>3, <1>5, <1>6

LEMMA TruncatedZones ==
  ASSUME NEW i \in Entry
  PROVE  /\ Truncated(i).zone[0] = i.zone[0] /\ Truncated(i).zone[1] = 0
         /\ Truncated(i).zone[2] = 0
<1> DEFINE z == [[i.zone EXCEPT ![1] = 0] EXCEPT ![2] = 0]
<1>1. i.zone \in [0 .. 2 -> Number]
  BY DEF Entry
<1>2. z[0] = i.zone[0] /\ z[1] = 0 /\ z[2] = 0
  BY <1>1
<1>3. Truncated(i) = [[i EXCEPT !.zone = z] EXCEPT !.dirt = TRUE]
  BY DEF Truncated, Entry
<1> HIDE DEF z
<1>4. Truncated(i).zone = z
  BY <1>3 DEF Entry
<1> QED
  BY <1>2, <1>4

\* The entry that the loop goes on with.
KeepsCells(t, v, new) ==
  /\ Trimmed(inode[v], new)
  /\ \A k \in 0 .. 2 : new.zone[k] \in {0, inode[v].zone[k]}
  /\ \A k \in r[t].k .. 2 : new.zone[k] = inode[v].zone[k]
  /\ r[t].k > 0 => new.zone[0] = 0

\* truncate comes to the next cell of the inode and takes its zones, or it ends
\* with no zone left.
LEMMA AdvanceKeepsZones ==
  ASSUME InodeInv, InodeInv', ZInv, NEW t \in Task, r[t].pc = "truncate",
         NEW v \in Slot, NEW i \in Ino, CutFile(t, v, i),
         NEW p, StillCutting(t, p), p.k = r[t].k, p.hold = {}, p.todo = << >>,
         NEW new, KeepsCells(t, v, new), HasFreed(t), UNCHANGED <<disk, ind>>,
         Advance(t, p, [inode EXCEPT ![v] = new])
  PROVE  ZInv'
<1> DEFINE tab == [inode EXCEPT ![v] = new]
           cells == {j \in p.k .. 2 : tab[p.s].zone[j] # 0}
           k == Min(cells)
           back == Return(p)
           done == [tab EXCEPT ![p.s] = Truncated(@)]
<1>1. /\ inode \in [Slot -> Entry] /\ new \in Entry /\ inode[v] \in Entry
      /\ p.s = v /\ tab[v] = new /\ p.k \in 0 .. 3 /\ p \in Shape(r[t].ret) /\ p.ret = r[t].ret
  BY DEF InodeInv, TypeInv, KeepsCells, Trimmed, StillCutting, Shape, CutFile
<1>2. \/ cells # {} /\ inode' = tab /\ UNCHANGED imap
         /\ Set(t, [p EXCEPT !.k = k + 1, !.todo = <<<<tab[p.s].zone[k], k>>>>])
      \/ cells = {} /\ back.pc = "free_inode" /\ FreeInode(t, back, done)
      \/ cells = {} /\ back.pc # "free_inode" /\ inode' = done /\ Set(t, back) /\ UNCHANGED imap
  BY DEF Advance
<1>3. CASE cells # {}
  <2> DEFINE z == new.zone[k]
             q == [p EXCEPT !.k = k + 1, !.todo = <<<<z, k>>>>]
  <2>1. k \in cells /\ \A y \in cells : k <= y
    <3>1. cells \in SUBSET Nat
      BY <1>1
    <3> HIDE DEF cells
    <3> QED
      BY <1>3, <3>1, MinIsLeast
  <2>2. k \in 0 .. 2 /\ p.k <= k /\ z # 0
    <3>1. k \in p.k .. 2 /\ tab[p.s].zone[k] # 0
      BY <2>1
    <3> HIDE DEF k, tab, cells
    <3> QED
      BY <1>1, <3>1
  <2>3. k > 0 => new.zone[0] = 0
    <3>1. CASE p.k = 0
      <4>1. k > 0 => 0 \notin cells
        <5> HIDE DEF k, cells
        <5> QED
          BY <2>1, <2>2
      <4>2. 0 \in p.k .. 2
        BY <3>1
      <4> QED
        BY <1>1, <4>1, <4>2
    <3>2. CASE p.k # 0
      BY <1>1, <3>2 DEF KeepsCells
    <3> QED
      BY <3>1, <3>2
  <2>4. inode' = [inode EXCEPT ![v] = new] /\ r' = [r EXCEPT ![t] = q] /\ UNCHANGED imap
    BY <1>1, <1>2, <1>3, Zenon DEF Set
  <2>5. /\ q.pc = "truncate" /\ q.s = v /\ q.hold = {} /\ q.k = k + 1
        /\ q.todo = <<<<z, k>>>>
    BY <1>1 DEF Shape, StillCutting
  <2>6. z = inode[v].zone[k]
    BY <1>1, <2>2 DEF KeepsCells
  <2> HIDE DEF cells, tab, k, done, back
  <2>7. PICK o, w, n : o = q /\ w = z /\ n = k /\ n \in 0 .. 2
    BY <2>2
  <2> HIDE DEF z, q
  <2>8. /\ o.pc = "truncate" /\ o.s = v /\ o.hold = {} /\ o.k = n + 1 /\ o.todo = <<<<w, n>>>>
        /\ r' = [r EXCEPT ![t] = o] /\ r[t].k <= n /\ w = FileZones(i)[n]
    BY <2>2, <2>4, <2>5, <2>6, <2>7 DEF CutFile
  <2>9. TrimsZones(v, new)
    BY <2>4 DEF TrimsZones, KeepsCells
  <2>10. /\ \A u \in Task \ {t} : Unchanged(u)
         /\ \A j \in Ino : ZonesShrink(j)
         /\ TidyInv' /\ inode'[v].ino = i
    <3>1. CutsTo(t, o)
      BY <2>8 DEF CutsTo
    <3> QED
      BY <2>9, <3>1, TrimKeepsZones
  <2>11. r'[t] = o /\ inode'[o.s].ino = i
    BY <2>8, <2>10 DEF InodeInv, RegInv
  <2>12. /\ HandsMove(t)
         /\ \A m, x \in Int : Hand(t, x) # 0 => Hand(t, m)' # Hand(t, x)
    BY <2>7, <2>8, <2>11, TakenHands
  <2>13. FreesZone(t)
    BY <2>12 DEF FreesZone, HasFreed
  <2>14. Holds(t)'
    <3>1. o.k > 1 => inode'[o.s].zone[0] = 0
      BY <1>1, <2>3, <2>4, <2>7, <2>8
    <3>2. o.todo # << >> /\ DOMAIN o.todo = {1} /\ o.k # 0
      BY <2>7, <2>8
    <3>3. \A x \in DOMAIN o.todo : x > 1 => o.todo[x][2] = 0
      BY <3>2
    <3>4. \A y \in o.hold : \E x \in DOMAIN o.todo : y = o.todo[x][1]
      BY <2>8
    <3> QED
      BY <2>8, <2>11, <3>1, <3>2, <3>3, <3>4, CutHoldsNext
  <2>15. \A j \in Ino : StillCuts(t, o, j)
    <3>1. r[t].k <= o.k
      BY <1>1, <2>7, <2>8
    <3> QED
      BY <2>8, <2>10, <3>1 DEF StillCuts, CutFile
  <2>16. o.k \in Int /\ o.pc \notin Mapping /\ o.s = r[t].s
    BY <2>7, <2>8 DEF Mapping, CutFile
  <2> QED
    BY <2>8, <2>10, <2>12, <2>13, <2>14, <2>15, <2>16, CutKeepsZones
<1>4. CASE cells = {}
  <2>1. new.zone[0] = 0
    <3>1. CASE p.k = 0
      <4>1. 0 \in p.k .. 2
        BY <3>1
      <4> QED
        BY <1>1, <1>4, <4>1
    <3>2. CASE p.k # 0
      BY <1>1, <3>2 DEF KeepsCells
    <3> QED
      BY <3>1, <3>2
  <2>2. Plain(p) /\ Plain(back)
    BY <1>1, PlainReturn DEF Plain
  <2>3. CASE r[t].ret = << >>
    <3>1. back.pc = "user"
      BY <1>1, <2>2, <2>3, PlainReturn
    <3>2. inode' = done /\ r' = [r EXCEPT ![t] = back] /\ UNCHANGED imap
      BY <1>2, <1>4, <3>1 DEF Set
    <3>3. PICK end : end = Truncated(new)
      OBVIOUS
    <3>4. inode' = [inode EXCEPT ![v] = end]
      BY <1>1, <3>2, <3>3, Zenon
    <3>5. /\ Trimmed(inode[v], end) /\ end.zone[0] = 0 /\ end.zone[1] = 0 /\ end.zone[2] = 0
      BY <1>1, <2>1, <3>3, TruncatedIs, TruncatedZones DEF Trimmed, KeepsCells
    <3>6. \A j \in 0 .. 2 : end.zone[j] = 0
      BY <3>5
    <3>7. TrimsZones(v, end)
      BY <3>2, <3>4, <3>5, <3>6 DEF TrimsZones
    <3> HIDE DEF back, done, tab, cells
    <3>8. /\ \A u \in Task \ {t} : Unchanged(u)
          /\ \A j \in Ino : ZonesShrink(j)
          /\ TidyInv' /\ FileZones(i)' = end.zone
      <4>1. CutsTo(t, back)
        BY <3>1, <3>2 DEF CutsTo
      <4> QED
        BY <3>7, <4>1, TrimKeepsZones
    <3>9. i \in imap' => \A j \in 0 .. 2 : FileZones(i)'[j] = 0
      BY <3>6, <3>8
    <3> QED
      BY <2>2, <3>1, <3>2, <3>8, <3>9, CutEndsZones
  <2>4. CASE r[t].ret # << >>
    <3> DEFINE a == r[t].ret
               q == Return(back)
    <3>1. /\ inode[v].count = 1 /\ inode[v].links = 0 /\ inode[v].ino = i
          /\ a = <<"free_inode">> \/ a = <<"free_inode", "put_super">>
      BY <2>4, CuttingIs DEF CutFile
    <3>2. Head(a) = "free_inode" /\ Tail(a) \in {<< >>, <<"put_super">>}
      BY <3>1, ShortStacks, StacksDiffer
    <3>3. back \in Shape(Tail(a)) /\ back.pc = "free_inode" /\ back.ret = Tail(a) /\ back.s = v
      <4> DEFINE label == "free_inode"
                 rest == Tail(a)
      <4>1. label \in Places \cup {"repeat", "synced", "free_inode"} /\ Head(a) = label
        BY <3>2
      <4>2. p \in Shape(a) /\ a # << >> /\ Tail(a) = rest
        BY <1>1, <2>4
      <4> HIDE DEF a, label, rest
      <4>3. back \in Shape(rest) /\ back.pc = label /\ back.ret = rest /\ back.s = p.s
        BY <4>1, <4>2, ReturnIs
      <4> QED
        BY <1>1, <4>3 DEF label, rest
    <3>4. Plain(q) /\ q.pc \in {"user", "put_super"}
      <4>1. CASE Tail(a) = << >>
        BY <2>2, <3>3, <4>1, PlainReturn
      <4>2. CASE Tail(a) = <<"put_super">>
        <5>1. Tail(a) # << >> /\ Head(Tail(a)) = "put_super"
          <6> DEFINE label == "put_super"
          <6>1. PICK rest : rest = Tail(a) /\ rest = <<label>>
            BY <4>2
          <6> HIDE DEF label, a
          <6>2. <<label>> # << >> /\ Head(<<label>>) = label
            OBVIOUS
          <6> QED
            BY <6>1, <6>2 DEF label
        <5> HIDE DEF back, a
        <5> QED
          BY <2>2, <3>3, <5>1, PlainReturn
      <4> QED
        BY <3>2, <4>1, <4>2
    <3>5. FreeInode(t, back, done)
      BY <1>2, <1>4, <3>3
    <3>6. done = [inode EXCEPT ![v] = Truncated(new)] /\ done[v] = Truncated(new)
      BY <1>1, Zenon
    <3>7. done[v].count = 1 /\ done[v].links = 0 /\ done[v].ino = i
      BY <1>1, <3>1, <3>6, TruncatedIs, Zenon DEF KeepsCells, Trimmed
    <3> HIDE DEF back, tab, cells
    <3>8. [done EXCEPT ![v] = Zeroed] = [inode EXCEPT ![v] = Zeroed]
      BY <1>1, <3>6
    <3> HIDE DEF done
    <3>9. imap' = imap \ {i} /\ inode' = [done EXCEPT ![v] = Zeroed] /\ r' = [r EXCEPT ![t] = q]
      BY <3>3, <3>5, <3>7 DEF FreeInode, Set
    <3>10. inode' = [inode EXCEPT ![v] = Zeroed] /\ q.pc # "read_inode"
      BY <3>4, <3>8, <3>9
    <3> HIDE DEF q
    <3>11. /\ \A u \in Task \ {t} : Unchanged(u)
           /\ \A j \in Ino : ZonesShrink(j)
           /\ TidyInv'
      BY <3>9, <3>10, FreedKeepsZones
    <3>12. i \in imap' => \A j \in 0 .. 2 : FileZones(i)'[j] = 0
      BY <3>9
    <3> QED
      BY <3>4, <3>9, <3>11, <3>12, CutEndsZones
  <2> QED
    BY <2>3, <2>4
<1> QED
  BY <1>3, <1>4

LEMMA ClearedZones ==
  ASSUME NEW i \in Entry
  PROVE  /\ Cleared(i).zone[0] = 0 /\ \A k \in 1 .. 2 : Cleared(i).zone[k] = i.zone[k]
         /\ Trimmed(i, Cleared(i))
<1> DEFINE z == [i.zone EXCEPT ![0] = 0]
<1>1. i.zone \in [0 .. 2 -> Number]
  BY DEF Entry
<1>2. z[0] = 0 /\ \A k \in 1 .. 2 : z[k] = i.zone[k]
  BY <1>1
<1>3. Cleared(i) = [i EXCEPT !.zone = z]
  BY DEF Cleared
<1> HIDE DEF z
<1>4. Cleared(i).zone = z
  BY <1>3 DEF Entry
<1> QED
  BY <1>2, <1>4, ClearedIs DEF Trimmed

\* A step in the middle of truncate.
LEMMA CutGoesOn ==
  ASSUME InodeInv, InodeInv', ZInv, NEW t \in Task, r[t].pc = "truncate",
         NEW v \in Slot, NEW i \in Ino, CutFile(t, v, i),
         UNCHANGED <<inode, disk, imap, ind>>, NEW q, CutsTo(t, q),
         q.pc = "truncate", q.s = v, q.k = r[t].k, q.todo # << >>,
         \A n \in DOMAIN q.todo : n > 1 => q.todo[n][2] = 0,
         \A w \in q.hold : \E n \in DOMAIN q.todo : w = q.todo[n][1],
         r[t].todo # << >>, HandsMove(t), FreesZone(t)
  PROVE  ZInv'
<1>1. r' = [r EXCEPT ![t] = q] /\ r'[t] = q
  BY DEF CutsTo, InodeInv, RegInv
<1>2. TrimsZones(v, inode[v])
  <2>1. inode \in [Slot -> Entry]
    BY DEF InodeInv, TypeInv
  <2>2. inode' = [inode EXCEPT ![v] = inode[v]]
    BY <2>1
  <2> QED
    BY <2>1, <2>2 DEF TrimsZones, Trimmed
<1>3. /\ \A u \in Task \ {t} : Unchanged(u)
      /\ \A j \in Ino : ZonesShrink(j)
      /\ TidyInv' /\ inode'[v].ino = i
  BY <1>2, TrimKeepsZones
<1>4. r[t].k # 0 /\ r[t].k \in 0 .. 3 /\ (r[t].k > 1 => inode[v].zone[0] = 0)
  BY CutHolds DEF CutFile
<1>5. Holds(t)'
  BY <1>1, <1>4, CutHoldsNext
<1>6. \A j \in Ino : StillCuts(t, q, j)
  BY <1>3, <1>4 DEF StillCuts, CutFile
<1>7. q.k \in Int /\ q.pc \notin Mapping /\ q.s = r[t].s
  BY <1>4 DEF Mapping, CutFile
<1> QED
  BY <1>1, <1>3, <1>5, <1>6, <1>7, CutKeepsZones

\* truncate reads an indirect zone, frees a zone, or comes to the next cell.
LEMMA Zones_truncate ==
  ASSUME InodeInv, InodeInv', ZInv, NEW t \in Task, truncate(t)
  PROVE  ZInv'
<1>r. PICK read \in BOOLEAN :
        LET z == Head(r[t].todo)[1]
            deep == Head(r[t].todo)[2]
        IN r[t].todo # << >> /\ deep > 0
             => r' = [r EXCEPT ![t] =
                        [r[t] EXCEPT !.todo = Below(z, deep, read) \o <<<<z, 0>>>>
                                                \o Tail(r[t].todo),
                                     !.hold = IF read THEN @ \cup {z} ELSE @]]
  BY DEF truncate, Set
<1> DEFINE o == r[t]
           z == Head(o.todo)[1]
           deep == Head(o.todo)[2]
           left == Tail(o.todo)
           below == Below(z, deep, read)
           more == below \o <<<<z, 0>>>> \o left
           held == IF read THEN o.hold \cup {z} ELSE o.hold
           q == [o EXCEPT !.todo = more, !.hold = IF read THEN @ \cup {z} ELSE @]
           p == [o EXCEPT !.todo = left, !.hold = @ \ {z}]
           tab == IF o.k = 1 THEN [inode EXCEPT ![o.s].zone[0] = 0] ELSE inode
<1>1. r[t].pc = "truncate" /\ UNCHANGED <<disk, ind, super, entry>>
  BY DEF truncate, At
<1>2. PICK v \in Slot, i \in Ino : CutFile(t, v, i)
  BY <1>1, CutFileIs
<1>3. StillCutting(t, r[t]) /\ o \in Shape(r[t].ret) /\ v = r[t].s
  BY <1>1, <1>2, CuttingIs DEF StillCutting, CutFile
<1>4. /\ inode \in [Slot -> Entry] /\ inode[v] \in Entry
      /\ ind \in [Zone -> Number]
  BY DEF InodeInv, TypeInv
<1>5. /\ o.todo = << >> <=> o.k = 0
      /\ o.k > 1 => inode[v].zone[0] = 0
      /\ \A w \in o.hold : \E n \in DOMAIN o.todo : w = o.todo[n][1]
      /\ o.todo \in Seq(Zone \X (0 .. 2)) /\ o.k \in 0 .. 3
  BY <1>1, <1>3, CutHolds
<1>6. \/ o.todo = << >> /\ Advance(t, r[t], inode) /\ UNCHANGED zmap
      \/ /\ o.todo # << >> /\ deep > 0 /\ UNCHANGED <<inode, imap, zmap>>
         /\ r' = [r EXCEPT ![t] = q]
      \/ o.todo # << >> /\ UNCHANGED <<imap, zmap, inode, r>>
      \/ /\ o.todo # << >> /\ ~(deep > 0) /\ zmap' = Freed(t, z) /\ left = << >>
         /\ Advance(t, p, tab)
      \/ /\ o.todo # << >> /\ ~(deep > 0) /\ zmap' = Freed(t, z) /\ UNCHANGED <<inode, imap>>
         /\ left # << >> /\ r' = [r EXCEPT ![t] = p]
  BY <1>r, Zenon DEF truncate, Set, Panic
<1>7. CASE o.todo = << >> /\ Advance(t, r[t], inode) /\ UNCHANGED zmap
  <2>1. Advance(t, r[t], [inode EXCEPT ![v] = inode[v]])
    <3>1. [inode EXCEPT ![v] = inode[v]] = inode
      BY <1>4
    <3> QED
      BY <1>7, <3>1
  <2>2. KeepsCells(t, v, inode[v])
    BY <1>4, <1>5, <1>7 DEF KeepsCells, Trimmed
  <2>3. o.hold = {} /\ o.todo = << >> /\ HasFreed(t)
    BY <1>5, <1>7 DEF HasFreed
  <2>4. PICK x, new : x = r[t] /\ new = inode[v]
    OBVIOUS
  <2>5. /\ StillCutting(t, x) /\ x.k = r[t].k /\ x.hold = {} /\ x.todo = << >>
        /\ KeepsCells(t, v, new) /\ Advance(t, x, [inode EXCEPT ![v] = new])
    BY <1>3, <2>1, <2>2, <2>3, <2>4
  <2> QED
    BY <1>1, <1>2, <2>3, <2>5, AdvanceKeepsZones
<1>a. o.todo # << >> => /\ z \in Zone /\ deep \in 0 .. 2 /\ Head(o.todo) = <<z, deep>>
  <2> SUFFICES ASSUME o.todo # << >>
               PROVE  z \in Zone /\ deep \in 0 .. 2 /\ Head(o.todo) = <<z, deep>>
    OBVIOUS
  <2> DEFINE P == Zone \X (0 .. 2)
  <2>1. o.todo \in Seq(P)
    BY <1>5
  <2> HIDE DEF P
  <2>2. Head(o.todo) \in P
    BY <2>1
  <2> QED
    BY <2>2 DEF P
<1>8. CASE /\ o.todo # << >> /\ deep > 0 /\ UNCHANGED <<inode, imap, zmap>>
           /\ r' = [r EXCEPT ![t] = q]
  <2>1. /\ q.pc = "truncate" /\ q.s = v /\ q.k = o.k /\ q.todo = more /\ q.hold = held
    <3> HIDE DEF more, z
    <3> QED
      BY <1>1, <1>3 DEF Shape
  <2>a. z \in Zone /\ deep \in 1 .. 2
    <3>1. z \in Zone /\ deep \in 0 .. 2 /\ deep > 0
      BY <1>8, <1>a
    <3> HIDE DEF deep, z
    <3> QED
      BY <3>1
  <2>2. PICK y, d, x : y = z /\ d = deep /\ x = q /\ y \in Zone /\ d \in 1 .. 2
    BY <2>a, Zenon
  <2>3. /\ x.todo = Below(y, d, read) \o <<<<y, 0>>>> \o Tail(r[t].todo)
        /\ Head(r[t].todo) = <<y, d>> /\ r[t].todo # << >>
        /\ x.pc = "truncate" /\ x.s = v /\ x.k = r[t].k
        /\ x.hold = IF read THEN r[t].hold \cup {y} ELSE r[t].hold
    BY <1>8, <1>a, <2>1, <2>2, Zenon
  <2>4. r' = [r EXCEPT ![t] = x]
    BY <1>8, <2>2
  <2> HIDE DEF o, z, deep, left, below, more, held, q
  <2>5. CutsTo(t, x) /\ r'[t] = x
    BY <2>3, <2>4 DEF CutsTo, InodeInv, RegInv
  <2>6. /\ HandsMove(t) /\ x.todo # << >> /\ Shallow(x.todo)
        /\ \A w : w = y \/ Listed(w, r[t].todo) => Listed(w, x.todo)
    <3>1. HasRead(t, y, d, x)
      BY <2>2, <2>3, <2>5 DEF HasRead
    <3> QED
      BY <1>1, <3>1, ReadHands
  <2>7. /\ \A w \in x.hold : \E n \in DOMAIN x.todo : w = x.todo[n][1]
        /\ x.todo # << >> /\ \A n \in DOMAIN x.todo : n > 1 => x.todo[n][2] = 0
    <3>1. \A w \in x.hold : w = y \/ Listed(w, r[t].todo)
      BY <1>5, <2>3 DEF o, Listed
    <3>2. \A w \in x.hold : Listed(w, x.todo)
      BY <2>6, <3>1
    <3> QED
      BY <2>6, <3>2 DEF Listed, Shallow
  <2>8. FreesZone(t) /\ UNCHANGED <<inode, disk, imap, ind>>
    BY <1>1, <1>8 DEF FreesZone
  <2> QED
    BY <1>1, <1>2, <2>3, <2>5, <2>6, <2>7, <2>8, CutGoesOn
<1>9. CASE o.todo # << >> /\ UNCHANGED <<imap, zmap, inode, r>>
  BY <1>1, <1>9, ZonesUntouched
<1>10. ASSUME o.todo # << >>, ~(deep > 0), zmap' = Freed(t, z)
       PROVE  \E y \in Zone : /\ y = z /\ Head(r[t].todo) = <<y, 0>> /\ r[t].todo # << >>
                              /\ zmap' = zmap \/ zmap' = zmap \ {y}
  BY <1>10, <1>a DEF Freed
<1>b. /\ p.pc = "truncate" /\ p.s = v /\ p.k = o.k /\ p.todo = left /\ p.hold = o.hold \ {z}
  <2> HIDE DEF left, z
  <2> QED
    BY <1>1, <1>3 DEF Shape
<1>11. CASE /\ o.todo # << >> /\ ~(deep > 0) /\ zmap' = Freed(t, z) /\ left = << >>
            /\ Advance(t, p, tab)
  <2>1. PICK y \in Zone : /\ y = z /\ Head(r[t].todo) = <<y, 0>> /\ r[t].todo # << >>
                          /\ zmap' = zmap \/ zmap' = zmap \ {y}
    BY <1>10, <1>11
  <2>2. PICK new : new = IF o.k = 1 THEN Cleared(inode[v]) ELSE inode[v]
    OBVIOUS
  <2>3. tab = [inode EXCEPT ![v] = new]
    <3>1. [inode EXCEPT ![v] = inode[v]] = inode
      BY <1>4
    <3> QED
      BY <1>3, <2>2, <3>1 DEF Cleared
  <2>4. KeepsCells(t, v, new)
    <3>1. CASE o.k = 1
      BY <1>4, <2>2, <3>1, ClearedZones DEF KeepsCells
    <3>2. CASE o.k # 1
      BY <1>4, <1>5, <1>11, <2>2, <3>2 DEF KeepsCells, Trimmed
    <3> QED
      BY <3>1, <3>2
  <2>5. StillCutting(t, p)
    <3> DEFINE hold == o.hold \ {z}
               m == [o EXCEPT !.todo = left]
    <3>1. p = [m EXCEPT !.hold = hold] /\ hold \in SUBSET Zone /\ left \in Seq(Zone \X (0 .. 2))
      BY <1>3, <1>11, TodoIs DEF Shape
    <3> HIDE DEF left, hold, o
    <3>2. m \in Shape(r[t].ret)
      BY <1>3, <3>1, ShapeKept
    <3>3. /\ m.pc = o.pc /\ m.ret = o.ret /\ m.s = o.s /\ m.empty = o.empty /\ m.ino = o.ino
          /\ m.file = o.file /\ m.refs = o.refs /\ m.dev = o.dev
      BY <1>3 DEF Shape
    <3> HIDE DEF m, p
    <3>4. p \in Shape(r[t].ret)
      BY <3>1, <3>2, ShapeKept
    <3>5. /\ p.pc = m.pc /\ p.ret = m.ret /\ p.s = m.s /\ p.empty = m.empty /\ p.ino = m.ino
          /\ p.file = m.file /\ p.refs = m.refs /\ p.dev = m.dev
      BY <3>1, <3>2 DEF Shape
    <3> QED
      BY <1>3, <3>3, <3>4, <3>5 DEF StillCutting, o
  <2>6. DOMAIN o.todo = {1} /\ o.todo[1] = Head(o.todo)
    <3> DEFINE P == Zone \X (0 .. 2)
    <3>1. o.todo \in Seq(P) /\ o.todo # << >> /\ Head(o.todo) \in P
      BY <1>5, <1>11, <1>a
    <3> HIDE DEF P
    <3>2. /\ DOMAIN o.todo = 1 .. Len(o.todo) /\ Tail(o.todo) = << >> => Len(o.todo) = 1
          /\ Head(o.todo) = o.todo[1]
      BY <3>1, ListIs
    <3> QED
      BY <1>11, <3>2
  <2>7. p.hold = {}
    <3>1. \A w \in o.hold : w = z
      BY <1>5, <2>6
    <3> QED
      BY <1>b, <3>1
  <2>8. HasFreed(t)
    <3>1. Hand(t, 1) = y /\ y # 0
      BY <2>1, <2>6, ZeroIsNoZone DEF Hand
    <3> QED
      BY <2>1, <3>1 DEF HasFreed
  <2>9. PICK x : x = p
    OBVIOUS
  <2>10. /\ StillCutting(t, x) /\ x.k = r[t].k /\ x.hold = {} /\ x.todo = << >>
         /\ Advance(t, x, [inode EXCEPT ![v] = new])
    BY <1>11, <1>b, <2>3, <2>5, <2>7, <2>9
  <2> HIDE DEF o, z, deep, left, below, more, q, p, tab
  <2> QED
    BY <1>1, <1>2, <2>4, <2>8, <2>10, AdvanceKeepsZones
<1>12. CASE /\ o.todo # << >> /\ ~(deep > 0) /\ zmap' = Freed(t, z) /\ UNCHANGED <<inode, imap>>
            /\ left # << >> /\ r' = [r EXCEPT ![t] = p]
  <2>1. PICK y \in Zone : /\ y = z /\ Head(r[t].todo) = <<y, 0>> /\ r[t].todo # << >>
                          /\ zmap' = zmap \/ zmap' = zmap \ {y}
    BY <1>10, <1>12
  <2>2. PICK x : x = p
    OBVIOUS
  <2>3. /\ x.pc = "truncate" /\ x.s = v /\ x.k = r[t].k /\ x.todo = Tail(r[t].todo)
        /\ x.hold = r[t].hold \ {y} /\ r' = [r EXCEPT ![t] = x] /\ x.todo # << >>
    BY <1>12, <1>b, <2>1, <2>2
  <2> HIDE DEF o, z, deep, left, below, more, q, p, tab
  <2>4. CutsTo(t, x) /\ r'[t] = x
    BY <2>3 DEF CutsTo, InodeInv, RegInv
  <2>5. /\ HandsMove(t) /\ Hand(t, 1) = y /\ \A m \in Int : Hand(t, m)' # y
        /\ \A n \in DOMAIN x.todo : n > 1 => x.todo[n][2] = 0
        /\ \A w : w # y /\ (\E n \in DOMAIN r[t].todo : w = r[t].todo[n][1])
                    => \E n \in DOMAIN x.todo : w = x.todo[n][1]
    <3>1. Passed(t, y, x)
      BY <2>1, <2>3, <2>4 DEF Passed
    <3> QED
      BY <1>1, <2>1, <3>1, FreedHands
  <2>6. \A w \in x.hold : \E n \in DOMAIN x.todo : w = x.todo[n][1]
    BY <1>5, <2>3, <2>5 DEF o
  <2>7. FreesZone(t) /\ UNCHANGED <<inode, disk, imap, ind>>
    BY <1>1, <1>12, <2>1, <2>5 DEF FreesZone
  <2> QED
    BY <1>1, <1>2, <2>1, <2>3, <2>4, <2>5, <2>6, <2>7, CutGoesOn
<1> QED
  BY <1>6, <1>7, <1>8, <1>9, <1>11, <1>12

-----------------------------------------------------------------------------
(* Zones: the invariant holds                                              *)

\* At first no file has a zone.
LEMMA InitOwnsZones ==
  ASSUME Init
  PROVE  ZInv
<1>1. /\ \A t \in Task : r[t] = Registers
      /\ \A s \in Slot : inode[s] = Zeroed
      /\ zmap = {}
  BY DEF Init
<1>2. InodeInv
  BY InitIsSound
<1>3. Zeroed.ino = NoIno /\ Zeroed.zone = NoZones
  BY DEF Zeroed
<1>4. Registers.pc = "user" /\ Registers.todo = << >> /\ Registers.hold = {}
  BY DEF Registers
<1>5. ASSUME NEW i \in Ino, NEW p \in Spots PROVE Has(i, p) = 0
  <2>1. i # NoIno
    BY NoInoIsNone
  <2>2. FileZones(i) = disk[i].zone
    BY <1>1, <1>2, <1>3, <2>1, ZonesAre
  <2>3. disk[i] = [links |-> IF i \in InUse THEN 1 ELSE 0, zone |-> NoZones]
    BY DEF Init
  <2>4. FileZones(i) = NoZones
    BY <2>2, <2>3
  <2>5. NoZones[0] = 0 /\ NoZones[1] = 0 /\ NoZones[2] = 0
    BY DEF NoZones
  <2>6. Via(0) = 0
    BY DEF Via
  <2>7. Named(i, p) = 0
    BY <2>4, <2>5, <2>6, NamedIs DEF Spots
  <2> QED
    BY <2>7 DEF Has
<1>6. ASSUME NEW t \in Task, NEW m \in Int PROVE Hand(t, m) = 0
  BY <1>1, <1>4, HandIsEmpty
<1>7. ZoneInv
  BY <1>5, <1>6 DEF ZoneInv
<1>8. HoldInv
  BY <1>1, <1>4 DEF HoldInv, Holds, Mapping
<1>9. CutInv
  BY <1>1, <1>4 DEF CutInv
<1>10. TidyInv
  BY <1>1, <1>3 DEF TidyInv, Tidy
<1> QED
  BY <1>7, <1>8, <1>9, <1>10 DEF ZInv

\* Every step keeps the invariant.
LEMMA NextOwnsZones ==
  ASSUME InodeInv, ZInv, NoRaces, [MountNext]_vars
  PROVE  ZInv'
<1>1. CASE UNCHANGED vars
  BY <1>1, ZonesUntouched DEF vars, fs
<1>2. NoTableRaces
  BY DEF NoRaces, NoTableRaces
<1>3. InodeInv'
  BY <1>2, NextIsSound
<1>4. ASSUME NEW t \in Task, Step(t) PROVE ZInv'
  <2>1. CASE iget(t)
    BY <1>3, <2>1, Zones_iget
  <2>2. CASE read_inode(t)
    BY <1>3, <2>2, Zones_read_inode
  <2>3. CASE write_inode(t)
    BY <1>3, <2>3, Zones_write_inode
  <2>4. CASE iput(t)
    BY <1>3, <2>4, Zones_iput
  <2>5. CASE sync_inodes(t)
    BY <1>3, <2>5, Zones_sync_inodes
  <2>6. CASE truncate(t)
    BY <1>3, <2>6, Zones_truncate
  <2>7. CASE new_inode(t)
    BY <1>3, <2>7, Zones_new_inode
  <2>8. CASE add_entry(t)
    BY <1>3, <2>8, Zones_add_entry
  <2>9. CASE _bmap(t)
    BY <1>3, <2>9, Zones_bmap
  <2>10. CASE new_block(t)
    BY <1>3, <2>10, Zones_new_block
  <2>11. CASE data(t)
    BY <1>3, <2>11, Zones_data
  <2>12. CASE get_pipe_inode(t)
    BY <1>3, <2>12, Zones_get_pipe_inode
  <2>13. CASE Open(t)
    BY <1>3, <2>13, Zones_Open
  <2>14. CASE Create(t)
    BY <1>3, <2>14, Zones_Create
  <2>15. CASE Pipe(t)
    BY <1>3, <2>15, Zones_Pipe
  <2>16. CASE Close(t)
    BY <1>3, <2>16, Zones_Close
  <2>17. CASE Unlink(t)
    BY <1>3, <2>17, Zones_Unlink
  <2>18. CASE Truncate(t)
    BY <1>3, <2>18, Zones_Truncate
  <2>19. CASE Access(t)
    BY <1>3, <2>19, Zones_Access
  <2>20. CASE Sync(t)
    BY <1>3, <2>20, Zones_Sync
  <2> QED
    BY <1>4, <2>1, <2>2, <2>3, <2>4, <2>5, <2>6, <2>7, <2>8, <2>9, <2>10, <2>11, <2>12,
       <2>13, <2>14, <2>15, <2>16, <2>17, <2>18, <2>19, <2>20 DEF Step
<1>5. ASSUME NEW t \in Task, MountStep(t) PROVE ZInv'
  <2>1. CASE Mount(t)
    BY <1>3, <2>1, Zones_Mount
  <2>2. CASE sys_mount(t)
    BY <1>3, <2>2, Zones_sys_mount
  <2>3. CASE read_super(t)
    BY <1>3, <2>3, Zones_read_super
  <2>4. CASE Umount(t)
    BY <1>3, <2>4, Zones_Umount
  <2>5. CASE put_super(t)
    BY <1>3, <2>5, Zones_put_super
  <2> QED
    BY <1>5, <2>1, <2>2, <2>3, <2>4, <2>5 DEF MountStep
<1> QED
  BY <1>1, <1>4, <1>5 DEF MountNext

\* What the invariant says of the files that nobody truncates.
LEMMA ZonesAreOwned ==
  ASSUME InodeInv, ZInv
  PROVE  ZonesHaveOneOwner
<1> DEFINE live == {i \in imap : ~\E s \in SlotsOf(i) : Truncating(s)}
           places == {x \in live \X (1 .. 6) : Named(x[1], x[2]) # 0}
<1>1. imap \subseteq Ino
  BY DEF InodeInv, TypeInv
<1>2. ASSUME NEW i \in live, NEW p \in 1 .. 6
      PROVE  /\ i \in Ino /\ p \in Spots /\ Has(i, p) = Named(i, p)
  <2>1. i \in Ino /\ i \in imap /\ ~\E s \in SlotsOf(i) : Truncating(s)
    BY <1>1
  <2>2. Cutters(i) = {}
    <3> SUFFICES ASSUME NEW t \in Task, r[t].pc = "truncate", inode[r[t].s].ino = i
                 PROVE  FALSE
      BY DEF Cutters
    <3>1. r[t].s \in Slot
      BY UsesInode
    <3>2. r[t].s \in SlotsOf(i) /\ Truncating(r[t].s)
      BY <3>1 DEF SlotsOf, Truncating
    <3> QED
      BY <2>1, <3>2
  <2> QED
    BY <2>1, <2>2 DEF Has, Spots
<1>3. ASSUME NEW x \in places
      PROVE  /\ x[1] \in Ino /\ x[2] \in Spots /\ Has(x[1], x[2]) = Named(x[1], x[2])
             /\ Named(x[1], x[2]) # 0 /\ x = <<x[1], x[2]>>
  <2>1. x[1] \in live /\ x[2] \in 1 .. 6 /\ x = <<x[1], x[2]>>
    OBVIOUS
  <2> QED
    BY <1>2, <2>1
<1>4. ASSUME NEW x \in places PROVE Named(x[1], x[2]) \in zmap
  BY <1>3 DEF ZInv, ZoneInv
<1>5. ASSUME NEW x \in places, NEW y \in places, Named(x[1], x[2]) = Named(y[1], y[2])
      PROVE  x = y
  <2>1. x[1] = y[1] /\ x[2] = y[2]
    BY <1>3, <1>5 DEF ZInv, ZoneInv
  <2> QED
    BY <1>3, <2>1
<1> QED
  BY <1>4, <1>5 DEF ZonesHaveOneOwner

-----------------------------------------------------------------------------
(* The checks of the code                                                  *)

\* What is dirty can be written.
LEMMA DirtyAreMounted ==
  ASSUME InodeInv, NEW s \in Slot, inode[s].dirt
  PROVE  super[inode[s].ino[1]].there
<1>1. inode[s].count > 0 /\ inode[s].ino # NoIno
  BY DEF InodeInv, SlotInv, SlotAt
<1> QED
  BY <1>1, UsedAreMounted DEF UsedInodesAreMounted

\* sync_inodes writes only inodes of devices that are there.
LEMMA SyncPanics ==
  ASSUME NEW t \in Task, NEW p \in Shape(<< >>), NEW tab,
         \A s \in Slot : tab[s].dirt => super[tab[s].ino[1]].there,
         SyncFrom(t, p, tab)
  PROVE  panic' = panic
<1> DEFINE stop == {s \in p.rest : tab[s].lock \/ NeedsSync(tab[s])}
           on(s) == [p EXCEPT !.s = s, !.rest = stop \ {s}]
<1>1. p.rest \in SUBSET Slot
  BY DEF Shape
<1>2. CASE stop = {}
  BY <1>2, Zenon DEF SyncFrom
<1>3. CASE stop # {}
  <2>1. PICK s \in stop : IF tab[s].lock THEN UNCHANGED panic
                          ELSE WriteBack(t, on(s), tab, "synced")
    BY <1>3, Zenon DEF SyncFrom
  <2>2. s \in Slot /\ (tab[s].lock \/ NeedsSync(tab[s]))
    BY <1>1
  <2> HIDE DEF stop
  <2>3. on(s).s = s
    BY DEF Shape
  <2> HIDE DEF on
  <2> QED
    BY <2>1, <2>2, <2>3 DEF NeedsSync, WriteBack
<1> QED
  BY <1>2, <1>3

\* write_inode has written the inode: iput, to which it returns, need not again.
LEMMA Panics_write_inode ==
  ASSUME InodeInv, NEW t \in Task, write_inode(t)
  PROVE  panic' = panic
<1> DEFINE q == Return(r[t])
           tab == [inode EXCEPT ![q.s].dirt = FALSE, ![q.s].lock = FALSE]
<1>1. r[t].pc = "write_inode"
  BY DEF write_inode, At
<1>2. IF q.pc = "repeat" THEN Repeat(t, q, tab) ELSE SyncFrom(t, q, tab)
  BY DEF write_inode
<1>3. /\ Sound(r[t]) /\ Shaped(r[t]) /\ r[t].ret \in Returns(r[t].pc)
  BY RegistersAre
<1>4. r[t].s \in Slot /\ r[t] \in Shape(r[t].ret)
  BY <1>1, <1>3 DEF Sound, Shaped, Shape
<1>5. /\ q.s = r[t].s
      /\ q.pc = "repeat" \/ q \in Shape(<< >>)
  <2> DEFINE a == r[t].ret
             label == Head(a)
             back == Tail(a)
  <2>1. /\ a # << >> /\ label \in Places \cup {"repeat", "synced", "free_inode"}
        /\ label = "repeat" \/ back = << >>
    BY <1>1, <1>3, ShortStacks, StacksDiffer DEF Returns
  <2>2. a = r[t].ret /\ Head(a) = label /\ Tail(a) = back
    OBVIOUS
  <2> HIDE DEF a, label, back
  <2>3. /\ q \in Shape(back) /\ q.pc = label /\ q.s = r[t].s
    BY <1>4, <2>1, <2>2, ReturnIs
  <2> QED
    BY <2>1, <2>3
<1>6. PICK v \in Slot : v = r[t].s /\ v = q.s
  BY <1>4, <1>5
<1>7. \A s \in Slot : /\ tab[s].ino = inode[s].ino /\ (tab[s].dirt => inode[s].dirt)
                      /\ ~tab[v].dirt
  <2>1. inode \in [Slot -> Entry] /\ inode[v] \in Entry
    BY DEF InodeInv, TypeInv
  <2>2. tab = [inode EXCEPT ![v] = Written(inode[v])]
    BY <1>6, <2>1 DEF Written
  <2>3. Written(inode[v]).ino = inode[v].ino /\ ~Written(inode[v]).dirt
    BY <2>1, WrittenIs
  <2> HIDE DEF tab
  <2> QED
    BY <2>1, <2>2, <2>3
<1>8. \A s \in Slot : tab[s].dirt => super[tab[s].ino[1]].there
  BY <1>7, DirtyAreMounted
<1> HIDE DEF q, tab
<1>9. CASE q.pc = "repeat"
  <2>1. Repeat(t, q, tab)
    BY <1>2, <1>9
  <2> QED
    BY <1>6, <1>7, <2>1 DEF Repeat
<1>10. CASE q.pc # "repeat"
  BY <1>2, <1>5, <1>8, <1>10, SyncPanics
<1> QED
  BY <1>9, <1>10

\* iput has a reference to give back, and the device that it writes to.
LEMMA Panics_iput ==
  ASSUME InodeInv, NEW t \in Task, iput(t)
  PROVE  panic' = panic
<1>1. r[t].pc = "iput"
  BY DEF iput, At
<1>2. r[t].s \in Slot /\ Refers(r[t], r[t].s)
  <2>1. Sound(r[t]) /\ Shaped(r[t]) /\ Putting(r[t])
    BY <1>1, RegistersAre DEF Puts
  <2> QED
    BY <1>1, <2>1 DEF Sound, Shaped, Shape, Refers
<1>3. inode[r[t].s].count >= 1 /\ inode[r[t].s].count \in Int
  BY <1>2, AloneUser
<1>4. \/ UNCHANGED panic
      \/ Repeat(t, r[t], inode)
  <2>1. inode[r[t].s].count # 0
    BY <1>3
  <2>2. CASE inode[r[t].s].pipe
    BY <2>1, <2>2 DEF iput
  <2>3. CASE ~inode[r[t].s].pipe
    BY <2>1, <2>3 DEF iput
  <2> QED
    BY <2>2, <2>3
<1>5. inode[r[t].s].dirt => super[inode[r[t].s].ino[1]].there
  BY <1>2, DirtyAreMounted
<1> QED
  BY <1>4, <1>5, Zenon DEF Repeat, WriteBack

LEMMA Panics_sync_inodes ==
  ASSUME InodeInv, NEW t \in Task, sync_inodes(t)
  PROVE  panic' = panic
<1>1. r[t].pc = "sync_inodes"
  BY DEF sync_inodes, At
<1>2. r[t] \in Shape(<< >>) /\ r[t].s \in Slot
  BY <1>1, RegistersAre DEF Sound, Shaped, Shape, Returns
<1>3. CASE NeedsSync(inode[r[t].s])
  <2>1. WriteBack(t, r[t], inode, "synced")
    BY <1>3 DEF sync_inodes
  <2>2. super[inode[r[t].s].ino[1]].there
    BY <1>2, <1>3, DirtyAreMounted DEF NeedsSync
  <2> QED
    BY <2>1, <2>2 DEF WriteBack
<1>4. CASE ~NeedsSync(inode[r[t].s])
  <2>1. SyncFrom(t, r[t], inode)
    BY <1>4 DEF sync_inodes
  <2> QED
    BY <1>2, <2>1, DirtyAreMounted, SyncPanics
<1> QED
  BY <1>3, <1>4

LEMMA Panics_Sync ==
  ASSUME InodeInv, NEW t \in Task, Sync(t)
  PROVE  panic' = panic
<1> DEFINE p == [r[t] EXCEPT !.rest = Slot]
<1>1. r[t].pc = "user" /\ SyncFrom(t, p, inode)
  BY DEF Sync, At
<1>2. r[t] \in Shape(<< >>)
  BY <1>1, UserRegisters, RegistersAre DEF Shaped
<1>3. p \in Shape(<< >>)
  BY <1>2, ShapeKept, Zenon
<1> HIDE DEF p
<1> QED
  BY <1>1, <1>3, DirtyAreMounted, SyncPanics

\* What iget reads is on a mounted device.
LEMMA Panics_iget ==
  ASSUME InodeInv, NEW t \in Task, iget(t)
  PROVE  panic' = panic
<1>1. r[t].pc = "iget" /\ Search(t)
  BY DEF iget, At
<1>2. PICK i : i = Crossed(r[t].ino)
  OBVIOUS
<1>3. i \in Ino /\ Reached(i) /\ (i[1] # ROOT_DEV => Passes(inode, super, i[1]))
  BY <1>1, <1>2, CrossedIs, ReachedIs DEF Reached
<1>4. i[1] \in Device
  BY <1>3 DEF Device
<1>5. super[i[1]].there
  <2>1. CASE i[1] = ROOT_DEV
    BY <1>4, <2>1 DEF InodeInv, DevInv
  <2>2. CASE i[1] # ROOT_DEV
    <3>1. super[i[1]].imount \in Slot
      BY <1>3, <2>2 DEF Passes
    <3> QED
      BY <1>4, <2>2, <3>1, InodeAssumption DEF InodeInv, DevInv
  <2> QED
    BY <2>1, <2>2
<1> QED
  BY <1>1, <1>2, <1>5, Zenon DEF Search

\* Nobody else holds the buffer of a zone whose bit was clear.
LEMMA Panics_new_block ==
  ASSUME InodeInv, ZInv, NEW t \in Task, new_block(t)
  PROVE  panic' = panic
<1>1. r[t].pc = "new_block"
  BY DEF new_block, At
<1>2. PICK i \in Ino, z \in Zone : r[t].todo = <<<<z, 0>>>> /\ Brings(t, i, z)
  BY <1>1, BroughtIs
<1>3. Head(r[t].todo)[1] = z
  BY <1>2
<1>4. ~HeldByOthers(t, z)
  <2> SUFFICES ASSUME NEW u \in Task \ {t}, z \in r[u].hold PROVE FALSE
    BY DEF HeldByOthers
  <2>1. Holds(u)
    BY DEF ZInv, HoldInv
  <2>2. r[u].pc \in Mapping => Safe(u, z)
    BY <2>1 DEF Holds, Grips
  <2>3. r[u].pc = "truncate" => \E n \in Int : Hand(u, n) = z
    <3> SUFFICES ASSUME r[u].pc = "truncate" PROVE \E n \in Int : Hand(u, n) = z
      OBVIOUS
    <3>1. PICK n \in DOMAIN r[u].todo : z = r[u].todo[n][1]
      BY CutHolds
    <3>2. r[u].todo \in Seq(Zone \X (0 .. 2))
      BY CutHolds
    <3>3. n \in Int
      BY <3>1, <3>2
    <3>4. Hand(u, n) = z
      BY <3>1 DEF Hand
    <3> QED
      BY <3>3, <3>4
  <2>4. r[u].pc \in Mapping \cup {"truncate"}
    BY <2>1, Zenon DEF Holds
  <2> QED
    BY <1>2, <2>2, <2>3, <2>4 DEF Brings
<1> QED
  BY <1>3, <1>4 DEF new_block

\* The bit of a zone to be freed is set, and free_inode gets an inode with one
\* reference and no links.
LEMMA Panics_truncate ==
  ASSUME InodeInv, ZInv, NEW t \in Task, truncate(t)
  PROVE  panic' = panic
<1> DEFINE o == r[t]
           z == Head(o.todo)[1]
           left == Tail(o.todo)
           p == [o EXCEPT !.todo = left, !.hold = @ \ {z}]
           tab == IF o.k = 1 THEN [inode EXCEPT ![o.s].zone[0] = 0] ELSE inode
<1>1. r[t].pc = "truncate"
  BY DEF truncate, At
<1>2. PICK v \in Slot : v = r[t].s
  BY <1>1, CuttingIs
<1>3. o.todo # << >> => z \in zmap
  <2> SUFFICES ASSUME o.todo # << >> PROVE z \in zmap
    OBVIOUS
  <2>1. o.todo \in Seq(Zone \X (0 .. 2))
    BY <1>1, CutHolds
  <2>2. 1 \in DOMAIN o.todo /\ z = o.todo[1][1] /\ o.todo[1] \in Zone \X (0 .. 2)
    BY <2>1
  <2>3. z = Hand(t, 1) /\ z \in Zone
    BY <2>2 DEF Hand
  <2>4. z # 0
    BY <2>3, ZeroIsNoZone
  <2>5. Hand(t, 1) \in zmap \cup {0}
    BY DEF ZInv, ZoneInv
  <2> QED
    BY <2>3, <2>4, <2>5
<1>4. ASSUME NEW q, q \in Shape(r[t].ret), q.s = v, q.ret = r[t].ret, NEW new \in Entry,
             new.count = inode[v].count, new.links = inode[v].links,
             NEW d, d = [inode EXCEPT ![v] = new], Advance(t, q, d)
      PROVE  panic' = panic
  <2>1. inode \in [Slot -> Entry]
    BY DEF InodeInv, TypeInv
  <2>2. d[v] = new
    BY <1>4, <2>1
  <2>3. PICK end : end = Truncated(new)
    OBVIOUS
  <2>4. end.count = inode[v].count /\ end.links = inode[v].links
    BY <1>4, <2>3, TruncatedIs
  <2>5. PICK back : back = Return(q)
    OBVIOUS
  <2>6. CASE back.pc = "free_inode"
    <3>1. back.s = v /\ r[t].ret # << >>
      <4>1. CASE r[t].ret = << >>
        BY <1>4, <2>5, <2>6, <4>1 DEF Return, Leave, Registers
      <4>2. CASE r[t].ret # << >>
        BY <1>4, <2>5, <4>2 DEF Return, Shape
      <4> QED
        BY <4>1, <4>2
    <3>2. inode[v].count = 1 /\ inode[v].links = 0
      BY <1>1, <1>2, <3>1, CuttingIs
    <3>3. PICK done : done = [d EXCEPT ![q.s] = Truncated(@)]
      OBVIOUS
    <3>4. done[v] = end
      BY <1>4, <2>1, <2>2, <2>3, <3>3, Zenon
    <3>5. UNCHANGED panic \/ FreeInode(t, back, done)
      BY <2>5, <1>4, <3>3 DEF Advance
    <3>6. ~(done[back.s].count > 1) /\ ~(done[back.s].links # 0)
      BY <2>4, <3>1, <3>2, <3>4
    <3> QED
      BY <3>5, <3>6 DEF FreeInode
  <2>7. CASE back.pc # "free_inode"
    BY <1>4, <2>5, <2>7 DEF Advance
  <2> QED
    BY <2>6, <2>7
<1>5. \/ UNCHANGED panic
      \/ o.todo = << >> /\ Advance(t, o, inode)
      \/ o.todo # << >> /\ z \notin zmap
      \/ o.todo # << >> /\ Advance(t, p, tab)
  BY DEF truncate
<1>6. inode \in [Slot -> Entry] /\ inode[v] \in Entry /\ o \in Shape(r[t].ret)
  BY <1>1, CuttingIs DEF InodeInv, TypeInv
<1>7. CASE Advance(t, o, inode)
  <2>1. inode = [inode EXCEPT ![v] = inode[v]]
    BY <1>6
  <2> QED
    BY <1>2, <1>4, <1>6, <1>7, <2>1
<1>8. CASE o.todo # << >> /\ Advance(t, p, tab)
  <2>1. PICK new \in Entry : /\ new.count = inode[v].count /\ new.links = inode[v].links
                             /\ tab = [inode EXCEPT ![v] = new]
    <3>1. CASE o.k = 1
      <4>1. tab = [inode EXCEPT ![v] = Cleared(inode[v])]
        BY <1>2, <1>6, <3>1 DEF Cleared
      <4> QED
        BY <1>6, <4>1, ClearedIs
    <3>2. CASE o.k # 1
      <4>1. tab = [inode EXCEPT ![v] = inode[v]]
        BY <1>6, <3>2
      <4> QED
        BY <1>6, <4>1
    <3> QED
      BY <3>1, <3>2
  <2>2. p \in Shape(r[t].ret) /\ p.s = v /\ p.ret = r[t].ret
    <3>1. left \in Seq(Zone \X (0 .. 2)) /\ o.hold \ {z} \in SUBSET Zone
      <4>1. o.todo \in Seq(Zone \X (0 .. 2)) /\ o.hold \in SUBSET Zone
        BY <1>6 DEF Shape
      <4> QED
        BY <1>8, <4>1
    <3> HIDE DEF left, z
    <3>2. p \in Shape(r[t].ret)
      BY <1>6, <3>1, ShapeKept
    <3>3. p.s = o.s /\ p.ret = o.ret
      BY <1>6 DEF Shape
    <3> QED
      BY <1>2, <3>2, <3>3
  <2> HIDE DEF p, tab
  <2> QED
    BY <1>4, <1>8, <2>1, <2>2
<1> QED
  BY <1>3, <1>5, <1>7, <1>8

LEMMA GetEmptyPanics ==
  ASSUME NEW t \in Task, NEW q, GetEmpty(t, q)
  PROVE  panic' = panic \/ panic' = "No free inodes in mem"
  BY DEF GetEmpty, Take, Panic

\* Only get_empty_inode may find that it cannot go on.
LEMMA NextPanics ==
  ASSUME InodeInv, ZInv, [MountNext]_vars, OnlyFullTablesPanic
  PROVE  OnlyFullTablesPanic'
<1> SUFFICES panic' = panic \/ panic' = "No free inodes in mem"
  BY DEF OnlyFullTablesPanic
<1>1. CASE UNCHANGED vars
  BY <1>1 DEF vars
<1>2. ASSUME NEW t \in Task, Step(t)
      PROVE  panic' = panic \/ panic' = "No free inodes in mem"
  <2>1. CASE iget(t)
    BY <2>1, Panics_iget
  <2>2. CASE read_inode(t)
    BY <2>2 DEF read_inode
  <2>3. CASE write_inode(t)
    BY <2>3, Panics_write_inode
  <2>4. CASE iput(t)
    BY <2>4, Panics_iput
  <2>5. CASE sync_inodes(t)
    BY <2>5, Panics_sync_inodes
  <2>6. CASE truncate(t)
    BY <2>6, Panics_truncate
  <2>7. CASE new_inode(t)
    BY <2>7 DEF new_inode
  <2>8. CASE add_entry(t)
    BY <2>8 DEF add_entry
  <2>9. CASE _bmap(t)
    BY <2>9 DEF _bmap
  <2>10. CASE new_block(t)
    BY <2>10, Panics_new_block
  <2>11. CASE data(t)
    BY <2>11 DEF data
  <2>12. CASE get_pipe_inode(t)
    BY <2>12 DEF get_pipe_inode
  <2>13. CASE Open(t)
    BY <2>13, GetEmptyPanics DEF Open
  <2>14. CASE Create(t)
    BY <2>14, GetEmptyPanics DEF Create
  <2>15. CASE Pipe(t)
    BY <2>15, GetEmptyPanics DEF Pipe
  <2>16. CASE Close(t)
    BY <2>16 DEF Close
  <2>17. CASE Unlink(t)
    BY <2>17 DEF Unlink
  <2>18. CASE Truncate(t)
    BY <2>18 DEF Truncate
  <2>19. CASE Access(t)
    BY <2>19 DEF Access
  <2>20. CASE Sync(t)
    BY <2>20, Panics_Sync
  <2> QED
    BY <1>2, <2>1, <2>2, <2>3, <2>4, <2>5, <2>6, <2>7, <2>8, <2>9, <2>10, <2>11, <2>12,
       <2>13, <2>14, <2>15, <2>16, <2>17, <2>18, <2>19, <2>20 DEF Step
<1>3. ASSUME NEW t \in Task, MountStep(t)
      PROVE  panic' = panic \/ panic' = "No free inodes in mem"
  <2>1. CASE Mount(t)
    BY <2>1, GetEmptyPanics DEF Mount
  <2>2. CASE sys_mount(t)
    BY <2>2 DEF sys_mount
  <2>3. CASE read_super(t)
    BY <2>3 DEF read_super
  <2>4. CASE Umount(t)
    BY <2>4 DEF Umount
  <2>5. CASE put_super(t)
    BY <2>5 DEF put_super
  <2> QED
    BY <1>3, <2>1, <2>2, <2>3, <2>4, <2>5 DEF MountStep
<1> QED
  BY <1>1, <1>2, <1>3 DEF MountNext

-----------------------------------------------------------------------------
(* The theorems                                                            *)

\* Files and tasks own the zones whose bits are set, one each.  With
\* open(O_TRUNC) of a file that others use this is not so: truncate frees zones
\* that another task has found in bmap and is about to read or write.
THEOREM ZoneInvariant == NoRaces => (MountSpec => [](InodeInv /\ ZInv))
<1> SUFFICES ASSUME NoRaces PROVE MountSpec => [](InodeInv /\ ZInv)
  OBVIOUS
<1>1. Init => InodeInv /\ ZInv
  BY InitIsSound, InitOwnsZones
<1>2. NoTableRaces
  BY DEF NoRaces, NoTableRaces
<1>3. InodeInv /\ ZInv /\ [MountNext]_vars => InodeInv' /\ ZInv'
  BY <1>2, NextIsSound, NextOwnsZones
<1> QED
  BY <1>1, <1>3, PTL DEF MountSpec

\* A zone that a file names has its bit set in the bitmap, and it is at one
\* place in one file: new_block, which sleeps between the bit and the pointer,
\* and truncate, which sleeps between the pointer and the bit, never give a
\* zone to two.
THEOREM ZonesAlwaysOwned == NoRaces => (MountSpec => []ZonesHaveOneOwner)
<1>1. InodeInv /\ ZInv => ZonesHaveOneOwner
  BY ZonesAreOwned
<1> QED
  BY <1>1, ZoneInvariant, PTL

\* In executions without the four races, the consistency checks of iget, iput,
\* write_inode, free_inode, free_block and new_block do not fail, whatever the
\* order of sleeps: the only panic is that of get_empty_inode when every entry is
\* in use.  (Each of the races makes one of the checks fail.)
THEOREM OnlyFullTables == NoRaces => (MountSpec => []OnlyFullTablesPanic)
<1> SUFFICES ASSUME NoRaces PROVE MountSpec => []OnlyFullTablesPanic
  OBVIOUS
<1>1. Init => OnlyFullTablesPanic
  BY DEF Init, OnlyFullTablesPanic
<1>2. InodeInv /\ ZInv /\ OnlyFullTablesPanic /\ [MountNext]_vars => OnlyFullTablesPanic'
  BY NextPanics
<1>3. MountSpec => [](InodeInv /\ ZInv)
  BY ZoneInvariant
<1> QED
  BY <1>1, <1>2, <1>3, PTL DEF MountSpec
=============================================================================

------------------------------- MODULE Inode -------------------------------
(***************************************************************************)
(* The table of inodes in memory (fs/inode.c), the bitmaps of inodes and   *)
(* zones (fs/bitmap.c) and truncate (fs/truncate.c).                       *)
(*                                                                         *)
(* A task runs alone from one point where it may sleep to the next: every  *)
(* action below is such a stretch of code, named for what the task slept   *)
(* in.  It sleeps in bread, getblk and get_hash_table, which only delay it *)
(* here (module BufferCache), and for an inode that is locked, which is a  *)
(* guard (module WaitQueue).                                               *)
(*                                                                         *)
(* A file has one direct zone and one zone of data behind i_zone[7] and    *)
(* behind i_zone[8]; they are blocks 0, 1 and 2, a block being as many     *)
(* steps away from the inode as its number says.                           *)
(***************************************************************************)
EXTENDS Integers, Sequences, FiniteSets, FiniteSetsExt

CONSTANTS
  Task,
  Slot,           \* the entries of inode_table
  Ino,            \* the inodes on the disks: pairs device, number
  InUse,          \* those that exist at first
  Dirs,           \* those of directories, which open and unlink do not change
  Zone,           \* the data zones of the root device
  Block,          \* the blocks that files may have, a subset of 0 .. 2
  May,            \* who makes which system calls: pairs task, call
  Races,          \* the races the tasks may run into, see below
  None

\* Four races the code does not exclude: open(O_TRUNC) while others use the
\* file, a name that goes between its lookup and iget, sync_inodes on an inode
\* that iput is about to free, and umount while a task that has passed the
\* mount point waits in iget for the root of the device, or while another
\* umount of the device waits in iput.
AllRaces == {"truncate", "lookup", "sync", "umount"}

ROOT_DEV == 1
ROOT_INO == 1
NoIno == <<0, 0>>
\* The inode of the root directory stays in an entry of its own for ever, which
\* the model leaves out of the table; mount_root made it s_imount of its device.
RootEntry == "root"

\* mkfs gives every device a root directory.
ASSUME InodeAssumption ==
  /\ IsFiniteSet(Task) /\ IsFiniteSet(Ino)
  /\ Ino \subseteq (Nat \ {0}) \X (Nat \ {0}) /\ InUse \subseteq Ino /\ Dirs \subseteq InUse
  /\ <<ROOT_DEV, ROOT_INO>> \notin Ino
  /\ \A i \in Ino : i[1] # ROOT_DEV => <<i[1], ROOT_INO>> \in Dirs
  /\ Zone \subseteq Nat \ {0}
  /\ Block \subseteq 0 .. 2
  /\ Races \subseteq AllRaces
  /\ May \subseteq Task \X {"open", "creat", "pipe", "unlink", "truncate", "access",
                        "sync", "mount"}
  /\ None \notin Task \cup Slot \cup {RootEntry} /\ RootEntry \notin Slot

VARIABLES
  inode,   \* inode_table
  disk,    \* the inodes in the blocks of the disks: links and zones
  imap,    \* the inodes whose bit is set
  zmap,    \* the zones whose bit is set
  ind,     \* the one pointer in a zone that is used as an indirect block
  super,   \* of each device: whether it has a super block, its lock, s_imount
  entry,   \* how many names of each inode the directories hold
  r,       \* the registers and the stack of every task
  panic    \* the message of a panic, or ""

fs == <<disk, imap, zmap, ind, super, entry>>
vars == <<inode, fs, r, panic>>

NoZones == [k \in 0 .. 2 |-> 0]
Zeroed == [ino |-> NoIno, count |-> 0, lock |-> FALSE, dirt |-> FALSE,
           links |-> 0, zone |-> NoZones, mount |-> FALSE, pipe |-> FALSE]

\* pc: what the task sleeps in, ret: where it returns to.  s: the inode at
\* work, empty: the one iget keeps for itself, ino: the one it wants.  file,
\* refs: what the program has open.  k: the cell truncate comes to, or the
\* steps bmap has to go.  hold: the zones whose buffers the task counts.
\* todo: the zones to free, rest: the inodes to sync.  make: bmap's create.
Registers == [pc |-> "user", ret |-> << >>, s |-> None, empty |-> None,
              ino |-> NoIno, file |-> None, refs |-> 0, k |-> 0, hold |-> {},
              todo |-> << >>, rest |-> {}, make |-> FALSE, dev |-> 0]

Init ==
  /\ inode = [s \in Slot |-> Zeroed]
  /\ disk = [i \in Ino |-> [links |-> IF i \in InUse THEN 1 ELSE 0,
                            zone |-> NoZones]]
  /\ imap = InUse
  /\ zmap = {}
  /\ ind = [z \in Zone |-> 0]
  /\ super = [d \in {i[1] : i \in Ino} |->
                [there |-> d = ROOT_DEV, lock |-> FALSE,
                 imount |-> IF d = ROOT_DEV THEN RootEntry ELSE None]]
  /\ entry = [i \in Ino |-> IF i \in InUse /\ i[1] = ROOT_DEV THEN 1 ELSE 0]
  /\ r = [t \in Task |-> Registers]
  /\ panic = ""

-----------------------------------------------------------------------------
(* Registers.                                                              *)

Call(q, pc, back) == [q EXCEPT !.pc = pc, !.ret = <<back>> \o @]

\* The end of a system call; the file stays open.
Leave(q) == [Registers EXCEPT !.file = q.file, !.refs = q.refs]
Return(q) == IF q.ret = << >> THEN Leave(q)
             ELSE [q EXCEPT !.pc = Head(q.ret), !.ret = Tail(@)]

\* Nobody runs while sys_umount goes on from iput to put_super: it has not slept.
At(t, pc) ==
  panic = "" /\ r[t].pc = pc /\ \A u \in Task \ {t} : r[u].pc # "put_super"
Set(t, q) == r' = [r EXCEPT ![t] = q]
Put(s, i) == inode' = [inode EXCEPT ![s] = i]
Panic(why) == panic' = why /\ UNCHANGED <<inode, r>>

Unlocked(s) == ~inode[s].lock
Locked(i) == [i EXCEPT !.lock = TRUE]
\* A mistake: iget passes the entries that nobody counts.
UsedSlotsOf(i) == {s \in Slot : inode[s].ino = i /\ inode[s].count > 0}
SlotsOf(i) == {s \in Slot : inode[s].ino = i}
HeldByOthers(t, z) == \E u \in Task \ {t} : z \in r[u].hold

-----------------------------------------------------------------------------
(* write_inode, and what its callers do next: it never sleeps after it has *)
(* unlocked the inode.  tab is the table that the code has got to.         *)

\* lock_inode, which need not wait here, and the start of bread.
WriteBack(t, q, tab, back) ==
  IF super[tab[q.s].ino[1]].there
  THEN /\ inode' = [tab EXCEPT ![q.s].lock = TRUE]
       /\ Set(t, Call(q, "write_inode", back))
       /\ UNCHANGED panic
  ELSE Panic("trying to write inode without device")

\* A mistake to be found: the entry keeps what it had of its last inode.
TakeUnzeroed(t, q, s) ==
  /\ Put(s, [inode[s] EXCEPT !.ino = NoIno, !.count = 1])
  /\ Set(t, [Return(q) EXCEPT !.empty = s])
  /\ UNCHANGED panic

\* The end of get_empty_inode: the inode is zeroed and counted.
Take(t, q, s) ==
  /\ Put(s, [Zeroed EXCEPT !.count = 1])
  /\ Set(t, [Return(q) EXCEPT !.empty = s])
  /\ UNCHANGED panic

\* An unused entry is neither dirty nor locked (NoChangeIsLost), so the loops
\* that write it and wait for it, and the preference for clean entries, do
\* nothing.  The search goes round from the last entry found: any one.
GetEmpty(t, q) ==
  \/ \E s \in Slot : inode[s].count = 0 /\ Take(t, q, s)
  \/ /\ \A s \in Slot : inode[s].count > 0
     /\ Panic("No free inodes in mem")

\* A mistake: iput frees an inode without links while others count it.
RepeatUncounted(t, q, tab) ==
  LET i == tab[q.s]
  IN IF i.links = 0
     THEN /\ inode' = tab
          /\ Set(t, Call([q EXCEPT !.k = 0], "truncate", "free_inode"))
          /\ UNCHANGED panic
     ELSE IF i.count > 1 \/ ~i.dirt
     THEN /\ inode' = [tab EXCEPT ![q.s].count = @ - 1]
          /\ Set(t, Return(q))
          /\ UNCHANGED panic
     ELSE WriteBack(t, q, tab, "repeat")

\* The code of iput from the label repeat on.
Repeat(t, q, tab) ==
  LET i == tab[q.s]
  IN IF i.count > 1 \/ (i.links # 0 /\ ~i.dirt)
     THEN /\ inode' = [tab EXCEPT ![q.s].count = @ - 1]
          /\ Set(t, Return(q))
          /\ UNCHANGED panic
     ELSE IF i.links = 0
     THEN /\ inode' = tab
          /\ Set(t, Call([q EXCEPT !.k = 0], "truncate", "free_inode"))
          /\ UNCHANGED panic
     ELSE WriteBack(t, q, tab, "repeat")

NeedsSync(i) == i.dirt /\ ~i.pipe /\ (i.links > 0 \/ "sync" \in Races)

\* sync_inodes passes the inodes that are clean and not locked.
SyncFrom(t, q, tab) ==
  LET stop == {s \in q.rest : tab[s].lock \/ NeedsSync(tab[s])}
      on(s) == [q EXCEPT !.s = s, !.rest = stop \ {s}]
  IN IF stop = {} THEN inode' = tab /\ Set(t, Return(q)) /\ UNCHANGED panic
     ELSE \E s \in stop :
            IF tab[s].lock
            THEN /\ inode' = tab
                 /\ Set(t, [on(s) EXCEPT !.pc = "sync_inodes"])
                 /\ UNCHANGED panic
            ELSE WriteBack(t, on(s), tab, "synced")

\* The inode is copied to the block and marked clean after bread has slept.
write_inode(t) ==
  /\ At(t, "write_inode")
  /\ LET q == Return(r[t])
         i == inode[q.s]
         tab == [inode EXCEPT ![q.s].dirt = FALSE, ![q.s].lock = FALSE]
     IN /\ disk' = [disk EXCEPT ![i.ino] = [links |-> i.links, zone |-> i.zone]]
        /\ IF q.pc = "repeat" THEN Repeat(t, q, tab) ELSE SyncFrom(t, q, tab)
  /\ UNCHANGED <<imap, zmap, ind, super, entry>>

-----------------------------------------------------------------------------
(* iget and iput.                                                          *)

\* What iget looks for once it has found the inode i, which may be that of a
\* mount point: the root of the device that is mounted there.
Crossed(i) ==
  LET on == {d \in DOMAIN super : \E s \in SlotsOf(i) :
               Unlocked(s) /\ inode[s].mount /\ super[d].imount = s}
  IN IF on = {} THEN i ELSE <<CHOOSE d \in on : TRUE, ROOT_INO>>

\* The search of iget from the start of the table: nobody has the inode, it
\* must be waited for, or it is there.  The empty inode has no device, so its
\* iput only takes its count back.
Search(t) ==
  LET q == r[t]
      i == Crossed(q.ino)
      opened(s) == [q EXCEPT !.file = s, !.refs = 1, !.empty = None]
  IN \/ /\ SlotsOf(i) = {}
        /\ IF super[i[1]].there
           THEN /\ Put(q.empty, [inode[q.empty] EXCEPT !.ino = i, !.lock = TRUE])
                /\ Set(t, [q EXCEPT !.pc = "read_inode", !.s = q.empty, !.ino = i])
                /\ UNCHANGED panic
           ELSE Panic("trying to read inode without dev")
     \/ \E s \in SlotsOf(i) :
          /\ inode[s].lock
          /\ Set(t, [q EXCEPT !.pc = "iget", !.s = s, !.ino = i])
          /\ UNCHANGED <<inode, panic>>
     \/ \E s \in SlotsOf(i) :
          /\ Unlocked(s)
          /\ inode' = [inode EXCEPT ![s].count = @ + 1, ![q.empty].count = @ - 1]
          /\ Set(t, Return(opened(s)))
          /\ UNCHANGED panic

\* iget, after get_empty_inode or after it has waited for an inode: if that
\* one has changed the search starts again, and else it comes to it again.
iget(t) ==
  /\ At(t, "iget") /\ (r[t].s # None => Unlocked(r[t].s))
  /\ Search(t)
  /\ UNCHANGED fs

read_inode(t) ==
  /\ At(t, "read_inode")
  /\ LET q == r[t]
         d == disk[q.ino]
     IN /\ Put(q.s, [inode[q.s] EXCEPT !.links = d.links, !.zone = d.zone,
                                       !.lock = FALSE])
        /\ Set(t, Return([q EXCEPT !.file = q.s, !.refs = 1, !.empty = None]))
  /\ UNCHANGED <<fs, panic>>

\* iput once the inode is not locked.  The sleep in sync_dev, for the special
\* file of a block device, is one with the wait for the lock.
iput(t) ==
  /\ At(t, "iput") /\ Unlocked(r[t].s)
  /\ LET q == r[t]
         i == inode[q.s]
     IN IF i.count = 0 THEN Panic("iput: trying to free free inode")
        ELSE IF i.pipe
        THEN /\ Put(q.s, IF i.count > 1 THEN [i EXCEPT !.count = @ - 1]
                         ELSE [i EXCEPT !.count = 0, !.dirt = FALSE, !.pipe = FALSE])
             /\ Set(t, Return(q))
             /\ UNCHANGED panic
        ELSE Repeat(t, q, inode)
  /\ UNCHANGED fs

sync_inodes(t) ==
  /\ At(t, "sync_inodes") /\ Unlocked(r[t].s)
  /\ IF NeedsSync(inode[r[t].s])
     THEN WriteBack(t, r[t], inode, "synced")
     ELSE SyncFrom(t, r[t], inode)
  /\ UNCHANGED fs

-----------------------------------------------------------------------------
(* The bitmaps and truncate.                                               *)

\* free_inode.
FreeInode(t, q, tab) ==
  LET i == tab[q.s]
  IN IF i.count > 1 THEN Panic("trying to free inode with count") /\ UNCHANGED imap
     ELSE IF i.links # 0 THEN Panic("trying to free inode with links") /\ UNCHANGED imap
     ELSE /\ imap' = imap \ {i.ino}
          /\ inode' = [tab EXCEPT ![q.s] = Zeroed]
          /\ Set(t, Return(q))
          /\ UNCHANGED panic

\* The end of truncate, and a mistake: the inode is not marked dirty.
TruncatedClean(i) == [i EXCEPT !.zone[1] = 0, !.zone[2] = 0]
Truncated(i) == [i EXCEPT !.zone[1] = 0, !.zone[2] = 0, !.dirt = TRUE]

\* The loop of truncate: on to the next zone of the inode, or to its end.
Advance(t, q, tab) ==
  LET cells == {j \in q.k .. 2 : tab[q.s].zone[j] # 0}
      j == Min(cells)
      back == Return(q)
      done == [tab EXCEPT ![q.s] = Truncated(@)]
  IN IF cells # {}
     THEN /\ inode' = tab
          /\ Set(t, [q EXCEPT !.k = j + 1, !.todo = <<<<tab[q.s].zone[j], j>>>>])
          /\ UNCHANGED <<imap, panic>>
     ELSE IF back.pc = "free_inode" THEN FreeInode(t, back, done)
     ELSE inode' = done /\ Set(t, back) /\ UNCHANGED <<imap, panic>>

\* free_block on zone z after get_hash_table has slept: a buffer that another
\* task counts keeps the zone from being freed.
Freed(t, z) == IF HeldByOthers(t, z) THEN zmap ELSE zmap \ {z}

\* What an indirect zone leads to.  If it cannot be read that is lost.
Below(z, deep, read) ==
  IF read /\ ind[z] # 0 THEN <<<<ind[z], deep - 1>>>> ELSE << >>

\* One stretch of truncate: it has read an indirect zone, whose pointers come
\* first, or found the buffer of the zone that is next to be freed.
truncate(t) ==
  /\ At(t, "truncate")
  /\ LET q == r[t]
         z == Head(q.todo)[1]
         deep == Head(q.todo)[2]
         left == Tail(q.todo)
         tab == IF q.k = 1 THEN [inode EXCEPT ![q.s].zone[0] = 0] ELSE inode
     IN IF q.todo = << >> THEN Advance(t, q, inode) /\ UNCHANGED zmap
        ELSE IF deep > 0
        THEN /\ \E read \in BOOLEAN :
                  Set(t, [q EXCEPT !.todo = Below(z, deep, read) \o <<<<z, 0>>>> \o left,
                                   !.hold = IF read THEN @ \cup {z} ELSE @])
             /\ UNCHANGED <<inode, imap, zmap, panic>>
        ELSE IF z \notin zmap /\ ~HeldByOthers(t, z)
        THEN Panic("free_block: bit already cleared") /\ UNCHANGED <<imap, zmap>>
        ELSE /\ zmap' = Freed(t, z)
             /\ LET p == [q EXCEPT !.todo = left, !.hold = @ \ {z}]
                IN IF left = << >> THEN Advance(t, p, tab)
                   ELSE Set(t, p) /\ UNCHANGED <<inode, imap, panic>>
  /\ UNCHANGED <<disk, ind, super, entry>>

\* new_inode, once it has an empty inode.
new_inode(t) ==
  /\ At(t, "new_inode")
  /\ LET q == r[t]
         free == {i \in Ino \ imap : i[1] = ROOT_DEV}
         i == CHOOSE i \in free : \A j \in free : i[2] <= j[2]
     IN IF free = {}
        THEN /\ inode' = [inode EXCEPT ![q.empty].count = @ - 1]
             /\ Set(t, Return(q))
             /\ UNCHANGED imap
        ELSE /\ imap' = imap \cup {i}
             /\ Put(q.empty, [inode[q.empty] EXCEPT !.ino = i, !.links = 1, !.dirt = TRUE])
             /\ Set(t, [q EXCEPT !.pc = "add_entry", !.file = q.empty, !.refs = 1,
                                     !.empty = None])
  /\ UNCHANGED <<disk, zmap, ind, super, entry, panic>>

-----------------------------------------------------------------------------
(* bmap and create_block.                                                  *)

\* new_block sets a bit before getblk sleeps.  mkfs marks the bits beyond the
\* last zone as used.
NewZone == Min(Zone \ zmap)

\* The pointer that _bmap looks at: in the inode, or in the zone whose buffer
\* it holds.
Pointer(q) == IF q.hold = {} THEN inode[q.s].zone[q.k] ELSE ind[Min(q.hold)]

\* _bmap with the pointer v, and k more to follow: the zone of data is read
\* next, or the indirect one; without a zone the read or write is over.
Follow(t, q, v) ==
  Set(t, IF v = 0 THEN Leave(q)
         ELSE IF q.k = 0 THEN [q EXCEPT !.hold = {v}, !.pc = "data"]
         ELSE [q EXCEPT !.hold = {v}, !.pc = "_bmap", !.k = @ - 1])

\* _bmap up to the next sleep, in bread or in the getblk of new_block.
Walk(t, q) ==
  IF Pointer(q) = 0 /\ q.make /\ zmap # Zone
  THEN /\ zmap' = zmap \cup {NewZone}
       /\ Set(t, [q EXCEPT !.pc = "new_block", !.todo = <<<<NewZone, 0>>>>])
  ELSE zmap' = zmap /\ Follow(t, q, Pointer(q))

\* bread has returned the indirect zone, or NULL.
_bmap(t) ==
  /\ At(t, "_bmap")
  /\ Walk(t, r[t]) \/ (Set(t, Leave(r[t])) /\ UNCHANGED zmap)
  /\ UNCHANGED <<inode, disk, imap, ind, super, entry, panic>>

\* getblk has returned: new_block clears the zone, and _bmap stores its number
\* where it had found none, whatever is there by now.
new_block(t) ==
  /\ At(t, "new_block")
  /\ LET q == r[t]
         z == Head(q.todo)[1]
         p == [q EXCEPT !.todo = << >>]
     IN IF HeldByOthers(t, z)
        THEN Panic("new block: count is != 1") /\ UNCHANGED fs
        ELSE /\ IF q.hold = {}
                THEN /\ Put(q.s, [inode[q.s] EXCEPT !.zone[q.k] = z, !.dirt = TRUE])
                     /\ ind' = [ind EXCEPT ![z] = 0]
                ELSE /\ ind' = [ind EXCEPT ![z] = 0, ![Min(q.hold)] = z]
                     /\ UNCHANGED inode
             /\ Follow(t, p, z)
             /\ UNCHANGED <<disk, imap, zmap, super, entry, panic>>

\* The block is in its buffer, and released after use.
data(t) ==
  /\ At(t, "data")
  /\ Set(t, Leave(r[t]))
  /\ UNCHANGED <<inode, fs, panic>>

\* get_pipe_inode, with or without a free page.
get_pipe_inode(t) ==
  /\ At(t, "get_pipe_inode")
  /\ LET e == r[t].empty
     IN \/ /\ Put(e, [inode[e] EXCEPT !.count = 2, !.pipe = TRUE])
           /\ Set(t, [Registers EXCEPT !.file = e, !.refs = 2])
        \/ Put(e, Zeroed) /\ Set(t, Registers)
  /\ UNCHANGED <<fs, panic>>

-----------------------------------------------------------------------------
(* What the system calls do with inodes.                                   *)

Calls(t, call) == At(t, "user") /\ <<t, call>> \in May /\ r[t].file = None
Uses(t, call) == At(t, "user") /\ <<t, call>> \in May /\ r[t].file # None
File(t) == inode[r[t].file]
Truncating(s) == \E t \in Task : r[t].pc = "truncate" /\ r[t].s = s
Alone(t) == "truncate" \in Races \/ File(t).count = 1

Open(t) ==
  /\ Calls(t, "open")
  /\ \E i \in {j \in Ino : entry[j] > 0} :
       GetEmpty(t, [Registers EXCEPT !.ino = i, !.ret = <<"iget">>])
  /\ UNCHANGED fs

Create(t) ==
  /\ Calls(t, "creat")
  /\ GetEmpty(t, [Registers EXCEPT !.ret = <<"new_inode">>])
  /\ UNCHANGED fs

Pipe(t) ==
  /\ Calls(t, "pipe")
  /\ GetEmpty(t, [Registers EXCEPT !.ret = <<"get_pipe_inode">>])
  /\ UNCHANGED fs

\* sys_mknod, open_namei: the new inode gets its name, or there is no room.
add_entry(t) ==
  /\ At(t, "add_entry")
  /\ LET q == r[t]
         s == q.file
     IN \/ /\ entry' = [entry EXCEPT ![inode[s].ino] = @ + 1]
           /\ Set(t, Leave(q))
           /\ UNCHANGED inode
        \/ /\ Put(s, [inode[s] EXCEPT !.links = 0])
           /\ Set(t, [Registers EXCEPT !.pc = "iput", !.s = s])
           /\ UNCHANGED entry
  /\ UNCHANGED <<disk, imap, zmap, ind, super, panic>>

Close(t) ==
  /\ At(t, "user") /\ r[t].file # None
  /\ LET q == r[t]
     IN Set(t, [Registers EXCEPT !.pc = "iput", !.s = q.file, !.refs = q.refs - 1,
                                 !.file = IF q.refs = 1 THEN None ELSE q.file])
  /\ UNCHANGED <<inode, fs, panic>>

\* sys_unlink, once it has the inode.
Unlink(t) ==
  /\ Uses(t, "unlink") /\ ~File(t).pipe
  /\ LET i == File(t).ino
     IN /\ i \notin Dirs /\ entry[i] > 0
        /\ "lookup" \in Races \/ \A u \in Task : r[u].ino # i
        /\ entry' = [entry EXCEPT ![i] = @ - 1]
  /\ Put(r[t].file, [File(t) EXCEPT !.links = @ - 1, !.dirt = TRUE])
  /\ UNCHANGED <<disk, imap, zmap, ind, super, r, panic>>

Truncate(t) ==
  /\ Uses(t, "truncate") /\ ~File(t).pipe /\ File(t).ino \notin Dirs
  /\ Alone(t)
  /\ Set(t, [r[t] EXCEPT !.pc = "truncate", !.s = r[t].file])
  /\ UNCHANGED <<inode, fs, panic>>

Access(t) ==
  /\ Uses(t, "access") /\ ~File(t).pipe /\ File(t).ino \notin Dirs
  /\ "truncate" \in Races \/ ~Truncating(r[t].file)
  /\ \E b \in Block, create \in BOOLEAN :
       Walk(t, [r[t] EXCEPT !.s = r[t].file, !.k = b, !.make = create])
  /\ UNCHANGED <<inode, disk, imap, ind, super, entry, panic>>

Sync(t) ==
  /\ At(t, "user") /\ <<t, "sync">> \in May
  /\ SyncFrom(t, [r[t] EXCEPT !.rest = Slot], inode)
  /\ UNCHANGED fs

Step(t) ==
  \/ iget(t) \/ read_inode(t) \/ write_inode(t)
  \/ iput(t) \/ sync_inodes(t) \/ truncate(t)
  \/ new_inode(t) \/ add_entry(t) \/ _bmap(t) \/ new_block(t) \/ data(t)
  \/ get_pipe_inode(t)
  \/ Open(t) \/ Create(t) \/ Pipe(t) \/ Close(t) \/ Unlink(t) \/ Truncate(t)
  \/ Access(t) \/ Sync(t)

Next == \E t \in Task : Step(t)

Spec == Init /\ [][Next]_vars

-----------------------------------------------------------------------------
(* Properties.                                                             *)

\* A task that is in iput gives its reference up at the end; in sys_umount it
\* is the reference of the mount.
Labels(q) == {q.pc} \cup {q.ret[n] : n \in DOMAIN q.ret}
Putting(q) == Labels(q) \cap {"iput", "repeat", "free_inode"} # {}
Unmounting(q) == "put_super" \in Labels(q)

\* The mounts that keep the inode of entry s; umount has given its one to iput.
Mounts(s) ==
  {d \in DOMAIN super :
     super[d].imount = s /\ ~\E t \in Task : Unmounting(r[t]) /\ r[t].dev = d}

References(s) ==
  Cardinality({x \in Task \X (1 .. 2) : r[x[1]].file = s /\ x[2] <= r[x[1]].refs})
  + Cardinality({t \in Task : r[t].empty = s})
  + Cardinality({t \in Task : r[t].s = s /\ Putting(r[t])})
  + Cardinality(Mounts(s))

\* i_count is the number of references: a task that uses an inode, waits for
\* one in get_empty_inode or gives one back, and a mount, has one each.
CountsAreExact ==
  panic = "" => \A s \in Slot : inode[s].count = References(s)

\* Two entries of the table never hold the same inode, although iget and
\* get_empty_inode sleep between the search and the use.
OneEntryPerInode ==
  \A s1, s2 \in Slot :
    inode[s1].ino = inode[s2].ino /\ inode[s1].ino # NoIno => s1 = s2

\* The table of inodes as iget and iput rely on it: both of the above.
TableIsExact == CountsAreExact /\ OneEntryPerInode

\* The inode as its users see it.
Current(i) ==
  LET s == {x \in SlotsOf(i) : ~\E t \in Task : r[t].pc = "read_inode" /\ r[t].s = x}
  IN IF s = {} THEN disk[i]
     ELSE [links |-> inode[CHOOSE x \in s : TRUE].links,
           zone |-> inode[CHOOSE x \in s : TRUE].zone]

\* The zone that position p of inode i names: the three zones of data and
\* the three indirect ones before them.
Named(i, p) ==
  LET z == Current(i).zone
      via(x) == IF x = 0 THEN 0 ELSE ind[x]
  IN CASE p = 1 -> z[0] [] p = 2 -> z[1] [] p = 3 -> via(z[1])
       [] p = 4 -> z[2] [] p = 5 -> via(z[2]) [] p = 6 -> via(via(z[2]))

\* A zone that a file names has its bit set and belongs to no other file, nor
\* twice to one.  The files that are being truncated are left out.
ZonesHaveOneOwner ==
  LET live == {i \in imap : ~\E s \in SlotsOf(i) : Truncating(s)}
      places == {x \in live \X (1 .. 6) : Named(x[1], x[2]) # 0}
  IN /\ \A x \in places : Named(x[1], x[2]) \in zmap
     /\ \A x, y \in places : Named(x[1], x[2]) = Named(y[1], y[2]) => x = y

\* A name always leads to an inode whose bit is set and that counts it.
NamesLeadToInodes ==
  \A i \in Ino : entry[i] > 0 => i \in imap /\ Current(i).links = entry[i]

\* What the table holds and has not marked dirty is on the disk, and what is
\* dirty or locked is in use, so that iput will write it: no change is lost when
\* get_empty_inode takes an entry or the device is unmounted.
CacheIsWritten ==
  \A s \in Slot :
    LET i == inode[s]
        reading == \E t \in Task : r[t].pc = "read_inode" /\ r[t].s = s
    IN /\ i.dirt \/ i.lock => i.count > 0
       /\ i.ino # NoIno /\ i.links > 0 /\ ~i.dirt /\ ~reading /\ ~Truncating(s)
            => disk[i.ino] = [links |-> i.links, zone |-> i.zone]

\* No change of an inode is lost, to its users and to the disk, and none of a
\* name to the inode that it leads to.
NoChangeIsLost == CacheIsWritten /\ NamesLeadToInodes

\* The consistency checks of the code never fail; only the table may be too
\* small.
OnlyFullTablesPanic == panic \in {"", "No free inodes in mem"}
=============================================================================

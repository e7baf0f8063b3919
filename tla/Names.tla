------------------------------- MODULE Names -------------------------------
(***************************************************************************)
(* Names and directories (fs/namei.c) on one device.                       *)
(*                                                                         *)
(* A task runs alone between two points where it may sleep; every action   *)
(* is such a stretch, named for what the task slept in.  The inodes are as *)
(* module Inode leaves them to their users: iget counts one and iput takes *)
(* the count back, each after a sleep.  One race is left to that module: a *)
(* name is not removed while a task waits in iget for the inode it led to  *)
(* (race "lookup" there).                                                  *)
(*                                                                         *)
(* A directory has up to NBlock zones with PerBlock entries each, "." and  *)
(* ".." among them.                                                        *)
(***************************************************************************)
EXTENDS Integers, Sequences, FiniteSets, FiniteSetsExt

CONSTANTS
  Task,
  NInode,      \* the inodes of the device are 1 .. NInode
  Zone,        \* the zones that directories can have
  PerBlock,    \* DIR_ENTRIES_PER_BLOCK
  NBlock,      \* the zones a directory has room for
  Calls,       \* the system calls: records task, call, path, new
  Fails,       \* what may fail: the permission, or to read a block, by place
  MaxBufs,     \* a bound for the buffers that empty_dir keeps
  Disks        \* what may be on the disk at first: inodes, zones and their entries

Ino == 1 .. NInode
ROOT_INO == 1

ASSUME NamesAssumption ==
  /\ NInode \in Nat /\ NBlock \in Nat \ {0} /\ PerBlock \in Nat \ {0}
  /\ MaxBufs \in Nat
  /\ Zone \subseteq Nat \ {0}
  /\ \A c \in Calls : /\ c.task \in Task /\ c.path # << >>
                      /\ c.call \in {"open", "creat", "mknod", "mkdir", "rmdir",
                                     "unlink", "link"}
                      /\ c.call = "link" => c.new # << >>

VARIABLES
  inode,    \* of every inode: kind, i_nlinks, i_count, entries in i_size, i_zone
  block,    \* the entries in every zone
  zmap,     \* the zones whose bit is set
  bufs,     \* the references to buffers that calls hold
  r,        \* registers and stack of every task
  flaws,    \* the flaws of the code that have shown: link, rmdir, mkdir, grow, bad
  panic

fs == <<inode, block, zmap, bufs, flaws, panic>>
vars == <<fs, r>>

NoEntry == [name |-> ".", ino |-> 0]
NoZones == [k \in 0 .. NBlock - 1 |-> 0]
FreeInode == [kind |-> "none", links |-> 0, count |-> 0, size |-> 0, zone |-> NoZones]

\* stage: which name of the call is looked up.  path: what is left of it.  want:
\* the inode iget waits for.  k, z, len: the block of the directory that is
\* being read, its zone, and how many entries find_entry will look at.  de: the entry found, as zone and
\* place.  todo: the inodes to be put, with what follows each without a sleep.
\* next: what the task does after that.
Registers == [pc |-> "user", call |-> "", stage |-> "", path |-> << >>, new |-> << >>,
              dir |-> 0, want |-> 0, k |-> 0, z |-> 0, len |-> 0, de |-> <<0, 0>>,
              inode |-> 0, old |-> 0, todo |-> << >>, next |-> "user", file |-> 0]

Init ==
  /\ \E d \in Disks : inode = d.inode /\ block = d.block /\ zmap = d.zmap
  /\ bufs = 0
  /\ r = [t \in Task |-> Registers]
  /\ flaws = {}
  /\ panic = ""

-----------------------------------------------------------------------------
At(t, pc) == panic = "" /\ r[t].pc = pc
Set(t, q) == r' = [r EXCEPT ![t] = q]
Holding(n) == bufs' = bufs + n
Steady == UNCHANGED <<inode, block, zmap, flaws, panic>>

\* Put the inodes of todo, one sleep each, and go on at next.
Then(q, todo, next) ==
  IF todo = << >> THEN [q EXCEPT !.pc = next]
  ELSE [q EXCEPT !.pc = "iput", !.todo = todo, !.next = next]
Leave(q, todo) == Then(q, todo, "user")

\* The same without success, where sys_link has its old inode as well; and a
\* mistake: it forgets that.
FailForgetful(q, todo) == Leave(q, todo)
Fail(q, todo) ==
  Leave(q, todo \o (IF q.old = 0 THEN << >> ELSE <<<<q.old, "">>>>))

\* find_entry for the next name of the path in q.dir, up to its first bread.
StartFind(q) ==
  IF inode[q.dir].zone[0] = 0 THEN Fail(q, <<<<q.dir, "">>>>)
  ELSE [q EXCEPT !.pc = "find_entry", !.len = inode[q.dir].size,
                 !.k = 0, !.z = inode[q.dir].zone[0]]

StartAdd(q) == [q EXCEPT !.pc = "add_entry", !.k = 0, !.z = inode[q.dir].zone[0]]

\* The blocks of directory d behind block k that have one of its first n entries,
\* those of them that it has a zone for, and the next of these.
Behind(k, n) == {j \in k + 1 .. NBlock - 1 : j * PerBlock < n}
Ahead(d, k, n) == {j \in Behind(k, n) : inode[d].zone[j] # 0}
Onward(q, d, n) ==
  LET j == Min(Ahead(d, q.k, n)) IN [q EXCEPT !.k = j, !.z = inode[d].zone[j]]

\* The entries of zone z, block k of a directory, within a size of n entries.
PlacesIn(z, k, n) == {<<z, p>> : p \in 0 .. Min({PerBlock, n - k * PerBlock}) - 1}
EntryAt(e) == block[e[1]][e[2]]
EntriesOf(d) ==
  {e \in UNION {PlacesIn(inode[d].zone[k], k, inode[d].size) :
                  k \in {k \in 0 .. NBlock - 1 : inode[d].zone[k] # 0}} : EntryAt(e).ino # 0}
Empty(d) == \A e \in EntriesOf(d) : EntryAt(e).name \in {".", ".."}
FirstOf(S) == CHOOSE e \in S : \A f \in S : e[2] <= f[2]

-----------------------------------------------------------------------------
(* Paths.                                                                  *)

\* The call begins with get_dir, which counts the root directory.
Start(t) ==
  /\ At(t, "user") /\ r[t].file = 0
  /\ \E c \in {x \in Calls : x.task = t} :
       Set(t, StartFind([Registers EXCEPT !.call = c.call, !.path = c.path,
                         !.new = c.new, !.dir = ROOT_INO,
                         !.stage = IF c.call = "link" THEN "old" ELSE "new"]))
  /\ inode' = [inode EXCEPT ![ROOT_INO].count = @ + 1]
  /\ UNCHANGED <<block, zmap, bufs, flaws, panic>>

\* What the calls do with an entry that is there: get_dir, namei and open go on
\* to its inode; mknod, mkdir and link fail; rmdir and unlink read the inode
\* while they hold the buffer.
Found(t, q, e) ==
  LET here == [q EXCEPT !.de = e, !.want = EntryAt(e).ino]
  IN IF Len(q.path) > 1 \/ q.stage = "old" \/ q.call \in {"open", "creat"}
     THEN /\ \/ Set(t, Then(here, <<<<q.dir, "">>>>, "iget"))
             \/ Len(q.path) = 1 /\ q.call = "creat" /\ Set(t, Fail(q, <<<<q.dir, "">>>>))
          /\ Holding(0)
     ELSE IF q.call \in {"rmdir", "unlink"}
     THEN Set(t, [here EXCEPT !.pc = "iget"]) /\ Holding(1)
     ELSE Set(t, Fail(q, <<<<q.dir, "">>>>)) /\ Holding(0)

\* And with one that is not: those that make a name go on if they may.
NotFound(t, q) ==
  IF Len(q.path) > 1 \/ q.stage = "old" \/ q.call \in {"open", "rmdir", "unlink"}
  THEN Set(t, Fail(q, <<<<q.dir, "">>>>))
  ELSE \/ /\ "permission" \in Fails
          /\ Set(t, Fail(q, <<<<q.dir, "">>>>))
       \/ Set(t, IF q.call = "link" THEN StartAdd(q) ELSE [q EXCEPT !.pc = "new_inode"])

\* bread has returned block k of the directory, or nothing; a block that it has
\* no zone for is passed, and one that cannot be read, except for the first.
find_entry(t) ==
  /\ At(t, "find_entry")
  /\ LET q == r[t]
         seen == {e \in PlacesIn(q.z, q.k, q.len) :
                    EntryAt(e).ino # 0 /\ EntryAt(e).name = Head(q.path)}
         more == Ahead(q.dir, q.k, q.len) # {}
     IN \/ seen # {} /\ Found(t, q, FirstOf(seen))
        \/ /\ seen = {} \/ (q.k > 0 /\ "find" \in Fails)
           /\ IF more THEN Set(t, Onward(q, q.dir, q.len)) ELSE NotFound(t, q)
           /\ Holding(0)
        \/ q.k = 0 /\ "find" \in Fails /\ NotFound(t, q) /\ Holding(0)
  /\ Steady

\* sys_unlink up to the entry it clears; sys_rmdir up to empty_dir.
MayRemove(q, i) ==
  IF q.call = "unlink" THEN inode[i].kind # "dir"
  ELSE inode[i].kind = "dir" /\ inode[i].count = 0 /\ i # q.dir

\* The entry is cleared.  "link": the code finds no links left, prints that
\* it deletes a nonexistent file, and goes on as if there were one.  "rmdir":
\* since the directory was found unused, another task has counted it, or made
\* a name in a block that empty_dir had passed.
Clear(t, q, i, tab) ==
  /\ \A u \in Task \ {t} : r[u].want # i
  /\ block' = [block EXCEPT ![q.de[1]][q.de[2]].ino = 0]
  /\ IF q.call = "unlink"
     THEN /\ inode' = [tab EXCEPT ![i].links = IF @ = 0 THEN 0 ELSE @ - 1]
          /\ flaws' = flaws \cup (IF tab[i].links = 0 THEN {"link"} ELSE {})
          /\ Set(t, Then(q, <<<<i, "">>, <<q.dir, "">>>>, "user"))
     ELSE /\ inode' = [tab EXCEPT ![i].links = 0, ![q.dir].links = @ - 1]
          /\ flaws' = flaws \cup (IF tab[i].count > 1 \/ ~Empty(i) THEN {"rmdir"} ELSE {})
          /\ Set(t, Then(q, <<<<q.dir, "">>, <<i, "">>>>, "user"))
  /\ Holding(-1)
  /\ UNCHANGED <<zmap, panic>>

\* rmdir of a directory that is not empty.
NotEmpty(t, q, i) == Set(t, Fail(q, <<<<i, "">>, <<q.dir, "brelse">>>>))

\* iget has the inode: get_dir looks up the next name in it, open is done,
\* sys_link has its old inode and turns to the new name, unlink and rmdir look
\* whether it may be removed.
iget(t) ==
  /\ At(t, "iget")
  /\ LET q == [r[t] EXCEPT !.want = 0]
         i == r[t].want
         tab == [inode EXCEPT ![i].count = @ + 1]
         gone == UNCHANGED <<block, zmap, flaws, panic>>
         on == inode' = tab /\ Holding(0) /\ gone
     IN IF Len(q.path) > 1
        THEN /\ on
             /\ \/ inode[i].kind = "dir"
                   /\ Set(t, StartFind([q EXCEPT !.dir = i, !.path = Tail(@)]))
                \/ (inode[i].kind # "dir" \/ "permission" \in Fails)
                   /\ Set(t, Fail(q, <<<<i, "">>>>))
        ELSE IF q.stage = "old"
        THEN /\ inode' = [tab EXCEPT ![ROOT_INO].count =
                                       @ + (IF inode[i].kind = "dir" THEN 0 ELSE 1)]
             /\ Holding(0) /\ gone
             /\ Set(t, IF inode[i].kind = "dir" THEN Fail(q, <<<<i, "">>>>)
                       ELSE StartFind([q EXCEPT !.stage = "new", !.path = q.new,
                                                !.old = i, !.dir = ROOT_INO]))
        ELSE IF q.call \in {"open", "creat"}
        THEN on /\ \/ Set(t, [Registers EXCEPT !.file = i])
                   \/ "permission" \in Fails /\ Set(t, Fail(q, <<<<i, "">>>>))
        ELSE \/ /\ ~MayRemove(q, i) \/ "permission" \in Fails
                /\ inode' = tab /\ Holding(0) /\ gone
                /\ Set(t, Fail(q, <<<<q.dir, "">>, <<i, "brelse">>>>))
             \/ /\ MayRemove(q, i)
                /\ IF q.call = "unlink" THEN Clear(t, q, i, tab)
                   ELSE IF inode[i].size < 2 \/ inode[i].zone[0] = 0 THEN on /\ NotEmpty(t, q, i)
                   ELSE on /\ Set(t, [q EXCEPT !.pc = "empty_dir", !.inode = i,
                                             !.k = 0, !.z = inode[i].zone[0]])

\* bread has returned block k of the directory that rmdir removes; a block
\* that cannot be read ends it.  "bad": the first block does not begin with "."
\* and "..", and empty_dir returns without brelse.  At a block that has no zone it
\* releases the buffer of the block before once more, which is a panic (or takes
\* the buffer from a task that reads the directory: that is not followed here).
IsBad(i, z) ==
  \/ EntryAt(<<z, 0>>) # [name |-> ".", ino |-> i]
  \/ EntryAt(<<z, 1>>).name # ".." \/ EntryAt(<<z, 1>>).ino = 0

empty_dir(t) ==
  /\ At(t, "empty_dir")
  /\ LET q == r[t]
         i == q.inode
         n == inode[i].size
         bad == q.k = 0 /\ IsBad(i, q.z)
         used == {e \in PlacesIn(q.z, q.k, n) : EntryAt(e).ino # 0 /\ (q.k > 0 \/ e[2] > 1)}
         ahead == Ahead(i, q.k, n)
         holes == {j \in Behind(q.k, n) \ ahead : \A a \in ahead : j < a}
     IN \/ /\ "empty_dir" \in Fails \/ (~bad /\ used # {})
           /\ NotEmpty(t, q, i) /\ Holding(0) /\ Steady
        \/ /\ bad /\ bufs < MaxBufs
           /\ NotEmpty(t, q, i) /\ Holding(1)
           /\ flaws' = flaws \cup {"bad"} /\ UNCHANGED <<inode, block, zmap, panic>>
        \/ /\ ~bad /\ used = {} /\ holes # {}
           /\ panic' = "brelse: trying to free free buffer"
           /\ UNCHANGED <<inode, block, zmap, bufs, flaws, r>>
        \/ /\ ~bad /\ used = {} /\ holes = {} /\ ahead # {}
           /\ Set(t, Onward(q, i, n))
           /\ Holding(0) /\ Steady
        \/ /\ ~bad /\ used = {} /\ holes = {} /\ ahead = {}
           /\ Clear(t, q, i, inode)

-----------------------------------------------------------------------------
(* New names.                                                              *)

\* new_inode, with an inode or without; its mode is set next, by mkdir later.
new_inode(t) ==
  /\ At(t, "new_inode")
  /\ LET q == r[t]
         free == {i \in Ino : inode[i].kind = "none"}
         i == Min(free)
     IN IF free = {}
        THEN inode' = inode /\ Set(t, Fail(q, <<<<q.dir, "">>>>))
        ELSE /\ inode' = [inode EXCEPT ![i] =
                            [FreeInode EXCEPT !.count = 1, !.links = 1,
                             !.kind = IF q.call = "mkdir" THEN "new" ELSE "file"]]
             /\ Set(t, IF q.call = "mkdir"
                       THEN [q EXCEPT !.inode = i, !.pc = "new_block"]
                       ELSE StartAdd([q EXCEPT !.inode = i]))
  /\ UNCHANGED <<block, zmap, bufs, flaws, panic>>

\* new_block for a new directory; its bit is set, then getblk may sleep.
new_block(t) ==
  /\ At(t, "new_block")
  /\ LET q == r[t]
         z == Min(Zone \ zmap)
     IN IF zmap = Zone
        THEN Set(t, Fail(q, <<<<q.dir, "unlink">>, <<q.inode, "">>>>)) /\ UNCHANGED <<zmap, inode>>
        ELSE /\ zmap' = zmap \cup {z}
             /\ inode' = [inode EXCEPT ![q.inode].zone[0] = z, ![q.inode].size = 2]
             /\ Set(t, [q EXCEPT !.pc = "sys_mkdir"])
  /\ UNCHANGED <<block, bufs, flaws, panic>>

\* sys_mkdir has read the new block, or not.
sys_mkdir(t) ==
  /\ At(t, "sys_mkdir")
  /\ LET q == r[t]
         z == inode[q.inode].zone[0]
     IN \/ /\ block' = [block EXCEPT ![z] = [p \in 0 .. PerBlock - 1 |->
                          CASE p = 0 -> [name |-> ".", ino |-> q.inode]
                            [] p = 1 -> [name |-> "..", ino |-> q.dir]
                            [] OTHER -> NoEntry]]
           /\ inode' = [inode EXCEPT ![q.inode].links = 2, ![q.inode].kind = "dir"]
           /\ Set(t, StartAdd(q))
        \/ /\ "mkdir" \in Fails
           /\ Set(t, Fail(q, <<<<q.dir, "free">>, <<q.inode, "">>>>))
           /\ UNCHANGED <<block, inode>>
  /\ UNCHANGED <<zmap, bufs, flaws, panic>>

\* add_entry has failed: the new inode loses its links, a new directory its
\* block, after the directory is put, or before in open.  "mkdir": the block is
\* freed, but iput will free it again with the inode.
NoRoom(t, q) ==
  /\ Set(t, CASE q.call = "link" -> Fail(q, <<<<q.dir, "">>>>)
              [] q.call = "mkdir" -> Fail(q, <<<<q.dir, "free">>, <<q.inode, "">>>>)
              [] q.call = "mknod" -> Fail(q, <<<<q.dir, "unlink">>, <<q.inode, "">>>>)
              [] OTHER -> Fail(q, <<<<q.inode, "">>, <<q.dir, "">>>>))
  /\ inode' = IF q.call = "creat" THEN [inode EXCEPT ![q.inode].links = 0] ELSE inode
  /\ flaws' = flaws \cup (IF q.call = "mkdir" THEN {"mkdir"} ELSE {})
  /\ Holding(0)
  /\ UNCHANGED block

\* A new directory counts its parent in "..".  A mistake: it does not.
Uncounted(q, tab) == tab
Counted(q, tab) == IF q.call = "mkdir" THEN [tab EXCEPT ![q.dir].links = @ + 1] ELSE tab

\* add_entry has a place, and the caller fills it before it sleeps again.
Enter(t, q, e, tab) ==
  /\ block' = [block EXCEPT ![e[1]][e[2]] =
                 [name |-> Head(q.path), ino |-> IF q.call = "link" THEN q.old ELSE q.inode]]
  /\ inode' = Counted(q, tab)
  /\ Holding(IF q.call \in {"mknod", "mkdir"} THEN 1 ELSE 0)
  /\ Set(t, CASE q.call = "link" -> Leave(q, <<<<q.dir, "link">>, <<q.old, "">>>>)
              [] q.call = "creat" -> Then([Registers EXCEPT !.file = q.inode],
                                          <<<<q.dir, "">>>>, "user")
              [] OTHER -> Leave(q, <<<<q.dir, "">>, <<q.inode, "brelse">>>>))

\* add_entry with block k of the directory, up to the next sleep: the first
\* place in it that is free or behind the last entry, or the next block.
add_entry(t) ==
  /\ At(t, "add_entry")
  /\ LET q == r[t]
         d == q.dir
         size == inode[d].size
         free == {e \in PlacesIn(q.z, q.k, (q.k + 1) * PerBlock) :
                    EntryAt(e).ino = 0 \/ q.k * PerBlock + e[2] >= size}
         e == FirstOf(free)
         n == q.k * PerBlock + e[2] + 1
         grown == IF n > size THEN [inode EXCEPT ![d].size = n] ELSE inode
     IN \/ /\ free # {}
           /\ Enter(t, q, e, grown)
           /\ UNCHANGED <<zmap, flaws>>
        \/ /\ q.k = 0 /\ (q.z = 0 \/ "add" \in Fails)
           /\ NoRoom(t, q) /\ UNCHANGED zmap
        \/ /\ free = {} \/ (q.k > 0 /\ "add" \in Fails)
           /\ LET k == q.k + 1
              IN IF k = NBlock \/ (inode[d].zone[k] = 0 /\ zmap = Zone)
                 THEN NoRoom(t, q) /\ UNCHANGED zmap
                 ELSE /\ IF inode[d].zone[k] # 0
                         THEN Set(t, [q EXCEPT !.k = k, !.z = inode[d].zone[k]]) /\ UNCHANGED zmap
                         ELSE /\ zmap' = zmap \cup {Min(Zone \ zmap)}
                              /\ Set(t, [q EXCEPT !.k = k, !.pc = "create_block",
                                                  !.z = Min(Zone \ zmap)])
                      /\ Holding(0) /\ UNCHANGED <<inode, block, flaws>>
  /\ UNCHANGED panic

\* getblk has slept in new_block.  The zone goes where create_block had found
\* none.  "grow": another task has put one there meanwhile.
create_block(t) ==
  /\ At(t, "create_block")
  /\ LET q == r[t]
     IN /\ inode' = [inode EXCEPT ![q.dir].zone[q.k] = q.z]
        /\ block' = [block EXCEPT ![q.z] = [p \in 0 .. PerBlock - 1 |-> NoEntry]]
        /\ flaws' = flaws \cup (IF inode[q.dir].zone[q.k] # 0 THEN {"grow"} ELSE {})
        /\ Set(t, [q EXCEPT !.pc = "add_entry"])
  /\ UNCHANGED <<zmap, bufs, panic>>

-----------------------------------------------------------------------------
\* A mistake: the new name of an inode is not counted.
AfterUncounted(q, what, tab) ==
  CASE what \in {"free", "unlink"} -> [tab EXCEPT ![q.inode].links = 0]
    [] OTHER -> tab

\* What a call does with the links of its inode once a directory is put.
After(q, what, tab) ==
  CASE what \in {"free", "unlink"} -> [tab EXCEPT ![q.inode].links = 0]
    [] what = "link" -> [tab EXCEPT ![q.old].links = @ + 1]
    [] OTHER -> tab

ZonesOf(i) == {inode[i].zone[k] : k \in 0 .. NBlock - 1} \ {0}

\* The last iput of an inode without links truncates files and directories
\* and frees the inode.
iput(t) ==
  /\ At(t, "iput")
  /\ LET q == r[t]
         i == q.todo[1][1]
         what == q.todo[1][2]
         last == inode[i].count = 1 /\ inode[i].links = 0
         freed == IF last /\ inode[i].kind # "new" THEN ZonesOf(i) ELSE {}
         also == IF what = "free" THEN {inode[q.inode].zone[0]} ELSE {}
         tab == IF last THEN [inode EXCEPT ![i] = FreeInode]
                ELSE [inode EXCEPT ![i].count = @ - 1]
         left == Then(q, Tail(q.todo), q.next)
     IN IF inode[i].count = 0
        THEN panic' = "iput: trying to free free inode" /\ UNCHANGED <<inode, zmap, bufs, r>>
        ELSE IF ~(freed \cup also \subseteq zmap)
        THEN panic' = "free_block: bit already cleared" /\ UNCHANGED <<inode, zmap, bufs, r>>
        ELSE /\ inode' = After(q, what, tab)
             /\ zmap' = zmap \ (freed \cup also)
             /\ Holding(IF what = "brelse" THEN -1 ELSE 0)
             /\ Set(t, IF left.pc = "user" THEN [Registers EXCEPT !.file = q.file]
                       ELSE [left EXCEPT !.todo = Tail(q.todo)])
             /\ UNCHANGED panic
  /\ UNCHANGED <<block, flaws>>

\* The file is used and closed.
Close(t) ==
  /\ At(t, "user") /\ r[t].file # 0
  /\ Set(t, Leave(Registers, <<<<r[t].file, "">>>>))
  /\ UNCHANGED fs

Step(t) ==
  \/ Start(t) \/ find_entry(t) \/ iget(t) \/ empty_dir(t)
  \/ new_inode(t) \/ new_block(t) \/ sys_mkdir(t) \/ add_entry(t)
  \/ create_block(t) \/ iput(t) \/ Close(t)

Next == \E t \in Task : Step(t)

Spec == Init /\ [][Next]_vars

-----------------------------------------------------------------------------
(* Properties.                                                             *)

Idle == \A t \in Task : r[t].pc = "user"
UsersOf(i) == Cardinality({t \in Task : r[t].file = i}) + (IF i = ROOT_INO THEN 1 ELSE 0)

\* Every path through a call, with its errors, gives back each inode and each
\* buffer that it has counted, once; but rmdir of a directory that does not begin
\* with "." and ".." keeps its first buffer ("bad"), and one with a hole makes it
\* give back a buffer twice, which is a panic in brelse.
NothingIsKept ==
  /\ panic # "iput: trying to free free inode"
  /\ Idle /\ panic = "" => /\ \A i \in Ino : inode[i].count = UsersOf(i)
                           /\ "bad" \notin flaws => bufs = 0

Live(i) == inode[i].kind = "dir" /\ inode[i].links > 0
NamesOf(i) == UNION {{e \in EntriesOf(d) : EntryAt(e).ino = i} : d \in {d \in Ino : Live(d)}}

\* A name never leads to an inode that is free, whatever tasks do to it and to
\* its other names; but once mkdir has freed a block twice, anything goes.
NoNameDangles ==
  "mkdir" \notin flaws => \A d \in Ino : Live(d) => \A e \in EntriesOf(d) : inode[EntryAt(e).ino].kind # "none"

\* When all calls have ended, an inode has as many links as it has names, and
\* one without is free; unless one of the four flaws has shown that lose a link.
LinksAreNames ==
  Idle /\ panic = "" /\ flaws \subseteq {"bad"} =>
    \A i \in Ino : LET n == Cardinality(NamesOf(i))
                   IN IF inode[i].kind = "none" THEN n = 0
                      ELSE inode[i].links = n /\ (n > 0 \/ UsersOf(i) > 0)

\* The consistency checks of iput, free_block and brelse never fail.
NeverPanics == panic = ""
=============================================================================

------------------------------- MODULE Mount -------------------------------
(***************************************************************************)
(* Super blocks, mount and umount (fs/super.c), on top of the inodes: iget *)
(* passes from a mount point to the root of what is mounted there.         *)
(***************************************************************************)
EXTENDS Inode

CONSTANT NR_SUPER    \* the size of the table of super blocks

ASSUME MountAssumption == NR_SUPER \in Nat

Devices == DOMAIN super
Supers == {d \in Devices : super[d].there}

\* sys_mount is over without success: the directory is given back.
MountFails(t) ==
  Set(t, [Registers EXCEPT !.pc = "iput", !.s = r[t].file])

\* The end of sys_mount, with the super block of device d: the directory
\* keeps its count until umount.
MountOn(t, d, supers) ==
  LET s == r[t].file
  IN IF supers[d].imount # None \/ inode[s].mount
     THEN super' = supers /\ MountFails(t) /\ UNCHANGED inode
     ELSE /\ super' = [supers EXCEPT ![d].imount = s]
          /\ Put(s, [inode[s] EXCEPT !.mount = TRUE, !.dirt = TRUE])
          /\ Set(t, Registers)

\* sys_mount begins with namei of the directory; it keeps the device in dev.
Mount(t) ==
  /\ Calls(t, "mount")
  /\ \E i \in {j \in Ino : entry[j] > 0}, d \in Devices :
       GetEmpty(t, [Registers EXCEPT !.ino = i, !.dev = d,
                                     !.ret = <<"iget", "sys_mount">>])
  /\ UNCHANGED fs

\* sys_mount with the inode of the directory: read_super finds the super
\* block, waits for it, or claims an entry of the table and reads.
sys_mount(t) ==
  /\ At(t, "sys_mount")
  /\ LET d == r[t].dev
         s == r[t].file
     IN IF inode[s].count # 1 \/ inode[s].ino[2] = ROOT_INO \/ inode[s].ino \notin Dirs
           \/ (d \notin Supers /\ Cardinality(Supers) = NR_SUPER)
        THEN MountFails(t) /\ UNCHANGED <<inode, super>>
        ELSE IF d \in Supers
        THEN /\ ~super[d].lock
             /\ MountOn(t, d, super)
        ELSE /\ super' = [super EXCEPT ![d] = [there |-> TRUE, lock |-> TRUE,
                                               imount |-> None]]
             /\ Set(t, [r[t] EXCEPT !.pc = "read_super"])
             /\ UNCHANGED inode
  /\ UNCHANGED <<disk, imap, zmap, ind, entry, panic>>

\* The end of read_super: with the super block and all its bitmaps, or with
\* a block that could not be read or is no super block.
read_super(t) ==
  /\ At(t, "read_super")
  /\ LET d == r[t].dev
         unlocked == [super EXCEPT ![d].lock = FALSE]
     IN \/ MountOn(t, d, unlocked)
        \/ /\ super' = [unlocked EXCEPT ![d].there = FALSE]
           /\ MountFails(t)
           /\ UNCHANGED inode
  /\ UNCHANGED <<disk, imap, zmap, ind, entry, panic>>

\* An inode of the device is in use, in the table that sys_umount goes through.
\* A mistake: it looks for inodes that are locked.
LockedOn(d) == \E s \in Slot : inode[s].ino[1] = d /\ inode[s].lock
BusyOn(d) == \E s \in Slot : inode[s].ino[1] = d /\ inode[s].count > 0

\* sys_umount up to iput(sb->s_imount); without success it changes nothing.
Umount(t) ==
  /\ At(t, "user") /\ <<t, "mount">> \in May
  /\ \E d \in Supers \ {ROOT_DEV} :
       LET s == super[d].imount
       IN /\ ~super[d].lock /\ s # None
          /\ ~BusyOn(d)
          /\ "umount" \in Races
             \/ \A u \in Task : r[u].ino[1] # d /\ ~(Unmounting(r[u]) /\ r[u].dev = d)
          /\ Put(s, [inode[s] EXCEPT !.mount = FALSE])
          /\ Set(t, [r[t] EXCEPT !.pc = "iput", !.s = s, !.dev = d,
                                 !.ret = <<"put_super">>])
  /\ UNCHANGED <<fs, panic>>

\* The rest of sys_umount: s_imount is cleared and put_super frees the entry.
put_super(t) ==
  /\ At(t, "put_super")
  /\ super' = [super EXCEPT ![r[t].dev] = [there |-> FALSE, lock |-> FALSE,
                                         imount |-> None]]
  /\ Set(t, Leave(r[t]))
  /\ UNCHANGED <<inode, disk, imap, zmap, ind, entry, panic>>

MountStep(t) ==
  Mount(t) \/ sys_mount(t) \/ read_super(t) \/ Umount(t) \/ put_super(t)

MountNext == \E t \in Task : Step(t) \/ MountStep(t)

MountSpec == Init /\ [][MountNext]_vars

-----------------------------------------------------------------------------
(* Properties.                                                             *)

\* An inode that is in use is of a device with a super block: the bitmaps that
\* iput will need are there until umount, which waits for nobody.
UsedInodesAreMounted ==
  \A s \in Slot : inode[s].count > 0 /\ inode[s].ino # NoIno
                    => super[inode[s].ino[1]].there
=============================================================================

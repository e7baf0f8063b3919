------------------------------ MODULE MCInode ------------------------------
\* A root device with its root directory, a directory to mount on, a file and
\* a free inode, and a second device.
EXTENDS Mount, TLC

Root == <<1, 1>>
Dir == <<1, 2>>
Free == <<1, 4>>
File1 == <<1, 3>>
Other == <<2, 1>>

Inodes == {Dir, File1, Free, Other}
Present == {Dir, File1, Other}
Directories == {Dir, Other}

CONSTANTS t1, t2

\* One task mounts, syncs and opens files; the other one makes them, changes
\* them and removes them; both read and write.
Roles == ({t1} \X {"open", "access", "sync", "mount"})
           \cup ({t2} \X {"creat", "pipe", "unlink", "truncate", "access"})

\* What the disk holds of inodes and zones that are free is overwritten before
\* it is read again.
Live == <<inode, [i \in imap |-> disk[i]], imap, zmap, [z \in zmap |-> ind[z]],
          super, entry, r, panic>>

Similar == Permutations(Slot)

=============================================================================

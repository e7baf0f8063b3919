------------------------------ MODULE MCNames ------------------------------
\* The root directory with a file a, and two free inodes.  A zone holds three
\* entries, so that the block of the root directory is full.
EXTENDS Names, TLC

CONSTANTS t1, t2

Entry(n, i) == [name |-> n, ino |-> i]
Filled(S) == [p \in 0 .. PerBlock - 1 |-> IF p < Len(S) THEN S[p + 1] ELSE NoEntry]
Directory(links, count, size, z) ==
  [kind |-> "dir", links |-> links, count |-> count, size |-> size,
   zone |-> [NoZones EXCEPT ![0] = z]]

Small ==
  [inode |-> [i \in Ino |-> CASE i = 1 -> Directory(2, 1, 3, 1)
                               [] i = 2 -> [FreeInode EXCEPT !.kind = "file", !.links = 1]
                               [] OTHER -> FreeInode],
   block |-> [z \in Zone |->
     Filled(IF z = 1 THEN <<Entry(".", 1), Entry("..", 1), Entry("a", 2)>> ELSE << >>)],
   zmap |-> {1}]
JustSmall == {Small}

\* The root directory with a directory d, of so many entries, that has the zone 2
\* with entries S; links: how many names lead to the root directory.
WithDirectory(links, size, S) ==
  [inode |-> [i \in Ino |-> CASE i = 1 -> Directory(links, 1, 3, 1)
                               [] i = 2 -> Directory(2, 0, size, 2)
                               [] OTHER -> FreeInode],
   block |-> [z \in Zone |->
     Filled(CASE z = 1 -> <<Entry(".", 1), Entry("..", 1), Entry("d", 2)>>
              [] z = 2 -> S
              [] OTHER -> << >>)],
   zmap |-> {1, 2}]

\* Also a directory that has lost its "..", and one with a hole for its second
\* block.
Three == {Small, WithDirectory(2, 2, <<Entry(".", 2), Entry("..", 0)>>),
          WithDirectory(3, 4, <<Entry(".", 2), Entry("..", 1)>>)}

Does(t, call, path) == [task |-> t, call |-> call, path |-> path, new |-> << >>]
Links(t, old, new) == [task |-> t, call |-> "link", path |-> old, new |-> new]

Both ==
  {Links(t1, <<"a">>, <<"b">>), Does(t1, "mkdir", <<"d">>), Does(t1, "rmdir", <<"d">>),
   Links(t1, <<"a">>, <<"d", "a">>),
   Does(t2, "mknod", <<"d", "a">>), Does(t2, "unlink", <<"a">>), Does(t2, "creat", <<"b">>),
   Does(t2, "unlink", <<"d", "a">>)}
Directories == {Does(t1, "mkdir", <<"b">>), Does(t1, "creat", <<"b">>), Does(t1, "unlink", <<"a">>)}

\* What zones that are free hold is overwritten before it is read again.
Used == <<inode, [z \in zmap |-> block[z]], zmap, bufs, r, flaws, panic>>
=============================================================================

------------------------------- MODULE MCCache -------------------------------
\* Two tasks and fewer buffers than blocks; the last block is on the floppy.
EXTENDS BufferCache, TLC

TwoDevices == [k \in Block |-> IF k = NBlock THEN "fd" ELSE "hd"]

\* Block 1 is written as part of a file, block 2 is read and block 3 read ahead,
\* block 3 is written as a whole.
EveryCall ==
  {<<"file_write", 1>>, <<"breada", 2>>, <<"block_write", 3>>, <<"sync", 1>>}

Symmetric == Permutations(Task)

=============================================================================

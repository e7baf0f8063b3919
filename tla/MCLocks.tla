------------------------------- MODULE MCLocks -------------------------------
\* Three tasks, an inode lock (released by its holder) and a buffer lock
\* (released by the disk interrupt).
EXTENDS WaitQueueProof, TLC

Symmetric == Permutations(Task)

=============================================================================

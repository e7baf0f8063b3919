------------------------------ MODULE BlockStore ------------------------------
(***************************************************************************)
(* What the buffer cache promises the file system: blocks whose contents   *)
(* change when a task writes them, once for each call, and never           *)
(* otherwise.  Module BufferCache implements it with a few buffers in      *)
(* front of disks that hold older contents.                                *)
(***************************************************************************)
CONSTANTS Task, Block, Data, None

VARIABLES
  content,  \* what a reader of each block finds
  writes    \* the block that each task has been asked to write

svars == <<content, writes>>

\* Any contents may be on the disks to begin with.
Init ==
  /\ content \in [Block -> Data]
  /\ writes = [t \in Task |-> None]

Begin(t, k) ==
  /\ writes[t] = None
  /\ writes' = [writes EXCEPT ![t] = k]
  /\ UNCHANGED content

Write(t, v) ==
  /\ writes[t] # None
  /\ content' = [content EXCEPT ![writes[t]] = v]
  /\ writes' = [writes EXCEPT ![t] = None]

\* The block cannot be read, and is not written either.
GiveUp(t) ==
  /\ writes[t] # None
  /\ writes' = [writes EXCEPT ![t] = None]
  /\ UNCHANGED content

Next ==
  \E t \in Task :
    \/ \E k \in Block : Begin(t, k)
    \/ \E v \in Data : Write(t, v)
    \/ GiveUp(t)

Spec == Init /\ [][Next]_svars

=============================================================================

---------------------------- MODULE AddressSpace ----------------------------
(***************************************************************************)
(* What mm/memory.c promises a program of the pages that belong to no      *)
(* executable file (bss, heap, stack): memory of its own, zero before it   *)
(* is written, copied by fork, replaced by exec.  Nothing is said of       *)
(* frames, page tables or sharing.                                         *)
(***************************************************************************)
CONSTANTS
  Task,     \* the tasks
  Page,     \* the pages of an address space
  Content,  \* what a page may hold
  Blank,    \* the image of a task that has none
  Fresh     \* the image after exec: zero but for the arguments

VARIABLES
  live,     \* the tasks that have a memory
  image     \* what each of them finds in each page

Init ==
  /\ live \in SUBSET Task
  /\ image \in [Task -> [Page -> Content]]
  /\ \A t \in Task \ live : image[t] = Blank

Fork(t, c) ==
  /\ c \in Task \ live
  /\ live' = live \cup {c}
  /\ image' = [image EXCEPT ![c] = image[t]]

Write(t, v) ==
  /\ image' = [image EXCEPT ![t][v] = t]
  /\ UNCHANGED live

Exec(t) ==
  /\ image' = [image EXCEPT ![t] = Fresh]
  /\ UNCHANGED live

Exit(t) ==
  /\ live' = live \ {t}
  /\ image' = [image EXCEPT ![t] = Blank]

Next ==
  \E t \in live :
    \/ \E c \in Task : Fork(t, c)
    \/ \E v \in Page : Write(t, v)
    \/ Exec(t)
    \/ Exit(t)

Spec == Init /\ [][Next]_<<live, image>>

=============================================================================

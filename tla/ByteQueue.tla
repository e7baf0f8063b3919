----------------------------- MODULE ByteQueue -----------------------------
(***************************************************************************)
(* What a pipe promises: a queue of bytes of bounded length.  What is given *)
(* to a reader is the front of the queue, and it is gone from it.          *)
(***************************************************************************)
EXTENDS Naturals, Sequences

CONSTANTS Byte, Size

VARIABLES
  queue,
  given     \* the bytes that the last step has given to a reader

Init == queue = << >> /\ given = << >>

Put ==
  \E n \in 1 .. Size - Len(queue) : \E s \in [1 .. n -> Byte] :
    queue' = queue \o s /\ given' = << >>

Get ==
  /\ Len(given') > 0
  /\ queue = given' \o queue'

\* The last descriptor is closed, with bytes in the queue or without.
Drop == queue' = << >> /\ given' = << >>

Nothing == queue' = queue /\ given' = << >>

Next == Put \/ Get \/ Drop \/ Nothing

Spec == Init /\ [][Next]_<<queue, given>>
=============================================================================

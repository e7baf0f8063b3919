-------------------------------- MODULE MCBlk --------------------------------
\* Buffers on the hard disk: the second block lies beyond the end of its
\* partition, the fourth is the last; the disk has trouble with the first and
\* the fourth.
EXTENDS BlkQueue

CONSTANTS t1, t2

\* One task reads a block, and the others ahead; the other one changes and
\* writes two.  Four buffers can fill the table and still ask for one more.
ReaderAndWriter ==
  {<<t1, "READ", 1>>} \cup ({t1} \X {"READA"} \X {2, 3, 4})
    \cup ({t2} \X {"WRITE"} \X {1, 3})

SecondBad == {2}
FourthLast == {4}
Failing == {1, 4}

=============================================================================

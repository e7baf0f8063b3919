------------------------------ MODULE MCFiles ------------------------------
\* Task 1 starts the others.  One task writes, two read, and all of them open
\* and close descriptors while the others are in the pipe.
EXTENDS Tty, TLC

Descriptors ==
  ({1} \X {"open", "pipe", "dup2", "close", "fork", "dup", "fault"})
  \cup ({2} \X {"close", "exec", "exit", "fcntl", "chdir"})
Bytes ==
  ({1} \X {"pipe", "fork", "write", "close"}) \cup ({2} \X {"read", "close"})
  \cup ({3} \X {"read"})
Copies ==
  ({1} \X {"pipe", "fork", "write", "fault"}) \cup ({2} \X {"read", "fault", "write"})
Typing == ({1} \X {"open", "fork", "tty_read"}) \cup ({2} \X {"tty_read", "tty_ioctl", "fault"})
Printing == ({1} \X {"open", "fork", "tty_write"}) \cup ({2} \X {"tty_write", "tty_ioctl", "fault"})
Signals == {1} \X {"open", "tty_read", "tty_write"}
Six == <<Descriptors, Bytes, Copies, Typing, Printing, Signals>>
Cooked == [canon |-> TRUE, echo |-> FALSE]
Raw == [canon |-> FALSE, echo |-> FALSE]
Echoed == [canon |-> TRUE, echo |-> TRUE]
Settings == <<{Raw}, {Raw}, {Raw}, {Cooked, Raw}, {Echoed}, {Raw}>>
Typed == <<{}, {}, {}, {"a", "nl", "eof", "erase"}, {"a", "kill"}, {"a", "intr"}>>
Texts == {<<0>>, <<1, 0, 1>>}

\* The places that tasks in the middle of PUTCH will store in write_q.head.
Pending == {t \in Task : At(t, "tty_inc")}

Here == [t \in Task |-> IF t \in Pending THEN [r[t] EXCEPT !.at = << >>] ELSE r[t]]

\* The terminal is followed up to its first flaw, with one file and one
\* character that finds no room in the edited input.
Bounds == flaws = {} /\ Len(read_q) <= 1 /\ (Keys[cast] # {} => file[2] = Unused)

\* What the rings held before is not read again, and where they begin does not matter.
Live == <<cast, file, filp, cloexec, inodes, mixed, Here, given, pipe.count, pipe.untold, pipe.head, pipe.tail,
          Ring, Unread, mode, read_q, Held(secondary), lines, Held(write_q), irq, signal,
          unsent, flaws>>
=============================================================================

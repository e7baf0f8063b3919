-------------------------------- MODULE Tty --------------------------------
(***************************************************************************)
(* A terminal on a serial line (kernel/chr_drv/tty_io.c, tty_ioctl.c,      *)
(* rs_io.s), on top of the open files: the three queues of characters, the *)
(* editing of lines in the interrupt, reads and writes by tasks.           *)
(*                                                                         *)
(* Interrupts come between any two steps of a task, and each is a step of  *)
(* its own.  A task that is in the middle of tty_read or tty_write is the  *)
(* only one that runs until it sleeps, also in a page fault of put_fs_byte *)
(* or get_fs_byte, calls schedule or is done.                              *)
(***************************************************************************)
EXTENDS Files, SequencesExt

CONSTANTS
  TTY_BUF_SIZE,  \* the size of a queue, a power of two
  Few,           \* 20: a line is read unfinished if no more places are left
  Reserve,       \* 128: a writer waits until so many places are left
  Startup,       \* 256: and is woken when so many characters are left
  Keys,          \* for each of Casts, the characters that are typed
  Modes          \* and the modes that programs set: records canon, echo

Editing == {"erase", "kill"}
Ends == {"nl", "eof"}

ASSUME TtyAssumption ==
  /\ {TTY_BUF_SIZE, Few, Reserve, Startup} \subseteq Nat /\ TTY_BUF_SIZE > 1
  /\ Startup < TTY_BUF_SIZE - Reserve
  /\ \A c \in DOMAIN Casts :
       /\ Keys[c] \subseteq {"a", "b", "intr"} \cup Editing \cup Ends
       /\ Modes[c] \subseteq [canon : BOOLEAN, echo : BOOLEAN]

VARIABLES
  mode,       \* termios: ICANON and ECHO
  read_q,     \* what the interrupt has not yet copied
  secondary,  \* the edited input
  lines,      \* secondary.data
  write_q,    \* the output
  irq,        \* the transmit interrupt is enabled
  signal,     \* the tasks with a signal
  unsent,     \* history: the output that is still to be sent
  flaws       \* history: "overflow", "mixed", "passed", see below

queues == <<read_q, secondary, lines, write_q, irq, unsent, flaws>>
tty == <<mode, queues, signal>>

EmptyQueue == [head |-> 0, tail |-> 0, buf |-> [i \in 0 .. TTY_BUF_SIZE - 1 |-> "a"]]

TtyInit ==
  /\ Init
  /\ mode \in Modes[cast]
  /\ read_q = << >> /\ secondary = EmptyQueue /\ lines = 0
  /\ write_q = EmptyQueue /\ irq = FALSE
  /\ signal = {} /\ unsent = << >> /\ flaws = {}

-----------------------------------------------------------------------------
(* The queues of tty.h.                                                    *)

INC(a) == (a + 1) % TTY_BUF_SIZE
DEC(a) == (a - 1) % TTY_BUF_SIZE
EMPTY(q) == q.head = q.tail
LEFT(q) == (q.tail - q.head - 1) % TTY_BUF_SIZE
FULL(q) == LEFT(q) = 0
LAST(q) == q.buf[DEC(q.head)]
CHARS(q) == (q.head - q.tail) % TTY_BUF_SIZE
PUTCH(c, q) == [q EXCEPT !.buf[q.head] = c, !.head = INC(@)]
Held(q) == [n \in 1 .. CHARS(q) |-> q.buf[(q.tail + n - 1) % TTY_BUF_SIZE]]

-----------------------------------------------------------------------------
(* copy_to_cooked.  x: the queues, and the signals, as the interrupt has    *)
(* made them so far.                                                       *)

Now == [read |-> << >>, second |-> secondary, lines |-> lines, write |-> write_q, irq |-> irq,
        unsent |-> unsent, flaws |-> flaws, signal |-> signal]

Putting == \E t \in Task : At(t, "tty_inc")

\* A PUTCH of n characters into the output without room for them: all that the
\* queue holds is lost.
Overflow(q, n) == IF LEFT(q) < n THEN {"overflow"} ELSE {}

\* The echo of s, without a test whether there is room, and rs_write.
\* "mixed": a task is in the middle of its own PUTCH, which the echo disturbs.
EchoOf(x, s) ==
  IF ~mode.echo THEN x
  ELSE LET q == FoldLeft(LAMBDA y, d : PUTCH(d, y), x.write, s)
       IN [x EXCEPT !.write = q, !.irq = @ \/ ~EMPTY(q), !.unsent = @ \o s,
                    !.flaws = @ \cup Overflow(x.write, Len(s))
                                \cup (IF Putting THEN {"mixed"} ELSE {})]

Control == {"eof", "kill"}
Shown(c) == CASE c = "nl" -> <<"nl", "cr">> [] c \in Control -> <<"^", c>> [] OTHER -> <<c>>

Erasable(q) == ~EMPTY(q) /\ LAST(q) \notin Ends

Erase(x) ==
  IF ~Erasable(x.second) THEN x
  ELSE LET y == EchoOf(x, IF LAST(x.second) \in Control THEN <<"del", "del">> ELSE <<"del">>)
       IN [y EXCEPT !.second.head = DEC(@)]

\* The loop of KILL_CHAR ends where nothing more can be erased.
Kill(x) == FoldLeft(LAMBDA y, n : Erase(y), x, Held(x.second))

\* tty_intr, for the process group of the terminal: all tasks.
tty_intr(x) == [x EXCEPT !.signal = {t \in Task : r[t].pc \notin {"absent", "dead"}}]

Cook(x, c) ==
  CASE mode.canon /\ c = "kill" -> Kill(x)
    [] mode.canon /\ c = "erase" -> Erase(x)
    [] c = "intr" -> tty_intr(x)
    [] OTHER -> LET y == EchoOf(x, Shown(c))
                IN [y EXCEPT !.second = PUTCH(c, @),
                             !.lines = @ + (IF c \in Ends THEN 1 ELSE 0)]

\* What finds no room in the secondary queue stays in read_q.
copy_to_cooked(s) ==
  FoldLeft(LAMBDA x, c : IF x.read # << >> \/ FULL(x.second)
                         THEN [x EXCEPT !.read = Append(@, c)] ELSE Cook(x, c), Now, s)

\* wake_up, and schedule() for the tasks that have a signal.
Wakes(sleep, sig, tab) ==
  [t \in Task |-> CASE tab[t].pc = "sleep_tty_read" /\ ("read" \in sleep \/ t \in sig)
                         -> [tab[t] EXCEPT !.pc = "tty_read"]
                    [] tab[t].pc = "sleep_tty_write" /\ ("write" \in sleep \/ t \in sig)
                         -> [tab[t] EXCEPT !.pc = "tty_full"]
                    [] OTHER -> tab[t]]

\* The interrupt for a character: it is lost if read_q is full.
read_char ==
  /\ \E c \in Keys[cast] :
       LET s == IF Len(read_q) = TTY_BUF_SIZE - 1 THEN read_q ELSE Append(read_q, c)
           x == copy_to_cooked(s)
       IN /\ read_q' = x.read /\ secondary' = x.second /\ lines' = x.lines
          /\ write_q' = x.write /\ irq' = x.irq
          /\ flaws' = x.flaws
          /\ unsent' = IF x.flaws \ {"passed"} = {} THEN x.unsent ELSE << >>
          /\ signal' = x.signal
          /\ r' = Wakes({"read"}, x.signal, r)
  /\ Quiet /\ UNCHANGED <<table, inodes, pipe, mode>>

WakesWriter(q) == CHARS(q) <= Startup \/ CHARS(q) = 1

\* The interrupt that sends a character, or is disabled when none is left.
write_char ==
  /\ irq
  /\ write_q' = IF EMPTY(write_q) THEN write_q ELSE [write_q EXCEPT !.tail = INC(@)]
  /\ irq' = ~EMPTY(write_q')
  /\ unsent' = IF unsent = << >> THEN unsent ELSE Tail(unsent)
  /\ r' = IF WakesWriter(write_q) THEN Wakes({"write"}, {}, r) ELSE r
  /\ Quiet /\ UNCHANGED <<table, inodes, pipe, mode, read_q, secondary, lines, flaws, signal>>

-----------------------------------------------------------------------------
(* What tasks do.                                                          *)

TtyCalls(t, call) == Calls(t, call) /\ IsOpen(t, "file")
Only(t) == \A u \in Task \ {t} : r[u].pc \notin {"tty_spin", "getch", "tty_put", "tty_inc", "tty_flush"}
Frame == Quiet /\ UNCHANGED <<table, inodes, pipe>>

\* The end of a call: the signal is taken.
Leave(t) == Set(t, Registers) /\ signal' = signal \ {t}

sys_tty(t) ==
  /\ \/ TtyCalls(t, "tty_read") /\ \E n \in Count : Set(t, [Registers EXCEPT !.pc = "tty_read", !.need = n])
     \/ TtyCalls(t, "tty_write") /\ \E n \in Count : Set(t, [Registers EXCEPT !.pc = "tty_write", !.need = n])
  /\ Frame /\ UNCHANGED tty

\* A line is not finished, and there is room for more of it.
Unfinished == mode.canon /\ lines = 0 /\ LEFT(secondary) > Few

\* tty_read up to its next sleep or to GETCH.  With an unfinished line
\* sleep_if_empty does not sleep: the loop goes round until something is typed.
tty_read(t) ==
  /\ r[t].pc \in {"tty_read", "tty_spin"}
  /\ \/ t \in signal /\ Leave(t)
     \/ /\ t \notin signal /\ EMPTY(secondary)
        /\ Set(t, [r[t] EXCEPT !.pc = "sleep_tty_read"]) /\ UNCHANGED signal
     \/ /\ t \notin signal /\ ~EMPTY(secondary)
        /\ IF Unfinished THEN At(t, "tty_read") /\ Set(t, [r[t] EXCEPT !.pc = "tty_spin"])
           ELSE Set(t, [r[t] EXCEPT !.pc = "getch"])
        /\ UNCHANGED signal
  /\ Frame /\ UNCHANGED <<mode, queues>>

\* After the copy of a character: the test for the next one.
NextChar(t, q) ==
  IF r[t].need = 1 \/ EMPTY(q) THEN Leave(t)
  ELSE Set(t, [r[t] EXCEPT !.pc = "getch", !.need = @ - 1]) /\ UNCHANGED signal

\* GETCH, and the copy, which may sleep.  "passed": the queue has become empty
\* since it was tested, because the character was erased.
getch(t) ==
  /\ At(t, "getch")
  /\ LET c == secondary.buf[secondary.tail]
         q == [secondary EXCEPT !.tail = INC(@)]
     IN /\ secondary' = q
        /\ lines' = lines - (IF c \in Ends THEN 1 ELSE 0)
        /\ flaws' = flaws \cup (IF EMPTY(secondary) THEN {"passed"} ELSE {})
        /\ \/ c = "eof" /\ mode.canon /\ Leave(t)
           \/ ~(c = "eof" /\ mode.canon) /\ NextChar(t, q)
           \/ /\ ~(c = "eof" /\ mode.canon) /\ Faults(t)
              /\ Set(t, [r[t] EXCEPT !.pc = "tty_give"]) /\ UNCHANGED signal
  /\ Frame /\ UNCHANGED <<mode, read_q, write_q, irq, unsent>>

\* The copy has slept.
tty_give(t) ==
  /\ At(t, "tty_give") /\ NextChar(t, secondary)
  /\ Frame /\ UNCHANGED <<mode, queues>>

\* tty_write: sleep_if_full, when it begins and when it has been woken.
tty_write(t) ==
  /\ r[t].pc \in {"tty_write", "tty_full"}
  /\ LET full == IF At(t, "tty_write") THEN FULL(write_q) ELSE LEFT(write_q) < Reserve
     IN \/ t \in signal /\ Leave(t)
        \/ /\ t \notin signal /\ UNCHANGED signal
           /\ Set(t, [r[t] EXCEPT !.pc = IF full THEN "sleep_tty_write" ELSE "tty_put"])
  /\ Frame /\ UNCHANGED <<mode, queues>>

\* get_fs_byte, which comes after the test of FULL, sleeps in a page fault.
tty_take(t) ==
  /\ \/ At(t, "tty_put") /\ Faults(t) /\ Set(t, [r[t] EXCEPT !.pc = "tty_take"])
     \/ At(t, "tty_take") /\ Set(t, [r[t] EXCEPT !.pc = "tty_put"])
  /\ Frame /\ UNCHANGED tty

\* PUTCH by a task: the character, and then the head of the queue, which it
\* loads and stores.  "overflow": the queue has been filled since it was tested,
\* by others while get_fs_byte slept or by an echo.
tty_put(t) ==
  /\ At(t, "tty_put")
  /\ write_q' = [write_q EXCEPT !.buf[write_q.head] = "w"]
  /\ flaws' = flaws \cup Overflow(write_q, 1)
  /\ Set(t, [r[t] EXCEPT !.pc = "tty_inc", !.at = <<INC(write_q.head)>>])
  /\ Frame /\ UNCHANGED <<mode, read_q, secondary, lines, irq, unsent, signal>>

Goes(q, n) == n > 1 /\ ~FULL(q)

tty_inc(t) ==
  /\ At(t, "tty_inc")
  /\ write_q' = [write_q EXCEPT !.head = r[t].at[1]]
  /\ unsent' = IF flaws \ {"passed"} = {} THEN Append(unsent, "w") ELSE << >>
  /\ Set(t, [r[t] EXCEPT !.pc = IF Goes(write_q', r[t].need) THEN "tty_put" ELSE "tty_flush",
                         !.need = @ - 1, !.at = << >>])
  /\ Frame /\ UNCHANGED <<mode, read_q, secondary, lines, irq, flaws, signal>>

\* rs_write, and schedule() if there is more to write.
tty_flush(t) ==
  /\ At(t, "tty_flush")
  /\ irq' = (irq \/ ~EMPTY(write_q))
  /\ IF r[t].need = 0 THEN Leave(t)
     ELSE Set(t, [r[t] EXCEPT !.pc = "tty_write"]) /\ UNCHANGED signal
  /\ Frame /\ UNCHANGED <<mode, read_q, secondary, lines, write_q, unsent, flaws>>

\* TCSETS, TCSETSF (a new mode, the latter with read_q flushed) and TCFLSH.
flush(q) == [q EXCEPT !.head = q.tail]

tty_ioctl(t) ==
  /\ TtyCalls(t, "tty_ioctl")
  /\ read_q' \in {read_q, << >>}
  /\ \/ mode' \in Modes[cast] /\ UNCHANGED <<write_q, unsent>>
     \/ write_q' = flush(write_q) /\ unsent' = << >> /\ UNCHANGED mode
  /\ Frame /\ UNCHANGED <<secondary, lines, irq, flaws, signal, r>>

\* die and oom, where the copy of a character sleeps.
tty_die(t) ==
  /\ r[t].pc \in {"tty_take", "tty_give"}
  /\ Closes(t, Open(t), "leave", None, None)
  /\ UNCHANGED tty

\* A signal is taken on the way back to the program, also from an interrupt.
do_signal(t) ==
  /\ At(t, "user") /\ t \in signal
  /\ signal' = signal \ {t}
  /\ Frame /\ UNCHANGED <<mode, queues, r>>

TtyStep(t) ==
  \/ sys_tty(t) \/ tty_read(t) \/ getch(t) \/ tty_give(t) \/ tty_write(t) \/ tty_take(t)
  \/ tty_put(t) \/ tty_inc(t) \/ tty_flush(t) \/ tty_ioctl(t) \/ tty_die(t) \/ do_signal(t)

TtyNext ==
  \/ \E t \in Task : Followed /\ Only(t) /\ Step(t) /\ UNCHANGED <<cast, tty>>
  \/ \E t \in Task : Only(t) /\ TtyStep(t) /\ UNCHANGED cast
  \/ read_char /\ UNCHANGED cast
  \/ write_char /\ UNCHANGED cast

TtySpec == TtyInit /\ [][TtyNext]_<<vars, tty>>

-----------------------------------------------------------------------------
(* Properties.                                                             *)

\* secondary.data, which the interrupt and the tasks change, is the number of
\* ends of lines in the queue; unless a reader has passed the head of the queue
\* because the character it was about to read was erased.
LinesAreCounted ==
  "passed" \notin flaws => lines = Len(SelectSeq(Held(secondary), LAMBDA c : c \in Ends))

\* What is sent is what was written and echoed, in that order; unless the queue
\* overflowed, by an echo or by a write whose get_fs_byte slept after the test of
\* FULL, or an echo came in the middle of a PUTCH.
OutputInOrder == flaws \ {"passed"} = {} => Held(write_q) = unsent


=============================================================================

------------------------------- MODULE Files -------------------------------
(***************************************************************************)
(* Open files: file_table and the descriptors of every task (fs/open.c,    *)
(* fs/fcntl.c), what fork, exit and exec do with them, and pipes           *)
(* (fs/pipe.c, and get_pipe_inode and iput of fs/inode.c).                 *)
(*                                                                         *)
(* A task runs alone from one point where it may sleep to the next.  Names *)
(* and inodes of other files are left to modules Names and Inode: here an  *)
(* inode is a reference to be given back.  There is room for one pipe.     *)
(* wake_up wakes all that sleep: the one it finds, and with it the tasks    *)
(* that slept before (module WaitQueue shows that it amounts to that).     *)
(*                                                                         *)
(* A task can be killed where the kernel copies from or to its program: by *)
(* die if the pointer is bad, by oom if there is no page.  Both go to       *)
(* do_exit from there, and give back nothing that the call holds.          *)
(***************************************************************************)
EXTENDS Integers, Sequences, FiniteSets, FiniteSetsExt

CONSTANTS
  NTask,       \* the slots for tasks
  NR_FILE,     \* the size of file_table
  NR_OPEN,     \* the descriptors of a task
  PAGE_SIZE,   \* the bytes in the ring of a pipe, a power of two
  Byte,        \* what a byte may be
  Text,        \* what programs write
  Count,       \* how many bytes they read at a time
  Casts        \* a sequence of what the programs may be: pairs task, system call

Task == 1 .. NTask
File == 1 .. NR_FILE
Fd == 1 .. NR_OPEN
None == 0

ASSUME FilesAssumption ==
  /\ NTask \in Nat \ {0} /\ NR_FILE \in Nat /\ NR_OPEN \in Nat \ {0}
  /\ PAGE_SIZE \in Nat \ {0, 1}
  /\ Text \subseteq Seq(Byte) \ {<< >>} /\ Count \subseteq Nat \ {0}
  /\ \A c \in DOMAIN Casts : Casts[c] \subseteq Task \X {"open", "pipe", "dup", "dup2", "close", "fcntl", "fork",
                        "exit", "exec", "chdir", "read", "write", "fault",
                        "tty_read", "tty_write", "tty_ioctl"}

VARIABLES
  file,    \* file_table: f_count, and what f_inode and f_mode say: "file",
           \* "read" or "write" for the ends of the pipe, "" while it is opened
  filp,    \* the descriptors of every task
  cloexec, \* close_on_exec of every task
  inodes,  \* the references to inodes that are not pipes
  pipe,    \* the inode of the pipe: i_count, and the ring; untold is history: a
           \* task has been killed after it moved head or tail, and nobody has
           \* called wake_up since
  given,   \* the bytes that the last step has copied to a reader
  mixed,   \* history: a task has used the ring while the copy of another
           \* waited in a page fault, or has been killed in its own copy
  cast,    \* which of Casts the programs are
  r        \* registers and stack of every task

table == <<file, filp, cloexec>>
vars == <<table, inodes, pipe, given, mixed, cast, r>>

Unused == [count |-> 0, kind |-> ""]
NoPipe == [count |-> 0, head |-> 0, tail |-> 0, buf |-> [i \in 0 .. PAGE_SIZE - 1 |-> Min(Byte)],
           untold |-> FALSE]

\* fd: the descriptors that open or pipe are about to return.  closing: those
\* that are left to be closed, next: what comes after that, with old, new: the
\* arguments of dup2.  need: how many bytes are still to be read; put: those
\* still to be written; at: the places in the ring that are being copied.
\* keeps: how many of pwd, root and executable are still counted.
Registers == [pc |-> "user", fd |-> {}, closing |-> {}, next |-> "user",
              old |-> None, new |-> None, need |-> 0, put |-> << >>, at |-> << >>,
              keeps |-> 3]
Absent == [Registers EXCEPT !.pc = "absent", !.keeps = 0]

Init ==
  /\ file = [f \in File |-> Unused]
  /\ filp = [t \in Task |-> [d \in Fd |-> None]]
  /\ cloexec = [t \in Task |-> {}]
  /\ inodes = 3 /\ pipe = NoPipe /\ given = << >> /\ mixed = FALSE /\ cast \in DOMAIN Casts
  /\ r = [t \in Task |-> IF t = 1 THEN Registers ELSE Absent]

-----------------------------------------------------------------------------
At(t, pc) == r[t].pc = pc
Calls(t, call) == At(t, "user") /\ <<t, call>> \in Casts[cast]
Set(t, q) == r' = [r EXCEPT ![t] = q]
Quiet == given' = << >> /\ UNCHANGED mixed

FreeFds(t, from) == {d \in Fd : d >= from /\ filp[t][d] = None}
FreeFiles == {f \in File : file[f].count = 0}
Open(t) == {d \in Fd : filp[t][d] # None}

\* The two smallest members of a set.
Two(S) == <<Min(S), Min(S \ {Min(S)})>>

\* A mistake: the tasks that wait for the pipe are not told.
Untold(tab) == tab

\* wake_up(&inode->i_wait).  tab is the table of registers that the code has
\* got to.
Woken(tab) ==
  [t \in Task |-> CASE tab[t].pc = "sleep_read" -> [tab[t] EXCEPT !.pc = "read_pipe"]
                    [] tab[t].pc = "sleep_write" -> [tab[t] EXCEPT !.pc = "write_pipe"]
                    [] OTHER -> tab[t]]

-----------------------------------------------------------------------------
(* Descriptors.                                                            *)

\* sys_open up to open_namei: a descriptor and an entry of the table are taken
\* first.
sys_open(t) ==
  /\ Calls(t, "open") /\ FreeFds(t, 1) # {}
  /\ LET d == Min(FreeFds(t, 1))
         f == Min(FreeFiles)
     IN /\ cloexec' = [cloexec EXCEPT ![t] = @ \ {d}]
        /\ IF FreeFiles = {} THEN UNCHANGED <<file, filp, r>>
           ELSE /\ file' = [file EXCEPT ![f].count = @ + 1]
                /\ filp' = [filp EXCEPT ![t][d] = f]
                /\ Set(t, [r[t] EXCEPT !.pc = "open_namei", !.fd = {d}])
  /\ Quiet /\ UNCHANGED <<inodes, pipe>>

\* The end of sys_open: with the inode, or without one (for /dev/tty it has
\* been put again if the task has no terminal).
open_namei(t) ==
  /\ At(t, "open_namei")
  /\ LET d == Min(r[t].fd)
         f == filp[t][d]
     IN \/ /\ file' = [file EXCEPT ![f] = [count |-> 1, kind |-> "file"]]
           /\ inodes' = inodes + 1
           /\ UNCHANGED filp
        \/ /\ file' = [file EXCEPT ![f] = Unused]
           /\ filp' = [filp EXCEPT ![t][d] = None]
           /\ UNCHANGED inodes
  /\ Set(t, Registers)
  /\ Quiet /\ UNCHANGED <<cloexec, pipe>>

\* sys_pipe up to get_pipe_inode; without two entries and two descriptors it
\* gives back what it has taken.
sys_pipe(t) ==
  /\ Calls(t, "pipe")
  /\ Cardinality(FreeFiles) >= 2 /\ Cardinality(FreeFds(t, 1)) >= 2
  /\ LET f == Two(FreeFiles)
         d == Two(FreeFds(t, 1))
     IN /\ file' = [file EXCEPT ![f[1]].count = @ + 1, ![f[2]].count = @ + 1]
        /\ filp' = [filp EXCEPT ![t][d[1]] = f[1], ![t][d[2]] = f[2]]
        /\ Set(t, [r[t] EXCEPT !.pc = "get_pipe_inode", !.fd = {d[1], d[2]}])
  /\ Quiet /\ UNCHANGED <<cloexec, inodes, pipe>>

get_pipe_inode(t) ==
  /\ At(t, "get_pipe_inode")
  /\ LET d == Two(r[t].fd)
         f == <<filp[t][d[1]], filp[t][d[2]]>>
     IN \/ /\ pipe.count = 0
           /\ pipe' = [NoPipe EXCEPT !.count = 2]
           /\ file' = [file EXCEPT ![f[1]].kind = "read", ![f[2]].kind = "write"]
           /\ UNCHANGED filp
        \/ /\ file' = [file EXCEPT ![f[1]] = Unused, ![f[2]] = Unused]
           /\ filp' = [filp EXCEPT ![t][d[1]] = None, ![t][d[2]] = None]
           /\ UNCHANGED pipe
  /\ Set(t, Registers)
  /\ Quiet /\ UNCHANGED <<cloexec, inodes>>

\* dupfd, after dup2 has closed the new descriptor.
Duplicate(t, d, from) ==
  LET e == Min(FreeFds(t, from))
      f == filp[t][d]
  IN IF f = None \/ FreeFds(t, from) = {} THEN UNCHANGED table
     ELSE /\ filp' = [filp EXCEPT ![t][e] = f]
          /\ file' = [file EXCEPT ![f].count = @ + 1]
          /\ cloexec' = [cloexec EXCEPT ![t] = @ \ {e}]

sys_dup(t) ==
  /\ Calls(t, "dup")
  /\ \E d \in Open(t), from \in Fd : Duplicate(t, d, from)
  /\ Quiet /\ UNCHANGED <<inodes, pipe, r>>

dupfd(t) ==
  /\ At(t, "dupfd")
  /\ Duplicate(t, r[t].old, r[t].new)
  /\ Set(t, Registers)
  /\ Quiet /\ UNCHANGED <<inodes, pipe>>

\* F_SETFD.
sys_fcntl(t) ==
  /\ Calls(t, "fcntl")
  /\ \E d \in Open(t), set \in BOOLEAN :
       cloexec' = [cloexec EXCEPT ![t] = IF set THEN @ \cup {d} ELSE @ \ {d}]
  /\ Quiet /\ UNCHANGED <<file, filp, inodes, pipe, r>>

\* A mistake: the child's descriptors are not counted.
NotInherited(t) == file
Inherited(t) ==
  [f \in File |-> [file[f] EXCEPT !.count = @ + Cardinality({d \in Fd : filp[t][d] = f})]]

\* copy_process: the child has the descriptors of the task.
FreeTasks == {u \in Task : At(u, "absent") /\ \E x \in Casts[cast] : x[1] = u}
sys_fork(t) ==
  /\ Calls(t, "fork") /\ FreeTasks # {}
  /\ LET u == Min(FreeTasks) IN
       /\ filp' = [filp EXCEPT ![u] = filp[t]]
       /\ cloexec' = [cloexec EXCEPT ![u] = cloexec[t]]
       /\ Set(u, Registers)
  /\ file' = Inherited(t)
  /\ inodes' = inodes + Registers.keeps
  /\ Quiet /\ UNCHANGED pipe

-----------------------------------------------------------------------------
(* Closing.                                                                *)

ClearFlag(t, d) == [cloexec EXCEPT ![t] = @ \ {d}]

\* iput for an end of the pipe, which never sleeps.
ClosePipe(tab) ==
  /\ r' = Woken(tab)
  /\ pipe' = IF pipe.count = 1 THEN NoPipe ELSE [pipe EXCEPT !.count = @ - 1, !.untold = FALSE]

\* sys_close of the next descriptor that is to be closed.  The entry of a task
\* that was killed in open_namei still has the f_inode of the file before it:
\* NULL, or one that sys_close takes from whoever has it now (stale_iput).
sys_close(t) ==
  /\ At(t, "closing")
  /\ LET d == Min(r[t].closing)
         f == filp[t][d]
         left == r[t].closing \ {d}
         on == [r[t] EXCEPT !.closing = left, !.pc = IF left = {} THEN @ ELSE "closing"]
         q == IF left = {} THEN [on EXCEPT !.pc = on.next] ELSE on
         last == f # None /\ file[f].count = 1
     IN /\ cloexec' = ClearFlag(t, d)
        /\ filp' = [filp EXCEPT ![t][d] = None]
        /\ file' = IF f = None THEN file
                   ELSE IF last THEN [file EXCEPT ![f] = Unused]
                   ELSE [file EXCEPT ![f].count = @ - 1]
        /\ \/ ~last /\ Set(t, q) /\ UNCHANGED pipe
           \/ last /\ file[f].kind = "file" /\ Set(t, [on EXCEPT !.pc = "iput"]) /\ UNCHANGED pipe
           \/ last /\ file[f].kind \in {"read", "write"} /\ ClosePipe([r EXCEPT ![t] = q])
           \/ /\ last /\ file[f].kind = "" /\ UNCHANGED pipe
              /\ Set(t, q) \/ Set(t, [on EXCEPT !.pc = "stale_iput"])
  /\ Quiet /\ UNCHANGED inodes

\* iput of an inode that is not a pipe, after it has slept.
iput(t) ==
  /\ At(t, "iput")
  /\ inodes' = inodes - 1
  /\ Set(t, [r[t] EXCEPT !.pc = IF r[t].closing = {} THEN r[t].next ELSE "closing"])
  /\ Quiet /\ UNCHANGED <<table, pipe>>

Closing(t, D, next, old, new) ==
  Set(t, [Registers EXCEPT !.pc = IF D = {} THEN next ELSE "closing",
                           !.closing = D, !.next = next, !.old = old, !.new = new])
Closes(t, D, next, old, new) ==
  Closing(t, D, next, old, new) /\ Quiet /\ UNCHANGED <<table, inodes, pipe>>

Close(t) == Calls(t, "close") /\ \E d \in Open(t) : Closes(t, {d}, "user", None, None)
sys_dup2(t) ==
  Calls(t, "dup2") /\ \E d \in Open(t), e \in Fd : Closes(t, {e}, "dupfd", d, e)
do_exit(t) == Calls(t, "exit") /\ t # 1 /\ Closes(t, Open(t), "leave", None, None)

\* One more inode, and one to be put before the task goes on at next.
Exchange(t, next) ==
  /\ inodes' = inodes + 1
  /\ Set(t, [Registers EXCEPT !.pc = "iput", !.next = next])
  /\ Quiet /\ UNCHANGED <<table, pipe>>

\* sys_chdir and sys_chroot: the old directory is put, or the inode if it is
\* not a directory.
sys_chdir(t) == Calls(t, "chdir") /\ Exchange(t, "user")

\* do_execve: the old executable is put, or the inode if it cannot be executed;
\* then the marked descriptors are closed.
do_execve(t) == Calls(t, "exec") /\ \E next \in {"user", "close_on_exec"} : Exchange(t, next)
close_on_exec(t) == At(t, "close_on_exec") /\ Closes(t, cloexec[t], "new_program", None, None)

\* do_exit after the files: pwd, root and executable.
leave(t) ==
  /\ At(t, "leave")
  /\ Set(t, IF r[t].keeps = 0 THEN [r[t] EXCEPT !.pc = "dead"]
            ELSE [r[t] EXCEPT !.pc = "iput", !.next = "leave", !.keeps = @ - 1])
  /\ Quiet /\ UNCHANGED <<table, inodes, pipe>>

\* The end of exec, and the release of a task that has exited.
new_program(t) ==
  /\ At(t, "new_program")
  /\ cloexec' = [cloexec EXCEPT ![t] = {}]
  /\ Set(t, Registers)
  /\ Quiet /\ UNCHANGED <<file, filp, inodes, pipe>>

release(t) ==
  /\ At(t, "dead")
  /\ Set(t, Absent)
  /\ Quiet /\ UNCHANGED <<table, inodes, pipe>>

-----------------------------------------------------------------------------
(* The ring of a pipe.                                                     *)

PIPE_SIZE(p) == (p.head - p.tail) % PAGE_SIZE

\* A mistake: the ring may be filled to the last byte.
RoomForAll(p) == PAGE_SIZE - PIPE_SIZE(p)
Room(p) == (PAGE_SIZE - 1) - PIPE_SIZE(p)

\* One round of the loops of read_pipe and write_pipe: up to the end of the
\* page, the end of the count, or until the pipe is empty or full.  x: the ring,
\* the places to copy from or to, and what is left to do.
ReadRound(x) ==
  LET chars == Min({PAGE_SIZE - x.p.tail, x.left, PIPE_SIZE(x.p)})
  IN [p |-> [x.p EXCEPT !.tail = (@ + chars) % PAGE_SIZE], left |-> x.left - chars,
      at |-> x.at \o [i \in 1 .. chars |-> x.p.tail + i - 1]]

WriteRound(x) ==
  LET chars == Min({PAGE_SIZE - x.p.head, x.left, Room(x.p)})
  IN [p |-> [x.p EXCEPT !.head = (@ + chars) % PAGE_SIZE], left |-> x.left - chars,
      at |-> x.at \o [i \in 1 .. chars |-> x.p.head + i - 1]]

Filled(p, at, s) ==
  [p EXCEPT !.buf = [i \in DOMAIN @ |->
     IF \E n \in DOMAIN at : at[n] = i THEN s[CHOOSE n \in DOMAIN at : at[n] = i] ELSE @[i]]]

\* A task in the pipe is done or goes to sleep; before that it wakes the others.
Done(t) == r' = Woken([r EXCEPT ![t] = Registers])
Sleep(t, q, pc) == r' = [Woken(r) EXCEPT ![t] = [q EXCEPT !.pc = pc]]

\* The copy to or from the program may sleep in a page fault.
Copying == {u \in Task : r[u].pc \in {"put_fs_byte", "get_fs_byte"}}
Faults(t) == <<t, "fault">> \in Casts[cast]
Fault(t, x, pc, q) ==
  Faults(t) /\ x.at # << >> /\ Set(t, [q EXCEPT !.pc = pc, !.at = x.at])
Enter == mixed' = (mixed \/ Copying # {})

\* Who wakes the others has told them of all that happened.
Told(p) == [p EXCEPT !.untold = FALSE]

\* The loop of read_pipe, for need bytes more, to its end, to sleep_on or to a
\* page fault in the first or in the second round.  After two rounds it has what
\* it wants or the pipe is empty.  before: what it has copied since it was woken.
Taken(x) == [n \in DOMAIN x.at |-> pipe.buf[x.at[n]]]

ReadOn(t, need, before) ==
  LET one == ReadRound([p |-> pipe, left |-> need, at |-> << >>])
      two == ReadRound([one EXCEPT !.at = << >>])
      Faulting(x) == Fault(t, x, "put_fs_byte", [Registers EXCEPT !.need = x.left])
  IN /\ \/ /\ pipe' = Told(two.p) /\ given' = before \o Taken(one) \o Taken(two)
           /\ IF two.left = 0 \/ pipe.count # 2 THEN Done(t)
              ELSE Sleep(t, [Registers EXCEPT !.need = two.left], "sleep_read")
        \/ pipe' = one.p /\ given' = before /\ Faulting(one)
        \/ pipe' = two.p /\ given' = before \o Taken(one) /\ Faulting(two)
     /\ UNCHANGED <<table, inodes>>

read_pipe(t) == At(t, "read_pipe") /\ Enter /\ ReadOn(t, r[t].need, << >>)

\* The copy has slept.
put_fs_byte(t) ==
  /\ At(t, "put_fs_byte") /\ UNCHANGED mixed
  /\ ReadOn(t, r[t].need, Taken(r[t]))

\* The loop of write_pipe with the text that is left; if the pipe is full and
\* nobody can read it, the task gets SIGPIPE.
WriteOn(t, ring, text) ==
  LET n == Len(text)
      one == WriteRound([p |-> ring, left |-> n, at |-> << >>])
      two == WriteRound([p |-> Filled(one.p, one.at, text), left |-> one.left, at |-> << >>])
      Rest(x) == SubSeq(text, n - x.left - Len(x.at) + 1, n)
      Faulting(x) == Fault(t, x, "get_fs_byte", [Registers EXCEPT !.put = Rest(x)])
  IN /\ \/ /\ pipe' = Told(Filled(two.p, two.at, Rest(two)))
           /\ IF two.left = 0 \/ pipe.count # 2 THEN Done(t)
              ELSE Sleep(t, [Registers EXCEPT !.put = SubSeq(text, n - two.left + 1, n)], "sleep_write")
        \/ pipe' = one.p /\ Faulting(one)
        \/ pipe' = two.p /\ Faulting(two)
     /\ given' = << >> /\ UNCHANGED <<table, inodes>>

write_pipe(t) == At(t, "write_pipe") /\ Enter /\ WriteOn(t, pipe, r[t].put)

get_fs_byte(t) ==
  /\ At(t, "get_fs_byte") /\ UNCHANGED mixed
  /\ WriteOn(t, Filled(pipe, r[t].at, r[t].put),
             SubSeq(r[t].put, Len(r[t].at) + 1, Len(r[t].put)))

\* die and oom: the task is killed in its copy, or in open_namei, and do_exit
\* begins.  In the pipe it has moved head or tail, and does not come to wake_up.
die(t) ==
  /\ Faults(t) /\ Closing(t, Open(t), "leave", None, None)
  /\ \/ At(t, "open_namei") /\ UNCHANGED <<pipe, mixed>>
     \/ t \in Copying /\ pipe' = [pipe EXCEPT !.untold = TRUE] /\ mixed' = TRUE
  /\ given' = << >> /\ UNCHANGED <<table, inodes>>

IsOpen(t, kind) == \E d \in Open(t) : file[filp[t][d]].kind = kind

sys_read(t) ==
  /\ Calls(t, "read") /\ IsOpen(t, "read")
  /\ \E n \in Count : Set(t, [Registers EXCEPT !.pc = "read_pipe", !.need = n])
  /\ Quiet /\ UNCHANGED <<table, inodes, pipe>>

sys_write(t) ==
  /\ Calls(t, "write") /\ IsOpen(t, "write")
  /\ \E s \in Text : Set(t, [Registers EXCEPT !.pc = "write_pipe", !.put = s])
  /\ Quiet /\ UNCHANGED <<table, inodes, pipe>>

Step(t) ==
  \/ sys_open(t) \/ open_namei(t) \/ sys_pipe(t) \/ get_pipe_inode(t)
  \/ sys_dup(t) \/ sys_dup2(t) \/ dupfd(t) \/ sys_fcntl(t) \/ sys_fork(t)
  \/ Close(t) \/ sys_close(t) \/ iput(t) \/ do_exit(t) \/ release(t)
  \/ leave(t) \/ sys_chdir(t) \/ do_execve(t) \/ close_on_exec(t) \/ new_program(t)
  \/ sys_read(t) \/ read_pipe(t) \/ put_fs_byte(t)
  \/ sys_write(t) \/ write_pipe(t) \/ get_fs_byte(t)
  \/ die(t)

\* The files are followed up to the iput of an inode that the task does not have.
Followed == \A t \in Task : ~At(t, "stale_iput")

Next == Followed /\ \E t \in Task : Step(t) /\ UNCHANGED cast

Spec == Init /\ [][Next]_vars

-----------------------------------------------------------------------------
(* Properties.                                                             *)

\* f_count is the number of descriptors that lead to the file, in all tasks,
\* and every reference to an inode, and every end of the pipe, is counted: by a
\* file, by pwd, root or executable, or by an iput that is under way.  (The
\* inodes that namei holds on its way are not counted here; those, and the
\* executable of a task that is killed in exec, stay counted for ever.)
CountsAreExact ==
  /\ \A f \in File :
       file[f].count = Cardinality({x \in Task \X Fd : filp[x[1]][x[2]] = f})
  /\ inodes = Cardinality({f \in File : file[f].kind = "file"})
              + Cardinality({t \in Task : At(t, "iput")})
              + Cardinality({x \in Task \X (1 .. 3) : x[2] <= r[x[1]].keeps})
  /\ pipe.count = Cardinality({f \in File : file[f].kind \in {"read", "write"}})

\* A descriptor that is not open is never marked to be closed by exec, so that
\* sys_pipe need not clear the mark as open and dup do.
MarkedAreOpen == \A t \in Task : cloexec[t] \subseteq Open(t)

\* The tables of open, dup, fork, exec and exit agree: both of the above.
DescriptorsAreExact == CountsAreExact /\ MarkedAreOpen

\* Nobody sleeps in the pipe who could go on: a task sleeps only while both ends
\* are open, a reader only while it is empty and a writer only while it is full,
\* or until the task whose copy waits in a page fault wakes it.  If that task is
\* killed instead, the sleepers go on only with the next wake_up of the pipe by
\* somebody else.
SleepersMustWait ==
  \A t \in Task :
    /\ At(t, "sleep_read") \/ At(t, "sleep_write") => pipe.count = 2
    /\ Copying = {} /\ ~pipe.untold =>
         /\ At(t, "sleep_read") => PIPE_SIZE(pipe) = 0
         /\ At(t, "sleep_write") => Room(pipe) = 0

\* The pipe is a queue of bytes, for any number of readers and writers, also
\* when a copy sleeps in a page fault, unless another task enters the pipe
\* before it is over (then the bytes may be overwritten before they are read,
\* or read before they are written), or the task is killed in its copy (then
\* bytes are lost, or stand in the ring that nobody has written).
Ring == [n \in 1 .. PIPE_SIZE(pipe) |-> pipe.buf[(pipe.tail + n - 1) % PAGE_SIZE]]
Places(pc) == IF \E t \in Task : At(t, pc) THEN r[CHOOSE t \in Task : At(t, pc)].at ELSE << >>
Unread == [n \in DOMAIN Places("put_fs_byte") |-> pipe.buf[Places("put_fs_byte")[n]]]
Contents ==
  IF mixed THEN << >>
  ELSE Unread \o SubSeq(Ring, 1, Len(Ring) - Len(Places("get_fs_byte")))
Queue == INSTANCE ByteQueue WITH
  queue <- Contents, given <- IF mixed THEN << >> ELSE given, Size <- PAGE_SIZE - 1
ImplementsByteQueue == Queue!Spec
=============================================================================

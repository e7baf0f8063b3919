# Linux 0.11 in TLA+

A model of the kernel under `src/linux.0.11.code/`: TLA+ modules translated from
the C and assembly code, TLC configurations that check them on small instances,
and proofs, checked by TLAPS, of what matters most for every instance. Paths
below are relative to `src/linux.0.11.code/`; the documents quoted are in
`src/linux.0.11.doc/`. `PROJECT.json` maps every definition to the lines it
stands for and lists the hazards of the code with the properties aimed at them.

## The system and its parts

The kernel is not preemptive. A task in the kernel keeps the processor until it
calls `schedule()`, that is, until it sleeps; between two sleeps its code is
atomic as far as other tasks go. Interrupt handlers (clock, disk, keyboard,
serial line) run between any two instructions with the interrupt flag set. Every
hard question about this code is of one of three kinds: what may have changed
over a sleep; what an interrupt may change outside `cli`/`sti`; and whether
somebody is left to wake a sleeper.

| Part | State | Operations | Talks to | What makes it correct |
|---|---|---|---|---|
| Wait queues (`kernel/sched.c`, loops in `fs/`, `blk_drv/`, `tty_io.c`) | one pointer per queue, `tmp` in each sleeper, task states, locks | `sleep_on`, `interruptible_sleep_on`, `wake_up`, `pause`, lock, wait, unlock | everything that sleeps; interrupts unlock buffers | no sleeper is forgotten, no wake-up lost, nobody woken by a stale pointer |
| Scheduler (`sched.c`, `system_call.s`) | task states, counters, priorities, alarms, signals | `schedule`, clock tick, `alarm`, `nice`, the end of a system call | woken by the queues; sends SIGALRM | slices bounded, task 0 last, no starvation, signals end sleeps |
| Timers (`sched.c`) | delta list | `add_timer`, the loop in `do_timer` | floppy driver | never early, none lost |
| Processes (`fork.c`, `exit.c`, `signal.c`, `init/main.c`) | task table, pids, fathers, sessions, pending signals | fork, exit, wait, kill, setsid, init's loop | scheduler; files and memory on exit | pids unique, every child has a father that will reap it |
| Block requests (`ll_rw_blk.c`, `blk.h`, drivers) | request table, a list per device, buffer locks | `ll_rw_block`, `add_request`, `end_request` | buffer cache above, drivers below | one owner per lock, sorted sweeps, every request ends |
| Disk and floppy drivers (`hd.c`, `floppy.c`) | controller state, error counts, motor timers | start, transfer, retry, reset | requests, timers | retries end, the right request is charged |
| Buffer cache (`fs/buffer.c`, `block_dev.c`, `file_dev.c`) | buffers: block, count, lock, dirty, uptodate, data; free list | `getblk`, `bread`, `breada`, `brelse`, `sync` | requests below, the whole file system above | one buffer per block, exact counts, no write lost |
| Memory (`mm/memory.c`) | `mem_map`, page tables | copy on write, sharing, demand loading | fork, exit, exec, buffer cache | counts equal references, no private page shared writable |
| Inodes and bitmaps (`inode.c`, `bitmap.c`, `truncate.c`) | inode table, counts, locks, dirty bits, bitmaps | `iget`, `iput`, `bmap`, `new_block`, `free_block` | cache, super blocks | one inode in core per inode on disk, a block in one file |
| Super blocks (`super.c`) | table of mounted devices | mount, umount | inodes | no mounted device in use is taken away |
| Names (`namei.c`) | directory entries | lookup, create, link, unlink, rmdir | inodes, cache | no entry without inode, link counts exact |
| Open files, pipes (`open.c`, `fcntl.c`, `pipe.c`, ...) | `file_table`, `filp`, ring of a pipe | open, close, dup, read, write | inodes, fork, exit | counts exact, bytes in order |
| Execution (`exec.c`) | page tables, executable inode | `do_execve` | memory, inodes | as memory and inodes |
| Terminals (`tty_io.c`, `console.c`, `kb.S`, `serial.c`, `rs_io.s`) | three rings per terminal | interrupt, cook, read, write | signals, wait queues | rings never overrun, lines in order |
| Rest: traps, coprocessor, `vsprintf`, `printk`, `mktime`, `lib/`, boot | little or none | | | not modelled, or planned as pure algorithms |

## Modules

Each module states in its head what it abstracts. Three layers of waiting are
cut apart on purpose: `WaitQueue` models sleeping statement by statement, and
shows that the queues of locks implement "a set of waiters that is released as a
whole" (`WaitSet`). The other modules use the result: waiting for a lock is the
guard of an action there. Where a *loop around* a sleep matters (a free request,
`buffer_wait`, `waitpid`), it is modelled in full where it stands.

**WaitQueue** (abstract specification `WaitSet`, proofs `WaitQueueProof`,
instance `MCLocks`). `current` owns the processor; `pc` walks through the
statements of `sleep_on` and `interruptible_sleep_on` (`Enter`, `Link`, `Mark`,
`Switch`, then `Return`, or `SeesOther`/`Kick`/`IReturn`). `head` is the pointer
`*p` of each queue, `tmp` the local variable of each task, `held` the lock. A
`LockQueue` is a lock slept on with `sleep_on`; an `InputQueue` is a terminal
with `interruptible_sleep_on`; `IrqQueue` are those released by an interrupt;
`CliQueue` those whose loops run with interrupts off (all, in the code). A task
that holds an inode may wait for a buffer, not for a second inode: nested inode
locks are not covered. `schedule()` picks any runnable task here.

**Sched** (proofs `TaskProof`, instance `MCSched`). `schedule()` as in the code:
alarms and signals first, the scan from the last slot down, new slices. Time is
counted down: an alarm holds the ticks left instead of a jiffy, so that the state
space is finite. `mode` is user mode, in a call, at its end, about to return;
`TickInKernel` and `TickInUser` are the two halves of `do_timer`. What a call
does besides scheduling is a choice (`Other`, `Block`). `sys_nice` has only the lower
bound the code has, and sums wrap (`Wrap`); `SchedModerateSpec` is the same kernel with
programs that raise no priority above `MaxPriority` (`Moderate`).

**TimerList**. `list` holds the entries from `next_timer` on; the swapping loop of
`add_timer` is `Insert`. `callback` and `sti` model the window in which a tick may
interrupt the loop of `do_timer`. `wanted` is a history variable: the ticks a
function was set for.

**Process** (proofs `TaskProof`). Per slot: pid, father, session (for the process group too), leader,
pending signals, and where the task is (`pc`). `do_exit` is two actions, because
it sleeps while it closes files: `ExitBegin` hands the children to init,
`ExitEnd` hangs up the session, becomes a zombie and tells the father.
`sys_waitpid` is one round of its loop (`Scan`), `WaitResumes` the next. init
runs the program of `main.c`: fork, wait for that child, again.

**BlkQueue** (proofs `BlkQueueProof`, instance `MCBlk`). Buffers are numbered in the order of the
elevator. `make_request` is followed from `lock_buffer` to `add_request`, with a
step between the failed search of the table and the sleep, because interrupts are
on there. The lists of other devices, which share the table, are left out. The hard disk
driver works on the first request of the list: `driver` is what `do_hd` waits for, or `"run"` while `do_hd_request` goes from `repeat` to its return, in one
step per request it refuses (`Refuse`), with nothing else running. `Recover` sends the reset
or the recalibration, `Transfer` the command; `SectorDone`, `RequestDone`, `CommandFails` and
`recal_intr` are the interrupts. A request carries its errors and the sectors left.

**BufferCache** (abstract specification `BlockStore`, proofs `BufferCacheProof`, instance `MCCache`). `getblk`
in the steps between its sleeps: `Find`, `Found`, `VictimLost`, `VictimDirty`,
`Assign`; `sync_dev` and `sys_sync` as a loop over the buffers that jumps to the
next one with something to do; `bread`, `breada` with its odd read-ahead (it
requests the first block again), `brelse`; `file_write`, `block_write` and readers
as callers. Data is one bit, flipped by each write: enough to tell whether a
write has been lost. `Faults` names the places where a page fault may put the
holder of a buffer to sleep, `Fails` the transfers that may fail.

**Memory** (abstract specification `AddressSpace`, proofs `MemoryProof`, instance `MCMemory`). `mem_map` is a
count per page above `LOW_MEM` (all pages below are one, `Low`); an address space is
a few directory entries with the pages behind them; an entry has the two bits the
code reads, writable and dirty. Operators such as `free_page_tables` work on a given
map of counts, so that an action that takes pages, fails and gives them back goes
through every count the code goes through. Kernel code is one step up to where it
sleeps: a page read from the file (`StartLoad`, `Loads`), exec in `copy_strings`, which
reads the old program's memory with a page taken for the strings (`do_execve`,
`StringsCopied`, `ExecFails`), releasing the old program (`NoReturn`) and closing files
(`ChangeProgram`), exit closing files (`ExitClosed`), a system call between `verify_area` and
`put_fs_byte`. A task in a system call or in `copy_strings` may be killed by a fault (`oom`)
or a bad pointer (`die`). `page` is what `page[]` holds, `strings` the pages that exec has
taken and neither mapped nor freed; they outlive a task that is killed. Programs end on a
page boundary, reading them succeeds, and the strings fit in one page.

**Inode** (proofs `InodeProof` and `ZoneProof`, instance `MCInode`, both together with `Mount`). The table of inodes in core, the
bitmaps, and one pointer per indirect block. A task runs a *stretch* of code from one
sleep to the next; `r[t].pc` names what it slept in, `r[t].ret` is the stack of what comes
after (`iput` may sleep in the middle of `iget`, of `sys_mount` or of a system call). `iget`
with the search that starts again, `iput` with its `repeat`, `truncate`, `create_block` (a
zone is taken, zeroed and only then stored), `sync_inodes`, `write_inode`. Sleeps in the
cache only delay. What programs do is a table (`May`): open, creat, unlink, truncate,
access to a block, pipe, sync, mount. `entry` stands for the directories: how many names
an inode has. `Races` switches on four races that the code loses, see below; the run
leaves them out.

**Mount** extends `Inode` by super blocks: `sys_mount` with its sleeps in `namei` and
`read_super`, `sys_umount`, and the crossing of a mount point in `iget`.

**Names** (instance `MCNames`). Directories with real entries: `get_dir`, `find_entry` and
`add_entry` read a block at a time, each after a sleep, and keep a reference to it;
`open_namei`, `mknod`, `mkdir`, `rmdir`, `unlink` and `link` in the stretches between their
sleeps. `todo` is the list of inodes a call still has to put, so that every error path of
the code shows in what it puts. `empty_dir` has its two odd paths: for a directory that does
not begin with "." and ".." it returns with the buffer (`flaws`: "bad"), and around a block
without a zone it releases a buffer twice (a panic in `brelse`). `Fails` names the places where
a permission or a read may fail, `Disks` what is on the disk at first, `MaxBufs` bounds the
buffers that `empty_dir` keeps. `flaws` records what of the code's flaws has shown: "bad", the
block that `mkdir` frees twice, and three lost races ("link", "rmdir", "grow").

**Files** (abstract specification `ByteQueue`, proofs `FilesProof`, instance `MCFiles`). `file_table`, `filp` and
`close_on_exec` of every task over open, dup, fork, exec and exit, and one pipe, whose ring
is copied as the code does it: in up to two rounds, in each of which the tail or head moves
first and the bytes follow; the copy of either may sleep in a page fault (`put_fs_byte`,
`get_fs_byte`), and the task may be killed there or in `open_namei` (`die`). `mixed` records
that another task entered the pipe meanwhile or that a copy was cut short, `pipe.untold` that a
task was killed after it moved tail or head and nobody has called `wake_up` since. An entry
whose open was cut short still has the inode of the file before; the model stops at the
`iput` of that (`stale_iput`, `Followed`). What the tasks do is chosen at the start from `Casts`.

**Tty** extends `Files` by a terminal on a serial line: `read_char` (the interrupt with all of
`copy_to_cooked`), `write_char`, and `tty_read`, `tty_write` and `tty_ioctl` by tasks that got
the terminal open through `Files`. Interrupts come between any two steps, so `GETCH` is
apart from the test before it, and the two assignments of `PUTCH` are two steps. While a
task is inside such a loop no other task runs (`Only`), unless it sleeps in a page fault:
`get_fs_byte` does so between the test for room and `PUTCH` (`tty_take`), `put_fs_byte` between
two characters (`tty_give`), and the task may be killed there (`tty_die`). An unfinished line
makes `tty_read` spin without sleeping (`tty_spin`). `flaws` records a `PUTCH` without room
("overflow": an echo, or a write whose `get_fs_byte` slept), an echo in the middle of a
`PUTCH` ("mixed"), and a character erased between test and `GETCH` ("passed"). `OPOST` and
the expansion of line ends, `VMIN` and time-outs are left out.

Operators marked "Mistake" are wrong versions of the definition below them. No
specification uses them; they show that a property would notice the mistake.

## What is checked

| Run | Instance | Shows |
|---|---|---|
| `locks` | 3 tasks, an inode lock and a buffer lock, signals for one task | four safety properties of lock queues, the refinement of `WaitSet`, and that every sleeper is made runnable |
| `tty` | 3 tasks, a lock and a terminal, signals for all | interruptible sleeps write through no null pointer, and leave no lock sleeper behind although they wake some by mistake |
| `sched` | 2 tasks, priorities up to 2 (`SchedModerateSpec`), alarms of one tick | slices bounded, task 0 last, no starvation, signals noticed |
| `blk` | 2 tasks (one reads and reads ahead, one changes and writes), 3 requests, 4 blocks, the second beyond the end of the disk, the first and the last with errors, 3 errors end a request | table and list agree, one owner per lock, one sweep and a restart, interrupts always find their request, every request ends whatever the disk reports |
| `cache` | 2 tasks, 2 buffers, 3 blocks on 2 devices | one buffer per block, exact counts, holders keep their block (`CacheIsConsistent`), nothing lost, waiters will be woken, the refinement of `BlockStore` |
| `memory` | 3 tasks, 8 pages of memory, 2 directory entries, a page of text and a stack; tasks killed in system calls and in exec | counts are exactly the users of a page and the strings of exec, what can be written to is private, the refinement of `AddressSpace` |
| `family` | 3 slots, 4 pids | unique pids, fathers exist (`PidsLeadToTasks`), no missed child, orphans are reaped |
| `timer` | 3 timers, delays 0, 1, 2 and 4 | never early, none lost (`TimersAreKept`), all run |
| `inodes` | 2 tasks, 3 entries in core, 4 inodes on 2 devices, 2 zones | counts exact and one entry per inode (`TableIsExact`), no change lost, a zone in one file, no consistency check fails, no inode in use on an unmounted device |
| `names` | 2 tasks with 8 calls, 3 inodes, 3 zones of 3 entries, 2 blocks to a directory; three disks: the root alone, a directory without "..", a directory with a hole | every path of a call puts what it took, except the two of `empty_dir`; no name leads to a free inode, links are names |
| `names_mkdir` | 3 calls in a full root directory | `mkdir` frees a block twice (expected violation) |
| `files` | 3 tasks, 3 files, 2 descriptors each, a pipe of 4 bytes; queues of 4 characters; six casts: descriptors, pipe, pipe with page faults, typing, printing, signals | counts exact, nobody sleeps who could go on unless a task was killed in its copy, the refinement of `ByteQueue`, lines counted and output in order |

Where a property is a conjunction (`CacheIsConsistent` of `OneBufferPerBlock`,
`CountsAreExact` and `HolderKeepsBlock`, say) its parts are named definitions of their own.

Why these bounds reach the interesting cases:

- Three tasks make chains of two saved pointers, a third task that takes the lock
  between wake-up and resumption, and a task on a queue twice. `WaitQueueProof`
  lifts the bound, as the other proof modules do for
  the safety properties of theirs (see "What is proved").
- Two schedulable tasks suffice for a slice used up by one while the other sleeps
  and comes back with half its old slice; priorities 1 and 2 make them unequal.
  `MaxPriority` bounds `sys_nice`; `TaskProof` lifts both.
- Three requests, two of them for writes, let the table fill up for writers while a
  reader still finds room; four blocks fill it and leave one to ask for; lists of
  three requests are the shortest in which an insertion can be wrong. With
  `MAX_ERRORS` = 3 (7 in the code) there is an error without a reset, one with it, and the last.
- A task needs a page for itself, two page tables and up to two pages: of eight
  pages one task that execs can have all it wants and three cannot, so that every
  allocation succeeds in some state and fails in another, the second page table of
  a fork included. Which of the free pages is taken, and what was in it, makes no
  difference; the view `UpToFrames` identifies states that differ in that only.
  System calls write to the stack only, see below. The copy of exec's strings may find
  no page for its fault, and what a killed exec lost is missing from then on.
- Two buffers for three blocks force every call to evict another's block. The
  calls of a run are a constant: `cache` has one caller of each kind (a file
  block written, a block read with read-ahead, a block of a device written as a
  whole, `sync`). It leaves out, on purpose, reading a block that `block_write`
  has filled, a page fault *during* the copy of `file_write`, and writes that
  fail: these lose data (below).
- Three slots are init, a father and a child; with four pids every one is used
  again while an old owner's children or zombie are still there.
- Three entries in core for two tasks: a task may hold one inode open, wait with an
  empty one, and find the third taken by the other; the root directory has an entry of its
  own. "No free inodes in mem" does happen (`OnlyFullTablesPanic` allows it). Two zones are
  one file's data and its indirect block, or run out in between. Entries are symmetric, and
  what free inodes and zones hold is left out of the view `Live`.
- In `names` the root directory is full, so that every new name needs a block, which fails
  when three zones are used; the paths meet in two directories, one of which comes and goes.
  Two of the disks have that directory already, damaged in one of the ways that `empty_dir`
  does not expect; two buffers kept by it (`MaxBufs`) are more than one call can keep.
- A ring of four bytes holds three: a text of three fills it, one more waits, and all
  rounds over the end of the page occur. Two readers compete. In three casts copies sleep and
  tasks are killed in them, in the first of two rounds or in the second. For terminals, three
  characters fill a queue; typing and printing are separate casts, since a reader does not
  touch the output. The constraint `Bounds` follows a terminal to its first flaw, with one
  character left over in `read_q` and one open file; the view `Live` turns the rings so
  that they begin at their tails.
- Counters that would grow for ever (pids, alarms, timers) wrap or count down; the
  cuts are `MaxPriority` and `MaxBufs`.

`blk`, `memory`, `inodes`, `names` and `files` do not check deadlock: the system really may
stop there (see `make_request` below; when memory runs out every task may end; a panic ends
the kernel; all calls of a run may be over, or wait for a byte nobody will write).

### Fairness

- *Interrupts come*: a command given to the disk ends, well or badly (`Interrupt`), the
  clock ticks. `hd.c` has no time-out: it relies on this as much as the model does.
- *Kernel code runs on*: it does not stop between two statements (weak fairness of
  the steps of `current`), timer loops and `do_exit` come to their end.
- *Runnable tasks run*. In `WaitQueue`, whose `schedule()` is a free choice, this
  is strong fairness, which `Sched` justifies: there it is a property
  (`NoStarvationWithoutForks`), shown from the ticks and weak fairness alone. Its
  premise excludes endless forking, since a child comes with a full slice.
- A holder of a lock comes back from its own sleeps: not a fairness condition
  but the premise of `SleepersWake`. Locks are not fair, a holder may itself lose a
  buffer to others for ever.
- `Process`: init runs its program, and its `fork` succeeds now and then while there
  is room now and then (strong fairness of `InitForks`); memory may be short
  at times but not always.

No fairness is assumed of programs other than init's: they need not exit, wait or
call anything.

## Disagreements between the code and its documents

Checked by a run whose property TLC finds violated:

- `names_mkdir`: `free_block` panics if a block is freed twice (`bitmap.c:70`).
  `sys_mkdir` in a directory that has no room for the entry frees the block of the new
  directory (`namei.c:525`), clears its link count and calls `iput`, whose `truncate` frees
  `i_zone[0]` again. If another task takes the zone in between, it loses it silently.

Met while modelling, without a run of their own. In waiting and processes:

- `init/main.c:145` says only a signal ends `pause()`. A stale `tmp` of
  `interruptible_sleep_on` does, too: the saved task left the queue by a signal, went
  on to `pause()`, and is made runnable when its successor leaves the queue.
In cache and memory:

- `sync` is said to guarantee that what was written is on the disk
  (文件写入流程.md:718). `file_write` marks the buffer dirty *before* it copies
  (`fs/file_dev.c:71`); if the copy sleeps in a page fault, a `sync` writes the old
  data and clears the mark, and the new data is never written (`Faults` with `"copy"`).
- A dirty buffer is said to wait to be written back (文件写入流程.md:211).
  `block_write` fills a block without setting `b_uptodate`; the next `bread` asks for a
  read, which clears `b_dirt` and overwrites the data.
- `try_to_share` assumes that both tasks "share the same executable"
  (`mm/memory.c:290`). exec sets `executable` (`exec.c:321`), then closes files and may
  sleep, and only then frees the old pages: in that time another task that runs the
  new program may take a page of the old one.
- `verify_area` makes pages private that are present; the call may sleep before it
  writes, and a page that is absent is faulted in shared. Until 486 protection is
  used (`head.s:53`) the kernel then writes to a page that another task that runs the
  same file sees, too. And a page copied by `un_wp_page` is clean although it is no
  longer the file's: `try_to_share` would hand it on. `Memory` contains both (let
  `KernelWrites` hold the page of text); what it promises is limited to other pages.
- `blk.h:36` says reads always go before writes. A read may be inserted behind a
  write that belongs to the next sweep (`FitsAfter`).
- `make_request` (`ll_rw_blk.c:124-129`) searches and sleeps with interrupts on; if
  the last requests end in between, its task and all who wait for its buffer sleep
  until somebody else makes a request. `BlkQueue` contains this.
- `do_hd_request` takes `block+2` for the end of a request (`hd.c:304`) also when its first
  sector is done: if the second sector of the last block of a partition fails, the request is
  refused instead of tried again (`BeyondEnd`).
- The last error of the last request reads the errors of a request at address 0
  (`hd.c:246`), finds an entry of the page directory, and resets the controller once more.

Elsewhere in scheduling and waiting:

- A stale `tmp` may also wake a sleeper of another queue, which `schedule.md:71`
  excludes ("只能显式唤醒"), and make a zombie runnable, whose `do_exit` then returns.
- `wake_up` wakes one task and the rest follow one another; `schedule.md:545-584`
  claims this as a chain. For locks it holds (`ImplementsWaitSet`, `SleepersWake`);
  for interruptible sleeps `*p = NULL` can cut off a later sleeper.
- The counter of task 0 is not always 0 (`schedule.md:389`): `INIT_TASK` gives it
  15 ticks (`sched.h:116`). And its state is used (`sched.c:102`: "never used"):
  `system_call.s:97` tests it after each `pause()` of task 0.
- Task 0 "gets called when no other tasks can run" (`sched.c:100-101`). `sys_nice` has no
  upper bound (`sched.c:380`), and `(counter >> 1) + priority` is not tested (`sched.c:138`): a
  task with a priority near the largest long that sleeps with ticks left gets a negative
  counter, which the scan never prefers to its -1, and task 0 runs while the task could. (In
  the run `sched`, take `SchedSpec`, a `MaxPriority` of 7 and `Increments` of -6 to see it.)
- "Nobody starves" (`schedule.md:1091`) fails if tasks fork for ever.
- If the task table is full of zombies, init's loop `continue`s at `main.c:193-196`
  and never waits; nothing is reaped any more.
- `add_timer` does not shorten the delta of the entry behind the new one: timers
  run late by the delays of those put in front of them.
- `breada` requests the first block a second time where it should request the
  next (`buffer.c:339`), so that nothing is ever read ahead.

In files and names (the first four are `Races` of `Inode`, left out of its run):

- `sync_inodes` locks an inode without links that `iput` is truncating; `free_inode` then
  zeroes the entry, lock included, and `write_inode` writes to the block of another inode.
- An inode may be freed between the lookup of its name and `iget`, which then reads it.
- `open` with O_TRUNC, or two tasks that truncate, while others use the file: pointers to
  zones that are free, and a panic in `free_block`.
- `sys_umount` while a task that has crossed the mount point waits in `iget` for the root of
  the device: the inode is left in use without a super block, `iput` panics later. Two
  `umount`s at once put `s_imount` twice (one race, "umount").
- `create_block` by two tasks for the same place loses a zone (`inode.c:91`). `free_block`
  does not clear the bit while the buffer is in use (`bitmap.c:61`).
- `write_inode` needs a buffer; `getblk` may call `sync_dev`, which calls `sync_inodes`, which
  waits for the inode the task itself has locked.
- `find_entry` takes a block that cannot be read for one without the name, so that a name
  may be entered twice; it reads `i_size` before it sleeps (`flaws`: "grow"); `rmdir` may remove
  a directory in which a name was just made in a block that `empty_dir` has passed ("rmdir");
  `link` may give a name to an inode that has just lost its last one ("link").
- `empty_dir` returns without `brelse` if the directory does not begin with "." and ".."
  (`namei.c:557-561`), so that each such `rmdir` keeps a buffer; before a block that has no zone
  it releases the buffer of the block before a second time (`namei.c:566-571`), which is the panic
  of `brelse` or takes the reference of another task.
- Two tasks suffice to corrupt a pipe: while the copy of one waits in a page fault, tail or head
  has moved already, and the other reads bytes before they are written or overwrites them before
  they are read (`mixed`).
- `tty_read` spins in the kernel over an unfinished line (`tty_io.c:256`); the echo is put into
  the write queue without a test (213), also between the two assignments of a task's `PUTCH`;
  `tty_write` tests for room (303) before `get_fs_byte` (304), in whose page fault another task
  may fill the queue, which the `PUTCH` (320) then empties; a character may be erased between
  the test of the queue and `GETCH`. Characters that find the edited queue full stay in `read_q`
  until the next key. If a program changes VEOF, the count of lines goes wrong.

### Tasks killed inside the kernel

A bad pointer in a system call ends in `die` (`traps.c:84`), a page fault that finds no page in
`oom` (`memory.c:36`, called at 232, 280, 321, 382 and 397); both call `do_exit` from the middle of
whatever the task was doing, and `do_exit` knows only pages that are mapped, descriptors, and
the three inodes of the task. What the call holds besides is never given back:

| Where | What is left behind | In the model |
|---|---|---|
| `copy_strings` (`exec.c:120`, 126, 146) | the pages in `page[]` stay counted | `Memory`: `die`, `oom`, `strings`. `CountsAreUsers` counts them: nothing else is lost |
| `read_pipe`, `write_pipe` (`pipe.c:35`, 65) | tail or head has moved, `wake_up` (37, 67) is not reached; with a shared descriptor `sys_close` wakes nobody either, and the other side sleeps on | `Files`: `die`, `pipe.untold`, `mixed`. `SleepersMustWait` holds for all other sleepers, and again after the next `wake_up` |
| `open_namei` (`open.c:157`) | an entry with `f_count` 1 and the `f_inode` of the file before, which `sys_close` puts again | `Files`: `die`, up to that `iput` |
| `tty_read`, `tty_write` | nothing; the characters are gone | `Tty`: `tty_die` |
| `file_read`, `file_write`, `block_read`, `block_write` (`file_dev.c:37`, 81; `block_dev.c:40`, 69) | `b_count` of the buffer; enough of them stop `getblk` | not modelled |
| `namei.c` while it reads the path | the inode of the directory, and the buffer in which a name is being compared | not modelled |
| `do_execve` | the inode of the new program | not modelled (`Files` has only the references a task keeps) |

So `CacheIsConsistent` and `SleeperIsWoken` of `BufferCache`, `TableIsExact` of `Inode` and
`NothingIsKept` of `Names` speak of tasks that are not killed in the middle of a call.

## What is proved

Each proof module extends the module it is about (`TaskProof` both `Process` and
`Sched`, which share no variable, `ZoneProof` also `InodeProof`); `PROJECT.json` lists the theorems that
state a property of a run. All follow one plan: an inductive invariant that holds
initially and over every action (one lemma per action, or per group of actions with the
same shape), and the property as its consequence. Every such invariant was checked by TLC
first. The named assumptions on constants that a module declares hold in all of its runs,
where TLC evaluates them; those that only a theorem needs are hypotheses of that theorem.

`WaitQueueProof`, for any number of tasks and locks. Assumption `LocksOnly`: there is
no interruptible queue, and a lock that an interrupt releases is tested with
interrupts off (as all callers of the lock loops do). None of the properties is
inductive alone; `QueueInv` adds what they need from one another: what a head and a
`tmp` point to is asleep or about to, on that queue and uninterruptible
(`PointerInv`); nobody is pointed to twice, except between `Enter` and `Link`
(`UniqueInv`); a task inside the test-and-sleep sequence is the running one, and the
lock it found taken is still taken (`GoingInv`). `NoOrphans` quantifies over sets of
sleepers and not over paths, which avoids induction along the chain: linking a new
sleeper moves the old head from "head" to "saved", and waking a task moves it out of
every set of sleepers while its own `tmp` keeps the next one referred to. From
`QueueInv` follow `SleepersAreReachable`, `WakeupsAreNotLost`, `TmpIsNeverStale`,
`ZombiesStayDead`, `WokenByOwnQueue`, `PauseEndsWithSignal`. `LocksOnly` is needed: with
a terminal a stale `tmp` exists. A second part drops it and keeps only
`InterruptsGuarded` (interrupts are off around the tests that an interrupt may end):
with terminals, too, `NoNullWrite` and `NoLockOrphans` hold. A stale pointer can make a
task runnable too early, never take it out of reach: a sleeper of a lock leaves the head of
its queue only when it is made runnable or the next sleeper has saved it (`PlaceInv`).

`TaskProof`, for the scheduler with any number of tasks. `SchedTypeCorrect` and `IdleMeansNoTicks`
hold whatever `sys_nice` is called with: when task 0 is chosen, every task that can run has a
negative counter. `CountersAreBounded` and `IdleIsLast` are about executions in which programs
raise no priority above `MaxPriority` (`[]Moderate`), two slices of which fit in a long
(`NoOverflow`); the code enforces neither, and without them both are false (see the
disagreements). `CounterBound` is inductive because half of a counter below `2 * MaxPriority`,
plus a priority, is below it again; then no counter is negative, and the scan, which starts
below every counter, finds a runnable task.

`TaskProof`, for processes with any number of slots and of pids, of which there are at least
`NR_TASKS` (in the code 2^31 - 1, and 64): `PidsLeadToTasks` and `NoMissedChild`. What is needed besides: init is never
killed nor released, because its session is 0, which no leader has (`InitStays`), and
nobody but task 0 has pid 0 (`IdsAreSet`). `NewPidIsUnused` is about the search of
`find_empty_process`, whose first hit after `last_pid` exists by counting and is the least
element of a set of numbers (`LeastElement`, from the well-founded order of the library).

`BlkQueueProof`, for any number of tasks, requests and buffers, any `MAX_ERRORS`, any
disk: `RequestsInOrder` (none of the driver's panics fires) and `OneOwnerPerLock`. A locked
buffer has either a request or a task in `make_request` for its own (`OwnerInv`); the list
holds each complete request once, and every other one is just being filled (`ListInv`);
`SweepInv` says that the list descends at most once. That `add_request` keeps
it (`InsertSweepsOnce`) is the theorem about the elevator: the place the loop stops at is
the first where the new request fits, and inserting there moves the one descent or splits it.
Removing the first request can only remove a descent.

`BufferCacheProof`, for any number of tasks, buffers and blocks, and any failing transfer:
`CacheIsConsistent` from `CacheInv`, which says for every place in the code what the registers
hold (`ControlInv`), that `b_count` is the number of references (`ExactInv`), that a
reference is to the buffer of the block that was asked for (`BlockInv`), and who
may be transferring (`LockInv`). The heart is `Assign`: no sleep lies between the last search
for the block (`find_buffer` in `getblk`) and the assignment. `NothingIsLost` assumes
`CopiesDoNotSleep`; without it the property is false, see the disagreements above.
`SleepersAreWoken` assumes `EnoughBuffers`, more buffers than tasks: `main.c` gives `buffer_init`
room for hundreds at least, and there are 64 tasks. Without it two callers of `breada`, each with
its first buffer, wait for each other.

`MemoryProof`, for any number of tasks, frames, page tables and pages. `MemoryAssumption`
asks for enough memory for the first task and its tables, which the kernel has before
anybody runs. `CountsAreUsers` is `CountInv`, a sum of cardinalities per frame, over
actions that take several pages, may fail at any of them and go back, or lose the one of a
killed exec (`StringsInv`: a page of strings is in nobody else's hands); `WritableIsPrivate`
needs that what a task owns is counted once (`OwnerInv`). `SpacesAreOwn` is the refinement of
`AddressSpace`: every step of the kernel is a step of one task on its own memory, or none.
It needs one more invariant (`SpaceInv`): a frame that two tasks map is at the same page of
both, so that copying and sharing keep contents; a page that is being read from a file is
text or data; a page that `verify_area` has passed is private, or text or data. Text and
data are outside what `AddressSpace` promises, for the reasons given under "Disagreements".
`TableIsFreed` shows that `put_page` for the stack of a new program finds a page for its
table, which exec does not test: the old tables have just been freed.

`FilesProof`, for any number of tasks, files and descriptors and any size of the ring: twice,
for `Files` alone (`Spec`) and with the terminal (`TtySpec`), since `Tty` adds actions but
shares the state. `DescriptorsAreExact`: `f_count` against descriptors, `inodes` and the count
of the pipe against the files that are open; `FitInv` says for every place in open, dup, fork,
exec and exit what its descriptors lead to. `SleepersMustWait` holds over the copies that
sleep in page faults, in the first round or the second: after both rounds of the loop of
`read_pipe` it has all it asked for or the ring is empty, after those of `write_pipe` it is done
or the ring is full (`TwoReads`, `TwoWrites`, arithmetic modulo the size of the page), so that
nobody goes to sleep who could go on; and the `wake_up` before each sleep and at each end leaves
nobody of the other side behind. A task that is killed in its copy (`DieStep`) does not come to
that: until somebody else calls `wake_up` (`untold`) only the first half of the property holds,
that who sleeps does so while both ends are open.

`InodeProof`, for `MountSpec` with any number of tasks, entries, inodes, zones and devices:
`TableIsExact` and `NoChangeIsLost`; `ZoneProof` on top of it: `ZonesHaveOneOwner`.
(`UsedInodesAreMounted` and `OnlyFullTablesPanic` are shown there, too, but say little: the
hypotheses leave out exactly the races with which they fail.) `InodeAssumption` says what mkfs and
`mount_root` leave: finitely many inodes, a root directory per device, that of the root device
apart. The hypothesis `NoTableRaces` leaves out the three races of `Races` that disturb the
table (below); the fourth, O_TRUNC under others, does it no harm. `InodeInv` has a part for
each thing the code relies on over a sleep: what a task may have in its registers and on its
stack at each place (`Sound`); that every count is the number of references, tasks' and
mounts' (`CountInv`); what a task finds unchanged in the entries it uses, an empty one, one it
reads, writes, names or truncates (`FitInv`); that no two tasks lock one entry or mount one
device (`ApartInv`); what every entry has to do with the disk, the bitmap, the names and the
super blocks (`SlotInv`), and the same for inodes that are not in the table (`InoInv`); and
that a directory with a device on it is marked (`MountInv`), so that `iget` passes on to a
device exactly as long as its root may be in use. A step is shown to keep it by what it does to
one or two entries (`InodesStep`, `EntriesStep`, `MountsStep`); the hard ones are `iput`, which
goes round until nobody has come in while it slept, and `iget`, whose search starts again.

`ZInv` of `ZoneProof` is about zones, and needs the fourth race left out too
(`NoRaces`): O_TRUNC under others frees a zone that another task has found in `bmap` and
sleeps on. A zone whose bit is set belongs to one position of one file, or to one task, or is lost
(`ZoneInv`). What a file *has* (`Has`) are the zones its pointers lead to, less those that a
`truncate` in progress has come past; what a task has *in hand* (`Hand`) are the zones on its
list to free, the pointers in the first of them, which it has not read yet, or the zone that
`new_block` took and has not stored. So `new_block` moves a zone from hand to file and
`truncate` from file to hand, cell by cell, although in between both sleep and a zone is
neither where the pointers nor where the bitmap says. `HoldInv` says that a task in `bmap`
goes on only from zones that no other file has and nobody frees (`Safe`); `CutInv` that nobody
else uses an inode that is truncated; `TidyInv` that an entry nobody counts has nothing that is
not on the disk, so that a file keeps its zones when it leaves the table and comes back. For
`OnlyFullTablesPanic` each check of the code is then shown to hold where it stands: the bit of
a zone in hand is set, nobody counts the buffer of a new zone, an inode that is freed has one
reference and no links, and the device of what is read or written is there.

For these proofs, two definitions were rewritten without a change of meaning: a sum over tasks
in `Files` is the cardinality of a set of pairs, and a `CASE` in `BufferCache` is an `IF`.

Only model-checked, and why:

- All liveness (`SleepersWake`, `NoStarvationWithoutForks`, that requests end, ...): the
  prover has no rules for fairness and `ENABLED`.
- `TimerList`, whose operators are recursive, which is out of the prover's reach, and
  `WaitSet`: `Linked` is a closure, and an argument about it needs induction over chains.
- `ImplementsBlockStore`. It holds for the run and not in general: `block_write` leaves
  `b_uptodate` 0, and a later `bread` reads the old block over the dirty buffer.
- `ImplementsByteQueue` (the contents of the ring as a sequence), and the properties of
  `Tty` about the number of lines in a queue and the order of the output, which are folds over
  sequences and need induction.
- `Names`: what a call still has to put is a sequence that its steps walk through.

## Not modelled

- The data of blocks beyond one bit, cylinders and heads: the properties above do not depend
  on them. The panics of a controller that never becomes ready, and a late interrupt of a write
  that has shown no DRQ.
- Hash chains and the pointers of the free list: the cache finds a buffer by its
  block; the order of the free list is kept.
- Blocked signals and handlers (see the plan), job control (tasks are never
  `TASK_STOPPED` in this kernel: nothing sets it).
- The ram disk, which the Makefile does not configure.
- The parts listed as `not_modelled` in `PROJECT.json`, with the reason for each.

## Plan

Done: `WaitQueue`, `Sched`, `TimerList`, `Process`, `BlkQueue`, `BufferCache`, `Memory`,
`Inode` and `Mount`, `Names`, `Files` with `ByteQueue`, `Tty`; proofs about the first two,
`Process`, `BlkQueue`, `BufferCache`, `Memory` with `AddressSpace`, `Files`, and `Inode` with
`Mount`.

Left to prove: `NothingIsKept` of `Names`, and with it that every name leads to an inode.

Left to model: the floppy driver with its motor timers on top of `TimerList`, signal masks and
handlers joined to `Process`, and as pure algorithms the bucket allocator, `mktime` and the
escape sequences of the console. Questions these models should answer, from reading only:

- `do_fd_request` recalibrates with an empty list after the last request has given up
  (`floppy.c:241-243, 426`); a request that comes before the interrupt starts it a second time.
- `floppy_on` and `floppy_change` test and sleep with interrupts on (`sched.c:228-236`,
  `floppy.c:143`): is the wake-up of the motor, or of the drive, missed?
- `do_signal` adds `sa_mask` to the mask without taking SIGKILL out (`signal.c:118`), and
  `waitpid` returns `-EINTR` for a signal that is blocked (`exit.c:188`).

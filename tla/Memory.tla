------------------------------- MODULE Memory -------------------------------
(***************************************************************************)
(* Pages of memory: mm/memory.c, with its callers in kernel/fork.c         *)
(* (copy_process, verify_area), kernel/exit.c and fs/exec.c.               *)
(*                                                                         *)
(* A frame is counted in mem_map; a frame below LOW_MEM (Low stands for    *)
(* all of them) is not.  An address space is a few page directory entries  *)
(* of 4 Mb, each with a page table; a page table entry is a frame with the *)
(* bits the code looks at, writable and dirty.  Programs end on a page     *)
(* boundary and disk reads succeed.                                        *)
(*                                                                         *)
(* No task is preempted in the kernel: a fault is one step, unless it      *)
(* reads the page from the file and sleeps; exec sleeps in the faults of   *)
(* copy_strings, when it releases the old program and when it closes       *)
(* files, exit when it closes files.  A task that reads or writes user     *)
(* memory for a system call can be killed there, by a fault that finds no  *)
(* page (oom) or by a bad pointer (die).                                   *)
(***************************************************************************)
EXTENDS Integers, FiniteSets

CONSTANTS
  NTask,        \* slots of task[], but for task 0
  NFrame,       \* pages above LOW_MEM
  Dir,          \* page directory entries of a task, a set of integers
  Page,         \* its pages
  DirOf,        \* the directory entry of a page
  Stack,        \* the page that takes the arguments of a program
  File,         \* the executables
  Loaded,       \* the pages of a file's text and data (below end_data)
  KernelPages,  \* the pages of task 1 that start on the kernel's memory
  KernelWrites, \* the pages that system calls are asked to write to
  Zero, Kernel, Args,  \* what a page holds before anybody writes to it
  None

Task == 1 .. NTask
Frame == 1 .. NFrame
Low == 0

Entry == [frame : Frame \cup {Low}, w : BOOLEAN, dirty : BOOLEAN]

\* A page that is being filled: where it will be, and for which program.
Hold == [page : Page, frame : Frame, file : File]

\* The memory has room for task 1 as it starts: its task_struct and its tables.
ASSUME MemoryAssumption ==
  /\ NTask \in Nat \ {0} /\ NFrame \in Nat
  /\ Dir \subseteq Int /\ IsFiniteSet(Dir) /\ IsFiniteSet(Page)
  /\ DirOf \in [Page -> Dir]
  /\ Stack \in Page
  /\ Loaded \in [File -> SUBSET (Page \ {Stack})]
  /\ KernelWrites \subseteq Page /\ KernelPages \subseteq Page
  /\ KernelPages # {}
  /\ Cardinality({DirOf[v] : v \in KernelPages}) < NFrame
  /\ None \notin File \cup Page \cup Int \cup Entry \cup Hold

VARIABLES
  mem_map,     \* the number of users of each frame
  data,        \* what it holds
  task,        \* the frame of each task's task_struct
  pg_dir,      \* the frame of each page table
  pg_table,    \* the page table entries, None when not present
  executable,  \* the program each task runs
  pc,          \* where the task is
  held,        \* the page it has taken while it sleeps, and for what
  wr,          \* the page a system call has verified and will write to
  page,        \* the page of strings, while copy_strings fills it
  strings      \* the pages copy_strings took, until they are freed or mapped

vars == <<mem_map, data, task, pg_dir, pg_table, executable, pc, held, wr,
          page, strings>>

Content == Task \cup File \cup {Zero, Kernel, Args}

TypeOK ==
  /\ mem_map \in [Frame -> Nat]
  /\ data \in [Frame \cup {Low} -> Content]
  /\ task \in [Task -> Frame \cup {None}]
  /\ pg_dir \in [Task -> [Dir -> Frame \cup {None}]]
  /\ pg_table \in [Task -> [Page -> Entry \cup {None}]]
  /\ executable \in [Task -> File \cup {None}]
  /\ pc \in [Task -> {"free", "user", "load", "copy", "exec", "close", "exit",
                      "zombie"}]
  /\ held \in [Task -> Hold \cup {None}]
  /\ wr \in [Task -> Page \cup {None}]
  /\ page \in [Task -> Frame \cup {None}]
  /\ strings \subseteq Frame

-----------------------------------------------------------------------------
(* The free pages.  The operators work on a given map, so that a step may  *)
(* take and give back several pages.                                       *)

FreePages(map) == {f \in Frame : map[f] = 0}

\* get_free_page scans from the top.
get_free_page(map) ==
  IF FreePages(map) = {} THEN None
  ELSE CHOOSE f \in FreePages(map) : \A g \in FreePages(map) : g <= f

Taken(map, f) == [map EXCEPT ![f] = 1]

\* The kernel's own pages are not counted, and 0 is no page.
free_page(map, f) == IF f \in Frame THEN [map EXCEPT ![f] = @ - 1] ELSE map

NoDir == [d \in Dir |-> None]
NoPage == [v \in Page |-> None]

Mapped(table) == {v \in Page : table[v] # None}

\* How often a table maps a frame, and a directory names it.
MapsTo(table, f) == Cardinality({v \in Mapped(table) : table[v].frame = f})
Names(dir, f) == Cardinality({d \in Dir : dir[d] = f})

free_page_tables(map, dir, table) ==
  [f \in Frame |-> map[f] - MapsTo(table, f) - Names(dir, f)]

-----------------------------------------------------------------------------
(* Exit.                                                                   *)

\* do_exit up to the first file it closes, the counts being map.  It knows
\* nothing of page[], which is on the kernel stack of do_execve.
do_exit(t, map) ==
  /\ mem_map' = free_page_tables(map, pg_dir[t], pg_table[t])
  /\ pg_dir' = [pg_dir EXCEPT ![t] = NoDir]
  /\ pg_table' = [pg_table EXCEPT ![t] = NoPage]
  /\ pc' = [pc EXCEPT ![t] = "exit"]
  /\ held' = [held EXCEPT ![t] = None]
  /\ wr' = [wr EXCEPT ![t] = None]
  /\ page' = [page EXCEPT ![t] = None]
  /\ UNCHANGED <<data, task, executable, strings>>

oom(t, map) == do_exit(t, map)

InUser(t) == pc[t] = "user" /\ wr[t] = None

Exit(t) == InUser(t) /\ do_exit(t, mem_map)

\* A pointer beyond the segment, in a system call that writes to user memory
\* or in copy_strings.
die(t) == (wr[t] # None \/ page[t] # None) /\ pc[t] # "load" /\ do_exit(t, mem_map)

\* The files are closed, iput(current->executable).
ExitClosed(t) ==
  /\ pc[t] = "exit"
  /\ executable' = [executable EXCEPT ![t] = None]
  /\ pc' = [pc EXCEPT ![t] = "zombie"]
  /\ UNCHANGED <<mem_map, data, task, pg_dir, pg_table, held, wr,
                 page, strings>>

\* Somebody waits for the zombie.
release(t) ==
  /\ pc[t] = "zombie"
  /\ \E u \in Task : InUser(u)
  /\ mem_map' = free_page(mem_map, task[t])
  /\ task' = [task EXCEPT ![t] = None]
  /\ pc' = [pc EXCEPT ![t] = "free"]
  /\ UNCHANGED <<data, pg_dir, pg_table, executable, held, wr, page, strings>>

-----------------------------------------------------------------------------
(* Fork.                                                                   *)

\* The directory entries copy_page_tables comes to, the table of the n-th of
\* them included, when it can have n tables.
FirstDirs(t, n) ==
  LET present == {d \in Dir : pg_dir[t][d] # None}
  IN {d \in present : Cardinality({e \in present : e <= d}) <= n}

\* The n-th free page that get_free_page gives.
NthFree(map, n) ==
  CHOOSE f \in FreePages(map) : Cardinality({g \in FreePages(map) : g >= f}) = n

\* The tables of the child: the first one is the page after the task_struct.
ChildDir(t, dirs, map) ==
  [d \in Dir |->
     IF d \in dirs THEN NthFree(map, Cardinality({e \in dirs : e <= d}))
     ELSE None]

Protected(e) == [e EXCEPT !.w = FALSE]

CopiedIn(t, dirs) == {v \in Mapped(pg_table[t]) : DirOf[v] \in dirs}

ChildTable(t, dirs) ==
  [v \in Page |->
     IF v \in CopiedIn(t, dirs) THEN Protected(pg_table[t][v]) ELSE None]

\* Mistake: the parent may go on writing.
ParentStaysWritable(t, dirs) == pg_table[t]

\* The pages of the kernel stay writable for the parent.
ParentTable(t, dirs) ==
  [v \in Page |->
     IF v \in CopiedIn(t, dirs) /\ pg_table[t][v].frame # Low
     THEN Protected(pg_table[t][v]) ELSE pg_table[t][v]]

\* The counts when the pages in dirs are copied.
CopiedMap(t, dirs, map) ==
  [f \in Frame |->
     map[f] + MapsTo(ChildTable(t, dirs), f)
            + Names(ChildDir(t, dirs, map), f)]

FirstFree(c) == pc[c] = "free" /\ \A u \in 1 .. c - 1 : pc[u] # "free"

Present(t) == {d \in Dir : pg_dir[t][d] # None}

\* copy_process: a page for the task_struct, then copy_mem.
copy_process(t, c) ==
  LET p == get_free_page(mem_map)
      map == Taken(mem_map, p)
      dirs == FirstDirs(t, Cardinality(FreePages(map)))
  IN /\ InUser(t) /\ FirstFree(c)
     /\ p # None /\ dirs = Present(t)
     /\ mem_map' = CopiedMap(t, dirs, map)
     /\ task' = [task EXCEPT ![c] = p]
     /\ pg_dir' = [pg_dir EXCEPT ![c] = ChildDir(t, dirs, map)]
     /\ pg_table' = [pg_table EXCEPT ![c] = ChildTable(t, dirs),
                                     ![t] = ParentTable(t, dirs)]
     /\ executable' = [executable EXCEPT ![c] = executable[t]]
     /\ pc' = [pc EXCEPT ![c] = "user"]
     /\ UNCHANGED <<data, held, wr, page, strings>>

\* There is no page for a page table: copy_mem frees what it has copied, and
\* copy_process the task_struct.  The parent's pages stay write-protected.
OutOfMemory(t, c) ==
  LET p == get_free_page(mem_map)
      map == Taken(mem_map, p)
      dirs == FirstDirs(t, Cardinality(FreePages(map)))
      copied == CopiedMap(t, dirs, map)
  IN /\ InUser(t) /\ FirstFree(c)
     /\ p # None /\ dirs # Present(t)
     /\ mem_map' =
          free_page(free_page_tables(copied, ChildDir(t, dirs, map),
                                     ChildTable(t, dirs)), p)
     /\ pg_table' = [pg_table EXCEPT ![t] = ParentTable(t, dirs)]
     /\ UNCHANGED <<data, task, pg_dir, executable, pc, held, wr, page,
                    strings>>

-----------------------------------------------------------------------------
(* Page faults.  A task faults on any page of its own, also in             *)
(* copy_strings, or in a system call on the page the call writes to.       *)

Touches(t, v) == pc[t] \in {"user", "copy"} /\ wr[t] \in {None, v}

New(f) == [frame |-> f, w |-> TRUE, dirty |-> FALSE]

\* The page table for v, a new one if need be.
TableFor(t, v, map) ==
  IF pg_dir[t][DirOf[v]] # None THEN pg_dir[t][DirOf[v]] ELSE get_free_page(map)

\* put_page, and the end of try_to_share: the entry e for v.
put_page(t, v, e, map) ==
  /\ mem_map' = IF pg_dir[t][DirOf[v]] # None THEN map
                ELSE Taken(map, get_free_page(map))
  /\ pg_dir' = [pg_dir EXCEPT ![t][DirOf[v]] = TableFor(t, v, map)]
  /\ pg_table' = [pg_table EXCEPT ![t][v] = e]

InProgram(t, v) == executable[t] # None /\ v \in Loaded[executable[t]]

\* The tasks whose page share_page can take.
Sharers(t, v) ==
  {p \in Task \ {t} :
     /\ executable[p] = executable[t]
     /\ pg_dir[p][DirOf[v]] # None
     /\ pg_table[p][v] # None
     /\ ~pg_table[p][v].dirty
     /\ pg_table[p][v].frame # Low}

NoPageAt(t, v) == Touches(t, v) /\ pg_table[t][v] = None

\* get_empty_page
EmptyPage(t, v) ==
  LET f == get_free_page(mem_map)
      map == Taken(mem_map, f)
  IN /\ NoPageAt(t, v) /\ ~InProgram(t, v)
     /\ f # None /\ TableFor(t, v, map) # None
     /\ put_page(t, v, New(f), map)
     /\ data' = [data EXCEPT ![f] = Zero]
     /\ UNCHANGED <<task, executable, pc, held, wr, page, strings>>

\* get_empty_page without a page, or without one for the table.
NoEmptyPage(t, v) ==
  LET f == get_free_page(mem_map)
      map == Taken(mem_map, f)
  IN /\ NoPageAt(t, v) /\ ~InProgram(t, v)
     /\ \/ f = None /\ oom(t, mem_map)
        \/ /\ f # None /\ TableFor(t, v, map) = None
           /\ oom(t, free_page(map, f))

\* share_page: the last task that can share does.
SharePage(t, v) ==
  LET sharers == Sharers(t, v)
      p == CHOOSE q \in sharers : \A r \in sharers : r <= q
      e == Protected(pg_table[p][v])
      map == [mem_map EXCEPT ![e.frame] = @ + 1]
  IN /\ NoPageAt(t, v) /\ InProgram(t, v)
     /\ sharers # {} /\ TableFor(t, v, mem_map) # None
     /\ mem_map' = IF pg_dir[t][DirOf[v]] # None THEN map
                   ELSE Taken(map, get_free_page(map))
     /\ pg_dir' = [pg_dir EXCEPT ![t][DirOf[v]] = TableFor(t, v, map)]
     /\ pg_table' = [pg_table EXCEPT ![t][v] = e, ![p][v] = e]
     /\ UNCHANGED <<data, task, executable, pc, held, wr, page, strings>>

CannotShare(t, v) ==
  /\ NoPageAt(t, v) /\ InProgram(t, v)
  /\ Sharers(t, v) # {} /\ TableFor(t, v, mem_map) = None
  /\ oom(t, mem_map)

\* bmap and bread_page sleep.
StartLoad(t, v) ==
  LET f == get_free_page(mem_map)
  IN /\ NoPageAt(t, v) /\ InProgram(t, v) /\ Sharers(t, v) = {}
     /\ f # None
     /\ mem_map' = Taken(mem_map, f)
     /\ data' = [data EXCEPT ![f] = Zero]
     /\ held' = [held EXCEPT ![t] =
                   [page |-> v, frame |-> f, file |-> executable[t]]]
     /\ pc' = [pc EXCEPT ![t] = "load"]
     /\ UNCHANGED <<task, pg_dir, pg_table, executable, wr, page, strings>>

CannotLoad(t, v) ==
  /\ NoPageAt(t, v) /\ InProgram(t, v) /\ Sharers(t, v) = {}
  /\ FreePages(mem_map) = {}
  /\ oom(t, mem_map)

Loads(t) ==
  LET h == held[t]
  IN /\ pc[t] = "load" /\ TableFor(t, h.page, mem_map) # None
     /\ data' = [data EXCEPT ![h.frame] = h.file]
     /\ put_page(t, h.page, New(h.frame), mem_map)
     /\ pc' = [pc EXCEPT ![t] = IF page[t] = None THEN "user" ELSE "copy"]
     /\ held' = [held EXCEPT ![t] = None]
     /\ UNCHANGED <<task, executable, wr, page, strings>>

\* Mistake: the page is not given back.
NoTableForLoadLeaks(t) ==
  /\ pc[t] = "load" /\ TableFor(t, held[t].page, mem_map) = None
  /\ oom(t, mem_map)

NoTableForLoad(t) ==
  /\ pc[t] = "load" /\ TableFor(t, held[t].page, mem_map) = None
  /\ oom(t, free_page(mem_map, held[t].frame))

\* Mistake: a page of the kernel is taken over.
SoleUserOrKernel(f) == f \notin {g \in Frame : mem_map[g] > 1}

SoleUser(f) == f \in {g \in Frame : mem_map[g] = 1}

\* un_wp_page: one user takes the page over, others get a copy.
un_wp_page(t, v) ==
  LET old == pg_table[t][v].frame
      new == get_free_page(mem_map)
  IN \/ /\ SoleUser(old)
        /\ pg_table' = [pg_table EXCEPT ![t][v].w = TRUE]
        /\ UNCHANGED <<mem_map, data>>
     \/ /\ ~SoleUser(old)
        /\ new # None
        /\ mem_map' = free_page(Taken(mem_map, new), old)
        /\ data' = [data EXCEPT ![new] = data[old]]
        /\ pg_table' = [pg_table EXCEPT ![t][v] = New(new)]

\* un_wp_page ends in oom.
NoCopy(t, v) ==
  /\ ~SoleUser(pg_table[t][v].frame)
  /\ FreePages(mem_map) = {}

ReadOnly(t, v) == pg_table[t][v] # None /\ ~pg_table[t][v].w

do_wp_page(t, v) ==
  /\ InUser(t) /\ ReadOnly(t, v)
  /\ \/ un_wp_page(t, v) /\ UNCHANGED <<task, pg_dir, executable, pc, held, wr,
                                        page, strings>>
     \/ NoCopy(t, v) /\ oom(t, mem_map)

-----------------------------------------------------------------------------
(* Writes, by the program and by system calls.                             *)

\* The processor writes x to v and sets the dirty bit.
Written(t, v, x) ==
  /\ data' = [data EXCEPT ![pg_table[t][v].frame] = x]
  /\ pg_table' = [pg_table EXCEPT ![t][v].dirty = TRUE]

Store(t, v) ==
  /\ InUser(t) /\ pg_table[t][v] # None /\ pg_table[t][v].w
  /\ Written(t, v, t)
  /\ UNCHANGED <<mem_map, task, pg_dir, executable, pc, held, wr, page,
                 strings>>

\* write_verify does nothing for a page that is not there.
verify_area(t, v) ==
  /\ InUser(t)
  /\ \/ /\ ReadOnly(t, v)
        /\ \/ /\ un_wp_page(t, v)
              /\ wr' = [wr EXCEPT ![t] = v]
              /\ UNCHANGED <<task, pg_dir, executable, pc, held, page,
                             strings>>
           \/ NoCopy(t, v) /\ oom(t, mem_map)
     \/ /\ ~ReadOnly(t, v)
        /\ wr' = [wr EXCEPT ![t] = v]
        /\ UNCHANGED <<mem_map, data, task, pg_dir, pg_table, executable, pc,
                       held, page, strings>>

\* put_fs_byte: the processor checks no write protection in the kernel.
put_fs_byte(t) ==
  LET v == wr[t]
  IN /\ pc[t] = "user" /\ v # None
     /\ pg_table[t][v] # None
     /\ Written(t, v, t)
     /\ wr' = [wr EXCEPT ![t] = None]
     /\ UNCHANGED <<mem_map, task, pg_dir, executable, pc, held, page,
                    strings>>

\* The call returns without a result.
CallFails(t) ==
  /\ pc[t] = "user" /\ wr[t] # None
  /\ wr' = [wr EXCEPT ![t] = None]
  /\ UNCHANGED <<mem_map, data, task, pg_dir, pg_table, executable, pc, held,
                 page, strings>>

-----------------------------------------------------------------------------
(* Exec.                                                                   *)

\* copy_strings has found the first page for the strings, and goes on reading
\* user memory.
do_execve(t) ==
  LET f == get_free_page(mem_map)
  IN /\ InUser(t) /\ f # None
     /\ mem_map' = Taken(mem_map, f)
     /\ data' = [data EXCEPT ![f] = Zero]
     /\ page' = [page EXCEPT ![t] = f]
     /\ strings' = strings \cup {f}
     /\ pc' = [pc EXCEPT ![t] = "copy"]
     /\ UNCHANGED <<task, pg_dir, pg_table, executable, held, wr>>

\* The strings are copied; iput(current->executable) sleeps.
StringsCopied(t, file) ==
  /\ pc[t] = "copy"
  /\ data' = [data EXCEPT ![page[t]] = Args]
  /\ held' = [held EXCEPT ![t] =
                [page |-> Stack, frame |-> page[t], file |-> file]]
  /\ page' = [page EXCEPT ![t] = None]
  /\ strings' = strings \ {page[t]}
  /\ pc' = [pc EXCEPT ![t] = "exec"]
  /\ UNCHANGED <<mem_map, task, pg_dir, pg_table, executable, wr>>

\* exec_error1
ExecFails(t) ==
  /\ pc[t] = "copy"
  /\ mem_map' = free_page(mem_map, page[t])
  /\ page' = [page EXCEPT ![t] = None]
  /\ strings' = strings \ {page[t]}
  /\ pc' = [pc EXCEPT ![t] = "user"]
  /\ UNCHANGED <<data, task, pg_dir, pg_table, executable, held, wr>>

\* current->executable = inode; sys_close sleeps.
NoReturn(t) ==
  /\ pc[t] = "exec"
  /\ executable' = [executable EXCEPT ![t] = held[t].file]
  /\ pc' = [pc EXCEPT ![t] = "close"]
  /\ UNCHANGED <<mem_map, data, task, pg_dir, pg_table, held, wr, page,
                 strings>>

\* free_page_tables, change_ldt and create_tables, which writes to the page.
\* Whether put_page has a page for the table is not looked at.
ChangeProgram(t) ==
  LET h == held[t]
      freed == free_page_tables(mem_map, pg_dir[t], pg_table[t])
      table == get_free_page(freed)
      e == [New(h.frame) EXCEPT !.dirty = TRUE]
  IN /\ pc[t] = "close"
     /\ mem_map' = IF table = None THEN freed ELSE Taken(freed, table)
     /\ pg_dir' = [pg_dir EXCEPT ![t] = [NoDir EXCEPT ![DirOf[Stack]] = table]]
     /\ pg_table' = [pg_table EXCEPT ![t] =
          IF table = None THEN NoPage ELSE [NoPage EXCEPT ![Stack] = e]]
     /\ pc' = [pc EXCEPT ![t] = "user"]
     /\ held' = [held EXCEPT ![t] = None]
     /\ UNCHANGED <<data, task, executable, wr, page, strings>>

-----------------------------------------------------------------------------

\* After the first fork.
Init ==
  LET dirs == {DirOf[v] : v \in KernelPages}
      map == [f \in Frame |-> IF f = NFrame THEN 1 ELSE 0]
      dir == [d \in Dir |->
                IF d \in dirs THEN NthFree(map, Cardinality({e \in dirs : e <= d}))
                ELSE None]
      low == [frame |-> Low, w |-> FALSE, dirty |-> TRUE]
  IN /\ mem_map = [f \in Frame |-> map[f] + Names(dir, f)]
     /\ data = [f \in Frame \cup {Low} |-> IF f = Low THEN Kernel ELSE Zero]
     /\ task = [t \in Task |-> IF t = 1 THEN NFrame ELSE None]
     /\ pg_dir = [t \in Task |-> IF t = 1 THEN dir ELSE NoDir]
     /\ pg_table = [t \in Task |-> [v \in Page |->
                      IF t = 1 /\ v \in KernelPages THEN low ELSE None]]
     /\ executable = [t \in Task |-> None]
     /\ pc = [t \in Task |-> IF t = 1 THEN "user" ELSE "free"]
     /\ held = [t \in Task |-> None]
     /\ wr = [t \in Task |-> None]
     /\ page = [t \in Task |-> None]
     /\ strings = {}

Fault(t, v) ==
  \/ EmptyPage(t, v) \/ NoEmptyPage(t, v)
  \/ SharePage(t, v) \/ CannotShare(t, v)
  \/ StartLoad(t, v) \/ CannotLoad(t, v)
  \/ do_wp_page(t, v)

Next == \E t \in Task :
  \/ \E c \in Task : copy_process(t, c) \/ OutOfMemory(t, c)
  \/ \E v \in Page : Fault(t, v) \/ Store(t, v)
  \/ \E v \in KernelWrites : verify_area(t, v)
  \/ do_execve(t)
  \/ \E file \in File : StringsCopied(t, file)
  \/ Loads(t) \/ NoTableForLoad(t)
  \/ put_fs_byte(t) \/ CallFails(t)
  \/ ExecFails(t) \/ NoReturn(t) \/ ChangeProgram(t)
  \/ Exit(t) \/ die(t) \/ ExitClosed(t) \/ release(t)

Spec == Init /\ [][Next]_vars

-----------------------------------------------------------------------------
(* Properties.                                                             *)

\* mem_map counts exactly the users of each page: a task_struct, a page table,
\* the entries that map it, a page that is being filled, the strings of an
\* exec.  So no page is lost when a fork or a fault fails half-way, none is
\* freed twice (the panic of free_page), and none is given out while somebody
\* still maps it.  The one way to lose a page is copy_strings: when its task
\* is killed the page stays in strings, counted and without a user.
CountsAreUsers ==
  /\ TypeOK
  /\ \A f \in Frame :
       mem_map[f] =
         Cardinality({t \in Task : task[t] = f})
         + Cardinality({t \in Task : held[t] # None /\ held[t].frame = f})
         + (IF f \in strings THEN 1 ELSE 0)
         + Cardinality({x \in Task \X Dir : pg_dir[x[1]][x[2]] = f})
         + Cardinality({x \in Task \X Page :
             x[2] \in Mapped(pg_table[x[1]]) /\ pg_table[x[1]][x[2]].frame = f})

\* Copy on write: a page that can be written to has one user, and so have a
\* task_struct and a page table, which nobody maps.
WritableIsPrivate ==
  \A t \in Task :
    /\ \A v \in Mapped(pg_table[t]) :
         LET e == pg_table[t][v]
         IN e.w => e.frame # Low /\ mem_map[e.frame] = 1
    /\ \A d \in Present(t) : mem_map[pg_dir[t][d]] = 1
    /\ task[t] # None => mem_map[task[t]] = 1

\* What a task finds in a page that no program's text and data cover.
Private == {v \in Page : \A file \in File : v \notin Loaded[file]}

Image ==
  [t \in Task |-> [v \in Private |->
     IF pg_table[t][v] = None THEN Zero ELSE data[pg_table[t][v].frame]]]

Memories == INSTANCE AddressSpace WITH
  Page <- Private,
  Blank <- [v \in Private |-> Zero],
  Fresh <- [v \in Private |-> IF v = Stack THEN Args ELSE Zero],
  live <- {t \in Task : pc[t] \notin {"free", "exit", "zombie"}},
  image <- Image

\* Every task has a memory of its own: fork copies it, and whatever others do
\* to the pages it shares with them, only its own writes change it.
ImplementsAddressSpaces == Memories!Spec

=============================================================================

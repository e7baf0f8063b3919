------------------------------ MODULE MCMemory ------------------------------
\* Address spaces of two page tables: one for text, data and bss, one for the
\* stack.  Task 1 starts on the kernel's memory.
EXTENDS Memory

Text == 1
Top == 3

TwoPages == {Text, Top}
TablesOf == [v \in Page |-> IF v = Top THEN 2 ELSE 1]
TextOnly == [file \in File |-> {Text}]

\* Which of the free pages is taken makes no difference, nor what was in it: a
\* state is what the pages in use are used for, and how many are free.  The
\* data of a page table or a task_struct is modelled elsewhere.  A page that
\* copy_strings has lost is neither free nor in use.
UsesOf(f) ==
  {<<"task", t, 0>> : t \in {u \in Task : task[u] = f}}
    \cup {<<"held", t, 0>> :
            t \in {u \in Task : held[u] # None /\ held[u].frame = f}}
    \cup {<<"exec", t, 0>> : t \in {u \in Task : page[u] = f}}
    \cup {<<"table", x[1], x[2]>> :
            x \in {y \in Task \X Dir : pg_dir[y[1]][y[2]] = f}}
    \cup {<<"page", x[1], x[2]>> :
            x \in {y \in Task \X Page :
                     /\ pg_table[y[1]][y[2]] # None
                     /\ pg_table[y[1]][y[2]].frame = f}}

DataOf(f) ==
  IF \E x \in UsesOf(f) : x[1] \in {"page", "held"} THEN data[f] ELSE None

Bits(e) == IF e = None THEN None ELSE <<e.frame = Low, e.w, e.dirty>>

UpToFrames ==
  <<{<<UsesOf(f), mem_map[f], DataOf(f)>> : f \in {g \in Frame : UsesOf(g) # {}}},
    Cardinality(FreePages(mem_map)),
    [t \in Task |-> [v \in Page |-> Bits(pg_table[t][v])]],
    [t \in Task |->
       IF held[t] = None THEN None ELSE <<held[t].page, held[t].file>>],
    data[Low], executable, pc, wr>>

=============================================================================

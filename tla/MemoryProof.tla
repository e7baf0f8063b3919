----------------------------- MODULE MemoryProof -----------------------------
(***************************************************************************)
(* Proofs about the pages of memory, for any number of tasks, frames and   *)
(* pages: mem_map counts the users of every frame, a page that can be      *)
(* written to has one user, and every task has an address space of its     *)
(* own (module AddressSpace).                                              *)
(***************************************************************************)
EXTENDS Memory, FiniteSetTheorems, TLAPS

-----------------------------------------------------------------------------
(* Ranks in finite sets                                                    *)

\* Two elements of a set of integers with as many elements below them are the
\* same.
LEMMA RanksBelowDiffer ==
  ASSUME NEW S, S \subseteq Int, IsFiniteSet(S), NEW x \in S, NEW y \in S,
         Cardinality({z \in S : z <= x}) = Cardinality({z \in S : z <= y})
  PROVE  x = y
<1> DEFINE X == {z \in S : z <= x}
           Y == {z \in S : z <= y}
<1>1. IsFiniteSet(X) /\ IsFiniteSet(Y)
  BY FS_Subset
<1>2. x \in X /\ y \in Y /\ x \in Int /\ y \in Int /\ \A z \in S : z \in Int
  OBVIOUS
<1>3. CASE x <= y
  <2>1. \A z \in S : z <= x => z <= y
    BY <1>2, <1>3
  <2>2. X \subseteq Y
    BY <2>1
  <2>3. X = Y
    BY <1>1, <2>2, FS_Subset
  <2> QED
    BY <1>2, <1>3, <2>3
<1>4. CASE y <= x
  <2>1. \A z \in S : z <= y => z <= x
    BY <1>2, <1>4
  <2>2. Y \subseteq X
    BY <2>1
  <2>3. X = Y
    BY <1>1, <2>2, FS_Subset
  <2> QED
    BY <1>2, <1>4, <2>3
<1> QED
  BY <1>3, <1>4

\* The same for the elements above.
LEMMA RanksAboveDiffer ==
  ASSUME NEW S, S \subseteq Int, IsFiniteSet(S), NEW x \in S, NEW y \in S,
         Cardinality({z \in S : z >= x}) = Cardinality({z \in S : z >= y})
  PROVE  x = y
<1> DEFINE X == {z \in S : z >= x}
           Y == {z \in S : z >= y}
<1>1. IsFiniteSet(X) /\ IsFiniteSet(Y)
  BY FS_Subset
<1>2. x \in X /\ y \in Y /\ x \in Int /\ y \in Int /\ \A z \in S : z \in Int
  OBVIOUS
<1>3. CASE x <= y
  <2>1. \A z \in S : z >= y => z >= x
    BY <1>2, <1>3
  <2>2. Y \subseteq X
    BY <2>1
  <2>3. X = Y
    BY <1>1, <2>2, FS_Subset
  <2> QED
    BY <1>2, <1>3, <2>3
<1>4. CASE y <= x
  <2>1. \A z \in S : z >= x => z >= y
    BY <1>2, <1>4
  <2>2. X \subseteq Y
    BY <2>1
  <2>3. X = Y
    BY <1>1, <2>2, FS_Subset
  <2> QED
    BY <1>2, <1>4, <2>3
<1> QED
  BY <1>3, <1>4

\* A set of n integers has a k-th greatest one, for k from 1 to n.
LEMMA RankExists ==
  ASSUME NEW S, S \subseteq Int, IsFiniteSet(S), NEW k \in 1 .. Cardinality(S)
  PROVE  \E x \in S : Cardinality({z \in S : z >= x}) = k
<1> DEFINE T == 1 .. Cardinality(S)
           r == [x \in S |-> Cardinality({z \in S : z >= x})]
<1>1. Cardinality(S) \in Nat
  BY FS_CardinalityType
<1>2. ASSUME NEW x \in S PROVE r[x] \in T
  <2> DEFINE X == {z \in S : z >= x}
  <2>1. IsFiniteSet(X) /\ Cardinality(X) <= Cardinality(S)
    BY FS_Subset
  <2>2. x \in X
    OBVIOUS
  <2>3. Cardinality(X) \in Nat /\ Cardinality(X) # 0
    BY <2>1, <2>2, FS_CardinalityType, FS_EmptySet
  <2> HIDE DEF X
  <2>4. Cardinality(X) \in T
    BY <1>1, <2>1, <2>3
  <2> QED
    BY <2>4 DEF X
<1>3. ASSUME NEW x \in S, NEW y \in S, r[x] = r[y] PROVE x = y
  BY <1>3, RanksAboveDiffer
<1>4. IsFiniteSet(T) /\ Cardinality(T) = Cardinality(S)
  BY <1>1, FS_Interval
<1>5. r \in [S -> T]
  BY <1>2
<1> HIDE DEF r, T
<1>6. r \in Injection(S, T)
  BY <1>3, <1>5 DEF Injection, IsInjective
<1>7. r \in Surjection(S, T)
  BY <1>4, <1>6, FS_Injection
<1>8. k \in T
  BY DEF T
<1>9. \E x \in S : r[x] = k
  BY <1>7, <1>8 DEF Surjection
<1> QED
  BY <1>9 DEF r

\* A nonempty finite set of integers has a greatest element.
LEMMA GreatestElement ==
  ASSUME NEW S, S \subseteq Int, IsFiniteSet(S), S # {}
  PROVE  \E x \in S : \A y \in S : y <= x
<1>1. Cardinality(S) \in Nat /\ Cardinality(S) # 0
  BY FS_CardinalityType, FS_EmptySet
<1>2. PICK x \in S : Cardinality({z \in S : z >= x}) = 1
  <2>1. 1 \in 1 .. Cardinality(S)
    BY <1>1
  <2> QED
    BY <2>1, RankExists
<1> DEFINE X == {z \in S : z >= x}
<1>3. IsFiniteSet(X)
  BY FS_Subset
<1>4. PICK y : X = {y}
  BY <1>2, <1>3, FS_Singleton
<1>5. X = {x}
  BY <1>4
<1> QED
  BY <1>5

-----------------------------------------------------------------------------
(* Counting                                                                *)

One(p) == IF p THEN 1 ELSE 0

\* Finite sets that agree but for one element differ by that one.
LEMMA OneChanges ==
  ASSUME NEW U, IsFiniteSet(U), NEW S, NEW T, S \subseteq U, T \subseteq U,
         NEW x, S \ {x} = T \ {x}
  PROVE  /\ Cardinality(S) \in Nat /\ Cardinality(T) \in Nat
         /\ Cardinality(T) + One(x \in S) = Cardinality(S) + One(x \in T)
<1>1. IsFiniteSet(S) /\ IsFiniteSet(T)
  BY FS_Subset
<1>2. Cardinality(S) \in Nat /\ Cardinality(T) \in Nat
  BY <1>1, FS_CardinalityType
<1>3. Cardinality(S \ {x})
        = IF x \in S THEN Cardinality(S) - 1 ELSE Cardinality(S)
  BY <1>1, FS_RemoveElement
<1>4. Cardinality(T \ {x})
        = IF x \in T THEN Cardinality(T) - 1 ELSE Cardinality(T)
  BY <1>1, FS_RemoveElement
<1>5. (IF x \in S THEN Cardinality(S) - 1 ELSE Cardinality(S))
        = (IF x \in T THEN Cardinality(T) - 1 ELSE Cardinality(T))
  BY <1>3, <1>4
<1> QED
  BY <1>2, <1>5 DEF One

\* The row of the relation S at t, and the rest of it.
RowOf(X, S, t) == {x \in X : <<t, x>> \in S}
RestOf(S, t) == {p \in S : p[1] # t}

\* A relation is as large as one row of it and the rest.
LEMMA RowSize ==
  ASSUME NEW X, IsFiniteSet(X), NEW S, S \subseteq Task \X X, NEW t \in Task
  PROVE  /\ Cardinality(RestOf(S, t)) \in Nat
         /\ Cardinality(RowOf(X, S, t)) \in Nat
         /\ Cardinality(S) = Cardinality(RestOf(S, t)) + Cardinality(RowOf(X, S, t))
<1> DEFINE Rest == RestOf(S, t)
           Row == RowOf(X, S, t)
           Here == {t} \X Row
<1> USE DEF RestOf, RowOf
<1>1. IsFiniteSet(Task)
  BY FS_Interval, MemoryAssumption DEF Task
<1>2. IsFiniteSet(S)
  <2>1. IsFiniteSet(Task \X X)
    BY <1>1, FS_Product
  <2> QED
    BY <2>1, FS_Subset
<1>3. IsFiniteSet(Rest) /\ IsFiniteSet(Row)
  <2>1. Rest \subseteq S /\ Row \subseteq X
    OBVIOUS
  <2> QED
    BY <1>2, <2>1, FS_Subset
<1>4. IsFiniteSet(Here) /\ Cardinality(Here) = Cardinality(Row)
  <2>1. IsFiniteSet({t}) /\ Cardinality({t}) = 1
    BY FS_Singleton
  <2>2. IsFiniteSet(Here) /\ Cardinality(Here) = 1 * Cardinality(Row)
    BY <1>3, <2>1, FS_Product
  <2>3. Cardinality(Row) \in Nat
    BY <1>3, FS_CardinalityType
  <2> QED
    BY <2>2, <2>3
<1>5. S = Rest \cup Here /\ Rest \cap Here = {}
  <2>1. ASSUME NEW p \in S, p \notin Rest PROVE p \in Here
    <3>1. p \in Task \X X
      OBVIOUS
    <3>2. p = <<p[1], p[2]>> /\ p[2] \in X /\ p[1] = t
      BY <2>1, <3>1
    <3> QED
      BY <3>2
  <2>2. ASSUME NEW p \in Here PROVE p \in S /\ p \notin Rest
    <3>1. p = <<t, p[2]>> /\ p[2] \in Row /\ p[1] = t
      OBVIOUS
    <3> QED
      BY <3>1
  <2> QED
    BY <2>1, <2>2
<1> HIDE DEF Rest, Row, Here
<1>6. /\ Cardinality(Rest) \in Nat /\ Cardinality(Row) \in Nat
      /\ Cardinality(Here) \in Nat /\ Cardinality(Rest \cap Here) = 0
  BY <1>3, <1>4, <1>5, FS_CardinalityType, FS_EmptySet
<1>7. Cardinality(S) = Cardinality(Rest) + Cardinality(Here)
                       - Cardinality(Rest \cap Here)
  BY <1>3, <1>4, <1>5, FS_Union
<1>8. Cardinality(S) = Cardinality(Rest) + Cardinality(Row)
  BY <1>4, <1>6, <1>7
<1> QED
  BY <1>6, <1>8 DEF Rest, Row

\* Relations with the same rest differ by the row.
LEMMA OneRowChanges ==
  ASSUME NEW X, IsFiniteSet(X), NEW t \in Task,
         NEW S, NEW T, S \subseteq Task \X X, T \subseteq Task \X X,
         RestOf(S, t) = RestOf(T, t)
  PROVE  /\ Cardinality(S) \in Nat /\ Cardinality(T) \in Nat
         /\ Cardinality(RowOf(X, S, t)) \in Nat
         /\ Cardinality(RowOf(X, T, t)) \in Nat
         /\ Cardinality(T) + Cardinality(RowOf(X, S, t))
              = Cardinality(S) + Cardinality(RowOf(X, T, t))
<1>3. /\ Cardinality(RestOf(S, t)) \in Nat /\ Cardinality(RowOf(X, S, t)) \in Nat
      /\ Cardinality(S) = Cardinality(RestOf(S, t)) + Cardinality(RowOf(X, S, t))
  BY RowSize
<1>4. /\ Cardinality(RestOf(T, t)) \in Nat /\ Cardinality(RowOf(X, T, t)) \in Nat
      /\ Cardinality(T) = Cardinality(RestOf(T, t)) + Cardinality(RowOf(X, T, t))
  BY RowSize
<1> QED
  BY <1>3, <1>4

\* The entry e maps the frame f.
Maps(e, f) == e # None /\ e.frame = f

\* How a new entry changes the uses that a table makes of a frame.
LEMMA EntryChanges ==
  ASSUME NEW old, NEW new, NEW v \in Page, NEW f,
         \A x \in Page \ {v} : new[x] = old[x]
  PROVE  /\ MapsTo(old, f) \in Nat /\ MapsTo(new, f) \in Nat
         /\ MapsTo(new, f) + One(Maps(old[v], f))
              = MapsTo(old, f) + One(Maps(new[v], f))
<1> DEFINE S == {x \in Mapped(old) : old[x].frame = f}
           T == {x \in Mapped(new) : new[x].frame = f}
<1>1. S \subseteq Page /\ T \subseteq Page
  BY DEF Mapped
<1>2. \A x \in Page : (x \in S <=> Maps(old[x], f)) /\ (x \in T <=> Maps(new[x], f))
  BY DEF Mapped, Maps
<1>3. S \ {v} = T \ {v}
  BY <1>1, <1>2
<1> HIDE DEF S, T
<1>4. /\ Cardinality(S) \in Nat /\ Cardinality(T) \in Nat
      /\ Cardinality(T) + One(v \in S) = Cardinality(S) + One(v \in T)
  <2>1. IsFiniteSet(Page)
    BY MemoryAssumption
  <2> QED
    BY <1>1, <1>3, <2>1, OneChanges
<1>5. One(v \in S) = One(Maps(old[v], f)) /\ One(v \in T) = One(Maps(new[v], f))
  BY <1>2 DEF One
<1> QED
  BY <1>4, <1>5 DEF S, T, MapsTo

\* How a new entry changes the tables that a directory names.
LEMMA NameChanges ==
  ASSUME NEW old, NEW new, NEW d \in Dir, NEW f,
         \A x \in Dir \ {d} : new[x] = old[x]
  PROVE  /\ Names(old, f) \in Nat /\ Names(new, f) \in Nat
         /\ Names(new, f) + One(old[d] = f) = Names(old, f) + One(new[d] = f)
<1> DEFINE S == {x \in Dir : old[x] = f}
           T == {x \in Dir : new[x] = f}
<1>1. S \subseteq Dir /\ T \subseteq Dir /\ S \ {d} = T \ {d}
  OBVIOUS
<1>2. (d \in S <=> old[d] = f) /\ (d \in T <=> new[d] = f)
  OBVIOUS
<1> HIDE DEF S, T
<1>3. /\ Cardinality(S) \in Nat /\ Cardinality(T) \in Nat
      /\ Cardinality(T) + One(d \in S) = Cardinality(S) + One(d \in T)
  <2>1. IsFiniteSet(Dir)
    BY MemoryAssumption
  <2> QED
    BY <1>1, <2>1, OneChanges
<1>4. One(d \in S) = One(old[d] = f) /\ One(d \in T) = One(new[d] = f)
  BY <1>2 DEF One
<1> QED
  BY <1>3, <1>4 DEF S, T, Names

\* Tables that map the frame at the same pages use it as often.
LEMMA SameUses ==
  ASSUME NEW old, NEW new, NEW f,
         \A x \in Page : Maps(old[x], f) <=> Maps(new[x], f)
  PROVE  MapsTo(new, f) = MapsTo(old, f)
<1>1. {x \in Mapped(old) : old[x].frame = f} = {x \in Mapped(new) : new[x].frame = f}
  BY DEF Mapped, Maps
<1> QED
  BY <1>1 DEF MapsTo

\* Nothing is used by what is empty.
LEMMA NothingUsed ==
  ASSUME NEW f, f # None
  PROVE  MapsTo(NoPage, f) = 0 /\ Names(NoDir, f) = 0
<1>1. {x \in Mapped(NoPage) : NoPage[x].frame = f} = {}
  BY DEF Mapped, NoPage
<1>2. {d \in Dir : NoDir[d] = f} = {}
  BY DEF NoDir
<1> QED
  BY <1>1, <1>2, FS_EmptySet DEF MapsTo, Names

\* What a single entry uses.
LEMMA SingleUse ==
  ASSUME NEW dir, NEW table, NEW d \in Dir, NEW v \in Page, NEW f, f # None,
         \A x \in Dir : x # d => dir[x] = None,
         \A x \in Page : x # v => table[x] = None
  PROVE  /\ Names(dir, f) = IF dir[d] = f THEN 1 ELSE 0
         /\ MapsTo(table, f) = IF Maps(table[v], f) THEN 1 ELSE 0
<1>1. {x \in Dir : dir[x] = f} = IF dir[d] = f THEN {d} ELSE {}
  OBVIOUS
<1>2. {x \in Mapped(table) : table[x].frame = f} = IF Maps(table[v], f) THEN {v} ELSE {}
  BY DEF Mapped, Maps
<1>3. Cardinality({d}) = 1 /\ Cardinality({v}) = 1 /\ Cardinality({}) = 0
  BY FS_Singleton, FS_EmptySet
<1> QED
  BY <1>1, <1>2, <1>3 DEF Names, MapsTo

-----------------------------------------------------------------------------
(* The inductive invariant                                                 *)

\* TypeOK, but that mem_map is not negative follows from the counts.
TypeInv ==
  /\ mem_map \in [Frame -> Int]
  /\ data \in [Frame \cup {Low} -> Content]
  /\ task \in [Task -> Frame \cup {None}]
  /\ pg_dir \in [Task -> [Dir -> Frame \cup {None}]]
  /\ pg_table \in [Task -> [Page -> Entry \cup {None}]]
  /\ executable \in [Task -> File \cup {None}]
  /\ pc \in [Task -> {"free", "user", "load", "copy", "exec", "close", "exit",
                      "zombie"}]
  /\ held \in [Task -> Hold \cup {None}]
  /\ wr \in [Task -> Page \cup {None}]
  /\ page \in [Task -> Frame \cup {None}]
  /\ strings \subseteq Frame

Dead == {"free", "exit", "zombie"}

\* What a task has at each place.
ShapeAt(t) ==
  /\ pc[t] = "free" <=> task[t] = None
  /\ pc[t] \in Dead => pg_dir[t] = NoDir /\ pg_table[t] = NoPage
  /\ pc[t] \notin Dead => Present(t) # {}
  /\ pc[t] \in {"load", "exec", "close"} <=> held[t] # None
  /\ wr[t] # None => pc[t] \in {"user", "load"}
  /\ pc[t] = "copy" => page[t] # None
  /\ page[t] # None => pc[t] \in {"load", "copy"} /\ wr[t] = None
  /\ pc[t] = "load" => pg_table[t][held[t].page] = None
  /\ pc[t] \in {"exec", "close"} => held[t].page = Stack
  /\ \A v \in Page : pg_table[t][v] # None => pg_dir[t][DirOf[v]] # None

ShapeInv == \A t \in Task : ShapeAt(t)

\* The users of a frame.
TasksAt(f) == {t \in Task : task[t] = f}
HeldAt(f) == {t \in Task : Maps(held[t], f)}
TablesAt(f) == {x \in Task \X Dir : pg_dir[x[1]][x[2]] = f}
PagesAt(f) == {x \in Task \X Page : Maps(pg_table[x[1]][x[2]], f)}

CountInv ==
  \A f \in Frame :
    mem_map[f] = Cardinality(TasksAt(f)) + Cardinality(HeldAt(f))
                 + Cardinality(TablesAt(f)) + Cardinality(PagesAt(f))
                 + One(f \in strings)

\* What t has for itself: its task_struct, its page tables, the page that it
\* fills, and the pages that it can write to.
Owns(t, f) ==
  \/ task[t] = f
  \/ Maps(held[t], f)
  \/ \E d \in Dir : pg_dir[t][d] = f
  \/ \E v \in Page : Maps(pg_table[t][v], f) /\ pg_table[t][v].w

\* Nobody else uses that, and nobody writes to the pages of the kernel.
OwnerAt(t) ==
  /\ \A f \in Frame : Owns(t, f) => mem_map[f] = 1
  /\ \A v \in Page : Maps(pg_table[t][v], Low) => ~pg_table[t][v].w

OwnerInv == \A t \in Task : OwnerAt(t)

\* Nobody else uses a page of strings, and a task that fills one has its own.
StringsInv ==
  /\ \A f \in strings : mem_map[f] = 1
  /\ \A t \in Task : page[t] # None =>
       page[t] \in strings /\ \A u \in Task \ {t} : page[u] # page[t]

MemInv == TypeInv /\ ShapeInv /\ CountInv /\ OwnerInv /\ StringsInv

-----------------------------------------------------------------------------
(* Counts and users                                                        *)

\* There are finitely many tasks, tables and pages.
LEMMA FiniteMemory == IsFiniteSet(Task) /\ IsFiniteSet(Dir) /\ IsFiniteSet(Page)
BY FS_Interval, MemoryAssumption DEF Task

\* The users of a frame are finitely many.
LEMMA FiniteUsers ==
  ASSUME NEW f
  PROVE  /\ IsFiniteSet(TasksAt(f)) /\ IsFiniteSet(HeldAt(f))
         /\ IsFiniteSet(TablesAt(f)) /\ IsFiniteSet(PagesAt(f))
         /\ Cardinality(TasksAt(f)) \in Nat /\ Cardinality(HeldAt(f)) \in Nat
         /\ Cardinality(TablesAt(f)) \in Nat /\ Cardinality(PagesAt(f)) \in Nat
<1>1. IsFiniteSet(Task) /\ IsFiniteSet(Dir) /\ IsFiniteSet(Page)
  BY FiniteMemory
<1>2. IsFiniteSet(Task \X Dir) /\ IsFiniteSet(Task \X Page)
  BY <1>1, FS_Product
<1>3. /\ TasksAt(f) \subseteq Task /\ HeldAt(f) \subseteq Task
      /\ TablesAt(f) \subseteq Task \X Dir /\ PagesAt(f) \subseteq Task \X Page
  BY DEF TasksAt, HeldAt, TablesAt, PagesAt
<1>4. /\ IsFiniteSet(TasksAt(f)) /\ IsFiniteSet(HeldAt(f))
      /\ IsFiniteSet(TablesAt(f)) /\ IsFiniteSet(PagesAt(f))
  BY <1>1, <1>2, <1>3, FS_Subset
<1> QED
  BY <1>4, FS_CardinalityType

\* The counts are natural numbers, and a free page has no user.
LEMMA FreeIsUnused ==
  ASSUME CountInv, NEW f \in Frame
  PROVE  /\ mem_map[f] \in Nat
         /\ mem_map[f] = 0 => /\ TasksAt(f) = {} /\ HeldAt(f) = {}
                              /\ TablesAt(f) = {} /\ PagesAt(f) = {}
                              /\ f \notin strings
<1>1. /\ Cardinality(TasksAt(f)) = 0 => TasksAt(f) = {}
      /\ Cardinality(HeldAt(f)) = 0 => HeldAt(f) = {}
      /\ Cardinality(TablesAt(f)) = 0 => TablesAt(f) = {}
      /\ Cardinality(PagesAt(f)) = 0 => PagesAt(f) = {}
  BY FiniteUsers, FS_EmptySet
<1>2. mem_map[f] = Cardinality(TasksAt(f)) + Cardinality(HeldAt(f))
                   + Cardinality(TablesAt(f)) + Cardinality(PagesAt(f))
                   + One(f \in strings)
  BY DEF CountInv
<1>3. One(f \in strings) \in Nat /\ (One(f \in strings) = 0 => f \notin strings)
  BY DEF One
<1> QED
  BY <1>1, <1>2, <1>3, FiniteUsers

\* The uses that a task makes of a frame.
Uses(t, f) ==
  One(task[t] = f) + One(Maps(held[t], f))
    + Names(pg_dir[t], f) + MapsTo(pg_table[t], f)

\* A count of no use, and what it says.
LEMMA UseCounts ==
  ASSUME NEW dir, NEW table, NEW f
  PROVE  /\ Names(dir, f) \in Nat /\ MapsTo(table, f) \in Nat
         /\ Names(dir, f) = 0 => \A d \in Dir : dir[d] # f
         /\ MapsTo(table, f) = 0 => \A v \in Page : ~Maps(table[v], f)
         /\ (\A d \in Dir : dir[d] # f) => Names(dir, f) = 0
         /\ (\A v \in Page : ~Maps(table[v], f)) => MapsTo(table, f) = 0
<1> DEFINE S == {d \in Dir : dir[d] = f}
           T == {v \in Mapped(table) : table[v].frame = f}
<1>1. IsFiniteSet(S) /\ IsFiniteSet(T)
  <2>1. S \subseteq Dir /\ T \subseteq Page
    BY DEF Mapped
  <2> QED
    BY <2>1, MemoryAssumption, FS_Subset
<1>2. /\ Cardinality(S) \in Nat /\ Cardinality(T) \in Nat
      /\ Cardinality(S) = 0 <=> S = {}
      /\ Cardinality(T) = 0 <=> T = {}
  BY <1>1, FS_CardinalityType, FS_EmptySet
<1>3. (S = {}) <=> (\A d \in Dir : dir[d] # f)
  OBVIOUS
<1>4. (T = {}) <=> (\A v \in Page : ~Maps(table[v], f))
  BY DEF Mapped, Maps
<1> HIDE DEF S, T
<1>5. Names(dir, f) = Cardinality(S) /\ MapsTo(table, f) = Cardinality(T)
  BY DEF S, T, Names, MapsTo
<1> QED
  BY <1>2, <1>3, <1>4, <1>5

\* Two elements count for two.
LEMMA TwoElements ==
  ASSUME NEW S, IsFiniteSet(S), NEW t, NEW u, t # u
  PROVE  One(t \in S) + One(u \in S) <= Cardinality(S)
<1>1. IsFiniteSet(S \ {t}) /\ IsFiniteSet((S \ {t}) \ {u})
  BY FS_Subset
<1>2. /\ Cardinality(S) \in Nat /\ Cardinality(S \ {t}) \in Nat
      /\ Cardinality((S \ {t}) \ {u}) \in Nat
  BY <1>1, FS_CardinalityType
<1>3. Cardinality(S \ {t})
        = IF t \in S THEN Cardinality(S) - 1 ELSE Cardinality(S)
  BY FS_RemoveElement
<1>4. Cardinality((S \ {t}) \ {u})
        = IF u \in S THEN Cardinality(S \ {t}) - 1 ELSE Cardinality(S \ {t})
  BY <1>1, FS_RemoveElement
<1> QED
  BY <1>2, <1>3, <1>4 DEF One

\* Two rows of a relation are no more than all of it.
LEMMA TwoRows ==
  ASSUME NEW X, IsFiniteSet(X), NEW S, S \subseteq Task \X X,
         NEW t \in Task, NEW u \in Task, t # u
  PROVE  Cardinality(RowOf(X, S, t)) + Cardinality(RowOf(X, S, u)) <= Cardinality(S)
<1> DEFINE R == RestOf(S, t)
<1>1. R \subseteq Task \X X /\ RowOf(X, R, u) = RowOf(X, S, u)
  BY DEF RestOf, RowOf
<1>2. /\ Cardinality(R) \in Nat /\ Cardinality(RowOf(X, S, t)) \in Nat
      /\ Cardinality(S) = Cardinality(R) + Cardinality(RowOf(X, S, t))
  BY RowSize
<1> HIDE DEF R
<1>3. /\ Cardinality(RestOf(R, u)) \in Nat /\ Cardinality(RowOf(X, R, u)) \in Nat
      /\ Cardinality(R) = Cardinality(RestOf(R, u)) + Cardinality(RowOf(X, R, u))
  BY <1>1, RowSize
<1> QED
  BY <1>1, <1>2, <1>3

\* The uses of two tasks are no more than the count of the frame.
LEMMA UsesAreCounted ==
  ASSUME CountInv, NEW f \in Frame, NEW t \in Task, NEW u \in Task, t # u
  PROVE  /\ Uses(t, f) \in Nat /\ Uses(u, f) \in Nat /\ mem_map[f] \in Nat
         /\ Uses(t, f) + Uses(u, f) <= mem_map[f]
<1>1. IsFiniteSet(Dir) /\ IsFiniteSet(Page)
  BY MemoryAssumption
<1>2. One(task[t] = f) + One(task[u] = f) <= Cardinality(TasksAt(f))
  <2> DEFINE S == TasksAt(f)
  <2>1. One(task[t] = f) = One(t \in S) /\ One(task[u] = f) = One(u \in S)
    BY DEF TasksAt, One
  <2> HIDE DEF S
  <2>2. IsFiniteSet(S)
    BY FiniteUsers DEF S
  <2>3. One(t \in S) + One(u \in S) <= Cardinality(S)
    BY <2>2, TwoElements
  <2> QED
    BY <2>1, <2>3 DEF S
<1>3. One(Maps(held[t], f)) + One(Maps(held[u], f)) <= Cardinality(HeldAt(f))
  <2> DEFINE S == HeldAt(f)
  <2>1. One(Maps(held[t], f)) = One(t \in S) /\ One(Maps(held[u], f)) = One(u \in S)
    BY DEF HeldAt, One
  <2> HIDE DEF S
  <2>2. IsFiniteSet(S)
    BY FiniteUsers DEF S
  <2>3. One(t \in S) + One(u \in S) <= Cardinality(S)
    BY <2>2, TwoElements
  <2> QED
    BY <2>1, <2>3 DEF S
<1>4. Names(pg_dir[t], f) + Names(pg_dir[u], f) <= Cardinality(TablesAt(f))
  <2> DEFINE S == TablesAt(f)
  <2>1. S \subseteq Task \X Dir
    BY DEF TablesAt
  <2>2. ASSUME NEW w \in Task PROVE RowOf(Dir, S, w) = {d \in Dir : pg_dir[w][d] = f}
    BY DEF RowOf, TablesAt
  <2> HIDE DEF S
  <2>3. Cardinality(RowOf(Dir, S, t)) + Cardinality(RowOf(Dir, S, u)) <= Cardinality(S)
    BY <1>1, <2>1, TwoRows
  <2> QED
    BY <2>2, <2>3 DEF S, Names
<1>5. MapsTo(pg_table[t], f) + MapsTo(pg_table[u], f) <= Cardinality(PagesAt(f))
  <2> DEFINE S == PagesAt(f)
  <2>1. S \subseteq Task \X Page
    BY DEF PagesAt
  <2>2. ASSUME NEW w \in Task
        PROVE  RowOf(Page, S, w) = {v \in Mapped(pg_table[w]) : pg_table[w][v].frame = f}
    BY DEF RowOf, PagesAt, Maps, Mapped
  <2> HIDE DEF S
  <2>3. Cardinality(RowOf(Page, S, t)) + Cardinality(RowOf(Page, S, u)) <= Cardinality(S)
    BY <1>1, <2>1, TwoRows
  <2> QED
    BY <2>2, <2>3 DEF S, MapsTo
<1>6. mem_map[f] = Cardinality(TasksAt(f)) + Cardinality(HeldAt(f))
                   + Cardinality(TablesAt(f)) + Cardinality(PagesAt(f))
                   + One(f \in strings)
  BY DEF CountInv
<1>7. /\ Names(pg_dir[t], f) \in Nat /\ Names(pg_dir[u], f) \in Nat
      /\ MapsTo(pg_table[t], f) \in Nat /\ MapsTo(pg_table[u], f) \in Nat
      /\ One(task[t] = f) \in Nat /\ One(task[u] = f) \in Nat
      /\ One(Maps(held[t], f)) \in Nat /\ One(Maps(held[u], f)) \in Nat
      /\ One(f \in strings) \in Nat
  BY UseCounts DEF One
<1> QED
  BY <1>2, <1>3, <1>4, <1>5, <1>6, <1>7, FiniteUsers DEF Uses

\* The same for one task, and the strings.
LEMMA UseIsCounted ==
  ASSUME CountInv, NEW f \in Frame, NEW t \in Task
  PROVE  /\ Uses(t, f) \in Nat /\ mem_map[f] \in Nat /\ Uses(t, f) <= mem_map[f]
         /\ f \in strings => Uses(t, f) < mem_map[f]
<1>1. IsFiniteSet(Dir) /\ IsFiniteSet(Page) /\ t # t + 1
  BY MemoryAssumption DEF Task
<1>2. One(task[t] = f) <= Cardinality(TasksAt(f))
  <2> DEFINE S == TasksAt(f)
  <2>1. One(task[t] = f) = One(t \in S)
    BY DEF TasksAt, One
  <2> HIDE DEF S
  <2>2. IsFiniteSet(S) /\ Cardinality(S) \in Nat
    BY FiniteUsers DEF S
  <2>3. One(t \in S) + One(t + 1 \in S) <= Cardinality(S)
    BY <1>1, <2>2, TwoElements
  <2> QED
    BY <2>1, <2>2, <2>3 DEF S, One
<1>3. One(Maps(held[t], f)) <= Cardinality(HeldAt(f))
  <2> DEFINE S == HeldAt(f)
  <2>1. One(Maps(held[t], f)) = One(t \in S)
    BY DEF HeldAt, One
  <2> HIDE DEF S
  <2>2. IsFiniteSet(S) /\ Cardinality(S) \in Nat
    BY FiniteUsers DEF S
  <2>3. One(t \in S) + One(t + 1 \in S) <= Cardinality(S)
    BY <1>1, <2>2, TwoElements
  <2> QED
    BY <2>1, <2>2, <2>3 DEF S, One
<1>4. Names(pg_dir[t], f) <= Cardinality(TablesAt(f))
  <2> DEFINE S == TablesAt(f)
  <2>1. S \subseteq Task \X Dir
    BY DEF TablesAt
  <2>2. RowOf(Dir, S, t) = {d \in Dir : pg_dir[t][d] = f}
    BY DEF RowOf, TablesAt
  <2> HIDE DEF S
  <2>3. /\ Cardinality(RestOf(S, t)) \in Nat /\ Cardinality(RowOf(Dir, S, t)) \in Nat
        /\ Cardinality(S) = Cardinality(RestOf(S, t)) + Cardinality(RowOf(Dir, S, t))
    BY <1>1, <2>1, RowSize
  <2>4. Cardinality(RowOf(Dir, S, t)) <= Cardinality(S)
    BY <2>3
  <2> QED
    BY <2>2, <2>4 DEF S, Names
<1>5. MapsTo(pg_table[t], f) <= Cardinality(PagesAt(f))
  <2> DEFINE S == PagesAt(f)
  <2>1. S \subseteq Task \X Page
    BY DEF PagesAt
  <2>2. RowOf(Page, S, t) = {v \in Mapped(pg_table[t]) : pg_table[t][v].frame = f}
    BY DEF RowOf, PagesAt, Maps, Mapped
  <2> HIDE DEF S
  <2>3. /\ Cardinality(RestOf(S, t)) \in Nat /\ Cardinality(RowOf(Page, S, t)) \in Nat
        /\ Cardinality(S) = Cardinality(RestOf(S, t)) + Cardinality(RowOf(Page, S, t))
    BY <1>1, <2>1, RowSize
  <2>4. Cardinality(RowOf(Page, S, t)) <= Cardinality(S)
    BY <2>3
  <2> QED
    BY <2>2, <2>4 DEF S, MapsTo
<1>6. mem_map[f] = Cardinality(TasksAt(f)) + Cardinality(HeldAt(f))
                   + Cardinality(TablesAt(f)) + Cardinality(PagesAt(f))
                   + One(f \in strings)
  BY DEF CountInv
<1>7. /\ Names(pg_dir[t], f) \in Nat /\ MapsTo(pg_table[t], f) \in Nat
      /\ One(task[t] = f) \in Nat /\ One(Maps(held[t], f)) \in Nat
      /\ One(f \in strings) \in Nat /\ (f \in strings => One(f \in strings) = 1)
  BY UseCounts DEF One
<1> QED
  BY <1>2, <1>3, <1>4, <1>5, <1>6, <1>7, FiniteUsers DEF Uses

\* What a task owns it uses, and nobody else does.
LEMMA OwnerIsAlone ==
  ASSUME CountInv, OwnerInv, NEW f \in Frame, NEW t \in Task, Owns(t, f)
  PROVE  /\ mem_map[f] = 1 /\ Uses(t, f) = 1
         /\ \A u \in Task \ {t} : Uses(u, f) = 0
<1>1. mem_map[f] = 1
  BY DEF OwnerInv, OwnerAt
<1>2. Uses(t, f) >= 1
  <2>1. /\ Names(pg_dir[t], f) \in Nat /\ MapsTo(pg_table[t], f) \in Nat
        /\ Names(pg_dir[t], f) = 0 => \A d \in Dir : pg_dir[t][d] # f
        /\ MapsTo(pg_table[t], f) = 0 => \A v \in Page : ~Maps(pg_table[t][v], f)
    BY UseCounts
  <2>2. One(task[t] = f) \in Nat /\ One(Maps(held[t], f)) \in Nat
    BY DEF One
  <2>3. CASE task[t] = f
    <3>1. One(task[t] = f) = 1
      BY <2>3 DEF One
    <3> QED
      BY <2>1, <2>2, <3>1 DEF Uses
  <2>4. CASE Maps(held[t], f)
    <3>1. One(Maps(held[t], f)) = 1
      BY <2>4 DEF One
    <3> QED
      BY <2>1, <2>2, <3>1 DEF Uses
  <2>5. CASE \E d \in Dir : pg_dir[t][d] = f
    <3>1. Names(pg_dir[t], f) >= 1
      BY <2>1, <2>5
    <3> QED
      BY <2>1, <2>2, <3>1 DEF Uses
  <2>6. CASE \E v \in Page : Maps(pg_table[t][v], f) /\ pg_table[t][v].w
    <3>1. MapsTo(pg_table[t], f) >= 1
      BY <2>1, <2>6
    <3> QED
      BY <2>1, <2>2, <3>1 DEF Uses
  <2> QED
    BY <2>3, <2>4, <2>5, <2>6 DEF Owns
<1>3. Uses(t, f) \in Nat /\ Uses(t, f) <= mem_map[f]
  BY UseIsCounted
<1>4. ASSUME NEW u \in Task \ {t} PROVE Uses(u, f) = 0
  <2>1. Uses(t, f) \in Nat /\ Uses(u, f) \in Nat /\ Uses(t, f) + Uses(u, f) <= mem_map[f]
    BY UsesAreCounted
  <2> QED
    BY <1>1, <1>2, <2>1
<1> QED
  BY <1>1, <1>2, <1>3, <1>4

\* The counts stay exact when those of the frames that a task uses change as
\* its uses do.
LEMMA CountKept ==
  ASSUME CountInv, NEW t \in Task, strings' = strings,
         \A u \in Task \ {t} :
           /\ task'[u] = task[u] /\ held'[u] = held[u] /\ pg_dir'[u] = pg_dir[u]
           /\ \A v \in Page, f \in Frame :
                Maps(pg_table[u][v], f) <=> Maps(pg_table'[u][v], f),
         \A f \in Frame :
           mem_map'[f] \in Int /\ mem_map'[f] + Uses(t, f) = mem_map[f] + Uses(t, f)'
  PROVE  CountInv'
<1> SUFFICES ASSUME NEW f \in Frame
             PROVE  mem_map'[f] = Cardinality(TasksAt(f)') + Cardinality(HeldAt(f)')
                                  + Cardinality(TablesAt(f)')
                                  + Cardinality(PagesAt(f)')
                                  + One(f \in strings')
  BY DEF CountInv
<1>1. IsFiniteSet(Task) /\ IsFiniteSet(Dir) /\ IsFiniteSet(Page)
  BY FiniteMemory
<1>2. /\ Cardinality(TasksAt(f)) \in Nat /\ Cardinality(TasksAt(f)') \in Nat
      /\ Cardinality(TasksAt(f)') + One(task[t] = f)
           = Cardinality(TasksAt(f)) + One(task'[t] = f)
  <2> DEFINE S == TasksAt(f)
  <2>1. /\ S \subseteq Task /\ S' \subseteq Task /\ S \ {t} = S' \ {t}
        /\ One(t \in S) = One(task[t] = f) /\ One(t \in S') = One(task'[t] = f)
    BY DEF TasksAt, One
  <2> HIDE DEF S
  <2>2. /\ Cardinality(S) \in Nat /\ Cardinality(S') \in Nat
        /\ Cardinality(S') + One(t \in S) = Cardinality(S) + One(t \in S')
    BY <1>1, <2>1, OneChanges
  <2> QED
    BY <2>1, <2>2 DEF S
<1>3. /\ Cardinality(HeldAt(f)) \in Nat /\ Cardinality(HeldAt(f)') \in Nat
      /\ Cardinality(HeldAt(f)') + One(Maps(held[t], f))
           = Cardinality(HeldAt(f)) + One(Maps(held'[t], f))
  <2> DEFINE S == HeldAt(f)
  <2>1. /\ S \subseteq Task /\ S' \subseteq Task /\ S \ {t} = S' \ {t}
        /\ One(t \in S) = One(Maps(held[t], f))
        /\ One(t \in S') = One(Maps(held'[t], f))
    BY DEF HeldAt, One, Maps
  <2> HIDE DEF S
  <2>2. /\ Cardinality(S) \in Nat /\ Cardinality(S') \in Nat
        /\ Cardinality(S') + One(t \in S) = Cardinality(S) + One(t \in S')
    BY <1>1, <2>1, OneChanges
  <2> QED
    BY <2>1, <2>2 DEF S
<1>4. /\ Cardinality(TablesAt(f)) \in Nat /\ Cardinality(TablesAt(f)') \in Nat
      /\ Names(pg_dir[t], f) \in Nat /\ Names(pg_dir'[t], f) \in Nat
      /\ Cardinality(TablesAt(f)') + Names(pg_dir[t], f)
           = Cardinality(TablesAt(f)) + Names(pg_dir'[t], f)
  <2> DEFINE S == TablesAt(f)
  <2>1. S \subseteq Task \X Dir /\ S' \subseteq Task \X Dir
    BY DEF TablesAt
  <2>a. ASSUME NEW u \in Task, NEW d \in Dir
        PROVE  /\ (<<u, d>> \in S) <=> (pg_dir[u][d] = f)
               /\ (<<u, d>> \in S') <=> (pg_dir'[u][d] = f)
    BY DEF TablesAt
  <2> HIDE DEF S
  <2>2. /\ RowOf(Dir, S, t) = {d \in Dir : pg_dir[t][d] = f}
        /\ RowOf(Dir, S', t) = {d \in Dir : pg_dir'[t][d] = f}
    BY <2>a DEF RowOf
  <2>3. RestOf(S, t) = RestOf(S', t)
    <3>1. ASSUME NEW x \in Task \X Dir, x[1] # t PROVE x \in S <=> x \in S'
      <4>1. x = <<x[1], x[2]>> /\ x[1] \in Task \ {t} /\ x[2] \in Dir
        BY <3>1
      <4>2. pg_dir'[x[1]][x[2]] = pg_dir[x[1]][x[2]]
        BY <4>1
      <4> QED
        BY <2>a, <4>1, <4>2
    <3> QED
      BY <2>1, <3>1 DEF RestOf
  <2>4. /\ Cardinality(S) \in Nat /\ Cardinality(S') \in Nat
        /\ Cardinality(RowOf(Dir, S, t)) \in Nat
        /\ Cardinality(RowOf(Dir, S', t)) \in Nat
        /\ Cardinality(S') + Cardinality(RowOf(Dir, S, t))
             = Cardinality(S) + Cardinality(RowOf(Dir, S', t))
    BY <1>1, <2>1, <2>3, OneRowChanges
  <2> QED
    BY <2>2, <2>4 DEF S, Names
<1>5. /\ Cardinality(PagesAt(f)) \in Nat /\ Cardinality(PagesAt(f)') \in Nat
      /\ MapsTo(pg_table[t], f) \in Nat /\ MapsTo(pg_table'[t], f) \in Nat
      /\ Cardinality(PagesAt(f)') + MapsTo(pg_table[t], f)
           = Cardinality(PagesAt(f)) + MapsTo(pg_table'[t], f)
  <2> DEFINE S == PagesAt(f)
  <2>1. /\ S \subseteq Task \X Page /\ S' \subseteq Task \X Page
        /\ \A u \in Task, v \in Page :
             /\ <<u, v>> \in S <=> Maps(pg_table[u][v], f)
             /\ <<u, v>> \in S' <=> Maps(pg_table'[u][v], f)
    BY DEF PagesAt, Maps
  <2> HIDE DEF S
  <2>2. /\ RowOf(Page, S, t) = {v \in Mapped(pg_table[t]) : pg_table[t][v].frame = f}
        /\ RowOf(Page, S', t)
             = {v \in Mapped(pg_table'[t]) : pg_table'[t][v].frame = f}
    BY <2>1 DEF RowOf, Mapped, Maps
  <2>3. RestOf(S, t) = RestOf(S', t)
    <3>1. ASSUME NEW x \in Task \X Page, x[1] # t PROVE x \in S <=> x \in S'
      <4>1. x = <<x[1], x[2]>> /\ x[1] \in Task \ {t} /\ x[2] \in Page
        BY <3>1
      <4> QED
        BY <2>1, <4>1
    <3> QED
      BY <2>1, <3>1 DEF RestOf
  <2>4. /\ Cardinality(S) \in Nat /\ Cardinality(S') \in Nat
        /\ Cardinality(RowOf(Page, S, t)) \in Nat
        /\ Cardinality(RowOf(Page, S', t)) \in Nat
        /\ Cardinality(S') + Cardinality(RowOf(Page, S, t))
             = Cardinality(S) + Cardinality(RowOf(Page, S', t))
    BY <1>1, <2>1, <2>3, OneRowChanges
  <2> QED
    BY <2>2, <2>4 DEF S, MapsTo
<1>6. mem_map[f] = Cardinality(TasksAt(f)) + Cardinality(HeldAt(f))
                   + Cardinality(TablesAt(f)) + Cardinality(PagesAt(f))
                   + One(f \in strings)
  BY DEF CountInv
<1>7. /\ One(task[t] = f) \in Nat /\ One(task'[t] = f) \in Nat
      /\ One(Maps(held[t], f)) \in Nat /\ One(Maps(held'[t], f)) \in Nat
      /\ One(f \in strings) \in Nat /\ One(f \in strings') = One(f \in strings)
  BY DEF One
<1>8. /\ Uses(t, f) = One(task[t] = f) + One(Maps(held[t], f))
                      + Names(pg_dir[t], f) + MapsTo(pg_table[t], f)
      /\ Uses(t, f)' = One(task'[t] = f) + One(Maps(held'[t], f))
                       + Names(pg_dir'[t], f) + MapsTo(pg_table'[t], f)
  BY DEF Uses
<1>9. mem_map'[f] \in Int /\ mem_map'[f] + Uses(t, f) = mem_map[f] + Uses(t, f)'
  OBVIOUS
<1>10. /\ Cardinality(TasksAt(f)') - Cardinality(TasksAt(f))
            = One(task'[t] = f) - One(task[t] = f)
       /\ Cardinality(HeldAt(f)') - Cardinality(HeldAt(f))
            = One(Maps(held'[t], f)) - One(Maps(held[t], f))
  BY <1>2, <1>3, <1>7
<1>11. /\ Cardinality(TablesAt(f)') - Cardinality(TablesAt(f))
            = Names(pg_dir'[t], f) - Names(pg_dir[t], f)
       /\ Cardinality(PagesAt(f)') - Cardinality(PagesAt(f))
            = MapsTo(pg_table'[t], f) - MapsTo(pg_table[t], f)
  BY <1>4, <1>5
<1> DEFINE k1 == Cardinality(TasksAt(f))
           k2 == Cardinality(HeldAt(f))
           k3 == Cardinality(TablesAt(f))
           k4 == Cardinality(PagesAt(f))
           u1 == One(task[t] = f)
           u2 == One(Maps(held[t], f))
           u3 == Names(pg_dir[t], f)
           u4 == MapsTo(pg_table[t], f)
           s == One(f \in strings)
<1>12. /\ k1 \in Nat /\ k2 \in Nat /\ k3 \in Nat /\ k4 \in Nat /\ s \in Nat
       /\ k1' \in Nat /\ k2' \in Nat /\ k3' \in Nat /\ k4' \in Nat /\ s' = s
       /\ u1 \in Nat /\ u2 \in Nat /\ u3 \in Nat /\ u4 \in Nat
       /\ u1' \in Nat /\ u2' \in Nat /\ u3' \in Nat /\ u4' \in Nat
  BY <1>2, <1>3, <1>4, <1>5, <1>7
<1>13. /\ k1' - k1 = u1' - u1 /\ k2' - k2 = u2' - u2
       /\ k3' - k3 = u3' - u3 /\ k4' - k4 = u4' - u4
       /\ mem_map[f] = k1 + k2 + k3 + k4 + s
  BY <1>6, <1>10, <1>11
<1>14. /\ mem_map'[f] \in Int
       /\ mem_map'[f] + (u1 + u2 + u3 + u4) = mem_map[f] + (u1' + u2' + u3' + u4')
  BY <1>8, <1>9
<1> HIDE DEF k1, k2, k3, k4, u1, u2, u3, u4, s
<1>15. k1' + k2' + u1 + u2 = k1 + k2 + u1' + u2'
  <2>1. /\ k1 \in Int /\ k2 \in Int /\ k1' \in Int /\ k2' \in Int
        /\ u1 \in Int /\ u2 \in Int /\ u1' \in Int /\ u2' \in Int
    BY <1>12
  <2>2. k1' - k1 = u1' - u1 /\ k2' - k2 = u2' - u2
    BY <1>13
  <2> QED
    BY <2>1, <2>2
<1>16. k3' + k4' + u3 + u4 = k3 + k4 + u3' + u4'
  <2>1. /\ k3 \in Int /\ k4 \in Int /\ k3' \in Int /\ k4' \in Int
        /\ u3 \in Int /\ u4 \in Int /\ u3' \in Int /\ u4' \in Int
    BY <1>12
  <2>2. k3' - k3 = u3' - u3 /\ k4' - k4 = u4' - u4
    BY <1>13
  <2> QED
    BY <2>1, <2>2
<1> DEFINE a == k1 + k2  b == k3 + k4  u == u1 + u2  w == u3 + u4
<1>17. /\ a \in Int /\ b \in Int /\ u \in Int /\ w \in Int
       /\ a' \in Int /\ b' \in Int /\ u' \in Int /\ w' \in Int
       /\ s \in Int /\ s' = s
  BY <1>12
<1>18. a' + u = a + u' /\ b' + w = b + w'
  BY <1>12, <1>15, <1>16
<1>19. /\ mem_map[f] = a + b + s /\ mem_map'[f] \in Int
       /\ mem_map'[f] + (u + w) = mem_map[f] + (u' + w')
  BY <1>12, <1>13, <1>14
<1>20. mem_map'[f] = a' + b' + s'
  <2> HIDE DEF a, b, u, w
  <2>1. (a' + u) + (b' + w) = (a + u') + (b + w')
    BY <1>18
  <2>2. (a' + b') + (u + w) = (a + b) + (u' + w')
    BY <1>17, <2>1
  <2> DEFINE c == a + b  d == a' + b'  v == u + w  x == u' + w'  m == mem_map'[f]
  <2>3. c \in Int /\ d \in Int /\ v \in Int /\ x \in Int
    BY <1>17
  <2>4. m \in Int /\ m + v = (c + s) + x /\ d + v = c + x
    BY <1>19, <2>2
  <2>5. s \in Int
    BY <1>17
  <2> HIDE DEF c, d, v, x, m
  <2>6. m = d + s
    BY <2>3, <2>4, <2>5
  <2> QED
    BY <1>17, <2>6 DEF m, d
<1>21. mem_map'[f] = k1' + k2' + k3' + k4' + s'
  BY <1>12, <1>20
<1> QED
  BY <1>21 DEF k1, k2, k3, k4, s

-----------------------------------------------------------------------------
(* A step of one task                                                      *)

\* The strings stay what they are, but that t may be done with its own.
SameStrings(t) ==
  /\ strings' = strings /\ page'[t] \in {page[t], None}
  /\ \A u \in Task \ {t} : page'[u] = page[u]

\* The step leaves alone what other tasks have.
Others(t) ==
  \A u \in Task \ {t} :
    /\ task'[u] = task[u] /\ held'[u] = held[u]
    /\ pg_dir'[u] = pg_dir[u] /\ pg_table'[u] = pg_table[u]
    /\ pc'[u] = pc[u] /\ wr'[u] = wr[u]

Untouched(t) == Others(t) /\ SameStrings(t)

\* The counts change as the uses that t makes of the frames.
Balanced(t) ==
  \A f \in Frame : mem_map'[f] + Uses(t, f) = mem_map[f] + Uses(t, f)'

\* What t did not use and now uses was free.
TakesFree(t) ==
  \A f \in Frame : Uses(t, f) = 0 /\ mem_map[f] # 0 => Uses(t, f)' = 0

\* A page of strings stays what it is when its count does.
LEMMA StringsKept ==
  ASSUME StringsInv, NEW t \in Task, SameStrings(t),
         \A f \in strings : mem_map'[f] = 1
  PROVE  StringsInv'
BY DEF StringsInv, SameStrings

\* Such a step of t keeps the invariant when it keeps what concerns t.
LEMMA OwnStep ==
  ASSUME MemInv, NEW t \in Task, TypeInv', Untouched(t), Balanced(t), TakesFree(t),
         ShapeAt(t)', OwnerAt(t)'
  PROVE  MemInv'
<1>1. ASSUME NEW u \in Task, u # t PROVE ShapeAt(u)'
  <2>1. /\ task'[u] = task[u] /\ held'[u] = held[u]
        /\ pg_dir'[u] = pg_dir[u] /\ pg_table'[u] = pg_table[u]
        /\ pc'[u] = pc[u] /\ wr'[u] = wr[u] /\ page'[u] = page[u]
    BY <1>1 DEF Untouched, Others, SameStrings
  <2>2. ShapeAt(u)
    BY DEF MemInv, ShapeInv
  <2> QED
    BY <2>1, <2>2 DEF ShapeAt, Present
<1>2. CountInv'
  <2>1. ASSUME NEW u \in Task \ {t}
        PROVE  /\ task'[u] = task[u] /\ held'[u] = held[u] /\ pg_dir'[u] = pg_dir[u]
               /\ \A v \in Page, f \in Frame :
                    Maps(pg_table[u][v], f) <=> Maps(pg_table'[u][v], f)
    BY DEF Untouched, Others
  <2>2. ASSUME NEW f \in Frame
        PROVE  mem_map'[f] \in Int /\ mem_map'[f] + Uses(t, f) = mem_map[f] + Uses(t, f)'
    BY DEF Balanced, TypeInv
  <2>3. strings' = strings
    BY DEF Untouched, Others, SameStrings
  <2> QED
    BY <2>1, <2>2, <2>3, CountKept DEF MemInv
<1>3. ASSUME NEW u \in Task, u # t PROVE OwnerAt(u)'
  <2>1. /\ task'[u] = task[u] /\ held'[u] = held[u]
        /\ pg_dir'[u] = pg_dir[u] /\ pg_table'[u] = pg_table[u]
    BY <1>3 DEF Untouched, Others
  <2>2. ASSUME NEW f \in Frame, Owns(u, f)' PROVE mem_map'[f] = 1
    <3>1. Owns(u, f)
      BY <2>1, <2>2 DEF Owns
    <3>2. mem_map[f] = 1 /\ Uses(t, f) = 0
      BY <1>3, <3>1, OwnerIsAlone DEF MemInv
    <3>3. Uses(t, f)' = 0
      BY <3>2 DEF TakesFree
    <3>4. mem_map'[f] + Uses(t, f) = mem_map[f] + Uses(t, f)' /\ mem_map'[f] \in Int
      BY DEF Balanced, TypeInv
    <3> QED
      BY <3>2, <3>3, <3>4
  <2>3. OwnerAt(u)
    BY DEF MemInv, OwnerInv
  <2> QED
    BY <2>1, <2>2, <2>3 DEF OwnerAt
<1>4. ASSUME NEW f \in strings PROVE mem_map'[f] = 1
  <2>1. f \in Frame /\ mem_map[f] = 1
    BY DEF MemInv, TypeInv, StringsInv
  <2>2. Uses(t, f) \in Nat /\ Uses(t, f) < mem_map[f]
    BY <2>1, UseIsCounted DEF MemInv
  <2>3. Uses(t, f) = 0
    BY <2>1, <2>2
  <2>4. Uses(t, f)' = 0
    BY <2>1, <2>3 DEF TakesFree
  <2>5. mem_map'[f] + Uses(t, f) = mem_map[f] + Uses(t, f)' /\ mem_map'[f] \in Int
    BY <2>1 DEF Balanced, TypeInv
  <2> QED
    BY <2>1, <2>3, <2>4, <2>5
<1>5. StringsInv'
  BY <1>4, StringsKept DEF Untouched, Others, MemInv
<1> QED
  BY <1>1, <1>2, <1>3, <1>5 DEF MemInv, ShapeInv, OwnerInv

\* A map in which the count of one frame is changed.
LEMMA OneCount ==
  ASSUME NEW map \in [Frame -> Int], NEW f \in Frame, NEW k \in Int
  PROVE  /\ [map EXCEPT ![f] = k] \in [Frame -> Int]
         /\ [map EXCEPT ![f] = k][f] = k
         /\ \A g \in Frame : g # f => [map EXCEPT ![f] = k][g] = map[g]
OBVIOUS

\* get_free_page gives a page with a count of zero, if there is one.
LEMMA FreePage ==
  ASSUME NEW map
  PROVE  /\ get_free_page(map) = None <=> FreePages(map) = {}
         /\ get_free_page(map) # None =>
              get_free_page(map) \in Frame /\ map[get_free_page(map)] = 0
<1>1. FreePages(map) \subseteq Int /\ IsFiniteSet(FreePages(map))
  <2>1. IsFiniteSet(Frame) /\ FreePages(map) \subseteq Frame /\ Frame \subseteq Int
    BY MemoryAssumption, FS_Interval DEF FreePages, Frame
  <2> QED
    BY <2>1, FS_Subset
<1>2. CASE FreePages(map) = {}
  BY <1>2 DEF get_free_page
<1>3. CASE FreePages(map) # {}
  <2>1. PICK x \in FreePages(map) : \A y \in FreePages(map) : y <= x
    BY <1>1, <1>3, GreatestElement
  <2>2. get_free_page(map) \in FreePages(map)
    BY <1>3, <2>1 DEF get_free_page
  <2>3. get_free_page(map) # None
    BY <1>1, <2>2, MemoryAssumption
  <2> QED
    BY <1>3, <2>2, <2>3 DEF FreePages
<1> QED
  BY <1>2, <1>3

\* A frame that a task does not use.
LEMMA NotUsed ==
  ASSUME NEW t \in Task, NEW f \in Frame
  PROVE  Uses(t, f) = 0 <=>
           /\ task[t] # f /\ ~Maps(held[t], f)
           /\ \A d \in Dir : pg_dir[t][d] # f
           /\ \A v \in Page : ~Maps(pg_table[t][v], f)
<1> DEFINE n == Names(pg_dir[t], f)
           m == MapsTo(pg_table[t], f)
           p == One(task[t] = f)
           q == One(Maps(held[t], f))
<1>1. /\ n \in Nat /\ m \in Nat
      /\ n = 0 <=> \A d \in Dir : pg_dir[t][d] # f
      /\ m = 0 <=> \A v \in Page : ~Maps(pg_table[t][v], f)
  BY UseCounts
<1>2. /\ p \in Nat /\ q \in Nat
      /\ p = 0 <=> task[t] # f
      /\ q = 0 <=> ~Maps(held[t], f)
  BY DEF One
<1>3. Uses(t, f) = p + q + n + m
  BY DEF Uses
<1> HIDE DEF n, m, p, q
<1>4. n \in Nat /\ m \in Nat /\ p \in Nat /\ q \in Nat
  BY <1>1, <1>2
<1>5. Uses(t, f) = 0 <=> p = 0 /\ q = 0 /\ n = 0 /\ m = 0
  BY <1>3, <1>4
<1> QED
  BY <1>1, <1>2, <1>5

\* Nobody uses a free page.
LEMMA FreeIsNotUsed ==
  ASSUME MemInv, NEW t \in Task, NEW f \in Frame, mem_map[f] = 0
  PROVE  Uses(t, f) = 0
<1>1. Uses(t, f) \in Nat /\ Uses(t, f) <= mem_map[f]
  BY UseIsCounted DEF MemInv
<1> QED
  BY <1>1

-----------------------------------------------------------------------------
(* Exit                                                                    *)

\* do_exit gives back the uses of the task, but for its task_struct; the page
\* that it held is given back before.
LEMMA DoExit ==
  ASSUME MemInv, NEW t \in Task, pc[t] \notin Dead,
         NEW map \in [Frame -> Int],
         \A f \in Frame : map[f] + One(Maps(held[t], f)) = mem_map[f],
         do_exit(t, map)
  PROVE  MemInv'
<1>1. TypeInv
  BY DEF MemInv
<1>2. /\ pg_dir' = [pg_dir EXCEPT ![t] = NoDir]
      /\ pg_table' = [pg_table EXCEPT ![t] = NoPage]
      /\ pc' = [pc EXCEPT ![t] = "exit"]
      /\ held' = [held EXCEPT ![t] = None]
      /\ wr' = [wr EXCEPT ![t] = None]
      /\ page' = [page EXCEPT ![t] = None] /\ strings' = strings
      /\ task' = task /\ data' = data /\ executable' = executable
  BY DEF do_exit
<1>3. /\ pg_dir'[t] = NoDir /\ pg_table'[t] = NoPage /\ pc'[t] = "exit"
      /\ held'[t] = None /\ wr'[t] = None /\ page'[t] = None
  BY <1>1, <1>2 DEF TypeInv
<1>4. ASSUME NEW f \in Frame
      PROVE  /\ mem_map'[f] \in Int
             /\ mem_map'[f] + Uses(t, f) = mem_map[f] + Uses(t, f)'
             /\ Uses(t, f)' = One(task[t] = f)
  <2>1. mem_map'[f] = map[f] - MapsTo(pg_table[t], f) - Names(pg_dir[t], f)
    BY DEF do_exit, free_page_tables
  <2>2. MapsTo(pg_table[t], f) \in Nat /\ Names(pg_dir[t], f) \in Nat
    BY UseCounts
  <2>3. MapsTo(NoPage, f) = 0 /\ Names(NoDir, f) = 0
    BY NothingUsed, MemoryAssumption DEF Frame
  <2>4. /\ One(task[t] = f) \in Int /\ One(Maps(held[t], f)) \in Int
        /\ One(Maps(held'[t], f)) = 0
    BY <1>3 DEF One, Maps
  <2>5. Uses(t, f)' = One(task[t] = f)
    BY <1>2, <1>3, <2>3, <2>4 DEF Uses
  <2>6. map[f] + One(Maps(held[t], f)) = mem_map[f] /\ map[f] \in Int
    OBVIOUS
  <2> QED
    BY <2>1, <2>2, <2>4, <2>5, <2>6 DEF Uses
<1>5. TypeInv'
  <2>1. mem_map' \in [Frame -> Int]
    <3>1. mem_map' = [f \in Frame |-> map[f] - MapsTo(pg_table[t], f)
                                             - Names(pg_dir[t], f)]
      BY DEF do_exit, free_page_tables
    <3> QED
      BY <1>4, <3>1
  <2>2. NoDir \in [Dir -> Frame \cup {None}] /\ NoPage \in [Page -> Entry \cup {None}]
    BY DEF NoDir, NoPage
  <2> QED
    BY <1>1, <1>2, <2>1, <2>2 DEF TypeInv
<1>6. Untouched(t)
  BY <1>1, <1>2 DEF Untouched, Others, SameStrings, TypeInv
<1>7. Balanced(t)
  BY <1>4 DEF Balanced
<1>8. TakesFree(t)
  <2> SUFFICES ASSUME NEW f \in Frame, Uses(t, f) = 0
               PROVE  Uses(t, f)' = 0
    BY DEF TakesFree
  <2>1. task[t] # f
    BY NotUsed
  <2> QED
    BY <1>4, <2>1 DEF One
<1>9. ShapeAt(t)'
  <2>1. ShapeAt(t)
    BY DEF MemInv, ShapeInv
  <2>2. task[t] # None
    BY <2>1 DEF ShapeAt, Dead
  <2> QED
    BY <1>2, <1>3, <2>2 DEF ShapeAt, Dead, NoPage, NoDir
<1>10. OwnerAt(t)'
  <2>1. ASSUME NEW f \in Frame, Owns(t, f)' PROVE mem_map'[f] = 1
    <3>1. f # None
      BY MemoryAssumption DEF Frame
    <3>2. task[t] = f
      BY <1>2, <1>3, <2>1, <3>1 DEF Owns, NoDir, NoPage, Maps
    <3>3. mem_map[f] = 1 /\ Uses(t, f) = 1
      BY <3>2, OwnerIsAlone DEF MemInv, Owns
    <3>4. Uses(t, f)' = 1
      BY <1>4, <3>2 DEF One
    <3> QED
      BY <1>4, <3>3, <3>4
  <2> QED
    BY <1>3, <2>1 DEF OwnerAt, NoPage, Maps
<1> QED
  BY <1>5, <1>6, <1>7, <1>8, <1>9, <1>10, OwnStep

\* When the task holds no page.
LEMMA PlainExit ==
  ASSUME MemInv, NEW t \in Task, pc[t] \in {"user", "copy"}, do_exit(t, mem_map)
  PROVE  MemInv'
<1>1. held[t] = None
  BY DEF MemInv, ShapeInv, ShapeAt
<1>2. ASSUME NEW f \in Frame PROVE mem_map[f] + One(Maps(held[t], f)) = mem_map[f]
  BY <1>1 DEF One, Maps, MemInv, TypeInv
<1> QED
  BY <1>2, DoExit DEF Dead, MemInv, TypeInv

-----------------------------------------------------------------------------
(* Page faults                                                             *)

\* Who may write to a fresh page, and what a table for it costs.
LEMMA Numbers ==
  /\ None \notin Int /\ None \notin Entry /\ None \notin Hold /\ None \notin Page
  /\ Frame \subseteq Int /\ Low \notin Frame /\ Low \in Int
  /\ \A f \in Frame : New(f) \in Entry /\ Maps(New(f), f)
  /\ \A f, g \in Frame : Maps(New(f), g) => g = f
<1>1. None \notin Int /\ None \notin Entry /\ None \notin Hold /\ None \notin Page
  BY MemoryAssumption
<1>2. Frame \subseteq Int /\ Low \notin Frame /\ Low \in Int
  BY MemoryAssumption DEF Frame, Low
<1>3. ASSUME NEW f \in Frame PROVE New(f) \in Entry /\ New(f).frame = f
  BY DEF New, Entry
<1> QED
  BY <1>1, <1>2, <1>3 DEF Maps

\* The page f is free and taken for t in map, or t has filled it.
Fresh(t, f, map) ==
  \/ mem_map[f] = 0 /\ held[t] = None /\ map = [mem_map EXCEPT ![f] = 1]
  \/ Maps(held[t], f) /\ map = mem_map

\* put_page gives t such a page.
LEMMA NewPage ==
  ASSUME MemInv, NEW t \in Task, NEW v \in Page, NEW f \in Frame,
         NEW map \in [Frame -> Int],
         pc[t] \in {"user", "load", "copy"}, pg_table[t][v] = None,
         TableFor(t, v, map) # None, put_page(t, v, New(f), map),
         Fresh(t, f, map), held' = [held EXCEPT ![t] = None],
         pc' = [pc EXCEPT ![t] = IF page[t] = None THEN "user" ELSE "copy"],
         wr' = wr, task' = task, executable' = executable,
         page' = page, strings' = strings,
         data' \in [Frame \cup {Low} -> Content]
  PROVE  MemInv'
<1> DEFINE dir == DirOf[v]
           n == TableFor(t, v, map)
           new == pg_dir[t][dir] = None
<1>1. TypeInv /\ ShapeAt(t) /\ OwnerAt(t) /\ dir \in Dir
  BY MemoryAssumption DEF MemInv, ShapeInv, OwnerInv
<1>2. /\ pg_dir' = [pg_dir EXCEPT ![t][dir] = n]
      /\ pg_table' = [pg_table EXCEPT ![t][v] = New(f)]
  BY DEF put_page
<1>3. /\ pg_dir'[t] = [pg_dir[t] EXCEPT ![dir] = n]
      /\ pg_table'[t] = [pg_table[t] EXCEPT ![v] = New(f)]
      /\ held'[t] = None
      /\ pc'[t] = IF page[t] = None THEN "user" ELSE "copy"
  BY <1>1, <1>2 DEF TypeInv
<1>4. n \in Frame /\ (~new => n = pg_dir[t][dir]) /\ (new => map[n] = 0)
  BY <1>1, FreePage DEF TableFor, TypeInv
<1>5. \A g \in Frame : mem_map[g] \in Int /\ map[g] \in Int
  BY <1>1 DEF TypeInv
<1>a. ASSUME NEW g \in Frame
      PROVE  map[g] + One(Maps(held[t], g)) = mem_map[g] + One(g = f)
  <2>1. CASE mem_map[f] = 0 /\ held[t] = None /\ map = [mem_map EXCEPT ![f] = 1]
    <3>1. map[g] = IF g = f THEN 1 ELSE mem_map[g]
      BY <1>1, <2>1 DEF TypeInv
    <3>2. ~Maps(held[t], g)
      BY <2>1 DEF Maps
    <3> QED
      BY <1>5, <2>1, <3>1, <3>2 DEF One
  <2>2. CASE Maps(held[t], f) /\ map = mem_map
    BY <2>2 DEF One, Maps
  <2> QED
    BY <2>1, <2>2 DEF Fresh
<1>6. Maps(held[t], f) => mem_map[f] = 1
  BY <1>1 DEF OwnerAt, Owns
<1>7. \A g \in Frame : Maps(held[t], g) => g = f
  BY DEF Maps, Fresh
<1>8. new => n # f /\ mem_map[n] = 0
  <2> SUFFICES ASSUME new PROVE n # f /\ mem_map[n] = 0
    OBVIOUS
  <2>1. map[n] = 0
    BY <1>4
  <2>2. map[n] + One(Maps(held[t], n)) = mem_map[n] + One(n = f)
    BY <1>4, <1>a
  <2>3. n # f
    <3> SUFFICES ASSUME n = f PROVE FALSE
      OBVIOUS
    <3>1. CASE mem_map[f] = 0 /\ held[t] = None
      BY <2>1, <2>2, <3>1 DEF One, Maps
    <3>2. CASE Maps(held[t], f)
      BY <1>6, <2>1, <2>2, <3>2 DEF One
    <3> QED
      BY <3>1, <3>2 DEF Fresh
  <2>4. ~Maps(held[t], n)
    BY <1>4, <1>7, <2>3
  <2> QED
    BY <1>4, <1>5, <2>1, <2>2, <2>3, <2>4 DEF One
<1> HIDE DEF n, new
<1>9. ASSUME NEW g \in Frame
      PROVE  mem_map'[g] \in Int /\ mem_map'[g] = map[g] + One(new /\ g = n)
  <2>1. CASE new
    <3>1. mem_map' = [map EXCEPT ![n] = 1]
      BY <2>1 DEF put_page, Taken, new, TableFor, n
    <3> QED
      BY <1>4, <1>5, <2>1, <3>1 DEF One
  <2>2. CASE ~new
    <3>1. mem_map' = map
      BY <2>2 DEF put_page, new
    <3> QED
      BY <1>5, <2>2, <3>1 DEF One
  <2> QED
    BY <2>1, <2>2
<1>10. ASSUME NEW g \in Frame
       PROVE  Names(pg_dir'[t], g) = Names(pg_dir[t], g) + One(new /\ g = n)
  <2>1. \A x \in Dir \ {dir} : pg_dir'[t][x] = pg_dir[t][x]
    BY <1>1, <1>3 DEF TypeInv
  <2>2. /\ Names(pg_dir[t], g) \in Nat /\ Names(pg_dir'[t], g) \in Nat
        /\ Names(pg_dir'[t], g) + One(pg_dir[t][dir] = g)
             = Names(pg_dir[t], g) + One(pg_dir'[t][dir] = g)
    BY <1>1, <2>1, NameChanges DEF One
  <2>3. pg_dir'[t][dir] = n
    BY <1>1, <1>3 DEF TypeInv
  <2>4. CASE new
    <3>1. pg_dir[t][dir] # g
      BY <2>4, Numbers DEF new
    <3> QED
      BY <2>2, <2>3, <2>4, <3>1 DEF One
  <2>5. CASE ~new
    <3>1. pg_dir[t][dir] = n
      BY <1>4, <2>5
    <3> QED
      BY <2>2, <2>3, <2>5, <3>1 DEF One
  <2> QED
    BY <2>4, <2>5
<1>11. ASSUME NEW g \in Frame
       PROVE  MapsTo(pg_table'[t], g) = MapsTo(pg_table[t], g) + One(g = f)
  <2>1. \A x \in Page \ {v} : pg_table'[t][x] = pg_table[t][x]
    BY <1>1, <1>3 DEF TypeInv
  <2>2. pg_table[t][v] = None /\ pg_table'[t][v] = New(f)
    BY <1>1, <1>3 DEF TypeInv
  <2>3. /\ MapsTo(pg_table[t], g) \in Nat /\ MapsTo(pg_table'[t], g) \in Nat
        /\ MapsTo(pg_table'[t], g) + One(Maps(pg_table[t][v], g))
             = MapsTo(pg_table[t], g) + One(Maps(pg_table'[t][v], g))
    <3> DEFINE a == pg_table[t]
               b == pg_table'[t]
               e == New(f)
    <3>1. (\A x \in Page \ {v} : b[x] = a[x]) /\ a[v] = None /\ b[v] = e
      BY <2>1, <2>2
    <3> HIDE DEF a, b, e, n, new, dir
    <3>2. /\ MapsTo(a, g) \in Nat /\ MapsTo(b, g) \in Nat
          /\ MapsTo(b, g) + One(Maps(a[v], g)) = MapsTo(a, g) + One(Maps(b[v], g))
      BY <3>1, EntryChanges
    <3> QED
      BY <3>2 DEF a, b
  <2>4. One(Maps(pg_table[t][v], g)) = 0 /\ One(Maps(pg_table'[t][v], g)) = One(g = f)
    BY <2>2, Numbers DEF One, Maps
  <2> QED
    BY <2>3, <2>4
<1>12. ASSUME NEW g \in Frame
       PROVE  /\ mem_map'[g] + Uses(t, g) = mem_map[g] + Uses(t, g)'
              /\ Uses(t, g)' + One(Maps(held[t], g))
                   = Uses(t, g) + One(g = f) + One(new /\ g = n)
  <2>1. /\ Uses(t, g) = One(task[t] = g) + One(Maps(held[t], g))
                        + Names(pg_dir[t], g) + MapsTo(pg_table[t], g)
        /\ Uses(t, g)' = One(task[t] = g) + One(Maps(held'[t], g))
                         + Names(pg_dir'[t], g) + MapsTo(pg_table'[t], g)
    BY DEF Uses
  <2>2. /\ One(Maps(held'[t], g)) = 0 /\ One(Maps(held[t], g)) \in Int
        /\ One(task[t] = g) \in Int /\ One(g = f) \in Int /\ One(new /\ g = n) \in Int
    BY <1>3 DEF One, Maps
  <2>4. Names(pg_dir[t], g) \in Nat /\ MapsTo(pg_table[t], g) \in Nat
    BY UseCounts
  <2>3. /\ mem_map'[g] = map[g] + One(new /\ g = n)
        /\ map[g] + One(Maps(held[t], g)) = mem_map[g] + One(g = f)
    BY <1>9, <1>a
  <2> QED
    BY <1>5, <1>10, <1>11, <2>1, <2>2, <2>3, <2>4
<1>13. TypeInv'
  <2>1. mem_map' \in [Frame -> Int]
    <3>1. mem_map' = map \/ mem_map' = [map EXCEPT ![get_free_page(map)] = 1]
      BY DEF put_page, Taken
    <3> QED
      BY <3>1
  <2> QED
    BY <1>1, <1>2, <1>4, <2>1, Numbers DEF TypeInv
<1>14. Untouched(t)
  BY <1>1, <1>2 DEF Untouched, Others, SameStrings, TypeInv
<1>15. Balanced(t)
  BY <1>12 DEF Balanced
<1>16. TakesFree(t)
  <2> SUFFICES ASSUME NEW g \in Frame, Uses(t, g) = 0, mem_map[g] # 0
               PROVE  Uses(t, g)' = 0
    BY DEF TakesFree
  <2>1. ~Maps(held[t], g)
    BY NotUsed
  <2>2. g # f /\ ~(new /\ g = n)
    BY <1>8, <2>1 DEF Fresh
  <2>3. /\ One(Maps(held[t], g)) = 0 /\ One(g = f) = 0 /\ One(new /\ g = n) = 0
    BY <2>1, <2>2 DEF One
  <2>4. Uses(t, g)' + One(Maps(held[t], g)) = Uses(t, g) + One(g = f) + One(new /\ g = n)
    BY <1>12
  <2>5. Uses(t, g)' \in Int
    BY UseCounts DEF Uses, One
  <2> QED
    BY <2>3, <2>4, <2>5
<1>17. ShapeAt(t)'
  <2>1. pg_dir'[t][dir] = n /\ \A x \in Dir : pg_dir[t][x] # None => pg_dir'[t][x] # None
    BY <1>1, <1>3, <1>4, Numbers DEF TypeInv
  <2>2. n # None
    BY <1>4, Numbers
  <2>3. \A x \in Page : pg_table'[t][x] # None => x = v \/ pg_table[t][x] # None
    BY <1>1, <1>3 DEF TypeInv
  <2>4. \A x \in Page : DirOf[x] \in Dir
    BY MemoryAssumption
  <2>5. task[t] # None
    BY <1>1 DEF ShapeAt
  <2>6. Present(t)' # {}
    BY <1>1, <2>1, <2>2 DEF Present
  <2>7. \A x \in Page : pg_table'[t][x] # None => pg_dir'[t][DirOf[x]] # None
    BY <1>1, <2>1, <2>2, <2>3, <2>4 DEF ShapeAt
  <2>8. page[t] # None => wr[t] = None
    BY <1>1 DEF ShapeAt
  <2> QED
    BY <1>3, <2>5, <2>6, <2>7, <2>8 DEF ShapeAt, Dead
<1>18. OwnerAt(t)'
  <2>1. ASSUME NEW g \in Frame, Owns(t, g)' PROVE mem_map'[g] = 1
    <3>1. CASE g = f
      <4>1. /\ map[f] + One(Maps(held[t], f)) = mem_map[f] + 1
            /\ ~(new /\ f = n)
        BY <1>8, <1>a DEF One
      <4>2. map[f] = 1
        BY <1>5, <1>6, <4>1 DEF One, Maps, Fresh
      <4> QED
        BY <1>9, <3>1, <4>1, <4>2 DEF One
    <3>2. CASE new /\ g = n
      BY <1>4, <1>9, <3>2 DEF One
    <3>3. CASE g # f /\ ~(new /\ g = n)
      <4>1. Owns(t, g)
        <5>1. \A x \in Dir : pg_dir'[t][x] = g => pg_dir[t][x] = g
          BY <1>1, <1>3, <1>4, <3>3 DEF TypeInv
        <5>2. \A x \in Page : Maps(pg_table'[t][x], g) =>
                                 x # v /\ pg_table'[t][x] = pg_table[t][x]
          BY <1>1, <1>3, <3>3, Numbers DEF TypeInv
        <5>3. ~Maps(held'[t], g)
          BY <1>3 DEF Maps
        <5> QED
          BY <2>1, <5>1, <5>2, <5>3 DEF Owns
      <4>2. mem_map[g] = 1
        BY <1>1, <4>1 DEF OwnerAt
      <4>3. ~Maps(held[t], g)
        BY <1>7, <3>3
      <4>4. map[g] = 1
        BY <1>5, <1>a, <3>3, <4>2, <4>3 DEF One
      <4> QED
        BY <1>9, <3>3, <4>4 DEF One
    <3> QED
      BY <3>1, <3>2, <3>3
  <2>2. ASSUME NEW x \in Page, Maps(pg_table'[t][x], Low) PROVE ~pg_table'[t][x].w
    <3>1. x # v
      BY <1>1, <1>3, <2>2, Numbers DEF TypeInv, Maps, New
    <3>2. pg_table'[t][x] = pg_table[t][x]
      BY <1>1, <1>3, <3>1 DEF TypeInv
    <3> QED
      BY <1>1, <2>2, <3>2 DEF OwnerAt
  <2> QED
    BY <2>1, <2>2 DEF OwnerAt
<1> QED
  BY <1>13, <1>14, <1>15, <1>16, <1>17, <1>18, OwnStep

\* A fault on a page of no file gets a fresh page of zeros.
LEMMA EmptyPageStep ==
  ASSUME MemInv, NEW t \in Task, NEW v \in Page, EmptyPage(t, v)
  PROVE  MemInv'
<1> DEFINE f == get_free_page(mem_map)
           map == Taken(mem_map, f)
<1>1. TypeInv /\ ShapeAt(t)
  BY DEF MemInv, ShapeInv
<1>2. /\ pc[t] \in {"user", "copy"} /\ pg_table[t][v] = None /\ held[t] = None
      /\ pc[t] = IF page[t] = None THEN "user" ELSE "copy"
  BY <1>1 DEF EmptyPage, NoPageAt, Touches, ShapeAt
<1>3. f \in Frame /\ mem_map[f] = 0
  BY FreePage DEF EmptyPage
<1>4. /\ TableFor(t, v, map) # None /\ put_page(t, v, New(f), map)
      /\ data' = [data EXCEPT ![f] = Zero]
      /\ task' = task /\ executable' = executable /\ pc' = pc /\ held' = held /\ wr' = wr
      /\ page' = page /\ strings' = strings
  BY DEF EmptyPage
<1>5. /\ held' = [held EXCEPT ![t] = None]
      /\ pc' = [pc EXCEPT ![t] = IF page[t] = None THEN "user" ELSE "copy"]
  BY <1>1, <1>2, <1>4 DEF TypeInv
<1>6. data' \in [Frame \cup {Low} -> Content]
  BY <1>1, <1>3, <1>4 DEF TypeInv, Content
<1>7. map \in [Frame -> Int] /\ map = [mem_map EXCEPT ![f] = 1]
  <2>1. map = [mem_map EXCEPT ![f] = 1]
    BY DEF Taken
  <2>2. mem_map \in [Frame -> Int]
    BY <1>1 DEF TypeInv
  <2> HIDE DEF map, f
  <2> QED
    BY <1>3, <2>1, <2>2, OneCount
<1>8. Fresh(t, f, map)
  BY <1>2, <1>3, <1>7 DEF Fresh
<1> HIDE DEF f, map
<1> QED
  BY <1>2, <1>3, <1>4, <1>5, <1>6, <1>7, <1>8, NewPage

\* A page that has been read from the file is put where it belongs.
LEMMA LoadsStep ==
  ASSUME MemInv, NEW t \in Task, Loads(t)
  PROVE  MemInv'
<1> DEFINE v == held[t].page
           f == held[t].frame
<1>1. TypeInv /\ ShapeAt(t)
  BY DEF MemInv, ShapeInv
<1>2. pc[t] = "load" /\ pg_table[t][v] = None /\ held[t] \in Hold
  BY <1>1 DEF Loads, ShapeAt, TypeInv
<1>3. v \in Page /\ f \in Frame /\ Maps(held[t], f)
  BY <1>2, Numbers DEF Hold, Maps
<1>4. /\ TableFor(t, v, mem_map) # None /\ put_page(t, v, New(f), mem_map)
      /\ data' = [data EXCEPT ![f] = held[t].file]
      /\ task' = task /\ executable' = executable /\ wr' = wr
      /\ pc' = [pc EXCEPT ![t] = IF page[t] = None THEN "user" ELSE "copy"]
      /\ held' = [held EXCEPT ![t] = None] /\ page' = page /\ strings' = strings
  BY DEF Loads
<1>5. data' \in [Frame \cup {Low} -> Content]
  <2>1. held[t].file \in Content
    BY <1>2 DEF Hold, Content
  <2> QED
    BY <1>1, <1>3, <1>4, <2>1 DEF TypeInv
<1>6. Fresh(t, f, mem_map)
  BY <1>3 DEF Fresh
<1>7. mem_map \in [Frame -> Int]
  BY <1>1 DEF TypeInv
<1> HIDE DEF f, v
<1> QED
  BY <1>2, <1>3, <1>4, <1>5, <1>6, <1>7, NewPage

\* A fault that gets no page, or none for its table, ends the task; a page it
\* has got is given back.
LEMMA NoEmptyPageStep ==
  ASSUME MemInv, NEW t \in Task, NEW v \in Page, NoEmptyPage(t, v)
  PROVE  MemInv'
<1> DEFINE f == get_free_page(mem_map)
<1>1. pc[t] \in {"user", "copy"} /\ mem_map \in [Frame -> Int]
  BY DEF NoEmptyPage, NoPageAt, Touches, MemInv, TypeInv
<1>2. CASE do_exit(t, mem_map)
  BY <1>1, <1>2, PlainExit
<1>3. CASE f # None /\ do_exit(t, free_page(Taken(mem_map, f), f))
  <2>1. f \in Frame /\ mem_map[f] = 0
    BY <1>3, FreePage
  <2>2. free_page(Taken(mem_map, f), f) = [mem_map EXCEPT ![f] = 0]
    BY <1>1, <2>1 DEF free_page, Taken
  <2>3. [mem_map EXCEPT ![f] = 0] = mem_map
    BY <1>1, <2>1
  <2> HIDE DEF f
  <2> QED
    BY <1>1, <1>3, <2>2, <2>3, PlainExit
<1> QED
  BY <1>2, <1>3 DEF NoEmptyPage, oom

\* A page that has been read but has no table is given back, the task ends.
LEMMA NoTableForLoadStep ==
  ASSUME MemInv, NEW t \in Task, NoTableForLoad(t)
  PROVE  MemInv'
<1> DEFINE f == held[t].frame
           map == free_page(mem_map, f)
<1>1. TypeInv /\ ShapeAt(t)
  BY DEF MemInv, ShapeInv
<1>2. pc[t] = "load" /\ held[t] \in Hold /\ do_exit(t, map)
  BY <1>1 DEF NoTableForLoad, oom, ShapeAt, TypeInv
<1>3. f \in Frame /\ held[t] # None
  BY <1>2, Numbers DEF Hold
<1>4. map = [mem_map EXCEPT ![f] = mem_map[f] - 1] /\ map \in [Frame -> Int]
  BY <1>1, <1>3 DEF free_page, TypeInv
<1>5. ASSUME NEW g \in Frame PROVE map[g] + One(Maps(held[t], g)) = mem_map[g]
  <2>1. mem_map[g] \in Int
    BY <1>1 DEF TypeInv
  <2>2. Maps(held[t], g) <=> g = f
    BY <1>3 DEF Maps
  <2>3. map[g] = IF g = f THEN mem_map[g] - 1 ELSE mem_map[g]
    BY <1>1, <1>4 DEF TypeInv
  <2> HIDE DEF f, map
  <2> QED
    BY <2>1, <2>2, <2>3 DEF One
<1> HIDE DEF f, map
<1> QED
  BY <1>2, <1>4, <1>5, DoExit DEF Dead

\* A fresh page is held while the task sleeps, to be filled.
LEMMA TakePage ==
  ASSUME MemInv, NEW t \in Task, pc[t] \in {"user", "copy"},
         get_free_page(mem_map) # None,
         NEW h \in Hold, h.frame = get_free_page(mem_map),
         mem_map' = Taken(mem_map, get_free_page(mem_map)),
         data' \in [Frame \cup {Low} -> Content],
         held' = [held EXCEPT ![t] = h],
         pc' = [pc EXCEPT ![t] = "load"], pg_table[t][h.page] = None,
         UNCHANGED <<task, pg_dir, pg_table, executable, wr, page, strings>>
  PROVE  MemInv'
<1> DEFINE f == get_free_page(mem_map)
<1>1. TypeInv /\ ShapeAt(t) /\ OwnerAt(t)
  BY DEF MemInv, ShapeInv, OwnerInv
<1>2. held[t] = None
  BY <1>1 DEF ShapeAt
<1>3. f \in Frame /\ mem_map[f] = 0
  BY FreePage
<1>4. /\ task' = task /\ pg_dir' = pg_dir /\ pg_table' = pg_table /\ wr' = wr
      /\ mem_map' = [mem_map EXCEPT ![f] = 1] /\ executable' = executable
      /\ h.frame = f /\ h # None /\ held'[t] = h
  BY <1>1, Numbers DEF Taken, TypeInv
<1> HIDE DEF f
<1>5. TypeInv'
  <2>1. mem_map' \in [Frame -> Int]
    <3>1. mem_map \in [Frame -> Int]
      BY <1>1 DEF TypeInv
    <3> QED
      BY <1>3, <1>4, <3>1, OneCount
  <2>2. pc' \in [Task -> {"free", "user", "load", "copy", "exec", "close", "exit",
                         "zombie"}]
    BY <1>1 DEF TypeInv
  <2>3. held' \in [Task -> Hold \cup {None}]
    <3>1. held \in [Task -> Hold \cup {None}] /\ held' = [held EXCEPT ![t] = h]
      BY <1>1 DEF TypeInv
    <3> QED
      BY <3>1
  <2> QED
    BY <1>1, <1>4, <2>1, <2>2, <2>3 DEF TypeInv
<1>6. Untouched(t)
  BY <1>1, <1>4 DEF Untouched, Others, SameStrings, TypeInv
<1>7. ASSUME NEW g \in Frame
      PROVE  /\ mem_map'[g] \in Int /\ mem_map'[g] = mem_map[g] + One(g = f)
             /\ Uses(t, g)' = Uses(t, g) + One(g = f)
  <2>1. mem_map[g] \in Int /\ mem_map'[g] \in Int
    BY <1>1, <1>5 DEF TypeInv
  <2>2. mem_map'[g] = mem_map[g] + One(g = f)
    BY <1>1, <1>3, <1>4, <2>1 DEF One, TypeInv
  <2>3. One(Maps(held[t], g)) = 0 /\ One(Maps(held'[t], g)) = One(g = f)
    BY <1>2, <1>4 DEF One, Maps
  <2>4. One(g = f) \in Int /\ One(task[t] = g) \in Int
    BY DEF One
  <2>5. Names(pg_dir[t], g) \in Nat /\ MapsTo(pg_table[t], g) \in Nat
    BY UseCounts
  <2> QED
    BY <1>4, <2>1, <2>2, <2>3, <2>4, <2>5 DEF Uses
<1>8. ASSUME NEW g \in Frame PROVE Uses(t, g) \in Int
  BY UseIsCounted DEF MemInv
<1>9. Balanced(t)
  <2> SUFFICES ASSUME NEW g \in Frame
               PROVE  mem_map'[g] + Uses(t, g) = mem_map[g] + Uses(t, g)'
    BY DEF Balanced
  <2>1. One(g = f) \in Int /\ mem_map[g] \in Int
    BY <1>1 DEF One, TypeInv
  <2> QED
    BY <1>7, <1>8, <2>1
<1>10. TakesFree(t)
  <2> SUFFICES ASSUME NEW g \in Frame, Uses(t, g) = 0, mem_map[g] # 0
               PROVE  Uses(t, g)' = 0
    BY DEF TakesFree
  <2>1. One(g = f) = 0
    BY <1>3 DEF One
  <2> QED
    BY <1>7, <2>1
<1>11. ShapeAt(t)'
  <2>1. pc'[t] = "load"
    BY <1>1 DEF TypeInv
  <2> QED
    BY <1>1, <1>2, <1>4, <2>1 DEF ShapeAt, Dead, Present
<1>12. OwnerAt(t)'
  <2>1. ASSUME NEW g \in Frame, Owns(t, g)' PROVE mem_map'[g] = 1
    <3>1. CASE g = f
      BY <1>3, <1>7, <3>1 DEF One
    <3>2. CASE g # f
      <4>1. ~Maps(held'[t], g)
        BY <1>4, <3>2 DEF Maps
      <4>2. Owns(t, g)
        BY <1>4, <2>1, <4>1 DEF Owns
      <4>3. One(g = f) = 0
        BY <3>2 DEF One
      <4> QED
        BY <1>1, <1>7, <4>2, <4>3 DEF OwnerAt
    <3> QED
      BY <3>1, <3>2
  <2> QED
    BY <1>1, <1>4, <2>1 DEF OwnerAt
<1> QED
  BY <1>5, <1>6, <1>9, <1>10, <1>11, <1>12, OwnStep

\* A fault on a page of the program takes a page to read the file into.
LEMMA StartLoadStep ==
  ASSUME MemInv, NEW t \in Task, NEW v \in Page, StartLoad(t, v)
  PROVE  MemInv'
<1> DEFINE f == get_free_page(mem_map)
           h == [page |-> v, frame |-> f, file |-> executable[t]]
<1>1. TypeInv
  BY DEF MemInv
<1>2. pc[t] \in {"user", "copy"} /\ pg_table[t][v] = None /\ executable[t] # None
  BY DEF StartLoad, NoPageAt, Touches, InProgram
<1>3. f \in Frame /\ f # None
  BY FreePage DEF StartLoad
<1>4. h \in Hold /\ h.frame = f /\ h.page = v
  BY <1>1, <1>2, <1>3 DEF TypeInv, Hold
<1>5. /\ mem_map' = Taken(mem_map, f) /\ data' = [data EXCEPT ![f] = Zero]
      /\ held' = [held EXCEPT ![t] = h] /\ pc' = [pc EXCEPT ![t] = "load"]
      /\ UNCHANGED <<task, pg_dir, pg_table, executable, wr, page, strings>>
  BY DEF StartLoad
<1>6. data' \in [Frame \cup {Low} -> Content]
  BY <1>1, <1>3, <1>5 DEF TypeInv, Content
<1> HIDE DEF h
<1> QED
  BY <1>2, <1>3, <1>4, <1>5, <1>6, TakePage

\* A step that changes nobody's uses.
LEMMA QuietStep ==
  ASSUME MemInv, NEW t \in Task, TypeInv', ShapeAt(t)', OwnerAt(t)', Untouched(t),
         UNCHANGED <<mem_map, task, held, pg_dir>>,
         \A v \in Page, f \in Frame : Maps(pg_table'[t][v], f) <=> Maps(pg_table[t][v], f)
  PROVE  MemInv'
<1>1. ASSUME NEW f \in Frame PROVE Uses(t, f)' = Uses(t, f)
  <2>1. MapsTo(pg_table'[t], f) = MapsTo(pg_table[t], f)
    BY SameUses
  <2> QED
    BY <2>1 DEF Uses
<1>2. Balanced(t)
  BY <1>1 DEF Balanced
<1>3. TakesFree(t)
  BY <1>1 DEF TakesFree
<1> QED
  BY <1>2, <1>3, OwnStep

\* Such a step leaves the owner's frames as they are.
LEMMA QuietOwner ==
  ASSUME MemInv, NEW t \in Task, UNCHANGED <<mem_map, task, held, pg_dir>>,
         \A v \in Page, f \in Frame \cup {Low} :
           Maps(pg_table'[t][v], f) => Maps(pg_table[t][v], f),
         \A v \in Page : pg_table'[t][v] # None /\ pg_table'[t][v].w =>
           \/ pg_table[t][v].w
           \/ pg_table'[t][v].frame # Low /\ mem_map[pg_table'[t][v].frame] = 1
  PROVE  OwnerAt(t)'
<1>1. OwnerAt(t)
  BY DEF MemInv, OwnerInv
<1>2. ASSUME NEW f \in Frame, Owns(t, f)' PROVE mem_map'[f] = 1
  <2>1. CASE Owns(t, f)
    BY <1>1, <2>1 DEF OwnerAt
  <2>2. CASE ~Owns(t, f)
    <3>1. PICK v \in Page : Maps(pg_table'[t][v], f) /\ pg_table'[t][v].w
      BY <1>2, <2>2 DEF Owns
    <3>2. ~pg_table[t][v].w
      BY <2>2, <3>1 DEF Owns
    <3> QED
      BY <3>1, <3>2 DEF Maps
  <2> QED
    BY <2>1, <2>2
<1>3. ASSUME NEW v \in Page, Maps(pg_table'[t][v], Low) PROVE ~pg_table'[t][v].w
  <2>1. Maps(pg_table[t][v], Low)
    BY <1>3
  <2> QED
    BY <1>1, <1>3, <2>1 DEF OwnerAt, Maps
<1> QED
  BY <1>2, <1>3 DEF OwnerAt

\* exec gives up the old program: the new one becomes the executable.
LEMMA NoReturnStep ==
  ASSUME MemInv, NEW t \in Task, NoReturn(t)
  PROVE  MemInv'
<1>1. TypeInv /\ ShapeAt(t)
  BY DEF MemInv, ShapeInv
<1>2. /\ pc[t] = "exec" /\ pc' = [pc EXCEPT ![t] = "close"]
      /\ executable' = [executable EXCEPT ![t] = held[t].file]
      /\ mem_map' = mem_map /\ data' = data /\ task' = task /\ pg_dir' = pg_dir
      /\ pg_table' = pg_table /\ held' = held /\ wr' = wr
      /\ page' = page /\ strings' = strings
  BY DEF NoReturn
<1>3. held[t] \in Hold
  BY <1>1, <1>2 DEF ShapeAt, TypeInv
<1>4. TypeInv'
  <2>1. held[t].file \in File
    BY <1>3 DEF Hold
  <2> QED
    BY <1>1, <1>2, <2>1 DEF TypeInv
<1>5. Untouched(t)
  BY <1>1, <1>2 DEF Untouched, Others, SameStrings, TypeInv
<1>6. ShapeAt(t)'
  <2>1. pc'[t] = "close"
    BY <1>1, <1>2 DEF TypeInv
  <2> QED
    BY <1>1, <1>2, <2>1 DEF ShapeAt, Dead, Present
<1>7. OwnerAt(t)'
  BY <1>2, QuietOwner
<1> QED
  BY <1>2, <1>4, <1>5, <1>6, <1>7, QuietStep

\* A system call returns before it writes to what it has verified.
LEMMA CallFailsStep ==
  ASSUME MemInv, NEW t \in Task, CallFails(t)
  PROVE  MemInv'
<1>1. TypeInv /\ ShapeAt(t)
  BY DEF MemInv, ShapeInv
<1>2. /\ pc[t] = "user" /\ wr' = [wr EXCEPT ![t] = None]
      /\ mem_map' = mem_map /\ data' = data /\ task' = task /\ pg_dir' = pg_dir
      /\ pg_table' = pg_table /\ held' = held /\ pc' = pc /\ executable' = executable
      /\ page' = page /\ strings' = strings
  BY DEF CallFails
<1>3. TypeInv'
  BY <1>1, <1>2 DEF TypeInv
<1>4. Untouched(t)
  BY <1>1, <1>2 DEF Untouched, Others, SameStrings, TypeInv
<1>5. ShapeAt(t)'
  <2>1. wr'[t] = None
    BY <1>1, <1>2 DEF TypeInv
  <2> QED
    BY <1>1, <1>2, <2>1 DEF ShapeAt, Present
<1>6. OwnerAt(t)'
  BY <1>2, QuietOwner
<1> QED
  BY <1>2, <1>3, <1>4, <1>5, <1>6, QuietStep

\* A task that has closed its files is a zombie.
LEMMA ExitClosedStep ==
  ASSUME MemInv, NEW t \in Task, ExitClosed(t)
  PROVE  MemInv'
<1>1. TypeInv /\ ShapeAt(t)
  BY DEF MemInv, ShapeInv
<1>2. /\ pc[t] = "exit" /\ pc' = [pc EXCEPT ![t] = "zombie"]
      /\ executable' = [executable EXCEPT ![t] = None]
      /\ mem_map' = mem_map /\ data' = data /\ task' = task /\ pg_dir' = pg_dir
      /\ pg_table' = pg_table /\ held' = held /\ wr' = wr
      /\ page' = page /\ strings' = strings
  BY DEF ExitClosed
<1>3. TypeInv'
  BY <1>1, <1>2 DEF TypeInv
<1>4. Untouched(t)
  BY <1>1, <1>2 DEF Untouched, Others, SameStrings, TypeInv
<1>5. ShapeAt(t)'
  <2>1. pc'[t] = "zombie"
    BY <1>1, <1>2 DEF TypeInv
  <2> QED
    BY <1>1, <1>2, <2>1 DEF ShapeAt, Dead, Present
<1>6. OwnerAt(t)'
  BY <1>2, QuietOwner
<1> QED
  BY <1>2, <1>3, <1>4, <1>5, <1>6, QuietStep

\* The processor sets the dirty bit of an entry.
LEMMA WrittenStep ==
  ASSUME MemInv, NEW t \in Task, NEW v \in Page, pc[t] = "user",
         pg_table[t][v] # None, Written(t, v, t),
         UNCHANGED <<mem_map, task, pg_dir, executable, pc, held, page, strings>>,
         wr' = [wr EXCEPT ![t] = None] \/ wr' = wr
  PROVE  MemInv'
<1> DEFINE e == [pg_table[t][v] EXCEPT !.dirty = TRUE]
<1>1. TypeInv /\ ShapeAt(t)
  BY DEF MemInv, ShapeInv
<1>2. pg_table[t][v] \in Entry
  BY <1>1 DEF TypeInv
<1>3. /\ e \in Entry /\ e # None
      /\ e.frame = pg_table[t][v].frame /\ e.w = pg_table[t][v].w
  BY <1>2, Numbers DEF Entry
<1>4. /\ pg_table' = [pg_table EXCEPT ![t][v] = e]
      /\ data' = [data EXCEPT ![pg_table[t][v].frame] = t]
  BY <1>1 DEF Written, TypeInv
<1> HIDE DEF e
<1>5. /\ pg_table'[t][v] = e
      /\ \A x \in Page : x # v => pg_table'[t][x] = pg_table[t][x]
      /\ pg_table'[t] \in [Page -> Entry \cup {None}]
  BY <1>1, <1>3, <1>4 DEF TypeInv
<1>6. TypeInv'
  <2>1. t \in Content /\ pg_table[t][v].frame \in Frame \cup {Low}
    BY <1>2 DEF Content, Entry
  <2>2. wr' \in [Task -> Page \cup {None}]
    BY <1>1 DEF TypeInv
  <2> QED
    BY <1>1, <1>3, <1>4, <2>1, <2>2 DEF TypeInv
<1>7. Untouched(t)
  BY <1>1, <1>4 DEF Untouched, Others, SameStrings, TypeInv
<1>8. ASSUME NEW x \in Page
      PROVE  /\ (pg_table'[t][x] # None) <=> (pg_table[t][x] # None)
             /\ pg_table[t][x] # None => /\ pg_table'[t][x].w = pg_table[t][x].w
                                         /\ pg_table'[t][x].frame = pg_table[t][x].frame
  BY <1>3, <1>5
<1>9. ShapeAt(t)'
  BY <1>1, <1>8 DEF ShapeAt, Present, Dead
<1>10. OwnerAt(t)'
  BY <1>8, QuietOwner DEF Maps
<1>11. \A x \in Page, f \in Frame :
          Maps(pg_table'[t][x], f) <=> Maps(pg_table[t][x], f)
  BY <1>8 DEF Maps
<1> QED
  BY <1>6, <1>7, <1>9, <1>10, <1>11, QuietStep

\* A program writes to a page that it may write to.
LEMMA StoreStep ==
  ASSUME MemInv, NEW t \in Task, NEW v \in Page, Store(t, v)
  PROVE  MemInv'
BY WrittenStep DEF Store, InUser

\* A system call writes to the page it has verified, writable or not.
LEMMA PutByteStep ==
  ASSUME MemInv, NEW t \in Task, put_fs_byte(t)
  PROVE  MemInv'
<1>1. wr[t] \in Page
  BY DEF put_fs_byte, MemInv, TypeInv
<1> QED
  BY <1>1, WrittenStep DEF put_fs_byte

\* A page is given back, one use of t less.
LEMMA GiveBack ==
  ASSUME MemInv, NEW t \in Task, NEW f \in Frame, TypeInv', ShapeAt(t)', Untouched(t),
         mem_map' = free_page(mem_map, f), UNCHANGED <<pg_dir, pg_table>>,
         task[t] = f /\ task'[t] = None /\ held'[t] = held[t]
  PROVE  MemInv'
<1>1. TypeInv /\ OwnerAt(t)
  BY DEF MemInv, OwnerInv
<1>2. mem_map' = [mem_map EXCEPT ![f] = mem_map[f] - 1]
  BY DEF free_page
<1>3. ASSUME NEW g \in Frame
      PROVE  /\ mem_map'[g] + One(g = f) = mem_map[g] /\ mem_map[g] \in Int
             /\ mem_map'[g] \in Int
  <2>1. mem_map[g] \in Int
    BY <1>1 DEF TypeInv
  <2> QED
    BY <1>1, <1>2, <2>1 DEF TypeInv, One
<1>4. ASSUME NEW g \in Frame PROVE Uses(t, g)' + One(g = f) = Uses(t, g)
  <2>1. /\ Uses(t, g) = One(task[t] = g) + One(Maps(held[t], g))
                        + Names(pg_dir[t], g) + MapsTo(pg_table[t], g)
        /\ Uses(t, g)' = One(task'[t] = g) + One(Maps(held'[t], g))
                         + Names(pg_dir[t], g) + MapsTo(pg_table[t], g)
    BY DEF Uses
  <2>2. Names(pg_dir[t], g) \in Nat /\ MapsTo(pg_table[t], g) \in Nat
    BY UseCounts
  <2>3. g # None
    BY Numbers
  <2>4. One(task'[t] = g) + One(Maps(held'[t], g)) + One(g = f)
          = One(task[t] = g) + One(Maps(held[t], g))
    BY <2>3 DEF One, Maps
  <2>5. /\ One(task'[t] = g) \in Nat /\ One(Maps(held'[t], g)) \in Nat
        /\ One(task[t] = g) \in Nat /\ One(Maps(held[t], g)) \in Nat
        /\ One(g = f) \in Nat
    BY DEF One
  <2> QED
    BY <2>1, <2>2, <2>4, <2>5
<1>5. ASSUME NEW g \in Frame PROVE Uses(t, g) \in Nat /\ Uses(t, g)' \in Int
  <2>1. Uses(t, g) \in Nat
    BY UseIsCounted DEF MemInv
  <2>2. /\ One(task'[t] = g) \in Int /\ One(Maps(held'[t], g)) \in Int
        /\ Names(pg_dir'[t], g) \in Nat /\ MapsTo(pg_table'[t], g) \in Nat
    BY UseCounts DEF One
  <2> QED
    BY <2>1, <2>2 DEF Uses
<1>6. Balanced(t)
  <2> SUFFICES ASSUME NEW g \in Frame
               PROVE  mem_map'[g] + Uses(t, g) = mem_map[g] + Uses(t, g)'
    BY DEF Balanced
  <2>1. One(g = f) \in Int
    BY DEF One
  <2> QED
    BY <1>3, <1>4, <1>5, <2>1
<1>7. Owns(t, f)
  BY DEF Owns
<1>8. mem_map[f] = 1 /\ Uses(t, f) = 1
  BY <1>7, OwnerIsAlone DEF MemInv
<1>9. TakesFree(t)
  <2> SUFFICES ASSUME NEW g \in Frame, Uses(t, g) = 0 PROVE Uses(t, g)' = 0
    BY DEF TakesFree
  <2>1. One(g = f) = 0
    BY <1>8 DEF One
  <2> QED
    BY <1>4, <1>5, <2>1
<1>10. OwnerAt(t)'
  <2>1. ASSUME NEW g \in Frame, Owns(t, g)' PROVE mem_map'[g] = 1
    <3>1. Owns(t, g)
      BY <2>1, Numbers DEF Owns, Maps
    <3>2. g # f
      <4> SUFFICES ASSUME g = f PROVE FALSE
        OBVIOUS
      <4>1. Uses(t, f)' = 0
        BY <1>4, <1>5, <1>8 DEF One
      <4>2. /\ task'[t] # f /\ ~Maps(held'[t], f)
            /\ \A d \in Dir : pg_dir'[t][d] # f
            /\ \A v \in Page : ~Maps(pg_table'[t][v], f)
        <5>1. /\ Names(pg_dir'[t], f) \in Nat /\ MapsTo(pg_table'[t], f) \in Nat
              /\ Names(pg_dir'[t], f) = 0 => \A d \in Dir : pg_dir'[t][d] # f
              /\ MapsTo(pg_table'[t], f) = 0 =>
                   \A v \in Page : ~Maps(pg_table'[t][v], f)
          BY UseCounts
        <5>2. /\ One(task'[t] = f) \in Nat /\ One(Maps(held'[t], f)) \in Nat
              /\ One(task'[t] = f) = 0 => task'[t] # f
              /\ One(Maps(held'[t], f)) = 0 => ~Maps(held'[t], f)
          BY DEF One
        <5>3. One(task'[t] = f) + One(Maps(held'[t], f))
                + Names(pg_dir'[t], f) + MapsTo(pg_table'[t], f) = 0
          BY <4>1 DEF Uses
        <5>4. /\ One(task'[t] = f) = 0 /\ One(Maps(held'[t], f)) = 0
              /\ Names(pg_dir'[t], f) = 0 /\ MapsTo(pg_table'[t], f) = 0
          BY <5>1, <5>2, <5>3
        <5> QED
          BY <5>1, <5>2, <5>4
      <4> QED
        BY <2>1, <4>2 DEF Owns
    <3>3. One(g = f) = 0 /\ mem_map[g] = 1
      BY <1>1, <3>1, <3>2 DEF One, OwnerAt
    <3> QED
      BY <1>3, <3>3
  <2> QED
    BY <1>1, <2>1 DEF OwnerAt
<1> QED
  BY <1>6, <1>9, <1>10, OwnStep

\* The task_struct of a zombie is freed when somebody has waited for it.
LEMMA ReleaseStep ==
  ASSUME MemInv, NEW t \in Task, release(t)
  PROVE  MemInv'
<1> DEFINE f == task[t]
<1>1. TypeInv /\ ShapeAt(t)
  BY DEF MemInv, ShapeInv
<1>2. /\ pc[t] = "zombie" /\ pc' = [pc EXCEPT ![t] = "free"]
      /\ mem_map' = free_page(mem_map, f) /\ task' = [task EXCEPT ![t] = None]
      /\ data' = data /\ held' = held /\ pg_dir' = pg_dir /\ pg_table' = pg_table
      /\ wr' = wr /\ executable' = executable /\ page' = page /\ strings' = strings
  BY DEF release
<1>3. f \in Frame
  BY <1>1, <1>2 DEF ShapeAt, TypeInv
<1>5. task'[t] = None /\ pc'[t] = "free"
  BY <1>1, <1>2 DEF TypeInv
<1>6. TypeInv'
  <2>1. mem_map' = [mem_map EXCEPT ![f] = mem_map[f] - 1]
    BY <1>2, <1>3 DEF free_page
  <2>2. mem_map' \in [Frame -> Int]
    BY <1>1, <1>3, <2>1, OneCount DEF TypeInv
  <2> QED
    BY <1>1, <1>2, <2>2 DEF TypeInv
<1>7. Untouched(t)
  BY <1>1, <1>2 DEF Untouched, Others, SameStrings, TypeInv
<1>8. ShapeAt(t)'
  BY <1>1, <1>2, <1>5 DEF ShapeAt, Dead, Present
<1>9. task[t] = f /\ held'[t] = held[t]
  BY <1>2
<1> HIDE DEF f
<1> QED
  BY <1>2, <1>3, <1>5, <1>6, <1>7, <1>8, <1>9, GiveBack

-----------------------------------------------------------------------------
(* The strings of an exec                                                  *)

\* No task uses a page of strings.
LEMMA StringsApart ==
  ASSUME MemInv, NEW f \in strings
  PROVE  /\ f \in Frame /\ mem_map[f] = 1
         /\ \A t \in Task : Uses(t, f) = 0 /\ ~Owns(t, f)
<1>1. f \in Frame /\ mem_map[f] = 1
  BY DEF MemInv, TypeInv, StringsInv
<1>2. ASSUME NEW t \in Task PROVE Uses(t, f) = 0 /\ ~Owns(t, f)
  <2>1. Uses(t, f) \in Nat /\ Uses(t, f) < mem_map[f]
    BY <1>1, UseIsCounted DEF MemInv
  <2>2. Uses(t, f) = 0
    BY <1>1, <2>1
  <2>3. Owns(t, f) => Uses(t, f) = 1
    BY <1>1, OwnerIsAlone DEF MemInv
  <2> QED
    BY <2>2, <2>3
<1> QED
  BY <1>1, <1>2

\* The counts when the strings change, and the page that t holds.
LEMMA StringsCount ==
  ASSUME MemInv, NEW t \in Task, UNCHANGED <<task, pg_dir, pg_table>>,
         \A u \in Task \ {t} : held'[u] = held[u],
         \A f \in Frame :
           /\ mem_map'[f] \in Int
           /\ mem_map'[f] + One(f \in strings) + One(Maps(held[t], f))
                = mem_map[f] + One(f \in strings') + One(Maps(held'[t], f))
  PROVE  CountInv'
<1> SUFFICES ASSUME NEW f \in Frame
             PROVE  mem_map'[f] = Cardinality(TasksAt(f)') + Cardinality(HeldAt(f)')
                                  + Cardinality(TablesAt(f)')
                                  + Cardinality(PagesAt(f)')
                                  + One(f \in strings')
  BY DEF CountInv
<1>1. TasksAt(f)' = TasksAt(f) /\ TablesAt(f)' = TablesAt(f) /\ PagesAt(f)' = PagesAt(f)
  BY DEF TasksAt, TablesAt, PagesAt, Maps
<1>2. /\ Cardinality(HeldAt(f)) \in Nat /\ Cardinality(HeldAt(f)') \in Nat
      /\ Cardinality(HeldAt(f)') + One(Maps(held[t], f))
           = Cardinality(HeldAt(f)) + One(Maps(held'[t], f))
  <2> DEFINE S == HeldAt(f)
  <2>1. /\ S \subseteq Task /\ S' \subseteq Task /\ S \ {t} = S' \ {t}
        /\ One(t \in S) = One(Maps(held[t], f))
        /\ One(t \in S') = One(Maps(held'[t], f))
    BY DEF HeldAt, One, Maps
  <2> HIDE DEF S
  <2>2. /\ Cardinality(S) \in Nat /\ Cardinality(S') \in Nat
        /\ Cardinality(S') + One(t \in S) = Cardinality(S) + One(t \in S')
    BY <2>1, FiniteMemory, OneChanges
  <2> QED
    BY <2>1, <2>2 DEF S
<1>3. mem_map[f] = Cardinality(TasksAt(f)) + Cardinality(HeldAt(f))
                   + Cardinality(TablesAt(f)) + Cardinality(PagesAt(f))
                   + One(f \in strings)
  BY DEF MemInv, CountInv
<1>4. /\ One(f \in strings) \in Nat /\ One(f \in strings') \in Nat
      /\ One(Maps(held[t], f)) \in Nat /\ One(Maps(held'[t], f)) \in Nat
  BY DEF One
<1>5. /\ Cardinality(TasksAt(f)) \in Nat /\ Cardinality(TablesAt(f)) \in Nat
      /\ Cardinality(PagesAt(f)) \in Nat
  BY FiniteUsers
<1>6. /\ mem_map'[f] \in Int
      /\ mem_map'[f] + One(f \in strings) + One(Maps(held[t], f))
           = mem_map[f] + One(f \in strings') + One(Maps(held'[t], f))
  OBVIOUS
<1> DEFINE k1 == Cardinality(TasksAt(f))
           k2 == Cardinality(HeldAt(f))
           k3 == Cardinality(TablesAt(f))
           k4 == Cardinality(PagesAt(f))
           h == One(Maps(held[t], f))
           s == One(f \in strings)
<1>7. /\ k1 \in Nat /\ k2 \in Nat /\ k3 \in Nat /\ k4 \in Nat /\ s \in Nat
      /\ k2' \in Nat /\ s' \in Nat /\ h \in Nat /\ h' \in Nat
      /\ k1' = k1 /\ k3' = k3 /\ k4' = k4 /\ k2' + h = k2 + h'
      /\ mem_map[f] = k1 + k2 + k3 + k4 + s
      /\ mem_map'[f] \in Int /\ mem_map'[f] + s + h = mem_map[f] + s' + h'
  BY <1>1, <1>2, <1>3, <1>4, <1>5, <1>6
<1> HIDE DEF k1, k2, k3, k4, h, s
<1>8. mem_map'[f] = k1' + k2' + k3' + k4' + s'
  BY <1>7
<1> QED
  BY <1>8 DEF k1, k2, k3, k4, s

\* exec takes a page for the strings of the new program.
LEMMA ExecStep ==
  ASSUME MemInv, NEW t \in Task, do_execve(t)
  PROVE  MemInv'
<1> DEFINE f == get_free_page(mem_map)
<1>1. TypeInv /\ ShapeAt(t)
  BY DEF MemInv, ShapeInv
<1>2. f \in Frame /\ mem_map[f] = 0 /\ f # None /\ f \notin strings
  <2>1. f \in Frame /\ mem_map[f] = 0
    BY FreePage DEF do_execve
  <2> QED
    BY <2>1, FreeIsUnused, Numbers DEF MemInv
<1>3. /\ pc[t] = "user" /\ wr[t] = None /\ pc' = [pc EXCEPT ![t] = "copy"]
      /\ mem_map' = [mem_map EXCEPT ![f] = 1] /\ data' = [data EXCEPT ![f] = Zero]
      /\ page' = [page EXCEPT ![t] = f] /\ strings' = strings \cup {f}
      /\ task' = task /\ pg_dir' = pg_dir /\ pg_table' = pg_table
      /\ executable' = executable /\ held' = held /\ wr' = wr
  BY DEF do_execve, InUser, Taken
<1> HIDE DEF f
<1>4. /\ mem_map' \in [Frame -> Int] /\ mem_map'[f] = 1
      /\ \A g \in Frame : g # f => mem_map'[g] = mem_map[g]
  <2>1. mem_map \in [Frame -> Int]
    BY <1>1 DEF TypeInv
  <2> QED
    BY <1>2, <1>3, <2>1, OneCount
<1>5. TypeInv'
  <2>1. data' \in [Frame \cup {Low} -> Content]
    BY <1>1, <1>2, <1>3 DEF TypeInv, Content
  <2> QED
    BY <1>1, <1>2, <1>3, <1>4, <2>1 DEF TypeInv
<1>6. ASSUME NEW u \in Task PROVE ShapeAt(u)'
  <2>1. ShapeAt(u)
    BY DEF MemInv, ShapeInv
  <2>2. CASE u = t
    <3>1. pc'[t] = "copy" /\ page'[t] = f
      BY <1>1, <1>3 DEF TypeInv
    <3> QED
      BY <1>1, <1>2, <1>3, <2>2, <3>1 DEF ShapeAt, Dead, Present
  <2>3. CASE u # t
    <3>1. pc'[u] = pc[u] /\ page'[u] = page[u]
      BY <1>1, <1>3, <2>3 DEF TypeInv
    <3> QED
      BY <1>3, <2>1, <3>1 DEF ShapeAt, Present
  <2> QED
    BY <2>2, <2>3
<1>7. CountInv'
  <2>1. ASSUME NEW g \in Frame
        PROVE  mem_map'[g] + One(g \in strings) = mem_map[g] + One(g \in strings')
    <3>1. CASE g = f
      BY <1>2, <1>3, <1>4, <3>1 DEF One
    <3>2. CASE g # f
      BY <1>3, <1>4, <3>2 DEF One
    <3> QED
      BY <3>1, <3>2
  <2>2. ASSUME NEW g \in Frame
        PROVE  /\ mem_map'[g] \in Int
               /\ mem_map'[g] + One(g \in strings) + One(Maps(held[t], g))
                    = mem_map[g] + One(g \in strings') + One(Maps(held'[t], g))
    <3>1. /\ mem_map[g] \in Int /\ mem_map'[g] \in Int /\ One(g \in strings) \in Int
          /\ One(g \in strings') \in Int /\ One(Maps(held[t], g)) \in Int
          /\ One(Maps(held'[t], g)) = One(Maps(held[t], g))
      BY <1>1, <1>3, <1>4 DEF TypeInv, One
    <3> QED
      BY <2>1, <3>1
  <2> QED
    BY <1>3, <2>2, StringsCount
<1>8. ASSUME NEW u \in Task PROVE OwnerAt(u)'
  <2>1. OwnerAt(u)
    BY DEF MemInv, OwnerInv
  <2>2. ASSUME NEW g \in Frame, Owns(u, g)' PROVE mem_map'[g] = 1
    <3>1. Owns(u, g)
      BY <1>3, <2>2 DEF Owns
    <3>2. mem_map[g] = 1
      BY <2>1, <3>1 DEF OwnerAt
    <3> QED
      BY <1>2, <1>4, <3>2
  <2> QED
    BY <1>3, <2>1, <2>2 DEF OwnerAt
<1>9. StringsInv'
  <2>1. StringsInv
    BY DEF MemInv
  <2>2. \A g \in strings' : mem_map'[g] = 1
    BY <1>1, <1>2, <1>3, <1>4, <2>1 DEF StringsInv, TypeInv
  <2>3. page'[t] = f /\ \A u \in Task \ {t} : page'[u] = page[u] /\ page[u] # f
    BY <1>1, <1>2, <1>3, <2>1 DEF StringsInv, TypeInv
  <2> QED
    BY <1>3, <2>1, <2>2, <2>3 DEF StringsInv
<1> QED
  BY <1>5, <1>6, <1>7, <1>8, <1>9 DEF MemInv, ShapeInv, OwnerInv

\* A failed exec gives back the page of the strings.
LEMMA ExecFailsStep ==
  ASSUME MemInv, NEW t \in Task, ExecFails(t)
  PROVE  MemInv'
<1> DEFINE f == page[t]
<1>1. TypeInv /\ ShapeAt(t) /\ StringsInv
  BY DEF MemInv, ShapeInv
<1>2. /\ pc[t] = "copy" /\ pc' = [pc EXCEPT ![t] = "user"]
      /\ mem_map' = free_page(mem_map, f)
      /\ page' = [page EXCEPT ![t] = None] /\ strings' = strings \ {f}
      /\ data' = data /\ task' = task /\ pg_dir' = pg_dir /\ pg_table' = pg_table
      /\ executable' = executable /\ held' = held /\ wr' = wr
  BY DEF ExecFails
<1>3. f \in strings /\ \A u \in Task \ {t} : page[u] # f
  BY <1>1, <1>2 DEF ShapeAt, StringsInv
<1>4. f \in Frame /\ mem_map[f] = 1 /\ \A u \in Task : ~Owns(u, f)
  BY <1>3, StringsApart
<1> HIDE DEF f
<1>5. /\ mem_map' \in [Frame -> Int] /\ mem_map'[f] = 0
      /\ \A g \in Frame : g # f => mem_map'[g] = mem_map[g]
  <2>1. mem_map \in [Frame -> Int] /\ mem_map' = [mem_map EXCEPT ![f] = 0]
    BY <1>1, <1>2, <1>4 DEF TypeInv, free_page
  <2> QED
    BY <1>4, <2>1, OneCount
<1>6. pc'[t] = "user" /\ page'[t] = None
  BY <1>1, <1>2 DEF TypeInv
<1>7. TypeInv'
  BY <1>1, <1>2, <1>5 DEF TypeInv
<1>8. ASSUME NEW u \in Task PROVE ShapeAt(u)'
  <2>1. ShapeAt(u)
    BY DEF MemInv, ShapeInv
  <2>2. CASE u = t
    BY <1>1, <1>2, <1>6, <2>2 DEF ShapeAt, Dead, Present
  <2>3. CASE u # t
    <3>1. pc'[u] = pc[u] /\ page'[u] = page[u]
      BY <1>1, <1>2, <2>3 DEF TypeInv
    <3> QED
      BY <1>2, <2>1, <3>1 DEF ShapeAt, Present
  <2> QED
    BY <2>2, <2>3
<1>9. CountInv'
  <2>1. ASSUME NEW g \in Frame
        PROVE  mem_map'[g] + One(g \in strings) = mem_map[g] + One(g \in strings')
    <3>1. CASE g = f
      BY <1>2, <1>3, <1>4, <1>5, <3>1 DEF One
    <3>2. CASE g # f
      BY <1>2, <1>5, <3>2 DEF One
    <3> QED
      BY <3>1, <3>2
  <2>2. ASSUME NEW g \in Frame
        PROVE  /\ mem_map'[g] \in Int
               /\ mem_map'[g] + One(g \in strings) + One(Maps(held[t], g))
                    = mem_map[g] + One(g \in strings') + One(Maps(held'[t], g))
    <3>1. /\ mem_map[g] \in Int /\ mem_map'[g] \in Int /\ One(g \in strings) \in Int
          /\ One(g \in strings') \in Int /\ One(Maps(held[t], g)) \in Int
          /\ One(Maps(held'[t], g)) = One(Maps(held[t], g))
      BY <1>1, <1>2, <1>5 DEF TypeInv, One
    <3> QED
      BY <2>1, <3>1
  <2> QED
    BY <1>2, <2>2, StringsCount
<1>10. ASSUME NEW u \in Task PROVE OwnerAt(u)'
  <2>1. OwnerAt(u)
    BY DEF MemInv, OwnerInv
  <2>2. ASSUME NEW g \in Frame, Owns(u, g)' PROVE mem_map'[g] = 1
    <3>1. Owns(u, g)
      BY <1>2, <2>2 DEF Owns
    <3>2. mem_map[g] = 1 /\ g # f
      BY <1>4, <2>1, <3>1 DEF OwnerAt
    <3> QED
      BY <1>5, <3>2
  <2> QED
    BY <1>2, <2>1, <2>2 DEF OwnerAt
<1>11. StringsInv'
  <2>1. \A g \in strings' : mem_map'[g] = 1
    BY <1>1, <1>2, <1>5 DEF StringsInv, TypeInv
  <2>2. \A u \in Task \ {t} : page'[u] = page[u]
    BY <1>1, <1>2 DEF TypeInv
  <2> QED
    BY <1>1, <1>2, <1>3, <1>6, <2>1, <2>2 DEF StringsInv
<1> QED
  BY <1>7, <1>8, <1>9, <1>10, <1>11 DEF MemInv, ShapeInv, OwnerInv

\* The page of the strings waits for the new program.
LEMMA StringsCopiedStep ==
  ASSUME MemInv, NEW t \in Task, NEW file \in File, StringsCopied(t, file)
  PROVE  MemInv'
<1> DEFINE f == page[t]
           h == [page |-> Stack, frame |-> f, file |-> file]
<1>1. TypeInv /\ ShapeAt(t) /\ OwnerAt(t) /\ StringsInv
  BY DEF MemInv, ShapeInv, OwnerInv
<1>2. /\ pc[t] = "copy" /\ pc' = [pc EXCEPT ![t] = "exec"]
      /\ mem_map' = mem_map /\ data' = [data EXCEPT ![f] = Args]
      /\ page' = [page EXCEPT ![t] = None] /\ strings' = strings \ {f}
      /\ task' = task /\ pg_dir' = pg_dir /\ pg_table' = pg_table
      /\ executable' = executable /\ held' = [held EXCEPT ![t] = h] /\ wr' = wr
  BY DEF StringsCopied
<1>3. f \in strings /\ \A u \in Task \ {t} : page[u] # f
  BY <1>1, <1>2 DEF ShapeAt, StringsInv
<1>4. f \in Frame /\ mem_map[f] = 1 /\ \A u \in Task : ~Owns(u, f)
  BY <1>3, StringsApart
<1>5. /\ h \in Hold /\ h.frame = f /\ h.page = Stack /\ h # None
      /\ \A g : Maps(h, g) <=> g = f
  <2>1. h \in Hold
    BY <1>4, MemoryAssumption DEF Hold
  <2> QED
    BY <2>1, Numbers DEF Maps
<1> HIDE DEF h, f
<1>6. pc'[t] = "exec" /\ page'[t] = None /\ held'[t] = h /\ held[t] = None
  BY <1>1, <1>2 DEF TypeInv, ShapeAt
<1>7. TypeInv'
  <2>1. data' \in [Frame \cup {Low} -> Content]
    BY <1>1, <1>2, <1>4 DEF TypeInv, Content
  <2>2. held' \in [Task -> Hold \cup {None}]
    BY <1>1, <1>2, <1>5 DEF TypeInv
  <2> QED
    BY <1>1, <1>2, <2>1, <2>2 DEF TypeInv
<1>8. ASSUME NEW u \in Task PROVE ShapeAt(u)'
  <2>1. ShapeAt(u)
    BY DEF MemInv, ShapeInv
  <2>2. CASE u = t
    <3>1. wr[t] = None
      BY <1>1, <1>2 DEF ShapeAt
    <3> QED
      BY <1>1, <1>2, <1>5, <1>6, <2>2, <3>1 DEF ShapeAt, Dead, Present
  <2>3. CASE u # t
    <3>1. pc'[u] = pc[u] /\ page'[u] = page[u] /\ held'[u] = held[u]
      BY <1>1, <1>2, <2>3 DEF TypeInv
    <3> QED
      BY <1>2, <2>1, <3>1 DEF ShapeAt, Present
  <2> QED
    BY <2>2, <2>3
<1>9. CountInv'
  <2>1. ASSUME NEW g \in Frame
        PROVE  /\ mem_map'[g] \in Int
               /\ mem_map'[g] + One(g \in strings) + One(Maps(held[t], g))
                    = mem_map[g] + One(g \in strings') + One(Maps(held'[t], g))
    <3>1. mem_map[g] \in Int /\ One(Maps(held[t], g)) = 0
      BY <1>1, <1>6 DEF TypeInv, One, Maps
    <3>2. One(Maps(held'[t], g)) = One(g = f)
      BY <1>5, <1>6 DEF One
    <3>3. One(g \in strings) = One(g \in strings') + One(g = f)
      BY <1>2, <1>3 DEF One
    <3>4. One(g \in strings') \in Int /\ One(g = f) \in Int
      BY DEF One
    <3> QED
      BY <1>2, <3>1, <3>2, <3>3, <3>4
  <2>2. \A u \in Task \ {t} : held'[u] = held[u]
    BY <1>1, <1>2 DEF TypeInv
  <2> QED
    BY <1>2, <2>1, <2>2, StringsCount
<1>10. ASSUME NEW u \in Task PROVE OwnerAt(u)'
  <2>1. OwnerAt(u)
    BY DEF MemInv, OwnerInv
  <2>2. ASSUME NEW g \in Frame, Owns(u, g)' PROVE mem_map'[g] = 1
    <3>1. CASE g = f
      BY <1>2, <1>4, <3>1
    <3>2. CASE g # f
      <4>1. Maps(held'[u], g) => Maps(held[u], g)
        <5>1. u # t => held'[u] = held[u]
          BY <1>1, <1>2 DEF TypeInv
        <5> QED
          BY <1>5, <1>6, <3>2, <5>1
      <4>2. Owns(u, g)
        BY <1>2, <2>2, <4>1 DEF Owns
      <4> QED
        BY <1>2, <2>1, <4>2 DEF OwnerAt
    <3> QED
      BY <3>1, <3>2
  <2> QED
    BY <1>2, <2>1, <2>2 DEF OwnerAt
<1>11. StringsInv'
  <2>1. \A g \in strings' : mem_map'[g] = 1
    BY <1>1, <1>2 DEF StringsInv
  <2>2. \A u \in Task \ {t} : page'[u] = page[u]
    BY <1>1, <1>2 DEF TypeInv
  <2> QED
    BY <1>1, <1>2, <1>3, <1>6, <2>1, <2>2 DEF StringsInv
<1> QED
  BY <1>7, <1>8, <1>9, <1>10, <1>11 DEF MemInv, ShapeInv, OwnerInv

\* A task is killed by a bad pointer.
LEMMA DieStep ==
  ASSUME MemInv, NEW t \in Task, die(t)
  PROVE  MemInv'
<1>1. ShapeAt(t) /\ do_exit(t, mem_map) /\ pc[t] # "load"
  BY DEF MemInv, ShapeInv, die
<1>2. pc[t] \in {"user", "copy"}
  BY <1>1 DEF ShapeAt, die
<1> QED
  BY <1>1, <1>2, PlainExit

-----------------------------------------------------------------------------
(* Copy on write                                                           *)

SetsEntry(t, v, e) == pg_table' = [pg_table EXCEPT ![t][v] = e]

\* A new entry in a page table.
LEMMA NewEntry ==
  ASSUME pg_table \in [Task -> [Page -> Entry \cup {None}]],
         NEW t \in Task, NEW v \in Page, NEW e \in Entry,
         SetsEntry(t, v, e)
  PROVE  /\ pg_table' \in [Task -> [Page -> Entry \cup {None}]]
         /\ pg_table'[t][v] = e
         /\ \A x \in Page : x # v => pg_table'[t][x] = pg_table[t][x]
         /\ \A u \in Task : u # t => pg_table'[u] = pg_table[u]
BY DEF SetsEntry

\* un_wp_page for one user: the page is taken over.
LEMMA TakenOver ==
  ASSUME MemInv, NEW t \in Task, NEW v \in Page, pc[t] = "user", ReadOnly(t, v),
         SoleUser(pg_table[t][v].frame),
         NEW e \in Entry, e.frame = pg_table[t][v].frame,
         SetsEntry(t, v, e),
         UNCHANGED <<mem_map, data, task, pg_dir, executable, pc, held, page, strings>>,
         wr' = [wr EXCEPT ![t] = v] \/ wr' = wr
  PROVE  MemInv'
<1>1. TypeInv /\ ShapeAt(t)
  BY DEF MemInv, ShapeInv
<1>2. pg_table[t][v] \in Entry /\ pg_table[t][v] # None
  BY <1>1 DEF TypeInv, ReadOnly
<1>3. e # None
  BY Numbers
<1>5. /\ pg_table'[t][v] = e
      /\ \A x \in Page : x # v => pg_table'[t][x] = pg_table[t][x]
      /\ pg_table' \in [Task -> [Page -> Entry \cup {None}]]
      /\ \A u \in Task : u # t => pg_table'[u] = pg_table[u]
  <2>1. pg_table \in [Task -> [Page -> Entry \cup {None}]]
    BY <1>1 DEF TypeInv
  <2> QED
    BY <1>3, <2>1, NewEntry
<1>6. TypeInv'
  <2>1. wr' \in [Task -> Page \cup {None}]
    BY <1>1 DEF TypeInv
  <2> QED
    BY <1>1, <1>5, <2>1 DEF TypeInv
<1>7. Untouched(t)
  BY <1>1, <1>5 DEF Untouched, Others, SameStrings, TypeInv
<1>8. ASSUME NEW x \in Page
      PROVE  /\ (pg_table'[t][x] # None) <=> (pg_table[t][x] # None)
             /\ pg_table[t][x] # None =>
                  /\ pg_table'[t][x].frame = pg_table[t][x].frame
                  /\ x # v => pg_table'[t][x].w = pg_table[t][x].w
  BY <1>2, <1>3, <1>5
<1>9. ShapeAt(t)'
  BY <1>1, <1>8 DEF ShapeAt, Present, Dead
<1>10. pg_table'[t][v].frame # Low /\ mem_map[pg_table'[t][v].frame] = 1
  BY <1>3, <1>5, Numbers DEF SoleUser
<1>11. \A x \in Page, f \in Frame \cup {Low} :
          Maps(pg_table'[t][x], f) <=> Maps(pg_table[t][x], f)
  BY <1>8 DEF Maps
<1>12. \A x \in Page : pg_table'[t][x] # None /\ pg_table'[t][x].w =>
          \/ pg_table[t][x].w
          \/ pg_table'[t][x].frame # Low /\ mem_map[pg_table'[t][x].frame] = 1
  BY <1>8, <1>10
<1>13. OwnerAt(t)'
  BY <1>11, <1>12, QuietOwner
<1> QED
  BY <1>6, <1>7, <1>9, <1>11, <1>13, QuietStep

\* un_wp_page for several users: t gets a copy of its own.
LEMMA Copied ==
  ASSUME MemInv, NEW t \in Task, NEW v \in Page, pc[t] = "user", ReadOnly(t, v),
         NEW old, NEW new,
         old = pg_table[t][v].frame, new = get_free_page(mem_map),
         ~SoleUser(old), new # None,
         mem_map' = free_page(Taken(mem_map, new), old),
         data' = [data EXCEPT ![new] = data[old]],
         pg_table' = [pg_table EXCEPT ![t][v] = New(new)],
         UNCHANGED <<task, pg_dir, executable, pc, held, page, strings>>,
         wr' = [wr EXCEPT ![t] = v] \/ wr' = wr
  PROVE  MemInv'
<1>1. TypeInv /\ ShapeAt(t) /\ OwnerAt(t)
  BY DEF MemInv, ShapeInv, OwnerInv
<1>2. pg_table[t][v] \in Entry /\ pg_table[t][v] # None
  BY <1>1 DEF TypeInv, ReadOnly
<1>3. new \in Frame /\ mem_map[new] = 0 /\ old \in Frame \cup {Low}
  BY <1>2, FreePage DEF Entry
<1>4. \A g \in Frame : Maps(pg_table[t][v], g) <=> g = old
  BY <1>2 DEF Maps
<1>5. Uses(t, new) = 0
  BY <1>3, FreeIsNotUsed
<1>6. new # old
  <2> SUFFICES ASSUME new = old PROVE FALSE
    OBVIOUS
  <2>1. Maps(pg_table[t][v], new)
    BY <1>3, <1>4
  <2> QED
    BY <1>3, <1>5, <2>1, NotUsed
<1>7. ASSUME NEW g \in Frame
      PROVE  /\ mem_map'[g] \in Int /\ mem_map[g] \in Int
             /\ mem_map'[g] + One(g = old) = mem_map[g] + One(g = new)
  <2> DEFINE m == [mem_map EXCEPT ![new] = 1]
  <2>1. mem_map[g] \in Int /\ mem_map \in [Frame -> Int]
    BY <1>1 DEF TypeInv
  <2>2. m \in [Frame -> Int] /\ m[g] = mem_map[g] + One(g = new) /\ m[g] \in Int
    BY <1>3, <2>1 DEF One
  <2>3. mem_map' = IF old \in Frame THEN [m EXCEPT ![old] = m[old] - 1] ELSE m
    BY DEF free_page, Taken
  <2> HIDE DEF m
  <2>4. CASE old \in Frame
    <3>1. mem_map'[g] = IF g = old THEN m[g] - 1 ELSE m[g]
      BY <2>2, <2>3, <2>4
    <3>2. mem_map'[g] + One(g = old) = m[g] /\ mem_map'[g] \in Int
      BY <2>2, <3>1 DEF One
    <3> QED
      BY <2>1, <2>2, <3>2
  <2>5. CASE old \notin Frame
    <3>1. mem_map' = m /\ One(g = old) = 0
      BY <2>3, <2>5 DEF One
    <3> QED
      BY <2>1, <2>2, <3>1
  <2> QED
    BY <2>4, <2>5
<1>8. /\ pg_table'[t][v] = New(new)
      /\ \A x \in Page : x # v => pg_table'[t][x] = pg_table[t][x]
  BY <1>1 DEF TypeInv
<1>9. ASSUME NEW g \in Frame
      PROVE  /\ Uses(t, g)' + One(g = old) = Uses(t, g) + One(g = new)
             /\ Uses(t, g)' \in Int /\ Uses(t, g) \in Int
  <2>2. /\ MapsTo(pg_table[t], g) \in Nat /\ MapsTo(pg_table'[t], g) \in Nat
        /\ MapsTo(pg_table'[t], g) + One(Maps(pg_table[t][v], g))
             = MapsTo(pg_table[t], g) + One(Maps(pg_table'[t][v], g))
    <3> DEFINE a == pg_table[t]
               b == pg_table'[t]
    <3>1. \A x \in Page \ {v} : b[x] = a[x]
      BY <1>8
    <3> HIDE DEF a, b
    <3>2. /\ MapsTo(a, g) \in Nat /\ MapsTo(b, g) \in Nat
          /\ MapsTo(b, g) + One(Maps(a[v], g)) = MapsTo(a, g) + One(Maps(b[v], g))
      BY <3>1, EntryChanges
    <3> QED
      BY <3>2 DEF a, b
  <2>3. /\ One(Maps(pg_table[t][v], g)) = One(g = old)
        /\ One(Maps(pg_table'[t][v], g)) = One(g = new)
    BY <1>3, <1>4, <1>8, Numbers DEF One
  <2>4. /\ Uses(t, g) = One(task[t] = g) + One(Maps(held[t], g))
                        + Names(pg_dir[t], g) + MapsTo(pg_table[t], g)
        /\ Uses(t, g)' = One(task[t] = g) + One(Maps(held[t], g))
                         + Names(pg_dir[t], g) + MapsTo(pg_table'[t], g)
    BY DEF Uses
  <2>5. Names(pg_dir[t], g) \in Nat
    BY UseCounts
  <2>6. /\ One(task[t] = g) \in Nat /\ One(Maps(held[t], g)) \in Nat
        /\ One(g = old) \in Nat /\ One(g = new) \in Nat
    BY DEF One
  <2> QED
    BY <2>2, <2>3, <2>4, <2>5, <2>6
<1>10. TypeInv'
  <2>1. mem_map' \in [Frame -> Int]
    <3>1. mem_map \in [Frame -> Int]
      BY <1>1 DEF TypeInv
    <3>2. [mem_map EXCEPT ![new] = 1] \in [Frame -> Int]
      BY <1>3, <3>1, OneCount
    <3> DEFINE m == [mem_map EXCEPT ![new] = 1]
    <3>3. mem_map' = IF old \in Frame THEN [m EXCEPT ![old] = m[old] - 1] ELSE m
      BY DEF free_page, Taken
    <3> HIDE DEF m
    <3>4. m \in [Frame -> Int]
      BY <3>2 DEF m
    <3> QED
      BY <3>3, <3>4, OneCount
  <2>2. data' \in [Frame \cup {Low} -> Content]
    BY <1>1, <1>3 DEF TypeInv
  <2>3. wr' \in [Task -> Page \cup {None}]
    BY <1>1 DEF TypeInv
  <2>4. pg_table' \in [Task -> [Page -> Entry \cup {None}]]
    BY <1>1, <1>3, Numbers DEF TypeInv
  <2> QED
    BY <1>1, <2>1, <2>2, <2>3, <2>4 DEF TypeInv
<1>11. Untouched(t)
  BY <1>1 DEF Untouched, Others, SameStrings, TypeInv
<1>12. Balanced(t)
  <2> SUFFICES ASSUME NEW g \in Frame
               PROVE  mem_map'[g] + Uses(t, g) = mem_map[g] + Uses(t, g)'
    BY DEF Balanced
  <2>1. One(g = old) \in Int /\ One(g = new) \in Int
    BY DEF One
  <2> QED
    BY <1>7, <1>9, <2>1
<1>13. TakesFree(t)
  <2> SUFFICES ASSUME NEW g \in Frame, Uses(t, g) = 0, mem_map[g] # 0
               PROVE  Uses(t, g)' = 0
    BY DEF TakesFree
  <2>1. ~Maps(pg_table[t][v], g)
    BY NotUsed
  <2>2. One(g = old) = 0 /\ One(g = new) = 0
    BY <1>3, <1>4, <2>1 DEF One
  <2> QED
    BY <1>9, <2>2
<1>14. ShapeAt(t)'
  <2>1. \A x \in Page : pg_table'[t][x] # None => pg_table[t][x] # None
    BY <1>2, <1>8
  <2>2. held[t] = None
    BY <1>1 DEF ShapeAt
  <2> QED
    BY <1>1, <2>1, <2>2 DEF ShapeAt, Present, Dead
<1>15. OwnerAt(t)'
  <2>1. ASSUME NEW g \in Frame, Owns(t, g)' PROVE mem_map'[g] = 1
    <3>1. CASE g = new
      <4>1. One(g = old) = 0 /\ One(g = new) = 1
        BY <1>6, <3>1 DEF One
      <4> QED
        BY <1>3, <1>7, <3>1, <4>1
    <3>2. CASE g # new
      <4>1. Owns(t, g)
        <5>1. \A x \in Page : Maps(pg_table'[t][x], g) =>
                                x # v /\ pg_table'[t][x] = pg_table[t][x]
          BY <1>3, <1>8, <3>2, Numbers
        <5> QED
          BY <2>1, <5>1 DEF Owns
      <4>2. mem_map[g] = 1
        BY <1>1, <4>1 DEF OwnerAt
      <4>3. g # old
        BY <4>2 DEF SoleUser
      <4>4. One(g = old) = 0 /\ One(g = new) = 0
        BY <3>2, <4>3 DEF One
      <4> QED
        BY <1>7, <4>2, <4>4
    <3> QED
      BY <3>1, <3>2
  <2>2. ASSUME NEW x \in Page, Maps(pg_table'[t][x], Low) PROVE ~pg_table'[t][x].w
    <3>1. x # v
      BY <1>3, <1>8, <2>2, Numbers DEF Maps, New
    <3> QED
      BY <1>1, <1>8, <2>2, <3>1 DEF OwnerAt
  <2> QED
    BY <2>1, <2>2 DEF OwnerAt
<1> QED
  BY <1>10, <1>11, <1>12, <1>13, <1>14, <1>15, OwnStep

\* Whatever un_wp_page does, for a fault or for verify_area.
LEMMA UnWriteProtected ==
  ASSUME MemInv, NEW t \in Task, NEW v \in Page, pc[t] = "user", ReadOnly(t, v),
         un_wp_page(t, v), UNCHANGED <<task, pg_dir, executable, pc, held, page, strings>>,
         wr' = [wr EXCEPT ![t] = v] \/ wr' = wr
  PROVE  MemInv'
<1>1. CASE /\ SoleUser(pg_table[t][v].frame)
           /\ pg_table' = [pg_table EXCEPT ![t][v].w = TRUE]
           /\ UNCHANGED <<mem_map, data>>
  <2> DEFINE e == [pg_table[t][v] EXCEPT !.w = TRUE]
  <2>1. SetsEntry(t, v, e)
    BY <1>1 DEF MemInv, TypeInv, SetsEntry
  <2>2. pg_table[t][v] \in Entry
    BY DEF MemInv, TypeInv, ReadOnly
  <2>3. e \in Entry /\ e.frame = pg_table[t][v].frame
    BY <2>2 DEF Entry
  <2> HIDE DEF e
  <2> QED
    BY <1>1, <2>1, <2>3, TakenOver
<1>2. CASE /\ ~SoleUser(pg_table[t][v].frame) /\ get_free_page(mem_map) # None
           /\ mem_map' = free_page(Taken(mem_map, get_free_page(mem_map)),
                                   pg_table[t][v].frame)
           /\ data' = [data EXCEPT ![get_free_page(mem_map)] =
                         data[pg_table[t][v].frame]]
           /\ pg_table' = [pg_table EXCEPT ![t][v] = New(get_free_page(mem_map))]
  BY <1>2, Copied
<1> QED
  BY <1>1, <1>2 DEF un_wp_page

\* A write to a page that is write-protected.
LEMMA WriteFaultStep ==
  ASSUME MemInv, NEW t \in Task, NEW v \in Page, do_wp_page(t, v)
  PROVE  MemInv'
<1>1. pc[t] = "user" /\ ReadOnly(t, v)
  BY DEF do_wp_page, InUser
<1>2. CASE un_wp_page(t, v) /\ UNCHANGED <<task, pg_dir, executable, pc, held, wr, page,
                                          strings>>
  BY <1>1, <1>2, UnWriteProtected
<1>3. CASE do_exit(t, mem_map)
  BY <1>1, <1>3, PlainExit
<1> QED
  BY <1>2, <1>3 DEF do_wp_page, oom

\* verify_area makes a page private before a system call writes to it.
LEMMA VerifyStep ==
  ASSUME MemInv, NEW t \in Task, NEW v \in Page, verify_area(t, v)
  PROVE  MemInv'
<1>1. pc[t] = "user"
  BY DEF verify_area, InUser
<1>2. CASE /\ ReadOnly(t, v) /\ un_wp_page(t, v) /\ wr' = [wr EXCEPT ![t] = v]
           /\ UNCHANGED <<task, pg_dir, executable, pc, held, page, strings>>
  BY <1>1, <1>2, UnWriteProtected
<1>3. CASE do_exit(t, mem_map)
  BY <1>1, <1>3, PlainExit
<1>4. CASE /\ wr' = [wr EXCEPT ![t] = v]
           /\ UNCHANGED <<mem_map, data, task, pg_dir, pg_table, executable, pc, held, page,
                          strings>>
  <2>1. TypeInv /\ ShapeAt(t)
    BY DEF MemInv, ShapeInv
  <2>2. TypeInv'
    BY <1>4, <2>1 DEF TypeInv
  <2>3. Untouched(t)
    BY <1>4, <2>1 DEF Untouched, Others, SameStrings, TypeInv
  <2>4. ShapeAt(t)'
    BY <1>1, <1>4, <2>1 DEF ShapeAt, Present, Dead
  <2>5. OwnerAt(t)'
    BY <1>4, QuietOwner
  <2> QED
    BY <1>4, <2>2, <2>3, <2>4, <2>5, QuietStep
<1> QED
  BY <1>2, <1>3, <1>4 DEF verify_area, oom

\* A task that can neither share its page nor load it ends.
LEMMA NoPageLeft ==
  ASSUME MemInv, NEW t \in Task, NEW v \in Page, CannotShare(t, v) \/ CannotLoad(t, v)
  PROVE  MemInv'
<1>1. pc[t] \in {"user", "copy"} /\ do_exit(t, mem_map)
  BY DEF CannotShare, CannotLoad, NoPageAt, Touches, oom
<1> QED
  BY <1>1, PlainExit

-----------------------------------------------------------------------------
(* Sharing                                                                 *)

\* A frame that t owns and maps is mapped there alone.
LEMMA OwnedEntry ==
  ASSUME MemInv, NEW t \in Task, NEW f \in Frame, Owns(t, f),
         NEW v \in Page, Maps(pg_table[t][v], f)
  PROVE  /\ task[t] # f /\ ~Maps(held[t], f)
         /\ \A d \in Dir : pg_dir[t][d] # f
         /\ \A x \in Page : Maps(pg_table[t][x], f) => x = v
         /\ pg_table[t][v].w
<1> DEFINE n == Names(pg_dir[t], f)
           m == MapsTo(pg_table[t], f)
           p == One(task[t] = f)
           q == One(Maps(held[t], f))
           S == {x \in Mapped(pg_table[t]) : pg_table[t][x].frame = f}
<1>1. /\ n \in Nat /\ m \in Nat
      /\ n = 0 => \A d \in Dir : pg_dir[t][d] # f
      /\ m # 0
  BY UseCounts
<1>2. /\ p \in Nat /\ q \in Nat
      /\ p = 0 => task[t] # f
      /\ q = 0 => ~Maps(held[t], f)
  BY DEF One
<1>3. p + q + n + m = 1
  BY OwnerIsAlone DEF MemInv, Uses
<1>4. S \subseteq Page /\ IsFiniteSet(S) /\ m = Cardinality(S)
  <2>1. S \subseteq Page
    BY DEF Mapped
  <2> QED
    BY <2>1, FS_Subset, MemoryAssumption DEF MapsTo
<1>5. \A x \in Page : x \in S <=> Maps(pg_table[t][x], f)
  BY DEF Maps, Mapped
<1> HIDE DEF n, m, p, q, S
<1>6. p = 0 /\ q = 0 /\ n = 0 /\ m = 1
  BY <1>1, <1>2, <1>3
<1>7. ASSUME NEW x \in Page, Maps(pg_table[t][x], f) PROVE x = v
  <2> SUFFICES ASSUME x # v PROVE FALSE
    OBVIOUS
  <2>1. One(x \in S) + One(v \in S) <= Cardinality(S)
    BY <1>4, TwoElements
  <2>2. x \in S /\ v \in S
    BY <1>5, <1>7
  <2> QED
    BY <1>4, <1>6, <2>1, <2>2 DEF One
<1>8. pg_table[t][v].w
  BY <1>1, <1>2, <1>6, <1>7 DEF Owns
<1> QED
  BY <1>1, <1>2, <1>6, <1>7, <1>8

\* share_page takes the greatest of the tasks that can share.
LEMMA GreatestSharer ==
  ASSUME NEW t \in Task, NEW v \in Page, Sharers(t, v) # {}
  PROVE  (CHOOSE q \in Sharers(t, v) : \A r \in Sharers(t, v) : r <= q) \in Sharers(t, v)
<1>1. Sharers(t, v) \subseteq Int /\ IsFiniteSet(Sharers(t, v))
  <2>1. IsFiniteSet(Task) /\ Task \subseteq Int /\ Sharers(t, v) \subseteq Task
    BY MemoryAssumption, FS_Interval DEF Task, Sharers
  <2> QED
    BY <2>1, FS_Subset
<1>2. \E q \in Sharers(t, v) : \A r \in Sharers(t, v) : r <= q
  BY <1>1, GreatestElement
<1> QED
  BY <1>2

\* The entries of t and p for v become e, that of p, protected; n is the page
\* table of t, a new one if new says so.
CanBeShared(t, p, v, e) ==
  /\ pc[t] \in {"user", "copy"} /\ pg_table[t][v] = None /\ pg_table[p][v] # None
  /\ e.frame = pg_table[p][v].frame /\ e.frame \in Frame /\ ~e.w

TableOf(t, v, n, new) ==
  IF new THEN pg_dir[t][DirOf[v]] = None /\ mem_map[n] = 0 ELSE pg_dir[t][DirOf[v]] = n

Shares(t, p, v, e, n, new) ==
  /\ mem_map' \in [Frame -> Int]
  /\ \A g \in Frame :
       mem_map'[g] = mem_map[g] + One(g = e.frame) + One(new /\ g = n)
  /\ pg_dir' = [pg_dir EXCEPT ![t][DirOf[v]] = n]
  /\ pg_table' = [pg_table EXCEPT ![t][v] = e, ![p][v] = e]
  /\ UNCHANGED <<data, task, executable, pc, held, wr, page, strings>>

\* The entry e of p's page v is mapped by t too, the table for v being n.
LEMMA Shared ==
  ASSUME MemInv, NEW t \in Task, NEW p \in Task, p # t, NEW v \in Page,
         NEW e \in Entry, NEW n \in Frame, NEW new \in BOOLEAN,
         CanBeShared(t, p, v, e), TableOf(t, v, n, new), Shares(t, p, v, e, n, new)
  PROVE  MemInv'
<1> DEFINE dir == DirOf[v]
<1>a. /\ data' = data /\ task' = task /\ executable' = executable /\ pc' = pc
      /\ held' = held /\ wr' = wr /\ page' = page /\ strings' = strings
  BY DEF Shares
<1>b. /\ pc[t] \in {"user", "copy"} /\ pg_table[t][v] = None /\ pg_table[p][v] # None
      /\ e.frame = pg_table[p][v].frame /\ e.frame \in Frame /\ ~e.w
  BY DEF CanBeShared
<1>c. /\ new => pg_dir[t][dir] = None /\ mem_map[n] = 0
      /\ ~new => pg_dir[t][dir] = n
  BY DEF TableOf
<1>d. /\ mem_map' \in [Frame -> Int]
      /\ \A g \in Frame :
           mem_map'[g] = mem_map[g] + One(g = e.frame) + One(new /\ g = n)
  BY DEF Shares
<1>1. TypeInv /\ ShapeAt(t) /\ ShapeAt(p) /\ dir \in Dir
  BY MemoryAssumption DEF MemInv, ShapeInv
<1>2. /\ pg_dir' \in [Task -> [Dir -> Frame \cup {None}]]
      /\ pg_dir'[t][dir] = n
      /\ \A x \in Dir : x # dir => pg_dir'[t][x] = pg_dir[t][x]
      /\ \A u \in Task : u # t => pg_dir'[u] = pg_dir[u]
  <2>1. pg_dir \in [Task -> [Dir -> Frame \cup {None}]]
    BY <1>1 DEF TypeInv
  <2>2. pg_dir' = [pg_dir EXCEPT ![t][dir] = n]
    BY DEF Shares
  <2> HIDE DEF dir
  <2> QED
    BY <1>1, <2>1, <2>2
<1>3. /\ pg_table' \in [Task -> [Page -> Entry \cup {None}]]
      /\ pg_table'[t][v] = e /\ pg_table'[p][v] = e
      /\ \A x \in Page : x # v => /\ pg_table'[t][x] = pg_table[t][x]
                                  /\ pg_table'[p][x] = pg_table[p][x]
      /\ \A u \in Task : u # t /\ u # p => pg_table'[u] = pg_table[u]
  <2>1. pg_table \in [Task -> [Page -> Entry \cup {None}]]
    BY <1>1 DEF TypeInv
  <2>2. pg_table' = [pg_table EXCEPT ![t][v] = e, ![p][v] = e]
    BY DEF Shares
  <2> QED
    BY <1>1, <2>1, <2>2
<1> HIDE DEF dir
<1>4. e # None /\ n # None
  BY Numbers
<1>5. \A g \in Frame : Maps(e, g) <=> g = e.frame
  BY <1>4 DEF Maps
<1>6. Maps(pg_table[p][v], e.frame)
  BY <1>b DEF Maps
<1>7. TypeInv'
  BY <1>a, <1>d, <1>1, <1>2, <1>3 DEF TypeInv
<1>8. ASSUME NEW g \in Frame
      PROVE  /\ mem_map'[g] + Uses(t, g) = mem_map[g] + Uses(t, g)'
             /\ mem_map'[g] \in Int
  <2>1. Names(pg_dir'[t], g) = Names(pg_dir[t], g) + One(new /\ g = n)
    <3> DEFINE a == pg_dir[t]
               b == pg_dir'[t]
    <3>1. /\ \A x \in Dir \ {dir} : b[x] = a[x]
          /\ b[dir] = n /\ (new => a[dir] = None) /\ (~new => a[dir] = n)
      BY <1>c, <1>2
    <3>2. g # None
      BY Numbers
    <3> DEFINE i == One(a[dir] = g)
               j == One(b[dir] = g)
               k == One(new /\ g = n)
    <3> HIDE DEF a, b
    <3>3. /\ Names(a, g) \in Nat /\ Names(b, g) \in Nat
          /\ Names(b, g) + i = Names(a, g) + j
      BY <1>1, <3>1, NameChanges DEF One
    <3>4. j = i + k /\ i \in Int /\ k \in Int
      BY <3>1, <3>2 DEF One
    <3> HIDE DEF i, j, k
    <3>5. Names(b, g) = Names(a, g) + k
      BY <3>3, <3>4
    <3> QED
      BY <3>5 DEF a, b, k
  <2>2. MapsTo(pg_table'[t], g) = MapsTo(pg_table[t], g) + One(g = e.frame)
    <3> DEFINE a == pg_table[t]
               b == pg_table'[t]
    <3>1. (\A x \in Page \ {v} : b[x] = a[x]) /\ a[v] = None /\ b[v] = e
      BY <1>b, <1>3
    <3> HIDE DEF a, b
    <3>2. /\ MapsTo(a, g) \in Nat /\ MapsTo(b, g) \in Nat
          /\ MapsTo(b, g) + One(Maps(a[v], g)) = MapsTo(a, g) + One(Maps(b[v], g))
      BY <3>1, EntryChanges
    <3>3. One(Maps(a[v], g)) = 0 /\ One(Maps(b[v], g)) = One(g = e.frame)
      BY <1>5, <3>1 DEF One, Maps
    <3>4. MapsTo(b, g) = MapsTo(a, g) + One(g = e.frame)
      BY <3>2, <3>3
    <3> QED
      BY <3>4 DEF a, b
  <2>3. /\ Uses(t, g) = One(task[t] = g) + One(Maps(held[t], g))
                        + Names(pg_dir[t], g) + MapsTo(pg_table[t], g)
        /\ Uses(t, g)' = One(task[t] = g) + One(Maps(held[t], g))
                         + Names(pg_dir'[t], g) + MapsTo(pg_table'[t], g)
    BY <1>a DEF Uses
  <2>4. Names(pg_dir[t], g) \in Nat /\ MapsTo(pg_table[t], g) \in Nat
    BY UseCounts
  <2>5. /\ One(task[t] = g) \in Nat /\ One(Maps(held[t], g)) \in Nat
        /\ One(g = e.frame) \in Nat /\ One(new /\ g = n) \in Nat
    BY DEF One
  <2>6. mem_map'[g] = mem_map[g] + One(g = e.frame) + One(new /\ g = n)
    BY <1>d
  <2>7. mem_map[g] \in Int /\ mem_map'[g] \in Int
    BY <1>1, <1>7 DEF TypeInv
  <2> QED
    BY <2>1, <2>2, <2>3, <2>4, <2>5, <2>6, <2>7
<1>9. CountInv'
  <2>1. ASSUME NEW u \in Task \ {t}
        PROVE  /\ task'[u] = task[u] /\ held'[u] = held[u] /\ pg_dir'[u] = pg_dir[u]
               /\ \A x \in Page, f \in Frame :
                    Maps(pg_table[u][x], f) <=> Maps(pg_table'[u][x], f)
    <3>1. CASE u = p
      <4>1. \A x \in Page, f \in Frame :
              Maps(pg_table[p][x], f) <=> Maps(pg_table'[p][x], f)
        BY <1>b, <1>3, <1>4 DEF Maps
      <4> QED
        BY <1>a, <1>2, <3>1, <4>1
    <3>2. CASE u # p
      BY <1>a, <1>2, <1>3, <3>2
    <3> QED
      BY <3>1, <3>2
  <2> QED
    BY <1>8, <1>a, <2>1, CountKept DEF MemInv
<1>10. ASSUME NEW u \in Task PROVE ShapeAt(u)'
  <2>1. ShapeAt(u)
    BY DEF MemInv, ShapeInv
  <2>2. /\ pc'[u] = pc[u] /\ task'[u] = task[u] /\ held'[u] = held[u]
        /\ wr'[u] = wr[u] /\ page'[u] = page[u]
    BY <1>a
  <2>3. CASE u = t
    <3>1. \A x \in Dir : pg_dir[t][x] # None => pg_dir'[t][x] # None
      BY <1>2, <1>4
    <3>2. \A x \in Page : pg_table'[t][x] # None => pg_dir'[t][DirOf[x]] # None
      <4>1. \A x \in Page : DirOf[x] \in Dir
        BY MemoryAssumption
      <4>2. pg_dir'[t][dir] # None
        BY <1>2, <1>4
      <4>3. ASSUME NEW x \in Page, x # v, pg_table'[t][x] # None
            PROVE  pg_dir'[t][DirOf[x]] # None
        <5>1. pg_dir[t][DirOf[x]] # None
          BY <1>1, <1>3, <4>3 DEF ShapeAt
        <5> QED
          BY <3>1, <4>1, <5>1
      <4> QED
        BY <4>2, <4>3 DEF dir
    <3>3. Present(t)' # {}
      BY <1>1, <1>2, <1>4 DEF Present
    <3>4. held[t] = None /\ task[t] # None
      BY <1>b, <1>1 DEF ShapeAt
    <3>5. pc'[t] = pc[t] /\ pc[t] \in {"user", "copy"}
      BY <1>b, <2>2, <2>3
    <3> QED
      BY <1>1, <2>2, <2>3, <3>2, <3>3, <3>4, <3>5 DEF ShapeAt, Dead
  <2>4. CASE u = p
    <3>1. \A x \in Page : (pg_table'[p][x] # None) <=> (pg_table[p][x] # None)
      BY <1>b, <1>3, <1>4
    <3>2. pg_dir'[p] = pg_dir[p] /\ Present(p)' = Present(p)
      BY <1>1, <1>2 DEF Present
    <3>3. pg_table[p] # NoPage
      BY <1>b DEF NoPage
    <3>4. pc[p] \notin Dead
      BY <1>1, <3>3 DEF ShapeAt
    <3>5. held[p] # None => held[p].page \in Page
      BY <1>1 DEF TypeInv, Hold
    <3>6. /\ pc'[p] = pc[p] /\ task'[p] = task[p] /\ held'[p] = held[p]
          /\ wr'[p] = wr[p] /\ page'[p] = page[p]
      BY <2>2, <2>4
    <3>7. pc[p] = "load" => pg_table'[p][held[p].page] = None
      BY <1>1, <3>1, <3>5 DEF ShapeAt
    <3> QED
      BY <1>1, <2>4, <3>1, <3>2, <3>4, <3>6, <3>7 DEF ShapeAt
  <2>5. CASE u # t /\ u # p
    <3>1. pg_dir'[u] = pg_dir[u] /\ pg_table'[u] = pg_table[u]
      BY <1>2, <1>3, <2>5
    <3> QED
      BY <2>1, <2>2, <3>1 DEF ShapeAt, Present
  <2> QED
    BY <2>3, <2>4, <2>5
<1>11. ASSUME NEW u \in Task, NEW g \in Frame, Owns(u, g)' PROVE mem_map'[g] = 1
  <2>1. Owns(u, g) \/ (u = t /\ new /\ g = n)
    <3>1. \A x \in Page : Maps(pg_table'[u][x], g) /\ pg_table'[u][x].w =>
                            pg_table'[u][x] = pg_table[u][x]
      BY <1>b, <1>1, <1>3
    <3>2. \A d \in Dir : pg_dir'[u][d] = g =>
                            pg_dir[u][d] = g \/ (u = t /\ new /\ g = n)
      BY <1>c, <1>1, <1>2
    <3>3. task'[u] = task[u] /\ held'[u] = held[u]
      BY <1>a
    <3> QED
      BY <1>11, <3>1, <3>2, <3>3 DEF Owns
  <2>2. CASE u = t /\ new /\ g = n /\ g # e.frame
    <3>1. One(g = e.frame) = 0 /\ One(new /\ g = n) = 1
      BY <2>2 DEF One
    <3> QED
      BY <1>c, <1>d, <2>2, <3>1
  <2>3. CASE new /\ g = n /\ g = e.frame
    <3>1. Uses(p, g) = 0
      BY <1>c, <2>3, FreeIsNotUsed
    <3> QED
      BY <1>1, <1>6, <2>3, <3>1, NotUsed
  <2>4. CASE Owns(u, g)
    <3>1. mem_map[g] = 1 /\ \A w \in Task \ {u} : Uses(w, g) = 0
      BY <2>4, OwnerIsAlone DEF MemInv
    <3>2. g # e.frame
      <4> SUFFICES ASSUME g = e.frame PROVE FALSE
        OBVIOUS
      <4>1. CASE u # p
        BY <1>1, <1>6, <3>1, <4>1, NotUsed
      <4>2. CASE u = p
        <5>1. /\ task[p] # g /\ ~Maps(held[p], g) /\ \A d \in Dir : pg_dir[p][d] # g
              /\ \A x \in Page : Maps(pg_table[p][x], g) => x = v
          BY <1>1, <1>6, <2>4, <4>2, OwnedEntry
        <5>2. \A x \in Page : ~(Maps(pg_table'[p][x], g) /\ pg_table'[p][x].w)
          BY <1>b, <1>3, <5>1
        <5>3. pg_dir'[p] = pg_dir[p]
          BY <1>2
        <5>4. task'[p] = task[p] /\ held'[p] = held[p]
          BY <1>a
        <5> QED
          BY <1>11, <4>2, <5>1, <5>2, <5>3, <5>4 DEF Owns
      <4> QED
        BY <4>1, <4>2
    <3>3. ~(new /\ g = n)
      BY <1>c, <3>1
    <3>4. One(g = e.frame) = 0 /\ One(new /\ g = n) = 0
      BY <3>2, <3>3 DEF One
    <3> QED
      BY <1>d, <3>1, <3>4
  <2> QED
    BY <2>1, <2>2, <2>3, <2>4
<1>12. ASSUME NEW u \in Task, NEW x \in Page, Maps(pg_table'[u][x], Low)
       PROVE  ~pg_table'[u][x].w
  <2>1. OwnerAt(u)
    BY DEF MemInv, OwnerInv
  <2>2. CASE pg_table'[u][x] = pg_table[u][x]
    BY <1>12, <2>1, <2>2 DEF OwnerAt
  <2>3. CASE pg_table'[u][x] # pg_table[u][x]
    BY <1>b, <1>3, <2>3
  <2> QED
    BY <2>2, <2>3
<1>13. StringsInv'
  <2>1. ASSUME NEW f \in strings PROVE mem_map'[f] = 1
    <3>1. /\ f \in Frame /\ mem_map[f] = 1 /\ Uses(p, f) = 0
      BY StringsApart
    <3>2. f # e.frame
      BY <1>1, <1>6, <3>1, NotUsed
    <3>3. ~(new /\ f = n)
      BY <1>c, <3>1
    <3>4. One(f = e.frame) = 0 /\ One(new /\ f = n) = 0
      BY <3>2, <3>3 DEF One
    <3> QED
      BY <1>d, <3>1, <3>4
  <2>2. SameStrings(t)
    BY <1>a DEF SameStrings
  <2> QED
    BY <2>1, <2>2, StringsKept DEF MemInv
<1> QED
  BY <1>7, <1>9, <1>10, <1>11, <1>12, <1>13 DEF MemInv, ShapeInv, OwnerInv, OwnerAt

\* A fault on a page of the program maps another task's page for good.
LEMMA SharePageStep ==
  ASSUME MemInv, NEW t \in Task, NEW v \in Page, SharePage(t, v)
  PROVE  MemInv'
<1> DEFINE sharers == Sharers(t, v)
           p == CHOOSE q \in sharers : \A r \in sharers : r <= q
           e == Protected(pg_table[p][v])
           map == [mem_map EXCEPT ![e.frame] = @ + 1]
           new == pg_dir[t][DirOf[v]] = None
           n == TableFor(t, v, map)
           m == get_free_page(map)
<1>1. TypeInv
  BY DEF MemInv
<1>2. /\ pc[t] \in {"user", "copy"} /\ pg_table[t][v] = None
      /\ sharers # {} /\ TableFor(t, v, mem_map) # None
      /\ mem_map' = IF pg_dir[t][DirOf[v]] # None THEN map ELSE Taken(map, m)
      /\ pg_dir' = [pg_dir EXCEPT ![t][DirOf[v]] = n]
      /\ pg_table' = [pg_table EXCEPT ![t][v] = e, ![p][v] = e]
      /\ UNCHANGED <<data, task, executable, pc, held, wr, page, strings>>
  BY DEF SharePage, NoPageAt, Touches
<1>3. p \in sharers
  BY <1>2, GreatestSharer
<1>4. p \in Task /\ p # t /\ pg_table[p][v] # None /\ pg_table[p][v].frame # Low
  BY <1>3 DEF Sharers
<1>5. pg_table[p][v] \in Entry
  BY <1>1, <1>4 DEF TypeInv
<1> HIDE DEF sharers, p
<1>6. /\ e \in Entry /\ e.frame = pg_table[p][v].frame /\ ~e.w /\ e.frame \in Frame
  BY <1>4, <1>5 DEF Protected, Entry
<1> HIDE DEF e
<1>7. mem_map[e.frame] \in Int /\ mem_map[e.frame] # 0 /\ mem_map[e.frame] + 1 # 0
  <2>1. Maps(pg_table[p][v], e.frame)
    BY <1>4, <1>6 DEF Maps
  <2>2. mem_map[e.frame] # 0
    BY <1>4, <1>6, <2>1, FreeIsNotUsed, NotUsed
  <2>3. mem_map[e.frame] \in Nat
    BY <1>4, <1>6, UseIsCounted DEF MemInv
  <2> QED
    BY <2>2, <2>3
<1>8. ASSUME NEW g \in Frame
      PROVE  /\ map[g] = mem_map[g] + One(g = e.frame) /\ map[g] \in Int
             /\ map[g] = 0 <=> mem_map[g] = 0
  <2>1. mem_map[g] \in Int
    BY <1>1 DEF TypeInv
  <2>2. map[g] = IF g = e.frame THEN mem_map[g] + 1 ELSE mem_map[g]
    BY <1>1, <1>6 DEF TypeInv
  <2> HIDE DEF map
  <2> QED
    BY <1>7, <2>1, <2>2 DEF One
<1>9. map \in [Frame -> Int]
  <2>1. mem_map \in [Frame -> Int]
    BY <1>1 DEF TypeInv
  <2> QED
    BY <1>6, <1>7, <2>1, OneCount
<1> HIDE DEF map
<1>10. m = get_free_page(mem_map)
  <2>1. FreePages(map) = FreePages(mem_map)
    BY <1>8 DEF FreePages
  <2> QED
    BY <2>1 DEF get_free_page
<1>11. n = TableFor(t, v, mem_map)
  BY <1>10 DEF TableFor
<1>12. /\ n \in Frame
       /\ new => n = m /\ mem_map[n] = 0
       /\ ~new => n = pg_dir[t][DirOf[v]]
  <2>1. DirOf[v] \in Dir
    BY MemoryAssumption
  <2>2. CASE new
    <3>1. n = get_free_page(mem_map) /\ n # None /\ n = m
      BY <1>2, <1>10, <1>11, <2>2 DEF TableFor
    <3> HIDE DEF n, new, m
    <3>2. n \in Frame /\ mem_map[n] = 0
      BY <3>1, FreePage
    <3> QED
      BY <2>2, <3>1, <3>2
  <2>3. CASE ~new
    <3>1. n = pg_dir[t][DirOf[v]]
      BY <2>3 DEF TableFor
    <3>2. n \in Frame
      BY <1>1, <2>1, <2>3, <3>1 DEF TypeInv
    <3> QED
      BY <2>3, <3>1, <3>2
  <2> QED
    BY <2>2, <2>3
<1>13. mem_map' = IF new THEN [map EXCEPT ![m] = 1] ELSE map
  BY <1>2 DEF Taken
<1>14. CanBeShared(t, p, v, e)
  BY <1>2, <1>4, <1>6 DEF CanBeShared
<1>15. TableOf(t, v, n, new)
  BY <1>12 DEF TableOf
<1> HIDE DEF n, new, m
<1>16. ASSUME NEW g \in Frame
       PROVE  mem_map'[g] = mem_map[g] + One(g = e.frame) + One(new /\ g = n)
  <2>1. mem_map[g] \in Int
    BY <1>1 DEF TypeInv
  <2>2. CASE new
    <3>1. n \in Frame /\ n = m /\ mem_map[n] = 0
      BY <1>12, <2>2
    <3>2. mem_map' = [map EXCEPT ![n] = 1]
      BY <1>13, <2>2, <3>1
    <3>3. CASE g = n
      <4>1. mem_map'[g] = 1 /\ g # e.frame /\ mem_map[g] = 0
        BY <1>7, <1>9, <3>1, <3>2, <3>3
      <4> QED
        BY <2>2, <3>3, <4>1 DEF One
    <3>4. CASE g # n
      <4>1. mem_map'[g] = map[g]
        BY <1>9, <3>1, <3>2, <3>4
      <4> QED
        BY <1>8, <2>1, <2>2, <3>4, <4>1 DEF One
    <3> QED
      BY <3>3, <3>4
  <2>3. CASE ~new
    <3>1. mem_map'[g] = map[g]
      BY <1>13, <2>3
    <3> QED
      BY <1>8, <2>1, <2>3, <3>1 DEF One
  <2> QED
    BY <2>2, <2>3
<1>17. mem_map' \in [Frame -> Int]
  <2>1. CASE new
    <3>1. mem_map' = [map EXCEPT ![n] = 1] /\ n \in Frame
      BY <1>12, <1>13, <2>1
    <3> QED
      BY <1>9, <3>1, OneCount
  <2>2. CASE ~new
    BY <1>9, <1>13, <2>2
  <2> QED
    BY <2>1, <2>2
<1>18. Shares(t, p, v, e, n, new)
  BY <1>2, <1>16, <1>17 DEF Shares
<1>19. new \in BOOLEAN
  BY DEF new
<1> QED
  BY <1>4, <1>6, <1>12, <1>14, <1>15, <1>18, <1>19, Shared

-----------------------------------------------------------------------------
(* Exec                                                                    *)

\* A task that lives has a page table: when its pages are freed there is a page
\* for the table of the new stack, which exec does not make sure of.
LEMMA TableIsFreed ==
  ASSUME MemInv, NEW t \in Task, pc[t] \notin Dead
  PROVE  get_free_page(free_page_tables(mem_map, pg_dir[t], pg_table[t])) \in Frame
<1> DEFINE freed == free_page_tables(mem_map, pg_dir[t], pg_table[t])
<1>1. PICK d \in Dir : pg_dir[t][d] # None
  BY DEF MemInv, ShapeInv, ShapeAt, Present
<1> DEFINE f == pg_dir[t][d]
<1>2. f \in Frame /\ Owns(t, f)
  BY <1>1 DEF MemInv, TypeInv, Owns
<1>3. mem_map[f] = 1 /\ Uses(t, f) = 1
  BY <1>2, OwnerIsAlone DEF MemInv
<1>4. Names(pg_dir[t], f) # 0
  BY UseCounts
<1>5. Names(pg_dir[t], f) + MapsTo(pg_table[t], f) = 1
  <2>1. One(task[t] = f) \in Nat /\ One(Maps(held[t], f)) \in Nat
    BY DEF One
  <2>2. Names(pg_dir[t], f) \in Nat /\ MapsTo(pg_table[t], f) \in Nat
    BY UseCounts
  <2>3. Uses(t, f) = One(task[t] = f) + One(Maps(held[t], f))
                     + Names(pg_dir[t], f) + MapsTo(pg_table[t], f)
    BY DEF Uses
  <2> QED
    BY <1>3, <1>4, <2>1, <2>2, <2>3
<1>6. freed[f] = mem_map[f] - MapsTo(pg_table[t], f) - Names(pg_dir[t], f)
  BY <1>2 DEF free_page_tables
<1>7. MapsTo(pg_table[t], f) \in Nat /\ Names(pg_dir[t], f) \in Nat
  BY UseCounts
<1> HIDE DEF f, freed
<1>8. freed[f] = 0
  BY <1>3, <1>5, <1>6, <1>7
<1>9. FreePages(freed) # {}
  BY <1>2, <1>8 DEF FreePages
<1>10. get_free_page(freed) \in Frame
  BY <1>9, FreePage
<1> QED
  BY <1>10 DEF freed

\* t has tables, which it gives back before it takes one for the stack: there
\* is a free page.
LEMMA ChangeProgramStep ==
  ASSUME MemInv, NEW t \in Task, ChangeProgram(t)
  PROVE  MemInv'
<1> DEFINE h == held[t]
           freed == free_page_tables(mem_map, pg_dir[t], pg_table[t])
           table == get_free_page(freed)
           e == [New(h.frame) EXCEPT !.dirty = TRUE]
           newdir == [NoDir EXCEPT ![DirOf[Stack]] = table]
           newtable == [NoPage EXCEPT ![Stack] = e]
<1>1. TypeInv /\ ShapeAt(t) /\ OwnerAt(t)
  BY DEF MemInv, ShapeInv, OwnerInv
<1>2. /\ pc[t] = "close"
      /\ mem_map' = IF table = None THEN freed ELSE Taken(freed, table)
      /\ pg_dir' = [pg_dir EXCEPT ![t] = newdir]
      /\ pg_table' = [pg_table EXCEPT ![t] = IF table = None THEN NoPage ELSE newtable]
      /\ pc' = [pc EXCEPT ![t] = "user"]
      /\ held' = [held EXCEPT ![t] = None]
      /\ data' = data /\ task' = task /\ executable' = executable /\ wr' = wr
      /\ page' = page /\ strings' = strings
  BY DEF ChangeProgram
<1>3. h \in Hold /\ h # None /\ h.page = Stack /\ h.frame \in Frame
      /\ wr[t] = None /\ page[t] = None /\ Present(t) # {}
  BY <1>1, <1>2 DEF ShapeAt, TypeInv, Dead, Hold
<1>4. Stack \in Page /\ DirOf[Stack] \in Dir
  BY MemoryAssumption
<1>5. ASSUME NEW g \in Frame
      PROVE  /\ freed[g] = mem_map[g] - MapsTo(pg_table[t], g) - Names(pg_dir[t], g)
             /\ freed[g] \in Int /\ mem_map[g] \in Int
             /\ MapsTo(pg_table[t], g) \in Nat /\ Names(pg_dir[t], g) \in Nat
  <2>1. mem_map[g] \in Int
    BY <1>1 DEF TypeInv
  <2>2. MapsTo(pg_table[t], g) \in Nat /\ Names(pg_dir[t], g) \in Nat
    BY UseCounts
  <2>3. freed[g] = mem_map[g] - MapsTo(pg_table[t], g) - Names(pg_dir[t], g)
    BY DEF free_page_tables
  <2> HIDE DEF freed
  <2> QED
    BY <2>1, <2>2, <2>3
<1>6. freed \in [Frame -> Int]
  <2>1. freed = [g \in Frame |-> mem_map[g] - MapsTo(pg_table[t], g)
                                            - Names(pg_dir[t], g)]
    BY DEF free_page_tables
  <2>2. \A g \in Frame : freed[g] \in Int
    BY <1>5
  <2> HIDE DEF freed
  <2> QED
    BY <2>1, <2>2
<1> HIDE DEF freed, h
<1>7. Maps(held[t], h.frame)
  BY <1>3 DEF Maps, h
<1>8. mem_map[h.frame] = 1 /\ MapsTo(pg_table[t], h.frame) = 0
      /\ Names(pg_dir[t], h.frame) = 0 /\ task[t] # h.frame
  <2> DEFINE q == One(task[t] = h.frame)
  <2>1. Owns(t, h.frame)
    BY <1>7 DEF Owns
  <2>2. mem_map[h.frame] = 1 /\ Uses(t, h.frame) = 1
    BY <1>3, <2>1, OwnerIsAlone DEF MemInv
  <2>3. One(Maps(held[t], h.frame)) = 1 /\ q \in Nat /\ (q = 0 => task[t] # h.frame)
    BY <1>7 DEF One
  <2>4. Uses(t, h.frame) = q + One(Maps(held[t], h.frame))
                           + Names(pg_dir[t], h.frame) + MapsTo(pg_table[t], h.frame)
    BY DEF Uses
  <2> HIDE DEF q
  <2> QED
    BY <1>3, <1>5, <2>2, <2>3, <2>4
<1>9. table \in Frame /\ freed[table] = 0
  <2>1. table \in Frame
    BY <1>2, TableIsFreed DEF freed, Dead
  <2>2. get_free_page(freed) # None
    BY <2>1, Numbers
  <2> QED
    BY <2>1, <2>2, FreePage
<1> HIDE DEF table
<1>10. table # None /\ table # h.frame
  <2>1. freed[h.frame] = 1
    BY <1>3, <1>5, <1>8
  <2>2. freed[table] # freed[h.frame]
    BY <1>9, <2>1
  <2> QED
    BY <1>9, <2>2, Numbers
<1>11. e \in Entry /\ e.frame = h.frame /\ e # None
  <2>1. New(h.frame) \in Entry /\ New(h.frame).frame = h.frame
    BY <1>3, Numbers DEF Maps
  <2>2. e \in Entry /\ e.frame = h.frame
    BY <2>1 DEF Entry
  <2> HIDE DEF e
  <2> QED
    BY <2>2, Numbers
<1> HIDE DEF e
<1>12. /\ newdir \in [Dir -> Frame \cup {None}] /\ newdir[DirOf[Stack]] = table
       /\ \A d \in Dir : d # DirOf[Stack] => newdir[d] = None
       /\ newtable \in [Page -> Entry \cup {None}] /\ newtable[Stack] = e
       /\ \A x \in Page : x # Stack => newtable[x] = None
  BY <1>4, <1>9, <1>11 DEF NoDir, NoPage
<1> HIDE DEF newdir, newtable
<1>13. /\ pg_dir'[t] = newdir /\ pg_table'[t] = newtable /\ pc'[t] = "user"
       /\ held'[t] = None /\ wr'[t] = None /\ page'[t] = None
       /\ task'[t] = task[t]
  BY <1>1, <1>2, <1>3, <1>10 DEF TypeInv
<1>14. mem_map' = [freed EXCEPT ![table] = 1]
  BY <1>2, <1>10 DEF Taken
<1>15. ASSUME NEW g \in Frame
       PROVE  mem_map'[g] = freed[g] + One(g = table) /\ mem_map'[g] \in Int
  BY <1>5, <1>6, <1>9, <1>14 DEF One
<1>16. TypeInv'
  <2>1. mem_map' \in [Frame -> Int]
    BY <1>6, <1>9, <1>14, OneCount
  <2>2. pg_dir' \in [Task -> [Dir -> Frame \cup {None}]]
    BY <1>1, <1>2, <1>12 DEF TypeInv
  <2>3. pg_table' \in [Task -> [Page -> Entry \cup {None}]]
    BY <1>1, <1>2, <1>10, <1>12 DEF TypeInv
  <2> QED
    BY <1>1, <1>2, <2>1, <2>2, <2>3 DEF TypeInv
<1>17. Untouched(t)
  BY <1>1, <1>2 DEF Untouched, Others, SameStrings, TypeInv
<1>18. ASSUME NEW g \in Frame
       PROVE  /\ Names(newdir, g) = One(g = table)
              /\ MapsTo(newtable, g) = One(g = h.frame)
  <2>1. /\ Names(newdir, g) = IF newdir[DirOf[Stack]] = g THEN 1 ELSE 0
        /\ MapsTo(newtable, g) = IF Maps(newtable[Stack], g) THEN 1 ELSE 0
    BY <1>4, <1>12, SingleUse, Numbers
  <2>2. Maps(newtable[Stack], g) <=> g = h.frame
    BY <1>11, <1>12 DEF Maps
  <2> QED
    BY <1>12, <2>1, <2>2 DEF One
<1>19. ASSUME NEW g \in Frame
       PROVE  /\ mem_map'[g] + Uses(t, g) = mem_map[g] + Uses(t, g)'
              /\ Uses(t, g)' = One(task[t] = g) + One(g = table) + One(g = h.frame)
  <2> DEFINE q == One(task[t] = g)
             r == One(Maps(held[t], g))
             i == One(g = table)
             j == One(g = h.frame)
  <2>1. One(Maps(held'[t], g)) = 0 /\ r = j
    BY <1>3, <1>13 DEF One, Maps, h
  <2>2. q \in Nat /\ r \in Nat /\ i \in Nat /\ j \in Nat
    BY DEF One
  <2>3. /\ Uses(t, g) = q + r + Names(pg_dir[t], g) + MapsTo(pg_table[t], g)
        /\ Uses(t, g)' = q + 0 + i + j
    BY <1>13, <1>18, <2>1 DEF Uses
  <2>4. mem_map'[g] = freed[g] + i
    BY <1>15
  <2> HIDE DEF q, r, i, j
  <2>5. Uses(t, g)' = q + i + j /\ mem_map'[g] + Uses(t, g) = mem_map[g] + Uses(t, g)'
    BY <1>5, <2>1, <2>2, <2>3, <2>4
  <2> QED
    BY <2>5 DEF q, i, j
<1>20. Balanced(t)
  BY <1>19 DEF Balanced
<1>21. TakesFree(t)
  <2> SUFFICES ASSUME NEW g \in Frame, Uses(t, g) = 0, mem_map[g] # 0
               PROVE  Uses(t, g)' = 0
    BY DEF TakesFree
  <2>1. task[t] # g /\ ~Maps(held[t], g)
    BY NotUsed
  <2>2. Names(pg_dir[t], g) = 0 /\ MapsTo(pg_table[t], g) = 0
    BY NotUsed, UseCounts
  <2>3. freed[g] = mem_map[g]
    BY <1>5, <2>2
  <2>4. g # table /\ g # h.frame
    BY <1>7, <1>9, <2>1, <2>3
  <2>5. One(task[t] = g) = 0 /\ One(g = table) = 0 /\ One(g = h.frame) = 0
    BY <2>1, <2>4 DEF One
  <2>6. Uses(t, g)' = One(task[t] = g) + One(g = table) + One(g = h.frame)
    BY <1>19
  <2> QED
    BY <2>5, <2>6
<1>22. ShapeAt(t)'
  <2>1. Present(t)' # {}
    BY <1>4, <1>10, <1>12, <1>13 DEF Present
  <2>2. \A x \in Page : pg_table'[t][x] # None => pg_dir'[t][DirOf[x]] # None
    BY <1>10, <1>12, <1>13
  <2>3. task[t] # None
    BY <1>1, <1>2 DEF ShapeAt
  <2> QED
    BY <1>13, <2>1, <2>2, <2>3 DEF ShapeAt, Dead
<1>23. OwnerAt(t)'
  <2>1. ASSUME NEW g \in Frame, Owns(t, g)' PROVE mem_map'[g] = 1
    <3>1. task[t] = g \/ g = table \/ g = h.frame
      BY <1>11, <1>12, <1>13, <2>1, Numbers DEF Owns, Maps
    <3>2. CASE g = table
      BY <1>5, <1>9, <1>15, <3>2 DEF One
    <3>3. CASE g = h.frame
      <4>1. freed[g] = 1 /\ One(g = table) = 0
        BY <1>5, <1>8, <1>10, <3>3 DEF One
      <4> QED
        BY <1>15, <4>1
    <3>4. CASE task[t] = g /\ g # table
      <4>1. mem_map[g] = 1 /\ Uses(t, g) = 1
        BY <3>4, OwnerIsAlone DEF MemInv, Owns
      <4>2. One(task[t] = g) = 1 /\ One(Maps(held[t], g)) \in Nat
        BY <3>4 DEF One
      <4>3. Names(pg_dir[t], g) = 0 /\ MapsTo(pg_table[t], g) = 0
        BY <1>5, <4>1, <4>2 DEF Uses
      <4>4. freed[g] = 1 /\ One(g = table) = 0
        BY <1>5, <3>4, <4>1, <4>3 DEF One
      <4> QED
        BY <1>15, <4>4
    <3> QED
      BY <3>1, <3>2, <3>3, <3>4
  <2>2. \A x \in Page : ~Maps(pg_table'[t][x], Low)
    BY <1>3, <1>11, <1>12, <1>13, Numbers DEF Maps
  <2> QED
    BY <2>1, <2>2 DEF OwnerAt
<1> QED
  BY <1>16, <1>17, <1>20, <1>21, <1>22, <1>23, OwnStep

-----------------------------------------------------------------------------
(* Fork                                                                    *)

\* The n-th free page is a free page.
LEMMA NthIsFree ==
  ASSUME NEW map, NEW k \in 1 .. Cardinality(FreePages(map))
  PROVE  /\ NthFree(map, k) \in FreePages(map)
         /\ Cardinality({g \in FreePages(map) : g >= NthFree(map, k)}) = k
<1>1. FreePages(map) \subseteq Int /\ IsFiniteSet(FreePages(map))
  <2>1. IsFiniteSet(Frame) /\ FreePages(map) \subseteq Frame /\ Frame \subseteq Int
    BY MemoryAssumption, FS_Interval DEF FreePages, Frame
  <2> QED
    BY <2>1, FS_Subset
<1>2. \E f \in FreePages(map) : Cardinality({g \in FreePages(map) : g >= f}) = k
  BY <1>1, RankExists
<1> QED
  BY <1>2 DEF NthFree

\* The place of d among the directory entries dirs.
Rank(dirs, d) == Cardinality({e \in dirs : e <= d})

\* The page tables that a fork takes for dirs are different free pages.
LEMMA NewTables ==
  ASSUME NEW map, NEW dirs, dirs \subseteq Dir,
         \A d \in dirs : Rank(dirs, d) <= Cardinality(FreePages(map)),
         NEW dir,
         dir = [d \in Dir |-> IF d \in dirs THEN NthFree(map, Rank(dirs, d)) ELSE None]
  PROVE  /\ dir \in [Dir -> Frame \cup {None}]
         /\ \A d \in Dir : d \notin dirs => dir[d] = None
         /\ \A d \in dirs : dir[d] \in Frame /\ map[dir[d]] = 0
         /\ \A f \in Frame : Names(dir, f) \in {0, 1}
         /\ \A f \in Frame : map[f] # 0 => Names(dir, f) = 0
<1>1. IsFiniteSet(dirs) /\ dirs \subseteq Int
  BY MemoryAssumption, FS_Subset
<1>2. ASSUME NEW d \in dirs PROVE Rank(dirs, d) \in 1 .. Cardinality(FreePages(map))
  <2> DEFINE S == {e \in dirs : e <= d}
  <2>1. IsFiniteSet(S) /\ d \in S
    BY <1>1, FS_Subset
  <2>2. Cardinality(S) \in Nat /\ Cardinality(S) # 0
    BY <2>1, FS_CardinalityType, FS_EmptySet
  <2>3. Cardinality(FreePages(map)) \in Nat
    <3>1. IsFiniteSet(FreePages(map))
      <4>1. IsFiniteSet(Frame)
        BY MemoryAssumption, FS_Interval DEF Frame
      <4>2. FreePages(map) \subseteq Frame
        BY DEF FreePages
      <4> QED
        BY <4>1, <4>2, FS_Subset
    <3> QED
      BY <3>1, FS_CardinalityType
  <2>4. Cardinality(S) <= Cardinality(FreePages(map)) /\ Rank(dirs, d) = Cardinality(S)
    BY DEF Rank
  <2> HIDE DEF S
  <2> QED
    BY <2>2, <2>3, <2>4
<1>3. ASSUME NEW d \in dirs
      PROVE  /\ dir[d] \in FreePages(map)
             /\ Cardinality({g \in FreePages(map) : g >= dir[d]}) = Rank(dirs, d)
  <2>1. dir[d] = NthFree(map, Rank(dirs, d))
    OBVIOUS
  <2> QED
    BY <1>2, <2>1, NthIsFree
<1>4. ASSUME NEW d \in dirs, NEW e \in dirs, dir[d] = dir[e] PROVE d = e
  <2>1. Rank(dirs, d) = Rank(dirs, e)
    BY <1>3, <1>4
  <2> QED
    BY <1>1, <2>1, RanksBelowDiffer DEF Rank
<1>5. /\ \A d \in Dir : d \notin dirs => dir[d] = None
      /\ \A d \in dirs : dir[d] \in Frame /\ map[dir[d]] = 0
  BY <1>3 DEF FreePages
<1>6. dir \in [Dir -> Frame \cup {None}]
  BY <1>5
<1>7. ASSUME NEW f \in Frame
      PROVE  Names(dir, f) \in {0, 1} /\ (map[f] # 0 => Names(dir, f) = 0)
  <2>1. CASE \A d \in Dir : dir[d] # f
    BY <2>1, UseCounts
  <2>2. CASE \E d \in Dir : dir[d] = f
    <3>1. PICK d \in Dir : dir[d] = f
      BY <2>2
    <3>2. \A e \in Dir : dir[e] = f => e \in dirs
      BY <1>5, Numbers
    <3>3. {e \in Dir : dir[e] = f} = {d}
      BY <1>4, <3>1, <3>2
    <3>4. Names(dir, f) = 1
      BY <3>3, FS_Singleton DEF Names
    <3>5. map[f] = 0
      BY <1>5, <3>1, <3>2
    <3> QED
      BY <3>4, <3>5
  <2> QED
    BY <2>1, <2>2
<1> QED
  BY <1>5, <1>6, <1>7

\* The directory entries that copy_page_tables comes to have a free page each.
LEMMA FirstDirsFit ==
  ASSUME TypeInv, NEW t \in Task, NEW map, NEW dirs,
         dirs = FirstDirs(t, Cardinality(FreePages(map)))
  PROVE  /\ dirs \subseteq Present(t) /\ dirs \subseteq Dir
         /\ \A d \in dirs : Rank(dirs, d) <= Cardinality(FreePages(map))
<1>1. dirs \subseteq Present(t) /\ dirs \subseteq Dir
  BY DEF FirstDirs, Present
<1>2. ASSUME NEW d \in dirs PROVE Rank(dirs, d) <= Cardinality(FreePages(map))
  <2> DEFINE S == {e \in dirs : e <= d}
             T == {e \in Present(t) : e <= d}
  <2>1. Cardinality(T) <= Cardinality(FreePages(map))
    BY DEF FirstDirs, Present
  <2>2. S \subseteq T /\ IsFiniteSet(T)
    <3>1. IsFiniteSet(Present(t))
      BY MemoryAssumption, FS_Subset DEF Present
    <3> QED
      BY <1>1, <3>1, FS_Subset
  <2>3. IsFiniteSet(S) /\ Cardinality(S) <= Cardinality(T)
    BY <2>2, FS_Subset
  <2>4. Cardinality(S) \in Nat /\ Cardinality(T) \in Nat
    BY <2>2, <2>3, FS_CardinalityType
  <2>5. Cardinality(FreePages(map)) \in Nat
    <3>1. IsFiniteSet(FreePages(map))
      BY MemoryAssumption, FS_Interval, FS_Subset DEF FreePages, Frame
    <3> QED
      BY <3>1, FS_CardinalityType
  <2>6. Rank(dirs, d) = Cardinality(S)
    BY DEF Rank
  <2> HIDE DEF S, T
  <2> QED
    BY <2>1, <2>3, <2>4, <2>5, <2>6
<1> QED
  BY <1>1, <1>2

\* The child maps what the parent maps, and can write to none of it; nor can
\* the parent, but for the kernel's pages.
LEMMA ForkedTables ==
  ASSUME TypeInv, NEW t \in Task, NEW dirs
  PROVE  /\ ChildTable(t, dirs) \in [Page -> Entry \cup {None}]
         /\ ParentTable(t, dirs) \in [Page -> Entry \cup {None}]
         /\ \A v \in Page : ChildTable(t, dirs)[v] # None =>
              /\ v \in CopiedIn(t, dirs) /\ ~ChildTable(t, dirs)[v].w
              /\ ChildTable(t, dirs)[v].frame = pg_table[t][v].frame
         /\ \A v \in Page : (ParentTable(t, dirs)[v] # None) <=> (pg_table[t][v] # None)
         /\ \A v \in Page : pg_table[t][v] # None =>
              /\ ParentTable(t, dirs)[v].frame = pg_table[t][v].frame
              /\ ParentTable(t, dirs)[v].w => pg_table[t][v].w
              /\ v \in CopiedIn(t, dirs) /\ pg_table[t][v].frame # Low =>
                   ~ParentTable(t, dirs)[v].w
<1>1. \A v \in Page : pg_table[t][v] \in Entry \cup {None}
  BY DEF TypeInv
<1>2. ASSUME NEW e \in Entry
      PROVE  /\ Protected(e) \in Entry /\ Protected(e).frame = e.frame /\ ~Protected(e).w
             /\ Protected(e) # None
  <2>1. Protected(e) \in Entry /\ Protected(e).frame = e.frame /\ ~Protected(e).w
    BY DEF Protected, Entry
  <2> QED
    BY <2>1, Numbers
<1>3. \A v \in CopiedIn(t, dirs) : v \in Page /\ pg_table[t][v] \in Entry
  BY <1>1 DEF CopiedIn, Mapped
<1>4. ASSUME NEW v \in Page
      PROVE  /\ ChildTable(t, dirs)[v] \in Entry \cup {None}
             /\ ChildTable(t, dirs)[v] # None =>
                  /\ v \in CopiedIn(t, dirs) /\ ~ChildTable(t, dirs)[v].w
                  /\ ChildTable(t, dirs)[v].frame = pg_table[t][v].frame
  BY <1>2, <1>3 DEF ChildTable
<1>5. ASSUME NEW v \in Page
      PROVE  /\ ParentTable(t, dirs)[v] \in Entry \cup {None}
             /\ (ParentTable(t, dirs)[v] # None) <=> (pg_table[t][v] # None)
             /\ pg_table[t][v] # None =>
                  /\ ParentTable(t, dirs)[v].frame = pg_table[t][v].frame
                  /\ ParentTable(t, dirs)[v].w => pg_table[t][v].w
                  /\ v \in CopiedIn(t, dirs) /\ pg_table[t][v].frame # Low =>
                       ~ParentTable(t, dirs)[v].w
  <2>1. CASE v \in CopiedIn(t, dirs) /\ pg_table[t][v].frame # Low
    <3>1. ParentTable(t, dirs)[v] = Protected(pg_table[t][v])
      BY <2>1 DEF ParentTable
    <3>2. pg_table[t][v] \in Entry /\ pg_table[t][v] # None
      BY <1>3, <2>1, Numbers
    <3> QED
      BY <1>2, <3>1, <3>2
  <2>2. CASE ~(v \in CopiedIn(t, dirs) /\ pg_table[t][v].frame # Low)
    <3>1. ParentTable(t, dirs)[v] = pg_table[t][v]
      BY <2>2 DEF ParentTable
    <3> QED
      BY <1>1, <2>2, <3>1
  <2> QED
    BY <2>1, <2>2
<1>6. /\ ChildTable(t, dirs) \in [Page -> Entry \cup {None}]
      /\ ParentTable(t, dirs) \in [Page -> Entry \cup {None}]
  <2>1. /\ ChildTable(t, dirs) = [v \in Page |-> ChildTable(t, dirs)[v]]
        /\ ParentTable(t, dirs) = [v \in Page |-> ParentTable(t, dirs)[v]]
    BY DEF ChildTable, ParentTable
  <2> QED
    BY <1>4, <1>5, <2>1
<1> QED
  BY <1>4, <1>5, <1>6

\* A fork that has no page for a table gives back all it has taken, and
\* leaves the parent write-protected.
LEMMA OutOfMemoryStep ==
  ASSUME MemInv, NEW t \in Task, NEW c \in Task, OutOfMemory(t, c)
  PROVE  MemInv'
<1> DEFINE p == get_free_page(mem_map)
           map == Taken(mem_map, p)
           dirs == FirstDirs(t, Cardinality(FreePages(map)))
           copied == CopiedMap(t, dirs, map)
           dir == ChildDir(t, dirs, map)
           table == ChildTable(t, dirs)
           freed == free_page_tables(copied, dir, table)
<1>1. TypeInv /\ ShapeAt(t)
  BY DEF MemInv, ShapeInv
<1>2. /\ pc[t] = "user" /\ p # None
      /\ mem_map' = free_page(freed, p)
      /\ pg_table' = [pg_table EXCEPT ![t] = ParentTable(t, dirs)]
      /\ UNCHANGED <<data, task, pg_dir, executable, pc, held, wr, page, strings>>
  BY DEF OutOfMemory, InUser
<1>3. p \in Frame /\ mem_map[p] = 0
  BY <1>2, FreePage
<1>4. map = [mem_map EXCEPT ![p] = 1] /\ map \in [Frame -> Int]
  <2>1. map = [mem_map EXCEPT ![p] = 1]
    BY DEF Taken
  <2>2. mem_map \in [Frame -> Int]
    BY <1>1 DEF TypeInv
  <2> HIDE DEF map, p
  <2> QED
    BY <1>3, <2>1, <2>2, OneCount
<1> HIDE DEF p, map, dirs
<1>5. /\ copied = [f \in Frame |-> map[f] + MapsTo(table, f) + Names(dir, f)]
      /\ freed = [f \in Frame |-> copied[f] - MapsTo(table, f) - Names(dir, f)]
  BY DEF CopiedMap, free_page_tables
<1> HIDE DEF dir, table, copied, freed
<1>6. ASSUME NEW f \in Frame PROVE freed[f] = map[f]
  <2>1. MapsTo(table, f) \in Nat /\ Names(dir, f) \in Nat /\ map[f] \in Int
    BY <1>4, UseCounts
  <2>2. copied[f] = map[f] + MapsTo(table, f) + Names(dir, f)
    BY <1>5
  <2>3. freed[f] = copied[f] - MapsTo(table, f) - Names(dir, f)
    BY <1>5
  <2> QED
    BY <2>1, <2>2, <2>3
<1>7. freed = map
  <2>1. freed = [f \in Frame |-> freed[f]]
    BY <1>5
  <2> QED
    BY <1>4, <1>6, <2>1
<1>8. mem_map' = mem_map
  <2>1. mem_map' = [map EXCEPT ![p] = map[p] - 1]
    BY <1>2, <1>3, <1>7 DEF free_page
  <2>2. mem_map \in [Frame -> Int]
    BY <1>1 DEF TypeInv
  <2>3. map[p] - 1 = 0
    BY <1>3, <1>4, <2>2
  <2>4. mem_map' = [mem_map EXCEPT ![p] = 0]
    BY <1>3, <1>4, <2>1, <2>2, <2>3
  <2> QED
    BY <1>3, <2>2, <2>4
<1>9. /\ pg_table' \in [Task -> [Page -> Entry \cup {None}]]
      /\ pg_table'[t] = ParentTable(t, dirs)
      /\ \A u \in Task : u # t => pg_table'[u] = pg_table[u]
  <2>1. pg_table \in [Task -> [Page -> Entry \cup {None}]]
    BY <1>1 DEF TypeInv
  <2>2. ParentTable(t, dirs) \in [Page -> Entry \cup {None}]
    BY <1>1, ForkedTables
  <2> QED
    BY <1>2, <2>1, <2>2
<1>10. ASSUME NEW v \in Page
       PROVE  /\ (pg_table'[t][v] # None) <=> (pg_table[t][v] # None)
              /\ pg_table[t][v] # None =>
                   /\ pg_table'[t][v].frame = pg_table[t][v].frame
                   /\ pg_table'[t][v].w => pg_table[t][v].w
  BY <1>1, <1>9, ForkedTables
<1>11. TypeInv'
  BY <1>1, <1>2, <1>8, <1>9 DEF TypeInv
<1>12. Untouched(t)
  BY <1>2, <1>9 DEF Untouched, Others, SameStrings
<1>13. ShapeAt(t)'
  BY <1>1, <1>2, <1>10 DEF ShapeAt, Present, Dead
<1>14. OwnerAt(t)'
  BY <1>2, <1>8, <1>10, QuietOwner DEF Maps
<1>15. \A v \in Page, f \in Frame :
          Maps(pg_table'[t][v], f) <=> Maps(pg_table[t][v], f)
  BY <1>10 DEF Maps
<1> QED
  BY <1>2, <1>8, <1>11, <1>12, <1>13, <1>14, <1>15, QuietStep

\* A fork that has the pages it needs: c is a task with a copy of t's memory.
LEMMA ForkStep ==
  ASSUME MemInv, NEW t \in Task, NEW c \in Task, copy_process(t, c)
  PROVE  MemInv'
<1> DEFINE p == get_free_page(mem_map)
           map == Taken(mem_map, p)
           dirs == FirstDirs(t, Cardinality(FreePages(map)))
           dir == ChildDir(t, dirs, map)
           child == ChildTable(t, dirs)
           parent == ParentTable(t, dirs)
<1>1. TypeInv /\ ShapeAt(t) /\ ShapeAt(c) /\ OwnerAt(t)
  BY DEF MemInv, ShapeInv, OwnerInv
<1>2. /\ pc[t] = "user" /\ wr[t] = None /\ pc[c] = "free" /\ p # None /\ dirs = Present(t)
      /\ mem_map' = CopiedMap(t, dirs, map)
      /\ task' = [task EXCEPT ![c] = p]
      /\ pg_dir' = [pg_dir EXCEPT ![c] = dir]
      /\ pg_table' = [pg_table EXCEPT ![c] = child, ![t] = parent]
      /\ executable' = [executable EXCEPT ![c] = executable[t]]
      /\ pc' = [pc EXCEPT ![c] = "user"]
      /\ data' = data /\ held' = held /\ wr' = wr
      /\ page' = page /\ strings' = strings
  BY DEF copy_process, InUser, FirstFree
<1>3. p \in Frame /\ mem_map[p] = 0
  BY <1>2, FreePage
<1>4. map = [mem_map EXCEPT ![p] = 1] /\ map \in [Frame -> Int]
  <2>1. map = [mem_map EXCEPT ![p] = 1]
    BY DEF Taken
  <2>2. mem_map \in [Frame -> Int]
    BY <1>1 DEF TypeInv
  <2> HIDE DEF map, p
  <2> QED
    BY <1>3, <2>1, <2>2, OneCount
<1>5. /\ dirs \subseteq Dir
      /\ \A d \in dirs : Rank(dirs, d) <= Cardinality(FreePages(map))
  BY <1>1, FirstDirsFit
<1>6. dir = [d \in Dir |-> IF d \in dirs THEN NthFree(map, Rank(dirs, d)) ELSE None]
  BY DEF ChildDir, Rank
<1> HIDE DEF p, map, dirs, dir, child, parent
<1>7. /\ dir \in [Dir -> Frame \cup {None}]
      /\ \A d \in Dir : d \notin dirs => dir[d] = None
      /\ \A d \in dirs : dir[d] \in Frame /\ map[dir[d]] = 0
      /\ \A f \in Frame : Names(dir, f) \in {0, 1}
      /\ \A f \in Frame : map[f] # 0 => Names(dir, f) = 0
  BY <1>5, <1>6, NewTables
<1>8. /\ child \in [Page -> Entry \cup {None}] /\ parent \in [Page -> Entry \cup {None}]
      /\ \A v \in Page : child[v] # None =>
           /\ v \in CopiedIn(t, dirs) /\ ~child[v].w
           /\ child[v].frame = pg_table[t][v].frame
      /\ \A v \in Page : (parent[v] # None) <=> (pg_table[t][v] # None)
      /\ \A v \in Page : pg_table[t][v] # None =>
           /\ parent[v].frame = pg_table[t][v].frame
           /\ parent[v].w => pg_table[t][v].w
           /\ v \in CopiedIn(t, dirs) /\ pg_table[t][v].frame # Low => ~parent[v].w
  BY <1>1, ForkedTables DEF child, parent
<1>9. c # t /\ held[c] = None /\ task[c] = None /\ wr[c] = None /\ page[c] = None
      /\ pg_dir[c] = NoDir /\ pg_table[c] = NoPage
  BY <1>1, <1>2 DEF ShapeAt, Dead
<1>10. /\ task'[c] = p /\ pg_dir'[c] = dir /\ pg_table'[c] = child /\ pc'[c] = "user"
       /\ pg_table'[t] = parent
       /\ \A u \in Task : u # c => /\ task'[u] = task[u] /\ pg_dir'[u] = pg_dir[u]
                                   /\ pc'[u] = pc[u]
                                   /\ u # t => pg_table'[u] = pg_table[u]
  <2>1. /\ task \in [Task -> Frame \cup {None}] /\ DOMAIN pc = Task
        /\ DOMAIN pg_dir = Task /\ DOMAIN pg_table = Task
    BY <1>1 DEF TypeInv
  <2> QED
    BY <1>2, <1>9, <2>1
<1>11. ASSUME NEW f \in Frame
       PROVE  /\ mem_map'[f] = mem_map[f] + One(f = p) + MapsTo(child, f) + Names(dir, f)
              /\ mem_map'[f] \in Int /\ mem_map[f] \in Int
              /\ MapsTo(child, f) \in Nat /\ Names(dir, f) \in Nat
  <2>1. mem_map[f] \in Int
    BY <1>1 DEF TypeInv
  <2>2. MapsTo(child, f) \in Nat /\ Names(dir, f) \in Nat
    BY UseCounts
  <2>3. mem_map'[f] = map[f] + MapsTo(child, f) + Names(dir, f)
    BY <1>2 DEF CopiedMap, child, dir
  <2>4. map[f] = mem_map[f] + One(f = p)
    BY <1>1, <1>3, <1>4, <2>1 DEF TypeInv, One
  <2>5. One(f = p) \in Int
    BY DEF One
  <2> QED
    BY <2>1, <2>2, <2>3, <2>4, <2>5
<1>12. ASSUME NEW f \in Frame, \A v \in Page : ~Maps(pg_table[t][v], f)
       PROVE  MapsTo(child, f) = 0
  <2>1. \A v \in Page : ~Maps(child[v], f)
    BY <1>8, <1>12 DEF Maps, CopiedIn, Mapped
  <2> QED
    BY <2>1, UseCounts
<1>13. TypeInv'
  <2>1. mem_map' \in [Frame -> Int]
    <3>1. mem_map' = [f \in Frame |-> mem_map'[f]]
      BY <1>2 DEF CopiedMap
    <3> QED
      BY <1>11, <3>1
  <2>2. task' \in [Task -> Frame \cup {None}] /\ pg_dir' \in [Task -> [Dir -> Frame \cup {None}]]
    BY <1>1, <1>2, <1>3, <1>7 DEF TypeInv
  <2>3. pg_table' \in [Task -> [Page -> Entry \cup {None}]]
    <3>1. pg_table \in [Task -> [Page -> Entry \cup {None}]]
      BY <1>1 DEF TypeInv
    <3> QED
      BY <1>2, <1>8, <3>1
  <2>4. executable' \in [Task -> File \cup {None}]
    BY <1>1, <1>2 DEF TypeInv
  <2>5. pc' \in [Task -> {"free", "user", "load", "copy", "exec", "close", "exit",
                          "zombie"}]
    BY <1>1, <1>2 DEF TypeInv
  <2> QED
    BY <1>1, <1>2, <2>1, <2>2, <2>3, <2>4, <2>5 DEF TypeInv
<1>14. CountInv'
  <2>1. ASSUME NEW f \in Frame
        PROVE  mem_map'[f] \in Int /\ mem_map'[f] + Uses(c, f) = mem_map[f] + Uses(c, f)'
    <3>1. Uses(c, f) = 0
      <4>1. f # None /\ \A d \in Dir : NoDir[d] # f
        BY Numbers DEF NoDir
      <4>2. \A v \in Page : ~Maps(NoPage[v], f)
        BY DEF NoPage, Maps
      <4> QED
        BY <1>9, <4>1, <4>2, NotUsed DEF Maps
    <3>2. Uses(c, f)' = One(f = p) + Names(dir, f) + MapsTo(child, f)
      <4>1. One(Maps(held'[c], f)) = 0
        BY <1>2, <1>9 DEF One, Maps
      <4>2. One(task'[c] = f) = One(f = p) /\ One(f = p) \in Int
        BY <1>10 DEF One
      <4> QED
        BY <1>10, <1>11, <4>1, <4>2 DEF Uses
    <3>3. One(f = p) \in Int
      BY DEF One
    <3> QED
      BY <1>11, <3>1, <3>2, <3>3
  <2>2. ASSUME NEW u \in Task \ {c}
        PROVE  /\ task'[u] = task[u] /\ held'[u] = held[u] /\ pg_dir'[u] = pg_dir[u]
               /\ \A v \in Page, f \in Frame :
                    Maps(pg_table[u][v], f) <=> Maps(pg_table'[u][v], f)
    <3>1. CASE u = t
      <4>1. \A v \in Page, f \in Frame : Maps(pg_table[t][v], f) <=> Maps(parent[v], f)
        BY <1>8 DEF Maps
      <4> QED
        BY <1>2, <1>9, <1>10, <3>1, <4>1
    <3>2. CASE u # t
      BY <1>2, <1>10, <3>2
    <3> QED
      BY <3>1, <3>2
  <2> QED
    BY <1>2, <2>1, <2>2, CountKept DEF MemInv
<1>15. ASSUME NEW u \in Task PROVE ShapeAt(u)'
  <2>1. CASE u = c
    <3>1. Present(c)' # {}
      <4>1. PICK d \in dirs : TRUE
        BY <1>1, <1>2 DEF ShapeAt, Dead
      <4>2. d \in Dir /\ dir[d] # None
        BY <1>5, <1>7, Numbers
      <4> QED
        BY <1>10, <4>2 DEF Present
    <3>2. \A v \in Page : pg_table'[c][v] # None => pg_dir'[c][DirOf[v]] # None
      <4> SUFFICES ASSUME NEW v \in Page, child[v] # None PROVE dir[DirOf[v]] # None
        BY <1>10
      <4>1. DirOf[v] \in dirs
        BY <1>8 DEF CopiedIn
      <4> QED
        BY <1>7, <4>1, Numbers
    <3>3. /\ task'[c] # None /\ held'[c] = None /\ wr'[c] = None /\ page'[c] = None
          /\ pc'[c] = "user"
      BY <1>2, <1>3, <1>9, <1>10, Numbers
    <3> QED
      BY <2>1, <3>1, <3>2, <3>3 DEF ShapeAt, Dead
  <2>2. CASE u = t
    <3>1. /\ task'[t] = task[t] /\ pg_dir'[t] = pg_dir[t] /\ pc'[t] = pc[t]
          /\ held'[t] = held[t] /\ wr'[t] = wr[t] /\ pg_table'[t] = parent
          /\ page'[t] = page[t]
      BY <1>2, <1>9, <1>10
    <3>2. Present(t)' = Present(t)
      BY <3>1 DEF Present
    <3>3. \A v \in Page : pg_table'[t][v] # None => pg_dir'[t][DirOf[v]] # None
      <4>1. \A v \in Page : pg_table[t][v] # None => pg_dir[t][DirOf[v]] # None
        BY <1>1 DEF ShapeAt
      <4> QED
        BY <1>8, <3>1, <4>1
    <3>4. /\ pc'[t] = "user" /\ wr'[t] = None /\ task'[t] # None /\ held'[t] = None
          /\ page'[t] = None /\ Present(t)' # {}
      BY <1>1, <1>2, <3>1, <3>2 DEF ShapeAt, Dead
    <3> QED
      BY <2>2, <3>3, <3>4 DEF ShapeAt, Dead
  <2>3. CASE u # c /\ u # t
    <3>1. /\ task'[u] = task[u] /\ pg_dir'[u] = pg_dir[u] /\ pc'[u] = pc[u]
          /\ held'[u] = held[u] /\ wr'[u] = wr[u] /\ pg_table'[u] = pg_table[u]
          /\ page'[u] = page[u]
      BY <1>2, <1>10, <2>3
    <3>2. ShapeAt(u)
      BY DEF MemInv, ShapeInv
    <3> QED
      BY <3>1, <3>2 DEF ShapeAt, Present
  <2> QED
    BY <2>1, <2>2, <2>3
<1>16. ASSUME NEW v \in Page, pg_table[t][v] # None PROVE v \in CopiedIn(t, dirs)
  <2>1. pg_dir[t][DirOf[v]] # None /\ DirOf[v] \in Dir
    BY <1>1, <1>16, MemoryAssumption DEF ShapeAt
  <2> QED
    BY <1>2, <1>16, <2>1 DEF CopiedIn, Present, Mapped
<1>17. ASSUME NEW f \in Frame, mem_map[f] = 1, \A v \in Page : ~Maps(pg_table[t][v], f)
       PROVE  mem_map'[f] = 1
  <2>1. f # p /\ map[f] = 1
    BY <1>1, <1>3, <1>4, <1>17 DEF TypeInv
  <2>2. One(f = p) = 0 /\ Names(dir, f) = 0 /\ MapsTo(child, f) = 0
    BY <1>7, <1>12, <1>17, <2>1 DEF One
  <2> QED
    BY <1>11, <1>17, <2>2
<1>18. ASSUME NEW u \in Task, NEW f \in Frame, Owns(u, f)' PROVE mem_map'[f] = 1
  <2>1. CASE u = c
    <3>1. f = p \/ \E d \in Dir : dir[d] = f
      <4>1. ~Maps(held'[c], f)
        BY <1>2, <1>9 DEF Maps
      <4>2. \A v \in Page : ~(Maps(pg_table'[c][v], f) /\ pg_table'[c][v].w)
        BY <1>8, <1>10 DEF Maps
      <4>3. task'[c] = p /\ pg_dir'[c] = dir
        BY <1>10
      <4>4. \/ task'[c] = f \/ Maps(held'[c], f)
            \/ \E d \in Dir : pg_dir'[c][d] = f
            \/ \E v \in Page : Maps(pg_table'[c][v], f) /\ pg_table'[c][v].w
        BY <1>18, <2>1 DEF Owns, Maps
      <4> QED
        BY <4>1, <4>2, <4>3, <4>4
    <3>2. mem_map[f] = 0
      <4>1. CASE f = p
        BY <1>3, <4>1
      <4>2. CASE f # p
        <5>1. PICK d \in Dir : dir[d] = f
          BY <3>1, <4>2
        <5>2. d \in dirs
          BY <1>7, <5>1, Numbers
        <5>3. map[f] = 0
          BY <1>7, <5>1, <5>2
        <5> QED
          BY <1>1, <1>3, <1>4, <4>2, <5>3 DEF TypeInv
      <4> QED
        BY <4>1, <4>2
    <3>3. MapsTo(child, f) = 0
      <4>1. Uses(t, f) = 0
        BY <3>2, FreeIsNotUsed
      <4> QED
        BY <1>12, <4>1, NotUsed
    <3>4. CASE f = p
      <4>1. map[f] = 1
        BY <1>1, <1>3, <1>4, <3>4 DEF TypeInv
      <4>2. Names(dir, f) = 0 /\ One(f = p) = 1
        BY <1>7, <3>4, <4>1 DEF One
      <4> QED
        BY <1>11, <3>2, <3>3, <4>2
    <3>5. CASE f # p
      <4>1. Names(dir, f) # 0
        BY <3>1, <3>5, UseCounts
      <4>2. Names(dir, f) = 1 /\ One(f = p) = 0
        BY <1>7, <3>5, <4>1 DEF One
      <4> QED
        BY <1>11, <3>2, <3>3, <4>2
    <3> QED
      BY <3>4, <3>5
  <2>2. CASE u = t
    <3>1. \A v \in Page : ~(Maps(pg_table'[t][v], f) /\ pg_table'[t][v].w)
      <4> SUFFICES ASSUME NEW v \in Page, Maps(parent[v], f), parent[v].w PROVE FALSE
        BY <1>10
      <4>1. pg_table[t][v] # None /\ pg_table[t][v].frame = f
        BY <1>8 DEF Maps
      <4>2. v \in CopiedIn(t, dirs)
        BY <1>16, <4>1
      <4> QED
        BY <1>8, <4>1, <4>2, Numbers
    <3>2. task[t] = f \/ Maps(held[t], f) \/ \E d \in Dir : pg_dir[t][d] = f
      <4>1. task'[t] = task[t] /\ held'[t] = held[t] /\ pg_dir'[t] = pg_dir[t]
        BY <1>2, <1>9, <1>10
      <4> QED
        BY <1>18, <2>2, <3>1, <4>1 DEF Owns
    <3>3. Owns(t, f)
      BY <3>2 DEF Owns
    <3>4. \A v \in Page : ~Maps(pg_table[t][v], f)
      BY <3>2, <3>3, OwnedEntry
    <3>5. mem_map[f] = 1
      BY <1>1, <3>3 DEF OwnerAt
    <3> QED
      BY <1>17, <3>4, <3>5
  <2>3. CASE u # c /\ u # t
    <3>1. /\ task'[u] = task[u] /\ pg_dir'[u] = pg_dir[u]
          /\ held'[u] = held[u] /\ pg_table'[u] = pg_table[u]
      BY <1>2, <1>10, <2>3
    <3>2. Owns(u, f)
      BY <1>18, <3>1 DEF Owns
    <3>3. mem_map[f] = 1 /\ Uses(t, f) = 0
      BY <2>3, <3>2, OwnerIsAlone DEF MemInv
    <3> QED
      BY <1>17, <3>3, NotUsed
  <2> QED
    BY <2>1, <2>2, <2>3
<1>19. ASSUME NEW u \in Task, NEW v \in Page, Maps(pg_table'[u][v], Low)
       PROVE  ~pg_table'[u][v].w
  <2>1. CASE u = c
    BY <1>8, <1>10, <1>19, <2>1 DEF Maps
  <2>2. CASE u = t
    <3>1. Maps(pg_table[t][v], Low)
      BY <1>8, <1>10, <1>19, <2>2 DEF Maps
    <3>2. ~pg_table[t][v].w
      BY <1>1, <3>1 DEF OwnerAt
    <3> QED
      BY <1>8, <1>10, <2>2, <3>1, <3>2 DEF Maps
  <2>3. CASE u # c /\ u # t
    <3>1. OwnerAt(u) /\ pg_table'[u] = pg_table[u]
      BY <1>10, <2>3 DEF MemInv, OwnerInv
    <3> QED
      BY <1>19, <3>1 DEF OwnerAt
  <2> QED
    BY <2>1, <2>2, <2>3
<1>20. StringsInv'
  <2>1. ASSUME NEW f \in strings PROVE mem_map'[f] = 1
    <3>1. f \in Frame /\ mem_map[f] = 1 /\ Uses(t, f) = 0
      BY StringsApart
    <3>2. \A v \in Page : ~Maps(pg_table[t][v], f)
      BY <3>1, NotUsed
    <3> QED
      BY <1>17, <3>1, <3>2
  <2>2. SameStrings(t)
    BY <1>2 DEF SameStrings
  <2> QED
    BY <2>1, <2>2, StringsKept DEF MemInv
<1> QED
  BY <1>13, <1>14, <1>15, <1>18, <1>19, <1>20 DEF MemInv, ShapeInv, OwnerInv, OwnerAt

-----------------------------------------------------------------------------
(* The invariant                                                           *)

\* After the first fork.
LEMMA InitMem == Init => MemInv
<1> DEFINE dirs == {DirOf[v] : v \in KernelPages}
           map == [f \in Frame |-> IF f = NFrame THEN 1 ELSE 0]
           dir == [d \in Dir |->
                     IF d \in dirs THEN NthFree(map, Cardinality({e \in dirs : e <= d}))
                     ELSE None]
           low == [frame |-> Low, w |-> FALSE, dirty |-> TRUE]
<1> SUFFICES ASSUME Init PROVE MemInv
  OBVIOUS
<1>1. /\ mem_map = [f \in Frame |-> map[f] + Names(dir, f)]
      /\ data = [f \in Frame \cup {Low} |-> IF f = Low THEN Kernel ELSE Zero]
      /\ task = [t \in Task |-> IF t = 1 THEN NFrame ELSE None]
      /\ pg_dir = [t \in Task |-> IF t = 1 THEN dir ELSE NoDir]
      /\ pg_table = [t \in Task |-> [v \in Page |->
                       IF t = 1 /\ v \in KernelPages THEN low ELSE None]]
      /\ executable = [t \in Task |-> None]
      /\ pc = [t \in Task |-> IF t = 1 THEN "user" ELSE "free"]
      /\ held = [t \in Task |-> None]
      /\ wr = [t \in Task |-> None]
      /\ page = [t \in Task |-> None] /\ strings = {}
  BY DEF Init
<1>2. /\ KernelPages \subseteq Page /\ KernelPages # {} /\ 1 \in Task
      /\ DirOf \in [Page -> Dir] /\ IsFiniteSet(Dir)
  BY MemoryAssumption DEF Task
<1>3. dirs \subseteq Dir /\ IsFiniteSet(dirs) /\ Cardinality(dirs) \in Nat
  <2>1. dirs \subseteq Dir
    BY <1>2
  <2> QED
    BY <1>2, <2>1, FS_Subset, FS_CardinalityType
<1>4. Cardinality(dirs) < NFrame /\ NFrame \in Nat
  BY MemoryAssumption
<1>5. NFrame \in Frame
  BY <1>3, <1>4 DEF Frame
<1>6. Cardinality(FreePages(map)) = NFrame - 1
  <2>1. FreePages(map) = Frame \ {NFrame}
    BY DEF FreePages
  <2>2. IsFiniteSet(Frame) /\ Cardinality(Frame) = NFrame
    BY <1>4, <1>5, FS_Interval DEF Frame
  <2>3. Cardinality(Frame \ {NFrame}) = Cardinality(Frame) - 1
    BY <1>5, <2>2, FS_RemoveElement
  <2> QED
    BY <2>1, <2>2, <2>3
<1>7. \A d \in dirs : Rank(dirs, d) <= Cardinality(FreePages(map))
  <2> SUFFICES ASSUME NEW d \in dirs
               PROVE  Rank(dirs, d) <= Cardinality(FreePages(map))
    OBVIOUS
  <2> DEFINE S == {e \in dirs : e <= d}
  <2>1. IsFiniteSet(S) /\ Cardinality(S) <= Cardinality(dirs)
    BY <1>3, FS_Subset
  <2>2. Cardinality(S) \in Nat
    BY <2>1, FS_CardinalityType
  <2>3. Rank(dirs, d) = Cardinality(S)
    BY DEF Rank
  <2> HIDE DEF S, dirs
  <2> QED
    BY <1>3, <1>4, <1>6, <2>1, <2>2, <2>3
<1>8. dir = [d \in Dir |-> IF d \in dirs THEN NthFree(map, Rank(dirs, d)) ELSE None]
  BY DEF Rank
<1>a. \A f \in Frame : map[f] = IF f = NFrame THEN 1 ELSE 0
  OBVIOUS
<1>b. PICK v0 \in KernelPages : DirOf[v0] \in dirs
  BY <1>2
<1>c. \A v \in KernelPages : v \in Page /\ DirOf[v] \in dirs
  BY <1>2
<1> HIDE DEF dir, dirs, map
<1>9. /\ dir \in [Dir -> Frame \cup {None}]
      /\ \A d \in dirs : dir[d] \in Frame /\ map[dir[d]] = 0
      /\ \A f \in Frame : Names(dir, f) \in {0, 1}
      /\ \A f \in Frame : map[f] # 0 => Names(dir, f) = 0
  BY <1>3, <1>7, <1>8, NewTables
<1>10. ASSUME NEW f \in Frame PROVE mem_map[f] = map[f] + Names(dir, f)
  BY <1>1
<1>11. low \in Entry /\ low # None /\ ~Maps(low, None) /\ ~low.w /\ low.frame = Low
  <2>1. low \in Entry
    BY DEF Entry
  <2> QED
    BY <2>1, Numbers DEF Maps
<1>12. ASSUME NEW f \in Frame, NEW t \in Task, NEW v \in Page
       PROVE  ~Maps(pg_table[t][v], f)
  BY <1>1, <1>11, Numbers DEF Maps
<1>13. TypeInv
  <2>1. mem_map \in [Frame -> Int]
    <3>1. \A f \in Frame : map[f] + Names(dir, f) \in Int
      BY <1>9, <1>a
    <3> QED
      BY <1>1, <3>1
  <2>2. data \in [Frame \cup {Low} -> Content]
    BY <1>1 DEF Content
  <2>3. pg_dir \in [Task -> [Dir -> Frame \cup {None}]]
    BY <1>1, <1>9 DEF NoDir
  <2>4. pg_table \in [Task -> [Page -> Entry \cup {None}]]
    BY <1>1, <1>11
  <2> HIDE DEF low
  <2> QED
    BY <1>1, <1>5, <2>1, <2>2, <2>3, <2>4 DEF TypeInv
<1>14. ShapeInv
  <2> SUFFICES ASSUME NEW t \in Task PROVE ShapeAt(t)
    BY DEF ShapeInv
  <2>1. CASE t = 1
    <3>1. /\ pc[t] = "user" /\ task[t] # None /\ held[t] = None /\ wr[t] = None
          /\ page[t] = None
      BY <1>1, <1>5, <2>1, Numbers
    <3>2. pg_dir[t] = dir
      BY <1>1, <2>1
    <3>3. \A d \in dirs : d \in Dir /\ dir[d] # None
      BY <1>3, <1>9, Numbers
    <3>4. Present(t) # {}
      BY <1>b, <3>2, <3>3 DEF Present
    <3>5. \A v \in Page : pg_table[t][v] # None => pg_dir[t][DirOf[v]] # None
      BY <1>1, <1>c, <3>2, <3>3
    <3> QED
      BY <3>1, <3>4, <3>5 DEF ShapeAt, Dead
  <2>2. CASE t # 1
    <3>1. /\ pc[t] = "free" /\ task[t] = None /\ held[t] = None /\ wr[t] = None
          /\ pg_dir[t] = NoDir /\ pg_table[t] = NoPage /\ page[t] = None
      BY <1>1, <2>2 DEF NoPage
    <3> QED
      BY <3>1 DEF ShapeAt, Dead, NoPage, NoDir
  <2> QED
    BY <2>1, <2>2
<1>15. CountInv
  <2> SUFFICES ASSUME NEW f \in Frame
               PROVE  mem_map[f] = Cardinality(TasksAt(f)) + Cardinality(HeldAt(f))
                                   + Cardinality(TablesAt(f)) + Cardinality(PagesAt(f))
                                   + One(f \in strings)
    BY DEF CountInv
  <2>1. Cardinality(TasksAt(f)) = map[f]
    <3>1. CASE f = NFrame
      <4>1. TasksAt(f) = {1}
        BY <1>1, <1>2, <3>1, Numbers DEF TasksAt
      <4> QED
        BY <1>a, <3>1, <4>1, FS_Singleton
    <3>2. CASE f # NFrame
      <4>1. TasksAt(f) = {}
        BY <1>1, <3>2, Numbers DEF TasksAt
      <4> QED
        BY <1>a, <3>2, <4>1, FS_EmptySet
    <3> QED
      BY <3>1, <3>2
  <2>2. Cardinality(HeldAt(f)) = 0
    <3>1. HeldAt(f) = {}
      BY <1>1 DEF HeldAt, Maps
    <3> QED
      BY <3>1, FS_EmptySet
  <2>3. Cardinality(PagesAt(f)) = 0
    <3>1. PagesAt(f) = {}
      BY <1>12 DEF PagesAt
    <3> QED
      BY <3>1, FS_EmptySet
  <2>4. Cardinality(TablesAt(f)) = Names(dir, f)
    <3> DEFINE S == TablesAt(f)
    <3>1. S \subseteq Task \X Dir
      BY DEF TablesAt
    <3>2. RowOf(Dir, S, 1) = {d \in Dir : dir[d] = f}
      BY <1>1, <1>2 DEF RowOf, TablesAt
    <3>3. RestOf(S, 1) = {}
      <4>1. ASSUME NEW x \in Task \X Dir, x[1] # 1 PROVE pg_dir[x[1]][x[2]] # f
        <5>1. pg_dir[x[1]] = NoDir /\ x[2] \in Dir
          BY <1>1, <4>1
        <5> QED
          BY <5>1, Numbers DEF NoDir
      <4> QED
        BY <4>1 DEF RestOf, TablesAt
    <3> HIDE DEF S
    <3>4. Cardinality(S) = Cardinality(RestOf(S, 1)) + Cardinality(RowOf(Dir, S, 1))
          /\ Cardinality(RowOf(Dir, S, 1)) \in Nat
      BY <1>2, <3>1, RowSize
    <3>5. Cardinality(RestOf(S, 1)) = 0
      BY <3>3, FS_EmptySet
    <3>6. Cardinality(S) = Cardinality(RowOf(Dir, S, 1))
      BY <3>4, <3>5
    <3> QED
      BY <3>2, <3>6 DEF S, Names
  <2>5. Names(dir, f) \in Nat /\ map[f] \in Int
    BY <1>9, <1>a
  <2>6. One(f \in strings) = 0
    BY <1>1 DEF One
  <2> QED
    BY <1>10, <2>1, <2>2, <2>3, <2>4, <2>5, <2>6
<1>16. OwnerInv
  <2> SUFFICES ASSUME NEW t \in Task PROVE OwnerAt(t)
    BY DEF OwnerInv
  <2>1. ASSUME NEW f \in Frame, Owns(t, f) PROVE mem_map[f] = 1
    <3>1. t = 1 /\ (f = NFrame \/ \E d \in Dir : dir[d] = f)
      BY <1>1, <1>12, <2>1, Numbers DEF Owns, NoDir, Maps
    <3>2. CASE f = NFrame
      <4>1. map[f] = 1 /\ Names(dir, f) = 0
        BY <1>9, <1>a, <3>2
      <4> QED
        BY <1>10, <4>1
    <3>3. CASE f # NFrame
      <4>1. Names(dir, f) = 1
        BY <1>9, <3>1, <3>3, UseCounts
      <4>2. map[f] = 0
        BY <1>a, <3>3
      <4> QED
        BY <1>10, <4>1, <4>2
    <3> QED
      BY <3>2, <3>3
  <2>2. \A v \in Page : Maps(pg_table[t][v], Low) => ~pg_table[t][v].w
    BY <1>1, <1>11 DEF Maps
  <2> QED
    BY <2>1, <2>2 DEF OwnerAt
<1>17. StringsInv
  BY <1>1 DEF StringsInv
<1> QED
  BY <1>13, <1>14, <1>15, <1>16, <1>17 DEF MemInv

\* Every step keeps the invariant.
LEMMA StepMem == MemInv /\ [Next]_vars => MemInv'
<1> SUFFICES ASSUME MemInv, [Next]_vars PROVE MemInv'
  OBVIOUS
<1>1. ASSUME NEW t \in Task, NEW c \in Task, copy_process(t, c) PROVE MemInv'
  BY <1>1, ForkStep
<1>2. ASSUME NEW t \in Task, NEW c \in Task, OutOfMemory(t, c) PROVE MemInv'
  BY <1>2, OutOfMemoryStep
<1>3. ASSUME NEW t \in Task, NEW v \in Page, Fault(t, v) PROVE MemInv'
  BY <1>3, EmptyPageStep, NoEmptyPageStep, SharePageStep, NoPageLeft, StartLoadStep,
     WriteFaultStep DEF Fault
<1>4. ASSUME NEW t \in Task, NEW v \in Page, Store(t, v) PROVE MemInv'
  BY <1>4, StoreStep
<1>5. ASSUME NEW t \in Task, NEW v \in KernelWrites, verify_area(t, v) PROVE MemInv'
  <2>1. v \in Page
    BY MemoryAssumption
  <2> QED
    BY <1>5, <2>1, VerifyStep
<1>6. ASSUME NEW t \in Task, do_execve(t) PROVE MemInv'
  BY <1>6, ExecStep
<1>a. ASSUME NEW t \in Task, NEW file \in File, StringsCopied(t, file) PROVE MemInv'
  BY <1>a, StringsCopiedStep
<1>7. ASSUME NEW t \in Task, Loads(t) \/ NoTableForLoad(t) PROVE MemInv'
  BY <1>7, LoadsStep, NoTableForLoadStep
<1>8. ASSUME NEW t \in Task, put_fs_byte(t) \/ CallFails(t) PROVE MemInv'
  BY <1>8, PutByteStep, CallFailsStep
<1>9. ASSUME NEW t \in Task, ExecFails(t) \/ NoReturn(t) \/ ChangeProgram(t) PROVE MemInv'
  BY <1>9, ExecFailsStep, NoReturnStep, ChangeProgramStep
<1>10. ASSUME NEW t \in Task, Exit(t) \/ die(t) PROVE MemInv'
  BY <1>10, PlainExit, DieStep DEF Exit, InUser
<1>11. ASSUME NEW t \in Task, ExitClosed(t) \/ release(t) PROVE MemInv'
  BY <1>11, ExitClosedStep, ReleaseStep
<1>12. CASE UNCHANGED vars
  BY <1>12 DEF vars, MemInv, TypeInv, ShapeInv, ShapeAt, Present, CountInv, TasksAt,
     HeldAt, TablesAt, PagesAt, OwnerInv, OwnerAt, Owns, StringsInv
<1> QED
  BY <1>1, <1>2, <1>3, <1>4, <1>5, <1>6, <1>a, <1>7, <1>8, <1>9, <1>10, <1>11, <1>12 DEF Next

\* The inductive invariant holds in every state.
THEOREM MemInvariant == Spec => []MemInv
<1>1. Init => MemInv
  BY InitMem
<1>2. MemInv /\ [Next]_vars => MemInv'
  BY StepMem
<1> QED
  BY <1>1, <1>2, PTL DEF Spec

\* mem_map counts exactly the users of each page (free_page never panics, and
\* get_free_page gives out no page that somebody uses), and the pages that
\* copy_strings has taken, those of a task killed there included.
THEOREM CountsAreExact == Spec => []CountsAreUsers
<1>1. MemInv => CountsAreUsers
  <2> SUFFICES ASSUME MemInv PROVE CountsAreUsers
    OBVIOUS
  <2>1. TypeInv /\ CountInv
    BY DEF MemInv
  <2>2. mem_map \in [Frame -> Nat]
    <3>1. \A f \in Frame : mem_map[f] \in Nat
      BY <2>1, FreeIsUnused
    <3> QED
      BY <2>1, <3>1 DEF TypeInv
  <2>3. TypeOK
    BY <2>1, <2>2 DEF TypeOK, TypeInv
  <2>4. ASSUME NEW f \in Frame
        PROVE  /\ HeldAt(f) = {t \in Task : held[t] # None /\ held[t].frame = f}
               /\ PagesAt(f) = {x \in Task \X Page :
                    x[2] \in Mapped(pg_table[x[1]]) /\ pg_table[x[1]][x[2]].frame = f}
    BY DEF HeldAt, PagesAt, Maps, Mapped
  <2>5. ASSUME NEW f \in Frame
        PROVE  mem_map[f] =
                 Cardinality(TasksAt(f)) + Cardinality(HeldAt(f))
                 + (IF f \in strings THEN 1 ELSE 0)
                 + Cardinality(TablesAt(f)) + Cardinality(PagesAt(f))
    <3>1. mem_map[f] = Cardinality(TasksAt(f)) + Cardinality(HeldAt(f))
                       + Cardinality(TablesAt(f)) + Cardinality(PagesAt(f))
                       + One(f \in strings)
      BY <2>1 DEF CountInv
    <3>2. /\ Cardinality(TasksAt(f)) \in Nat /\ Cardinality(HeldAt(f)) \in Nat
          /\ Cardinality(TablesAt(f)) \in Nat /\ Cardinality(PagesAt(f)) \in Nat
      BY FiniteUsers
    <3> DEFINE a == Cardinality(TasksAt(f))
               b == Cardinality(HeldAt(f))
               c == Cardinality(TablesAt(f))
               d == Cardinality(PagesAt(f))
               s == IF f \in strings THEN 1 ELSE 0
    <3>3. mem_map[f] = a + b + c + d + s /\ s \in Nat
      BY <3>1 DEF One
    <3>4. a \in Nat /\ b \in Nat /\ c \in Nat /\ d \in Nat
      BY <3>2
    <3> HIDE DEF a, b, c, d, s
    <3>5. mem_map[f] = a + b + s + c + d
      BY <3>3, <3>4
    <3> QED
      BY <3>5 DEF a, b, c, d, s
  <2> QED
    BY <2>3, <2>4, <2>5 DEF CountsAreUsers, TasksAt, TablesAt
<1> QED
  BY <1>1, MemInvariant, PTL

\* Copy on write: what can be written to has one user.
THEOREM WritesArePrivate == Spec => []WritableIsPrivate
<1>1. MemInv => WritableIsPrivate
  <2> SUFFICES ASSUME MemInv, NEW t \in Task
               PROVE  /\ \A v \in Mapped(pg_table[t]) :
                           LET e == pg_table[t][v]
                           IN e.w => e.frame # Low /\ mem_map[e.frame] = 1
                      /\ \A d \in Present(t) : mem_map[pg_dir[t][d]] = 1
                      /\ task[t] # None => mem_map[task[t]] = 1
    BY DEF WritableIsPrivate
  <2>1. TypeInv /\ OwnerAt(t)
    BY DEF MemInv, OwnerInv
  <2>2. ASSUME NEW v \in Mapped(pg_table[t]), pg_table[t][v].w
        PROVE  pg_table[t][v].frame # Low /\ mem_map[pg_table[t][v].frame] = 1
    <3>1. v \in Page /\ pg_table[t][v] # None /\ pg_table[t][v] \in Entry
      BY <2>1 DEF Mapped, TypeInv
    <3>2. pg_table[t][v].frame # Low
      BY <2>1, <2>2, <3>1 DEF OwnerAt, Maps
    <3>3. pg_table[t][v].frame \in Frame
      BY <3>1, <3>2 DEF Entry
    <3>4. Owns(t, pg_table[t][v].frame)
      BY <2>2, <3>1 DEF Owns, Maps
    <3> QED
      BY <2>1, <3>2, <3>3, <3>4 DEF OwnerAt
  <2>3. ASSUME NEW d \in Present(t) PROVE mem_map[pg_dir[t][d]] = 1
    <3>1. d \in Dir /\ pg_dir[t][d] \in Frame
      BY <2>1 DEF Present, TypeInv
    <3> QED
      BY <2>1, <3>1 DEF OwnerAt, Owns
  <2>4. task[t] # None => mem_map[task[t]] = 1
    <3>1. task[t] # None => task[t] \in Frame
      BY <2>1 DEF TypeInv
    <3> QED
      BY <2>1, <3>1 DEF OwnerAt, Owns
  <2> QED
    BY <2>2, <2>3, <2>4
<1> QED
  BY <1>1, MemInvariant, PTL

-----------------------------------------------------------------------------
(* An address space of its own                                             *)

\* What t finds in page v.
Finds(t, v) ==
  IF pg_table[t][v] = None THEN Zero ELSE data[pg_table[t][v].frame]

\* Whoever maps a frame has it at the same page.
SamePage ==
  \A t, u \in Task, v, x \in Page, f \in Frame :
    Maps(pg_table[t][v], f) /\ Maps(pg_table[u][x], f) => v = x

\* What t reads from a file goes where text and data are, its new stack has the
\* arguments, and the page that a system call has verified is its own, or text
\* and data.
PlaceAt(t) ==
  /\ pc[t] = "load" => held[t].page \notin Private
  /\ pc[t] \in {"exec", "close"} => data[held[t].frame] = Args
  /\ wr[t] # None /\ pg_table[t][wr[t]] # None =>
       /\ pg_table[t][wr[t]].frame # Low
       /\ wr[t] \in Private => pg_table[t][wr[t]].w

SpaceInv == SamePage /\ \A t \in Task : PlaceAt(t)

\* What a task fills nobody has mapped.
LEMMA HeldIsApart ==
  ASSUME MemInv, NEW t \in Task, held[t] # None
  PROVE  /\ held[t].frame \in Frame /\ mem_map[held[t].frame] # 0
         /\ \A u \in Task, v \in Page : ~Maps(pg_table[u][v], held[t].frame)
         /\ \A u \in Task \ {t} : ~Maps(held[u], held[t].frame)
<1> DEFINE f == held[t].frame
<1>1. f \in Frame /\ Maps(held[t], f)
  BY DEF MemInv, TypeInv, Hold, Maps
<1> HIDE DEF f
<1>2. Owns(t, f)
  BY <1>1 DEF Owns
<1>3. mem_map[f] = 1 /\ \A u \in Task \ {t} : Uses(u, f) = 0
  BY <1>1, <1>2, OwnerIsAlone DEF MemInv
<1>4. \A v \in Page : ~Maps(pg_table[t][v], f)
  BY <1>1, <1>2, OwnedEntry
<1>5. ASSUME NEW u \in Task \ {t}
      PROVE  ~Maps(held[u], f) /\ \A v \in Page : ~Maps(pg_table[u][v], f)
  BY <1>1, <1>3, NotUsed
<1> QED
  BY <1>1, <1>3, <1>4, <1>5 DEF f

\* A page that can be written to has nobody else mapped.
LEMMA WritableIsAlone ==
  ASSUME MemInv, NEW t \in Task, NEW v \in Page, pg_table[t][v] # None, pg_table[t][v].w
  PROVE  /\ pg_table[t][v].frame \in Frame
         /\ \A u \in Task, x \in Page :
              Maps(pg_table[u][x], pg_table[t][v].frame) => u = t /\ x = v
<1> DEFINE f == pg_table[t][v].frame
<1>1. Maps(pg_table[t][v], f)
  BY DEF Maps
<1>2. f \in Frame
  <2>1. pg_table[t][v] \in Entry
    BY DEF MemInv, TypeInv
  <2>2. ~Maps(pg_table[t][v], Low)
    BY DEF MemInv, OwnerInv, OwnerAt
  <2> QED
    BY <2>1, <2>2 DEF Entry, Maps
<1> HIDE DEF f
<1>3. Owns(t, f)
  BY <1>1 DEF Owns
<1>4. \A u \in Task \ {t} : Uses(u, f) = 0
  BY <1>2, <1>3, OwnerIsAlone DEF MemInv
<1>5. \A x \in Page : Maps(pg_table[t][x], f) => x = v
  BY <1>1, <1>2, <1>3, OwnedEntry
<1>6. ASSUME NEW u \in Task \ {t} PROVE \A x \in Page : ~Maps(pg_table[u][x], f)
  BY <1>2, <1>4, NotUsed
<1> QED
  BY <1>2, <1>5, <1>6 DEF f

\* A free page is mapped by nobody, and nobody fills it.
LEMMA FreeIsApart ==
  ASSUME MemInv, NEW f \in Frame, mem_map[f] = 0
  PROVE  \A u \in Task : ~Maps(held[u], f) /\ \A v \in Page : ~Maps(pg_table[u][v], f)
BY FreeIsNotUsed, NotUsed

\* Only the data of frame g changes.
DataKept(g) == \A f \in Frame \cup {Low} : f # g => data'[f] = data[f]

\* The page tables of u map the same frames.
SameFrames(u) ==
  \A v \in Page : /\ pg_table'[u][v] = None <=> pg_table[u][v] = None
                  /\ pg_table[u][v] # None =>
                       pg_table'[u][v].frame = pg_table[u][v].frame

\* Who does not map the page that changes finds what it found before.
LEMMA FindsAsBefore ==
  ASSUME TypeInv, NEW g, DataKept(g), NEW u \in Task, NEW v \in Page,
         pg_table'[u][v] = None <=> pg_table[u][v] = None,
         pg_table[u][v] # None => pg_table'[u][v].frame = pg_table[u][v].frame,
         ~Maps(pg_table[u][v], g)
  PROVE  Finds(u, v)' = Finds(u, v)
<1>1. CASE pg_table[u][v] = None
  BY <1>1 DEF Finds
<1>2. CASE pg_table[u][v] # None
  <2>1. pg_table[u][v].frame \in Frame \cup {Low} /\ pg_table[u][v].frame # g
    BY <1>2 DEF TypeInv, Entry, Maps
  <2>2. data'[pg_table[u][v].frame] = data[pg_table[u][v].frame]
    BY <2>1 DEF DataKept
  <2> QED
    BY <1>2, <2>2 DEF Finds
<1> QED
  BY <1>1, <1>2

\* The frames of a page table stay where they were, but for g at page w, where
\* whoever has it has it.
LEMMA SamePageKept ==
  ASSUME SamePage, NEW w \in Page, NEW g,
         \A u \in Task, x \in Page : Maps(pg_table[u][x], g) => x = w,
         \A u \in Task, v \in Page, f \in Frame :
           Maps(pg_table'[u][v], f) =>
             \/ \E q \in Task : Maps(pg_table[q][v], f)
             \/ f = g /\ v = w
  PROVE  SamePage'
<1> SUFFICES ASSUME NEW t \in Task, NEW u \in Task, NEW v \in Page, NEW x \in Page,
                    NEW f \in Frame, Maps(pg_table'[t][v], f), Maps(pg_table'[u][x], f)
             PROVE  v = x
  BY DEF SamePage, Maps
<1>1. \E q \in Task : Maps(pg_table[q][v], f) \/ (f = g /\ v = w)
  OBVIOUS
<1>2. \E q \in Task : Maps(pg_table[q][x], f) \/ (f = g /\ x = w)
  OBVIOUS
<1> QED
  BY <1>1, <1>2 DEF SamePage

\* A task keeps its place when what it fills and what it has verified are as
\* they were, or text and data.
LEMMA PlaceKept ==
  ASSUME MemInv, NEW t \in Task, PlaceAt(t),
         pc'[t] = pc[t], held'[t] = held[t], wr'[t] = wr[t],
         NEW g, DataKept(g), ~Maps(held[t], g),
         \A v \in Page :
           pg_table'[t][v] = pg_table[t][v]
             \/ (v \notin Private /\ pg_table'[t][v].frame # Low)
  PROVE  PlaceAt(t)'
<1>1. /\ pc[t] = "load" => held[t].page \notin Private
      /\ pc[t] \in {"exec", "close"} => data[held[t].frame] = Args
      /\ wr[t] # None /\ pg_table[t][wr[t]] # None =>
           /\ pg_table[t][wr[t]].frame # Low
           /\ wr[t] \in Private => pg_table[t][wr[t]].w
  BY DEF PlaceAt
<1>2. pc'[t] = "load" => held'[t].page \notin Private
  BY <1>1
<1>3. pc'[t] \in {"exec", "close"} => data'[held'[t].frame] = Args
  <2> SUFFICES ASSUME pc[t] \in {"exec", "close"} PROVE data'[held[t].frame] = Args
    OBVIOUS
  <2>1. held[t] # None
    BY DEF MemInv, ShapeInv, ShapeAt
  <2>2. held[t].frame \in Frame /\ held[t].frame # g
    BY <2>1, HeldIsApart DEF Maps
  <2> QED
    BY <1>1, <2>2 DEF DataKept
<1>4. wr'[t] # None /\ pg_table'[t][wr'[t]] # None =>
        /\ pg_table'[t][wr'[t]].frame # Low
        /\ wr'[t] \in Private => pg_table'[t][wr'[t]].w
  <2> SUFFICES ASSUME wr[t] # None, pg_table'[t][wr[t]] # None
               PROVE  /\ pg_table'[t][wr[t]].frame # Low
                      /\ wr[t] \in Private => pg_table'[t][wr[t]].w
    OBVIOUS
  <2>1. wr[t] \in Page
    BY DEF MemInv, TypeInv
  <2>2. \/ pg_table'[t][wr[t]] = pg_table[t][wr[t]]
        \/ wr[t] \notin Private /\ pg_table'[t][wr[t]].frame # Low
    BY <2>1
  <2> QED
    BY <1>1, <2>2
<1>5. Private' = Private
  BY DEF Private
<1> QED
  BY <1>2, <1>3, <1>4, <1>5 DEF PlaceAt

\* What a step of t leaves to the others.
LEMMA OthersKeepTheirPlace ==
  ASSUME MemInv, SpaceInv, NEW t \in Task, Others(t), NEW g, DataKept(g),
         \A u \in Task \ {t} : ~Maps(held[u], g),
         NEW u \in Task, u # t
  PROVE  PlaceAt(u)'
<1>1. /\ pc'[u] = pc[u] /\ held'[u] = held[u] /\ wr'[u] = wr[u]
      /\ pg_table'[u] = pg_table[u]
  BY DEF Others
<1> QED
  BY <1>1, PlaceKept DEF SpaceInv

\* A step in which nobody comes, goes, or finds anything else than before.
Quiet ==
  /\ SpaceInv'
  /\ \A u \in Task : pc'[u] \in Dead <=> pc[u] \in Dead
  /\ \A u \in Task, v \in Private : Finds(u, v)' = Finds(u, v)

\* None is no frame.
LEMMA NoneIsApart ==
  ASSUME TypeInv
  PROVE  /\ \A u \in Task : ~Maps(held[u], None) /\ \A v \in Page : ~Maps(pg_table[u][v], None)
         /\ data' = data => DataKept(None)
<1>1. None \notin Frame \cup {Low}
  BY Numbers
<1> QED
  BY <1>1 DEF TypeInv, Maps, Hold, Entry, DataKept

\* A step of t that changes at most the data of a page that nobody maps.
LEMMA QuietSpace ==
  ASSUME MemInv, SpaceInv, NEW t \in Task, Others(t), NEW g, DataKept(g),
         \A u \in Task, v \in Page : ~Maps(pg_table[u][v], g),
         \A u \in Task \ {t} : ~Maps(held[u], g),
         SameFrames(t), PlaceAt(t)', pc'[t] \in Dead <=> pc[t] \in Dead
  PROVE  Quiet
<1>1. ASSUME NEW u \in Task PROVE SameFrames(u)
  BY DEF Others, SameFrames
<1>2. SamePage'
  <2>1. \A u \in Task, v \in Page, f \in Frame :
           Maps(pg_table'[u][v], f) => Maps(pg_table[u][v], f)
    BY <1>1 DEF SameFrames, Maps
  <2>2. Stack \in Page /\ SamePage
    BY MemoryAssumption DEF SpaceInv
  <2> QED
    BY <2>1, <2>2, SamePageKept
<1>3. ASSUME NEW u \in Task PROVE PlaceAt(u)'
  BY OthersKeepTheirPlace
<1>4. ASSUME NEW u \in Task, NEW v \in Private PROVE Finds(u, v)' = Finds(u, v)
  <2>1. TypeInv /\ v \in Page
    BY DEF MemInv, Private
  <2>2. /\ pg_table'[u][v] = None <=> pg_table[u][v] = None
        /\ pg_table[u][v] # None => pg_table'[u][v].frame = pg_table[u][v].frame
    BY <1>1, <2>1 DEF SameFrames
  <2> QED
    BY <2>1, <2>2, FindsAsBefore
<1>5. \A u \in Task : pc'[u] \in Dead <=> pc[u] \in Dead
  BY DEF Others
<1>6. SpaceInv'
  BY <1>2, <1>3 DEF SpaceInv
<1> QED
  BY <1>4, <1>5, <1>6 DEF Quiet

\* t gets, at v, a page that nobody else has, with what it found there before.
LEMMA NewPageSpace ==
  ASSUME MemInv, SpaceInv, NEW t \in Task, Others(t), NEW v \in Page,
         NEW f \in Frame, DataKept(f),
         \A u \in Task, x \in Page : ~Maps(pg_table[u][x], f),
         \A u \in Task \ {t} : ~Maps(held[u], f),
         pg_table' = [pg_table EXCEPT ![t][v] = New(f)],
         v \in Private => data'[f] = Finds(t, v),
         pc[t] \notin Dead, pc'[t] \in {"user", "copy"},
         wr'[t] = wr[t] \/ wr'[t] = v
  PROVE  Quiet
<1>1. TypeInv /\ PlaceAt(t) /\ SamePage
  BY DEF MemInv, SpaceInv
<1>2. /\ pg_table'[t][v] = New(f)
      /\ \A x \in Page : x # v => pg_table'[t][x] = pg_table[t][x]
      /\ \A u \in Task : u # t => pg_table'[u] = pg_table[u]
  <2>1. pg_table \in [Task -> [Page -> Entry \cup {None}]]
    BY <1>1 DEF TypeInv
  <2>2. SetsEntry(t, v, New(f)) /\ New(f) \in Entry
    BY Numbers DEF SetsEntry
  <2> QED
    BY <2>1, <2>2, NewEntry
<1>3. New(f).frame = f /\ New(f).w /\ New(f) # None /\ f # Low
  BY Numbers DEF New, Maps
<1>4. SamePage'
  <2>1. \A u \in Task, x \in Page, g \in Frame :
           Maps(pg_table'[u][x], g) => Maps(pg_table[u][x], g) \/ (g = f /\ x = v)
    BY <1>2, <1>3 DEF Maps
  <2> QED
    BY <1>1, <2>1, SamePageKept
<1>5. PlaceAt(t)'
  <2>1. \/ wr'[t] = v
        \/ wr'[t] # v /\ wr'[t] = wr[t] /\ (wr[t] # None => wr[t] \in Page)
    BY <1>1 DEF TypeInv
  <2>2. wr'[t] # None /\ pg_table'[t][wr'[t]] # None =>
          /\ pg_table'[t][wr'[t]].frame # Low
          /\ wr'[t] \in Private => pg_table'[t][wr'[t]].w
    BY <1>1, <1>2, <1>3, <2>1 DEF PlaceAt
  <2> QED
    BY <2>2 DEF PlaceAt, Private
<1>6. ASSUME NEW u \in Task, u # t PROVE PlaceAt(u)'
  BY <1>6, OthersKeepTheirPlace
<1>7. ASSUME NEW u \in Task, NEW x \in Private PROVE Finds(u, x)' = Finds(u, x)
  <2>1. x \in Page
    BY DEF Private
  <2>2. CASE u = t /\ x = v
    BY <1>2, <1>3, <2>2 DEF Finds
  <2>3. CASE u # t \/ x # v
    <3>1. pg_table'[u][x] = pg_table[u][x]
      BY <1>2, <2>1, <2>3
    <3> QED
      BY <1>1, <2>1, <3>1, FindsAsBefore
  <2> QED
    BY <2>2, <2>3
<1>8. \A u \in Task : pc'[u] \in Dead <=> pc[u] \in Dead
  BY DEF Others, Dead
<1>9. SpaceInv'
  BY <1>4, <1>5, <1>6 DEF SpaceInv
<1> QED
  BY <1>7, <1>8, <1>9 DEF Quiet

\* A fault on a page of no file: what was nothing is a page of zeros.
LEMMA EmptyPageSpace ==
  ASSUME MemInv, SpaceInv, NEW t \in Task, NEW v \in Page, EmptyPage(t, v)
  PROVE  Quiet
<1> DEFINE f == get_free_page(mem_map)
<1>1. TypeInv
  BY DEF MemInv
<1>2. /\ pc[t] \in {"user", "copy"} /\ pg_table[t][v] = None /\ f # None
      /\ pg_table' = [pg_table EXCEPT ![t][v] = New(f)]
      /\ data' = [data EXCEPT ![f] = Zero]
      /\ pg_dir' = [pg_dir EXCEPT ![t][DirOf[v]] = TableFor(t, v, Taken(mem_map, f))]
      /\ UNCHANGED <<task, executable, pc, held, wr>>
  BY DEF EmptyPage, NoPageAt, Touches, put_page
<1>3. f \in Frame /\ mem_map[f] = 0
  BY <1>2, FreePage
<1> HIDE DEF f
<1>4. \A u \in Task : ~Maps(held[u], f) /\ \A x \in Page : ~Maps(pg_table[u][x], f)
  BY <1>3, FreeIsApart
<1>5. DataKept(f) /\ data'[f] = Zero
  BY <1>1, <1>2, <1>3 DEF DataKept, TypeInv
<1>6. Others(t)
  BY <1>1, <1>2 DEF Others, TypeInv
<1>7. Finds(t, v) = Zero
  BY <1>2 DEF Finds
<1> QED
  BY <1>2, <1>3, <1>4, <1>5, <1>6, <1>7, NewPageSpace DEF Dead

\* The page that was read from the file is text or data.
LEMMA LoadsSpace ==
  ASSUME MemInv, SpaceInv, NEW t \in Task, Loads(t)
  PROVE  Quiet
<1> DEFINE f == held[t].frame
           v == held[t].page
<1>1. TypeInv /\ ShapeAt(t) /\ PlaceAt(t)
  BY DEF MemInv, ShapeInv, SpaceInv
<1>2. /\ pc[t] = "load"
      /\ pg_table' = [pg_table EXCEPT ![t][v] = New(f)]
      /\ data' = [data EXCEPT ![f] = held[t].file]
      /\ pg_dir' = [pg_dir EXCEPT ![t][DirOf[v]] = TableFor(t, v, mem_map)]
      /\ pc' = [pc EXCEPT ![t] = IF page[t] = None THEN "user" ELSE "copy"]
      /\ held' = [held EXCEPT ![t] = None]
      /\ UNCHANGED <<task, executable, wr>>
  BY DEF Loads, put_page
<1>3. held[t] # None /\ v \in Page /\ v \notin Private
  BY <1>1, <1>2 DEF ShapeAt, TypeInv, Hold, PlaceAt
<1>4. /\ f \in Frame
      /\ \A u \in Task, x \in Page : ~Maps(pg_table[u][x], f)
      /\ \A u \in Task \ {t} : ~Maps(held[u], f)
  BY <1>3, HeldIsApart
<1> HIDE DEF f, v
<1>5. DataKept(f)
  BY <1>1, <1>2, <1>4 DEF DataKept, TypeInv
<1>6. Others(t) /\ pc'[t] \in {"user", "copy"} /\ wr'[t] = wr[t]
  BY <1>1, <1>2 DEF Others, TypeInv
<1> QED
  BY <1>2, <1>3, <1>4, <1>5, <1>6, NewPageSpace DEF Dead

\* Reading the file begins: nobody has the page yet.
LEMMA StartLoadSpace ==
  ASSUME MemInv, SpaceInv, NEW t \in Task, NEW v \in Page, StartLoad(t, v)
  PROVE  Quiet
<1> DEFINE f == get_free_page(mem_map)
           h == [page |-> v, frame |-> f, file |-> executable[t]]
<1>1. TypeInv /\ PlaceAt(t)
  BY DEF MemInv, SpaceInv
<1>2. /\ pc[t] \in {"user", "copy"} /\ InProgram(t, v) /\ f # None
      /\ data' = [data EXCEPT ![f] = Zero]
      /\ held' = [held EXCEPT ![t] = h]
      /\ pc' = [pc EXCEPT ![t] = "load"]
      /\ UNCHANGED <<task, pg_dir, pg_table, executable, wr>>
  BY DEF StartLoad, NoPageAt, Touches
<1>3. f \in Frame /\ mem_map[f] = 0
  BY <1>2, FreePage
<1> HIDE DEF f
<1>4. \A u \in Task : ~Maps(held[u], f) /\ \A x \in Page : ~Maps(pg_table[u][x], f)
  BY <1>3, FreeIsApart
<1>5. DataKept(f)
  BY <1>1, <1>2, <1>3 DEF DataKept, TypeInv
<1>6. Others(t) /\ pc'[t] = "load" /\ held'[t].page = v
  BY <1>1, <1>2 DEF Others, TypeInv
<1>7. v \notin Private
  BY <1>1, <1>2 DEF InProgram, Private, TypeInv
<1>8. PlaceAt(t)'
  BY <1>1, <1>2, <1>6, <1>7 DEF PlaceAt, Private
<1>9. SameFrames(t)
  BY <1>2 DEF SameFrames
<1> QED
  BY <1>2, <1>4, <1>5, <1>6, <1>8, <1>9, QuietSpace DEF Dead

\* exec takes a page for the strings: nobody has it.
LEMMA ExecSpace ==
  ASSUME MemInv, SpaceInv, NEW t \in Task, do_execve(t)
  PROVE  Quiet
<1> DEFINE f == get_free_page(mem_map)
<1>1. TypeInv
  BY DEF MemInv
<1>2. /\ pc[t] = "user" /\ wr[t] = None /\ f # None
      /\ data' = [data EXCEPT ![f] = Zero]
      /\ pc' = [pc EXCEPT ![t] = "copy"]
      /\ UNCHANGED <<task, pg_dir, pg_table, executable, held, wr>>
  BY DEF do_execve, InUser
<1>3. f \in Frame /\ mem_map[f] = 0
  BY <1>2, FreePage
<1> HIDE DEF f
<1>4. \A u \in Task : ~Maps(held[u], f) /\ \A x \in Page : ~Maps(pg_table[u][x], f)
  BY <1>3, FreeIsApart
<1>5. DataKept(f)
  BY <1>1, <1>2, <1>3 DEF DataKept, TypeInv
<1>6. Others(t) /\ pc'[t] = "copy" /\ wr'[t] = None
  BY <1>1, <1>2 DEF Others, TypeInv
<1>7. PlaceAt(t)'
  BY <1>6 DEF PlaceAt
<1>8. SameFrames(t)
  BY <1>2 DEF SameFrames
<1> QED
  BY <1>2, <1>4, <1>5, <1>6, <1>7, <1>8, QuietSpace DEF Dead

\* The strings go into a page that nobody has mapped.
LEMMA StringsCopiedSpace ==
  ASSUME MemInv, SpaceInv, NEW t \in Task, NEW file \in File, StringsCopied(t, file)
  PROVE  Quiet
<1> DEFINE f == page[t]
           h == [page |-> Stack, frame |-> f, file |-> file]
<1>1. TypeInv /\ ShapeAt(t) /\ StringsInv
  BY DEF MemInv, ShapeInv
<1>2. /\ pc[t] = "copy"
      /\ data' = [data EXCEPT ![f] = Args]
      /\ held' = [held EXCEPT ![t] = h]
      /\ pc' = [pc EXCEPT ![t] = "exec"]
      /\ UNCHANGED <<task, pg_dir, pg_table, executable, wr>>
  BY DEF StringsCopied
<1>3. f \in strings
  BY <1>1, <1>2 DEF ShapeAt, StringsInv
<1>4. f \in Frame /\ \A u \in Task : Uses(u, f) = 0
  BY <1>3, StringsApart
<1> HIDE DEF f
<1>5. \A u \in Task : ~Maps(held[u], f) /\ \A x \in Page : ~Maps(pg_table[u][x], f)
  BY <1>4, NotUsed
<1>6. DataKept(f) /\ data'[f] = Args
  BY <1>1, <1>2, <1>4 DEF DataKept, TypeInv
<1>7. Others(t) /\ pc'[t] = "exec" /\ held'[t].frame = f /\ wr'[t] = wr[t]
  BY <1>1, <1>2 DEF Others, TypeInv
<1>8. PlaceAt(t)'
  <2>1. wr[t] = None
    BY <1>1, <1>2 DEF ShapeAt
  <2> QED
    BY <1>6, <1>7, <2>1 DEF PlaceAt
<1>9. SameFrames(t)
  BY <1>2 DEF SameFrames
<1> QED
  BY <1>2, <1>5, <1>6, <1>7, <1>8, <1>9, QuietSpace DEF Dead

\* A step of t that changes neither data nor page tables.
LEMMA NoDataSpace ==
  ASSUME MemInv, SpaceInv, NEW t \in Task, Others(t),
         data' = data, pg_table' = pg_table,
         PlaceAt(t)', pc'[t] \in Dead <=> pc[t] \in Dead
  PROVE  Quiet
<1>1. TypeInv
  BY DEF MemInv
<1>2. SameFrames(t)
  BY DEF SameFrames
<1> QED
  BY <1>1, <1>2, NoneIsApart, QuietSpace

\* exec fails, or gives up the old program.
LEMMA ExecEndsSpace ==
  ASSUME MemInv, SpaceInv, NEW t \in Task, ExecFails(t) \/ NoReturn(t)
  PROVE  Quiet
<1>1. TypeInv /\ ShapeAt(t) /\ PlaceAt(t)
  BY DEF MemInv, ShapeInv, SpaceInv
<1>2. /\ wr' = wr /\ data' = data /\ pg_table' = pg_table
      /\ pg_dir' = pg_dir /\ task' = task /\ held' = held
      /\ \/ pc[t] = "copy" /\ pc' = [pc EXCEPT ![t] = "user"]
         \/ pc[t] = "exec" /\ pc' = [pc EXCEPT ![t] = "close"]
  BY DEF ExecFails, NoReturn
<1>3. wr[t] = None
  BY <1>1, <1>2 DEF ShapeAt
<1>4. Others(t) /\ pc'[t] \in {"user", "close"}
  BY <1>1, <1>2 DEF Others, TypeInv
<1>5. PlaceAt(t)'
  <2>1. pc'[t] = "close" => pc[t] = "exec"
    BY <1>1, <1>2 DEF TypeInv
  <2> QED
    BY <1>1, <1>2, <1>3, <1>4, <2>1 DEF PlaceAt
<1> QED
  BY <1>2, <1>4, <1>5, NoDataSpace DEF Dead

\* A system call returns before it writes.
LEMMA CallFailsSpace ==
  ASSUME MemInv, SpaceInv, NEW t \in Task, CallFails(t)
  PROVE  Quiet
<1>1. TypeInv
  BY DEF MemInv
<1>2. /\ pc[t] = "user" /\ wr' = [wr EXCEPT ![t] = None]
      /\ UNCHANGED <<data, task, pg_dir, pg_table, pc, held>>
  BY DEF CallFails
<1>3. Others(t) /\ wr'[t] = None
  BY <1>1, <1>2 DEF Others, TypeInv
<1>4. PlaceAt(t)'
  BY <1>2, <1>3 DEF PlaceAt
<1> QED
  BY <1>2, <1>3, <1>4, NoDataSpace

\* What happens to a task after its end.
LEMMA DeadSpace ==
  ASSUME MemInv, SpaceInv, NEW t \in Task, ExitClosed(t) \/ release(t)
  PROVE  Quiet
<1>1. TypeInv /\ ShapeAt(t)
  BY DEF MemInv, ShapeInv
<1>2. /\ pc[t] \in Dead /\ UNCHANGED <<data, pg_dir, pg_table, held, wr>>
      /\ task' = task \/ task' = [task EXCEPT ![t] = None]
      /\ pc' = [pc EXCEPT ![t] = "zombie"] \/ pc' = [pc EXCEPT ![t] = "free"]
  BY DEF ExitClosed, release, Dead
<1>3. Others(t) /\ pc'[t] \in {"free", "zombie"}
  BY <1>1, <1>2 DEF Others, TypeInv
<1>4. wr'[t] = None
  BY <1>1, <1>2 DEF ShapeAt, Dead
<1>5. PlaceAt(t)'
  BY <1>3, <1>4 DEF PlaceAt
<1> QED
  BY <1>2, <1>3, <1>5, NoDataSpace DEF Dead

\* A fork that fails leaves the parent the same pages.
LEMMA OutOfMemorySpace ==
  ASSUME MemInv, SpaceInv, NEW t \in Task, NEW c \in Task, OutOfMemory(t, c)
  PROVE  Quiet
<1> DEFINE map == Taken(mem_map, get_free_page(mem_map))
           dirs == FirstDirs(t, Cardinality(FreePages(map)))
<1>1. TypeInv
  BY DEF MemInv
<1>2. /\ pc[t] = "user" /\ wr[t] = None
      /\ pg_table' = [pg_table EXCEPT ![t] = ParentTable(t, dirs)]
      /\ UNCHANGED <<data, task, pg_dir, executable, pc, held, wr>>
  BY DEF OutOfMemory, InUser
<1> HIDE DEF dirs
<1>3. Others(t) /\ pg_table'[t] = ParentTable(t, dirs)
  BY <1>1, <1>2 DEF Others, TypeInv
<1>4. SameFrames(t)
  BY <1>1, <1>3, ForkedTables DEF SameFrames
<1>5. PlaceAt(t)'
  BY <1>2 DEF PlaceAt
<1> QED
  BY <1>1, <1>2, <1>3, <1>4, <1>5, NoneIsApart, QuietSpace

\* un_wp_page leaves a page that can be written to, with the same data.
LEMMA UnWriteProtectedSpace ==
  ASSUME MemInv, SpaceInv, NEW t \in Task, NEW v \in Page, pc[t] = "user", wr[t] = None,
         ReadOnly(t, v), un_wp_page(t, v),
         UNCHANGED <<task, pg_dir, executable, pc, held, page, strings>>,
         wr' = [wr EXCEPT ![t] = v] \/ wr' = wr
  PROVE  Quiet
<1> DEFINE old == pg_table[t][v].frame
           new == get_free_page(mem_map)
<1>1. TypeInv
  BY DEF MemInv
<1>2. pg_table[t][v] # None /\ pg_table[t][v] \in Entry /\ old \in Frame \cup {Low}
  BY <1>1 DEF ReadOnly, TypeInv, Entry
<1>3. wr'[t] = wr[t] \/ wr'[t] = v
  BY <1>1 DEF TypeInv
<1>4. ASSUME SoleUser(old), pg_table' = [pg_table EXCEPT ![t][v].w = TRUE], data' = data
      PROVE  Quiet
  <2> DEFINE e == [pg_table[t][v] EXCEPT !.w = TRUE]
  <2>1. e \in Entry /\ e.frame = old /\ e.w
    BY <1>2 DEF Entry
  <2>2. SetsEntry(t, v, e) /\ pg_table \in [Task -> [Page -> Entry \cup {None}]]
    BY <1>1, <1>4 DEF SetsEntry, TypeInv
  <2> HIDE DEF e, old
  <2>3. /\ pg_table'[t][v] = e
        /\ \A x \in Page : x # v => pg_table'[t][x] = pg_table[t][x]
        /\ \A u \in Task : u # t => pg_table'[u] = pg_table[u]
    BY <2>1, <2>2, NewEntry
  <2>4. old \in Frame /\ old # Low
    BY <1>4, Numbers DEF SoleUser
  <2>5. SameFrames(t)
    BY <1>2, <2>1, <2>3, Numbers DEF SameFrames, old
  <2>6. Others(t)
    BY <1>1, <2>3 DEF Others, TypeInv
  <2>7. PlaceAt(t)'
    BY <1>3, <2>1, <2>3, <2>4 DEF PlaceAt
  <2> QED
    BY <1>1, <1>4, <2>5, <2>6, <2>7, NoneIsApart, QuietSpace
<1>5. ASSUME new # None, data' = [data EXCEPT ![new] = data[old]],
             pg_table' = [pg_table EXCEPT ![t][v] = New(new)]
      PROVE  Quiet
  <2>1. new \in Frame /\ mem_map[new] = 0
    BY <1>5, FreePage
  <2>2. Finds(t, v) = data[old]
    BY <1>2 DEF Finds
  <2> HIDE DEF new, old
  <2>3. \A u \in Task : ~Maps(held[u], new) /\ \A x \in Page : ~Maps(pg_table[u][x], new)
    BY <2>1, FreeIsApart
  <2>4. DataKept(new) /\ data'[new] = data[old]
    BY <1>1, <1>5, <2>1 DEF DataKept, TypeInv
  <2>5. Others(t)
    BY <1>1, <1>5 DEF Others, TypeInv
  <2> QED
    BY <1>3, <1>5, <2>1, <2>2, <2>3, <2>4, <2>5, NewPageSpace DEF Dead
<1> QED
  BY <1>4, <1>5 DEF un_wp_page

\* verify_area and a page that is there already, or not at all.
LEMMA VerifiedSpace ==
  ASSUME MemInv, SpaceInv, NEW t \in Task, NEW v \in Page, InUser(t), ~ReadOnly(t, v),
         wr' = [wr EXCEPT ![t] = v],
         UNCHANGED <<mem_map, data, task, pg_dir, pg_table, executable, pc, held, page,
                          strings>>
  PROVE  Quiet
<1>1. TypeInv /\ pc[t] = "user"
  BY DEF MemInv, InUser
<1>2. Others(t) /\ wr'[t] = v
  BY <1>1 DEF Others, TypeInv
<1>3. pg_table[t][v] # None => pg_table[t][v].w /\ pg_table[t][v].frame # Low
  BY WritableIsAlone, Numbers DEF ReadOnly
<1>4. PlaceAt(t)'
  BY <1>1, <1>2, <1>3 DEF PlaceAt
<1> QED
  BY <1>2, <1>4, NoDataSpace

\* A page of the program is shared: it is text or data, at the same place.
LEMMA SharePageSpace ==
  ASSUME MemInv, SpaceInv, NEW t \in Task, NEW v \in Page, SharePage(t, v)
  PROVE  Quiet
<1> DEFINE p == CHOOSE q \in Sharers(t, v) : \A r \in Sharers(t, v) : r <= q
           e == Protected(pg_table[p][v])
<1>1. TypeInv /\ SamePage
  BY DEF MemInv, SpaceInv
<1>2. /\ pc[t] \in {"user", "copy"} /\ InProgram(t, v) /\ Sharers(t, v) # {}
      /\ pg_table' = [pg_table EXCEPT ![t][v] = e, ![p][v] = e]
      /\ UNCHANGED <<data, task, executable, pc, held, wr, page, strings>>
  BY DEF SharePage, NoPageAt, Touches
<1>3. p \in Task /\ p # t /\ pg_table[p][v] # None /\ pg_table[p][v].frame # Low
  <2>1. p \in Sharers(t, v)
    BY <1>2, GreatestSharer
  <2> HIDE DEF p
  <2> QED
    BY <2>1 DEF Sharers
<1> HIDE DEF p
<1>4. e.frame = pg_table[p][v].frame /\ e.frame \in Frame /\ Maps(pg_table[p][v], e.frame)
  <2>1. pg_table[p][v] \in Entry
    BY <1>1, <1>3 DEF TypeInv
  <2> QED
    BY <1>3, <2>1 DEF Protected, Entry, Maps
<1> HIDE DEF e
<1>5. ASSUME NEW u \in Task, NEW x \in Page
      PROVE  pg_table'[u][x] = IF x = v /\ u \in {t, p} THEN e ELSE pg_table[u][x]
  BY <1>1, <1>2, <1>3 DEF TypeInv
<1>6. v \notin Private
  BY <1>1, <1>2 DEF InProgram, Private, TypeInv
<1>7. SamePage'
  <2>1. \A u \in Task, x \in Page, f \in Frame :
          Maps(pg_table'[u][x], f) => \/ \E q \in Task : Maps(pg_table[q][x], f)
                                      \/ f = e.frame /\ x = v
    BY <1>5 DEF Maps
  <2>2. \A u \in Task, x \in Page : Maps(pg_table[u][x], e.frame) => x = v
    BY <1>1, <1>3, <1>4 DEF SamePage
  <2> QED
    BY <1>1, <2>1, <2>2, SamePageKept
<1>8. ASSUME NEW u \in Task PROVE PlaceAt(u)'
  <2>1. \A x \in Page :
          \/ pg_table'[u][x] = pg_table[u][x]
          \/ x \notin Private /\ pg_table'[u][x].frame # Low
    BY <1>4, <1>5, <1>6, Numbers
  <2>2. PlaceAt(u) /\ ~Maps(held[u], None) /\ DataKept(None)
    BY <1>1, <1>2, NoneIsApart DEF SpaceInv
  <2> QED
    BY <1>2, <2>1, <2>2, PlaceKept
<1>9. ASSUME NEW u \in Task, NEW x \in Private PROVE Finds(u, x)' = Finds(u, x)
  <2>1. pg_table'[u][x] = pg_table[u][x]
    BY <1>5, <1>6 DEF Private
  <2> QED
    BY <1>2, <2>1 DEF Finds
<1>10. SpaceInv'
  BY <1>7, <1>8 DEF SpaceInv
<1> QED
  BY <1>2, <1>9, <1>10 DEF Quiet

\* Whoever writes to a page writes to its own, or to text and data.
LEMMA WriteSpace ==
  ASSUME MemInv, SpaceInv, NEW t \in Task, NEW v \in Page,
         pg_table[t][v] # None, pg_table[t][v].frame # Low,
         v \in Private => pg_table[t][v].w,
         pc[t] = "user", Written(t, v, t),
         UNCHANGED <<mem_map, task, pg_dir, executable, pc, held>>,
         (wr[t] = None /\ wr' = wr) \/ wr' = [wr EXCEPT ![t] = None]
  PROVE  /\ SpaceInv'
         /\ \A u \in Task, x \in Private :
              Finds(u, x)' = IF u = t /\ x = v THEN t ELSE Finds(u, x)
<1> DEFINE f == pg_table[t][v].frame
           e == [pg_table[t][v] EXCEPT !.dirty = TRUE]
<1>1. TypeInv /\ SamePage
  BY DEF MemInv, SpaceInv
<1>2. /\ pg_table[t][v] \in Entry /\ f \in Frame /\ Maps(pg_table[t][v], f)
      /\ e \in Entry /\ e.frame = f
  <2>1. pg_table[t][v] \in Entry
    BY <1>1 DEF TypeInv
  <2>2. e \in Entry /\ e.frame = f /\ f \in Frame
    BY <2>1 DEF Entry
  <2> QED
    BY <2>1, <2>2 DEF Maps
<1>3. SetsEntry(t, v, e) /\ data' = [data EXCEPT ![f] = t]
  BY DEF Written, SetsEntry
<1> HIDE DEF e, f
<1>4. /\ pg_table'[t][v] = e
      /\ \A x \in Page : x # v => pg_table'[t][x] = pg_table[t][x]
      /\ \A u \in Task : u # t => pg_table'[u] = pg_table[u]
  <2>1. pg_table \in [Task -> [Page -> Entry \cup {None}]]
    BY <1>1 DEF TypeInv
  <2> QED
    BY <1>2, <1>3, <2>1, NewEntry
<1>5. Others(t) /\ wr'[t] = None
  BY <1>1, <1>4 DEF Others, TypeInv
<1>6. DataKept(f) /\ data'[f] = t
  BY <1>1, <1>2, <1>3 DEF DataKept, TypeInv
<1>7. \A u \in Task : ~Maps(held[u], f)
  <2>1. ASSUME NEW u \in Task, Maps(held[u], f) PROVE FALSE
    <3>1. held[u] # None /\ held[u].frame = f
      BY <2>1 DEF Maps
    <3> QED
      BY <1>2, <3>1, HeldIsApart
  <2> QED
    BY <2>1
<1>8. \A u \in Task, x \in Page :
        /\ pg_table'[u][x] = None <=> pg_table[u][x] = None
        /\ pg_table[u][x] # None => pg_table'[u][x].frame = pg_table[u][x].frame
  BY <1>2, <1>4, Numbers DEF f
<1>9. SamePage'
  <2>1. \A u \in Task, x \in Page, g \in Frame :
          Maps(pg_table'[u][x], g) => Maps(pg_table[u][x], g)
    BY <1>8 DEF Maps
  <2>2. \A u \in Task, x \in Page : Maps(pg_table[u][x], f) => x = v
    BY <1>1, <1>2 DEF SamePage
  <2> QED
    BY <1>1, <2>1, <2>2, SamePageKept
<1>10. PlaceAt(t)'
  BY <1>5 DEF PlaceAt
<1>11. ASSUME NEW u \in Task, u # t PROVE PlaceAt(u)'
  BY <1>5, <1>6, <1>7, <1>11, OthersKeepTheirPlace
<1>12. ASSUME NEW u \in Task, NEW x \in Private
       PROVE  Finds(u, x)' = IF u = t /\ x = v THEN t ELSE Finds(u, x)
  <2>1. x \in Page
    BY DEF Private
  <2>2. CASE u = t /\ x = v
    BY <1>2, <1>4, <1>6, <2>2, Numbers DEF Finds
  <2>3. CASE ~(u = t /\ x = v)
    <3>1. ~Maps(pg_table[u][x], f)
      <4>1. CASE v \in Private
        BY <2>1, <2>3, <4>1, WritableIsAlone DEF f
      <4>2. CASE v \notin Private
        BY <1>1, <1>2, <2>1, <4>2 DEF SamePage
      <4> QED
        BY <4>1, <4>2
    <3>2. Finds(u, x)' = Finds(u, x)
      BY <1>1, <1>6, <1>8, <2>1, <3>1, FindsAsBefore
    <3> QED
      BY <2>3, <3>2
  <2> QED
    BY <2>2, <2>3
<1> QED
  BY <1>9, <1>10, <1>11, <1>12 DEF SpaceInv

\* A task that ends has no pages, and leaves the others theirs.
LEMMA ExitSpace ==
  ASSUME MemInv, SpaceInv, NEW t \in Task, NEW map, do_exit(t, map)
  PROVE  /\ SpaceInv'
         /\ pc'[t] = "exit" /\ \A u \in Task : u # t => pc'[u] = pc[u]
         /\ \A u \in Task, x \in Private :
              Finds(u, x)' = IF u = t THEN Zero ELSE Finds(u, x)
<1>1. TypeInv /\ SamePage
  BY DEF MemInv, SpaceInv
<1>2. /\ pg_dir' = [pg_dir EXCEPT ![t] = NoDir]
      /\ pg_table' = [pg_table EXCEPT ![t] = NoPage]
      /\ pc' = [pc EXCEPT ![t] = "exit"]
      /\ held' = [held EXCEPT ![t] = None]
      /\ wr' = [wr EXCEPT ![t] = None]
      /\ UNCHANGED <<data, task, executable>>
  BY DEF do_exit
<1>3. Others(t) /\ pc'[t] = "exit" /\ wr'[t] = None /\ pg_table'[t] = NoPage
  BY <1>1, <1>2 DEF Others, TypeInv
<1>4. SamePage'
  <2>1. \A u \in Task, x \in Page, f \in Frame :
          Maps(pg_table'[u][x], f) => Maps(pg_table[u][x], f)
    BY <1>3 DEF Others, Maps, NoPage
  <2>2. Stack \in Page /\ \A u \in Task, x \in Page : ~Maps(pg_table[u][x], None)
    BY <1>1, NoneIsApart, MemoryAssumption
  <2> QED
    BY <1>1, <2>1, <2>2, SamePageKept
<1>5. PlaceAt(t)'
  BY <1>3 DEF PlaceAt
<1>6. ASSUME NEW u \in Task, u # t PROVE PlaceAt(u)'
  BY <1>1, <1>2, <1>3, <1>6, NoneIsApart, OthersKeepTheirPlace
<1>7. \A u \in Task, x \in Private :
        Finds(u, x)' = IF u = t THEN Zero ELSE Finds(u, x)
  BY <1>2, <1>3 DEF Finds, Others, NoPage, Private
<1>8. SpaceInv'
  BY <1>4, <1>5, <1>6 DEF SpaceInv
<1> QED
  BY <1>3, <1>7, <1>8 DEF Others

\* exec: the old pages go, the new stack holds the arguments.
LEMMA ChangeProgramSpace ==
  ASSUME MemInv, SpaceInv, NEW t \in Task, ChangeProgram(t)
  PROVE  /\ SpaceInv'
         /\ pc[t] \notin Dead /\ \A u \in Task : pc'[u] \in Dead <=> pc[u] \in Dead
         /\ \A u \in Task, x \in Private :
              Finds(u, x)' = IF u # t THEN Finds(u, x)
                             ELSE IF x = Stack THEN Args ELSE Zero
<1> DEFINE f == held[t].frame
           e == [New(f) EXCEPT !.dirty = TRUE]
           table == [NoPage EXCEPT ![Stack] = e]
<1>1. TypeInv /\ ShapeAt(t) /\ PlaceAt(t) /\ SamePage
  BY DEF MemInv, ShapeInv, SpaceInv
<1>2. pc[t] = "close"
  BY DEF ChangeProgram
<1>3. get_free_page(free_page_tables(mem_map, pg_dir[t], pg_table[t])) # None
  BY <1>2, TableIsFreed, Numbers DEF Dead
<1>4. /\ pg_table' = [pg_table EXCEPT ![t] = table]
      /\ pc' = [pc EXCEPT ![t] = "user"] /\ held' = [held EXCEPT ![t] = None]
      /\ UNCHANGED <<data, task, executable, wr>>
  BY <1>3 DEF ChangeProgram
<1>5. pg_dir' = [pg_dir EXCEPT ![t] = pg_dir'[t]]
  BY <1>1 DEF ChangeProgram, TypeInv
<1>6. held[t] # None /\ wr[t] = None /\ data[f] = Args
  BY <1>1, <1>2 DEF ShapeAt, PlaceAt
<1>7. f \in Frame /\ \A u \in Task, x \in Page : ~Maps(pg_table[u][x], f)
  BY <1>6, HeldIsApart
<1>8. Stack \in Page /\ Stack \in Private
  BY MemoryAssumption DEF Private
<1>9. e.frame = f /\ e # None
  <2>1. e \in Entry /\ e.frame = f
    BY <1>7, Numbers DEF New, Entry
  <2> QED
    BY <2>1, Numbers
<1> HIDE DEF e, f
<1>10. /\ table[Stack] = e /\ \A x \in Page : x # Stack => table[x] = None
  BY <1>8 DEF NoPage
<1> HIDE DEF table
<1>11. Others(t) /\ pg_table'[t] = table /\ pc'[t] = "user" /\ wr'[t] = None
  BY <1>1, <1>4, <1>5, <1>6 DEF Others, TypeInv
<1>12. SamePage'
  <2>1. \A u \in Task, x \in Page, g \in Frame :
          Maps(pg_table'[u][x], g) => Maps(pg_table[u][x], g) \/ (g = f /\ x = Stack)
    BY <1>9, <1>10, <1>11 DEF Maps, Others
  <2> QED
    BY <1>1, <1>7, <1>8, <2>1, SamePageKept
<1>13. PlaceAt(t)'
  BY <1>11 DEF PlaceAt
<1>14. ASSUME NEW u \in Task, u # t PROVE PlaceAt(u)'
  BY <1>1, <1>4, <1>11, <1>14, NoneIsApart, OthersKeepTheirPlace
<1>15. ASSUME NEW u \in Task, NEW x \in Private
       PROVE  Finds(u, x)' = IF u # t THEN Finds(u, x)
                             ELSE IF x = Stack THEN Args ELSE Zero
  <2>1. x \in Page
    BY DEF Private
  <2>2. CASE u # t
    BY <1>4, <1>11, <2>2 DEF Finds, Others
  <2>3. CASE u = t
    BY <1>4, <1>6, <1>9, <1>10, <1>11, <2>1, <2>3 DEF Finds
  <2> QED
    BY <2>2, <2>3
<1>16. SpaceInv'
  BY <1>12, <1>13, <1>14 DEF SpaceInv
<1> QED
  BY <1>2, <1>11, <1>15, <1>16 DEF Others, Dead

\* fork: the child finds what the parent finds.
LEMMA ForkSpace ==
  ASSUME MemInv, SpaceInv, NEW t \in Task, NEW c \in Task, copy_process(t, c)
  PROVE  /\ SpaceInv'
         /\ pc[t] = "user" /\ pc[c] = "free" /\ pc'[c] = "user"
         /\ \A u \in Task : u # c => pc'[u] = pc[u]
         /\ \A u \in Task, x \in Private :
              Finds(u, x)' = IF u = c THEN Finds(t, x) ELSE Finds(u, x)
<1> DEFINE dirs == FirstDirs(t, Cardinality(FreePages(Taken(mem_map, get_free_page(mem_map)))))
           child == ChildTable(t, dirs)
           parent == ParentTable(t, dirs)
<1>1. TypeInv /\ ShapeAt(t) /\ ShapeAt(c) /\ SamePage
  BY DEF MemInv, ShapeInv, SpaceInv
<1>2. /\ pc[t] = "user" /\ wr[t] = None /\ pc[c] = "free" /\ dirs = Present(t)
      /\ pg_table' = [pg_table EXCEPT ![c] = child, ![t] = parent]
      /\ pc' = [pc EXCEPT ![c] = "user"]
      /\ data' = data /\ held' = held /\ wr' = wr
  BY DEF copy_process, InUser, FirstFree
<1> HIDE DEF dirs
<1>3. /\ \A v \in Page : child[v] # None => child[v].frame = pg_table[t][v].frame
      /\ \A v \in Page : child[v] # None <=> v \in CopiedIn(t, dirs)
      /\ \A v \in Page : (parent[v] # None) <=> (pg_table[t][v] # None)
      /\ \A v \in Page : pg_table[t][v] # None => parent[v].frame = pg_table[t][v].frame
  <2>1. ASSUME NEW v \in Page, v \in CopiedIn(t, dirs) PROVE child[v] # None
    <3>1. pg_table[t][v] \in Entry
      BY <1>1, <2>1 DEF TypeInv, CopiedIn, Mapped
    <3>2. Protected(pg_table[t][v]) \in Entry
      BY <3>1 DEF Protected, Entry
    <3> QED
      BY <2>1, <3>2, Numbers DEF ChildTable
  <2> QED
    BY <1>1, <2>1, ForkedTables
<1> HIDE DEF child, parent
<1>4. ASSUME NEW v \in Page
      PROVE  child[v] # None <=> pg_table[t][v] # None
  <2>1. pg_table[t][v] # None => DirOf[v] \in dirs
    BY <1>1, <1>2, MemoryAssumption DEF ShapeAt, Present
  <2> QED
    BY <1>3, <2>1 DEF CopiedIn, Mapped
<1>5. c # t /\ wr[c] = None
  BY <1>1, <1>2 DEF ShapeAt
<1>6. /\ pg_table'[c] = child /\ pg_table'[t] = parent
      /\ \A u \in Task : u # c /\ u # t => pg_table'[u] = pg_table[u]
      /\ pc'[c] = "user" /\ \A u \in Task : u # c => pc'[u] = pc[u]
  BY <1>1, <1>2, <1>5 DEF TypeInv
<1>7. SamePage'
  <2>1. ASSUME NEW u \in Task, NEW v \in Page, NEW f \in Frame, Maps(pg_table'[u][v], f)
        PROVE  \E q \in Task : Maps(pg_table[q][v], f)
    <3>1. CASE u \in {c, t}
      BY <1>3, <1>4, <1>6, <2>1, <3>1 DEF Maps
    <3>2. CASE u \notin {c, t}
      BY <1>6, <2>1, <3>2
    <3> QED
      BY <3>1, <3>2
  <2>2. Stack \in Page /\ \A u \in Task, x \in Page : ~Maps(pg_table[u][x], None)
    BY <1>1, NoneIsApart, MemoryAssumption
  <2> QED
    BY <1>1, <2>1, <2>2, SamePageKept
<1>8. ASSUME NEW u \in Task PROVE PlaceAt(u)'
  <2>1. CASE u \in {c, t}
    BY <1>2, <1>5, <1>6, <2>1 DEF PlaceAt
  <2>2. CASE u \notin {c, t}
    <3>1. PlaceAt(u) /\ ~Maps(held[u], None) /\ DataKept(None)
      BY <1>1, <1>2, NoneIsApart DEF SpaceInv
    <3> QED
      BY <1>2, <1>6, <2>2, <3>1, PlaceKept
  <2> QED
    BY <2>1, <2>2
<1>9. ASSUME NEW u \in Task, NEW x \in Private
      PROVE  Finds(u, x)' = IF u = c THEN Finds(t, x) ELSE Finds(u, x)
  <2>1. x \in Page
    BY DEF Private
  <2>2. CASE u = c
    BY <1>2, <1>3, <1>4, <1>6, <2>1, <2>2 DEF Finds
  <2>3. CASE u = t
    BY <1>2, <1>3, <1>5, <1>6, <2>1, <2>3 DEF Finds
  <2>4. CASE u \notin {c, t}
    <3>1. pg_table'[u] = pg_table[u]
      BY <1>6, <2>4
    <3> QED
      BY <1>2, <2>4, <3>1 DEF Finds
  <2> QED
    BY <2>2, <2>3, <2>4
<1>10. SpaceInv'
  BY <1>7, <1>8 DEF SpaceInv
<1> QED
  BY <1>2, <1>6, <1>9, <1>10

Live == {t \in Task : pc[t] \notin {"free", "exit", "zombie"}}

\* What the steps do, in the terms of module AddressSpace.
SpaceStep == SpaceInv' /\ (Memories!Next \/ UNCHANGED <<Live, Image>>)

\* The images are what the tasks find.
LEMMA ImageIs ==
  /\ Image = [t \in Task |-> [v \in Private |-> Finds(t, v)]]
  /\ Image' = [t \in Task |-> [v \in Private |-> Finds(t, v)']]
BY DEF Image, Finds, Private

\* A quiet step is no step of the memories.
LEMMA QuietStutters == Quiet => SpaceStep
<1> SUFFICES ASSUME Quiet PROVE SpaceStep
  OBVIOUS
<1>1. \A u \in Task : pc'[u] \in Dead <=> pc[u] \in Dead
  BY DEF Quiet
<1>2. Live' = Live
  BY <1>1 DEF Live, Dead
<1>3. Image' = Image
  BY ImageIs DEF Quiet
<1> QED
  BY <1>2, <1>3 DEF SpaceStep, Quiet

\* A write of t to page v.
LEMMA WriteIsWrite ==
  ASSUME MemInv, SpaceInv, NEW t \in Task, NEW v \in Page, Store(t, v) \/ (put_fs_byte(t) /\ v = wr[t])
  PROVE  SpaceStep
<1>1. /\ pc[t] = "user" /\ pg_table[t][v] # None /\ Written(t, v, t)
      /\ UNCHANGED <<mem_map, task, pg_dir, executable, pc, held>>
      /\ \/ wr[t] = None /\ wr' = wr /\ pg_table[t][v].w
         \/ wr[t] = v /\ v # None /\ wr' = [wr EXCEPT ![t] = None]
  BY DEF Store, put_fs_byte, InUser
<1>2. pg_table[t][v].frame # Low /\ (v \in Private => pg_table[t][v].w)
  <2>1. CASE wr[t] = None /\ pg_table[t][v].w
    BY <1>1, <2>1, WritableIsAlone, Numbers
  <2>2. CASE wr[t] = v /\ v # None
    <3>1. PlaceAt(t)
      BY DEF SpaceInv
    <3> QED
      BY <1>1, <2>2, <3>1 DEF PlaceAt
  <2> QED
    BY <1>1, <2>1, <2>2
<1>3. /\ SpaceInv'
      /\ \A u \in Task, x \in Private :
           Finds(u, x)' = IF u = t /\ x = v THEN t ELSE Finds(u, x)
  BY <1>1, <1>2, WriteSpace
<1>4. Live' = Live /\ t \in Live
  BY <1>1 DEF Live
<1>5. CASE v \in Private
  <2>1. Image' = [Image EXCEPT ![t][v] = t]
    BY <1>3, <1>5, ImageIs
  <2>2. Memories!Write(t, v)
    BY <1>4, <2>1 DEF Memories!Write, Live
  <2> QED
    BY <1>3, <1>4, <1>5, <2>2 DEF SpaceStep, Memories!Next, Live
<1>6. CASE v \notin Private
  <2>1. Image' = Image
    BY <1>3, <1>6, ImageIs
  <2> QED
    BY <1>3, <1>4, <2>1 DEF SpaceStep
<1> QED
  BY <1>5, <1>6

\* The end of a task, by exit or for want of memory.
LEMMA ExitIsExit ==
  ASSUME MemInv, SpaceInv, NEW t \in Task, NEW map, pc[t] \notin Dead, do_exit(t, map)
  PROVE  SpaceStep
<1>1. /\ SpaceInv'
      /\ pc'[t] = "exit" /\ \A u \in Task : u # t => pc'[u] = pc[u]
      /\ \A u \in Task, x \in Private :
           Finds(u, x)' = IF u = t THEN Zero ELSE Finds(u, x)
  BY ExitSpace
<1>2. t \in Live /\ Live' = Live \ {t}
  BY <1>1 DEF Live, Dead
<1>3. Image' = [Image EXCEPT ![t] = [v \in Private |-> Zero]]
  BY <1>1, ImageIs
<1>4. Memories!Exit(t)
  BY <1>2, <1>3 DEF Memories!Exit, Live
<1> QED
  BY <1>1, <1>2, <1>4 DEF SpaceStep, Memories!Next, Live

\* exec replaces the memory of the task.
LEMMA ExecIsExec ==
  ASSUME MemInv, SpaceInv, NEW t \in Task, ChangeProgram(t)
  PROVE  SpaceStep
<1>1. /\ SpaceInv'
      /\ pc[t] \notin Dead /\ \A u \in Task : pc'[u] \in Dead <=> pc[u] \in Dead
      /\ \A u \in Task, x \in Private :
           Finds(u, x)' = IF u # t THEN Finds(u, x)
                          ELSE IF x = Stack THEN Args ELSE Zero
  BY ChangeProgramSpace
<1>2. t \in Live /\ Live' = Live
  BY <1>1 DEF Live, Dead
<1>3. Image' = [Image EXCEPT ![t] = [v \in Private |-> IF v = Stack THEN Args ELSE Zero]]
  BY <1>1, ImageIs
<1>4. Memories!Exec(t)
  BY <1>2, <1>3 DEF Memories!Exec, Live
<1> QED
  BY <1>1, <1>2, <1>4 DEF SpaceStep, Memories!Next, Live

\* fork copies the memory of the parent.
LEMMA ForkIsFork ==
  ASSUME MemInv, SpaceInv, NEW t \in Task, NEW c \in Task, copy_process(t, c)
  PROVE  SpaceStep
<1>1. /\ SpaceInv'
      /\ pc[t] = "user" /\ pc[c] = "free" /\ pc'[c] = "user"
      /\ \A u \in Task : u # c => pc'[u] = pc[u]
      /\ \A u \in Task, x \in Private :
           Finds(u, x)' = IF u = c THEN Finds(t, x) ELSE Finds(u, x)
  BY ForkSpace
<1>2. t \in Live /\ c \in Task \ Live /\ Live' = Live \cup {c}
  BY <1>1 DEF Live
<1>3. Image' = [Image EXCEPT ![c] = Image[t]]
  BY <1>1, ImageIs
<1>4. Memories!Fork(t, c)
  BY <1>2, <1>3 DEF Memories!Fork, Live
<1> QED
  BY <1>1, <1>2, <1>4 DEF SpaceStep, Memories!Next, Live

\* Every fault is a step that nobody sees, or ends the task.
LEMMA FaultSpace ==
  ASSUME MemInv, SpaceInv, NEW t \in Task, NEW v \in Page, Fault(t, v)
  PROVE  SpaceStep
<1>1. CASE EmptyPage(t, v) \/ SharePage(t, v) \/ StartLoad(t, v)
  BY <1>1, EmptyPageSpace, SharePageSpace, StartLoadSpace, QuietStutters
<1>2. ASSUME NEW map, do_exit(t, map), pc[t] \in {"user", "copy"} PROVE SpaceStep
  BY <1>2, ExitIsExit DEF Dead
<1>3. CASE NoEmptyPage(t, v) \/ CannotShare(t, v) \/ CannotLoad(t, v)
  BY <1>2, <1>3 DEF NoEmptyPage, CannotShare, CannotLoad, NoPageAt, Touches, oom
<1>4. CASE do_wp_page(t, v)
  <2>1. CASE un_wp_page(t, v) /\ UNCHANGED <<task, pg_dir, executable, pc, held, wr, page,
                                          strings>>
    BY <1>4, <2>1, UnWriteProtectedSpace, QuietStutters DEF do_wp_page, InUser
  <2>2. CASE oom(t, mem_map)
    BY <1>2, <1>4, <2>2 DEF do_wp_page, InUser, oom
  <2> QED
    BY <1>4, <2>1, <2>2 DEF do_wp_page
<1> QED
  BY <1>1, <1>3, <1>4 DEF Fault

\* verify_area too.
LEMMA VerifySpace ==
  ASSUME MemInv, SpaceInv, NEW t \in Task, NEW v \in Page, verify_area(t, v)
  PROVE  SpaceStep
<1>1. InUser(t)
  BY DEF verify_area
<1>2. CASE /\ ReadOnly(t, v) /\ un_wp_page(t, v) /\ wr' = [wr EXCEPT ![t] = v]
           /\ UNCHANGED <<task, pg_dir, executable, pc, held, page, strings>>
  BY <1>1, <1>2, UnWriteProtectedSpace, QuietStutters DEF InUser
<1>3. CASE oom(t, mem_map)
  BY <1>1, <1>3, ExitIsExit DEF InUser, oom, Dead
<1>4. CASE /\ ~ReadOnly(t, v) /\ wr' = [wr EXCEPT ![t] = v]
           /\ UNCHANGED <<mem_map, data, task, pg_dir, pg_table, executable, pc, held, page,
                          strings>>
  BY <1>1, <1>4, VerifiedSpace, QuietStutters
<1> QED
  BY <1>2, <1>3, <1>4 DEF verify_area

\* Every step is one of the memories, or none.
LEMMA StepSpace == MemInv /\ SpaceInv /\ [Next]_vars => SpaceStep
<1> SUFFICES ASSUME MemInv, SpaceInv, [Next]_vars PROVE SpaceStep
  OBVIOUS
<1>1. ASSUME NEW t \in Task, NEW c \in Task, copy_process(t, c) \/ OutOfMemory(t, c)
      PROVE  SpaceStep
  BY <1>1, ForkIsFork, OutOfMemorySpace, QuietStutters
<1>2. ASSUME NEW t \in Task, NEW v \in Page, Fault(t, v) \/ Store(t, v)
      PROVE  SpaceStep
  BY <1>2, FaultSpace, WriteIsWrite
<1>3. ASSUME NEW t \in Task, NEW v \in KernelWrites, verify_area(t, v) PROVE SpaceStep
  <2>1. v \in Page
    BY MemoryAssumption
  <2> QED
    BY <1>3, <2>1, VerifySpace
<1>4. ASSUME NEW t \in Task, do_execve(t) PROVE SpaceStep
  BY <1>4, ExecSpace, QuietStutters
<1>a. ASSUME NEW t \in Task, NEW file \in File, StringsCopied(t, file) PROVE SpaceStep
  BY <1>a, StringsCopiedSpace, QuietStutters
<1>5. ASSUME NEW t \in Task, Loads(t) PROVE SpaceStep
  BY <1>5, LoadsSpace, QuietStutters
<1>6. ASSUME NEW t \in Task, NoTableForLoad(t) PROVE SpaceStep
  BY <1>6, ExitIsExit DEF NoTableForLoad, oom, Dead
<1>7. ASSUME NEW t \in Task, put_fs_byte(t) PROVE SpaceStep
  <2>1. wr[t] \in Page
    BY <1>7 DEF put_fs_byte, MemInv, TypeInv
  <2> QED
    BY <1>7, <2>1, WriteIsWrite
<1>8. ASSUME NEW t \in Task, CallFails(t) PROVE SpaceStep
  BY <1>8, CallFailsSpace, QuietStutters
<1>9. ASSUME NEW t \in Task, ExecFails(t) \/ NoReturn(t) PROVE SpaceStep
  BY <1>9, ExecEndsSpace, QuietStutters
<1>10. ASSUME NEW t \in Task, ChangeProgram(t) PROVE SpaceStep
  BY <1>10, ExecIsExec
<1>11. ASSUME NEW t \in Task, Exit(t) \/ die(t) PROVE SpaceStep
  <2>1. ShapeAt(t)
    BY DEF MemInv, ShapeInv
  <2>2. pc[t] \notin Dead /\ do_exit(t, mem_map)
    BY <1>11, <2>1 DEF Exit, InUser, die, ShapeAt, Dead
  <2> QED
    BY <2>2, ExitIsExit
<1>12. ASSUME NEW t \in Task, ExitClosed(t) \/ release(t) PROVE SpaceStep
  BY <1>12, DeadSpace, QuietStutters
<1>13. CASE UNCHANGED vars
  BY <1>13 DEF vars, SpaceStep, SpaceInv, SamePage, PlaceAt, Private, Live, Image
<1> QED
  BY <1>1, <1>2, <1>3, <1>4, <1>a, <1>5, <1>6, <1>7, <1>8, <1>9, <1>10, <1>11, <1>12, <1>13
     DEF Next

\* Task 1 starts on the kernel's pages, alone.
LEMMA InitSpace == Init => SpaceInv /\ Memories!Init
<1> SUFFICES ASSUME Init PROVE SpaceInv /\ Memories!Init
  OBVIOUS
<1>1. TypeInv
  BY InitMem DEF MemInv
<1>2. /\ pc = [t \in Task |-> IF t = 1 THEN "user" ELSE "free"]
      /\ \A t \in Task, v \in Page :
           pg_table[t][v] # None => t = 1 /\ pg_table[t][v].frame = Low
      /\ wr = [t \in Task |-> None]
  BY DEF Init
<1>3. SpaceInv
  BY <1>2, Numbers DEF SpaceInv, SamePage, PlaceAt, Maps
<1>4. Image \in [Task -> [Private -> Content]]
  <2>1. ASSUME NEW t \in Task, NEW v \in Private PROVE Finds(t, v) \in Content
    <3>1. v \in Page /\ Zero \in Content
      BY DEF Private, Content
    <3>2. pg_table[t][v] # None => pg_table[t][v].frame \in Frame \cup {Low}
      BY <1>1, <3>1 DEF TypeInv, Entry
    <3> QED
      BY <1>1, <3>1, <3>2 DEF TypeInv, Finds
  <2> QED
    BY <2>1, ImageIs
<1>5. \A t \in Task \ Live : Image[t] = [v \in Private |-> Zero]
  <2>1. \A t \in Task \ Live, v \in Private : Finds(t, v) = Zero
    BY <1>2 DEF Live, Finds, Private
  <2> QED
    BY <2>1, ImageIs
<1>6. Live \in SUBSET Task
  BY DEF Live
<1> QED
  BY <1>3, <1>4, <1>5, <1>6 DEF Memories!Init, Live

\* Every task has a memory of its own: what it finds in its bss, heap and stack
\* is what it wrote there, or what fork and exec left, whatever others do to
\* the pages it shares with them.
THEOREM SpacesAreOwn == Spec => ImplementsAddressSpaces
<1>1. Init => Memories!Init /\ SpaceInv
  BY InitSpace
<1>2. MemInv /\ SpaceInv /\ [Next]_vars => SpaceInv' /\ [Memories!Next]_<<Live, Image>>
  BY StepSpace DEF SpaceStep
<1>3. Spec => []MemInv
  BY MemInvariant
<1> QED
  BY <1>1, <1>2, <1>3, PTL DEF Spec, ImplementsAddressSpaces, Memories!Spec, Live

=============================================================================

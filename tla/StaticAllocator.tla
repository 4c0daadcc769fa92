-------------------------- MODULE StaticAllocator --------------------------
(***************************************************************************)
(* The global allocator (src/memory/allocator.rs): a static pool cut into  *)
(* blocks, each with a header of Header bytes in front of its data, and a  *)
(* list of the free blocks.  Every call holds the mutex of the allocator   *)
(* from beginning to end; the loop that merges free blocks is one step per *)
(* merge here, during which no other call runs.                            *)
(*                                                                         *)
(* free keeps the list in the order of addresses and allocate takes blocks *)
(* out of it or cuts them in place, so the list is the set of its blocks,  *)
(* and the first block of the list is the lowest.                          *)
(*                                                                         *)
(* The callers are threads that create and drop tables (src/table.rs):     *)
(* three blocks each, allocated and freed by separate calls.  No record    *)
(* has text outside the record.                                            *)
(***************************************************************************)
EXTENDS Integers, FiniteSets

CONSTANTS Threads,
          Bases,        \* start addresses of the pools given to the allocator
          PoolSize,     \* size of a pool
          Header,       \* MemoryBlock::SIZE
          Sizes,        \* sizes asked for
          MaxAllocs     \* bound: allocations from one pool

ASSUME AllocatorAssumption ==
  /\ Bases \subseteq Nat
  /\ \A x, y \in Bases : x < y => x + PoolSize <= y
  /\ PoolSize \in Nat /\ Header \in Nat \ {0} /\ PoolSize >= 2 * Header
  /\ Sizes \subseteq Nat
  /\ MaxAllocs \in Nat

VARIABLES ready,        \* GLOBAL_ALLOCATOR is Some
          start,        \* start_ptr
          size,         \* MemoryBlock.size of each block of the pool
          free_list,    \* the blocks in free_list
          merging,      \* inside merge_adjacent_blocks
          used, alloc_count, free_count,
          op,           \* what each thread is doing
          ptrs,         \* the pointers of each thread's table; 0: none
          leaked        \* history: allocated blocks that nobody can free

allocator == <<ready, start, size, free_list, merging, used, alloc_count, free_count>>
vars == <<allocator, op, ptrs, leaked>>

Blocks == DOMAIN size
Allocated == Blocks \ free_list
Parts == 1 .. 3                    \* data, status array, free slots

End(b) == b + Header + size[b]
InPool(b) == start <= b /\ b < start + PoolSize
Holds(t) == {ptrs[t][i] : i \in Parts} \ {0}
Held == UNION {Holds(t) : t \in Threads}

Init ==
  /\ ready = FALSE /\ start \in Bases
  /\ size = [b \in {} |-> 0] /\ free_list = {} /\ merging = FALSE
  /\ used = 0 /\ alloc_count = 0 /\ free_count = 0
  /\ op = [t \in Threads |-> "none"]
  /\ ptrs = [t \in Threads |-> [i \in Parts |-> 0]]
  /\ leaked = {}

(***************************************************************************)
(* init_global_allocator and reset_global_allocator                        *)
(***************************************************************************)
\* reset: one free block.
ResetTo(s) ==
  /\ start' = s
  /\ size' = [b \in {s} |-> PoolSize - Header]
  /\ free_list' = {s}
  /\ used' = 0 /\ alloc_count' = 0 /\ free_count' = 0
  /\ leaked' = {}

\* No pointer into the pool at s is held: its memory is new, or the database
\* that used it was dropped, as reset_global_db does.
Unheld(s) == \A p \in Held : ~(s <= p - Header /\ p - Header < s + PoolSize)

InitGlobalAllocator(s) ==
  /\ ~merging /\ Unheld(s)
  /\ ready' = TRUE
  /\ ResetTo(s)
  /\ UNCHANGED <<merging, op, ptrs>>

ResetGlobalAllocator ==
  /\ ~merging /\ ready /\ Unheld(start)
  /\ ResetTo(start)
  /\ UNCHANGED <<ready, merging, op, ptrs>>

(***************************************************************************)
(* allocate                                                                *)
(***************************************************************************)
Aligned(n) == ((n + 7) \div 8) * 8

\* The first block of the list that is large enough.
Fits(b, n) ==
  /\ b \in free_list /\ size[b] >= n
  /\ \A c \in free_list : size[c] >= n => b <= c

Cut(b, n) == size[b] >= n + Header + 8

\* Mutant: the header of b is forgotten.
RestTooEarly(b, n) == b + n

\* The block after b when n bytes of b are cut off.
Rest(b, n) == b + Header + n

\* Mutant: the rest keeps the whole size.
SplitForgetsHeader(b, n) ==
  [c \in Blocks \cup {Rest(b, n)} |->
     IF c = b THEN n
     ELSE IF c = Rest(b, n) THEN size[b] - n
     ELSE size[c]]

Split(b, n) ==
  [c \in Blocks \cup {Rest(b, n)} |->
     IF c = b THEN n
     ELSE IF c = Rest(b, n) THEN size[b] - n - Header
     ELSE size[c]]

\* The block at b is handed out for n (aligned) bytes.
Take(b, n) ==
  /\ Fits(b, n)
  /\ alloc_count < MaxAllocs
  /\ \/ /\ Cut(b, n)
        /\ size' = Split(b, n)
        /\ free_list' = (free_list \ {b}) \cup {Rest(b, n)}
     \/ /\ ~Cut(b, n)
        /\ free_list' = free_list \ {b}
        /\ UNCHANGED size
  /\ used' = used + size'[b] + Header
  /\ alloc_count' = alloc_count + 1
  /\ UNCHANGED <<ready, start, merging, free_count>>

(***************************************************************************)
(* free and merge_adjacent_blocks                                          *)
(***************************************************************************)
\* Mutant: the statistics are not updated.
GiveBackUncounted(b) ==
  /\ free_list' = free_list \cup {b}
  /\ free_count' = free_count + 1
  /\ merging' = TRUE
  /\ UNCHANGED <<ready, start, size, used, alloc_count>>

GiveBack(b) ==
  /\ used' = IF used >= size[b] + Header THEN used - (size[b] + Header) ELSE used
  /\ free_count' = free_count + 1
  /\ free_list' = free_list \cup {b}
  /\ merging' = TRUE
  /\ UNCHANGED <<ready, start, size, alloc_count>>

\* A pointer outside of the pool is ignored.
FreeBlock(b) ==
  \/ InPool(b) /\ GiveBack(b)
  \/ ~InPool(b) /\ UNCHANGED allocator

Adjacent(b, c) == b \in free_list /\ c \in free_list /\ End(b) = c

\* One merge: the first block of the list that touches its successor.
Merge ==
  /\ merging
  /\ \E b, c \in free_list :
       /\ Adjacent(b, c)
       /\ \A d, e \in free_list : Adjacent(d, e) => b <= d
       /\ size' = [x \in Blocks \ {c} |->
                     IF x = b THEN size[b] + Header + size[c] ELSE size[x]]
       /\ free_list' = free_list \ {c}
  /\ UNCHANGED <<ready, start, merging, used, alloc_count, free_count, op, ptrs, leaked>>

\* Mutant: the loop stops while blocks can still be merged.
MergeDoneEarly ==
  /\ merging
  /\ merging' = FALSE
  /\ UNCHANGED <<ready, start, size, free_list, used, alloc_count, free_count,
                 op, ptrs, leaked>>

MergeDone ==
  /\ merging
  /\ \A b, c \in free_list : ~Adjacent(b, c)
  /\ merging' = FALSE
  /\ UNCHANGED <<ready, start, size, free_list, used, alloc_count, free_count,
                 op, ptrs, leaked>>

(***************************************************************************)
(* MemoryTable::new_with_options and drop                                  *)
(***************************************************************************)
\* The next part of a table of thread t that has no block yet.
NextPart(t) == CHOOSE i \in Parts : ptrs[t][i] = 0 /\ \A j \in Parts : j < i => ptrs[t][j] # 0

BeginNew(t) ==
  /\ ~merging /\ op[t] = "none"
  /\ op' = [op EXCEPT ![t] = "new"]
  /\ UNCHANGED <<allocator, ptrs, leaked>>

AllocPart(t, n) ==
  /\ ~merging /\ op[t] = "new"
  /\ \E b \in free_list :
       /\ Take(b, Aligned(n))
       /\ ptrs' = [ptrs EXCEPT ![t][NextPart(t)] = b + Header]
  /\ op' = [op EXCEPT ![t] = IF NextPart(t) = 3 THEN "table" ELSE "new"]
  /\ UNCHANGED leaked

\* OutOfMemory: the error is returned, the parts allocated before are lost.
AllocFails(t, n) ==
  /\ ~merging /\ op[t] = "new"
  /\ \A b \in free_list : ~Fits(b, Aligned(n))
  /\ op' = [op EXCEPT ![t] = "none"]
  /\ leaked' = leaked \cup {b \in Allocated : b + Header \in Holds(t)}
  /\ ptrs' = [ptrs EXCEPT ![t] = [i \in Parts |-> 0]]
  /\ UNCHANGED allocator

BeginDrop(t) ==
  /\ ~merging /\ op[t] = "table"
  /\ op' = [op EXCEPT ![t] = "drop"]
  /\ UNCHANGED <<allocator, ptrs, leaked>>

\* The parts are freed in order.
FreePart(t, i) ==
  /\ ~merging /\ op[t] = "drop"
  /\ ptrs[t][i] # 0 /\ \A j \in Parts : j < i => ptrs[t][j] = 0
  /\ FreeBlock(ptrs[t][i] - Header)
  /\ ptrs' = [ptrs EXCEPT ![t][i] = 0]
  /\ op' = [op EXCEPT ![t] = IF i = 3 THEN "none" ELSE "drop"]
  /\ UNCHANGED leaked

Next ==
  \/ \E s \in Bases : InitGlobalAllocator(s)
  \/ ResetGlobalAllocator
  \/ Merge \/ MergeDone
  \/ \E t \in Threads :
       \/ BeginNew(t) \/ BeginDrop(t)
       \/ \E n \in Sizes : AllocPart(t, n) \/ AllocFails(t, n)
       \/ \E i \in Parts : FreePart(t, i)

Spec == Init /\ [][Next]_vars

(***************************************************************************)
(* Properties                                                              *)
(***************************************************************************)
\* The fields of StaticAllocator and of the callers have their types; block sizes
\* and statistics do not go below zero (they are usize).
TypeOK ==
  /\ ready \in BOOLEAN /\ merging \in BOOLEAN /\ start \in Bases
  /\ Blocks \subseteq Nat /\ size \in [Blocks -> Nat]
  /\ free_list \subseteq Blocks
  /\ used \in Nat /\ alloc_count \in Nat /\ free_count \in Nat
  /\ op \in [Threads -> {"none", "new", "table", "drop"}]
  /\ ptrs \in [Threads -> [Parts -> Nat]]
  /\ leaked \subseteq Blocks

\* The blocks cover the pool without gap and without overlap, however allocate
\* cuts and free merges them.
BlocksTile ==
  ready =>
    /\ \A b \in Blocks : start <= b /\ End(b) <= start + PoolSize
    /\ \A b, c \in Blocks : b < c => End(b) <= c
    /\ \A x \in start .. start + PoolSize - 1 : \E b \in Blocks : b <= x /\ x < End(b)

\* The memory of two parts of tables never overlaps, whichever threads create and
\* drop tables meanwhile, and a block is out of the free list exactly while a
\* table has it or after it was lost.
TablesDisjoint ==
  /\ \A t, u \in Threads : \A i, j \in Parts :
       LET b == ptrs[t][i] - Header
           c == ptrs[u][j] - Header
       IN  /\ ptrs[t][i] # 0
           /\ ptrs[u][j] # 0
           /\ <<t, i>> # <<u, j>>
           /\ InPool(b)
           /\ InPool(c)
           => /\ b \in Allocated /\ c \in Allocated
              /\ End(b) <= c \/ End(c) <= b
  /\ \A b \in Allocated : b + Header \in Held \/ b \in leaked

\* allocate reports OutOfMemory only when no run of bytes outside the allocated
\* blocks has room for a block: freed neighbours were merged.
NoFalseOutOfMemory ==
  ready /\ ~merging =>
    \A n \in Sizes :
      (\A b \in free_list : size[b] < Aligned(n)) =>
        \A x \in start .. start + PoolSize - Header - Aligned(n) :
          \E b \in Allocated : b < x + Header + Aligned(n) /\ x < End(b)

\* stats: used is the number of bytes in allocated blocks, headers included, and
\* the counts of allocations and frees differ by the number of allocated blocks.
StatsExact ==
  ready =>
    /\ used = Cardinality({x \in start .. start + PoolSize - 1 :
                             \E b \in Allocated : b <= x /\ x < End(b)})
    /\ alloc_count - free_count = Cardinality(Allocated)
=============================================================================

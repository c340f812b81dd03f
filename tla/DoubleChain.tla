----------------------------- MODULE DoubleChain -----------------------------
(***************************************************************************)
(* double-chain-impl.c and double-chain.c of the VigNAT: an allocator of   *)
(* indices that remembers in which order they were last used.  One array   *)
(* of cells holds two lists: a doubly linked one of the allocated indices, *)
(* oldest first, and a singly linked one of the free indices, whose cells  *)
(* have prev = next.  A chain is [cells, timestamps].                      *)
(***************************************************************************)
EXTENDS Integers, Sequences, SequencesExt

CONSTANT RANGE            \* index_range

ALLOC_LIST_HEAD == 0
FREE_LIST_HEAD == 1
INDEX_SHIFT == 2

Link(prev, next) == [prev |-> prev, next |-> next]
Single(next) == Link(next, next)

dchain_impl_init ==
  [c \in 0..(RANGE + INDEX_SHIFT - 1) |->
     CASE c = ALLOC_LIST_HEAD -> Single(ALLOC_LIST_HEAD)
       [] c = FREE_LIST_HEAD -> Single(INDEX_SHIFT)
       [] c = RANGE + INDEX_SHIFT - 1 -> Single(FREE_LIST_HEAD)
       [] OTHER -> Single(c + 1)]

dchain_allocate == [cells |-> dchain_impl_init, timestamps |-> [i \in 0..(RANGE - 1) |-> 0]]

\* cell becomes the last of the allocated list.
AppendCell(cells, cell) ==
  LET last == cells[ALLOC_LIST_HEAD].prev
      linked == [cells EXCEPT ![cell] = Link(last, ALLOC_LIST_HEAD)]
      after == [linked EXCEPT ![last].next = cell]
  IN  [after EXCEPT ![ALLOC_LIST_HEAD].prev = cell]

\* cell leaves the allocated list.
Unlink(cells, cell) ==
  LET prev == cells[cell].prev
      next == cells[cell].next
      before == [cells EXCEPT ![prev].next = next]
  IN  [before EXCEPT ![next].prev = prev]

\* A cell with prev = next is in the free list, or alone in the allocated one.
NotAllocated(cells, cell) ==
  cells[cell].next = cells[cell].prev /\ cells[cell].prev # ALLOC_LIST_HEAD

\* The index taken, or -1.
FirstFree(cells) ==
  IF cells[FREE_LIST_HEAD].next = FREE_LIST_HEAD THEN -1
  ELSE cells[FREE_LIST_HEAD].next - INDEX_SHIFT

dchain_impl_allocate_new_index(cells) ==
  LET allocated == cells[FREE_LIST_HEAD].next
  IN  AppendCell([cells EXCEPT ![FREE_LIST_HEAD] = Single(cells[allocated].next)], allocated)

dchain_impl_free_index(cells, index) ==
  LET freed == index + INDEX_SHIFT
      left == Unlink(cells, freed)
  IN  IF NotAllocated(cells, freed) THEN cells
      ELSE [left EXCEPT ![freed] = Single(left[FREE_LIST_HEAD].next),
                        ![FREE_LIST_HEAD] = Single(freed)]

dchain_impl_get_oldest_index(cells) ==
  IF cells[ALLOC_LIST_HEAD].next = ALLOC_LIST_HEAD THEN -1
  ELSE cells[ALLOC_LIST_HEAD].next - INDEX_SHIFT

dchain_impl_rejuvenate_index(cells, index) ==
  LET lifted == index + INDEX_SHIFT
  IN  IF cells[lifted].next = cells[lifted].prev THEN cells
      ELSE AppendCell(Unlink(cells, lifted), lifted)

dchain_allocate_new_index(chain, time) ==
  LET index == FirstFree(chain.cells)
  IN  IF index = -1 THEN chain
      ELSE [cells |-> dchain_impl_allocate_new_index(chain.cells),
            timestamps |-> [chain.timestamps EXCEPT ![index] = time]]

dchain_rejuvenate_index(chain, index, time) ==
  IF NotAllocated(chain.cells, index + INDEX_SHIFT) THEN chain
  ELSE [cells |-> dchain_impl_rejuvenate_index(chain.cells, index),
        timestamps |-> [chain.timestamps EXCEPT ![index] = time]]

\* The oldest index if it was last used before time, or -1; and the chain
\* without it.
Expired(chain, time) ==
  LET oldest == dchain_impl_get_oldest_index(chain.cells)
  IN  IF oldest # -1 /\ chain.timestamps[oldest] < time THEN oldest ELSE -1

dchain_expire_one_index(chain, time) ==
  IF Expired(chain, time) = -1 THEN chain
  ELSE [chain EXCEPT !.cells = dchain_impl_free_index(@, Expired(chain, time))]

\* The first n indices of the list at head, following next.
Walk(cells, head, n) ==
  LET at[i \in 0..n] == IF i = 0 THEN cells[head].next ELSE cells[at[i - 1]].next
  IN  [i \in 1..n |-> at[i - 1] - INDEX_SHIFT]

(* The two lists share the indices out between them and close: the first   *)
(* has the allocated ones, linked both ways and in the order of their      *)
(* times, the second the others.                                           *)
ListsHold(chain, allocated) ==
  LET n == Cardinality(allocated)
      used == Walk(chain.cells, ALLOC_LIST_HEAD, n + 1)
      free == Walk(chain.cells, FREE_LIST_HEAD, RANGE - n + 1)
  IN  /\ {used[i] : i \in 1..n} = allocated
      /\ used[n + 1] = ALLOC_LIST_HEAD - INDEX_SHIFT
      /\ {free[i] : i \in 1..(RANGE - n)} = 0..(RANGE - 1) \ allocated
      /\ free[RANGE - n + 1] = FREE_LIST_HEAD - INDEX_SHIFT
      /\ \A i \in allocated : chain.cells[chain.cells[i + INDEX_SHIFT].next].prev = i + INDEX_SHIFT
      /\ \A i \in 1..(n - 1) : chain.timestamps[used[i]] <= chain.timestamps[used[i + 1]]
==============================================================================

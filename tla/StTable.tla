------------------------------ MODULE StTable ------------------------------
(***************************************************************************)
(* The hash table of st.c: an array of entries in the order in which they  *)
(* were inserted, and bins that find the entry of a key by open addressing *)
(* with a full-cycle probe.  Small tables have no bins and are searched    *)
(* linearly.  A table is a record                                          *)
(*   power    entry_power: 2^power entries are allocated,                  *)
(*   bins     NoBins, or an index into entries (ENTRY_BASE added),         *)
(*            EMPTY_BIN or DELETED_BIN for each bin,                       *)
(*   entries  the array, start and bound the range of it in use,           *)
(*   num      num_entries.                                                 *)
(***************************************************************************)
EXTENDS Integers, Sequences, SequencesExt, FiniteSetsExt

CONSTANTS hash(_),                            \* tab->type->hash, 32 bits
          compare(_, _),                      \* tab->type->compare
          MINIMAL_POWER2,
          MAX_POWER2_FOR_TABLES_WITHOUT_BINS

EMPTY_BIN == 0
DELETED_BIN == 1
ENTRY_BASE == 2
REBUILD_THRESHOLD == 4
NoBins == << >>
Garbage == [hash |-> "uninitialized"]
Deleted == [hash |-> "RESERVED_HASH_VAL"]
UNDEFINED == -1

\* The smallest n >= MINIMAL_POWER2 with 2^n > size.
get_power2(size) ==
  Max({MINIMAL_POWER2, CHOOSE n \in 0..31 : 2^n > size /\ \A m \in 0..(n - 1) : 2^m <= size})

get_allocated_entries(tab) == 2^tab.power
get_bins_num(tab) == 2^(tab.power + 1)

\* Indices of the entries in use that are not marked deleted.
Live(tab) == {i \in tab.start..(tab.bound - 1) : tab.entries[i] # Deleted}

EmptyBins(power) ==
  IF power <= MAX_POWER2_FOR_TABLES_WITHOUT_BINS THEN NoBins
  ELSE [b \in 0..(2^(power + 1) - 1) |-> EMPTY_BIN]

st_init_table_with_size(size) ==
  LET n == get_power2(size)
  IN  [power |-> n, bins |-> EmptyBins(n), start |-> 0, bound |-> 0, num |-> 0,
       entries |-> [i \in 0..(2^n - 1) |-> Garbage]]

\* What is in an entry out of range is not read again: Garbage.
st_clear(tab) ==
  [tab EXCEPT !.num = 0, !.start = 0, !.bound = 0, !.bins = EmptyBins(tab.power),
              !.entries = [i \in DOMAIN @ |-> Garbage]]

PTR_EQUAL(entry, key) ==
  /\ entry # Deleted
  /\ hash(entry.key) = hash(key)
  /\ entry.key = key \/ compare(entry.key, key) = 0

\* The bins secondary_hash goes through; the perturbation is the hash shifted
\* by 11 more bits at each step, so none is left of 32 bits after the second.
Probe(tab, key) ==
  LET perterb(n) == IF n > 2 THEN 0 ELSE hash(key) \div 2^(11 * n)
      bin[n \in 0..(2 * get_bins_num(tab))] ==
        IF n = 0 THEN hash(key) % get_bins_num(tab)
        ELSE (5 * bin[n - 1] + perterb(n) + 1) % get_bins_num(tab)
  IN  bin

\* The first bin of the probe for key that is in stops.
FirstBin(tab, key, stops) ==
  LET bin == Probe(tab, key)
      n == CHOOSE n \in DOMAIN bin : bin[n] \in stops /\ \A m \in 0..(n - 1) : bin[m] \notin stops
  IN  bin[n]

BinHolds(tab, b, key) ==
  tab.bins[b] >= ENTRY_BASE /\ PTR_EQUAL(tab.entries[tab.bins[b] - ENTRY_BASE], key)

\* find_entry: the linear search.
find_entry(tab, key) ==
  LET hits == {i \in tab.start..(tab.bound - 1) : PTR_EQUAL(tab.entries[i], key)}
  IN  IF hits = {} THEN UNDEFINED ELSE Min(hits)

find_table_bin_ind(tab, key) ==
  LET b == FirstBin(tab, key, {x \in DOMAIN tab.bins : BinHolds(tab, x, key) \/ tab.bins[x] = EMPTY_BIN})
  IN  IF tab.bins[b] = EMPTY_BIN THEN UNDEFINED ELSE b

find_table_entry_ind(tab, key) ==
  LET b == find_table_bin_ind(tab, key)
  IN  IF b = UNDEFINED THEN UNDEFINED ELSE tab.bins[b] - ENTRY_BASE

find_table_bin_ind_direct(tab, key) ==
  FirstBin(tab, key, {x \in DOMAIN tab.bins : tab.bins[x] <= DELETED_BIN})

\* Mutant: the first bin that is free, without looking on for the key.
reserve_first_free(tab, key) ==
  FirstBin(tab, key, {x \in DOMAIN tab.bins : BinHolds(tab, x, key) \/ tab.bins[x] <= DELETED_BIN})

\* The bin for key: the one that holds it, else the first deleted one that the
\* probe met, else the empty one that ended it.
find_table_bin_ptr_and_reserve(tab, key) ==
  LET bin == Probe(tab, key)
      Ends(x) == BinHolds(tab, x, key) \/ tab.bins[x] = EMPTY_BIN
      n == CHOOSE n \in DOMAIN bin : Ends(bin[n]) /\ \A m \in 0..(n - 1) : ~Ends(bin[m])
      deleted == {m \in 0..(n - 1) : tab.bins[bin[m]] = DELETED_BIN}
  IN  IF tab.bins[bin[n]] # EMPTY_BIN \/ deleted = {} THEN bin[n] ELSE bin[Min(deleted)]

Search(tab, key) ==
  IF tab.bins = NoBins THEN find_entry(tab, key) ELSE find_table_entry_ind(tab, key)

st_lookup(tab, key) ==
  LET i == Search(tab, key)
  IN  IF i = UNDEFINED THEN << >> ELSE tab.entries[i].record
------------------------------------------------------------------------------
\* One entry moved to its place in the rebuilt table.
MoveEntry(new, entry) ==
  [new EXCEPT !.entries[new.num] = entry,
              !.bins = IF @ = NoBins THEN @
                       ELSE [@ EXCEPT ![find_table_bin_ind_direct(new, entry.key)]
                                = new.num + ENTRY_BASE],
              !.num = @ + 1]

\* rebuild_table compacts the arrays in place or moves to new ones; either way
\* only the live entries are kept, in their order.
rebuild_table(tab) ==
  LET allocated == get_allocated_entries(tab)
      compaction == \/ 2 * tab.num <= allocated /\ REBUILD_THRESHOLD * tab.num > allocated
                    \/ tab.num < 2^MINIMAL_POWER2
      into == IF compaction THEN st_clear(tab)
              ELSE st_init_table_with_size(2 * tab.num - 1)
      order == SetToSortSeq(Live(tab), <)
      moved == FoldLeft(LAMBDA new, i : MoveEntry(new, tab.entries[i]), into, order)
  IN  [moved EXCEPT !.start = 0, !.bound = moved.num]

rebuild_table_if_necessary(tab) ==
  IF tab.bound = get_allocated_entries(tab) THEN rebuild_table(tab) ELSE tab

\* A new entry at the bound, found through bin b.
AppendEntry(tab, key, value, b) ==
  [tab EXCEPT !.entries[tab.bound] = [key |-> key, record |-> value],
              !.bins = IF @ = NoBins THEN @ ELSE [@ EXCEPT ![b] = tab.bound + ENTRY_BASE],
              !.bound = @ + 1, !.num = @ + 1]

st_insert(table, key, value) ==
  LET tab == rebuild_table_if_necessary(table)
      b == IF tab.bins = NoBins THEN UNDEFINED ELSE find_table_bin_ptr_and_reserve(tab, key)
      i == IF tab.bins = NoBins THEN find_entry(tab, key)
           ELSE IF tab.bins[b] <= DELETED_BIN THEN UNDEFINED ELSE tab.bins[b] - ENTRY_BASE
  IN  IF i # UNDEFINED THEN [tab EXCEPT !.entries[i].record = value]
      ELSE AppendEntry(tab, key, value, b)

st_add_direct(table, key, value) ==
  LET tab == rebuild_table_if_necessary(table)
  IN  AppendEntry(tab, key, value, IF tab.bins = NoBins THEN UNDEFINED
                                   ELSE find_table_bin_ind_direct(tab, key))

update_range_for_deleted(tab, n) == IF tab.start = n THEN n + 1 ELSE tab.start

\* Entry i goes: its bin and the entry itself are marked.
MarkDeleted(tab, i, b) ==
  [tab EXCEPT !.bins = IF @ = NoBins THEN @ ELSE [@ EXCEPT ![b] = DELETED_BIN],
              !.entries[i] = Deleted, !.num = @ - 1,
              !.start = update_range_for_deleted(tab, i)]

RemoveKey(tab, key) ==
  MarkDeleted(tab, Search(tab, key),
              IF tab.bins = NoBins THEN UNDEFINED ELSE find_table_bin_ind(tab, key))

st_general_delete(tab, key) ==
  IF Search(tab, key) = UNDEFINED THEN tab ELSE RemoveKey(tab, key)

\* st_shift removes the first entry; an empty table only resets its range.
st_shift(tab) ==
  IF Live(tab) = {} THEN [tab EXCEPT !.start = 0, !.bound = 0]
  ELSE RemoveKey(tab, tab.entries[Min(Live(tab))].key)

\* st_update with a callback that answers ST_CONTINUE with value, or ST_DELETE.
st_update(tab, key, retval, value) ==
  LET i == Search(tab, key)
  IN  CASE retval = "ST_CONTINUE" /\ i = UNDEFINED -> st_add_direct(tab, key, value)
        [] retval = "ST_CONTINUE" /\ i # UNDEFINED -> [tab EXCEPT !.entries[i].record = value]
        [] OTHER -> st_general_delete(tab, key)

\* The keys and the records in the order of st_keys, st_values and st_foreach.
st_general_keys(tab) ==
  LET order == SetToSortSeq(Live(tab), <)
  IN  [n \in DOMAIN order |-> tab.entries[order[n]].key]

st_general_values(tab) ==
  LET order == SetToSortSeq(Live(tab), <)
  IN  [n \in DOMAIN order |-> tab.entries[order[n]].record]

\* st_foreach with a callback that stops at the keys in stops and deletes those
\* in deletes.
st_general_foreach(tab, deletes, stops) ==
  LET keys == st_general_keys(tab)
      ends == {i \in DOMAIN keys : keys[i] \in stops}
      shown == IF ends = {} THEN keys ELSE SubSeq(keys, 1, Min(ends) - 1)
  IN  FoldLeft(LAMBDA t, k : IF k \in deletes THEN RemoveKey(t, k) ELSE t, tab, shown)
==============================================================================

----------------------------- MODULE RubyTable -----------------------------
(***************************************************************************)
(* A table of st.c in use: any sequence of its calls on one table whose    *)
(* keys are numbers (st_init_numtable_with_size).  The callbacks that      *)
(* st_update and st_foreach are given do not touch the table themselves.   *)
(* An OrderedMap is given the same calls.                                  *)
(***************************************************************************)
EXTENDS Integers, Sequences

CONSTANTS StKeys, Records,
          DeleteSets,               \* the keys that a callback of st_foreach may delete
          ST_SIZE,                  \* asked for at the start
          st_numhash(_),
          ST_MINIMAL_POWER2, ST_MAX_POWER2_WITHOUT_BINS

VARIABLES tab, pairs
stVars == <<tab, pairs>>

st_numcmp(x, y) == IF x = y THEN 0 ELSE 1

S == INSTANCE StTable WITH
       hash <- st_numhash, compare <- st_numcmp, MINIMAL_POWER2 <- ST_MINIMAL_POWER2,
       MAX_POWER2_FOR_TABLES_WITHOUT_BINS <- ST_MAX_POWER2_WITHOUT_BINS
Map == INSTANCE OrderedMap

StInit == tab = S!st_init_table_with_size(ST_SIZE) /\ Map!Init

st_insert(k, v) == tab' = S!st_insert(tab, k, <<v>>) /\ Map!Insert(k, v)

\* Its caller knows that the key is new.
st_add_direct(k, v) ==
  ~Map!Has(k) /\ tab' = S!st_add_direct(tab, k, <<v>>) /\ Map!Insert(k, v)

st_delete(k) == tab' = S!st_general_delete(tab, k) /\ Map!Delete(k)
st_shift == tab' = S!st_shift(tab) /\ Map!Shift

\* By what the callback answers.
st_update(k, v) ==
  \/ tab' = S!st_update(tab, k, "ST_CONTINUE", <<v>>) /\ Map!Insert(k, v)
  \/ tab' = S!st_update(tab, k, "ST_DELETE", <<v>>) /\ Map!Delete(k)

\* The callback answers ST_STOP at some keys, else ST_DELETE at some.
st_foreach(deletes, stops) ==
  tab' = S!st_general_foreach(tab, deletes, stops) /\ Map!Foreach(deletes, stops)

st_clear == tab' = S!st_clear(tab) /\ Map!Clear

StNext ==
  \/ \E k \in StKeys : st_delete(k)
  \/ \E k \in StKeys, v \in Records : st_insert(k, v) \/ st_add_direct(k, v) \/ st_update(k, v)
  \/ \E deletes \in DeleteSets, stop \in StKeys : st_foreach(deletes, {stop})
  \/ st_shift \/ st_clear

StSpec == StInit /\ [][StNext]_stVars

------------------------------------------------------------------------------
(* The table of st.c is an OrderedMap: through deletions that leave marked *)
(* bins and entries behind, compactions and rebuilds to larger and smaller *)
(* arrays, with and without bins, it holds what the same calls leave in a  *)
(* plain list, in that order, st_lookup finds each of it and nothing else, *)
(* and num_entries, which decides how to rebuild, is exact.                *)
IsOrderedMap ==
  LET keys == S!st_general_keys(tab)
      records == S!st_general_values(tab)
  IN  /\ [i \in DOMAIN keys |-> <<keys[i], records[i][1]>>] = pairs
      /\ \A k \in StKeys : S!st_lookup(tab, k) = Map!Record(k)
      /\ tab.num = Len(pairs)
==============================================================================

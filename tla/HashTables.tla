----------------------------- MODULE HashTables -----------------------------
(***************************************************************************)
(* The tables behind hash_get and hash_set of the example network          *)
(* functions: chained buckets, a ring probed linearly, an unbalanced       *)
(* search tree, and the library maps (std::map, std::unordered_map,        *)
(* rte_hash).  A key is the tuple of the fields that the program's         *)
(* hash_key_t has, each a number.                                          *)
(***************************************************************************)
EXTENDS Integers, Sequences, FiniteSetsExt

CONSTANTS hash_function(_),   \* any function of the key
          BUCKETS,            \* TABLE_SIZE of the chained tables
          RING                \* TABLE_SIZE of the hash rings

NotFound == << >>              \* no value is the empty tuple
Unused == [used |-> 0]

Entry(key, value) == [key |-> key, value |-> value]

\* nat-ruby gives hash_key_equals to st.c as its compare function.
hash_key_equals(a, b) == IF a = b THEN 1 ELSE 0

\* The function table with x at place.
Put(table, place, x) ==
  [p \in DOMAIN table \cup {place} |-> IF p = place THEN x ELSE table[p]]

\* operator< of hash_key_t: the first field that differs decides.
KeyLess(a, b) ==
  \E i \in DOMAIN a : a[i] < b[i] /\ \A j \in 1..(i - 1) : a[j] = b[j]

------------------------------------------------------------------------------
(* Chained buckets; a new entry goes to the head of its chain. *)

ChainInit == [b \in 0..(BUCKETS - 1) |-> << >>]

Bucket(key) == hash_function(key) % BUCKETS

ChainHits(chain, key) == {i \in DOMAIN chain : chain[i].key = key}

ChainGet(table, key) ==
  LET chain == table[Bucket(key)]
      hits == ChainHits(chain, key)
  IN  IF hits = {} THEN NotFound ELSE chain[Min(hits)].value

\* Mutant: the new entry is not linked to the chain.
ChainSetUnlinked(table, key, value) == [table EXCEPT ![Bucket(key)] = <<Entry(key, value)>>]

ChainSet(table, key, value) ==
  LET b == Bucket(key)
      hits == ChainHits(table[b], key)
  IN  IF hits = {}
      THEN [table EXCEPT ![b] = <<Entry(key, value)>> \o @]
      ELSE [table EXCEPT ![b][Min(hits)].value = value]

------------------------------------------------------------------------------
(* The ring: hash_get stops at the first unused cell, hash_set takes it.   *)
(* On a full ring hash_set returns without storing anything.               *)

RingInit == [i \in 0..(RING - 1) |-> Unused]

RingCell(key, pos) == (hash_function(key) + pos) % RING

RingStops(table, key) ==
  {pos \in 0..(RING - 1) : LET e == table[RingCell(key, pos)]
                           IN  e = Unused \/ e.key = key}

RingGet(table, key) ==
  LET stops == RingStops(table, key)
      e == table[RingCell(key, Min(stops))]
  IN  IF stops = {} \/ e = Unused THEN NotFound ELSE e.value

RingSet(table, key, value) ==
  LET stops == RingStops(table, key)
  IN  IF stops = {} THEN table
      ELSE [table EXCEPT ![RingCell(key, Min(stops))] = Entry(key, value)]

------------------------------------------------------------------------------
(* The tree: a node is known by the path to it, 1 for right and 0 for left.*)

TreeInit == << >>

\* Where the walk for key ends: at the node that holds it, or at the empty
\* place where it would be.
TreeWalk(table, key) ==
  LET places == {<< >>} \cup {Append(p, d) : p \in DOMAIN table, d \in {0, 1}}
  IN  CHOOSE place \in places :
        /\ place \in DOMAIN table => table[place].key = key
        /\ \A i \in DOMAIN place :
             LET node == SubSeq(place, 1, i - 1)
             IN  /\ node \in DOMAIN table
                 /\ table[node].key # key
                 /\ (place[i] = 1) <=> KeyLess(table[node].key, key)

TreeGet(table, key) ==
  LET place == TreeWalk(table, key)
  IN  IF place \in DOMAIN table THEN table[place].value ELSE NotFound

TreeSet(table, key, value) == Put(table, TreeWalk(table, key), Entry(key, value))

------------------------------------------------------------------------------
(* std::map and std::unordered_map: the library's maps. *)

MapGet(table, key) == IF key \in DOMAIN table THEN table[key] ELSE NotFound
MapSet(table, key, value) == Put(table, key, value)
==============================================================================

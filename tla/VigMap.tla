------------------------------- MODULE VigMap -------------------------------
(***************************************************************************)
(* map.c of the VigNAT: a hash map in a fixed array with linear probing.   *)
(* An erased cell must not cut off the keys that were probed past it, so   *)
(* each cell counts in chns how many keys in the map were.  A map is       *)
(* [cells, chns], two arrays; a cell is Free (busybits 0) or its hash, key *)
(* and value.                                                              *)
(***************************************************************************)
EXTENDS Integers, FiniteSets, FiniteSetsExt

CONSTANT CAPACITY

Free == [busy |-> 0]
Cell(hash, key, value) == [busy |-> 1, hash |-> hash, key |-> key, value |-> value]

Indices == 0..(CAPACITY - 1)

map_initialize == [cells |-> [i \in Indices |-> Free], chns |-> [i \in Indices |-> 0]]

\* C's % of a possibly negative k, made non-negative.
loop(k) == k % CAPACITY

\* The probe sequence of a hash: its i-th cell, and the cells before that.
Probe(hash, i) == loop(loop(hash) + i)
Passed(hash, i) == {Probe(hash, j) : j \in 0..(i - 1)}

SameHash(m, hash, i) ==
  LET c == m.cells[Probe(hash, i)] IN c # Free /\ c.hash = hash

Match(m, key, hash, i) == SameHash(m, hash, i) /\ m.cells[Probe(hash, i)].key = key

Add(chns, at, n) == [i \in Indices |-> IF i \in at THEN chns[i] + n ELSE chns[i]]

\* The first cell with the key, or -1 at the first cell of another hash that no
\* key was probed past.
find_key(m, key, hash) ==
  LET stops == {i \in Indices : \/ Match(m, key, hash, i)
                                \/ /\ ~SameHash(m, hash, i)
                                   /\ m.chns[Probe(hash, i)] = 0}
  IN  IF stops = {} THEN -1
      ELSE IF Match(m, key, hash, Min(stops)) THEN Probe(hash, Min(stops)) ELSE -1

\* Mutant: the cells passed keep their counts.
find_key_remove_only(m, key, hash) ==
  LET matches == {i \in Indices : Match(m, key, hash, i)}
  IN  IF matches = {} THEN m ELSE [m EXCEPT !.cells[Probe(hash, Min(matches))] = Free]

\* The key's cell is freed; the cells passed on the way count one key less.
find_key_remove_chain(m, key, hash) ==
  LET matches == {i \in Indices : Match(m, key, hash, i)}
      i == Min(matches)
  IN  IF matches = {} THEN [m EXCEPT !.chns = Add(@, Indices, -1)]
      ELSE [cells |-> [m.cells EXCEPT ![Probe(hash, i)] = Free],
            chns |-> Add(m.chns, Passed(hash, i), -1)]

\* How far the first free cell is from where the hash starts.
find_empty(m, hash) == Min({i \in Indices : m.cells[Probe(hash, i)] = Free})

map_get(m, key, hash) ==
  LET index == find_key(m, key, hash)
  IN  IF index = -1 THEN -1 ELSE m.cells[index].value

\* The caller knows that there is room and that the key is new.
map_put(m, key, hash, value) ==
  LET i == find_empty(m, hash)
  IN  [cells |-> [m.cells EXCEPT ![Probe(hash, i)] = Cell(hash, key, value)],
       chns |-> Add(m.chns, Passed(hash, i), 1)]

map_erase(m, key, hash) == find_key_remove_chain(m, key, hash)

map_size(m) == Cardinality({i \in Indices : m.cells[i] # Free})

\* How far the key in cell c is from where its hash starts.
Distance(m, c) == CHOOSE i \in Indices : Probe(m.cells[c].hash, i) = c

(* Each count is the number of keys that were probed past the cell, and no *)
(* key is twice in the map.                                                *)
ChainsCounted(m) ==
  LET busy == {c \in Indices : m.cells[c] # Free}
  IN  /\ \A i \in Indices :
           m.chns[i] = Cardinality({c \in busy : i \in Passed(m.cells[c].hash, Distance(m, c))})
      /\ \A c, d \in busy : m.cells[c].key = m.cells[d].key => c = d
==============================================================================

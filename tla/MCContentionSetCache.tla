----------------------- MODULE MCContentionSetCache -----------------------
(* Instance of ContentionSetCache for TLC. *)
EXTENDS ContentionSetCache

Worlds == 1..3

\* One page of six lines; every line is in at most one contention set.
PartitionAddrs == [i \in 0..1 |-> IF i = 0 THEN {0, 2, 4} ELSE {6, 8}]
PartitionAssoc == [i \in 0..1 |-> IF i = 0 THEN 2 ELSE 1]
Pointers == {[w \in Worlds |-> x] : x \in {0, 2, 6}} \cup {<<3, 8, 10>>, <<4, 5, 8>>}
PartitionPointers == Pointers
===========================================================================

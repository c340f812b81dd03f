------------------------------ MODULE MapOfSets ------------------------------
(***************************************************************************)
(* MapOfSets, the container of CexCachingSolver: a map from sets to        *)
(* values kept as a trie of the sorted sets, with searches for a subset    *)
(* and for a superset of a set whose value has some property.              *)
(***************************************************************************)
EXTENDS Integers, Sequences, SequencesExt

CONSTANTS K,             \* the elements of the sets, ordered by <
          V              \* the values; 0 is the null pointer

VARIABLES root,          \* the trie
          inserted       \* what was inserted: set to value
mapVars == <<root, inserted>>

Node == [isEndOfSet |-> FALSE, value |-> 0, children |-> << >>]
Sorted(S) == SetToSortSeq(S, <)

\* Pointers to values: none or one.
None == {}

RECURSIVE insertAt(_, _, _)
insertAt(n, set, value) ==
  IF set = << >> THEN [n EXCEPT !.isEndOfSet = TRUE, !.value = value]
  ELSE LET k == Head(set)
           child == IF k \in DOMAIN n.children THEN n.children[k] ELSE Node
           grown == insertAt(child, Tail(set), value)
       IN  [n EXCEPT !.children = [j \in DOMAIN @ \cup {k} |-> IF j = k THEN grown ELSE @[j]]]

RECURSIVE lookup(_, _)
lookup(n, set) ==
  IF set = << >> THEN IF n.isEndOfSet THEN {n.value} ELSE None
  ELSE IF Head(set) \in DOMAIN n.children THEN lookup(n.children[Head(set)], Tail(set)) ELSE None

RECURSIVE findSubsets(_, _, _)
findSubsets(n, accum, set) ==
  (IF n.isEndOfSet THEN <<<<accum, n.value>>>> ELSE << >>)
  \o FlattenSeq([i \in 1..Len(set) |->
       IF set[i] \in DOMAIN n.children
       THEN findSubsets(n.children[set[i]], accum \cup {set[i]}, SubSeq(set, i + 1, Len(set)))
       ELSE << >>])

\* The children are visited in order up to the next element of the set.
RECURSIVE findSupersets(_, _, _)
findSupersets(n, accum, set) ==
  LET Visit(kids, left(_)) ==
        FlattenSeq([i \in 1..Len(kids) |->
          findSupersets(n.children[kids[i]], accum \cup {kids[i]}, left(kids[i]))])
  IN  IF set = << >>
      THEN (IF n.isEndOfSet THEN <<<<accum, n.value>>>> ELSE << >>)
           \o Visit(Sorted(DOMAIN n.children), LAMBDA k : set)
      ELSE Visit(Sorted({k \in DOMAIN n.children : k <= Head(set)}),
                 LAMBDA k : IF k = Head(set) THEN Tail(set) ELSE set)

\* The iterators over the set and over the children advance in turn.
RECURSIVE findSubset(_, _, _), MatchChild(_, _, _, _)
findSubset(n, set, P) ==
  IF n.isEndOfSet /\ n.value \in P THEN {n.value}
  ELSE IF set = << >> THEN None
  ELSE MatchChild(n, Sorted({k \in DOMAIN n.children : k >= Head(set)}), set, P)

MatchChild(n, kids, set, P) ==
  IF kids = << >> \/ set = << >> THEN None
  ELSE IF Head(set) < Head(kids) THEN MatchChild(n, kids, Tail(set), P)
  ELSE IF Head(kids) < Head(set) THEN MatchChild(n, Tail(kids), set, P)
  ELSE LET res == findSubset(n.children[Head(kids)], Tail(set), P)
       IN  IF res # None \/ Tail(set) = << >> THEN res ELSE MatchChild(n, kids, Tail(set), P)

\* Mutant: only the set itself is looked for.
findSuperset_itself(n, set, P) == lookup(n, set) \cap P

\* Every child is searched for the whole set, then the one of the next element for the rest.
RECURSIVE findSuperset(_, _, _)
findSuperset(n, set, P) ==
  LET Found(seq) == LET hits == SelectSeq(seq, LAMBDA r : r # None)
                    IN  IF hits = << >> THEN None ELSE Head(hits)
      kids == Sorted(DOMAIN n.children)
      below == Found([i \in 1..Len(kids) |-> findSuperset(n.children[kids[i]], set, P)])
  IN  IF set = << >>
      THEN IF n.isEndOfSet /\ n.value \in P THEN {n.value} ELSE below
      ELSE IF below # None THEN below
      ELSE IF Head(set) \in DOMAIN n.children
           THEN findSuperset(n.children[Head(set)], Tail(set), P)
           ELSE None

\* The iterator visits an end of a set before what is below it.
RECURSIVE Entries(_, _)
Entries(n, accum) ==
  LET kids == Sorted(DOMAIN n.children)
  IN  (IF n.isEndOfSet THEN <<<<accum, n.value>>>> ELSE << >>)
      \o FlattenSeq([i \in 1..Len(kids) |-> Entries(n.children[kids[i]], accum \cup {kids[i]})])

insert(S, v) ==
  /\ root' = insertAt(root, Sorted(S), v)
  /\ inserted' = [T \in DOMAIN inserted \cup {S} |-> IF T = S THEN v ELSE inserted[T]]

clear == root' = Node /\ inserted' = << >>

MapInit == root = Node /\ inserted = << >>
MapNext == clear \/ \E S \in SUBSET K, v \in V : insert(S, v)

\* The searches of CexCachingSolver and the enumerations agree with the map from sets to
\* values (MapOfSets.h:297, :335): a value is found if and only if some subset, or
\* superset, has one with the property, and it is one of those; lookup finds what was
\* inserted last; subsets, supersets and the iterator give each entry once.
FindsSets ==
  LET Pairs(T) == {<<S, inserted[S]>> : S \in T}
      Lists(seq, T) == Len(seq) = Cardinality(T) /\ ToSet(seq) = Pairs(T)
      Finds(r, T, P) == LET good == {inserted[S] : S \in T} \cap P
                        IN  IF good = {} THEN r = None ELSE \E v \in good : r = {v}
  IN  /\ Lists(Entries(root, {}), DOMAIN inserted)
      /\ \A S \in SUBSET K :
           LET set == Sorted(S)
               Below == {T \in DOMAIN inserted : T \subseteq S}
               Above == {T \in DOMAIN inserted : S \subseteq T}
           IN  /\ lookup(root, set) = (IF S \in DOMAIN inserted THEN {inserted[S]} ELSE None)
               /\ Lists(findSubsets(root, {}, set), Below)
               /\ Lists(findSupersets(root, {}, set), Above)
               /\ \A P \in {{0}, V \ {0}} :
                    /\ Finds(findSubset(root, set, P), Below, P)
                    /\ Finds(findSuperset(root, set, P), Above, P)
==============================================================================

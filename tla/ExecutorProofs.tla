--------------------------- MODULE ExecutorProofs ---------------------------
(* What holds of the executor's states for every number of states, forks and *)
(* targets and every command line.                                           *)
EXTENDS Executor, FiniteSetTheorems, TLAPS

\* The context is large: the SMT solver is given more time than by default.
USE SMTT(20), Zenon

\* What the steps use of cardinalities, under one name: a lemma that takes it as a
\* hypothesis opens it only where it counts.
Counting ==
    /\ Cardinality({}) = 0
    /\ \A x : Cardinality({x}) = 1
    /\ \A S : IsFiniteSet(S) => \A T \in SUBSET S : Cardinality(T) \in Nat

-----------------------------------------------------------------------------
(* The inductive invariants *)

\* Where the run loop looks at its states, between two instructions.
Outer == {"seeding", "select", "halt", "done"}

\* The process tree: with a node all the nodes on the way to it are there.
TreeClosed(nodes) ==
    /\ nodes \subseteq Seq({"l", "r"})
    /\ \A n \in nodes : \A m \in Seq({"l", "r"}) : IsAncestor(m, n) => m \in nodes

\* The states in the set and those waiting to be added, how often each was removed,
\* the process tree, their nodes in it and their priorities.
Consistent(st, added, gone, nodes, nodeOf, ranks) ==
    /\ st \subseteq State /\ added \subseteq State /\ st \cap added = {}
    /\ gone \in [State -> Nat] /\ \A s \in State : gone[s] # 0 => s \in st
    /\ TreeClosed(nodes)
    /\ Leaves(nodes) = {nodeOf[s] : s \in st \cup added}
    /\ \A s, t \in st \cup added : nodeOf[s] = nodeOf[t] => s = t
    /\ st \cup added = {} => nodes = {}
    /\ nodeOf \in [st \cup added -> nodes]
    /\ ranks \in [st \cup added -> Rank]

StatesInv == Consistent(states, addedStates, removedStates, processTree, ptreeNode, rank)

\* The seeds of the states L.
SeedsOK(seeds, L) ==
    /\ seeds \in [DOMAIN seeds -> SUBSET Seeds]
    /\ DOMAIN seeds \subseteq L
    /\ \A s \in DOMAIN seeds : seeds[s] # {}
    /\ \A s, t \in DOMAIN seeds : s # t => seeds[s] \cap seeds[t] = {}

SeedsInv == SeedsOK(seedMap, live)

\* The states that the handler at this place holds and may end.
HeldStates ==
    result \cup ({first, second} \ {None})
           \cup (IF at \in {"execute", "access"} THEN {current} ELSE {})

\* What the handlers' local variables hold at each place: no state twice.
Shape ==
    /\ first = second => first = None
    /\ at \notin {"alloc", "huge", "resolve", "bound", "free", "exact", "exactBound", "call",
                  "called"} => first = None /\ second = None
    /\ at \in {"resolve", "exact", "call"} => first = None /\ second # None
    /\ at \notin {"branching", "branched", "exact", "exactBound", "freeing"} => result = {}
    /\ at \in {"exact", "exactBound"} => first \notin result /\ second \notin result
    /\ at \in {"branching", "branched"} => current \in result
    /\ todo \in Nat
    /\ at \in {"branching", "call"} => todo # 0
    /\ at = "called" /\ second # None => todo # 0
    /\ hasInvalid \in BOOLEAN

\* None of them was deleted, and while a switch is executed only the current state has seeds.
HeldInv ==
    /\ Shape
    /\ HeldStates \subseteq live
    /\ at \in {"branching", "branched"} => result \cap DOMAIN seedMap \subseteq {current}

LocalInv ==
    /\ at \in Place
    /\ current \in IF at \in Outer THEN {None} ELSE states
    /\ at \in Outer \cup {"execute"} => addedStates = {} /\ \A s \in State : removedStates[s] = 0
    /\ HeldInv

\* The searcher's queue: the priority of the current state may be out of date.
QueueInv ==
    /\ searcher \in BOOLEAN
    /\ at = "select" => searcher
    /\ at \in {"seeding", "halt", "done"} => ~searcher
    /\ queue \subseteq Rank \X State
    /\ searcher => /\ {e \in queue : e[2] # current} = {<<rank[s], s>> : s \in states \ {current}}
                   /\ current # None => Queued(current)

RestInv ==
    /\ options \in Options
    /\ lastState \in State \cup {None}
    /\ haltExecution \in BOOLEAN /\ atMemoryLimit \in BOOLEAN
    /\ forks \in Nat /\ pathsExplored \in Nat

MirrorInv == StatesInv /\ SeedsInv /\ LocalInv /\ QueueInv /\ RestInv

\* The states that need not have seeds, because they will end before the next instruction.
mayBeUnseeded == IF at \in {"branching", "branched"} THEN result
                 ELSE IF at \in {"timers", "memory", "update"} THEN removed ELSE {}

\* --only-replay-seeds: while seeds are replayed all other states have seeds.
ReplayInv ==
    OnlyReplaySeeds /\ ~searcher /\ at \notin {"halt", "done", "abort"} =>
        /\ at \in {"branching", "branched"} => isSeeding(current)
        /\ live \ mayBeUnseeded \subseteq DOMAIN seedMap

\* The forks that are counted and have not been made.
pending == IF at = "branching" THEN todo ELSE 0

\* No state is ended twice, and every fork is accounted for.
EndedInv ==
    /\ \A s \in State : removedStates[s] \in {0, 1}
    /\ \A s \in HeldStates : removedStates[s] = 0
    /\ at \notin {"call", "called", "abort"}
    /\ 1 + forks = Cardinality(live) + pathsExplored - Cardinality(removed) + pending
    /\ at = "done" /\ DumpStatesOnHalt => states = {}

-----------------------------------------------------------------------------
(* The process tree *)

Node == Seq({"l", "r"})

\* The two children of a process-tree node are one level below it and share its
\* path.
LEMMA Children ==
  ASSUME NEW n \in Node
  PROVE  /\ Left(n) \in Node /\ Right(n) \in Node /\ Len(n) \in Nat
         /\ Len(Left(n)) = Len(n) + 1 /\ Len(Right(n)) = Len(n) + 1
         /\ Left(n)[Len(n) + 1] = "l" /\ Right(n)[Len(n) + 1] = "r"
         /\ \A i \in 1..Len(n) : Left(n)[i] = n[i] /\ Right(n)[i] = n[i]
         /\ Left(n) # n /\ Right(n) # n
  BY DEF Left, Right, Node

\* A node is the child of one node only, on one side only.
LEMMA ChildrenDiffer ==
  ASSUME NEW m \in Node, NEW n \in Node
  PROVE  /\ Left(m) # Right(n)
         /\ Left(m) = Left(n) => m = n
         /\ Right(m) = Right(n) => m = n
<1>1. Left(m) # Right(n)
  BY Children
<1>2. ASSUME Left(m) = Left(n) \/ Right(m) = Right(n) PROVE m = n
  <2>1. Len(m) = Len(n)
    BY <1>2, Children
  <2>. DEFINE Same(x) == \A i \in 1..Len(x) : Left(x)[i] = x[i] /\ Right(x)[i] = x[i]
  <2>4. Same(m) /\ Same(n)
    BY Zenon, Children
  <2>2. \A i \in 1..Len(m) : m[i] = n[i]
    BY Zenon, <1>2, <2>1, <2>4
  <2>3. QED
    BY <2>1, <2>2 DEF Node
<1>3. QED
  BY Zenon, <1>1, <1>2

\* Ancestors are ordered, and lie above a child exactly when they lie above its
\* parent.
LEMMA AncestorFacts ==
  ASSUME NEW m \in Node, NEW n \in Node
  PROVE  /\ IsAncestor(n, n)
         /\ \A p \in Node : IsAncestor(m, n) /\ IsAncestor(n, p) => IsAncestor(m, p)
         /\ IsAncestor(m, Left(m)) /\ IsAncestor(m, Right(m))
         /\ IsAncestor(m, n) /\ m # n => IsAncestor(Left(m), n) \/ IsAncestor(Right(m), n)
         /\ IsAncestor(m, Left(n)) => m = Left(n) \/ IsAncestor(m, n)
         /\ IsAncestor(m, Right(n)) => m = Right(n) \/ IsAncestor(m, n)
<1>6. /\ Len(m) \in Nat /\ Len(n) \in Nat
      /\ Len(Left(m)) = Len(m) + 1 /\ Len(Right(m)) = Len(m) + 1
      /\ Left(m)[Len(m) + 1] = "l" /\ Right(m)[Len(m) + 1] = "r"
      /\ \A i \in 1..Len(m) : Left(m)[i] = m[i] /\ Right(m)[i] = m[i]
  BY Zenon, Children
<1>1. IsAncestor(n, n) /\ IsAncestor(m, Left(m)) /\ IsAncestor(m, Right(m))
  BY <1>6 DEF IsAncestor
<1>2. ASSUME NEW p \in Node, IsAncestor(m, n), IsAncestor(n, p) PROVE IsAncestor(m, p)
  <2>1. Len(p) \in Nat
    BY DEF Node
  <2>2. QED
    BY <1>2, <1>6, <2>1 DEF IsAncestor
<1>3. ASSUME IsAncestor(m, n), m # n PROVE IsAncestor(Left(m), n) \/ IsAncestor(Right(m), n)
  <2>1. Len(m) \in Nat /\ Len(n) \in Nat /\ Len(m) <= Len(n) /\ \A i \in 1..Len(m) : m[i] = n[i]
    BY Zenon, <1>3, Children DEF IsAncestor
  <2>2. Len(m) # Len(n)
    BY <1>3, <2>1 DEF Node
  <2>3. Len(m) + 1 \in 1..Len(n) /\ n[Len(m) + 1] \in {"l", "r"}
    BY <2>1, <2>2 DEF Node
  <2>4. ASSUME n[Len(m) + 1] = "l" PROVE IsAncestor(Left(m), n)
    <3>1. ASSUME NEW i \in 1..(Len(m) + 1) PROVE Left(m)[i] = n[i]
      BY <1>6, <2>1, <2>4
    <3>2. QED
      BY <2>1, <2>3, <3>1, Children DEF IsAncestor
  <2>5. ASSUME n[Len(m) + 1] = "r" PROVE IsAncestor(Right(m), n)
    <3>1. ASSUME NEW i \in 1..(Len(m) + 1) PROVE Right(m)[i] = n[i]
      BY <1>6, <2>1, <2>5
    <3>2. QED
      BY <2>1, <2>3, <3>1, Children DEF IsAncestor
  <2>6. QED
    BY Zenon, <2>3, <2>4, <2>5
<1>4. ASSUME NEW c \in {Left(n), Right(n)}, IsAncestor(m, c), m # c PROVE IsAncestor(m, n)
  <2>1. /\ c \in Node /\ Len(c) = Len(n) + 1 /\ Len(n) \in Nat /\ Len(m) \in Nat
        /\ \A i \in 1..Len(n) : c[i] = n[i]
    <3>1. /\ Left(n) \in Node /\ Right(n) \in Node
          /\ Len(Left(n)) = Len(n) + 1 /\ Len(Right(n)) = Len(n) + 1
          /\ \A i \in 1..Len(n) : Left(n)[i] = n[i] /\ Right(n)[i] = n[i]
      BY Zenon, Children
    <3>2. QED
      BY Zenon, <1>6, <3>1
  <2>2. Len(m) <= Len(c) /\ \A i \in 1..Len(m) : m[i] = c[i]
    BY Zenon, <1>4 DEF IsAncestor
  <2>3. Len(m) # Len(c)
    BY <1>4, <2>1, <2>2 DEF Node
  <2>4. QED
    BY <2>1, <2>2, <2>3 DEF IsAncestor
<1>5. QED
  BY Zenon, <1>1, <1>2, <1>3, <1>4

\* PTree::split: the leaf is replaced by its two children.
LEMMA SplitLeaf ==
  ASSUME NEW nodes, TreeClosed(nodes), NEW n \in Leaves(nodes)
  PROVE  /\ TreeClosed(split(nodes, n))
         /\ Leaves(split(nodes, n)) = (Leaves(nodes) \ {n}) \cup {Left(n), Right(n)}
         /\ {Left(n), Right(n)} \cap nodes = {}
<1>1. /\ nodes \subseteq Node /\ n \in nodes /\ n \in Node
      /\ Left(n) \notin nodes /\ Right(n) \notin nodes
      /\ \A p \in nodes : \A m \in Node : IsAncestor(m, p) => m \in nodes
  BY Zenon DEF TreeClosed, Leaves, Node
<1>. DEFINE new == split(nodes, n)
<1>2. new = nodes \cup {Left(n), Right(n)}
  BY Zenon DEF split
<1>. HIDE DEF new
<1>3. TreeClosed(new)
  <2>1. new \subseteq Node
    BY <1>1, <1>2, Children
  <2>2. ASSUME NEW p \in new, NEW m \in Node, IsAncestor(m, p) PROVE m \in new
    BY <1>1, <1>2, <2>2, AncestorFacts
  <2>3. QED
    BY Zenon, <2>1, <2>2 DEF TreeClosed, Node
<1>4. ASSUME NEW l \in Leaves(new) PROVE l \in (Leaves(nodes) \ {n}) \cup {Left(n), Right(n)}
  BY Zenon, <1>2 DEF Leaves
<1>5. ASSUME NEW l \in Leaves(nodes), l # n PROVE l \in Leaves(new)
  <2>1. l \in Node /\ l \in nodes /\ Left(l) \notin nodes /\ Right(l) \notin nodes
    BY Zenon, <1>1 DEF Leaves
  <2>2. Left(l) \notin {Left(n), Right(n)} /\ Right(l) \notin {Left(n), Right(n)}
    BY Zenon, <1>1, <1>5, <2>1, ChildrenDiffer
  <2>3. QED
    BY Zenon, <1>2, <2>1, <2>2 DEF Leaves
<1>6. ASSUME NEW l \in {Left(n), Right(n)} PROVE l \in Leaves(new)
  <2>1. l \in Node /\ l \notin nodes /\ Left(l) \in Node /\ Right(l) \in Node
    BY Zenon, <1>1, Children
  <2>2. Left(l) \notin nodes /\ Right(l) \notin nodes
    BY Zenon, <1>1, <2>1, AncestorFacts
  <2>3. Len(Left(l)) # Len(n) + 1 /\ Len(Right(l)) # Len(n) + 1 /\ Len(Left(n)) = Len(n) + 1
        /\ Len(Right(n)) = Len(n) + 1
    <3>1. /\ Len(n) \in Nat /\ Len(Left(n)) = Len(n) + 1 /\ Len(Right(n)) = Len(n) + 1
          /\ Len(Left(l)) = Len(l) + 1 /\ Len(Right(l)) = Len(l) + 1
      BY Zenon, <1>1, <2>1, Children
    <3>2. Len(l) = Len(n) + 1
      BY Zenon, <3>1
    <3>3. QED
      BY <3>1, <3>2
  <2>4. QED
    BY Zenon, <1>2, <2>2, <2>3 DEF Leaves
<1>7. QED
  BY Zenon, <1>1, <1>3, <1>4, <1>5, <1>6 DEF new

\* PTree::remove: the leaves go, and no node is left that no leaf is reached from.
LEMMA RemoveLeaves ==
  ASSUME NEW nodes, TreeClosed(nodes), NEW K
  PROVE  /\ TreeClosed(remove(nodes, K))
         /\ Leaves(remove(nodes, K)) = Leaves(nodes) \ K
         /\ Leaves(nodes) \subseteq K => remove(nodes, K) = {}
<1>1. /\ nodes \subseteq Node
      /\ \A p \in nodes : \A m \in Node : IsAncestor(m, p) => m \in nodes
  BY Zenon DEF TreeClosed, Node
<1>. DEFINE new == remove(nodes, K)
<1>2. \A n : n \in new <=> n \in nodes /\ \E l \in Leaves(nodes) : IsAncestor(n, l) /\ l \notin K
  BY Zenon DEF remove
<1>. HIDE DEF new
<1>3. Leaves(nodes) \subseteq Node /\ Leaves(nodes) \subseteq nodes
  BY Zenon, <1>1 DEF Leaves
<1>4. TreeClosed(new)
  <2>1. new \subseteq Node
    BY Zenon, <1>1, <1>2
  <2>2. ASSUME NEW p \in new, NEW m \in Node, IsAncestor(m, p) PROVE m \in new
    <3>1. PICK l \in Leaves(nodes) : IsAncestor(p, l) /\ l \notin K
      BY Zenon, <1>2
    <3>2. IsAncestor(m, l)
      BY Zenon, <1>3, <2>1, <2>2, <3>1, AncestorFacts
    <3>3. m \in nodes
      BY Zenon, <1>1, <1>2, <2>2
    <3>4. QED
      BY Zenon, <1>2, <3>1, <3>2, <3>3
  <2>3. QED
    BY Zenon, <2>1, <2>2 DEF TreeClosed, Node
<1>5. ASSUME NEW l \in Leaves(nodes), l \notin K PROVE l \in Leaves(new)
  <2>1. l \in new
    BY Zenon, <1>2, <1>3, <1>5, AncestorFacts
  <2>2. QED
    BY Zenon, <1>2, <2>1 DEF Leaves
<1>6. ASSUME NEW n \in Leaves(new) PROVE n \in Leaves(nodes) \ K
  <2>1. n \in new /\ n \in nodes /\ n \in Node /\ Left(n) \notin new /\ Right(n) \notin new
    BY Zenon, <1>1, <1>2 DEF Leaves
  <2>2. PICK l \in Leaves(nodes) : IsAncestor(n, l) /\ l \notin K
    BY Zenon, <1>2, <2>1
  <2>3. ASSUME n # l PROVE FALSE
    <3>1. IsAncestor(Left(n), l) \/ IsAncestor(Right(n), l)
      BY Zenon, <1>3, <2>1, <2>2, <2>3, AncestorFacts
    <3>2. Left(n) \in Node /\ Right(n) \in Node
      BY Zenon, <2>1, Children
    <3>3. QED
      BY Zenon, <1>1, <1>2, <1>3, <2>1, <2>2, <3>1, <3>2
  <2>4. QED
    BY Zenon, <2>2, <2>3
<1>7. Leaves(nodes) \subseteq K => new = {}
  BY Zenon, <1>2
<1>8. QED
  BY Zenon, <1>4, <1>5, <1>6, <1>7 DEF new

-----------------------------------------------------------------------------
(* What a step does to the states *)

\* States are deleted, with their nodes, priorities and seeds.
LEMMA Removal ==
  ASSUME NEW st, NEW added, NEW gone, NEW nodes, NEW nodeOf, NEW ranks,
         Consistent(st, added, gone, nodes, nodeOf, ranks),
         NEW G, G \subseteq st \cup added,
         NEW left \in [State -> Nat], \A s \in State : left[s] # 0 => s \in st \ G
  PROVE  Consistent(st \ G, added \ G, left, remove(nodes, {nodeOf[s] : s \in G}),
                    Forget(nodeOf, G), Forget(ranks, G))
<1>. DEFINE L == st \cup added
            M == (st \ G) \cup (added \ G)
            K == {nodeOf[s] : s \in G}
            new == remove(nodes, K)
            of == Forget(nodeOf, G)
<1>1. /\ L \subseteq State /\ st \cap added = {} /\ TreeClosed(nodes)
      /\ Leaves(nodes) = {nodeOf[s] : s \in L}
      /\ \A s, t \in L : nodeOf[s] = nodeOf[t] => s = t
      /\ nodeOf \in [L -> nodes] /\ ranks \in [L -> Rank]
  BY Zenon DEF Consistent
<1>2. M = L \ G
  BY Zenon
<1>3. /\ TreeClosed(new) /\ Leaves(new) = Leaves(nodes) \ K
      /\ Leaves(nodes) \subseteq K => new = {}
  BY Zenon, <1>1, RemoveLeaves
<1>4. /\ DOMAIN of = M /\ \A s \in M : of[s] = nodeOf[s]
      /\ Forget(ranks, G) \in [M -> Rank]
  BY Zenon, <1>1, <1>2 DEF Forget, Restrict
<1>5. of = [s \in M |-> of[s]]
  BY <1>1, <1>2, Zenon DEF Forget, Restrict
<1>. HIDE DEF L, M, of, new
<1>6. Leaves(nodes) \ K = {nodeOf[s] : s \in M}
  BY <1>1, <1>2 DEF L
<1>7. {nodeOf[s] : s \in M} = {of[s] : s \in M}
  BY Zenon, <1>4
<1>8. Leaves(new) = {of[s] : s \in M}
  BY Zenon, <1>3, <1>6, <1>7
<1>9. of \in [M -> new]
  <2>1. ASSUME NEW s \in M PROVE of[s] \in new
    BY Zenon, <1>8 DEF Leaves
  <2>2. QED
    BY Zenon, <1>5, <2>1
<1>10. \A s, t \in M : of[s] = of[t] => s = t
  BY Zenon, <1>1, <1>2, <1>4
<1>11. M = {} => new = {}
  BY Zenon, <1>1, <1>2, <1>3
<1>12. QED
  BY <1>1, <1>3, <1>4, <1>8, <1>9, <1>10, <1>11 DEF Consistent, M, L, of, new

\* Erasing the seeds of states that end leaves the seeds of the others.
LEMMA SeedsForgotten ==
  ASSUME NEW seeds, NEW L, SeedsOK(seeds, L), NEW G
  PROVE  SeedsOK(Forget(seeds, G), L \ G) /\ DOMAIN Forget(seeds, G) = DOMAIN seeds \ G
<1>1. /\ DOMAIN Forget(seeds, G) = DOMAIN seeds \ G
      /\ \A s \in DOMAIN seeds \ G : Forget(seeds, G)[s] = seeds[s]
      /\ Forget(seeds, G) = [s \in DOMAIN seeds \ G |-> seeds[s]]
  BY Zenon DEF Forget, Restrict
<1>2. Forget(seeds, G) \in [DOMAIN Forget(seeds, G) -> SUBSET Seeds]
  BY Zenon, <1>1 DEF SeedsOK
<1>3. QED
  BY Zenon, <1>1, <1>2 DEF SeedsOK

\* A step makes the states new and ends the states ended: the ones of these that are in
\* the set of states wait in removedStates, the others are deleted.
Deleted(new, ended) == ended \cap (addedStates \cup new)

Effect(new, ended) ==
    /\ new \subseteq Free /\ ended \subseteq live \cup new
    /\ states' = states
    /\ StatesInv' /\ SeedsInv'
    /\ live' = (live \cup new) \ Deleted(new, ended)
    /\ addedStates' = (addedStates \cup new) \ ended
    /\ removedStates' = [s \in State |-> removedStates[s] + IF s \in ended \cap states THEN 1 ELSE 0]
    /\ pathsExplored' = pathsExplored + Cardinality(ended)
    /\ \A s \in states : rank'[s] = rank[s]

\* terminateState of the states K after the caller has made the states new, and given them
\* nodes, priorities and seeds.
Ending(new, K, seeds, nodes, nodeOf, ranks) ==
    /\ new \subseteq Free /\ K \subseteq live \cup new
    /\ Consistent(states, addedStates \cup new, removedStates, nodes, nodeOf, ranks)
    /\ SeedsOK(seeds, live \cup new)
    /\ \A s \in states : ranks[s] = rank[s]
    /\ endStates(K, addedStates \cup new, seeds, nodes, nodeOf, ranks)

Ended(new, K, seeds, nodeOf) ==
    /\ Effect(new, K)
    /\ DOMAIN seedMap' = DOMAIN seeds \ Deleted(new, K)
    /\ \A s \in live' : ptreeNode'[s] = nodeOf[s]

\* terminateState erases an added state at once and queues any other for removal.
LEMMA EndStatesEffect ==
  ASSUME NEW K, NEW new, NEW seeds, NEW nodes, NEW nodeOf, NEW ranks,
         options' = options, states' = states,
         Ending(new, K, seeds, nodes, nodeOf, ranks)
  PROVE  Ended(new, K, seeds, nodeOf)
<1>. DEFINE A == addedStates \cup new
            G == Deleted(new, K)
<1>1. G = K \cap A
  BY Zenon DEF Deleted
<1>2. /\ states \subseteq State /\ A \subseteq State /\ states \cap A = {}
      /\ removedStates \in [State -> Nat] /\ \A s \in State : removedStates[s] # 0 => s \in states
      /\ ranks \in [states \cup A -> Rank] /\ nodeOf \in [states \cup A -> nodes]
  BY Zenon DEF Consistent, Ending
<1>3. /\ addedStates' = A \ G
      /\ removedStates' = [s \in State |-> removedStates[s] + IF s \in K \ A THEN 1 ELSE 0]
      /\ seedMap' = Forget(seeds, G)
      /\ processTree' = remove(nodes, {nodeOf[s] : s \in G})
      /\ ptreeNode' = Forget(nodeOf, G)
      /\ rank' = Forget(ranks, G)
      /\ pathsExplored' = pathsExplored + Cardinality(K)
  BY <1>1, Zenon DEF endStates, Ending
<1>4. live \cup new = states \cup A
  BY Zenon DEF live
<1>. HIDE DEF A
<1>5. K \ A = K \cap states
  BY Zenon, <1>2, <1>4 DEF Ending
<1>6. removedStates' = [s \in State |-> removedStates[s] + IF s \in K \cap states THEN 1 ELSE 0]
  BY Zenon, <1>3, <1>5
<1>7. removedStates' \in [State -> Nat] /\ \A s \in State : removedStates'[s] # 0 => s \in states \ G
  BY <1>1, <1>2, <1>6
<1>8. states \ G = states /\ states \cap G = {} /\ G \subseteq states \cup A
  BY Zenon, <1>1, <1>2
<1>. HIDE DEF G
<1>9. Consistent(states, A, removedStates, nodes, nodeOf, ranks)
  BY Zenon DEF A, Ending
<1>10. Consistent(states \ G, A \ G, removedStates', remove(nodes, {nodeOf[s] : s \in G}),
                  Forget(nodeOf, G), Forget(ranks, G))
  BY <1>7, <1>8, <1>9, Removal
<1>11. StatesInv'
  BY Zenon, <1>3, <1>8, <1>10 DEF StatesInv
<1>12. live' = (live \cup new) \ G
  BY Zenon, <1>3, <1>4, <1>8 DEF live
<1>13. SeedsInv' /\ DOMAIN seedMap' = DOMAIN seeds \ G
  <2>1. SeedsOK(Forget(seeds, G), (live \cup new) \ G) /\ DOMAIN Forget(seeds, G) = DOMAIN seeds \ G
    BY SeedsForgotten, Zenon DEF Ending
  <2>2. SeedsOK(seedMap', live')
    BY Zenon, <1>3, <1>12, <2>1
  <2>3. Seeds' = Seeds
    BY Zenon DEF Seeds
  <2>4. QED
    BY Zenon, <1>3, <2>1, <2>2, <2>3 DEF SeedsInv, SeedsOK
<1>14. /\ \A s \in states : rank'[s] = rank[s]
       /\ \A s \in live' : ptreeNode'[s] = nodeOf[s]
  BY Zenon, <1>2, <1>3, <1>4, <1>8, <1>12 DEF Forget, Restrict, Ending
<1>15. addedStates' = (addedStates \cup new) \ K
  BY Zenon, <1>1, <1>3 DEF A
<1>16. QED
  BY Zenon, <1>3, <1>6, <1>11, <1>12, <1>13, <1>14, <1>15 DEF Effect, Ended, Ending, G

\* terminateState of states that are alive.
LEMMA EndEffect ==
  ASSUME NEW K, StatesInv, SeedsInv, options' = options, states' = states, K \subseteq live,
         endStates(K, addedStates, seedMap, processTree, ptreeNode, rank)
  PROVE  Effect({}, K) /\ DOMAIN seedMap' = DOMAIN seedMap \ Deleted({}, K)
<1>1. addedStates \cup {} = addedStates /\ live \cup {} = live
  BY Zenon
<1>2. Ending({}, K, seedMap, processTree, ptreeNode, rank)
  BY Zenon, <1>1 DEF StatesInv, SeedsInv, Ending
<1>3. QED
  BY <1>2, EndStatesEffect, Zenon DEF Ended

\* A step that touches neither the tree nor the seeds neither adds nor ends a
\* state.
LEMMA NoEffect ==
  ASSUME Counting, StatesInv, SeedsInv, pathsExplored \in Nat, options' = options, states' = states,
         UNCHANGED treeVars
  PROVE  Effect({}, {})
<1>1. StatesInv'
  BY DEF StatesInv, treeVars, Consistent
<1>2. live' = live
  BY Zenon DEF live, treeVars
<1>3. SeedsInv'
  BY Zenon, <1>2 DEF SeedsInv, SeedsOK, treeVars, Seeds
<1>4. Cardinality({}) = 0
  BY Zenon DEF Counting
<1>5. removedStates \in [State -> Nat]
  BY Zenon DEF StatesInv, Consistent
<1>6. removedStates' = [s \in State |-> removedStates[s] + IF s \in {} \cap states THEN 1 ELSE 0]
  BY <1>5 DEF treeVars
<1>7. QED
  BY <1>1, <1>2, <1>3, <1>4, <1>6 DEF Effect, Deleted, treeVars

\* A copy f of s: the node of s is split.
LEMMA Copied ==
  ASSUME StatesInv, NEW s \in live, NEW f \in Free, NEW r \in Rank
  PROVE  LET nodeOf == [x \in live \cup {f} |->
                            IF x = f THEN Left(ptreeNode[s])
                            ELSE IF x = s THEN Right(ptreeNode[s]) ELSE ptreeNode[x]]
             ranks  == [x \in live \cup {f} |-> IF x = f THEN r ELSE rank[x]]
         IN  /\ Consistent(states, addedStates \cup {f}, removedStates,
                           split(processTree, ptreeNode[s]), nodeOf, ranks)
             /\ \A x \in states : ranks[x] = rank[x]
<1>. DEFINE L == live \cup {f}
            n == ptreeNode[s]
            new == split(processTree, n)
            nodeOf == [x \in L |-> IF x = f THEN Left(n) ELSE IF x = s THEN Right(n) ELSE ptreeNode[x]]
            ranks == [x \in L |-> IF x = f THEN r ELSE rank[x]]
<1>1. /\ states \subseteq State /\ addedStates \subseteq State /\ states \cap addedStates = {}
      /\ removedStates \in [State -> Nat] /\ \A x \in State : removedStates[x] # 0 => x \in states
      /\ TreeClosed(processTree) /\ Leaves(processTree) = {ptreeNode[x] : x \in live}
      /\ \A x, y \in live : ptreeNode[x] = ptreeNode[y] => x = y
      /\ ptreeNode \in [live -> processTree] /\ rank \in [live -> Rank]
  BY Zenon DEF StatesInv, Consistent, live
<1>2. f \in State /\ f \notin live /\ f # s /\ L = states \cup (addedStates \cup {f}) /\ L # {}
  BY Zenon DEF Free, live
<1>3. n \in Leaves(processTree) /\ \A x \in live : ptreeNode[x] \in processTree
  BY Zenon, <1>1
<1>4. /\ TreeClosed(new) /\ Leaves(new) = (Leaves(processTree) \ {n}) \cup {Left(n), Right(n)}
      /\ {Left(n), Right(n)} \cap processTree = {}
  BY Zenon, <1>1, <1>3, SplitLeaf
<1>5. Left(n) # Right(n)
  <2>1. n \in Node
    BY Zenon, <1>1, <1>3 DEF TreeClosed, Leaves, Node
  <2>2. QED
    BY <2>1, ChildrenDiffer, Zenon
<1>6. /\ nodeOf[f] = Left(n) /\ nodeOf[s] = Right(n)
      /\ \A x \in live \ {s} : nodeOf[x] = ptreeNode[x]
      /\ DOMAIN nodeOf = L /\ nodeOf = [x \in L |-> nodeOf[x]]
  BY Zenon, <1>2
<1>7. ranks \in [L -> Rank] /\ \A x \in states : ranks[x] = rank[x]
  BY Zenon, <1>1, <1>2 DEF live
<1>. HIDE DEF new, nodeOf, ranks, L, n
<1>8. L = (live \ {s}) \cup {s, f}
  BY Zenon DEF L
<1>9. Leaves(processTree) \ {n} = {ptreeNode[x] : x \in live \ {s}}
  BY Zenon, <1>1 DEF n
<1>10. {nodeOf[x] : x \in L} = {ptreeNode[x] : x \in live \ {s}} \cup {Left(n), Right(n)}
  BY <1>6, <1>8
<1>11. Leaves(new) = {nodeOf[x] : x \in L}
  BY Zenon, <1>4, <1>9, <1>10
<1>12. \A x, y \in L : nodeOf[x] = nodeOf[y] => x = y
  BY <1>1, <1>3, <1>4, <1>5, <1>6, <1>8, Zenon
<1>13. nodeOf \in [L -> new]
  <2>1. ASSUME NEW x \in L PROVE nodeOf[x] \in new
    BY <1>11, Zenon DEF Leaves
  <2>2. QED
    BY Zenon, <1>6, <2>1
<1>14. Consistent(states, addedStates \cup {f}, removedStates, new, nodeOf, ranks)
  <2>1. /\ addedStates \cup {f} \subseteq State /\ states \cap (addedStates \cup {f}) = {}
        /\ states \cup (addedStates \cup {f}) # {}
    BY <1>1, <1>2 DEF live
  <2>2. /\ Leaves(new) = {nodeOf[x] : x \in states \cup (addedStates \cup {f})}
        /\ \A x, y \in states \cup (addedStates \cup {f}) : nodeOf[x] = nodeOf[y] => x = y
        /\ nodeOf \in [states \cup (addedStates \cup {f}) -> new]
        /\ ranks \in [states \cup (addedStates \cup {f}) -> Rank]
    BY <1>2, <1>7, <1>11, <1>12, <1>13, Zenon
  <2>3. QED
    BY <1>1, <1>4, <2>1, <2>2, Zenon DEF Consistent
<1>15. QED
  BY Zenon, <1>7, <1>14 DEF new, nodeOf, ranks, L, n

\* The seeds of s, distributed over s and its copy f.
LEMMA SeedsSplit ==
  ASSUME SeedsInv, NEW s \in live, NEW f \in Free, NEW T \in SUBSET SeedsOf(s)
  PROVE  /\ SeedsOK(splitSeeds(s, f, T), live \cup {f})
         /\ isSeeding(s) /\ T # {} /\ T # SeedsOf(s) =>
                DOMAIN splitSeeds(s, f, T) = DOMAIN seedMap \cup {f}
<1>. DEFINE F == SeedsOf(s) \ T
            keys == (DOMAIN seedMap \ {s}) \cup (IF T = {} THEN {} ELSE {s})
                                           \cup (IF F = {} THEN {} ELSE {f})
            seeds == splitSeeds(s, f, T)
<1>1. /\ seedMap \in [DOMAIN seedMap -> SUBSET Seeds] /\ DOMAIN seedMap \subseteq live
      /\ \A x \in DOMAIN seedMap : seedMap[x] # {}
      /\ \A x, y \in DOMAIN seedMap : x # y => seedMap[x] \cap seedMap[y] = {}
  BY Zenon DEF SeedsInv, SeedsOK
<1>2. f \notin live /\ f # s
  BY Zenon DEF Free
<1>3. seeds = [x \in keys |-> IF x = s THEN T ELSE IF x = f THEN F ELSE seedMap[x]]
  BY Zenon DEF splitSeeds
<1>4. SeedsOf(s) \in SUBSET Seeds /\ (SeedsOf(s) # {} => s \in DOMAIN seedMap /\ SeedsOf(s) = seedMap[s])
  BY <1>1, Zenon DEF SeedsOf, isSeeding
<1>5. T \subseteq Seeds /\ F \subseteq Seeds /\ T \cap F = {} /\ T \cup F = SeedsOf(s)
  BY Zenon, <1>4
<1>6. \A x \in keys : x # s /\ x # f => x \in DOMAIN seedMap
  BY Zenon
<1>7. keys \subseteq live \cup {f}
  BY Zenon, <1>1
<1>8. (s \in keys => T # {}) /\ (f \in keys => F # {})
  BY Zenon, <1>1, <1>2
<1>9. isSeeding(s) /\ T # {} /\ T # SeedsOf(s) => keys = DOMAIN seedMap \cup {f}
  BY Zenon, <1>5 DEF isSeeding
<1>. HIDE DEF F, keys, seeds
<1>10. /\ DOMAIN seeds = keys
       /\ s \in keys => seeds[s] = T
       /\ f \in keys => seeds[f] = F
       /\ \A x \in keys : x # s /\ x # f => seeds[x] = seedMap[x]
  BY Zenon, <1>2, <1>3
<1>11. \A x \in keys : seeds[x] \in SUBSET Seeds /\ seeds[x] # {}
  BY Zenon, <1>1, <1>5, <1>6, <1>8, <1>10
<1>12. seeds \in [keys -> SUBSET Seeds]
  BY Zenon, <1>3, <1>10, <1>11
<1>13. ASSUME NEW x \in keys, NEW y \in keys, x # y PROVE seeds[x] \cap seeds[y] = {}
  <2>1. CASE x \in {s, f} /\ y \in {s, f}
    BY <1>5, <1>10, <1>13, <2>1
  <2>2. CASE x \in {s, f} /\ y \notin {s, f}
    <3>1. seeds[x] \subseteq SeedsOf(s) /\ seeds[x] # {}
      BY Zenon, <1>5, <1>10, <1>11, <2>2
    <3>2. s \in DOMAIN seedMap /\ SeedsOf(s) = seedMap[s]
      BY Zenon, <1>4, <3>1
    <3>3. y \in DOMAIN seedMap /\ y # s /\ seeds[y] = seedMap[y]
      BY Zenon, <1>6, <1>10, <2>2
    <3>4. seedMap[s] \cap seedMap[y] = {}
      BY <1>1, <3>2, <3>3, Zenon
    <3>5. QED
      BY Zenon, <3>1, <3>2, <3>3, <3>4
  <2>3. CASE x \notin {s, f} /\ y \in {s, f}
    <3>1. seeds[y] \subseteq SeedsOf(s) /\ seeds[y] # {}
      BY Zenon, <1>5, <1>10, <1>11, <2>3
    <3>2. s \in DOMAIN seedMap /\ SeedsOf(s) = seedMap[s]
      BY Zenon, <1>4, <3>1
    <3>3. x \in DOMAIN seedMap /\ x # s /\ seeds[x] = seedMap[x]
      BY Zenon, <1>6, <1>10, <2>3
    <3>4. seedMap[s] \cap seedMap[x] = {}
      BY <1>1, <3>2, <3>3, Zenon
    <3>5. QED
      BY Zenon, <3>1, <3>2, <3>3, <3>4
  <2>4. CASE x \notin {s, f} /\ y \notin {s, f}
    BY Zenon, <1>1, <1>6, <1>10, <1>13, <2>4
  <2>5. QED
    BY Zenon, <2>1, <2>2, <2>3, <2>4
<1>14. SeedsOK(seeds, live \cup {f})
  BY Zenon, <1>7, <1>10, <1>11, <1>12, <1>13 DEF SeedsOK
<1>15. QED
  BY Zenon, <1>9, <1>10, <1>14 DEF seeds

\* What fork does: the state s may be copied, and s and its copy may end.  The states it
\* returns have not ended.
Forked(s, back, new, ended) ==
    /\ Effect(new, ended)
    /\ ended \subseteq {s} \cup new
    /\ \/ new = {} /\ forks' = forks
       \/ (\E f : new = {f}) /\ forks' = forks + 1
    /\ at' = back
    /\ {first', second'} \subseteq (({s} \cup new) \ ended) \cup {None}
    /\ first' = second' => first' = None
    /\ back = "timers" => first' = None /\ second' = None
    /\ OnlyReplaySeeds /\ isSeeding(s) =>
           DOMAIN seedMap' = (DOMAIN seedMap \cup new) \ Deleted(new, ended)
    /\ \A f \in new \cap live' : ptreeNode'[f] = Left(ptreeNode[s])

\* A fork whose query times out ends the state.
LEMMA ForkTimeoutEffect ==
  ASSUME StatesInv, SeedsInv, pathsExplored \in Nat, options' = options, states' = states,
         NEW s \in live, NEW back, forkTimeout(s, back)
  PROVE  Forked(s, back, {}, {s})
<1>1. Effect({}, {s}) /\ DOMAIN seedMap' = DOMAIN seedMap \ Deleted({}, {s})
  BY EndEffect, Zenon DEF forkTimeout, terminateState
<1>2. at' = back /\ first' = None /\ second' = None /\ forks' = forks
  BY Zenon DEF forkTimeout, StatePair
<1>3. QED
  BY Zenon, <1>1, <1>2 DEF Forked

\* A fork with one feasible side adds no state.
LEMMA ForkOneSideEffect ==
  ASSUME Counting, StatesInv, SeedsInv, pathsExplored \in Nat, options' = options, states' = states,
         NEW s \in live, NEW back, forkOneSide(s, back)
  PROVE  Forked(s, back, {}, {})
<1>1. Effect({}, {}) /\ seedMap' = seedMap /\ forks' = forks
  BY Zenon, NoEffect DEF forkOneSide, treeVars
<1>2. s # None
  BY StatesAssumption DEF StatesInv, Consistent, live
<1>3. /\ at' = back
      /\ \/ first' = (IF back = "timers" THEN None ELSE s) /\ second' = None
         \/ second' = (IF back = "timers" THEN None ELSE s) /\ first' = None
  BY Zenon DEF forkOneSide, StatePair
<1>4. QED
  BY Zenon, <1>1, <1>2, <1>3 DEF Forked, Deleted

\* A fork with two feasible sides adds one state, and ends it again where the
\* depth limit says so.
LEMMA ForkBothEffect ==
  ASSUME StatesInv, SeedsInv, pathsExplored \in Nat, options' = options, states' = states,
         NEW s \in live, NEW back, forkBoth(s, back)
  PROVE  \E new, ended : Forked(s, back, new, ended)
<1>1. PICK f \in Free, r \in Rank, T \in SUBSET SeedsOf(s) :
         LET nodeOf == [x \in live \cup {f} |->
                            IF x = f THEN Left(ptreeNode[s])
                            ELSE IF x = s THEN Right(ptreeNode[s]) ELSE ptreeNode[x]]
             ranks  == [x \in live \cup {f} |-> IF x = f THEN r ELSE rank[x]]
             tooDeep == MaxDepth # 0 /\ MaxDepth <= depth(s) + 1
         IN  /\ isSeeding(s) /\ OnlyReplaySeeds => T # {} /\ T # SeedsOf(s)
             /\ endStates(IF tooDeep THEN {s, f} ELSE {}, addedStates \cup {f},
                          splitSeeds(s, f, T), split(processTree, ptreeNode[s]),
                          nodeOf, ranks)
             /\ forkedPair(s, f, tooDeep, back)
  BY Zenon DEF forkBoth
<1>. DEFINE nodeOf == [x \in live \cup {f} |->
                           IF x = f THEN Left(ptreeNode[s])
                           ELSE IF x = s THEN Right(ptreeNode[s]) ELSE ptreeNode[x]]
            ranks == [x \in live \cup {f} |-> IF x = f THEN r ELSE rank[x]]
            tooDeep == MaxDepth # 0 /\ MaxDepth <= depth(s) + 1
            K == IF tooDeep THEN {s, f} ELSE {}
            seeds == splitSeeds(s, f, T)
            nodes == split(processTree, ptreeNode[s])
<1>2. /\ isSeeding(s) /\ OnlyReplaySeeds => T # {} /\ T # SeedsOf(s)
      /\ endStates(K, addedStates \cup {f}, seeds, nodes, nodeOf, ranks)
      /\ forkedPair(s, f, tooDeep, back)
  BY <1>1, Zenon
<1>3. /\ Consistent(states, addedStates \cup {f}, removedStates, nodes, nodeOf, ranks)
      /\ \A x \in states : ranks[x] = rank[x]
  BY Copied, Zenon
<1>4. /\ SeedsOK(seeds, live \cup {f})
      /\ isSeeding(s) /\ OnlyReplaySeeds => DOMAIN seeds = DOMAIN seedMap \cup {f}
  BY <1>2, SeedsSplit, Zenon
<1>5. K \subseteq {s, f} /\ (tooDeep => K = {s, f}) /\ (~tooDeep => K = {}) /\ nodeOf[f] = Left(ptreeNode[s])
  BY Zenon
<1>6. forks' = forks + 1
  BY Zenon DEF forkBoth
<1>7. f \in State /\ f \notin live /\ f # s /\ s # None /\ f # None
  BY Zenon, StatesAssumption DEF StatesInv, Consistent, live, Free
<1>. HIDE DEF nodeOf, ranks, tooDeep, K, seeds, nodes
<1>8. K \subseteq live \cup {f} /\ {f} \subseteq Free
  BY Zenon, <1>5
<1>9. /\ Effect({f}, K) /\ DOMAIN seedMap' = DOMAIN seeds \ Deleted({f}, K)
      /\ \A x \in live' : ptreeNode'[x] = nodeOf[x]
  <2>1. Ending({f}, K, seeds, nodes, nodeOf, ranks)
    BY <1>2, <1>3, <1>4, <1>8, Zenon DEF Ending
  <2>2. Ended({f}, K, seeds, nodeOf)
    BY <2>1, EndStatesEffect, Zenon
  <2>3. QED
    BY <2>2, Zenon DEF Ended
<1>10. /\ at' = back
       /\ back = "timers" \/ tooDeep => first' = None /\ second' = None
       /\ back # "timers" /\ ~tooDeep => first' = s /\ second' = f
  BY <1>2, Zenon DEF forkedPair, StatePair
<1>11. /\ {first', second'} \subseteq (({s} \cup {f}) \ K) \cup {None}
       /\ first' = second' => first' = None
  BY Zenon, <1>5, <1>7, <1>10
<1>12. Forked(s, back, {f}, K)
  BY Zenon, <1>4, <1>5, <1>6, <1>9, <1>10, <1>11 DEF Forked
<1>13. QED
  BY <1>12, Zenon

\* Whatever the solver answers, fork adds and ends states as Forked says.
LEMMA ForkEffect ==
  ASSUME Counting, StatesInv, SeedsInv, pathsExplored \in Nat, options' = options, states' = states,
         NEW s \in live, NEW back, fork(s, back)
  PROVE  \E new, ended : Forked(s, back, new, ended)
<1>1. CASE forkTimeout(s, back)
  BY <1>1, ForkTimeoutEffect, Zenon
<1>2. CASE forkOneSide(s, back)
  BY <1>2, ForkOneSideEffect, Zenon
<1>3. CASE forkBoth(s, back)
  BY <1>3, ForkBothEffect, Zenon
<1>4. QED
  BY <1>1, <1>2, <1>3, Zenon DEF fork

\* branch splits one state of its result and adds the copy to it.
LEMMA BranchEffect ==
  ASSUME Counting, StatesInv, SeedsInv, pathsExplored \in Nat, options' = options,
         result \subseteq live, branch
  PROVE  \E es \in result, ns \in Free :
            /\ Effect({ns}, {}) /\ result' = result \cup {ns}
            /\ ptreeNode'[ns] = Left(ptreeNode[es])
<1>1. PICK es \in result, ns \in Free, r \in Rank :
         /\ addedStates' = addedStates \cup {ns}
         /\ result' = result \cup {ns}
         /\ processTree' = split(processTree, ptreeNode[es])
         /\ ptreeNode' = [x \in live \cup {ns} |->
                IF x = ns THEN Left(ptreeNode[es])
                ELSE IF x = es THEN Right(ptreeNode[es]) ELSE ptreeNode[x]]
         /\ rank' = [x \in live \cup {ns} |-> IF x = ns THEN r ELSE rank[x]]
  BY Zenon DEF branch
<1>2. /\ removedStates' = removedStates /\ seedMap' = seedMap /\ states' = states
      /\ pathsExplored' = pathsExplored
  BY Zenon DEF branch, loopVars
<1>3. es \in live
  BY Zenon
<1>4. Consistent(states, addedStates', removedStates, processTree', ptreeNode', rank')
      /\ \A x \in states : rank'[x] = rank[x]
  <2>. DEFINE nodeOf == [x \in live \cup {ns} |->
                            IF x = ns THEN Left(ptreeNode[es])
                            ELSE IF x = es THEN Right(ptreeNode[es]) ELSE ptreeNode[x]]
              ranks == [x \in live \cup {ns} |-> IF x = ns THEN r ELSE rank[x]]
  <2>1. Consistent(states, addedStates \cup {ns}, removedStates, split(processTree, ptreeNode[es]),
                   nodeOf, ranks)
        /\ \A x \in states : ranks[x] = rank[x]
    BY <1>3, Copied, Zenon
  <2>2. /\ addedStates' = addedStates \cup {ns} /\ ptreeNode' = nodeOf /\ rank' = ranks
        /\ processTree' = split(processTree, ptreeNode[es])
    BY <1>1, Zenon
  <2>. HIDE DEF nodeOf, ranks
  <2>3. QED
    BY <2>1, <2>2, Zenon
<1>5. StatesInv'
  BY <1>2, <1>4, Zenon DEF StatesInv
<1>6. live' = live \cup {ns}
  BY Zenon, <1>1, <1>2 DEF live
<1>7. SeedsInv'
  BY Zenon, <1>2, <1>6 DEF SeedsInv, SeedsOK, Seeds
<1>8. removedStates' = [s \in State |-> removedStates[s] + IF s \in {} \cap states THEN 1 ELSE 0]
  BY <1>2 DEF StatesInv, Consistent
<1>9. pathsExplored' = pathsExplored + Cardinality({})
  BY <1>2 DEF Counting
<1>10. Effect({ns}, {})
  <2>1. {ns} \subseteq Free /\ {} \subseteq live \cup {ns} /\ Deleted({ns}, {}) = {}
        /\ live \cup {ns} = (live \cup {ns}) \ {} /\ addedStates' = (addedStates \cup {ns}) \ {}
    BY Zenon, <1>1 DEF Deleted
  <2>2. QED
    BY <1>2, <1>4, <1>5, <1>6, <1>7, <1>8, <1>9, <2>1, Zenon DEF Effect
<1>11. ptreeNode'[ns] = Left(ptreeNode[es])
  BY Zenon, <1>1
<1>12. QED
  BY <1>1, <1>10, <1>11, Zenon

\* The seeds of the current state, distributed over the targets of a switch.
Spread(E, to, keys, seeds) ==
    /\ E \subseteq {None} /\ to \in [seedMap[current] -> result \cup E]
    /\ keys = (DOMAIN seedMap \ {current}) \cup (Range(to) \ {None})
    /\ seeds = [x \in keys |-> IF x \in result THEN {d \in DOMAIN to : to[d] = x}
                                               ELSE seedMap[x]]

\* The seeds that branch hands out go to states of the result.
LEMMA SeedsSpread ==
  ASSUME SeedsInv, result \subseteq live, isSeeding(current), current \in result,
         result \cap DOMAIN seedMap \subseteq {current}, None \notin live,
         NEW E, NEW to, NEW keys, NEW seeds, Spread(E, to, keys, seeds)
  PROVE  SeedsOK(seeds, live) /\ DOMAIN seedMap \ {current} \subseteq DOMAIN seeds
<1>0. /\ E \subseteq {None} /\ to \in [seedMap[current] -> result \cup E]
      /\ keys = (DOMAIN seedMap \ {current}) \cup (Range(to) \ {None})
      /\ seeds = [x \in keys |-> IF x \in result THEN {d \in DOMAIN to : to[d] = x}
                                                 ELSE seedMap[x]]
  BY Zenon DEF Spread
<1>1. /\ seedMap \in [DOMAIN seedMap -> SUBSET Seeds] /\ DOMAIN seedMap \subseteq live
      /\ \A x \in DOMAIN seedMap : seedMap[x] # {}
      /\ \A x, y \in DOMAIN seedMap : x # y => seedMap[x] \cap seedMap[y] = {}
      /\ current \in DOMAIN seedMap
  BY Zenon DEF SeedsInv, SeedsOK, isSeeding
<1>2. DOMAIN to = seedMap[current] /\ \A d \in seedMap[current] : to[d] \in result \cup E
  BY Zenon, <1>0
<1>3. \A x \in keys : \/ x \in DOMAIN seedMap /\ x \notin result
                      \/ x \in result /\ \E d \in DOMAIN to : to[d] = x
  BY Zenon, <1>0, <1>2 DEF Range
<1>4. /\ DOMAIN seeds = keys
      /\ \A x \in keys : x \in result => seeds[x] = {d \in DOMAIN to : to[d] = x}
      /\ \A x \in keys : x \notin result => seeds[x] = seedMap[x]
  BY Zenon, <1>0
<1>5. \A x \in keys : x \in result => seeds[x] \subseteq seedMap[current] /\ seeds[x] # {}
  BY <1>2, <1>3, <1>4
<1>6. \A x \in keys : seeds[x] \in SUBSET Seeds /\ seeds[x] # {}
  BY Zenon, <1>1, <1>3, <1>4, <1>5
<1>7. seeds \in [keys -> SUBSET Seeds]
  <2>1. seeds = [x \in keys |-> seeds[x]]
    BY <1>0, Zenon
  <2>2. QED
    BY Zenon, <1>6, <2>1
<1>8. ASSUME NEW x \in keys, NEW y \in keys, x # y PROVE seeds[x] \cap seeds[y] = {}
  <2>1. CASE x \in result /\ y \in result
    BY <1>4, <1>8, <2>1
  <2>2. CASE x \in result /\ y \notin result
    <3>1. y \in DOMAIN seedMap /\ y # current /\ seeds[y] = seedMap[y]
      BY <1>3, <1>4, <2>2
    <3>2. seedMap[current] \cap seedMap[y] = {} /\ seeds[x] \subseteq seedMap[current]
      BY <1>1, <1>5, <2>2, <3>1, Zenon
    <3>3. QED
      BY Zenon, <3>1, <3>2
  <2>3. CASE x \notin result /\ y \in result
    <3>1. x \in DOMAIN seedMap /\ x # current /\ seeds[x] = seedMap[x]
      BY Zenon, <1>3, <1>4, <2>3
    <3>2. seedMap[current] \cap seedMap[x] = {} /\ seeds[y] \subseteq seedMap[current]
      BY <1>1, <1>5, <2>3, <3>1, Zenon
    <3>3. QED
      BY Zenon, <3>1, <3>2
  <2>4. CASE x \notin result /\ y \notin result
    BY <1>1, <1>3, <1>4, <1>8, <2>4
  <2>5. QED
    BY Zenon, <2>1, <2>2, <2>3, <2>4
<1>9. keys \subseteq live
  BY Zenon, <1>1, <1>3
<1>10. QED
  <2>1. DOMAIN seedMap \ {current} \subseteq keys
    BY Zenon, <1>0
  <2>2. QED
    BY <1>4, <1>6, <1>7, <1>8, <1>9, <2>1, Zenon DEF SeedsOK

\* Handing out the seeds ends only states of the result, and with --only-replay-
\* seeds every state without a seed.
LEMMA RedistributeEffect ==
  ASSUME Counting, StatesInv, SeedsInv, pathsExplored \in Nat, options' = options,
         result \subseteq live, current \in result,
         result \cap DOMAIN seedMap \subseteq {current}, redistribute
  PROVE  \E ended :
            /\ Effect({}, ended) /\ ended \subseteq result
            /\ OnlyReplaySeeds /\ isSeeding(current) /\ live \ result \subseteq DOMAIN seedMap =>
                   live' \ ended \subseteq DOMAIN seedMap'
<1>1. states' = states
  BY Zenon DEF redistribute, loopVars
<1>2. CASE ~isSeeding(current)
  <2>1. Effect({}, {})
    BY <1>1, <1>2, NoEffect, Zenon DEF redistribute
  <2>2. QED
    BY <1>2, <2>1
<1>3. CASE isSeeding(current)
  <2>. DEFINE E == IF todo > 0 THEN {None} ELSE {}
  <2>1. PICK to \in [seedMap[current] -> result \cup E] :
              LET keys  == (DOMAIN seedMap \ {current}) \cup (Range(to) \ {None})
                  seeds == [x \in keys |->
                              IF x \in result THEN {d \in DOMAIN to : to[d] = x}
                                              ELSE seedMap[x]]
              IN  endStates(unseeded(seeds), addedStates, seeds, processTree,
                            ptreeNode, rank)
    BY <1>3, Zenon DEF redistribute
  <2>. DEFINE keys == (DOMAIN seedMap \ {current}) \cup (Range(to) \ {None})
              seeds == [x \in keys |-> IF x \in result THEN {d \in DOMAIN to : to[d] = x}
                                                       ELSE seedMap[x]]
              K == unseeded(seeds)
  <2>2. endStates(K, addedStates, seeds, processTree, ptreeNode, rank)
    BY <2>1, Zenon
  <2>3. E \subseteq {None} /\ None \notin live
    BY Zenon, StatesAssumption DEF StatesInv, Consistent, live
  <2>. HIDE DEF E
  <2>4. SeedsOK(seeds, live) /\ DOMAIN seedMap \ {current} \subseteq DOMAIN seeds
    <3>1. Spread(E, to, keys, seeds)
      BY <2>3, Zenon DEF Spread
    <3>2. QED
      BY <1>3, <2>3, <3>1, SeedsSpread, Zenon
  <2>5. K \subseteq result /\ (OnlyReplaySeeds => K = result \ DOMAIN seeds)
    BY Zenon DEF unseeded
  <2>. HIDE DEF keys, seeds, K
  <2>6. addedStates \cup {} = addedStates /\ live \cup {} = live /\ K \subseteq live
    BY Zenon, <2>5
  <2>7. Ending({}, K, seeds, processTree, ptreeNode, rank)
    BY <2>2, <2>4, <2>6 DEF StatesInv, SeedsInv, Ending
  <2>8. Ended({}, K, seeds, ptreeNode)
    BY <1>1, <2>7, EndStatesEffect, Zenon
  <2>9. /\ Effect({}, K) /\ DOMAIN seedMap' = DOMAIN seeds \ Deleted({}, K)
        /\ live' = live \ Deleted({}, K)
    BY Zenon, <2>6, <2>8 DEF Ended, Effect
  <2>10. OnlyReplaySeeds /\ live \ result \subseteq DOMAIN seedMap => live' \ K \subseteq DOMAIN seedMap'
    BY Zenon, <2>4, <2>5, <2>9 DEF Deleted
  <2>11. QED
    BY <2>5, <2>9, <2>10, Zenon
<1>4. QED
  BY Zenon, <1>2, <1>3

-----------------------------------------------------------------------------
(* The steps inside an instruction *)

Handler(new, ended) ==
    /\ Effect(new, ended)
    /\ at \notin Outer /\ at' \in Place \ (Outer \cup {"execute"})
    /\ UNCHANGED <<current, lastState, queue, searcher>>
    /\ haltExecution' \in BOOLEAN /\ atMemoryLimit' \in BOOLEAN /\ forks' \in Nat
    /\ HeldInv'

\* The seeds of the states that are left, if all states had seeds.
Replayed(new, ended) ==
    OnlyReplaySeeds /\ (at \in {"timers", "memory"} \/ live \subseteq DOMAIN seedMap) =>
        (DOMAIN seedMap \cup new) \ Deleted(new, ended) \subseteq DOMAIN seedMap'

\* Only states that have not ended, and that the handler may hold, end and are copied, and
\* it lets go of the ones that ended.
Tracked(new, ended) ==
    /\ ended \subseteq HeldStates \cup new \cup {s \in states : removedStates[s] = 0}
    /\ HeldStates' \subseteq (HeldStates \cup new) \ ended
    /\ forks' - pending' = forks - pending + Cardinality(new)
    /\ \A f \in new \cap live' : \E p \in HeldStates : ptreeNode'[f] = Left(ptreeNode[p])

\* A step that adds and ends states as its effect says keeps the mirror
\* invariant.
LEMMA HandlerKeeps ==
  ASSUME Counting, MirrorInv, options' = options, NEW new, NEW ended, Handler(new, ended)
  PROVE  MirrorInv'
<1>1. Effect(new, ended) /\ StatesInv' /\ SeedsInv' /\ states' = states
  BY Zenon DEF Handler, Effect
<1>2. current' = current /\ current \in states /\ lastState' = lastState /\ queue' = queue
      /\ searcher' = searcher
  BY Zenon DEF Handler, MirrorInv, LocalInv
<1>3. LocalInv'
  BY Zenon, <1>1, <1>2 DEF LocalInv, Handler
<1>4. \A s \in states : rank'[s] = rank[s]
  BY Zenon DEF Handler, Effect
<1>5. QueueInv'
  <2>1. {<<rank'[s], s>> : s \in states \ {current}} = {<<rank[s], s>> : s \in states \ {current}}
    BY Zenon, <1>4
  <2>2. at' \notin {"select", "seeding", "halt", "done"}
    BY Zenon DEF Handler, Outer
  <2>3. /\ queue \subseteq Rank \X State /\ searcher \in BOOLEAN
        /\ searcher => /\ {e \in queue : e[2] # current} = {<<rank[s], s>> : s \in states \ {current}}
                       /\ current # None => Queued(current)
    BY Zenon DEF MirrorInv, QueueInv
  <2>4. searcher => /\ {e \in queue' : e[2] # current'} = {<<rank'[s], s>> : s \in states' \ {current'}}
                    /\ current' # None => Queued(current)'
    BY Zenon, <1>1, <1>2, <2>1, <2>3 DEF Queued
  <2>5. QED
    BY <1>2, <2>2, <2>3, <2>4, Zenon DEF QueueInv
<1>6. RestInv'
  <2>1. ended \subseteq State
    BY Zenon, <1>1 DEF Effect, Free, live, MirrorInv, StatesInv, Consistent
  <2>2. Cardinality(ended) \in Nat
    BY Zenon, <2>1, StatesAssumption DEF Counting
  <2>3. pathsExplored' \in Nat
    BY <1>1, <2>2 DEF Effect, MirrorInv, RestInv
  <2>4. QED
    BY Zenon, <1>2, <2>3 DEF RestInv, MirrorInv, Handler
<1>7. QED
  BY Zenon, <1>1, <1>3, <1>5, <1>6 DEF MirrorInv

\* A step that forks nothing: the states K end.
LEMMA EndStep ==
  ASSUME Counting, MirrorInv, options' = options, NEW K,
         Effect({}, K), DOMAIN seedMap' = DOMAIN seedMap \ Deleted({}, K),
         forks' = forks, UNCHANGED <<current, lastState, queue, searcher>>,
         haltExecution' \in BOOLEAN, atMemoryLimit' \in BOOLEAN,
         at \notin Outer \cup {"branching", "branched"},
         at' \in Place \ (Outer \cup {"execute", "branching", "branched"}), Shape',
         HeldStates' \subseteq HeldStates \ Deleted({}, K)
  PROVE  /\ Handler({}, K) /\ Replayed({}, K)
         /\ K \subseteq HeldStates \cup {s \in states : removedStates[s] = 0} =>
                (HeldStates' \subseteq HeldStates \ K => Tracked({}, K))
<1>1. live' = live \ Deleted({}, K)
  BY Zenon DEF Effect, Deleted
<1>2. HeldStates \subseteq live
  BY Zenon DEF MirrorInv, LocalInv, HeldInv
<1>3. HeldStates' \subseteq live'
  BY Zenon, <1>1, <1>2
<1>4. HeldInv'
  BY Zenon, <1>3 DEF HeldInv
<1>5. forks \in Nat
  BY Zenon DEF MirrorInv, RestInv
<1>6. Handler({}, K)
  BY Zenon, <1>4, <1>5 DEF Handler
<1>7. Replayed({}, K)
  BY Zenon DEF Replayed
<1>8. Cardinality({}) = 0 /\ pending = 0 /\ pending' = 0
  BY Zenon DEF Counting, pending
<1>9. ASSUME K \subseteq HeldStates \cup {s \in states : removedStates[s] = 0},
              HeldStates' \subseteq HeldStates \ K
      PROVE  Tracked({}, K)
  BY <1>5, <1>8, <1>9 DEF Tracked
<1>10. QED
  BY Zenon, <1>6, <1>7, <1>9

\* A step that calls fork for a state s that the handler holds.
LEMMA ForkStep ==
  ASSUME Counting, MirrorInv, options' = options, UNCHANGED <<haltExecution, loopVars, result, hasInvalid>>,
         NEW s \in HeldStates \ result, NEW back, fork(s, back),
         back \in {"timers", "alloc", "huge", "bound", "free", "exactBound", "called"},
         at \notin Outer \cup {"branching", "branched"}, todo' \in Nat,
         result # {} => back = "exactBound", back = "called" /\ second' # None => todo' # 0
  PROVE  \E new, ended : Handler(new, ended) /\ Replayed(new, ended) /\ Tracked(new, ended)
<1>1. /\ StatesInv /\ SeedsInv /\ pathsExplored \in Nat /\ forks \in Nat /\ states' = states
      /\ atMemoryLimit \in BOOLEAN /\ haltExecution \in BOOLEAN /\ HeldInv
  BY Zenon DEF MirrorInv, RestInv, LocalInv, loopVars
<1>2. HeldStates \subseteq live /\ s \in live /\ result \subseteq HeldStates
  BY Zenon, <1>1 DEF HeldInv, HeldStates
<1>3. PICK new, ended : Forked(s, back, new, ended)
  BY <1>1, <1>2, ForkEffect, Zenon
<1>4. /\ Effect(new, ended) /\ ended \subseteq {s} \cup new /\ at' = back
      /\ {first', second'} \subseteq (({s} \cup new) \ ended) \cup {None}
      /\ first' = second' => first' = None
      /\ back = "timers" => first' = None /\ second' = None
      /\ OnlyReplaySeeds /\ isSeeding(s) =>
             DOMAIN seedMap' = (DOMAIN seedMap \cup new) \ Deleted(new, ended)
      /\ \A f \in new \cap live' : ptreeNode'[f] = Left(ptreeNode[s])
  BY <1>3, Zenon DEF Forked
<1>5. /\ \/ new = {} /\ forks' = forks
         \/ (\E f : new = {f}) /\ forks' = forks + 1
  BY <1>3, Zenon DEF Forked
<1>6. new \cap live = {} /\ None \notin live \cup new
  BY <1>1, <1>4, StatesAssumption DEF Effect, Free, StatesInv, Consistent, live
<1>7. live' = (live \cup new) \ Deleted(new, ended) /\ Deleted(new, ended) \subseteq ended
  BY Zenon, <1>4 DEF Effect, Deleted
<1>8. result' = result /\ result \cap ended = {} /\ hasInvalid' = hasInvalid
  BY <1>2, <1>4, <1>6
<1>9. HeldStates' = result \cup ({first', second'} \ {None})
  BY Zenon, <1>4, <1>8 DEF HeldStates
<1>10. HeldStates' \subseteq (HeldStates \cup new) \ ended
  BY <1>2, <1>4, <1>8, <1>9
<1>11. HeldStates' \subseteq live'
  BY Zenon, <1>2, <1>7, <1>10
<1>12. first' \notin result /\ second' \notin result
  BY Zenon, <1>2, <1>4, <1>6
<1>13. hasInvalid \in BOOLEAN
  BY Zenon, <1>1 DEF HeldInv, Shape
<1>14. Shape'
  BY <1>4, <1>8, <1>12, <1>13 DEF Shape
<1>15. HeldInv'
  BY Zenon, <1>4, <1>11, <1>14 DEF HeldInv
<1>16. forks' \in Nat
  BY <1>1, <1>5
<1>17. Handler(new, ended)
  BY Zenon, <1>1, <1>4, <1>15, <1>16 DEF Handler, loopVars, Place, Outer
<1>18. Replayed(new, ended)
  <2>1. CASE at \in {"timers", "memory"}
    BY Zenon, <1>1, <2>1 DEF HeldInv, Shape, HeldStates
  <2>2. CASE at \notin {"timers", "memory"}
    BY Zenon, <1>2, <1>4, <2>2 DEF Replayed, isSeeding
  <2>3. QED
    BY Zenon, <2>1, <2>2
<1>19. Cardinality(new) = forks' - forks
  <2>1. CASE new = {} /\ forks' = forks
    BY <1>1, <2>1 DEF Counting
  <2>2. CASE (\E f : new = {f}) /\ forks' = forks + 1
    <3>1. Cardinality(new) = 1
      BY <2>2, Zenon DEF Counting
    <3>2. QED
      BY <1>1, <2>2, <3>1
  <2>3. QED
    BY <1>5, <2>1, <2>2, Zenon
<1>20. pending = 0 /\ pending' = 0
  BY Zenon, <1>4 DEF pending
<1>21. Tracked(new, ended)
  <2>1. forks' - pending' = forks - pending + Cardinality(new)
    BY <1>1, <1>16, <1>19, <1>20
  <2>2. ended \subseteq HeldStates \cup new \cup {x \in states : removedStates[x] = 0}
    BY Zenon, <1>4
  <2>3. QED
    BY <1>4, <1>10, <2>1, <2>2, Zenon DEF Tracked
<1>22. QED
  BY <1>17, <1>18, <1>21, Zenon

\* Each handler, in terms of the states that it makes and ends.
Steps == \E new, ended : Handler(new, ended) /\ Replayed(new, ended) /\ Tracked(new, ended)

\* Every terminateState of states that the handler holds, and lets go of.
LEMMA EndsHeld ==
  ASSUME Counting, MirrorInv, options' = options, NEW K, K \subseteq HeldStates,
         endStates(K, addedStates, seedMap, processTree, ptreeNode, rank),
         forks' = forks, UNCHANGED loopVars, haltExecution' \in {haltExecution, TRUE},
         at \notin Outer \cup {"branching", "branched"},
         at' \in Place \ (Outer \cup {"execute", "branching", "branched"}), Shape',
         HeldStates' \subseteq HeldStates \ K
  PROVE  Steps
<1>1. StatesInv /\ SeedsInv /\ haltExecution' \in BOOLEAN /\ K \subseteq live /\ states' = states
  BY Zenon DEF MirrorInv, RestInv, LocalInv, HeldInv, loopVars
<1>2. Effect({}, K) /\ DOMAIN seedMap' = DOMAIN seedMap \ Deleted({}, K)
  BY <1>1, EndEffect, Zenon
<1>3. /\ UNCHANGED <<current, lastState, queue, searcher>> /\ atMemoryLimit' \in BOOLEAN
      /\ K \subseteq HeldStates \cup {s \in states : removedStates[s] = 0}
      /\ HeldStates' \subseteq HeldStates \ Deleted({}, K)
  BY Zenon DEF loopVars, MirrorInv, RestInv, Deleted
<1>4. Handler({}, K) /\ Replayed({}, K) /\ Tracked({}, K)
  BY <1>1, <1>2, <1>3, EndStep, Zenon
<1>5. QED
  BY <1>4, Zenon DEF Steps

\* A step inside an instruction that ends nothing is such a step.
LEMMA EndsNone ==
  ASSUME Counting, MirrorInv, options' = options, UNCHANGED treeVars,
         forks' = forks, UNCHANGED loopVars, haltExecution' \in {haltExecution, TRUE},
         at \notin Outer \cup {"branching", "branched"},
         at' \in Place \ (Outer \cup {"execute", "branching", "branched"}), Shape',
         HeldStates' \subseteq HeldStates
  PROVE  Steps
<1>1. /\ StatesInv /\ SeedsInv /\ pathsExplored \in Nat /\ haltExecution' \in BOOLEAN
      /\ states' = states
  BY Zenon DEF MirrorInv, RestInv, loopVars
<1>2. Effect({}, {})
  BY <1>1, NoEffect, Zenon
<1>3. DOMAIN seedMap' = DOMAIN seedMap \ Deleted({}, {})
  BY Zenon DEF treeVars, Deleted
<1>. DEFINE K == {}
<1>4. /\ Effect({}, K) /\ DOMAIN seedMap' = DOMAIN seedMap \ Deleted({}, K)
      /\ K \subseteq HeldStates /\ HeldStates' \subseteq HeldStates \ K
  BY Zenon, <1>2, <1>3
<1>. HIDE DEF K
<1>5. /\ UNCHANGED <<current, lastState, queue, searcher>> /\ atMemoryLimit' \in BOOLEAN
      /\ K \subseteq HeldStates \cup {s \in states : removedStates[s] = 0}
      /\ HeldStates' \subseteq HeldStates \ Deleted({}, K)
  BY Zenon, <1>4 DEF loopVars, MirrorInv, RestInv, Deleted
<1>6. Handler({}, K) /\ Replayed({}, K) /\ Tracked({}, K)
  BY <1>1, <1>4, <1>5, EndStep, Zenon
<1>7. QED
  BY <1>6, Zenon DEF Steps

\* An instruction that does not fork.
LEMMA PlainSteps == ASSUME Counting, MirrorInv, options' = options, Plain PROVE Steps
<1>1. /\ at = "execute" /\ at' = "timers" /\ UNCHANGED <<haltExecution, forks, treeVars, loopVars>>
      /\ UNCHANGED <<first, second, result, todo, hasInvalid, current>>
  BY Zenon DEF Plain, At, Goto, localVars, loopVars
<1>2. Shape' /\ HeldStates' \subseteq HeldStates
  BY Zenon, <1>1 DEF MirrorInv, LocalInv, HeldInv, Shape, HeldStates
<1>3. at \notin Outer \cup {"branching", "branched"}
      /\ at' \in Place \ (Outer \cup {"execute", "branching", "branched"})
  BY Zenon, <1>1 DEF Outer, Place
<1>4. QED
  BY <1>1, <1>2, <1>3, EndsNone, Zenon

\* An exit or an error ends the current state.
LEMMA ExitSteps ==
  ASSUME Counting, MirrorInv, options' = options, Exit \/ Error
  PROVE  Steps
<1>1. /\ at = "execute" /\ at' = "timers" /\ forks' = forks /\ UNCHANGED loopVars
      /\ endStates({current}, addedStates, seedMap, processTree, ptreeNode, rank)
      /\ haltExecution' \in {haltExecution, TRUE}
      /\ UNCHANGED <<first, second, result, todo, hasInvalid, current>>
  BY Zenon DEF Exit, Error, At, Goto, terminateStateOnError, terminateState, localVars, loopVars
<1>2. first = None /\ second = None /\ result = {}
  BY Zenon, <1>1 DEF MirrorInv, LocalInv, HeldInv, Shape
<1>3. Shape' /\ HeldStates' = {} /\ HeldStates = {current}
  BY Zenon, <1>1, <1>2 DEF MirrorInv, LocalInv, HeldInv, Shape, HeldStates
<1>4. /\ at \notin Outer \cup {"branching", "branched"}
      /\ at' \in Place \ (Outer \cup {"execute", "branching", "branched"})
      /\ {current} \subseteq HeldStates /\ HeldStates' \subseteq HeldStates \ {current}
  BY Zenon, <1>1, <1>3 DEF Outer, Place
<1>5. QED
  BY <1>1, <1>3, <1>4, EndsHeld, Zenon

\* Br, Alloc and free fork the current state.
LEMMA ForkCurrentSteps ==
  ASSUME Counting, MirrorInv, options' = options, Br \/ Alloc \/ executeFree
  PROVE  Steps
<1>1. /\ at = "execute" /\ UNCHANGED <<haltExecution, loopVars, result, hasInvalid>> /\ todo' = todo
      /\ \E back \in {"timers", "alloc", "free"} : fork(current, back)
  BY Zenon DEF Br, Alloc, executeFree, At
<1>2. result = {} /\ todo \in Nat /\ current \in HeldStates \ result
  BY Zenon, <1>1 DEF MirrorInv, LocalInv, HeldInv, Shape, HeldStates
<1>3. PICK back \in {"timers", "alloc", "free"} : fork(current, back)
  BY Zenon, <1>1
<1>4. /\ back \in {"timers", "alloc", "huge", "bound", "free", "exactBound", "called"}
      /\ at \notin Outer \cup {"branching", "branched"} /\ todo' \in Nat
      /\ back # "called"
  BY Zenon, <1>1, <1>2 DEF Outer
<1>5. QED
  BY <1>1, <1>2, <1>3, <1>4, ForkStep, Zenon DEF Steps

\* An allocation whose size has several values forks.
LEMMA AllocOtherSteps == ASSUME Counting, MirrorInv, options' = options, allocOtherSizes PROVE Steps
<1>1. /\ at = "alloc" /\ UNCHANGED <<haltExecution, loopVars, result, hasInvalid>> /\ todo' = todo
      /\ current' = current
  BY Zenon DEF allocOtherSizes, At, loopVars
<1>2. result = {} /\ todo \in Nat
  BY Zenon, <1>1 DEF MirrorInv, LocalInv, HeldInv, Shape
<1>3. CASE StatePair(None, None, "timers") /\ UNCHANGED <<treeVars, forks>>
  <2>1. at' = "timers" /\ first' = None /\ second' = None
    BY Zenon, <1>3 DEF StatePair
  <2>2. Shape' /\ HeldStates' \subseteq HeldStates
    BY Zenon, <1>1, <1>2, <2>1 DEF MirrorInv, LocalInv, HeldInv, Shape, HeldStates
  <2>3. at \notin Outer \cup {"branching", "branched"}
        /\ at' \in Place \ (Outer \cup {"execute", "branching", "branched"})
    BY Zenon, <1>1, <2>1 DEF Outer, Place
  <2>4. QED
    BY <1>1, <1>3, <2>2, <2>3, EndsNone, Zenon
<1>4. CASE second # None /\ fork(second, "huge")
  <2>1. second \in HeldStates \ result
    BY Zenon, <1>2, <1>4 DEF HeldStates
  <2>2. at \notin Outer \cup {"branching", "branched"} /\ todo' \in Nat
        /\ "huge" \in {"timers", "alloc", "huge", "bound", "free", "exactBound", "called"}
        /\ "huge" # "called"
    BY Zenon, <1>1, <1>2 DEF Outer
  <2>3. QED
    BY <1>1, <1>2, <1>4, <2>1, <2>2, ForkStep, Zenon DEF Steps
<1>5. QED
  BY <1>3, <1>4, Zenon DEF allocOtherSizes

\* The state that asks for a huge size ends with an error.
LEMMA AllocNotHugeSteps == ASSUME Counting, MirrorInv, options' = options, allocNotHuge PROVE Steps
<1>1. /\ at = "huge" /\ at' = "timers" /\ first' = None /\ second' = None /\ forks' = forks
      /\ UNCHANGED loopVars /\ UNCHANGED <<result, todo, hasInvalid, current>>
  BY Zenon DEF allocNotHuge, At, StatePair, loopVars
<1>2. result = {} /\ todo \in Nat
  BY Zenon, <1>1 DEF MirrorInv, LocalInv, HeldInv, Shape
<1>3. Shape' /\ HeldStates' = {}
  BY Zenon, <1>1, <1>2 DEF MirrorInv, LocalInv, HeldInv, Shape, HeldStates
<1>4. at \notin Outer \cup {"branching", "branched"}
      /\ at' \in Place \ (Outer \cup {"execute", "branching", "branched"})
  BY Zenon, <1>1 DEF Outer, Place
<1>5. CASE second # None
  <2>1. /\ endStates({second}, addedStates, seedMap, processTree, ptreeNode, rank)
        /\ haltExecution' \in {haltExecution, TRUE}
    BY <1>5, Zenon DEF allocNotHuge, terminateStateOnError, terminateState
  <2>2. {second} \subseteq HeldStates /\ HeldStates' \subseteq HeldStates \ {second}
    BY <1>3, <1>5 DEF HeldStates
  <2>3. QED
    BY <1>1, <1>3, <1>4, <2>1, <2>2, EndsHeld, Zenon
<1>6. CASE second = None
  <2>1. UNCHANGED treeVars /\ haltExecution' \in {haltExecution, TRUE}
    BY Zenon, <1>6 DEF allocNotHuge
  <2>2. HeldStates' \subseteq HeldStates
    BY Zenon, <1>3
  <2>3. QED
    BY <1>1, <1>3, <1>4, <2>1, <2>2, EndsNone, Zenon
<1>7. QED
  BY Zenon, <1>5, <1>6

\* A memory operation resolves its address or goes on to the slow path.
LEMMA MemoryOperationSteps ==
  ASSUME Counting, MirrorInv, options' = options, executeMemoryOperation
  PROVE  Steps
<1>1. at = "access" /\ forks' = forks /\ UNCHANGED loopVars /\ current' = current
  BY Zenon DEF executeMemoryOperation, At, loopVars
<1>2. /\ result = {} /\ todo \in Nat /\ first = None /\ second = None /\ hasInvalid \in BOOLEAN
      /\ HeldStates = {current} /\ current # None
  BY <1>1, StatesAssumption
     DEF MirrorInv, LocalInv, HeldInv, Shape, HeldStates, Outer, StatesInv, Consistent
<1>3. at \notin Outer \cup {"branching", "branched"}
  BY Zenon, <1>1 DEF Outer
<1>4. CASE at' = "timers" /\ UNCHANGED localVars
  <2>1. Shape' /\ HeldStates' = {} /\ at' \in Place \ (Outer \cup {"execute", "branching", "branched"})
    BY Zenon, <1>1, <1>2, <1>4 DEF Shape, HeldStates, localVars, Outer, Place
  <2>2. \/ UNCHANGED <<haltExecution, treeVars>>
        \/ /\ endStates({current}, addedStates, seedMap, processTree, ptreeNode, rank)
           /\ haltExecution' \in {haltExecution, TRUE}
    BY <1>4, Zenon DEF executeMemoryOperation, terminateStateOnError, terminateState, Goto
  <2>3. CASE UNCHANGED <<haltExecution, treeVars>>
    <3>1. HeldStates' \subseteq HeldStates
      BY Zenon, <2>1
    <3>2. QED
      BY <1>1, <1>3, <2>1, <2>3, <3>1, EndsNone, Zenon
  <2>4. CASE /\ endStates({current}, addedStates, seedMap, processTree, ptreeNode, rank)
             /\ haltExecution' \in {haltExecution, TRUE}
    <3>1. {current} \subseteq HeldStates /\ HeldStates' \subseteq HeldStates \ {current}
      BY Zenon, <1>2, <2>1
    <3>2. QED
      BY <1>1, <1>3, <2>1, <2>4, <3>1, EndsHeld, Zenon
  <2>5. QED
    BY <2>2, <2>3, <2>4, Zenon
<1>5. CASE /\ at' = "resolve" /\ second' = current /\ todo' \in 0..MaxTargets
           /\ UNCHANGED <<haltExecution, treeVars, first, result, hasInvalid>>
  <2>1. todo' \in Nat
    BY <1>5, BoundsAssumption
  <2>2. Shape'
    BY Zenon, <1>2, <1>5, <2>1 DEF Shape
  <2>3. HeldStates' \subseteq HeldStates /\ at' \in Place \ (Outer \cup {"execute", "branching", "branched"})
    BY Zenon, <1>2, <1>5 DEF HeldStates, Outer, Place
  <2>4. QED
    BY <1>1, <1>3, <1>5, <2>2, <2>3, EndsNone, Zenon
<1>6. QED
  BY <1>4, <1>5, Zenon DEF executeMemoryOperation, Goto, localVars

\* The slow path goes on to the next object.
LEMMA ResolveNextSteps ==
  ASSUME Counting, MirrorInv, options' = options, resolveNext \/ resolveExactNext
  PROVE  Steps
<1>1. PICK back \in {"bound", "exactBound"} :
         /\ at = IF back = "bound" THEN "resolve" ELSE "exact"
         /\ todo > 0 /\ todo' = todo - 1 /\ fork(second, back)
         /\ UNCHANGED <<haltExecution, loopVars, result, hasInvalid>>
  BY Zenon DEF resolveNext, resolveExactNext, At
<1>2. /\ todo \in Nat /\ second # None /\ second \notin result
      /\ result # {} => back = "exactBound"
  BY Zenon, <1>1 DEF MirrorInv, LocalInv, HeldInv, Shape
<1>3. second \in HeldStates \ result
  BY Zenon, <1>2 DEF HeldStates
<1>4. todo' \in Nat /\ at \notin Outer \cup {"branching", "branched"}
      /\ back \in {"timers", "alloc", "huge", "bound", "free", "exactBound", "called"}
      /\ back # "called"
  BY <1>1, <1>2 DEF Outer
<1>5. QED
  BY <1>1, <1>2, <1>3, <1>4, ForkStep, Zenon DEF Steps

\* The side that is in bounds of an object performs the access.
LEMMA ResolveBoundSteps == ASSUME Counting, MirrorInv, options' = options, resolveBound PROVE Steps
<1>1. /\ at = "bound" /\ forks' = forks /\ UNCHANGED loopVars
      /\ UNCHANGED <<result, hasInvalid, current>>
  BY Zenon DEF resolveBound, At, loopVars
<1>2. /\ result = {} /\ todo \in Nat /\ (first = second => first = None) /\ hasInvalid \in BOOLEAN
      /\ HeldStates = {first, second} \ {None}
  BY Zenon, <1>1 DEF MirrorInv, LocalInv, HeldInv, Shape, HeldStates
<1>3. /\ first' = None /\ todo' \in Nat
      /\ \/ second = None /\ second' = None /\ at' = "timers"
         \/ second # None /\ second' = second /\ at' = "resolve"
  BY <1>2 DEF resolveBound, StatePair
<1>4. Shape' /\ HeldStates' = {second} \ {None}
  BY Zenon, <1>1, <1>2, <1>3 DEF Shape, HeldStates
<1>5. at \notin Outer \cup {"branching", "branched"}
      /\ at' \in Place \ (Outer \cup {"execute", "branching", "branched"})
  BY Zenon, <1>1, <1>3 DEF Outer, Place
<1>6. \/ UNCHANGED <<treeVars, haltExecution>>
      \/ /\ first # None
         /\ endStates({first}, addedStates, seedMap, processTree, ptreeNode, rank)
         /\ haltExecution' \in {haltExecution, TRUE}
  BY Zenon DEF resolveBound, terminateStateOnError, terminateState
<1>7. CASE UNCHANGED <<treeVars, haltExecution>>
  <2>1. HeldStates' \subseteq HeldStates
    BY Zenon, <1>2, <1>4
  <2>2. QED
    BY <1>1, <1>4, <1>5, <1>7, <2>1, EndsNone, Zenon
<1>8. CASE /\ first # None
           /\ endStates({first}, addedStates, seedMap, processTree, ptreeNode, rank)
           /\ haltExecution' \in {haltExecution, TRUE}
  <2>1. {first} \subseteq HeldStates /\ HeldStates' \subseteq HeldStates \ {first}
    BY Zenon, <1>2, <1>4, <1>8
  <2>2. QED
    BY <1>1, <1>4, <1>5, <1>8, <2>1, EndsHeld, Zenon
<1>9. QED
  BY <1>6, <1>7, <1>8, Zenon

\* The state that is in bounds of no object ends with an error.
LEMMA ResolveUnboundSteps ==
  ASSUME Counting, MirrorInv, options' = options, resolveUnbound \/ resolveExactUnbound
  PROVE  Steps
<1>1. /\ \/ at = "resolve" /\ at' = "timers"
         \/ at = "exact" /\ at' = "freeing"
      /\ first' = None /\ second' = None
      /\ forks' = forks /\ UNCHANGED loopVars
      /\ UNCHANGED <<result, todo, hasInvalid, current>>
      /\ endStates({second}, addedStates, seedMap, processTree, ptreeNode, rank)
      /\ haltExecution' \in {haltExecution, TRUE}
  BY Zenon DEF resolveUnbound, resolveExactUnbound, At, StatePair, loopVars,
               terminateStateOnError, terminateState
<1>2. /\ todo \in Nat /\ hasInvalid \in BOOLEAN /\ second # None /\ second \notin result
      /\ first = None /\ (at = "resolve" => result = {})
      /\ HeldStates = result \cup {second}
  <2>1. /\ todo \in Nat /\ hasInvalid \in BOOLEAN /\ second # None
        /\ first = None /\ (at = "resolve" => result = {}) /\ (at = "exact" => second \notin result)
    BY Zenon, <1>1 DEF MirrorInv, LocalInv, HeldInv, Shape
  <2>2. QED
    BY Zenon, <1>1, <2>1 DEF HeldStates
<1>3. Shape' /\ HeldStates' = result
  BY Zenon, <1>1, <1>2 DEF Shape, HeldStates
<1>4. /\ at \notin Outer \cup {"branching", "branched"}
      /\ at' \in Place \ (Outer \cup {"execute", "branching", "branched"})
      /\ {second} \subseteq HeldStates /\ HeldStates' \subseteq HeldStates \ {second}
  BY Zenon, <1>1, <1>2, <1>3 DEF Outer, Place
<1>5. QED
  BY <1>1, <1>3, <1>4, EndsHeld, Zenon

\* resolveExact starts with the objects the pointer may name.
LEMMA ResolveExactSteps == ASSUME Counting, MirrorInv, options' = options, resolveExact PROVE Steps
<1>1. /\ at = "free" /\ forks' = forks /\ UNCHANGED <<loopVars, treeVars, haltExecution>>
      /\ UNCHANGED <<result, hasInvalid, current>>
  BY Zenon DEF resolveExact, At, loopVars
<1>2. result = {} /\ todo \in Nat /\ hasInvalid \in BOOLEAN /\ HeldStates = {first, second} \ {None}
  BY Zenon, <1>1 DEF MirrorInv, LocalInv, HeldInv, Shape, HeldStates
<1>3. /\ first' = None /\ todo' \in Nat
      /\ \/ second = None /\ second' = None /\ at' = "timers"
         \/ second # None /\ second' = second /\ at' = "exact"
  BY <1>2, BoundsAssumption DEF resolveExact, StatePair
<1>4. Shape' /\ HeldStates' \subseteq HeldStates
  BY <1>1, <1>2, <1>3 DEF Shape, HeldStates
<1>5. at \notin Outer \cup {"branching", "branched"}
      /\ at' \in Place \ (Outer \cup {"execute", "branching", "branched"})
  BY Zenon, <1>1, <1>3 DEF Outer, Place
<1>6. QED
  BY <1>1, <1>4, <1>5, EndsNone, Zenon

\* resolveExact keeps the side that names the object.
LEMMA ResolveExactBoundSteps ==
  ASSUME Counting, MirrorInv, options' = options, resolveExactBound
  PROVE  Steps
<1>1. /\ at = "exactBound" /\ forks' = forks /\ UNCHANGED <<loopVars, treeVars, haltExecution>>
      /\ UNCHANGED <<hasInvalid, current>> /\ result' = result \cup ({first} \ {None})
  BY Zenon DEF resolveExactBound, At, loopVars
<1>2. /\ todo \in Nat /\ hasInvalid \in BOOLEAN /\ HeldStates = result \cup ({first, second} \ {None})
      /\ first \notin result /\ second \notin result /\ (first = second => first = None)
      /\ result \subseteq live /\ None \notin live
  BY Zenon, <1>1, StatesAssumption
     DEF MirrorInv, LocalInv, HeldInv, Shape, HeldStates, StatesInv, Consistent, live
<1>3. /\ first' = None /\ todo' \in Nat
      /\ \/ second = None /\ second' = None /\ at' = "freeing"
         \/ second # None /\ second' = second /\ at' = "exact"
  BY <1>2 DEF resolveExactBound, StatePair
<1>4. None \notin result' /\ (second # None => second \notin result')
  BY Zenon, <1>1, <1>2
<1>5. Shape' /\ HeldStates' \subseteq HeldStates
  BY Zenon, <1>1, <1>2, <1>3, <1>4 DEF Shape, HeldStates
<1>6. at \notin Outer \cup {"branching", "branched"}
      /\ at' \in Place \ (Outer \cup {"execute", "branching", "branched"})
  BY Zenon, <1>1, <1>3 DEF Outer, Place
<1>7. QED
  BY <1>1, <1>5, <1>6, EndsNone, Zenon

\* free ends the states whose object cannot be freed.
LEMMA FreeResultsSteps == ASSUME Counting, MirrorInv, options' = options, freeResults PROVE Steps
<1>1. /\ at = "freeing" /\ at' = "timers" /\ forks' = forks /\ UNCHANGED loopVars
      /\ UNCHANGED <<first, second, todo, hasInvalid, current>> /\ result' = {}
      /\ haltExecution' \in {haltExecution, TRUE}
  BY Zenon DEF freeResults, At, Goto, loopVars
<1>2. PICK K \in SUBSET result :
         endStates(K, addedStates, seedMap, processTree, ptreeNode, rank)
  BY Zenon DEF freeResults
<1>3. /\ todo \in Nat /\ hasInvalid \in BOOLEAN /\ first = None /\ second = None
      /\ HeldStates = result
  BY Zenon, <1>1 DEF MirrorInv, LocalInv, HeldInv, Shape, HeldStates
<1>4. Shape' /\ HeldStates' = {}
  BY Zenon, <1>1, <1>3 DEF Shape, HeldStates
<1>5. /\ at \notin Outer \cup {"branching", "branched"}
      /\ at' \in Place \ (Outer \cup {"execute", "branching", "branched"})
      /\ K \subseteq HeldStates /\ HeldStates' \subseteq HeldStates \ K
  BY Zenon, <1>1, <1>3, <1>4 DEF Outer, Place
<1>6. QED
  BY <1>1, <1>2, <1>4, <1>5, EndsHeld, Zenon

\* A call of a known function, or the start of a symbolic one.
LEMMA CallSteps == ASSUME Counting, MirrorInv, options' = options, Call PROVE Steps
<1>1. /\ at = "execute" /\ forks' = forks /\ UNCHANGED <<loopVars, treeVars, haltExecution>>
      /\ UNCHANGED <<result, current>> /\ hasInvalid' = FALSE /\ at' = "call"
      /\ first' = None /\ second' = current /\ todo' \in 1..MaxTargets
  BY Zenon DEF Call, At, StatePair, loopVars
<1>2. result = {} /\ current # None /\ HeldStates = {current}
  BY <1>1, StatesAssumption
     DEF MirrorInv, LocalInv, HeldInv, Shape, HeldStates, Outer, StatesInv, Consistent
<1>3. todo' \in Nat /\ todo' # 0
  BY <1>1, BoundsAssumption
<1>4. Shape' /\ HeldStates' \subseteq HeldStates
  <2>1. Shape'
    BY <1>1, <1>2, <1>3, Zenon DEF Shape
  <2>2. HeldStates' \subseteq HeldStates
    BY Zenon, <1>1, <1>2 DEF HeldStates
  <2>3. QED
    BY Zenon, <2>1, <2>2
<1>5. at \notin Outer \cup {"branching", "branched"}
      /\ at' \in Place \ (Outer \cup {"execute", "branching", "branched"})
  BY Zenon, <1>1 DEF Outer, Place
<1>6. QED
  BY <1>1, <1>4, <1>5, EndsNone, Zenon

\* A symbolic call forks on the next value of the function pointer.
LEMMA CallForkSteps == ASSUME Counting, MirrorInv, options' = options, callFork PROVE Steps
<1>1. /\ at = "call" /\ fork(second, "called") /\ todo' = todo - 1 /\ (todo = 1 => second' = None)
      /\ UNCHANGED <<haltExecution, loopVars, result, hasInvalid>>
  BY Zenon DEF callFork, At
<1>2. result = {} /\ todo \in Nat /\ todo # 0 /\ second # None
  BY Zenon, <1>1 DEF MirrorInv, LocalInv, HeldInv, Shape
<1>3. second \in HeldStates \ result
  BY Zenon, <1>2 DEF HeldStates
<1>4. /\ todo' \in Nat /\ (second' # None => todo' # 0)
      /\ at \notin Outer \cup {"branching", "branched"}
      /\ "called" \in {"timers", "alloc", "huge", "bound", "free", "exactBound", "called"}
  BY <1>1, <1>2 DEF Outer
<1>5. QED
  BY <1>1, <1>2, <1>3, <1>4, ForkStep, Zenon DEF Steps

\* What is added and taken away again changes nothing.
LEMMA TakenBack == \A a, b \in Nat : (a + b) - b = a
  OBVIOUS

\* A switch starts branching over its feasible destinations.
LEMMA SwitchSteps == ASSUME Counting, MirrorInv, options' = options, Switch PROVE Steps
<1>1. PICK n \in 1..MaxTargets :
         /\ todo' = n - 1
         /\ IF forks >= MaxForks
            THEN at' = "branched" /\ UNCHANGED forks
            ELSE at' = (IF n = 1 THEN "branched" ELSE "branching") /\ forks' = forks + n - 1
  BY Zenon DEF Switch, Goto
<1>2. /\ at = "execute" /\ UNCHANGED <<haltExecution, treeVars, loopVars, first, second, hasInvalid>>
      /\ result' = {current} /\ current' = current /\ states' = states /\ seedMap' = seedMap
  BY Zenon DEF Switch, At, loopVars, treeVars
<1>3. /\ StatesInv /\ SeedsInv /\ pathsExplored \in Nat /\ forks \in Nat /\ current \in states
      /\ haltExecution \in BOOLEAN /\ atMemoryLimit \in BOOLEAN
  BY <1>2, Zenon DEF MirrorInv, LocalInv, RestInv, Outer
<1>4. /\ result = {} /\ first = None /\ second = None /\ hasInvalid \in BOOLEAN
      /\ HeldStates = {current}
  BY Zenon, <1>2 DEF MirrorInv, LocalInv, HeldInv, Shape, HeldStates
<1>5. /\ n \in Nat /\ todo' \in Nat /\ forks' \in Nat
      /\ \/ at' = "branched" /\ forks' = forks
         \/ at' = "branching" /\ forks' = forks + todo' /\ todo' # 0
  BY <1>1, <1>3, BoundsAssumption
<1>6. Shape' /\ HeldStates' = {current}
  BY Zenon, <1>2, <1>4, <1>5 DEF Shape, HeldStates
<1>7. Effect({}, {})
  BY <1>2, <1>3, NoEffect, Zenon
<1>8. HeldInv'
  BY Zenon, <1>2, <1>3, <1>6 DEF HeldInv, live
<1>9. Handler({}, {})
  <2>1. at \notin Outer /\ at' \in Place \ (Outer \cup {"execute"})
    BY Zenon, <1>2, <1>5 DEF Outer, Place
  <2>2. UNCHANGED <<current, lastState, queue, searcher>> /\ atMemoryLimit' = atMemoryLimit
    BY Zenon, <1>2 DEF loopVars
  <2>3. QED
    BY <1>2, <1>3, <1>5, <1>7, <1>8, <2>1, <2>2, Zenon DEF Handler
<1>10. Replayed({}, {})
  BY Zenon, <1>2 DEF Replayed
<1>11. Tracked({}, {})
  <2>1. pending = 0 /\ forks' - pending' = forks
    <3>1. pending = 0 /\ pending' = IF at' = "branching" THEN todo' ELSE 0
      BY Zenon, <1>2 DEF pending
    <3>2. CASE at' = "branched" /\ forks' = forks
      BY <1>3, <3>1, <3>2
    <3>3. CASE at' = "branching" /\ forks' = forks + todo' /\ todo' # 0
      <4>1. pending' = todo'
        BY <3>1, <3>3, Zenon
      <4>2. forks' - todo' = forks
        <5>1. forks \in Nat /\ todo' \in Nat /\ forks' \in Nat /\ forks' = forks + todo'
          BY <1>3, <1>5, <3>3, Zenon
        <5>2. QED
          BY <5>1, TakenBack, Zenon
      <4>3. QED
        BY <3>1, <4>1, <4>2, Zenon
    <3>4. QED
      BY <1>5, <3>2, <3>3, Zenon
  <2>2. forks' - pending' = forks - pending + Cardinality({})
    BY <1>3, <2>1 DEF Counting
  <2>3. HeldStates' \subseteq (HeldStates \cup {}) \ {}
    BY Zenon, <1>4, <1>6
  <2>4. QED
    BY Zenon, <2>2, <2>3 DEF Tracked
<1>12. QED
  BY <1>9, <1>10, <1>11, Zenon DEF Steps

\* Each iteration of branch is a step that adds one state.
LEMMA BranchSteps ==
  ASSUME Counting, MirrorInv, options' = options, branch
  PROVE  \E ns : /\ Handler({ns}, {}) /\ Tracked({ns}, {})
                 /\ ns \in result' /\ result \subseteq result' /\ seedMap' = seedMap
<1>1. /\ at = "branching" /\ at' = (IF todo = 1 THEN "branched" ELSE "branching")
      /\ todo' = todo - 1 /\ forks' = forks /\ haltExecution' = haltExecution
      /\ UNCHANGED loopVars /\ UNCHANGED <<current, first, second, hasInvalid, seedMap>>
  BY Zenon DEF branch, At, Goto, loopVars
<1>2. /\ StatesInv /\ SeedsInv /\ pathsExplored \in Nat /\ forks \in Nat /\ result \subseteq live
      /\ haltExecution \in BOOLEAN /\ atMemoryLimit \in BOOLEAN
  BY Zenon DEF MirrorInv, LocalInv, HeldInv, HeldStates, RestInv
<1>3. PICK es \in result, ns \in Free :
            /\ Effect({ns}, {}) /\ result' = result \cup {ns}
            /\ ptreeNode'[ns] = Left(ptreeNode[es])
  BY <1>2, BranchEffect, Zenon
<1>4. /\ first = None /\ second = None /\ hasInvalid \in BOOLEAN /\ current \in result
      /\ todo \in Nat /\ todo # 0 /\ HeldStates = result
      /\ result \cap DOMAIN seedMap \subseteq {current}
  BY Zenon, <1>1 DEF MirrorInv, LocalInv, HeldInv, Shape, HeldStates
<1>5. todo' \in Nat /\ (at' = "branching" => todo' # 0) /\ at' \in {"branched", "branching"}
  BY <1>1, <1>4
<1>6. Shape' /\ HeldStates' = result \cup {ns}
  BY Zenon, <1>1, <1>3, <1>4, <1>5 DEF Shape, HeldStates
<1>7. ns \notin DOMAIN seedMap /\ live' = live \cup {ns}
  BY Zenon, <1>2, <1>3 DEF SeedsInv, SeedsOK, Free, Effect, Deleted
<1>8. HeldInv'
  <2>1. HeldStates' \subseteq live'
    BY Zenon, <1>2, <1>6, <1>7
  <2>2. result' \cap DOMAIN seedMap' \subseteq {current'}
    BY Zenon, <1>1, <1>3, <1>4, <1>7
  <2>3. QED
    BY <1>6, <2>1, <2>2, Zenon DEF HeldInv
<1>9. Handler({ns}, {})
  <2>1. at \notin Outer /\ at' \in Place \ (Outer \cup {"execute"})
    BY Zenon, <1>1, <1>5 DEF Outer, Place
  <2>2. UNCHANGED <<current, lastState, queue, searcher>> /\ atMemoryLimit' = atMemoryLimit
    BY Zenon, <1>1 DEF loopVars
  <2>3. QED
    BY <1>1, <1>2, <1>3, <1>8, <2>1, <2>2, Zenon DEF Handler
<1>10. Tracked({ns}, {})
  <2>1. pending = todo /\ pending' = todo - 1
    BY <1>1, <1>4 DEF pending
  <2>2. Cardinality({ns}) = 1
    BY Zenon DEF Counting
  <2>3. forks' - pending' = forks - pending + Cardinality({ns})
    BY <1>1, <1>2, <1>4, <2>1, <2>2
  <2>4. /\ HeldStates' \subseteq (HeldStates \cup {ns}) \ {}
        /\ \A f \in {ns} \cap live' : \E p \in HeldStates : ptreeNode'[f] = Left(ptreeNode[p])
    BY Zenon, <1>3, <1>4, <1>6
  <2>5. QED
    BY Zenon, <2>3, <2>4 DEF Tracked
<1>11. QED
  BY <1>1, <1>3, <1>9, <1>10, Zenon

\* Handing out the seeds at the end of branch is a step that only ends states.
LEMMA RedistributeSteps ==
  ASSUME Counting, MirrorInv, options' = options, redistribute
  PROVE  \E ended :
            /\ Handler({}, ended) /\ Tracked({}, ended)
            /\ OnlyReplaySeeds /\ isSeeding(current) /\ live \ result \subseteq DOMAIN seedMap =>
                   live' \ ended \subseteq DOMAIN seedMap'
<1>1. /\ at = "branched" /\ at' = "timers" /\ result' = {} /\ todo' = 0 /\ forks' = forks
      /\ haltExecution' = haltExecution
      /\ UNCHANGED loopVars /\ UNCHANGED <<current, first, second, hasInvalid>>
  BY Zenon DEF redistribute, At, Goto, loopVars
<1>2. /\ StatesInv /\ SeedsInv /\ pathsExplored \in Nat /\ forks \in Nat /\ result \subseteq live
      /\ haltExecution \in BOOLEAN /\ atMemoryLimit \in BOOLEAN
  BY Zenon DEF MirrorInv, LocalInv, HeldInv, HeldStates, RestInv
<1>3. /\ first = None /\ second = None /\ hasInvalid \in BOOLEAN /\ current \in result
      /\ HeldStates = result /\ result \cap DOMAIN seedMap \subseteq {current}
  BY Zenon, <1>1 DEF MirrorInv, LocalInv, HeldInv, Shape, HeldStates
<1>4. PICK ended :
            /\ Effect({}, ended) /\ ended \subseteq result
            /\ OnlyReplaySeeds /\ isSeeding(current) /\ live \ result \subseteq DOMAIN seedMap =>
                   live' \ ended \subseteq DOMAIN seedMap'
  BY <1>2, <1>3, RedistributeEffect, Zenon
<1>5. Shape' /\ HeldStates' = {}
  BY Zenon, <1>1, <1>3 DEF Shape, HeldStates
<1>6. HeldInv'
  BY Zenon, <1>1, <1>5 DEF HeldInv
<1>7. Handler({}, ended)
  <2>1. at \notin Outer /\ at' \in Place \ (Outer \cup {"execute"})
    BY Zenon, <1>1 DEF Outer, Place
  <2>2. UNCHANGED <<current, lastState, queue, searcher>> /\ atMemoryLimit' = atMemoryLimit
    BY Zenon, <1>1 DEF loopVars
  <2>3. QED
    BY <1>1, <1>2, <1>4, <1>6, <2>1, <2>2, Zenon DEF Handler
<1>8. Tracked({}, ended)
  <2>1. pending = 0 /\ pending' = 0
    BY Zenon, <1>1 DEF pending
  <2>2. forks' - pending' = forks - pending + Cardinality({})
    BY <1>1, <1>2, <2>1 DEF Counting
  <2>3. QED
    BY Zenon, <1>3, <1>4, <1>5, <2>2 DEF Tracked
<1>9. QED
  BY <1>4, <1>7, <1>8, Zenon

\* The steps that may end a state which has ended already, or which the handler goes on with.
HandlerSteps == \E new, ended : Handler(new, ended) /\ Replayed(new, ended)

\* A step that ends a set of states, and otherwise stays inside the instruction,
\* is such a step.
LEMMA EndsAny ==
  ASSUME Counting, MirrorInv, options' = options, NEW K, K \subseteq live,
         endStates(K, addedStates, seedMap, processTree, ptreeNode, rank),
         forks' = forks, UNCHANGED <<current, lastState, states, queue, searcher>>,
         atMemoryLimit' \in BOOLEAN, haltExecution' \in {haltExecution, TRUE},
         at \notin Outer \cup {"branching", "branched"},
         at' \in Place \ (Outer \cup {"execute", "branching", "branched"}), Shape',
         HeldStates' \subseteq HeldStates, HeldStates' \cap K \subseteq states
  PROVE  /\ Handler({}, K) /\ Replayed({}, K)
         /\ K \subseteq HeldStates \cup {s \in states : removedStates[s] = 0} =>
                (HeldStates' \subseteq HeldStates \ K => Tracked({}, K))
<1>1. StatesInv /\ SeedsInv /\ haltExecution \in BOOLEAN
  BY Zenon DEF MirrorInv, RestInv
<1>2. Effect({}, K) /\ DOMAIN seedMap' = DOMAIN seedMap \ Deleted({}, K)
  BY <1>1, EndEffect, Zenon
<1>3. HeldStates' \subseteq HeldStates \ Deleted({}, K)
  BY Zenon, <1>1 DEF Deleted, StatesInv, Consistent
<1>4. haltExecution' \in BOOLEAN
  BY <1>1, Zenon
<1>5. QED
  BY <1>2, <1>3, <1>4, EndStep, Zenon

\* Without --terminate-on-unsat the cache model does not end the state.
LEMMA AccessSteps ==
  ASSUME Counting, MirrorInv, options' = options, Access
  PROVE  HandlerSteps /\ (~TerminateOnUNSAT => Steps)
<1>1. /\ at = "execute" /\ at' = "access" /\ UNCHANGED <<haltExecution, forks, loopVars>>
      /\ UNCHANGED <<current, lastState, states, queue, searcher, atMemoryLimit>>
      /\ UNCHANGED <<first, second, result, todo, hasInvalid>>
  BY Zenon DEF Access, At, Goto, loopVars, localVars
<1>2. /\ result = {} /\ first = None /\ second = None /\ HeldStates = {current} /\ current \in states
      /\ todo \in Nat /\ hasInvalid \in BOOLEAN
  BY Zenon, <1>1 DEF MirrorInv, LocalInv, HeldInv, Shape, HeldStates, Outer
<1>3. Shape' /\ HeldStates' = {current}
  BY Zenon, <1>1, <1>2 DEF Shape, HeldStates
<1>4. /\ at \notin Outer \cup {"branching", "branched"}
      /\ at' \in Place \ (Outer \cup {"execute", "branching", "branched"})
      /\ HeldStates' \subseteq HeldStates
  BY Zenon, <1>1, <1>2, <1>3 DEF Outer, Place
<1>5. CASE UNCHANGED treeVars
  BY <1>1, <1>3, <1>4, <1>5, EndsNone, Zenon DEF Steps, HandlerSteps
<1>6. CASE TerminateOnUNSAT /\ terminateState(current)
  <2>1. /\ {current} \subseteq live /\ HeldStates' \cap {current} \subseteq states
        /\ atMemoryLimit' \in BOOLEAN
    BY Zenon, <1>1, <1>2, <1>3 DEF live, MirrorInv, RestInv
  <2>2. endStates({current}, addedStates, seedMap, processTree, ptreeNode, rank)
    BY <1>6, Zenon DEF terminateState
  <2>3. Handler({}, {current}) /\ Replayed({}, {current})
    BY <1>1, <1>3, <1>4, <2>1, <2>2, EndsAny, Zenon
  <2>4. QED
    BY <1>6, <2>3, Zenon DEF HandlerSteps
<1>7. QED
  BY <1>5, <1>6, Zenon DEF Access

\* The callee may end the state that calls it, and the first invalid function
\* pointer ends the current state.
LEMMA CallValueSteps == ASSUME Counting, MirrorInv, options' = options, callValue PROVE HandlerSteps
<1>1. /\ at = "called" /\ forks' = forks /\ UNCHANGED <<loopVars, result>>
      /\ UNCHANGED <<current, lastState, states, queue, searcher, atMemoryLimit>>
      /\ result' = result
  BY Zenon DEF callValue, At, loopVars
<1>2. /\ result = {} /\ todo \in Nat /\ hasInvalid \in BOOLEAN /\ (second # None => todo # 0)
      /\ (first = second => first = None) /\ HeldStates = {first, second} \ {None}
      /\ HeldStates \subseteq live /\ current \in states
  BY Zenon, <1>1 DEF MirrorInv, LocalInv, HeldInv, Shape, HeldStates, Outer
<1>3. /\ first' = None /\ todo' \in Nat
      /\ \/ second = None /\ second' = None /\ at' = "timers"
         \/ second # None /\ second' = second /\ at' = "call" /\ todo' = todo
  BY <1>2 DEF callValue, StatePair
<1>4. hasInvalid' \in BOOLEAN
  BY <1>2, Zenon DEF callValue
<1>5. HeldStates' = {second} \ {None}
  BY Zenon, <1>1, <1>2, <1>3 DEF HeldStates
<1>6. Shape'
  BY <1>1, <1>2, <1>3, <1>4, Zenon DEF Shape
<1>7. /\ at \notin Outer \cup {"branching", "branched"}
      /\ at' \in Place \ (Outer \cup {"execute", "branching", "branched"})
      /\ HeldStates' \subseteq HeldStates
  BY Zenon, <1>1, <1>2, <1>3, <1>5 DEF Outer, Place
<1>8. \/ UNCHANGED <<treeVars, haltExecution>>
      \/ \E s \in {first, current} :
           /\ s # None
           /\ endStates({s}, addedStates, seedMap, processTree, ptreeNode, rank)
           /\ haltExecution' \in {haltExecution, TRUE}
  <2>1. current # None
    BY Zenon, <1>2, StatesAssumption DEF MirrorInv, StatesInv, Consistent
  <2>2. QED
    BY <2>1, Zenon DEF callValue, terminateStateOnError, terminateState
<1>9. CASE UNCHANGED <<treeVars, haltExecution>>
  BY <1>1, <1>6, <1>7, <1>9, EndsNone, Zenon DEF Steps, HandlerSteps
<1>10. ASSUME NEW s \in {first, current}, s # None,
              endStates({s}, addedStates, seedMap, processTree, ptreeNode, rank),
              haltExecution' \in {haltExecution, TRUE}
       PROVE  HandlerSteps
  <2>1. /\ {s} \subseteq live /\ HeldStates' \cap {s} \subseteq states /\ atMemoryLimit' \in BOOLEAN
    BY Zenon, <1>1, <1>2, <1>5, <1>10 DEF live, MirrorInv, RestInv
  <2>2. Handler({}, {s}) /\ Replayed({}, {s})
    BY <1>1, <1>6, <1>7, <1>10, <2>1, EndsAny, Zenon
  <2>3. QED
    BY <2>2, Zenon DEF HandlerSteps
<1>11. QED
  BY <1>8, <1>9, <1>10, Zenon

\* The timers may halt the run and end nothing.
LEMMA TimersSteps == ASSUME Counting, MirrorInv, options' = options, processTimers PROVE Steps
<1>1. /\ at = "timers" /\ forks' = forks /\ UNCHANGED loopVars
      /\ UNCHANGED <<current, lastState, states, queue, searcher, atMemoryLimit>>
      /\ UNCHANGED <<first, second, result, todo, hasInvalid>>
      /\ haltExecution' \in {haltExecution, TRUE} /\ at' \in {"memory", "update"}
  BY Zenon DEF processTimers, At, Goto, loopVars, localVars
<1>2. /\ result = {} /\ first = None /\ second = None /\ HeldStates = {} /\ current \in states
      /\ todo \in Nat /\ hasInvalid \in BOOLEAN
  BY Zenon, <1>1 DEF MirrorInv, LocalInv, HeldInv, Shape, HeldStates, Outer
<1>3. Shape' /\ HeldStates' = {}
  BY Zenon, <1>1, <1>2 DEF Shape, HeldStates
<1>4. /\ at \notin Outer \cup {"branching", "branched"}
      /\ at' \in Place \ (Outer \cup {"execute", "branching", "branched"})
      /\ HeldStates' \subseteq HeldStates
  BY Zenon, <1>1, <1>2, <1>3 DEF Outer, Place
<1>5. CASE UNCHANGED treeVars
  BY <1>1, <1>3, <1>4, <1>5, EndsNone, Zenon
<1>6. CASE overTime /\ terminateState(current)
  <2>. DEFINE K == {current}
  <2>1. /\ K \subseteq live /\ HeldStates' \cap K \subseteq states
        /\ K \subseteq HeldStates \cup {s \in states : removedStates[s] = 0}
        /\ HeldStates' \subseteq HeldStates \ K
    BY Zenon, <1>2, <1>3, <1>6 DEF live, overTime
  <2>2. endStates(K, addedStates, seedMap, processTree, ptreeNode, rank)
    BY <1>6, Zenon DEF terminateState
  <2>3. atMemoryLimit' \in BOOLEAN
    BY Zenon, <1>1 DEF MirrorInv, RestInv
  <2>. HIDE DEF K
  <2>4. Handler({}, K) /\ Replayed({}, K) /\ Tracked({}, K)
    BY <1>1, <1>3, <1>4, <2>1, <2>2, <2>3, EndsAny, Zenon
  <2>5. QED
    BY <2>4, Zenon DEF Steps
<1>7. QED
  BY <1>5, <1>6, Zenon DEF processTimers

\* Unless memory use is far over the cap, no state ends.
LEMMA MemorySteps ==
  ASSUME Counting, MirrorInv, options' = options, checkMemoryUsage
  PROVE  HandlerSteps /\ (~MemoryHeavy => Steps)
<1>1. /\ at = "memory" /\ at' = "update" /\ UNCHANGED <<haltExecution, forks>>
      /\ UNCHANGED <<current, lastState, states, queue, searcher>>
      /\ UNCHANGED <<first, second, result, todo, hasInvalid>>
  BY Zenon DEF checkMemoryUsage, At, Goto, localVars
<1>2. /\ result = {} /\ first = None /\ second = None /\ HeldStates = {}
      /\ todo \in Nat /\ hasInvalid \in BOOLEAN
  BY Zenon, <1>1 DEF MirrorInv, LocalInv, HeldInv, Shape, HeldStates
<1>3. Shape' /\ HeldStates' = {}
  BY Zenon, <1>1, <1>2 DEF Shape, HeldStates
<1>4. /\ at \notin Outer \cup {"branching", "branched"}
      /\ at' \in Place \ (Outer \cup {"execute", "branching", "branched"})
  BY Zenon, <1>1 DEF Outer, Place
<1>5. atMemoryLimit' \in BOOLEAN
  BY Zenon DEF checkMemoryUsage, MirrorInv, RestInv
<1>6. CASE UNCHANGED treeVars
  <2>1. StatesInv /\ SeedsInv /\ pathsExplored \in Nat /\ haltExecution' \in BOOLEAN
    BY <1>1, Zenon DEF MirrorInv, RestInv
  <2>. DEFINE K == {}
  <2>2. Effect({}, K)
    BY <1>1, <1>6, <2>1, NoEffect, Zenon
  <2>3. /\ DOMAIN seedMap' = DOMAIN seedMap \ Deleted({}, K)
        /\ K \subseteq HeldStates \cup {s \in states : removedStates[s] = 0}
        /\ HeldStates' \subseteq HeldStates \ K /\ HeldStates' \subseteq HeldStates \ Deleted({}, K)
    BY Zenon, <1>3, <1>6 DEF treeVars, Deleted
  <2>. HIDE DEF K
  <2>4. Handler({}, K) /\ Replayed({}, K) /\ Tracked({}, K)
    BY <1>1, <1>3, <1>4, <1>5, <2>1, <2>2, <2>3, EndStep, Zenon
  <2>5. QED
    BY <2>4, Zenon DEF Steps, HandlerSteps
<1>7. ASSUME NEW K \in SUBSET states,
             endStates(K, addedStates, seedMap, processTree, ptreeNode, rank)
      PROVE  HandlerSteps
  <2>1. K \subseteq live /\ HeldStates' \cap K \subseteq states /\ HeldStates' \subseteq HeldStates
        /\ haltExecution' \in {haltExecution, TRUE}
    BY Zenon, <1>1, <1>3 DEF live
  <2>2. Handler({}, K) /\ Replayed({}, K)
    BY <1>1, <1>3, <1>4, <1>5, <1>7, <2>1, EndsAny, Zenon
  <2>3. QED
    BY <2>2, Zenon DEF HandlerSteps
<1>8. QED
  BY <1>6, <1>7, Zenon DEF checkMemoryUsage

\* Where the handlers of the instructions are.
LEMMA InstructionPlace ==
  ASSUME executeInstruction
  PROVE  /\ at \notin {"timers", "memory", "update", "abort", "halt", "done", "seeding", "select"}
         /\ at \in {"branching", "branched"} => branch \/ redistribute
<1>1. Plain \/ Exit \/ Error \/ Br \/ Switch \/ Alloc \/ Access \/ executeFree \/ Call => at = "execute"
  BY Zenon DEF Plain, Exit, Error, Br, Switch, Alloc, Access, executeFree, Call, At
<1>2. (branch => at = "branching") /\ (redistribute => at = "branched")
  BY Zenon DEF branch, redistribute, At
<1>3. (allocOtherSizes => at = "alloc") /\ (allocNotHuge => at = "huge")
  BY Zenon DEF allocOtherSizes, allocNotHuge, At
<1>4. (executeMemoryOperation => at = "access") /\ (resolveBound => at = "bound")
      /\ (resolveNext \/ resolveUnbound => at = "resolve")
  BY Zenon DEF executeMemoryOperation, resolveNext, resolveBound, resolveUnbound, At
<1>5. (resolveExact => at = "free") /\ (resolveExactBound => at = "exactBound")
      /\ (resolveExactNext \/ resolveExactUnbound => at = "exact") /\ (freeResults => at = "freeing")
  BY Zenon DEF resolveExact, resolveExactNext, resolveExactBound, resolveExactUnbound,
               freeResults, At
<1>6. (callFork => at = "call") /\ (callValue => at = "called")
  BY Zenon DEF callFork, callValue, At
<1>7. at \in {"execute", "branching", "branched", "alloc", "huge", "access", "resolve", "bound",
              "free", "exact", "exactBound", "freeing", "call", "called"}
  BY <1>1, <1>2, <1>3, <1>4, <1>5, <1>6, Zenon DEF executeInstruction
<1>8. ~branch /\ ~redistribute =>
        at \in {"execute", "alloc", "huge", "access", "resolve", "bound", "free", "exact",
                "exactBound", "freeing", "call", "called"}
  BY <1>1, <1>3, <1>4, <1>5, <1>6, Zenon DEF executeInstruction
<1>9. QED
  BY Zenon, <1>7, <1>8

\* All instructions but a switch.
LEMMA OtherSteps ==
  ASSUME Counting, MirrorInv, options' = options, executeInstruction, at \notin {"branching", "branched"}
  PROVE  /\ HandlerSteps
         /\ Steps \/ TerminateOnUNSAT \/ at = "called"
<1>1. Plain => Steps
  BY Zenon, PlainSteps
<1>2. Exit \/ Error => Steps
  BY ExitSteps, Zenon
<1>3. Br \/ Alloc \/ executeFree => Steps
  BY ForkCurrentSteps, Zenon
<1>4. (Switch => Steps) /\ (allocOtherSizes => Steps) /\ (allocNotHuge => Steps)
  BY SwitchSteps, AllocOtherSteps, AllocNotHugeSteps, Zenon
<1>5. (executeMemoryOperation => Steps) /\ (resolveBound => Steps)
  BY MemoryOperationSteps, ResolveBoundSteps, Zenon
<1>6. (resolveNext \/ resolveExactNext => Steps) /\ (resolveUnbound \/ resolveExactUnbound => Steps)
  BY ResolveNextSteps, ResolveUnboundSteps, Zenon
<1>7. (resolveExact => Steps) /\ (resolveExactBound => Steps) /\ (freeResults => Steps)
  BY ResolveExactSteps, ResolveExactBoundSteps, FreeResultsSteps, Zenon
<1>8. (Call => Steps) /\ (callFork => Steps)
  BY CallSteps, CallForkSteps, Zenon
<1>9. /\ Access => HandlerSteps /\ (~TerminateOnUNSAT => Steps)
      /\ callValue => HandlerSteps /\ at = "called"
  BY AccessSteps, CallValueSteps, Zenon DEF callValue, At
<1>10. ~branch /\ ~redistribute
  BY Zenon DEF branch, redistribute, At
<1>11. Steps => HandlerSteps
  BY Zenon DEF Steps, HandlerSteps
<1>12. QED
  BY <1>1, <1>2, <1>3, <1>4, <1>5, <1>6, <1>7, <1>8, <1>9, <1>10, <1>11, Zenon
     DEF executeInstruction

\* Every step inside an instruction.
LEMMA InstructionSteps ==
  ASSUME Counting, MirrorInv, options' = options, executeInstruction \/ processTimers \/ checkMemoryUsage
  PROVE  \E new, ended : Handler(new, ended)
<1>1. executeInstruction => HandlerSteps \/ branch \/ redistribute
  BY InstructionPlace, OtherSteps, Zenon
<1>2. (processTimers => Steps) /\ (checkMemoryUsage => HandlerSteps)
  BY TimersSteps, MemorySteps, Zenon
<1>3. branch => \E new, ended : Handler(new, ended)
  BY BranchSteps, Zenon
<1>4. redistribute => \E new, ended : Handler(new, ended)
  BY RedistributeSteps, Zenon
<1>5. QED
  BY <1>1, <1>2, <1>3, <1>4, Zenon DEF Steps, HandlerSteps

-----------------------------------------------------------------------------
(* The cardinalities that the steps use *)

LEMMA Counts == Counting
<1>1. Cardinality({}) = 0 /\ \A x : Cardinality({x}) = 1
  BY FS_EmptySet, FS_Singleton, Zenon
<1>2. \A S : IsFiniteSet(S) => \A T \in SUBSET S : Cardinality(T) \in Nat
  BY FS_Subset, FS_CardinalityType, Zenon
<1>3. QED
  BY Zenon, <1>1, <1>2 DEF Counting

-----------------------------------------------------------------------------
(* The steps of the run loop *)

\* updateStates: the additions and removals are applied to all copies of the states.
LEMMA UpdateStates ==
  ASSUME MirrorInv, options' = options, updateStates, updateAsserts
  PROVE  /\ StatesInv' /\ SeedsInv' /\ live' = live \ removed /\ removed \subseteq states
         /\ DOMAIN seedMap' = DOMAIN seedMap \ removed
         /\ \A s \in live' : rank'[s] = rank[s]
<1>1. /\ states' = live \ removed /\ addedStates' = {} /\ removedStates' = [s \in State |-> 0]
      /\ seedMap' = Forget(seedMap, removed)
      /\ processTree' = remove(processTree, {ptreeNode[s] : s \in removed})
      /\ ptreeNode' = Forget(ptreeNode, removed) /\ rank' = Forget(rank, removed)
  BY Zenon DEF updateStates
<1>2. StatesInv /\ SeedsInv
  BY Zenon DEF MirrorInv
<1>3. /\ states \subseteq State /\ addedStates \subseteq State
      /\ removedStates \in [State -> Nat] /\ \A s \in State : removedStates[s] # 0 => s \in states
      /\ rank \in [live -> Rank]
  BY Zenon, <1>2 DEF StatesInv, Consistent, live
<1>4. removed \subseteq states /\ removed \subseteq live \cup {}
  BY <1>3 DEF removed, live
<1>. DEFINE zero == [s \in State |-> 0]
<1>5. zero \in [State -> Nat] /\ \A s \in State : zero[s] = 0
  BY Zenon
<1>6. Consistent(live, {}, zero, processTree, ptreeNode, rank)
  <2>1. live \cup {} = states \cup addedStates /\ live \subseteq State
    BY Zenon, <1>3 DEF live
  <2>2. /\ TreeClosed(processTree)
        /\ Leaves(processTree) = {ptreeNode[s] : s \in states \cup addedStates}
        /\ \A s, t \in states \cup addedStates : ptreeNode[s] = ptreeNode[t] => s = t
        /\ states \cup addedStates = {} => processTree = {}
        /\ ptreeNode \in [states \cup addedStates -> processTree]
        /\ rank \in [states \cup addedStates -> Rank]
    BY <1>2, Zenon DEF StatesInv, Consistent
  <2>3. {} \subseteq State /\ live \cap {} = {}
    BY Zenon
  <2>4. QED
    BY <1>5, <2>1, <2>2, <2>3, Zenon DEF Consistent
<1>. HIDE DEF zero
<1>7. Consistent(live \ removed, {} \ removed, zero,
                 remove(processTree, {ptreeNode[s] : s \in removed}),
                 Forget(ptreeNode, removed), Forget(rank, removed))
  BY <1>4, <1>5, <1>6, Removal, Zenon
<1>8. StatesInv'
  <2>1. {} \ removed = {}
    BY Zenon
  <2>2. QED
    BY <1>1, <1>7, <2>1, Zenon DEF StatesInv, zero
<1>9. live' = live \ removed
  BY Zenon, <1>1 DEF live
<1>10. SeedsOK(Forget(seedMap, removed), live \ removed)
       /\ DOMAIN Forget(seedMap, removed) = DOMAIN seedMap \ removed
  BY <1>2, SeedsForgotten, Zenon DEF SeedsInv
<1>11. SeedsInv'
  BY Zenon, <1>1, <1>9, <1>10 DEF SeedsInv, SeedsOK, Seeds
<1>12. \A s \in live' : rank'[s] = rank[s]
  BY Zenon, <1>1, <1>3, <1>9 DEF Forget, Restrict
<1>13. QED
  BY <1>1, <1>4, <1>8, <1>9, <1>10, <1>11, <1>12, Zenon

\* The searcher's queue after its update: the present priorities of all states.
LEMMA UpdateQueue ==
  ASSUME MirrorInv, options' = options, updateStates, updateAsserts, searcher
  PROVE  queue' = {<<rank[s], s>> : s \in live \ removed}
<1>1. at = "update"
  BY Zenon DEF updateStates, At
<1>2. /\ current \in states /\ states \subseteq State /\ live \subseteq State /\ None \notin State
      /\ {e \in queue : e[2] # current} = {<<rank[s], s>> : s \in states \ {current}}
      /\ removedStates \in [State -> Nat]
  BY Zenon, <1>1, StatesAssumption
     DEF MirrorInv, LocalInv, QueueInv, StatesInv, Consistent, Outer, live
<1>. DEFINE new == addedStates \cup ({current} \ {None})
<1>3. queue' = {e \in {e \in queue : e[2] # current} \cup {<<rank[s], s>> : s \in new} :
                     removedStates[e[2]] = 0}
  BY Zenon DEF updateStates, update
<1>4. live = (states \ {current}) \cup new
  BY Zenon, <1>2 DEF live
<1>5. {<<rank[s], s>> : s \in states \ {current}} \cup {<<rank[s], s>> : s \in new}
        = {<<rank[s], s>> : s \in live}
  BY Zenon, <1>4
<1>6. queue' = {e \in {<<rank[s], s>> : s \in live} : removedStates[e[2]] = 0}
  BY <1>2, <1>3, <1>5, Zenon
<1>7. \A s \in live : s \notin removed <=> removedStates[s] = 0
  BY <1>2 DEF removed
<1>8. QED
  BY <1>6, <1>7

\* updateStates moves the added and removed states into states and the searcher's
\* queue.
LEMMA UpdateKeeps ==
  ASSUME MirrorInv, options' = options, updateStates
  PROVE  MirrorInv'
<1>1. /\ at = "update" /\ UNCHANGED <<haltExecution, forks, lastState, searcher, atMemoryLimit>>
      /\ UNCHANGED <<first, second, result, todo, hasInvalid, pathsExplored>>
  BY Zenon DEF updateStates, At, localVars
<1>2. /\ first = None /\ second = None /\ result = {} /\ todo \in Nat /\ hasInvalid \in BOOLEAN
      /\ current \in states
  BY Zenon, <1>1 DEF MirrorInv, LocalInv, HeldInv, Shape, Outer
<1>3. RestInv'
  BY Zenon, <1>1 DEF RestInv, MirrorInv
<1>4. CASE ~updateAsserts
  <2>1. at' = "abort" /\ UNCHANGED treeVars /\ UNCHANGED <<states, queue, current, rank>>
    BY Zenon, <1>4 DEF updateStates, Goto, treeVars
  <2>2. StatesInv' /\ SeedsInv'
    BY <1>1, <2>1, NoEffect, Counts DEF Effect, MirrorInv, RestInv
  <2>3. Shape' /\ HeldStates' = {}
    BY <1>1, <1>2, <2>1 DEF Shape, HeldStates
  <2>4. LocalInv'
    BY <1>2, <2>1, <2>3 DEF LocalInv, HeldInv, Place, Outer
  <2>5. QueueInv'
    BY Zenon, <1>1, <2>1 DEF QueueInv, MirrorInv, Queued
  <2>6. QED
    BY Zenon, <1>3, <2>2, <2>4, <2>5 DEF MirrorInv
<1>5. CASE updateAsserts
  <2>1. /\ at' = (IF searcher THEN "select" ELSE "seeding") /\ states' = live \ removed
        /\ addedStates' = {} /\ removedStates' = [s \in State |-> 0] /\ current' = None
        /\ ~searcher => queue' = queue
    BY <1>5, Zenon DEF updateStates, Goto
  <2>2. /\ StatesInv' /\ SeedsInv' /\ live' = live \ removed
        /\ \A s \in live' : rank'[s] = rank[s]
    BY <1>5, UpdateStates, Zenon
  <2>3. Shape' /\ HeldStates' = {}
    BY <1>1, <1>2, <2>1 DEF Shape, HeldStates
  <2>4. LocalInv'
    BY Zenon, <2>1, <2>3 DEF LocalInv, HeldInv, Place, Outer
  <2>5. searcher \in BOOLEAN /\ queue \subseteq Rank \X State
    BY Zenon DEF MirrorInv, QueueInv
  <2>6. ASSUME searcher PROVE QueueInv'
    <3>1. queue' = {<<rank[s], s>> : s \in live \ removed}
      BY <1>5, <2>6, UpdateQueue, Zenon
    <3>2. queue' = {<<rank'[s], s>> : s \in states'}
      BY Zenon, <2>1, <2>2, <3>1
    <3>3. states' \subseteq State /\ rank' \in [live' -> Rank] /\ states' \subseteq live'
      BY Zenon, <2>2 DEF StatesInv, Consistent, live
    <3>4. queue' \subseteq Rank \X State /\ states' \ {None} = states'
      BY <3>2, <3>3, StatesAssumption
    <3>5. {e \in queue' : e[2] # None} = queue'
      BY <3>2, <3>3, StatesAssumption
    <3>6. at' = "select" /\ searcher'
      BY <1>1, <2>1, <2>6, Zenon
    <3>7. QED
      BY <1>1, <2>1, <2>5, <3>2, <3>4, <3>5, <3>6 DEF QueueInv
  <2>7. ASSUME ~searcher PROVE QueueInv'
    BY <1>1, <2>1, <2>5, <2>7 DEF QueueInv
  <2>8. QED
    BY <1>3, <2>2, <2>4, <2>6, <2>7 DEF MirrorInv
<1>6. QED
  BY Zenon, <1>4, <1>5

\* The loops start an instruction on a state that the searcher holds.
LEMMA StepKeeps ==
  ASSUME MirrorInv, options' = options, at \in {"seeding", "select"}, NEW s \in states, step(s),
         lastState' \in State \cup {None}, searcher => Queued(s)
  PROVE  MirrorInv'
<1>1. PICK r \in Rank : rank' = [rank EXCEPT ![s] = r]
  BY Zenon DEF step
<1>2. /\ current' = s /\ at' = "execute"
      /\ UNCHANGED <<haltExecution, forks, addedStates, removedStates, seedMap, processTree,
                     ptreeNode, pathsExplored, states, queue, searcher, atMemoryLimit>>
      /\ UNCHANGED <<first, second, result, todo, hasInvalid>>
  BY Zenon DEF step, Goto, localVars
<1>3. /\ current = None /\ addedStates = {} /\ (\A x \in State : removedStates[x] = 0) /\ HeldInv
      /\ first = None /\ second = None /\ result = {} /\ todo \in Nat /\ hasInvalid \in BOOLEAN
  BY Zenon DEF MirrorInv, LocalInv, HeldInv, Shape, Outer
<1>4. /\ rank \in [states \cup addedStates -> Rank] /\ states \subseteq State
      /\ Consistent(states, addedStates, removedStates, processTree, ptreeNode, rank)
  BY Zenon DEF MirrorInv, StatesInv, Consistent
<1>5. rank' \in [states \cup addedStates -> Rank] /\ \A x \in states \ {s} : rank'[x] = rank[x]
  BY Zenon, <1>1, <1>4
<1>6. Consistent(states, addedStates, removedStates, processTree, ptreeNode, rank')
  BY <1>4, <1>5, Zenon DEF Consistent
<1>7. StatesInv'
  BY <1>2, <1>6, Zenon DEF StatesInv
<1>8. live' = live
  BY Zenon, <1>2 DEF live
<1>9. SeedsInv'
  BY Zenon, <1>2, <1>8 DEF SeedsInv, SeedsOK, Seeds, MirrorInv
<1>10. Shape' /\ HeldStates' = {s}
  BY Zenon, <1>2, <1>3 DEF Shape, HeldStates
<1>11. LocalInv'
  BY <1>2, <1>3, <1>8, <1>10 DEF LocalInv, HeldInv, Place, Outer, live
<1>12. QueueInv'
  <2>1. /\ queue \subseteq Rank \X State /\ searcher \in BOOLEAN
        /\ searcher => {e \in queue : e[2] # None} = {<<rank[x], x>> : x \in states \ {None}}
    BY Zenon, <1>3 DEF MirrorInv, QueueInv
  <2>2. ASSUME searcher
        PROVE  {e \in queue : e[2] # s} = {<<rank'[x], x>> : x \in states \ {s}}
    <3>1. states \ {None} = states
      BY Zenon, <1>4, StatesAssumption
    <3>2. \A e \in queue : e[2] # None
      BY Zenon, <2>1, StatesAssumption
    <3>3. queue = {<<rank[x], x>> : x \in states}
      BY <2>1, <2>2, <3>1, <3>2
    <3>4. {e \in queue : e[2] # s} = {<<rank[x], x>> : x \in states \ {s}}
      BY <3>3
    <3>5. QED
      BY <1>5, <3>4
  <2>3. searcher => Queued(s)'
    BY Zenon, <1>2 DEF Queued
  <2>4. QED
    BY <1>2, <2>1, <2>2, <2>3, Zenon DEF QueueInv
<1>13. RestInv'
  BY Zenon, <1>2 DEF RestInv, MirrorInv
<1>14. QED
  BY <1>7, <1>9, <1>11, <1>12, <1>13 DEF MirrorInv

\* run selects the state of the searcher.
LEMMA SelectKeeps == ASSUME MirrorInv, options' = options, select PROVE MirrorInv'
<1>1. PICK s \in states : selectState(s) /\ step(s)
  BY Zenon DEF select
<1>2. at \in {"seeding", "select"} /\ lastState' \in State \cup {None} /\ Queued(s)
  BY Zenon, <1>1 DEF select, At, MirrorInv, RestInv, selectState, Queued
<1>3. QED
  BY <1>1, <1>2, StepKeeps, Zenon

\* The seeding loop takes the next state that has a seed.
LEMMA SeedKeeps == ASSUME MirrorInv, options' = options, seed PROVE MirrorInv'
<1>1. PICK s \in DOMAIN seedMap : step(s) /\ lastState' = s
  BY Zenon DEF seed
<1>2. at = "seeding" /\ ~searcher
  BY Zenon DEF seed, At, MirrorInv, QueueInv
<1>3. s \in states /\ lastState' \in State \cup {None}
  BY <1>1, <1>2 DEF MirrorInv, SeedsInv, SeedsOK, LocalInv, Outer, live, StatesInv, Consistent
<1>4. QED
  BY <1>1, <1>2, <1>3, StepKeeps, Zenon

\* The steps between the two loops, and out of them, change no state.
LEMMA LoopKeeps ==
  ASSUME MirrorInv, options' = options, seedingDone \/ halt
  PROVE  MirrorInv'
<1>1. /\ at \in {"seeding", "select"} /\ lastState' = None
      /\ UNCHANGED <<haltExecution, forks, treeVars, current, states, atMemoryLimit>>
      /\ UNCHANGED <<first, second, result, todo, hasInvalid>>
  BY Zenon DEF seedingDone, halt, At, localVars
<1>2. \/ /\ at' = "halt" /\ searcher' = FALSE /\ (queue' = queue \/ queue' = {})
      \/ at' = "select" /\ searcher' = TRUE /\ queue' = {<<rank[s], s>> : s \in states}
  <2>1. at = "seeding" => searcher = FALSE
    BY Zenon DEF MirrorInv, QueueInv
  <2>2. QED
    BY <2>1, Zenon DEF seedingDone, halt, Goto, At
<1>3. StatesInv' /\ SeedsInv'
  BY Zenon, <1>1, NoEffect, Counts DEF Effect, MirrorInv, RestInv
<1>4. /\ current = None /\ addedStates = {} /\ (\A x \in State : removedStates[x] = 0)
      /\ first = None /\ second = None /\ result = {} /\ todo \in Nat /\ hasInvalid \in BOOLEAN
  BY Zenon, <1>1 DEF MirrorInv, LocalInv, HeldInv, Shape, Outer
<1>5. at' \in {"halt", "select"}
  BY Zenon, <1>2
<1>6. Shape' /\ HeldStates' = {}
  BY Zenon, <1>1, <1>4, <1>5 DEF Shape, HeldStates
<1>7. LocalInv'
  BY <1>1, <1>4, <1>5, <1>6 DEF LocalInv, HeldInv, Place, Outer, treeVars
<1>8. QueueInv'
  <2>1. queue \subseteq Rank \X State
    BY Zenon DEF MirrorInv, QueueInv
  <2>2. CASE at' = "halt" /\ searcher' = FALSE /\ (queue' = queue \/ queue' = {})
    BY <2>1, <2>2, Zenon DEF QueueInv
  <2>3. CASE at' = "select" /\ searcher' = TRUE /\ queue' = {<<rank[s], s>> : s \in states}
    <3>1. /\ states \subseteq State /\ rank \in [live -> Rank] /\ states \subseteq live
          /\ rank' = rank /\ states' = states /\ current' = None
      BY Zenon, <1>1, <1>4 DEF MirrorInv, StatesInv, Consistent, live, treeVars
    <3>2. queue' \subseteq Rank \X State /\ states \ {None} = states
      BY <2>3, <3>1, StatesAssumption
    <3>3. {e \in queue' : e[2] # None} = queue'
      BY Zenon, <3>2, StatesAssumption
    <3>4. QED
      BY <2>3, <3>1, <3>2, <3>3, Zenon DEF QueueInv
  <2>4. QED
    BY <1>2, <2>2, <2>3, Zenon
<1>9. RestInv'
  BY Zenon, <1>1 DEF RestInv, MirrorInv, treeVars
<1>10. QED
  BY <1>3, <1>7, <1>8, <1>9 DEF MirrorInv

\* A halt may be asked for at any time.
LEMMA HaltExecutionKeeps ==
  ASSUME MirrorInv, options' = options, halt_execution
  PROVE  MirrorInv'
<1>1. /\ haltExecution' = TRUE /\ UNCHANGED <<at, forks, treeVars, loopVars, localVars>>
  BY Zenon DEF halt_execution
<1>2. StatesInv' /\ SeedsInv'
  BY Zenon, <1>1, NoEffect, Counts DEF Effect, MirrorInv, RestInv, loopVars
<1>3. /\ at' = at /\ current' = current /\ states' = states /\ addedStates' = addedStates
      /\ removedStates' = removedStates /\ seedMap' = seedMap /\ rank' = rank /\ queue' = queue
      /\ searcher' = searcher /\ first' = first /\ second' = second /\ result' = result
      /\ todo' = todo /\ hasInvalid' = hasInvalid /\ lastState' = lastState
      /\ atMemoryLimit' = atMemoryLimit /\ pathsExplored' = pathsExplored /\ forks' = forks
  BY Zenon, <1>1 DEF treeVars, loopVars, localVars
<1>4. Shape' /\ HeldStates' = HeldStates /\ live' = live
  BY <1>3 DEF Shape, HeldStates, live, MirrorInv, LocalInv, HeldInv
<1>5. LocalInv'
  BY Zenon, <1>3, <1>4 DEF LocalInv, HeldInv, MirrorInv
<1>6. QueueInv'
  BY <1>3 DEF QueueInv, Queued, MirrorInv
<1>7. RestInv'
  BY Zenon, <1>1, <1>3 DEF RestInv, MirrorInv
<1>8. QED
  BY Zenon, <1>2, <1>5, <1>6, <1>7 DEF MirrorInv

\* doDumpStates removes all states and what belongs to them.
LEMMA DumpedStates ==
  ASSUME MirrorInv, options' = options, doDumpStates, DumpStatesOnHalt
  PROVE  /\ StatesInv' /\ SeedsInv' /\ live' = {} /\ processTree' = {} /\ DOMAIN seedMap' = {}
         /\ seedMap' = Forget(seedMap, states)
         /\ pathsExplored' = pathsExplored + Cardinality(states) /\ pathsExplored' \in Nat
<1>1. /\ states' = {} /\ UNCHANGED <<addedStates, removedStates>>
      /\ pathsExplored' = pathsExplored + Cardinality(states)
      /\ seedMap' = Forget(seedMap, states)
      /\ processTree' = remove(processTree, {ptreeNode[s] : s \in states})
      /\ ptreeNode' = Forget(ptreeNode, states) /\ rank' = Forget(rank, states)
      /\ at = "halt"
  BY Zenon DEF doDumpStates, At
<1>2. /\ addedStates = {} /\ (\A s \in State : removedStates[s] = 0) /\ StatesInv /\ SeedsInv
      /\ removedStates \in [State -> Nat] /\ states \subseteq State /\ live = states
  BY Zenon, <1>1 DEF MirrorInv, LocalInv, Outer, StatesInv, Consistent, live
<1>3. /\ states \subseteq states \cup addedStates
      /\ \A s \in State : removedStates[s] # 0 => s \in states \ states
  BY Zenon, <1>2
<1>4. Consistent(states \ states, addedStates \ states, removedStates,
                 remove(processTree, {ptreeNode[s] : s \in states}),
                 Forget(ptreeNode, states), Forget(rank, states))
  BY <1>2, <1>3, Removal, Zenon DEF StatesInv
<1>5. states \ states = {} /\ addedStates \ states = {}
  BY Zenon, <1>2
<1>6. StatesInv' /\ live' = {}
  BY <1>1, <1>2, <1>4, <1>5 DEF StatesInv, live
<1>7. processTree' = {}
  BY Zenon, <1>6 DEF StatesInv, Consistent, live
<1>8. SeedsOK(Forget(seedMap, states), live \ states)
      /\ DOMAIN Forget(seedMap, states) = DOMAIN seedMap \ states
  BY <1>2, SeedsForgotten, Zenon DEF SeedsInv
<1>9. live \ states = {}
  BY Zenon, <1>2
<1>10. SeedsInv' /\ DOMAIN seedMap' = {}
  BY <1>1, <1>6, <1>8, <1>9 DEF SeedsInv, SeedsOK, Seeds
<1>11. Cardinality(states) \in Nat
  BY <1>2, StatesAssumption, FS_Subset, FS_CardinalityType
<1>12. pathsExplored' \in Nat
  BY <1>1, <1>11 DEF MirrorInv, RestInv
<1>13. QED
  BY <1>1, <1>6, <1>7, <1>10, <1>12

\* doDumpStates ends every state that is left.
LEMMA DumpKeeps == ASSUME MirrorInv, options' = options, doDumpStates PROVE MirrorInv'
<1>1. /\ at = "halt" /\ at' = "done"
      /\ UNCHANGED <<haltExecution, forks, current, lastState, queue, searcher, atMemoryLimit>>
      /\ UNCHANGED <<first, second, result, todo, hasInvalid>>
      /\ UNCHANGED <<addedStates, removedStates>>
  BY Zenon DEF doDumpStates, At, Goto, localVars, treeVars
<1>2. /\ current = None /\ addedStates = {} /\ (\A x \in State : removedStates[x] = 0)
      /\ first = None /\ second = None /\ result = {} /\ todo \in Nat /\ hasInvalid \in BOOLEAN
  BY Zenon, <1>1 DEF MirrorInv, LocalInv, HeldInv, Shape, Outer
<1>3. StatesInv' /\ SeedsInv' /\ pathsExplored' \in Nat
  <2>1. CASE DumpStatesOnHalt
    BY <2>1, DumpedStates, Zenon
  <2>2. CASE ~DumpStatesOnHalt
    <3>1. UNCHANGED treeVars /\ states' = states
      BY Zenon, <2>2 DEF doDumpStates
    <3>2. QED
      BY Zenon, <3>1, NoEffect, Counts DEF Effect, MirrorInv, RestInv, treeVars
  <2>3. QED
    BY Zenon, <2>1, <2>2
<1>4. Shape' /\ HeldStates' = {}
  BY Zenon, <1>1, <1>2 DEF Shape, HeldStates
<1>5. LocalInv'
  BY Zenon, <1>1, <1>2, <1>4 DEF LocalInv, HeldInv, Place, Outer
<1>6. RestInv'
  BY Zenon, <1>1, <1>3 DEF RestInv, MirrorInv
<1>7. QueueInv'
  <2>1. at = "halt" => ~searcher
    BY Zenon DEF MirrorInv, QueueInv
  <2>2. QED
    BY Zenon, <1>1, <2>1 DEF QueueInv, MirrorInv
<1>8. QED
  BY <1>3, <1>5, <1>6, <1>7 DEF MirrorInv

\* The initial state is in states, in the tree and in no queue of changes.
LEMMA MirrorInit == Init => MirrorInv
<1>. SUFFICES ASSUME Init PROVE MirrorInv
  BY Zenon
<1>1. PICK s \in State :
         /\ states = {s}
         /\ seedMap = [x \in (IF Seeds = {} THEN {} ELSE {s}) |-> Seeds]
         /\ ptreeNode = [x \in {s} |-> Root]
         /\ rank \in [{s} -> Rank]
  BY Zenon DEF Init
<1>2. /\ options \in Options /\ at = "seeding" /\ current = None /\ lastState = None
      /\ addedStates = {} /\ removedStates = [x \in State |-> 0] /\ processTree = {Root}
      /\ queue = {} /\ searcher = FALSE /\ haltExecution = FALSE /\ atMemoryLimit = FALSE
      /\ forks = 0 /\ pathsExplored = 0
      /\ first = None /\ second = None /\ result = {} /\ todo = 0 /\ hasInvalid = FALSE
  BY Zenon DEF Init
<1>3. TreeClosed({Root}) /\ Leaves({Root}) = {Root}
  <2>1. Root = << >> /\ Root \in Node
    BY DEF Root, Node
  <2>2. Left(Root) # Root /\ Right(Root) # Root
    BY Zenon, <2>1, Children
  <2>3. ASSUME NEW m \in Seq({"l", "r"}), IsAncestor(m, Root) PROVE m = Root
    BY <2>1, <2>3 DEF IsAncestor
  <2>4. TreeClosed({Root})
    BY Zenon, <2>1, <2>3 DEF TreeClosed, Node
  <2>5. QED
    BY Zenon, <2>2, <2>4 DEF Leaves
<1>4. StatesInv
  <2>1. states \cup addedStates = {s} /\ states \cap addedStates = {}
    BY Zenon, <1>1, <1>2
  <2>2. /\ states \subseteq State /\ addedStates \subseteq State
        /\ removedStates \in [State -> Nat] /\ \A x \in State : removedStates[x] # 0 => x \in states
    BY Zenon, <1>1, <1>2
  <2>3. /\ {Root} = {ptreeNode[x] : x \in {s}} /\ ptreeNode \in [{s} -> {Root}]
        /\ \A x, y \in {s} : ptreeNode[x] = ptreeNode[y] => x = y
    BY Zenon, <1>1
  <2>4. QED
    BY <1>1, <1>2, <1>3, <2>1, <2>2, <2>3 DEF StatesInv, Consistent
<1>5. SeedsInv
  <2>1. CASE Seeds = {}
    <3>1. DOMAIN seedMap = {} /\ seedMap = [x \in {} |-> Seeds]
      BY Zenon, <1>1, <2>1
    <3>2. QED
      BY Zenon, <3>1 DEF SeedsInv, SeedsOK
  <2>2. CASE Seeds # {}
    <3>1. DOMAIN seedMap = {s} /\ seedMap[s] = Seeds /\ seedMap \in [{s} -> SUBSET Seeds]
      BY Zenon, <1>1, <2>2
    <3>2. QED
      BY <1>1, <2>2, <3>1 DEF SeedsInv, SeedsOK, live
  <2>3. QED
    BY Zenon, <2>1, <2>2
<1>6. Shape
  BY <1>2, Zenon DEF Shape
<1>7. LocalInv
  BY Zenon, <1>2, <1>6 DEF LocalInv, HeldInv, HeldStates, Place, Outer
<1>8. QueueInv /\ RestInv
  BY <1>2, Zenon DEF QueueInv, RestInv
<1>9. QED
  BY <1>4, <1>5, <1>7, <1>8 DEF MirrorInv

\* Stuttering keeps the mirror invariant.
LEMMA MirrorStutter == MirrorInv /\ UNCHANGED vars => MirrorInv'
<1>. SUFFICES ASSUME MirrorInv, UNCHANGED vars PROVE MirrorInv'
  BY Zenon
<1>1. UNCHANGED <<options, at, haltExecution, forks, treeVars, loopVars, localVars>>
  BY Zenon DEF vars, runVars
<1>2. StatesInv' /\ SeedsInv'
  BY Zenon, <1>1, NoEffect, Counts DEF Effect, MirrorInv, RestInv, loopVars
<1>3. /\ at' = at /\ current' = current /\ states' = states /\ addedStates' = addedStates
      /\ removedStates' = removedStates /\ seedMap' = seedMap /\ rank' = rank /\ queue' = queue
      /\ searcher' = searcher /\ first' = first /\ second' = second /\ result' = result
      /\ todo' = todo /\ hasInvalid' = hasInvalid /\ lastState' = lastState
      /\ atMemoryLimit' = atMemoryLimit /\ pathsExplored' = pathsExplored /\ forks' = forks
  BY Zenon, <1>1 DEF treeVars, loopVars, localVars
<1>4. Shape' /\ HeldStates' = HeldStates /\ live' = live
  BY <1>3 DEF Shape, HeldStates, live, MirrorInv, LocalInv, HeldInv
<1>5. LocalInv'
  BY <1>3, <1>4 DEF LocalInv, HeldInv, MirrorInv
<1>6. QueueInv'
  BY Zenon, <1>3 DEF QueueInv, Queued, MirrorInv
<1>7. RestInv'
  BY Zenon, <1>1, <1>3 DEF RestInv, MirrorInv
<1>8. QED
  BY <1>2, <1>5, <1>6, <1>7 DEF MirrorInv

\* The searcher, the process tree, the seeds and the states that the handlers hold follow
\* the set of states through every step of Executor::run, for every command line.
THEOREM Invariance == Spec => []MirrorInv
<1>1. MirrorInv /\ [Next]_vars => MirrorInv'
  <2>. SUFFICES ASSUME MirrorInv, [Next]_vars PROVE MirrorInv'
    BY Zenon
  <2>1. CASE UNCHANGED vars
    BY Zenon, <2>1, MirrorStutter
  <2>2. ASSUME Next PROVE MirrorInv'
    <3>1. options' = options /\ (run \/ halt_execution)
      BY Zenon, <2>2 DEF Next
    <3>2. CASE halt_execution
      BY Zenon, <3>1, <3>2, HaltExecutionKeeps
    <3>3. CASE executeInstruction \/ processTimers \/ checkMemoryUsage
      BY <3>1, <3>3, InstructionSteps, HandlerKeeps, Counts, Zenon
    <3>4. (seed => MirrorInv') /\ (select => MirrorInv') /\ (seedingDone \/ halt => MirrorInv')
      BY <3>1, SeedKeeps, SelectKeeps, LoopKeeps, Zenon
    <3>5. (updateStates => MirrorInv') /\ (doDumpStates => MirrorInv')
      BY <3>1, UpdateKeeps, DumpKeeps, Zenon
    <3>6. QED
      BY <3>1, <3>2, <3>3, <3>4, <3>5, Zenon DEF run
  <2>3. QED
    BY Zenon, <2>1, <2>2
<1>2. QED
  BY <1>1, MirrorInit, PTL DEF Spec

\* SearcherInSync: a queue that holds each state once is as large as the set of states.
LEMMA QueueSize ==
  ASSUME NEW S, IsFiniteSet(S), NEW f
  PROVE  Cardinality({<<f[s], s>> : s \in S}) = Cardinality(S)
<1>. DEFINE T == {<<f[s], s>> : s \in S}
            g == [s \in S |-> <<f[s], s>>]
<1>1. g \in [S -> T] /\ \A s \in S : g[s] = <<f[s], s>>
  BY Zenon
<1>2. \A t \in T : \E s \in S : g[s] = t
  BY Zenon
<1>. HIDE DEF g
<1>3. \A s, t \in S : g[s] = g[t] => s = t
  <2>1. ASSUME NEW s \in S, NEW t \in S, g[s] = g[t] PROVE s = t
    <3>1. <<f[s], s>>[2] = <<f[t], t>>[2]
      BY Zenon, <1>1, <2>1
    <3>2. QED
      BY Zenon, <3>1
  <2>2. QED
    BY Zenon, <2>1
<1>. HIDE DEF T
<1>4. g \in Bijection(S, T)
  BY Zenon, <1>1, <1>2, <1>3 DEF Bijection, Injection, Surjection, IsInjective
<1>5. ExistsBijection(S, T)
  BY Zenon, <1>4 DEF ExistsBijection
<1>6. Cardinality(T) = Cardinality(S)
  BY Zenon, <1>5, FS_Bijection
<1>7. QED
  BY Zenon, <1>6 DEF T

\* The inductive invariant implies the property that the runs check.
LEMMA MirrorImpliesMirrored == MirrorInv => StatesMirrored
<1>. SUFFICES ASSUME MirrorInv PROVE StatesMirrored
  BY Zenon
<1>1. StatesInv /\ SeedsInv /\ LocalInv /\ QueueInv /\ RestInv /\ HeldInv /\ Shape
  BY Zenon DEF MirrorInv, LocalInv, HeldInv
<1>2. live \subseteq State /\ states \subseteq live /\ states \subseteq State /\ None \notin State
  BY Zenon, <1>1, StatesAssumption DEF StatesInv, Consistent, live
<1>3. TreeMirrorsStates
  BY <1>1, Zenon DEF StatesInv, Consistent, TreeMirrorsStates, live
<1>4. TypeOK
  <2>1. {current, lastState, first, second} \subseteq State \cup {None} /\ result \subseteq State
    <3>1. current \in State \cup {None} /\ lastState \in State \cup {None}
      BY Zenon, <1>1, <1>2 DEF LocalInv, RestInv
    <3>2. first \in State \cup {None} /\ second \in State \cup {None} /\ result \subseteq State
      BY Zenon, <1>1, <1>2 DEF HeldInv, HeldStates
    <3>3. QED
      BY Zenon, <3>1, <3>2
  <2>2. /\ addedStates \subseteq State /\ states \cap addedStates = {}
        /\ removedStates \in [State -> Nat]
        /\ DOMAIN ptreeNode = live /\ \A s \in live : ptreeNode[s] \in processTree
        /\ DOMAIN rank = live /\ \A s \in live : rank[s] \in Rank
    BY Zenon, <1>1 DEF StatesInv, Consistent, live
  <2>3. DOMAIN seedMap \subseteq State /\ \A s \in DOMAIN seedMap : seedMap[s] \subseteq Seeds
    BY Zenon, <1>1, <1>2 DEF SeedsInv, SeedsOK
  <2>4. /\ queue \subseteq Rank \X State /\ at \in Place /\ options \in Options
        /\ {forks, pathsExplored, todo} \subseteq Nat
    BY Zenon, <1>1 DEF QueueInv, LocalInv, RestInv, Shape
  <2>5. searcher \in BOOLEAN /\ haltExecution \in BOOLEAN /\ atMemoryLimit \in BOOLEAN
        /\ hasInvalid \in BOOLEAN
    BY <1>1, Zenon DEF QueueInv, RestInv, Shape
  <2>6. {searcher, haltExecution, atMemoryLimit, hasInvalid} \subseteq BOOLEAN
    BY <2>5, Zenon
  <2>7. QED
    BY <1>2, <2>1, <2>2, <2>3, <2>4, <2>6, Zenon DEF TypeOK
<1>5. SearcherInSync
  <2>1. SUFFICES ASSUME at = "select"
                 PROVE  {e[2] : e \in queue} = states /\ Cardinality(queue) = Cardinality(states)
    BY Zenon DEF SearcherInSync, At
  <2>2. queue = {<<rank[s], s>> : s \in states}
    <3>1. current = None
      BY Zenon, <1>1, <2>1 DEF LocalInv, Outer
    <3>2. {e \in queue : e[2] # None} = {<<rank[s], s>> : s \in states \ {None}}
      BY <1>1, <2>1, <3>1 DEF QueueInv
    <3>3. {e \in queue : e[2] # None} = queue /\ states \ {None} = states
      BY Zenon, <1>1, <1>2 DEF QueueInv
    <3>4. QED
      BY <3>2, <3>3, Zenon
  <2>3. {e[2] : e \in queue} = states
    <3>1. \A e \in queue : e[2] \in states
      BY <2>2
    <3>2. \A s \in states : <<rank[s], s>> \in queue /\ <<rank[s], s>>[2] = s
      BY Zenon, <2>2
    <3>3. \A s \in states : \E e \in queue : s = e[2]
      BY <3>2, Zenon
    <3>4. QED
      BY <3>1, <3>3, Zenon
  <2>4. IsFiniteSet(states)
    BY Zenon, <1>2, StatesAssumption, FS_Subset
  <2>5. Cardinality(queue) = Cardinality(states)
    BY <2>2, <2>4, QueueSize, Zenon
  <2>6. QED
    BY Zenon, <2>3, <2>5
<1>6. QED
  BY Zenon, <1>3, <1>4, <1>5 DEF StatesMirrored

\* The searcher and the process tree mirror the executor's states: the queue holds each
\* state once when it is asked, and the leaves of the tree are the live states.
THEOREM StatesAreMirrored == Spec => []StatesMirrored
  BY Invariance, MirrorImpliesMirrored, PTL

\* No handler holds a state that terminateState has deleted.
THEOREM NoStateDangles == Spec => []NoneDangling
<1>1. MirrorInv => NoneDangling
  <2>. SUFFICES ASSUME MirrorInv PROVE NoneDangling
    BY Zenon
  <2>1. HeldStates \subseteq live
    BY Zenon DEF MirrorInv, LocalInv, HeldInv
  <2>2. current \in live \cup {None}
    BY Zenon DEF MirrorInv, LocalInv, live
  <2>3. QED
    BY Zenon, <2>1, <2>2 DEF NoneDangling, HeldStates
<1>2. QED
  BY <1>1, Invariance, PTL

\* CastanSearcher::selectState returns a state of the highest present priority, although a
\* state's priority changes while it is queued.
THEOREM CostliestIsSelected == Spec => SelectsCostliest
<1>1. MirrorInv /\ [Next]_vars =>
        [At("select") /\ at' = "execute" => \A s \in states : rank[s] <= rank[current']]_vars
  <2>. SUFFICES ASSUME MirrorInv, Next, at = "select", at' = "execute"
                PROVE  \A s \in states : rank[s] <= rank[current']
    BY Zenon DEF At
  <2>1. select
    <3>1. options' = options /\ (run \/ halt_execution)
      BY Zenon DEF Next
    <3>2. ~halt_execution
      BY Zenon DEF halt_execution
    <3>3. ~(executeInstruction \/ processTimers \/ checkMemoryUsage)
      BY <3>1, InstructionSteps, Counts, Zenon DEF Handler, Outer
    <3>4. ~seed /\ ~seedingDone /\ ~updateStates /\ ~halt /\ ~doDumpStates
      BY Zenon DEF seed, seedingDone, updateStates, halt, doDumpStates, At, Goto
    <3>5. QED
      BY <3>1, <3>2, <3>3, <3>4, Zenon DEF run
  <2>2. PICK s \in states : selectState(s) /\ current' = s
    BY <2>1, Zenon DEF select, step
  <2>3. current = None /\ None \notin State /\ states \subseteq State
    BY Zenon, StatesAssumption DEF MirrorInv, LocalInv, Outer, StatesInv, Consistent
  <2>4. {e \in queue : e[2] # None} = {<<rank[x], x>> : x \in states \ {None}}
    BY Zenon, <2>3 DEF MirrorInv, QueueInv
  <2>5. queue \subseteq Rank \X State
    BY Zenon DEF MirrorInv, QueueInv
  <2>6. queue = {<<rank[x], x>> : x \in states}
    <3>1. {e \in queue : e[2] # None} = queue /\ states \ {None} = states
      BY Zenon, <2>3, <2>5
    <3>2. QED
      BY <2>4, <3>1, Zenon
  <2>7. PICK e \in queue : e[2] = s /\ \A f \in queue : f[1] <= e[1]
    BY Zenon, <2>2 DEF selectState
  <2>8. e[1] = rank[s]
    BY <2>6, <2>7
  <2>9. ASSUME NEW x \in states PROVE rank[x] <= rank[s]
    <3>1. <<rank[x], x>> \in queue
      BY Zenon, <2>6
    <3>2. <<rank[x], x>>[1] <= e[1]
      BY <2>7, <3>1, Zenon
    <3>3. QED
      BY <2>8, <3>2
  <2>10. QED
    BY Zenon, <2>2, <2>9
<1>2. QED
  BY <1>1, Invariance, PTL DEF Spec, SelectsCostliest

-----------------------------------------------------------------------------
(* --only-replay-seeds *)

\* The states that end and are not merely added are the ones queued for removal.
LEMMA RemovedGrows ==
  ASSUME MirrorInv, NEW new, NEW ended, Effect(new, ended)
  PROVE  removed' = removed \cup (ended \cap states)
<1>1. /\ removedStates \in [State -> Nat] /\ states \subseteq State
      /\ removedStates' = [s \in State |-> removedStates[s] + IF s \in ended \cap states THEN 1 ELSE 0]
  BY Zenon DEF MirrorInv, StatesInv, Consistent, Effect
<1>2. ASSUME NEW s \in State
      PROVE  removedStates'[s] > 0 <=> removedStates[s] > 0 \/ s \in ended \cap states
  <2>. DEFINE n == removedStates[s]
              m == removedStates'[s]
  <2>1. n \in Nat /\ m = n + IF s \in ended \cap states THEN 1 ELSE 0
    BY Zenon, <1>1
  <2>. HIDE DEF n, m
  <2>2. m > 0 <=> n > 0 \/ s \in ended \cap states
    BY <2>1
  <2>3. QED
    BY Zenon, <2>2 DEF n, m
<1>3. QED
  BY Zenon, <1>1, <1>2 DEF removed

\* No step of an instruction leaves a live state without a seed while seeds are
\* replayed.
LEMMA ReplayHandler ==
  ASSUME MirrorInv, ReplayInv, options' = options, HandlerSteps,
         at \notin {"branching", "branched", "update", "abort"},
         at \in {"timers", "memory"} => at' \in {"memory", "update"}
  PROVE  ReplayInv'
<1>1. PICK new, ended : Handler(new, ended) /\ Replayed(new, ended)
  BY Zenon DEF HandlerSteps
<1>. SUFFICES ASSUME OnlyReplaySeeds', ~searcher'
              PROVE  /\ at' \in {"branching", "branched"} => isSeeding(current)'
                     /\ live' \ mayBeUnseeded' \subseteq DOMAIN seedMap'
  BY Zenon DEF ReplayInv
<1>2. OnlyReplaySeeds /\ ~searcher /\ at \notin {"halt", "done", "abort"}
  BY Zenon, <1>1 DEF OnlyReplaySeeds, Handler, Outer
<1>3. live \ mayBeUnseeded \subseteq DOMAIN seedMap
  BY <1>2, Zenon DEF ReplayInv
<1>4. /\ live' = (live \cup new) \ Deleted(new, ended) /\ current' = current /\ states' = states
      /\ removed' = removed \cup (ended \cap states)
  BY Zenon, <1>1, RemovedGrows DEF Handler, Effect
<1>5. CASE at \in {"timers", "memory"}
  <2>1. mayBeUnseeded = removed /\ mayBeUnseeded' = removed' /\ at' \notin {"branching", "branched"}
    BY Zenon, <1>5 DEF mayBeUnseeded
  <2>2. (DOMAIN seedMap \cup new) \ Deleted(new, ended) \subseteq DOMAIN seedMap'
    BY Zenon, <1>1, <1>2, <1>5 DEF Replayed
  <2>3. QED
    BY <1>3, <1>4, <2>1, <2>2
<1>6. CASE at \notin {"timers", "memory"}
  <2>1. mayBeUnseeded = {}
    BY Zenon, <1>6 DEF mayBeUnseeded
  <2>2. live \subseteq DOMAIN seedMap
    BY <1>3, <2>1
  <2>3. (DOMAIN seedMap \cup new) \ Deleted(new, ended) \subseteq DOMAIN seedMap'
    BY Zenon, <1>1, <1>2, <2>2 DEF Replayed
  <2>4. live' \subseteq DOMAIN seedMap'
    BY <1>4, <2>2, <2>3
  <2>5. current' \in live'
    <3>1. current \in states
      BY Zenon, <1>1 DEF Handler, MirrorInv, LocalInv
    <3>2. QED
      BY Zenon, <1>4, <3>1 DEF live
  <2>6. QED
    BY Zenon, <2>4, <2>5 DEF isSeeding
<1>7. QED
  BY Zenon, <1>5, <1>6

\* Nor does an iteration of branch, whose copies are given seeds at its end.
LEMMA ReplayBranch ==
  ASSUME MirrorInv, ReplayInv, options' = options, branch
  PROVE  ReplayInv'
<1>1. PICK ns : /\ Handler({ns}, {})
                /\ ns \in result' /\ result \subseteq result' /\ seedMap' = seedMap
  BY BranchSteps, Counts, Zenon
<1>. SUFFICES ASSUME OnlyReplaySeeds', ~searcher'
              PROVE  /\ at' \in {"branching", "branched"} => isSeeding(current)'
                     /\ live' \ mayBeUnseeded' \subseteq DOMAIN seedMap'
  BY Zenon DEF ReplayInv
<1>2. at = "branching" /\ at' \in {"branching", "branched"}
  BY Zenon DEF branch, At, Goto
<1>3. OnlyReplaySeeds /\ ~searcher /\ current' = current /\ live' \subseteq live \cup {ns}
  BY Zenon, <1>1 DEF OnlyReplaySeeds, Handler, Effect
<1>4. isSeeding(current) /\ live \ result \subseteq DOMAIN seedMap
  BY <1>2, <1>3, Zenon DEF ReplayInv, mayBeUnseeded
<1>5. mayBeUnseeded' = result'
  BY Zenon, <1>2 DEF mayBeUnseeded
<1>6. QED
  BY <1>1, <1>3, <1>4, <1>5 DEF isSeeding

\* That end restores what branch suspended.
LEMMA ReplayRedistribute ==
  ASSUME MirrorInv, ReplayInv, options' = options, redistribute
  PROVE  ReplayInv'
<1>1. PICK ended :
         /\ Handler({}, ended)
         /\ OnlyReplaySeeds /\ isSeeding(current) /\ live \ result \subseteq DOMAIN seedMap =>
                live' \ ended \subseteq DOMAIN seedMap'
  BY RedistributeSteps, Counts, Zenon
<1>. SUFFICES ASSUME OnlyReplaySeeds', ~searcher'
              PROVE  /\ at' \in {"branching", "branched"} => isSeeding(current)'
                     /\ live' \ mayBeUnseeded' \subseteq DOMAIN seedMap'
  BY Zenon DEF ReplayInv
<1>2. at = "branched" /\ at' = "timers"
  BY Zenon DEF redistribute, At, Goto
<1>3. OnlyReplaySeeds /\ ~searcher
  BY Zenon, <1>1 DEF OnlyReplaySeeds, Handler
<1>4. isSeeding(current) /\ live \ result \subseteq DOMAIN seedMap
  BY <1>2, <1>3, Zenon DEF ReplayInv, mayBeUnseeded
<1>5. live' \ ended \subseteq DOMAIN seedMap'
  BY Zenon, <1>1, <1>3, <1>4
<1>6. /\ removed' = removed \cup (ended \cap states) /\ live' = (live \cup {}) \ Deleted({}, ended)
      /\ ended \subseteq live \cup {}
  BY <1>1, RemovedGrows DEF Handler, Effect
<1>7. live' \cap ended \subseteq removed'
  BY Zenon, <1>6 DEF Deleted, live
<1>8. mayBeUnseeded' = removed'
  BY Zenon, <1>2 DEF mayBeUnseeded
<1>9. QED
  BY <1>2, <1>5, <1>7, <1>8

\* --only-replay-seeds is given together with seeds.
SeedsGiven == \A o \in Options : o.onlyReplaySeeds => o.seeds # {}

\* The run starts with its seeds on the initial state.
LEMMA ReplayInit == ASSUME SeedsGiven, Init PROVE ReplayInv
<1>1. PICK s \in State :
         states = {s} /\ seedMap = [x \in (IF Seeds = {} THEN {} ELSE {s}) |-> Seeds]
  BY Zenon DEF Init
<1>2. at = "seeding" /\ addedStates = {} /\ options \in Options
  BY Zenon DEF Init
<1>3. OnlyReplaySeeds => Seeds # {}
  BY Zenon, <1>2 DEF SeedsGiven, OnlyReplaySeeds, Seeds
<1>4. OnlyReplaySeeds => DOMAIN seedMap = live
  BY <1>1, <1>2, <1>3 DEF live
<1>5. QED
  BY Zenon, <1>2, <1>4 DEF ReplayInv

\* updateStates forgets the states that ended, whose seeds are gone already.
LEMMA ReplayUpdate ==
  ASSUME MirrorInv, ReplayInv, options' = options, updateStates
  PROVE  ReplayInv'
<1>1. CASE ~updateAsserts
  BY Zenon, <1>1 DEF updateStates, Goto, ReplayInv
<1>2. CASE updateAsserts
  <2>. SUFFICES ASSUME OnlyReplaySeeds', ~searcher'
                PROVE  /\ at' \in {"branching", "branched"} => isSeeding(current)'
                       /\ live' \ mayBeUnseeded' \subseteq DOMAIN seedMap'
    BY Zenon DEF ReplayInv
  <2>1. at = "update" /\ at' = "seeding" /\ OnlyReplaySeeds /\ ~searcher
    BY <1>2, Zenon DEF updateStates, At, Goto, OnlyReplaySeeds
  <2>2. live' = live \ removed /\ DOMAIN seedMap' = DOMAIN seedMap \ removed
    BY <1>2, UpdateStates, Zenon
  <2>3. live \ removed \subseteq DOMAIN seedMap
    BY Zenon, <2>1 DEF ReplayInv, mayBeUnseeded
  <2>4. QED
    BY <2>1, <2>2, <2>3
<1>3. QED
  BY Zenon, <1>1, <1>2

\* The loops around the instructions change no seed while seeding.
LEMMA ReplayLoop ==
  ASSUME MirrorInv, ReplayInv, options' = options,
         seed \/ select \/ seedingDone \/ halt \/ doDumpStates \/ halt_execution
  PROVE  ReplayInv'
<1>1. CASE seed
  <2>1. /\ at = "seeding" /\ at' = "execute" /\ searcher' = searcher
        /\ states' = states /\ addedStates' = addedStates /\ seedMap' = seedMap
    BY <1>1, Zenon DEF seed, step, At, Goto
  <2>2. QED
    BY Zenon, <2>1 DEF ReplayInv, mayBeUnseeded, live, OnlyReplaySeeds
<1>2. CASE select
  <2>1. searcher /\ searcher' = searcher
    BY <1>2, Zenon DEF select, step, At, MirrorInv, QueueInv
  <2>2. QED
    BY <2>1, Zenon DEF ReplayInv
<1>3. CASE seedingDone \/ halt \/ doDumpStates
  <2>1. at' \in {"halt", "done"} \/ searcher'
    BY <1>3, Zenon DEF seedingDone, halt, doDumpStates, Goto
  <2>2. QED
    BY Zenon, <2>1 DEF ReplayInv
<1>4. CASE halt_execution
  <2>1. /\ UNCHANGED <<at, current, states, addedStates, removedStates, seedMap, result, searcher>>
    BY Zenon, <1>4 DEF halt_execution, treeVars, loopVars, localVars
  <2>2. QED
    BY Zenon, <2>1 DEF ReplayInv, mayBeUnseeded, live, removed, isSeeding, OnlyReplaySeeds
<1>5. QED
  BY <1>1, <1>2, <1>3, <1>4

\* Seeds follow the states through forks, branches and ends; no seed is shared or belongs to
\* a dead state; and with --only-replay-seeds every state left in the seeding loop of
\* Executor::run has a seed.
THEOREM SeedsAreFollowed ==
  ASSUME SeedsGiven
  PROVE  Spec => []SeedsFollowStates
<1>1. Init => ReplayInv
  BY Zenon, ReplayInit
<1>2. MirrorInv /\ ReplayInv /\ [Next]_vars => ReplayInv'
  <2>. SUFFICES ASSUME MirrorInv, ReplayInv, [Next]_vars PROVE ReplayInv'
    BY Zenon
  <2>1. CASE UNCHANGED vars
    <3>1. UNCHANGED <<options, at, current, states, addedStates, removedStates, seedMap, result,
                      searcher>>
      BY Zenon, <2>1 DEF vars, runVars, treeVars, loopVars, localVars
    <3>2. QED
      BY Zenon, <3>1 DEF ReplayInv, mayBeUnseeded, live, removed, isSeeding, OnlyReplaySeeds
  <2>2. CASE Next
    <3>1. options' = options /\ (run \/ halt_execution)
      BY Zenon, <2>2 DEF Next
    <3>2. seed \/ select \/ seedingDone \/ halt \/ doDumpStates \/ halt_execution => ReplayInv'
      BY <3>1, ReplayLoop, Zenon
    <3>3. (updateStates => ReplayInv') /\ (branch => ReplayInv') /\ (redistribute => ReplayInv')
      BY <3>1, ReplayUpdate, ReplayBranch, ReplayRedistribute, Zenon
    <3>4. CASE executeInstruction
      <4>1. CASE at \in {"branching", "branched"}
        BY <3>3, <3>4, <4>1, InstructionPlace, Zenon
      <4>2. CASE at \notin {"branching", "branched"}
        <5>1. HandlerSteps
          BY <3>1, <3>4, <4>2, OtherSteps, Counts, Zenon
        <5>2. at \notin {"timers", "memory", "update", "abort"}
          BY Zenon, <3>4, InstructionPlace
        <5>3. QED
          BY <3>1, <4>2, <5>1, <5>2, ReplayHandler
      <4>3. QED
        BY Zenon, <4>1, <4>2
    <3>5. CASE processTimers \/ checkMemoryUsage
      <4>1. at \in {"timers", "memory"} /\ at' \in {"memory", "update"}
        BY <3>5, Zenon DEF processTimers, checkMemoryUsage, At, Goto
      <4>2. HandlerSteps
        BY <3>1, <3>5, TimersSteps, MemorySteps, Counts, Zenon DEF Steps, HandlerSteps
      <4>3. QED
        BY <3>1, <4>1, <4>2, ReplayHandler
    <3>6. QED
      BY <3>1, <3>2, <3>3, <3>4, <3>5, Zenon DEF run
  <2>3. QED
    BY Zenon, <2>1, <2>2
<1>3. MirrorInv /\ ReplayInv => SeedsFollowStates
  <2>. SUFFICES ASSUME MirrorInv, ReplayInv PROVE SeedsFollowStates
    BY Zenon
  <2>1. SeedsPlaced
    BY Zenon DEF MirrorInv, SeedsInv, SeedsOK, SeedsPlaced
  <2>2. ASSUME OnlyReplaySeeds, at = "seeding" PROVE states = DOMAIN seedMap
    <3>1. ~searcher /\ addedStates = {} /\ mayBeUnseeded = {}
      BY Zenon, <2>2 DEF MirrorInv, QueueInv, LocalInv, Outer, mayBeUnseeded
    <3>2. live \subseteq DOMAIN seedMap
      BY Zenon, <2>2, <3>1 DEF ReplayInv
    <3>3. QED
      BY <2>1, <3>1, <3>2 DEF SeedsPlaced, live
  <2>3. QED
    BY Zenon, <2>1, <2>2 DEF SeedsFollowStates, OnlySeededStates, At
<1>4. QED
  BY <1>1, <1>2, <1>3, Invariance, PTL DEF Spec

-----------------------------------------------------------------------------
(* No state is ended twice *)

\* Memory use stays near its cap, an unsatisfiable cache constraint does not end states, and
\* the program calls no symbolic function pointers: otherwise a state can be ended twice.
Calm == \A o \in Options : ~o.memoryHeavy /\ ~o.terminateOnUnsat /\ ~o.symbolicCalls

\* Under Calm no option lets a state end that is still used.
LEMMA CalmOptions ==
  ASSUME Calm, MirrorInv
  PROVE  ~MemoryHeavy /\ ~TerminateOnUNSAT /\ ~SymbolicCalls
<1>1. options \in Options
  BY Zenon DEF MirrorInv, RestInv
<1>2. QED
  BY <1>1, Zenon DEF Calm, MemoryHeavy, TerminateOnUNSAT, SymbolicCalls

\* Every step inside an instruction ends only states that have not ended.
TrackedSteps == \E new, ended : Handler(new, ended) /\ Tracked(new, ended)

\* Under Calm every step of an instruction counts each state it adds and each
\* state it ends.
LEMMA InstructionTracked ==
  ASSUME Calm, MirrorInv, options' = options, at # "called",
         executeInstruction \/ processTimers \/ checkMemoryUsage
  PROVE  TrackedSteps
<1>1. ~MemoryHeavy /\ ~TerminateOnUNSAT
  BY Zenon, CalmOptions
<1>2. executeInstruction => Steps \/ branch \/ redistribute
  BY <1>1, InstructionPlace, OtherSteps, Counts, Zenon
<1>3. (processTimers => Steps) /\ (checkMemoryUsage => Steps)
  BY <1>1, TimersSteps, MemorySteps, Counts, Zenon
<1>4. branch => TrackedSteps
  BY BranchSteps, Counts, Zenon DEF TrackedSteps
<1>5. redistribute => TrackedSteps
  BY RedistributeSteps, Counts, Zenon DEF TrackedSteps
<1>6. QED
  BY <1>2, <1>3, <1>4, <1>5, Zenon DEF Steps, TrackedSteps

\* fork returns to its caller.
LEMMA ForkPlace ==
  ASSUME NEW s, NEW back, fork(s, back)
  PROVE  at' = back
<1>1. forkTimeout(s, back) => at' = back
  BY Zenon DEF forkTimeout, StatePair
<1>2. forkOneSide(s, back) => at' = back
  BY Zenon DEF forkOneSide, StatePair
<1>3. ASSUME forkBoth(s, back) PROVE at' = back
  <2>1. \E f, tooDeep : forkedPair(s, f, tooDeep, back)
    BY <1>3, Zenon DEF forkBoth
  <2>2. QED
    BY <2>1, Zenon DEF forkedPair, StatePair
<1>4. QED
  BY <1>1, <1>2, <1>3, Zenon DEF fork

\* Without symbolic calls an instruction never reaches the call loop and never
\* aborts.
LEMMA InstructionNext ==
  ASSUME executeInstruction, ~SymbolicCalls, at \notin {"call", "called"}
  PROVE  at' \notin {"call", "called", "abort"}
<1>1. Plain \/ Exit \/ Error \/ redistribute \/ freeResults => at' = "timers"
  BY Zenon DEF Plain, Exit, Error, redistribute, freeResults, Goto
<1>2. (Br => at' = "timers") /\ (Alloc => at' = "alloc") /\ (executeFree => at' = "free")
  BY ForkPlace, Zenon DEF Br, Alloc, executeFree
<1>3. (resolveNext => at' = "bound") /\ (resolveExactNext => at' = "exactBound")
  BY ForkPlace, Zenon DEF resolveNext, resolveExactNext
<1>4. allocOtherSizes => at' = "timers" \/ at' = "huge"
  BY ForkPlace, Zenon DEF allocOtherSizes, StatePair
<1>5. Switch \/ branch => at' = "branched" \/ at' = "branching"
  BY Zenon DEF Switch, branch, Goto
<1>6. (allocNotHuge => at' = "timers") /\ (Access => at' = "access")
      /\ (executeMemoryOperation => at' = "timers" \/ at' = "resolve")
  BY Zenon DEF allocNotHuge, StatePair, Access, executeMemoryOperation, Goto
<1>7. (resolveBound => at' = "timers" \/ at' = "resolve") /\ (resolveUnbound => at' = "timers")
      /\ (resolveExact => at' = "timers" \/ at' = "exact")
  BY Zenon DEF resolveBound, resolveUnbound, resolveExact, StatePair
<1>8. (resolveExactBound => at' = "freeing" \/ at' = "exact")
      /\ (resolveExactUnbound => at' = "freeing")
  BY Zenon DEF resolveExactBound, resolveExactUnbound, StatePair
<1>9. ~Call /\ ~callFork /\ ~callValue
  BY Zenon DEF Call, callFork, callValue, At
<1>10. at' \in {"timers", "alloc", "free", "bound", "exactBound", "huge", "branched", "branching",
                "access", "resolve", "exact", "freeing"}
  BY <1>1, <1>2, <1>3, <1>4, <1>5, <1>6, <1>7, <1>8, <1>9, Zenon DEF executeInstruction
<1>11. QED
  BY Zenon, <1>10

\* Disjoint sets of states are counted apart.
LEMMA CountedApart ==
  ASSUME NEW A, NEW B, IsFiniteSet(A), IsFiniteSet(B), A \cap B = {}
  PROVE  Cardinality(A \cup B) = Cardinality(A) + Cardinality(B)
<1>1. Cardinality(A \cup B) = Cardinality(A) + Cardinality(B) - Cardinality(A \cap B)
  BY FS_Union, Zenon
<1>2. Cardinality(A \cap B) = 0
  BY FS_EmptySet, Zenon
<1>3. Cardinality(A) \in Nat /\ Cardinality(B) \in Nat
  BY FS_CardinalityType, Zenon
<1>4. QED
  BY <1>1, <1>2, <1>3

\* What the states that end and the new ones do to the counts.
LEMMA PathsCounted ==
  ASSUME MirrorInv, NEW new, NEW ended, Effect(new, ended),
         \A s \in ended \cap states : removedStates[s] = 0
  PROVE  /\ Cardinality(live') + pathsExplored' - Cardinality(removed')
              = Cardinality(live) + pathsExplored - Cardinality(removed) + Cardinality(new)
         /\ Cardinality(live') \in Nat /\ Cardinality(removed') \in Nat
         /\ Cardinality(live) \in Nat /\ Cardinality(removed) \in Nat /\ Cardinality(new) \in Nat
<1>. DEFINE D == Deleted(new, ended)
            E == ended \cap states
<1>1. /\ states \subseteq State /\ addedStates \subseteq State /\ states \cap addedStates = {}
      /\ removedStates \in [State -> Nat] /\ pathsExplored \in Nat
  BY Zenon DEF MirrorInv, StatesInv, Consistent, RestInv
<1>2. /\ new \subseteq Free /\ ended \subseteq live \cup new /\ live' = (live \cup new) \ D
      /\ pathsExplored' = pathsExplored + Cardinality(ended)
  BY Zenon DEF Effect
<1>3. removed' = removed \cup E
  BY Zenon, RemovedGrows
<1>4. live \subseteq State /\ new \subseteq State /\ live \cap new = {} /\ removed \subseteq State
  BY Zenon, <1>1, <1>2 DEF live, Free, removed
<1>5. ended = D \cup E /\ D \cap E = {} /\ D \subseteq live \cup new /\ E \subseteq State
  BY <1>1, <1>2, <1>4 DEF Deleted, live, Free
<1>6. removed \cap E = {}
  BY <1>1 DEF removed
<1>. HIDE DEF D, E
<1>7. /\ IsFiniteSet(live) /\ IsFiniteSet(new) /\ IsFiniteSet(removed) /\ IsFiniteSet(E)
      /\ IsFiniteSet(D) /\ IsFiniteSet(live \cup new)
  <2>1. live \cup new \subseteq State /\ D \subseteq State
    BY Zenon, <1>4, <1>5
  <2>2. QED
    BY Zenon, <1>4, <1>5, <2>1, StatesAssumption, FS_Subset
<1>8. /\ Cardinality(live) \in Nat /\ Cardinality(new) \in Nat /\ Cardinality(removed) \in Nat
      /\ Cardinality(E) \in Nat /\ Cardinality(D) \in Nat
  BY Zenon, <1>7, FS_CardinalityType
<1>9. Cardinality(live \cup new) = Cardinality(live) + Cardinality(new)
  BY <1>4, <1>7, CountedApart, Zenon
<1>10. Cardinality(ended) = Cardinality(D) + Cardinality(E)
  BY <1>5, <1>7, CountedApart, Zenon
<1>11. Cardinality(removed') = Cardinality(removed) + Cardinality(E)
  BY <1>3, <1>6, <1>7, CountedApart, Zenon
<1>12. Cardinality(live') = Cardinality(live \cup new) - Cardinality(D) /\ Cardinality(live') \in Nat
  <2>1. (live \cup new) \cap D = D
    BY Zenon, <1>5
  <2>2. /\ IsFiniteSet((live \cup new) \ D)
        /\ Cardinality((live \cup new) \ D) = Cardinality(live \cup new) - Cardinality((live \cup new) \cap D)
    BY <1>7, FS_Difference, Zenon
  <2>3. QED
    BY <1>2, <2>1, <2>2, FS_CardinalityType, Zenon
<1>. DEFINE l == Cardinality(live)
            n == Cardinality(new)
            r == Cardinality(removed)
            d == Cardinality(D)
            e == Cardinality(E)
            p == pathsExplored
            m == Cardinality(live')
<1>13. m = (l + n) - d /\ l \in Nat /\ n \in Nat /\ r \in Nat /\ d \in Nat /\ e \in Nat /\ p \in Nat /\ m \in Nat
  BY <1>1, <1>8, <1>9, <1>12
<1>. HIDE DEF l, n, r, d, e, p, m
<1>14. m + (p + (d + e)) - (r + e) = l + p - r + n
  BY <1>13
<1>15. Cardinality(removed') \in Nat
  BY <1>8, <1>11
<1>16. QED
  BY <1>2, <1>8, <1>10, <1>11, <1>12, <1>14, <1>15, Zenon DEF l, n, r, d, e, p, m

\* The sum that EndedInv states, after n states were added and counted.
LEMMA SumsMatch ==
  ASSUME NEW f \in Nat, NEW g \in Nat, NEW p \in Nat, NEW q \in Nat, NEW n \in Nat,
         NEW x \in Int, NEW y \in Int,
         1 + f = x + p, y = x + n, g - q = f - p + n
  PROVE  1 + g = y + q
  OBVIOUS

\* A step that counts what it adds and ends keeps the sum.
LEMMA EndedHandler ==
  ASSUME MirrorInv, EndedInv, MirrorInv', TrackedSteps,
         at' \notin {"call", "called", "abort"}
  PROVE  EndedInv'
<1>1. PICK new, ended : Handler(new, ended) /\ Tracked(new, ended)
  BY Zenon DEF TrackedSteps
<1>2. Effect(new, ended) /\ at' \notin Outer
  BY <1>1, Zenon DEF Handler
<1>3. /\ ended \subseteq HeldStates \cup new \cup {s \in states : removedStates[s] = 0}
      /\ HeldStates' \subseteq (HeldStates \cup new) \ ended
      /\ forks' - pending' = forks - pending + Cardinality(new)
  BY <1>1, Zenon DEF Tracked
<1>4. /\ new \subseteq State /\ new \cap states = {} /\ states \subseteq State
      /\ removedStates \in [State -> Nat] /\ \A s \in State : removedStates[s] # 0 => s \in states
      /\ removedStates' = [s \in State |-> removedStates[s] + IF s \in ended \cap states THEN 1 ELSE 0]
  BY <1>2 DEF Effect, Free, live, MirrorInv, StatesInv, Consistent
<1>5. /\ \A s \in State : removedStates[s] \in {0, 1}
      /\ \A s \in HeldStates : removedStates[s] = 0
      /\ 1 + forks = Cardinality(live) + pathsExplored - Cardinality(removed) + pending
  BY Zenon DEF EndedInv
<1>6. \A s \in ended \cap states : removedStates[s] = 0
  BY Zenon, <1>3, <1>4, <1>5
<1>7. \A s \in State : removedStates'[s] \in {0, 1}
  BY <1>4, <1>5, <1>6
<1>8. \A s \in HeldStates' : removedStates'[s] = 0
  <2>1. HeldStates' \subseteq State
    BY Zenon DEF MirrorInv, LocalInv, HeldInv, StatesInv, Consistent, live
  <2>2. ASSUME NEW s \in HeldStates' PROVE removedStates[s] = 0 /\ s \notin ended /\ s \in State
    BY <1>3, <1>4, <1>5, <2>1
  <2>3. QED
    BY <1>4, <2>2
<1>9. 1 + forks' = Cardinality(live') + pathsExplored' - Cardinality(removed') + pending'
  <2>. DEFINE x == Cardinality(live) + pathsExplored - Cardinality(removed)
              y == Cardinality(live') + pathsExplored' - Cardinality(removed')
              n == Cardinality(new)
              f == forks
              g == forks'
              p == pending
              q == pending'
  <2>1. f \in Nat /\ g \in Nat /\ p \in Nat /\ q \in Nat /\ pathsExplored \in Nat /\ pathsExplored' \in Nat
    <3>1. forks \in Nat /\ forks' \in Nat /\ todo \in Nat /\ todo' \in Nat
      BY Zenon DEF MirrorInv, RestInv, LocalInv, HeldInv, Shape
    <3>2. pending \in Nat /\ pending' \in Nat
      BY Zenon, <3>1 DEF pending
    <3>3. QED
      BY <3>1, <3>2 DEF MirrorInv, RestInv
  <2>2. /\ y = x + n
        /\ Cardinality(live') \in Nat /\ Cardinality(removed') \in Nat
        /\ Cardinality(live) \in Nat /\ Cardinality(removed) \in Nat /\ n \in Nat
    BY <1>2, <1>6, PathsCounted, Zenon
  <2>3. x \in Int /\ y \in Int
    BY <2>1, <2>2
  <2>4. 1 + f = x + p /\ g - q = f - p + n
    BY <1>3, <1>5, Zenon
  <2>. HIDE DEF x, y, n, f, g, p, q
  <2>5. 1 + g = y + q
    BY <2>1, <2>2, <2>3, <2>4
  <2>6. QED
    BY <2>5, Zenon DEF x, y, n, f, g, p, q
<1>10. at' # "done"
  BY Zenon, <1>2 DEF Outer
<1>11. QED
  BY <1>7, <1>8, <1>9, <1>10, Zenon DEF EndedInv

\* Between instructions no state waits to be removed.
LEMMA NothingRemoved ==
  ASSUME MirrorInv, at \in Outer \cup {"execute"}
  PROVE  removed = {} /\ live = states /\ Cardinality(removed) = 0 /\ pending = 0
<1>1. /\ addedStates = {} /\ \A s \in State : removedStates[s] = 0
  BY Zenon DEF MirrorInv, LocalInv
<1>2. removed = {} /\ live = states
  BY <1>1 DEF removed, live
<1>3. pending = 0
  BY Zenon DEF pending, Outer
<1>4. QED
  BY <1>2, <1>3, FS_EmptySet, Zenon

\* updateStates: no assertion of it, and none of the searcher's, fails.
LEMMA UpdateAllowed ==
  ASSUME MirrorInv, EndedInv, at = "update"
  PROVE  updateAsserts /\ removed \subseteq live
<1>1. /\ \A s \in State : removedStates[s] # 0 => s \in states
      /\ states \subseteq live /\ removedStates \in [State -> Nat]
  BY Zenon DEF MirrorInv, StatesInv, Consistent, live
<1>2. \A s \in removed : s \in states /\ removedStates[s] = 1
  BY <1>1 DEF removed, EndedInv
<1>3. ASSUME searcher PROVE updateValid(current, addedStates, removedStates)
  <2>1. /\ {e \in queue : e[2] # current} = {<<rank[s], s>> : s \in states \ {current}}
        /\ current # None => Queued(current)
    BY Zenon, <1>3 DEF MirrorInv, QueueInv
  <2>2. current # None
    BY StatesAssumption DEF MirrorInv, LocalInv, Outer, StatesInv, Consistent
  <2>3. ASSUME NEW s \in states PROVE Queued(s)
    <3>1. CASE s = current
      BY Zenon, <2>1, <2>2, <3>1
    <3>2. CASE s # current
      <4>1. <<rank[s], s>> \in {e \in queue : e[2] # current}
        BY Zenon, <2>1, <3>2
      <4>2. QED
        BY Zenon, <4>1 DEF Queued
    <3>3. QED
      BY Zenon, <3>1, <3>2
  <2>4. QED
    BY Zenon, <1>2, <2>1, <2>3 DEF updateValid, removed
<1>4. QED
  BY <1>1, <1>2, <1>3 DEF updateAsserts

\* updateStates turns the pending ends into deleted states.
LEMMA EndedUpdate ==
  ASSUME MirrorInv, EndedInv, MirrorInv', options' = options, updateStates
  PROVE  EndedInv'
<1>1. at = "update"
  BY Zenon DEF updateStates, At
<1>2. updateAsserts /\ removed \subseteq live
  BY Zenon, <1>1, UpdateAllowed
<1>3. /\ at' \in {"select", "seeding"} /\ forks' = forks /\ pathsExplored' = pathsExplored
      /\ removedStates' = [s \in State |-> 0]
  BY <1>2, Zenon DEF updateStates, Goto
<1>4. live' = live \ removed
  BY <1>2, UpdateStates, Zenon
<1>5. /\ Cardinality(removed') = 0 /\ pending' = 0 /\ HeldStates' = {}
  <2>1. at' \in Outer
    BY Zenon, <1>3 DEF Outer
  <2>2. removed' = {}
    BY <1>3 DEF removed
  <2>3. first' = None /\ second' = None /\ result' = {}
    BY Zenon, <1>3 DEF MirrorInv, LocalInv, HeldInv, Shape
  <2>4. QED
    BY <1>3, <2>2, <2>3, FS_EmptySet DEF pending, HeldStates
<1>6. Cardinality(live') = Cardinality(live) - Cardinality(removed)
      /\ Cardinality(live) \in Nat /\ Cardinality(removed) \in Nat
  <2>1. live \subseteq State
    BY Zenon DEF live, MirrorInv, StatesInv, Consistent
  <2>2. IsFiniteSet(live) /\ IsFiniteSet(removed)
    BY <1>2, <2>1, StatesAssumption, FS_Subset, Zenon
  <2>3. live \cap removed = removed
    BY Zenon, <1>2
  <2>4. Cardinality(live \ removed) = Cardinality(live) - Cardinality(live \cap removed)
    BY <2>2, FS_Difference, Zenon
  <2>5. QED
    BY <1>4, <2>2, <2>3, <2>4, FS_CardinalityType, Zenon
<1>7. 1 + forks = Cardinality(live) + pathsExplored - Cardinality(removed) + pending
  BY Zenon DEF EndedInv
<1>8. pending = 0 /\ pathsExplored \in Nat
  BY Zenon, <1>1 DEF pending, MirrorInv, RestInv
<1>9. 1 + forks' = Cardinality(live') + pathsExplored' - Cardinality(removed') + pending'
  BY <1>3, <1>5, <1>6, <1>7, <1>8
<1>10. \A s \in State : removedStates'[s] = 0
  BY Zenon, <1>3
<1>11. at' \notin {"call", "called", "abort", "done"}
  BY Zenon, <1>3
<1>12. QED
  BY <1>5, <1>9, <1>10, <1>11, Zenon DEF EndedInv

\* The loops around the instructions add and end nothing.
LEMMA EndedLoop ==
  ASSUME MirrorInv, EndedInv, MirrorInv', options' = options,
         seed \/ select \/ seedingDone \/ halt
  PROVE  EndedInv'
<1>1. /\ at \in {"seeding", "select"} /\ at' \in {"execute", "halt", "select"}
      /\ UNCHANGED <<states, addedStates, removedStates, forks, pathsExplored>>
  BY Zenon DEF seed, select, seedingDone, halt, step, At, Goto, treeVars
<1>2. Cardinality(removed) = 0 /\ pending = 0
  BY <1>1, NothingRemoved DEF Outer
<1>3. \A s \in State : removedStates'[s] = 0
  BY Zenon, <1>1 DEF MirrorInv, LocalInv, Outer
<1>4. HeldStates' \subseteq State
  BY Zenon DEF MirrorInv, LocalInv, HeldInv, StatesInv, Consistent, live
<1>5. live' = live /\ removed' = removed /\ pending' = 0
  BY Zenon, <1>1 DEF live, removed, pending
<1>6. 1 + forks' = Cardinality(live') + pathsExplored' - Cardinality(removed') + pending'
  BY <1>1, <1>2, <1>5, Zenon DEF EndedInv
<1>7. at' \notin {"call", "called", "abort", "done"}
  BY Zenon, <1>1
<1>8. \A s \in HeldStates' : removedStates'[s] = 0
  BY Zenon, <1>3, <1>4
<1>9. QED
  BY <1>3, <1>6, <1>7, <1>8, Zenon DEF EndedInv

\* doDumpStates counts one path for each state that is left.
LEMMA EndedDump ==
  ASSUME MirrorInv, EndedInv, MirrorInv', options' = options, doDumpStates
  PROVE  EndedInv'
<1>1. /\ at = "halt" /\ at' = "done" /\ UNCHANGED <<removedStates, addedStates, forks>>
      /\ DumpStatesOnHalt' = DumpStatesOnHalt
  BY Zenon DEF doDumpStates, At, Goto, treeVars, DumpStatesOnHalt
<1>2. live = states /\ Cardinality(removed) = 0 /\ pending = 0
  BY <1>1, NothingRemoved DEF Outer
<1>3. /\ live' = states' /\ Cardinality(removed') = 0 /\ pending' = 0
      /\ (\A s \in State : removedStates'[s] = 0)
      /\ first' = None /\ second' = None /\ result' = {}
  <2>1. at' \in Outer
    BY Zenon, <1>1 DEF Outer
  <2>2. live' = states' /\ removed' = {} /\ (\A s \in State : removedStates'[s] = 0)
    <3>1. addedStates' = {} /\ \A s \in State : removedStates'[s] = 0
      BY <2>1, Zenon DEF MirrorInv, LocalInv
    <3>2. live' = states'
      BY Zenon, <3>1 DEF live
    <3>3. removed' = {}
      BY <3>1 DEF removed
    <3>4. QED
      BY <3>1, <3>2, <3>3, Zenon
  <2>3. QED
    BY <1>1, <2>2, FS_EmptySet DEF pending, MirrorInv, LocalInv, HeldInv, Shape
<1>4. HeldStates' = {}
  BY Zenon, <1>1, <1>3 DEF HeldStates
<1>5. 1 + forks = Cardinality(states) + pathsExplored - 0 + 0
  BY <1>2, Zenon DEF EndedInv
<1>6. Cardinality(states) \in Nat /\ pathsExplored \in Nat
  <2>1. states \subseteq State
    BY Zenon DEF MirrorInv, StatesInv, Consistent
  <2>2. QED
    BY <2>1, StatesAssumption, FS_Subset, FS_CardinalityType, Zenon DEF MirrorInv, RestInv
<1>7. Cardinality(states') + pathsExplored' = Cardinality(states) + pathsExplored
      /\ Cardinality(states') \in Nat /\ pathsExplored' \in Nat
  <2>1. CASE DumpStatesOnHalt
    <3>1. live' = {} /\ pathsExplored' = pathsExplored + Cardinality(states)
      BY <2>1, DumpedStates, Zenon
    <3>2. Cardinality(states') = 0
      BY <1>3, <3>1, FS_EmptySet, Zenon
    <3>3. QED
      BY <1>6, <3>1, <3>2
  <2>2. CASE ~DumpStatesOnHalt
    <3>1. states' = states /\ pathsExplored' = pathsExplored
      BY <2>2, Zenon DEF doDumpStates, treeVars
    <3>2. QED
      BY <1>6, <3>1, Zenon
  <2>3. QED
    BY Zenon, <2>1, <2>2
<1>8. 1 + forks' = Cardinality(live') + pathsExplored' - Cardinality(removed') + pending'
  <2>1. 1 + forks' = Cardinality(states') + pathsExplored' - 0 + 0
    BY <1>1, <1>5, <1>6, <1>7
  <2>2. QED
    BY <1>3, <2>1, Zenon
<1>9. DumpStatesOnHalt' => states' = {}
  BY <1>1, Zenon DEF doDumpStates
<1>10. at' \notin {"call", "called", "abort"}
  BY Zenon, <1>1
<1>11. QED
  BY <1>3, <1>4, <1>8, <1>9, <1>10, Zenon DEF EndedInv

\* A halt changes none of the counted state.
LEMMA EndedStutter ==
  ASSUME EndedInv, options' = options,
         UNCHANGED <<at, current, forks, treeVars, states, localVars>>
  PROVE  EndedInv'
<1>1. /\ UNCHANGED <<at, current, forks, states, addedStates, removedStates, pathsExplored>>
      /\ UNCHANGED <<first, second, result, todo>>
  BY Zenon DEF treeVars, localVars
<1>2. live' = live /\ removed' = removed /\ pending' = pending /\ HeldStates' = HeldStates
      /\ DumpStatesOnHalt' = DumpStatesOnHalt
  BY <1>1, Zenon DEF live, removed, pending, HeldStates, DumpStatesOnHalt
<1>3. QED
  BY <1>1, <1>2, Zenon DEF EndedInv

\* The run starts with one state and no fork.
LEMMA EndedInit == Init => EndedInv
<1>. SUFFICES ASSUME Init PROVE EndedInv
  BY Zenon
<1>1. PICK s \in State : states = {s}
  BY Zenon DEF Init
<1>2. /\ addedStates = {} /\ removedStates = [x \in State |-> 0] /\ at = "seeding"
      /\ forks = 0 /\ pathsExplored = 0 /\ first = None /\ second = None /\ result = {}
  BY Zenon DEF Init
<1>3. live = {s} /\ removed = {} /\ pending = 0 /\ HeldStates = {}
  BY <1>1, <1>2 DEF live, removed, pending, HeldStates
<1>4. Cardinality(live) = 1 /\ Cardinality(removed) = 0
  BY <1>3, FS_EmptySet, FS_Singleton, Zenon
<1>5. 1 + forks = Cardinality(live) + pathsExplored - Cardinality(removed) + pending
  BY <1>2, <1>3, <1>4
<1>6. QED
  BY <1>2, <1>3, <1>5 DEF EndedInv

\* The states that ended are in removedStates once; every fork has made a state that is still
\* there or whose end has been counted.
THEOREM EndsAreCounted ==
  ASSUME Calm
  PROVE  Spec => [](MirrorInv /\ EndedInv)
<1>1. MirrorInv /\ MirrorInv' /\ EndedInv /\ [Next]_vars => EndedInv'
  <2>. SUFFICES ASSUME MirrorInv, MirrorInv', EndedInv, [Next]_vars PROVE EndedInv'
    BY Zenon
  <2>1. CASE UNCHANGED vars
    BY Zenon, <2>1, EndedStutter DEF vars, runVars, loopVars
  <2>2. CASE Next
    <3>1. options' = options /\ (run \/ halt_execution)
      BY Zenon, <2>2 DEF Next
    <3>2. at \notin {"call", "called"} /\ ~SymbolicCalls
      BY Zenon, CalmOptions DEF EndedInv
    <3>3. CASE executeInstruction \/ processTimers \/ checkMemoryUsage
      <4>1. TrackedSteps
        BY <3>1, <3>2, <3>3, InstructionTracked
      <4>2. at' \notin {"call", "called", "abort"}
        <5>1. executeInstruction => at' \notin {"call", "called", "abort"}
          BY <3>2, InstructionNext, Zenon
        <5>2. processTimers \/ checkMemoryUsage => at' = "memory" \/ at' = "update"
          BY Zenon DEF processTimers, checkMemoryUsage, Goto
        <5>3. QED
          BY <3>3, <5>1, <5>2
      <4>3. QED
        BY Zenon, <4>1, <4>2, EndedHandler
    <3>4. seed \/ select \/ seedingDone \/ halt => EndedInv'
      BY <3>1, EndedLoop, Zenon
    <3>5. (updateStates => EndedInv') /\ (doDumpStates => EndedInv')
      BY <3>1, EndedUpdate, EndedDump, Zenon
    <3>6. CASE halt_execution
      BY <3>1, <3>6, EndedStutter DEF halt_execution, loopVars
    <3>7. QED
      BY <3>1, <3>3, <3>4, <3>5, <3>6, Zenon DEF run
  <2>3. QED
    BY Zenon, <2>1, <2>2
<1>2. QED
  BY <1>1, EndedInit, Invariance, PTL DEF Spec

\* Executor::updateStates and CastanSearcher::update: none of their assertions on the states
\* to add and to remove fails.
THEOREM NeverAborts ==
  ASSUME Calm
  PROVE  Spec => []NoAbort
<1>1. EndedInv => NoAbort
  BY Zenon DEF EndedInv, NoAbort
<1>2. QED
  BY <1>1, EndsAreCounted, PTL

\* Between two instructions every path that fork and branch made is still being explored or
\* has been counted by InterpreterHandler::incPathsExplored, none twice.
THEOREM EveryPathIsAccounted ==
  ASSUME Calm
  PROVE  Spec => []PathsAccounted
<1>1. MirrorInv /\ EndedInv => PathsAccounted
  <2>. SUFFICES ASSUME MirrorInv, EndedInv, Quiescent
                PROVE  1 + forks = Cardinality(states) + pathsExplored
    BY Zenon DEF PathsAccounted
  <2>1. live = states /\ Cardinality(removed) = 0 /\ pending = 0
    BY Zenon, NothingRemoved DEF Quiescent, Outer
  <2>2. 1 + forks = Cardinality(states) + pathsExplored - 0 + 0
    BY <2>1, Zenon DEF EndedInv
  <2>3. Cardinality(states) \in Nat /\ pathsExplored \in Nat
    <3>1. states \subseteq State
      BY Zenon DEF MirrorInv, StatesInv, Consistent
    <3>2. QED
      BY <3>1, StatesAssumption, FS_Subset, FS_CardinalityType, Zenon DEF MirrorInv, RestInv
  <2>4. QED
    BY <2>2, <2>3
<1>2. QED
  BY <1>1, EndsAreCounted, PTL

\* Executor::run: no handler uses a deleted state, and when the states that are left are
\* dumped no state, node or seed outlives the run and every path has been counted.
THEOREM StatesAreReleased ==
  ASSUME Calm
  PROVE  Spec => []StatesReleasedInTime
<1>1. MirrorInv /\ EndedInv /\ PathsAccounted => NothingLeft
  <2>. SUFFICES ASSUME MirrorInv, EndedInv, PathsAccounted, at = "done", DumpStatesOnHalt
                PROVE  states = {} /\ processTree = {} /\ seedMap = <<>> /\ pathsExplored = 1 + forks
    BY Zenon DEF NothingLeft, At
  <2>1. states = {} /\ live = {}
    BY Zenon, NothingRemoved DEF EndedInv, Outer
  <2>2. processTree = {}
    BY Zenon, <2>1 DEF MirrorInv, StatesInv, Consistent, live
  <2>3. seedMap = <<>>
    <3>1. seedMap \in [DOMAIN seedMap -> SUBSET Seeds] /\ DOMAIN seedMap = {}
      BY <2>1, Zenon DEF MirrorInv, SeedsInv, SeedsOK
    <3>2. QED
      BY <3>1
  <2>4. Cardinality(states) = 0 /\ pathsExplored \in Nat
    BY <2>1, FS_EmptySet, Zenon DEF MirrorInv, RestInv
  <2>5. 1 + forks = 0 + pathsExplored
    BY <2>4, Zenon DEF PathsAccounted, Quiescent
  <2>6. pathsExplored = 1 + forks
    BY <2>4, <2>5
  <2>7. QED
    BY <2>1, <2>2, <2>3, <2>6
<1>2. NoneDangling /\ NothingLeft => StatesReleasedInTime
  BY Zenon DEF StatesReleasedInTime
<1>3. QED
  BY <1>1, <1>2, EndsAreCounted, EveryPathIsAccounted, NoStateDangles, PTL

\* Executor::fork, branch: no state is made as the copy of one that terminateState has ended
\* in the same instruction.
THEOREM EndedStatesNeverFork ==
  ASSUME Calm
  PROVE  Spec => EndedNeverForks
<1>. DEFINE Good == \A f \in addedStates' \ addedStates : \A s \in live :
                      ptreeNode'[f] = Left(ptreeNode[s]) => removedStates[s] = 0
<1>1. MirrorInv /\ EndedInv /\ [Next]_vars => [Good]_vars
  <2>. SUFFICES ASSUME MirrorInv, EndedInv, Next PROVE Good
    BY Zenon
  <2>1. options' = options /\ (run \/ halt_execution)
    BY Zenon DEF Next
  <2>2. CASE executeInstruction \/ processTimers \/ checkMemoryUsage
    <3>. SUFFICES ASSUME NEW f \in addedStates' \ addedStates, NEW s \in live,
                         ptreeNode'[f] = Left(ptreeNode[s])
                  PROVE  removedStates[s] = 0
      BY Zenon DEF Good
    <3>1. at # "called"
      BY Zenon DEF EndedInv
    <3>2. PICK new, ended : Handler(new, ended) /\ Tracked(new, ended)
      BY <2>1, <2>2, <3>1, InstructionTracked, Zenon DEF TrackedSteps
    <3>3. f \in new \cap live'
      BY Zenon, <3>2 DEF Handler, Effect, live
    <3>4. PICK p \in HeldStates : ptreeNode'[f] = Left(ptreeNode[p])
      BY <3>2, <3>3, Zenon DEF Tracked
    <3>5. p \in live
      BY Zenon DEF MirrorInv, LocalInv, HeldInv
    <3>6. ptreeNode[p] \in Node /\ ptreeNode[s] \in Node /\ (ptreeNode[s] = ptreeNode[p] => s = p)
      BY Zenon, <3>5 DEF MirrorInv, StatesInv, Consistent, TreeClosed, live, Node
    <3>7. s = p
      BY <3>4, <3>6, ChildrenDiffer, Zenon
    <3>8. QED
      BY Zenon, <3>7 DEF EndedInv
  <2>3. CASE ~(executeInstruction \/ processTimers \/ checkMemoryUsage)
    <3>1. addedStates' = addedStates \/ addedStates' = {}
      BY <2>1, <2>3, Zenon DEF run, seed, select, step, seedingDone, halt, updateStates,
         doDumpStates, halt_execution, treeVars
    <3>2. QED
      BY Zenon, <3>1
  <2>4. QED
    BY Zenon, <2>2, <2>3
<1>2. QED
  BY <1>1, EndsAreCounted, PTL DEF Spec, EndedNeverForks

=============================================================================

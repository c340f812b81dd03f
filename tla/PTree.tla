------------------------------- MODULE PTree -------------------------------
(***************************************************************************)
(* The process tree: the binary tree of forks whose leaves are the         *)
(* execution states.  A node is the sequence of turns that leads to it     *)
(* from the root, so parent, left and right need no pointers.              *)
(***************************************************************************)
EXTENDS Naturals, Sequences

Root == <<>>
Left(n) == Append(n, "l")
Right(n) == Append(n, "r")

Leaves(nodes) == {n \in nodes : Left(n) \notin nodes /\ Right(n) \notin nodes}

\* A leaf gets two children.
split(nodes, n) == nodes \cup {Left(n), Right(n)}

\* n is m or is reached from it.
IsAncestor(m, n) == Len(m) <= Len(n) /\ \A i \in 1..Len(m) : m[i] = n[i]

\* The leaves K go, and with them every ancestor left without a leaf.
remove(nodes, K) ==
    nodes \ {n \in nodes : \A l \in Leaves(nodes) : IsAncestor(n, l) => l \in K}
=============================================================================

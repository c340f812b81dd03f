----------------------------- MODULE OrderedMap -----------------------------
(***************************************************************************)
(* What st.c promises: a map that remembers in which order its keys came.  *)
(***************************************************************************)
EXTENDS Integers, Sequences, SequencesExt, FiniteSetsExt

VARIABLE pairs             \* the entries <<key, record>>, oldest first

Has(k) == \E i \in DOMAIN pairs : pairs[i][1] = k
At(k) == CHOOSE i \in DOMAIN pairs : pairs[i][1] = k
Record(k) == IF Has(k) THEN <<pairs[At(k)][2]>> ELSE << >>
Without(keys) == SelectSeq(pairs, LAMBDA p : p[1] \notin keys)

Init == pairs = << >>

Insert(k, v) ==
  pairs' = IF Has(k) THEN [pairs EXCEPT ![At(k)] = <<k, v>>] ELSE Append(pairs, <<k, v>>)
Delete(k) == pairs' = Without({k})
Shift == pairs' = IF pairs = << >> THEN pairs ELSE Tail(pairs)
Clear == pairs' = << >>

\* The callback is shown the entries in order, up to the first it stops at.
Foreach(deletes, stops) ==
  LET ends == {i \in DOMAIN pairs : pairs[i][1] \in stops}
      shown == IF ends = {} THEN DOMAIN pairs ELSE 1..(Min(ends) - 1)
  IN  pairs' = Without(deletes \cap {pairs[i][1] : i \in shown})
==============================================================================

--------------------------- MODULE CastanSearcher ---------------------------
(***************************************************************************)
(* The queue of castan::CastanSearcher: a set of (priority, state) pairs   *)
(* ordered by priority.  A priority is stored when a state is inserted, so *)
(* it has to be replaced whenever the state's own priority changes.        *)
(* Priorities are ranks of the vectors that getPriority returns.           *)
(***************************************************************************)
EXTENDS Naturals, FiniteSets

CONSTANTS
    State, \* the addresses an ExecutionState can have
    Rank,  \* the ranks of the priorities, a set of naturals
    None   \* the null pointer

VARIABLE
    queue  \* CastanSearcher::states

Queued(s) == \E e \in queue : e[2] = s

\* The last pair of the ordered set; states of equal priority are ordered by
\* their addresses, which the allocator chooses.
selectState(s) == \E e \in queue : e[2] = s /\ \A f \in queue : f[1] <= e[1]

\* Mutant: current keeps the priority it had before its instruction.
updateKeepsCurrent(current, added, removed, getPriority) ==
    queue' = {e \in queue \cup {<<getPriority[s], s>> : s \in added} :
                 removed[e[2]] = 0}

\* Mutant: current is erased under the priority it has now.
updateErasesByPriority(current, added, removed, getPriority) ==
    LET others == {e \in queue : e[2] # current \/ e[1] # getPriority[current]}
        new    == added \cup ({current} \ {None})
    IN  queue' = {e \in others \cup {<<getPriority[s], s>> : s \in new} :
                     removed[e[2]] = 0}

\* removed counts how often each state was removed.
update(current, added, removed, getPriority) ==
    LET others == {e \in queue : e[2] # current}
        new    == added \cup ({current} \ {None})
    IN  queue' = {e \in others \cup {<<getPriority[s], s>> : s \in new} :
                     removed[e[2]] = 0}

\* The assertions "invalid current state" and "invalid state removed" hold.
updateValid(current, added, removed) ==
    /\ current # None => Queued(current)
    /\ \A s \in State : removed[s] > 0 => /\ removed[s] = 1
                                          /\ Queued(s) \/ s \in added
=============================================================================

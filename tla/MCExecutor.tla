----------------------------- MODULE MCExecutor -----------------------------
(* Instances of Executor for TLC. *)
EXTENDS Executor, TLC

CONSTANTS s1, s2, s3, s4

States3 == {s1, s2, s3}
States4 == {s1, s2, s3, s4}
Addresses3 == Permutations(States3)
Addresses4 == Permutations(States4)
OneRank == {0}
TwoRanks == {0, 1}

\* No seeds, no limits but those on time, and a program that stays clear of
\* the handlers that end a state twice.
Searching ==
    [seeds |-> {}, maxForks |-> 3, maxDepth |-> 0, maxMemory |-> FALSE,
     maxMemoryInhibit |-> TRUE, onlyReplaySeeds |-> FALSE, onlySeed |-> FALSE,
     dumpStatesOnHalt |-> TRUE, seedTime |-> FALSE, maxInstructionTime |-> TRUE,
     maxSolverTime |-> TRUE, terminateOnUnsat |-> FALSE, memoryHeavy |-> FALSE,
     symbolicCalls |-> FALSE]
SearchOptions == {Searching}

Seeding == [Searching EXCEPT !.seeds = {1, 2}, !.maxForks = 2]
Limited ==
    [Searching EXCEPT !.maxForks = 2, !.maxDepth = 2, !.maxMemory = TRUE,
                      !.dumpStatesOnHalt = FALSE, !.terminateOnUnsat = TRUE,
                      !.memoryHeavy = TRUE, !.symbolicCalls = TRUE]

\* Seeds with the search after them, seeds under a time limit, seeds alone, and
\* every limit there is on a program that meets them.
ManyOptions ==
    {[Seeding EXCEPT !.seedTime = TRUE],
     [Seeding EXCEPT !.onlyReplaySeeds = TRUE, !.onlySeed = TRUE, !.maxForks = 1],
     Limited}

MemoryOptions == {[Searching EXCEPT !.maxForks = 2, !.maxMemory = TRUE, !.memoryHeavy = TRUE]}
UnsatOptions == {[Searching EXCEPT !.maxForks = 2, !.terminateOnUnsat = TRUE]}
=============================================================================

------------------------------ MODULE Executor ------------------------------
(***************************************************************************)
(* The life of execution states in klee::Executor: the run loop selects a  *)
(* state, executes one instruction of it, which forks and terminates       *)
(* states, and then applies the additions and removals to the set of       *)
(* states, to the searcher and to the process tree.                        *)
(*                                                                         *)
(* An ExecutionState is its address, and a deleted state's address can be  *)
(* allocated again.  The variable at is the place in the run loop; the     *)
(* loops inside an instruction's handler (resolve, branch) take one step   *)
(* per iteration.  The solver's answers, the clock and the memory use are  *)
(* not determined by this state and are chosen freely.                     *)
(***************************************************************************)
EXTENDS Integers, FiniteSets, Sequences, Functions, CastanSearcher, PTree

CONSTANTS
    Options,    \* the settings of the options below that are considered
    ForkBound,  \* bound: forks
    MaxTargets  \* bound: switch targets, objects a pointer resolves to

VARIABLES
    options,       \* the command line, and what to expect of the program
    at,            \* where the run loop is
    current,       \* the state whose instruction is executed
    lastState,     \* of the seeding loop
    states, addedStates,
    removedStates, \* how often each state occurs in the vector
    seedMap,       \* [states with seeds -> their seeds]
    processTree, ptreeNode,
    rank,          \* getPriority of each state
    searcher,      \* the searcher has been constructed
    haltExecution, atMemoryLimit,
    forks, pathsExplored,
    first, second, \* the StatePair of the last fork; second is also unbound
    result, todo,  \* of branch and resolveExact; iterations left
    hasInvalid     \* of a call: an invalid function pointer was seen

treeVars == <<addedStates, removedStates, seedMap, processTree, ptreeNode, rank,
              pathsExplored>>
loopVars == <<current, lastState, states, queue, searcher, atMemoryLimit>>
localVars == <<first, second, result, todo, hasInvalid>>
runVars == <<at, haltExecution, forks, treeVars, loopVars, localVars>>
vars == <<options, runVars>>

Seeds == options.seeds \* usingSeeds
MaxForks == options.maxForks
MaxDepth == options.maxDepth \* 0: off
MaxMemory == options.maxMemory \* a memory cap is set
MaxMemoryInhibit == options.maxMemoryInhibit
OnlyReplaySeeds == options.onlyReplaySeeds
OnlySeed == options.onlySeed
DumpStatesOnHalt == options.dumpStatesOnHalt
SeedTime == options.seedTime \* a time limit is set, as for the next two
MaxInstructionTime == options.maxInstructionTime
CoreSolverTimeout == options.maxSolverTime \/ options.maxInstructionTime
TerminateOnUNSAT == options.terminateOnUnsat
MemoryHeavy == options.memoryHeavy \* memory use can exceed the cap by 100 MB
SymbolicCalls == options.symbolicCalls \* the program calls symbolic pointers

ASSUME BoundsAssumption == {ForkBound, MaxTargets} \subseteq Nat
ASSUME OptionsAssumption ==
    \A o \in Options : o.maxForks \in Nat /\ o.maxDepth \in Nat
ASSUME StatesAssumption == None \notin State /\ IsFiniteSet(State) /\ Rank \subseteq Nat

live == states \cup addedStates
Free == State \ live
isSeeding(s) == s \in DOMAIN seedMap
SeedsOf(s) == IF isSeeding(s) THEN seedMap[s] ELSE {}
depth(s) == Len(ptreeNode[s])
Forget(f, K) == Restrict(f, DOMAIN f \ K)

-----------------------------------------------------------------------------
(* terminateState *)

\* Mutant: the deleted states stay in seedMap.
endStatesStaySeeded(K, added, seeds, nodes, nodeOf, ranks) ==
    /\ addedStates' = added \ K
    /\ removedStates' = [s \in State |->
            removedStates[s] + (IF s \in K \ added THEN 1 ELSE 0)]
    /\ seedMap' = seeds
    /\ processTree' = remove(nodes, {nodeOf[s] : s \in K \cap added})
    /\ ptreeNode' = Forget(nodeOf, K \cap added)
    /\ rank' = Forget(ranks, K \cap added)
    /\ pathsExplored' = pathsExplored + Cardinality(K)

\* The states K end.  A state that has not reached the searcher is deleted,
\* any other one waits in removedStates.  The arguments are the values that
\* the caller has given the variables so far.
endStates(K, added, seeds, nodes, nodeOf, ranks) ==
    LET gone == K \cap added
    IN  /\ addedStates' = added \ gone
        /\ removedStates' = [s \in State |->
                removedStates[s] + (IF s \in K \ added THEN 1 ELSE 0)]
        /\ seedMap' = Forget(seeds, gone)
        /\ processTree' = remove(nodes, {nodeOf[s] : s \in gone})
        /\ ptreeNode' = Forget(nodeOf, gone)
        /\ rank' = Forget(ranks, gone)
        /\ pathsExplored' = pathsExplored + Cardinality(K)

terminateState(s) ==
    endStates({s}, addedStates, seedMap, processTree, ptreeNode, rank)

\* --exit-on-error-type may stop the execution as well.
terminateStateOnError(s) ==
    /\ terminateState(s)
    /\ haltExecution' \in {haltExecution, TRUE}

-----------------------------------------------------------------------------
(* fork *)

\* The handler of an instruction goes on at `back`, or is done.
StatePair(a, b, back) ==
    /\ at' = back
    /\ first' = IF back = "timers" THEN None ELSE a
    /\ second' = IF back = "timers" THEN None ELSE b

forkTimeout(s, back) ==
    /\ CoreSolverTimeout
    /\ terminateState(s)
    /\ StatePair(None, None, back)
    /\ UNCHANGED forks

\* One side is infeasible, or forking is inhibited and one side was picked.
forkOneSide(s, back) ==
    /\ StatePair(s, None, back) \/ StatePair(None, s, back)
    /\ UNCHANGED <<treeVars, forks>>

\* The seeds of s go to the side they satisfy: T follow s, the others f.
splitSeeds(s, f, T) ==
    LET F    == SeedsOf(s) \ T
        keys == (DOMAIN seedMap \ {s}) \cup (IF T = {} THEN {} ELSE {s})
                                       \cup (IF F = {} THEN {} ELSE {f})
    IN  [x \in keys |-> IF x = s THEN T ELSE IF x = f THEN F ELSE seedMap[x]]

mayForkBoth(s) ==
    ~isSeeding(s) => forks < MaxForks /\ ~(MaxMemoryInhibit /\ atMemoryLimit)

\* Mutant: the states that max-depth ended are returned to the caller.
forkedPairEnded(s, f, tooDeep, back) == StatePair(s, f, back)

\* The states that max-depth ended are not returned.
forkedPair(s, f, tooDeep, back) ==
    IF tooDeep THEN StatePair(None, None, back) ELSE StatePair(s, f, back)

forkBoth(s, back) ==
    /\ forks < ForkBound /\ mayForkBoth(s)
    /\ \E f \in Free, r \in Rank, T \in SUBSET SeedsOf(s) :
         LET nodeOf == [x \in live \cup {f} |->
                            IF x = f THEN Left(ptreeNode[s])
                            ELSE IF x = s THEN Right(ptreeNode[s]) ELSE ptreeNode[x]]
             ranks  == [x \in live \cup {f} |-> IF x = f THEN r ELSE rank[x]]
             tooDeep == MaxDepth # 0 /\ MaxDepth <= depth(s) + 1
         IN  /\ isSeeding(s) /\ OnlyReplaySeeds => T # {} /\ T # SeedsOf(s)
             /\ endStates(IF tooDeep THEN {s, f} ELSE {}, addedStates \cup {f},
                          splitSeeds(s, f, T), split(processTree, ptreeNode[s]),
                          nodeOf, ranks)
             /\ forkedPair(s, f, tooDeep, back)
    /\ forks' = forks + 1

fork(s, back) == forkTimeout(s, back) \/ forkOneSide(s, back) \/ forkBoth(s, back)

-----------------------------------------------------------------------------
(* executeInstruction: what the handlers of the instructions do with states *)

At(place) == at = place
Goto(place) == at' = place

\* Instructions that neither fork nor terminate.
Plain ==
    /\ At("execute") /\ Goto("timers")
    /\ UNCHANGED <<haltExecution, forks, treeVars, loopVars, localVars>>

\* Return from the first frame, exit, the end of the last castan_loop.
Exit ==
    /\ At("execute") /\ Goto("timers")
    /\ terminateState(current)
    /\ UNCHANGED <<haltExecution, forks, loopVars, localVars>>

Error ==
    /\ At("execute") /\ Goto("timers")
    /\ terminateStateOnError(current)
    /\ UNCHANGED <<forks, loopVars, localVars>>

Br ==
    /\ At("execute")
    /\ fork(current, "timers")
    /\ UNCHANGED <<haltExecution, loopVars, result, todo, hasInvalid>>

\* Mutant: every target counts as a fork.
SwitchCountsAll ==
    /\ At("execute")
    /\ \E n \in 1..MaxTargets :
         /\ todo' = n - 1
         /\ IF forks >= MaxForks
            THEN Goto("branched") /\ UNCHANGED forks
            ELSE /\ forks + n - 1 <= ForkBound
                 /\ Goto(IF n = 1 THEN "branched" ELSE "branching")
                 /\ forks' = forks + n
    /\ result' = {current}
    /\ UNCHANGED <<haltExecution, treeVars, loopVars, first, second, hasInvalid>>

\* A switch (or a concretization under seeds) with n feasible targets.  Once
\* MaxForks is reached all targets but one are dropped.
Switch ==
    /\ At("execute")
    /\ \E n \in 1..MaxTargets :
         /\ todo' = n - 1
         /\ IF forks >= MaxForks
            THEN Goto("branched") /\ UNCHANGED forks
            ELSE /\ forks + n - 1 <= ForkBound
                 /\ Goto(IF n = 1 THEN "branched" ELSE "branching")
                 /\ forks' = forks + n - 1
    /\ result' = {current}
    /\ UNCHANGED <<haltExecution, treeVars, loopVars, first, second, hasInvalid>>

\* The loop of branch: one of the states made so far is copied.
branch ==
    /\ At("branching")
    /\ \E es \in result, ns \in Free, r \in Rank :
         /\ addedStates' = addedStates \cup {ns}
         /\ result' = result \cup {ns}
         /\ processTree' = split(processTree, ptreeNode[es])
         /\ ptreeNode' = [x \in live \cup {ns} |->
                IF x = ns THEN Left(ptreeNode[es])
                ELSE IF x = es THEN Right(ptreeNode[es]) ELSE ptreeNode[x]]
         /\ rank' = [x \in live \cup {ns} |-> IF x = ns THEN r ELSE rank[x]]
    /\ todo' = todo - 1
    /\ Goto(IF todo = 1 THEN "branched" ELSE "branching")
    /\ UNCHANGED <<haltExecution, forks, removedStates, seedMap, pathsExplored,
                   loopVars, first, second, hasInvalid>>

\* The targets that --only-replay-seeds discards.
unseeded(seeds) == IF OnlyReplaySeeds THEN result \ DOMAIN seeds ELSE {}

\* Each seed goes to the target it satisfies, or is lost with a dropped one.
redistribute ==
    /\ At("branched") /\ Goto("timers")
    /\ IF isSeeding(current)
       THEN \E to \in [seedMap[current] -> result \cup (IF todo > 0 THEN {None} ELSE {})] :
              LET keys  == (DOMAIN seedMap \ {current}) \cup (Range(to) \ {None})
                  seeds == [x \in keys |->
                              IF x \in result THEN {d \in DOMAIN to : to[d] = x}
                                              ELSE seedMap[x]]
              IN  endStates(unseeded(seeds), addedStates, seeds, processTree,
                            ptreeNode, rank)
       ELSE UNCHANGED treeVars
    /\ result' = {} /\ todo' = 0
    /\ UNCHANGED <<haltExecution, forks, loopVars, first, second, hasInvalid>>

\* executeAlloc with a symbolic size forks off the other sizes ...
Alloc ==
    /\ At("execute")
    /\ fork(current, "alloc")
    /\ UNCHANGED <<haltExecution, loopVars, result, todo, hasInvalid>>

\* ... which are one size, or huge ones and others; the others are an error.
allocOtherSizes ==
    /\ At("alloc")
    /\ \/ /\ StatePair(None, None, "timers")
          /\ UNCHANGED <<treeVars, forks>>
       \/ second # None /\ fork(second, "huge")
    /\ UNCHANGED <<haltExecution, loopVars, result, todo, hasInvalid>>

allocNotHuge ==
    /\ At("huge")
    /\ StatePair(None, None, "timers")
    /\ IF second # None THEN terminateStateOnError(second)
                        ELSE UNCHANGED <<treeVars, haltExecution>>
    /\ UNCHANGED <<forks, loopVars, result, todo, hasInvalid>>

\* A load or store consults the cache model first, which can end the state;
\* the handler does not notice.
Access ==
    /\ At("execute") /\ Goto("access")
    /\ \/ UNCHANGED treeVars
       \/ TerminateOnUNSAT /\ terminateState(current)
    /\ UNCHANGED <<haltExecution, forks, loopVars, localVars>>

\* Mutant: no return after the time-out of the bounds check.
executeMemoryOperationGoesOn ==
    /\ At("access") /\ Goto("resolve")
    /\ UNCHANGED treeVars \/ (CoreSolverTimeout /\ terminateState(current))
    /\ second' = current
    /\ todo' \in 0..MaxTargets
    /\ UNCHANGED <<haltExecution, forks, loopVars, first, result, hasInvalid>>

\* executeMemoryOperation: in bounds, write to a read-only object, time-out of
\* the bounds check, or the slow path over all objects the pointer can reach.
executeMemoryOperation ==
    /\ At("access")
    /\ \/ Goto("timers") /\ UNCHANGED <<haltExecution, treeVars, localVars>>
       \/ Goto("timers") /\ terminateStateOnError(current) /\ UNCHANGED localVars
       \/ /\ CoreSolverTimeout
          /\ Goto("timers") /\ terminateState(current)
          /\ UNCHANGED <<haltExecution, localVars>>
       \/ /\ Goto("resolve")
          /\ second' = current
          /\ todo' \in 0..MaxTargets
          /\ UNCHANGED <<haltExecution, treeVars, first, result, hasInvalid>>
    /\ UNCHANGED <<forks, loopVars>>

resolveNext ==
    /\ At("resolve") /\ todo > 0
    /\ fork(second, "bound")
    /\ todo' = todo - 1
    /\ UNCHANGED <<haltExecution, loopVars, result, hasInvalid>>

\* The state in bounds of the object may find it read-only.
resolveBound ==
    /\ At("bound")
    /\ \/ UNCHANGED <<treeVars, haltExecution>>
       \/ first # None /\ terminateStateOnError(first)
    /\ IF second = None
       THEN StatePair(None, None, "timers") /\ todo' = 0
       ELSE StatePair(None, second, "resolve") /\ UNCHANGED todo
    /\ UNCHANGED <<forks, loopVars, result, hasInvalid>>

resolveUnbound ==
    /\ At("resolve") /\ todo = 0
    /\ StatePair(None, None, "timers")
    /\ terminateStateOnError(second)
    /\ UNCHANGED <<forks, loopVars, result, todo, hasInvalid>>

\* executeFree: the pointer is null on one side of a fork, and resolveExact
\* collects one state per object on the other.
executeFree ==
    /\ At("execute")
    /\ fork(current, "free")
    /\ UNCHANGED <<haltExecution, loopVars, result, todo, hasInvalid>>

resolveExact ==
    /\ At("free")
    /\ IF second = None
       THEN StatePair(None, None, "timers") /\ UNCHANGED todo
       ELSE StatePair(None, second, "exact") /\ todo' \in 0..MaxTargets
    /\ UNCHANGED <<haltExecution, forks, treeVars, loopVars, result, hasInvalid>>

resolveExactNext ==
    /\ At("exact") /\ todo > 0
    /\ fork(second, "exactBound")
    /\ todo' = todo - 1
    /\ UNCHANGED <<haltExecution, loopVars, result, hasInvalid>>

resolveExactBound ==
    /\ At("exactBound")
    /\ result' = result \cup ({first} \ {None})
    /\ IF second = None
       THEN StatePair(None, None, "freeing") /\ todo' = 0
       ELSE StatePair(None, second, "exact") /\ UNCHANGED todo
    /\ UNCHANGED <<haltExecution, forks, treeVars, loopVars, hasInvalid>>

resolveExactUnbound ==
    /\ At("exact") /\ todo = 0
    /\ StatePair(None, None, "freeing")
    /\ terminateStateOnError(second)
    /\ UNCHANGED <<forks, loopVars, result, todo, hasInvalid>>

\* The states that free a stack or global object end.
freeResults ==
    /\ At("freeing") /\ Goto("timers")
    /\ \E K \in SUBSET result :
         endStates(K, addedStates, seedMap, processTree, ptreeNode, rank)
    /\ haltExecution' \in {haltExecution, TRUE}
    /\ result' = {}
    /\ UNCHANGED <<forks, loopVars, first, second, todo, hasInvalid>>

\* A call through a symbolic function pointer: one fork per value, todo values
\* at most.
Call ==
    /\ At("execute") /\ SymbolicCalls
    /\ StatePair(None, current, "call")
    /\ todo' \in 1..MaxTargets
    /\ hasInvalid' = FALSE
    /\ UNCHANGED <<haltExecution, forks, treeVars, loopVars, result>>

\* The last value leaves no other side to fork off.
callFork ==
    /\ At("call")
    /\ fork(second, "called")
    /\ todo = 1 => second' = None
    /\ todo' = todo - 1
    /\ UNCHANGED <<haltExecution, loopVars, result, hasInvalid>>

\* The callee may end the path; the first invalid pointer ends the current
\* state.
callValue ==
    /\ At("called")
    /\ \/ /\ \/ UNCHANGED treeVars
             \/ first # None /\ terminateState(first)
          /\ UNCHANGED <<haltExecution, hasInvalid>>
       \/ /\ first # None /\ ~hasInvalid
          /\ terminateStateOnError(current)
          /\ hasInvalid' = TRUE
    /\ IF second = None
       THEN StatePair(None, None, "timers") /\ todo' = 0
       ELSE StatePair(None, second, "call") /\ UNCHANGED todo
    /\ UNCHANGED <<forks, loopVars, result>>

-----------------------------------------------------------------------------
(* The run loop *)

\* Mutant: the state is terminated although its instruction ended it.
overTimeAgain == MaxInstructionTime

\* The instruction took too long and did not end the state itself.
overTime == MaxInstructionTime /\ removedStates[current] = 0

\* The halt timer may fire as well.  Memory is looked at in the search only.
processTimers ==
    /\ At("timers") /\ Goto(IF searcher THEN "memory" ELSE "update")
    /\ \/ UNCHANGED treeVars
       \/ overTime /\ terminateState(current)
    /\ haltExecution' \in {haltExecution, TRUE}
    /\ UNCHANGED <<forks, loopVars, localVars>>

\* Far over the cap some of the states are terminated.
checkMemoryUsage ==
    /\ At("memory") /\ Goto("update")
    /\ \/ UNCHANGED <<treeVars, atMemoryLimit>>
       \/ /\ MaxMemory
          /\ atMemoryLimit' \in BOOLEAN
          /\ UNCHANGED treeVars
       \/ /\ MaxMemory /\ MemoryHeavy
          /\ atMemoryLimit' = TRUE
          /\ \E K \in (SUBSET states) \ {{}} :
               endStates(K, addedStates, seedMap, processTree, ptreeNode, rank)
    /\ UNCHANGED <<haltExecution, forks, current, lastState, states, queue, searcher,
                   localVars>>

removed == {s \in State : removedStates[s] > 0}

\* The assertions of updateStates and of the searcher's update.
updateAsserts ==
    /\ \A s \in removed : removedStates[s] = 1 /\ s \in live
    /\ searcher => updateValid(current, addedStates, removedStates)

updateStates ==
    /\ At("update")
    /\ IF updateAsserts
       THEN /\ Goto(IF searcher THEN "select" ELSE "seeding")
            /\ IF searcher THEN update(current, addedStates, removedStates, rank)
                           ELSE UNCHANGED queue
            /\ states' = live \ removed
            /\ addedStates' = {}
            /\ removedStates' = [s \in State |-> 0]
            /\ seedMap' = Forget(seedMap, removed)
            /\ processTree' = remove(processTree, {ptreeNode[s] : s \in removed})
            /\ ptreeNode' = Forget(ptreeNode, removed)
            /\ rank' = Forget(rank, removed)
            /\ current' = None
       ELSE Goto("abort") /\ UNCHANGED <<treeVars, states, queue, current>>
    /\ UNCHANGED <<haltExecution, forks, pathsExplored, lastState, searcher,
                   atMemoryLimit, localVars>>

\* stepInstruction; the instruction changes the priority of its state.
step(s) ==
    /\ current' = s
    /\ rank' \in {[rank EXCEPT ![s] = r] : r \in Rank}
    /\ Goto("execute")
    /\ UNCHANGED <<haltExecution, forks, addedStates, removedStates, seedMap, processTree,
                   ptreeNode, pathsExplored, states, queue, searcher, atMemoryLimit,
                   localVars>>

\* Mutant: the search does not look at haltExecution.
selectIgnoresHalt ==
    /\ At("select") /\ states # {}
    /\ \E s \in states : selectState(s) /\ step(s)
    /\ UNCHANGED lastState

select ==
    /\ At("select") /\ states # {} /\ ~haltExecution
    /\ \E s \in states : selectState(s) /\ step(s)
    /\ UNCHANGED lastState

\* The seeding loop goes round the states that have seeds.
seed ==
    /\ At("seeding") /\ seedMap # <<>> /\ ~haltExecution
    /\ \E s \in DOMAIN seedMap :
         /\ s = lastState => DOMAIN seedMap = {s}
         /\ step(s)
         /\ lastState' = s

\* Seeding is over: all seeds are used up or the time for them is.
seedingDone ==
    /\ At("seeding")
    /\ seedMap = <<>> \/ (SeedTime /\ lastState # None)
    /\ IF OnlySeed /\ Seeds # {}
       THEN Goto("halt") /\ UNCHANGED <<searcher, queue>>
       ELSE /\ Goto("select")
            /\ searcher' = TRUE
            /\ queue' = {<<rank[s], s>> : s \in states}
    /\ lastState' = None
    /\ UNCHANGED <<haltExecution, forks, treeVars, current, states, atMemoryLimit,
                   localVars>>

\* Either loop ends when the execution is halted.
halt ==
    /\ \/ At("seeding") /\ haltExecution /\ seedMap # <<>>
       \/ At("select") /\ (haltExecution \/ states = {})
    /\ Goto("halt")
    /\ searcher' = FALSE
    /\ queue' = {}
    /\ lastState' = None
    /\ UNCHANGED <<haltExecution, forks, treeVars, current, states, atMemoryLimit,
                   localVars>>

\* All states that are left are terminated and removed.
doDumpStates ==
    /\ At("halt") /\ Goto("done")
    /\ IF DumpStatesOnHalt
       THEN /\ states' = {}
            /\ pathsExplored' = pathsExplored + Cardinality(states)
            /\ seedMap' = Forget(seedMap, states)
            /\ processTree' = remove(processTree, {ptreeNode[s] : s \in states})
            /\ ptreeNode' = Forget(ptreeNode, states)
            /\ rank' = Forget(rank, states)
            /\ UNCHANGED <<addedStates, removedStates>>
       ELSE UNCHANGED <<treeVars, states>>
    /\ UNCHANGED <<haltExecution, forks, current, lastState, queue, searcher,
                   atMemoryLimit, localVars>>

\* Ctrl-C, or --stop-after-n-instructions.
halt_execution ==
    /\ at \notin {"done", "abort"} /\ ~haltExecution
    /\ haltExecution' = TRUE
    /\ UNCHANGED <<at, forks, treeVars, loopVars, localVars>>

Init ==
    /\ options \in Options
    /\ at = "seeding"
    /\ current = None /\ lastState = None
    /\ \E s \in State :
         /\ states = {s}
         /\ seedMap = [x \in (IF Seeds = {} THEN {} ELSE {s}) |-> Seeds]
         /\ ptreeNode = [x \in {s} |-> Root]
         /\ rank \in [{s} -> Rank]
    /\ addedStates = {}
    /\ removedStates = [s \in State |-> 0]
    /\ processTree = {Root}
    /\ queue = {} /\ searcher = FALSE
    /\ haltExecution = FALSE /\ atMemoryLimit = FALSE
    /\ forks = 0 /\ pathsExplored = 0
    /\ first = None /\ second = None /\ result = {} /\ todo = 0 /\ hasInvalid = FALSE

executeInstruction ==
    \/ Plain \/ Exit \/ Error \/ Br
    \/ Switch \/ branch \/ redistribute
    \/ Alloc \/ allocOtherSizes \/ allocNotHuge
    \/ Access \/ executeMemoryOperation \/ resolveNext \/ resolveBound \/ resolveUnbound
    \/ executeFree \/ resolveExact \/ resolveExactNext \/ resolveExactBound
    \/ resolveExactUnbound \/ freeResults
    \/ Call \/ callFork \/ callValue

run ==
    \/ seed \/ seedingDone \/ select \/ executeInstruction
    \/ processTimers \/ checkMemoryUsage \/ updateStates
    \/ halt \/ doDumpStates

Next == (run \/ halt_execution) /\ UNCHANGED options

Spec == Init /\ [][Next]_vars

\* The interpreter is one thread and keeps running.
FairSpec == Spec /\ WF_vars(run /\ UNCHANGED options)

-----------------------------------------------------------------------------
(* Properties *)

Quiescent == at \in {"seeding", "select", "halt", "done"}

Place == {"seeding", "select", "execute", "branching", "branched", "alloc", "huge",
          "access", "resolve", "bound", "free", "exact", "exactBound", "freeing",
          "call", "called", "timers", "memory", "update", "halt", "done", "abort"}

\* The variables have the types of the executor's members.
TypeOK ==
    /\ options \in Options /\ at \in Place
    /\ {current, lastState, first, second} \subseteq State \cup {None}
    /\ states \subseteq State /\ addedStates \subseteq State /\ result \subseteq State
    /\ states \cap addedStates = {}
    /\ removedStates \in [State -> Nat]
    /\ DOMAIN seedMap \subseteq State
    /\ \A s \in DOMAIN seedMap : seedMap[s] \subseteq Seeds
    /\ DOMAIN ptreeNode = live /\ \A s \in live : ptreeNode[s] \in processTree
    /\ DOMAIN rank = live /\ \A s \in live : rank[s] \in Rank
    /\ queue \subseteq Rank \X State
    /\ {searcher, haltExecution, atMemoryLimit, hasInvalid} \subseteq BOOLEAN
    /\ {forks, pathsExplored, todo} \subseteq Nat

\* No assertion of updateStates or of the searcher's update fails: a state is
\* removed once, after it was added.
NoAbort == at # "abort"

\* When the searcher is asked, it holds exactly the executor's states.
SearcherInSync == At("select") => /\ {e[2] : e \in queue} = states
                                  /\ Cardinality(queue) = Cardinality(states)

\* selectState returns a state whose present priority is the highest, not one
\* that was the highest when it was queued.
SelectsCostliest ==
    [][At("select") /\ at' = "execute" =>
         \A s \in states : rank[s] <= rank[current']]_vars

\* The leaves of the process tree are the states that have not been deleted,
\* one each, and no part of the tree outlives its states.
TreeMirrorsStates ==
    /\ Leaves(processTree) = {ptreeNode[s] : s \in live}
    /\ \A s, t \in live : ptreeNode[s] = ptreeNode[t] => s = t
    /\ live = {} => processTree = {}

\* The searcher and the process tree mirror the executor's states, although the
\* three are changed at different points of an instruction.
StatesMirrored == TypeOK /\ SearcherInSync /\ TreeMirrorsStates

\* Every path is explored once: the states alive and the paths counted are the
\* first state and the ones forked.
PathsAccounted ==
    Quiescent => 1 + forks = Cardinality(states) + pathsExplored

\* A handler never holds a state that has been deleted under it.
NoneDangling ==
    (result \cup {current, first, second}) \ {None} \subseteq live

\* Seeds belong to states that exist, a seed to one state only, and the seeding
\* loop never runs a state without seeds.
SeedsPlaced ==
    /\ DOMAIN seedMap \subseteq live
    /\ \A s \in DOMAIN seedMap : seedMap[s] # {}
    /\ \A s, t \in DOMAIN seedMap : s # t => seedMap[s] \cap seedMap[t] = {}

\* --only-replay-seeds: "Discard states that do not have a seed".
OnlySeededStates == OnlyReplaySeeds /\ At("seeding") => states = DOMAIN seedMap

\* The seed map follows the states through forks, branches and ends: no seed is
\* lost to a dead state or shared, and with --only-replay-seeds every state left
\* in the seeding loop has one.
SeedsFollowStates == SeedsPlaced /\ OnlySeededStates

\* A state whose end was requested is not copied any more.
EndedNeverForks ==
    [][\A f \in addedStates' \ addedStates : \A s \in live :
         ptreeNode'[f] = Left(ptreeNode[s]) => removedStates[s] = 0]_vars

\* At the end nothing is left when the states are dumped, and every path that
\* was forked has been counted.
NothingLeft ==
    At("done") /\ DumpStatesOnHalt =>
        states = {} /\ processTree = {} /\ seedMap = <<>> /\ pathsExplored = 1 + forks

\* No handler uses a deleted state, and no state outlives the run.
StatesReleasedInTime == NoneDangling /\ NothingLeft

\* A request to halt is honoured from both loops and from the middle of every
\* handler: the instruction in progress is finished and the run ends.
HaltEnds == haltExecution ~> at \in {"done", "abort"}
=============================================================================

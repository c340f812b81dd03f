------------------------------ MODULE CostMap ------------------------------
(***************************************************************************)
(* The constructor of castan::CastanSearcher: a worklist computes, for     *)
(* every instruction of the module, whether a castan_loop annotation is    *)
(* ahead of it (costs.first) and what the most expensive path to it, or    *)
(* else to the function's exit, costs (costs.second).  Loops are taken at  *)
(* most twice.  The worklist is ordered by the addresses of instructions,  *)
(* so that any of them may come first.                                     *)
(*                                                                         *)
(* A path is the map from instructions to how often they are on it; as in  *)
(* the code, looking an instruction up in a path inserts it with count 0.  *)
(***************************************************************************)
EXTENDS Integers, FiniteSets, FiniteSetsExt

CONSTANTS
    Program, \* the modules that are analysed, with the build's cost constants
    None     \* no instruction

\* What LLVM guarantees of a module.  insts: its instructions; successors: in
\* the function; entry: the first instruction of the same function; calls: the
\* entry of the called function, for direct calls of functions with a body;
\* loopCalls: the calls of castan_loop.  A call is followed by one instruction
\* of its block, and nothing jumps to that instruction or to an entry.
WellFormed(p) ==
    /\ IsFiniteSet(p.insts)
    /\ p.successors \in [p.insts -> SUBSET p.insts]
    /\ p.entry \in [p.insts -> p.insts]
    /\ p.loopCalls \subseteq p.insts
    /\ DOMAIN p.calls \subseteq p.insts \ p.loopCalls
    /\ \A i \in DOMAIN p.calls : p.calls[i] \in p.insts
    /\ \A i \in p.insts : \A s \in p.successors[i] :
          p.entry[s] = p.entry[i] /\ p.entry[s] # s
    /\ \A i \in p.insts : p.entry[p.entry[i]] = p.entry[i]
    /\ \A i \in DOMAIN p.calls : p.entry[p.calls[i]] = p.calls[i]
    /\ \A i \in DOMAIN p.calls \cup p.loopCalls :
          \E s \in p.successors[i] :
             /\ p.successors[i] = {s}
             /\ \A j \in p.insts : s \in p.successors[j] => j = i
    /\ p.memory \subseteq p.insts
    /\ p.nsPerInstruction \in Nat /\ p.nsPerMemoryInstruction \in Nat

\* The function at the entry f calls only functions of a lower rank: what the
\* assertion in the constructor demands of the module.
NotRecursive(p) ==
    /\ p.rank \in [p.insts -> Nat]
    /\ \A i, j \in p.insts : p.rank[i] = p.rank[j] <=> p.entry[i] = p.entry[j]
    /\ \A i \in DOMAIN p.calls : p.rank[p.calls[i]] < p.rank[i]

ASSUME ProgramAssumption ==
    \A p \in Program : WellFormed(p) /\ NotRecursive(p) /\ None \notin p.insts

VARIABLES
    program,
    direct,       \* the instructions whose costs.first is true
    costs,        \* costs.second
    paths, successorCosts,
    worklist,
    current,      \* the instruction whose successors are looked at, or None
    todo,         \* its successors that are left
    changed

costVars == <<program, direct, costs, paths, successorCosts, worklist, current, todo,
              changed>>

Inst == program.insts
successors(i) == program.successors[i]
predecessors(i) == {j \in Inst : i \in successors(j)}
callers(e) == {c \in DOMAIN program.calls : program.calls[c] = e}
IsEntry(i) == program.entry[i] = i
IsCall(i) == i \in DOMAIN program.calls

\* NS_PER_INSTRUCTION and NS_PER_MEMORY_INSTRUCTION, in hundredths of a
\* nanosecond, become a long.
instCost(i) ==
    (IF i \in program.memory THEN program.nsPerMemoryInstruction
                             ELSE program.nsPerInstruction) \div 100

NoPath == [i \in {} |-> 0]
Times(path, i) == IF i \in DOMAIN path THEN path[i] ELSE 0
Lookup(path, i) == [j \in DOMAIN path \cup {i} |-> Times(path, j)]
Plus(path, i) == [j \in DOMAIN path \cup {i} |->
                    Times(path, j) + (IF j = i THEN 1 ELSE 0)]
Joined(p, q) == [j \in DOMAIN p \cup DOMAIN q |-> Times(p, j) + Times(q, j)]

-----------------------------------------------------------------------------

exits == {i \in Inst : successors(i) = {}}
targets == exits \cup program.loopCalls

CostInit ==
    /\ program \in Program
    /\ direct = program.loopCalls
    /\ costs = [i \in Inst |-> IF i \in targets THEN 1 ELSE 0]
    /\ paths = [i \in Inst |-> IF i \in targets THEN Plus(NoPath, i) ELSE NoPath]
    /\ successorCosts = [i \in Inst |-> 0]
    /\ worklist = {i \in Inst : \E t \in targets :
                      i \in predecessors(t) \/ (IsEntry(t) /\ i \in callers(t))}
    /\ current = None /\ todo = {} /\ changed = FALSE

\* Mutant: the callers of a function do not hear of a change.
dependentsInFunction(i) == predecessors(i)

\* The instructions that depend on one whose cost has changed.
dependents(i) == IF IsEntry(i) THEN callers(i) ELSE predecessors(i)

visitLoopCall(i) ==
    /\ current = None
    /\ i \in worklist /\ i \in program.loopCalls
    /\ worklist' = worklist \ {i}
    /\ UNCHANGED <<program, direct, costs, paths, successorCosts, current, todo, changed>>

successor(i) == CHOOSE s \in successors(i) : TRUE

\* The path goes into the function, or through it and on.
callDirect(i) == program.calls[i] \in direct
callReturns(i) == paths[program.calls[i]] # NoPath /\ paths[successor(i)] # NoPath
callCost(i) ==
    IF callDirect(i) THEN costs[program.calls[i]] + 1
    ELSE IF callReturns(i)
         THEN 1 + costs[program.calls[i]] + costs[successor(i)]
         ELSE 0
callFirst(i) == callDirect(i) \/ successor(i) \in direct
callSame(i) == callCost(i) = costs[i] /\ (callFirst(i) <=> i \in direct)

callPath(i) ==
    IF callDirect(i) THEN Plus(paths[program.calls[i]], i)
    ELSE IF callReturns(i)
         THEN Plus(Joined(paths[program.calls[i]], paths[successor(i)]), i)
         ELSE NoPath

visitCall(i) ==
    /\ current = None
    /\ i \in worklist /\ IsCall(i)
    /\ successorCosts' = IF ~callDirect(i) /\ callReturns(i)
                         THEN [successorCosts EXCEPT ![i] = costs[successor(i)]]
                         ELSE successorCosts
    /\ IF callSame(i)
       THEN /\ worklist' = worklist \ {i}
            /\ UNCHANGED <<direct, costs, paths>>
       ELSE /\ direct' = IF callFirst(i) THEN direct \cup {i} ELSE direct \ {i}
            /\ costs' = [costs EXCEPT ![i] = callCost(i)]
            /\ paths' = [paths EXCEPT ![i] = callPath(i)]
            /\ worklist' = (worklist \ {i}) \cup dependents(i)
    /\ UNCHANGED <<program, current, todo, changed>>

visit(i) ==
    /\ current = None
    /\ i \in worklist /\ ~IsCall(i) /\ i \notin program.loopCalls
    /\ worklist' = worklist \ {i}
    /\ current' = i /\ todo' = successors(i) /\ changed' = FALSE
    /\ UNCHANGED <<program, direct, costs, paths, successorCosts>>

\* Mutant: a loop is taken once more.
improvesThrice(i, s) ==
    /\ Times(paths[s], i) <= 2
    /\ \/ s \in direct /\ i \notin direct
       \/ /\ s \in direct \/ i \notin direct
          /\ costs[s] + instCost(i) > costs[i]

\* Whether the path through s replaces the path of i.
improves(i, s) ==
    /\ Times(paths[s], i) <= 1
    /\ \/ s \in direct /\ i \notin direct
       \/ /\ s \in direct \/ i \notin direct
          /\ costs[s] + instCost(i) > costs[i]

\* Mutant: every visit counts as a change.
lookAtAlwaysChanged(s) ==
    /\ s \in todo
    /\ todo' = todo \ {s}
    /\ IF improves(current, s)
       THEN /\ direct' = IF s \in direct THEN direct \cup {current}
                                         ELSE direct \ {current}
            /\ costs' = [costs EXCEPT ![current] = costs[s] + instCost(current)]
            /\ paths' = [paths EXCEPT ![s] = Lookup(@, current),
                                      ![current] = Plus(paths[s], current)]
       ELSE /\ paths' = [paths EXCEPT ![s] = Lookup(@, current)]
            /\ UNCHANGED <<direct, costs>>
    /\ changed' = TRUE
    /\ UNCHANGED <<program, successorCosts, worklist, current>>

lookAt(s) ==
    /\ s \in todo
    /\ todo' = todo \ {s}
    /\ IF improves(current, s)
       THEN /\ direct' = IF s \in direct THEN direct \cup {current}
                                         ELSE direct \ {current}
            /\ costs' = [costs EXCEPT ![current] = costs[s] + instCost(current)]
            /\ paths' = [paths EXCEPT ![s] = Lookup(@, current),
                                      ![current] = Plus(paths[s], current)]
            /\ changed' = TRUE
       ELSE /\ paths' = [paths EXCEPT ![s] = Lookup(@, current)]
            /\ UNCHANGED <<direct, costs, changed>>
    /\ UNCHANGED <<program, successorCosts, worklist, current>>

propagate ==
    /\ current # None /\ todo = {}
    /\ worklist' = IF changed THEN worklist \cup dependents(current) ELSE worklist
    /\ current' = None
    /\ UNCHANGED <<program, direct, costs, paths, successorCosts, todo, changed>>

CostNext ==
    \/ \E i \in worklist : visitLoopCall(i) \/ visitCall(i) \/ visit(i)
    \/ \E s \in todo : lookAt(s)
    \/ propagate

CostSpec == CostInit /\ [][CostNext]_costVars

\* The constructor runs to its end without waiting for anything.
CostFairSpec == CostSpec /\ WF_costVars(CostNext)

Done == worklist = {} /\ current = None

-----------------------------------------------------------------------------
(* Properties *)

\* The variables have the types of the constructor's maps and loop state.
CostTypeOK ==
    /\ program \in Program
    /\ direct \subseteq Inst /\ costs \in [Inst -> Nat]
    /\ paths = [i \in Inst |-> paths[i]]
    /\ \A i \in Inst : DOMAIN paths[i] \subseteq Inst
                       /\ \A j \in DOMAIN paths[i] : paths[i][j] \in Nat
    /\ successorCosts \in [Inst -> Nat]
    /\ worklist \subseteq Inst
    /\ current \in Inst \cup {None}
    /\ todo \subseteq (IF current = None THEN {} ELSE successors(current))
    /\ changed \in BOOLEAN

\* An instruction has been given a cost.
Reached(i) == i \in direct \/ costs[i] > 0

\* Visiting the instruction again would change nothing.
Settled(i) ==
    IF IsCall(i) THEN callSame(i)
    ELSE i \notin program.loopCalls =>
            \A s \in successors(i) : Reached(s) => ~improves(i, s)

\* When the worklist is empty the cost map is a fixpoint: no visit of any
\* instruction would change its cost, so no change went unnoticed by an
\* instruction that depends on it, in the function or in a caller.
Fixpoint == Done => \A i \in Inst : Settled(i)

\* The instructions from which a call of castan_loop can be reached, through
\* successors and into called functions: the least set closed under both.
LoopAhead(i) ==
    \A S \in SUBSET Inst :
        /\ program.loopCalls \subseteq S
        /\ \A j \in Inst : successors(j) \cap S # {} => j \in S
        /\ \A j \in DOMAIN program.calls : program.calls[j] \in S => j \in S
        => i \in S

\* Once the worklist is empty the instructions marked as leading to a castan_loop
\* are exactly those that do, whatever the order of the visits and although a
\* path that has taken a loop twice is not extended.
FirstIsLoopAhead == Done => \A i \in Inst : i \in direct <=> LoopAhead(i)

\* When the worklist is empty nothing was missed: no visit would change a cost and
\* the instructions marked are the ones that lead to a castan_loop.
MapComplete == Fixpoint /\ FirstIsLoopAhead

\* The sum of the values of a function.
SumOf(f) == MapThenSumSet(LAMBDA j : f[j], DOMAIN f)

\* What an instruction adds to the cost of a path, each time it is on it.
weight(j) == IF j \in targets \/ IsCall(j) THEN 1 ELSE instCost(j)
pathCost(path) == SumOf([j \in DOMAIN path |-> path[j] * weight(j)])

\* The cost of an instruction is the sum of the costs of the instructions on its
\* path, and 0 without one: costs and paths never get out of step, although a call
\* does not replace its path when its cost stays the same.
CostIsPathCost == \A i \in Inst : costs[i] = pathCost(paths[i])

\* A path takes a loop at most twice: an instruction of the path's own function
\* that is not a call is on it at most twice.  A call is never on the path of the
\* function that it calls, as the constructor asserts.
LoopsTwice ==
    \A i, j \in Inst :
        /\ program.entry[i] = program.entry[j] /\ ~IsCall(j) => Times(paths[i], j) <= 2
        /\ IsCall(j) /\ program.calls[j] = i => j \notin DOMAIN paths[i]

\* Costs are the costs of paths that a program can take: they are the sums along
\* the paths kept, and these take no loop more than twice.
PathsAddUp == CostTypeOK /\ CostIsPathCost /\ LoopsTwice

\* The worklist runs empty, in whatever order the instructions are taken.
Terminates == <>[]Done
=============================================================================

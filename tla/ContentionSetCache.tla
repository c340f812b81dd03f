------------------------- MODULE ContentionSetCache -------------------------
(***************************************************************************)
(* castan::ContentionSetCacheModel: the CPU cache that a symbolic          *)
(* execution path carries with it.  A cache line belongs to the contention *)
(* sets that list its page-relative address (or to the set -1 that holds   *)
(* every unlisted line), each set keeps at most associativity lines and    *)
(* evicts the least recently used one.  A symbolic pointer is made         *)
(* concrete at the access; with --worst-case-sym-indices the value is one  *)
(* that overflows the contention set in which a miss hurts most.           *)
(*                                                                         *)
(* A path's constraints are the set of inputs ("worlds") that still follow *)
(* the path, and a pointer expression is a function from worlds to         *)
(* addresses.  An address is a byte address.                               *)
(***************************************************************************)
EXTENDS Integers, FiniteSets, Sequences

CONSTANTS
    BLOCK,          \* 1 << BLOCK_BITS, the bytes of a cache line
    PAGE,           \* 1 << PAGE_BITS, the bytes of a page
    Pages,          \* how many pages the program addresses
    NumSets,        \* contentionSets.size()
    SetAddrs,       \* [0..NumSets-1 -> sets of page-relative lines]
    SetAssoc,       \* [0..NumSets-1 -> associativity]
    DefaultAssoc,   \* CACHE_SIZE / (1 << BLOCK_BITS), associativity of set -1
    CACHE_WRITEBACK,
    CACHE_HIT_LATENCY, CACHE_MISS_LATENCY, NS_PER_INSTRUCTION, \* in 1/100 ns
    MaxLoops,       \* --max-loops
    WorstCaseSymIndices, GiveUpOnComplexSymIndices, TerminateOnUNSAT, \* options
    World,          \* the program's possible inputs
    Pointer,        \* the pointer expressions: functions from World to Addr
    MaxInstructions \* bound: instructions executed by the path

Addr == 0..(Pages * PAGE - 1)
BlockAddr(a) == a - (a % BLOCK)
PageAddr(b) == b % PAGE
Block == {BlockAddr(a) : a \in Addr}
Line == {PageAddr(b) : b \in Block}
ListedSet == 0..(NumSets - 1)
SetIdx == ListedSet \cup {-1}

\* Contention sets come from a file of measured sets; an associativity of
\* zero would make the eviction loop read the first entry of an empty map.
ASSUME SizesAssumption ==
    /\ BLOCK \in Nat \ {0} /\ PAGE \in Nat \ {0} /\ Pages \in Nat \ {0}
    /\ NumSets \in Nat
ASSUME SetsAssumption ==
    /\ SetAddrs \in [ListedSet -> SUBSET Line]
    /\ SetAssoc \in [ListedSet -> Nat \ {0}]
    /\ DefaultAssoc \in Nat \ {0}
ASSUME OptionsAssumption ==
    /\ CACHE_WRITEBACK \in BOOLEAN
    /\ MaxLoops \in Nat
    /\ {WorstCaseSymIndices, GiveUpOnComplexSymIndices, TerminateOnUNSAT}
         \subseteq BOOLEAN
\* A miss takes longer than a hit, and a whole number of nanoseconds.
ASSUME LatencyAssumption ==
    /\ {CACHE_HIT_LATENCY, CACHE_MISS_LATENCY, NS_PER_INSTRUCTION} \subseteq Nat
    /\ CACHE_HIT_LATENCY <= CACHE_MISS_LATENCY
    /\ CACHE_MISS_LATENCY % 100 = 0
ASSUME PointerAssumption ==
    /\ World # {}
    /\ Pointer \subseteq [World -> Addr]

VARIABLES
    enabled,     \* castan_loop was called
    cache,       \* [set][block] -> entry
    currentTime, \* LRU clock
    loopStats,   \* one record of counters per iteration of castan_loop
    constraints, \* the worlds that satisfy state.constraints
    status       \* what became of the path

vars == <<enabled, cache, currentTime, loopStats, constraints, status>>

contentionSetIdxs == [a \in Line |-> {i \in ListedSet : a \in SetAddrs[i]}]

\* The sets that an access to block b updates.
SetsOf(b) ==
    IF contentionSetIdxs[PageAddr(b)] # {} THEN contentionSetIdxs[PageAddr(b)]
                                           ELSE {-1}

Associativity(i) == IF i >= 0 THEN SetAssoc[i] ELSE DefaultAssoc

Entry == [useTime : Nat, dirty : BOOLEAN]

\* contentionset_loop_stats_t, and a copy of it with the counters C incremented.
Counter == {"instructionCount", "readCount", "writeCount", "hitCount", "missCount"}
Stats == [Counter -> Nat]
NoStats == [c \in Counter |-> 0]
Inc(stats, C) == [c \in Counter |-> stats[c] + (IF c \in C THEN 1 ELSE 0)]

-----------------------------------------------------------------------------
(* updateCache *)

Full(i) == Cardinality(DOMAIN cache[i]) >= Associativity(i)

\* The entry that was used longest ago; the map is scanned in address order.
LruPtr(lines) ==
    CHOOSE x \in DOMAIN lines :
        \A y \in DOMAIN lines : \/ lines[x].useTime < lines[y].useTime
                                \/ lines[x].useTime = lines[y].useTime /\ x <= y

\* Mutant: a hit leaves the use time alone (first in, first out).
AccessedFifo(i, b, isWrite, t) ==
    LET lines == cache[i]
        kept  == DOMAIN lines \ (IF Full(i) THEN {LruPtr(lines)} ELSE {})
    IN  IF b \in DOMAIN lines
        THEN [lines EXCEPT ![b].dirty = IF isWrite THEN CACHE_WRITEBACK ELSE @]
        ELSE [x \in kept \cup {b} |->
                IF x = b THEN [useTime |-> t, dirty |-> isWrite /\ CACHE_WRITEBACK]
                         ELSE lines[x]]

\* Set i after an access to block b at time t.
Accessed(i, b, isWrite, t) ==
    LET lines == cache[i]
        kept  == DOMAIN lines \ (IF Full(i) THEN {LruPtr(lines)} ELSE {})
    IN  IF b \in DOMAIN lines
        THEN [lines EXCEPT ![b] =
                [useTime |-> t,
                 dirty |-> IF isWrite THEN CACHE_WRITEBACK ELSE @.dirty]]
        ELSE [x \in kept \cup {b} |->
                IF x = b THEN [useTime |-> t, dirty |-> isWrite /\ CACHE_WRITEBACK]
                         ELSE lines[x]]

\* One set holding the block makes the access a hit, except for a write that
\* a write-through cache passes on.
Hits(b, isWrite) ==
    /\ \E i \in SetsOf(b) : b \in DOMAIN cache[i]
    /\ isWrite => CACHE_WRITEBACK

\* Mutant: a clean victim is written back too.
EvictsClean(i, b) == b \notin DOMAIN cache[i] /\ Full(i)

EvictsDirty(i, b) ==
    /\ b \notin DOMAIN cache[i]
    /\ Full(i)
    /\ cache[i][LruPtr(cache[i])].dirty

UpdatedStats(stats, b, isWrite) ==
    LET access == Inc(stats, {IF Hits(b, isWrite) THEN "hitCount" ELSE "missCount"})
    IN  IF \E i \in SetsOf(b) : EvictsDirty(i, b) THEN Inc(access, {"missCount"})
                                                  ELSE access

updateCache(b, isWrite) ==
    /\ currentTime' = currentTime + 1
    /\ cache' = [i \in SetIdx |->
                    IF i \in SetsOf(b) THEN Accessed(i, b, isWrite, currentTime + 1)
                                       ELSE cache[i]]

-----------------------------------------------------------------------------
(* The worst-case choice of memoryOperation.  val[a] is the address the      *)
(* solver returns for line a, or Unsat.                                      *)

Unsat == -1

Values(ptr) == {ptr[w] : w \in constraints}
LineOf(x) == PageAddr(BlockAddr(x))

\* The solver's answers: one feasible address on each line that has any.
SolverValues(ptr) ==
    LET answers == {S \in SUBSET Values(ptr) :
                      /\ \A x, y \in S : LineOf(x) = LineOf(y) => x = y
                      /\ {LineOf(x) : x \in S} = {LineOf(x) : x \in Values(ptr)}}
    IN  {[a \in Line |-> IF \E x \in S : LineOf(x) = a
                         THEN CHOOSE x \in S : LineOf(x) = a
                         ELSE Unsat] : S \in answers}

\* The lines whose constraint simplifies to false before the solver is asked;
\* only --give-up-on-complex-sym-indices tells them from the others.
TriviallyUnsat(val) ==
    IF GiveUpOnComplexSymIndices THEN SUBSET {a \in Line : val[a] = Unsat}
                                 ELSE {{}}

\* Mutant: the write-back of the victim is left out.
getMissCostNoWriteback(i, isWrite) ==
    IF ~isWrite \/ ~CACHE_WRITEBACK THEN CACHE_MISS_LATENCY \div 100
                                    ELSE CACHE_HIT_LATENCY \div 100

\* The cost of a miss in set i.  The latencies are truncated to nanoseconds
\* by the unsigned long that accumulates them.
getMissCost(i, isWrite) ==
    (IF Full(i) /\ cache[i][LruPtr(cache[i])].dirty
       THEN CACHE_MISS_LATENCY \div 100 ELSE 0)
    + (IF ~isWrite \/ ~CACHE_WRITEBACK THEN CACHE_MISS_LATENCY \div 100
                                       ELSE CACHE_HIT_LATENCY \div 100)

MissesLeft(i) == SetAssoc[i] - Cardinality(DOMAIN cache[i])

\* Mutant: the cheapest miss comes first.
BeforeCheapest(i, j, isWrite) ==
    \/ getMissCost(i, isWrite) < getMissCost(j, isWrite)
    \/ /\ getMissCost(i, isWrite) = getMissCost(j, isWrite)
       /\ MissesLeft(i) < MissesLeft(j)

\* setCosts: highest cost first, then the set closest to an eviction; equal
\* sets come in a random order.
Before(i, j, isWrite) ==
    \/ getMissCost(i, isWrite) > getMissCost(j, isWrite)
    \/ /\ getMissCost(i, isWrite) = getMissCost(j, isWrite)
       /\ MissesLeft(i) < MissesLeft(j)

SetOrders(isWrite) ==
    {o \in [1..NumSets -> ListedSet] :
        \A m, n \in 1..NumSets : m < n => /\ o[m] # o[n]
                                          /\ ~Before(o[n], o[m], isWrite)}

\* A line whose solver query fails without being trivially false; the option
\* makes the scan give up there.
GiveUpLine(val, trivial, a) ==
    GiveUpOnComplexSymIndices /\ val[a] = Unsat /\ a \notin trivial

\* Line a can be reached by the pointer and none of its sets caches the value.
Candidate(val, a) ==
    /\ val[a] # Unsat
    /\ \A i \in contentionSetIdxs[a] : BlockAddr(val[a]) \notin DOMAIN cache[i]

\* The candidates of set i in address order, up to a line that gives up.
Candidates(val, trivial, i) ==
    {a \in SetAddrs[i] :
        /\ Candidate(val, a)
        /\ \A g \in SetAddrs[i] : g < a => ~GiveUpLine(val, trivial, g)}

UpTo(S, a) == {x \in S : x <= a}

\* hitCount once candidate a of set i has been counted.
HitCount(val, trivial, i, a) ==
    Cardinality(DOMAIN cache[i])
      + Cardinality(UpTo(Candidates(val, trivial, i), a))

\* The lines at which the scan of set i stops because the set overflows.
Overflows(val, trivial, i) ==
    {a \in Candidates(val, trivial, i) :
        HitCount(val, trivial, i, a) = SetAssoc[i] + 1}

StopsAt(val, trivial, i) ==
    \/ Overflows(val, trivial, i) # {}
    \/ \E g \in SetAddrs[i] : GiveUpLine(val, trivial, g)

\* The positions of the order that are scanned.
Scanned(val, trivial, o) ==
    {n \in 1..NumSets : \A m \in 1..(n - 1) : ~StopsAt(val, trivial, o[m])}

\* found: the address that overflows the first set that can be overflowed.
Found(val, trivial, o) ==
    {val[a] : a \in UNION {Overflows(val, trivial, o[n]) :
                             n \in Scanned(val, trivial, o)}}

\* backupAddress: the candidate that first reached the highest hitCount.
Backup(val, trivial, o) ==
    LET seen == {s \in Scanned(val, trivial, o) \X Line :
                    s[2] \in Candidates(val, trivial, o[s[1]])}
        hits(s) == HitCount(val, trivial, o[s[1]], s[2])
    IN  {val[s[2]] : s \in {s \in seen :
            \A t \in seen : \/ hits(t) < hits(s)
                            \/ hits(t) = hits(s) /\ s[1] <= t[1]}}

-----------------------------------------------------------------------------
(* memoryOperation *)

BackStats(stats) == [loopStats EXCEPT ![Len(loopStats)] = stats]
Back == loopStats[Len(loopStats)]
Counted == BackStats(Inc(Back, {"instructionCount"}))

\* simplifyExpr turned the pointer into a constant: always when the expression
\* is one, and possibly when the constraints leave it a single value.
IsConstant(ptr) == Cardinality({ptr[w] : w \in World}) = 1
MayBeConstant(ptr) == Cardinality(Values(ptr)) = 1

AccessAt(x, isWrite, stats) ==
    /\ updateCache(BlockAddr(x), isWrite)
    /\ loopStats' = BackStats(UpdatedStats(stats, BlockAddr(x), isWrite))
    /\ UNCHANGED <<enabled, status>>

ConcreteAccess(ptr, isWrite, stats) ==
    /\ MayBeConstant(ptr)
    /\ \E x \in Values(ptr) : AccessAt(x, isWrite, stats)
    /\ UNCHANGED constraints

\* The addresses that the code may settle on for a symbolic pointer: the one
\* that overflows a set, else the backup, else any value.
AddressChoices(ptr, val, trivial, o) ==
    IF ~WorstCaseSymIndices THEN Values(ptr)
    ELSE IF Found(val, trivial, o) # {} THEN Found(val, trivial, o)
    ELSE IF Backup(val, trivial, o) # {} THEN Backup(val, trivial, o)
    ELSE Values(ptr)

Gone(val, trivial, o) ==
    /\ TerminateOnUNSAT
    /\ WorstCaseSymIndices => Found(val, trivial, o) = {}

SymbolicAccess(ptr, isWrite, stats) ==
    /\ ~IsConstant(ptr)
    /\ \E val \in SolverValues(ptr), o \in SetOrders(isWrite) :
       \E trivial \in TriviallyUnsat(val) :
         \/ /\ Gone(val, trivial, o)
            /\ status' = "early"
            /\ loopStats' = BackStats(stats)
            /\ UNCHANGED <<enabled, cache, currentTime, constraints>>
         \/ /\ ~Gone(val, trivial, o)
            /\ \E x \in AddressChoices(ptr, val, trivial, o) :
                 /\ AccessAt(x, isWrite, stats)
                 /\ constraints' = {w \in constraints : ptr[w] = x}

\* load and store, with exec before them; nothing happens until castan_loop
\* has been called.
memoryOperation(ptr, isWrite) ==
    LET stats == Inc(Back, {"instructionCount",
                            IF isWrite THEN "writeCount" ELSE "readCount"})
    IN  \/ ConcreteAccess(ptr, isWrite, stats)
        \/ SymbolicAccess(ptr, isWrite, stats)

-----------------------------------------------------------------------------
(* The path's instructions *)

\* The loop that accumulates f[1], ..., f[n].
SumUpTo(f, n) ==
    LET sum[m \in 0..n] == IF m = 0 THEN 0 ELSE sum[m - 1] + f[m]
    IN  sum[n]

\* Total over the iterations of a counter c of loopStats.
Total(c) == SumUpTo([n \in 1..Len(loopStats) |-> loopStats[n][c]], Len(loopStats))

Running == status = "running"

\* An instruction of an enabled path, within the bound.
Instruction == Running /\ enabled /\ Total("instructionCount") < MaxInstructions

Load(ptr)  == Instruction /\ memoryOperation(ptr, FALSE)
Store(ptr) == Instruction /\ memoryOperation(ptr, TRUE)

\* exec for every other instruction; a branch of the path adds a constraint
\* that some of the remaining inputs satisfy.
exec ==
    /\ Instruction
    /\ loopStats' = Counted
    /\ constraints' \in (SUBSET constraints) \ {{}}
    /\ UNCHANGED <<enabled, cache, currentTime, status>>

\* The first call of castan_loop starts the model.
FirstLoop ==
    /\ Running /\ ~enabled
    /\ enabled' = TRUE
    /\ loopStats' = Append(loopStats, NoStats)
    /\ UNCHANGED <<cache, currentTime, constraints, status>>

\* Later calls start an iteration, or end the path once there were MaxLoops.
NextLoop ==
    /\ Running /\ enabled
    /\ Len(loopStats) < MaxLoops
    /\ loopStats' = Append(Counted, NoStats)
    /\ UNCHANGED <<enabled, cache, currentTime, constraints, status>>

LastLoop ==
    /\ Running /\ enabled
    /\ Len(loopStats) >= MaxLoops
    /\ loopStats' = Counted
    /\ status' = "exited"
    /\ UNCHANGED <<enabled, cache, currentTime, constraints>>

Init ==
    /\ enabled = FALSE
    /\ cache = [i \in SetIdx |-> <<>>]
    /\ currentTime = 0
    /\ loopStats = <<>>
    /\ constraints = World
    /\ status = "running"

Next ==
    \/ \E ptr \in Pointer : Load(ptr) \/ Store(ptr)
    \/ exec
    \/ FirstLoop
    \/ NextLoop
    \/ LastLoop

Spec == Init /\ [][Next]_vars

getTotalTime ==
    Total("instructionCount") * NS_PER_INSTRUCTION
      + Total("hitCount") * CACHE_HIT_LATENCY
      + Total("missCount") * CACHE_MISS_LATENCY

-----------------------------------------------------------------------------
(* Properties *)

\* The variables have the types of ContentionSetCacheModel's members.
TypeOK ==
    /\ enabled \in BOOLEAN
    /\ DOMAIN cache = SetIdx
    /\ \A i \in SetIdx : /\ DOMAIN cache[i] \in SUBSET Block
                         /\ cache[i] \in [DOMAIN cache[i] -> Entry]
    /\ currentTime \in Nat
    /\ loopStats \in Seq(Stats)
    /\ enabled <=> loopStats # <<>>
    /\ constraints \in SUBSET World
    /\ status \in {"running", "exited", "early"}

\* updateCache never lets a contention set hold more lines than its
\* associativity, although it inserts into several sets at each access.
WithinAssociativity ==
    \A i \in SetIdx : Cardinality(DOMAIN cache[i]) <= Associativity(i)

\* The LRU clock orders the lines of a set strictly, so the eviction loop has
\* one victim, and no line comes from the future.
LruOrder ==
    \A i \in SetIdx : \A b, c \in DOMAIN cache[i] :
        /\ cache[i][b].useTime \in 1..currentTime
        /\ cache[i][b].useTime = cache[i][c].useTime => b = c

\* The line used last is still cached, in every set that lists it, whatever
\* the sets evicted to make room.
LastUsedIsCached ==
    currentTime > 0 =>
        \E b \in Block : \A i \in SetsOf(b) :
            b \in DOMAIN cache[i] /\ cache[i][b].useTime = currentTime

\* Concretizing a pointer never makes the path infeasible: the constraint that
\* memoryOperation adds is satisfied by an input that still follows the path.
PathFeasible == constraints # {}

\* What every access leaves behind, although updateCache works on several
\* overlapping sets and memoryOperation on the constraints: sets within their
\* associativity, a strict LRU order, the line just used, and a feasible path.
CacheAndPathConsistent ==
    /\ TypeOK /\ WithinAssociativity /\ LruOrder /\ LastUsedIsCached
    /\ PathFeasible

DirtyLines(i) == {b \in DOMAIN cache[i] : cache[i][b].dirty}

\* The dirty lines of the sets -1, 0, ..., NumSets - 1, counted in each set.
Dirty == SumUpTo([n \in 1..(NumSets + 1) |-> Cardinality(DirtyLines(n - 2))], NumSets + 1)

\* Every access is counted once as a hit or a miss, and the DRAM accesses
\* counted on top of that are write-backs: each one, and each line still
\* dirty, goes back to a store to one of the sets.
WritebacksArePaidFor ==
    LET accesses == Total("readCount") + Total("writeCount")
                      - (IF status = "early" THEN 1 ELSE 0)
        counted  == Total("hitCount") + Total("missCount")
    IN  /\ accesses = currentTime
        /\ counted >= accesses
        /\ (counted - accesses) + Dirty <= (NumSets + 1) * Total("writeCount")

\* The nanoseconds (in 1/100) that updateCache would count for an access now.
Damage(b, isWrite) ==
    LET stats == UpdatedStats(NoStats, b, isWrite)
    IN  stats["hitCount"] * CACHE_HIT_LATENCY + stats["missCount"] * CACHE_MISS_LATENCY

\* What this step adds to the counted nanoseconds, instructions left out.
CountedDamage ==
    getTotalTime' - getTotalTime
      - NS_PER_INSTRUCTION * (Total("instructionCount")' - Total("instructionCount"))

Listed(x) == contentionSetIdxs[LineOf(x)] # {}

\* With --worst-case-sym-indices the value chosen for a symbolic pointer costs
\* at least as much as any other value the pointer could have taken on a
\* listed line ("try the worst case scenarios in turn").
WorstCasePick ==
    [][\A ptr \in Pointer, isWrite \in BOOLEAN :
         (Cardinality(Values(ptr)) > 1 /\ status' = "running"
            /\ IF isWrite THEN Store(ptr) ELSE Load(ptr))
           => \A x \in Values(ptr) :
                Listed(x) => CountedDamage >= Damage(BlockAddr(x), isWrite)]_vars

\* The cost by which memoryOperation ranks a set is the one updateCache counts
\* when a load misses in that set alone.  (For a store to a write-back cache
\* getMissCost assumes the latency of a hit and updateCache counts a miss.)
LoadCostPredicted ==
    [][\A i \in ListedSet : \A b \in DOMAIN cache'[i] :
         (/\ Total("readCount")' > Total("readCount")
          /\ currentTime' # currentTime
          /\ cache'[i][b].useTime = currentTime'
          /\ SetsOf(b) = {i}
          /\ b \notin DOMAIN cache[i])
         => CountedDamage \div 100 = getMissCost(i, FALSE)]_vars

=============================================================================

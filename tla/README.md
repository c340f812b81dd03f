# A verification project for CASTAN

CASTAN looks for slow packets: it executes a network function symbolically
(with a fork of KLEE), follows the paths that promise the most cycles, models
the CPU cache along each path, and turns hashes, which it cannot invert, into
*havocs* that it reconciles with rainbow tables at the end. The modules in this
directory specify the parts of that program that carry state and the example
network functions it is shipped with, check them with TLC on small instances,
and prove the central facts with TLAPS for every value of the constants. Paths
such as `lib/Core/Executor.cpp` are relative to `src/`.

`PROJECT.json` lists components, runs, mutants, the map from definitions to
source lines, findings, hazards and theorems.

## 1. The system

| part | source | operations | modules |
|---|---|---|---|
| contention-set cache model | `lib/CASTAN/ContentionSetCacheModel.cpp` | `load`, `store`, `exec`, `loop`, `getMissCost`, `updateCache`, `memoryOperation`, `getTotalTime` | `ContentionSetCache` |
| search: queue | `lib/CASTAN/CastanSearcher.cpp` 343-413 | `selectState`, `update` | `CastanSearcher`, in `Executor` |
| search: cost map | `lib/CASTAN/CastanSearcher.cpp` 15-176 | the constructor's worklist | `CostMap` |
| executor | `lib/Core/Executor.cpp`, `ExecutorTimers.cpp`, `PTree.cpp` | `fork`, `branch`, memory faults, calls, ending states, seeds, `updateStates`, `run`, timers | `Executor`, `PTree` |
| address space | `lib/Core/AddressSpace.*`, `ExecutionState.cpp` | bind, unbind, write, external call, branch, merge | `AddressSpace`; promise: `PrivateMemory` |
| object bytes | `lib/Core/Memory.cpp` | `read8`, `write8`, flushing, `getUpdates` | `ObjectState`; promise: `ByteArray` |
| solver chain | `lib/Solver/{Caching,CexCaching,Incomplete,Independent,Validating}Solver.cpp`, `Solver.cpp`, `lib/Basic/ConstructSolverChain.cpp`, `TimingSolver.cpp` | the calls of `Solver` and `TimingSolver` through every layer | `SolverCaches`, `IndependentSolver`, `SolverRange` |
| containers and terms of the chain | `MapOfSets.h`, `Expr.cpp`, `Constraints.cpp`, `FastCexSolver.cpp` | insert and search, the create functions, `addConstraint`, the fast solver | `MapOfSets`, `Expressions`, `ConstraintManager`, `FastCexSolver`; composed in `MCSolverChain` |
| reconciliation | `tools/castan/castan.cpp` `processTestCase`, `lib/CASTAN/RainbowTable.cpp` | table search, one havoc after the other | `Reconciliation` |
| example NATs and load balancers | `examples/dpdk-nat-*`, `examples/dpdk-lb-*`, `examples/fake-nf` | `dispatch_packet` over eight kinds of table | `HashNat`, `LoadBalancer`, `HashTables`; promise: `NatTable` |
| Ruby's hash table | `examples/dpdk-nat-ruby/st.c` | every call on one table | `StTable`, `RubyTable`; promise: `OrderedMap` |
| routers | `examples/dpdk-lpm-*`, `fake-nf/ip-asn-lookup-trie.c` | loading and looking up routes | `LpmRouter` |
| VigNAT, MAC-learning bridge | `examples/dpdk-nat-cc`, `examples/dpdk-nfs/maclearning` | `nf_core_process`, `map.c`, `double-chain*.c` | `VigNat`, `Bridge`, `VigMap`, `DoubleChain`; promise: `FlowTable` |
| packet loop | `nf_main.c` of each program | `main`, polling, transmitting, flooding | `PacketLoop`; all programs in `MCNetworkFunctions` |

How the parts interact. `main` builds the module and the cost map, then
`Executor::run` asks the searcher for a state, executes one instruction of it,
lets the timers run and calls `updateStates`, which tells the searcher what was
added and removed. A load or store first goes through the cache model of the
state, which may fix the value of a symbolic pointer, and then through the
address space of the state to the bytes of an object. Every branch asks the
solver chain, whose caches outlive the states. `castan_loop` calls end an
iteration in the cache model and, at the last one, the state. When a state ends,
`processTestCase` reconciles its havocs and writes a packet trace. The network
functions are what CASTAN is applied to; each is a process of its own.

What is hard here and what unit tests hardly reach:

* a state can be ended from many places during one instruction (handler, fork
  time-out, depth, instruction timer, memory cap, cache model), is removed
  later, or is deleted at once when it is new;
* memory is shared by copy-on-write across a tree of states, and each byte of an
  object has up to three copies;
* the priorities in the queue are stale as soon as an instruction is executed;
* the worklist of the cost map runs in the order of pointer addresses, over
  loops whose costs grow;
* overlapping contention sets share lines but have their own LRU order;
* solver answers are cached, negated, split and put together again, after any
  history of time-outs;
* a reconciliation of several havocs can fail half way;
* the tables of the network functions collide, fill up and expire.

Nothing runs concurrently inside the interpreter; the only asynchronous event
is a request to halt (signal handler, timer), which the executor model takes at
any moment. In the packet loop the network cards work next to the program.

## 2. The modules and the code

Common to all: an expression is represented by its value under an assignment of
the program's inputs. Where constraints matter, an assignment is a *world*, the
constraints of a path are the set of worlds that follow it, and a solver query
is a question about that set. This keeps every decision of the code and leaves
out how terms are built (that is the subject of `Expressions`).

**ContentionSetCache.** `cache[i]` is the map of contention set `i` (set -1 holds
the lines that no set lists), `currentTime` the LRU clock, the counters are those
of `loopStats`. `updateCache` is one operator that inserts a line into each of
its sets and evicts where needed. `memoryOperation` covers the constant pointer,
the unique value, the worst-case choice over the contention sets by predicted
cost, giving up, and ending the state. Latencies are in hundredths of a
nanosecond, as in `Xeon` of the build. Left out: the text of the statistics, and
collisions of the random keys that break ties between equal costs.
Instructions before the first `castan_loop` do nothing in the code and in the
model.

**Executor** (with `CastanSearcher`, `PTree`). One variable per member
(`states`, `addedStates`, `removedStates`, `seedMap`, `processTree`,
`haltExecution`), and `at` for the place in the code between two steps. A state
is an address that is reused after it was deleted, which is what makes dangling
pointers visible. `fork` has its three outcomes (solver time-out, one side, both
sides); `Switch`/`branch`/`redistribute`, `Alloc`, `executeMemoryOperation`,
`resolveExact`, `executeFree` and the call through a symbolic pointer are loops
of their own because each turn forks. `updateStates` contains the assertions;
`at = "abort"` stands for a failed one. Options are a record that is chosen in
the initial state. Concrete picks and refused forks are the one-sided outcome of
`fork`. Left out: what instructions compute, `realloc`, replaying a path, test
output. Seeding takes the seeded states in any order instead of round-robin.

**AddressSpace.** `objects[s]` maps objects to cells (`ObjectState`s), cells have
an owner and contents, spaces a key. `branch` copies the map and bumps both keys.
`callExternalFunction` copies out and back and may fail half way at a read-only
object. `merge` is `ExecutionState::merge` as far as memory is concerned: under
the assignment it takes the contents of one side. `PrivateMemory` is the promise:
each state has a memory of its own. (What an external call writes into bytes is
the subject of `ObjectState`.) Left out: reference counts of `MemoryObject`,
and the wrap of the 32-bit key, which needs 2^32 forks along one lineage
(`MaxKey` bounds it).

**ObjectState.** `concreteMask` and `flushMask` are sets of offsets (`flushMask`
holds the bytes that are *not* flushed, as in the code), `knownSymbolics` holds
values or `Null`, `root` and `updates` are the `UpdateList`, oldest first. An
access at a symbolic offset is several steps, one per turn of the flush loop.
`getUpdates` creates the constant array lazily from the longest prefix of
concrete writes. `copyInConcretes` is the `memcpy` by which an external function
changes the concrete store behind the masks: what it writes over a symbolic byte
is lost, and a byte that is already flushed keeps its old value in the list of
updates, if `ExternalsWriteFlushed` lets external functions write such bytes (they
can; see the findings). `ByteArray` is the promise. Left out: accesses of several
bytes, which are loops over these; the copy constructor copies every member.

**CostMap.** A program is a control-flow graph with calls, `castan_loop` calls
and the two cost constants. `direct`, `costs` and `paths` are the three parts of
the cost map; `visit` takes any instruction from the worklist (the code orders it
by pointer), `lookAt` considers one successor, `propagate` re-queues the
instructions that depend on a changed one. The costs are truncated to `long` as
in the code. Recursion is excluded by the assertion at line 105, here by
`WellFormed`, together with the finiteness of a module.

**SolverCaches, IndependentSolver.** An expression is an element of `Exprs` and
`Holds` says under which assignments it is true; a call is the set of its
possible outcomes (a value or a failure, and the caches after it), so that a
time-out of the core solver may happen at every question a layer asks. Each layer
is an operator named after it (`caching_computeValidity`, `cex_computeTruth`,
`staged_computeTruth`, ...), and `options` says which layers exist, as
`constructSolverChain` does. The closure of `getIndependentConstraints` and the
factoring of `getAllIndependentConstraintsSets` are loops over the constraints
as in the code; initial values are computed one factor per step.
Nothing is assumed of the constraints: the cache models ask for values after they
have added a constraint nobody checked (`ContentionSetCacheModel.cpp` 269,
`GenericCacheModel.cpp` 481), and the model has the assertion such a call can run
into (`CexCachingSolver.cpp` 327). `ConstantsAssumption` is about constants only:
a constraint that reads no byte is true, and `false` is the only query whose
negation reads none. `SolverRange` is the bisection of `Solver::getRange`, one question
per step (its shortcuts for Booleans and constants, 115-128, are left out).

**MapOfSets, Expressions, ConstraintManager, FastCexSolver.** The set-trie is a
tree of sorted sets with the searches for subsets and supersets. `Expressions`
has the create functions with their folding and rewriting and, next to them, the
value each expression must have: an overshift is zero, the arithmetic one too
(`Z3Builder.cpp` 248, `test/Feature/arithmetic-right-overshift-sym-conc.c`).
`Checked` stands for the checks that `lib/Module/Checks.cpp` puts before divisions
and shifts. `ConstraintManager` adds a constraint, with the
rewriting by equalities that it starts; `FastCexSolver` propagates ranges and
exact values. `MCSolverChain` lets a behaviour be about one of these; the others
stay at their initial states.

**Reconciliation.** `processTestCase` from the first havoc to the written test
case: per packet, the values of the havocs' outputs are fixed, each is looked up
in the sorted table by the binary search of `RainbowTable.cpp`, records are tried
in order under the constraints chosen so far, and the inputs that were found are
added to the path. Left out: the output files, paths that end inside
`castan_havoc`.

**The network functions.** `HashNat` and `LoadBalancer` are one
`dispatch_packet` over the tables of `HashTables` (buckets, ring, tree, library
maps); nat-ruby calls the operations of `st.c`, which are parameters of `HashNat`
that `MCNetworkFunctions` takes from `StTable` (entries and bins of Ruby's hash,
with rebuilding).
`LpmRouter` loads routes into an array, a trie or `rte_lpm` and looks frames up.
`VigNat` and `Bridge` work on `VigMap` (probing with the counts of chains) and
`DoubleChain` (two lists in one array). The bridge enters a source with the device
that the search of the static table left, always -1, so that a learned address is
flooded like an unknown one. VigNAT computes ports modulo 2^16; its promise has no
modulus. `PacketLoop` has the start-up with its
failures, and the buffers while they are with the card, the program or the pool.
A behaviour of `MCNetworkFunctions` runs one of them. `NatTable`, `FlowTable` and
`OrderedMap` are promises that the tables are shown to keep. `std::map`,
`std::unordered_map`, `rte_hash`, `rte_lpm` and the cards are external; `rte_hash`
refuses an entry only when it is full (the library may give up moving keys about a
little earlier).

## 3. The runs

| run | result | what it checks |
|---|---|---|
| `components` | pass, 880,192 states | four parts that do not meet, one per behaviour. Cache: capacity, LRU order, last use, feasibility and write-backs, with overlapping sets, an unlisted line and pointers over two pages. Object: the cache invariants of the comment in `Memory.cpp`, and that an object is an array of bytes (refinement). Reconciliation: written test cases are real, no record is missed, it ends. Cost map: fixpoint, exact marks, costs are those of paths that take loops at most twice, termination |
| `cache_worstcase` | pass, 268,628 states | the worst-case choice is the costliest value, and a load costs what was predicted |
| `executor_search` | pass, 203,826 states | states, searcher, tree and path count agree; the costliest state is chosen; an ended state never forks; no assertion fails |
| `executor_options` | pass, 286,260 states | seeds, limits, dangling states, dumping, and that a halt ends the run |
| `executor_memory` | violation | `NoAbort` above the memory cap, see findings |
| `memory` | pass, 10,075 states | ownership, read-only objects, merging, and that memory is private (refinement) |
| `object_externals` | violation | a flushed byte is the same in the store and in the list of updates (`FlushedAgree`), see findings |
| `solver_chain` | pass, 653,018 states | the caches are truthful and the answers right; set-trie, range search, folding, path condition and fast solver compute what they stand for |
| `solver_unsat` | violation | a call fails only when the core solver does, see findings |
| `network_functions` | pass, 83,028 states | every program keeps its promise on whatever table it is built, containers stay coherent, buffers are accounted for and returned |
| `lpm_host_routes` | violation | every lookup finds the longest match (`LongestMatch`), see findings |
| `nat_ruby_collision` | violation | `RoundTrip` when two headers share a hash, see findings |

`MCComponents`, `MCSolverChain` and `MCNetworkFunctions` choose in the initial state
which part a behaviour is about; the others stay where they are.

Bounds, and why they are enough to meet the cases that matter:

* cache: associativities 1 and 2, two listed sets and set -1, five instructions
  and up to two iterations. Three lines compete for two ways, one line is in two
  sets, a symbolic pointer ranges over three values on one or two pages.
* executor: three or four addresses, up to three forks, up to three switch
  targets, so that addresses are reused and a state ends while its sibling is
  still in `addedStates`. Two ranks make the queue order matter. Symmetry over
  addresses is used in the runs without liveness.
* memory: two spaces at a time, keys up to 3, five cells: two generations of
  forks, a copy while the sibling holds the old cell, cells reused after the end
  of a state.
* object bytes: two bytes of one bit, three writes: a byte is flushed, written
  again and flushed again around a symbolic access, and external functions write
  unflushed and symbolic bytes. Four writes pass as well.
* solver: three bytes of one bit, seven expressions and their negations (one
  reads at a symbolic index), queries with satisfiable and with contradictory
  constraints, five command lines, three calls: a query is answered from what two
  others, one of them timed out, have left in the caches. Expressions of two creates over bytes of two bits; three constraints of
  sixteen conditions; sets over three elements; ranges of three bits.
* cost map: 48 programs with a caller and a function, loops in either or both,
  `castan_loop` in either or both, the shipped constants (which truncate to 0)
  and larger ones. 64 programs with nested loops pass as well.
* reconciliation: two havocs in one or two packets, a table with collisions, a
  hash without records and an input that is not in the table.
* network functions: tables of three or four entries with colliding keys, two
  outside ports, three flows that expire, two buffers and two clones: each table
  fills up, each key meets a collision, deletions leave holes, pools run out.
  VigNAT's ports fit below `VIG_PORTS`, which stands for 2^16. The hash of
  nat-ruby is injective here, and not in `nat_ruby_collision`.

Deadlock checking is off where the program stops by design (a path that ended, a
run that is done, a worklist that is empty) or where a bound is used up.

Fairness. `Executor!FairSpec` has weak fairness on the interpreter's own steps
only, never on the arrival of a halt request: the interpreter is one thread that
does not block. `MCComponents!PartSpec` likewise has weak fairness on the only loop
of the cost map and of the reconciliation. `PacketLoop` has weak fairness on the polling
loop, which never blocks, and on the cards emptying their transmit queues, which
DPDK's drivers promise; frames need never arrive.

Each property of a passing run has a mutant: a definition with a plausible slip
(`...StaysFlushed`, `...KeepsCurrent`, `...NoUpdate`) under which TLC finds that
property violated.

## 4. Findings

* `executor_memory`: over the memory cap, `checkMemoryUsage` picks its victims
  from `states`, which still holds the states that the instruction just ended.
  One of them is ended twice and the assertion in `updateStates` fails.
  `processTimers` looks into `removedStates` first and is not affected.
* `solver_unsat`: `CexCachingSolver::getAssignment` returns the cached pointer in
  place of `true`, so that a cached "unsatisfiable" is reported as a failure of
  the solver (`CexCachingSolver.cpp` 219).
* `object_externals`: `AddressSpace::copyInConcretes` copies what an external
  function wrote into the concrete store and leaves the flush mask alone
  (`AddressSpace.cpp` 323). A byte that a read at a symbolic offset has flushed
  keeps its old value in the list of updates, so that later reads at symbolic
  offsets miss what the external function wrote. `IsByteArray` is therefore stated
  with external writes to all other bytes (`ExternalsWriteFlushed` is FALSE).
* `lpm_host_routes`: the lookup of lpm-btrie and of the trie in fake-nf looks at a
  node before it goes down by one bit, and never at the node below the last bit: a
  route for a single address is not found. `LongestMatchInReach` is the promise the
  tries keep, `LongestMatch` the one that is documented.
* `nat_ruby_collision`: `hash_key_equals` is 0 for different headers, which is what
  `st.c` takes for equal, so that nat-ruby takes two headers with the same 32-bit
  hash for one. `IsNat` and `RoundTrip` hold for it when no two hashes collide.

Observations that no run is spent on:

* Executor. `--terminate-on-unsat-sym-indices` ends the state inside the cache
  model (`ContentionSetCacheModel.cpp` 309), and the load or store goes on with it
  and can end it again. The call through an invalid symbolic pointer ends the
  first state where the fork returned another one (about 1872-1895). These two
  and the memory cap are what `Calm` excludes below. `branch` does not look at the
  memory cap and can pass `--max-forks`. A switch loses its default when the
  default shares its destination with a possible case.
* Cache. `--max-loops` is documented as "(default: until cache state loops)", but
  with the default 0 the first comparison in `loop()` already ends the path. A
  store that misses in a write-back cache is predicted at hit latency, so
  `LoadCostPredicted` is about loads. A line that a pointer can reach on two pages
  is judged by one solver answer, so `WorstCasePick` is about one page.
* Cost map. The constants 0.05 and 0.97 of the Xeon configuration are 0 as
  `long`, so that costs differ only by calls and ends of paths. `successorCosts`
  of a call is not written while the called function leads to a `castan_loop`;
  `getPriority` then adds an old value or 0. The cost of a call can fall when the
  called function becomes direct, so the costs are not monotone.
* Solver. `CachingSolver::computeTruth` takes a cached `MustBeFalse` for "not
  valid", which is right only when the constraints can be satisfied. The cache
  models ask for a value under constraints that may contradict each other
  (`ContentionSetCacheModel.cpp` 269, `GenericCacheModel.cpp` 481 and 557), which
  trips an assertion in `CexCachingSolver::computeValue` or, when the independence
  solver drops the contradiction, yields a value; `AnswersRight` says nothing of
  these calls, and initial values are right in any case. `AShrExpr` folds an
  overshift of a Boolean to the operand (`Expr.cpp` 923), where the solvers have
  zero: `FoldsRight` needs the overshift checks, which are on by default.
  `Solver::getInitialValues` leaves `hasSolution` uninitialised on failure.
  `FastCexSolver`, off by default, asserts on contradictory exact values
  (821-828) and on empty ranges; the model has the outcome "abort" for these.
  `ExprRangeEvaluator` shifts by 8 for every `Concat`, whatever the width.
* Network functions. None of the example NATs forgets a connection; the search
  for a free port does not end when all are taken. A full ring or `rte_hash`
  silently drops the entry. nat-tree's `hash_get` result is used although it may
  be null when two ports collide. The bridge stores the device -1 for every
  address it learns and so floods every frame. A configuration of VigNAT with
  `start_port` + `max_flows` beyond 2^16 is accepted (`nat_config.c` 93, 100) and
  breaks the assertion of `loop.h` 18; `IsFlowTable` and `ContainersCoherent` are
  checked with ports that fit.
  `st_shift` on a table without entries leaves deleted bins behind.

## 5. The proofs

All theorems hold for every value of the constants that satisfies the named
assumptions; TLC evaluates these assumptions on its instances. Each property was
checked by TLC before it was proved. A module of proofs has, for each action, a
lemma that extracts its equations and one step per conjunct it can disturb.

| module | theorems (property of a run) |
|---|---|
| `ContentionSetCacheProofs` | `Invariance`, `Consistency` (`CacheAndPathConsistent`), `Accounting` (`WritebacksArePaidFor`), `LoadsCostAsPredicted` (`LoadCostPredicted`), `ChoicesAreTheWorst` (`WorstCasePick`) |
| `StateProofs` | `Invariance`, `SharingStaysSafe` (`SharingIsSafe`), `Isolation` (`MemoryIsPrivate`), `MergeIsWhole` (`MergeTakesOneSide`); `ObjectInvariance`, `CachesAgree` (`CachesConsistent`), `ImplementsByteArray` (`IsByteArray`); `ReconcileInvariance`, `WrittenTestCasesAreReal` (`TestCasesReal`), `NoRecordSkipped` (`NoneMissed`) |
| `CostMapProofs` | `Invariance`, `FixpointWhenDone`, `MarksAreExact`, `CompleteWhenDone` (`MapComplete`), `PathsAlwaysAddUp` (`PathsAddUp`) |
| `IndependenceProofs`, `SolverProofs` | `RangeSearchIsRight` (`RangeIsTight`), `CachesStaySound` (`CachesSound`), `AnswersStayRight` (`AnswersRight`) |
| `ExecutorProofs` | `Invariance`, `StatesAreMirrored` (`StatesMirrored`), `NoStateDangles`, `CostliestIsSelected` (`SelectsCostliest`), `SeedsAreFollowed` (`SeedsFollowStates`), `EndsAreCounted`, `NeverAborts` (`NoAbort`), `EveryPathIsAccounted` (`PathsAccounted`), `StatesAreReleased` (`StatesReleasedInTime`), `EndedStatesNeverFork` (`EndedNeverForks`) |
| `NetworkFunctionProofs` | `BuffersInvariance` (`BuffersAccounted`), `LongestMatchInvariance` (`LongestMatchInReach`), `LongestMatchWithoutTries` |
| `HashTableProofs` | `EvenlySpreadInvariance` (`EvenlySpread`), `ClientsStayAlways` (`ClientsStay`), `NatsRefine` (`IsNat`), `RoundTripInvariance` (`RoundTrip`) |

**Cache** (`SizesAssumption`, `SetsAssumption`, `OptionsAssumption`,
`PointerAssumption`, `LatencyAssumption`: sizes and associativities are positive,
pointers range over addresses, a miss takes a whole number of nanoseconds and no
less than a hit). The inductive invariant is the conjunction of the type
invariant, capacity, placement (`LinesInOwnSets`), LRU order, last use,
feasibility and the iteration bound. The conjuncts need each other: an eviction
finds a unique victim only because use times are distinct, and inserting keeps
them distinct only because none is ahead of the clock. `Accounting` is inductive
on top of it: an access adds one to the clock and one hit or miss, and a
write-back turns a dirty copy into a miss, while a write makes at most one copy
dirty per set; that the counters of several loops add up is an induction over
the list of loops. For `LoadsCostAsPredicted` the difference of two totals is
reduced to the counters that one access changes. `ChoicesAreTheWorst` adds
`WorstCaseSetting` (every set is scanned, sets are disjoint, one page): the scan
visits the sets by falling `getMissCost`, a set it passes over has only cached
candidates, and a candidate that is not cached costs what its set predicts.

**Memory** (`KeyAssumption`, `ReadOnlyAssumption`, `ByteAssumption`,
`SizeAssumption`). For address spaces the invariant joins what `AddressSpace.h`
documents (the owner of a cell is never ahead of the key of a space that binds
it) with its consequence that a cell whose owner equals the key is bound in that
space only, and with the sharing of read-only cells. From it every step changes
the memory of one space: `Isolation` is the refinement of `PrivateMemory`. For
objects the documented cache invariants are not enough for reads at symbolic
offsets; the inductive invariant adds `Coherent` (a byte that is flushed is the
same in the list of updates) and `FlushedBelow` (what the flush loop has passed is
flushed and, before a write, not cached). `ImplementsByteArray` is the refinement
of `ByteArray`; it assumes `~ExternalsWriteFlushed`, and `object_externals` shows
that the assumption is needed. The cache invariants themselves (`CachesAgree`) hold
with and without it.

**Cost map** (`ProgramAssumption`: programs are finite, well formed and without
recursion). Every instruction whose cost a visit would change is still in the
worklist or being visited (`PendingOrSettled`), a marked instruction has a
`castan_loop` ahead (`Marked`), and paths stay in marked instructions of the
function (`PathsMarked`), which is why the test that stops loops never hides a
`castan_loop`. `PathInv` says that the cost of an instruction is the sum over the
instructions of its path, weighted by how often they are on it. Its proof is an
induction over finite sets: adding an instruction to a path, or joining a callee's
path, adds its weight to the sum. `PathsInRank` (paths enter functions of a lower
rank only) is what makes the callee's path disjoint from the caller's.

**Reconciliation** (`HashAssumption`, `TableAssumption`: the table is sorted and
its records are true; `PathAssumption`, `OptionAssumption`). `HavocsReal` and
`PacketsReal` say that the constraints hold the inputs chosen so far,
`SearchBrackets` is the loop invariant of the binary search, and
`CursorSkipsNone` says that the records the cursor has passed were refused.

**Solver chain** (`ExprAssumption`, `QueriesAssumption`, `ReadsAssumption`: the
value of an expression depends on the bytes it reads; `ConstantsAssumption`;
`WidthAssumption`). `IndependenceProofs` shows that both factorings
are sound. The loops are runs of a step (`RunOf`) and are handled by induction
over their length: the closure keeps that what is left on the worklist reads no
byte of what was taken (`ClosureInv`), and ends because each pass that is not the
last shortens the worklist; the factors are separate and cover the query
(`QueueInv`, `PassInv`). If the constraints can be satisfied, those left out, which
read no byte of the query, can be satisfied too, so the answers are the same
(`SameAnswers`); the bytes found for separate factors can be put together, and if
one factor has none the query has none. `SolverProofs` goes up layer by
layer: each layer is right if the one below is, and leaves the caches truthful
(`Truthful`), with lemmas for `lookupAssignment`, `canonicalizeQuery` and the
partial validities. `AnswersInv` carries this through the steps of
`getInitialValues`. `RangeInv` is the invariant of the bisection.

**Executor** (`BoundsAssumption`, `OptionsAssumption`, `StatesAssumption`).
`MirrorInv` has five parts: the states and those about to be added have exactly
the leaves of the process tree (`StatesInv`), seeds belong to live states
(`SeedsInv`), the handlers hold live states only and none twice at each of the
places in the code (`LocalInv`), the queue holds every state once at its stored
priority, except for the current one (`QueueInv`), and types. It holds under every
option, the memory cap included; `StatesMirrored`, `NoneDangling` and
`SelectsCostliest` follow. The proof summarises each handler by the sets of states
it adds and ends (`Effect`, `Handler`), so that one lemma (`HandlerKeeps`) carries
the invariant for all of them. `SeedsAreFollowed` assumes `SeedsGiven`
(`--only-replay-seeds` comes with seeds) and adds `ReplayInv`. The theorems on
ends assume `Calm`: memory use stays near its cap, unsatisfiable indices do not
end states, no symbolic function pointer is called. Under it `EndedInv` says that
no state is ended twice and that forks, states, ends and counted paths balance
inside every handler. `executor_memory` shows that the assumption is needed.

**Packet loops** (`LoopAssumption`: at least one device, sizes are numbers).
`LoopInv` adds to `BuffersAccounted` what `run` holds at each place
(`HandRight`): nothing while it polls, one frame from the moment it takes it out
of a queue until the end of the round. The references of a buffer are counted as the
*places* in the queues that hold it; a frame that joins or leaves a queue changes
that number by one (`Joins`, `Leaves`).

**Routers** (`LpmAssumption`: routes have addresses of `WIDTH` bits and lengths
from 1; `PowersOfTwo`: the laws of powers that the provers lack). A cell of the
direct array holds the last of the longest routes that cover it (`CellsRight`),
and a node of a trie the last route that leads to it (`NodesRight`). That the
cells a route covers are those of the addresses with its first bits is arithmetic
on quotients (`QuotientOfQuotient`, `SamePrefix`, `CoveredIs`). For the direct array
and `rte_lpm` this is `LongestMatch` itself (`LongestMatchWithoutTries`).

**Load balancers** (`LbAssumption`: sizes are positive, hashes are numbers, the
addresses of the servers differ). The tables are shown to be maps first: after
`hash_set` a key reads as what was set and every other key as before. For the
chains this is immediate; the ring needs `RingRight` (no unused cell between the
hash of a key and its cell), the tree `TreeRight` (it has the nodes above each of
its nodes and a depth), so that the walk for a key ends in one place, where a new
node disturbs no other walk. `TableKeeps` joins the four. On top of
that `LbInv` says that the servers before the one whose turn it is have one
client more (`Spread`), unless the ring is full.

**NATs** (`NatAssumption`: hashes are numbers, and the ring and `rte_hash` have an
even number of entries, as their sizes 2^24 and 2^17 do). `NatInv` has the same
`TableRight`, and the number of entries is even: connections are entered in pairs,
so a table of even size has room for both entries of a connection or for neither,
and the answer to a translated packet is never lost alone. With it each
`dispatch_packet` maps to one action of `NatTable` (`NatSteps`), which gives the
refinement `NatsRefine`. That the entries of `NatTable` are each other's partners
(`Paired`) is inductive there, and `RoundTripInvariance` follows through the
refinement. nat-ruby is left out of both theorems, since nothing is proved of
the table in `st.c`.

What stays with TLC, and why:

* liveness under fairness (`HaltEnds`, `CostMapTerminates`, `ReconciliationEnds`,
  `BuffersReturn`): out of reach of the prover;
* `SearchesFindSets`, `FoldsRight`, `PathConditionExact`, `FastCexRight`: the
  set-trie and the terms are recursive data, and the operators on them recursive
  operators, which the prover cannot reason about;
* `IsOrderedMap`, and `IsNat` and `RoundTrip` for nat-ruby: a rebuild of the table
  in `st.c` is a fold over its entries with an operator as its argument, which the
  prover cannot instantiate;
* `ContainersCoherent` and `IsFlowTable`: what the double chain holds is a walk
  along its links, and that an operation keeps the walk is an induction over it.

A leaf of a proof names the prover `Zenon` where it needs no arithmetic; the
others are for the SMT solver.

## 6. What is not modelled

Parts without a module are listed in `PROJECT.json` with the reason. In short:
the translation of expressions for STP, Z3 and metaSMT, parsers and printers, the
LLVM passes, statistics and loggers are translations or I/O; the POSIX, libc and
replay runtimes belong to the analysed program; the generic cache model, the
searchers other than CASTAN's and the tree streams are not used in the runs of
CASTAN that the documentation describes. A large part of the lines of the
repository is not program text to be modelled: copies of the same containers in
`dpdk-nfs/maclearning` and `dpdk-nfs/solnat-cpp`, VeriFast annotations in their
sources, and generated or borrowed test programs (`test/Programs/pcregrep.c`
alone has more lines than `lib/Core`). The map covers what the modules stand for.

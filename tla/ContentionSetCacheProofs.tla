---------------------- MODULE ContentionSetCacheProofs ----------------------
(* Safety of ContentionSetCache for every cache geometry, every family of    *)
(* contention sets and every program.                                        *)
EXTENDS ContentionSetCache, FiniteSetTheorems, TLAPS

\* The context is large: the SMT solver is given more time than by default.
USE SMTT(20), Zenon

-----------------------------------------------------------------------------
(* Addresses, lines and sets *)

\* A program touches finitely many cache blocks.
LEMMA BlockFinite == IsFiniteSet(Block)
<1>1. Pages * PAGE - 1 \in Int
  BY SizesAssumption
<1>2. IsFiniteSet(Addr)
  BY <1>1, FS_Interval DEF Addr
<1>. DEFINE f == [a \in Addr |-> BlockAddr(a)]
<1>3. f \in Surjection(Addr, Block)
  BY Zenon DEF Surjection, Block
<1>4. QED
  BY Zenon, <1>2, <1>3, FS_Surjection

\* updateCache's masks take every address to a block, and every block to a
\* line and to at least one set.
LEMMA BlockSets ==
  /\ \A a \in Addr : BlockAddr(a) \in Block
  /\ \A b \in Block : /\ b \in Int
                      /\ PageAddr(b) \in Line
                      /\ SetsOf(b) \subseteq SetIdx
                      /\ SetsOf(b) # {}
<1>1. \A a \in Addr : a \in Int /\ BlockAddr(a) \in Int
  BY SizesAssumption DEF Addr, BlockAddr
<1>2. \A b \in Block : SetsOf(b) \subseteq SetIdx /\ SetsOf(b) # {}
  BY Zenon DEF SetsOf, contentionSetIdxs, SetIdx, Line
<1>3. QED
  BY Zenon, <1>1, <1>2 DEF Block, Line

\* Every set, listed or not, has room for a line.
LEMMA AssociativityType == \A i \in SetIdx : Associativity(i) \in Nat \ {0}
  BY SetsAssumption, SizesAssumption DEF Associativity, SetIdx, ListedSet

-----------------------------------------------------------------------------
(* The inductive invariant *)

\* A line is cached only in the sets that list its page-relative address, so
\* a lookup through contentionSetIdxs finds every copy of a block.
LinesInOwnSets ==
    \A i \in SetIdx : \A b \in DOMAIN cache[i] : i \in SetsOf(b)

\* A path explores at most --max-loops iterations, and at least the first.
LoopsBounded ==
    /\ Len(loopStats) <= 1 \/ Len(loopStats) <= MaxLoops
    /\ status = "exited" => Len(loopStats) >= MaxLoops

Inv ==
    /\ TypeOK
    /\ WithinAssociativity
    /\ LinesInOwnSets
    /\ LruOrder
    /\ LastUsedIsCached
    /\ PathFeasible
    /\ LoopsBounded

\* A nonempty set of cached lines has a least recently used one, and only one
\* since no two lines of a set were used at the same time.
LEMMA LruPtrExists ==
  ASSUME TypeOK, LruOrder, NEW i \in SetIdx, DOMAIN cache[i] # {}
  PROVE  LruPtr(cache[i]) \in DOMAIN cache[i]
<1>. DEFINE lines == cache[i]
            T == {lines[x].useTime : x \in DOMAIN lines}
<1>1. T \subseteq Nat /\ T # {}
  BY DEF TypeOK, Entry
<1>2. PICK m \in T : \A n \in T : ~ (<<n, m>> \in OpToRel(<, Nat))
  <2>. HIDE DEF T
  <2>. QED BY <1>1, NatLessThanWellFounded, WFMin, Zenon
<1>3. \A n \in T : m <= n
  <2>. SUFFICES ASSUME NEW n \in T PROVE m <= n
    BY Zenon
  <2>1. m \in Nat /\ n \in Nat
    BY Zenon, <1>1
  <2>2. ~(n < m)
    BY <1>2, <2>1, Zenon DEF OpToRel
  <2>. QED BY <2>1, <2>2
<1>4. PICK x \in DOMAIN lines : lines[x].useTime = m
  BY Zenon
<1>5. \A y \in DOMAIN lines : lines[y].useTime \in Nat /\ x \in Int
  BY Zenon, BlockSets DEF TypeOK, Entry
<1>6. ASSUME NEW y \in DOMAIN lines
      PROVE  \/ lines[x].useTime < lines[y].useTime
             \/ lines[x].useTime = lines[y].useTime /\ x <= y
  <2>1. lines[x].useTime <= lines[y].useTime
    BY Zenon, <1>3, <1>4
  <2>2. lines[x].useTime = lines[y].useTime => x = y
    BY Zenon DEF LruOrder
  <2>. QED BY <1>5, <2>1, <2>2
<1>7. QED
  BY <1>6, Zenon DEF LruPtr

\* One set after updateCache: the accessed block is there with the new time,
\* the others are as they were, and the set did not outgrow its associativity.
LEMMA AccessedSet ==
  ASSUME TypeOK, LruOrder, WithinAssociativity,
         NEW i \in SetIdx, NEW b \in Block, NEW isWrite \in BOOLEAN, NEW t \in Nat
  PROVE  LET new == Accessed(i, b, isWrite, t)
         IN  /\ DOMAIN new \subseteq DOMAIN cache[i] \cup {b}
             /\ new \in [DOMAIN new -> Entry]
             /\ b \in DOMAIN new /\ new[b].useTime = t
             /\ \A x \in DOMAIN new \ {b} : new[x] = cache[i][x]
             /\ Cardinality(DOMAIN new) <= Associativity(i)
<1>. DEFINE lines == cache[i]
            D == DOMAIN lines
            new == Accessed(i, b, isWrite, t)
<1>1. /\ D \subseteq Block
      /\ lines \in [D -> Entry]
      /\ IsFiniteSet(D)
      /\ Cardinality(D) \in Nat
      /\ Cardinality(D) <= Associativity(i)
      /\ Associativity(i) \in Nat \ {0}
  BY Zenon, BlockFinite, FS_Subset, FS_CardinalityType, AssociativityType
  DEF TypeOK, WithinAssociativity
<1>2. CASE b \in D
  <2>1. new = [lines EXCEPT ![b] =
                 [useTime |-> t,
                  dirty |-> IF isWrite THEN CACHE_WRITEBACK ELSE lines[b].dirty]]
    BY Zenon, <1>2 DEF Accessed
  <2>2. [useTime |-> t,
         dirty |-> IF isWrite THEN CACHE_WRITEBACK ELSE lines[b].dirty] \in Entry
    BY Zenon, <1>1, <1>2, OptionsAssumption DEF Entry
  <2>. QED BY <1>1, <1>2, <2>1, <2>2
<1>3. CASE b \notin D
  <2>. DEFINE kept == D \ (IF Full(i) THEN {LruPtr(lines)} ELSE {})
              fresh == [useTime |-> t, dirty |-> isWrite /\ CACHE_WRITEBACK]
  <2>1. new = [x \in kept \cup {b} |-> IF x = b THEN fresh ELSE lines[x]]
    BY Zenon, <1>3 DEF Accessed
  <2>2. fresh \in Entry
    BY Zenon, OptionsAssumption DEF Entry
  <2>3. IsFiniteSet(kept) /\ Cardinality(kept) <= Associativity(i) - 1
                          /\ Cardinality(kept) \in Nat
    <3>1. CASE Full(i)
      <4>1. D # {}
        BY <1>1, <3>1, FS_EmptySet DEF Full
      <4>2. LruPtr(lines) \in D
        BY Zenon, <4>1, LruPtrExists
      <4>3. kept = D \ {LruPtr(lines)}
        BY Zenon, <3>1
      <4>4. IsFiniteSet(kept) /\ Cardinality(kept) = Cardinality(D) - 1
        BY SMTT(30), <1>1, <4>2, <4>3, FS_RemoveElement
      <4>. QED BY <1>1, <4>4, FS_CardinalityType
    <3>2. CASE ~Full(i)
      BY <1>1, <3>2 DEF Full
    <3>. QED BY Zenon, <3>1, <3>2
  <2>4. Cardinality(kept \cup {b}) <= Associativity(i)
    <3>. HIDE DEF kept
    <3>1. \/ Cardinality(kept \cup {b}) = Cardinality(kept)
          \/ Cardinality(kept \cup {b}) = Cardinality(kept) + 1
      BY Zenon, <2>3, FS_AddElement
    <3>. QED BY <1>1, <2>3, <3>1
  <2>. HIDE DEF fresh
  <2>5. \A x \in kept : x \in D
    BY Zenon
  <2>. HIDE DEF kept
  <2>6. DOMAIN new = kept \cup {b}
    BY Zenon, <2>1
  <2>7. new \in [kept \cup {b} -> Entry]
    BY Zenon, <1>1, <2>1, <2>2, <2>5
  <2>8. new[b].useTime = t
    BY <2>1 DEF fresh
  <2>. QED BY Zenon, <1>1, <1>3, <2>1, <2>4, <2>5, <2>6, <2>7, <2>8
<1>. QED BY Zenon, <1>2, <1>3

\* The part of the invariant that is about the cache.
CacheInv ==
    /\ DOMAIN cache = SetIdx
    /\ \A i \in SetIdx : /\ DOMAIN cache[i] \in SUBSET Block
                         /\ cache[i] \in [DOMAIN cache[i] -> Entry]
    /\ currentTime \in Nat
    /\ WithinAssociativity
    /\ LinesInOwnSets
    /\ LruOrder
    /\ LastUsedIsCached

\* updateCache keeps every set sound, whichever sets the block is in.
LEMMA UpdateCacheKeeps ==
  ASSUME TypeOK, CacheInv, NEW b \in Block, NEW isWrite \in BOOLEAN,
         updateCache(b, isWrite)
  PROVE  CacheInv'
<1>. DEFINE t == currentTime + 1
            new(i) == Accessed(i, b, isWrite, t)
<1>1. t \in Nat /\ currentTime' = t /\ currentTime \in Nat
  BY DEF CacheInv, updateCache
<1>2. /\ DOMAIN cache' = SetIdx
      /\ \A i \in SetIdx : cache'[i] = IF i \in SetsOf(b) THEN new(i) ELSE cache[i]
  BY Zenon DEF updateCache
<1>3. ASSUME NEW i \in SetIdx
      PROVE  /\ DOMAIN new(i) \subseteq DOMAIN cache[i] \cup {b}
             /\ new(i) \in [DOMAIN new(i) -> Entry]
             /\ b \in DOMAIN new(i) /\ new(i)[b].useTime = t
             /\ \A x \in DOMAIN new(i) \ {b} : new(i)[x] = cache[i][x]
             /\ Cardinality(DOMAIN new(i)) <= Associativity(i)
  BY <1>1, AccessedSet DEF CacheInv
<1>. HIDE DEF new, t
<1>4. ASSUME NEW i \in SetIdx
      PROVE  /\ DOMAIN cache'[i] \in SUBSET Block
             /\ cache'[i] \in [DOMAIN cache'[i] -> Entry]
             /\ Cardinality(DOMAIN cache'[i]) <= Associativity(i)
             /\ \A c \in DOMAIN cache'[i] : i \in SetsOf(c)
  BY <1>2, <1>3 DEF CacheInv, WithinAssociativity, LinesInOwnSets
<1>5. ASSUME NEW i \in SetIdx,
             NEW x \in DOMAIN cache'[i], NEW y \in DOMAIN cache'[i]
      PROVE  /\ cache'[i][x].useTime \in 1..t
             /\ cache'[i][x].useTime = cache'[i][y].useTime => x = y
  <2>1. ASSUME NEW z \in DOMAIN cache'[i]
        PROVE  \/ z = b /\ cache'[i][z].useTime = t
               \/ z \in DOMAIN cache[i] /\ cache'[i][z] = cache[i][z]
    BY <1>2, <1>3
  <2>2. \A z \in DOMAIN cache[i] : cache[i][z].useTime \in 1..currentTime
    BY Zenon DEF CacheInv, LruOrder
  <2>3. \A u, v \in DOMAIN cache[i] :
           cache[i][u].useTime = cache[i][v].useTime => u = v
    BY Zenon DEF CacheInv, LruOrder
  <2>. QED BY <1>1, <2>1, <2>2, <2>3 DEF t
<1>6. LastUsedIsCached'
  <2>1. \A i \in SetsOf(b) :
           b \in DOMAIN cache'[i] /\ cache'[i][b].useTime = currentTime'
    BY <1>1, <1>2, <1>3, BlockSets
  <2>. QED BY Zenon, <2>1 DEF LastUsedIsCached, SetsOf
<1>7. QED
  BY <1>1, <1>2, <1>4, <1>5, <1>6
  DEF CacheInv, WithinAssociativity, LinesInOwnSets, LruOrder, SetsOf, Associativity

-----------------------------------------------------------------------------
(* Concretization *)

\* Whatever the scan of the contention sets settles on is a value the pointer
\* takes for an input that still follows the path.
LEMMA ChoicesFeasible ==
  ASSUME NEW ptr \in Pointer, NEW isWrite \in BOOLEAN,
         NEW val \in SolverValues(ptr), NEW o \in SetOrders(isWrite), NEW trivial
  PROVE  AddressChoices(ptr, val, trivial, o) \subseteq Values(ptr)
<1>1. \A a \in Line : val[a] = Unsat \/ val[a] \in Values(ptr)
  <2>1. PICK S \in SUBSET Values(ptr) :
           val = [a \in Line |-> IF \E x \in S : LineOf(x) = a
                                 THEN CHOOSE x \in S : LineOf(x) = a ELSE Unsat]
    BY Zenon DEF SolverValues
  <2>2. \A a \in Line : (\E x \in S : LineOf(x) = a)
                           => (CHOOSE x \in S : LineOf(x) = a) \in S
    BY Zenon
  <2>. QED BY Zenon, <2>1, <2>2
<1>2. \A n \in 1..NumSets : \A a \in Candidates(val, trivial, o[n]) :
         val[a] \in Values(ptr)
  <2>. SUFFICES ASSUME NEW n \in 1..NumSets,
                       NEW a \in Candidates(val, trivial, o[n])
                PROVE  val[a] \in Values(ptr)
    BY Zenon
  <2>1. o[n] \in ListedSet
    BY Zenon DEF SetOrders
  <2>2. a \in Line /\ val[a] # Unsat
    BY Zenon, <2>1, SetsAssumption DEF Candidates, Candidate
  <2>. QED BY Zenon, <1>1, <2>2
<1>3. Found(val, trivial, o) \subseteq Values(ptr)
  BY Zenon, <1>2 DEF Found, Overflows, Scanned
<1>4. Backup(val, trivial, o) \subseteq Values(ptr)
  BY Zenon, <1>2 DEF Backup, Scanned
<1>5. QED
  BY Zenon, <1>3, <1>4 DEF AddressChoices

\* Counting an event keeps the counters natural numbers.
LEMMA IncType == \A stats \in Stats : \A C : Inc(stats, C) \in Stats
  BY DEF Inc, Stats

\* A load or a store keeps the invariant; when it makes the pointer concrete
\* the path keeps the inputs for which the pointer has that value.
LEMMA MemoryOperationKeeps ==
  ASSUME Inv, enabled, NEW ptr \in Pointer, NEW isWrite \in BOOLEAN,
         memoryOperation(ptr, isWrite)
  PROVE  Inv'
<1>. DEFINE stats == Inc(Back, {"instructionCount",
                                IF isWrite THEN "writeCount" ELSE "readCount"})
<1>1. /\ loopStats \in Seq(Stats) /\ Len(loopStats) \in 1..Len(loopStats)
      /\ Back \in Stats
  BY DEF Inv, TypeOK, Back
<1>2. stats \in Stats
  BY Zenon, <1>1, IncType
<1>3. ASSUME NEW st \in Stats
      PROVE  /\ BackStats(st) \in Seq(Stats) /\ BackStats(st) # <<>>
             /\ Len(BackStats(st)) = Len(loopStats)
  BY <1>1 DEF BackStats
<1>. HIDE DEF stats
<1>4. \A b : UpdatedStats(stats, b, isWrite) \in Stats
  BY Zenon, <1>2, IncType DEF UpdatedStats
<1>5. Values(ptr) \subseteq Addr
  BY Zenon, PointerAssumption DEF Values, Inv, TypeOK
<1>6. CacheInv
  BY Zenon DEF Inv, TypeOK, CacheInv
<1>7. ASSUME NEW x \in Values(ptr), AccessAt(x, isWrite, stats)
      PROVE  /\ CacheInv'
             /\ loopStats' \in Seq(Stats) /\ loopStats' # <<>>
             /\ Len(loopStats') = Len(loopStats)
             /\ enabled' = enabled /\ status' = status
  <2>1. BlockAddr(x) \in Block
    BY Zenon, <1>5, BlockSets
  <2>2. CacheInv'
    BY Zenon, <1>6, <1>7, <2>1, UpdateCacheKeeps DEF Inv, AccessAt
  <2>. QED BY Zenon, <1>3, <1>4, <1>7, <2>2 DEF AccessAt
<1>8. CASE ConcreteAccess(ptr, isWrite, stats)
  BY Zenon, <1>7, <1>8 DEF ConcreteAccess, Inv, TypeOK, CacheInv, PathFeasible, LoopsBounded
<1>9. CASE SymbolicAccess(ptr, isWrite, stats)
  <2>1. PICK val \in SolverValues(ptr), o \in SetOrders(isWrite) :
        \E trivial \in TriviallyUnsat(val) :
          \/ /\ Gone(val, trivial, o)
             /\ status' = "early"
             /\ loopStats' = BackStats(stats)
             /\ UNCHANGED <<enabled, cache, currentTime, constraints>>
          \/ /\ ~Gone(val, trivial, o)
             /\ \E x \in AddressChoices(ptr, val, trivial, o) :
                  /\ AccessAt(x, isWrite, stats)
                  /\ constraints' = {w \in constraints : ptr[w] = x}
    BY Zenon, <1>9 DEF SymbolicAccess
  <2>2. CASE /\ status' = "early"
             /\ loopStats' = BackStats(stats)
             /\ UNCHANGED <<enabled, cache, currentTime, constraints>>
    BY <1>2, <1>3, <2>2
    DEF Inv, TypeOK, WithinAssociativity, LinesInOwnSets, LruOrder,
        LastUsedIsCached, PathFeasible, LoopsBounded, SetsOf, Associativity
  <2>3. CASE \E x \in Values(ptr) : /\ AccessAt(x, isWrite, stats)
                                    /\ constraints' = {w \in constraints : ptr[w] = x}
    <3>1. PICK x \in Values(ptr) : /\ AccessAt(x, isWrite, stats)
                                   /\ constraints' = {w \in constraints : ptr[w] = x}
      BY Zenon, <2>3
    <3>2. constraints' # {} /\ constraints' \subseteq constraints
      BY Zenon, <3>1 DEF Values
    <3>. QED BY Zenon, <1>7, <3>1, <3>2 DEF Inv, TypeOK, CacheInv, PathFeasible, LoopsBounded
  <2>. QED BY Zenon, <2>1, <2>2, <2>3, ChoicesFeasible
<1>10. QED
  BY Zenon, <1>8, <1>9 DEF memoryOperation, stats

-----------------------------------------------------------------------------
(* The theorems *)

\* The cache that the constructor leaves satisfies the invariant.
LEMMA InitInv == Init => Inv
<1>. SUFFICES ASSUME Init PROVE Inv
  BY Zenon
<1>1. \A i \in SetIdx : cache[i] = <<>> /\ DOMAIN cache[i] = {}
  BY DEF Init
<1>0. <<>> \in [{} -> Entry]
  OBVIOUS
<1>2. TypeOK
  <2>1. \A i \in SetIdx : /\ DOMAIN cache[i] \in SUBSET Block
                          /\ cache[i] \in [DOMAIN cache[i] -> Entry]
    BY Zenon, <1>0, <1>1
  <2>2. DOMAIN cache = SetIdx /\ loopStats \in Seq(Stats)
    BY DEF Init
  <2>. QED BY Zenon, <2>1, <2>2 DEF Init, TypeOK
<1>3. WithinAssociativity
  BY <1>1, FS_EmptySet, AssociativityType DEF WithinAssociativity
<1>. QED
  BY <1>1, <1>2, <1>3, PointerAssumption
  DEF Init, Inv, LinesInOwnSets, LruOrder, LastUsedIsCached, PathFeasible, LoopsBounded

\* Every load, store, instruction and castan_loop keeps the invariant.
LEMMA NextInv == Inv /\ [Next]_vars => Inv'
<1>. SUFFICES ASSUME Inv, [Next]_vars PROVE Inv'
  BY Zenon
<1>. USE DEF WithinAssociativity, LinesInOwnSets, LruOrder, LastUsedIsCached,
             PathFeasible, LoopsBounded, SetsOf, Associativity
<1>0. enabled => /\ Len(loopStats) \in Nat \ {0}
                 /\ Counted \in Seq(Stats) /\ Counted # <<>>
                 /\ Len(Counted) = Len(loopStats)
  <2>. SUFFICES ASSUME enabled
                PROVE  /\ Len(loopStats) \in Nat \ {0}
                       /\ Counted \in Seq(Stats) /\ Counted # <<>>
                       /\ Len(Counted) = Len(loopStats)
    BY Zenon
  <2>1. loopStats \in Seq(Stats) /\ Len(loopStats) \in 1..Len(loopStats)
    BY DEF Inv, TypeOK
  <2>2. Inc(Back, {"instructionCount"}) \in Stats
    BY <2>1, IncType DEF Back
  <2>. QED BY <2>1, <2>2 DEF Counted, BackStats
<1>1. ASSUME NEW ptr \in Pointer, Load(ptr) PROVE Inv'
  BY Zenon, <1>1, MemoryOperationKeeps DEF Load, Instruction
<1>2. ASSUME NEW ptr \in Pointer, Store(ptr) PROVE Inv'
  BY Zenon, <1>2, MemoryOperationKeeps DEF Store, Instruction
<1>3. CASE exec
  <2>1. /\ enabled /\ enabled' = enabled /\ cache' = cache /\ status' = status
        /\ currentTime' = currentTime /\ loopStats' = Counted
    BY Zenon, <1>3 DEF exec, Instruction
  <2>3. constraints' \subseteq constraints /\ constraints' # {}
    BY Zenon, <1>3 DEF exec
  <2>2. TypeOK' /\ LoopsBounded'
    BY Zenon, <1>0, <2>1, <2>3 DEF Inv, TypeOK
  <2>. QED BY <2>1, <2>2, <2>3 DEF Inv, TypeOK
<1>4. CASE FirstLoop
  <2>1. NoStats \in Stats
    BY Zenon DEF NoStats, Stats
  <2>. QED BY <1>4, <2>1 DEF FirstLoop, Running, Inv, TypeOK
<1>5. CASE NextLoop
  <2>1. NoStats \in Stats
    BY Zenon DEF NoStats, Stats
  <2>. QED BY <1>0, <1>5, <2>1, OptionsAssumption DEF NextLoop, Running, Inv, TypeOK
<1>6. CASE LastLoop
  BY <1>0, <1>6 DEF LastLoop, Inv, TypeOK
<1>7. CASE UNCHANGED vars
  BY <1>7 DEF vars, Inv, TypeOK
<1>8. QED
  BY Zenon, <1>1, <1>2, <1>3, <1>4, <1>5, <1>6, <1>7 DEF Next

\* The inductive invariant holds in every state of a cache of any geometry.
THEOREM Invariance == Spec => []Inv
  BY InitInv, NextInv, PTL DEF Spec

\* Whatever the geometry of the cache and the overlap of its sets: every set stays
\* within its associativity, the LRU clock gives every full set exactly one victim,
\* the line accessed last is cached in all of its sets, no concretization makes the
\* path infeasible, and the variables keep their types.
THEOREM Consistency == Spec => []CacheAndPathConsistent
<1>1. Inv => CacheAndPathConsistent
  BY Zenon DEF Inv, CacheAndPathConsistent
<1>. QED BY <1>1, Invariance, PTL

-----------------------------------------------------------------------------
(* Sums *)

\* Induction up to a bound; P is the set of the numbers for which it holds.
LEMMA UpToBound ==
  ASSUME NEW n \in Nat, NEW P, 0 \in P, \A i \in 0..(n - 1) : i \in P => i + 1 \in P
  PROVE  \A i \in 0..n : i \in P
<1>. DEFINE T == {i \in 0..n : i \notin P}
<1>1. SUFFICES ASSUME T # {} PROVE FALSE
  BY Zenon
<1>2. T \subseteq Nat
  OBVIOUS
<1>3. PICK x \in T : \A y \in T : ~(<<y, x>> \in OpToRel(<, Nat))
  <2>. HIDE DEF T
  <2>1. QED
    BY <1>1, <1>2, NatLessThanWellFounded, WFMin, Zenon
<1>4. x \in Nat /\ x <= n /\ x \notin P
  OBVIOUS
<1>5. \A y \in T : ~(y < x)
  <2>1. \A y \in T : y \in Nat
    BY Zenon, <1>2
  <2>. HIDE DEF T
  <2>2. QED
    BY <1>3, <1>4, <2>1, Zenon DEF OpToRel
<1>6. x # 0 /\ x - 1 \in 0..(n - 1)
  BY <1>4
<1>7. x - 1 \in P
  BY <1>4, <1>5, <1>6
<1>8. QED
  BY <1>4, <1>6, <1>7

\* s lists the partial sums of f.
Sums(s, f, n) == s[0] = 0 /\ \A m \in 1..n : s[m] = s[m - 1] + f[m]

\* The loop of SumUpTo has partial sums.
LEMMA SumsExist ==
  ASSUME NEW n \in Nat, NEW f, \A m \in 1..n : f[m] \in Nat
  PROVE  \E s \in [0..n -> Nat] : Sums(s, f, n)
<1>. DEFINE P == {k \in 0..n : \E s \in [0..k -> Nat] : Sums(s, f, k)}
<1>1. 0 \in P
  <2>. DEFINE s == [i \in 0..0 |-> 0]
  <2>1. s \in [0..0 -> Nat] /\ Sums(s, f, 0)
    BY DEF Sums
  <2>. HIDE DEF s
  <2>2. QED
    BY <2>1
<1>2. ASSUME NEW k \in 0..(n - 1), k \in P PROVE k + 1 \in P
  <2>1. PICK s \in [0..k -> Nat] : Sums(s, f, k)
    BY Zenon, <1>2
  <2>. DEFINE g == [i \in 0..(k + 1) |-> IF i = k + 1 THEN s[k] + f[k + 1] ELSE s[i]]
  <2>2. k \in Nat /\ k + 1 \in 1..n /\ s[k] \in Nat /\ f[k + 1] \in Nat
    BY <1>2
  <2>3. g \in [0..(k + 1) -> Nat]
    BY <2>2
  <2>4. /\ g[0] = s[0] /\ g[k + 1] = s[k] + f[k + 1] /\ g[k] = s[k]
        /\ \A i \in 1..k : g[i] = s[i] /\ g[i - 1] = s[i - 1]
    BY <2>2
  <2>. HIDE DEF g
  <2>5. ASSUME NEW i \in 1..(k + 1) PROVE g[i] = g[i - 1] + f[i]
    <3>1. CASE i = k + 1
      <4>1. i - 1 = k
        BY <3>1, <2>2
      <4>2. QED
        BY <3>1, <4>1, <2>4, Zenon
    <3>2. CASE i # k + 1
      <4>1. i \in 1..k
        BY <3>2, <2>2
      <4>2. QED
        BY <4>1, <2>1, <2>4 DEF Sums
    <3>3. QED
      BY Zenon, <3>1, <3>2
  <2>6. Sums(g, f, k + 1)
    BY Zenon, <2>1, <2>4, <2>5 DEF Sums
  <2>7. k + 1 \in 0..n
    BY <2>2
  <2>8. QED
    BY Zenon, <2>3, <2>6, <2>7
<1>. HIDE DEF P
<1>3. \A k \in 0..n : k \in P
  BY <1>1, <1>2, UpToBound, Zenon
<1>4. n \in P
  BY <1>3
<1>5. QED
  BY <1>4, Zenon DEF P

\* SumUpTo is the last of the partial sums.
LEMMA SumIsLast ==
  ASSUME NEW n \in Nat, NEW f, \A m \in 1..n : f[m] \in Nat
  PROVE  \E s \in [0..n -> Nat] : Sums(s, f, n) /\ SumUpTo(f, n) = s[n]
<1>. DEFINE Is(s) == s = [m \in 0..n |-> IF m = 0 THEN 0 ELSE s[m - 1] + f[m]]
<1>1. PICK s0 \in [0..n -> Nat] : Sums(s0, f, n)
  BY SumsExist, Zenon
<1>2. Is(s0)
  <2>1. ASSUME NEW m \in 0..n PROVE s0[m] = IF m = 0 THEN 0 ELSE s0[m - 1] + f[m]
    BY <1>1 DEF Sums
  <2>2. QED
    BY Zenon, <2>1
<1>. DEFINE s == CHOOSE g : Is(g)
<1>3. Is(s)
  BY <1>2, Zenon
<1>4. SumUpTo(f, n) = s[n]
  BY Zenon DEF SumUpTo
<1>. HIDE DEF s
<1>5. s[0] = 0 /\ \A m \in 1..n : s[m] = s[m - 1] + f[m]
  <2>1. ASSUME NEW m \in 0..n PROVE s[m] = IF m = 0 THEN 0 ELSE s[m - 1] + f[m]
    BY <1>3, Zenon
  <2>2. QED
    BY <2>1
<1>6. DOMAIN s = 0..n /\ s = [m \in 0..n |-> s[m]]
  BY Zenon, <1>3
<1>7. \A k \in 0..n : s[k] \in Nat
  <2>. DEFINE P == {k \in 0..n : s[k] \in Nat}
  <2>1. 0 \in P
    BY <1>5
  <2>2. ASSUME NEW i \in 0..(n - 1), i \in P PROVE i + 1 \in P
    <3>1. i + 1 \in 1..n /\ i + 1 \in 0..n /\ s[i] \in Nat /\ (i + 1) - 1 = i
      BY <2>2
    <3>2. s[i + 1] = s[i] + f[i + 1] /\ f[i + 1] \in Nat
      BY <3>1, <1>5, Zenon
    <3>3. s[i + 1] \in Nat
      BY <3>1, <3>2
    <3>4. QED
      BY Zenon, <3>1, <3>3
  <2>. HIDE DEF P
  <2>3. \A k \in 0..n : k \in P
    BY <2>1, <2>2, UpToBound, Zenon
  <2>4. QED
    BY Zenon, <2>3 DEF P
<1>8. s \in [0..n -> Nat]
  BY Zenon, <1>6, <1>7
<1>9. QED
  BY <1>4, <1>5, <1>8, Zenon DEF Sums

\* The partial sums depend on the summands only.
LEMMA SumsAgree ==
  ASSUME NEW n \in Nat, NEW f, NEW g, NEW s, NEW t, Sums(s, f, n), Sums(t, g, n),
         \A m \in 1..n : f[m] = g[m]
  PROVE  s[n] = t[n]
<1>. DEFINE P == {k \in 0..n : s[k] = t[k]}
<1>1. 0 \in P
  BY DEF Sums
<1>2. ASSUME NEW k \in 0..(n - 1), k \in P PROVE k + 1 \in P
  <2>1. k + 1 \in 1..n /\ k + 1 \in 0..n /\ (k + 1) - 1 = k /\ s[k] = t[k]
    BY <1>2
  <2>2. s[k + 1] = s[k] + f[k + 1] /\ t[k + 1] = t[k] + g[k + 1] /\ f[k + 1] = g[k + 1]
    BY <2>1, Zenon DEF Sums
  <2>3. s[k + 1] = t[k + 1]
    BY <2>1, <2>2, Zenon
  <2>4. QED
    BY Zenon, <2>1, <2>3
<1>. HIDE DEF P
<1>3. \A k \in 0..n : k \in P
  BY <1>1, <1>2, UpToBound, Zenon
<1>4. n \in P
  BY <1>3
<1>5. QED
  BY Zenon, <1>4 DEF P

\* A sum and the sum of all summands but the last one.
LEMMA SumOfLast ==
  ASSUME NEW n \in Nat \ {0}, NEW f, NEW g, \A m \in 1..n : f[m] \in Nat,
         \A m \in 1..(n - 1) : f[m] = g[m]
  PROVE  /\ SumUpTo(f, n) = SumUpTo(g, n - 1) + f[n]
         /\ SumUpTo(f, n) \in Nat /\ SumUpTo(g, n - 1) \in Nat /\ f[n] \in Nat
<1>1. n - 1 \in Nat /\ n \in 1..n /\ \A m \in 1..(n - 1) : m \in 1..n /\ g[m] \in Nat
  OBVIOUS
<1>2. PICK s \in [0..n -> Nat] : Sums(s, f, n) /\ SumUpTo(f, n) = s[n]
  BY SumIsLast, Zenon
<1>3. PICK t \in [0..(n - 1) -> Nat] : Sums(t, g, n - 1) /\ SumUpTo(g, n - 1) = t[n - 1]
  BY <1>1, SumIsLast, Zenon
<1>4. Sums(s, f, n - 1)
  BY <1>1, <1>2, Zenon DEF Sums
<1>5. s[n - 1] = t[n - 1]
  <2>. DEFINE k == n - 1
  <2>1. k \in Nat /\ Sums(s, f, k) /\ Sums(t, g, k) /\ \A m \in 1..k : f[m] = g[m]
    BY Zenon, <1>1, <1>3, <1>4
  <2>. HIDE DEF k
  <2>2. s[k] = t[k]
    BY <2>1, SumsAgree
  <2>3. QED
    BY Zenon, <2>2 DEF k
<1>6. s[n] = s[n - 1] + f[n]
  BY <1>1, <1>2, Zenon DEF Sums
<1>7. s[n] \in Nat /\ t[n - 1] \in Nat
  BY <1>2, <1>3
<1>8. QED
  BY <1>1, <1>2, <1>3, <1>5, <1>6, <1>7, Zenon

\* The arithmetic of the next lemma: a and b are the partial sums, x and y the
\* next summands.
LEMMA OneMoreSummand ==
  ASSUME NEW a \in Nat, NEW b \in Nat, NEW x \in Nat, NEW y \in Nat, NEW d \in {0, 1},
         NEW k \in Nat, NEW e \in {0, 1}, NEW e1 \in {0, 1}, y <= x + d,
         b + e <= a + (IF d = 1 THEN k ELSE 0), e1 = e \/ (e1 = 1 /\ e = 0 /\ y + 1 <= x + d)
  PROVE  (b + y) + e1 <= (a + x) + (IF d = 1 THEN k + 1 ELSE 0)
<1>1. CASE d = 0
  BY <1>1
<1>2. CASE d = 1
  BY <1>2
<1>3. QED
  BY Zenon, <1>1, <1>2

\* What bounds every summand bounds the sum: if each summand grows by at most
\* d and one of them, when lost is 1, by less, the sum grows by at most n * d,
\* less what was lost.
LEMMA SumGrows ==
  ASSUME NEW n \in Nat, NEW f, NEW g, NEW d \in {0, 1}, NEW lost \in {0, 1}, NEW j,
         \A m \in 1..n : f[m] \in Nat /\ g[m] \in Nat /\ g[m] <= f[m] + d,
         lost = 1 => j \in 1..n /\ g[j] + 1 <= f[j] + d
  PROVE  /\ SumUpTo(g, n) + lost <= SumUpTo(f, n) + (IF d = 1 THEN n ELSE 0)
         /\ SumUpTo(g, n) \in Nat /\ SumUpTo(f, n) \in Nat
<1>1. PICK s \in [0..n -> Nat] : Sums(s, f, n) /\ SumUpTo(f, n) = s[n]
  BY SumIsLast, Zenon
<1>2. PICK t \in [0..n -> Nat] : Sums(t, g, n) /\ SumUpTo(g, n) = t[n]
  BY SumIsLast, Zenon
<1>. DEFINE So(k) == IF lost = 1 /\ j <= k THEN 1 ELSE 0
            P == {k \in 0..n : t[k] + So(k) <= s[k] + (IF d = 1 THEN k ELSE 0)}
<1>3. 0 \in P
  <2>1. s[0] = 0 /\ t[0] = 0 /\ So(0) = 0
    BY <1>1, <1>2 DEF Sums
  <2>2. t[0] + So(0) <= s[0] + (IF d = 1 THEN 0 ELSE 0)
    BY <2>1
  <2>3. QED
    BY <2>2
<1>4. ASSUME NEW k \in 0..(n - 1), k \in P PROVE k + 1 \in P
  <2>1. /\ k + 1 \in 1..n /\ k + 1 \in 0..n /\ (k + 1) - 1 = k /\ s[k] \in Nat /\ t[k] \in Nat
        /\ t[k] + So(k) <= s[k] + (IF d = 1 THEN k ELSE 0)
    BY <1>4, <1>1, <1>2
  <2>2. s[k + 1] = s[k] + f[k + 1] /\ t[k + 1] = t[k] + g[k + 1]
    BY <2>1, <1>1, <1>2, Zenon DEF Sums
  <2>3. f[k + 1] \in Nat /\ g[k + 1] \in Nat /\ g[k + 1] <= f[k + 1] + d
    BY Zenon, <2>1
  <2>4. lost = 1 /\ j = k + 1 => g[k + 1] + 1 <= f[k + 1] + d
    BY Zenon
  <2>5. lost = 1 => j \in Nat
    OBVIOUS
  <2>6. t[k + 1] + So(k + 1) <= s[k + 1] + (IF d = 1 THEN k + 1 ELSE 0)
    <3>1. So(k) \in {0, 1} /\ So(k + 1) \in {0, 1} /\ k \in Nat
      OBVIOUS
    <3>2. So(k + 1) = So(k) \/ (So(k + 1) = 1 /\ So(k) = 0 /\ lost = 1 /\ j = k + 1)
      <4>. HIDE DEF P
      <4>1. CASE lost = 0
        <5>1. So(k + 1) = 0 /\ So(k) = 0
          BY Zenon, <4>1
        <5>2. QED
          BY <5>1, Zenon
      <4>2. CASE lost = 1
        <5>1. So(k) = IF j <= k THEN 1 ELSE 0
          BY Zenon, <4>2
        <5>2. So(k + 1) = IF j <= k + 1 THEN 1 ELSE 0
          BY Zenon, <4>2
        <5>3. j \in Nat
          BY Zenon, <2>5, <4>2
        <5>. HIDE DEF So
        <5>4. QED
          BY <3>1, <4>2, <5>1, <5>2, <5>3
      <4>3. QED
        BY Zenon, <4>1, <4>2
    <3>. HIDE DEF So
    <3>3. t[k] + So(k) <= s[k] + (IF d = 1 THEN k ELSE 0)
      BY Zenon, <2>1
    <3>4. So(k + 1) = So(k) \/ (So(k + 1) = 1 /\ So(k) = 0 /\ g[k + 1] + 1 <= f[k + 1] + d)
      BY <3>2, <2>4, Zenon
    <3>. DEFINE a == s[k]
                b == t[k]
                x == f[k + 1]
                y == g[k + 1]
                e == So(k)
                e1 == So(k + 1)
    <3>5. /\ a \in Nat /\ b \in Nat /\ x \in Nat /\ y \in Nat /\ e \in {0, 1} /\ e1 \in {0, 1}
          /\ k \in Nat /\ y <= x + d /\ b + e <= a + (IF d = 1 THEN k ELSE 0)
          /\ e1 = e \/ (e1 = 1 /\ e = 0 /\ y + 1 <= x + d)
      BY <2>1, <2>3, <3>1, <3>3, <3>4, Zenon
    <3>6. s[k + 1] = a + x /\ t[k + 1] = b + y
      BY <2>2, Zenon
    <3>. HIDE DEF a, b, x, y, e, e1, P
    <3>7. (b + y) + e1 <= (a + x) + (IF d = 1 THEN k + 1 ELSE 0)
      BY <3>5, OneMoreSummand
    <3>8. QED
      BY <3>6, <3>7, Zenon DEF e1
  <2>7. QED
    BY Zenon, <2>1, <2>6
<1>5. n \in P
  <2>. HIDE DEF P
  <2>1. \A k \in 0..n : k \in P
    BY <1>3, <1>4, UpToBound, Zenon
  <2>2. QED
    BY <2>1
<1>6. t[n] + lost <= s[n] + (IF d = 1 THEN n ELSE 0)
  BY <1>5
<1>7. s[n] \in Nat /\ t[n] \in Nat
  BY <1>1, <1>2
<1>8. QED
  BY <1>1, <1>2, <1>6, <1>7, Zenon

-----------------------------------------------------------------------------
(* The counters of the iterations *)

\* The total of a counter over the iterations l.
TotalOf(l, c) == SumUpTo([n \in 1..Len(l) |-> l[n][c]], Len(l))

\* Total as a function of the statistics, so that two of them can be compared.
LEMMA TotalIs == \A c : Total(c) = TotalOf(loopStats, c) /\ Total(c)' = TotalOf(loopStats', c)
  BY Zenon DEF Total, TotalOf

\* The constructor starts without iterations.
LEMMA TotalOfNone == \A c : TotalOf(<<>>, c) = 0
<1>. SUFFICES ASSUME NEW c PROVE TotalOf(<<>>, c) = 0
  BY Zenon
<1>. DEFINE f == [n \in 1..Len(<<>>) |-> <<>>[n][c]]
<1>1. \A m \in 1..0 : f[m] \in Nat
  OBVIOUS
<1>2. TotalOf(<<>>, c) = SumUpTo(f, 0)
  BY Zenon DEF TotalOf
<1>. HIDE DEF f
<1>3. PICK s \in [0..0 -> Nat] : Sums(s, f, 0) /\ SumUpTo(f, 0) = s[0]
  BY <1>1, SumIsLast, Zenon
<1>4. QED
  BY <1>2, <1>3, Zenon DEF Sums

\* Counting in the last iteration changes a total by what it changes there.
LEMMA TotalOfBack ==
  ASSUME NEW l \in Seq(Stats), l # <<>>, NEW st \in Stats, NEW c \in Counter
  PROVE  \E r \in Nat : /\ TotalOf(l, c) = r + l[Len(l)][c]
                        /\ TotalOf([l EXCEPT ![Len(l)] = st], c) = r + st[c]
<1>. DEFINE n == Len(l)
            m == [l EXCEPT ![n] = st]
            f == [i \in 1..n |-> l[i][c]]
            g == [i \in 1..n |-> m[i][c]]
<1>1. /\ n \in Nat \ {0} /\ n \in 1..n /\ m \in Seq(Stats) /\ Len(m) = n
      /\ \A i \in 1..n : l[i] \in Stats /\ m[i] \in Stats
      /\ m[n] = st /\ \A i \in 1..(n - 1) : m[i] = l[i]
  OBVIOUS
<1>2. \A s \in Stats : s[c] \in Nat
  BY Zenon DEF Stats
<1>. HIDE DEF n, m
<1>3. TotalOf(l, c) = SumUpTo(f, n) /\ TotalOf(m, c) = SumUpTo(g, n)
  BY <1>1, Zenon DEF TotalOf, n
<1>4. \A i \in 1..n : f[i] \in Nat /\ g[i] \in Nat
  BY Zenon, <1>1, <1>2
<1>5. \A i \in 1..(n - 1) : f[i] = g[i] /\ f[i] = f[i]
  BY <1>1
<1>6. f[n] = l[n][c] /\ g[n] = st[c]
  BY Zenon, <1>1
<1>. HIDE DEF f, g
<1>7. SumUpTo(f, n) = SumUpTo(f, n - 1) + f[n] /\ SumUpTo(f, n - 1) \in Nat
  BY <1>1, <1>4, <1>5, SumOfLast
<1>8. SumUpTo(g, n) = SumUpTo(f, n - 1) + g[n]
  BY <1>1, <1>4, <1>5, SumOfLast, Zenon
<1>9. TotalOf(l, c) = SumUpTo(f, n - 1) + l[n][c] /\ TotalOf(m, c) = SumUpTo(f, n - 1) + st[c]
  BY <1>3, <1>6, <1>7, <1>8, Zenon
<1>10. QED
  BY <1>7, <1>9, Zenon DEF m, n

\* A new iteration starts with nothing counted.
LEMMA TotalOfAppend ==
  ASSUME NEW l \in Seq(Stats), NEW c \in Counter
  PROVE  TotalOf(Append(l, NoStats), c) = TotalOf(l, c) /\ TotalOf(l, c) \in Nat
<1>. DEFINE k == Len(l)
            n == k + 1
            m == Append(l, NoStats)
            f == [i \in 1..k |-> l[i][c]]
            g == [i \in 1..n |-> m[i][c]]
<1>0. NoStats \in Stats /\ NoStats[c] = 0
  BY Zenon DEF NoStats, Stats
<1>1. /\ k \in Nat /\ n \in Nat \ {0} /\ n \in 1..n /\ n - 1 = k /\ Len(m) = n
      /\ \A i \in 1..n : m[i] \in Stats
      /\ m[n] = NoStats /\ \A i \in 1..k : m[i] = l[i] /\ l[i] \in Stats /\ i \in 1..n
  BY <1>0
<1>2. \A s \in Stats : s[c] \in Nat
  BY Zenon DEF Stats
<1>. HIDE DEF n, m, k
<1>3. TotalOf(l, c) = SumUpTo(f, k) /\ TotalOf(m, c) = SumUpTo(g, n)
  BY <1>1, Zenon DEF TotalOf, k
<1>4. \A i \in 1..n : g[i] \in Nat
  BY Zenon, <1>1, <1>2
<1>5. \A i \in 1..k : g[i] = f[i]
  BY Zenon, <1>1
<1>6. g[n] = 0
  BY Zenon, <1>0, <1>1
<1>. HIDE DEF f, g
<1>7. SumUpTo(g, n) = SumUpTo(f, n - 1) + g[n] /\ SumUpTo(f, n - 1) \in Nat
  <2>1. \A i \in 1..(n - 1) : g[i] = f[i]
    BY <1>1, <1>5, Zenon
  <2>2. QED
    BY <1>1, <1>4, <2>1, SumOfLast
<1>8. SumUpTo(g, n) = SumUpTo(f, k) /\ SumUpTo(f, k) \in Nat
  BY <1>1, <1>6, <1>7
<1>9. QED
  BY <1>3, <1>8, Zenon DEF m

-----------------------------------------------------------------------------
(* Dirty lines *)

\* One set after updateCache: a store makes at most one line dirty, and a line
\* written back is dirty no longer.
LEMMA DirtyOfSet ==
  ASSUME TypeOK, LruOrder, WithinAssociativity,
         NEW i \in SetIdx, NEW b \in Block, NEW isWrite \in BOOLEAN, NEW t \in Nat,
         NEW d, d = (IF isWrite THEN 1 ELSE 0),
         NEW D1, D1 = {x \in DOMAIN Accessed(i, b, isWrite, t) :
                          Accessed(i, b, isWrite, t)[x].dirty}
  PROVE  /\ Cardinality(DirtyLines(i)) \in Nat /\ Cardinality(D1) \in Nat
         /\ Cardinality(D1) <= Cardinality(DirtyLines(i)) + d
         /\ EvictsDirty(i, b) => Cardinality(D1) + 1 <= Cardinality(DirtyLines(i)) + d
<1>. DEFINE lines == cache[i]
            D == DOMAIN lines
            new == Accessed(i, b, isWrite, t)
            D0 == DirtyLines(i)
            lru == LruPtr(lines)
<1>1. /\ IsFiniteSet(D) /\ D0 \subseteq D /\ IsFiniteSet(D0) /\ Cardinality(D0) \in Nat
  BY Zenon, BlockFinite, FS_Subset, FS_CardinalityType DEF TypeOK, DirtyLines
<1>2. \E B : /\ B \subseteq D0
             /\ D1 \subseteq B \cup (IF isWrite THEN {b} ELSE {})
             /\ EvictsDirty(i, b) => lru \in D0 /\ B = D0 \ {lru}
  <2>1. CASE b \in D
    <3>1. new = [lines EXCEPT ![b] =
                   [useTime |-> t,
                    dirty |-> IF isWrite THEN CACHE_WRITEBACK ELSE lines[b].dirty]]
      BY Zenon, <2>1 DEF Accessed
    <3>2. DOMAIN new = D /\ \A x \in D \ {b} : new[x] = lines[x]
      BY Zenon, <3>1
    <3>3. ~isWrite => new[b].dirty = lines[b].dirty
      BY <3>1, <2>1
    <3>4. ~EvictsDirty(i, b)
      BY <2>1, Zenon DEF EvictsDirty
    <3>. HIDE DEF new
    <3>5. D1 = {x \in D : new[x].dirty} /\ D0 = {x \in D : lines[x].dirty}
      BY <3>2, Zenon DEF new, DirtyLines
    <3>6. D1 \subseteq D0 \cup (IF isWrite THEN {b} ELSE {})
      BY Zenon, <3>2, <3>3, <3>5
    <3>7. QED
      BY <3>4, <3>6, Zenon
  <2>2. CASE b \notin D
    <3>. DEFINE gone == IF Full(i) THEN {lru} ELSE {}
                kept == D \ gone
                fresh == [useTime |-> t, dirty |-> isWrite /\ CACHE_WRITEBACK]
    <3>1. new = [x \in kept \cup {b} |-> IF x = b THEN fresh ELSE lines[x]]
      BY Zenon, <2>2 DEF Accessed
    <3>. HIDE DEF new
    <3>2. /\ DOMAIN new = kept \cup {b} /\ new[b] = fresh
          /\ \A x \in kept : x # b /\ new[x] = lines[x]
      BY Zenon, <3>1, <2>2
    <3>3. new[b].dirty => isWrite
      BY <3>2
    <3>4. D1 = {x \in kept \cup {b} : new[x].dirty} /\ D0 = {x \in D : lines[x].dirty}
      BY <3>2, Zenon DEF new, DirtyLines
    <3>. DEFINE B == D0 \ gone
    <3>5. D1 \subseteq B \cup (IF isWrite THEN {b} ELSE {})
      BY Zenon, <3>2, <3>3, <3>4
    <3>6. EvictsDirty(i, b) => lru \in D0 /\ B = D0 \ {lru}
      <4>. SUFFICES ASSUME EvictsDirty(i, b) PROVE lru \in D0 /\ B = D0 \ {lru}
        BY Zenon
      <4>1. Full(i) /\ lines[lru].dirty
        BY Zenon DEF EvictsDirty
      <4>2. D # {}
        BY <4>1, FS_EmptySet, AssociativityType DEF Full
      <4>3. lru \in D
        BY Zenon, <4>2, LruPtrExists
      <4>4. QED
        BY <4>1, <4>3, <3>4, Zenon
    <3>7. B \subseteq D0
      BY Zenon
    <3>8. QED
      BY <3>5, <3>6, <3>7, Zenon
  <2>3. QED
    BY Zenon, <2>1, <2>2
<1>3. PICK B : /\ B \subseteq D0
               /\ D1 \subseteq B \cup (IF isWrite THEN {b} ELSE {})
               /\ EvictsDirty(i, b) => lru \in D0 /\ B = D0 \ {lru}
  BY <1>2, Zenon
<1>. HIDE DEF D0, lru
<1>4. /\ IsFiniteSet(B) /\ Cardinality(B) \in Nat /\ Cardinality(B) <= Cardinality(D0)
      /\ EvictsDirty(i, b) => Cardinality(B) + 1 = Cardinality(D0)
  <2>1. IsFiniteSet(B) /\ Cardinality(B) <= Cardinality(D0)
    BY <1>1, <1>3, FS_Subset, Zenon
  <2>2. Cardinality(B) \in Nat
    BY <2>1, FS_CardinalityType, Zenon
  <2>3. EvictsDirty(i, b) => Cardinality(B) = Cardinality(D0) - 1
    BY <1>1, <1>3, FS_RemoveElement, Zenon
  <2>4. QED
    BY <1>1, <2>1, <2>2, <2>3
<1>5. Cardinality(D1) \in Nat /\ Cardinality(D1) <= Cardinality(B) + d
  <2>. DEFINE C == B \cup (IF isWrite THEN {b} ELSE {})
  <2>1. IsFiniteSet(C) /\ Cardinality(C) \in Nat /\ Cardinality(C) <= Cardinality(B) + d
    <3>1. CASE isWrite
      <4>1. C = B \cup {b} /\ d = 1
        BY <3>1, Zenon
      <4>2. /\ IsFiniteSet(B \cup {b})
            /\ \/ Cardinality(B \cup {b}) = Cardinality(B)
               \/ Cardinality(B \cup {b}) = Cardinality(B) + 1
        BY <1>4, FS_AddElement, Zenon
      <4>. HIDE DEF C
      <4>3. QED
        BY <1>4, <4>1, <4>2
    <3>2. CASE ~isWrite
      <4>1. C = B /\ d = 0
        BY Zenon, <3>2
      <4>. HIDE DEF C
      <4>2. QED
        BY <1>4, <4>1
    <3>3. QED
      BY Zenon, <3>1, <3>2
  <2>2. D1 \subseteq C
    BY <1>3, Zenon
  <2>. HIDE DEF C
  <2>3. IsFiniteSet(D1) /\ Cardinality(D1) <= Cardinality(C)
    BY <2>1, <2>2, FS_Subset, Zenon
  <2>4. Cardinality(D1) \in Nat
    BY <2>3, FS_CardinalityType, Zenon
  <2>5. d \in {0, 1}
    BY Zenon
  <2>6. QED
    BY <1>4, <2>1, <2>3, <2>4, <2>5
<1>6. d \in {0, 1}
  BY Zenon
<1>7. QED
  BY <1>1, <1>4, <1>5, <1>6 DEF D0

\* updateCache writes one line back or none: the victims of the sets of a block
\* count once.
Writeback(b) == IF \E i \in SetsOf(b) : EvictsDirty(i, b) THEN 1 ELSE 0
Stored(isWrite) == IF isWrite THEN 1 ELSE 0

\* An access: the dirty lines grow by one per set for a store, and shrink by
\* the one written back.
LEMMA DirtyGrows ==
  ASSUME TypeOK, LruOrder, WithinAssociativity, NEW b \in Block, NEW isWrite \in BOOLEAN,
         updateCache(b, isWrite)
  PROVE  /\ Dirty' + Writeback(b) <= Dirty + (IF isWrite THEN NumSets + 1 ELSE 0)
         /\ Dirty' \in Nat /\ Dirty \in Nat
<1>. DEFINE t == currentTime + 1
            n == NumSets + 1
            f == [m \in 1..n |-> Cardinality(DirtyLines(m - 2))]
            g == [m \in 1..n |-> Cardinality(DirtyLines(m - 2)')]
            d == Stored(isWrite)
            lost == Writeback(b)
            After(i) == {x \in DOMAIN Accessed(i, b, isWrite, t) :
                            Accessed(i, b, isWrite, t)[x].dirty}
<1>1. Dirty = SumUpTo(f, n) /\ Dirty' = SumUpTo(g, n)
  BY Zenon DEF Dirty
<1>2. t \in Nat
  BY DEF TypeOK
<1>3. \A i \in SetIdx : cache'[i] = IF i \in SetsOf(b) THEN Accessed(i, b, isWrite, t) ELSE cache[i]
  BY Zenon DEF updateCache
<1>. HIDE DEF t
<1>4. ASSUME NEW i \in SetIdx
      PROVE  DirtyLines(i)' = IF i \in SetsOf(b) THEN After(i) ELSE DirtyLines(i)
  BY <1>3, Zenon DEF DirtyLines
<1>. HIDE DEF After
<1>5. ASSUME NEW i \in SetIdx
      PROVE  /\ Cardinality(DirtyLines(i)) \in Nat /\ Cardinality(After(i)) \in Nat
             /\ Cardinality(After(i)) <= Cardinality(DirtyLines(i)) + d
             /\ EvictsDirty(i, b) => Cardinality(After(i)) + 1 <= Cardinality(DirtyLines(i)) + d
  <2>1. d = (IF isWrite THEN 1 ELSE 0)
    BY Zenon DEF Stored
  <2>2. After(i) = {x \in DOMAIN Accessed(i, b, isWrite, t) :
                       Accessed(i, b, isWrite, t)[x].dirty}
    BY Zenon DEF After
  <2>. HIDE DEF d
  <2>3. QED
    BY <1>2, <2>1, <2>2, DirtyOfSet
<1>6. d \in {0, 1} /\ lost \in {0, 1}
  BY Zenon DEF Stored, Writeback
<1>. HIDE DEF d, lost
<1>7. ASSUME NEW i \in SetIdx
      PROVE  /\ Cardinality(DirtyLines(i)) \in Nat /\ Cardinality(DirtyLines(i)') \in Nat
             /\ Cardinality(DirtyLines(i)') <= Cardinality(DirtyLines(i)) + d
             /\ i \in SetsOf(b) /\ EvictsDirty(i, b)
                  => Cardinality(DirtyLines(i)') + 1 <= Cardinality(DirtyLines(i)) + d
  <2>1. CASE i \in SetsOf(b)
    BY <1>4, <1>5, <2>1, Zenon
  <2>2. CASE i \notin SetsOf(b)
    <3>1. DirtyLines(i)' = DirtyLines(i) /\ Cardinality(DirtyLines(i)) \in Nat
      BY <1>4, <1>5, <2>2, Zenon
    <3>2. Cardinality(DirtyLines(i)) <= Cardinality(DirtyLines(i)) + d
      BY <1>6, <3>1
    <3>3. QED
      BY <3>1, <3>2, <2>2, Zenon
  <2>3. QED
    BY Zenon, <2>1, <2>2
<1>8. n \in Nat /\ \A m \in 1..n : m - 2 \in SetIdx
  BY SizesAssumption DEF SetIdx, ListedSet
<1>9. ASSUME NEW m \in 1..n
      PROVE  f[m] \in Nat /\ g[m] \in Nat /\ g[m] <= f[m] + d
  <2>1. f[m] = Cardinality(DirtyLines(m - 2)) /\ g[m] = Cardinality(DirtyLines(m - 2)')
    BY Zenon
  <2>2. m - 2 \in SetIdx
    BY Zenon, <1>8
  <2>3. QED
    BY <2>1, <2>2, <1>7, Zenon
<1>10. \E j : lost = 1 => j \in 1..n /\ g[j] + 1 <= f[j] + d
  <2>1. CASE lost = 1
    <3>1. PICK i \in SetsOf(b) : EvictsDirty(i, b)
      BY <2>1 DEF lost, Writeback
    <3>2. i \in SetIdx
      BY Zenon, BlockSets
    <3>3. i + 2 \in 1..n /\ (i + 2) - 2 = i
      BY <3>2, SizesAssumption DEF SetIdx, ListedSet
    <3>4. f[i + 2] = Cardinality(DirtyLines(i)) /\ g[i + 2] = Cardinality(DirtyLines(i)')
      BY <3>3, Zenon
    <3>5. g[i + 2] + 1 <= f[i + 2] + d
      BY <3>1, <3>2, <3>4, <1>7, Zenon
    <3>6. QED
      BY <3>3, <3>5, Zenon
  <2>2. QED
    BY <2>1, Zenon
<1>11. PICK j : lost = 1 => j \in 1..n /\ g[j] + 1 <= f[j] + d
  BY <1>10, Zenon
<1>. HIDE DEF f, g, n
<1>12. /\ SumUpTo(g, n) + lost <= SumUpTo(f, n) + (IF d = 1 THEN n ELSE 0)
       /\ SumUpTo(g, n) \in Nat /\ SumUpTo(f, n) \in Nat
  BY <1>6, <1>8, <1>9, <1>11, SumGrows, Zenon
<1>13. (d = 1) <=> isWrite
  BY DEF d, Stored
<1>14. QED
  BY <1>1, <1>12, <1>13, Zenon DEF lost, n

-----------------------------------------------------------------------------
(* Every access is counted *)

\* The counters st once memoryOperation has counted the instruction.
Entered(st, isWrite) ==
    Inc(st, {"instructionCount", IF isWrite THEN "writeCount" ELSE "readCount"})

\* s counts one load or store more than st.
OneAccess(s, st, isWrite) ==
    /\ s \in Stats
    /\ s["instructionCount"] = st["instructionCount"] + 1
    /\ s["readCount"] = st["readCount"] + (1 - Stored(isWrite))
    /\ s["writeCount"] = st["writeCount"] + Stored(isWrite)

\* The counters of an iteration after a load or a store that touches block b.
LEMMA UpdatedCounts ==
  ASSUME NEW st \in Stats, NEW b, NEW isWrite \in BOOLEAN
  PROVE  LET stats == Entered(st, isWrite)
             up == UpdatedStats(stats, b, isWrite)
         IN  /\ OneAccess(stats, st, isWrite) /\ OneAccess(up, st, isWrite)
             /\ stats["hitCount"] = st["hitCount"] /\ stats["missCount"] = st["missCount"]
             /\ up["hitCount"] = st["hitCount"] + (IF Hits(b, isWrite) THEN 1 ELSE 0)
             /\ up["missCount"]
                  = st["missCount"] + (IF Hits(b, isWrite) THEN 0 ELSE 1) + Writeback(b)
<1>. DEFINE stats == Entered(st, isWrite)
            up == UpdatedStats(stats, b, isWrite)
<1>0. stats = Inc(st, {"instructionCount", IF isWrite THEN "writeCount" ELSE "readCount"})
  BY Zenon DEF Entered
<1>. HIDE DEF stats
<1>1. \A c \in Counter : st[c] \in Nat
  BY Zenon DEF Stats
<1>2. stats \in Stats /\ \A c \in Counter : stats[c] \in Nat
  BY Zenon, <1>0, IncType DEF Stats
<1>3. /\ stats["instructionCount"] = st["instructionCount"] + 1
      /\ stats["readCount"] = st["readCount"] + (1 - Stored(isWrite))
      /\ stats["writeCount"] = st["writeCount"] + Stored(isWrite)
      /\ stats["hitCount"] = st["hitCount"] /\ stats["missCount"] = st["missCount"]
  <2>1. CASE isWrite
    BY <1>0, <1>1, <2>1 DEF Inc, Counter, Stored
  <2>2. CASE ~isWrite
    BY <1>0, <1>1, <2>2 DEF Inc, Counter, Stored
  <2>3. QED
    BY Zenon, <2>1, <2>2
<1>. HIDE DEF up
<1>. DEFINE access == Inc(stats, {IF Hits(b, isWrite) THEN "hitCount" ELSE "missCount"})
<1>4. /\ access \in Stats
      /\ \A c \in {"instructionCount", "readCount", "writeCount"} : access[c] = stats[c]
      /\ access["hitCount"] = stats["hitCount"] + (IF Hits(b, isWrite) THEN 1 ELSE 0)
      /\ access["missCount"] = stats["missCount"] + (IF Hits(b, isWrite) THEN 0 ELSE 1)
  <2>1. access \in Stats
    BY Zenon, <1>2, IncType
  <2>2. CASE Hits(b, isWrite)
    BY <1>2, <2>1, <2>2 DEF Inc, Counter
  <2>3. CASE ~Hits(b, isWrite)
    BY <1>2, <2>1, <2>3 DEF Inc, Counter
  <2>4. QED
    BY Zenon, <2>2, <2>3
<1>. HIDE DEF access
<1>5. \A c \in Counter : access[c] \in Nat
  BY Zenon, <1>4 DEF Stats
<1>6. /\ up \in Stats
      /\ \A c \in {"instructionCount", "readCount", "writeCount", "hitCount"} : up[c] = access[c]
      /\ up["missCount"] = access["missCount"] + Writeback(b)
  <2>1. CASE \E i \in SetsOf(b) : EvictsDirty(i, b)
    <3>1. up = Inc(access, {"missCount"}) /\ Writeback(b) = 1
      BY <2>1, Zenon DEF UpdatedStats, access, Writeback, up
    <3>2. up \in Stats
      BY Zenon, <3>1, <1>4, IncType
    <3>3. QED
      BY <3>1, <3>2, <1>5 DEF Inc, Counter
  <2>2. CASE ~\E i \in SetsOf(b) : EvictsDirty(i, b)
    <3>1. up = access /\ Writeback(b) = 0
      BY <2>2, Zenon DEF UpdatedStats, access, Writeback, up
    <3>2. QED
      BY <3>1, <1>4, <1>5 DEF Counter
  <2>3. QED
    BY Zenon, <2>1, <2>2
<1>7. /\ up["instructionCount"] = stats["instructionCount"] /\ up["readCount"] = stats["readCount"]
      /\ up["writeCount"] = stats["writeCount"]
      /\ up["hitCount"] = st["hitCount"] + (IF Hits(b, isWrite) THEN 1 ELSE 0)
      /\ up["missCount"] = st["missCount"] + (IF Hits(b, isWrite) THEN 0 ELSE 1) + Writeback(b)
  BY <1>3, <1>4, <1>6, Zenon
<1>8. OneAccess(stats, st, isWrite) /\ OneAccess(up, st, isWrite)
  BY <1>2, <1>3, <1>6, <1>7, Zenon DEF OneAccess
<1>9. QED
  BY <1>3, <1>7, <1>8, Zenon DEF up, stats

\* The total of counter c grows by k.
Adds(c, k) == Total(c) \in Nat /\ Total(c)' \in Nat /\ Total(c)' = Total(c) + k

\* A counter that grows in the last loop's statistics grows in the total.
LEMMA TotalAdds ==
  ASSUME TypeOK, enabled, NEW st \in Stats, loopStats' = BackStats(st), NEW c \in Counter,
         NEW k \in Nat, st[c] = Back[c] + k
  PROVE  Adds(c, k)
<1>1. loopStats \in Seq(Stats) /\ loopStats # <<>> /\ Back = loopStats[Len(loopStats)]
  BY Zenon DEF TypeOK, Back
<1>2. PICK r \in Nat : /\ TotalOf(loopStats, c) = r + Back[c]
                       /\ TotalOf(loopStats', c) = r + st[c]
  BY <1>1, TotalOfBack, Zenon DEF BackStats
<1>3. Back[c] \in Nat
  <2>1. Len(loopStats) \in 1..Len(loopStats)
    BY <1>1
  <2>2. Back \in Stats
    BY <1>1, <2>1
  <2>3. QED
    BY Zenon, <2>2 DEF Stats
<1>4. Total(c) = r + Back[c] /\ Total(c)' = r + (Back[c] + k)
  BY <1>2, TotalIs, Zenon
<1>5. QED
  BY <1>3, <1>4 DEF Adds

\* The two ways a load or a store leaves the model: it gives up half way and
\* the path ends, or it touches block b.
EndsEarly ==
    /\ status' = "early" /\ cache' = cache /\ currentTime' = currentTime
    /\ Adds("hitCount", 0) /\ Adds("missCount", 0)

Touches(b, isWrite) ==
    /\ updateCache(b, isWrite) /\ status' = status
    /\ Adds("hitCount", IF Hits(b, isWrite) THEN 1 ELSE 0)
    /\ Adds("missCount", (IF Hits(b, isWrite) THEN 0 ELSE 1) + Writeback(b))

\* An access counts one instruction and one read or write, and brings its block
\* in.
LEMMA AccessTouches ==
  ASSUME Inv, enabled, NEW isWrite \in BOOLEAN, NEW x,
         AccessAt(x, isWrite, Entered(Back, isWrite))
  PROVE  /\ Adds("instructionCount", 1)
         /\ Adds("readCount", 1 - Stored(isWrite)) /\ Adds("writeCount", Stored(isWrite))
         /\ Touches(BlockAddr(x), isWrite)
<1>. DEFINE b == BlockAddr(x)
            up == UpdatedStats(Entered(Back, isWrite), b, isWrite)
<1>1. TypeOK /\ Back \in Stats
  <2>1. loopStats \in Seq(Stats) /\ Len(loopStats) \in 1..Len(loopStats)
    BY DEF Inv, TypeOK
  <2>2. QED
    BY <2>1 DEF Inv, Back
<1>2. updateCache(b, isWrite) /\ status' = status /\ loopStats' = BackStats(up)
  BY Zenon DEF AccessAt
<1>. HIDE DEF b
<1>3. /\ OneAccess(up, Back, isWrite)
      /\ up["hitCount"] = Back["hitCount"] + (IF Hits(b, isWrite) THEN 1 ELSE 0)
      /\ up["missCount"]
           = Back["missCount"] + (IF Hits(b, isWrite) THEN 0 ELSE 1) + Writeback(b)
  BY <1>1, UpdatedCounts, Zenon
<1>. HIDE DEF up
<1>4. /\ 1 - Stored(isWrite) \in Nat /\ Stored(isWrite) \in Nat /\ 1 \in Nat
      /\ (IF Hits(b, isWrite) THEN 1 ELSE 0) \in Nat
      /\ (IF Hits(b, isWrite) THEN 0 ELSE 1) + Writeback(b) \in Nat
  BY DEF Stored, Writeback
<1>5. \A c \in {"instructionCount", "readCount", "writeCount", "hitCount", "missCount"} :
        c \in Counter
  BY Zenon DEF Counter
<1>6. up["missCount"]
        = Back["missCount"] + ((IF Hits(b, isWrite) THEN 0 ELSE 1) + Writeback(b))
  <2>1. Back["missCount"] \in Nat /\ Writeback(b) \in Nat
    BY Zenon, <1>1 DEF Stats, Counter, Writeback
  <2>2. QED
    BY <1>3, <2>1
<1>7. up \in Stats
  BY <1>3, Zenon DEF OneAccess
<1>8. Adds("hitCount", IF Hits(b, isWrite) THEN 1 ELSE 0)
  BY <1>1, <1>2, <1>3, <1>4, <1>5, <1>7, TotalAdds, Zenon
<1>9. Adds("missCount", (IF Hits(b, isWrite) THEN 0 ELSE 1) + Writeback(b))
  BY <1>1, <1>2, <1>4, <1>5, <1>6, <1>7, TotalAdds, Zenon
<1>10. Touches(b, isWrite)
  BY <1>2, <1>8, <1>9, Zenon DEF Touches
<1>11. /\ Adds("instructionCount", 1)
       /\ Adds("readCount", 1 - Stored(isWrite)) /\ Adds("writeCount", Stored(isWrite))
  BY <1>1, <1>2, <1>3, <1>4, <1>5, TotalAdds, Zenon DEF OneAccess
<1>12. QED
  BY <1>10, <1>11, Zenon DEF b

\* So does a memory operation, unless its path ends for lack of a pointer value.
LEMMA MemoryCounts ==
  ASSUME Inv, enabled, NEW ptr \in Pointer, NEW isWrite \in BOOLEAN,
         memoryOperation(ptr, isWrite)
  PROVE  /\ Adds("instructionCount", 1)
         /\ Adds("readCount", 1 - Stored(isWrite)) /\ Adds("writeCount", Stored(isWrite))
         /\ EndsEarly \/ \E b \in Block : Touches(b, isWrite)
<1>. DEFINE stats == Entered(Back, isWrite)
<1>1. TypeOK /\ Back \in Stats
  <2>1. loopStats \in Seq(Stats) /\ Len(loopStats) \in 1..Len(loopStats)
    BY DEF Inv, TypeOK
  <2>2. QED
    BY <2>1 DEF Inv, Back
<1>2. /\ OneAccess(stats, Back, isWrite)
      /\ stats["hitCount"] = Back["hitCount"] /\ stats["missCount"] = Back["missCount"]
  BY <1>1, UpdatedCounts, Zenon
<1>3. memoryOperation(ptr, isWrite) =
        (ConcreteAccess(ptr, isWrite, stats) \/ SymbolicAccess(ptr, isWrite, stats))
  BY Zenon DEF memoryOperation, Entered
<1>4. 1 - Stored(isWrite) \in Nat /\ Stored(isWrite) \in Nat /\ 1 \in Nat /\ 0 \in Nat
  BY DEF Stored
<1>5. \A c \in {"instructionCount", "readCount", "writeCount", "hitCount", "missCount"} :
        c \in Counter
  BY Zenon DEF Counter
<1>6. ASSUME NEW x \in Values(ptr), AccessAt(x, isWrite, stats)
      PROVE  /\ Adds("instructionCount", 1)
             /\ Adds("readCount", 1 - Stored(isWrite)) /\ Adds("writeCount", Stored(isWrite))
             /\ \E b \in Block : Touches(b, isWrite)
  <2>1. BlockAddr(x) \in Block
    <3>1. Values(ptr) \subseteq Addr
      BY Zenon, PointerAssumption DEF Values, Inv, TypeOK
    <3>2. QED
      BY Zenon, <3>1, BlockSets
  <2>2. QED
    BY <1>6, <2>1, AccessTouches, Zenon
<1>. HIDE DEF stats
<1>7. ASSUME loopStats' = BackStats(stats)
      PROVE  /\ Adds("instructionCount", 1)
             /\ Adds("readCount", 1 - Stored(isWrite)) /\ Adds("writeCount", Stored(isWrite))
             /\ Adds("hitCount", 0) /\ Adds("missCount", 0)
  <2>1. Back["hitCount"] \in Nat /\ Back["missCount"] \in Nat
    BY Zenon, <1>1 DEF Stats, Counter
  <2>2. stats["hitCount"] = Back["hitCount"] + 0 /\ stats["missCount"] = Back["missCount"] + 0
    BY <1>2, <2>1
  <2>3. QED
    BY <1>1, <1>2, <1>4, <1>5, <1>7, <2>2, TotalAdds, Zenon DEF OneAccess
<1>8. CASE ConcreteAccess(ptr, isWrite, stats)
  BY <1>6, <1>8, Zenon DEF ConcreteAccess
<1>9. CASE SymbolicAccess(ptr, isWrite, stats)
  <2>1. PICK val \in SolverValues(ptr), o \in SetOrders(isWrite) :
        \E trivial \in TriviallyUnsat(val) :
          \/ /\ status' = "early"
             /\ loopStats' = BackStats(stats)
             /\ UNCHANGED <<enabled, cache, currentTime, constraints>>
          \/ \E x \in AddressChoices(ptr, val, trivial, o) : AccessAt(x, isWrite, stats)
    BY Zenon, <1>9 DEF SymbolicAccess
  <2>2. CASE /\ status' = "early"
             /\ loopStats' = BackStats(stats)
             /\ UNCHANGED <<enabled, cache, currentTime, constraints>>
    <3>1. cache' = cache /\ currentTime' = currentTime
      BY Zenon, <2>2
    <3>2. QED
      BY <1>7, <2>2, <3>1, Zenon DEF EndsEarly
  <2>3. CASE \E x \in Values(ptr) : AccessAt(x, isWrite, stats)
    BY <1>6, <2>3, Zenon
  <2>4. QED
    BY <2>1, <2>2, <2>3, ChoicesFeasible, Zenon
<1>10. QED
  BY <1>3, <1>8, <1>9, Zenon

\* The instructions and iterations that are no accesses leave the totals alone
\* that the write-backs are paid from.
AccessCounters == {"readCount", "writeCount", "hitCount", "missCount"}

\* The statistics of a loop that ended stay in the total.
LEMMA CountedAdds ==
  ASSUME TypeOK, enabled, NEW c \in AccessCounters
  PROVE  TotalOf(Counted, c) = TotalOf(loopStats, c) /\ Counted \in Seq(Stats)
<1>1. /\ loopStats \in Seq(Stats) /\ loopStats # <<>> /\ Back = loopStats[Len(loopStats)]
      /\ c \in Counter /\ Back \in Stats
  BY DEF TypeOK, Back, AccessCounters, Counter
<1>. DEFINE st == Inc(Back, {"instructionCount"})
<1>2. st \in Stats /\ st[c] = Back[c]
  <2>1. st \in Stats
    BY Zenon, <1>1, IncType
  <2>2. st[c] = Back[c] + 0 /\ Back[c] \in Nat
    BY Zenon, <1>1 DEF Inc, Stats, AccessCounters
  <2>3. QED
    BY <2>1, <2>2
<1>3. Counted = [loopStats EXCEPT ![Len(loopStats)] = st]
  BY Zenon DEF Counted, BackStats
<1>. HIDE DEF st
<1>4. PICK r \in Nat : /\ TotalOf(loopStats, c) = r + Back[c]
                       /\ TotalOf([loopStats EXCEPT ![Len(loopStats)] = st], c) = r + st[c]
  BY <1>1, <1>2, TotalOfBack, Zenon
<1>5. [loopStats EXCEPT ![Len(loopStats)] = st] \in Seq(Stats)
  BY <1>1, <1>2
<1>6. QED
  BY <1>2, <1>3, <1>4, <1>5, Zenon

\* WritebacksArePaidFor as a relation between numbers: t accesses, r loads, w
\* stores, h hits, m misses, d dirty lines and n sets; e is 1 for a path that
\* ended inside an access.
PaidFor(t, r, w, h, m, d, n, e) ==
    /\ t \in Nat /\ r \in Nat /\ w \in Nat /\ h \in Nat /\ m \in Nat /\ d \in Nat
    /\ r + w - e = t
    /\ h + m >= r + w - e
    /\ (h + m - (r + w - e)) + d <= n * w

Early == IF status = "early" THEN 1 ELSE 0
Paid ==
    PaidFor(currentTime, Total("readCount"), Total("writeCount"), Total("hitCount"),
            Total("missCount"), Dirty, NumSets + 1, Early)

\* A store pays for a line in each of the n sets.
LEMMA OneMoreStore == \A n, w \in Nat : n * (w + 1) = n * w + n /\ n * (w + 0) = n * w
  OBVIOUS

\* An access pays for the line it writes back.
LEMMA AccessIsPaid ==
  ASSUME NEW t, NEW r, NEW w, NEW h, NEW m, NEW d, NEW n \in Nat, PaidFor(t, r, w, h, m, d, n, 0),
         NEW s \in {0, 1}, NEW hit \in {0, 1}, NEW lost \in {0, 1}, NEW d1 \in Nat,
         d1 + lost <= d + (IF s = 1 THEN n ELSE 0)
  PROVE  PaidFor(t + 1, r + (1 - s), w + s, h + hit, m + ((1 - hit) + lost), d1, n, 0)
<1>. DEFINE paid == n * w
            pays == n * (w + s)
<1>1. /\ t \in Nat /\ r \in Nat /\ w \in Nat /\ h \in Nat /\ m \in Nat /\ d \in Nat
      /\ r + w = t /\ h + m >= r + w
      /\ (h + m - (r + w)) + d <= paid
  BY DEF PaidFor
<1>2. paid \in Nat /\ pays \in Nat /\ pays = paid + (IF s = 1 THEN n ELSE 0)
  BY <1>1, OneMoreStore
<1>. HIDE DEF paid, pays
<1>3. /\ t + 1 \in Nat /\ r + (1 - s) \in Nat /\ w + s \in Nat /\ h + hit \in Nat
      /\ m + ((1 - hit) + lost) \in Nat
      /\ (r + (1 - s)) + (w + s) - 0 = t + 1
      /\ (h + hit) + (m + ((1 - hit) + lost)) >= (r + (1 - s)) + (w + s) - 0
  BY <1>1
<1>4. ((h + hit) + (m + ((1 - hit) + lost)) - ((r + (1 - s)) + (w + s) - 0)) + d1 <= pays
  BY <1>1, <1>2
<1>5. QED
  BY <1>3, <1>4, Zenon DEF PaidFor, pays

\* An access that is given up counts an instruction only.
LEMMA EarlyIsPaid ==
  ASSUME NEW t, NEW r, NEW w, NEW h, NEW m, NEW d, NEW n \in Nat, PaidFor(t, r, w, h, m, d, n, 0),
         NEW s \in {0, 1}
  PROVE  PaidFor(t, r + (1 - s), w + s, h + 0, m + 0, d, n, 1)
<1>. DEFINE paid == n * w
            pays == n * (w + s)
<1>1. /\ t \in Nat /\ r \in Nat /\ w \in Nat /\ h \in Nat /\ m \in Nat /\ d \in Nat
      /\ r + w = t /\ h + m >= r + w
      /\ (h + m - (r + w)) + d <= paid
  BY DEF PaidFor
<1>2. paid \in Nat /\ pays \in Nat /\ pays >= paid
  BY <1>1, OneMoreStore
<1>. HIDE DEF paid, pays
<1>3. /\ r + (1 - s) \in Nat /\ w + s \in Nat /\ h + 0 \in Nat /\ m + 0 \in Nat
      /\ (r + (1 - s)) + (w + s) - 1 = t
      /\ (h + 0) + (m + 0) >= (r + (1 - s)) + (w + s) - 1
  BY <1>1
<1>4. ((h + 0) + (m + 0) - ((r + (1 - s)) + (w + s) - 1)) + d <= pays
  BY <1>1, <1>2
<1>5. QED
  BY <1>1, <1>3, <1>4, Zenon DEF PaidFor, pays

\* Nothing is counted and nothing is dirty before the first call of castan_loop.
LEMMA PaidInit == Init => Paid
<1>. SUFFICES ASSUME Init PROVE Paid
  BY Zenon
<1>1. loopStats = <<>> /\ currentTime = 0 /\ Early = 0
  BY Zenon DEF Init, Early
<1>2. /\ Total("readCount") = 0 /\ Total("writeCount") = 0
      /\ Total("hitCount") = 0 /\ Total("missCount") = 0
  BY <1>1, TotalIs, TotalOfNone, Zenon
<1>3. Dirty = 0
  <2>. DEFINE n == NumSets + 1
              f == [m \in 1..n |-> Cardinality(DirtyLines(m - 2))]
              z == [m \in 1..n |-> 0]
  <2>1. n \in Nat /\ \A m \in 1..n : m - 2 \in SetIdx
    BY SizesAssumption DEF SetIdx, ListedSet
  <2>2. \A i \in SetIdx : DirtyLines(i) = {}
    BY DEF Init, DirtyLines
  <2>3. \A m \in 1..n : f[m] = 0
    BY Zenon, <2>1, <2>2, FS_EmptySet
  <2>4. Dirty = SumUpTo(f, n)
    BY Zenon DEF Dirty
  <2>. HIDE DEF f, n
  <2>5. PICK s \in [0..n -> Nat] : Sums(s, f, n) /\ SumUpTo(f, n) = s[n]
    <3>1. \A m \in 1..n : f[m] \in Nat
      BY <2>3
    <3>2. QED
      BY <2>1, <3>1, SumIsLast, Zenon
  <2>. DEFINE P == {k \in 0..n : s[k] = 0}
  <2>6. 0 \in P
    BY <2>1, <2>5 DEF Sums
  <2>7. ASSUME NEW k \in 0..(n - 1), k \in P PROVE k + 1 \in P
    <3>1. k + 1 \in 1..n /\ k + 1 \in 0..n /\ (k + 1) - 1 = k /\ s[k] = 0
      BY <2>1, <2>7
    <3>2. s[k + 1] = s[k] + f[k + 1] /\ f[k + 1] = 0
      BY <2>3, <2>5, <3>1, Zenon DEF Sums
    <3>3. QED
      BY <3>1, <3>2
  <2>8. \A k \in 0..n : k \in P
    <3>. HIDE DEF P
    <3>1. QED
      BY <2>1, <2>6, <2>7, UpToBound, Zenon
  <2>9. s[n] = 0
    BY <2>1, <2>8
  <2>10. QED
    BY <2>4, <2>5, <2>9, Zenon
<1>4. PaidFor(0, 0, 0, 0, 0, 0, NumSets + 1, 0)
  BY SizesAssumption DEF PaidFor
<1>5. QED
  BY <1>1, <1>2, <1>3, <1>4, Zenon DEF Paid

\* A load or a store keeps the account, whatever its sets evict.
LEMMA PaidMemoryOperation ==
  ASSUME Inv, Paid, Running, enabled, NEW ptr \in Pointer, NEW isWrite \in BOOLEAN,
         memoryOperation(ptr, isWrite)
  PROVE  Paid'
<1>. DEFINE R == Total("readCount")
            W == Total("writeCount")
            H == Total("hitCount")
            M == Total("missCount")
            s == Stored(isWrite)
            n == NumSets + 1
<1>1. s \in {0, 1} /\ n \in Nat
  BY SizesAssumption DEF Stored
<1>2. R' = R + (1 - s) /\ W' = W + s
  BY MemoryCounts, Zenon DEF Adds
<1>3. Early = 0
  BY Zenon DEF Running, Early
<1>4. PaidFor(currentTime, R, W, H, M, Dirty, n, 0)
  BY <1>3, Zenon DEF Paid
<1>5. CASE EndsEarly
  <2>1. /\ Early' = 1 /\ currentTime' = currentTime /\ H' = H + 0 /\ M' = M + 0
    BY <1>5, Zenon DEF EndsEarly, Early, Adds
  <2>2. Dirty' = Dirty
    BY <1>5, Zenon DEF EndsEarly, Dirty, DirtyLines
  <2>. HIDE DEF s, n, R, W, H, M
  <2>3. PaidFor(currentTime, R + (1 - s), W + s, H + 0, M + 0, Dirty, n, 1)
    BY Zenon, <1>1, <1>4, EarlyIsPaid
  <2>4. PaidFor(currentTime', R', W', H', M', Dirty', n, Early')
    BY <1>2, <2>1, <2>2, <2>3, Zenon
  <2>5. QED
    BY <2>4, Zenon DEF Paid, R, W, H, M, n
<1>6. ASSUME NEW b \in Block, Touches(b, isWrite) PROVE Paid'
  <2>. DEFINE hit == IF Hits(b, isWrite) THEN 1 ELSE 0
              lost == Writeback(b)
  <2>1. hit \in {0, 1} /\ lost \in {0, 1} /\ (IF Hits(b, isWrite) THEN 0 ELSE 1) = 1 - hit
    BY DEF Writeback
  <2>2. H' = H + hit /\ M' = M + ((1 - hit) + lost)
    <3>1. H' = H + hit /\ M' = M + ((IF Hits(b, isWrite) THEN 0 ELSE 1) + lost)
      BY <1>6, Zenon DEF Touches, Adds
    <3>. HIDE DEF hit
    <3>2. QED
      BY <2>1, <3>1, Zenon
  <2>3. updateCache(b, isWrite) /\ status' = status /\ currentTime' = currentTime + 1
    BY <1>6, Zenon DEF Touches, updateCache
  <2>4. /\ Dirty' + lost <= Dirty + (IF isWrite THEN n ELSE 0) /\ Dirty' \in Nat
    BY <2>3, DirtyGrows, Zenon DEF Inv
  <2>5. (s = 1) <=> isWrite
    BY DEF Stored
  <2>6. Early' = 0
    BY <1>3, <2>3, Zenon DEF Early
  <2>. HIDE DEF s, n, R, W, H, M, hit, lost
  <2>7. Dirty' + lost <= Dirty + (IF s = 1 THEN n ELSE 0)
    BY <2>4, <2>5, Zenon
  <2>. DEFINE d == Dirty
              d1 == Dirty'
              t == currentTime
  <2>8. d1 \in Nat /\ d1 + lost <= d + (IF s = 1 THEN n ELSE 0) /\ PaidFor(t, R, W, H, M, d, n, 0)
    BY <1>4, <2>4, <2>7, Zenon
  <2>. HIDE DEF d, d1, t
  <2>9. PaidFor(t + 1, R + (1 - s), W + s, H + hit, M + ((1 - hit) + lost), d1, n, 0)
    BY <1>1, <2>1, <2>8, AccessIsPaid, Zenon
  <2>10. PaidFor(currentTime', R', W', H', M', Dirty', n, Early')
    BY <1>2, <2>2, <2>3, <2>6, <2>9, Zenon DEF d1, t
  <2>11. QED
    BY <2>10, Zenon DEF Paid, R, W, H, M, n
<1>7. QED
  BY <1>5, <1>6, MemoryCounts, Zenon

\* Every other instruction and castan_loop keep it too.
LEMMA PaidNext == Inv /\ Paid /\ [Next]_vars => Paid'
<1>. SUFFICES ASSUME Inv, Paid, [Next]_vars PROVE Paid'
  BY Zenon
<1>0. ASSUME cache' = cache, currentTime' = currentTime, Early' = Early,
             \A c \in AccessCounters : TotalOf(loopStats', c) = TotalOf(loopStats, c)
      PROVE  Paid'
  <2>1. Dirty' = Dirty
    BY <1>0, Zenon DEF Dirty, DirtyLines
  <2>2. /\ Total("readCount")' = Total("readCount") /\ Total("writeCount")' = Total("writeCount")
        /\ Total("hitCount")' = Total("hitCount") /\ Total("missCount")' = Total("missCount")
    BY <1>0, TotalIs, Zenon DEF AccessCounters
  <2>3. QED
    BY <1>0, <2>1, <2>2, Zenon DEF Paid
<1>1. TypeOK /\ \A c \in AccessCounters : c \in Counter
  BY Zenon DEF Inv, AccessCounters, Counter
<1>2. ASSUME NEW ptr \in Pointer, Load(ptr) PROVE Paid'
  BY <1>2, PaidMemoryOperation, Zenon DEF Load, Instruction
<1>3. ASSUME NEW ptr \in Pointer, Store(ptr) PROVE Paid'
  BY <1>3, PaidMemoryOperation, Zenon DEF Store, Instruction
<1>4. CASE exec
  BY <1>0, <1>1, <1>4, CountedAdds, Zenon DEF exec, Instruction, Early
<1>5. CASE FirstLoop
  <2>1. loopStats' = Append(loopStats, NoStats) /\ loopStats \in Seq(Stats)
    BY Zenon, <1>1, <1>5 DEF FirstLoop, TypeOK
  <2>2. \A c \in AccessCounters : TotalOf(loopStats', c) = TotalOf(loopStats, c)
    BY <1>1, <2>1, TotalOfAppend, Zenon
  <2>3. cache' = cache /\ currentTime' = currentTime /\ Early' = Early
    BY Zenon, <1>5 DEF FirstLoop, Early
  <2>4. QED
    BY <1>0, <2>2, <2>3, Zenon
<1>6. CASE NextLoop
  <2>1. loopStats' = Append(Counted, NoStats) /\ enabled
    BY Zenon, <1>6 DEF NextLoop
  <2>2. \A c \in AccessCounters : TotalOf(loopStats', c) = TotalOf(loopStats, c)
    BY <1>1, <2>1, TotalOfAppend, CountedAdds, Zenon
  <2>3. cache' = cache /\ currentTime' = currentTime /\ Early' = Early
    BY Zenon, <1>6 DEF NextLoop, Early
  <2>4. QED
    BY <1>0, <2>2, <2>3, Zenon
<1>7. CASE LastLoop
  <2>1. loopStats' = Counted /\ enabled
    BY Zenon, <1>7 DEF LastLoop
  <2>2. \A c \in AccessCounters : TotalOf(loopStats', c) = TotalOf(loopStats, c)
    BY <1>1, <2>1, CountedAdds, Zenon
  <2>3. cache' = cache /\ currentTime' = currentTime /\ Early' = Early
    BY Zenon, <1>7 DEF LastLoop, Running, Early
  <2>4. QED
    BY <1>0, <2>2, <2>3, Zenon
<1>8. CASE UNCHANGED vars
  <2>1. loopStats' = loopStats /\ cache' = cache /\ currentTime' = currentTime /\ status' = status
    BY Zenon, <1>8 DEF vars
  <2>2. QED
    BY <1>0, <2>1, Zenon DEF Early
<1>9. QED
  BY <1>2, <1>3, <1>4, <1>5, <1>6, <1>7, <1>8, Zenon DEF Next

\* For a cache of any geometry and paths of any length, the DRAM accesses counted
\* beyond one per load and store are write-backs, and each of them and each line
\* still dirty goes back to a store, although one store reaches several sets.
THEOREM Accounting == Spec => []WritebacksArePaidFor
<1>1. Init => Inv /\ Paid
  BY Zenon, InitInv, PaidInit
<1>2. Inv /\ Paid /\ [Next]_vars => Inv' /\ Paid'
  BY Zenon, NextInv, PaidNext
<1>3. Paid => WritebacksArePaidFor
  BY DEF Paid, PaidFor, Early, WritebacksArePaidFor
<1>. QED BY <1>1, <1>2, <1>3, PTL DEF Spec

-----------------------------------------------------------------------------
(* What an access costs *)

Cost(b, isWrite) ==
    (IF Hits(b, isWrite) THEN CACHE_HIT_LATENCY ELSE CACHE_MISS_LATENCY)
      + (IF Writeback(b) = 1 THEN CACHE_MISS_LATENCY ELSE 0)

\* Costs and latencies are natural numbers, and a miss costs no less than a hit.
LEMMA CostType ==
  /\ \A b, w : Cost(b, w) \in Nat
  /\ CACHE_HIT_LATENCY \in Nat /\ CACHE_MISS_LATENCY \in Nat
  /\ CACHE_HIT_LATENCY <= CACHE_MISS_LATENCY
  BY LatencyAssumption DEF Cost

\* What getTotalTime grows by, the instruction's own time left out, when e hits
\* and f misses are counted.
TimeAdded(a, h, m, e, f, x, y, z) ==
    ((a + 1) * x + (h + e) * y + (m + f) * z) - (a * x + h * y + m * z) - x * ((a + 1) - a)
AllNat(a, h, m, e, f, x, y, z) == {a, h, m, e, f, x, y, z} \subseteq Nat
TimeIsAdded(a, h, m, e, f, x, y, z) == TimeAdded(a, h, m, e, f, x, y, z) = e * y + f * z

\* The time of the counters after an access is the time before plus the access's
\* own.
LEMMA AccessTime ==
  ASSUME NEW a, NEW h, NEW m, NEW e, NEW f, NEW x, NEW y, NEW z, AllNat(a, h, m, e, f, x, y, z)
  PROVE  TimeIsAdded(a, h, m, e, f, x, y, z)
<1>0. /\ a \in Nat /\ h \in Nat /\ m \in Nat /\ e \in Nat /\ f \in Nat
      /\ x \in Nat /\ y \in Nat /\ z \in Nat
  BY Zenon DEF AllNat
<1>. DEFINE ax == a * x
            hy == h * y
            mz == m * z
            ey == e * y
            fz == f * z
<1>1. (a + 1) * x = ax + x /\ (h + e) * y = hy + ey /\ (m + f) * z = mz + fz
  BY <1>0
<1>2. ax \in Nat /\ hy \in Nat /\ mz \in Nat /\ ey \in Nat /\ fz \in Nat /\ x * ((a + 1) - a) = x
  BY <1>0
<1>. HIDE DEF ax, hy, mz, ey, fz
<1>3. ((ax + x) + (hy + ey) + (mz + fz)) - (ax + hy + mz) - x = ey + fz
  BY <1>0, <1>2
<1>4. QED
  BY <1>1, <1>2, <1>3, Zenon DEF ax, hy, mz, ey, fz, TimeAdded, TimeIsAdded

\* An access to block b adds its cost to getTotalTime.
LEMMA TouchDamage ==
  ASSUME NEW b, NEW isWrite, Adds("instructionCount", 1), Touches(b, isWrite)
  PROVE  CountedDamage = Cost(b, isWrite)
<1>. DEFINE a == Total("instructionCount")
            h == Total("hitCount")
            m == Total("missCount")
            e == IF Hits(b, isWrite) THEN 1 ELSE 0
            n == IF Hits(b, isWrite) THEN 0 ELSE 1
            f == n + Writeback(b)
            x == NS_PER_INSTRUCTION
            y == CACHE_HIT_LATENCY
            z == CACHE_MISS_LATENCY
<1>1. /\ a \in Nat /\ h \in Nat /\ m \in Nat /\ a' = a + 1 /\ h' = h + e /\ m' = m + f
  BY Zenon DEF Touches, Adds
<1>2. CountedDamage = (a' * x + h' * y + m' * z) - (a * x + h * y + m * z) - x * (a' - a)
  BY Zenon DEF CountedDamage, getTotalTime
<1>3. x \in Nat /\ y \in Nat /\ z \in Nat /\ e \in Nat /\ f \in Nat
  BY LatencyAssumption DEF Writeback
<1>4. e * y + f * z = Cost(b, isWrite)
  <2>1. Writeback(b) \in {0, 1}
    BY Zenon DEF Writeback
  <2>2. CASE Hits(b, isWrite)
    <3>1. e = 1 /\ n = 0 /\ Cost(b, isWrite) = y + (IF Writeback(b) = 1 THEN z ELSE 0)
      BY <2>2, Zenon DEF Cost
    <3>. HIDE DEF e, n, y, z
    <3>2. QED
      BY <1>3, <2>1, <3>1
  <2>3. CASE ~Hits(b, isWrite)
    <3>1. e = 0 /\ n = 1 /\ Cost(b, isWrite) = z + (IF Writeback(b) = 1 THEN z ELSE 0)
      BY <2>3, Zenon DEF Cost
    <3>. HIDE DEF e, n, y, z
    <3>2. QED
      BY <1>3, <2>1, <3>1
  <2>4. QED
    BY Zenon, <2>2, <2>3
<1>. HIDE DEF a, h, m, e, f, x, y, z
<1>5. CountedDamage = TimeAdded(a, h, m, e, f, x, y, z)
  BY <1>1, <1>2, Zenon DEF TimeAdded
<1>6. AllNat(a, h, m, e, f, x, y, z)
  BY Zenon, <1>1, <1>3 DEF AllNat
<1>7. TimeIsAdded(a, h, m, e, f, x, y, z)
  BY <1>6, AccessTime, Zenon
<1>8. QED
  BY <1>4, <1>5, <1>7, Zenon DEF TimeIsAdded

\* A latency that is a whole number of nanoseconds doubles without rounding.
LEMMA WholeNanoseconds ==
  ASSUME NEW z \in Nat, z % 100 = 0
  PROVE  (z + z) \div 100 = z \div 100 + z \div 100
  OBVIOUS

\* The block with the newest use time in a set that did not hold it is the one
\* just accessed.
LEMMA NewestIsAccessed ==
  ASSUME Inv, NEW b \in Block, NEW isWrite \in BOOLEAN, updateCache(b, isWrite),
         NEW i \in SetIdx, NEW x \in DOMAIN cache'[i], cache'[i][x].useTime = currentTime',
         x \notin DOMAIN cache[i]
  PROVE  x = b
<1>1. currentTime + 1 \in Nat /\ TypeOK /\ LruOrder /\ WithinAssociativity
  BY DEF Inv, TypeOK
<1>2. cache'[i] = IF i \in SetsOf(b) THEN Accessed(i, b, isWrite, currentTime + 1) ELSE cache[i]
  BY Zenon DEF updateCache
<1>3. DOMAIN Accessed(i, b, isWrite, currentTime + 1) \subseteq DOMAIN cache[i] \cup {b}
  BY <1>1, AccessedSet, Zenon
<1>4. QED
  BY Zenon, <1>2, <1>3

\* A load of a block that belongs to one contention set adds what getMissCost
\* predicts.
LEMMA LoadCosts ==
  ASSUME Inv, enabled, NEW ptr \in Pointer, NEW isWrite \in BOOLEAN, memoryOperation(ptr, isWrite),
         Total("readCount")' > Total("readCount"), currentTime' # currentTime,
         NEW i \in ListedSet, NEW b \in DOMAIN cache'[i], cache'[i][b].useTime = currentTime',
         SetsOf(b) = {i}, b \notin DOMAIN cache[i]
  PROVE  CountedDamage \div 100 = getMissCost(i, FALSE)
<1>1. /\ Adds("instructionCount", 1) /\ Adds("readCount", 1 - Stored(isWrite))
      /\ EndsEarly \/ \E x \in Block : Touches(x, isWrite)
  BY MemoryCounts, Zenon
<1>2. ~isWrite
  <2>1. Total("readCount") \in Nat /\ Total("readCount")' = Total("readCount") + (1 - Stored(isWrite))
    BY <1>1, Zenon DEF Adds
  <2>2. QED
    BY <2>1 DEF Stored
<1>3. ~EndsEarly
  BY Zenon DEF EndsEarly
<1>4. PICK x \in Block : Touches(x, isWrite)
  BY <1>1, <1>3, Zenon
<1>5. x = b
  <2>1. i \in SetIdx /\ updateCache(x, isWrite)
    BY Zenon, <1>4 DEF SetIdx, Touches
  <2>2. QED
    BY <2>1, NewestIsAccessed
<1>6. ~Hits(b, isWrite)
  BY Zenon DEF Hits
<1>. DEFINE dirty == Full(i) /\ cache[i][LruPtr(cache[i])].dirty
<1>7. Writeback(b) = IF dirty THEN 1 ELSE 0
  <2>1. (\E j \in SetsOf(b) : EvictsDirty(j, b)) <=> dirty
    BY Zenon DEF EvictsDirty
  <2>. HIDE DEF dirty
  <2>2. QED
    BY <2>1, Zenon DEF Writeback
<1>8. getMissCost(i, FALSE) = (IF dirty THEN CACHE_MISS_LATENCY \div 100 ELSE 0)
                                + CACHE_MISS_LATENCY \div 100
  BY Zenon DEF getMissCost
<1>. HIDE DEF dirty
<1>. DEFINE z == CACHE_MISS_LATENCY
<1>9. CountedDamage = Cost(b, isWrite)
  BY <1>1, <1>4, <1>5, TouchDamage, Zenon
<1>10. Cost(b, isWrite) = z + (IF dirty THEN z ELSE 0)
  <2>1. (Writeback(b) = 1) <=> dirty
    BY <1>7
  <2>2. QED
    BY <1>6, <2>1, Zenon DEF Cost
<1>11. z \in Nat /\ z % 100 = 0 /\ z \div 100 \in Int
  BY LatencyAssumption
<1>. HIDE DEF z
<1>12. getMissCost(i, FALSE) = (IF dirty THEN z \div 100 ELSE 0) + z \div 100
  BY <1>8, Zenon DEF z
<1>13. CASE dirty
  <2>1. CountedDamage = z + z /\ getMissCost(i, FALSE) = z \div 100 + z \div 100
    BY <1>9, <1>10, <1>12, <1>13, Zenon
  <2>2. QED
    BY <1>11, <2>1, WholeNanoseconds, Zenon
<1>14. CASE ~dirty
  <2>1. CountedDamage = z + 0 /\ getMissCost(i, FALSE) = 0 + z \div 100
    BY <1>9, <1>10, <1>12, <1>14, Zenon
  <2>2. z + 0 = z /\ 0 + z \div 100 = z \div 100
    BY <1>11
  <2>3. QED
    BY <2>1, <2>2, Zenon
<1>15. QED
  BY <1>13, <1>14, Zenon

\* A step that is no load leaves the reads as they are.
LEMMA OnlyLoadsRead ==
  ASSUME Inv, [Next]_vars, Total("readCount")' > Total("readCount")
  PROVE  \E ptr \in Pointer, isWrite \in BOOLEAN : enabled /\ memoryOperation(ptr, isWrite)
<1>1. TypeOK /\ "readCount" \in AccessCounters /\ "readCount" \in Counter
  BY Zenon DEF Inv, AccessCounters, Counter
<1>2. TotalOf(loopStats', "readCount") # TotalOf(loopStats, "readCount")
  <2>1. TotalOf(loopStats, "readCount") \in Nat
    BY Zenon, <1>1, TotalOfAppend DEF TypeOK
  <2>2. Total("readCount") \in Nat
    BY <2>1, TotalIs, Zenon
  <2>3. Total("readCount")' # Total("readCount")
    BY <2>2
  <2>4. QED
    BY <2>3, TotalIs, Zenon
<1>3. ~exec
  BY <1>1, <1>2, CountedAdds, Zenon DEF exec, Instruction
<1>4. ~FirstLoop
  BY <1>1, <1>2, TotalOfAppend, Zenon DEF FirstLoop, TypeOK
<1>5. ~NextLoop
  BY <1>1, <1>2, TotalOfAppend, CountedAdds, Zenon DEF NextLoop
<1>6. ~LastLoop
  BY <1>1, <1>2, CountedAdds, Zenon DEF LastLoop
<1>7. ~UNCHANGED vars
  <2>1. UNCHANGED vars => loopStats' = loopStats
    BY Zenon DEF vars
  <2>2. QED
    BY <1>2, <2>1, Zenon
<1>8. PICK ptr \in Pointer : Load(ptr) \/ Store(ptr)
  BY <1>3, <1>4, <1>5, <1>6, <1>7, Zenon DEF Next
<1>9. QED
  BY <1>8, Zenon DEF Load, Store, Instruction

\* Whatever the geometry of the cache: when a load misses in a set that is the
\* only one of its block, updateCache counts exactly the nanoseconds by which
\* memoryOperation ranked that set, the write-back of a dirty victim included.
THEOREM LoadsCostAsPredicted == Spec => LoadCostPredicted
<1>. DEFINE A == \A i \in ListedSet : \A b \in DOMAIN cache'[i] :
                   (/\ Total("readCount")' > Total("readCount")
                    /\ currentTime' # currentTime
                    /\ cache'[i][b].useTime = currentTime'
                    /\ SetsOf(b) = {i}
                    /\ b \notin DOMAIN cache[i])
                   => CountedDamage \div 100 = getMissCost(i, FALSE)
<1>1. Inv /\ [Next]_vars => A
  BY OnlyLoadsRead, LoadCosts, Zenon
<1>2. Inv /\ [Next]_vars => [A]_vars
  BY <1>1, Zenon
<1>. QED BY <1>2, Invariance, PTL DEF Spec, LoadCostPredicted

-----------------------------------------------------------------------------
(* The worst case *)

\* The setting in which memoryOperation's greedy choice is the worst case: each
\* line is in one set at most, every set is scanned, and the pointer stays on
\* one page.  (The solver is asked for one value per line, so on several pages
\* the value it gives may be cached while another one on the line is not.)
WorstCaseSetting ==
    /\ WorstCaseSymIndices /\ ~GiveUpOnComplexSymIndices
    /\ Pages = 1
    /\ \A i, j \in ListedSet : i # j => SetAddrs[i] \cap SetAddrs[j] = {}

\* A number below the modulus is its own remainder.
LEMMA SmallMod == \A a \in Nat, n \in Nat \ {0} : a < n => a % n = a
  OBVIOUS

\* A remainder is no larger than the number.
LEMMA ModBelow == \A a \in Nat, n \in Nat \ {0} : a % n \in Nat /\ a % n <= a
  OBVIOUS

\* On a single page the line of an address is its block.
LEMMA LineIsBlock ==
  ASSUME WorstCaseSetting, NEW x \in Addr
  PROVE  LineOf(x) = BlockAddr(x) /\ BlockAddr(x) \in Block /\ BlockAddr(x) \in Line
<1>1. x \in Nat /\ x < PAGE /\ PAGE \in Nat \ {0} /\ BLOCK \in Nat \ {0}
  <2>1. 1 * PAGE = PAGE
    BY SizesAssumption
  <2>2. QED
    BY <2>1, SizesAssumption DEF Addr, WorstCaseSetting
<1>2. BlockAddr(x) \in Nat /\ BlockAddr(x) < PAGE
  BY <1>1, ModBelow DEF BlockAddr
<1>3. PageAddr(BlockAddr(x)) = BlockAddr(x)
  BY Zenon, <1>1, <1>2, SmallMod DEF PageAddr
<1>4. BlockAddr(x) \in Block
  BY Zenon DEF Block
<1>5. QED
  BY <1>3, <1>4, Zenon DEF LineOf, Line

\* A listed line is in one set, and an access to it updates that set alone.
LEMMA OneSet ==
  ASSUME WorstCaseSetting, NEW b \in Block, PageAddr(b) = b, NEW j \in ListedSet, b \in SetAddrs[j]
  PROVE  contentionSetIdxs[b] = {j} /\ SetsOf(b) = {j}
<1>1. b \in Line
  BY Zenon DEF Line
<1>2. contentionSetIdxs[b] = {i \in ListedSet : b \in SetAddrs[i]}
  BY Zenon, <1>1 DEF contentionSetIdxs
<1>3. {i \in ListedSet : b \in SetAddrs[i]} = {j}
  BY Zenon DEF WorstCaseSetting
<1>4. QED
  BY Zenon, <1>2, <1>3 DEF SetsOf

\* What every access costs at least.
Base(isWrite) == IF isWrite /\ ~CACHE_WRITEBACK THEN CACHE_MISS_LATENCY ELSE CACHE_HIT_LATENCY
VictimDirty(i) == Full(i) /\ cache[i][LruPtr(cache[i])].dirty

\* The damage that the worst-case search compares is the cost of the access.
LEMMA DamageIsCost ==
  ASSUME NEW b, NEW isWrite \in BOOLEAN
  PROVE  Damage(b, isWrite) = Cost(b, isWrite)
<1>. DEFINE st == UpdatedStats(NoStats, b, isWrite)
            hit == Hits(b, isWrite)
            x == CACHE_HIT_LATENCY
            y == CACHE_MISS_LATENCY
<1>1. /\ st["hitCount"] = (IF hit THEN 1 ELSE 0)
      /\ st["missCount"] = (IF hit THEN 0 ELSE 1) + Writeback(b)
  <2>1. CASE hit
    BY <2>1 DEF UpdatedStats, NoStats, Inc, Counter, Writeback
  <2>2. CASE ~hit
    BY <2>2 DEF UpdatedStats, NoStats, Inc, Counter, Writeback
  <2>3. QED
    BY <2>1, <2>2
<1>2. Damage(b, isWrite) = st["hitCount"] * x + st["missCount"] * y
  BY Zenon DEF Damage
<1>3. x \in Nat /\ y \in Nat /\ Writeback(b) \in {0, 1}
  BY Zenon, CostType DEF Writeback
<1>. HIDE DEF st, x, y
<1>4. CASE hit
  <2>1. Damage(b, isWrite) = 1 * x + (0 + Writeback(b)) * y
    BY Zenon, <1>1, <1>2, <1>4
  <2>2. Cost(b, isWrite) = x + (IF Writeback(b) = 1 THEN y ELSE 0)
    BY <1>4, Zenon DEF Cost, x, y
  <2>3. QED
    BY <1>3, <2>1, <2>2
<1>5. CASE ~hit
  <2>1. Damage(b, isWrite) = 0 * x + (1 + Writeback(b)) * y
    BY Zenon, <1>1, <1>2, <1>5
  <2>2. Cost(b, isWrite) = y + (IF Writeback(b) = 1 THEN y ELSE 0)
    BY <1>5, Zenon DEF Cost, x, y
  <2>3. QED
    BY <1>3, <2>1, <2>2
<1>6. QED
  BY Zenon, <1>4, <1>5

\* No access costs less than a hit, or than a store that is written through.
LEMMA CostAtLeastBase == \A b, w : Cost(b, w) >= Base(w)
  BY CostType DEF Cost, Base, Hits

\* A line cached in its only set costs no more than that; otherwise it costs a
\* miss, and a write-back when the set's victim is dirty.
LEMMA CostInSet ==
  ASSUME NEW b, NEW isWrite \in BOOLEAN, NEW j, SetsOf(b) = {j}
  PROVE  /\ b \in DOMAIN cache[j] => Cost(b, isWrite) = Base(isWrite)
         /\ b \notin DOMAIN cache[j] =>
              Cost(b, isWrite) = CACHE_MISS_LATENCY
                                   + (IF VictimDirty(j) THEN CACHE_MISS_LATENCY ELSE 0)
<1>1. (\E i \in SetsOf(b) : EvictsDirty(i, b)) <=> EvictsDirty(j, b)
  BY Zenon
<1>2. Hits(b, isWrite) <=> b \in DOMAIN cache[j] /\ (isWrite => CACHE_WRITEBACK)
  BY Zenon DEF Hits
<1>3. ASSUME b \in DOMAIN cache[j] PROVE Cost(b, isWrite) = Base(isWrite)
  <2>1. Writeback(b) = 0
    BY Zenon, <1>1, <1>3 DEF Writeback, EvictsDirty
  <2>2. QED
    BY <1>2, <1>3, <2>1, CostType DEF Cost, Base
<1>4. ASSUME b \notin DOMAIN cache[j]
      PROVE  Cost(b, isWrite) = CACHE_MISS_LATENCY
                                  + (IF VictimDirty(j) THEN CACHE_MISS_LATENCY ELSE 0)
  <2>1. Writeback(b) = IF VictimDirty(j) THEN 1 ELSE 0
    BY Zenon, <1>1, <1>4 DEF Writeback, EvictsDirty, VictimDirty
  <2>2. QED
    BY <1>2, <1>4, <2>1 DEF Cost
<1>5. QED
  BY Zenon, <1>3, <1>4

\* The solver's value for a line that the pointer can reach is on that line.
LEMMA ValueOnLine ==
  ASSUME NEW ptr, NEW val \in SolverValues(ptr)
  PROVE  /\ \A y \in Values(ptr) : LineOf(y) \in Line =>
              val[LineOf(y)] \in Values(ptr) /\ LineOf(val[LineOf(y)]) = LineOf(y)
         /\ \A a \in Line : val[a] # Unsat => val[a] \in Values(ptr) /\ LineOf(val[a]) = a
<1>1. PICK S \in SUBSET Values(ptr) :
        /\ {LineOf(x) : x \in S} = {LineOf(x) : x \in Values(ptr)}
        /\ val = [a \in Line |-> IF \E x \in S : LineOf(x) = a
                                 THEN CHOOSE x \in S : LineOf(x) = a ELSE Unsat]
  BY Zenon DEF SolverValues
<1>2. ASSUME NEW a \in Line, \E x \in S : LineOf(x) = a
      PROVE  val[a] \in S /\ LineOf(val[a]) = a
  <2>1. val[a] = CHOOSE x \in S : LineOf(x) = a
    BY Zenon, <1>1, <1>2
  <2>2. QED
    BY <1>2, <2>1, Zenon
<1>3. ASSUME NEW a \in Line, val[a] # Unsat PROVE \E x \in S : LineOf(x) = a
  BY Zenon, <1>1, <1>3
<1>4. ASSUME NEW y \in Values(ptr) PROVE \E x \in S : LineOf(x) = LineOf(y)
  BY <1>1
<1>5. QED
  BY <1>1, <1>2, <1>3, <1>4, Zenon

\* A candidate costs a miss, and the write-back of its set's victim.
LEMMA CandidateCost ==
  ASSUME WorstCaseSetting, Inv, NEW ptr \in Pointer, NEW val \in SolverValues(ptr), NEW trivial,
         NEW isWrite \in BOOLEAN, NEW i \in ListedSet, NEW a \in Candidates(val, trivial, i)
  PROVE  /\ val[a] \in Values(ptr)
         /\ Cost(BlockAddr(val[a]), isWrite) =
              CACHE_MISS_LATENCY + (IF VictimDirty(i) THEN CACHE_MISS_LATENCY ELSE 0)
<1>. DEFINE v == val[a]
<1>1. Values(ptr) \subseteq Addr
  BY Zenon, PointerAssumption DEF Values, Inv, TypeOK
<1>2. a \in SetAddrs[i] /\ a \in Line /\ Candidate(val, a)
  BY Zenon, SetsAssumption DEF Candidates
<1>3. v \in Values(ptr) /\ LineOf(v) = a
  BY <1>2, ValueOnLine DEF Candidate
<1>4. v \in Addr
  BY Zenon, <1>1, <1>3
<1>5. BlockAddr(v) = a /\ a \in Block /\ PageAddr(a) = a
  <2>1. LineOf(v) = BlockAddr(v) /\ BlockAddr(v) \in Block
    BY <1>4, LineIsBlock, Zenon
  <2>2. QED
    BY <1>3, <2>1, Zenon DEF LineOf
<1>6. contentionSetIdxs[a] = {i} /\ SetsOf(a) = {i}
  BY <1>2, <1>5, OneSet, Zenon
<1>7. a \notin DOMAIN cache[i]
  <2>1. BlockAddr(v) \notin DOMAIN cache[i]
    BY Zenon, <1>2, <1>6 DEF Candidate
  <2>2. QED
    BY <1>5, <2>1, Zenon
<1>. HIDE DEF v
<1>8. Cost(a, isWrite) = CACHE_MISS_LATENCY + (IF VictimDirty(i) THEN CACHE_MISS_LATENCY ELSE 0)
  BY <1>6, <1>7, CostInSet, Zenon
<1>9. QED
  BY <1>3, <1>5, <1>8, Zenon DEF v

\* A value that the sets do not cache makes its line a candidate.
LEMMA UncachedIsCandidate ==
  ASSUME WorstCaseSetting, Inv, NEW ptr \in Pointer, NEW val \in SolverValues(ptr), NEW trivial,
         NEW y \in Values(ptr), NEW j \in ListedSet, LineOf(y) \in SetAddrs[j],
         BlockAddr(y) \notin DOMAIN cache[j]
  PROVE  LineOf(y) \in Candidates(val, trivial, j)
<1>. DEFINE a == LineOf(y)
            v == val[a]
<1>1. Values(ptr) \subseteq Addr
  BY PointerAssumption DEF Values, Inv, TypeOK
<1>2. a = BlockAddr(y) /\ a \in Block /\ a \in Line /\ PageAddr(a) = a
  <2>1. LineOf(y) = BlockAddr(y) /\ BlockAddr(y) \in Block /\ BlockAddr(y) \in Line
    BY Zenon, <1>1, LineIsBlock
  <2>2. QED
    BY <2>1, Zenon DEF LineOf
<1>3. v \in Values(ptr) /\ LineOf(v) = a
  BY <1>2, ValueOnLine, Zenon
<1>4. v \in Addr /\ v # Unsat
  <2>1. v \in Addr
    BY Zenon, <1>1, <1>3
  <2>. HIDE DEF v
  <2>2. QED
    BY <2>1 DEF Addr, Unsat
<1>5. BlockAddr(v) = a
  BY <1>3, <1>4, LineIsBlock, Zenon
<1>6. contentionSetIdxs[a] = {j}
  BY <1>2, OneSet, Zenon
<1>7. Candidate(val, a)
  <2>1. BlockAddr(v) \notin DOMAIN cache[j]
    BY <1>2, <1>5, Zenon
  <2>2. QED
    BY Zenon, <1>4, <1>6, <2>1 DEF Candidate
<1>8. \A g \in SetAddrs[j] : ~GiveUpLine(val, trivial, g)
  BY Zenon DEF GiveUpLine, WorstCaseSetting
<1>. HIDE DEF a
<1>9. a \in SetAddrs[j]
  BY Zenon DEF a
<1>10. a \in Candidates(val, trivial, j)
  BY <1>7, <1>8, <1>9, Zenon DEF Candidates
<1>11. QED
  BY <1>10, Zenon DEF a

\* A full set with a candidate overflows at its first one.
LEMMA FullOverflows ==
  ASSUME Inv, NEW val, NEW trivial, NEW j \in ListedSet, Full(j), Candidates(val, trivial, j) # {}
  PROVE  Overflows(val, trivial, j) # {}
<1>. DEFINE C == Candidates(val, trivial, j)
            n == Cardinality(DOMAIN cache[j])
<1>1. C \subseteq Nat
  <2>1. Line \subseteq Nat
    <3>1. \A b \in Block : b \in Nat
      BY SizesAssumption, ModBelow DEF Block, BlockAddr, Addr
    <3>2. QED
      BY Zenon, <3>1, SizesAssumption, ModBelow DEF Line, PageAddr
  <2>2. C \subseteq SetAddrs[j] /\ SetAddrs[j] \subseteq Line
    BY Zenon, SetsAssumption DEF Candidates
  <2>3. QED
    BY <2>1, <2>2, Zenon
<1>. HIDE DEF C
<1>2. C # {}
  BY Zenon DEF C
<1>3. PICK a \in C : \A x \in C : ~(<<x, a>> \in OpToRel(<, Nat))
  BY <1>1, <1>2, NatLessThanWellFounded, WFMin, Zenon
<1>4. \A x \in C : x \in Nat /\ a \in Nat /\ ~(x < a)
  BY <1>1, <1>3, Zenon DEF OpToRel
<1>5. UpTo(C, a) = {a}
  BY <1>4 DEF UpTo
<1>6. Cardinality(UpTo(C, a)) = 1
  BY <1>5, FS_Singleton, Zenon
<1>7. n = SetAssoc[j] /\ n \in Nat
  <2>1. /\ j \in SetIdx /\ Associativity(j) = SetAssoc[j] /\ SetAssoc[j] \in Nat
    BY SetsAssumption, SizesAssumption DEF SetIdx, ListedSet, Associativity
  <2>2. n \in Nat /\ n <= Associativity(j)
    BY Zenon, <2>1, BlockFinite, FS_Subset, FS_CardinalityType DEF Inv, TypeOK, WithinAssociativity
  <2>3. n >= Associativity(j)
    BY Zenon DEF Full
  <2>. HIDE DEF n
  <2>4. QED
    BY <2>1, <2>2, <2>3
<1>8. HitCount(val, trivial, j, a) = n + Cardinality(UpTo(C, a))
  BY Zenon DEF HitCount, C
<1>. HIDE DEF n
<1>9. HitCount(val, trivial, j, a) = SetAssoc[j] + 1
  BY <1>6, <1>7, <1>8, Zenon
<1>10. QED
  BY <1>9, Zenon DEF Overflows, C

\* setCosts lists every set.
LEMMA OrderListsAll ==
  ASSUME NEW isWrite, NEW o \in SetOrders(isWrite), NEW j \in ListedSet
  PROVE  \E m \in 1..NumSets : o[m] = j
<1>1. NumSets \in Nat
  BY Zenon, SizesAssumption
<1>2. o \in [1..NumSets -> ListedSet] /\ \A m, n \in 1..NumSets : m < n => o[m] # o[n]
  BY Zenon DEF SetOrders
<1>3. \A m, n \in 1..NumSets : o[m] = o[n] => m = n
  BY <1>1, <1>2
<1>4. o \in Injection(1..NumSets, ListedSet)
  BY <1>2, <1>3, Zenon DEF Injection, IsInjective
<1>5. IsFiniteSet(ListedSet) /\ Cardinality(ListedSet) = NumSets
  BY <1>1, FS_Interval DEF ListedSet
<1>6. Cardinality(1..NumSets) = NumSets
  BY <1>1, FS_Interval
<1>7. o \in Surjection(1..NumSets, ListedSet)
  BY <1>4, <1>5, <1>6, FS_Injection, Zenon
<1>8. QED
  BY <1>7, Zenon DEF Surjection

\* The scan reaches the first set at which it stops.
LEMMA FirstStop ==
  ASSUME NEW val, NEW trivial, NEW o, NEW m \in 1..NumSets, StopsAt(val, trivial, o[m])
  PROVE  \E n \in Scanned(val, trivial, o) : StopsAt(val, trivial, o[n])
<1>. DEFINE T == {n \in 1..NumSets : StopsAt(val, trivial, o[n])}
<1>1. T \subseteq Nat /\ T # {} /\ NumSets \in Nat
  BY SizesAssumption
<1>. HIDE DEF T
<1>2. PICK n \in T : \A k \in T : ~(<<k, n>> \in OpToRel(<, Nat))
  BY <1>1, NatLessThanWellFounded, WFMin, Zenon
<1>3. \A k \in T : k \in Nat /\ n \in Nat /\ ~(k < n)
  BY <1>1, <1>2, Zenon DEF OpToRel
<1>4. n \in 1..NumSets /\ StopsAt(val, trivial, o[n])
  BY <1>2, Zenon DEF T
<1>5. ASSUME NEW k \in 1..(n - 1) PROVE ~StopsAt(val, trivial, o[k])
  <2>1. k \in 1..NumSets /\ k < n
    BY <1>1, <1>4
  <2>2. k \notin T
    BY <1>3, <2>1, Zenon
  <2>3. QED
    BY <2>1, <2>2, Zenon DEF T
<1>6. n \in Scanned(val, trivial, o)
  BY <1>4, <1>5, Zenon DEF Scanned
<1>7. QED
  BY <1>4, <1>6, Zenon

\* If any set overflows, the scan finds a value.
LEMMA FoundUnless ==
  ASSUME WorstCaseSetting, NEW val, NEW trivial, NEW o, NEW m \in 1..NumSets,
         StopsAt(val, trivial, o[m])
  PROVE  Found(val, trivial, o) # {}
<1>1. PICK n \in Scanned(val, trivial, o) : StopsAt(val, trivial, o[n])
  BY FirstStop, Zenon
<1>2. Overflows(val, trivial, o[n]) # {}
  BY <1>1, Zenon DEF StopsAt, GiveUpLine, WorstCaseSetting
<1>3. QED
  BY <1>1, <1>2, Zenon DEF Found

\* Lines and cached blocks are finitely many, so hitCount is bounded.
LEMMA HitCountBounded ==
  ASSUME Inv, NEW val, NEW trivial, NEW i \in ListedSet, NEW a
  PROVE  /\ HitCount(val, trivial, i, a) \in Nat
         /\ HitCount(val, trivial, i, a) <= Cardinality(Block) + Cardinality(Line)
         /\ Cardinality(Block) \in Nat /\ Cardinality(Line) \in Nat
<1>1. IsFiniteSet(Line)
  <2>. DEFINE f == [b \in Block |-> PageAddr(b)]
  <2>1. f \in Surjection(Block, Line)
    BY Zenon DEF Surjection, Line
  <2>2. QED
    BY Zenon, <2>1, BlockFinite, FS_Surjection
<1>2. DOMAIN cache[i] \subseteq Block /\ UpTo(Candidates(val, trivial, i), a) \subseteq Line
  BY Zenon, SetsAssumption DEF Inv, TypeOK, SetIdx, UpTo, Candidates
<1>. DEFINE D == DOMAIN cache[i]
            U == UpTo(Candidates(val, trivial, i), a)
<1>. HIDE DEF D, U
<1>3. D \subseteq Block /\ U \subseteq Line
  BY <1>2, Zenon DEF D, U
<1>4. /\ IsFiniteSet(D) /\ Cardinality(D) <= Cardinality(Block)
      /\ IsFiniteSet(U) /\ Cardinality(U) <= Cardinality(Line)
  BY <1>1, <1>3, BlockFinite, FS_Subset, Zenon
<1>5. /\ Cardinality(D) \in Nat /\ Cardinality(U) \in Nat
      /\ Cardinality(Block) \in Nat /\ Cardinality(Line) \in Nat
  BY <1>1, <1>4, BlockFinite, FS_CardinalityType, Zenon
<1>6. HitCount(val, trivial, i, a) = Cardinality(D) + Cardinality(U)
  BY Zenon DEF HitCount, D, U
<1>7. QED
  BY <1>4, <1>5, <1>6

\* If no set overflows and there is a candidate, the scan has a backup.
LEMMA BackupUnless ==
  ASSUME WorstCaseSetting, Inv, NEW val, NEW trivial, NEW isWrite, NEW o \in SetOrders(isWrite),
         Found(val, trivial, o) = {}, NEW m \in 1..NumSets,
         NEW c \in Candidates(val, trivial, o[m])
  PROVE  Backup(val, trivial, o) # {}
<1>. DEFINE seen == {s \in Scanned(val, trivial, o) \X Line :
                       s[2] \in Candidates(val, trivial, o[s[1]])}
            hits(s) == HitCount(val, trivial, o[s[1]], s[2])
            bound == Cardinality(Block) + Cardinality(Line)
<1>1. \A n \in 1..NumSets : o[n] \in ListedSet
  BY Zenon DEF SetOrders
<1>2. <<m, c>> \in seen
  <2>1. \A n \in 1..NumSets : ~StopsAt(val, trivial, o[n])
    BY FoundUnless, Zenon
  <2>2. m \in Scanned(val, trivial, o)
    <3>1. \A k \in 1..(m - 1) : k \in 1..NumSets
      BY SizesAssumption
    <3>2. QED
      BY <2>1, <3>1, Zenon DEF Scanned
  <2>3. c \in Line
    BY Zenon, <1>1, SetsAssumption DEF Candidates
  <2>4. QED
    BY Zenon, <2>2, <2>3
<1>3. ASSUME NEW s \in seen
      PROVE  s[1] \in Nat /\ hits(s) \in Nat /\ hits(s) <= bound /\ bound \in Nat
  <2>1. s[1] \in 1..NumSets
    BY Zenon DEF Scanned
  <2>2. s[1] \in Nat /\ o[s[1]] \in ListedSet
    BY <1>1, <2>1
  <2>. HIDE DEF seen
  <2>3. /\ HitCount(val, trivial, o[s[1]], s[2]) \in Nat
        /\ HitCount(val, trivial, o[s[1]], s[2]) <= Cardinality(Block) + Cardinality(Line)
        /\ Cardinality(Block) \in Nat /\ Cardinality(Line) \in Nat
    BY <2>2, HitCountBounded, Zenon
  <2>4. QED
    BY <2>2, <2>3
<1>4. Backup(val, trivial, o) = {val[s[2]] : s \in {s \in seen :
            \A t \in seen : \/ hits(t) < hits(s)
                            \/ hits(t) = hits(s) /\ s[1] <= t[1]}}
  BY Zenon DEF Backup
<1>. HIDE DEF seen, hits, bound
<1>. DEFINE K == {bound - hits(s) : s \in seen}
<1>5. K \subseteq Nat /\ K # {}
  BY <1>2, <1>3
<1>6. PICK k \in K : \A l \in K : ~(<<l, k>> \in OpToRel(<, Nat))
  <2>. HIDE DEF K
  <2>1. QED
    BY <1>5, NatLessThanWellFounded, WFMin, Zenon
<1>7. PICK s0 \in seen : k = bound - hits(s0)
  BY <1>6, Zenon
<1>8. ASSUME NEW t \in seen PROVE hits(t) <= hits(s0)
  <2>1. bound - hits(t) \in K
    BY Zenon
  <2>2. bound - hits(t) \in Nat /\ k \in Nat
    BY <1>5, <1>6, <2>1, Zenon
  <2>. HIDE DEF K
  <2>3. ~(bound - hits(t) < k)
    BY <1>6, <2>1, <2>2, Zenon DEF OpToRel
  <2>4. hits(t) \in Nat /\ hits(s0) \in Nat /\ bound \in Nat
    BY <1>3, Zenon
  <2>5. QED
    BY <1>7, <2>2, <2>3, <2>4
<1>. DEFINE F == {s[1] : s \in {s \in seen : hits(s) = hits(s0)}}
<1>9. F \subseteq Nat /\ F # {}
  BY Zenon, <1>3, <1>7
<1>10. PICK f \in F : \A l \in F : ~(<<l, f>> \in OpToRel(<, Nat))
  <2>. HIDE DEF F
  <2>1. QED
    BY <1>9, NatLessThanWellFounded, WFMin, Zenon
<1>11. PICK s1 \in seen : hits(s1) = hits(s0) /\ f = s1[1]
  BY <1>10, Zenon
<1>12. ASSUME NEW t \in seen
       PROVE  hits(t) < hits(s1) \/ (hits(t) = hits(s1) /\ s1[1] <= t[1])
  <2>1. hits(t) <= hits(s0) /\ hits(t) \in Nat /\ hits(s0) \in Nat /\ t[1] \in Nat /\ s1[1] \in Nat
    BY <1>3, <1>8, Zenon
  <2>2. CASE hits(t) = hits(s0)
    <3>1. t[1] \in F
      BY Zenon, <2>2
    <3>. HIDE DEF F
    <3>2. ~(t[1] < f)
      BY <1>10, <1>11, <2>1, <3>1, Zenon DEF OpToRel
    <3>3. QED
      BY <1>11, <2>1, <2>2, <3>2
  <2>3. CASE hits(t) # hits(s0)
    BY <1>11, <2>1, <2>3
  <2>4. QED
    BY Zenon, <2>2, <2>3
<1>13. val[s1[2]] \in Backup(val, trivial, o)
  BY <1>4, <1>12, Zenon
<1>14. QED
  BY <1>13, Zenon

\* getMissCost ranks a set with a dirty victim above one without.
LEMMA RankIsCost ==
  ASSUME NEW i, NEW j, NEW isWrite \in BOOLEAN, ~Before(j, i, isWrite), VictimDirty(j)
  PROVE  VictimDirty(i) \/ CACHE_MISS_LATENCY = 0
<1>. DEFINE q == CACHE_MISS_LATENCY \div 100
            r == IF ~isWrite \/ ~CACHE_WRITEBACK THEN q ELSE CACHE_HIT_LATENCY \div 100
<1>1. q \in Nat /\ r \in Nat /\ (q = 0 => CACHE_MISS_LATENCY = 0)
  BY LatencyAssumption
<1>2. /\ getMissCost(i, isWrite) = (IF VictimDirty(i) THEN q ELSE 0) + r
      /\ getMissCost(j, isWrite) = (IF VictimDirty(j) THEN q ELSE 0) + r
  BY Zenon DEF getMissCost, VictimDirty
<1>3. ~(getMissCost(j, isWrite) > getMissCost(i, isWrite))
  BY Zenon DEF Before
<1>. HIDE DEF q, r
<1>4. QED
  BY <1>1, <1>2, <1>3

\* The value that memoryOperation settles on costs at least as much as any other
\* value on a listed line.
LEMMA ChoiceIsWorst ==
  ASSUME WorstCaseSetting, Inv, NEW ptr \in Pointer, NEW isWrite \in BOOLEAN,
         NEW val \in SolverValues(ptr), NEW o \in SetOrders(isWrite), NEW trivial,
         NEW x \in AddressChoices(ptr, val, trivial, o), NEW y \in Values(ptr), Listed(y)
  PROVE  Cost(BlockAddr(x), isWrite) >= Cost(BlockAddr(y), isWrite)
<1>. DEFINE b == BlockAddr(y)
            z == CACHE_MISS_LATENCY
            Extra(i) == IF VictimDirty(i) THEN z ELSE 0
<1>1. LineOf(y) = b /\ b \in Block /\ b \in Line /\ PageAddr(b) = b
  <2>1. y \in Addr
    BY Zenon, PointerAssumption DEF Values, Inv, TypeOK
  <2>2. LineOf(y) = b /\ b \in Block /\ b \in Line
    BY <2>1, LineIsBlock, Zenon
  <2>3. QED
    BY <2>2, Zenon DEF LineOf
<1>. HIDE DEF b
<1>2. PICK j \in ListedSet : b \in SetAddrs[j]
  <2>1. contentionSetIdxs[b] # {}
    BY <1>1, Zenon DEF Listed
  <2>2. contentionSetIdxs[b] = {i \in ListedSet : b \in SetAddrs[i]}
    BY Zenon, <1>1 DEF contentionSetIdxs
  <2>3. QED
    BY Zenon, <2>1, <2>2
<1>3. SetsOf(b) = {j}
  BY <1>1, <1>2, OneSet, Zenon
<1>4. z \in Nat /\ \A i : Extra(i) \in Nat
  BY Zenon, CostType
<1>5. CASE b \in DOMAIN cache[j]
  <2>1. Cost(b, isWrite) = Base(isWrite)
    BY <1>3, <1>5, CostInSet, Zenon
  <2>2. Cost(BlockAddr(x), isWrite) >= Base(isWrite)
    BY CostAtLeastBase, Zenon
  <2>3. QED
    BY <2>1, <2>2, Zenon DEF b
<1>6. CASE b \notin DOMAIN cache[j]
  <2>1. Cost(b, isWrite) = z + Extra(j)
    BY <1>3, <1>6, CostInSet, Zenon
  <2>2. b \in Candidates(val, trivial, j)
    <3>1. LineOf(y) \in SetAddrs[j] /\ BlockAddr(y) \notin DOMAIN cache[j]
      BY <1>1, <1>2, <1>6, Zenon DEF b
    <3>2. LineOf(y) \in Candidates(val, trivial, j)
      BY <3>1, UncachedIsCandidate, Zenon
    <3>3. QED
      BY <1>1, <3>2, Zenon
  <2>3. PICK m \in 1..NumSets : o[m] = j
    BY OrderListsAll, Zenon
  <2>4. \A k \in 1..NumSets : o[k] \in ListedSet
    BY Zenon DEF SetOrders
  <2>5. \E n \in Scanned(val, trivial, o) : \E a \in Candidates(val, trivial, o[n]) : x = val[a]
    <3>1. CASE Found(val, trivial, o) # {}
      <4>1. x \in Found(val, trivial, o)
        BY <3>1, Zenon DEF AddressChoices, WorstCaseSetting
      <4>2. QED
        BY <4>1, Zenon DEF Found, Overflows
    <3>2. CASE Found(val, trivial, o) = {}
      <4>1. Backup(val, trivial, o) # {}
        BY <2>2, <2>3, <3>2, BackupUnless, Zenon
      <4>2. x \in Backup(val, trivial, o)
        BY <3>2, <4>1, Zenon DEF AddressChoices, WorstCaseSetting
      <4>3. QED
        BY Zenon, <4>2 DEF Backup
    <3>3. QED
      BY <3>1, <3>2, Zenon
  <2>6. PICK n \in Scanned(val, trivial, o) :
          \E a \in Candidates(val, trivial, o[n]) : x = val[a]
    BY <2>5, Zenon
  <2>7. PICK a \in Candidates(val, trivial, o[n]) : x = val[a]
    BY <2>6, Zenon
  <2>8. n \in 1..NumSets /\ \A k \in 1..(n - 1) : ~StopsAt(val, trivial, o[k])
    BY <2>6, Zenon DEF Scanned
  <2>9. o[n] \in ListedSet
    BY <2>4, <2>8, Zenon
  <2>10. Cost(BlockAddr(x), isWrite) = z + Extra(o[n])
    <3>1. Cost(BlockAddr(val[a]), isWrite) =
            CACHE_MISS_LATENCY + (IF VictimDirty(o[n]) THEN CACHE_MISS_LATENCY ELSE 0)
      BY <2>7, <2>9, CandidateCost
    <3>2. QED
      BY <2>7, <3>1, Zenon
  <2>11. CASE ~VictimDirty(j)
    <3>1. Extra(j) = 0
      BY <2>11, Zenon
    <3>2. Extra(o[n]) \in Nat
      BY <1>4, Zenon
    <3>. HIDE DEF z, Extra
    <3>3. z + Extra(o[n]) >= z + Extra(j)
      BY <1>4, <3>1, <3>2
    <3>4. QED
      BY <2>1, <2>10, <3>3, Zenon DEF b
  <2>12. CASE VictimDirty(j)
    <3>1. StopsAt(val, trivial, j)
      <4>1. Full(j)
        BY <2>12, Zenon DEF VictimDirty
      <4>2. Overflows(val, trivial, j) # {}
        BY <2>2, <4>1, FullOverflows
      <4>3. QED
        BY <4>2, Zenon DEF StopsAt
    <3>2. n <= m
      <4>1. ~(m \in 1..(n - 1))
        BY <2>3, <2>8, <3>1, Zenon
      <4>2. QED
        BY <2>3, <2>8, <4>1, SizesAssumption
    <3>3. VictimDirty(o[n]) \/ z = 0
      <4>1. CASE n = m
        BY <2>3, <2>12, <4>1, Zenon
      <4>2. CASE n # m
        <5>1. n < m
          BY <2>3, <2>8, <3>2, <4>2, SizesAssumption
        <5>2. ~Before(o[m], o[n], isWrite)
          BY <2>3, <2>8, <5>1, Zenon DEF SetOrders
        <5>3. QED
          BY <2>3, <2>12, <5>2, RankIsCost, Zenon
      <4>3. QED
        BY Zenon, <4>1, <4>2
    <3>4. Extra(o[n]) = z
      BY Zenon, <3>3
    <3>5. Extra(j) = z
      BY <2>12, Zenon
    <3>. HIDE DEF z, Extra
    <3>6. z + Extra(o[n]) >= z + Extra(j)
      BY <1>4, <3>4, <3>5
    <3>7. QED
      BY <2>1, <2>10, <3>6, Zenon DEF b
  <2>13. QED
    BY <2>11, <2>12, Zenon
<1>7. QED
  BY <1>5, <1>6, Zenon

\* A load or a store through a pointer with several values costs the most it can.
LEMMA PickCosts ==
  ASSUME WorstCaseSetting, Inv, Running, enabled, NEW ptr \in Pointer, NEW isWrite \in BOOLEAN,
         memoryOperation(ptr, isWrite), Cardinality(Values(ptr)) > 1, status' = "running",
         NEW y \in Values(ptr), Listed(y)
  PROVE  CountedDamage >= Damage(BlockAddr(y), isWrite)
<1>. DEFINE stats == Entered(Back, isWrite)
<1>1. ConcreteAccess(ptr, isWrite, stats) \/ SymbolicAccess(ptr, isWrite, stats)
  BY Zenon DEF memoryOperation, Entered
<1>2. ~ConcreteAccess(ptr, isWrite, stats)
  <2>1. ~MayBeConstant(ptr)
    BY DEF MayBeConstant
  <2>2. QED
    BY <2>1, Zenon DEF ConcreteAccess
<1>. HIDE DEF stats
<1>3. status' # "early"
  BY Zenon
<1>4. PICK val \in SolverValues(ptr), o \in SetOrders(isWrite) :
        \E trivial \in TriviallyUnsat(val) :
          \E x \in AddressChoices(ptr, val, trivial, o) : AccessAt(x, isWrite, stats)
  BY <1>1, <1>2, <1>3, Zenon DEF SymbolicAccess
<1>5. PICK trivial \in TriviallyUnsat(val) :
          \E x \in AddressChoices(ptr, val, trivial, o) : AccessAt(x, isWrite, stats)
  BY <1>4, Zenon
<1>6. PICK x \in AddressChoices(ptr, val, trivial, o) : AccessAt(x, isWrite, stats)
  BY <1>5, Zenon
<1>7. CountedDamage = Cost(BlockAddr(x), isWrite)
  BY <1>6, AccessTouches, TouchDamage, Zenon DEF stats
<1>8. Cost(BlockAddr(x), isWrite) >= Cost(BlockAddr(y), isWrite)
  BY ChoiceIsWorst, Zenon
<1>9. QED
  BY <1>7, <1>8, DamageIsCost, Zenon

\* For every cache whose sets are disjoint and every program on one page: the
\* value that --worst-case-sym-indices chooses for a symbolic pointer costs at
\* least as much as any other value that the path still allows on a listed line.
THEOREM ChoicesAreTheWorst ==
  ASSUME WorstCaseSetting
  PROVE  Spec => WorstCasePick
<1>. DEFINE A == \A ptr \in Pointer, isWrite \in BOOLEAN :
                   (Cardinality(Values(ptr)) > 1 /\ status' = "running"
                      /\ IF isWrite THEN Store(ptr) ELSE Load(ptr))
                     => \A x \in Values(ptr) :
                          Listed(x) => CountedDamage >= Damage(BlockAddr(x), isWrite)
<1>1. Inv => A
  <2>. SUFFICES ASSUME Inv, NEW ptr \in Pointer, NEW isWrite \in BOOLEAN,
                       Cardinality(Values(ptr)) > 1, status' = "running",
                       IF isWrite THEN Store(ptr) ELSE Load(ptr),
                       NEW x \in Values(ptr), Listed(x)
                PROVE  CountedDamage >= Damage(BlockAddr(x), isWrite)
    BY Zenon
  <2>1. Running /\ enabled /\ memoryOperation(ptr, isWrite)
    <3>1. CASE isWrite
      <4>1. isWrite = TRUE
        BY Zenon, <3>1
      <4>2. QED
        BY <4>1, Zenon DEF Store, Instruction
    <3>2. CASE ~isWrite
      <4>1. isWrite = FALSE
        BY Zenon, <3>2
      <4>2. QED
        BY <4>1, Zenon DEF Load, Instruction
    <3>3. QED
      BY Zenon, <3>1, <3>2
  <2>2. QED
    BY <2>1, PickCosts, Zenon
<1>2. Inv /\ [Next]_vars => [A]_vars
  BY <1>1, Zenon
<1>. QED BY <1>2, Invariance, PTL DEF Spec, WorstCasePick

=============================================================================

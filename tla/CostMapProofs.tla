--------------------------- MODULE CostMapProofs ---------------------------
(***************************************************************************)
(* For every module: when the worklist of the cost map is empty, the map   *)
(* is a fixpoint and marks exactly the instructions that have a            *)
(* castan_loop ahead; and throughout, the cost of an instruction is the    *)
(* sum along its path, which takes no loop more than twice.                *)
(***************************************************************************)
EXTENDS CostMap, FiniteSetTheorems, WellFoundedInduction, TLAPS

\* The context is large: the SMT solver is given more time than by default.
USE SMTT(20), Zenon

-----------------------------------------------------------------------------
(* The inductive invariant *)

\* Whoever still has to be visited because of a change: the worklist, and the
\* dependents of the current instruction once it has changed.
Pending(i) ==
    \/ i \in worklist
    \/ current # None /\ changed /\ i \in dependents(current)

\* The successors that were looked at do not improve the current instruction.
SettledSoFar(i) ==
    \A s \in successors(i) \ todo : Reached(s) => ~improves(i, s)

\* An instruction that need not be visited is settled.
PendingOrSettled ==
    \A i \in Inst : Pending(i) \/ IF i = current THEN SettledSoFar(i) ELSE Settled(i)

\* Calls are visited in one step.
CurrentPlain ==
    current # None => ~IsCall(current) /\ current \notin program.loopCalls

\* A marked instruction has a castan_loop ahead, and marks the instructions of
\* its function on its path, so that a full path never hides a castan_loop.
Marked ==
    /\ program.loopCalls \subseteq direct
    /\ \A i \in direct : LoopAhead(i)
    /\ \A i \in DOMAIN program.calls :
          i \in direct => program.calls[i] \in direct \/ successor(i) \in direct

\* Paths stay in the function and in functions of a lower rank.
PathsMarked ==
    \A i, j \in Inst : Times(paths[i], j) >= 1 =>
        /\ program.rank[j] <= program.rank[i]
        /\ i \in direct /\ program.entry[i] = program.entry[j] => j \in direct

Inv == CostTypeOK /\ CurrentPlain /\ PendingOrSettled /\ Marked /\ PathsMarked

-----------------------------------------------------------------------------
(* Paths *)

\* operator[] on a path does not change a count.
LEMMA AtLookup ==
    ASSUME NEW p, NEW i, NEW j PROVE Times(Lookup(p, i), j) = Times(p, j)
BY Zenon DEF Times, Lookup

\* path[i]++ adds one to the count of i.
LEMMA AtPlus ==
    ASSUME NEW p, NEW i, NEW j, \A k \in DOMAIN p : p[k] \in Nat
    PROVE  Times(Plus(p, i), j) = Times(p, j) + (IF j = i THEN 1 ELSE 0)
BY DEF Times, Plus

\* The sum of two paths adds their counts.
LEMMA AtJoined ==
    ASSUME NEW p, NEW q, NEW j
    PROVE  Times(Joined(p, q), j) = IF j \in DOMAIN p \cup DOMAIN q
                                 THEN Times(p, j) + Times(q, j) ELSE 0
BY Zenon DEF Times, Joined

\* Nothing is on the empty path.
LEMMA AtNoPath == ASSUME NEW j PROVE Times(NoPath, j) = 0
BY Zenon DEF Times, NoPath

\* A path maps instructions to counts.
IsPath(p) == DOMAIN p \subseteq Inst /\ \A j \in DOMAIN p : p[j] \in Nat

\* Counts are naturals, and the operations on paths give paths.
LEMMA PathType ==
    ASSUME NEW p, NEW q, NEW i \in Inst, NEW j, IsPath(p), IsPath(q)
    PROVE  /\ Times(p, j) \in Nat
           /\ IsPath(NoPath) /\ IsPath(Lookup(p, i))
           /\ IsPath(Plus(p, i)) /\ IsPath(Joined(p, q))
<1>1. Times(p, j) \in Nat
  BY Zenon DEF IsPath, Times
<1>2. IsPath(NoPath)
  BY Zenon DEF IsPath, NoPath
<1>3. IsPath(Lookup(p, i))
  BY Zenon DEF IsPath, Lookup, Times
<1>4. IsPath(Plus(p, i))
  BY DEF IsPath, Plus, Times
<1>5. IsPath(Joined(p, q))
  BY DEF IsPath, Joined, Times
<1> QED BY Zenon, <1>1, <1>2, <1>3, <1>4, <1>5

-----------------------------------------------------------------------------
(* The module under analysis *)

\* What WellFormed and NotRecursive say of the module.
LEMMA ProgramFacts ==
    ASSUME program \in Program
    PROVE  /\ \A i \in Inst : successors(i) \subseteq Inst
           /\ \A i \in Inst : \A s \in successors(i) :
                 program.entry[s] = program.entry[i] /\ ~IsEntry(s)
           /\ program.loopCalls \subseteq Inst
           /\ DOMAIN program.calls \subseteq Inst \ program.loopCalls
           /\ \A i \in DOMAIN program.calls :
                 /\ program.calls[i] \in Inst /\ IsEntry(program.calls[i])
                 /\ program.rank[program.calls[i]] < program.rank[i]
           /\ program.rank \in [Inst -> Nat]
           /\ \A i, j \in Inst : program.rank[i] = program.rank[j]
                                   <=> program.entry[i] = program.entry[j]
           /\ None \notin Inst
<1>1. WellFormed(program) /\ NotRecursive(program) /\ None \notin program.insts
  BY Zenon, ProgramAssumption
<1> QED BY Zenon, <1>1 DEF WellFormed, NotRecursive, Inst, successors, IsEntry

\* A call has one successor, and nothing else precedes that.
LEMMA SuccessorFacts ==
    ASSUME program \in Program, NEW i \in DOMAIN program.calls
    PROVE  /\ successors(i) = {successor(i)} /\ successor(i) \in Inst
           /\ \A j \in Inst : successor(i) \in successors(j) => j = i
<1>1. WellFormed(program)
  BY Zenon, ProgramAssumption
<1>2. PICK s \in successors(i) :
          successors(i) = {s} /\ \A j \in Inst : s \in successors(j) => j = i
  BY Zenon, <1>1 DEF WellFormed, successors, Inst
<1>3. successor(i) = s
  BY Zenon, <1>2 DEF successor
<1> QED BY Zenon, <1>2, <1>3, ProgramFacts

\* The cost of an instruction is a natural number of nanoseconds.
LEMMA InstCostType == ASSUME program \in Program, NEW i PROVE instCost(i) \in Nat
<1>1. WellFormed(program)
  BY Zenon, ProgramAssumption
<1>2. program.nsPerInstruction \in Nat /\ program.nsPerMemoryInstruction \in Nat
  BY Zenon, <1>1 DEF WellFormed
<1> QED BY <1>2 DEF instCost

-----------------------------------------------------------------------------
(* The initial state *)

\* After the initialisation of the cost map the invariant holds.
LEMMA InitInv == CostInit => Inv
<1> SUFFICES ASSUME CostInit PROVE Inv
  BY Zenon
<1>0. program \in Program
  BY Zenon DEF CostInit
<1>1. ASSUME NEW i \in Inst
      PROVE  /\ costs[i] = IF i \in targets THEN 1 ELSE 0
             /\ paths[i] = IF i \in targets THEN Plus(NoPath, i) ELSE NoPath
  BY Zenon DEF CostInit
<1>2. ASSUME NEW i \in Inst, NEW j
      PROVE  /\ IsPath(paths[i])
             /\ Times(paths[i], j) = IF i \in targets /\ j = i THEN 1 ELSE 0
  <2>1. IsPath(NoPath) /\ IsPath(Plus(NoPath, i))
    <3>1. IsPath(NoPath)
      BY Zenon DEF IsPath, NoPath
    <3> QED BY Zenon, <3>1, PathType
  <2>2. Times(Plus(NoPath, i), j) = Times(NoPath, j) + (IF j = i THEN 1 ELSE 0)
    BY <2>1, AtPlus DEF IsPath
  <2>3. IsPath(paths[i])
    BY Zenon, <1>1, <2>1
  <2>4. Times(paths[i], j) = IF i \in targets /\ j = i THEN 1 ELSE 0
    BY <1>1, <2>2, AtNoPath
  <2> QED BY Zenon, <2>3, <2>4
<1>3. CostTypeOK
  <2>1. direct \subseteq Inst /\ costs \in [Inst -> Nat]
    BY Zenon, <1>0, ProgramFacts DEF CostInit
  <2>2. paths = [i \in Inst |-> paths[i]]
    BY Zenon DEF CostInit
  <2>3. worklist \subseteq Inst /\ successorCosts \in [Inst -> Nat]
    BY Zenon DEF CostInit
  <2> QED BY Zenon, <1>0, <1>2, <2>1, <2>2, <2>3 DEF CostTypeOK, IsPath, CostInit
<1>4. CurrentPlain
  BY Zenon DEF CurrentPlain, CostInit
<1>5. ASSUME NEW t \in targets, NEW i \in Inst,
             i \in predecessors(t) \/ (IsEntry(t) /\ i \in callers(t))
      PROVE  i \in worklist
  BY Zenon, <1>5 DEF CostInit
<1>6. PendingOrSettled
  <2> SUFFICES ASSUME NEW i \in Inst, i \notin worklist PROVE Settled(i)
    BY Zenon, <1>0, ProgramFacts DEF PendingOrSettled, Pending, CostInit
  <2>1. ASSUME NEW s \in successors(i) PROVE s \in Inst /\ s \notin targets
    BY Zenon, <1>0, <1>5, ProgramFacts DEF predecessors
  <2>2. CASE IsCall(i)
    <3> DEFINE e == program.calls[i]
    <3>1. i \in DOMAIN program.calls
      BY Zenon, <2>2 DEF IsCall
    <3>2. e \in Inst /\ e \notin targets
      BY Zenon, <1>0, <1>5, <3>1, ProgramFacts DEF callers
    <3>3. successor(i) \in Inst /\ successor(i) \notin targets
      BY Zenon, <1>0, <2>1, <3>1, SuccessorFacts
    <3>4. i \notin targets
      BY <1>0, <3>1, SuccessorFacts, ProgramFacts DEF targets, exits
    <3>5. e \notin direct /\ paths[e] = NoPath /\ successor(i) \notin direct
      BY Zenon, <1>1, <3>2, <3>3 DEF targets, CostInit
    <3>6. i \notin direct /\ costs[i] = 0
      BY Zenon, <1>1, <3>4 DEF targets, CostInit
    <3> QED BY SMTT(30), <2>2, <3>5, <3>6
            DEF Settled, callSame, callCost, callFirst, callDirect, callReturns
  <2>3. CASE ~IsCall(i)
    BY <1>1, <2>1, <2>3 DEF Settled, Reached, targets, CostInit
  <2> QED BY Zenon, <2>2, <2>3
<1>7. Marked
  <2>1. \A i \in program.loopCalls : LoopAhead(i)
    BY Zenon, <1>0, ProgramFacts DEF LoopAhead
  <2> QED BY Zenon, <1>0, <2>1, ProgramFacts DEF Marked, CostInit
<1>8. PathsMarked
  <2> SUFFICES ASSUME NEW i \in Inst, NEW j \in Inst, Times(paths[i], j) >= 1 PROVE i = j
    BY <1>0, ProgramFacts DEF PathsMarked
  <2> QED BY <1>2
<1> QED BY Zenon, <1>3, <1>4, <1>6, <1>7, <1>8 DEF Inv

-----------------------------------------------------------------------------
(* The steps *)

\* Looking at a successor: only the current instruction and its path change, and
\* whoever depends on it becomes pending.
LEMMA LookAtStep ==
    ASSUME Inv, NEW s \in todo, lookAt(s) PROVE Inv'
<1> DEFINE c == current
<1>0. /\ CostTypeOK /\ CurrentPlain /\ PendingOrSettled /\ Marked /\ PathsMarked
      /\ program \in Program
      /\ program' = program /\ current' = current /\ worklist' = worklist
      /\ todo' = todo \ {s} /\ successorCosts' = successorCosts
  BY Zenon DEF Inv, CostTypeOK, lookAt
<1>1. /\ c \in Inst /\ s \in Inst /\ s \in successors(c) /\ c # None
      /\ c \notin DOMAIN program.calls /\ c \notin program.loopCalls
  <2>1. c # None /\ s \in successors(c) /\ c \in Inst
    BY Zenon, <1>0 DEF CostTypeOK
  <2> QED BY Zenon, <1>0, <2>1, ProgramFacts DEF CurrentPlain, IsCall
<1>2. /\ costs \in [Inst -> Nat] /\ direct \subseteq Inst /\ instCost(c) \in Nat
      /\ \A i \in Inst : IsPath(paths[i])
      /\ paths = [i \in Inst |-> paths[i]]
  BY Zenon, <1>0, InstCostType DEF CostTypeOK, IsPath
<1>3. ASSUME NEW i \in Inst, i # c
      PROVE  /\ costs'[i] = costs[i]
             /\ i \in direct' <=> i \in direct
             /\ i # s => paths'[i] = paths[i]
             /\ i = s => paths'[i] = Lookup(paths[s], c)
             /\ \A j : Times(paths'[i], j) = Times(paths[i], j)
  <2>1. costs'[i] = costs[i] /\ (i \in direct' <=> i \in direct)
    BY <1>1, <1>2, <1>3 DEF lookAt
  <2>2. i # s => paths'[i] = paths[i]
    BY Zenon, <1>1, <1>2, <1>3 DEF lookAt
  <2>3. i = s => paths'[i] = Lookup(paths[s], c)
    BY Zenon, <1>1, <1>2, <1>3 DEF lookAt
  <2> QED BY <2>1, <2>2, <2>3, AtLookup
<1>4. CASE improves(c, s)
  <2>1. /\ costs'[c] = costs[s] + instCost(c)
        /\ c \in direct' <=> s \in direct
        /\ paths'[c] = Plus(paths[s], c)
        /\ changed' = TRUE
        /\ s \in direct \/ c \notin direct
    BY Zenon, <1>1, <1>2, <1>4 DEF lookAt, improves
  <2>2. \A j : Times(paths'[c], j) = Times(paths[s], j) + (IF j = c THEN 1 ELSE 0)
    BY <1>1, <1>2, <2>1, AtPlus DEF IsPath
  <2>3. CostTypeOK'
    <3>1. costs' \in [Inst -> Nat] /\ direct' \subseteq Inst
      BY <1>1, <1>2, <1>4 DEF lookAt
    <3>2. paths' = [i \in Inst |-> paths'[i]]
      BY Zenon, <1>2, <1>4 DEF lookAt
    <3>3. ASSUME NEW i \in Inst PROVE IsPath(paths'[i])
      <4>1. IsPath(Plus(paths[s], c)) /\ IsPath(Lookup(paths[s], c))
        BY Zenon, <1>1, <1>2, PathType
      <4> QED BY Zenon, <1>2, <1>3, <2>1, <4>1
    <3> QED BY Zenon, <1>0, <2>1, <3>1, <3>2, <3>3 DEF CostTypeOK, Inst, IsPath, successors
  <2>4. PendingOrSettled'
    <3> SUFFICES ASSUME NEW i \in Inst, ~Pending(i)'
                 PROVE  IF i = c THEN SettledSoFar(i)' ELSE Settled(i)'
      BY Zenon, <1>0 DEF PendingOrSettled, Inst
    <3>1. i \notin worklist /\ i \notin dependents(c)
      BY Zenon, <1>0, <1>1, <2>1
         DEF Pending, dependents, IsEntry, callers, predecessors, Inst, successors
    <3>2. ~Pending(i)
      BY Zenon, <3>1 DEF Pending
    <3>3. c \notin successors(i)
      BY Zenon, <1>0, <3>1, ProgramFacts DEF dependents, predecessors
    <3>4. CASE i = c
      <4>1. SettledSoFar(c)
        BY Zenon, <1>0, <3>2, <3>4 DEF PendingOrSettled
      <4>2. SUFFICES ASSUME NEW t \in successors(c), t \notin todo \/ t = s, Reached(t)'
                     PROVE  ~improves(c, t)'
        BY Zenon, <1>0, <3>4 DEF SettledSoFar, successors
      <4>3. t \in Inst /\ t # c
        BY Zenon, <1>0, <1>1, <3>3, <3>4, ProgramFacts
      <4>4. /\ costs'[t] = costs[t] /\ (t \in direct' <=> t \in direct)
            /\ Times(paths'[t], c) = Times(paths[t], c)
        BY Zenon, <1>3, <4>3
      <4>5. instCost(c)' = instCost(c)
        BY Zenon, <1>0 DEF instCost
      <4>6. costs[t] \in Nat /\ costs[s] \in Nat /\ costs[c] \in Nat
        BY Zenon, <1>1, <1>2, <4>3
      <4>7. CASE t = s
        BY <1>0, <1>2, <2>1, <4>4, <4>5, <4>6, <4>7 DEF improves
      <4>8. CASE t \notin todo
        <5>1. Reached(t)
          BY Zenon, <4>2, <4>4 DEF Reached
        <5>2. ~improves(c, t)
          BY Zenon, <4>1, <4>2, <4>8, <5>1 DEF SettledSoFar
        <5> QED BY <1>0, <1>2, <1>4, <2>1, <4>4, <4>5, <4>6, <5>2 DEF improves
      <4> QED BY Zenon, <4>2, <4>7, <4>8
    <3>5. CASE i # c
      <4>1. Settled(i)
        BY Zenon, <1>0, <3>2, <3>5 DEF PendingOrSettled
      <4>2. CASE IsCall(i)
        <5> DEFINE e == program.calls[i]
        <5>1. i \in DOMAIN program.calls
          BY Zenon, <4>2 DEF IsCall
        <5>2. e \in Inst /\ e # c /\ e # s
          BY <1>0, <1>1, <3>1, <5>1, ProgramFacts DEF dependents, callers
        <5>3. successor(i) \in Inst /\ successor(i) # c /\ successor(i) # s
          BY <1>0, <1>1, <3>3, <3>5, <5>1, SuccessorFacts
        <5>4. /\ costs'[e] = costs[e] /\ (e \in direct' <=> e \in direct)
              /\ paths'[e] = paths[e]
              /\ costs'[successor(i)] = costs[successor(i)]
              /\ successor(i) \in direct' <=> successor(i) \in direct
              /\ paths'[successor(i)] = paths[successor(i)]
          BY Zenon, <1>3, <5>2, <5>3
        <5>5. successor(i)' = successor(i)
          BY Zenon, <1>0 DEF successor, successors
        <5>6. costs'[i] = costs[i] /\ (i \in direct' <=> i \in direct)
          BY Zenon, <1>3, <3>5
        <5>7. callSame(i)
          BY Zenon, <4>1, <4>2 DEF Settled
        <5>8. callSame(i)'
          BY Zenon, <1>0, <5>4, <5>5, <5>6, <5>7
             DEF callSame, callCost, callFirst, callDirect, callReturns
        <5> QED BY Zenon, <1>0, <3>5, <4>2, <5>8 DEF Settled, IsCall
      <4>3. CASE ~IsCall(i)
        <5>1. SUFFICES ASSUME i \notin program.loopCalls, NEW t \in successors(i), Reached(t)'
                       PROVE  ~improves(i, t)'
          BY Zenon, <1>0, <3>5, <4>3 DEF Settled, IsCall, successors
        <5>2. t \in Inst /\ t # c
          BY Zenon, <1>0, <3>3, ProgramFacts
        <5>3. /\ costs'[t] = costs[t] /\ (t \in direct' <=> t \in direct)
              /\ Times(paths'[t], i) = Times(paths[t], i)
              /\ costs'[i] = costs[i] /\ (i \in direct' <=> i \in direct)
          BY Zenon, <1>3, <3>5, <5>2
        <5>4. ~improves(i, t)
          BY Zenon, <4>1, <4>3, <5>1, <5>3 DEF Settled, Reached
        <5> QED BY Zenon, <1>0, <5>3, <5>4 DEF improves, instCost
      <4> QED BY Zenon, <4>2, <4>3
    <3> QED BY Zenon, <3>4, <3>5
  <2>5. direct \subseteq direct'
    BY Zenon, <1>2, <1>3, <2>1
  <2>6. Marked'
    <3>1. LoopAhead(s) => LoopAhead(c)
      BY Zenon, <1>1 DEF LoopAhead
    <3>2. \A i \in direct' : LoopAhead(i)'
      <4> SUFFICES ASSUME NEW i \in direct' PROVE LoopAhead(i)
        BY Zenon, <1>0 DEF LoopAhead, Inst, successors
      <4>1. i \in Inst
        BY Zenon, <1>0, <2>3 DEF CostTypeOK, Inst
      <4>2. CASE i = c
        BY Zenon, <1>0, <2>1, <3>1, <4>2 DEF Marked
      <4>3. CASE i # c
        BY Zenon, <1>0, <1>3, <4>1, <4>3 DEF Marked
      <4> QED BY Zenon, <4>2, <4>3
    <3>3. ASSUME NEW i \in DOMAIN program.calls, i \in direct'
          PROVE  program.calls[i] \in direct' \/ successor(i) \in direct'
      <4>1. i \in Inst /\ i # c
        BY Zenon, <1>0, <1>1, ProgramFacts
      <4> QED BY Zenon, <1>0, <1>3, <2>5, <3>3, <4>1 DEF Marked
    <3>4. \A i : successor(i)' = successor(i)
      BY Zenon, <1>0 DEF successor, successors
    <3> QED BY Zenon, <1>0, <2>5, <3>2, <3>3, <3>4 DEF Marked
  <2>7. PathsMarked'
    <3> SUFFICES ASSUME NEW i \in Inst, NEW j \in Inst, Times(paths'[i], j) >= 1
                 PROVE  /\ program.rank[j] <= program.rank[i]
                        /\ i \in direct' /\ program.entry[i] = program.entry[j] => j \in direct'
      BY Zenon, <1>0 DEF PathsMarked, Inst
    <3>1. CASE i # c
      BY Zenon, <1>0, <1>3, <2>5, <3>1 DEF PathsMarked
    <3>2. CASE i = c /\ j = c
      BY <1>0, <1>1, <3>2, ProgramFacts
    <3>3. CASE i = c /\ j # c
      <4>1. Times(paths[s], j) >= 1
        <5>1. Times(paths[s], j) \in Nat
          BY Zenon, <1>1, <1>2, PathType
        <5> QED BY <2>2, <3>3, <5>1
      <4>2. program.entry[s] = program.entry[c] /\ program.rank[s] = program.rank[c]
        BY <1>0, <1>1, ProgramFacts
      <4> QED BY Zenon, <1>0, <1>1, <2>1, <2>5, <3>3, <4>1, <4>2 DEF PathsMarked
    <3> QED BY Zenon, <3>1, <3>2, <3>3
  <2>8. CurrentPlain'
    BY Zenon, <1>0 DEF CurrentPlain, IsCall
  <2> QED BY Zenon, <2>3, <2>4, <2>6, <2>7, <2>8 DEF Inv
<1>5. CASE ~improves(c, s)
  <2>1. costs' = costs /\ direct' = direct /\ changed' = changed
    BY Zenon, <1>5 DEF lookAt
  <2>2. ASSUME NEW i \in Inst
        PROVE  /\ \A j : Times(paths'[i], j) = Times(paths[i], j)
               /\ i # s => paths'[i] = paths[i]
               /\ IsPath(paths'[i])
    <3>1. paths'[i] = IF i = s THEN Lookup(paths[s], c) ELSE paths[i]
      BY Zenon, <1>1, <1>2, <1>5 DEF lookAt
    <3>2. IsPath(Lookup(paths[s], c))
      BY Zenon, <1>1, <1>2, PathType
    <3> QED BY <1>2, <3>1, <3>2, AtLookup
  <2>3. CostTypeOK'
    <3>1. paths' = [i \in Inst |-> paths'[i]]
      BY Zenon, <1>2, <1>5 DEF lookAt
    <3> QED BY SMTT(30), <1>0, <2>1, <2>2, <3>1 DEF CostTypeOK, Inst, IsPath, successors
  <2>4. ASSUME NEW i \in Inst, NEW t \in Inst
        PROVE  /\ improves(i, t)' <=> improves(i, t)
               /\ Reached(t)' <=> Reached(t)
    BY <1>0, <2>1, <2>2 DEF improves, instCost, Reached
  <2>5. PendingOrSettled'
    <3> SUFFICES ASSUME NEW i \in Inst, ~Pending(i)'
                 PROVE  IF i = c THEN SettledSoFar(i)' ELSE Settled(i)'
      BY Zenon, <1>0 DEF PendingOrSettled, Inst
    <3>1. ~Pending(i)
      BY Zenon, <1>0, <2>1 DEF Pending, dependents, IsEntry, callers, predecessors, Inst, successors
    <3>2. CASE i = c
      <4>1. SettledSoFar(c)
        BY Zenon, <1>0, <3>1, <3>2 DEF PendingOrSettled
      <4>2. SUFFICES ASSUME NEW t \in successors(c), t \notin todo \/ t = s, Reached(t)'
                     PROVE  ~improves(i, t)'
        BY Zenon, <1>0, <3>2 DEF SettledSoFar, successors
      <4>3. t \in Inst
        BY Zenon, <1>0, <1>1, ProgramFacts
      <4> QED BY Zenon, <1>5, <2>4, <3>2, <4>1, <4>2, <4>3 DEF SettledSoFar
    <3>3. CASE i # c /\ IsCall(i)
      <4>1. i \in DOMAIN program.calls /\ callSame(i)
        BY Zenon, <1>0, <3>1, <3>3 DEF PendingOrSettled, Settled, IsCall
      <4>2. program.calls[i] \in Inst /\ program.calls[i] # s
        BY <1>0, <1>1, <4>1, ProgramFacts
      <4>3. successor(i) \in Inst /\ successor(i) # s
        BY <1>0, <1>1, <3>3, <4>1, SuccessorFacts
      <4>4. successor(i)' = successor(i)
        BY Zenon, <1>0 DEF successor, successors
      <4>5. callSame(i)'
        BY <1>0, <2>1, <2>2, <4>1, <4>2, <4>3, <4>4
           DEF callSame, callCost, callFirst, callDirect, callReturns
      <4> QED BY Zenon, <1>0, <3>3, <4>5 DEF Settled, IsCall
    <3>4. CASE i # c /\ ~IsCall(i)
      <4>1. SUFFICES ASSUME i \notin program.loopCalls, NEW t \in successors(i), Reached(t)'
                     PROVE  ~improves(i, t)'
        BY Zenon, <1>0, <3>4 DEF Settled, IsCall, successors
      <4>2. t \in Inst
        BY Zenon, <1>0, ProgramFacts
      <4> QED BY Zenon, <1>0, <2>4, <3>1, <3>4, <4>1, <4>2 DEF PendingOrSettled, Settled
    <3> QED BY Zenon, <3>2, <3>3, <3>4
  <2>6. Marked'
    BY <1>0, <2>1 DEF Marked, LoopAhead, Inst, successors, successor
  <2>7. PathsMarked'
    BY Zenon, <1>0, <2>1, <2>2 DEF PathsMarked, Inst
  <2>8. CurrentPlain'
    BY Zenon, <1>0 DEF CurrentPlain, IsCall
  <2> QED BY Zenon, <2>3, <2>5, <2>6, <2>7, <2>8 DEF Inv
<1> QED BY Zenon, <1>4, <1>5

\* Visiting a call: its cost follows from its callee's and its successor's, and
\* whoever depends on it joins the worklist.
LEMMA VisitCallStep ==
    ASSUME Inv, NEW c \in worklist, visitCall(c) PROVE Inv'
<1> DEFINE e == program.calls[c]
           t == successor(c)
<1>0. /\ CostTypeOK /\ CurrentPlain /\ PendingOrSettled /\ Marked /\ PathsMarked
      /\ program \in Program
      /\ program' = program /\ current = None /\ current' = None
      /\ todo' = todo /\ changed' = changed
  BY Zenon DEF Inv, CostTypeOK, visitCall
<1>1. /\ c \in Inst /\ c \in DOMAIN program.calls /\ c \notin program.loopCalls
      /\ e \in Inst /\ t \in Inst /\ successors(c) = {t} /\ e # c
      /\ program.rank \in [Inst -> Nat] /\ program.rank[e] < program.rank[c]
      /\ program.rank[t] = program.rank[c] /\ program.entry[t] = program.entry[c]
  <2>1. c \in Inst /\ c \in DOMAIN program.calls
    BY Zenon, <1>0 DEF CostTypeOK, visitCall, IsCall
  <2>2. t \in Inst /\ successors(c) = {t}
    BY Zenon, <1>0, <2>1, SuccessorFacts
  <2>3. /\ e \in Inst /\ c \notin program.loopCalls
        /\ program.rank \in [Inst -> Nat] /\ program.rank[e] < program.rank[c]
    BY Zenon, <1>0, <2>1, ProgramFacts
  <2>4. program.rank[t] = program.rank[c] /\ program.entry[t] = program.entry[c]
    BY <1>0, <2>1, <2>2, ProgramFacts
  <2> QED BY <2>1, <2>2, <2>3, <2>4
<1>2. /\ costs \in [Inst -> Nat] /\ direct \subseteq Inst /\ worklist \subseteq Inst
      /\ \A i \in Inst : IsPath(paths[i])
      /\ paths = [i \in Inst |-> paths[i]]
      /\ successorCosts \in [Inst -> Nat]
  BY Zenon, <1>0 DEF CostTypeOK, IsPath
<1>3. /\ IsPath(callPath(c)) /\ callCost(c) \in Nat
      /\ successorCosts' \in [Inst -> Nat]
  <2>1. IsPath(Plus(paths[e], c)) /\ IsPath(Joined(paths[e], paths[t])) /\ IsPath(NoPath)
    BY Zenon, <1>1, <1>2, PathType
  <2>2. IsPath(Plus(Joined(paths[e], paths[t]), c))
    BY Zenon, <1>1, <2>1, PathType
  <2>3. costs[e] \in Nat /\ costs[t] \in Nat
    BY Zenon, <1>1, <1>2
  <2>4. successorCosts' \in [Inst -> Nat]
    BY Zenon, <1>2, <2>3 DEF visitCall
  <2> QED BY <2>1, <2>2, <2>3, <2>4 DEF callPath, callCost
<1>4. CASE callSame(c)
  <2>1. /\ costs' = costs /\ direct' = direct /\ paths' = paths
        /\ worklist' = worklist \ {c}
    BY Zenon, <1>4 DEF visitCall
  <2>2. CostTypeOK'
    BY Zenon, <1>0, <1>2, <1>3, <2>1 DEF CostTypeOK, Inst, successors
  <2>3. \A i \in Inst : Settled(i) => Settled(i)'
    BY <1>0, <2>1 DEF Settled, IsCall, callSame, callCost, callFirst, callDirect,
                      callReturns, successor, successors, Reached, improves, instCost
  <2>4. Settled(c)
    BY Zenon, <1>1, <1>4 DEF Settled, IsCall
  <2>5. PendingOrSettled'
    <3> SUFFICES ASSUME NEW i \in Inst, i \notin worklist' PROVE Settled(i)'
      BY Zenon, <1>0, ProgramFacts DEF PendingOrSettled, Pending, Inst
    <3> QED BY <1>0, <2>1, <2>3, <2>4, ProgramFacts DEF PendingOrSettled, Pending
  <2>6. Marked'
    BY <1>0, <2>1 DEF Marked, LoopAhead, Inst, successors, successor
  <2>7. PathsMarked'
    BY Zenon, <1>0, <2>1 DEF PathsMarked, Inst
  <2>8. CurrentPlain'
    BY Zenon, <1>0 DEF CurrentPlain
  <2> QED BY Zenon, <2>2, <2>5, <2>6, <2>7, <2>8 DEF Inv
<1>5. CASE ~callSame(c)
  <2>1. /\ costs'[c] = callCost(c) /\ paths'[c] = callPath(c)
        /\ c \in direct' <=> callFirst(c)
        /\ worklist' = (worklist \ {c}) \cup dependents(c)
    BY Zenon, <1>1, <1>2, <1>5 DEF visitCall
  <2>2. ASSUME NEW i \in Inst, i # c
        PROVE  /\ costs'[i] = costs[i] /\ paths'[i] = paths[i]
               /\ i \in direct' <=> i \in direct
    BY <1>1, <1>2, <1>5, <2>2 DEF visitCall
  <2>3. CostTypeOK'
    <3>1. costs' \in [Inst -> Nat] /\ direct' \subseteq Inst
      BY <1>1, <1>2, <1>3, <1>5 DEF visitCall
    <3>2. paths' = [i \in Inst |-> paths'[i]]
      BY Zenon, <1>2, <1>5 DEF visitCall
    <3>3. \A i \in Inst : IsPath(paths'[i])
      BY Zenon, <1>2, <1>3, <2>1, <2>2
    <3>4. worklist' \subseteq Inst
      BY Zenon, <1>0, <1>2, <2>1, ProgramFacts DEF dependents, predecessors, callers
    <3> QED BY Zenon, <1>0, <1>3, <3>1, <3>2, <3>3, <3>4 DEF CostTypeOK, Inst, IsPath, successors
  <2>4. PendingOrSettled'
    <3> SUFFICES ASSUME NEW i \in Inst, i \notin worklist' PROVE Settled(i)'
      BY Zenon, <1>0, ProgramFacts DEF PendingOrSettled, Pending, Inst
    <3>1. c \notin successors(i)
      BY Zenon, <1>0, <2>1, ProgramFacts DEF dependents, predecessors
    <3>2. i = c \/ Settled(i)
      BY Zenon, <1>0, <2>1, ProgramFacts DEF PendingOrSettled, Pending
    <3>3. \A k : successor(k)' = successor(k)
      BY Zenon, <1>0 DEF successor, successors
    <3>4. CASE i = c
      <4>1. t # c
        BY Zenon, <1>1, <3>1, <3>4
      <4>2. /\ costs'[e] = costs[e] /\ paths'[e] = paths[e]
            /\ e \in direct' <=> e \in direct
            /\ costs'[t] = costs[t] /\ paths'[t] = paths[t]
            /\ t \in direct' <=> t \in direct
        BY Zenon, <1>1, <2>2, <4>1
      <4>3. callCost(c)' = callCost(c) /\ (callFirst(c)' <=> callFirst(c))
        BY Zenon, <1>0, <3>3, <4>2 DEF callCost, callFirst, callDirect, callReturns
      <4> QED BY Zenon, <1>0, <1>1, <2>1, <3>4, <4>3 DEF Settled, IsCall, callSame
    <3>5. CASE i # c /\ IsCall(i)
      <4> DEFINE f == program.calls[i]
                 u == successor(i)
      <4>1. i \in DOMAIN program.calls /\ callSame(i)
        BY Zenon, <3>2, <3>5 DEF Settled, IsCall
      <4>2. f \in Inst /\ f # c
        BY <1>0, <2>1, <4>1, ProgramFacts DEF dependents, callers
      <4>3. u \in Inst /\ u # c
        BY Zenon, <1>0, <3>1, <4>1, SuccessorFacts
      <4>4. /\ costs'[f] = costs[f] /\ paths'[f] = paths[f]
            /\ f \in direct' <=> f \in direct
            /\ costs'[u] = costs[u] /\ paths'[u] = paths[u]
            /\ u \in direct' <=> u \in direct
            /\ costs'[i] = costs[i] /\ (i \in direct' <=> i \in direct)
        BY Zenon, <2>2, <3>5, <4>2, <4>3
      <4>5. callSame(i)'
        BY Zenon, <1>0, <3>3, <4>1, <4>4
           DEF callSame, callCost, callFirst, callDirect, callReturns
      <4> QED BY Zenon, <1>0, <3>5, <4>5 DEF Settled, IsCall
    <3>6. CASE i # c /\ ~IsCall(i)
      <4>1. SUFFICES ASSUME i \notin program.loopCalls, NEW u \in successors(i), Reached(u)'
                     PROVE  ~improves(i, u)'
        BY Zenon, <1>0, <3>6 DEF Settled, IsCall, successors
      <4>2. u \in Inst /\ u # c
        BY Zenon, <1>0, <3>1, ProgramFacts
      <4>3. /\ costs'[u] = costs[u] /\ paths'[u] = paths[u]
            /\ u \in direct' <=> u \in direct
            /\ costs'[i] = costs[i] /\ (i \in direct' <=> i \in direct)
        BY Zenon, <2>2, <3>6, <4>2
      <4>4. ~improves(i, u)
        BY Zenon, <3>2, <3>6, <4>1, <4>3 DEF Settled, Reached
      <4> QED BY Zenon, <1>0, <4>3, <4>4 DEF improves, instCost
    <3> QED BY Zenon, <3>4, <3>5, <3>6
  <2>5. direct \subseteq direct'
    BY Zenon, <1>0, <1>1, <1>2, <2>1, <2>2 DEF Marked, callFirst, callDirect
  <2>6. Marked'
    <3>1. LoopAhead(e) \/ LoopAhead(t) => LoopAhead(c)
      BY Zenon, <1>1 DEF LoopAhead
    <3>2. \A i \in direct' : LoopAhead(i)'
      <4> SUFFICES ASSUME NEW i \in direct' PROVE LoopAhead(i)
        BY Zenon, <1>0 DEF LoopAhead, Inst, successors
      <4>1. i \in Inst
        BY Zenon, <1>0, <2>3 DEF CostTypeOK, Inst
      <4> QED BY Zenon, <1>0, <2>1, <2>2, <3>1, <4>1 DEF Marked, callFirst, callDirect
    <3>3. ASSUME NEW i \in DOMAIN program.calls, i \in direct'
          PROVE  program.calls[i] \in direct' \/ successor(i) \in direct'
      <4>1. i \in Inst
        BY Zenon, <1>0, ProgramFacts
      <4> QED BY Zenon, <1>0, <2>1, <2>2, <2>5, <3>3, <4>1 DEF Marked, callFirst, callDirect
    <3>4. \A i : successor(i)' = successor(i)
      BY Zenon, <1>0 DEF successor, successors
    <3> QED BY Zenon, <1>0, <2>5, <3>2, <3>3, <3>4 DEF Marked
  <2>7. PathsMarked'
    <3> SUFFICES ASSUME NEW i \in Inst, NEW j \in Inst, Times(paths'[i], j) >= 1
                 PROVE  /\ program.rank[j] <= program.rank[i]
                        /\ i \in direct' /\ program.entry[i] = program.entry[j] => j \in direct'
      BY Zenon, <1>0 DEF PathsMarked, Inst
    <3>1. CASE i # c
      BY Zenon, <1>0, <2>2, <2>5, <3>1 DEF PathsMarked
    <3>2. CASE i = c /\ j = c
      BY <1>0, <1>1, <3>2, ProgramFacts
    <3>3. CASE i = c /\ j # c
      <4>0. /\ Times(paths[e], j) \in Nat /\ Times(paths[t], j) \in Nat
            /\ program.rank[e] \in Nat /\ program.rank[j] \in Nat /\ program.rank[c] \in Nat
        BY Zenon, <1>1, <1>2, PathType
      <4>1. ASSUME Times(paths[e], j) >= 1
            PROVE  program.rank[j] < program.rank[c] /\ program.entry[c] # program.entry[j]
        <5>1. program.rank[j] < program.rank[c]
          BY <1>0, <1>1, <4>0, <4>1 DEF PathsMarked
        <5> QED BY <1>0, <1>1, <4>0, <5>1, ProgramFacts
      <4>2. CASE callDirect(c)
        <5>1. Times(paths'[c], j) = Times(paths[e], j)
          BY <1>1, <1>2, <2>1, <3>3, <4>0, <4>2, AtPlus DEF callPath, IsPath
        <5> QED BY <3>3, <4>0, <4>1, <5>1
      <4>3. CASE ~callDirect(c) /\ ~callReturns(c)
        BY <2>1, <3>3, <4>3, AtNoPath DEF callPath
      <4>4. CASE ~callDirect(c) /\ callReturns(c)
        <5>1. IsPath(Joined(paths[e], paths[t]))
          BY Zenon, <1>1, <1>2, PathType
        <5>2. Times(paths'[c], j) = Times(Joined(paths[e], paths[t]), j)
          <6>1. Times(Joined(paths[e], paths[t]), j) \in Nat
            BY Zenon, <1>1, <5>1, PathType
          <6> QED BY <2>1, <3>3, <4>4, <5>1, <6>1, AtPlus DEF callPath, IsPath
        <5>3. Times(paths[e], j) >= 1 \/ Times(paths[t], j) >= 1
          BY <3>3, <4>0, <5>2, AtJoined
        <5>4. ASSUME Times(paths[t], j) >= 1
              PROVE  /\ program.rank[j] <= program.rank[c]
                     /\ t \in direct /\ program.entry[c] = program.entry[j] => j \in direct
          BY Zenon, <1>0, <1>1, <5>4 DEF PathsMarked
        <5>5. c \in direct' => t \in direct
          BY Zenon, <2>1, <4>4 DEF callFirst
        <5> QED BY <2>5, <3>3, <4>0, <4>1, <5>3, <5>4, <5>5
      <4> QED BY Zenon, <4>2, <4>3, <4>4
    <3> QED BY Zenon, <3>1, <3>2, <3>3
  <2>8. CurrentPlain'
    BY Zenon, <1>0 DEF CurrentPlain
  <2> QED BY Zenon, <2>3, <2>4, <2>6, <2>7, <2>8 DEF Inv
<1> QED BY Zenon, <1>4, <1>5

\* The other steps: they only move instructions between the worklist and current.
LEMMA VisitStep ==
    ASSUME Inv, NEW i \in worklist, visitLoopCall(i) \/ visit(i) PROVE Inv'
<1>0. /\ CostTypeOK /\ CurrentPlain /\ PendingOrSettled /\ Marked /\ PathsMarked
      /\ program \in Program
      /\ program' = program /\ direct' = direct /\ costs' = costs /\ paths' = paths
      /\ successorCosts' = successorCosts
      /\ worklist' = worklist \ {i} /\ current = None /\ i \in Inst
  BY Zenon DEF Inv, CostTypeOK, visitLoopCall, visit
<1>1. CostTypeOK'
  <2>1. CASE visitLoopCall(i)
    BY Zenon, <1>0, <2>1 DEF CostTypeOK, visitLoopCall, Inst, successors
  <2>2. CASE visit(i)
    <3>1. i # None /\ current' = i /\ todo' = successors(i) /\ changed' = FALSE
      BY Zenon, <1>0, <2>2, ProgramFacts DEF visit
    <3> QED BY Zenon, <1>0, <3>1 DEF CostTypeOK, Inst, successors
  <2> QED BY Zenon, <2>1, <2>2
<1>2. CurrentPlain'
  BY Zenon, <1>0 DEF CurrentPlain, visitLoopCall, visit, IsCall
<1>3. PendingOrSettled'
  <2> SUFFICES ASSUME NEW j \in Inst, j \notin worklist'
               PROVE  IF j = current' THEN SettledSoFar(j)' ELSE Settled(j)'
    BY Zenon, <1>0 DEF PendingOrSettled, Pending, Inst
  <2>1. Settled(j) => Settled(j)'
    BY <1>0 DEF Settled, IsCall, callSame, callCost, callFirst, callDirect,
                callReturns, successor, successors, Reached, improves, instCost
  <2>2. CASE j # i
    <3>1. Settled(j)
      BY Zenon, <1>0, <2>2, ProgramFacts DEF PendingOrSettled, Pending
    <3>2. j # current'
      BY <1>0, <2>2, ProgramFacts DEF visitLoopCall, visit
    <3> QED BY Zenon, <2>1, <3>1, <3>2
  <2>3. CASE j = i /\ visitLoopCall(i)
    <3>1. Settled(j) /\ j # current'
      BY <1>0, <2>3, ProgramFacts DEF Settled, visitLoopCall, IsCall
    <3> QED BY Zenon, <2>1, <3>1
  <2>4. CASE j = i /\ visit(i)
    BY Zenon, <1>0, <2>4 DEF visit, SettledSoFar, successors
  <2> QED BY Zenon, <2>2, <2>3, <2>4
<1>4. Marked'
  BY <1>0 DEF Marked, LoopAhead, Inst, successors, successor
<1>5. PathsMarked'
  BY Zenon, <1>0 DEF PathsMarked, Inst
<1> QED BY Zenon, <1>1, <1>2, <1>3, <1>4, <1>5 DEF Inv

\* The end of a visit: the pending dependents join the worklist.
LEMMA PropagateStep == ASSUME Inv, propagate PROVE Inv'
<1>0. /\ CostTypeOK /\ CurrentPlain /\ PendingOrSettled /\ Marked /\ PathsMarked
      /\ program \in Program
      /\ program' = program /\ direct' = direct /\ costs' = costs /\ paths' = paths
      /\ successorCosts' = successorCosts /\ current' = None /\ todo = {} /\ todo' = {}
      /\ current # None /\ current \in Inst
      /\ worklist' = IF changed THEN worklist \cup dependents(current) ELSE worklist
  BY Zenon DEF Inv, CostTypeOK, propagate
<1>1. CostTypeOK'
  <2>1. worklist' \subseteq Inst
    BY Zenon, <1>0, ProgramFacts DEF CostTypeOK, dependents, callers, predecessors
  <2> QED BY Zenon, <1>0, <2>1 DEF CostTypeOK, propagate, Inst, successors
<1>2. CurrentPlain'
  BY Zenon, <1>0 DEF CurrentPlain
<1>3. PendingOrSettled'
  <2> SUFFICES ASSUME NEW j \in Inst, j \notin worklist' PROVE Settled(j)'
    BY Zenon, <1>0, ProgramFacts DEF PendingOrSettled, Pending, Inst
  <2>1. ~Pending(j)
    BY Zenon, <1>0 DEF Pending
  <2>2. Settled(j)
    <3>1. CASE j = current
      <4>1. SettledSoFar(j)
        BY Zenon, <1>0, <2>1, <3>1 DEF PendingOrSettled
      <4> QED BY Zenon, <1>0, <3>1, <4>1 DEF Settled, SettledSoFar, CurrentPlain
    <3>2. CASE j # current
      BY Zenon, <1>0, <2>1, <3>2 DEF PendingOrSettled
    <3> QED BY Zenon, <3>1, <3>2
  <2> QED BY <1>0, <2>2
          DEF Settled, IsCall, callSame, callCost, callFirst, callDirect,
              callReturns, successor, successors, Reached, improves, instCost
<1>4. Marked'
  BY <1>0 DEF Marked, LoopAhead, Inst, successors, successor
<1>5. PathsMarked'
  BY Zenon, <1>0 DEF PathsMarked, Inst
<1> QED BY Zenon, <1>1, <1>2, <1>3, <1>4, <1>5 DEF Inv

\* Every step of the constructor keeps the invariant.
LEMMA NextInv == Inv /\ [CostNext]_costVars => Inv'
<1> SUFFICES ASSUME Inv, [CostNext]_costVars PROVE Inv'
  BY Zenon
<1>1. CASE CostNext
  BY Zenon, <1>1, LookAtStep, VisitCallStep, VisitStep, PropagateStep DEF CostNext
<1>2. CASE UNCHANGED costVars
  <2>1. /\ program' = program /\ direct' = direct /\ costs' = costs /\ paths' = paths
        /\ successorCosts' = successorCosts /\ worklist' = worklist
        /\ current' = current /\ todo' = todo /\ changed' = changed
    BY Zenon, <1>2 DEF costVars
  <2>2. CostTypeOK' /\ CurrentPlain' /\ PathsMarked'
    BY Zenon, <2>1 DEF Inv, CostTypeOK, CurrentPlain, PathsMarked, Inst, successors, IsCall
  <2>3. Marked'
    BY <2>1 DEF Inv, Marked, LoopAhead, Inst, successors, successor
  <2>4. PendingOrSettled'
    BY <2>1 DEF Inv, PendingOrSettled, Pending, dependents, callers, predecessors,
                IsEntry, Inst, SettledSoFar, Settled, IsCall, callSame, callCost,
                callFirst, callDirect, callReturns, successor, successors, Reached,
                improves, instCost
  <2> QED BY Zenon, <2>2, <2>3, <2>4 DEF Inv
<1> QED BY Zenon, <1>1, <1>2

-----------------------------------------------------------------------------
(* Theorems *)

\* The inductive invariant holds throughout the constructor.
THEOREM Invariance == CostSpec => []Inv
<1> QED BY InitInv, NextInv, PTL DEF CostSpec

\* For every module and every order of visits: when the worklist is empty no
\* visit would change a cost, so every change has reached whoever depends on it.
THEOREM FixpointWhenDone == CostSpec => []Fixpoint
<1>1. Inv => Fixpoint
  <2> SUFFICES ASSUME Inv, Done, NEW i \in Inst PROVE Settled(i)
    BY Zenon DEF Fixpoint
  <2>1. program \in Program /\ i # current
    BY ProgramFacts DEF Inv, CostTypeOK, Done
  <2> QED BY Zenon, <2>1 DEF Inv, PendingOrSettled, Pending, Done
<1> QED BY <1>1, Invariance, PTL

\* For every module without recursion: when the worklist is empty the marked
\* instructions are exactly those with a castan_loop ahead.
THEOREM MarksAreExact == CostSpec => []FirstIsLoopAhead
<1>1. Inv => FirstIsLoopAhead
  <2> SUFFICES ASSUME Inv, Done PROVE \A i \in Inst : i \in direct <=> LoopAhead(i)
    BY Zenon DEF FirstIsLoopAhead
  <2>0. program \in Program /\ direct \subseteq Inst /\ Marked /\ PathsMarked
    BY Zenon DEF Inv, CostTypeOK
  <2>1. \A i \in Inst : Settled(i)
    BY Zenon, <2>0, ProgramFacts DEF Inv, PendingOrSettled, Pending, Done
  <2>2. ASSUME NEW j \in Inst, NEW s \in successors(j), s \in direct PROVE j \in direct
    <3>1. s \in Inst /\ program.entry[s] = program.entry[j]
      BY Zenon, <2>0, ProgramFacts
    <3>2. CASE IsCall(j)
      <4>1. callFirst(j) <=> j \in direct
        BY Zenon, <2>1, <3>2 DEF Settled, callSame
      <4>2. s = successor(j)
        BY Zenon, <2>0, <3>2, SuccessorFacts DEF IsCall
      <4> QED BY Zenon, <2>2, <4>1, <4>2 DEF callFirst
    <3>3. CASE j \in program.loopCalls
      BY Zenon, <2>0, <3>3 DEF Marked
    <3>4. CASE ~IsCall(j) /\ j \notin program.loopCalls
      <4>1. ~improves(j, s)
        BY Zenon, <2>1, <2>2, <3>4 DEF Settled, Reached
      <4>2. SUFFICES ASSUME j \notin direct PROVE FALSE
        BY Zenon
      <4>3. ~(Times(paths[s], j) <= 1)
        BY Zenon, <2>2, <4>1, <4>2 DEF improves
      <4>4. Times(paths[s], j) >= 1
        <5>1. Times(paths[s], j) \in Nat
          BY Zenon, <3>1, PathType DEF Inv, CostTypeOK, IsPath
        <5> QED BY <4>3, <5>1
      <4> QED BY Zenon, <2>0, <2>2, <3>1, <4>2, <4>4 DEF PathsMarked
    <3> QED BY Zenon, <3>2, <3>3, <3>4
  <2>3. ASSUME NEW j \in DOMAIN program.calls, program.calls[j] \in direct
        PROVE  j \in direct
    <3>1. j \in Inst
      BY Zenon, <2>0, ProgramFacts
    <3>2. callFirst(j) <=> j \in direct
      BY Zenon, <2>1, <3>1 DEF Settled, IsCall, callSame
    <3> QED BY Zenon, <2>3, <3>2 DEF callFirst, callDirect
  <2>4. ASSUME NEW i \in Inst, LoopAhead(i) PROVE i \in direct
    <3>1. \A j \in Inst : successors(j) \cap direct # {} => j \in direct
      BY Zenon, <2>2
    <3> QED BY Zenon, <2>0, <2>3, <2>4, <3>1 DEF LoopAhead, Marked
  <2> QED BY Zenon, <2>0, <2>4 DEF Marked
<1> QED BY <1>1, Invariance, PTL

\* For every module without recursion and every order of visits, nothing was missed
\* when the worklist is empty.
THEOREM CompleteWhenDone == CostSpec => []MapComplete
<1>1. Fixpoint /\ FirstIsLoopAhead => MapComplete
  BY Zenon DEF MapComplete
<1> QED BY <1>1, FixpointWhenDone, MarksAreExact, PTL

-----------------------------------------------------------------------------
(* Sums over finite sets *)

\* Induction over an initial segment of the naturals.
LEMMA UpToBound ==
    ASSUME NEW n \in Nat, NEW P, 0 \in P, \A i \in 0..(n - 1) : i \in P => i + 1 \in P
    PROVE  \A i \in 0..n : i \in P
<1> DEFINE T == {i \in 0..n : i \notin P}
<1>1. SUFFICES ASSUME T # {} PROVE FALSE
  BY Zenon
<1>2. T \subseteq Nat
  OBVIOUS
<1>3. PICK x \in T : \A y \in T : ~(<<y, x>> \in OpToRel(<, Nat))
  <2> HIDE DEF T
  <2> QED BY Zenon, <1>1, <1>2, NatLessThanWellFounded, WFMin
<1>4. x \in Nat /\ x <= n /\ x \notin P
  OBVIOUS
<1>5. \A y \in T : ~(y < x)
  <2>1. \A y \in T : y \in Nat
    BY Zenon, <1>2
  <2> HIDE DEF T
  <2> QED BY Zenon, <1>3, <1>4, <2>1 DEF OpToRel
<1>6. x # 0 /\ x - 1 \in 0..(n - 1)
  BY <1>4
<1>7. x - 1 \in P
  BY <1>4, <1>5, <1>6
<1> QED BY <1>4, <1>6, <1>7

\* What holds of the empty set, and of a set with one more element whenever it
\* holds of the set, holds of every finite set.
LEMMA SetInduction ==
    ASSUME NEW S, IsFiniteSet(S), NEW P, {} \in P,
           \A T \in SUBSET S : \A x \in S \ T : T \in P => T \cup {x} \in P
    PROVE  S \in P
<1> DEFINE n == Cardinality(S)
           Q == {k \in 0..n : \A T \in SUBSET S : Cardinality(T) = k => T \in P}
<1>1. n \in Nat
  BY Zenon, FS_CardinalityType
<1>2. \A T \in SUBSET S : IsFiniteSet(T)
  BY Zenon, FS_Subset
<1>3. 0 \in Q
  <2>1. \A T \in SUBSET S : Cardinality(T) = 0 => T = {}
    BY Zenon, <1>2, FS_EmptySet
  <2> QED BY <1>1, <2>1
<1>4. ASSUME NEW k \in 0..(n - 1), k \in Q PROVE k + 1 \in Q
  <2> SUFFICES ASSUME NEW T \in SUBSET S, Cardinality(T) = k + 1 PROVE T \in P
    BY <1>1
  <2>1. T # {}
    <3>1. Cardinality({}) = 0
      BY Zenon, FS_EmptySet
    <3>2. k + 1 # 0
      BY <1>1
    <3> QED BY Zenon, <3>1, <3>2
  <2>2. PICK x \in T : TRUE
    BY Zenon, <2>1
  <2> DEFINE U == T \ {x}
  <2>3. IsFiniteSet(T)
    BY Zenon, <1>2
  <2>4. Cardinality(U) = Cardinality(T) - 1
    BY Zenon, <2>2, <2>3, FS_RemoveElement
  <2>5. U \in SUBSET S /\ x \in S \ U /\ T = U \cup {x}
    BY Zenon, <2>2
  <2>6. Cardinality(U) = k
    BY <1>1, <2>4
  <2>7. U \in P
    BY Zenon, <1>4, <2>5, <2>6
  <2> HIDE DEF U
  <2> QED BY Zenon, <2>5, <2>7
<1> HIDE DEF Q
<1>5. n \in Q
  <2>1. n \in 0..n
    BY <1>1
  <2> QED BY Zenon, <1>1, <1>3, <1>4, <2>1, UpToBound
<1> QED BY Zenon, <1>5 DEF Q

\* g gives the sum of f over every subset of S, in whatever order.
SumsOver(g, f, S) ==
    /\ g \in [SUBSET S -> Nat]
    /\ g[{}] = 0
    /\ \A s \in SUBSET S : \A x \in s : g[s] = f[x] + g[s \ {x}]

\* Sums exist.
LEMMA SumsExist ==
    ASSUME NEW S, IsFiniteSet(S), NEW f, \A x \in S : f[x] \in Nat
    PROVE  \E g : SumsOver(g, f, S)
<1> DEFINE P == {T \in SUBSET S : \E g : SumsOver(g, f, T)}
<1>1. {} \in P
  <2> DEFINE g == [s \in SUBSET {} |-> 0]
  <2>1. SumsOver(g, f, {})
    BY Zenon DEF SumsOver
  <2> HIDE DEF g
  <2> QED BY Zenon, <2>1
<1>2. ASSUME NEW T \in SUBSET S, NEW y \in S \ T, T \in P PROVE T \cup {y} \in P
  <2>1. PICK g : SumsOver(g, f, T)
    BY Zenon, <1>2
  <2> DEFINE U == T \cup {y}
             h == [s \in SUBSET U |-> IF y \in s THEN f[y] + g[s \ {y}] ELSE g[s]]
  <2>2. g \in [SUBSET T -> Nat] /\ g[{}] = 0 /\ f[y] \in Nat
    BY Zenon, <2>1 DEF SumsOver
  <2>3. ASSUME NEW s \in SUBSET U PROVE s \ {y} \in SUBSET T /\ (y \notin s => s \in SUBSET T)
    BY Zenon
  <2>4. h \in [SUBSET U -> Nat]
    BY <2>2, <2>3
  <2>5. h[{}] = 0
    BY Zenon, <2>2
  <2>6. ASSUME NEW s \in SUBSET U, NEW x \in s PROVE h[s] = f[x] + h[s \ {x}]
    <3>1. s \ {x} \in SUBSET U
      BY Zenon
    <3>2. CASE x = y
      BY Zenon, <3>1, <3>2
    <3>3. CASE x # y /\ y \in s
      <4>1. (s \ {y}) \in SUBSET T /\ x \in s \ {y} /\ (s \ {y}) \ {x} \in SUBSET T
            /\ (s \ {y}) \ {x} = (s \ {x}) \ {y} /\ y \in s \ {x} /\ x \in S
        BY Zenon, <2>3, <3>3
      <4>2. g[s \ {y}] = f[x] + g[(s \ {y}) \ {x}]
        BY Zenon, <2>1, <4>1 DEF SumsOver
      <4>3. h[s] = f[y] + g[s \ {y}] /\ h[s \ {x}] = f[y] + g[(s \ {y}) \ {x}]
        BY Zenon, <3>1, <3>3, <4>1
      <4>4. g[(s \ {y}) \ {x}] \in Nat /\ f[x] \in Nat
        BY Zenon, <2>2, <4>1
      <4> HIDE DEF h
      <4> QED BY <2>2, <4>2, <4>3, <4>4
    <3>4. CASE y \notin s
      <4>1. s \in SUBSET T /\ h[s] = g[s] /\ h[s \ {x}] = g[s \ {x}]
        BY Zenon, <2>3, <3>1, <3>4
      <4> HIDE DEF h
      <4> QED BY Zenon, <2>1, <4>1 DEF SumsOver
    <3> QED BY Zenon, <3>2, <3>3, <3>4
  <2> HIDE DEF h
  <2>7. SumsOver(h, f, U)
    BY Zenon, <2>4, <2>5, <2>6 DEF SumsOver
  <2> QED BY Zenon, <2>7
<1> HIDE DEF P
<1>3. S \in P
  BY Zenon, <1>1, <1>2, SetInduction
<1> QED BY Zenon, <1>3 DEF P

\* Two functions with the same values on S.
SameOn(f, h, S) == \A x \in S : f[x] = h[x]

\* Sums are unique: they depend on the values of f alone.
LEMMA SumsAgree ==
    ASSUME NEW S, IsFiniteSet(S), NEW f, NEW h, NEW g, NEW k,
           SumsOver(g, f, S), SumsOver(k, h, S), SameOn(f, h, S)
    PROVE  g[S] = k[S]
<1> DEFINE P == {T \in SUBSET S : g[T] = k[T]}
<1>1. {} \in P
  BY Zenon DEF SumsOver
<1>2. ASSUME NEW T \in SUBSET S, NEW x \in S \ T, T \in P PROVE T \cup {x} \in P
  <2> DEFINE U == T \cup {x}
  <2>1. U \in SUBSET S /\ x \in U /\ U \ {x} = T /\ g[T] = k[T]
    BY Zenon, <1>2
  <2> HIDE DEF U
  <2>2. g[U] = f[x] + g[T] /\ k[U] = h[x] + k[T] /\ f[x] = h[x]
    BY Zenon, <2>1 DEF SumsOver, SameOn
  <2>3. g[U] = k[U]
    BY Zenon, <2>1, <2>2
  <2> QED BY Zenon, <2>1, <2>3 DEF U
<1> HIDE DEF P
<1>3. S \in P
  BY Zenon, <1>1, <1>2, SetInduction
<1> QED BY Zenon, <1>3 DEF P

\* SumOf computes a sum, whichever element it takes first.
LEMMA SumOfIsSum ==
    ASSUME NEW S, IsFiniteSet(S), NEW f \in [S -> Nat]
    PROVE  \E g : SumsOver(g, f, S) /\ SumOf(f) = g[S]
<1> DEFINE one(s) == CHOOSE x \in s : TRUE
           Is(g) == g = [s \in SUBSET S |->
                           IF s = {} THEN 0 ELSE f[one(s)] + g[s \ {one(s)}]]
           n == Cardinality(S)
<1>1. PICK g : SumsOver(g, f, S)
  <2>1. \A x \in S : f[x] \in Nat
    BY Zenon
  <2> QED BY Zenon, <2>1, SumsExist
<1>2. ASSUME NEW s \in SUBSET S, s # {} PROVE one(s) \in s
  BY Zenon, <1>2
<1> HIDE DEF one
<1>3. Is(g)
  <2>1. ASSUME NEW s \in SUBSET S
        PROVE  g[s] = IF s = {} THEN 0 ELSE f[one(s)] + g[s \ {one(s)}]
    BY Zenon, <1>1, <1>2 DEF SumsOver
  <2>2. g \in [SUBSET S -> Nat]
    BY Zenon, <1>1 DEF SumsOver
  <2> QED BY Zenon, <2>1, <2>2
<1> DEFINE k == CHOOSE h : Is(h)
<1>4. Is(k)
  BY Zenon, <1>3
<1>5. SumOf(f) = k[S]
  <2>1. DOMAIN f = S
    BY Zenon
  <2> QED BY Zenon, <2>1 DEF SumOf, MapThenSumSet, MapThenFoldSet, one
<1> HIDE DEF k
<1>6. ASSUME NEW s \in SUBSET S
      PROVE  k[s] = IF s = {} THEN 0 ELSE f[one(s)] + k[s \ {one(s)}]
  BY Zenon, <1>4
<1> HIDE DEF Is
<1> DEFINE Q == {m \in 0..n : \A T \in SUBSET S : Cardinality(T) = m => k[T] = g[T]}
<1>7. n \in Nat /\ \A T \in SUBSET S : IsFiniteSet(T)
  BY Zenon, FS_CardinalityType, FS_Subset
<1>8. 0 \in Q
  <2>1. \A T \in SUBSET S : Cardinality(T) = 0 => T = {}
    BY Zenon, <1>7, FS_EmptySet
  <2>2. k[{}] = 0 /\ g[{}] = 0
    <3>1. {} \in SUBSET S
      BY Zenon
    <3> QED BY Zenon, <1>1, <1>6, <3>1 DEF SumsOver
  <2> QED BY <1>7, <2>1, <2>2
<1>9. ASSUME NEW m \in 0..(n - 1), m \in Q PROVE m + 1 \in Q
  <2> SUFFICES ASSUME NEW T \in SUBSET S, Cardinality(T) = m + 1 PROVE k[T] = g[T]
    BY <1>7
  <2>1. T # {}
    <3>1. Cardinality({}) = 0
      BY Zenon, FS_EmptySet
    <3>2. m + 1 # 0
      BY <1>7
    <3> QED BY Zenon, <3>1, <3>2
  <2> DEFINE x == one(T)
  <2>2. x \in T
    BY Zenon, <1>2, <2>1
  <2>3. Cardinality(T \ {x}) = Cardinality(T) - 1
    BY Zenon, <1>7, <2>2, FS_RemoveElement
  <2>4. T \ {x} \in SUBSET S /\ Cardinality(T \ {x}) = m
    BY <1>7, <2>3
  <2>5. k[T \ {x}] = g[T \ {x}]
    BY Zenon, <1>9, <2>4
  <2>6. k[T] = f[x] + k[T \ {x}]
    BY Zenon, <1>6, <2>1
  <2>7. g[T] = f[x] + g[T \ {x}]
    BY Zenon, <1>1, <2>2 DEF SumsOver
  <2> QED BY Zenon, <2>5, <2>6, <2>7
<1> HIDE DEF Q
<1>10. n \in Q
  <2>1. n \in 0..n
    BY <1>7
  <2> QED BY Zenon, <1>7, <1>8, <1>9, <2>1, UpToBound
<1>11. k[S] = g[S]
  BY Zenon, <1>10 DEF Q
<1> QED BY Zenon, <1>1, <1>5, <1>11

\* A sum is what any table of sums says.
LEMMA SumOfTable ==
    ASSUME NEW S, IsFiniteSet(S), NEW f \in [S -> Nat], NEW g, SumsOver(g, f, S)
    PROVE  SumOf(f) = g[S]
<1>1. PICK k : SumsOver(k, f, S) /\ SumOf(f) = k[S]
  BY Zenon, SumOfIsSum
<1>2. k[S] = g[S]
  <2>1. SameOn(f, f, S)
    BY Zenon DEF SameOn
  <2> QED BY Zenon, <1>1, <2>1, SumsAgree
<1> QED BY Zenon, <1>1, <1>2

\* f is h on D and 0 on the rest of S.
Extends(f, S, h, D) ==
    /\ IsFiniteSet(S) /\ f \in [S -> Nat] /\ D \in SUBSET S /\ h \in [D -> Nat]
    /\ SameOn(f, h, D) /\ \A x \in S \ D : f[x] = 0

\* A summand of 0 may be left out.
LEMMA ZerosDoNotCount ==
    ASSUME NEW S, NEW f, NEW D, NEW h, Extends(f, S, h, D)
    PROVE  SumOf(f) = SumOf(h)
<1>0. /\ IsFiniteSet(S) /\ f \in [S -> Nat] /\ D \in SUBSET S /\ h \in [D -> Nat]
      /\ SameOn(f, h, D) /\ \A x \in S \ D : f[x] = 0
  BY Zenon DEF Extends
<1>1. PICK g : SumsOver(g, f, S) /\ SumOf(f) = g[S]
  BY Zenon, <1>0, SumOfIsSum
<1>2. PICK k : SumsOver(k, h, D) /\ SumOf(h) = k[D]
  <2>1. IsFiniteSet(D)
    BY Zenon, <1>0, FS_Subset
  <2> QED BY Zenon, <1>0, <2>1, SumOfIsSum
<1>3. g[D] = k[D]
  <2> DEFINE r == [s \in SUBSET D |-> g[s]]
  <2>1. SumsOver(r, f, D)
    <3>1. ASSUME NEW s \in SUBSET D
          PROVE  s \in SUBSET S /\ g[s] \in Nat
                 /\ \A x \in s : s \ {x} \in SUBSET D /\ g[s] = f[x] + g[s \ {x}]
      <4>1. s \in SUBSET S /\ \A x \in s : s \ {x} \in SUBSET D
        BY Zenon, <1>0
      <4>2. g \in [SUBSET S -> Nat]
        BY Zenon, <1>1 DEF SumsOver
      <4>3. g[s] \in Nat
        BY Zenon, <4>1, <4>2
      <4>4. \A x \in s : g[s] = f[x] + g[s \ {x}]
        BY Zenon, <1>1, <4>1 DEF SumsOver
      <4> QED BY Zenon, <4>1, <4>3, <4>4
    <3>2. g[{}] = 0
      BY Zenon, <1>1 DEF SumsOver
    <3> QED BY Zenon, <3>1, <3>2 DEF SumsOver
  <2>2. r[D] = g[D]
    BY Zenon
  <2> HIDE DEF r
  <2>3. IsFiniteSet(D)
    BY Zenon, <1>0, FS_Subset
  <2>4. r[D] = k[D]
    BY SMT, <1>0, <1>2, <2>1, <2>3, SumsAgree
  <2> QED BY Zenon, <2>2, <2>4
<1> DEFINE P == {T \in SUBSET S : g[D \cup T] = g[D]}
<1>4. {} \in P
  <2>1. D \cup {} = D
    BY Zenon
  <2> QED BY Zenon, <2>1
<1>5. ASSUME NEW T \in SUBSET S, NEW x \in S \ T, T \in P PROVE T \cup {x} \in P
  <2> DEFINE U == D \cup (T \cup {x})
  <2>1. g[D \cup T] = g[D] /\ D \cup T \in SUBSET S /\ U \in SUBSET S /\ x \in U
    BY Zenon, <1>0, <1>5
  <2>2. CASE x \in D
    <3>1. U = D \cup T
      BY Zenon, <2>2
    <3> QED BY Zenon, <2>1, <3>1
  <2>3. CASE x \notin D
    <3>1. U \ {x} = D \cup T
      BY Zenon, <2>3
    <3>2. g[U] = f[x] + g[U \ {x}]
      <4> HIDE DEF U
      <4> QED BY Zenon, <1>1, <2>1 DEF SumsOver
    <3>3. f[x] = 0 /\ g[D \cup T] \in Nat
      BY Zenon, <1>0, <1>1, <2>1, <2>3 DEF SumsOver
    <3>4. g[U] = g[D]
      <4> HIDE DEF U
      <4> QED BY <2>1, <3>1, <3>2, <3>3
    <3> QED BY Zenon, <3>4
  <2> QED BY Zenon, <2>2, <2>3
<1> HIDE DEF P
<1>6. S \in P
  BY Zenon, <1>0, <1>4, <1>5, SetInduction
<1>7. g[S] = g[D]
  <2>1. D \cup S = S
    BY Zenon, <1>0
  <2> QED BY Zenon, <1>6, <2>1 DEF P
<1> QED BY Zenon, <1>1, <1>2, <1>3, <1>7

\* The sum of two functions sums to the sum of their sums.
LEMMA SumOfBoth ==
    ASSUME NEW S, IsFiniteSet(S), NEW f \in [S -> Nat], NEW h \in [S -> Nat]
    PROVE  SumOf([x \in S |-> f[x] + h[x]]) = SumOf(f) + SumOf(h)
<1> DEFINE b == [x \in S |-> f[x] + h[x]]
<1>1. PICK g : SumsOver(g, f, S) /\ SumOf(f) = g[S]
  BY Zenon, SumOfIsSum
<1>2. PICK k : SumsOver(k, h, S) /\ SumOf(h) = k[S]
  BY Zenon, SumOfIsSum
<1> DEFINE r == [s \in SUBSET S |-> g[s] + k[s]]
<1>3. g \in [SUBSET S -> Nat] /\ k \in [SUBSET S -> Nat]
  BY Zenon, <1>1, <1>2 DEF SumsOver
<1>4. r \in [SUBSET S -> Nat]
  BY <1>3
<1>5. r[{}] = 0
  <2>1. g[{}] = 0 /\ k[{}] = 0
    BY Zenon, <1>1, <1>2 DEF SumsOver
  <2> QED BY <2>1
<1>6. ASSUME NEW s \in SUBSET S, NEW x \in s PROVE r[s] = b[x] + r[s \ {x}]
  <2>1. x \in S /\ s \ {x} \in SUBSET S
    BY Zenon
  <2>2. g[s] = f[x] + g[s \ {x}] /\ k[s] = h[x] + k[s \ {x}]
    BY Zenon, <1>1, <1>2 DEF SumsOver
  <2>3. r[s] = g[s] + k[s] /\ r[s \ {x}] = g[s \ {x}] + k[s \ {x}] /\ b[x] = f[x] + h[x]
    BY Zenon, <2>1
  <2>4. f[x] \in Nat /\ h[x] \in Nat /\ g[s \ {x}] \in Nat /\ k[s \ {x}] \in Nat
    BY Zenon, <1>3, <2>1
  <2> HIDE DEF r, b
  <2> QED BY <2>2, <2>3, <2>4
<1>7. b \in [S -> Nat]
  OBVIOUS
<1>8. r[S] = g[S] + k[S]
  BY Zenon
<1> HIDE DEF r, b
<1>9. SumsOver(r, b, S)
  BY Zenon, <1>4, <1>5, <1>6 DEF SumsOver
<1>10. SumOf(b) = r[S]
  BY Zenon, <1>7, <1>9, SumOfTable
<1>11. SumOf(b) = SumOf(f) + SumOf(h)
  BY Zenon, <1>1, <1>2, <1>8, <1>10
<1> QED BY Zenon, <1>11 DEF b

\* A function that is 0 but for one value sums to that value.
LEMMA SumOfPoint ==
    ASSUME NEW S, IsFiniteSet(S), NEW y \in S, NEW w \in Nat
    PROVE  SumOf([x \in S |-> IF x = y THEN w ELSE 0]) = w
<1> DEFINE f == [x \in S |-> IF x = y THEN w ELSE 0]
           h == [x \in {y} |-> w]
<1>1. f \in [S -> Nat] /\ h \in [{y} -> Nat] /\ {y} \in SUBSET S
  BY Zenon
<1>2. (\A x \in {y} : f[x] = h[x]) /\ (\A x \in S \ {y} : f[x] = 0) /\ h[y] = w
  BY Zenon
<1> HIDE DEF f, h
<1> DEFINE D == {y}
<1>3. D \in SUBSET S /\ y \in D /\ D \ {y} = {} /\ D \in SUBSET D
  BY Zenon
<1>4. IsFiniteSet(D)
  BY Zenon, <1>3, FS_Subset
<1>5. h \in [D -> Nat] /\ (\A x \in D : f[x] = h[x]) /\ (\A x \in S \ D : f[x] = 0)
  BY Zenon, <1>1, <1>2
<1> HIDE DEF D
<1>6. SumOf(f) = SumOf(h)
  <2>1. Extends(f, S, h, D)
    BY Zenon, <1>1, <1>3, <1>5 DEF Extends, SameOn
  <2> QED BY Zenon, <2>1, ZerosDoNotCount
<1>7. PICK g : SumsOver(g, h, D) /\ SumOf(h) = g[D]
  BY Zenon, <1>4, <1>5, SumOfIsSum
<1>8. g[D] = h[y] + g[D \ {y}] /\ g[{}] = 0
  BY Zenon, <1>3, <1>7 DEF SumsOver
<1>9. g[D] = w
  BY <1>2, <1>3, <1>8
<1>10. SumOf(f) = w
  BY Zenon, <1>6, <1>7, <1>9
<1> QED BY Zenon, <1>10 DEF f

-----------------------------------------------------------------------------
(* The costs of paths *)

\* The module is finite, and weights are natural numbers.
LEMMA WeightType ==
    ASSUME program \in Program
    PROVE  IsFiniteSet(Inst) /\ \A j : weight(j) \in Nat
<1>1. WellFormed(program)
  BY Zenon, ProgramAssumption
<1>2. IsFiniteSet(Inst)
  BY Zenon, <1>1 DEF WellFormed, Inst
<1>3. ASSUME NEW j PROVE weight(j) \in Nat
  BY Zenon, InstCostType DEF weight
<1> QED BY Zenon, <1>2, <1>3

\* What the instructions of the module add to the cost of a path.
Weighted(p) == [j \in Inst |-> Times(p, j) * weight(j)]

\* Products of naturals, for the provers.
LEMMA Products ==
    ASSUME NEW a \in Nat, NEW b \in Nat, NEW c \in Nat
    PROVE  /\ a * b \in Nat /\ 0 * b = 0 /\ 1 * b = b /\ (a + b) * c = a * c + b * c
           /\ (a + 0) * c = a * c
OBVIOUS

\* The cost of a path is a sum over the whole module.
LEMMA PathCostIs ==
    ASSUME program \in Program, NEW p, IsPath(p)
    PROVE  Weighted(p) \in [Inst -> Nat] /\ pathCost(p) = SumOf(Weighted(p))
<1> DEFINE h == [j \in DOMAIN p |-> p[j] * weight(j)]
           D == DOMAIN p
<1>1. D \in SUBSET Inst /\ \A j \in D : p[j] \in Nat
  BY Zenon DEF IsPath
<1>2. IsFiniteSet(Inst) /\ \A j : weight(j) \in Nat
  BY Zenon, WeightType
<1>3. \A j : Times(p, j) \in Nat
  BY Zenon, <1>1 DEF Times
<1>4. Weighted(p) \in [Inst -> Nat]
  <2>1. \A j : Times(p, j) * weight(j) \in Nat
    BY Zenon, <1>2, <1>3, Products
  <2> QED BY Zenon, <2>1 DEF Weighted
<1>5. h \in [D -> Nat]
  <2>1. \A j \in D : p[j] * weight(j) \in Nat
    BY Zenon, <1>1, <1>2, Products
  <2> QED BY Zenon, <2>1
<1>6. \A j \in D : Weighted(p)[j] = h[j]
  BY Zenon, <1>1 DEF Weighted, Times
<1>7. \A j \in Inst \ D : Weighted(p)[j] = 0
  <2> SUFFICES ASSUME NEW j \in Inst \ D PROVE Weighted(p)[j] = 0
    BY Zenon
  <2>1. Times(p, j) = 0 /\ Weighted(p)[j] = Times(p, j) * weight(j)
    BY Zenon DEF Times, Weighted
  <2>2. 0 * weight(j) = 0
    BY Zenon, <1>2, Products
  <2> QED BY Zenon, <2>1, <2>2
<1>8. pathCost(p) = SumOf(h)
  BY Zenon DEF pathCost
<1> HIDE DEF h, D
<1>9. SumOf(Weighted(p)) = SumOf(h)
  <2>1. Extends(Weighted(p), Inst, h, D)
    BY Zenon, <1>1, <1>2, <1>4, <1>5, <1>6, <1>7 DEF Extends, SameOn
  <2> QED BY Zenon, <2>1, ZerosDoNotCount
<1> QED BY Zenon, <1>4, <1>8, <1>9

\* Inserting an instruction with count 0 does not change the cost of a path.
LEMMA CostOfLookup ==
    ASSUME program \in Program, NEW p, NEW i \in Inst, IsPath(p)
    PROVE  pathCost(Lookup(p, i)) = pathCost(p)
<1>1. IsPath(Lookup(p, i))
  BY Zenon, PathType
<1>2. Weighted(Lookup(p, i)) = Weighted(p)
  BY AtLookup, Zenon DEF Weighted
<1> QED BY Zenon, <1>1, <1>2, PathCostIs

\* One more occurrence of an instruction adds its weight.
LEMMA CostOfPlus ==
    ASSUME program \in Program, NEW p, NEW i \in Inst, IsPath(p)
    PROVE  pathCost(Plus(p, i)) = pathCost(p) + weight(i)
<1> DEFINE f == Weighted(p)
           h == [j \in Inst |-> IF j = i THEN weight(i) ELSE 0]
<1>1. IsPath(Plus(p, i)) /\ \A j : Times(p, j) \in Nat
  BY Zenon, PathType
<1>2. IsFiniteSet(Inst) /\ \A j : weight(j) \in Nat
  BY Zenon, WeightType
<1>3. f \in [Inst -> Nat] /\ pathCost(p) = SumOf(f)
  BY Zenon, PathCostIs
<1>4. h \in [Inst -> Nat]
  BY Zenon, <1>2
<1>5. Weighted(Plus(p, i)) = [j \in Inst |-> f[j] + h[j]]
  <2>1. ASSUME NEW j \in Inst PROVE Times(Plus(p, i), j) * weight(j) = f[j] + h[j]
    <3>1. Times(Plus(p, i), j) = Times(p, j) + (IF j = i THEN 1 ELSE 0)
      BY AtPlus DEF IsPath
    <3>2. f[j] = Times(p, j) * weight(j)
      BY Zenon DEF Weighted
    <3> DEFINE a == Times(p, j)
               w == weight(j)
    <3>3. a \in Nat /\ w \in Nat
      BY Zenon, <1>1, <1>2
    <3>4. CASE j = i
      <4>1. Times(Plus(p, i), j) = a + 1 /\ h[j] = w
        BY Zenon, <3>1, <3>4
      <4>2. (a + 1) * w = a * w + w
        <5> HIDE DEF a, w
        <5> QED BY <3>3
      <4> QED BY Zenon, <3>2, <4>1, <4>2
    <3>5. CASE j # i
      <4>1. Times(Plus(p, i), j) = a + 0 /\ h[j] = 0
        BY Zenon, <3>1, <3>5
      <4>2. (a + 0) * w = a * w + 0
        <5> HIDE DEF a, w
        <5>1. a * w \in Nat
          BY Zenon, <3>3, Products
        <5>2. a + 0 = a /\ a * w + 0 = a * w
          BY <3>3, <5>1
        <5> QED BY Zenon, <5>2
      <4> QED BY Zenon, <3>2, <4>1, <4>2
    <3> QED BY Zenon, <3>4, <3>5
  <2> HIDE DEF f, h
  <2> QED BY Zenon, <2>1 DEF Weighted
<1>6. SumOf(h) = weight(i)
  BY <1>2, SumOfPoint
<1> HIDE DEF f, h
<1>7. SumOf([j \in Inst |-> f[j] + h[j]]) = SumOf(f) + SumOf(h)
  BY Zenon, <1>2, <1>3, <1>4, SumOfBoth
<1> QED BY Zenon, <1>1, <1>3, <1>5, <1>6, <1>7, PathCostIs

\* The cost of a call's path is the cost of the two paths that it joins.
LEMMA CostOfJoined ==
    ASSUME program \in Program, NEW p, NEW q, IsPath(p), IsPath(q), Inst # {}
    PROVE  pathCost(Joined(p, q)) = pathCost(p) + pathCost(q)
<1> DEFINE f == Weighted(p)
           h == Weighted(q)
<1>1. IsPath(Joined(p, q)) /\ (\A j : Times(p, j) \in Nat) /\ (\A j : Times(q, j) \in Nat)
  BY Zenon, PathType
<1>2. IsFiniteSet(Inst) /\ \A j : weight(j) \in Nat
  BY Zenon, WeightType
<1>3. /\ f \in [Inst -> Nat] /\ pathCost(p) = SumOf(f)
      /\ h \in [Inst -> Nat] /\ pathCost(q) = SumOf(h)
  BY Zenon, PathCostIs
<1>4. Weighted(Joined(p, q)) = [j \in Inst |-> f[j] + h[j]]
  <2>1. ASSUME NEW j \in Inst PROVE Times(Joined(p, q), j) * weight(j) = f[j] + h[j]
    <3> DEFINE a == Times(p, j)
               b == Times(q, j)
               w == weight(j)
    <3>1. f[j] = a * w /\ h[j] = b * w
      BY Zenon DEF Weighted
    <3>2. Times(Joined(p, q), j) = a + b
      BY AtJoined DEF Times
    <3>3. a \in Nat /\ b \in Nat /\ w \in Nat
      BY Zenon, <1>1, <1>2
    <3>4. (a + b) * w = a * w + b * w
      <4> HIDE DEF a, b, w
      <4> QED BY <3>3
    <3> QED BY Zenon, <3>1, <3>2, <3>4
  <2> HIDE DEF f, h
  <2> QED BY Zenon, <2>1 DEF Weighted
<1> HIDE DEF f, h
<1>5. SumOf([j \in Inst |-> f[j] + h[j]]) = SumOf(f) + SumOf(h)
  BY Zenon, <1>2, <1>3, SumOfBoth
<1> QED BY Zenon, <1>1, <1>3, <1>4, <1>5, PathCostIs

\* The empty path costs nothing.
LEMMA CostOfNoPath == pathCost(NoPath) = 0
<1> DEFINE K == {}
           f == [j \in K |-> NoPath[j] * weight(j)]
<1>1. DOMAIN NoPath = K
  BY Zenon DEF NoPath
<1>2. f \in [K -> Nat] /\ IsFiniteSet(K)
  BY Zenon, FS_EmptySet
<1>3. pathCost(NoPath) = SumOf(f)
  BY Zenon, <1>1 DEF pathCost
<1> HIDE DEF f
<1>4. ASSUME NEW g, SumsOver(g, f, K) PROVE g[K] = 0
  BY Zenon, <1>4 DEF SumsOver
<1> HIDE DEF K
<1>5. PICK g : SumsOver(g, f, K) /\ SumOf(f) = g[K]
  BY Zenon, <1>2, SumOfIsSum
<1> QED BY Zenon, <1>3, <1>4, <1>5

-----------------------------------------------------------------------------
(* The paths add up *)

\* The instructions of a path, even those with count 0, are in the function or in
\* functions of a lower rank.
PathsInRank ==
    \A i \in Inst : \A j \in DOMAIN paths[i] : program.rank[j] <= program.rank[i]

\* An instruction of the path's own function is on it at most twice.
AtMostTwice ==
    \A i, j \in Inst :
        program.entry[i] = program.entry[j] /\ ~IsCall(j) => Times(paths[i], j) <= 2

PathInv == CostIsPathCost /\ PathsInRank /\ AtMostTwice

\* What a path of instruction i may be, with its cost.
GoodPath(i, p, cost) ==
    /\ cost = pathCost(p)
    /\ \A j \in DOMAIN p : program.rank[j] <= program.rank[i]
    /\ \A j \in Inst :
          program.entry[i] = program.entry[j] /\ ~IsCall(j) => Times(p, j) <= 2

\* The invariant speaks of the path of each instruction by itself.
LEMMA PathInvIs == PathInv <=> \A i \in Inst : GoodPath(i, paths[i], costs[i])
BY Zenon DEF PathInv, GoodPath, CostIsPathCost, PathsInRank, AtMostTwice

\* What a path may be depends on the module alone.
LEMMA GoodPathStays ==
    ASSUME program' = program,
           \A i \in Inst : GoodPath(i, paths'[i], costs'[i])
    PROVE  PathInv'
<1>1. Inst' = Inst
  BY Zenon DEF Inst
<1>2. \A j : weight(j)' = weight(j)
  BY Zenon DEF weight, targets, exits, Inst, successors, IsCall, instCost
<1>3. \A i : pathCost(paths[i])' = pathCost(paths'[i])
  BY Zenon, <1>2 DEF pathCost
<1> QED BY Zenon, <1>1, <1>3
        DEF PathInv, GoodPath, CostIsPathCost, PathsInRank, AtMostTwice, IsCall

\* Initially the targets are on their own paths.
LEMMA InitPaths == CostInit => PathInv
<1> SUFFICES ASSUME CostInit, NEW i \in Inst PROVE GoodPath(i, paths[i], costs[i])
  BY Zenon, PathInvIs
<1>1. Inv /\ program \in Program
  BY Zenon, InitInv DEF Inv, CostTypeOK
<1>2. /\ costs[i] = IF i \in targets THEN 1 ELSE 0
      /\ paths[i] = IF i \in targets THEN Plus(NoPath, i) ELSE NoPath
  BY Zenon DEF CostInit
<1>3. IsPath(NoPath)
  BY Zenon DEF IsPath, NoPath
<1>4. program.rank[i] \in Nat
  BY Zenon, <1>1, ProgramFacts
<1>5. CASE i \in targets
  <2>1. pathCost(Plus(NoPath, i)) = pathCost(NoPath) + weight(i)
    BY Zenon, <1>1, <1>3, CostOfPlus
  <2>2. weight(i) = 1
    BY Zenon, <1>5 DEF weight
  <2>3. costs[i] = pathCost(paths[i])
    BY <1>2, <1>5, <2>1, <2>2, CostOfNoPath
  <2>4. DOMAIN paths[i] = {i} /\ \A j : Times(paths[i], j) <= 2
    BY <1>2, <1>5 DEF Plus, NoPath, Times
  <2> QED BY <1>4, <2>3, <2>4 DEF GoodPath
<1>6. CASE i \notin targets
  <2>1. costs[i] = pathCost(paths[i])
    BY Zenon, <1>2, <1>6, CostOfNoPath
  <2>2. DOMAIN paths[i] = {} /\ \A j : Times(paths[i], j) <= 2
    BY <1>2, <1>6 DEF NoPath, Times
  <2> QED BY Zenon, <2>1, <2>2 DEF GoodPath
<1> QED BY Zenon, <1>5, <1>6

\* A look at a successor keeps paths and costs in step: the path of the successor
\* gets at most a count of 0, and only a path with the current instruction at most
\* once is extended.
LEMMA LookAtPaths ==
    ASSUME Inv, PathInv, NEW s \in todo, lookAt(s) PROVE PathInv'
<1> DEFINE c == current
<1>1. /\ c \in Inst /\ s \in Inst /\ s \in successors(c) /\ program \in Program
      /\ c \notin DOMAIN program.calls /\ c \notin program.loopCalls
      /\ program' = program
  <2>1. c # None /\ s \in successors(c) /\ c \in Inst /\ program \in Program
    BY Zenon DEF Inv, CostTypeOK
  <2> QED BY Zenon, <2>1, ProgramFacts DEF Inv, CurrentPlain, IsCall, lookAt
<1>2. /\ program.rank[s] = program.rank[c] /\ program.entry[s] = program.entry[c]
      /\ program.rank[c] \in Nat
  BY <1>1, ProgramFacts
<1>3. /\ costs \in [Inst -> Nat] /\ paths = [i \in Inst |-> paths[i]]
      /\ \A i \in Inst : IsPath(paths[i])
  BY Zenon DEF Inv, CostTypeOK, IsPath
<1>4. \A i \in Inst : GoodPath(i, paths[i], costs[i])
  BY Zenon, PathInvIs
<1>5. GoodPath(s, Lookup(paths[s], c), costs[s])
  <2>1. pathCost(Lookup(paths[s], c)) = pathCost(paths[s])
    BY Zenon, <1>1, <1>3, CostOfLookup
  <2>2. DOMAIN Lookup(paths[s], c) = DOMAIN paths[s] \cup {c}
    BY Zenon DEF Lookup
  <2>3. \A j : Times(Lookup(paths[s], c), j) = Times(paths[s], j)
    BY Zenon, AtLookup
  <2>4. GoodPath(s, paths[s], costs[s])
    BY Zenon, <1>1, <1>4
  <2>5. \A j \in DOMAIN Lookup(paths[s], c) : program.rank[j] <= program.rank[s]
    BY <1>2, <2>2, <2>4 DEF GoodPath
  <2> QED BY Zenon, <2>1, <2>3, <2>4, <2>5 DEF GoodPath
<1>6. ASSUME Times(paths[s], c) <= 1
      PROVE  GoodPath(c, Plus(paths[s], c), costs[s] + instCost(c))
  <2>1. pathCost(Plus(paths[s], c)) = pathCost(paths[s]) + weight(c)
    BY Zenon, <1>1, <1>3, CostOfPlus
  <2>2. weight(c) = instCost(c)
    <3>1. c \notin targets
      BY Zenon, <1>1 DEF targets, exits
    <3> QED BY Zenon, <1>1, <3>1 DEF weight, IsCall
  <2>3. GoodPath(s, paths[s], costs[s])
    BY Zenon, <1>1, <1>4
  <2>4. costs[s] + instCost(c) = pathCost(Plus(paths[s], c))
    BY Zenon, <2>1, <2>2, <2>3 DEF GoodPath
  <2>5. \A j \in DOMAIN Plus(paths[s], c) : program.rank[j] <= program.rank[c]
    <3>1. DOMAIN Plus(paths[s], c) = DOMAIN paths[s] \cup {c}
      BY Zenon DEF Plus
    <3> QED BY <1>2, <2>3, <3>1 DEF GoodPath
  <2>6. ASSUME NEW j \in Inst, program.entry[c] = program.entry[j], ~IsCall(j)
        PROVE  Times(Plus(paths[s], c), j) <= 2
    <3>1. Times(Plus(paths[s], c), j) = Times(paths[s], j) + (IF j = c THEN 1 ELSE 0)
      BY <1>1, <1>3, AtPlus DEF IsPath
    <3>2. Times(paths[s], j) <= 2
      BY Zenon, <1>2, <2>3, <2>6 DEF GoodPath
    <3>3. Times(paths[s], j) \in Nat
      BY Zenon, <1>1, <1>3, PathType
    <3> QED BY <1>6, <3>1, <3>2, <3>3
  <2> QED BY Zenon, <2>4, <2>5, <2>6 DEF GoodPath
<1>7. ASSUME NEW i \in Inst PROVE GoodPath(i, paths'[i], costs'[i])
  <2>1. CASE improves(c, s)
    <3>1. Times(paths[s], c) <= 1
      BY Zenon, <2>1 DEF improves
    <3>2. /\ i = c => paths'[i] = Plus(paths[s], c) /\ costs'[i] = costs[s] + instCost(c)
          /\ i # c /\ i = s => paths'[i] = Lookup(paths[s], c) /\ costs'[i] = costs[i]
          /\ i # c /\ i # s => paths'[i] = paths[i] /\ costs'[i] = costs[i]
      BY Zenon, <1>1, <1>3, <2>1 DEF lookAt
    <3> QED BY Zenon, <1>4, <1>5, <1>6, <3>1, <3>2
  <2>2. CASE ~improves(c, s)
    <3>1. /\ costs'[i] = costs[i]
          /\ i = s => paths'[i] = Lookup(paths[s], c)
          /\ i # s => paths'[i] = paths[i]
      BY Zenon, <1>1, <1>3, <2>2 DEF lookAt
    <3> QED BY Zenon, <1>4, <1>5, <3>1
  <2> QED BY Zenon, <2>1, <2>2
<1> QED BY Zenon, <1>1, <1>7, GoodPathStays

\* A visit of a call keeps paths and costs in step: the path of the callee is in
\* functions of a lower rank, so that only the successor's counts for the loops of
\* the caller.
LEMMA VisitCallPaths ==
    ASSUME Inv, PathInv, NEW c \in worklist, visitCall(c) PROVE PathInv'
<1> DEFINE e == program.calls[c]
           t == successor(c)
<1>1. /\ c \in Inst /\ c \in DOMAIN program.calls /\ program \in Program
      /\ program' = program
  BY Zenon DEF Inv, CostTypeOK, visitCall, IsCall
<1>2. /\ e \in Inst /\ program.rank \in [Inst -> Nat]
      /\ program.rank[e] < program.rank[c]
  BY Zenon, <1>1, ProgramFacts
<1>3. t \in Inst /\ successors(c) = {t}
  BY Zenon, <1>1, SuccessorFacts
<1>4. program.rank[t] = program.rank[c] /\ program.entry[t] = program.entry[c]
  BY <1>1, <1>3, ProgramFacts
<1>5. /\ costs \in [Inst -> Nat] /\ paths = [i \in Inst |-> paths[i]]
      /\ \A i \in Inst : IsPath(paths[i])
  BY Zenon DEF Inv, CostTypeOK, IsPath
<1>6. \A i \in Inst : GoodPath(i, paths[i], costs[i])
  BY Zenon, PathInvIs
<1> HIDE DEF t, e
<1>7. GoodPath(e, paths[e], costs[e]) /\ GoodPath(t, paths[t], costs[t])
  BY Zenon, <1>2, <1>3, <1>6
<1>8. weight(c) = 1
  BY Zenon, <1>1 DEF weight, IsCall
<1>9. \A j \in DOMAIN paths[e] : j \in Inst /\ program.rank[j] < program.rank[c]
  BY <1>1, <1>2, <1>5, <1>7 DEF GoodPath, IsPath
<1>10. ASSUME NEW j \in Inst, program.entry[c] = program.entry[j], ~IsCall(j)
       PROVE  j # c /\ Times(paths[e], j) = 0 /\ Times(paths[t], j) \in Nat /\ Times(paths[t], j) <= 2
  <2>1. j # c
    BY Zenon, <1>1, <1>10 DEF IsCall
  <2>2. program.rank[j] = program.rank[c]
    BY Zenon, <1>1, <1>10, ProgramFacts
  <2>3. j \notin DOMAIN paths[e]
    BY <1>1, <1>2, <1>9, <2>2
  <2>4. Times(paths[e], j) = 0
    BY Zenon, <2>3 DEF Times
  <2>5. Times(paths[t], j) \in Nat
    BY Zenon, <1>1, <1>3, <1>5, PathType
  <2>6. Times(paths[t], j) <= 2
    BY Zenon, <1>4, <1>7, <1>10 DEF GoodPath
  <2> QED BY Zenon, <2>1, <2>4, <2>5, <2>6
<1>11. GoodPath(c, Plus(paths[e], c), costs[e] + 1)
  <2>1. pathCost(Plus(paths[e], c)) = pathCost(paths[e]) + weight(c)
    BY Zenon, <1>1, <1>2, <1>5, CostOfPlus
  <2>2. costs[e] + 1 = pathCost(Plus(paths[e], c))
    BY Zenon, <1>7, <1>8, <2>1 DEF GoodPath
  <2>3. DOMAIN Plus(paths[e], c) = DOMAIN paths[e] \cup {c}
    BY Zenon DEF Plus
  <2>4. \A j \in DOMAIN Plus(paths[e], c) : program.rank[j] <= program.rank[c]
    BY <1>1, <1>2, <1>9, <2>3
  <2>5. ASSUME NEW j \in Inst, program.entry[c] = program.entry[j], ~IsCall(j)
        PROVE  Times(Plus(paths[e], c), j) <= 2
    <3>1. Times(Plus(paths[e], c), j) = Times(paths[e], j) + (IF j = c THEN 1 ELSE 0)
      BY <1>2, <1>5, AtPlus DEF IsPath
    <3> QED BY <1>10, <2>5, <3>1
  <2> QED BY Zenon, <2>2, <2>4, <2>5 DEF GoodPath
<1>12. GoodPath(c, Plus(Joined(paths[e], paths[t]), c), 1 + costs[e] + costs[t])
  <2> DEFINE q == Joined(paths[e], paths[t])
  <2>1. IsPath(q)
    BY Zenon, <1>1, <1>2, <1>3, <1>5, PathType
  <2>2. pathCost(q) = pathCost(paths[e]) + pathCost(paths[t])
    <3>1. Inst # {}
      BY Zenon, <1>1
    <3> QED BY Zenon, <1>1, <1>2, <1>3, <1>5, <3>1, CostOfJoined
  <2>3. DOMAIN q = DOMAIN paths[e] \cup DOMAIN paths[t]
    BY Zenon DEF Joined
  <2>4. \A j : Times(q, j) = IF j \in DOMAIN paths[e] \cup DOMAIN paths[t]
                          THEN Times(paths[e], j) + Times(paths[t], j) ELSE 0
    BY Zenon, AtJoined
  <2> HIDE DEF q
  <2>5. pathCost(Plus(q, c)) = pathCost(q) + weight(c)
    BY Zenon, <1>1, <2>1, CostOfPlus
  <2>6. 1 + costs[e] + costs[t] = pathCost(Plus(q, c))
    <3>1. pathCost(Plus(q, c)) = (costs[e] + costs[t]) + 1
      BY Zenon, <1>7, <1>8, <2>2, <2>5 DEF GoodPath
    <3>2. costs[e] \in Nat /\ costs[t] \in Nat
      BY Zenon, <1>2, <1>3, <1>5
    <3> QED BY <3>1, <3>2
  <2>7. DOMAIN Plus(q, c) = DOMAIN q \cup {c}
    BY Zenon DEF Plus
  <2>8. \A j \in DOMAIN Plus(q, c) : program.rank[j] <= program.rank[c]
    <3>1. \A j \in DOMAIN paths[t] : program.rank[j] <= program.rank[c]
      BY Zenon, <1>4, <1>7 DEF GoodPath
    <3>2. \A j \in DOMAIN paths[e] : program.rank[j] <= program.rank[c]
      BY <1>1, <1>2, <1>9
    <3> QED BY <1>1, <1>2, <2>3, <2>7, <3>1, <3>2
  <2>9. ASSUME NEW j \in Inst, program.entry[c] = program.entry[j], ~IsCall(j)
        PROVE  Times(Plus(q, c), j) <= 2
    <3>1. Times(Plus(q, c), j) = Times(q, j) + (IF j = c THEN 1 ELSE 0)
      BY <2>1, AtPlus DEF IsPath
    <3>2. /\ j # c /\ Times(paths[e], j) = 0
          /\ Times(paths[t], j) \in Nat /\ Times(paths[t], j) <= 2
      BY Zenon, <1>10, <2>9
    <3> QED BY <2>4, <3>1, <3>2
  <2>10. GoodPath(c, Plus(q, c), 1 + costs[e] + costs[t])
    BY Zenon, <2>6, <2>8, <2>9 DEF GoodPath
  <2> QED BY Zenon, <2>10 DEF q
<1>13. GoodPath(c, NoPath, 0)
  <2>1. DOMAIN NoPath = {} /\ \A j : Times(NoPath, j) <= 2
    BY DEF NoPath, Times
  <2> QED BY Zenon, <2>1, CostOfNoPath DEF GoodPath
<1>14. GoodPath(c, callPath(c), callCost(c))
  BY Zenon, <1>11, <1>12, <1>13 DEF callPath, callCost, e, t
<1>15. ASSUME NEW i \in Inst PROVE GoodPath(i, paths'[i], costs'[i])
  <2>1. CASE callSame(c)
    <3>1. costs' = costs /\ paths' = paths
      BY Zenon, <2>1 DEF visitCall
    <3> QED BY Zenon, <1>6, <3>1
  <2>2. CASE ~callSame(c)
    <3>1. /\ i = c => paths'[i] = callPath(c) /\ costs'[i] = callCost(c)
          /\ i # c => paths'[i] = paths[i] /\ costs'[i] = costs[i]
      BY Zenon, <1>1, <1>5, <2>2 DEF visitCall
    <3> QED BY Zenon, <1>6, <1>14, <3>1
  <2> QED BY Zenon, <2>1, <2>2
<1> QED BY Zenon, <1>1, <1>15, GoodPathStays

\* Every step keeps paths and costs in step.
LEMMA NextPaths == Inv /\ PathInv /\ [CostNext]_costVars => PathInv'
<1> SUFFICES ASSUME Inv, PathInv, [CostNext]_costVars PROVE PathInv'
  BY Zenon
<1>1. ASSUME program' = program, costs' = costs, paths' = paths PROVE PathInv'
  <2>1. \A i \in Inst : GoodPath(i, paths'[i], costs'[i])
    BY Zenon, <1>1, PathInvIs
  <2> QED BY Zenon, <1>1, <2>1, GoodPathStays
<1>2. ASSUME NEW i \in worklist, visitLoopCall(i) \/ visit(i) PROVE PathInv'
  BY Zenon, <1>1, <1>2 DEF visitLoopCall, visit
<1>3. CASE propagate
  BY Zenon, <1>1, <1>3 DEF propagate
<1>4. CASE UNCHANGED costVars
  BY Zenon, <1>1, <1>4 DEF costVars
<1> QED BY Zenon, <1>2, <1>3, <1>4, LookAtPaths, VisitCallPaths DEF CostNext

\* For every module and every order of visits: the cost of an instruction is the
\* sum of the weights along the path kept for it, no such path takes a loop of its
\* function more than twice, and no call is on the path of the function it calls,
\* which the constructor asserts.
THEOREM PathsAlwaysAddUp == CostSpec => []PathsAddUp
<1>1. CostInit => Inv /\ PathInv
  BY Zenon, InitInv, InitPaths
<1>2. Inv /\ PathInv /\ [CostNext]_costVars => Inv' /\ PathInv'
  BY Zenon, NextInv, NextPaths
<1>3. Inv /\ PathInv => PathsAddUp
  <2> SUFFICES ASSUME Inv, PathInv PROVE LoopsTwice
    BY Zenon DEF PathsAddUp, Inv, PathInv
  <2>1. ASSUME NEW i \in Inst, NEW j \in Inst, IsCall(j), program.calls[j] = i
        PROVE  j \notin DOMAIN paths[i]
    <3>1. program \in Program /\ j \in DOMAIN program.calls
      BY Zenon, <2>1 DEF Inv, CostTypeOK, IsCall
    <3>2. program.rank[i] < program.rank[j] /\ program.rank \in [Inst -> Nat]
      BY Zenon, <2>1, <3>1, ProgramFacts
    <3>3. \A k \in DOMAIN paths[i] : program.rank[k] <= program.rank[i]
      BY Zenon DEF PathInv, PathsInRank
    <3> QED BY <3>2, <3>3
  <2> QED BY Zenon, <2>1 DEF LoopsTwice, PathInv, AtMostTwice
<1> QED BY <1>1, <1>2, <1>3, PTL DEF CostSpec

=============================================================================

---------------------------- MODULE MCComponents ----------------------------
(***************************************************************************)
(* Four parts of an analysis that do not meet: the cache model, with sets  *)
(* that overlap, the bytes of one object, the reconciliation of a path's   *)
(* havocs and the construction of the cost map.  A behaviour is about one  *)
(* of them; the others stay at an initial state.                           *)
(***************************************************************************)
EXTENDS ContentionSetCache, ObjectState, Reconciliation, CostMap

VARIABLE part
partVars == <<part, vars, objectVars, reconcileVars, costVars>>

\* A path without packets, and one input.
NothingHavocked == [packets |-> << >>, constraints |-> {CHOOSE w \in HavocWorld : TRUE}]

\* A function that only returns.
ReturnOnly == [insts |-> {1}, successors |-> <<{}>>, entry |-> <<1>>,
               calls |-> << >>, loopCalls |-> {}, memory |-> {}, rank |-> <<0>>,
               nsPerInstruction |-> 5, nsPerMemoryInstruction |-> 97]

\* Where a part that no step is about stays: one of its initial states.
SomeObject == root = Null /\ result = 0 /\ concreteStore = [i \in Offset |-> 0]
SomePath ==
  havocs = NothingHavocked.packets /\ stateConstraints = NothingHavocked.constraints
SomeProgram == program = ReturnOnly

PartInit ==
  /\ part \in {"cache", "object", "reconciliation", "costmap"}
  /\ Init
  /\ ObjectInit /\ (part # "object" => SomeObject)
  /\ ReconcileInit /\ (part # "reconciliation" => SomePath)
  /\ CostInit /\ (part # "costmap" => SomeProgram)

CacheStep == part = "cache" /\ Next /\ UNCHANGED <<part, objectVars, reconcileVars, costVars>>
ObjectStep == part = "object" /\ ObjectNext /\ UNCHANGED <<part, vars, reconcileVars, costVars>>
ReconcileStep ==
  part = "reconciliation" /\ ReconcileNext /\ UNCHANGED <<part, vars, objectVars, costVars>>
CostStep == part = "costmap" /\ CostNext /\ UNCHANGED <<part, vars, objectVars, reconcileVars>>

PartNext == CacheStep \/ ObjectStep \/ ReconcileStep \/ CostStep

\* processTestCase and the constructor of the searcher run to their ends.
PartSpec == PartInit /\ [][PartNext]_partVars /\ WF_partVars(ReconcileStep) /\ WF_partVars(CostStep)

(* processTestCase ends: the binary search and the loops over records, havocs  *)
(* and packets reach a written or an ignored test case.                        *)
ReconciliationEnds == part = "reconciliation" => Ends

(* The constructor of the searcher ends: in whatever order it visits, the      *)
(* worklist runs empty although loops and calls re-queue instructions.         *)
CostMapTerminates == part = "costmap" => Terminates

------------------------------------------------------------------------------
(* Two pages of four lines; line 2 is in two contention sets, line 6 in none. *)

MCWorlds == 1..3
MCAddrs == [i \in 0..1 |-> IF i = 0 THEN {0, 2} ELSE {2, 4}]
MCAssoc == [i \in 0..1 |-> IF i = 0 THEN 2 ELSE 1]
Pointers == {[w \in MCWorlds |-> x] : x \in {0, 3, 6}} \cup {<<0, 2, 10>>, <<3, 4, 8>>}
MCPointers == Pointers

------------------------------------------------------------------------------
(* Two havocs of a hash of five inputs.  Input 2 hashes to 0 but is not in the *)
(* table; no input hashes to 2.                                                *)

MCInputs == 0..4
MCHavocs == {1, 2}
MCHashValues == 0..2
MCHash == [x \in MCInputs |-> x % 2]
MCRecords == <<[value |-> 0, input |-> 0], [value |-> 0, input |-> 4],
               [value |-> 1, input |-> 3], [value |-> 1, input |-> 1]>>

\* Nothing known; one flow hashed twice; two flows that collide; inputs of
\* which few are in the table.
MCConstraints ==
    {HavocWorld,
     {w \in HavocWorld : w[1].in = w[2].in},
     {w \in HavocWorld : w[1].in # w[2].in /\ w[1].out = w[2].out},
     {w \in HavocWorld : w[1].in \in {1, 2} /\ w[2].in # 0 /\ w[1].out < w[2].out}}
MCPackets == {<<<<1, 2>>>>, <<<<1>>, <<2>>>>, <<<<>>, <<2, 1>>>>, <<<<2>>, <<>>>>}
MCPaths == {NothingHavocked} \cup
           {[packets |-> p, constraints |-> c] : p \in MCPackets, c \in MCConstraints}

------------------------------------------------------------------------------
(* Programs: a caller 1..6 and a function 7..9.  3 calls the function; 5 and 7  *)
(* may be calls of castan_loop; 2, 4 and 8 may branch; 6 may return and 9 does. *)

\* The cost constants of the build, in hundredths of a nanosecond: the Xeon
\* configuration, and one in which instructions have a cost.
Xeon == <<5, 97>>
Fake == <<100, 200>>

CallerSuccessors ==
    {<<{2}, a, {4}, b[1], {6}, b[2]>> :
        a \in {{3}, {3, 5}}, b \in {<<{5}, {}>>, <<{5}, {2}>>, <<{2, 5}, {}>>}}
CalleeSuccessors == {<<{8}, a, {}>> : a \in {{9}, {8, 9}}}

Modules ==
    {[insts |-> 1..9,
      successors |-> f \o g,
      entry |-> <<1, 1, 1, 1, 1, 1, 7, 7, 7>>,
      calls |-> [i \in {3} |-> 7],
      loopCalls |-> l,
      memory |-> {4, 8},
      rank |-> <<1, 1, 1, 1, 1, 1, 0, 0, 0>>,
      nsPerInstruction |-> ns[1],
      nsPerMemoryInstruction |-> ns[2]] :
        f \in CallerSuccessors, g \in CalleeSuccessors,
        l \in {{5}, {7}, {5, 7}}, ns \in {Xeon, Fake}}

Programs == {ReturnOnly} \cup {p \in Modules : WellFormed(p)}
MCPrograms == Programs
==============================================================================

-------------------------- MODULE IndependentSolver --------------------------
(***************************************************************************)
(* The solver chain with its upper layers: IndependentSolver splits a      *)
(* query into the parts that read no byte in common before it asks the     *)
(* chain of SolverCaches, ValidatingSolver compares the answers with those *)
(* of the core solver, Solver and TimingSolver are what the executor       *)
(* calls.  A call is one step, except that the initial values are computed *)
(* one independent factor per step.                                        *)
(***************************************************************************)
EXTENDS SolverCaches

CONSTANTS Reads(_),        \* the reads of an expression: array and index, -1 if symbolic
          Cells,           \* the bytes of the arrays: array and index
          Queries,         \* the queries that are asked
          OptionSets,      \* the command lines
          MaxCalls         \* bound on the calls of a behaviour

ASSUME QueriesAssumption ==
  \A q \in Queries : /\ q = Query(q.constraints, q.expr)
                    /\ q.constraints \in Seq(Exprs) /\ q.expr \in Exprs

\* An assignment gives every byte of the arrays a value, and the value of an
\* expression is decided by the bytes that it reads.
ReadsByte(e, c) == c \in Reads(e) \/ \E r \in Reads(e) : r[1] = c[1] /\ r[2] = -1

ASSUME ReadsAssumption ==
  /\ LET bytes == UNION {Range(a) : a \in Assignments}
     IN  0 \in bytes /\ Assignments = [Cells -> bytes]
  /\ \A e \in Exprs : \A a, b \in Assignments :
       (\A c \in Cells : ReadsByte(e, c) => a[c] = b[c]) => (Holds(e, a) <=> Holds(e, b))

\* The queries, whose constraints need not be satisfiable: a constraint that reads
\* nothing is true (ConstraintManager::addConstraintInternal keeps no constant), and the
\* expression is the constant false or reads something ("the expr should always be false").
ASSUME ConstantsAssumption ==
  \A q \in Queries :
    /\ \A e \in Range(q.constraints) :
         (\A c \in Cells : ~ReadsByte(e, c)) => \A a \in Assignments : Holds(e, a)
    /\ (\A c \in Cells : ~ReadsByte(Neg(q.expr), c)) => q.expr = ExprFalse

VARIABLES caches,      \* what CachingSolver and CexCachingSolver hold
          call, answer,  \* the last call and what came of it
          factors,       \* computeInitialValues: the factors still to solve
          retMap,        \* and the bytes found
          calls
solverVars == <<options, caches, call, answer, factors, retMap, calls>>

UseIndependentSolver == "use-independent-solver" \in options
DebugValidateSolver == "debug-validate-solver" \in options

------------------------------------------------------------------------------
(* IndependentElementSet: what an expression or a set of them reads. *)

IndependentElementSet(e) ==
  LET whole == {r[1] : r \in {x \in Reads(e) : x[2] = -1}}
  IN  [elements |-> {r \in Reads(e) : r[1] \notin whole}, wholeObjects |-> whole, exprs |-> <<e>>]

ArraysOf(elements) == {x[1] : x \in elements}

intersects(a, b) ==
  \/ a.wholeObjects \cap (b.wholeObjects \cup ArraysOf(b.elements)) # {}
  \/ ArraysOf(a.elements) \cap b.wholeObjects # {}
  \/ a.elements \cap b.elements # {}

add(a, b) ==
  LET whole == a.wholeObjects \cup b.wholeObjects
  IN  [elements |-> {x \in a.elements \cup b.elements : x[1] \notin whole},
       wholeObjects |-> whole, exprs |-> a.exprs \o b.exprs]

Modifies(a, b) ==
  add(a, b).elements # a.elements \/ add(a, b).wholeObjects # a.wholeObjects

calculateArrayReferences(s) == ArraysOf(s.elements) \cup s.wholeObjects

\* do ... while (!done): a pass that is not the last takes something away.
Repeat(Pass(_), start, bound) ==
  LET after[i \in 0..bound] ==
        IF i = 0 THEN start
        ELSE IF after[i - 1].done THEN after[i - 1] ELSE Pass(after[i - 1])
  IN  after[bound]

\* A loop over a list.
ForEach(Step(_, _), start, list) ==
  LET after[i \in 0..Len(list)] == IF i = 0 THEN start ELSE Step(after[i - 1], list[i])
  IN  after[Len(list)]

\* The constraints that share a byte with the query, directly or through others.
ClosureStep(t, e) ==
  LET ies == IndependentElementSet(e)
  IN  IF intersects(ies, t.closure)
      THEN [closure |-> add(t.closure, ies), worklist |-> t.worklist,
            result |-> Append(t.result, e), done |-> t.done /\ ~Modifies(t.closure, ies)]
      ELSE [closure |-> t.closure, worklist |-> Append(t.worklist, e),
            result |-> t.result, done |-> t.done]

ClosurePass(s) ==
  ForEach(ClosureStep,
          [closure |-> s.closure, worklist |-> << >>, result |-> s.result, done |-> TRUE],
          s.worklist)

ClosureStart(q) ==
  [closure |-> IndependentElementSet(q.expr), worklist |-> q.constraints,
   result |-> << >>, done |-> FALSE]

\* Mutant: one pass, so that a constraint that comes before the one that links it is lost.
SinglePass(q) == ClosurePass(ClosureStart(q)).result

getIndependentConstraints(q) ==
  Repeat(ClosurePass, ClosureStart(q), Len(q.constraints) + 1).result

\* Take the first factor and all that it meets, as it grows.
AbsorbStep(t, f) ==
  IF intersects(t.current, f)
  THEN [current |-> add(t.current, f), keep |-> t.keep,
        same |-> t.same /\ ~Modifies(t.current, f)]
  ELSE [current |-> t.current, keep |-> Append(t.keep, f), same |-> t.same]

Absorb(s) ==
  LET r == ForEach(AbsorbStep,
                   [current |-> Head(s.queue), keep |-> << >>, same |-> s.same], Tail(s.queue))
  IN  [queue |-> r.keep, merged |-> Append(s.merged, r.current), same |-> r.same,
       done |-> r.keep = << >>]

FactorPass(s) ==
  LET r == Repeat(Absorb, [queue |-> s.factors, merged |-> << >>, same |-> TRUE,
                           done |-> s.factors = << >>], Len(s.factors))
  IN  [factors |-> r.merged, done |-> r.same]

Parts(q) ==
  (IF q.expr = ExprFalse THEN << >> ELSE <<IndependentElementSet(Neg(q.expr))>>)
  \o [i \in 1..Len(q.constraints) |-> IndependentElementSet(q.constraints[i])]

getAllIndependentConstraintsSets(q) ==
  Repeat(FactorPass, [factors |-> Parts(q), done |-> FALSE], Len(Parts(q)) + 1).factors

------------------------------------------------------------------------------
(* The layers above the caches. *)

Required(q) ==
  IF UseIndependentSolver THEN Query(getIndependentConstraints(q), q.expr) ELSE q

\* ValidatingSolver: the oracle is the core solver.
Validated(o, oracle, expected) ==
  IF ~DebugValidateSolver \/ o.status # "ok" THEN {o}
  ELSE {IF r.status # "ok" THEN Timeout(o.value, o.caches)
        ELSE IF r.value = expected THEN o ELSE Abort(o.value, o.caches) : r \in oracle}

computeTruth(q) ==
  UNION {Validated(o, core_computeTruth(caches, q), o.value) :
           o \in chain_computeTruth(caches, Required(q))}

computeValidity(q) ==
  UNION {Validated(o, core_computeValidity(caches, q), o.value) :
           o \in chain_computeValidity(caches, Required(q))}

\* The oracle is asked whether the expression differs from the value for certain.
computeValue(q) ==
  UNION {Validated(o, core_computeTruth(caches, IF o.value = "True" THEN negateExpr(q) ELSE q),
                   "False") :
           o \in next_computeValue(caches, Required(q))}

\* Solver and TimingSolver answer for a constant without asking.
Constant(e) == e \in {ExprTrue, ExprFalse}
Fast(q, outcomes) ==
  IF Constant(q.expr) THEN {Answer(Truth(q.expr = ExprTrue), caches)} ELSE outcomes

Inverted(outcomes) ==
  {IF o.status # "ok" THEN o ELSE Answer(Truth(o.value = "False"), o.caches) : o \in outcomes}

evaluate(q) == Fast(q, computeValidity(q))
mustBeTrue(q) == Fast(q, computeTruth(q))
mustBeFalse(q) == mustBeTrue(negateExpr(q))
mayBeTrue(q) == Inverted(mustBeFalse(q))
mayBeFalse(q) == Inverted(mustBeTrue(q))
getValue(q) == Fast(q, computeValue(q))

Outcomes(op, q) ==
  CASE op = "evaluate" -> evaluate(q)
    [] op = "mustBeTrue" -> mustBeTrue(q)
    [] op = "mustBeFalse" -> mustBeFalse(q)
    [] op = "mayBeTrue" -> mayBeTrue(q)
    [] op = "mayBeFalse" -> mayBeFalse(q)
    [] OTHER -> getValue(q)

Operations == {"evaluate", "mustBeTrue", "mustBeFalse", "mayBeTrue", "mayBeFalse", "getValue"}

NoCall == [op |-> "none", query |-> Query(<< >>, ExprTrue)]
NoAnswer == [status |-> "none", value |-> Unset]
Idle == answer = NoAnswer /\ calls < MaxCalls

Finish(o) == answer' = [status |-> o.status, value |-> o.value] /\ caches' = o.caches

Ask(op, q) ==
  /\ Idle /\ op \in Operations
  /\ \E o \in Outcomes(op, q) : Finish(o)
  /\ call' = [op |-> op, query |-> q]
  /\ calls' = calls + 1
  /\ UNCHANGED <<options, factors, retMap>>

------------------------------------------------------------------------------
(* computeInitialValues.  The objects asked for are all the arrays. *)

\* ValidatingSolver: the bytes imply the constraints, or the query is valid.
ValidatedPoint(o, q) ==
  Validated(o, {Timeout(Unset, o.caches),
                Answer(IF o.value = Null THEN Truth(IsValid(q))
                       ELSE Truth(o.value \subseteq Sat(Key(q))), o.caches)},
            "True")

getInitialValues(q) ==
  /\ Idle
  /\ call' = [op |-> "getInitialValues", query |-> q]
  /\ calls' = calls + 1
  /\ IF UseIndependentSolver
     THEN /\ factors' = getAllIndependentConstraintsSets(q)
          /\ answer' = [status |-> "pending", value |-> Unset]
          /\ UNCHANGED <<caches, retMap>>
     ELSE /\ \E o \in next_computeInitialValues(caches, q) :
               \E r \in ValidatedPoint(o, q) : Finish(r)
          /\ UNCHANGED <<factors, retMap>>
  /\ UNCHANGED options

\* An array that is already there only gets the bytes that this factor reads.
Merge(m, f, a) ==
  [c \in DOMAIN m \cup {x \in Cells : x[1] \in calculateArrayReferences(f)} |->
     IF c \in DOMAIN m /\ c \notin f.elements THEN m[c] ELSE a[c]]

SolveFactor ==
  /\ answer.status = "pending" /\ factors # << >>
  /\ LET f == Head(factors)
     IN  IF calculateArrayReferences(f) = {}
         THEN factors' = Tail(factors) /\ UNCHANGED <<caches, answer, retMap>>
         ELSE \E o \in next_computeInitialValues(caches, Query(f.exprs, ExprFalse)) :
                IF o.status = "ok" /\ o.value # Null
                THEN /\ factors' = Tail(factors) /\ caches' = o.caches
                     /\ \E a \in o.value : retMap' = Merge(retMap, f, a)
                     /\ UNCHANGED answer
                ELSE /\ factors' = << >>
                     /\ \E r \in ValidatedPoint(o, call.query) : Finish(r)
                     /\ UNCHANGED retMap
  /\ UNCHANGED <<options, call, calls>>

assertCreatedPointEvaluatesToTrue(q, point) == point \in Sat(Key(q))

\* The assertion is compiled in; an array that no factor reads is filled with zeros.
ReturnValues ==
  /\ answer.status = "pending" /\ factors = << >>
  /\ LET point == [c \in Cells |-> IF c \in DOMAIN retMap THEN retMap[c] ELSE 0]
     IN  IF assertCreatedPointEvaluatesToTrue(call.query, point)
         THEN \E r \in ValidatedPoint(Answer({point}, caches), call.query) : Finish(r)
         ELSE Finish(Abort({point}, caches))
  /\ UNCHANGED <<options, call, factors, retMap, calls>>

\* The caller has the answer.
Return ==
  /\ answer.status \in {"ok", "timeout", "false"}
  /\ call' = NoCall /\ answer' = NoAnswer /\ retMap' = << >>
  /\ UNCHANGED <<options, caches, factors, calls>>

SolverInit ==
  /\ options \in OptionSets
  /\ caches = NoCaches
  /\ call = NoCall /\ answer = NoAnswer
  /\ factors = << >> /\ retMap = << >>
  /\ calls = 0

SolverNext ==
  \/ \E q \in Queries : (\E op \in Operations : Ask(op, q)) \/ getInitialValues(q)
  \/ SolveFactor \/ ReturnValues \/ Return

SolverSpec == SolverInit /\ [][SolverNext]_solverVars

------------------------------------------------------------------------------
(* Properties. *)

\* What the two caches hold is true, after any calls, timeouts included
\* (CexCachingSolver.cpp:124, CachingSolver.cpp:137): an assignment kept for a set of
\* expressions satisfies it, a null pointer kept for it means that none does, and
\* the validity kept for a canonical query holds of it.
CachesSound == Sound(caches)

RightAnswer(op, q, v) ==
  CASE op = "evaluate" -> v = (IF IsValid(q) THEN "True"
                               ELSE IF IsValid(negateExpr(q)) THEN "False" ELSE "Unknown")
    [] op = "mustBeTrue" -> v = Truth(IsValid(q))
    [] op = "mustBeFalse" -> v = Truth(IsValid(negateExpr(q)))
    [] op = "mayBeTrue" -> v = Truth(~IsValid(negateExpr(q)))
    [] op = "mayBeFalse" -> v = Truth(~IsValid(q))
    [] op = "getValue" -> \E a \in Models(q) : v = Truth(Holds(q.expr, a))
    [] OTHER -> IF v = Null THEN Sat(Key(q)) = {} ELSE v \subseteq Sat(Key(q))

\* The calls whose answer is meant for the constraints as they are: initial values are
\* also asked for to find out whether there are any, the other calls assert that the
\* constraints can be satisfied (CexCachingSolver.cpp:275, :327, Z3Solver.cpp:150).
Answerable == call.op = "getInitialValues" \/ Models(call.query) # {}

\* Whatever layers are switched on and whatever was asked before, queries about
\* contradictory constraints included: a call for initial values, or about constraints
\* that can be satisfied, that returns true is answered rightly for all the constraints,
\* not only the ones the independence solver kept, and no assertion of the chain, the
\* comparison with the oracle included, fails.
AnswersRight ==
  Answerable =>
    /\ answer.status # "abort"
    /\ answer.status = "ok" => RightAnswer(call.op, call.query, answer.value)

\* "On success, true iff the logical formula is true. \return True on success"
\* (Solver.h): a call fails only when the solver below it gave up.
FailsOnlyWhenCoreFails == answer.status # "false"
==============================================================================

---------------------------- MODULE SolverProofs ----------------------------
(* What the solver chain guarantees for every language of expressions, every *)
(* command line and every history of calls: the caches hold the truth and    *)
(* the answers are right; what Solver::getRange returns for every width.     *)
EXTENDS IndependenceProofs, SolverRange

\* The context is large: the SMT solver is given more time than by default.
USE SMTT(20), Zenon

-----------------------------------------------------------------------------
(* Solver::getRange: the inductive invariant *)

\* Each search keeps a value between its bounds: the number of bits in use is at
\* most hi; then no value is below lo and one is at most hi; then no value is
\* above hi and one is at least lo.
RangeInv ==
    /\ possible # {} /\ possible \subseteq Nat
    /\ search \in {"bits", "zero", "min", "max", "done", "abort"}
    /\ search = "bits" => /\ lo \in Nat /\ hi \in 0..Width /\ lo <= hi /\ bits = lo
                          /\ \A v \in possible : v < 2^hi
    /\ search \in {"zero", "min", "max"} => /\ bits \in 0..Width
                                            /\ \A v \in possible : v < 2^bits
    /\ search = "min" => /\ lo \in Nat /\ hi \in Nat
                         /\ \A v \in possible : lo <= v
                         /\ \E v \in possible : v <= hi
    /\ search = "max" => /\ lo \in Nat /\ hi \in Nat
                         /\ min \in possible /\ \A v \in possible : min <= v /\ v <= hi
                         /\ \E v \in possible : lo <= v
    /\ RangeIsTight

\* Before the first search of getRange the invariant holds.
LEMMA RangeInitInv == RangeInit => RangeInv
<1>. SUFFICES ASSUME RangeInit PROVE RangeInv
  BY Zenon
<1>1. 2^Width \in Nat \ {0} /\ Width \in Nat
  BY WidthAssumption
<1>2. possible \subseteq Nat /\ possible # {} /\ \A v \in possible : v < 2^Width
  <2>1. possible # {} /\ possible \subseteq 0..(2^Width - 1)
    BY Zenon DEF RangeInit
  <2>2. \A v \in 0..(2^Width - 1) : v \in Nat /\ v < 2^Width
    BY <1>1
  <2>3. QED
    BY Zenon, <2>1, <2>2
<1>3. QED
  BY <1>1, <1>2 DEF RangeInit, RangeInv, RangeIsTight

\* Every query of getRange halves an interval that keeps a value.
LEMMA RangeStepInv == RangeInv /\ [RangeNext]_rangeVars => RangeInv'
<1>. SUFFICES ASSUME RangeInv, [RangeNext]_rangeVars PROVE RangeInv'
  BY Zenon
<1>1. CASE SearchBits
  <2>1. /\ search = "bits" /\ search' = search /\ possible' = possible /\ bits' = lo'
        /\ possible # {} /\ possible \subseteq Nat
        /\ lo \in Nat /\ hi \in Nat /\ hi <= Width /\ lo < hi
        /\ \A v \in possible : v < 2^hi
    BY <1>1, WidthAssumption DEF SearchBits, RangeInv
  <2>2. mid \in Nat /\ lo <= mid /\ mid < hi
    BY <2>1 DEF mid
  <2>3. CASE mustBe(Fitting(mid))
    <3>1. \A v \in possible : v < 2^mid
      BY <2>3, Zenon DEF mustBe, Fitting
    <3>2. hi' = mid /\ lo' = lo
      BY Zenon, <1>1, <2>3 DEF SearchBits
    <3>3. QED
      BY <2>1, <2>2, <3>1, <3>2, WidthAssumption DEF RangeInv, RangeIsTight
  <2>4. CASE ~mustBe(Fitting(mid))
    <3>1. hi' = hi /\ lo' = mid + 1
      BY Zenon, <1>1, <2>4 DEF SearchBits
    <3>2. QED
      BY <2>1, <2>2, <3>1, WidthAssumption DEF RangeInv, RangeIsTight
  <2>5. QED
    BY Zenon, <2>3, <2>4
<1>2. CASE BitsFound
  BY Zenon, <1>2 DEF BitsFound, RangeInv, RangeIsTight
<1>3. CASE TryZero
  <2>1. /\ search = "zero" /\ possible' = possible /\ bits' = bits
        /\ possible # {} /\ possible \subseteq Nat
        /\ bits \in 0..Width /\ \A v \in possible : v < 2^bits
    BY Zenon, <1>3 DEF TryZero, RangeInv
  <2>2. 2^bits \in Nat \ {0}
    BY Zenon, <2>1, WidthAssumption
  <2>3. 2^bits - 1 \in Nat /\ \A v \in possible : v <= 2^bits - 1
    BY <2>1, <2>2
  <2>4. lo' = 0 /\ hi' = 2^bits - 1
    BY Zenon, <1>3 DEF TryZero, StartMax, maxValueOfNBits
  <2>5. CASE mayBe({0})
    <3>1. 0 \in possible /\ min' = 0 /\ search' = "max"
      BY Zenon, <1>3, <2>5 DEF TryZero, StartMax, mayBe
    <3>2. QED
      BY <2>1, <2>3, <2>4, <3>1 DEF RangeInv, RangeIsTight
  <2>6. CASE ~mayBe({0})
    <3>1. search' = "min"
      BY Zenon, <1>3, <2>6 DEF TryZero
    <3>2. PICK v \in possible : v <= 2^bits - 1
      BY <2>1, <2>3, Zenon
    <3>3. \A x \in possible : 0 <= x
      BY <2>1
    <3>4. QED
      BY Zenon, <2>1, <2>3, <2>4, <3>1, <3>2, <3>3 DEF RangeInv, RangeIsTight
  <2>7. QED
    BY Zenon, <2>5, <2>6
<1>4. CASE SearchMin
  <2>1. /\ search = "min" /\ search' = search /\ possible' = possible /\ bits' = bits
        /\ possible # {} /\ possible \subseteq Nat
        /\ bits \in 0..Width /\ \A v \in possible : v < 2^bits
        /\ lo \in Nat /\ hi \in Nat /\ lo < hi
        /\ \A v \in possible : lo <= v
        /\ \E v \in possible : v <= hi
    BY Zenon, <1>4 DEF SearchMin, RangeInv
  <2>2. mid \in Nat /\ lo <= mid /\ mid < hi
    BY <2>1 DEF mid
  <2>3. CASE mayBe(UpTo(mid))
    <3>1. \E v \in possible : v <= mid
      BY <2>3, Zenon DEF mayBe, UpTo
    <3>2. hi' = mid /\ lo' = lo
      BY Zenon, <1>4, <2>3 DEF SearchMin
    <3>3. QED
      BY Zenon, <2>1, <2>2, <3>1, <3>2 DEF RangeInv, RangeIsTight
  <2>4. CASE ~mayBe(UpTo(mid))
    <3>1. \A v \in possible : ~(v <= mid)
      BY <2>4, Zenon DEF mayBe, UpTo
    <3>2. ASSUME NEW v \in possible PROVE mid + 1 <= v
      <4>1. v \in Nat /\ ~(v <= mid)
        BY Zenon, <2>1, <3>1
      <4>2. QED
        BY <2>2, <4>1
    <3>3. hi' = hi /\ lo' = mid + 1
      BY Zenon, <1>4, <2>4 DEF SearchMin
    <3>4. QED
      BY <2>1, <2>2, <3>2, <3>3 DEF RangeInv, RangeIsTight
  <2>5. QED
    BY Zenon, <2>3, <2>4
<1>5. CASE MinFound
  BY <1>5, WidthAssumption DEF MinFound, StartMax, RangeInv, RangeIsTight, maxValueOfNBits
<1>6. CASE SearchMax
  BY <1>6 DEF SearchMax, RangeInv, RangeIsTight, mid, mustBe, UpTo
<1>7. CASE MaxFound
  BY <1>7 DEF MaxFound, RangeInv, RangeIsTight
<1>8. CASE Fails
  BY Zenon, <1>8 DEF Fails, RangeInv, RangeIsTight
<1>9. CASE UNCHANGED rangeVars
  BY Zenon, <1>9 DEF rangeVars, RangeInv, RangeIsTight
<1>10. QED
  BY Zenon, <1>1, <1>2, <1>3, <1>4, <1>5, <1>6, <1>7, <1>8, <1>9 DEF RangeNext, RangeStep

\* For every width and every set of values that the expression may have, the
\* three binary searches of getRange end with its least and its greatest value.
THEOREM RangeSearchIsRight == RangeSpec => []RangeIsTight
<1>1. RangeInv => RangeIsTight
  BY Zenon DEF RangeInv
<1>2. QED
  BY <1>1, RangeInitInv, RangeStepInv, PTL DEF RangeSpec

-----------------------------------------------------------------------------
(* Queries and what satisfies them *)

\* createIsZero turns a query into its opposite, and a counterexample of a query
\* is a model of the constraints in which the expression is false.
LEMMA QueryFacts ==
  ASSUME NEW q, q.expr \in Exprs
  PROVE  /\ negateExpr(q).expr \in Exprs /\ negateExpr(q).expr = Neg(q.expr)
         /\ withFalse(q).expr \in Exprs
         /\ Models(q) \subseteq Assignments
         /\ Models(negateExpr(q)) = Models(q)
         /\ IsValid(q) <=> \A a \in Models(q) : Holds(q.expr, a)
         /\ IsValid(negateExpr(q)) <=> \A a \in Models(q) : ~Holds(q.expr, a)
         /\ Sat(Key(q)) = {a \in Models(q) : ~Holds(q.expr, a)}
         /\ Sat(Key(negateExpr(q))) = {a \in Models(q) : Holds(q.expr, a)}
         /\ Sat(Key(withFalse(q))) = Models(q)
         /\ Neg(q.expr) = ExprFalse => \A a \in Assignments : Holds(q.expr, a)
<1>1. /\ negateExpr(q).expr = Neg(q.expr) /\ negateExpr(q).constraints = q.constraints
      /\ withFalse(q).expr = ExprFalse /\ withFalse(q).constraints = q.constraints
  BY Zenon DEF negateExpr, withFalse, Query
<1>2. /\ Neg(q.expr) \in Exprs /\ ExprFalse \in Exprs /\ Neg(Neg(q.expr)) = q.expr
      /\ \A a \in Assignments : Holds(Neg(q.expr), a) <=> ~Holds(q.expr, a)
      /\ \A a \in Assignments : ~Holds(ExprFalse, a)
  BY Zenon, ExprAssumption
<1>3. /\ Models(q) \subseteq Assignments /\ Models(negateExpr(q)) = Models(q)
      /\ Models(withFalse(q)) = Models(q)
  BY Zenon, <1>1 DEF Models, Sat
<1>4. ASSUME NEW p, p.expr \in Exprs
      PROVE  Sat(Key(p)) = {a \in Models(p) : ~Holds(p.expr, a)}
  <2>1. \A a \in Assignments : Holds(Neg(p.expr), a) <=> ~Holds(p.expr, a)
    BY Zenon, <1>4, ExprAssumption
  <2>2. CASE p.expr = ExprFalse
    BY Zenon, <2>2, <1>2 DEF Key, Models, Sat
  <2>3. CASE p.expr # ExprFalse
    BY Zenon, <2>3, <2>1 DEF Key, Models, Sat
  <2>4. QED
    BY Zenon, <2>2, <2>3
<1>5. Sat(Key(q)) = {a \in Models(q) : ~Holds(q.expr, a)}
  BY Zenon, <1>4
<1>6. Sat(Key(negateExpr(q))) = {a \in Models(q) : Holds(q.expr, a)}
  <2>1. Sat(Key(negateExpr(q))) = {a \in Models(q) : ~Holds(Neg(q.expr), a)}
    BY Zenon, <1>1, <1>2, <1>3, <1>4
  <2>2. QED
    BY Zenon, <2>1, <1>2, <1>3
<1>7. Sat(Key(withFalse(q))) = Models(q)
  <2>1. Sat(Key(withFalse(q))) = {a \in Models(q) : ~Holds(ExprFalse, a)}
    BY Zenon, <1>1, <1>2, <1>3, <1>4
  <2>2. QED
    BY Zenon, <2>1, <1>2, <1>3
<1>8. IsValid(q) <=> \A a \in Models(q) : Holds(q.expr, a)
  BY Zenon DEF IsValid
<1>9. IsValid(negateExpr(q)) <=> \A a \in Models(q) : ~Holds(q.expr, a)
  <2>1. IsValid(negateExpr(q)) <=> \A a \in Models(q) : Holds(Neg(q.expr), a)
    BY Zenon, <1>1, <1>3 DEF IsValid
  <2>2. QED
    BY Zenon, <2>1, <1>2, <1>3
<1>10. Neg(q.expr) = ExprFalse => \A a \in Assignments : Holds(q.expr, a)
  BY Zenon, <1>2
<1>11. QED
  BY Zenon, <1>1, <1>2, <1>3, <1>5, <1>6, <1>7, <1>8, <1>9, <1>10

-----------------------------------------------------------------------------
(* The counterexample cache *)

\* What a search for an assignment may say of a set of expressions: null that
\* nothing satisfies it, or one assignment that does.
FoundFor(found, key) ==
    IF found = Null THEN Sat(key) = {} ELSE \E a \in Sat(key) : found = {a}

\* The caches, as the record that the layers pass on, hold the truth.
Truthful(c) ==
    /\ c = [cache |-> c.cache, cex |-> c.cex, table |-> c.table]
    /\ Sound(c)

\* Whatever subset, superset or old assignment it is derived from, a cached
\* result is right for the key that was looked up.
LEMMA SearchIsRight ==
  ASSUME NEW c, Truthful(c), NEW key, NEW found \in searchForAssignment(c, key)
  PROVE  FoundFor(found, key)
<1>. DEFINE TryAll == "cex-cache-try-all" \in options
            SuperSets == {k \in DOMAIN c.cex : key \subseteq k /\ c.cex[k] # Null}
            SubSets == {k \in DOMAIN c.cex :
                          /\ k \subseteq key
                          /\ c.cex[k] = Null \/ (~TryAll /\ Satisfies(c.cex[k], key))}
<1>1. /\ \A k \in DOMAIN c.cex : FoundFor(c.cex[k], k)
      /\ c.table \subseteq Assignments
  BY Zenon DEF Truthful, Sound, FoundFor
<1>2. CASE key \in DOMAIN c.cex
  BY Zenon, <1>1, <1>2 DEF searchForAssignment
<1>3. CASE \E k \in SuperSets : found = c.cex[k]
  <2>1. PICK k \in SuperSets : found = c.cex[k]
    BY Zenon, <1>3
  <2>2. PICK a \in Sat(k) : found = {a}
    BY Zenon, <1>1, <2>1 DEF FoundFor
  <2>3. a \in Sat(key)
    BY Zenon, <2>1, <2>2 DEF Sat
  <2>4. QED
    BY Zenon, <2>2, <2>3 DEF FoundFor, Null
<1>4. CASE \E k \in SubSets : found = c.cex[k]
  <2>1. PICK k \in SubSets : found = c.cex[k]
    BY Zenon, <1>4
  <2>2. CASE c.cex[k] = Null
    BY Zenon, <1>1, <2>1, <2>2 DEF FoundFor, Sat
  <2>3. CASE c.cex[k] # Null
    <3>1. PICK a \in Sat(k) : found = {a}
      BY Zenon, <1>1, <2>1, <2>3 DEF FoundFor
    <3>2. a \in Sat(key)
      BY Zenon, <2>1, <2>3, <3>1 DEF Sat, Satisfies
    <3>3. QED
      BY Zenon, <3>1, <3>2 DEF FoundFor, Null
  <2>4. QED
    BY Zenon, <2>2, <2>3
<1>5. CASE \E b \in c.table : Satisfies({b}, key) /\ found = {b}
  <2>1. PICK b \in c.table : Satisfies({b}, key) /\ found = {b}
    BY Zenon, <1>5
  <2>2. b \in Sat(key)
    BY Zenon, <1>1, <2>1 DEF Satisfies, Sat
  <2>3. QED
    BY Zenon, <2>1, <2>2 DEF FoundFor, Null
<1>6. \/ key \in DOMAIN c.cex
      \/ \E k \in SuperSets : found = c.cex[k]
      \/ \E k \in SubSets : found = c.cex[k]
      \/ \E b \in c.table : Satisfies({b}, key) /\ found = {b}
  BY Zenon DEF searchForAssignment
<1>7. QED
  BY Zenon, <1>2, <1>3, <1>4, <1>5, <1>6

\* An answer of the solver below may be entered for its key.
LEMMA InsertIsTruthful ==
  ASSUME NEW c, Truthful(c), NEW q, NEW found, FoundFor(found, Key(q))
  PROVE  Truthful(Insert(c, q, found))
<1>. DEFINE d == Insert(c, q, found)
<1>1. d = [cache |-> c.cache,
           cex |-> [k \in DOMAIN c.cex \cup {Key(q)} |-> IF k = Key(q) THEN found ELSE c.cex[k]],
           table |-> c.table \cup found]
  <2>. DEFINE f == [k \in DOMAIN c.cex \cup {Key(q)} |-> IF k = Key(q) THEN found ELSE c.cex[k]]
              t == c.table \cup found
  <2>1. d = [c EXCEPT !.cex = f, !.table = t]
    BY Zenon DEF Insert
  <2>2. c = [cache |-> c.cache, cex |-> c.cex, table |-> c.table]
    BY Zenon DEF Truthful
  <2>. HIDE DEF f, t, d
  <2>3. d = [cache |-> c.cache, cex |-> f, table |-> t]
    BY <2>1, <2>2, Zenon
  <2>4. QED
    BY Zenon, <2>3 DEF f, t
<1>2. /\ d.cache = c.cache /\ d.table = c.table \cup found
      /\ d.cex = [k \in DOMAIN c.cex \cup {Key(q)} |-> IF k = Key(q) THEN found ELSE c.cex[k]]
      /\ d = [cache |-> d.cache, cex |-> d.cex, table |-> d.table]
  BY <1>1
<1>3. /\ \A k \in DOMAIN c.cex : FoundFor(c.cex[k], k)
      /\ c.table \subseteq Assignments
      /\ \A e \in DOMAIN c.cache : Says(c.cache[e], Query(e[1], e[2]))
  BY Zenon DEF Truthful, Sound, FoundFor
<1>4. found \subseteq Assignments
  BY Zenon DEF FoundFor, Null, Sat
<1>. HIDE DEF d
<1>5. \A k \in DOMAIN d.cex : FoundFor(d.cex[k], k)
  BY Zenon, <1>2, <1>3
<1>6. Sound(d)
  BY Zenon, <1>2, <1>3, <1>4, <1>5 DEF Sound, FoundFor
<1>7. Truthful(d)
  BY Zenon, <1>2, <1>6 DEF Truthful
<1>8. QED
  BY Zenon, <1>7 DEF d

-----------------------------------------------------------------------------
(* The layers, from the core solver up.  An operation is the set of its      *)
(* outcomes: each keeps the caches truthful, and one that returns true has   *)
(* the right value.                                                          *)

Keeps(o) ==
    /\ o = [status |-> o.status, value |-> o.value, caches |-> o.caches]
    /\ o.status \in {"ok", "timeout", "false", "abort"}
    /\ Truthful(o.caches)

TruthIs(o, q) ==
    /\ Keeps(o) /\ o.status # "abort"
    /\ o.status = "ok" => o.value = Truth(IsValid(q))
TruthRight(outcomes, q) == \A o \in outcomes : TruthIs(o, q)

ValidityIs(value, q) ==
    \/ value = "True" /\ IsValid(q)
    \/ value = "False" /\ IsValid(negateExpr(q))
    \/ value = "Unknown" /\ ~IsValid(q) /\ ~IsValid(negateExpr(q))

\* The validity of a query about constraints that nothing satisfies may abort.
DecidedRightly(o, q) ==
    /\ Keeps(o) /\ (Models(q) # {} => o.status # "abort")
    /\ o.status = "ok" => ValidityIs(o.value, q)
ValidityRight(outcomes, q) == \A o \in outcomes : DecidedRightly(o, q)

FindIs(o, q) ==
    /\ Keeps(o) /\ o.status # "abort"
    /\ o.status = "ok" => FoundFor(o.value, Key(q))
FoundRight(outcomes, q) == \A o \in outcomes : FindIs(o, q)

\* The four ways to return.
LEMMA Returns ==
  ASSUME NEW v, NEW c
  PROVE  /\ Answer(v, c).status = "ok" /\ Answer(v, c).value = v /\ Answer(v, c).caches = c
         /\ Timeout(v, c).status = "timeout" /\ ReturnFalse(v, c).status = "false"
         /\ Abort(v, c).status = "abort"
         /\ Truthful(c) => /\ Keeps(Answer(v, c)) /\ Keeps(Timeout(v, c))
                           /\ Keeps(ReturnFalse(v, c)) /\ Keeps(Abort(v, c))
  BY Zenon DEF Answer, Timeout, ReturnFalse, Abort, Keeps

\* What an answer says, one fact at a time.
LEMMA AnswerStatus == ASSUME NEW v, NEW c PROVE Answer(v, c).status = "ok"
  BY Returns

\* An answer has the value that it was given.
LEMMA AnswerValue == ASSUME NEW v, NEW c PROVE Answer(v, c).value = v
  BY Returns

\* An answer is as truthful as the caches that it leaves.
LEMMA AnswerKeeps == ASSUME NEW v, NEW c, Truthful(c) PROVE Keeps(Answer(v, c))
  BY Zenon, Returns

\* A layer that fails passes the failure on without a value.
LEMMA FailurePassedOn ==
  ASSUME NEW o, Keeps(o)
  PROVE  /\ Keeps([o EXCEPT !.value = Unset])
         /\ [o EXCEPT !.value = Unset].status = o.status
<1>1. [o EXCEPT !.value = Unset] =
        [status |-> o.status, value |-> Unset, caches |-> o.caches]
  BY DEF Keeps
<1>2. QED
  BY Zenon, <1>1 DEF Keeps

\* The two answers of a truth query are distinct.
LEMMA TruthValues == Truth(TRUE) = "True" /\ Truth(FALSE) = "False" /\ "True" # "False"
  BY Zenon DEF Truth

\* The core solver's computeTruth says whether the query is valid, or fails.
LEMMA CoreTruth ==
  ASSUME NEW c, Truthful(c), NEW q
  PROVE  TruthRight(core_computeTruth(c, q), q)
<1>1. ASSUME NEW o \in core_computeTruth(c, q)
      PROVE  TruthIs(o, q)
  <2>1. CASE o = Timeout(Unset, c)
    BY Zenon, <2>1, Returns DEF TruthIs
  <2>2. CASE o = Answer(Truth(IsValid(q)), c)
    BY <2>2, Returns DEF TruthIs
  <2>3. QED
    BY Zenon, <1>1, <2>1, <2>2 DEF core_computeTruth
<1>2. QED
  BY Zenon, <1>1 DEF TruthRight

\* The core solver's initial values satisfy the constraints, or there are none.
LEMMA CoreFound ==
  ASSUME NEW c, Truthful(c), NEW q
  PROVE  FoundRight(core_computeInitialValues(c, q), q)
<1>1. ASSUME NEW found \in Solutions(q) PROVE FoundFor(found, Key(q))
  <2>1. CASE Sat(Key(q)) = {}
    BY Zenon, <2>1 DEF Solutions, FoundFor
  <2>2. CASE Sat(Key(q)) # {}
    <3>1. Sat(Key(q)) \in SUBSET Assignments
      BY Zenon DEF Sat
    <3>2. Picks(Sat(Key(q))) \subseteq Sat(Key(q))
      BY Zenon, <3>1, ExprAssumption
    <3>3. PICK a \in Sat(Key(q)) : found = {a}
      BY Zenon, <1>1, <2>2, <3>2 DEF Solutions
    <3>4. QED
      BY Zenon, <3>3 DEF FoundFor, Null
  <2>3. QED
    BY Zenon, <2>1, <2>2
<1>2. ASSUME NEW o \in core_computeInitialValues(c, q)
      PROVE  FindIs(o, q)
  <2>1. CASE o = Timeout(Null, c)
    BY Zenon, <2>1, Returns DEF FindIs
  <2>2. CASE \E found \in Solutions(q) : o = Answer(found, c)
    <3>1. PICK found \in Solutions(q) : o = Answer(found, c)
      BY Zenon, <2>2
    <3>2. QED
      BY <3>1, <1>1, Returns DEF FindIs
  <2>3. QED
    BY Zenon, <1>2, <2>1, <2>2 DEF core_computeInitialValues
<1>3. QED
  BY Zenon, <1>2 DEF FoundRight

\* Two truth queries of the core solver decide the validity.
LEMMA CoreValidity ==
  ASSUME NEW c, Truthful(c), NEW q
  PROVE  ValidityRight(core_computeValidity(c, q), q)
<1>1. ASSUME NEW o \in core_computeValidity(c, q)
      PROVE  DecidedRightly(o, q)
  <2>1. PICK t \in core_computeTruth(c, q) :
          o \in IF t.status # "ok" THEN {t}
                ELSE IF t.value = "True" THEN {Answer("True", c)}
                ELSE {IF f.status # "ok" THEN f
                      ELSE Answer(IF f.value = "True" THEN "False" ELSE "Unknown", c) :
                        f \in core_computeTruth(c, negateExpr(q))}
    BY <1>1, Zenon DEF core_computeValidity
  <2>2. TruthIs(t, q)
    BY Zenon, CoreTruth DEF TruthRight
  <2>3. CASE t.status # "ok"
    BY Zenon, <2>1, <2>2, <2>3 DEF TruthIs, DecidedRightly
  <2>4. CASE t.status = "ok" /\ t.value = "True"
    <3>1. o = Answer("True", c)
      BY Zenon, <2>1, <2>4
    <3>2. IsValid(q)
      BY Zenon, <2>2, <2>4 DEF Truth, TruthIs
    <3>3. QED
      BY <3>1, <3>2, Returns DEF ValidityIs, DecidedRightly
  <2>5. CASE t.status = "ok" /\ t.value # "True"
    <3>1. ~IsValid(q)
      BY Zenon, <2>2, <2>5 DEF Truth, TruthIs
    <3>2. PICK f \in core_computeTruth(c, negateExpr(q)) :
            o = IF f.status # "ok" THEN f
                ELSE Answer(IF f.value = "True" THEN "False" ELSE "Unknown", c)
      BY Zenon, <2>1, <2>5
    <3>3. TruthIs(f, negateExpr(q))
      BY Zenon, CoreTruth DEF TruthRight
    <3>4. CASE f.status # "ok"
      BY Zenon, <3>2, <3>3, <3>4 DEF TruthIs, DecidedRightly
    <3>5. CASE f.status = "ok" /\ IsValid(negateExpr(q))
      <4>1. o = Answer("False", c)
        BY Zenon, <3>2, <3>3, <3>5 DEF Truth, TruthIs
      <4>2. QED
        BY <4>1, <3>5, Returns DEF ValidityIs, DecidedRightly
    <3>6. CASE f.status = "ok" /\ ~IsValid(negateExpr(q))
      <4>1. o = Answer("Unknown", c)
        BY Zenon, <3>2, <3>3, <3>6 DEF Truth, TruthIs
      <4>2. QED
        BY <4>1, <3>1, <3>6, Returns DEF ValidityIs, DecidedRightly
    <3>7. QED
      BY Zenon, <3>4, <3>5, <3>6
  <2>6. QED
    BY Zenon, <2>3, <2>4, <2>5
<1>2. QED
  BY Zenon, <1>1 DEF ValidityRight

\* When one side of a query is known to be possible, asking for the other side
\* decides the query.
LEMMA EitherRight ==
  ASSUME NEW q, q.expr \in Exprs, NEW outcomes, NEW c
  PROVE  /\ TruthRight(outcomes, q) /\ ~IsValid(negateExpr(q))
              => ValidityRight(Either(outcomes, "True", c), q)
         /\ TruthRight(outcomes, negateExpr(q)) /\ ~IsValid(q)
              => ValidityRight(Either(outcomes, "False", c), q)
<1>1. ASSUME NEW certain, NEW p, TruthRight(outcomes, p), NEW o \in Either(outcomes, certain, c)
      PROVE  /\ Keeps(o) /\ o.status # "abort"
             /\ o.status = "ok" => \/ o.value = certain /\ IsValid(p)
                                   \/ o.value = "Unknown" /\ ~IsValid(p)
  <2>1. PICK r \in outcomes :
          o = IF r.status # "ok" THEN r
              ELSE Answer(IF r.value = "True" THEN certain ELSE "Unknown", r.caches)
    BY Zenon, <1>1 DEF Either
  <2>2. TruthIs(r, p) /\ Truthful(r.caches)
    BY Zenon, <1>1 DEF TruthRight, TruthIs, Keeps
  <2>3. CASE r.status # "ok"
    BY Zenon, <2>1, <2>2, <2>3 DEF TruthIs
  <2>4. CASE r.status = "ok" /\ IsValid(p)
    <3>1. o = Answer(certain, r.caches)
      BY Zenon, <2>1, <2>2, <2>4 DEF Truth, TruthIs
    <3>2. QED
      BY <3>1, <2>2, <2>4, Returns
  <2>5. CASE r.status = "ok" /\ ~IsValid(p)
    <3>1. o = Answer("Unknown", r.caches)
      BY Zenon, <2>1, <2>2, <2>5 DEF Truth, TruthIs
    <3>2. QED
      BY <3>1, <2>2, <2>5, Returns
  <2>6. QED
    BY Zenon, <2>3, <2>4, <2>5
<1>2. QED
  BY <1>1, Zenon DEF ValidityRight, DecidedRightly, ValidityIs

-----------------------------------------------------------------------------
(* StagedSolverImpl over the fast solver *)

\* What IncompleteSolver makes of two partial answers is so, or it is nothing.
LEMMA IncompleteRight ==
  ASSUME NEW q, NEW pv \in incomplete_computeValidity(q)
  PROVE  \/ pv = "MustBeTrue" /\ IsValid(q)
         \/ pv = "MustBeFalse" /\ IsValid(negateExpr(q))
         \/ pv = "TrueOrFalse" /\ ~IsValid(q) /\ ~IsValid(negateExpr(q))
         \/ pv = "MayBeTrue" /\ ~IsValid(negateExpr(q))
         \/ pv = "MayBeFalse" /\ ~IsValid(q)
         \/ pv = "None"
<1>1. PICK t \in primary_computeTruth(q), f \in primary_computeTruth(negateExpr(q)) :
        pv = CASE t = "MustBeTrue" -> "MustBeTrue"
               [] t # "MustBeTrue" /\ f = "MustBeTrue" -> "MustBeFalse"
               [] t = "MayBeFalse" /\ f = "MayBeFalse" -> "TrueOrFalse"
               [] t = "MayBeFalse" /\ f = "None" -> "MayBeFalse"
               [] t = "None" /\ f = "MayBeFalse" -> "MayBeTrue"
               [] OTHER -> "None"
  BY DEF incomplete_computeValidity
<1>2. /\ t = "None" \/ (t = "MustBeTrue" /\ IsValid(q)) \/ (t = "MayBeFalse" /\ ~IsValid(q))
      /\ \/ f = "None"
         \/ f = "MustBeTrue" /\ IsValid(negateExpr(q))
         \/ f = "MayBeFalse" /\ ~IsValid(negateExpr(q))
  BY Zenon, <1>1 DEF primary_computeTruth
<1>3. QED
  BY Zenon, <1>1, <1>2

\* A definite answer of the fast solver, or else the core solver's, is right.
LEMMA StagedTruth ==
  ASSUME NEW c, Truthful(c), NEW q
  PROVE  TruthRight(staged_computeTruth(c, q), q)
<1>1. ASSUME NEW o \in staged_computeTruth(c, q)
      PROVE  TruthIs(o, q)
  <2>1. PICK t \in primary_computeTruth(q) :
          o \in IF t = "None" THEN core_computeTruth(c, q)
                ELSE {Answer(Truth(t = "MustBeTrue"), c)}
    BY <1>1, Zenon DEF staged_computeTruth
  <2>2. CASE t = "None"
    BY Zenon, <2>1, <2>2, CoreTruth DEF TruthRight
  <2>3. CASE t # "None"
    <3>1. (t = "MustBeTrue") <=> IsValid(q)
      BY Zenon, <2>1, <2>3 DEF primary_computeTruth
    <3>2. o = Answer(Truth(IsValid(q)), c)
      BY Zenon, <2>1, <2>3, <3>1 DEF Truth
    <3>3. QED
      BY <3>2, Returns DEF TruthIs
  <2>4. QED
    BY Zenon, <2>2, <2>3
<1>2. QED
  BY Zenon, <1>1 DEF TruthRight

\* Likewise for the validity, which the core solver may have to complete.
LEMMA StagedValidity ==
  ASSUME NEW c, Truthful(c), NEW q, q.expr \in Exprs
  PROVE  ValidityRight(staged_computeValidity(c, q), q)
<1>1. ASSUME NEW o \in staged_computeValidity(c, q)
      PROVE  DecidedRightly(o, q)
  <2>1. PICK pv \in incomplete_computeValidity(q) :
          o \in CASE pv = "MustBeTrue" -> {Answer("True", c)}
                  [] pv = "MustBeFalse" -> {Answer("False", c)}
                  [] pv = "TrueOrFalse" -> {Answer("Unknown", c)}
                  [] pv = "MayBeTrue" -> Either(core_computeTruth(c, q), "True", c)
                  [] pv = "MayBeFalse" -> Either(core_computeTruth(c, negateExpr(q)), "False", c)
                  [] OTHER -> core_computeValidity(c, q)
    BY <1>1, Zenon DEF staged_computeValidity
  <2>2. CASE pv = "MustBeTrue" /\ IsValid(q)
    BY <2>1, <2>2, Returns DEF ValidityIs, DecidedRightly
  <2>3. CASE pv = "MustBeFalse" /\ IsValid(negateExpr(q))
    BY <2>1, <2>3, Returns DEF ValidityIs, DecidedRightly
  <2>4. CASE pv = "TrueOrFalse" /\ ~IsValid(q) /\ ~IsValid(negateExpr(q))
    BY <2>1, <2>4, Returns DEF ValidityIs, DecidedRightly
  <2>5. CASE pv = "MayBeTrue" /\ ~IsValid(negateExpr(q))
    <3>1. o \in Either(core_computeTruth(c, q), "True", c)
      BY Zenon, <2>1, <2>5
    <3>2. QED
      BY Zenon, <3>1, <2>5, CoreTruth, EitherRight DEF ValidityRight
  <2>6. CASE pv = "MayBeFalse" /\ ~IsValid(q)
    <3>1. o \in Either(core_computeTruth(c, negateExpr(q)), "False", c)
      BY Zenon, <2>1, <2>6
    <3>2. QED
      BY Zenon, <3>1, <2>6, CoreTruth, EitherRight DEF ValidityRight
  <2>7. CASE pv = "None"
    <3>1. o \in core_computeValidity(c, q)
      BY Zenon, <2>1, <2>7
    <3>2. QED
      BY Zenon, <3>1, CoreValidity DEF ValidityRight
  <2>8. QED
    BY Zenon, <2>2, <2>3, <2>4, <2>5, <2>6, <2>7, IncompleteRight
<1>2. QED
  BY Zenon, <1>1 DEF ValidityRight

\* What lies below the counterexample cache is right, with or without the fast
\* solver.
LEMMA BelowRight ==
  ASSUME NEW c, Truthful(c), NEW q, q.expr \in Exprs
  PROVE  /\ TruthRight(below_computeTruth(c, q), q)
         /\ ValidityRight(below_computeValidity(c, q), q)
  BY Zenon, CoreTruth, CoreValidity, StagedTruth, StagedValidity
     DEF below_computeTruth, below_computeValidity

-----------------------------------------------------------------------------
(* CexCachingSolver *)

\* A counterexample is missing exactly when the query is valid.
LEMMA NullMeansValid ==
  ASSUME NEW q, q.expr \in Exprs, NEW found, FoundFor(found, Key(q))
  PROVE  (found = Null) <=> IsValid(q)
<1>1. /\ Sat(Key(q)) = {a \in Models(q) : ~Holds(q.expr, a)}
      /\ IsValid(q) <=> \A a \in Models(q) : Holds(q.expr, a)
  BY Zenon, QueryFacts
<1>2. (found = Null) <=> Sat(Key(q)) = {}
  BY Zenon DEF FoundFor, Null
<1>3. QED
  BY Zenon, <1>1, <1>2

\* An assignment found in the counterexample cache, by any of its searches,
\* satisfies the key; the entry without one says that nothing does.
LEMMA LookupRight ==
  ASSUME NEW c, Truthful(c), NEW q, q.expr \in Exprs, NEW found \in lookupAssignment(c, q)
  PROVE  FoundFor(found, Key(q))
<1>1. CASE Neg(q.expr) = ExprFalse
  <2>1. found = Null
    BY Zenon, <1>1 DEF lookupAssignment
  <2>2. Sat(Key(q)) = {}
    BY Zenon, <1>1, QueryFacts
  <2>3. QED
    BY Zenon, <2>1, <2>2 DEF FoundFor
<1>2. CASE Neg(q.expr) # ExprFalse
  BY Zenon, <1>2, SearchIsRight DEF lookupAssignment
<1>3. QED
  BY Zenon, <1>1, <1>2

\* getAssignment gives an assignment of the key, cached or computed, and the
\* cache stays truthful.
LEMMA AssignmentRight ==
  ASSUME NEW c, Truthful(c), NEW q, q.expr \in Exprs
  PROVE  FoundRight(getAssignment(c, q), q)
<1>1. ASSUME NEW o \in getAssignment(c, q) PROVE FindIs(o, q)
  <2>1. CASE lookupAssignment(c, q) # {}
    <3>1. PICK found \in lookupAssignment(c, q) :
            o = IF found = Null THEN ReturnFalse(Null, c) ELSE Answer(found, c)
      BY Zenon, <1>1, <2>1 DEF getAssignment
    <3>2. FoundFor(found, Key(q))
      BY Zenon, LookupRight
    <3>3. QED
      BY <3>1, <3>2, Returns DEF FindIs
  <2>2. CASE lookupAssignment(c, q) = {}
    <3>1. PICK r \in core_computeInitialValues(c, q) :
            o = IF r.status # "ok" THEN r ELSE Answer(r.value, Insert(c, q, r.value))
      BY Zenon, <1>1, <2>2 DEF getAssignment
    <3>2. FindIs(r, q)
      BY Zenon, CoreFound DEF FoundRight
    <3>3. CASE r.status # "ok"
      BY Zenon, <3>1, <3>2, <3>3
    <3>4. CASE r.status = "ok"
      <4>1. FoundFor(r.value, Key(q)) /\ o = Answer(r.value, Insert(c, q, r.value))
        BY Zenon, <3>1, <3>2, <3>4 DEF FindIs
      <4>2. Truthful(Insert(c, q, r.value))
        BY Zenon, <4>1, InsertIsTruthful
      <4>3. QED
        BY <4>1, <4>2, Returns DEF FindIs
    <3>5. QED
      BY Zenon, <3>3, <3>4
  <2>3. QED
    BY Zenon, <2>1, <2>2
<1>2. QED
  BY Zenon, <1>1 DEF FoundRight

\* A counterexample, or that there is none, decides one side of the validity.
LEMMA DecidedRight ==
  ASSUME NEW p, p.expr \in Exprs, NEW outcomes, FoundRight(outcomes, p), NEW certain,
         NEW o \in Decided(outcomes, certain)
  PROVE  /\ Keeps(o) /\ o.status # "abort"
         /\ o.status = "ok" => \/ o.value = certain /\ IsValid(p)
                               \/ o.value = "Unknown" /\ ~IsValid(p)
<1>1. PICK r \in outcomes :
        o = IF r.status # "ok" THEN [r EXCEPT !.value = Unset]
            ELSE Answer(IF r.value = Null THEN certain ELSE "Unknown", r.caches)
  BY Zenon DEF Decided
<1>2. FindIs(r, p) /\ Truthful(r.caches)
  BY Zenon DEF FoundRight, FindIs, Keeps
<1>3. CASE r.status # "ok"
  BY Zenon, <1>1, <1>2, <1>3, FailurePassedOn DEF FindIs
<1>4. CASE r.status = "ok" /\ IsValid(p)
  <2>1. r.value = Null
    BY Zenon, <1>2, <1>4, NullMeansValid DEF FindIs
  <2>2. o = Answer(certain, r.caches)
    BY Zenon, <1>1, <1>4, <2>1
  <2>. DEFINE x == Answer(certain, r.caches)
  <2>3. x.status = "ok" /\ x.value = certain /\ Keeps(x)
    BY Zenon, <1>2, AnswerStatus, AnswerValue, AnswerKeeps
  <2>. HIDE DEF x
  <2>4. x.status # "abort" /\ o = x
    BY Zenon, <2>2, <2>3 DEF x
  <2>5. QED
    BY Zenon, <2>3, <2>4, <1>4
<1>5. CASE r.status = "ok" /\ ~IsValid(p)
  <2>1. r.value # Null
    BY Zenon, <1>2, <1>5, NullMeansValid DEF FindIs
  <2>2. o = Answer("Unknown", r.caches)
    BY Zenon, <1>1, <1>5, <2>1
  <2>. DEFINE x == Answer("Unknown", r.caches)
  <2>3. x.status = "ok" /\ x.value = "Unknown" /\ Keeps(x)
    BY Zenon, <1>2, AnswerStatus, AnswerValue, AnswerKeeps
  <2>. HIDE DEF x
  <2>4. x.status # "abort" /\ o = x
    BY Zenon, <2>2, <2>3 DEF x
  <2>5. QED
    BY Zenon, <2>3, <2>4, <1>5
<1>6. QED
  BY Zenon, <1>3, <1>4, <1>5

\* CexCachingSolver::computeTruth is right.
LEMMA CexTruth ==
  ASSUME NEW c, Truthful(c), NEW q, q.expr \in Exprs
  PROVE  TruthRight(cex_computeTruth(c, q), q)
<1>1. ASSUME NEW r \in getAssignment(c, q),
             NEW o, o = IF r.status # "ok" THEN [r EXCEPT !.value = Unset]
                        ELSE Answer(Truth(r.value = Null), r.caches)
      PROVE  TruthIs(o, q)
  <2>1. FindIs(r, q) /\ Truthful(r.caches)
    BY Zenon, AssignmentRight DEF FoundRight, FindIs, Keeps
  <2>2. CASE r.status # "ok"
    BY Zenon, <1>1, <2>1, <2>2, FailurePassedOn DEF FindIs, TruthIs
  <2>3. CASE r.status = "ok"
    <3>1. (r.value = Null) <=> IsValid(q)
      BY Zenon, <2>1, <2>3, NullMeansValid DEF FindIs
    <3>2. o = Answer(Truth(IsValid(q)), r.caches)
      BY Zenon, <1>1, <2>3, <3>1 DEF Truth
    <3>3. QED
      BY <3>2, <2>1, Returns DEF TruthIs
  <2>4. QED
    BY Zenon, <2>2, <2>3
<1>2. ASSUME NEW o \in cex_computeTruth(c, q) PROVE TruthIs(o, q)
  <2>1. CASE o = ReturnFalse(Unset, c)
    BY Zenon, <2>1, Returns DEF TruthIs
  <2>2. CASE o # ReturnFalse(Unset, c)
    <3>1. PICK r \in getAssignment(c, q) :
            o = IF r.status # "ok" THEN [r EXCEPT !.value = Unset]
                ELSE Answer(Truth(r.value = Null), r.caches)
      BY <1>2, <2>2, Zenon DEF cex_computeTruth
    <3>2. QED
      BY Zenon, <1>1, <3>1
  <2>3. QED
    BY Zenon, <2>1, <2>2
<1>3. QED
  BY Zenon, <1>2 DEF TruthRight

\* CexCachingSolver::computeValidity is right.
LEMMA CexValidity ==
  ASSUME NEW c, Truthful(c), NEW q, q.expr \in Exprs
  PROVE  ValidityRight(cex_computeValidity(c, q), q)
<1>1. ASSUME NEW o \in cex_computeValidity(c, q) PROVE DecidedRightly(o, q)
  <2>1. PICK r \in getAssignment(c, withFalse(q)) :
          o \in CASE r.status # "ok" -> {[r EXCEPT !.value = Unset]}
                  [] r.status = "ok" /\ r.value = Null -> {Abort(Unset, r.caches)}
                  [] OTHER -> IF \A a \in r.value : Holds(q.expr, a)
                              THEN Decided(getAssignment(r.caches, q), "True")
                              ELSE Decided(getAssignment(r.caches, negateExpr(q)), "False")
    BY <1>1, Zenon DEF cex_computeValidity
  <2>2. FindIs(r, withFalse(q)) /\ Truthful(r.caches)
    BY Zenon, QueryFacts, AssignmentRight DEF FoundRight, FindIs, Keeps
  <2>3. /\ Sat(Key(withFalse(q))) = Models(q)
        /\ IsValid(q) <=> \A a \in Models(q) : Holds(q.expr, a)
        /\ IsValid(negateExpr(q)) <=> \A a \in Models(q) : ~Holds(q.expr, a)
        /\ negateExpr(q).expr \in Exprs
    BY Zenon, QueryFacts
  <2>4. CASE r.status # "ok"
    <3>1. o = [r EXCEPT !.value = Unset]
      BY Zenon, <2>1, <2>4
    <3>2. Keeps(o) /\ o.status = r.status
      BY Zenon, <3>1, <2>2, FailurePassedOn DEF FindIs
    <3>3. QED
      BY Zenon, <2>2, <2>4, <3>2 DEF FindIs, DecidedRightly
  <2>5. CASE r.status = "ok" /\ r.value = Null
    <3>1. Models(q) = {} /\ o = Abort(Unset, r.caches)
      BY Zenon, <2>1, <2>2, <2>3, <2>5 DEF FindIs, FoundFor
    <3>2. QED
      BY Zenon, <3>1, <2>2, Returns DEF DecidedRightly
  <2>6. CASE r.status = "ok" /\ r.value # Null
    <3>1. PICK a \in Models(q) : r.value = {a}
      BY Zenon, <2>2, <2>3, <2>6 DEF FindIs, FoundFor
    <3>2. CASE Holds(q.expr, a)
      <4>1. o \in Decided(getAssignment(r.caches, q), "True")
        BY Zenon, <2>1, <2>6, <3>1, <3>2
      <4>2. ~IsValid(negateExpr(q))
        BY Zenon, <2>3, <3>1, <3>2
      <4>3. FoundRight(getAssignment(r.caches, q), q)
        BY Zenon, <2>2, AssignmentRight
      <4>4. QED
        BY Zenon, <4>1, <4>2, <4>3, DecidedRight DEF DecidedRightly, ValidityIs
    <3>3. CASE ~Holds(q.expr, a)
      <4>1. o \in Decided(getAssignment(r.caches, negateExpr(q)), "False")
        BY Zenon, <2>1, <2>6, <3>1, <3>3
      <4>2. ~IsValid(q)
        BY Zenon, <2>3, <3>1, <3>3
      <4>3. FoundRight(getAssignment(r.caches, negateExpr(q)), negateExpr(q))
        BY Zenon, <2>2, <2>3, AssignmentRight
      <4>4. QED
        BY Zenon, <2>3, <4>1, <4>2, <4>3, DecidedRight DEF DecidedRightly, ValidityIs
    <3>4. QED
      BY Zenon, <3>2, <3>3
  <2>7. QED
    BY Zenon, <2>4, <2>5, <2>6
<1>2. QED
  BY Zenon, <1>1 DEF ValidityRight

\* The value of an expression is its value in a model of the constraints.
ValueIs(o, q) ==
    /\ Keeps(o) /\ (Models(q) # {} => o.status # "abort")
    /\ o.status = "ok" => \E a \in Models(q) : o.value = Truth(Holds(q.expr, a))

\* CexCachingSolver::computeValue returns a value that the expression can have.
LEMMA CexValue ==
  ASSUME NEW c, Truthful(c), NEW q, q.expr \in Exprs, NEW o \in cex_computeValue(c, q)
  PROVE  ValueIs(o, q)
<1>1. PICK r \in getAssignment(c, withFalse(q)) :
        o = CASE r.status # "ok" -> [r EXCEPT !.value = Unset]
              [] r.status = "ok" /\ r.value = Null -> Abort(Unset, r.caches)
              [] OTHER -> Answer(Truth(\A a \in r.value : Holds(q.expr, a)), r.caches)
  BY Zenon DEF cex_computeValue
<1>2. FindIs(r, withFalse(q)) /\ Truthful(r.caches)
  BY Zenon, QueryFacts, AssignmentRight DEF FoundRight, FindIs, Keeps
<1>3. Sat(Key(withFalse(q))) = Models(q)
  BY Zenon, QueryFacts
<1>4. CASE r.status # "ok"
  <2>1. o = [r EXCEPT !.value = Unset]
    BY <1>1, <1>4, Zenon
  <2>2. Keeps(o) /\ o.status = r.status
    BY Zenon, <2>1, <1>2, FailurePassedOn DEF FindIs
  <2>3. QED
    BY Zenon, <1>2, <1>4, <2>2 DEF FindIs, ValueIs
<1>5. CASE r.status = "ok" /\ r.value = Null
  <2>1. Models(q) = {} /\ o = Abort(Unset, r.caches)
    BY Zenon, <1>1, <1>2, <1>3, <1>5 DEF FindIs, FoundFor
  <2>2. QED
    BY Zenon, <2>1, <1>2, Returns DEF ValueIs
<1>6. CASE r.status = "ok" /\ r.value # Null
  <2>1. PICK a \in Models(q) : r.value = {a}
    BY Zenon, <1>2, <1>3, <1>6 DEF FindIs, FoundFor
  <2>2. o = Answer(Truth(\A b \in r.value : Holds(q.expr, b)), r.caches)
    BY Zenon, <1>1, <1>6
  <2>3. Truth(\A b \in r.value : Holds(q.expr, b)) = Truth(Holds(q.expr, a))
    BY Zenon, <2>1 DEF Truth
  <2>4. o = Answer(Truth(Holds(q.expr, a)), r.caches)
    BY <2>2, <2>3, Zenon
  <2>5. Keeps(o) /\ o.status = "ok" /\ o.value = Truth(Holds(q.expr, a))
    <3>1. Answer(Truth(Holds(q.expr, a)), r.caches).status = "ok"
      BY Zenon, AnswerStatus
    <3>2. Answer(Truth(Holds(q.expr, a)), r.caches).value = Truth(Holds(q.expr, a))
      BY Zenon, AnswerValue
    <3>3. Keeps(Answer(Truth(Holds(q.expr, a)), r.caches))
      BY Zenon, <1>2, AnswerKeeps
    <3>4. QED
      BY Zenon, <2>4, <3>1, <3>2, <3>3
  <2>6. QED
    BY Zenon, <2>1, <2>5 DEF ValueIs
<1>7. QED
  BY Zenon, <1>4, <1>5, <1>6

\* The core solver's computeValue returns a value that the expression can have.
LEMMA CoreValue ==
  ASSUME NEW c, Truthful(c), NEW q, q.expr \in Exprs, NEW o \in core_computeValue(c, q)
  PROVE  ValueIs(o, q)
<1>0. ASSUME Models(q) = {}, o = Abort(Unset, c) PROVE ValueIs(o, q)
  BY Zenon, <1>0, Returns DEF ValueIs
<1>1. CASE o = Timeout(Unset, c)
  BY Zenon, <1>1, Returns DEF ValueIs
<1>2. CASE \E a \in Picks(Models(q)) : o = Answer(Truth(Holds(q.expr, a)), c)
  <2>1. PICK a \in Picks(Models(q)) : o = Answer(Truth(Holds(q.expr, a)), c)
    BY Zenon, <1>2
  <2>2. Models(q) \in SUBSET Assignments
    BY Zenon DEF Models, Sat
  <2>3. a \in Models(q)
    BY Zenon, <2>1, <2>2, ExprAssumption
  <2>4. QED
    BY <2>1, <2>3, Returns DEF ValueIs
<1>3. QED
  BY Zenon, <1>0, <1>1, <1>2 DEF core_computeValue

\* What lies below the validity cache is right, whichever layers the command line
\* puts there.
LEMMA NextRight ==
  ASSUME NEW c, Truthful(c), NEW q, q.expr \in Exprs
  PROVE  /\ TruthRight(next_computeTruth(c, q), q)
         /\ ValidityRight(next_computeValidity(c, q), q)
         /\ \A o \in next_computeValue(c, q) : ValueIs(o, q)
         /\ FoundRight(next_computeInitialValues(c, q), q)
<1>1. TruthRight(next_computeTruth(c, q), q)
  BY Zenon, BelowRight, CexTruth DEF next_computeTruth
<1>2. ValidityRight(next_computeValidity(c, q), q)
  BY Zenon, BelowRight, CexValidity DEF next_computeValidity
<1>3. \A o \in next_computeValue(c, q) : ValueIs(o, q)
  BY Zenon, CoreValue, CexValue DEF next_computeValue
<1>4. FoundRight(next_computeInitialValues(c, q), q)
  BY Zenon, CoreFound, AssignmentRight DEF next_computeInitialValues
<1>5. QED
  BY Zenon, <1>1, <1>2, <1>3, <1>4

-----------------------------------------------------------------------------
(* CachingSolver *)

\* What is entered for the canonical form of a query, and what is read back for
\* the query, say the same.
LEMMA CanonicalSays ==
  ASSUME NEW q, q.expr \in Exprs, NEW pv
  PROVE  /\ Says(Canonical(q, pv), Query(CacheEntry(q)[1], CacheEntry(q)[2])) <=> Says(pv, q)
         /\ Says(pv, Query(CacheEntry(q)[1], CacheEntry(q)[2])) <=> Says(Canonical(q, pv), q)
<1>. DEFINE entry == Query(CacheEntry(q)[1], CacheEntry(q)[2])
<1>1. CASE negationUsed(q)
  <2>1. entry = negateExpr(q) /\ Canonical(q, pv) = negatePartialValidity(pv)
    BY Zenon, <1>1 DEF CacheEntry, negateExpr, Canonical
  <2>2. /\ IsValid(negateExpr(negateExpr(q))) <=> IsValid(q)
    <3>1. IsValid(negateExpr(negateExpr(q))) <=> \A a \in Models(negateExpr(q)) : ~Holds(Neg(q.expr), a)
      BY QueryFacts
    <3>2. Models(negateExpr(q)) = Models(q) /\ Models(q) \subseteq Assignments
      BY Zenon, QueryFacts
    <3>3. \A a \in Assignments : Holds(Neg(q.expr), a) <=> ~Holds(q.expr, a)
      BY Zenon, ExprAssumption
    <3>4. QED
      BY Zenon, <3>1, <3>2, <3>3 DEF IsValid
  <2>3. Says(negatePartialValidity(pv), negateExpr(q)) <=> Says(pv, q)
    BY Zenon, <2>2 DEF Says, negatePartialValidity
  <2>4. Says(pv, negateExpr(q)) <=> Says(negatePartialValidity(pv), q)
    BY Zenon, <2>2 DEF Says, negatePartialValidity
  <2>5. QED
    BY Zenon, <2>1, <2>3, <2>4
<1>2. CASE ~negationUsed(q)
  <2>1. /\ Canonical(q, pv) = pv
        /\ entry.constraints = q.constraints /\ entry.expr = q.expr
        /\ negateExpr(entry) = negateExpr(q)
    BY Zenon, <1>2 DEF CacheEntry, Canonical, Query, negateExpr
  <2>2. (IsValid(entry) <=> IsValid(q)) /\ (IsValid(negateExpr(entry)) <=> IsValid(negateExpr(q)))
    <3>. HIDE DEF entry
    <3>1. QED
      BY Zenon, <2>1 DEF IsValid, Models
  <2>. HIDE DEF entry
  <2>3. Says(pv, entry) <=> Says(pv, q)
    BY Zenon, <2>2 DEF Says
  <2>4. QED
    BY Zenon, <2>1, <2>3 DEF entry
<1>3. QED
  BY Zenon, <1>1, <1>2

\* What the validity cache says of a query, negated back where it was stored
\* negated, is right.
LEMMA CacheLookupRight ==
  ASSUME NEW c, Truthful(c), NEW q, q.expr \in Exprs, cacheLookup(c, q) # "None"
  PROVE  Says(cacheLookup(c, q), q)
<1>1. CacheEntry(q) \in DOMAIN c.cache /\ cacheLookup(c, q) = Canonical(q, c.cache[CacheEntry(q)])
  BY Zenon DEF cacheLookup
<1>2. Says(c.cache[CacheEntry(q)], Query(CacheEntry(q)[1], CacheEntry(q)[2]))
  BY Zenon, <1>1 DEF Truthful, Sound
<1>3. QED
  BY Zenon, <1>1, <1>2, CanonicalSays

\* An insertion of a right answer keeps the validity cache truthful.
LEMMA CacheInsertIsTruthful ==
  ASSUME NEW c, Truthful(c), NEW q, q.expr \in Exprs, NEW pv, Says(pv, q)
  PROVE  Truthful(cacheInsert(c, q, pv))
<1>. DEFINE f == [e \in DOMAIN c.cache \cup {CacheEntry(q)} |->
                    IF e \in DOMAIN c.cache THEN c.cache[e] ELSE Canonical(q, pv)]
            d == cacheInsert(c, q, pv)
<1>1. c = [cache |-> c.cache, cex |-> c.cex, table |-> c.table]
  BY Zenon DEF Truthful
<1>2. d = [cache |-> f, cex |-> c.cex, table |-> c.table]
  <2>1. d = [c EXCEPT !.cache = f]
    BY Zenon DEF cacheInsert
  <2>. HIDE DEF f, d
  <2>2. QED
    BY Zenon, <2>1, <1>1
<1>3. \A e \in DOMAIN f : Says(f[e], Query(e[1], e[2]))
  <2>1. Says(Canonical(q, pv), Query(CacheEntry(q)[1], CacheEntry(q)[2]))
    BY Zenon, CanonicalSays
  <2>2. \A e \in DOMAIN c.cache : Says(c.cache[e], Query(e[1], e[2]))
    BY Zenon DEF Truthful, Sound
  <2>3. QED
    BY Zenon, <2>1, <2>2
<1>. HIDE DEF f, d
<1>4. Sound(d)
  BY Zenon, <1>2, <1>3 DEF Sound, Truthful
<1>5. Truthful(d)
  BY Zenon, <1>2, <1>4 DEF Truthful
<1>6. QED
  BY Zenon, <1>5 DEF d

\* A result is entered when the layer below returned true; what is entered is
\* looked up in result by the value.
LEMMA InsertedKeeps ==
  ASSUME NEW q, q.expr \in Exprs, NEW outcomes, NEW result,
         \A r \in outcomes : /\ Keeps(r)
                             /\ r.status = "ok" => Says(result[r.value], q),
         NEW o \in Inserted(outcomes, q, result)
  PROVE  /\ Keeps(o)
         /\ \E r \in outcomes : o.status = r.status /\ o.value = r.value
<1>1. PICK r \in outcomes :
        o = IF r.status # "ok" THEN r
            ELSE Answer(r.value, cacheInsert(r.caches, q, result[r.value]))
  BY Zenon DEF Inserted
<1>2. Keeps(r) /\ Truthful(r.caches) /\ (r.status = "ok" => Says(result[r.value], q))
  BY Zenon DEF Keeps
<1>3. CASE r.status # "ok"
  BY Zenon, <1>1, <1>2, <1>3
<1>4. CASE r.status = "ok"
  <2>1. o = Answer(r.value, cacheInsert(r.caches, q, result[r.value]))
    BY Zenon, <1>1, <1>4
  <2>2. Truthful(cacheInsert(r.caches, q, result[r.value]))
    BY Zenon, <1>2, <1>4, CacheInsertIsTruthful
  <2>3. Keeps(o) /\ o.status = r.status /\ o.value = r.value
    <3>. DEFINE x == Answer(r.value, cacheInsert(r.caches, q, result[r.value]))
    <3>1. x.status = "ok" /\ x.value = r.value /\ Keeps(x)
      BY Zenon, <2>2, AnswerStatus, AnswerValue, AnswerKeeps
    <3>. HIDE DEF x
    <3>2. o = x
      BY Zenon, <2>1 DEF x
    <3>3. QED
      BY Zenon, <1>4, <3>1, <3>2
  <2>4. QED
    BY Zenon, <2>3
<1>5. QED
  BY Zenon, <1>3, <1>4

\* Inserting the answer of a validity query changes no answer.
LEMMA InsertedValidity ==
  ASSUME NEW q, q.expr \in Exprs, NEW outcomes, ValidityRight(outcomes, q)
  PROVE  ValidityRight(Inserted(outcomes, q, FullValidity), q)
<1>1. ASSUME NEW r \in outcomes, r.status = "ok" PROVE Says(FullValidity[r.value], q)
  <2>1. ValidityIs(r.value, q)
    BY Zenon, <1>1 DEF ValidityRight, DecidedRightly
  <2>2. /\ FullValidity["True"] = "MustBeTrue" /\ FullValidity["False"] = "MustBeFalse"
        /\ FullValidity["Unknown"] = "TrueOrFalse"
    BY Zenon DEF FullValidity
  <2>3. QED
    BY Zenon, <2>1, <2>2 DEF ValidityIs, Says
<1>2. \A r \in outcomes : Keeps(r)
  BY Zenon DEF ValidityRight, DecidedRightly
<1>3. ASSUME NEW o \in Inserted(outcomes, q, FullValidity) PROVE DecidedRightly(o, q)
  <2>1. Keeps(o) /\ \E r \in outcomes : o.status = r.status /\ o.value = r.value
    BY <1>1, <1>2, InsertedKeeps
  <2>2. PICK r \in outcomes : o.status = r.status /\ o.value = r.value
    BY Zenon, <2>1
  <2>3. DecidedRightly(r, q)
    BY Zenon DEF ValidityRight
  <2>4. QED
    BY Zenon, <2>1, <2>2, <2>3 DEF DecidedRightly
<1>4. QED
  BY Zenon, <1>3 DEF ValidityRight

\* CachingSolver::computeValidity is right, also where it narrows a partial
\* answer down.
LEMMA CachingValidity ==
  ASSUME NEW c, Truthful(c), NEW q, q.expr \in Exprs
  PROVE  ValidityRight(caching_computeValidity(c, q), q)
<1>. DEFINE known == cacheLookup(c, q)
<1>1. known # "None" => Says(known, q)
  BY Zenon, CacheLookupRight
<1>2. negateExpr(q).expr \in Exprs
  BY Zenon, QueryFacts
<1>3. ASSUME NEW v, ValidityIs(v, q) PROVE ValidityRight({Answer(v, c)}, q)
  BY <1>3, Returns DEF ValidityRight, DecidedRightly
<1>4. CASE known = "MustBeTrue"
  <2>1. caching_computeValidity(c, q) = {Answer("True", c)}
    BY Zenon, <1>4 DEF caching_computeValidity
  <2>2. ValidityIs("True", q)
    BY Zenon, <1>1, <1>4 DEF Says, ValidityIs
  <2>3. QED
    BY Zenon, <2>1, <2>2, <1>3
<1>5. CASE known = "MustBeFalse"
  <2>1. caching_computeValidity(c, q) = {Answer("False", c)}
    BY Zenon, <1>5 DEF caching_computeValidity
  <2>2. ValidityIs("False", q)
    BY Zenon, <1>1, <1>5 DEF Says, ValidityIs
  <2>3. QED
    BY Zenon, <2>1, <2>2, <1>3
<1>6. CASE known = "TrueOrFalse"
  <2>1. caching_computeValidity(c, q) = {Answer("Unknown", c)}
    BY Zenon, <1>6 DEF caching_computeValidity
  <2>2. ValidityIs("Unknown", q)
    BY Zenon, <1>1, <1>6 DEF Says, ValidityIs
  <2>3. QED
    BY Zenon, <2>1, <2>2, <1>3
<1>7. CASE known = "MayBeTrue"
  <2>1. caching_computeValidity(c, q) =
          Inserted(Either(next_computeTruth(c, q), "True", c), q, FullValidity)
    BY Zenon, <1>7 DEF caching_computeValidity
  <2>2. ~IsValid(negateExpr(q))
    BY Zenon, <1>1, <1>7 DEF Says
  <2>3. TruthRight(next_computeTruth(c, q), q)
    BY Zenon, NextRight
  <2>4. ValidityRight(Either(next_computeTruth(c, q), "True", c), q)
    BY Zenon, <2>2, <2>3, EitherRight
  <2>5. QED
    BY Zenon, <2>1, <2>4, InsertedValidity
<1>8. CASE known = "MayBeFalse"
  <2>1. caching_computeValidity(c, q) =
          Inserted(Either(next_computeTruth(c, negateExpr(q)), "False", c), q, FullValidity)
    BY Zenon, <1>8 DEF caching_computeValidity
  <2>2. ~IsValid(q)
    BY Zenon, <1>1, <1>8 DEF Says
  <2>3. TruthRight(next_computeTruth(c, negateExpr(q)), negateExpr(q))
    BY Zenon, <1>2, NextRight
  <2>4. ValidityRight(Either(next_computeTruth(c, negateExpr(q)), "False", c), q)
    BY Zenon, <2>2, <2>3, EitherRight
  <2>5. QED
    BY Zenon, <2>1, <2>4, InsertedValidity
<1>9. CASE known \notin {"MustBeTrue", "MustBeFalse", "TrueOrFalse", "MayBeTrue", "MayBeFalse"}
  <2>1. caching_computeValidity(c, q) = Inserted(next_computeValidity(c, q), q, FullValidity)
    BY Zenon, <1>9 DEF caching_computeValidity
  <2>2. ValidityRight(next_computeValidity(c, q), q)
    BY Zenon, NextRight
  <2>3. QED
    BY Zenon, <2>1, <2>2, InsertedValidity
<1>10. QED
  BY Zenon, <1>4, <1>5, <1>6, <1>7, <1>8, <1>9

\* An entry that says that a query must be false is taken to say that it is not
\* valid: so it is when the constraints can be satisfied.
LEMMA CachingTruth ==
  ASSUME NEW c, Truthful(c), NEW q, q.expr \in Exprs
  PROVE  /\ \A o \in caching_computeTruth(c, q) : Keeps(o)
         /\ Models(q) # {} => TruthRight(caching_computeTruth(c, q), q)
<1>. DEFINE known == cacheLookup(c, q)
            result == [True |-> "MustBeTrue",
                       False |-> IF known = "MayBeTrue" THEN "TrueOrFalse" ELSE "MayBeFalse"]
<1>1. known # "None" => Says(known, q)
  BY Zenon, CacheLookupRight
<1>2. CASE known \notin {"None", "MayBeTrue"}
  <2>1. caching_computeTruth(c, q) = {Answer(Truth(known = "MustBeTrue"), c)}
    BY Zenon, <1>2 DEF caching_computeTruth
  <2>2. ASSUME Models(q) # {} PROVE (known = "MustBeTrue") <=> IsValid(q)
    <3>1. IsValid(negateExpr(q)) => ~IsValid(q)
      BY Zenon, <2>2, QueryFacts
    <3>2. QED
      BY Zenon, <1>1, <1>2, <3>1 DEF Says
  <2>3. Models(q) # {} => Truth(known = "MustBeTrue") = Truth(IsValid(q))
    BY Zenon, <2>2 DEF Truth
  <2>. HIDE DEF known
  <2>4. QED
    BY <2>1, <2>3, Returns DEF TruthRight, TruthIs
<1>3. CASE known \in {"None", "MayBeTrue"}
  <2>1. caching_computeTruth(c, q) = Inserted(next_computeTruth(c, q), q, result)
    BY Zenon, <1>3 DEF caching_computeTruth
  <2>2. TruthRight(next_computeTruth(c, q), q)
    BY Zenon, NextRight
  <2>3. ASSUME NEW r \in next_computeTruth(c, q), r.status = "ok"
        PROVE  Says(result[r.value], q)
    <3>1. r.value = Truth(IsValid(q))
      BY Zenon, <2>2, <2>3 DEF TruthRight, TruthIs
    <3>2. /\ result["True"] = "MustBeTrue"
          /\ result["False"] = IF known = "MayBeTrue" THEN "TrueOrFalse" ELSE "MayBeFalse"
      BY Zenon
    <3>. HIDE DEF known, result
    <3>3. QED
      BY Zenon, <1>1, <1>3, <3>1, <3>2 DEF Truth, Says
  <2>. HIDE DEF known, result
  <2>4. \A r \in next_computeTruth(c, q) : Keeps(r)
    BY Zenon, <2>2 DEF TruthRight, TruthIs
  <2>5. ASSUME NEW o \in Inserted(next_computeTruth(c, q), q, result) PROVE TruthIs(o, q)
    <3>1. Keeps(o) /\ \E r \in next_computeTruth(c, q) : o.status = r.status /\ o.value = r.value
      BY <2>3, <2>4, InsertedKeeps
    <3>2. PICK r \in next_computeTruth(c, q) : o.status = r.status /\ o.value = r.value
      BY Zenon, <3>1
    <3>3. TruthIs(r, q)
      BY Zenon, <2>2 DEF TruthRight
    <3>4. QED
      BY Zenon, <3>1, <3>2, <3>3 DEF TruthIs
  <2>6. QED
    BY Zenon, <2>1, <2>5 DEF TruthRight, TruthIs
<1>4. QED
  BY Zenon, <1>2, <1>3

\* The chain below the independence solver keeps the caches truthful, and is
\* right about truth where the constraints can be satisfied.
LEMMA ChainRight ==
  ASSUME NEW c, Truthful(c), NEW q, q.expr \in Exprs
  PROVE  /\ \A o \in chain_computeTruth(c, q) : Keeps(o)
         /\ Models(q) # {} => TruthRight(chain_computeTruth(c, q), q)
         /\ ValidityRight(chain_computeValidity(c, q), q)
<1>1. TruthRight(next_computeTruth(c, q), q) /\ ValidityRight(next_computeValidity(c, q), q)
  BY Zenon, NextRight
<1>2. \A o \in next_computeTruth(c, q) : Keeps(o)
  BY Zenon, <1>1 DEF TruthRight, TruthIs
<1>3. QED
  BY Zenon, <1>1, <1>2, CachingTruth, CachingValidity DEF chain_computeTruth, chain_computeValidity

-----------------------------------------------------------------------------
(* The layers above the caches *)

\* The independence solver passes the expression on.
LEMMA RequiredExpr ==
  ASSUME NEW q
  PROVE  Required(q).expr = q.expr
  BY Zenon DEF Required, Query

\* The comparison with the oracle changes the answer, never the caches.
LEMMA ValidatedKeeps ==
  ASSUME NEW o, Keeps(o), NEW oracle, NEW expected, NEW v \in Validated(o, oracle, expected)
  PROVE  Keeps(v)
<1>1. Truthful(o.caches)
  BY Zenon DEF Keeps
<1>2. v \in {o, Timeout(o.value, o.caches), Abort(o.value, o.caches)}
  BY Zenon DEF Validated
<1>3. QED
  BY <1>1, <1>2, Returns

\* The three computations of the whole chain keep the caches truthful.
LEMMA ComputeKeeps ==
  ASSUME Truthful(caches), NEW q, q.expr \in Exprs
  PROVE  \A o \in computeTruth(q) \cup computeValidity(q) \cup computeValue(q) : Keeps(o)
<1>1. Required(q).expr \in Exprs
  BY Zenon, RequiredExpr
<1>2. ASSUME NEW o \in computeTruth(q) PROVE Keeps(o)
  <2>1. PICK r \in chain_computeTruth(caches, Required(q)) :
          o \in Validated(r, core_computeTruth(caches, q), r.value)
    BY <1>2, Zenon DEF computeTruth
  <2>2. Keeps(r)
    BY Zenon, <1>1, ChainRight
  <2>3. QED
    BY Zenon, <2>1, <2>2, ValidatedKeeps
<1>3. ASSUME NEW o \in computeValidity(q) PROVE Keeps(o)
  <2>1. PICK r \in chain_computeValidity(caches, Required(q)) :
          o \in Validated(r, core_computeValidity(caches, q), r.value)
    BY <1>3, Zenon DEF computeValidity
  <2>2. ValidityRight(chain_computeValidity(caches, Required(q)), Required(q))
    BY Zenon, <1>1, ChainRight
  <2>3. Keeps(r)
    BY Zenon, <2>2 DEF ValidityRight, DecidedRightly
  <2>4. QED
    BY Zenon, <2>1, <2>3, ValidatedKeeps
<1>4. ASSUME NEW o \in computeValue(q) PROVE Keeps(o)
  <2>1. PICK r \in next_computeValue(caches, Required(q)) :
          o \in Validated(r, core_computeTruth(caches, IF r.value = "True" THEN negateExpr(q) ELSE q),
                          "False")
    BY <1>4, Zenon DEF computeValue
  <2>2. ValueIs(r, Required(q))
    BY Zenon, <1>1, NextRight
  <2>3. Keeps(r)
    BY Zenon, <2>2 DEF ValueIs
  <2>4. QED
    BY Zenon, <2>1, <2>3, ValidatedKeeps
<1>5. QED
  BY Zenon, <1>2, <1>3, <1>4

\* Every operation of Solver keeps the caches truthful.
LEMMA OutcomesKeep ==
  ASSUME Truthful(caches), NEW q, q.expr \in Exprs, NEW op, NEW o \in Outcomes(op, q)
  PROVE  Keeps(o)
<1>1. ASSUME NEW outcomes, \A r \in outcomes : Keeps(r), NEW p
      PROVE  /\ \A r \in Fast(p, outcomes) : Keeps(r)
             /\ \A r \in Inverted(outcomes) : Keeps(r)
  <2>1. \A r \in Fast(p, outcomes) : Keeps(r)
    BY <1>1, Returns DEF Fast
  <2>2. ASSUME NEW r \in Inverted(outcomes) PROVE Keeps(r)
    <3>1. PICK s \in outcomes : r = IF s.status # "ok" THEN s
                                    ELSE Answer(Truth(s.value = "False"), s.caches)
      BY Zenon, <2>2 DEF Inverted
    <3>2. Keeps(s) /\ Truthful(s.caches)
      BY Zenon, <1>1 DEF Keeps
    <3>3. QED
      BY Zenon, <3>1, <3>2, Returns
  <2>3. QED
    BY Zenon, <2>1, <2>2
<1>2. ASSUME NEW p, p.expr \in Exprs
      PROVE  /\ \A r \in evaluate(p) : Keeps(r)
             /\ \A r \in mustBeTrue(p) : Keeps(r)
             /\ \A r \in getValue(p) : Keeps(r)
  <2>1. /\ \A r \in computeTruth(p) : Keeps(r)
        /\ \A r \in computeValidity(p) : Keeps(r)
        /\ \A r \in computeValue(p) : Keeps(r)
    BY Zenon, <1>2, ComputeKeeps
  <2>2. \A r \in evaluate(p) : Keeps(r)
    BY <2>1, <1>1, Zenon DEF evaluate
  <2>3. \A r \in mustBeTrue(p) : Keeps(r)
    BY <2>1, <1>1, Zenon DEF mustBeTrue
  <2>4. \A r \in getValue(p) : Keeps(r)
    BY Zenon, <2>1, <1>1 DEF getValue
  <2>5. QED
    BY Zenon, <2>2, <2>3, <2>4
<1>3. negateExpr(q).expr \in Exprs
  BY Zenon, QueryFacts
<1>4. \A r \in mustBeTrue(q) \cup mustBeFalse(q) : Keeps(r)
  BY Zenon, <1>2, <1>3 DEF mustBeFalse
<1>5. \A r \in mayBeTrue(q) \cup mayBeFalse(q) : Keeps(r)
  BY Zenon, <1>1, <1>4 DEF mayBeTrue, mayBeFalse
<1>6. o \in evaluate(q) \cup mustBeTrue(q) \cup mustBeFalse(q) \cup mayBeTrue(q)
           \cup mayBeFalse(q) \cup getValue(q)
  BY Zenon DEF Outcomes
<1>7. QED
  BY Zenon, <1>2, <1>4, <1>5, <1>6

\* So does the computation of initial values, validated or not.
LEMMA InitialValuesKeep ==
  ASSUME Truthful(caches), NEW q, q.expr \in Exprs, NEW p,
         NEW o \in next_computeInitialValues(caches, q)
  PROVE  Keeps(o) /\ \A r \in ValidatedPoint(o, p) : Keeps(r)
<1>1. Keeps(o)
  <2>1. FoundRight(next_computeInitialValues(caches, q), q)
    BY Zenon, NextRight
  <2>2. QED
    BY Zenon, <2>1 DEF FoundRight, FindIs
<1>2. QED
  BY Zenon, <1>1, ValidatedKeeps DEF ValidatedPoint

\* No call makes a cache lie.
LEMMA SolverStepTruthful ==
  ASSUME Truthful(caches), [SolverNext]_solverVars
  PROVE  Truthful(caches')
<1>1. ASSUME NEW q \in Queries, NEW op \in Operations, Ask(op, q) PROVE Truthful(caches')
  <2>1. PICK o \in Outcomes(op, q) : caches' = o.caches
    BY Zenon, <1>1 DEF Ask, Finish
  <2>2. Keeps(o)
    BY Zenon, <2>1, OutcomesKeep, QueriesAssumption
  <2>3. QED
    BY Zenon, <2>1, <2>2 DEF Keeps
<1>2. ASSUME NEW q \in Queries, getInitialValues(q) PROVE Truthful(caches')
  <2>1. CASE UseIndependentSolver
    BY Zenon, <1>2, <2>1 DEF getInitialValues
  <2>2. CASE ~UseIndependentSolver
    <3>1. PICK o \in next_computeInitialValues(caches, q) :
            \E r \in ValidatedPoint(o, q) : Finish(r)
      BY Zenon, <1>2, <2>2 DEF getInitialValues
    <3>2. PICK r \in ValidatedPoint(o, q) : caches' = r.caches
      BY Zenon, <3>1 DEF Finish
    <3>3. Keeps(r)
      BY Zenon, <3>1, <3>2, InitialValuesKeep, QueriesAssumption
    <3>4. QED
      BY Zenon, <3>2, <3>3 DEF Keeps
  <2>3. QED
    BY Zenon, <2>1, <2>2
<1>3. ASSUME SolveFactor PROVE Truthful(caches')
  <2>. DEFINE f == Head(factors)
              q == Query(f.exprs, ExprFalse)
  <2>1. q.expr \in Exprs
    BY Zenon, ExprAssumption DEF Query
  <2>. HIDE DEF q
  <2>2. \/ UNCHANGED caches
        \/ \E o \in next_computeInitialValues(caches, q) :
             \/ caches' = o.caches
             \/ \E r \in ValidatedPoint(o, call.query) : caches' = r.caches
    BY Zenon, <1>3 DEF SolveFactor, Finish, q
  <2>3. CASE UNCHANGED caches
    BY Zenon, <2>3
  <2>4. ASSUME NEW o \in next_computeInitialValues(caches, q),
               \/ caches' = o.caches
               \/ \E r \in ValidatedPoint(o, call.query) : caches' = r.caches
        PROVE  Truthful(caches')
    <3>1. Keeps(o) /\ \A r \in ValidatedPoint(o, call.query) : Keeps(r)
      BY Zenon, <2>1, InitialValuesKeep
    <3>2. QED
      BY Zenon, <2>4, <3>1 DEF Keeps
  <2>5. QED
    BY Zenon, <2>2, <2>3, <2>4
<1>4. ASSUME ReturnValues PROVE Truthful(caches')
  <2>1. PICK v : \/ \E r \in ValidatedPoint(Answer(v, caches), call.query) : caches' = r.caches
                 \/ caches' = Abort(v, caches).caches
    <3>. DEFINE point == [c \in Cells |-> IF c \in DOMAIN retMap THEN retMap[c] ELSE 0]
    <3>1. \/ \E r \in ValidatedPoint(Answer({point}, caches), call.query) : caches' = r.caches
          \/ caches' = Abort({point}, caches).caches
      BY <1>4, Zenon DEF ReturnValues, Finish
    <3>2. QED
      BY <3>1, Zenon
  <2>2. Keeps(Answer(v, caches)) /\ Keeps(Abort(v, caches))
    BY Zenon, Returns
  <2>3. \A r \in ValidatedPoint(Answer(v, caches), call.query) : Keeps(r)
    BY Zenon, <2>2, ValidatedKeeps DEF ValidatedPoint
  <2>4. QED
    BY Zenon, <2>1, <2>2, <2>3 DEF Keeps
<1>5. ASSUME Return \/ UNCHANGED solverVars PROVE Truthful(caches')
  BY Zenon, <1>5 DEF Return, solverVars
<1>6. QED
  BY Zenon, <1>1, <1>2, <1>3, <1>4, <1>5 DEF SolverNext

\* Empty caches say nothing that is wrong.
LEMMA SolverStartsTruthful == SolverInit => Truthful(caches)
<1>1. /\ NoCaches = [cache |-> NoCaches.cache, cex |-> NoCaches.cex, table |-> NoCaches.table]
      /\ DOMAIN NoCaches.cache = {} /\ DOMAIN NoCaches.cex = {} /\ NoCaches.table = {}
  BY DEF NoCaches
<1>2. Truthful(NoCaches)
  BY Zenon, <1>1 DEF Truthful, Sound
<1>3. QED
  BY Zenon, <1>2 DEF SolverInit

\* For every language of expressions, every command line and every sequence of
\* calls, answers and timeouts: what CachingSolver and CexCachingSolver hold is so,
\* although an entry may be derived from entries for subsets and supersets, be
\* entered under the negated query, or come after a failure half way.
THEOREM CachesStaySound == SolverSpec => []CachesSound
<1>1. SolverInit => Truthful(caches)
  BY Zenon, SolverStartsTruthful
<1>2. Truthful(caches) /\ [SolverNext]_solverVars => Truthful(caches)'
  BY Zenon, SolverStepTruthful
<1>3. Truthful(caches) => CachesSound
  BY Zenon DEF Truthful, CachesSound
<1>4. QED
  BY <1>1, <1>2, <1>3, PTL DEF SolverSpec

-----------------------------------------------------------------------------
(* The answers *)

\* Queries that tell the same of an expression have the same validity.
LEMMA SameValidity ==
  ASSUME NEW q, q.expr \in Exprs, NEW r, SameAnswers(q, r)
  PROVE  /\ IsValid(r) <=> IsValid(q)
         /\ IsValid(negateExpr(r)) <=> IsValid(negateExpr(q))
         /\ Models(r) # {}
         /\ ~(IsValid(q) /\ IsValid(negateExpr(q)))
         /\ \A v : ValidityIs(v, r) <=> ValidityIs(v, q)
<1>1. /\ r.expr = q.expr /\ Models(q) # {} /\ Models(q) \subseteq Models(r)
      /\ \A a \in Models(r) : \E b \in Models(q) : Holds(q.expr, a) <=> Holds(q.expr, b)
  BY Zenon DEF SameAnswers
<1>2. /\ IsValid(q) <=> \A a \in Models(q) : Holds(q.expr, a)
      /\ IsValid(negateExpr(q)) <=> \A a \in Models(q) : ~Holds(q.expr, a)
  BY Zenon, QueryFacts
<1>3. /\ IsValid(r) <=> \A a \in Models(r) : Holds(q.expr, a)
      /\ IsValid(negateExpr(r)) <=> \A a \in Models(r) : ~Holds(q.expr, a)
  BY Zenon, <1>1, QueryFacts
<1>4. IsValid(r) <=> IsValid(q)
  BY Zenon, <1>1, <1>2, <1>3
<1>5. IsValid(negateExpr(r)) <=> IsValid(negateExpr(q))
  BY Zenon, <1>1, <1>2, <1>3
<1>6. QED
  BY Zenon, <1>1, <1>2, <1>4, <1>5 DEF ValidityIs

\* Whatever the oracle answers to an answer, it is what is expected.
Confirmed(o, oracle, expected) ==
  /\ Keeps(o) /\ o.status # "abort"
  /\ o.status = "ok" => \A r \in oracle : r.status = "ok" => r.value = expected

\* The oracle agrees with an answer that is right.
LEMMA ValidatedRight ==
  ASSUME NEW o, NEW oracle, NEW expected, Confirmed(o, oracle, expected),
         NEW v \in Validated(o, oracle, expected)
  PROVE  v.status # "abort" /\ (v.status = "ok" => o.status = "ok" /\ v.value = o.value)
<1>0. /\ Keeps(o) /\ o.status # "abort"
      /\ o.status = "ok" => \A r \in oracle : r.status = "ok" => r.value = expected
  BY Zenon DEF Confirmed
<1>1. CASE ~DebugValidateSolver \/ o.status # "ok"
  BY Zenon, <1>0, <1>1 DEF Validated
<1>2. CASE DebugValidateSolver /\ o.status = "ok"
  <2>1. PICK r \in oracle : v = IF r.status # "ok" THEN Timeout(o.value, o.caches)
                                ELSE IF r.value = expected THEN o ELSE Abort(o.value, o.caches)
    BY Zenon, <1>2 DEF Validated
  <2>2. v = Timeout(o.value, o.caches) \/ v = o
    BY Zenon, <1>0, <1>2, <2>1
  <2>3. QED
    BY <1>0, <1>2, <2>2, Returns
<1>3. QED
  BY Zenon, <1>1, <1>2

\* The chain's computeTruth is right about satisfiable constraints.
LEMMA ComputeTruthRight ==
  ASSUME Truthful(caches), NEW q, q.expr \in Exprs, SameAnswers(q, Required(q)),
         NEW o \in computeTruth(q)
  PROVE  o.status # "abort" /\ (o.status = "ok" => o.value = Truth(IsValid(q)))
<1>1. PICK r \in chain_computeTruth(caches, Required(q)) :
        o \in Validated(r, core_computeTruth(caches, q), r.value)
  BY Zenon DEF computeTruth
<1>2. Models(Required(q)) # {} /\ (IsValid(Required(q)) <=> IsValid(q))
  BY Zenon, SameValidity
<1>3. TruthRight(chain_computeTruth(caches, Required(q)), Required(q))
  BY Zenon, <1>2, RequiredExpr, ChainRight
<1>4. TruthIs(r, Required(q))
  BY Zenon, <1>3 DEF TruthRight
<1>5. r.status = "ok" => r.value = Truth(IsValid(q))
  BY Zenon, <1>2, <1>4 DEF TruthIs, Truth
<1>6. \A t \in core_computeTruth(caches, q) : TruthIs(t, q)
  BY Zenon, CoreTruth DEF TruthRight
<1>7. r.status = "ok" => \A t \in core_computeTruth(caches, q) : t.status = "ok" => t.value = r.value
  BY Zenon, <1>5, <1>6 DEF TruthIs
<1>8. Keeps(r) /\ r.status # "abort"
  BY Zenon, <1>4 DEF TruthIs
<1>9. o.status # "abort" /\ (o.status = "ok" => r.status = "ok" /\ o.value = r.value)
  <2>1. Confirmed(r, core_computeTruth(caches, q), r.value)
    BY Zenon, <1>7, <1>8 DEF Confirmed
  <2>2. QED
    BY Zenon, <1>1, <2>1, ValidatedRight
<1>10. QED
  BY Zenon, <1>5, <1>9

\* The chain's computeValidity is right about satisfiable constraints.
LEMMA ComputeValidityRight ==
  ASSUME Truthful(caches), NEW q, q.expr \in Exprs, SameAnswers(q, Required(q)),
         NEW o \in computeValidity(q)
  PROVE  o.status # "abort" /\ (o.status = "ok" => ValidityIs(o.value, q))
<1>1. PICK r \in chain_computeValidity(caches, Required(q)) :
        o \in Validated(r, core_computeValidity(caches, q), r.value)
  BY Zenon DEF computeValidity
<1>2. /\ Models(Required(q)) # {} /\ ~(IsValid(q) /\ IsValid(negateExpr(q)))
      /\ \A v : ValidityIs(v, Required(q)) <=> ValidityIs(v, q)
  BY Zenon, SameValidity
<1>3. DecidedRightly(r, Required(q))
  BY Zenon, RequiredExpr, ChainRight DEF ValidityRight
<1>4. Keeps(r) /\ r.status # "abort" /\ (r.status = "ok" => ValidityIs(r.value, q))
  BY Zenon, <1>2, <1>3 DEF DecidedRightly
<1>5. \A t \in core_computeValidity(caches, q) : t.status = "ok" => ValidityIs(t.value, q)
  BY Zenon, CoreValidity DEF ValidityRight, DecidedRightly
<1>6. \A v, w : ValidityIs(v, q) /\ ValidityIs(w, q) => v = w
  BY Zenon, <1>2 DEF ValidityIs
<1>7. r.status = "ok" => \A t \in core_computeValidity(caches, q) : t.status = "ok" => t.value = r.value
  BY Zenon, <1>4, <1>5, <1>6
<1>8. Confirmed(r, core_computeValidity(caches, q), r.value)
  BY Zenon, <1>4, <1>7 DEF Confirmed
<1>9. o.status # "abort" /\ (o.status = "ok" => r.status = "ok" /\ o.value = r.value)
  BY Zenon, <1>1, <1>8, ValidatedRight
<1>10. QED
  BY Zenon, <1>4, <1>9

\* The chain's computeValue is a value that the expression can have.
LEMMA ComputeValueRight ==
  ASSUME Truthful(caches), NEW q, q.expr \in Exprs, SameAnswers(q, Required(q)),
         NEW o \in computeValue(q)
  PROVE  /\ o.status # "abort"
         /\ o.status = "ok" => \E a \in Models(q) : o.value = Truth(Holds(q.expr, a))
<1>1. PICK r \in next_computeValue(caches, Required(q)) :
        o \in Validated(r, core_computeTruth(caches, IF r.value = "True" THEN negateExpr(q) ELSE q),
                        "False")
  BY Zenon DEF computeValue
<1>2. Models(Required(q)) # {}
  BY Zenon, SameValidity
<1>3. ValueIs(r, Required(q))
  BY Zenon, RequiredExpr, NextRight
<1>4. Keeps(r) /\ r.status # "abort"
  BY Zenon, <1>2, <1>3 DEF ValueIs
<1>5. ASSUME r.status = "ok" PROVE \E a \in Models(q) : r.value = Truth(Holds(q.expr, a))
  <2>1. PICK a \in Models(Required(q)) : r.value = Truth(Holds(Required(q).expr, a))
    BY Zenon, <1>3, <1>5 DEF ValueIs
  <2>2. PICK b \in Models(q) : Holds(q.expr, a) <=> Holds(q.expr, b)
    BY Zenon DEF SameAnswers
  <2>3. r.value = Truth(Holds(q.expr, b))
    BY Zenon, <2>1, <2>2, RequiredExpr DEF Truth
  <2>4. QED
    BY Zenon, <2>3
<1>. DEFINE p == IF r.value = "True" THEN negateExpr(q) ELSE q
<1>6. ASSUME r.status = "ok" PROVE ~IsValid(p)
  <2>1. PICK a \in Models(q) : r.value = Truth(Holds(q.expr, a))
    BY Zenon, <1>5, <1>6
  <2>2. CASE Holds(q.expr, a)
    <3>1. p = negateExpr(q)
      BY Zenon, <2>1, <2>2 DEF Truth
    <3>2. IsValid(negateExpr(q)) <=> \A x \in Models(q) : ~Holds(q.expr, x)
      BY QueryFacts, Zenon
    <3>3. QED
      BY <3>1, <3>2, <2>1, <2>2, Zenon
  <2>3. CASE ~Holds(q.expr, a)
    <3>1. p = q
      BY Zenon, <2>1, <2>3 DEF Truth
    <3>2. IsValid(q) <=> \A x \in Models(q) : Holds(q.expr, x)
      BY QueryFacts, Zenon
    <3>3. QED
      BY <3>1, <3>2, <2>1, <2>3, Zenon
  <2>4. QED
    BY Zenon, <2>2, <2>3
<1>. HIDE DEF p
<1>7. \A t \in core_computeTruth(caches, p) : TruthIs(t, p)
  BY Zenon, CoreTruth DEF TruthRight
<1>8. r.status = "ok" => \A t \in core_computeTruth(caches, p) : t.status = "ok" => t.value = "False"
  BY Zenon, <1>6, <1>7 DEF TruthIs, Truth
<1>9. o \in Validated(r, core_computeTruth(caches, p), "False")
  BY Zenon, <1>1 DEF p
<1>10. o.status # "abort" /\ (o.status = "ok" => r.status = "ok" /\ o.value = r.value)
  <2>1. Confirmed(r, core_computeTruth(caches, p), "False")
    BY Zenon, <1>4, <1>8 DEF Confirmed
  <2>2. QED
    BY Zenon, <1>9, <2>1, ValidatedRight
<1>11. QED
  BY Zenon, <1>5, <1>10

\* Solver answers for a constant without asking.
LEMMA ConstantRight ==
  ASSUME NEW q, q.expr \in Exprs, Constant(q.expr), Models(q) # {}
  PROVE  /\ IsValid(q) <=> (q.expr = ExprTrue)
         /\ IsValid(negateExpr(q)) <=> ~(q.expr = ExprTrue)
         /\ \E a \in Models(q) : Holds(q.expr, a) <=> (q.expr = ExprTrue)
<1>1. /\ IsValid(q) <=> \A a \in Models(q) : Holds(q.expr, a)
      /\ IsValid(negateExpr(q)) <=> \A a \in Models(q) : ~Holds(q.expr, a)
      /\ Models(q) \subseteq Assignments
  BY Zenon, QueryFacts
<1>2. \A a \in Assignments : Holds(ExprTrue, a) /\ ~Holds(ExprFalse, a)
  BY Zenon, ExprAssumption
<1>3. QED
  BY Zenon, <1>1, <1>2 DEF Constant

\* Solver::mustBeTrue says whether the query is valid.
LEMMA MustBeTrueRight ==
  ASSUME Truthful(caches), NEW q, q.expr \in Exprs, SameAnswers(q, Required(q)),
         NEW o \in mustBeTrue(q)
  PROVE  o.status # "abort" /\ (o.status = "ok" => o.value = Truth(IsValid(q)))
<1>1. CASE Constant(q.expr)
  <2>1. o = Answer(Truth(q.expr = ExprTrue), caches)
    BY Zenon, <1>1 DEF mustBeTrue, Fast
  <2>2. Truth(q.expr = ExprTrue) = Truth(IsValid(q))
    BY Zenon, <1>1, ConstantRight DEF SameAnswers, Truth
  <2>3. QED
    BY <2>1, <2>2, Returns
<1>2. CASE ~Constant(q.expr)
  <2>1. o \in computeTruth(q)
    BY Zenon, <1>2 DEF mustBeTrue, Fast
  <2>2. QED
    BY Zenon, <2>1, ComputeTruthRight
<1>3. QED
  BY Zenon, <1>1, <1>2

\* Solver::evaluate gives the validity.
LEMMA EvaluateRight ==
  ASSUME Truthful(caches), NEW q, q.expr \in Exprs, SameAnswers(q, Required(q)),
         NEW o \in evaluate(q)
  PROVE  o.status # "abort" /\ (o.status = "ok" => ValidityIs(o.value, q))
<1>1. CASE Constant(q.expr)
  <2>1. o = Answer(Truth(q.expr = ExprTrue), caches)
    BY Zenon, <1>1 DEF evaluate, Fast
  <2>2. ValidityIs(Truth(q.expr = ExprTrue), q)
    BY Zenon, <1>1, ConstantRight DEF SameAnswers, Truth, ValidityIs
  <2>3. QED
    BY <2>1, <2>2, Returns
<1>2. CASE ~Constant(q.expr)
  <2>1. o \in computeValidity(q)
    BY Zenon, <1>2 DEF evaluate, Fast
  <2>2. QED
    BY Zenon, <2>1, ComputeValidityRight
<1>3. QED
  BY Zenon, <1>1, <1>2

\* Solver::getValue gives a value that the expression can have.
LEMMA GetValueRight ==
  ASSUME Truthful(caches), NEW q, q.expr \in Exprs, SameAnswers(q, Required(q)),
         NEW o \in getValue(q)
  PROVE  /\ o.status # "abort"
         /\ o.status = "ok" => \E a \in Models(q) : o.value = Truth(Holds(q.expr, a))
<1>1. CASE Constant(q.expr)
  <2>1. o = Answer(Truth(q.expr = ExprTrue), caches)
    BY Zenon, <1>1 DEF getValue, Fast
  <2>2. PICK a \in Models(q) : Holds(q.expr, a) <=> (q.expr = ExprTrue)
    BY Zenon, <1>1, ConstantRight DEF SameAnswers
  <2>3. Truth(q.expr = ExprTrue) = Truth(Holds(q.expr, a))
    BY Zenon, <2>2 DEF Truth
  <2>4. o.status = "ok" /\ o.value = Truth(Holds(q.expr, a))
    BY <2>1, <2>3, Returns
  <2>5. QED
    BY Zenon, <2>4
<1>2. CASE ~Constant(q.expr)
  <2>1. o \in computeValue(q)
    BY Zenon, <1>2 DEF getValue, Fast
  <2>2. QED
    BY Zenon, <2>1, ComputeValueRight
<1>3. QED
  BY Zenon, <1>1, <1>2

\* An operation that is the negation of a right one is right.
LEMMA InvertedRight ==
  ASSUME NEW outcomes, NEW P \in BOOLEAN,
         \A r \in outcomes : r.status # "abort" /\ (r.status = "ok" => r.value = Truth(P)),
         NEW o \in Inverted(outcomes)
  PROVE  o.status # "abort" /\ (o.status = "ok" => o.value = Truth(~P))
<1>1. PICK r \in outcomes : o = IF r.status # "ok" THEN r
                                ELSE Answer(Truth(r.value = "False"), r.caches)
  BY Zenon DEF Inverted
<1>2. CASE r.status # "ok"
  BY Zenon, <1>1, <1>2
<1>3. CASE r.status = "ok"
  <2>1. Truth(r.value = "False") = Truth(~P)
    BY Zenon, <1>3 DEF Truth
  <2>2. o = Answer(Truth(~P), r.caches)
    BY Zenon, <1>1, <1>3, <2>1
  <2>. DEFINE x == Answer(Truth(~P), r.caches)
  <2>3. x.status = "ok" /\ x.value = Truth(~P)
    BY Zenon, AnswerStatus, AnswerValue
  <2>. HIDE DEF x
  <2>4. o = x
    BY Zenon, <2>2 DEF x
  <2>5. QED
    BY Zenon, <2>3, <2>4
<1>4. QED
  BY Zenon, <1>2, <1>3

\* Every operation of the solver, whatever its caches hold by then.
LEMMA OutcomesRight ==
  ASSUME Truthful(caches), NEW q, q.expr \in Exprs, SameAnswers(q, Required(q)),
         SameAnswers(negateExpr(q), Required(negateExpr(q))),
         NEW op \in Operations, NEW o \in Outcomes(op, q)
  PROVE  o.status # "abort" /\ (o.status = "ok" => RightAnswer(op, q, o.value))
<1>1. negateExpr(q).expr \in Exprs
  BY Zenon, QueryFacts
<1>2. CASE op = "evaluate"
  <2>1. o \in evaluate(q)
    BY Zenon, <1>2 DEF Outcomes
  <2>2. o.status # "abort" /\ (o.status = "ok" => ValidityIs(o.value, q))
    BY Zenon, <2>1, EvaluateRight
  <2>3. ~(IsValid(q) /\ IsValid(negateExpr(q)))
    BY Zenon, SameValidity
  <2>4. QED
    BY Zenon, <1>2, <2>2, <2>3 DEF RightAnswer, ValidityIs
<1>3. CASE op = "mustBeTrue"
  <2>1. o \in mustBeTrue(q)
    BY Zenon, <1>3 DEF Outcomes
  <2>2. o.status # "abort" /\ (o.status = "ok" => o.value = Truth(IsValid(q)))
    BY Zenon, <2>1, MustBeTrueRight
  <2>3. QED
    BY Zenon, <1>3, <2>2 DEF RightAnswer
<1>4. CASE op = "mustBeFalse"
  <2>1. o \in mustBeTrue(negateExpr(q))
    BY Zenon, <1>4 DEF Outcomes, mustBeFalse
  <2>2. o.status # "abort" /\ (o.status = "ok" => o.value = Truth(IsValid(negateExpr(q))))
    BY Zenon, <2>1, <1>1, MustBeTrueRight
  <2>3. QED
    BY Zenon, <1>4, <2>2 DEF RightAnswer
<1>5. CASE op = "mayBeTrue"
  <2>1. o \in Inverted(mustBeTrue(negateExpr(q)))
    BY Zenon, <1>5 DEF Outcomes, mayBeTrue, mustBeFalse
  <2>2. \A r \in mustBeTrue(negateExpr(q)) :
          r.status # "abort" /\ (r.status = "ok" => r.value = Truth(IsValid(negateExpr(q))))
    BY Zenon, <1>1, MustBeTrueRight
  <2>3. IsValid(negateExpr(q)) \in BOOLEAN
    BY Zenon DEF IsValid
  <2>4. o.status # "abort" /\ (o.status = "ok" => o.value = Truth(~IsValid(negateExpr(q))))
    BY Zenon, <2>1, <2>2, <2>3, InvertedRight
  <2>5. QED
    BY Zenon, <1>5, <2>4 DEF RightAnswer
<1>6. CASE op = "mayBeFalse"
  <2>1. o \in Inverted(mustBeTrue(q))
    BY Zenon, <1>6 DEF Outcomes, mayBeFalse
  <2>2. \A r \in mustBeTrue(q) :
          r.status # "abort" /\ (r.status = "ok" => r.value = Truth(IsValid(q)))
    BY Zenon, MustBeTrueRight
  <2>3. IsValid(q) \in BOOLEAN
    BY Zenon DEF IsValid
  <2>4. o.status # "abort" /\ (o.status = "ok" => o.value = Truth(~IsValid(q)))
    BY Zenon, <2>1, <2>2, <2>3, InvertedRight
  <2>5. QED
    BY Zenon, <1>6, <2>4 DEF RightAnswer
<1>7. CASE op = "getValue"
  <2>1. o \in getValue(q)
    BY Zenon, <1>7 DEF Outcomes
  <2>2. /\ o.status # "abort"
        /\ o.status = "ok" => \E a \in Models(q) : o.value = Truth(Holds(q.expr, a))
    BY Zenon, <2>1, GetValueRight
  <2>3. QED
    BY Zenon, <1>7, <2>2 DEF RightAnswer
<1>8. QED
  BY Zenon, <1>2, <1>3, <1>4, <1>5, <1>6, <1>7 DEF Operations

-----------------------------------------------------------------------------
(* Every answer is right *)

\* ValidatingSolver never contradicts initial values that are right.
LEMMA ValidatedPointRight ==
  ASSUME NEW q, q.expr \in Exprs, NEW o, Keeps(o), o.status \in {"ok", "timeout", "false"},
         o.status = "ok" => IF o.value = Null THEN Sat(Key(q)) = {} ELSE o.value \subseteq Sat(Key(q)),
         NEW r \in ValidatedPoint(o, q)
  PROVE  /\ r.status \in {"ok", "timeout", "false"}
         /\ r.status = "ok" => IF r.value = Null THEN Sat(Key(q)) = {} ELSE r.value \subseteq Sat(Key(q))
<1>. DEFINE right == IF o.value = Null THEN Truth(IsValid(q)) ELSE Truth(o.value \subseteq Sat(Key(q)))
            oracle == {Timeout(Unset, o.caches), Answer(right, o.caches)}
<1>1. r \in Validated(o, oracle, "True")
  BY Zenon DEF ValidatedPoint
<1>2. ASSUME o.status = "ok" PROVE right = "True"
  <2>1. CASE o.value = Null
    <3>1. Sat(Key(q)) = {}
      BY Zenon, <1>2, <2>1
    <3>2. FoundFor(Null, Key(q))
      BY Zenon, <3>1 DEF FoundFor
    <3>3. IsValid(q)
      BY Zenon, <3>2, NullMeansValid
    <3>4. QED
      BY Zenon, <2>1, <3>3 DEF Truth
  <2>2. CASE o.value # Null
    BY Zenon, <1>2, <2>2 DEF Truth
  <2>3. QED
    BY Zenon, <2>1, <2>2
<1>. HIDE DEF right
<1>3. o.status = "ok" => \A p \in oracle : p.status = "ok" => p.value = "True"
  <2>1. Timeout(Unset, o.caches).status # "ok"
    BY Zenon, Returns
  <2>2. o.status = "ok" => Answer(right, o.caches).value = "True"
    BY Zenon, <1>2, AnswerValue
  <2>3. QED
    BY Zenon, <2>1, <2>2
<1>. HIDE DEF oracle
<1>4. r.status # "abort" /\ (r.status = "ok" => o.status = "ok" /\ r.value = o.value)
  <2>1. Confirmed(o, oracle, "True")
    BY Zenon, <1>3 DEF Confirmed
  <2>2. QED
    BY Zenon, <1>1, <2>1, ValidatedRight
<1>6. r.status \in {"ok", "timeout", "false"}
  BY <1>1, <1>4, ValidatedKeeps DEF Keeps
<1>7. QED
  BY Zenon, <1>4, <1>6

\* A search for initial values returns in one of three ways.
LEMMA InitialValuesReturn ==
  ASSUME Truthful(caches), NEW q, q.expr \in Exprs, NEW o \in next_computeInitialValues(caches, q)
  PROVE  /\ FindIs(o, q) /\ o.status \in {"ok", "timeout", "false"}
         /\ o.status = "ok" => IF o.value = Null THEN Sat(Key(q)) = {} ELSE o.value \subseteq Sat(Key(q))
<1>1. FindIs(o, q)
  BY Zenon, NextRight DEF FoundRight
<1>4. o.status \in {"ok", "timeout", "false"}
  BY Zenon, <1>1 DEF FindIs, Keeps
<1>5. ASSUME o.status = "ok"
      PROVE  IF o.value = Null THEN Sat(Key(q)) = {} ELSE o.value \subseteq Sat(Key(q))
  BY Zenon, <1>1, <1>5 DEF FindIs, FoundFor
<1>6. QED
  BY Zenon, <1>1, <1>4, <1>5

\* The inductive invariant: bytes that were found are forgotten between two calls,
\* and while the factors are solved what was found so far solves the ones done.
AnswersInv ==
    /\ Truthful(caches)
    /\ AnswersRight
    /\ answer = NoAnswer => retMap = << >>
    /\ answer.status = "pending" => /\ call.op = "getInitialValues" /\ call.query \in Queries
                                    /\ \E done : Solving(call.query, done, factors, retMap)

\* Before the first call nothing is answered.
LEMMA AnswersInvInit == SolverInit => AnswersInv
<1>1. NoAnswer.status = "none"
  BY Zenon DEF NoAnswer
<1>2. QED
  BY Zenon, <1>1, SolverStartsTruthful DEF SolverInit, AnswersInv, AnswersRight

\* The independence solver is asked for what the query needs.
LEMMA RequiredSame ==
  ASSUME WellOrdered, NEW q \in Queries, Models(q) # {}
  PROVE  SameAnswers(q, Required(q)) /\ SameAnswers(negateExpr(q), Required(negateExpr(q)))
<1>1. /\ q.constraints \in Seq(Exprs) /\ q.expr \in Exprs /\ Models(q) # {}
  BY Zenon, QueriesAssumption
<1>2. /\ negateExpr(q).constraints \in Seq(Exprs) /\ negateExpr(q).expr \in Exprs
      /\ Models(negateExpr(q)) # {}
  BY Zenon, <1>1, QueryFacts DEF negateExpr, Query
<1>3. ASSUME NEW p, p.constraints \in Seq(Exprs), p.expr \in Exprs, Models(p) # {}
      PROVE  SameAnswers(p, Required(p))
  <2>1. CASE UseIndependentSolver
    BY Zenon, <1>3, <2>1, IndependentSameAnswers DEF Required
  <2>2. CASE ~UseIndependentSolver
    BY Zenon, <1>3, <2>2 DEF Required, SameAnswers
  <2>3. QED
    BY Zenon, <2>1, <2>2
<1>4. QED
  BY Zenon, <1>1, <1>2, <1>3

\* What a call that ends in the outcome r leaves.
LEMMA FinishRight ==
  ASSUME NEW r, Keeps(r), r.status \in {"ok", "timeout", "false"}, Finish(r),
         r.status = "ok" => RightAnswer(call'.op, call'.query, r.value),
         answer' = NoAnswer => retMap' = << >>
  PROVE  AnswersInv'
<1>1. /\ answer'.status = r.status /\ answer'.value = r.value /\ caches' = r.caches
  BY Zenon DEF Finish
<1>2. Truthful(caches')
  BY Zenon, <1>1 DEF Keeps
<1>3. AnswersRight'
  BY Zenon, <1>1 DEF AnswersRight
<1>4. answer'.status # "pending"
  BY Zenon, <1>1
<1>5. QED
  BY Zenon, <1>2, <1>3, <1>4 DEF AnswersInv

\* Initial values that satisfy the constraints, or none where nothing does, are a
\* right answer.
LEMMA InitialAnswer ==
  ASSUME NEW q, NEW v, IF v = Null THEN Sat(Key(q)) = {} ELSE v \subseteq Sat(Key(q))
  PROVE  RightAnswer("getInitialValues", q, v)
  BY Zenon DEF RightAnswer

\* A call of an operation answers right.
LEMMA AskRight ==
  ASSUME WellOrdered, AnswersInv, NEW q \in Queries, NEW op \in Operations, Ask(op, q)
  PROVE  AnswersInv'
<1>1. PICK o \in Outcomes(op, q) : Finish(o)
  BY Zenon DEF Ask
<1>2. /\ call' = [op |-> op, query |-> q] /\ retMap' = retMap /\ answer = NoAnswer
  BY Zenon DEF Ask, Idle
<1>3. Truthful(caches) /\ q.expr \in Exprs /\ retMap' = << >>
  BY Zenon, <1>2, QueriesAssumption DEF AnswersInv
<1>4. Models(q) # {} => o.status # "abort" /\ (o.status = "ok" => RightAnswer(op, q, o.value))
  BY Zenon, <1>3, RequiredSame, OutcomesRight
<1>5. Keeps(o)
  BY Zenon, <1>3, OutcomesKeep
<1>6. /\ answer' = [status |-> o.status, value |-> o.value] /\ caches' = o.caches
  BY Zenon, <1>1 DEF Finish
<1>7. Truthful(caches')
  BY Zenon, <1>5, <1>6 DEF Keeps
<1>8. AnswersRight'
  <2>1. op # "getInitialValues" /\ call'.op = op /\ call'.query = q
    BY <1>2 DEF Operations
  <2>2. answer'.status = o.status /\ answer'.value = o.value
    BY <1>6, Zenon
  <2>3. QED
    BY <1>4, <2>1, <2>2, Zenon DEF AnswersRight, Answerable
<1>9. answer'.status # "pending"
  BY Zenon, <1>5, <1>6 DEF Keeps
<1>10. QED
  BY Zenon, <1>3, <1>7, <1>8, <1>9 DEF AnswersInv

\* getInitialValues starts with the factors of the query, or answers right where
\* it needs none.
LEMMA InitialValuesRight ==
  ASSUME WellOrdered, AnswersInv, NEW q \in Queries, getInitialValues(q)
  PROVE  AnswersInv'
<1>1. /\ call' = [op |-> "getInitialValues", query |-> q] /\ answer = NoAnswer
      /\ call'.op = "getInitialValues" /\ call'.query = q /\ retMap' = retMap
  BY Zenon DEF getInitialValues, Idle
<1>2. Truthful(caches) /\ q.expr \in Exprs /\ retMap' = << >>
  BY Zenon, <1>1, QueriesAssumption DEF AnswersInv
<1>3. CASE UseIndependentSolver
  <2>1. /\ factors' = getAllIndependentConstraintsSets(q) /\ answer'.status = "pending"
        /\ caches' = caches
    BY <1>3 DEF getInitialValues
  <2>2. \E done : Solving(q, done, factors', retMap')
    BY Zenon, <1>2, <2>1, SolvingStarts
  <2>3. AnswersRight'
    BY Zenon, <2>1 DEF AnswersRight
  <2>4. QED
    BY Zenon, <1>1, <1>2, <2>1, <2>2, <2>3 DEF AnswersInv
<1>4. CASE ~UseIndependentSolver
  <2>1. PICK o \in next_computeInitialValues(caches, q) : \E r \in ValidatedPoint(o, q) : Finish(r)
    BY Zenon, <1>4 DEF getInitialValues
  <2>2. PICK r \in ValidatedPoint(o, q) : Finish(r)
    BY Zenon, <2>1
  <2>3. /\ FindIs(o, q) /\ o.status \in {"ok", "timeout", "false"}
        /\ o.status = "ok" => IF o.value = Null THEN Sat(Key(q)) = {} ELSE o.value \subseteq Sat(Key(q))
    BY Zenon, <1>2, InitialValuesReturn
  <2>4. Keeps(o) /\ Keeps(r)
    BY Zenon, <1>2, <2>3, InitialValuesKeep DEF FindIs
  <2>5. /\ r.status \in {"ok", "timeout", "false"}
        /\ r.status = "ok" => IF r.value = Null THEN Sat(Key(q)) = {} ELSE r.value \subseteq Sat(Key(q))
    BY Zenon, <1>2, <2>3, <2>4, ValidatedPointRight
  <2>6. r.status = "ok" => RightAnswer(call'.op, call'.query, r.value)
    BY <1>1, <2>5, InitialAnswer
  <2>7. QED
    BY Zenon, <1>2, <2>2, <2>4, <2>5, <2>6, FinishRight
<1>5. QED
  BY Zenon, <1>3, <1>4

\* A factor that is solved adds its bytes, and one without a solution ends the
\* call.
LEMMA SolveFactorRight ==
  ASSUME AnswersInv, SolveFactor
  PROVE  AnswersInv'
<1>. DEFINE f == Head(factors)
            p == Query(f.exprs, ExprFalse)
            q == call.query
<1>1. /\ answer.status = "pending" /\ factors # << >> /\ call' = call
      /\ call.op = "getInitialValues" /\ q \in Queries /\ Truthful(caches)
  BY Zenon DEF SolveFactor, AnswersInv
<1>2. PICK done : Solving(q, done, factors, retMap)
  BY Zenon, <1>1 DEF AnswersInv
<1>3. q.expr \in Exprs /\ p.expr \in Exprs /\ p.expr = ExprFalse /\ p.constraints = f.exprs
  BY Zenon, <1>1, QueriesAssumption, ExprAssumption DEF Query
<1>4. FactorOf(Key(q), f)
  <2>1. factors \in Seq(ElementSets)
    BY Zenon, <1>2 DEF Solving
  <2>2. 1 \in DOMAIN factors /\ f = factors[1]
    BY <1>1, <2>1
  <2>3. f \in Range(factors)
    BY <2>2, Zenon DEF Range
  <2>4. QED
    BY Zenon, <1>2, <2>3 DEF Solving
<1>5. Key(p) = Range(f.exprs)
  BY Zenon, <1>3 DEF Key
<1>6. CASE calculateArrayReferences(f) = {}
  <2>1. factors' = Tail(factors) /\ caches' = caches /\ answer' = answer /\ retMap' = retMap
    BY Zenon, <1>6 DEF SolveFactor
  <2>2. Solving(q, done \cup {f}, factors', retMap')
    BY <1>1, <1>2, <1>6, <2>1, FactorSkipped
  <2>3. AnswersRight'
    BY Zenon, <1>1, <2>1 DEF AnswersRight
  <2>4. answer' # NoAnswer
    BY <1>1, <2>1 DEF NoAnswer
  <2>5. QED
    BY Zenon, <1>1, <2>1, <2>2, <2>3, <2>4 DEF AnswersInv
<1>7. CASE calculateArrayReferences(f) # {}
  <2>1. PICK o \in next_computeInitialValues(caches, p) :
          IF o.status = "ok" /\ o.value # Null
          THEN /\ factors' = Tail(factors) /\ caches' = o.caches
               /\ \E a \in o.value : retMap' = Merge(retMap, f, a)
               /\ UNCHANGED answer
          ELSE /\ factors' = << >>
               /\ \E r \in ValidatedPoint(o, q) : Finish(r)
               /\ UNCHANGED retMap
    BY <1>7, Zenon DEF SolveFactor
  <2>. HIDE DEF p
  <2>2. /\ FindIs(o, p) /\ o.status \in {"ok", "timeout", "false"}
        /\ o.status = "ok" => IF o.value = Null THEN Sat(Key(p)) = {} ELSE o.value \subseteq Sat(Key(p))
    BY Zenon, <1>1, <1>3, InitialValuesReturn
  <2>3. CASE o.status = "ok" /\ o.value # Null
    <3>1. /\ factors' = Tail(factors) /\ caches' = o.caches /\ answer' = answer
      BY Zenon, <2>1, <2>3
    <3>2. PICK a \in Sat(Range(f.exprs)) : retMap' = Merge(retMap, f, a)
      BY Zenon, <1>5, <2>1, <2>2, <2>3
    <3>3. Solving(q, done \cup {f}, factors', retMap')
      BY <1>1, <1>2, <3>1, <3>2, FactorMerged, Zenon
    <3>4. Truthful(caches')
      BY Zenon, <2>2, <3>1 DEF FindIs, Keeps
    <3>5. AnswersRight'
      BY Zenon, <1>1, <3>1 DEF AnswersRight
    <3>6. answer' # NoAnswer
      BY <1>1, <3>1 DEF NoAnswer
    <3>7. QED
      BY Zenon, <1>1, <3>1, <3>3, <3>4, <3>5, <3>6 DEF AnswersInv
  <2>4. CASE ~(o.status = "ok" /\ o.value # Null)
    <3>1. PICK r \in ValidatedPoint(o, q) : Finish(r)
      BY Zenon, <2>1, <2>4
    <3>2. Keeps(o) /\ Keeps(r)
      BY Zenon, <1>1, <1>3, <2>2, InitialValuesKeep DEF FindIs
    <3>3. ASSUME o.status = "ok" PROVE o.value = Null /\ Sat(Key(q)) = {}
      <4>1. o.value = Null /\ Sat(Range(f.exprs)) = {}
        BY Zenon, <1>5, <2>2, <2>4, <3>3
      <4>2. Sat(Key(q)) \subseteq Sat(Range(f.exprs))
        BY Zenon, <1>4 DEF FactorOf, Sat
      <4>3. QED
        BY Zenon, <4>1, <4>2
    <3>4. /\ r.status \in {"ok", "timeout", "false"}
          /\ r.status = "ok" => IF r.value = Null THEN Sat(Key(q)) = {} ELSE r.value \subseteq Sat(Key(q))
      BY Zenon, <1>3, <2>2, <3>2, <3>3, ValidatedPointRight
    <3>5. r.status = "ok" => RightAnswer(call'.op, call'.query, r.value)
      BY Zenon, <1>1, <3>4, InitialAnswer
    <3>6. answer' # NoAnswer
      BY Zenon, <3>1, <3>4 DEF Finish, NoAnswer
    <3>7. QED
      BY <3>1, <3>2, <3>4, <3>5, <3>6, FinishRight
  <2>5. QED
    BY Zenon, <2>3, <2>4
<1>8. QED
  BY Zenon, <1>6, <1>7

\* The bytes put together from the factors are a right answer.
LEMMA ReturnValuesRight ==
  ASSUME AnswersInv, ReturnValues
  PROVE  AnswersInv'
<1>. DEFINE point == [c \in Cells |-> IF c \in DOMAIN retMap THEN retMap[c] ELSE 0]
            o == Answer({point}, caches)
            q == call.query
<1>1. /\ answer.status = "pending" /\ factors = << >> /\ call' = call
      /\ call.op = "getInitialValues" /\ q \in Queries /\ Truthful(caches)
  BY Zenon DEF ReturnValues, AnswersInv
<1>2. PICK done : Solving(q, done, << >>, retMap)
  BY Zenon, <1>1 DEF AnswersInv
<1>3. point \in Sat(Key(q))
  BY Zenon, <1>1, <1>2, PointRight
<1>4. PICK r \in ValidatedPoint(o, q) : Finish(r)
  BY <1>3, Zenon DEF ReturnValues, assertCreatedPointEvaluatesToTrue
<1>. HIDE DEF point
<1>5. Keeps(o) /\ o.status = "ok" /\ o.value = {point}
  BY Zenon, <1>1, AnswerStatus, AnswerValue, AnswerKeeps
<1>. HIDE DEF o
<1>6. IF o.value = Null THEN Sat(Key(q)) = {} ELSE o.value \subseteq Sat(Key(q))
  BY Zenon, <1>3, <1>5 DEF Null
<1>7. Keeps(r)
  BY Zenon, <1>5, ValidatedKeeps DEF ValidatedPoint
<1>8. q.expr \in Exprs
  BY Zenon, <1>1, QueriesAssumption
<1>9. /\ r.status \in {"ok", "timeout", "false"}
      /\ r.status = "ok" => IF r.value = Null THEN Sat(Key(q)) = {} ELSE r.value \subseteq Sat(Key(q))
  BY Zenon, <1>5, <1>6, <1>8, ValidatedPointRight
<1>10. r.status = "ok" => RightAnswer(call'.op, call'.query, r.value)
  BY Zenon, <1>1, <1>9, InitialAnswer
<1>11. answer' # NoAnswer
  BY Zenon, <1>4, <1>9 DEF Finish, NoAnswer
<1>12. QED
  BY Zenon, <1>4, <1>7, <1>9, <1>10, <1>11, FinishRight

LOCAL INSTANCE WellFoundedInduction

\* The order of the naturals is well founded.
LEMMA NaturalsWellOrdered == WellOrdered
<1>1. SUFFICES ASSUME NEW T \in SUBSET Nat, T # {}
               PROVE  \E x \in T : \A y \in T : x <= y
  BY Zenon DEF WellOrdered
<1>2. PICK x \in T : \A y \in T : ~(<<y, x>> \in OpToRel(<, Nat))
  BY <1>1, NatLessThanWellFounded, WFMin, Zenon
<1>3. \A y \in T : ~(y < x)
  BY <1>1, <1>2, Zenon DEF OpToRel
<1>4. QED
  BY <1>1, <1>3

\* For every language of expressions, every command line and every history of
\* calls and failures: a call for initial values, or about constraints that can be
\* satisfied, that returns true returns what holds of all the constraints, although the independence solver drops some of
\* them, or solves them factor by factor and puts the bytes together, and the caches
\* answer from other queries; no assertion fails and ValidatingSolver finds nothing.
THEOREM AnswersStayRight == SolverSpec => []AnswersRight
<1>1. SolverInit => AnswersInv
  BY Zenon, AnswersInvInit
<1>2. AnswersInv /\ [SolverNext]_solverVars => AnswersInv'
  <2>1. SUFFICES ASSUME AnswersInv, [SolverNext]_solverVars PROVE AnswersInv'
    BY Zenon
  <2>2. ASSUME NEW q \in Queries, NEW op \in Operations, Ask(op, q) PROVE AnswersInv'
    BY Zenon, <2>1, <2>2, AskRight, NaturalsWellOrdered
  <2>3. ASSUME NEW q \in Queries, getInitialValues(q) PROVE AnswersInv'
    BY Zenon, <2>1, <2>3, InitialValuesRight, NaturalsWellOrdered
  <2>4. CASE SolveFactor
    BY Zenon, <2>1, <2>4, SolveFactorRight
  <2>5. CASE ReturnValues
    BY Zenon, <2>1, <2>5, ReturnValuesRight
  <2>6. CASE Return
    <3>1. answer' = NoAnswer /\ retMap' = << >> /\ caches' = caches /\ answer'.status = "none"
      BY Zenon, <2>6 DEF Return, NoAnswer
    <3>2. QED
      BY Zenon, <2>1, <3>1 DEF AnswersInv, AnswersRight
  <2>7. CASE UNCHANGED solverVars
    BY <2>1, <2>7 DEF AnswersInv, AnswersRight, Answerable, solverVars
  <2>8. QED
    BY <2>1, <2>2, <2>3, <2>4, <2>5, <2>6, <2>7 DEF SolverNext
<1>3. AnswersInv => AnswersRight
  BY Zenon DEF AnswersInv
<1>4. QED
  BY <1>1, <1>2, <1>3, PTL DEF SolverSpec

=============================================================================

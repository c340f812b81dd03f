----------------------------- MODULE SolverRange -----------------------------
(***************************************************************************)
(* Solver::getRange: the least and the greatest value that an expression   *)
(* may have under the constraints, by binary search, first for the number  *)
(* of bits that are in use, then for each bound.  Each step asks the       *)
(* solver one question, which is answered for the values the expression    *)
(* may have; a solver that gives up is an assertion.                       *)
(***************************************************************************)
EXTENDS Integers

CONSTANT Width           \* of the expression, more than one bit
ASSUME WidthAssumption == Width \in Nat \ {0} /\ \A n \in 0..Width : 2^n \in Nat \ {0}

VARIABLES possible,      \* the values the expression may have
          search,        \* "bits", "zero", "min", "max", "done" or "abort"
          lo, hi, bits, min, max
rangeVars == <<possible, search, lo, hi, bits, min, max>>

maxValueOfNBits(n) == 2^n - 1
mid == lo + (hi - lo) \div 2

\* e >> n = 0, and e <= n.
Fitting(n) == {v \in possible : v < 2^n}
UpTo(n) == {v \in possible : v <= n}
mustBe(S) == possible \subseteq S
mayBe(S) == possible \cap S # {}

RangeInit ==
  /\ possible \in (SUBSET (0..(2^Width - 1))) \ {{}}
  /\ search = "bits" /\ lo = 0 /\ hi = Width
  /\ bits = 0 /\ min = 0 /\ max = 0

Fails == search \notin {"done", "abort"} /\ search' = "abort" /\ UNCHANGED <<possible, lo, hi, bits, min, max>>

SearchBits ==
  /\ search = "bits" /\ lo < hi
  /\ IF mustBe(Fitting(mid)) THEN hi' = mid /\ lo' = lo ELSE lo' = mid + 1 /\ hi' = hi
  /\ bits' = lo'
  /\ UNCHANGED <<possible, search, min, max>>

BitsFound == search = "bits" /\ lo = hi /\ search' = "zero" /\ UNCHANGED <<possible, lo, hi, bits, min, max>>

StartMax(from) == min' = from /\ lo' = from /\ hi' = maxValueOfNBits(bits) /\ search' = "max"

TryZero ==
  /\ search = "zero"
  /\ IF mayBe({0}) THEN StartMax(0)
     ELSE search' = "min" /\ lo' = 0 /\ hi' = maxValueOfNBits(bits) /\ min' = min
  /\ UNCHANGED <<possible, bits, max>>

SearchMin ==
  /\ search = "min" /\ lo < hi
  /\ IF mayBe(UpTo(mid)) THEN hi' = mid /\ lo' = lo ELSE lo' = mid + 1 /\ hi' = hi
  /\ UNCHANGED <<possible, search, bits, min, max>>

MinFound == search = "min" /\ ~(lo < hi) /\ StartMax(lo) /\ UNCHANGED <<possible, bits, max>>

\* Mutant: the upper half without the middle, when the middle is not excluded.
SearchMaxDown ==
  /\ search = "max" /\ lo < hi
  /\ IF mustBe(UpTo(mid)) THEN hi' = mid /\ lo' = lo ELSE lo' = mid + 1 /\ hi' = hi - 1
  /\ UNCHANGED <<possible, search, bits, min, max>>

SearchMax ==
  /\ search = "max" /\ lo < hi
  /\ IF mustBe(UpTo(mid)) THEN hi' = mid /\ lo' = lo ELSE lo' = mid + 1 /\ hi' = hi
  /\ UNCHANGED <<possible, search, bits, min, max>>

MaxFound ==
  /\ search = "max" /\ ~(lo < hi)
  /\ max' = lo /\ search' = "done"
  /\ UNCHANGED <<possible, lo, hi, bits, min>>

RangeStep == SearchBits \/ BitsFound \/ TryZero \/ SearchMin \/ MinFound \/ SearchMax \/ MaxFound
RangeNext == RangeStep \/ Fails
RangeSpec == RangeInit /\ [][RangeNext]_rangeVars

\* The documented postcondition of getRange (Solver.h:195): all the values lie between
\* the two, and both can be taken.
RangeIsTight ==
  search = "done" => /\ \A v \in possible : min <= v /\ v <= max
                     /\ min \in possible /\ max \in possible
==============================================================================

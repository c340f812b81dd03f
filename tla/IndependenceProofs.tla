------------------------- MODULE IndependenceProofs -------------------------
(* IndependentSolver's two factorings of a query: the constraints that it    *)
(* passes on give the same answers as all of them, and the initial values    *)
(* found for the factors together satisfy the query.                         *)
EXTENDS IndependentSolver, TLAPS

\* The context is large: the SMT solver is given more time than by default.
USE SMTT(20), Zenon

-----------------------------------------------------------------------------
(* Loops *)

\* The loops are reasoned about by induction.  The theorems of the library that
\* give it, WellFoundedInduction, make every later proof slower, so this module
\* and SolverProofs take it as a hypothesis that the end of SolverProofs
\* discharges: a set of naturals that is not empty has a least element.
WellOrdered == \A T \in SUBSET Nat : T # {} => \E x \in T : \A y \in T : x <= y

\* Induction up to a bound, in a form the provers can use: P is a set.
LEMMA Induction ==
  ASSUME WellOrdered,
         NEW n \in Nat, NEW P, 0 \in P, \A i \in 0..(n - 1) : i \in P => i + 1 \in P
  PROVE  \A i \in 0..n : i \in P
<1>. DEFINE T == {i \in 0..n : i \notin P}
<1>1. SUFFICES ASSUME T # {} PROVE FALSE
  BY Zenon
<1>2. T \subseteq Nat
  OBVIOUS
<1>3. PICK x \in T : \A y \in T : x <= y
  <2>. HIDE DEF T
  <2>1. QED
    BY <1>1, <1>2, Zenon DEF WellOrdered
<1>4. x \in Nat /\ x <= n /\ x \notin P
  OBVIOUS
<1>5. \A y \in T : ~(y < x)
  BY <1>2, <1>3, <1>4
<1>6. x # 0 /\ x - 1 \in 0..(n - 1)
  BY <1>4
<1>7. x - 1 \in P
  BY <1>4, <1>5, <1>6
<1>8. QED
  BY <1>4, <1>6, <1>7

\* A loop that stays in a set S of states has a run: f lists its states.
StepOf(step, S, n) == step \in [S \X (1..n) -> S]
RunOf(f, start, step, n) == f[0] = start /\ \A i \in 1..n : f[i] = step[<<f[i - 1], i>>]

\* A step on the elements of S, applied n times, gives a run.
LEMMA Iteration ==
  ASSUME WellOrdered, NEW S, NEW n \in Nat, NEW start \in S, NEW step, StepOf(step, S, n)
  PROVE  \E f : f \in [0..n -> S] /\ RunOf(f, start, step, n)
<1>. USE DEF StepOf
<1>. DEFINE Run(m, f) == f[0] = start /\ \A i \in 1..m : f[i] = step[<<f[i - 1], i>>]
            P == {m \in 0..n : \E f \in [0..m -> S] : Run(m, f)}
<1>1. 0 \in P
  <2>. DEFINE f == [i \in 0..0 |-> start]
  <2>1. f \in [0..0 -> S] /\ f[0] = start
    OBVIOUS
  <2>. HIDE DEF f
  <2>2. \E h \in [0..0 -> S] : Run(0, h)
    BY <2>1
  <2>3. QED
    BY <2>2
<1>2. ASSUME NEW m \in 0..(n - 1), m \in P PROVE m + 1 \in P
  <2>1. PICK f \in [0..m -> S] : Run(m, f)
    BY Zenon, <1>2
  <2>. DEFINE g == [i \in 0..(m + 1) |-> IF i = m + 1 THEN step[<<f[m], m + 1>>] ELSE f[i]]
  <2>2. m \in Nat /\ m + 1 \in 1..n /\ f[m] \in S
    BY <1>2
  <2>3. step[<<f[m], m + 1>>] \in S
    BY Zenon, <2>2
  <2>4. g \in [0..(m + 1) -> S]
    BY <2>2, <2>3
  <2>5. /\ g[0] = f[0] /\ g[m + 1] = step[<<f[m], m + 1>>] /\ g[m] = f[m]
        /\ \A i \in 1..m : g[i] = f[i] /\ g[i - 1] = f[i - 1]
    BY <2>2
  <2>. HIDE DEF g
  <2>6. ASSUME NEW i \in 1..(m + 1) PROVE g[i] = step[<<g[i - 1], i>>]
    <3>1. CASE i = m + 1
      <4>1. i - 1 = m
        BY <3>1, <2>2
      <4>2. QED
        BY <3>1, <4>1, <2>5, Zenon
    <3>2. CASE i # m + 1
      <4>1. i \in 1..m
        BY <3>2, <2>2
      <4>2. QED
        BY Zenon, <4>1, <2>1, <2>5
    <3>3. QED
      BY Zenon, <3>1, <3>2
  <2>7. Run(m + 1, g)
    BY Zenon, <2>1, <2>5, <2>6
  <2>8. m + 1 \in 0..n
    BY <2>2
  <2>9. QED
    BY Zenon, <2>4, <2>7, <2>8
<1>. HIDE DEF P
<1>3. n \in P
  BY <1>1, <1>2, Induction
<1>4. QED
  BY Zenon, <1>3 DEF P, RunOf

Locations == UNION {Reads(e) : e \in Exprs}
ElementSets ==
    [elements : SUBSET Locations, wholeObjects : SUBSET {x[1] : x \in Locations}, exprs : Seq(Exprs)]
ClosureStates ==
    [closure : ElementSets, worklist : Seq(Exprs), result : Seq(Exprs), done : BOOLEAN]

\* An expression's element set, and the union of two, are element sets.
LEMMA ElementSetTypes ==
  /\ \A e \in Exprs : IndependentElementSet(e) \in ElementSets
  /\ \A a, b \in ElementSets : add(a, b) \in ElementSets
  BY DEF IndependentElementSet, add, ElementSets, Locations

\* A step of the closure loop gives a state of the loop.
LEMMA ClosureStepType ==
  ASSUME NEW t \in ClosureStates, NEW e \in Exprs
  PROVE  ClosureStep(t, e) \in ClosureStates
<1>1. /\ t.closure \in ElementSets /\ t.worklist \in Seq(Exprs) /\ t.result \in Seq(Exprs)
      /\ t.done \in BOOLEAN
  BY Zenon DEF ClosureStates
<1>2. add(t.closure, IndependentElementSet(e)) \in ElementSets
  BY <1>1, ElementSetTypes, Zenon
<1>3. Append(t.worklist, e) \in Seq(Exprs) /\ Append(t.result, e) \in Seq(Exprs)
  BY <1>1
<1>4. (t.done /\ ~Modifies(t.closure, IndependentElementSet(e))) \in BOOLEAN
  BY Zenon
<1>5. QED
  BY Zenon, <1>1, <1>2, <1>3, <1>4 DEF ClosureStep, ClosureStates

\* A pass of the closure loop is a run of its steps over the worklist.
LEMMA ClosurePassRuns ==
  ASSUME WellOrdered, NEW s \in ClosureStates
  PROVE  \E f :
           /\ f[0] = [closure |-> s.closure, worklist |-> << >>, result |-> s.result, done |-> TRUE]
           /\ \A i \in 1..Len(s.worklist) : f[i] = ClosureStep(f[i - 1], s.worklist[i])
           /\ ClosurePass(s) = f[Len(s.worklist)]
<1>. DEFINE list == s.worklist
            n == Len(list)
            start == [closure |-> s.closure, worklist |-> << >>, result |-> s.result, done |-> TRUE]
            step == [p \in ClosureStates \X (1..n) |-> ClosureStep(p[1], list[p[2]])]
            after[i \in 0..n] == IF i = 0 THEN start ELSE ClosureStep(after[i - 1], list[i])
<1>1. n \in Nat /\ list \in Seq(Exprs)
  BY DEF ClosureStates
<1>2. start \in ClosureStates
  BY DEF ClosureStates
<1>3. step \in [ClosureStates \X (1..n) -> ClosureStates]
  BY <1>1, ClosureStepType
<1>4. ClosurePass(s) = after[n]
  BY Zenon DEF ClosurePass, ForEach
<1>5. \E f \in [0..n -> ClosureStates] :
        f[0] = start /\ \A i \in 1..n : f[i] = step[<<f[i - 1], i>>]
  <2>. HIDE DEF n, start, step
  <2>1. n \in Nat
    BY Zenon, <1>1
  <2>2. StepOf(step, ClosureStates, n)
    BY Zenon, <1>3 DEF StepOf
  <2>3. \E f : f \in [0..n -> ClosureStates] /\ RunOf(f, start, step, n)
    BY Zenon, <1>2, <2>1, <2>2, Iteration
  <2>4. QED
    BY <2>3, Zenon DEF RunOf
<1>6. PICK f \in [0..n -> ClosureStates] :
        f[0] = start /\ \A i \in 1..n : f[i] = step[<<f[i - 1], i>>]
  BY <1>5, Zenon
<1>7. ASSUME NEW i \in 1..n PROVE f[i] = ClosureStep(f[i - 1], list[i])
  <2>1. i - 1 \in 0..n
    BY <1>1
  <2>2. <<f[i - 1], i>> \in ClosureStates \X (1..n)
    BY Zenon, <2>1
  <2>3. step[<<f[i - 1], i>>] = ClosureStep(f[i - 1], list[i])
    BY <2>2, Zenon
  <2>4. QED
    BY <1>6, <2>3, Zenon
<1>. HIDE DEF start, step
<1>8. f = [i \in 0..n |-> IF i = 0 THEN start ELSE ClosureStep(f[i - 1], list[i])]
  BY <1>1, <1>6, <1>7
<1>9. after = [i \in 0..n |-> IF i = 0 THEN start ELSE ClosureStep(after[i - 1], list[i])]
  <2>. HIDE DEF n, list
  <2>1. QED
    BY <1>8, Zenon
<1>. HIDE DEF after
<1>10. after[0] = start /\ \A i \in 1..n : after[i] = ClosureStep(after[i - 1], list[i])
  <2>. HIDE DEF list, n
  <2>1. 0 \in 0..n /\ \A i \in 1..n : i \in 0..n /\ i # 0
    BY <1>1
  <2>2. QED
    BY <1>9, <2>1, Zenon
<1>11. QED
  BY Zenon, <1>4, <1>10 DEF start

-----------------------------------------------------------------------------
(* The bytes of an element set *)

Region(s) == {c \in Cells : c \in s.elements \/ c[1] \in s.wholeObjects}

\* What an expression reads, and how add, intersects and Modifies act on bytes.
LEMMA RegionOfExpr ==
  ASSUME NEW e
  PROVE  Region(IndependentElementSet(e)) = {c \in Cells : ReadsByte(e, c)}
<1>. DEFINE whole == {r[1] : r \in {x \in Reads(e) : x[2] = -1}}
<1>1. /\ IndependentElementSet(e).elements = {r \in Reads(e) : r[1] \notin whole}
      /\ IndependentElementSet(e).wholeObjects = whole
  BY Zenon DEF IndependentElementSet
<1>2. ASSUME NEW c \in Cells
      PROVE  (c \in {r \in Reads(e) : r[1] \notin whole} \/ c[1] \in whole) <=> ReadsByte(e, c)
  <2>1. c[1] \in whole <=> \E r \in Reads(e) : r[1] = c[1] /\ r[2] = -1
    BY Zenon
  <2>. HIDE DEF whole
  <2>2. QED
    BY Zenon, <2>1 DEF ReadsByte
<1>. HIDE DEF whole
<1>3. QED
  BY Zenon, <1>1, <1>2 DEF Region

\* add unites the bytes that two sets cover; sets that do not intersect share
\* none; a set that does not modify another adds nothing.
LEMMA RegionFacts ==
  ASSUME NEW a, NEW b
  PROVE  /\ Region(add(a, b)) = Region(a) \cup Region(b)
         /\ ~intersects(a, b) => Region(a) \cap Region(b) = {}
         /\ intersects(a, b) <=> intersects(b, a)
         /\ ~Modifies(a, b) => /\ add(a, b).elements = a.elements
                               /\ add(a, b).wholeObjects = a.wholeObjects
<1>1. /\ add(a, b).wholeObjects = a.wholeObjects \cup b.wholeObjects
      /\ add(a, b).elements = {x \in a.elements \cup b.elements :
                                 x[1] \notin a.wholeObjects \cup b.wholeObjects}
  BY Zenon DEF add
<1>2. Region(add(a, b)) = Region(a) \cup Region(b)
  BY Zenon, <1>1 DEF Region
<1>3. ~intersects(a, b) => Region(a) \cap Region(b) = {}
  BY DEF intersects, Region, ArraysOf
<1>4. intersects(a, b) <=> intersects(b, a)
  BY Zenon DEF intersects
<1>5. QED
  BY Zenon, <1>2, <1>3, <1>4 DEF Modifies

\* Whether two sets intersect depends on what they read only.
LEMMA IntersectsSame ==
  ASSUME NEW a, NEW b, NEW c, b.elements = c.elements, b.wholeObjects = c.wholeObjects
  PROVE  (intersects(a, b) <=> intersects(a, c)) /\ Region(b) = Region(c)
  BY Zenon DEF intersects, Region

\* Append adds one element to a sequence.
LEMMA RangeAppend ==
  ASSUME NEW S, NEW l \in Seq(S), NEW e
  PROVE  /\ Range(Append(l, e)) = Range(l) \cup {e}
         /\ Len(Append(l, e)) = Len(l) + 1
<1>1. /\ DOMAIN Append(l, e) = 1..(Len(l) + 1) /\ DOMAIN l = 1..Len(l) /\ Len(l) \in Nat
      /\ Append(l, e)[Len(l) + 1] = e /\ \A i \in 1..Len(l) : Append(l, e)[i] = l[i]
      /\ Len(Append(l, e)) = Len(l) + 1
  OBVIOUS
<1>2. Range(Append(l, e)) = {Append(l, e)[i] : i \in 1..(Len(l) + 1)} /\ Range(l) = {l[i] : i \in 1..Len(l)}
  BY Zenon, <1>1 DEF Range
<1>3. 1..(Len(l) + 1) = 1..Len(l) \cup {Len(l) + 1}
  BY <1>1
<1>4. QED
  BY <1>1, <1>2, <1>3

-----------------------------------------------------------------------------
(* getIndependentConstraints *)

\* While a pass runs: the closure covers the query and the constraints taken, no
\* constraint is lost, and those put back do not meet a closure that has not grown.
ClosureInv(q, t, rest) ==
    /\ t \in ClosureStates
    /\ \A e \in Range(t.result) \cup {q.expr} :
         Region(IndependentElementSet(e)) \subseteq Region(t.closure)
    /\ Range(t.result) \cup Range(t.worklist) \cup rest = Range(q.constraints)
    /\ t.done => \A e \in Range(t.worklist) : ~intersects(IndependentElementSet(e), t.closure)

\* A step of the closure loop takes the expression in or leaves it on the
\* worklist.
LEMMA ClosureStepInv ==
  ASSUME NEW q, NEW t, NEW e \in Exprs, NEW rest, ClosureInv(q, t, rest \cup {e})
  PROVE  /\ ClosureInv(q, ClosureStep(t, e), rest)
         /\ \/ /\ Len(ClosureStep(t, e).worklist) = Len(t.worklist) + 1
               /\ ClosureStep(t, e).done = t.done
            \/ Len(ClosureStep(t, e).worklist) = Len(t.worklist)
<1>. DEFINE ies == IndependentElementSet(e)
            u == ClosureStep(t, e)
<1>1. /\ t \in ClosureStates /\ t.worklist \in Seq(Exprs) /\ t.result \in Seq(Exprs)
      /\ \A x \in Range(t.result) \cup {q.expr} :
           Region(IndependentElementSet(x)) \subseteq Region(t.closure)
      /\ Range(t.result) \cup Range(t.worklist) \cup (rest \cup {e}) = Range(q.constraints)
      /\ t.done => \A x \in Range(t.worklist) : ~intersects(IndependentElementSet(x), t.closure)
  BY Zenon DEF ClosureInv, ClosureStates
<1>2. u \in ClosureStates
  BY Zenon, <1>1, ClosureStepType
<1>3. CASE intersects(ies, t.closure)
  <2>1. /\ u.closure = add(t.closure, ies) /\ u.worklist = t.worklist
        /\ u.result = Append(t.result, e) /\ u.done = (t.done /\ ~Modifies(t.closure, ies))
    BY Zenon, <1>3 DEF ClosureStep
  <2>2. Range(u.result) = Range(t.result) \cup {e}
    BY <1>1, <2>1, RangeAppend
  <2>3. Region(u.closure) = Region(t.closure) \cup Region(ies)
    BY <2>1, RegionFacts
  <2>. HIDE DEF u
  <2>4. \A x \in Range(u.result) \cup {q.expr} :
          Region(IndependentElementSet(x)) \subseteq Region(u.closure)
    BY Zenon, <1>1, <2>2, <2>3
  <2>5. ASSUME u.done, NEW x \in Range(u.worklist)
        PROVE  ~intersects(IndependentElementSet(x), u.closure)
    <3>1. t.done /\ ~Modifies(t.closure, ies) /\ x \in Range(t.worklist)
      BY <2>1, <2>5, Zenon
    <3>2. u.closure.elements = t.closure.elements /\ u.closure.wholeObjects = t.closure.wholeObjects
      BY <2>1, <3>1, RegionFacts
    <3>3. ~intersects(IndependentElementSet(x), t.closure)
      BY Zenon, <1>1, <3>1
    <3>4. QED
      BY Zenon, <3>2, <3>3, IntersectsSame
  <2>6. ClosureInv(q, u, rest)
    BY Zenon, <1>1, <1>2, <2>1, <2>2, <2>4, <2>5 DEF ClosureInv
  <2>7. QED
    BY Zenon, <2>1, <2>6 DEF u
<1>4. CASE ~intersects(ies, t.closure)
  <2>1. /\ u.closure = t.closure /\ u.worklist = Append(t.worklist, e)
        /\ u.result = t.result /\ u.done = t.done
    BY Zenon, <1>4 DEF ClosureStep
  <2>2. Range(u.worklist) = Range(t.worklist) \cup {e} /\ Len(u.worklist) = Len(t.worklist) + 1
    BY <1>1, <2>1, RangeAppend
  <2>. HIDE DEF u
  <2>3. ClosureInv(q, u, rest)
    BY Zenon, <1>1, <1>2, <1>4, <2>1, <2>2 DEF ClosureInv
  <2>4. QED
    BY Zenon, <2>1, <2>2, <2>3 DEF u
<1>5. QED
  BY Zenon, <1>3, <1>4

\* A pass keeps the invariant, and shortens the worklist unless it is the last.
LEMMA ClosurePassInv ==
  ASSUME WellOrdered, NEW q, NEW s, ClosureInv(q, s, {})
  PROVE  /\ ClosureInv(q, ClosurePass(s), {})
         /\ Len(ClosurePass(s).worklist) <= Len(s.worklist)
         /\ ClosurePass(s).done \/ Len(ClosurePass(s).worklist) < Len(s.worklist)
<1>. DEFINE list == s.worklist
            n == Len(list)
            Rest(i) == {list[j] : j \in (i + 1)..n}
<1>1. s \in ClosureStates /\ list \in Seq(Exprs) /\ n \in Nat /\ \A i \in 1..n : list[i] \in Exprs
  BY DEF ClosureInv, ClosureStates
<1>2. PICK f :
        /\ f[0] = [closure |-> s.closure, worklist |-> << >>, result |-> s.result, done |-> TRUE]
        /\ \A i \in 1..n : f[i] = ClosureStep(f[i - 1], list[i])
        /\ ClosurePass(s) = f[n]
  BY <1>1, ClosurePassRuns, Zenon
<1>. DEFINE P == {i \in 0..n : /\ ClosureInv(q, f[i], Rest(i))
                               /\ Len(f[i].worklist) \in Nat /\ Len(f[i].worklist) <= i
                               /\ f[i].done \/ Len(f[i].worklist) < i}
<1>3. 0 \in P
  <2>. DEFINE t == f[0]
  <2>1. /\ t \in ClosureStates /\ t.closure = s.closure /\ t.result = s.result
        /\ t.worklist = << >> /\ t.done
    BY <1>1, <1>2 DEF ClosureStates
  <2>2. Range(t.worklist) = {} /\ Len(t.worklist) = 0
    BY <2>1 DEF Range
  <2>3. Rest(0) = Range(list)
    BY <1>1 DEF Range
  <2>. HIDE DEF t, list, Rest, n
  <2>4. ClosureInv(q, t, Rest(0))
    BY <2>1, <2>2, <2>3 DEF ClosureInv, list
  <2>5. 0 \in 0..n
    BY <1>1
  <2>6. QED
    BY <2>1, <2>2, <2>4, <2>5 DEF t
<1>4. ASSUME NEW i \in 0..(n - 1), i \in P PROVE i + 1 \in P
  <2>. DEFINE e == list[i + 1]
  <2>1. i \in Nat /\ i + 1 \in 1..n /\ i + 1 \in 0..n /\ (i + 1) - 1 = i /\ e \in Exprs
    BY <1>1
  <2>2. f[i + 1] = ClosureStep(f[i], e)
    BY Zenon, <1>2, <2>1
  <2>3. Rest(i) = Rest(i + 1) \cup {e}
    <3>1. (i + 1)..n = ((i + 1) + 1)..n \cup {i + 1}
      BY <1>1, <2>1
    <3>2. QED
      BY Zenon, <3>1
  <2>4. /\ ClosureInv(q, f[i], Rest(i)) /\ Len(f[i].worklist) \in Nat
        /\ Len(f[i].worklist) <= i /\ (f[i].done \/ Len(f[i].worklist) < i)
    BY Zenon, <1>4
  <2>. HIDE DEF Rest, n, e, list
  <2>. DEFINE t == f[i]
              rest == Rest(i + 1)
  <2>5. ClosureInv(q, t, rest \cup {e})
    BY Zenon, <2>3, <2>4
  <2>. HIDE DEF t, rest
  <2>6. /\ ClosureInv(q, ClosureStep(t, e), rest)
        /\ \/ /\ Len(ClosureStep(t, e).worklist) = Len(t.worklist) + 1
              /\ ClosureStep(t, e).done = t.done
           \/ Len(ClosureStep(t, e).worklist) = Len(t.worklist)
    BY Zenon, <2>1, <2>5, ClosureStepInv
  <2>7. /\ ClosureInv(q, f[i + 1], Rest(i + 1))
        /\ \/ Len(f[i + 1].worklist) = Len(f[i].worklist) + 1 /\ f[i + 1].done = f[i].done
           \/ Len(f[i + 1].worklist) = Len(f[i].worklist)
    BY Zenon, <2>2, <2>6 DEF t, rest
  <2>8. QED
    BY <2>1, <2>4, <2>7
<1>. HIDE DEF P
<1>5. n \in P
  <2>. HIDE DEF n
  <2>1. \A i \in 0..n : i \in P
    BY Zenon, <1>1, <1>3, <1>4, Induction
  <2>2. QED
    BY <1>1, <2>1
<1>6. Rest(n) = {}
  BY <1>1
<1>7. QED
  BY <1>2, <1>5, <1>6, Zenon DEF P

\* Repeated passes are a run.
LEMMA RepeatClosureRuns ==
  ASSUME WellOrdered, NEW start \in ClosureStates, NEW n \in Nat,
         \A s \in ClosureStates : ClosurePass(s) \in ClosureStates
  PROVE  \E f :
           /\ f[0] = start
           /\ \A i \in 1..n : f[i] = IF f[i - 1].done THEN f[i - 1] ELSE ClosurePass(f[i - 1])
           /\ Repeat(ClosurePass, start, n) = f[n]
<1>. DEFINE Next(s) == IF s.done THEN s ELSE ClosurePass(s)
            step == [p \in ClosureStates \X (1..n) |-> Next(p[1])]
            after[i \in 0..n] == IF i = 0 THEN start
                                 ELSE IF after[i - 1].done THEN after[i - 1]
                                 ELSE ClosurePass(after[i - 1])
<1>1. step \in [ClosureStates \X (1..n) -> ClosureStates]
  BY Zenon
<1>2. Repeat(ClosurePass, start, n) = after[n]
  BY Zenon DEF Repeat
<1>3. \E f : f \in [0..n -> ClosureStates] /\ RunOf(f, start, step, n)
  <2>1. StepOf(step, ClosureStates, n)
    BY Zenon, <1>1 DEF StepOf
  <2>. HIDE DEF step
  <2>2. QED
    BY Zenon, <2>1, Iteration
<1>4. PICK f : f \in [0..n -> ClosureStates] /\ RunOf(f, start, step, n)
  BY <1>3, Zenon
<1>5. ASSUME NEW i \in 1..n PROVE f[i] = Next(f[i - 1])
  <2>1. i - 1 \in 0..n
    OBVIOUS
  <2>2. <<f[i - 1], i>> \in ClosureStates \X (1..n)
    BY Zenon, <1>4, <2>1
  <2>3. step[<<f[i - 1], i>>] = Next(f[i - 1])
    BY <2>2, Zenon
  <2>4. QED
    BY <1>4, <2>3, Zenon DEF RunOf
<1>6. f = [i \in 0..n |-> IF i = 0 THEN start ELSE Next(f[i - 1])]
  <2>1. f[0] = start /\ f \in [0..n -> ClosureStates]
    BY <1>4, Zenon DEF RunOf
  <2>. HIDE DEF Next, step
  <2>2. QED
    BY <2>1, <1>5
<1>. HIDE DEF step
<1>7. after = [i \in 0..n |-> IF i = 0 THEN start ELSE Next(after[i - 1])]
  BY <1>6, Zenon
<1>. HIDE DEF after
<1>8. after[0] = start /\ \A i \in 1..n : after[i] = Next(after[i - 1])
  <2>1. 0 \in 0..n /\ \A i \in 1..n : i \in 0..n /\ i # 0
    OBVIOUS
  <2>2. QED
    BY <1>7, <2>1, Zenon
<1>9. QED
  BY Zenon, <1>2, <1>8

\* A pass of the closure loop gives a state of the loop.
LEMMA ClosurePassType ==
  ASSUME WellOrdered, NEW s \in ClosureStates
  PROVE  ClosurePass(s) \in ClosureStates
<1>. DEFINE list == s.worklist
            n == Len(list)
<1>1. list \in Seq(Exprs) /\ n \in Nat /\ \A i \in 1..n : list[i] \in Exprs
  BY DEF ClosureStates
<1>2. PICK f :
        /\ f[0] = [closure |-> s.closure, worklist |-> << >>, result |-> s.result, done |-> TRUE]
        /\ \A i \in 1..n : f[i] = ClosureStep(f[i - 1], list[i])
        /\ ClosurePass(s) = f[n]
  BY <1>1, ClosurePassRuns, Zenon
<1>. DEFINE P == {i \in 0..n : f[i] \in ClosureStates}
<1>3. 0 \in P
  <2>1. f[0] \in ClosureStates
    BY <1>2 DEF ClosureStates
  <2>2. 0 \in 0..n
    BY <1>1
  <2>3. QED
    BY Zenon, <2>1, <2>2
<1>. HIDE DEF n, list
<1>4. ASSUME NEW i \in 0..(n - 1), i \in P PROVE i + 1 \in P
  <2>1. i + 1 \in 1..n /\ i + 1 \in 0..n /\ (i + 1) - 1 = i
    BY <1>1
  <2>2. f[i + 1] = ClosureStep(f[i], list[i + 1]) /\ list[i + 1] \in Exprs
    BY Zenon, <1>1, <1>2, <2>1
  <2>3. QED
    BY Zenon, <1>4, <2>1, <2>2, ClosureStepType
<1>. HIDE DEF P
<1>5. \A i \in 0..n : i \in P
  BY Zenon, <1>1, <1>3, <1>4, Induction
<1>6. QED
  BY <1>1, <1>2, <1>5 DEF P

\* The closure is reached within the bound: every pass but the last takes a
\* constraint from the worklist.
LEMMA ClosureReached ==
  ASSUME WellOrdered, NEW q, q.expr \in Exprs, q.constraints \in Seq(Exprs)
  PROVE  \E t : ClosureInv(q, t, {}) /\ t.done /\ getIndependentConstraints(q) = t.result
<1>. DEFINE N == Len(q.constraints)
            start == ClosureStart(q)
<1>1. N \in Nat /\ N + 1 \in Nat
  OBVIOUS
<1>2. /\ start.closure = IndependentElementSet(q.expr) /\ start.worklist = q.constraints
      /\ start.result = << >> /\ start.done = FALSE
  BY Zenon DEF ClosureStart
<1>3. start \in ClosureStates
  <2>1. IndependentElementSet(q.expr) \in ElementSets
    BY Zenon, ElementSetTypes
  <2>2. QED
    BY <2>1 DEF ClosureStart, ClosureStates
<1>. HIDE DEF start
<1>4. ClosureInv(q, start, {})
  <2>1. Range(start.result) = {}
    BY <1>2 DEF Range
  <2>2. QED
    BY Zenon, <1>2, <1>3, <2>1 DEF ClosureInv
<1>5. PICK f :
        /\ f[0] = start
        /\ \A i \in 1..(N + 1) : f[i] = IF f[i - 1].done THEN f[i - 1] ELSE ClosurePass(f[i - 1])
        /\ Repeat(ClosurePass, start, N + 1) = f[N + 1]
  <2>. HIDE DEF N
  <2>1. QED
    BY <1>1, <1>3, ClosurePassType, RepeatClosureRuns, Zenon
<1>6. getIndependentConstraints(q) = f[N + 1].result
  BY <1>5, Zenon DEF getIndependentConstraints, start
<1>. DEFINE P == {i \in 0..(N + 1) :
                    /\ ClosureInv(q, f[i], {}) /\ Len(f[i].worklist) \in Nat
                    /\ f[i].done \/ Len(f[i].worklist) <= N - i}
<1>7. 0 \in P
  BY <1>1, <1>2, <1>4, <1>5
<1>. HIDE DEF N
<1>8. ASSUME NEW i \in 0..((N + 1) - 1), i \in P PROVE i + 1 \in P
  <2>1. i \in Nat /\ i + 1 \in 1..(N + 1) /\ i + 1 \in 0..(N + 1) /\ (i + 1) - 1 = i
    BY <1>1
  <2>2. /\ ClosureInv(q, f[i], {}) /\ Len(f[i].worklist) \in Nat
        /\ f[i].done \/ Len(f[i].worklist) <= N - i
    BY Zenon, <1>8
  <2>3. f[i + 1] = IF f[i].done THEN f[i] ELSE ClosurePass(f[i])
    BY Zenon, <1>5, <2>1
  <2>4. CASE f[i].done
    BY Zenon, <2>1, <2>2, <2>3, <2>4
  <2>5. CASE ~f[i].done
    <3>. DEFINE s == f[i]
    <3>1. ClosureInv(q, s, {})
      BY Zenon, <2>2
    <3>. HIDE DEF s
    <3>2. /\ ClosureInv(q, ClosurePass(s), {})
          /\ ClosurePass(s).done \/ Len(ClosurePass(s).worklist) < Len(s.worklist)
      BY Zenon, <3>1, ClosurePassInv
    <3>3. Len(ClosurePass(s).worklist) \in Nat
      BY <3>2 DEF ClosureInv, ClosureStates
    <3>4. f[i + 1] = ClosurePass(s)
      BY Zenon, <2>3, <2>5 DEF s
    <3>5. Len(s.worklist) \in Nat /\ Len(s.worklist) <= N - i
      BY Zenon, <2>2, <2>5 DEF s
    <3>6. f[i + 1].done \/ Len(f[i + 1].worklist) <= N - (i + 1)
      BY <1>1, <2>1, <3>2, <3>3, <3>4, <3>5
    <3>7. QED
      BY Zenon, <2>1, <3>2, <3>3, <3>4, <3>6
  <2>6. QED
    BY Zenon, <2>4, <2>5
<1>. HIDE DEF P
<1>9. N + 1 \in P
  <2>1. \A i \in 0..(N + 1) : i \in P
    BY <1>1, <1>7, <1>8, Induction, Zenon
  <2>2. QED
    BY <1>1, <2>1
<1>10. ClosureInv(q, f[N + 1], {}) /\ f[N + 1].done
  BY <1>1, <1>9 DEF P
<1>11. QED
  BY Zenon, <1>6, <1>10

\* Two assignments can be joined along any set of bytes.
LEMMA Join ==
  ASSUME NEW a \in Assignments, NEW b \in Assignments, NEW R
  PROVE  [c \in Cells |-> IF c \in R THEN a[c] ELSE b[c]] \in Assignments
<1>. DEFINE bytes == UNION {Range(x) : x \in Assignments}
<1>1. Assignments = [Cells -> bytes]
  BY Zenon, ReadsAssumption
<1>. HIDE DEF bytes
<1>2. QED
  BY Zenon, <1>1

\* Asking r tells as much of the expression as asking q, and q can be satisfied.
SameAnswers(q, r) ==
    /\ r.expr = q.expr /\ Models(q) # {} /\ Models(q) \subseteq Models(r)
    /\ \A a \in Models(r) : \E b \in Models(q) : Holds(q.expr, a) <=> Holds(q.expr, b)

\* What a query says of its expression is decided by the constraints that the
\* independence solver keeps, as long as all of them can be satisfied together.
LEMMA IndependentSameAnswers ==
  ASSUME WellOrdered, NEW q, q.expr \in Exprs, q.constraints \in Seq(Exprs), Models(q) # {}
  PROVE  SameAnswers(q, Query(getIndependentConstraints(q), q.expr))
<1>. DEFINE r == Query(getIndependentConstraints(q), q.expr)
<1>1. PICK t : ClosureInv(q, t, {}) /\ t.done /\ getIndependentConstraints(q) = t.result
  BY Zenon, ClosureReached
<1>2. r.expr = q.expr /\ r.constraints = t.result
  BY Zenon, <1>1 DEF Query
<1>3. /\ Range(t.result) \cup Range(t.worklist) = Range(q.constraints)
      /\ \A e \in Range(t.result) \cup {q.expr} :
           Region(IndependentElementSet(e)) \subseteq Region(t.closure)
      /\ \A e \in Range(t.worklist) : ~intersects(IndependentElementSet(e), t.closure)
  BY Zenon, <1>1 DEF ClosureInv
<1>4. Range(q.constraints) \subseteq Exprs
  BY DEF Range
<1>. HIDE DEF r
<1>5. Models(r) \subseteq Assignments /\ Models(q) \subseteq Models(r)
  BY Zenon, <1>2, <1>3 DEF Models, Sat
<1>6. ASSUME NEW a \in Models(r)
      PROVE  \E b \in Models(q) : Holds(q.expr, a) <=> Holds(q.expr, b)
  <2>1. PICK m \in Models(q) : TRUE
    BY Zenon
  <2>. DEFINE b == [c \in Cells |-> IF c \in Region(t.closure) THEN a[c] ELSE m[c]]
  <2>2. a \in Assignments /\ m \in Assignments
    BY Zenon, <1>5, <2>1
  <2>3. b \in Assignments
    BY Zenon, <2>2, Join
  <2>4. /\ \A c \in Region(t.closure) : b[c] = a[c]
        /\ \A c \in Cells \ Region(t.closure) : b[c] = m[c]
    BY Zenon DEF Region
  <2>. HIDE DEF b
  <2>5. ASSUME NEW e \in Range(t.result) \cup {q.expr} PROVE Holds(e, a) <=> Holds(e, b)
    <3>1. e \in Exprs
      BY Zenon, <1>3, <1>4
    <3>2. \A c \in Cells : ReadsByte(e, c) => c \in Region(t.closure)
      BY Zenon, <1>3, RegionOfExpr
    <3>3. \A c \in Cells : ReadsByte(e, c) => a[c] = b[c]
      BY Zenon, <2>4, <3>2
    <3>4. QED
      BY Zenon, <2>2, <2>3, <3>1, <3>3, ReadsAssumption
  <2>6. ASSUME NEW e \in Range(t.worklist) PROVE Holds(e, m) <=> Holds(e, b)
    <3>1. e \in Exprs
      BY Zenon, <1>3, <1>4
    <3>2. Region(IndependentElementSet(e)) \cap Region(t.closure) = {}
      BY Zenon, <1>3, RegionFacts
    <3>3. \A c \in Cells : ReadsByte(e, c) => c \in Cells \ Region(t.closure)
      BY Zenon, <3>2, RegionOfExpr
    <3>4. \A c \in Cells : ReadsByte(e, c) => m[c] = b[c]
      BY Zenon, <2>4, <3>3
    <3>5. QED
      BY Zenon, <2>2, <2>3, <3>1, <3>4, ReadsAssumption
  <2>7. \A e \in Range(t.result) : Holds(e, a)
    BY Zenon, <1>2, <1>6 DEF Models, Sat
  <2>8. \A e \in Range(t.worklist) : Holds(e, m)
    BY Zenon, <1>3, <2>1 DEF Models, Sat
  <2>9. b \in Models(q)
    BY Zenon, <1>3, <2>3, <2>5, <2>6, <2>7, <2>8 DEF Models, Sat
  <2>10. QED
    BY Zenon, <2>5, <2>9
<1>7. SameAnswers(q, r)
  BY Zenon, <1>2, <1>5, <1>6 DEF SameAnswers
<1>8. QED
  BY Zenon, <1>7 DEF r

-----------------------------------------------------------------------------
(* getAllIndependentConstraintsSets *)

AbsorbStates == [current : ElementSets, keep : Seq(ElementSets), same : BOOLEAN]
QueueStates ==
    {s \in [queue : Seq(ElementSets), merged : Seq(ElementSets), same : BOOLEAN, done : BOOLEAN] :
       s.done <=> s.queue = << >>}

\* A step of the absorbing loop gives a state of the loop.
LEMMA AbsorbStepType ==
  ASSUME NEW t \in AbsorbStates, NEW f \in ElementSets
  PROVE  AbsorbStep(t, f) \in AbsorbStates
<1>1. t.current \in ElementSets /\ t.keep \in Seq(ElementSets) /\ t.same \in BOOLEAN
  BY Zenon DEF AbsorbStates
<1>2. add(t.current, f) \in ElementSets /\ Append(t.keep, f) \in Seq(ElementSets)
  BY <1>1, ElementSetTypes
<1>3. (t.same /\ ~Modifies(t.current, f)) \in BOOLEAN
  BY Zenon
<1>4. QED
  BY Zenon, <1>1, <1>2, <1>3 DEF AbsorbStep, AbsorbStates

\* The inner loop of getAllIndependentConstraintsSets: its states and its result.
LEMMA AbsorbRuns ==
  ASSUME WellOrdered, NEW s \in QueueStates, ~s.done
  PROVE  LET list == Tail(s.queue)
             n == Len(list)
         IN  /\ list \in Seq(ElementSets) /\ n \in Nat /\ Len(s.queue) = n + 1
             /\ Range(s.queue) = {Head(s.queue)} \cup Range(list)
             /\ Head(s.queue) \in ElementSets
             /\ \E f :
                  /\ f \in [0..n -> AbsorbStates]
                  /\ f[0] = [current |-> Head(s.queue), keep |-> << >>, same |-> s.same]
                  /\ \A i \in 1..n : f[i] = AbsorbStep(f[i - 1], list[i])
                  /\ Absorb(s) = [queue |-> f[n].keep, merged |-> Append(s.merged, f[n].current),
                                  same |-> f[n].same, done |-> f[n].keep = << >>]
<1>. DEFINE list == Tail(s.queue)
            n == Len(list)
            start == [current |-> Head(s.queue), keep |-> << >>, same |-> s.same]
            step == [p \in AbsorbStates \X (1..n) |-> AbsorbStep(p[1], list[p[2]])]
            after[i \in 0..n] == IF i = 0 THEN start ELSE AbsorbStep(after[i - 1], list[i])
<1>1. s.queue \in Seq(ElementSets) /\ s.queue # << >> /\ s.same \in BOOLEAN
  BY Zenon DEF QueueStates
<1>2. /\ list \in Seq(ElementSets) /\ n \in Nat /\ Len(s.queue) = n + 1
      /\ Head(s.queue) \in ElementSets /\ s.queue[1] = Head(s.queue)
      /\ \A i \in 1..n : list[i] = s.queue[i + 1] /\ list[i] \in ElementSets
  BY <1>1
<1>3. Range(s.queue) = {Head(s.queue)} \cup Range(list)
  <2>1. DOMAIN s.queue = 1..(n + 1) /\ DOMAIN list = 1..n
    BY <1>1, <1>2
  <2>2. 1..(n + 1) = {1} \cup {i + 1 : i \in 1..n}
    <3>1. ASSUME NEW j \in 1..(n + 1), j # 1 PROVE \E i \in 1..n : j = i + 1
      <4>1. j - 1 \in 1..n /\ j = (j - 1) + 1
        BY <1>2, <3>1
      <4>2. QED
        BY Zenon, <4>1
    <3>2. 1 \in 1..(n + 1) /\ \A i \in 1..n : i + 1 \in 1..(n + 1)
      BY <1>2
    <3>3. QED
      BY Zenon, <3>1, <3>2
  <2>3. Range(s.queue) = {s.queue[j] : j \in 1..(n + 1)} /\ Range(list) = {list[i] : i \in 1..n}
    BY <2>1, Zenon DEF Range
  <2>4. {s.queue[j] : j \in 1..(n + 1)} = {s.queue[1]} \cup {s.queue[i + 1] : i \in 1..n}
    BY Zenon, <2>2
  <2>5. {s.queue[i + 1] : i \in 1..n} = {list[i] : i \in 1..n}
    BY Zenon, <1>2
  <2>6. QED
    BY <1>2, <2>3, <2>4, <2>5, Zenon
<1>4. start \in AbsorbStates
  BY <1>1, <1>2 DEF AbsorbStates
<1>5. step \in [AbsorbStates \X (1..n) -> AbsorbStates]
  BY Zenon, <1>2, AbsorbStepType
<1>6. Absorb(s) = [queue |-> after[n].keep, merged |-> Append(s.merged, after[n].current),
                   same |-> after[n].same, done |-> after[n].keep = << >>]
  BY Zenon DEF Absorb, ForEach
<1>7. \E f : f \in [0..n -> AbsorbStates] /\ RunOf(f, start, step, n)
  <2>1. StepOf(step, AbsorbStates, n)
    BY Zenon, <1>5 DEF StepOf
  <2>2. n \in Nat
    BY Zenon, <1>2
  <2>. HIDE DEF n, start, step
  <2>3. QED
    BY Zenon, <1>4, <2>1, <2>2, Iteration
<1>8. PICK f : f \in [0..n -> AbsorbStates] /\ RunOf(f, start, step, n)
  BY <1>7, Zenon
<1>9. ASSUME NEW i \in 1..n PROVE f[i] = AbsorbStep(f[i - 1], list[i])
  <2>1. i - 1 \in 0..n
    BY <1>2
  <2>2. <<f[i - 1], i>> \in AbsorbStates \X (1..n)
    BY Zenon, <1>8, <2>1
  <2>3. step[<<f[i - 1], i>>] = AbsorbStep(f[i - 1], list[i])
    BY <2>2, Zenon
  <2>4. QED
    BY <1>8, <2>3, Zenon DEF RunOf
<1>. HIDE DEF start, step
<1>10. f = [i \in 0..n |-> IF i = 0 THEN start ELSE AbsorbStep(f[i - 1], list[i])]
  <2>1. f[0] = start /\ f \in [0..n -> AbsorbStates]
    BY <1>8, Zenon DEF RunOf
  <2>. HIDE DEF n, list
  <2>2. QED
    BY <2>1, <1>9
<1>11. after = [i \in 0..n |-> IF i = 0 THEN start ELSE AbsorbStep(after[i - 1], list[i])]
  <2>. HIDE DEF n, list
  <2>1. QED
    BY <1>10, Zenon
<1>. HIDE DEF after
<1>12. after[0] = start /\ \A i \in 1..n : after[i] = AbsorbStep(after[i - 1], list[i])
  <2>1. 0 \in 0..n /\ \A i \in 1..n : i \in 0..n /\ i # 0
    BY <1>2
  <2>. HIDE DEF n, list
  <2>2. QED
    BY <1>11, <2>1, Zenon
<1>13. after \in [0..n -> AbsorbStates]
  <2>. DEFINE P == {i \in 0..n : after[i] \in AbsorbStates}
  <2>1. n \in Nat
    BY Zenon, <1>2
  <2>2. \A i \in 1..n : list[i] \in ElementSets
    BY Zenon, <1>2
  <2>. HIDE DEF n, list
  <2>3. 0 \in P
    BY <1>4, <1>12, <2>1
  <2>4. ASSUME NEW i \in 0..(n - 1), i \in P PROVE i + 1 \in P
    <3>1. i + 1 \in 1..n /\ i + 1 \in 0..n /\ (i + 1) - 1 = i
      BY <2>1
    <3>2. after[i + 1] = AbsorbStep(after[i], list[i + 1])
      BY Zenon, <1>12, <3>1
    <3>3. QED
      BY Zenon, <2>2, <2>4, <3>1, <3>2, AbsorbStepType
  <2>. HIDE DEF P
  <2>5. \A i \in 0..n : i \in P
    BY Zenon, <2>1, <2>3, <2>4, Induction
  <2>6. \A i \in 0..n : after[i] \in AbsorbStates
    BY Zenon, <2>5 DEF P
  <2>7. QED
    BY Zenon, <1>11, <2>6
<1>14. QED
  BY <1>2, <1>3, <1>6, <1>12, <1>13, Zenon DEF start

\* A factor of the expressions K: it covers what its expressions read.
FactorOf(K, f) ==
    /\ f \in ElementSets /\ Range(f.exprs) \subseteq K
    /\ \A e \in Range(f.exprs) : Region(IndependentElementSet(e)) \subseteq Region(f)

Covers(F, K) == \A e \in K : \E f \in F : e \in Range(f.exprs)

\* The factors of a list do not meet one another.
Separate(list) ==
    \A i, j \in 1..Len(list) : i # j => ~intersects(list[i], list[j])

\* While the current factor takes in what it meets: nothing is lost, and as long
\* as nothing has grown the factors done with are separate from all others.
AbsorbInv(K, s, t, rest) ==
    /\ t \in AbsorbStates
    /\ \A f \in Range(s.merged) \cup {t.current} \cup Range(t.keep) \cup rest : FactorOf(K, f)
    /\ Covers(Range(s.merged) \cup {t.current} \cup Range(t.keep) \cup rest, K)
    /\ t.same => /\ Separate(s.merged)
                 /\ \A g \in Range(s.merged), f \in {t.current} \cup Range(t.keep) \cup rest :
                      ~intersects(g, f)
                 /\ \A f \in Range(t.keep) : ~intersects(t.current, f)

\* A concatenation has the elements of both sequences.
LEMMA RangeConcatenation ==
  ASSUME NEW S, NEW x \in Seq(S), NEW y \in Seq(S)
  PROVE  Range(x \o y) = Range(x) \cup Range(y)
<1>. DEFINE z == x \o y
<1>2. /\ Len(x) \in Nat /\ Len(y) \in Nat /\ Len(z) = Len(x) + Len(y)
      /\ DOMAIN x = 1..Len(x) /\ DOMAIN y = 1..Len(y) /\ DOMAIN z = 1..(Len(x) + Len(y))
      /\ \A i \in 1..Len(x) : z[i] = x[i]
      /\ \A i \in 1..Len(y) : z[Len(x) + i] = y[i]
  OBVIOUS
<1>. HIDE DEF z
<1>3. Range(z) \subseteq Range(x) \cup Range(y)
  <2>1. ASSUME NEW i \in 1..(Len(x) + Len(y)) PROVE z[i] \in Range(x) \cup Range(y)
    <3>1. CASE i \in 1..Len(x)
      BY Zenon, <1>2, <3>1 DEF Range
    <3>2. CASE i \notin 1..Len(x)
      <4>1. i - Len(x) \in 1..Len(y) /\ i = Len(x) + (i - Len(x))
        BY <1>2, <3>2
      <4>2. z[i] = y[i - Len(x)]
        BY Zenon, <1>2, <4>1
      <4>3. QED
        BY Zenon, <1>2, <4>1, <4>2 DEF Range
    <3>3. QED
      BY Zenon, <3>1, <3>2
  <2>2. QED
    BY <1>2, <2>1 DEF Range
<1>4. Range(x) \subseteq Range(z)
  <2>1. \A i \in 1..Len(x) : i \in 1..(Len(x) + Len(y))
    BY <1>2
  <2>2. QED
    BY Zenon, <1>2, <2>1 DEF Range
<1>5. Range(y) \subseteq Range(z)
  <2>1. \A i \in 1..Len(y) : Len(x) + i \in 1..(Len(x) + Len(y))
    BY <1>2
  <2>2. QED
    BY <1>2, <2>1 DEF Range
<1>6. QED
  BY Zenon, <1>3, <1>4, <1>5 DEF z

\* add keeps the expressions of both sets.
LEMMA ExprsOfAdd ==
  ASSUME NEW a \in ElementSets, NEW b \in ElementSets
  PROVE  Range(add(a, b).exprs) = Range(a.exprs) \cup Range(b.exprs)
<1>1. add(a, b).exprs = a.exprs \o b.exprs /\ a.exprs \in Seq(Exprs) /\ b.exprs \in Seq(Exprs)
  BY Zenon DEF add, ElementSets
<1>2. QED
  BY <1>1, RangeConcatenation

\* The union of two factors of a query is one.
LEMMA AddIsFactor ==
  ASSUME NEW K, NEW a, NEW b, FactorOf(K, a), FactorOf(K, b)
  PROVE  /\ FactorOf(K, add(a, b))
         /\ Range(add(a, b).exprs) = Range(a.exprs) \cup Range(b.exprs)
<1>1. a \in ElementSets /\ b \in ElementSets
  BY Zenon DEF FactorOf
<1>2. Range(add(a, b).exprs) = Range(a.exprs) \cup Range(b.exprs)
  BY Zenon, <1>1, ExprsOfAdd
<1>3. Region(add(a, b)) = Region(a) \cup Region(b)
  BY Zenon, RegionFacts
<1>4. add(a, b) \in ElementSets
  BY Zenon, <1>1, ElementSetTypes
<1>5. QED
  BY Zenon, <1>2, <1>3, <1>4 DEF FactorOf

\* A step absorbs a set that intersects the current one or keeps it for later.
LEMMA AbsorbStepInv ==
  ASSUME NEW K, NEW s, NEW t, NEW f, NEW rest, AbsorbInv(K, s, t, rest \cup {f})
  PROVE  /\ AbsorbInv(K, s, AbsorbStep(t, f), rest)
         /\ \/ /\ Len(AbsorbStep(t, f).keep) = Len(t.keep) + 1
               /\ AbsorbStep(t, f).same = t.same
            \/ Len(AbsorbStep(t, f).keep) = Len(t.keep)
<1>. DEFINE u == AbsorbStep(t, f)
            M == Range(s.merged)
<1>1. /\ t \in AbsorbStates /\ t.keep \in Seq(ElementSets)
      /\ \A g \in M \cup {t.current} \cup Range(t.keep) \cup (rest \cup {f}) : FactorOf(K, g)
      /\ Covers(M \cup {t.current} \cup Range(t.keep) \cup (rest \cup {f}), K)
      /\ t.same => /\ Separate(s.merged)
                   /\ \A g \in M, h \in {t.current} \cup Range(t.keep) \cup (rest \cup {f}) :
                        ~intersects(g, h)
                   /\ \A h \in Range(t.keep) : ~intersects(t.current, h)
  BY Zenon DEF AbsorbInv, AbsorbStates
<1>2. FactorOf(K, f) /\ FactorOf(K, t.current)
  BY Zenon, <1>1
<1>3. u \in AbsorbStates
  BY Zenon, <1>1, <1>2, AbsorbStepType DEF FactorOf
<1>. HIDE DEF M
<1>4. CASE intersects(t.current, f)
  <2>1. /\ u.current = add(t.current, f) /\ u.keep = t.keep
        /\ u.same = (t.same /\ ~Modifies(t.current, f))
    BY Zenon, <1>4 DEF AbsorbStep
  <2>. HIDE DEF u
  <2>2. /\ FactorOf(K, u.current)
        /\ Range(u.current.exprs) = Range(t.current.exprs) \cup Range(f.exprs)
    <3>1. FactorOf(K, add(t.current, f))
      BY <1>2, AddIsFactor, Zenon
    <3>2. t.current \in ElementSets /\ f \in ElementSets
      BY <1>2, Zenon DEF FactorOf
    <3>3. Range(add(t.current, f).exprs) = Range(t.current.exprs) \cup Range(f.exprs)
      BY <3>2, ExprsOfAdd, Zenon
    <3>4. u.current = add(t.current, f)
      BY <2>1, Zenon
    <3>5. QED
      BY <3>1, <3>3, <3>4, Zenon
  <2>3. \A g \in M \cup {u.current} \cup Range(u.keep) \cup rest : FactorOf(K, g)
    BY Zenon, <1>1, <2>1, <2>2
  <2>4. Covers(M \cup {u.current} \cup Range(u.keep) \cup rest, K)
    BY Zenon, <1>1, <2>1, <2>2 DEF Covers
  <2>5. ASSUME u.same
        PROVE  /\ Separate(s.merged)
               /\ \A g \in M, h \in {u.current} \cup Range(u.keep) \cup rest : ~intersects(g, h)
               /\ \A h \in Range(u.keep) : ~intersects(u.current, h)
    <3>1. t.same /\ ~Modifies(t.current, f)
      BY <2>1, <2>5, Zenon
    <3>2. /\ u.current.elements = t.current.elements
          /\ u.current.wholeObjects = t.current.wholeObjects
      <4>1. /\ add(t.current, f).elements = t.current.elements
            /\ add(t.current, f).wholeObjects = t.current.wholeObjects
        BY <3>1, RegionFacts, Zenon
      <4>2. u.current = add(t.current, f)
        BY <2>1, Zenon
      <4>3. QED
        BY <4>1, <4>2, Zenon
    <3>3. \A g \in M : ~intersects(g, u.current)
      <4>1. \A g \in M : ~intersects(g, t.current)
        BY Zenon, <1>1, <3>1
      <4>2. QED
        BY Zenon, <3>2, <4>1, IntersectsSame
    <3>4. \A h \in Range(u.keep) : ~intersects(u.current, h)
      <4>1. \A h \in Range(t.keep) : ~intersects(t.current, h)
        BY Zenon, <1>1, <3>1
      <4>2. \A h \in Range(t.keep) : ~intersects(h, t.current)
        BY Zenon, <4>1, RegionFacts
      <4>3. \A h \in Range(t.keep) : ~intersects(h, u.current)
        BY Zenon, <3>2, <4>2, IntersectsSame
      <4>4. QED
        BY Zenon, <2>1, <4>3, RegionFacts
    <3>5. QED
      BY Zenon, <1>1, <2>1, <3>1, <3>3, <3>4
  <2>6. AbsorbInv(K, s, u, rest)
    BY Zenon, <1>3, <2>3, <2>4, <2>5 DEF AbsorbInv, M
  <2>7. QED
    BY Zenon, <2>1, <2>6 DEF u
<1>5. CASE ~intersects(t.current, f)
  <2>1. u.current = t.current /\ u.keep = Append(t.keep, f) /\ u.same = t.same
    BY Zenon, <1>5 DEF AbsorbStep
  <2>2. Range(u.keep) = Range(t.keep) \cup {f} /\ Len(u.keep) = Len(t.keep) + 1
    BY Zenon, <1>1, <2>1, RangeAppend
  <2>. HIDE DEF u
  <2>3. M \cup {u.current} \cup Range(u.keep) \cup rest = M \cup {t.current} \cup Range(t.keep) \cup (rest \cup {f})
    BY Zenon, <2>1, <2>2
  <2>4. {u.current} \cup Range(u.keep) \cup rest = {t.current} \cup Range(t.keep) \cup (rest \cup {f})
    BY Zenon, <2>1, <2>2
  <2>5. u.same => \A h \in Range(u.keep) : ~intersects(u.current, h)
    BY Zenon, <1>1, <1>5, <2>1, <2>2
  <2>6. AbsorbInv(K, s, u, rest)
    BY <1>1, <1>3, <2>1, <2>3, <2>4, <2>5, Zenon DEF AbsorbInv, M
  <2>7. QED
    BY Zenon, <2>1, <2>2, <2>6 DEF u
<1>6. QED
  BY Zenon, <1>4, <1>5

\* Between two rounds: the queue holds what is still to be merged.
QueueInv(K, s) ==
    /\ s \in QueueStates
    /\ \A f \in Range(s.merged) \cup Range(s.queue) : FactorOf(K, f)
    /\ Covers(Range(s.merged) \cup Range(s.queue), K)
    /\ s.same => /\ Separate(s.merged)
                 /\ \A g \in Range(s.merged), f \in Range(s.queue) : ~intersects(g, f)

\* A set that intersects none of a list of separate sets can join it.
LEMMA SeparateAppend ==
  ASSUME NEW l \in Seq(ElementSets), Separate(l), NEW f,
         \A g \in Range(l) : ~intersects(g, f)
  PROVE  Separate(Append(l, f))
<1>1. /\ Len(l) \in Nat /\ Len(Append(l, f)) = Len(l) + 1 /\ Append(l, f)[Len(l) + 1] = f
      /\ \A i \in 1..Len(l) : Append(l, f)[i] = l[i] /\ l[i] \in Range(l)
  BY DEF Range
<1>. DEFINE m == Append(l, f)
<1>2. ASSUME NEW i \in 1..(Len(l) + 1), NEW j \in 1..(Len(l) + 1), i # j
      PROVE  ~intersects(m[i], m[j])
  <2>. HIDE DEF m
  <2>1. CASE i \in 1..Len(l) /\ j \in 1..Len(l)
    BY Zenon, <1>1, <1>2, <2>1 DEF Separate, m
  <2>2. CASE i \in 1..Len(l) /\ j = Len(l) + 1
    BY Zenon, <1>1, <2>2 DEF m
  <2>3. CASE j \in 1..Len(l) /\ i = Len(l) + 1
    <3>1. ~intersects(m[j], m[i])
      BY Zenon, <1>1, <2>3 DEF m
    <3>2. QED
      BY Zenon, <3>1, RegionFacts
  <2>4. Len(l) \in Nat
    BY <1>1, Zenon
  <2>5. i \in 1..Len(l) \/ i = Len(l) + 1
    BY <2>4
  <2>6. j \in 1..Len(l) \/ j = Len(l) + 1
    BY <2>4
  <2>7. QED
    BY <1>2, <2>1, <2>2, <2>3, <2>5, <2>6, Zenon
<1>3. QED
  BY Zenon, <1>1, <1>2 DEF Separate

\* How much is left when the head of n + 1 sets has been absorbed.
LEMMA Shorter ==
  ASSUME NEW n \in Nat, NEW k \in Nat, k <= n, NEW m, m = n + 1, NEW a, NEW b,
         a \/ ~b \/ k < n
  PROVE  k < m /\ (a \/ ~b \/ k + 1 < m)
  OBVIOUS

\* Absorbing the head of the queue keeps the factors, and shortens the queue.
LEMMA AbsorbKeeps ==
  ASSUME WellOrdered, NEW K, NEW s, QueueInv(K, s), ~s.done
  PROVE  /\ QueueInv(K, Absorb(s))
         /\ Len(Absorb(s).queue) < Len(s.queue)
         /\ Len(Absorb(s).merged) = Len(s.merged) + 1
         /\ Absorb(s).same \/ ~s.same \/ Len(Absorb(s).queue) + 1 < Len(s.queue)
<1>. DEFINE list == Tail(s.queue)
            n == Len(list)
            head == Head(s.queue)
            Rest(i) == {list[j] : j \in (i + 1)..n}
<1>1. /\ s \in QueueStates /\ s.merged \in Seq(ElementSets) /\ s.same \in BOOLEAN
  BY Zenon DEF QueueInv, QueueStates
<1>2. /\ list \in Seq(ElementSets) /\ n \in Nat /\ Len(s.queue) = n + 1
      /\ Range(s.queue) = {head} \cup Range(list)
      /\ head \in ElementSets
      /\ \E f :
           /\ f \in [0..n -> AbsorbStates]
           /\ f[0] = [current |-> head, keep |-> << >>, same |-> s.same]
           /\ \A i \in 1..n : f[i] = AbsorbStep(f[i - 1], list[i])
           /\ Absorb(s) = [queue |-> f[n].keep, merged |-> Append(s.merged, f[n].current),
                           same |-> f[n].same, done |-> f[n].keep = << >>]
  BY <1>1, AbsorbRuns, Zenon
<1>3. PICK f :
           /\ f \in [0..n -> AbsorbStates]
           /\ f[0] = [current |-> head, keep |-> << >>, same |-> s.same]
           /\ \A i \in 1..n : f[i] = AbsorbStep(f[i - 1], list[i])
           /\ Absorb(s) = [queue |-> f[n].keep, merged |-> Append(s.merged, f[n].current),
                           same |-> f[n].same, done |-> f[n].keep = << >>]
  BY <1>2, Zenon
<1>. DEFINE P == {i \in 0..n : /\ AbsorbInv(K, s, f[i], Rest(i))
                               /\ Len(f[i].keep) \in Nat /\ Len(f[i].keep) <= i
                               /\ f[i].same \/ ~s.same \/ Len(f[i].keep) < i}
<1>4. 0 \in P
  <2>. DEFINE t == f[0]
  <2>1. t \in AbsorbStates /\ t.current = head /\ t.keep = << >> /\ t.same = s.same
    <3>1. 0 \in 0..n
      BY <1>2
    <3>. HIDE DEF n, head, list
    <3>2. t \in AbsorbStates
      BY Zenon, <1>3, <3>1
    <3>3. QED
      BY <1>3, <3>2
  <2>2. Range(t.keep) = {} /\ Len(t.keep) = 0
    BY <2>1 DEF Range
  <2>3. Rest(0) = Range(list)
    <3>1. list \in Seq(ElementSets) /\ n = Len(list)
      BY Zenon, <1>2
    <3>. HIDE DEF list
    <3>2. DOMAIN list = 1..n /\ (0 + 1)..n = 1..n
      BY <3>1
    <3>3. QED
      BY Zenon, <3>2 DEF Range
  <2>. HIDE DEF t, list, Rest, n, head
  <2>4. {t.current} \cup Range(t.keep) \cup Rest(0) = Range(s.queue)
    BY Zenon, <1>2, <2>1, <2>2, <2>3
  <2>5. Range(s.merged) \cup {t.current} \cup Range(t.keep) \cup Rest(0)
          = Range(s.merged) \cup Range(s.queue)
    BY Zenon, <2>4
  <2>6. AbsorbInv(K, s, t, Rest(0))
    BY <2>1, <2>2, <2>4, <2>5, Zenon DEF AbsorbInv, QueueInv
  <2>7. 0 \in 0..n
    BY <1>2
  <2>8. QED
    BY <2>1, <2>2, <2>6, <2>7 DEF t
<1>5. ASSUME NEW i \in 0..(n - 1), i \in P PROVE i + 1 \in P
  <2>. DEFINE e == list[i + 1]
              t == f[i]
              rest == Rest(i + 1)
  <2>1. i \in Nat /\ i + 1 \in 1..n /\ i + 1 \in 0..n /\ (i + 1) - 1 = i
    BY <1>2
  <2>2. f[i + 1] = AbsorbStep(t, e)
    BY Zenon, <1>3, <2>1
  <2>3. Rest(i) = rest \cup {e}
    <3>1. (i + 1)..n = ((i + 1) + 1)..n \cup {i + 1}
      BY <1>2, <2>1
    <3>2. QED
      BY <3>1, Zenon
  <2>4. /\ AbsorbInv(K, s, t, rest \cup {e}) /\ Len(t.keep) \in Nat
        /\ Len(t.keep) <= i /\ (t.same \/ ~s.same \/ Len(t.keep) < i)
    BY <1>5, <2>3, Zenon
  <2>. HIDE DEF Rest, n, e, list, t, rest
  <2>5. /\ AbsorbInv(K, s, AbsorbStep(t, e), rest)
        /\ \/ Len(AbsorbStep(t, e).keep) = Len(t.keep) + 1 /\ AbsorbStep(t, e).same = t.same
           \/ Len(AbsorbStep(t, e).keep) = Len(t.keep)
    BY <2>4, AbsorbStepInv
  <2>6. QED
    BY <2>1, <2>2, <2>4, <2>5 DEF rest
<1>. HIDE DEF P
<1>6. n \in P
  <2>1. n \in Nat
    BY Zenon, <1>2
  <2>. HIDE DEF n
  <2>2. \A i \in 0..n : i \in P
    BY Zenon, <2>1, <1>4, <1>5, Induction
  <2>3. QED
    BY <2>1, <2>2
<1>. DEFINE t == f[n]
<1>7. Rest(n) = {}
  BY <1>2
<1>8. /\ AbsorbInv(K, s, t, {}) /\ Len(t.keep) \in Nat /\ Len(t.keep) <= n
      /\ t.same \/ ~s.same \/ Len(t.keep) < n
  BY <1>6, <1>7, Zenon DEF P
<1>. DEFINE u == Absorb(s)
<1>9. /\ u.queue = t.keep /\ u.merged = Append(s.merged, t.current) /\ u.same = t.same
      /\ u.done = (t.keep = << >>)
      /\ u = [queue |-> u.queue, merged |-> u.merged, same |-> u.same, done |-> u.done]
  BY <1>3
<1>. HIDE DEF t, u, n
<1>10. /\ t \in AbsorbStates /\ t.current \in ElementSets /\ t.keep \in Seq(ElementSets)
       /\ t.same \in BOOLEAN
  BY Zenon, <1>8 DEF AbsorbInv, AbsorbStates
<1>11. Range(u.merged) = Range(s.merged) \cup {t.current} /\ Len(u.merged) = Len(s.merged) + 1
  BY <1>1, <1>9, RangeAppend
<1>12. u \in QueueStates
  <2>1. u.done \in BOOLEAN /\ u.merged \in Seq(ElementSets)
    BY <1>1, <1>9, <1>10
  <2>2. QED
    BY <1>9, <1>10, <2>1, Zenon DEF QueueStates
<1>13. Range(u.merged) \cup Range(u.queue) = Range(s.merged) \cup {t.current} \cup Range(t.keep) \cup {}
  BY Zenon, <1>9, <1>11
<1>14. ASSUME u.same
       PROVE  Separate(u.merged) /\ \A g \in Range(u.merged), h \in Range(u.queue) : ~intersects(g, h)
  <2>1. /\ Separate(s.merged)
        /\ \A g \in Range(s.merged), h \in {t.current} \cup Range(t.keep) \cup {} : ~intersects(g, h)
        /\ \A h \in Range(t.keep) : ~intersects(t.current, h)
    BY Zenon, <1>8, <1>9, <1>14 DEF AbsorbInv
  <2>2. Separate(u.merged)
    BY Zenon, <1>1, <1>9, <2>1, SeparateAppend
  <2>3. QED
    BY Zenon, <1>9, <1>11, <2>1, <2>2
<1>15. QueueInv(K, u)
  BY <1>8, <1>12, <1>13, <1>14, Zenon DEF QueueInv, AbsorbInv
<1>16. u.queue = t.keep /\ u.same = t.same
  BY <1>9, Zenon
<1>17. /\ Len(t.keep) < Len(s.queue)
       /\ t.same \/ ~s.same \/ Len(t.keep) + 1 < Len(s.queue)
  BY <1>2, <1>8, Shorter, Zenon
<1>18. QED
  BY <1>11, <1>15, <1>16, <1>17, Zenon DEF u

\* Absorbing the head of the queue gives a state of the loop.
LEMMA AbsorbType ==
  ASSUME WellOrdered, NEW s \in QueueStates, ~s.done
  PROVE  Absorb(s) \in QueueStates
<1>. DEFINE n == Len(Tail(s.queue))
<1>1. s.merged \in Seq(ElementSets) /\ n \in Nat
  BY Zenon, AbsorbRuns DEF QueueStates
<1>2. PICK f :
           /\ f \in [0..n -> AbsorbStates]
           /\ Absorb(s) = [queue |-> f[n].keep, merged |-> Append(s.merged, f[n].current),
                           same |-> f[n].same, done |-> f[n].keep = << >>]
  BY AbsorbRuns, Zenon
<1>. DEFINE t == f[n]
<1>3. t \in AbsorbStates
  <2>. HIDE DEF n
  <2>1. QED
    BY <1>1, <1>2
<1>4. Absorb(s) = [queue |-> t.keep, merged |-> Append(s.merged, t.current),
                   same |-> t.same, done |-> t.keep = << >>]
  BY Zenon, <1>2
<1>. HIDE DEF t
<1>5. t.keep \in Seq(ElementSets) /\ t.current \in ElementSets /\ t.same \in BOOLEAN
  BY Zenon, <1>3 DEF AbsorbStates
<1>6. Append(s.merged, t.current) \in Seq(ElementSets) /\ (t.keep = << >>) \in BOOLEAN
  BY <1>1, <1>5
<1>. DEFINE u == Absorb(s)
<1>7. /\ u \in [queue : Seq(ElementSets), merged : Seq(ElementSets), same : BOOLEAN, done : BOOLEAN]
      /\ u.queue = t.keep /\ u.done = (t.keep = << >>)
  BY <1>4, <1>5, <1>6
<1>. HIDE DEF u
<1>8. u \in QueueStates
  BY <1>7, Zenon DEF QueueStates
<1>9. QED
  BY Zenon, <1>8 DEF u

\* Repeated absorbing is a run.
LEMMA RepeatAbsorbRuns ==
  ASSUME WellOrdered, NEW start \in QueueStates, NEW n \in Nat,
         \A s \in QueueStates : ~s.done => Absorb(s) \in QueueStates
  PROVE  \E f :
           /\ f[0] = start
           /\ \A i \in 1..n : f[i] = IF f[i - 1].done THEN f[i - 1] ELSE Absorb(f[i - 1])
           /\ Repeat(Absorb, start, n) = f[n]
<1>. DEFINE Next(s) == IF s.done THEN s ELSE Absorb(s)
            step == [p \in QueueStates \X (1..n) |-> Next(p[1])]
            after[i \in 0..n] == IF i = 0 THEN start
                                 ELSE IF after[i - 1].done THEN after[i - 1]
                                 ELSE Absorb(after[i - 1])
<1>1. step \in [QueueStates \X (1..n) -> QueueStates]
  BY Zenon
<1>2. Repeat(Absorb, start, n) = after[n]
  BY Zenon DEF Repeat
<1>3. \E f : f \in [0..n -> QueueStates] /\ RunOf(f, start, step, n)
  <2>1. StepOf(step, QueueStates, n)
    BY Zenon, <1>1 DEF StepOf
  <2>. HIDE DEF step
  <2>2. QED
    BY Zenon, <2>1, Iteration
<1>4. PICK f : f \in [0..n -> QueueStates] /\ RunOf(f, start, step, n)
  BY <1>3, Zenon
<1>5. ASSUME NEW i \in 1..n PROVE f[i] = Next(f[i - 1])
  <2>1. i - 1 \in 0..n
    OBVIOUS
  <2>2. <<f[i - 1], i>> \in QueueStates \X (1..n)
    BY Zenon, <1>4, <2>1
  <2>3. step[<<f[i - 1], i>>] = Next(f[i - 1])
    BY <2>2, Zenon
  <2>4. QED
    BY <1>4, <2>3, Zenon DEF RunOf
<1>6. f = [i \in 0..n |-> IF i = 0 THEN start ELSE Next(f[i - 1])]
  <2>1. f[0] = start /\ f \in [0..n -> QueueStates]
    BY <1>4, Zenon DEF RunOf
  <2>. HIDE DEF Next, step
  <2>2. QED
    BY <2>1, <1>5
<1>. HIDE DEF step
<1>7. after = [i \in 0..n |-> IF i = 0 THEN start ELSE Next(after[i - 1])]
  BY <1>6, Zenon
<1>. HIDE DEF after
<1>8. after[0] = start /\ \A i \in 1..n : after[i] = Next(after[i - 1])
  <2>1. 0 \in 0..n /\ \A i \in 1..n : i \in 0..n /\ i # 0
    OBVIOUS
  <2>2. QED
    BY <1>7, <2>1, Zenon
<1>9. QED
  BY Zenon, <1>2, <1>8


\* Between two passes.
PassInv(K, s) ==
    /\ s = [factors |-> s.factors, done |-> s.done] /\ s.done \in BOOLEAN
    /\ s.factors \in Seq(ElementSets)
    /\ \A f \in Range(s.factors) : FactorOf(K, f)
    /\ Covers(Range(s.factors), K)
    /\ s.done => Separate(s.factors)

\* A pass merges until the queue is empty; when something has grown there are
\* fewer factors than before.
LEMMA FactorPassKeeps ==
  ASSUME WellOrdered, NEW K, NEW s, PassInv(K, s)
  PROVE  /\ PassInv(K, FactorPass(s))
         /\ Len(FactorPass(s).factors) <= Len(s.factors)
         /\ FactorPass(s).done \/ Len(FactorPass(s).factors) < Len(s.factors)
<1>. DEFINE n == Len(s.factors)
            start == [queue |-> s.factors, merged |-> << >>, same |-> TRUE,
                      done |-> s.factors = << >>]
<1>1. s.factors \in Seq(ElementSets) /\ n \in Nat
  BY DEF PassInv
<1>2. /\ start.queue = s.factors /\ start.merged = << >> /\ start.same /\ Len(start.merged) = 0
      /\ start.done = (s.factors = << >>)
      /\ start \in [queue : Seq(ElementSets), merged : Seq(ElementSets), same : BOOLEAN, done : BOOLEAN]
  BY <1>1
<1>. HIDE DEF start
<1>17. start \in QueueStates
  BY <1>2, Zenon DEF QueueStates
<1>18. Range(start.merged) = {} /\ Separate(start.merged)
  BY <1>2 DEF Range, Separate
<1>3. QueueInv(K, start)
  <2>1. Range(start.merged) \cup Range(start.queue) = Range(s.factors)
    BY Zenon, <1>2, <1>18
  <2>2. QED
    BY <1>17, <1>18, <2>1, Zenon DEF QueueInv, PassInv
<1>4. PICK f :
        /\ f[0] = start
        /\ \A i \in 1..n : f[i] = IF f[i - 1].done THEN f[i - 1] ELSE Absorb(f[i - 1])
        /\ Repeat(Absorb, start, n) = f[n]
  <2>. HIDE DEF n
  <2>1. QED
    BY <1>1, <1>17, AbsorbType, RepeatAbsorbRuns, Zenon
<1>5. FactorPass(s) = [factors |-> f[n].merged, done |-> f[n].same]
  BY <1>4, Zenon DEF FactorPass, start
<1>. DEFINE Good(t, i) ==
              /\ QueueInv(K, t) /\ Len(t.queue) \in Nat /\ Len(t.merged) \in Nat
              /\ t.done \/ Len(t.queue) <= n - i
              /\ Len(t.queue) + Len(t.merged) <= n
              /\ t.same \/ Len(t.queue) + Len(t.merged) < n
            P == {i \in 0..n : Good(f[i], i)}
<1>6. 0 \in P
  <2>1. Good(start, 0)
    BY <1>1, <1>2, <1>3
  <2>. HIDE DEF Good, n
  <2>2. 0 \in 0..n
    BY <1>1
  <2>3. QED
    BY Zenon, <1>4, <2>1, <2>2
<1>. HIDE DEF n
<1>7. ASSUME NEW i \in 0..(n - 1), i \in P PROVE i + 1 \in P
  <2>. DEFINE t == f[i]
  <2>1. i \in Nat /\ i + 1 \in 1..n /\ i + 1 \in 0..n /\ (i + 1) - 1 = i
    BY <1>1
  <2>2. Good(t, i)
    BY <1>7, Zenon
  <2>3. f[i + 1] = IF t.done THEN t ELSE Absorb(t)
    BY Zenon, <1>4, <2>1
  <2>. HIDE DEF t
  <2>4. CASE t.done
    <3>1. Good(t, i + 1)
      BY <2>2, <2>4, Zenon
    <3>. HIDE DEF Good
    <3>2. QED
      BY Zenon, <2>1, <2>3, <2>4, <3>1
  <2>5. CASE ~t.done
    <3>. DEFINE u == Absorb(t)
    <3>1. /\ QueueInv(K, u) /\ Len(u.queue) < Len(t.queue) /\ Len(u.merged) = Len(t.merged) + 1
          /\ u.same \/ ~t.same \/ Len(u.queue) + 1 < Len(t.queue)
      BY Zenon, <2>2, <2>5, AbsorbKeeps
    <3>2. f[i + 1] = u
      BY Zenon, <2>3, <2>5
    <3>. HIDE DEF u
    <3>3. Len(u.queue) \in Nat
      BY <3>1 DEF QueueInv, QueueStates
    <3>4. Good(u, i + 1)
      <4>. DEFINE a == Len(t.queue)
                  b == Len(t.merged)
                  c == Len(u.queue)
      <4>1. a \in Nat /\ b \in Nat /\ c \in Nat /\ a <= n - i /\ a + b <= n /\ c < a
        BY <2>2, <2>5, <3>1, <3>3, Zenon
      <4>2. t.same \/ a + b < n
        BY <2>2, Zenon
      <4>3. u.same \/ ~t.same \/ c + 1 < a
        BY Zenon, <3>1
      <4>4. QueueInv(K, u) /\ Len(u.queue) = c /\ Len(u.merged) = b + 1
        BY Zenon, <3>1
      <4>. HIDE DEF a, b, c
      <4>5. (a + b < n => c + (b + 1) < n) /\ (c + 1 < a => c + (b + 1) < n)
        BY <1>1, <4>1
      <4>6. u.same \/ c + (b + 1) < n
        BY <4>2, <4>3, <4>5, Zenon
      <4>7. c <= n - (i + 1) /\ c + (b + 1) <= n /\ b + 1 \in Nat
        BY <1>1, <2>1, <4>1
      <4>8. QED
        BY <4>1, <4>4, <4>6, <4>7, Zenon
    <3>. HIDE DEF Good
    <3>5. QED
      BY Zenon, <2>1, <3>2, <3>4
  <2>6. QED
    BY <2>4, <2>5, Zenon
<1>. HIDE DEF P
<1>8. n \in P
  <2>1. \A i \in 0..n : i \in P
    BY Zenon, <1>1, <1>6, <1>7, Induction
  <2>2. QED
    BY <1>1, <2>1
<1>. DEFINE t == f[n]
<1>9. /\ QueueInv(K, t) /\ Len(t.queue) \in Nat /\ Len(t.merged) \in Nat
      /\ t.done \/ Len(t.queue) <= n - n
      /\ Len(t.queue) + Len(t.merged) <= n
      /\ t.same \/ Len(t.queue) + Len(t.merged) < n
  BY <1>8, Zenon DEF P
<1>. HIDE DEF t
<1>10. /\ t.queue \in Seq(ElementSets) /\ t.merged \in Seq(ElementSets)
       /\ t.done <=> t.queue = << >>
  BY Zenon, <1>9 DEF QueueInv, QueueStates
<1>11. t.queue = << >>
  BY <1>1, <1>9, <1>10
<1>12. Range(t.queue) = {} /\ Len(t.queue) = 0
  BY <1>11 DEF Range
<1>. DEFINE u == FactorPass(s)
<1>13. u.factors = t.merged /\ u.done = t.same /\ u = [factors |-> u.factors, done |-> u.done]
  BY <1>5 DEF t
<1>. HIDE DEF u
<1>14. PassInv(K, u)
  <2>1. Range(u.factors) = Range(t.merged) \cup Range(t.queue)
    BY Zenon, <1>12, <1>13
  <2>2. u.done \in BOOLEAN /\ u.factors \in Seq(ElementSets)
    BY Zenon, <1>9, <1>10, <1>13 DEF QueueInv, QueueStates
  <2>3. /\ \A g \in Range(u.factors) : FactorOf(K, g)
        /\ Covers(Range(u.factors), K)
    BY <1>9, <2>1, Zenon DEF QueueInv
  <2>4. u.done => Separate(u.factors)
    BY <1>9, <1>13, Zenon DEF QueueInv
  <2>5. QED
    BY <1>13, <2>2, <2>3, <2>4, Zenon DEF PassInv
<1>15. QED
  BY <1>9, <1>12, <1>13, <1>14 DEF u, n

PassesIn(S) == \A s \in S : FactorPass(s) \in S
PassesRun(f, start, n) ==
    /\ f[0] = start
    /\ \A i \in 1..n : f[i] = IF f[i - 1].done THEN f[i - 1] ELSE FactorPass(f[i - 1])
    /\ Repeat(FactorPass, start, n) = f[n]

\* Repeated factoring passes are a run.
LEMMA RepeatFactorRuns ==
  ASSUME WellOrdered, NEW S, PassesIn(S), NEW start \in S, NEW n \in Nat
  PROVE  \E f : PassesRun(f, start, n)
<1>. DEFINE Next(s) == IF s.done THEN s ELSE FactorPass(s)
            step == [p \in S \X (1..n) |-> Next(p[1])]
            after[i \in 0..n] == IF i = 0 THEN start
                                 ELSE IF after[i - 1].done THEN after[i - 1]
                                 ELSE FactorPass(after[i - 1])
<1>1. step \in [S \X (1..n) -> S]
  BY Zenon DEF PassesIn
<1>2. Repeat(FactorPass, start, n) = after[n]
  BY Zenon DEF Repeat
<1>3. \E f : f \in [0..n -> S] /\ RunOf(f, start, step, n)
  <2>1. StepOf(step, S, n)
    BY Zenon, <1>1 DEF StepOf
  <2>. HIDE DEF step
  <2>2. QED
    BY Zenon, <2>1, Iteration
<1>4. PICK f : f \in [0..n -> S] /\ RunOf(f, start, step, n)
  BY <1>3, Zenon
<1>5. ASSUME NEW i \in 1..n PROVE f[i] = Next(f[i - 1])
  <2>1. i - 1 \in 0..n
    OBVIOUS
  <2>2. <<f[i - 1], i>> \in S \X (1..n)
    BY Zenon, <1>4, <2>1
  <2>3. step[<<f[i - 1], i>>] = Next(f[i - 1])
    BY <2>2, Zenon
  <2>4. QED
    BY <1>4, <2>3, Zenon DEF RunOf
<1>6. f = [i \in 0..n |-> IF i = 0 THEN start ELSE Next(f[i - 1])]
  <2>1. f[0] = start /\ f \in [0..n -> S]
    BY <1>4, Zenon DEF RunOf
  <2>. HIDE DEF Next, step
  <2>2. QED
    BY <2>1, <1>5
<1>. HIDE DEF step
<1>7. after = [i \in 0..n |-> IF i = 0 THEN start ELSE Next(after[i - 1])]
  BY <1>6, Zenon
<1>. HIDE DEF after
<1>8. after[0] = start /\ \A i \in 1..n : after[i] = Next(after[i - 1])
  <2>1. 0 \in 0..n /\ \A i \in 1..n : i \in 0..n /\ i # 0
    OBVIOUS
  <2>2. QED
    BY <1>7, <2>1, Zenon
<1>9. PassesRun(after, start, n)
  BY <1>2, <1>8, Zenon DEF PassesRun
<1>10. QED
  BY <1>9, Zenon

\* After the last pass the factors are separate from each other, each is a factor of
\* the path condition and together they are all of it.
LEMMA FactorsReached ==
  ASSUME WellOrdered, NEW K, NEW parts \in Seq(ElementSets), \A f \in Range(parts) : FactorOf(K, f),
         Covers(Range(parts), K)
  PROVE  LET all == Repeat(FactorPass, [factors |-> parts, done |-> FALSE], Len(parts) + 1).factors
         IN  /\ all \in Seq(ElementSets)
             /\ \A f \in Range(all) : FactorOf(K, f)
             /\ Covers(Range(all), K)
             /\ Separate(all)
<1>. DEFINE n == Len(parts) + 1
            start == [factors |-> parts, done |-> FALSE]
            S == {s \in [factors : Seq(ElementSets), done : BOOLEAN] : PassInv(K, s)}
<1>1. n \in Nat /\ Len(parts) \in Nat
  OBVIOUS
<1>2. start.factors = parts /\ ~start.done /\ PassInv(K, start)
  BY Zenon DEF PassInv
<1>3. start \in S
  BY Zenon, <1>2
<1>4. \A s \in S : FactorPass(s) \in S
  <2>1. ASSUME NEW s \in S PROVE FactorPass(s) \in S
    <3>. DEFINE u == FactorPass(s)
    <3>1. PassInv(K, u)
      BY Zenon, FactorPassKeeps
    <3>. HIDE DEF u
    <3>3. u \in [factors : Seq(ElementSets), done : BOOLEAN]
      BY Zenon, <3>1 DEF PassInv
    <3>4. QED
      BY Zenon, <3>1, <3>3 DEF u
  <2>2. QED
    BY <2>1, Zenon
<1>19. PassesIn(S)
  BY <1>4, Zenon DEF PassesIn
<1>. HIDE DEF start, n
<1>20. \E f : PassesRun(f, start, n)
  <2>. HIDE DEF S
  <2>1. QED
    BY Zenon, <1>1, <1>3, <1>19, RepeatFactorRuns
<1>5. PICK f :
        /\ f[0] = start
        /\ \A i \in 1..n : f[i] = IF f[i - 1].done THEN f[i - 1] ELSE FactorPass(f[i - 1])
        /\ Repeat(FactorPass, start, n) = f[n]
  BY <1>20, Zenon DEF PassesRun
<1>. DEFINE Good(s, i) == PassInv(K, s) /\ (s.done \/ Len(s.factors) <= Len(parts) - i)
            P == {i \in 0..n : Good(f[i], i)}
<1>6. 0 \in P
  <2>1. 0 \in 0..n /\ Good(start, 0)
    BY <1>1, <1>2
  <2>. HIDE DEF Good
  <2>2. QED
    BY Zenon, <1>5, <2>1
<1>7. ASSUME NEW i \in 0..(n - 1), i \in P PROVE i + 1 \in P
  <2>. DEFINE t == f[i]
  <2>1. i \in Nat /\ i + 1 \in 1..n /\ i + 1 \in 0..n /\ (i + 1) - 1 = i
    BY <1>1
  <2>2. Good(t, i)
    BY <1>7, Zenon
  <2>3. f[i + 1] = IF t.done THEN t ELSE FactorPass(t)
    BY Zenon, <1>5, <2>1
  <2>. HIDE DEF t
  <2>4. CASE t.done
    <3>1. Good(t, i + 1)
      BY <2>2, <2>4, Zenon
    <3>. HIDE DEF Good
    <3>2. QED
      BY Zenon, <2>1, <2>3, <2>4, <3>1
  <2>5. CASE ~t.done
    <3>. DEFINE u == FactorPass(t)
    <3>1. /\ PassInv(K, u) /\ Len(u.factors) <= Len(t.factors)
          /\ u.done \/ Len(u.factors) < Len(t.factors)
      BY Zenon, <2>2, FactorPassKeeps
    <3>2. f[i + 1] = u
      BY Zenon, <2>3, <2>5
    <3>. HIDE DEF u
    <3>3. Len(u.factors) \in Nat /\ Len(t.factors) \in Nat
      BY <2>2, <3>1 DEF PassInv
    <3>4. Len(t.factors) <= Len(parts) - i
      BY Zenon, <2>2, <2>5
    <3>5. Len(u.factors) < Len(t.factors) => Len(u.factors) <= Len(parts) - (i + 1)
      BY <1>1, <2>1, <3>3, <3>4
    <3>6. Good(u, i + 1)
      BY <3>1, <3>5, Zenon
    <3>. HIDE DEF Good
    <3>7. QED
      BY Zenon, <2>1, <3>2, <3>6
  <2>6. QED
    BY <2>4, <2>5, Zenon
<1>. HIDE DEF P
<1>8. n \in P
  <2>1. \A i \in 0..n : i \in P
    BY Zenon, <1>1, <1>6, <1>7, Induction
  <2>2. QED
    BY <1>1, <2>1
<1>. DEFINE t == f[n]
<1>9. Good(t, n)
  BY <1>8, Zenon DEF P
<1>10. Repeat(FactorPass, [factors |-> parts, done |-> FALSE], Len(parts) + 1) = t
  BY <1>5, Zenon DEF start, n
<1>. HIDE DEF t
<1>11. PassInv(K, t) /\ t.done
  <2>1. PassInv(K, t) /\ (t.done \/ Len(t.factors) <= Len(parts) - n)
    BY <1>9, Zenon
  <2>2. Len(t.factors) \in Nat
    BY <2>1 DEF PassInv
  <2>3. ~(Len(t.factors) <= Len(parts) - n)
    BY <2>2 DEF n
  <2>4. QED
    BY <2>1, <2>3, Zenon
<1>12. QED
  BY <1>10, <1>11, Zenon DEF PassInv

\* The factors of a query.
LEMMA FactorsOfQuery ==
  ASSUME WellOrdered, NEW q, q.constraints \in Seq(Exprs), q.expr \in Exprs
  PROVE  LET all == getAllIndependentConstraintsSets(q)
         IN  /\ all \in Seq(ElementSets)
             /\ \A f \in Range(all) : FactorOf(Key(q), f)
             /\ Covers(Range(all), Key(q))
             /\ Separate(all)
<1>. DEFINE first == IF q.expr = ExprFalse THEN << >> ELSE <<IndependentElementSet(Neg(q.expr))>>
            rest == [i \in 1..Len(q.constraints) |-> IndependentElementSet(q.constraints[i])]
<1>1. Neg(q.expr) \in Exprs
  BY Zenon, ExprAssumption
<1>2. \A e \in Exprs : IndependentElementSet(e) \in ElementSets /\ IndependentElementSet(e).exprs = <<e>>
  BY Zenon, ElementSetTypes DEF IndependentElementSet
<1>3. /\ first \in Seq(ElementSets) /\ rest \in Seq(ElementSets) /\ Parts(q) = first \o rest
      /\ Len(rest) = Len(q.constraints) /\ DOMAIN rest = 1..Len(q.constraints)
      /\ Len(first) = IF q.expr = ExprFalse THEN 0 ELSE 1
      /\ q.expr # ExprFalse => first[1] = IndependentElementSet(Neg(q.expr))
  BY <1>1, <1>2 DEF Parts
<1>4. Range(rest) = {IndependentElementSet(e) : e \in Range(q.constraints)}
  <2>1. \A i \in 1..Len(q.constraints) : rest[i] = IndependentElementSet(q.constraints[i])
    BY Zenon
  <2>2. DOMAIN q.constraints = 1..Len(q.constraints)
    OBVIOUS
  <2>. HIDE DEF rest
  <2>3. Range(rest) = {rest[i] : i \in 1..Len(q.constraints)}
    BY <1>3, Zenon DEF Range
  <2>4. Range(q.constraints) = {q.constraints[i] : i \in 1..Len(q.constraints)}
    BY <2>2, Zenon DEF Range
  <2>5. QED
    BY <2>1, <2>3, <2>4
<1>5. Range(first) = IF q.expr = ExprFalse THEN {} ELSE {IndependentElementSet(Neg(q.expr))}
  BY DEF Range
<1>. HIDE DEF first, rest
<1>6. Range(Parts(q)) = Range(first) \cup Range(rest) /\ Parts(q) \in Seq(ElementSets)
  BY <1>3, RangeConcatenation
<1>7. Range(Parts(q)) = {IndependentElementSet(e) : e \in Key(q)}
  BY Zenon, <1>4, <1>5, <1>6 DEF Key
<1>8. Key(q) \subseteq Exprs
  BY <1>1 DEF Key, Range
<1>9. \A e : Range(<<e>>) = {e}
  BY DEF Range
<1>10. ASSUME NEW f \in Range(Parts(q)) PROVE FactorOf(Key(q), f)
  <2>1. PICK e \in Key(q) : f = IndependentElementSet(e)
    BY Zenon, <1>7
  <2>2. f \in ElementSets /\ Range(f.exprs) = {e}
    BY <1>2, <1>8, <1>9, <2>1, Zenon
  <2>3. QED
    BY Zenon, <2>1, <2>2 DEF FactorOf
<1>11. Covers(Range(Parts(q)), Key(q))
  <2>1. ASSUME NEW e \in Key(q) PROVE \E f \in Range(Parts(q)) : e \in Range(f.exprs)
    <3>1. IndependentElementSet(e) \in Range(Parts(q)) /\ e \in Exprs
      BY Zenon, <1>7, <1>8
    <3>2. Range(IndependentElementSet(e).exprs) = {e}
      BY <1>2, <1>9, <3>1, Zenon
    <3>3. QED
      BY Zenon, <3>1, <3>2
  <2>2. QED
    BY Zenon, <2>1 DEF Covers
<1>12. QED
  BY <1>6, <1>10, <1>11, FactorsReached, Zenon DEF getAllIndependentConstraintsSets

-----------------------------------------------------------------------------
(* computeInitialValues *)

\* The bytes found agree, on all that a factor reads, with an assignment that
\* satisfies the factor.
Solved(m, g) ==
    \E a \in Sat(Range(g.exprs)) : \A c \in Region(g) : c \in DOMAIN m /\ m[c] = a[c]

\* Between two factors: done are solved, todo are left, no two of them meet, and an
\* array has bytes only if a solved factor refers to it.
Solving(q, done, todo, m) ==
    /\ todo \in Seq(ElementSets)
    /\ \A f \in done \cup Range(todo) : FactorOf(Key(q), f)
    /\ Covers(done \cup Range(todo), Key(q))
    /\ Separate(todo)
    /\ \A g \in done, f \in Range(todo) : ~intersects(g, f)
    /\ \A g \in done : Solved(m, g)
    /\ \A c \in DOMAIN m : /\ c \in Cells /\ m[c] \in UNION {Range(a) : a \in Assignments}
                           /\ \E g \in done : c[1] \in calculateArrayReferences(g)

\* The factors of a query are separate and cover it before the first is solved.
LEMMA SolvingStarts ==
  ASSUME WellOrdered, NEW q \in Queries
  PROVE  Solving(q, {}, getAllIndependentConstraintsSets(q), << >>)
<1>. DEFINE all == getAllIndependentConstraintsSets(q)
<1>1. q.constraints \in Seq(Exprs) /\ q.expr \in Exprs
  BY Zenon, QueriesAssumption
<1>2. /\ all \in Seq(ElementSets) /\ \A f \in Range(all) : FactorOf(Key(q), f)
      /\ Covers(Range(all), Key(q)) /\ Separate(all)
  BY <1>1, FactorsOfQuery, Zenon
<1>. HIDE DEF all
<1>3. {} \cup Range(all) = Range(all) /\ DOMAIN << >> = {}
  OBVIOUS
<1>4. Solving(q, {}, all, << >>)
  BY <1>2, <1>3, Zenon DEF Solving
<1>5. QED
  BY Zenon, <1>4 DEF all

\* The first factor left, and what becomes of the lists when it is solved.
LEMMA HeadSolved ==
  ASSUME NEW q, NEW done, NEW todo, NEW m, Solving(q, done, todo, m), todo # << >>,
         NEW n, Solved(n, Head(todo)), \A g \in done : Solved(n, g),
         \A c \in DOMAIN n : /\ c \in Cells /\ n[c] \in UNION {Range(a) : a \in Assignments}
                             /\ \E g \in done \cup {Head(todo)} : c[1] \in calculateArrayReferences(g)
  PROVE  Solving(q, done \cup {Head(todo)}, Tail(todo), n)
<1>. DEFINE f == Head(todo)
            rest == Tail(todo)
<1>1. todo \in Seq(ElementSets) /\ Separate(todo)
  BY Zenon DEF Solving
<1>2. /\ rest \in Seq(ElementSets) /\ Len(todo) \in Nat /\ Len(todo) # 0 /\ f = todo[1]
      /\ Len(rest) = Len(todo) - 1 /\ \A i \in 1..Len(rest) : rest[i] = todo[i + 1]
  BY <1>1
<1>. HIDE DEF f, rest
<1>3. Range(rest) = {todo[i] : i \in 2..Len(todo)}
  <2>1. DOMAIN rest = 1..Len(rest)
    BY <1>2
  <2>2. Range(rest) = {rest[i] : i \in 1..Len(rest)}
    BY <2>1, Zenon DEF Range
  <2>3. \A i \in 2..Len(todo) : i - 1 \in 1..Len(rest) /\ todo[i] = rest[i - 1]
    BY <1>2
  <2>4. \A i \in 1..Len(rest) : i + 1 \in 2..Len(todo)
    BY <1>2
  <2>5. QED
    BY <1>2, <2>2, <2>3, <2>4
<1>4. Range(todo) = {f} \cup Range(rest)
  <2>1. DOMAIN todo = 1..Len(todo) /\ 1..Len(todo) = {1} \cup 2..Len(todo)
    BY <1>1, <1>2
  <2>2. Range(todo) = {todo[i] : i \in 1..Len(todo)}
    BY <2>1, Zenon DEF Range
  <2>3. QED
    BY <1>2, <1>3, <2>1, <2>2
<1>5. Separate(rest)
  <2>1. ASSUME NEW i \in 1..Len(rest), NEW j \in 1..Len(rest), i # j
        PROVE  ~intersects(rest[i], rest[j])
    <3>1. i + 1 \in 1..Len(todo) /\ j + 1 \in 1..Len(todo) /\ i + 1 # j + 1
      BY <1>2, <2>1
    <3>2. QED
      BY Zenon, <1>1, <1>2, <3>1 DEF Separate
  <2>2. QED
    BY Zenon, <2>1 DEF Separate
<1>6. ASSUME NEW h \in Range(rest) PROVE ~intersects(f, h)
  <2>1. PICK i \in 2..Len(todo) : h = todo[i]
    BY Zenon, <1>3
  <2>2. 1 \in 1..Len(todo) /\ i \in 1..Len(todo) /\ 1 # i
    BY <1>2, <2>1
  <2>3. QED
    BY Zenon, <1>1, <1>2, <2>1, <2>2 DEF Separate
<1>7. (done \cup {f}) \cup Range(rest) = done \cup Range(todo)
  BY Zenon, <1>4
<1>8. \A g \in done \cup {f}, h \in Range(rest) : ~intersects(g, h)
  BY Zenon, <1>4, <1>6 DEF Solving
<1>9. /\ \A g \in (done \cup {f}) \cup Range(rest) : FactorOf(Key(q), g)
      /\ Covers((done \cup {f}) \cup Range(rest), Key(q))
  BY <1>7, Zenon DEF Solving
<1>10. \A g \in done \cup {f} : Solved(n, g)
  BY Zenon DEF f
<1>11. \A c \in DOMAIN n : /\ c \in Cells /\ n[c] \in UNION {Range(a) : a \in Assignments}
                           /\ \E g \in done \cup {f} : c[1] \in calculateArrayReferences(g)
  BY Zenon DEF f
<1>12. Solving(q, done \cup {f}, rest, n)
  BY <1>2, <1>5, <1>8, <1>9, <1>10, <1>11, Zenon DEF Solving
<1>13. QED
  BY Zenon, <1>12 DEF f, rest

\* The bytes of an array are those that were found before, where this factor does
\* not read them.
LEMMA FactorMerged ==
  ASSUME NEW q, NEW done, NEW todo, NEW m, Solving(q, done, todo, m), todo # << >>,
         NEW a \in Sat(Range(Head(todo).exprs))
  PROVE  Solving(q, done \cup {Head(todo)}, Tail(todo), Merge(m, Head(todo), a))
<1>. DEFINE f == Head(todo)
            n == Merge(m, f, a)
<1>1. f \in Range(todo)
  <2>1. todo \in Seq(ElementSets)
    BY Zenon DEF Solving
  <2>2. 1 \in DOMAIN todo /\ f = todo[1]
    BY <2>1
  <2>3. QED
    BY <2>2, Zenon DEF Range
<1>2. a \in Assignments /\ \A c \in Cells : a[c] \in UNION {Range(b) : b \in Assignments}
  <2>1. a \in Assignments
    BY Zenon DEF Sat
  <2>2. DOMAIN a = Cells
    BY Zenon, <2>1, ReadsAssumption
  <2>3. \A c \in Cells : a[c] \in Range(a)
    BY Zenon, <2>2 DEF Range
  <2>4. QED
    BY Zenon, <2>1, <2>3
<1>3. a \in Sat(Range(f.exprs))
  BY Zenon
<1>. HIDE DEF f
<1>4. /\ DOMAIN n = DOMAIN m \cup {x \in Cells : x[1] \in calculateArrayReferences(f)}
      /\ \A c \in DOMAIN n : n[c] = IF c \in DOMAIN m /\ c \notin f.elements THEN m[c] ELSE a[c]
  BY Zenon DEF Merge
<1>. HIDE DEF n
<1>5. \A g \in done : ~intersects(g, f) /\ Region(g) \cap Region(f) = {}
  <2>1. \A g \in done : ~intersects(g, f)
    BY Zenon, <1>1 DEF Solving
  <2>2. QED
    BY Zenon, <2>1, RegionFacts
<1>6. ASSUME NEW g \in done PROVE Solved(n, g)
  <2>1. PICK b \in Sat(Range(g.exprs)) : \A c \in Region(g) : c \in DOMAIN m /\ m[c] = b[c]
    BY Zenon DEF Solving, Solved
  <2>2. ASSUME NEW c \in Region(g) PROVE c \in DOMAIN n /\ n[c] = b[c]
    <3>1. c \in Cells /\ c \notin Region(f)
      BY Zenon, <1>5 DEF Region
    <3>2. c \notin f.elements
      BY Zenon, <3>1 DEF Region
    <3>3. QED
      BY <1>4, <2>1, <3>2
  <2>3. QED
    BY Zenon, <2>1, <2>2 DEF Solved
<1>7. Solved(n, f)
  <2>1. ASSUME NEW c \in Region(f) PROVE c \in DOMAIN n /\ n[c] = a[c]
    <3>1. c \in Cells /\ (c \in f.elements \/ c[1] \in f.wholeObjects)
      BY Zenon DEF Region
    <3>2. c[1] \in calculateArrayReferences(f)
      BY Zenon, <3>1 DEF calculateArrayReferences, ArraysOf
    <3>3. c \in DOMAIN n
      BY Zenon, <1>4, <3>1, <3>2
    <3>4. ASSUME c \in DOMAIN m PROVE c \in f.elements
      <4>1. PICK g \in done : c[1] \in calculateArrayReferences(g)
        BY Zenon, <3>4 DEF Solving
      <4>2. c[1] \notin f.wholeObjects
        BY Zenon, <1>5, <4>1 DEF intersects, calculateArrayReferences
      <4>3. QED
        BY Zenon, <3>1, <4>2
    <3>5. QED
      BY Zenon, <1>4, <3>3, <3>4
  <2>2. QED
    BY Zenon, <1>3, <2>1 DEF Solved
<1>8. ASSUME NEW c \in DOMAIN n
      PROVE  /\ c \in Cells /\ n[c] \in UNION {Range(b) : b \in Assignments}
             /\ \E g \in done \cup {f} : c[1] \in calculateArrayReferences(g)
  <2>1. CASE c \in DOMAIN m
    <3>1. /\ c \in Cells /\ m[c] \in UNION {Range(b) : b \in Assignments}
          /\ \E g \in done : c[1] \in calculateArrayReferences(g)
      BY Zenon, <2>1 DEF Solving
    <3>2. n[c] = m[c] \/ n[c] = a[c]
      BY Zenon, <1>4
    <3>3. QED
      BY Zenon, <1>2, <3>1, <3>2
  <2>2. CASE c \notin DOMAIN m
    <3>1. c \in Cells /\ c[1] \in calculateArrayReferences(f) /\ n[c] = a[c]
      BY Zenon, <1>4, <2>2
    <3>2. QED
      BY Zenon, <1>2, <3>1
  <2>3. QED
    BY Zenon, <2>1, <2>2
<1>9. QED
  <2>1. \A g \in done : Solved(n, g)
    BY Zenon, <1>6
  <2>2. \A c \in DOMAIN n : /\ c \in Cells /\ n[c] \in UNION {Range(b) : b \in Assignments}
                            /\ \E g \in done \cup {f} : c[1] \in calculateArrayReferences(g)
    BY Zenon, <1>8
  <2>3. QED
    BY <1>7, <2>1, <2>2, HeadSolved, Zenon DEF f, n

\* A factor that reads nothing is skipped: its expressions are constraints that hold
\* in every assignment.
LEMMA FactorSkipped ==
  ASSUME NEW q \in Queries, NEW done, NEW todo, NEW m, Solving(q, done, todo, m), todo # << >>,
         calculateArrayReferences(Head(todo)) = {}
  PROVE  Solving(q, done \cup {Head(todo)}, Tail(todo), m)
<1>. DEFINE f == Head(todo)
<1>1. FactorOf(Key(q), f)
  <2>1. todo \in Seq(ElementSets)
    BY Zenon DEF Solving
  <2>2. 1 \in DOMAIN todo /\ f = todo[1]
    BY <2>1
  <2>3. f \in Range(todo)
    BY <2>2, Zenon DEF Range
  <2>4. QED
    BY Zenon, <2>3 DEF Solving
<1>2. calculateArrayReferences(f) = {}
  BY Zenon
<1>. HIDE DEF f
<1>3. Region(f) = {}
  BY Zenon, <1>2 DEF calculateArrayReferences, ArraysOf, Region
<1>4. PICK b : b = [c \in Cells |-> 0]
  BY Zenon
<1>5. b \in Assignments
  BY Zenon, <1>4, ReadsAssumption
<1>6. ASSUME NEW e \in Range(f.exprs) PROVE Holds(e, b)
  <2>1. e \in Key(q) /\ Region(IndependentElementSet(e)) = {}
    BY Zenon, <1>1, <1>3 DEF FactorOf
  <2>2. \A c \in Cells : ~ReadsByte(e, c)
    BY Zenon, <2>1, RegionOfExpr
  <2>3. e \in Range(q.constraints)
    BY Zenon, <2>1, <2>2, ConstantsAssumption DEF Key
  <2>4. QED
    BY Zenon, <1>5, <2>2, <2>3, ConstantsAssumption
<1>7. Solved(m, f)
  <2>1. b \in Sat(Range(f.exprs))
    BY Zenon, <1>5, <1>6 DEF Sat
  <2>2. QED
    BY Zenon, <1>3, <2>1 DEF Solved
<1>8. \A g \in done : Solved(m, g)
  BY Zenon DEF Solving
<1>9. \A c \in DOMAIN m : /\ c \in Cells /\ m[c] \in UNION {Range(a) : a \in Assignments}
                          /\ \E g \in done \cup {f} : c[1] \in calculateArrayReferences(g)
  BY Zenon DEF Solving
<1>10. QED
  BY <1>7, <1>8, <1>9, HeadSolved, Zenon DEF f

\* A query is about expressions.
LEMMA KeyExprs ==
  ASSUME NEW q \in Queries
  PROVE  Key(q) \subseteq Exprs
<1>1. q.constraints \in Seq(Exprs) /\ q.expr \in Exprs
  BY Zenon, QueriesAssumption
<1>2. Range(q.constraints) \subseteq Exprs
  BY <1>1 DEF Range
<1>3. Neg(q.expr) \in Exprs
  BY Zenon, <1>1, ExprAssumption
<1>4. QED
  BY <1>2, <1>3, Zenon DEF Key

\* When no factor is left the bytes found, with zeros for the rest, satisfy the query.
LEMMA PointRight ==
  ASSUME NEW q \in Queries, NEW done, NEW m, Solving(q, done, << >>, m)
  PROVE  [c \in Cells |-> IF c \in DOMAIN m THEN m[c] ELSE 0] \in Sat(Key(q))
<1>. DEFINE point == [c \in Cells |-> IF c \in DOMAIN m THEN m[c] ELSE 0]
            bytes == UNION {Range(a) : a \in Assignments}
<1>1. 0 \in bytes /\ Assignments = [Cells -> bytes]
  BY Zenon, ReadsAssumption
<1>2. \A c \in DOMAIN m : m[c] \in bytes
  BY Zenon DEF Solving
<1>. HIDE DEF bytes
<1>3. point \in Assignments
  BY Zenon, <1>1, <1>2
<1>4. \A c \in Cells : c \in DOMAIN m => point[c] = m[c]
  BY Zenon
<1>. HIDE DEF point
<1>5. ASSUME NEW e \in Key(q) PROVE Holds(e, point)
  <2>1. Range(<< >>) = {}
    BY DEF Range
  <2>2. PICK g \in done : e \in Range(g.exprs)
    BY Zenon, <2>1 DEF Solving, Covers
  <2>3. FactorOf(Key(q), g) /\ Solved(m, g)
    BY Zenon DEF Solving
  <2>4. PICK a \in Sat(Range(g.exprs)) : \A c \in Region(g) : c \in DOMAIN m /\ m[c] = a[c]
    BY Zenon, <2>3 DEF Solved
  <2>5. a \in Assignments /\ Holds(e, a)
    BY Zenon, <2>2, <2>4 DEF Sat
  <2>6. ASSUME NEW c \in Cells, ReadsByte(e, c) PROVE point[c] = a[c]
    <3>1. c \in Region(IndependentElementSet(e))
      BY Zenon, <2>6, RegionOfExpr
    <3>2. c \in Region(g)
      BY Zenon, <2>2, <2>3, <3>1 DEF FactorOf
    <3>3. QED
      BY Zenon, <1>4, <2>4, <3>2
  <2>7. e \in Exprs
    BY KeyExprs, Zenon
  <2>8. Holds(e, point) <=> Holds(e, a)
    BY Zenon, <1>3, <2>5, <2>6, <2>7, ReadsAssumption
  <2>9. QED
    BY Zenon, <2>5, <2>8
<1>6. point \in Sat(Key(q))
  BY Zenon, <1>3, <1>5 DEF Sat
<1>7. QED
  BY Zenon, <1>6 DEF point
=============================================================================

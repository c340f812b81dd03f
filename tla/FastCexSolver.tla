---------------------------- MODULE FastCexSolver ----------------------------
(***************************************************************************)
(* The fast counterexample solver (FastCexSolver.cpp): the values that the *)
(* constraints and the negated query ask of the bytes are propagated down  *)
(* the expressions, as guesses (possible) and as certainties (exact); a    *)
(* guess that satisfies all is a counterexample, and a query that is true  *)
(* for the certain bytes alone is valid.  An assertion that fails on the   *)
(* way is the outcome "abort".                                             *)
(***************************************************************************)
EXTENDS ConstraintManager

CONSTANT Word              \* the bits of a bound: 64 in the code

VARIABLE reply             \* the last question and its answer
fastVars == reply

------------------------------------------------------------------------------
(* Hacker's Delight: the bounds of x | y and x & y for x in a..b, y in c..d.  *)
(* The loops go down the bits until one can be changed within the bounds.     *)

One(x, i) == (x \div 2^i) % 2 = 1
Up(x, i) == ((x \div 2^i) * 2^i) | 2^i          \* (x | m) & -m
Down(x, i) == (x \div 2^i) * 2^i - 1            \* (x - m) | (m - 1), the bit i of x set
Highest(S) == CHOOSE i \in S : \A j \in S : j <= i

\* The last bit in turns at which Turn(_) is to be taken, or the bounds as they are.
AtHighest(turns, Turn(_), bounds) == IF turns = {} THEN bounds ELSE Turn(Highest(turns))

minOR(a, b, c, d) ==
  LET up(i) == IF One(c, i) THEN <<Up(a, i), c>> ELSE <<a, Up(c, i)>>
      within(i, v) == One(a, i) # One(c, i) /\ v[1] <= b /\ v[2] <= d
      either(v) == v[1] | v[2]
  IN  either(AtHighest({i \in 0..(Word - 1) : within(i, up(i))}, up, <<a, c>>))

maxOR(a, b, c, d) ==
  LET down(i) == IF Down(b, i) >= a THEN <<Down(b, i), d>> ELSE <<b, Down(d, i)>>
      within(i, v) == One(b, i) /\ One(d, i) /\ v[1] >= a /\ v[2] >= c
      either(v) == v[1] | v[2]
  IN  either(AtHighest({i \in 0..(Word - 1) : within(i, down(i))}, down, <<b, d>>))

minAND(a, b, c, d) ==
  LET up(i) == IF Up(a, i) <= b THEN <<Up(a, i), c>> ELSE <<a, Up(c, i)>>
      within(i, v) == ~One(a, i) /\ ~One(c, i) /\ v[1] <= b /\ v[2] <= d
      both(v) == v[1] & v[2]
  IN  both(AtHighest({i \in 0..(Word - 1) : within(i, up(i))}, up, <<a, c>>))

maxAND(a, b, c, d) ==
  LET down(i) == IF One(b, i) THEN <<Down(b, i), d>> ELSE <<b, Down(d, i)>>
      within(i, v) == One(b, i) # One(d, i) /\ v[1] >= a /\ v[2] >= c
      both(v) == v[1] & v[2]
  IN  both(AtHighest({i \in 0..(Word - 1) : within(i, down(i))}, down, <<b, d>>))

------------------------------------------------------------------------------
(* ValueRange: the pair of the bounds, empty when they are crossed. *)

AllOnes(n) == 2^n - 1
ValueRange(lo2, hi2) == <<lo2 % 2^Word, hi2 % 2^Word>>
Fixed(v) == ValueRange(v, v)
Empty == ValueRange(1, 0)
isEmpty(r) == r[1] > r[2]
isFixed(r) == r[1] = r[2]
mustEqual(r, s) == isFixed(r) /\ isFixed(s) /\ r[1] = s[1]
Least(x, y) == IF x <= y THEN x ELSE y
Greatest(x, y) == IF x <= y THEN y ELSE x
set_intersection(r, s) == <<Greatest(r[1], s[1]), Least(r[2], s[2])>>
set_union(r, s) == <<Least(r[1], s[1]), Greatest(r[2], s[2])>>
mayEqual(r, s) == ~isEmpty(set_intersection(r, s))

\* Of two ranges that remain, the lower.
set_difference(r, s) ==
  IF isEmpty(s) \/ s[1] > r[2] \/ s[2] < r[1] THEN r
  ELSE IF s[1] <= r[1] /\ s[2] >= r[2] THEN Empty
  ELSE IF s[1] <= r[1] THEN <<s[2] + 1, r[2]>>
  ELSE <<r[1], s[1] - 1>>

\* On ranges that are not empty, which is asserted.
binaryAnd(r, s) ==
  IF isFixed(r) /\ isFixed(s) THEN Fixed(r[1] & s[1])
  ELSE <<minAND(r[1], r[2], s[1], s[2]), maxAND(r[1], r[2], s[1], s[2])>>
binaryOr(r, s) ==
  IF isFixed(r) /\ isFixed(s) THEN Fixed(r[1] | s[1])
  ELSE <<minOR(r[1], r[2], s[1], s[2]), maxOR(r[1], r[2], s[1], s[2])>>

\* Up to all ones at the highest bit of the two.
binaryXor(r, s) ==
  LET top == Highest({i \in 0..(Word - 1) : One(r[2] | s[2], i)})
  IN  IF isFixed(r) /\ isFixed(s) THEN Fixed(r[1] ^^ s[1]) ELSE ValueRange(0, 2^(top + 1) - 1)

ShiftRight(r, n) == <<r[1] \div 2^n, r[2] \div 2^n>>
concat(r, s, n) == binaryOr(ValueRange(r[1] * 2^n, r[2] * 2^n), s)
extract(r, from, to) == binaryAnd(ShiftRight(r, from), Fixed(AllOnes(to - from)))

minSigned(r, n) == IF r[2] >= 2^(n - 1) THEN -(2^(n - 1)) ELSE r[1]
maxSigned(r, n) ==
  IF r[1] < 2^(n - 1) /\ r[2] >= 2^(n - 1) THEN 2^(n - 1) - 1 ELSE Signed(r[2], n)

------------------------------------------------------------------------------
(* ExprRangeEvaluator: the range of an expression, whatever is propagated. *)

FullRange(n) == ValueRange(0, AllOnes(n))
Ordered(yes, no) == IF yes THEN Fixed(1) ELSE IF no THEN Fixed(0) ELSE FullRange(Bool)

getInitialReadRange(root, index) ==
  IF root \in DOMAIN Constants /\ isFixed(index) /\ index[1] < Len(Constants[root])
  THEN Fixed(Constants[root][index[1] + 1]) ELSE FullRange(Byte)

RECURSIVE evalRange(_)

\* The updates from the j-th on: those that may be at the index, up to one that is.  The
\* union starts at the empty range, whose lower bound is 1.
unionRead(index, ui, value, rest) ==
  IF mustEqual(ui, index) THEN value
  ELSE IF mayEqual(ui, index) THEN set_union(value, rest)
  ELSE rest

RECURSIVE evalReadRange(_, _, _)
evalReadRange(x, index, j) ==
  IF j > Len(x.updates) THEN getInitialReadRange(x.root, index)
  ELSE unionRead(index, evalRange(x.updates[j][1]), evalRange(x.updates[j][2]),
                 evalReadRange(x, index, j + 1))

evalSelect(c, l, r) ==
  IF mustEqual(c, Fixed(1)) THEN l ELSE IF mustEqual(c, Fixed(0)) THEN r ELSE set_union(l, r)

\* The range of x from those of its kids.  A concat shifts by a byte whatever the width
\* of its right side.
rangeFrom(x, kids) ==
  LET l == kids[1]
      r == kids[2]
      n == x.kids[1].width
  IN  CASE IsConstant(x) -> Fixed(x.value)
        [] x.kind = "Read" -> set_union(Empty, evalReadRange(x, l, 1))
        [] x.kind = "Select" -> evalSelect(l, r, kids[3])
        [] x.kind = "Concat" -> concat(l, r, Byte)
        [] x.kind = "And" -> binaryAnd(l, r)
        [] x.kind = "Or" -> binaryOr(l, r)
        [] x.kind = "Xor" -> binaryXor(l, r)
        [] x.kind = "Eq" -> Ordered(mustEqual(l, r), ~mayEqual(l, r))
        [] x.kind = "Ult" -> Ordered(l[2] < r[1], l[1] >= r[2])
        [] x.kind = "Ule" -> Ordered(l[2] <= r[1], l[1] > r[2])
        [] x.kind = "Slt" -> Ordered(maxSigned(l, n) < minSigned(r, n), minSigned(l, n) >= maxSigned(r, n))
        [] x.kind = "Sle" -> Ordered(maxSigned(l, n) <= minSigned(r, n), minSigned(l, n) > maxSigned(r, n))
        [] OTHER -> FullRange(x.width)

evalKids(x) == [i \in 1..Len(x.kids) |-> evalRange(x.kids[i])]
evalRange(x) == rangeFrom(x, evalKids(x))

------------------------------------------------------------------------------
(* CexData: the possible and the exact values of the symbolic bytes. *)

SymbolicBytes == DOMAIN (CHOOSE a \in Points : TRUE)
CexData ==
  LET any == [b \in SymbolicBytes |-> FullRange(Byte)]
  IN  [possible |-> any, exact |-> any, ok |-> TRUE]
Failed(cd) == [cd EXCEPT !.ok = FALSE]

RECURSIVE propogatePossibleValues(_, _, _)
propogatePossibleValue(cd, x, v) == propogatePossibleValues(cd, x, Fixed(v))

\* A fixed range replaces what the byte had, another one narrows it unless none is left.
possible_Read(cd, x, r) ==
  LET byte == <<x.root, x.kids[1].value>>
      both == set_intersection(cd.possible[byte], r)
  IN  IF ~IsConstant(x.kids[1]) \/ byte \notin SymbolicBytes THEN cd
      ELSE IF isFixed(r) THEN [cd EXCEPT !.possible[byte] = Fixed(r[1] % 2^Byte)]
      ELSE IF isEmpty(both) THEN cd
      ELSE [cd EXCEPT !.possible[byte] = both]

\* Both branches are forced when the condition is not known.
possible_Select(cd, x, r, c) ==
  LET first == IF isFixed(c) /\ c[1] = 0 THEN cd ELSE propogatePossibleValues(cd, x.kids[2], r)
  IN  IF isFixed(c) /\ c[1] # 0 THEN first ELSE propogatePossibleValues(first, x.kids[3], r)

\* The width of the right side also for the left one; an empty range fails the assertion.
possible_Concat(cd, x, r) ==
  LET n == x.kids[2].width
  IN  IF isEmpty(r) THEN Failed(cd)
      ELSE propogatePossibleValues(propogatePossibleValues(cd, x.kids[1], extract(r, n, n + n)),
                                   x.kids[2], extract(r, 0, n))

possible_SExt(cd, x, r) ==
  LET n == x.kids[1].width
      out == set_difference(r, ValueRange(2^(n - 1), AllOnes(x.width) - AllOnes(n - 1) - 1))
  IN  IF isEmpty(out) THEN Failed(cd)
      ELSE propogatePossibleValues(cd, x.kids[1], binaryAnd(out, Fixed(AllOnes(n))))

possible_Add(cd, x, r) ==
  LET less(v) == (v - x.kids[1].value) % 2^x.width
      moved == <<less(r[1]), less(r[2])>>
  IN  IF ~IsConstant(x.kids[1]) \/ isEmpty(r) \/ isEmpty(moved) THEN cd
      ELSE propogatePossibleValues(cd, x.kids[2], moved)

\* A Boolean And that must be 1, or Or that must be 0, takes both sides; otherwise
\* one that is known is enough, and else each side is tried, the left one first.
possible_Logical(cd, x, v, ranges) ==
  LET known(i, w) == mustEqual(ranges[i], Fixed(w))
      force(d, i, w) == IF known(i, w) THEN d ELSE propogatePossibleValue(d, x.kids[i], w)
      left == propogatePossibleValue(cd, x.kids[1], v)
  IN  IF v = (IF x.kind = "And" THEN 1 ELSE 0) THEN force(force(cd, 1, v), 2, v)
      ELSE IF known(1, v) \/ known(2, v) THEN cd
      ELSE IF known(1, 1) THEN left
      ELSE propogatePossibleValue(left, x.kids[2], v)

\* A byte that must differ is sought below the constant.
possible_Eq(cd, x, v) ==
  LET c == x.kids[1].value
  IN  IF ~IsConstant(x.kids[1]) THEN cd
      ELSE IF v # 0 THEN propogatePossibleValue(cd, x.kids[2], c)
      ELSE propogatePossibleValues(cd, x.kids[2],
             IF c = 0 THEN ValueRange(1, AllOnes(x.kids[1].width)) ELSE ValueRange(0, c - 1))

\* Ult and Ule, on the side whose other side is known; the bounds may overflow.
possible_Order(cd, x, v, ranges) ==
  LET l == ranges[1]
      r == ranges[2]
      m == AllOnes(x.kids[2].width)
      strict == IF x.kind = "Ult" THEN 1 ELSE 0
      above == IF v # 0 THEN ValueRange(l[1] + strict, m) ELSE ValueRange(0, l[1] - (1 - strict))
      below == IF v # 0 THEN ValueRange(0, r[1] - strict) ELSE ValueRange(r[1] + (1 - strict), m)
  IN  IF isFixed(l) THEN propogatePossibleValues(cd, x.kids[2], above)
      ELSE IF isFixed(r) THEN propogatePossibleValues(cd, x.kids[1], below)
      ELSE cd

possible_Kind(cd, x, r, ranges) ==
  CASE ~cd.ok -> cd
    [] x.kind = "Read" -> possible_Read(cd, x, r)
    [] x.kind = "Select" -> possible_Select(cd, x, r, ranges[1])
    [] x.kind = "Concat" -> possible_Concat(cd, x, r)
    [] x.kind = "ZExt" ->
         propogatePossibleValues(cd, x.kids[1], set_intersection(r, FullRange(x.kids[1].width)))
    [] x.kind = "SExt" -> possible_SExt(cd, x, r)
    [] x.kind = "Add" -> possible_Add(cd, x, r)
    [] x.kind \in {"And", "Or"} /\ x.width = Bool /\ isFixed(r) ->
         possible_Logical(cd, x, r[1], ranges)
    [] x.kind = "Eq" /\ isFixed(r) -> possible_Eq(cd, x, r[1])
    [] x.kind = "Not" /\ x.width = Bool /\ isFixed(r) ->
         propogatePossibleValue(cd, x.kids[1], IF r[1] = 0 THEN 1 ELSE 0)
    [] x.kind \in {"Ult", "Ule"} /\ isFixed(r) -> possible_Order(cd, x, r[1], ranges)
    [] OTHER -> cd

propogatePossibleValues(cd, x, r) == possible_Kind(cd, x, r, evalKids(x))

\* A value that the byte cannot have fails the assertions.
exact_Byte(cd, byte, r) ==
  LET have == cd.exact[byte]
      both == set_intersection(have, r)
  IN  IF byte \notin SymbolicBytes THEN cd
      ELSE IF isEmpty(both) THEN Failed(cd)
      ELSE [cd EXCEPT !.exact[byte] = both]

\* Mutant: an update whose index may be another is taken for the one that is read.
exact_alias(x, index, at) ==
  LET may == {j \in DOMAIN at : mayEqual(at[j], index)}
      j == CHOOSE j \in may : \A k \in may : j <= k
  IN  IF may = {} THEN 0 ELSE j

\* The update that a read is known to take, for the ranges of the index and of those of
\* the updates: 0 when it is none, -1 when it is not known.
exact_update(x, index, at) ==
  LET may == {j \in DOMAIN at : mayEqual(at[j], index)}
      j == CHOOSE j \in may : \A k \in may : j <= k
  IN  IF may = {} THEN 0
      ELSE IF mustEqual(at[j], index) \/ x.kids[1] = x.updates[j][1] THEN j
      ELSE -1

RECURSIVE propogateExactValue(_, _, _)

exact_Read(cd, x, v, index, u) ==
  IF u > 0 THEN propogateExactValue(cd, x.updates[u][2], v)
  ELSE IF u < 0 \/ ~isFixed(index) THEN cd
  ELSE exact_Byte(cd, <<x.root, index[1]>>, Fixed(v))

exact_ReadAt(cd, x, v, index) ==
  exact_Read(cd, x, v, index,
    exact_update(x, index, [j \in 1..Len(x.updates) |-> evalRange(x.updates[j][1])]))

\* Only reads, equalities with a constant and negations pass a value on.
propogateExactValue(cd, x, v) ==
  LET c == x.kids[1].value
  IN  CASE ~cd.ok -> cd
        [] x.kind = "Read" -> exact_ReadAt(cd, x, v, evalRange(x.kids[1]))
        [] HasConstant(x, "Eq") /\ v # 0 -> propogateExactValue(cd, x.kids[2], c)
        [] HasConstant(x, "Eq") /\ v = 0 /\ x.kids[2].width = Bool ->
             propogateExactValue(cd, x.kids[2], 1 - c)
        [] x.kind = "Not" /\ x.width = Bool -> propogateExactValue(cd, x.kids[1], IF v = 0 THEN 1 ELSE 0)
        [] OTHER -> cd

------------------------------------------------------------------------------
(* ExprEvaluator: an expression with the known bytes filled in. *)

RECURSIVE visitKnown(_, _)

\* The updates are passed over as long as their indices are known to differ.
evalReadAt(x, i, at, known) ==
  LET stops == {j \in 1..Len(x.updates) : ~IsConstant(at[j]) \/ at[j].value = i}
      j == CHOOSE j \in stops : \A k \in stops : j <= k
      index == ConstantExpr(i, Byte)
  IN  IF stops # {}
      THEN IF IsConstant(at[j]) THEN visitKnown(x.updates[j][2], known)
           ELSE ReadExpr_create(x.root, SubSeq(x.updates, j, Len(x.updates)), index)
      ELSE IF x.root \in DOMAIN Constants /\ i < Len(Constants[x.root])
           THEN ConstantExpr(Constants[x.root][i + 1], Byte)
      ELSE IF <<x.root, i>> \in DOMAIN known THEN ConstantExpr(known[<<x.root, i>>], Byte)
      ELSE ReadAt(x.root, << >>, index)

evalRead(x, i, known) ==
  evalReadAt(x, i, [j \in 1..Len(x.updates) |-> visitKnown(x.updates[j][1], known)], known)

\* A divisor that turns out to be 0 is left as it was.
protectedDivOperation(x, kids) ==
  IF x.kind \in Divisions /\ IsConstant(kids[2]) /\ kids[2].value = 0
  THEN <<kids[1], x.kids[2]>> ELSE kids

Rebuilt(x, kids) == IF kids = x.kids THEN x ELSE rebuild(x, kids)

visitWith(x, kids, known) ==
  CASE x.kind = "Read" /\ IsConstant(kids[1]) -> evalRead(x, kids[1].value, known)
    [] x.kind = "NotOptimized" -> kids[1]
    [] OTHER -> Rebuilt(x, protectedDivOperation(x, kids))

visitKnown(x, known) ==
  IF IsConstant(x) THEN x
  ELSE visitWith(x, [i \in 1..Len(x.kids) |-> visitKnown(x.kids[i], known)], known)

\* Some possible value of every byte, in the middle of its range, and the exact bytes.
Guess(cd) == [b \in SymbolicBytes |-> cd.possible[b][1] + (cd.possible[b][2] - cd.possible[b][1]) \div 2]
Certain(cd) == [b \in {b \in SymbolicBytes : isFixed(cd.exact[b])} |-> cd.exact[b][1]]
evaluatePossible(cd, x) == visitKnown(x, Guess(cd))
evaluateExact(cd, x) == visitKnown(x, Certain(cd))

------------------------------------------------------------------------------
(* FastCexSolver. *)

Propogated(cd, x, v) == propogateExactValue(propogatePossibleValue(cd, x, v), x, v)

\* The constraints are to be 1 and, when it is checked, the expression 0.
Propogation(cs, x, checkExpr) ==
  LET wanted == [i \in 1..Len(cs) |-> <<cs[i], 1>>] \o IF checkExpr THEN <<<<x, 0>>>> ELSE << >>
      upTo[i \in 0..Len(wanted)] ==
        IF i = 0 THEN CexData ELSE Propogated(upTo[i - 1], wanted[i][1], wanted[i][2])
  IN  upTo[Len(wanted)]

\* "valid", "invalid", "unknown" or "abort".
Verdict(cd, cs, x, checkExpr) ==
  IF ~cd.ok THEN "abort"
  ELSE IF \/ checkExpr /\ IsTrue(evaluateExact(cd, x))
          \/ \E i \in 1..Len(cs) : IsFalse(evaluateExact(cd, cs[i]))
       THEN "valid"
  ELSE IF /\ checkExpr => IsFalse(evaluatePossible(cd, x))
          /\ \A i \in 1..Len(cs) : IsTrue(evaluatePossible(cd, cs[i]))
       THEN "invalid"
  ELSE "unknown"

\* What is found, and the values cd by which it was.
Judged(cd, cs, x, checkExpr) == [found |-> Verdict(cd, cs, x, checkExpr), cd |-> cd]
propogateValues(cs, x, checkExpr) == Judged(Propogation(cs, x, checkExpr), cs, x, checkExpr)

fast_computeTruth(p) == [kind |-> p.found, value |-> 0, point |-> << >>]

\* Valid constraints (no input at all) cannot be told either.
fast_computeValue(p, x) ==
  LET told(v) == IF IsConstant(v) THEN [kind |-> "value", value |-> v.value, point |-> << >>]
                 ELSE [kind |-> "unknown", value |-> 0, point |-> << >>]
  IN  IF p.found = "invalid" THEN told(evaluatePossible(p.cd, x))
      ELSE [kind |-> IF p.found = "abort" THEN "abort" ELSE "unknown", value |-> 0, point |-> << >>]

fast_computeInitialValues(p) ==
  [kind |-> p.found, value |-> 0, point |-> IF p.found = "invalid" THEN Guess(p.cd) ELSE << >>]

NoReply == [asked |-> << >>, kind |-> "unknown", value |-> 0, point |-> << >>]
Replied(x, answered) ==
  reply' = [asked |-> <<x>>, kind |-> answered.kind, value |-> answered.value, point |-> answered.point]

AskFastCex ==
  /\ reply = NoReply
  /\ added < MaxConstraints
  /\ \E x \in Conditions, checkExpr \in BOOLEAN :
       \E p \in {propogateValues(constraints, x, checkExpr)} :
         \/ checkExpr /\ Replied(x, fast_computeTruth(p))
         \/ checkExpr /\ Replied(x, fast_computeInitialValues(p))
         \/ ~checkExpr /\ Replied(x, fast_computeValue(p, x))
  /\ UNCHANGED constraintVars

AddTo == reply = NoReply /\ AddConstraint /\ UNCHANGED reply

FastInit == ConstraintInit /\ reply = NoReply
FastNext == AddTo \/ AskFastCex
FastSpec == FastInit /\ [][FastNext]_<<constraintVars, fastVars>>

(* What the fast counterexample solver answers is right: a query it proves    *)
(* from the exact bytes is true for every input of the state, one it refutes  *)
(* by its guess is false for an input of the state, and a value or an         *)
(* assignment it returns is that of such an input; what it cannot tell it     *)
(* leaves to the solver below it (FastCexSolver.cpp:1016).                    *)
FastCexRight ==
  reply.asked # << >> =>
    LET x == reply.asked[1]
        counter == {a \in models : Eval(x, a) = 0}
    IN  /\ reply.kind = "valid" => counter = {}
        /\ reply.kind = "invalid" => counter # {}
        /\ reply.kind = "value" => \E a \in models : Eval(x, a) = reply.value
        /\ reply.point # << >> => reply.point \in counter
==============================================================================

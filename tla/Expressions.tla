----------------------------- MODULE Expressions -----------------------------
(***************************************************************************)
(* Symbolic expressions (Expr.cpp): what they mean under an assignment of  *)
(* the symbolic bytes, and the create functions, which fold and rewrite    *)
(* while they build.  A width is a number of bits; a byte has Byte bits,   *)
(* an index the same.  A behaviour builds an expression by one create      *)
(* after the other, next to the values it must have.                       *)
(***************************************************************************)
EXTENDS Integers, Sequences, FiniteSets, Bitwise

CONSTANTS Byte,            \* the bits of a byte: 8 in the code
          Constants,       \* the arrays with constant contents: name to values
          Points,          \* the assignments: bytes (array and index) to values
          Operands,        \* what an expression is combined with
          ConstArrayOpt,   \* the option: equalities with reads of constant arrays
          CheckOvershift,  \* the option --check-overshift, on unless it is turned off
          MaxMatches,      \* the longest disjunction made of one: 100 in the code
          MaxCreates       \* bound on the create calls

VARIABLES built,           \* the expression
          meaning,         \* the value it must have: assignment to value
          creates
exprVars == <<built, meaning, creates>>

------------------------------------------------------------------------------
(* Expressions.  A read has its index as only kid, and an update list: pairs *)
(* of index and value, the newest first.                                     *)

alloc(kind, width, kids) ==
  [kind |-> kind, width |-> width, value |-> 0, kids |-> kids, root |-> "", updates |-> << >>]
ConstantExpr(v, w) == [alloc("Constant", w, << >>) EXCEPT !.value = v % 2^w]
ReadAt(root, updates, index) ==
  [alloc("Read", Byte, <<index>>) EXCEPT !.root = root, !.updates = updates]

Bool == 1
IsConstant(x) == x.kind = "Constant"
IsTrue(x) == IsConstant(x) /\ x.value = 1
IsFalse(x) == IsConstant(x) /\ x.value = 0
IsAllOnes(x) == x.value = 2^x.width - 1
TrueExpr == ConstantExpr(1, Bool)
FalseExpr == ConstantExpr(0, Bool)

Signed(v, w) == IF v >= 2^(w - 1) THEN v - 2^w ELSE v
Quotient(x, y) == IF (x < 0) = (y < 0) THEN (IF x < 0 THEN -x ELSE x) \div (IF y < 0 THEN -y ELSE y)
                  ELSE -((IF x < 0 THEN -x ELSE x) \div (IF y < 0 THEN -y ELSE y))
Bit(b) == IF b THEN 1 ELSE 0

Derived == {"Ne", "Ugt", "Uge", "Sgt", "Sge"}
Comparisons == {"Eq", "Ult", "Ule", "Slt", "Sle"} \union Derived
Divisions == {"UDiv", "SDiv", "URem", "SRem"}

\* The operations of APInt on two values of the same width.
Apply(kind, w, x, y) ==
  CASE kind = "Add" -> (x + y) % 2^w
    [] kind = "Sub" -> (x - y) % 2^w
    [] kind = "Mul" -> (x * y) % 2^w
    [] kind = "UDiv" -> x \div y
    [] kind = "URem" -> x % y
    [] kind = "SDiv" -> Quotient(Signed(x, w), Signed(y, w)) % 2^w
    [] kind = "SRem" -> (Signed(x, w) - Signed(y, w) * Quotient(Signed(x, w), Signed(y, w))) % 2^w
    [] kind = "And" -> x & y
    [] kind = "Or" -> x | y
    [] kind = "Xor" -> x ^^ y
    [] kind = "Shl" -> IF y >= w THEN 0 ELSE (x * 2^y) % 2^w
    [] kind = "LShr" -> IF y >= w THEN 0 ELSE x \div 2^y
    [] kind = "AShr" -> IF y >= w THEN 0 ELSE (Signed(x, w) \div 2^y) % 2^w
    [] kind = "Eq" -> Bit(x = y)
    [] kind = "Ult" -> Bit(x < y)
    [] kind = "Ule" -> Bit(x <= y)
    [] kind = "Slt" -> Bit(Signed(x, w) < Signed(y, w))
    [] kind = "Sle" -> Bit(Signed(x, w) <= Signed(y, w))
    [] kind = "Ne" -> Bit(x # y)
    [] kind = "Ugt" -> Bit(x > y)
    [] kind = "Uge" -> Bit(x >= y)
    [] kind = "Sgt" -> Bit(Signed(x, w) > Signed(y, w))
    [] kind = "Sge" -> Bit(Signed(x, w) >= Signed(y, w))

\* What an expression means: a division by zero and a read out of bounds are left at 0.
RECURSIVE Eval(_, _)
Eval(x, a) ==
  LET kid(i) == Eval(x.kids[i], a)
      hits == {j \in 1..Len(x.updates) : Eval(x.updates[j][1], a) = kid(1)}
      newest == CHOOSE j \in hits : \A k \in hits : j <= k
      root == IF x.root \in DOMAIN Constants
              THEN IF kid(1) < Len(Constants[x.root]) THEN Constants[x.root][kid(1) + 1] ELSE 0
              ELSE IF <<x.root, kid(1)>> \in DOMAIN a THEN a[<<x.root, kid(1)>>] ELSE 0
  IN  CASE x.kind = "Constant" -> x.value
        [] x.kind = "Read" -> IF hits = {} THEN root ELSE Eval(x.updates[newest][2], a)
        [] x.kind = "NotOptimized" -> kid(1)
        [] x.kind = "Select" -> IF kid(1) = 1 THEN kid(2) ELSE kid(3)
        [] x.kind = "Concat" -> kid(1) * 2^x.kids[2].width + kid(2)
        [] x.kind = "Extract" -> (kid(1) \div 2^x.value) % 2^x.width
        [] x.kind = "Not" -> 2^x.width - 1 - kid(1)
        [] x.kind = "ZExt" -> kid(1)
        [] x.kind = "SExt" -> Signed(kid(1), x.kids[1].width) % 2^x.width
        [] x.kind \in Divisions /\ kid(2) = 0 -> 0
        [] OTHER -> Apply(x.kind, x.kids[1].width, kid(1), kid(2))

ResultWidth(kind, l) == IF kind \in Comparisons THEN Bool ELSE l.width
Binary(kind, l, r) == alloc(kind, ResultWidth(kind, l), <<l, r>>)
HasConstant(x, kind) == x.kind = kind /\ IsConstant(x.kids[1])

------------------------------------------------------------------------------
(* The create functions. *)

RECURSIVE create(_, _, _)
createIsZero(x) == create("Eq", x, ConstantExpr(0, x.width))

XorExpr_createPartialR(cl, r) ==
  IF cl.value = 0 THEN r
  ELSE IF cl.width = Bool THEN create("Eq", FalseExpr, r)
  ELSE Binary("Xor", cl, r)

\* A + (B+c) = (A+B) + c and A + (B-c) = (A+B) - c
AddExpr_createPartialR(cl, r) ==
  IF cl.width = Bool THEN XorExpr_createPartialR(cl, r)
  ELSE IF cl.value = 0 THEN r
  ELSE IF HasConstant(r, "Add") \/ HasConstant(r, "Sub")
       THEN create(r.kind, create("Add", cl, r.kids[1]), r.kids[2])
  ELSE Binary("Add", cl, r)

\* (k+a)+b = k+(a+b), (k-a)+b = k+(b-a) and the same with the sides exchanged
AddExpr_create(l, r) ==
  IF l.width = Bool THEN Binary("Xor", l, r)
  ELSE IF HasConstant(l, "Add") THEN create("Add", l.kids[1], create("Add", l.kids[2], r))
  ELSE IF HasConstant(l, "Sub") THEN create("Add", l.kids[1], create("Sub", r, l.kids[2]))
  ELSE IF HasConstant(r, "Add") \/ HasConstant(r, "Sub")
       THEN create("Add", r.kids[1], create(r.kind, l, r.kids[2]))
  ELSE Binary("Add", l, r)

Opposite(kind) == IF kind = "Add" THEN "Sub" ELSE "Add"

\* A - (B+c) = (A-B) - c and A - (B-c) = (A-B) + c
SubExpr_createPartialR(cl, r) ==
  IF cl.width = Bool THEN XorExpr_createPartialR(cl, r)
  ELSE IF HasConstant(r, "Add") \/ HasConstant(r, "Sub")
       THEN create(Opposite(r.kind), create("Sub", cl, r.kids[1]), r.kids[2])
  ELSE Binary("Sub", cl, r)

\* (k+a)-b = k+(a-b), (k-a)-b = k-(a+b), a-(k+b) = (a-b)-k, a-(k-b) = (a+b)-k
SubExpr_create(l, r) ==
  IF l.width = Bool THEN Binary("Xor", l, r)
  ELSE IF l = r THEN ConstantExpr(0, l.width)
  ELSE IF HasConstant(l, "Add") \/ HasConstant(l, "Sub")
       THEN create(l.kind, l.kids[1], create(Opposite(l.kind), l.kids[2], r))
  ELSE IF HasConstant(r, "Add") \/ HasConstant(r, "Sub")
       THEN create("Sub", create(Opposite(r.kind), l, r.kids[2]), r.kids[1])
  ELSE Binary("Sub", l, r)

AndExpr_createPartial(l, cr) ==
  IF IsAllOnes(cr) THEN l ELSE IF cr.value = 0 THEN cr ELSE Binary("And", l, cr)

OrExpr_createPartial(l, cr) ==
  IF IsAllOnes(cr) THEN cr ELSE IF cr.value = 0 THEN l ELSE Binary("Or", l, cr)

MulExpr_createPartialR(cl, r) ==
  IF cl.width = Bool THEN AndExpr_createPartial(r, cl)
  ELSE IF cl.value = 1 THEN r ELSE IF cl.value = 0 THEN cl ELSE Binary("Mul", cl, r)

\* The divisor of a Boolean must be 1.  A shift of it by 1 leaves 0, but the arithmetic
\* one the Boolean.
Division_create(kind, l, r) ==
  IF l.width # Bool THEN Binary(kind, l, r) ELSE IF kind \in {"UDiv", "SDiv"} THEN l ELSE FalseExpr
Shift_create(kind, l, r) ==
  IF l.width # Bool THEN Binary(kind, l, r)
  ELSE IF kind = "AShr" THEN l ELSE create("And", l, createIsZero(r))

\* Of Booleans, !l && r, !(l && !r), and with the sign: l && !r, !(!l && r).
Order_create(kind, l, r) ==
  IF l.width # Bool THEN Binary(kind, l, r)
  ELSE CASE kind = "Ult" -> create("And", createIsZero(l), r)
         [] kind = "Ule" -> create("Or", createIsZero(l), r)
         [] kind = "Slt" -> create("And", l, createIsZero(r))
         [] kind = "Sle" -> create("Or", l, createIsZero(r))

EqExpr_create(l, r) == IF l = r THEN TrueExpr ELSE Binary("Eq", l, r)

\* cl = rd, a read of a constant array without updates: the index is one of those with cl.
TryConstArrayOpt(cl, rd) ==
  LET n == IF rd.root \in DOMAIN Constants THEN Len(Constants[rd.root]) ELSE 0
      matches == {i \in 1..n : Constants[rd.root][i] = cl.value}
      res[i \in 0..n] ==
        IF i = 0 THEN FalseExpr
        ELSE IF i \notin matches THEN res[i - 1]
        ELSE create("Or", res[i - 1], create("Eq", rd.kids[1], ConstantExpr(i - 1, rd.kids[1].width)))
  IN  IF n = 0 \/ rd.updates # << >> \/ Cardinality(matches) > MaxMatches
      THEN EqExpr_create(cl, rd) ELSE res[n]

\* The constants of a narrower width.
Truncated(c, w) == ConstantExpr(c.value, w)
Extended(c, kind, w) ==
  ConstantExpr(IF kind = "SExt" THEN Signed(c.value, c.width) ELSE c.value, w)

\* Mutant: the constant is not checked to be the extension of a narrower one.
EqExpr_createPartialR_narrow(cl, r) ==
  IF cl.width # Bool /\ r.kind \in {"SExt", "ZExt"}
  THEN create("Eq", r.kids[1], Truncated(cl, r.kids[1].width))
  ELSE EqExpr_create(cl, r)

EqExpr_createPartialR(cl, r) ==
  LET from == r.kids[1].width
      negation == r.kind = "Eq" /\ IsFalse(r.kids[1]) /\ r.kids[1].width = Bool
  IN  IF cl.width = Bool
      THEN IF IsTrue(cl) THEN r
           ELSE IF negation THEN r.kids[2]
           ELSE IF r.kind = "Or" THEN create("And", createIsZero(r.kids[1]), createIsZero(r.kids[2]))
           ELSE EqExpr_create(cl, r)
      ELSE IF r.kind \in {"SExt", "ZExt"}
           THEN IF cl = Extended(Truncated(cl, from), r.kind, cl.width)
                THEN create("Eq", r.kids[1], Truncated(cl, from)) ELSE FalseExpr
      ELSE IF HasConstant(r, "Add") THEN create("Eq", create("Sub", cl, r.kids[1]), r.kids[2])
      ELSE IF HasConstant(r, "Sub") THEN create("Eq", create("Sub", r.kids[1], cl), r.kids[2])
      ELSE IF r.kind = "Read" /\ ConstArrayOpt THEN TryConstArrayOpt(cl, r)
      ELSE EqExpr_create(cl, r)

\* Ne, Ugt, Uge, Sgt and Sge are made of the others; two constants fold.
create(kind, l, r) ==
  CASE kind = "Ne" -> create("Eq", FalseExpr, create("Eq", l, r))
    [] kind = "Ugt" -> create("Ult", r, l)
    [] kind = "Uge" -> create("Ule", r, l)
    [] kind = "Sgt" -> create("Slt", r, l)
    [] kind = "Sge" -> create("Sle", r, l)
    [] OTHER ->
  IF IsConstant(l) /\ IsConstant(r)
  THEN ConstantExpr(Apply(kind, l.width, l.value, r.value), ResultWidth(kind, l))
  ELSE CASE kind \in Divisions -> Division_create(kind, l, r)
         [] kind \in {"Shl", "LShr", "AShr"} -> Shift_create(kind, l, r)
         [] kind \in Comparisons \ {"Eq"} -> Order_create(kind, l, r)
         [] OTHER ->
  LET c == IF IsConstant(l) THEN l ELSE r
      x == IF IsConstant(l) THEN r ELSE l
  IN  IF IsConstant(c)
      THEN CASE kind = "Add" -> AddExpr_createPartialR(c, x)
             [] kind = "Sub" -> IF IsConstant(l) THEN SubExpr_createPartialR(c, x)
                                ELSE AddExpr_createPartialR(ConstantExpr(-c.value, c.width), x)
             [] kind = "Mul" -> MulExpr_createPartialR(c, x)
             [] kind = "And" -> AndExpr_createPartial(x, c)
             [] kind = "Or" -> OrExpr_createPartial(x, c)
             [] kind = "Xor" -> XorExpr_createPartialR(c, x)
             [] kind = "Eq" -> EqExpr_createPartialR(c, x)
      ELSE CASE kind = "Add" -> AddExpr_create(l, r)
             [] kind = "Sub" -> SubExpr_create(l, r)
             [] kind = "Eq" -> EqExpr_create(l, r)
             [] kind = "Mul" /\ l.width = Bool -> Binary("And", l, r)
             [] OTHER -> Binary(kind, l, r)

------------------------------------------------------------------------------
(* The other constructors. *)

\* The updates that are known to be for other indices are passed over, up to the first match.
ReadExpr_create(root, updates, index) ==
  LET cond(j) == create("Eq", index, updates[j][1])
      match == {j \in 1..Len(updates) :
                  IsTrue(cond(j)) /\ \A i \in 1..(j - 1) : IsFalse(cond(i))}
  IN  IF match = {} THEN ReadAt(root, updates, index)
      ELSE updates[CHOOSE j \in match : TRUE][2]

SelectExpr_create(c, t, f) ==
  IF IsConstant(c) THEN (IF IsTrue(c) THEN t ELSE f)
  ELSE IF t = f THEN t
  ELSE IF t.width = Bool /\ IsTrue(t) THEN create("Or", c, f)
  ELSE IF t.width = Bool /\ IsFalse(t) THEN create("And", createIsZero(c), f)
  ELSE IF t.width = Bool /\ IsTrue(f) THEN create("Or", createIsZero(c), t)
  ELSE IF t.width = Bool /\ IsFalse(f) THEN create("And", c, t)
  ELSE alloc("Select", t.width, <<c, t, f>>)

RECURSIVE ConcatExpr_create(_, _)
RECURSIVE ExtractExpr_create(_, _, _)
Extract(x, off, w) == [alloc("Extract", w, <<x>>) EXCEPT !.value = off]

\* Contiguous extracts are merged.
ConcatExpr_create(l, r) ==
  LET w == l.width + r.width
  IN  IF IsConstant(l) /\ IsConstant(r) THEN ConstantExpr(l.value * 2^r.width + r.value, w)
      ELSE IF l.kind = "Extract" /\ r.kind = "Extract"
              /\ l.kids = r.kids /\ r.value + r.width = l.value
           THEN ExtractExpr_create(l.kids[1], r.value, w)
      ELSE alloc("Concat", w, <<l, r>>)

\* An extract of a concat is one of a side of it, or the concat of two.
ExtractExpr_create(x, off, w) ==
  LET right == x.kids[2].width
  IN  IF w = x.width THEN x
      ELSE IF IsConstant(x) THEN ConstantExpr(x.value \div 2^off, w)
      ELSE IF x.kind # "Concat" THEN Extract(x, off, w)
      ELSE IF off >= right THEN ExtractExpr_create(x.kids[1], off - right, w)
      ELSE IF off + w <= right THEN ExtractExpr_create(x.kids[2], off, w)
      ELSE ConcatExpr_create(ExtractExpr_create(x.kids[1], 0, (w - right) + off),
                             ExtractExpr_create(x.kids[2], off, right - off))

NotExpr_create(x) ==
  IF IsConstant(x) THEN ConstantExpr(2^x.width - 1 - x.value, x.width) ELSE alloc("Not", x.width, <<x>>)

\* ZExt and SExt; both truncate to a narrower width.
Ext_create(kind, x, w) ==
  IF w <= x.width THEN ExtractExpr_create(x, 0, w)
  ELSE IF IsConstant(x) THEN Extended(x, kind, w)
  ELSE alloc(kind, w, <<x>>)

------------------------------------------------------------------------------
(* Building.  The value an expression must have is that of the operation on  *)
(* the value it had to have before.                                          *)

Make(x, plain(_)) ==
  /\ creates < MaxCreates
  /\ creates' = creates + 1
  /\ built' = x
  /\ meaning' = [a \in Points |-> Eval(plain(ConstantExpr(meaning[a], built.width)), a)]

Kinds == {"Add", "Sub", "Mul", "And", "Or", "Xor", "Shl", "LShr", "AShr"} \union Divisions \union Comparisons

\* A division follows the check that its divisor is not zero (klee_div_zero_check), and
\* with --check-overshift an arithmetic shift right the one that it is by less than the
\* width (klee_overshift_check).  The other shifts are built here without that check too.
Checked(kind, w, right) ==
  /\ kind \in Divisions => \A a \in Points : right[a] # 0
  /\ kind = "AShr" /\ CheckOvershift => \A a \in Points : right[a] < w

CreateBinary ==
  \E kind \in Kinds, o \in Operands :
     /\ o.width = built.width
     /\ \/ /\ Checked(kind, o.width, [a \in Points |-> Eval(o, a)])
           /\ Make(create(kind, built, o), LAMBDA x : Binary(kind, x, o))
        \/ /\ Checked(kind, o.width, meaning)
           /\ Make(create(kind, o, built), LAMBDA x : Binary(kind, o, x))

CreateSelect ==
  \E t \in Operands, f \in Operands :
     /\ t.width = f.width
     /\ \/ /\ built.width = Bool
           /\ Make(SelectExpr_create(built, t, f), LAMBDA x : alloc("Select", t.width, <<x, t, f>>))
        \/ /\ t.width = Bool
           /\ \E o \in Operands :
                 /\ o.width = built.width
                 /\ \/ Make(SelectExpr_create(t, built, o), LAMBDA x : alloc("Select", o.width, <<t, x, o>>))
                    \/ Make(SelectExpr_create(t, o, built), LAMBDA x : alloc("Select", o.width, <<t, o, x>>))

CreateConcat ==
  \E o \in Operands :
     \/ Make(ConcatExpr_create(built, o), LAMBDA x : alloc("Concat", x.width + o.width, <<x, o>>))
     \/ Make(ConcatExpr_create(o, built), LAMBDA x : alloc("Concat", x.width + o.width, <<o, x>>))

CreateExtract ==
  \E off \in 0..(built.width - 1), w \in 1..built.width :
     /\ off + w <= built.width
     /\ Make(ExtractExpr_create(built, off, w), LAMBDA x : Extract(x, off, w))

CreateUnary ==
  \/ Make(NotExpr_create(built), LAMBDA x : alloc("Not", x.width, <<x>>))
  \/ \E kind \in {"ZExt", "SExt"}, w \in 1..(2 * Byte) :
       Make(Ext_create(kind, built, w),
            LAMBDA x : IF w <= x.width THEN Extract(x, 0, w) ELSE alloc(kind, w, <<x>>))

CreateRead ==
  /\ built.width = Byte
  /\ \E r \in Operands :
        /\ r.kind = "Read"
        /\ Make(ReadExpr_create(r.root, r.updates, built), LAMBDA x : ReadAt(r.root, r.updates, x))

ExprInit ==
  /\ built \in Operands
  /\ meaning = [a \in Points |-> Eval(built, a)]
  /\ creates = 0

ExprNext == CreateBinary \/ CreateSelect \/ CreateConcat \/ CreateExtract \/ CreateUnary \/ CreateRead

ExprSpec == ExprInit /\ [][ExprNext]_exprVars

(* However an expression is built, the foldings and rewritings of the create  *)
(* functions (reassociation, negations pushed inwards, extracts of concats    *)
(* and extensions, reads rolled back over their updates, equalities turned    *)
(* into disjunctions of indices) leave it the value it must have under every  *)
(* assignment of the symbolic bytes.  The exception is an arithmetic shift of *)
(* a Boolean by 1, which --check-overshift keeps from being built: AShrExpr   *)
(* leaves the Boolean (Expr.cpp:923), everywhere else too long a shift is 0.  *)
FoldingKeepsMeaning == \A a \in Points : Eval(built, a) = meaning[a]
==============================================================================

---------------------------- MODULE MCSolverChain ----------------------------
(***************************************************************************)
(* The solver chain, the container of its counterexample cache, the search *)
(* of Solver::getRange, the expressions and the constraints that queries   *)
(* are made of with the fast counterexample solver on them: a behaviour is *)
(* about one of these, and the others stay at their initial states.        *)
(***************************************************************************)
EXTENDS IndependentSolver, MapOfSets, SolverRange, FastCexSolver

VARIABLE part
queryVars == <<constraintVars, fastVars>>
vars == <<part, solverVars, mapVars, rangeVars, exprVars, queryVars>>

Init ==
  /\ part \in {"chain", "map", "range", "expressions", "queries"}
  /\ SolverInit /\ (part # "chain" => options = {})
  /\ MapInit
  /\ RangeInit /\ (part # "range" => possible = {0})
  /\ ExprInit /\ (part # "expressions" => built = TrueExpr)
  /\ FastInit /\ (part # "queries" => rewriteEqualities = "on")

ChainStep == part = "chain" /\ SolverNext /\ UNCHANGED <<part, mapVars, rangeVars, exprVars, queryVars>>
MapStep == part = "map" /\ MapNext /\ UNCHANGED <<part, solverVars, rangeVars, exprVars, queryVars>>
RangeSteps == part = "range" /\ RangeNext /\ UNCHANGED <<part, solverVars, mapVars, exprVars, queryVars>>
ExprStep == part = "expressions" /\ ExprNext /\ UNCHANGED <<part, solverVars, mapVars, rangeVars, queryVars>>
QueryStep == part = "queries" /\ FastNext /\ UNCHANGED <<part, solverVars, mapVars, rangeVars, exprVars>>

Next == ChainStep \/ MapStep \/ RangeSteps \/ ExprStep \/ QueryStep
Spec == Init /\ [][Next]_vars

(* FindsSets, of the behaviours that are about the container (MapOfSets.h:297, *)
(* :335).                                                                      *)
SearchesFindSets == part = "map" => FindsSets

(* FoldingKeepsMeaning, of the behaviours that build an expression with the    *)
(* create functions (Expr.cpp).                                                *)
FoldsRight == part = "expressions" => FoldingKeepsMeaning

(* ConstraintsKeepModels and SimplifiesRight, of the behaviours that add       *)
(* constraints to a state, and before the last of them is asked about          *)
(* (Constraints.cpp:103, :128).                                                *)
PathConditionExact ==
  part = "queries" /\ reply = NoReply => ConstraintsKeepModels /\ SimplifiesRight

------------------------------------------------------------------------------
(* The instance: two arrays of two and one bits, and expressions over them:  *)
(* an integer names an expression, its opposite the negation.                *)

MCCells == {<<"A", 0>>, <<"A", 1>>, <<"B", 0>>}
MCAssignments == [MCCells -> 0..1]

\* 1: true, 2: A[0] = 1, 3: A[1] = 1, 4: B[0] = 1, 5: A[0] = A[1], 6: A[1] = B[0],
\* 7: A[B[0]] = 1.
MCPositive(e, a) ==
  LET x == a[<<"A", 0>>]  y == a[<<"A", 1>>]  z == a[<<"B", 0>>]
  IN  CASE e = 1 -> TRUE [] e = 2 -> x = 1 [] e = 3 -> y = 1 [] e = 4 -> z = 1
        [] e = 5 -> x = y [] e = 6 -> y = z [] OTHER -> a[<<"A", z>>] = 1
MCHolds(e, a) == IF e > 0 THEN MCPositive(e, a) ELSE ~MCPositive(-e, a)
MCExprFalse == -1
MCNeg(e) == -e
MCLess(e, f) == e < f

\* The core solver gives the least or the greatest.
MCRank(a) == 4 * a[<<"A", 0>>] + 2 * a[<<"A", 1>>] + a[<<"B", 0>>]
MCPicks(S) == {a \in S : (\A b \in S : MCRank(a) <= MCRank(b)) \/ (\A b \in S : MCRank(a) >= MCRank(b))}
MCExprs == (-7..7) \ {0}
MCReads(e) ==
  LET k == IF e > 0 THEN e ELSE -e
  IN  CASE k = 1 -> {} [] k = 2 -> {<<"A", 0>>} [] k = 3 -> {<<"A", 1>>} [] k = 4 -> {<<"B", 0>>}
        [] k = 5 -> {<<"A", 0>>, <<"A", 1>>} [] k = 6 -> {<<"A", 1>>, <<"B", 0>>}
        [] OTHER -> {<<"A", -1>>, <<"B", 0>>}

\* The constraints of the last are contradictory.
MCQueries == {
  Query(<<4, 6, 5>>, 2), Query(<<4, 6, 5>>, -1), Query(<<2, -4>>, 3), Query(<<2, -4>>, 7),
  Query(<<4, 6, 5>>, -2), Query(<<3>>, -6), Query(<<5, 2, -3>>, 4)}

MCOptionSets == {
  {},
  {"use-cache", "use-cex-cache", "use-independent-solver"},
  {"use-cache", "use-cex-cache", "use-independent-solver", "cex-cache-try-all", "cex-cache-superset"},
  {"use-cache", "use-fast-cex-solver", "debug-validate-solver"},
  {"use-cex-cache", "cex-cache-exp", "debug-validate-solver", "use-independent-solver"}}

\* Two symbolic bytes of two bits, x[0] and x[1], and a table of constants.
MCConstants == [t |-> <<1, 2, 1, 3>>]
MCPoints == [{"x"} \X (0..1) -> 0..3]
C(n) == ConstantExpr(n, 2)
X(i) == ReadAt("x", << >>, C(i))
MCLower == create("Ult", X(0), X(1))
MCWritten == ReadAt("x", <<<<C(0), X(1)>>, <<X(0), C(2)>>>>, C(1))
MCOperands == {
  C(3), X(0), create("Add", C(1), X(0)), ReadAt("t", << >>, X(0)), MCWritten,
  ConstantExpr(9, 4), TrueExpr, createIsZero(create("Eq", X(0), X(1)))}

MCWord == ConcatExpr_create(X(1), X(0))
MCConditions == {
  MCLower, NotExpr_create(MCLower), create("Eq", C(2), X(0)), create("Eq", X(0), X(1)),
  create("Eq", C(2), create("Add", X(0), X(1))), create("Eq", ReadAt("t", << >>, X(0)), X(1)),
  create("And", create("Ule", X(1), C(2)), create("Eq", C(3), create("Sub", X(0), X(1)))),
  create("Eq", C(2), ReadAt("x", <<<<X(1), X(0)>>>>, C(1))), create("Eq", MCWritten, X(0)),
  create("Eq", ConstantExpr(6, 4), MCWord), create("Ult", ConstantExpr(9, 4), MCWord),
  create("Ule", ConstantExpr(20, 6), ConcatExpr_create(X(0), MCWord)),
  create("Or", create("Eq", C(0), X(0)), create("Eq", C(3), X(1))),
  create("Slt", Ext_create("SExt", X(0), 4), Ext_create("ZExt", X(1), 4)),
  create("Ult", SelectExpr_create(MCLower, X(0), X(1)), C(1)),
  create("Eq", FalseExpr, create("And", MCLower, create("Ult", C(1), X(0))))}
==============================================================================

-------------------------- MODULE ConstraintManager --------------------------
(***************************************************************************)
(* The path condition of a state (Constraints.cpp) on the expressions of   *)
(* Expressions: a constraint is simplified with the equalities already     *)
(* known, split at its conjunctions, and an equality with a constant       *)
(* rewrites the constraints before it, which are added anew when that      *)
(* changes them.                                                           *)
(***************************************************************************)
EXTENDS Expressions, SequencesExt

CONSTANTS Conditions,      \* the Boolean expressions that are added and simplified
          MaxConstraints   \* bound on the calls of addConstraint

VARIABLES rewriteEqualities,   \* the option --rewrite-equalities: "on" or "off"
          constraints,         \* the constraints of the state, in order
          models,              \* the assignments that satisfy all that was added
          added
constraintVars == <<rewriteEqualities, constraints, models, added>>

------------------------------------------------------------------------------
(* ExprVisitor. *)

\* Expr::rebuild: the same operation on other kids.
rebuild(x, kids) ==
  CASE x.kind = "Read" -> ReadExpr_create(x.root, x.updates, kids[1])
    [] x.kind = "NotOptimized" -> alloc("NotOptimized", x.width, kids)
    [] x.kind = "Select" -> SelectExpr_create(kids[1], kids[2], kids[3])
    [] x.kind = "Concat" -> ConcatExpr_create(kids[1], kids[2])
    [] x.kind = "Extract" -> ExtractExpr_create(kids[1], x.value, x.width)
    [] x.kind = "Not" -> NotExpr_create(kids[1])
    [] x.kind \in {"ZExt", "SExt"} -> Ext_create(x.kind, kids[1], x.width)
    [] OTHER -> create(x.kind, kids[1], kids[2])

\* The two visitors that replace expressions: ExprReplaceVisitor also before the kids,
\* ExprReplaceVisitor2, the recursive one, only after them but once more in what it rebuilds.
RECURSIVE visit(_, _, _)
visitActual(x, kids, replacements, recursive) ==
  LET again(y) == IF recursive THEN visit(y, replacements, recursive) ELSE y
  IN  IF kids = x.kids THEN x ELSE again(rebuild(x, kids))

visitExprPost(y, replacements) ==
  IF ~IsConstant(y) /\ y \in DOMAIN replacements THEN replacements[y] ELSE y

visit(x, replacements, recursive) ==
  IF IsConstant(x) THEN x
  ELSE IF ~recursive /\ x \in DOMAIN replacements THEN replacements[x]
  ELSE visitExprPost(
         visitActual(x, [i \in 1..Len(x.kids) |-> visit(x.kids[i], replacements, recursive)],
                     replacements, recursive),
         replacements)

------------------------------------------------------------------------------
(* ConstraintManager.  A manager is its constraints and whether the assertion *)
(* against a false constraint held.                                           *)

Manager(cs) == [cs |-> cs, ok |-> TRUE]

\* What each constraint tells: its right side is a constant, or it is true.
Equality(c) ==
  IF HasConstant(c, "Eq") THEN <<c.kids[2], c.kids[1]>> ELSE <<c, TrueExpr>>

simplifyExpr(cs, x) ==
  LET known == [i \in 1..Len(cs) |-> Equality(cs[i])]
      first(y) == CHOOSE i \in 1..Len(cs) : known[i][1] = y /\ \A j \in 1..(i - 1) : known[j][1] # y
  IN  visit(x, [y \in {known[i][1] : i \in 1..Len(cs)} |-> known[first(y)][2]], TRUE)

RECURSIVE addConstraintInternal(_, _)

putBack(m, c, rewritten) ==
  IF rewritten = c THEN [m EXCEPT !.cs = Append(@, c)] ELSE addConstraintInternal(m, rewritten)

\* The constraints are taken out and put back one by one, those that change by being added.
rewriteConstraints(m, src, dst) ==
  LET old == m.cs
      upTo[i \in 0..Len(old)] ==
        IF i = 0 THEN [m EXCEPT !.cs = << >>]
        ELSE putBack(upTo[i - 1], old[i], visit(old[i], [y \in {src} |-> dst], FALSE))
  IN  upTo[Len(old)]

\* Mutant: an equality is recorded before it rewrites the constraints.
addConstraintInternal_early(m, c) ==
  IF HasConstant(c, "Eq") /\ rewriteEqualities = "on"
  THEN rewriteConstraints([m EXCEPT !.cs = Append(@, c)], c.kids[2], c.kids[1])
  ELSE [m EXCEPT !.cs = Append(@, c)]

addConstraintInternal(m, c) ==
  CASE IsConstant(c) -> [m EXCEPT !.ok = @ /\ IsTrue(c)]
    [] c.kind = "And" -> addConstraintInternal(addConstraintInternal(m, c.kids[1]), c.kids[2])
    [] OTHER ->
       LET rewritten == IF HasConstant(c, "Eq") /\ rewriteEqualities = "on"
                        THEN rewriteConstraints(m, c.kids[2], c.kids[1]) ELSE m
       IN  [rewritten EXCEPT !.cs = Append(@, c)]

addConstraint(cs, c) == addConstraintInternal(Manager(cs), simplifyExpr(cs, c))

------------------------------------------------------------------------------

Satisfying(S, c) == {a \in S : Eval(c, a) = 1}

\* A state takes a condition that one of its inputs meets (Executor::fork, addConstraint).
AddConstraint ==
  \E c \in Conditions :
     /\ added < MaxConstraints
     /\ Satisfying(models, c) # {}
     /\ added' = added + 1
     /\ \E m \in {addConstraint(constraints, c)} :
           constraints' = IF m.ok THEN m.cs ELSE <<FalseExpr>>
     /\ models' = Satisfying(models, c)
     /\ UNCHANGED rewriteEqualities

ConstraintInit ==
  /\ rewriteEqualities \in {"on", "off"}
  /\ constraints = << >>
  /\ models = Points
  /\ added = 0

ConstraintSpec == ConstraintInit /\ [][AddConstraint]_constraintVars

(* The constraints of a state have the models of all the conditions that were *)
(* added to it, none lost when an equality rewrites the constraints before it *)
(* or a rewritten one is added anew, and the assertion "attempt to add        *)
(* invalid (false) constraint" (Constraints.cpp:133) does not fail.           *)
ConstraintsKeepModels ==
  {a \in Points : \A i \in 1..Len(constraints) : Eval(constraints[i], a) = 1} = models

(* simplifyExpr leaves every condition the value it has on the inputs of the  *)
(* state (Constraints.cpp:103, used for addresses, branch conditions and      *)
(* every query).                                                              *)
SimplifiesRight ==
  \A c \in Conditions, a \in models : Eval(simplifyExpr(constraints, c), a) = Eval(c, a)
==============================================================================

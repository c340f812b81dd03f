---------------------------- MODULE SolverCaches ----------------------------
(***************************************************************************)
(* The solver chain below the independence solver: CachingSolver over      *)
(* CexCachingSolver over the fast counterexample solver (StagedSolverImpl) *)
(* over the core solver, each switched on by its option.  An expression is *)
(* what it says of the assignments of the symbolic bytes.  A call returns  *)
(* false, or true and a value, and may change the caches: an operation is  *)
(* the set of its possible outcomes.                                       *)
(***************************************************************************)
EXTENDS Integers, Sequences, Functions

CONSTANTS Exprs, Assignments,
          Holds(_, _),         \* an expression is true under an assignment
          Neg(_),              \* Expr::createIsZero
          Less(_, _),          \* the order of Expr::compare
          ExprTrue, ExprFalse,
          Picks(_)           \* the ones of some assignments that the core solver may give

ASSUME ExprAssumption ==
  /\ ExprTrue \in Exprs /\ ExprFalse \in Exprs /\ Neg(ExprTrue) = ExprFalse
  /\ \A a \in Assignments : Holds(ExprTrue, a) /\ ~Holds(ExprFalse, a)
  /\ \A e \in Exprs : /\ Neg(e) \in Exprs /\ Neg(Neg(e)) = e
                      /\ \A a \in Assignments : Holds(Neg(e), a) <=> ~Holds(e, a)
  /\ \A S \in SUBSET Assignments : Picks(S) \subseteq S /\ (S # {} => Picks(S) # {})

VARIABLE options       \* the command line: which layers there are and how they search

Query(constraints, expr) == [constraints |-> constraints, expr |-> expr]
withFalse(q) == Query(q.constraints, ExprFalse)
negateExpr(q) == Query(q.constraints, Neg(q.expr))

Sat(key) == {a \in Assignments : \A e \in key : Holds(e, a)}
Models(q) == Sat(Range(q.constraints))
IsValid(q) == \A a \in Models(q) : Holds(q.expr, a)

\* The value of an answer is a string, or the set of the assignment found: {} is
\* the null pointer.  "timeout": false because the core solver failed; "false":
\* false although it did not; "abort": an assertion.
Answer(value, c) == [status |-> "ok", value |-> value, caches |-> c]
Timeout(value, c) == [status |-> "timeout", value |-> value, caches |-> c]
ReturnFalse(value, c) == [status |-> "false", value |-> value, caches |-> c]
Abort(value, c) == [status |-> "abort", value |-> value, caches |-> c]

Truth(b) == IF b THEN "True" ELSE "False"
Unset == "Unset"
Null == {}

------------------------------------------------------------------------------
(* The core solver: external, a solver that answers rightly or gives up. *)

Key(q) == Range(q.constraints) \cup (IF q.expr = ExprFalse THEN {} ELSE {Neg(q.expr)})

Solutions(q) == IF Sat(Key(q)) = {} THEN {Null} ELSE {{a} : a \in Picks(Sat(Key(q)))}

core_computeTruth(c, q) == {Timeout(Unset, c), Answer(Truth(IsValid(q)), c)}

\* Without a solution STPSolverImpl returns false and Z3SolverImpl fails an assertion.
core_computeValue(c, q) ==
  {Timeout(Unset, c)} \cup
  (IF Models(q) = {} THEN {Abort(Unset, c)}
   ELSE {Answer(Truth(Holds(q.expr, a)), c) : a \in Picks(Models(q))})

core_computeInitialValues(c, q) ==
  {Timeout(Null, c)} \cup {Answer(found, c) : found \in Solutions(q)}

\* SolverImpl::computeValidity, from two answers of computeTruth.
core_computeValidity(c, q) ==
  UNION {IF t.status # "ok" THEN {t}
         ELSE IF t.value = "True" THEN {Answer("True", c)}
         ELSE {IF f.status # "ok" THEN f
               ELSE Answer(IF f.value = "True" THEN "False" ELSE "Unknown", c) :
                 f \in core_computeTruth(c, negateExpr(q))} :
           t \in core_computeTruth(c, q)}

------------------------------------------------------------------------------
(* IncompleteSolver and StagedSolverImpl.  What the primary solver says of *)
(* a query is right but may be nothing.                                    *)

negatePartialValidity(pv) ==
  CASE pv = "MustBeTrue" -> "MustBeFalse" [] pv = "MustBeFalse" -> "MustBeTrue"
    [] pv = "MayBeTrue" -> "MayBeFalse"   [] pv = "MayBeFalse" -> "MayBeTrue"
    [] OTHER -> pv

primary_computeTruth(q) == {"None", IF IsValid(q) THEN "MustBeTrue" ELSE "MayBeFalse"}

incomplete_computeValidity(q) ==
  {CASE t = "MustBeTrue" -> "MustBeTrue"
     [] t # "MustBeTrue" /\ f = "MustBeTrue" -> "MustBeFalse"
     [] t = "MayBeFalse" /\ f = "MayBeFalse" -> "TrueOrFalse"
     [] t = "MayBeFalse" /\ f = "None" -> "MayBeFalse"
     [] t = "None" /\ f = "MayBeFalse" -> "MayBeTrue"
     [] OTHER -> "None" :
       t \in primary_computeTruth(q), f \in primary_computeTruth(negateExpr(q))}

staged_computeTruth(c, q) ==
  UNION {IF t = "None" THEN core_computeTruth(c, q) ELSE {Answer(Truth(t = "MustBeTrue"), c)} :
           t \in primary_computeTruth(q)}

\* What is known of one side: ask for the other.
Either(outcomes, certain, c) ==
  {IF o.status # "ok" THEN o ELSE Answer(IF o.value = "True" THEN certain ELSE "Unknown", o.caches) :
     o \in outcomes}

staged_computeValidity(c, q) ==
  UNION {CASE pv = "MustBeTrue" -> {Answer("True", c)}
           [] pv = "MustBeFalse" -> {Answer("False", c)}
           [] pv = "TrueOrFalse" -> {Answer("Unknown", c)}
           [] pv = "MayBeTrue" -> Either(core_computeTruth(c, q), "True", c)
           [] pv = "MayBeFalse" -> Either(core_computeTruth(c, negateExpr(q)), "False", c)
           [] OTHER -> core_computeValidity(c, q) :
             pv \in incomplete_computeValidity(q)}

FastCex == "use-fast-cex-solver" \in options
below_computeTruth(c, q) == IF FastCex THEN staged_computeTruth(c, q) ELSE core_computeTruth(c, q)
below_computeValidity(c, q) ==
  IF FastCex THEN staged_computeValidity(c, q) ELSE core_computeValidity(c, q)

------------------------------------------------------------------------------
(* CexCachingSolver.  c.cex maps sets of expressions to what was found for *)
(* them, c.table is the set of all assignments found.                      *)

Satisfies(found, key) == \A a \in found : \A e \in key : Holds(e, a)

\* The possible results; none: the query is not cached.  The order in which
\* MapOfSets finds subsets and supersets is left open.
searchForAssignment(c, key) ==
  LET TryAll == "cex-cache-try-all" \in options
      SuperSets == {k \in DOMAIN c.cex : key \subseteq k /\ c.cex[k] # Null}
      SubSets == {k \in DOMAIN c.cex :
                    /\ k \subseteq key
                    /\ c.cex[k] = Null \/ (~TryAll /\ Satisfies(c.cex[k], key))}
  IN  IF key \in DOMAIN c.cex THEN {c.cex[key]}
      ELSE IF "cex-cache-superset" \in options /\ SuperSets # {} THEN {c.cex[k] : k \in SuperSets}
      ELSE IF SubSets # {} THEN {c.cex[k] : k \in SubSets}
      ELSE IF TryAll THEN {{a} : a \in {b \in c.table : Satisfies({b}, key)}}
      ELSE {}

lookupAssignment(c, q) ==
  IF Neg(q.expr) = ExprFalse THEN {Null} ELSE searchForAssignment(c, Key(q))

Insert(c, q, found) ==
  [c EXCEPT !.cex = [k \in DOMAIN @ \cup {Key(q)} |-> IF k = Key(q) THEN found ELSE @[k]],
            !.table = @ \cup found]

\* A cached null pointer, converted to bool, is false.
getAssignment(c, q) ==
  IF lookupAssignment(c, q) # {}
  THEN {IF found = Null THEN ReturnFalse(Null, c) ELSE Answer(found, c) :
          found \in lookupAssignment(c, q)}
  ELSE {IF o.status # "ok" THEN o ELSE Answer(o.value, Insert(c, q, o.value)) :
          o \in core_computeInitialValues(c, q)}

\* True or false for certain when no assignment shows the other side.
Decided(outcomes, certain) ==
  {IF o.status # "ok" THEN [o EXCEPT !.value = Unset]
   ELSE Answer(IF o.value = Null THEN certain ELSE "Unknown", o.caches) : o \in outcomes}

cex_computeValidity(c, q) ==
  UNION {CASE o.status # "ok" -> {[o EXCEPT !.value = Unset]}
           [] o.status = "ok" /\ o.value = Null -> {Abort(Unset, o.caches)}
           [] OTHER -> IF \A a \in o.value : Holds(q.expr, a)
                       THEN Decided(getAssignment(o.caches, q), "True")
                       ELSE Decided(getAssignment(o.caches, negateExpr(q)), "False") :
           o \in getAssignment(c, withFalse(q))}

cex_computeTruth(c, q) ==
  (IF "cex-cache-exp" \in options /\ Null \in lookupAssignment(c, negateExpr(q))
   THEN {ReturnFalse(Unset, c)} ELSE {})
  \cup
  (IF "cex-cache-exp" \in options /\ lookupAssignment(c, negateExpr(q)) = {Null} THEN {}
   ELSE {IF o.status # "ok" THEN [o EXCEPT !.value = Unset]
         ELSE Answer(Truth(o.value = Null), o.caches) : o \in getAssignment(c, q)})

cex_computeValue(c, q) ==
  {CASE o.status # "ok" -> [o EXCEPT !.value = Unset]
     [] o.status = "ok" /\ o.value = Null -> Abort(Unset, o.caches)
     [] OTHER -> Answer(Truth(\A a \in o.value : Holds(q.expr, a)), o.caches) :
       o \in getAssignment(c, withFalse(q))}

UseCex == "use-cex-cache" \in options
next_computeTruth(c, q) == IF UseCex THEN cex_computeTruth(c, q) ELSE below_computeTruth(c, q)
next_computeValidity(c, q) ==
  IF UseCex THEN cex_computeValidity(c, q) ELSE below_computeValidity(c, q)
next_computeValue(c, q) == IF UseCex THEN cex_computeValue(c, q) ELSE core_computeValue(c, q)
next_computeInitialValues(c, q) ==
  IF UseCex THEN getAssignment(c, q) ELSE core_computeInitialValues(c, q)

------------------------------------------------------------------------------
(* CachingSolver.  c.cache maps constraints and a canonical query to what  *)
(* is known of it, as a partial validity.                                  *)

negationUsed(q) == ~Less(q.expr, Neg(q.expr))
CacheEntry(q) == <<q.constraints, IF negationUsed(q) THEN Neg(q.expr) ELSE q.expr>>
Canonical(q, pv) == IF negationUsed(q) THEN negatePartialValidity(pv) ELSE pv

cacheLookup(c, q) ==
  IF CacheEntry(q) \in DOMAIN c.cache THEN Canonical(q, c.cache[CacheEntry(q)]) ELSE "None"

\* Mutant: the result of a query that was negated is entered as it is.
cacheInsertPlain(c, q, pv) ==
  [c EXCEPT !.cache = [e \in DOMAIN @ \cup {CacheEntry(q)} |->
                         IF e \in DOMAIN @ THEN @[e] ELSE pv]]

\* An entry that is there already stays as it is: std::map::insert.
cacheInsert(c, q, pv) ==
  [c EXCEPT !.cache = [e \in DOMAIN @ \cup {CacheEntry(q)} |->
                         IF e \in DOMAIN @ THEN @[e] ELSE Canonical(q, pv)]]

Inserted(outcomes, q, result) ==
  {IF o.status # "ok" THEN o ELSE Answer(o.value, cacheInsert(o.caches, q, result[o.value])) :
     o \in outcomes}

FullValidity == [True |-> "MustBeTrue", False |-> "MustBeFalse", Unknown |-> "TrueOrFalse"]

caching_computeValidity(c, q) ==
  LET known == cacheLookup(c, q)
  IN  CASE known = "MustBeTrue" -> {Answer("True", c)}
        [] known = "MustBeFalse" -> {Answer("False", c)}
        [] known = "TrueOrFalse" -> {Answer("Unknown", c)}
        [] known = "MayBeTrue" ->
             Inserted(Either(next_computeTruth(c, q), "True", c), q, FullValidity)
        [] known = "MayBeFalse" ->
             Inserted(Either(next_computeTruth(c, negateExpr(q)), "False", c), q, FullValidity)
        [] OTHER -> Inserted(next_computeValidity(c, q), q, FullValidity)

caching_computeTruth(c, q) ==
  LET known == cacheLookup(c, q)
      result == [True |-> "MustBeTrue",
                 False |-> IF known = "MayBeTrue" THEN "TrueOrFalse" ELSE "MayBeFalse"]
  IN  IF known \notin {"None", "MayBeTrue"} THEN {Answer(Truth(known = "MustBeTrue"), c)}
      ELSE Inserted(next_computeTruth(c, q), q, result)

------------------------------------------------------------------------------
(* The chain below the independence solver, with or without CachingSolver. *)

UseCache == "use-cache" \in options
chain_computeTruth(c, q) ==
  IF UseCache THEN caching_computeTruth(c, q) ELSE next_computeTruth(c, q)
chain_computeValidity(c, q) ==
  IF UseCache THEN caching_computeValidity(c, q) ELSE next_computeValidity(c, q)

NoCaches == [cache |-> << >>, cex |-> << >>, table |-> {}]

(* What the caches hold is true: an entry of the counterexample cache is   *)
(* an assignment that satisfies its key, or null and its key cannot be     *)
(* satisfied, whatever subsets, supersets and old assignments it was found *)
(* from; an entry of the query cache says of its query what is so.         *)
Says(pv, q) ==
  CASE pv = "MustBeTrue" -> IsValid(q)
    [] pv = "MustBeFalse" -> IsValid(negateExpr(q))
    [] pv = "MayBeTrue" -> ~IsValid(negateExpr(q))
    [] pv = "MayBeFalse" -> ~IsValid(q)
    [] pv = "TrueOrFalse" -> ~IsValid(q) /\ ~IsValid(negateExpr(q))
    [] OTHER -> FALSE

Sound(c) ==
  /\ \A key \in DOMAIN c.cex : IF c.cex[key] = Null THEN Sat(key) = {}
                                ELSE \E a \in Sat(key) : c.cex[key] = {a}
  /\ c.table \subseteq Assignments
  /\ \A e \in DOMAIN c.cache : Says(c.cache[e], Query(e[1], e[2]))
==============================================================================

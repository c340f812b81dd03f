--------------------------- MODULE Reconciliation ---------------------------
(***************************************************************************)
(* KleeHandler::processTestCase and castan::RainbowTable.  During the      *)
(* symbolic execution castan_havoc replaces a hash by an unconstrained     *)
(* output.  At the end of a path every output must be reconciled with its  *)
(* input: an output value is fixed, inputs with that hash are looked up in *)
(* a sorted table, and the first one that fits the path is taken.  A path  *)
(* with an unreconciled havoc is dropped.                                  *)
(*                                                                         *)
(* Constraints and queries are the sets of worlds that satisfy them; a     *)
(* world gives the input and the output of every havoc of the path.  A     *)
(* table record is known by its number, counted from 0.                    *)
(***************************************************************************)
EXTENDS Integers, Sequences

CONSTANTS
    Havoc, Input, HashValue,
    Hash,   \* the havocked function, [Input -> HashValue]
    Table,  \* the records of the file: [value, input]
    Path,   \* the paths that end: [packets, constraints]
    OutputUnreconciled \* --output-unreconciled

HavocWorld == [Havoc -> [in : Input, out : HashValue]]

ASSUME HashAssumption == Hash \in [Input -> HashValue] /\ HashValue \subseteq Int
ASSUME TableAssumption ==
    /\ Table \in Seq([value : HashValue, input : Input])
    /\ \A i \in 1..Len(Table) : Hash[Table[i].input] = Table[i].value
    /\ \A i, j \in 1..Len(Table) : i < j => Table[i].value <= Table[j].value
ASSUME PathAssumption ==
    \A p \in Path : /\ p.packets \in Seq(Seq(Havoc))
                    /\ p.constraints \in (SUBSET HavocWorld) \ {{}}
ASSUME OptionAssumption == OutputUnreconciled \in BOOLEAN

VARIABLES
    at,          \* where processTestCase is
    havocs,      \* the havocs of each packet
    stateConstraints, \* of the state, which the reconciliation adds to
    packet, havoc, \* loop counters, from 1
    values,      \* the outputs that the solver chose for the packet
    query,       \* the inputs chosen for the packet so far
    minRecord, maxRecord, \* of the binary search; maxRecord is then the cursor
    solverFail,  \* a query for this havoc had no answer
    reconciledHavocs, reconciledPackets

pathVars == <<havocs, stateConstraints, packet, reconciledPackets>>
tableVars == <<minRecord, maxRecord, solverFail>>
reconcileVars == <<at, pathVars, havoc, values, query, tableVars, reconciledHavocs>>

At(place) == at = place
Goto(place) == at' = place
Objects == havocs[packet]
value == values[havoc]

-----------------------------------------------------------------------------

\* A packet without havocs is reconciled.
skipPacket ==
    /\ At("packet") /\ packet <= Len(havocs) /\ Objects = <<>>
    /\ packet' = packet + 1
    /\ reconciledPackets' = reconciledPackets + 1
    /\ UNCHANGED <<at, havocs, stateConstraints, havoc, values, query, tableVars,
                   reconciledHavocs>>

\* getInitialValues picks the outputs, and they are bound.
solveOutputs ==
    /\ At("packet") /\ packet <= Len(havocs) /\ Objects # <<>>
    /\ \E w \in stateConstraints :
         /\ values' = [i \in 1..Len(Objects) |-> w[Objects[i]].out]
         /\ stateConstraints' = {x \in stateConstraints :
                \A i \in 1..Len(Objects) : x[Objects[i]].out = w[Objects[i]].out}
    /\ query' = HavocWorld
    /\ havoc' = 1 /\ reconciledHavocs' = 0
    /\ Goto("havoc")
    /\ UNCHANGED <<havocs, packet, reconciledPackets, tableVars>>

\* The constructor of RainbowTable.
openTable ==
    /\ At("havoc") /\ havoc <= Len(Objects)
    /\ minRecord' = 0 /\ maxRecord' = Len(Table)
    /\ solverFail' = FALSE
    /\ Goto("searching")
    /\ UNCHANGED <<pathVars, havoc, values, query, reconciledHavocs>>

\* Mutant: the lower bound never passes the middle.
raisedMinSame(mid) == mid

\* The lower bound after a record that is too small.
raisedMin(mid) == IF minRecord = mid THEN mid + 1 ELSE mid

\* Mutant: the search stops at any record with the value.
tooSmallOrEqual(lineValue) == lineValue <= value

tooSmall(lineValue) == lineValue < value

searchTable ==
    /\ At("searching") /\ minRecord < maxRecord
    /\ LET mid == minRecord + (maxRecord - minRecord) \div 2
       IN  IF tooSmall(Table[mid + 1].value)
           THEN minRecord' = raisedMin(mid) /\ UNCHANGED maxRecord
           ELSE maxRecord' = mid /\ UNCHANGED minRecord
    /\ UNCHANGED <<at, pathVars, havoc, values, query, solverFail, reconciledHavocs>>

tableFound ==
    /\ At("searching") /\ minRecord >= maxRecord
    /\ Goto("reading")
    /\ UNCHANGED <<pathVars, havoc, values, query, tableVars, reconciledHavocs>>

\* getValue returns the input of the record at the cursor if it has the value.
HasValue == maxRecord < Len(Table) /\ Table[maxRecord + 1].value = value

\* Mutant: the inputs of earlier havocs are forgotten.
WithInputAlone == {w \in HavocWorld : w[Objects[havoc]].in = Table[maxRecord + 1].input}

\* The query extended by the input that was read.
WithInput == {w \in query : w[Objects[havoc]].in = Table[maxRecord + 1].input}

mayBeTrue == stateConstraints \cap WithInput # {}

fits ==
    /\ At("reading") /\ HasValue /\ mayBeTrue
    /\ query' = WithInput
    /\ reconciledHavocs' = reconciledHavocs + 1
    /\ havoc' = havoc + 1
    /\ Goto("havoc")
    /\ UNCHANGED <<pathVars, values, tableVars>>

\* The input does not fit, or the solver gave up on it.
unsat ==
    /\ At("reading") /\ HasValue
    /\ solverFail' = (solverFail \/ mayBeTrue)
    /\ maxRecord' = maxRecord + 1
    /\ UNCHANGED <<at, pathVars, havoc, values, query, minRecord, reconciledHavocs>>

outOfCollisions ==
    /\ At("reading") /\ ~HasValue
    /\ havoc' = havoc + 1
    /\ Goto("havoc")
    /\ UNCHANGED <<pathVars, values, query, tableVars, reconciledHavocs>>

allReconciled == reconciledHavocs >= Len(Objects)

\* The chosen inputs become constraints, also those of an incomplete packet.
endPacket ==
    /\ At("havoc") /\ havoc > Len(Objects)
    /\ stateConstraints' = stateConstraints \cap query
    /\ reconciledPackets' = reconciledPackets + (IF allReconciled THEN 1 ELSE 0)
    /\ packet' = packet + 1
    /\ Goto("packet")
    /\ UNCHANGED <<havocs, havoc, values, query, tableVars, reconciledHavocs>>

endPath ==
    /\ At("packet") /\ packet > Len(havocs)
    /\ Goto(IF reconciledPackets < Len(havocs) /\ ~OutputUnreconciled
            THEN "ignored" ELSE "written")
    /\ UNCHANGED <<pathVars, havoc, values, query, tableVars, reconciledHavocs>>

ReconcileInit ==
    /\ at = "packet"
    /\ \E p \in Path : havocs = p.packets /\ stateConstraints = p.constraints
    /\ packet = 1 /\ havoc = 1
    /\ values = <<>> /\ query = {}
    /\ minRecord = 0 /\ maxRecord = 0 /\ solverFail = FALSE
    /\ reconciledHavocs = 0 /\ reconciledPackets = 0

ReconcileNext ==
    \/ skipPacket \/ solveOutputs
    \/ openTable \/ searchTable \/ tableFound
    \/ fits \/ unsat \/ outOfCollisions
    \/ endPacket \/ endPath

ReconcileSpec == ReconcileInit /\ [][ReconcileNext]_reconcileVars

\* processTestCase runs to its end without waiting for anything.
ReconcileFairSpec == ReconcileSpec /\ WF_reconcileVars(ReconcileNext)

-----------------------------------------------------------------------------
(* Properties *)

\* The variables have the types of processTestCase's locals.
ReconcileTypeOK ==
    /\ at \in {"packet", "havoc", "searching", "reading", "ignored", "written"}
    /\ havocs \in Seq(Seq(Havoc))
    /\ stateConstraints \subseteq HavocWorld /\ query \subseteq HavocWorld
    /\ packet \in 1..(Len(havocs) + 1) /\ havoc \in Nat
    /\ values \in Seq(HashValue)
    /\ minRecord \in 0..Len(Table) /\ maxRecord \in 0..Len(Table)
    /\ solverFail \in BOOLEAN
    /\ reconciledHavocs \in Nat /\ reconciledPackets \in 0..Len(havocs)

\* The constraints that the reconciliation adds never contradict the path, not
\* even when some havocs of a packet find no input.
StaysFeasible == stateConstraints # {}

\* A test case that is written without --output-unreconciled is real: whatever
\* solution of the constraints is taken for it, every output is the hash of its
\* input.
WrittenIsReal ==
    At("written") /\ ~OutputUnreconciled =>
        \A p \in 1..Len(havocs) : \A i \in 1..Len(havocs[p]) : \A w \in stateConstraints :
            Hash[w[havocs[p][i]].in] = w[havocs[p][i]].out

\* A test case that is written can be run and does what it says: the constraints
\* stay satisfiable and, without --output-unreconciled, hold only for inputs
\* whose hashes are the outputs that the path took.
TestCasesReal == ReconcileTypeOK /\ StaysFeasible /\ WrittenIsReal

\* A havoc is given up only after every input of the table that has the hash
\* was found not to fit, unless the solver failed: neither the search nor the
\* cursor skips one.
NoneMissed ==
    [][At("reading") /\ ~HasValue /\ ~solverFail
         => \A i \in 1..Len(Table) : \A w \in stateConstraints \cap query :
              Table[i].value = value => w[Objects[havoc]].in # Table[i].input]_reconcileVars

\* The binary search and the loops over records, havocs and packets end.
Ends == <>(at \in {"written", "ignored"})
=============================================================================

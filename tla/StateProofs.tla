----------------------------- MODULE StateProofs -----------------------------
(***************************************************************************)
(* What an execution state holds, and what becomes of it at its end: the   *)
(* reconciliation of its havocs, the address spaces with any number of     *)
(* states, objects and cells, and objects of any size.                     *)
(*                                                                         *)
(* processTestCase and RainbowTable, for every table, every hash and every *)
(* path: the test cases that are written are real, and the binary search   *)
(* over the sorted table skips no record.                                  *)
(*                                                                         *)
(* Address spaces are isolated by copy-on-write.  The inductive invariant  *)
(* says that a cell that two spaces share is owned by neither.  A fork     *)
(* preserves it because no owner is ahead of the key of a space that binds *)
(* the cell, so the key that follows is unused.  A write preserves it      *)
(* because a cell written in place is bound nowhere else.  With it every   *)
(* step changes the memory of one space only.                              *)
(*                                                                         *)
(* An ObjectState keeps its cache invariants and is an array of bytes      *)
(* under every assignment.                                                 *)
(***************************************************************************)
EXTENDS AddressSpace, ObjectState, Reconciliation, TLAPS

\* The context is large: the SMT solver is given more time than by default.
USE SMTT(20), Zenon

-----------------------------------------------------------------------------
(* Reconciliation: the inductive invariant *)

\* The havocs of the packet are being reconciled.
InPacket == at \in {"havoc", "searching", "reading"}

\* While a packet is worked on, its outputs are bound, there is an object at
\* the loop counter wherever the table is used, and the inputs chosen so far
\* fit the path together.
PacketInProgress ==
    InPacket =>
        /\ packet <= Len(havocs)
        /\ havoc \in 1..(Len(Objects) + 1)
        /\ at # "havoc" => havoc <= Len(Objects)
        /\ values \in [1..Len(Objects) -> HashValue]
        /\ \A w \in stateConstraints : \A i \in 1..Len(Objects) :
             w[Objects[i]].out = values[i]
        /\ stateConstraints \cap query # {}

\* reconciledHavocs falls behind the loop counter for good at the first havoc
\* that finds no input; until then every choice is an input with the output as
\* its hash.
HavocsReal ==
    InPacket =>
        /\ reconciledHavocs <= havoc - 1
        /\ reconciledHavocs = havoc - 1 =>
             \A w \in query : \A i \in 1..(havoc - 1) :
                 Hash[w[Objects[i]].in] = values[i]

\* The same for the packets: as long as all were reconciled, the constraints
\* leave only worlds that are real for the havocs behind.
PacketsReal ==
    /\ reconciledPackets <= packet - 1
    /\ reconciledPackets = packet - 1 =>
         \A w \in stateConstraints : \A p \in 1..(packet - 1) : \A i \in 1..Len(havocs[p]) :
             Hash[w[havocs[p][i]].in] = w[havocs[p][i]].out

\* A test case is written at the end of the packets, and without
\* --output-unreconciled only if all of them were reconciled.
WrittenAtTheEnd ==
    At("written") => /\ packet = Len(havocs) + 1
                     /\ OutputUnreconciled \/ reconciledPackets = Len(havocs)

\* The binary search keeps the records that are too small below minRecord and
\* the others above maxRecord.
SearchBrackets ==
    At("searching") =>
        /\ minRecord <= maxRecord
        /\ \A i \in 1..minRecord : Table[i].value < value
        /\ \A i \in (maxRecord + 1)..Len(Table) : value <= Table[i].value

\* Every record with the value that the cursor has passed was found not to fit,
\* and all that follow are at least as large.
CursorSkipsNone ==
    At("reading") =>
        /\ \A i \in (maxRecord + 1)..Len(Table) : value <= Table[i].value
        /\ ~solverFail =>
             \A i \in 1..maxRecord : \A w \in stateConstraints \cap query :
                 Table[i].value = value => w[Objects[havoc]].in # Table[i].input

ReconcileInv ==
    /\ ReconcileTypeOK /\ StaysFeasible
    /\ PacketInProgress /\ HavocsReal /\ PacketsReal /\ WrittenAtTheEnd
    /\ SearchBrackets /\ CursorSkipsNone

-----------------------------------------------------------------------------
(* Reconciliation: the table, the objects of a packet, and worlds *)

\* A record of the sorted file holds a value, and an input that hashes to it.
LEMMA Records ==
  /\ Len(Table) \in Nat
  /\ \A i \in 1..Len(Table) : /\ Table[i].value \in HashValue /\ Table[i].value \in Int
                              /\ Table[i].input \in Input
                              /\ Hash[Table[i].input] = Table[i].value
  /\ \A i, j \in 1..Len(Table) : i <= j => Table[i].value <= Table[j].value
<1>. DEFINE Record == [value : HashValue, input : Input]
<1>0. Table \in Seq(Record)
  BY Zenon, TableAssumption
<1>1. Len(Table) \in Nat /\ \A i \in 1..Len(Table) : Table[i] \in Record
  <2>. HIDE DEF Record
  <2>1. QED
    BY <1>0
<1>2. \A i \in 1..Len(Table) : /\ Table[i].value \in HashValue /\ Table[i].value \in Int
                               /\ Table[i].input \in Input
  BY <1>1, HashAssumption, Zenon
<1>3. \A i, j \in 1..Len(Table) : i <= j => Table[i].value <= Table[j].value
  BY <1>1, <1>2, TableAssumption
<1>4. QED
  BY Zenon, <1>1, <1>2, <1>3, TableAssumption

\* The objects of a packet are havocs.
LEMMA PacketObjects ==
  ASSUME ReconcileTypeOK, NEW p \in 1..Len(havocs)
  PROVE  /\ havocs[p] \in Seq(Havoc)
         /\ Len(havocs[p]) \in Nat
         /\ \A i \in 1..Len(havocs[p]) : havocs[p][i] \in Havoc
<1>1. havocs \in Seq(Seq(Havoc))
  BY Zenon DEF ReconcileTypeOK
<1>2. havocs[p] \in Seq(Havoc)
  BY <1>1
<1>3. QED
  BY <1>2

\* A world gives every havoc an input and an output.
LEMMA WorldTypes ==
  \A w \in HavocWorld : \A h \in Havoc : w[h].in \in Input /\ w[h].out \in HashValue
  BY Zenon DEF HavocWorld

-----------------------------------------------------------------------------
(* Reconciliation: the initial states and the steps *)

\* The path starts with no packet reconciled and no record read.
LEMMA ReconcileInitInv == ReconcileInit => ReconcileInv
<1>. SUFFICES ASSUME ReconcileInit PROVE ReconcileInv
  BY Zenon
<1>1. PICK p \in Path : havocs = p.packets /\ stateConstraints = p.constraints
  BY Zenon DEF ReconcileInit
<1>2. havocs \in Seq(Seq(Havoc)) /\ stateConstraints \in SUBSET HavocWorld /\ stateConstraints # {}
  BY Zenon, <1>1, PathAssumption
<1>3. Len(havocs) \in Nat
  BY <1>2
<1>4. ReconcileTypeOK
  <2>1. solverFail \in BOOLEAN
    BY Zenon DEF ReconcileInit
  <2>2. values \in Seq(HashValue)
    BY DEF ReconcileInit
  <2>3. QED
    BY <1>2, <1>3, <2>1, <2>2, Records DEF ReconcileInit, ReconcileTypeOK
<1>5. QED
  BY <1>2, <1>3, <1>4
     DEF ReconcileInit, ReconcileInv, StaysFeasible, PacketInProgress, HavocsReal, PacketsReal, InPacket,
         WrittenAtTheEnd, SearchBrackets, CursorSkipsNone, At

\* A packet without havocs counts as reconciled.
LEMMA skipPacketStep == ReconcileInv /\ skipPacket => ReconcileInv'
<1>. SUFFICES ASSUME ReconcileInv, skipPacket PROVE ReconcileInv'
  BY Zenon
<1>. USE DEF At
<1>1. /\ ReconcileTypeOK /\ at = "packet" /\ at' = "packet"
      /\ packet <= Len(havocs) /\ havocs[packet] = <<>>
      /\ packet \in Nat /\ packet >= 1 /\ reconciledPackets \in Nat /\ Len(havocs) \in Nat
      /\ packet' = packet + 1 /\ reconciledPackets' = reconciledPackets + 1
      /\ havocs' = havocs /\ stateConstraints' = stateConstraints
  BY DEF ReconcileInv, ReconcileTypeOK, skipPacket, Objects
<1>2. reconciledPackets <= packet - 1
  BY Zenon DEF ReconcileInv, PacketsReal
<1>3. ReconcileTypeOK'
  BY <1>1, <1>2 DEF ReconcileTypeOK, skipPacket, tableVars
<1>4. PacketsReal'
  <2>1. Len(havocs[packet]) = 0
    BY <1>1
  <2>2. ASSUME reconciledPackets' = packet' - 1, NEW w \in stateConstraints,
               NEW p \in 1..(packet' - 1), NEW i \in 1..Len(havocs[p])
        PROVE  Hash[w[havocs[p][i]].in] = w[havocs[p][i]].out
    <3>1. p # packet
      BY <2>1, <2>2
    <3>2. p \in 1..(packet - 1)
      BY <1>1, <3>1
    <3>3. reconciledPackets = packet - 1
      BY <1>1, <2>2
    <3>4. QED
      BY Zenon, <3>2, <3>3 DEF ReconcileInv, PacketsReal
  <2>3. QED
    BY <1>1, <1>2, <2>2 DEF PacketsReal
<1>5. QED
  BY Zenon, <1>1, <1>3, <1>4
     DEF ReconcileInv, StaysFeasible, PacketInProgress, HavocsReal, InPacket, WrittenAtTheEnd,
         SearchBrackets, CursorSkipsNone

\* The solver gives values for the outputs of the packet's havocs.
LEMMA solveOutputsStep == ReconcileInv /\ solveOutputs => ReconcileInv'
<1>. SUFFICES ASSUME ReconcileInv, solveOutputs PROVE ReconcileInv'
  BY Zenon
<1>. USE DEF At
<1>1. PICK v \in stateConstraints :
        /\ values' = [i \in 1..Len(Objects) |-> v[Objects[i]].out]
        /\ stateConstraints' = {x \in stateConstraints :
               \A i \in 1..Len(Objects) : x[Objects[i]].out = v[Objects[i]].out}
  BY Zenon DEF solveOutputs
<1>2. /\ ReconcileTypeOK /\ at' = "havoc" /\ packet \in 1..Len(havocs)
      /\ havocs' = havocs /\ packet' = packet /\ Objects' = Objects
      /\ havoc' = 1 /\ reconciledHavocs' = 0 /\ query' = HavocWorld
      /\ reconciledPackets' = reconciledPackets
      /\ stateConstraints \subseteq HavocWorld
  BY DEF ReconcileInv, ReconcileTypeOK, solveOutputs, Goto, Objects
<1>3. /\ Len(Objects) \in Nat /\ \A i \in 1..Len(Objects) : Objects[i] \in Havoc
  BY Zenon, <1>2, PacketObjects DEF Objects
<1>4. values' \in [1..Len(Objects) -> HashValue]
  BY Zenon, <1>1, <1>2, <1>3, WorldTypes
<1>5. v \in stateConstraints' /\ stateConstraints' \subseteq stateConstraints
  BY Zenon, <1>1
<1>6. values' \in Seq(HashValue)
  BY <1>3, <1>4
<1>7. ReconcileTypeOK'
  BY <1>2, <1>5, <1>6 DEF ReconcileTypeOK, solveOutputs, tableVars
<1>8. PacketInProgress'
  <2>1. \A w \in stateConstraints' : \A i \in 1..Len(Objects) : w[Objects[i]].out = values'[i]
    BY Zenon, <1>1
  <2>2. stateConstraints' \cap query' # {}
    BY Zenon, <1>2, <1>5
  <2>3. QED
    BY <1>2, <1>3, <1>4, <2>1, <2>2 DEF PacketInProgress
<1>9. HavocsReal'
  BY <1>2 DEF HavocsReal
<1>10. PacketsReal'
  BY <1>2, <1>5 DEF ReconcileInv, PacketsReal
<1>11. QED
  BY Zenon, <1>2, <1>5, <1>7, <1>8, <1>9, <1>10
     DEF ReconcileInv, StaysFeasible, WrittenAtTheEnd, SearchBrackets, CursorSkipsNone

\* What holds while the havocs of a packet are reconciled.
LEMMA InPacketFacts ==
  ASSUME ReconcileInv, InPacket
  PROVE  /\ ReconcileTypeOK /\ packet \in 1..Len(havocs)
         /\ Len(Objects) \in Nat /\ \A i \in 1..Len(Objects) : Objects[i] \in Havoc
         /\ havoc \in 1..(Len(Objects) + 1) /\ reconciledHavocs \in Nat
         /\ values \in [1..Len(Objects) -> HashValue]
         /\ minRecord \in 0..Len(Table) /\ maxRecord \in 0..Len(Table)
         /\ stateConstraints \subseteq HavocWorld /\ query \subseteq HavocWorld
         /\ at # "havoc" => /\ havoc \in 1..Len(Objects)
                            /\ value \in HashValue /\ value \in Int
<1>1. /\ ReconcileTypeOK /\ packet \in 1..Len(havocs) /\ havoc \in 1..(Len(Objects) + 1)
      /\ values \in [1..Len(Objects) -> HashValue] /\ reconciledHavocs \in Nat
      /\ minRecord \in 0..Len(Table) /\ maxRecord \in 0..Len(Table)
      /\ stateConstraints \subseteq HavocWorld /\ query \subseteq HavocWorld
      /\ at # "havoc" => havoc <= Len(Objects)
  BY DEF ReconcileInv, ReconcileTypeOK, PacketInProgress
<1>2. Len(Objects) \in Nat /\ \A i \in 1..Len(Objects) : Objects[i] \in Havoc
  BY Zenon, <1>1, PacketObjects DEF Objects
<1>3. at # "havoc" => havoc \in 1..Len(Objects)
  BY <1>1, <1>2
<1>4. at # "havoc" => value \in HashValue /\ value \in Int
  BY <1>1, <1>3, HashAssumption, Zenon DEF value
<1>5. QED
  BY Zenon, <1>1, <1>2, <1>3, <1>4

\* The whole table of the current havoc is to be searched.
LEMMA openTableStep == ReconcileInv /\ openTable => ReconcileInv'
<1>. SUFFICES ASSUME ReconcileInv, openTable PROVE ReconcileInv'
  BY Zenon
<1>. USE DEF At
<1>1. /\ at = "havoc" /\ at' = "searching" /\ havoc <= Len(Objects)
      /\ minRecord' = 0 /\ maxRecord' = Len(Table) /\ solverFail' = FALSE
      /\ UNCHANGED <<havocs, stateConstraints, packet, reconciledPackets, havoc, values, query,
                     reconciledHavocs>>
  BY Zenon DEF openTable, Goto, pathVars
<1>2. Objects' = Objects
  BY Zenon, <1>1 DEF Objects
<1>3. InPacket /\ ReconcileTypeOK
  BY Zenon, <1>1 DEF InPacket, ReconcileInv
<1>4. ReconcileTypeOK'
  <2>1. solverFail' \in BOOLEAN
    BY <1>1, Zenon
  <2>2. QED
    BY <1>1, <1>3, <2>1, Records DEF ReconcileTypeOK
<1>5. PacketInProgress' /\ HavocsReal' /\ PacketsReal'
  BY <1>1, <1>2, <1>3 DEF ReconcileInv, PacketInProgress, HavocsReal, PacketsReal, InPacket
<1>6. SearchBrackets'
  BY <1>1, Records DEF SearchBrackets
<1>7. QED
  BY Zenon, <1>1, <1>4, <1>5, <1>6 DEF ReconcileInv, StaysFeasible, WrittenAtTheEnd, CursorSkipsNone

\* The bisection drops the half that cannot hold the value's first record.
LEMMA searchTableStep == ReconcileInv /\ searchTable => ReconcileInv'
<1>. SUFFICES ASSUME ReconcileInv, searchTable PROVE ReconcileInv'
  BY Zenon
<1>. USE DEF At
<1>. DEFINE mid == minRecord + (maxRecord - minRecord) \div 2
<1>1. /\ at = "searching" /\ at' = at /\ minRecord < maxRecord
      /\ UNCHANGED <<havocs, stateConstraints, packet, reconciledPackets, havoc, values, query,
                     reconciledHavocs, solverFail>>
  BY Zenon DEF searchTable, pathVars
<1>2. \/ /\ Table[mid + 1].value < value
         /\ minRecord' = IF minRecord = mid THEN mid + 1 ELSE mid
         /\ maxRecord' = maxRecord
      \/ /\ ~(Table[mid + 1].value < value)
         /\ maxRecord' = mid /\ minRecord' = minRecord
  BY Zenon DEF searchTable, tooSmall, raisedMin
<1>3. Objects' = Objects /\ value' = value
  BY Zenon, <1>1 DEF Objects, value
<1>4. InPacket /\ ReconcileTypeOK
  BY Zenon, <1>1 DEF InPacket, ReconcileInv
<1>5. /\ minRecord \in Nat /\ maxRecord \in Nat /\ maxRecord <= Len(Table)
      /\ value \in Int /\ Len(Table) \in Nat
  BY <1>1, <1>4, InPacketFacts, Records
<1>6. mid \in Nat /\ minRecord <= mid /\ mid < maxRecord
  BY <1>1, <1>5
<1>7. mid + 1 \in 1..Len(Table) /\ Table[mid + 1].value \in Int
  BY <1>5, <1>6, Records
<1>8. /\ minRecord' \in Nat /\ maxRecord' \in Nat /\ maxRecord' <= Len(Table)
      /\ minRecord' <= maxRecord'
  BY <1>2, <1>5, <1>6
<1>9. ReconcileTypeOK'
  BY <1>1, <1>4, <1>5, <1>8 DEF ReconcileTypeOK
<1>10. PacketInProgress' /\ HavocsReal' /\ PacketsReal'
  BY <1>1, <1>3, <1>4 DEF ReconcileInv, PacketInProgress, HavocsReal, PacketsReal, InPacket
<1>11. SearchBrackets'
  <2>1. /\ \A i \in 1..minRecord : Table[i].value < value
        /\ \A i \in (maxRecord + 1)..Len(Table) : value <= Table[i].value
    BY Zenon, <1>1 DEF ReconcileInv, SearchBrackets
  <2>2. CASE Table[mid + 1].value < value
    <3>1. ASSUME NEW i \in 1..(mid + 1) PROVE Table[i].value < value
      <4>1. i \in 1..Len(Table) /\ i <= mid + 1 BY <1>5, <1>6
      <4>2. Table[i].value \in Int /\ Table[i].value <= Table[mid + 1].value
        BY <1>7, <4>1, Records, Zenon
      <4> QED BY <2>2, <1>5, <1>7, <4>2
    <3>2. \A i \in 1..minRecord' : Table[i].value < value
      BY <3>1, <2>2, <1>2, <1>6
    <3>3. QED
      BY Zenon, <3>2, <2>1, <2>2, <1>2, <1>3, <1>8 DEF SearchBrackets
  <2>3. CASE ~(Table[mid + 1].value < value)
    <3>1. ASSUME NEW i \in (mid + 1)..Len(Table) PROVE value <= Table[i].value
      <4>1. i \in 1..Len(Table) /\ mid + 1 <= i BY <1>5, <1>6
      <4>2. Table[i].value \in Int /\ Table[mid + 1].value <= Table[i].value
        BY <1>7, <4>1, Records, Zenon
      <4> QED BY <2>3, <1>5, <1>7, <4>2
    <3>2. QED
      BY <3>1, <2>1, <2>3, <1>2, <1>3, <1>8, Zenon DEF SearchBrackets
  <2>4. QED
    BY Zenon, <2>2, <2>3
<1>12. QED
  BY Zenon, <1>1, <1>9, <1>10, <1>11 DEF ReconcileInv, StaysFeasible, WrittenAtTheEnd, CursorSkipsNone

\* The cursor stands at the first record that is not smaller.
LEMMA tableFoundStep == ReconcileInv /\ tableFound => ReconcileInv'
<1>. SUFFICES ASSUME ReconcileInv, tableFound PROVE ReconcileInv'
  BY Zenon
<1>. USE DEF At
<1>1. /\ at = "searching" /\ at' = "reading" /\ minRecord >= maxRecord
      /\ UNCHANGED <<havocs, stateConstraints, packet, reconciledPackets, havoc, values, query,
                     minRecord, maxRecord, solverFail, reconciledHavocs>>
  BY Zenon DEF tableFound, Goto, pathVars, tableVars
<1>2. Objects' = Objects /\ value' = value
  BY Zenon, <1>1 DEF Objects, value
<1>3. InPacket /\ ReconcileTypeOK
  BY Zenon, <1>1 DEF InPacket, ReconcileInv
<1>4. ReconcileTypeOK'
  BY Zenon, <1>1, <1>3 DEF ReconcileTypeOK
<1>5. PacketInProgress' /\ HavocsReal' /\ PacketsReal'
  BY <1>1, <1>2, <1>3 DEF ReconcileInv, PacketInProgress, HavocsReal, PacketsReal, InPacket
<1>6. CursorSkipsNone'
  <2>1. /\ minRecord \in Nat /\ maxRecord \in Nat /\ maxRecord <= Len(Table)
        /\ value \in Int /\ Len(Table) \in Nat
    BY <1>1, <1>3, InPacketFacts, Records
  <2>2. \A i \in 1..maxRecord : Table[i].value < value
    BY <1>1, <2>1 DEF ReconcileInv, SearchBrackets
  <2>3. \A i \in 1..maxRecord : Table[i].value # value
    BY <2>1, <2>2, Records
  <2>4. QED
    BY Zenon, <1>1, <1>2, <2>3 DEF ReconcileInv, SearchBrackets, CursorSkipsNone
<1>7. QED
  BY Zenon, <1>1, <1>4, <1>5, <1>6 DEF ReconcileInv, StaysFeasible, WrittenAtTheEnd, SearchBrackets

\* A record that fits the path condition fixes the havoc.
LEMMA fitsStep == ReconcileInv /\ fits => ReconcileInv'
<1>. SUFFICES ASSUME ReconcileInv, fits PROVE ReconcileInv'
  BY Zenon
<1>. USE DEF At
<1>1. /\ at = "reading" /\ at' = "havoc" /\ HasValue /\ mayBeTrue
      /\ query' = WithInput /\ havoc' = havoc + 1
      /\ reconciledHavocs' = reconciledHavocs + 1
      /\ UNCHANGED <<havocs, stateConstraints, packet, reconciledPackets, values,
                     minRecord, maxRecord, solverFail>>
  BY Zenon DEF fits, Goto, pathVars, tableVars
<1>2. Objects' = Objects
  BY Zenon, <1>1 DEF Objects
<1>3. InPacket /\ ReconcileTypeOK
  BY Zenon, <1>1 DEF InPacket, ReconcileInv
<1>4. /\ havoc \in 1..Len(Objects) /\ Len(Objects) \in Nat /\ reconciledHavocs \in Nat
      /\ packet \in 1..Len(havocs) /\ value \in Int
      /\ maxRecord \in 0..Len(Table) /\ Len(Table) \in Nat
      /\ query' \subseteq query /\ query \subseteq HavocWorld
  BY Zenon, <1>1, <1>3, InPacketFacts, Records DEF WithInput
<1>5. ReconcileTypeOK'
  BY <1>1, <1>3, <1>4 DEF ReconcileTypeOK
<1>6. PacketInProgress'
  <2>1. stateConstraints' \cap query' # {}
    BY Zenon, <1>1 DEF mayBeTrue
  <2>2. QED
    BY <1>1, <1>2, <1>3, <1>4, <2>1 DEF ReconcileInv, PacketInProgress, InPacket
<1>7. HavocsReal'
  <2>1. reconciledHavocs <= havoc - 1
    BY Zenon, <1>3 DEF ReconcileInv, HavocsReal
  <2>2. ASSUME reconciledHavocs = havoc - 1, NEW w \in query', NEW i \in 1..havoc
        PROVE  Hash[w[Objects[i]].in] = values[i]
    <3>1. CASE i \in 1..(havoc - 1)
      BY Zenon, <2>2, <3>1, <1>3, <1>4 DEF ReconcileInv, HavocsReal
    <3>2. CASE i = havoc
      <4>1. w[Objects[havoc]].in = Table[maxRecord + 1].input
        BY Zenon, <1>1, <2>2 DEF WithInput
      <4>2. maxRecord + 1 \in 1..Len(Table) /\ Table[maxRecord + 1].value = values[havoc]
        BY <1>1, <1>4 DEF HasValue, value
      <4>3. QED
        BY Zenon, <4>1, <4>2, <3>2, Records
    <3>3. QED
      BY <3>1, <3>2, <1>4
  <2>3. /\ havoc' - 1 = havoc /\ reconciledHavocs' <= havoc
        /\ reconciledHavocs' = havoc => reconciledHavocs = havoc - 1
    BY <1>1, <1>4, <2>1
  <2>4. reconciledHavocs' = havoc' - 1 =>
          \A w \in query' : \A i \in 1..(havoc' - 1) : Hash[w[Objects'[i]].in] = values'[i]
    BY <1>1, <1>2, <2>2, <2>3
  <2>5. QED
    BY Zenon, <2>3, <2>4 DEF HavocsReal
<1>8. QED
  BY <1>1, <1>5, <1>6, <1>7
     DEF ReconcileInv, StaysFeasible, PacketsReal, WrittenAtTheEnd, SearchBrackets, CursorSkipsNone

\* A record that does not fit is passed over.
LEMMA unsatStep == ReconcileInv /\ unsat => ReconcileInv'
<1>. SUFFICES ASSUME ReconcileInv, unsat PROVE ReconcileInv'
  BY Zenon
<1>. USE DEF At
<1>1. /\ at = "reading" /\ at' = at /\ HasValue
      /\ solverFail' = (solverFail \/ mayBeTrue) /\ maxRecord' = maxRecord + 1
      /\ UNCHANGED <<havocs, stateConstraints, packet, reconciledPackets, havoc, values, query,
                     minRecord, reconciledHavocs>>
  BY Zenon DEF unsat, pathVars
<1>2. Objects' = Objects /\ value' = value
  BY Zenon, <1>1 DEF Objects, value
<1>3. InPacket /\ ReconcileTypeOK
  BY Zenon, <1>1 DEF InPacket, ReconcileInv
<1>4. /\ havoc \in 1..Len(Objects) /\ Len(Objects) \in Nat
      /\ value \in Int /\ maxRecord \in 0..Len(Table) /\ Len(Table) \in Nat
      /\ query \subseteq HavocWorld
  BY Zenon, <1>1, <1>3, InPacketFacts, Records
<1>5. maxRecord + 1 \in 1..Len(Table) /\ Table[maxRecord + 1].value = value
  BY <1>1, <1>4 DEF HasValue
<1>6. ReconcileTypeOK'
  <2>1. solverFail' \in BOOLEAN
    BY <1>1, Zenon
  <2>2. QED
    BY <1>1, <1>3, <1>4, <1>5, <2>1 DEF ReconcileTypeOK
<1>7. PacketInProgress' /\ HavocsReal' /\ PacketsReal'
  BY <1>1, <1>2, <1>3 DEF ReconcileInv, PacketInProgress, HavocsReal, PacketsReal, InPacket
<1>8. CursorSkipsNone'
  <2>1. \A i \in (maxRecord + 2)..Len(Table) : value <= Table[i].value
    BY <1>1, <1>4 DEF ReconcileInv, CursorSkipsNone
  <2>2. ASSUME ~solverFail', NEW i \in 1..(maxRecord + 1), NEW w \in stateConstraints \cap query,
               Table[i].value = value
        PROVE  w[Objects[havoc]].in # Table[i].input
    <3>1. ~solverFail /\ ~mayBeTrue
      BY <1>1, <2>2, Zenon
    <3>2. CASE i \in 1..maxRecord
      BY Zenon, <1>1, <2>2, <3>1, <3>2 DEF ReconcileInv, CursorSkipsNone
    <3>3. CASE i = maxRecord + 1
      BY Zenon, <2>2, <3>1, <3>3 DEF mayBeTrue, WithInput
    <3>4. QED
      BY <3>2, <3>3, <1>4
  <2>3. (maxRecord + 1) + 1 = maxRecord + 2
    BY <1>4
  <2>4. QED
    BY Zenon, <1>1, <1>2, <2>1, <2>2, <2>3 DEF CursorSkipsNone
<1>9. QED
  BY Zenon, <1>1, <1>6, <1>7, <1>8 DEF ReconcileInv, StaysFeasible, WrittenAtTheEnd, SearchBrackets

\* Past the last record of the value the havoc stays unreconciled and the next
\* one begins.
LEMMA outOfCollisionsStep == ReconcileInv /\ outOfCollisions => ReconcileInv'
<1>. SUFFICES ASSUME ReconcileInv, outOfCollisions PROVE ReconcileInv'
  BY Zenon
<1>. USE DEF At
<1>1. /\ at = "reading" /\ at' = "havoc" /\ havoc' = havoc + 1
      /\ UNCHANGED <<havocs, stateConstraints, packet, reconciledPackets, values, query,
                     minRecord, maxRecord, solverFail, reconciledHavocs>>
  BY Zenon DEF outOfCollisions, Goto, pathVars, tableVars
<1>2. Objects' = Objects
  BY Zenon, <1>1 DEF Objects
<1>3. InPacket /\ ReconcileTypeOK
  BY Zenon, <1>1 DEF InPacket, ReconcileInv
<1>4. /\ havoc \in 1..Len(Objects) /\ Len(Objects) \in Nat /\ reconciledHavocs \in Nat
  BY Zenon, <1>1, <1>3, InPacketFacts
<1>5. ReconcileTypeOK'
  BY <1>1, <1>3, <1>4 DEF ReconcileTypeOK
<1>6. PacketInProgress'
  BY <1>1, <1>2, <1>3, <1>4 DEF ReconcileInv, PacketInProgress, InPacket
<1>7. HavocsReal'
  <2>1. reconciledHavocs < havoc
    BY <1>3, <1>4 DEF ReconcileInv, HavocsReal
  <2>2. QED
    BY <1>1, <1>4, <2>1 DEF HavocsReal
<1>8. QED
  BY <1>1, <1>5, <1>6, <1>7
     DEF ReconcileInv, StaysFeasible, PacketsReal, WrittenAtTheEnd, SearchBrackets, CursorSkipsNone

\* The chosen inputs become constraints, and the packet counts if every havoc
\* has one.
LEMMA endPacketStep == ReconcileInv /\ endPacket => ReconcileInv'
<1>. SUFFICES ASSUME ReconcileInv, endPacket PROVE ReconcileInv'
  BY Zenon
<1>. USE DEF At
<1>1. /\ at = "havoc" /\ at' = "packet" /\ havoc > Len(Objects)
      /\ stateConstraints' = stateConstraints \cap query /\ packet' = packet + 1
      /\ reconciledPackets' = reconciledPackets + (IF allReconciled THEN 1 ELSE 0)
      /\ UNCHANGED <<havocs, havoc, values, query, minRecord, maxRecord, solverFail,
                     reconciledHavocs>>
  BY Zenon DEF endPacket, Goto, tableVars
<1>2. InPacket /\ ReconcileTypeOK
  BY Zenon, <1>1 DEF InPacket, ReconcileInv
<1>3. /\ havoc = Len(Objects) + 1 /\ Len(Objects) \in Nat /\ reconciledHavocs \in Nat
      /\ packet \in 1..Len(havocs) /\ Len(havocs) \in Nat /\ stateConstraints \subseteq HavocWorld
      /\ \A i \in 1..Len(Objects) : Objects[i] \in Havoc
  BY <1>1, <1>2, InPacketFacts
<1>4. /\ reconciledPackets \in Nat /\ reconciledPackets <= packet - 1
      /\ reconciledHavocs <= Len(Objects)
  BY <1>2, <1>3 DEF ReconcileInv, ReconcileTypeOK, PacketsReal, HavocsReal
<1>5. /\ reconciledPackets' \in Nat /\ reconciledPackets' <= packet
      /\ reconciledPackets' = packet =>
           reconciledPackets = packet - 1 /\ reconciledHavocs = havoc - 1
  BY <1>1, <1>3, <1>4 DEF allReconciled
<1>6. ReconcileTypeOK'
  BY <1>1, <1>2, <1>3, <1>5 DEF ReconcileTypeOK
<1>7. StaysFeasible'
  BY Zenon, <1>1, <1>2 DEF ReconcileInv, PacketInProgress, StaysFeasible
<1>8. PacketsReal'
  <2>1. ASSUME reconciledPackets' = packet, NEW w \in stateConstraints', NEW p \in 1..packet,
               NEW i \in 1..Len(havocs[p])
        PROVE  Hash[w[havocs[p][i]].in] = w[havocs[p][i]].out
    <3>1. CASE p \in 1..(packet - 1)
      BY Zenon, <1>1, <1>5, <2>1, <3>1 DEF ReconcileInv, PacketsReal
    <3>2. CASE p = packet
      <4>1. w \in stateConstraints /\ w \in query /\ i \in 1..Len(Objects) /\ havocs[p] = Objects
        BY Zenon, <1>1, <2>1, <3>2 DEF Objects
      <4>2. Hash[w[Objects[i]].in] = values[i]
        BY <1>2, <1>3, <1>5, <2>1, <4>1 DEF ReconcileInv, HavocsReal
      <4>3. w[Objects[i]].out = values[i]
        BY Zenon, <1>2, <4>1 DEF ReconcileInv, PacketInProgress
      <4>4. QED
        BY Zenon, <4>1, <4>2, <4>3
    <3>3. QED
      BY <3>1, <3>2, <1>3
  <2>2. packet' - 1 = packet
    BY <1>1, <1>3
  <2>3. QED
    BY <1>1, <1>5, <2>1, <2>2 DEF PacketsReal
<1>9. QED
  BY Zenon, <1>1, <1>6, <1>7, <1>8
     DEF ReconcileInv, PacketInProgress, HavocsReal, InPacket, WrittenAtTheEnd, SearchBrackets,
         CursorSkipsNone

\* The test case is written, or not, after the last packet.
LEMMA endPathStep == ReconcileInv /\ endPath => ReconcileInv'
<1>. SUFFICES ASSUME ReconcileInv, endPath PROVE ReconcileInv'
  BY Zenon
<1>. USE DEF At
<1>1. /\ at = "packet" /\ packet > Len(havocs)
      /\ at' = IF reconciledPackets < Len(havocs) /\ ~OutputUnreconciled
               THEN "ignored" ELSE "written"
      /\ UNCHANGED <<havocs, stateConstraints, packet, reconciledPackets, havoc, values, query,
                     minRecord, maxRecord, solverFail, reconciledHavocs>>
  BY Zenon DEF endPath, Goto, pathVars, tableVars
<1>2. ReconcileTypeOK /\ packet = Len(havocs) + 1 /\ reconciledPackets \in 0..Len(havocs)
      /\ Len(havocs) \in Nat
  BY <1>1 DEF ReconcileInv, ReconcileTypeOK
<1>3. ReconcileTypeOK'
  BY Zenon, <1>1, <1>2 DEF ReconcileTypeOK
<1>4. PacketsReal'
  BY <1>1 DEF ReconcileInv, PacketsReal
<1>5. WrittenAtTheEnd'
  BY <1>1, <1>2 DEF WrittenAtTheEnd
<1>6. QED
  BY Zenon, <1>1, <1>3, <1>4, <1>5
     DEF ReconcileInv, StaysFeasible, PacketInProgress, HavocsReal, InPacket, SearchBrackets,
         CursorSkipsNone

\* Every step keeps the invariant.
LEMMA ReconcileStep == ReconcileInv /\ [ReconcileNext]_reconcileVars => ReconcileInv'
<1>1. ReconcileInv /\ UNCHANGED reconcileVars => ReconcileInv'
  BY DEF reconcileVars, pathVars, tableVars, ReconcileInv, ReconcileTypeOK, StaysFeasible, PacketInProgress, HavocsReal,
         PacketsReal, WrittenAtTheEnd, SearchBrackets, CursorSkipsNone, InPacket, At,
         Objects, value
<1>2. QED
  BY Zenon, <1>1, skipPacketStep, solveOutputsStep, openTableStep, searchTableStep, tableFoundStep,
     fitsStep, unsatStep, outOfCollisionsStep, endPacketStep, endPathStep DEF ReconcileNext

\* The strengthened invariant holds throughout processTestCase.
THEOREM ReconcileInvariance == ReconcileSpec => []ReconcileInv
  BY ReconcileInitInv, ReconcileStep, PTL DEF ReconcileSpec

-----------------------------------------------------------------------------
(* The theorems *)

\* Whatever the hash, the table and the path: the constraints that the
\* reconciliation adds leave the path feasible, and a test case written without
\* --output-unreconciled has for every output an input with that hash.
THEOREM WrittenTestCasesAreReal == ReconcileSpec => []TestCasesReal
<1>1. ReconcileInv => TestCasesReal
  <2>. SUFFICES ASSUME ReconcileInv PROVE TestCasesReal
    BY Zenon
  <2>1. ASSUME At("written"), ~OutputUnreconciled
        PROVE  \A p \in 1..Len(havocs) : \A i \in 1..Len(havocs[p]) : \A w \in stateConstraints :
                 Hash[w[havocs[p][i]].in] = w[havocs[p][i]].out
    <3>1. packet - 1 = Len(havocs) /\ reconciledPackets = packet - 1
      BY <2>1 DEF ReconcileInv, WrittenAtTheEnd, ReconcileTypeOK
    <3>2. QED
      BY Zenon, <3>1 DEF ReconcileInv, PacketsReal
  <2>2. QED
    BY Zenon, <2>1 DEF ReconcileInv, TestCasesReal, WrittenIsReal
<1>2. QED
  BY <1>1, ReconcileInvariance, PTL

\* Whatever the sizes of the table and of its runs of equal values: when the
\* cursor leaves the run of a value, no record with that value was skipped by the
\* binary search or by the cursor.
THEOREM NoRecordSkipped == ReconcileSpec => NoneMissed
<1>. DEFINE Exhausted ==
       At("reading") /\ ~HasValue /\ ~solverFail =>
         \A i \in 1..Len(Table) : \A w \in stateConstraints \cap query :
           Table[i].value = value => w[Objects[havoc]].in # Table[i].input
<1>1. ReconcileInv => Exhausted
  <2>. SUFFICES ASSUME ReconcileInv, At("reading"), ~HasValue, ~solverFail,
                       NEW i \in 1..Len(Table), NEW w \in stateConstraints \cap query,
                       Table[i].value = value
                PROVE  w[Objects[havoc]].in # Table[i].input
    BY Zenon
  <2>1. InPacket
    BY Zenon DEF InPacket, At
  <2>2. maxRecord \in 0..Len(Table) /\ Len(Table) \in Nat /\ value \in Int
    BY Zenon, <2>1, InPacketFacts, Records DEF At
  <2>3. i \in 1..maxRecord
    <3>. SUFFICES ASSUME i > maxRecord PROVE FALSE
      BY <2>2
    <3>1. maxRecord + 1 \in 1..Len(Table) /\ maxRecord + 1 <= i
      BY <2>2
    <3>2. value <= Table[maxRecord + 1].value /\ Table[maxRecord + 1].value # value
      BY <2>2, <3>1 DEF ReconcileInv, CursorSkipsNone, HasValue
    <3>3. Table[maxRecord + 1].value <= Table[i].value
      BY Zenon, <3>1, Records
    <3>4. QED
      BY <2>2, <3>1, <3>2, <3>3, Records
  <2>4. QED
    BY Zenon, <2>3 DEF ReconcileInv, CursorSkipsNone
<1>2. ReconcileInv => [Exhausted]_reconcileVars
  BY Zenon, <1>1
<1>3. QED
  BY <1>2, ReconcileInvariance, PTL DEF NoneMissed
-----------------------------------------------------------------------------
(* Address spaces *)

Inv == TypeOK /\ OwnersNotAhead /\ OwnedIsExclusive /\ ReadOnlyShared

\* A map that the operations on a space s install: the cells of objects outside
\* K stay, those of K are new or owned by s.
Installable(s, m, N, K, v) ==
    /\ s \in live
    /\ DOMAIN m \subseteq Object /\ K \subseteq DOMAIN m /\ K \cap ReadOnly = {}
    /\ ReadOnly \subseteq DOMAIN m
    /\ N \subseteq Cell \ Allocated
    /\ \A o \in DOMAIN m : m[o] \in Cell
    /\ \A o, p \in DOMAIN m : m[o] = m[p] => o = p
    /\ \A o \in DOMAIN m \ K : o \in Bound(s) /\ m[o] = objects[s][o]
    /\ \A o \in K : \/ m[o] \in N
                    \/ o \in Bound(s) /\ m[o] = objects[s][o] /\ Owned(s, o)
    /\ \A o \in K : v[o] \in Value

\* The initial state: one space, whose cells belong to it.
LEMMA InitInv == Init => Inv
<1> SUFFICES ASSUME Init PROVE Inv
  BY Zenon
<1>1. PICK s \in Space : /\ cowKey = [t \in {s} |-> 1]
                         /\ \E m \in [ReadOnly -> Cell] :
                              IsInjective(m) /\ objects = [t \in {s} |-> m]
  BY Zenon DEF Init
<1>2. PICK m \in [ReadOnly -> Cell] : IsInjective(m) /\ objects = [t \in {s} |-> m]
  BY Zenon, <1>1
<1>3. live = {s} /\ Bound(s) = ReadOnly /\ objects[s] = m
  BY Zenon, <1>2 DEF live, Bound
<1>4. MaxKey \in Nat /\ MaxKey >= 1
  BY KeyAssumption
<1>5. TypeOK
  BY <1>1, <1>2, <1>3, <1>4, ReadOnlyAssumption DEF TypeOK, Init
<1>6. OwnersNotAhead
  BY <1>1, <1>2, <1>3 DEF OwnersNotAhead, Init
<1>7. OwnedIsExclusive
  BY Zenon, <1>2, <1>3 DEF OwnedIsExclusive, IsInjective
<1>8. ReadOnlyShared
  BY Zenon, <1>3 DEF ReadOnlyShared
<1> QED
  BY Zenon, <1>5, <1>6, <1>7, <1>8 DEF Inv

\* Installing such a map changes the cell of no other space's object.
LEMMA RebindInv ==
    ASSUME Inv, NEW s, NEW m, NEW N, NEW K, NEW v,
           Installable(s, m, N, K, v), rebind(s, m, N, K, v)
    PROVE  /\ Inv'
           /\ live' = live
           /\ objects' = [objects EXCEPT ![s] = m]
           /\ \A o \in DOMAIN m :
                contents'[m[o]] = IF o \in K THEN v[o] ELSE contents[m[o]]
           /\ \A t \in live \ {s} : \A o \in Bound(t) :
                contents'[objects[t][o]] = contents[objects[t][o]]
<1> USE DEF Installable
<1>1. /\ objects' = [objects EXCEPT ![s] = m]
      /\ cowKey' = cowKey
      /\ copyOnWriteOwner' = [c \in Cell |-> IF c \in N THEN cowKey[s] ELSE copyOnWriteOwner[c]]
      /\ contents' = [c \in Cell |-> IF \E o \in K : m[o] = c
                                     THEN v[CHOOSE o \in K : m[o] = c] ELSE contents[c]]
  BY Zenon DEF rebind
<1>2. /\ live' = live
      /\ objects'[s] = m
      /\ \A t \in live \ {s} : objects'[t] = objects[t]
  BY Zenon, <1>1 DEF live
<1>3. \A c \in N : \A t \in live : \A o \in Bound(t) : objects[t][o] # c
  BY Zenon DEF Allocated
<1>4. \A t \in live \ {s} : \A o \in Bound(t) : \A p \in DOMAIN m :
         m[p] = objects[t][o] => p = o /\ p \notin K
  BY <1>3 DEF Inv, OwnedIsExclusive
<1>5. \A o \in K : contents'[m[o]] = v[o]
  <2> SUFFICES ASSUME NEW o \in K PROVE contents'[m[o]] = v[o]
    BY Zenon
  <2>1. (CHOOSE p \in K : m[p] = m[o]) = o
    BY Zenon
  <2> QED
    BY Zenon, <2>1, <1>1
<1>6. \A o \in DOMAIN m \ K : contents'[m[o]] = contents[m[o]]
  BY Zenon, <1>1
<1>7. \A t \in live \ {s} : \A o \in Bound(t) :
         contents'[objects[t][o]] = contents[objects[t][o]]
  <2> SUFFICES ASSUME NEW t \in live \ {s}, NEW o \in Bound(t)
               PROVE  contents'[objects[t][o]] = contents[objects[t][o]]
    BY Zenon
  <2>1. objects[t][o] \in Cell
    BY Zenon DEF Inv, TypeOK
  <2>2. ~ \E p \in K : m[p] = objects[t][o]
    BY Zenon, <1>4
  <2> QED
    BY Zenon, <2>1, <2>2, <1>1
<1>8. TypeOK'
  <2>1. contents' \in [Cell -> Value]
    <3> SUFFICES ASSUME NEW c \in Cell PROVE contents'[c] \in Value
      BY Zenon, <1>1
    <3>1. CASE \E o \in K : m[o] = c
      BY Zenon, <3>1, <1>5
    <3>2. CASE ~ \E o \in K : m[o] = c
      BY Zenon, <3>2, <1>1 DEF Inv, TypeOK
    <3> QED
      BY Zenon, <3>1, <3>2
  <2>2. copyOnWriteOwner' \in [Cell -> Nat]
    BY <1>1, KeyAssumption DEF Inv, TypeOK
  <2>3. live' \subseteq Space /\ DOMAIN cowKey' = live'
    BY Zenon, <1>1, <1>2 DEF Inv, TypeOK
  <2>4. \A t \in live' : /\ cowKey'[t] \in 1..MaxKey
                         /\ Bound(t)' \subseteq Object
                         /\ \A o \in Bound(t)' : objects'[t][o] \in Cell
    BY <1>1, <1>2 DEF Inv, TypeOK, Bound
  <2> QED
    BY Zenon, <2>1, <2>2, <2>3, <2>4 DEF TypeOK
<1>9. \A t \in live \ {s} : \A o \in Bound(t) :
         copyOnWriteOwner'[objects[t][o]] = copyOnWriteOwner[objects[t][o]]
  BY <1>1, <1>3 DEF Inv, TypeOK
<1>10. \A o \in DOMAIN m : copyOnWriteOwner'[m[o]] =
          IF m[o] \in N THEN cowKey[s] ELSE copyOnWriteOwner[objects[s][o]]
  BY Zenon, <1>1
<1>11. OwnersNotAhead'
  <2> SUFFICES ASSUME NEW t \in live, NEW o \in Bound(t)'
               PROVE  copyOnWriteOwner'[objects'[t][o]] <= cowKey[t]
    BY Zenon, <1>1, <1>2 DEF OwnersNotAhead
  <2>1. CASE t = s
    BY <2>1, <1>2, <1>10, KeyAssumption DEF Inv, OwnersNotAhead, TypeOK, Bound
  <2>2. CASE t # s
    BY <2>2, <1>2, <1>9 DEF Inv, OwnersNotAhead, Bound
  <2> QED
    BY Zenon, <2>1, <2>2
<1>12. OwnedIsExclusive'
  <2> SUFFICES ASSUME NEW t \in live, NEW u \in live, NEW o \in Bound(t)', NEW p \in Bound(u)',
                      objects'[t][o] = objects'[u][p]
               PROVE  o = p /\ (t # u => copyOnWriteOwner'[objects'[t][o]] # cowKey[t])
    BY <1>1, <1>2 DEF OwnedIsExclusive, Owned
  <2>1. CASE t = s /\ u = s
    BY Zenon, <2>1, <1>2 DEF Bound
  <2>2. CASE t = s /\ u # s
    <3>1. o \in DOMAIN m /\ p \in Bound(u) /\ m[o] = objects[u][p]
      BY Zenon, <2>2, <1>2 DEF Bound
    <3>2. o = p /\ o \notin K
      BY Zenon, <3>1, <2>2, <1>4
    <3>3. o \in Bound(s) /\ m[o] = objects[s][o] /\ m[o] \notin N
      BY Zenon, <3>1, <3>2, <1>3
    <3>4. copyOnWriteOwner[objects[s][o]] # cowKey[s]
      <4>1. s \in live /\ objects[s][o] = objects[u][p] /\ s # u
        BY Zenon, <3>1, <3>3, <2>2
      <4> QED
        BY <4>1, <3>1, <3>3 DEF Inv, OwnedIsExclusive, Owned
    <3> QED
      BY Zenon, <3>1, <3>2, <3>3, <3>4, <2>2, <1>2, <1>10
  <2>3. CASE t # s /\ u = s
    <3>1. o \in Bound(t) /\ p \in DOMAIN m /\ objects[t][o] = m[p]
      BY Zenon, <2>3, <1>2 DEF Bound
    <3>2. o = p /\ p \notin K
      BY <3>1, <2>3, <1>4
    <3>3. p \in Bound(s) /\ m[p] = objects[s][p]
      BY Zenon, <3>1, <3>2
    <3>4. copyOnWriteOwner[objects[t][o]] # cowKey[t]
      BY <3>1, <3>3, <2>3 DEF Inv, OwnedIsExclusive, Owned
    <3> QED
      BY <3>1, <3>2, <3>4, <2>3, <1>2, <1>9
  <2>4. CASE t # s /\ u # s
    BY <2>4, <1>2, <1>9 DEF Inv, OwnedIsExclusive, Owned, Bound
  <2> QED
    BY Zenon, <2>1, <2>2, <2>3, <2>4
<1>13. ReadOnlyShared'
  <2>1. \A t \in live : \A o \in ReadOnly :
           o \in DOMAIN objects'[t] /\ objects'[t][o] = objects[t][o]
    BY <1>2 DEF Inv, ReadOnlyShared, Bound
  <2> QED
    BY <2>1, <1>2 DEF Inv, ReadOnlyShared, Bound
<1> QED
  BY Zenon, <1>1, <1>2, <1>5, <1>6, <1>7, <1>8, <1>11, <1>12, <1>13 DEF Inv

\* Its effect on what the states read: only s sees a change.
LEMMA RebindMemory ==
    ASSUME Inv, NEW s, NEW m, NEW N, NEW K, NEW v,
           Installable(s, m, N, K, v), rebind(s, m, N, K, v)
    PROVE  memory' = [memory EXCEPT ![s] =
                        [p \in DOMAIN m |-> IF p \in K THEN v[p] ELSE memory[s][p]]]
<1> DEFINE new == [p \in DOMAIN m |-> IF p \in K THEN v[p] ELSE memory[s][p]]
<1>1. /\ live' = live
      /\ objects' = [objects EXCEPT ![s] = m]
      /\ \A o \in DOMAIN m : contents'[m[o]] = IF o \in K THEN v[o] ELSE contents[m[o]]
      /\ \A t \in live \ {s} : \A o \in Bound(t) :
            contents'[objects[t][o]] = contents[objects[t][o]]
  BY RebindInv
<1>2. s \in live /\ DOMAIN memory = live
  BY Zenon DEF Installable, memory
<1>3. objects'[s] = m /\ \A t \in live \ {s} : objects'[t] = objects[t]
  BY Zenon, <1>1, <1>2 DEF live
<1>4. memory' = [t \in live |-> [o \in DOMAIN objects'[t] |-> contents'[objects'[t][o]]]]
  BY Zenon, <1>1 DEF memory, Bound
<1>5. memory'[s] = new
  <2>1. \A o \in DOMAIN m \ K : memory[s][o] = contents[m[o]]
    BY Zenon DEF Installable, memory
  <2>2. memory'[s] = [o \in DOMAIN m |-> contents'[m[o]]]
    BY Zenon, <1>2, <1>3, <1>4
  <2> QED
    BY <2>1, <2>2, <1>1
<1>6. \A t \in live \ {s} : memory'[t] = memory[t]
  <2> SUFFICES ASSUME NEW t \in live \ {s} PROVE memory'[t] = memory[t]
    BY Zenon
  <2>1. memory'[t] = [o \in Bound(t) |-> contents'[objects[t][o]]]
    BY Zenon, <1>3, <1>4 DEF Bound
  <2>2. memory[t] = [o \in Bound(t) |-> contents[objects[t][o]]]
    BY Zenon DEF memory
  <2> QED
    BY <2>1, <2>2, <1>1
<1>7. [memory EXCEPT ![s] = new] = [t \in live |-> IF t = s THEN new ELSE memory[t]]
  BY Zenon, <1>2 DEF memory
<1>8. memory' = [t \in live |-> memory'[t]]
  BY Zenon, <1>4
<1> HIDE DEF new
<1>9. memory' = [memory EXCEPT ![s] = new]
  BY Zenon, <1>5, <1>6, <1>7, <1>8
<1> QED
  BY Zenon, <1>9 DEF new

\* The memory of s with the contents v for the objects of K.
Overlaid(s, K, v) == [p \in Bound(s) |-> IF p \in K THEN v[p] ELSE memory[s][p]]

\* getWriteable installs such a map: the copies are new, the rest is owned.
LEMMA GetWriteableInstalls ==
    ASSUME Inv, NEW s \in live, NEW K \in SUBSET (Bound(s) \ ReadOnly), NEW v,
           \A o \in K : v[o] \in Value, getWriteable(s, K, v)
    PROVE  /\ Inv'
           /\ memory' = [memory EXCEPT ![s] = Overlaid(s, K, v)]
<1>1. PICK n \in [{o \in K : ~Owned(s, o)} -> Cell \ Allocated] :
         /\ IsInjective(n)
         /\ rebind(s, [p \in Bound(s) |-> IF p \in DOMAIN n THEN n[p] ELSE objects[s][p]],
                   Range(n), K, v)
  BY Zenon DEF getWriteable
<1> DEFINE m == [p \in Bound(s) |-> IF p \in DOMAIN n THEN n[p] ELSE objects[s][p]]
<1>2. DOMAIN m = Bound(s) /\ Bound(s) \subseteq Object /\ ReadOnly \subseteq Bound(s)
  BY Zenon DEF Inv, TypeOK, ReadOnlyShared
<1>3. \A o \in DOMAIN n : m[o] = n[o] /\ n[o] \in Cell /\ n[o] \notin Allocated
  BY Zenon, <1>1
<1>4. \A o \in Bound(s) \ DOMAIN n : m[o] = objects[s][o]
  BY Zenon
<1>5. \A o \in Bound(s) : objects[s][o] \in Cell /\ objects[s][o] \in Allocated
  BY Zenon DEF Inv, TypeOK, Allocated
<1>6. \A o \in DOMAIN m : m[o] \in Cell
  BY Zenon, <1>2, <1>3, <1>4, <1>5
<1>7. \A o, p \in Bound(s) : objects[s][o] = objects[s][p] => o = p
  BY DEF Inv, OwnedIsExclusive
<1>8. \A o, p \in DOMAIN n : n[o] = n[p] => o = p
  BY Zenon, <1>1 DEF IsInjective
<1>9. \A o, p \in DOMAIN m : m[o] = m[p] => o = p
  <2> HIDE DEF m
  <2> QED
    BY Zenon, <1>2, <1>3, <1>4, <1>5, <1>7, <1>8
<1>10. Range(n) \subseteq Cell \ Allocated
  BY Zenon, <1>1 DEF Range
<1>11. \A o \in K : m[o] \in Range(n) \/ (m[o] = objects[s][o] /\ Owned(s, o))
  BY Zenon, <1>1, <1>3 DEF Range
<1>12. Installable(s, m, Range(n), K, v)
  <2>1. K \subseteq DOMAIN m /\ K \cap ReadOnly = {}
    BY Zenon, <1>2
  <2>2. \A o \in DOMAIN m \ K : o \in Bound(s) /\ m[o] = objects[s][o]
    BY Zenon, <1>1
  <2> HIDE DEF m
  <2> QED
    BY Zenon, <2>1, <2>2, <1>2, <1>6, <1>9, <1>10, <1>11 DEF Installable
<1>13. rebind(s, m, Range(n), K, v)
  BY Zenon, <1>1
<1> HIDE DEF m
<1>14. Inv'
  BY Zenon, <1>12, <1>13, RebindInv
<1>15. memory' = [memory EXCEPT ![s] =
                    [p \in DOMAIN m |-> IF p \in K THEN v[p] ELSE memory[s][p]]]
  BY <1>12, <1>13, RebindMemory
<1> QED
  BY Zenon, <1>2, <1>14, <1>15 DEF Overlaid

-----------------------------------------------------------------------------
(* One lemma per operation: it preserves Inv and is a step of PrivateMemory *)

\* A fork: the key that both sides get is ahead of every owner they share.
LEMMA BranchStep ==
    ASSUME Inv, NEW s \in live, NEW f \in Space \ live, branch(s, f)
    PROVE  Inv' /\ Private!Fork(s, f)
<1>1. /\ cowKey' = [t \in live \cup {f} |->
            IF t = f THEN cowKey[s] + 1 ELSE IF t = s THEN cowKey[s] + 1 ELSE cowKey[t]]
      /\ objects' = [t \in live \cup {f} |-> IF t = f THEN objects[s] ELSE objects[t]]
      /\ UNCHANGED <<copyOnWriteOwner, contents>>
      /\ cowKey[s] < MaxKey
  BY Zenon DEF branch, keyAfterBranch
<1>2. live' = live \cup {f}
  BY Zenon, <1>1 DEF live
<1>3. /\ objects'[f] = objects[s]
      /\ \A t \in live : objects'[t] = objects[t]
  BY Zenon, <1>1
<1>4. \A t \in live : cowKey[t] \in 1..MaxKey
  BY Zenon DEF Inv, TypeOK
<1>5. /\ cowKey'[f] = cowKey[s] + 1
      /\ cowKey'[s] = cowKey[s] + 1
      /\ \A t \in live \ {s} : cowKey'[t] = cowKey[t]
  BY Zenon, <1>1
<1>6. TypeOK'
  <2>1. live' \subseteq Space /\ DOMAIN cowKey' = live'
    BY Zenon, <1>1, <1>2 DEF Inv, TypeOK
  <2>2. \A t \in live' : cowKey'[t] \in 1..MaxKey
    BY <1>1, <1>2, <1>4, <1>5, KeyAssumption
  <2>3. \A t \in live' : /\ DOMAIN objects'[t] \subseteq Object
                         /\ \A o \in DOMAIN objects'[t] : objects'[t][o] \in Cell
    BY <1>2, <1>3 DEF Inv, TypeOK, Bound
  <2> QED
    BY <2>1, <2>2, <2>3, <1>1 DEF Inv, TypeOK, Bound
<1>7. \A t \in live : \A o \in DOMAIN objects[t] :
         /\ copyOnWriteOwner[objects[t][o]] \in Nat
         /\ copyOnWriteOwner[objects[t][o]] <= cowKey[t]
  BY Zenon DEF Inv, TypeOK, OwnersNotAhead, Bound
<1>8. OwnersNotAhead'
  BY <1>1, <1>2, <1>3, <1>4, <1>5, <1>7 DEF OwnersNotAhead, Bound
<1>9. OwnedIsExclusive'
  <2> SUFFICES ASSUME NEW t \in live', NEW u \in live',
                      NEW o \in DOMAIN objects'[t], NEW p \in DOMAIN objects'[u],
                      objects'[t][o] = objects'[u][p]
               PROVE  o = p /\ (t # u => copyOnWriteOwner[objects'[t][o]] # cowKey'[t])
    BY SMTT(30), <1>1 DEF OwnedIsExclusive, Owned, Bound
  <2> DEFINE orig(x) == IF x = f THEN s ELSE x
  <2>1. /\ orig(t) \in live /\ orig(u) \in live
        /\ objects'[t] = objects[orig(t)] /\ objects'[u] = objects[orig(u)]
    BY Zenon, <1>2, <1>3
  <2>2. o = p
    BY <2>1 DEF Inv, OwnedIsExclusive, Bound
  <2>3. CASE orig(t) = s
    <3>1. cowKey'[t] = cowKey[s] + 1 BY <2>3, <1>5, Zenon
    <3>2. /\ cowKey[s] \in 1..MaxKey /\ copyOnWriteOwner[objects[s][o]] \in Nat
          /\ copyOnWriteOwner[objects[s][o]] <= cowKey[s]
      BY <2>1, <2>3, <1>4, <1>7, Zenon
    <3>3. copyOnWriteOwner[objects[s][o]] # cowKey[s] + 1 BY <3>2
    <3> QED BY <3>1, <3>3, <2>1, <2>2, <2>3, Zenon
  <2>4. CASE orig(t) # s /\ t # u
    <3>1. t \in live /\ t # f /\ t # s /\ orig(t) = t
      BY Zenon, <2>4, <1>2
    <3>2. orig(u) # t
      BY Zenon, <2>4, <3>1
    <3>3. copyOnWriteOwner[objects[t][o]] # cowKey[t]
      BY <2>1, <3>1, <3>2 DEF Inv, OwnedIsExclusive, Owned, Bound
    <3> QED
      BY Zenon, <3>1, <3>3, <2>1, <2>2, <1>5
  <2> QED
    BY Zenon, <2>2, <2>3, <2>4
<1>10. ReadOnlyShared'
  BY <1>2, <1>3 DEF Inv, ReadOnlyShared, Bound
<1>11. Private!Fork(s, f)
  <2>1. memory' = [t \in live \cup {f} |->
                     [o \in DOMAIN objects'[t] |-> contents[objects'[t][o]]]]
    BY Zenon, <1>1, <1>2 DEF memory, Bound
  <2>2. /\ DOMAIN memory = live
        /\ \A t \in live : memory[t] = [o \in DOMAIN objects[t] |-> contents[objects[t][o]]]
    BY Zenon DEF memory, Bound
  <2> QED
    BY <2>1, <2>2, <1>3 DEF Private!Fork
<1> QED
  BY Zenon, <1>6, <1>8, <1>9, <1>10, <1>11 DEF Inv

\* Allocation: the object gets a cell that no space binds.
LEMMA BindStep ==
    ASSUME Inv, NEW s \in live, NEW o \in Object, NEW v \in Value, bindObject(s, o, v)
    PROVE  Inv' /\ o \notin ReadOnly /\ Private!Bind(s, o, v)
<1>1. PICK c \in Cell \ Allocated :
         rebind(s, [p \in Bound(s) \cup {o} |-> IF p = o THEN c ELSE objects[s][p]],
                {c}, {o}, [p \in {o} |-> v])
  BY Zenon DEF bindObject
<1> DEFINE m == [p \in Bound(s) \cup {o} |-> IF p = o THEN c ELSE objects[s][p]]
           w == [p \in {o} |-> v]
<1>2. o \notin ReadOnly
  BY Zenon DEF bindObject
<1>3. /\ DOMAIN m = Bound(s) \cup {o}
      /\ m[o] = c
      /\ \A p \in Bound(s) \ {o} : m[p] = objects[s][p]
      /\ w[o] = v
  BY Zenon
<1>4. Bound(s) \subseteq Object /\ ReadOnly \subseteq Bound(s)
  BY Zenon DEF Inv, TypeOK, ReadOnlyShared
<1>5. \A p \in Bound(s) : objects[s][p] \in Cell /\ objects[s][p] \in Allocated
  BY Zenon DEF Inv, TypeOK, Allocated
<1>6. \A p, q \in Bound(s) : objects[s][p] = objects[s][q] => p = q
  BY DEF Inv, OwnedIsExclusive
<1>7. rebind(s, m, {c}, {o}, w)
  BY Zenon, <1>1
<1> HIDE DEF m, w
<1>8. Installable(s, m, {c}, {o}, w)
  <2>1. \A p, q \in DOMAIN m : m[p] = m[q] => p = q
    BY Zenon, <1>3, <1>5, <1>6
  <2>2. \A p \in DOMAIN m : m[p] \in Cell
    BY Zenon, <1>3, <1>5
  <2> QED
    BY <2>1, <2>2, <1>2, <1>3, <1>4, <1>5 DEF Installable
<1>9. Inv'
  BY Zenon, <1>7, <1>8, RebindInv
<1>10. memory' = [memory EXCEPT ![s] =
                    [p \in DOMAIN m |-> IF p \in {o} THEN w[p] ELSE memory[s][p]]]
  BY <1>7, <1>8, RebindMemory
<1>11. DOMAIN memory[s] = Bound(s)
  BY Zenon DEF memory
<1>12. [p \in DOMAIN m |-> IF p \in {o} THEN w[p] ELSE memory[s][p]]
         = [p \in DOMAIN memory[s] \cup {o} |-> IF p = o THEN v ELSE memory[s][p]]
  BY Zenon, <1>3, <1>11
<1> QED
  BY Zenon, <1>2, <1>9, <1>10, <1>12 DEF Private!Bind

\* free and the end of a frame: bindings go, no cell changes.
LEMMA UnbindStep ==
    ASSUME Inv, NEW s \in live, NEW O \in SUBSET (Bound(s) \ ReadOnly), unbindObject(s, O)
    PROVE  Inv' /\ Private!Unbind(s, O)
<1> DEFINE m == [p \in Bound(s) \ O |-> objects[s][p]]
<1>1. objects' = [objects EXCEPT ![s] = m] /\ UNCHANGED <<cowKey, copyOnWriteOwner, contents>>
  BY Zenon DEF unbindObject
<1>2. DOMAIN m = Bound(s) \ O /\ \A p \in Bound(s) \ O : m[p] = objects[s][p]
  BY Zenon
<1> HIDE DEF m
<1>3. /\ live' = live
      /\ objects'[s] = m
      /\ \A t \in live \ {s} : objects'[t] = objects[t]
  BY Zenon, <1>1 DEF live
<1>4. \A t \in live : /\ DOMAIN objects'[t] \subseteq Bound(t)
                      /\ ReadOnly \subseteq Bound(t) => ReadOnly \subseteq DOMAIN objects'[t]
                      /\ \A p \in DOMAIN objects'[t] : objects'[t][p] = objects[t][p]
  BY Zenon, <1>2, <1>3 DEF Bound
<1>5. TypeOK'
  BY <1>1, <1>3, <1>4 DEF Inv, TypeOK, Bound
<1>6. OwnersNotAhead' /\ OwnedIsExclusive' /\ ReadOnlyShared'
  BY <1>1, <1>3, <1>4 DEF Inv, OwnersNotAhead, OwnedIsExclusive, Owned, ReadOnlyShared, Bound
<1>7. memory' = [t \in live |-> [p \in DOMAIN objects'[t] |-> contents[objects'[t][p]]]]
  BY <1>1, <1>3 DEF memory, Bound
<1>8. /\ DOMAIN memory = live
      /\ \A t \in live : memory[t] = [p \in Bound(t) |-> contents[objects[t][p]]]
  BY Zenon DEF memory
<1>9. memory'[s] = [p \in DOMAIN memory[s] \ O |-> memory[s][p]]
  BY <1>2, <1>3, <1>7, <1>8
<1>10. \A t \in live \ {s} : memory'[t] = memory[t]
  BY <1>3, <1>7, <1>8 DEF Bound
<1>11. memory' = [t \in live |-> memory'[t]]
  BY Zenon, <1>7
<1>12. Private!Unbind(s, O)
  BY Zenon, <1>8, <1>9, <1>10, <1>11 DEF Private!Unbind
<1> QED
  BY Zenon, <1>5, <1>6, <1>12 DEF Inv

\* Whatever goes through getWriteable is a write of the space's own memory that
\* leaves the read-only objects alone.
LEMMA GetWriteableStep ==
    ASSUME Inv, NEW s \in live, NEW K \in SUBSET (Bound(s) \ ReadOnly), NEW v,
           \A o \in K : v[o] \in Value, getWriteable(s, K, v)
    PROVE  Inv' /\ \E m \in [DOMAIN memory[s] -> Value] : Private!Write(s, m)
<1> DEFINE m == Overlaid(s, K, v)
<1>1. Inv' /\ memory' = [memory EXCEPT ![s] = m]
  BY Zenon, GetWriteableInstalls
<1>2. DOMAIN memory[s] = Bound(s) /\ \A o \in Bound(s) : memory[s][o] \in Value
  BY Zenon DEF memory, Inv, TypeOK
<1>3. m \in [DOMAIN memory[s] -> Value]
  BY Zenon, <1>2 DEF Overlaid
<1>4. \A o \in DOMAIN memory[s] \cap ReadOnly : m[o] = memory[s][o]
  BY Zenon, <1>2 DEF Overlaid
<1> HIDE DEF m
<1>5. Private!Write(s, m)
  BY Zenon, <1>1, <1>4 DEF Private!Write
<1> QED
  BY Zenon, <1>1, <1>3, <1>5

\* A store.
LEMMA WriteStep ==
    ASSUME Inv, NEW s \in live, NEW o \in Object, NEW v \in Value, write(s, o, v)
    PROVE  Inv' /\ \E m \in [DOMAIN memory[s] -> Value] : Private!Write(s, m)
<1>1. {o} \in SUBSET (Bound(s) \ ReadOnly)
  BY Zenon DEF write
<1>2. getWriteable(s, {o}, [p \in {o} |-> v])
  BY Zenon DEF write
<1> QED
  BY Zenon, <1>1, <1>2, GetWriteableStep

\* An external call, complete or stopped half way.
LEMMA ExternalStep ==
    ASSUME Inv, NEW s \in live, NEW w \in [Bound(s) -> Value], callExternalFunction(s, w)
    PROVE  Inv' /\ \E m \in [DOMAIN memory[s] -> Value] : Private!Write(s, m)
<1>1. PICK K \in SUBSET (Bound(s) \ ReadOnly) : getWriteable(s, K, w)
  <2> DEFINE differ == {o \in Bound(s) : w[o] # contents[objects[s][o]]}
  <2>1. CASE differ \cap ReadOnly = {} /\ getWriteable(s, differ, w)
    <3>1. differ \in SUBSET (Bound(s) \ ReadOnly)
      BY Zenon, <2>1
    <3> HIDE DEF differ
    <3> QED
      BY Zenon, <3>1, <2>1
  <2>2. CASE \E K \in SUBSET (differ \ ReadOnly) : getWriteable(s, K, w)
    <3>1. PICK K \in SUBSET (differ \ ReadOnly) : getWriteable(s, K, w)
      BY Zenon, <2>2
    <3>2. K \in SUBSET (Bound(s) \ ReadOnly)
      BY Zenon
    <3> QED
      BY Zenon, <3>1, <3>2
  <2> QED
    BY Zenon, <2>1, <2>2 DEF callExternalFunction
<1> QED
  BY Zenon, <1>1, GetWriteableStep

\* A merge: the objects whose cells differ are not read-only ones, since these
\* are shared.
LEMMA MergeStep ==
    ASSUME Inv, NEW a \in live, NEW b \in live \ {a}, NEW side \in {a, b}, merge(a, b, side)
    PROVE  /\ Inv'
           /\ \E m \in [DOMAIN memory[a] -> Value] : Private!Write(a, m)
           /\ memory' = [memory EXCEPT ![a] = memory[side]]
<1> DEFINE v == [o \in Bound(a) |-> contents[objects[side][o]]]
           K == mutated(a, b)
<1>1. Bound(a) = Bound(b) /\ getWriteable(a, K, v)
  BY Zenon DEF merge
<1>2. K \in SUBSET (Bound(a) \ ReadOnly)
  BY Zenon DEF mutated, Inv, ReadOnlyShared
<1>3. \A o \in Bound(a) : v[o] = contents[objects[side][o]] /\ objects[side][o] \in Cell
  BY Zenon, <1>1 DEF Inv, TypeOK
<1>4. \A o \in Bound(a) \ K : objects[a][o] = objects[side][o]
  BY Zenon DEF mutated
<1>5. /\ memory[a] = [o \in Bound(a) |-> contents[objects[a][o]]]
      /\ memory[side] = [o \in Bound(a) |-> contents[objects[side][o]]]
  BY Zenon, <1>1 DEF memory
<1> HIDE DEF v, K
<1>6. \A o \in K : v[o] \in Value
  BY Zenon, <1>2, <1>3 DEF Inv, TypeOK
<1>7. Inv' /\ \E m \in [DOMAIN memory[a] -> Value] : Private!Write(a, m)
  BY Zenon, <1>1, <1>2, <1>6, GetWriteableStep
<1>8. memory' = [memory EXCEPT ![a] = Overlaid(a, K, v)]
  BY Zenon, <1>1, <1>2, <1>6, GetWriteableInstalls
<1>9. Overlaid(a, K, v) = memory[side]
  BY <1>3, <1>4, <1>5 DEF Overlaid
<1> QED
  BY Zenon, <1>7, <1>8, <1>9

\* The end of a state.
LEMMA TerminateStep ==
    ASSUME Inv, NEW s \in live, terminate(s)
    PROVE  Inv' /\ Private!End(s)
<1>1. /\ objects' = [t \in live \ {s} |-> objects[t]]
      /\ cowKey' = [t \in live \ {s} |-> cowKey[t]]
      /\ UNCHANGED <<copyOnWriteOwner, contents>>
  BY Zenon DEF terminate
<1>2. live' = live \ {s} /\ \A t \in live' : objects'[t] = objects[t] /\ cowKey'[t] = cowKey[t]
  BY Zenon, <1>1 DEF live
<1>3. TypeOK'
  BY <1>1, <1>2 DEF Inv, TypeOK, Bound
<1>4. OwnersNotAhead' /\ OwnedIsExclusive' /\ ReadOnlyShared'
  BY <1>1, <1>2 DEF Inv, OwnersNotAhead, OwnedIsExclusive, Owned, ReadOnlyShared, Bound
<1>5. memory' = [t \in live \ {s} |-> [o \in DOMAIN objects'[t] |-> contents[objects'[t][o]]]]
  BY Zenon, <1>1, <1>2 DEF memory, Bound
<1>6. /\ DOMAIN memory = live
      /\ \A t \in live : memory[t] = [p \in DOMAIN objects[t] |-> contents[objects[t][p]]]
  BY Zenon DEF memory, Bound
<1>7. Private!End(s)
  BY <1>2, <1>5, <1>6 DEF Private!End
<1> QED
  BY Zenon, <1>3, <1>4, <1>7 DEF Inv

-----------------------------------------------------------------------------

\* Every step preserves the invariant and is, for the memories, a step of
\* PrivateMemory or none.
LEMMA NextInv ==
    ASSUME Inv, [Next]_vars
    PROVE  Inv' /\ [Private!Next]_memory
<1>1. DOMAIN memory = live
  BY Zenon DEF memory
<1>2. CASE UNCHANGED vars
  <2>1. Inv'
    BY <1>2 DEF vars, Inv, TypeOK, OwnersNotAhead, OwnedIsExclusive, Owned, ReadOnlyShared,
                live, Bound
  <2>2. memory' = memory
    BY Zenon, <1>2 DEF vars, memory, live, Bound
  <2> QED
    BY Zenon, <2>1, <2>2
<1>3. ASSUME NEW s \in live, NEW f \in Space \ live, branch(s, f)
      PROVE  Inv' /\ [Private!Next]_memory
  BY Zenon, <1>1, <1>3, BranchStep DEF Private!Next
<1>4. ASSUME NEW s \in live, NEW o \in Object, NEW v \in Value, bindObject(s, o, v)
      PROVE  Inv' /\ [Private!Next]_memory
  BY Zenon, <1>1, <1>4, BindStep DEF Private!Next
<1>5. ASSUME NEW s \in live, NEW o \in Object, NEW v \in Value, write(s, o, v)
      PROVE  Inv' /\ [Private!Next]_memory
  BY Zenon, <1>1, <1>5, WriteStep DEF Private!Next
<1>6. ASSUME NEW s \in live, NEW O \in SUBSET (Bound(s) \ ReadOnly), unbindObject(s, O)
      PROVE  Inv' /\ [Private!Next]_memory
  <2>1. O \in SUBSET Object
    BY Zenon DEF Inv, TypeOK
  <2> QED
    BY Zenon, <1>1, <1>6, <2>1, UnbindStep DEF Private!Next
<1>7. ASSUME NEW s \in live, NEW m \in [Bound(s) -> Value], callExternalFunction(s, m)
      PROVE  Inv' /\ [Private!Next]_memory
  BY Zenon, <1>1, <1>7, ExternalStep DEF Private!Next
<1>8. ASSUME NEW s \in live, NEW b \in live \ {s}, NEW side \in {s, b}, merge(s, b, side)
      PROVE  Inv' /\ [Private!Next]_memory
  BY <1>1, <1>8, MergeStep DEF Private!Next
<1>9. ASSUME NEW s \in live, terminate(s)
      PROVE  Inv' /\ [Private!Next]_memory
  BY Zenon, <1>1, <1>9, TerminateStep DEF Private!Next
<1> QED
  BY <1>2, <1>3, <1>4, <1>5, <1>6, <1>7, <1>8, <1>9 DEF Next

\* The invariant holds in every reachable state.
THEOREM Invariance == Spec => []Inv
  BY InitInv, NextInv, PTL DEF Spec

\* No cell is owned by a key that is ahead of a space that binds it, a cell that
\* getWriteable hands out for writing in place is bound once, and the read-only
\* objects are never copied.
THEOREM SharingStaysSafe == Spec => []SharingIsSafe
<1>1. Inv => SharingIsSafe
  BY Zenon DEF Inv, SharingIsSafe
<1> QED
  BY <1>1, Invariance, PTL

\* ExecutionState::merge leaves the memory of one of the two paths.
THEOREM MergeIsWhole == Spec => MergeTakesOneSide
<1>1. Inv /\ [Next]_vars =>
        [\A a, b \in live : \A side \in {a, b} :
           merge(a, b, side) => memory' = [memory EXCEPT ![a] = memory[side]]]_vars
  <2> SUFFICES ASSUME Inv, NEW a \in live, NEW b \in live, NEW side \in {a, b},
                      merge(a, b, side)
               PROVE  memory' = [memory EXCEPT ![a] = memory[side]]
    BY Zenon
  <2>1. b \in live \ {a}
    BY Zenon DEF merge
  <2> QED
    BY <2>1, MergeStep
<1> QED
  BY <1>1, Invariance, PTL DEF Spec, MergeTakesOneSide

\* Copy-on-write sharing implements private memories.
THEOREM Isolation == Spec => MemoryIsPrivate
<1>1. Init => Private!Init
  <2> SUFFICES ASSUME Init PROVE Private!Init
    BY Zenon
  <2>1. PICK s \in Space, m \in [ReadOnly -> Cell] : objects = [t \in {s} |-> m]
    BY Zenon DEF Init
  <2>2. live = {s} /\ Bound(s) = ReadOnly /\ objects[s] = m
    BY Zenon, <2>1 DEF live, Bound
  <2>3. contents \in [Cell -> Value]
    BY Zenon DEF Init
  <2>4. [o \in ReadOnly |-> contents[m[o]]] \in [ReadOnly -> Value]
    BY Zenon, <2>1, <2>3
  <2>5. [o \in ReadOnly |-> contents[m[o]]] \in Private!Memories
    BY Zenon, <2>4, ReadOnlyAssumption DEF Private!Memories
  <2>6. memory = [t \in {s} |-> [o \in ReadOnly |-> contents[m[o]]]]
    BY Zenon, <2>2 DEF memory
  <2> QED
    BY Zenon, <2>5, <2>6 DEF Private!Init
<1>2. Inv /\ [Next]_vars => [Private!Next]_memory
  BY Zenon, NextInv
<1> QED
  BY <1>1, <1>2, Invariance, PTL DEF Spec, MemoryIsPrivate, Private!Spec
-----------------------------------------------------------------------------
(* Object states *)

\* Induction on the naturals, for the newest update of a byte.
LOCAL INSTANCE WellFoundedInduction

\* External functions leave the concrete bytes alone that are flushed.
Undisturbed == ExternalsWriteFlushed = FALSE

\* A byte that was flushed and is still cached is then the same in the list.
Coherent == Undisturbed => FlushedAgree

\* The flush loop has flushed what it passed; before a write it has also given
\* up the caches there.
FlushedBelow ==
    access.name # "none" =>
        /\ access.index \in Offset
        /\ \A i \in Offset : i < offset =>
              /\ isByteFlushed(i)
              /\ access.name = "write" => ~isByteConcrete(i) /\ ~isByteKnownSymbolic(i)

ObjectInv == ObjectTypeOK /\ CacheInvariants /\ Coherent /\ FlushedBelow

-----------------------------------------------------------------------------
(* The list of updates *)

\* A set of naturals below a bound that is not empty has a greatest element.
LEMMA Greatest ==
    ASSUME NEW n \in Nat, NEW S \in SUBSET (1..n), S # {}
    PROVE  \E k \in S : \A m \in S : m <= k
<1> DEFINE T == {x \in Nat : n - x \in S}
<1>1. PICK s \in S : TRUE BY Zenon
<1>2. n - s \in T BY <1>1
<1>3. \E x \in T : \A y \in T : ~(<<y, x>> \in OpToRel(<, Nat))
  <2>1. T \subseteq Nat /\ T # {} BY Zenon, <1>2
  <2> HIDE DEF T
  <2> QED BY Zenon, <2>1, NatLessThanWellFounded, WFMin
<1>4. PICK x \in T : \A y \in T : ~(<<y, x>> \in OpToRel(<, Nat)) BY Zenon, <1>3
<1>5. \A y \in T : ~(y < x) BY Zenon, <1>4 DEF OpToRel
<1>6. n - x \in S BY Zenon
<1>7. ASSUME NEW m \in S PROVE m <= n - x
  <2>1. n - m \in T /\ n - m \in Nat /\ x \in Nat /\ m \in Nat OBVIOUS
  <2>2. ~(n - m < x) BY Zenon, <2>1, <1>5
  <2> HIDE DEF T
  <2> QED BY <2>1, <2>2
<1> QED BY Zenon, <1>6, <1>7

\* When some update writes i there is a newest one.
LEMMA NewestExists ==
    ASSUME NEW u \in Seq(Update), NEW n \in 0..Len(u), NEW i \in Offset,
           NEW j \in 1..n, u[j].index = i
    PROVE  \E k \in 1..n : Newest(u, n, i, k)
<1> DEFINE S == {k \in 1..n : u[k].index = i}
<1>1. S \in SUBSET (1..n) /\ j \in S BY Zenon
<1>2. n \in Nat OBVIOUS
<1>3. \E k \in S : \A m \in S : m <= k
  <2> HIDE DEF S
  <2> QED BY Zenon, <1>1, <1>2, Greatest
<1> QED BY Zenon, <1>3 DEF Newest

\* The newest update decides.
LEMMA AppliedNewest ==
    ASSUME NEW u \in Seq(Update), NEW n \in 0..Len(u), NEW i \in Offset, NEW base,
           NEW k \in 1..n, Newest(u, n, i, k)
    PROVE  Applied(u, n, i, base) = u[k].value
<1> DEFINE c == CHOOSE m \in 1..n : Newest(u, n, i, m)
<1>1. c \in 1..n /\ Newest(u, n, i, c) BY Zenon
<1>2. c = k
  <2> HIDE DEF c
  <2> QED BY <1>1 DEF Newest
<1>3. Applied(u, n, i, base) = u[c].value BY Zenon DEF Applied
<1> QED BY Zenon, <1>2, <1>3

\* Without an update that writes i, the array below decides.
LEMMA AppliedNone ==
    ASSUME NEW u \in Seq(Update), NEW n \in 0..Len(u), NEW i \in Offset, NEW base,
           \A k \in 1..n : u[k].index # i
    PROVE  Applied(u, n, i, base) = base
BY Zenon DEF Applied, Newest

\* What updates leave at an offset is a byte.
LEMMA AppliedType ==
    ASSUME NEW u \in Seq(Update), NEW n \in 0..Len(u), NEW i \in Offset, NEW base \in Byte
    PROVE  Applied(u, n, i, base) \in Byte
<1>1. CASE \E k \in 1..n : u[k].index = i
  <2>1. PICK k \in 1..n : Newest(u, n, i, k) BY Zenon, <1>1, NewestExists
  <2>2. Applied(u, n, i, base) = u[k].value BY Zenon, <2>1, AppliedNewest
  <2>3. u[k] \in Update OBVIOUS
  <2> QED BY Zenon, <2>2, <2>3 DEF Update
<1>2. CASE \A k \in 1..n : u[k].index # i
  BY <1>2, AppliedNone
<1> QED BY Zenon, <1>1, <1>2

\* UpdateList::extend: the update at the head wins at its own index.
LEMMA AppliedAppend ==
    ASSUME NEW u \in Seq(Update), NEW w \in Update, NEW i \in Offset, NEW base
    PROVE  Applied(Append(u, w), Len(Append(u, w)), i, base) =
              IF w.index = i THEN w.value ELSE Applied(u, Len(u), i, base)
<1> DEFINE v == Append(u, w)
<1>1. /\ v \in Seq(Update) /\ Len(v) = Len(u) + 1
      /\ v[Len(u) + 1] = w /\ \A k \in 1..Len(u) : v[k] = u[k]
  OBVIOUS
<1>2. Len(u) \in Nat OBVIOUS
<1> HIDE DEF v
<1>3. CASE w.index = i
  <2>1. Newest(v, Len(v), i, Len(v)) BY <1>1, <1>2, <1>3 DEF Newest
  <2>2. Len(v) \in 1..Len(v) /\ Len(v) \in 0..Len(v) BY <1>1, <1>2
  <2>3. Applied(v, Len(v), i, base) = v[Len(v)].value BY <1>1, <2>1, <2>2, AppliedNewest
  <2> QED BY Zenon, <2>3, <1>1, <1>3 DEF v
<1>4. CASE w.index # i /\ \E k \in 1..Len(u) : u[k].index = i
  <2>0. Len(u) \in 0..Len(u) /\ Len(v) \in 0..Len(v) BY <1>1, <1>2
  <2>1. PICK k \in 1..Len(u) : Newest(u, Len(u), i, k) BY Zenon, <1>4, <2>0, NewestExists
  <2>2. k \in 1..Len(v) /\ Newest(v, Len(v), i, k) BY SMTT(30), <1>1, <1>2, <1>4, <2>1 DEF Newest
  <2>3. Applied(v, Len(v), i, base) = v[k].value BY <1>1, <2>0, <2>2, AppliedNewest
  <2>4. Applied(u, Len(u), i, base) = u[k].value BY <2>0, <2>1, AppliedNewest
  <2> QED BY Zenon, <2>3, <2>4, <1>1, <1>4 DEF v
<1>5. CASE w.index # i /\ \A k \in 1..Len(u) : u[k].index # i
  <2>0. Len(u) \in 0..Len(u) /\ Len(v) \in 0..Len(v) BY <1>1, <1>2
  <2>1. \A k \in 1..Len(v) : v[k].index # i BY <1>1, <1>2, <1>5
  <2>2. Applied(v, Len(v), i, base) = base BY <1>1, <2>0, <2>1, AppliedNone
  <2>3. Applied(u, Len(u), i, base) = base BY <1>5, <2>0, AppliedNone
  <2> QED BY Zenon, <2>2, <2>3, <1>5 DEF v
<1> QED BY Zenon, <1>3, <1>4, <1>5

\* getUpdates: a prefix of the updates may be folded into the array below.
LEMMA AppliedFold ==
    ASSUME NEW u \in Seq(Update), NEW n \in 0..Len(u), NEW i \in Offset, NEW base
    PROVE  LET v == SubSeq(u, n + 1, Len(u))
           IN  /\ v \in Seq(Update)
               /\ Applied(v, Len(v), i, Applied(u, n, i, base)) =
                     Applied(u, Len(u), i, base)
<1> DEFINE v == SubSeq(u, n + 1, Len(u))
           folded == Applied(u, n, i, base)
<1>1. Len(u) \in Nat /\ n \in Nat OBVIOUS
<1>2. /\ v \in Seq(Update) /\ Len(v) = Len(u) - n
      /\ \A k \in 1..Len(v) : v[k] = u[n + k]
  BY <1>1
<1> HIDE DEF v
<1>3. n \in 0..n /\ Len(v) \in 0..Len(v) /\ Len(u) \in 0..Len(u) BY <1>1, <1>2
<1>4. CASE \E k \in 1..Len(v) : v[k].index = i
  <2>1. PICK k \in 1..Len(v) : Newest(v, Len(v), i, k) BY Zenon, <1>2, <1>3, <1>4, NewestExists
  <2>2. n + k \in 1..Len(u) BY <1>1, <1>2
  <2>3. u[n + k].index = i BY Zenon, <1>2, <2>1 DEF Newest
  <2>4. ASSUME NEW m \in 1..Len(u), u[m].index = i PROVE m <= n + k
    <3>1. CASE m <= n BY <3>1, <1>1, <1>2
    <3>2. CASE m > n
      <4>1. m - n \in 1..Len(v) /\ v[m - n] = u[m] BY <1>1, <1>2, <3>2
      <4>2. m - n <= k BY Zenon, <4>1, <2>1, <2>4 DEF Newest
      <4> QED BY <4>2, <1>1
    <3> QED BY <3>1, <3>2, <1>1
  <2>5. Newest(u, Len(u), i, n + k) BY Zenon, <2>2, <2>3, <2>4 DEF Newest
  <2>6. Applied(v, Len(v), i, folded) = v[k].value BY <1>2, <1>3, <2>1, AppliedNewest
  <2>7. Applied(u, Len(u), i, base) = u[n + k].value BY <1>3, <2>2, <2>5, AppliedNewest
  <2> QED BY Zenon, <2>6, <2>7, <1>2 DEF v
<1>5. CASE \A k \in 1..Len(v) : v[k].index # i
  <2>1. Applied(v, Len(v), i, folded) = folded
    <3> HIDE DEF folded
    <3> QED BY <1>2, <1>3, <1>5, AppliedNone
  <2>2. ASSUME NEW m \in 1..Len(u), u[m].index = i PROVE m <= n
    <3>1. CASE m > n
      <4>1. m - n \in 1..Len(v) /\ v[m - n] = u[m] BY <1>1, <1>2, <3>1
      <4> QED BY Zenon, <4>1, <1>5, <2>2
    <3> QED BY <3>1, <1>1
  <2>3. Applied(u, Len(u), i, base) = folded
    <3>1. CASE \E k \in 1..n : u[k].index = i
      <4>1. PICK k \in 1..n : Newest(u, n, i, k) BY Zenon, <3>1, NewestExists
      <4>2. k \in 1..Len(u) BY <1>1
      <4>3. Newest(u, Len(u), i, k) BY <4>1, <4>2, <2>2, <1>1 DEF Newest
      <4>4. Applied(u, Len(u), i, base) = u[k].value BY <4>2, <4>3, <1>3, AppliedNewest
      <4>5. folded = u[k].value BY <4>1, AppliedNewest
      <4> QED BY Zenon, <4>4, <4>5
    <3>2. CASE \A k \in 1..n : u[k].index # i
      <4>1. \A k \in 1..Len(u) : u[k].index # i BY <3>2, <2>2, <1>1
      <4>2. Applied(u, Len(u), i, base) = base BY <4>1, <1>3, AppliedNone
      <4>3. folded = base BY <3>2, AppliedNone
      <4> QED BY Zenon, <4>2, <4>3
    <3> QED BY Zenon, <3>1, <3>2
  <2> QED BY Zenon, <2>1, <2>3, <1>2 DEF v
<1> QED BY Zenon, <1>4, <1>5, <1>2 DEF v

-----------------------------------------------------------------------------
(* The steps *)

\* What the list holds, and where the object says that a byte is, are bytes.
LEMMA ByteTypes ==
    ASSUME ObjectTypeOK, NEW i \in Offset
    PROVE  listed(i) \in Byte /\ ByteValue(i) \in Byte
<1>1. Base(i) \in Byte BY Zenon, ByteAssumption DEF ObjectTypeOK, Base
<1>2. updates \in Seq(Update) /\ Len(updates) \in 0..Len(updates) BY DEF ObjectTypeOK
<1>3. listed(i) \in Byte BY Zenon, <1>1, <1>2, AppliedType DEF listed
<1>4. concreteStore[i] \in Byte BY Zenon DEF ObjectTypeOK
<1>5. knownSymbolics[i] \in Byte \cup {Null} BY Zenon DEF ObjectTypeOK
<1> QED BY Zenon, <1>3, <1>4, <1>5 DEF ByteValue, isByteKnownSymbolic

\* When the list stays, so does what it holds.
LEMMA ListStays ==
    ASSUME UNCHANGED list, NEW i \in Offset
    PROVE  listed(i)' = listed(i)
BY Zenon DEF list, listed, Base

\* getUpdates changes the list but not what it holds.
LEMMA GetUpdatesStep ==
    ASSUME ObjectTypeOK, getUpdates
    PROVE  /\ root' = Null \/ root' \in [Offset -> Byte]
           /\ updates' \in Seq(Update)
           /\ \A i \in Offset : listed(i)' = listed(i)
<1>1. CASE root # Null
  <2>1. UNCHANGED list BY Zenon, <1>1 DEF getUpdates
  <2>2. \A i \in Offset : listed(i)' = listed(i) BY Zenon, <2>1, ListStays
  <2> QED BY Zenon, <2>1, <2>2 DEF list, ObjectTypeOK
<1>2. CASE root = Null
  <2>1. PICK n \in 0..Len(updates) :
           /\ root' = [i \in Offset |-> Applied(updates, n, i, 0)]
           /\ updates' = SubSeq(updates, n + 1, Len(updates))
    BY Zenon, <1>2 DEF getUpdates
  <2>2. updates \in Seq(Update) BY Zenon DEF ObjectTypeOK
  <2>3. \A i \in Offset : Applied(updates, n, i, 0) \in Byte
    BY Zenon, <2>2, ByteAssumption, AppliedType
  <2>4. root' \in [Offset -> Byte] BY Zenon, <2>1, <2>3
  <2>5. root' # Null BY Zenon, <2>4, SizeAssumption DEF Offset
  <2>6. updates' \in Seq(Update) BY <2>1, <2>2
  <2>7. ASSUME NEW i \in Offset PROVE listed(i)' = listed(i)
    <3>1. Base(i) = 0 BY Zenon, <1>2 DEF Base
    <3>2. Base(i)' = Applied(updates, n, i, 0) BY Zenon, <2>1, <2>5 DEF Base
    <3>3. Applied(updates', Len(updates'), i, Applied(updates, n, i, 0)) =
             Applied(updates, Len(updates), i, 0)
      BY Zenon, <2>1, <2>2, AppliedFold
    <3> QED BY Zenon, <3>1, <3>2, <3>3 DEF listed
  <2> QED BY Zenon, <2>4, <2>6, <2>7
<1> QED BY Zenon, <1>1, <1>2

\* A turn of the flush loop makes the list agree with the object at its offset,
\* and nowhere else changes what the list holds.
LEMMA ExtendFlushedStep ==
    ASSUME ObjectTypeOK, CacheInvariants, Coherent, offset \in Offset, extendFlushed
    PROVE  /\ UNCHANGED root
           /\ updates' \in Seq(Update)
           /\ flushMask' = flushMask \ {offset}
           /\ Undisturbed =>
                \A i \in Offset : listed(i)' = IF i = offset THEN ByteValue(i) ELSE listed(i)
<1>1. updates \in Seq(Update) BY Zenon DEF ObjectTypeOK
<1>2. CASE isByteFlushed(offset)
  <2>1. UNCHANGED list BY Zenon, <1>2 DEF extendFlushed, list
  <2>2. \A i \in Offset : listed(i)' = listed(i) BY Zenon, <2>1, ListStays
  <2>3. Undisturbed => listed(offset) = ByteValue(offset) BY Zenon, <1>2 DEF Coherent, FlushedAgree
  <2> QED BY Zenon, <1>1, <2>1, <2>2, <2>3 DEF extendFlushed, list
<1>3. CASE ~isByteFlushed(offset)
  <2>1. updates' = Append(updates, flushed(offset)) /\ UNCHANGED root
    BY Zenon, <1>3 DEF extendFlushed
  <2>2. isByteConcrete(offset) \/ isByteKnownSymbolic(offset)
    BY Zenon, <1>3 DEF CacheInvariants
  <2>3. /\ flushed(offset).index = offset
        /\ flushed(offset).value = ByteValue(offset)
        /\ flushed(offset).kind \in Kind
        /\ flushed(offset) = [index |-> flushed(offset).index, value |-> flushed(offset).value,
                              kind |-> flushed(offset).kind]
    BY Zenon, <2>2 DEF flushed, ByteValue, Kind
  <2>4. ByteValue(offset) \in Byte BY Zenon, ByteTypes
  <2>5. flushed(offset) \in Update BY Zenon, <2>3, <2>4 DEF Update
  <2>6. updates' \in Seq(Update) BY <1>1, <2>1, <2>5
  <2>7. ASSUME NEW i \in Offset
        PROVE  listed(i)' = IF i = offset THEN ByteValue(i) ELSE listed(i)
    <3>1. Base(i)' = Base(i) BY Zenon, <2>1 DEF Base
    <3>2. listed(i)' = IF flushed(offset).index = i THEN flushed(offset).value
                       ELSE Applied(updates, Len(updates), i, Base(i))
      BY <1>1, <2>1, <2>5, <3>1, AppliedAppend DEF listed
    <3> QED BY Zenon, <3>2, <2>3 DEF listed
  <2> QED BY Zenon, <2>1, <2>6, <2>7 DEF extendFlushed
<1> QED BY Zenon, <1>2, <1>3

\* A write of a concrete byte at a constant offset.
LEMMA Write8Step ==
    ASSUME ObjectInv, NEW i \in Offset, NEW v \in Byte, write8(i, v)
    PROVE  /\ ObjectInv' /\ UNCHANGED result
           /\ \A j \in Offset : ByteValue(j)' = IF j = i THEN v ELSE ByteValue(j)
<1> USE DEF ObjectInv, write8
<1>1. \A j \in Offset : listed(j)' = listed(j) BY Zenon, ListStays
<1>2. ObjectTypeOK' BY DEF ObjectTypeOK, list
<1>3. CacheInvariants'
  BY Zenon DEF ObjectTypeOK, CacheInvariants, isByteConcrete, isByteKnownSymbolic, isByteFlushed
<1>4. \A j \in Offset : ByteValue(j)' = IF j = i THEN v ELSE ByteValue(j)
  BY Zenon, <1>1 DEF ObjectTypeOK, ByteValue, isByteConcrete, isByteKnownSymbolic
<1>5. Coherent' BY Zenon, <1>1, <1>4 DEF ObjectTypeOK, Coherent, FlushedAgree, Undisturbed, isByteFlushed
<1>6. FlushedBelow' BY Zenon DEF FlushedBelow, Idle, NoAccess
<1> QED BY Zenon, <1>2, <1>3, <1>4, <1>5, <1>6

\* A write of a symbolic byte at a constant offset.
LEMMA Write8ExprStep ==
    ASSUME ObjectInv, NEW i \in Offset, NEW v \in Byte, write8Expr(i, v)
    PROVE  /\ ObjectInv' /\ UNCHANGED result
           /\ \A j \in Offset : ByteValue(j)' = IF j = i THEN v ELSE ByteValue(j)
<1> USE DEF ObjectInv, write8Expr
<1>0. v # Null BY Zenon, ByteAssumption
<1>1. \A j \in Offset : listed(j)' = listed(j) BY Zenon, ListStays
<1>2. ObjectTypeOK' BY DEF ObjectTypeOK, list
<1>3. CacheInvariants'
  BY Zenon, <1>0 DEF ObjectTypeOK, CacheInvariants, isByteConcrete, isByteKnownSymbolic, isByteFlushed
<1>4. \A j \in Offset : ByteValue(j)' = IF j = i THEN v ELSE ByteValue(j)
  BY Zenon, <1>0, <1>1 DEF ObjectTypeOK, ByteValue, isByteConcrete, isByteKnownSymbolic
<1>5. Coherent' BY Zenon, <1>1, <1>4 DEF ObjectTypeOK, Coherent, FlushedAgree, Undisturbed, isByteFlushed
<1>6. FlushedBelow' BY Zenon DEF FlushedBelow, Idle, NoAccess
<1> QED BY Zenon, <1>2, <1>3, <1>4, <1>5, <1>6

\* What an external function wrote is a byte of the object, or was over a symbolic one.
LEMMA CopyInStep ==
    ASSUME ObjectInv, NEW i \in Offset, NEW v \in Byte, copyInConcretes(i, v)
    PROVE  /\ ObjectInv' /\ UNCHANGED result
           /\ \A j \in Offset :
                 ByteValue(j)' = IF j = i /\ isByteConcrete(i) THEN v ELSE ByteValue(j)
<1> USE DEF ObjectInv, copyInConcretes
<1>1. \A j \in Offset : listed(j)' = listed(j) BY Zenon, ListStays
<1>2. ObjectTypeOK' BY DEF ObjectTypeOK, list
<1>3. CacheInvariants'
  BY Zenon DEF ObjectTypeOK, CacheInvariants, isByteConcrete, isByteKnownSymbolic, isByteFlushed
<1>4. \A j \in Offset : ByteValue(j)' = IF j = i /\ isByteConcrete(i) THEN v ELSE ByteValue(j)
  BY Zenon, <1>1 DEF ObjectTypeOK, ByteValue, isByteConcrete, isByteKnownSymbolic
<1>5. ASSUME Undisturbed, NEW j \in Offset, isByteFlushed(j)' PROVE listed(j)' = ByteValue(j)'
  <2>1. isByteFlushed(j) BY Zenon, <1>5 DEF isByteFlushed
  <2>2. j = i => ~isByteConcrete(i) BY Zenon, <1>5, <2>1 DEF Undisturbed
  <2> QED BY Zenon, <1>1, <1>4, <1>5, <2>1, <2>2 DEF Coherent, FlushedAgree
<1>6. Coherent' BY Zenon, <1>5 DEF Coherent, FlushedAgree, Undisturbed
<1>7. FlushedBelow' BY Zenon DEF FlushedBelow, Idle, NoAccess
<1> QED BY Zenon, <1>2, <1>3, <1>4, <1>6, <1>7

\* A step that changes neither the caches nor what the list holds changes no byte.
LEMMA BytesStay ==
    ASSUME ObjectInv, UNCHANGED caches, \A i \in Offset : listed(i)' = listed(i)
    PROVE  /\ CacheInvariants' /\ Coherent'
           /\ \A i \in Offset : ByteValue(i)' = ByteValue(i)
<1>1. \A i \in Offset : ByteValue(i)' = ByteValue(i)
  BY Zenon DEF caches, ByteValue, isByteConcrete, isByteKnownSymbolic
<1>2. CacheInvariants'
  BY Zenon DEF ObjectInv, caches, CacheInvariants, isByteConcrete, isByteKnownSymbolic, isByteFlushed
<1>3. Coherent'
  BY Zenon, <1>1 DEF ObjectInv, caches, Coherent, FlushedAgree, Undisturbed, isByteFlushed
<1> QED BY Zenon, <1>1, <1>2, <1>3

\* A read at a constant offset.
LEMMA Read8Step ==
    ASSUME ObjectInv, NEW i \in Offset, read8(i)
    PROVE  /\ ObjectInv' /\ result' = ByteValue(i)
           /\ \A j \in Offset : ByteValue(j)' = ByteValue(j)
<1>1. ObjectTypeOK /\ Idle /\ UNCHANGED <<caches, access, offset, writes>> BY Zenon DEF ObjectInv, read8
<1>2. /\ result' = ByteValue(i)
      /\ root' = Null \/ root' \in [Offset -> Byte]
      /\ updates' \in Seq(Update)
      /\ \A j \in Offset : listed(j)' = listed(j)
  <2>1. CASE isByteConcrete(i)
    <3>1. result' = ByteValue(i) /\ UNCHANGED list BY Zenon, <2>1 DEF read8, ByteValue
    <3>2. \A j \in Offset : listed(j)' = listed(j) BY Zenon, <3>1, ListStays
    <3> QED BY Zenon, <1>1, <3>1, <3>2 DEF list, ObjectTypeOK
  <2>2. CASE ~isByteConcrete(i) /\ isByteKnownSymbolic(i)
    <3>1. result' = ByteValue(i) /\ UNCHANGED list BY Zenon, <2>2 DEF read8, ByteValue
    <3>2. \A j \in Offset : listed(j)' = listed(j) BY Zenon, <3>1, ListStays
    <3> QED BY Zenon, <1>1, <3>1, <3>2 DEF list, ObjectTypeOK
  <2>3. CASE ~isByteConcrete(i) /\ ~isByteKnownSymbolic(i)
    <3>1. result' = ByteValue(i) /\ getUpdates BY Zenon, <2>3 DEF read8, ByteValue
    <3> QED BY Zenon, <1>1, <3>1, GetUpdatesStep
  <2> QED BY Zenon, <2>1, <2>2, <2>3
<1>3. result' \in Byte BY Zenon, <1>1, <1>2, ByteTypes
<1>4. ObjectTypeOK' BY Zenon, <1>1, <1>2, <1>3 DEF ObjectTypeOK, caches
<1>5. CacheInvariants' /\ Coherent' /\ \A j \in Offset : ByteValue(j)' = ByteValue(j)
  BY Zenon, <1>1, <1>2, BytesStay
<1>6. FlushedBelow' BY Zenon, <1>1 DEF FlushedBelow, Idle, NoAccess
<1> QED BY Zenon, <1>2, <1>4, <1>5, <1>6 DEF ObjectInv

\* The start of an access at a symbolic offset.
LEMMA StartStep ==
    ASSUME ObjectInv, NEW i \in Offset, NEW v \in Byte, read8At(i) \/ write8At(i, v)
    PROVE  /\ ObjectInv' /\ UNCHANGED result
           /\ \A j \in Offset : ByteValue(j)' = ByteValue(j)
<1>1. UNCHANGED <<caches, list, result>> /\ offset' = 0 /\ writes' \in Nat
  BY DEF ObjectInv, ObjectTypeOK, read8At, write8At
<1>2. /\ access' \in [name : {"none", "read", "write"}, index : Offset \cup {0}, value : Byte]
      /\ access'.index \in Offset
  BY ByteAssumption DEF read8At, write8At
<1>3. \A j \in Offset : listed(j)' = listed(j) BY Zenon, <1>1, ListStays
<1>4. ObjectTypeOK' BY <1>1, <1>2, SizeAssumption DEF ObjectInv, ObjectTypeOK, caches, list
<1>5. CacheInvariants' /\ Coherent' /\ \A j \in Offset : ByteValue(j)' = ByteValue(j)
  BY Zenon, <1>1, <1>3, BytesStay
<1>6. FlushedBelow' BY <1>1, <1>2 DEF FlushedBelow, Offset
<1> QED BY Zenon, <1>1, <1>4, <1>5, <1>6 DEF ObjectInv

\* A turn of the flush loop before a read.
LEMMA FlushForReadStep ==
    ASSUME ObjectInv, flushRangeForRead
    PROVE  /\ ObjectInv' /\ UNCHANGED result
           /\ Undisturbed => \A j \in Offset : ByteValue(j)' = ByteValue(j)
<1>1. /\ access.name = "read" /\ offset' = offset + 1 /\ extendFlushed
      /\ UNCHANGED <<concreteStore, concreteMask, knownSymbolics, access, result, writes>>
      /\ ObjectTypeOK /\ CacheInvariants /\ Coherent /\ FlushedBelow
  BY Zenon DEF ObjectInv, flushRangeForRead
<1>2. offset \in Offset /\ offset + 1 \in 0..Size
  BY SizeAssumption DEF ObjectInv, ObjectTypeOK, flushRangeForRead, Offset
<1>3. /\ UNCHANGED root
      /\ updates' \in Seq(Update)
      /\ flushMask' = flushMask \ {offset}
      /\ Undisturbed =>
           \A i \in Offset : listed(i)' = IF i = offset THEN ByteValue(i) ELSE listed(i)
  BY Zenon, <1>1, <1>2, ExtendFlushedStep
<1>4. ObjectTypeOK' BY Zenon, <1>1, <1>2, <1>3 DEF ObjectTypeOK
<1>5. Undisturbed => \A j \in Offset : ByteValue(j)' = ByteValue(j)
  BY Zenon, <1>1, <1>3 DEF ByteValue, isByteConcrete, isByteKnownSymbolic
<1>6. CacheInvariants'
  BY Zenon, <1>1, <1>3 DEF CacheInvariants, isByteConcrete, isByteKnownSymbolic, isByteFlushed
<1>7. Coherent'
  <2>1. ASSUME Undisturbed, NEW i \in Offset, isByteFlushed(i)' PROVE listed(i)' = ByteValue(i)'
    <3>1. i = offset \/ isByteFlushed(i) BY Zenon, <1>3, <2>1 DEF isByteFlushed
    <3> QED BY Zenon, <1>1, <1>3, <1>5, <2>1, <3>1 DEF Coherent, FlushedAgree
  <2> QED BY Zenon, <2>1 DEF Coherent, FlushedAgree, Undisturbed
<1>8. FlushedBelow'
  BY <1>1, <1>2, <1>3 DEF FlushedBelow, isByteFlushed, Offset, ObjectTypeOK
<1> QED BY Zenon, <1>1, <1>4, <1>5, <1>6, <1>7, <1>8 DEF ObjectInv

\* A turn of the flush loop before a write.
LEMMA FlushForWriteStep ==
    ASSUME ObjectInv, flushRangeForWrite
    PROVE  /\ ObjectInv' /\ UNCHANGED result
           /\ Undisturbed => \A j \in Offset : ByteValue(j)' = ByteValue(j)
<1>1. /\ access.name = "write" /\ offset' = offset + 1 /\ extendFlushed
      /\ concreteMask' = concreteMask \ {offset}
      /\ knownSymbolics' = IF isByteConcrete(offset) THEN knownSymbolics
                           ELSE [knownSymbolics EXCEPT ![offset] = Null]
      /\ UNCHANGED <<concreteStore, access, result, writes>>
      /\ ObjectTypeOK /\ CacheInvariants /\ Coherent /\ FlushedBelow
  BY Zenon DEF ObjectInv, flushRangeForWrite
<1>2. offset \in Offset /\ offset + 1 \in 0..Size
  BY SizeAssumption DEF ObjectInv, ObjectTypeOK, flushRangeForWrite, Offset
<1>3. /\ UNCHANGED root
      /\ updates' \in Seq(Update)
      /\ flushMask' = flushMask \ {offset}
      /\ Undisturbed =>
           \A i \in Offset : listed(i)' = IF i = offset THEN ByteValue(i) ELSE listed(i)
  BY Zenon, <1>1, <1>2, ExtendFlushedStep
<1>4. ObjectTypeOK' BY Zenon, <1>1, <1>2, <1>3 DEF ObjectTypeOK
<1>5. /\ knownSymbolics'[offset] = Null
      /\ \A j \in Offset \ {offset} : knownSymbolics'[j] = knownSymbolics[j]
  BY Zenon, <1>1, <1>2 DEF ObjectTypeOK, CacheInvariants, isByteConcrete, isByteKnownSymbolic
<1>6. ASSUME Undisturbed, NEW j \in Offset PROVE ByteValue(j)' = ByteValue(j)
  <2>1. CASE j = offset
    <3>1. ByteValue(j)' = listed(j)'
      BY Zenon, <1>1, <1>5, <2>1 DEF ByteValue, isByteConcrete, isByteKnownSymbolic
    <3> QED BY Zenon, <1>3, <1>6, <2>1, <3>1
  <2>2. CASE j # offset
    BY Zenon, <1>1, <1>3, <1>5, <1>6, <2>2 DEF ByteValue, isByteConcrete, isByteKnownSymbolic
  <2> QED BY Zenon, <2>1, <2>2
<1>7. CacheInvariants'
  BY Zenon, <1>1, <1>3, <1>5 DEF CacheInvariants, isByteConcrete, isByteKnownSymbolic, isByteFlushed
<1>8. Coherent'
  <2>1. ASSUME Undisturbed, NEW i \in Offset, isByteFlushed(i)' PROVE listed(i)' = ByteValue(i)'
    <3>1. i = offset \/ isByteFlushed(i) BY Zenon, <1>3, <2>1 DEF isByteFlushed
    <3> QED BY Zenon, <1>1, <1>3, <1>6, <2>1, <3>1 DEF Coherent, FlushedAgree
  <2> QED BY Zenon, <2>1 DEF Coherent, FlushedAgree, Undisturbed
<1>9. FlushedBelow'
  BY <1>1, <1>2, <1>3, <1>5
  DEF FlushedBelow, isByteFlushed, isByteConcrete, isByteKnownSymbolic, Offset, ObjectTypeOK
<1> QED BY Zenon, <1>1, <1>4, <1>6, <1>7, <1>8, <1>9 DEF ObjectInv

\* The end of a read at a symbolic offset: it sees every cached byte.
LEMMA FinishReadStep ==
    ASSUME ObjectInv, finishRead
    PROVE  /\ ObjectInv' /\ access.index \in Offset
           /\ Undisturbed => result' = ByteValue(access.index)
           /\ \A j \in Offset : ByteValue(j)' = ByteValue(j)
<1>1. /\ access.name = "read" /\ offset = Size /\ getUpdates
      /\ result' = listed(access.index) /\ access' = NoAccess
      /\ UNCHANGED <<caches, offset, writes>>
      /\ ObjectTypeOK /\ Coherent /\ FlushedBelow
  BY Zenon DEF ObjectInv, finishRead
<1>2. access.index \in Offset BY Zenon, <1>1 DEF FlushedBelow
<1>3. isByteFlushed(access.index)
  <2>1. \A i \in Offset : i < offset BY <1>1, SizeAssumption DEF Offset
  <2>2. access.name # "none" BY Zenon, <1>1
  <2>3. \A i \in Offset : i < offset => isByteFlushed(i) BY Zenon, <1>1, <2>2 DEF FlushedBelow
  <2> QED BY Zenon, <1>2, <2>1, <2>3
<1>4. Undisturbed => result' = ByteValue(access.index)
  BY Zenon, <1>1, <1>2, <1>3 DEF Coherent, FlushedAgree
<1>5. /\ root' = Null \/ root' \in [Offset -> Byte]
      /\ updates' \in Seq(Update)
      /\ \A j \in Offset : listed(j)' = listed(j)
  BY Zenon, <1>1, GetUpdatesStep
<1>6. result' \in Byte BY Zenon, <1>1, <1>2, ByteTypes
<1>7. ObjectTypeOK' BY Zenon, <1>1, <1>5, <1>6, ByteAssumption DEF ObjectTypeOK, caches, NoAccess
<1>8. CacheInvariants' /\ Coherent' /\ \A j \in Offset : ByteValue(j)' = ByteValue(j)
  BY Zenon, <1>1, <1>5, BytesStay
<1>9. FlushedBelow' BY Zenon, <1>1 DEF FlushedBelow, NoAccess
<1> QED BY Zenon, <1>2, <1>4, <1>7, <1>8, <1>9 DEF ObjectInv

\* The end of a write at a symbolic offset: no cache hides it.
LEMMA FinishWriteStep ==
    ASSUME ObjectInv, finishWrite
    PROVE  /\ ObjectInv' /\ UNCHANGED result
           /\ access.index \in Offset /\ access.value \in Byte
           /\ \A j \in Offset :
                 ByteValue(j)' = IF j = access.index THEN access.value ELSE ByteValue(j)
<1> DEFINE w == [index |-> access.index, value |-> access.value, kind |-> "symbolic"]
<1>1. /\ access.name = "write" /\ offset = Size
      /\ updates' = Append(updates, w) /\ access' = NoAccess
      /\ UNCHANGED <<caches, root, offset, result, writes>>
      /\ ObjectTypeOK /\ CacheInvariants /\ Coherent /\ FlushedBelow
  BY Zenon DEF ObjectInv, finishWrite
<1>2. access.index \in Offset /\ access.value \in Byte BY Zenon, <1>1 DEF FlushedBelow, ObjectTypeOK
<1>3. w \in Update /\ w.index = access.index /\ w.value = access.value
  BY Zenon, <1>2 DEF Update, Kind
<1> HIDE DEF w
<1>4. updates \in Seq(Update) /\ updates' \in Seq(Update) BY <1>1, <1>3 DEF ObjectTypeOK
<1>5. \A j \in Offset : listed(j)' = IF j = access.index THEN access.value ELSE listed(j)
  <2> TAKE j \in Offset
  <2>1. Base(j)' = Base(j) BY Zenon, <1>1 DEF Base
  <2>2. listed(j)' = IF w.index = j THEN w.value ELSE Applied(updates, Len(updates), j, Base(j))
    BY <1>1, <1>3, <1>4, <2>1, AppliedAppend DEF listed
  <2> QED BY Zenon, <1>3, <2>2 DEF listed
<1>6. \A j \in Offset : ~isByteConcrete(j) /\ ~isByteKnownSymbolic(j) /\ isByteFlushed(j)
  <2>1. \A j \in Offset : j < offset BY <1>1, SizeAssumption DEF Offset
  <2>2. access.name # "none" BY Zenon, <1>1
  <2> QED BY Zenon, <1>1, <2>1, <2>2 DEF FlushedBelow
<1>7. \A j \in Offset :
         ~isByteConcrete(j)' /\ ~isByteKnownSymbolic(j)' /\ isByteFlushed(j)'
  BY Zenon, <1>1, <1>6 DEF caches, isByteConcrete, isByteKnownSymbolic, isByteFlushed
<1>8. \A j \in Offset : ByteValue(j) = listed(j) /\ ByteValue(j)' = listed(j)'
  BY Zenon, <1>6, <1>7 DEF ByteValue
<1>9. ObjectTypeOK' BY Zenon, <1>1, <1>4, ByteAssumption DEF ObjectTypeOK, caches, NoAccess
<1>10. CacheInvariants' BY Zenon, <1>7 DEF CacheInvariants
<1>11. Coherent' BY Zenon, <1>8 DEF Coherent, FlushedAgree
<1>12. FlushedBelow' BY Zenon, <1>1 DEF FlushedBelow, NoAccess
<1> QED BY <1>1, <1>2, <1>5, <1>8, <1>9, <1>10, <1>11, <1>12 DEF ObjectInv

-----------------------------------------------------------------------------
(* The theorems *)

\* A new object satisfies the invariant.
LEMMA ObjectInitInv == ObjectInit => ObjectInv
<1> SUFFICES ASSUME ObjectInit PROVE ObjectInv BY Zenon
<1>1. updates \in Seq(Update) BY DEF ObjectInit
<1>2. root = Null \/ root \in [Offset -> Byte] BY Zenon DEF ObjectInit
<1>3. ObjectTypeOK BY <1>1, <1>2, ByteAssumption, SizeAssumption DEF ObjectInit, ObjectTypeOK, NoAccess
<1>4. CacheInvariants
  BY Zenon DEF ObjectInit, CacheInvariants, isByteConcrete, isByteKnownSymbolic, isByteFlushed
<1>5. Coherent
  BY Zenon DEF ObjectInit, Coherent, FlushedAgree, ByteValue, isByteConcrete, isByteKnownSymbolic, isByteFlushed
<1>6. FlushedBelow BY Zenon DEF ObjectInit, FlushedBelow, NoAccess
<1> QED BY Zenon, <1>3, <1>4, <1>5, <1>6 DEF ObjectInv

Contents == [i \in Offset |-> ByteValue(i)]

\* A step keeps the invariant, and is a step of the array or leaves it as it is.
LEMMA NextStep ==
    ASSUME ObjectInv, [ObjectNext]_objectVars
    PROVE  ObjectInv' /\ (Undisturbed => [Bytes!Next]_<<Contents, result>>)
<1>1. ASSUME NEW i \in Offset, result' = ByteValue(i),
             \A j \in Offset : ByteValue(j)' = ByteValue(j)
      PROVE  Bytes!Next
  <2>1. Contents' = Contents BY Zenon, <1>1 DEF Contents
  <2>2. Bytes!Read(i) BY Zenon, <1>1, <2>1 DEF Bytes!Read, Contents
  <2> QED BY Zenon, <2>2 DEF Bytes!Next, Bytes!Offset, Offset
<1>2. ASSUME NEW i \in Offset, NEW v \in Byte, UNCHANGED result,
             \A j \in Offset : ByteValue(j)' = IF j = i THEN v ELSE ByteValue(j)
      PROVE  Bytes!Next
  <2>1. Contents' = [Contents EXCEPT ![i] = v] BY Zenon, <1>2 DEF Contents
  <2>2. Bytes!Write(i, v) BY Zenon, <1>2, <2>1 DEF Bytes!Write, Contents
  <2> QED BY Zenon, <2>2 DEF Bytes!Next, Bytes!Offset, Offset
<1>3. ASSUME UNCHANGED result, \A j \in Offset : ByteValue(j)' = ByteValue(j)
      PROVE  UNCHANGED <<Contents, result>>
  BY Zenon, <1>3 DEF Contents
<1>4. ASSUME NEW i \in Offset, read8(i) PROVE ObjectInv' /\ Bytes!Next
  BY Zenon, <1>4, <1>1, Read8Step
<1>5. ASSUME NEW i \in Offset, NEW v \in Byte, write8(i, v) PROVE ObjectInv' /\ Bytes!Next
  BY Zenon, <1>5, <1>2, Write8Step
<1>6. ASSUME NEW i \in Offset, NEW v \in Byte, write8Expr(i, v) PROVE ObjectInv' /\ Bytes!Next
  BY Zenon, <1>6, <1>2, Write8ExprStep
<1>7. ASSUME NEW i \in Offset, NEW v \in Byte, read8At(i) \/ write8At(i, v)
      PROVE  ObjectInv' /\ UNCHANGED <<Contents, result>>
  BY Zenon, <1>7, <1>3, StartStep
<1>8. ASSUME flushRangeForRead PROVE ObjectInv' /\ (Undisturbed => UNCHANGED <<Contents, result>>)
  BY Zenon, <1>8, <1>3, FlushForReadStep
<1>9. ASSUME flushRangeForWrite PROVE ObjectInv' /\ (Undisturbed => UNCHANGED <<Contents, result>>)
  BY Zenon, <1>9, <1>3, FlushForWriteStep
<1>10. ASSUME finishRead PROVE ObjectInv' /\ (Undisturbed => Bytes!Next)
  BY Zenon, <1>10, <1>1, FinishReadStep
<1>11. ASSUME finishWrite PROVE ObjectInv' /\ Bytes!Next
  BY Zenon, <1>11, <1>2, FinishWriteStep
<1>14. ASSUME NEW i \in Offset, NEW v \in Byte, copyInConcretes(i, v)
       PROVE  ObjectInv' /\ [Bytes!Next]_<<Contents, result>>
  <2>1. /\ ObjectInv' /\ UNCHANGED result
        /\ \A j \in Offset :
              ByteValue(j)' = IF j = i /\ isByteConcrete(i) THEN v ELSE ByteValue(j)
    BY Zenon, <1>14, CopyInStep
  <2>2. CASE isByteConcrete(i)
    <3>1. Bytes!Next BY Zenon, <2>1, <2>2, <1>2
    <3> QED BY Zenon, <2>1, <3>1
  <2>3. CASE ~isByteConcrete(i)
    <3>1. UNCHANGED <<Contents, result>> BY Zenon, <2>1, <2>3, <1>3
    <3> QED BY Zenon, <2>1, <3>1
  <2> QED BY Zenon, <2>2, <2>3
<1>12. ASSUME UNCHANGED objectVars PROVE ObjectInv' /\ UNCHANGED <<Contents, result>>
  <2>1. UNCHANGED <<caches, list, access, offset, result, writes>> BY Zenon, <1>12 DEF objectVars
  <2>2. \A j \in Offset : listed(j)' = listed(j) BY Zenon, <2>1, ListStays
  <2>3. CacheInvariants' /\ Coherent' /\ \A j \in Offset : ByteValue(j)' = ByteValue(j)
    BY Zenon, <2>1, <2>2, BytesStay
  <2>4. ObjectTypeOK' BY Zenon, <2>1 DEF ObjectInv, ObjectTypeOK, caches, list
  <2>5. FlushedBelow'
    BY Zenon, <2>1 DEF ObjectInv, FlushedBelow, caches, isByteFlushed, isByteConcrete, isByteKnownSymbolic
  <2> QED BY <2>1, <2>3, <2>4, <2>5, <1>3 DEF ObjectInv
<1>13. CASE ObjectNext
  <2>1. CASE \E i \in Offset : read8(i) BY Zenon, <2>1, <1>4
  <2>2. CASE \E i \in Offset : read8At(i) BY Zenon, <2>2, <1>7, ByteAssumption
  <2>3. CASE \E i \in Offset, v \in Byte : write8(i, v) \/ write8Expr(i, v) \/ write8At(i, v)
    BY <2>3, <1>5, <1>6, <1>7
  <2>4. CASE \E i \in Offset, v \in Byte : copyInConcretes(i, v) BY Zenon, <2>4, <1>14
  <2> QED BY <1>13, <2>1, <2>2, <2>3, <2>4, <1>8, <1>9, <1>10, <1>11 DEF ObjectNext
<1> QED BY Zenon, <1>12, <1>13

\* Every reachable state of an ObjectState satisfies the invariant.
THEOREM ObjectInvariance == ObjectSpec => []ObjectInv
<1>1. ObjectInv /\ [ObjectNext]_objectVars => ObjectInv' BY Zenon, NextStep
<1> QED BY ObjectInitInv, <1>1, PTL DEF ObjectSpec

\* The cache invariants that the comment in Memory.cpp lists always hold, so that
\* the assertions of read8 and of the flush loops never fail.
THEOREM CachesAgree == ObjectSpec => []CachesConsistent
<1>1. ObjectInv => CachesConsistent BY Zenon DEF ObjectInv, CachesConsistent
<1> QED BY ObjectInvariance, <1>1, PTL

\* Under every assignment an ObjectState of any size is an array of bytes: every
\* read, at a constant or at a symbolic offset, returns the byte written last, by the
\* program or by an external function, provided that external functions leave the
\* concrete bytes alone that a read at a symbolic offset has flushed
\* (AddressSpace::copyInConcretes does not mark them).
THEOREM ImplementsByteArray ==
    ASSUME ExternalsWriteFlushed = FALSE
    PROVE  ObjectSpec => IsByteArray
<1>1. ObjectInit => Bytes!Init
  <2> SUFFICES ASSUME ObjectInit PROVE Bytes!Init BY Zenon
  <2>1. ObjectInv BY Zenon, ObjectInitInv
  <2>2. \A i \in Offset : ByteValue(i) \in Byte BY Zenon, <2>1, ByteTypes DEF ObjectInv
  <2> QED BY Zenon, <2>2 DEF ObjectInit, Bytes!Init, Bytes!Offset, Offset
<1>2. ObjectInv /\ [ObjectNext]_objectVars => [Bytes!Next]_<<[i \in Offset |-> ByteValue(i)], result>>
  BY Zenon, NextStep DEF Contents, Undisturbed
<1> QED BY <1>1, <1>2, ObjectInvariance, PTL DEF ObjectSpec, IsByteArray, Bytes!Spec

=============================================================================

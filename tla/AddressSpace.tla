---------------------------- MODULE AddressSpace ----------------------------
(***************************************************************************)
(* Copy-on-write sharing of object contents between execution states.      *)
(*                                                                         *)
(* An AddressSpace maps the MemoryObjects bound in a state to ObjectStates *)
(* (here: cells), which forked states share.  Every space has a key, every *)
(* cell an owner, and a space may write a cell in place only if the cell's *)
(* owner is its own key.  A fork gives both sides the same new key, which  *)
(* no cell has yet.  Keys are compared for equality between spaces that    *)
(* may well have the same key.                                             *)
(*                                                                         *)
(* The contents of a cell are one value: what the bytes evaluate to under  *)
(* one fixed assignment of the symbolic inputs.                            *)
(***************************************************************************)
EXTENDS Integers, FiniteSets, Functions

CONSTANTS
    Space,    \* addresses of ExecutionStates
    Object,   \* MemoryObjects
    Cell,     \* addresses of ObjectStates
    Value,
    ReadOnly, \* the objects that are read-only: external tables
    MaxKey    \* bound: the greatest key

ASSUME KeyAssumption == MaxKey \in Nat \ {0}
ASSUME ReadOnlyAssumption == ReadOnly \subseteq Object

VARIABLES
    cowKey,  \* [live spaces -> key]
    objects, \* [live spaces -> [bound objects -> Cell]]
    copyOnWriteOwner, contents \* [Cell -> ...]

vars == <<cowKey, objects, copyOnWriteOwner, contents>>

live == DOMAIN objects
Bound(s) == DOMAIN objects[s]
Allocated == {c \in Cell : \E s \in live : \E o \in Bound(s) : objects[s][o] = c}

\* What a state reads.
memory == [s \in live |-> [o \in Bound(s) |-> contents[objects[s][o]]]]

-----------------------------------------------------------------------------

\* Mutant: only the copy gets a new key.
keyAfterBranchOld(s) == cowKey[s]

\* Both sides of a fork get the key that follows.
keyAfterBranch(s) == cowKey[s] + 1

\* The copy constructor: cowKey(++b.cowKey), objects(b.objects).
branch(s, f) ==
    /\ s \in live /\ f \in Space \ live
    /\ cowKey[s] < MaxKey
    /\ cowKey' = [t \in live \cup {f} |->
            IF t = f THEN cowKey[s] + 1 ELSE IF t = s THEN keyAfterBranch(s) ELSE cowKey[t]]
    /\ objects' = [t \in live \cup {f} |-> IF t = f THEN objects[s] ELSE objects[t]]
    /\ UNCHANGED <<copyOnWriteOwner, contents>>

\* The cells in map objects[s] are replaced by the map m, whose cells in N are
\* new, and belong to s, and whose objects in K have the new contents v.
rebind(s, m, N, K, v) ==
    /\ objects' = [objects EXCEPT ![s] = m]
    /\ copyOnWriteOwner' = [c \in Cell |-> IF c \in N THEN cowKey[s]
                                                      ELSE copyOnWriteOwner[c]]
    /\ contents' = [c \in Cell |->
            IF \E o \in K : m[o] = c THEN v[CHOOSE o \in K : m[o] = c] ELSE contents[c]]
    /\ UNCHANGED cowKey

\* bindObjectInState: allocations, and objects that become symbolic, for which
\* the old binding is replaced.
bindObject(s, o, v) ==
    /\ s \in live /\ o \in Object \ ReadOnly
    /\ \E c \in Cell \ Allocated :
         rebind(s, [p \in Bound(s) \cup {o} |-> IF p = o THEN c ELSE objects[s][p]],
                {c}, {o}, [p \in {o} |-> v])

\* free, which refuses global objects, and the local objects of a frame.
unbindObject(s, O) ==
    /\ s \in live
    /\ objects' = [objects EXCEPT ![s] = [p \in Bound(s) \ O |-> objects[s][p]]]
    /\ UNCHANGED <<cowKey, copyOnWriteOwner, contents>>

Owned(s, o) == copyOnWriteOwner[objects[s][o]] = cowKey[s]

\* Mutant: the copy is bound, but the old cell is handed out and written.
getWriteableOld(s, K, v) ==
    \E n \in [{o \in K : ~Owned(s, o)} -> Cell \ Allocated] :
      /\ IsInjective(n)
      /\ objects' = [objects EXCEPT ![s] =
                [p \in Bound(s) |-> IF p \in DOMAIN n THEN n[p] ELSE objects[s][p]]]
      /\ copyOnWriteOwner' = [c \in Cell |-> IF c \in Range(n) THEN cowKey[s]
                                                               ELSE copyOnWriteOwner[c]]
      /\ contents' = [c \in Cell |->
                IF \E o \in K : objects[s][o] = c
                THEN v[CHOOSE o \in K : objects[s][o] = c] ELSE contents[c]]
      /\ UNCHANGED cowKey

\* getWriteable for each object of K, then the write: the cells that s does
\* not own are copied to new ones.
getWriteable(s, K, v) ==
    \E n \in [{o \in K : ~Owned(s, o)} -> Cell \ Allocated] :
      /\ IsInjective(n)
      /\ rebind(s, [p \in Bound(s) |-> IF p \in DOMAIN n THEN n[p] ELSE objects[s][p]],
                Range(n), K, v)

\* A store; the read-only objects were turned away.
write(s, o, v) ==
    /\ s \in live /\ o \in Bound(s) \ ReadOnly
    /\ getWriteable(s, {o}, [p \in {o} |-> v])

\* An external call: copyOutConcretes, the call, which leaves m in memory, and
\* copyInConcretes for the objects that differ.  A modified read-only object
\* stops the copy after some of the others, and the state with it.
callExternalFunction(s, m) ==
    LET differ == {o \in Bound(s) : m[o] # contents[objects[s][o]]}
    IN  /\ s \in live
        /\ \/ differ \cap ReadOnly = {} /\ getWriteable(s, differ, m)
           \/ /\ differ \cap ReadOnly # {}
              /\ \E K \in SUBSET (differ \ ReadOnly) : getWriteable(s, K, m)

\* Mutant: only the objects that a has a copy of are merged.
mutatedOwn(a, b) == {o \in Bound(a) : Owned(a, o)}

\* The objects whose cells differ.
mutated(a, b) == {o \in Bound(a) : objects[a][o] # objects[b][o]}

\* ExecutionState::merge(b): both must have the same objects; the ones that
\* differ become Select(inA, a's, b's).  side tells on which of the two paths
\* the assignment is.
merge(a, b, side) ==
    /\ a \in live /\ b \in live \ {a}
    /\ Bound(a) = Bound(b)
    /\ getWriteable(a, mutated(a, b), [o \in Bound(a) |-> contents[objects[side][o]]])

\* The state is deleted and with it the bindings.
terminate(s) ==
    /\ s \in live
    /\ objects' = [t \in live \ {s} |-> objects[t]]
    /\ cowKey' = [t \in live \ {s} |-> cowKey[t]]
    /\ UNCHANGED <<copyOnWriteOwner, contents>>

\* The external objects are bound before the program starts.
Init ==
    /\ \E s \in Space :
         /\ cowKey = [t \in {s} |-> 1]
         /\ \E m \in [ReadOnly -> Cell] : IsInjective(m) /\ objects = [t \in {s} |-> m]
    /\ copyOnWriteOwner = [c \in Cell |-> 1]
    /\ contents \in [Cell -> Value]

Next ==
    \E s \in live :
      \/ \E f \in Space \ live : branch(s, f)
      \/ \E o \in Object, v \in Value : bindObject(s, o, v) \/ write(s, o, v)
      \/ \E O \in SUBSET (Bound(s) \ ReadOnly) : unbindObject(s, O)
      \/ \E m \in [Bound(s) -> Value] : callExternalFunction(s, m)
      \/ \E b \in live \ {s} : \E side \in {s, b} : merge(s, b, side)
      \/ terminate(s)

Spec == Init /\ [][Next]_vars

-----------------------------------------------------------------------------
(* Properties *)

\* Spaces bind objects to cells; every live space has a key.
TypeOK ==
    /\ live \subseteq Space /\ DOMAIN cowKey = live
    /\ \A s \in live : /\ cowKey[s] \in 1..MaxKey
                       /\ Bound(s) \subseteq Object
                       /\ \A o \in Bound(s) : objects[s][o] \in Cell
    /\ copyOnWriteOwner \in [Cell -> Nat]
    /\ contents \in [Cell -> Value]

\* "forall o in objects, o->copyOnWriteOwner <= cowKey", AddressSpace.h:51.
OwnersNotAhead ==
    \A s \in live : \A o \in Bound(s) : copyOnWriteOwner[objects[s][o]] <= cowKey[s]

\* A cell that getWriteable would hand out for writing in place is bound in
\* one space only and to one object.
OwnedIsExclusive ==
    \A s, t \in live : \A o \in Bound(s), p \in Bound(t) :
        objects[s][o] = objects[t][p] =>
            /\ o = p
            /\ s # t => ~Owned(s, o)

\* All states have the read-only objects, and share them: copying one fails the
\* assertions of getWriteable, of the copy constructor and of merge.
ReadOnlyShared ==
    \A s, t \in live : \A o \in ReadOnly :
        o \in Bound(s) /\ o \in Bound(t) /\ objects[s][o] = objects[t][o]

\* What copy-on-write rests on, after any forks, frees, external calls and
\* merges: owners are never ahead of keys, a cell that may be written in place
\* belongs to one space and one object, and read-only objects are never copied.
SharingIsSafe == TypeOK /\ OwnersNotAhead /\ OwnedIsExclusive /\ ReadOnlyShared

\* merge leaves a with the memory of one of the two paths as a whole, never
\* with objects of both.
MergeTakesOneSide ==
    [][\A a, b \in live : \A side \in {a, b} :
         merge(a, b, side) => memory' = [memory EXCEPT ![a] = memory[side]]]_vars

Private == INSTANCE PrivateMemory WITH mem <- memory

\* Sharing cells is invisible: every state behaves as if it had its own memory,
\* whatever the order of forks, writes, external calls, merges and frees.
MemoryIsPrivate == Private!Spec
=============================================================================

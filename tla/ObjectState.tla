---------------------------- MODULE ObjectState ----------------------------
(***************************************************************************)
(* klee::ObjectState: the bytes of one object.  The current value of a     *)
(* byte is in the concrete store, or an expression in knownSymbolics, or   *)
(* the newest entry for it in a list of updates, which accesses at a       *)
(* symbolic offset need.  Bytes are flushed to the list only before such   *)
(* an access, so the three copies are kept in step by two masks.           *)
(*                                                                         *)
(* Expressions are represented by their values under one assignment, which *)
(* is arbitrary.                                                           *)
(***************************************************************************)
EXTENDS Naturals, Sequences

CONSTANTS
    Size,
    Byte,      \* the values of a byte
    Null,      \* a null pointer
    ExternalsWriteFlushed,  \* external functions may write concrete bytes that are flushed
    MaxWrites  \* bounds the list of updates

ASSUME ByteAssumption == 0 \in Byte /\ Null \notin Byte
ASSUME ExternalsAssumption == ExternalsWriteFlushed \in BOOLEAN
ASSUME SizeAssumption == Size \in Nat /\ Null \notin [0..(Size - 1) -> Byte]

Offset == 0..(Size - 1)

VARIABLES
    concreteStore,
    concreteMask,   \* the offsets of concrete bytes
    flushMask,      \* the offsets of bytes that are not flushed
    knownSymbolics,
    root,           \* contents of the array below the updates, Null until needed
    updates,        \* oldest first
    access,         \* the access at a symbolic offset that is flushing
    offset,         \* of the flush loop
    result,         \* the byte read last
    writes          \* number of writes so far

caches == <<concreteStore, concreteMask, flushMask, knownSymbolics>>
list == <<root, updates>>
objectVars == <<caches, list, access, offset, result, writes>>

\* Whether an update can be folded into a constant array.
Kind == {"concrete", "symbolic"}
Update == [index : Offset, value : Byte, kind : Kind]
NoAccess == [name |-> "none", index |-> 0, value |-> 0]

isByteConcrete(i) == i \in concreteMask
isByteFlushed(i) == i \notin flushMask
isByteKnownSymbolic(i) == knownSymbolics[i] # Null

-----------------------------------------------------------------------------
(* The list of updates *)

\* k is the newest of the updates in u at positions up to n that write i.
Newest(u, n, i, k) ==
    /\ k \in 1..n /\ u[k].index = i
    /\ \A m \in 1..n : u[m].index = i => m <= k

\* What the first n updates of u leave at i, on top of base.
Applied(u, n, i, base) ==
    IF \E k \in 1..n : Newest(u, n, i, k)
    THEN u[CHOOSE k \in 1..n : Newest(u, n, i, k)].value
    ELSE base

Base(i) == IF root = Null THEN 0 ELSE root[i]
listed(i) == Applied(updates, Len(updates), i, Base(i))

\* The longest prefix of concrete updates.
foldable(n) ==
    /\ n \in 0..Len(updates)
    /\ \A k \in 1..n : updates[k].kind = "concrete"
    /\ n < Len(updates) => updates[n + 1].kind # "concrete"

\* Constant arrays are created lazily, from the concrete updates that come first.
getUpdates ==
    IF root # Null THEN UNCHANGED list
    ELSE \E n \in 0..Len(updates) :
            /\ foldable(n)
            /\ root' = [i \in Offset |-> Applied(updates, n, i, 0)]
            /\ updates' = SubSeq(updates, n + 1, Len(updates))

-----------------------------------------------------------------------------
(* Accesses *)

Idle == access = NoAccess

\* Mutant: the expression that the byte had stays.
write8KeepsSymbolic(i, v) ==
    /\ Idle /\ writes < MaxWrites
    /\ concreteStore' = [concreteStore EXCEPT ![i] = v]
    /\ concreteMask' = concreteMask \cup {i}
    /\ flushMask' = flushMask \cup {i}
    /\ writes' = writes + 1
    /\ UNCHANGED <<knownSymbolics, list, access, offset, result>>

\* Mutant: a byte that was flushed stays flushed.
write8StaysFlushed(i, v) ==
    /\ Idle /\ writes < MaxWrites
    /\ concreteStore' = [concreteStore EXCEPT ![i] = v]
    /\ knownSymbolics' = [knownSymbolics EXCEPT ![i] = Null]
    /\ concreteMask' = concreteMask \cup {i}
    /\ writes' = writes + 1
    /\ UNCHANGED <<flushMask, list, access, offset, result>>

write8(i, v) ==
    /\ Idle /\ writes < MaxWrites
    /\ concreteStore' = [concreteStore EXCEPT ![i] = v]
    /\ knownSymbolics' = [knownSymbolics EXCEPT ![i] = Null]
    /\ concreteMask' = concreteMask \cup {i}
    /\ flushMask' = flushMask \cup {i}
    /\ writes' = writes + 1
    /\ UNCHANGED <<list, access, offset, result>>

write8Expr(i, v) ==
    /\ Idle /\ writes < MaxWrites
    /\ knownSymbolics' = [knownSymbolics EXCEPT ![i] = v]
    /\ concreteMask' = concreteMask \ {i}
    /\ flushMask' = flushMask \cup {i}
    /\ writes' = writes + 1
    /\ UNCHANGED <<concreteStore, list, access, offset, result>>

\* AddressSpace::copyInConcretes: an external function has written v at the address of
\* the byte, and the concrete store takes it over, the masks as they are.  A function
\* that writes several bytes is taken as several calls.
copyInConcretes(i, v) ==
    /\ Idle /\ writes < MaxWrites
    /\ concreteStore[i] # v
    /\ isByteConcrete(i) /\ isByteFlushed(i) => ExternalsWriteFlushed
    /\ concreteStore' = [concreteStore EXCEPT ![i] = v]
    /\ writes' = writes + 1
    /\ UNCHANGED <<concreteMask, flushMask, knownSymbolics, list, access, offset, result>>

read8(i) ==
    /\ Idle
    /\ \/ /\ isByteConcrete(i)
          /\ result' = concreteStore[i] /\ UNCHANGED list
       \/ /\ ~isByteConcrete(i) /\ isByteKnownSymbolic(i)
          /\ result' = knownSymbolics[i] /\ UNCHANGED list
       \/ /\ ~isByteConcrete(i) /\ ~isByteKnownSymbolic(i)
          /\ result' = listed(i) /\ getUpdates
    /\ UNCHANGED <<caches, access, offset, writes>>

\* An access at a symbolic offset, which is i under the assignment.
read8At(i) ==
    /\ Idle
    /\ access' = [name |-> "read", index |-> i, value |-> 0] /\ offset' = 0
    /\ UNCHANGED <<caches, list, result, writes>>

write8At(i, v) ==
    /\ Idle /\ writes < MaxWrites
    /\ access' = [name |-> "write", index |-> i, value |-> v] /\ offset' = 0
    /\ writes' = writes + 1
    /\ UNCHANGED <<caches, list, result>>

\* The update that brings the list up to date.
flushed(i) ==
    IF isByteConcrete(i)
    THEN [index |-> i, value |-> concreteStore[i], kind |-> "concrete"]
    ELSE [index |-> i, value |-> knownSymbolics[i], kind |-> "symbolic"]

extendFlushed ==
    /\ updates' = IF isByteFlushed(offset) THEN updates
                  ELSE Append(updates, flushed(offset))
    /\ flushMask' = flushMask \ {offset}
    /\ UNCHANGED root

flushRangeForRead ==
    /\ access.name = "read" /\ offset < Size
    /\ extendFlushed
    /\ offset' = offset + 1
    /\ UNCHANGED <<concreteStore, concreteMask, knownSymbolics, access, result, writes>>

\* The write may hit any byte, so that the caches are given up.
flushRangeForWrite ==
    /\ access.name = "write" /\ offset < Size
    /\ extendFlushed
    /\ concreteMask' = concreteMask \ {offset}
    /\ knownSymbolics' = IF isByteConcrete(offset) THEN knownSymbolics
                         ELSE [knownSymbolics EXCEPT ![offset] = Null]
    /\ offset' = offset + 1
    /\ UNCHANGED <<concreteStore, access, result, writes>>

finishRead ==
    /\ access.name = "read" /\ offset = Size
    /\ result' = listed(access.index) /\ getUpdates
    /\ access' = NoAccess
    /\ UNCHANGED <<caches, offset, writes>>

finishWrite ==
    /\ access.name = "write" /\ offset = Size
    /\ updates' = Append(updates, [index |-> access.index, value |-> access.value,
                                   kind |-> "symbolic"])
    /\ access' = NoAccess
    /\ UNCHANGED <<caches, root, offset, result, writes>>

-----------------------------------------------------------------------------

\* An object with concrete contents, zero or of the fill byte, with or without
\* --use-constant-arrays; or one that was made symbolic.
ObjectInit ==
    /\ \/ /\ \E v \in Byte : concreteStore = [i \in Offset |-> v]
          /\ concreteMask = Offset /\ flushMask = Offset
          /\ root \in {Null} \cup [Offset -> Byte]
       \/ /\ concreteStore = [i \in Offset |-> 0]
          /\ concreteMask = {} /\ flushMask = {}
          /\ root \in [Offset -> Byte]
    /\ knownSymbolics = [i \in Offset |-> Null]
    /\ updates = <<>>
    /\ access = NoAccess /\ offset = 0
    /\ result \in Byte /\ writes = 0

ObjectNext ==
    \/ \E i \in Offset :
          \/ read8(i) \/ read8At(i)
          \/ \E v \in Byte : \/ write8(i, v) \/ write8Expr(i, v) \/ write8At(i, v)
                              \/ copyInConcretes(i, v)
    \/ flushRangeForRead \/ flushRangeForWrite
    \/ finishRead \/ finishWrite

ObjectSpec == ObjectInit /\ [][ObjectNext]_objectVars

-----------------------------------------------------------------------------
(* Properties *)

\* The variables have the types of the members of ObjectState.
ObjectTypeOK ==
    /\ concreteStore \in [Offset -> Byte]
    /\ concreteMask \subseteq Offset /\ flushMask \subseteq Offset
    /\ knownSymbolics \in [Offset -> Byte \cup {Null}]
    /\ root = Null \/ root \in [Offset -> Byte]
    /\ updates \in Seq(Update)
    /\ access \in [name : {"none", "read", "write"}, index : Offset \cup {0}, value : Byte]
    /\ offset \in 0..Size
    /\ result \in Byte /\ writes \in Nat

\* The cache invariants that the comment in Memory.cpp lists: no byte is both
\* concrete and known symbolic, and one that is not flushed is one of the two.
\* The assertions "unflushed byte without cache value" and "invalid bit set in
\* flushMask" follow.
CacheInvariants ==
    \A i \in Offset :
        /\ ~(isByteKnownSymbolic(i) /\ isByteConcrete(i))
        /\ ~isByteFlushed(i) => isByteConcrete(i) \/ isByteKnownSymbolic(i)

\* The masks, the stores and the list of updates keep their types and the cache
\* invariants, in the middle of a flush too.
CachesConsistent == ObjectTypeOK /\ CacheInvariants

\* Where the object says that a byte is.
ByteValue(i) ==
    IF isByteConcrete(i) THEN concreteStore[i]
    ELSE IF isByteKnownSymbolic(i) THEN knownSymbolics[i]
    ELSE listed(i)

\* "Copy the concrete values of all managed ObjectStates back from the actual system
\* memory location" (AddressSpace.h:119): the object then has what the external function
\* wrote, so that the list of updates, which is all that a read at a symbolic offset
\* sees of a byte that is flushed, holds the value that a read at a constant offset
\* returns.
FlushedAgree == \A i \in Offset : isByteFlushed(i) => listed(i) = ByteValue(i)

\* Under every assignment, and unless an external function writes a concrete byte that
\* is flushed, the object is an array of bytes: reads at constant and at symbolic
\* offsets return what was written last, by the program or by an external function,
\* through whichever cache, and flushing and the creation of constant arrays change no
\* byte.  What an external function writes over a symbolic byte is dropped.
Bytes == INSTANCE ByteArray WITH contents <- [i \in Offset |-> ByteValue(i)]
IsByteArray == Bytes!Spec
=============================================================================

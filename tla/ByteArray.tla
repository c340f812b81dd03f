----------------------------- MODULE ByteArray -----------------------------
(***************************************************************************)
(* What klee::ObjectState promises: an array of bytes, read and written one *)
(* byte at a time.                                                         *)
(***************************************************************************)
EXTENDS Naturals

CONSTANTS Size, Byte

VARIABLES contents, result

Offset == 0..(Size - 1)

Init == contents \in [Offset -> Byte] /\ result \in Byte

Read(i) == result' = contents[i] /\ UNCHANGED contents

Write(i, v) == contents' = [contents EXCEPT ![i] = v] /\ UNCHANGED result

Next == \E i \in Offset : Read(i) \/ \E v \in Byte : Write(i, v)

Spec == Init /\ [][Next]_<<contents, result>>
=============================================================================

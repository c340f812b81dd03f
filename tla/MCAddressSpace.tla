--------------------------- MODULE MCAddressSpace ---------------------------
(* Instance of AddressSpace for TLC. *)
EXTENDS AddressSpace, TLC

CONSTANTS a1, a2, table, heap, stack, c1, c2, c3, c4, c5, zero, one

Spaces == {a1, a2}
Objects == {table, heap, stack}
Tables == {table}
Cells == {c1, c2, c3, c4, c5}
Values == {zero, one}
Addresses == Permutations(Spaces) \cup Permutations(Cells) \cup Permutations(Values)
=============================================================================

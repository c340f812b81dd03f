--------------------------- MODULE PrivateMemory ---------------------------
(***************************************************************************)
(* What the address spaces promise: every execution state has a memory of  *)
(* its own.  A forked state starts with a copy, an operation on one        *)
(* state's memory changes no other one, and read-only objects keep their   *)
(* contents.                                                               *)
(***************************************************************************)
EXTENDS Functions

CONSTANTS Space, Object, Value, ReadOnly

VARIABLE mem  \* [live spaces -> [bound objects -> Value]]

Memories == UNION {[O -> Value] : O \in SUBSET Object}

Fork(s, f) ==
    mem' = [t \in DOMAIN mem \cup {f} |-> IF t = f THEN mem[s] ELSE mem[t]]

Bind(s, o, v) ==
    mem' = [mem EXCEPT ![s] = [p \in DOMAIN mem[s] \cup {o} |->
                                 IF p = o THEN v ELSE mem[s][p]]]

Unbind(s, O) == mem' = [mem EXCEPT ![s] = [p \in DOMAIN mem[s] \ O |-> mem[s][p]]]

\* A store, an external call or a merge.
Write(s, m) ==
    /\ \A o \in DOMAIN mem[s] \cap ReadOnly : m[o] = mem[s][o]
    /\ mem' = [mem EXCEPT ![s] = m]

End(s) == mem' = [t \in DOMAIN mem \ {s} |-> mem[t]]

Init == \E s \in Space : mem \in [{s} -> Memories]

Next ==
    \E s \in DOMAIN mem :
      \/ \E f \in Space \ DOMAIN mem : Fork(s, f)
      \/ \E o \in Object \ ReadOnly, v \in Value : Bind(s, o, v)
      \/ \E O \in SUBSET Object : Unbind(s, O)
      \/ \E m \in [DOMAIN mem[s] -> Value] : Write(s, m)
      \/ End(s)

Spec == Init /\ [][Next]_mem
=============================================================================

------------------------------ MODULE NatTable ------------------------------
(***************************************************************************)
(* What the example NATs promise: a table of translations from packet      *)
(* headers to packet headers, in which the two directions of a connection  *)
(* are entered together.  A header is <<src_ip, dst_ip, proto, src_port,   *)
(* dst_port>>.                                                             *)
(***************************************************************************)
EXTENDS Integers

CONSTANTS Addresses, NatIp,
          Protocols,       \* the protocols with ports, TCP and UDP
          PORTS,           \* the number of ports, 2^16
          Packets          \* what may arrive: headers, and frames without one

Ports == 0..(PORTS - 1)
Headers == Addresses \X Addresses \X Protocols \X Ports \X Ports

Swap(h) == <<h[2], h[1], h[3], h[5], h[4]>>
Outgoing(h, port) == <<NatIp, h[2], h[3], port, h[5]>>

\* The header of an answer to h sent from port.
ReturnKey(h, port) == <<h[2], NatIp, h[3], h[5], port>>

Dropped == << >>

VARIABLES translations,    \* header -> header, for the headers entered so far
          full,            \* there is no room for another connection
          status,          \* "running", "hung" or "crashed"
          arrived, sent    \* the last packet, and what became of it

natVars == <<translations, full, status, arrived, sent>>

Known == DOMAIN translations

Init ==
  /\ translations = [h \in {} |-> h]
  /\ full \in BOOLEAN
  /\ status = "running"
  /\ arrived = Dropped /\ sent = Dropped

\* Frames without ports, and answers nobody waits for.
Drop(p) ==
  /\ p \in Headers => p \notin Known /\ p[2] = NatIp
  /\ sent' = Dropped
  /\ UNCHANGED <<translations, status>>

Translate(p) ==
  /\ p \in Known
  /\ sent' = translations[p]
  /\ UNCHANGED <<translations, status>>

New(p) == p \in Headers /\ p \notin Known /\ p[2] # NatIp

Open(p, port) ==
  /\ New(p)
  /\ ReturnKey(p, port) \notin Known
  /\ sent' = Outgoing(p, port)
  /\ translations' =
       IF full THEN translations
       ELSE [h \in Known \cup {p, ReturnKey(p, port)} |->
               CASE h = p -> Outgoing(p, port)
                 [] h = ReturnKey(p, port) -> Swap(p)
                 [] OTHER -> translations[h]]
  /\ UNCHANGED status

\* No port is left; the search for one goes wrong, or an assertion on the frame.
Hang(p) ==
  /\ New(p) /\ \A port \in Ports : ReturnKey(p, port) \in Known
  /\ status' = "hung"
  /\ UNCHANGED <<translations, sent>>

Crash(p) ==
  /\ p \in Headers => New(p) /\ ReturnKey(p, p[4]) \in Known
  /\ status' = "crashed"
  /\ UNCHANGED <<translations, sent>>

Next ==
  /\ status = "running"
  /\ \E p \in Packets :
       /\ arrived' = p
       /\ \/ Drop(p) \/ Translate(p) \/ Hang(p) \/ Crash(p)
          \/ \E port \in Ports : Open(p, port)
  /\ full' \in BOOLEAN

Spec == Init /\ [][Next]_natVars

------------------------------------------------------------------------------
(* The answer to a translated packet is translated back to the answer to   *)
(* the packet itself, in both directions: no entry is without its partner  *)
(* and no two connections share an outside port.                           *)
RoundTrip ==
  \A h \in Known : /\ Swap(translations[h]) \in Known
                   /\ translations[Swap(translations[h])] = Swap(h)
==============================================================================

------------------------------ MODULE FlowTable ------------------------------
(***************************************************************************)
(* What the VigNAT promises: a table of at most MAX_FLOWS flows, each with *)
(* an external port of its own from START_PORT on, that forgets exactly    *)
(* the flows that no packet has used for more than EXPIRATION.             *)
(***************************************************************************)
EXTENDS Integers, FiniteSets

CONSTANTS Sources, Remotes, MAX_FLOWS, EXPIRATION, MAX_TIME,
          START_PORT, PORTS      \* the first external port; how many ports there are

Keys == Sources \X Remotes
ExternalPorts == START_PORT..(START_PORT + MAX_FLOWS - 1)
Junk == << >>                    \* a frame that is not TCP or UDP over IPv4
Dropped == << >>

VARIABLES flows,                 \* key -> [port, time]
          clock, frame,          \* the last frame
          forwarded              \* and what became of it

flowVars == <<flows, clock, frame, forwarded>>

Init == flows = [k \in {} |-> k] /\ clock = 0 /\ frame = Junk /\ forwarded = Dropped

\* The flows that are left when a frame arrives.
Kept(now) ==
  [k \in {h \in DOMAIN flows : now < EXPIRATION \/ flows[h].time >= now - EXPIRATION}
     |-> flows[k]]

Flow(port, time) == [port |-> port, time |-> time]

\* The flows kept, with that of k used now, or new, from port.
Used(kept, now, k, port) ==
  [h \in DOMAIN kept \cup {k} |-> IF h = k THEN Flow(port, now) ELSE kept[h]]

Unused(kept) == ExternalPorts \ {kept[k].port : k \in DOMAIN kept}

Drop(kept) == flows' = kept /\ forwarded' = Dropped

FromInside(kept, now, k) ==
  \/ /\ k \in DOMAIN kept
     /\ flows' = Used(kept, now, k, kept[k].port)
     /\ forwarded' = <<kept[k].port, k[2]>>
  \/ /\ k \notin DOMAIN kept /\ Cardinality(DOMAIN kept) < MAX_FLOWS
     /\ \E port \in Unused(kept) : /\ flows' = Used(kept, now, k, port)
                                  /\ forwarded' = <<port, k[2]>>
  \/ /\ k \notin DOMAIN kept /\ Cardinality(DOMAIN kept) >= MAX_FLOWS
     /\ Drop(kept)

FromOutside(kept, now, port, remote) ==
  LET users == {k \in DOMAIN kept : kept[k].port = port /\ k[2] = remote}
  IN  \/ users = {} /\ Drop(kept)
      \/ \E k \in users : flows' = Used(kept, now, k, port) /\ forwarded' = k

\* A frame that arrives at the time now.
Frame(kept, now) ==
  \/ frame' = Junk /\ Drop(kept)
  \/ \E k \in Keys : frame' = <<"lan", k>> /\ FromInside(kept, now, k)
  \/ \E port \in 0..(PORTS - 1), remote \in Remotes :
       frame' = <<"wan", <<port, remote>>>> /\ FromOutside(kept, now, port, remote)

Next == \E now \in clock..MAX_TIME : clock' = now /\ Frame(Kept(now), now)

Spec == Init /\ [][Next]_flowVars

==============================================================================

---------------------------- MODULE LoadBalancer ----------------------------
(***************************************************************************)
(* The load balancers lb-basichash, lb-hashring, lb-tree and lb-stlmap.    *)
(* They hand the clients of one virtual address to servers in turn, and    *)
(* keep a client with the server it was given.                             *)
(***************************************************************************)
EXTENDS HashTables, FiniteSets

CONSTANTS VIP,
          Dips,            \* the configurations tried: NUM_DIPS addresses, 0 = unset
          LbPackets,       \* <<src_addr, dst_addr, proto, src_port>>, or a frame
                           \* without ports: a shorter tuple
          LbPrograms

VARIABLES lb, dips,        \* the program and its configuration
          clients,         \* its table
          next_dip,        \* counted from 1 here
          lbSent           \* <<src_addr, dst_addr>> of the last packet out, or << >>
lbVars == <<lb, dips, clients, next_dip, lbSent>>

NUM_DIPS == Len(dips)

lb_init(program) ==
  CASE program = "lb_basichash" -> ChainInit
    [] program = "lb_hashring" -> RingInit
    [] OTHER -> << >>

LbInit ==
  /\ lb \in LbPrograms
  /\ dips \in Dips
  /\ clients = lb_init(lb)
  /\ next_dip = 1
  /\ lbSent = << >>

\* The servers configured: the addresses before the first unset one.
Servers == {i \in 1..NUM_DIPS : \A j \in 1..i : dips[j] # 0}

\* Mutant: the index wraps one server early.
FollowingEarly(i) == IF i + 1 >= NUM_DIPS THEN 1 ELSE IF dips[i + 1] = 0 THEN 1 ELSE i + 1

Following(i) == IF i + 1 > NUM_DIPS THEN 1 ELSE IF dips[i + 1] = 0 THEN 1 ELSE i + 1

LbForward(src, dst) == lbSent' = <<src, dst>>

Ignore == lbSent' = << >> /\ UNCHANGED <<clients, next_dip>>

\* A packet to the virtual address: to its client's server as the table has it, or to the
\* next one, which is entered.
ToServer(known, entered, p) ==
  IF known # NotFound
  THEN LbForward(p[1], known[1]) /\ UNCHANGED <<clients, next_dip>>
  ELSE /\ next_dip' = Following(next_dip)
       /\ clients' = entered
       /\ LbForward(p[1], dips[next_dip])

\* A packet from a server is sent as if from the virtual address.
FromServer(p) ==
  IF \E i \in Servers : dips[i] = p[1]
  THEN LbForward(VIP, p[2]) /\ UNCHANGED <<clients, next_dip>>
  ELSE Ignore

lb_dispatch_packet(known, entered, p) ==
  IF Len(p) # 4 THEN Ignore
  ELSE IF p[2] = VIP THEN ToServer(known, entered, p)
  ELSE FromServer(p)

\* hash_key_t is the address alone in lb-basichash, the flow elsewhere.
Source(p) == <<p[1]>>
Flow(p) == <<p[1], p[3], p[4]>>

\* A key hashes to a number, and a configuration names at least one server and none twice.
ASSUME LbAssumption ==
  /\ BUCKETS \in Nat \ {0} /\ RING \in Nat \ {0}
  /\ LbPrograms \subseteq {"lb_basichash", "lb_hashring", "lb_tree", "lb_stlmap"}
  /\ IsFiniteSet(LbPackets)
  /\ \A p \in LbPackets :
       Len(p) = 4 => hash_function(Source(p)) \in Nat /\ hash_function(Flow(p)) \in Nat
  /\ \A d \in Dips : /\ d \in Seq(Nat) /\ Len(d) > 0 /\ d[1] # 0
                     /\ \A i, j \in 1..Len(d) : d[i] = d[j] /\ d[i] # 0 => i = j

NextServer == <<dips[next_dip]>>

lb_basichash(p) ==
  lb_dispatch_packet(ChainGet(clients, Source(p)), ChainSet(clients, Source(p), NextServer), p)
lb_hashring(p) ==
  lb_dispatch_packet(RingGet(clients, Flow(p)), RingSet(clients, Flow(p), NextServer), p)
lb_tree(p) ==
  lb_dispatch_packet(TreeGet(clients, Flow(p)), TreeSet(clients, Flow(p), NextServer), p)

\* Mutant: every packet gets the next server.
lb_stlmap_anew(p) == lb_dispatch_packet(NotFound, MapSet(clients, Flow(p), NextServer), p)

lb_stlmap(p) ==
  lb_dispatch_packet(MapGet(clients, Flow(p)), MapSet(clients, Flow(p), NextServer), p)

Balance(p) ==
  \/ lb = "lb_basichash" /\ lb_basichash(p)
  \/ lb = "lb_hashring" /\ lb_hashring(p)
  \/ lb = "lb_tree" /\ lb_tree(p)
  \/ lb = "lb_stlmap" /\ lb_stlmap(p)

LbNext == \E p \in LbPackets : Balance(p) /\ UNCHANGED <<lb, dips>>

LbSpec == LbInit /\ [][LbNext]_lbVars

------------------------------------------------------------------------------
(* The table as the program reads it. *)
Keys == {IF lb = "lb_basichash" THEN Source(p) ELSE Flow(p) :
           p \in {q \in LbPackets : Len(q) = 4 /\ q[2] = VIP}}

ServerOf(key) ==
  CASE lb = "lb_basichash" -> ChainGet(clients, key)
    [] lb = "lb_hashring" -> RingGet(clients, key)
    [] lb = "lb_tree" -> TreeGet(clients, key)
    [] lb = "lb_stlmap" -> MapGet(clients, key)

Load(i) == Cardinality({k \in Keys : ServerOf(k) = <<dips[i]>>})

\* The ring forgets new clients once it is full.
RingFull == lb = "lb_hashring" /\ \A i \in DOMAIN clients : clients[i] # Unused

(* The clients the table knows are spread evenly: no server has two more   *)
(* than another, and the one whose turn it is has the fewest.  On a full   *)
(* ring turns go to clients that are then forgotten.                       *)
EvenlySpread ==
  RingFull \/ \A i \in Servers : /\ Load(i) - Load(next_dip) \in {0, 1}
                                 /\ i > next_dip => Load(i) = Load(next_dip)

(* A client stays with its server whatever other clients come: each packet *)
(* leaves the entries of all other keys alone and never moves its own.     *)
ClientsStay ==
  [][\A k \in Keys : ServerOf(k) # NotFound => ServerOf(k)' = ServerOf(k)]_lbVars
==============================================================================

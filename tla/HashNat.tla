------------------------------- MODULE HashNat -------------------------------
(***************************************************************************)
(* The NATs nat-basichash, nat-hashring, nat-tree, nat-stlmap,             *)
(* nat-stlumap, nat-dpdkhash, nat-ruby and fake-nf/nat-hash-table: one     *)
(* dispatch_packet over different tables.  A program handles one packet at *)
(* a time.  None of them ever forgets a connection.                        *)
(***************************************************************************)
EXTENDS HashTables, FiniteSets

CONSTANTS Addresses, NatIp, Protocols, PORTS, Packets,
          RTE_ENTRIES,     \* room in the rte_hash, an external library
          RUBY_SIZE,       \* TABLE_SIZE of nat-ruby
          ruby_init(_), ruby_lookup(_, _), ruby_insert(_, _, _),   \* its table: StTable
          NatPrograms

\* Frames that dispatch_packet finds no ports in, and what becomes of them.
NotIPv4 == <<"not IPv4">>
Truncated == <<"truncated">>
Dropped == << >>

VARIABLES nat,             \* the program that runs
          hash_table, status,
          arrived, sent    \* the last packet, and what became of it
natVars == <<nat, hash_table, status, arrived, sent>>

Ports == 0..(PORTS - 1)
Headers == Addresses \X Addresses \X Protocols \X Ports \X Ports

\* The rings and the rte_hash have room for whole connections, of two entries.
\* A key is hashed to a number.
ASSUME NatAssumption ==
  /\ PORTS \in Nat \ {0} /\ NatIp \in Addresses
  /\ \E n \in 0..RING : RING = 2 * n
  /\ RTE_ENTRIES \in Nat /\ \E n \in 0..RTE_ENTRIES : RTE_ENTRIES = 2 * n
  /\ \A h \in Headers : hash_function(h) \in Nat
  /\ NatPrograms \subseteq {"nat_basichash", "nat_hashring", "nat_tree", "nat_stlmap",
                           "nat_stlumap", "nat_dpdkhash", "nat_ruby", "nat_hash_table"}

\* rte_hash_add_key_data fails on a full table, and no caller looks.  (The library may
\* also give up moving keys about before the table is full, which is not modelled.)
RteSet(t, key, value) ==
  IF key \in DOMAIN t \/ Cardinality(DOMAIN t) < RTE_ENTRIES
  THEN MapSet(t, key, value) ELSE t

\* The table that hash_init makes.
hash_init(program) ==
  CASE program \in {"nat_basichash", "nat_hash_table"} -> ChainInit
    [] program = "nat_hashring" -> RingInit
    [] program = "nat_ruby" -> ruby_init(RUBY_SIZE)
    [] OTHER -> << >>

\* The table's hash_get, or what stands for it.
hash_get(t, key) ==
  CASE nat \in {"nat_basichash", "nat_hash_table"} -> ChainGet(t, key)
    [] nat = "nat_hashring" -> RingGet(t, key)
    [] nat = "nat_tree" -> TreeGet(t, key)
    [] nat = "nat_ruby" -> ruby_lookup(t, key)
    [] OTHER -> MapGet(t, key)

NatInit ==
  /\ nat \in NatPrograms
  /\ hash_table = hash_init(nat)
  /\ status = "running"
  /\ arrived = Dropped /\ sent = Dropped

\* What dispatch_packet makes of a packet: what it sends, whether the program
\* still runs, and the entries it makes for a new connection.
Answer(result) == [sent |-> result, status |-> "running", opened |-> << >>]

Stop(how) == [sent |-> sent, status |-> how, opened |-> << >>]

ReturnKey(h, port) == <<h[2], NatIp, h[3], h[5], port>>

\* The ports as the search tries them: from the packet's own on, modulo 2^16.
PortsFrom(sport) == [n \in 0..(PORTS - 1) |-> (sport + n) % PORTS]

\* A connection nobody knows, from the inside.  With NULL for the value to fill
\* in, the search of nat-tree writes through it.
OpenConnection(p, known) ==
  LET ports == PortsFrom(p[4])
      unused == {n \in DOMAIN ports : known[ReturnKey(p, ports[n])] = NotFound}
      port == ports[Min(unused)]
      translation == <<NatIp, p[2], p[3], port, p[5]>>
      out_translation == <<p[2], p[1], p[3], p[5], p[4]>>
  IN  IF nat = "nat_tree" /\ 0 \notin unused THEN Stop("crashed")
      ELSE IF unused = {} THEN Stop("hung")
      ELSE [Answer(translation) EXCEPT !.opened =
              <<[key |-> p, value |-> translation],
                [key |-> ReturnKey(p, port), value |-> out_translation]>>]

\* The headers that dispatch_packet may look up.
Lookups(p) == IF p \in Headers THEN {p} \cup {ReturnKey(p, port) : port \in Ports} ELSE {}

\* known is what hash_get finds.
dispatch_packet(p, known) ==
  IF p \notin Headers THEN Answer(Dropped)
  ELSE IF known[p] # NotFound THEN Answer(known[p])
  ELSE IF p[2] = NatIp THEN Answer(Dropped)
  ELSE OpenConnection(p, known)

\* entered is the table after the two hash_set of a new connection.
Finish(d, entered) ==
  /\ sent' = d.sent /\ status' = d.status
  /\ hash_table' = IF d.opened = << >> THEN hash_table ELSE entered

In(d, i) == d.opened[i].key
Out(d, i) == d.opened[i].value

InChains(d) ==
  Finish(d, ChainSet(ChainSet(hash_table, In(d, 1), Out(d, 1)), In(d, 2), Out(d, 2)))
InMap(d) ==
  Finish(d, MapSet(MapSet(hash_table, In(d, 1), Out(d, 1)), In(d, 2), Out(d, 2)))

ByChains(p) == dispatch_packet(p, [k \in Lookups(p) |-> ChainGet(hash_table, k)])
ByMap(p) == dispatch_packet(p, [k \in Lookups(p) |-> MapGet(hash_table, k)])

nat_basichash(p) == nat = "nat_basichash" /\ \E d \in {ByChains(p)} : InChains(d)

nat_hashring(p) ==
  /\ nat = "nat_hashring"
  /\ \E d \in {dispatch_packet(p, [k \in Lookups(p) |-> RingGet(hash_table, k)])} :
       Finish(d, RingSet(RingSet(hash_table, In(d, 1), Out(d, 1)), In(d, 2), Out(d, 2)))

nat_tree(p) ==
  /\ nat = "nat_tree"
  /\ \E d \in {dispatch_packet(p, [k \in Lookups(p) |-> TreeGet(hash_table, k)])} :
       Finish(d, TreeSet(TreeSet(hash_table, In(d, 1), Out(d, 1)), In(d, 2), Out(d, 2)))

\* Mutant: a packet to the NAT's own address is dropped before it is looked up.
nat_stlmap_dropping(p) ==
  /\ nat = "nat_stlmap"
  /\ \E d \in {IF p \in Headers /\ p[2] = NatIp THEN Answer(Dropped) ELSE ByMap(p)} : InMap(d)

nat_stlmap(p) == nat = "nat_stlmap" /\ \E d \in {ByMap(p)} : InMap(d)
nat_stlumap(p) == nat = "nat_stlumap" /\ \E d \in {ByMap(p)} : InMap(d)

nat_dpdkhash(p) ==
  /\ nat = "nat_dpdkhash"
  /\ \E d \in {ByMap(p)} :
       Finish(d, RteSet(RteSet(hash_table, In(d, 1), Out(d, 1)), In(d, 2), Out(d, 2)))

nat_ruby(p) ==
  /\ nat = "nat_ruby"
  /\ \E d \in {dispatch_packet(p, [k \in Lookups(p) |-> ruby_lookup(hash_table, k)])} :
       Finish(d, ruby_insert(ruby_insert(hash_table, In(d, 1), Out(d, 1)), In(d, 2), Out(d, 2)))

\* fake-nf/nat-hash-table asserts that the frame is whole.
nat_hash_table(p) ==
  /\ nat = "nat_hash_table"
  /\ \E d \in {IF p = Truncated THEN Stop("crashed") ELSE ByChains(p)} : InChains(d)

\* One packet in run() of the program, or process_packet of fake-nf.
Dispatch(p) ==
  \/ nat_basichash(p) \/ nat_hashring(p) \/ nat_tree(p) \/ nat_stlmap(p)
  \/ nat_stlumap(p) \/ nat_dpdkhash(p) \/ nat_ruby(p) \/ nat_hash_table(p)

NatNext ==
  /\ status = "running"
  /\ \E p \in Packets : arrived' = p /\ Dispatch(p)
  /\ UNCHANGED nat

NatSpec == NatInit /\ [][NatNext]_natVars

------------------------------------------------------------------------------
(* The table as the program sees it: what each header that can be in it is *)
(* translated to.                                                          *)

Candidates == {p \in Packets : p \in Headers}
  \cup {ReturnKey(p, port) : p \in {q \in Packets : q \in Headers}, port \in Ports}

Contents == [h \in {c \in Candidates : hash_get(hash_table, c) # NotFound} |-> hash_get(hash_table, h)]

\* The ring and the rte_hash have room for so many headers.
NoRoom ==
  \/ nat = "nat_hashring" /\ Cardinality(DOMAIN Contents) + 2 > RING
  \/ nat = "nat_dpdkhash" /\ Cardinality(DOMAIN Contents) + 2 > RTE_ENTRIES

Translator == INSTANCE NatTable WITH translations <- Contents, full <- NoRoom

(* Each of the programs, nat-ruby as long as no two headers share a hash,  *)
(* is a NatTable: whatever structure it keeps its table in, a packet is    *)
(* translated by what was entered for its header and by nothing else, and  *)
(* a new connection gets a port that no return header in the table uses,   *)
(* unless the search hangs or crashes.                                     *)
IsNat == Translator!Spec

(* In the table of the program, the answer to a translated packet is       *)
(* translated back to the answer to the packet itself.  In nat-ruby two    *)
(* headers with one hash break it: its hash_key_equals is 0 for different  *)
(* headers, and st.c takes 0 for equal (dpdk-nat-ruby.c:310, st.h:134).    *)
RoundTrip == Translator!RoundTrip
==============================================================================

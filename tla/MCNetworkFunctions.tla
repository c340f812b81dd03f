------------------------- MODULE MCNetworkFunctions -------------------------
(***************************************************************************)
(* The example network functions on one host: a process runs one of them.  *)
(* Each family of functions is a module of its own; family is the one that *)
(* was started, and the state of the others stays as it is initially.      *)
(***************************************************************************)
EXTENDS PacketLoop, LpmRouter, LoadBalancer, HashNat

CONSTANTS MINIMAL_POWER2, MAX_POWER2_FOR_TABLES_WITHOUT_BINS, ruby_hash(_),
          Sources, Remotes, MAX_FLOWS, EXPIRATION, START_PORT, VIG_PORTS, MAX_TIME,
          int_key_hash(_), ext_key_hash(_),
          Macs, BridgePorts, DYN_CAPACITY, BRIDGE_EXPIRATION, BRIDGE_MAX_TIME,
          ether_addr_hash(_),
          StKeys, Records, DeleteSets, ST_SIZE, st_numhash(_),
          ST_MINIMAL_POWER2, ST_MAX_POWER2_WITHOUT_BINS

VARIABLES family,
          flow_map, chain, clock, frame, forwarded,
          static_config_fname, static_ft, dynamic_ft, bridgeClock, seen, sentTo,
          tab, pairs

St == INSTANCE StTable WITH hash <- ruby_hash, compare <- hash_key_equals
V == INSTANCE VigNat WITH PORTS <- VIG_PORTS
B == INSTANCE Bridge WITH Devices <- BridgePorts
T == INSTANCE RubyTable

vignatVars == <<flow_map, chain, clock, frame, forwarded>>
bridgeVars == <<static_config_fname, static_ft, dynamic_ft, bridgeClock, seen, sentTo>>
rubyVars == <<tab, pairs>>
allVars == <<family, vars, natVars, lbVars, lpmVars, vignatVars, bridgeVars, rubyVars>>

\* What a family that is not running would run does not matter.
Idle(f, program, choices) == family # f => program = CHOOSE p \in choices : TRUE

AllInit ==
  /\ family \in {"loop", "nat", "lb", "lpm", "vignat", "bridge", "ruby"}
  /\ Init /\ (family # "loop" => nf = [program |-> nop_run, NODROP |-> FALSE])
  /\ NatInit /\ Idle("nat", nat, NatPrograms)
  /\ LbInit /\ Idle("lb", lb, LbPrograms) /\ Idle("lb", dips, Dips)
  /\ LpmInit /\ Idle("lpm", router, LpmPrograms)
  /\ V!Init
  /\ B!BridgeInit /\ (family # "bridge" => static_config_fname = "none")
  /\ T!StInit

AllNext ==
  \/ /\ family = "loop" /\ Next
     /\ UNCHANGED <<family, natVars, lbVars, lpmVars, vignatVars, bridgeVars, rubyVars>>
  \/ /\ family = "nat" /\ NatNext
     /\ UNCHANGED <<family, vars, lbVars, lpmVars, vignatVars, bridgeVars, rubyVars>>
  \/ /\ family = "lb" /\ LbNext
     /\ UNCHANGED <<family, vars, natVars, lpmVars, vignatVars, bridgeVars, rubyVars>>
  \/ /\ family = "lpm" /\ LpmNext
     /\ UNCHANGED <<family, vars, natVars, lbVars, vignatVars, bridgeVars, rubyVars>>
  \/ /\ family = "vignat" /\ V!Next
     /\ UNCHANGED <<family, vars, natVars, lbVars, lpmVars, bridgeVars, rubyVars>>
  \/ /\ family = "bridge" /\ B!BridgeNext
     /\ UNCHANGED <<family, vars, natVars, lbVars, lpmVars, vignatVars, rubyVars>>
  \/ /\ family = "ruby" /\ T!StNext
     /\ UNCHANGED <<family, vars, natVars, lbVars, lpmVars, vignatVars, bridgeVars>>

\* The fairness of the packet loop, when it is the family that runs.
AllFairness ==
  /\ WF_vars(family = "loop" /\ main) /\ WF_vars(family = "loop" /\ run)
  /\ \A d \in 0..(DEV_COUNT - 1) :
       WF_vars(family = "loop" /\ d \in Devices /\ Transmit(d))

AllSpec == AllInit /\ [][AllNext]_allVars /\ AllFairness

------------------------------------------------------------------------------
(* The properties of the parts, of whichever is running. *)

(* VigNat and Bridge: the maps and chains agree after any history of       *)
(* allocating, rejuvenating and expiring.                                  *)
ContainersCoherent == V!Coherent /\ B!BridgeCoherent

(* VigNat: the containers together are a FlowTable. *)
IsFlowTable == V!IsFlowTable

(* RubyTable: a table of st.c keeps what was put in, in order. *)
IsOrderedMap == T!IsOrderedMap

------------------------------------------------------------------------------
(* The instance *)

\* Two inside hosts whose ports collide outside, one that reaches another
\* remote, and answers to every outside port.
MCPackets ==
  {<<h, 3, 17, sp, 0>> : h \in {1, 2}, sp \in {0, 1}} \cup {<<1, 2, 17, 0, 0>>}
  \cup {<<3, 4, 17, 0, p>> : p \in {0, 1}} \cup {<<"not IPv4">>, <<"truncated">>}
MCHash(k) == IF Len(k) = 5 THEN k[1] + k[4] + 2 * k[5] ELSE k[1]
MCStInit(size) == St!st_init_table_with_size(size)
MCStLookup(t, key) == St!st_lookup(t, key)
MCStInsert(t, key, value) == St!st_insert(t, key, value)

\* The 32-bit hash of nat-ruby's headers: all different, or the same for some.
MCRubyHash(k) == k[1] + 5 * k[2] + 25 * k[4] + 75 * k[5]
MCRubyCollision(k) == k[1] + 5 * k[2] + 75 * k[5]
MCNatPrograms == {"nat_basichash", "nat_hashring", "nat_tree", "nat_stlmap", "nat_stlumap",
                  "nat_dpdkhash", "nat_ruby", "nat_hash_table"}

MCLbPackets == {<<c, 9, 17, 0>> : c \in 1..4}
  \cup {<<1, 9, 17, 1>>, <<5, 1, 17, 0>>, <<6, 1, 17, 0>>, <<"arp">>}
MCDips == {<<5, 0>>, <<5, 6, 7>>}
MCLbPrograms == {"lb_basichash", "lb_hashring", "lb_tree", "lb_stlmap"}

MCRoutes == {<<4, 1, 1>>, <<6, 1, 0>>, <<5, 2, 0>>, <<4, 2, 1>>, <<5, 3, 1>>, <<0, 2, 2>>,
             <<2, 1, 3>>}
MCLpmPrograms == {"lpm_da", "lpm_btrie", "lpm_dpdklpm", "asn_trie"}

\* Keys that collide.
MCIntHash(k) == k[1]
MCExtHash(e) == 2 * e[1] + e[2]
MCMacHash(m) == m

\* Two keys of one bin.
MCNumHash(k) == IF k = 3 THEN 9 ELSE k
==============================================================================

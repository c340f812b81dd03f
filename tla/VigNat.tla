------------------------------- MODULE VigNat -------------------------------
(***************************************************************************)
(* The VigNAT (dpdk-nat-cc): nf_core_process over a double map from the    *)
(* internal and the external keys of a flow to its index, and a double     *)
(* chain that allocates the indices and expires them.  An internal key is  *)
(* <<source, remote>>, an external one <<external port, remote>>.          *)
(***************************************************************************)
EXTENDS Integers, Sequences, FiniteSets, FiniteSetsExt, Folds, Functions

CONSTANTS Sources, Remotes,
          MAX_FLOWS,             \* config.max_flows
          EXPIRATION,            \* config.expiration_time
          START_PORT, PORTS,     \* config.start_port; 2^16
          MAX_TIME,              \* where the clock stops
          int_key_hash(_), ext_key_hash(_)

M == INSTANCE VigMap WITH CAPACITY <- MAX_FLOWS
C == INSTANCE DoubleChain WITH RANGE <- MAX_FLOWS

VARIABLES flow_map,              \* [a, b, values, n_vals]
          chain,
          clock, frame, forwarded
vignatVars == <<flow_map, chain, clock, frame, forwarded>>

Keys == Sources \X Remotes
Junk == << >>
Dropped == << >>
NoFlow == [ik |-> << >>, ek |-> << >>]

\* starting_port + index, in a uint16_t.
PortOf(index) == (START_PORT + index) % PORTS

Frames == {Junk} \cup {<<"lan", k>> : k \in Keys}
            \cup {<<"wan", e>> : e \in (0..(PORTS - 1)) \X Remotes}

------------------------------------------------------------------------------
(* double-map.c *)

dmap_allocate == [a |-> M!map_initialize, b |-> M!map_initialize,
                  values |-> [i \in M!Indices |-> NoFlow], n_vals |-> 0]

dmap_get_a(m, key) == M!map_get(m.a, key, int_key_hash(key))
dmap_get_b(m, key) == M!map_get(m.b, key, ext_key_hash(key))
dmap_get_value(m, index) == m.values[index]

dmap_put(m, value, index) ==
  [a |-> M!map_put(m.a, value.ik, int_key_hash(value.ik), index),
   b |-> M!map_put(m.b, value.ek, ext_key_hash(value.ek), index),
   values |-> [m.values EXCEPT ![index] = value],
   n_vals |-> m.n_vals + 1]

\* The value stays where it was; its keys are gone from the two maps.
dmap_erase(m, index) ==
  LET value == m.values[index]
  IN  [m EXCEPT !.a = M!map_erase(@, value.ik, int_key_hash(value.ik)),
                !.b = M!map_erase(@, value.ek, ext_key_hash(value.ek)),
                !.n_vals = @ - 1]

------------------------------------------------------------------------------
(* expirator.c and flowmanager.c, on a pair <<double map, double chain>> *)

\* One round of the loop; after the last expired index a round does nothing.
expire_one(mc, time) ==
  LET index == C!Expired(mc[2], time)
  IN  IF index = -1 THEN mc
      ELSE <<dmap_erase(mc[1], index), C!dchain_expire_one_index(mc[2], time)>>

\* Mutant: one flow is expired for a packet.
expire_item(mc, time) == expire_one(mc, time)

expire_items(mc, time) ==
  LET after[n \in 0..MAX_FLOWS] == IF n = 0 THEN mc ELSE expire_one(after[n - 1], time)
  IN  after[MAX_FLOWS]

expire_flows(mc, time) ==
  IF time < EXPIRATION THEN mc ELSE expire_items(mc, time - EXPIRATION)

get_and_rejuvenate(mc, index, time) ==
  <<mc[1], C!dchain_rejuvenate_index(mc[2], index, time)>>

\* The flow for a new key: its index decides its external port.
allocate_flow(mc, key, index, time) ==
  LET flow == [ik |-> key, ek |-> <<PortOf(index), key[2]>>]
  IN  <<dmap_put(mc[1], flow, index), C!dchain_allocate_new_index(mc[2], time)>>

------------------------------------------------------------------------------
(* nat_forward_vignat.c *)

nf_core_init ==
  /\ flow_map = dmap_allocate
  /\ chain = C!dchain_allocate
  /\ clock = 0 /\ frame = Junk /\ forwarded = Dropped

Become(mc, sent) == flow_map' = mc[1] /\ chain' = mc[2] /\ forwarded' = sent

FromWan(mc, key, now) ==
  LET index == dmap_get_b(mc[1], key)
  IN  IF index = -1 THEN Become(mc, Dropped)
      ELSE Become(get_and_rejuvenate(mc, index, now), dmap_get_value(mc[1], index).ik)

FromLan(mc, key, now) ==
  LET known == dmap_get_a(mc[1], key)
      free == C!FirstFree(mc[2].cells)
  IN  IF known # -1
      THEN Become(get_and_rejuvenate(mc, known, now), dmap_get_value(mc[1], known).ek)
      ELSE IF free = -1 THEN Become(mc, Dropped)
      ELSE Become(allocate_flow(mc, key, free, now), <<PortOf(free), key[2]>>)

nf_core_process(f, now) ==
  LET mc == expire_flows(<<flow_map, chain>>, now)
  IN  CASE f = Junk -> Become(mc, Dropped)
        [] f # Junk /\ f[1] = "wan" -> FromWan(mc, f[2], now)
        [] OTHER -> FromLan(mc, f[2], now)

\* The clock of current_time does not go back; time(NULL) on a steady host.
Init == nf_core_init
Next == \E now \in clock..MAX_TIME, f \in Frames :
          clock' = now /\ frame' = f /\ nf_core_process(f, now)

Spec == Init /\ [][Next]_vignatVars

------------------------------------------------------------------------------
Busy(m) == {i \in M!Indices : m.cells[i] # M!Free}
Allocated == {flow_map.a.cells[i].value : i \in Busy(flow_map.a)}

(* The containers stay coherent: the chain's lists are well formed and     *)
(* sorted by time, what the chain has allocated is what the two maps hold, *)
(* each key under the index of its own flow, the probe counts that keep    *)
(* lookups going past erased cells are exact, and the external port of a   *)
(* flow is start_port plus its index (the assertion of loop.h:18).         *)
Coherent ==
  /\ M!ChainsCounted(flow_map.a) /\ M!ChainsCounted(flow_map.b)
  /\ C!ListsHold(chain, Allocated)
  /\ \A m \in {flow_map.a, flow_map.b} :
       M!map_size(m) = flow_map.n_vals /\ {m.cells[i].value : i \in Busy(m)} = Allocated
  /\ \A i \in Allocated : /\ dmap_get_a(flow_map, flow_map.values[i].ik) = i
                          /\ dmap_get_b(flow_map, flow_map.values[i].ek) = i
                          /\ flow_map.values[i].ek[1] = START_PORT + i

\* The flows the containers hold.
Held == {flow_map.values[i].ik : i \in Allocated}
IndexOf(k) == CHOOSE i \in Allocated : flow_map.values[i].ik = k
Flows == [k \in Held |-> [port |-> flow_map.values[IndexOf(k)].ek[1],
                          time |-> chain.timestamps[IndexOf(k)]]]

Table == INSTANCE FlowTable WITH flows <- Flows

(* The VigNAT is a FlowTable: its double map, its double chain and the     *)
(* expirator together forget a flow exactly when no packet has used it for *)
(* longer than the expiration time, in whatever order flows were opened    *)
(* and refreshed, drop a new flow only when MAX_FLOWS are in use, and use  *)
(* the ports from start_port on (nat_config.h:27), which fit a uint16_t.   *)
IsFlowTable == Table!Spec
==============================================================================

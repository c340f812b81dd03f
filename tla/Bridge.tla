------------------------------- MODULE Bridge -------------------------------
(***************************************************************************)
(* The MAC learning bridge (dpdk-nfs/maclearning): a map from the source   *)
(* addresses it has seen to an index, a double chain that allocates and    *)
(* expires the indices, and per index the device to forward to.            *)
(***************************************************************************)
EXTENDS Integers, Sequences, FiniteSets, FiniteSetsExt

CONSTANTS Macs, Devices,
          DYN_CAPACITY,          \* config.dyn_capacity
          BRIDGE_EXPIRATION,     \* config.expiration_time
          BRIDGE_MAX_TIME,       \* where the clock stops
          ether_addr_hash(_)

BM == INSTANCE VigMap WITH CAPACITY <- DYN_CAPACITY
BC == INSTANCE DoubleChain WITH RANGE <- DYN_CAPACITY

VARIABLES static_config_fname,   \* "none", or whether fopen can open it
          static_ft,             \* the capacity of its map; it never holds a key
          dynamic_ft,            \* [map, heap, keys, devices]
          bridgeClock,
          seen,                  \* the last frame: [source, device, destination]
          sentTo                 \* the device it went to, or one of the below
bridgeVars == <<static_config_fname, static_ft, dynamic_ft, bridgeClock, seen, sentTo>>

FLOOD_FRAME == -1
CRASHED == -2
NotYet == -3

NoFrame == [source |-> 0, device |-> 0, destination |-> 0]

------------------------------------------------------------------------------
bridge_expire_one(ft, time) ==
  LET index == BC!Expired(ft.heap, time)
  IN  IF index = -1 THEN ft
      ELSE [ft EXCEPT !.map = BM!map_erase(@, ft.keys[index], ether_addr_hash(ft.keys[index])),
                      !.heap = BC!dchain_expire_one_index(@, time)]

bridge_expire_entries(ft, time) ==
  LET after[n \in 0..DYN_CAPACITY] ==
        IF n = 0 THEN ft ELSE bridge_expire_one(after[n - 1], time - BRIDGE_EXPIRATION)
  IN  IF time < BRIDGE_EXPIRATION THEN ft ELSE after[DYN_CAPACITY]

bridge_lookup(ft, mac) == BM!map_get(ft.map, mac, ether_addr_hash(mac))

\* The device is the -1 that the search of the static table left.
bridge_put_update_entry(ft, src, time) ==
  LET known == bridge_lookup(ft, src)
      index == BC!FirstFree(ft.heap.cells)
  IN  IF known # -1 THEN [ft EXCEPT !.heap = BC!dchain_rejuvenate_index(@, known, time)]
      ELSE IF index = -1 THEN ft
      ELSE [map |-> BM!map_put(ft.map, src, ether_addr_hash(src), index),
            heap |-> BC!dchain_allocate_new_index(ft.heap, time),
            keys |-> [ft.keys EXCEPT ![index] = src],
            devices |-> [ft.devices EXCEPT ![index] = -1]]

bridge_get_device(ft, dst) ==
  LET index == bridge_lookup(ft, dst)
  IN  IF index = -1 THEN -1 ELSE ft.devices[index]

\* Only without a file is the static table allocated: a file that opens is not
\* read, and one that does not open is read through the null pointer.
read_static_ft_from_file == static_ft = IF static_config_fname = "none" THEN 1 ELSE 0

bridge_core_init ==
  /\ static_config_fname \in {"none", "opens", "missing"}
  /\ read_static_ft_from_file
  /\ dynamic_ft = [map |-> BM!map_initialize, heap |-> BC!dchain_allocate,
                   keys |-> [i \in BM!Indices |-> 0], devices |-> [i \in BM!Indices |-> -1]]
  /\ bridgeClock = 0 /\ seen = NoFrame
  /\ sentTo = IF static_config_fname = "missing" THEN CRASHED ELSE NotYet

\* Looking for a key in a map of capacity 0 divides by it.
bridge_core_process(f, now) ==
  LET updated == bridge_put_update_entry(bridge_expire_entries(dynamic_ft, now), f.source, now)
  IN  IF static_ft = 0
      THEN sentTo' = CRASHED /\ dynamic_ft' = bridge_expire_entries(dynamic_ft, now)
      ELSE dynamic_ft' = updated /\ sentTo' = bridge_get_device(updated, f.destination)

BridgeInit == bridge_core_init
BridgeNext ==
  /\ sentTo # CRASHED
  /\ \E now \in bridgeClock..BRIDGE_MAX_TIME,
        f \in [source : Macs, device : Devices, destination : Macs] :
       bridgeClock' = now /\ seen' = f /\ bridge_core_process(f, now)
  /\ UNCHANGED <<static_config_fname, static_ft>>

------------------------------------------------------------------------------
BridgeBusy == {i \in BM!Indices : dynamic_ft.map.cells[i] # BM!Free}
BridgeAllocated == {dynamic_ft.map.cells[i].value : i \in BridgeBusy}

(* The bridge's map and chain stay coherent over learning, refreshing and  *)
(* expiring: as for the VigNAT, with one map.                              *)
BridgeCoherent ==
  /\ BM!ChainsCounted(dynamic_ft.map)
  /\ BC!ListsHold(dynamic_ft.heap, BridgeAllocated)
  /\ Cardinality(BridgeAllocated) = Cardinality(BridgeBusy)
  /\ \A i \in BridgeAllocated : bridge_lookup(dynamic_ft, dynamic_ft.keys[i]) = i
==============================================================================

----------------------------- MODULE PacketLoop -----------------------------
(***************************************************************************)
(* What every example network function is built around: main configures    *)
(* DPDK, creates the buffer pools and starts the devices, any step of      *)
(* which ends the process when it fails; run polls the devices in turn,    *)
(* hands each frame to the function and transmits, floods or frees it.     *)
(* The network cards (external) fill the receive queues and empty the      *)
(* transmit queues at the same time.                                       *)
(***************************************************************************)
EXTENDS Integers, Sequences, FiniteSets

CONSTANTS Buffers,         \* the frames' buffers, MEMPOOL_BUFFER_COUNT a device
          CLONES,          \* MEMPOOL_CLONE_COUNT
          DEV_COUNT,       \* rte_eth_dev_count()
          RX_QUEUE_SIZE, TX_QUEUE_SIZE

ASSUME LoopAssumption ==
  /\ DEV_COUNT \in Nat \ {0} /\ CLONES \in Nat
  /\ RX_QUEUE_SIZE \in Nat /\ TX_QUEUE_SIZE \in Nat

VARIABLES nf,              \* the program and how DROP_PACKET was compiled
          phase,           \* where main is
          device,          \* the loop counter, in main and in run
          refcnt,          \* of a buffer: the frame itself and its clones
          clones,          \* free in clone_pool
          rx, tx,          \* the queues of each device
          held,            \* the frame that run holds: << >> or <<buffer>>
          verdict,         \* what the function made of it
          port             \* the loop counter of flood
vars == <<nf, phase, device, refcnt, clones, rx, tx, held, verdict, port>>

NUM_ETHPORTS == 2

\* A program: the devices it polls, what its function may return.  A verdict is
\* the device to send to (the frame's own: drop it), "flood" or "exit".
Program(devices, verdicts) == [devices |-> devices, verdicts |-> verdicts]

Other(d) == IF d % 2 = 0 THEN d + 1 ELSE d - 1        \* device ^ 1

\* Translate to the other device, or drop.
TwoPorts == Program(NUM_ETHPORTS, {"own", "other"})
nat_basichash_run == TwoPorts
nat_hashring_run == TwoPorts
nat_tree_run == TwoPorts
nat_stlmap_run == TwoPorts
nat_stlumap_run == TwoPorts
nat_dpdkhash_run == TwoPorts
nat_ruby_run == TwoPorts
lb_basichash_run == TwoPorts
lb_hashring_run == TwoPorts
lb_tree_run == TwoPorts
lb_stlmap_run == TwoPorts

\* Route to any device, or end the process on one that does not exist.
Routers == Program(DEV_COUNT, {"own", "any", "exit"})
lpm_da_run == Routers
lpm_btrie_run == Routers
lpm_dpdklpm_run == Routers

nop_run == Program(NUM_ETHPORTS, {"other"})

\* nf_main with the VigNAT, with the unverified NAT and with the bridge.
vignat_main == Program(DEV_COUNT, {"own", "any"})
solnat_main == Program(DEV_COUNT, {"own", "any"})
bridge_main == Program(DEV_COUNT, {"own", "any", "flood"})

Programs == {nat_basichash_run, nat_hashring_run, nat_tree_run, nat_stlmap_run,
  nat_stlumap_run, nat_dpdkhash_run, nat_ruby_run, lb_basichash_run, lb_hashring_run,
  lb_tree_run, lb_stlmap_run, lpm_da_run, lpm_btrie_run, lpm_dpdklpm_run, nop_run,
  vignat_main, solnat_main, bridge_main}

Devices == 0..(nf.program.devices - 1)

Init ==
  /\ nf \in [program : Programs, NODROP : BOOLEAN]
  /\ nf.NODROP => nf.program.devices = NUM_ETHPORTS      \* it sends to 1 - device
  /\ phase = "configure"
  /\ device = 0
  /\ refcnt = [b \in Buffers |-> 0]
  /\ clones = CLONES
  /\ rx = [d \in Devices |-> << >>]
  /\ tx = [d \in Devices |-> << >>]
  /\ held = << >> /\ verdict = 0 /\ port = 0

queues == <<refcnt, clones, rx, tx, held>>

rte_exit == phase' = "exit" /\ UNCHANGED <<nf, device, queues, verdict, port>>

\* rte_eal_init and the command line.
configure ==
  /\ phase = "configure"
  /\ \/ rte_exit
     \/ phase' = "pools" /\ UNCHANGED <<nf, device, queues, verdict, port>>

\* rte_pktmbuf_pool_create for the frames, and in nf_main for the clones.
create_pools ==
  /\ phase = "pools"
  /\ \/ rte_exit
     \/ phase' = "devices" /\ UNCHANGED <<nf, device, queues, verdict, port>>

\* One device configured, given its queues and started, or the process ends.
nf_init_device ==
  /\ phase = "devices"
  /\ \/ rte_exit
     \/ /\ device' = (device + 1) % nf.program.devices
        /\ phase' = IF device + 1 = nf.program.devices THEN "poll" ELSE phase
        /\ UNCHANGED <<nf, queues, verdict, port>>

\* The card of a started device receives into a free buffer, or it drops.
Started(d) == phase \notin {"configure", "pools", "exit"} /\ (phase = "devices" => d < device)

Receive(d, b) ==
  /\ Started(d) /\ refcnt[b] = 0 /\ Len(rx[d]) < RX_QUEUE_SIZE
  /\ rx' = [rx EXCEPT ![d] = Append(@, b)]
  /\ refcnt' = [refcnt EXCEPT ![b] = 1]
  /\ UNCHANGED <<nf, phase, device, clones, tx, held, verdict, port>>

\* rte_pktmbuf_free: of a frame, or of a clone and its reference.
Freed(m, refs) == [refs EXCEPT ![m.buffer] = @ - 1]
ClonesAfter(m) == clones + (IF m.clone THEN 1 ELSE 0)

Transmit(d) ==
  /\ Started(d) /\ tx[d] # << >>
  /\ tx' = [tx EXCEPT ![d] = Tail(@)]
  /\ refcnt' = Freed(Head(tx[d]), refcnt)
  /\ clones' = ClonesAfter(Head(tx[d]))
  /\ UNCHANGED <<nf, phase, device, rx, held, verdict, port>>

Frame(b) == [buffer |-> b, clone |-> FALSE]
Clone(b) == [buffer |-> b, clone |-> TRUE]

\* Mutant: a device that has nothing is polled again.
SameDevice == IF rx[device] = << >> THEN device ELSE (device + 1) % nf.program.devices

NextDevice == (device + 1) % nf.program.devices

\* rte_eth_rx_burst of one frame.
rx_burst ==
  /\ phase = "poll"
  /\ IF rx[device] = << >>
     THEN device' = NextDevice /\ UNCHANGED <<nf, phase, queues, verdict, port>>
     ELSE /\ held' = <<Head(rx[device])>>
          /\ rx' = [rx EXCEPT ![device] = Tail(@)]
          /\ phase' = "process"
          /\ UNCHANGED <<nf, device, refcnt, clones, tx, verdict, port>>

\* dispatch_packet or nf_core_process, by what it returns.
dispatch ==
  /\ phase = "process"
  /\ \E v \in nf.program.verdicts :
       \/ v = "exit" /\ rte_exit
       \/ /\ v # "exit"
          /\ phase' = IF v = "flood" THEN "flood" ELSE "send"
          /\ verdict' \in CASE v = "own" -> {device}
                            [] v = "other" -> {Other(device)}
                            [] v = "any" -> Devices
                            [] v = "flood" -> {device}
          /\ port' = 0
          /\ UNCHANGED <<nf, device, queues>>

Done == held' = << >> /\ phase' = "poll" /\ device' = NextDevice

\* Mutant: a frame that does not fit is not freed.
tx_burst_leak(d) ==
  /\ tx' = IF Len(tx[d]) < TX_QUEUE_SIZE THEN [tx EXCEPT ![d] = Append(@, Frame(held[1]))] ELSE tx
  /\ UNCHANGED refcnt

\* rte_eth_tx_burst of one frame, freed when the queue is full.
tx_burst(d) ==
  IF Len(tx[d]) < TX_QUEUE_SIZE
  THEN tx' = [tx EXCEPT ![d] = Append(@, Frame(held[1]))] /\ UNCHANGED refcnt
  ELSE refcnt' = Freed(Frame(held[1]), refcnt) /\ UNCHANGED tx

DROP_PACKET ==
  IF nf.NODROP THEN tx_burst(1 - device)
  ELSE refcnt' = Freed(Frame(held[1]), refcnt) /\ UNCHANGED tx

send ==
  /\ phase = "send"
  /\ IF verdict = device THEN DROP_PACKET ELSE tx_burst(verdict)
  /\ Done
  /\ UNCHANGED <<nf, clones, rx, verdict, port>>

\* One round of flood: a clone to every device but the frame's own.
flood ==
  /\ phase = "flood" /\ port \in Devices
  /\ \/ /\ port = device
        /\ port' = port + 1
        /\ UNCHANGED <<nf, phase, device, queues, verdict>>
     \/ port # device /\ clones = 0 /\ rte_exit
     \/ /\ port # device /\ clones > 0
        /\ IF Len(tx[port]) < TX_QUEUE_SIZE
           THEN /\ tx' = [tx EXCEPT ![port] = Append(@, Clone(held[1]))]
                /\ refcnt' = [refcnt EXCEPT ![held[1]] = @ + 1]
                /\ clones' = clones - 1
           ELSE UNCHANGED <<tx, refcnt, clones>>     \* cloned and freed again
        /\ port' = port + 1
        /\ UNCHANGED <<nf, phase, device, rx, held, verdict>>

flood_end ==
  /\ phase = "flood" /\ port \notin Devices
  /\ refcnt' = Freed(Frame(held[1]), refcnt)
  /\ Done
  /\ UNCHANGED <<nf, clones, rx, tx, verdict, port>>

main == configure \/ create_pools \/ nf_init_device
run == rx_burst \/ dispatch \/ send \/ flood \/ flood_end

Next ==
  \/ main \/ run
  \/ \E d \in Devices : Transmit(d) \/ \E b \in Buffers : Receive(d, b)

\* The process keeps running and the cards keep sending what they are given.
Fairness ==
  /\ WF_vars(main) /\ WF_vars(run)
  /\ \A d \in 0..(DEV_COUNT - 1) : WF_vars(d \in Devices /\ Transmit(d))

Spec == Init /\ [][Next]_vars /\ Fairness

------------------------------------------------------------------------------
\* Where in the queues one of these frames is: <<device, index>>.
Places(queue, size, frames) ==
  {p \in (DOMAIN queue) \X (1..size) :
     p[2] \in DOMAIN queue[p[1]] /\ queue[p[1]][p[2]] \in frames}

\* The queues and hands a buffer is in.
Uses(b) ==
  Cardinality(Places(rx, RX_QUEUE_SIZE, {b}))
  + Cardinality(Places(tx, TX_QUEUE_SIZE, {Frame(b), Clone(b)}))
  + (IF held = <<b>> THEN 1 ELSE 0)

InFlight == Places(tx, TX_QUEUE_SIZE, {Clone(b) : b \in Buffers})

(* Every buffer is accounted for: its reference count is the number of     *)
(* queues and hands it is in, so that none leaks and none is freed twice,  *)
(* and the clones in flight are the ones missing from the clone pool.      *)
BuffersAccounted ==
  /\ \A b \in Buffers : refcnt[b] = Uses(b)
  /\ clones + Cardinality(InFlight) = CLONES

(* Every received frame is dealt with, and its buffer comes back to the    *)
(* pool, unless the process ends: run polls every device for ever and      *)
(* frees what it cannot transmit.                                          *)
BuffersReturn == \A b \in Buffers : refcnt[b] > 0 ~> (refcnt[b] = 0 \/ phase = "exit")
==============================================================================

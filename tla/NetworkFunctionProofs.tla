----------------------- MODULE NetworkFunctionProofs -----------------------
(***************************************************************************)
(* The loop that every example network function runs, and the routers, for *)
(* any number of devices, buffers and routes.                              *)
(*                                                                         *)
(* The packet loop accounts for every buffer: a reference is counted for   *)
(* each place of a queue and for the hand of run, and every step moves a   *)
(* frame from one to another or frees it.                                  *)
(*                                                                         *)
(* The routers: each cell of the direct array and each node of a trie has  *)
(* the route that a lookup of its addresses must find.                     *)
(***************************************************************************)
EXTENDS PacketLoop, LpmRouter, FiniteSetTheorems, TLAPS

\* The context is large: the SMT solver is given more time than by default.
USE SMTT(20), Zenon

-----------------------------------------------------------------------------
(* The packet loop: queues *)

\* Queues of devices D that hold at most size frames of S each.
Queues(D, S, size) == {q \in [D -> Seq(S)] : \A d \in D : Len(q[d]) <= size}

\* The queues when e joins the queue of d, and when the first of d leaves it.
Joined(q, d, e) == [q EXCEPT ![d] = Append(@, e)]
Left(q, d) == [q EXCEPT ![d] = Tail(@)]

\* One more place is taken if the condition holds.
Bit(condition) == IF condition THEN 1 ELSE 0

\* There are finitely many places in the queues.
LEMMA PlacesFinite ==
  ASSUME NEW D, IsFiniteSet(D), NEW S, NEW size \in Nat, NEW q \in Queues(D, S, size), NEW A
  PROVE  IsFiniteSet(Places(q, size, A)) /\ Cardinality(Places(q, size, A)) \in Nat
<1>1. DOMAIN q = D BY Zenon DEF Queues
<1>2. IsFiniteSet(1..size) BY FS_Interval
<1>3. IsFiniteSet(D \X (1..size)) BY Zenon, <1>2, FS_Product
<1>4. Places(q, size, A) \in SUBSET (D \X (1..size)) BY Zenon, <1>1 DEF Places
<1> QED BY Zenon, <1>3, <1>4, FS_Subset, FS_CardinalityType

\* A frame that joins a queue takes one place more.
LEMMA Joins ==
  ASSUME NEW D, IsFiniteSet(D), NEW S, NEW size \in Nat, NEW q \in Queues(D, S, size),
         NEW d \in D, Len(q[d]) < size, NEW e \in S, NEW A
  PROVE  /\ Joined(q, d, e) \in Queues(D, S, size)
         /\ Cardinality(Places(Joined(q, d, e), size, A)) =
              Cardinality(Places(q, size, A)) + Bit(e \in A)
<1> DEFINE new == <<d, Len(q[d]) + 1>>
           r == Joined(q, d, e)
<1>1. q \in [D -> Seq(S)] /\ \A c \in D : Len(q[c]) <= size BY Zenon DEF Queues
<1>2. /\ q[d] \in Seq(S) /\ Len(q[d]) \in Nat /\ r \in [D -> Seq(S)]
      /\ r[d] = Append(q[d], e) /\ \A c \in D : c # d => r[c] = q[c]
  BY <1>1 DEF Joined
<1> HIDE DEF r
<1>3. Len(r[d]) = Len(q[d]) + 1 /\ DOMAIN r[d] = 1..(Len(q[d]) + 1) /\ DOMAIN q[d] = 1..Len(q[d])
  BY <1>2
<1>4. r \in Queues(D, S, size)
  <2>1. Len(r[d]) <= size BY <1>1, <1>2, <1>3
  <2>2. \A c \in D : Len(r[c]) <= size BY <1>1, <1>2, <2>1, Zenon
  <2> QED BY <1>2, <2>2, Zenon DEF Queues
<1>5. /\ r[d][Len(q[d]) + 1] = e
      /\ \A i \in DOMAIN q[d] : i \in DOMAIN r[d] /\ r[d][i] = q[d][i]
      /\ \A i \in DOMAIN r[d] : i \in DOMAIN q[d] \/ i = Len(q[d]) + 1
  BY <1>2, <1>3
<1>6. DOMAIN q = D /\ DOMAIN r = D BY Zenon, <1>1, <1>2
<1>7. new \in D \X (1..size) /\ new \notin Places(q, size, A)
  BY <1>2, <1>3 DEF Places
<1>8. Places(r, size, A) = IF e \in A THEN Places(q, size, A) \cup {new} ELSE Places(q, size, A)
  <2>1. ASSUME NEW p \in D \X (1..size)
        PROVE  p \in Places(r, size, A) <=> p \in Places(q, size, A) \/ (e \in A /\ p = new)
    <3>1. p = <<p[1], p[2]>> /\ p[1] \in D /\ p[2] \in 1..size OBVIOUS
    <3>2. CASE p[1] # d BY <3>1, <3>2, <1>2, <1>6 DEF Places
    <3>3. CASE p[1] = d
      <4>1. p \in Places(r, size, A) <=> p[2] \in DOMAIN r[d] /\ r[d][p[2]] \in A
        BY Zenon, <3>1, <3>3, <1>6 DEF Places
      <4>2. p \in Places(q, size, A) <=> p[2] \in DOMAIN q[d] /\ q[d][p[2]] \in A
        BY Zenon, <3>1, <3>3, <1>6 DEF Places
      <4>3. p = new <=> p[2] = Len(q[d]) + 1 BY <3>1, <3>3
      <4>4. Len(q[d]) + 1 \in DOMAIN r[d] /\ Len(q[d]) + 1 \notin DOMAIN q[d] BY <1>2, <1>3
      <4> QED BY Zenon, <4>1, <4>2, <4>3, <4>4, <1>5
    <3> QED BY Zenon, <3>2, <3>3
  <2>2. Places(r, size, A) \subseteq D \X (1..size) /\ Places(q, size, A) \subseteq D \X (1..size)
    BY Zenon, <1>6 DEF Places
  <2>3. CASE e \in A
    <3>1. Places(r, size, A) = Places(q, size, A) \cup {new}
      <4> HIDE DEF new
      <4> QED BY Zenon, <2>1, <2>2, <2>3, <1>7
    <3> QED BY Zenon, <2>3, <3>1
  <2>4. CASE e \notin A
    <3>1. Places(r, size, A) = Places(q, size, A) BY Zenon, <2>1, <2>2, <2>4
    <3> QED BY Zenon, <2>4, <3>1
  <2> QED BY Zenon, <2>3, <2>4
<1>9. IsFiniteSet(Places(q, size, A)) /\ Cardinality(Places(q, size, A)) \in Nat
  BY Zenon, PlacesFinite
<1>10. Cardinality(Places(q, size, A) \cup {new}) = Cardinality(Places(q, size, A)) + 1
  <2> HIDE DEF new
  <2> QED BY Zenon, <1>7, <1>9, FS_AddElement
<1> HIDE DEF new
<1>11. Cardinality(Places(r, size, A)) = Cardinality(Places(q, size, A)) + Bit(e \in A)
  BY <1>8, <1>9, <1>10 DEF Bit
<1> QED BY Zenon, <1>4, <1>11 DEF r

\* A frame that leaves a queue gives up its place; those behind it move up.
LEMMA Leaves ==
  ASSUME NEW D, IsFiniteSet(D), NEW S, NEW size \in Nat, NEW q \in Queues(D, S, size),
         NEW d \in D, q[d] # << >>, NEW A
  PROVE  /\ Left(q, d) \in Queues(D, S, size) /\ Head(q[d]) \in S
         /\ Cardinality(Places(Left(q, d), size, A)) =
              Cardinality(Places(q, size, A)) - Bit(Head(q[d]) \in A)
<1> DEFINE r == Left(q, d)
           first == <<d, 1>>
           rest == Places(q, size, A) \ {first}
           back(p) == IF p[1] = d THEN <<d, p[2] + 1>> ELSE p
           f == [p \in Places(r, size, A) |-> back(p)]
<1>1. q \in [D -> Seq(S)] /\ \A c \in D : Len(q[c]) <= size BY Zenon DEF Queues
<1>2. /\ q[d] \in Seq(S) /\ Len(q[d]) \in Nat /\ Len(q[d]) >= 1 /\ r \in [D -> Seq(S)]
      /\ r[d] = Tail(q[d]) /\ \A c \in D : c # d => r[c] = q[c]
  BY <1>1 DEF Left
<1> HIDE DEF r
<1>3. /\ Len(r[d]) = Len(q[d]) - 1 /\ DOMAIN r[d] = 1..(Len(q[d]) - 1)
      /\ DOMAIN q[d] = 1..Len(q[d]) /\ Head(q[d]) = q[d][1] /\ q[d][1] \in S
      /\ \A i \in DOMAIN r[d] : r[d][i] = q[d][i + 1]
  BY <1>2
<1>4. r \in Queues(D, S, size)
  <2>1. Len(r[d]) <= size BY <1>1, <1>2, <1>3
  <2>2. \A c \in D : Len(r[c]) <= size BY <1>1, <1>2, <2>1, Zenon
  <2> QED BY <1>2, <2>2, Zenon DEF Queues
<1>5. DOMAIN q = D /\ DOMAIN r = D BY Zenon, <1>1, <1>2
<1>6. Len(q[d]) <= size BY Zenon, <1>1
<1>7. ASSUME NEW p \in D \X (1..size)
      PROVE  /\ p[1] # d => (p \in Places(r, size, A) <=> p \in Places(q, size, A))
             /\ p[1] = d => (p \in Places(r, size, A) <=> <<d, p[2] + 1>> \in Places(q, size, A))
  <2>1. p = <<p[1], p[2]>> /\ p[1] \in D /\ p[2] \in 1..size OBVIOUS
  <2>2. CASE p[1] # d BY Zenon, <2>1, <2>2, <1>2, <1>5 DEF Places
  <2>3. CASE p[1] = d
    <3>1. p \in Places(r, size, A) <=> p[2] \in DOMAIN r[d] /\ r[d][p[2]] \in A
      BY Zenon, <2>1, <2>3, <1>5 DEF Places
    <3>2. <<d, p[2] + 1>> \in Places(q, size, A)
            <=> p[2] + 1 \in 1..size /\ p[2] + 1 \in DOMAIN q[d] /\ q[d][p[2] + 1] \in A
      BY Zenon, <1>5 DEF Places
    <3>3. p[2] \in DOMAIN r[d] <=> p[2] + 1 \in 1..size /\ p[2] + 1 \in DOMAIN q[d]
      BY <2>1, <1>2, <1>3, <1>6
    <3> QED BY Zenon, <2>3, <3>1, <3>2, <3>3, <1>3
  <2> QED BY Zenon, <2>2, <2>3
<1>8. Places(r, size, A) \subseteq D \X (1..size) /\ Places(q, size, A) \subseteq D \X (1..size)
  BY <1>5 DEF Places
<1>9. f \in Bijection(Places(r, size, A), rest)
  <2>1. \A p \in Places(r, size, A) : back(p) \in rest
    <3> TAKE p \in Places(r, size, A)
    <3>0. p \in D \X (1..size) BY Zenon, <1>8
    <3>1. p \in D \X (1..size) /\ p = <<p[1], p[2]>> /\ p[2] \in Nat BY <3>0
    <3>2. CASE p[1] # d
      <4>1. p \in Places(q, size, A) BY Zenon, <1>7, <3>1, <3>2
      <4> QED BY <3>1, <3>2, <4>1
    <3>3. CASE p[1] = d
      <4>1. <<d, p[2] + 1>> \in Places(q, size, A) BY Zenon, <1>7, <3>1, <3>3
      <4>2. <<d, p[2] + 1>> # first BY <3>1
      <4> QED BY Zenon, <3>3, <4>1, <4>2
    <3> QED BY Zenon, <3>2, <3>3
  <2>2. \A p, o \in Places(r, size, A) : back(p) = back(o) => p = o
    BY <1>8
  <2>3. \A p \in rest : \E o \in Places(r, size, A) : back(o) = p
    <3> TAKE p \in rest
    <3>1. p \in D \X (1..size) /\ p = <<p[1], p[2]>> BY <1>8
    <3>2. CASE p[1] # d BY Zenon, <1>7, <3>1, <3>2
    <3>3. CASE p[1] = d
      <4>1. p[2] # 1 BY Zenon, <3>1, <3>3
      <4>2. <<d, p[2] - 1>> \in D \X (1..size) /\ <<d, (p[2] - 1) + 1>> = p BY <3>1, <3>3, <4>1
      <4>3. <<d, p[2] - 1>> \in Places(r, size, A) BY Zenon, <1>7, <4>2
      <4> QED BY Zenon, <4>2, <4>3
    <3> QED BY Zenon, <3>2, <3>3
  <2> HIDE DEF back, rest
  <2> QED BY Zenon, <2>1, <2>2, <2>3 DEF Bijection, Injection, Surjection, IsInjective
<1>10. IsFiniteSet(Places(r, size, A)) /\ IsFiniteSet(Places(q, size, A))
       /\ Cardinality(Places(q, size, A)) \in Nat
  BY Zenon, <1>4, PlacesFinite
<1>11. Cardinality(rest) = Cardinality(Places(r, size, A))
  <2> HIDE DEF f, rest
  <2> QED BY Zenon, <1>9, <1>10, FS_Bijection DEF ExistsBijection
<1>12. first \in Places(q, size, A) <=> Head(q[d]) \in A
  BY <1>2, <1>3, <1>5, <1>6 DEF Places
<1>13. Cardinality(rest) = Cardinality(Places(q, size, A)) - Bit(Head(q[d]) \in A)
  <2> HIDE DEF first
  <2>1. Cardinality(rest) = IF first \in Places(q, size, A) THEN Cardinality(Places(q, size, A)) - 1
                            ELSE Cardinality(Places(q, size, A))
    BY Zenon, <1>10, FS_RemoveElement
  <2> HIDE DEF rest
  <2> QED BY <1>10, <1>12, <2>1 DEF Bit
<1>14. Cardinality(Places(r, size, A)) = Cardinality(Places(q, size, A)) - Bit(Head(q[d]) \in A)
  BY Zenon, <1>11, <1>13
<1> QED BY Zenon, <1>3, <1>4, <1>14 DEF r

-----------------------------------------------------------------------------
(* The packet loop: the inductive invariant *)

\* A frame in a transmit queue, or a clone of one.
Mbuf == [buffer : Buffers, clone : BOOLEAN]

LoopTypes ==
  /\ nf.program \in Programs
  /\ nf.NODROP => nf.program.devices = NUM_ETHPORTS
  /\ device \in Devices /\ port \in Nat
  /\ refcnt \in [Buffers -> Int] /\ clones \in Int
  /\ rx \in Queues(Devices, Buffers, RX_QUEUE_SIZE)
  /\ tx \in Queues(Devices, Mbuf, TX_QUEUE_SIZE)

\* run holds a frame from the moment it takes it out of a queue to the end of
\* its round, and sends to a device that exists.
HandRight ==
  /\ phase \in {"configure", "pools", "devices", "poll"} => held = << >>
  /\ phase \in {"process", "send", "flood"} => \E b \in Buffers : held = <<b>>
  /\ phase = "send" => verdict \in Devices

LoopInv == LoopTypes /\ HandRight /\ BuffersAccounted

\* A program polls at least one device, and one that sends to the other
\* device polls two.
LEMMA ProgramFacts ==
  \A q \in Programs : /\ q.devices \in Nat \ {0}
                      /\ "other" \in q.verdicts => q.devices = 2
                      /\ q.verdicts \subseteq {"own", "other", "any", "flood", "exit"}
<1>1. \A q \in Programs : q \in {TwoPorts, Routers, nop_run, vignat_main, bridge_main}
  BY Zenon DEF Programs, nat_basichash_run, nat_hashring_run, nat_tree_run, nat_stlmap_run,
     nat_stlumap_run, nat_dpdkhash_run, nat_ruby_run, lb_basichash_run, lb_hashring_run,
     lb_tree_run, lb_stlmap_run, lpm_da_run, lpm_btrie_run, lpm_dpdklpm_run, solnat_main,
     vignat_main
<1>2. /\ TwoPorts.devices = 2 /\ TwoPorts.verdicts = {"own", "other"}
      /\ nop_run.devices = 2 /\ nop_run.verdicts = {"other"}
  BY Zenon DEF TwoPorts, nop_run, Program, NUM_ETHPORTS
<1>3. /\ Routers.devices = DEV_COUNT /\ Routers.verdicts = {"own", "any", "exit"}
      /\ vignat_main.devices = DEV_COUNT /\ vignat_main.verdicts = {"own", "any"}
      /\ bridge_main.devices = DEV_COUNT /\ bridge_main.verdicts = {"own", "any", "flood"}
  BY Zenon DEF Routers, vignat_main, bridge_main, Program
<1> QED BY <1>1, <1>2, <1>3, LoopAssumption

\* The devices are numbered from 0; the counters of main and run stay in range.
LEMMA DeviceFacts ==
  ASSUME LoopTypes
  PROVE  /\ nf.program.devices \in Nat \ {0}
         /\ IsFiniteSet(Devices) /\ Devices \subseteq Nat
         /\ NextDevice \in Devices
         /\ nf.NODROP => 1 - device \in Devices
         /\ "other" \in nf.program.verdicts => Other(device) \in Devices
<1>0. nf.program \in Programs /\ device \in Devices BY Zenon DEF LoopTypes
<1>1. nf.program.devices \in Nat \ {0} /\ device \in 0..(nf.program.devices - 1)
  BY Zenon, <1>0, ProgramFacts DEF Devices
<1>2. IsFiniteSet(Devices) /\ Devices \subseteq Nat
  <2>1. Devices = 0..(nf.program.devices - 1) BY Zenon DEF Devices
  <2>2. 0 \in Int /\ nf.program.devices - 1 \in Int BY <1>1
  <2>3. IsFiniteSet(0..(nf.program.devices - 1)) BY <2>2, FS_Interval, Zenon
  <2> QED BY <1>1, <2>1, <2>3
<1>3. NextDevice \in Devices BY <1>1 DEF NextDevice, Devices
<1>4. nf.NODROP => 1 - device \in Devices BY <1>1 DEF LoopTypes, NUM_ETHPORTS, Devices
<1>5. "other" \in nf.program.verdicts => nf.program.devices = 2
  BY Zenon, <1>0, ProgramFacts
<1>6. nf.program.devices = 2 => Other(device) \in Devices BY <1>1 DEF Other, Devices
<1> QED BY Zenon, <1>1, <1>2, <1>3, <1>4, <1>5, <1>6

\* In a transmit queue a buffer is a frame or a clone.
LEMMA MbufFacts ==
  /\ \A b \in Buffers : Frame(b) \in Mbuf /\ Clone(b) \in Mbuf
  /\ \A m \in Mbuf : /\ m.buffer \in Buffers /\ m.clone \in BOOLEAN
                     /\ \A b \in Buffers : m \in {Frame(b), Clone(b)} <=> m.buffer = b
                     /\ m \in {Clone(b) : b \in Buffers} <=> m.clone
  /\ \A b \in Buffers : /\ Frame(b).buffer = b /\ Clone(b).buffer = b
                        /\ ~Frame(b).clone /\ Clone(b).clone
  BY DEF Frame, Clone, Mbuf

\* The places of a buffer in the receive and in the transmit queues.
Received(b) == Cardinality(Places(rx, RX_QUEUE_SIZE, {b}))
Queued(b) == Cardinality(Places(tx, TX_QUEUE_SIZE, {Frame(b), Clone(b)}))

\* They are numbers.
LEMMA CountTypes ==
  ASSUME LoopTypes
  PROVE  /\ \A b \in Buffers : Received(b) \in Nat /\ Queued(b) \in Nat
         /\ Cardinality(InFlight) \in Nat
<1>1. IsFiniteSet(Devices) BY Zenon, DeviceFacts
<1>2. /\ rx \in Queues(Devices, Buffers, RX_QUEUE_SIZE) /\ RX_QUEUE_SIZE \in Nat
      /\ tx \in Queues(Devices, Mbuf, TX_QUEUE_SIZE) /\ TX_QUEUE_SIZE \in Nat
  BY Zenon, LoopAssumption DEF LoopTypes
<1>3. ASSUME NEW b \in Buffers PROVE Received(b) \in Nat
  BY Zenon, <1>1, <1>2, PlacesFinite DEF Received
<1>4. ASSUME NEW b \in Buffers PROVE Queued(b) \in Nat
  BY Zenon, <1>1, <1>2, PlacesFinite DEF Queued
<1>5. Cardinality(InFlight) \in Nat BY Zenon, <1>1, <1>2, PlacesFinite DEF InFlight
<1> QED BY Zenon, <1>3, <1>4, <1>5

\* The account in these counts.
LEMMA Account ==
  BuffersAccounted <=>
    /\ \A b \in Buffers : refcnt[b] = Received(b) + Queued(b) + Bit(held = <<b>>)
    /\ clones + Cardinality(InFlight) = CLONES
  BY Zenon DEF BuffersAccounted, Uses, Received, Queued, Bit

\* The same after a step.
LEMMA AccountAfter ==
  BuffersAccounted' <=>
    /\ \A b \in Buffers : refcnt'[b] = Received(b)' + Queued(b)' + Bit(held' = <<b>>)
    /\ clones' + Cardinality(InFlight)' = CLONES
  BY Zenon DEF BuffersAccounted, Uses, Received, Queued, Bit

\* The card puts a frame in a receive queue.
LEMMA RxJoins ==
  ASSUME LoopTypes, NEW d \in Devices, Len(rx[d]) < RX_QUEUE_SIZE, NEW c \in Buffers,
         rx' = Joined(rx, d, c)
  PROVE  /\ rx' \in Queues(Devices, Buffers, RX_QUEUE_SIZE)
         /\ \A b \in Buffers : Received(b)' = Received(b) + Bit(b = c)
<1>1. IsFiniteSet(Devices) BY Zenon, DeviceFacts
<1>2. rx \in Queues(Devices, Buffers, RX_QUEUE_SIZE) /\ RX_QUEUE_SIZE \in Nat
  BY Zenon, LoopAssumption DEF LoopTypes
<1>3. rx' \in Queues(Devices, Buffers, RX_QUEUE_SIZE) BY Zenon, <1>1, <1>2, Joins
<1>4. ASSUME NEW b \in Buffers
      PROVE  Received(b)' = Received(b) + Bit(c \in {b})
  <2>1. Cardinality(Places(rx', RX_QUEUE_SIZE, {b})) =
          Cardinality(Places(rx, RX_QUEUE_SIZE, {b})) + Bit(c \in {b})
    BY <1>1, <1>2, Joins
  <2> QED BY Zenon, <2>1 DEF Received
<1> QED BY Zenon, <1>3, <1>4 DEF Bit

\* A frame is taken out of a receive queue.
LEMMA RxLeaves ==
  ASSUME LoopTypes, NEW d \in Devices, rx[d] # << >>, rx' = Left(rx, d)
  PROVE  /\ rx' \in Queues(Devices, Buffers, RX_QUEUE_SIZE)
         /\ Head(rx[d]) \in Buffers
         /\ \A b \in Buffers : Received(b)' = Received(b) - Bit(b = Head(rx[d]))
<1>1. IsFiniteSet(Devices) BY Zenon, DeviceFacts
<1>2. rx \in Queues(Devices, Buffers, RX_QUEUE_SIZE) /\ RX_QUEUE_SIZE \in Nat
  BY Zenon, LoopAssumption DEF LoopTypes
<1>3. rx' \in Queues(Devices, Buffers, RX_QUEUE_SIZE) /\ Head(rx[d]) \in Buffers
  BY Zenon, <1>1, <1>2, Leaves
<1>4. ASSUME NEW b \in Buffers
      PROVE  Received(b)' = Received(b) - Bit(Head(rx[d]) \in {b})
  <2>1. Cardinality(Places(rx', RX_QUEUE_SIZE, {b})) =
          Cardinality(Places(rx, RX_QUEUE_SIZE, {b})) - Bit(Head(rx[d]) \in {b})
    BY <1>1, <1>2, Leaves
  <2> QED BY Zenon, <2>1 DEF Received
<1> QED BY Zenon, <1>3, <1>4 DEF Bit

\* A frame or a clone is queued for transmission.
LEMMA TxJoins ==
  ASSUME LoopTypes, NEW d \in Devices, Len(tx[d]) < TX_QUEUE_SIZE, NEW m \in Mbuf,
         tx' = Joined(tx, d, m)
  PROVE  /\ tx' \in Queues(Devices, Mbuf, TX_QUEUE_SIZE)
         /\ \A b \in Buffers : Queued(b)' = Queued(b) + Bit(b = m.buffer)
         /\ Cardinality(InFlight)' = Cardinality(InFlight) + Bit(m.clone)
<1>1. IsFiniteSet(Devices) BY Zenon, DeviceFacts
<1>2. tx \in Queues(Devices, Mbuf, TX_QUEUE_SIZE) /\ TX_QUEUE_SIZE \in Nat
  BY Zenon, LoopAssumption DEF LoopTypes
<1>3. tx' \in Queues(Devices, Mbuf, TX_QUEUE_SIZE) BY Zenon, <1>1, <1>2, Joins
<1>4. ASSUME NEW b \in Buffers
      PROVE  Queued(b)' = Queued(b) + Bit(m \in {Frame(b), Clone(b)})
  <2> DEFINE A == {Frame(b), Clone(b)}
  <2>1. Cardinality(Places(tx', TX_QUEUE_SIZE, A)) =
          Cardinality(Places(tx, TX_QUEUE_SIZE, A)) + Bit(m \in A)
    <3> HIDE DEF A
    <3> QED BY <1>1, <1>2, Joins
  <2> QED BY Zenon, <2>1 DEF Queued
<1>5. Cardinality(InFlight)' = Cardinality(InFlight) + Bit(m \in {Clone(b) : b \in Buffers})
  <2> DEFINE A == {Clone(b) : b \in Buffers}
  <2>1. Cardinality(Places(tx', TX_QUEUE_SIZE, A)) =
          Cardinality(Places(tx, TX_QUEUE_SIZE, A)) + Bit(m \in A)
    <3> HIDE DEF A
    <3> QED BY <1>1, <1>2, Joins
  <2> QED BY Zenon, <2>1 DEF InFlight
<1> QED BY Zenon, <1>3, <1>4, <1>5, MbufFacts DEF Bit

\* The card has transmitted a frame.
LEMMA TxLeaves ==
  ASSUME LoopTypes, NEW d \in Devices, tx[d] # << >>, tx' = Left(tx, d)
  PROVE  /\ tx' \in Queues(Devices, Mbuf, TX_QUEUE_SIZE)
         /\ Head(tx[d]) \in Mbuf
         /\ \A b \in Buffers : Queued(b)' = Queued(b) - Bit(b = Head(tx[d]).buffer)
         /\ Cardinality(InFlight)' = Cardinality(InFlight) - Bit(Head(tx[d]).clone)
<1> DEFINE m == Head(tx[d])
<1>1. IsFiniteSet(Devices) BY Zenon, DeviceFacts
<1>2. tx \in Queues(Devices, Mbuf, TX_QUEUE_SIZE) /\ TX_QUEUE_SIZE \in Nat
  BY Zenon, LoopAssumption DEF LoopTypes
<1>3. tx' \in Queues(Devices, Mbuf, TX_QUEUE_SIZE) /\ m \in Mbuf BY Zenon, <1>1, <1>2, Leaves
<1>4. ASSUME NEW b \in Buffers
      PROVE  Queued(b)' = Queued(b) - Bit(m \in {Frame(b), Clone(b)})
  <2> DEFINE A == {Frame(b), Clone(b)}
  <2>1. Cardinality(Places(tx', TX_QUEUE_SIZE, A)) =
          Cardinality(Places(tx, TX_QUEUE_SIZE, A)) - Bit(Head(tx[d]) \in A)
    <3> HIDE DEF A
    <3> QED BY <1>1, <1>2, Leaves
  <2> QED BY Zenon, <2>1 DEF Queued
<1>5. Cardinality(InFlight)' = Cardinality(InFlight) - Bit(m \in {Clone(b) : b \in Buffers})
  <2> DEFINE A == {Clone(b) : b \in Buffers}
  <2>1. Cardinality(Places(tx', TX_QUEUE_SIZE, A)) =
          Cardinality(Places(tx, TX_QUEUE_SIZE, A)) - Bit(Head(tx[d]) \in A)
    <3> HIDE DEF A
    <3> QED BY <1>1, <1>2, Leaves
  <2> QED BY Zenon, <2>1 DEF InFlight
<1> HIDE DEF m
<1>6. /\ \A b \in Buffers : Queued(b)' = Queued(b) - Bit(b = m.buffer)
      /\ Cardinality(InFlight)' = Cardinality(InFlight) - Bit(m.clone)
  BY <1>3, <1>4, <1>5, MbufFacts DEF Bit
<1> QED BY Zenon, <1>3, <1>6 DEF m

-----------------------------------------------------------------------------
(* The packet loop: the steps *)

\* The queues, the hand and the counts stay as they are.
LEMMA Untouched ==
  ASSUME LoopTypes, BuffersAccounted, UNCHANGED <<nf, refcnt, clones, rx, tx, held>>,
         device' \in Devices, port' \in Nat
  PROVE  LoopTypes' /\ BuffersAccounted'
<1>1. Devices' = Devices BY Zenon DEF Devices
<1>2. LoopTypes' BY Zenon, <1>1 DEF LoopTypes
<1>3. BuffersAccounted' BY Zenon DEF BuffersAccounted, Uses, InFlight
<1> QED BY Zenon, <1>2, <1>3

\* A step that ends the process leaves the buffers where they are.
LEMMA ExitStep ==
  ASSUME LoopInv, rte_exit
  PROVE  LoopInv'
<1>1. /\ phase' = "exit" /\ UNCHANGED <<nf, device, refcnt, clones, rx, tx, held, verdict, port>>
      /\ LoopTypes /\ BuffersAccounted
  BY Zenon DEF rte_exit, queues, LoopInv
<1>2. device' \in Devices /\ port' \in Nat BY Zenon, <1>1 DEF LoopTypes
<1>3. HandRight' BY Zenon, <1>1 DEF HandRight
<1> QED BY Zenon, <1>1, <1>2, <1>3, Untouched DEF LoopInv

\* main configures, creates the pools and starts the devices.
LEMMA MainStep ==
  ASSUME LoopInv, main
  PROVE  LoopInv'
<1>1. CASE rte_exit BY Zenon, <1>1, ExitStep
<1>2. CASE ~rte_exit
  <2>1. /\ UNCHANGED <<nf, refcnt, clones, rx, tx, held, verdict, port>>
        /\ phase \in {"configure", "pools", "devices"}
        /\ phase' \in {"pools", "devices", "poll"}
        /\ device' = device \/ device' = NextDevice
    BY Zenon, <1>2 DEF main, configure, create_pools, nf_init_device, queues, NextDevice
  <2>2. LoopTypes /\ HandRight /\ BuffersAccounted BY Zenon DEF LoopInv
  <2>3. device' \in Devices /\ port' \in Nat BY Zenon, <2>1, <2>2, DeviceFacts DEF LoopTypes
  <2>4. HandRight' BY Zenon, <2>1, <2>2 DEF HandRight
  <2> QED BY Zenon, <2>1, <2>2, <2>3, <2>4, Untouched DEF LoopInv
<1> QED BY Zenon, <1>1, <1>2

\* The card receives into a free buffer.
LEMMA ReceiveStep ==
  ASSUME LoopInv, NEW d \in Devices, NEW c \in Buffers, Receive(d, c)
  PROVE  LoopInv'
<1>1. /\ LoopTypes /\ HandRight /\ BuffersAccounted
      /\ refcnt[c] = 0 /\ Len(rx[d]) < RX_QUEUE_SIZE
      /\ rx' = Joined(rx, d, c) /\ refcnt' = [refcnt EXCEPT ![c] = 1]
      /\ UNCHANGED <<nf, phase, device, clones, tx, held, verdict, port>>
  BY Zenon DEF LoopInv, Receive, Joined
<1>2. Devices' = Devices BY Zenon, <1>1 DEF Devices
<1>3. /\ rx' \in Queues(Devices, Buffers, RX_QUEUE_SIZE)
      /\ \A b \in Buffers : Received(b)' = Received(b) + Bit(b = c)
  BY <1>1, RxJoins
<1>4. refcnt \in [Buffers -> Int] BY Zenon, <1>1 DEF LoopTypes
<1>5. LoopTypes' BY <1>1, <1>2, <1>3, <1>4 DEF LoopTypes
<1>6. HandRight' BY Zenon, <1>1, <1>2 DEF HandRight
<1>7. \A b \in Buffers : Queued(b)' = Queued(b) BY Zenon, <1>1 DEF Queued
<1>8. Cardinality(InFlight)' = Cardinality(InFlight) BY Zenon, <1>1 DEF InFlight
<1>9. ASSUME NEW b \in Buffers
      PROVE  refcnt'[b] = Received(b)' + Queued(b)' + Bit(held' = <<b>>)
  <2>1. refcnt[b] = Received(b) + Queued(b) + Bit(held = <<b>>) BY Zenon, <1>1, Account
  <2>2. Received(b) \in Nat /\ Queued(b) \in Nat /\ Bit(held = <<b>>) \in Nat
    BY Zenon, <1>1, CountTypes DEF Bit
  <2>3. refcnt'[b] = IF b = c THEN 1 ELSE refcnt[b] BY Zenon, <1>1, <1>4
  <2>4. Bit(held' = <<b>>) = Bit(held = <<b>>) BY Zenon, <1>1 DEF Bit
  <2>5. CASE b = c BY <1>1, <1>3, <1>7, <2>1, <2>2, <2>3, <2>4, <2>5 DEF Bit
  <2>6. CASE b # c
    <3>1. Received(b)' = Received(b) BY <1>3, <2>2, <2>6 DEF Bit
    <3> QED BY Zenon, <1>7, <2>1, <2>3, <2>4, <2>6, <3>1
  <2> QED BY Zenon, <2>5, <2>6
<1>10. clones' + Cardinality(InFlight)' = CLONES BY Zenon, <1>1, <1>8, Account
<1>11. BuffersAccounted' BY Zenon, <1>9, <1>10, AccountAfter
<1> QED BY Zenon, <1>5, <1>6, <1>11 DEF LoopInv

\* The card has sent a frame, which frees it.
LEMMA TransmitStep ==
  ASSUME LoopInv, NEW d \in Devices, Transmit(d)
  PROVE  LoopInv'
<1> DEFINE m == Head(tx[d])
<1>1. /\ LoopTypes /\ HandRight /\ BuffersAccounted
      /\ tx[d] # << >> /\ tx' = Left(tx, d)
      /\ refcnt' = [refcnt EXCEPT ![m.buffer] = @ - 1]
      /\ clones' = clones + Bit(m.clone)
      /\ UNCHANGED <<nf, phase, device, rx, held, verdict, port>>
  BY Zenon DEF LoopInv, Transmit, Left, Freed, ClonesAfter, Bit
<1>2. Devices' = Devices BY Zenon, <1>1 DEF Devices
<1>3. /\ tx' \in Queues(Devices, Mbuf, TX_QUEUE_SIZE) /\ m \in Mbuf
      /\ \A b \in Buffers : Queued(b)' = Queued(b) - Bit(b = m.buffer)
      /\ Cardinality(InFlight)' = Cardinality(InFlight) - Bit(m.clone)
  BY Zenon, <1>1, TxLeaves
<1> HIDE DEF m
<1>4. /\ refcnt \in [Buffers -> Int] /\ clones \in Int /\ m.buffer \in Buffers
      /\ Bit(m.clone) \in Nat
  BY Zenon, <1>1, <1>3, MbufFacts DEF LoopTypes, Bit
<1>5. refcnt' \in [Buffers -> Int] /\ clones' \in Int BY <1>1, <1>4
<1>6. LoopTypes' BY Zenon, <1>1, <1>2, <1>3, <1>5 DEF LoopTypes
<1>7. HandRight' BY Zenon, <1>1, <1>2 DEF HandRight
<1>8. \A b \in Buffers : Received(b)' = Received(b) BY Zenon, <1>1 DEF Received
<1>9. ASSUME NEW b \in Buffers
      PROVE  refcnt'[b] = Received(b)' + Queued(b)' + Bit(held' = <<b>>)
  <2>1. refcnt[b] = Received(b) + Queued(b) + Bit(held = <<b>>) BY Zenon, <1>1, Account
  <2>2. Received(b) \in Nat /\ Queued(b) \in Nat /\ Bit(held = <<b>>) \in Nat
    BY Zenon, <1>1, CountTypes DEF Bit
  <2>3. refcnt'[b] = refcnt[b] - Bit(b = m.buffer) BY <1>1, <1>4 DEF Bit
  <2>4. Bit(held' = <<b>>) = Bit(held = <<b>>) BY Zenon, <1>1 DEF Bit
  <2>5. Bit(b = m.buffer) \in Nat BY Zenon DEF Bit
  <2> QED BY <1>3, <1>8, <2>1, <2>2, <2>3, <2>4, <2>5
<1>10. clones' + Cardinality(InFlight)' = CLONES
  <2>1. clones + Cardinality(InFlight) = CLONES /\ Cardinality(InFlight) \in Nat
    BY Zenon, <1>1, Account, CountTypes
  <2> QED BY <1>1, <1>3, <1>4, <2>1
<1>11. BuffersAccounted' BY Zenon, <1>9, <1>10, AccountAfter
<1> QED BY Zenon, <1>6, <1>7, <1>11 DEF LoopInv

\* run takes a frame out of a receive queue, or polls the next device.
LEMMA RxBurstStep ==
  ASSUME LoopInv, rx_burst
  PROVE  LoopInv'
<1>1. LoopTypes /\ HandRight /\ BuffersAccounted /\ phase = "poll" /\ held = << >>
  BY Zenon DEF LoopInv, rx_burst, HandRight
<1>2. CASE rx[device] = << >>
  <2>1. /\ device' = NextDevice
        /\ UNCHANGED <<nf, phase, refcnt, clones, rx, tx, held, verdict, port>>
    BY Zenon, <1>2 DEF rx_burst, queues
  <2>2. device' \in Devices /\ port' \in Nat BY Zenon, <1>1, <2>1, DeviceFacts DEF LoopTypes
  <2>3. HandRight' BY Zenon, <1>1, <2>1 DEF HandRight
  <2> QED BY Zenon, <1>1, <2>1, <2>2, <2>3, Untouched DEF LoopInv
<1>3. CASE rx[device] # << >>
  <2> DEFINE h == Head(rx[device])
  <2>1. /\ held' = <<h>> /\ rx' = Left(rx, device) /\ phase' = "process"
        /\ UNCHANGED <<nf, device, refcnt, clones, tx, verdict, port>>
    BY Zenon, <1>3 DEF rx_burst, Left
  <2>2. Devices' = Devices /\ device \in Devices BY Zenon, <1>1, <2>1 DEF Devices, LoopTypes
  <2>3. /\ rx' \in Queues(Devices, Buffers, RX_QUEUE_SIZE) /\ h \in Buffers
        /\ \A b \in Buffers : Received(b)' = Received(b) - Bit(b = h)
    BY Zenon, <1>1, <1>3, <2>1, <2>2, RxLeaves
  <2> HIDE DEF h
  <2>4. LoopTypes' BY Zenon, <1>1, <2>1, <2>2, <2>3 DEF LoopTypes
  <2>5. HandRight' BY Zenon, <2>1, <2>3 DEF HandRight
  <2>6. \A b \in Buffers : Queued(b)' = Queued(b) BY Zenon, <2>1 DEF Queued
  <2>7. Cardinality(InFlight)' = Cardinality(InFlight) BY Zenon, <2>1 DEF InFlight
  <2>8. ASSUME NEW b \in Buffers
        PROVE  refcnt'[b] = Received(b)' + Queued(b)' + Bit(held' = <<b>>)
    <3>1. refcnt[b] = Received(b) + Queued(b) + Bit(held = <<b>>) BY Zenon, <1>1, Account
    <3>2. Received(b) \in Nat /\ Queued(b) \in Nat BY Zenon, <1>1, CountTypes
    <3>3. Bit(held = <<b>>) = 0 BY Zenon, <1>1 DEF Bit
    <3>4. Bit(held' = <<b>>) = Bit(b = h) BY Zenon, <2>1 DEF Bit
    <3>5. Bit(b = h) \in Nat BY Zenon DEF Bit
    <3> QED BY <2>1, <2>3, <2>6, <3>1, <3>2, <3>3, <3>4, <3>5
  <2>9. clones' + Cardinality(InFlight)' = CLONES BY Zenon, <1>1, <2>1, <2>7, Account
  <2>10. BuffersAccounted' BY Zenon, <2>8, <2>9, AccountAfter
  <2> QED BY Zenon, <2>4, <2>5, <2>10 DEF LoopInv
<1> QED BY Zenon, <1>2, <1>3

\* The function decides what becomes of the frame.
LEMMA DispatchStep ==
  ASSUME LoopInv, dispatch
  PROVE  LoopInv'
<1>1. LoopTypes /\ HandRight /\ BuffersAccounted /\ phase = "process" BY Zenon DEF LoopInv, dispatch
<1>2. PICK v \in nf.program.verdicts :
        \/ v = "exit" /\ rte_exit
        \/ /\ v # "exit"
           /\ phase' = IF v = "flood" THEN "flood" ELSE "send"
           /\ verdict' \in CASE v = "own" -> {device}
                             [] v = "other" -> {Other(device)}
                             [] v = "any" -> Devices
                             [] v = "flood" -> {device}
           /\ port' = 0
           /\ UNCHANGED <<nf, device, queues>>
  BY Zenon DEF dispatch
<1>3. CASE v = "exit"
  <2>1. rte_exit BY Zenon, <1>2, <1>3
  <2> QED BY Zenon, <2>1, ExitStep
<1>4. CASE v # "exit"
  <2>1. /\ phase' = IF v = "flood" THEN "flood" ELSE "send"
        /\ verdict' \in CASE v = "own" -> {device}
                          [] v = "other" -> {Other(device)}
                          [] v = "any" -> Devices
                          [] v = "flood" -> {device}
        /\ port' = 0
        /\ UNCHANGED <<nf, device, refcnt, clones, rx, tx, held>>
    BY Zenon, <1>2, <1>4 DEF queues
  <2>2. v \in {"own", "other", "any", "flood"}
    <3>1. nf.program \in Programs BY Zenon, <1>1 DEF LoopTypes
    <3>2. v \in {"own", "other", "any", "flood", "exit"} BY Zenon, <3>1, ProgramFacts
    <3> QED BY Zenon, <1>4, <3>2
  <2>3. device \in Devices BY Zenon, <1>1 DEF LoopTypes
  <2>4. v = "other" => Other(device) \in Devices BY Zenon, <1>1, DeviceFacts
  <2>5. verdict' \in Devices BY Zenon, <2>1, <2>2, <2>3, <2>4
  <2>6. Devices' = Devices BY Zenon, <2>1 DEF Devices
  <2>7. HandRight' BY Zenon, <1>1, <2>1, <2>5, <2>6 DEF HandRight
  <2>8. device' \in Devices /\ port' \in Nat BY Zenon, <2>1, <2>3
  <2> QED BY Zenon, <1>1, <2>1, <2>7, <2>8, Untouched DEF LoopInv
<1> QED BY Zenon, <1>3, <1>4

\* The frame in the hand is freed.
LEMMA HandFreed ==
  ASSUME LoopTypes, BuffersAccounted, NEW h \in Buffers, held = <<h>>, held' = << >>,
         refcnt' = Freed(Frame(held[1]), refcnt), UNCHANGED <<nf, clones, rx, tx>>,
         device' \in Devices, port' \in Nat
  PROVE  LoopTypes' /\ BuffersAccounted'
<1>1. refcnt \in [Buffers -> Int] BY Zenon DEF LoopTypes
<1>2. refcnt' = [refcnt EXCEPT ![h] = @ - 1] BY Zenon DEF Freed, Frame
<1>3. refcnt' \in [Buffers -> Int] BY <1>1, <1>2
<1>4. Devices' = Devices BY Zenon DEF Devices
<1>5. LoopTypes' BY Zenon, <1>3, <1>4 DEF LoopTypes
<1>6. \A b \in Buffers : Received(b)' = Received(b) /\ Queued(b)' = Queued(b)
  BY Zenon DEF Received, Queued
<1>7. Cardinality(InFlight)' = Cardinality(InFlight) BY Zenon DEF InFlight
<1>8. ASSUME NEW b \in Buffers
      PROVE  refcnt'[b] = Received(b)' + Queued(b)' + Bit(held' = <<b>>)
  <2>1. refcnt[b] = Received(b) + Queued(b) + Bit(held = <<b>>) BY Zenon, Account
  <2>2. Received(b) \in Nat /\ Queued(b) \in Nat BY Zenon, CountTypes
  <2>3. refcnt'[b] = refcnt[b] - Bit(b = h) BY <1>1, <1>2 DEF Bit
  <2>4. Bit(held = <<b>>) = Bit(b = h) /\ Bit(b = h) \in Nat BY Zenon DEF Bit
  <2>5. Bit(held' = <<b>>) = 0 BY Zenon DEF Bit
  <2> QED BY <1>6, <2>1, <2>2, <2>3, <2>4, <2>5
<1>9. clones' + Cardinality(InFlight)' = CLONES BY Zenon, <1>7, Account
<1> QED BY Zenon, <1>5, <1>8, <1>9, AccountAfter

\* The frame in the hand is queued.
LEMMA HandQueued ==
  ASSUME LoopTypes, BuffersAccounted, NEW h \in Buffers, held = <<h>>, held' = << >>,
         NEW d \in Devices, Len(tx[d]) < TX_QUEUE_SIZE, tx' = Joined(tx, d, Frame(h)),
         UNCHANGED <<nf, clones, rx, refcnt>>,
         device' \in Devices, port' \in Nat
  PROVE  LoopTypes' /\ BuffersAccounted'
<1>1. /\ Frame(h) \in Mbuf /\ Frame(h).buffer = h /\ ~Frame(h).clone
  BY Zenon, MbufFacts
<1>2. Devices' = Devices BY Zenon DEF Devices
<1>3. /\ tx' \in Queues(Devices, Mbuf, TX_QUEUE_SIZE)
      /\ \A b \in Buffers : Queued(b)' = Queued(b) + Bit(b = Frame(h).buffer)
      /\ Cardinality(InFlight)' = Cardinality(InFlight) + Bit(Frame(h).clone)
  BY Zenon, <1>1, TxJoins
<1>4. LoopTypes' BY Zenon, <1>2, <1>3 DEF LoopTypes
<1>5. \A b \in Buffers : Received(b)' = Received(b) BY Zenon DEF Received
<1>6. ASSUME NEW b \in Buffers
      PROVE  refcnt'[b] = Received(b)' + Queued(b)' + Bit(held' = <<b>>)
  <2>1. refcnt[b] = Received(b) + Queued(b) + Bit(held = <<b>>) BY Zenon, Account
  <2>2. Received(b) \in Nat /\ Queued(b) \in Nat BY Zenon, CountTypes
  <2>3. Queued(b)' = Queued(b) + Bit(b = h) BY Zenon, <1>1, <1>3
  <2>4. Bit(held = <<b>>) = Bit(b = h) /\ Bit(b = h) \in Nat BY Zenon DEF Bit
  <2>5. Bit(held' = <<b>>) = 0 BY Zenon DEF Bit
  <2> QED BY <1>5, <2>1, <2>2, <2>3, <2>4, <2>5
<1>7. clones' + Cardinality(InFlight)' = CLONES
  <2>1. clones + Cardinality(InFlight) = CLONES /\ Cardinality(InFlight) \in Nat
    BY Zenon, Account, CountTypes
  <2>2. Bit(Frame(h).clone) = 0 BY Zenon, <1>1 DEF Bit
  <2> QED BY <1>3, <2>1, <2>2
<1> QED BY Zenon, <1>4, <1>6, <1>7, AccountAfter

\* The frame is transmitted, or freed where the function or a full queue drops it.
LEMMA SendStep ==
  ASSUME LoopInv, send
  PROVE  LoopInv'
<1>1. LoopTypes /\ HandRight /\ BuffersAccounted /\ phase = "send" BY Zenon DEF LoopInv, send
<1>2. PICK h \in Buffers : held = <<h>> BY Zenon, <1>1 DEF HandRight
<1>3. /\ held' = << >> /\ phase' = "poll" /\ device' = NextDevice
      /\ UNCHANGED <<nf, clones, rx, verdict, port>>
  BY Zenon DEF send, Done
<1>4. device' \in Devices /\ port' \in Nat BY Zenon, <1>1, <1>3, DeviceFacts DEF LoopTypes
<1>5. HandRight' BY Zenon, <1>3 DEF HandRight
<1>6. \/ refcnt' = Freed(Frame(held[1]), refcnt) /\ UNCHANGED tx
      \/ \E d \in Devices : /\ Len(tx[d]) < TX_QUEUE_SIZE /\ tx' = Joined(tx, d, Frame(h))
                            /\ UNCHANGED refcnt
  <2>1. verdict \in Devices BY Zenon, <1>1 DEF HandRight
  <2>2. nf.NODROP => 1 - device \in Devices BY Zenon, <1>1, DeviceFacts
  <2>3. ASSUME NEW d \in Devices, tx_burst(d)
        PROVE  \/ refcnt' = Freed(Frame(held[1]), refcnt) /\ UNCHANGED tx
               \/ /\ Len(tx[d]) < TX_QUEUE_SIZE /\ tx' = Joined(tx, d, Frame(h))
                  /\ UNCHANGED refcnt
    BY Zenon, <1>2, <2>3 DEF tx_burst, Joined
  <2>4. \/ refcnt' = Freed(Frame(held[1]), refcnt) /\ UNCHANGED tx
        \/ \E d \in Devices : tx_burst(d)
    BY Zenon, <2>1, <2>2 DEF send, DROP_PACKET
  <2> QED BY Zenon, <2>3, <2>4
<1>7. LoopTypes' /\ BuffersAccounted'
  <2>1. CASE refcnt' = Freed(Frame(held[1]), refcnt) /\ UNCHANGED tx
    BY Zenon, <1>1, <1>2, <1>3, <1>4, <2>1, HandFreed
  <2>2. CASE \E d \in Devices : /\ Len(tx[d]) < TX_QUEUE_SIZE /\ tx' = Joined(tx, d, Frame(h))
                                /\ UNCHANGED refcnt
    BY Zenon, <1>1, <1>2, <1>3, <1>4, <2>2, HandQueued
  <2> QED BY Zenon, <1>6, <2>1, <2>2
<1> QED BY Zenon, <1>5, <1>7 DEF LoopInv

\* A clone goes to one more device; the frame itself is freed at the end.
LEMMA FloodStep ==
  ASSUME LoopInv, flood
  PROVE  LoopInv'
<1>1. LoopTypes /\ HandRight /\ BuffersAccounted /\ phase = "flood" /\ port \in Devices
  BY Zenon DEF LoopInv, flood
<1>2. PICK h \in Buffers : held = <<h>> BY Zenon, <1>1 DEF HandRight
<1>3. CASE rte_exit BY Zenon, <1>3, ExitStep
<1>4. CASE UNCHANGED <<tx, refcnt, clones>> /\ ~rte_exit
  <2>1. /\ port' = port + 1
        /\ UNCHANGED <<nf, phase, device, refcnt, clones, rx, tx, held, verdict>>
    BY Zenon, <1>4 DEF flood, queues
  <2>2. device' \in Devices /\ port' \in Nat BY <1>1, <2>1 DEF LoopTypes
  <2>3. HandRight' BY Zenon, <1>1, <2>1 DEF HandRight
  <2> QED BY Zenon, <1>1, <2>1, <2>2, <2>3, Untouched DEF LoopInv
<1>5. CASE ~UNCHANGED <<tx, refcnt, clones>> /\ ~rte_exit
  <2>1. /\ Len(tx[port]) < TX_QUEUE_SIZE /\ tx' = Joined(tx, port, Clone(h))
        /\ refcnt' = [refcnt EXCEPT ![h] = @ + 1] /\ clones' = clones - 1
        /\ port' = port + 1
        /\ UNCHANGED <<nf, phase, device, rx, held, verdict>>
    BY Zenon, <1>2, <1>5 DEF flood, queues, Joined
  <2>2. /\ Clone(h) \in Mbuf /\ Clone(h).buffer = h /\ Clone(h).clone BY Zenon, MbufFacts
  <2>3. Devices' = Devices BY Zenon, <2>1 DEF Devices
  <2>4. /\ tx' \in Queues(Devices, Mbuf, TX_QUEUE_SIZE)
        /\ \A b \in Buffers : Queued(b)' = Queued(b) + Bit(b = Clone(h).buffer)
        /\ Cardinality(InFlight)' = Cardinality(InFlight) + Bit(Clone(h).clone)
    BY Zenon, <1>1, <2>1, <2>2, TxJoins
  <2>5. refcnt \in [Buffers -> Int] /\ clones \in Int /\ port \in Nat BY Zenon, <1>1 DEF LoopTypes
  <2>6. refcnt' \in [Buffers -> Int] /\ clones' \in Int /\ port' \in Nat BY <2>1, <2>5
  <2>7. LoopTypes' BY Zenon, <1>1, <2>1, <2>3, <2>4, <2>6 DEF LoopTypes
  <2>8. HandRight' BY Zenon, <1>1, <2>1 DEF HandRight
  <2>9. \A b \in Buffers : Received(b)' = Received(b) BY Zenon, <2>1 DEF Received
  <2>10. ASSUME NEW b \in Buffers
         PROVE  refcnt'[b] = Received(b)' + Queued(b)' + Bit(held' = <<b>>)
    <3>1. refcnt[b] = Received(b) + Queued(b) + Bit(held = <<b>>) BY Zenon, <1>1, Account
    <3>2. Received(b) \in Nat /\ Queued(b) \in Nat /\ Bit(held = <<b>>) \in Nat
      BY Zenon, <1>1, CountTypes DEF Bit
    <3>3. Queued(b)' = Queued(b) + Bit(b = h) BY Zenon, <2>2, <2>4
    <3>4. refcnt'[b] = refcnt[b] + Bit(b = h) /\ Bit(b = h) \in Nat BY <2>1, <2>5 DEF Bit
    <3>5. Bit(held' = <<b>>) = Bit(held = <<b>>) BY Zenon, <2>1 DEF Bit
    <3> QED BY <2>9, <3>1, <3>2, <3>3, <3>4, <3>5
  <2>11. clones' + Cardinality(InFlight)' = CLONES
    <3>1. clones + Cardinality(InFlight) = CLONES /\ Cardinality(InFlight) \in Nat
      BY Zenon, <1>1, Account, CountTypes
    <3>2. Bit(Clone(h).clone) = 1 BY Zenon, <2>2 DEF Bit
    <3> QED BY <2>1, <2>4, <2>5, <3>1, <3>2
  <2>12. BuffersAccounted' BY Zenon, <2>10, <2>11, AccountAfter
  <2> QED BY Zenon, <2>7, <2>8, <2>12 DEF LoopInv
<1> QED BY Zenon, <1>3, <1>4, <1>5

\* The flooded frame itself is freed.
LEMMA FloodEndStep ==
  ASSUME LoopInv, flood_end
  PROVE  LoopInv'
<1>1. LoopTypes /\ HandRight /\ BuffersAccounted /\ phase = "flood" BY Zenon DEF LoopInv, flood_end
<1>2. PICK h \in Buffers : held = <<h>> BY Zenon, <1>1 DEF HandRight
<1>3. /\ held' = << >> /\ phase' = "poll" /\ device' = NextDevice
      /\ refcnt' = Freed(Frame(held[1]), refcnt)
      /\ UNCHANGED <<nf, clones, rx, tx, verdict, port>>
  BY Zenon DEF flood_end, Done
<1>4. device' \in Devices /\ port' \in Nat BY Zenon, <1>1, <1>3, DeviceFacts DEF LoopTypes
<1>5. HandRight' BY Zenon, <1>3 DEF HandRight
<1>6. LoopTypes' /\ BuffersAccounted' BY Zenon, <1>1, <1>2, <1>3, <1>4, HandFreed
<1> QED BY Zenon, <1>5, <1>6 DEF LoopInv

\* Empty queues have no place taken.
LEMMA NoPlaces ==
  ASSUME NEW D, NEW size, NEW A
  PROVE  Cardinality(Places([d \in D |-> << >>], size, A)) = 0
<1>1. Places([d \in D |-> << >>], size, A) = {} BY DEF Places
<1> QED BY Zenon, <1>1, FS_EmptySet

\* main starts with every buffer free.
LEMMA LoopInit ==
  ASSUME Init
  PROVE  LoopInv
<1>1. nf.program \in Programs BY Zenon DEF Init
<1>2. nf.program.devices \in Nat \ {0} BY Zenon, <1>1, ProgramFacts
<1>3. device \in Devices BY <1>2 DEF Init, Devices
<1>4. rx \in Queues(Devices, Buffers, RX_QUEUE_SIZE) /\ tx \in Queues(Devices, Mbuf, TX_QUEUE_SIZE)
  <2>1. \A S : << >> \in Seq(S) OBVIOUS
  <2>2. Len(<< >>) = 0 BY Zenon
  <2>3. rx = [d \in Devices |-> << >>] /\ tx = [d \in Devices |-> << >>] BY Zenon DEF Init
  <2> QED BY <2>1, <2>2, <2>3, LoopAssumption DEF Queues
<1>5. LoopTypes BY <1>1, <1>3, <1>4, LoopAssumption DEF LoopTypes, Init
<1>6. HandRight BY Zenon DEF HandRight, Init
<1>7. /\ \A b \in Buffers : refcnt[b] = Received(b) + Queued(b) + Bit(held = <<b>>)
      /\ clones + Cardinality(InFlight) = CLONES
  <2>1. Cardinality(InFlight) = 0 BY Zenon, NoPlaces DEF InFlight, Init
  <2>2. ASSUME NEW b \in Buffers PROVE refcnt[b] = Received(b) + Queued(b) + Bit(held = <<b>>)
    <3>1. Received(b) = 0 BY Zenon, NoPlaces DEF Received, Init
    <3>2. Queued(b) = 0 BY Zenon, NoPlaces DEF Queued, Init
    <3>3. refcnt[b] = 0 /\ Bit(held = <<b>>) = 0 BY Zenon DEF Init, Bit
    <3> QED BY <3>1, <3>2, <3>3
  <2>3. clones = CLONES /\ CLONES \in Nat BY Zenon, LoopAssumption DEF Init
  <2> QED BY <2>1, <2>2, <2>3
<1> QED BY Zenon, <1>5, <1>6, <1>7, Account DEF LoopInv

\* Every step of the process and of the cards keeps the account.
LEMMA LoopNext ==
  ASSUME LoopInv, [Next]_vars
  PROVE  LoopInv'
<1>1. CASE UNCHANGED vars
  <2>1. LoopTypes' /\ BuffersAccounted'
    BY Zenon, <1>1, Untouched DEF LoopInv, vars, LoopTypes
  <2>2. HandRight' BY Zenon, <1>1 DEF LoopInv, vars, HandRight, Devices
  <2> QED BY Zenon, <2>1, <2>2 DEF LoopInv
<1>2. CASE main BY Zenon, <1>2, MainStep
<1>3. CASE run BY Zenon, <1>3, RxBurstStep, DispatchStep, SendStep, FloodStep, FloodEndStep DEF run
<1>4. CASE \E d \in Devices : Transmit(d) BY Zenon, <1>4, TransmitStep
<1>5. CASE \E d \in Devices : \E b \in Buffers : Receive(d, b) BY Zenon, <1>5, ReceiveStep
<1> QED BY Zenon, <1>1, <1>2, <1>3, <1>4, <1>5 DEF Next

\* Every reference to a buffer is a place that holds it, and every clone is
\* free or in a transmit queue: no path of main, run, DROP_PACKET and flood
\* leaks a buffer or frees it twice, whatever the program, the number of
\* devices, buffers and clones and the sizes of the queues.
THEOREM BuffersInvariance == Spec => []BuffersAccounted
<1>1. Init => LoopInv BY Zenon, LoopInit
<1>2. LoopInv /\ [Next]_vars => LoopInv' BY Zenon, LoopNext
<1>3. LoopInv => BuffersAccounted BY Zenon DEF LoopInv
<1> QED BY <1>1, <1>2, <1>3, PTL DEF Spec

-----------------------------------------------------------------------------
(* The routers: what a prefix is, in numbers *)

\* The order of the naturals is well founded.
LEMMA WellOrdered ==
  ASSUME NEW T \in SUBSET Nat, T # {}
  PROVE  \E x \in T : \A y \in T : x <= y
<1>1. PICK x \in T : \A y \in T : ~(<<y, x>> \in OpToRel(<, Nat))
  BY NatLessThanWellFounded, WFMin, Zenon
<1>2. \A y \in T : ~(y < x) BY <1>1, Zenon DEF OpToRel
<1> QED BY <1>2

\* Induction up to a bound, in a form the provers can use: P is a set.
LEMMA Induction ==
  ASSUME NEW n \in Nat, NEW P, 0 \in P, \A i \in 0..(n - 1) : i \in P => i + 1 \in P
  PROVE  \A i \in 0..n : i \in P
<1> DEFINE T == {i \in 0..n : i \notin P}
<1>1. SUFFICES ASSUME T # {} PROVE FALSE BY Zenon
<1>2. T \in SUBSET Nat OBVIOUS
<1>3. PICK x \in T : \A y \in T : x <= y
  <2> HIDE DEF T
  <2> QED BY <1>1, <1>2, WellOrdered, Zenon
<1>4. x \in Nat /\ x <= n /\ x \notin P OBVIOUS
<1>5. x # 0 BY Zenon, <1>4
<1>6. x - 1 \in 0..(n - 1) /\ x - 1 \in 0..n /\ (x - 1) + 1 = x BY <1>4, <1>5
<1>7. x - 1 \in P
  <2>1. x - 1 \notin T BY <1>3, <1>4
  <2> QED BY Zenon, <1>6, <2>1
<1> QED BY Zenon, <1>4, <1>6, <1>7

\* Division with remainder.
LEMMA Quotient ==
  ASSUME NEW x \in Nat, NEW d \in Nat \ {0}
  PROVE  /\ x \div d \in Nat /\ x % d \in 0..(d - 1)
         /\ x = d * (x \div d) + (x % d)
  OBVIOUS

\* A product grows with its factor.
LEMMA Grows ==
  ASSUME NEW d \in Nat, NEW m \in Int, NEW n \in Int, m <= n
  PROVE  d * m <= d * n
  OBVIOUS

\* The quotient is determined by what is left.
LEMMA QuotientIs ==
  ASSUME NEW d \in Nat \ {0}, NEW q \in Nat, NEW r \in 0..(d - 1), NEW x \in Nat, x = d * q + r
  PROVE  x \div d = q
<1> DEFINE p == x \div d
<1>1. p \in Nat /\ x % d \in 0..(d - 1) /\ x = d * p + (x % d) BY Zenon, Quotient
<1> HIDE DEF p
<1>2. CASE p + 1 <= q
  <2>1. d * (p + 1) <= d * q BY <1>1, <1>2, Grows
  <2> QED BY <1>1, <2>1
<1>3. CASE q + 1 <= p
  <2>1. d * (q + 1) <= d * p BY <1>1, <1>3, Grows
  <2> QED BY <1>1, <2>1
<1>4. p = q BY <1>1, <1>2, <1>3
<1> QED BY Zenon, <1>4 DEF p

\* Dividing by a product is dividing twice.
LEMMA QuotientOfQuotient ==
  ASSUME NEW x \in Nat, NEW c \in Nat \ {0}, NEW k \in Nat \ {0}
  PROVE  x \div (c * k) = (x \div c) \div k
<1> DEFINE u == x \div c
           v == u \div k
           t == u % k
           r == x % c
<1>1. u \in Nat /\ r \in 0..(c - 1) /\ x = c * u + r BY Zenon, Quotient
<1>2. v \in Nat /\ t \in 0..(k - 1) /\ u = k * v + t BY Zenon, <1>1, Quotient
<1> HIDE DEF u, v, t, r
<1>3. /\ x = c * (k * v + t) + r
      /\ t \in 0..(k - 1) /\ r \in 0..(c - 1) /\ v \in Nat
  BY Zenon, <1>1, <1>2
<1>4. x = (c * k) * v + (c * t + r) BY <1>3
<1>5. c * t + r \in 0..(c * k - 1)
  <2>1. c * (t + 1) <= c * k BY <1>3, Grows
  <2>2. c * 0 <= c * t BY <1>3, Grows
  <2> QED BY <1>3, <2>1, <2>2
<1>6. c * k \in Nat \ {0} OBVIOUS
<1>7. x \div (c * k) = v BY <1>3, <1>4, <1>5, <1>6, QuotientIs
<1> QED BY Zenon, <1>7 DEF u, v

\* How many addresses share a prefix of a length.
Share(len) == 2^(WIDTH - len)

\* A longer prefix by one bit is shared by half of them.
LEMMA Shares ==
  /\ \A n \in 0..WIDTH : Share(n) \in Nat \ {0}
  /\ \A n \in 0..(WIDTH - 1) : Share(n) = Share(n + 1) * 2
  /\ Share(0) = 2^WIDTH
<1>1. WIDTH \in Nat \ {0} BY Zenon, LpmAssumption
<1>2. \A n \in 0..WIDTH : Share(n) \in Nat \ {0} BY <1>1, PowersOfTwo DEF Share
<1>3. ASSUME NEW n \in 0..(WIDTH - 1) PROVE Share(n) = Share(n + 1) * 2
  <2>1. WIDTH - (n + 1) \in 0..WIDTH /\ 1 \in 0..WIDTH /\ (WIDTH - (n + 1)) + 1 = WIDTH - n
    BY <1>1
  <2>2. 2^((WIDTH - (n + 1)) + 1) = 2^(WIDTH - (n + 1)) * 2^1 BY Zenon, <2>1, PowersOfTwo
  <2> QED BY Zenon, <2>1, <2>2, PowersOfTwo DEF Share
<1>4. Share(0) = 2^WIDTH BY <1>1 DEF Share
<1> QED BY Zenon, <1>2, <1>3, <1>4

\* Two addresses have the same prefix when what is left of them without the
\* rest of their bits is the same number.
LEMMA SamePrefix ==
  ASSUME NEW x \in AllAddresses, NEW y \in AllAddresses, NEW len \in 0..WIDTH
  PROVE  Prefix(x, len) = Prefix(y, len) <=> x \div Share(len) = y \div Share(len)
<1> DEFINE P == {n \in 0..WIDTH : Prefix(x, n) = Prefix(y, n) <=> x \div Share(n) = y \div Share(n)}
<1>1. WIDTH \in Nat \ {0} BY Zenon, LpmAssumption
<1>2. x \in Nat /\ y \in Nat /\ x < Share(0) /\ y < Share(0) /\ Share(0) \in Nat \ {0}
  BY <1>1, Shares DEF AllAddresses
<1>3. 0 \in P
  <2>1. x \div Share(0) = 0 /\ y \div Share(0) = 0
    <3> DEFINE d == Share(0)
    <3> HIDE DEF d
    <3>1. d \in Nat \ {0} /\ x < d /\ y < d BY Zenon, <1>2 DEF d
    <3>2. x = d * 0 + x /\ y = d * 0 + y /\ x \in 0..(d - 1) /\ y \in 0..(d - 1) BY <1>2, <3>1
    <3>3. x \div d = 0 /\ y \div d = 0 BY <1>2, <3>1, <3>2, QuotientIs
    <3> QED BY Zenon, <3>3 DEF d
  <2>2. Prefix(x, 0) = Prefix(y, 0) BY DEF Prefix
  <2> QED BY <1>1, <2>1, <2>2
<1>4. ASSUME NEW n \in 0..(WIDTH - 1), n \in P PROVE n + 1 \in P
  <2> DEFINE c == Share(n + 1)
             u == x \div c
             v == y \div c
  <2>1. n \in 0..WIDTH /\ n + 1 \in 0..WIDTH /\ n \in Nat BY <1>1
  <2>2. c \in Nat \ {0} /\ Share(n) = c * 2 BY Zenon, <2>1, Shares
  <2>3. u \in Nat /\ v \in Nat BY Zenon, <1>2, <2>2, Quotient
  <2>4. x \div Share(n) = u \div 2 /\ y \div Share(n) = v \div 2
    <3> HIDE DEF c
    <3>1. 2 \in Nat \ {0} OBVIOUS
    <3>2. x \div (c * 2) = (x \div c) \div 2 /\ y \div (c * 2) = (y \div c) \div 2
      BY <1>2, <2>2, <3>1, QuotientOfQuotient, Zenon
    <3> QED BY <2>2, <3>2, Zenon
  <2>5. Prefix(x, n + 1) = Prefix(y, n + 1) <=> Prefix(x, n) = Prefix(y, n) /\ u % 2 = v % 2
    <3> DEFINE bit(z) == [i \in 1..(n + 1) |-> (z \div Share(i)) % 2]
    <3>1. \A z : Prefix(z, n + 1) = bit(z) BY Zenon DEF Prefix, Share
    <3>2. \A z : Prefix(z, n) = [i \in 1..n |-> (z \div Share(i)) % 2] BY Zenon DEF Prefix, Share
    <3>3. 1..(n + 1) = 1..n \cup {n + 1} BY <2>1
    <3> HIDE DEF Share, c
    <3>4. bit(x) = bit(y) <=> \A i \in 1..(n + 1) : (x \div Share(i)) % 2 = (y \div Share(i)) % 2
      <4>1. /\ \A i \in 1..(n + 1) : bit(x)[i] = (x \div Share(i)) % 2
            /\ \A i \in 1..(n + 1) : bit(y)[i] = (y \div Share(i)) % 2
        BY Zenon
      <4> QED BY <4>1, Zenon
    <3>5. Prefix(x, n) = Prefix(y, n) <=>
            \A i \in 1..n : (x \div Share(i)) % 2 = (y \div Share(i)) % 2
      <4> DEFINE short(z) == [i \in 1..n |-> (z \div Share(i)) % 2]
      <4>1. /\ \A i \in 1..n : short(x)[i] = (x \div Share(i)) % 2
            /\ \A i \in 1..n : short(y)[i] = (y \div Share(i)) % 2
        BY Zenon
      <4>2. short(x) = short(y) <=> \A i \in 1..n : (x \div Share(i)) % 2 = (y \div Share(i)) % 2
        BY <4>1, Zenon
      <4> QED BY <3>2, <4>2, Zenon
    <3> QED BY <3>1, <3>3, <3>4, <3>5, Zenon DEF c
  <2>6. u = v <=> u \div 2 = v \div 2 /\ u % 2 = v % 2
    <3> HIDE DEF u, v
    <3> QED BY <2>3
  <2>7. Prefix(x, n + 1) = Prefix(y, n + 1) <=> u = v
    BY <1>4, <2>4, <2>5, <2>6, Zenon
  <2> QED BY Zenon, <2>1, <2>7
<1> HIDE DEF P
<1>5. \A n \in 0..WIDTH : n \in P BY Zenon, <1>1, <1>3, <1>4, Induction
<1> QED BY Zenon, <1>5 DEF P

\* A route has an address, a length and a device.
LEMMA RouteFacts ==
  ASSUME NEW r \in Routes
  PROVE  r[1] \in AllAddresses /\ r[2] \in 1..WIDTH /\ r[2] \in 0..WIDTH /\ r[3] \in Int
<1>1. r \in AllAddresses \X (1..WIDTH) \X Int BY Zenon, LpmAssumption
<1>2. r[1] \in AllAddresses /\ r[2] \in 1..WIDTH /\ r[3] \in Int BY Zenon, <1>1
<1> QED BY <1>2, LpmAssumption

\* The cells of a route no longer than the direct array's are those of the
\* addresses that have its prefix.
LEMMA CoveredIs ==
  ASSUME NEW a \in AllAddresses, NEW ip \in AllAddresses, NEW len \in 0..LONGEST_PREFIX
  PROVE  Cell(ip) \in Covered(a, len) <=> Prefix(ip, len) = Prefix(a, len)
<1> DEFINE c == Share(LONGEST_PREFIX)
           k == 2^(LONGEST_PREFIX - len)
           s == Share(len)
           q == a \div s
           first == a - (a % s)
           i == Cell(ip)
<1>1. WIDTH \in Nat /\ LONGEST_PREFIX \in 0..WIDTH /\ len \in 0..WIDTH
  BY LpmAssumption
<1>2. c \in Nat \ {0} /\ s \in Nat \ {0} BY Zenon, <1>1, Shares
<1>3. k \in Nat \ {0} /\ s = c * k
  <2>1. WIDTH - LONGEST_PREFIX \in 0..WIDTH /\ LONGEST_PREFIX - len \in 0..WIDTH
    BY <1>1
  <2>2. (WIDTH - LONGEST_PREFIX) + (LONGEST_PREFIX - len) = WIDTH - len BY <1>1
  <2>3. 2^((WIDTH - LONGEST_PREFIX) + (LONGEST_PREFIX - len))
          = 2^(WIDTH - LONGEST_PREFIX) * 2^(LONGEST_PREFIX - len)
    BY Zenon, <2>1, PowersOfTwo
  <2>4. k \in Nat \ {0} BY Zenon, <2>1, PowersOfTwo
  <2> QED BY Zenon, <2>2, <2>3, <2>4 DEF Share
<1>4. a \in Nat /\ ip \in Nat BY <1>1, Shares DEF AllAddresses
<1>5. i = ip \div c /\ Covered(a, len) = (first \div c)..((first + s - 1) \div c)
  BY Zenon DEF Cell, Covered, Share
<1> HIDE DEF c, k, s, i
<1>6. i \in Nat /\ i \div k = ip \div s
  <2>1. c \in Nat \ {0} /\ k \in Nat \ {0} BY Zenon, <1>2, <1>3
  <2>2. ip \div (c * k) = (ip \div c) \div k BY <1>4, <2>1, QuotientOfQuotient, Zenon
  <2>3. ip \div c \in Nat BY Zenon, <1>2, <1>4, Quotient
  <2> QED BY <1>3, <1>5, <2>2, <2>3, Zenon
<1>7. q \in Nat /\ a % s \in 0..(s - 1) /\ a = s * q + (a % s) BY Zenon, <1>2, <1>4, Quotient
<1> HIDE DEF q
<1>8. first = c * (k * q) /\ k * q \in Nat
  <2>1. first = s * q BY <1>2, <1>4, <1>7
  <2>2. s * q = c * (k * q) BY <1>2, <1>3, <1>7
  <2> QED BY <1>3, <1>7, <2>1, <2>2
<1> HIDE DEF first
<1>9. first \div c = k * q
  <2>1. first = c * (k * q) + 0 /\ first \in Nat /\ 0 \in 0..(c - 1) BY <1>2, <1>8
  <2> QED BY <1>2, <1>8, <2>1, QuotientIs
<1>10. (first + s - 1) \div c = k * q + k - 1
  <2> DEFINE m == k * q + k - 1
  <2>1. m \in Nat /\ first + s - 1 \in Nat BY <1>2, <1>3, <1>8
  <2>2. first + s - 1 = c * m + (c - 1) BY <1>2, <1>3, <1>7, <1>8
  <2>3. c - 1 \in 0..(c - 1) BY <1>2
  <2> HIDE DEF m
  <2>4. (first + s - 1) \div c = m BY <1>2, <2>1, <2>2, <2>3, QuotientIs
  <2> QED BY Zenon, <2>4 DEF m
<1>11. i \in Covered(a, len) <=> k * q <= i /\ i <= k * q + k - 1
  BY <1>3, <1>5, <1>6, <1>8, <1>9, <1>10
<1>12. i \in Covered(a, len) <=> i \div k = q
  <2>1. ASSUME i \div k = q PROVE i \in Covered(a, len)
    <3> DEFINE r == i % k
    <3>1. r \in 0..(k - 1) /\ i = k * (i \div k) + r BY Zenon, <1>3, <1>6, Quotient
    <3> HIDE DEF r
    <3>2. i = k * q + r BY <2>1, <3>1, Zenon
    <3>3. k \in Nat /\ k * q \in Nat BY Zenon, <1>3, <1>8
    <3> QED BY <1>11, <3>1, <3>2, <3>3
  <2>2. ASSUME i \in Covered(a, len) PROVE i \div k = q
    <3> DEFINE r == i - k * q
    <3>1. r \in 0..(k - 1) /\ i = k * q + r BY <1>3, <1>6, <1>8, <1>11, <2>2
    <3> HIDE DEF r
    <3> QED BY Zenon, <1>3, <1>6, <1>7, <3>1, QuotientIs
  <2> QED BY Zenon, <2>1, <2>2
<1>13. Prefix(ip, len) = Prefix(a, len) <=> ip \div s = q
  BY Zenon, <1>1, SamePrefix DEF s, q
<1> QED BY <1>6, <1>12, <1>13, Zenon DEF i

-----------------------------------------------------------------------------
(* The routers: the tables and the routes read *)

\* Of some routes, the longest and of these the last read.
Chosen(rs, S, j) ==
  /\ j \in S
  /\ \A i \in S : rs[i][2] < rs[j][2] \/ (rs[i][2] = rs[j][2] /\ i <= j)

\* The routes that cover a cell of the direct array.
CellRules(rs, cell) == {j \in DOMAIN rs : cell \in Covered(rs[j][1], rs[j][2])}

\* The routes that lead to a node and have a device.
NodeRules(rs, node, null) ==
  {j \in DOMAIN rs : Prefix(rs[j][1], rs[j][2]) = node /\ rs[j][3] # null}

Nodes == {Prefix(ip, len) : ip \in AllAddresses, len \in 0..WIDTH}

\* A cell of the direct array has the chosen route of those that cover it.
CellsRight ==
  /\ DOMAIN lpm = 0..(2^LONGEST_PREFIX - 1)
  /\ \A j \in DOMAIN rules : rules[j][2] <= LONGEST_PREFIX
  /\ \A i \in DOMAIN lpm :
       \/ CellRules(rules, i) = {} /\ lpm[i] = [port |-> 0, prefix_len |-> 0]
       \/ \E j \in DOMAIN rules :
            /\ Chosen(rules, CellRules(rules, i), j)
            /\ lpm[i] = [port |-> rules[j][3], prefix_len |-> rules[j][2]]

\* A node has the device of the last route that leads to it.
NodesRight ==
  \A node \in Nodes :
    \/ /\ NodeRules(rules, node, NULL_PORT) = {}
       /\ node \in DOMAIN lpm => lpm[node] = NULL_PORT
    \/ \E j \in NodeRules(rules, node, NULL_PORT) :
         /\ \A i \in NodeRules(rules, node, NULL_PORT) : i <= j
         /\ node \in DOMAIN lpm /\ lpm[node] = rules[j][3]

\* The table agrees with the routes accepted.
LpmInv ==
  /\ router \in {"lpm_da", "lpm_btrie", "lpm_dpdklpm", "asn_trie"}
  /\ rules \in Seq(Routes)
  /\ router # "asn_trie" => \A j \in DOMAIN rules : rules[j][3] \in 0..nb_devices
  /\ router = "lpm_da" => CellsRight
  /\ router # "lpm_da" => NodesRight
  /\ router = "lpm_dpdklpm" => \A node \in DOMAIN lpm : lpm[node] # NULL_PORT

\* The largest number of a set.
LEMMA MaxIs ==
  ASSUME NEW S, S \subseteq Int, NEW m \in S, \A y \in S : y <= m
  PROVE  Max(S) = m
<1>1. \A y \in S : m >= y BY Zenon
<1>2. Max(S) \in S /\ \A y \in S : Max(S) >= y BY <1>1, Zenon DEF Max
<1>3. Max(S) >= m /\ m >= Max(S) /\ Max(S) \in Int /\ m \in Int BY Zenon, <1>1, <1>2
<1> QED BY <1>3

\* One more route.
LEMMA MoreRoutes ==
  ASSUME NEW rs \in Seq(Routes), NEW r \in Routes
  PROVE  /\ Append(rs, r) \in Seq(Routes)
         /\ DOMAIN Append(rs, r) = DOMAIN rs \cup {Len(rs) + 1}
         /\ Append(rs, r)[Len(rs) + 1] = r
         /\ Len(rs) + 1 \notin DOMAIN rs
         /\ \A j \in DOMAIN rs : Append(rs, r)[j] = rs[j] /\ rs[j] \in Routes
         /\ \A j \in DOMAIN rs : j \in Int /\ j < Len(rs) + 1
         /\ Len(rs) + 1 \in Int
  OBVIOUS

\* The routes of a table.
LEMMA RulesFacts ==
  ASSUME rules \in Seq(Routes), NEW j \in DOMAIN rules
  PROVE  /\ j \in Int /\ rules[j] \in Routes
         /\ rules[j][1] \in AllAddresses /\ rules[j][2] \in 1..WIDTH /\ rules[j][2] \in 0..WIDTH
         /\ rules[j][2] \in Int /\ rules[j][3] \in Int
<1>1. j \in Int /\ rules[j] \in Routes OBVIOUS
<1>2. /\ rules[j][1] \in AllAddresses /\ rules[j][2] \in 1..WIDTH /\ rules[j][2] \in 0..WIDTH
      /\ rules[j][3] \in Int
  BY Zenon, <1>1, RouteFacts
<1> QED BY <1>1, <1>2, LpmAssumption

\* What FindsLongest asks for is the chosen route of the matching ones.
LEMMA ChosenIsLongest ==
  ASSUME rules \in Seq(Routes), NEW ip, NEW j, Chosen(rules, Matching(ip, LookedAt), j)
  PROVE  LET longest == Max({rules[i][2] : i \in Matching(ip, LookedAt)})
             last == Max({i \in Matching(ip, LookedAt) : rules[i][2] = longest})
         IN  Matching(ip, LookedAt) # {} /\ last = j
<1> DEFINE M == Matching(ip, LookedAt)
           lens == {rules[i][2] : i \in M}
           longest == Max(lens)
           best == {i \in M : rules[i][2] = longest}
<1>1. M \subseteq DOMAIN rules BY Zenon DEF Matching
<1>2. \A i \in M : i \in Int /\ rules[i][2] \in Int BY Zenon, <1>1, RulesFacts
<1>3. j \in M /\ \A i \in M : rules[i][2] < rules[j][2] \/ (rules[i][2] = rules[j][2] /\ i <= j)
  BY Zenon DEF Chosen
<1> HIDE DEF M
<1>4. longest = rules[j][2]
  <2>1. lens \subseteq Int /\ rules[j][2] \in lens /\ \A y \in lens : y <= rules[j][2]
    BY <1>2, <1>3
  <2> HIDE DEF lens
  <2> QED BY Zenon, <2>1, MaxIs
<1>5. Max(best) = j
  <2> HIDE DEF longest
  <2>1. best \subseteq Int /\ j \in best /\ \A y \in best : y <= j
    BY <1>2, <1>3, <1>4
  <2> HIDE DEF best
  <2> QED BY Zenon, <2>1, MaxIs
<1> QED BY <1>3, <1>5, Zenon DEF M

\* The property holds of an address when the lookup gives the device of the chosen route.
LEMMA FindsChosen ==
  ASSUME rules \in Seq(Routes), NEW ip, NEW j, Chosen(rules, Matching(ip, LookedAt), j),
         Lookup(ip) = rules[j][3]
  PROVE  FindsLongest(ip, LookedAt)
<1> DEFINE longest == Max({rules[i][2] : i \in Matching(ip, LookedAt)})
           last == Max({i \in Matching(ip, LookedAt) : rules[i][2] = longest})
<1>1. Matching(ip, LookedAt) # {} /\ last = j BY ChosenIsLongest, Zenon
<1>2. Lookup(ip) = rules[last][3] BY <1>1, Zenon
<1> QED BY <1>1, <1>2, Zenon DEF FindsLongest

\* Every address has a cell.
LEMMA CellOfAddress ==
  ASSUME NEW ip \in AllAddresses
  PROVE  Cell(ip) \in 0..(2^LONGEST_PREFIX - 1)
<1> DEFINE c == 2^(WIDTH - LONGEST_PREFIX)
           n == 2^LONGEST_PREFIX
           u == ip \div c
<1>1. /\ WIDTH \in Nat /\ LONGEST_PREFIX \in 0..WIDTH /\ WIDTH \in 0..WIDTH
      /\ WIDTH - LONGEST_PREFIX \in 0..WIDTH
      /\ (WIDTH - LONGEST_PREFIX) + LONGEST_PREFIX = WIDTH
  BY LpmAssumption
<1>2. 2^((WIDTH - LONGEST_PREFIX) + LONGEST_PREFIX) = c * n BY Zenon, <1>1, PowersOfTwo
<1>3. c \in Nat \ {0} /\ n \in Nat \ {0} /\ 2^WIDTH \in Nat BY Zenon, <1>1, PowersOfTwo
<1>4. ip \in Nat /\ ip < c * n
  <2>1. 2^WIDTH = c * n BY Zenon, <1>1, <1>2
  <2>2. ip \in Nat /\ ip < 2^WIDTH BY <1>3 DEF AllAddresses
  <2> QED BY Zenon, <2>1, <2>2
<1> HIDE DEF c, n
<1>5. u \in Nat /\ ip % c \in 0..(c - 1) /\ ip = c * u + (ip % c) BY Zenon, <1>3, <1>4, Quotient
<1> HIDE DEF u
<1>6. ~(n <= u)
  <2>1. SUFFICES ASSUME n <= u PROVE FALSE BY Zenon
  <2>2. c * n <= c * u BY <1>3, <1>5, <2>1, Grows
  <2>3. c * n \in Int /\ c * u \in Int BY <1>3, <1>5
  <2> QED BY <1>4, <1>5, <2>2, <2>3
<1>7. u \in 0..(n - 1) BY <1>3, <1>5, <1>6
<1> QED BY Zenon, <1>7 DEF Cell, u, c, n

\* The direct array finds the chosen route.
LEMMA CellsFind ==
  ASSUME LpmInv, router = "lpm_da", NEW ip \in AllAddresses
  PROVE  FindsLongest(ip, LookedAt)
<1> DEFINE i == Cell(ip)
<1>1. /\ rules \in Seq(Routes) /\ CellsRight
      /\ \A j \in DOMAIN rules : rules[j][3] \in 0..nb_devices
  BY Zenon DEF LpmInv
<1>2. i \in DOMAIN lpm BY Zenon, <1>1, CellOfAddress DEF CellsRight
<1>3. Matching(ip, LookedAt) = CellRules(rules, i)
  <2>1. ASSUME NEW j \in DOMAIN rules
        PROVE  j \in Matching(ip, LookedAt) <=> j \in CellRules(rules, i)
    <3>1. rules[j][1] \in AllAddresses /\ rules[j][2] \in 1..WIDTH /\ rules[j][2] <= LONGEST_PREFIX
      BY Zenon, <1>1, RulesFacts DEF CellsRight
    <3>2. rules[j][2] \in 0..LONGEST_PREFIX BY <3>1, LpmAssumption
    <3>3. i \in Covered(rules[j][1], rules[j][2]) <=>
            Prefix(ip, rules[j][2]) = Prefix(rules[j][1], rules[j][2])
      BY Zenon, <3>1, <3>2, CoveredIs
    <3>4. rules[j][3] # NULL_PORT BY <1>1, LpmAssumption DEF NULL_PORT
    <3>5. rules[j][2] <= LookedAt BY <3>1, LpmAssumption DEF LookedAt, Tries
    <3> QED BY <3>3, <3>4, <3>5, Zenon DEF Matching, CellRules
  <2> QED BY Zenon, <2>1 DEF Matching, CellRules
<1>4. Lookup(ip) = lpm[i].port BY Zenon DEF Lookup, da_get
<1>5. CASE CellRules(rules, i) = {} /\ lpm[i] = [port |-> 0, prefix_len |-> 0]
  <2>1. Lookup(ip) = 0 /\ Matching(ip, LookedAt) = {} BY <1>3, <1>4, <1>5
  <2> QED BY <2>1, Zenon DEF FindsLongest
<1>6. ASSUME NEW j \in DOMAIN rules, Chosen(rules, CellRules(rules, i), j),
             lpm[i] = [port |-> rules[j][3], prefix_len |-> rules[j][2]]
      PROVE  FindsLongest(ip, LookedAt)
  <2>1. Lookup(ip) = rules[j][3] BY <1>4, <1>6
  <2>2. Chosen(rules, Matching(ip, LookedAt), j) BY Zenon, <1>3, <1>6
  <2> QED BY Zenon, <1>1, <2>1, <2>2, FindsChosen
<1> QED BY Zenon, <1>1, <1>2, <1>5, <1>6 DEF CellsRight

\* Prefixes of different lengths differ.
LEMMA PrefixLength ==
  ASSUME NEW x, NEW y, NEW m \in Nat, NEW n \in Nat, Prefix(x, m) = Prefix(y, n)
  PROVE  m = n
<1>1. DOMAIN Prefix(x, m) = 1..m /\ DOMAIN Prefix(y, n) = 1..n BY Zenon DEF Prefix
<1>2. 1..m = 1..n BY Zenon, <1>1
<1>3. CASE m < n
  <2>1. n \in 1..n /\ n \notin 1..m BY <1>3
  <2> QED BY Zenon, <1>2, <2>1
<1>4. CASE n < m
  <2>1. m \in 1..m /\ m \notin 1..n BY <1>4
  <2> QED BY Zenon, <1>2, <2>1
<1> QED BY <1>3, <1>4

\* A bounded set of numbers has a largest one.
LEMMA HasMax ==
  ASSUME NEW n \in Nat, NEW S, S \subseteq 0..n, S # {}
  PROVE  \E m \in S : \A y \in S : y <= m
<1> DEFINE T == {n - y : y \in S}
<1>1. T \in SUBSET Nat /\ T # {}
  <2>1. \A y \in S : y \in 0..n /\ n - y \in Nat OBVIOUS
  <2> QED BY Zenon, <2>1
<1>2. PICK x \in T : \A y \in T : x <= y
  <2> HIDE DEF T
  <2> QED BY <1>1, WellOrdered, Zenon
<1>3. PICK m \in S : x = n - m BY Zenon
<1>4. \A y \in S : n - m <= n - y BY Zenon, <1>2, <1>3
<1>5. ASSUME NEW y \in S PROVE y <= m
  <2>1. y \in 0..n /\ m \in 0..n /\ n - m <= n - y BY Zenon, <1>4
  <2> QED BY <2>1
<1> QED BY Zenon, <1>5

\* The depths at which a node on the way to an address has a device.
Depths(ip, N) ==
  {n \in N : Prefix(ip, n) \in DOMAIN lpm /\ lpm[Prefix(ip, n)] # NULL_PORT}

\* There is a matching route at each of them, the last of its length.
LEMMA DepthHasRoute ==
  ASSUME LpmInv, router # "lpm_da", NEW ip \in AllAddresses, NEW N, N \subseteq 0..WIDTH,
         router \in {"lpm_btrie", "asn_trie"} => \A n \in N : n < WIDTH,
         NEW n \in Depths(ip, N)
  PROVE  \E j \in Matching(ip, LookedAt) :
           /\ rules[j][2] = n /\ lpm[Prefix(ip, n)] = rules[j][3]
           /\ \A i \in Matching(ip, LookedAt) : rules[i][2] = n => i <= j
<1> DEFINE node == Prefix(ip, n)
<1>1. rules \in Seq(Routes) /\ NodesRight BY Zenon DEF LpmInv
<1>2. n \in N /\ n \in 0..WIDTH /\ node \in DOMAIN lpm /\ lpm[node] # NULL_PORT BY Zenon DEF Depths
<1>3. node \in Nodes BY <1>2 DEF Nodes
<1>4. PICK j \in NodeRules(rules, node, NULL_PORT) :
         /\ \A i \in NodeRules(rules, node, NULL_PORT) : i <= j
         /\ lpm[node] = rules[j][3]
  BY <1>1, <1>2, <1>3, Zenon DEF NodesRight
<1>5. j \in DOMAIN rules /\ Prefix(rules[j][1], rules[j][2]) = node /\ rules[j][3] # NULL_PORT
  BY Zenon DEF NodeRules
<1>6. rules[j][2] = n
  <2>1. rules[j][2] \in Nat /\ n \in Nat BY <1>1, <1>2, <1>5, RulesFacts, LpmAssumption
  <2> QED BY Zenon, <1>5, <2>1, PrefixLength
<1>7. j \in Matching(ip, LookedAt)
  <2>1. n <= LookedAt BY <1>2, LpmAssumption DEF LookedAt, Tries
  <2> QED BY <1>2, <1>5, <1>6, <2>1, Zenon DEF Matching
<1>8. ASSUME NEW i \in Matching(ip, LookedAt), rules[i][2] = n PROVE i <= j
  <2>1. i \in NodeRules(rules, node, NULL_PORT) BY <1>8, Zenon DEF Matching, NodeRules
  <2> QED BY Zenon, <1>4, <2>1
<1> QED BY Zenon, <1>4, <1>6, <1>7, <1>8

\* The walk down a trie, and the library's lookup, find the chosen route.
LEMMA NodesFind ==
  ASSUME LpmInv, router # "lpm_da", NEW ip \in AllAddresses, NEW N, N \subseteq 0..WIDTH,
         router \in {"lpm_btrie", "asn_trie"} => \A n \in N : n < WIDTH,
         \A j \in Matching(ip, LookedAt) : rules[j][2] \in N,
         Lookup(ip) = IF Depths(ip, N) = {} THEN NULL_PORT
                      ELSE lpm[Prefix(ip, Max(Depths(ip, N)))]
  PROVE  FindsLongest(ip, LookedAt)
<1> DEFINE F == Depths(ip, N)
<1>1. rules \in Seq(Routes) /\ NodesRight BY Zenon DEF LpmInv
<1>2. ASSUME NEW j \in Matching(ip, LookedAt) PROVE rules[j][2] \in F
  <2> DEFINE node == Prefix(ip, rules[j][2])
  <2>1. j \in DOMAIN rules /\ rules[j][2] \in 0..WIDTH BY Zenon, <1>1, RulesFacts DEF Matching
  <2>2. node \in Nodes BY <2>1 DEF Nodes
  <2>3. j \in NodeRules(rules, node, NULL_PORT) BY <2>1, Zenon DEF Matching, NodeRules
  <2>4. PICK i \in NodeRules(rules, node, NULL_PORT) : node \in DOMAIN lpm /\ lpm[node] = rules[i][3]
    BY <1>1, <2>2, <2>3, Zenon DEF NodesRight
  <2>5. lpm[node] # NULL_PORT BY <2>4, Zenon DEF NodeRules
  <2> QED BY <2>4, <2>5, Zenon DEF Depths
<1>3. CASE F = {}
  <2>1. Matching(ip, LookedAt) = {} BY Zenon, <1>2, <1>3
  <2>2. Lookup(ip) = NULL_PORT BY Zenon, <1>3
  <2> QED BY <2>1, <2>2, Zenon DEF FindsLongest
<1>4. CASE F # {}
  <2>1. F \subseteq 0..WIDTH /\ F \subseteq Int
    <3>1. F \subseteq N BY Zenon DEF Depths
    <3>2. 0..WIDTH \subseteq Int BY LpmAssumption
    <3> HIDE DEF F
    <3> QED BY <3>1, <3>2, Zenon
  <2> HIDE DEF F
  <2>2. PICK m \in F : \A y \in F : y <= m BY Zenon, <1>4, <2>1, HasMax, LpmAssumption
  <2>3. Max(F) = m BY Zenon, <2>1, <2>2, MaxIs
  <2>4. PICK j \in Matching(ip, LookedAt) :
          /\ rules[j][2] = m /\ lpm[Prefix(ip, m)] = rules[j][3]
          /\ \A i \in Matching(ip, LookedAt) : rules[i][2] = m => i <= j
    BY DepthHasRoute, Zenon DEF F
  <2>5. Lookup(ip) = rules[j][3] BY <1>4, <2>3, <2>4, Zenon DEF F
  <2>6. Chosen(rules, Matching(ip, LookedAt), j)
    <3>1. ASSUME NEW i \in Matching(ip, LookedAt)
          PROVE  rules[i][2] < rules[j][2] \/ (rules[i][2] = rules[j][2] /\ i <= j)
      <4>1. rules[i][2] \in F /\ rules[i][2] <= m BY Zenon, <1>2, <2>2
      <4>2. rules[i][2] \in Int /\ m \in Int BY Zenon, <2>1, <4>1
      <4>3. rules[i][2] < m \/ rules[i][2] = m BY <4>1, <4>2
      <4> QED BY <2>4, <4>3, Zenon
    <3> QED BY <3>1, Zenon DEF Chosen
  <2> QED BY Zenon, <1>1, <2>5, <2>6, FindsChosen
<1> QED BY Zenon, <1>3, <1>4

\* A table that agrees with the routes is looked up right.
LEMMA TableFinds ==
  ASSUME LpmInv
  PROVE  LongestMatchInReach
<1>1. ASSUME NEW ip \in AllAddresses PROVE FindsLongest(ip, LookedAt)
  <2>1. CASE router = "lpm_da" BY Zenon, <2>1, CellsFind
  <2>2. CASE router \in {"lpm_btrie", "asn_trie"}
    <3> DEFINE N == 0..(WIDTH - 1)
    <3>1. N \subseteq 0..WIDTH /\ \A n \in N : n < WIDTH BY LpmAssumption
    <3>2. \A j \in Matching(ip, LookedAt) : rules[j][2] \in N
      BY <2>2, RulesFacts, LpmAssumption DEF LpmInv, Matching, LookedAt, Tries
    <3>3. Lookup(ip) = IF Depths(ip, N) = {} THEN NULL_PORT
                       ELSE lpm[Prefix(ip, Max(Depths(ip, N)))]
      BY <2>2, Zenon DEF Lookup, trie_get, Depths
    <3> HIDE DEF N
    <3> QED BY Zenon, <2>2, <3>1, <3>2, <3>3, NodesFind
  <2>3. CASE router = "lpm_dpdklpm"
    <3> DEFINE N == 1..WIDTH
    <3>1. N \subseteq 0..WIDTH BY LpmAssumption
    <3>2. \A j \in Matching(ip, LookedAt) : rules[j][2] \in N BY Zenon, RulesFacts DEF LpmInv, Matching
    <3>3. Depths(ip, N) = {n \in 1..WIDTH : Prefix(ip, n) \in DOMAIN lpm}
      BY Zenon, <2>3 DEF LpmInv, Depths
    <3>4. Lookup(ip) = IF Depths(ip, N) = {} THEN NULL_PORT
                       ELSE lpm[Prefix(ip, Max(Depths(ip, N)))]
      <4>1. Lookup(ip) = rte_lpm_lookup(ip) BY Zenon, <2>3 DEF Lookup
      <4> QED BY <3>3, <4>1, Zenon DEF rte_lpm_lookup
    <3> HIDE DEF N
    <3> QED BY Zenon, <2>3, <3>1, <3>2, <3>4, NodesFind
  <2> QED BY Zenon, <2>1, <2>2, <2>3 DEF LpmInv
<1> QED BY <1>1, Zenon DEF LongestMatchInReach

\* The routes that cover a cell, when one more has been read.
LEMMA MoreCellRules ==
  ASSUME NEW rs \in Seq(Routes), NEW r \in Routes, NEW cell
  PROVE  CellRules(Append(rs, r), cell)
           = CellRules(rs, cell) \cup (IF cell \in Covered(r[1], r[2]) THEN {Len(rs) + 1} ELSE {})
<1> DEFINE s == Append(rs, r)
           n == Len(rs) + 1
<1>1. /\ DOMAIN s = DOMAIN rs \cup {n} /\ s[n] = r /\ n \notin DOMAIN rs
      /\ \A j \in DOMAIN rs : s[j] = rs[j]
  BY MoreRoutes
<1>2. /\ \A j : j \in CellRules(s, cell) <=> j \in DOMAIN s /\ cell \in Covered(s[j][1], s[j][2])
      /\ \A j : j \in CellRules(rs, cell) <=> j \in DOMAIN rs /\ cell \in Covered(rs[j][1], rs[j][2])
  BY Zenon DEF CellRules
<1> HIDE DEF s, n
<1>3. CASE cell \in Covered(r[1], r[2])
  <2>1. CellRules(s, cell) = CellRules(rs, cell) \cup {n} BY <1>1, <1>2, <1>3, Zenon
  <2> QED BY <1>3, <2>1, Zenon DEF s, n
<1>4. CASE cell \notin Covered(r[1], r[2])
  <2>1. CellRules(s, cell) = CellRules(rs, cell) \cup {} BY <1>1, <1>2, <1>4, Zenon
  <2> QED BY <1>4, <2>1, Zenon DEF s, n
<1> QED BY Zenon, <1>3, <1>4

\* A route of the direct array overwrites the cells it covers, but for those of
\* longer routes.
LEMMA CellsSet ==
  ASSUME CellsRight, rules \in Seq(Routes), NEW r \in Routes, r[2] <= LONGEST_PREFIX,
         lpm' = da_set(r[1], r[2], r[3]), rules' = Append(rules, r)
  PROVE  CellsRight'
<1> DEFINE n == Len(rules) + 1
<1>1. /\ DOMAIN rules' = DOMAIN rules \cup {n} /\ rules'[n] = r /\ n \notin DOMAIN rules
      /\ \A j \in DOMAIN rules : rules'[j] = rules[j]
      /\ \A j \in DOMAIN rules : j \in Int /\ j < n
      /\ n \in Int
  BY MoreRoutes
<1>2. ASSUME NEW j \in DOMAIN rules PROVE rules[j][2] \in Int /\ rules[j][2] >= 1
  <2>1. rules[j][2] \in 1..WIDTH BY Zenon, RulesFacts
  <2> QED BY <2>1, LpmAssumption
<1>3. r[2] \in Int /\ r[2] >= 1 BY RouteFacts, LpmAssumption
<1>4. DOMAIN lpm' = DOMAIN lpm BY Zenon DEF da_set
<1> HIDE DEF n
<1>5. \A j \in DOMAIN rules' : rules'[j][2] <= LONGEST_PREFIX
  BY Zenon, <1>1 DEF CellsRight
<1>6. ASSUME NEW i \in DOMAIN lpm
      PROVE  \/ CellRules(rules', i) = {} /\ lpm'[i] = [port |-> 0, prefix_len |-> 0]
             \/ \E j \in DOMAIN rules' :
                  /\ Chosen(rules', CellRules(rules', i), j)
                  /\ lpm'[i] = [port |-> rules'[j][3], prefix_len |-> rules'[j][2]]
  <2> DEFINE S == CellRules(rules, i)
             S1 == CellRules(rules', i)
  <2>1. S \subseteq DOMAIN rules BY Zenon DEF CellRules
  <2>2. S1 = S \cup (IF i \in Covered(r[1], r[2]) THEN {n} ELSE {})
    BY MoreCellRules, Zenon DEF n
  <2>3. \/ S = {} /\ lpm[i] = [port |-> 0, prefix_len |-> 0]
        \/ \E j \in DOMAIN rules : /\ Chosen(rules, S, j)
                                   /\ lpm[i] = [port |-> rules[j][3], prefix_len |-> rules[j][2]]
    BY Zenon DEF CellsRight
  <2>4. lpm'[i] = IF i \in Covered(r[1], r[2]) /\ lpm[i].prefix_len <= r[2]
                  THEN [port |-> r[3], prefix_len |-> r[2]] ELSE lpm[i]
    BY Zenon DEF da_set
  <2> HIDE DEF S, S1
  <2>5. CASE i \in Covered(r[1], r[2]) /\ lpm[i].prefix_len <= r[2]
    <3>1. \A j \in S : rules[j][2] <= r[2]
      <4>1. CASE S = {} BY Zenon, <4>1
      <4>2. ASSUME NEW j \in DOMAIN rules, Chosen(rules, S, j), lpm[i].prefix_len = rules[j][2]
            PROVE  \A k \in S : rules[k][2] <= r[2]
        BY <1>2, <1>3, <2>1, <2>5, <4>2 DEF Chosen
      <4> QED BY <2>3, <4>1, <4>2
    <3>2. Chosen(rules', S1, n)
      <4>1. n \in S1 BY Zenon, <2>2, <2>5
      <4>2. ASSUME NEW k \in S1
            PROVE  rules'[k][2] < rules'[n][2] \/ (rules'[k][2] = rules'[n][2] /\ k <= n)
        <5>1. CASE k = n BY <1>1, <5>1
        <5>2. CASE k \in S
          <6>1. rules'[k][2] = rules[k][2] /\ rules[k][2] \in Int /\ k < n /\ k \in Int
            BY <1>1, <1>2, <2>1, <5>2
          <6>2. rules[k][2] <= r[2] /\ rules'[n][2] = r[2] BY <1>1, <3>1, <5>2
          <6> QED BY <1>1, <1>3, <6>1, <6>2
        <5> QED BY Zenon, <2>2, <5>1, <5>2
      <4> QED BY <4>1, <4>2, Zenon DEF Chosen
    <3>3. lpm'[i] = [port |-> rules'[n][3], prefix_len |-> rules'[n][2]] BY <1>1, <2>4, <2>5
    <3> QED BY Zenon, <1>1, <3>2, <3>3 DEF S1
  <2>6. CASE ~(i \in Covered(r[1], r[2]) /\ lpm[i].prefix_len <= r[2])
    <3>1. lpm'[i] = lpm[i] BY Zenon, <2>4, <2>6
    <3>2. CASE S = {} /\ lpm[i] = [port |-> 0, prefix_len |-> 0]
      <4>0. lpm[i].prefix_len <= r[2]
        <5>1. lpm[i].prefix_len = 0 BY <3>2
        <5>2. 0 <= r[2] BY <1>3
        <5> QED BY <5>1, <5>2, Zenon
      <4>1. i \notin Covered(r[1], r[2]) BY <2>6, <4>0, Zenon
      <4>2. S1 = {} BY Zenon, <2>2, <3>2, <4>1
      <4> QED BY Zenon, <3>1, <3>2, <4>2 DEF S1
    <3>3. ASSUME NEW j \in DOMAIN rules, Chosen(rules, S, j),
                 lpm[i] = [port |-> rules[j][3], prefix_len |-> rules[j][2]]
          PROVE  /\ Chosen(rules', S1, j)
                 /\ lpm'[i] = [port |-> rules'[j][3], prefix_len |-> rules'[j][2]]
      <4>1. rules'[j] = rules[j] /\ rules[j][2] \in Int BY Zenon, <1>1, <1>2
      <4>2. j \in S /\ \A k \in S : rules[k][2] < rules[j][2] \/ (rules[k][2] = rules[j][2] /\ k <= j)
        BY <3>3, Zenon DEF Chosen
      <4>3. \A k \in S : rules'[k][2] < rules'[j][2] \/ (rules'[k][2] = rules'[j][2] /\ k <= j)
        BY Zenon, <1>1, <2>1, <4>1, <4>2
      <4>4. ASSUME n \in S1 PROVE rules'[n][2] < rules'[j][2]
        <5>1. n \notin S BY Zenon, <1>1, <2>1
        <5>2. i \in Covered(r[1], r[2]) BY Zenon, <2>2, <4>4, <5>1
        <5>3. ~(rules[j][2] <= r[2]) BY <2>6, <3>3, <5>2
        <5> QED BY <1>1, <1>3, <4>1, <5>3
      <4>5. j \in S1 BY Zenon, <2>2, <4>2
      <4>6. \A k \in S1 : k \in S \/ (k = n /\ n \in S1) BY Zenon, <2>2
      <4>7. Chosen(rules', S1, j) BY <4>3, <4>4, <4>5, <4>6, Zenon DEF Chosen
      <4> QED BY Zenon, <3>1, <3>3, <4>1, <4>7
    <3> QED BY <1>1, <2>3, <3>2, <3>3, Zenon DEF S1
  <2> QED BY Zenon, <2>5, <2>6
<1> QED BY <1>4, <1>5, <1>6, Zenon DEF CellsRight

\* The routes that lead to a node, when one more has been read.
LEMMA MoreNodeRules ==
  ASSUME NEW rs \in Seq(Routes), NEW r \in Routes, NEW node, NEW null
  PROVE  NodeRules(Append(rs, r), node, null)
           = NodeRules(rs, node, null)
             \cup (IF Prefix(r[1], r[2]) = node /\ r[3] # null THEN {Len(rs) + 1} ELSE {})
<1> DEFINE s == Append(rs, r)
           n == Len(rs) + 1
           leads == Prefix(r[1], r[2]) = node /\ r[3] # null
<1>1. /\ DOMAIN s = DOMAIN rs \cup {n} /\ s[n] = r /\ n \notin DOMAIN rs
      /\ \A j \in DOMAIN rs : s[j] = rs[j]
  BY MoreRoutes
<1>2. /\ \A j : j \in NodeRules(s, node, null) <=>
                  j \in DOMAIN s /\ Prefix(s[j][1], s[j][2]) = node /\ s[j][3] # null
      /\ \A j : j \in NodeRules(rs, node, null) <=>
                  j \in DOMAIN rs /\ Prefix(rs[j][1], rs[j][2]) = node /\ rs[j][3] # null
  BY Zenon DEF NodeRules
<1> HIDE DEF s, n
<1>3. CASE leads
  <2>1. NodeRules(s, node, null) = NodeRules(rs, node, null) \cup {n} BY <1>1, <1>2, <1>3, Zenon
  <2> QED BY <1>3, <2>1, Zenon DEF s, n
<1>4. CASE ~leads
  <2>1. \A j : j \in NodeRules(s, node, null) <=> j \in NodeRules(rs, node, null)
    BY <1>1, <1>2, <1>4
  <2> QED BY <1>4, <2>1, Zenon DEF s, n
<1> QED BY Zenon, <1>3, <1>4

\* A route makes its node and leaves the others as they are, or without a device.
LEMMA NodesSet ==
  ASSUME NodesRight, rules \in Seq(Routes), NEW r \in Routes, rules' = Append(rules, r),
         UNCHANGED router, NEW node0, node0 = Prefix(r[1], r[2]),
         node0 \in DOMAIN lpm' /\ lpm'[node0] = r[3],
         \A node \in Nodes \ {node0} :
           /\ node \in DOMAIN lpm => node \in DOMAIN lpm' /\ lpm'[node] = lpm[node]
           /\ node \in DOMAIN lpm' \ DOMAIN lpm => lpm'[node] = NULL_PORT,
         r[3] = NULL_PORT => NodeRules(rules, node0, NULL_PORT) = {}
  PROVE  NodesRight'
<1> DEFINE n == Len(rules) + 1
<1>1. NULL_PORT' = NULL_PORT /\ Nodes' = Nodes BY DEF NULL_PORT, Nodes
<1>2. /\ rules'[n] = r /\ n \in Int
      /\ \A j \in DOMAIN rules : rules'[j] = rules[j] /\ j \in Int /\ j < n
  BY MoreRoutes
<1> HIDE DEF n
<1>3. ASSUME NEW node \in Nodes
      PROVE  \/ /\ NodeRules(rules', node, NULL_PORT) = {}
                /\ node \in DOMAIN lpm' => lpm'[node] = NULL_PORT
             \/ \E j \in NodeRules(rules', node, NULL_PORT) :
                  /\ \A i \in NodeRules(rules', node, NULL_PORT) : i <= j
                  /\ node \in DOMAIN lpm' /\ lpm'[node] = rules'[j][3]
  <2> DEFINE S == NodeRules(rules, node, NULL_PORT)
             S1 == NodeRules(rules', node, NULL_PORT)
  <2>1. S \subseteq DOMAIN rules BY Zenon DEF NodeRules
  <2>2. S1 = S \cup (IF node0 = node /\ r[3] # NULL_PORT THEN {n} ELSE {})
    <3>1. NodeRules(Append(rules, r), node, NULL_PORT)
            = S \cup (IF Prefix(r[1], r[2]) = node /\ r[3] # NULL_PORT THEN {n} ELSE {})
      BY MoreNodeRules DEF n
    <3> QED BY <3>1, Zenon
  <2>3. \/ S = {} /\ (node \in DOMAIN lpm => lpm[node] = NULL_PORT)
        \/ \E j \in S : /\ \A i \in S : i <= j
                        /\ node \in DOMAIN lpm /\ lpm[node] = rules[j][3]
    BY Zenon DEF NodesRight
  <2> HIDE DEF S, S1
  <2>4. CASE node = node0 /\ r[3] # NULL_PORT
    <3>1. n \in S1 /\ \A i \in S1 : i = n \/ i \in S BY Zenon, <2>2, <2>4
    <3>2. \A i \in S1 : i <= n BY <1>2, <2>1, <3>1
    <3>3. node \in DOMAIN lpm' /\ lpm'[node] = rules'[n][3] BY Zenon, <1>2, <2>4
    <3> QED BY Zenon, <3>1, <3>2, <3>3 DEF S1
  <2>5. CASE node = node0 /\ r[3] = NULL_PORT
    <3>1. S = {} BY Zenon, <2>5 DEF S
    <3>2. S1 = {} BY Zenon, <2>2, <2>5, <3>1
    <3> QED BY Zenon, <2>5, <3>2 DEF S1
  <2>6. CASE node # node0
    <3>1. S1 = S BY Zenon, <2>2, <2>6
    <3>2. /\ node \in DOMAIN lpm => node \in DOMAIN lpm' /\ lpm'[node] = lpm[node]
          /\ node \in DOMAIN lpm' \ DOMAIN lpm => lpm'[node] = NULL_PORT
      BY Zenon, <2>6
    <3>3. \A j \in S : rules'[j] = rules[j] BY Zenon, <1>2, <2>1
    <3> QED BY <2>3, <3>1, <3>2, <3>3, Zenon DEF S1
  <2> QED BY Zenon, <2>4, <2>5, <2>6
<1> QED BY Zenon, <1>1, <1>3 DEF NodesRight

\* A new node of a trie, accepted because it had no device.
LEMMA TrieSet ==
  ASSUME NodesRight, rules \in Seq(Routes), NEW r \in Routes, rules' = Append(rules, r),
         UNCHANGED router, trie_accepts(r[1], r[2]), lpm' = trie_set(r[1], r[2], r[3])
  PROVE  NodesRight'
<1> DEFINE node0 == Prefix(r[1], r[2])
           made == {Prefix(r[1], n) : n \in 0..r[2]}
<1>1. r[1] \in AllAddresses /\ r[2] \in 0..WIDTH BY Zenon, RouteFacts
<1>2. node0 \in made /\ node0 \in Nodes BY <1>1, LpmAssumption DEF Nodes
<1>3. /\ DOMAIN lpm' = DOMAIN lpm \cup made
      /\ \A node \in DOMAIN lpm \cup made :
           lpm'[node] = IF node = node0 THEN r[3]
                        ELSE IF node \in DOMAIN lpm THEN lpm[node] ELSE NULL_PORT
  BY Zenon DEF trie_set
<1>4. NodeRules(rules, node0, NULL_PORT) = {}
  <2>1. node0 \in DOMAIN lpm => lpm[node0] = NULL_PORT BY Zenon DEF trie_accepts
  <2>2. \A j \in NodeRules(rules, node0, NULL_PORT) : rules[j][3] # NULL_PORT BY Zenon DEF NodeRules
  <2> HIDE DEF node0
  <2> QED BY <1>2, <2>1, <2>2, Zenon DEF NodesRight
<1> HIDE DEF made
<1>5. node0 \in DOMAIN lpm' /\ lpm'[node0] = r[3] BY Zenon, <1>2, <1>3
<1>6. \A node \in Nodes \ {node0} :
        /\ node \in DOMAIN lpm => node \in DOMAIN lpm' /\ lpm'[node] = lpm[node]
        /\ node \in DOMAIN lpm' \ DOMAIN lpm => lpm'[node] = NULL_PORT
  <2> HIDE DEF node0
  <2> QED BY Zenon, <1>3
<1> QED BY <1>4, <1>5, <1>6, NodesSet

\* A rule of the library's table replaces the one of the same prefix.
LEMMA RteAdd ==
  ASSUME NodesRight, rules \in Seq(Routes), NEW r \in Routes, rules' = Append(rules, r),
         UNCHANGED router, r[3] # NULL_PORT, \A node \in DOMAIN lpm : lpm[node] # NULL_PORT,
         lpm' = rte_lpm_add(r[1], r[2], r[3])
  PROVE  NodesRight' /\ \A node \in DOMAIN lpm' : lpm'[node] # NULL_PORT
<1> DEFINE node0 == Prefix(r[1], r[2])
<1>1. /\ DOMAIN lpm' = DOMAIN lpm \cup {node0}
      /\ \A node \in DOMAIN lpm \cup {node0} :
           lpm'[node] = IF node = node0 THEN r[3] ELSE lpm[node]
  BY Zenon DEF rte_lpm_add
<1>2. node0 \in DOMAIN lpm' /\ lpm'[node0] = r[3] BY Zenon, <1>1
<1>3. \A node \in DOMAIN lpm' : lpm'[node] # NULL_PORT BY Zenon, <1>1
<1>4. \A node \in Nodes \ {node0} :
        /\ node \in DOMAIN lpm => node \in DOMAIN lpm' /\ lpm'[node] = lpm[node]
        /\ node \in DOMAIN lpm' \ DOMAIN lpm => lpm'[node] = NULL_PORT
  <2> HIDE DEF node0
  <2> QED BY Zenon, <1>1
<1>5. NodesRight' BY <1>2, <1>4, NodesSet, Zenon
<1> QED BY <1>3, <1>5, Zenon

\* A step that leaves the table and the routes alone.
LEMMA LpmStutters ==
  ASSUME LpmInv, UNCHANGED <<router, lpm, rules>>
  PROVE  LpmInv'
<1>1. NULL_PORT' = NULL_PORT BY Zenon DEF NULL_PORT
<1>2. CellsRight' <=> CellsRight BY DEF CellsRight
<1>3. NodesRight' <=> NodesRight BY Zenon, <1>1 DEF NodesRight
<1> QED BY Zenon, <1>1, <1>2, <1>3 DEF LpmInv

\* A route is read, skipped or refused.
LEMMA ReadLineStep ==
  ASSUME LpmInv, NEW r \in Routes, ReadLine(r), UNCHANGED router
  PROVE  LpmInv'
<1>1. CASE UNCHANGED <<lpm, rules>> BY Zenon, <1>1, LpmStutters
<1>2. CASE ~UNCHANGED <<lpm, rules>>
  <2>1. /\ rules' = Append(rules, r)
        /\ router # "asn_trie" => r[3] \in 0..nb_devices
        /\ router = "lpm_da" => r[2] <= LONGEST_PREFIX /\ lpm' = da_set(r[1], r[2], r[3])
        /\ router \in {"lpm_btrie", "asn_trie"} =>
             trie_accepts(r[1], r[2]) /\ lpm' = trie_set(r[1], r[2], r[3])
        /\ router = "lpm_dpdklpm" => lpm' = rte_lpm_add(r[1], r[2], r[3])
    BY Zenon, <1>2 DEF ReadLine, lpm_da_init, lpm_btrie_init, lpm_dpdklpm_init, load_pfx2as_file,
                init_lpm, load_route, lpm_exit, da_accepts
  <2>2. /\ rules \in Seq(Routes)
        /\ router # "asn_trie" => \A j \in DOMAIN rules : rules[j][3] \in 0..nb_devices
        /\ router = "lpm_da" => CellsRight
        /\ router # "lpm_da" => NodesRight
        /\ router = "lpm_dpdklpm" => \A node \in DOMAIN lpm : lpm[node] # NULL_PORT
        /\ router \in {"lpm_da", "lpm_btrie", "lpm_dpdklpm", "asn_trie"}
    BY Zenon DEF LpmInv
  <2>3. rules' \in Seq(Routes) BY <2>1, <2>2
  <2>4. router # "asn_trie" => \A j \in DOMAIN rules' : rules'[j][3] \in 0..nb_devices
    <3>1. /\ DOMAIN rules' = DOMAIN rules \cup {Len(rules) + 1} /\ rules'[Len(rules) + 1] = r
          /\ \A j \in DOMAIN rules : rules'[j] = rules[j]
      BY <2>1, <2>2, MoreRoutes
    <3> QED BY Zenon, <2>1, <2>2, <3>1
  <2>5. router = "lpm_da" => CellsRight' BY Zenon, <2>1, <2>2, CellsSet
  <2>6. NULL_PORT' = NULL_PORT BY Zenon DEF NULL_PORT
  <2>7. router \in {"lpm_btrie", "asn_trie"} => NodesRight' BY Zenon, <2>1, <2>2, TrieSet
  <2>8. router = "lpm_dpdklpm" =>
          NodesRight' /\ \A node \in DOMAIN lpm' : lpm'[node] # NULL_PORT
    <3>1. router = "lpm_dpdklpm" => r[3] # NULL_PORT BY <2>1, LpmAssumption DEF NULL_PORT
    <3> QED BY Zenon, <2>1, <2>2, <3>1, RteAdd
  <2> QED BY <2>2, <2>3, <2>4, <2>5, <2>6, <2>7, <2>8, Zenon DEF LpmInv
<1> QED BY Zenon, <1>1, <1>2

\* The table a router starts with agrees with no routes.
LEMMA LpmStarts ==
  ASSUME LpmInit
  PROVE  LpmInv
<1>1. /\ router \in {"lpm_da", "lpm_btrie", "lpm_dpdklpm", "asn_trie"}
      /\ rules \in Seq(Routes) /\ DOMAIN rules = {}
  BY LpmAssumption DEF LpmInit
<1>2. router = "lpm_da" => CellsRight
  <2>1. \A i \in DOMAIN lpm : CellRules(rules, i) = {} BY Zenon, <1>1 DEF CellRules
  <2>2. router = "lpm_da" =>
          /\ DOMAIN lpm = 0..(2^LONGEST_PREFIX - 1)
          /\ \A i \in DOMAIN lpm : lpm[i] = [port |-> 0, prefix_len |-> 0]
    BY Zenon DEF LpmInit, da_create
  <2> QED BY Zenon, <1>1, <2>1, <2>2 DEF CellsRight
<1>3. router # "lpm_da" => DOMAIN lpm = {} BY DEF LpmInit
<1>4. router # "lpm_da" => NodesRight
  <2>1. \A node : NodeRules(rules, node, NULL_PORT) = {} BY Zenon, <1>1 DEF NodeRules
  <2> QED BY <1>3, <2>1, Zenon DEF NodesRight
<1> QED BY <1>1, <1>2, <1>3, <1>4, Zenon DEF LpmInv

\* Every step of a router keeps its table in agreement with the routes.
LEMMA LpmSteps ==
  ASSUME LpmInv, [LpmNext]_lpmVars
  PROVE  LpmInv'
<1>1. CASE UNCHANGED lpmVars BY Zenon, <1>1, LpmStutters DEF lpmVars
<1>2. CASE LpmNext
  <2>1. UNCHANGED router BY Zenon, <1>2 DEF LpmNext
  <2>2. CASE EndOfFile BY Zenon, <2>1, <2>2, LpmStutters DEF EndOfFile
  <2>3. CASE BadFile BY Zenon, <2>1, <2>3, LpmStutters DEF BadFile, lpm_exit
  <2>4. ASSUME NEW d \in 0..(nb_devices - 1), NotAnIPv4Frame(d) PROVE LpmInv'
    BY Zenon, <2>1, <2>4, LpmStutters DEF NotAnIPv4Frame, lpm_exit
  <2>5. ASSUME NEW r \in Routes, ReadLine(r) PROVE LpmInv' BY Zenon, <2>1, <2>5, ReadLineStep
  <2>6. ASSUME NEW ip \in AllAddresses, NEW d \in 0..(nb_devices - 1), Route(ip, d)
        PROVE  LpmInv'
    <3>1. UNCHANGED <<lpm, rules>>
      BY Zenon, <2>6 DEF Route, lpm_da, lpm_btrie, lpm_dpdklpm, process_packet,
                  lpm_dispatch_packet, lpm_exit
    <3> QED BY Zenon, <2>1, <3>1, LpmStutters
  <2> QED BY <1>2, <2>2, <2>3, <2>4, <2>5, <2>6 DEF LpmNext
<1> QED BY Zenon, <1>1, <1>2

\* Each of the four routers finds the longest of the routes within reach of its
\* lookup that match an address, the last one read among equals, after any routing
\* file, for every width of an address and every longest prefix of the direct array:
\* the direct array, the trie and the library's table all answer as the list of the
\* accepted routes does.
THEOREM LongestMatchInvariance == LpmSpec => []LongestMatchInReach
<1>1. LpmInit => LpmInv BY Zenon, LpmStarts
<1>2. LpmInv /\ [LpmNext]_lpmVars => LpmInv' BY Zenon, LpmSteps
<1>3. LpmInv => LongestMatchInReach BY Zenon, TableFinds
<1> QED BY <1>1, <1>2, <1>3, PTL DEF LpmSpec

\* Every route is within reach of lpm-da and lpm-dpdklpm, which so find the longest of
\* all that they accepted; lpm-btrie and fake-nf do not.
THEOREM LongestMatchWithoutTries == LpmSpec /\ router \notin Tries => []LongestMatch
<1>1. router \notin Tries /\ [LpmNext]_lpmVars => (router \notin Tries)'
  BY Zenon DEF LpmNext, lpmVars
<1>2. router \notin Tries /\ LongestMatchInReach => LongestMatch
  BY Zenon DEF LongestMatchInReach, LongestMatch, LookedAt
<1> QED BY <1>1, <1>2, LongestMatchInvariance, PTL DEF LpmSpec

=============================================================================

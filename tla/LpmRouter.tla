------------------------------ MODULE LpmRouter ------------------------------
(***************************************************************************)
(* The routers lpm-da (a direct array), lpm-btrie (a binary trie),         *)
(* lpm-dpdklpm (the rte_lpm library) and fake-nf/ip-asn-lookup-trie: a     *)
(* routing table read from a file at start, then looked up for each frame. *)
(* A route is <<address, prefix length, device>>.  A prefix of length 0    *)
(* makes lpm-da shift by the width of an int, which C does not define;     *)
(* routes have at least one bit.                                           *)
(***************************************************************************)
EXTENDS Integers, Sequences, FiniteSetsExt

CONSTANTS WIDTH,               \* bits in an address: 32
          LONGEST_PREFIX,      \* of the direct array: 27
          LPM_MAX_RULES,
          nb_devices,
          Routes,              \* the lines a routing file may have
          LpmPrograms

VARIABLES router, lpm,
          rules,               \* the routes accepted so far, in order
          lines,               \* how many lines of the file have been read
          state,               \* "loading", "running" or "exited"
          out                  \* where the last frame went: a device
lpmVars == <<router, lpm, rules, lines, state, out>>

\* "No port" of the routers is -1; fake-nf has NULL_ASN, which is 0.
NULL_PORT == IF router = "asn_trie" THEN 0 ELSE -1

AllAddresses == 0..(2^WIDTH - 1)

ASSUME LpmAssumption ==
  /\ WIDTH \in Nat \ {0} /\ LONGEST_PREFIX \in 0..WIDTH /\ nb_devices \in Nat
  /\ Routes \subseteq AllAddresses \X (1..WIDTH) \X Int
  /\ LpmPrograms \subseteq {"lpm_da", "lpm_btrie", "lpm_dpdklpm", "asn_trie"}

\* What a proof needs to know of the powers of two.
ASSUME PowersOfTwo ==
  /\ 2^0 = 1 /\ 2^1 = 2
  /\ \A m, n \in 0..WIDTH : 2^m \in Nat \ {0} /\ 2^(m + n) = 2^m * 2^n

\* The first len bits of an address.
Prefix(ip, len) == [i \in 1..len |-> (ip \div 2^(WIDTH - i)) % 2]

------------------------------------------------------------------------------
(* The direct array, one cell for each prefix of the longest length. *)

Cell(ip) == ip \div 2^(WIDTH - LONGEST_PREFIX)

da_create == [i \in 0..(2^LONGEST_PREFIX - 1) |-> [port |-> 0, prefix_len |-> 0]]

\* The cells whose addresses have the route's prefix, from the first to the last.
Covered(ip, len) ==
  LET size == 2^(WIDTH - len)
      first == ip - (ip % size)
  IN  Cell(first)..Cell(first + size - 1)

da_accepts(ip, len) == len <= LONGEST_PREFIX

\* Mutant: the last route read wins, whatever its length.
da_set_last(ip, len, port) ==
  [i \in DOMAIN lpm |-> IF i \in Covered(ip, len)
                        THEN [port |-> port, prefix_len |-> len] ELSE lpm[i]]

da_set(ip, len, port) ==
  [i \in DOMAIN lpm |-> IF i \in Covered(ip, len) /\ lpm[i].prefix_len <= len
                        THEN [port |-> port, prefix_len |-> len] ELSE lpm[i]]

da_get(ip) == lpm[Cell(ip)].port

------------------------------------------------------------------------------
(* The binary trie: a node is known by the prefix that leads to it. *)

trie_create == << >>

trie_accepts(ip, len) ==
  Prefix(ip, len) \in DOMAIN lpm => lpm[Prefix(ip, len)] = NULL_PORT

trie_set(ip, len, port) ==
  [node \in DOMAIN lpm \cup {Prefix(ip, n) : n \in 0..len} |->
     IF node = Prefix(ip, len) THEN port
     ELSE IF node \in DOMAIN lpm THEN lpm[node] ELSE NULL_PORT]

\* The walk down from the root looks at the depths 0 .. WIDTH - 1.
trie_get(ip) ==
  LET found == {n \in 0..(WIDTH - 1) : /\ Prefix(ip, n) \in DOMAIN lpm
                                       /\ lpm[Prefix(ip, n)] # NULL_PORT}
  IN  IF found = {} THEN NULL_PORT ELSE lpm[Prefix(ip, Max(found))]

------------------------------------------------------------------------------
(* rte_lpm, an external library: a map from prefixes to ports. *)

rte_lpm_add(ip, len, port) ==
  [p \in DOMAIN lpm \cup {Prefix(ip, len)} |-> IF p = Prefix(ip, len) THEN port ELSE lpm[p]]

rte_lpm_lookup(ip) ==
  LET found == {n \in 1..WIDTH : Prefix(ip, n) \in DOMAIN lpm}
  IN  IF found = {} THEN NULL_PORT ELSE lpm[Prefix(ip, Max(found))]

------------------------------------------------------------------------------
LpmInit ==
  /\ router \in LpmPrograms
  /\ lpm = IF router = "lpm_da" THEN da_create ELSE << >>
  /\ rules = << >> /\ lines = 0
  /\ state = "loading"
  /\ out = 0

lpm_exit == state' = "exited" /\ UNCHANGED <<lpm, rules, lines, out>>

\* A line of the file that is accepted makes the table loaded, else the process ends.
load_route(accepted, loaded, r) ==
  \/ /\ ~accepted
     /\ lpm_exit
  \/ /\ accepted
     /\ lpm' = loaded
     /\ rules' = Append(rules, r)
     /\ lines' = lines + 1
     /\ UNCHANGED <<state, out>>

\* init_lpm skips a line whose device is not in 0 .. nb_devices.
init_lpm(accepted, loaded, r) ==
  \/ /\ r[3] \notin 0..nb_devices
     /\ lines' = lines + 1
     /\ UNCHANGED <<lpm, rules, state, out>>
  \/ r[3] \in 0..nb_devices /\ load_route(accepted, loaded, r)

lpm_da_init(r) == init_lpm(da_accepts(r[1], r[2]), da_set(r[1], r[2], r[3]), r)
lpm_btrie_init(r) == init_lpm(trie_accepts(r[1], r[2]), trie_set(r[1], r[2], r[3]), r)
lpm_dpdklpm_init(r) == init_lpm(TRUE, rte_lpm_add(r[1], r[2], r[3]), r)

\* fake-nf takes any line; its assertion that a prefix is new ends the process.
load_pfx2as_file(r) == load_route(trie_accepts(r[1], r[2]), trie_set(r[1], r[2], r[3]), r)

ReadLine(r) ==
  /\ state = "loading" /\ lines < LPM_MAX_RULES
  /\ \/ router = "lpm_da" /\ lpm_da_init(r)
     \/ router = "lpm_btrie" /\ lpm_btrie_init(r)
     \/ router = "lpm_dpdklpm" /\ lpm_dpdklpm_init(r)
     \/ router = "asn_trie" /\ load_pfx2as_file(r)

\* A file that does not open or a line that does not scan ends the process.
BadFile == state = "loading" /\ lpm_exit

EndOfFile == state = "loading" /\ state' = "running" /\ UNCHANGED <<lpm, rules, lines, out>>

\* A frame on a device: dropped (sent nowhere) when no route is found.
lpm_dispatch_packet(port, device) ==
  LET dst_dev == IF port = NULL_PORT THEN device ELSE port
  IN  IF dst_dev # device /\ nb_devices <= dst_dev THEN lpm_exit
      ELSE out' = dst_dev /\ UNCHANGED <<lpm, rules, lines, state>>

lpm_da(ip, device) == lpm_dispatch_packet(da_get(ip), device)
lpm_btrie(ip, device) == lpm_dispatch_packet(trie_get(ip), device)
lpm_dpdklpm(ip, device) == lpm_dispatch_packet(rte_lpm_lookup(ip), device)

\* fake-nf only prints the number found.
process_packet(ip) == out' = trie_get(ip) /\ UNCHANGED <<lpm, rules, lines, state>>

Route(ip, device) ==
  /\ state = "running"
  /\ \/ router = "lpm_da" /\ lpm_da(ip, device)
     \/ router = "lpm_btrie" /\ lpm_btrie(ip, device)
     \/ router = "lpm_dpdklpm" /\ lpm_dpdklpm(ip, device)
     \/ router = "asn_trie" /\ process_packet(ip)

\* The routers drop a frame that is not IPv4; fake-nf asserts that it is.
NotAnIPv4Frame(device) ==
  /\ state = "running"
  /\ IF router = "asn_trie" THEN lpm_exit
     ELSE out' = device /\ UNCHANGED <<lpm, rules, lines, state>>

LpmNext ==
  /\ \/ EndOfFile \/ BadFile
     \/ \E device \in 0..(nb_devices - 1) : NotAnIPv4Frame(device)
     \/ \E r \in Routes : ReadLine(r)
     \/ \E ip \in AllAddresses, device \in 0..(nb_devices - 1) : Route(ip, device)
  /\ UNCHANGED router

LpmSpec == LpmInit /\ [][LpmNext]_lpmVars

------------------------------------------------------------------------------
Lookup(ip) ==
  CASE router = "lpm_da" -> da_get(ip)
    [] router \in {"lpm_btrie", "asn_trie"} -> trie_get(ip)
    [] router = "lpm_dpdklpm" -> rte_lpm_lookup(ip)

\* The rules of at most len bits that match an address (fake-nf keeps NULL_ASN for none).
Matching(ip, len) ==
  {i \in DOMAIN rules : /\ Prefix(ip, rules[i][2]) = Prefix(rules[i][1], rules[i][2])
                        /\ rules[i][2] <= len
                        /\ rules[i][3] # NULL_PORT}

\* The lookup finds the longest of them, the last one read among equals, and no route
\* (device 0 in lpm-da) when there is none.
FindsLongest(ip, len) ==
  IF Matching(ip, len) = {} THEN Lookup(ip) = (IF router = "lpm_da" THEN 0 ELSE NULL_PORT)
  ELSE LET longest == Max({rules[i][2] : i \in Matching(ip, len)})
           last == Max({i \in Matching(ip, len) : rules[i][2] = longest})
       IN  Lookup(ip) = rules[last][3]

\* "Explore prefix tree and remember the most specific ASN found" (dpdk-lpm-btrie.c:332),
\* "Longest Prefix Match" (README.md:43): whatever order the file lists the accepted
\* routes in, a lookup finds the longest that matches.
LongestMatch == \A ip \in AllAddresses : FindsLongest(ip, WIDTH)

\* The walks of the two tries stop before the last bit of an address
\* (dpdk-lpm-btrie.c:333, ip-asn-lookup-trie.c:69), and so before a route for one host.
Tries == {"lpm_btrie", "asn_trie"}
LookedAt == IF router \in Tries THEN WIDTH - 1 ELSE WIDTH

\* LongestMatch, of the routes that the lookup of the router can reach: whatever order
\* the file lists them in, shorter ones never hide longer ones in the direct array, and
\* the tries and rte_lpm remember the most specific.
LongestMatchInReach == \A ip \in AllAddresses : FindsLongest(ip, LookedAt)
==============================================================================

-------------------------- MODULE HashTableProofs --------------------------
(***************************************************************************)
(* The load balancers and the NATs, for any number of clients, servers and *)
(* connections.                                                            *)
(*                                                                         *)
(* Their tables are maps: hash_set changes what hash_get finds for its own *)
(* key only.  The balancers then deal out the servers in turn, and the     *)
(* NATs enter connections in pairs, as NatTable does.                      *)
(***************************************************************************)
EXTENDS LoadBalancer, HashNat, FiniteSetTheorems, TLAPS

\* The context is large: the SMT solver is given more time than by default.
USE SMTT(20), Zenon

-----------------------------------------------------------------------------
(* Numbers *)

\* One more if the condition holds.
Bit(condition) == IF condition THEN 1 ELSE 0

\* The order of the naturals is well founded.
LEMMA WellOrdered ==
  ASSUME NEW T \in SUBSET Nat, T # {}
  PROVE  \E x \in T : \A y \in T : x <= y
<1>1. PICK x \in T : \A y \in T : ~(<<y, x>> \in OpToRel(<, Nat))
  BY NatLessThanWellFounded, WFMin, Zenon
<1>2. \A y \in T : ~(y < x) BY <1>1, Zenon DEF OpToRel
<1> QED BY <1>2

\* Induction up to a bound, in a form the provers can use: P is a set.
LEMMA Induction ==
  ASSUME NEW n \in Nat, NEW P, 0 \in P, \A i \in 0..(n - 1) : i \in P => i + 1 \in P
  PROVE  \A i \in 0..n : i \in P
<1> DEFINE T == {i \in 0..n : i \notin P}
<1>1. SUFFICES ASSUME T # {} PROVE FALSE BY Zenon
<1>2. T \in SUBSET Nat OBVIOUS
<1>3. PICK x \in T : \A y \in T : x <= y
  <2> HIDE DEF T
  <2> QED BY <1>1, <1>2, WellOrdered, Zenon
<1>4. x \in Nat /\ x <= n /\ x \notin P OBVIOUS
<1>5. x # 0 BY Zenon, <1>4
<1>6. x - 1 \in 0..(n - 1) /\ x - 1 \in 0..n /\ (x - 1) + 1 = x BY <1>4, <1>5
<1>7. x - 1 \in P
  <2>1. x - 1 \notin T BY <1>3, <1>4
  <2> QED BY Zenon, <1>6, <2>1
<1> QED BY Zenon, <1>4, <1>6, <1>7

\* Division with remainder.
LEMMA Quotient ==
  ASSUME NEW x \in Nat, NEW d \in Nat \ {0}
  PROVE  /\ x \div d \in Nat /\ x % d \in 0..(d - 1)
         /\ x = d * (x \div d) + (x % d)
  OBVIOUS

\* A product grows with its factor.
LEMMA Grows ==
  ASSUME NEW d \in Nat, NEW m \in Int, NEW n \in Int, m <= n
  PROVE  d * m <= d * n
  OBVIOUS

\* The quotient is determined by what is left.
LEMMA QuotientIs ==
  ASSUME NEW d \in Nat \ {0}, NEW q \in Nat, NEW r \in 0..(d - 1), NEW x \in Nat, x = d * q + r
  PROVE  x \div d = q
<1> DEFINE p == x \div d
<1>1. p \in Nat /\ x % d \in 0..(d - 1) /\ x = d * p + (x % d) BY Zenon, Quotient
<1> HIDE DEF p
<1>2. CASE p + 1 <= q
  <2>1. d * (p + 1) <= d * q BY <1>1, <1>2, Grows
  <2> QED BY <1>1, <2>1
<1>3. CASE q + 1 <= p
  <2>1. d * (q + 1) <= d * p BY <1>1, <1>3, Grows
  <2> QED BY <1>1, <2>1
<1>4. p = q BY <1>1, <1>2, <1>3
<1> QED BY Zenon, <1>4 DEF p

-----------------------------------------------------------------------------
(* The tables of clients: what hash_get finds after hash_set *)

\* The least of a set of integers, where it has one.
LEMMA MinIs ==
  ASSUME NEW S, S \subseteq Int, NEW m \in S, \A y \in S : m <= y
  PROVE  Min(S) = m
<1>1. Min(S) \in S /\ \A y \in S : Min(S) <= y BY Zenon DEF Min
<1>2. Min(S) <= m /\ m <= Min(S) /\ Min(S) \in Int /\ m \in Int BY Zenon, <1>1
<1> QED BY <1>2

\* A set of naturals that is not empty has a least one.
LEMMA HasMin ==
  ASSUME NEW S \in SUBSET Nat, S # {}
  PROVE  Min(S) \in S /\ \A y \in S : Min(S) <= y
<1>1. PICK m \in S : \A y \in S : m <= y BY WellOrdered, Zenon
<1>2. S \subseteq Int OBVIOUS
<1>3. Min(S) = m BY <1>1, <1>2, MinIs, Zenon
<1> QED BY Zenon, <1>1, <1>3

\* The entries of a table with keys in K and values in V.
Entries(K, V) == [key : K, value : V]

\* Keys are hashed to numbers, and no value is mistaken for no value.
Hashed(K, V) == NotFound \notin V /\ \A k \in K : hash_function(k) \in Nat

\* An entry holds what it was made of.
LEMMA EntryFacts ==
  ASSUME NEW K, NEW V, NEW key \in K, NEW value \in V
  PROVE  /\ Entry(key, value) \in Entries(K, V) /\ Entry(key, value).key = key
         /\ Entry(key, value).value = value /\ Entry(key, value) # Unused
<1>1. DOMAIN Entry(key, value) = {"key", "value"} BY Zenon DEF Entry
<1>2. DOMAIN Unused = {"used"} BY Zenon DEF Unused
<1>3. Entry(key, value) # Unused BY Zenon, <1>1, <1>2
<1> QED BY Zenon, <1>3 DEF Entry, Entries

\* An entry is not an unused cell.
LEMMA EntriesFacts ==
  ASSUME NEW K, NEW V, NEW e \in Entries(K, V)
  PROVE  e.key \in K /\ e.value \in V /\ e # Unused
<1>1. DOMAIN e = {"key", "value"} BY Zenon DEF Entries
<1>2. DOMAIN Unused = {"used"} BY Zenon DEF Unused
<1>3. e # Unused BY Zenon, <1>1, <1>2
<1> QED BY Zenon, <1>3 DEF Entries

\* The chained tables.
Chains(K, V) == [0..(BUCKETS - 1) -> Seq(Entries(K, V))]

\* A key has a bucket.
LEMMA BucketFacts ==
  ASSUME NEW K, NEW V, Hashed(K, V), NEW key \in K
  PROVE  Bucket(key) \in 0..(BUCKETS - 1)
  BY LbAssumption DEF Hashed, Bucket

\* The chain new is e followed by the chain.
Headed(new, e, chain) ==
  /\ new[1] = e
  /\ DOMAIN new = 1..(Len(chain) + 1) /\ DOMAIN chain = 1..Len(chain)
  /\ Len(chain) \in Nat
  /\ \A i \in DOMAIN chain : new[i + 1] = chain[i]

\* So is the concatenation.
LEMMA HeadedIs ==
  ASSUME NEW S, NEW chain \in Seq(S), NEW e \in S
  PROVE  <<e>> \o chain \in Seq(S) /\ Headed(<<e>> \o chain, e, chain)
  BY DEF Headed

\* What the head of a chain changes for the other keys: nothing.
LEMMA HeadHides ==
  ASSUME NEW chain, NEW e, NEW k, e.key # k, NEW new, Headed(new, e, chain)
  PROVE  /\ ChainHits(chain, k) = {} => ChainHits(new, k) = {}
         /\ ChainHits(chain, k) # {} =>
              /\ ChainHits(new, k) # {}
              /\ new[Min(ChainHits(new, k))] = chain[Min(ChainHits(chain, k))]
<1>1. /\ new[1] = e
      /\ DOMAIN new = 1..(Len(chain) + 1) /\ DOMAIN chain = 1..Len(chain)
      /\ Len(chain) \in Nat
      /\ \A i \in DOMAIN chain : new[i + 1] = chain[i]
  BY Zenon DEF Headed
<1>2. \A i \in ChainHits(new, k) : i - 1 \in ChainHits(chain, k)
  <2> SUFFICES ASSUME NEW i \in ChainHits(new, k) PROVE i - 1 \in ChainHits(chain, k) BY Zenon
  <2>1. i \in 1..(Len(chain) + 1) /\ new[i].key = k BY Zenon, <1>1 DEF ChainHits
  <2>2. i # 1 BY Zenon, <1>1, <2>1
  <2>3. i - 1 \in DOMAIN chain /\ (i - 1) + 1 = i BY <1>1, <2>1, <2>2
  <2>4. new[i] = chain[i - 1] BY Zenon, <1>1, <2>3
  <2> QED BY Zenon, <2>1, <2>3, <2>4 DEF ChainHits
<1>3. \A i \in ChainHits(chain, k) : i + 1 \in ChainHits(new, k)
  BY <1>1 DEF ChainHits
<1>4. ASSUME ChainHits(chain, k) # {}
      PROVE  /\ ChainHits(new, k) # {}
             /\ new[Min(ChainHits(new, k))] = chain[Min(ChainHits(chain, k))]
  <2> DEFINE m == Min(ChainHits(chain, k))
  <2>1. /\ ChainHits(chain, k) \in SUBSET Nat /\ ChainHits(chain, k) \subseteq DOMAIN chain
        /\ ChainHits(new, k) \subseteq Int
    BY <1>1 DEF ChainHits
  <2>2. m \in ChainHits(chain, k) /\ \A y \in ChainHits(chain, k) : m <= y
    BY <1>4, <2>1, HasMin, Zenon
  <2> HIDE DEF m
  <2>3. m + 1 \in ChainHits(new, k) BY Zenon, <1>3, <2>2
  <2>4. \A y \in ChainHits(new, k) : m + 1 <= y
    <3>1. \A y \in ChainHits(new, k) : y \in Int /\ m <= y - 1 BY Zenon, <1>2, <2>1, <2>2
    <3>2. m \in Int BY <2>1, <2>2
    <3> QED BY <3>1, <3>2
  <2>5. Min(ChainHits(new, k)) = m + 1 BY <2>1, <2>3, <2>4, MinIs, Zenon
  <2>6. new[m + 1] = chain[m] BY Zenon, <1>1, <2>1, <2>2
  <2> QED BY Zenon, <2>3, <2>5, <2>6 DEF m
<1> QED BY Zenon, <1>2, <1>4

\* A value entered in a chained table is found, and the other keys keep theirs.
LEMMA ChainKeeps ==
  ASSUME NEW K, NEW V, Hashed(K, V), NEW table \in Chains(K, V), NEW key \in K, NEW value \in V,
         ChainGet(table, key) = NotFound, NEW new, new = ChainSet(table, key, value)
  PROVE  /\ new \in Chains(K, V) /\ ChainGet(new, key) = value
         /\ \A k \in K \ {key} : ChainGet(new, k) = ChainGet(table, k)
<1> DEFINE b == Bucket(key)
           e == Entry(key, value)
<1>1. b \in 0..(BUCKETS - 1) BY Zenon, BucketFacts
<1>2. table[b] \in Seq(Entries(K, V)) BY Zenon, <1>1 DEF Chains
<1>3. ChainHits(table[b], key) = {}
  <2> SUFFICES ASSUME ChainHits(table[b], key) # {} PROVE FALSE BY Zenon
  <2>1. ChainHits(table[b], key) \in SUBSET Nat BY <1>2 DEF ChainHits
  <2>2. Min(ChainHits(table[b], key)) \in ChainHits(table[b], key) BY <2>1, HasMin, Zenon
  <2>3. Min(ChainHits(table[b], key)) \in DOMAIN table[b] BY Zenon, <2>2 DEF ChainHits
  <2>4. table[b][Min(ChainHits(table[b], key))] \in Entries(K, V) BY <1>2, <2>3
  <2>5. table[b][Min(ChainHits(table[b], key))].value \in V BY Zenon, <2>4, EntriesFacts
  <2> QED BY Zenon, <2>5 DEF ChainGet, Hashed
<1>4. new = [table EXCEPT ![b] = <<e>> \o @] BY Zenon, <1>3 DEF ChainSet
<1>5. e \in Entries(K, V) /\ e.key = key /\ e.value = value BY EntryFacts
<1> HIDE DEF b, e
<1>6. new[b] = <<e>> \o table[b] /\ \A c \in 0..(BUCKETS - 1) : c # b => new[c] = table[c]
  BY Zenon, <1>1, <1>4 DEF Chains
<1>7. new[b] \in Seq(Entries(K, V)) /\ Headed(new[b], e, table[b])
  <2>1. <<e>> \o table[b] \in Seq(Entries(K, V)) /\ Headed(<<e>> \o table[b], e, table[b])
    BY Zenon, <1>2, <1>5, HeadedIs
  <2> QED BY <1>6, <2>1, Zenon
<1>8. new \in Chains(K, V) BY <1>1, <1>4, <1>6, <1>7 DEF Chains
<1>9. ChainGet(new, key) = value
  <2>1. 1 \in ChainHits(new[b], key) /\ ChainHits(new[b], key) \subseteq Int
        /\ \A y \in ChainHits(new[b], key) : 1 <= y
    BY <1>5, <1>7 DEF ChainHits, Headed
  <2>2. Min(ChainHits(new[b], key)) = 1 BY <2>1, MinIs, Zenon
  <2> QED BY <1>5, <1>7, <2>1, <2>2 DEF ChainGet, b, Headed
<1>10. ASSUME NEW k \in K \ {key} PROVE ChainGet(new, k) = ChainGet(table, k)
  <2>1. Bucket(k) \in 0..(BUCKETS - 1) BY Zenon, BucketFacts
  <2>2. CASE Bucket(k) # b
    <3>1. new[Bucket(k)] = table[Bucket(k)] BY Zenon, <1>6, <2>1, <2>2
    <3> QED BY Zenon, <3>1 DEF ChainGet
  <2>3. CASE Bucket(k) = b
    <3>1. e.key # k BY Zenon, <1>5
    <3>2. /\ ChainHits(table[b], k) = {} => ChainHits(new[b], k) = {}
          /\ ChainHits(table[b], k) # {} =>
               /\ ChainHits(new[b], k) # {}
               /\ new[b][Min(ChainHits(new[b], k))] = table[b][Min(ChainHits(table[b], k))]
      BY <1>7, <3>1, HeadHides, Zenon
    <3>3. CASE ChainHits(table[b], k) = {}
      <4>1. ChainHits(new[b], k) = {} BY <3>2, <3>3, Zenon
      <4> QED BY <2>3, <3>3, <4>1, Zenon DEF ChainGet
    <3>4. CASE ChainHits(table[b], k) # {}
      <4>1. ChainHits(new[b], k) # {} BY <3>2, <3>4, Zenon
      <4>2. new[b][Min(ChainHits(new[b], k))] = table[b][Min(ChainHits(table[b], k))]
        BY <3>2, <3>4, Zenon
      <4> QED BY <2>3, <3>4, <4>1, <4>2 DEF ChainGet
    <3> QED BY <3>3, <3>4, Zenon
  <2> QED BY Zenon, <2>2, <2>3
<1> QED BY Zenon, <1>8, <1>9, <1>10

\* The rings.
Rings(K, V) == [0..(RING - 1) -> Entries(K, V) \cup {Unused}]

\* A key is found on its way round the ring: no cell before its own is unused.
RingRight(table) ==
  \A c \in DOMAIN table : table[c] # Unused =>
    \E pos \in 0..(RING - 1) :
      /\ RingCell(table[c].key, pos) = c
      /\ \A q \in 0..(pos - 1) : table[RingCell(table[c].key, q)] # Unused

\* The cells on a key's way.
LEMMA RingCellFacts ==
  ASSUME NEW K, NEW V, Hashed(K, V), NEW key \in K, NEW pos \in 0..(RING - 1)
  PROVE  RingCell(key, pos) \in 0..(RING - 1)
<1>1. hash_function(key) + pos \in Nat BY LbAssumption DEF Hashed
<1> QED BY <1>1, LbAssumption DEF RingCell

\* What stops the way of a key.
LEMMA RingStopsIs ==
  ASSUME NEW table, NEW key, NEW pos \in 0..(RING - 1)
  PROVE  pos \in RingStops(table, key) <=>
           table[RingCell(key, pos)] = Unused \/ table[RingCell(key, pos)].key = key
  BY Zenon DEF RingStops

\* The first stop.
LEMMA FirstStop ==
  ASSUME NEW table, NEW key
  PROVE  /\ RingStops(table, key) \subseteq 0..(RING - 1)
         /\ RingStops(table, key) # {} =>
              /\ Min(RingStops(table, key)) \in RingStops(table, key)
              /\ \A y \in RingStops(table, key) : Min(RingStops(table, key)) <= y
<1>1. RingStops(table, key) \subseteq 0..(RING - 1) BY Zenon DEF RingStops
<1>2. RingStops(table, key) \in SUBSET Nat BY <1>1
<1> QED BY <1>1, <1>2, HasMin, Zenon

\* A key is found where its way first stops at it.
LEMMA RingHit ==
  ASSUME NEW table, NEW key, NEW m \in 0..(RING - 1), table[RingCell(key, m)] # Unused,
         table[RingCell(key, m)].key = key, \A q \in 0..(m - 1) : q \notin RingStops(table, key)
  PROVE  RingGet(table, key) = table[RingCell(key, m)].value
<1>1. m \in RingStops(table, key) BY Zenon, RingStopsIs
<1>2. RingStops(table, key) \subseteq 0..(RING - 1) BY Zenon, FirstStop
<1>3. \A y \in RingStops(table, key) : m <= y
  <2> SUFFICES ASSUME NEW y \in RingStops(table, key) PROVE m <= y BY Zenon
  <2>1. y \in 0..(RING - 1) BY Zenon, <1>2
  <2>2. y \notin 0..(m - 1) BY Zenon
  <2> QED BY <2>1, <2>2, LbAssumption
<1>4. RingStops(table, key) \subseteq Int BY <1>2
<1>5. Min(RingStops(table, key)) = m BY <1>1, <1>3, <1>4, MinIs, Zenon
<1> QED BY Zenon, <1>1, <1>5 DEF RingGet

\* A key is not found when its way can only first stop at an unused cell.
LEMMA RingMiss ==
  ASSUME NEW table, NEW key,
         \A m \in RingStops(table, key) :
           table[RingCell(key, m)] = Unused \/ \E q \in RingStops(table, key) : q < m
  PROVE  RingGet(table, key) = NotFound
<1> DEFINE m == Min(RingStops(table, key))
<1>1. CASE RingStops(table, key) = {} BY Zenon, <1>1 DEF RingGet
<1>2. CASE RingStops(table, key) # {}
  <2>1. m \in RingStops(table, key) /\ \A y \in RingStops(table, key) : m <= y
    BY <1>2, FirstStop, Zenon
  <2>2. RingStops(table, key) \subseteq Int BY FirstStop
  <2>3. ~\E q \in RingStops(table, key) : q < m
    <3> HIDE DEF m
    <3> QED BY <2>1, <2>2
  <2>4. table[RingCell(key, m)] = Unused BY <2>1, <2>3, Zenon
  <2> QED BY Zenon, <2>4 DEF RingGet
<1> QED BY Zenon, <1>1, <1>2

\* Taking an unused cell moves no key and hides none.
LEMMA RingOthers ==
  ASSUME NEW K, NEW V, Hashed(K, V), NEW table \in Rings(K, V), RingRight(table),
         NEW e \in Entries(K, V), NEW k \in K, e.key # k,
         NEW c \in 0..(RING - 1), table[c] = Unused, NEW new, new[c] = e,
         \A d \in 0..(RING - 1) \ {c} : new[d] = table[d]
  PROVE  RingGet(new, k) = RingGet(table, k)
<1> DEFINE n == Min(RingStops(table, k))
<1>1. \A pos \in 0..(RING - 1) : RingCell(k, pos) \in 0..(RING - 1) BY Zenon, RingCellFacts
<1>2. new[c] = e /\ \A d \in 0..(RING - 1) \ {c} : new[d] = table[d] BY Zenon
<1>3. /\ RingStops(table, k) \subseteq 0..(RING - 1)
      /\ RingStops(table, k) # {} =>
           n \in RingStops(table, k) /\ \A y \in RingStops(table, k) : n <= y
  BY FirstStop, Zenon
<1>4. e # Unused BY Zenon, EntriesFacts
<1> HIDE DEF n
<1>5. ASSUME NEW p \in RingStops(new, k), new[RingCell(k, p)] # Unused
      PROVE  /\ p \in RingStops(table, k) /\ RingCell(k, p) # c
             /\ table[RingCell(k, p)] # Unused /\ table[RingCell(k, p)].key = k
  <2>1. p \in 0..(RING - 1) BY Zenon, FirstStop
  <2>2. new[RingCell(k, p)].key = k BY <1>5, <2>1, RingStopsIs
  <2>3. RingCell(k, p) # c BY Zenon, <1>2, <2>2
  <2>4. new[RingCell(k, p)] = table[RingCell(k, p)] BY <1>1, <1>2, <2>1, <2>3
  <2> QED BY <1>5, <2>1, <2>2, <2>3, <2>4, RingStopsIs
<1>6. CASE RingStops(table, k) = {}
  <2>1. RingGet(table, k) = NotFound BY Zenon, <1>6 DEF RingGet
  <2>2. RingGet(new, k) = NotFound BY <1>5, <1>6, RingMiss
  <2> QED BY Zenon, <2>1, <2>2
<1>7. CASE RingStops(table, k) # {} /\ table[RingCell(k, n)] = Unused
  <2>1. RingGet(table, k) = NotFound BY Zenon, <1>7 DEF RingGet, n
  <2>2. ASSUME NEW p \in RingStops(new, k) PROVE new[RingCell(k, p)] = Unused
    <3> SUFFICES ASSUME new[RingCell(k, p)] # Unused PROVE FALSE BY Zenon
    <3>1. /\ p \in RingStops(table, k)
          /\ table[RingCell(k, p)] # Unused /\ table[RingCell(k, p)].key = k
      BY Zenon, <1>5
    <3>2. RingCell(k, p) \in DOMAIN table BY <1>1, <1>3, <3>1 DEF Rings
    <3>3. PICK pos \in 0..(RING - 1) :
            /\ RingCell(k, pos) = RingCell(k, p)
            /\ \A q \in 0..(pos - 1) : table[RingCell(k, q)] # Unused
      BY <3>1, <3>2 DEF RingRight
    <3>4. pos \in RingStops(table, k) BY Zenon, <3>1, <3>3, RingStopsIs
    <3>5. n <= pos /\ n # pos /\ n \in 0..(RING - 1) BY <1>3, <1>7, <3>1, <3>3, <3>4
    <3>6. n \in 0..(pos - 1) BY <3>5
    <3> QED BY <1>7, <3>3, <3>6
  <2>3. RingGet(new, k) = NotFound BY Zenon, <2>2, RingMiss
  <2> QED BY Zenon, <2>1, <2>3
<1>8. CASE RingStops(table, k) # {} /\ table[RingCell(k, n)] # Unused
  <2>1. n \in 0..(RING - 1) /\ n \in RingStops(table, k) BY Zenon, <1>3, <1>8
  <2>2. table[RingCell(k, n)].key = k BY <1>8, <2>1, RingStopsIs
  <2>3. new[RingCell(k, n)] = table[RingCell(k, n)] BY <1>1, <1>2, <1>8, <2>1
  <2>4. ASSUME NEW q \in 0..(n - 1) PROVE q \notin RingStops(new, k)
    <3>1. q \in 0..(RING - 1) BY <2>1, LbAssumption
    <3>2. q \notin RingStops(table, k)
      <4>1. q < n BY <2>1
      <4>2. q \in RingStops(table, k) => n <= q BY <1>3, <1>8, Zenon
      <4> QED BY <2>1, <3>1, <4>1, <4>2
    <3>3. table[RingCell(k, q)] # Unused BY <3>1, <3>2, RingStopsIs
    <3>4. new[RingCell(k, q)] = table[RingCell(k, q)] BY <1>1, <1>2, <3>1, <3>3
    <3> QED BY <1>5, <3>2, <3>3, <3>4
  <2>5. RingGet(new, k) = new[RingCell(k, n)].value
    <3>1. new[RingCell(k, n)] # Unused /\ new[RingCell(k, n)].key = k BY <1>8, <2>2, <2>3, Zenon
    <3>2. \A q \in 0..(n - 1) : q \notin RingStops(new, k) BY <2>4, Zenon
    <3> QED BY <2>1, <3>1, <3>2, RingHit
  <2>6. RingGet(table, k) = table[RingCell(k, n)].value BY Zenon, <1>8 DEF RingGet, n
  <2> QED BY <2>3, <2>5, <2>6
<1> QED BY <1>6, <1>7, <1>8

\* The way of a key passes every cell.
LEMMA RingCovered ==
  ASSUME NEW K, NEW V, Hashed(K, V), NEW key \in K, NEW c \in 0..(RING - 1)
  PROVE  \E pos \in 0..(RING - 1) : RingCell(key, pos) = c
<1> DEFINE h == hash_function(key)
           q == h \div RING
           r == h % RING
           pos == IF c >= r THEN c - r ELSE c - r + RING
           w == IF c >= r THEN q ELSE q + 1
<1>1. h \in Nat /\ RING \in Nat \ {0} BY Zenon, LbAssumption DEF Hashed
<1>2. q \in Nat /\ r \in 0..(RING - 1) /\ h = RING * q + r
  <2> HIDE DEF h
  <2> QED BY Zenon, <1>1, Quotient DEF q, r
<1> HIDE DEF h, q, r
<1>3. pos \in 0..(RING - 1) /\ w \in Nat BY <1>1, <1>2
<1>4. h + pos = RING * w + c
  <2>1. CASE c >= r BY <1>1, <1>2, <2>1
  <2>2. CASE ~(c >= r)
    <3>1. RING * (q + 1) = RING * q + RING BY <1>1, <1>2
    <3> QED BY <1>1, <1>2, <2>2, <3>1
  <2> QED BY <2>1, <2>2
<1>5. h + pos \in Nat BY <1>1, <1>3
<1> HIDE DEF pos, w
<1>6. (h + pos) \div RING = w BY <1>1, <1>3, <1>4, <1>5, QuotientIs, Zenon
<1>7. h + pos = RING * ((h + pos) \div RING) + ((h + pos) % RING) BY <1>1, <1>5, Quotient, Zenon
<1>8. (h + pos) % RING \in 0..(RING - 1) BY <1>1, <1>5, Quotient, Zenon
<1>9. RING * w + c = RING * w + ((h + pos) % RING) BY Zenon, <1>4, <1>6, <1>7
<1>10. RING * w \in Int BY <1>1, <1>3
<1>11. (h + pos) % RING = c BY <1>8, <1>9, <1>10
<1>12. RingCell(key, pos) = c BY Zenon, <1>11 DEF RingCell, h
<1> QED BY Zenon, <1>3, <1>12

\* A value entered in a ring that is not full is found, and the other keys
\* keep theirs; a full ring stays as it is.
LEMMA RingKeeps ==
  ASSUME NEW K, NEW V, Hashed(K, V), NEW table \in Rings(K, V), RingRight(table),
         NEW key \in K, NEW value \in V, RingGet(table, key) = NotFound,
         NEW new, new = RingSet(table, key, value)
  PROVE  /\ new \in Rings(K, V) /\ RingRight(new)
         /\ \A k \in K \ {key} : RingGet(new, k) = RingGet(table, k)
         /\ \/ new = table /\ \A c \in 0..(RING - 1) : table[c] # Unused
            \/ RingGet(new, key) = value
         /\ \A c \in 0..(RING - 1) : table[c] # Unused => new[c] # Unused
<1> DEFINE m == Min(RingStops(table, key))
           c == RingCell(key, m)
           e == Entry(key, value)
<1>1. CASE RingStops(table, key) = {}
  <2>1. new = table BY Zenon, <1>1 DEF RingSet
  <2>2. ASSUME NEW d \in 0..(RING - 1) PROVE table[d] # Unused
    <3>1. PICK pos \in 0..(RING - 1) : RingCell(key, pos) = d BY Zenon, RingCovered
    <3> QED BY <1>1, <3>1, RingStopsIs
  <2> QED BY Zenon, <2>1, <2>2
<1>2. CASE RingStops(table, key) # {}
  <2>1. /\ RingStops(table, key) \subseteq 0..(RING - 1)
        /\ m \in RingStops(table, key) /\ \A y \in RingStops(table, key) : m <= y
    BY <1>2, FirstStop, Zenon
  <2>2. m \in 0..(RING - 1) BY Zenon, <2>1
  <2>3. c \in 0..(RING - 1) BY <2>2, RingCellFacts
  <2>4. new = [table EXCEPT ![c] = e] BY Zenon, <1>2 DEF RingSet
  <2>5. table[c] = Unused
    <3> SUFFICES ASSUME table[c] # Unused PROVE FALSE BY Zenon
    <3>1. RingGet(table, key) = table[c].value BY Zenon, <1>2 DEF RingGet
    <3>2. table[c] \in Entries(K, V) BY Zenon, <2>3 DEF Rings
    <3>3. table[c].value \in V BY Zenon, <3>2, EntriesFacts
    <3> QED BY Zenon, <3>1, <3>3 DEF Hashed
  <2>6. /\ e \in Entries(K, V) /\ e.key = key /\ e.value = value /\ e # Unused
    BY EntryFacts
  <2>7. new[c] = e /\ \A d \in 0..(RING - 1) \ {c} : new[d] = table[d]
    <3> HIDE DEF c, e
    <3> QED BY Zenon, <2>3, <2>4 DEF Rings
  <2>8. new \in Rings(K, V) /\ DOMAIN new = 0..(RING - 1) /\ DOMAIN table = 0..(RING - 1)
    <3> HIDE DEF c, e
    <3> QED BY Zenon, <2>3, <2>4, <2>6 DEF Rings
  <2>9. \A k \in K \ {key} : RingGet(new, k) = RingGet(table, k)
    <3> SUFFICES ASSUME NEW k \in K \ {key} PROVE RingGet(new, k) = RingGet(table, k) BY Zenon
    <3>1. k \in K /\ e.key # k /\ e \in Entries(K, V) BY <2>6
    <3> HIDE DEF c, e
    <3> QED BY <2>3, <2>5, <2>7, <3>1, RingOthers
  <2> HIDE DEF e
  <2>10. ASSUME NEW q \in 0..(m - 1)
         PROVE  q \in 0..(RING - 1) /\ RingCell(key, q) \in 0..(RING - 1)
                /\ table[RingCell(key, q)] # Unused
                /\ new[RingCell(key, q)] = table[RingCell(key, q)]
                /\ q \notin RingStops(new, key)
    <3> HIDE DEF m
    <3>1. q \in 0..(RING - 1) /\ q < m BY <2>2, LbAssumption
    <3>2. q \notin RingStops(table, key)
      <4>1. q \in RingStops(table, key) => m <= q BY <2>1, Zenon
      <4> QED BY <2>2, <3>1, <4>1
    <3>3. table[RingCell(key, q)] # Unused /\ table[RingCell(key, q)].key # key
      BY Zenon, <3>1, <3>2, RingStopsIs
    <3>4. RingCell(key, q) \in 0..(RING - 1) BY <3>1, RingCellFacts
    <3>5. new[RingCell(key, q)] = table[RingCell(key, q)] BY <2>5, <2>7, <3>3, <3>4, Zenon
    <3>6. q \notin RingStops(new, key) BY <3>1, <3>3, <3>5, RingStopsIs
    <3> QED BY <3>1, <3>3, <3>4, <3>5, <3>6
  <2>11. RingGet(new, key) = value
    <3>1. new[RingCell(key, m)] # Unused /\ new[RingCell(key, m)].key = key
          /\ new[RingCell(key, m)].value = value
      BY <2>6, <2>7, Zenon
    <3>2. \A q \in 0..(m - 1) : q \notin RingStops(new, key) BY <2>10, Zenon
    <3> HIDE DEF m
    <3>3. RingGet(new, key) = new[RingCell(key, m)].value BY <2>2, <3>1, <3>2, RingHit
    <3> QED BY Zenon, <3>1, <3>3
  <2>12. \A d \in 0..(RING - 1) : table[d] # Unused => new[d] # Unused BY <2>6, <2>7, Zenon
  <2>13. RingRight(new)
    <3> SUFFICES ASSUME NEW d \in 0..(RING - 1), new[d] # Unused
                 PROVE  \E pos \in 0..(RING - 1) :
                          /\ RingCell(new[d].key, pos) = d
                          /\ \A q \in 0..(pos - 1) : new[RingCell(new[d].key, q)] # Unused
      BY Zenon, <2>8 DEF RingRight
    <3>1. CASE d = c
      <4>1. new[d].key = key BY <2>6, <2>7, <3>1
      <4>2. \A q \in 0..(m - 1) : new[RingCell(key, q)] # Unused BY <2>10, Zenon
      <4> QED BY <2>2, <3>1, <4>1, <4>2, Zenon
    <3>2. CASE d # c
      <4>1. new[d] = table[d] BY <2>7, <3>2, Zenon
      <4>2. PICK pos \in 0..(RING - 1) :
              /\ RingCell(table[d].key, pos) = d
              /\ \A q \in 0..(pos - 1) : table[RingCell(table[d].key, q)] # Unused
        BY Zenon, <2>8, <4>1 DEF RingRight
      <4>3. table[d] \in Entries(K, V) BY Zenon, <4>1 DEF Rings
      <4>4. table[d].key \in K BY Zenon, <4>3, EntriesFacts
      <4>5. ASSUME NEW q \in 0..(pos - 1) PROVE new[RingCell(table[d].key, q)] # Unused
        <5>1. q \in 0..(RING - 1) BY LbAssumption
        <5>2. RingCell(table[d].key, q) \in 0..(RING - 1) BY Zenon, <4>4, <5>1, RingCellFacts
        <5> QED BY <2>12, <4>2, <5>2, Zenon
      <4> QED BY <4>1, <4>2, <4>5, Zenon
    <3> QED BY Zenon, <3>1, <3>2
  <2> QED BY <2>8, <2>9, <2>11, <2>12, <2>13, Zenon
<1> QED BY Zenon, <1>1, <1>2

\* A value entered in a library's map is found, and the other keys keep theirs.
LEMMA MapKeeps ==
  ASSUME NEW V, NotFound \notin V, NEW table, \A k \in DOMAIN table : table[k] \in V,
         NEW key, NEW value \in V, NEW new, new = MapSet(table, key, value)
  PROVE  /\ \A k \in DOMAIN new : new[k] \in V
         /\ MapGet(new, key) = value
         /\ \A k : k # key => MapGet(new, k) = MapGet(table, k)
<1>1. /\ DOMAIN new = DOMAIN table \cup {key} /\ new[key] = value
      /\ \A k \in DOMAIN table : k # key => new[k] = table[k]
  BY Zenon DEF MapSet, Put
<1> QED BY Zenon, <1>1 DEF MapGet

\* The way of a key down the tree leads to the place, and ends there.
OnWay(table, key, place) ==
  \A i \in DOMAIN place :
    LET node == SubSeq(place, 1, i - 1)
    IN  /\ node \in DOMAIN table
        /\ table[node].key # key
        /\ (place[i] = 1) <=> KeyLess(table[node].key, key)
Ends(table, key, place) == place \in DOMAIN table => table[place].key = key

TreePlaces(table) == {<< >>} \cup {Append(p, d) : p \in DOMAIN table, d \in {0, 1}}

\* A tree of finite depth: above each node are nodes.
TreeRight(table, V) ==
  /\ \A p \in DOMAIN table : p \in Seq({0, 1}) /\ table[p].value \in V
  /\ \A p \in DOMAIN table : \A i \in DOMAIN p : SubSeq(p, 1, i - 1) \in DOMAIN table
  /\ \E depth \in Nat : \A p \in DOMAIN table : Len(p) <= depth

\* A place and the one below it.
LEMMA Below ==
  ASSUME NEW p \in Seq({0, 1}), NEW d \in {0, 1}, NEW q, q = Append(p, d)
  PROVE  /\ q \in Seq({0, 1}) /\ Len(q) = Len(p) + 1 /\ Len(p) \in Nat
         /\ DOMAIN p = 1..Len(p) /\ DOMAIN q = 1..(Len(p) + 1)
         /\ q[Len(p) + 1] = d /\ SubSeq(q, 1, Len(p)) = p /\ q # p
         /\ \A i \in 1..Len(p) : q[i] = p[i] /\ SubSeq(q, 1, i - 1) = SubSeq(p, 1, i - 1)
<1>1. /\ q \in Seq({0, 1}) /\ Len(q) = Len(p) + 1 /\ Len(p) \in Nat
      /\ DOMAIN p = 1..Len(p) /\ DOMAIN q = 1..(Len(p) + 1)
      /\ q[Len(p) + 1] = d /\ \A i \in 1..Len(p) : q[i] = p[i]
  OBVIOUS
<1>2. SubSeq(q, 1, Len(p)) = p BY <1>1
<1>3. ASSUME NEW i \in 1..Len(p) PROVE SubSeq(q, 1, i - 1) = SubSeq(p, 1, i - 1) BY <1>1
<1>4. Len(q) = Len(p) + 1 /\ Len(p) \in Nat BY <1>1, Zenon
<1>5. q # p
  <2> SUFFICES ASSUME q = p PROVE FALSE BY Zenon
  <2>1. Len(p) = Len(p) + 1 BY <1>4, Zenon
  <2> QED BY <1>4, <2>1
<1> QED BY <1>1, <1>2, <1>3, <1>5, Zenon

\* The way goes on below a node of another key, to the side that key is on.
LEMMA WayGoesOn ==
  ASSUME NEW table, NEW key, NEW p \in Seq({0, 1}), OnWay(table, key, p), p \in DOMAIN table,
         table[p].key # key, NEW d \in {0, 1}, (d = 1) <=> KeyLess(table[p].key, key)
  PROVE  OnWay(table, key, Append(p, d))
<1> DEFINE q == Append(p, d)
<1>1. /\ DOMAIN p = 1..Len(p) /\ DOMAIN q = 1..(Len(p) + 1) /\ Len(p) \in Nat
      /\ q[Len(p) + 1] = d /\ SubSeq(q, 1, Len(p)) = p
      /\ \A i \in 1..Len(p) : q[i] = p[i] /\ SubSeq(q, 1, i - 1) = SubSeq(p, 1, i - 1)
  BY Below
<1> HIDE DEF q
<1>2. ASSUME NEW i \in DOMAIN q
      PROVE  /\ SubSeq(q, 1, i - 1) \in DOMAIN table
             /\ table[SubSeq(q, 1, i - 1)].key # key
             /\ (q[i] = 1) <=> KeyLess(table[SubSeq(q, 1, i - 1)].key, key)
  <2>1. CASE i \in 1..Len(p)
    <3>1. q[i] = p[i] /\ SubSeq(q, 1, i - 1) = SubSeq(p, 1, i - 1) /\ i \in DOMAIN p
      BY Zenon, <1>1, <2>1
    <3> QED BY <3>1, Zenon DEF OnWay
  <2>2. CASE i \notin 1..Len(p)
    <3>1. i = Len(p) + 1 /\ i - 1 = Len(p) BY <1>1, <2>2
    <3>2. q[i] = d /\ SubSeq(q, 1, i - 1) = p BY Zenon, <1>1, <3>1
    <3> QED BY Zenon, <3>2
  <2> QED BY Zenon, <2>1, <2>2
<1>3. OnWay(table, key, q) BY <1>2, Zenon DEF OnWay
<1> QED BY Zenon, <1>3 DEF q

\* The places of a tree are paths, and not much longer than those of its nodes.
LEMMA PlacesFacts ==
  ASSUME NEW table, NEW V, TreeRight(table, V)
  PROVE  /\ TreePlaces(table) \subseteq Seq({0, 1})
         /\ \E depth \in Nat : \A p \in TreePlaces(table) : Len(p) <= depth
<1>1. PICK depth \in Nat : \A p \in DOMAIN table : Len(p) <= depth BY Zenon DEF TreeRight
<1>2. ASSUME NEW p \in TreePlaces(table) PROVE p \in Seq({0, 1}) /\ Len(p) <= depth + 1
  <2>1. CASE p = << >> BY <1>1, <2>1
  <2>2. CASE p # << >>
    <3>1. PICK o \in DOMAIN table, d \in {0, 1} : p = Append(o, d) BY <2>2 DEF TreePlaces
    <3>2. o \in Seq({0, 1}) BY Zenon DEF TreeRight
    <3>3. p \in Seq({0, 1}) /\ Len(p) = Len(o) + 1 /\ Len(o) \in Nat BY Zenon, <3>1, <3>2, Below
    <3>4. Len(o) <= depth BY Zenon, <1>1
    <3> QED BY <1>1, <3>3, <3>4
  <2> QED BY Zenon, <2>1, <2>2
<1>3. depth + 1 \in Nat OBVIOUS
<1> QED BY <1>2, <1>3, Zenon

\* The way of a key ends somewhere.
LEMMA WayEnds ==
  ASSUME NEW table, NEW V, TreeRight(table, V), NEW key
  PROVE  \E p \in TreePlaces(table) : Ends(table, key, p) /\ OnWay(table, key, p)
<1> SUFFICES ASSUME \A p \in TreePlaces(table) : OnWay(table, key, p) => ~Ends(table, key, p)
             PROVE  FALSE
  BY Zenon
<1> DEFINE P == {n \in Nat : \E p \in TreePlaces(table) : Len(p) = n /\ OnWay(table, key, p)}
<1>1. PICK depth \in Nat : \A p \in TreePlaces(table) : Len(p) <= depth BY Zenon, PlacesFacts
<1>2. 0 \in P
  <2>1. << >> \in TreePlaces(table) /\ Len(<< >>) = 0 BY DEF TreePlaces
  <2>2. OnWay(table, key, << >>) BY DEF OnWay
  <2> QED BY <2>1, <2>2
<1>3. ASSUME NEW n \in 0..depth, n \in P PROVE n + 1 \in P
  <2>1. PICK p \in TreePlaces(table) : Len(p) = n /\ OnWay(table, key, p) BY Zenon, <1>3
  <2>2. p \in DOMAIN table /\ table[p].key # key BY Zenon, <2>1 DEF Ends
  <2>3. p \in Seq({0, 1}) BY Zenon, <2>2 DEF TreeRight
  <2>4. PICK d \in {0, 1} : (d = 1) <=> KeyLess(table[p].key, key)
    <3>1. CASE KeyLess(table[p].key, key) BY Zenon, <3>1
    <3>2. CASE ~KeyLess(table[p].key, key) BY <3>2
    <3> QED BY Zenon, <3>1, <3>2
  <2>5. OnWay(table, key, Append(p, d)) BY <2>1, <2>2, <2>3, <2>4, WayGoesOn
  <2>6. Append(p, d) \in TreePlaces(table) BY <2>2 DEF TreePlaces
  <2>7. Len(Append(p, d)) = n + 1 BY <2>1, <2>3, Below
  <2>8. n + 1 \in Nat OBVIOUS
  <2> QED BY <2>5, <2>6, <2>7, <2>8, Zenon
<1> HIDE DEF P
<1>4. depth + 1 \in Nat /\ \A i \in 0..((depth + 1) - 1) : i \in P => i + 1 \in P BY <1>3
<1>5. \A i \in 0..(depth + 1) : i \in P BY <1>2, <1>4, Induction, Zenon
<1>6. depth + 1 \in P BY <1>5
<1>7. PICK p \in TreePlaces(table) : Len(p) = depth + 1 BY Zenon, <1>6 DEF P
<1> QED BY <1>1, <1>7

\* Two ways of a key go the same way.
LEMMA WaysAgree ==
  ASSUME NEW table, NEW key, NEW p \in Seq({0, 1}), NEW q \in Seq({0, 1}),
         OnWay(table, key, p), OnWay(table, key, q), Len(p) <= Len(q)
  PROVE  \A i \in 1..Len(p) : p[i] = q[i]
<1> DEFINE P == {n \in Nat : \A i \in 1..n : p[i] = q[i]}
<1>1. Len(p) \in Nat /\ Len(q) \in Nat /\ DOMAIN p = 1..Len(p) /\ DOMAIN q = 1..Len(q) OBVIOUS
<1>2. 0 \in P OBVIOUS
<1>3. ASSUME NEW n \in 0..(Len(p) - 1), n \in P PROVE n + 1 \in P
  <2>1. n \in Nat /\ \A i \in 1..n : p[i] = q[i] BY Zenon, <1>3
  <2>2. n + 1 \in DOMAIN p /\ n + 1 \in DOMAIN q /\ (n + 1) - 1 = n BY <1>1
  <2>3. SubSeq(p, 1, n) = SubSeq(q, 1, n) BY <1>1, <2>1, <2>2
  <2>4. /\ p[n + 1] = 1 <=> KeyLess(table[SubSeq(p, 1, n)].key, key)
        /\ q[n + 1] = 1 <=> KeyLess(table[SubSeq(q, 1, n)].key, key)
    BY Zenon, <2>2 DEF OnWay
  <2>5. p[n + 1] \in {0, 1} /\ q[n + 1] \in {0, 1} BY <2>2
  <2>6. p[n + 1] = q[n + 1]
    <3>1. (p[n + 1] = 1) <=> (q[n + 1] = 1) BY <2>3, <2>4, Zenon
    <3> QED BY <2>5, <3>1
  <2>7. \A i \in 1..(n + 1) : i \in 1..n \/ i = n + 1 BY <2>1
  <2> QED BY <2>1, <2>6, <2>7
<1> HIDE DEF P
<1>4. \A i \in 0..Len(p) : i \in P BY <1>1, <1>2, <1>3, Induction, Zenon
<1>5. Len(p) \in P BY <1>1, <1>4
<1> QED BY Zenon, <1>5 DEF P

\* The way of a key ends at one place only.
LEMMA WayEndsOnce ==
  ASSUME NEW table, NEW key, NEW p \in Seq({0, 1}), NEW q \in Seq({0, 1}),
         OnWay(table, key, p), Ends(table, key, p), OnWay(table, key, q), Len(p) <= Len(q)
  PROVE  p = q
<1>1. \A i \in 1..Len(p) : p[i] = q[i] BY Zenon, WaysAgree
<1>2. Len(p) \in Nat /\ Len(q) \in Nat /\ DOMAIN p = 1..Len(p) /\ DOMAIN q = 1..Len(q) OBVIOUS
<1>3. CASE Len(p) = Len(q) BY <1>1, <1>2, <1>3
<1>4. CASE Len(p) < Len(q)
  <2>1. Len(p) + 1 \in DOMAIN q /\ (Len(p) + 1) - 1 = Len(p) BY <1>2, <1>4
  <2>2. SubSeq(q, 1, Len(p)) = p BY <1>1, <1>2, <1>4
  <2>3. p \in DOMAIN table /\ table[p].key # key BY Zenon, <2>1, <2>2 DEF OnWay
  <2> QED BY Zenon, <2>3 DEF Ends
<1>5. Len(p) = Len(q) \/ Len(p) < Len(q)
  <2>1. Len(p) \in Nat /\ Len(q) \in Nat BY <1>2, Zenon
  <2> QED BY <2>1
<1> QED BY <1>3, <1>4, <1>5, Zenon

\* TreeWalk finds that place.
LEMMA WalkIs ==
  ASSUME NEW table, NEW V, TreeRight(table, V), NEW key, NEW p \in TreePlaces(table),
         Ends(table, key, p), OnWay(table, key, p)
  PROVE  TreeWalk(table, key) = p
<1> DEFINE w == TreeWalk(table, key)
<1>1. TreeWalk(table, key) =
        CHOOSE place \in TreePlaces(table) : Ends(table, key, place) /\ OnWay(table, key, place)
  BY DEF TreeWalk, TreePlaces, Ends, OnWay
<1>2. w \in TreePlaces(table) /\ Ends(table, key, w) /\ OnWay(table, key, w) BY <1>1, Zenon
<1> HIDE DEF w
<1>3. w \in Seq({0, 1}) /\ p \in Seq({0, 1}) BY <1>2, PlacesFacts
<1>4. Len(w) \in Nat /\ Len(p) \in Nat BY <1>3
<1>5. Len(w) <= Len(p) \/ Len(p) <= Len(w) BY <1>4
<1>6. w = p BY <1>2, <1>3, <1>5, WayEndsOnce, Zenon
<1> QED BY <1>6 DEF w

\* And there is one.
LEMMA WalkFacts ==
  ASSUME NEW table, NEW V, TreeRight(table, V), NEW key
  PROVE  /\ TreeWalk(table, key) \in TreePlaces(table) /\ TreeWalk(table, key) \in Seq({0, 1})
         /\ Ends(table, key, TreeWalk(table, key)) /\ OnWay(table, key, TreeWalk(table, key))
<1>1. PICK p \in TreePlaces(table) : Ends(table, key, p) /\ OnWay(table, key, p) BY Zenon, WayEnds
<1>2. TreeWalk(table, key) = p BY <1>1, WalkIs
<1>3. p \in Seq({0, 1}) BY Zenon, PlacesFacts
<1> QED BY <1>1, <1>2, <1>3

\* A new node below the tree leaves the ways to other places as they are.
LEMMA WayStays ==
  ASSUME NEW table, NEW new, NEW key, NEW p, NEW place, place \notin DOMAIN table,
         DOMAIN new = DOMAIN table \cup {place},
         \A node \in DOMAIN table : new[node] = table[node], OnWay(table, key, p)
  PROVE  OnWay(new, key, p)
<1> SUFFICES ASSUME NEW i \in DOMAIN p
             PROVE  /\ SubSeq(p, 1, i - 1) \in DOMAIN new
                    /\ new[SubSeq(p, 1, i - 1)].key # key
                    /\ (p[i] = 1) <=> KeyLess(new[SubSeq(p, 1, i - 1)].key, key)
  BY Zenon DEF OnWay
<1> DEFINE node == SubSeq(p, 1, i - 1)
<1>1. /\ node \in DOMAIN table /\ table[node].key # key
      /\ (p[i] = 1) <=> KeyLess(table[node].key, key)
  BY Zenon DEF OnWay
<1> HIDE DEF node
<1>2. node \in DOMAIN new /\ new[node] = table[node] BY Zenon, <1>1
<1>3. /\ node \in DOMAIN new /\ new[node].key # key
      /\ (p[i] = 1) <=> KeyLess(new[node].key, key)
  BY <1>1, <1>2
<1> QED BY <1>3, Zenon DEF node

\* The new node makes a tree.
LEMMA TreeGrows ==
  ASSUME NEW table, NEW new, NEW V, TreeRight(table, V), NEW place \in Seq({0, 1}), NEW key,
         place \notin DOMAIN table, OnWay(table, key, place),
         DOMAIN new = DOMAIN table \cup {place}, new[place].value \in V,
         \A node \in DOMAIN table : new[node] = table[node]
  PROVE  TreeRight(new, V)
<1>1. \A p \in DOMAIN new : p \in Seq({0, 1}) /\ new[p].value \in V BY Zenon DEF TreeRight
<1>2. ASSUME NEW p \in DOMAIN new, NEW i \in DOMAIN p PROVE SubSeq(p, 1, i - 1) \in DOMAIN new
  <2>1. CASE p = place
    <3>1. SubSeq(place, 1, i - 1) \in DOMAIN table BY <2>1, Zenon DEF OnWay
    <3> QED BY <2>1, <3>1, Zenon
  <2>2. CASE p # place
    <3>1. SubSeq(p, 1, i - 1) \in DOMAIN table BY <2>2, Zenon DEF TreeRight
    <3> QED BY <3>1, Zenon
  <2> QED BY <2>1, <2>2, Zenon
<1>3. PICK depth \in Nat : \A p \in DOMAIN table : Len(p) <= depth BY Zenon DEF TreeRight
<1>4. Len(place) \in Nat OBVIOUS
<1>5. depth + Len(place) \in Nat BY <1>4
<1>6. ASSUME NEW p \in DOMAIN new PROVE Len(p) <= depth + Len(place)
  <2>1. CASE p = place BY <1>4, <2>1
  <2>2. CASE p # place
    <3>1. p \in DOMAIN table BY <2>2, Zenon
    <3>2. Len(p) <= depth BY <1>3, <3>1, Zenon
    <3>3. p \in Seq({0, 1}) BY <1>1, Zenon
    <3>4. Len(p) \in Nat BY <3>3
    <3> QED BY <1>4, <3>2, <3>4
  <2> QED BY <2>1, <2>2, Zenon
<1> QED BY <1>1, <1>2, <1>5, <1>6, Zenon DEF TreeRight

\* The way of another key that ended at the new node goes on below it.
LEMMA WayMoves ==
  ASSUME NEW table, NEW new, NEW V, TreeRight(table, V), TreeRight(new, V), NEW k,
         NEW place \in Seq({0, 1}), place \notin DOMAIN table,
         OnWay(table, k, place), DOMAIN new = DOMAIN table \cup {place}, new[place].key # k,
         \A node \in DOMAIN table : new[node] = table[node]
  PROVE  TreeGet(new, k) = NotFound
<1>1. OnWay(new, k, place) BY Zenon, WayStays
<1>2. PICK d \in {0, 1} : (d = 1) <=> KeyLess(new[place].key, k)
  <2>1. CASE KeyLess(new[place].key, k) BY Zenon, <2>1
  <2>2. CASE ~KeyLess(new[place].key, k) BY <2>2
  <2> QED BY Zenon, <2>1, <2>2
<1> DEFINE w == Append(place, d)
<1>3. place \in DOMAIN new BY Zenon
<1>4. OnWay(new, k, w) BY <1>1, <1>2, <1>3, WayGoesOn, Zenon
<1>5. w \in TreePlaces(new) BY <1>3 DEF TreePlaces
<1>6. /\ w # place /\ Len(place) \in Nat /\ DOMAIN w = 1..(Len(place) + 1)
      /\ SubSeq(w, 1, Len(place)) = place
  BY Below, Zenon
<1> HIDE DEF w
<1>7. w \notin DOMAIN table
  <2> SUFFICES ASSUME w \in DOMAIN table PROVE FALSE BY Zenon
  <2>1. Len(place) + 1 \in DOMAIN w /\ (Len(place) + 1) - 1 = Len(place) BY <1>6
  <2>2. SubSeq(w, 1, (Len(place) + 1) - 1) \in DOMAIN table BY <2>1, Zenon DEF TreeRight
  <2> QED BY <1>6, <2>1, <2>2, Zenon
<1>8. w \notin DOMAIN new BY <1>6, <1>7, Zenon
<1>9. Ends(new, k, w) BY <1>8, Zenon DEF Ends
<1>10. TreeWalk(new, k) = w BY <1>4, <1>5, <1>9, WalkIs, Zenon
<1> QED BY <1>8, <1>10, Zenon DEF TreeGet

\* A value entered in a tree is found, and the other keys keep theirs.
LEMMA TreeKeeps ==
  ASSUME NEW V, NotFound \notin V, NEW table, TreeRight(table, V), NEW key, NEW value \in V,
         TreeGet(table, key) = NotFound, NEW new, new = TreeSet(table, key, value)
  PROVE  /\ TreeRight(new, V) /\ TreeGet(new, key) = value
         /\ \A k : k # key => TreeGet(new, k) = TreeGet(table, k)
<1> DEFINE place == TreeWalk(table, key)
<1>1. /\ place \in TreePlaces(table) /\ place \in Seq({0, 1})
      /\ Ends(table, key, place) /\ OnWay(table, key, place)
  BY WalkFacts, Zenon
<1>2. place \notin DOMAIN table
  <2> SUFFICES ASSUME place \in DOMAIN table PROVE FALSE BY Zenon
  <2>1. TreeGet(table, key) = table[place].value BY Zenon DEF TreeGet
  <2>2. table[place].value \in V BY Zenon DEF TreeRight
  <2> QED BY <2>1, <2>2, Zenon
<1>3. /\ DOMAIN new = DOMAIN table \cup {place} /\ new[place] = Entry(key, value)
      /\ \A p \in DOMAIN table : new[p] = table[p]
  <2>1. new = [p \in DOMAIN table \cup {place} |->
                 IF p = place THEN Entry(key, value) ELSE table[p]]
    BY Zenon DEF TreeSet, Put
  <2> HIDE DEF place
  <2> QED BY <1>2, <2>1
<1> HIDE DEF place
<1>4. new[place].key = key /\ new[place].value = value BY <1>3 DEF Entry
<1>5. TreeRight(new, V) BY <1>1, <1>2, <1>3, <1>4, TreeGrows
<1>6. TreePlaces(table) \subseteq TreePlaces(new) BY <1>3 DEF TreePlaces
<1>7. TreeGet(new, key) = value
  <2>1. OnWay(new, key, place) BY <1>1, <1>2, <1>3, WayStays
  <2>2. Ends(new, key, place) BY <1>4, Zenon DEF Ends
  <2>3. place \in TreePlaces(new) BY <1>1, <1>6, Zenon
  <2>4. TreeWalk(new, key) = place BY <1>5, <2>1, <2>2, <2>3, WalkIs, Zenon
  <2>5. place \in DOMAIN new BY <1>3, Zenon
  <2> QED BY <1>4, <2>4, <2>5, Zenon DEF TreeGet
<1>8. ASSUME NEW k, k # key PROVE TreeGet(new, k) = TreeGet(table, k)
  <2> DEFINE w == TreeWalk(table, k)
  <2>1. /\ w \in TreePlaces(table) /\ w \in Seq({0, 1})
        /\ Ends(table, k, w) /\ OnWay(table, k, w)
    BY WalkFacts, Zenon
  <2>2. CASE w = place
    <3>1. TreeGet(table, k) = NotFound BY <1>2, <2>2, Zenon DEF TreeGet
    <3>2. new[place].key # k BY Zenon, <1>4, <1>8
    <3>3. TreeGet(new, k) = NotFound BY <1>1, <1>2, <1>3, <1>5, <2>1, <2>2, <3>2, WayMoves
    <3> QED BY <3>1, <3>3
  <2>3. CASE w # place
    <3> HIDE DEF w
    <3>1. OnWay(new, k, w) BY <1>2, <1>3, <2>1, WayStays
    <3>2. w \in DOMAIN new <=> w \in DOMAIN table BY <1>3, <2>3, Zenon
    <3>3. w \in DOMAIN table => new[w] = table[w] BY <1>3, Zenon
    <3>4. Ends(new, k, w) BY <2>1, <3>2, <3>3, Zenon DEF Ends
    <3>5. w \in TreePlaces(new) BY <1>6, <2>1, Zenon
    <3>6. TreeWalk(new, k) = w BY <1>5, <3>1, <3>4, <3>5, WalkIs, Zenon
    <3> QED BY <3>2, <3>3, <3>6, Zenon DEF TreeGet, w
  <2> QED BY <2>2, <2>3, Zenon
<1> QED BY <1>5, <1>7, <1>8, Zenon

-----------------------------------------------------------------------------
(* The load balancers *)

\* The key of a packet, and the table of a program read and written.
KeyOf(p) == IF lb = "lb_basichash" THEN Source(p) ELSE Flow(p)
ReadTable(program, table, key) ==
  CASE program = "lb_basichash" -> ChainGet(table, key)
    [] program = "lb_hashring" -> RingGet(table, key)
    [] program = "lb_tree" -> TreeGet(table, key)
    [] program = "lb_stlmap" -> MapGet(table, key)
WriteTable(program, table, key, value) ==
  CASE program = "lb_basichash" -> ChainSet(table, key, value)
    [] program = "lb_hashring" -> RingSet(table, key, value)
    [] program = "lb_tree" -> TreeSet(table, key, value)
    [] program = "lb_stlmap" -> MapSet(table, key, value)

\* What a table of keys in K and values in V looks like.
TableRight(program, table, K, V) ==
  /\ program = "lb_basichash" => table \in Chains(K, V)
  /\ program = "lb_hashring" => table \in Rings(K, V) /\ RingRight(table)
  /\ program = "lb_tree" => TreeRight(table, V)
  /\ program = "lb_stlmap" => \A k \in DOMAIN table : table[k] \in V

Balancers == {"lb_basichash", "lb_hashring", "lb_tree", "lb_stlmap"}
FullTable(program, table) ==
  program = "lb_hashring" /\ \A c \in 0..(RING - 1) : table[c] # Unused

\* All four tables keep what was entered; a full ring takes nothing new.
LEMMA TableKeeps ==
  ASSUME NEW program \in Balancers, NEW table, NEW K, NEW V, Hashed(K, V),
         TableRight(program, table, K, V), NEW key \in K, NEW value \in V,
         ReadTable(program, table, key) = NotFound,
         NEW new, new = WriteTable(program, table, key, value)
  PROVE  /\ TableRight(program, new, K, V)
         /\ \A k \in K \ {key} : ReadTable(program, new, k) = ReadTable(program, table, k)
         /\ FullTable(program, new) \/ ReadTable(program, new, key) = value
         /\ FullTable(program, table) => FullTable(program, new)
<1>0. NotFound \notin V BY Zenon DEF Hashed
<1>1. CASE program = "lb_basichash"
  <2>1. table \in Chains(K, V) BY Zenon, <1>1 DEF TableRight
  <2>2. new = ChainSet(table, key, value) BY Zenon, <1>1 DEF WriteTable
  <2>3. /\ \A k : ReadTable(program, new, k) = ChainGet(new, k)
        /\ \A k : ReadTable(program, table, k) = ChainGet(table, k)
    BY Zenon, <1>1 DEF ReadTable
  <2>4. ChainGet(table, key) = NotFound BY Zenon, <2>3
  <2>5. /\ new \in Chains(K, V) /\ ChainGet(new, key) = value
        /\ \A k \in K \ {key} : ChainGet(new, k) = ChainGet(table, k)
    BY <2>1, <2>2, <2>4, ChainKeeps
  <2>6. TableRight(program, new, K, V) BY Zenon, <1>1, <2>5 DEF TableRight
  <2>7. ~FullTable(program, table) BY Zenon, <1>1 DEF FullTable
  <2> QED BY <2>3, <2>5, <2>6, <2>7
<1>2. CASE program = "lb_hashring"
  <2>1. table \in Rings(K, V) /\ RingRight(table) BY Zenon, <1>2 DEF TableRight
  <2>2. new = RingSet(table, key, value) BY <1>2 DEF WriteTable
  <2>3. /\ \A k : ReadTable(program, new, k) = RingGet(new, k)
        /\ \A k : ReadTable(program, table, k) = RingGet(table, k)
    BY <1>2 DEF ReadTable
  <2>4. RingGet(table, key) = NotFound BY Zenon, <2>3
  <2>5. /\ new \in Rings(K, V) /\ RingRight(new)
        /\ \A k \in K \ {key} : RingGet(new, k) = RingGet(table, k)
        /\ \/ new = table /\ \A c \in 0..(RING - 1) : table[c] # Unused
           \/ RingGet(new, key) = value
        /\ \A c \in 0..(RING - 1) : table[c] # Unused => new[c] # Unused
    BY <2>1, <2>2, <2>4, RingKeeps
  <2>6. TableRight(program, new, K, V) BY Zenon, <1>2, <2>5 DEF TableRight
  <2>7. FullTable(program, new) \/ ReadTable(program, new, key) = value
    BY Zenon, <1>2, <2>3, <2>5 DEF FullTable
  <2>8. FullTable(program, table) => FullTable(program, new) BY Zenon, <1>2, <2>5 DEF FullTable
  <2> QED BY <2>3, <2>5, <2>6, <2>7, <2>8
<1>3. CASE program = "lb_tree"
  <2>1. TreeRight(table, V) BY <1>3 DEF TableRight
  <2>2. new = TreeSet(table, key, value) BY Zenon, <1>3 DEF WriteTable
  <2>3. /\ \A k : ReadTable(program, new, k) = TreeGet(new, k)
        /\ \A k : ReadTable(program, table, k) = TreeGet(table, k)
    BY Zenon, <1>3 DEF ReadTable
  <2>4. TreeGet(table, key) = NotFound BY Zenon, <2>3
  <2>5. /\ TreeRight(new, V) /\ TreeGet(new, key) = value
        /\ \A k : k # key => TreeGet(new, k) = TreeGet(table, k)
    BY <1>0, <2>1, <2>2, <2>4, TreeKeeps
  <2>6. TableRight(program, new, K, V) BY Zenon, <1>3, <2>5 DEF TableRight
  <2>7. ~FullTable(program, table) BY Zenon, <1>3 DEF FullTable
  <2> QED BY <2>3, <2>5, <2>6, <2>7
<1>4. CASE program = "lb_stlmap"
  <2>1. \A k \in DOMAIN table : table[k] \in V BY Zenon, <1>4 DEF TableRight
  <2>2. new = MapSet(table, key, value) BY Zenon, <1>4 DEF WriteTable
  <2>3. /\ \A k : ReadTable(program, new, k) = MapGet(new, k)
        /\ \A k : ReadTable(program, table, k) = MapGet(table, k)
    BY Zenon, <1>4 DEF ReadTable
  <2>5. /\ \A k \in DOMAIN new : new[k] \in V
        /\ MapGet(new, key) = value
        /\ \A k : k # key => MapGet(new, k) = MapGet(table, k)
    BY <1>0, <2>1, <2>2, MapKeeps
  <2>6. TableRight(program, new, K, V) BY Zenon, <1>4, <2>5 DEF TableRight
  <2>7. ~FullTable(program, table) BY Zenon, <1>4 DEF FullTable
  <2> QED BY Zenon, <2>3, <2>5, <2>6, <2>7
<1> QED BY <1>1, <1>2, <1>3, <1>4 DEF Balancers

\* The tables that hash_init makes: nothing is found in them.
LEMMA EmptyTables ==
  ASSUME NEW kind \in Balancers, NEW K, NEW V, \A k \in K : hash_function(k) \in Nat, NEW t,
         kind = "lb_basichash" => t = ChainInit, kind = "lb_hashring" => t = RingInit,
         kind \in {"lb_tree", "lb_stlmap"} => DOMAIN t = {}
  PROVE  TableRight(kind, t, K, V) /\ \A k \in K : ReadTable(kind, t, k) = NotFound
<1>1. /\ kind = "lb_basichash" => t = [b \in 0..(BUCKETS - 1) |-> << >>]
      /\ kind = "lb_hashring" => t = [i \in 0..(RING - 1) |-> Unused]
  BY Zenon DEF ChainInit, RingInit
<1>2. TableRight(kind, t, K, V)
  <2>1. kind = "lb_basichash" => t \in Chains(K, V)
    <3>1. << >> \in Seq(Entries(K, V)) OBVIOUS
    <3> QED BY Zenon, <1>1, <3>1 DEF Chains
  <2>2. kind = "lb_hashring" => t \in Rings(K, V) /\ RingRight(t) BY <1>1 DEF Rings, RingRight
  <2>3. kind = "lb_tree" => TreeRight(t, V) BY 0 \in Nat DEF TreeRight
  <2>4. kind = "lb_stlmap" => \A k \in DOMAIN t : t[k] \in V BY Zenon
  <2> QED BY <2>1, <2>2, <2>3, <2>4, Zenon DEF TableRight
<1>3. ASSUME NEW k \in K PROVE ReadTable(kind, t, k) = NotFound
  <2>1. hash_function(k) \in Nat BY Zenon
  <2>2. CASE kind = "lb_basichash"
    <3>1. Bucket(k) \in 0..(BUCKETS - 1) BY <2>1, LbAssumption DEF Bucket
    <3>2. t[Bucket(k)] = << >> BY <1>1, <2>2, <3>1, Zenon
    <3>3. ChainHits(t[Bucket(k)], k) = {} BY <3>2 DEF ChainHits
    <3>4. ChainGet(t, k) = NotFound BY <3>3, Zenon DEF ChainGet
    <3> QED BY <2>2, <3>4 DEF ReadTable
  <2>3. CASE kind = "lb_hashring"
    <3>1. ASSUME NEW m \in RingStops(t, k) PROVE t[RingCell(k, m)] = Unused
      <4>1. m \in 0..(RING - 1) BY Zenon DEF RingStops
      <4>2. hash_function(k) + m \in Nat BY <2>1, <4>1, LbAssumption
      <4>3. RingCell(k, m) \in 0..(RING - 1) BY <4>2, LbAssumption DEF RingCell
      <4> QED BY <1>1, <2>3, <4>3, Zenon
    <3>2. RingGet(t, k) = NotFound BY <3>1, RingMiss, Zenon
    <3> QED BY <2>3, <3>2 DEF ReadTable
  <2>4. CASE kind = "lb_tree"
    <3>1. TreeGet(t, k) = NotFound BY <2>4, Zenon DEF TreeGet
    <3> QED BY <2>4, <3>1 DEF ReadTable
  <2>5. CASE kind = "lb_stlmap"
    <3>1. MapGet(t, k) = NotFound BY <2>5, Zenon DEF MapGet
    <3> QED BY <2>5, <3>1 DEF ReadTable
  <2> QED BY <2>2, <2>3, <2>4, <2>5 DEF Balancers
<1> QED BY <1>2, <1>3, Zenon

\* What the tables of the balancers hold: the address of a server.
LbValues == {<<dips[i]>> : i \in Servers}

\* The servers before the one whose turn it is have one client more.
Spread == \A i \in Servers : Load(i) = Load(next_dip) + Bit(i < next_dip)

\* The inductive invariant of the balancers.
LbInv ==
  /\ lb \in Balancers /\ dips \in Dips /\ next_dip \in Servers
  /\ TableRight(lb, clients, Keys, LbValues)
  /\ FullTable(lb, clients) \/ Spread

\* What the properties and the invariant call the table.
LEMMA LbNames ==
  ASSUME LbInv
  PROVE  /\ \A k : ServerOf(k) = ReadTable(lb, clients, k)
         /\ RingFull <=> FullTable(lb, clients)
         /\ Keys = {KeyOf(p) : p \in {q \in LbPackets : Len(q) = 4 /\ q[2] = VIP}}
<1>1. \A k : ServerOf(k) = ReadTable(lb, clients, k) BY Zenon DEF ServerOf, ReadTable
<1>2. RingFull <=> FullTable(lb, clients)
  <2>1. lb = "lb_hashring" => DOMAIN clients = 0..(RING - 1) BY Zenon DEF LbInv, TableRight, Rings
  <2> QED BY <2>1, Zenon DEF RingFull, FullTable
<1>3. Keys = {KeyOf(p) : p \in {q \in LbPackets : Len(q) = 4 /\ q[2] = VIP}}
  BY Zenon DEF Keys, KeyOf
<1> QED BY <1>1, <1>2, <1>3, Zenon

\* The servers of a configuration: some first ones, with addresses of their own.
LEMMA ServerFacts ==
  ASSUME LbInv
  PROVE  /\ Servers \subseteq Nat \ {0} /\ next_dip \in Nat /\ Len(dips) \in Nat
         /\ \A i \in Servers : i \in 1..Len(dips) /\ dips[i] # 0
         /\ \A i, j \in Servers : dips[i] = dips[j] => i = j
         /\ \A i \in Servers : \A j \in 1..i : j \in Servers
         /\ 1 \in Servers
<1>1. /\ dips \in Seq(Nat) /\ Len(dips) > 0 /\ dips[1] # 0
      /\ \A i, j \in 1..Len(dips) : dips[i] = dips[j] /\ dips[i] # 0 => i = j
  BY Zenon, LbAssumption DEF LbInv
<1>2. Len(dips) \in Nat BY <1>1
<1>3. \A i \in Servers : i \in 1..Len(dips) /\ dips[i] # 0
  BY <1>2 DEF Servers, NUM_DIPS
<1>4. \A i, j \in Servers : dips[i] = dips[j] => i = j BY <1>1, <1>3, Zenon
<1>5. \A i \in Servers : \A j \in 1..i : j \in Servers BY <1>2 DEF Servers, NUM_DIPS
<1>6. 1 \in Servers BY <1>1, <1>2 DEF Servers, NUM_DIPS
<1>7. Servers \subseteq Nat \ {0} /\ next_dip \in Nat BY <1>2, <1>3 DEF LbInv
<1> QED BY <1>2, <1>3, <1>4, <1>5, <1>6, <1>7, Zenon

\* Keys are hashed to numbers, and a server's address is no missing value.
LEMMA LbHashed ==
  ASSUME LbInv
  PROVE  Hashed(Keys, LbValues)
<1>1. NotFound \notin LbValues BY Zenon DEF NotFound, LbValues
<1>2. ASSUME NEW k \in Keys PROVE hash_function(k) \in Nat
  <2>1. PICK p \in {q \in LbPackets : Len(q) = 4 /\ q[2] = VIP} : k = KeyOf(p) BY Zenon, LbNames
  <2>2. p \in LbPackets /\ Len(p) = 4 BY <2>1, Zenon
  <2>3. hash_function(Source(p)) \in Nat /\ hash_function(Flow(p)) \in Nat
    BY <2>2, LbAssumption, Zenon
  <2> QED BY <2>1, <2>3, Zenon DEF KeyOf
<1> QED BY <1>1, <1>2, Zenon DEF Hashed

\* There are finitely many keys.
LEMMA KeysFinite ==
  ASSUME LbInv
  PROVE  IsFiniteSet(Keys)
<1> DEFINE P == {q \in LbPackets : Len(q) = 4 /\ q[2] = VIP}
           f == [p \in P |-> KeyOf(p)]
<1>1. IsFiniteSet(P)
  <2>1. P \in SUBSET LbPackets BY Zenon
  <2> HIDE DEF P
  <2> QED BY <2>1, LbAssumption, FS_Subset, Zenon
<1>2. Keys = {KeyOf(p) : p \in P} BY Zenon, LbNames
<1> HIDE DEF P
<1>3. f \in Surjection(P, Keys) BY Zenon, <1>2 DEF Surjection
<1> HIDE DEF f
<1> QED BY <1>1, <1>3, FS_Surjection, Zenon

\* The clients of a server.
ClientsOf(i) == {k \in Keys : ServerOf(k) = <<dips[i]>>}

\* They can be counted, and the count is the load.
LEMMA LoadFacts ==
  ASSUME LbInv, NEW i
  PROVE  /\ IsFiniteSet(ClientsOf(i)) /\ Load(i) = Cardinality(ClientsOf(i)) /\ Load(i) \in Nat
<1>1. ClientsOf(i) \in SUBSET Keys BY Zenon DEF ClientsOf
<1>2. IsFiniteSet(ClientsOf(i)) BY <1>1, KeysFinite, FS_Subset, Zenon
<1>3. Load(i) = Cardinality(ClientsOf(i)) BY Zenon DEF Load, ClientsOf
<1>4. Cardinality(ClientsOf(i)) \in Nat BY <1>2, FS_CardinalityType, Zenon
<1> QED BY <1>2, <1>3, <1>4, Zenon

\* A packet changes nothing in the table, or enters its client.
LEMMA BalanceCases ==
  ASSUME LbInv, NEW p \in LbPackets, Balance(p)
  PROVE  \/ UNCHANGED <<clients, next_dip>>
         \/ /\ KeyOf(p) \in Keys /\ ReadTable(lb, clients, KeyOf(p)) = NotFound
            /\ clients' = WriteTable(lb, clients, KeyOf(p), NextServer)
            /\ next_dip' = Following(next_dip)
<1> DEFINE known == ReadTable(lb, clients, KeyOf(p))
           entered == WriteTable(lb, clients, KeyOf(p), NextServer)
<1>1. lb_dispatch_packet(known, entered, p)
  <2>1. CASE lb = "lb_basichash"
    <3>1. known = ChainGet(clients, Source(p)) BY <2>1 DEF ReadTable, KeyOf
    <3>2. entered = ChainSet(clients, Source(p), NextServer) BY <2>1 DEF WriteTable, KeyOf
    <3> HIDE DEF known, entered
    <3> QED BY <2>1, <3>1, <3>2 DEF Balance, lb_basichash
  <2>2. CASE lb = "lb_hashring"
    <3>1. known = RingGet(clients, Flow(p)) BY Zenon, <2>2 DEF ReadTable, KeyOf
    <3>2. entered = RingSet(clients, Flow(p), NextServer) BY Zenon, <2>2 DEF WriteTable, KeyOf
    <3> HIDE DEF known, entered
    <3> QED BY <2>2, <3>1, <3>2 DEF Balance, lb_hashring
  <2>3. CASE lb = "lb_tree"
    <3>1. known = TreeGet(clients, Flow(p)) BY <2>3 DEF ReadTable, KeyOf
    <3>2. entered = TreeSet(clients, Flow(p), NextServer) BY Zenon, <2>3 DEF WriteTable, KeyOf
    <3> HIDE DEF known, entered
    <3> QED BY <2>3, <3>1, <3>2 DEF Balance, lb_tree
  <2>4. CASE lb = "lb_stlmap"
    <3>1. known = MapGet(clients, Flow(p)) BY Zenon, <2>4 DEF ReadTable, KeyOf
    <3>2. entered = MapSet(clients, Flow(p), NextServer) BY Zenon, <2>4 DEF WriteTable, KeyOf
    <3> HIDE DEF known, entered
    <3> QED BY <2>4, <3>1, <3>2 DEF Balance, lb_stlmap
  <2> QED BY <2>1, <2>2, <2>3, <2>4 DEF LbInv, Balancers
<1> HIDE DEF known, entered
<1>2. CASE Len(p) = 4 /\ p[2] = VIP
  <2>1. KeyOf(p) \in Keys BY Zenon, <1>2, LbNames
  <2>2. \/ UNCHANGED <<clients, next_dip>>
        \/ known = NotFound /\ clients' = entered /\ next_dip' = Following(next_dip)
    BY Zenon, <1>1, <1>2 DEF lb_dispatch_packet, ToServer
  <2> QED BY <2>1, <2>2, Zenon DEF known, entered
<1>3. CASE ~(Len(p) = 4 /\ p[2] = VIP)
  BY <1>1, <1>3 DEF lb_dispatch_packet, FromServer, Ignore
<1> QED BY <1>2, <1>3

\* What a client that is entered changes: its own entry, unless the ring is full.
LEMMA EnterTable ==
  ASSUME LbInv, NEW key \in Keys, ReadTable(lb, clients, key) = NotFound,
         clients' = WriteTable(lb, clients, key, NextServer), UNCHANGED <<lb, dips>>
  PROVE  /\ Keys' = Keys /\ Servers' = Servers /\ LbValues' = LbValues
         /\ TableRight(lb', clients', Keys', LbValues')
         /\ ServerOf(key) = NotFound
         /\ \A k \in Keys \ {key} : ServerOf(k)' = ServerOf(k)
         /\ FullTable(lb', clients') \/ ServerOf(key)' = <<dips[next_dip]>>
         /\ FullTable(lb, clients) => FullTable(lb', clients')
<1>1. Keys' = Keys BY Zenon DEF Keys
<1>2. Servers' = Servers BY Zenon DEF Servers, NUM_DIPS
<1>3. LbValues' = LbValues BY Zenon, <1>2 DEF LbValues
<1>4. NextServer = <<dips[next_dip]>> /\ NextServer \in LbValues
  BY Zenon DEF NextServer, LbValues, LbInv
<1>5. lb \in Balancers /\ TableRight(lb, clients, Keys, LbValues) BY Zenon DEF LbInv
<1>6. /\ TableRight(lb, clients', Keys, LbValues)
      /\ \A k \in Keys \ {key} : ReadTable(lb, clients', k) = ReadTable(lb, clients, k)
      /\ FullTable(lb, clients') \/ ReadTable(lb, clients', key) = NextServer
      /\ FullTable(lb, clients) => FullTable(lb, clients')
  BY <1>4, <1>5, LbHashed, TableKeeps
<1>7. lb' = lb BY Zenon
<1>8. \A k : ServerOf(k) = ReadTable(lb, clients, k) BY Zenon, LbNames
<1>9. \A k : ServerOf(k)' = ReadTable(lb, clients', k)
  BY <1>7, Zenon DEF ServerOf, ReadTable
<1>10. TableRight(lb', clients', Keys', LbValues') BY <1>1, <1>3, <1>6, <1>7, Zenon
<1>11. \A k \in Keys \ {key} : ServerOf(k)' = ServerOf(k) BY <1>6, <1>8, <1>9, Zenon
<1>12. FullTable(lb', clients') \/ ServerOf(key)' = <<dips[next_dip]>>
  BY <1>4, <1>6, <1>7, <1>9, Zenon
<1>13. FullTable(lb, clients) => FullTable(lb', clients') BY <1>6, <1>7, Zenon
<1> QED BY <1>1, <1>2, <1>3, <1>8, <1>10, <1>11, <1>12, <1>13, Zenon

\* The load of the server that the client was given is one more; no other changes.
LEMMA LoadGrows ==
  ASSUME LbInv, NEW key \in Keys, ServerOf(key) = NotFound, Keys' = Keys, UNCHANGED dips,
         \A k \in Keys \ {key} : ServerOf(k)' = ServerOf(k),
         ServerOf(key)' = <<dips[next_dip]>>, NEW i \in Servers
  PROVE  (Load(i))' = Load(i) + Bit(i = next_dip)
<1>1. next_dip \in Servers BY Zenon DEF LbInv
<1>2. key \notin ClientsOf(i) BY DEF ClientsOf, NotFound
<1>3. (Load(i))' = Cardinality((ClientsOf(i))') BY Zenon DEF Load, ClientsOf
<1>4. CASE i = next_dip
  <2>1. (ClientsOf(i))' = ClientsOf(i) \cup {key} BY Zenon, <1>4 DEF ClientsOf
  <2>2. IsFiniteSet(ClientsOf(i)) /\ Load(i) = Cardinality(ClientsOf(i)) BY LoadFacts, Zenon
  <2>3. Cardinality(ClientsOf(i) \cup {key}) = Cardinality(ClientsOf(i)) + 1
    BY <1>2, <2>2, FS_AddElement, Zenon
  <2> QED BY <1>3, <1>4, <2>1, <2>2, <2>3 DEF Bit
<1>5. CASE i # next_dip
  <2>1. dips[i] # dips[next_dip] BY Zenon, <1>1, <1>5, ServerFacts
  <2>2. <<dips[i]>> # <<dips[next_dip]>> BY <2>1
  <2>3. (ClientsOf(i))' = ClientsOf(i) BY <1>2, <2>2 DEF ClientsOf
  <2>4. Load(i) \in Nat /\ Load(i) = Cardinality(ClientsOf(i)) BY Zenon, LoadFacts
  <2> QED BY <1>3, <1>5, <2>3, <2>4 DEF Bit
<1> QED BY <1>4, <1>5

\* The next server is the one after, or the first when there is none after.
LEMMA FollowingFacts ==
  ASSUME LbInv
  PROVE  /\ Following(next_dip) \in Servers
         /\ \/ Following(next_dip) = next_dip + 1
            \/ Following(next_dip) = 1 /\ \A i \in Servers : i <= next_dip
<1>1. /\ Servers \subseteq Nat \ {0} /\ next_dip \in Nat /\ Len(dips) \in Nat
      /\ \A i \in Servers : i \in 1..Len(dips) /\ dips[i] # 0
      /\ \A i \in Servers : \A j \in 1..i : j \in Servers
      /\ 1 \in Servers /\ next_dip \in Servers
  BY Zenon, ServerFacts DEF LbInv
<1>2. CASE next_dip + 1 <= Len(dips) /\ dips[next_dip + 1] # 0
  <2>1. Following(next_dip) = next_dip + 1 BY <1>1, <1>2 DEF Following, NUM_DIPS
  <2>2. next_dip + 1 \in 1..Len(dips) BY <1>1, <1>2
  <2>3. ASSUME NEW j \in 1..(next_dip + 1) PROVE dips[j] # 0
    <3>1. j \in 1..next_dip \/ j = next_dip + 1 BY <1>1
    <3> QED BY <1>1, <1>2, <3>1
  <2>4. next_dip + 1 \in Servers BY Zenon, <2>2, <2>3 DEF Servers, NUM_DIPS
  <2> QED BY Zenon, <2>1, <2>4
<1>3. CASE ~(next_dip + 1 <= Len(dips) /\ dips[next_dip + 1] # 0)
  <2>1. Following(next_dip) = 1 BY <1>1, <1>3 DEF Following, NUM_DIPS
  <2>2. ASSUME NEW i \in Servers PROVE i <= next_dip
    <3> SUFFICES ASSUME ~(i <= next_dip) PROVE FALSE BY Zenon
    <3>1. i \in Nat BY <1>1
    <3>2. next_dip + 1 \in 1..i BY <1>1, <3>1
    <3>3. next_dip + 1 \in Servers BY <1>1, <3>2, Zenon
    <3>4. next_dip + 1 \in 1..Len(dips) /\ dips[next_dip + 1] # 0 BY <1>1, <3>3, Zenon
    <3> QED BY <1>1, <1>3, <3>4
  <2> QED BY Zenon, <1>1, <2>1, <2>2
<1> QED BY <1>2, <1>3

\* Turns keep the loads even.
LEMMA TurnsAreEven ==
  ASSUME LbInv, Spread, Servers' = Servers, next_dip' = Following(next_dip),
         \A i \in Servers : (Load(i))' = Load(i) + Bit(i = next_dip)
  PROVE  Spread'
<1> DEFINE D == next_dip
<1>1. D \in Nat /\ D \in Servers /\ Servers \subseteq Nat BY Zenon, ServerFacts DEF LbInv
<1>2. Load(D) \in Nat BY LoadFacts
<1>3. PICK n \in Servers : n = Following(next_dip) BY Zenon, FollowingFacts
<1>4. next_dip' = n /\ (n = D + 1 \/ (n = 1 /\ \A i \in Servers : i <= D))
  BY <1>3, FollowingFacts
<1>5. (Load(next_dip))' = (Load(n))' BY <1>4, Zenon DEF Load
<1>6. \A i \in Servers : Load(i) = Load(D) + Bit(i < D) BY Zenon DEF Spread
<1> DEFINE L == Load(D)
<1>7. L \in Nat BY <1>2
<1>8. \A i \in Servers : (Load(i))' = (L + Bit(i < D)) + Bit(i = D) BY <1>6
<1> HIDE DEF L, D
<1>9. ASSUME NEW i \in Servers PROVE (Load(i))' = (Load(n))' + Bit(i < n)
  <2>1. i \in Nat /\ n \in Nat BY Zenon, <1>1
  <2>2. (Load(i))' = (L + Bit(i < D)) + Bit(i = D) BY <1>8
  <2>3. (Load(n))' = (L + Bit(n < D)) + Bit(n = D) BY <1>8
  <2>4. (L + Bit(i < D)) + Bit(i = D) = ((L + Bit(n < D)) + Bit(n = D)) + Bit(i < n)
    <3>1. CASE n = D + 1 BY <1>1, <1>7, <2>1, <3>1 DEF Bit
    <3>2. CASE n = 1 /\ \A j \in Servers : j <= D
      <4>1. i <= D /\ n <= D /\ ~(i < n)
        <5>1. i # 0 BY Zenon, ServerFacts
        <5>2. i <= D /\ n <= D BY <3>2
        <5> QED BY <2>1, <3>2, <5>1, <5>2
      <4> QED BY <1>1, <1>7, <2>1, <4>1 DEF Bit
    <3> QED BY <1>4, <3>1, <3>2
  <2> QED BY <2>2, <2>3, <2>4, Zenon
<1> QED BY <1>4, <1>5, <1>9, Zenon DEF Spread

\* Entering a client keeps the invariant.
LEMMA EnterStep ==
  ASSUME LbInv, NEW key \in Keys, ReadTable(lb, clients, key) = NotFound,
         clients' = WriteTable(lb, clients, key, NextServer),
         next_dip' = Following(next_dip), UNCHANGED <<lb, dips>>
  PROVE  /\ LbInv'
         /\ \A k \in Keys : ServerOf(k) # NotFound => ServerOf(k)' = ServerOf(k)
<1>1. /\ Keys' = Keys /\ Servers' = Servers /\ LbValues' = LbValues
      /\ TableRight(lb', clients', Keys', LbValues')
      /\ ServerOf(key) = NotFound
      /\ \A k \in Keys \ {key} : ServerOf(k)' = ServerOf(k)
      /\ FullTable(lb', clients') \/ ServerOf(key)' = <<dips[next_dip]>>
      /\ FullTable(lb, clients) => FullTable(lb', clients')
  BY Zenon, EnterTable
<1>2. next_dip' \in Servers' BY <1>1, FollowingFacts
<1>3. lb' \in Balancers /\ dips' \in Dips BY Zenon DEF LbInv
<1>4. FullTable(lb', clients') \/ Spread'
  <2> SUFFICES ASSUME ~FullTable(lb', clients') PROVE Spread' BY Zenon
  <2>1. ServerOf(key)' = <<dips[next_dip]>> /\ Spread BY <1>1, Zenon DEF LbInv
  <2>2. \A i \in Servers : (Load(i))' = Load(i) + Bit(i = next_dip) BY <1>1, <2>1, LoadGrows
  <2> QED BY <1>1, <2>1, <2>2, TurnsAreEven
<1>5. LbInv' BY <1>1, <1>2, <1>3, <1>4, Zenon DEF LbInv
<1> QED BY <1>1, <1>5, Zenon

\* A step that leaves the table alone.
LEMMA LbStutters ==
  ASSUME LbInv, UNCHANGED <<lb, dips, clients, next_dip>>
  PROVE  /\ LbInv'
         /\ \A k \in Keys : ServerOf(k) # NotFound => ServerOf(k)' = ServerOf(k)
<1>1. Keys' = Keys BY Zenon DEF Keys
<1>2. Servers' = Servers BY Zenon DEF Servers, NUM_DIPS
<1>3. LbValues' = LbValues BY <1>2 DEF LbValues
<1>4. \A k : ServerOf(k)' = ServerOf(k) BY Zenon DEF ServerOf
<1>5. Spread' <=> Spread
  <2>1. \A i : (Load(i))' = Load(i) BY <1>1, <1>4 DEF Load
  <2>2. (Load(next_dip))' = Load(next_dip) BY <1>1, <1>4 DEF Load
  <2> QED BY <1>2, <2>1, <2>2 DEF Spread
<1> QED BY <1>1, <1>2, <1>3, <1>4, <1>5 DEF LbInv

\* Every packet keeps the invariant and the clients with their servers.
LEMMA LbSteps ==
  ASSUME LbInv, [LbNext]_lbVars
  PROVE  /\ LbInv'
         /\ \A k \in Keys : ServerOf(k) # NotFound => ServerOf(k)' = ServerOf(k)
<1>1. CASE UNCHANGED lbVars BY Zenon, <1>1, LbStutters DEF lbVars
<1>2. CASE LbNext
  <2>1. PICK p \in LbPackets : Balance(p) /\ UNCHANGED <<lb, dips>> BY Zenon, <1>2 DEF LbNext
  <2>2. CASE UNCHANGED <<clients, next_dip>> BY <2>1, <2>2, LbStutters
  <2>3. CASE /\ KeyOf(p) \in Keys /\ ReadTable(lb, clients, KeyOf(p)) = NotFound
             /\ clients' = WriteTable(lb, clients, KeyOf(p), NextServer)
             /\ next_dip' = Following(next_dip)
    BY <2>1, <2>3, EnterStep
  <2> QED BY <2>1, <2>2, <2>3, BalanceCases
<1> QED BY Zenon, <1>1, <1>2

\* A balancer starts with no clients.
LEMMA LbStarts ==
  ASSUME LbInit
  PROVE  LbInv
<1>1. /\ lb \in Balancers /\ dips \in Dips /\ clients = lb_init(lb) /\ next_dip = 1
  BY LbAssumption DEF LbInit, Balancers
<1>2. dips \in Seq(Nat) /\ Len(dips) > 0 /\ dips[1] # 0 BY <1>1, LbAssumption
<1>3. next_dip \in Servers BY <1>1, <1>2 DEF Servers, NUM_DIPS
<1>4. ASSUME NEW k \in Keys PROVE hash_function(k) \in Nat
  <2>1. PICK p \in {q \in LbPackets : Len(q) = 4 /\ q[2] = VIP} :
          k = IF lb = "lb_basichash" THEN Source(p) ELSE Flow(p)
    BY DEF Keys
  <2>2. p \in LbPackets /\ Len(p) = 4 BY <2>1, Zenon
  <2>3. hash_function(Source(p)) \in Nat /\ hash_function(Flow(p)) \in Nat
    BY <2>2, LbAssumption, Zenon
  <2> QED BY <2>1, <2>3, Zenon
<1>5. /\ lb = "lb_basichash" => clients = ChainInit
      /\ lb = "lb_hashring" => clients = RingInit
      /\ lb \in {"lb_tree", "lb_stlmap"} => DOMAIN clients = {}
  BY <1>1 DEF lb_init
<1>6. TableRight(lb, clients, Keys, LbValues) /\ \A k \in Keys : ServerOf(k) = NotFound
  <2>1. /\ TableRight(lb, clients, Keys, LbValues)
        /\ \A k \in Keys : ReadTable(lb, clients, k) = NotFound
    BY <1>1, <1>4, <1>5, EmptyTables, Zenon
  <2>2. \A k : ServerOf(k) = ReadTable(lb, clients, k) BY <1>1 DEF Balancers, ServerOf, ReadTable
  <2> QED BY <2>1, <2>2, Zenon
<1>7. ASSUME NEW i PROVE Load(i) = 0
  <2>1. <<dips[i]>> # NotFound BY Zenon DEF NotFound
  <2>2. {k \in Keys : ServerOf(k) = <<dips[i]>>} = {} BY <1>6, <2>1, Zenon
  <2> QED BY <2>2, FS_EmptySet DEF Load
<1>8. Spread
  <2>1. \A i \in Servers : ~(i < 1) BY <1>2 DEF Servers, NUM_DIPS
  <2> QED BY <1>1, <1>7, <2>1 DEF Spread, Bit
<1> QED BY <1>1, <1>3, <1>6, <1>8, Zenon DEF LbInv

\* The loads of an even spread are as EvenlySpread says.
LEMMA SpreadIsEven ==
  ASSUME LbInv
  PROVE  EvenlySpread
<1> SUFFICES ASSUME ~RingFull, NEW i \in Servers
             PROVE  /\ Load(i) - Load(next_dip) \in {0, 1}
                    /\ i > next_dip => Load(i) = Load(next_dip)
  BY Zenon DEF EvenlySpread
<1>1. ~FullTable(lb, clients) BY LbNames, Zenon
<1>2. Load(i) = Load(next_dip) + Bit(i < next_dip) BY <1>1, Zenon DEF LbInv, Spread
<1>3. Load(next_dip) \in Nat /\ i \in Nat /\ next_dip \in Nat BY LoadFacts, ServerFacts
<1> QED BY <1>2, <1>3 DEF Bit

\* Whatever packets come in whatever order, a balancer spreads the clients its
\* table knows evenly over its servers, with any number of servers and any of
\* the four tables, until the ring of lb-hashring is full.
THEOREM EvenlySpreadInvariance == LbSpec => []EvenlySpread
<1>1. LbInit => LbInv BY Zenon, LbStarts
<1>2. LbInv /\ [LbNext]_lbVars => LbInv' BY LbSteps
<1>3. LbInv => EvenlySpread BY Zenon, SpreadIsEven
<1> QED BY <1>1, <1>2, <1>3, PTL DEF LbSpec

\* A client stays with the server it was given: hash_set for one key moves and
\* hides no entry of another key in the chains, the ring, the tree and the map.
THEOREM ClientsStayAlways == LbSpec => ClientsStay
<1>1. LbInit => LbInv BY Zenon, LbStarts
<1>2. LbInv /\ [LbNext]_lbVars => LbInv' BY Zenon, LbSteps
<1>3. LbInv /\ [LbNext]_lbVars =>
        [\A k \in Keys : ServerOf(k) # NotFound => ServerOf(k)' = ServerOf(k)]_lbVars
  BY Zenon, LbSteps
<1> QED BY <1>1, <1>2, <1>3, PTL DEF LbSpec, ClientsStay

-----------------------------------------------------------------------------
(* The NATs: the table of connections *)

\* A table of translations in which each entry has its partner.
Paired(f) ==
  \A h \in DOMAIN f : /\ Translator!Swap(f[h]) \in DOMAIN f
                      /\ f[Translator!Swap(f[h])] = Translator!Swap(h)

\* The table f with the connection of p from the outer port.
Opened(f, p, outer) ==
  [h \in DOMAIN f \cup {p, Translator!ReturnKey(p, outer)} |->
     CASE h = p -> Translator!Outgoing(p, outer)
       [] h = Translator!ReturnKey(p, outer) -> Translator!Swap(p)
       [] OTHER -> f[h]]

\* NatTable's headers are the program's.
LEMMA NatNames ==
  /\ Translator!Headers = Headers /\ Translator!Ports = Ports /\ Translator!Dropped = Dropped
  /\ \A h, outer : /\ Translator!ReturnKey(h, outer) = ReturnKey(h, outer)
                  /\ Translator!Outgoing(h, outer) = <<NatIp, h[2], h[3], outer, h[5]>>
                  /\ Translator!Swap(h) = <<h[2], h[1], h[3], h[5], h[4]>>
<1>1. Translator!Ports = Ports BY Zenon DEF Ports, Translator!Ports
<1>2. Translator!Headers = Headers BY <1>1, Zenon DEF Headers, Translator!Headers
<1> QED
  BY <1>1, <1>2, Zenon
  DEF Translator!Dropped, Dropped, Translator!ReturnKey, ReturnKey, Translator!Outgoing,
      Translator!Swap

\* The fields of a header.
LEMMA HeaderFacts ==
  ASSUME NEW p \in Headers
  PROVE  /\ p[1] \in Addresses /\ p[2] \in Addresses /\ p[3] \in Protocols
         /\ p[4] \in Ports /\ p[5] \in Ports /\ p = <<p[1], p[2], p[3], p[4], p[5]>>
BY DEF Headers

\* The two headers of a new connection are different, and answer each other.
LEMMA PartnerFacts ==
  ASSUME NEW p \in Headers, NEW outer \in Ports
  PROVE  /\ ReturnKey(p, outer) \in Headers
         /\ Translator!Outgoing(p, outer) \in Headers /\ Translator!Swap(p) \in Headers
         /\ Translator!Swap(Translator!Outgoing(p, outer)) = ReturnKey(p, outer)
         /\ Translator!Swap(ReturnKey(p, outer)) = Translator!Outgoing(p, outer)
         /\ Translator!Swap(Translator!Swap(p)) = p
         /\ p[2] # NatIp => ReturnKey(p, outer) # p
<1>1. /\ p[1] \in Addresses /\ p[2] \in Addresses /\ p[3] \in Protocols /\ NatIp \in Addresses
      /\ p[4] \in Ports /\ p[5] \in Ports /\ p = <<p[1], p[2], p[3], p[4], p[5]>>
  BY HeaderFacts, NatAssumption
<1>2. /\ Translator!Outgoing(p, outer) = <<NatIp, p[2], p[3], outer, p[5]>>
      /\ Translator!Swap(p) = <<p[2], p[1], p[3], p[5], p[4]>>
      /\ ReturnKey(p, outer) = <<p[2], NatIp, p[3], p[5], outer>>
      /\ \A h : Translator!Swap(h) = <<h[2], h[1], h[3], h[5], h[4]>>
  BY NatNames, Zenon DEF ReturnKey
<1>3. /\ ReturnKey(p, outer) \in Headers
      /\ Translator!Outgoing(p, outer) \in Headers /\ Translator!Swap(p) \in Headers
  BY <1>1, <1>2 DEF Headers
<1>4. /\ Translator!Swap(Translator!Outgoing(p, outer)) = ReturnKey(p, outer)
      /\ Translator!Swap(ReturnKey(p, outer)) = Translator!Outgoing(p, outer)
      /\ Translator!Swap(Translator!Swap(p)) = p
  BY <1>1, <1>2
<1>5. ReturnKey(p, outer)[2] = NatIp BY <1>2
<1> QED BY <1>3, <1>4, <1>5

\* A connection is entered in both directions at once.
LEMMA OpenedPaired ==
  ASSUME NEW f, Paired(f), NEW p \in Headers, NEW outer \in Ports, p[2] # NatIp,
         p \notin DOMAIN f, ReturnKey(p, outer) \notin DOMAIN f
  PROVE  Paired(Opened(f, p, outer))
<1> DEFINE g == Opened(f, p, outer)
           r == Translator!ReturnKey(p, outer)
           o == Translator!Outgoing(p, outer)
           s == Translator!Swap(p)
<1>0. r = ReturnKey(p, outer) /\ p \notin DOMAIN f /\ r \notin DOMAIN f BY NatNames, Zenon
<1>1. /\ Translator!Swap(o) = r /\ Translator!Swap(r) = o /\ Translator!Swap(s) = p /\ r # p
  <2>1. /\ Translator!Swap(o) = ReturnKey(p, outer) /\ Translator!Swap(ReturnKey(p, outer)) = o
        /\ Translator!Swap(s) = p /\ ReturnKey(p, outer) # p
    BY PartnerFacts, Zenon
  <2> HIDE DEF r, o, s
  <2> QED BY <1>0, <2>1
<1>2. /\ DOMAIN g = DOMAIN f \cup {p, r} /\ g[p] = o /\ g[r] = s
      /\ \A h \in DOMAIN f : g[h] = f[h]
  <2> DEFINE G(h) == CASE h = p -> o [] h = r -> s [] OTHER -> f[h]
  <2>1. g = [h \in DOMAIN f \cup {p, r} |-> G(h)] BY Zenon DEF Opened
  <2>2. G(p) = o BY Zenon, <1>1
  <2>3. G(r) = s BY Zenon, <1>1
  <2>4. \A h \in DOMAIN f : G(h) = f[h] BY Zenon, <1>0
  <2> HIDE DEF G, g, r, o, s
  <2> QED BY <2>1, <2>2, <2>3, <2>4
<1> HIDE DEF g, r, o
<1>3. ASSUME NEW h \in DOMAIN g
      PROVE  Translator!Swap(g[h]) \in DOMAIN g /\ g[Translator!Swap(g[h])] = Translator!Swap(h)
  <2>1. CASE h = p BY <1>1, <1>2, <2>1
  <2>2. CASE h = r BY <1>1, <1>2, <2>2
  <2>3. CASE h \in DOMAIN f
    <3>1. /\ Translator!Swap(f[h]) \in DOMAIN f
          /\ f[Translator!Swap(f[h])] = Translator!Swap(h)
      BY <2>3, Zenon DEF Paired
    <3> QED BY <1>2, <2>3, <3>1, Zenon
  <2> QED BY <1>2, <1>3, <2>1, <2>2, <2>3
<1>4. Paired(g) BY <1>3, Zenon DEF Paired
<1> QED BY Zenon, <1>4 DEF g

\* So the promise of NatTable keeps RoundTrip.
LEMMA TranslatorKeepsPairs ==
  ASSUME RoundTrip, [Translator!Next]_Translator!natVars
  PROVE  RoundTrip'
<1>0. /\ RoundTrip <=> Paired(Contents)
      /\ RoundTrip' <=> Paired(Contents')
  BY Zenon DEF RoundTrip, Translator!RoundTrip, Translator!Known, Paired
<1>1. CASE Contents' = Contents BY <1>0, <1>1, Zenon
<1>2. CASE \E p \in Packets, outer \in Translator!Ports : Translator!Open(p, outer)
  <2>1. PICK p \in Packets, outer \in Translator!Ports : Translator!Open(p, outer) BY Zenon, <1>2
  <2>2. /\ p \in Headers /\ outer \in Ports /\ p[2] # NatIp /\ p \notin DOMAIN Contents
        /\ ReturnKey(p, outer) \notin DOMAIN Contents
    BY <2>1, NatNames, Zenon DEF Translator!Open, Translator!New, Translator!Known
  <2>3. Contents' = Contents \/ Contents' = Opened(Contents, p, outer)
    BY <2>1, Zenon DEF Translator!Open, Translator!Known, Opened
  <2>4. Paired(Opened(Contents, p, outer)) BY <1>0, <2>2, OpenedPaired, Zenon
  <2> QED BY <1>0, <2>3, <2>4, Zenon
<1>3. \/ Contents' = Contents
      \/ \E p \in Packets, outer \in Translator!Ports : Translator!Open(p, outer)
  BY Zenon DEF Translator!Next, Translator!natVars, Translator!Drop, Translator!Translate,
     Translator!Hang, Translator!Crash
<1> QED BY <1>1, <1>2, <1>3, Zenon

-----------------------------------------------------------------------------
(* The NATs: the tables that hold the connections *)

\* The programs, but for nat-ruby, whose table is st.c's.
Nats == {"nat_basichash", "nat_hashring", "nat_tree", "nat_stlmap", "nat_stlumap",
         "nat_dpdkhash", "nat_hash_table"}

\* The balancer that has the same table.
TableOf(program) ==
  CASE program \in {"nat_basichash", "nat_hash_table"} -> "lb_basichash"
    [] program = "nat_hashring" -> "lb_hashring"
    [] program = "nat_tree" -> "lb_tree"
    [] OTHER -> "lb_stlmap"

\* What a program finds in a table, and what it finds for each header.
Found(kind, t) == {c \in Candidates : ReadTable(kind, t, c) # NotFound}
ContentsOf(kind, t) == [h \in Found(kind, t) |-> ReadTable(kind, t, h)]

\* The cells of a ring that are in use.
Used(t) == {c \in 0..(RING - 1) : t[c] # Unused}

\* The table of each NAT.
LEMMA TableOfFacts ==
  ASSUME NEW program \in Nats
  PROVE  /\ TableOf(program) \in Balancers
         /\ TableOf(program) = "lb_hashring" <=> program = "nat_hashring"
         /\ program \in {"nat_basichash", "nat_hash_table"} => TableOf(program) = "lb_basichash"
         /\ program = "nat_tree" => TableOf(program) = "lb_tree"
         /\ program \in {"nat_stlmap", "nat_stlumap", "nat_dpdkhash"}
              => TableOf(program) = "lb_stlmap"
BY Zenon DEF Nats, TableOf, Balancers

\* hash_get reads that table.
LEMMA NatReads ==
  ASSUME NEW t, NEW k, nat \in Nats
  PROVE  hash_get(t, k) = ReadTable(TableOf(nat), t, k)
BY Zenon DEF Nats, hash_get, ReadTable, TableOf

\* The table as the program sees it.
LEMMA ContentsIs ==
  /\ nat \in Nats => Contents = ContentsOf(TableOf(nat), hash_table)
  /\ nat \in Nats /\ nat' = nat => Contents' = ContentsOf(TableOf(nat), hash_table')
<1>1. ASSUME nat \in Nats, NEW t, NEW k PROVE hash_get(t, k) = ReadTable(TableOf(nat), t, k)
  BY <1>1, NatReads, Zenon
<1>2. ASSUME nat \in Nats, nat' = nat, NEW k
      PROVE  hash_get(hash_table, k)' = ReadTable(TableOf(nat), hash_table', k)
  BY Zenon, <1>2 DEF Nats, hash_get, ReadTable, TableOf
<1>3. ASSUME nat \in Nats PROVE Contents = ContentsOf(TableOf(nat), hash_table)
  BY <1>1, <1>3 DEF Contents, ContentsOf, Found
<1>4. ASSUME nat \in Nats, nat' = nat
      PROVE  Contents' = ContentsOf(TableOf(nat), hash_table')
  <2> DEFINE Get(k) == hash_get(hash_table, k)'
  <2>1. Contents' = [h \in {c \in Candidates : Get(c) # NotFound} |-> Get(h)]
    BY Zenon DEF Contents
  <2>2. \A k : Get(k) = ReadTable(TableOf(nat), hash_table', k) BY <1>2, <1>4, Zenon
  <2> HIDE DEF Get
  <2> QED BY <2>1, <2>2 DEF ContentsOf, Found
<1> QED BY <1>3, <1>4, Zenon

\* The headers a program may look up are headers, which hash to numbers.
LEMMA CandidateFacts ==
  /\ Candidates \subseteq Headers /\ Hashed(Candidates, Headers)
  /\ \A p \in Packets : p \in Headers =>
       p \in Candidates /\ \A outer \in Ports : ReturnKey(p, outer) \in Candidates
<1>1. \A p \in Headers, outer \in Ports : ReturnKey(p, outer) \in Headers
  BY PartnerFacts, Zenon
<1>2. Candidates \subseteq Headers BY <1>1 DEF Candidates
<1>3. NotFound \notin Headers
  <2> SUFFICES ASSUME NotFound \in Headers PROVE FALSE BY Zenon
  <2>1. NotFound = <<NotFound[1], NotFound[2], NotFound[3], NotFound[4], NotFound[5]>>
    BY HeaderFacts, Zenon
  <2>2. 1 \in DOMAIN NotFound BY <2>1
  <2> QED BY <2>2 DEF NotFound
<1>4. Hashed(Candidates, Headers) BY <1>2, <1>3, NatAssumption, Zenon DEF Hashed
<1>5. ASSUME NEW p \in Packets, p \in Headers
      PROVE  p \in Candidates /\ \A outer \in Ports : ReturnKey(p, outer) \in Candidates
  BY <1>5 DEF Candidates
<1> QED BY <1>2, <1>4, <1>5, Zenon

\* hash_set on a ring takes an unused cell, if there is one.
LEMMA RingTakes ==
  ASSUME NEW K, NEW V, Hashed(K, V), NEW t \in Rings(K, V), NEW key \in K, NEW value \in V,
         RingGet(t, key) = NotFound, NEW new, new = RingSet(t, key, value)
  PROVE  \/ new = t /\ \A c \in 0..(RING - 1) : t[c] # Unused
         \/ \E c \in 0..(RING - 1) : t[c] = Unused /\ new = [t EXCEPT ![c] = Entry(key, value)]
<1> DEFINE m == Min(RingStops(t, key))
           c == RingCell(key, m)
<1>1. CASE RingStops(t, key) = {}
  <2>1. new = t BY <1>1, Zenon DEF RingSet
  <2>2. ASSUME NEW d \in 0..(RING - 1) PROVE t[d] # Unused
    <3>1. PICK pos \in 0..(RING - 1) : RingCell(key, pos) = d BY RingCovered, Zenon
    <3> QED BY <1>1, <3>1, RingStopsIs, Zenon
  <2> QED BY <2>1, <2>2, Zenon
<1>2. CASE RingStops(t, key) # {}
  <2>1. m \in 0..(RING - 1) BY <1>2, FirstStop, Zenon
  <2>2. c \in 0..(RING - 1) BY <2>1, RingCellFacts, Zenon
  <2>3. new = [t EXCEPT ![c] = Entry(key, value)] BY <1>2, Zenon DEF RingSet
  <2>4. t[c] = Unused
    <3> SUFFICES ASSUME t[c] # Unused PROVE FALSE BY Zenon
    <3>1. RingGet(t, key) = t[c].value BY <1>2, Zenon DEF RingGet
    <3> HIDE DEF c
    <3>2. t[c] \in Entries(K, V) BY <2>2 DEF Rings
    <3>3. t[c].value \in V BY <3>2, EntriesFacts, Zenon
    <3> QED BY <3>1, <3>3, Zenon DEF Hashed
  <2> QED BY <2>2, <2>3, <2>4, Zenon
<1> QED BY <1>1, <1>2, Zenon

\* The cells in use are as many as the ring has, when it is full.
LEMMA UsedFacts ==
  ASSUME NEW t
  PROVE  /\ IsFiniteSet(Used(t)) /\ Cardinality(Used(t)) \in Nat
         /\ Cardinality(Used(t)) <= RING
         /\ Cardinality(Used(t)) = RING <=> \A c \in 0..(RING - 1) : t[c] # Unused
<1> DEFINE S == 0..(RING - 1)
<1>1. RING \in Nat \ {0} BY LbAssumption, Zenon
<1>2. IsFiniteSet(S) /\ Cardinality(S) = RING
  <2>1. 0 \in Int /\ RING - 1 \in Int /\ 0 <= RING - 1 /\ ((RING - 1) - 0) + 1 = RING BY <1>1
  <2>2. IsFiniteSet(0..(RING - 1)) /\ Cardinality(0..(RING - 1)) = ((RING - 1) - 0) + 1
    BY <2>1, FS_Interval
  <2> QED BY <2>1, <2>2
<1>3. Used(t) \subseteq S /\ (Used(t) = S <=> \A c \in S : t[c] # Unused) BY Zenon DEF Used
<1> HIDE DEF S
<1>4. /\ IsFiniteSet(Used(t)) /\ Cardinality(Used(t)) <= Cardinality(S)
      /\ Cardinality(Used(t)) = Cardinality(S) => Used(t) = S
  BY <1>2, <1>3, FS_Subset, Zenon
<1>5. Cardinality(Used(t)) \in Nat BY <1>4, FS_CardinalityType, Zenon
<1> QED BY <1>2, <1>3, <1>4, <1>5, Zenon DEF S

\* One cell more is in use.
LEMMA UsedGrows ==
  ASSUME NEW t, NEW c \in 0..(RING - 1), t[c] = Unused, NEW new, new[c] # Unused,
         \A d \in 0..(RING - 1) : d # c => new[d] = t[d]
  PROVE  Cardinality(Used(new)) = Cardinality(Used(t)) + 1
<1>1. Used(new) = Used(t) \cup {c} BY DEF Used
<1>2. c \notin Used(t) BY Zenon DEF Used
<1>3. IsFiniteSet(Used(t)) BY UsedFacts, Zenon
<1> QED BY <1>1, <1>2, <1>3, FS_AddElement, Zenon

\* There is room in the table for a header that is not in it, and the table
\* new has the one entry more.
CanEnter(kind, t, k, v) ==
  /\ kind \in Balancers /\ TableRight(kind, t, Candidates, Headers)
  /\ k \in Candidates /\ v \in Headers /\ ReadTable(kind, t, k) = NotFound
  /\ kind = "lb_hashring" => Cardinality(Used(t)) < RING
HasEntered(kind, t, k, v, new) ==
  /\ TableRight(kind, new, Candidates, Headers) /\ ReadTable(kind, new, k) = v
  /\ \A c \in Candidates \ {k} : ReadTable(kind, new, c) = ReadTable(kind, t, c)
  /\ kind = "lb_hashring" => Cardinality(Used(new)) = Cardinality(Used(t)) + 1
  /\ kind = "lb_stlmap" => DOMAIN new = DOMAIN t \cup {k}

\* hash_set makes the entry where there is room for it.
LEMMA EnterOne ==
  ASSUME NEW kind, NEW t, NEW k, NEW v, CanEnter(kind, t, k, v)
  PROVE  HasEntered(kind, t, k, v, WriteTable(kind, t, k, v))
<1>1. PICK new : new = WriteTable(kind, t, k, v) BY Zenon
<1>2. /\ kind \in Balancers /\ TableRight(kind, t, Candidates, Headers)
      /\ k \in Candidates /\ v \in Headers /\ ReadTable(kind, t, k) = NotFound
      /\ kind = "lb_hashring" => Cardinality(Used(t)) < RING
      /\ Hashed(Candidates, Headers)
  BY CandidateFacts, Zenon DEF CanEnter
<1>3. /\ TableRight(kind, new, Candidates, Headers)
      /\ \A c \in Candidates \ {k} : ReadTable(kind, new, c) = ReadTable(kind, t, c)
      /\ FullTable(kind, new) \/ ReadTable(kind, new, k) = v
  BY <1>1, <1>2, TableKeeps
<1>4. CASE kind = "lb_hashring"
  <2>1. t \in Rings(Candidates, Headers) /\ RingRight(t) BY <1>2, <1>4, Zenon DEF TableRight
  <2>2. /\ new = RingSet(t, k, v) /\ RingGet(t, k) = NotFound
        /\ ReadTable(kind, new, k) = RingGet(new, k)
    BY <1>1, <1>2, <1>4 DEF WriteTable, ReadTable
  <2>3. ~\A c \in 0..(RING - 1) : t[c] # Unused
    <3>1. RING \in Nat /\ Cardinality(Used(t)) < RING BY <1>2, <1>4, LbAssumption
    <3>2. Cardinality(Used(t)) \in Nat BY UsedFacts, Zenon
    <3>3. Cardinality(Used(t)) # RING BY <3>1, <3>2
    <3> QED BY <3>3, UsedFacts, Zenon
  <2>4. RingGet(new, k) = v BY <1>2, <2>1, <2>2, <2>3, RingKeeps
  <2>5. PICK c \in 0..(RING - 1) : t[c] = Unused /\ new = [t EXCEPT ![c] = Entry(k, v)]
    BY <1>2, <2>1, <2>2, <2>3, RingTakes
  <2>6. Entry(k, v) # Unused
    <3>1. Entry(k, v) \in Entries(Candidates, Headers) BY <1>2, EntryFacts, Zenon
    <3> QED BY <3>1, EntriesFacts, Zenon
  <2>7. DOMAIN t = 0..(RING - 1) BY <2>1, Zenon DEF Rings
  <2>8. new[c] = Entry(k, v) /\ \A d \in 0..(RING - 1) : d # c => new[d] = t[d]
    BY <2>5, <2>7, Zenon
  <2>9. Cardinality(Used(new)) = Cardinality(Used(t)) + 1 BY <2>5, <2>6, <2>8, UsedGrows, Zenon
  <2>10. kind # "lb_stlmap" BY <1>4
  <2> QED BY <1>1, <1>3, <1>4, <2>2, <2>4, <2>9, <2>10, Zenon DEF HasEntered
<1>5. CASE kind # "lb_hashring"
  <2>1. ReadTable(kind, new, k) = v BY <1>3, <1>5, Zenon DEF FullTable
  <2>2. kind = "lb_stlmap" => DOMAIN new = DOMAIN t \cup {k} BY <1>1 DEF WriteTable, MapSet, Put
  <2> QED BY <1>1, <1>3, <1>5, <2>1, <2>2, Zenon DEF HasEntered
<1> QED BY <1>4, <1>5, Zenon

\* There is room for the two entries of a connection, and the table new has them.
CanEnterBoth(kind, t, a, v, b, w) ==
  /\ kind \in Balancers /\ TableRight(kind, t, Candidates, Headers) /\ a # b
  /\ a \in Candidates /\ v \in Headers /\ ReadTable(kind, t, a) = NotFound
  /\ b \in Candidates /\ w \in Headers /\ ReadTable(kind, t, b) = NotFound
  /\ kind = "lb_hashring" => Cardinality(Used(t)) + 2 <= RING
HasBoth(kind, t, a, v, b, w, new) ==
  /\ TableRight(kind, new, Candidates, Headers)
  /\ ReadTable(kind, new, a) = v /\ ReadTable(kind, new, b) = w
  /\ \A c \in Candidates \ {a, b} : ReadTable(kind, new, c) = ReadTable(kind, t, c)
  /\ kind = "lb_hashring" => Cardinality(Used(new)) = Cardinality(Used(t)) + 2
  /\ kind = "lb_stlmap" => DOMAIN new = DOMAIN t \cup {a, b}

\* The two hash_set of a new connection make the two entries.
LEMMA EnterBoth ==
  ASSUME NEW kind, NEW t, NEW a, NEW v, NEW b, NEW w, CanEnterBoth(kind, t, a, v, b, w)
  PROVE  HasBoth(kind, t, a, v, b, w, WriteTable(kind, WriteTable(kind, t, a, v), b, w))
<1>1. PICK one : one = WriteTable(kind, t, a, v) BY Zenon
<1>2. PICK new : new = WriteTable(kind, one, b, w) BY Zenon
<1>3. Cardinality(Used(t)) \in Nat /\ RING \in Nat BY UsedFacts, LbAssumption, Zenon
<1>4. kind = "lb_hashring" => Cardinality(Used(t)) + 2 <= RING BY Zenon DEF CanEnterBoth
<1>5. kind = "lb_hashring" => Cardinality(Used(t)) < RING BY <1>3, <1>4
<1>6. CanEnter(kind, t, a, v) BY <1>5, Zenon DEF CanEnterBoth, CanEnter
<1>7. HasEntered(kind, t, a, v, one) BY <1>1, <1>6, EnterOne, Zenon
<1>8. kind = "lb_hashring" => Cardinality(Used(one)) = Cardinality(Used(t)) + 1
  BY <1>7, Zenon DEF HasEntered
<1>9. kind = "lb_hashring" => Cardinality(Used(one)) < RING BY <1>3, <1>4, <1>8
<1>10. ReadTable(kind, one, b) = NotFound BY <1>7, Zenon DEF CanEnterBoth, HasEntered
<1>11. CanEnter(kind, one, b, w)
  BY <1>7, <1>9, <1>10, Zenon DEF CanEnterBoth, CanEnter, HasEntered
<1>12. HasEntered(kind, one, b, w, new) BY <1>2, <1>11, EnterOne, Zenon
<1>13. /\ TableRight(kind, new, Candidates, Headers)
       /\ ReadTable(kind, new, a) = v /\ ReadTable(kind, new, b) = w
       /\ \A c \in Candidates \ {a, b} : ReadTable(kind, new, c) = ReadTable(kind, t, c)
  BY <1>7, <1>12, Zenon DEF CanEnterBoth, HasEntered
<1>14. kind = "lb_hashring" => Cardinality(Used(new)) = Cardinality(Used(one)) + 1
  BY <1>12, Zenon DEF HasEntered
<1>15. kind = "lb_hashring" => Cardinality(Used(new)) = Cardinality(Used(t)) + 2
  BY <1>3, <1>8, <1>14
<1>16. kind = "lb_stlmap" => DOMAIN new = DOMAIN t \cup {a, b}
  BY <1>7, <1>12, Zenon DEF HasEntered
<1>17. HasBoth(kind, t, a, v, b, w, new) BY <1>13, <1>15, <1>16, Zenon DEF HasBoth
<1> QED BY <1>1, <1>2, <1>17, Zenon

-----------------------------------------------------------------------------
(* The NATs: the inductive invariant and the steps *)

\* The table of the program is right, and holds whole connections: with the
\* ring and the rte_hash this is what leaves room for both entries or none.
NatRight(program, t, f) ==
  /\ program \in Nats
  /\ TableRight(TableOf(program), t, Candidates, Headers)
  /\ IsFiniteSet(DOMAIN f) /\ \E n \in Nat : Cardinality(DOMAIN f) = 2 * n
  /\ program = "nat_hashring" => Cardinality(Used(t)) = Cardinality(DOMAIN f)
  /\ program = "nat_dpdkhash" => DOMAIN t = DOMAIN f
NatInv == NatRight(nat, hash_table, Contents)

\* The table after both hash_set of a connection.
Entered(a, v, b, w) ==
  IF nat = "nat_dpdkhash" THEN RteSet(RteSet(hash_table, a, v), b, w)
  ELSE WriteTable(TableOf(nat), WriteTable(TableOf(nat), hash_table, a, v), b, w)

\* What dispatch_packet finds in the table.
Reads(p) == [k \in Lookups(p) |-> ReadTable(TableOf(nat), hash_table, k)]

\* A header is in the table when the program finds it.
LEMMA KnownIs ==
  ASSUME nat \in Nats, NEW c \in Candidates
  PROVE  /\ c \in DOMAIN Contents <=> ReadTable(TableOf(nat), hash_table, c) # NotFound
         /\ c \in DOMAIN Contents => Contents[c] = ReadTable(TableOf(nat), hash_table, c)
<1>1. Contents = ContentsOf(TableOf(nat), hash_table) BY ContentsIs, Zenon
<1> QED BY <1>1 DEF ContentsOf, Found

\* A connection finds room for both entries or for none.
LEMMA RoomForBoth ==
  ASSUME NatInv, NEW a \in Candidates, NEW v \in Headers, NEW b \in Candidates, NEW w \in Headers,
         a \notin DOMAIN Contents, b \notin DOMAIN Contents, a # b
  PROVE  /\ NoRoom => Entered(a, v, b, w) = hash_table
         /\ ~NoRoom =>
              /\ Entered(a, v, b, w) =
                   WriteTable(TableOf(nat), WriteTable(TableOf(nat), hash_table, a, v), b, w)
              /\ TableOf(nat) = "lb_hashring" => Cardinality(Used(hash_table)) + 2 <= RING
<1> DEFINE C == Cardinality(DOMAIN Contents)
<1>1. nat \in Nats /\ IsFiniteSet(DOMAIN Contents) BY Zenon DEF NatInv, NatRight
<1>2. PICK n \in Nat : C = 2 * n BY Zenon DEF NatInv, NatRight
<1>3. /\ ReadTable(TableOf(nat), hash_table, a) = NotFound
      /\ ReadTable(TableOf(nat), hash_table, b) = NotFound
  BY <1>1, KnownIs, Zenon
<1>4. CASE nat = "nat_hashring"
  <2>1. TableOf(nat) = "lb_hashring" BY <1>1, <1>4, TableOfFacts, Zenon
  <2>2. /\ hash_table \in Rings(Candidates, Headers) /\ RingRight(hash_table)
        /\ Cardinality(Used(hash_table)) = C
    BY <1>4, <2>1, Zenon DEF NatInv, NatRight, TableRight
  <2>3. PICK m \in 0..RING : RING = 2 * m BY NatAssumption, Zenon
  <2>4. RING \in Nat BY LbAssumption, Zenon
  <2>5. NoRoom <=> C + 2 > RING BY <1>4, Zenon DEF NoRoom
  <2> HIDE DEF C
  <2>6. CASE NoRoom
    <3>1. C <= RING BY <2>2, UsedFacts, Zenon
    <3>2. C = RING BY <1>2, <2>3, <2>4, <2>5, <2>6, <3>1
    <3>3. \A c \in 0..(RING - 1) : hash_table[c] # Unused BY <2>2, <3>2, UsedFacts, Zenon
    <3>4. ASSUME NEW k \in Candidates, NEW x \in Headers,
                 ReadTable(TableOf(nat), hash_table, k) = NotFound
          PROVE  WriteTable(TableOf(nat), hash_table, k, x) = hash_table
      <4>1. /\ RingGet(hash_table, k) = NotFound
            /\ WriteTable(TableOf(nat), hash_table, k, x) = RingSet(hash_table, k, x)
        BY <2>1, <3>4 DEF ReadTable, WriteTable
      <4>2. RingSet(hash_table, k, x) = hash_table
        <5>1. Hashed(Candidates, Headers) BY CandidateFacts, Zenon
        <5>2. PICK new : new = RingSet(hash_table, k, x) BY Zenon
        <5>3. \/ new = hash_table
              \/ \E c \in 0..(RING - 1) : hash_table[c] = Unused
          BY <2>2, <4>1, <5>1, <5>2, RingTakes
        <5> QED BY <3>3, <5>2, <5>3, Zenon
      <4> QED BY <4>1, <4>2, Zenon
    <3>5. WriteTable(TableOf(nat), hash_table, a, v) = hash_table BY <1>3, <3>4, Zenon
    <3>6. WriteTable(TableOf(nat), hash_table, b, w) = hash_table BY <1>3, <3>4, Zenon
    <3>7. Entered(a, v, b, w)
            = WriteTable(TableOf(nat), WriteTable(TableOf(nat), hash_table, a, v), b, w)
      BY <1>4 DEF Entered
    <3> QED BY <2>6, <3>5, <3>6, <3>7, Zenon
  <2>7. CASE ~NoRoom
    <3>1. C + 2 <= RING BY <1>2, <2>4, <2>5, <2>7
    <3>2. Entered(a, v, b, w)
            = WriteTable(TableOf(nat), WriteTable(TableOf(nat), hash_table, a, v), b, w)
      BY <1>4 DEF Entered
    <3> QED BY <2>2, <2>7, <3>1, <3>2
  <2> QED BY <2>6, <2>7, Zenon
<1>5. CASE nat = "nat_dpdkhash"
  <2>1. TableOf(nat) = "lb_stlmap" BY <1>1, <1>5, TableOfFacts, Zenon
  <2>2. DOMAIN hash_table = DOMAIN Contents BY <1>5, Zenon DEF NatInv, NatRight
  <2>3. PICK m \in 0..RTE_ENTRIES : RTE_ENTRIES = 2 * m BY NatAssumption, Zenon
  <2>4. RTE_ENTRIES \in Nat BY NatAssumption, Zenon
  <2>5. NoRoom <=> C + 2 > RTE_ENTRIES BY <1>5, Zenon DEF NoRoom
  <2>6. Entered(a, v, b, w) = RteSet(RteSet(hash_table, a, v), b, w) BY <1>5, Zenon DEF Entered
  <2>7. Cardinality(DOMAIN hash_table) = C BY <2>2, Zenon
  <2>8. a \notin DOMAIN hash_table /\ b \notin DOMAIN hash_table BY <2>2, Zenon
  <2>9. TableOf(nat) # "lb_hashring" BY <2>1
  <2>10. CASE NoRoom
    <3> HIDE DEF C
    <3>1. ~(C < RTE_ENTRIES) BY <1>2, <2>3, <2>4, <2>5, <2>10
    <3>2. RteSet(hash_table, a, v) = hash_table /\ RteSet(hash_table, b, w) = hash_table
      BY <2>7, <2>8, <3>1, Zenon DEF RteSet
    <3> QED BY <2>6, <2>10, <3>2, Zenon
  <2>11. CASE ~NoRoom
    <3> DEFINE one == MapSet(hash_table, a, v)
    <3>1. DOMAIN one = DOMAIN Contents \cup {a} BY <2>2 DEF MapSet, Put
    <3>2. Cardinality(DOMAIN one) = C + 1 BY <1>1, <3>1, FS_AddElement, Zenon
    <3> HIDE DEF C
    <3>3. C < RTE_ENTRIES /\ C + 1 < RTE_ENTRIES BY <1>2, <2>4, <2>5, <2>11
    <3>4. RteSet(hash_table, a, v) = one BY <2>7, <3>3, Zenon DEF RteSet
    <3>5. RteSet(one, b, w) = MapSet(one, b, w) BY <3>2, <3>3, Zenon DEF RteSet
    <3>6. \A t, k, x : WriteTable(TableOf(nat), t, k, x) = MapSet(t, k, x)
      BY <2>1 DEF WriteTable
    <3> QED BY <2>6, <2>9, <2>11, <3>4, <3>5, <3>6, Zenon
  <2> QED BY <2>10, <2>11, Zenon
<1>6. CASE nat # "nat_hashring" /\ nat # "nat_dpdkhash"
  <2>1. ~NoRoom BY <1>6, Zenon DEF NoRoom
  <2>2. TableOf(nat) # "lb_hashring" BY <1>1, <1>6, TableOfFacts, Zenon
  <2>3. Entered(a, v, b, w)
          = WriteTable(TableOf(nat), WriteTable(TableOf(nat), hash_table, a, v), b, w)
    BY <1>6, Zenon DEF Entered
  <2> QED BY <2>1, <2>2, <2>3, Zenon
<1> QED BY <1>4, <1>5, <1>6, Zenon

\* Each program dispatches the packet with its own table.
LEMMA NatDispatches ==
  ASSUME nat \in Nats, NatNext
  PROVE  /\ nat' = nat /\ status = "running"
         /\ \E p \in Packets : \E d :
              /\ arrived' = p
              /\ d = dispatch_packet(p, Reads(p)) \/ (p = Truncated /\ d = Stop("crashed"))
              /\ sent' = d.sent /\ status' = d.status
              /\ hash_table' = IF d.opened = << >> THEN hash_table
                               ELSE Entered(In(d, 1), Out(d, 1), In(d, 2), Out(d, 2))
<1>1. PICK p \in Packets : arrived' = p /\ Dispatch(p) BY Zenon DEF NatNext
<1>2. nat' = nat /\ status = "running" BY Zenon DEF NatNext
<1> DEFINE Goal == \E d :
              /\ d = dispatch_packet(p, Reads(p)) \/ (p = Truncated /\ d = Stop("crashed"))
              /\ sent' = d.sent /\ status' = d.status
              /\ hash_table' = IF d.opened = << >> THEN hash_table
                               ELSE Entered(In(d, 1), Out(d, 1), In(d, 2), Out(d, 2))
           T == TableOf(nat)
           Both(d) == Entered(In(d, 1), Out(d, 1), In(d, 2), Out(d, 2))
<1>9. ASSUME NEW d, Finish(d, Both(d)),
             d = dispatch_packet(p, Reads(p)) \/ (p = Truncated /\ d = Stop("crashed"))
      PROVE  Goal
  BY <1>9, Zenon DEF Finish
<1> HIDE DEF Goal
<1>3. ASSUME nat \in {"nat_basichash", "nat_hash_table"} PROVE Goal
  <2>1. T = "lb_basichash" /\ nat # "nat_dpdkhash" BY <1>3, TableOfFacts
  <2>2. /\ \A t, k : ReadTable(T, t, k) = ChainGet(t, k)
        /\ \A t, k, x : WriteTable(T, t, k, x) = ChainSet(t, k, x)
    BY <2>1 DEF ReadTable, WriteTable
  <2>3. Reads(p) = [k \in Lookups(p) |-> ChainGet(hash_table, k)] BY <2>2 DEF Reads
  <2>4. \A a, v, b, w : Entered(a, v, b, w) = ChainSet(ChainSet(hash_table, a, v), b, w)
    BY <2>1, <2>2, Zenon DEF Entered
  <2>5. PICK d : /\ d = ByChains(p) \/ (p = Truncated /\ d = Stop("crashed"))
                 /\ InChains(d)
    BY <1>1, <1>3 DEF Dispatch, nat_basichash, nat_hash_table, nat_hashring, nat_tree, nat_stlmap,
       nat_stlumap, nat_dpdkhash, nat_ruby
  <2>6. d = dispatch_packet(p, Reads(p)) \/ (p = Truncated /\ d = Stop("crashed"))
    BY <2>3, <2>5, Zenon DEF ByChains
  <2>7. Finish(d, Both(d)) BY <2>4, <2>5, Zenon DEF InChains
  <2> QED BY <1>9, <2>6, <2>7, Zenon
<1>4. ASSUME nat = "nat_hashring" PROVE Goal
  <2>1. T = "lb_hashring" /\ nat # "nat_dpdkhash" BY <1>4, TableOfFacts
  <2>2. /\ \A t, k : ReadTable(T, t, k) = RingGet(t, k)
        /\ \A t, k, x : WriteTable(T, t, k, x) = RingSet(t, k, x)
    BY <2>1 DEF ReadTable, WriteTable
  <2>3. Reads(p) = [k \in Lookups(p) |-> RingGet(hash_table, k)] BY <2>2 DEF Reads
  <2>4. \A a, v, b, w : Entered(a, v, b, w) = RingSet(RingSet(hash_table, a, v), b, w)
    BY <2>1, <2>2, Zenon DEF Entered
  <2>5. nat_hashring(p)
    BY <1>1, <1>4 DEF Dispatch, nat_basichash, nat_hash_table, nat_tree, nat_stlmap,
       nat_stlumap, nat_dpdkhash, nat_ruby
  <2>6. PICK d : /\ d = dispatch_packet(p, [k \in Lookups(p) |-> RingGet(hash_table, k)])
                 /\ Finish(d, RingSet(RingSet(hash_table, In(d, 1), Out(d, 1)), In(d, 2), Out(d, 2)))
    BY <2>5, Zenon DEF nat_hashring
  <2>7. Finish(d, Both(d)) BY <2>4, <2>6, Zenon
  <2> QED BY <1>9, <2>3, <2>6, <2>7, Zenon
<1>5. ASSUME nat = "nat_tree" PROVE Goal
  <2>1. T = "lb_tree" /\ nat # "nat_dpdkhash" BY <1>5, TableOfFacts
  <2>2. /\ \A t, k : ReadTable(T, t, k) = TreeGet(t, k)
        /\ \A t, k, x : WriteTable(T, t, k, x) = TreeSet(t, k, x)
    BY <2>1 DEF ReadTable, WriteTable
  <2>3. Reads(p) = [k \in Lookups(p) |-> TreeGet(hash_table, k)] BY <2>2 DEF Reads
  <2>4. \A a, v, b, w : Entered(a, v, b, w) = TreeSet(TreeSet(hash_table, a, v), b, w)
    BY <2>1, <2>2, Zenon DEF Entered
  <2>5. nat_tree(p)
    BY <1>1, <1>5 DEF Dispatch, nat_basichash, nat_hash_table, nat_hashring, nat_stlmap,
       nat_stlumap, nat_dpdkhash, nat_ruby
  <2>6. PICK d : /\ d = dispatch_packet(p, [k \in Lookups(p) |-> TreeGet(hash_table, k)])
                 /\ Finish(d, TreeSet(TreeSet(hash_table, In(d, 1), Out(d, 1)), In(d, 2), Out(d, 2)))
    BY <2>5, Zenon DEF nat_tree
  <2>7. Finish(d, Both(d)) BY <2>4, <2>6, Zenon
  <2> QED BY <1>9, <2>3, <2>6, <2>7, Zenon
<1>6. ASSUME nat \in {"nat_stlmap", "nat_stlumap"} PROVE Goal
  <2>1. T = "lb_stlmap" /\ nat # "nat_dpdkhash" BY <1>6, TableOfFacts
  <2>2. /\ \A t, k : ReadTable(T, t, k) = MapGet(t, k)
        /\ \A t, k, x : WriteTable(T, t, k, x) = MapSet(t, k, x)
    BY <2>1 DEF ReadTable, WriteTable
  <2>3. Reads(p) = [k \in Lookups(p) |-> MapGet(hash_table, k)] BY <2>2 DEF Reads
  <2>4. \A a, v, b, w : Entered(a, v, b, w) = MapSet(MapSet(hash_table, a, v), b, w)
    BY <2>1, <2>2, Zenon DEF Entered
  <2>5. InMap(ByMap(p))
    BY <1>1, <1>6 DEF Dispatch, nat_basichash, nat_hash_table, nat_hashring, nat_tree, nat_stlmap,
       nat_stlumap, nat_dpdkhash, nat_ruby
  <2>6. PICK d : d = ByMap(p) /\ InMap(d) BY <2>5, Zenon
  <2>7. Finish(d, Both(d)) BY <2>4, <2>6, Zenon DEF InMap
  <2>8. d = dispatch_packet(p, Reads(p)) BY <2>3, <2>6, Zenon DEF ByMap
  <2> QED BY <1>9, <2>7, <2>8, Zenon
<1>7. ASSUME nat = "nat_dpdkhash" PROVE Goal
  <2>1. T = "lb_stlmap" BY <1>7, TableOfFacts
  <2>2. \A t, k : ReadTable(T, t, k) = MapGet(t, k) BY <2>1 DEF ReadTable
  <2>3. Reads(p) = [k \in Lookups(p) |-> MapGet(hash_table, k)] BY <2>2 DEF Reads
  <2>4. \A a, v, b, w : Entered(a, v, b, w) = RteSet(RteSet(hash_table, a, v), b, w)
    BY <1>7, Zenon DEF Entered
  <2>5. nat_dpdkhash(p)
    BY <1>1, <1>7 DEF Dispatch, nat_basichash, nat_hash_table, nat_hashring, nat_tree, nat_stlmap,
       nat_stlumap, nat_ruby
  <2>6. PICK d : /\ d = ByMap(p)
                 /\ Finish(d, RteSet(RteSet(hash_table, In(d, 1), Out(d, 1)), In(d, 2), Out(d, 2)))
    BY <2>5, Zenon DEF nat_dpdkhash
  <2>7. Finish(d, Both(d)) BY <2>4, <2>6, Zenon
  <2>8. d = dispatch_packet(p, Reads(p)) BY <2>3, <2>6, Zenon DEF ByMap
  <2> QED BY <1>9, <2>7, <2>8, Zenon
<1>8. Goal BY <1>3, <1>4, <1>5, <1>6, <1>7, Zenon DEF Nats
<1> QED BY <1>1, <1>2, <1>8, Zenon DEF Goal

\* The ports that the search tries are all there are, and the first is the
\* packet's own.
LEMMA PortsFromFacts ==
  ASSUME NEW sport \in Ports
  PROVE  /\ DOMAIN PortsFrom(sport) = Ports
         /\ \A n \in Ports : PortsFrom(sport)[n] \in Ports
         /\ 0 \in Ports /\ PortsFrom(sport)[0] = sport
         /\ \A outer \in Ports : \E n \in Ports : PortsFrom(sport)[n] = outer
<1>1. PORTS \in Nat \ {0} /\ sport \in 0..(PORTS - 1) BY NatAssumption DEF Ports
<1>2. DOMAIN PortsFrom(sport) = Ports /\ \A n \in Ports : PortsFrom(sport)[n] = (sport + n) % PORTS
  BY Zenon DEF PortsFrom, Ports
<1>3. ASSUME NEW n \in Ports PROVE (sport + n) % PORTS \in Ports
  <2>1. n \in Nat /\ sport + n \in Nat BY <1>1 DEF Ports
  <2> QED BY <1>1, <2>1 DEF Ports
<1>4. 0 \in Ports /\ (sport + 0) % PORTS = sport
  <2>1. 0 \in Ports /\ sport + 0 = sport BY <1>1 DEF Ports
  <2>2. sport % PORTS = sport BY <1>1
  <2> QED BY <2>1, <2>2
<1>5. ASSUME NEW outer \in Ports PROVE \E n \in Ports : (sport + n) % PORTS = outer
  <2>1. outer \in 0..(PORTS - 1) BY Zenon DEF Ports
  <2>2. CASE outer >= sport
    <3>1. outer - sport \in 0..(PORTS - 1) /\ sport + (outer - sport) = outer BY <1>1, <2>1, <2>2
    <3>2. outer % PORTS = outer BY <1>1, <2>1
    <3> QED BY <3>1, <3>2 DEF Ports
  <2>3. CASE ~(outer >= sport)
    <3> DEFINE n == (outer - sport) + PORTS
    <3>1. n \in 0..(PORTS - 1) /\ sport + n = outer + PORTS BY <1>1, <2>1, <2>3
    <3>2. (outer + PORTS) % PORTS = outer
      <4>1. outer + PORTS \in Nat /\ 1 \in Nat /\ outer + PORTS = PORTS * 1 + outer BY <1>1, <2>1
      <4>2. (outer + PORTS) \div PORTS = 1 BY <1>1, <2>1, <4>1, QuotientIs
      <4>3. outer + PORTS = PORTS * ((outer + PORTS) \div PORTS) + ((outer + PORTS) % PORTS)
        BY <1>1, <4>1, Quotient, Zenon
      <4>4. (outer + PORTS) % PORTS \in 0..(PORTS - 1) BY <1>1, <4>1, Quotient, Zenon
      <4> QED BY <1>1, <2>1, <4>2, <4>3, <4>4
    <3> QED BY <3>1, <3>2 DEF Ports
  <2> QED BY <2>2, <2>3, Zenon
<1> QED BY <1>2, <1>3, <1>4, <1>5, Zenon

\* A new connection: from an inside host, and not in the table.
NewOne(p) == p \in Headers /\ p \notin DOMAIN Contents /\ p[2] # NatIp

\* The entries of a new connection.
OpenedBy(p, outer) ==
  [Answer(Translator!Outgoing(p, outer)) EXCEPT !.opened =
     <<[key |-> p, value |-> Translator!Outgoing(p, outer)],
       [key |-> ReturnKey(p, outer), value |-> Translator!Swap(p)]>>]

\* The search for a port finds one that no return header uses, hangs when there
\* is none, and crashes nat-tree when the first is taken.
LEMMA SearchCases ==
  ASSUME NatInv, NEW p \in Packets, NewOne(p), NEW d, d = OpenConnection(p, Reads(p))
  PROVE  \/ d = Stop("crashed") /\ ReturnKey(p, p[4]) \in DOMAIN Contents
         \/ d = Stop("hung") /\ \A outer \in Ports : ReturnKey(p, outer) \in DOMAIN Contents
         \/ \E outer \in Ports : ReturnKey(p, outer) \notin DOMAIN Contents /\ d = OpenedBy(p, outer)
<1> DEFINE ports == PortsFrom(p[4])
           known == Reads(p)
           unused == {n \in DOMAIN ports : known[ReturnKey(p, ports[n])] = NotFound}
<1>1. p \in Headers /\ p[4] \in Ports BY HeaderFacts, Zenon DEF NewOne
<1>2. /\ DOMAIN ports = Ports /\ 0 \in Ports /\ ports[0] = p[4]
      /\ \A n \in Ports : ports[n] \in Ports
      /\ \A outer \in Ports : \E n \in Ports : ports[n] = outer
  BY <1>1, PortsFromFacts, Zenon
<1>3. ASSUME NEW outer \in Ports
      PROVE  known[ReturnKey(p, outer)] = NotFound <=> ReturnKey(p, outer) \notin DOMAIN Contents
  <2>1. ReturnKey(p, outer) \in Lookups(p) BY <1>1, Zenon DEF Lookups
  <2>2. known[ReturnKey(p, outer)] = ReadTable(TableOf(nat), hash_table, ReturnKey(p, outer))
    BY <2>1, Zenon DEF Reads
  <2>3. ReturnKey(p, outer) \in Candidates /\ nat \in Nats
    BY <1>1, CandidateFacts, Zenon DEF NatInv, NatRight
  <2> QED BY <2>2, <2>3, KnownIs, Zenon
<1> HIDE DEF ports, known
<1>4. unused \subseteq Ports
      /\ \A n \in Ports : n \in unused <=> ReturnKey(p, ports[n]) \notin DOMAIN Contents
  BY <1>2, <1>3, Zenon
<1> DEFINE outer == ports[Min(unused)]
           new == [Answer(<<NatIp, p[2], p[3], outer, p[5]>>) EXCEPT !.opened =
                     <<[key |-> p, value |-> <<NatIp, p[2], p[3], outer, p[5]>>],
                       [key |-> ReturnKey(p, outer),
                        value |-> <<p[2], p[1], p[3], p[5], p[4]>>]>>]
<1>5. d = IF nat = "nat_tree" /\ 0 \notin unused THEN Stop("crashed")
          ELSE IF unused = {} THEN Stop("hung") ELSE new
  BY Zenon DEF OpenConnection, ports, known
<1> HIDE DEF unused
<1>6. CASE 0 \notin unused /\ d = Stop("crashed")
  <2>1. ReturnKey(p, ports[0]) \in DOMAIN Contents BY <1>2, <1>4, <1>6, Zenon
  <2> QED BY <1>2, <1>6, <2>1, Zenon
<1>7. CASE unused = {} /\ d = Stop("hung")
  <2>1. ASSUME NEW o \in Ports PROVE ReturnKey(p, o) \in DOMAIN Contents
    <3>1. PICK n \in Ports : ports[n] = o BY <1>2, Zenon
    <3>2. n \notin unused BY <1>7, Zenon
    <3> QED BY <1>4, <3>1, <3>2, Zenon
  <2> QED BY <1>7, <2>1, Zenon
<1>8. CASE unused # {} /\ d = new
  <2>1. unused \in SUBSET Nat BY <1>4, NatAssumption DEF Ports
  <2>2. Min(unused) \in unused BY <1>8, <2>1, HasMin, Zenon
  <2>3. outer \in Ports /\ ReturnKey(p, outer) \notin DOMAIN Contents BY <1>2, <1>4, <2>2, Zenon
  <2>4. /\ Translator!Outgoing(p, outer) = <<NatIp, p[2], p[3], outer, p[5]>>
        /\ Translator!Swap(p) = <<p[2], p[1], p[3], p[5], p[4]>>
    BY NatNames, Zenon
  <2> HIDE DEF outer
  <2>5. d = OpenedBy(p, outer) BY <1>8, <2>4, Zenon DEF OpenedBy
  <2> QED BY <2>3, <2>5, Zenon
<1> QED BY <1>5, <1>6, <1>7, <1>8, Zenon

\* What dispatch_packet makes of a packet.
LEMMA DispatchCases ==
  ASSUME NatInv, NEW p \in Packets, NEW d, d = dispatch_packet(p, Reads(p))
  PROVE  \/ /\ d = Answer(Dropped)
            /\ p \in Headers => p \notin DOMAIN Contents /\ p[2] = NatIp
         \/ p \in DOMAIN Contents /\ d = Answer(Contents[p])
         \/ /\ NewOne(p)
            /\ \/ d = Stop("crashed") /\ ReturnKey(p, p[4]) \in DOMAIN Contents
               \/ d = Stop("hung") /\ \A outer \in Ports : ReturnKey(p, outer) \in DOMAIN Contents
               \/ \E outer \in Ports : /\ ReturnKey(p, outer) \notin DOMAIN Contents
                                       /\ d = OpenedBy(p, outer)
<1>1. CASE p \notin Headers BY <1>1, Zenon DEF dispatch_packet
<1>2. CASE p \in Headers
  <2>1. p \in Candidates /\ nat \in Nats BY <1>2, CandidateFacts, Zenon DEF NatInv, NatRight
  <2>2. Reads(p)[p] = ReadTable(TableOf(nat), hash_table, p)
    <3>1. p \in Lookups(p) BY <1>2, Zenon DEF Lookups
    <3> QED BY <3>1, Zenon DEF Reads
  <2>3. /\ p \in DOMAIN Contents <=> Reads(p)[p] # NotFound
        /\ p \in DOMAIN Contents => Contents[p] = Reads(p)[p]
    BY <2>1, <2>2, KnownIs, Zenon
  <2>4. CASE Reads(p)[p] # NotFound BY <1>2, <2>3, <2>4, Zenon DEF dispatch_packet
  <2>5. CASE Reads(p)[p] = NotFound /\ p[2] = NatIp
    BY <1>2, <2>3, <2>5, Zenon DEF dispatch_packet
  <2>6. CASE Reads(p)[p] = NotFound /\ p[2] # NatIp
    <3>1. NewOne(p) BY <1>2, <2>3, <2>6, Zenon DEF NewOne
    <3>2. d = OpenConnection(p, Reads(p)) BY <1>2, <2>6, Zenon DEF dispatch_packet
    <3> QED BY <3>1, <3>2, SearchCases, Zenon
  <2> QED BY <2>4, <2>5, <2>6, Zenon
<1> QED BY <1>1, <1>2, Zenon

\* A connection that finds room is in the table, in both directions.
LEMMA OpenContents ==
  ASSUME NatInv, NEW p \in Packets, NewOne(p), NEW outer \in Ports,
         ReturnKey(p, outer) \notin DOMAIN Contents, ~NoRoom,
         NEW t, t = Entered(p, Translator!Outgoing(p, outer), ReturnKey(p, outer), Translator!Swap(p))
  PROVE  /\ ContentsOf(TableOf(nat), t) = Opened(Contents, p, outer)
         /\ NatRight(nat, t, Opened(Contents, p, outer))
<1> DEFINE kind == TableOf(nat)
           r == ReturnKey(p, outer)
           o == Translator!Outgoing(p, outer)
           s == Translator!Swap(p)
           old == hash_table
           f == Contents
           g == Opened(Contents, p, outer)
<1>1. /\ p \in Headers /\ p[2] # NatIp /\ p \notin DOMAIN f /\ r \notin DOMAIN f
      /\ nat \in Nats /\ kind \in Balancers
  BY TableOfFacts, Zenon DEF NewOne, NatInv, NatRight
<1>2. p \in Candidates /\ r \in Candidates BY <1>1, CandidateFacts, Zenon
<1>3. o \in Headers /\ s \in Headers /\ p # r BY <1>1, PartnerFacts, Zenon
<1>4. ReadTable(kind, old, p) = NotFound /\ ReadTable(kind, old, r) = NotFound
  BY <1>1, <1>2, KnownIs, Zenon
<1>5. /\ t = WriteTable(kind, WriteTable(kind, old, p, o), r, s)
      /\ kind = "lb_hashring" => Cardinality(Used(old)) + 2 <= RING
  BY <1>1, <1>2, <1>3, RoomForBoth, Zenon
<1>6. TableRight(kind, old, Candidates, Headers) BY Zenon DEF NatInv, NatRight
<1>7. r = Translator!ReturnKey(p, outer) BY NatNames, Zenon
<1>8. f = ContentsOf(kind, old) BY <1>1, ContentsIs, Zenon
<1>9. /\ \A h \in Candidates : h \in DOMAIN f <=> ReadTable(kind, old, h) # NotFound
      /\ \A h \in DOMAIN f : f[h] = ReadTable(kind, old, h) /\ h \in Candidates
  BY <1>8 DEF ContentsOf, Found
<1>10. NotFound \notin Headers BY CandidateFacts, Zenon DEF Hashed
<1> DEFINE G(h) == CASE h = p -> o [] h = r -> s [] OTHER -> f[h]
<1>11. g = [h \in DOMAIN f \cup {p, r} |-> G(h)]
  <2>1. g = [h \in DOMAIN f \cup {p, Translator!ReturnKey(p, outer)} |->
               CASE h = p -> o [] h = Translator!ReturnKey(p, outer) -> s [] OTHER -> f[h]]
    BY Zenon DEF Opened
  <2> HIDE DEF g, r, o, s, f
  <2> QED BY <1>7, <2>1
<1>12. G(p) = o /\ G(r) = s /\ \A h \in DOMAIN f : G(h) = f[h]
  <2> HIDE DEF r, o, s, f
  <2> QED BY <1>1, <1>3
<1> HIDE DEF kind, r, o, s, old, f, g, G
<1>13. /\ TableRight(kind, t, Candidates, Headers)
       /\ ReadTable(kind, t, p) = o /\ ReadTable(kind, t, r) = s
       /\ \A c \in Candidates \ {p, r} : ReadTable(kind, t, c) = ReadTable(kind, old, c)
       /\ kind = "lb_hashring" => Cardinality(Used(t)) = Cardinality(Used(old)) + 2
       /\ kind = "lb_stlmap" => DOMAIN t = DOMAIN old \cup {p, r}
  <2>1. CanEnterBoth(kind, old, p, o, r, s)
    BY <1>1, <1>2, <1>3, <1>4, <1>5, <1>6, Zenon DEF CanEnterBoth
  <2>2. HasBoth(kind, old, p, o, r, s, t) BY <1>5, <2>1, EnterBoth, Zenon
  <2> QED BY <2>2, Zenon DEF HasBoth
<1>14. DOMAIN g = DOMAIN f \cup {p, r} BY <1>11, Zenon
<1>15. Found(kind, t) = DOMAIN f \cup {p, r}
  <2>1. ASSUME NEW c \in Candidates
        PROVE  ReadTable(kind, t, c) # NotFound <=> c \in DOMAIN f \cup {p, r}
    <3>1. CASE c = p BY <1>3, <1>10, <1>13, <3>1, Zenon
    <3>2. CASE c = r BY <1>3, <1>10, <1>13, <3>2, Zenon
    <3>3. CASE c # p /\ c # r BY <1>9, <1>13, <3>3, Zenon
    <3> QED BY <3>1, <3>2, <3>3, Zenon
  <2>2. DOMAIN f \cup {p, r} \subseteq Candidates BY <1>2, <1>9, Zenon
  <2> QED BY <2>1, <2>2, Zenon DEF Found
<1>16. \A h \in DOMAIN f \cup {p, r} : ReadTable(kind, t, h) = G(h)
  BY <1>1, <1>9, <1>12, <1>13, Zenon
<1>17. ContentsOf(kind, t) = g BY <1>11, <1>15, <1>16 DEF ContentsOf
<1>18. /\ IsFiniteSet(DOMAIN f) /\ \E n \in Nat : Cardinality(DOMAIN f) = 2 * n
       /\ nat = "nat_hashring" => Cardinality(Used(old)) = Cardinality(DOMAIN f)
       /\ nat = "nat_dpdkhash" => DOMAIN old = DOMAIN f
  BY Zenon DEF NatInv, NatRight, f, old
<1>19. IsFiniteSet(DOMAIN g) /\ Cardinality(DOMAIN g) = Cardinality(DOMAIN f) + 2
  <2>1. /\ IsFiniteSet(DOMAIN f \cup {p}) /\ Cardinality(DOMAIN f) \in Nat
        /\ Cardinality(DOMAIN f \cup {p}) = Cardinality(DOMAIN f) + 1
    BY <1>1, <1>18, FS_AddElement, FS_CardinalityType, Zenon
  <2>2. r \notin DOMAIN f \cup {p} BY <1>1, <1>3, Zenon
  <2>3. /\ IsFiniteSet((DOMAIN f \cup {p}) \cup {r})
        /\ Cardinality((DOMAIN f \cup {p}) \cup {r}) = Cardinality(DOMAIN f \cup {p}) + 1
    BY <2>1, <2>2, FS_AddElement, Zenon
  <2>4. (DOMAIN f \cup {p}) \cup {r} = DOMAIN g BY <1>14, Zenon
  <2> QED BY <2>1, <2>3, <2>4
<1>20. \E n \in Nat : Cardinality(DOMAIN g) = 2 * n
  <2>1. PICK n \in Nat : Cardinality(DOMAIN f) = 2 * n BY <1>18, Zenon
  <2>2. n + 1 \in Nat /\ Cardinality(DOMAIN g) = 2 * (n + 1) BY <1>19, <2>1
  <2> QED BY <2>2, Zenon
<1>21. nat = "nat_hashring" => Cardinality(Used(t)) = Cardinality(DOMAIN g)
  <2> SUFFICES ASSUME nat = "nat_hashring" PROVE Cardinality(Used(t)) = Cardinality(DOMAIN g)
    BY Zenon
  <2>1. kind = "lb_hashring" BY <1>1, TableOfFacts, Zenon DEF kind
  <2> QED BY <1>13, <1>18, <1>19, <2>1, Zenon
<1>22. nat = "nat_dpdkhash" => DOMAIN t = DOMAIN g
  <2> SUFFICES ASSUME nat = "nat_dpdkhash" PROVE DOMAIN t = DOMAIN g BY Zenon
  <2>1. kind = "lb_stlmap" BY <1>1, TableOfFacts, Zenon DEF kind
  <2> QED BY <1>13, <1>14, <1>18, <2>1, Zenon
<1>23. NatRight(nat, t, g)
  BY <1>1, <1>13, <1>19, <1>20, <1>21, <1>22, Zenon DEF NatRight, kind
<1> QED BY <1>17, <1>23, Zenon DEF kind, g

\* A table that stays as it is is right, and holds what it held.
LEMMA NatStays ==
  ASSUME NatInv, nat' = nat, hash_table' = hash_table
  PROVE  NatInv' /\ Contents' = Contents
<1>1. nat \in Nats BY Zenon DEF NatInv, NatRight
<1>2. Contents' = ContentsOf(TableOf(nat), hash_table') BY <1>1, ContentsIs, Zenon
<1>3. Contents = ContentsOf(TableOf(nat), hash_table) BY <1>1, ContentsIs, Zenon
<1>4. Contents' = Contents BY <1>2, <1>3, Zenon
<1>5. NatInv' <=> NatRight(nat', hash_table', Contents') BY Zenon DEF NatInv
<1> QED BY <1>4, <1>5, Zenon DEF NatInv

\* A step of a NAT is one of NatTable.
LEMMA NatSteps ==
  ASSUME NatInv, NatNext
  PROVE  NatInv' /\ Translator!Next
<1>0. nat \in Nats BY Zenon DEF NatInv, NatRight
<1>1. nat' = nat /\ status = "running" BY <1>0, NatDispatches, Zenon
<1>2. PICK p \in Packets :
        /\ arrived' = p
        /\ \E d :
             /\ d = dispatch_packet(p, Reads(p)) \/ (p = Truncated /\ d = Stop("crashed"))
             /\ sent' = d.sent /\ status' = d.status
             /\ hash_table' = IF d.opened = << >> THEN hash_table
                              ELSE Entered(In(d, 1), Out(d, 1), In(d, 2), Out(d, 2))
  BY <1>0, NatDispatches, Zenon
<1>3. PICK d :
        /\ d = dispatch_packet(p, Reads(p)) \/ (p = Truncated /\ d = Stop("crashed"))
        /\ sent' = d.sent /\ status' = d.status
        /\ hash_table' = IF d.opened = << >> THEN hash_table
                         ELSE Entered(In(d, 1), Out(d, 1), In(d, 2), Out(d, 2))
  BY <1>2, Zenon
<1>4. \A x : /\ Answer(x).sent = x /\ Answer(x).status = "running" /\ Answer(x).opened = << >>
             /\ Stop(x).sent = sent /\ Stop(x).status = x /\ Stop(x).opened = << >>
  BY DEF Answer, Stop
<1>5. NoRoom' \in BOOLEAN BY Zenon DEF NoRoom
<1> DEFINE Goal == NatInv' /\ Translator!Next
<1>6. ASSUME \/ Translator!Drop(p) \/ Translator!Translate(p) \/ Translator!Hang(p)
             \/ Translator!Crash(p)
             \/ \E outer \in Translator!Ports : Translator!Open(p, outer)
      PROVE  Translator!Next
  BY <1>1, <1>2, <1>5, <1>6, Zenon DEF Translator!Next
<1>7. ASSUME d.opened = << >> PROVE NatInv' /\ Contents' = Contents
  <2>1. hash_table' = hash_table BY <1>3, <1>7, Zenon
  <2> QED BY <1>1, <2>1, NatStays, Zenon
<1>8. /\ Translator!Headers = Headers /\ Translator!Ports = Ports /\ Translator!Dropped = Dropped
      /\ \A h, outer : Translator!ReturnKey(h, outer) = ReturnKey(h, outer)
  BY NatNames, Zenon
<1>9. CASE d = Answer(Dropped) /\ (p \in Headers => p \notin DOMAIN Contents /\ p[2] = NatIp)
  <2>1. NatInv' /\ Contents' = Contents /\ sent' = Dropped /\ status' = status
    BY <1>1, <1>3, <1>4, <1>7, <1>9, Zenon
  <2>2. Translator!Drop(p)
    BY <1>8, <1>9, <2>1, Zenon DEF Translator!Drop, Translator!Known
  <2> QED BY <1>6, <2>1, <2>2, Zenon
<1>10. CASE p \in DOMAIN Contents /\ d = Answer(Contents[p])
  <2>1. NatInv' /\ Contents' = Contents /\ sent' = Contents[p] /\ status' = status
    BY <1>1, <1>3, <1>4, <1>7, <1>10, Zenon
  <2>2. Translator!Translate(p) BY <1>10, <2>1, Zenon DEF Translator!Translate, Translator!Known
  <2> QED BY <1>6, <2>1, <2>2, Zenon
<1>11. ASSUME NewOne(p) PROVE Translator!New(p)
  BY <1>8, <1>11, Zenon DEF NewOne, Translator!New, Translator!Known
<1>12. CASE NewOne(p) /\ d = Stop("crashed") /\ ReturnKey(p, p[4]) \in DOMAIN Contents
  <2>1. NatInv' /\ Contents' = Contents /\ sent' = sent /\ status' = "crashed"
    BY <1>3, <1>4, <1>7, <1>12, Zenon
  <2>2. Translator!Crash(p)
    BY <1>8, <1>11, <1>12, <2>1, Zenon DEF Translator!Crash, Translator!Known
  <2> QED BY <1>6, <2>1, <2>2, Zenon
<1>13. CASE /\ NewOne(p) /\ d = Stop("hung")
            /\ \A outer \in Ports : ReturnKey(p, outer) \in DOMAIN Contents
  <2>1. NatInv' /\ Contents' = Contents /\ sent' = sent /\ status' = "hung"
    BY <1>3, <1>4, <1>7, <1>13, Zenon
  <2>2. Translator!Hang(p)
    BY <1>8, <1>11, <1>13, <2>1, Zenon DEF Translator!Hang, Translator!Known
  <2> QED BY <1>6, <2>1, <2>2, Zenon
<1>14. ASSUME NEW outer \in Ports, NewOne(p), ReturnKey(p, outer) \notin DOMAIN Contents,
              d = OpenedBy(p, outer)
       PROVE  Goal
  <2> DEFINE o == Translator!Outgoing(p, outer)
             s == Translator!Swap(p)
             r == ReturnKey(p, outer)
  <2>1. /\ d.sent = o /\ d.status = "running" /\ d.opened # << >>
        /\ In(d, 1) = p /\ Out(d, 1) = o /\ In(d, 2) = r /\ Out(d, 2) = s
    <3> HIDE DEF o, s, r
    <3>1. d = [Answer(o) EXCEPT !.opened = <<[key |-> p, value |-> o], [key |-> r, value |-> s]>>]
      BY <1>14, Zenon DEF OpenedBy, o, s, r
    <3> QED BY <3>1 DEF Answer, In, Out
  <2>2. sent' = o /\ status' = "running" /\ hash_table' = Entered(p, o, r, s)
    BY <1>3, <2>1, Zenon
  <2>3. /\ p \in Headers /\ p[2] # NatIp /\ p \notin DOMAIN Contents
    BY <1>14, Zenon DEF NewOne
  <2>4. NatInv' /\ Contents' = IF NoRoom THEN Contents ELSE Opened(Contents, p, outer)
    <3>1. CASE NoRoom
      <4>1. p \in Candidates /\ r \in Candidates BY <2>3, CandidateFacts, Zenon
      <4>2. o \in Headers /\ s \in Headers /\ p # r BY <2>3, PartnerFacts, Zenon
      <4>3. hash_table' = hash_table BY <1>14, <2>2, <2>3, <3>1, <4>1, <4>2, RoomForBoth, Zenon
      <4> QED BY <1>1, <3>1, <4>3, NatStays, Zenon
    <3>2. CASE ~NoRoom
      <4>1. PICK t : t = hash_table' BY Zenon
      <4>2. /\ ContentsOf(TableOf(nat), t) = Opened(Contents, p, outer)
            /\ NatRight(nat, t, Opened(Contents, p, outer))
        BY <1>14, <2>2, <3>2, <4>1, OpenContents, Zenon
      <4>3. Contents' = Opened(Contents, p, outer) BY <1>0, <1>1, <4>1, <4>2, ContentsIs, Zenon
      <4>4. NatInv' <=> NatRight(nat', hash_table', Contents') BY Zenon DEF NatInv
      <4> QED BY <1>1, <3>2, <4>1, <4>2, <4>3, <4>4, Zenon
    <3> QED BY <3>1, <3>2, Zenon
  <2>5. Translator!Open(p, outer)
    <3>1. Translator!New(p) BY <1>11, <1>14, Zenon
    <3>2. Translator!ReturnKey(p, outer) \notin Translator!Known
      BY <1>8, <1>14, Zenon DEF Translator!Known
    <3>3. sent' = Translator!Outgoing(p, outer) /\ status' = status BY <1>1, <2>2, Zenon
    <3>4. Contents' = IF NoRoom THEN Contents
                      ELSE [h \in Translator!Known \cup {p, Translator!ReturnKey(p, outer)} |->
                              CASE h = p -> Translator!Outgoing(p, outer)
                                [] h = Translator!ReturnKey(p, outer) -> Translator!Swap(p)
                                [] OTHER -> Contents[h]]
      BY <2>4, Zenon DEF Opened, Translator!Known
    <3> QED BY <3>1, <3>2, <3>3, <3>4, Zenon DEF Translator!Open
  <2> QED BY <1>6, <1>8, <2>4, <2>5, Zenon
<1>15. CASE p = Truncated /\ d = Stop("crashed")
  <2>1. NatInv' /\ Contents' = Contents /\ sent' = sent /\ status' = "crashed"
    BY <1>3, <1>4, <1>7, <1>15, Zenon
  <2>2. p \notin Headers
    <3> SUFFICES ASSUME p \in Headers PROVE FALSE BY Zenon
    <3>1. p = <<p[1], p[2], p[3], p[4], p[5]>> BY HeaderFacts, Zenon
    <3>2. 2 \in DOMAIN p BY <3>1
    <3> QED BY <1>15, <3>2 DEF Truncated
  <2>3. Translator!Crash(p) BY <1>8, <2>1, <2>2, Zenon DEF Translator!Crash
  <2> QED BY <1>6, <2>1, <2>3, Zenon
<1>16. CASE d = dispatch_packet(p, Reads(p))
  <2>1. \/ /\ d = Answer(Dropped)
           /\ p \in Headers => p \notin DOMAIN Contents /\ p[2] = NatIp
        \/ p \in DOMAIN Contents /\ d = Answer(Contents[p])
        \/ /\ NewOne(p)
           /\ \/ d = Stop("crashed") /\ ReturnKey(p, p[4]) \in DOMAIN Contents
              \/ d = Stop("hung") /\ \A outer \in Ports : ReturnKey(p, outer) \in DOMAIN Contents
              \/ \E outer \in Ports : /\ ReturnKey(p, outer) \notin DOMAIN Contents
                                      /\ d = OpenedBy(p, outer)
    BY <1>16, DispatchCases
  <2> QED BY <1>9, <1>10, <1>12, <1>13, <1>14, <2>1, Zenon
<1> QED BY <1>3, <1>15, <1>16, Zenon

\* No connection is open in the beginning.
LEMMA NatStarts ==
  ASSUME NatInit, nat # "nat_ruby"
  PROVE  NatInv /\ Translator!Init
<1>1. nat \in Nats /\ hash_table = hash_init(nat) BY NatAssumption DEF NatInit, Nats
<1> DEFINE kind == TableOf(nat)
<1>2. /\ kind \in Balancers
      /\ kind = "lb_basichash" => hash_table = ChainInit
      /\ kind = "lb_hashring" => hash_table = RingInit
      /\ kind \in {"lb_tree", "lb_stlmap"} => DOMAIN hash_table = {}
  BY <1>1 DEF Nats, TableOf, Balancers, hash_init
<1>3. \A k \in Candidates : hash_function(k) \in Nat BY CandidateFacts, Zenon DEF Hashed
<1>4. /\ TableRight(kind, hash_table, Candidates, Headers)
      /\ \A k \in Candidates : ReadTable(kind, hash_table, k) = NotFound
  BY <1>2, <1>3, EmptyTables, Zenon
<1>5. Found(kind, hash_table) = {} BY <1>4, Zenon DEF Found
<1>6. Contents = [h \in {} |-> h]
  <2>1. Contents = [h \in Found(kind, hash_table) |-> ReadTable(kind, hash_table, h)]
    BY <1>1, ContentsIs, Zenon DEF ContentsOf
  <2> HIDE DEF kind
  <2> QED BY <1>5, <2>1
<1>7. DOMAIN Contents = {} BY <1>6, Zenon
<1>8. IsFiniteSet(DOMAIN Contents) /\ Cardinality(DOMAIN Contents) = 0
  BY <1>7, FS_EmptySet, Zenon
<1>9. 0 \in Nat /\ 0 = 2 * 0 OBVIOUS
<1>10. nat = "nat_hashring" => Cardinality(Used(hash_table)) = Cardinality(DOMAIN Contents)
  <2> SUFFICES ASSUME nat = "nat_hashring"
               PROVE  Cardinality(Used(hash_table)) = Cardinality(DOMAIN Contents)
    BY Zenon
  <2>1. hash_table = RingInit BY <1>1, <1>2, TableOfFacts, Zenon
  <2>2. Used(hash_table) = {} BY <2>1 DEF Used, RingInit
  <2> QED BY <1>8, <2>2, FS_EmptySet, Zenon
<1>11. nat = "nat_dpdkhash" => DOMAIN hash_table = DOMAIN Contents
  <2> SUFFICES ASSUME nat = "nat_dpdkhash" PROVE DOMAIN hash_table = DOMAIN Contents BY Zenon
  <2>1. kind = "lb_stlmap" BY <1>1, TableOfFacts, Zenon
  <2> QED BY <1>2, <1>7, <2>1, Zenon
<1>12. NatInv BY <1>1, <1>4, <1>8, <1>9, <1>10, <1>11, Zenon DEF NatInv, NatRight
<1>13. NoRoom \in BOOLEAN BY Zenon DEF NoRoom
<1>14. Translator!Init
  BY <1>6, <1>13, NatNames, Zenon DEF Translator!Init, NatInit
<1> QED BY <1>12, <1>14, Zenon

\* Every step of a NAT's behaviour, stuttering ones included.
LEMMA NatRefines ==
  ASSUME NatInv, [NatNext]_natVars
  PROVE  NatInv' /\ [Translator!Next]_Translator!natVars
<1>1. CASE NatNext BY <1>1, NatSteps, Zenon
<1>2. CASE UNCHANGED natVars
  <2>1. /\ nat' = nat /\ hash_table' = hash_table /\ status' = status
        /\ arrived' = arrived /\ sent' = sent
    BY <1>2, Zenon DEF natVars
  <2>2. NatInv' /\ Contents' = Contents BY <2>1, NatStays, Zenon
  <2>3. NoRoom' = NoRoom BY <2>1, <2>2, Zenon DEF NoRoom
  <2> QED BY <2>1, <2>2, <2>3, Zenon DEF Translator!natVars
<1> QED BY <1>1, <1>2, Zenon

\* Each of the NATs but nat-ruby implements NatTable, whatever structure its
\* dispatch_packet keeps the connections in, for any number of ports, buckets
\* and cells and any hash function: a packet is translated by what was entered
\* for its header and by nothing else.
THEOREM NatsRefine == NatSpec /\ nat # "nat_ruby" => IsNat
<1>1. NatInit /\ nat # "nat_ruby" => NatInv /\ Translator!Init BY NatStarts, Zenon
<1>2. NatInv /\ [NatNext]_natVars => NatInv' /\ [Translator!Next]_Translator!natVars
  BY NatRefines, Zenon
<1> QED BY <1>1, <1>2, PTL DEF NatSpec, IsNat, Translator!Spec

\* In the table that dispatch_packet keeps, the answer to a translated packet
\* is translated back, for the same programs.
THEOREM RoundTripInvariance == NatSpec /\ nat # "nat_ruby" => []RoundTrip
<1>1. NatInit /\ nat # "nat_ruby" => NatInv /\ Translator!Init BY NatStarts, Zenon
<1>2. NatInv /\ [NatNext]_natVars => NatInv' /\ [Translator!Next]_Translator!natVars
  BY NatRefines, Zenon
<1>3. Translator!Init => RoundTrip
  <2> SUFFICES ASSUME Translator!Init PROVE RoundTrip BY Zenon
  <2>1. Contents = [h \in {} |-> h] BY Zenon DEF Translator!Init
  <2>2. DOMAIN Contents = {} BY <2>1, Zenon
  <2> QED BY <2>2, Zenon DEF RoundTrip, Translator!RoundTrip, Translator!Known
<1>4. RoundTrip /\ [Translator!Next]_Translator!natVars => RoundTrip'
  BY TranslatorKeepsPairs, Zenon
<1> QED BY <1>1, <1>2, <1>3, <1>4, PTL DEF NatSpec
=============================================================================

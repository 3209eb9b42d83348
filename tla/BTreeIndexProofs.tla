-------------------------- MODULE BTreeIndexProofs --------------------------
(***************************************************************************)
(* Theorems about BTreeIndex, for any keys, record ids, garbage in fresh   *)
(* roots and length of the chain, and that it implements KeyIndex for tidy *)
(* clients, with more than one key to a node.                              *)
(***************************************************************************)
EXTENDS BTreeIndex, FiniteSetTheorems, SequenceTheorems, WellFoundedInduction, TLAPS

-----------------------------------------------------------------------------
(* Numbers. *)

LEMMA LeastExists ==
  ASSUME NEW S \in SUBSET Nat, S # {}
  PROVE  \E m \in S : \A n \in S : m <= n
<1> DEFINE R == {ss \in Nat \X Nat : ss[1] < ss[2]}
<1>1. IsWellFoundedOn(OpToRel(<, Nat), Nat)
  BY NatLessThanWellFounded
<1>2. IsWellFoundedOn(R, Nat)
  BY <1>1 DEF OpToRel
<1> HIDE DEF R
<1>3. PICK m \in S : \A n \in S : ~(<<n, m>> \in R)
  BY <1>2, WFMin
<1>4. ASSUME NEW n \in S PROVE m <= n
  <2>1. n \in Nat /\ m \in Nat
    OBVIOUS
  <2>2. n < m => <<n, m>> \in R
    BY <2>1 DEF R
  <2> QED
    BY <1>3, <2>1, <2>2
<1> QED
  BY <1>4

(* The nodes and slots of a chain: node n has Order slots, which end at Order * n. *)
LEMMA Nodes ==
  ASSUME NEW n \in Nat
  PROVE  /\ Order * n \in Nat
         /\ (Order * n) \div Order = n
         /\ (Order * n + Order) \div Order = n + 1
         /\ Order * (n + 1) = Order * n + Order
         /\ \A s \in Int : NodeOf(s) = n <=> Order * n - Order < s /\ s <= Order * n
         /\ FirstSlot(n + 1) = Order * n + 1
<1>1. Order = 1 \/ Order = 2 \/ Order = 3
  BY OrderAssumption
<1>2. CASE Order = 1
  BY <1>2 DEF NodeOf, FirstSlot
<1>3. CASE Order = 2
  BY <1>3 DEF NodeOf, FirstSlot
<1>4. CASE Order = 3
  BY <1>4 DEF NodeOf, FirstSlot
<1> QED
  BY <1>1, <1>2, <1>3, <1>4

-----------------------------------------------------------------------------
(* What findKey finds in a chain with keys f and record ids g.               *)

Firsts(f, k) == {s \in DOMAIN f : f[s] = k /\ \A t \in 1 .. s - 1 : f[t] # k}
Found(f, g, k) == IF Firsts(f, k) = {} THEN NotFound ELSE g[CHOOSE s \in Firsts(f, k) : TRUE]

LEMMA FindIsFound ==
  ASSUME NEW k
  PROVE  Find(k) = Found(key, id, k) /\ Find(k)' = Found(key', id', k)
BY DEF Find, Found, Firsts, FirstSlots, Slots

LEMMA FirstIsFound ==
  ASSUME NEW f \in Seq(Int), NEW g, NEW k \in Int, NEW s \in Firsts(f, k)
  PROVE  Found(f, g, k) = g[s]
<1>1. ASSUME NEW t \in Firsts(f, k) PROVE t = s
  <2>1. s \in Int /\ t \in Int /\ 1 <= s /\ 1 <= t
    BY DEF Firsts
  <2>2. ~(t < s) /\ ~(s < t)
    BY <2>1 DEF Firsts
  <2> QED
    BY <2>1, <2>2
<1> QED
  BY <1>1 DEF Found

(* A key that is there has a first slot. *)
LEMMA FirstExists ==
  ASSUME NEW f \in Seq(Int), NEW k \in Int
  PROVE  (\E s \in DOMAIN f : f[s] = k) <=> Firsts(f, k) # {}
<1>1. ASSUME NEW s \in DOMAIN f, f[s] = k PROVE Firsts(f, k) # {}
  <2> DEFINE S == {t \in DOMAIN f : f[t] = k}
  <2>1. S \in SUBSET Nat /\ S # {}
    BY <1>1
  <2>2. PICK m \in S : \A n \in S : m <= n
    BY <2>1, LeastExists
  <2>3. ASSUME NEW t \in 1 .. m - 1 PROVE f[t] # k
    <3>1. t \in DOMAIN f /\ ~(m <= t)
      BY <2>2
    <3> QED
      BY <2>2, <3>1
  <2> QED
    BY <2>2, <2>3 DEF Firsts
<1> QED
  BY <1>1 DEF Firsts

(* The chain may grow, and keys behind the first entry of k change, without a change
   of what is found for k. *)
EntryStays(f, h, g, j, k) ==
    /\ Len(f) <= Len(h)
    /\ \A s \in DOMAIN f : (h[s] = k) = (f[s] = k)
    /\ \A s \in DOMAIN f : (f[s] = k) => (j[s] = g[s])
    /\ (\E s \in DOMAIN h : h[s] = k) => \E s \in DOMAIN f : f[s] = k

LEMMA FoundStays ==
  ASSUME NEW f \in Seq(Int), NEW h \in Seq(Int), NEW g, NEW j, NEW k \in Int, EntryStays(f, h, g, j, k)
  PROVE  Found(h, j, k) = Found(f, g, k)
<1>1. CASE Firsts(f, k) = {}
  <2>1. Firsts(h, k) = {}
    BY <1>1, FirstExists DEF EntryStays
  <2> QED
    BY <1>1, <2>1 DEF Found
<1>2. ASSUME NEW s \in Firsts(f, k) PROVE Found(h, j, k) = Found(f, g, k)
  <2>1. s \in DOMAIN f /\ f[s] = k /\ \A t \in 1 .. s - 1 : t \in DOMAIN f /\ f[t] # k
    BY DEF Firsts
  <2>0. /\ \A t \in DOMAIN f : (h[t] = k) = (f[t] = k)
        /\ \A t \in DOMAIN f : (f[t] = k) => (j[t] = g[t])
    BY Zenon DEF EntryStays
  <2>2. s \in DOMAIN h /\ h[s] = k /\ j[s] = g[s] /\ \A t \in 1 .. s - 1 : h[t] # k
    <3>1. s \in DOMAIN h
      BY <2>1 DEF EntryStays
    <3>2. h[s] = k /\ j[s] = g[s]
      BY <2>0, <2>1, Zenon
    <3>3. ASSUME NEW t \in 1 .. s - 1 PROVE h[t] # k
      BY <2>0, <2>1, Zenon
    <3> QED
      BY <3>1, <3>2, <3>3
  <2>3. s \in Firsts(h, k)
    BY <2>2 DEF Firsts
  <2>4. Found(h, j, k) = j[s]
    BY <2>3, FirstIsFound, Zenon
  <2>5. Found(f, g, k) = g[s]
    BY <1>2, FirstIsFound, Zenon
  <2> QED
    BY <2>2, <2>4, <2>5
<1> QED
  BY <1>1, <1>2

-----------------------------------------------------------------------------
(* The bubble sort of openTreeScan. *)

Before(s, t) == key[s] < key[t] \/ (key[s] = key[t] /\ s < t)
UpTo(s) == {t \in Slots : key[t] < key[s] \/ (key[t] = key[s] /\ t <= s)}

LEMMA SlotsFinite ==
  ASSUME key \in Seq(Int)
  PROVE  /\ Slots = 1 .. Len(key) /\ Len(key) \in Nat
         /\ IsFiniteSet(Slots) /\ Cardinality(Slots) = Len(key)
         /\ \A S \in SUBSET Slots : IsFiniteSet(S) /\ Cardinality(S) \in Nat /\ Cardinality(S) <= Len(key)
<1>1. Slots = 1 .. Len(key) /\ Len(key) \in Nat
  BY DEF Slots
<1>2. IsFiniteSet(Slots) /\ Cardinality(Slots) = Len(key)
  BY <1>1, FS_Interval
<1>3. ASSUME NEW S \in SUBSET Slots
      PROVE  IsFiniteSet(S) /\ Cardinality(S) \in Nat /\ Cardinality(S) <= Len(key)
  BY <1>2, FS_Subset, FS_CardinalityType
<1> QED
  BY <1>1, <1>2, <1>3

LEMMA PlaceOrders ==
  ASSUME key \in Seq(Int), NEW s \in Slots, NEW t \in Slots
  PROVE  /\ Place(s) \in Slots
         /\ Before(s, t) => Place(s) < Place(t)
         /\ s # t => Before(s, t) \/ Before(t, s)
<1>1. /\ s \in Int /\ t \in Int /\ key[s] \in Int /\ key[t] \in Int
      /\ \A u \in Slots : u \in Int /\ key[u] \in Int
  BY DEF Slots
<1>2. UpTo(s) \in SUBSET Slots /\ UpTo(t) \in SUBSET Slots
  BY DEF UpTo
<1>3. /\ IsFiniteSet(UpTo(s)) /\ Cardinality(UpTo(s)) \in Nat /\ Cardinality(UpTo(s)) <= Len(key)
      /\ IsFiniteSet(UpTo(t)) /\ Cardinality(UpTo(t)) \in Nat
  BY <1>2, SlotsFinite
<1>4. Place(s) = Cardinality(UpTo(s)) /\ Place(t) = Cardinality(UpTo(t))
  BY DEF Place, UpTo
<1>5. Cardinality(UpTo(s)) # 0
  <2>1. s \in UpTo(s)
    BY <1>1 DEF UpTo
  <2> QED
    BY <1>3, <2>1, FS_EmptySet
<1>6. ASSUME Before(s, t) PROVE Cardinality(UpTo(s)) < Cardinality(UpTo(t))
  <2>1. UpTo(s) \in SUBSET UpTo(t)
    <3>1. ASSUME NEW u \in UpTo(s) PROVE u \in UpTo(t)
      <4>1. /\ u \in Slots /\ u \in Int /\ key[u] \in Int
            /\ key[u] < key[s] \/ (key[u] = key[s] /\ u <= s)
        BY <1>1 DEF UpTo
      <4>2. key[u] < key[t] \/ (key[u] = key[t] /\ u <= t)
        BY <1>1, <1>6, <4>1 DEF Before
      <4> QED
        BY <4>1, <4>2 DEF UpTo
    <3> QED
      BY <3>1
  <2>2. t \in UpTo(t) /\ t \notin UpTo(s)
    BY <1>1, <1>6 DEF UpTo, Before
  <2>3. UpTo(s) # UpTo(t)
    BY <2>2
  <2>4. /\ Cardinality(UpTo(s)) <= Cardinality(UpTo(t))
        /\ Cardinality(UpTo(t)) = Cardinality(UpTo(s)) => UpTo(t) = UpTo(s)
    BY <1>3, <2>1, FS_Subset
  <2> QED
    BY <1>3, <2>3, <2>4
<1>7. s # t => Before(s, t) \/ Before(t, s)
  BY <1>1 DEF Before
<1> QED
  BY <1>3, <1>4, <1>5, <1>6, <1>7, SlotsFinite

(* Every place is that of one slot. *)
LEMMA PlacesTaken ==
  ASSUME key \in Seq(Int), NEW i \in Slots
  PROVE  \E s \in Slots : Place(s) = i
<1> DEFINE f == [s \in Slots |-> Place(s)]
<1>1. f \in [Slots -> Slots]
  BY PlaceOrders
<1>2. ASSUME NEW s \in Slots, NEW t \in Slots, f[s] = f[t] PROVE s = t
  <2>1. f[s] = Place(s) /\ f[t] = Place(t)
    OBVIOUS
  <2>2. Place(s) \in Int /\ Place(t) \in Int
    BY PlaceOrders DEF Slots
  <2>3. ~Before(s, t) /\ ~Before(t, s)
    BY <1>2, <2>1, <2>2, PlaceOrders
  <2> QED
    BY <2>3, PlaceOrders
<1> HIDE DEF f
<1>3. f \in Injection(Slots, Slots)
  BY <1>1, <1>2 DEF Injection, IsInjective
<1>4. f \in Surjection(Slots, Slots)
  BY <1>3, SlotsFinite, FS_Injection
<1>5. PICK s \in Slots : f[s] = i
  BY <1>4 DEF Surjection
<1> QED
  BY <1>5 DEF f

(* The slot whose entry comes to place i. *)
SlotAt(i) == CHOOSE s \in Slots : Place(s) = i

LEMMA SlotAtIs ==
  ASSUME key \in Seq(Int), NEW i \in Slots
  PROVE  /\ SlotAt(i) \in Slots /\ Place(SlotAt(i)) = i
         /\ \A f : SortedByKey(f)[i] = f[SlotAt(i)]
BY PlacesTaken DEF SlotAt, SortedByKey

LEMMA SortIs ==
  ASSUME key \in Seq(Int), NEW S, id \in Seq(S), Len(id) = Len(key)
  PROVE  /\ SortedByKey(key) \in Seq(Int) /\ Len(SortedByKey(key)) = Len(key)
         /\ SortedByKey(id) \in Seq(S) /\ Len(SortedByKey(id)) = Len(key)
<1>1. Slots = 1 .. Len(key) /\ Len(key) \in Nat /\ Slots = 1 .. Len(id)
  BY SlotsFinite
<1>2. \A i \in Slots : key[SlotAt(i)] \in Int /\ id[SlotAt(i)] \in S
  BY <1>1, SlotAtIs
<1>3. SortedByKey(key) = [i \in 1 .. Len(key) |-> key[SlotAt(i)]]
      /\ SortedByKey(id) = [i \in 1 .. Len(key) |-> id[SlotAt(i)]]
  BY <1>1 DEF SortedByKey, SlotAt
<1> QED
  BY <1>1, <1>2, <1>3

LEMMA SortSorts ==
  ASSUME key \in Seq(Int), NEW i \in Slots, NEW j \in Slots, i <= j
  PROVE  SortedByKey(key)[i] <= SortedByKey(key)[j]
<1> DEFINE s == SlotAt(i)
           t == SlotAt(j)
<1>1. s \in Slots /\ t \in Slots /\ Place(s) = i /\ Place(t) = j
      /\ SortedByKey(key)[i] = key[s] /\ SortedByKey(key)[j] = key[t]
  BY SlotAtIs
<1> HIDE DEF s, t
<1>2. key[s] \in Int /\ key[t] \in Int /\ i \in Int /\ j \in Int
  BY <1>1 DEF Slots
<1>3. key[t] < key[s] => j < i
  BY <1>1, PlaceOrders DEF Before
<1> QED
  BY <1>1, <1>2, <1>3

(* Entries of one key stay in their order. *)
LEMMA SortKeepsFound ==
  ASSUME key \in Seq(Int), NEW S, id \in Seq(S), Len(id) = Len(key), NEW k \in Int
  PROVE  Found(SortedByKey(key), SortedByKey(id), k) = Found(key, id, k)
<1> DEFINE h == SortedByKey(key)
           j == SortedByKey(id)
<1>1. h \in Seq(Int) /\ DOMAIN h = Slots /\ Slots = 1 .. Len(key) /\ Len(key) \in Nat
  BY SortIs, SlotsFinite
<1>2. \A i \in Slots : SlotAt(i) \in Slots /\ Place(SlotAt(i)) = i
                       /\ h[i] = key[SlotAt(i)] /\ j[i] = id[SlotAt(i)]
  BY SlotAtIs
<1> HIDE DEF h, j
<1>3. CASE Firsts(key, k) = {}
  <2>1. \A s \in Slots : key[s] # k
    BY <1>3, FirstExists DEF Slots
  <2>2. \A i \in DOMAIN h : h[i] # k
    BY <1>1, <1>2, <2>1
  <2>3. Firsts(h, k) = {}
    BY <1>1, <2>2, FirstExists
  <2> QED
    BY <1>3, <2>3 DEF Found, h, j
<1>4. ASSUME NEW s \in Firsts(key, k) PROVE Found(h, j, k) = Found(key, id, k)
  <2>1. s \in Slots /\ key[s] = k /\ \A t \in 1 .. s - 1 : key[t] # k
    BY DEF Firsts, Slots
  <2> DEFINE i == Place(s)
  <2>2. i \in Slots
    BY <2>1, PlaceOrders
  <2>3. SlotAt(i) = s
    <3>1. SlotAt(i) \in Slots /\ Place(SlotAt(i)) = i
      BY <1>2, <2>2
    <3>2. i \in Int
      BY <2>2, <1>1
    <3>3. ~Before(SlotAt(i), s) /\ ~Before(s, SlotAt(i))
      BY <2>1, <3>1, <3>2, PlaceOrders
    <3> QED
      BY <2>1, <3>1, <3>3, PlaceOrders
  <2>4. h[i] = k /\ j[i] = id[s]
    BY <1>2, <2>1, <2>2, <2>3
  <2> HIDE DEF i
  <2>5. ASSUME NEW t \in 1 .. i - 1 PROVE h[t] # k
    <3>1. t \in Slots /\ t < i /\ t \in Int /\ i \in Int
      BY <1>1, <2>2
    <3>2. SlotAt(t) \in Slots /\ Place(SlotAt(t)) = t /\ h[t] = key[SlotAt(t)]
      BY <1>2, <3>1
    <3>3. SUFFICES ASSUME key[SlotAt(t)] = k PROVE FALSE
      BY <3>2
    <3>4. ~(SlotAt(t) < s)
      BY <1>1, <2>1, <3>2, <3>3
    <3>5. SlotAt(t) = s \/ s < SlotAt(t)
      BY <1>1, <2>1, <3>2, <3>4
    <3>6. s < SlotAt(t) => i < t
      BY <2>1, <3>2, <3>3, PlaceOrders DEF Before, i
    <3>7. SlotAt(t) = s => i = t
      BY <3>2 DEF i
    <3> QED
      BY <3>1, <3>5, <3>6, <3>7
  <2>6. i \in Firsts(h, k)
    BY <1>1, <2>2, <2>4, <2>5 DEF Firsts
  <2>7. Found(h, j, k) = j[i] /\ Found(key, id, k) = id[s]
    BY <1>1, <2>6, FirstIsFound
  <2> QED
    BY <2>4, <2>7
<1> QED
  BY <1>3, <1>4 DEF h, j

-----------------------------------------------------------------------------
(* insertKey. *)

(* The first free slot of its node takes the key. *)
LEMMA FreeSlotsIs ==
  ASSUME key \in Seq(Int)
  PROVE  /\ FreeSlots \in SUBSET Slots /\ \A s \in FreeSlots : key[s] = 0
         /\ ~LastNodeFull => FreeSlots # {}
         /\ Taken # Slots => FreeSlots # {}
<1> DEFINE open == Slots \ Taken
<1>1. Slots \in SUBSET Nat
  BY SlotsFinite
<1>2. FreeSlots = {s \in open : \A t \in open : NodeOf(t) = NodeOf(s) => s <= t}
  BY DEF FreeSlots
<1>3. ASSUME NEW s \in open PROVE FreeSlots # {}
  <2> DEFINE S == {t \in open : NodeOf(t) = NodeOf(s)}
  <2>1. S \in SUBSET Nat /\ s \in S
    BY <1>1
  <2>2. PICK m \in S : \A n \in S : m <= n
    BY <2>1, LeastExists
  <2>3. m \in open /\ \A t \in open : NodeOf(t) = NodeOf(m) => m <= t
    BY <2>2
  <2> QED
    BY <1>2, <2>3
<1>4. ~LastNodeFull => \E s \in open : TRUE
  BY DEF LastNodeFull
<1>5. Taken # Slots => \E s \in open : TRUE
  BY DEF Taken
<1> QED
  BY <1>2, <1>3, <1>4, <1>5 DEF Taken

(* A chain f of the same length with v put in: h. *)
PutIn(f, h, v, zero) ==
    /\ Len(h) = IF LastNodeFull THEN Len(f) + Order ELSE Len(f)
    /\ \A s \in DOMAIN f : h[s] = IF s \in FreeSlots THEN v ELSE f[s]
    /\ LastNodeFull =>
         /\ h[Len(f) + 1] = v
         /\ \A s \in Len(f) + 2 .. Len(f) + Order : h[s] = zero

LEMMA WithIs ==
  ASSUME key \in Seq(Int), NEW S, NEW f \in Seq(S), Len(f) = Len(key), NEW v \in S, NEW zero \in S
  PROVE  With(f, v, zero) \in Seq(S) /\ PutIn(f, With(f, v, zero), v, zero)
<1> DEFINE free == FreeSlots
           a == [s \in Slots |-> IF s \in free THEN v ELSE f[s]]
           z == [i \in 1 .. Order - 1 |-> zero]
           b == <<v>> \o z
<1>1. Slots = 1 .. Len(f) /\ Len(f) \in Nat /\ DOMAIN f = Slots
  BY SlotsFinite
<1>2. a \in Seq(S) /\ Len(a) = Len(f) /\ \A s \in Slots : a[s] = IF s \in free THEN v ELSE f[s]
  BY <1>1
<1>3. Order \in Nat /\ Order >= 1
  BY OrderAssumption
<1>4. z \in Seq(S) /\ Len(z) = Order - 1 /\ \A i \in 1 .. Order - 1 : z[i] = zero
  BY <1>3
<1> HIDE DEF a, z, free
<1>5. /\ <<v>> \in Seq(S) /\ Len(<<v>>) = 1 /\ <<v>>[1] = v
  OBVIOUS
<1>6. /\ b \in Seq(S) /\ Len(b) = Order /\ b[1] = v
      /\ \A i \in 2 .. Order : b[i] = zero
  <2>1. b \in Seq(S) /\ Len(b) = Order /\ b[1] = v
    BY <1>3, <1>4, <1>5
  <2>2. ASSUME NEW i \in 2 .. Order PROVE b[i] = zero
    <3>1. b[i] = z[i - 1] /\ i - 1 \in 1 .. Order - 1
      BY <1>3, <1>4, <1>5
    <3> QED
      BY <1>4, <3>1
  <2> QED
    BY <2>1, <2>2
<1> HIDE DEF b
<1>7. CASE LastNodeFull
  <2> DEFINE h == a \o b
             c == IF LastNodeFull THEN b ELSE <<>>
  <2>0. With(f, v, zero) = a \o c
    BY DEF With, a, b, z, free
  <2>1. With(f, v, zero) = h
    BY <1>7, <2>0
  <2> HIDE DEF c
  <2>2. h \in Seq(S) /\ Len(h) = Len(f) + Order
    <3>1. a \in Seq(S) /\ b \in Seq(S)
      BY <1>2, <1>6
    <3>2. h \in Seq(S) /\ Len(h) = Len(a) + Len(b)
      BY <3>1
    <3> QED
      BY <1>2, <1>6, <3>2
  <2>3. \A s \in DOMAIN f : h[s] = IF s \in free THEN v ELSE f[s]
    BY <1>1, <1>2, <1>3, <1>6
  <2>4. h[Len(f) + 1] = v
    BY <1>1, <1>2, <1>3, <1>6
  <2>5. ASSUME NEW s \in Len(f) + 2 .. Len(f) + Order PROVE h[s] = zero
    <3>1. s - Len(f) \in 2 .. Order /\ s \in Len(a) + 1 .. Len(a) + Len(b)
      BY <1>1, <1>2, <1>3, <1>6
    <3>2. h[s] = b[s - Len(f)]
      BY <1>1, <1>2, <1>3, <1>6, <3>1
    <3> QED
      BY <1>6, <3>1, <3>2
  <2> HIDE DEF h
  <2> QED
    BY <1>7, <2>1, <2>2, <2>3, <2>4, <2>5 DEF PutIn, free
<1>8. CASE ~LastNodeFull
  <2>1. With(f, v, zero) = a \o <<>>
    BY <1>8 DEF With, a, free
  <2>2. With(f, v, zero) = a
    BY <1>2, <2>1
  <2> QED
    BY <1>1, <1>2, <1>8, <2>2 DEF PutIn, free
<1> QED
  BY <1>7, <1>8

(* The keys h of the chain f, in which the new last node is the parent of three. *)
Parent(f, h) ==
    /\ Len(h) = Len(f)
    /\ \A s \in DOMAIN key : h[s] = f[s]
    /\ \A s \in DOMAIN h : \E t \in DOMAIN f : h[s] = f[t]

LEMMA Replaced ==
  ASSUME NEW f \in Seq(Int), NEW i, NEW x \in Int
  PROVE  /\ [f EXCEPT ![i] = x] \in Seq(Int) /\ Len([f EXCEPT ![i] = x]) = Len(f)
         /\ DOMAIN [f EXCEPT ![i] = x] = DOMAIN f
         /\ \A s \in DOMAIN f : [f EXCEPT ![i] = x][s] = IF s = i THEN x ELSE f[s]
<1> DEFINE g == [f EXCEPT ![i] = x]
<1>1. DOMAIN f = 1 .. Len(f) /\ Len(f) \in Nat /\ f \in [1 .. Len(f) -> Int]
  OBVIOUS
<1>2. g \in [1 .. Len(f) -> Int]
  BY <1>1
<1>3. g \in Seq(Int) /\ Len(g) = Len(f)
  BY <1>1, <1>2
<1> QED
  BY <1>1, <1>2, <1>3

LEMMA ParentIs ==
  ASSUME key \in Seq(Int), NEW f \in Seq(Int), Len(key) = Order * NumNodes, NumNodes \in Nat,
         Len(f) = Len(key) + Order, 3 * Order <= Len(f)
  PROVE  ParentOfThree(f) \in Seq(Int) /\ Parent(f, ParentOfThree(f))
<1> DEFINE last == FirstSlot(Len(f) \div Order)
           u == Order + 1
           v == 2 * Order + 1
           g == [f EXCEPT ![last] = f[u]]
           h == [g EXCEPT ![last + 1] = g[v]]
<1>1. Order \in 1 .. 3 /\ Len(key) \in Nat /\ Len(f) \in Nat /\ DOMAIN f = 1 .. Len(f) /\ DOMAIN key = 1 .. Len(key)
  BY OrderAssumption
<1>2. last = Len(key) + 1
  BY Nodes
<1>3. FirstSlot(2) = u /\ FirstSlot(3) = v
  BY <1>1 DEF FirstSlot
<1>4. u \in DOMAIN f /\ v \in DOMAIN f
  BY <1>1
<1> HIDE DEF last, u, v
<1>5. /\ g \in Seq(Int) /\ Len(g) = Len(f) /\ DOMAIN g = DOMAIN f
      /\ \A s \in DOMAIN f : g[s] = IF s = last THEN f[u] ELSE f[s]
  <2>1. f[u] \in Int
    BY <1>4
  <2> QED
    BY <2>1, Replaced
<1>6. Parent(f, g)
  BY <1>1, <1>2, <1>4, <1>5 DEF Parent
<1> HIDE DEF g
<1>7. CASE Order = 1
  <2>1. ParentOfThree(f) = g
    BY <1>3, <1>7 DEF ParentOfThree, g, last, u
  <2> QED
    BY <1>5, <1>6, <2>1
<1>8. CASE Order # 1
  <2>1. ParentOfThree(f) = h
    BY <1>3, <1>8 DEF ParentOfThree, g, last, u, v
  <2>2. /\ h \in Seq(Int) /\ Len(h) = Len(f) /\ DOMAIN h = DOMAIN f
        /\ \A s \in DOMAIN f : h[s] = IF s = last + 1 THEN g[v] ELSE g[s]
    <3>1. g \in Seq(Int) /\ DOMAIN g = DOMAIN f
      BY <1>5
    <3>2. g[v] \in Int
      BY <1>4, <3>1
    <3>3. /\ h \in Seq(Int) /\ Len(h) = Len(g) /\ DOMAIN h = DOMAIN g
          /\ \A s \in DOMAIN g : h[s] = IF s = last + 1 THEN g[v] ELSE g[s]
      BY <3>1, <3>2, Replaced
    <3> QED
      BY <1>5, <3>3
  <2> HIDE DEF h
  <2>3. ASSUME NEW s \in DOMAIN key PROVE h[s] = f[s]
    <3>1. s \in DOMAIN f /\ s # last /\ s # last + 1
      BY <1>1, <1>2
    <3> QED
      BY <1>5, <2>2, <3>1
  <2>4. ASSUME NEW s \in DOMAIN h PROVE \E t \in DOMAIN f : h[s] = f[t]
    <3>1. \A t \in DOMAIN f : g[t] = f[u] \/ g[t] = f[t]
      BY <1>5
    <3> QED
      BY <1>4, <2>2, <3>1
  <2>5. Parent(f, h)
    BY <2>2, <2>3, <2>4 DEF Parent
  <2> QED
    BY <2>1, <2>2, <2>5
<1> QED
  BY <1>7, <1>8

-----------------------------------------------------------------------------
(* The inductive invariant: the nodes have Order slots each, and a scan, once it
   is open, walks along a chain that is full, in order, and not a ring.  *)

LiveHasNode == root = "live" => 1 <= NumNodes

ScanShaped ==
    IF scan = 0 THEN returned = 0
    ELSE /\ back = 0
         /\ Taken = Slots
         /\ returned = Order * (scan - 1) + inum
         /\ \A s, t \in Slots : s <= t => key[s] <= key[t]

IInv == TypeOK /\ LiveHasNode /\ ScanShaped

(* What insertKey does unless it hangs.  *)
Inserts(k, r) ==
    /\ ~Endless
    /\ id' = With(id, r, NoRID)
    /\ \/ key' = With(key, k, 0) /\ back' = 0
       \/ /\ IsSixth(With(key, k, 0))
          /\ 3 * Order <= Len(With(key, k, 0))
          /\ LastNodeFull
          /\ key' = ParentOfThree(With(key, k, 0))
          /\ back' = IF Order < 3 THEN Order + 1 ELSE 0

LEMMA KeyPutIn ==
  ASSUME TypeOK, NEW k \in Keys
  PROVE  With(key, k, 0) \in Seq(Int) /\ PutIn(key, With(key, k, 0), k, 0)
<1>1. key \in Seq(Int) /\ k \in Int /\ 0 \in Int /\ Len(key) = Len(key)
  BY KeysAssumption DEF TypeOK
<1> QED
  BY <1>1, WithIs

LEMMA InsertKeyIs ==
  ASSUME TypeOK, NEW k \in Keys, NEW r \in RIDs, insertKey(k, r)
  PROVE  (Endless /\ Hang) \/ Inserts(k, r)
<1>1. With(key, k, 0) \in Seq(Int)
  BY KeyPutIn
<1>2. 3 * Order \in Int /\ Len(With(key, k, 0)) \in Int
  BY <1>1, OrderAssumption
<1> QED
  BY <1>2 DEF insertKey, Inserts, Endless

LEMMA InsertedIs ==
  ASSUME TypeOK, NEW k \in Keys, NEW r \in RIDs, Inserts(k, r)
  PROVE  /\ key' \in Seq(Int) /\ id' \in Seq(RIDs \cup {NoRID})
         /\ With(key, k, 0) \in Seq(Int) /\ PutIn(key, With(key, k, 0), k, 0) /\ PutIn(id, id', r, NoRID)
         /\ Len(key') = (IF LastNodeFull THEN Len(key) + Order ELSE Len(key)) /\ Len(id') = Len(key')
         /\ key' = With(key, k, 0) \/ Parent(With(key, k, 0), key')
<1> DEFINE chained == With(key, k, 0)
<1>1. chained \in Seq(Int) /\ PutIn(key, chained, k, 0)
  BY KeyPutIn
<1>2. /\ key \in Seq(Int) /\ id \in Seq(RIDs \cup {NoRID}) /\ Len(id) = Len(key)
      /\ r \in RIDs \cup {NoRID} /\ NoRID \in RIDs \cup {NoRID}
  BY DEF TypeOK
<1>3. With(id, r, NoRID) \in Seq(RIDs \cup {NoRID}) /\ PutIn(id, With(id, r, NoRID), r, NoRID)
  BY <1>2, WithIs
<1>4. id' = With(id, r, NoRID)
  BY DEF Inserts
<1>5. Len(id') = (IF LastNodeFull THEN Len(id) + Order ELSE Len(id))
      /\ Len(chained) = IF LastNodeFull THEN Len(key) + Order ELSE Len(key)
  BY <1>1, <1>3, <1>4 DEF PutIn
<1>6. key' = chained
      \/ (LastNodeFull /\ 3 * Order <= Len(chained) /\ key' = ParentOfThree(chained))
  BY DEF Inserts
<1> HIDE DEF chained
<1>7. CASE key' = chained
  BY <1>1, <1>2, <1>3, <1>4, <1>5, <1>7 DEF chained
<1>8. CASE LastNodeFull /\ 3 * Order <= Len(chained) /\ key' = ParentOfThree(chained)
  <2>1. /\ Len(key) = Order * NumNodes /\ NumNodes \in Nat
    <3>1. Len(key) \in Nat /\ Order \in 1 .. 3
      BY <1>2, OrderAssumption
    <3>2. NumNodes \in Nat
      BY <3>1 DEF NumNodes
    <3> QED
      BY <3>2 DEF TypeOK
  <2>2. key' \in Seq(Int) /\ Parent(chained, key')
    BY <1>1, <1>2, <1>5, <1>8, <2>1, ParentIs
  <2>3. Len(key') = Len(chained)
    BY <2>2 DEF Parent
  <2> QED
    BY <1>1, <1>2, <1>3, <1>4, <1>5, <1>8, <2>2, <2>3 DEF chained
<1> QED
  BY <1>6, <1>7, <1>8

(* The conjuncts about the chain, and those about the scan.  *)
ChainOK ==
    /\ key \in Seq(Int)
    /\ id \in Seq(RIDs \cup {NoRID}) /\ Len(id) = Len(key)
    /\ Len(key) = Order * NumNodes
    /\ NumNodes \in Nat
    /\ back \in 0 .. NumNodes
    /\ LiveHasNode

ScanOK ==
    /\ scan \in 0 .. NumNodes
    /\ inum \in 0 .. Order
    /\ returned \in 0 .. Len(key)
    /\ ScanShaped

FlagsOK ==
    /\ up \in {"running", "hung", "broken"}
    /\ file \in {"absent", "closed", "open"}
    /\ root \in {"none", "live", "freed"}
    /\ tidy \in BOOLEAN

LEMMA Parts == IInv <=> FlagsOK /\ ChainOK /\ ScanOK
<1>1. key \in Seq(Int) => NumNodes \in Nat
  <2>1. Order \in 1 .. 3
    BY OrderAssumption
  <2>2. key \in Seq(Int) => Len(key) \in Nat
    OBVIOUS
  <2> QED
    BY <2>1, <2>2 DEF NumNodes
<1> QED
  BY <1>1 DEF IInv, TypeOK, FlagsOK, ChainOK, ScanOK

LEMMA PartsNext == IInv' <=> FlagsOK' /\ ChainOK' /\ ScanOK'
BY Parts, PTL

LEMMA InitHolds == Init => IInv
<1> SUFFICES ASSUME Init PROVE FlagsOK /\ ChainOK /\ ScanOK
  BY Parts
<1>1. key = <<>> /\ id = <<>> /\ Len(key) = 0 /\ Len(id) = 0
  BY DEF Init
<1>2. Order * 0 = 0 /\ (Order * 0) \div Order = 0
  BY OrderAssumption, Nodes
<1>3. NumNodes = 0
  BY <1>1, <1>2 DEF NumNodes
<1>4. FlagsOK
  BY DEF Init, FlagsOK
<1>5. ChainOK
  BY <1>1, <1>2, <1>3 DEF Init, ChainOK, LiveHasNode
<1>6. ScanOK
  BY <1>1, <1>3, OrderAssumption DEF Init, ScanOK, ScanShaped
<1> QED
  BY <1>4, <1>5, <1>6

(* The record ids and keys of a chain of n nodes.  *)
LEMMA ChainOfLength ==
  ASSUME NEW n \in Nat, key' \in Seq(Int), id' \in Seq(RIDs \cup {NoRID}), Len(id') = Len(key'),
         Len(key') = Order * n, back' \in 0 .. n, root' = "live" => 1 <= n
  PROVE  ChainOK' /\ NumNodes' = n
<1>1. NumNodes' = n
  BY Nodes DEF NumNodes
<1> QED
  BY <1>1 DEF ChainOK, LiveHasNode

LEMMA ChainStays ==
  ASSUME ChainOK, key' = key, id' = id, back' = back, root' = root
  PROVE  ChainOK' /\ NumNodes' = NumNodes
<1>1. NumNodes' = NumNodes
  BY DEF NumNodes
<1> QED
  BY <1>1 DEF ChainOK, LiveHasNode

LEMMA ScanStays ==
  ASSUME ScanOK, key' = key, back' = back, scan' = scan, inum' = inum, returned' = returned
  PROVE  ScanOK'
BY DEF ScanOK, ScanShaped, NumNodes, Taken, Slots

LEMMA ScanClosed ==
  ASSUME scan' = 0, returned' = 0, inum' \in 0 .. Order, NumNodes' \in Nat, Len(key') \in Nat
  PROVE  ScanOK'
BY DEF ScanOK, ScanShaped

LEMMA createBtreeKeeps == IInv /\ createBtree /\ up = "running" => IInv'
<1> SUFFICES ASSUME FlagsOK, ChainOK, ScanOK, createBtree, up = "running"
             PROVE  FlagsOK' /\ ChainOK' /\ ScanOK'
  BY Parts, PartsNext
<1>1. FlagsOK'
  <2>1. tidy' \in BOOLEAN
    BY DEF createBtree
  <2> QED
    BY <2>1 DEF FlagsOK, createBtree
<1>2. Order \in Nat /\ Order * 1 = Order
  BY OrderAssumption
<1>3. key' \in Seq(Int) /\ Len(key') = Order
  <2>1. key' \in [1 .. Order -> Int]
    BY FreshAssumption DEF createBtree
  <2> QED
    BY <1>2, <2>1
<1>4. id' \in Seq(RIDs \cup {NoRID}) /\ Len(id') = Order
  BY <1>2 DEF createBtree
<1>5. ChainOK' /\ NumNodes' = 1
  BY <1>2, <1>3, <1>4, ChainOfLength DEF createBtree
<1>6. ScanOK'
  BY <1>2, <1>3, <1>5, ScanClosed DEF createBtree, ScanOK
<1> QED
  BY <1>1, <1>5, <1>6

LEMMA closeBtreeKeeps == IInv /\ closeBtree /\ up = "running" => IInv'
<1> SUFFICES ASSUME FlagsOK, ChainOK, ScanOK, closeBtree, up = "running"
             PROVE  FlagsOK' /\ ChainOK' /\ ScanOK'
  BY Parts, PartsNext
<1>1. FlagsOK'
  BY DEF FlagsOK, closeBtree
<1>2. key' = <<>> /\ id' = <<>> /\ back' = 0 /\ scan' = 0 /\ returned' = 0 /\ inum' = inum
  BY DEF closeBtree, Forget
<1>3. key' \in Seq(Int) /\ id' \in Seq(RIDs \cup {NoRID}) /\ Len(key') = 0 /\ Len(id') = 0
  BY <1>2
<1>4. Order * 0 = 0
  BY OrderAssumption
<1>5. ChainOK' /\ NumNodes' = 0
  BY <1>2, <1>3, <1>4, ChainOfLength DEF closeBtree
<1>6. ScanOK'
  BY <1>2, <1>3, <1>5, ScanClosed DEF ScanOK
<1> QED
  BY <1>1, <1>5, <1>6

(* A call that does not change the chain or the scan.  *)
Only == UNCHANGED <<root, chain, cursor>>

LEMMA OnlyKeeps ==
  ASSUME IInv, Only, FlagsOK'
  PROVE  IInv'
<1>1. FlagsOK /\ ChainOK /\ ScanOK
  BY Parts
<1>2. /\ key' = key /\ id' = id /\ back' = back /\ root' = root
      /\ scan' = scan /\ inum' = inum /\ returned' = returned
  BY DEF Only, chain, cursor
<1>3. ChainOK' /\ ScanOK'
  BY <1>1, <1>2, ChainStays, ScanStays
<1> QED
  BY <1>3, PartsNext

LEMMA insertKeyKeeps ==
  ASSUME IInv, up = "running", NEW k \in Keys, NEW r \in RIDs, insertKey(k, r)
  PROVE  IInv'
<1>1. FlagsOK /\ ChainOK /\ ScanOK /\ TypeOK
  BY Parts DEF IInv
<1>2. FlagsOK'
  BY <1>1 DEF FlagsOK, insertKey, Hang, InUse
<1>3. CASE Hang
  <2>1. Only
    BY <1>3 DEF Hang, Only
  <2> QED
    BY <1>2, <2>1, OnlyKeeps
<1>4. CASE Inserts(k, r) /\ ~Hang
  <2>1. /\ key' \in Seq(Int) /\ id' \in Seq(RIDs \cup {NoRID})
        /\ Len(key') = (IF LastNodeFull THEN Len(key) + Order ELSE Len(key)) /\ Len(id') = Len(key')
    BY <1>1, <1>4, InsertedIs
  <2>2. root' = root /\ scan' = 0 /\ inum' = inum /\ returned' = 0 /\ InUse /\ root = "live"
    BY <1>1, <1>4 DEF insertKey, InUse, cursor, ScanOK, ScanShaped
  <2>3. Order \in 1 .. 3 /\ Len(key) \in Nat /\ Len(key) = Order * NumNodes /\ NumNodes \in Nat /\ 1 <= NumNodes
    BY <1>1, <2>2, OrderAssumption DEF ChainOK, LiveHasNode
  <2>4. back' = 0 \/ (LastNodeFull /\ 3 * Order <= Len(With(key, k, 0)) /\ Order < 3 /\ back' = Order + 1)
    BY <1>4 DEF Inserts
  <2>5. Len(With(key, k, 0)) = (IF LastNodeFull THEN Len(key) + Order ELSE Len(key))
    BY <1>1, <1>4, InsertedIs DEF PutIn
  <2>6. CASE LastNodeFull
    <3>1. NumNodes + 1 \in Nat /\ Len(key') = Order * (NumNodes + 1)
      BY <2>1, <2>3, <2>6, Nodes
    <3>2. back' \in 0 .. NumNodes + 1
      <4>1. SUFFICES ASSUME 3 * Order <= Len(key) + Order, Order < 3, back' = Order + 1
                     PROVE  back' \in 0 .. NumNodes + 1
        BY <2>3, <2>4, <2>5, <2>6
      <4>2. CASE Order = 1
        BY <4>1, <4>2, <2>3
      <4>3. CASE Order = 2
        BY <4>1, <4>3, <2>3
      <4> QED
        BY <4>1, <4>2, <4>3, <2>3
    <3>3. root' = "live" => 1 <= NumNodes + 1
      BY <2>3
    <3>4. Len(id') = Len(key')
      BY <2>1
    <3>5. ChainOK' /\ NumNodes' = NumNodes + 1
      BY <2>1, <3>1, <3>2, <3>3, <3>4, ChainOfLength
    <3> QED
      BY <1>1, <1>2, <2>1, <2>2, <3>1, <3>5, ScanClosed, PartsNext DEF ScanOK
  <2>7. CASE ~LastNodeFull
    <3>1. ChainOK' /\ NumNodes' = NumNodes
      BY <2>1, <2>2, <2>3, <2>4, <2>7, ChainOfLength
    <3> QED
      BY <1>1, <1>2, <2>1, <2>2, <2>3, <3>1, ScanClosed, PartsNext DEF ScanOK
  <2> QED
    BY <2>6, <2>7
<1> QED
  BY <1>1, <1>3, <1>4, InsertKeyIs

(* What deleteKey does unless it hangs. *)
Deletes(k) ==
    /\ key' = [s \in Slots |-> IF s \in Firsts(key, k) THEN 0 ELSE key[s]]
    /\ id' = [s \in Slots |-> IF s \in Firsts(key, k) THEN NoRID ELSE id[s]]
    /\ back' = back

LEMMA DeletedIs ==
  ASSUME ChainOK, NEW k \in Keys, Deletes(k)
  PROVE  /\ key' \in Seq(Int) /\ id' \in Seq(RIDs \cup {NoRID})
         /\ Len(key') = Len(key) /\ Len(id') = Len(key')
         /\ \A s \in Slots : /\ key'[s] = (IF s \in Firsts(key, k) THEN 0 ELSE key[s])
                             /\ id'[s] = IF s \in Firsts(key, k) THEN NoRID ELSE id[s]
<1>1. Slots = 1 .. Len(key) /\ Len(key) \in Nat /\ Len(id) = Len(key)
      /\ key \in Seq(Int) /\ id \in Seq(RIDs \cup {NoRID})
  BY SlotsFinite DEF ChainOK
<1>2. key' \in [1 .. Len(key) -> Int]
  BY <1>1 DEF Deletes
<1>3. id' \in [1 .. Len(key) -> RIDs \cup {NoRID}]
  <2>1. \A s \in Slots : id[s] \in RIDs \cup {NoRID}
    BY <1>1
  <2> QED
    BY <1>1, <2>1 DEF Deletes
<1>4. key' \in Seq(Int) /\ id' \in Seq(RIDs \cup {NoRID}) /\ Len(key') = Len(key) /\ Len(id') = Len(key)
  <2>1. key' \in Seq(Int) /\ Len(key') = Len(key)
    BY <1>1, <1>2
  <2>2. id' \in Seq(RIDs \cup {NoRID}) /\ Len(id') = Len(key)
    BY <1>1, <1>3
  <2> QED
    BY <2>1, <2>2
<1> QED
  BY <1>4 DEF Deletes

LEMMA deleteKeyKeeps ==
  ASSUME IInv, up = "running", NEW k \in Keys, deleteKey(k)
  PROVE  IInv'
<1>1. FlagsOK /\ ChainOK /\ ScanOK
  BY Parts
<1>2. FlagsOK'
  <2>1. tidy' \in BOOLEAN
    BY DEF deleteKey
  <2> QED
    BY <1>1, <2>1 DEF FlagsOK, deleteKey, Hang, InUse
<1>3. CASE Hang
  <2>1. Only
    BY <1>3 DEF Hang, Only
  <2> QED
    BY <1>2, <2>1, OnlyKeeps
<1>4. CASE ~Hang
  <2>1. Deletes(k) /\ root' = root /\ scan' = 0 /\ inum' = inum /\ returned' = 0
    BY <1>1, <1>4 DEF deleteKey, Deletes, Firsts, FirstSlots, Slots, cursor, ScanOK, ScanShaped
  <2>2. /\ key' \in Seq(Int) /\ id' \in Seq(RIDs \cup {NoRID})
        /\ Len(key') = Len(key) /\ Len(id') = Len(key') /\ back' = back
    BY <1>1, <2>1, DeletedIs DEF Deletes
  <2>3. ChainOK' /\ NumNodes' = NumNodes
    BY <1>1, <2>1, <2>2, ChainOfLength DEF ChainOK, LiveHasNode
  <2> QED
    BY <1>1, <1>2, <2>1, <2>2, <2>3, ScanClosed, PartsNext DEF ScanOK, ChainOK
<1> QED
  BY <1>3, <1>4

(* What openTreeScan does when it sorts the chain. *)
Opens ==
    /\ InUse /\ scan = 0 /\ ~Endless /\ Taken = Slots
    /\ key' = SortedByKey(key)
    /\ id' = SortedByKey(id)
    /\ scan' = 1 /\ inum' = 0 /\ returned' = 0
    /\ back' = back /\ root' = root

LEMMA OpenTreeScanIs ==
  ASSUME openTreeScan
  PROVE  Only \/ Opens
BY DEF openTreeScan, Opens, Hang, Only

LEMMA openTreeScanKeeps ==
  ASSUME IInv, up = "running", openTreeScan
  PROVE  IInv'
<1>1. FlagsOK /\ ChainOK /\ ScanOK
  BY Parts
<1>2. FlagsOK'
  <2>1. tidy' \in BOOLEAN
    BY <1>1 DEF openTreeScan, FlagsOK
  <2> QED
    BY <1>1, <2>1 DEF FlagsOK, openTreeScan, Hang, InUse
<1>3. CASE Only
  BY <1>2, <1>3, OnlyKeeps
<1>4. CASE Opens
  <2>1. /\ key \in Seq(Int) /\ id \in Seq(RIDs \cup {NoRID}) /\ Len(id) = Len(key)
        /\ Len(key) = Order * NumNodes /\ NumNodes \in Nat /\ 1 <= NumNodes /\ back = 0
    BY <1>1, <1>4 DEF Opens, InUse, ChainOK, LiveHasNode, Endless
  <2>2. /\ key' \in Seq(Int) /\ id' \in Seq(RIDs \cup {NoRID})
        /\ Len(key') = Len(key) /\ Len(id') = Len(key')
    BY <1>4, <2>1, SortIs DEF Opens
  <2>3. ChainOK' /\ NumNodes' = NumNodes
    BY <1>4, <2>1, <2>2, ChainOfLength DEF Opens
  <2>4. Slots' = Slots
    BY <2>1, <2>2 DEF Slots
  <2>5. Taken' = Slots'
    <3>1. ASSUME NEW i \in Slots PROVE key'[i] # 0
      <4>1. SlotAt(i) \in Slots /\ key'[i] = key[SlotAt(i)]
        BY <1>4, <2>1, SlotAtIs DEF Opens
      <4>2. key[SlotAt(i)] # 0
        BY <1>4, <4>1 DEF Opens, Taken
      <4> QED
        BY <4>1, <4>2
    <3> QED
      BY <2>4, <3>1 DEF Taken
  <2>6. \A s, t \in Slots' : s <= t => key'[s] <= key'[t]
    BY <1>4, <2>1, <2>4, SortSorts DEF Opens
  <2>7. Order * (1 - 1) + 0 = 0 /\ 0 \in 0 .. Order
    BY OrderAssumption
  <2>8. ScanShaped'
    BY <1>4, <2>1, <2>5, <2>6, <2>7 DEF ScanShaped, Opens
  <2>9. ScanOK'
    BY <1>4, <2>1, <2>2, <2>3, <2>7, <2>8 DEF ScanOK, Opens
  <2> QED
    BY <1>2, <2>3, <2>9, PartsNext
<1> QED
  BY <1>3, <1>4, OpenTreeScanIs

(* A step of the scan from an entry to the next.  *)
LEMMA NextEntryIs ==
  ASSUME IInv, nextEntry
  PROVE  \/ NextNode = 0 /\ answer' = NoMore /\ Only
         \/ /\ NextNode # 0 /\ scan # 0 /\ ScanShaped
            /\ returned' = returned + 1
            /\ returned' \in 1 .. Len(key)
            /\ scan' \in 1 .. NumNodes /\ inum' \in 1 .. Order
            /\ returned' = Order * (scan' - 1) + inum'
            /\ answer' = id[returned']
            /\ UNCHANGED <<root, chain>>
<1>1. ChainOK /\ ScanOK
  BY Parts
<1>2. CASE NextNode = 0
  BY <1>2 DEF nextEntry, Only, cursor
<1>3. CASE NextNode # 0
  <2>1. /\ Order \in 1 .. 3 /\ NumNodes \in Nat /\ Len(key) = Order * NumNodes
        /\ scan \in 0 .. NumNodes /\ scan # 0 /\ inum \in 0 .. Order
        /\ back = 0 /\ returned = Order * (scan - 1) + inum
    BY <1>1, OrderAssumption DEF ChainOK, ScanOK, ScanShaped, nextEntry
  <2>2. scan < NumNodes /\ NextNode = scan + 1
    BY <1>3, <2>1 DEF NextNode
  <2>3. /\ scan' = IF inum = Order THEN scan + 1 ELSE scan
        /\ inum' = IF inum = Order THEN 1 ELSE inum + 1
        /\ answer' = id[FirstSlot(scan') + inum' - 1]
        /\ returned' = returned + 1
        /\ UNCHANGED <<root, chain>>
    BY <1>3, <2>2 DEF nextEntry
  <2>4. scan' \in 1 .. NumNodes /\ inum' \in 1 .. Order
    BY <2>1, <2>2, <2>3
  <2>5. /\ returned' = Order * (scan' - 1) + inum' /\ returned' \in 1 .. Len(key)
        /\ FirstSlot(scan') + inum' - 1 = returned'
    <3>1. CASE Order = 1
      BY <2>1, <2>2, <2>3, <3>1 DEF FirstSlot
    <3>2. CASE Order = 2
      BY <2>1, <2>2, <2>3, <3>2 DEF FirstSlot
    <3>3. CASE Order = 3
      BY <2>1, <2>2, <2>3, <3>3 DEF FirstSlot
    <3> QED
      BY <2>1, <3>1, <3>2, <3>3
  <2> QED
    BY <1>1, <1>3, <2>1, <2>3, <2>4, <2>5 DEF ScanOK
<1> QED
  BY <1>2, <1>3

LEMMA nextEntryKeeps ==
  ASSUME IInv, up = "running", nextEntry
  PROVE  IInv'
<1>1. FlagsOK /\ ChainOK /\ ScanOK
  BY Parts
<1>2. FlagsOK'
  BY <1>1 DEF FlagsOK, nextEntry
<1>3. CASE Only
  BY <1>2, <1>3, OnlyKeeps
<1>4. CASE ~Only
  <2>1. /\ scan # 0 /\ ScanShaped
        /\ returned' \in 1 .. Len(key)
        /\ scan' \in 1 .. NumNodes /\ inum' \in 1 .. Order
        /\ returned' = Order * (scan' - 1) + inum'
        /\ key' = key /\ id' = id /\ back' = back /\ root' = root
    BY <1>4, NextEntryIs DEF chain
  <2>2. ChainOK' /\ NumNodes' = NumNodes
    BY <1>1, <2>1, ChainStays
  <2>3. Slots' = Slots /\ Taken' = Taken
    BY <2>1 DEF Slots, Taken
  <2>4. scan' # 0
    BY <2>1
  <2>5. ScanShaped'
    BY <2>1, <2>3, <2>4 DEF ScanShaped
  <2>6. NumNodes \in Nat /\ Len(key) \in Nat /\ Order \in Nat
    BY <1>1, OrderAssumption DEF ChainOK
  <2>7. scan' \in 0 .. NumNodes' /\ inum' \in 0 .. Order
    BY <2>1, <2>2, <2>6
  <2>8. returned' \in 0 .. Len(key')
    <3>1. returned' \in 1 .. Len(key)
      BY <2>1, Zenon
    <3>2. returned' \in 0 .. Len(key)
      BY <2>6, <3>1
    <3> QED
      BY <2>1, <3>2, Zenon
  <2>9. ScanOK'
    BY <2>5, <2>7, <2>8, Zenon DEF ScanOK
  <2> QED
    BY <1>2, <2>2, <2>9, PartsNext
<1> QED
  BY <1>3, <1>4

LEMMA closeTreeScanKeeps ==
  ASSUME IInv, up = "running", closeTreeScan
  PROVE  IInv'
<1>1. FlagsOK /\ ChainOK /\ ScanOK
  BY Parts
<1>2. FlagsOK'
  BY <1>1 DEF FlagsOK, closeTreeScan
<1>3. key' = key /\ id' = id /\ back' = back /\ root' = root /\ scan' = 0 /\ inum' = 0 /\ returned' = 0
  BY DEF closeTreeScan, chain
<1>4. ChainOK' /\ NumNodes' = NumNodes
  BY <1>1, <1>3, ChainStays
<1>5. 0 \in 0 .. Order /\ NumNodes \in Nat /\ Len(key) \in Nat
  BY <1>1, OrderAssumption DEF ChainOK
<1>6. ScanOK'
  BY <1>3, <1>4, <1>5, ScanClosed
<1> QED
  BY <1>2, <1>4, <1>6, PartsNext

LEMMA NextKeeps == IInv /\ [Next]_vars => IInv'
<1> SUFFICES ASSUME IInv, [Next]_vars PROVE IInv'
  OBVIOUS
<1>1. FlagsOK
  BY Parts
<1>2. CASE UNCHANGED vars
  <2>1. Only /\ FlagsOK'
    BY <1>1, <1>2 DEF Only, FlagsOK, vars
  <2> QED
    BY <2>1, OnlyKeeps
<1>3. ASSUME Next, up = "running" PROVE IInv'
  <2>1. CASE createBtree
    BY <1>3, <2>1, createBtreeKeeps
  <2>2. CASE openBtree
    BY <1>1, <2>2, OnlyKeeps DEF openBtree, Only, FlagsOK
  <2>3. CASE closeBtree
    BY <1>3, <2>3, closeBtreeKeeps
  <2>4. CASE deleteBtree
    BY <1>1, <2>4, OnlyKeeps DEF deleteBtree, Only, FlagsOK
  <2>5. CASE UseAfterFree
    BY <1>1, <2>5, OnlyKeeps DEF UseAfterFree, Only, FlagsOK
  <2>6. ASSUME NEW k \in Keys, NEW r \in RIDs, insertKey(k, r) PROVE IInv'
    BY <1>3, <2>6, insertKeyKeeps
  <2>7. ASSUME NEW k \in Keys, deleteKey(k) PROVE IInv'
    BY <1>3, <2>7, deleteKeyKeeps
  <2>8. ASSUME NEW k \in Keys, findKey(k) PROVE IInv'
    BY <1>1, <2>8, OnlyKeeps DEF findKey, Hang, Only, FlagsOK
  <2>9. CASE getNumEntries
    BY <1>1, <2>9, OnlyKeeps DEF getNumEntries, Hang, Only, FlagsOK
  <2>10. CASE openTreeScan
    BY <1>3, <2>10, openTreeScanKeeps
  <2>11. CASE nextEntry
    BY <1>3, <2>11, nextEntryKeeps
  <2>12. CASE closeTreeScan
    BY <1>3, <2>12, closeTreeScanKeeps
  <2> QED
    BY <1>3, <2>1, <2>2, <2>3, <2>4, <2>5, <2>6, <2>7, <2>8, <2>9, <2>10, <2>11, <2>12 DEF Next
<1> QED
  BY <1>2, <1>3 DEF Next

THEOREM Invariance == Spec => []IInv
BY InitHolds, NextKeeps, PTL DEF Spec

(* The chain and the scan keep their shape: the chain has whole nodes, the scan is
   at one of them, and has returned no more entries than there are. *)
THEOREM TypesCorrect == Spec => []TypeOK
<1>1. IInv => TypeOK
  BY DEF IInv
<1> QED
  BY Invariance, <1>1, PTL

-----------------------------------------------------------------------------
(* Scans. *)

LEMMA EntryInPlace ==
  ASSUME key \in Seq(Int), Taken = Slots, NEW s \in Slots, \A t, u \in Slots : t <= u => key[t] <= key[u]
  PROVE  s \in InPlace(s)
<1> DEFINE less == {t \in Taken : key[t] < key[s]}
           upto == {t \in Taken : key[t] <= key[s]}
<1>1. Slots = 1 .. Len(key) /\ Len(key) \in Nat /\ s \in Nat /\ 1 <= s /\ s <= Len(key)
  BY SlotsFinite
<1>2. \A t \in Slots : t \in Nat /\ key[t] \in Int
  BY <1>1
<1>3. less \in SUBSET Slots /\ upto \in SUBSET Slots
  OBVIOUS
<1>4. /\ IsFiniteSet(less) /\ Cardinality(less) \in Nat
      /\ IsFiniteSet(upto) /\ Cardinality(upto) \in Nat
  BY <1>3, SlotsFinite
<1>5. /\ IsFiniteSet(1 .. s) /\ Cardinality(1 .. s) = s
      /\ IsFiniteSet(1 .. s - 1) /\ Cardinality(1 .. s - 1) = s - 1
  <2>1. 1 \in Int /\ s \in Int /\ s - 1 \in Int /\ s >= 1
    BY <1>1
  <2>2. IsFiniteSet(1 .. s) /\ Cardinality(1 .. s) = IF 1 > s THEN 0 ELSE s - 1 + 1
    BY <2>1, FS_Interval
  <2>3. IsFiniteSet(1 .. s - 1) /\ Cardinality(1 .. s - 1) = IF 1 > s - 1 THEN 0 ELSE (s - 1) - 1 + 1
    BY <2>1, FS_Interval
  <2> QED
    BY <2>1, <2>2, <2>3
<1>6. less \in SUBSET (1 .. s - 1)
  <2>1. ASSUME NEW t \in less PROVE t \in 1 .. s - 1
    <3>1. t \in Slots /\ key[t] < key[s]
      BY <1>3
    <3>2. ~(s <= t)
      BY <1>2, <3>1
    <3> QED
      BY <1>1, <3>1, <3>2
  <2> QED
    BY <2>1
<1>7. 1 .. s \in SUBSET upto
  <2>1. ASSUME NEW t \in 1 .. s PROVE t \in upto
    <3>1. t \in Slots /\ t <= s
      BY <1>1
    <3> QED
      BY <3>1
  <2> QED
    BY <2>1
<1> HIDE DEF less, upto
<1>8. Cardinality(less) <= s - 1
  BY <1>5, <1>6, FS_Subset
<1>9. s <= Cardinality(upto)
  <2>1. Cardinality(1 .. s) <= Cardinality(upto)
    BY <1>4, <1>7, FS_Subset
  <2> QED
    BY <1>5, <2>1
<1> QED
  BY <1>1, <1>4, <1>8, <1>9 DEF InPlace, less, upto

(* A scan that ends is at the last node. *)
LEMMA EndIsLast ==
  ASSUME IInv, nextEntry, NextNode = 0
  PROVE  returned + Order >= Cardinality(Taken)
<1>1. ChainOK /\ ScanOK
  BY Parts
<1>2. /\ Order \in 1 .. 3 /\ NumNodes \in Nat /\ Len(key) = Order * NumNodes
      /\ scan \in 0 .. NumNodes /\ scan # 0 /\ inum \in 0 .. Order
      /\ returned = Order * (scan - 1) + inum /\ Taken = Slots
  BY <1>1, OrderAssumption DEF ChainOK, ScanOK, ScanShaped, nextEntry
<1>3. scan = NumNodes
  BY <1>2 DEF NextNode
<1>4. Cardinality(Taken) = Order * NumNodes
  BY <1>1, <1>2, SlotsFinite DEF ChainOK
<1>5. returned + Order >= Order * NumNodes
  <2>1. CASE Order = 1
    BY <1>2, <1>3, <2>1
  <2>2. CASE Order = 2
    BY <1>2, <1>3, <2>2
  <2>3. CASE Order = 3
    BY <1>2, <1>3, <2>3
  <2> QED
    BY <1>2, <2>1, <2>2, <2>3
<1> QED
  BY <1>4, <1>5

(* A scan returns the entries in the order of their keys, each at its place: sorted
   once, the chain is left alone until closeTreeScan, and the cursor is at the node and
   slot that the number of returned entries says.  It ends in no node but the last. *)
THEOREM ScansAreSorted == Spec => ScanInOrder
<1>1. ASSUME IInv, nextEntry, answer' # NoMore
      PROVE  answer' \in {id[s] : s \in InPlace(returned + 1)}
  <2>1. ChainOK
    BY <1>1, Parts
  <2>2. /\ scan # 0 /\ ScanShaped /\ returned' = returned + 1
        /\ returned' \in 1 .. Len(key) /\ answer' = id[returned']
    BY <1>1, NextEntryIs
  <2>3. Taken = Slots /\ (\A t, u \in Slots : t <= u => key[t] <= key[u]) /\ key \in Seq(Int)
    BY <2>1, <2>2 DEF ScanShaped, ChainOK
  <2>4. returned' \in Slots
    BY <2>2, <2>3 DEF Slots
  <2>5. returned' \in InPlace(returned')
    BY <2>3, <2>4, EntryInPlace
  <2> QED
    BY <2>2, <2>5
<1>2. ASSUME IInv, nextEntry, answer' = NoMore
      PROVE  returned + Order >= Cardinality(Taken)
  <2>1. NextNode = 0
    <3> SUFFICES ASSUME NextNode # 0 PROVE FALSE
      BY <1>2
    <3>1. returned' \in 1 .. Len(key) /\ answer' = id[returned']
      BY <1>2, NextEntryIs
    <3>2. answer' \in RIDs \cup {NoRID}
      <4>1. ChainOK
        BY <1>2, Parts
      <4> QED
        BY <3>1, <4>1 DEF ChainOK
    <3> QED
      BY <1>2, <3>2, AnswersAssumption
  <2> QED
    BY <1>2, <2>1, EndIsLast
<1>3. ASSUME IInv, nextEntry
      PROVE  IF answer' = NoMore THEN returned + Order >= Cardinality(Taken)
             ELSE answer' \in {id[s] : s \in InPlace(returned + 1)}
  BY <1>1, <1>2, <1>3
<1> QED
  BY Invariance, <1>3, PTL DEF ScanInOrder

-----------------------------------------------------------------------------
(* Insertions and deletions. *)

(* The entries of the other keys stay where they are. *)
LEMMA InsertionKeepsFound ==
  ASSUME IInv, NEW k \in Keys, NEW r \in RIDs, Inserts(k, r), NEW other \in Keys, other # k
  PROVE  Found(key', id', other) = Found(key, id, other)
<1> DEFINE f == With(key, k, 0)
<1>1. ChainOK /\ TypeOK
  BY Parts DEF IInv
<1>2. /\ key \in Seq(Int) /\ id \in Seq(RIDs \cup {NoRID}) /\ Len(id) = Len(key)
      /\ DOMAIN key = 1 .. Len(key) /\ DOMAIN id = DOMAIN key /\ Len(key) \in Nat /\ Order \in Nat
      /\ k # 0 /\ other # 0 /\ other \in Int /\ k \in Int
  BY <1>1, KeysAssumption, OrderAssumption DEF ChainOK
<1>3. /\ key' \in Seq(Int) /\ f \in Seq(Int) /\ PutIn(key, f, k, 0) /\ PutIn(id, id', r, NoRID)
      /\ Len(key') = (IF LastNodeFull THEN Len(key) + Order ELSE Len(key))
      /\ key' = f \/ Parent(f, key')
  BY <1>1, InsertedIs
<1> HIDE DEF f
<1>4. \A s \in FreeSlots : key[s] = 0
  BY <1>2, FreeSlotsIs
<1>5. \A s \in DOMAIN key : key'[s] = IF s \in FreeSlots THEN k ELSE key[s]
  BY <1>3 DEF PutIn, Parent
<1>6. \A s \in DOMAIN key : id'[s] = IF s \in FreeSlots THEN r ELSE id[s]
  BY <1>2, <1>3 DEF PutIn
<1>7. ASSUME NEW s \in DOMAIN f, f[s] = other PROVE \E t \in DOMAIN key : key[t] = other
  <2>1. CASE s \in DOMAIN key
    <3>1. f[s] = IF s \in FreeSlots THEN k ELSE key[s]
      BY <1>3, <2>1 DEF PutIn
    <3> QED
      BY <1>7, <2>1, <3>1
  <2>2. CASE s \notin DOMAIN key
    <3>1. LastNodeFull /\ (s = Len(key) + 1 \/ s \in Len(key) + 2 .. Len(key) + Order)
      <4>1. s \in 1 .. Len(f) /\ ~(s \in 1 .. Len(key))
        BY <1>2, <1>3, <2>2
      <4>2. Len(f) = IF LastNodeFull THEN Len(key) + Order ELSE Len(key)
        BY <1>3 DEF PutIn
      <4> QED
        BY <1>2, <4>1, <4>2
    <3>2. f[s] = k \/ f[s] = 0
      BY <1>3, <3>1 DEF PutIn
    <3> QED
      BY <1>2, <1>7, <3>2
  <2> QED
    BY <2>1, <2>2
<1>8. (\E s \in DOMAIN key' : key'[s] = other) => \E s \in DOMAIN key : key[s] = other
  <2>1. ASSUME NEW s \in DOMAIN key' PROVE \E t \in DOMAIN f : key'[s] = f[t]
    BY <1>3 DEF Parent
  <2> QED
    BY <1>7, <2>1
<1>9. EntryStays(key, key', id, id', other)
  <2>1. Len(key) <= Len(key')
    BY <1>2, <1>3
  <2>2. ASSUME NEW s \in DOMAIN key PROVE (key'[s] = other) = (key[s] = other)
    <3>1. CASE s \in FreeSlots
      BY <1>2, <1>4, <1>5, <3>1
    <3>2. CASE s \notin FreeSlots
      BY <1>5, <3>2
    <3> QED
      BY <3>1, <3>2
  <2>3. ASSUME NEW s \in DOMAIN key, key[s] = other PROVE id'[s] = id[s]
    BY <1>2, <1>4, <1>6, <2>3
  <2> QED
    BY <1>8, <2>1, <2>2, <2>3 DEF EntryStays
<1> QED
  BY <1>2, <1>3, <1>9, FoundStays

LEMMA DeletionKeepsFound ==
  ASSUME IInv, NEW k \in Keys, Deletes(k), NEW other \in Keys, other # k
  PROVE  Found(key', id', other) = Found(key, id, other)
<1>1. ChainOK
  BY Parts
<1>2. /\ key \in Seq(Int) /\ Len(key) \in Nat /\ Slots = DOMAIN key
      /\ other # 0 /\ other \in Int
  BY <1>1, KeysAssumption DEF ChainOK, Slots
<1>3. /\ key' \in Seq(Int) /\ Len(key') = Len(key)
      /\ \A s \in Slots : /\ key'[s] = (IF s \in Firsts(key, k) THEN 0 ELSE key[s])
                          /\ id'[s] = IF s \in Firsts(key, k) THEN NoRID ELSE id[s]
  BY <1>1, DeletedIs
<1>4. \A s \in Firsts(key, k) : key[s] = k
  BY DEF Firsts
<1>5. DOMAIN key' = DOMAIN key
  BY <1>2, <1>3
<1>6. ASSUME NEW s \in DOMAIN key PROVE (key'[s] = other) = (key[s] = other)
  <2>1. CASE s \in Firsts(key, k)
    BY <1>2, <1>3, <1>4, <2>1
  <2>2. CASE s \notin Firsts(key, k)
    BY <1>2, <1>3, <2>2
  <2> QED
    BY <2>1, <2>2
<1>7. ASSUME NEW s \in DOMAIN key, key[s] = other PROVE id'[s] = id[s]
  BY <1>2, <1>3, <1>4, <1>7
<1>8. EntryStays(key, key', id, id', other)
  BY <1>2, <1>3, <1>5, <1>6, <1>7 DEF EntryStays
<1> QED
  BY <1>2, <1>3, <1>8, FoundStays

(* What is found for a key changes only when that key is inserted or deleted, by
   whatever calls clients get there: of insertKey, which fills the first free slot of
   every node and copies keys to a parent, of deleteKey, and of the sort of a scan, which
   moves entries but leaves those of one key in their order. *)
THEOREM OtherKeysStay == Spec => OtherKeysUnmoved
<1> DEFINE Touched(k) == deleteKey(k) \/ \E r \in RIDs : insertKey(k, r)
<1>1. ASSUME IInv, Next, InUse, InUse', NEW k \in Keys, ~Touched(k)
      PROVE  Find(k)' = Find(k)
  <2>1. SUFFICES Found(key', id', k) = Found(key, id, k)
    BY FindIsFound
  <2>2. ChainOK /\ ScanOK /\ TypeOK
    BY <1>1, Parts DEF IInv
  <2>3. ASSUME key' = key, id' = id PROVE Found(key', id', k) = Found(key, id, k)
    BY <2>3
  <2>4. ASSUME NEW l \in Keys, NEW r \in RIDs, insertKey(l, r)
        PROVE  Found(key', id', k) = Found(key, id, k)
    <3>1. CASE Hang
      BY <2>3, <3>1 DEF Hang, chain
    <3>2. CASE Inserts(l, r)
      <4>1. l # k
        BY <1>1, <2>4
      <4> QED
        BY <1>1, <3>2, <4>1, InsertionKeepsFound
    <3> QED
      BY <2>2, <2>4, <3>1, <3>2, InsertKeyIs
  <2>5. ASSUME NEW l \in Keys, deleteKey(l)
        PROVE  Found(key', id', k) = Found(key, id, k)
    <3>1. CASE Hang
      BY <2>3, <3>1 DEF Hang, chain
    <3>2. CASE Deletes(l)
      <4>1. l # k
        BY <1>1, <2>5
      <4> QED
        BY <1>1, <3>2, <4>1, DeletionKeepsFound
    <3>3. Hang \/ Deletes(l)
      BY <2>5 DEF deleteKey, Deletes, Firsts, FirstSlots, Slots
    <3> QED
      BY <3>1, <3>2, <3>3
  <2>6. CASE openTreeScan
    <3>1. CASE Only
      BY <2>3, <3>1 DEF Only, chain
    <3>2. CASE Opens
      <4>1. k \in Int
        BY KeysAssumption
      <4>2. key \in Seq(Int) /\ id \in Seq(RIDs \cup {NoRID}) /\ Len(id) = Len(key)
        BY <2>2 DEF ChainOK
      <4> QED
        BY <3>2, <4>1, <4>2, SortKeepsFound DEF Opens
    <3> QED
      BY <2>6, <3>1, <3>2, OpenTreeScanIs
  <2>7. CASE openBtree \/ deleteBtree \/ UseAfterFree \/ (\E l \in Keys : findKey(l)) \/ getNumEntries
             \/ nextEntry \/ closeTreeScan
    <3>1. key' = key /\ id' = id
      BY <2>7 DEF openBtree, deleteBtree, UseAfterFree, findKey, getNumEntries, nextEntry, closeTreeScan, Hang, chain
    <3> QED
      BY <2>3, <3>1
  <2>8. ~createBtree /\ ~closeBtree
    BY <1>1 DEF createBtree, closeBtree, InUse
  <2> QED
    BY <1>1, <2>4, <2>5, <2>6, <2>7, <2>8 DEF Next
<1>2. ASSUME UNCHANGED vars, NEW k \in Keys PROVE Find(k)' = Find(k)
  BY <1>2, FindIsFound DEF vars, chain
<1>3. IInv /\ [Next]_vars => [InUse /\ InUse' => \A k \in Keys :
          Find(k)' # Find(k) => deleteKey(k) \/ \E r \in RIDs : insertKey(k, r)]_vars
  BY <1>1, <1>2
<1> QED
  BY Invariance, <1>3, PTL DEF Spec, OtherKeysUnmoved

(* Of the slots of k the first has the record id r. *)
FirstHas(f, g, k, r) ==
    /\ \E s \in DOMAIN f : f[s] = k
    /\ \A s \in DOMAIN f : (f[s] = k /\ \A t \in 1 .. s - 1 : f[t] # k) => g[s] = r

LEMMA FoundIsNew ==
  ASSUME NEW f \in Seq(Int), NEW g, NEW k \in Int, NEW r, FirstHas(f, g, k, r)
  PROVE  Found(f, g, k) = r
<1>1. PICK s \in Firsts(f, k) : TRUE
  BY FirstExists DEF FirstHas
<1>2. Found(f, g, k) = g[s]
  BY FirstIsFound
<1>3. g[s] = r
  BY <1>1 DEF Firsts, FirstHas
<1> QED
  BY <1>2, <1>3

(* With a free slot the sixth key is not at the end of a full chain. *)
LEMMA FullChainGrows ==
  ASSUME IInv, Taken = Slots, LastNodeFull, NEW k \in Keys, NEW f \in Seq(Int), PutIn(key, f, k, 0)
  PROVE  Cardinality({s \in DOMAIN f : f[s] # 0}) = Len(key) + 1
<1>1. /\ key \in Seq(Int) /\ Len(key) \in Nat /\ DOMAIN key = 1 .. Len(key) /\ Slots = DOMAIN key
      /\ k # 0 /\ Order \in 1 .. 3
  BY Parts, KeysAssumption, OrderAssumption DEF ChainOK, Slots
<1>2. FreeSlots = {}
  BY FreeSlotsIs, <1>1 DEF Taken
<1>3. Len(f) = Len(key) + Order /\ DOMAIN f = 1 .. Len(key) + Order
  BY <1>1 DEF PutIn
<1>4. ASSUME NEW s \in DOMAIN f PROVE f[s] # 0 <=> s \in 1 .. Len(key) + 1
  <2>1. CASE s \in DOMAIN key
    <3>1. f[s] = key[s] /\ key[s] # 0
      BY <1>1, <1>2, <2>1 DEF PutIn, Taken
    <3> QED
      BY <1>1, <2>1, <3>1
  <2>2. CASE s = Len(key) + 1
    BY <1>1, <2>2 DEF PutIn
  <2>3. CASE s \in Len(key) + 2 .. Len(key) + Order
    <3>1. f[s] = 0
      BY <2>3 DEF PutIn
    <3> QED
      BY <1>1, <2>3, <3>1
  <2> QED
    BY <1>1, <1>3, <2>1, <2>2, <2>3
<1>5. {s \in DOMAIN f : f[s] # 0} = 1 .. Len(key) + 1
  <2>1. 1 .. Len(key) + 1 \subseteq DOMAIN f
    BY <1>1, <1>3
  <2> QED
    BY <1>4, <2>1
<1>6. Cardinality(1 .. Len(key) + 1) = Len(key) + 1
  BY <1>1, FS_Interval
<1> QED
  BY <1>5, <1>6

(* A key that was not in the index is found after its insertion, although insertKey
   puts it into several slots at once and, at the sixth key, lets the last node take
   the keys of others: unless that ties the chain into a ring. *)
THEOREM InsertedKeysAreFound == Spec => InsertedIsFound
<1>1. ASSUME IInv, NEW k \in Keys, NEW r \in RIDs,
             Find(k) = NotFound, insertKey(k, r), up' = "running", back' = 0
      PROVE  Find(k)' = r
  <2> DEFINE f == With(key, k, 0)
  <2>1. ChainOK /\ TypeOK
    BY <1>1, Parts DEF IInv
  <2>2. Inserts(k, r)
    <3>1. ~Hang
      BY <1>1 DEF Hang
    <3> QED
      BY <1>1, <2>1, <3>1, InsertKeyIs
  <2>3. /\ key \in Seq(Int) /\ id \in Seq(RIDs \cup {NoRID}) /\ Len(id) = Len(key)
        /\ DOMAIN key = 1 .. Len(key) /\ DOMAIN id = DOMAIN key /\ Len(key) \in Nat /\ Order \in 1 .. 3
        /\ Slots = DOMAIN key /\ k # 0 /\ k \in Int
        /\ Len(key) = Order * NumNodes /\ NumNodes \in Nat
    BY <2>1, KeysAssumption, OrderAssumption DEF ChainOK, Slots
  <2>4. /\ key' \in Seq(Int) /\ f \in Seq(Int) /\ PutIn(key, f, k, 0) /\ PutIn(id, id', r, NoRID)
        /\ Len(key') = (IF LastNodeFull THEN Len(key) + Order ELSE Len(key))
        /\ key' = f \/ Parent(f, key')
    BY <2>1, <2>2, InsertedIs
  <2>5. ASSUME NEW s \in DOMAIN key PROVE key[s] # k
    <3>1. SUFFICES ASSUME Firsts(key, k) # {} PROVE FALSE
      BY <2>3, FirstExists
    <3>2. PICK t \in Firsts(key, k) : TRUE
      BY <3>1
    <3>3. Found(key, id, k) = id[t] /\ t \in DOMAIN id
      <4>1. t \in DOMAIN key
        BY <3>2 DEF Firsts
      <4>2. Found(key, id, k) = id[t]
        BY <2>3, <3>2, FirstIsFound
      <4> QED
        BY <2>3, <4>1, <4>2
    <3>4. id[t] # NotFound
      BY <2>3, <3>3, AnswersAssumption
    <3> QED
      BY <1>1, <3>3, <3>4, FindIsFound
  <2>6. f = key' \/ (/\ IsSixth(f) /\ LastNodeFull
                     /\ back' = IF Order < 3 THEN Order + 1 ELSE 0)
    BY <2>2 DEF Inserts
  <2> HIDE DEF f
  <2>7. \A s \in DOMAIN key : /\ key'[s] = (IF s \in FreeSlots THEN k ELSE key[s])
                              /\ id'[s] = IF s \in FreeSlots THEN r ELSE id[s]
    BY <2>3, <2>4 DEF PutIn, Parent
  <2>8. \A s \in DOMAIN key : key'[s] = k => id'[s] = r
    BY <2>5, <2>7
  <2>9. LastNodeFull => id'[Len(key) + 1] = r
    BY <2>3, <2>4 DEF PutIn
  <2>10. DOMAIN key' = 1 .. Len(key')
    BY <2>4
  <2>11. CASE FreeSlots # {}
    <3>1. PICK m \in FreeSlots : m \in DOMAIN key /\ key'[m] = k
      BY <2>3, <2>7, <2>11, FreeSlotsIs
    <3>2. m \in DOMAIN key'
      BY <2>3, <2>4, <2>10, <3>1
    <3>3. ASSUME NEW s \in DOMAIN key', key'[s] = k, \A t \in 1 .. s - 1 : key'[t] # k
          PROVE  id'[s] = r
      <4>1. ~(m < s)
        BY <2>3, <2>10, <3>1, <3>3
      <4>2. s \in DOMAIN key
        BY <2>3, <2>10, <3>1, <4>1
      <4> QED
        BY <2>8, <3>3, <4>2
    <3>4. Found(key', id', k) = r
      <4>1. \E s \in DOMAIN key' : key'[s] = k
        BY <3>1, <3>2
      <4>2. \A s \in DOMAIN key' : (key'[s] = k /\ \A t \in 1 .. s - 1 : key'[t] # k) => id'[s] = r
        BY <3>3
      <4>3. key' \in Seq(Int) /\ k \in Int
        BY <2>3, <2>4
      <4>4. FirstHas(key', id', k, r)
        BY <4>1, <4>2, Zenon DEF FirstHas
      <4> QED
        BY <4>3, <4>4, FoundIsNew
    <3> QED
      BY <3>4, FindIsFound
  <2>12. CASE FreeSlots = {}
    <3>1. LastNodeFull /\ Taken = Slots
      BY <2>3, <2>12, FreeSlotsIs
    <3>2. key' = f
      <4>1. SUFFICES ASSUME IsSixth(f), Order = 3 PROVE FALSE
        BY <1>1, <2>3, <2>6
      <4>2. Cardinality({s \in DOMAIN f : f[s] # 0}) = Len(key) + 1
        BY <1>1, <2>4, <3>1, FullChainGrows
      <4>3. Len(key) + 1 = 6
        BY <4>1, <4>2 DEF IsSixth
      <4> QED
        BY <2>3, <4>1, <4>3
    <3>3. /\ \A s \in DOMAIN key : key'[s] # k
          /\ key'[Len(key) + 1] = k /\ id'[Len(key) + 1] = r
          /\ \A s \in Len(key) + 2 .. Len(key) + Order : key'[s] # k
      BY <2>3, <2>4, <2>5, <2>7, <2>9, <2>12, <3>1, <3>2 DEF PutIn
    <3>4. Len(key) + 1 \in DOMAIN key' /\ Len(key') = Len(key) + Order
      BY <2>3, <2>4, <2>10, <3>1
    <3>5. ASSUME NEW s \in DOMAIN key', key'[s] = k PROVE id'[s] = r
      BY <2>3, <2>10, <3>3, <3>4, <3>5
    <3>6. Found(key', id', k) = r
      <4>1. \E s \in DOMAIN key' : key'[s] = k
        BY <3>3, <3>4
      <4>2. \A s \in DOMAIN key' : (key'[s] = k /\ \A t \in 1 .. s - 1 : key'[t] # k) => id'[s] = r
        BY <3>5
      <4>3. key' \in Seq(Int) /\ k \in Int
        BY <2>3, <2>4
      <4>4. FirstHas(key', id', k, r)
        BY <4>1, <4>2, Zenon DEF FirstHas
      <4> QED
        BY <4>3, <4>4, FoundIsNew
    <3> QED
      BY <3>6, FindIsFound
  <2> QED
    BY <2>11, <2>12
<1>2. IInv => \A k \in Keys, r \in RIDs :
          Find(k) = NotFound /\ insertKey(k, r) /\ up' = "running" /\ back' = 0 => Find(k)' = r
  BY <1>1
<1> QED
  BY Invariance, <1>2, PTL DEF InsertedIsFound

-----------------------------------------------------------------------------
(* Clients that delete only the last key leave at most the end of the chain free.  With
   more than one key to a node, it does not become a ring.  *)

TidyChain ==
    tidy => \A s \in Slots \ Taken : NodeOf(s) = NumNodes /\ \A t \in Taken : t < s

NoRing == tidy => back = 0

TidyInv == IInv /\ TidyChain /\ NoRing

(* The sixth key of a tidy chain goes to a slot that was free.  *)
LEMMA TidyInsert ==
  ASSUME Order > 1, TidyInv, tidy, NEW k \in Keys, NEW r \in RIDs, Inserts(k, r)
  PROVE  /\ key' = With(key, k, 0) /\ back' = 0
         /\ Order = 2 /\ IsSixth(With(key, k, 0)) => 3 * Order <= Len(With(key, k, 0))
<1> DEFINE f == With(key, k, 0)
<1>1. ChainOK /\ TypeOK /\ IInv /\ TidyChain
  BY Parts DEF TidyInv, IInv
<1>2. /\ key \in Seq(Int) /\ DOMAIN key = 1 .. Len(key) /\ Len(key) \in Nat /\ Slots = DOMAIN key
      /\ Len(key) = Order * NumNodes /\ NumNodes \in Nat /\ Order \in {2, 3}
  BY <1>1, OrderAssumption DEF ChainOK, Slots
<1>3. f \in Seq(Int) /\ PutIn(key, f, k, 0)
  BY <1>1, InsertedIs
<1>4. (key' = f /\ back' = 0) \/ (IsSixth(f) /\ LastNodeFull)
  BY DEF Inserts
<1> HIDE DEF f
<1>5. CASE LastNodeFull
  <2>1. Taken = Slots
    BY <1>1, <1>5 DEF TidyChain, LastNodeFull, Taken
  <2>2. Cardinality({s \in DOMAIN f : f[s] # 0}) = Len(key) + 1
    BY <1>1, <1>3, <1>5, <2>1, FullChainGrows
  <2>3. Len(key) + 1 # 6
    BY <1>2
  <2> QED
    BY <1>4, <2>2, <2>3 DEF IsSixth, f
<1>6. CASE ~LastNodeFull
  <2>1. Len(f) = Len(key) /\ DOMAIN f = Slots
    BY <1>2, <1>3, <1>6 DEF PutIn
  <2>2. Cardinality({s \in DOMAIN f : f[s] # 0}) <= Len(key)
    BY <1>2, <2>1, SlotsFinite
  <2>3. Order = 2 /\ IsSixth(f) => 3 * Order <= Len(f)
    BY <1>2, <2>1, <2>2 DEF IsSixth
  <2> QED
    BY <1>4, <1>6, <2>3 DEF f
<1> QED
  BY <1>5, <1>6

LEMMA TidyChainGrows ==
  ASSUME Order > 1, TidyInv, tidy, NEW k \in Keys, NEW r \in RIDs, Inserts(k, r)
  PROVE  TidyChain'
<1> DEFINE f == With(key, k, 0)
<1>1. ChainOK /\ TypeOK /\ IInv /\ TidyChain
  BY Parts DEF TidyInv, IInv
<1>2. /\ key \in Seq(Int) /\ DOMAIN key = 1 .. Len(key) /\ Len(key) \in Nat /\ Slots = DOMAIN key
      /\ Len(key) = Order * NumNodes /\ NumNodes \in Nat /\ k # 0 /\ Order \in {2, 3}
  BY <1>1, KeysAssumption, OrderAssumption DEF ChainOK, Slots
<1>3. f \in Seq(Int) /\ PutIn(key, f, k, 0) /\ key' = f
  BY <1>1, InsertedIs, TidyInsert
<1> HIDE DEF f
<1>4. \A s \in Slots \ Taken : NodeOf(s) = NumNodes /\ \A t \in Taken : t < s
  BY <1>1 DEF TidyChain
<1>5. Slots' = DOMAIN f /\ DOMAIN f = 1 .. Len(f) /\ NumNodes' = Len(f) \div Order
  BY <1>3 DEF Slots, NumNodes
<1>6. ASSUME NEW s \in Slots' \ Taken'
      PROVE  NodeOf(s) = NumNodes' /\ \A t \in Taken' : t < s
  <2>1. s \in DOMAIN f /\ f[s] = 0
    BY <1>3, <1>5 DEF Taken
  <2>2. CASE LastNodeFull
    <3>1. Taken = Slots /\ FreeSlots = {}
      BY <1>1, <1>2, <2>2, FreeSlotsIs DEF TidyChain, LastNodeFull, Taken
    <3>2. Len(f) = Len(key) + Order /\ f[Len(key) + 1] = k /\ \A t \in DOMAIN key : f[t] = key[t]
      BY <1>3, <2>2, <3>1 DEF PutIn
    <3>3. \A t \in DOMAIN key : f[t] # 0
      BY <1>2, <3>1, <3>2 DEF Taken
    <3>4. s \in Int /\ Len(key) + 1 < s /\ s <= Len(key) + Order
      BY <1>2, <1>5, <2>1, <3>2, <3>3
    <3>5. NodeOf(s) = NumNodes'
      <4>1. NumNodes + 1 \in Nat /\ Order * (NumNodes + 1) = Len(key) + Order
        BY <1>2, Nodes
      <4>2. NodeOf(s) = NumNodes + 1
        BY <1>2, <3>4, <4>1, Nodes
      <4>3. NumNodes' = NumNodes + 1
        BY <1>2, <1>5, <3>2, Nodes
      <4> QED
        BY <4>2, <4>3
    <3>6. ASSUME NEW t \in Taken' PROVE t < s
      <4>1. t \in DOMAIN f /\ f[t] # 0
        BY <1>3, <1>5 DEF Taken
      <4>2. t \in 1 .. Len(key) + Order
        BY <1>5, <3>2, <4>1
      <4>3. t \in DOMAIN key \/ t = Len(key) + 1 \/ t \in Len(key) + 2 .. Len(key) + Order
        BY <1>2, <4>2
      <4>4. t \notin Len(key) + 2 .. Len(key) + Order
        BY <1>3, <2>2, <4>1 DEF PutIn
      <4> QED
        BY <1>2, <3>4, <4>3, <4>4
    <3> QED
      BY <3>5, <3>6
  <2>3. CASE ~LastNodeFull
    <3>1. Len(f) = Len(key) /\ \A t \in DOMAIN key : f[t] = IF t \in FreeSlots THEN k ELSE key[t]
      BY <1>3, <2>3 DEF PutIn
    <3>2. NumNodes' = NumNodes /\ DOMAIN f = Slots
      BY <1>2, <1>5, <3>1
    <3>3. s \in Slots \ Taken /\ s \notin FreeSlots
      BY <1>2, <2>1, <3>1, <3>2 DEF Taken
    <3>4. ASSUME NEW t \in Taken' PROVE t < s
      <4>1. t \in Slots /\ f[t] # 0
        BY <1>3, <1>5, <3>2 DEF Taken
      <4>2. CASE t \in Taken
        BY <1>4, <3>3, <4>2
      <4>3. CASE t \notin Taken
        <5>1. t \in FreeSlots
          BY <1>2, <3>1, <4>1, <4>3 DEF Taken
        <5>2. t <= s
          BY <1>4, <3>3, <4>1, <4>3, <5>1 DEF FreeSlots
        <5>3. t # s /\ t \in Int /\ s \in Int
          BY <1>2, <3>3, <4>1, <5>1
        <5> QED
          BY <5>2, <5>3
      <4> QED
        BY <4>2, <4>3
    <3> QED
      BY <1>4, <3>2, <3>3, <3>4
  <2> QED
    BY <2>2, <2>3
<1> QED
  BY <1>6 DEF TidyChain

LEMMA TidyUnchanged ==
  ASSUME TidyInv, key' = key, tidy' => tidy
  PROVE  TidyChain'
<1>1. Slots' = Slots /\ Taken' = Taken /\ NumNodes' = NumNodes
  BY DEF Slots, Taken, NumNodes
<1>2. TidyChain
  BY DEF TidyInv
<1> QED
  BY <1>1, <1>2 DEF TidyChain

LEMMA TidyDelete ==
  ASSUME TidyInv, NEW k \in Keys, deleteKey(k), Deletes(k)
  PROVE  TidyChain'
<1>1. ChainOK /\ TidyChain
  BY Parts DEF TidyInv
<1>2. /\ key' \in Seq(Int) /\ Len(key') = Len(key)
      /\ \A s \in Slots : key'[s] = IF s \in Firsts(key, k) THEN 0 ELSE key[s]
  BY <1>1, DeletedIs
<1>3. /\ key \in Seq(Int) /\ Slots = 1 .. Len(key) /\ Slots' = Slots /\ NumNodes' = NumNodes
  BY <1>1, <1>2 DEF ChainOK, Slots, NumNodes
<1>4. tidy' => tidy /\ \A s \in Firsts(key, k) : NodeOf(s) = NumNodes /\ \A t \in Taken : t <= s
  BY DEF deleteKey, FirstSlots, Firsts, Slots
<1>5. ASSUME tidy', NEW s \in Slots' \ Taken'
      PROVE  NodeOf(s) = NumNodes' /\ \A t \in Taken' : t < s
  <2>1. s \in Slots /\ key'[s] = 0
    BY <1>3 DEF Taken
  <2>2. \A t \in Taken' : t \in Taken /\ t # s
    BY <1>2, <1>3, <2>1 DEF Taken
  <2>3. CASE s \in Firsts(key, k)
    <3>1. NodeOf(s) = NumNodes /\ \A t \in Taken : t <= s
      BY <1>4, <1>5, <2>3
    <3>2. \A t \in Taken : t \in Int
      BY <1>3 DEF Taken
    <3> QED
      BY <1>3, <2>1, <2>2, <3>1, <3>2
  <2>4. CASE s \notin Firsts(key, k)
    <3>1. s \in Slots \ Taken
      BY <1>2, <2>1, <2>4 DEF Taken
    <3> QED
      BY <1>1, <1>3, <1>4, <1>5, <2>2, <3>1 DEF TidyChain
  <2> QED
    BY <2>3, <2>4
<1> QED
  BY <1>5 DEF TidyChain

LEMMA TidyStep ==
  ASSUME Order > 1, TidyInv, Next
  PROVE  TidyChain' /\ NoRing'
<1>1. /\ ChainOK /\ TypeOK /\ IInv /\ TidyChain /\ up = "running"
      /\ NoRing
  BY Parts DEF TidyInv, IInv, Next
<1>2. CASE createBtree
  <2>1. tidy' => key' = [i \in 1 .. Order |-> 0]
    BY <1>2 DEF createBtree
  <2>2. NoRing'
    BY <1>1, <1>2 DEF createBtree, NoRing
  <2>3. ASSUME tidy' PROVE \A s \in Slots' \ Taken' : NodeOf(s) = NumNodes' /\ \A t \in Taken' : t < s
    <3>1. key' = [i \in 1 .. Order |-> 0] /\ Slots' = 1 .. Order /\ NumNodes' = 1
      <4>1. Order \in Nat /\ Order * 1 = Order
        BY OrderAssumption
      <4>2. Len([i \in 1 .. Order |-> 0]) = Order
        BY <4>1
      <4> QED
        BY <2>1, <2>3, <4>1, <4>2, Nodes DEF Slots, NumNodes
    <3>2. Taken' = {}
      BY <3>1 DEF Taken
    <3>3. \A s \in 1 .. Order : NodeOf(s) = 1
      <4>1. Order * 1 = Order /\ Order \in Nat
        BY OrderAssumption
      <4> QED
        BY <4>1, Nodes
    <3> QED
      BY <3>1, <3>2, <3>3
  <2> QED
    BY <2>2, <2>3 DEF TidyChain
<1>3. CASE closeBtree
  <2>1. key' = <<>>
    BY <1>3 DEF closeBtree, Forget
  <2>2. Slots' = {}
    BY <2>1 DEF Slots
  <2> QED
    BY <1>3, <2>2 DEF closeBtree, Forget, TidyChain, NoRing
<1>4. CASE openBtree \/ deleteBtree \/ UseAfterFree \/ nextEntry \/ closeTreeScan
           \/ (\E k \in Keys : findKey(k)) \/ getNumEntries
  <2>1. key' = key /\ tidy' = tidy /\ back' = back
    BY <1>4 DEF openBtree, deleteBtree, UseAfterFree, nextEntry, closeTreeScan, findKey, getNumEntries, Hang, chain
  <2> QED
    BY <1>1, <2>1, TidyUnchanged DEF NoRing
<1>5. ASSUME NEW k \in Keys, NEW r \in RIDs, insertKey(k, r) PROVE TidyChain' /\ NoRing'
  <2>1. tidy' = tidy
    BY <1>5 DEF insertKey
  <2>2. CASE ~tidy
    BY <2>1, <2>2 DEF TidyChain, NoRing
  <2>3. CASE tidy
    <3>1. Inserts(k, r)
      BY <1>1, <1>5, <2>3, InsertKeyIs DEF NoRing, Endless
    <3> QED
      BY <2>3, <3>1, TidyInsert, TidyChainGrows DEF NoRing
  <2> QED
    BY <2>2, <2>3
<1>6. ASSUME NEW k \in Keys, deleteKey(k) PROVE TidyChain' /\ NoRing'
  <2>1. tidy' => tidy
    BY <1>6 DEF deleteKey
  <2>2. CASE ~tidy
    BY <2>1, <2>2 DEF TidyChain, NoRing
  <2>3. CASE tidy
    <3>1. back = 0
      BY <1>1, <2>3 DEF NoRing
    <3>2. Deletes(k)
      BY <1>6, <3>1 DEF deleteKey, Deletes, Endless, FirstSlots, Firsts, Slots
    <3> QED
      BY <1>6, <3>1, <3>2, TidyDelete DEF NoRing, Deletes
  <2> QED
    BY <2>2, <2>3
<1>7. CASE openTreeScan
  <2>1. tidy' => tidy /\ Taken = Slots
    BY <1>7 DEF openTreeScan
  <2>2. CASE ~tidy'
    BY <2>2 DEF TidyChain, NoRing
  <2>3. CASE tidy'
    <3>1. tidy /\ Taken = Slots /\ back = 0
      BY <1>1, <2>1, <2>3 DEF NoRing
    <3>2. Opens
      BY <1>7, <3>1 DEF openTreeScan, Opens, Endless
    <3>3. Taken' = Slots'
      <4>1. IInv'
        BY <1>1, <1>7, openTreeScanKeeps
      <4>2. ScanShaped'
        BY <4>1, PartsNext DEF ScanOK
      <4> QED
        BY <3>2, <4>2 DEF ScanShaped, Opens
    <3> QED
      BY <3>1, <3>2, <3>3 DEF TidyChain, NoRing, Opens
  <2> QED
    BY <2>2, <2>3
<1> QED
  BY <1>2, <1>3, <1>4, <1>5, <1>6, <1>7 DEF Next

THEOREM TidyInvariance ==
  ASSUME Order > 1
  PROVE  Spec => []TidyInv
<1>1. Init => TidyInv
  <2>1. Init => TidyChain /\ NoRing
    <3>1. SUFFICES ASSUME Init PROVE TidyChain /\ NoRing
      OBVIOUS
    <3>2. Slots = {}
      BY <3>1 DEF Init, Slots
    <3> QED
      BY <3>1, <3>2 DEF Init, TidyChain, NoRing
  <2> QED
    BY <2>1, InitHolds DEF TidyInv
<1>2. TidyInv /\ [Next]_vars => TidyInv'
  <2>1. SUFFICES ASSUME TidyInv, [Next]_vars PROVE IInv' /\ TidyChain' /\ NoRing'
    BY DEF TidyInv
  <2>2. IInv'
    BY <2>1, NextKeeps DEF TidyInv
  <2>3. CASE Next
    BY <2>1, <2>2, <2>3, TidyStep
  <2>4. CASE UNCHANGED vars
    <3>1. key' = key /\ tidy' = tidy /\ back' = back
      BY <2>4 DEF vars, chain
    <3> QED
      BY <2>1, <2>2, <3>1, TidyUnchanged DEF TidyInv, NoRing
  <2> QED
    BY <2>1, <2>3, <2>4
<1> QED
  BY <1>1, <1>2, PTL DEF Spec

(* With two keys to a node, clients that delete only the last key, and scan only a full
   chain, never meet a ring in the chain or a node that is not there: the sixth key,
   at which insertKey builds its parent of three, goes to the free half of the third
   node, and the parent is built in memory that nothing points to. *)
THEOREM OnlyReopening ==
  ASSUME Order = 2
  PROVE  Spec => []OnlyReopeningBreaks
<1>0. Order > 1
  OBVIOUS
<1>1. Init => OnlyReopeningBreaks
  BY DEF Init, OnlyReopeningBreaks
<1>2. ASSUME TidyInv, TidyInv', OnlyReopeningBreaks, [Next]_vars PROVE OnlyReopeningBreaks'
  <2>1. SUFFICES ASSUME tidy', up' # "running" PROVE root' = "freed"
    BY <1>2 DEF OnlyReopeningBreaks, TidyInv, NoRing
  <2>2. CASE UNCHANGED vars
    BY <1>2, <2>1, <2>2 DEF OnlyReopeningBreaks, vars
  <2>3. CASE Next
    <3>1. up = "running" /\ IInv /\ TypeOK
      BY <1>2, <2>3 DEF Next, TidyInv, IInv
    <3>2. ~createBtree /\ ~openBtree /\ ~deleteBtree /\ ~nextEntry /\ ~closeTreeScan
      BY <2>1, <3>1 DEF createBtree, openBtree, deleteBtree, nextEntry, closeTreeScan
    <3>3. closeBtree \/ UseAfterFree => root' = "freed"
      BY DEF closeBtree, UseAfterFree
    <3>4. ASSUME tidy PROVE ~Endless
      BY <1>2, <3>4 DEF TidyInv, NoRing, Endless
    <3>5. ~getNumEntries /\ \A k \in Keys : ~findKey(k)
      BY <2>1, <3>1, <3>4 DEF getNumEntries, findKey
    <3>6. \A k \in Keys : ~deleteKey(k)
      BY <2>1, <3>1, <3>4 DEF deleteKey
    <3>7. ~openTreeScan
      <4>1. Order # 1
        OBVIOUS
      <4>2. SUFFICES ASSUME openTreeScan PROVE FALSE
        OBVIOUS
      <4>3. tidy /\ Taken = Slots
        BY <2>1, <4>2, Zenon DEF openTreeScan
      <4> QED
        BY <2>1, <3>1, <3>4, <4>1, <4>2, <4>3 DEF openTreeScan
    <3>8. ASSUME NEW k \in Keys, NEW r \in RIDs, insertKey(k, r) PROVE FALSE
      <4>1. tidy /\ ~Endless
        BY <2>1, <3>4, <3>8 DEF insertKey
      <4>2. IsSixth(With(key, k, 0)) => 3 * Order <= Len(With(key, k, 0))
        <5>1. Inserts(k, r)
          BY <3>1, <3>8, <4>1, InsertKeyIs
        <5> QED
          BY <1>0, <1>2, <4>1, <5>1, TidyInsert
      <4>3. 3 * Order \in Int /\ Len(With(key, k, 0)) \in Int
        BY <3>1, KeyPutIn, OrderAssumption
      <4> QED
        BY <2>1, <3>1, <3>8, <4>1, <4>2, <4>3 DEF insertKey
    <3> QED
      BY <2>3, <3>2, <3>3, <3>5, <3>6, <3>7, <3>8 DEF Next
  <2> QED
    BY <1>2, <2>2, <2>3
<1>3. Spec => []TidyInv
  BY <1>0, TidyInvariance
<1> QED
  BY <1>1, <1>2, <1>3, PTL DEF Spec

-----------------------------------------------------------------------------
(* The slots of a finite set in their order. *)

Rank(S, s) == Cardinality({t \in S : t <= s})

LEMMA RankIs ==
  ASSUME NEW S \in SUBSET Int, IsFiniteSet(S)
  PROVE  /\ IsFiniteSet(S) /\ Cardinality(S) \in Nat
         /\ \A s \in S : Rank(S, s) \in 1 .. Cardinality(S)
         /\ \A s, t \in S : s < t => Rank(S, s) < Rank(S, t)
<1>2. IsFiniteSet(S) /\ Cardinality(S) \in Nat
  BY FS_CardinalityType
<1> DEFINE UpToSlot(s) == {t \in S : t <= s}
<1>3. ASSUME NEW s \in S
      PROVE  /\ IsFiniteSet(UpToSlot(s)) /\ Cardinality(UpToSlot(s)) \in 1 .. Cardinality(S)
             /\ Rank(S, s) = Cardinality(UpToSlot(s))
  <2>1. UpToSlot(s) \in SUBSET S /\ s \in UpToSlot(s)
    <3>1. s \in Int
      OBVIOUS
    <3> QED
      BY <3>1
  <2> HIDE DEF UpToSlot
  <2>2. IsFiniteSet(UpToSlot(s)) /\ Cardinality(UpToSlot(s)) \in Nat
        /\ Cardinality(UpToSlot(s)) <= Cardinality(S)
    BY <1>2, <2>1, FS_Subset, FS_CardinalityType
  <2>3. Cardinality(UpToSlot(s)) # 0
    BY <2>1, <2>2, FS_EmptySet
  <2>4. Rank(S, s) = Cardinality(UpToSlot(s))
    BY DEF Rank, UpToSlot
  <2> QED
    BY <1>2, <2>2, <2>3, <2>4
<1>4. ASSUME NEW s \in S, NEW t \in S, s < t
      PROVE  Cardinality(UpToSlot(s)) < Cardinality(UpToSlot(t))
  <2>1. UpToSlot(s) \in SUBSET UpToSlot(t) /\ t \in UpToSlot(t) /\ t \notin UpToSlot(s)
    <3>1. s \in Int /\ t \in Int /\ \A u \in S : u \in Int
      OBVIOUS
    <3>2. \A u \in S : u <= s => u <= t
      BY <1>4, <3>1
    <3>3. UpToSlot(s) \in SUBSET UpToSlot(t)
      BY <3>2
    <3>4. t \in UpToSlot(t) /\ t \notin UpToSlot(s)
      BY <1>4, <3>1
    <3> QED
      BY <3>3, <3>4
  <2>2. /\ IsFiniteSet(UpToSlot(s)) /\ Cardinality(UpToSlot(s)) \in Int
        /\ IsFiniteSet(UpToSlot(t)) /\ Cardinality(UpToSlot(t)) \in Int
    BY <1>3
  <2> HIDE DEF UpToSlot
  <2>3. UpToSlot(s) # UpToSlot(t)
    BY <2>1
  <2> QED
    BY <2>1, <2>2, <2>3, FS_Subset
<1> HIDE DEF UpToSlot
<1> QED
  BY <1>2, <1>3, <1>4

LEMMA RanksTaken ==
  ASSUME NEW S \in SUBSET Int, IsFiniteSet(S), NEW i \in 1 .. Cardinality(S)
  PROVE  \E s \in S : Rank(S, s) = i
<1> DEFINE T == 1 .. Cardinality(S)
           f == [s \in S |-> Rank(S, s)]
<1>1. Cardinality(S) \in Nat /\ IsFiniteSet(S)
  BY RankIs
<1>2. IsFiniteSet(T) /\ Cardinality(T) = Cardinality(S)
  <2>1. 1 \in Int /\ Cardinality(S) \in Int
    BY <1>1
  <2>2. IsFiniteSet(T) /\ Cardinality(T) = IF 1 > Cardinality(S) THEN 0 ELSE Cardinality(S) - 1 + 1
    BY <2>1, FS_Interval
  <2> QED
    BY <1>1, <2>2
<1>3. f \in [S -> T]
  BY RankIs
<1>4. ASSUME NEW s \in S, NEW t \in S, f[s] = f[t] PROVE s = t
  <2>1. s \in Int /\ t \in Int
    OBVIOUS
  <2>2. Rank(S, s) = Rank(S, t) /\ Rank(S, s) \in Int
    BY <1>1, <1>4, RankIs
  <2>3. ~(s < t) /\ ~(t < s)
    BY <2>2, RankIs
  <2> QED
    BY <2>1, <2>3
<1> HIDE DEF f, T
<1>5. f \in Injection(S, T)
  BY <1>3, <1>4 DEF Injection, IsInjective
<1>6. f \in Surjection(S, T)
  BY <1>2, <1>5, FS_Injection
<1>7. i \in T
  BY DEF T
<1>8. PICK s \in S : f[s] = i
  BY <1>6, <1>7 DEF Surjection
<1> QED
  BY <1>8 DEF f

LEMMA NthIs ==
  ASSUME NEW S \in SUBSET Int, IsFiniteSet(S)
  PROVE  /\ \A i \in 1 .. Cardinality(S) : Nth(S, i) \in S /\ Rank(S, Nth(S, i)) = i
         /\ \A s \in S : Nth(S, Rank(S, s)) = s
<1>1. ASSUME NEW i \in 1 .. Cardinality(S) PROVE Nth(S, i) \in S /\ Rank(S, Nth(S, i)) = i
  <2>1. PICK s \in S : Rank(S, s) = i
    BY RanksTaken
  <2>2. Nth(S, i) = CHOOSE u \in S : Rank(S, u) = i
    BY DEF Nth, Rank
  <2> QED
    BY <2>1, <2>2
<1>2. ASSUME NEW s \in S PROVE Nth(S, Rank(S, s)) = s
  <2> DEFINE t == Nth(S, Rank(S, s))
  <2>1. Rank(S, s) \in 1 .. Cardinality(S) /\ Cardinality(S) \in Nat
    BY RankIs
  <2>2. t \in S /\ Rank(S, t) = Rank(S, s)
    BY <1>1, <2>1
  <2> HIDE DEF t
  <2>3. ~(s < t) /\ ~(t < s)
    BY <2>1, <2>2, RankIs
  <2>4. s = t
    <3>1. s \in Int /\ t \in Int
      BY <2>2
    <3> QED
      BY <2>3, <3>1
  <2> QED
    BY <2>4 DEF t
<1> QED
  BY <1>1, <1>2

(* A slot behind the others comes last. *)
LEMMA NthOfLarger ==
  ASSUME NEW S \in SUBSET Int, IsFiniteSet(S), NEW m \in Int, \A s \in S : s < m
  PROVE  /\ Cardinality(S \cup {m}) = Cardinality(S) + 1
         /\ \A i \in 1 .. Cardinality(S) : Nth(S \cup {m}, i) = Nth(S, i)
         /\ Nth(S \cup {m}, Cardinality(S) + 1) = m
<1> DEFINE T == S \cup {m}
<1>1. T \in SUBSET Int /\ m \in T /\ m \notin S /\ IsFiniteSet(T)
  BY FS_AddElement
<1>2. IsFiniteSet(S) /\ Cardinality(S) \in Nat
  BY RankIs
<1>3. Cardinality(T) = Cardinality(S) + 1
  BY <1>1, <1>2, FS_AddElement
<1>4. ASSUME NEW s \in S PROVE Rank(T, s) = Rank(S, s)
  <2>1. {t \in T : t <= s} = {t \in S : t <= s}
    <3>1. s \in Int /\ ~(m <= s)
      OBVIOUS
    <3> QED
      BY <3>1
  <2> QED
    BY <2>1 DEF Rank
<1>5. Rank(T, m) = Cardinality(S) + 1
  <2>1. {t \in T : t <= m} = T
    <3>1. \A t \in T : t <= m
      <4>1. \A t \in S : t \in Int /\ t < m
        OBVIOUS
      <4> QED
        BY <4>1
    <3> QED
      BY <3>1
  <2> QED
    BY <1>3, <2>1 DEF Rank
<1>6. ASSUME NEW i \in 1 .. Cardinality(S) PROVE Nth(T, i) = Nth(S, i)
  <2>1. Nth(S, i) \in S /\ Rank(S, Nth(S, i)) = i
    BY NthIs
  <2>2. Rank(T, Nth(S, i)) = i /\ Nth(S, i) \in T
    BY <1>4, <2>1
  <2> HIDE DEF T
  <2> QED
    BY <1>1, <2>2, NthIs
<1>7. Nth(T, Cardinality(S) + 1) = m
  <2> HIDE DEF T
  <2> QED
    BY <1>1, <1>5, NthIs
<1> QED
  BY <1>3, <1>6, <1>7

(* Without the first slot the others move up. *)
LEMMA NthOfRest ==
  ASSUME NEW S \in SUBSET Int, IsFiniteSet(S), NEW m \in S, \A s \in S : m <= s
  PROVE  /\ Cardinality(S) \in Nat /\ Cardinality(S) >= 1
         /\ Cardinality(S \ {m}) = Cardinality(S) - 1
         /\ \A i \in 1 .. Cardinality(S) - 1 : Nth(S \ {m}, i) = Nth(S, i + 1)
         /\ Nth(S, 1) = m
<1> DEFINE T == S \ {m}
<1>1. T \in SUBSET Int /\ m \notin T /\ T \in SUBSET S /\ IsFiniteSet(T)
  BY FS_RemoveElement
<1>2. IsFiniteSet(S) /\ Cardinality(S) \in Nat /\ Cardinality(S) >= 1
  <2>1. IsFiniteSet(S) /\ Cardinality(S) \in Nat
    BY RankIs
  <2> QED
    BY <2>1, FS_EmptySet
<1>3. Cardinality(T) = Cardinality(S) - 1
  BY <1>2, FS_RemoveElement
<1>4. ASSUME NEW s \in T PROVE Rank(T, s) = Rank(S, s) - 1
  <2> DEFINE A == {t \in S : t <= s}
  <2>1. {t \in T : t <= s} = A \ {m}
    OBVIOUS
  <2>2. m \in A /\ A \in SUBSET S
    OBVIOUS
  <2> HIDE DEF A
  <2>3. IsFiniteSet(A)
    BY <1>2, <2>2, FS_Subset
  <2>4. Cardinality(A \ {m}) = Cardinality(A) - 1
    BY <2>2, <2>3, FS_RemoveElement
  <2>5. Rank(S, s) = Cardinality(A)
    BY DEF Rank, A
  <2> QED
    BY <2>1, <2>4, <2>5 DEF Rank
<1>5. Rank(S, m) = 1
  <2>1. {t \in S : t <= m} = {m}
    <3>1. \A t \in S : t \in Int /\ m \in Int /\ m <= t
      OBVIOUS
    <3>2. \A t \in S : t <= m <=> t = m
      BY <3>1
    <3> QED
      BY <3>2
  <2>2. Cardinality({m}) = 1
    BY FS_Singleton
  <2> QED
    BY <2>1, <2>2 DEF Rank
<1>6. ASSUME NEW i \in 1 .. Cardinality(S) - 1 PROVE Nth(T, i) = Nth(S, i + 1)
  <2>0. i \in 1 .. Cardinality(T)
    BY <1>3
  <2> HIDE DEF T
  <2>1. Nth(T, i) \in T /\ Rank(T, Nth(T, i)) = i
    BY <1>1, <2>0, NthIs
  <2>2. Nth(T, i) \in S /\ Rank(S, Nth(T, i)) \in 1 .. Cardinality(S)
    BY <1>1, <2>1, RankIs
  <2>3. Rank(S, Nth(T, i)) = i + 1
    BY <1>2, <1>4, <2>1, <2>2
  <2> QED
    BY <2>2, <2>3, NthIs
<1>7. Nth(S, 1) = m
  BY <1>5, NthIs
<1> QED
  BY <1>2, <1>3, <1>6, <1>7

(* A move that keeps the order of the slots keeps their ranks. *)
LEMMA NthOfImage ==
  ASSUME NEW S \in SUBSET Int, IsFiniteSet(S), NEW T \in SUBSET Int, IsFiniteSet(T), NEW f \in [S -> T],
         \A s, t \in S : s < t => f[s] < f[t], \A u \in T : \E s \in S : f[s] = u
  PROVE  /\ Cardinality(T) = Cardinality(S)
         /\ \A i \in 1 .. Cardinality(S) : Nth(T, i) = f[Nth(S, i)]
<1>1. IsFiniteSet(S)
  BY RankIs
<1>2. ASSUME NEW A \in SUBSET S, NEW B \in SUBSET T,
             \A s \in A : f[s] \in B, \A u \in B : \E s \in A : f[s] = u
      PROVE  Cardinality(B) = Cardinality(A)
  <2> DEFINE g == [s \in A |-> f[s]]
  <2>1. g \in [A -> B]
    BY <1>2
  <2>2. ASSUME NEW s \in A, NEW t \in A, g[s] = g[t] PROVE s = t
    <3>1. f[s] = f[t] /\ s \in S /\ t \in S
      BY <2>2
    <3>0. s \in Int /\ t \in Int /\ f[s] \in Int
      BY <3>1
    <3>2. ~(s < t) /\ ~(t < s)
      BY <3>0, <3>1
    <3> QED
      BY <3>0, <3>2
  <2>3. \A u \in B : \E s \in A : g[s] = u
    BY <1>2
  <2> HIDE DEF g
  <2>4. g \in Injection(A, B) /\ g \in Surjection(A, B)
    BY <2>1, <2>2, <2>3 DEF Injection, IsInjective, Surjection
  <2>5. ExistsBijection(A, B)
    BY <2>4 DEF ExistsBijection, Bijection
  <2>6. IsFiniteSet(A)
    BY <1>1, FS_Subset
  <2> QED
    BY <2>5, <2>6, FS_Bijection
<1>3. Cardinality(T) = Cardinality(S)
  BY <1>2
<1>4. ASSUME NEW s \in S PROVE Rank(T, f[s]) = Rank(S, s)
  <2> DEFINE A == {t \in S : t <= s}
             B == {u \in T : u <= f[s]}
  <2>1. ASSUME NEW t \in A PROVE f[t] \in B
    <3>0. t \in S /\ t <= s /\ f[t] \in T /\ f[s] \in T
      OBVIOUS
    <3>1. t \in S /\ t \in Int /\ s \in Int /\ t <= s /\ f[t] \in T /\ f[t] \in Int /\ f[s] \in Int
      BY <3>0
    <3>2. t = s \/ t < s
      BY <3>1
    <3>3. f[t] <= f[s]
      BY <3>1, <3>2
    <3> QED
      BY <3>1, <3>3
  <2>2. ASSUME NEW u \in B PROVE \E t \in A : f[t] = u
    <3>1. PICK t \in S : f[t] = u
      OBVIOUS
    <3>0. f[t] \in T /\ f[s] \in T /\ f[t] <= f[s]
      BY <3>1
    <3>2. t \in Int /\ s \in Int /\ f[t] \in Int /\ f[s] \in Int /\ f[t] <= f[s]
      BY <3>0
    <3>3. ~(s < t)
      BY <3>2
    <3> QED
      BY <3>1, <3>2, <3>3
  <2>3. A \in SUBSET S /\ B \in SUBSET T
    OBVIOUS
  <2>4. Cardinality(B) = Cardinality(A)
    BY <1>2, <2>1, <2>2, <2>3
  <2> QED
    BY <2>4 DEF Rank
<1>5. ASSUME NEW i \in 1 .. Cardinality(S) PROVE Nth(T, i) = f[Nth(S, i)]
  <2>1. Nth(S, i) \in S /\ Rank(S, Nth(S, i)) = i
    BY NthIs
  <2>2. Rank(T, f[Nth(S, i)]) = i /\ f[Nth(S, i)] \in T
    BY <1>4, <2>1
  <2>3. \A u \in T : Nth(T, Rank(T, u)) = u
    BY NthIs
  <2> QED
    BY <2>2, <2>3
<1> QED
  BY <1>3, <1>5

(* The values of g at the slots of S, in the order of the slots. *)
InOrder(S, g) == [i \in 1 .. Cardinality(S) |-> g[Nth(S, i)]]

SlotsIn(S, g, R) == S \in SUBSET Int /\ IsFiniteSet(S) /\ \A s \in S : g[s] \in R

LEMMA InOrderIs ==
  ASSUME NEW S, NEW g, NEW R, SlotsIn(S, g, R)
  PROVE  /\ InOrder(S, g) \in Seq(R)
         /\ Len(InOrder(S, g)) = Cardinality(S) /\ Cardinality(S) \in Nat
         /\ DOMAIN InOrder(S, g) = 1 .. Cardinality(S)
         /\ \A i \in 1 .. Cardinality(S) : InOrder(S, g)[i] = g[Nth(S, i)]
<1>0. S \in SUBSET Int /\ IsFiniteSet(S) /\ \A s \in S : g[s] \in R
  BY DEF SlotsIn
<1>1. Cardinality(S) \in Nat
  BY <1>0, RankIs
<1>2. \A i \in 1 .. Cardinality(S) : g[Nth(S, i)] \in R
  BY <1>0, NthIs
<1>3. InOrder(S, g) \in [1 .. Cardinality(S) -> R]
  BY <1>2 DEF InOrder
<1>4. InOrder(S, g) \in Seq(R) /\ Len(InOrder(S, g)) = Cardinality(S)
  BY <1>1, <1>3
<1> QED
  BY <1>1, <1>3, <1>4 DEF InOrder

LEMMA InOrderSame ==
  ASSUME NEW S \in SUBSET Int, IsFiniteSet(S), NEW g, NEW h, \A s \in S : h[s] = g[s]
  PROVE  InOrder(S, h) = InOrder(S, g)
<1>1. \A i \in 1 .. Cardinality(S) : h[Nth(S, i)] = g[Nth(S, i)]
  BY NthIs
<1> QED
  BY <1>1 DEF InOrder

(* In h the slot m comes behind the slots of S. *)
Behind(S, g, m, h) == \A s \in S : s < m /\ h[s] = g[s]
Longer(b, a, r) == b = Append(a, r)

LEMMA InOrderAppended ==
  ASSUME NEW S, NEW R, NEW g, SlotsIn(S, g, R), NEW m \in Int, NEW h, h[m] \in R, Behind(S, g, m, h)
  PROVE  Longer(InOrder(S \cup {m}, h), InOrder(S, g), h[m])
<1>0. /\ S \in SUBSET Int /\ IsFiniteSet(S) /\ (\A s \in S : g[s] \in R)
      /\ \A s \in S : s < m /\ h[s] = g[s]
  BY DEF SlotsIn, Behind
<1> DEFINE T == S \cup {m}
           n == Cardinality(S)
           a == InOrder(S, g)
           b == InOrder(T, h)
<1>1. T \in SUBSET Int /\ IsFiniteSet(T)
  BY <1>0, FS_AddElement
<1>2. Cardinality(T) = n + 1 /\ Nth(T, n + 1) = m /\ \A i \in 1 .. n : Nth(T, i) = Nth(S, i)
  BY <1>0, NthOfLarger
<1>9. n \in Nat /\ SlotsIn(S, g, R)
  BY <1>0, RankIs DEF SlotsIn
<1>3. a \in Seq(R) /\ Len(a) = n /\ n \in Nat /\ \A i \in 1 .. n : a[i] = g[Nth(S, i)]
  BY <1>9, InOrderIs
<1>4. SlotsIn(T, h, R)
  BY <1>0, <1>1 DEF SlotsIn
<1> HIDE DEF T
<1>5. b \in Seq(R) /\ Len(b) = n + 1 /\ \A i \in 1 .. n + 1 : b[i] = h[Nth(T, i)]
  BY <1>1, <1>2, <1>4, InOrderIs
<1>6. \A i \in 1 .. n : b[i] = a[i]
  <2>1. ASSUME NEW i \in 1 .. n PROVE b[i] = a[i]
    <3>1. Nth(S, i) \in S
      BY <1>0, NthIs
    <3>2. b[i] = h[Nth(T, i)] /\ Nth(T, i) = Nth(S, i)
      BY <1>2, <1>3, <1>5
    <3> QED
      BY <1>0, <1>3, <3>1, <3>2
  <2> QED
    BY <2>1
<1>7. b[n + 1] = h[m]
  BY <1>2, <1>3, <1>5
<1> HIDE DEF a, b, n
<1>8. b = Append(a, h[m])
  BY <1>0, <1>3, <1>5, <1>6, <1>7
<1> QED
  BY <1>8 DEF a, b, T, Longer

LEMMA InOrderHead ==
  ASSUME NEW S \in SUBSET Int, IsFiniteSet(S), NEW R, NEW g, \A s \in S : g[s] \in R,
         NEW m \in S, \A s \in S : m <= s
  PROVE  InOrder(S, g) # <<>> /\ Head(InOrder(S, g)) = g[m]
<1> DEFINE a == InOrder(S, g)
<1>1. Cardinality(S) \in Nat /\ Cardinality(S) >= 1 /\ Nth(S, 1) = m
  BY NthOfRest
<1>2. SlotsIn(S, g, R)
  BY DEF SlotsIn
<1>3. a \in Seq(R) /\ Len(a) = Cardinality(S) /\ a[1] = g[m]
  BY <1>1, <1>2, InOrderIs
<1> HIDE DEF a
<1>4. a # <<>> /\ Head(a) = g[m]
  BY <1>1, <1>3
<1> QED
  BY <1>4 DEF a

LEMMA InOrderRemoved ==
  ASSUME NEW S \in SUBSET Int, IsFiniteSet(S), NEW R, NEW g, \A s \in S : g[s] \in R,
         NEW m \in S, \A s \in S : m <= s, NEW h, \A s \in S \ {m} : h[s] = g[s]
  PROVE  /\ InOrder(S, g) # <<>> /\ Head(InOrder(S, g)) = g[m]
         /\ InOrder(S \ {m}, h) = Tail(InOrder(S, g))
<1> DEFINE T == S \ {m}
           n == Cardinality(S)
           a == InOrder(S, g)
           b == InOrder(T, h)
<1>1. T \in SUBSET Int /\ IsFiniteSet(T)
  BY FS_RemoveElement
<1>2. n \in Nat /\ n >= 1 /\ Cardinality(T) = n - 1 /\ Nth(S, 1) = m
      /\ \A i \in 1 .. n - 1 : Nth(T, i) = Nth(S, i + 1)
  BY NthOfRest
<1>3. a \in Seq(R) /\ Len(a) = n /\ \A i \in 1 .. n : a[i] = g[Nth(S, i)]
  <2>1. SlotsIn(S, g, R)
    BY DEF SlotsIn
  <2> QED
    BY <2>1, InOrderIs
<1>4. SlotsIn(T, h, R)
  BY <1>1 DEF SlotsIn
<1>5. \A s \in T : h[s] = g[s]
  OBVIOUS
<1> HIDE DEF T
<1>6. b \in Seq(R) /\ Len(b) = n - 1 /\ \A i \in 1 .. n - 1 : b[i] = h[Nth(T, i)] /\ Nth(T, i) \in T
  <2>1. b \in Seq(R) /\ Len(b) = n - 1 /\ \A i \in 1 .. n - 1 : b[i] = h[Nth(T, i)]
    BY <1>1, <1>2, <1>4, InOrderIs
  <2>2. \A i \in 1 .. n - 1 : Nth(T, i) \in T
    BY <1>1, <1>2, NthIs
  <2> QED
    BY <2>1, <2>2
<1>7. \A i \in 1 .. n - 1 : b[i] = a[i + 1]
  BY <1>2, <1>3, <1>5, <1>6
<1>8. a[1] = g[m]
  BY <1>2, <1>3
<1> HIDE DEF a, b, n
<1>9. a # <<>> /\ Head(a) = g[m] /\ b = Tail(a)
  <2>1. a # <<>> /\ Head(a) = g[m]
    BY <1>2, <1>3, <1>8
  <2>2. Tail(a) \in Seq(R) /\ Len(Tail(a)) = n - 1 /\ \A i \in 1 .. n - 1 : Tail(a)[i] = a[i + 1]
    BY <1>2, <1>3
  <2>3. b = Tail(a)
    BY <1>2, <1>6, <1>7, <2>2
  <2> QED
    BY <2>1, <2>3
<1> QED
  BY <1>9 DEF a, b, T

LEMMA InOrderMoved ==
  ASSUME NEW S \in SUBSET Int, IsFiniteSet(S), NEW T \in SUBSET Int, IsFiniteSet(T), NEW f \in [S -> T],
         \A s, t \in S : s < t => f[s] < f[t], \A u \in T : \E s \in S : f[s] = u,
         NEW g, NEW h, \A s \in S : h[f[s]] = g[s]
  PROVE  InOrder(T, h) = InOrder(S, g)
<1>1. Cardinality(T) = Cardinality(S) /\ \A i \in 1 .. Cardinality(S) : Nth(T, i) = f[Nth(S, i)]
  BY NthOfImage
<1>2. \A i \in 1 .. Cardinality(S) : h[Nth(T, i)] = g[Nth(S, i)]
  BY <1>1, NthIs
<1> QED
  BY <1>1, <1>2 DEF InOrder

-----------------------------------------------------------------------------
(* The record ids of the keys.  Tidy clients meet no key but their own.  *)

KnownKeys == tidy => \A s \in Slots : key[s] \in Keys \cup {0}

KInv == TidyInv /\ KnownKeys

Rids == [k \in Keys |-> RIDsOf(k)]

LEMMA RIDsOfIs ==
  ASSUME NEW k
  PROVE  RIDsOf(k) = InOrder(SlotsOf(k), id) /\ RIDsOf(k)' = InOrder(SlotsOf(k)', id')
BY DEF RIDsOf, InOrder, Nth

LEMMA SlotsOfIs ==
  ASSUME ChainOK, NEW k
  PROVE  /\ SlotsOf(k) \in SUBSET Int /\ IsFiniteSet(SlotsOf(k))
         /\ \A s \in SlotsOf(k) : id[s] \in RIDs \cup {NoRID}
         /\ SlotsIn(SlotsOf(k), id, RIDs \cup {NoRID})
<1>1. /\ key \in Seq(Int) /\ id \in Seq(RIDs \cup {NoRID}) /\ Len(id) = Len(key)
      /\ Slots = 1 .. Len(key)
  BY DEF ChainOK, Slots
<1>2. SlotsOf(k) \in SUBSET Slots
  BY DEF SlotsOf
<1>3. SlotsOf(k) \in SUBSET Int /\ IsFiniteSet(SlotsOf(k))
  BY <1>1, <1>2, SlotsFinite
<1>4. \A s \in SlotsOf(k) : id[s] \in RIDs \cup {NoRID}
  <2>1. \A s \in Slots : id[s] \in RIDs \cup {NoRID}
    BY <1>1
  <2> QED
    BY <1>2, <2>1
<1> QED
  BY <1>3, <1>4 DEF SlotsIn

LEMMA InOrderOfNone ==
  ASSUME NEW g
  PROVE  InOrder({}, g) = <<>>
<1>1. Cardinality({}) = 0
  BY FS_EmptySet
<1> QED
  BY <1>1 DEF InOrder

(* An insertion of a tidy client makes one new entry, behind all the others. *)
NewEntry(m, k, r) ==
    /\ m \in Int /\ m \in DOMAIN key' /\ key'[m] = k /\ id'[m] = r
    /\ \A t \in Taken : t < m /\ t \in DOMAIN key' /\ key'[t] = key[t] /\ id'[t] = id[t]
    /\ \A s \in DOMAIN key' : s \in Taken \/ s = m \/ key'[s] = 0

LEMMA OneNewEntry ==
  ASSUME Order > 1, TidyInv, tidy, NEW k \in Keys, NEW r \in RIDs, Inserts(k, r)
  PROVE  \E m : NewEntry(m, k, r)
<1> DEFINE f == With(key, k, 0)
<1>1. ChainOK /\ TypeOK /\ IInv /\ TidyChain
  BY Parts DEF TidyInv, IInv
<1>2. /\ key \in Seq(Int) /\ DOMAIN key = 1 .. Len(key) /\ Len(key) \in Nat /\ Slots = DOMAIN key
      /\ id \in Seq(RIDs \cup {NoRID}) /\ Len(id) = Len(key) /\ DOMAIN id = DOMAIN key
      /\ Order \in {2, 3} /\ NumNodes \in Nat
  BY <1>1, OrderAssumption DEF ChainOK, Slots
<1>3. f \in Seq(Int) /\ PutIn(key, f, k, 0) /\ PutIn(id, id', r, NoRID) /\ key' = f
  BY <1>1, InsertedIs, TidyInsert
<1> HIDE DEF f
<1>4. \A s \in Slots \ Taken : NodeOf(s) = NumNodes /\ \A t \in Taken : t < s
  BY <1>1 DEF TidyChain
<1>5. /\ \A s \in DOMAIN key : key'[s] = IF s \in FreeSlots THEN k ELSE key[s]
      /\ \A s \in DOMAIN key : id'[s] = IF s \in FreeSlots THEN r ELSE id[s]
      /\ DOMAIN key' = 1 .. Len(key')
      /\ Len(key') = IF LastNodeFull THEN Len(key) + Order ELSE Len(key)
  BY <1>2, <1>3 DEF PutIn
<1>6. \A s \in FreeSlots : s \in Slots \ Taken
  BY DEF FreeSlots
<1>7. CASE LastNodeFull
  <2>1. Taken = Slots /\ FreeSlots = {}
    BY <1>1, <1>2, <1>7, FreeSlotsIs DEF TidyChain, LastNodeFull, Taken
  <2> DEFINE m == Len(key) + 1
  <2>2. m \in Int /\ m \in DOMAIN key' /\ key'[m] = k /\ id'[m] = r
    BY <1>2, <1>3, <1>5, <1>7 DEF PutIn
  <2>3. \A t \in Taken : t < m /\ t \in DOMAIN key' /\ key'[t] = key[t] /\ id'[t] = id[t]
    BY <1>2, <1>5, <1>7, <2>1
  <2>4. ASSUME NEW s \in DOMAIN key' PROVE s \in Taken \/ s = m \/ key'[s] = 0
    <3>1. s \in DOMAIN key \/ s = m \/ s \in Len(key) + 2 .. Len(key) + Order
      BY <1>2, <1>5, <1>7
    <3>2. s \in Len(key) + 2 .. Len(key) + Order => key'[s] = 0
      BY <1>3, <1>7 DEF PutIn
    <3> QED
      BY <1>2, <2>1, <3>1, <3>2
  <2> HIDE DEF m
  <2> QED
    BY <2>2, <2>3, <2>4 DEF NewEntry
<1>8. CASE ~LastNodeFull
  <2>1. PICK m \in FreeSlots : TRUE
    BY <1>2, <1>8, FreeSlotsIs
  <2>2. m \in Slots \ Taken /\ m \in Int
    BY <1>2, <1>6, <2>1
  <2>3. \A s \in FreeSlots : s = m
    <3>1. ASSUME NEW s \in FreeSlots PROVE s = m
      <4>1. s \in Slots \ Taken /\ s \in Int
        BY <1>2, <1>6
      <4>2. NodeOf(s) = NodeOf(m)
        BY <1>4, <2>2, <4>1
      <4>3. s <= m /\ m <= s
        BY <2>1, <2>2, <4>1, <4>2 DEF FreeSlots
      <4> QED
        BY <2>2, <4>1, <4>3
    <3> QED
      BY <3>1
  <2>4. DOMAIN key' = Slots
    BY <1>2, <1>5, <1>8
  <2>5. m \in Int /\ m \in DOMAIN key' /\ key'[m] = k /\ id'[m] = r
    BY <1>2, <1>5, <2>1, <2>2, <2>4
  <2>6. \A t \in Taken : t < m /\ t \in DOMAIN key' /\ key'[t] = key[t] /\ id'[t] = id[t]
    <3>1. ASSUME NEW t \in Taken PROVE t \in Slots /\ t \notin FreeSlots /\ t < m
      BY <1>4, <1>6, <2>2 DEF Taken
    <3> QED
      BY <1>2, <1>5, <2>4, <3>1
  <2>7. \A s \in DOMAIN key' : s \in Taken \/ s = m \/ key'[s] = 0
    BY <1>2, <1>5, <2>3, <2>4 DEF Taken
  <2> QED
    BY <2>5, <2>6, <2>7 DEF NewEntry
<1> QED
  BY <1>7, <1>8

LEMMA InsertedRIDs ==
  ASSUME Order > 1, TidyInv, tidy, NEW k \in Keys, NEW r \in RIDs, Inserts(k, r)
  PROVE  /\ Longer(RIDsOf(k)', RIDsOf(k), r)
         /\ \A l \in Keys \ {k} : RIDsOf(l)' = RIDsOf(l)
         /\ \A s \in Slots' : key'[s] \in {key[t] : t \in Taken} \cup {k, 0}
<1>1. ChainOK /\ 0 \notin Keys
  BY Parts, KeysAssumption DEF TidyInv
<1>2. PICK m : NewEntry(m, k, r)
  BY OneNewEntry
<1>3. /\ m \in Int /\ m \in DOMAIN key' /\ key'[m] = k /\ id'[m] = r
      /\ \A t \in Taken : t < m /\ t \in DOMAIN key' /\ key'[t] = key[t] /\ id'[t] = id[t]
      /\ \A s \in DOMAIN key' : s \in Taken \/ s = m \/ key'[s] = 0
  BY <1>2 DEF NewEntry
<1>4. ASSUME NEW l \in Keys PROVE \A s \in SlotsOf(l) : s \in Taken
  BY <1>1 DEF SlotsOf, Taken
<1>5. \A s \in Taken : s \in Slots
  BY DEF Taken
<1>6. SlotsOf(k)' = SlotsOf(k) \cup {m}
  BY <1>1, <1>3, <1>4, <1>5 DEF SlotsOf, Slots
<1>7. ASSUME NEW l \in Keys \ {k} PROVE SlotsOf(l)' = SlotsOf(l)
  BY <1>1, <1>3, <1>4, <1>5 DEF SlotsOf, Slots
<1>8. Longer(RIDsOf(k)', RIDsOf(k), r)
  <2>1. Behind(SlotsOf(k), id, m, id')
    BY <1>3, <1>4 DEF Behind
  <2>2. SlotsIn(SlotsOf(k), id, RIDs \cup {NoRID})
    BY <1>1, SlotsOfIs
  <2>3. id'[m] \in RIDs \cup {NoRID} /\ m \in Int /\ id'[m] = r
    BY <1>3
  <2>4. Longer(InOrder(SlotsOf(k) \cup {m}, id'), InOrder(SlotsOf(k), id), id'[m])
    BY <2>1, <2>2, <2>3, InOrderAppended
  <2> QED
    BY <1>6, <2>3, <2>4, RIDsOfIs
<1>9. ASSUME NEW l \in Keys \ {k} PROVE RIDsOf(l)' = RIDsOf(l)
  <2>1. \A s \in SlotsOf(l) : id'[s] = id[s]
    BY <1>3, <1>4
  <2>2. SlotsOf(l) \in SUBSET Int /\ IsFiniteSet(SlotsOf(l))
    BY <1>1, SlotsOfIs
  <2>3. InOrder(SlotsOf(l), id') = InOrder(SlotsOf(l), id)
    BY <2>1, <2>2, InOrderSame
  <2> QED
    BY <1>7, <2>3, RIDsOfIs
<1>10. \A s \in Slots' : key'[s] \in {key[t] : t \in Taken} \cup {k, 0}
  BY <1>3 DEF Slots
<1> QED
  BY <1>8, <1>9, <1>10

LEMMA FirstsIs ==
  ASSUME ChainOK, NEW k \in Keys
  PROVE  /\ SlotsOf(k) = {} <=> Firsts(key, k) = {}
         /\ \A m \in Firsts(key, k) : /\ m \in SlotsOf(k)
                                      /\ \A s \in SlotsOf(k) : m <= s
                                      /\ Firsts(key, k) = {m}
<1>1. key \in Seq(Int) /\ Slots = DOMAIN key /\ DOMAIN key = 1 .. Len(key) /\ Len(key) \in Nat /\ k \in Int
  BY KeysAssumption DEF ChainOK, Slots
<1>2. SlotsOf(k) = {} <=> Firsts(key, k) = {}
  BY <1>1, FirstExists DEF SlotsOf
<1>3. ASSUME NEW m \in Firsts(key, k)
      PROVE  m \in SlotsOf(k) /\ \A s \in SlotsOf(k) : m <= s
  <2>1. m \in SlotsOf(k) /\ m \in Int /\ \A t \in 1 .. m - 1 : key[t] # k
    BY <1>1 DEF Firsts, SlotsOf
  <2>2. ASSUME NEW s \in SlotsOf(k) PROVE m <= s
    <3>1. s \in 1 .. Len(key) /\ s \in Int /\ key[s] = k
      BY <1>1 DEF SlotsOf
    <3>2. s \notin 1 .. m - 1
      BY <2>1, <3>1
    <3> QED
      BY <2>1, <3>1, <3>2
  <2> QED
    BY <2>1, <2>2
<1>4. ASSUME NEW m \in Firsts(key, k) PROVE Firsts(key, k) = {m}
  <2>1. ASSUME NEW n \in Firsts(key, k) PROVE n = m
    <3>1. m <= n /\ n <= m
      BY <1>3
    <3>2. m \in Int /\ n \in Int
      BY <1>1 DEF Firsts
    <3> QED
      BY <3>1, <3>2
  <2> QED
    BY <2>1
<1> QED
  BY <1>2, <1>3, <1>4

LEMMA DeletedRIDs ==
  ASSUME ChainOK, NEW k \in Keys, Deletes(k)
  PROVE  /\ RIDsOf(k)' = IF RIDsOf(k) = <<>> THEN RIDsOf(k) ELSE Tail(RIDsOf(k))
         /\ \A l \in Keys \ {k} : RIDsOf(l)' = RIDsOf(l)
         /\ \A s \in Slots' : s \in Slots /\ key'[s] \in {key[s], 0}
<1>1. /\ key' \in Seq(Int) /\ Len(key') = Len(key) /\ key \in Seq(Int) /\ 0 \notin Keys
      /\ \A s \in Slots : /\ key'[s] = (IF s \in Firsts(key, k) THEN 0 ELSE key[s])
                          /\ id'[s] = IF s \in Firsts(key, k) THEN NoRID ELSE id[s]
  BY DeletedIs, KeysAssumption DEF ChainOK
<1>2. Slots' = Slots
  BY <1>1 DEF Slots
<1>3. \A s \in Firsts(key, k) : key[s] = k /\ s \in Slots
  BY DEF Firsts, Slots
<1>4. ASSUME NEW l \in Keys PROVE \A s \in SlotsOf(l) : s \in Slots /\ key[s] = l /\ l # 0
  BY <1>1 DEF SlotsOf
<1>5. ASSUME NEW l \in Keys PROVE SlotsOf(l)' = SlotsOf(l) \ Firsts(key, k)
  BY <1>1, <1>2 DEF SlotsOf
<1>6. ASSUME NEW l \in Keys PROVE \A s \in SlotsOf(l) \ Firsts(key, k) : id'[s] = id[s]
  BY <1>1, <1>4
<1>7. ASSUME NEW l \in Keys, SlotsOf(l) \cap Firsts(key, k) = {} PROVE RIDsOf(l)' = RIDsOf(l)
  <2>1. SlotsOf(l)' = SlotsOf(l) /\ \A s \in SlotsOf(l) : id'[s] = id[s]
    BY <1>5, <1>6, <1>7
  <2>2. SlotsOf(l) \in SUBSET Int /\ IsFiniteSet(SlotsOf(l))
    BY SlotsOfIs
  <2>3. InOrder(SlotsOf(l), id') = InOrder(SlotsOf(l), id)
    BY <2>1, <2>2, InOrderSame
  <2> QED
    BY <2>1, <2>3, RIDsOfIs
<1>8. \A l \in Keys \ {k} : RIDsOf(l)' = RIDsOf(l)
  <2>1. ASSUME NEW l \in Keys \ {k} PROVE SlotsOf(l) \cap Firsts(key, k) = {}
    BY <1>3, <1>4
  <2> QED
    BY <1>7, <2>1
<1>9. RIDsOf(k)' = IF RIDsOf(k) = <<>> THEN RIDsOf(k) ELSE Tail(RIDsOf(k))
  <2>1. CASE Firsts(key, k) = {}
    <3>1. RIDsOf(k)' = RIDsOf(k)
      BY <1>7, <2>1
    <3>2. SlotsOf(k) = {}
      BY <2>1, FirstsIs
    <3>3. RIDsOf(k) = <<>>
      BY <3>2, RIDsOfIs, InOrderOfNone
    <3> QED
      BY <3>1, <3>3
  <2>2. ASSUME NEW m \in Firsts(key, k)
        PROVE RIDsOf(k)' = IF RIDsOf(k) = <<>> THEN RIDsOf(k) ELSE Tail(RIDsOf(k))
    <3>1. m \in SlotsOf(k) /\ (\A s \in SlotsOf(k) : m <= s) /\ Firsts(key, k) = {m}
      BY FirstsIs
    <3>2. SlotsOf(k)' = SlotsOf(k) \ {m} /\ \A s \in SlotsOf(k) \ {m} : id'[s] = id[s]
      BY <1>5, <1>6, <3>1
    <3>3. /\ SlotsOf(k) \in SUBSET Int /\ IsFiniteSet(SlotsOf(k))
          /\ \A s \in SlotsOf(k) : id[s] \in RIDs \cup {NoRID}
      BY SlotsOfIs
    <3>4. /\ InOrder(SlotsOf(k), id) # <<>>
          /\ InOrder(SlotsOf(k) \ {m}, id') = Tail(InOrder(SlotsOf(k), id))
      BY <3>1, <3>2, <3>3, InOrderRemoved
    <3> QED
      BY <3>2, <3>4, RIDsOfIs
  <2> QED
    BY <2>1, <2>2
<1>10. \A s \in Slots' : s \in Slots /\ key'[s] \in {key[s], 0}
  BY <1>1, <1>2
<1> QED
  BY <1>8, <1>9, <1>10

(* A scan moves the entries, those of one key in their order. *)
LEMMA SortedRIDs ==
  ASSUME ChainOK, Opens, NEW k \in Keys
  PROVE  RIDsOf(k)' = RIDsOf(k)
<1> DEFINE S == SlotsOf(k)
           T == SlotsOf(k)'
           f == [s \in S |-> Place(s)]
<1>1. /\ key \in Seq(Int) /\ id \in Seq(RIDs \cup {NoRID}) /\ Len(id) = Len(key)
      /\ key' = SortedByKey(key) /\ id' = SortedByKey(id)
      /\ Slots = 1 .. Len(key)
  BY DEF ChainOK, Opens, Slots
<1>2. Slots' = Slots
  BY <1>1, SortIs DEF Slots
<1>3. \A i \in Slots : /\ SlotAt(i) \in Slots /\ Place(SlotAt(i)) = i
                        /\ key'[i] = key[SlotAt(i)] /\ id'[i] = id[SlotAt(i)]
  BY <1>1, SlotAtIs
<1>4. ASSUME NEW s \in Slots PROVE Place(s) \in Slots /\ SlotAt(Place(s)) = s
  <2>1. Place(s) \in Slots
    BY <1>1, PlaceOrders
  <2>2. SlotAt(Place(s)) \in Slots /\ Place(SlotAt(Place(s))) = Place(s) /\ Place(s) \in Int
    BY <1>1, <1>3, <2>1
  <2>3. ~Before(SlotAt(Place(s)), s) /\ ~Before(s, SlotAt(Place(s)))
    BY <1>1, <2>2, PlaceOrders
  <2> QED
    BY <1>1, <2>1, <2>2, <2>3, PlaceOrders
<1>5. S = {s \in Slots : key[s] = k} /\ T = {i \in Slots : key[SlotAt(i)] = k}
  BY <1>2, <1>3 DEF SlotsOf
<1>6. S \in SUBSET Int /\ IsFiniteSet(S) /\ T \in SUBSET Int /\ IsFiniteSet(T)
  BY <1>1, <1>5, SlotsFinite
<1>7. f \in [S -> T]
  BY <1>4, <1>5
<1>8. ASSUME NEW s \in S, NEW t \in S, s < t PROVE f[s] < f[t]
  <2>1. s \in Slots /\ t \in Slots /\ Before(s, t)
    BY <1>5, <1>8 DEF Before
  <2> QED
    BY <1>1, <2>1, PlaceOrders
<1>9. ASSUME NEW u \in T PROVE \E s \in S : f[s] = u
  BY <1>3, <1>5
<1>10. \A s \in S : id'[f[s]] = id[s]
  BY <1>3, <1>4, <1>5
<1> HIDE DEF S, T, f
<1>11. InOrder(T, id') = InOrder(S, id)
  BY <1>6, <1>7, <1>8, <1>9, <1>10, InOrderMoved
<1> QED
  BY <1>11, RIDsOfIs DEF S, T

(* What findKey finds is the oldest record id of the key. *)
LEMMA FindIs ==
  ASSUME ChainOK, NEW k \in Keys
  PROVE  Find(k) = IF RIDsOf(k) = <<>> THEN NotFound ELSE Head(RIDsOf(k))
<1>1. CASE Firsts(key, k) = {}
  <2>1. SlotsOf(k) = {}
    BY <1>1, FirstsIs
  <2>2. RIDsOf(k) = <<>>
    BY <2>1, RIDsOfIs, InOrderOfNone
  <2> QED
    BY <1>1, <2>2, FindIsFound DEF Found
<1>2. ASSUME NEW m \in Firsts(key, k)
      PROVE  Find(k) = IF RIDsOf(k) = <<>> THEN NotFound ELSE Head(RIDsOf(k))
  <2>1. m \in SlotsOf(k) /\ \A s \in SlotsOf(k) : m <= s
    BY FirstsIs
  <2>2. /\ SlotsOf(k) \in SUBSET Int /\ IsFiniteSet(SlotsOf(k))
        /\ \A s \in SlotsOf(k) : id[s] \in RIDs \cup {NoRID}
    BY SlotsOfIs
  <2>3. InOrder(SlotsOf(k), id) # <<>> /\ Head(InOrder(SlotsOf(k), id)) = id[m]
    BY <2>1, <2>2, InOrderHead
  <2>4. key \in Seq(Int) /\ k \in Int
    BY KeysAssumption DEF ChainOK
  <2>5. Find(k) = id[m]
    BY <2>4, FindIsFound, FirstIsFound
  <2> QED
    BY <2>3, <2>5, RIDsOfIs
<1> QED
  BY <1>1, <1>2

(* Every slot that is taken holds one entry. *)
LEMMA EntryOf ==
  ASSUME ChainOK, NEW s \in Taken, key[s] \in Keys
  PROVE  /\ s \in SlotsOf(key[s])
         /\ Rank(SlotsOf(key[s]), s) \in DOMAIN RIDsOf(key[s])
         /\ RIDsOf(key[s])[Rank(SlotsOf(key[s]), s)] = id[s]
         /\ Nth(SlotsOf(key[s]), Rank(SlotsOf(key[s]), s)) = s
<1> DEFINE S == SlotsOf(key[s])
<1>1. s \in S
  BY DEF Taken, SlotsOf
<1>2. S \in SUBSET Int /\ IsFiniteSet(S)
  BY SlotsOfIs
<1> HIDE DEF S
<1>3. Rank(S, s) \in 1 .. Cardinality(S) /\ Nth(S, Rank(S, s)) = s
  BY <1>1, <1>2, RankIs, NthIs
<1>4. RIDsOf(key[s]) = InOrder(S, id)
  BY RIDsOfIs DEF S
<1>5. Rank(S, s) \in DOMAIN InOrder(S, id) /\ InOrder(S, id)[Rank(S, s)] = id[s]
  BY <1>3 DEF InOrder
<1> QED
  BY <1>1, <1>3, <1>4, <1>5 DEF S

LEMMA CountIs ==
  ASSUME ChainOK, \A s \in Slots : key[s] \in Keys \cup {0}
  PROVE  Cardinality(Taken) = Cardinality(UNION {{k} \X DOMAIN RIDsOf(k) : k \in Keys})
<1> DEFINE E == UNION {{k} \X DOMAIN RIDsOf(k) : k \in Keys}
           R(s) == Rank(SlotsOf(key[s]), s)
           f == [s \in Taken |-> <<key[s], R(s)>>]
<1>1. ASSUME NEW s \in Taken
      PROVE  key[s] \in Keys /\ R(s) \in DOMAIN RIDsOf(key[s]) /\ Nth(SlotsOf(key[s]), R(s)) = s
  <2>1. key[s] \in Keys
    BY DEF Taken
  <2> QED
    BY <2>1, EntryOf
<1> HIDE DEF R
<1>2. f \in [Taken -> E]
  BY <1>1
<1>3. ASSUME NEW s \in Taken, NEW t \in Taken, f[s] = f[t] PROVE s = t
  <2>1. key[s] = key[t] /\ R(s) = R(t)
    BY <1>3
  <2> QED
    BY <1>1, <2>1
<1>4. ASSUME NEW e \in E PROVE \E s \in Taken : f[s] = e
  <2>1. PICK k \in Keys : e \in {k} \X DOMAIN RIDsOf(k)
    BY <1>4
  <2>2. PICK i \in DOMAIN RIDsOf(k) : e = <<k, i>>
    BY <2>1
  <2>3. i \in 1 .. Cardinality(SlotsOf(k))
    BY <2>2 DEF RIDsOf
  <2>4. SlotsOf(k) \in SUBSET Int /\ IsFiniteSet(SlotsOf(k))
    BY SlotsOfIs
  <2> DEFINE s == Nth(SlotsOf(k), i)
  <2>5. s \in SlotsOf(k) /\ Rank(SlotsOf(k), s) = i
    BY <2>3, <2>4, NthIs
  <2> HIDE DEF s
  <2>6. s \in Taken /\ key[s] = k
    BY <2>5, KeysAssumption DEF SlotsOf, Taken
  <2>7. f[s] = <<k, i>>
    BY <2>5, <2>6 DEF R
  <2> QED
    BY <2>2, <2>6, <2>7
<1> HIDE DEF f, E
<1>5. f \in Bijection(Taken, E)
  BY <1>2, <1>3, <1>4 DEF Bijection, Injection, IsInjective, Surjection
<1>6. IsFiniteSet(Taken)
  <2>1. Taken \in SUBSET Slots /\ key \in Seq(Int)
    BY DEF Taken, ChainOK
  <2> QED
    BY <2>1, SlotsFinite
<1>7. Cardinality(Taken) = Cardinality(E)
  BY <1>5, <1>6, FS_Bijection DEF ExistsBijection
<1> QED
  BY <1>7 DEF E

-----------------------------------------------------------------------------
(* The calls. *)

NoRIDsIn(rids) == rids = [k \in Keys |-> <<>>]

LEMMA RidsIs ==
  /\ Rids' = [k \in Keys |-> RIDsOf(k)']
  /\ (\A k \in Keys : RIDsOf(k)' = RIDsOf(k)) => Rids' = Rids
BY DEF Rids

LEMMA NoneLeft ==
  ASSUME \A s \in Slots' : key'[s] \notin Keys
  PROVE  NoRIDsIn(Rids')
<1>1. ASSUME NEW k \in Keys PROVE RIDsOf(k)' = <<>>
  <2>1. SlotsOf(k)' = {}
    BY DEF SlotsOf
  <2> QED
    BY <2>1, RIDsOfIs, InOrderOfNone
<1> QED
  BY <1>1, RidsIs DEF NoRIDsIn

LEMMA RIDsStay ==
  ASSUME key' = key, id' = id
  PROVE  Rids' = Rids
<1>1. ASSUME NEW k \in Keys PROVE RIDsOf(k)' = RIDsOf(k)
  BY DEF RIDsOf, SlotsOf, Slots
<1> QED
  BY <1>1, RidsIs

(* The instance has the operators of the libraries under names of its own. *)
LEMMA SameOperators ==
  /\ \A S : Index!Cardinality(S) = Cardinality(S)
  /\ \A s : Index!ToSet(s) = ToSet(s)
<1>1. \A S : Index!Cardinality(S) = Cardinality(S)
  BY Zenon DEF Index!Cardinality, Cardinality
<1>2. \A s : Index!ToSet(s) = ToSet(s)
  BY DEF Index!ToSet, ToSet
<1> QED
  BY <1>1, <1>2

LEMMA IndexScanIs ==
  ASSUME root = "live", root' = "live", Rids' = Rids,
         answer' \in (UNION {ToSet(Rids[k]) : k \in Keys}) \cup {OK, NoMore}
  PROVE  Index!Scan
<1>1. answer' \in (UNION {Index!ToSet(Rids[k]) : k \in Keys}) \cup {OK, NoMore}
  BY SameOperators
<1> QED
  BY <1>1 DEF Index!Scan, Rids

LEMMA createBtreeIs ==
  ASSUME createBtree, tidy'
  PROVE  Index!Create /\ KnownKeys'
<1>1. key' = [i \in 1 .. Order |-> 0]
  BY DEF createBtree
<1>2. \A s \in Slots' : key'[s] = 0
  BY <1>1 DEF Slots
<1>3. NoRIDsIn(Rids')
  BY <1>2, NoneLeft, KeysAssumption
<1>4. Index!Create
  BY <1>3 DEF Index!Create, Index!Empty, NoRIDsIn, Rids, createBtree
<1> QED
  BY <1>2, <1>4 DEF KnownKeys

LEMMA closeBtreeIs ==
  ASSUME closeBtree
  PROVE  Index!Lose /\ KnownKeys'
<1>1. Slots' = {}
  BY DEF closeBtree, Forget, Slots
<1>2. NoRIDsIn(Rids')
  BY <1>1, NoneLeft
<1>3. Index!Lose
  BY <1>2 DEF Index!Lose, Index!Empty, NoRIDsIn, Rids, closeBtree
<1> QED
  BY <1>1, <1>3 DEF KnownKeys

(* What holds of a tidy client's index that is in use. *)
TidyIs == ChainOK /\ TypeOK /\ back = 0 /\ \A s \in Slots : key[s] \in Keys \cup {0}

LEMMA TidyParts ==
  ASSUME KInv, tidy
  PROVE  TidyIs
BY Parts DEF KInv, TidyInv, IInv, NoRing, KnownKeys, TidyIs

LEMMA insertKeyIs ==
  ASSUME Order > 1, KInv, tidy, NEW k \in Keys, NEW r \in RIDs, insertKey(k, r)
  PROVE  Index!Insert(k, r) /\ KnownKeys'
<1>1. TidyIs /\ TidyInv
  BY TidyParts DEF KInv
<1>2. Inserts(k, r)
  BY <1>1, InsertKeyIs DEF Endless, TidyIs, insertKey
<1>3. /\ Longer(RIDsOf(k)', RIDsOf(k), r)
      /\ \A l \in Keys \ {k} : RIDsOf(l)' = RIDsOf(l)
      /\ \A s \in Slots' : key'[s] \in {key[t] : t \in Taken} \cup {k, 0}
  BY <1>1, <1>2, InsertedRIDs
<1>4. Rids' = [Rids EXCEPT ![k] = Append(@, r)]
  <2>1. Rids[k] = RIDsOf(k) /\ \A l \in Keys : Rids[l] = RIDsOf(l)
    BY DEF Rids
  <2>2. \A l \in Keys : RIDsOf(l)' = IF l = k THEN Append(Rids[k], r) ELSE Rids[l]
    BY <1>3, <2>1 DEF Longer
  <2> QED
    BY <2>2, RidsIs DEF Rids
<1>5. root = "live" /\ root' = "live" /\ answer' = OK
  BY <1>1 DEF insertKey, InUse, Endless, TidyIs
<1>6. Index!Insert(k, r)
  BY <1>4, <1>5 DEF Index!Insert, Rids
<1>7. \A s \in Slots' : key'[s] \in Keys \cup {0}
  BY <1>1, <1>3 DEF TidyIs, Taken
<1> QED
  BY <1>6, <1>7 DEF KnownKeys

LEMMA deleteKeyIs ==
  ASSUME KInv, tidy, NEW k \in Keys, deleteKey(k)
  PROVE  Index!Delete(k) /\ KnownKeys'
<1>1. TidyIs
  BY TidyParts
<1>2. Deletes(k) /\ root = "live" /\ root' = "live" /\ answer' = OK
  BY <1>1 DEF deleteKey, Deletes, Endless, FirstSlots, Firsts, Slots, InUse, TidyIs
<1>3. /\ RIDsOf(k)' = IF RIDsOf(k) = <<>> THEN RIDsOf(k) ELSE Tail(RIDsOf(k))
      /\ \A l \in Keys \ {k} : RIDsOf(l)' = RIDsOf(l)
      /\ \A s \in Slots' : s \in Slots /\ key'[s] \in {key[s], 0}
  BY <1>1, <1>2, DeletedRIDs DEF TidyIs
<1>4. Rids' = [Rids EXCEPT ![k] = IF @ = <<>> THEN @ ELSE Tail(@)]
  <2>1. Rids[k] = RIDsOf(k) /\ \A l \in Keys : Rids[l] = RIDsOf(l)
    BY DEF Rids
  <2>2. \A l \in Keys : RIDsOf(l)' = IF l = k THEN IF Rids[k] = <<>> THEN Rids[k] ELSE Tail(Rids[k]) ELSE Rids[l]
    BY <1>3, <2>1
  <2> QED
    BY <2>2, RidsIs DEF Rids
<1>5. Index!Delete(k)
  BY <1>2, <1>4 DEF Index!Delete, Rids
<1>6. \A s \in Slots' : key'[s] \in Keys \cup {0}
  BY <1>1, <1>3 DEF TidyIs
<1> QED
  BY <1>5, <1>6 DEF KnownKeys

LEMMA findKeyIs ==
  ASSUME KInv, tidy, NEW k \in Keys, findKey(k)
  PROVE  Index!Find(k)
<1>1. TidyIs
  BY TidyParts
<1>2. root = "live" /\ root' = "live" /\ key' = key /\ id' = id /\ answer' = Find(k)
  BY <1>1 DEF findKey, Endless, InUse, TidyIs, chain
<1>3. answer' = IF Rids[k] = <<>> THEN NotFound ELSE Head(Rids[k])
  BY <1>1, <1>2, FindIs DEF TidyIs, Rids
<1>4. Rids' = Rids
  BY <1>2, RIDsStay
<1> QED
  BY <1>2, <1>3, <1>4 DEF Index!Find, Rids

LEMMA getNumEntriesIs ==
  ASSUME KInv, tidy, getNumEntries
  PROVE  Index!CountEntries
<1>1. TidyIs
  BY TidyParts
<1>2. /\ root = "live" /\ root' = "live" /\ key' = key /\ id' = id
      /\ answer' = [entries |-> Cardinality(Taken)]
  BY <1>1 DEF getNumEntries, Endless, InUse, TidyIs, chain
<1>3. Cardinality(Taken) = Cardinality(UNION {{k} \X DOMAIN RIDsOf(k) : k \in Keys})
  BY <1>1, CountIs DEF TidyIs
<1>4. Cardinality(Taken) = Cardinality(UNION {{k} \X DOMAIN Rids[k] : k \in Keys})
  BY <1>3 DEF Rids
<1>5. Rids' = Rids
  BY <1>2, RIDsStay
<1>6. answer' = [entries |-> Index!Cardinality(UNION {{k} \X DOMAIN Rids[k] : k \in Keys})]
  BY <1>2, <1>4, SameOperators
<1> QED
  BY <1>2, <1>5, <1>6 DEF Index!CountEntries, Index!Entries, Rids

LEMMA openTreeScanIs ==
  ASSUME KInv, tidy, openTreeScan
  PROVE  (UNCHANGED Index!vars \/ Index!Scan) /\ KnownKeys'
<1>1. TidyIs
  BY TidyParts
<1>2. CASE Only /\ answer' = answer
  <2>1. key' = key /\ id' = id /\ root' = root
    BY <1>2 DEF Only, chain
  <2>2. Rids' = Rids
    BY <2>1, RIDsStay
  <2>3. UNCHANGED Index!vars
    BY <1>2, <2>1, <2>2 DEF Index!vars, Rids
  <2>4. KnownKeys'
    BY <1>1, <2>1 DEF TidyIs, KnownKeys, Slots
  <2> QED
    BY <2>3, <2>4
<1>3. CASE Opens /\ answer' = OK
  <2>1. Rids' = Rids
    BY <1>1, <1>3, SortedRIDs, RidsIs DEF TidyIs
  <2>2. root = "live" /\ root' = "live"
    BY <1>3 DEF Opens, InUse
  <2>3. Index!Scan
    BY <1>3, <2>1, <2>2, IndexScanIs
  <2>4. key \in Seq(Int) /\ id \in Seq(RIDs \cup {NoRID}) /\ Len(id) = Len(key)
    BY <1>1 DEF TidyIs, ChainOK
  <2>5. key' = SortedByKey(key) /\ Slots' = Slots
    BY <1>3, <2>4, SortIs DEF Opens, Slots
  <2>6. \A i \in Slots : key'[i] = key[SlotAt(i)] /\ SlotAt(i) \in Slots
    BY <2>4, <2>5, SlotAtIs
  <2>7. KnownKeys'
    BY <1>1, <2>5, <2>6 DEF TidyIs, KnownKeys
  <2> QED
    BY <2>3, <2>7
<1>4. (Only /\ answer' = answer) \/ (Opens /\ answer' = OK)
  BY DEF openTreeScan, Opens, Hang, Only
<1> QED
  BY <1>2, <1>3, <1>4

LEMMA nextEntryIs ==
  ASSUME KInv, tidy, nextEntry
  PROVE  Index!Scan
<1>1. TidyIs /\ IInv
  BY TidyParts DEF KInv, TidyInv
<1>2. root = "live" /\ root' = "live" /\ key' = key /\ id' = id
  BY DEF nextEntry, InUse, chain
<1>3. Rids' = Rids
  BY <1>2, RIDsStay
<1>4. answer' \in (UNION {ToSet(Rids[k]) : k \in Keys}) \cup {OK, NoMore}
  <2>1. CASE answer' = NoMore
    BY <2>1
  <2>2. CASE answer' # NoMore
    <3>1. ScanShaped /\ scan # 0 /\ returned' \in 1 .. Len(key) /\ answer' = id[returned']
      BY <1>1, <2>2, NextEntryIs
    <3>2. returned' \in Taken
      BY <1>1, <3>1 DEF ScanShaped, Slots, TidyIs, ChainOK
    <3>3. key[returned'] \in Keys
      BY <1>1, <3>2 DEF TidyIs, Taken
    <3> DEFINE s == returned'
               k == key[s]
    <3>4. Rank(SlotsOf(k), s) \in DOMAIN RIDsOf(k) /\ RIDsOf(k)[Rank(SlotsOf(k), s)] = id[s]
      BY <1>1, <3>2, <3>3, EntryOf DEF TidyIs
    <3>5. answer' \in ToSet(RIDsOf(k)) /\ Rids[k] = RIDsOf(k)
      BY <3>1, <3>3, <3>4 DEF ToSet, Rids
    <3> QED
      BY <3>3, <3>5
  <2> QED
    BY <2>1, <2>2
<1> QED
  BY <1>2, <1>3, <1>4, IndexScanIs

LEMMA closeTreeScanIs ==
  ASSUME closeTreeScan
  PROVE  Index!Scan
<1>1. root = "live" /\ root' = "live" /\ key' = key /\ id' = id /\ answer' = OK
  BY DEF closeTreeScan, InUse, chain
<1>2. Rids' = Rids
  BY <1>1, RIDsStay
<1> QED
  BY <1>1, <1>2, IndexScanIs

(* A call that does not change the keys meets no other. *)
LEMMA KnownStay ==
  ASSUME KInv, tidy, key' = key
  PROVE  KnownKeys'
BY DEF KInv, KnownKeys, Slots

LEMMA RestStutters ==
  ASSUME openBtree \/ deleteBtree \/ UseAfterFree \/ UNCHANGED vars
  PROVE  UNCHANGED Index!vars /\ key' = key /\ tidy' = tidy
<1>1. key' = key /\ id' = id /\ root' = root /\ answer' = answer /\ tidy' = tidy
  BY DEF openBtree, deleteBtree, UseAfterFree, vars, chain
<1>2. Rids' = Rids
  BY <1>1, RIDsStay
<1> QED
  BY <1>1, <1>2 DEF Index!vars, Rids

LEMMA TidyBefore ==
  ASSUME [Next]_vars, tidy', ~createBtree
  PROVE  tidy
<1>1. CASE UNCHANGED vars
  BY <1>1 DEF vars
<1>2. CASE Next
  BY <1>2 DEF Next, openBtree, closeBtree, deleteBtree, UseAfterFree, insertKey, deleteKey, findKey,
              getNumEntries, openTreeScan, nextEntry, closeTreeScan
<1> QED
  BY <1>1, <1>2

(* The call of the index that a step is. *)
Matches ==
    /\ createBtree => Index!Create
    /\ closeBtree => Index!Lose
    /\ \A k \in Keys, r \in RIDs : insertKey(k, r) => Index!Insert(k, r)
    /\ \A k \in Keys : deleteKey(k) => Index!Delete(k)
    /\ \A k \in Keys : findKey(k) => Index!Find(k)
    /\ getNumEntries => Index!CountEntries
    /\ nextEntry => Index!Scan

LEMMA StepMatches ==
  ASSUME Order > 1, KInv, [Next]_vars, tidy'
  PROVE  Matches /\ [Index!Next]_Index!vars /\ KnownKeys'
<1>1. createBtree => Index!Create /\ KnownKeys'
  BY createBtreeIs
<1>2. closeBtree => Index!Lose /\ KnownKeys'
  BY closeBtreeIs
<1>3. CASE createBtree
  <2>1. file # "open" /\ file' = "closed" /\ answer' = OK /\ root' = "live"
    BY <1>3 DEF createBtree
  <2>2. /\ ~closeBtree /\ ~getNumEntries /\ ~nextEntry
        /\ \A k \in Keys : ~deleteKey(k) /\ ~findKey(k) /\ \A r \in RIDs : ~insertKey(k, r)
    BY <2>1 DEF closeBtree, getNumEntries, nextEntry, deleteKey, findKey, insertKey, InUse
  <2> QED
    BY <1>1, <1>3, <2>2 DEF Matches, Index!Next
<1>4. CASE ~createBtree
  <2>0. tidy
    BY <1>4, TidyBefore
  <2>1. \A k \in Keys, r \in RIDs : insertKey(k, r) => Index!Insert(k, r) /\ KnownKeys'
    BY <2>0, insertKeyIs
  <2>2. \A k \in Keys : deleteKey(k) => Index!Delete(k) /\ KnownKeys'
    BY <2>0, deleteKeyIs
  <2>3. \A k \in Keys : findKey(k) => Index!Find(k)
    BY <2>0, findKeyIs
  <2>4. getNumEntries => Index!CountEntries
    BY <2>0, getNumEntriesIs
  <2>5. nextEntry => Index!Scan
    BY <2>0, nextEntryIs
  <2>6. openTreeScan => (UNCHANGED Index!vars \/ Index!Scan) /\ KnownKeys'
    BY <2>0, openTreeScanIs
  <2>7. closeTreeScan => Index!Scan
    BY closeTreeScanIs
  <2>8. ASSUME nextEntry \/ closeTreeScan PROVE KnownKeys'
    BY <2>0, <2>8, KnownStay DEF nextEntry, closeTreeScan, chain
  <2>9. ASSUME NEW k \in Keys, findKey(k) PROVE KnownKeys'
    BY <2>0, <2>9, KnownStay DEF findKey, Hang, chain
  <2>10. ASSUME getNumEntries PROVE KnownKeys'
    BY <2>0, <2>10, KnownStay DEF getNumEntries, Hang, chain
  <2>11. ASSUME openBtree \/ deleteBtree \/ UseAfterFree \/ UNCHANGED vars
         PROVE  UNCHANGED Index!vars /\ KnownKeys'
    BY <2>0, <2>11, RestStutters, KnownStay
  <2>12. Matches
    BY <1>4, <1>2, <2>1, <2>2, <2>3, <2>4, <2>5 DEF Matches
  <2>13. [Index!Next]_Index!vars /\ KnownKeys'
    <3>1. CASE UNCHANGED vars
      BY <2>11, <3>1
    <3>2. CASE Next
      <4>1. CASE openBtree \/ deleteBtree \/ UseAfterFree
        BY <2>11, <4>1
      <4>2. CASE closeBtree
        BY <1>2, <4>2 DEF Index!Next
      <4>3. ASSUME NEW k \in Keys, NEW r \in RIDs, insertKey(k, r)
            PROVE  [Index!Next]_Index!vars /\ KnownKeys'
        BY <2>1, <4>3 DEF Index!Next
      <4>4. ASSUME NEW k \in Keys, deleteKey(k) \/ findKey(k)
            PROVE  [Index!Next]_Index!vars /\ KnownKeys'
        BY <2>2, <2>3, <2>9, <4>4 DEF Index!Next
      <4>5. CASE getNumEntries
        BY <2>4, <2>10, <4>5 DEF Index!Next
      <4>6. CASE openTreeScan
        BY <2>6, <4>6 DEF Index!Next
      <4>7. CASE nextEntry \/ closeTreeScan
        BY <2>5, <2>7, <2>8, <4>7 DEF Index!Next
      <4> QED
        BY <1>4, <3>2, <4>1, <4>2, <4>3, <4>4, <4>5, <4>6, <4>7 DEF Next
    <3> QED
      BY <3>1, <3>2
  <2> QED
    BY <2>12, <2>13
<1> QED
  BY <1>3, <1>4

LEMMA KeysKnown ==
  ASSUME Order > 1
  PROVE  Spec => []KInv
<1>1. Init => KnownKeys
  BY DEF Init, KnownKeys, Slots
<1>2. ASSUME KInv, [Next]_vars PROVE KnownKeys'
  <2>1. CASE tidy'
    BY <1>2, <2>1, StepMatches
  <2>2. CASE ~tidy'
    BY <2>2 DEF KnownKeys
  <2> QED
    BY <2>1, <2>2
<1>3. KInv <=> TidyInv /\ KnownKeys
  BY DEF KInv
<1> QED
  BY <1>1, <1>2, <1>3, TidyInvariance, PTL DEF Spec

(* For clients that free no slot but the last and scan only a full chain, the chain of
   btree_mgr.c is an index: every step of it is a step of KeyIndex, or none that the
   clients see, however the nodes were added and the entries were sorted. *)
THEOREM ChainIsAnIndex ==
  ASSUME Order > 1
  PROVE  Spec => ImplementsKeyIndex
<1>1. Init => Index!Init
  <2>1. SUFFICES ASSUME Init PROVE Index!Init
    OBVIOUS
  <2>2. ASSUME NEW k \in Keys PROVE RIDsOf(k) = <<>>
    <3>1. SlotsOf(k) = {}
      BY <2>1 DEF Init, SlotsOf, Slots
    <3> QED
      BY <3>1, RIDsOfIs, InOrderOfNone
  <2>3. Rids = [k \in Keys |-> <<>>]
    BY <2>2 DEF Rids
  <2> QED
    BY <2>1, <2>3 DEF Init, Index!Init, Index!Empty, Rids
<1>2. ASSUME KInv, [Next]_vars PROVE tidy' => [Index!Next]_Index!vars
  BY <1>2, StepMatches
<1> QED
  BY <1>1, <1>2, KeysKnown, PTL DEF Spec, ImplementsKeyIndex

(* And every call is the call of KeyIndex with the same arguments: insertKey(k, r) adds
   r behind the record ids of k and of no other key, deleteKey(k) takes the oldest one
   of k, which is what findKey(k) answers, and getNumEntries counts them all. *)
THEOREM CallsAreIndexCalls ==
  ASSUME Order > 1
  PROVE  Spec => [][tidy' => Matches]_vars
<1>1. ASSUME KInv, [Next]_vars PROVE tidy' => Matches
  BY <1>1, StepMatches
<1> QED
  BY <1>1, KeysKnown, PTL DEF Spec
=============================================================================

------------------------- MODULE RecordManagerProofs -------------------------
(***************************************************************************)
(* Theorems about RecordManager, for any number of frames, of pages with   *)
(* records, of slots in a page, of scans and of tuples that startScan      *)
(* writes down.  The types are right in every behaviour.  The other        *)
(* theorems are about tables whose pages fit into the frames (PagesFit):   *)
(* beyond them the pool replaces frame 0, whose page it does not write,    *)
(* and records are lost.                                                   *)
(***************************************************************************)
EXTENDS RecordManager, FiniteSetTheorems, WellFoundedInduction, TLAPS

-----------------------------------------------------------------------------
(* The least and the greatest member of a set of numbers.                    *)

LEMMA LeastExists ==
  ASSUME NEW S \in SUBSET Nat, S # {}
  PROVE  \E m \in S : \A n \in S : m <= n
<1> DEFINE R == {ss \in Nat \X Nat : ss[1] < ss[2]}
<1>1. IsWellFoundedOn(OpToRel(<, Nat), Nat)
  BY NatLessThanWellFounded
<1>2. IsWellFoundedOn(R, Nat)
  BY <1>1 DEF OpToRel
<1> HIDE DEF R
<1>3. PICK m \in S : \A n \in S : ~(<<n, m>> \in R)
  BY <1>2, WFMin
<1>4. ASSUME NEW n \in S PROVE m <= n
  <2>1. n \in Nat /\ m \in Nat
    OBVIOUS
  <2>2. n < m => <<n, m>> \in R
    BY <2>1 DEF R
  <2> QED
    BY <1>3, <2>1, <2>2
<1> QED
  BY <1>4

LEMMA MinIs ==
  ASSUME NEW S \in SUBSET Nat, S # {}
  PROVE  Min(S) \in S /\ \A n \in S : Min(S) <= n
BY LeastExists DEF Min

(* A bounded set of numbers has a greatest one. *)
LEMMA MaxIs ==
  ASSUME NEW S \in SUBSET Nat, S # {}, NEW b \in Nat, \A n \in S : n <= b
  PROVE  Max(S) \in S /\ \A n \in S : n <= Max(S)
<1> DEFINE U == {u \in Nat : \A n \in S : n <= u}
<1>1. PICK u \in U : \A v \in U : u <= v
  <2>1. U \in SUBSET Nat /\ b \in U
    OBVIOUS
  <2> HIDE DEF U
  <2> QED
    BY <2>1, LeastExists
<1>2. u \in S
  <2> SUFFICES ASSUME u \notin S PROVE FALSE
    OBVIOUS
  <2>1. PICK n \in S : TRUE
    OBVIOUS
  <2>2. u \in Nat /\ n \in Nat /\ n <= u /\ n # u
    BY <1>1
  <2>3. u - 1 \in U
    BY <2>2
  <2>4. u <= u - 1
    BY <1>1, <2>3
  <2> QED
    BY <2>2, <2>4
<1>3. \E m \in S : \A n \in S : n <= m
  BY <1>1, <1>2
<1> QED
  BY <1>3 DEF Max

(* A set of numbers with 0 and the successors of its members is all of them. *)
LEMMA AllNumbers ==
  ASSUME NEW S \in SUBSET Nat, 0 \in S, \A n \in S : n + 1 \in S
  PROVE  S = Nat
<1> SUFFICES ASSUME Nat \ S # {} PROVE FALSE
  OBVIOUS
<1>1. PICK m \in Nat \ S : \A n \in Nat \ S : m <= n
  BY LeastExists
<1>2. m - 1 \in Nat /\ m # 0
  BY <1>1
<1>3. m - 1 \in S
  BY <1>1, <1>2
<1>4. (m - 1) + 1 \in S /\ (m - 1) + 1 = m
  BY <1>2, <1>3
<1> QED
  BY <1>1, <1>4

(* The values of a function on the frames are bounded. *)
LEMMA FramesBounded ==
  ASSUME NEW h \in [Frames -> Nat]
  PROVE  \E b \in Nat : \A f \in Frames : h[f] <= b
<1> DEFINE Bounds(n, b) == \A f \in Frames : f < n => h[f] <= b
           S == {n \in Nat : \E b \in Nat : Bounds(n, b)}
<1>0. Frames \in SUBSET Nat
  BY PoolAssumption DEF Frames
<1>1. 0 \in S
  BY <1>0
<1>2. ASSUME NEW n \in S PROVE n + 1 \in S
  <2>1. PICK b \in Nat : Bounds(n, b)
    OBVIOUS
  <2>2. CASE n \in Frames
    <3>1. h[n] \in Nat
      BY <2>2
    <3>2. PICK c \in Nat : c >= b /\ c >= h[n]
      BY <3>1
    <3>3. ASSUME NEW f \in Frames, f < n + 1 PROVE h[f] <= c
      <4>1. h[f] \in Nat /\ f \in Nat /\ n \in Nat
        BY <1>0
      <4>2. f < n \/ f = n
        BY <3>3, <4>1
      <4>3. CASE f < n
        <5>1. h[f] <= b
          BY <2>1, <4>3
        <5> QED
          BY <3>2, <4>1, <5>1
      <4>4. CASE f = n
        BY <3>2, <4>4
      <4> QED
        BY <4>2, <4>3, <4>4
    <3> QED
      BY <3>3
  <2>3. CASE n \notin Frames
    <3>1. ASSUME NEW f \in Frames, f < n + 1 PROVE h[f] <= b
      <4>1. f \in Nat /\ n \in Nat /\ f # n
        BY <1>0, <2>3
      <4>2. f < n
        BY <3>1, <4>1
      <4> QED
        BY <2>1, <4>2
    <3> QED
      BY <3>1
  <2> QED
    BY <2>2, <2>3
<1>3. NumFrames \in S
  <2> S \in SUBSET Nat
    OBVIOUS
  <2> HIDE DEF S
  <2> QED
    BY <1>1, <1>2, AllNumbers, PoolAssumption
<1>4. PICK b \in Nat : Bounds(NumFrames, b)
  BY <1>3
<1> QED
  BY <1>4, PoolAssumption DEF Frames

-----------------------------------------------------------------------------
(* Pools in every reachable state.                                           *)

Data == [Slots -> Contents \cup {"header"}]
File == [present : BOOLEAN, pages : Seq(Data)]
Pool == [strategy : {"RS_LRU"},
         page : [Frames -> Nat \cup {NO_PAGE}],
         fix : [Frames -> Int],
         dirty : [Frames -> BOOLEAN],
         data : [Frames -> Buffers \cup {NULL}],
         heap : [Buffers -> Data],
         file : File]

(* The frames that hold pages come before the empty ones, point to buffers, and have
   a page and a buffer each. *)
FilledFirst(q) == \A f, g \in Frames : f < g /\ q.page[f] = NO_PAGE => q.page[g] = NO_PAGE
Backed(q) == \A f \in Frames : q.page[f] # NO_PAGE => q.data[f] # NULL
Distinct(q) ==
    \A f, g \in Frames :
        f # g /\ q.page[f] # NO_PAGE /\ q.page[g] # NO_PAGE =>
            q.page[f] # q.page[g] /\ q.data[f] # q.data[g]

WellFormed(q) == q \in Pool /\ FilledFirst(q) /\ Backed(q) /\ Distinct(q)

LEMMA Numbers ==
  /\ NO_PAGE \notin Nat /\ NO_PAGE \in Int /\ Frames \in SUBSET Nat /\ 0 \in Frames /\ 1 \in Frames
  /\ NULL \notin Buffers /\ Buffers \in SUBSET Nat /\ ZeroPage \in Data /\ 0 \in Slots
  /\ Slots \in SUBSET Nat
<1>1. Frames \in SUBSET Nat /\ 0 \in Frames /\ 1 \in Frames
  BY PoolAssumption DEF Frames
<1>2. NULL \notin Buffers /\ Buffers \in SUBSET Nat
  BY PoolAssumption DEF NULL, Buffers
<1>3. ZeroPage \in Data
  BY DEF ZeroPage, Data, Contents
<1>4. 0 \in Slots /\ Slots \in SUBSET Nat
  BY SlotsAssumption DEF Slots
<1> QED
  BY <1>1, <1>2, <1>3, <1>4 DEF NO_PAGE

(* The frame that holds a page is the only one. *)
LEMMA FrameOf ==
  ASSUME NEW q, WellFormed(q), NEW p \in Nat, NEW f \in Frames, q.page[f] = p
  PROVE  FramesOf(q, p) = {f} /\ Min(FramesOf(q, p)) = f /\ q.data[f] \in Buffers
         /\ PageBytes(q, p) = Bytes(q, f) /\ DeliveredBy(q, p) = Bytes(q, f)
         /\ Bytes(q, f) \in Data
<1>1. FramesOf(q, p) = {f}
  BY Numbers DEF FramesOf, WellFormed, Distinct
<1>2. Min({f}) = f
  BY Numbers DEF Min
<1>3. q.data[f] \in Buffers
  BY Numbers DEF WellFormed, Backed, Pool
<1>4. Bytes(q, f) \in Data
  BY <1>3 DEF Bytes, WellFormed, Pool
<1>5. FramesOf(q, p) # {}
  BY <1>1
<1> QED
  BY <1>1, <1>2, <1>3, <1>4, <1>5 DEF PageBytes, DeliveredBy

(* malloc finds a buffer. *)
LEMMA BufferIsNew ==
  ASSUME NEW q \in Pool
  PROVE  /\ NewBuffer(q, {}) \in Buffers
         /\ \A f \in Frames : q.data[f] # NewBuffer(q, {})
<1> DEFINE D == {q.data[f] : f \in Frames}
           g == [f \in Frames |-> q.data[f]]
<1>2. IsFiniteSet(Frames) /\ Cardinality(Frames) = NumFrames
  BY FS_Interval, PoolAssumption DEF Frames
<1>3. IsFiniteSet(D) /\ Cardinality(D) <= NumFrames /\ Cardinality(D) \in Nat
  <2>1. g \in Surjection(Frames, D)
    BY DEF Surjection
  <2> QED
    BY <1>2, <2>1, FS_Surjection, FS_CardinalityType
<1>6. IsFiniteSet(Buffers) /\ Cardinality(Buffers) = NumBuffers
  BY FS_Interval, PoolAssumption DEF Buffers
<1>7. Buffers \ D # {}
  <2> SUFFICES ASSUME Buffers \subseteq D PROVE FALSE
    OBVIOUS
  <2>1. Buffers \in SUBSET D
    OBVIOUS
  <2>2. Cardinality(Buffers) <= Cardinality(D)
    BY <1>3, <2>1, FS_Subset
  <2> QED
    BY <1>3, <1>6, <2>2, PoolAssumption
<1>8. NewBuffer(q, {}) = Min(Buffers \ D)
  <2>1. {} \cup D = D
    OBVIOUS
  <2> QED
    BY <2>1 DEF NewBuffer
<1>9. Min(Buffers \ D) \in Buffers \ D
  <2>1. Buffers \ D \in SUBSET Nat
    BY Numbers
  <2> QED
    BY <1>7, <2>1, MinIs
<1> QED
  BY <1>8, <1>9

-----------------------------------------------------------------------------
(* Files.                                                                    *)

(* Reading any page delivers the same from both. *)
SameReads(file, other) ==
    \A o \in Nat : readBlock(other, o, ZeroPage) = readBlock(file, o, ZeroPage)

LEMMA ReadIs ==
  ASSUME NEW file \in File, NEW p \in Nat
  PROVE  /\ readBlock(file, p, ZeroPage) \in Data
         /\ HasPage(file, p) => readBlock(file, p, ZeroPage) = file.pages[p + 1]
         /\ ~HasPage(file, p) => readBlock(file, p, ZeroPage) = ZeroPage
BY Numbers DEF readBlock, HasPage, File

LEMMA PaddedIs ==
  ASSUME NEW file \in File, NEW n \in Nat
  PROVE  /\ Padded(file, n) \in Seq(Data) /\ Len(Padded(file, n)) = n
         /\ \A i \in 1 .. n : Padded(file, n)[i] = IF i <= Len(file.pages) THEN file.pages[i] ELSE ZeroPage
BY Numbers DEF Padded, File

LEMMA RoomIs ==
  ASSUME NEW file \in File, NEW n \in Nat
  PROVE  /\ ensureCapacity(file, n) \in File /\ ensureCapacity(file, n).present = file.present
         /\ SameReads(file, ensureCapacity(file, n))
<1>1. CASE file.present /\ Len(file.pages) < n
  <2> DEFINE new == Padded(file, n)
  <2>1. new \in Seq(Data) /\ Len(new) = n /\ Len(file.pages) \in Nat
        /\ \A i \in 1 .. n : new[i] = IF i <= Len(file.pages) THEN file.pages[i] ELSE ZeroPage
    BY PaddedIs DEF File
  <2>2. ensureCapacity(file, n) = [file EXCEPT !.pages = new]
    BY <1>1 DEF ensureCapacity
  <2> HIDE DEF new
  <2> DEFINE r == [file EXCEPT !.pages = new]
  <2>3. r \in File /\ r.pages = new /\ r.present = file.present
    BY <2>1 DEF File
  <2> HIDE DEF r
  <2>4. ASSUME NEW o \in Nat PROVE readBlock(r, o, ZeroPage) = readBlock(file, o, ZeroPage)
    <3>1. CASE o < Len(file.pages)
      <4>1. o + 1 \in 1 .. n /\ o + 1 <= Len(file.pages) /\ o < Len(new)
        BY <1>1, <2>1, <3>1
      <4> QED
        BY <1>1, <2>1, <2>3, <3>1, <4>1 DEF readBlock, HasPage
    <3>2. CASE ~(o < Len(file.pages)) /\ o < n
      <4>1. o + 1 \in 1 .. n /\ ~(o + 1 <= Len(file.pages)) /\ o < Len(new)
        BY <1>1, <2>1, <3>2
      <4> QED
        BY <1>1, <2>1, <2>3, <3>2, <4>1 DEF readBlock, HasPage
    <3>3. CASE ~(o < Len(file.pages)) /\ ~(o < n)
      BY <1>1, <2>1, <2>3, <3>3 DEF readBlock, HasPage
    <3> QED
      BY <3>1, <3>2, <3>3
  <2> QED
    BY <2>2, <2>3, <2>4 DEF SameReads, r
<1>2. CASE ~(file.present /\ Len(file.pages) < n)
  BY <1>2 DEF ensureCapacity, SameReads
<1> QED
  BY <1>1, <1>2

(* The file after the frames of S were written. *)
Written(q, S, file) ==
    /\ file \in File /\ file.present = q.file.present
    /\ \A o \in Nat : (\A f \in S : q.page[f] # o) =>
                          readBlock(file, o, ZeroPage) = readBlock(q.file, o, ZeroPage)

LEMMA WriteBlocksIs ==
  ASSUME NEW q, WellFormed(q), NEW S \in SUBSET Frames
  PROVE  Written(q, S, writeBlocks(q, S))
<1> DEFINE W == {f \in S : q.page[f] # NO_PAGE}
           sizes == {Len(q.file.pages)} \cup {q.page[f] + 1 : f \in W}
           size == Max(sizes)
           Writers(i) == {f \in W : q.page[f] = i - 1}
           new == [i \in 1 .. size |-> IF Writers(i) # {} THEN Bytes(q, Min(Writers(i)))
                                     ELSE Padded(q.file, size)[i]]
<1>1. /\ q.file \in File /\ Len(q.file.pages) \in Nat
      /\ \A f \in W : q.page[f] \in Nat /\ Bytes(q, f) \in Data
  <2>1. q.file \in File /\ Len(q.file.pages) \in Nat
    BY DEF WellFormed, Pool, File
  <2>2. ASSUME NEW f \in W PROVE q.page[f] \in Nat /\ Bytes(q, f) \in Data
    <3>1. q.page[f] \in Nat
      BY DEF WellFormed, Pool
    <3> QED
      BY <3>1, FrameOf
  <2> QED
    BY <2>1, <2>2
<1>2. size \in Nat /\ \A n \in sizes : n <= size
  <2>1. sizes \in SUBSET Nat /\ sizes # {}
    BY <1>1
  <2>2. PICK b \in Nat : \A n \in sizes : n <= b
    <3> DEFINE h == [f \in Frames |-> IF f \in W THEN q.page[f] + 1 ELSE 0]
    <3>1. h \in [Frames -> Nat]
      BY <1>1
    <3> HIDE DEF h
    <3>2. PICK b \in Nat : \A f \in Frames : h[f] <= b
      BY <3>1, FramesBounded
    <3>3. ASSUME NEW f \in W PROVE q.page[f] + 1 <= b
      <4>1. h[f] = q.page[f] + 1
        BY DEF h
      <4> QED
        BY <3>2, <4>1
    <3>4. b + Len(q.file.pages) \in Nat /\ \A n \in sizes : n <= b + Len(q.file.pages)
      BY <1>1, <3>3
    <3> QED
      BY <3>4
  <2> HIDE DEF sizes
  <2> QED
    BY <2>1, <2>2, MaxIs
<1>3. Len(q.file.pages) <= size /\ \A f \in W : q.page[f] + 1 <= size
  BY <1>2
<1> HIDE DEF size
<1>4. ASSUME NEW i \in 1 .. size, Writers(i) # {}
      PROVE  Min(Writers(i)) \in Writers(i)
  <2>1. Writers(i) \in SUBSET Nat
    BY Numbers
  <2> QED
    BY <1>4, <2>1, MinIs
<1>5. ASSUME NEW i \in 1 .. size
      PROVE  new[i] \in Data
  <2>1. CASE Writers(i) # {}
    BY <1>1, <1>4, <2>1
  <2>2. CASE Writers(i) = {}
    <3>1. Padded(q.file, size)[i] \in Data
      BY <1>1, <1>2, PaddedIs, Numbers DEF File
    <3> QED
      BY <2>2, <3>1
  <2> QED
    BY <2>1, <2>2
<1>6. new \in Seq(Data) /\ Len(new) = size
  BY <1>2, <1>5
<1>7. ASSUME NEW o \in Nat, \A f \in S : q.page[f] # o, o < size
      PROVE  new[o + 1] = IF o < Len(q.file.pages) THEN q.file.pages[o + 1] ELSE ZeroPage
  <2>1. o + 1 \in 1 .. size /\ Writers(o + 1) = {} /\ (o + 1 <= Len(q.file.pages) <=> o < Len(q.file.pages))
    BY <1>1, <1>2, <1>7
  <2>2. new[o + 1] = Padded(q.file, size)[o + 1]
    BY <2>1
  <2> QED
    BY <1>1, <1>2, <2>1, <2>2, PaddedIs
<1> HIDE DEF new
<1>8. CASE q.file.present
  <2> DEFINE r == [q.file EXCEPT !.pages = new]
  <2>1. writeBlocks(q, S) = r
    BY <1>8, Zenon DEF writeBlocks, new, size
  <2>2. r.pages = new /\ r.present = q.file.present /\ r \in File
    BY <1>1, <1>6 DEF File
  <2> HIDE DEF r
  <2>3. ASSUME NEW o \in Nat, \A f \in S : q.page[f] # o
        PROVE  readBlock(r, o, ZeroPage) = readBlock(q.file, o, ZeroPage)
    <3>1. CASE o < size
      <4>1. new[o + 1] = IF o < Len(q.file.pages) THEN q.file.pages[o + 1] ELSE ZeroPage
        BY <1>7, <2>3, <3>1
      <4> QED
        BY <1>1, <1>6, <1>8, <2>2, <3>1, <4>1 DEF readBlock, HasPage
    <3>2. CASE ~(o < size)
      BY <1>1, <1>2, <1>3, <1>6, <1>8, <2>2, <3>2 DEF readBlock, HasPage
    <3> QED
      BY <3>1, <3>2
  <2> QED
    BY <2>1, <2>2, <2>3 DEF Written
<1>9. CASE ~q.file.present
  BY <1>1, <1>9 DEF writeBlocks, Written
<1> QED
  BY <1>8, <1>9

-----------------------------------------------------------------------------
(* pinPage.                                                                  *)

(* r is q with page p, in buffer b, in frame f. *)
Filled(q, r, f, p, b, bytes) ==
    /\ r \in Pool /\ r.file = q.file
    /\ r.page[f] = p /\ r.fix[f] = 1 /\ r.data[f] = b
    /\ \A g \in Frames \ {f} : r.page[g] = q.page[g] /\ r.fix[g] = q.fix[g] /\ r.data[g] = q.data[g]
    /\ r.heap[b] = bytes
    /\ \A c \in Buffers \ {b} : r.heap[c] = q.heap[c]

LEMMA FillIs ==
  ASSUME NEW q \in Pool, NEW f \in Frames, NEW p \in Nat, NEW b \in Buffers, NEW bytes \in Data
  PROVE  Filled(q, Fill(q, {f}, p, b, bytes), f, p, b, bytes)
<1> DEFINE r == Fill(q, {f}, p, b, bytes)
<1>1. /\ r.strategy = q.strategy /\ r.file = q.file
      /\ r.page = [g \in Frames |-> IF g \in {f} THEN p ELSE q.page[g]]
      /\ r.fix = [g \in Frames |-> IF g \in {f} THEN 1 ELSE q.fix[g]]
      /\ r.data = [g \in Frames |-> IF g \in {f} THEN b ELSE q.data[g]]
      /\ r.heap = [q.heap EXCEPT ![b] = bytes]
  BY DEF Fill, Pool
<1>2. /\ [g \in Frames |-> IF g \in {f} THEN p ELSE q.page[g]] \in [Frames -> Nat \cup {NO_PAGE}]
      /\ [g \in Frames |-> IF g \in {f} THEN 1 ELSE q.fix[g]] \in [Frames -> Int]
      /\ [g \in Frames |-> q.dirty[g] /\ g \notin {f}] \in [Frames -> BOOLEAN]
      /\ [g \in Frames |-> IF g \in {f} THEN b ELSE q.data[g]] \in [Frames -> Buffers \cup {NULL}]
      /\ [q.heap EXCEPT ![b] = bytes] \in [Buffers -> Data]
  BY DEF Pool
<1>3. r \in Pool
  BY <1>2 DEF Fill, Pool
<1> HIDE DEF r
<1>4. q.heap \in [Buffers -> Data]
  BY DEF Pool
<1>5. r.heap[b] = bytes /\ \A c \in Buffers \ {b} : r.heap[c] = q.heap[c]
  BY <1>1, <1>4
<1>6. r.page[f] = p /\ r.fix[f] = 1 /\ r.data[f] = b
  BY <1>1
<1>7. \A g \in Frames \ {f} : r.page[g] = q.page[g] /\ r.fix[g] = q.fix[g] /\ r.data[g] = q.data[g]
  BY <1>1
<1>8. Filled(q, r, f, p, b, bytes)
  BY <1>1, <1>3, <1>5, <1>6, <1>7 DEF Filled
<1> QED
  BY <1>8 DEF r

(* The other frames are as they were. *)
OthersKept(q, r, f) ==
    \A g \in Frames \ {f} :
        /\ r.page[g] = q.page[g] /\ r.fix[g] = q.fix[g] /\ r.data[g] = q.data[g]
        /\ q.page[g] # NO_PAGE => Bytes(r, g) = Bytes(q, g)

FileKept(q, r) == r.file.present = q.file.present /\ SameReads(q.file, r.file)

(* Frame f held the page, and is pinned once more. *)
FoundAt(q, r, f, p) ==
    /\ q.page[f] = p /\ r.fix[f] = q.fix[f] + 1
    /\ r.data[f] = q.data[f] /\ Bytes(r, f) = Bytes(q, f)

(* The page was in no frame, and enters frame f. *)
EnteredAt(q, r, f, p) ==
    /\ \A g \in Frames : q.page[g] # p /\ q.data[g] # r.data[f]
    /\ \A g \in Frames : g < f => q.page[g] # NO_PAGE
    /\ q.page[f] = NO_PAGE \/ (f = 0 /\ \A g \in Frames : q.page[g] # NO_PAGE)
    /\ r.data[f] \in Buffers
    /\ r.fix[f] = 1
    /\ Bytes(r, f) = readBlock(q.file, p, ZeroPage)

PinnedAt(q, r, f, p) ==
    /\ r \in Pool /\ r.page[f] = p
    /\ OthersKept(q, r, f) /\ FileKept(q, r)
    /\ FoundAt(q, r, f, p) \/ EnteredAt(q, r, f, p)

LEMMA FillEnters ==
  ASSUME NEW q, WellFormed(q), NEW file \in File, file.present = q.file.present,
         SameReads(q.file, file), NEW f \in Frames, NEW p \in Nat, NEW b \in Buffers,
         \A g \in Frames : q.data[g] # b,
         \A g \in Frames : q.page[g] # p,
         \A g \in Frames : g < f => q.page[g] # NO_PAGE,
         q.page[f] = NO_PAGE \/ (f = 0 /\ \A g \in Frames : q.page[g] # NO_PAGE)
  PROVE  PinnedAt(q, Fill([q EXCEPT !.file = file], {f}, p, b, readBlock(file, p, ZeroPage)), f, p)
<1> DEFINE mid == [q EXCEPT !.file = file]
           bytes == readBlock(file, p, ZeroPage)
           r == Fill(mid, {f}, p, b, bytes)
<1>1. /\ mid \in Pool /\ mid.file = file /\ mid.page = q.page /\ mid.fix = q.fix
      /\ mid.data = q.data /\ mid.heap = q.heap
  BY DEF WellFormed, Pool, File
<1> HIDE DEF mid
<1>2. bytes \in Data /\ bytes = readBlock(q.file, p, ZeroPage)
  BY ReadIs DEF SameReads
<1> HIDE DEF bytes
<1>3. Filled(mid, r, f, p, b, bytes)
  BY <1>1, <1>2, FillIs
<1> HIDE DEF r
<1>4. OthersKept(q, r, f)
  <2> SUFFICES ASSUME NEW g \in Frames \ {f}, q.page[g] # NO_PAGE PROVE Bytes(r, g) = Bytes(q, g)
    BY <1>1, <1>3 DEF OthersKept, Filled
  <2>1. q.data[g] \in Buffers /\ q.data[g] # b
    BY Numbers DEF WellFormed, Backed, Pool
  <2> QED
    BY <1>1, <1>3, <2>1 DEF Filled, Bytes
<1>5. EnteredAt(q, r, f, p)
  BY <1>2, <1>3 DEF EnteredAt, Filled, Bytes
<1>6. FileKept(q, r)
  BY <1>1, <1>3 DEF FileKept, Filled
<1>7. PinnedAt(q, r, f, p)
  BY <1>3, <1>4, <1>5, <1>6 DEF PinnedAt, Filled
<1> QED
  BY <1>7 DEF r, mid, bytes

LEMMA StopIs ==
  ASSUME NEW q, NEW p \in Nat, StopsAt(q, p) # {}, NEW f, f = Min(StopsAt(q, p))
  PROVE  /\ f \in Frames /\ q.page[f] \in {NO_PAGE, p}
         /\ \A g \in Frames : g < f => q.page[g] \notin {NO_PAGE, p}
<1> DEFINE S == StopsAt(q, p)
<1>1. S \in SUBSET Nat
  BY Numbers DEF StopsAt
<1>2. f \in S /\ \A n \in S : f <= n
  BY <1>1, MinIs
<1>3. ASSUME NEW g \in Frames, g < f PROVE g \notin S
  BY <1>2, <1>3, Numbers DEF StopsAt
<1> QED
  BY <1>2, <1>3 DEF StopsAt

LEMMA PinIs ==
  ASSUME NEW q, WellFormed(q), NEW p \in Nat
  PROVE  \E f \in Frames : PinnedAt(q, PinPage(q, p), f, p)
<1> DEFINE b == NewBuffer(q, {})
<1>0. b \in Buffers /\ \A f \in Frames : q.data[f] # b
  BY BufferIsNew DEF WellFormed
<1>1. q \in Pool /\ q.file \in File /\ p # NO_PAGE /\ q.strategy = "RS_LRU"
  BY Numbers DEF WellFormed, Pool, File
<1>a. PinPage(q, p) = Pin(q, p, b, ZeroPage)
  BY DEF PinPage
<1>b. [q EXCEPT !.file = q.file] = q /\ SameReads(q.file, q.file)
  BY <1>1 DEF Pool, SameReads
<1> HIDE DEF b
<1>2. CASE q.page[0] = NO_PAGE
  <2> DEFINE file == ensureCapacity(q.file, p)
  <2>0. StopsAt(q, p) # {}
    BY <1>2, Numbers DEF StopsAt
  <2>1. PinPage(q, p) = PinFirst(q, p, b, ZeroPage)
    BY <1>2, <1>a, <2>0 DEF Pin
  <2>2. file \in File /\ file.present = q.file.present /\ SameReads(q.file, file)
    BY <1>1, RoomIs
  <2>3. PinPage(q, p) = Fill([q EXCEPT !.file = file], {0}, p, b, readBlock(file, p, ZeroPage))
    BY <2>1 DEF PinFirst
  <2> HIDE DEF file
  <2>4. \A f \in Frames : q.page[f] = NO_PAGE
    <3>1. \A f \in Frames : f = 0 \/ 0 < f
      BY Numbers
    <3> QED
      BY <1>2, <3>1, Numbers DEF WellFormed, FilledFirst
  <2>5. /\ \A g \in Frames : q.page[g] # p
        /\ \A g \in Frames : g < 0 => q.page[g] # NO_PAGE
    BY <1>1, <2>4, Numbers
  <2>a. 0 \in Frames /\ (q.page[0] = NO_PAGE \/ (0 = 0 /\ \A g \in Frames : q.page[g] # NO_PAGE))
    BY <1>2, Numbers
  <2>b. PinnedAt(q, Fill([q EXCEPT !.file = file], {0}, p, b, readBlock(file, p, ZeroPage)), 0, p)
    BY <1>0, <2>2, <2>5, <2>a, FillEnters
  <2>6. PinnedAt(q, PinPage(q, p), 0, p)
    BY <2>3, <2>b
  <2> QED
    BY <2>6, Numbers
<1>3. CASE q.page[0] # NO_PAGE /\ StopsAt(q, p) # {}
  <2> DEFINE f == Min(StopsAt(q, p))
  <2>1. /\ f \in Frames /\ q.page[f] \in {NO_PAGE, p}
        /\ \A g \in Frames : g < f => q.page[g] \notin {NO_PAGE, p}
    BY <1>3, StopIs
  <2>2. PinPage(q, p) = PinFound(q, p, b, ZeroPage)
    BY <1>3, <1>a DEF Pin
  <2>3. CASE q.page[f] = p
    <3>1. PinPage(q, p) = [q EXCEPT !.fix[f] = @ + 1]
      BY <2>2, <2>3 DEF PinFound
    <3> HIDE DEF f
    <3> DEFINE fix == [q.fix EXCEPT ![f] = @ + 1]
               t == [q EXCEPT !.fix = fix]
    <3>2. [q EXCEPT !.fix[f] = @ + 1] = t
      BY <1>1 DEF Pool
    <3>3. fix \in [Frames -> Int] /\ fix[f] = q.fix[f] + 1 /\ \A g \in Frames \ {f} : fix[g] = q.fix[g]
      BY <1>1, <2>1 DEF Pool
    <3> HIDE DEF fix
    <3>4. /\ t \in Pool /\ t.fix = fix /\ t.page = q.page
          /\ t.data = q.data /\ t.heap = q.heap /\ t.file = q.file
      BY <1>1, <3>3 DEF Pool
    <3> HIDE DEF t
    <3>5. PinnedAt(q, t, f, p)
      BY <2>3, <3>3, <3>4, <1>b DEF PinnedAt, OthersKept, FileKept, FoundAt, Bytes
    <3> QED
      BY <2>1, <3>1, <3>2, <3>5
  <2>4. CASE q.page[f] # p
    <3>1. PinPage(q, p) = Fill([q EXCEPT !.file = q.file], {f}, p, b, readBlock(q.file, p, ZeroPage))
      BY <1>b, <2>2, <2>4 DEF PinFound
    <3> HIDE DEF f
    <3>2. q.page[f] = NO_PAGE
      BY <2>1, <2>4
    <3>3. \A g \in Frames : q.page[g] # p
      <4>2. \A g \in Frames : f < g => q.page[g] = NO_PAGE
        BY <2>1, <3>2 DEF WellFormed, FilledFirst
      <4>3. \A g \in Frames : g < f \/ g = f \/ f < g
        BY <2>1, Numbers
      <4> QED
        BY <1>1, <2>1, <2>4, <4>2, <4>3
    <3>4. \A g \in Frames : g < f => q.page[g] # NO_PAGE
      BY <2>1
    <3>5. PinnedAt(q, PinPage(q, p), f, p)
      BY <1>0, <1>1, <1>b, <2>1, <3>1, <3>2, <3>3, <3>4, FillEnters
    <3> QED
      BY <2>1, <3>5
  <2> QED
    BY <2>3, <2>4
<1>4. CASE StopsAt(q, p) = {}
  <2>1. \A f \in Frames : q.page[f] # NO_PAGE /\ q.page[f] # p
    BY <1>4 DEF StopsAt
  <2>2. q.page[0] # NO_PAGE /\ ~(q.page[0] # NO_PAGE /\ StopsAt(q, p) # {})
    BY <1>4, <2>1, Numbers
  <2>3. PinPage(q, p) = LRU(q, p, b, ZeroPage)
    BY <1>1, <1>4, <1>a, <2>2 DEF Pin
  <2>4. PinPage(q, p) = Fill([q EXCEPT !.file = q.file], {0}, p, b, readBlock(q.file, p, ZeroPage))
    BY <1>b, <2>3 DEF LRU
  <2>5. PinnedAt(q, PinPage(q, p), 0, p)
    BY <1>0, <1>1, <1>b, <2>1, <2>4, Numbers, FillEnters
  <2> QED
    BY <2>5, Numbers
<1> QED
  BY <1>2, <1>3, <1>4

LEMMA PinnedKeeps ==
  ASSUME NEW q, WellFormed(q), NEW r, NEW f \in Frames, NEW p \in Nat, PinnedAt(q, r, f, p)
  PROVE  WellFormed(r)
<1> USE DEF PinnedAt, OthersKept
<1>0. p # NO_PAGE
  BY Numbers
<1>1. CASE FoundAt(q, r, f, p)
  <2>1. \A g \in Frames : r.page[g] = q.page[g] /\ r.data[g] = q.data[g]
    BY <1>1 DEF FoundAt
  <2> QED
    BY <2>1 DEF WellFormed, FilledFirst, Backed, Distinct
<1>2. CASE EnteredAt(q, r, f, p)
  <2>1. FilledFirst(r)
    <3> SUFFICES ASSUME NEW g \in Frames, NEW h \in Frames, g < h, r.page[g] = NO_PAGE
                 PROVE  r.page[h] = NO_PAGE
      BY DEF FilledFirst
    <3>1. g # f
      BY <1>0
    <3>2. q.page[g] = NO_PAGE
      BY <3>1
    <3>3. q.page[h] = NO_PAGE
      BY <3>2 DEF WellFormed, FilledFirst
    <3>4. h # f
      BY <1>2, <3>2 DEF EnteredAt
    <3> QED
      BY <3>3, <3>4
  <2>2. Backed(r)
    BY <1>2, Numbers DEF Backed, WellFormed, EnteredAt
  <2>3. Distinct(r)
    <3> SUFFICES ASSUME NEW g \in Frames, NEW h \in Frames, g # h, r.page[g] # NO_PAGE, r.page[h] # NO_PAGE
                 PROVE  r.page[g] # r.page[h] /\ r.data[g] # r.data[h]
      BY DEF Distinct
    <3>1. CASE g = f
      BY <1>2, <3>1 DEF EnteredAt
    <3>2. CASE h = f
      BY <1>2, <3>2 DEF EnteredAt
    <3>3. CASE g # f /\ h # f
      BY <3>3 DEF WellFormed, Distinct
    <3> QED
      BY <3>1, <3>2, <3>3
  <2> QED
    BY <2>1, <2>2, <2>3 DEF WellFormed
<1> QED
  BY <1>1, <1>2

(* What every pin of a page does. *)
LEMMA PinKeeps ==
  ASSUME NEW q, WellFormed(q), NEW p \in Nat
  PROVE  /\ WellFormed(PinPage(q, p))
         /\ \E f \in Frames : /\ PinnedAt(q, PinPage(q, p), f, p)
                              /\ PinPage(q, p).page[f] = p
                              /\ PageBytes(PinPage(q, p), p) = Bytes(PinPage(q, p), f)
                              /\ DeliveredBy(PinPage(q, p), p) = Bytes(PinPage(q, p), f)
<1>1. PICK f \in Frames : PinnedAt(q, PinPage(q, p), f, p)
  BY PinIs
<1>2. WellFormed(PinPage(q, p))
  BY <1>1, PinnedKeeps
<1>3. PinPage(q, p).page[f] = p
  BY <1>1 DEF PinnedAt
<1> QED
  BY <1>1, <1>2, <1>3, FrameOf

-----------------------------------------------------------------------------
(* The other calls.                                                          *)

(* r differs from q in fix counts, in dirty flags, and in what was written to the file
   of pages that are in frames. *)
SamePages(q, r) ==
    /\ r \in Pool /\ r.file.present = q.file.present
    /\ r.page = q.page /\ r.data = q.data /\ r.heap = q.heap
    /\ \A o \in Nat : FramesOf(q, o) = {} => readBlock(r.file, o, ZeroPage) = readBlock(q.file, o, ZeroPage)

LEMMA UnpinIs ==
  ASSUME NEW q, WellFormed(q), NEW p
  PROVE  /\ SamePages(q, Unpin(q, p))
         /\ \A f \in Frames : Unpin(q, p).fix[f] = IF q.page[f] = p THEN q.fix[f] - 1 ELSE q.fix[f]
<1> DEFINE fix == [f \in Frames |-> IF q.page[f] = p THEN q.fix[f] - 1 ELSE q.fix[f]]
           r == [q EXCEPT !.fix = fix]
<1>1. fix \in [Frames -> Int] /\ \A f \in Frames : fix[f] = IF q.page[f] = p THEN q.fix[f] - 1 ELSE q.fix[f]
  BY DEF WellFormed, Pool
<1>2. Unpin(q, p) = r
  BY DEF Unpin
<1> HIDE DEF fix
<1>3. r \in Pool /\ r.file = q.file /\ r.page = q.page /\ r.data = q.data /\ r.heap = q.heap /\ r.fix = fix
  BY <1>1 DEF WellFormed, Pool
<1> HIDE DEF r
<1> QED
  BY <1>1, <1>2, <1>3 DEF SamePages

LEMMA MarkDirtyIs ==
  ASSUME NEW q, WellFormed(q)
  PROVE  SamePages(q, MarkDirty(q)) /\ MarkDirty(q).fix = q.fix
<1>1. [f \in Frames |-> TRUE] \in [Frames -> BOOLEAN]
  OBVIOUS
<1>2. MarkDirty(q) \in Pool /\ MarkDirty(q).file = q.file
      /\ MarkDirty(q).page = q.page /\ MarkDirty(q).fix = q.fix
      /\ MarkDirty(q).data = q.data /\ MarkDirty(q).heap = q.heap
  BY <1>1 DEF MarkDirty, WellFormed, Pool
<1> QED
  BY <1>2 DEF SamePages

LEMMA WritingIs ==
  ASSUME NEW q, WellFormed(q), NEW S \in SUBSET Frames, NEW dirty \in [Frames -> BOOLEAN]
  PROVE  LET r == [q EXCEPT !.file = writeBlocks(q, S), !.dirty = dirty] IN
         SamePages(q, r) /\ r.fix = q.fix
<1> DEFINE file == writeBlocks(q, S)
           r == [q EXCEPT !.file = file, !.dirty = dirty]
<1>1. Written(q, S, file)
  BY WriteBlocksIs
<1> HIDE DEF file
<1>2. file \in File /\ file.present = q.file.present
  BY <1>1 DEF Written
<1>3. /\ r \in Pool /\ r.file = file
      /\ r.page = q.page /\ r.fix = q.fix /\ r.data = q.data /\ r.heap = q.heap
  BY <1>2 DEF WellFormed, Pool, File
<1> HIDE DEF r
<1>4. ASSUME NEW o \in Nat, FramesOf(q, o) = {}
      PROVE  readBlock(file, o, ZeroPage) = readBlock(q.file, o, ZeroPage)
  BY <1>1, <1>4 DEF Written, FramesOf
<1>5. SamePages(q, r)
  BY <1>2, <1>3, <1>4 DEF SamePages
<1> QED
  BY <1>3, <1>5 DEF r, file

LEMMA FlushIs ==
  ASSUME NEW q, WellFormed(q)
  PROVE  SamePages(q, ForceFlushPool(q)) /\ ForceFlushPool(q).fix = q.fix
<1> DEFINE S == ToFlush(q)
<1>1. S \in SUBSET Frames /\ q.dirty \in [Frames -> BOOLEAN]
  BY DEF ToFlush, UnfixedIn, WellFormed, Pool
<1>2. [q EXCEPT !.file = writeBlocks(q, S), !.dirty = q.dirty] = [q EXCEPT !.file = writeBlocks(q, S)]
  BY DEF WellFormed, Pool
<1> HIDE DEF S
<1>3. LET r == [q EXCEPT !.file = writeBlocks(q, S), !.dirty = q.dirty] IN SamePages(q, r) /\ r.fix = q.fix
  BY <1>1, WritingIs
<1> QED
  BY <1>2, <1>3 DEF ForceFlushPool, S

LEMMA ForceIs ==
  ASSUME NEW q, WellFormed(q), NEW p
  PROVE  SamePages(q, ForcePage(q, p)) /\ ForcePage(q, p).fix = q.fix
<1> DEFINE S == FramesOf(q, p)
           dirty == [g \in Frames |-> q.dirty[g] /\ ~(q.file.present /\ q.page[g] = p)]
           r == [q EXCEPT !.file = writeBlocks(q, S), !.dirty = dirty]
<1>1. S \in SUBSET Frames /\ dirty \in [Frames -> BOOLEAN]
  BY DEF FramesOf, WellFormed, Pool
<1>2. ForcePage(q, p) = r
  BY DEF ForcePage, WellFormed, Pool
<1> HIDE DEF S, dirty
<1>3. SamePages(q, r) /\ r.fix = q.fix
  BY <1>1, WritingIs
<1> QED
  BY <1>2, <1>3

LEMMA SamePagesKeeps ==
  ASSUME NEW q, WellFormed(q), NEW r, SamePages(q, r)
  PROVE  /\ WellFormed(r) /\ \A o : FramesOf(r, o) = FramesOf(q, o)
         /\ \A o : PageBytes(r, o) = PageBytes(q, o)
         /\ \A o \in Nat : DeliveredBy(r, o) = DeliveredBy(q, o)
<1>1. WellFormed(r) /\ \A o : FramesOf(r, o) = FramesOf(q, o)
  BY DEF SamePages, WellFormed, FilledFirst, Backed, Distinct, FramesOf
<1>2. \A o : PageBytes(r, o) = PageBytes(q, o)
  BY <1>1 DEF SamePages, PageBytes, Bytes
<1> QED
  BY <1>1, <1>2 DEF SamePages, DeliveredBy

WithSlot(bytes, slot, content) == [bytes EXCEPT ![slot] = content]

(* Writing to a slot of a page that is in a frame. *)
LEMMA SetSlotIs ==
  ASSUME NEW q, WellFormed(q), NEW r \in [page : Nat, slot : Slots], FramesOf(q, r.page) # {},
         NEW content \in Contents
  PROVE  LET t == SetSlot(q, r, content) IN
         /\ WellFormed(t) /\ t.page = q.page /\ t.fix = q.fix /\ t.file = q.file
         /\ \A o : FramesOf(t, o) = FramesOf(q, o)
         /\ PageBytes(t, r.page) = WithSlot(PageBytes(q, r.page), r.slot, content)
         /\ \A o \in Nat \ {r.page} : DeliveredBy(t, o) = DeliveredBy(q, o)
<1> DEFINE t == SetSlot(q, r, content)
<1>1. PICK f \in Frames : q.page[f] = r.page
  BY DEF FramesOf
<1>2. r.page \in Nat /\ r.slot \in Slots
  OBVIOUS
<1>3. /\ Min(FramesOf(q, r.page)) = f /\ q.data[f] \in Buffers /\ Bytes(q, f) \in Data
      /\ PageBytes(q, r.page) = Bytes(q, f)
  BY <1>1, <1>2, FrameOf
<1> DEFINE b == q.data[f]
           bytes == [q.heap[b] EXCEPT ![r.slot] = content]
           heap == [q.heap EXCEPT ![b] = bytes]
           u == [q EXCEPT !.heap = heap]
<1>4. t = u
  <2>1. t = [q EXCEPT !.heap[b][r.slot] = content]
    BY <1>3 DEF SetSlot
  <2>2. [q EXCEPT !.heap[b][r.slot] = content] = u
    BY <1>3 DEF WellFormed, Pool
  <2> QED
    BY <2>1, <2>2
<1>5. bytes \in Data /\ bytes = [Bytes(q, f) EXCEPT ![r.slot] = content]
  BY <1>2, <1>3 DEF Bytes, Data
<1> HIDE DEF bytes, b
<1>6. /\ heap \in [Buffers -> Data] /\ heap[b] = bytes
      /\ \A c \in Buffers \ {b} : heap[c] = q.heap[c]
  <2>1. q.heap \in [Buffers -> Data] /\ b \in Buffers
    BY <1>3 DEF WellFormed, Pool, b
  <2> QED
    BY <1>5, <2>1
<1> HIDE DEF heap
<1>7. /\ u \in Pool /\ u.heap = heap /\ u.page = q.page /\ u.fix = q.fix
      /\ u.data = q.data /\ u.file = q.file
  BY <1>6 DEF WellFormed, Pool
<1> HIDE DEF u
<1>8. WellFormed(u) /\ \A o : FramesOf(u, o) = FramesOf(q, o)
  BY <1>7 DEF WellFormed, FilledFirst, Backed, Distinct, FramesOf
<1>9. PageBytes(u, r.page) = bytes
  BY <1>3, <1>6, <1>7, <1>8 DEF PageBytes, Bytes, b
<1>10. ASSUME NEW o \in Nat \ {r.page} PROVE DeliveredBy(u, o) = DeliveredBy(q, o)
  <2>1. CASE FramesOf(q, o) = {}
    BY <1>7, <1>8, <2>1 DEF DeliveredBy
  <2>2. CASE FramesOf(q, o) # {}
    <3>1. PICK g \in Frames : q.page[g] = o
      BY <2>2 DEF FramesOf
    <3>2. DeliveredBy(q, o) = Bytes(q, g) /\ DeliveredBy(u, o) = Bytes(u, g) /\ q.data[g] \in Buffers
      BY <1>7, <1>8, <3>1, FrameOf
    <3>3. q.data[g] # b
      BY <1>1, <1>2, <3>1, Numbers DEF WellFormed, Distinct, b
    <3> QED
      BY <1>6, <1>7, <3>2, <3>3 DEF Bytes
  <2> QED
    BY <2>1, <2>2
<1>11. PageBytes(u, r.page) = WithSlot(PageBytes(q, r.page), r.slot, content)
  BY <1>3, <1>5, <1>9 DEF WithSlot
<1> HIDE DEF t
<1> QED
  BY <1>3, <1>4, <1>7, <1>8, <1>10, <1>11 DEF t

-----------------------------------------------------------------------------
(* The rounds of a loop, one after the other. *)

Tried(start, first, n) == FoldLeft(TryPage, start, [i \in 1 .. n |-> first + i - 1])
Looped(start, n) == FoldLeft(ScanSlot, start, [i \in 1 .. n |-> i])

(* The search for a place. *)
LEMMA TriedRounds ==
  ASSUME NEW start, NEW first \in Int, NEW n \in Nat
  PROVE  \E at : /\ at[0] = start
                 /\ \A k \in 1 .. n : at[k] = TryPage(at[k - 1], first + k - 1)
                 /\ Tried(start, first, n) = at[n]
<1> DEFINE seq == [i \in 1 .. n |-> first + i - 1]
           Rounds(iter, m) ==
               iter = [s \in SUBSET (1 .. m) |->
                          IF s = {} THEN start ELSE TryPage(iter[s \ {Max(s)}], first + Max(s) - 1)]
           S == {m \in Nat : \E iter : Rounds(iter, m)}
<1>1. 0 \in S
  <2>1. SUBSET (1 .. 0) = {{}}
    OBVIOUS
  <2>2. Rounds([s \in SUBSET (1 .. 0) |-> start], 0)
    BY <2>1
  <2> QED
    BY <2>2
<1>2. ASSUME NEW m \in S PROVE m + 1 \in S
  <2>1. PICK iter : Rounds(iter, m)
    BY <1>2
  <2>a. m \in Nat /\ m + 1 \in Nat
    BY <1>2
  <2> DEFINE new == [s \in SUBSET (1 .. m + 1) |->
                        IF m + 1 \in s THEN TryPage(iter[s \ {m + 1}], first + (m + 1) - 1) ELSE iter[s]]
  <2>2. ASSUME NEW s \in SUBSET (1 .. m + 1)
        PROVE  new[s] = IF s = {} THEN start ELSE TryPage(new[s \ {Max(s)}], first + Max(s) - 1)
    <3>1. CASE s = {}
      BY <2>1, <3>1
    <3>2. CASE m + 1 \in s
      <4>1. Max(s) = m + 1
        <5>1. \A x \in s : m + 1 >= x /\ x \in Nat
          BY <2>a
        <5>2. \A x \in s : (\A y \in s : x >= y) => x = m + 1
          BY <2>a, <3>2, <5>1
        <5> QED
          BY <3>2, <5>1, <5>2 DEF Max
      <4>2. s \ {m + 1} \in SUBSET (1 .. m) /\ s \ {m + 1} \in SUBSET (1 .. m + 1)
        BY <2>a
      <4>3. new[s \ {m + 1}] = iter[s \ {m + 1}]
        BY <4>2
      <4> QED
        BY <3>2, <4>1, <4>3
    <3>3. CASE s # {} /\ m + 1 \notin s
      <4>1. s \in SUBSET (1 .. m)
        BY <2>a, <3>3
      <4>2. s \ {Max(s)} \in SUBSET (1 .. m) /\ s \ {Max(s)} \in SUBSET (1 .. m + 1)
            /\ m + 1 \notin s \ {Max(s)}
        BY <3>3, <4>1
      <4>3. new[s \ {Max(s)}] = iter[s \ {Max(s)}]
        BY <4>2
      <4>4. new[s] = iter[s]
        BY <3>3
      <4>5. iter[s] = TryPage(iter[s \ {Max(s)}], first + Max(s) - 1)
        BY <2>1, <3>3, <4>1
      <4> QED
        BY <3>3, <4>3, <4>4, <4>5
    <3> QED
      BY <3>1, <3>2, <3>3
  <2>3. Rounds(new, m + 1)
    BY <2>2
  <2> QED
    BY <2>3, <2>a
<1>3. n \in S
  <2>1. S \in SUBSET Nat
    OBVIOUS
  <2> HIDE DEF S
  <2> QED
    BY <1>1, <1>2, <2>1, AllNumbers
<1> DEFINE Folds(f) == f = [s \in SUBSET (DOMAIN seq) |->
                               IF s = {} THEN start ELSE TryPage(f[s \ {Max(s)}], seq[Max(s)])]
           iter == CHOOSE f : Folds(f)
           at == [k \in 0 .. n |-> iter[1 .. k]]
<1>4. Rounds(iter, n)
  <2>2. DOMAIN seq = 1 .. n
    OBVIOUS
  <2>3. ASSUME NEW f
        PROVE  [s \in SUBSET (DOMAIN seq) |->
                   IF s = {} THEN start ELSE TryPage(f[s \ {Max(s)}], seq[Max(s)])] =
               [s \in SUBSET (1 .. n) |->
                   IF s = {} THEN start ELSE TryPage(f[s \ {Max(s)}], first + Max(s) - 1)]
    <3>1. ASSUME NEW s \in SUBSET (1 .. n), s # {}
          PROVE  seq[Max(s)] = first + Max(s) - 1
      <4>1. s \in SUBSET Nat /\ \A x \in s : x <= n
        OBVIOUS
      <4>2. Max(s) \in s
        BY <3>1, <4>1, MaxIs
      <4>3. Max(s) \in 1 .. n
        BY <4>2
      <4> QED
        BY <4>3
    <3> QED
      BY <2>2, <3>1
  <2> HIDE DEF seq
  <2>4. \A f : Folds(f) <=> Rounds(f, n)
    BY <2>3
  <2>5. \E f : Folds(f)
    BY <1>3, <2>4
  <2>6. Folds(iter)
    <3> HIDE DEF Folds
    <3> QED
      BY <2>5
  <2> QED
    BY <2>4, <2>6
<1>5. FoldLeft(TryPage, start, seq) = iter[1 .. n]
  <2>1. FoldLeft(TryPage, start, seq) = iter[DOMAIN seq]
    BY Zenon DEF FoldLeft, MapThenFoldSet
  <2>2. DOMAIN seq = 1 .. n
    OBVIOUS
  <2> QED
    BY <2>1, <2>2
<1> HIDE DEF iter, seq
<1>6. at[0] = start
  <2>1. 1 .. 0 = {} /\ {} \in SUBSET (1 .. n)
    OBVIOUS
  <2>2. iter[{}] = start
    BY <1>4, <2>1
  <2> QED
    BY <2>1, <2>2
<1>7. ASSUME NEW k \in 1 .. n PROVE at[k] = TryPage(at[k - 1], first + k - 1)
  <2>1. 1 .. k \in SUBSET (1 .. n) /\ 1 .. k # {} /\ k \in 0 .. n /\ k - 1 \in 0 .. n
    OBVIOUS
  <2>2. Max(1 .. k) = k
    <3>1. k \in 1 .. k /\ \A x \in 1 .. k : k >= x
      OBVIOUS
    <3>2. \A x \in 1 .. k : (\A y \in 1 .. k : x >= y) => x = k
      BY <3>1
    <3> QED
      BY <3>1, <3>2 DEF Max
  <2>3. (1 .. k) \ {k} = 1 .. k - 1
    OBVIOUS
  <2>4. iter[1 .. k] = TryPage(iter[(1 .. k) \ {Max(1 .. k)}], first + Max(1 .. k) - 1)
    BY <1>4, <2>1
  <2> QED
    BY <2>1, <2>2, <2>3, <2>4
<1>8. Tried(start, first, n) = at[n]
  <2>1. Tried(start, first, n) = FoldLeft(TryPage, start, seq)
    BY Zenon DEF Tried, seq
  <2>2. at[n] = iter[1 .. n]
    OBVIOUS
  <2> QED
    BY <1>5, <2>1, <2>2, Zenon
<1> HIDE DEF at
<1> QED
  BY <1>6, <1>7, <1>8

(* The loop of next. *)
LEMMA ScanRounds ==
  ASSUME NEW start, NEW n \in Nat
  PROVE  \E at : /\ at[0] = start
                 /\ \A k \in 1 .. n : at[k] = ScanSlot(at[k - 1], k)
                 /\ Looped(start, n) = at[n]
<1> DEFINE seq == [i \in 1 .. n |-> i]
           Rounds(iter, m) ==
               iter = [s \in SUBSET (1 .. m) |->
                          IF s = {} THEN start ELSE ScanSlot(iter[s \ {Max(s)}], Max(s))]
           S == {m \in Nat : \E iter : Rounds(iter, m)}
<1>1. 0 \in S
  <2>1. SUBSET (1 .. 0) = {{}}
    OBVIOUS
  <2>2. Rounds([s \in SUBSET (1 .. 0) |-> start], 0)
    BY <2>1
  <2> QED
    BY <2>2
<1>2. ASSUME NEW m \in S PROVE m + 1 \in S
  <2>1. PICK iter : Rounds(iter, m)
    BY <1>2
  <2>a. m \in Nat /\ m + 1 \in Nat
    BY <1>2
  <2> DEFINE new == [s \in SUBSET (1 .. m + 1) |->
                        IF m + 1 \in s THEN ScanSlot(iter[s \ {m + 1}], (m + 1)) ELSE iter[s]]
  <2>2. ASSUME NEW s \in SUBSET (1 .. m + 1)
        PROVE  new[s] = IF s = {} THEN start ELSE ScanSlot(new[s \ {Max(s)}], Max(s))
    <3>1. CASE s = {}
      BY <2>1, <3>1
    <3>2. CASE m + 1 \in s
      <4>1. Max(s) = m + 1
        <5>1. \A x \in s : m + 1 >= x /\ x \in Nat
          BY <2>a
        <5>2. \A x \in s : (\A y \in s : x >= y) => x = m + 1
          BY <2>a, <3>2, <5>1
        <5> QED
          BY <3>2, <5>1, <5>2 DEF Max
      <4>2. s \ {m + 1} \in SUBSET (1 .. m) /\ s \ {m + 1} \in SUBSET (1 .. m + 1)
        BY <2>a
      <4>3. new[s \ {m + 1}] = iter[s \ {m + 1}]
        BY <4>2
      <4> QED
        BY <3>2, <4>1, <4>3
    <3>3. CASE s # {} /\ m + 1 \notin s
      <4>1. s \in SUBSET (1 .. m)
        BY <2>a, <3>3
      <4>2. s \ {Max(s)} \in SUBSET (1 .. m) /\ s \ {Max(s)} \in SUBSET (1 .. m + 1)
            /\ m + 1 \notin s \ {Max(s)}
        BY <3>3, <4>1
      <4>3. new[s \ {Max(s)}] = iter[s \ {Max(s)}]
        BY <4>2
      <4>4. new[s] = iter[s]
        BY <3>3
      <4>5. iter[s] = ScanSlot(iter[s \ {Max(s)}], Max(s))
        BY <2>1, <3>3, <4>1
      <4> QED
        BY <3>3, <4>3, <4>4, <4>5
    <3> QED
      BY <3>1, <3>2, <3>3
  <2>3. Rounds(new, m + 1)
    BY <2>2
  <2> QED
    BY <2>3, <2>a
<1>3. n \in S
  <2>1. S \in SUBSET Nat
    OBVIOUS
  <2> HIDE DEF S
  <2> QED
    BY <1>1, <1>2, <2>1, AllNumbers
<1> DEFINE Folds(f) == f = [s \in SUBSET (DOMAIN seq) |->
                               IF s = {} THEN start ELSE ScanSlot(f[s \ {Max(s)}], seq[Max(s)])]
           iter == CHOOSE f : Folds(f)
           at == [k \in 0 .. n |-> iter[1 .. k]]
<1>4. Rounds(iter, n)
  <2>2. DOMAIN seq = 1 .. n
    OBVIOUS
  <2>3. ASSUME NEW f
        PROVE  [s \in SUBSET (DOMAIN seq) |->
                   IF s = {} THEN start ELSE ScanSlot(f[s \ {Max(s)}], seq[Max(s)])] =
               [s \in SUBSET (1 .. n) |->
                   IF s = {} THEN start ELSE ScanSlot(f[s \ {Max(s)}], Max(s))]
    <3>1. ASSUME NEW s \in SUBSET (1 .. n), s # {}
          PROVE  seq[Max(s)] = Max(s)
      <4>1. s \in SUBSET Nat /\ \A x \in s : x <= n
        OBVIOUS
      <4>2. Max(s) \in s
        BY <3>1, <4>1, MaxIs
      <4>3. Max(s) \in 1 .. n
        BY <4>2
      <4> QED
        BY <4>3
    <3> QED
      BY <2>2, <3>1
  <2> HIDE DEF seq
  <2>4. \A f : Folds(f) <=> Rounds(f, n)
    BY <2>3
  <2>5. \E f : Folds(f)
    BY <1>3, <2>4
  <2>6. Folds(iter)
    <3> HIDE DEF Folds
    <3> QED
      BY <2>5
  <2> QED
    BY <2>4, <2>6
<1>5. FoldLeft(ScanSlot, start, seq) = iter[1 .. n]
  <2>1. FoldLeft(ScanSlot, start, seq) = iter[DOMAIN seq]
    BY Zenon DEF FoldLeft, MapThenFoldSet
  <2>2. DOMAIN seq = 1 .. n
    OBVIOUS
  <2> QED
    BY <2>1, <2>2
<1> HIDE DEF iter, seq
<1>6. at[0] = start
  <2>1. 1 .. 0 = {} /\ {} \in SUBSET (1 .. n)
    OBVIOUS
  <2>2. iter[{}] = start
    BY <1>4, <2>1
  <2> QED
    BY <2>1, <2>2
<1>7. ASSUME NEW k \in 1 .. n PROVE at[k] = ScanSlot(at[k - 1], k)
  <2>1. 1 .. k \in SUBSET (1 .. n) /\ 1 .. k # {} /\ k \in 0 .. n /\ k - 1 \in 0 .. n
    OBVIOUS
  <2>2. Max(1 .. k) = k
    <3>1. k \in 1 .. k /\ \A x \in 1 .. k : k >= x
      OBVIOUS
    <3>2. \A x \in 1 .. k : (\A y \in 1 .. k : x >= y) => x = k
      BY <3>1
    <3> QED
      BY <3>1, <3>2 DEF Max
  <2>3. (1 .. k) \ {k} = 1 .. k - 1
    OBVIOUS
  <2>4. iter[1 .. k] = ScanSlot(iter[(1 .. k) \ {Max(1 .. k)}], Max(1 .. k))
    BY <1>4, <2>1
  <2> QED
    BY <2>1, <2>2, <2>3, <2>4
<1>8. Looped(start, n) = at[n]
  <2>1. Looped(start, n) = FoldLeft(ScanSlot, start, seq)
    BY Zenon DEF Looped, seq
  <2>2. at[n] = iter[1 .. n]
    OBVIOUS
  <2> QED
    BY <1>5, <2>1, <2>2, Zenon
<1> HIDE DEF at
<1> QED
  BY <1>6, <1>7, <1>8

-----------------------------------------------------------------------------
(* The inductive invariant for the types.                                    *)

(* The RecMgr of a scan. *)
ScanState ==
    [on : BOOLEAN, page : Nat \ {0}, slot : Slots, count : Nat, cond : Conditions \cup {{}},
     pinned : Nat \cup {NO_PAGE}, seen : SUBSET Rids, still : BOOLEAN]

(* The count of a scan is the number of its slot. *)
Counted(sc) == sc.count = (sc.page - 1) * SlotsPerPage + sc.slot

SteadyScan(sc) ==
    /\ sc \in ScanState /\ Counted(sc)
    /\ sc.still => sc.on /\ sc.count <= ATTRIBUTE_SZ + 1
    /\ ~sc.on => sc = NoScan

ScansSteady ==
    /\ scan \in [Scans -> ScanState]
    /\ \A s \in Scans : SteadyScan(scan[s]) /\ (scan[s].still => tCount = ATTRIBUTE_SZ)

Types ==
    /\ mgr \in {"none", "created", "open", "closed", "hung", "crashed"}
    /\ WellFormed(bp) /\ tCount \in Nat /\ freePg \in 0 .. MaxPage /\ inserted \in BOOLEAN

OpenTable == mgr = "open" => freePg >= 1 /\ bp.file.present

IInv == Types /\ ScansSteady /\ OpenTable

-----------------------------------------------------------------------------
(* The pages of a table.                                                     *)

LEMMA Product ==
  ASSUME NEW a \in Nat, NEW b \in Nat
  PROVE  a * b \in Nat
OBVIOUS

LEMMA WithinPages ==
  ASSUME NEW page \in Nat \ {0}, NEW n \in Nat, NEW slot \in Slots,
         (page - 1) * SlotsPerPage + slot < n * SlotsPerPage
  PROVE  page <= n
<1> SUFFICES ASSUME page > n PROVE FALSE
  OBVIOUS
<1>1. SlotsPerPage \in Nat /\ slot \in Nat
  BY SlotsAssumption DEF Slots
<1>2. PICK d \in Nat : page - 1 = n + d
  <2>1. page - 1 - n \in Nat /\ page - 1 = n + (page - 1 - n)
    OBVIOUS
  <2> QED
    BY <2>1
<1>3. (n + d) * SlotsPerPage = n * SlotsPerPage + d * SlotsPerPage
  BY <1>1
<1>4. d * SlotsPerPage \in Nat /\ n * SlotsPerPage \in Nat
  BY <1>1, Product
<1>5. (page - 1) * SlotsPerPage = n * SlotsPerPage + d * SlotsPerPage
  BY <1>2, <1>3
<1> HIDE DEF Slots
<1> QED
  BY <1>1, <1>4, <1>5

(* A place has one number. *)
LEMMA OnePlace ==
  ASSUME NEW p \in Nat \ {0}, NEW o \in Nat \ {0}, NEW s \in Slots, NEW t \in Slots,
         (p - 1) * SlotsPerPage + s = (o - 1) * SlotsPerPage + t
  PROVE  p = o /\ s = t
<1>1. SlotsPerPage \in Nat /\ s \in Nat /\ t \in Nat /\ s < SlotsPerPage /\ t < SlotsPerPage
      /\ (p - 1) * SlotsPerPage \in Nat /\ (o - 1) * SlotsPerPage \in Nat
  BY SlotsAssumption, Product DEF Slots
<1>2. (p - 1) * SlotsPerPage + SlotsPerPage = p * SlotsPerPage
      /\ (o - 1) * SlotsPerPage + SlotsPerPage = o * SlotsPerPage
  BY <1>1
<1>3. p * SlotsPerPage \in Nat /\ o * SlotsPerPage \in Nat
  BY <1>1, Product
<1>4. (p - 1) * SlotsPerPage + s < o * SlotsPerPage
  BY <1>1, <1>2, <1>3
<1>5. (o - 1) * SlotsPerPage + t < p * SlotsPerPage
  BY <1>1, <1>2, <1>3
<1>6. p <= o /\ o <= p
  BY <1>4, <1>5, WithinPages
<1>7. p = o
  BY <1>6
<1> QED
  BY <1>1, <1>7

(* The scan moves on to the next place. *)
LEMMA AdvancedIs ==
  ASSUME NEW sc, SteadyScan(sc)
  PROVE  LET a == Advanced(sc) IN
         /\ a \in ScanState
         /\ (a.page - 1) * SlotsPerPage + a.slot = sc.count + 1
         /\ a.on = sc.on /\ a.count = sc.count /\ a.cond = sc.cond /\ a.pinned = sc.pinned
         /\ a.seen = sc.seen /\ a.still = sc.still
<1> DEFINE a == Advanced(sc)
<1>1. sc \in ScanState /\ Counted(sc)
  BY DEF SteadyScan
<1>2. SlotsPerPage \in Nat /\ SlotsPerPage >= 2 /\ sc.slot \in Nat /\ sc.slot < SlotsPerPage
      /\ sc.page \in Nat /\ sc.page >= 1
  BY <1>1, SlotsAssumption DEF ScanState, Slots
<1>3. CASE sc.slot + 1 < SlotsPerPage
  <2>1. a = [sc EXCEPT !.slot = sc.slot + 1]
    BY <1>1, <1>3 DEF Advanced, ScanState
  <2>2. sc.slot + 1 \in Slots
    BY <1>2, <1>3 DEF Slots
  <2>3. /\ a \in ScanState /\ a.page = sc.page /\ a.slot = sc.slot + 1
        /\ a.on = sc.on /\ a.count = sc.count /\ a.cond = sc.cond /\ a.pinned = sc.pinned
        /\ a.seen = sc.seen /\ a.still = sc.still
    BY <1>1, <2>1, <2>2 DEF ScanState
  <2>4. (sc.page - 1) * SlotsPerPage \in Nat
    BY <1>2, Product
  <2>5. (a.page - 1) * SlotsPerPage + a.slot = sc.count + 1
    BY <1>1, <1>2, <2>3, <2>4 DEF Counted
  <2> HIDE DEF a
  <2> QED
    BY <2>3, <2>5 DEF a
<1>4. CASE ~(sc.slot + 1 < SlotsPerPage)
  <2>1. sc.slot + 1 = SlotsPerPage /\ sc.slot > 0
    BY <1>2, <1>4
  <2>2. (sc.page - 1) * SlotsPerPage \in Nat
    BY <1>2, Product
  <2>3. sc.count > 0
    BY <1>1, <1>2, <2>1, <2>2 DEF Counted
  <2>4. a = [sc EXCEPT !.slot = 0, !.page = sc.page + 1]
    BY <1>1, <1>4, <2>3 DEF Advanced, ScanState
  <2>5. 0 \in Slots /\ sc.page + 1 \in Nat \ {0}
    BY <1>2, Numbers
  <2>6. /\ a \in ScanState /\ a.page = sc.page + 1 /\ a.slot = 0
        /\ a.on = sc.on /\ a.count = sc.count /\ a.cond = sc.cond /\ a.pinned = sc.pinned
        /\ a.seen = sc.seen /\ a.still = sc.still
    BY <1>1, <2>4, <2>5 DEF ScanState
  <2>7. sc.page * SlotsPerPage = (sc.page - 1) * SlotsPerPage + SlotsPerPage
    BY <1>2
  <2>8. (a.page - 1) * SlotsPerPage + a.slot = sc.count + 1
    <3>1. a.page - 1 = sc.page
      BY <1>2, <2>6
    <3> QED
      BY <1>1, <1>2, <2>1, <2>2, <2>6, <2>7, <3>1 DEF Counted
  <2> HIDE DEF a
  <2> QED
    BY <2>6, <2>8 DEF a
<1> QED
  BY <1>3, <1>4

-----------------------------------------------------------------------------
(* The search for a place for a record.                                      *)

FreePlaceIn(q, p) == FramesOf(q, p) # {} /\ FreeSlotsOf(PageBytes(q, p)) # {}

(* The states of the search that began with pool q. *)
Searching(at, q) ==
    /\ WellFormed(at.pool) /\ at.pool.file.present = q.file.present
    /\ at.page = NO_PAGE \/ (at.page \in 1 .. MaxPage /\ FreePlaceIn(at.pool, at.page))

LEMMA UnpinKeeps ==
  ASSUME NEW q, WellFormed(q), NEW p
  PROVE  /\ WellFormed(Unpin(q, p)) /\ Unpin(q, p).file.present = q.file.present
         /\ Unpin(q, p).page = q.page
         /\ \A o : FramesOf(Unpin(q, p), o) = FramesOf(q, o)
         /\ \A o : PageBytes(Unpin(q, p), o) = PageBytes(q, o)
         /\ \A o \in Nat : DeliveredBy(Unpin(q, p), o) = DeliveredBy(q, o)
<1>1. SamePages(q, Unpin(q, p))
  BY UnpinIs
<1> QED
  BY <1>1, SamePagesKeeps DEF SamePages

LEMMA PinShows ==
  ASSUME NEW q, WellFormed(q), NEW p \in Nat
  PROVE  /\ WellFormed(PinPage(q, p)) /\ PinPage(q, p).file.present = q.file.present
         /\ FramesOf(PinPage(q, p), p) # {}
<1>1. PICK f \in Frames : PinnedAt(q, PinPage(q, p), f, p) /\ PinPage(q, p).page[f] = p
  BY PinKeeps
<1>2. FramesOf(PinPage(q, p), p) # {}
  BY <1>1 DEF FramesOf
<1>3. PinPage(q, p).file.present = q.file.present
  BY <1>1 DEF PinnedAt, FileKept
<1> QED
  BY <1>2, <1>3, PinKeeps

LEMMA TryKeeps ==
  ASSUME NEW at, NEW q, Searching(at, q), NEW p \in 1 .. MaxPage
  PROVE  Searching(TryPage(at, p), q)
<1> DEFINE pl == PinPage(at.pool, p)
<1>0. p \in Nat
  OBVIOUS
<1>1. WellFormed(pl) /\ FramesOf(pl, p) # {} /\ pl.file.present = q.file.present
  <2>1. PICK f \in Frames : pl.page[f] = p /\ pl.file.present = at.pool.file.present
    BY <1>0, PinKeeps DEF Searching, PinnedAt, FileKept
  <2> QED
    BY <1>0, <2>1, PinKeeps DEF Searching, FramesOf
<1>2. CASE at.page # NO_PAGE
  BY <1>2 DEF TryPage
<1>3. CASE at.page = NO_PAGE /\ FreeSlotsOf(PageBytes(pl, p)) # {}
  <2>1. TryPage(at, p) = [page |-> p, pool |-> pl]
    BY <1>3 DEF TryPage
  <2> QED
    BY <1>1, <1>3, <2>1 DEF Searching, FreePlaceIn
<1>4. CASE at.page = NO_PAGE /\ ~(FreeSlotsOf(PageBytes(pl, p)) # {})
  <2>1. TryPage(at, p) = [page |-> NO_PAGE, pool |-> Unpin(pl, p)]
    BY <1>4 DEF TryPage
  <2> HIDE DEF pl
  <2>2. WellFormed(Unpin(pl, p)) /\ Unpin(pl, p).file.present = q.file.present
    BY <1>1, UnpinKeeps
  <2> QED
    BY <2>1, <2>2 DEF Searching
<1> QED
  BY <1>2, <1>3, <1>4

LEMMA PlaceIs ==
  ASSUME WellFormed(bp), freePg \in 1 .. MaxPage
  PROVE  Searching(PlaceForRecord, bp)
<1> DEFINE start == [page |-> NO_PAGE, pool |-> bp]
           n == MaxPage + 1 - freePg
<1>0. MaxPage \in Nat /\ freePg \in Nat /\ n \in Nat
  BY SlotsAssumption
<1>1. PICK at : /\ at[0] = start
                /\ \A k \in 1 .. n : at[k] = TryPage(at[k - 1], freePg + k - 1)
                /\ Tried(start, freePg, n) = at[n]
  <2> HIDE DEF n, start
  <2> QED
    BY <1>0, TriedRounds
<1>2. PlaceForRecord = at[n]
  <2>1. PlaceForRecord = Tried(start, freePg, n)
    BY DEF PlaceForRecord, Tried
  <2> QED
    BY <1>1, <2>1
<1> DEFINE S == {k \in Nat : k <= n => Searching(at[k], bp)}
<1>3. 0 \in S
  BY <1>1 DEF Searching
<1>4. ASSUME NEW k \in S PROVE k + 1 \in S
  <2> SUFFICES ASSUME k + 1 <= n PROVE Searching(at[k + 1], bp)
    OBVIOUS
  <2>1. k + 1 \in 1 .. n /\ k \in Nat /\ (k + 1) - 1 = k /\ freePg + (k + 1) - 1 \in 1 .. MaxPage
    BY <1>0
  <2>2. at[k + 1] = TryPage(at[k], freePg + (k + 1) - 1)
    BY <1>1, <2>1
  <2>3. Searching(at[k], bp)
    BY <2>1, <1>0
  <2> QED
    BY <2>1, <2>2, <2>3, TryKeeps
<1>5. n \in S
  <2>1. S \in SUBSET Nat
    OBVIOUS
  <2> HIDE DEF S
  <2> QED
    BY <1>0, <1>3, <1>4, <2>1, AllNumbers
<1> QED
  BY <1>0, <1>2, <1>5

(* The slot found is one without a record. *)
LEMMA SlotFound ==
  ASSUME NEW bytes, FreeSlotsOf(bytes) # {}
  PROVE  findFreeSlot(bytes) \in Slots /\ bytes[findFreeSlot(bytes)] \notin Values
<1>1. FreeSlotsOf(bytes) \in SUBSET Nat
  BY Numbers DEF FreeSlotsOf
<1>2. Min(FreeSlotsOf(bytes)) \in FreeSlotsOf(bytes)
  BY <1>1, MinIs
<1> QED
  BY <1>2 DEF findFreeSlot, FreeSlotsOf

-----------------------------------------------------------------------------
(* Scans.                                                                    *)

(* A round of the loop of next that did not hit before: t is at after the next place
   a, of content c in the pool pl. *)
Visited(at, t, a, pl, c) ==
    /\ t.sc.page = a.page /\ t.sc.slot = a.slot /\ t.sc.count = at.sc.count + 1
    /\ t.sc.on = at.sc.on /\ t.sc.cond = at.sc.cond /\ t.sc.still = at.sc.still
    /\ t.sc.pinned = a.page
    /\ t.sc.seen = IF c \in at.sc.cond /\ at.sc.still
                   THEN at.sc.seen \cup {[page |-> a.page, slot |-> a.slot]} ELSE at.sc.seen
    /\ t.hit \in BOOLEAN /\ (t.hit <=> c \in at.sc.cond)
    /\ t.pool = IF c \in at.sc.cond THEN Unpin(pl, a.page) ELSE pl

LEMMA SlotIs ==
  ASSUME NEW at, SteadyScan(at.sc), at.hit = FALSE, NEW i,
         at.sc.still => at.sc.count + 1 <= ATTRIBUTE_SZ + 1
  PROVE  LET a == Advanced(at.sc)
             pl == PinPage(at.pool, a.page)
             c == PageBytes(pl, a.page)[a.slot]
             t == ScanSlot(at, i)
         IN  /\ Visited(at, t, a, pl, c) /\ t.sc \in ScanState /\ Counted(t.sc)
             /\ at.sc.still => [page |-> a.page, slot |-> a.slot] \in Rids
<1> DEFINE a == Advanced(at.sc)
           pl == PinPage(at.pool, a.page)
           c == PageBytes(pl, a.page)[a.slot]
           t == ScanSlot(at, i)
           visited == [a EXCEPT !.count = @ + 1, !.pinned = a.page]
           returned == IF a.still THEN {[page |-> a.page, slot |-> a.slot]} ELSE {}
           saw == [visited EXCEPT !.seen = @ \cup returned]
<1>1. t = IF c \in a.cond THEN [sc |-> saw, pool |-> Unpin(pl, a.page), hit |-> TRUE]
          ELSE [sc |-> visited, pool |-> pl, hit |-> FALSE]
  BY DEF ScanSlot
<1>2. /\ a \in ScanState
      /\ (a.page - 1) * SlotsPerPage + a.slot = at.sc.count + 1
      /\ a.on = at.sc.on /\ a.count = at.sc.count /\ a.cond = at.sc.cond /\ a.pinned = at.sc.pinned
      /\ a.seen = at.sc.seen /\ a.still = at.sc.still
  BY AdvancedIs
<1> HIDE DEF a, c, pl, t
<1>3. /\ visited.page = a.page /\ visited.slot = a.slot /\ visited.count = a.count + 1
      /\ visited.on = a.on /\ visited.cond = a.cond /\ visited.still = a.still
      /\ visited.pinned = a.page /\ visited.seen = a.seen
      /\ visited \in ScanState
  <2> DEFINE counted == [a EXCEPT !.count = a.count + 1]
  <2>1. a.count + 1 \in Nat /\ a.page \in Nat \cup {NO_PAGE}
    BY <1>2 DEF ScanState
  <2>2. /\ counted \in ScanState /\ counted.count = a.count + 1 /\ counted.page = a.page
        /\ counted.slot = a.slot /\ counted.on = a.on /\ counted.cond = a.cond
        /\ counted.still = a.still /\ counted.seen = a.seen
    BY <1>2, <2>1 DEF ScanState
  <2>3. visited = [counted EXCEPT !.pinned = a.page]
    BY <1>2 DEF ScanState
  <2> HIDE DEF counted, visited
  <2> QED
    BY <2>1, <2>2, <2>3 DEF ScanState
<1>4. a.still => [page |-> a.page, slot |-> a.slot] \in Rids
  <2> SUFFICES ASSUME a.still PROVE a.page \in 1 .. MaxPage /\ a.slot \in Slots
    BY DEF Rids
  <2>1. a.page \in Nat \ {0} /\ a.slot \in Slots /\ MaxPage \in Nat /\ a.count \in Nat
    BY <1>2, SlotsAssumption DEF ScanState
  <2>2. (a.page - 1) * SlotsPerPage + a.slot < MaxPage * SlotsPerPage
    <3>1. MaxPage * SlotsPerPage \in Nat
      BY <2>1, Product, SlotsAssumption
    <3> QED
      BY <1>2, <2>1, <3>1, ScanAssumption
  <2>3. a.page <= MaxPage
    BY <2>1, <2>2, WithinPages
  <2> QED
    BY <2>1, <2>3
<1> HIDE DEF visited
<1>5. returned \in SUBSET Rids
  BY <1>4, Zenon
<1>6. /\ saw.page = a.page /\ saw.slot = a.slot /\ saw.count = a.count + 1
      /\ saw.on = a.on /\ saw.cond = a.cond /\ saw.still = a.still
      /\ saw.pinned = a.page /\ saw.seen = a.seen \cup returned
      /\ saw \in ScanState
  BY <1>2, <1>3, <1>5 DEF ScanState
<1> HIDE DEF saw
<1>7. CASE c \in a.cond
  <2>1. t.sc = saw /\ t.pool = Unpin(pl, a.page) /\ t.hit = TRUE
    BY <1>1, <1>7
  <2>2. t.sc.seen = IF at.sc.still THEN at.sc.seen \cup {[page |-> a.page, slot |-> a.slot]}
                    ELSE at.sc.seen
    BY <1>2, <1>6, <2>1
  <2> HIDE DEF returned
  <2> QED
    BY <1>2, <1>4, <1>6, <1>7, <2>1, <2>2 DEF Visited, Counted, a, pl, c, t
<1>8. CASE c \notin a.cond
  <2>1. t.sc = visited /\ t.pool = pl /\ t.hit = FALSE
    BY <1>1, <1>8
  <2>2. c \notin at.sc.cond
    BY <1>2, <1>8
  <2>a. /\ t.sc.page = a.page /\ t.sc.slot = a.slot /\ t.sc.count = at.sc.count + 1
        /\ t.sc.on = at.sc.on /\ t.sc.cond = at.sc.cond /\ t.sc.still = at.sc.still
        /\ t.sc.pinned = a.page /\ t.sc.seen = at.sc.seen
    BY <1>2, <1>3, <2>1
  <2>b. t.hit \in BOOLEAN /\ (t.hit <=> c \in at.sc.cond) /\ t.pool = pl
    BY <2>1, <2>2
  <2>3. Visited(at, t, a, pl, c)
    BY <2>2, <2>a, <2>b DEF Visited
  <2> HIDE DEF returned
  <2> QED
    BY <1>2, <1>3, <1>4, <2>1, <2>3 DEF Counted, a, pl, c, t
<1> QED
  BY <1>7, <1>8

(* The states that the loop of next may be in, b rounds after it began with scan sc
   and pool q. *)
Looping(at, sc, q, b) ==
    /\ WellFormed(at.pool) /\ at.pool.file.present = q.file.present
    /\ SteadyScan(at.sc) /\ at.hit \in BOOLEAN
    /\ at.sc.on /\ at.sc.still = sc.still /\ at.sc.cond = sc.cond
    /\ at.sc.count <= sc.count + b

LEMMA SlotKeeps ==
  ASSUME NEW at, NEW sc \in ScanState, NEW q, NEW b \in Nat, Looping(at, sc, q, b), NEW i,
         sc.still => sc.count + b + 1 <= ATTRIBUTE_SZ + 1
  PROVE  Looping(ScanSlot(at, i), sc, q, b + 1)
<1>1. sc.count \in Nat /\ at.sc.count \in Nat
  BY DEF ScanState, Looping, SteadyScan
<1>2. CASE at.hit
  <2>1. ScanSlot(at, i) = at
    BY <1>2 DEF ScanSlot
  <2> QED
    BY <1>1, <2>1 DEF Looping
<1>3. CASE at.hit = FALSE
  <2> DEFINE a == Advanced(at.sc)
             pl == PinPage(at.pool, a.page)
             c == PageBytes(pl, a.page)[a.slot]
             t == ScanSlot(at, i)
  <2>0. ATTRIBUTE_SZ \in Nat
    BY ScanAssumption
  <2>1. at.sc.still => at.sc.count + 1 <= ATTRIBUTE_SZ + 1
    BY <1>1, <2>0 DEF Looping
  <2>2. Visited(at, t, a, pl, c) /\ t.sc \in ScanState /\ Counted(t.sc)
    BY <1>3, <2>1, SlotIs DEF Looping
  <2>3. a.page \in Nat
    BY <2>2 DEF Visited, ScanState
  <2>4. WellFormed(pl) /\ pl.file.present = q.file.present
    BY <2>3, PinShows DEF Looping
  <2> HIDE DEF a, pl, c, t
  <2>5. WellFormed(Unpin(pl, a.page)) /\ Unpin(pl, a.page).file.present = q.file.present
    BY <2>4, UnpinKeeps
  <2>6. WellFormed(t.pool) /\ t.pool.file.present = q.file.present /\ t.hit \in BOOLEAN
    BY <2>2, <2>4, <2>5 DEF Visited
  <2>7. SteadyScan(t.sc) /\ t.sc.on /\ t.sc.still = sc.still /\ t.sc.cond = sc.cond
        /\ t.sc.count = at.sc.count + 1
    BY <2>1, <2>2 DEF Visited, SteadyScan, Looping
  <2>8. t.sc.count <= sc.count + (b + 1)
    BY <1>1, <2>7 DEF Looping
  <2> QED
    BY <2>6, <2>7, <2>8 DEF Looping, t
<1> QED
  BY <1>2, <1>3 DEF Looping

(* How many rounds the loop may make. *)
Rounds(s) == IF scan[s].count <= tCount + 1 THEN tCount + 1 - scan[s].count ELSE 0

LEMMA ScannedInRounds ==
  ASSUME IInv, NEW s \in Scans
  PROVE  /\ Rounds(s) \in Nat
         /\ \E at : /\ at[0] = [sc |-> scan[s], pool |-> bp, hit |-> FALSE]
                    /\ \A k \in 1 .. Rounds(s) : at[k] = ScanSlot(at[k - 1], k)
                    /\ Scanned(s) = at[Rounds(s)]
<1> DEFINE start == [sc |-> scan[s], pool |-> bp, hit |-> FALSE]
           n == Rounds(s)
<1>1. scan[s].count \in Nat /\ tCount \in Nat
  BY DEF IInv, Types, ScansSteady, ScanState
<1>2. n \in Nat /\ 1 .. tCount + 1 - scan[s].count = 1 .. n
  BY <1>1 DEF Rounds
<1>3. Scanned(s) = Looped(start, n)
  <2>1. [i \in 1 .. tCount + 1 - scan[s].count |-> i] = [i \in 1 .. n |-> i]
    BY <1>2
  <2>2. Scanned(s) = FoldLeft(ScanSlot, start, [i \in 1 .. tCount + 1 - scan[s].count |-> i])
    BY Zenon DEF Scanned
  <2> HIDE DEF n
  <2> QED
    BY <2>1, <2>2 DEF Looped
<1> HIDE DEF start, n
<1>4. \E at : /\ at[0] = start
              /\ \A k \in 1 .. n : at[k] = ScanSlot(at[k - 1], k)
              /\ Looped(start, n) = at[n]
  BY <1>2, ScanRounds
<1> QED
  BY <1>2, <1>3, <1>4 DEF start, n

LEMMA ScannedIs ==
  ASSUME IInv, NEW s \in Scans, scan[s].on
  PROVE  Looping(Scanned(s), scan[s], bp, Rounds(s))
<1>1. PICK at : /\ at[0] = [sc |-> scan[s], pool |-> bp, hit |-> FALSE]
                /\ \A k \in 1 .. Rounds(s) : at[k] = ScanSlot(at[k - 1], k)
                /\ Scanned(s) = at[Rounds(s)]
  BY ScannedInRounds
<1>2. /\ Rounds(s) \in Nat /\ scan[s] \in ScanState /\ scan[s].count \in Nat
      /\ scan[s].still => scan[s].count + Rounds(s) <= ATTRIBUTE_SZ + 1
  <2>1. Rounds(s) \in Nat
    BY ScannedInRounds
  <2>2. scan[s] \in ScanState /\ scan[s].count \in Nat /\ tCount \in Nat
    BY DEF IInv, Types, ScansSteady, ScanState
  <2>3. scan[s].still => tCount = ATTRIBUTE_SZ /\ scan[s].count <= ATTRIBUTE_SZ + 1
    BY DEF IInv, ScansSteady, SteadyScan
  <2> QED
    BY <2>1, <2>2, <2>3, ScanAssumption DEF Rounds
<1> DEFINE S == {k \in Nat : k <= Rounds(s) => Looping(at[k], scan[s], bp, k)}
<1>3. 0 \in S
  <2>1. WellFormed(bp) /\ SteadyScan(scan[s])
    BY DEF IInv, Types, ScansSteady
  <2>2. scan[s].count <= scan[s].count + 0
    BY <1>2
  <2>3. at[0].sc = scan[s] /\ at[0].pool = bp /\ at[0].hit = FALSE
    BY <1>1
  <2>4. Looping(at[0], scan[s], bp, 0)
    BY <2>1, <2>2, <2>3 DEF Looping
  <2> QED
    BY <2>4
<1>4. ASSUME NEW k \in S PROVE k + 1 \in S
  <2> SUFFICES ASSUME k + 1 <= Rounds(s) PROVE Looping(at[k + 1], scan[s], bp, k + 1)
    OBVIOUS
  <2>1. k + 1 \in 1 .. Rounds(s) /\ k \in Nat /\ (k + 1) - 1 = k /\ k <= Rounds(s)
    BY <1>2
  <2>2. at[k + 1] = ScanSlot(at[k], k + 1)
    BY <1>1, <2>1
  <2>3. Looping(at[k], scan[s], bp, k)
    BY <2>1
  <2>4. scan[s].still => scan[s].count + k + 1 <= ATTRIBUTE_SZ + 1
    BY <1>2, <2>1, ScanAssumption
  <2>5. Looping(ScanSlot(at[k], k + 1), scan[s], bp, k + 1)
    BY <1>2, <2>1, <2>3, <2>4, SlotKeeps
  <2> QED
    BY <2>2, <2>5
<1>5. Rounds(s) \in S
  <2>1. S \in SUBSET Nat
    OBVIOUS
  <2> HIDE DEF S
  <2> QED
    BY <1>2, <1>3, <1>4, <2>1, AllNumbers
<1> QED
  BY <1>1, <1>2, <1>5

-----------------------------------------------------------------------------
(* Every call keeps the types.                                               *)

LEMMA ForceKeeps ==
  ASSUME NEW q, WellFormed(q), NEW p
  PROVE  WellFormed(ForcePage(q, p)) /\ ForcePage(q, p).file.present = q.file.present
<1>1. SamePages(q, ForcePage(q, p))
  BY ForceIs
<1> QED
  BY <1>1, SamePagesKeeps DEF SamePages

LEMMA MarkKeeps ==
  ASSUME NEW q, WellFormed(q)
  PROVE  /\ WellFormed(MarkDirty(q)) /\ MarkDirty(q).file.present = q.file.present
         /\ \A o : FramesOf(MarkDirty(q), o) = FramesOf(q, o)
         /\ \A o : PageBytes(MarkDirty(q), o) = PageBytes(q, o)
         /\ \A o \in Nat : DeliveredBy(MarkDirty(q), o) = DeliveredBy(q, o)
         /\ MarkDirty(q).fix = q.fix /\ MarkDirty(q).page = q.page
<1>1. SamePages(q, MarkDirty(q)) /\ MarkDirty(q).fix = q.fix
  BY MarkDirtyIs
<1> QED
  BY <1>1, SamePagesKeeps DEF SamePages

LEMMA EmptyPoolIs ==
  ASSUME NEW file \in File
  PROVE  LET q == EmptyPool("RS_LRU", file) IN
         /\ WellFormed(q) /\ q.file = file
         /\ \A f \in Frames : q.fix[f] = 0 /\ q.page[f] = NO_PAGE
<1> DEFINE q == EmptyPool("RS_LRU", file)
<1>1. q \in Pool
  <2>1. /\ [f \in Frames |-> NO_PAGE] \in [Frames -> Nat \cup {NO_PAGE}]
        /\ [f \in Frames |-> 0] \in [Frames -> Int]
        /\ [f \in Frames |-> FALSE] \in [Frames -> BOOLEAN]
        /\ [f \in Frames |-> NULL] \in [Frames -> Buffers \cup {NULL}]
        /\ [b \in Buffers |-> ZeroPage] \in [Buffers -> Data]
    BY Numbers
  <2> QED
    BY <2>1 DEF EmptyPool, Pool, File
<1>2. q.file = file /\ \A f \in Frames : q.fix[f] = 0 /\ q.page[f] = NO_PAGE
  BY DEF EmptyPool
<1>3. WellFormed(q)
  BY <1>1, <1>2 DEF WellFormed, FilledFirst, Backed, Distinct
<1> QED
  BY <1>2, <1>3

LEMMA FilesAre ==
  /\ NoFile \in File /\ NoFile.present = FALSE
  /\ [present |-> TRUE, pages |-> <<Header>>] \in File
<1>1. Header \in Data
  BY DEF Header, Data
<1> QED
  BY <1>1 DEF NoFile, File

LEMMA OtherFileKeeps ==
  ASSUME NEW q, WellFormed(q), NEW file \in File
  PROVE  LET r == [q EXCEPT !.file = file] IN
         /\ WellFormed(r) /\ r.file = file /\ r.page = q.page /\ r.fix = q.fix
         /\ \A o : FramesOf(r, o) = FramesOf(q, o)
         /\ \A o : PageBytes(r, o) = PageBytes(q, o)
<1> DEFINE r == [q EXCEPT !.file = file]
<1>1. /\ r \in Pool /\ r.file = file /\ r.page = q.page /\ r.fix = q.fix /\ r.data = q.data
      /\ r.heap = q.heap
  BY DEF WellFormed, Pool, File
<1> HIDE DEF r
<1>2. WellFormed(r) /\ \A o : FramesOf(r, o) = FramesOf(q, o)
  BY <1>1 DEF WellFormed, FilledFirst, Backed, Distinct, FramesOf
<1>3. \A o : PageBytes(r, o) = PageBytes(q, o)
  BY <1>1, <1>2 DEF PageBytes, Bytes
<1> QED
  BY <1>1, <1>2, <1>3 DEF r

LEMMA OpeningKeeps ==
  ASSUME WellFormed(bp)
  PROVE  WellFormed(PoolAfterOpening) /\ PoolAfterOpening.file.present = bp.file.present
<1> DEFINE pl == PinPage(bp, 0)
           q == Unpin(pl, 0)
<1>1. WellFormed(pl) /\ pl.file.present = bp.file.present
  BY PinShows
<1> HIDE DEF pl
<1>2. WellFormed(q) /\ q.file.present = bp.file.present
  BY <1>1, UnpinKeeps
<1> HIDE DEF q
<1>3. WellFormed(ForcePage(q, 0)) /\ ForcePage(q, 0).file.present = bp.file.present
  BY <1>2, ForceKeeps
<1> QED
  BY <1>3 DEF PoolAfterOpening, q, pl

LEMMA NoScanIs ==
  /\ NoScan \in ScanState /\ SteadyScan(NoScan) /\ ~NoScan.on /\ ~NoScan.still
  /\ NoScan.pinned = NO_PAGE /\ NoScan.count = 0
<1>1. NoScan \in ScanState
  BY Numbers DEF NoScan, ScanState
<1>2. Counted(NoScan)
  <2>1. NoScan.page = 1 /\ NoScan.slot = 0 /\ NoScan.count = 0
    BY DEF NoScan
  <2>2. (1 - 1) * SlotsPerPage + 0 = 0
    BY SlotsAssumption
  <2> QED
    BY <2>1, <2>2 DEF Counted
<1> QED
  BY <1>1, <1>2 DEF SteadyScan, NoScan

(* A change of the table ends what is claimed about scans. *)
LEMMA DisturbedIs ==
  ASSUME ScansSteady
  PROVE  /\ Disturbed \in [Scans -> ScanState]
         /\ \A s \in Scans : /\ SteadyScan(Disturbed[s]) /\ ~Disturbed[s].still
                             /\ Disturbed[s].pinned = scan[s].pinned
                             /\ Disturbed[s].on = scan[s].on
<1>1. ASSUME NEW s \in Scans
      PROVE  /\ Disturbed[s] \in ScanState /\ SteadyScan(Disturbed[s]) /\ ~Disturbed[s].still
             /\ Disturbed[s].pinned = scan[s].pinned /\ Disturbed[s].on = scan[s].on
  <2> DEFINE sc == scan[s]
             d == [sc EXCEPT !.still = FALSE, !.seen = {}]
  <2>1. sc \in ScanState /\ SteadyScan(sc)
    BY DEF ScansSteady
  <2>2. Disturbed[s] = d
    BY DEF Disturbed
  <2> HIDE DEF sc
  <2>3. /\ d \in ScanState /\ d.still = FALSE /\ d.on = sc.on /\ d.page = sc.page /\ d.slot = sc.slot
        /\ d.count = sc.count /\ d.pinned = sc.pinned
    BY <2>1 DEF ScanState
  <2>4. ~d.on => d = NoScan
    <3> SUFFICES ASSUME ~d.on PROVE d = NoScan
      OBVIOUS
    <3>1. sc = NoScan
      BY <2>1, <2>3 DEF SteadyScan
    <3>2. NoScan.still = FALSE /\ NoScan.seen = {} /\ NoScan \in ScanState
      BY NoScanIs DEF NoScan
    <3>3. [NoScan EXCEPT !.still = FALSE, !.seen = {}] = NoScan
      <4>1. [NoScan EXCEPT !.still = FALSE] = NoScan
        BY <3>2 DEF ScanState
      <4>2. [NoScan EXCEPT !.seen = {}] = NoScan
        BY <3>2 DEF ScanState
      <4> DEFINE n == NoScan
      <4>3. [n EXCEPT !.still = FALSE, !.seen = {}] = [[n EXCEPT !.still = FALSE] EXCEPT !.seen = {}]
        BY <3>2 DEF ScanState
      <4> QED
        BY <4>1, <4>2, <4>3
    <3> QED
      BY <3>1, <3>3
  <2> HIDE DEF d
  <2>5. SteadyScan(d)
    BY <2>1, <2>3, <2>4 DEF SteadyScan, Counted
  <2> QED
    BY <2>2, <2>3, <2>5 DEF sc
<1>2. Disturbed \in [Scans -> ScanState]
  BY <1>1 DEF Disturbed
<1> QED
  BY <1>1, <1>2

(* Steps under which no scan moves on. *)
LEMMA QuietScans ==
  ASSUME ScansSteady, UNCHANGED scan, tCount' = tCount \/ ScansOff
  PROVE  ScansSteady'
<1>1. ASSUME NEW s \in Scans, scan[s].still PROVE tCount' = ATTRIBUTE_SZ
  <2>1. scan[s].on /\ tCount = ATTRIBUTE_SZ
    BY <1>1 DEF ScansSteady, SteadyScan
  <2> QED
    BY <2>1 DEF ScansOff
<1> QED
  BY <1>1 DEF ScansSteady

LEMMA DisturbedScans ==
  ASSUME ScansSteady, scan' = Disturbed
  PROVE  ScansSteady'
<1>1. /\ Disturbed \in [Scans -> ScanState]
      /\ \A s \in Scans : SteadyScan(Disturbed[s]) /\ ~Disturbed[s].still
  BY DisturbedIs
<1> DEFINE d == Disturbed
<1> HIDE DEF d
<1>2. scan' \in [Scans -> ScanState]
  BY <1>1, Zenon
<1>3. \A s \in Scans : SteadyScan(scan'[s]) /\ ~scan'[s].still
  BY <1>1, Zenon
<1>4. \A s \in Scans : SteadyScan(scan[s])'
  BY <1>3 DEF SteadyScan, Counted
<1> QED
  BY <1>2, <1>3, <1>4 DEF ScansSteady

LEMMA InitInv ==
  Init => IInv
<1> SUFFICES ASSUME Init PROVE IInv
  OBVIOUS
<1>1. WellFormed(bp)
  BY FilesAre, EmptyPoolIs DEF Init
<1>2. Types
  <2>1. 0 \in Nat /\ 0 \in 0 .. MaxPage
    BY SlotsAssumption
  <2> QED
    BY <1>1, <2>1 DEF Init, Types
<1>3. ScansSteady
  BY NoScanIs DEF Init, ScansSteady
<1> QED
  BY <1>2, <1>3 DEF Init, IInv, OpenTable

LEMMA TableKeepsInv ==
  ASSUME IInv, \/ createTable \/ openTable \/ openTableAgain \/ closeTable
               \/ deleteTable \/ shutdownRecordManager
  PROVE  IInv'
<1>0. Types /\ ScansSteady /\ OpenTable /\ WellFormed(bp)
  BY DEF IInv, Types
<1>1. CASE createTable
  <2>1. WellFormed(bp')
    BY <1>1, FilesAre, EmptyPoolIs DEF createTable
  <2>2. ScansSteady'
    BY <1>0, <1>1, QuietScans DEF createTable, tableVars
  <2> QED
    BY <1>0, <1>1, <2>1, <2>2 DEF createTable, tableVars, IInv, Types, OpenTable
<1>2. CASE openTable
  <2>1. WellFormed(bp') /\ bp'.file.present
    BY <1>0, <1>2, OpeningKeeps DEF openTable
  <2>2. ScansSteady'
    BY <1>0, <1>2, QuietScans DEF openTable
  <2> QED
    BY <1>0, <1>2, <2>1, <2>2, SlotsAssumption DEF openTable, IInv, Types, OpenTable
<1>3. CASE openTableAgain
  <2>2. ScansSteady'
    BY <1>0, <1>3, QuietScans DEF openTableAgain, tableVars
  <2> QED
    BY <1>0, <1>3, <2>2 DEF openTableAgain, tableVars, IInv, Types, OpenTable
<1>4. CASE closeTable
  <2>2. ScansSteady'
    BY <1>0, <1>4, QuietScans DEF closeTable, tableVars
  <2> QED
    BY <1>0, <1>4, <2>2 DEF closeTable, tableVars, IInv, Types, OpenTable
<1>5. CASE deleteTable
  <2>1. WellFormed(bp')
    BY <1>0, <1>5, FilesAre, OtherFileKeeps DEF deleteTable
  <2>2. ScansSteady'
    BY <1>0, <1>5, QuietScans DEF deleteTable, tableVars
  <2> QED
    BY <1>0, <1>5, <2>1, <2>2 DEF deleteTable, tableVars, IInv, Types, OpenTable
<1>6. CASE shutdownRecordManager
  <2>1. WellFormed(bp')
    BY <1>0, <1>6, FlushIs, SamePagesKeeps DEF shutdownRecordManager
  <2>2. ScansSteady'
    BY <1>0, <1>6, QuietScans DEF shutdownRecordManager, tableVars
  <2>3. mgr' \in {"none", "hung"}
    BY <1>6 DEF shutdownRecordManager
  <2> QED
    BY <1>0, <1>6, <2>1, <2>2, <2>3 DEF shutdownRecordManager, tableVars, IInv, Types, OpenTable
<1> QED
  BY <1>1, <1>2, <1>3, <1>4, <1>5, <1>6

LEMMA InsertKeepsInv ==
  ASSUME IInv, NEW v \in Values, insertRecord(v)
  PROVE  IInv'
<1> DEFINE at == PlaceForRecord
           r == [page |-> at.page, slot |-> findFreeSlot(PageBytes(at.pool, at.page))]
           marked == MarkDirty(at.pool)
           set == SetSlot(marked, r, v)
           unpinned == Unpin(set, r.page)
<1>0. Types /\ ScansSteady /\ OpenTable /\ WellFormed(bp)
  BY DEF IInv, Types
<1>1. /\ mgr = "open" /\ at.page # NO_PAGE /\ bp' = PinPage(unpinned, 0) /\ tCount' = tCount + 1
      /\ inserted' = TRUE /\ scan' = Disturbed /\ UNCHANGED <<mgr, freePg>>
  BY DEF insertRecord
<1>2. freePg \in 1 .. MaxPage /\ bp.file.present
  BY <1>0, <1>1 DEF Types, OpenTable
<1>3. Searching(at, bp)
  BY <1>0, <1>2, PlaceIs
<1> HIDE DEF at
<1>4. at.page \in 1 .. MaxPage /\ FreePlaceIn(at.pool, at.page) /\ WellFormed(at.pool)
      /\ at.pool.file.present
  BY <1>1, <1>2, <1>3 DEF Searching
<1>5. r.page = at.page /\ r.slot \in Slots /\ r \in [page : Nat, slot : Slots]
  BY <1>4, SlotFound DEF FreePlaceIn
<1> HIDE DEF r
<1>6. WellFormed(marked) /\ marked.file.present /\ FramesOf(marked, r.page) # {}
  BY <1>4, <1>5, MarkKeeps DEF FreePlaceIn
<1> HIDE DEF marked
<1>7. WellFormed(set) /\ set.file.present
  <2>1. v \in Contents
    BY DEF Contents
  <2>2. WellFormed(set) /\ set.file = marked.file
    BY <1>5, <1>6, <2>1, SetSlotIs
  <2> HIDE DEF set
  <2> QED
    BY <1>6, <2>2
<1> HIDE DEF set
<1>8. WellFormed(unpinned) /\ unpinned.file.present
  BY <1>7, UnpinKeeps
<1> HIDE DEF unpinned
<1>9. WellFormed(bp')
  BY <1>1, <1>8, PinShows
<1>10. ScansSteady'
  BY <1>0, <1>1, DisturbedScans
<1>11. bp'.file.present
  BY <1>1, <1>8, PinShows
<1> QED
  BY <1>0, <1>1, <1>9, <1>10, <1>11 DEF IInv, Types, OpenTable


(* A place of a table, as the pool's lemmas want it. *)
LEMMA RidIs ==
  ASSUME NEW r \in Rids
  PROVE  /\ r.page \in 1 .. MaxPage /\ r.page \in Nat \ {0} /\ r.slot \in Slots
         /\ r \in [page : Nat, slot : Slots] /\ r = [page |-> r.page, slot |-> r.slot]
BY SlotsAssumption DEF Rids

LEMMA DeleteKeepsInv ==
  ASSUME IInv, NEW r \in Rids, deleteRecord(r)
  PROVE  IInv'
<1> DEFINE pl == PinPage(bp, r.page)
           set == SetSlot(pl, r, "dashes")
           marked == MarkDirty(set)
<1>0. Types /\ ScansSteady /\ OpenTable /\ WellFormed(bp)
  BY DEF IInv, Types
<1>1. /\ mgr = "open" /\ bp' = ForcePage(marked, r.page) /\ freePg' = r.page
      /\ scan' = Disturbed /\ UNCHANGED <<mgr, tCount, inserted>>
  BY DEF deleteRecord
<1>2. r.page \in 1 .. MaxPage /\ r.page \in Nat /\ r \in [page : Nat, slot : Slots]
  BY RidIs
<1>3. WellFormed(pl) /\ pl.file.present /\ FramesOf(pl, r.page) # {}
  BY <1>0, <1>1, <1>2, PinShows DEF OpenTable
<1> HIDE DEF pl
<1>4. WellFormed(set) /\ set.file.present
  <2>1. "dashes" \in Contents
    BY DEF Contents
  <2>2. WellFormed(set) /\ set.file = pl.file
    BY <1>2, <1>3, <2>1, SetSlotIs
  <2> HIDE DEF set
  <2> QED
    BY <1>3, <2>2
<1> HIDE DEF set
<1>5. WellFormed(marked) /\ marked.file.present
  BY <1>4, MarkKeeps
<1> HIDE DEF marked
<1>6. WellFormed(bp') /\ bp'.file.present
  BY <1>1, <1>5, ForceKeeps
<1>7. ScansSteady'
  BY <1>0, <1>1, DisturbedScans
<1>8. freePg' \in 0 .. MaxPage /\ freePg' >= 1
  BY <1>1, <1>2, SlotsAssumption
<1> QED
  BY <1>0, <1>1, <1>6, <1>7, <1>8 DEF IInv, Types, OpenTable

LEMMA UpdateKeepsInv ==
  ASSUME IInv, NEW r \in Rids, NEW v \in Values, updateRecord(r, v)
  PROVE  IInv'
<1> DEFINE pl == PinPage(bp, r.page)
           set == SetSlot(pl, r, v)
           marked == MarkDirty(set)
<1>0. Types /\ ScansSteady /\ OpenTable /\ WellFormed(bp)
  BY DEF IInv, Types
<1>1. /\ mgr = "open" /\ scan' = Disturbed /\ UNCHANGED <<tCount, freePg, inserted>>
      /\ \/ bp' = Unpin(marked, r.page) /\ mgr' = mgr
         \/ bp' = pl /\ mgr' = "crashed"
  BY DEF updateRecord, tableVars
<1>2. r.page \in Nat /\ r \in [page : Nat, slot : Slots]
  BY RidIs
<1>3. WellFormed(pl) /\ pl.file.present /\ FramesOf(pl, r.page) # {}
  BY <1>0, <1>1, <1>2, PinShows DEF OpenTable
<1> HIDE DEF pl
<1>4. WellFormed(set) /\ set.file.present
  <2>1. v \in Contents
    BY DEF Contents
  <2>2. WellFormed(set) /\ set.file = pl.file
    BY <1>2, <1>3, <2>1, SetSlotIs
  <2> HIDE DEF set
  <2> QED
    BY <1>3, <2>2
<1> HIDE DEF set
<1>5. WellFormed(marked) /\ marked.file.present
  BY <1>4, MarkKeeps
<1> HIDE DEF marked
<1>6. WellFormed(bp') /\ bp'.file.present /\ mgr' \in {"open", "crashed"}
  BY <1>1, <1>3, <1>5, UnpinKeeps
<1>7. ScansSteady'
  BY <1>0, <1>1, DisturbedScans
<1> QED
  BY <1>0, <1>1, <1>6, <1>7 DEF IInv, Types, OpenTable

LEMMA GetKeepsInv ==
  ASSUME IInv, NEW r \in Rids, getRecord(r)
  PROVE  IInv'
<1> DEFINE pl == PinPage(bp, r.page)
<1>0. Types /\ ScansSteady /\ OpenTable /\ WellFormed(bp)
  BY DEF IInv, Types
<1>1. /\ mgr = "open" /\ UNCHANGED <<mgr, tCount, freePg, scan, inserted>>
      /\ bp' = Unpin(pl, r.page) \/ bp' = pl
  BY DEF getRecord, tableVars
<1>2. r.page \in Nat
  BY RidIs
<1>3. WellFormed(pl) /\ pl.file.present
  BY <1>0, <1>1, <1>2, PinShows DEF OpenTable
<1> HIDE DEF pl
<1>4. WellFormed(bp') /\ bp'.file.present
  BY <1>1, <1>3, UnpinKeeps
<1>5. ScansSteady'
  BY <1>0, <1>1, QuietScans
<1> QED
  BY <1>0, <1>1, <1>4, <1>5 DEF IInv, Types, OpenTable

(* Steps under which one scan becomes sc. *)
LEMMA OneScan ==
  ASSUME ScansSteady, NEW s \in Scans, NEW sc, SteadyScan(sc),
         scan' = [scan EXCEPT ![s] = sc],
         tCount' = tCount \/ tCount' = ATTRIBUTE_SZ,
         sc.still => tCount' = ATTRIBUTE_SZ
  PROVE  ScansSteady'
<1>1. sc \in ScanState /\ scan \in [Scans -> ScanState]
  BY DEF SteadyScan, ScansSteady
<1>2. scan' \in [Scans -> ScanState] /\ scan'[s] = sc
      /\ \A o \in Scans : o # s => scan'[o] = scan[o]
  BY <1>1
<1>3. ASSUME NEW o \in Scans
      PROVE  SteadyScan(scan[o])' /\ (scan'[o].still => tCount' = ATTRIBUTE_SZ)
  <2>1. CASE o = s
    <3>1. SteadyScan(scan'[o])
      BY <1>2, <2>1
    <3>2. SteadyScan(scan[o])'
      BY <3>1 DEF SteadyScan, Counted
    <3> QED
      BY <1>2, <2>1, <3>2
  <2>2. CASE o # s
    <3>1. scan'[o] = scan[o] /\ SteadyScan(scan[o]) /\ (scan[o].still => tCount = ATTRIBUTE_SZ)
      BY <1>2, <2>2 DEF ScansSteady
    <3>2. SteadyScan(scan[o])'
      BY <3>1 DEF SteadyScan, Counted
    <3> QED
      BY <3>1, <3>2
  <2> QED
    BY <2>1, <2>2
<1> QED
  BY <1>2, <1>3 DEF ScansSteady

(* A scan that begins. *)
LEMMA StartIs ==
  ASSUME NEW cond \in Conditions
  PROVE  LET sc == [NoScan EXCEPT !.on = TRUE, !.cond = cond, !.still = TRUE] IN
         /\ SteadyScan(sc) /\ sc.on /\ sc.still /\ sc.cond = cond
         /\ sc.pinned = NO_PAGE /\ sc.count = 0 /\ sc.seen = {}
<1> DEFINE a == [NoScan EXCEPT !.on = TRUE]
           b == [a EXCEPT !.cond = cond]
           sc == [NoScan EXCEPT !.on = TRUE, !.cond = cond, !.still = TRUE]
<1>1. NoScan \in ScanState /\ NoScan.page = 1 /\ NoScan.slot = 0 /\ NoScan.count = 0
      /\ NoScan.pinned = NO_PAGE /\ NoScan.seen = {}
  BY NoScanIs DEF NoScan
<1>2. sc = [b EXCEPT !.still = TRUE]
  BY <1>1 DEF ScanState
<1>3. /\ a \in ScanState /\ a.on /\ a.page = 1 /\ a.slot = 0 /\ a.count = 0
      /\ a.pinned = NO_PAGE /\ a.seen = {}
  BY <1>1 DEF ScanState
<1> HIDE DEF a
<1>4. /\ b \in ScanState /\ b.on /\ b.cond = cond /\ b.page = 1 /\ b.slot = 0 /\ b.count = 0
      /\ b.pinned = NO_PAGE /\ b.seen = {}
  BY <1>3 DEF ScanState
<1> HIDE DEF b, sc
<1>5. /\ sc \in ScanState /\ sc.on /\ sc.still /\ sc.cond = cond /\ sc.page = 1 /\ sc.slot = 0
      /\ sc.count = 0 /\ sc.pinned = NO_PAGE /\ sc.seen = {}
  BY <1>2, <1>4 DEF ScanState
<1>6. (1 - 1) * SlotsPerPage + 0 = 0
  BY SlotsAssumption
<1>7. SteadyScan(sc)
  BY <1>5, <1>6, ScanAssumption DEF SteadyScan, Counted
<1> QED
  BY <1>5, <1>7 DEF sc

(* A scan that has come to its end. *)
LEMMA RestartIs ==
  ASSUME NEW sc, SteadyScan(sc), sc.on
  PROVE  /\ SteadyScan(AtTheStart(sc)) /\ AtTheStart(sc).on
         /\ AtTheStart(sc).still = sc.still /\ AtTheStart(sc).cond = sc.cond
         /\ AtTheStart(sc).pinned = 0 /\ AtTheStart(sc).count = 0 /\ AtTheStart(sc).seen = {}
<1> DEFINE a == [sc EXCEPT !.page = 1, !.slot = 0]
           b == [a EXCEPT !.count = 0, !.pinned = 0]
           t == AtTheStart(sc)
<1>1. sc \in ScanState /\ 0 \in Slots
  BY Numbers DEF SteadyScan
<1>2. t = [b EXCEPT !.seen = {}]
  BY <1>1 DEF ScanState, AtTheStart
<1>3. /\ a \in ScanState /\ a.on /\ a.page = 1 /\ a.slot = 0 /\ a.still = sc.still
      /\ a.cond = sc.cond
  <2> DEFINE c == [sc EXCEPT !.page = 1]
  <2>1. /\ c \in ScanState /\ c.on /\ c.page = 1 /\ c.still = sc.still /\ c.cond = sc.cond
    BY <1>1 DEF ScanState
  <2>2. a = [c EXCEPT !.slot = 0]
    BY <1>1 DEF ScanState
  <2> HIDE DEF c, a
  <2> QED
    BY <1>1, <2>1, <2>2 DEF ScanState
<1> HIDE DEF a
<1>4. /\ b \in ScanState /\ b.on /\ b.page = 1 /\ b.slot = 0 /\ b.still = sc.still
      /\ b.cond = sc.cond /\ b.count = 0 /\ b.pinned = 0
  BY <1>3 DEF ScanState
<1> HIDE DEF b, t
<1>5. /\ t \in ScanState /\ t.on /\ t.page = 1 /\ t.slot = 0 /\ t.still = sc.still
      /\ t.cond = sc.cond /\ t.count = 0 /\ t.pinned = 0 /\ t.seen = {}
  BY <1>2, <1>4 DEF ScanState
<1>6. (1 - 1) * SlotsPerPage + 0 = 0
  BY SlotsAssumption
<1>7. SteadyScan(t)
  BY <1>5, <1>6, ScanAssumption DEF SteadyScan, Counted
<1> QED
  BY <1>5, <1>7 DEF t

LEMMA ScanCallsKeepInv ==
  ASSUME IInv, NEW s \in Scans,
         (\E cond \in Conditions : startScan(s, cond)) \/ next(s) \/ closeScan(s)
  PROVE  IInv'
<1>0. Types /\ ScansSteady /\ OpenTable /\ WellFormed(bp) /\ SteadyScan(scan[s])
  BY DEF IInv, Types, ScansSteady
<1>1. ASSUME NEW cond \in Conditions, startScan(s, cond) PROVE IInv'
  <2> DEFINE sc == [NoScan EXCEPT !.on = TRUE, !.cond = cond, !.still = TRUE]
  <2>1. /\ mgr = "open" /\ bp' = PoolAfterOpening /\ tCount' = ATTRIBUTE_SZ /\ freePg' = 1
        /\ scan' = [scan EXCEPT ![s] = sc] /\ UNCHANGED <<mgr, inserted>>
    BY <1>1 DEF startScan
  <2>2. SteadyScan(sc)
    BY StartIs
  <2> HIDE DEF sc
  <2>3. ScansSteady'
    BY <1>0, <2>1, <2>2, OneScan
  <2>4. WellFormed(bp') /\ bp'.file.present
    BY <1>0, <2>1, OpeningKeeps DEF OpenTable
  <2>5. tCount' \in Nat /\ freePg' \in 0 .. MaxPage /\ freePg' >= 1
    BY <2>1, SlotsAssumption, ScanAssumption
  <2> QED
    BY <1>0, <2>1, <2>3, <2>4, <2>5 DEF IInv, Types, OpenTable
<1>2. CASE next(s)
  <2> DEFINE at == Scanned(s)
             sc == IF at.hit THEN at.sc ELSE AtTheStart(at.sc)
  <2>1. /\ mgr = "open" /\ scan[s].on
        /\ bp' = IF at.hit THEN at.pool ELSE PinPage(at.pool, 0)
        /\ scan' = [scan EXCEPT ![s] = sc]
        /\ UNCHANGED <<mgr, tCount, freePg, inserted>>
    BY <1>2 DEF next, tableVars
  <2>2. Looping(at, scan[s], bp, Rounds(s))
    BY <2>1, ScannedIs
  <2> HIDE DEF at
  <2>3. SteadyScan(sc) /\ sc.still = scan[s].still
    BY <2>2, RestartIs DEF Looping
  <2>4. sc.still => tCount = ATTRIBUTE_SZ
    BY <1>0, <2>3 DEF ScansSteady
  <2> HIDE DEF sc
  <2>5. ScansSteady'
    BY <1>0, <2>1, <2>3, <2>4, OneScan
  <2>6. WellFormed(at.pool) /\ at.pool.file.present
    BY <1>0, <2>1, <2>2 DEF Looping, OpenTable
  <2>7. WellFormed(bp') /\ bp'.file.present
    BY <2>1, <2>6, PinShows
  <2> QED
    BY <1>0, <2>1, <2>5, <2>7 DEF IInv, Types, OpenTable
<1>3. CASE closeScan(s)
  <2>1. /\ mgr = "open" /\ bp' = Unpin(bp, scan[s].pinned)
        /\ scan' = [scan EXCEPT ![s] = NoScan] /\ UNCHANGED <<mgr, tCount, freePg, inserted>>
    BY <1>3 DEF closeScan, tableVars
  <2>2. ScansSteady'
    BY <1>0, <2>1, NoScanIs, OneScan
  <2>3. WellFormed(bp') /\ bp'.file.present
    BY <1>0, <2>1, UnpinKeeps DEF OpenTable
  <2> QED
    BY <1>0, <2>1, <2>2, <2>3 DEF IInv, Types, OpenTable
<1> QED
  BY <1>1, <1>2, <1>3

-----------------------------------------------------------------------------
(* Type correctness.                                                         *)

LEMMA StepKeepsInv ==
  IInv /\ [Next]_vars => IInv'
<1> SUFFICES ASSUME IInv, [Next]_vars PROVE IInv'
  OBVIOUS
<1>1. CASE UNCHANGED vars
  <2>1. UNCHANGED <<mgr, bp, tCount, freePg, scan, inserted>>
    BY <1>1 DEF vars
  <2>2. ScansSteady'
    BY <2>1, QuietScans DEF IInv
  <2> QED
    BY <2>1, <2>2 DEF IInv, Types, OpenTable
<1>2. CASE \/ createTable \/ openTable \/ openTableAgain \/ closeTable
           \/ deleteTable \/ shutdownRecordManager
  BY <1>2, TableKeepsInv
<1>3. ASSUME NEW v \in Values, insertRecord(v) PROVE IInv'
  BY <1>3, InsertKeepsInv
<1>4. ASSUME NEW r \in Rids, deleteRecord(r) \/ getRecord(r) PROVE IInv'
  BY <1>4, DeleteKeepsInv, GetKeepsInv
<1>5. ASSUME NEW r \in Rids, NEW v \in Values, updateRecord(r, v) PROVE IInv'
  BY <1>5, UpdateKeepsInv
<1>6. ASSUME NEW s \in Scans, (\E cond \in Conditions : startScan(s, cond)) \/ next(s) \/ closeScan(s)
      PROVE  IInv'
  BY <1>6, ScanCallsKeepInv
<1>7. CASE Next
  BY <1>2, <1>3, <1>4, <1>5, <1>6, <1>7 DEF Next
<1> QED
  BY <1>1, <1>7

(* The inductive invariant of the record manager. *)
THEOREM Invariance ==
  Spec => []IInv
<1> QED
  BY InitInv, StepKeepsInv, PTL DEF Spec

(* The pool, the table's variables and the scans keep their types, however many
   pages the table has: every frame with a page has a buffer for it, and a scan stands
   on a slot of a page with records. *)
THEOREM TypesCorrect ==
  Spec => []TypeOK
<1>1. IInv => TypeOK
  <2> SUFFICES ASSUME IInv PROVE TypeOK
    OBVIOUS
  <2>1. bp \in Pool /\ \A f \in Frames : bp.page[f] # NO_PAGE => bp.data[f] # NULL
    BY DEF IInv, Types, WellFormed, Backed
  <2>2. ASSUME NEW s \in Scans
        PROVE  scan[s].page \in Nat \ {0} /\ scan[s].slot \in Slots /\ scan[s].seen \subseteq Rids
    BY DEF IInv, ScansSteady, ScanState
  <2> QED
    BY <2>1, <2>2 DEF IInv, Types, TypeOK, Pool, File, Data
<1> QED
  BY <1>1, Invariance, PTL

-----------------------------------------------------------------------------
(* Tables whose pages fit into the frames.                                   *)

(* The pages with records have frames, and so has the page of the last tuple that
   a scan asks for. *)
PagesFit == MaxPage < NumFrames /\ tCount + 1 < (NumFrames - 1) * SlotsPerPage

Fits(q) == \A f \in Frames : q.page[f] < NumFrames

(* What is in no frame was never written. *)
Behind(q) == \A o \in Nat \ {0} : FramesOf(q, o) = {} => DeliveredBy(q, o) = ZeroPage

(* From q to r no page left its frame, and the bytes of those with records are the
   same. *)
SameTable(q, r) ==
    /\ WellFormed(r) /\ Fits(r)
    /\ \A o \in Nat \ {0} : DeliveredBy(r, o) = DeliveredBy(q, o)
    /\ \A o \in Nat : FramesOf(r, o) = {} => FramesOf(q, o) = {}
    /\ q.page[0] = 0 => r.page[0] = 0

(* ... and page 0 has not fewer pins. *)
Carried(q, r) ==
    /\ SameTable(q, r)
    /\ q.page[0] = 0 => r.fix[0] >= q.fix[0]

(* A page that fits and has no frame finds an empty one. *)
LEMMA RoomForPage ==
  ASSUME NEW q, WellFormed(q), Fits(q), NEW p \in Nat, p < NumFrames,
         \A g \in Frames : q.page[g] # p
  PROVE  \E g \in Frames : q.page[g] = NO_PAGE
<1> SUFFICES ASSUME \A g \in Frames : q.page[g] # NO_PAGE PROVE FALSE
  OBVIOUS
<1> DEFINE others == Frames \ {p}
<1>1. NumFrames \in Nat /\ NumFrames >= 2 /\ p \in Frames
  BY PoolAssumption DEF Frames
<1>2. IsFiniteSet(Frames) /\ Cardinality(Frames) = NumFrames
  BY <1>1, FS_Interval DEF Frames
<1>3. IsFiniteSet(others) /\ Cardinality(others) = NumFrames - 1
  BY <1>1, <1>2, FS_RemoveElement
<1>4. q.page \in [Frames -> others]
  <2>1. q.page \in [Frames -> Nat \cup {NO_PAGE}]
    BY DEF WellFormed, Pool
  <2>2. ASSUME NEW g \in Frames PROVE q.page[g] \in others
    <3>1. q.page[g] \in Nat /\ q.page[g] < NumFrames /\ q.page[g] # p
      BY <2>1 DEF Fits
    <3> QED
      BY <1>1, <3>1 DEF Frames
  <2> HIDE DEF others
  <2> QED
    BY <2>1, <2>2
<1> HIDE DEF others
<1>5. PICK x, y \in Frames : x # y /\ q.page[x] = q.page[y]
  <2>1. Cardinality(others) < Cardinality(Frames)
    BY <1>1, <1>2, <1>3
  <2> QED
    BY <1>2, <1>3, <1>4, <2>1, FS_PigeonHole
<1> QED
  BY <1>5 DEF WellFormed, Distinct

LEMMA SameTableTransitive ==
  ASSUME NEW q, NEW r, NEW t, SameTable(q, r), SameTable(r, t)
  PROVE  SameTable(q, t)
BY DEF SameTable

LEMMA CarriedTransitive ==
  ASSUME NEW q, WellFormed(q), NEW r, NEW t, Carried(q, r), Carried(r, t)
  PROVE  Carried(q, t)
<1>1. SameTable(q, t)
  BY SameTableTransitive DEF Carried
<1>2. q.fix[0] \in Int /\ r.fix[0] \in Int /\ t.fix[0] \in Int
  BY Numbers DEF Carried, SameTable, WellFormed, Pool
<1> QED
  BY <1>1, <1>2 DEF Carried, SameTable

LEMMA CarriedReflexive ==
  ASSUME NEW q, WellFormed(q), Fits(q)
  PROVE  Carried(q, q)
<1>1. q.fix[0] \in Int
  BY Numbers DEF WellFormed, Pool
<1> QED
  BY <1>1 DEF Carried, SameTable

(* Nobody holds page o and nobody did: its bytes are those of the file. *)
LEMMA UnheldIs ==
  ASSUME NEW q, NEW r, FileKept(q, r), NEW o \in Nat, FramesOf(q, o) = {}, FramesOf(r, o) = {}
  PROVE  DeliveredBy(r, o) = DeliveredBy(q, o)
BY DEF FileKept, SameReads, DeliveredBy

(* Pinning a page that fits moves no other. *)
LEMMA PinCarries ==
  ASSUME NEW q, WellFormed(q), Fits(q), NEW p \in Nat, p < NumFrames
  PROVE  /\ Carried(q, PinPage(q, p))
         /\ q.page[0] = 0 /\ p = 0 => PinPage(q, p).fix[0] = q.fix[0] + 1
         /\ q.page[0] = NO_PAGE /\ p = 0 => PinPage(q, p).page[0] = 0 /\ PinPage(q, p).fix[0] = 1
<1> DEFINE r == PinPage(q, p)
<1>1. PICK f \in Frames : PinnedAt(q, r, f, p)
  BY PinKeeps
<1>2. WellFormed(r)
  BY PinKeeps
<1>3. NO_PAGE \notin Nat /\ 0 \in Frames /\ Frames \in SUBSET Nat
  BY Numbers
<1> HIDE DEF r
<1>4. r.page[f] = p /\ OthersKept(q, r, f) /\ FileKept(q, r)
  BY <1>1 DEF PinnedAt
<1>5. Fits(r)
  BY <1>4 DEF Fits, OthersKept
<1>6. q.fix[0] \in Int
  BY <1>3 DEF WellFormed, Pool
<1>7. CASE FoundAt(q, r, f, p)
  <2>1. q.page[f] = p /\ r.fix[f] = q.fix[f] + 1 /\ Bytes(r, f) = Bytes(q, f)
    BY <1>7 DEF FoundAt
  <2>2. \A g \in Frames : r.page[g] = q.page[g]
    BY <1>4, <2>1 DEF OthersKept
  <2>3. \A o : FramesOf(r, o) = FramesOf(q, o)
    BY <2>2 DEF FramesOf
  <2>4. ASSUME NEW o \in Nat PROVE DeliveredBy(r, o) = DeliveredBy(q, o)
    <3>1. CASE FramesOf(q, o) = {}
      BY <1>4, <2>3, <3>1, UnheldIs
    <3>2. ASSUME NEW g \in Frames, q.page[g] = o PROVE DeliveredBy(r, o) = DeliveredBy(q, o)
      <4>1. DeliveredBy(q, o) = Bytes(q, g) /\ DeliveredBy(r, o) = Bytes(r, g)
        BY <1>2, <2>2, <3>2, FrameOf
      <4>2. Bytes(r, g) = Bytes(q, g)
        BY <1>3, <1>4, <2>1, <3>2 DEF OthersKept
      <4> QED
        BY <4>1, <4>2
    <3> QED
      BY <3>1, <3>2 DEF FramesOf
  <2>5. r.fix[0] = q.fix[0] \/ (f = 0 /\ r.fix[0] = q.fix[0] + 1)
    BY <1>3, <1>4, <2>1 DEF OthersKept
  <2>6. q.page[0] = 0 /\ p = 0 => f = 0
    BY <1>3, <2>1 DEF WellFormed, Distinct
  <2>7. SameTable(q, r)
    BY <1>2, <1>3, <1>5, <2>2, <2>3, <2>4 DEF SameTable
  <2>8. q.page[0] = NO_PAGE => p # 0
    <3> SUFFICES ASSUME q.page[0] = NO_PAGE PROVE q.page[f] = NO_PAGE
      BY <1>3, <2>1
    <3>1. f = 0 \/ 0 < f
      BY <1>3
    <3> QED
      BY <1>3, <3>1 DEF WellFormed, FilledFirst
  <2>9. r.fix[0] >= q.fix[0]
    BY <1>6, <2>5
  <2>10. q.page[0] = 0 /\ p = 0 => r.fix[0] = q.fix[0] + 1
    BY <2>1, <2>6
  <2> QED
    BY <2>7, <2>8, <2>9, <2>10 DEF Carried, r
<1>8. CASE EnteredAt(q, r, f, p)
  <2>1. /\ \A g \in Frames : q.page[g] # p
        /\ \A g \in Frames : g < f => q.page[g] # NO_PAGE
        /\ r.fix[f] = 1 /\ Bytes(r, f) = readBlock(q.file, p, ZeroPage)
        /\ q.page[f] = NO_PAGE \/ (f = 0 /\ \A g \in Frames : q.page[g] # NO_PAGE)
    BY <1>8 DEF EnteredAt
  <2>2. q.page[f] = NO_PAGE
    BY <2>1, RoomForPage
  <2>3. \A g \in Frames : g # f => r.page[g] = q.page[g] /\ r.fix[g] = q.fix[g]
    BY <1>4 DEF OthersKept
  <2>4. \A o \in Nat : FramesOf(r, o) = {} => FramesOf(q, o) = {}
    BY <1>3, <2>2, <2>3 DEF FramesOf
  <2>5. ASSUME NEW o \in Nat PROVE DeliveredBy(r, o) = DeliveredBy(q, o)
    <3>1. CASE o = p
      <4>1. FramesOf(q, p) = {}
        BY <2>1 DEF FramesOf
      <4>2. DeliveredBy(q, p) = readBlock(q.file, p, ZeroPage)
        BY <4>1 DEF DeliveredBy
      <4>3. DeliveredBy(r, p) = Bytes(r, f)
        BY <1>2, <1>4, FrameOf
      <4> QED
        BY <2>1, <3>1, <4>2, <4>3
    <3>2. CASE o # p /\ FramesOf(q, o) = {}
      <4>1. FramesOf(r, o) = {}
        BY <1>4, <2>3, <3>2 DEF FramesOf
      <4> QED
        BY <1>4, <3>2, <4>1, UnheldIs
    <3>3. ASSUME NEW g \in Frames, q.page[g] = o, o # p PROVE DeliveredBy(r, o) = DeliveredBy(q, o)
      <4>1. g # f /\ q.page[g] # NO_PAGE
        BY <1>3, <2>2, <3>3
      <4>2. r.page[g] = o /\ Bytes(r, g) = Bytes(q, g)
        BY <1>4, <3>3, <4>1 DEF OthersKept
      <4> QED
        BY <1>2, <3>3, <4>2, FrameOf
    <3> QED
      BY <3>1, <3>2, <3>3 DEF FramesOf
  <2>6. q.page[0] = 0 => f # 0
    BY <1>3, <2>2
  <2>7. SameTable(q, r)
    BY <1>2, <1>3, <1>5, <2>3, <2>4, <2>5, <2>6 DEF SameTable
  <2>8. q.page[0] = 0 => p # 0
    BY <1>3, <2>1
  <2>9. q.page[0] = NO_PAGE => f = 0
    <3>1. 0 < f \/ f = 0
      BY <1>3
    <3> QED
      BY <1>3, <2>1, <3>1
  <2>10. q.page[0] = 0 => r.fix[0] >= q.fix[0]
    BY <1>3, <1>6, <2>3, <2>6
  <2> QED
    BY <1>4, <2>1, <2>7, <2>8, <2>9, <2>10 DEF Carried, r
<1> QED
  BY <1>1, <1>7, <1>8 DEF PinnedAt

(* Steps that leave pages and buffers where they are. *)
LEMMA SamePagesSame ==
  ASSUME NEW q, WellFormed(q), Fits(q), NEW r, SamePages(q, r)
  PROVE  SameTable(q, r)
BY SamePagesKeeps DEF SamePages, SameTable, Fits

LEMMA MarkCarries ==
  ASSUME NEW q, WellFormed(q), Fits(q)
  PROVE  Carried(q, MarkDirty(q)) /\ MarkDirty(q).fix = q.fix
<1>1. q.fix[0] \in Int
  BY Numbers DEF WellFormed, Pool
<1> QED
  BY <1>1, MarkDirtyIs, SamePagesSame DEF Carried

LEMMA ForceCarries ==
  ASSUME NEW q, WellFormed(q), Fits(q), NEW p
  PROVE  Carried(q, ForcePage(q, p)) /\ ForcePage(q, p).fix = q.fix
<1>1. q.fix[0] \in Int
  BY Numbers DEF WellFormed, Pool
<1> QED
  BY <1>1, ForceIs, SamePagesSame DEF Carried

LEMMA FlushCarries ==
  ASSUME NEW q, WellFormed(q), Fits(q)
  PROVE  Carried(q, ForceFlushPool(q)) /\ ForceFlushPool(q).fix = q.fix
<1>1. q.fix[0] \in Int
  BY Numbers DEF WellFormed, Pool
<1> QED
  BY <1>1, FlushIs, SamePagesSame DEF Carried

(* Unpinning another page than page 0 leaves the pins of that one alone. *)
LEMMA UnpinCarries ==
  ASSUME NEW q, WellFormed(q), Fits(q), NEW p
  PROVE  /\ SameTable(q, Unpin(q, p))
         /\ p # 0 => Carried(q, Unpin(q, p))
         /\ q.page[0] = 0 => Unpin(q, p).fix[0] = IF p = 0 THEN q.fix[0] - 1 ELSE q.fix[0]
<1>1. q.fix[0] \in Int /\ 0 \in Frames
  BY Numbers DEF WellFormed, Pool
<1>2. SameTable(q, Unpin(q, p))
  BY UnpinIs, SamePagesSame
<1>3. Unpin(q, p).fix[0] = IF q.page[0] = p THEN q.fix[0] - 1 ELSE q.fix[0]
  BY <1>1, UnpinIs
<1>4. q.page[0] = 0 => Unpin(q, p).fix[0] = IF p = 0 THEN q.fix[0] - 1 ELSE q.fix[0]
  BY <1>3
<1> QED
  BY <1>1, <1>2, <1>4 DEF Carried

(* A slot that is set changes its own page only. *)
LEMMA SetSlotChanges ==
  ASSUME NEW q, WellFormed(q), Fits(q), Behind(q), NEW r \in Rids, FramesOf(q, r.page) # {},
         NEW content \in Contents
  PROVE  LET t == SetSlot(q, r, content) IN
         /\ WellFormed(t) /\ Fits(t) /\ Behind(t) /\ t.page = q.page /\ t.fix = q.fix
         /\ FramesOf(t, r.page) # {}
         /\ DeliveredBy(t, r.page) = WithSlot(DeliveredBy(q, r.page), r.slot, content)
         /\ \A o \in Nat \ {r.page} : DeliveredBy(t, o) = DeliveredBy(q, o)
<1> DEFINE t == SetSlot(q, r, content)
<1>1. r \in [page : Nat, slot : Slots]
  BY RidIs
<1>2. /\ WellFormed(t) /\ t.page = q.page /\ t.fix = q.fix
      /\ \A o : FramesOf(t, o) = FramesOf(q, o)
      /\ PageBytes(t, r.page) = WithSlot(PageBytes(q, r.page), r.slot, content)
      /\ \A o \in Nat \ {r.page} : DeliveredBy(t, o) = DeliveredBy(q, o)
  BY <1>1, SetSlotIs
<1> HIDE DEF t
<1>3. Fits(t)
  BY <1>2 DEF Fits
<1>4. Behind(t)
  BY <1>2 DEF Behind
<1>5. DeliveredBy(t, r.page) = WithSlot(DeliveredBy(q, r.page), r.slot, content)
  BY <1>2 DEF DeliveredBy
<1> QED
  BY <1>2, <1>3, <1>4, <1>5 DEF t

LEMMA BehindKept ==
  ASSUME NEW q, Behind(q), NEW r, SameTable(q, r)
  PROVE  Behind(r)
BY DEF Behind, SameTable

-----------------------------------------------------------------------------
(* The search for a place moves no page.                                     *)

LEMMA TryCarries ==
  ASSUME NEW q, WellFormed(q), NEW at, Searching(at, q), Carried(q, at.pool),
         NEW p \in 1 .. MaxPage, p < NumFrames
  PROVE  Carried(q, TryPage(at, p).pool)
<1> DEFINE pl == PinPage(at.pool, p)
<1>1. p \in Nat /\ p # 0
  OBVIOUS
<1>2. Carried(q, pl) /\ WellFormed(pl) /\ Fits(pl)
  <2>1. WellFormed(at.pool) /\ Fits(at.pool)
    BY DEF Carried, SameTable
  <2>2. Carried(at.pool, pl)
    BY <1>1, <2>1, PinCarries
  <2> HIDE DEF pl
  <2>3. Carried(q, pl)
    BY <2>2, CarriedTransitive
  <2> QED
    BY <2>3 DEF Carried, SameTable
<1>3. TryPage(at, p) \in {at, [page |-> p, pool |-> pl], [page |-> NO_PAGE, pool |-> Unpin(pl, p)]}
  BY DEF TryPage
<1> HIDE DEF pl
<1>4. Carried(q, Unpin(pl, p))
  <2>1. Carried(pl, Unpin(pl, p))
    BY <1>1, <1>2, UnpinCarries
  <2> QED
    BY <1>2, <2>1, CarriedTransitive
<1> QED
  BY <1>2, <1>3, <1>4

LEMMA PlaceCarries ==
  ASSUME WellFormed(bp), Fits(bp), freePg \in 1 .. MaxPage, MaxPage < NumFrames
  PROVE  Carried(bp, PlaceForRecord.pool)
<1> DEFINE start == [page |-> NO_PAGE, pool |-> bp]
           n == MaxPage + 1 - freePg
<1>0. MaxPage \in Nat /\ freePg \in Nat /\ n \in Nat /\ NumFrames \in Nat
  BY SlotsAssumption, PoolAssumption
<1>1. PICK at : /\ at[0] = start
                /\ \A k \in 1 .. n : at[k] = TryPage(at[k - 1], freePg + k - 1)
                /\ Tried(start, freePg, n) = at[n]
  <2> HIDE DEF n, start
  <2> QED
    BY <1>0, TriedRounds
<1>2. PlaceForRecord = at[n]
  <2>1. PlaceForRecord = Tried(start, freePg, n)
    BY DEF PlaceForRecord, Tried
  <2> QED
    BY <1>1, <2>1
<1> DEFINE S == {k \in Nat : k <= n => Searching(at[k], bp) /\ Carried(bp, at[k].pool)}
<1>3. 0 \in S
  <2>1. at[0].pool = bp /\ at[0].page = NO_PAGE
    BY <1>1
  <2>2. Searching(at[0], bp) /\ Carried(bp, at[0].pool)
    BY <2>1, CarriedReflexive DEF Searching
  <2> QED
    BY <2>2
<1>4. ASSUME NEW k \in S PROVE k + 1 \in S
  <2> SUFFICES ASSUME k + 1 <= n
               PROVE  Searching(at[k + 1], bp) /\ Carried(bp, at[k + 1].pool)
    OBVIOUS
  <2>1. /\ k + 1 \in 1 .. n /\ k \in Nat /\ (k + 1) - 1 = k
        /\ freePg + (k + 1) - 1 \in 1 .. MaxPage /\ freePg + (k + 1) - 1 < NumFrames
    BY <1>0
  <2>2. at[k + 1] = TryPage(at[k], freePg + (k + 1) - 1)
    BY <1>1, <2>1
  <2>3. Searching(at[k], bp) /\ Carried(bp, at[k].pool)
    BY <2>1, <1>0
  <2> QED
    BY <2>1, <2>2, <2>3, TryKeeps, TryCarries
<1>5. n \in S
  <2>1. S \in SUBSET Nat
    OBVIOUS
  <2> HIDE DEF S
  <2> QED
    BY <1>0, <1>3, <1>4, <2>1, AllNumbers
<1> QED
  BY <1>0, <1>2, <1>5

-----------------------------------------------------------------------------
(* A scan moves no page and returns the slots it passes.                     *)

Place(r) == (r.page - 1) * SlotsPerPage + r.slot

Passed(sc, q) ==
    {r \in Rids : Place(r) \in 1 .. sc.count /\ DeliveredBy(q, r.page)[r.slot] \in sc.cond}

SeenAll(sc, q) == sc.still => sc.seen = Passed(sc, q)

(* One slot more is returned, one that was not and that satisfies the condition. *)
Returned(seen, sc, q) ==
    \E r \in Rids \ sc.seen : /\ DeliveredBy(q, r.page)[r.slot] \in sc.cond
                              /\ seen = sc.seen \cup {r}

(* The loop of next, b rounds after it began with scan sc and pool q. *)
Passing(at, sc, q, b) ==
    /\ Looping(at, sc, q, b) /\ Carried(q, at.pool)
    /\ SeenAll(at.sc, q)
    /\ sc.still => IF at.hit THEN Returned(at.sc.seen, sc, q) ELSE at.sc.seen = sc.seen
    /\ ~at.hit => at.sc.count = sc.count + b
    /\ at.sc.pinned = sc.pinned \/ at.sc.pinned \in Nat \ {0}

LEMMA PlacesAre ==
  ASSUME NEW r \in Rids, NEW o \in Rids, Place(r) = Place(o)
  PROVE  r = o
<1>1. r = [page |-> r.page, slot |-> r.slot] /\ o = [page |-> o.page, slot |-> o.slot]
      /\ r.page \in Nat \ {0} /\ o.page \in Nat \ {0} /\ r.slot \in Slots /\ o.slot \in Slots
  BY RidIs
<1>2. r.page = o.page /\ r.slot = o.slot
  BY <1>1, OnePlace DEF Place
<1> QED
  BY <1>1, <1>2

LEMMA PlaceIsNumber ==
  ASSUME NEW r \in Rids
  PROVE  Place(r) \in Nat
<1>1. r.page - 1 \in Nat /\ r.slot \in Nat /\ SlotsPerPage \in Nat
  BY RidIs, SlotsAssumption DEF Slots
<1>2. (r.page - 1) * SlotsPerPage \in Nat
  BY <1>1, Product
<1> QED
  BY <1>1, <1>2 DEF Place

(* One more slot is passed. *)
LEMMA OneMore ==
  ASSUME NEW sc, NEW t, NEW q, NEW x \in Rids, sc.count \in Nat, t.count = sc.count + 1,
         t.cond = sc.cond, Place(x) = sc.count + 1, sc.seen = Passed(sc, q),
         t.seen = IF DeliveredBy(q, x.page)[x.slot] \in sc.cond THEN sc.seen \cup {x} ELSE sc.seen
  PROVE  t.seen = Passed(t, q)
<1> DEFINE hit(r) == DeliveredBy(q, r.page)[r.slot] \in sc.cond
<1>1. ASSUME NEW r \in Rids
      PROVE  r \in t.seen <=> r \in Passed(t, q)
  <2>1. Place(r) \in Nat
    BY PlaceIsNumber
  <2>2. Place(r) \in 1 .. t.count <=> Place(r) \in 1 .. sc.count \/ Place(r) = Place(x)
    BY <2>1
  <2>3. Place(r) = Place(x) <=> r = x
    BY PlacesAre
  <2>4. r \in Passed(t, q) <=> (r \in sc.seen \/ (r = x /\ hit(x)))
    BY <2>2, <2>3 DEF Passed
  <2> HIDE DEF hit
  <2>5. r \in t.seen <=> (r \in sc.seen \/ (r = x /\ hit(x)))
    BY DEF hit
  <2> QED
    BY <2>4, <2>5
<1>2. t.seen \subseteq Rids /\ Passed(t, q) \subseteq Rids
  BY DEF Passed
<1> HIDE DEF hit
<1> QED
  BY <1>1, <1>2, Zenon

LEMMA SlotPasses ==
  ASSUME NEW at, NEW sc \in ScanState, NEW q, WellFormed(q), NEW b \in Nat,
         Passing(at, sc, q, b), NEW i,
         sc.still => sc.count + b + 1 <= ATTRIBUTE_SZ + 1,
         sc.count + b + 1 < (NumFrames - 1) * SlotsPerPage
  PROVE  Passing(ScanSlot(at, i), sc, q, b + 1)
<1>1. sc.count \in Nat /\ at.sc.count \in Nat /\ Looping(at, sc, q, b) /\ Carried(q, at.pool)
      /\ WellFormed(at.pool) /\ Fits(at.pool)
  BY DEF ScanState, Looping, Passing, SteadyScan, Carried, SameTable
<1>0. Looping(ScanSlot(at, i), sc, q, b + 1)
  BY <1>1, SlotKeeps
<1>2. CASE at.hit
  <2>1. ScanSlot(at, i) = at
    BY <1>2 DEF ScanSlot
  <2> QED
    BY <1>0, <1>2, <2>1 DEF Passing
<1>3. CASE at.hit = FALSE
  <2> DEFINE a == Advanced(at.sc)
             pl == PinPage(at.pool, a.page)
             c == PageBytes(pl, a.page)[a.slot]
             t == ScanSlot(at, i)
             x == [page |-> a.page, slot |-> a.slot]
  <2>0. ATTRIBUTE_SZ \in Nat /\ NumFrames \in Nat /\ NumFrames - 1 \in Nat
    BY ScanAssumption, PoolAssumption
  <2>1. at.sc.count = sc.count + b /\ SteadyScan(at.sc) /\ at.sc.still = sc.still
        /\ at.sc.cond = sc.cond
    BY <1>1, <1>3 DEF Passing, Looping
  <2>2. /\ Visited(at, t, a, pl, c) /\ t.sc \in ScanState /\ Counted(t.sc)
        /\ at.sc.still => x \in Rids
    BY <1>1, <1>3, <2>0, <2>1, SlotIs
  <2>3. /\ a \in ScanState /\ (a.page - 1) * SlotsPerPage + a.slot = at.sc.count + 1
    BY <2>1, AdvancedIs
  <2> HIDE DEF t, a
  <2>4. a.page \in Nat \ {0} /\ a.slot \in Slots /\ a.page <= NumFrames - 1
    <3>1. a.page \in Nat \ {0} /\ a.slot \in Slots
      BY <2>3 DEF ScanState
    <3> QED
      BY <2>0, <2>1, <2>3, <3>1, WithinPages
  <2>5. a.page < NumFrames
    BY <2>0, <2>4
  <2>6. Carried(at.pool, pl)
    BY <1>1, <2>4, <2>5, PinCarries
  <2>7. FramesOf(pl, a.page) # {}
    BY <1>1, <2>4, PinShows
  <2> HIDE DEF pl
  <2>8. Carried(q, pl)
    BY <1>1, <2>6, CarriedTransitive
  <2>9. WellFormed(pl) /\ Fits(pl) /\ DeliveredBy(pl, a.page) = DeliveredBy(q, a.page)
    BY <2>4, <2>8 DEF Carried, SameTable
  <2>10. c = DeliveredBy(q, a.page)[a.slot]
    BY <2>7, <2>9 DEF DeliveredBy
  <2>11. Carried(q, Unpin(pl, a.page))
    <3>1. Carried(pl, Unpin(pl, a.page))
      BY <2>4, <2>9, UnpinCarries
    <3> QED
      BY <2>8, <3>1, CarriedTransitive
  <2> HIDE DEF c
  <2>12. /\ t.sc.count = at.sc.count + 1 /\ t.sc.cond = at.sc.cond /\ t.sc.still = at.sc.still
         /\ t.sc.pinned = a.page /\ t.hit \in BOOLEAN /\ (t.hit <=> c \in at.sc.cond)
         /\ t.sc.seen = IF c \in at.sc.cond /\ at.sc.still THEN at.sc.seen \cup {x} ELSE at.sc.seen
         /\ t.pool = IF c \in at.sc.cond THEN Unpin(pl, a.page) ELSE pl
    BY <2>2 DEF Visited
  <2>13. Carried(q, t.pool)
    BY <2>8, <2>11, <2>12
  <2>14. SeenAll(t.sc, q)
    <3> SUFFICES ASSUME t.sc.still PROVE t.sc.seen = Passed(t.sc, q)
      BY DEF SeenAll
    <3>1. x \in Rids /\ x.page = a.page /\ x.slot = a.slot /\ at.sc.still
      BY <2>2, <2>12
    <3>2. Place(x) = at.sc.count + 1
      BY <2>3, <3>1 DEF Place
    <3>3. at.sc.seen = Passed(at.sc, q)
      BY <3>1 DEF Passing, SeenAll
    <3>4. t.sc.seen = IF DeliveredBy(q, x.page)[x.slot] \in at.sc.cond
                      THEN at.sc.seen \cup {x} ELSE at.sc.seen
      BY <2>10, <2>12, <3>1
    <3> HIDE DEF x
    <3> DEFINE u == at.sc
               w == t.sc
    <3>5. /\ u.count \in Nat /\ w.count = u.count + 1 /\ w.cond = u.cond /\ Place(x) = u.count + 1
          /\ u.seen = Passed(u, q)
          /\ w.seen = IF DeliveredBy(q, x.page)[x.slot] \in u.cond THEN u.seen \cup {x} ELSE u.seen
      BY <1>1, <2>12, <3>2, <3>3, <3>4
    <3>6. ASSUME NEW y, y = u, NEW z, z = w PROVE z.seen = Passed(z, q)
      <4> HIDE DEF u, w
      <4> QED
        BY <3>1, <3>5, <3>6, OneMore
    <3> QED
      BY <3>6
  <2>15. sc.still => IF t.hit THEN Returned(t.sc.seen, sc, q) ELSE t.sc.seen = sc.seen
    <3> SUFFICES ASSUME sc.still
                 PROVE  IF t.hit THEN Returned(t.sc.seen, sc, q) ELSE t.sc.seen = sc.seen
      OBVIOUS
    <3>1. at.sc.still /\ at.sc.seen = sc.seen /\ at.sc.seen = Passed(at.sc, q)
      BY <1>3, <2>1 DEF Passing, SeenAll
    <3>2. x \in Rids /\ x.page = a.page /\ x.slot = a.slot
      BY <2>2, <3>1
    <3>3. Place(x) = at.sc.count + 1
      BY <2>3, <3>2 DEF Place
    <3>4. x \notin sc.seen
      <4>1. ~(at.sc.count + 1 \in 1 .. at.sc.count)
        BY <1>1
      <4> QED
        BY <3>1, <3>3, <4>1 DEF Passed
    <3>5. CASE t.hit
      <4>1. t.sc.seen = sc.seen \cup {x} /\ DeliveredBy(q, x.page)[x.slot] \in sc.cond
        BY <2>1, <2>10, <2>12, <3>1, <3>2, <3>5
      <4> HIDE DEF x
      <4> QED
        BY <3>2, <3>4, <3>5, <4>1 DEF Returned
    <3>6. CASE ~t.hit
      BY <2>12, <3>1, <3>6
    <3> QED
      BY <3>5, <3>6
  <2>16. t.sc.count = sc.count + (b + 1)
    BY <1>1, <2>1, <2>12
  <2>17. t.sc.pinned \in Nat \ {0}
    BY <2>4, <2>12
  <2>18. Looping(t, sc, q, b + 1)
    BY <1>0 DEF t
  <2> QED
    BY <2>13, <2>14, <2>15, <2>16, <2>17, <2>18 DEF Passing, t
<1> QED
  BY <1>1, <1>2, <1>3 DEF Looping

LEMMA ScannedPasses ==
  ASSUME IInv, PagesFit, Fits(bp), NEW s \in Scans, scan[s].on, SeenAll(scan[s], bp)
  PROVE  Passing(Scanned(s), scan[s], bp, Rounds(s))
<1>1. PICK at : /\ at[0] = [sc |-> scan[s], pool |-> bp, hit |-> FALSE]
                /\ \A k \in 1 .. Rounds(s) : at[k] = ScanSlot(at[k - 1], k)
                /\ Scanned(s) = at[Rounds(s)]
  BY ScannedInRounds
<1>2. /\ Rounds(s) \in Nat /\ scan[s] \in ScanState /\ scan[s].count \in Nat
      /\ scan[s].still => scan[s].count + Rounds(s) <= ATTRIBUTE_SZ + 1
      /\ Rounds(s) > 0 => scan[s].count + Rounds(s) = tCount + 1
      /\ tCount \in Nat
  <2>1. Rounds(s) \in Nat
    BY ScannedInRounds
  <2>2. scan[s] \in ScanState /\ scan[s].count \in Nat /\ tCount \in Nat
    BY DEF IInv, Types, ScansSteady, ScanState
  <2>3. scan[s].still => tCount = ATTRIBUTE_SZ /\ scan[s].count <= ATTRIBUTE_SZ + 1
    BY DEF IInv, ScansSteady, SteadyScan
  <2> QED
    BY <2>1, <2>2, <2>3, ScanAssumption DEF Rounds
<1>0. WellFormed(bp) /\ (NumFrames - 1) * SlotsPerPage \in Nat
  <2>1. NumFrames - 1 \in Nat /\ SlotsPerPage \in Nat
    BY PoolAssumption, SlotsAssumption
  <2> QED
    BY <2>1, Product DEF IInv, Types
<1> DEFINE S == {k \in Nat : k <= Rounds(s) => Passing(at[k], scan[s], bp, k)}
<1>3. 0 \in S
  <2>1. SteadyScan(scan[s])
    BY DEF IInv, ScansSteady
  <2>2. scan[s].count <= scan[s].count + 0 /\ scan[s].count = scan[s].count + 0
    BY <1>2
  <2>3. at[0].sc = scan[s] /\ at[0].pool = bp /\ at[0].hit = FALSE
    BY <1>1
  <2>4. Looping(at[0], scan[s], bp, 0)
    BY <1>0, <2>1, <2>2, <2>3 DEF Looping
  <2>5. Carried(bp, at[0].pool)
    BY <1>0, <2>3, CarriedReflexive
  <2>6. Passing(at[0], scan[s], bp, 0)
    BY <2>2, <2>3, <2>4, <2>5 DEF Passing
  <2> QED
    BY <2>6
<1>4. ASSUME NEW k \in S PROVE k + 1 \in S
  <2> SUFFICES ASSUME k + 1 <= Rounds(s) PROVE Passing(at[k + 1], scan[s], bp, k + 1)
    OBVIOUS
  <2>1. k + 1 \in 1 .. Rounds(s) /\ k \in Nat /\ (k + 1) - 1 = k /\ k <= Rounds(s)
    BY <1>2
  <2>2. at[k + 1] = ScanSlot(at[k], k + 1)
    BY <1>1, <2>1
  <2>3. Passing(at[k], scan[s], bp, k)
    BY <2>1
  <2>4. scan[s].still => scan[s].count + k + 1 <= ATTRIBUTE_SZ + 1
    BY <1>2, <2>1, ScanAssumption
  <2>5. scan[s].count + k + 1 < (NumFrames - 1) * SlotsPerPage
    <3>1. scan[s].count + k + 1 <= tCount + 1
      BY <1>2, <2>1
    <3> QED
      BY <1>0, <1>2, <2>1, <3>1 DEF PagesFit
  <2>6. Passing(ScanSlot(at[k], k + 1), scan[s], bp, k + 1)
    BY <1>0, <1>2, <2>1, <2>3, <2>4, <2>5, SlotPasses
  <2> QED
    BY <2>2, <2>6
<1>5. Rounds(s) \in S
  <2>1. S \in SUBSET Nat
    OBVIOUS
  <2> HIDE DEF S
  <2> QED
    BY <1>2, <1>3, <1>4, <2>1, AllNumbers
<1> QED
  BY <1>1, <1>2, <1>5

-----------------------------------------------------------------------------
(* The invariant of tables whose pages fit.                                  *)

PoolFits == Fits(bp) /\ Behind(bp)

(* The scans whose last pin was that of page 0, which they take back when they are
   closed. *)
AtHeader == {s \in Scans : scan[s].pinned = 0}

(* Page 0 is in frame 0, with a pin of each of them and one that insertRecord left. *)
HeaderPinned ==
    /\ bp.page[0] = 0 /\ IsFiniteSet(AtHeader)
    /\ bp.fix[0] >= Cardinality(AtHeader) + (IF inserted THEN 1 ELSE 0)

Unused ==
    /\ mgr \in {"created", "hung"} => ~inserted
    /\ mgr = "created" => bp.page[0] = NO_PAGE
    /\ mgr \in {"open", "closed"} => HeaderPinned

SeenInv == \A s \in Scans : SeenAll(scan[s], bp)

FitInv == PoolFits /\ Unused /\ SeenInv /\ recs = RecordsIn(bp)

-----------------------------------------------------------------------------
(* Facts about records and scans that the calls share.                       *)

LEMMA SameRecords ==
  ASSUME NEW q, NEW r, SameTable(q, r)
  PROVE  RecordsIn(r) = RecordsIn(q) /\ \A sc : Passed(sc, r) = Passed(sc, q)
<1>1. \A x \in Rids : DeliveredBy(r, x.page) = DeliveredBy(q, x.page)
  BY RidIs DEF SameTable
<1>2. RecordsIn(r) = RecordsIn(q)
  BY <1>1 DEF RecordsIn
<1>3. \A sc : Passed(sc, r) = Passed(sc, q)
  BY <1>1 DEF Passed
<1> QED
  BY <1>2, <1>3

LEMMA DeliveredIsData ==
  ASSUME NEW q, WellFormed(q), NEW p \in Nat
  PROVE  DeliveredBy(q, p) \in Data
<1>1. CASE FramesOf(q, p) = {}
  <2>1. q.file \in File
    BY DEF WellFormed, Pool
  <2> QED
    BY <1>1, <2>1, ReadIs DEF DeliveredBy
<1>2. ASSUME NEW f \in Frames, q.page[f] = p PROVE DeliveredBy(q, p) \in Data
  BY <1>2, FrameOf
<1> QED
  BY <1>1, <1>2 DEF FramesOf

RecordOf(content) == IF content \in Values THEN content ELSE NoRecord

LEMMA RecordAt ==
  ASSUME NEW q, NEW x \in Rids
  PROVE  RecordsIn(q)[x] = RecordOf(DeliveredBy(q, x.page)[x.slot])
BY DEF RecordsIn, RecordOf

(* Setting a slot changes the record of its id. *)
LEMMA OneRecordChanged ==
  ASSUME NEW q, WellFormed(q), NEW t, NEW r \in Rids, NEW content,
         DeliveredBy(t, r.page) = WithSlot(DeliveredBy(q, r.page), r.slot, content),
         \A o \in Nat \ {r.page} : DeliveredBy(t, o) = DeliveredBy(q, o)
  PROVE  RecordsIn(t) = [RecordsIn(q) EXCEPT ![r] = RecordOf(content)]
<1> DEFINE changed == [RecordsIn(q) EXCEPT ![r] = RecordOf(content)]
<1>1. ASSUME NEW x \in Rids PROVE RecordsIn(t)[x] = changed[x]
  <2>1. /\ x.page \in Nat /\ x.slot \in Slots /\ x = [page |-> x.page, slot |-> x.slot]
        /\ r.page \in Nat /\ r.slot \in Slots /\ r = [page |-> r.page, slot |-> r.slot]
    BY RidIs
  <2>2. changed[x] = IF x = r THEN RecordOf(content) ELSE RecordsIn(q)[x]
    BY DEF RecordsIn
  <2>3. DeliveredBy(q, r.page) \in [Slots -> Contents \cup {"header"}]
    BY <2>1, DeliveredIsData DEF Data
  <2>4. CASE x = r
    <3>1. DeliveredBy(t, r.page)[r.slot] = content
      BY <2>1, <2>3 DEF WithSlot
    <3> QED
      BY <2>2, <2>4, <3>1, RecordAt
  <2>5. CASE x # r /\ x.page = r.page
    <3>1. x.slot # r.slot
      BY <2>1, <2>5
    <3>2. DeliveredBy(t, x.page)[x.slot] = DeliveredBy(q, x.page)[x.slot]
      BY <2>1, <2>3, <2>5, <3>1 DEF WithSlot
    <3> QED
      BY <2>2, <2>5, <3>2, RecordAt
  <2>6. CASE x.page # r.page
    <3>1. DeliveredBy(t, x.page) = DeliveredBy(q, x.page)
      BY <2>1, <2>6
    <3> QED
      BY <2>2, <2>6, <3>1, RecordAt
  <2> QED
    BY <2>4, <2>5, <2>6
<1>2. RecordsIn(t) = [x \in Rids |-> RecordsIn(t)[x]] /\ changed = [x \in Rids |-> changed[x]]
  BY DEF RecordsIn
<1> HIDE DEF changed
<1>3. [x \in Rids |-> RecordsIn(t)[x]] = [x \in Rids |-> changed[x]]
  BY <1>1
<1> QED
  BY <1>2, <1>3 DEF changed

(* A slot without a record. *)
LEMMA FreeRecord ==
  /\ RecordOf("dashes") = NoRecord /\ RecordOf("zeros") = NoRecord
  /\ \A v \in Values : RecordOf(v) = v
BY ValuesAssumption DEF RecordOf

(* A pool in which only blank pages were ever read. *)
LEMMA BlankTable ==
  ASSUME NEW q, Behind(q), \A o \in Nat : FramesOf(q, o) = {}
  PROVE  RecordsIn(q) = [x \in Rids |-> NoRecord]
<1>1. ASSUME NEW x \in Rids
      PROVE  RecordsIn(q)[x] = NoRecord
  <2>1. x.page \in Nat \ {0} /\ x.slot \in Slots
    BY RidIs
  <2>2. DeliveredBy(q, x.page) = ZeroPage
    BY <2>1 DEF Behind
  <2>3. DeliveredBy(q, x.page)[x.slot] = "zeros"
    BY <2>1, <2>2 DEF ZeroPage
  <2> QED
    BY <2>3, RecordAt, FreeRecord
<1> QED
  BY <1>1 DEF RecordsIn

LEMMA BlankPool ==
  ASSUME NEW file, file \in {NoFile, [present |-> TRUE, pages |-> <<Header>>]}
  PROVE  LET q == EmptyPool("RS_LRU", file) IN
         /\ WellFormed(q) /\ Fits(q) /\ Behind(q) /\ q.page[0] = NO_PAGE
         /\ RecordsIn(q) = [x \in Rids |-> NoRecord]
<1> DEFINE q == EmptyPool("RS_LRU", file)
<1>0. file \in File
  BY FilesAre
<1>1. WellFormed(q) /\ q.file = file /\ \A f \in Frames : q.page[f] = NO_PAGE
  BY <1>0, EmptyPoolIs
<1> HIDE DEF q
<1>2. \A o \in Nat : FramesOf(q, o) = {}
  BY <1>1, Numbers DEF FramesOf
<1>3. Fits(q)
  BY <1>1, PoolAssumption DEF Fits, NO_PAGE
<1>4. ASSUME NEW o \in Nat \ {0} PROVE DeliveredBy(q, o) = ZeroPage
  <2>1. ~HasPage(file, o)
    <3>1. CASE file = NoFile
      BY <3>1, FilesAre DEF HasPage
    <3>2. CASE file = [present |-> TRUE, pages |-> <<Header>>]
      <4>1. Len(file.pages) = 1
        BY <3>2
      <4> QED
        BY <4>1 DEF HasPage
    <3> QED
      BY <3>1, <3>2
  <2> QED
    BY <1>1, <1>2, <2>1 DEF DeliveredBy, readBlock
<1>5. Behind(q)
  BY <1>4 DEF Behind
<1>6. q.page[0] = NO_PAGE
  BY <1>1, Numbers
<1> QED
  BY <1>1, <1>2, <1>3, <1>5, <1>6, BlankTable DEF q

(* Opening the table brings page 0 to frame 0 and takes the pin back. *)
LEMMA OpeningSame ==
  ASSUME WellFormed(bp), Fits(bp)
  PROVE  /\ SameTable(bp, PoolAfterOpening)
         /\ bp.page[0] = 0 => PoolAfterOpening.fix[0] = bp.fix[0]
         /\ bp.page[0] = NO_PAGE => PoolAfterOpening.page[0] = 0 /\ PoolAfterOpening.fix[0] = 0
<1> DEFINE pl == PinPage(bp, 0)
           q == Unpin(pl, 0)
           r == ForcePage(q, 0)
<1>0. 0 < NumFrames /\ bp.fix[0] \in Int
  BY PoolAssumption, Numbers DEF WellFormed, Pool
<1>1. /\ Carried(bp, pl)
      /\ bp.page[0] = 0 => pl.fix[0] = bp.fix[0] + 1
      /\ bp.page[0] = NO_PAGE => pl.page[0] = 0 /\ pl.fix[0] = 1
  BY <1>0, PinCarries
<1> HIDE DEF pl
<1>2. WellFormed(pl) /\ Fits(pl) /\ SameTable(bp, pl)
  BY <1>1 DEF Carried, SameTable
<1>3. /\ SameTable(pl, q)
      /\ pl.page[0] = 0 => q.fix[0] = pl.fix[0] - 1
  BY <1>2, UnpinCarries
<1> HIDE DEF q
<1>4. WellFormed(q) /\ Fits(q) /\ SameTable(bp, q)
  BY <1>2, <1>3, SameTableTransitive DEF SameTable
<1>5. SameTable(q, r) /\ r.fix = q.fix
  BY <1>4, ForceCarries DEF Carried
<1> HIDE DEF r
<1>6. SameTable(bp, r)
  BY <1>4, <1>5, SameTableTransitive
<1>7. PoolAfterOpening = r
  BY DEF PoolAfterOpening, r, q, pl
<1>8. bp.page[0] = 0 => pl.page[0] = 0
  BY <1>2 DEF SameTable
<1>9. pl.page[0] = 0 => r.page[0] = 0
  BY <1>3, <1>5 DEF SameTable
<1>10. bp.page[0] = 0 => r.fix[0] = bp.fix[0]
  BY <1>0, <1>1, <1>3, <1>5, <1>8
<1>11. bp.page[0] = NO_PAGE => r.page[0] = 0 /\ r.fix[0] = 0
  BY <1>1, <1>3, <1>5, <1>9
<1> QED
  BY <1>6, <1>7, <1>10, <1>11

(* Without a scan no pin of page 0 is a scan's. *)
LEMMA NoneAtHeader ==
  ASSUME ScansSteady, ScansOff
  PROVE  IsFiniteSet(AtHeader) /\ Cardinality(AtHeader) = 0
<1>1. ASSUME NEW s \in Scans PROVE scan[s].pinned # 0
  BY NoScanIs, Numbers DEF ScansOff, ScansSteady, SteadyScan, NO_PAGE
<1>2. AtHeader = {}
  BY <1>1 DEF AtHeader
<1> QED
  BY <1>2, FS_EmptySet

LEMMA HeaderKept ==
  ASSUME HeaderPinned, \A s \in Scans : scan'[s].pinned = scan[s].pinned, inserted' = inserted,
         bp.fix[0] \in Int, bp'.fix[0] \in Int, bp'.page[0] = 0, bp'.fix[0] >= bp.fix[0]
  PROVE  HeaderPinned'
<1>1. AtHeader' = AtHeader
  BY DEF AtHeader
<1>2. Cardinality(AtHeader) \in Nat
  BY FS_CardinalityType DEF HeaderPinned
<1> DEFINE n == Cardinality(AtHeader)
           i == IF inserted THEN 1 ELSE 0
<1>3. n \in Nat /\ i \in Nat /\ bp.fix[0] >= n + i
  BY <1>2 DEF HeaderPinned
<1> HIDE DEF n, i
<1>4. bp'.fix[0] >= n + i
  BY <1>3
<1> QED
  BY <1>1, <1>4 DEF HeaderPinned, n, i

(* What is seen stays right if neither the table nor the scans change. *)
LEMMA SeenKept ==
  ASSUME SeenInv, UNCHANGED scan, SameTable(bp, bp')
  PROVE  SeenInv'
<1>1. ASSUME NEW s \in Scans PROVE SeenAll(scan'[s], bp')
  BY <1>1, SameRecords DEF SeenInv, SeenAll
<1> QED
  BY <1>1 DEF SeenInv, SeenAll, Passed

LEMMA SeenDisturbed ==
  ASSUME ScansSteady, scan' = Disturbed
  PROVE  SeenInv' /\ \A s \in Scans : scan'[s].pinned = scan[s].pinned
<1> DEFINE d == Disturbed
<1>1. \A s \in Scans : ~d[s].still /\ d[s].pinned = scan[s].pinned
  BY DisturbedIs
<1> HIDE DEF d
<1>2. \A s \in Scans : ~scan'[s].still /\ scan'[s].pinned = scan[s].pinned
  BY <1>1 DEF d
<1> QED
  BY <1>2 DEF SeenInv, SeenAll

LEMMA FixIsInt ==
  ASSUME NEW q, WellFormed(q)
  PROVE  q.fix[0] \in Int
BY Numbers DEF WellFormed, Pool

-----------------------------------------------------------------------------
(* Every call keeps the invariant and is a call of the abstract table.       *)

Kept == PoolFits' /\ Unused' /\ SeenInv'

(* What every lemma below may use. *)
Before == IInv /\ PagesFit /\ FitInv /\ recs' = RecordsIn(bp')

LEMMA BeforeIs ==
  ASSUME Before
  PROVE  /\ WellFormed(bp) /\ Fits(bp) /\ Behind(bp) /\ bp.fix[0] \in Int /\ ScansSteady /\ Types
         /\ SeenInv /\ Unused /\ recs = RecordsIn(bp) /\ recs' = RecordsIn(bp')
         /\ MaxPage < NumFrames /\ 0 < NumFrames
         /\ mgr = "open" => HeaderPinned /\ bp.page[0] = 0 /\ freePg \in 1 .. MaxPage
<1>1. WellFormed(bp) /\ Types /\ ScansSteady /\ OpenTable
  BY DEF Before, IInv, Types
<1>2. mgr = "open" => HeaderPinned /\ bp.page[0] = 0
  BY DEF Before, FitInv, Unused, HeaderPinned
<1>3. mgr = "open" => freePg \in 1 .. MaxPage
  BY <1>1 DEF Types, OpenTable
<1>4. bp.fix[0] \in Int
  BY <1>1, FixIsInt
<1> QED
  BY <1>1, <1>2, <1>3, <1>4, PoolAssumption DEF Before, FitInv, PoolFits, PagesFit

(* Calls that leave the table as it is and take no pin of page 0. *)
LEMMA QuietCall ==
  ASSUME Before, Carried(bp, bp'), UNCHANGED scan, inserted' = inserted, mgr = "open",
         mgr' \in {"open", "crashed"}
  PROVE  Kept /\ recs' = recs
<1>1. /\ SameTable(bp, bp') /\ bp'.page[0] = 0 /\ bp'.fix[0] >= bp.fix[0]
      /\ WellFormed(bp') /\ Fits(bp') /\ bp'.fix[0] \in Int
  BY BeforeIs, FixIsInt DEF Carried, SameTable
<1>2. PoolFits'
  BY <1>1, BeforeIs, BehindKept DEF PoolFits, Fits, Behind
<1>3. HeaderPinned'
  BY <1>1, BeforeIs, HeaderKept
<1>4. Unused'
  BY <1>3 DEF Unused
<1>5. SeenInv'
  BY <1>1, BeforeIs, SeenKept
<1> QED
  BY <1>1, <1>2, <1>4, <1>5, BeforeIs, SameRecords DEF Kept

LEMMA TableKeepsFit ==
  ASSUME Before, \/ createTable \/ openTable \/ openTableAgain \/ closeTable
                 \/ deleteTable \/ shutdownRecordManager
  PROVE  Kept /\ T!Next
<1>0. /\ WellFormed(bp) /\ Fits(bp) /\ Behind(bp) /\ bp.fix[0] \in Int /\ ScansSteady /\ Types
      /\ SeenInv /\ Unused /\ recs = RecordsIn(bp) /\ recs' = RecordsIn(bp')
      /\ 0 < NumFrames
  BY BeforeIs
<1>a. ASSUME recs' = recs, answer' = <<"other">> PROVE T!Next
  BY <1>a DEF T!Next, T!Other
<1>1. CASE createTable
  <2>1. /\ bp' = EmptyPool("RS_LRU", [present |-> TRUE, pages |-> <<Header>>])
        /\ mgr' = "created" /\ inserted' = FALSE /\ answer' = <<"other">> /\ UNCHANGED scan
        /\ ScansOff
    BY <1>1 DEF createTable
  <2>2. /\ Fits(bp') /\ Behind(bp') /\ bp'.page[0] = NO_PAGE
        /\ recs' = [x \in Rids |-> NoRecord]
    BY <1>0, <2>1, BlankPool
  <2>3. PoolFits'
    BY <2>2 DEF PoolFits, Fits, Behind
  <2>4. Unused'
    BY <2>1, <2>2 DEF Unused
  <2>5. SeenInv'
    <3>1. \A s \in Scans : ~scan'[s].still
      BY <1>0, <2>1, NoScanIs DEF ScansOff, ScansSteady, SteadyScan
    <3> QED
      BY <3>1 DEF SeenInv, SeenAll
  <2>6. T!Create
    BY <2>1, <2>2 DEF T!Create
  <2> QED
    BY <2>3, <2>4, <2>5, <2>6 DEF Kept, T!Next
<1>2. CASE openTable
  <2>1. /\ mgr \in {"created", "open", "closed"} /\ ScansOff /\ mgr' = "open"
        /\ bp' = PoolAfterOpening /\ answer' = <<"other">> /\ UNCHANGED <<scan, inserted>>
    BY <1>2 DEF openTable
  <2>2. /\ SameTable(bp, bp')
        /\ bp.page[0] = 0 => bp'.fix[0] = bp.fix[0]
        /\ bp.page[0] = NO_PAGE => bp'.page[0] = 0 /\ bp'.fix[0] = 0
    BY <1>0, <2>1, OpeningSame
  <2>3. PoolFits'
    BY <1>0, <2>2, BehindKept DEF PoolFits, SameTable, Fits, Behind
  <2>4. HeaderPinned'
    <3>1. CASE mgr = "created"
      <4>1. ~inserted' /\ bp'.page[0] = 0 /\ bp'.fix[0] = 0
        BY <1>0, <2>1, <2>2, <3>1 DEF Unused
      <4>2. AtHeader' = AtHeader
        BY <2>1 DEF AtHeader
      <4>3. IsFiniteSet(AtHeader) /\ Cardinality(AtHeader) = 0
        BY <1>0, <2>1, NoneAtHeader
      <4>4. IsFiniteSet(AtHeader') /\ Cardinality(AtHeader') = 0
        BY <4>2, <4>3
      <4> QED
        BY <4>1, <4>4 DEF HeaderPinned
    <3>2. CASE mgr \in {"open", "closed"}
      <4>1. HeaderPinned /\ bp.page[0] = 0
        BY <1>0, <3>2 DEF Unused, HeaderPinned
      <4>2. bp'.page[0] = 0 /\ bp'.fix[0] = bp.fix[0]
        BY <2>2, <4>1 DEF SameTable
      <4> QED
        BY <1>0, <2>1, <4>1, <4>2, HeaderKept
    <3> QED
      BY <2>1, <3>1, <3>2
  <2>5. Unused'
    BY <2>1, <2>4 DEF Unused
  <2>6. SeenInv'
    BY <1>0, <2>1, <2>2, SeenKept
  <2>7. recs' = recs
    BY <1>0, <2>2, SameRecords
  <2> QED
    BY <1>a, <2>1, <2>3, <2>5, <2>6, <2>7 DEF Kept
<1>3. CASE openTableAgain \/ closeTable
  <2>1. /\ UNCHANGED <<bp, scan, inserted>> /\ answer' = <<"other">>
        /\ mgr' = "crashed" \/ (mgr = "open" /\ mgr' = "closed")
    BY <1>3 DEF openTableAgain, closeTable
  <2>2. PoolFits'
    BY <1>0, <2>1 DEF PoolFits
  <2>3. Unused'
    <3>1. mgr = "open" => HeaderPinned'
      BY <1>0, <2>1, HeaderKept DEF Unused, HeaderPinned
    <3> QED
      BY <2>1, <3>1 DEF Unused
  <2>4. SeenInv'
    <3>1. ASSUME NEW s \in Scans PROVE SeenAll(scan'[s], bp')
      BY <1>0, <2>1 DEF SeenInv
    <3> QED
      BY <3>1 DEF SeenInv, SeenAll, Passed
  <2>5. recs' = recs
    BY <1>0, <2>1
  <2> QED
    BY <1>a, <2>1, <2>2, <2>3, <2>4, <2>5 DEF Kept
<1>4. CASE deleteTable
  <2> DEFINE q == [bp EXCEPT !.file = NoFile]
  <2>1. /\ bp' = q /\ mgr # "open" /\ UNCHANGED <<mgr, scan, inserted>>
        /\ answer' = <<"other">>
    BY <1>4 DEF deleteTable
  <2>2. /\ WellFormed(q) /\ q.file = NoFile /\ q.page = bp.page /\ q.fix = bp.fix
        /\ \A o : FramesOf(q, o) = FramesOf(bp, o)
        /\ \A o : PageBytes(q, o) = PageBytes(bp, o)
    BY <1>0, FilesAre, OtherFileKeeps
  <2> HIDE DEF q
  <2>3. ASSUME NEW o \in Nat \ {0} PROVE DeliveredBy(q, o) = DeliveredBy(bp, o)
    <3>1. CASE FramesOf(bp, o) # {}
      BY <2>2, <3>1 DEF DeliveredBy
    <3>2. CASE FramesOf(bp, o) = {}
      <4>1. DeliveredBy(bp, o) = ZeroPage
        BY <1>0, <3>2 DEF Behind
      <4>2. DeliveredBy(q, o) = ZeroPage
        BY <2>2, <3>2, FilesAre DEF DeliveredBy, readBlock, HasPage
      <4> QED
        BY <4>1, <4>2
    <3> QED
      BY <3>1, <3>2
  <2>4. SameTable(bp, bp') /\ bp'.page = bp.page /\ bp'.fix = bp.fix
    BY <1>0, <2>1, <2>2, <2>3 DEF SameTable, Fits
  <2>5. PoolFits'
    BY <1>0, <2>4, BehindKept DEF PoolFits, SameTable, Fits, Behind
  <2>6. mgr = "closed" => HeaderPinned'
    BY <1>0, <2>1, <2>4, HeaderKept DEF Unused, HeaderPinned
  <2>7. Unused'
    BY <1>0, <2>1, <2>4, <2>6 DEF Unused
  <2>8. SeenInv'
    BY <1>0, <2>1, <2>4, SeenKept
  <2>9. recs' = recs
    BY <1>0, <2>4, SameRecords
  <2> QED
    BY <1>a, <2>1, <2>5, <2>7, <2>8, <2>9 DEF Kept
<1>5. CASE shutdownRecordManager
  <2>1. /\ mgr \in {"created", "open", "closed"} /\ bp' = ForceFlushPool(bp)
        /\ mgr' = IF ShutdownReturns(bp) THEN "none" ELSE "hung"
        /\ answer' = <<"other">> /\ UNCHANGED <<scan, inserted>>
    BY <1>5 DEF shutdownRecordManager
  <2>2. SameTable(bp, bp')
    BY <1>0, <2>1, FlushCarries DEF Carried
  <2>3. PoolFits'
    BY <1>0, <2>2, BehindKept DEF PoolFits, SameTable, Fits, Behind
  <2>4. mgr' = "hung" => ~inserted
    <3> SUFFICES ASSUME mgr' = "hung", inserted PROVE FALSE
      OBVIOUS
    <3>1. bp.fix[0] = 0
      BY <2>1 DEF ShutdownReturns
    <3>2. HeaderPinned
      BY <1>0, <2>1 DEF Unused
    <3>3. Cardinality(AtHeader) \in Nat
      BY <3>2, FS_CardinalityType DEF HeaderPinned
    <3> QED
      BY <3>1, <3>2, <3>3 DEF HeaderPinned
  <2>5. Unused'
    BY <2>1, <2>4 DEF Unused
  <2>6. SeenInv'
    BY <1>0, <2>1, <2>2, SeenKept
  <2>7. recs' = recs
    BY <1>0, <2>2, SameRecords
  <2> QED
    BY <1>a, <2>1, <2>3, <2>5, <2>6, <2>7 DEF Kept
<1> QED
  BY <1>1, <1>2, <1>3, <1>4, <1>5


(* t is the pool of the table after the slot of r was set. *)
Changed(t, r, content) ==
    /\ WellFormed(t) /\ Fits(t) /\ Behind(t) /\ t.page[0] = 0 /\ t.fix[0] >= bp.fix[0]
    /\ RecordsIn(t) = [RecordsIn(bp) EXCEPT ![r] = RecordOf(content)]

LEMMA ChangeIs ==
  ASSUME Before, mgr = "open", NEW q, Carried(bp, q), NEW r \in Rids, FramesOf(q, r.page) # {},
         NEW content \in Contents
  PROVE  Changed(SetSlot(q, r, content), r, content)
<1> DEFINE t == SetSlot(q, r, content)
<1>1. /\ WellFormed(bp) /\ Behind(bp) /\ bp.page[0] = 0
  BY BeforeIs
<1>2. /\ WellFormed(q) /\ Fits(q) /\ Behind(q) /\ q.page[0] = 0 /\ q.fix[0] >= bp.fix[0]
      /\ RecordsIn(q) = RecordsIn(bp)
  BY <1>1, BehindKept, SameRecords DEF Carried, SameTable
<1>3. /\ WellFormed(t) /\ Fits(t) /\ Behind(t) /\ t.page = q.page /\ t.fix = q.fix
      /\ DeliveredBy(t, r.page) = WithSlot(DeliveredBy(q, r.page), r.slot, content)
      /\ \A o \in Nat \ {r.page} : DeliveredBy(t, o) = DeliveredBy(q, o)
  BY <1>2, SetSlotChanges
<1> HIDE DEF t
<1>4. RecordsIn(t) = [RecordsIn(q) EXCEPT ![r] = RecordOf(content)]
  BY <1>2, <1>3, OneRecordChanged
<1> QED
  BY <1>2, <1>3, <1>4 DEF Changed, t

LEMMA ChangeCarried ==
  ASSUME Before, NEW t, NEW r \in Rids, NEW content, Changed(t, r, content),
         NEW u, Carried(t, u)
  PROVE  Changed(u, r, content) /\ u.fix[0] >= t.fix[0]
<1>1. bp.fix[0] \in Int /\ t.fix[0] \in Int /\ u.fix[0] \in Int
  BY BeforeIs, FixIsInt DEF Changed, Carried, SameTable
<1>2. /\ WellFormed(u) /\ Fits(u) /\ Behind(u) /\ u.page[0] = 0 /\ u.fix[0] >= t.fix[0]
      /\ RecordsIn(u) = RecordsIn(t)
  BY BehindKept, SameRecords DEF Changed, Carried, SameTable
<1> QED
  BY <1>1, <1>2 DEF Changed

(* Calls that change a record. *)
LEMMA ChangedCall ==
  ASSUME Before, mgr = "open", mgr' = mgr, scan' = Disturbed, inserted' = inserted,
         NEW r \in Rids, NEW content, Changed(bp', r, content)
  PROVE  Kept /\ recs' = [recs EXCEPT ![r] = RecordOf(content)]
<1>1. /\ WellFormed(bp') /\ Fits(bp') /\ Behind(bp') /\ bp'.page[0] = 0 /\ bp'.fix[0] >= bp.fix[0]
      /\ RecordsIn(bp') = [RecordsIn(bp) EXCEPT ![r] = RecordOf(content)]
  BY DEF Changed
<1>2. PoolFits'
  BY <1>1 DEF PoolFits, Fits, Behind
<1>3. SeenInv' /\ \A s \in Scans : scan'[s].pinned = scan[s].pinned
  BY BeforeIs, SeenDisturbed
<1>4. HeaderPinned'
  BY <1>1, <1>3, BeforeIs, FixIsInt, HeaderKept
<1>5. Unused'
  BY <1>4 DEF Unused
<1> QED
  BY <1>1, <1>2, <1>3, <1>5, BeforeIs DEF Kept

LEMMA InsertKeepsFit ==
  ASSUME Before, NEW v \in Values, insertRecord(v)
  PROVE  Kept /\ T!Next
<1> DEFINE at == PlaceForRecord
           r == [page |-> at.page, slot |-> findFreeSlot(PageBytes(at.pool, at.page))]
           marked == MarkDirty(at.pool)
           set == SetSlot(marked, r, v)
           unpinned == Unpin(set, r.page)
<1>0. /\ WellFormed(bp) /\ Fits(bp) /\ bp.fix[0] \in Int /\ ScansSteady
      /\ recs = RecordsIn(bp) /\ recs' = RecordsIn(bp') /\ MaxPage < NumFrames /\ 0 < NumFrames
      /\ mgr = "open" => HeaderPinned /\ bp.page[0] = 0 /\ freePg \in 1 .. MaxPage
  BY BeforeIs
<1>1. /\ mgr = "open" /\ at.page # NO_PAGE /\ bp' = PinPage(unpinned, 0)
      /\ inserted' = TRUE /\ scan' = Disturbed /\ mgr' = mgr /\ answer' = <<"inserted", r>>
  BY DEF insertRecord
<1>2. Searching(at, bp) /\ Carried(bp, at.pool)
  BY <1>0, <1>1, PlaceIs, PlaceCarries
<1> HIDE DEF at
<1>3. at.page \in 1 .. MaxPage /\ FreePlaceIn(at.pool, at.page) /\ WellFormed(at.pool) /\ Fits(at.pool)
  BY <1>1, <1>2 DEF Searching, Carried, SameTable
<1>4. /\ r.page = at.page /\ r.slot \in Slots /\ r \in Rids /\ r.page \in Nat \ {0}
      /\ PageBytes(at.pool, r.page)[r.slot] \notin Values
  <2>1. r.page = at.page /\ r.slot = findFreeSlot(PageBytes(at.pool, at.page))
    OBVIOUS
  <2>2. findFreeSlot(PageBytes(at.pool, at.page)) \in Slots
        /\ PageBytes(at.pool, at.page)[findFreeSlot(PageBytes(at.pool, at.page))] \notin Values
    BY <1>3, SlotFound DEF FreePlaceIn
  <2> QED
    BY <1>3, <2>1, <2>2 DEF Rids
<1> HIDE DEF r
(* The slot found is free in the table. *)
<1>5. recs[r] = NoRecord
  <2>1. DeliveredBy(at.pool, r.page) = DeliveredBy(bp, r.page)
    BY <1>2, <1>4 DEF Carried, SameTable
  <2>2. DeliveredBy(at.pool, r.page) = PageBytes(at.pool, r.page)
    BY <1>3, <1>4 DEF FreePlaceIn, DeliveredBy
  <2>3. RecordOf(DeliveredBy(bp, r.page)[r.slot]) = NoRecord
    BY <1>4, <2>1, <2>2 DEF RecordOf
  <2> QED
    BY <1>0, <1>4, <2>3, RecordAt
<1>6. Carried(bp, marked) /\ FramesOf(marked, r.page) # {}
  <2>1. Carried(at.pool, marked) /\ FramesOf(marked, r.page) # {}
    BY <1>3, <1>4, MarkCarries, MarkKeeps DEF FreePlaceIn
  <2> HIDE DEF marked
  <2> QED
    BY <1>0, <1>2, <2>1, CarriedTransitive
<1> HIDE DEF marked
<1>7. Changed(set, r, v)
  <2>1. v \in Contents
    BY DEF Contents
  <2> QED
    BY <1>1, <1>4, <1>6, <2>1, ChangeIs
<1> HIDE DEF set
<1>8. Changed(unpinned, r, v)
  <2>1. Carried(set, unpinned)
    BY <1>4, <1>7, UnpinCarries DEF Changed
  <2> HIDE DEF unpinned
  <2> QED
    BY <1>4, <1>7, <2>1, ChangeCarried
<1> HIDE DEF unpinned
<1>9. Changed(bp', r, v) /\ bp'.fix[0] = unpinned.fix[0] + 1
  <2>1. Carried(unpinned, bp') /\ bp'.fix[0] = unpinned.fix[0] + 1
    BY <1>0, <1>1, <1>8, PinCarries DEF Changed
  <2> QED
    BY <1>4, <1>8, <2>1, ChangeCarried
<1>10. /\ WellFormed(bp') /\ Fits(bp') /\ Behind(bp') /\ bp'.page[0] = 0
       /\ recs' = [recs EXCEPT ![r] = RecordOf(v)]
  BY <1>0, <1>9 DEF Changed
<1>11. PoolFits'
  BY <1>10 DEF PoolFits, Fits, Behind
<1>12. SeenInv' /\ \A s \in Scans : scan'[s].pinned = scan[s].pinned
  BY <1>0, <1>1, SeenDisturbed
(* One more pin of page 0 makes up for the insertion. *)
<1>13. HeaderPinned'
  <2>1. unpinned.fix[0] \in Int /\ bp'.fix[0] \in Int /\ unpinned.fix[0] >= bp.fix[0]
    BY <1>8, <1>10, FixIsInt DEF Changed
  <2>2. AtHeader' = AtHeader
    BY <1>12 DEF AtHeader
  <2>3. IsFiniteSet(AtHeader) /\ bp.fix[0] >= Cardinality(AtHeader) + (IF inserted THEN 1 ELSE 0)
    BY <1>0, <1>1 DEF HeaderPinned
  <2> DEFINE n == Cardinality(AtHeader)
  <2>4. n \in Nat /\ bp.fix[0] >= n
    BY <1>0, <2>3, FS_CardinalityType
  <2> HIDE DEF n
  <2>5. bp'.fix[0] >= n + 1
    BY <1>0, <1>9, <2>1, <2>4
  <2> QED
    BY <1>1, <1>10, <2>2, <2>3, <2>5 DEF HeaderPinned, n
<1>14. Unused'
  BY <1>1, <1>13 DEF Unused
<1>15. T!Insert(r, v)
  BY <1>1, <1>5, <1>10, FreeRecord DEF T!Insert
<1> QED
  BY <1>4, <1>11, <1>12, <1>14, <1>15 DEF Kept, T!Next

LEMMA DeleteKeepsFit ==
  ASSUME Before, NEW r \in Rids, deleteRecord(r)
  PROVE  Kept /\ T!Next
<1> DEFINE pl == PinPage(bp, r.page)
           set == SetSlot(pl, r, "dashes")
           marked == MarkDirty(set)
<1>0. WellFormed(bp) /\ Fits(bp) /\ MaxPage < NumFrames
  BY BeforeIs
<1>1. /\ mgr = "open" /\ bp' = ForcePage(marked, r.page) /\ scan' = Disturbed
      /\ UNCHANGED <<mgr, inserted>> /\ answer' = <<"deleted", r>>
  BY DEF deleteRecord
<1>2. r.page \in Nat /\ r.page < NumFrames
  BY <1>0, RidIs, SlotsAssumption, PoolAssumption
<1>3. Carried(bp, pl) /\ FramesOf(pl, r.page) # {}
  BY <1>0, <1>2, PinCarries, PinShows
<1> HIDE DEF pl
<1>4. Changed(set, r, "dashes")
  <2>1. "dashes" \in Contents
    BY DEF Contents
  <2> QED
    BY <1>1, <1>3, <2>1, ChangeIs
<1> HIDE DEF set
<1>5. Changed(marked, r, "dashes")
  <2>1. Carried(set, marked)
    BY <1>4, MarkCarries DEF Changed
  <2> HIDE DEF marked
  <2> QED
    BY <1>4, <2>1, ChangeCarried
<1> HIDE DEF marked
<1>6. Changed(bp', r, "dashes")
  <2>1. Carried(marked, bp')
    BY <1>1, <1>5, ForceCarries DEF Changed
  <2> QED
    BY <1>5, <2>1, ChangeCarried
<1>7. Kept /\ recs' = [recs EXCEPT ![r] = NoRecord]
  BY <1>1, <1>6, ChangedCall, FreeRecord
<1>8. T!Delete(r)
  BY <1>1, <1>7 DEF T!Delete
<1> QED
  BY <1>7, <1>8 DEF T!Next

LEMMA UpdateKeepsFit ==
  ASSUME Before, NEW r \in Rids, NEW v \in Values, updateRecord(r, v)
  PROVE  Kept /\ T!Next
<1> DEFINE pl == PinPage(bp, r.page)
           set == SetSlot(pl, r, v)
           marked == MarkDirty(set)
<1>0. WellFormed(bp) /\ Fits(bp) /\ MaxPage < NumFrames /\ ScansSteady
  BY BeforeIs
<1>1. /\ mgr = "open" /\ scan' = Disturbed /\ inserted' = inserted
      /\ \/ bp' = Unpin(marked, r.page) /\ mgr' = mgr /\ answer' = <<"updated", r>>
         \/ bp' = pl /\ mgr' = "crashed" /\ answer' = <<"other">>
  BY DEF updateRecord
<1>2. r.page \in Nat \ {0} /\ r.page < NumFrames
  BY <1>0, RidIs, SlotsAssumption, PoolAssumption
<1>3. Carried(bp, pl) /\ FramesOf(pl, r.page) # {}
  BY <1>0, <1>2, PinCarries, PinShows
<1> HIDE DEF pl
<1>4. Changed(set, r, v)
  <2>1. v \in Contents
    BY DEF Contents
  <2> QED
    BY <1>1, <1>3, <2>1, ChangeIs
<1> HIDE DEF set
<1>5. Changed(marked, r, v)
  <2>1. Carried(set, marked)
    BY <1>4, MarkCarries DEF Changed
  <2> HIDE DEF marked
  <2> QED
    BY <1>4, <2>1, ChangeCarried
<1> HIDE DEF marked
<1>6. CASE bp' = Unpin(marked, r.page) /\ mgr' = mgr /\ answer' = <<"updated", r>>
  <2>1. Carried(marked, bp')
    BY <1>2, <1>5, <1>6, UnpinCarries DEF Changed
  <2>2. Changed(bp', r, v)
    BY <1>5, <2>1, ChangeCarried
  <2>3. Kept /\ recs' = [recs EXCEPT ![r] = v]
    BY <1>1, <1>6, <2>2, ChangedCall, FreeRecord
  <2>4. T!Update(r, v)
    BY <1>6, <2>3 DEF T!Update
  <2> QED
    BY <2>3, <2>4 DEF T!Next
<1>7. CASE bp' = pl /\ mgr' = "crashed" /\ answer' = <<"other">>
  <2>1. /\ SameTable(bp, bp') /\ Behind(bp) /\ recs = RecordsIn(bp) /\ recs' = RecordsIn(bp')
    BY <1>3, <1>7, BeforeIs DEF Carried
  <2>2. PoolFits'
    BY <2>1, BehindKept DEF PoolFits, SameTable, Fits, Behind
  <2>3. Unused'
    BY <1>7 DEF Unused
  <2>4. SeenInv'
    BY <1>0, <1>1, SeenDisturbed
  <2>5. T!Other
    BY <1>7, <2>1, SameRecords DEF T!Other
  <2> QED
    BY <2>2, <2>3, <2>4, <2>5 DEF Kept, T!Next
<1> QED
  BY <1>1, <1>6, <1>7

LEMMA GetKeepsFit ==
  ASSUME Before, NEW r \in Rids, getRecord(r)
  PROVE  Kept /\ T!Next
<1> DEFINE pl == PinPage(bp, r.page)
           content == PageBytes(pl, r.page)[r.slot]
<1>0. WellFormed(bp) /\ Fits(bp) /\ MaxPage < NumFrames /\ recs = RecordsIn(bp)
  BY BeforeIs
<1>1. /\ mgr = "open" /\ UNCHANGED <<mgr, scan, inserted>>
      /\ bp' = Unpin(pl, r.page) \/ bp' = pl
      /\ answer' = <<"got", r, RecordOf(content)>>
  BY DEF getRecord, RecordOf
<1>2. r.page \in Nat \ {0} /\ r.page < NumFrames
  BY <1>0, RidIs, SlotsAssumption, PoolAssumption
<1>3. Carried(bp, pl) /\ FramesOf(pl, r.page) # {}
  BY <1>0, <1>2, PinCarries, PinShows
<1> HIDE DEF pl
<1>4. WellFormed(pl) /\ Fits(pl) /\ DeliveredBy(pl, r.page) = DeliveredBy(bp, r.page)
  BY <1>2, <1>3 DEF Carried, SameTable
<1>5. RecordOf(content) = recs[r]
  <2>1. content = DeliveredBy(bp, r.page)[r.slot]
    BY <1>3, <1>4 DEF DeliveredBy
  <2> HIDE DEF content
  <2> QED
    BY <1>0, <2>1, RecordAt
<1> HIDE DEF content
<1>6. Carried(bp, bp')
  <2>1. Carried(pl, Unpin(pl, r.page))
    BY <1>2, <1>4, UnpinCarries
  <2> QED
    BY <1>0, <1>1, <1>3, <2>1, CarriedTransitive
<1>7. Kept /\ recs' = recs
  BY <1>1, <1>6, QuietCall
<1>8. T!Get(r)
  BY <1>1, <1>5, <1>7 DEF T!Get
<1> QED
  BY <1>7, <1>8 DEF T!Next

-----------------------------------------------------------------------------
(* Calls of one scan.                                                        *)

LEMMA OneSeen ==
  ASSUME SeenInv, ScansSteady, SameTable(bp, bp'), NEW s \in Scans, NEW sc, SeenAll(sc, bp),
         scan' = [scan EXCEPT ![s] = sc]
  PROVE  SeenInv'
<1>1. ASSUME NEW o \in Scans PROVE SeenAll(scan'[o], bp')
  <2>1. scan'[o] = IF o = s THEN sc ELSE scan[o]
    BY DEF ScansSteady
  <2>2. SeenAll(scan'[o], bp)
    BY <2>1 DEF SeenInv
  <2> QED
    BY <2>2, SameRecords DEF SeenAll
<1> QED
  BY <1>1 DEF SeenInv, SeenAll, Passed

(* Before its first slot a scan has passed none. *)
LEMMA NonePassed ==
  ASSUME NEW sc, sc.count = 0, sc.seen = {}
  PROVE  \A q : SeenAll(sc, q)
<1>1. 1 .. sc.count = {}
  OBVIOUS
<1> QED
  BY <1>1 DEF SeenAll, Passed

LEMMA AtHeaderIs ==
  ASSUME ScansSteady, NEW s \in Scans, NEW sc, scan' = [scan EXCEPT ![s] = sc]
  PROVE  AtHeader' = IF sc.pinned = 0 THEN AtHeader \cup {s} ELSE AtHeader \ {s}
<1>1. \A o \in Scans : scan'[o] = IF o = s THEN sc ELSE scan[o]
  BY DEF ScansSteady
<1>2. AtHeader' = {o \in Scans : scan'[o].pinned = 0}
  BY DEF AtHeader
<1> QED
  BY <1>1, <1>2 DEF AtHeader

(* The pins of page 0 go up and down with the scans that hold one. *)
LEMMA HeaderMoves ==
  ASSUME HeaderPinned, inserted' = inserted, bp.fix[0] \in Int, bp'.fix[0] \in Int, NEW d \in Int,
         bp'.page[0] = 0, bp'.fix[0] >= bp.fix[0] + d,
         IsFiniteSet(AtHeader'), Cardinality(AtHeader') <= Cardinality(AtHeader) + d
  PROVE  HeaderPinned'
<1> DEFINE n == Cardinality(AtHeader)
           m == Cardinality(AtHeader')
           i == IF inserted THEN 1 ELSE 0
<1>1. n \in Nat /\ m \in Nat /\ i \in Nat /\ bp.fix[0] >= n + i /\ m <= n + d
  BY FS_CardinalityType DEF HeaderPinned
<1> HIDE DEF n, m, i
<1>2. bp'.fix[0] >= m + i
  BY <1>1
<1> QED
  BY <1>2 DEF HeaderPinned, m, i

LEMMA StartKeepsFit ==
  ASSUME Before, NEW s \in Scans, NEW cond \in Conditions, startScan(s, cond)
  PROVE  Kept /\ T!Next
<1> DEFINE sc == [NoScan EXCEPT !.on = TRUE, !.cond = cond, !.still = TRUE]
<1>0. /\ WellFormed(bp) /\ Fits(bp) /\ Behind(bp) /\ bp.fix[0] \in Int /\ ScansSteady
      /\ SeenInv /\ recs = RecordsIn(bp) /\ recs' = RecordsIn(bp')
      /\ mgr = "open" => HeaderPinned /\ bp.page[0] = 0
  BY BeforeIs
<1>1. /\ mgr = "open" /\ ~scan[s].on /\ bp' = PoolAfterOpening /\ scan' = [scan EXCEPT ![s] = sc]
      /\ UNCHANGED <<mgr, inserted>> /\ answer' = <<"other">>
  BY DEF startScan
<1>2. sc.pinned = NO_PAGE /\ sc.count = 0 /\ sc.seen = {}
  BY StartIs
<1> HIDE DEF sc
<1>3. SameTable(bp, bp') /\ bp'.fix[0] = bp.fix[0] /\ bp'.page[0] = 0
  BY <1>0, <1>1, OpeningSame DEF SameTable
<1>4. PoolFits'
  BY <1>0, <1>3, BehindKept DEF PoolFits, SameTable, Fits, Behind
<1>5. \A o \in Scans : scan'[o].pinned = scan[o].pinned
  <2>1. scan[s].pinned = NO_PAGE
    BY <1>0, <1>1, NoScanIs DEF ScansSteady, SteadyScan
  <2>2. \A o \in Scans : scan'[o] = IF o = s THEN sc ELSE scan[o]
    BY <1>0, <1>1 DEF ScansSteady
  <2> QED
    BY <1>2, <2>1, <2>2
<1>6. HeaderPinned'
  BY <1>0, <1>1, <1>3, <1>5, HeaderKept
<1>7. Unused'
  BY <1>1, <1>6 DEF Unused
<1>8. SeenInv'
  BY <1>0, <1>1, <1>2, <1>3, NonePassed, OneSeen
<1>9. T!Other
  BY <1>0, <1>1, <1>3, SameRecords DEF T!Other
<1> QED
  BY <1>4, <1>7, <1>8, <1>9 DEF Kept, T!Next

LEMMA NextKeepsFit ==
  ASSUME Before, NEW s \in Scans, next(s)
  PROVE  Kept /\ T!Next
<1> DEFINE at == Scanned(s)
           sc == IF at.hit THEN at.sc ELSE AtTheStart(at.sc)
<1>0. /\ WellFormed(bp) /\ Fits(bp) /\ Behind(bp) /\ bp.fix[0] \in Int /\ ScansSteady
      /\ SeenInv /\ recs = RecordsIn(bp) /\ recs' = RecordsIn(bp') /\ 0 < NumFrames
      /\ IInv /\ PagesFit
      /\ mgr = "open" => HeaderPinned /\ bp.page[0] = 0
  BY BeforeIs DEF Before
<1>1. /\ mgr = "open" /\ scan[s].on
      /\ bp' = IF at.hit THEN at.pool ELSE PinPage(at.pool, 0)
      /\ scan' = [scan EXCEPT ![s] = sc]
      /\ UNCHANGED <<mgr, inserted>> /\ answer' = <<"other">>
  BY DEF next
<1>2. Passing(at, scan[s], bp, Rounds(s))
  BY <1>0, <1>1, ScannedPasses DEF SeenInv
<1> HIDE DEF at
<1>3. /\ Looping(at, scan[s], bp, Rounds(s)) /\ Carried(bp, at.pool) /\ SeenAll(at.sc, bp)
      /\ at.sc.pinned = scan[s].pinned \/ at.sc.pinned \in Nat \ {0}
  BY <1>2 DEF Passing
<1>4. /\ WellFormed(at.pool) /\ Fits(at.pool) /\ SteadyScan(at.sc) /\ at.sc.on
      /\ at.pool.page[0] = 0 /\ at.pool.fix[0] >= bp.fix[0] /\ at.pool.fix[0] \in Int
      /\ at.hit \in BOOLEAN
  BY <1>0, <1>1, <1>3, FixIsInt DEF Looping, Carried, SameTable
<1>5. /\ Carried(bp, bp')
      /\ ~at.hit => bp'.fix[0] = at.pool.fix[0] + 1
  <2>1. /\ Carried(at.pool, PinPage(at.pool, 0))
        /\ PinPage(at.pool, 0).fix[0] = at.pool.fix[0] + 1
    BY <1>0, <1>4, PinCarries
  <2>2. Carried(bp, PinPage(at.pool, 0))
    BY <1>0, <1>3, <2>1, CarriedTransitive
  <2> QED
    BY <1>1, <1>3, <2>1, <2>2
<1>6. /\ SameTable(bp, bp') /\ WellFormed(bp') /\ Fits(bp') /\ bp'.page[0] = 0 /\ bp'.fix[0] \in Int
      /\ bp'.fix[0] >= bp.fix[0]
  BY <1>0, <1>1, <1>5, FixIsInt DEF Carried, SameTable
<1>7. PoolFits'
  BY <1>0, <1>6, BehindKept DEF PoolFits, Fits, Behind
<1>8. SeenAll(sc, bp)
  <2>1. CASE at.hit
    BY <1>3, <2>1
  <2>2. CASE ~at.hit
    BY <1>4, <2>2, RestartIs, NonePassed
  <2> QED
    BY <2>1, <2>2
<1>9. /\ at.hit => sc.pinned = scan[s].pinned \/ sc.pinned # 0
      /\ ~at.hit => sc.pinned = 0
  BY <1>3, <1>4, RestartIs
<1> HIDE DEF sc
<1>10. SeenInv'
  BY <1>0, <1>1, <1>6, <1>8, OneSeen
<1>11. IsFiniteSet(AtHeader) /\ Cardinality(AtHeader) \in Nat
  BY <1>0, <1>1, FS_CardinalityType DEF HeaderPinned
<1>12. AtHeader' = IF sc.pinned = 0 THEN AtHeader \cup {s} ELSE AtHeader \ {s}
  BY <1>0, <1>1, AtHeaderIs
<1>13. HeaderPinned'
  <2>1. CASE at.hit
    <3>1. AtHeader' = AtHeader \/ AtHeader' = AtHeader \ {s}
      BY <1>9, <1>12, <2>1 DEF AtHeader
    <3>2. IsFiniteSet(AtHeader') /\ Cardinality(AtHeader') <= Cardinality(AtHeader) + 0
      BY <1>11, <3>1, FS_RemoveElement
    <3>3. bp'.fix[0] >= bp.fix[0] + 0
      BY <1>0, <1>6
    <3> QED
      BY <1>0, <1>1, <1>6, <3>2, <3>3, HeaderMoves
  <2>2. CASE ~at.hit
    <3>1. AtHeader' = AtHeader \cup {s}
      BY <1>9, <1>12, <2>2
    <3>2. IsFiniteSet(AtHeader') /\ Cardinality(AtHeader') <= Cardinality(AtHeader) + 1
      BY <1>11, <3>1, FS_AddElement
    <3>3. bp'.fix[0] >= bp.fix[0] + 1
      BY <1>0, <1>4, <1>5, <1>6, <2>2
    <3> QED
      BY <1>0, <1>1, <1>6, <3>2, <3>3, HeaderMoves
  <2> QED
    BY <2>1, <2>2
<1>14. Unused'
  BY <1>1, <1>13 DEF Unused
<1>15. T!Other
  BY <1>0, <1>1, <1>6, SameRecords DEF T!Other
<1> QED
  BY <1>7, <1>10, <1>14, <1>15 DEF Kept, T!Next

LEMMA CloseKeepsFit ==
  ASSUME Before, NEW s \in Scans, closeScan(s)
  PROVE  Kept /\ T!Next
<1> DEFINE p == scan[s].pinned
<1>0. /\ WellFormed(bp) /\ Fits(bp) /\ Behind(bp) /\ bp.fix[0] \in Int /\ ScansSteady
      /\ SeenInv /\ recs = RecordsIn(bp) /\ recs' = RecordsIn(bp')
      /\ mgr = "open" => HeaderPinned /\ bp.page[0] = 0
  BY BeforeIs
<1>1. /\ mgr = "open" /\ bp' = Unpin(bp, p) /\ scan' = [scan EXCEPT ![s] = NoScan]
      /\ UNCHANGED <<mgr, inserted>> /\ answer' = <<"other">>
  BY DEF closeScan
<1>2. SameTable(bp, bp') /\ bp'.page[0] = 0 /\ WellFormed(bp') /\ Fits(bp') /\ bp'.fix[0] \in Int
      /\ bp'.fix[0] = IF p = 0 THEN bp.fix[0] - 1 ELSE bp.fix[0]
  BY <1>0, <1>1, UnpinCarries, FixIsInt DEF SameTable
<1>3. PoolFits'
  BY <1>0, <1>2, BehindKept DEF PoolFits, Fits, Behind
<1>4. SeenInv'
  BY <1>0, <1>1, <1>2, NoScanIs, OneSeen DEF SeenAll
<1>5. AtHeader' = AtHeader \ {s}
  <2>1. NoScan.pinned # 0
    BY NoScanIs DEF NO_PAGE
  <2> QED
    BY <1>0, <1>1, <2>1, AtHeaderIs
<1>6. IsFiniteSet(AtHeader) /\ Cardinality(AtHeader) \in Nat
  BY <1>0, <1>1, FS_CardinalityType DEF HeaderPinned
<1>7. IsFiniteSet(AtHeader') /\ Cardinality(AtHeader')
          = IF p = 0 THEN Cardinality(AtHeader) - 1 ELSE Cardinality(AtHeader)
  <2>1. s \in AtHeader <=> p = 0
    BY DEF AtHeader
  <2> QED
    BY <1>5, <1>6, <2>1, FS_RemoveElement
<1>8. HeaderPinned'
  <2> HIDE DEF p
  <2>1. CASE p = 0
    <3>1. bp'.fix[0] >= bp.fix[0] + (-1) /\ Cardinality(AtHeader') <= Cardinality(AtHeader) + (-1)
      BY <1>0, <1>2, <1>6, <1>7, <2>1
    <3> QED
      BY <1>0, <1>1, <1>2, <1>7, <3>1, HeaderMoves
  <2>2. CASE p # 0
    <3>1. bp'.fix[0] >= bp.fix[0] + 0 /\ Cardinality(AtHeader') <= Cardinality(AtHeader) + 0
      BY <1>0, <1>2, <1>6, <1>7, <2>2
    <3> QED
      BY <1>0, <1>1, <1>2, <1>7, <3>1, HeaderMoves
  <2> QED
    BY <2>1, <2>2
<1>9. Unused'
  BY <1>1, <1>8 DEF Unused
<1>10. T!Other
  BY <1>0, <1>1, <1>2, SameRecords DEF T!Other
<1> QED
  BY <1>3, <1>4, <1>9, <1>10 DEF Kept, T!Next

-----------------------------------------------------------------------------
(* The properties of tables whose pages fit.                                 *)

LEMMA InitFits ==
  Init => FitInv /\ T!Init
<1> SUFFICES ASSUME Init PROVE FitInv /\ T!Init
  OBVIOUS
<1>1. Fits(bp) /\ Behind(bp) /\ RecordsIn(bp) = [x \in Rids |-> NoRecord]
  BY BlankPool DEF Init
<1>2. SeenInv
  BY NoScanIs DEF Init, SeenInv, SeenAll
<1> QED
  BY <1>1, <1>2 DEF Init, FitInv, PoolFits, Unused, T!Init

LEMMA CallKeepsFit ==
  ASSUME IInv, PagesFit, FitInv, Next
  PROVE  FitInv' /\ T!Next
<1>0. Before
  BY DEF Before, Next
<1>1. ASSUME \/ createTable \/ openTable \/ openTableAgain \/ closeTable
             \/ deleteTable \/ shutdownRecordManager
      PROVE  Kept /\ T!Next
  BY <1>0, <1>1, TableKeepsFit
<1>2. ASSUME NEW v \in Values, insertRecord(v) PROVE Kept /\ T!Next
  BY <1>0, <1>2, InsertKeepsFit
<1>3. ASSUME NEW r \in Rids, deleteRecord(r) \/ getRecord(r) PROVE Kept /\ T!Next
  BY <1>0, <1>3, DeleteKeepsFit, GetKeepsFit
<1>4. ASSUME NEW r \in Rids, NEW v \in Values, updateRecord(r, v) PROVE Kept /\ T!Next
  BY <1>0, <1>4, UpdateKeepsFit
<1>5. ASSUME NEW s \in Scans, NEW cond \in Conditions, startScan(s, cond) PROVE Kept /\ T!Next
  BY <1>0, <1>5, StartKeepsFit
<1>6. ASSUME NEW s \in Scans, next(s) \/ closeScan(s) PROVE Kept /\ T!Next
  BY <1>0, <1>6, NextKeepsFit, CloseKeepsFit
<1>7. Kept /\ T!Next /\ recs' = RecordsIn(bp')
  BY <1>1, <1>2, <1>3, <1>4, <1>5, <1>6 DEF Next
<1>8. (recs = RecordsIn(bp))'
  BY <1>7 DEF RecordsIn
<1> QED
  BY <1>7, <1>8 DEF Kept, FitInv

LEMMA StepKeepsFit ==
  ASSUME IInv, PagesFit, FitInv, [Next]_vars
  PROVE  FitInv' /\ [T!Next]_(T!vars)
<1>1. CASE UNCHANGED vars
  <2>1. UNCHANGED <<mgr, bp, scan, inserted, recs, answer>>
    BY <1>1 DEF vars
  <2>2. PoolFits' /\ (recs = RecordsIn(bp))'
    BY <2>1 DEF FitInv, PoolFits, Fits, Behind, RecordsIn
  <2>3. Unused'
    BY <2>1 DEF FitInv, Unused, HeaderPinned, AtHeader
  <2>4. SeenInv'
    BY <2>1 DEF FitInv, SeenInv, SeenAll, Passed
  <2> QED
    BY <2>1, <2>2, <2>3, <2>4 DEF FitInv, T!vars
<1>2. CASE Next
  BY <1>2, CallKeepsFit
<1> QED
  BY <1>1, <1>2

(* The invariant of a table whose pages fit into the frames: what is in no frame was
   never written, page 0 is pinned once for an insertion and once for every scan
   whose last pin was that of page 0, and a scan returned what it passed. *)
THEOREM FitInvariance ==
  Spec /\ []PagesFit => []FitInv
<1>1. IInv /\ PagesFit /\ FitInv /\ [Next]_vars => FitInv'
  BY StepKeepsFit
<1> QED
  BY <1>1, InitFits, Invariance, PTL DEF Spec

(* The loop of shutdownBufferPool hangs a record manager only if no record was
   inserted since createTable. *)
THEOREM HangsOnlyIfUnused ==
  Spec /\ []PagesFit => []HangsOnlyUnused
<1>1. FitInv => HangsOnlyUnused
  BY DEF FitInv, Unused, HangsOnlyUnused
<1> QED
  BY <1>1, FitInvariance, PTL

(* The record manager implements a table: with pages that fit, no call touches
   another record than its own, and an insertion reuses free slots only. *)
THEOREM RefinesTable ==
  Spec /\ []PagesFit => ImplementsTable
<1>1. Init => T!Init
  BY InitFits
<1>2. IInv /\ PagesFit /\ FitInv /\ [Next]_vars => [T!Next]_(T!vars)
  BY StepKeepsFit
<1>3. Spec /\ []PagesFit => T!Spec
  BY <1>1, <1>2, Invariance, FitInvariance, PTL DEF Spec, T!Spec
<1> QED
  BY <1>3 DEF ImplementsTable

(* What next returns of a table that nobody changed since startScan: one slot more, or the
   end, and then the scan has returned what it passed. *)
LEMMA NextReturns ==
  ASSUME IInv, PagesFit, FitInv, NEW s \in Scans, scan[s].still, next(s)
  PROVE  \/ Returned(scan'[s].seen, scan[s], bp)
         \/ /\ scan'[s].seen = {}
            /\ scan[s].seen = {r \in Reach : DeliveredBy(bp, r.page)[r.slot] \in scan[s].cond}
<1> DEFINE at == Scanned(s)
<1>0. Fits(bp) /\ SeenInv /\ ScansSteady
  BY DEF IInv, FitInv, PoolFits
<1>1. scan[s].on /\ scan' = [scan EXCEPT ![s] = IF at.hit THEN at.sc ELSE AtTheStart(at.sc)]
  BY DEF next
<1>2. Passing(at, scan[s], bp, Rounds(s))
  BY <1>0, <1>1, ScannedPasses DEF SeenInv
<1> HIDE DEF at
<1>3. scan'[s] = IF at.hit THEN at.sc ELSE AtTheStart(at.sc)
  BY <1>0, <1>1 DEF ScansSteady
<1>4. CASE at.hit
  BY <1>2, <1>3, <1>4 DEF Passing
<1>5. CASE ~at.hit
  <2>1. /\ tCount = ATTRIBUTE_SZ /\ scan[s].count <= ATTRIBUTE_SZ + 1 /\ scan[s].count \in Nat
        /\ ATTRIBUTE_SZ \in Nat
    BY <1>0, ScanAssumption DEF ScansSteady, SteadyScan, ScanState
  <2>2. at.sc.count = scan[s].count + Rounds(s)
    BY <1>2, <1>5 DEF Passing
  <2>3. at.sc.count = ATTRIBUTE_SZ + 1
    BY <2>1, <2>2 DEF Rounds
  <2>4. at.sc.still /\ at.sc.cond = scan[s].cond /\ at.sc \in ScanState
    BY <1>2 DEF Passing, Looping, SteadyScan
  <2>5. at.sc.seen = Passed(at.sc, bp) /\ at.sc.seen = scan[s].seen
    BY <1>2, <1>5, <2>4 DEF Passing, SeenAll
  <2>6. Passed(at.sc, bp) = {r \in Reach : DeliveredBy(bp, r.page)[r.slot] \in scan[s].cond}
    BY <2>3, <2>4 DEF Passed, Place, Reach
  <2>7. scan'[s].seen = {}
    BY <1>3, <1>5, <2>4 DEF AtTheStart, ScanState
  <2> QED
    BY <2>5, <2>6, <2>7
<1> QED
  BY <1>4, <1>5

(* While nobody changes the table next returns a slot that satisfies the condition
   and was not returned before, wherever matches stopped the scan, or it ends the scan,
   which has then returned every record of its reach that satisfies the condition. *)
THEOREM ScansComplete ==
  Spec /\ []PagesFit => ScansMissNoneInReach
<1>1. ASSUME IInv, PagesFit, FitInv, NEW s \in Scans, scan[s].still, next(s)
      PROVE  \/ \E r \in Rids \ scan[s].seen :
                   /\ DeliveredBy(bp, r.page)[r.slot] \in scan[s].cond
                   /\ scan'[s].seen = scan[s].seen \cup {r}
             \/ Matching(s) \cap Reach \subseteq scan[s].seen /\ scan'[s].seen = {}
  <2>1. CASE Returned(scan'[s].seen, scan[s], bp)
    BY <2>1 DEF Returned
  <2>2. CASE /\ scan'[s].seen = {}
             /\ scan[s].seen = {r \in Reach : DeliveredBy(bp, r.page)[r.slot] \in scan[s].cond}
    <3>1. ASSUME NEW r \in Matching(s) \cap Reach PROVE r \in scan[s].seen
      <4>1. r \in Rids /\ recs[r] # NoRecord /\ recs[r] \in scan[s].cond /\ recs = RecordsIn(bp)
        BY <1>1, <3>1 DEF Matching, FitInv
      <4>2. recs[r] = RecordOf(DeliveredBy(bp, r.page)[r.slot])
        BY <4>1, RecordAt
      <4>3. DeliveredBy(bp, r.page)[r.slot] = recs[r]
        BY <4>1, <4>2 DEF RecordOf
      <4> QED
        BY <2>2, <3>1, <4>1, <4>3
    <3> QED
      BY <2>2, <3>1
  <2> QED
    BY <1>1, <2>1, <2>2, NextReturns
<1>2. IInv /\ PagesFit /\ FitInv =>
          \A s \in Scans : scan[s].still /\ next(s) =>
             \/ \E r \in Rids \ scan[s].seen :
                   /\ DeliveredBy(bp, r.page)[r.slot] \in scan[s].cond
                   /\ scan'[s].seen = scan[s].seen \cup {r}
             \/ Matching(s) \cap Reach \subseteq scan[s].seen /\ scan'[s].seen = {}
  BY <1>1
<1> QED
  BY <1>2, Invariance, FitInvariance, PTL DEF ScansMissNoneInReach
=============================================================================

--------------------------- MODULE FramePoolProofs ---------------------------
(***************************************************************************)
(* Theorems about FramePool, for any number of frames, clients and pages,  *)
(* as long as malloc finds a buffer (EnoughBuffers).                       *)
(***************************************************************************)
EXTENDS FramePool, FiniteSetTheorems, WellFoundedInduction, TLAPS

(* The bound on the number of buffers leaves one for every frame and every handle. *)
EnoughBuffers ==
    IsFiniteSet(Clients) /\ NumBuffers >= NumFrames + Cardinality(Clients)

-----------------------------------------------------------------------------
(* The least and the greatest member of a set of numbers.                    *)

LEMMA LeastExists ==
  ASSUME NEW S \in SUBSET Nat, S # {}
  PROVE  \E m \in S : \A n \in S : m <= n
<1> DEFINE R == {ss \in Nat \X Nat : ss[1] < ss[2]}
<1>1. IsWellFoundedOn(OpToRel(<, Nat), Nat)
  BY NatLessThanWellFounded
<1>2. IsWellFoundedOn(R, Nat)
  BY <1>1 DEF OpToRel
<1> HIDE DEF R
<1>3. PICK m \in S : \A n \in S : ~(<<n, m>> \in R)
  BY <1>2, WFMin
<1>4. ASSUME NEW n \in S PROVE m <= n
  <2>1. n \in Nat /\ m \in Nat
    OBVIOUS
  <2>2. n < m => <<n, m>> \in R
    BY <2>1 DEF R
  <2> QED
    BY <1>3, <2>1, <2>2
<1> QED
  BY <1>4

LEMMA MinIs ==
  ASSUME NEW S \in SUBSET Nat, S # {}
  PROVE  Min(S) \in S /\ \A n \in S : Min(S) <= n
BY LeastExists DEF Min

(* A bounded set of numbers has a greatest one. *)
LEMMA MaxIs ==
  ASSUME NEW S \in SUBSET Nat, S # {}, NEW b \in Nat, \A n \in S : n <= b
  PROVE  Max(S) \in S /\ \A n \in S : n <= Max(S)
<1> DEFINE U == {u \in Nat : \A n \in S : n <= u}
<1>1. PICK u \in U : \A v \in U : u <= v
  <2>1. U \in SUBSET Nat /\ b \in U
    OBVIOUS
  <2> HIDE DEF U
  <2> QED
    BY <2>1, LeastExists
<1>2. u \in S
  <2> SUFFICES ASSUME u \notin S PROVE FALSE
    OBVIOUS
  <2>1. PICK n \in S : TRUE
    OBVIOUS
  <2>2. u \in Nat /\ n \in Nat /\ n <= u /\ n # u
    BY <1>1
  <2>3. u - 1 \in U
    BY <2>2
  <2>4. u <= u - 1
    BY <1>1, <2>3
  <2> QED
    BY <2>2, <2>4
<1>3. \E m \in S : \A n \in S : n <= m
  BY <1>1, <1>2
<1> QED
  BY <1>3 DEF Max

(* A set of numbers with 0 and the successors of its members is all of them. *)
LEMMA AllNumbers ==
  ASSUME NEW S \in SUBSET Nat, 0 \in S, \A n \in S : n + 1 \in S
  PROVE  S = Nat
<1> SUFFICES ASSUME Nat \ S # {} PROVE FALSE
  OBVIOUS
<1>1. PICK m \in Nat \ S : \A n \in Nat \ S : m <= n
  BY LeastExists
<1>2. m - 1 \in Nat /\ m # 0
  BY <1>1
<1>3. m - 1 \in S
  BY <1>1, <1>2
<1>4. (m - 1) + 1 \in S /\ (m - 1) + 1 = m
  BY <1>2, <1>3
<1> QED
  BY <1>1, <1>4

(* The values of a function on the frames are bounded. *)
LEMMA FramesBounded ==
  ASSUME NEW h \in [Frames -> Nat]
  PROVE  \E b \in Nat : \A f \in Frames : h[f] <= b
<1> DEFINE Bounds(n, b) == \A f \in Frames : f < n => h[f] <= b
           S == {n \in Nat : \E b \in Nat : Bounds(n, b)}
<1>0. Frames \in SUBSET Nat
  BY FramesAssumption DEF Frames
<1>1. 0 \in S
  BY <1>0
<1>2. ASSUME NEW n \in S PROVE n + 1 \in S
  <2>1. PICK b \in Nat : Bounds(n, b)
    OBVIOUS
  <2>2. CASE n \in Frames
    <3>1. h[n] \in Nat
      BY <2>2
    <3>2. PICK c \in Nat : c >= b /\ c >= h[n]
      BY <3>1
    <3>3. ASSUME NEW f \in Frames, f < n + 1 PROVE h[f] <= c
      <4>1. h[f] \in Nat /\ f \in Nat /\ n \in Nat
        BY <1>0
      <4>2. f < n \/ f = n
        BY <3>3, <4>1
      <4>3. CASE f < n
        <5>1. h[f] <= b
          BY <2>1, <4>3
        <5> QED
          BY <3>2, <4>1, <5>1
      <4>4. CASE f = n
        BY <3>2, <4>4
      <4> QED
        BY <4>2, <4>3, <4>4
    <3> QED
      BY <3>3
  <2>3. CASE n \notin Frames
    <3>1. ASSUME NEW f \in Frames, f < n + 1 PROVE h[f] <= b
      <4>1. f \in Nat /\ n \in Nat /\ f # n
        BY <1>0, <2>3
      <4>2. f < n
        BY <3>1, <4>1
      <4> QED
        BY <2>1, <4>2
    <3> QED
      BY <3>1
  <2> QED
    BY <2>2, <2>3
<1>3. NumFrames \in S
  <2> S \in SUBSET Nat
    OBVIOUS
  <2> HIDE DEF S
  <2> QED
    BY <1>1, <1>2, AllNumbers, FramesAssumption
<1>4. PICK b \in Nat : Bounds(NumFrames, b)
  BY <1>3
<1> QED
  BY <1>4, FramesAssumption DEF Frames
-----------------------------------------------------------------------------
(* What a pool record is like in every reachable state. *)

File == [present : BOOLEAN, pages : Seq(Data)]

(* The frames that hold pages come before the empty ones, and point to a buffer. *)
FilledFirst(q) == \A f, g \in Frames : f < g /\ q.page[f] = NO_PAGE => q.page[g] = NO_PAGE
Backed(q) == \A f \in Frames : q.page[f] # NO_PAGE => q.data[f] # NULL

Copies(q) ==
    \A f, g \in Frames :
        q.page[f] # NO_PAGE /\ q.page[g] # NO_PAGE =>
            (q.page[f] = q.page[g] <=> q.data[f] = q.data[g])

WellFormed(q) == q \in Pool /\ FilledFirst(q) /\ Backed(q) /\ Copies(q)

(* The file and all frames of page p hold v. *)
Stored(q, p, v) ==
    /\ HasPage(q.file, p) /\ q.file.pages[p + 1] = v
    /\ \A f \in FramesOf(q, p) : Bytes(q, f) = v

LEMMA PageNumbers ==
  /\ PageNums \subseteq Nat /\ NO_PAGE \notin Nat /\ NO_PAGE \notin PageNums
  /\ Frames \in SUBSET Nat /\ 0 \in Frames /\ 1 \in Frames /\ NULL \notin Buffers
  /\ Buffers \in SUBSET Nat /\ Blank \in Data
<1>1. PageNums \subseteq Nat /\ NO_PAGE \notin Nat
  BY PagesAssumption DEF NO_PAGE
<1>2. Frames \in SUBSET Nat /\ 0 \in Frames /\ 1 \in Frames
  BY FramesAssumption DEF Frames
<1>3. NULL \notin Buffers /\ Buffers \in SUBSET Nat
  BY BuffersAssumption DEF NULL, Buffers
<1> QED
  BY <1>1, <1>2, <1>3, DataAssumption

(* r is q with page p, in buffer b, in the frames of S. *)
Filled(q, r, S, p, b, bytes) ==
    /\ r \in Pool
    /\ r.strategy = q.strategy /\ r.file = q.file
    /\ \A f \in S : r.page[f] = p /\ r.fix[f] = 1 /\ r.data[f] = b
    /\ \A f \in Frames \ S : /\ r.page[f] = q.page[f] /\ r.fix[f] = q.fix[f]
                              /\ r.data[f] = q.data[f]
    /\ r.heap[b] = bytes
    /\ \A c \in Buffers \ {b} : r.heap[c] = q.heap[c]

LEMMA FillIs ==
  ASSUME NEW q \in Pool, NEW S \in SUBSET Frames, NEW p \in PageNums, NEW b \in Buffers,
         NEW bytes \in Data
  PROVE  Filled(q, Fill(q, S, p, b, bytes), S, p, b, bytes)
<1> DEFINE r == Fill(q, S, p, b, bytes)
<1>1. /\ r.strategy = q.strategy /\ r.file = q.file
      /\ r.page = [f \in Frames |-> IF f \in S THEN p ELSE q.page[f]]
      /\ r.fix = [f \in Frames |-> IF f \in S THEN 1 ELSE q.fix[f]]
      /\ r.dirty = [f \in Frames |-> q.dirty[f] /\ f \notin S]
      /\ r.data = [f \in Frames |-> IF f \in S THEN b ELSE q.data[f]]
      /\ r.heap = [q.heap EXCEPT ![b] = bytes]
  BY DEF Fill, Pool
<1>2. /\ r.strategy \in {"RS_FIFO", "RS_LRU"} /\ r.page \in [Frames -> PageNums \cup {NO_PAGE}]
      /\ r.fix \in [Frames -> Int] /\ r.dirty \in [Frames -> BOOLEAN]
      /\ r.data \in [Frames -> Buffers \cup {NULL}] /\ r.heap \in [Buffers -> Data]
      /\ r.file \in File
  BY <1>1 DEF Pool, File
<1>3. r \in Pool
  <2>1. /\ [f \in Frames |-> IF f \in S THEN p ELSE q.page[f]] \in [Frames -> PageNums \cup {NO_PAGE}]
        /\ [f \in Frames |-> IF f \in S THEN 1 ELSE q.fix[f]] \in [Frames -> Int]
        /\ [f \in Frames |-> q.dirty[f] /\ f \notin S] \in [Frames -> BOOLEAN]
        /\ [f \in Frames |-> IF f \in S THEN b ELSE q.data[f]] \in [Frames -> Buffers \cup {NULL}]
        /\ [q.heap EXCEPT ![b] = bytes] \in [Buffers -> Data]
    BY DEF Pool
  <2> QED
    BY <2>1 DEF Fill, Pool
<1> QED
  BY <1>1, <1>3 DEF Pool, Filled

(* A page that enters a fresh buffer leaves the pool well formed, and the bytes of every
   other page where they are. *)
LEMMA FillKeeps ==
  ASSUME NEW q, WellFormed(q), NEW S \in SUBSET Frames, NEW p \in PageNums,
         NEW b \in Buffers, NEW bytes \in Data, NEW r, Filled(q, r, S, p, b, bytes),
         \A f \in Frames : q.data[f] # b,
         \A f \in Frames \ S : q.page[f] # p,
         \A f \in S : \A g \in Frames : g < f => g \in S \/ q.page[g] # NO_PAGE
  PROVE  /\ WellFormed(r)
         /\ \A o \in PageNums : \A v : Stored(q, o, v) /\ (o = p => bytes = v) => Stored(r, o, v)
<1> USE DEF WellFormed, Filled
<1>1. FilledFirst(r)
  BY PageNumbers DEF FilledFirst
<1>2. Backed(r)
  BY PageNumbers DEF Backed
<1>3. Copies(r)
  BY PageNumbers DEF Copies
<1>4. ASSUME NEW o \in PageNums, NEW v, Stored(q, o, v), o = p => bytes = v
      PROVE  Stored(r, o, v)
  <2>1. ASSUME NEW f \in Frames, r.page[f] = o PROVE r.heap[r.data[f]] = v
    <3>1. CASE f \in S
      BY <1>4, <2>1, <3>1
    <3>2. CASE f \notin S
      <4>1. q.page[f] = o /\ q.data[f] \in Buffers \ {b}
        BY <2>1, <3>2, PageNumbers DEF Backed, Pool
      <4>2. q.heap[q.data[f]] = v
        BY <1>4, <4>1 DEF Stored, FramesOf, Bytes
      <4> QED
        BY <3>2, <4>1, <4>2
    <3> QED
      BY <3>1, <3>2
  <2> QED
    BY <1>4, <2>1 DEF Stored, FramesOf, Bytes
<1> QED
  BY <1>1, <1>2, <1>3, <1>4

-----------------------------------------------------------------------------
(* The file after the frames of S were written. *)
Written(q, S, file) ==
    /\ file \in File /\ file.present = q.file.present
    /\ q.file.present =>
        /\ Len(q.file.pages) <= Len(file.pages)
        /\ \A p \in Nat : p < Len(q.file.pages) /\ (\A f \in S : q.page[f] # p) =>
                          file.pages[p + 1] = q.file.pages[p + 1]
        /\ \A f \in S : q.page[f] # NO_PAGE =>
                        /\ q.page[f] < Len(file.pages)
                        /\ file.pages[q.page[f] + 1] = Bytes(q, f)

LEMMA PaddedIs ==
  ASSUME NEW file \in File, NEW n \in Nat
  PROVE  /\ Padded(file, n) \in Seq(Data) /\ Len(Padded(file, n)) = n
         /\ \A i \in 1 .. n : Padded(file, n)[i] = IF i <= Len(file.pages) THEN file.pages[i] ELSE Blank
BY PageNumbers DEF Padded, File

LEMMA WriteBlocksIs ==
  ASSUME NEW q, WellFormed(q), NEW S \in SUBSET Frames
  PROVE  Written(q, S, writeBlocks(q, S))
<1> DEFINE W == {f \in S : q.page[f] # NO_PAGE}
           sizes == {Len(q.file.pages)} \cup {q.page[f] + 1 : f \in W}
           size == Max(sizes)
           Writers(i) == {f \in W : q.page[f] = i - 1}
           new == [i \in 1 .. size |-> IF Writers(i) # {} THEN Bytes(q, Min(Writers(i)))
                                     ELSE Padded(q.file, size)[i]]
<1>1. /\ q.file \in File /\ Len(q.file.pages) \in Nat
      /\ \A f \in W : q.page[f] \in Nat /\ Bytes(q, f) \in Data
  BY PageNumbers DEF WellFormed, Pool, File, Backed, Bytes
<1>2. size \in Nat /\ \A n \in sizes : n <= size
  <2>1. sizes \in SUBSET Nat /\ sizes # {}
    BY <1>1
  <2>2. PICK b \in Nat : \A n \in sizes : n <= b
    <3> DEFINE h == [f \in Frames |-> IF f \in W THEN q.page[f] + 1 ELSE 0]
    <3>1. h \in [Frames -> Nat]
      BY <1>1
    <3> HIDE DEF h
    <3>2. PICK b \in Nat : \A f \in Frames : h[f] <= b
      BY <3>1, FramesBounded
    <3>3. ASSUME NEW f \in W PROVE q.page[f] + 1 <= b
      <4>1. h[f] = q.page[f] + 1
        BY DEF h
      <4> QED
        BY <3>2, <4>1
    <3>4. b + Len(q.file.pages) \in Nat /\ \A n \in sizes : n <= b + Len(q.file.pages)
      BY <1>1, <3>3
    <3> QED
      BY <3>4
  <2> HIDE DEF sizes
  <2> QED
    BY <2>1, <2>2, MaxIs
<1>3. Len(q.file.pages) <= size /\ \A f \in W : q.page[f] + 1 <= size
  BY <1>2
<1> HIDE DEF size
<1>4. ASSUME NEW i \in 1 .. size, Writers(i) # {}
      PROVE  Min(Writers(i)) \in Writers(i)
  <2>1. Writers(i) \in SUBSET Nat
    BY PageNumbers
  <2> QED
    BY <1>4, <2>1, MinIs
<1>5. ASSUME NEW i \in 1 .. size
      PROVE  new[i] \in Data
  <2>1. CASE Writers(i) # {}
    BY <1>1, <1>4, <2>1
  <2>2. CASE Writers(i) = {}
    <3>1. Padded(q.file, size)[i] \in Data
      BY <1>1, <1>2, PaddedIs, PageNumbers DEF File
    <3> QED
      BY <2>2, <3>1
  <2> QED
    BY <2>1, <2>2
<1>6. new \in Seq(Data) /\ Len(new) = size
  BY <1>2, <1>5
<1>7. ASSUME NEW f \in W
      PROVE  q.page[f] < size /\ new[q.page[f] + 1] = Bytes(q, f)
  <2> DEFINE i == q.page[f] + 1
             g == Min(Writers(i))
  <2>1. i \in 1 .. size /\ f \in Writers(i)
    BY <1>1, <1>2, <1>3
  <2>2. g \in W /\ q.page[g] = q.page[f]
    BY <1>1, <1>4, <2>1
  <2>3. q.data[g] = q.data[f]
    BY <2>2 DEF WellFormed, Copies
  <2>4. new[i] = Bytes(q, g)
    BY <2>1
  <2>5. Bytes(q, g) = Bytes(q, f)
    BY <2>3 DEF Bytes
  <2>6. q.page[f] < size
    BY <1>1, <1>2, <1>3
  <2> HIDE DEF g, new
  <2> QED
    BY <2>4, <2>5, <2>6
<1>8. ASSUME NEW p \in Nat, p < Len(q.file.pages), \A f \in S : q.page[f] # p
      PROVE  new[p + 1] = q.file.pages[p + 1]
  <2>1. p + 1 \in 1 .. size /\ p + 1 <= Len(q.file.pages) /\ Writers(p + 1) = {}
    BY <1>1, <1>2, <1>3, <1>8
  <2>2. new[p + 1] = Padded(q.file, size)[p + 1]
    BY <2>1
  <2> QED
    BY <1>1, <1>2, <2>1, <2>2, PaddedIs
<1> HIDE DEF new
<1>9. CASE q.file.present
  <2>1. writeBlocks(q, S) = [q.file EXCEPT !.pages = new]
    BY <1>9, Zenon DEF writeBlocks, new, size
  <2>2. [q.file EXCEPT !.pages = new].pages = new
        /\ [q.file EXCEPT !.pages = new].present = q.file.present
        /\ [q.file EXCEPT !.pages = new] \in File
    BY <1>1, <1>6 DEF File
  <2> QED
    BY <1>3, <1>6, <1>7, <1>8, <2>1, <2>2 DEF Written
<1>10. CASE ~q.file.present
  BY <1>1, <1>10 DEF writeBlocks, Written
<1> QED
  BY <1>9, <1>10

(* Writing any frames keeps what is stored in the file. *)
LEMMA WrittenKeeps ==
  ASSUME NEW q, WellFormed(q), NEW S \in SUBSET Frames, NEW file, Written(q, S, file),
         NEW p \in PageNums, NEW v, Stored(q, p, v)
  PROVE  HasPage(file, p) /\ file.pages[p + 1] = v
<1>1. q.file.present /\ p < Len(q.file.pages) /\ p \in Nat /\ p # NO_PAGE
      /\ Len(q.file.pages) \in Nat
  BY PageNumbers DEF Stored, HasPage, WellFormed, Pool
<1>2. Len(file.pages) \in Nat /\ Len(q.file.pages) <= Len(file.pages) /\ file.present
  BY <1>1 DEF Written, File
<1>3. CASE \A f \in S : q.page[f] # p
  BY <1>1, <1>2, <1>3 DEF Written, Stored, HasPage
<1>4. CASE \E f \in S : q.page[f] = p
  <2>1. PICK f \in S : q.page[f] = p
    BY <1>4
  <2>2. Bytes(q, f) = v
    BY <2>1 DEF Stored, FramesOf
  <2> QED
    BY <1>1, <1>2, <2>1, <2>2 DEF Written, HasPage
<1> QED
  BY <1>3, <1>4

-----------------------------------------------------------------------------
(* pinPage. *)

(* r is q with another file. *)
OtherFile(q, r, file) ==
    /\ r \in Pool /\ r.file = file
    /\ r.strategy = q.strategy /\ r.page = q.page /\ r.fix = q.fix
    /\ r.data = q.data /\ r.heap = q.heap

LEMMA OtherFileIs ==
  ASSUME NEW q \in Pool, NEW file \in File
  PROVE  OtherFile(q, [q EXCEPT !.file = file], file)
BY DEF Pool, File, OtherFile

LEMMA OtherFileKeeps ==
  ASSUME NEW q, WellFormed(q), NEW file, NEW r, OtherFile(q, r, file)
  PROVE  /\ WellFormed(r)
         /\ \A p \in PageNums : \A v :
              Stored(q, p, v) /\ HasPage(file, p) /\ file.pages[p + 1] = v => Stored(r, p, v)
<1>1. WellFormed(r)
  BY DEF WellFormed, OtherFile, FilledFirst, Backed, Copies
<1>2. ASSUME NEW p \in PageNums, NEW v,
             Stored(q, p, v), HasPage(file, p), file.pages[p + 1] = v
      PROVE  Stored(r, p, v)
  BY <1>2 DEF Stored, OtherFile, FramesOf, Bytes
<1> QED
  BY <1>1, <1>2

LEMMA RoomIs ==
  ASSUME NEW file \in File, file.present, NEW n \in Nat
  PROVE  /\ ensureCapacity(file, n) \in File /\ ensureCapacity(file, n).present
         /\ \A p \in Nat : HasPage(file, p) =>
              /\ HasPage(ensureCapacity(file, n), p)
              /\ ensureCapacity(file, n).pages[p + 1] = file.pages[p + 1]
<1>1. CASE Len(file.pages) < n
  <2> DEFINE new == Padded(file, n)
  <2>1. new \in Seq(Data) /\ Len(new) = n /\ Len(file.pages) \in Nat
        /\ \A i \in 1 .. n : new[i] = IF i <= Len(file.pages) THEN file.pages[i] ELSE Blank
    BY PaddedIs DEF File
  <2>2. ensureCapacity(file, n) = [file EXCEPT !.pages = new]
    BY <1>1 DEF ensureCapacity
  <2> HIDE DEF new
  <2>3. /\ [file EXCEPT !.pages = new] \in File
        /\ [file EXCEPT !.pages = new].pages = new
        /\ [file EXCEPT !.pages = new].present
    BY <2>1 DEF File
  <2>4. ASSUME NEW p \in Nat, HasPage(file, p) PROVE p < Len(new) /\ new[p + 1] = file.pages[p + 1]
    <3>1. p + 1 \in 1 .. n /\ p + 1 <= Len(file.pages)
      BY <1>1, <2>1, <2>4 DEF HasPage
    <3> QED
      BY <1>1, <2>1, <3>1
  <2> QED
    BY <2>2, <2>3, <2>4 DEF HasPage
<1>2. CASE ~(Len(file.pages) < n)
  BY <1>2 DEF ensureCapacity
<1> QED
  BY <1>1, <1>2

LEMMA ReadIs ==
  ASSUME NEW file \in File, NEW p \in PageNums, NEW junk \in Data
  PROVE  /\ readBlock(file, p, junk) \in Data
         /\ HasPage(file, p) => readBlock(file, p, junk) = file.pages[p + 1]
BY PageNumbers DEF readBlock, HasPage, File

(* The frames before the one where the scan stops hold other pages. *)
LEMMA StopIs ==
  ASSUME NEW q, WellFormed(q), NEW p \in PageNums, StopsAt(q, p) # {}, NEW f, f = Min(StopsAt(q, p))
  PROVE  /\ f \in Frames /\ q.page[f] \in {NO_PAGE, p}
         /\ \A g \in Frames : g < f => q.page[g] \notin {NO_PAGE, p}
<1> DEFINE S == StopsAt(q, p)
<1>1. S \in SUBSET Nat
  BY PageNumbers DEF StopsAt
<1>2. f \in S /\ \A n \in S : f <= n
  BY <1>1, MinIs
<1>3. ASSUME NEW g \in Frames, g < f PROVE g \notin S
  BY <1>2, <1>3, PageNumbers DEF StopsAt
<1> QED
  BY <1>2, <1>3 DEF StopsAt

(* A page that was in no frame enters the frames of S, after the file became "file". *)
FileMoved(q, mid) ==
    /\ WellFormed(mid) /\ mid.file.present
    /\ mid.page = q.page /\ mid.fix = q.fix /\ mid.data = q.data
    /\ \A o \in PageNums : \A v : Stored(q, o, v) => Stored(mid, o, v)

Entered(q, r, S, p, b) ==
    \E mid : \E bytes \in Data :
        /\ FileMoved(q, mid)
        /\ \A v : Stored(q, p, v) => bytes = v
        /\ Filled(mid, r, S, p, b, bytes)

(* One of the frames already held the page, and is pinned once more. *)
Found(q, r, f, p) ==
    /\ q.page[f] = p /\ r \in Pool
    /\ r.strategy = q.strategy /\ r.page = q.page /\ r.data = q.data /\ r.heap = q.heap
    /\ r.file = q.file
    /\ r.fix = [q.fix EXCEPT ![f] = @ + 1]
    /\ f # 0 => q.page[0] # p

(* Filling frames of q itself, read from its file. *)
LEMMA FillEnters ==
  ASSUME NEW q, WellFormed(q), q.file.present, NEW p \in PageNums, NEW b \in Buffers,
         NEW junk \in Data, NEW S \in SUBSET Frames
  PROVE  Entered(q, Fill(q, S, p, b, readBlock(q.file, p, junk)), S, p, b)
<1> DEFINE bytes == readBlock(q.file, p, junk)
<1>1. q \in Pool /\ q.file \in File
  BY DEF WellFormed, Pool, File
<1>2. bytes \in Data /\ \A v : Stored(q, p, v) => bytes = v
  BY <1>1, ReadIs DEF Stored
<1> HIDE DEF bytes
<1>3. Filled(q, Fill(q, S, p, b, bytes), S, p, b, bytes)
  BY <1>1, <1>2, FillIs
<1>4. Entered(q, Fill(q, S, p, b, bytes), S, p, b)
  BY <1>2, <1>3 DEF Entered, FileMoved
<1> QED
  BY <1>4 DEF bytes

(* Filling them after a file operation that loses nothing. *)
LEMMA FillEntersWithFile ==
  ASSUME NEW q, WellFormed(q), NEW p \in PageNums, NEW b \in Buffers, NEW bytes \in Data,
         NEW S \in SUBSET Frames, NEW file \in File, file.present,
         \A o \in PageNums : \A v :
            Stored(q, o, v) => HasPage(file, o) /\ file.pages[o + 1] = v,
         \A v : Stored(q, p, v) => bytes = v
  PROVE  Entered(q, Fill([q EXCEPT !.file = file], S, p, b, bytes), S, p, b)
<1> DEFINE mid == [q EXCEPT !.file = file]
<1>1. OtherFile(q, mid, file)
  BY OtherFileIs DEF WellFormed
<1> HIDE DEF mid
<1>2. WellFormed(mid) /\ \A o \in PageNums : \A v : Stored(q, o, v) => Stored(mid, o, v)
  BY <1>1, OtherFileKeeps
<1>3. Filled(mid, Fill(mid, S, p, b, bytes), S, p, b, bytes)
  BY <1>2, FillIs DEF WellFormed
<1>4. Entered(q, Fill(mid, S, p, b, bytes), S, p, b)
  BY <1>1, <1>2, <1>3 DEF Entered, FileMoved, OtherFile
<1> QED
  BY <1>4 DEF mid

(* Page p, which no frame holds, enters the frames of S: there are some if frame 0 is
   unfixed, and no empty frame is left before them. *)
EntersAt(q, S, p) ==
    /\ \A f \in Frames : q.page[f] # p
    /\ \A f \in S : \A g \in Frames : g < f => g \in S \/ q.page[g] # NO_PAGE
    /\ q.fix[0] = 0 => S # {}

LEMMA PinIs ==
  ASSUME NEW q, WellFormed(q), q.file.present, NEW p \in PageNums, NEW b \in Buffers,
         NEW junk \in Data
  PROVE  \/ \E f \in Frames : Found(q, Pin(q, p, b, junk), f, p) /\ PinData(q, p, b) = q.data[f]
         \/ \E S \in SUBSET Frames :
               Entered(q, Pin(q, p, b, junk), S, p, b) /\ EntersAt(q, S, p) /\ PinData(q, p, b) = b
<1>1. q \in Pool /\ q.file \in File /\ p \in Nat /\ p # NO_PAGE
  BY PageNumbers DEF WellFormed, Pool, File
<1>2. CASE q.page[0] = NO_PAGE
  <2> DEFINE file == ensureCapacity(q.file, p)
             bytes == readBlock(file, p, junk)
  <2>0. StopsAt(q, p) # {}
    BY <1>2, PageNumbers DEF StopsAt
  <2>1. Pin(q, p, b, junk) = PinFirst(q, p, b, junk) /\ PinData(q, p, b) = b
    BY <1>2, <2>0 DEF Pin, PinData
  <2>2. /\ file \in File /\ file.present
        /\ \A o \in Nat : HasPage(q.file, o) => HasPage(file, o) /\ file.pages[o + 1] = q.file.pages[o + 1]
    BY <1>1, RoomIs
  <2>3. Pin(q, p, b, junk) = Fill([q EXCEPT !.file = file], {0}, p, b, bytes)
    BY <2>1 DEF PinFirst
  <2> HIDE DEF file
  <2>4. \A o \in PageNums : \A v :
           Stored(q, o, v) => HasPage(file, o) /\ file.pages[o + 1] = v
    BY <2>2, PageNumbers DEF Stored
  <2>5. bytes \in Data /\ \A v : Stored(q, p, v) => bytes = v
    BY <2>2, <2>4, ReadIs
  <2>6. {0} \in SUBSET Frames
    BY PageNumbers
  <2> HIDE DEF bytes
  <2>7. Entered(q, Pin(q, p, b, junk), {0}, p, b)
    BY <2>2, <2>3, <2>4, <2>5, <2>6, FillEntersWithFile
  <2>8. \A f \in Frames : q.page[f] = NO_PAGE
    <3>1. \A f \in Frames : f = 0 \/ 0 < f
      BY PageNumbers
    <3> QED
      BY <1>2, <3>1, PageNumbers DEF WellFormed, FilledFirst
  <2>9. EntersAt(q, {0}, p)
    BY <1>1, <2>8, PageNumbers DEF EntersAt
  <2> QED
    BY <2>1, <2>6, <2>7, <2>9
<1>3. CASE q.page[0] # NO_PAGE /\ StopsAt(q, p) # {}
  <2> DEFINE f == Min(StopsAt(q, p))
  <2>1. /\ f \in Frames /\ q.page[f] \in {NO_PAGE, p}
        /\ \A g \in Frames : g < f => q.page[g] \notin {NO_PAGE, p}
    BY <1>3, StopIs
  <2>2. Pin(q, p, b, junk) = PinFound(q, p, b, junk)
    BY <1>3 DEF Pin
  <2>3. CASE q.page[f] = p
    <3>1. Pin(q, p, b, junk) = [q EXCEPT !.fix[f] = @ + 1] /\ PinData(q, p, b) = q.data[f]
      BY <1>3, <2>2, <2>3 DEF PinFound, PinData
    <3> HIDE DEF f
    <3>2. f # 0 => q.page[0] # p
      BY <2>1, PageNumbers
    <3>a. q.fix \in [Frames -> Int] /\ [q.fix EXCEPT ![f] = @ + 1] \in [Frames -> Int]
      BY <1>1, <2>1 DEF Pool
    <3>b. [q EXCEPT !.fix[f] = @ + 1] = [q EXCEPT !.fix = [q.fix EXCEPT ![f] = @ + 1]]
      BY <1>1 DEF Pool
    <3> DEFINE fix == [q.fix EXCEPT ![f] = @ + 1]
               t == [q EXCEPT !.fix = fix]
    <3>c. fix \in [Frames -> Int]
      BY <3>a
    <3> HIDE DEF fix
    <3>d. /\ t \in Pool /\ t.fix = fix /\ t.strategy = q.strategy /\ t.page = q.page
          /\ t.data = q.data /\ t.heap = q.heap /\ t.file = q.file
      BY <1>1, <3>c DEF Pool
    <3> HIDE DEF t
    <3>e. Found(q, t, f, p)
      BY <2>3, <3>2, <3>d DEF Found, fix
    <3>3. Found(q, [q EXCEPT !.fix[f] = @ + 1], f, p)
      BY <3>b, <3>e DEF t, fix
    <3> QED
      BY <2>1, <3>1, <3>3
  <2>4. CASE q.page[f] # p
    <3>1. Pin(q, p, b, junk) = Fill(q, {f}, p, b, readBlock(q.file, p, junk)) /\ PinData(q, p, b) = b
      BY <1>3, <2>2, <2>4 DEF PinFound, PinData
    <3> HIDE DEF f
    <3>2. {f} \in SUBSET Frames
      BY <2>1
    <3>3. Entered(q, Pin(q, p, b, junk), {f}, p, b)
      BY <3>1, <3>2, FillEnters
    <3>4. \A g \in Frames : q.page[g] # p
      <4>1. q.page[f] = NO_PAGE
        BY <2>1, <2>4
      <4>2. \A g \in Frames : f < g => q.page[g] = NO_PAGE
        BY <2>1, <4>1 DEF WellFormed, FilledFirst
      <4>3. \A g \in Frames : g < f \/ g = f \/ f < g
        BY <2>1, PageNumbers
      <4> QED
        BY <1>1, <2>1, <2>4, <4>2, <4>3
    <3>5. EntersAt(q, {f}, p)
      BY <2>1, <3>4 DEF EntersAt
    <3> QED
      BY <3>1, <3>2, <3>3, <3>5
  <2> QED
    BY <2>3, <2>4
<1>4. CASE StopsAt(q, p) = {}
  <2>1. PinData(q, p, b) = b
    BY <1>4 DEF PinData
  <2>2. \A f \in Frames : q.page[f] # NO_PAGE /\ q.page[f] # p
    BY <1>4 DEF StopsAt
  <2>3. q.page[0] # NO_PAGE /\ ~(q.page[0] # NO_PAGE /\ StopsAt(q, p) # {})
    BY <1>4, <2>2, PageNumbers
  <2>4. CASE q.strategy = "RS_FIFO"
    <3> DEFINE clean == {f \in UnfixedIn(q) : ~q.dirty[f]}
               file == writeBlocks(q, clean)
               S == UnfixedIn(q)
               bytes == readBlock(q.file, p, junk)
    <3>1. Pin(q, p, b, junk) = FIFO(q, p, b, junk)
      BY <1>4, <2>3, <2>4 DEF Pin
    <3>2. Pin(q, p, b, junk) = Fill([q EXCEPT !.file = file], S, p, b, bytes)
      BY <3>1 DEF FIFO
    <3>3. clean \in SUBSET Frames /\ S \in SUBSET Frames
      BY DEF UnfixedIn
    <3>4. q.fix[0] = 0 => S # {}
      BY PageNumbers DEF UnfixedIn
    <3> HIDE DEF clean, S
    <3>5. Written(q, clean, file)
      BY <3>3, WriteBlocksIs
    <3> HIDE DEF file
    <3>6. file \in File /\ file.present
      BY <3>5 DEF Written
    <3>7. \A o \in PageNums : \A v :
             Stored(q, o, v) => HasPage(file, o) /\ file.pages[o + 1] = v
      BY <3>3, <3>5, WrittenKeeps
    <3>8. bytes \in Data /\ \A v : Stored(q, p, v) => bytes = v
      BY <1>1, ReadIs DEF Stored
    <3> HIDE DEF bytes
    <3>9. Entered(q, Pin(q, p, b, junk), S, p, b)
      BY <3>2, <3>3, <3>6, <3>7, <3>8, FillEntersWithFile
    <3>10. EntersAt(q, S, p)
      BY <2>2, <3>4 DEF EntersAt
    <3> QED
      BY <2>1, <3>3, <3>9, <3>10
  <2>5. CASE q.strategy = "RS_LRU"
    <3>1. Pin(q, p, b, junk) = LRU(q, p, b, junk)
      BY <1>4, <2>3, <2>5 DEF Pin
    <3>2. {0} \in SUBSET Frames
      BY PageNumbers
    <3>3. Entered(q, Pin(q, p, b, junk), {0}, p, b)
      BY <3>1, <3>2, FillEnters DEF LRU
    <3>4. EntersAt(q, {0}, p)
      BY <2>2 DEF EntersAt
    <3> QED
      BY <2>1, <3>2, <3>3, <3>4
  <2> QED
    BY <1>1, <2>4, <2>5 DEF Pool
<1> QED
  BY <1>2, <1>3, <1>4

(* What pinPage keeps, when malloc returns a buffer that no frame points to. *)
LEMMA PinKeeps ==
  ASSUME NEW q, WellFormed(q), q.file.present, NEW p \in PageNums, NEW b \in Buffers,
         \A f \in Frames : q.data[f] # b, NEW junk \in Data
  PROVE  LET r == Pin(q, p, b, junk) IN
         /\ WellFormed(r) /\ r.file.present
         /\ \A o \in PageNums : \A v : Stored(q, o, v) => Stored(r, o, v)
         /\ PinData(q, p, b) \in Buffers
         /\ q.fix[0] = 0 =>
              /\ \E f \in FramesOf(r, p) : r.data[f] = PinData(q, p, b)
              /\ r.fix[0] = IF r.page[0] = p THEN 1 ELSE 0
<1> DEFINE r == Pin(q, p, b, junk)
           d == PinData(q, p, b)
<1>1. \/ \E f \in Frames : Found(q, r, f, p) /\ d = q.data[f]
      \/ \E S \in SUBSET Frames : Entered(q, r, S, p, b) /\ EntersAt(q, S, p) /\ d = b
  BY PinIs
<1> HIDE DEF r, d
<1>2. ASSUME NEW f \in Frames, Found(q, r, f, p), d = q.data[f]
      PROVE  /\ WellFormed(r) /\ r.file.present /\ d \in Buffers
             /\ \A o \in PageNums : \A v : Stored(q, o, v) => Stored(r, o, v)
             /\ q.fix[0] = 0 => /\ \E g \in FramesOf(r, p) : r.data[g] = d
                                /\ r.fix[0] = IF r.page[0] = p THEN 1 ELSE 0
  <2>1. WellFormed(r)
    BY <1>2 DEF Found, WellFormed, FilledFirst, Backed, Copies
  <2>2. d \in Buffers
    BY <1>2, PageNumbers DEF Found, WellFormed, Backed, Pool
  <2>3. \A o \in PageNums : \A v : Stored(q, o, v) => Stored(r, o, v)
    BY <1>2 DEF Found, Stored, FramesOf, Bytes
  <2>4. \E g \in FramesOf(r, p) : r.data[g] = d
    BY <1>2 DEF Found, FramesOf
  <2>5. q.fix[0] = 0 => r.fix[0] = IF r.page[0] = p THEN 1 ELSE 0
    <3>1. 0 \in DOMAIN q.fix
      BY PageNumbers DEF WellFormed, Pool
    <3>2. CASE f = 0
      BY <1>2, <3>1, <3>2 DEF Found
    <3>3. CASE f # 0
      BY <1>2, <3>1, <3>3 DEF Found
    <3> QED
      BY <3>2, <3>3
  <2> QED
    BY <1>2, <2>1, <2>2, <2>3, <2>4, <2>5 DEF Found
<1>3. ASSUME NEW S \in SUBSET Frames, Entered(q, r, S, p, b), EntersAt(q, S, p), d = b
      PROVE  /\ WellFormed(r) /\ r.file.present /\ d \in Buffers
             /\ \A o \in PageNums : \A v : Stored(q, o, v) => Stored(r, o, v)
             /\ q.fix[0] = 0 => /\ \E g \in FramesOf(r, p) : r.data[g] = d
                                /\ r.fix[0] = IF r.page[0] = p THEN 1 ELSE 0
  <2>1. PICK mid :
          \E bytes \in Data :
             /\ FileMoved(q, mid)
             /\ \A v : Stored(q, p, v) => bytes = v
             /\ Filled(mid, r, S, p, b, bytes)
    BY <1>3 DEF Entered
  <2>2. PICK bytes \in Data :
             /\ FileMoved(q, mid)
             /\ \A v : Stored(q, p, v) => bytes = v
             /\ Filled(mid, r, S, p, b, bytes)
    BY <2>1
  <2>3. /\ WellFormed(mid) /\ mid.file.present
        /\ mid.page = q.page /\ mid.fix = q.fix /\ mid.data = q.data
        /\ \A o \in PageNums : \A v : Stored(q, o, v) => Stored(mid, o, v)
    BY <2>2 DEF FileMoved
  <2>4. /\ WellFormed(r)
        /\ \A o \in PageNums : \A v : Stored(mid, o, v) /\ (o = p => bytes = v) => Stored(r, o, v)
    <3>1. /\ \A f \in Frames : mid.data[f] # b
          /\ \A f \in Frames \ S : mid.page[f] # p
          /\ \A f \in S : \A g \in Frames : g < f => g \in S \/ mid.page[g] # NO_PAGE
      BY <1>3, <2>3 DEF EntersAt
    <3>2. WellFormed(mid) /\ Filled(mid, r, S, p, b, bytes)
      BY <2>2, <2>3
    <3> QED
      BY <3>1, <3>2, FillKeeps, SMTT(30)
  <2>5. \A o \in PageNums : \A v : Stored(q, o, v) => Stored(r, o, v)
    BY <2>2, <2>3, <2>4
  <2>6. r.file.present
    BY <2>2, <2>3 DEF Filled
  <2>7. ASSUME q.fix[0] = 0
        PROVE  /\ \E g \in FramesOf(r, p) : r.data[g] = d
               /\ r.fix[0] = IF r.page[0] = p THEN 1 ELSE 0
    <3>1. PICK g \in S : TRUE
      BY <1>3, <2>7 DEF EntersAt
    <3>2. g \in Frames /\ r.page[g] = p /\ r.data[g] = d
      BY <1>3, <2>2, <3>1 DEF Filled
    <3>3. ASSUME 0 \in S
          PROVE  r.fix[0] = IF r.page[0] = p THEN 1 ELSE 0
      <4>1. r.page[0] = p /\ r.fix[0] = 1
        BY <2>2, <3>3 DEF Filled
      <4> QED
        BY <4>1
    <3>4. ASSUME 0 \notin S
          PROVE  r.fix[0] = IF r.page[0] = p THEN 1 ELSE 0
      <4>1. 0 \in Frames \ S
        BY <3>4, PageNumbers
      <4>2. r.page[0] = q.page[0] /\ r.fix[0] = q.fix[0]
        BY <2>2, <2>3, <4>1 DEF Filled
      <4>3. q.page[0] # p
        BY <1>3, <4>1 DEF EntersAt
      <4> QED
        BY <2>7, <4>2, <4>3
    <3> QED
      BY <3>2, <3>3, <3>4 DEF FramesOf
  <2> QED
    BY <1>3, <2>4, <2>5, <2>6, <2>7
<1>4. /\ WellFormed(r) /\ r.file.present /\ d \in Buffers
      /\ \A o \in PageNums : \A v : Stored(q, o, v) => Stored(r, o, v)
      /\ q.fix[0] = 0 => /\ \E g \in FramesOf(r, p) : r.data[g] = d
                         /\ r.fix[0] = IF r.page[0] = p THEN 1 ELSE 0
  BY <1>1, <1>2, <1>3
<1> QED
  BY <1>4 DEF r, d

(* malloc finds a buffer for a client that holds none. *)
LEMMA BufferIsNew ==
  ASSUME TypeOK, EnoughBuffers, NEW c \in Clients, ~Holds(c)
  PROVE  /\ NewBuffer(bp, HeldBuffers) \in Buffers
         /\ NewBuffer(bp, HeldBuffers) \notin HeldBuffers
         /\ \A f \in Frames : bp.data[f] # NewBuffer(bp, HeldBuffers)
<1> DEFINE D == {bp.data[f] : f \in Frames}
           h == [k \in Clients |-> handle[k].data]
           g == [f \in Frames |-> bp.data[f]]
<1>1. IsFiniteSet(HeldBuffers) /\ Cardinality(HeldBuffers) <= Cardinality(Clients)
      /\ Cardinality(HeldBuffers) \in Nat /\ Cardinality(Clients) \in Nat
  <2>1. h \in Surjection(Clients, HeldBuffers)
    BY DEF Surjection, HeldBuffers
  <2> QED
    BY <2>1, FS_Surjection, FS_CardinalityType DEF EnoughBuffers
<1>2. IsFiniteSet(Frames) /\ Cardinality(Frames) = NumFrames
  BY FS_Interval, FramesAssumption DEF Frames
<1>3. IsFiniteSet(D) /\ Cardinality(D) <= NumFrames /\ Cardinality(D) \in Nat
  <2>1. g \in Surjection(Frames, D)
    BY DEF Surjection
  <2> QED
    BY <1>2, <2>1, FS_Surjection, FS_CardinalityType
<1>4. IsFiniteSet(HeldBuffers \cup D)
      /\ Cardinality(HeldBuffers \cup D) <= Cardinality(HeldBuffers) + Cardinality(D)
  <2>1. /\ IsFiniteSet(HeldBuffers \cup D)
        /\ Cardinality(HeldBuffers \cup D) =
              Cardinality(HeldBuffers) + Cardinality(D) - Cardinality(HeldBuffers \cap D)
    BY <1>1, <1>3, FS_Union
  <2>2. Cardinality(HeldBuffers \cap D) \in Nat
    BY <1>1, FS_Intersection, FS_CardinalityType
  <2> QED
    BY <1>1, <1>3, <2>1, <2>2
<1>5. NULL \in HeldBuffers
  BY DEF Holds, HeldBuffers
<1>6. IsFiniteSet(0 .. NumBuffers) /\ Cardinality(0 .. NumBuffers) = NumBuffers + 1
  BY FS_Interval, BuffersAssumption
<1>7. Buffers \ (HeldBuffers \cup D) # {}
  <2> SUFFICES ASSUME Buffers \subseteq HeldBuffers \cup D PROVE FALSE
    OBVIOUS
  <2>1. 0 .. NumBuffers \in SUBSET (HeldBuffers \cup D)
    BY <1>5, BuffersAssumption DEF Buffers, NULL
  <2>2. Cardinality(0 .. NumBuffers) <= Cardinality(HeldBuffers \cup D)
    BY <1>4, <2>1, FS_Subset
  <2>3. Cardinality(HeldBuffers \cup D) \in Nat
    BY <1>4, FS_CardinalityType
  <2> QED
    BY <1>1, <1>3, <1>4, <1>6, <2>2, <2>3, BuffersAssumption, FramesAssumption DEF EnoughBuffers
<1>8. NewBuffer(bp, HeldBuffers) \in Buffers \ (HeldBuffers \cup D)
  <2>1. Buffers \ (HeldBuffers \cup D) \in SUBSET Nat
    BY PageNumbers
  <2> QED
    BY <1>7, <2>1, MinIs DEF NewBuffer
<1> QED
  BY <1>8

-----------------------------------------------------------------------------
(* The inductive invariant.                                                  *)

HandlesNamed ==
    \A c \in Clients : Holds(c) => pool # "closed" /\ handle[c].pageNum \in PageNums

OpenHasFile == pool # "closed" => bp.file.present

OneHolder == ~shared => \A c, d \in Clients : Holds(c) /\ Holds(d) => c = d

(* Frame 0 is the one frame whose count the defects keep right: no copy of its page
   is found before it, so it is unfixed whenever nobody holds its page. *)
FrontCount ==
    ~shared =>
        /\ NoneHeld => bp.fix[0] = 0
        /\ \A c \in Clients :
             Holds(c) => bp.fix[0] = IF bp.page[0] = handle[c].pageNum THEN 1 ELSE 0

SavedEverywhere ==
    ~shared => \A p \in PageNums : saved[p] # Unsaved => Stored(bp, p, saved[p])

IInv ==
    /\ TypeOK /\ WellFormed(bp)
    /\ HandlesNamed /\ OpenHasFile
    /\ OneHolder /\ FrontCount /\ AloneFindsAFrame /\ SavedEverywhere

LEMMA EmptyPoolIs ==
  ASSUME NEW strategy \in {"RS_FIFO", "RS_LRU"}, NEW file \in File
  PROVE  LET q == EmptyPool(strategy, file) IN
         /\ WellFormed(q) /\ q.file = file
         /\ \A f \in Frames : q.fix[f] = 0 /\ q.page[f] = NO_PAGE
<1> DEFINE q == EmptyPool(strategy, file)
<1>1. q \in Pool
  <2>1. /\ [f \in Frames |-> NO_PAGE] \in [Frames -> PageNums \cup {NO_PAGE}]
        /\ [f \in Frames |-> 0] \in [Frames -> Int]
        /\ [f \in Frames |-> FALSE] \in [Frames -> BOOLEAN]
        /\ [f \in Frames |-> NULL] \in [Frames -> Buffers \cup {NULL}]
        /\ [b \in Buffers |-> Blank] \in [Buffers -> Data]
    BY PageNumbers
  <2> QED
    BY <2>1 DEF EmptyPool, Pool, File
<1>2. q.file = file /\ \A f \in Frames : q.fix[f] = 0 /\ q.page[f] = NO_PAGE
  BY DEF EmptyPool
<1>3. WellFormed(q)
  BY <1>1, <1>2 DEF WellFormed, FilledFirst, Backed, Copies
<1> QED
  BY <1>2, <1>3

(* r differs from q in dirty flags and in the file, where all that was stored still is. *)
SameFrames(q, r) ==
    /\ r \in Pool /\ r.file.present = q.file.present
    /\ r.page = q.page /\ r.fix = q.fix /\ r.data = q.data /\ r.heap = q.heap
    /\ \A p \in PageNums : \A v : Stored(q, p, v) => Stored(r, p, v)

LEMMA MarkDirtyIs ==
  ASSUME NEW q, WellFormed(q)
  PROVE  SameFrames(q, MarkDirty(q))
<1>1. [f \in Frames |-> TRUE] \in [Frames -> BOOLEAN]
  OBVIOUS
<1>2. MarkDirty(q) \in Pool /\ MarkDirty(q).file = q.file
      /\ MarkDirty(q).page = q.page /\ MarkDirty(q).fix = q.fix
      /\ MarkDirty(q).data = q.data /\ MarkDirty(q).heap = q.heap
  BY <1>1 DEF MarkDirty, WellFormed, Pool
<1> QED
  BY <1>2 DEF SameFrames, Stored, FramesOf, Bytes

(* Writing frames: the file keeps what it has, whatever the flags become. *)
LEMMA WritingIs ==
  ASSUME NEW q, WellFormed(q), NEW S \in SUBSET Frames, NEW dirty \in [Frames -> BOOLEAN]
  PROVE  LET r == [q EXCEPT !.file = writeBlocks(q, S), !.dirty = dirty] IN
         SameFrames(q, r) /\ r.file = writeBlocks(q, S)
<1> DEFINE file == writeBlocks(q, S)
           r == [q EXCEPT !.file = file, !.dirty = dirty]
<1>1. Written(q, S, file)
  BY WriteBlocksIs
<1> HIDE DEF file
<1>2. file \in File /\ file.present = q.file.present
  BY <1>1 DEF Written
<1>3. /\ r \in Pool /\ r.file = file
      /\ r.page = q.page /\ r.fix = q.fix /\ r.data = q.data /\ r.heap = q.heap
  BY <1>2 DEF WellFormed, Pool, File
<1> HIDE DEF r
<1>4. ASSUME NEW p \in PageNums, NEW v, Stored(q, p, v) PROVE Stored(r, p, v)
  <2>1. HasPage(file, p) /\ file.pages[p + 1] = v
    BY <1>1, <1>4, WrittenKeeps
  <2> QED
    BY <1>3, <1>4, <2>1 DEF Stored, FramesOf, Bytes
<1>5. SameFrames(q, r)
  BY <1>2, <1>3, <1>4 DEF SameFrames
<1> QED
  BY <1>3, <1>5 DEF r, file

LEMMA FlushIs ==
  ASSUME NEW q, WellFormed(q)
  PROVE  SameFrames(q, ForceFlushPool(q))
<1> DEFINE S == ToFlush(q)
<1>1. S \in SUBSET Frames /\ q.dirty \in [Frames -> BOOLEAN]
  BY DEF ToFlush, UnfixedIn, WellFormed, Pool
<1>2. [q EXCEPT !.file = writeBlocks(q, S), !.dirty = q.dirty] = [q EXCEPT !.file = writeBlocks(q, S)]
  BY DEF WellFormed, Pool
<1> HIDE DEF S
<1>3. SameFrames(q, [q EXCEPT !.file = writeBlocks(q, S), !.dirty = q.dirty])
  BY <1>1, WritingIs
<1> QED
  BY <1>2, <1>3 DEF ForceFlushPool, S

(* Forcing a page that is in a frame f stores its bytes. *)
LEMMA ForceIs ==
  ASSUME NEW q, WellFormed(q), q.file.present, NEW p \in PageNums
  PROVE  LET r == ForcePage(q, p) IN
         SameFrames(q, r) /\ \A f \in FramesOf(q, p) : Stored(r, p, Bytes(q, f))
<1> DEFINE S == FramesOf(q, p)
           dirty == [g \in Frames |-> q.dirty[g] /\ ~(q.file.present /\ q.page[g] = p)]
           file == writeBlocks(q, S)
           r == [q EXCEPT !.file = file, !.dirty = dirty]
<1>1. S \in SUBSET Frames /\ dirty \in [Frames -> BOOLEAN]
  BY DEF FramesOf, WellFormed, Pool
<1>2. ForcePage(q, p) = r
  BY DEF ForcePage, WellFormed, Pool
<1> HIDE DEF S, dirty
<1>3. SameFrames(q, r) /\ r.file = file
  BY <1>1, WritingIs
<1>4. Written(q, S, file)
  BY <1>1, WriteBlocksIs
<1> HIDE DEF file, r
<1>5. ASSUME NEW f \in S PROVE Stored(r, p, Bytes(q, f))
  <2>1. q.page[f] = p /\ p # NO_PAGE /\ f \in Frames /\ p \in Nat
    BY PageNumbers DEF FramesOf, S
  <2>2. p < Len(file.pages) /\ file.pages[p + 1] = Bytes(q, f)
    BY <1>4, <2>1 DEF Written
  <2>3. HasPage(r.file, p) /\ r.file.pages[p + 1] = Bytes(q, f)
    BY <1>3, <1>4, <2>2 DEF Written, HasPage
  <2>4. ASSUME NEW g \in FramesOf(r, p) PROVE Bytes(r, g) = Bytes(q, f)
    <3>1. g \in Frames /\ q.page[g] = p
      BY <1>3 DEF SameFrames, FramesOf
    <3>2. q.data[g] = q.data[f]
      BY <2>1, <3>1 DEF WellFormed, Copies
    <3> QED
      BY <1>3, <3>2 DEF SameFrames, Bytes
  <2> QED
    BY <2>3, <2>4 DEF Stored
<1> QED
  BY <1>2, <1>3, <1>5 DEF S

LEMMA SameFramesKeeps ==
  ASSUME NEW q, WellFormed(q), NEW r, SameFrames(q, r)
  PROVE  WellFormed(r)
BY DEF SameFrames, WellFormed, FilledFirst, Backed, Copies

(* Flags, the file and the history change, what the handles see does not. *)
LEMMA SteadyStep ==
  ASSUME IInv, SameFrames(bp, bp'), handle' = handle, shared' = shared,
         pool' \in {"closed", "open", "hung"}, pool' = "closed" <=> pool = "closed",
         saved' \in [PageNums -> Data \cup {Unsaved}],
         ~shared => \A p \in PageNums : saved'[p] # Unsaved => Stored(bp', p, saved'[p])
  PROVE  IInv'
<1>1. WellFormed(bp')
  BY SameFramesKeeps DEF IInv
<1>2. TypeOK'
  BY <1>1 DEF IInv, TypeOK, WellFormed
<1>3. HandlesNamed'
  BY DEF IInv, HandlesNamed, Holds
<1>4. OpenHasFile'
  BY DEF IInv, OpenHasFile, SameFrames
<1>5. OneHolder'
  BY DEF IInv, OneHolder, Holds
<1>6. FrontCount'
  BY DEF IInv, FrontCount, Holds, NoneHeld, SameFrames
<1>7. AloneFindsAFrame'
  BY DEF IInv, AloneFindsAFrame, Holds, FramesOf, SameFrames
<1>8. SavedEverywhere'
  BY DEF SavedEverywhere
<1> QED
  BY <1>1, <1>2, <1>3, <1>4, <1>5, <1>6, <1>7, <1>8 DEF IInv

LEMMA InitInv ==
  Init => IInv
<1> SUFFICES ASSUME Init PROVE IInv
  OBVIOUS
<1>1. NoFile \in File /\ ~NoFile.present
  BY DEF NoFile, File
<1>2. /\ WellFormed(bp) /\ bp.file = NoFile
      /\ \A f \in Frames : bp.fix[f] = 0 /\ bp.page[f] = NO_PAGE
  BY <1>1, EmptyPoolIs DEF Init
<1>3. \A c \in Clients : handle[c] = NoHandle /\ ~Holds(c)
  BY DEF Init, Holds, NoHandle
<1>4. TypeOK
  BY <1>2 DEF Init, TypeOK, WellFormed, NoHandle
<1>5. HandlesNamed /\ OpenHasFile /\ OneHolder /\ AloneFindsAFrame
  BY <1>3 DEF Init, HandlesNamed, OpenHasFile, OneHolder, AloneFindsAFrame
<1>6. FrontCount
  BY <1>2, <1>3, PageNumbers DEF FrontCount
<1>7. SavedEverywhere
  BY DEF Init, SavedEverywhere
<1> QED
  BY <1>2, <1>4, <1>5, <1>6, <1>7 DEF IInv

LEMMA CreateKeepsInv ==
  ASSUME IInv, createPageFile
  PROVE  IInv'
<1>1. NewFile \in File
  BY PageNumbers DEF NewFile, File
<1>2. OtherFile(bp, bp', NewFile)
  BY <1>1, OtherFileIs DEF createPageFile, IInv, WellFormed
<1>3. WellFormed(bp')
  BY <1>2, OtherFileKeeps DEF IInv
<1>4. \A c \in Clients : ~Holds(c)
  BY DEF createPageFile, IInv, HandlesNamed
<1>5. \A c \in Clients : ~Holds(c)'
  BY <1>4 DEF createPageFile, Holds
<1>6. TypeOK'
  BY <1>3 DEF createPageFile, IInv, TypeOK, WellFormed
<1>7. (HandlesNamed /\ OpenHasFile /\ OneHolder /\ AloneFindsAFrame)'
  BY <1>5 DEF createPageFile, HandlesNamed, OpenHasFile, OneHolder, AloneFindsAFrame
<1>8. FrontCount'
  BY <1>2, <1>4, <1>5 DEF createPageFile, IInv, FrontCount, NoneHeld, OtherFile
<1>9. SavedEverywhere'
  BY DEF createPageFile, SavedEverywhere
<1> QED
  BY <1>3, <1>6, <1>7, <1>8, <1>9 DEF IInv

LEMMA OpenKeepsInv ==
  ASSUME IInv, NEW strategy \in Strategies, initBufferPool(strategy)
  PROVE  IInv'
<1>1. bp.file \in File /\ strategy \in {"RS_FIFO", "RS_LRU"} /\ bp.file.present
  BY StrategiesAssumption DEF initBufferPool, IInv, WellFormed, Pool, File
<1>2. /\ WellFormed(bp') /\ bp'.file = bp.file
      /\ \A f \in Frames : bp'.fix[f] = 0 /\ bp'.page[f] = NO_PAGE
  BY <1>1, EmptyPoolIs DEF initBufferPool
<1>3. \A c \in Clients : ~Holds(c)'
  BY DEF initBufferPool, NoneHeld, Holds
<1>4. TypeOK'
  BY <1>2 DEF initBufferPool, IInv, TypeOK, WellFormed
<1>5. (HandlesNamed /\ OpenHasFile /\ OneHolder /\ AloneFindsAFrame)'
  BY <1>1, <1>2, <1>3 DEF HandlesNamed, OpenHasFile, OneHolder, AloneFindsAFrame
<1>6. FrontCount'
  BY <1>2, <1>3, PageNumbers DEF FrontCount
<1>7. SavedEverywhere'
  <2>1. ASSUME NEW p \in PageNums, NEW v, Stored(bp, p, v) PROVE Stored(bp', p, v)
    BY <1>2, <2>1, PageNumbers DEF Stored, FramesOf
  <2> QED
    BY <2>1 DEF initBufferPool, IInv, SavedEverywhere
<1> QED
  BY <1>2, <1>4, <1>5, <1>6, <1>7 DEF IInv

LEMMA PinKeepsInv ==
  ASSUME IInv, EnoughBuffers, NEW c \in Clients, NEW p \in PageNums, pinPage(c, p)
  PROVE  IInv'
<1> DEFINE b == NewBuffer(bp, HeldBuffers)
           d == PinData(bp, p, b)
<1>1. /\ b \in Buffers /\ \A f \in Frames : bp.data[f] # b
  BY BufferIsNew DEF IInv, pinPage
<1>2. PICK junk \in Data : bp' = Pin(bp, p, b, junk)
  BY DEF pinPage
<1>3. handle' = [handle EXCEPT ![c] = [pageNum |-> p, data |-> d]]
  BY DEF pinPage
<1> HIDE DEF b
<1>4. WellFormed(bp) /\ bp.file.present /\ pool = "open"
  BY DEF IInv, OpenHasFile, pinPage
<1>5. /\ WellFormed(bp') /\ bp'.file.present
      /\ \A o \in PageNums : \A v : Stored(bp, o, v) => Stored(bp', o, v)
      /\ d \in Buffers
      /\ bp.fix[0] = 0 =>
           /\ \E f \in FramesOf(bp', p) : bp'.data[f] = d
           /\ bp'.fix[0] = IF bp'.page[0] = p THEN 1 ELSE 0
  BY <1>1, <1>2, <1>4, PinKeeps
<1> HIDE DEF d
<1>6. handle \in [Clients -> [pageNum : PageNums \cup {NO_PAGE}, data : Buffers \cup {NULL}]]
  BY DEF IInv, TypeOK
<1>7. /\ handle'[c].pageNum = p /\ handle'[c].data = d
      /\ \A k \in Clients \ {c} : handle'[k] = handle[k]
      /\ handle' \in [Clients -> [pageNum : PageNums \cup {NO_PAGE}, data : Buffers \cup {NULL}]]
  BY <1>3, <1>5, <1>6
<1>8. /\ shared' = (shared \/ ~NoneHeld) /\ pool' = pool /\ saved' = saved
  BY DEF pinPage
<1>9. TypeOK'
  BY <1>5, <1>7, <1>8 DEF IInv, TypeOK, WellFormed
<1>10. HandlesNamed' /\ OpenHasFile'
  BY <1>4, <1>5, <1>7, <1>8 DEF IInv, HandlesNamed, OpenHasFile, Holds
<1>11. ASSUME ~shared'
       PROVE  /\ ~shared /\ NoneHeld /\ bp.fix[0] = 0
              /\ \A k \in Clients : Holds(k)' => k = c
  <2>1. ~shared /\ NoneHeld
    BY <1>8, <1>11
  <2> QED
    BY <1>7, <2>1 DEF IInv, FrontCount, NoneHeld, Holds
<1>12. OneHolder'
  BY <1>11 DEF OneHolder
<1>13. FrontCount'
  <2> SUFFICES ASSUME ~shared'
               PROVE  /\ NoneHeld' => bp'.fix[0] = 0
                      /\ \A k \in Clients : Holds(k)' =>
                           bp'.fix[0] = IF bp'.page[0] = handle'[k].pageNum THEN 1 ELSE 0
    BY DEF FrontCount
  <2>1. Holds(c)'
    BY <1>5, <1>7, PageNumbers DEF Holds
  <2> QED
    BY <1>5, <1>7, <1>11, <2>1 DEF NoneHeld
<1>14. AloneFindsAFrame'
  <2> SUFFICES ASSUME ~shared', NEW k \in Clients, Holds(k)'
               PROVE  \E f \in FramesOf(bp', handle'[k].pageNum) : bp'.data[f] = handle'[k].data
    BY DEF AloneFindsAFrame
  <2> QED
    BY <1>5, <1>7, <1>11
<1>15. SavedEverywhere'
  <2> SUFFICES ASSUME ~shared', NEW o \in PageNums, saved'[o] # Unsaved
               PROVE  Stored(bp', o, saved'[o])
    BY DEF SavedEverywhere
  <2> QED
    BY <1>5, <1>8, <1>11 DEF IInv, SavedEverywhere
<1> QED
  BY <1>5, <1>9, <1>10, <1>12, <1>13, <1>14, <1>15 DEF IInv

LEMMA WriteKeepsInv ==
  ASSUME IInv, NEW c \in Clients, NEW v \in Data, writeData(c, v)
  PROVE  IInv'
<1> DEFINE b == handle[c].data
           o == handle[c].pageNum
<1>1. b \in Buffers /\ o \in PageNums /\ Holds(c) /\ bp \in Pool
  BY DEF IInv, TypeOK, HandlesNamed, Holds, writeData
<1>2. /\ bp' \in Pool /\ bp'.page = bp.page /\ bp'.data = bp.data /\ bp'.fix = bp.fix
      /\ bp'.file = bp.file /\ bp'.heap = [bp.heap EXCEPT ![b] = v]
  <2>1. bp' = [bp EXCEPT !.heap = [bp.heap EXCEPT ![b] = v]]
    BY <1>1 DEF writeData, Pool
  <2>2. [bp.heap EXCEPT ![b] = v] \in [Buffers -> Data]
    BY <1>1 DEF Pool
  <2> QED
    BY <1>1, <2>1, <2>2 DEF Pool
<1>3. /\ saved' = [saved EXCEPT ![o] = Unsaved]
      /\ pool' = pool /\ handle' = handle /\ shared' = shared
  BY DEF writeData
<1>4. saved' \in [PageNums -> Data \cup {Unsaved}]
      /\ saved'[o] = Unsaved /\ \A p \in PageNums \ {o} : saved'[p] = saved[p]
  BY <1>1, <1>3 DEF IInv, TypeOK
<1>5. WellFormed(bp')
  BY <1>2 DEF IInv, WellFormed, FilledFirst, Backed, Copies
<1>6. TypeOK'
  BY <1>3, <1>4, <1>5 DEF IInv, TypeOK, WellFormed
<1>7. (HandlesNamed /\ OpenHasFile /\ OneHolder)'
  BY <1>2, <1>3 DEF IInv, HandlesNamed, OpenHasFile, OneHolder, Holds
<1>8. FrontCount'
  BY <1>2, <1>3 DEF IInv, FrontCount, NoneHeld, Holds
<1>9. AloneFindsAFrame'
  BY <1>2, <1>3 DEF IInv, AloneFindsAFrame, Holds, FramesOf
<1>10. SavedEverywhere'
  <2> SUFFICES ASSUME ~shared', NEW p \in PageNums, saved'[p] # Unsaved
               PROVE  Stored(bp', p, saved'[p])
    BY DEF SavedEverywhere
  <2>1. p # o /\ saved'[p] = saved[p] /\ Stored(bp, p, saved[p])
    BY <1>3, <1>4 DEF IInv, SavedEverywhere
  <2>2. PICK f \in FramesOf(bp, o) : bp.data[f] = b
    BY <1>1, <1>3 DEF IInv, AloneFindsAFrame
  <2> HIDE DEF b, o
  <2>3. ASSUME NEW g \in FramesOf(bp, p) PROVE Bytes(bp', g) = Bytes(bp, g)
    <3>1. f \in Frames /\ g \in Frames /\ bp.page[f] = o /\ bp.page[g] = p /\ o # NO_PAGE /\ p # NO_PAGE
      BY <1>1, <2>2, <2>3, PageNumbers DEF FramesOf
    <3>2. bp.data[g] # b /\ bp.data[g] \in Buffers
      BY <1>1, <2>1, <2>2, <3>1 DEF IInv, WellFormed, Copies, Backed, Pool
    <3> QED
      BY <1>1, <1>2, <3>2 DEF Bytes, Pool
  <2> QED
    BY <1>2, <2>1, <2>3 DEF Stored, FramesOf
<1> QED
  BY <1>5, <1>6, <1>7, <1>8, <1>9, <1>10 DEF IInv

LEMMA MarkKeepsInv ==
  ASSUME IInv, NEW c \in Clients, markDirty(c)
  PROVE  IInv'
<1>1. SameFrames(bp, bp')
  BY MarkDirtyIs DEF IInv, markDirty
<1>2. /\ handle' = handle /\ shared' = shared /\ pool' = pool /\ saved' = saved
      /\ pool \in {"closed", "open", "hung"} /\ saved \in [PageNums -> Data \cup {Unsaved}]
  BY DEF IInv, TypeOK, markDirty
<1>3. ~shared => \A p \in PageNums : saved'[p] # Unsaved => Stored(bp', p, saved'[p])
  BY <1>1, <1>2 DEF IInv, SavedEverywhere, SameFrames
<1> QED
  BY <1>1, <1>2, <1>3, SteadyStep

(* forceFlushPool and shutdownBufferPool. *)
LEMMA FlushKeepsInv ==
  ASSUME IInv, forceFlushPool \/ shutdownBufferPool
  PROVE  IInv'
<1>1. SameFrames(bp, bp')
  BY FlushIs DEF IInv, forceFlushPool, shutdownBufferPool
<1>2. /\ handle' = handle /\ shared' = shared /\ saved' = saved
      /\ saved \in [PageNums -> Data \cup {Unsaved}]
      /\ pool = "open" /\ pool' \in {"open", "hung"}
  BY DEF IInv, TypeOK, forceFlushPool, shutdownBufferPool
<1>3. ~shared => \A p \in PageNums : saved'[p] # Unsaved => Stored(bp', p, saved'[p])
  BY <1>1, <1>2 DEF IInv, SavedEverywhere, SameFrames
<1> QED
  BY <1>1, <1>2, <1>3, SteadyStep

LEMMA ForceKeepsInv ==
  ASSUME IInv, NEW c \in Clients, forcePage(c)
  PROVE  IInv'
<1> DEFINE b == handle[c].data
           o == handle[c].pageNum
           S == FramesOf(bp, o)
<1>1. b \in Buffers /\ o \in PageNums /\ Holds(c) /\ WellFormed(bp) /\ bp.file.present
  BY DEF IInv, TypeOK, HandlesNamed, OpenHasFile, Holds, forcePage
<1>2. bp' = ForcePage(bp, o) /\ saved' = [saved EXCEPT ![o] = bp.heap[b]]
      /\ handle' = handle /\ shared' = shared /\ pool' = pool
  BY DEF forcePage
<1>3. bp.heap[b] \in Data /\ saved \in [PageNums -> Data \cup {Unsaved}]
      /\ pool \in {"closed", "open", "hung"}
  BY <1>1 DEF IInv, TypeOK, WellFormed, Pool
<1> HIDE DEF b, o
<1>4. saved' \in [PageNums -> Data \cup {Unsaved}]
      /\ saved'[o] = bp.heap[b] /\ \A p \in PageNums \ {o} : saved'[p] = saved[p]
  BY <1>1, <1>2, <1>3
<1>5. SameFrames(bp, bp')
  BY <1>1, <1>2, ForceIs
<1>6. ~shared => \A p \in PageNums : saved'[p] # Unsaved => Stored(bp', p, saved'[p])
  <2> SUFFICES ASSUME ~shared, NEW p \in PageNums, saved'[p] # Unsaved
               PROVE  Stored(bp', p, saved'[p])
    OBVIOUS
  <2>1. CASE p = o
    <3>1. PICK f \in FramesOf(bp, o) : bp.data[f] = b
      BY <1>1 DEF IInv, AloneFindsAFrame, b, o
    <3>2. Stored(bp', o, Bytes(bp, f))
      BY <1>1, <1>2, <3>1, ForceIs
    <3> QED
      BY <1>4, <2>1, <3>1, <3>2 DEF Bytes
  <2>2. CASE p # o
    BY <1>4, <1>5, <2>2 DEF IInv, SavedEverywhere, SameFrames
  <2> QED
    BY <2>1, <2>2
<1> QED
  BY <1>2, <1>3, <1>4, <1>5, <1>6, SteadyStep

LEMMA UnpinKeepsInv ==
  ASSUME IInv, NEW c \in Clients, unpinPage(c)
  PROVE  IInv'
<1> DEFINE o == handle[c].pageNum
           fix == [f \in Frames |-> IF bp.page[f] = o THEN bp.fix[f] - 1 ELSE bp.fix[f]]
<1>1. o \in PageNums /\ Holds(c) /\ bp \in Pool
  BY DEF IInv, TypeOK, HandlesNamed, unpinPage
<1>2. /\ handle' = [handle EXCEPT ![c] = NoHandle]
      /\ shared' = shared /\ pool' = pool /\ saved' = saved
  BY DEF unpinPage
<1>3. /\ bp' \in Pool /\ bp'.page = bp.page /\ bp'.data = bp.data /\ bp'.heap = bp.heap
      /\ bp'.file = bp.file /\ bp'.fix = fix
  <2>1. bp' = [bp EXCEPT !.fix = fix]
    BY <1>1 DEF unpinPage, Unpin, Pool
  <2>2. fix \in [Frames -> Int]
    BY <1>1 DEF Pool
  <2> HIDE DEF fix
  <2> QED
    BY <1>1, <2>1, <2>2 DEF Pool
<1>4. handle \in [Clients -> [pageNum : PageNums \cup {NO_PAGE}, data : Buffers \cup {NULL}]]
  BY DEF IInv, TypeOK
<1>5. /\ handle'[c].data = NULL
      /\ \A k \in Clients \ {c} : handle'[k] = handle[k]
      /\ handle' \in [Clients -> [pageNum : PageNums \cup {NO_PAGE}, data : Buffers \cup {NULL}]]
  BY <1>2, <1>4 DEF NoHandle
<1>6. \A k \in Clients : Holds(k)' => k # c /\ Holds(k) /\ handle'[k] = handle[k]
  BY <1>5 DEF Holds
<1>7. WellFormed(bp')
  BY <1>3 DEF IInv, WellFormed, FilledFirst, Backed, Copies
<1>8. TypeOK'
  BY <1>2, <1>5, <1>7 DEF IInv, TypeOK, WellFormed
<1>9. (HandlesNamed /\ OpenHasFile /\ OneHolder)'
  BY <1>2, <1>3, <1>6 DEF IInv, HandlesNamed, OpenHasFile, OneHolder
<1>10. ~shared => \A k \in Clients : ~Holds(k)'
  BY <1>1, <1>6 DEF IInv, OneHolder
<1>11. FrontCount'
  <2> SUFFICES ASSUME ~shared PROVE bp'.fix[0] = 0
    BY <1>2, <1>10 DEF FrontCount
  <2>1. bp.fix[0] = IF bp.page[0] = o THEN 1 ELSE 0
    BY <1>1 DEF IInv, FrontCount
  <2>2. fix[0] = IF bp.page[0] = o THEN bp.fix[0] - 1 ELSE bp.fix[0]
    BY PageNumbers
  <2> QED
    BY <1>3, <2>1, <2>2
<1>12. AloneFindsAFrame'
  BY <1>2, <1>10 DEF AloneFindsAFrame
<1>13. SavedEverywhere'
  BY <1>2, <1>3 DEF IInv, SavedEverywhere, Stored, FramesOf, Bytes
<1> QED
  BY <1>7, <1>8, <1>9, <1>11, <1>12, <1>13 DEF IInv

LEMMA StepKeepsInv ==
  ASSUME EnoughBuffers, IInv, [Next]_vars
  PROVE  IInv'
<1>1. CASE createPageFile
  BY <1>1, CreateKeepsInv
<1>2. ASSUME NEW strategy \in Strategies, initBufferPool(strategy) PROVE IInv'
  BY <1>2, OpenKeepsInv
<1>3. ASSUME NEW c \in Clients, NEW p \in PageNums, pinPage(c, p) PROVE IInv'
  BY <1>3, PinKeepsInv
<1>4. ASSUME NEW c \in Clients, NEW d \in Data, writeData(c, d) PROVE IInv'
  BY <1>4, WriteKeepsInv
<1>5. ASSUME NEW c \in Clients, markDirty(c) PROVE IInv'
  BY <1>5, MarkKeepsInv
<1>6. ASSUME NEW c \in Clients, forcePage(c) PROVE IInv'
  BY <1>6, ForceKeepsInv
<1>7. ASSUME NEW c \in Clients, unpinPage(c) PROVE IInv'
  BY <1>7, UnpinKeepsInv
<1>8. CASE forceFlushPool \/ shutdownBufferPool
  BY <1>8, FlushKeepsInv
<1>9. CASE UNCHANGED vars
  <2>1. pool' = pool /\ bp' = bp /\ handle' = handle /\ saved' = saved /\ shared' = shared
    BY <1>9 DEF vars
  <2>2. SameFrames(bp, bp')
    BY <2>1 DEF IInv, WellFormed, SameFrames
  <2> QED
    BY <2>1, <2>2, SteadyStep DEF IInv, TypeOK, SavedEverywhere
<1> QED
  BY <1>1, <1>2, <1>3, <1>4, <1>5, <1>6, <1>7, <1>8, <1>9 DEF Next

LEMMA Invariance ==
  ASSUME EnoughBuffers
  PROVE  Spec => []IInv
<1>1. IInv /\ [Next]_vars => IInv'
  BY StepKeepsInv
<1> QED
  BY <1>1, InitInv, PTL DEF Spec

-----------------------------------------------------------------------------
(* Every client's handle names a page and a buffer of the pool, and every frame too. *)
THEOREM TypesCorrect ==
  ASSUME EnoughBuffers
  PROVE  Spec => []TypeOK
<1>1. IInv => TypeOK
  BY DEF IInv
<1> QED
  BY <1>1, Invariance, PTL

(* The frames that FIFO filled with one page share a buffer, and no others do,
   whatever the clients do with their handles. *)
THEOREM CopiesStayOne ==
  ASSUME EnoughBuffers
  PROVE  Spec => []CopiesShareBytes
<1>1. IInv => CopiesShareBytes
  BY DEF IInv, WellFormed, Copies, CopiesShareBytes
<1> QED
  BY <1>1, Invariance, PTL

(* pinPage gives a client that is alone a frame, because the count of frame 0 is right. *)
THEOREM AloneServed ==
  ASSUME EnoughBuffers
  PROVE  Spec => []AloneFindsAFrame
<1>1. IInv => AloneFindsAFrame
  BY DEF IInv
<1> QED
  BY <1>1, Invariance, PTL

(* While clients take turns neither a replacement nor a flush loses what one of them
   forced: it is in the file and in every frame of its page, and so it is what the next
   pinPage delivers. *)
THEOREM ForcedPagesSurvive ==
  ASSUME EnoughBuffers
  PROVE  Spec => [](ForcedIsKept /\ SavedEverywhere)
<1>1. IInv => ForcedIsKept /\ SavedEverywhere
  <2> SUFFICES ASSUME IInv, ~shared, NEW p \in PageNums, saved[p] # Unsaved
               PROVE  Delivered(p) = saved[p]
    BY DEF ForcedIsKept, IInv
  <2>1. Stored(bp, p, saved[p])
    BY DEF IInv, SavedEverywhere
  <2>2. FramesOf(bp, p) # {} => Min(FramesOf(bp, p)) \in FramesOf(bp, p)
    <3>1. FramesOf(bp, p) \in SUBSET Nat
      BY PageNumbers DEF FramesOf
    <3> QED
      BY <3>1, MinIs
  <2> QED
    BY <2>1, <2>2 DEF Stored, Delivered
<1> QED
  BY <1>1, Invariance, PTL
=============================================================================

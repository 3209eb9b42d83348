------------------------ MODULE BufferPoolFIFOProofs ------------------------
(***************************************************************************)
(* Theorems about BufferPoolFIFO, for any number of frames, of clients and *)
(* of pages, of clients that keep to the rules of CarefulClients.          *)
(***************************************************************************)
EXTENDS BufferPoolFIFO, Sequences, FiniteSetTheorems, SequenceTheorems, TLAPS

(* NULL is no frame, and NO_PAGE is no page a careful client asks for. *)
LEMMA Sentinels ==
  ASSUME CarefulClients
  PROVE  /\ Frames \in SUBSET Int /\ NULL \notin Frames
         /\ PageNums \subseteq Nat /\ NO_PAGE \notin PageNums /\ FilePages = PageNums
         /\ Places \in SUBSET Nat
<1>1. Frames \in SUBSET Int /\ NULL \notin Frames
  BY FramesAssumption DEF Frames, NULL
<1>2. PageNums \subseteq Nat /\ NO_PAGE \notin PageNums /\ FilePages = PageNums
  <2>1. PageNums \subseteq Nat
    BY DEF CarefulClients
  <2>2. NO_PAGE \notin Nat
    BY DEF NO_PAGE
  <2> QED
    BY <2>1, <2>2 DEF FilePages
<1>3. Places \in SUBSET Nat
  BY FramesAssumption DEF Places
<1> QED
  BY <1>1, <1>2, <1>3

-----------------------------------------------------------------------------
(* The clients that hold a frame. *)

(* The holders of a frame can be counted. *)
LEMMA HoldersFinite ==
  ASSUME CarefulClients, NEW f
  PROVE  IsFiniteSet(Holders(f)) /\ Cardinality(Holders(f)) \in Nat
<1>1. Holders(f) \in SUBSET Clients
  BY DEF Holders
<1> QED
  BY <1>1, FS_Subset, FS_CardinalityType DEF CarefulClients

(* Nobody holds a frame whose fix count is 0. *)
LEMMA UnfixedUnheld ==
  ASSUME CarefulClients, PinAccounting, NEW f \in Unfixed
  PROVE  Holders(f) = {}
BY HoldersFinite, FS_EmptySet DEF PinAccounting, Unfixed

(* Nobody holds an empty frame. *)
LEMMA EmptyUnheld ==
  ASSUME CarefulClients, HandlesShaped, HandlesValid, NEW f \in Frames, pageNum[f] = NO_PAGE
  PROVE  Holders(f) = {}
BY Sentinels DEF HandlesShaped, HandlesValid, Holders, Pinned

(* Pinning a page adds one holder to its frame. *)
LEMMA HolderAdded ==
  ASSUME CarefulClients, TypeOK, NEW c \in Clients, ~Pinned(c),
         NEW f \in Frames, NEW p, SetHandle(c, p, f)
  PROVE  \A g \in Frames : Cardinality(Holders(g)') =
            Cardinality(Holders(g)) + (IF g = f THEN 1 ELSE 0)
<1> SUFFICES ASSUME NEW g \in Frames
             PROVE  Cardinality(Holders(g)') =
                       Cardinality(Holders(g)) + (IF g = f THEN 1 ELSE 0)
  OBVIOUS
<1>1. c \notin Holders(g)
  BY Sentinels DEF Holders, Pinned
<1>2. CASE g = f
  <2>1. Holders(g)' = Holders(g) \cup {c}
    BY <1>2 DEF Holders, SetHandle, TypeOK
  <2> QED
    BY <1>1, <1>2, <2>1, HoldersFinite, FS_AddElement
<1>3. CASE g # f
  <2>1. Holders(g)' = Holders(g)
    BY <1>1, <1>3 DEF Holders, SetHandle, TypeOK
  <2> QED
    BY <1>3, <2>1, HoldersFinite
<1> QED
  BY <1>2, <1>3

(* Clearing a handle takes one holder from its frame. *)
LEMMA HolderDropped ==
  ASSUME CarefulClients, TypeOK, NEW c \in Clients, NEW f \in Frames, handle[c].data = f,
         handle' = [handle EXCEPT ![c] = NoHandle]
  PROVE  \A g \in Frames : Cardinality(Holders(g)') =
            Cardinality(Holders(g)) - (IF g = f THEN 1 ELSE 0)
<1> SUFFICES ASSUME NEW g \in Frames
             PROVE  Cardinality(Holders(g)') =
                       Cardinality(Holders(g)) - (IF g = f THEN 1 ELSE 0)
  OBVIOUS
<1>1. Holders(g)' = Holders(g) \ {c}
  BY Sentinels DEF Holders, NoHandle, TypeOK
<1>2. c \in Holders(g) <=> g = f
  BY DEF Holders
<1>3. Cardinality(Holders(g) \ {c}) =
        IF c \in Holders(g) THEN Cardinality(Holders(g)) - 1 ELSE Cardinality(Holders(g))
  BY HoldersFinite, FS_RemoveElement
<1> QED
  BY <1>1, <1>2, <1>3, HoldersFinite

-----------------------------------------------------------------------------
(* The file after the frames of S were written. *)
LEMMA FileWritten ==
  ASSUME CarefulClients, TypeOK, OneFramePerPage, NEW S \in SUBSET Frames,
         disk' = writeBlocks(S), IsSizeAfter(total', S)
  PROVE  /\ disk' \in [FilePages -> Data]
         /\ total' \in Nat /\ total <= total'
         /\ \A p \in FilePages : (\A f \in S : pageNum[f] # p) => disk'[p] = disk[p]
         /\ \A f \in S : pageNum[f] # NO_PAGE =>
               /\ disk'[pageNum[f]] = content[f]
               /\ pageNum[f] < total'
<1>1. disk' \in [FilePages -> Data]
  BY DEF writeBlocks, TypeOK
<1>2. total' \in Nat /\ total <= total'
  <2>1. \A f \in S : pageNum[f] \in Int
    BY Sentinels DEF TypeOK, NO_PAGE
  <2>2. total \in Nat /\ total \in SizesAfter(S)
    BY DEF SizesAfter, TypeOK
  <2>3. ASSUME NEW m \in SizesAfter(S)
        PROVE  m \in Nat
    <3>1. m = total \/ \E f \in S : pageNum[f] >= 0 /\ m = pageNum[f] + 1
      BY DEF SizesAfter
    <3> QED
      BY <2>1, <2>2, <3>1
  <2> QED
    BY <2>2, <2>3 DEF IsSizeAfter
<1>3. ASSUME NEW p \in FilePages, \A f \in S : pageNum[f] # p
      PROVE  disk'[p] = disk[p]
  BY <1>3 DEF writeBlocks
<1>4. ASSUME NEW f \in S, pageNum[f] # NO_PAGE
      PROVE  disk'[pageNum[f]] = content[f] /\ pageNum[f] < total'
  <2>1. pageNum[f] \in FilePages /\ pageNum[f] \in Nat
    BY <1>4, Sentinels DEF TypeOK
  <2>2. \A g \in S : pageNum[g] = pageNum[f] => g = f
    BY <1>4 DEF OneFramePerPage
  <2>3. (CHOOSE g \in S : pageNum[g] = pageNum[f]) = f
    BY <2>2
  <2>4. disk'[pageNum[f]] = content[f]
    BY <2>1, <2>3 DEF writeBlocks
  <2>5. pageNum[f] + 1 \in SizesAfter(S)
    BY <2>1 DEF SizesAfter
  <2>6. pageNum[f] + 1 <= total'
    BY <2>5 DEF IsSizeAfter
  <2> QED
    BY <1>2, <2>1, <2>4, <2>6
<1> QED
  BY <1>1, <1>2, <1>3, <1>4

(* A page inside the file is read, whatever the buffer held. *)
LEMMA ReadInside ==
  ASSUME NEW d, NEW n \in Nat, NEW p \in Nat, p < n, NEW b
  PROVE  readBlock(d, n, p, b) = d[p]
BY DEF readBlock

(* Moving a node to the end of the list keeps the list complete. *)
LEMMA MovedToEnd ==
  ASSUME order \in [Places -> Frames], ListComplete, NEW k \in Places, order' = MoveToEnd(k)
  PROVE  /\ order' \in [Places -> Frames]
         /\ ListComplete'
<1> USE FramesAssumption DEF Places
<1>1. order' \in [Places -> Frames]
  BY DEF MoveToEnd
<1>2. ASSUME NEW f \in Frames
      PROVE  \E i \in Places : order'[i] = f
  <2>1. PICK j \in Places : order[j] = f
    BY DEF ListComplete
  <2>2. CASE j < k
    BY <2>1, <2>2 DEF MoveToEnd
  <2>3. CASE j = k
    <3>1. order'[NumFrames] = f
      BY <2>1, <2>3 DEF MoveToEnd
    <3> QED
      BY <3>1
  <2>4. CASE j > k
    <3>1. j - 1 \in Places /\ order'[j - 1] = f
      BY <2>1, <2>4 DEF MoveToEnd
    <3> QED
      BY <3>1
  <2> QED
    BY <2>2, <2>3, <2>4
<1>3. ASSUME NEW i \in Places, NEW j \in Places, order'[i] = order'[j]
      PROVE  i = j
  BY <1>3 DEF MoveToEnd, ListComplete
<1> QED
  BY <1>1, <1>2, <1>3 DEF ListComplete

(* The first empty frame of the list is the one behind those that are filled. *)
LEMMA FirstEmpty ==
  ASSUME order \in [Places -> Frames], filled \in 0 .. NumFrames, FilledFirst,
         NEW k \in Places, FirstIn(k, Holding(NO_PAGE))
  PROVE  k = filled + 1
<1>1. ~(k <= filled)
  BY DEF FilledFirst, FirstIn, Holding
<1>2. ASSUME NEW j \in Places, j < k PROVE j <= filled
  <2>1. order[j] \in Frames /\ order[j] \notin Holding(NO_PAGE)
    BY <1>2, FramesAssumption DEF FirstIn, Places
  <2> QED
    BY <2>1 DEF Holding, FilledFirst
<1>3. k \in Nat /\ k >= 1 /\ filled \in Nat
  BY FramesAssumption DEF Places
<1>4. CASE k = 1
  BY <1>1, <1>3, <1>4
<1>5. CASE k # 1
  <2>1. k - 1 \in Places /\ k - 1 < k
    BY <1>5, FramesAssumption DEF Places
  <2>2. k - 1 <= filled
    BY <1>2, <2>1
  <2> QED
    BY <1>1, <1>3, <2>2
<1> QED
  BY <1>4, <1>5

(* Filling it keeps the filled frames first. *)
LEMMA FilledGrows ==
  ASSUME order \in [Places -> Frames], filled \in 0 .. NumFrames, ListComplete, FilledFirst,
         pageNum \in [Frames -> PageNums \cup {NO_PAGE}],
         NEW k \in Places, k = filled + 1, NEW p, p # NO_PAGE,
         pageNum' = [pageNum EXCEPT ![order[k]] = p],
         filled' = filled + 1, order' = order
  PROVE  FilledFirst'
<1>1. ASSUME NEW i \in Places
      PROVE  (i <= filled') <=> (pageNum'[order'[i]] # NO_PAGE)
  <2>1. CASE i = k
    BY <2>1, FramesAssumption DEF Places
  <2>2. CASE i # k
    <3>1. order[i] # order[k] /\ order[i] \in Frames
      BY <2>2 DEF ListComplete
    <3>2. (i <= filled') <=> (i <= filled)
      BY <2>2, FramesAssumption DEF Places
    <3> QED
      BY <3>1, <3>2 DEF FilledFirst
  <2> QED
    BY <2>1, <2>2
<1> QED
  BY <1>1 DEF FilledFirst

-----------------------------------------------------------------------------
(* What pinning a page with a cleared handle does not disturb: the debts of
   the frames whose dirty flag stays. *)
LEMMA DebtsKept ==
  ASSUME CarefulClients, TypeOK, NEW c \in Clients, ~Pinned(c), NEW f, NEW p,
         SetHandle(c, p, f), NEW g \in Frames, dirty'[g] = dirty[g], OwesWrite(g)
  PROVE  OwesWrite(g)'
<1>1. ASSUME NEW o \in Holders(g) PROVE handle'[o] = handle[o] /\ o \in Holders(g)'
  <2>1. o # c
    BY Sentinels DEF Holders, Pinned
  <2> QED
    BY <2>1 DEF Holders, SetHandle, TypeOK
<1> QED
  BY <1>1 DEF OwesWrite

(* The handle that SetHandle sets, and the ones it leaves. *)
LEMMA PinnedHandles ==
  ASSUME CarefulClients, TypeOK, HandlesShaped, NEW c \in Clients,
         NEW f \in Frames, NEW p \in PageNums, SetHandle(c, p, f),
         pool = "open", pool' = "open"
  PROVE  /\ handle' \in [Clients -> [pageNum : PageNums \cup {NO_PAGE},
                                     data : Frames \cup {NULL},
                                     unmarked : BOOLEAN]]
         /\ HandlesShaped'
<1>1. handle' \in [Clients -> [pageNum : PageNums \cup {NO_PAGE},
                               data : Frames \cup {NULL},
                               unmarked : BOOLEAN]]
  BY DEF SetHandle, TypeOK
<1>2. ASSUME NEW o \in Clients
      PROVE  IF Pinned(o)' THEN pool' # "closed" /\ handle'[o].pageNum \in PageNums
             ELSE handle'[o] = NoHandle
  <2>1. CASE o = c
    BY <2>1, Sentinels DEF SetHandle, Pinned, TypeOK
  <2>2. CASE o # c
    BY <2>2 DEF SetHandle, HandlesShaped, Pinned, TypeOK
  <2> QED
    BY <2>1, <2>2
<1> QED
  BY <1>1, <1>2 DEF HandlesShaped, NoHandle

(* One action of FIFOpin at a time: the page is in the pool. *)
LEMMA PinHitKeepsInv ==
  ASSUME CarefulClients, Inv, pool = "open", NEW c \in Clients, NEW p \in PageNums,
         ~Pinned(c), PinHit(c, p)
  PROVE  Inv'
<1> USE DEF Inv
<1>1. PICK k \in Places :
        /\ FirstIn(k, Holding(p))
        /\ fixCount' = [fixCount EXCEPT ![order[k]] = @ + 1]
        /\ SetHandle(c, p, order[k])
        /\ UNCHANGED <<pool, order, pageNum, dirty, content, filled, fileVars, stored>>
  BY DEF PinHit
<1> DEFINE f == order[k]
<1>2. f \in Frames /\ pageNum[f] = p
  BY <1>1 DEF TypeOK, FirstIn, Holding
<1>3. TypeOK'
  <2>1. fixCount' \in [Frames -> Int]
    BY <1>1, <1>2 DEF TypeOK
  <2> QED
    BY <1>1, <1>2, <2>1, PinnedHandles DEF TypeOK, fileVars
<1>4. ListComplete' /\ OneFramePerPage' /\ FilledFirst' /\ ClosedIsEmpty'
  BY <1>1 DEF ListComplete, OneFramePerPage, FilledFirst, ClosedIsEmpty
<1>5. HandlesShaped'
  BY <1>1, <1>2, PinnedHandles
<1>6. HandlesValid'
  BY <1>1, <1>2 DEF HandlesValid, SetHandle, Pinned, TypeOK
<1>7. PinAccounting'
  <2>1. \A g \in Frames : Cardinality(Holders(g)') =
            Cardinality(Holders(g)) + (IF g = f THEN 1 ELSE 0)
    BY <1>1, <1>2, HolderAdded
  <2> QED
    BY <1>1, <1>2, <2>1 DEF PinAccounting, TypeOK
<1>8. NothingLost'
  <2>1. \A g \in Frames : OwesWrite(g) => OwesWrite(g)'
    BY <1>1, DebtsKept
  <2>2. \A q : Holding(q)' = Holding(q) /\ Holding(q) \subseteq Frames
    BY <1>1 DEF Holding
  <2> QED
    BY <1>1, <2>1, <2>2 DEF NothingLost, fileVars
<1> QED
  BY <1>3, <1>4, <1>5, <1>6, <1>7, <1>8

(* Pinning a page in a frame nobody held, with a fix count of 1. *)
LEMMA FreshPinCounted ==
  ASSUME CarefulClients, TypeOK, PinAccounting, NEW c \in Clients, ~Pinned(c),
         NEW f \in Frames, NEW p, SetHandle(c, p, f), Holders(f) = {},
         fixCount' = [fixCount EXCEPT ![f] = 1]
  PROVE  PinAccounting'
<1>1. \A g \in Frames : Cardinality(Holders(g)') =
          Cardinality(Holders(g)) + (IF g = f THEN 1 ELSE 0)
  BY HolderAdded
<1>2. Cardinality(Holders(f)) = 0
  BY FS_EmptySet
<1>3. ASSUME NEW g \in Frames
      PROVE  fixCount'[g] = Cardinality(Holders(g)')
  <2>1. CASE g = f
    <3>1. Cardinality(Holders(g)) = 0
      BY <1>2, <2>1
    <3>2. Cardinality(Holders(g)') = 1
      BY <1>1, <2>1, <3>1
    <3>3. fixCount'[g] = 1
      BY <2>1 DEF TypeOK
    <3> QED
      BY <3>2, <3>3
  <2>2. CASE g # f
    BY <1>1, <2>2, HoldersFinite DEF PinAccounting, TypeOK
  <2> QED
    BY <2>1, <2>2
<1> QED
  BY <1>3 DEF PinAccounting

(* The other handles stay valid when a page enters a frame nobody held. *)
LEMMA FreshPinValid ==
  ASSUME CarefulClients, TypeOK, HandlesValid, NEW c \in Clients, NEW f \in Frames,
         NEW p \in PageNums, SetHandle(c, p, f), Holders(f) = {},
         pageNum' = [pageNum EXCEPT ![f] = p]
  PROVE  HandlesValid'
<1>1. ASSUME NEW o \in Clients, o # c, Pinned(o)'
      PROVE  pageNum'[handle'[o].data] = handle'[o].pageNum
  <2>1. handle'[o] = handle[o] /\ Pinned(o)
    BY <1>1 DEF SetHandle, TypeOK, Pinned
  <2>2. handle[o].data # f /\ handle[o].data \in Frames
    BY <2>1 DEF Holders, TypeOK, Pinned
  <2> QED
    BY <2>1, <2>2 DEF HandlesValid, TypeOK
<1>2. pageNum'[handle'[c].data] = handle'[c].pageNum
  BY DEF SetHandle, TypeOK
<1> QED
  BY <1>1, <1>2 DEF HandlesValid

(* The page goes to an empty frame. *)
LEMMA PinEmptyKeepsInv ==
  ASSUME CarefulClients, Inv, pool = "open", NEW c \in Clients, NEW p \in PageNums,
         ~Pinned(c), PinEmpty(c, p)
  PROVE  Inv'
<1> USE DEF Inv
<1>1. PICK k \in Places, f \in Frames :
        /\ f = order[k]
        /\ FirstIn(k, Holding(NO_PAGE))
        /\ fixCount' = [fixCount EXCEPT ![f] = 1]
        /\ dirty' = [dirty EXCEPT ![f] = FALSE]
        /\ pageNum' = [pageNum EXCEPT ![f] = p]
        /\ content' = [content EXCEPT ![f] = readBlock(disk, total, p, @)]
        /\ SetHandle(c, p, f)
  BY DEF PinEmpty, TypeOK
<1>2. /\ Holding(p) = {}
      /\ filled < NumFrames /\ filled' = filled + 1
      /\ UNCHANGED <<pool, order, present, disk, total, stored>>
  BY DEF PinEmpty, fileVars
<1>3. f \in Frames /\ pageNum[f] = NO_PAGE /\ Holders(f) = {}
  BY <1>1, EmptyUnheld DEF TypeOK, FirstIn, Holding
<1>4. TypeOK'
  <2>1. content' \in [Frames -> Data]
    BY <1>1, <1>3, Sentinels DEF TypeOK, readBlock
  <2>2. filled' \in 0 .. NumFrames
    BY <1>2, FramesAssumption DEF TypeOK
  <2>3. fixCount' \in [Frames -> Int] /\ dirty' \in [Frames -> BOOLEAN]
        /\ pageNum' \in [Frames -> PageNums \cup {NO_PAGE}]
    BY <1>1, <1>3 DEF TypeOK
  <2> QED
    BY <1>1, <1>2, <1>3, <2>1, <2>2, <2>3, PinnedHandles DEF TypeOK
<1>5. ListComplete' /\ ClosedIsEmpty'
  BY <1>2 DEF ListComplete, ClosedIsEmpty
<1>6. OneFramePerPage'
  BY <1>1, <1>2, <1>3 DEF OneFramePerPage, Holding, TypeOK
<1>7. HandlesShaped'
  BY <1>1, <1>2, <1>3, PinnedHandles
<1>8. HandlesValid'
  BY <1>1, <1>3, FreshPinValid
<1>9. PinAccounting'
  BY <1>1, <1>3, FreshPinCounted
<1>10. FilledFirst'
  <2>1. k = filled + 1
    BY <1>1, FirstEmpty DEF TypeOK
  <2>2. p # NO_PAGE
    BY Sentinels
  <2> QED
    BY <1>1, <1>2, <2>1, <2>2, FilledGrows DEF TypeOK
<1>11. NothingLost'
  <2> SUFFICES ASSUME NEW q \in stored
               PROVE  \/ \E g \in Holding(q)' : OwesWrite(g)'
                      \/ q < total /\ \A g \in Holding(q)' : content'[g] = disk[q]
    BY <1>2 DEF NothingLost
  <2>1. CASE q = p
    <3>1. q < total /\ q \in Nat
      BY <1>2, <2>1, Sentinels DEF NothingLost, Holding
    <3>2. Holding(q)' = {f}
      BY <1>1, <1>2, <1>3, <2>1 DEF Holding, TypeOK
    <3>3. content'[f] = readBlock(disk, total, p, content[f])
      BY <1>1, <1>3 DEF TypeOK
    <3>4. content'[f] = disk[q]
      BY <2>1, <3>1, <3>3 DEF readBlock, TypeOK
    <3> QED
      BY <3>1, <3>2, <3>4
  <2>2. CASE q # p
    <3>1. Holding(q)' = Holding(q) /\ f \notin Holding(q) /\ Holding(q) \subseteq Frames
      BY <1>1, <1>3, <2>2, Sentinels DEF Holding, TypeOK
    <3>2. \A g \in Holding(q) : OwesWrite(g) => OwesWrite(g)'
      BY <1>1, <1>3, <3>1, DebtsKept DEF TypeOK
    <3>3. \A g \in Holding(q) : content'[g] = content[g]
      BY <1>1, <3>1 DEF TypeOK
    <3> QED
      BY <3>1, <3>2, <3>3 DEF NothingLost
  <2> QED
    BY <2>1, <2>2
<1> QED
  BY <1>4, <1>5, <1>6, <1>7, <1>8, <1>9, <1>10, <1>11

(* The page replaces the first unfixed frame, which is written if it owes a write. *)
LEMMA PinReplaceKeepsInv ==
  ASSUME CarefulClients, Inv, pool = "open", NEW c \in Clients, NEW p \in PageNums,
         ~Pinned(c), PinReplace(c, p)
  PROVE  Inv'
<1> USE DEF Inv
<1>1. PICK k \in Places, f \in Frames :
        /\ f = order[k]
        /\ FirstIn(k, Unfixed)
        /\ disk' = writeBlocks({f} \cap ToFlush)
        /\ IsSizeAfter(total', {f} \cap ToFlush)
        /\ order' = MoveToEnd(k)
        /\ fixCount' = [fixCount EXCEPT ![f] = 1]
        /\ dirty' = [dirty EXCEPT ![f] = FALSE]
        /\ pageNum' = [pageNum EXCEPT ![f] = p]
        /\ content' = [content EXCEPT ![f] = readBlock(disk', total', p, @)]
        /\ SetHandle(c, p, f)
  BY DEF PinReplace, TypeOK
<1>2. /\ Holding(p) = {}
      /\ filled = NumFrames
      /\ UNCHANGED <<pool, filled, present, stored>>
  BY DEF PinReplace
<1>3. f \in Unfixed /\ Holders(f) = {}
  BY <1>1, UnfixedUnheld DEF FirstIn
<1>4. \A g \in Frames : pageNum[g] \in PageNums
  <2>1. \A g \in Frames : pageNum[g] # NO_PAGE
    BY <1>2 DEF FilledFirst, ListComplete, Places
  <2> QED
    BY <2>1 DEF TypeOK
<1>5. /\ disk' \in [FilePages -> Data]
      /\ total' \in Nat /\ total <= total'
      /\ \A q \in FilePages : (\A g \in {f} \cap ToFlush : pageNum[g] # q) => disk'[q] = disk[q]
      /\ \A g \in {f} \cap ToFlush : pageNum[g] # NO_PAGE =>
            /\ disk'[pageNum[g]] = content[g]
            /\ pageNum[g] < total'
  BY <1>1, FileWritten
<1>6. TypeOK'
  <2>1. content' \in [Frames -> Data]
    BY <1>1, <1>5, Sentinels DEF TypeOK, readBlock
  <2>2. fixCount' \in [Frames -> Int] /\ dirty' \in [Frames -> BOOLEAN]
        /\ pageNum' \in [Frames -> PageNums \cup {NO_PAGE}]
    BY <1>1 DEF TypeOK
  <2>3. order' \in [Places -> Frames]
    BY <1>1, MovedToEnd DEF TypeOK
  <2> QED
    BY <1>1, <1>2, <1>5, <2>1, <2>2, <2>3, PinnedHandles DEF TypeOK
<1>7. ListComplete' /\ ClosedIsEmpty'
  BY <1>1, <1>2, MovedToEnd DEF ClosedIsEmpty, TypeOK
<1>8. OneFramePerPage'
  BY <1>1, <1>2 DEF OneFramePerPage, Holding, TypeOK
<1>9. HandlesShaped'
  BY <1>1, <1>2, PinnedHandles
<1>10. HandlesValid'
  BY <1>1, <1>3, FreshPinValid
<1>11. PinAccounting'
  BY <1>1, <1>3, FreshPinCounted
<1>12. FilledFirst'
  <2>1. \A g \in Frames : pageNum'[g] # NO_PAGE
    BY <1>1, <1>4, Sentinels DEF TypeOK
  <2>2. order' \in [Places -> Frames]
    BY <1>6 DEF TypeOK
  <2> QED
    BY <1>2, <2>1, <2>2, FramesAssumption DEF FilledFirst, Places
<1>13. NothingLost'
  <2> SUFFICES ASSUME NEW q \in stored
               PROVE  \/ \E g \in Holding(q)' : OwesWrite(g)'
                      \/ q < total' /\ \A g \in Holding(q)' : content'[g] = disk'[q]
    BY <1>2 DEF NothingLost
  <2>0. q \in PageNums /\ q \in FilePages /\ q \in Nat
    BY Sentinels DEF TypeOK
  <2>1. CASE q = p
    <3>1. q < total
      BY <1>2, <2>1 DEF NothingLost, Holding
    <3>2. q < total'
      BY <1>5, <2>0, <3>1 DEF TypeOK
    <3>3. Holding(q)' = {f}
      BY <1>1, <1>2, <2>1 DEF Holding, TypeOK
    <3>4. content'[f] = readBlock(disk', total', p, content[f])
      BY <1>1 DEF TypeOK
    <3>5. content'[f] = disk'[q]
      BY <1>5, <2>0, <2>1, <3>2, <3>4, ReadInside
    <3> QED
      BY <3>2, <3>3, <3>5
  <2>2. CASE q # p /\ q = pageNum[f]
    <3>1. Holding(q)' = {} /\ Holding(q) = {f}
      BY <1>1, <1>4, <2>2, Sentinels DEF Holding, TypeOK, OneFramePerPage
    <3>2. q < total'
      <4>1. CASE dirty[f]
        BY <1>3, <1>4, <1>5, <2>2, <4>1, Sentinels DEF ToFlush
      <4>2. CASE ~dirty[f]
        <5>1. q < total
          BY <1>3, <3>1, <4>2 DEF NothingLost, OwesWrite
        <5> QED
          BY <1>5, <2>0, <5>1 DEF TypeOK
      <4> QED
        BY <4>1, <4>2
    <3> QED
      BY <3>1, <3>2
  <2>3. CASE q # p /\ q # pageNum[f]
    <3>1. Holding(q)' = Holding(q) /\ f \notin Holding(q) /\ Holding(q) \subseteq Frames
      BY <1>1, <2>3 DEF Holding, TypeOK
    <3>2. \A g \in Holding(q) : OwesWrite(g) => OwesWrite(g)'
      BY <1>1, <3>1, DebtsKept DEF TypeOK
    <3>3. \A g \in Holding(q) : content'[g] = content[g]
      BY <1>1, <3>1 DEF TypeOK
    <3>4. disk'[q] = disk[q]
      BY <1>5, <2>0, <2>3
    <3>5. q < total => q < total'
      BY <1>5, <2>0 DEF TypeOK
    <3> QED
      BY <3>1, <3>2, <3>3, <3>4, <3>5 DEF NothingLost
  <2> QED
    BY <2>1, <2>2, <2>3
<1> QED
  BY <1>6, <1>7, <1>8, <1>9, <1>10, <1>11, <1>12, <1>13

(* A pinned handle's page is in the frame the handle points into, nowhere else. *)
LEMMA HeldFrame ==
  ASSUME CarefulClients, Inv, NEW c \in Clients, Pinned(c)
  PROVE  /\ handle[c].data \in Frames
         /\ handle[c].pageNum \in PageNums
         /\ Holding(handle[c].pageNum) = {handle[c].data}
<1>1. handle[c].data \in Frames /\ handle[c].pageNum \in PageNums
      /\ pageNum[handle[c].data] = handle[c].pageNum
  BY DEF Inv, TypeOK, Pinned, HandlesShaped, HandlesValid
<1> QED
  BY <1>1, Sentinels DEF Inv, OneFramePerPage, Holding

(* A client stores bytes: its page owes a write from now on. *)
LEMMA WriteDataKeepsInv ==
  ASSUME CarefulClients, Inv, NEW c \in Clients, NEW d \in Data, writeData(c, d)
  PROVE  Inv'
<1> USE DEF Inv
<1>1. PICK f \in Frames, p \in PageNums :
        f = handle[c].data /\ p = handle[c].pageNum /\ Holding(p) = {f}
  BY HeldFrame DEF writeData
<1>2. /\ pool = "open"
      /\ content' = [content EXCEPT ![f] = d]
      /\ handle' = [handle EXCEPT ![c].unmarked = TRUE]
      /\ stored' = stored \cup {p}
      /\ UNCHANGED <<pool, order, pageNum, fixCount, dirty, filled, present, disk, total>>
  BY <1>1 DEF writeData, fileVars
<1>3. \A o \in Clients : /\ handle'[o].data = handle[o].data
                         /\ handle'[o].pageNum = handle[o].pageNum
                         /\ o # c => handle'[o] = handle[o]
                         /\ handle[o].unmarked => handle'[o].unmarked
  BY <1>2 DEF TypeOK
<1>4. TypeOK'
  BY <1>1, <1>2 DEF TypeOK
<1>5. ListComplete' /\ OneFramePerPage' /\ FilledFirst' /\ ClosedIsEmpty'
  BY <1>2 DEF ListComplete, OneFramePerPage, FilledFirst, ClosedIsEmpty
<1>6. HandlesShaped'
  <2>1. Pinned(c)
    BY DEF writeData
  <2> QED
    BY <1>2, <1>3, <2>1 DEF HandlesShaped, Pinned
<1>7. HandlesValid'
  BY <1>2, <1>3 DEF HandlesValid, Pinned
<1>8. \A g : Holders(g)' = Holders(g)
  BY <1>3 DEF Holders
<1>9. PinAccounting'
  BY <1>2, <1>8 DEF PinAccounting
<1>10. NothingLost'
  <2>1. \A g \in Frames : OwesWrite(g) => OwesWrite(g)'
    BY <1>2, <1>3, <1>8 DEF OwesWrite, Holders
  <2>2. OwesWrite(f)'
    <3>1. c \in Holders(f)' /\ handle'[c].unmarked
      BY <1>1, <1>2, <1>8 DEF Holders, TypeOK
    <3> QED
      BY <3>1 DEF OwesWrite
  <2>3. \A q : Holding(q)' = Holding(q) /\ Holding(q) \subseteq Frames
    BY <1>2 DEF Holding
  <2> SUFFICES ASSUME NEW q \in stored'
               PROVE  \/ \E g \in Holding(q) : OwesWrite(g)'
                      \/ q < total /\ \A g \in Holding(q) : content'[g] = disk[q]
    BY <1>2, <2>3 DEF NothingLost
  <2>4. CASE q = p
    BY <1>1, <2>2, <2>4
  <2>5. CASE q # p
    <3>1. q \in stored
      BY <1>2, <2>5
    <3>2. f \notin Holding(q)
      BY <1>1, <2>5 DEF Holding
    <3>3. \A g \in Holding(q) : content'[g] = content[g]
      BY <1>2, <2>3, <3>2 DEF TypeOK
    <3> QED
      BY <2>1, <2>3, <3>1, <3>3 DEF NothingLost
  <2> QED
    BY <2>4, <2>5
<1> QED
  BY <1>4, <1>5, <1>6, <1>7, <1>9, <1>10

(* The debt of a marked page is in the dirty flag. *)
LEMMA MarkDirtyKeepsInv ==
  ASSUME CarefulClients, Inv, NEW c \in Clients, markDirty(c)
  PROVE  Inv'
<1> USE DEF Inv
<1>1. PICK f \in Frames, p \in PageNums :
        f = handle[c].data /\ p = handle[c].pageNum /\ Holding(p) = {f}
  BY HeldFrame DEF markDirty
<1>2. /\ pool = "open"
      /\ dirty' = [dirty EXCEPT ![f] = TRUE]
      /\ handle' = [handle EXCEPT ![c].unmarked = FALSE]
      /\ UNCHANGED <<pool, order, pageNum, fixCount, content, filled, present, disk,
                     total, stored>>
  BY <1>1 DEF markDirty, FirstIn, fileVars
<1>3. \A o \in Clients : /\ handle'[o].data = handle[o].data
                         /\ handle'[o].pageNum = handle[o].pageNum
                         /\ o # c => handle'[o] = handle[o]
  BY <1>2 DEF TypeOK
<1>4. TypeOK'
  BY <1>1, <1>2 DEF TypeOK
<1>5. ListComplete' /\ OneFramePerPage' /\ FilledFirst' /\ ClosedIsEmpty'
  BY <1>2 DEF ListComplete, OneFramePerPage, FilledFirst, ClosedIsEmpty
<1>6. HandlesShaped'
  <2>1. Pinned(c)
    BY DEF markDirty
  <2> QED
    BY <1>2, <1>3, <2>1 DEF HandlesShaped, Pinned
<1>7. HandlesValid'
  BY <1>2, <1>3 DEF HandlesValid, Pinned
<1>8. \A g : Holders(g)' = Holders(g)
  BY <1>3 DEF Holders
<1>9. PinAccounting'
  BY <1>2, <1>8 DEF PinAccounting
<1>10. NothingLost'
  <2>1. ASSUME NEW g \in Frames, OwesWrite(g) PROVE OwesWrite(g)'
    <3>1. CASE g = f
      BY <1>2, <3>1 DEF OwesWrite, TypeOK
    <3>2. CASE g # f
      <4>1. c \notin Holders(g) /\ dirty'[g] = dirty[g]
        BY <1>1, <1>2, <3>2 DEF Holders, TypeOK
      <4> QED
        BY <1>3, <1>8, <2>1, <4>1 DEF OwesWrite, Holders
    <3> QED
      BY <3>1, <3>2
  <2>2. \A q : Holding(q)' = Holding(q) /\ Holding(q) \subseteq Frames
    BY <1>2 DEF Holding
  <2> QED
    BY <1>2, <2>1, <2>2 DEF NothingLost
<1> QED
  BY <1>4, <1>5, <1>6, <1>7, <1>9, <1>10

(* A page that was marked may be let go of. *)
LEMMA UnpinKeepsInv ==
  ASSUME CarefulClients, Inv, NEW c \in Clients, unpinPage(c)
  PROVE  Inv'
<1> USE DEF Inv
<1>1. PICK f \in Frames, p \in PageNums :
        f = handle[c].data /\ p = handle[c].pageNum /\ Holding(p) = {f}
  BY HeldFrame DEF unpinPage
<1>2. /\ pool = "open" /\ ~handle[c].unmarked
      /\ fixCount' = [fixCount EXCEPT ![f] = @ - 1]
      /\ handle' = [handle EXCEPT ![c] = NoHandle]
      /\ UNCHANGED <<pool, order, pageNum, dirty, content, filled, present, disk,
                     total, stored>>
  BY <1>1 DEF unpinPage, FirstIn, fileVars
<1>3. \A o \in Clients : o # c => handle'[o] = handle[o]
  BY <1>2 DEF TypeOK
<1>4. handle'[c] = NoHandle /\ ~Pinned(c)'
  BY <1>2 DEF TypeOK, Pinned, NoHandle
<1>5. TypeOK'
  <2>1. NoHandle \in [pageNum : PageNums \cup {NO_PAGE}, data : Frames \cup {NULL},
                      unmarked : BOOLEAN]
    BY DEF NoHandle
  <2>2. fixCount' \in [Frames -> Int]
    BY <1>2 DEF TypeOK
  <2> QED
    BY <1>2, <2>1, <2>2 DEF TypeOK
<1>6. ListComplete' /\ OneFramePerPage' /\ FilledFirst' /\ ClosedIsEmpty'
  BY <1>2 DEF ListComplete, OneFramePerPage, FilledFirst, ClosedIsEmpty
<1>7. HandlesShaped' /\ HandlesValid'
  BY <1>2, <1>3, <1>4 DEF HandlesShaped, HandlesValid, Pinned, NoHandle
<1>8. PinAccounting'
  <2>1. \A g \in Frames : Cardinality(Holders(g)') =
            Cardinality(Holders(g)) - (IF g = f THEN 1 ELSE 0)
    BY <1>1, <1>2, HolderDropped
  <2> QED
    BY <1>2, <2>1 DEF PinAccounting, TypeOK
<1>9. NothingLost'
  <2>1. ASSUME NEW g \in Frames, OwesWrite(g) PROVE OwesWrite(g)'
    <3>1. ASSUME NEW o \in Holders(g), handle[o].unmarked
          PROVE  o \in Holders(g)' /\ handle'[o].unmarked
      <4>1. o # c /\ o \in Clients
        BY <1>2, <3>1 DEF Holders
      <4> QED
        BY <1>3, <3>1, <4>1 DEF Holders
    <3> QED
      BY <1>2, <2>1, <3>1 DEF OwesWrite
  <2>2. \A q : Holding(q)' = Holding(q) /\ Holding(q) \subseteq Frames
    BY <1>2 DEF Holding
  <2> QED
    BY <1>2, <2>1, <2>2 DEF NothingLost
<1> QED
  BY <1>5, <1>6, <1>7, <1>8, <1>9

(* A forced page is in the file. *)
LEMMA ForcePageKeepsInv ==
  ASSUME CarefulClients, Inv, NEW p \in PageNums, forcePage(p)
  PROVE  Inv'
<1> USE DEF Inv
<1>0. p \in Nat
  BY DEF CarefulClients
<1>1. PICK f \in Frames :
        /\ f \in Holding(p)
        /\ disk' = writeBlocks({f})
        /\ IsSizeAfter(total', {f})
        /\ UNCHANGED pool
  <2>1. PICK k \in Places :
          /\ FirstIn(k, Holding(p))
          /\ disk' = writeBlocks({order[k]})
          /\ IsSizeAfter(total', {order[k]})
          /\ UNCHANGED pool
    <3>1. ~(p < 0)
      BY <1>0
    <3> QED
      BY <3>1 DEF forcePage
  <2>2. order[k] \in Frames /\ order[k] \in Holding(p)
    BY <2>1 DEF FirstIn, TypeOK
  <2> QED
    BY <2>1, <2>2
<1>2. UNCHANGED <<pool, poolVars, present, handle, stored>>
  BY <1>1 DEF forcePage
<1>3. /\ disk' \in [FilePages -> Data]
      /\ total' \in Nat /\ total <= total'
      /\ \A q \in FilePages : (\A g \in {f} : pageNum[g] # q) => disk'[q] = disk[q]
      /\ \A g \in {f} : pageNum[g] # NO_PAGE =>
            /\ disk'[pageNum[g]] = content[g]
            /\ pageNum[g] < total'
  BY <1>1, FileWritten
<1>4. TypeOK' /\ ListComplete' /\ OneFramePerPage' /\ FilledFirst' /\ ClosedIsEmpty'
  BY <1>2, <1>3 DEF TypeOK, ListComplete, OneFramePerPage, FilledFirst, ClosedIsEmpty, poolVars
<1>5. \A g : Holders(g)' = Holders(g) /\ OwesWrite(g)' = OwesWrite(g)
  BY <1>2 DEF Holders, OwesWrite, poolVars
<1>6. HandlesShaped' /\ HandlesValid' /\ PinAccounting'
  BY <1>2, <1>5 DEF HandlesShaped, HandlesValid, PinAccounting, Pinned, poolVars
<1>7. NothingLost'
  <2> SUFFICES ASSUME NEW q \in stored
               PROVE  \/ \E g \in Holding(q) : OwesWrite(g)
                      \/ q < total' /\ \A g \in Holding(q) : content[g] = disk'[q]
    BY <1>2, <1>5 DEF NothingLost, Holding, poolVars
  <2>1. q \in FilePages /\ q \in Nat /\ pageNum[f] = p /\ p # NO_PAGE
    BY <1>1, Sentinels DEF TypeOK, Holding
  <2>2. CASE q = p
    <3>1. Holding(q) = {f}
      BY <1>1, <2>1, <2>2 DEF Holding, OneFramePerPage
    <3> QED
      BY <1>3, <2>1, <2>2, <3>1
  <2>3. CASE q # p
    <3>1. disk'[q] = disk[q]
      BY <1>3, <2>1, <2>3
    <3>2. q < total => q < total'
      BY <1>3, <2>1 DEF TypeOK
    <3> QED
      BY <3>1, <3>2 DEF NothingLost
  <2> QED
    BY <2>2, <2>3
<1> QED
  BY <1>4, <1>6, <1>7

(* After a flush a stored page is in the file, or is dirty or unmarked in a
   frame that is held. *)
LEMMA FlushSaves ==
  ASSUME CarefulClients, Inv, WriteToFlush, NEW q \in stored
  PROVE  \/ \E g \in Holding(q) : g \notin ToFlush /\ OwesWrite(g)
         \/ q < total' /\ \A g \in Holding(q) : content[g] = disk'[q]
<1> USE DEF Inv
<1>1. /\ disk' \in [FilePages -> Data]
      /\ total' \in Nat /\ total <= total'
      /\ \A p \in FilePages : (\A g \in ToFlush : pageNum[g] # p) => disk'[p] = disk[p]
      /\ \A g \in ToFlush : pageNum[g] # NO_PAGE =>
            /\ disk'[pageNum[g]] = content[g]
            /\ pageNum[g] < total'
  <2>1. ToFlush \in SUBSET Frames
    BY DEF ToFlush, Unfixed
  <2> QED
    BY <2>1, FileWritten DEF WriteToFlush
<1>2. q \in FilePages /\ q \in Nat /\ q # NO_PAGE
  BY Sentinels DEF TypeOK
<1>3. CASE \E g \in ToFlush : pageNum[g] = q
  <2>1. PICK g \in ToFlush : pageNum[g] = q
    BY <1>3
  <2>2. Holding(q) = {g}
    BY <1>2, <2>1 DEF Holding, OneFramePerPage, ToFlush, Unfixed
  <2> QED
    BY <1>1, <1>2, <2>1, <2>2
<1>4. CASE \A g \in ToFlush : pageNum[g] # q
  <2>1. disk'[q] = disk[q] /\ \A g \in Holding(q) : g \notin ToFlush
    BY <1>1, <1>2, <1>4 DEF Holding
  <2>2. q < total => q < total'
    BY <1>1, <1>2 DEF TypeOK
  <2> QED
    BY <2>1, <2>2 DEF NothingLost
<1> QED
  BY <1>3, <1>4

(* A flush changes the file and the dirty flags only. *)
LEMMA FlushTypes ==
  ASSUME CarefulClients, Inv, WriteToFlush
  PROVE  disk' \in [FilePages -> Data] /\ total' \in Nat
<1>1. ToFlush \in SUBSET Frames
  BY DEF ToFlush, Unfixed
<1> QED
  BY <1>1, FileWritten DEF Inv, WriteToFlush

(* A flush writes what nobody holds. *)
LEMMA FlushKeepsInv ==
  ASSUME CarefulClients, Inv, Flush,
         UNCHANGED <<pool, order, pageNum, fixCount, content, filled, handle, stored>>
  PROVE  Inv'
<1> USE DEF Inv
<1>1. WriteToFlush /\ present' = present
      /\ dirty' = [f \in Frames |-> dirty[f] /\ f \notin ToFlush]
  BY DEF Flush, WriteToFlush
<1>2. TypeOK'
  BY <1>1, FlushTypes DEF TypeOK
<1>3. ListComplete' /\ OneFramePerPage' /\ FilledFirst' /\ ClosedIsEmpty'
  BY DEF ListComplete, OneFramePerPage, FilledFirst, ClosedIsEmpty
<1>4. \A g : Holders(g)' = Holders(g)
  BY DEF Holders
<1>5. HandlesShaped' /\ HandlesValid' /\ PinAccounting'
  BY <1>4 DEF HandlesShaped, HandlesValid, PinAccounting, Pinned
<1>6. NothingLost'
  <2>1. \A g \in Frames : g \notin ToFlush /\ OwesWrite(g) => OwesWrite(g)'
    BY <1>1, <1>4 DEF OwesWrite
  <2>2. \A q : Holding(q)' = Holding(q) /\ Holding(q) \subseteq Frames
    BY DEF Holding
  <2> QED
    BY <1>1, <2>1, <2>2, FlushSaves DEF NothingLost
<1> QED
  BY <1>2, <1>3, <1>5, <1>6

(* With an empty list and cleared handles only the file counts. *)
LEMMA EmptyTheListKeepsInv ==
  ASSUME CarefulClients, EmptyTheList,
         pool' \in {"closed", "open", "crashed"},
         present' \in BOOLEAN, disk' \in [FilePages -> Data], total' \in Nat,
         stored' \in SUBSET PageNums,
         handle' = [c \in Clients |-> NoHandle],
         \A q \in stored' : q < total'
  PROVE  Inv'
<1>1. TypeOK'
  <2>1. NoHandle \in [pageNum : PageNums \cup {NO_PAGE}, data : Frames \cup {NULL},
                      unmarked : BOOLEAN]
    BY DEF NoHandle
  <2>2. order' \in [Places -> Frames] /\ filled' \in 0 .. NumFrames
    BY FramesAssumption DEF EmptyTheList, Places, Frames
  <2>3. content' \in [Frames -> Data]
    BY DataAssumption DEF EmptyTheList
  <2> QED
    BY <2>1, <2>2, <2>3 DEF TypeOK, EmptyTheList
<1>2. ListComplete'
  <2>1. ASSUME NEW f \in Frames PROVE \E k \in Places : order'[k] = f
    <3>1. f + 1 \in Places /\ order'[f + 1] = f
      BY FramesAssumption DEF EmptyTheList, Places, Frames
    <3> QED
      BY <3>1
  <2>2. \A i, j \in Places : order'[i] = order'[j] => i = j
    BY FramesAssumption DEF EmptyTheList, Places
  <2> QED
    BY <2>1, <2>2 DEF ListComplete
<1>3. OneFramePerPage' /\ HandlesShaped' /\ HandlesValid' /\ ClosedIsEmpty'
  BY DEF OneFramePerPage, ClosedIsEmpty, HandlesShaped, HandlesValid, Pinned, NoHandle, EmptyTheList
<1>4. PinAccounting'
  <2>1. \A f \in Frames : Holders(f)' = {}
    BY Sentinels DEF Holders, NoHandle
  <2> QED
    BY <2>1, FS_EmptySet DEF PinAccounting, EmptyTheList
<1>5. FilledFirst'
  BY <1>1, FramesAssumption DEF FilledFirst, EmptyTheList, Places, TypeOK
<1>6. NothingLost'
  <2>1. \A q \in stored' : Holding(q)' = {}
    BY Sentinels DEF Holding, EmptyTheList
  <2> QED
    BY <2>1 DEF NothingLost
<1> QED
  BY <1>1, <1>2, <1>3, <1>4, <1>5, <1>6 DEF Inv

(* The loop of shutdownBufferPool that finds no fix count tells the truth: nobody holds
   a handle, and whoever owes a write is written. *)
LEMMA NothingFixed ==
  ASSUME CarefulClients, Inv, ~\E k \in 1 .. filled : fixCount[order[k]] # 0
  PROVE  /\ \A c \in Clients : handle[c] = NoHandle
         /\ \A q \in stored : \A g \in Holding(q) : OwesWrite(g) => g \in ToFlush
<1> USE DEF Inv
<1>1. \A f \in Frames : Holders(f) = {}
  <2> SUFFICES ASSUME NEW f \in Frames PROVE Holders(f) = {}
    OBVIOUS
  <2>1. PICK k \in Places : order[k] = f
    BY DEF ListComplete
  <2>2. CASE k <= filled
    <3>1. k \in 1 .. filled
      BY <2>2 DEF Places, TypeOK
    <3> QED
      BY <2>1, <3>1, UnfixedUnheld DEF Unfixed
  <2>3. CASE ~(k <= filled)
    BY <2>1, <2>3, EmptyUnheld DEF FilledFirst
  <2> QED
    BY <2>2, <2>3
<1>2. \A c \in Clients : handle[c] = NoHandle
  BY <1>1 DEF Holders, HandlesShaped, TypeOK, Pinned
<1>3. ASSUME NEW q \in stored, NEW g \in Holding(q), OwesWrite(g)
      PROVE  g \in ToFlush
  <2>1. g \in Frames /\ pageNum[g] # NO_PAGE
    BY Sentinels DEF Holding, TypeOK
  <2>2. PICK k \in Places : order[k] = g
    BY <2>1 DEF ListComplete
  <2>3. k \in 1 .. filled
    <3>1. k <= filled
      BY <2>1, <2>2 DEF FilledFirst
    <3> QED
      BY <3>1 DEF Places, TypeOK
  <2>4. fixCount[g] = 0
    BY <2>2, <2>3
  <2>5. dirty[g]
    BY <1>1, <1>3, <2>1 DEF OwesWrite
  <2> QED
    BY <2>1, <2>4, <2>5 DEF ToFlush, Unfixed
<1> QED
  BY <1>2, <1>3

(* When no fix count is left at shutdown, all is in the file. *)
LEMMA ShutdownKeepsInv ==
  ASSUME CarefulClients, Inv, shutdownBufferPool
  PROVE  Inv'
<1>1. CASE \E k \in 1 .. filled : fixCount[order[k]] # 0
  BY <1>1, FlushKeepsInv DEF shutdownBufferPool
<1>2. CASE ~\E k \in 1 .. filled : fixCount[order[k]] # 0
  <2>1. WriteToFlush /\ pool' = "closed" /\ EmptyTheList /\ UNCHANGED <<handle, stored>>
    BY <1>2 DEF shutdownBufferPool
  <2>2. \A q \in stored : q < total'
    BY <1>2, <2>1, NothingFixed, FlushSaves
  <2>3. handle' = [c \in Clients |-> NoHandle]
    BY <1>2, <2>1, NothingFixed DEF Inv, TypeOK
  <2>4. present' \in BOOLEAN /\ stored' \in SUBSET PageNums
    BY <2>1 DEF Inv, TypeOK, WriteToFlush
  <2> QED
    BY <2>1, <2>2, <2>3, <2>4, FlushTypes, EmptyTheListKeepsInv
<1> QED
  BY <1>1, <1>2

(* Nobody holds a handle into a closed pool, and what was stored is in the file. *)
LEMMA ClosedIsSaved ==
  ASSUME CarefulClients, Inv, pool = "closed"
  PROVE  /\ handle = [c \in Clients |-> NoHandle]
         /\ \A q \in stored : Holding(q) = {} /\ q < total
<1>1. handle = [c \in Clients |-> NoHandle]
  BY DEF Inv, HandlesShaped, TypeOK
<1>2. \A q \in stored : Holding(q) = {}
  BY Sentinels DEF Inv, TypeOK, ClosedIsEmpty, Holding
<1> QED
  BY <1>1, <1>2 DEF Inv, NothingLost

(* Creating, destroying or opening the page file of a closed pool. *)
LEMMA ClosedStepsKeepInv ==
  ASSUME CarefulClients, Inv, createPageFile \/ destroyPageFile \/ initBufferPool
  PROVE  Inv'
<1> DEFINE Blanks == [p \in FilePages |-> Blank]
<1>1. Blanks \in [FilePages -> Data]
  BY DataAssumption
<1>2. CASE createPageFile \/ destroyPageFile
  <2>1. /\ pool = "closed" /\ UNCHANGED <<pool, poolVars, handle>>
        /\ present' \in BOOLEAN /\ disk' = Blanks /\ total' \in Nat
        /\ stored' \in SUBSET PageNums /\ \A q \in stored' : q < total'
    <3>1. CASE createPageFile
      <4>1. stored' \in SUBSET PageNums /\ \A q \in stored' : q < 1
        BY <3>1 DEF createPageFile, FilePages
      <4> QED
        BY <3>1, <4>1 DEF createPageFile
    <3>2. CASE destroyPageFile
      BY <3>2 DEF destroyPageFile
    <3> QED
      BY <1>2, <3>1, <3>2
  <2>2. TypeOK'
    BY <1>1, <2>1 DEF Inv, TypeOK, poolVars
  <2>3. ListComplete' /\ OneFramePerPage' /\ FilledFirst' /\ ClosedIsEmpty'
    BY <2>1 DEF Inv, ListComplete, OneFramePerPage, FilledFirst, ClosedIsEmpty, poolVars
  <2>4. HandlesShaped' /\ HandlesValid'
    BY <2>1 DEF Inv, HandlesShaped, HandlesValid, Pinned, poolVars
  <2>5. PinAccounting'
    <3>1. \A g : Holders(g)' = Holders(g)
      BY <2>1 DEF Holders
    <3> QED
      BY <2>1, <3>1 DEF Inv, PinAccounting, poolVars
  <2>6. NothingLost'
    <3>1. \A q \in stored' : Holding(q)' = {}
      BY <2>1, <2>3, Sentinels DEF ClosedIsEmpty, Holding
    <3> QED
      BY <2>1, <3>1 DEF NothingLost
  <2> QED
    BY <2>2, <2>3, <2>4, <2>5, <2>6 DEF Inv
<1>3. CASE initBufferPool
  <2>1. pool = "closed" /\ EmptyTheList /\ UNCHANGED <<present, disk, total, handle, stored>>
        /\ pool' \in {"open", "crashed"}
    BY <1>3 DEF initBufferPool, fileVars
  <2>2. \A q \in stored' : q < total'
    BY <2>1, ClosedIsSaved
  <2>3. handle' = [c \in Clients |-> NoHandle]
    BY <2>1, ClosedIsSaved
  <2> QED
    BY <2>1, <2>2, <2>3, EmptyTheListKeepsInv DEF Inv, TypeOK
<1> QED
  BY <1>2, <1>3

(* A crash changes nothing that is still looked at. *)
LEMMA CrashKeepsInv ==
  ASSUME CarefulClients, Inv, pool = "open", NEW c \in Clients, NEW p \in PageNums,
         PinCrash(c, p)
  PROVE  Inv'
<1>1. pool' = "crashed" /\ UNCHANGED <<poolVars, fileVars, handle, stored>>
  BY DEF PinCrash
<1>2. TypeOK' /\ ListComplete' /\ OneFramePerPage' /\ FilledFirst' /\ ClosedIsEmpty'
  BY <1>1 DEF Inv, TypeOK, ListComplete, OneFramePerPage, FilledFirst, ClosedIsEmpty,
              poolVars, fileVars
<1>3. \A g : Holders(g)' = Holders(g) /\ OwesWrite(g)' = OwesWrite(g)
  BY <1>1 DEF Holders, OwesWrite, poolVars
<1>4. HandlesShaped' /\ HandlesValid' /\ PinAccounting'
  BY <1>1, <1>3 DEF Inv, HandlesShaped, HandlesValid, PinAccounting, Pinned, poolVars
<1>5. NothingLost'
  BY <1>1, <1>3 DEF Inv, NothingLost, Holding, poolVars, fileVars
<1> QED
  BY <1>2, <1>4, <1>5 DEF Inv

-----------------------------------------------------------------------------
(* The invariant holds at first. *)
LEMMA InitInv ==
  ASSUME CarefulClients, Init
  PROVE  Inv
<1>1. TypeOK
  <2>1. NoHandle \in [pageNum : PageNums \cup {NO_PAGE}, data : Frames \cup {NULL},
                      unmarked : BOOLEAN]
    BY DEF NoHandle
  <2>2. order \in [Places -> Frames] /\ filled \in 0 .. NumFrames
    BY FramesAssumption DEF Init, Places, Frames
  <2>3. content \in [Frames -> Data] /\ disk \in [FilePages -> Data]
    BY DataAssumption DEF Init
  <2>4. pageNum \in [Frames -> PageNums \cup {NO_PAGE}]
        /\ fixCount \in [Frames -> Int] /\ dirty \in [Frames -> BOOLEAN]
    BY DEF Init
  <2>5. handle \in [Clients -> [pageNum : PageNums \cup {NO_PAGE},
                                data : Frames \cup {NULL}, unmarked : BOOLEAN]]
    BY <2>1 DEF Init
  <2>6. /\ pool \in {"closed", "open", "crashed"} /\ present \in BOOLEAN
        /\ total \in Nat /\ stored \in SUBSET PageNums
    BY DEF Init
  <2> QED
    BY <2>2, <2>3, <2>4, <2>5, <2>6 DEF TypeOK
<1>2. ListComplete
  <2>1. ASSUME NEW f \in Frames PROVE \E k \in Places : order[k] = f
    <3>1. f + 1 \in Places /\ order[f + 1] = f
      BY FramesAssumption DEF Init, Places, Frames
    <3> QED
      BY <3>1
  <2>2. \A i, j \in Places : order[i] = order[j] => i = j
    BY FramesAssumption DEF Init, Places
  <2> QED
    BY <2>1, <2>2 DEF ListComplete
<1>3. OneFramePerPage /\ HandlesShaped /\ HandlesValid /\ ClosedIsEmpty /\ NothingLost
  BY DEF OneFramePerPage, HandlesShaped, HandlesValid, ClosedIsEmpty, NothingLost,
         Pinned, NoHandle, Init
<1>4. PinAccounting
  <2>1. \A f \in Frames : Holders(f) = {}
    BY Sentinels DEF Holders, NoHandle, Init
  <2> QED
    BY <2>1, FS_EmptySet DEF PinAccounting, Init
<1>5. FilledFirst
  BY <1>1, FramesAssumption DEF FilledFirst, Init, Places, TypeOK
<1> QED
  BY <1>1, <1>2, <1>3, <1>4, <1>5 DEF Inv

(* Every step keeps the invariant. *)
LEMMA StepKeepsInv ==
  ASSUME CarefulClients, Inv, [Next]_vars
  PROVE  Inv'
<1>1. CASE UNCHANGED vars
  <2>1. \A g : Holders(g)' = Holders(g) /\ OwesWrite(g)' = OwesWrite(g)
    BY <1>1 DEF Holders, OwesWrite, vars, poolVars
  <2>2. PinAccounting' /\ NothingLost'
    BY <1>1, <2>1 DEF Inv, PinAccounting, NothingLost, Holding, vars, poolVars, fileVars
  <2> QED
    BY <1>1, <2>2 DEF Inv, TypeOK, ListComplete, OneFramePerPage, HandlesShaped, HandlesValid,
              ClosedIsEmpty, FilledFirst, Pinned, vars, poolVars, fileVars
<1>2. CASE createPageFile \/ destroyPageFile \/ initBufferPool
  BY <1>2, ClosedStepsKeepInv
<1>3. ASSUME NEW c \in Clients, NEW p \in PageNums, pinPage(c, p)
      PROVE  Inv'
  BY <1>3, PinHitKeepsInv, PinEmptyKeepsInv, PinReplaceKeepsInv, CrashKeepsInv DEF pinPage
<1>4. ASSUME NEW c \in Clients, NEW d \in Data, writeData(c, d)
      PROVE  Inv'
  BY <1>4, WriteDataKeepsInv
<1>5. ASSUME NEW c \in Clients, markDirty(c)
      PROVE  Inv'
  BY <1>5, MarkDirtyKeepsInv
<1>6. ASSUME NEW c \in Clients, unpinPage(c)
      PROVE  Inv'
  BY <1>6, UnpinKeepsInv
<1>7. ASSUME NEW p \in PageNums, unpinStray(p)
      PROVE  Inv'
  BY <1>7 DEF unpinStray, CarefulClients
<1>8. ASSUME NEW p \in PageNums, forcePage(p)
      PROVE  Inv'
  BY <1>8, ForcePageKeepsInv
<1>9. CASE forceFlushPool
  BY <1>9, FlushKeepsInv DEF forceFlushPool
<1>10. CASE shutdownBufferPool
  BY <1>10, ShutdownKeepsInv
<1> QED
  BY <1>1, <1>2, <1>3, <1>4, <1>5, <1>6, <1>7, <1>8, <1>9, <1>10 DEF Next

(* The list, the pages, the handles, the pin counts and the bytes of the pool
   agree in every reachable state: Inv is inductive. *)
THEOREM Consistency ==
  ASSUME CarefulClients
  PROVE  Spec => []Inv
<1>1. Init => Inv
  BY InitInv
<1>2. Inv /\ [Next]_vars => Inv'
  BY StepKeepsInv
<1> QED
  BY <1>1, <1>2, PTL DEF Spec

(* Every frame's fix count is the number of clients that hold it. *)
THEOREM PinsCounted ==
  ASSUME CarefulClients
  PROVE  Spec => []PinAccounting
<1>1. Inv => PinAccounting
  BY DEF Inv
<1> QED
  BY <1>1, Consistency, PTL

(* No page is evicted, and no other page loaded over it, while a handle points to it. *)
THEOREM HandlesStayValid ==
  ASSUME CarefulClients
  PROVE  Spec => []HandlesValid
<1>1. Inv => HandlesValid
  BY DEF Inv
<1> QED
  BY <1>1, Consistency, PTL

(* What a client stored is in the file or in a frame that will be written to it. *)
THEOREM NothingIsLost ==
  ASSUME CarefulClients
  PROVE  Spec => []NothingLost
<1>1. Inv => NothingLost
  BY DEF Inv
<1> QED
  BY <1>1, Consistency, PTL

(* Places of the list, frame numbers and fix counts stay what they are: the list never
   runs out of its frames, and no fix count sinks below zero while every client unpins
   what it holds, once. *)
THEOREM TypesCorrect ==
  ASSUME CarefulClients
  PROVE  Spec => [](TypeOK /\ \A f \in Frames : fixCount[f] >= 0)
<1>1. ASSUME Inv, NEW f \in Frames PROVE fixCount[f] >= 0
  <2>1. fixCount[f] = Cardinality(Holders(f))
    BY <1>1 DEF Inv, PinAccounting
  <2>2. Cardinality(Holders(f)) \in Nat
    BY HoldersFinite
  <2> QED
    BY <2>1, <2>2
<1>2. Inv => TypeOK /\ \A f \in Frames : fixCount[f] >= 0
  BY <1>1 DEF Inv
<1> QED
  BY <1>2, Consistency, PTL

-----------------------------------------------------------------------------
(***************************************************************************)
(* BufferPoolFIFO implements PageStore, for any number of clients, of      *)
(* pages and of frames above one: what a client of the pool reads is what  *)
(* a client of a store of pages would read, step by step.  One frame is    *)
(* not enough: FIFOpin then writes through a node behind the list whether  *)
(* or not anybody holds the frame, which no store excuses.                 *)
(*                                                                         *)
(* BufferPoolFIFO implements FIFOPolicy for any clients at all, also for   *)
(* those that unpin pages they do not hold and ask for negative ones.      *)
(***************************************************************************)

(* What a client reads through its handle, and the pages the clients hold. *)
View(c) == IF Pinned(c) THEN content[handle[c].data] ELSE Unstored
HeldPages == {handle[c].pageNum : c \in Clients} \ {NO_PAGE}

(* A pool is opened on a file, and the file outlives it. *)
OpenHasFile == pool = "open" => present

RInv == Inv /\ OpenHasFile

-----------------------------------------------------------------------------
(* How many pages can be held. *)

LEMMA FramesCounted ==
  IsFiniteSet(Frames) /\ Cardinality(Frames) = NumFrames
<1>1. 0 \in Int /\ NumFrames - 1 \in Int /\ ~(0 > NumFrames - 1)
  BY FramesAssumption
<1>2. IsFiniteSet(0 .. NumFrames - 1) /\ Cardinality(0 .. NumFrames - 1) = (NumFrames - 1) - 0 + 1
  BY <1>1, FS_Interval
<1> QED
  BY <1>2, FramesAssumption DEF Frames

(* As many values as there are frames fit into the frames, and not one more. *)
LEMMA FitsFrames ==
  ASSUME NEW pn, NEW S, \A s \in S : \E f \in Frames : pn[f] = s
  PROVE  IsFiniteSet(S) /\ Cardinality(S) <= NumFrames
<1> DEFINE T == {pn[f] : f \in Frames}
           h == [f \in Frames |-> pn[f]]
<1>1. h \in Surjection(Frames, T)
  BY DEF Surjection
<1> HIDE DEF h, T
<1>2. IsFiniteSet(T) /\ Cardinality(T) <= NumFrames /\ Cardinality(T) \in Nat
  BY <1>1, FramesCounted, FS_Surjection, FS_CardinalityType
<1>3. S \in SUBSET T
  BY DEF T
<1>4. IsFiniteSet(S) /\ Cardinality(S) <= Cardinality(T) /\ Cardinality(S) \in Nat
  BY <1>2, <1>3, FS_Subset, FS_CardinalityType
<1> QED
  BY <1>2, <1>4, FramesAssumption

(* A pool whose frames are all fixed has as many pages held as it has frames. *)
LEMMA FullIsHeld ==
  ASSUME CarefulClients, Inv, filled = NumFrames, Unfixed = {}
  PROVE  Cardinality(HeldPages) >= NumFrames
<1> USE DEF Inv
<1>1. ASSUME NEW f \in Frames PROVE pageNum[f] \in HeldPages
  <2>1. Holders(f) # {}
    <3>1. fixCount[f] # 0
      BY DEF Unfixed
    <3> QED
      BY <3>1, FS_EmptySet DEF PinAccounting
  <2>2. PICK c \in Clients : handle[c].data = f
    BY <2>1 DEF Holders
  <2>3. Pinned(c)
    BY <2>2, Sentinels DEF Pinned
  <2>4. handle[c].pageNum = pageNum[f] /\ handle[c].pageNum \in PageNums
    BY <2>2, <2>3 DEF HandlesValid, HandlesShaped
  <2> QED
    BY <2>4, Sentinels DEF HeldPages
<1>2. ASSUME NEW p \in HeldPages PROVE \E f \in Frames : pageNum[f] = p
  <2>1. PICK c \in Clients : handle[c].pageNum = p /\ p # NO_PAGE
    BY DEF HeldPages
  <2>2. Pinned(c)
    BY <2>1 DEF HandlesShaped, NoHandle
  <2> QED
    BY <2>1, <2>2, HeldFrame DEF HandlesValid
<1>3. IsFiniteSet(HeldPages) /\ Cardinality(HeldPages) \in Nat
  BY <1>2, FitsFrames, FS_CardinalityType
<1>4. ASSUME NEW f \in Frames, NEW g \in Frames, pageNum[f] = pageNum[g]
      PROVE  f = g
  BY <1>1, <1>4 DEF OneFramePerPage, HeldPages
<1>5. pageNum \in Injection(Frames, HeldPages)
  BY <1>1, <1>4 DEF TypeOK, Injection, IsInjective
<1>6. Cardinality(Frames) <= Cardinality(HeldPages)
  BY <1>3, <1>5, FS_Injection
<1> QED
  BY <1>3, <1>6, FramesCounted, FramesAssumption
-----------------------------------------------------------------------------
(* The contents of a page, before and after a step. *)

LEMMA ContentsAre ==
  ASSUME CarefulClients, OneFramePerPage, NEW p \in PageNums
  PROVE  /\ p \notin stored => Contents(p) = Unstored
         /\ \A f \in Frames : p \in stored /\ pageNum[f] = p => Contents(p) = content[f]
         /\ p \in stored /\ Holding(p) = {} => Contents(p) = disk[p]
<1>1. ASSUME NEW f \in Frames, p \in stored, pageNum[f] = p
      PROVE  Contents(p) = content[f]
  <2>1. Holding(p) = {f}
    BY <1>1, Sentinels DEF Holding, OneFramePerPage
  <2> QED
    BY <1>1, <2>1 DEF Contents
<1> QED
  BY <1>1 DEF Contents

LEMMA ContentsBecome ==
  ASSUME CarefulClients, OneFramePerPage', NEW p \in PageNums
  PROVE  /\ p \notin stored' => Contents(p)' = Unstored
         /\ \A f \in Frames : p \in stored' /\ pageNum'[f] = p => Contents(p)' = content'[f]
         /\ p \in stored' /\ Holding(p)' = {} => Contents(p)' = disk'[p]
<1>1. ASSUME NEW f \in Frames, p \in stored', pageNum'[f] = p
      PROVE  Contents(p)' = content'[f]
  <2>1. Holding(p)' = {f}
    BY <1>1, Sentinels DEF Holding, OneFramePerPage
  <2> QED
    BY <1>1, <2>1 DEF Contents
<1> QED
  BY <1>1 DEF Contents

-----------------------------------------------------------------------------
(* The actions of the store, told by what they do to each page and each client. *)

(* The pages and the handles are as they were. *)
PagesKept == \A p \in PageNums : Contents(p)' = Contents(p)
HandlesKept == \A c \in Clients : handle'[c].pageNum = handle[c].pageNum /\ View(c)' = View(c)

(* The store counts the pages its clients hold as the pool does. *)
LEMMA SameCount ==
  ASSUME NEW S
  PROVE  Store!Cardinality(S) = Cardinality(S)
BY DEF Store!Cardinality, Cardinality

LEMMA StoreStutters ==
  ASSUME pool # "crashed", pool' # "crashed", present' = present, PagesKept, HandlesKept
  PROVE  UNCHANGED Store!vars
BY DEF Store!vars, PagesKept, HandlesKept, View

LEMMA StoreFails ==
  ASSUME pool # "crashed", pool' = "crashed", present' = present, PagesKept, HandlesKept,
         ~present \/ Cardinality(HeldPages) >= NumFrames
  PROVE  Store!Fail
<1>1. Store!HeldPages = HeldPages
  BY DEF Store!HeldPages, HeldPages
<1>2. Store!Cardinality(Store!HeldPages) = Cardinality(HeldPages)
  BY <1>1, SameCount
<1> QED
  BY <1>2 DEF Store!Fail, PagesKept, HandlesKept, View

LEMMA StorePins ==
  ASSUME NEW c \in Clients, NEW p \in PageNums, NEW d \in Data,
         pool # "crashed", pool' # "crashed", present, present', PagesKept,
         handle[c].pageNum = NO_PAGE,
         handle'[c].pageNum = p, View(c)' = d,
         \A o \in Clients \ {c} : handle'[o].pageNum = handle[o].pageNum /\ View(o)' = View(o),
         Cardinality(HeldPages \cup {p}) <= NumFrames,
         Contents(p) # Unstored => d = Contents(p),
         \A o \in Clients : handle[o].pageNum = p => d = View(o)
  PROVE  Store!Pin(c, p)
<1>1. Store!HeldPages = HeldPages
  BY DEF Store!HeldPages, HeldPages
<1>2. Store!Cardinality(Store!HeldPages \cup {p}) <= NumFrames
  BY <1>1, SameCount
<1>3. \A o \in Store!Holders(p) : d = View(o)
  BY DEF Store!Holders
<1>4. \A o \in Store!Holders(p) : o \in Clients
  BY DEF Store!Holders
<1>5. [o \in Clients |-> View(o)]' = [[o \in Clients |-> View(o)] EXCEPT ![c] = d]
  OBVIOUS
<1>6. [o \in Clients |-> handle[o].pageNum]' = [[o \in Clients |-> handle[o].pageNum] EXCEPT ![c] = p]
  OBVIOUS
<1>7. UNCHANGED <<pool # "crashed", present, [q \in PageNums |-> Contents(q)]>>
  BY DEF PagesKept
<1> QED
  BY <1>2, <1>3, <1>4, <1>5, <1>6, <1>7 DEF Store!Pin, View

LEMMA StoreWrites ==
  ASSUME NEW c \in Clients, NEW d \in Data,
         pool # "crashed", pool' # "crashed", present' = present,
         handle[c].pageNum \in PageNums, handle[c].pageNum # NO_PAGE,
         \A q \in PageNums : Contents(q)' = IF q = handle[c].pageNum THEN d ELSE Contents(q),
         \A o \in Clients :
            /\ handle'[o].pageNum = handle[o].pageNum
            /\ View(o)' = IF handle[o].pageNum = handle[c].pageNum THEN d ELSE View(o)
  PROVE  Store!Write(c, d)
BY DEF Store!Write, View

LEMMA StoreUnpins ==
  ASSUME NEW c \in Clients, pool # "crashed", pool' # "crashed", present' = present, PagesKept,
         handle[c].pageNum # NO_PAGE,
         handle'[c].pageNum = NO_PAGE, View(c)' = Unstored,
         \A o \in Clients \ {c} : handle'[o].pageNum = handle[o].pageNum /\ View(o)' = View(o)
  PROVE  Store!Unpin(c)
BY DEF Store!Unpin, PagesKept, View
-----------------------------------------------------------------------------
(* pinPage *)

(* A client with a cleared handle gets the frame that holds its page. *)
LEMMA PinnedByStore ==
  ASSUME CarefulClients, Inv, Inv', NEW c \in Clients, NEW p \in PageNums, NEW f \in Frames,
         ~Pinned(c), pool = "open", pool' = "open", present, present',
         SetHandle(c, p, f), PagesKept, stored' = stored,
         \A g \in Frames : Holders(g) # {} => content'[g] = content[g],
         \A o \in Clients : handle[o].pageNum = p => handle[o].data = f,
         pageNum'[f] = p
  PROVE  Store!Pin(c, p)
<1>1. handle[c].pageNum = NO_PAGE /\ handle'[c].pageNum = p /\ View(c)' = content'[f]
  BY Sentinels DEF Inv, TypeOK, HandlesShaped, NoHandle, SetHandle, View, Pinned
<1>2. \A o \in Clients \ {c} : handle'[o] = handle[o]
  BY DEF Inv, TypeOK, SetHandle
<1>3. \A o \in Clients : Pinned(o) => handle[o].data \in Frames
                                     /\ content'[handle[o].data] = content[handle[o].data]
  BY HeldFrame DEF Holders
<1>4. \A o \in Clients \ {c} : handle'[o].pageNum = handle[o].pageNum /\ View(o)' = View(o)
  BY <1>2, <1>3 DEF View, Pinned
<1>5. Cardinality(HeldPages \cup {p}) <= NumFrames
  <2>1. ASSUME NEW q \in HeldPages \cup {p} PROVE \E g \in Frames : pageNum'[g] = q
    <3>1. CASE q = p
      BY <3>1
    <3>2. CASE q # p
      <4>1. PICK o \in Clients : handle[o].pageNum = q /\ q # NO_PAGE
        BY <3>2 DEF HeldPages
      <4>2. o # c /\ Pinned(o) /\ Pinned(o)'
        BY <1>1, <1>2, <4>1 DEF Inv, HandlesShaped, NoHandle, Pinned
      <4>3. pageNum'[handle'[o].data] = q
        BY <1>2, <4>1, <4>2 DEF Inv, HandlesValid
      <4> QED
        BY <1>2, <1>3, <4>2, <4>3
    <3> QED
      BY <3>1, <3>2
  <2> QED
    BY <2>1, FitsFrames
<1>6. Contents(p) # Unstored => content'[f] = Contents(p)
  <2>1. CASE p \in stored
    <3>1. Contents(p)' = content'[f]
      BY <2>1, ContentsBecome DEF Inv
    <3> QED
      BY <3>1 DEF PagesKept
  <2>2. CASE p \notin stored
    BY <2>2 DEF Contents
  <2> QED
    BY <2>1, <2>2
<1>7. ASSUME NEW o \in Clients, handle[o].pageNum = p PROVE content'[f] = View(o)
  <2>1. Pinned(o) /\ handle[o].data = f
    BY <1>7, Sentinels DEF Pinned
  <2> QED
    BY <1>3, <2>1 DEF View
<1>8. content'[f] \in Data
  BY DEF Inv, TypeOK
<1> QED
  BY <1>1, <1>4, <1>5, <1>6, <1>7, <1>8, StorePins

(* Nobody holds a page that is in no frame. *)
LEMMA AbsentUnheld ==
  ASSUME CarefulClients, Inv, NEW p \in PageNums, Holding(p) = {}, NEW o \in Clients
  PROVE  handle[o].pageNum # p
<1>1. CASE Pinned(o)
  BY <1>1, HeldFrame
<1>2. CASE ~Pinned(o)
  BY <1>2, Sentinels DEF Inv, HandlesShaped, NoHandle
<1> QED
  BY <1>1, <1>2

LEMMA PinHitRefines ==
  ASSUME CarefulClients, RInv, Inv', NEW c \in Clients, NEW p \in PageNums,
         ~Pinned(c), pool = "open", PinHit(c, p)
  PROVE  Store!Pin(c, p)
<1>1. PICK k \in Places :
        /\ FirstIn(k, Holding(p))
        /\ SetHandle(c, p, order[k])
        /\ UNCHANGED <<pool, order, pageNum, dirty, content, filled, fileVars, stored>>
  BY DEF PinHit
<1>2. PICK f \in Frames : f = order[k] /\ pageNum[f] = p
  BY <1>1 DEF RInv, Inv, TypeOK, FirstIn, Holding
<1>3. PagesKept
  BY <1>1 DEF PagesKept, Contents, Holding, fileVars
<1>4. ASSUME NEW o \in Clients, handle[o].pageNum = p PROVE handle[o].data = f
  <2>1. Pinned(o)
    BY <1>4, Sentinels DEF RInv, Inv, HandlesShaped, NoHandle
  <2> QED
    BY <1>2, <1>4, <2>1, HeldFrame DEF RInv, Holding
<1>5. present /\ present' /\ pool' = "open" /\ stored' = stored /\ content' = content
  BY <1>1 DEF RInv, OpenHasFile, fileVars
<1>6. SetHandle(c, p, f) /\ pageNum'[f] = p
  BY <1>1, <1>2
<1> QED
  BY <1>3, <1>4, <1>5, <1>6, PinnedByStore DEF RInv

LEMMA PinEmptyRefines ==
  ASSUME CarefulClients, RInv, Inv', NEW c \in Clients, NEW p \in PageNums,
         ~Pinned(c), pool = "open", PinEmpty(c, p)
  PROVE  Store!Pin(c, p)
<1> USE DEF RInv, Inv
<1>1. PICK k \in Places, f \in Frames :
        /\ f = order[k]
        /\ FirstIn(k, Holding(NO_PAGE))
        /\ pageNum' = [pageNum EXCEPT ![f] = p]
        /\ content' = [content EXCEPT ![f] = readBlock(disk, total, p, @)]
        /\ SetHandle(c, p, f)
  BY DEF PinEmpty, TypeOK
<1>2. /\ Holding(p) = {}
      /\ UNCHANGED <<pool, order, present, disk, total, stored>>
  BY DEF PinEmpty, fileVars
<1>3. pageNum[f] = NO_PAGE /\ Holders(f) = {}
  BY <1>1, EmptyUnheld DEF FirstIn, Holding
<1>4. /\ pageNum'[f] = p /\ content'[f] = readBlock(disk, total, p, content[f])
      /\ \A g \in Frames \ {f} : pageNum'[g] = pageNum[g] /\ content'[g] = content[g]
  BY <1>1 DEF TypeOK
<1>5. ASSUME NEW q \in PageNums PROVE Contents(q)' = Contents(q)
  <2>1. CASE q \notin stored
    BY <1>2, <2>1 DEF Contents
  <2>2. CASE q \in stored /\ q = p
    <3>1. p < total /\ p \in Nat
      BY <1>2, <2>2, Sentinels DEF NothingLost
    <3>2. content'[f] = disk[p]
      BY <1>4, <3>1, ReadInside DEF TypeOK
    <3> QED
      BY <1>2, <1>4, <2>2, <3>2, ContentsAre, ContentsBecome
  <2>3. CASE q \in stored /\ q # p /\ Holding(q) # {}
    <3>1. PICK g \in Frames : pageNum[g] = q
      BY <2>3 DEF Holding
    <3>2. g # f
      BY <1>3, <3>1, Sentinels
    <3> QED
      BY <1>2, <1>4, <2>3, <3>1, <3>2, ContentsAre, ContentsBecome
  <2>4. CASE q \in stored /\ q # p /\ Holding(q) = {}
    <3>1. Holding(q)' = {}
      BY <1>4, <2>4 DEF Holding
    <3> QED
      BY <1>2, <2>4, <3>1, ContentsAre, ContentsBecome
  <2> QED
    BY <2>1, <2>2, <2>3, <2>4
<1>6. PagesKept
  BY <1>5 DEF PagesKept
<1>7. \A o \in Clients : handle[o].pageNum # p
  BY <1>2, AbsentUnheld
<1>8. present /\ present' /\ pool' = "open" /\ stored' = stored
  BY <1>2 DEF OpenHasFile
<1>9. \A g \in Frames : Holders(g) # {} => content'[g] = content[g]
  BY <1>3, <1>4
<1> QED
  BY <1>1, <1>4, <1>6, <1>7, <1>8, <1>9, PinnedByStore

LEMMA PinReplaceRefines ==
  ASSUME CarefulClients, RInv, Inv', NEW c \in Clients, NEW p \in PageNums,
         ~Pinned(c), pool = "open", PinReplace(c, p)
  PROVE  Store!Pin(c, p)
<1> USE DEF RInv, Inv
<1>1. PICK k \in Places, f \in Frames :
        /\ f = order[k]
        /\ FirstIn(k, Unfixed)
        /\ disk' = writeBlocks({f} \cap ToFlush)
        /\ IsSizeAfter(total', {f} \cap ToFlush)
        /\ pageNum' = [pageNum EXCEPT ![f] = p]
        /\ content' = [content EXCEPT ![f] = readBlock(disk', total', p, @)]
        /\ SetHandle(c, p, f)
  BY DEF PinReplace, TypeOK
<1>2. /\ Holding(p) = {}
      /\ UNCHANGED <<pool, present, stored>>
  BY DEF PinReplace
<1>3. f \in Unfixed /\ Holders(f) = {}
  BY <1>1, UnfixedUnheld DEF FirstIn
<1>4. /\ pageNum'[f] = p /\ content'[f] = readBlock(disk', total', p, content[f])
      /\ \A g \in Frames \ {f} : pageNum'[g] = pageNum[g] /\ content'[g] = content[g]
  BY <1>1 DEF TypeOK
<1>5. /\ total' \in Nat /\ total <= total'
      /\ \A q \in FilePages : (\A g \in {f} \cap ToFlush : pageNum[g] # q) => disk'[q] = disk[q]
      /\ \A g \in {f} \cap ToFlush : pageNum[g] # NO_PAGE => disk'[pageNum[g]] = content[g]
  BY <1>1, FileWritten
<1>6. ASSUME NEW q \in PageNums PROVE Contents(q)' = Contents(q)
  <2>0. q \in FilePages /\ q \in Nat /\ q # NO_PAGE
    BY Sentinels
  <2>1. CASE q \notin stored
    BY <1>2, <2>1 DEF Contents
  <2>2. CASE q \in stored /\ q = p
    <3>1. p < total
      BY <1>2, <2>2 DEF NothingLost
    <3>2. p < total'
      BY <1>5, <2>0, <2>2, <3>1 DEF TypeOK
    <3>3. content'[f] = disk'[p]
      BY <1>4, <1>5, <2>0, <2>2, <3>2, ReadInside
    <3>4. pageNum[f] # p
      BY <1>2 DEF Holding
    <3>5. disk'[p] = disk[p]
      BY <1>5, <2>0, <2>2, <3>4
    <3> QED
      BY <1>2, <1>4, <2>2, <3>3, <3>5, ContentsAre, ContentsBecome
  <2>3. CASE q \in stored /\ q # p /\ q = pageNum[f]
    <3>1. Holding(q)' = {}
      BY <1>4, <2>0, <2>3 DEF Holding, OneFramePerPage
    <3>2. Contents(q) = content[f] /\ Contents(q)' = disk'[q]
      BY <1>2, <2>3, <3>1, ContentsAre, ContentsBecome
    <3>3. disk'[q] = content[f]
      <4>1. CASE dirty[f]
        BY <1>3, <1>5, <2>0, <2>3, <4>1 DEF ToFlush
      <4>2. CASE ~dirty[f]
        <5>1. disk'[q] = disk[q]
          BY <1>5, <2>0, <4>2 DEF ToFlush
        <5>2. Holding(q) = {f}
          BY <2>0, <2>3 DEF Holding, OneFramePerPage
        <5>3. content[f] = disk[q]
          BY <1>3, <2>3, <4>2, <5>2 DEF NothingLost, OwesWrite
        <5> QED
          BY <5>1, <5>3
      <4> QED
        BY <4>1, <4>2
    <3> QED
      BY <3>2, <3>3
  <2>4. CASE q \in stored /\ q # p /\ q # pageNum[f] /\ Holding(q) # {}
    <3>1. PICK g \in Frames \ {f} : pageNum[g] = q
      BY <2>4 DEF Holding
    <3> QED
      BY <1>2, <1>4, <2>4, <3>1, ContentsAre, ContentsBecome
  <2>5. CASE q \in stored /\ q # p /\ q # pageNum[f] /\ Holding(q) = {}
    <3>1. Holding(q)' = {}
      BY <1>4, <2>5 DEF Holding
    <3>2. disk'[q] = disk[q]
      BY <1>5, <2>0, <2>5
    <3> QED
      BY <1>2, <2>5, <3>1, <3>2, ContentsAre, ContentsBecome
  <2> QED
    BY <2>1, <2>2, <2>3, <2>4, <2>5
<1>7. PagesKept
  BY <1>6 DEF PagesKept
<1>8. \A o \in Clients : handle[o].pageNum # p
  BY <1>2, AbsentUnheld
<1>9. present /\ present' /\ pool' = "open" /\ stored' = stored
  BY <1>2 DEF OpenHasFile
<1>10. \A g \in Frames : Holders(g) # {} => content'[g] = content[g]
  BY <1>3, <1>4
<1>11. Inv /\ Inv' /\ SetHandle(c, p, f)
  BY <1>1
<1> HIDE DEF RInv, Inv
<1>12. CarefulClients /\ ~Pinned(c) /\ pool = "open" /\ pageNum'[f] = p
  BY <1>4
<1> QED
  BY <1>7, <1>8, <1>9, <1>10, <1>11, <1>12, PinnedByStore, Zenon

(* The pool fails for want of a frame only when every frame's page is held. *)
LEMMA PinCrashRefines ==
  ASSUME CarefulClients, RInv, NumFrames > 1, NEW c \in Clients, NEW p \in PageNums,
         pool = "open", PinCrash(c, p)
  PROVE  Store!Fail
<1>1. pool' = "crashed" /\ UNCHANGED <<poolVars, fileVars, handle, stored>>
  BY DEF PinCrash
<1>2. PagesKept /\ HandlesKept
  BY <1>1 DEF PagesKept, HandlesKept, Contents, Holding, View, Pinned, poolVars, fileVars
<1>3. filled = NumFrames /\ Unfixed = {}
  BY FramesAssumption DEF PinCrash
<1>4. Cardinality(HeldPages) >= NumFrames
  BY <1>3, FullIsHeld DEF RInv
<1>5. present' = present
  BY <1>1 DEF fileVars
<1> QED
  BY <1>1, <1>2, <1>4, <1>5, StoreFails
-----------------------------------------------------------------------------
(* What the clients do with a page they hold. *)

LEMMA WriteRefines ==
  ASSUME CarefulClients, RInv, Inv', NEW c \in Clients, NEW d \in Data, writeData(c, d)
  PROVE  Store!Write(c, d)
<1> USE DEF RInv, Inv
<1>1. PICK f \in Frames, p \in PageNums :
        f = handle[c].data /\ p = handle[c].pageNum /\ Holding(p) = {f}
  BY HeldFrame DEF writeData
<1>2. /\ pool = "open" /\ pool' = "open" /\ present' = present
      /\ content' = [content EXCEPT ![f] = d]
      /\ handle' = [handle EXCEPT ![c].unmarked = TRUE]
      /\ stored' = stored \cup {p} /\ pageNum' = pageNum /\ disk' = disk
  BY <1>1 DEF writeData, fileVars
<1>3. \A o \in Clients : handle'[o].data = handle[o].data /\ handle'[o].pageNum = handle[o].pageNum
  BY <1>2 DEF TypeOK
<1>4. content'[f] = d /\ \A g \in Frames \ {f} : content'[g] = content[g]
  BY <1>2 DEF TypeOK
<1>5. ASSUME NEW q \in PageNums PROVE Contents(q)' = IF q = p THEN d ELSE Contents(q)
  <2>1. CASE q = p
    <3>1. pageNum'[f] = p /\ p \in stored'
      BY <1>1, <1>2 DEF Holding
    <3> QED
      BY <1>4, <2>1, <3>1, ContentsBecome
  <2>2. CASE q # p /\ q \notin stored
    BY <1>2, <2>2 DEF Contents
  <2>3. CASE q # p /\ q \in stored /\ Holding(q) # {}
    <3>1. PICK g \in Frames : pageNum[g] = q /\ g # f
      BY <1>1, <2>3 DEF Holding
    <3> QED
      BY <1>2, <1>4, <2>3, <3>1, ContentsAre, ContentsBecome
  <2>4. CASE q # p /\ q \in stored /\ Holding(q) = {}
    <3>1. Holding(q)' = {}
      BY <1>2, <2>4 DEF Holding
    <3> QED
      BY <1>2, <2>4, <3>1, ContentsAre, ContentsBecome
  <2> QED
    BY <2>1, <2>2, <2>3, <2>4
<1>6. ASSUME NEW o \in Clients PROVE View(o)' = IF handle[o].pageNum = p THEN d ELSE View(o)
  <2>1. CASE handle[o].pageNum = p
    <3>1. Pinned(o)
      BY <2>1, Sentinels DEF HandlesShaped, NoHandle
    <3>2. handle[o].data = f /\ Pinned(o)'
      BY <1>1, <1>3, <2>1, <3>1, HeldFrame DEF Pinned
    <3> QED
      BY <1>3, <1>4, <2>1, <3>2 DEF View
  <2>2. CASE handle[o].pageNum # p /\ Pinned(o)
    <3>1. handle[o].data \in Frames \ {f}
      BY <1>1, <2>2, HeldFrame DEF HandlesValid, Holding
    <3> QED
      BY <1>3, <1>4, <2>2, <3>1 DEF View, Pinned
  <2>3. CASE handle[o].pageNum # p /\ ~Pinned(o)
    BY <1>3, <2>3 DEF View, Pinned
  <2> QED
    BY <2>1, <2>2, <2>3
<1>7. p # NO_PAGE
  BY Sentinels
<1> QED
  BY <1>1, <1>2, <1>3, <1>5, <1>6, <1>7, StoreWrites

LEMMA UnpinRefines ==
  ASSUME CarefulClients, RInv, NEW c \in Clients, unpinPage(c)
  PROVE  Store!Unpin(c)
<1> USE DEF RInv, Inv
<1>1. /\ pool = "open" /\ Pinned(c) /\ handle' = [handle EXCEPT ![c] = NoHandle]
      /\ UNCHANGED <<pool, pageNum, content, present, disk, stored>>
  BY DEF unpinPage, fileVars
<1>2. handle'[c] = NoHandle /\ \A o \in Clients \ {c} : handle'[o] = handle[o]
  BY <1>1 DEF TypeOK
<1>3. PagesKept
  BY <1>1 DEF PagesKept, Contents, Holding
<1>4. handle[c].pageNum # NO_PAGE
  BY <1>1, HeldFrame, Sentinels
<1>5. handle'[c].pageNum = NO_PAGE /\ View(c)' = Unstored
  BY <1>2 DEF View, Pinned, NoHandle
<1>6. \A o \in Clients \ {c} : handle'[o].pageNum = handle[o].pageNum /\ View(o)' = View(o)
  BY <1>1, <1>2 DEF View, Pinned
<1> QED
  BY <1>1, <1>3, <1>4, <1>5, <1>6, StoreUnpins

LEMMA MarkRefines ==
  ASSUME CarefulClients, RInv, NEW c \in Clients, markDirty(c)
  PROVE  UNCHANGED Store!vars
<1>1. /\ pool = "open" /\ handle' = [handle EXCEPT ![c].unmarked = FALSE]
      /\ UNCHANGED <<pool, pageNum, content, present, disk, stored>>
  BY DEF markDirty, fileVars
<1>2. \A o \in Clients : handle'[o].data = handle[o].data /\ handle'[o].pageNum = handle[o].pageNum
  BY <1>1 DEF RInv, Inv, TypeOK
<1>3. PagesKept
  BY <1>1 DEF PagesKept, Contents, Holding
<1>4. HandlesKept
  BY <1>1, <1>2 DEF HandlesKept, View, Pinned
<1> QED
  BY <1>1, <1>3, <1>4, StoreStutters

-----------------------------------------------------------------------------
(* Writing frames to the file shows nobody anything. *)

LEMMA WritesUnseen ==
  ASSUME CarefulClients, RInv, NEW S \in SUBSET Frames,
         disk' = writeBlocks(S), IsSizeAfter(total', S),
         pool = "open", UNCHANGED <<pool, pageNum, content, present, handle, stored>>
  PROVE  UNCHANGED Store!vars
<1> USE DEF RInv, Inv
<1>1. ASSUME NEW q \in PageNums PROVE Contents(q)' = Contents(q)
  <2>1. CASE Holding(q) = {}
    <3>1. disk'[q] = disk[q]
      BY <2>1, FileWritten, Sentinels DEF Holding
    <3> QED
      BY <2>1, <3>1 DEF Contents, Holding
  <2>2. CASE Holding(q) # {}
    BY <2>2 DEF Contents, Holding
  <2> QED
    BY <2>1, <2>2
<1>2. PagesKept
  BY <1>1 DEF PagesKept
<1>3. HandlesKept
  BY DEF HandlesKept, View, Pinned
<1> QED
  BY <1>2, <1>3, StoreStutters

LEMMA ForceRefines ==
  ASSUME CarefulClients, RInv, NEW p \in PageNums, forcePage(p)
  PROVE  UNCHANGED Store!vars
<1>1. p \in Nat
  BY DEF CarefulClients
<1>2. PICK k \in Places : /\ FirstIn(k, Holding(p))
                          /\ disk' = writeBlocks({order[k]})
                          /\ IsSizeAfter(total', {order[k]})
                          /\ UNCHANGED <<pool, poolVars, present, handle, stored>>
  BY <1>1 DEF forcePage
<1>3. {order[k]} \in SUBSET Frames
  BY <1>2 DEF FirstIn, Holding
<1> QED
  BY <1>2, <1>3, WritesUnseen DEF forcePage, poolVars

LEMMA FlushRefines ==
  ASSUME CarefulClients, RInv, pool = "open", Flush,
         UNCHANGED <<pool, order, pageNum, fixCount, content, filled, handle, stored>>
  PROVE  UNCHANGED Store!vars
<1>1. ToFlush \in SUBSET Frames
  BY DEF ToFlush, Unfixed
<1> QED
  BY <1>1, WritesUnseen DEF Flush, WriteToFlush

(* When the pool is emptied, what was in its frames is what is in the file. *)
LEMMA ShutdownRefines ==
  ASSUME CarefulClients, RInv, Inv', shutdownBufferPool
  PROVE  UNCHANGED Store!vars
<1> USE DEF RInv, Inv
<1>1. CASE \E k \in 1 .. filled : fixCount[order[k]] # 0
  BY <1>1, FlushRefines DEF shutdownBufferPool
<1>2. CASE ~\E k \in 1 .. filled : fixCount[order[k]] # 0
  <2>1. /\ pool = "open" /\ WriteToFlush /\ pool' = "closed" /\ EmptyTheList
        /\ UNCHANGED <<present, handle, stored>>
    BY <1>2 DEF shutdownBufferPool, WriteToFlush
  <2>2. \A c \in Clients : handle[c] = NoHandle
    BY <1>2, NothingFixed
  <2>3. ASSUME NEW q \in PageNums PROVE Contents(q)' = Contents(q)
    <3>1. CASE q \notin stored
      BY <2>1, <3>1 DEF Contents
    <3>2. CASE q \in stored
      <4>1. Holding(q)' = {}
        BY <2>1, Sentinels DEF EmptyTheList, Holding
      <4>2. Contents(q)' = disk'[q]
        BY <2>1, <3>2, <4>1, ContentsBecome
      <4>3. CASE Holding(q) = {}
        <5>1. ToFlush \in SUBSET Frames
          BY DEF ToFlush, Unfixed
        <5>2. disk'[q] = disk[q]
          BY <2>1, <4>3, <5>1, FileWritten, Sentinels DEF WriteToFlush, Holding
        <5> QED
          BY <3>2, <4>2, <4>3, <5>2, ContentsAre
      <4>4. CASE Holding(q) # {}
        <5>1. PICK g \in Frames : g \in Holding(q)
          BY <4>4 DEF Holding
        <5>2. content[g] = disk'[q]
          BY <1>2, <2>1, <3>2, <5>1, NothingFixed, FlushSaves
        <5> QED
          BY <3>2, <4>2, <5>1, <5>2, ContentsAre DEF Holding
      <4> QED
        BY <4>3, <4>4
    <3> QED
      BY <3>1, <3>2
  <2>4. PagesKept
    BY <2>3 DEF PagesKept
  <2>5. HandlesKept
    BY <2>1, <2>2 DEF HandlesKept, View, Pinned, NoHandle
  <2> QED
    BY <2>1, <2>4, <2>5, StoreStutters
<1> QED
  BY <1>1, <1>2

-----------------------------------------------------------------------------
(* Around the life of a pool. *)

LEMMA ClosedHoldsNothing ==
  ASSUME CarefulClients, Inv, pool = "closed"
  PROVE  Store!HeldPages = {} /\ \A p \in PageNums : Holding(p) = {}
<1>1. \A c \in Clients : handle[c].pageNum = NO_PAGE
  BY ClosedIsSaved DEF NoHandle
<1>2. Store!HeldPages = {}
  BY <1>1 DEF Store!HeldPages
<1>3. \A p \in PageNums : Holding(p) = {}
  BY Sentinels DEF Inv, ClosedIsEmpty, Holding
<1> QED
  BY <1>2, <1>3

LEMMA CreateRefines ==
  ASSUME CarefulClients, RInv, createPageFile
  PROVE  Store!Create
<1>1. /\ pool = "closed" /\ present' = TRUE /\ disk' = [p \in FilePages |-> Blank]
      /\ stored' = FilePages \cap {0}
      /\ UNCHANGED <<pool, pageNum, content, handle>>
  BY DEF createPageFile, poolVars
<1>2. \A p \in PageNums : Contents(p)' = IF p = 0 THEN Blank ELSE Unstored
  <2>1. \A p \in PageNums : Holding(p)' = {}
    BY <1>1, ClosedHoldsNothing DEF RInv, Holding
  <2> QED
    BY <1>1, <2>1, Sentinels DEF Contents
<1>3. HandlesKept
  BY <1>1 DEF HandlesKept, View, Pinned
<1> QED
  BY <1>1, <1>2, <1>3, ClosedHoldsNothing DEF RInv, Store!Create, HandlesKept, View

LEMMA DestroyRefines ==
  ASSUME CarefulClients, RInv, destroyPageFile
  PROVE  Store!Destroy
<1>1. /\ pool = "closed" /\ present' = FALSE /\ stored' = {}
      /\ UNCHANGED <<pool, pageNum, content, handle>>
  BY DEF destroyPageFile, poolVars
<1>2. \A p \in PageNums : Contents(p)' = Unstored
  BY <1>1 DEF Contents
<1>3. HandlesKept
  BY <1>1 DEF HandlesKept, View, Pinned
<1> QED
  BY <1>1, <1>2, <1>3, ClosedHoldsNothing DEF RInv, Store!Destroy, HandlesKept, View

LEMMA InitPoolRefines ==
  ASSUME CarefulClients, RInv, initBufferPool
  PROVE  UNCHANGED Store!vars \/ Store!Fail
<1>1. /\ pool = "closed" /\ pool' = IF present THEN "open" ELSE "crashed"
      /\ EmptyTheList /\ UNCHANGED <<present, disk, handle, stored>>
  BY DEF initBufferPool, fileVars
<1>2. \A p \in PageNums : Holding(p) = {} /\ Holding(p)' = {}
  BY <1>1, ClosedHoldsNothing, Sentinels DEF RInv, EmptyTheList, Holding
<1>3. PagesKept
  BY <1>1, <1>2 DEF PagesKept, Contents
<1>4. HandlesKept
  BY <1>1, ClosedIsSaved DEF RInv, HandlesKept, View, Pinned, NoHandle
<1> QED
  BY <1>1, <1>3, <1>4, StoreStutters, StoreFails

-----------------------------------------------------------------------------
LEMMA RInvInit ==
  ASSUME CarefulClients, Init
  PROVE  RInv
BY InitInv DEF RInv, OpenHasFile, Init

LEMMA RInvStep ==
  ASSUME CarefulClients, RInv, [Next]_vars
  PROVE  RInv'
<1>1. Inv'
  BY StepKeepsInv DEF RInv
<1>2. OpenHasFile'
  BY DEF RInv, OpenHasFile, Next, vars, poolVars, fileVars, createPageFile, destroyPageFile,
         initBufferPool, pinPage, PinHit, PinEmpty, PinReplace, PinCrash, writeData, markDirty,
         unpinPage, unpinStray, forcePage, forceFlushPool, shutdownBufferPool, Flush, WriteToFlush
<1> QED
  BY <1>1, <1>2 DEF RInv

LEMMA InitRefines ==
  ASSUME CarefulClients, Init
  PROVE  Store!Init
BY DEF Init, Store!Init, Contents, Pinned, NoHandle

(* Every step of the pool is a step of the store, or shows its clients nothing. *)
LEMMA StepRefines ==
  ASSUME CarefulClients, NumFrames > 1, RInv, [Next]_vars
  PROVE  [Store!Next]_(Store!vars)
<1>0. Inv'
  BY RInvStep DEF RInv
<1>1. CASE UNCHANGED vars
  BY <1>1 DEF vars, poolVars, fileVars, Store!vars, Contents, Holding, Pinned
<1>2. CASE createPageFile
  BY <1>2, CreateRefines DEF Store!Next
<1>3. CASE destroyPageFile
  BY <1>3, DestroyRefines DEF Store!Next
<1>4. CASE initBufferPool
  BY <1>4, InitPoolRefines DEF Store!Next
<1>5. ASSUME NEW c \in Clients, NEW p \in PageNums, pinPage(c, p)
      PROVE  Store!Next
  <2>1. pool = "open" /\ ~Pinned(c)
    BY <1>5 DEF pinPage
  <2>2. CASE PinHit(c, p) \/ PinEmpty(c, p) \/ PinReplace(c, p)
    BY <1>0, <2>1, <2>2, PinHitRefines, PinEmptyRefines, PinReplaceRefines DEF Store!Next
  <2>3. CASE PinCrash(c, p)
    BY <2>1, <2>3, PinCrashRefines DEF Store!Next
  <2> QED
    BY <1>5, <2>2, <2>3 DEF pinPage
<1>6. ASSUME NEW c \in Clients, NEW d \in Data, writeData(c, d)
      PROVE  Store!Next
  BY <1>0, <1>6, WriteRefines DEF Store!Next
<1>7. ASSUME NEW c \in Clients, markDirty(c)
      PROVE  UNCHANGED Store!vars
  BY <1>7, MarkRefines
<1>8. ASSUME NEW c \in Clients, unpinPage(c)
      PROVE  Store!Next
  BY <1>8, UnpinRefines DEF Store!Next
<1>9. ASSUME NEW p \in PageNums, unpinStray(p)
      PROVE  FALSE
  BY <1>9 DEF unpinStray, CarefulClients
<1>10. ASSUME NEW p \in PageNums, forcePage(p)
       PROVE  UNCHANGED Store!vars
  BY <1>10, ForceRefines
<1>11. CASE forceFlushPool
  BY <1>11, FlushRefines DEF forceFlushPool
<1>12. CASE shutdownBufferPool
  BY <1>0, <1>12, ShutdownRefines
<1> QED
  BY <1>1, <1>2, <1>3, <1>4, <1>5, <1>6, <1>7, <1>8, <1>9, <1>10, <1>11, <1>12 DEF Next

(* A client of the pool cannot tell it from a store of pages: what was stored last is
   what everybody who pins the page reads, through eviction, flush, shutdown and reopen,
   and pinPage fails only when as many different pages are held as there are frames. *)
THEOREM PoolIsAStore ==
  ASSUME CarefulClients, NumFrames > 1
  PROVE  Spec => ImplementsPageStore
<1>1. Init => RInv /\ Store!Init
  BY RInvInit, InitRefines
<1>2. RInv /\ [Next]_vars => RInv'
  BY RInvStep
<1>3. RInv /\ [Next]_vars => [Store!Next]_(Store!vars)
  BY StepRefines
<1> QED
  BY <1>1, <1>2, <1>3, PTL DEF Spec, ImplementsPageStore, Store!Spec
-----------------------------------------------------------------------------
(* The order of the list, for any clients.                                   *)

Queue == [k \in 1 .. filled |-> pageNum[order[k]]]
Kept == {pageNum[f] : f \in Frames \ Unfixed}

EmptyIsUnfixed == \A f \in Frames : pageNum[f] = NO_PAGE => f \in Unfixed

ListInv ==
    /\ order \in [Places -> Frames]
    /\ pageNum \in [Frames -> PageNums \cup {NO_PAGE}]
    /\ fixCount \in [Frames -> Int]
    /\ filled \in 0 .. NumFrames
    /\ ListComplete
    /\ OneFramePerPage
    /\ FilledFirst
    /\ EmptyIsUnfixed

(* The handles of clients that may unpin what they do not hold. *)
HandlesNamed ==
    /\ handle \in [Clients -> [pageNum : PageNums \cup {NO_PAGE}, data : Frames \cup {NULL},
                               unmarked : BOOLEAN]]
    /\ \A c \in Clients : Pinned(c) => handle[c].pageNum # NO_PAGE

KeptIsQueued == Kept \subseteq Policy!ToSet(Queue)

(* A sequence without its i-th element. *)
LEMMA RemovedFrom ==
  ASSUME NEW S, NEW s \in Seq(S), NEW i \in 1 .. Len(s)
  PROVE  Policy!RemoveAt(s, i) = [k \in 1 .. Len(s) - 1 |-> IF k < i THEN s[k] ELSE s[k+1]]
<1> DEFINE a == SubSeq(s, 1, i - 1)
           b == SubSeq(s, i + 1, Len(s))
<1>1. a \in Seq(S) /\ Len(a) = i - 1 /\ \A k \in 1 .. i - 1 : a[k] = s[k]
  OBVIOUS
<1>2. b \in Seq(S) /\ Len(b) = Len(s) - i /\ \A k \in 1 .. Len(s) - i : b[k] = s[k + i]
  OBVIOUS
<1> HIDE DEF a, b
<1>3. /\ a \o b \in Seq(S) /\ Len(a \o b) = Len(a) + Len(b)
      /\ \A k \in 1 .. Len(a) + Len(b) : (a \o b)[k] = IF k <= Len(a) THEN a[k] ELSE b[k - Len(a)]
  BY <1>1, <1>2, ConcatProperties
<1> DEFINE t == [k \in 1 .. Len(s) - 1 |-> IF k < i THEN s[k] ELSE s[k + 1]]
<1>4. t \in Seq(S) /\ Len(t) = Len(s) - 1
  OBVIOUS
<1>5. ASSUME NEW k \in 1 .. Len(s) - 1 PROVE (a \o b)[k] = t[k]
  <2>1. CASE k < i
    BY <1>1, <1>2, <1>3, <2>1
  <2>2. CASE ~(k < i)
    <3>1. k - (i - 1) \in 1 .. Len(s) - i
      BY <2>2
    <3>2. (a \o b)[k] = b[k - (i - 1)]
      BY <1>1, <1>2, <1>3, <2>2
    <3>3. b[k - (i - 1)] = s[(k - (i - 1)) + i]
      BY <1>2, <3>1
    <3>4. (k - (i - 1)) + i = k + 1
      OBVIOUS
    <3> QED
      BY <2>2, <3>2, <3>3, <3>4
  <2> QED
    BY <2>1, <2>2
<1> HIDE DEF t
<1>6. Len(a \o b) = Len(t)
  BY <1>1, <1>2, <1>3, <1>4
<1>7. a \o b = t
  BY <1>3, <1>4, <1>5, <1>6, SeqEqual
<1> QED
  BY <1>7 DEF Policy!RemoveAt, a, b, t

LEMMA QueueIs ==
  ASSUME ListInv
  PROVE  /\ Queue \in Seq(PageNums) /\ Len(Queue) = filled /\ filled \in Nat
         /\ \A k \in 1 .. filled : /\ k \in Places /\ order[k] \in Frames
                                  /\ Queue[k] = pageNum[order[k]]
                                  /\ pageNum[order[k]] # NO_PAGE
<1> USE DEF ListInv
<1>1. filled \in Nat /\ filled <= NumFrames
  BY FramesAssumption
<1>2. ASSUME NEW k \in 1 .. filled
      PROVE  /\ k \in Places /\ order[k] \in Frames /\ pageNum[order[k]] # NO_PAGE
             /\ pageNum[order[k]] \in PageNums
  <2>1. k \in Places /\ k <= filled
    BY <1>1, FramesAssumption DEF Places
  <2> QED
    BY <2>1 DEF FilledFirst
<1>3. Queue \in Seq(PageNums) /\ Len(Queue) = filled
  BY <1>1, <1>2 DEF Queue
<1> QED
  BY <1>1, <1>2, <1>3 DEF Queue

LEMMA KeptInQueue ==
  ASSUME ListInv
  PROVE  KeptIsQueued
<1> USE DEF ListInv
<1> SUFFICES ASSUME NEW f \in Frames, f \notin Unfixed
             PROVE  pageNum[f] \in Policy!ToSet(Queue)
  BY DEF Kept, KeptIsQueued
<1>1. PICK k \in Places : order[k] = f
  BY DEF ListComplete
<1>2. k \in 1 .. filled
  <2>1. k <= filled
    BY <1>1 DEF EmptyIsUnfixed, FilledFirst
  <2> QED
    BY <2>1, FramesAssumption DEF Places
<1>3. Queue[k] = pageNum[f] /\ k \in DOMAIN Queue
  BY <1>1, <1>2 DEF Queue
<1> QED
  BY <1>3 DEF Policy!ToSet

LEMMA Waiting ==
  ASSUME ListInv, NEW p, Holding(p) = {}
  PROVE  ~Policy!Contains(Queue, p)
BY QueueIs DEF Policy!Contains, Holding

LEMMA ListInit ==
  ASSUME Init
  PROVE  ListInv /\ HandlesNamed
<1>1. order \in [Places -> Frames] /\ filled \in 0 .. NumFrames
      /\ pageNum \in [Frames -> PageNums \cup {NO_PAGE}] /\ fixCount \in [Frames -> Int]
  BY FramesAssumption DEF Init, Places, Frames
<1>2. \A f \in Frames : f + 1 \in Places /\ order[f + 1] = f
  BY FramesAssumption DEF Init, Places, Frames
<1>3. ListComplete
  <2>1. \A f \in Frames : \E k \in Places : order[k] = f
    BY <1>2
  <2>2. \A i, j \in Places : order[i] = order[j] => i = j
    BY FramesAssumption DEF Init, Places
  <2> QED
    BY <2>1, <2>2 DEF ListComplete
<1>4. OneFramePerPage /\ EmptyIsUnfixed
  BY DEF OneFramePerPage, EmptyIsUnfixed, Unfixed, Init
<1>5. FilledFirst
  BY <1>1, FramesAssumption DEF FilledFirst, Init, Places
<1>6. NoHandle \in [pageNum : PageNums \cup {NO_PAGE}, data : Frames \cup {NULL}, unmarked : BOOLEAN]
  BY DEF NoHandle
<1>7. HandlesNamed
  BY <1>6 DEF HandlesNamed, Init, Pinned, NoHandle
<1> QED
  BY <1>1, <1>3, <1>4, <1>5, <1>7 DEF ListInv

(* What a step may do to the list: nothing, empty it, count at a frame that holds a
   page, or bring in a page. *)
ListKept == UNCHANGED <<order, pageNum, fixCount, filled>>

Counted ==
    /\ UNCHANGED <<order, pageNum, filled>>
    /\ \E f \in Frames, n \in Int : pageNum[f] # NO_PAGE /\ fixCount' = [fixCount EXCEPT ![f] = n]

LEMMA CountedAt ==
  ASSUME ListInv, NEW p, p # NO_PAGE, NEW k \in Places, FirstIn(k, Holding(p)),
         \/ fixCount' = [fixCount EXCEPT ![order[k]] = @ + 1]
         \/ fixCount' = [fixCount EXCEPT ![order[k]] = @ - 1],
         UNCHANGED <<order, pageNum, filled>>
  PROVE  Counted
<1>1. order[k] \in Frames /\ pageNum[order[k]] # NO_PAGE /\ fixCount[order[k]] \in Int
  BY DEF ListInv, FirstIn, Holding
<1>2. PICK n \in Int : fixCount' = [fixCount EXCEPT ![order[k]] = n]
  BY <1>1
<1> QED
  BY <1>1, <1>2 DEF Counted

LEMMA HandlesStayNamed ==
  ASSUME NO_PAGE \notin PageNums, HandlesNamed, ListInv, [Next]_vars
  PROVE  HandlesNamed'
<1> USE DEF HandlesNamed
<1>1. ASSUME NEW c \in Clients, NEW p \in PageNums, NEW f \in Frames, SetHandle(c, p, f)
      PROVE  HandlesNamed'
  BY <1>1 DEF SetHandle, Pinned
<1>2. ASSUME handle' = handle PROVE HandlesNamed'
  BY <1>2 DEF Pinned
<1>3. \A k \in Places : order[k] \in Frames
  BY DEF ListInv
<1>4. ASSUME NEW c \in Clients, NEW p \in PageNums, pinPage(c, p)
      PROVE  HandlesNamed'
  <2>1. CASE PinHit(c, p)
    BY <1>1, <1>3, <2>1 DEF PinHit
  <2>2. CASE PinEmpty(c, p)
    BY <1>1, <1>3, <2>2 DEF PinEmpty
  <2>3. CASE PinReplace(c, p)
    BY <1>1, <1>3, <2>3 DEF PinReplace
  <2>4. CASE PinCrash(c, p)
    BY <1>2, <2>4 DEF PinCrash
  <2> QED
    BY <1>4, <2>1, <2>2, <2>3, <2>4 DEF pinPage
<1>5. ASSUME NEW c \in Clients, Pinned(c),
             \E u \in BOOLEAN : handle' = [handle EXCEPT ![c].unmarked = u]
      PROVE  HandlesNamed'
  BY <1>5 DEF Pinned
<1>6. ASSUME NEW c \in Clients, (\E d \in Data : writeData(c, d)) \/ markDirty(c)
      PROVE  HandlesNamed'
  BY <1>5, <1>6 DEF writeData, markDirty
<1>7. ASSUME NEW c \in Clients, unpinPage(c)
      PROVE  HandlesNamed'
  <2>1. handle' = [handle EXCEPT ![c] = NoHandle]
    BY <1>7 DEF unpinPage
  <2> QED
    BY <2>1 DEF Pinned, NoHandle
<1>8. CASE \/ createPageFile \/ destroyPageFile \/ initBufferPool
           \/ \E p \in PageNums : unpinStray(p) \/ forcePage(p)
           \/ forceFlushPool \/ shutdownBufferPool \/ UNCHANGED vars
  BY <1>2, <1>8 DEF createPageFile, destroyPageFile, initBufferPool, unpinStray, forcePage,
                    forceFlushPool, shutdownBufferPool, vars
<1> QED
  BY <1>4, <1>6, <1>7, <1>8 DEF Next

LEMMA StepsOfTheList ==
  ASSUME NO_PAGE \notin PageNums, ListInv, HandlesNamed, [Next]_vars
  PROVE  \/ ListKept \/ Counted \/ EmptyTheList
         \/ \E c \in Clients, p \in PageNums : PinEmpty(c, p) \/ PinReplace(c, p)
<1>1. ASSUME NEW c \in Clients, NEW p \in PageNums, PinHit(c, p)
      PROVE  Counted
  BY <1>1, CountedAt DEF PinHit
<1>2. ASSUME NEW c \in Clients, unpinPage(c)
      PROVE  Counted
  <2>1. handle[c].pageNum # NO_PAGE
    BY <1>2 DEF unpinPage, HandlesNamed
  <2> QED
    BY <1>2, <2>1, CountedAt DEF unpinPage
<1>3. ASSUME NEW p \in PageNums, unpinStray(p)
      PROVE  Counted \/ ListKept
  BY <1>3, CountedAt DEF unpinStray, ListKept
<1>4. ASSUME NEW c \in Clients, NEW p \in PageNums, pinPage(c, p)
      PROVE  Counted \/ ListKept \/ PinEmpty(c, p) \/ PinReplace(c, p)
  BY <1>1, <1>4 DEF pinPage, PinCrash, ListKept, poolVars
<1>5. CASE createPageFile \/ destroyPageFile \/ UNCHANGED vars
  BY <1>5 DEF createPageFile, destroyPageFile, ListKept, vars, poolVars
<1>6. ASSUME NEW c \in Clients, (\E d \in Data : writeData(c, d)) \/ markDirty(c)
      PROVE  ListKept
  BY <1>6 DEF writeData, markDirty, ListKept
<1>7. CASE initBufferPool
  BY <1>7 DEF initBufferPool
<1>8. CASE (\E p \in PageNums : forcePage(p)) \/ forceFlushPool \/ shutdownBufferPool
  BY <1>8 DEF forcePage, forceFlushPool, shutdownBufferPool, ListKept, poolVars
<1> QED
  BY <1>2, <1>3, <1>4, <1>5, <1>6, <1>7, <1>8 DEF Next

(* Nothing moves. *)
LEMMA ListKeptRefines ==
  ASSUME ListInv, ListKept
  PROVE  ListInv' /\ UNCHANGED Policy!vars
<1>1. ListInv'
  BY DEF ListInv, ListKept, ListComplete, OneFramePerPage, FilledFirst, EmptyIsUnfixed, Unfixed
<1>2. UNCHANGED Policy!vars
  BY DEF ListKept, Policy!vars, Unfixed
<1> QED
  BY <1>1, <1>2

(* Another count at a frame that holds a page. *)
LEMMA CountedRefines ==
  ASSUME ListInv, Counted
  PROVE  ListInv' /\ (KeptIsQueued' => Policy!KeepOrRelease)
<1>1. ListInv'
  <2>1. fixCount' \in [Frames -> Int]
    BY DEF ListInv, Counted
  <2>2. EmptyIsUnfixed'
    BY DEF ListInv, Counted, EmptyIsUnfixed, Unfixed
  <2> QED
    BY <2>1, <2>2 DEF ListInv, Counted, ListComplete, OneFramePerPage, FilledFirst
<1>2. Queue' = Queue
  BY DEF Counted, Queue
<1>3. KeptIsQueued' => Kept' \in SUBSET Policy!ToSet(Queue)
  BY <1>2 DEF KeptIsQueued, Policy!ToSet
<1> QED
  BY <1>1, <1>2, <1>3 DEF Policy!KeepOrRelease, Queue, Kept

(* The pool is opened or shut down. *)
LEMMA EmptiedRefines ==
  ASSUME EmptyTheList
  PROVE  ListInv' /\ Policy!Clear
<1>1. order' \in [Places -> Frames] /\ filled' \in 0 .. NumFrames
      /\ pageNum' \in [Frames -> PageNums \cup {NO_PAGE}] /\ fixCount' \in [Frames -> Int]
  BY FramesAssumption DEF EmptyTheList, Places, Frames
<1>2. ListComplete'
  <2>1. \A f \in Frames : f + 1 \in Places /\ order'[f + 1] = f
    BY FramesAssumption DEF EmptyTheList, Places, Frames
  <2>2. \A f \in Frames : \E k \in Places : order'[k] = f
    BY <2>1
  <2>3. \A i, j \in Places : order'[i] = order'[j] => i = j
    BY FramesAssumption DEF EmptyTheList, Places
  <2> QED
    BY <2>2, <2>3 DEF ListComplete
<1>3. OneFramePerPage' /\ EmptyIsUnfixed'
  BY DEF OneFramePerPage, EmptyIsUnfixed, Unfixed, EmptyTheList
<1>4. FilledFirst'
  BY <1>1, FramesAssumption DEF FilledFirst, EmptyTheList, Places
<1>5. Queue' = <<>>
  BY DEF EmptyTheList, Queue
<1>6. Kept' = {}
  BY DEF EmptyTheList, Kept, Unfixed
<1> QED
  BY <1>1, <1>2, <1>3, <1>4, <1>5, <1>6 DEF ListInv, Policy!Clear, Queue, Kept

(* A page enters a frame that nobody has fixed: what else is kept stays. *)
LEMMA KeptGrows ==
  ASSUME ListInv, NEW f \in Unfixed, NEW p,
         fixCount' = [fixCount EXCEPT ![f] = 1], pageNum' = [pageNum EXCEPT ![f] = p]
  PROVE  Kept' = Kept \cup {p}
<1> USE DEF ListInv
<1>1. f \in Frames /\ f \notin Unfixed' /\ pageNum'[f] = p
  BY DEF Unfixed
<1>2. \A g \in Frames \ {f} : (g \in Unfixed' <=> g \in Unfixed) /\ pageNum'[g] = pageNum[g]
  BY DEF Unfixed
<1>3. Kept' \subseteq Kept \cup {p}
  BY <1>1, <1>2 DEF Kept
<1>4. Kept \cup {p} \subseteq Kept'
  BY <1>1, <1>2 DEF Kept
<1> QED
  BY <1>3, <1>4

LEMMA PinEmptyLoads ==
  ASSUME NO_PAGE \notin PageNums, ListInv, NEW c \in Clients, NEW p \in PageNums, PinEmpty(c, p)
  PROVE  ListInv' /\ Policy!Load(p)
<1> USE DEF ListInv
<1>1. PICK k \in Places, f \in Frames :
        /\ f = order[k]
        /\ FirstIn(k, Holding(NO_PAGE))
        /\ fixCount' = [fixCount EXCEPT ![f] = 1]
        /\ pageNum' = [pageNum EXCEPT ![f] = p]
  BY DEF PinEmpty
<1>2. Holding(p) = {} /\ filled < NumFrames /\ filled' = filled + 1 /\ order' = order
  BY DEF PinEmpty
<1>3. pageNum[f] = NO_PAGE /\ f \in Unfixed
  BY <1>1 DEF FirstIn, Holding, EmptyIsUnfixed
<1>4. k = filled + 1 /\ filled \in Nat
  BY <1>1, FirstEmpty, FramesAssumption
<1>5. ListInv'
  <2>1. pageNum' \in [Frames -> PageNums \cup {NO_PAGE}] /\ fixCount' \in [Frames -> Int]
    BY <1>1
  <2>2. filled' \in 0 .. NumFrames
    BY <1>2, <1>4, FramesAssumption
  <2>3. ListComplete'
    BY <1>2 DEF ListComplete
  <2>4. OneFramePerPage'
    BY <1>1, <1>2, <1>3 DEF OneFramePerPage, Holding
  <2>5. FilledFirst'
    BY <1>1, <1>2, <1>4, FilledGrows
  <2>6. EmptyIsUnfixed'
    BY <1>1 DEF EmptyIsUnfixed, Unfixed
  <2> QED
    BY <1>2, <2>1, <2>2, <2>3, <2>4, <2>5, <2>6
<1>6. Queue' = Append(Queue, p)
  <2>1. Queue' = [i \in 1 .. filled + 1 |-> IF i <= filled THEN pageNum[order[i]] ELSE p]
    <3>1. ASSUME NEW i \in 1 .. filled + 1
          PROVE  pageNum'[order'[i]] = IF i <= filled THEN pageNum[order[i]] ELSE p
      <4>1. CASE i <= filled
        <5>1. i \in Places /\ order[i] \in Frames /\ pageNum[order[i]] # NO_PAGE
          BY <1>4, <4>1, QueueIs
        <5> QED
          BY <1>1, <1>2, <1>3, <4>1, <5>1
      <4>2. CASE ~(i <= filled)
        <5>1. i = k
          BY <1>4, <4>2
        <5> QED
          BY <1>1, <1>2, <4>2, <5>1
      <4> QED
        BY <4>1, <4>2
    <3> QED
      BY <1>2, <3>1 DEF Queue
  <2>2. filled \in Nat
    BY <1>4
  <2>3. Append(Queue, p) = [i \in 1 .. filled + 1 |-> IF i <= filled THEN pageNum[order[i]] ELSE p]
    BY ONLY <2>2 DEF Queue
  <2> QED
    BY <2>1, <2>3
<1>7. Kept' = Kept \cup {p}
  BY <1>1, <1>3, KeptGrows
<1>8. Len(Queue) < NumFrames /\ ~Policy!Contains(Queue, p)
  BY <1>2, QueueIs, Waiting
<1> QED
  BY <1>5, <1>6, <1>7, <1>8 DEF Policy!Load, Queue, Kept

LEMMA PinReplaceReplaces ==
  ASSUME NO_PAGE \notin PageNums, ListInv, NEW c \in Clients, NEW p \in PageNums, PinReplace(c, p)
  PROVE  ListInv' /\ Policy!Replace(p)
<1> USE DEF ListInv
<1>1. PICK k \in Places, f \in Frames :
        /\ f = order[k]
        /\ FirstIn(k, Unfixed)
        /\ order' = MoveToEnd(k)
        /\ fixCount' = [fixCount EXCEPT ![f] = 1]
        /\ pageNum' = [pageNum EXCEPT ![f] = p]
  BY DEF PinReplace
<1>2. Holding(p) = {} /\ filled = NumFrames /\ filled' = filled
  BY DEF PinReplace
<1>3. f \in Unfixed
  BY <1>1 DEF FirstIn
<1>4. Queue \in Seq(PageNums) /\ Len(Queue) = NumFrames /\ NumFrames \in Nat
      /\ Places = 1 .. NumFrames /\ DOMAIN Queue = Places
      /\ \A i \in Places : Queue[i] = pageNum[order[i]] /\ Queue[i] # NO_PAGE
  BY <1>2, QueueIs, FramesAssumption DEF Places, Queue
<1>5. order' \in [Places -> Frames] /\ ListComplete'
  BY <1>1, MovedToEnd
<1>6. \A g \in Frames : pageNum'[g] # NO_PAGE
  BY <1>1, <1>4 DEF ListComplete
<1>7. ListInv'
  <2>1. pageNum' \in [Frames -> PageNums \cup {NO_PAGE}] /\ fixCount' \in [Frames -> Int]
    BY <1>1
  <2>2. OneFramePerPage'
    BY <1>1, <1>2 DEF OneFramePerPage, Holding
  <2>3. FilledFirst'
    BY <1>2, <1>4, <1>5, <1>6 DEF FilledFirst
  <2>4. EmptyIsUnfixed'
    BY <1>6 DEF EmptyIsUnfixed
  <2> QED
    BY <1>2, <1>5, <2>1, <2>2, <2>3, <2>4
<1>8. Queue' = Append(Policy!RemoveAt(Queue, k), p)
  <2>1. k \in 1 .. Len(Queue)
    BY <1>4
  <2>2. Policy!RemoveAt(Queue, k) =
            [i \in 1 .. Len(Queue) - 1 |-> IF i < k THEN Queue[i] ELSE Queue[i + 1]]
    BY <1>4, <2>1, RemovedFrom
  <2> DEFINE rest == [i \in 1 .. NumFrames - 1 |-> IF i < k THEN Queue[i] ELSE Queue[i + 1]]
  <2>3. Append(rest, p) = [i \in 1 .. NumFrames |-> IF i < NumFrames THEN rest[i] ELSE p]
    BY <1>4, FramesAssumption
  <2>4. ASSUME NEW i \in Places
        PROVE  pageNum'[order'[i]] = IF i < NumFrames THEN rest[i] ELSE p
    <3>1. CASE i = NumFrames
      <4>1. order'[i] = f
        BY <1>1, <1>4, <3>1 DEF MoveToEnd
      <4> QED
        BY <1>1, <1>4, <3>1, <4>1
    <3>2. CASE i # NumFrames /\ i < k
      <4>1. order'[i] = order[i] /\ order[i] # f /\ rest[i] = Queue[i]
        BY <1>1, <1>4, <3>2 DEF MoveToEnd, ListComplete
      <4> QED
        BY <1>1, <1>4, <3>2, <4>1
    <3>3. CASE i # NumFrames /\ ~(i < k)
      <4>1. i + 1 \in Places /\ i + 1 # k
        BY <1>4, <3>3
      <4>2. order'[i] = order[i + 1] /\ order[i + 1] # f /\ rest[i] = Queue[i + 1]
        BY <1>1, <1>4, <3>3, <4>1 DEF MoveToEnd, ListComplete
      <4> QED
        BY <1>1, <1>4, <3>3, <4>1, <4>2
    <3> QED
      BY <3>1, <3>2, <3>3
  <2> HIDE DEF rest
  <2>5. Queue' = [i \in 1 .. NumFrames |-> IF i < NumFrames THEN rest[i] ELSE p]
    BY <1>2, <1>4, <2>4 DEF Queue
  <2> QED
    BY <1>4, <2>2, <2>3, <2>5 DEF rest
<1>9. Kept' = Kept \cup {p}
  BY <1>1, <1>3, KeptGrows
<1>10. Queue[k] \notin Kept
  <2>1. ASSUME NEW g \in Frames \ Unfixed PROVE pageNum[g] # Queue[k]
    BY <1>1, <1>3, <1>4 DEF OneFramePerPage
  <2> QED
    BY <2>1 DEF Kept
<1>11. \A j \in 1 .. k - 1 : Queue[j] \in Kept
  <2> SUFFICES ASSUME NEW j \in 1 .. k - 1 PROVE Queue[j] \in Kept
    OBVIOUS
  <2>1. j \in Places /\ order[j] \notin Unfixed
    BY <1>1, <1>4 DEF FirstIn
  <2> QED
    BY <1>4, <2>1 DEF Kept
<1>12. ~Policy!Contains(Queue, p)
  BY <1>2, Waiting
<1>13. Policy!Replace(p)
  BY <1>1, <1>4, <1>8, <1>9, <1>10, <1>11, <1>12 DEF Policy!Replace, Queue, Kept
<1> QED
  BY <1>7, <1>13

LEMMA ListStep ==
  ASSUME NO_PAGE \notin PageNums, ListInv, HandlesNamed, [Next]_vars
  PROVE  /\ ListInv' /\ HandlesNamed'
         /\ KeptIsQueued' => [Policy!Next]_(Policy!vars)
<1>1. HandlesNamed'
  BY HandlesStayNamed
<1>2. CASE ListKept
  BY <1>1, <1>2, ListKeptRefines
<1>3. CASE Counted
  BY <1>1, <1>3, CountedRefines DEF Policy!Next
<1>4. CASE EmptyTheList
  BY <1>1, <1>4, EmptiedRefines DEF Policy!Next
<1>5. CASE \E c \in Clients, p \in PageNums : PinEmpty(c, p) \/ PinReplace(c, p)
  BY <1>1, <1>5, PinEmptyLoads, PinReplaceReplaces DEF Policy!Next
<1> QED
  BY <1>2, <1>3, <1>4, <1>5, StepsOfTheList

(* For any clients, iFrameFilled frames have pages and they are the first of the list:
   the search for an empty frame finds it before the list ends. *)
THEOREM FramesFillInOrder ==
  ASSUME NO_PAGE \notin PageNums
  PROVE  Spec => []FilledFirst
<1>1. Init => ListInv /\ HandlesNamed
  BY ListInit
<1>2. ListInv /\ HandlesNamed /\ [Next]_vars => ListInv' /\ HandlesNamed'
  BY ListStep
<1>3. ListInv => FilledFirst
  BY DEF ListInv
<1> QED
  BY <1>1, <1>2, <1>3, PTL DEF Spec

(* For any clients, the page that pinPage replaces is the first that came of those whose
   fix count is 0, and a hit, an unpin or a flush moves none. *)
THEOREM FirstInFirstOut ==
  ASSUME NO_PAGE \notin PageNums
  PROVE  Spec => EvictsFirstIn
<1>1. Init => ListInv /\ HandlesNamed
  BY ListInit
<1>2. Init => Policy!Init
  BY DEF Init, Policy!Init, Unfixed
<1>3. ListInv /\ HandlesNamed /\ [Next]_vars =>
          ListInv' /\ HandlesNamed' /\ (KeptIsQueued' => [Policy!Next]_(Policy!vars))
  BY ListStep
<1>4. ListInv => KeptIsQueued
  BY KeptInQueue
<1> QED
  BY <1>1, <1>2, <1>3, <1>4, PTL DEF Spec, EvictsFirstIn, Policy!Spec
=============================================================================

------------------------ MODULE BufferPoolLRUProofs -------------------------
(***************************************************************************)
(* Theorems about BufferPoolLRU, for any finite number of clients and any  *)
(* number of pages and of frames: it implements PageStore for clients that *)
(* are careful, and LRUPolicy for any clients, until the list breaks.      *)
(***************************************************************************)
EXTENDS BufferPoolLRU, FiniteSetTheorems, SequenceTheorems, WellFoundedInduction, TLAPS

(* No page is in two nodes. *)
Distinct == \A i, j \in Places : list[i].pageNum = list[j].pageNum => i = j

(* The fix count of a node counts the clients that hold its page. *)
HoldersOf(p) == {c \in Clients : handle[c] = p}
Counted == \A i \in Places : list[i].fixCount = Cardinality(HoldersOf(list[i].pageNum))

HandlesListed == \A c \in Clients : handle[c] # NO_PAGE => Holding(handle[c]) # {}
WritersHold == \A c \in unmarked : handle[c] # NO_PAGE

ClosedIsEmpty == pool = "closed" => list = <<>> /\ ~evicted /\ ~cut
OpenHasFile == pool = "open" => present

(* The bytes that were stored are in the file, or will come there: the node is dirty, or
   a client still has to mark it. *)
OwesMark(p) == \E c \in unmarked : handle[c] = p
InFile(p, d) == p < total /\ disk[p] = d
Safe(n) == n.dirty \/ OwesMark(n.pageNum) \/ InFile(n.pageNum, n.content)

NothingLost ==
    /\ \A p \in stored : Holding(p) = {} => p < total
    /\ \A i \in Places : list[i].pageNum \in stored => Safe(list[i])

(* Only a client that was not careful makes the end lose its next node. *)
CarefulNotCut == careful => ~cut

Inv ==
    /\ TypeOK
    /\ Distinct /\ Counted
    /\ HandlesListed /\ WritersHold
    /\ ClosedIsEmpty /\ OpenHasFile
    /\ NothingLost
    /\ CarefulNotCut

Node == [pageNum : PageNums, frameNum : Nat, fixCount : Nat, dirty : BOOLEAN, content : Data]

-----------------------------------------------------------------------------
(* Places in the list. *)

LEMMA Sentinels ==
  PageNums \subseteq Nat /\ NO_PAGE \notin PageNums
<1>1. NO_PAGE \notin Nat
  BY DEF NO_PAGE
<1> QED
  BY <1>1, PagesAssumption

LEMMA ListTyped ==
  ASSUME TypeOK
  PROVE  /\ list \in Seq(Node)
         /\ Len(list) \in Nat /\ Len(list) <= NumFrames
         /\ Places = 1 .. Len(list) /\ Places \in SUBSET Nat
         /\ \A i \in Places : list[i] \in Node
<1>1. list \in Seq(Node)
  BY DEF TypeOK, Node
<1>2. Len(list) \in Nat /\ Places = 1 .. Len(list)
  BY <1>1 DEF Places
<1>3. \A i \in Places : list[i] \in Node
  BY <1>1, <1>2
<1> QED
  BY <1>1, <1>2, <1>3 DEF TypeOK

(* The first node with a page is the only one. *)
LEMMA FirstIs ==
  ASSUME TypeOK, Distinct, NEW i \in Places
  PROVE  Holding(list[i].pageNum) = {i} /\ First(Holding(list[i].pageNum)) = i
<1>1. Holding(list[i].pageNum) = {i}
  BY DEF Holding, Distinct
<1>2. i \in Nat
  BY ListTyped
<1> QED
  BY <1>1, <1>2 DEF First

(* A set of numbers with a bound has a greatest one. *)
LEMMA LastExists ==
  ASSUME NEW S \in SUBSET Nat, S # {}, NEW m \in Nat, \A n \in S : n <= m
  PROVE  \E n \in S : \A k \in S : k <= n
<1> DEFINE R == {ss \in Nat \X Nat : ss[1] < ss[2]}
           T == {m - n : n \in S}
<1>1. IsWellFoundedOn(OpToRel(<, Nat), Nat)
  BY NatLessThanWellFounded
<1>2. IsWellFoundedOn(R, Nat)
  BY <1>1 DEF OpToRel
<1>3. \A n \in S : n \in Nat /\ m - n \in Nat
  OBVIOUS
<1>4. T \subseteq Nat /\ T # {}
  BY <1>3
<1> HIDE DEF R, T
<1>5. PICK t \in T : \A u \in T : ~(<<u, t>> \in R)
  BY <1>2, <1>4, WFMin
<1>6. PICK n \in S : t = m - n
  BY <1>5 DEF T
<1>7. ASSUME NEW k \in S PROVE k <= n
  <2>1. m - k \in T /\ m - k \in Nat /\ m - n \in Nat /\ k \in Nat /\ n \in Nat
    BY <1>3 DEF T
  <2>2. ~(m - k < m - n)
    BY <1>5, <1>6, <2>1 DEF R
  <2> QED
    BY <2>1, <2>2
<1> QED
  BY <1>7

(* removePageFrameLList finds a node unless all are fixed. *)
LEMMA LastUnfixedExists ==
  ASSUME TypeOK, Unfixed # {}
  PROVE  \E i \in Unfixed : LastUnfixed(i)
<1>1. Unfixed \in SUBSET Nat /\ \A i \in Unfixed : i <= Len(list)
  BY ListTyped DEF Unfixed
<1> QED
  BY <1>1, ListTyped, LastExists DEF LastUnfixed

-----------------------------------------------------------------------------
(* What comes to the start of a sequence. *)

(* b is a with x before it, and without what was at i, if there was anything. *)
Fronted(b, x, a, i) ==
    /\ Len(b) = IF i = Len(a) + 1 THEN Len(a) + 1 ELSE Len(a)
    /\ b[1] = x
    /\ \A j \in 2 .. Len(b) : b[j] = a[IF j <= i THEN j - 1 ELSE j]

LEMMA PutBefore ==
  ASSUME NEW S, NEW a \in Seq(S), NEW x \in S
  PROVE  <<x>> \o a \in Seq(S) /\ Fronted(<<x>> \o a, x, a, Len(a) + 1)
<1>1. <<x>> \in Seq(S) /\ Len(<<x>>) = 1 /\ <<x>>[1] = x
  OBVIOUS
<1>2. /\ <<x>> \o a \in Seq(S) /\ Len(<<x>> \o a) = 1 + Len(a)
      /\ \A j \in 1 .. 1 + Len(a) : (<<x>> \o a)[j] = IF j <= 1 THEN <<x>>[j] ELSE a[j - 1]
  BY <1>1, ConcatProperties
<1> QED
  BY <1>1, <1>2 DEF Fronted

LEMMA RemovedAt ==
  ASSUME NEW S, NEW a \in Seq(S), NEW i \in 1 .. Len(a)
  PROVE  /\ RemoveAt(a, i) \in Seq(S) /\ Len(RemoveAt(a, i)) = Len(a) - 1
         /\ \A k \in 1 .. Len(a) - 1 : RemoveAt(a, i)[k] = a[IF k < i THEN k ELSE k + 1]
<1> DEFINE s == SubSeq(a, 1, i - 1)
           t == SubSeq(a, i + 1, Len(a))
<1>1. s \in Seq(S) /\ Len(s) = i - 1 /\ \A k \in 1 .. i - 1 : s[k] = a[k]
  OBVIOUS
<1>2. t \in Seq(S) /\ Len(t) = Len(a) - i /\ \A k \in 1 .. Len(a) - i : t[k] = a[k + i]
  OBVIOUS
<1> HIDE DEF s, t
<1>3. /\ s \o t \in Seq(S) /\ Len(s \o t) = Len(s) + Len(t)
      /\ \A k \in 1 .. Len(s) + Len(t) : (s \o t)[k] = IF k <= Len(s) THEN s[k] ELSE t[k - Len(s)]
  BY <1>1, <1>2, ConcatProperties
<1>4. Len(a) \in Nat /\ i \in Nat /\ Len(s) + Len(t) = Len(a) - 1
  BY <1>1, <1>2
<1>5. ASSUME NEW k \in 1 .. Len(a) - 1
      PROVE  (s \o t)[k] = a[IF k < i THEN k ELSE k + 1]
  <2>1. CASE k < i
    BY <1>1, <1>3, <1>4, <2>1
  <2>2. CASE ~(k < i)
    <3>1. k - (i - 1) \in 1 .. Len(a) - i /\ (k - (i - 1)) + i = k + 1
      BY <1>4, <2>2
    <3>2. (s \o t)[k] = t[k - (i - 1)]
      BY <1>1, <1>3, <1>4, <2>2
    <3> QED
      BY <1>2, <2>2, <3>1, <3>2
  <2> QED
    BY <2>1, <2>2
<1>6. RemoveAt(a, i) = s \o t
  BY DEF RemoveAt, s, t
<1> QED
  BY <1>3, <1>4, <1>5, <1>6

LEMMA MovedBefore ==
  ASSUME NEW S, NEW a \in Seq(S), NEW x \in S, NEW i \in 1 .. Len(a)
  PROVE  <<x>> \o RemoveAt(a, i) \in Seq(S) /\ Fronted(<<x>> \o RemoveAt(a, i), x, a, i)
<1> DEFINE r == RemoveAt(a, i)
<1>1. /\ r \in Seq(S) /\ Len(r) = Len(a) - 1
      /\ \A k \in 1 .. Len(a) - 1 : r[k] = a[IF k < i THEN k ELSE k + 1]
  BY RemovedAt
<1> HIDE DEF r
<1>2. <<x>> \o r \in Seq(S) /\ Fronted(<<x>> \o r, x, r, Len(r) + 1)
  BY <1>1, PutBefore
<1>3. Len(a) \in Nat /\ i \in Nat
  OBVIOUS
<1>4. Len(<<x>> \o r) = Len(a) /\ (<<x>> \o r)[1] = x
  BY <1>1, <1>2, <1>3 DEF Fronted
<1>5. ASSUME NEW j \in 2 .. Len(a)
      PROVE  (<<x>> \o r)[j] = a[IF j <= i THEN j - 1 ELSE j]
  <2>1. (<<x>> \o r)[j] = r[j - 1] /\ j - 1 \in 1 .. Len(a) - 1
    BY <1>1, <1>2, <1>3, <1>4 DEF Fronted
  <2>2. CASE j <= i
    BY <1>1, <1>3, <2>1, <2>2
  <2>3. CASE ~(j <= i)
    BY <1>1, <1>3, <2>1, <2>3
  <2> QED
    BY <2>2, <2>3
<1>6. Fronted(<<x>> \o r, x, a, i)
  BY <1>3, <1>4, <1>5 DEF Fronted
<1> QED
  BY <1>2, <1>6 DEF r

(* x becomes the first node, and the others are those that were there, but for what was
   at i. *)
NodesMoved(x, i) ==
    /\ list' \in Seq(Node)
    /\ Len(list') = IF i \in Places THEN Len(list) ELSE Len(list) + 1
    /\ 1 \in Places' /\ list'[1] = x
    /\ \A k \in Places' \ {1} : \E j \in Places \ {i} : list'[k] = list[j]
    /\ \A j \in Places \ {i} : \E k \in Places' \ {1} : list'[k] = list[j]

LEMMA FrontedMoves ==
  ASSUME TypeOK, NEW x \in Node, NEW i \in 1 .. Len(list) + 1,
         list' \in Seq(Node), Fronted(list', x, list, i)
  PROVE  /\ NodesMoved(x, i)
         /\ Distinct /\ (\A j \in Places \ {i} : list[j].pageNum # x.pageNum) => Distinct'
<1>1. /\ Len(list) \in Nat /\ Places = 1 .. Len(list) /\ i \in Nat
      /\ Len(list') \in Nat /\ Places' = 1 .. Len(list')
  BY ListTyped DEF Places
<1>2. /\ Len(list') = IF i = Len(list) + 1 THEN Len(list) + 1 ELSE Len(list)
      /\ list'[1] = x
      /\ \A j \in 2 .. Len(list') : list'[j] = list[IF j <= i THEN j - 1 ELSE j]
  BY DEF Fronted
<1> DEFINE from(k) == IF k <= i THEN k - 1 ELSE k
<1>3. \A k \in Places' \ {1} : from(k) \in Places \ {i} /\ list'[k] = list[from(k)]
  BY <1>1, <1>2
<1>4. \A k, l \in Places' \ {1} : from(k) = from(l) => k = l
  BY <1>1
<1>5. ASSUME NEW j \in Places \ {i} PROVE \E k \in Places' \ {1} : list'[k] = list[j]
  <2>1. CASE j < i
    <3>1. j + 1 \in Places' \ {1} /\ from(j + 1) = j
      BY <1>1, <1>2, <2>1
    <3> QED
      BY <1>3, <3>1
  <2>2. CASE ~(j < i)
    <3>1. j \in Places' \ {1} /\ from(j) = j
      BY <1>1, <1>2, <2>2
    <3> QED
      BY <1>3, <3>1
  <2> QED
    BY <2>1, <2>2
<1>6. 1 \in Places' /\ Len(list') = IF i \in Places THEN Len(list) ELSE Len(list) + 1
  BY <1>1, <1>2
<1>7. NodesMoved(x, i)
  BY <1>2, <1>3, <1>5, <1>6 DEF NodesMoved
<1> HIDE DEF from
<1>8. ASSUME Distinct, \A j \in Places \ {i} : list[j].pageNum # x.pageNum,
             NEW k \in Places', NEW l \in Places', list'[k].pageNum = list'[l].pageNum
      PROVE  k = l
  <2>1. CASE k # 1 /\ l # 1
    <3>1. from(k) = from(l)
      BY <1>3, <1>8, <2>1 DEF Distinct
    <3> QED
      BY <1>4, <2>1, <3>1
  <2>2. CASE k = 1 \/ l = 1
    BY <1>2, <1>3, <1>8, <2>2
  <2> QED
    BY <2>1, <2>2
<1> QED
  BY <1>7, <1>8 DEF Distinct

-----------------------------------------------------------------------------
(* The clients that hold a page. *)

LEMMA HoldersFinite ==
  ASSUME IsFiniteSet(Clients), NEW p
  PROVE  IsFiniteSet(HoldersOf(p)) /\ Cardinality(HoldersOf(p)) \in Nat
<1>1. HoldersOf(p) \in SUBSET Clients
  BY DEF HoldersOf
<1> QED
  BY <1>1, FS_Subset, FS_CardinalityType

LEMMA UnfixedUnheld ==
  ASSUME IsFiniteSet(Clients), Counted, NEW i \in Places
  PROVE  i \in Unfixed <=> HoldersOf(list[i].pageNum) = {}
BY HoldersFinite, FS_EmptySet DEF Counted, Unfixed

(* Pinning a page adds one holder to it. *)
LEMMA HolderAdded ==
  ASSUME IsFiniteSet(Clients), TypeOK, NEW c \in Clients, handle[c] = NO_PAGE,
         NEW p \in PageNums, handle' = [handle EXCEPT ![c] = p], NEW q \in PageNums
  PROVE  Cardinality(HoldersOf(q)') =
            IF q = p THEN Cardinality(HoldersOf(q)) + 1 ELSE Cardinality(HoldersOf(q))
<1>1. c \notin HoldersOf(q)
  BY Sentinels DEF HoldersOf
<1>2. CASE q = p
  <2>1. HoldersOf(q)' = HoldersOf(q) \cup {c}
    BY <1>2 DEF HoldersOf, TypeOK
  <2> QED
    BY <1>1, <1>2, <2>1, HoldersFinite, FS_AddElement
<1>3. CASE q # p
  <2>1. HoldersOf(q)' = HoldersOf(q)
    BY <1>1, <1>3 DEF HoldersOf, TypeOK
  <2> QED
    BY <1>3, <2>1
<1> QED
  BY <1>2, <1>3

(* Unpinning a page takes one holder from it. *)
LEMMA HolderDropped ==
  ASSUME IsFiniteSet(Clients), TypeOK, NEW c \in Clients, NEW p \in PageNums, handle[c] = p,
         handle' = [handle EXCEPT ![c] = NO_PAGE], NEW q \in PageNums
  PROVE  /\ Cardinality(HoldersOf(p)) > 0
         /\ Cardinality(HoldersOf(q)') =
              IF q = p THEN Cardinality(HoldersOf(q)) - 1 ELSE Cardinality(HoldersOf(q))
<1>1. HoldersOf(q)' = HoldersOf(q) \ {c}
  BY Sentinels DEF HoldersOf, TypeOK
<1>2. c \in HoldersOf(q) <=> q = p
  BY DEF HoldersOf
<1>3. Cardinality(HoldersOf(q) \ {c}) =
        IF c \in HoldersOf(q) THEN Cardinality(HoldersOf(q)) - 1 ELSE Cardinality(HoldersOf(q))
  BY HoldersFinite, FS_RemoveElement
<1>4. Cardinality(HoldersOf(p)) > 0
  <2>1. HoldersOf(p) # {}
    BY DEF HoldersOf
  <2> QED
    BY <2>1, HoldersFinite, FS_EmptySet
<1> QED
  BY <1>1, <1>2, <1>3, <1>4

-----------------------------------------------------------------------------
(* The file after the nodes at the places in S were written. *)
Written(S) ==
    /\ disk' \in [PageNums -> Data]
    /\ total' \in Nat /\ total <= total'
    /\ \A p \in PageNums : (\A i \in S : list[i].pageNum # p) => disk'[p] = disk[p]
    /\ \A i \in S : disk'[list[i].pageNum] = list[i].content /\ list[i].pageNum < total'

LEMMA FileWritten ==
  ASSUME TypeOK, Distinct, NEW S \in SUBSET Places,
         disk' = writeBlocks(S), IsSizeAfter(total', S)
  PROVE  Written(S)
<1>1. \A i \in Places : list[i].pageNum \in PageNums /\ list[i].content \in Data
                        /\ list[i].pageNum \in Nat
  BY ListTyped, Sentinels DEF Node
<1>2. ASSUME NEW i \in S
      PROVE  (CHOOSE j \in S : list[j].pageNum = list[i].pageNum) = i
  BY DEF Distinct
<1>3. ASSUME NEW p \in PageNums
      PROVE  /\ disk'[p] \in Data
             /\ (\A i \in S : list[i].pageNum # p) => disk'[p] = disk[p]
             /\ \A i \in S : list[i].pageNum = p => disk'[p] = list[i].content
  <2>1. CASE \E i \in S : list[i].pageNum = p
    <3>1. PICK i \in S : list[i].pageNum = p
      BY <2>1
    <3>2. disk'[p] = list[i].content
      BY <1>2, <3>1 DEF writeBlocks
    <3>3. \A j \in S : list[j].pageNum = p => j = i
      BY <3>1 DEF Distinct
    <3> QED
      BY <1>1, <3>1, <3>2, <3>3
  <2>2. CASE ~\E i \in S : list[i].pageNum = p
    BY <2>2 DEF writeBlocks, TypeOK
  <2> QED
    BY <2>1, <2>2
<1>4. disk' \in [PageNums -> Data]
  BY <1>3 DEF writeBlocks
<1>5. /\ total' \in {total} \cup {list[i].pageNum + 1 : i \in S}
      /\ \A m \in {total} \cup {list[i].pageNum + 1 : i \in S} : m <= total'
  BY DEF IsSizeAfter
<1>6. total' \in Nat /\ total <= total'
  BY <1>1, <1>5 DEF TypeOK
<1>7. ASSUME NEW i \in S PROVE list[i].pageNum < total'
  BY <1>1, <1>5, <1>6
<1> QED
  BY <1>1, <1>3, <1>4, <1>6, <1>7 DEF Written

-----------------------------------------------------------------------------
(* pinPage *)

(* The node that comes to the start was at i. *)
WasAt(x, i) ==
    /\ x.pageNum = list[i].pageNum /\ x.content = list[i].content /\ x.dirty = list[i].dirty
    /\ UNCHANGED fileVars

(* The node at i leaves; nobody holds its page, and the file has what was stored in it. *)
Leaves(i) ==
    /\ HoldersOf(list[i].pageNum) = {}
    /\ list[i].pageNum \in stored =>
          disk'[list[i].pageNum] = list[i].content /\ list[i].pageNum < total'

(* The bytes of a page that comes from the file. *)
FromFile(x) == x.pageNum \in stored => x.content = disk'[x.pageNum] /\ x.pageNum < total'

(* What the three ways to pin a page do: x is the node of p after it, i the place of the
   node that moves or leaves, if there is one. *)
PinsNode(c, p, x, i) ==
    /\ pool = "open" /\ handle[c] = NO_PAGE /\ SetHandle(c, p)
    /\ x \in Node /\ x.pageNum = p
    /\ x.fixCount = Cardinality(HoldersOf(p)) + 1
    /\ Fronted(list', x, list, i)
    /\ NodesMoved(x, i) /\ Distinct' /\ Len(list') <= NumFrames
    /\ \A j \in Places \ {i} : list[j].pageNum # p
    /\ (i \in Places /\ WasAt(x, i)) \/ (FromFile(x) /\ \A j \in Places : list[j].pageNum # p)
    /\ i \in Places => WasAt(x, i) \/ Leaves(i)
    /\ disk' \in [PageNums -> Data] /\ total' \in Nat /\ total <= total'
    /\ \A q \in PageNums : (i \in Places => list[i].pageNum # q) => disk'[q] = disk[q]
    /\ evicted' \in BOOLEAN /\ cut' \in BOOLEAN /\ careful' \in BOOLEAN
    /\ careful' => ~cut'
    /\ UNCHANGED <<pool, present>>

LEMMA FixedAgain ==
  ASSUME NEW n \in Node, NEW k \in Nat
  PROVE  LET x == [n EXCEPT !.fixCount = k]
         IN  /\ x \in Node /\ x.fixCount = k
             /\ x.pageNum = n.pageNum /\ x.content = n.content /\ x.dirty = n.dirty
BY DEF Node

LEMMA HitPins ==
  ASSUME IsFiniteSet(Clients), Inv, NEW c \in Clients, NEW p \in PageNums,
         pool = "open", handle[c] = NO_PAGE, LRUHit(c, p), pool' # "broken"
  PROVE  \E x \in Node, i \in Holding(p) : PinsNode(c, p, x, i)
<1> USE DEF Inv
<1>1. PICK i \in Holding(p) :
        /\ careful' = (careful /\ i > 1 /\ ~AtTheEnd(i))
        /\ i > 1
        /\ list' = [ToTheFront(i) EXCEPT ![1].fixCount = @ + 1]
        /\ cut' = (cut \/ AtTheEnd(i))
        /\ SetHandle(c, p)
        /\ UNCHANGED <<pool, evicted, fileVars>>
  BY DEF LRUHit, Break
<1>2. /\ i \in Places /\ list[i].pageNum = p /\ i \in 1 .. Len(list) /\ list[i] \in Node
      /\ list \in Seq(Node) /\ Len(list) \in Nat
  BY ListTyped DEF Holding
<1> DEFINE x == [list[i] EXCEPT !.fixCount = @ + 1]
           b == ToTheFront(i)
<1>3. x \in Node /\ x.pageNum = p /\ x.content = list[i].content /\ x.dirty = list[i].dirty
      /\ x.fixCount = list[i].fixCount + 1
  <2>1. list[i].fixCount + 1 \in Nat
    BY <1>2 DEF Node
  <2> QED
    BY ONLY <1>2, <2>1, FixedAgain
<1>4. b \in Seq(Node) /\ Fronted(b, list[i], list, i)
  BY <1>2, MovedBefore DEF ToTheFront
<1> HIDE DEF b
<1>5. Len(b) = Len(list) /\ b[1] = list[i] /\ 1 \in 1 .. Len(b)
  BY <1>2, <1>4 DEF Fronted
<1>6. list' = [b EXCEPT ![1] = x]
  BY <1>1, <1>5 DEF b
<1> HIDE DEF x
<1>7. /\ list' \in Seq(Node) /\ Len(list') = Len(b)
      /\ \A j \in 1 .. Len(b) : list'[j] = IF j = 1 THEN x ELSE b[j]
  BY <1>3, <1>4, <1>5, <1>6, ExceptSeq
<1>8. Fronted(list', x, list, i)
  BY <1>2, <1>4, <1>5, <1>7 DEF Fronted
<1>9. \A j \in Places \ {i} : list[j].pageNum # p
  BY <1>2 DEF Distinct
<1>10. NodesMoved(x, i) /\ Distinct'
  BY <1>2, <1>3, <1>7, <1>8, <1>9, FrontedMoves
<1>11. x.fixCount = Cardinality(HoldersOf(p)) + 1
  BY <1>2, <1>3 DEF Counted
<1>12. WasAt(x, i)
  BY <1>1, <1>2, <1>3 DEF WasAt
<1>13. evicted' \in BOOLEAN /\ cut' \in BOOLEAN /\ careful' \in BOOLEAN /\ (careful' => ~cut')
  BY <1>1 DEF AtTheEnd, TypeOK, CarefulNotCut
<1>14. disk' = disk /\ total' = total /\ present' = present
  BY <1>1 DEF fileVars
<1>15. Len(list') <= NumFrames
  BY <1>5, <1>7, ListTyped
<1>16. PinsNode(c, p, x, i)
  BY <1>1, <1>2, <1>3, <1>8, <1>9, <1>10, <1>11, <1>12, <1>13, <1>14, <1>15 DEF PinsNode, TypeOK
<1> QED
  BY <1>3, <1>16

(* Nobody holds a page that is in no node. *)
LEMMA AbsentUnheld ==
  ASSUME Inv, NEW p \in PageNums, Holding(p) = {}
  PROVE  HoldersOf(p) = {} /\ Cardinality(HoldersOf(p)) = 0
<1>1. HoldersOf(p) = {}
  BY Sentinels DEF HoldersOf, Inv, HandlesListed
<1> QED
  BY <1>1, FS_EmptySet

LEMMA AddPins ==
  ASSUME IsFiniteSet(Clients), Inv, NEW c \in Clients, NEW p \in PageNums,
         pool = "open", handle[c] = NO_PAGE, LRUAdd(c, p)
  PROVE  \E x \in Node : PinsNode(c, p, x, Len(list) + 1)
<1> USE DEF Inv
<1>1. PICK bytes \in readBlock(disk, total, p) :
        list' = <<NewNode(p, IF list = <<>> THEN 0 ELSE list[1].frameNum + 1, bytes)>> \o list
  BY DEF LRUAdd
<1>2. /\ Holding(p) = {} /\ Len(list) # NumFrames
      /\ SetHandle(c, p) /\ UNCHANGED <<pool, evicted, cut, fileVars, careful>>
  BY DEF LRUAdd, Full
<1> DEFINE frame == IF list = <<>> THEN 0 ELSE list[1].frameNum + 1
           x == NewNode(p, frame, bytes)
<1>3. list \in Seq(Node) /\ Len(list) \in Nat /\ Len(list) <= NumFrames /\ Places = 1 .. Len(list)
  BY ListTyped
<1>4. frame \in Nat
  <2>1. CASE list = <<>>
    BY <2>1
  <2>2. CASE list # <<>>
    <3>1. list[1] \in Node
      BY <1>3, <2>2
    <3> QED
      BY <2>2, <3>1 DEF Node
  <2> QED
    BY <2>1, <2>2
<1>5. bytes \in Data /\ (p < total => bytes = disk[p])
  BY DEF readBlock, TypeOK
<1> HIDE DEF frame
<1>6. x \in Node /\ x.pageNum = p /\ x.content = bytes /\ x.fixCount = 1
  BY <1>4, <1>5 DEF NewNode, Node
<1> HIDE DEF x
<1>7. list' = <<x>> \o list
  BY <1>1 DEF x, frame
<1>8. list' \in Seq(Node) /\ Fronted(list', x, list, Len(list) + 1)
  BY <1>3, <1>6, <1>7, PutBefore
<1>9. \A j \in Places : list[j].pageNum # p
  BY <1>2 DEF Holding
<1>10. Len(list) + 1 \in 1 .. Len(list) + 1 /\ Len(list) + 1 \notin Places
  BY <1>3
<1>11. NodesMoved(x, Len(list) + 1) /\ Distinct'
  BY <1>6, <1>8, <1>9, <1>10, FrontedMoves
<1>12. x.fixCount = Cardinality(HoldersOf(p)) + 1
  BY <1>2, <1>6, AbsentUnheld
<1>13. disk' = disk /\ total' = total /\ present' = present
  BY <1>2 DEF fileVars
<1>14. FromFile(x)
  BY <1>2, <1>5, <1>6, <1>13 DEF FromFile, NothingLost
<1>15. evicted' \in BOOLEAN /\ cut' \in BOOLEAN /\ careful' \in BOOLEAN /\ (careful' => ~cut')
  BY <1>2 DEF TypeOK, CarefulNotCut
<1>16. Len(list') <= NumFrames
  BY <1>2, <1>3, <1>8, FramesAssumption DEF Fronted
<1>17. total \in Nat /\ disk \in [PageNums -> Data] /\ total <= total
  BY DEF TypeOK
<1>18. PinsNode(c, p, x, Len(list) + 1)
  BY <1>2, <1>6, <1>8, <1>9, <1>10, <1>11, <1>12, <1>13, <1>14, <1>15, <1>16, <1>17 DEF PinsNode
<1> QED
  BY <1>6, <1>18

(* What removePageFrameLList takes out is in the file, if anybody stored it. *)
LEMMA WrittenLeaves ==
  ASSUME IsFiniteSet(Clients), Inv, NEW i \in Unfixed, Written(ToWrite(i))
  PROVE  Leaves(i)
<1> USE DEF Inv
<1>1. i \in Places /\ HoldersOf(list[i].pageNum) = {}
  BY UnfixedUnheld DEF Unfixed
<1>2. list[i].pageNum \in PageNums /\ list[i].pageNum \in Nat
  BY <1>1, ListTyped, Sentinels DEF Node
<1>3. CASE list[i].dirty
  BY <1>1, <1>3 DEF Written, ToWrite, Leaves
<1>4. CASE ~list[i].dirty
  <2>1. disk'[list[i].pageNum] = disk[list[i].pageNum] /\ total <= total' /\ total' \in Nat
    BY <1>2, <1>4 DEF Written, ToWrite
  <2>2. ASSUME list[i].pageNum \in stored
        PROVE  list[i].pageNum < total /\ disk[list[i].pageNum] = list[i].content
    <3>1. ~OwesMark(list[i].pageNum)
      BY <1>1 DEF OwesMark, HoldersOf, TypeOK
    <3>2. Safe(list[i])
      BY <1>1, <2>2 DEF NothingLost
    <3> QED
      BY <1>4, <3>1, <3>2 DEF Safe, InFile
  <2> QED
    BY <1>1, <1>2, <2>1, <2>2 DEF Leaves, TypeOK
<1> QED
  BY <1>3, <1>4

(* The place that removePageFrameLList frees. *)
Replaces(p, i) ==
    /\ LastUnfixed(i)
    /\ i > 1
    /\ disk' = writeBlocks(ToWrite(i))
    /\ IsSizeAfter(total', ToWrite(i))
    /\ \E frame \in FrameHandedOn(i), bytes \in readBlock(disk', total', p) :
          list' = <<NewNode(p, frame, bytes)>> \o RemoveAt(list, i)

LEMMA ReplacePins ==
  ASSUME IsFiniteSet(Clients), Inv, NEW c \in Clients, NEW p \in PageNums,
         pool = "open", handle[c] = NO_PAGE, LRUReplace(c, p), NEW i \in Places, Replaces(p, i)
  PROVE  \E x \in Node : PinsNode(c, p, x, i)
<1> USE DEF Inv
<1>1. PICK frame \in FrameHandedOn(i), bytes \in readBlock(disk', total', p) :
        list' = <<NewNode(p, frame, bytes)>> \o RemoveAt(list, i)
  BY DEF Replaces
<1>2. /\ Holding(p) = {} /\ Len(list) = NumFrames /\ evicted' = TRUE
      /\ SetHandle(c, p) /\ UNCHANGED <<pool, cut, present, careful>>
  BY DEF LRUReplace, Full
<1>3. /\ list \in Seq(Node) /\ Len(list) \in Nat /\ i \in 1 .. Len(list)
      /\ list[i] \in Node /\ list[i].pageNum \in PageNums /\ list[i].pageNum \in Nat
  BY ListTyped, Sentinels DEF Node
<1>4. i \in Unfixed
  BY DEF Replaces, LastUnfixed
<1>5. ToWrite(i) \in SUBSET Places /\ ToWrite(i) \in SUBSET {i}
  BY DEF ToWrite
<1>6. Written(ToWrite(i))
  BY <1>5, FileWritten DEF Replaces
<1>7. frame \in Nat
  BY <1>3 DEF FrameHandedOn
<1>8. bytes \in Data /\ (p < total' => bytes = disk'[p])
  BY <1>6 DEF readBlock, Written
<1> DEFINE x == NewNode(p, frame, bytes)
<1>9. x \in Node /\ x.pageNum = p /\ x.content = bytes /\ x.fixCount = 1
  BY <1>7, <1>8 DEF NewNode, Node
<1> HIDE DEF x
<1>10. list' = <<x>> \o RemoveAt(list, i)
  BY <1>1 DEF x
<1>11. list' \in Seq(Node) /\ Fronted(list', x, list, i)
  BY <1>3, <1>9, <1>10, MovedBefore
<1>12. \A j \in Places : list[j].pageNum # p
  BY <1>2 DEF Holding
<1>13. NodesMoved(x, i) /\ Distinct'
  BY <1>3, <1>9, <1>11, <1>12, FrontedMoves
<1>14. x.fixCount = Cardinality(HoldersOf(p)) + 1
  BY <1>2, <1>9, AbsentUnheld
<1>15. disk' \in [PageNums -> Data] /\ total' \in Nat /\ total <= total'
       /\ \A q \in PageNums : list[i].pageNum # q => disk'[q] = disk[q]
  BY <1>5, <1>6 DEF Written
<1>16. FromFile(x)
  <2>1. p \in stored => p < total
    BY <1>2 DEF NothingLost
  <2>2. p \in Nat /\ total \in Nat
    BY Sentinels DEF TypeOK
  <2> QED
    BY <1>8, <1>9, <1>15, <2>1, <2>2 DEF FromFile
<1>17. Leaves(i)
  BY <1>4, <1>6, WrittenLeaves
<1>18. evicted' \in BOOLEAN /\ cut' \in BOOLEAN /\ careful' \in BOOLEAN /\ (careful' => ~cut')
  BY <1>2 DEF TypeOK, CarefulNotCut
<1>19. Len(list') <= NumFrames
  BY <1>2, <1>3, <1>11, FramesAssumption DEF Fronted
<1>20. PinsNode(c, p, x, i)
  BY <1>2, <1>9, <1>11, <1>12, <1>13, <1>14, <1>15, <1>16, <1>17, <1>18, <1>19 DEF PinsNode
<1> QED
  BY <1>9, <1>20

LEMMA PinsKeepInv ==
  ASSUME IsFiniteSet(Clients), Inv, NEW c \in Clients, NEW p \in PageNums,
         NEW x \in Node, NEW i, PinsNode(c, p, x, i)
  PROVE  Inv'
<1> USE DEF Inv
<1>1. /\ pool' = "open" /\ pool = "open" /\ present' = present
      /\ handle' = [handle EXCEPT ![c] = p] /\ handle[c] = NO_PAGE
      /\ unmarked' = unmarked /\ stored' = stored
      /\ NodesMoved(x, i) /\ Distinct'
      /\ x.pageNum = p /\ x.fixCount = Cardinality(HoldersOf(p)) + 1
      /\ \A j \in Places \ {i} : list[j].pageNum # p
  BY DEF PinsNode, SetHandle
<1>2. /\ list' \in Seq(Node) /\ 1 \in Places' /\ list'[1] = x
      /\ \A k \in Places' \ {1} : \E j \in Places \ {i} : list'[k] = list[j]
      /\ \A j \in Places \ {i} : \E k \in Places' \ {1} : list'[k] = list[j]
  BY <1>1 DEF NodesMoved
<1>3. \A j \in Places : list[j] \in Node /\ list[j].pageNum \in PageNums
                        /\ list[j].pageNum \in Nat
  BY ListTyped, Sentinels DEF Node
<1>4. handle'[c] = p /\ \A o \in Clients \ {c} : handle'[o] = handle[o]
  BY <1>1 DEF TypeOK
<1>5. TypeOK'
  <2>1. Len(list') <= NumFrames /\ disk' \in [PageNums -> Data] /\ total' \in Nat
        /\ evicted' \in BOOLEAN /\ cut' \in BOOLEAN /\ careful' \in BOOLEAN
    BY DEF PinsNode
  <2>2. handle' \in [Clients -> PageNums \cup {NO_PAGE}]
    BY <1>1 DEF TypeOK
  <2> QED
    BY <1>1, <1>2, <2>1, <2>2 DEF TypeOK, Node
<1>6. Counted'
  <2> SUFFICES ASSUME NEW k \in Places', NEW q, q = list'[k].pageNum
               PROVE  list'[k].fixCount = Cardinality(HoldersOf(q)')
    BY DEF Counted, HoldersOf
  <2>1. CASE k = 1
    <3>1. Cardinality(HoldersOf(p)') = Cardinality(HoldersOf(p)) + 1
      BY <1>1, HolderAdded
    <3> QED
      BY <1>1, <1>2, <2>1, <3>1
  <2>2. CASE k # 1
    <3>1. PICK j \in Places \ {i} : list'[k] = list[j]
      BY <1>2, <2>2
    <3>2. q \in PageNums /\ q # p /\ q = list[j].pageNum
      BY <1>1, <1>3, <3>1
    <3>3. Cardinality(HoldersOf(q)') = Cardinality(HoldersOf(q))
      BY <1>1, <3>2, HolderAdded
    <3> QED
      BY <3>1, <3>2, <3>3 DEF Counted
  <2> QED
    BY <2>1, <2>2
<1>7. HandlesListed'
  <2> SUFFICES ASSUME NEW o \in Clients, handle'[o] # NO_PAGE
               PROVE  \E k \in Places' : list'[k].pageNum = handle'[o]
    BY DEF HandlesListed, Holding
  <2>1. CASE handle'[o] = p
    BY <1>1, <1>2, <2>1
  <2>2. CASE handle'[o] # p
    <3>1. handle'[o] = handle[o]
      BY <1>4, <2>2
    <3>2. PICK j \in Places : list[j].pageNum = handle[o]
      BY <3>1 DEF HandlesListed, Holding
    <3>3. j # i
      BY <2>2, <3>1, <3>2 DEF PinsNode, WasAt, Leaves, HoldersOf
    <3> QED
      BY <1>2, <3>1, <3>2, <3>3
  <2> QED
    BY <2>1, <2>2
<1>8. WritersHold'
  BY <1>1, <1>4, Sentinels DEF WritersHold, TypeOK
<1>9. ASSUME NEW q, OwesMark(q) PROVE OwesMark(q)'
  <2>1. PICK o \in unmarked : handle[o] = q
    BY <1>9 DEF OwesMark
  <2>2. o # c /\ o \in Clients
    BY <1>1, <2>1 DEF WritersHold, TypeOK
  <2> QED
    BY <1>1, <1>4, <2>1, <2>2 DEF OwesMark
<1>10. total' \in Nat /\ total \in Nat /\ total <= total'
       /\ \A q \in PageNums : (i \in Places => list[i].pageNum # q) => disk'[q] = disk[q]
  BY DEF PinsNode, TypeOK
<1>11. ASSUME NEW j \in Places \ {i}, NEW n, n = list[j], n.pageNum \in stored
       PROVE  Safe(n)'
  <2>1. n.pageNum \in PageNums /\ n.pageNum \in Nat /\ (i \in Places => list[i].pageNum # n.pageNum)
    BY <1>3, <1>11 DEF Distinct
  <2>2. disk'[n.pageNum] = disk[n.pageNum]
    BY <1>10, <2>1
  <2>3. Safe(n)
    BY <1>11 DEF NothingLost
  <2> QED
    BY <1>9, <1>10, <2>1, <2>2, <2>3 DEF Safe, InFile
<1>12. ASSUME p \in stored PROVE Safe(x)'
  <2>1. CASE FromFile(x)
    BY <1>1, <1>12, <2>1 DEF FromFile, Safe, InFile
  <2>2. CASE i \in Places /\ WasAt(x, i)
    <3>1. Safe(list[i]) /\ list[i].pageNum = p /\ x.content = list[i].content
          /\ x.dirty = list[i].dirty /\ disk' = disk /\ total' = total
      BY <1>1, <1>12, <2>2 DEF NothingLost, WasAt, fileVars
    <3> QED
      BY <1>1, <1>9, <3>1 DEF Safe, InFile
  <2> QED
    BY <2>1, <2>2 DEF PinsNode
<1>13. NothingLost'
  <2>1. ASSUME NEW q \in stored, Holding(q)' = {}
        PROVE  q < total'
    <3>1. \A k \in Places' : list'[k].pageNum # q
      BY <2>1 DEF Holding
    <3>2. CASE Holding(q) = {}
      BY <1>10, <3>2, Sentinels DEF NothingLost, TypeOK
    <3>3. CASE Holding(q) # {}
      <4>1. PICK j \in Places : list[j].pageNum = q
        BY <3>3 DEF Holding
      <4>2. j = i
        BY <1>2, <3>1, <4>1
      <4>3. ~WasAt(x, i)
        BY <1>1, <1>2, <3>1, <4>1, <4>2 DEF WasAt
      <4>4. Leaves(i)
        BY <4>2, <4>3 DEF PinsNode
      <4> QED
        BY <4>1, <4>2, <4>4 DEF Leaves
    <3> QED
      BY <3>2, <3>3
  <2>2. ASSUME NEW k \in Places', NEW n, n = list'[k], n.pageNum \in stored
        PROVE  Safe(n)'
    <3>1. CASE k = 1
      BY <1>1, <1>2, <1>12, <2>2, <3>1
    <3>2. CASE k # 1
      BY <1>2, <1>11, <2>2, <3>2
    <3> QED
      BY <3>1, <3>2
  <2> QED
    BY <1>1, <2>1, <2>2 DEF NothingLost, Safe, OwesMark, InFile
<1>14. ClosedIsEmpty' /\ OpenHasFile' /\ CarefulNotCut'
  BY <1>1 DEF ClosedIsEmpty, OpenHasFile, CarefulNotCut, PinsNode
<1> QED
  BY <1>1, <1>5, <1>6, <1>7, <1>8, <1>13, <1>14

-----------------------------------------------------------------------------
(* The steps that change nodes and move none. *)

Rewritten ==
    /\ list' \in Seq(Node) /\ Len(list') = Len(list)
    /\ \A i \in Places : list'[i].pageNum = list[i].pageNum

LEMMA RewrittenStays ==
  ASSUME TypeOK, Rewritten
  PROVE  /\ Places' = Places /\ Len(list') <= NumFrames
         /\ Distinct => Distinct'
         /\ \A p : Holding(p)' = Holding(p)
<1>1. Places' = Places
  <2>1. Places = 1 .. Len(list) /\ Places' = 1 .. Len(list')
    BY ListTyped DEF Rewritten, Places
  <2> QED
    BY <2>1 DEF Rewritten
<1>2. Distinct => Distinct'
  BY <1>1 DEF Rewritten, Distinct
<1>3. \A p : Holding(p)' = Holding(p)
  BY <1>1 DEF Rewritten, Holding
<1>4. Len(list') <= NumFrames
  BY ListTyped DEF Rewritten
<1> QED
  BY <1>1, <1>2, <1>3, <1>4

LEMMA CountedStays ==
  ASSUME TypeOK, Rewritten, Counted, handle' = handle,
         \A i \in Places : list'[i].fixCount = list[i].fixCount
  PROVE  Counted'
<1>1. \A q : HoldersOf(q)' = HoldersOf(q)
  BY DEF HoldersOf
<1>2. ASSUME NEW i \in Places', NEW q, q = list'[i].pageNum
      PROVE  list'[i].fixCount = Cardinality(HoldersOf(q)')
  <2>1. i \in Places /\ q = list[i].pageNum
    BY <1>2, RewrittenStays DEF Rewritten
  <2> QED
    BY <1>1, <2>1 DEF Counted
<1> QED
  BY <1>2 DEF Counted, HoldersOf

LEMMA OneRewritten ==
  ASSUME TypeOK, NEW i \in Places, NEW y \in Node, y.pageNum = list[i].pageNum,
         list' = [list EXCEPT ![i] = y]
  PROVE  Rewritten /\ \A j \in Places : list'[j] = IF j = i THEN y ELSE list[j]
<1>1. list \in Seq(Node) /\ i \in 1 .. Len(list) /\ Places = 1 .. Len(list)
  BY ListTyped
<1>2. /\ list' \in Seq(Node) /\ Len(list') = Len(list)
      /\ \A j \in 1 .. Len(list) : list'[j] = IF j = i THEN y ELSE list[j]
  BY <1>1, ExceptSeq
<1> QED
  BY <1>1, <1>2 DEF Rewritten

(* A client that holds a page finds one node with it. *)
HeldAt(c, i) ==
    /\ pool = "open" /\ handle[c] \in PageNums /\ handle[c] # NO_PAGE
    /\ i \in Places /\ list[i] \in Node /\ list[i].pageNum = handle[c]

LEMMA HeldPlace ==
  ASSUME Inv, NEW c \in Clients, Holds(c)
  PROVE  HeldAt(c, First(Holding(handle[c])))
<1>1. PICK i \in Places : list[i].pageNum = handle[c]
  BY DEF Holds, Holding
<1>2. list[i] \in Node /\ handle[c] \in PageNums
  BY <1>1, ListTyped DEF Node, Inv
<1> QED
  BY <1>1, <1>2, FirstIs, Sentinels DEF Holds, HeldAt, Inv

(* Only the node at i is changed. *)
Changes(i) == Rewritten /\ \A j \in Places \ {i} : list'[j] = list[j]

LEMMA WriteDataChanges ==
  ASSUME Inv, NEW c \in Clients, NEW d \in Data, writeData(c, d)
  PROVE  \E i : /\ HeldAt(c, i) /\ Changes(i)
                /\ list'[i].content = d /\ list'[i].fixCount = list[i].fixCount
<1> DEFINE i == First(Holding(handle[c]))
           y == [list[i] EXCEPT !.content = d]
<1>1. HeldAt(c, i)
  BY HeldPlace DEF writeData
<1>2. list' = [list EXCEPT ![i] = y]
  BY DEF writeData
<1> HIDE DEF i
<1>3. y \in Node /\ y.pageNum = list[i].pageNum /\ y.fixCount = list[i].fixCount /\ y.content = d
  BY <1>1 DEF HeldAt, Node
<1> HIDE DEF y
<1>4. Rewritten /\ \A j \in Places : list'[j] = IF j = i THEN y ELSE list[j]
  BY <1>1, <1>2, <1>3, OneRewritten DEF HeldAt, Inv
<1> QED
  BY <1>1, <1>3, <1>4 DEF Changes, HeldAt

LEMMA MarkDirtyChanges ==
  ASSUME Inv, NEW c \in Clients, markDirty(c)
  PROVE  \E i : /\ HeldAt(c, i) /\ Changes(i)
                /\ list'[i].dirty /\ list'[i].fixCount = list[i].fixCount
                /\ list'[i].content = list[i].content
<1> DEFINE i == First(Holding(handle[c]))
           y == [list[i] EXCEPT !.dirty = TRUE]
<1>1. HeldAt(c, i)
  BY HeldPlace DEF markDirty
<1>2. list' = [list EXCEPT ![i] = y]
  BY DEF markDirty
<1> HIDE DEF i
<1>3. y \in Node /\ y.pageNum = list[i].pageNum /\ y.fixCount = list[i].fixCount /\ y.dirty
      /\ y.content = list[i].content
  BY <1>1 DEF HeldAt, Node
<1> HIDE DEF y
<1>4. Rewritten /\ \A j \in Places : list'[j] = IF j = i THEN y ELSE list[j]
  BY <1>1, <1>2, <1>3, OneRewritten DEF HeldAt, Inv
<1> QED
  BY <1>1, <1>3, <1>4 DEF Changes, HeldAt

LEMMA UnpinChanges ==
  ASSUME IsFiniteSet(Clients), Inv, NEW c \in Clients, unpinPage(c)
  PROVE  \E i : /\ HeldAt(c, i) /\ Changes(i)
                /\ list[i].fixCount \in Nat \ {0} /\ list'[i].fixCount = list[i].fixCount - 1
                /\ list'[i].dirty = list[i].dirty /\ list'[i].content = list[i].content
<1> DEFINE i == First(Holding(handle[c]))
           y == [list[i] EXCEPT !.fixCount = list[i].fixCount - 1]
<1>1. HeldAt(c, i)
  BY HeldPlace DEF unpinPage
<1>2. list' = [list EXCEPT ![i] = y] /\ handle' = [handle EXCEPT ![c] = NO_PAGE]
  BY DEF unpinPage
<1> HIDE DEF i
<1>3. list[i].fixCount \in Nat \ {0} /\ list[i].fixCount - 1 \in Nat
  <2>1. list[i].fixCount = Cardinality(HoldersOf(handle[c])) /\ list[i].fixCount \in Nat
    BY <1>1 DEF HeldAt, Counted, Node, Inv
  <2>2. Cardinality(HoldersOf(handle[c])) > 0
    BY <1>1, <1>2, HolderDropped DEF HeldAt, Inv
  <2> QED
    BY <2>1, <2>2
<1>4. /\ y \in Node /\ y.pageNum = list[i].pageNum /\ y.fixCount = list[i].fixCount - 1
      /\ y.content = list[i].content /\ y.dirty = list[i].dirty
  <2>1. list[i] \in Node
    BY <1>1 DEF HeldAt
  <2> QED
    BY ONLY <1>3, <2>1, FixedAgain
<1> HIDE DEF y
<1>5. Rewritten /\ \A j \in Places : list'[j] = IF j = i THEN y ELSE list[j]
  BY <1>1, <1>2, <1>4, OneRewritten DEF HeldAt, Inv
<1> QED
  BY <1>1, <1>3, <1>4, <1>5 DEF Changes, HeldAt

(* The other nodes are as safe as they were. *)
LEMMA StaysSafe ==
  ASSUME Inv, NEW S \in SUBSET Places, Written(S),
         NEW j \in Places, NEW n \in Node, list[j].pageNum = n.pageNum,
         n.content = list[j].content
  PROVE  InFile(n.pageNum, n.content) \/ j \in S => InFile(n.pageNum, n.content)'
<1>1. n.pageNum \in PageNums /\ n.pageNum \in Nat /\ total \in Nat
  BY Sentinels DEF Node, Inv, TypeOK
<1>2. ASSUME j \notin S, NEW i \in S PROVE list[i].pageNum # n.pageNum
  BY <1>2 DEF Inv, Distinct
<1> QED
  BY <1>1, <1>2 DEF Written, InFile

LEMMA WriteDataKeepsInv ==
  ASSUME Inv, NEW c \in Clients, NEW d \in Data, writeData(c, d)
  PROVE  Inv'
<1> USE DEF Inv
<1>1. PICK i : /\ HeldAt(c, i) /\ Changes(i)
               /\ list'[i].content = d /\ list'[i].fixCount = list[i].fixCount
  BY WriteDataChanges
<1>2. /\ pool = "open" /\ handle[c] \in PageNums /\ handle[c] # NO_PAGE
      /\ i \in Places /\ list[i].pageNum = handle[c]
  BY <1>1 DEF HeldAt
<1>3. Rewritten /\ \A j \in Places \ {i} : list'[j] = list[j]
  BY <1>1 DEF Changes
<1>4. \A j \in Places : list'[j].pageNum = list[j].pageNum /\ list'[j].fixCount = list[j].fixCount
  BY <1>1, <1>3 DEF Rewritten
<1>5. /\ Places' = Places /\ Len(list') <= NumFrames /\ Distinct'
      /\ \A p : Holding(p)' = Holding(p)
  BY <1>3, RewrittenStays
<1>6. /\ unmarked' = unmarked \cup {c} /\ stored' = stored \cup {handle[c]}
      /\ UNCHANGED <<pool, evicted, cut, present, disk, total, handle, careful>>
  BY DEF writeData, fileVars
<1>7. TypeOK'
  BY <1>2, <1>3, <1>5, <1>6 DEF TypeOK, Rewritten, Node
<1>8. Counted' /\ HandlesListed' /\ WritersHold' /\ ClosedIsEmpty' /\ OpenHasFile' /\ CarefulNotCut'
  <2>1. Counted'
    BY <1>3, <1>4, <1>6, CountedStays
  <2>2. HandlesListed' /\ WritersHold'
    BY <1>2, <1>5, <1>6 DEF HandlesListed, WritersHold
  <2> QED
    BY <1>2, <1>6, <2>1, <2>2 DEF ClosedIsEmpty, OpenHasFile, CarefulNotCut
<1>9. NothingLost'
  <2>1. ASSUME NEW q \in stored', Holding(q)' = {}
        PROVE  q < total'
    <3>1. Holding(q) = {} /\ i \in Holding(handle[c])
      BY <1>2, <1>5, <2>1 DEF Holding
    <3>2. q \in stored
      BY <1>6, <3>1
    <3> QED
      BY <1>6, <3>1, <3>2 DEF NothingLost
  <2>2. ASSUME NEW j \in Places', NEW n, n = list'[j], n.pageNum \in stored'
        PROVE  Safe(n)'
    <3>1. CASE j = i
      <4>1. n.pageNum = handle[c]
        BY <1>2, <1>4, <2>2, <3>1
      <4> QED
        BY <1>6, <4>1 DEF Safe, OwesMark
    <3>2. CASE j # i
      <4>1. j \in Places /\ n = list[j] /\ n.pageNum # handle[c]
        BY <1>2, <1>3, <1>5, <2>2, <3>2 DEF Distinct
      <4>2. Safe(n)
        BY <1>6, <2>2, <4>1 DEF NothingLost
      <4> QED
        BY <1>6, <4>2 DEF Safe, OwesMark, InFile
    <3> QED
      BY <3>1, <3>2
  <2> QED
    BY <2>1, <2>2 DEF NothingLost, Safe, OwesMark, InFile
<1> QED
  BY <1>5, <1>7, <1>8, <1>9

LEMMA MarkDirtyKeepsInv ==
  ASSUME Inv, NEW c \in Clients, markDirty(c)
  PROVE  Inv'
<1> USE DEF Inv
<1>1. PICK i : /\ HeldAt(c, i) /\ Changes(i)
               /\ list'[i].dirty /\ list'[i].fixCount = list[i].fixCount
  BY MarkDirtyChanges
<1>2. /\ pool = "open" /\ i \in Places /\ list[i].pageNum = handle[c]
  BY <1>1 DEF HeldAt
<1>3. Rewritten /\ \A j \in Places \ {i} : list'[j] = list[j]
  BY <1>1 DEF Changes
<1>4. \A j \in Places : list'[j].pageNum = list[j].pageNum /\ list'[j].fixCount = list[j].fixCount
  BY <1>1, <1>3 DEF Rewritten
<1>5. /\ Places' = Places /\ Len(list') <= NumFrames /\ Distinct'
      /\ \A p : Holding(p)' = Holding(p)
  BY <1>3, RewrittenStays
<1>6. /\ unmarked' = unmarked \ {c}
      /\ UNCHANGED <<pool, evicted, cut, present, disk, total, handle, stored, careful>>
  BY DEF markDirty, fileVars
<1>7. TypeOK'
  BY <1>3, <1>5, <1>6 DEF TypeOK, Rewritten, Node
<1>8. Counted'
  BY <1>3, <1>4, <1>6, CountedStays
<1>9. HandlesListed' /\ WritersHold' /\ ClosedIsEmpty' /\ OpenHasFile' /\ CarefulNotCut'
  <2>1. HandlesListed' /\ WritersHold'
    BY <1>5, <1>6 DEF HandlesListed, WritersHold
  <2> QED
    BY <1>2, <1>6, <2>1 DEF ClosedIsEmpty, OpenHasFile, CarefulNotCut
<1>10. NothingLost'
  <2>1. ASSUME NEW j \in Places', NEW n, n = list'[j], n.pageNum \in stored'
        PROVE  Safe(n)'
    <3>1. CASE j = i
      BY <1>1, <2>1, <3>1 DEF Safe
    <3>2. CASE j # i
      <4>1. j \in Places /\ n = list[j] /\ n.pageNum # handle[c]
        BY <1>2, <1>3, <1>5, <2>1, <3>2 DEF Distinct
      <4>2. Safe(n)
        BY <1>6, <2>1, <4>1 DEF NothingLost
      <4> QED
        BY <1>6, <4>1, <4>2 DEF Safe, OwesMark, InFile
    <3> QED
      BY <3>1, <3>2
  <2> QED
    BY <1>5, <1>6, <2>1 DEF NothingLost, Safe, OwesMark, InFile
<1> QED
  BY <1>5, <1>7, <1>8, <1>9, <1>10

LEMMA UnpinKeepsInv ==
  ASSUME IsFiniteSet(Clients), Inv, NEW c \in Clients, unpinPage(c)
  PROVE  Inv'
<1> USE DEF Inv
<1>1. PICK i : /\ HeldAt(c, i) /\ Changes(i)
               /\ list[i].fixCount \in Nat \ {0} /\ list'[i].fixCount = list[i].fixCount - 1
               /\ list'[i].dirty = list[i].dirty /\ list'[i].content = list[i].content
  BY UnpinChanges
<1>2. /\ c \notin unmarked
      /\ handle' = [handle EXCEPT ![c] = NO_PAGE]
      /\ UNCHANGED <<pool, evicted, cut, present, disk, total, unmarked, stored, careful>>
  BY DEF unpinPage, fileVars
<1>3. pool = "open" /\ handle[c] \in PageNums /\ i \in Places /\ list[i].pageNum = handle[c]
  BY <1>1 DEF HeldAt
<1>4. Rewritten /\ \A j \in Places \ {i} : list'[j] = list[j]
  BY <1>1 DEF Changes
<1>5. \A j \in Places : /\ list'[j].pageNum = list[j].pageNum
                        /\ list'[j].content = list[j].content /\ list'[j].dirty = list[j].dirty
  BY <1>1, <1>4 DEF Rewritten
<1>6. /\ Places' = Places /\ Len(list') <= NumFrames /\ Distinct'
      /\ \A p : Holding(p)' = Holding(p)
  BY <1>4, RewrittenStays
<1>7. handle'[c] = NO_PAGE /\ \A o \in Clients \ {c} : handle'[o] = handle[o]
  BY <1>2 DEF TypeOK
<1>8. TypeOK'
  <2>1. handle' \in [Clients -> PageNums \cup {NO_PAGE}]
    BY <1>2 DEF TypeOK
  <2> QED
    BY <1>2, <1>4, <1>6, <2>1 DEF TypeOK, Rewritten, Node
<1>9. Counted'
  <2> SUFFICES ASSUME NEW k \in Places, NEW q, q = list'[k].pageNum
               PROVE  list'[k].fixCount = Cardinality(HoldersOf(q)')
    BY <1>6 DEF Counted, HoldersOf
  <2>1. q = list[k].pageNum /\ q \in PageNums /\ list[k].fixCount = Cardinality(HoldersOf(q))
    BY <1>5, ListTyped DEF Counted, Node
  <2>2. Cardinality(HoldersOf(q)') =
          IF q = handle[c] THEN Cardinality(HoldersOf(q)) - 1 ELSE Cardinality(HoldersOf(q))
    BY <1>2, <1>3, <2>1, HolderDropped
  <2>3. q = handle[c] <=> k = i
    BY <1>3, <2>1 DEF Distinct
  <2> QED
    BY <1>1, <1>4, <2>1, <2>2, <2>3
<1>10. HandlesListed' /\ WritersHold' /\ ClosedIsEmpty' /\ OpenHasFile' /\ CarefulNotCut'
  <2>1. HandlesListed'
    BY <1>6, <1>7 DEF HandlesListed
  <2>2. WritersHold'
    BY <1>2, <1>7 DEF WritersHold, TypeOK
  <2> QED
    BY <1>2, <1>3, <2>1, <2>2 DEF ClosedIsEmpty, OpenHasFile, CarefulNotCut
<1>11. NothingLost'
  <2>1. ASSUME NEW q, OwesMark(q) PROVE OwesMark(q)'
    <3>1. PICK o \in unmarked : handle[o] = q
      BY <2>1 DEF OwesMark
    <3>2. o # c /\ o \in Clients
      BY <1>2, <3>1 DEF TypeOK
    <3> QED
      BY <1>2, <1>7, <3>1, <3>2 DEF OwesMark
  <2>2. ASSUME NEW j \in Places', NEW n, n = list'[j], n.pageNum \in stored'
        PROVE  Safe(n)'
    <3>1. j \in Places /\ n.pageNum = list[j].pageNum /\ n.content = list[j].content
          /\ n.dirty = list[j].dirty
      BY <1>5, <1>6, <2>2
    <3>2. Safe(list[j])
      BY <1>2, <2>2, <3>1 DEF NothingLost
    <3> QED
      BY <1>2, <2>1, <3>1, <3>2 DEF Safe, InFile
  <2> QED
    BY <1>2, <1>6, <2>2 DEF NothingLost, Safe, OwesMark, InFile
<1> QED
  BY <1>6, <1>8, <1>9, <1>10, <1>11

-----------------------------------------------------------------------------
(* The steps that write nodes to the file. *)

LEMMA ForcePageWrites ==
  ASSUME Inv, NEW p \in PageNums, forcePage(p)
  PROVE  \E i \in Places : Written({i})
<1>1. PICK i \in Holding(p) : disk' = writeBlocks({i}) /\ IsSizeAfter(total', {i})
  BY DEF forcePage
<1>2. i \in Places
  BY DEF Holding
<1> QED
  BY <1>1, <1>2, FileWritten DEF Inv

LEMMA ForcePageKeepsInv ==
  ASSUME Inv, NEW p \in PageNums, forcePage(p)
  PROVE  Inv'
<1> USE DEF Inv
<1>1. PICK i \in Places : Written({i})
  BY ForcePageWrites
<1>2. UNCHANGED <<pool, list, evicted, cut, present, handle, unmarked, stored, careful>>
  BY DEF forcePage, listVars, clientVars
<1>3. disk' \in [PageNums -> Data] /\ total' \in Nat /\ total <= total' /\ total \in Nat
  BY <1>1 DEF Written, TypeOK
<1>4. TypeOK'
  BY <1>2, <1>3 DEF TypeOK
<1>5. Distinct' /\ Counted' /\ HandlesListed' /\ WritersHold' /\ ClosedIsEmpty' /\ OpenHasFile'
      /\ CarefulNotCut'
  BY <1>2 DEF Distinct, Counted, HoldersOf, HandlesListed, Holding, WritersHold, ClosedIsEmpty,
              OpenHasFile, CarefulNotCut, Places
<1>6. NothingLost'
  <2>1. ASSUME NEW q \in stored, Holding(q) = {} PROVE q < total'
    BY <1>3, <2>1, Sentinels DEF NothingLost, TypeOK
  <2>2. ASSUME NEW j \in Places, NEW n, n = list[j], n.pageNum \in stored
        PROVE  Safe(n)'
    <3>1. n \in Node /\ Safe(n)
      BY <2>2, ListTyped DEF NothingLost
    <3>2. InFile(n.pageNum, n.content) => InFile(n.pageNum, n.content)'
      BY <1>1, <2>2, <3>1, StaysSafe
    <3> QED
      BY <1>2, <3>1, <3>2 DEF Safe, OwesMark
  <2> QED
    BY <1>2, <2>1, <2>2 DEF NothingLost, Holding, Places, Safe, OwesMark, InFile
<1> QED
  BY <1>4, <1>5, <1>6

LEMMA FlushWrites ==
  ASSUME Inv, WriteToFlush
  PROVE  Written(ToFlush) /\ ToFlush \in SUBSET Places
<1>1. ToFlush \in SUBSET Places
  BY DEF ToFlush, Unfixed
<1> QED
  BY <1>1, FileWritten DEF Inv, WriteToFlush

LEMMA Marked ==
  ASSUME NEW n \in Node, NEW d \in BOOLEAN
  PROVE  LET x == [n EXCEPT !.dirty = d]
         IN  /\ x \in Node /\ x.dirty = d
             /\ x.pageNum = n.pageNum /\ x.content = n.content /\ x.fixCount = n.fixCount
BY DEF Node

LEMMA FlushRewrites ==
  ASSUME Inv, Flush
  PROVE  /\ Rewritten
         /\ \A i \in Places :
              /\ list'[i].fixCount = list[i].fixCount /\ list'[i].content = list[i].content
              /\ list[i].dirty /\ i \notin ToFlush => list'[i].dirty
<1> DEFINE d(i) == list[i].dirty /\ i \notin ToFlush
           n(i) == [list[i] EXCEPT !.dirty = d(i)]
<1>1. list' = [i \in Places |-> n(i)]
  BY DEF Flush
<1>2. /\ Places = 1 .. Len(list) /\ Len(list) \in Nat
      /\ \A i \in Places : list[i] \in Node
  BY ListTyped DEF Inv
<1>3. \A i \in Places : d(i) \in BOOLEAN
  OBVIOUS
<1> HIDE DEF d
<1>4. ASSUME NEW i \in Places
      PROVE  /\ n(i) \in Node /\ n(i).dirty = d(i)
             /\ n(i).pageNum = list[i].pageNum /\ n(i).content = list[i].content
             /\ n(i).fixCount = list[i].fixCount
  BY ONLY <1>2, <1>3, Marked
<1> HIDE DEF n
<1>5. list' \in Seq(Node) /\ Len(list') = Len(list) /\ \A i \in Places : list'[i] = n(i)
  BY <1>1, <1>2, <1>4
<1>6. Rewritten
  BY <1>4, <1>5 DEF Rewritten
<1>7. ASSUME NEW i \in Places, list[i].dirty, i \notin ToFlush
      PROVE  list'[i].dirty
  BY <1>4, <1>5, <1>7 DEF d
<1> QED
  BY <1>4, <1>5, <1>6, <1>7

LEMMA FlushKeepsInv ==
  ASSUME Inv, Flush, UNCHANGED <<pool, evicted, cut, clientVars>>
  PROVE  Inv'
<1> USE DEF Inv
<1>1. Written(ToFlush) /\ ToFlush \in SUBSET Places /\ present' = present
  BY FlushWrites DEF Flush, WriteToFlush
<1>2. /\ Rewritten
      /\ \A i \in Places :
           /\ list'[i].fixCount = list[i].fixCount /\ list'[i].content = list[i].content
           /\ list[i].dirty /\ i \notin ToFlush => list'[i].dirty
  BY FlushRewrites
<1>3. UNCHANGED <<pool, evicted, cut, handle, unmarked, stored, careful>>
  BY DEF clientVars
<1>4. /\ Places' = Places /\ Len(list') <= NumFrames /\ Distinct'
      /\ \A p : Holding(p)' = Holding(p)
  BY <1>2, RewrittenStays
<1>5. disk' \in [PageNums -> Data] /\ total' \in Nat /\ total <= total' /\ total \in Nat
  BY <1>1 DEF Written, TypeOK
<1>6. TypeOK'
  BY <1>1, <1>2, <1>3, <1>4, <1>5 DEF TypeOK, Rewritten, Node
<1>7. Counted'
  BY <1>2, <1>3, CountedStays
<1>8. HandlesListed' /\ WritersHold' /\ OpenHasFile' /\ CarefulNotCut'
  BY <1>1, <1>3, <1>4 DEF HandlesListed, WritersHold, OpenHasFile, CarefulNotCut
<1>9. ClosedIsEmpty'
  <2>1. list = <<>> => list' = <<>>
    BY <1>2 DEF Rewritten
  <2> QED
    BY <1>3, <2>1 DEF ClosedIsEmpty
<1>10. NothingLost'
  <2>1. ASSUME NEW q \in stored, Holding(q) = {} PROVE q < total'
    BY <1>5, <2>1, Sentinels DEF NothingLost, TypeOK
  <2>2. ASSUME NEW j \in Places, NEW n, n = list'[j], n.pageNum \in stored
        PROVE  Safe(n)'
    <3>1. n \in Node /\ n.pageNum = list[j].pageNum /\ n.content = list[j].content
      BY <1>2, <1>4, <2>2, ListTyped DEF Rewritten, Places
    <3>2. Safe(list[j])
      BY <2>2, <3>1 DEF NothingLost
    <3>3. InFile(n.pageNum, n.content) \/ j \in ToFlush => InFile(n.pageNum, n.content)'
      BY <1>1, <3>1, StaysSafe
    <3>4. list[j].dirty => n.dirty \/ j \in ToFlush
      BY <1>2, <2>2
    <3> QED
      BY <1>3, <3>1, <3>2, <3>3, <3>4 DEF Safe, OwesMark, InFile
  <2> QED
    BY <1>3, <1>4, <2>1, <2>2 DEF NothingLost, Safe, OwesMark, InFile
<1> QED
  BY <1>4, <1>6, <1>7, <1>8, <1>9, <1>10

(* shutdownBufferPool closes the pool. *)
Closes ==
    /\ pool = "open" /\ pool' = "closed"
    /\ Unfixed = Places /\ WriteToFlush
    /\ list' = <<>> /\ evicted' = FALSE /\ cut' = FALSE
    /\ UNCHANGED clientVars

(* Nobody holds a page then, and the file has all that was stored. *)
LEMMA ClosingSaves ==
  ASSUME IsFiniteSet(Clients), Inv, Closes
  PROVE  /\ \A c \in Clients : handle[c] = NO_PAGE
         /\ \A i \in Places : list[i].pageNum \in stored =>
               disk'[list[i].pageNum] = list[i].content /\ list[i].pageNum < total'
         /\ \A p \in PageNums : Holding(p) = {} => disk'[p] = disk[p]
         /\ \A p \in stored : p < total'
<1> USE DEF Inv
<1>1. Written(ToFlush) /\ ToFlush \in SUBSET Places
  BY FlushWrites DEF Closes
<1>2. ASSUME NEW i \in Places PROVE HoldersOf(list[i].pageNum) = {}
  BY UnfixedUnheld DEF Closes
<1>3. ASSUME NEW c \in Clients PROVE handle[c] = NO_PAGE
  BY <1>2 DEF HandlesListed, Holding, HoldersOf
<1>4. ASSUME NEW i \in Places, NEW n, n = list[i], n.pageNum \in stored
      PROVE  InFile(n.pageNum, n.content)'
  <2>1. Safe(n) /\ n \in Node
    BY <1>4, ListTyped DEF NothingLost
  <2>2. ~OwesMark(n.pageNum)
    BY <1>3, <1>4, Sentinels DEF OwesMark, TypeOK
  <2>3. n.dirty => i \in ToFlush
    BY <1>4 DEF ToFlush, Closes
  <2>4. InFile(n.pageNum, n.content) \/ i \in ToFlush => InFile(n.pageNum, n.content)'
    BY <1>1, <1>4, <2>1, StaysSafe
  <2> QED
    BY <2>1, <2>2, <2>3, <2>4 DEF Safe
<1>5. ASSUME NEW i \in Places, list[i].pageNum \in stored
      PROVE  disk'[list[i].pageNum] = list[i].content /\ list[i].pageNum < total'
  BY <1>4, <1>5 DEF InFile
<1>6. ASSUME NEW p \in PageNums, Holding(p) = {} PROVE disk'[p] = disk[p]
  BY <1>1, <1>6 DEF Written, Holding
<1>7. ASSUME NEW p \in stored PROVE p < total'
  <2>1. p \in Nat /\ total \in Nat /\ total' \in Nat /\ total <= total'
    BY <1>1, Sentinels DEF Written, TypeOK
  <2>2. CASE Holding(p) = {}
    BY <2>1, <2>2 DEF NothingLost
  <2>3. CASE Holding(p) # {}
    BY <1>5, <2>3 DEF Holding
  <2> QED
    BY <2>2, <2>3
<1> QED
  BY <1>3, <1>5, <1>6, <1>7

LEMMA EmptyListKeeps ==
  ASSUME list' = <<>>, stored' = stored, \A p \in stored : p < total',
         \A c \in Clients : handle'[c] = NO_PAGE
  PROVE  Distinct' /\ Counted' /\ HandlesListed' /\ NothingLost'
<1>1. Places' = {}
  BY DEF Places
<1> QED
  BY <1>1 DEF Distinct, Counted, HandlesListed, NothingLost

LEMMA ClosesKeepsInv ==
  ASSUME IsFiniteSet(Clients), Inv, Closes
  PROVE  Inv'
<1> USE DEF Inv
<1>1. list' = <<>> /\ evicted' = FALSE /\ cut' = FALSE /\ pool' = "closed"
      /\ UNCHANGED <<handle, unmarked, stored, careful, present>>
  BY DEF Closes, clientVars, WriteToFlush
<1>2. disk' \in [PageNums -> Data] /\ total' \in Nat
  BY FlushWrites DEF Closes, Written
<1>3. TypeOK'
  <2>1. list' \in Seq(Node) /\ Len(list') <= NumFrames
    BY <1>1, FramesAssumption
  <2> QED
    BY <1>1, <1>2, <2>1 DEF TypeOK, Node
<1>4. Distinct' /\ Counted' /\ HandlesListed' /\ NothingLost'
  BY <1>1, ClosingSaves, EmptyListKeeps
<1> QED
  BY <1>1, <1>3, <1>4 DEF WritersHold, ClosedIsEmpty, OpenHasFile, CarefulNotCut

-----------------------------------------------------------------------------
(* The invariant. *)

(* pinPage puts a node at the start, or the list breaks. *)
Breaks == Break /\ careful' \in BOOLEAN /\ (careful' => careful)

LEMMA PinSteps ==
  ASSUME IsFiniteSet(Clients), Inv, NEW c \in Clients, NEW p \in PageNums, pinPage(c, p)
  PROVE  Breaks \/ \E x \in Node, i \in Nat : PinsNode(c, p, x, i)
<1>1. pool = "open" /\ handle[c] = NO_PAGE
  BY DEF pinPage
<1>2. CASE LRUHit(c, p) /\ pool' = "broken"
  BY <1>1, <1>2 DEF LRUHit, Breaks, Inv, TypeOK, AtTheEnd
<1>3. CASE LRUHit(c, p) /\ pool' # "broken"
  <2>1. \E x \in Node, i \in Holding(p) : PinsNode(c, p, x, i)
    BY <1>1, <1>3, HitPins
  <2>2. \A i \in Holding(p) : i \in Nat
    BY ListTyped DEF Inv, Holding
  <2> QED
    BY <2>1, <2>2
<1>4. CASE LRUAdd(c, p)
  <2>1. \E x \in Node : PinsNode(c, p, x, Len(list) + 1)
    BY <1>1, <1>4, AddPins
  <2>2. Len(list) + 1 \in Nat
    BY ListTyped DEF Inv
  <2> QED
    BY <2>1, <2>2
<1>5. CASE LRUReplace(c, p)
  <2>1. PICK i \in Places : Replaces(p, i)
    BY <1>5 DEF LRUReplace, Replaces
  <2>2. \E x \in Node : PinsNode(c, p, x, i)
    BY <1>1, <1>5, <2>1, ReplacePins
  <2>3. i \in Nat
    BY ListTyped DEF Inv
  <2> QED
    BY <2>2, <2>3
<1>6. CASE LRUCrash(p)
  BY <1>6 DEF LRUCrash, Breaks, Inv, TypeOK
<1> QED
  BY <1>2, <1>3, <1>4, <1>5, <1>6 DEF pinPage

LEMMA BreaksKeepInv ==
  ASSUME Inv, Breaks
  PROVE  Inv'
<1> USE DEF Inv
<1>1. /\ pool' = "broken" /\ careful' \in BOOLEAN /\ (careful' => careful)
      /\ UNCHANGED <<list, evicted, cut, present, disk, total, handle, unmarked, stored>>
  BY DEF Breaks, Break, listVars, fileVars
<1>2. TypeOK'
  BY <1>1 DEF TypeOK
<1> QED
  BY <1>1, <1>2 DEF Distinct, Counted, HoldersOf, HandlesListed, Holding, WritersHold, ClosedIsEmpty,
                    OpenHasFile, CarefulNotCut, Places, NothingLost, Safe, OwesMark, InFile

(* Nobody holds a page while the pool is closed. *)
LEMMA ClosedUnheld ==
  ASSUME Inv, pool = "closed"
  PROVE  list = <<>> /\ Places = {} /\ \A c \in Clients : handle[c] = NO_PAGE
<1>1. list = <<>> /\ Places = {}
  BY DEF Inv, ClosedIsEmpty, Places
<1> QED
  BY <1>1 DEF Inv, HandlesListed, Holding

LEMMA CreateKeepsInv ==
  ASSUME Inv, createPageFile
  PROVE  Inv'
<1> USE DEF Inv
<1>1. /\ pool = "closed" /\ present' = TRUE /\ disk' = [p \in PageNums |-> Blank] /\ total' = 1
      /\ stored' = PageNums \cap {0}
      /\ UNCHANGED <<pool, list, evicted, cut, handle, unmarked, careful>>
  BY DEF createPageFile, listVars
<1>2. list = <<>> /\ Places = {} /\ Places' = {} /\ \A c \in Clients : handle[c] = NO_PAGE
  BY <1>1, ClosedUnheld DEF Places
<1>3. TypeOK'
  BY <1>1, DataAssumption DEF TypeOK
<1>4. NothingLost'
  BY <1>1, <1>2 DEF NothingLost
<1> QED
  BY <1>1, <1>2, <1>3, <1>4 DEF Distinct, Counted, HandlesListed, WritersHold, ClosedIsEmpty,
                                OpenHasFile, CarefulNotCut

LEMMA OpenKeepsInv ==
  ASSUME Inv, initBufferPool
  PROVE  Inv'
<1> USE DEF Inv
<1>1. /\ pool' = "open" /\ present
      /\ UNCHANGED <<list, evicted, cut, present, disk, total, handle, unmarked, stored, careful>>
  BY DEF initBufferPool, listVars, fileVars, clientVars
<1>2. TypeOK'
  BY <1>1 DEF TypeOK
<1> QED
  BY <1>1, <1>2 DEF Distinct, Counted, HoldersOf, HandlesListed, Holding, WritersHold, ClosedIsEmpty,
                    OpenHasFile, CarefulNotCut, Places, NothingLost, Safe, OwesMark, InFile

LEMMA StutterKeepsInv ==
  ASSUME Inv, UNCHANGED vars
  PROVE  Inv'
<1>1. UNCHANGED <<pool, list, evicted, cut, present, disk, total, handle, unmarked, stored, careful>>
  BY DEF vars, listVars, fileVars, clientVars
<1>2. TypeOK'
  BY <1>1 DEF Inv, TypeOK
<1> QED
  BY <1>1, <1>2 DEF Inv, Distinct, Counted, HoldersOf, HandlesListed, Holding, WritersHold,
                    ClosedIsEmpty, OpenHasFile, CarefulNotCut, Places, NothingLost, Safe,
                    OwesMark, InFile

LEMMA InitInv ==
  Init => Inv
<1> SUFFICES ASSUME Init PROVE Inv
  OBVIOUS
<1>1. /\ pool = "closed" /\ list = <<>> /\ evicted = FALSE /\ cut = FALSE /\ present = FALSE
      /\ disk = [p \in PageNums |-> Blank] /\ total = 0
      /\ handle = [c \in Clients |-> NO_PAGE] /\ unmarked = {} /\ stored = {} /\ careful = TRUE
  BY DEF Init
<1>2. Places = {}
  BY <1>1 DEF Places
<1>3. list \in Seq(Node) /\ Len(list) <= NumFrames
  BY <1>1, FramesAssumption
<1>4. TypeOK
  BY <1>1, <1>3, DataAssumption DEF TypeOK, Node
<1> QED
  BY <1>1, <1>2, <1>4 DEF Inv, Distinct, Counted, HandlesListed, WritersHold, ClosedIsEmpty,
                          OpenHasFile, CarefulNotCut, NothingLost

LEMMA ShutdownSteps ==
  ASSUME shutdownBufferPool
  PROVE  Closes \/ (pool = "open" /\ Flush /\ UNCHANGED <<pool, evicted, cut, clientVars>>)
BY DEF shutdownBufferPool, Closes

LEMMA InvStep ==
  ASSUME IsFiniteSet(Clients), Inv, [Next]_vars
  PROVE  Inv'
<1>1. ASSUME NEW c \in Clients, NEW p \in PageNums, pinPage(c, p) PROVE Inv'
  BY <1>1, PinSteps, BreaksKeepInv, PinsKeepInv
<1>2. ASSUME NEW c \in Clients, NEW d \in Data, writeData(c, d) PROVE Inv'
  BY <1>2, WriteDataKeepsInv
<1>3. ASSUME NEW c \in Clients, markDirty(c) PROVE Inv'
  BY <1>3, MarkDirtyKeepsInv
<1>4. ASSUME NEW c \in Clients, unpinPage(c) PROVE Inv'
  BY <1>4, UnpinKeepsInv
<1>5. ASSUME NEW p \in PageNums, forcePage(p) PROVE Inv'
  BY <1>5, ForcePageKeepsInv
<1>6. CASE forceFlushPool
  BY <1>6, FlushKeepsInv DEF forceFlushPool
<1>7. CASE shutdownBufferPool
  BY <1>7, ShutdownSteps, FlushKeepsInv, ClosesKeepsInv
<1>8. CASE createPageFile \/ initBufferPool \/ UNCHANGED vars
  BY <1>8, CreateKeepsInv, OpenKeepsInv, StutterKeepsInv
<1> QED
  BY <1>1, <1>2, <1>3, <1>4, <1>5, <1>6, <1>7, <1>8 DEF Next

(* Every variable of the pool stays of its type: the list holds no more nodes than
   there are frames, and no fix count becomes negative. *)
THEOREM TypesCorrect ==
  ASSUME IsFiniteSet(Clients)
  PROVE  Spec => []TypeOK
<1>1. Init => Inv
  BY InitInv
<1>2. Inv /\ [Next]_vars => Inv'
  BY InvStep
<1>3. Inv => TypeOK
  BY DEF Inv
<1> QED
  BY <1>1, <1>2, <1>3, PTL DEF Spec

-----------------------------------------------------------------------------
(* What is kept of a page and what its holders read, before and after a step. *)

View(c) == Bytes(handle[c])
HeldPages == {handle[c] : c \in Clients} \ {NO_PAGE}

LEMMA FirstBecomes ==
  ASSUME list' \in Seq(Node), Distinct', NEW i \in Places', NEW p, list'[i].pageNum = p
  PROVE  Holding(p)' = {i} /\ First(Holding(p)') = i
<1>1. Holding(p)' = {i}
  BY DEF Holding, Distinct
<1>2. i \in Nat
  BY DEF Places
<1> QED
  BY <1>1, <1>2 DEF First

LEMMA ContentsAre ==
  ASSUME TypeOK, Distinct, NEW p
  PROVE  /\ p \notin stored => Contents(p) = Unstored
         /\ \A i \in Places : list[i].pageNum = p =>
               Bytes(p) = list[i].content /\ (p \in stored => Contents(p) = list[i].content)
         /\ Holding(p) = {} => Bytes(p) = Unstored /\ (p \in stored => Contents(p) = disk[p])
<1>1. ASSUME NEW i \in Places, list[i].pageNum = p
      PROVE  Bytes(p) = list[i].content /\ (p \in stored => Contents(p) = list[i].content)
  <2>1. Holding(p) # {} /\ First(Holding(p)) = i
    BY <1>1, FirstIs
  <2> QED
    BY <2>1 DEF Bytes, Contents
<1> QED
  BY <1>1 DEF Bytes, Contents

LEMMA ContentsBecome ==
  ASSUME list' \in Seq(Node), Distinct', NEW p
  PROVE  /\ p \notin stored' => Contents(p)' = Unstored
         /\ \A i \in Places' : list'[i].pageNum = p =>
               Bytes(p)' = list'[i].content /\ (p \in stored' => Contents(p)' = list'[i].content)
         /\ Holding(p)' = {} => Bytes(p)' = Unstored /\ (p \in stored' => Contents(p)' = disk'[p])
<1>1. ASSUME NEW i \in Places', list'[i].pageNum = p
      PROVE  Bytes(p)' = list'[i].content /\ (p \in stored' => Contents(p)' = list'[i].content)
  <2>1. Holding(p)' # {} /\ First(Holding(p)') = i
    BY <1>1, FirstBecomes
  <2> QED
    BY <2>1 DEF Bytes, Contents, First
<1> QED
  BY <1>1 DEF Bytes, Contents

(* A client that holds a page reads the bytes of its node, another one nothing. *)
LEMMA NobodyReads ==
  ASSUME Inv
  PROVE  Bytes(NO_PAGE) = Unstored
<1>1. Holding(NO_PAGE) = {}
  BY ListTyped, Sentinels DEF Holding, Node, Inv
<1> QED
  BY <1>1 DEF Bytes

LEMMA NobodyWillRead ==
  ASSUME Inv'
  PROVE  Bytes(NO_PAGE)' = Unstored
<1>1. \A i \in Places' : list'[i] \in Node
  <2>1. list' \in Seq(Node)
    BY DEF Inv, TypeOK, Node
  <2> QED
    BY <2>1 DEF Places
<1>2. Holding(NO_PAGE)' = {}
  BY <1>1, Sentinels DEF Holding, NO_PAGE, Node
<1> QED
  BY <1>2 DEF Bytes

-----------------------------------------------------------------------------
(* How many pages can be held. *)

(* As many pages as there are nodes fit into a list, and not one more. *)
LEMMA FitsList ==
  ASSUME NEW f, NEW n \in Nat, NEW S, \A s \in S : \E i \in 1 .. n : f[i].pageNum = s
  PROVE  IsFiniteSet(S) /\ Cardinality(S) \in Nat /\ Cardinality(S) <= n
<1> DEFINE T == {f[i].pageNum : i \in 1 .. n}
           h == [i \in 1 .. n |-> f[i].pageNum]
<1>1. h \in Surjection(1 .. n, T)
  BY DEF Surjection
<1>2. IsFiniteSet(1 .. n) /\ Cardinality(1 .. n) = n
  <2>1. CASE n = 0
    <3>1. 1 .. n = {}
      BY <2>1
    <3> QED
      BY <2>1, <3>1, FS_EmptySet
  <2>2. CASE n # 0
    <3>1. 1 \in Int /\ n \in Int /\ ~(1 > n)
      BY <2>2
    <3> QED
      BY <3>1, FS_Interval
  <2> QED
    BY <2>1, <2>2
<1> HIDE DEF h, T
<1>3. IsFiniteSet(T) /\ Cardinality(T) <= n /\ Cardinality(T) \in Nat
  BY <1>1, <1>2, FS_Surjection, FS_CardinalityType
<1>4. S \in SUBSET T
  BY DEF T
<1>5. IsFiniteSet(S) /\ Cardinality(S) <= Cardinality(T) /\ Cardinality(S) \in Nat
  BY <1>3, <1>4, FS_Subset, FS_CardinalityType
<1> QED
  BY <1>3, <1>5

(* A full list in which only the first node is not fixed has all the others held. *)
LEMMA FullIsHeld ==
  ASSUME IsFiniteSet(Clients), Inv, Full, Unfixed \in SUBSET {1}
  PROVE  Cardinality(HeldPages) >= NumFrames - 1
<1> USE DEF Inv
<1> DEFINE Behind == 2 .. NumFrames
           h == [i \in Behind |-> list[i].pageNum]
<1>1. Places = 1 .. NumFrames /\ NumFrames \in Nat \ {0} /\ Behind \in SUBSET Places
  BY ListTyped, FramesAssumption DEF Full
<1>2. IsFiniteSet(Behind) /\ Cardinality(Behind) = NumFrames - 1
  <2>1. CASE NumFrames = 1
    <3>1. Behind = {}
      BY <2>1
    <3> QED
      BY <2>1, <3>1, FS_EmptySet
  <2>2. CASE NumFrames # 1
    <3>1. 2 \in Int /\ NumFrames \in Int /\ ~(2 > NumFrames) /\ NumFrames - 2 + 1 = NumFrames - 1
      BY <1>1, <2>2
    <3> QED
      BY <3>1, FS_Interval
  <2> QED
    BY <2>1, <2>2
<1>3. ASSUME NEW i \in Behind PROVE list[i].pageNum \in HeldPages
  <2>1. i \in Places /\ i # 1
    BY <1>1
  <2>2. HoldersOf(list[i].pageNum) # {}
    BY <2>1, UnfixedUnheld
  <2>3. list[i].pageNum # NO_PAGE
    BY <2>1, ListTyped, Sentinels DEF Node
  <2> QED
    BY <2>2, <2>3 DEF HoldersOf, HeldPages
<1>4. ASSUME NEW i \in Behind, NEW j \in Behind, list[i].pageNum = list[j].pageNum
      PROVE  i = j
  BY <1>1, <1>4 DEF Distinct
<1> HIDE DEF Behind
<1>5. h \in Injection(Behind, HeldPages)
  BY <1>3, <1>4 DEF Injection, IsInjective
<1>6. \A s \in HeldPages : \E i \in 1 .. NumFrames : list[i].pageNum = s
  BY <1>1 DEF HeldPages, HandlesListed, Holding
<1>7. IsFiniteSet(HeldPages) /\ Cardinality(HeldPages) \in Nat
  BY <1>1, <1>6, FitsList
<1> HIDE DEF h
<1>8. Cardinality(Behind) <= Cardinality(HeldPages)
  BY <1>5, <1>7, FS_Injection
<1> QED
  BY <1>1, <1>2, <1>7, <1>8

-----------------------------------------------------------------------------
(* The actions of the store, told by what they do to each page and each client. *)

PagesKept == \A p \in PageNums : Contents(p)' = Contents(p)
HandlesKept == \A c \in Clients : handle'[c] = handle[c] /\ View(c)' = View(c)

(* The store counts the pages its clients hold as the pool does. *)
LEMMA SameCount ==
  ASSUME NEW S
  PROVE  Store!Cardinality(S) = Cardinality(S)
BY DEF Store!Cardinality, Cardinality

LEMMA SameHeld ==
  Store!HeldPages = HeldPages
BY DEF Store!HeldPages, HeldPages

LEMMA StoreStutters ==
  ASSUME TypeOK, TypeOK', pool # "broken", pool' # "broken", present' = present,
         PagesKept, HandlesKept
  PROVE  UNCHANGED Store!vars
<1>1. handle' = handle
  BY DEF TypeOK, HandlesKept
<1> QED
  BY <1>1 DEF Store!vars, PagesKept, HandlesKept, View

LEMMA StoreCreates ==
  ASSUME pool # "broken", pool' # "broken", present' = TRUE, handle' = handle,
         \A c \in Clients : handle[c] = NO_PAGE,
         \A c \in Clients : View(c)' = View(c),
         \A p \in PageNums : Contents(p)' = IF p = 0 THEN Blank ELSE Unstored
  PROVE  Store!Create
BY DEF Store!Create, Store!HeldPages, View

LEMMA StoreFails ==
  ASSUME TypeOK, TypeOK', pool # "broken", pool' = "broken", present' = present,
         PagesKept, HandlesKept, Cardinality(HeldPages) >= NumFrames - 1
  PROVE  Store!Fail
<1>1. Store!Cardinality(Store!HeldPages) = Cardinality(HeldPages)
  BY SameHeld, SameCount
<1>2. handle' = handle
  BY DEF TypeOK, HandlesKept
<1> QED
  BY <1>1, <1>2 DEF Store!Fail, PagesKept, HandlesKept, View

LEMMA StorePins ==
  ASSUME NEW c \in Clients, NEW p \in PageNums, NEW d \in Data,
         pool # "broken", pool' # "broken", present, present', PagesKept,
         handle[c] = NO_PAGE, handle' = [handle EXCEPT ![c] = p],
         View(c)' = d, \A o \in Clients \ {c} : View(o)' = View(o),
         Cardinality(HeldPages \cup {p}) <= NumFrames,
         Contents(p) # Unstored => d = Contents(p),
         \A o \in Clients : handle[o] = p => d = View(o)
  PROVE  Store!Pin(c, p)
<1>1. Store!Cardinality(Store!HeldPages \cup {p}) <= NumFrames
  BY SameHeld, SameCount
<1>2. \A o \in Store!Holders(p) : o \in Clients /\ d = View(o)
  BY DEF Store!Holders
<1>3. [o \in Clients |-> View(o)]' = [[o \in Clients |-> View(o)] EXCEPT ![c] = d]
  OBVIOUS
<1>4. UNCHANGED <<pool # "broken", present, [q \in PageNums |-> Contents(q)]>>
  BY DEF PagesKept
<1> QED
  BY <1>1, <1>2, <1>3, <1>4 DEF Store!Pin, View

LEMMA StoreWrites ==
  ASSUME NEW c \in Clients, NEW d \in Data,
         pool # "broken", pool' # "broken", present' = present, handle' = handle,
         handle[c] \in PageNums, handle[c] # NO_PAGE,
         \A q \in PageNums : Contents(q)' = IF q = handle[c] THEN d ELSE Contents(q),
         \A o \in Clients : View(o)' = IF handle[o] = handle[c] THEN d ELSE View(o)
  PROVE  Store!Write(c, d)
BY DEF Store!Write, View

LEMMA StoreUnpins ==
  ASSUME NEW c \in Clients, pool # "broken", pool' # "broken", present' = present, PagesKept,
         handle[c] # NO_PAGE, handle' = [handle EXCEPT ![c] = NO_PAGE],
         View(c)' = Unstored, \A o \in Clients \ {c} : View(o)' = View(o)
  PROVE  Store!Unpin(c)
<1>1. [o \in Clients |-> View(o)]' = [[o \in Clients |-> View(o)] EXCEPT ![c] = Unstored]
  OBVIOUS
<1>2. UNCHANGED <<pool # "broken", present, [q \in PageNums |-> Contents(q)]>>
  BY DEF PagesKept
<1> QED
  BY <1>1, <1>2 DEF Store!Unpin, View

-----------------------------------------------------------------------------
(* Every step is one of the store's, or shows in none of its variables. *)

LEMMA PinsRefine ==
  ASSUME IsFiniteSet(Clients), Inv, Inv', NEW c \in Clients, NEW p \in PageNums,
         NEW x \in Node, NEW i \in Nat, PinsNode(c, p, x, i)
  PROVE  Store!Pin(c, p)
<1> USE DEF Inv
<1>1. /\ pool = "open" /\ pool' = "open" /\ present /\ present'
      /\ handle[c] = NO_PAGE /\ handle' = [handle EXCEPT ![c] = p]
      /\ stored' = stored
      /\ x.pageNum = p /\ x.content \in Data
      /\ list' \in Seq(Node) /\ 1 \in Places' /\ list'[1] = x
      /\ \A k \in Places' \ {1} : \E j \in Places \ {i} : list'[k] = list[j]
      /\ \A j \in Places \ {i} : \E k \in Places' \ {1} : list'[k] = list[j]
      /\ \A j \in Places \ {i} : list[j].pageNum # p
      /\ \A q \in PageNums : (i \in Places => list[i].pageNum # q) => disk'[q] = disk[q]
  BY DEF PinsNode, SetHandle, NodesMoved, OpenHasFile, Node
<1>2. handle'[c] = p /\ \A o \in Clients \ {c} : handle'[o] = handle[o]
  BY <1>1 DEF TypeOK
<1>3. Bytes(p)' = x.content /\ (p \in stored => Contents(p)' = x.content)
  BY <1>1, ContentsBecome
(* What was read of p is what is read now. *)
<1>4. /\ Holding(p) # {} => Bytes(p) = x.content
      /\ p \in stored => Contents(p) = x.content
  <2>1. CASE i \in Places /\ WasAt(x, i)
    BY <1>1, <2>1, ContentsAre DEF WasAt, Holding
  <2>2. CASE FromFile(x) /\ \A j \in Places : list[j].pageNum # p
    <3>1. Holding(p) = {}
      BY <2>2 DEF Holding
    <3>2. p \in stored => disk'[p] = x.content
      BY <1>1, <2>2 DEF FromFile
    <3>3. i \in Places => list[i].pageNum # p
      BY <2>2
    <3>4. disk'[p] = disk[p]
      BY <1>1, <3>3
    <3> QED
      BY <3>1, <3>2, <3>4, ContentsAre
  <2> QED
    BY <2>1, <2>2 DEF PinsNode
(* The nodes that stay. *)
<1>5. ASSUME NEW q, NEW j \in Places \ {i}, list[j].pageNum = q
      PROVE  Bytes(q)' = Bytes(q) /\ (q \in stored => Contents(q)' = Contents(q))
  <2>1. PICK k \in Places' \ {1} : list'[k] = list[j]
    BY <1>1
  <2>2. Bytes(q)' = list'[k].content /\ (q \in stored' => Contents(q)' = list'[k].content)
    BY <1>1, <1>5, <2>1, ContentsBecome
  <2>3. Bytes(q) = list[j].content /\ (q \in stored => Contents(q) = list[j].content)
    BY <1>5, ContentsAre
  <2> QED
    BY <1>1, <2>1, <2>2, <2>3
<1>6. ASSUME NEW q \in PageNums PROVE Contents(q)' = Contents(q)
  <2>1. CASE q \notin stored
    BY <1>1, <2>1 DEF Contents
  <2>2. CASE q \in stored /\ q = p
    BY <1>3, <1>4, <2>2
  <2>3. CASE \E j \in Places \ {i} : q \in stored /\ list[j].pageNum = q
    BY <1>5, <2>3
  <2>4. CASE q \in stored /\ q # p /\ \A j \in Places \ {i} : list[j].pageNum # q
    <3>1. Holding(q)' = {}
      <4>1. ASSUME NEW k \in Places' PROVE list'[k].pageNum # q
        BY <1>1, <2>4
      <4> QED
        BY <4>1 DEF Holding
    <3>2. Contents(q)' = disk'[q]
      BY <1>1, <2>4, <3>1, ContentsBecome
    <3>3. CASE i \in Places /\ list[i].pageNum = q
      <4>1. Leaves(i)
        BY <1>1, <2>4, <3>3 DEF PinsNode, WasAt
      <4>2. disk'[q] = list[i].content
        BY <2>4, <3>3, <4>1 DEF Leaves
      <4> QED
        BY <2>4, <3>2, <3>3, <4>2, ContentsAre
    <3>4. CASE ~(i \in Places /\ list[i].pageNum = q)
      <4>1. Holding(q) = {}
        BY <2>4, <3>4 DEF Holding
      <4> QED
        BY <1>1, <2>4, <3>2, <3>4, <4>1, ContentsAre
    <3> QED
      BY <3>3, <3>4
  <2> QED
    BY <2>1, <2>2, <2>3, <2>4
<1>7. View(c)' = x.content
  BY <1>2, <1>3 DEF View
<1>8. ASSUME NEW o \in Clients \ {c} PROVE View(o)' = View(o)
  <2>1. handle'[o] = handle[o]
    BY <1>2
  <2>2. CASE handle[o] = NO_PAGE
    BY <2>1, <2>2, NobodyReads, NobodyWillRead DEF View
  <2>3. CASE handle[o] = p
    <3>1. Holding(p) # {}
      BY <2>3, Sentinels DEF HandlesListed
    <3>2. Bytes(p) = x.content
      BY <1>4, <3>1
    <3>3. handle[o]' = p
      BY <2>1, <2>3
    <3> QED
      BY <1>3, <2>3, <3>2, <3>3 DEF View
  <2>4. CASE handle[o] # NO_PAGE /\ handle[o] # p
    <3>1. PICK j \in Places : list[j].pageNum = handle[o]
      BY <2>4 DEF HandlesListed, Holding
    <3>2. j # i
      BY <1>1, <2>4, <3>1 DEF PinsNode, WasAt, Leaves, HoldersOf
    <3>3. \A q : list[j].pageNum = q => Bytes(q)' = Bytes(q)
      BY <1>5, <3>2
    <3> QED
      BY <2>1, <3>1, <3>3 DEF View
  <2> QED
    BY <2>2, <2>3, <2>4
<1>9. Cardinality(HeldPages \cup {p}) <= NumFrames
  <2>1. Places' = 1 .. Len(list') /\ Len(list') \in Nat /\ Len(list') <= NumFrames
    BY <1>1 DEF Places, TypeOK
  <2>2. ASSUME NEW q \in HeldPages \cup {p}
        PROVE  \E k \in 1 .. Len(list') : list'[k].pageNum = q
    <3>1. CASE q = p
      BY <1>1, <2>1, <3>1
    <3>2. CASE q # p
      <4>1. PICK o \in Clients : handle[o] = q /\ q # NO_PAGE
        BY <3>2 DEF HeldPages
      <4>2. handle'[o] = q
        BY <1>1, <1>2, <4>1
      <4>3. \E k \in Places' : list'[k].pageNum = q
        BY <4>1, <4>2 DEF HandlesListed, Holding
      <4> QED
        BY <2>1, <4>3
    <3> QED
      BY <3>1, <3>2
  <2>3. Cardinality(HeldPages \cup {p}) \in Nat /\ Cardinality(HeldPages \cup {p}) <= Len(list')
    BY <2>1, <2>2, FitsList
  <2> QED
    BY <2>1, <2>3, FramesAssumption
<1>10. Contents(p) # Unstored => x.content = Contents(p)
  BY <1>4 DEF Contents
<1>11. ASSUME NEW o \in Clients, handle[o] = p PROVE x.content = View(o)
  BY <1>4, <1>11, Sentinels DEF HandlesListed, View
<1>12. PagesKept
  BY <1>6 DEF PagesKept
<1>13. pool # "broken" /\ pool' # "broken"
  BY <1>1
<1> QED
  BY <1>1, <1>7, <1>8, <1>9, <1>10, <1>11, <1>12, <1>13, StorePins

(* Nodes that keep their pages and their bytes. *)
BytesKept ==
    /\ Rewritten /\ \A i \in Places : list'[i].content = list[i].content
    /\ stored' = stored
    /\ \A p \in PageNums : Holding(p) = {} => disk'[p] = disk[p]

LEMMA SameList ==
  ASSUME TypeOK, list' = list
  PROVE  Rewritten
BY ListTyped DEF Rewritten

LEMMA BytesKeptShow ==
  ASSUME Inv, Inv', BytesKept
  PROVE  /\ PagesKept
         /\ \A q : q \in PageNums \cup {NO_PAGE} => Bytes(q)' = Bytes(q)
<1> USE DEF Inv
<1>1. /\ Places' = Places /\ (\A p : Holding(p)' = Holding(p))
      /\ list' \in Seq(Node)
      /\ \A i \in Places : list'[i].pageNum = list[i].pageNum /\ list'[i].content = list[i].content
  BY RewrittenStays DEF BytesKept, Rewritten
<1>2. ASSUME NEW q \in PageNums
      PROVE  Contents(q)' = Contents(q) /\ Bytes(q)' = Bytes(q)
  <2>1. CASE Holding(q) = {}
    <3>1. Holding(q)' = {} /\ disk'[q] = disk[q]
      BY <1>1, <2>1 DEF BytesKept
    <3>2. CASE q \notin stored
      BY <1>1, <2>1, <3>1, <3>2, ContentsAre, ContentsBecome DEF BytesKept
    <3>3. CASE q \in stored
      BY <1>1, <2>1, <3>1, <3>3, ContentsAre, ContentsBecome DEF BytesKept
    <3> QED
      BY <3>2, <3>3
  <2>2. CASE Holding(q) # {}
    <3>1. PICK i \in Places : list[i].pageNum = q
      BY <2>2 DEF Holding
    <3>2. i \in Places' /\ list'[i].pageNum = q /\ list'[i].content = list[i].content
      BY <1>1, <3>1
    <3>3. Bytes(q)' = list[i].content /\ Bytes(q) = list[i].content
      BY <1>1, <3>1, <3>2, ContentsAre, ContentsBecome
    <3>4. CASE q \notin stored
      BY <3>3, <3>4 DEF BytesKept, Contents
    <3>5. CASE q \in stored
      BY <1>1, <3>1, <3>2, <3>3, <3>5, ContentsAre, ContentsBecome DEF BytesKept
    <3> QED
      BY <3>4, <3>5
  <2> QED
    BY <2>1, <2>2
<1>3. Bytes(NO_PAGE)' = Bytes(NO_PAGE)
  BY NobodyReads, NobodyWillRead
<1> QED
  BY <1>2, <1>3 DEF PagesKept

LEMMA HandlesKeptShow ==
  ASSUME Inv, Inv', BytesKept, handle' = handle
  PROVE  PagesKept /\ HandlesKept
<1>1. ASSUME NEW c \in Clients PROVE View(c)' = View(c)
  <2>1. handle[c] \in PageNums \cup {NO_PAGE} /\ handle'[c] = handle[c]
    BY DEF Inv, TypeOK
  <2>2. \A q : q = handle[c] => Bytes(q)' = Bytes(q)
    BY <2>1, BytesKeptShow
  <2> QED
    BY <2>1, <2>2 DEF View
<1> QED
  BY <1>1, BytesKeptShow DEF HandlesKept

LEMMA QuietStutters ==
  ASSUME Inv, Inv', BytesKept, handle' = handle, present' = present,
         pool # "broken", pool' # "broken"
  PROVE  UNCHANGED Store!vars
BY HandlesKeptShow, StoreStutters DEF Inv

LEMMA OpenRefines ==
  ASSUME Inv, Inv', initBufferPool
  PROVE  UNCHANGED Store!vars
<1>1. /\ list' = list /\ handle' = handle /\ present' = present /\ stored' = stored
      /\ disk' = disk /\ pool # "broken" /\ pool' # "broken"
  BY DEF initBufferPool, listVars, fileVars, clientVars
<1>2. BytesKept
  BY <1>1, SameList DEF BytesKept, Inv
<1> QED
  BY <1>1, <1>2, QuietStutters

LEMMA ForcePageRefines ==
  ASSUME Inv, Inv', NEW p \in PageNums, forcePage(p)
  PROVE  UNCHANGED Store!vars
<1>1. /\ list' = list /\ handle' = handle /\ present' = present /\ stored' = stored
      /\ pool = "open" /\ pool' = pool
  BY DEF forcePage, listVars, clientVars
<1>2. PICK i \in Places : Written({i})
  BY ForcePageWrites
<1>3. \A q \in PageNums : Holding(q) = {} => disk'[q] = disk[q]
  BY <1>2 DEF Written, Holding
<1>4. BytesKept
  BY <1>1, <1>3, SameList DEF BytesKept, Inv
<1> QED
  BY <1>1, <1>4, QuietStutters

LEMMA FlushRefines ==
  ASSUME Inv, Inv', pool = "open", Flush, UNCHANGED <<pool, evicted, cut, clientVars>>
  PROVE  UNCHANGED Store!vars
<1>1. handle' = handle /\ present' = present /\ stored' = stored /\ pool' = pool
  BY DEF clientVars, Flush, WriteToFlush
<1>2. Written(ToFlush) /\ ToFlush \in SUBSET Places
  BY FlushWrites DEF Flush
<1>3. \A q \in PageNums : Holding(q) = {} => disk'[q] = disk[q]
  BY <1>2 DEF Written, Holding
<1>4. BytesKept
  BY <1>1, <1>3, FlushRewrites DEF BytesKept
<1> QED
  BY <1>1, <1>4, QuietStutters

LEMMA ClosesRefines ==
  ASSUME IsFiniteSet(Clients), Inv, Inv', Closes
  PROVE  UNCHANGED Store!vars
<1> USE DEF Inv
<1>1. /\ list' = <<>> /\ handle' = handle /\ stored' = stored /\ present' = present
      /\ pool = "open" /\ pool' = "closed"
  BY DEF Closes, clientVars, WriteToFlush
<1>2. /\ \A c \in Clients : handle[c] = NO_PAGE
      /\ \A i \in Places : list[i].pageNum \in stored => disk'[list[i].pageNum] = list[i].content
      /\ \A p \in PageNums : Holding(p) = {} => disk'[p] = disk[p]
  BY ClosingSaves
<1>3. \A q : Holding(q)' = {}
  BY <1>1 DEF Holding, Places
<1>4. ASSUME NEW q \in PageNums PROVE Contents(q)' = Contents(q)
  <2>1. CASE q \notin stored
    BY <1>1, <2>1 DEF Contents
  <2>2. CASE q \in stored
    <3>1. Contents(q)' = disk'[q]
      BY <1>1, <1>3, <2>2 DEF Contents
    <3>2. CASE Holding(q) = {}
      BY <1>2, <2>2, <3>1, <3>2, ContentsAre
    <3>3. CASE Holding(q) # {}
      <4>1. PICK i \in Places : list[i].pageNum = q
        BY <3>3 DEF Holding
      <4> QED
        BY <1>2, <2>2, <3>1, <4>1, ContentsAre
    <3> QED
      BY <3>2, <3>3
  <2> QED
    BY <2>1, <2>2
<1>5. ASSUME NEW c \in Clients PROVE handle'[c] = handle[c] /\ View(c)' = View(c)
  BY <1>1, <1>2, NobodyReads, NobodyWillRead DEF View
<1> QED
  BY <1>1, <1>4, <1>5, StoreStutters DEF PagesKept, HandlesKept

LEMMA CreateRefines ==
  ASSUME Inv, Inv', createPageFile
  PROVE  Store!Create
<1>1. /\ pool = "closed" /\ pool' = "closed" /\ present' = TRUE
      /\ disk' = [p \in PageNums |-> Blank] /\ stored' = PageNums \cap {0}
      /\ list' = list /\ handle' = handle
  BY DEF createPageFile, listVars
<1>2. Places = {} /\ \A c \in Clients : handle[c] = NO_PAGE
  BY <1>1, ClosedUnheld
<1>3. \A q : Holding(q)' = {}
  BY <1>1, <1>2 DEF Holding, Places
<1>4. ASSUME NEW q \in PageNums PROVE Contents(q)' = IF q = 0 THEN Blank ELSE Unstored
  BY <1>1, <1>3 DEF Contents
<1>5. ASSUME NEW c \in Clients PROVE View(c)' = View(c)
  BY <1>1, <1>2, NobodyReads, NobodyWillRead DEF View
<1> QED
  BY <1>1, <1>2, <1>4, <1>5, StoreCreates

LEMMA MarkDirtyRefines ==
  ASSUME Inv, Inv', NEW c \in Clients, markDirty(c)
  PROVE  UNCHANGED Store!vars
<1>1. PICK i : HeldAt(c, i) /\ Changes(i) /\ list'[i].content = list[i].content
  BY MarkDirtyChanges
<1>2. /\ handle' = handle /\ present' = present /\ stored' = stored /\ disk' = disk
      /\ pool' = pool /\ pool = "open"
  BY <1>1 DEF markDirty, fileVars, HeldAt
<1>3. BytesKept
  BY <1>1, <1>2 DEF BytesKept, Changes
<1> QED
  BY <1>2, <1>3, QuietStutters

LEMMA UnpinRefines ==
  ASSUME IsFiniteSet(Clients), Inv, Inv', NEW c \in Clients, unpinPage(c)
  PROVE  Store!Unpin(c)
<1>1. PICK i : HeldAt(c, i) /\ Changes(i) /\ list'[i].content = list[i].content
  BY UnpinChanges
<1>2. /\ handle' = [handle EXCEPT ![c] = NO_PAGE] /\ handle[c] # NO_PAGE
      /\ present' = present /\ stored' = stored /\ disk' = disk /\ pool' = pool /\ pool = "open"
  BY <1>1 DEF unpinPage, fileVars, HeldAt
<1>3. BytesKept
  BY <1>1, <1>2 DEF BytesKept, Changes
<1>4. handle'[c] = NO_PAGE /\ \A o \in Clients \ {c} : handle'[o] = handle[o]
  BY <1>2 DEF Inv, TypeOK
<1>5. View(c)' = Unstored
  BY <1>4, NobodyWillRead DEF View
<1>6. ASSUME NEW o \in Clients \ {c} PROVE View(o)' = View(o)
  <2>1. handle[o] \in PageNums \cup {NO_PAGE} /\ handle'[o] = handle[o]
    BY <1>4 DEF Inv, TypeOK
  <2>2. \A q : q = handle[o] => Bytes(q)' = Bytes(q)
    BY <1>3, <2>1, BytesKeptShow
  <2> QED
    BY <2>1, <2>2 DEF View
<1>7. PagesKept
  BY <1>3, BytesKeptShow
<1>8. pool # "broken" /\ pool' # "broken"
  BY <1>1, <1>2
<1> QED
  BY <1>1, <1>2, <1>5, <1>6, <1>7, <1>8, StoreUnpins

LEMMA WriteDataRefines ==
  ASSUME Inv, Inv', NEW c \in Clients, NEW d \in Data, writeData(c, d)
  PROVE  Store!Write(c, d)
<1> USE DEF Inv
<1>1. PICK i : HeldAt(c, i) /\ Changes(i) /\ list'[i].content = d
  BY WriteDataChanges
<1>2. /\ handle' = handle /\ present' = present /\ disk' = disk /\ pool' = pool
      /\ stored' = stored \cup {handle[c]}
  BY DEF writeData, fileVars
<1>3. /\ pool = "open" /\ handle[c] \in PageNums /\ handle[c] # NO_PAGE
      /\ i \in Places /\ list[i].pageNum = handle[c]
  BY <1>1 DEF HeldAt
<1>4. /\ Rewritten /\ (\A j \in Places \ {i} : list'[j] = list[j])
      /\ list'[i].pageNum = handle[c]
  BY <1>1, <1>3 DEF Changes, Rewritten
<1>5. Places' = Places /\ (\A p : Holding(p)' = Holding(p)) /\ list' \in Seq(Node)
  BY <1>4, RewrittenStays DEF Rewritten
<1>6. ASSUME NEW q, q = handle[c] PROVE Contents(q)' = d /\ Bytes(q)' = d
  BY <1>1, <1>2, <1>3, <1>4, <1>5, <1>6, ContentsBecome
<1>7. ASSUME NEW q \in PageNums, q # handle[c]
      PROVE  Contents(q)' = Contents(q) /\ Bytes(q)' = Bytes(q)
  <2>1. q \in stored' <=> q \in stored
    BY <1>2, <1>7
  <2>2. CASE Holding(q) = {}
    <3>1. Holding(q)' = {} /\ disk'[q] = disk[q]
      BY <1>2, <1>5, <2>2
    <3>2. CASE q \notin stored
      BY <1>5, <2>1, <2>2, <3>1, <3>2, ContentsAre, ContentsBecome
    <3>3. CASE q \in stored
      BY <1>5, <2>1, <2>2, <3>1, <3>3, ContentsAre, ContentsBecome
    <3> QED
      BY <3>2, <3>3
  <2>3. CASE Holding(q) # {}
    <3>1. PICK j \in Places : list[j].pageNum = q
      BY <2>3 DEF Holding
    <3>2. j \in Places' /\ list'[j] = list[j]
      BY <1>3, <1>4, <1>5, <1>7, <3>1
    <3>3. Bytes(q)' = list[j].content /\ Bytes(q) = list[j].content
      BY <1>5, <3>1, <3>2, ContentsAre, ContentsBecome
    <3>4. CASE q \notin stored
      BY <2>1, <3>3, <3>4 DEF Contents
    <3>5. CASE q \in stored
      BY <1>5, <2>1, <3>1, <3>2, <3>3, <3>5, ContentsAre, ContentsBecome
    <3> QED
      BY <3>4, <3>5
  <2> QED
    BY <2>2, <2>3
<1>8. ASSUME NEW q \in PageNums PROVE Contents(q)' = IF q = handle[c] THEN d ELSE Contents(q)
  BY <1>6, <1>7
<1>9. ASSUME NEW o \in Clients
       PROVE  View(o)' = IF handle[o] = handle[c] THEN d ELSE View(o)
  <2>1. handle'[o] = handle[o] /\ handle[o] \in PageNums \cup {NO_PAGE}
    BY <1>2 DEF TypeOK
  <2>2. \A q : q = handle[o] => Bytes(q)' = IF q = handle[c] THEN d ELSE Bytes(q)
    BY <1>6, <1>7, <2>1, NobodyReads, NobodyWillRead
  <2> QED
    BY <2>1, <2>2 DEF View
<1>10. pool # "broken" /\ pool' # "broken"
  BY <1>2, <1>3
<1> QED
  BY <1>2, <1>3, <1>8, <1>9, <1>10, StoreWrites

(* Where the list breaks under careful clients, all nodes but the first are held. *)
LEMMA BrokenIsFull ==
  ASSUME IsFiniteSet(Clients), Inv, NEW p \in PageNums, LRUCrash(p), careful'
  PROVE  Cardinality(HeldPages) >= NumFrames - 1
<1>1. Full /\ ~cut /\ \A i \in Places : LastUnfixed(i) => i = 1 \/ (i = Len(list) /\ cut)
  BY DEF LRUCrash, Inv, CarefulNotCut
<1>2. Unfixed \in SUBSET {1}
  <2>1. CASE Unfixed = {}
    BY <2>1
  <2>2. CASE Unfixed # {}
    <3>1. PICK i \in Unfixed : LastUnfixed(i)
      BY <2>2, LastUnfixedExists DEF Inv
    <3>2. i = 1 /\ \A j \in Unfixed : j <= i
      BY <1>1, <3>1 DEF Unfixed, LastUnfixed
    <3>3. \A j \in Unfixed : j \in 1 .. Len(list) /\ Len(list) \in Nat
      BY ListTyped DEF Unfixed, Inv
    <3> QED
      BY <3>2, <3>3
  <2> QED
    BY <2>1, <2>2
<1> QED
  BY <1>1, <1>2, FullIsHeld

LEMMA BreakRefines ==
  ASSUME Inv, Inv', Break, pool = "open", Cardinality(HeldPages) >= NumFrames - 1
  PROVE  Store!Fail
<1>1. /\ list' = list /\ handle' = handle /\ present' = present /\ stored' = stored
      /\ disk' = disk /\ pool' = "broken"
  BY DEF Break, listVars, fileVars
<1>2. BytesKept
  BY <1>1, SameList DEF BytesKept, Inv
<1> QED
  BY <1>1, <1>2, HandlesKeptShow, StoreFails DEF Inv

LEMMA PinPageRefines ==
  ASSUME IsFiniteSet(Clients), Inv, Inv', NEW c \in Clients, NEW p \in PageNums,
         pinPage(c, p), careful'
  PROVE  Store!Pin(c, p) \/ Store!Fail
<1>1. pool = "open"
  BY DEF pinPage
<1>2. CASE Breaks
  <2>1. pool' = "broken" /\ Break
    BY <1>2 DEF Breaks, Break
  <2>2. ~LRUHit(c, p)
    <3>1. SUFFICES ASSUME LRUHit(c, p) PROVE FALSE
      OBVIOUS
    <3>2. PICK i \in Holding(p) :
            /\ careful' = (careful /\ i > 1 /\ ~AtTheEnd(i))
            /\ (i = 1 \/ (AtTheEnd(i) /\ cut)) \/ UNCHANGED pool
      BY <3>1 DEF LRUHit
    <3>3. i > 1 /\ ~AtTheEnd(i)
      BY <3>2
    <3> QED
      BY <1>1, <2>1, <3>2, <3>3
  <2>3. LRUCrash(p)
    BY <1>1, <2>1, <2>2 DEF pinPage, LRUAdd, LRUReplace
  <2> QED
    BY <1>1, <2>1, <2>3, BrokenIsFull, BreakRefines
<1>3. CASE \E x \in Node, i \in Nat : PinsNode(c, p, x, i)
  BY <1>3, PinsRefine
<1> QED
  BY <1>2, <1>3, PinSteps

LEMMA StoreStep ==
  ASSUME IsFiniteSet(Clients), Inv, Inv', [Next]_vars, careful'
  PROVE  [Store!Next]_(Store!vars)
<1>1. ASSUME NEW c \in Clients, NEW p \in PageNums, pinPage(c, p)
      PROVE  Store!Next
  BY <1>1, PinPageRefines DEF Store!Next
<1>2. ASSUME NEW c \in Clients, NEW d \in Data, writeData(c, d)
      PROVE  Store!Next
  BY <1>2, WriteDataRefines DEF Store!Next
<1>3. ASSUME NEW c \in Clients, unpinPage(c)
      PROVE  Store!Next
  BY <1>3, UnpinRefines DEF Store!Next
<1>4. CASE createPageFile
  BY <1>4, CreateRefines DEF Store!Next
<1>5. ASSUME NEW c \in Clients, markDirty(c)
      PROVE  UNCHANGED Store!vars
  BY <1>5, MarkDirtyRefines
<1>6. ASSUME NEW p \in PageNums, forcePage(p)
      PROVE  UNCHANGED Store!vars
  BY <1>6, ForcePageRefines
<1>7. CASE initBufferPool \/ forceFlushPool \/ shutdownBufferPool
  BY <1>7, OpenRefines, FlushRefines, ShutdownSteps, ClosesRefines DEF forceFlushPool
<1>8. CASE UNCHANGED vars
  BY <1>8 DEF vars, listVars, fileVars, clientVars, Store!vars, Contents, Bytes, Holding, First, Places
<1> QED
  BY <1>1, <1>2, <1>3, <1>4, <1>5, <1>6, <1>7, <1>8 DEF Next

LEMMA StoreInit ==
  Init => Store!Init
<1> SUFFICES ASSUME Init PROVE Store!Init
  OBVIOUS
<1>1. pool = "closed" /\ present = FALSE /\ list = <<>> /\ stored = {}
      /\ handle = [c \in Clients |-> NO_PAGE]
  BY DEF Init
<1>2. \A p : Contents(p) = Unstored /\ Bytes(p) = Unstored
  BY <1>1 DEF Contents, Bytes, Holding, Places
<1>3. [p \in PageNums |-> Contents(p)] = [p \in PageNums |-> Unstored]
  BY <1>2
<1>4. [c \in Clients |-> Bytes(handle[c])] = [c \in Clients |-> Unstored]
  BY <1>2
<1> QED
  BY <1>1, <1>3, <1>4 DEF Store!Init

(* As long as clients ask again only for pages inside the list, what they read through
   the pool under RS_LRU is what they would read from a store of pages, through moves to
   the front, replacements, flushes, shutdowns and reopenings; the list breaks only while
   all its nodes but the first are held. *)
THEOREM PoolIsAStore ==
  ASSUME IsFiniteSet(Clients)
  PROVE  Spec => ImplementsPageStore
<1>1. Init => Inv
  BY InitInv
<1>2. Init => Store!Init
  BY StoreInit
<1>3. Inv /\ [Next]_vars => Inv'
  BY InvStep
<1>4. Inv /\ Inv' /\ [Next]_vars => [careful' => [Store!Next]_(Store!vars)]_vars
  BY StoreStep
<1> QED
  BY <1>1, <1>2, <1>3, <1>4, PTL DEF Spec, ImplementsPageStore

-----------------------------------------------------------------------------
(* The order of the list, for any clients.                                   *)

Queue == [i \in Places |-> list[i].pageNum]
Kept == {list[i].pageNum : i \in Places \ Unfixed}

LEMMA SamePolicyOperators ==
  /\ \A s, i : Policy!RemoveAt(s, i) = RemoveAt(s, i)
  /\ \A s, e : Policy!Contains(s, e) <=> \E i \in 1 .. Len(s) : s[i] = e
BY DEF Policy!RemoveAt, RemoveAt, Policy!Contains

LEMMA QueueIs ==
  ASSUME TypeOK
  PROVE  /\ Queue \in Seq(PageNums) /\ Len(Queue) = Len(list) /\ DOMAIN Queue = Places
         /\ \A i \in Places : Queue[i] = list[i].pageNum
<1>1. /\ Places = 1 .. Len(list) /\ Len(list) \in Nat
      /\ \A i \in Places : list[i].pageNum \in PageNums
  BY ListTyped DEF Node
<1> QED
  BY <1>1 DEF Queue

(* The queue is what its pages, one by one, say. *)
LEMMA FrontedOnce ==
  ASSUME NEW S, NEW a \in Seq(S), NEW x, NEW i \in Nat,
         NEW b \in Seq(S), NEW d \in Seq(S), Fronted(b, x, a, i), Fronted(d, x, a, i)
  PROVE  b = d
<1>1. Len(b) = Len(d) /\ Len(b) \in Nat
  BY DEF Fronted
<1>2. ASSUME NEW j \in 1 .. Len(b) PROVE b[j] = d[j]
  <2>1. CASE j = 1
    BY <2>1 DEF Fronted
  <2>2. CASE j # 1
    BY <1>1, <2>2 DEF Fronted
  <2> QED
    BY <2>1, <2>2
<1> QED
  BY <1>1, <1>2, SeqEqual

(* The queue after pinPage. *)
LEMMA QueueFronted ==
  ASSUME Inv, Inv', NEW c \in Clients, NEW p \in PageNums, NEW x \in Node, NEW i \in Nat,
         i \in 1 .. Len(list) + 1, PinsNode(c, p, x, i)
  PROVE  Queue' \in Seq(PageNums) /\ Fronted(Queue', p, Queue, i)
<1>1. /\ Places = 1 .. Len(list) /\ Len(list) \in Nat
      /\ Queue \in Seq(PageNums) /\ Len(Queue) = Len(list)
      /\ \A j \in Places : Queue[j] = list[j].pageNum
  BY ListTyped, QueueIs DEF Inv
<1>2. list' \in Seq(Node) /\ Fronted(list', x, list, i) /\ x.pageNum = p
  BY DEF PinsNode, NodesMoved
<1>3. Places' = 1 .. Len(list') /\ Len(list') \in Nat
      /\ \A j \in Places' : list'[j].pageNum \in PageNums
  <2>1. Places' = 1 .. Len(list') /\ \A j \in Places' : list'[j] \in Node
    BY <1>2 DEF Places
  <2> QED
    BY <1>2, <2>1 DEF Node
<1>4. /\ Queue' \in Seq(PageNums) /\ Len(Queue') = Len(list')
      /\ \A j \in Places' : Queue'[j] = list'[j].pageNum
  BY <1>3 DEF Queue
<1>5. /\ Len(list') = IF i = Len(list) + 1 THEN Len(list) + 1 ELSE Len(list)
      /\ list'[1] = x
      /\ \A j \in 2 .. Len(list') : list'[j] = list[IF j <= i THEN j - 1 ELSE j]
  BY <1>2 DEF Fronted
<1>6. Queue'[1] = p
  BY <1>1, <1>2, <1>3, <1>4, <1>5
<1>7. ASSUME NEW j \in 2 .. Len(list')
      PROVE  Queue'[j] = Queue[IF j <= i THEN j - 1 ELSE j]
  <2> DEFINE k == IF j <= i THEN j - 1 ELSE j
  <2>1. k \in Places /\ j \in Places'
    BY <1>1, <1>3, <1>5
  <2>2. list'[j] = list[k]
    BY <1>5
  <2> QED
    BY <1>1, <1>4, <2>1, <2>2
<1> QED
  BY <1>1, <1>4, <1>5, <1>6, <1>7 DEF Fronted

(* The page that was pinned is kept, with those that were. *)
LEMMA KeptGrows ==
  ASSUME IsFiniteSet(Clients), Inv, Inv', NEW c \in Clients, NEW p \in PageNums,
         NEW x \in Node, NEW i \in Nat, PinsNode(c, p, x, i)
  PROVE  Kept' = Kept \cup {p}
<1>1. /\ 1 \in Places' /\ list'[1] = x /\ x.pageNum = p
      /\ \A k \in Places' \ {1} : \E j \in Places \ {i} : list'[k] = list[j]
      /\ \A j \in Places \ {i} : \E k \in Places' \ {1} : list'[k] = list[j]
  BY DEF PinsNode, NodesMoved
<1>2. x.fixCount # 0
  BY HoldersFinite DEF PinsNode
<1>3. ASSUME NEW j \in Places \ Unfixed PROVE j = i => list[j].pageNum = p
  BY UnfixedUnheld DEF PinsNode, WasAt, Leaves, Inv
<1>4. Kept' \subseteq Kept \cup {p}
  <2>1. ASSUME NEW k \in Places', list'[k].fixCount # 0
        PROVE  list'[k].pageNum \in Kept \cup {p}
    <3>1. CASE k = 1
      BY <1>1, <3>1
    <3>2. CASE k # 1
      BY <1>1, <2>1, <3>2 DEF Kept, Unfixed
    <3> QED
      BY <3>1, <3>2
  <2> QED
    BY <2>1 DEF Kept, Unfixed
<1>5. p \in Kept'
  BY <1>1, <1>2 DEF Kept, Unfixed
<1>6. ASSUME NEW j \in Places \ Unfixed PROVE list[j].pageNum \in Kept'
  <2>1. CASE j = i
    BY <1>3, <1>5, <2>1
  <2>2. CASE j # i
    <3>1. PICK k \in Places' : list'[k] = list[j]
      BY <1>1, <2>2
    <3> QED
      BY <3>1 DEF Kept, Unfixed
  <2> QED
    BY <2>1, <2>2
<1> QED
  BY <1>4, <1>5, <1>6 DEF Kept

LEMMA HitTouches ==
  ASSUME IsFiniteSet(Clients), Inv, Inv', NEW c \in Clients, NEW p \in PageNums,
         pool = "open", handle[c] = NO_PAGE, LRUHit(c, p), pool' # "broken"
  PROVE  Policy!Ask(p)
<1>1. PICK x \in Node, i \in Holding(p) : PinsNode(c, p, x, i)
  BY HitPins
<1>2. i \in Nat /\ i \in 1 .. Len(list) /\ i \in Places /\ Queue[i] = p
      /\ Queue \in Seq(PageNums) /\ Len(Queue) = Len(list) /\ DOMAIN Queue = Places
  BY ListTyped, QueueIs DEF Holding, Inv
<1>3. Queue' \in Seq(PageNums) /\ Fronted(Queue', p, Queue, i)
  BY <1>1, <1>2, QueueFronted
<1>4. Queue' = <<p>> \o RemoveAt(Queue, i)
  <2> DEFINE d == <<p>> \o RemoveAt(Queue, i)
  <2>1. i \in 1 .. Len(Queue)
    BY <1>2, <1>3
  <2>2. d \in Seq(PageNums) /\ Fronted(d, p, Queue, i)
    BY <1>2, <1>3, <2>1, MovedBefore
  <2> HIDE DEF d
  <2>3. Queue' = d
    BY <1>2, <1>3, <2>2, FrontedOnce
  <2> QED
    BY <2>3 DEF d
<1>5. Kept' = Kept \cup {p}
  BY <1>1, <1>2, KeptGrows
<1> QED
  BY <1>2, <1>4, <1>5, SamePolicyOperators DEF Policy!Ask, Policy!Touch, Queue, Kept

LEMMA AddLoads ==
  ASSUME IsFiniteSet(Clients), Inv, Inv', NEW c \in Clients, NEW p \in PageNums,
         pool = "open", handle[c] = NO_PAGE, LRUAdd(c, p)
  PROVE  Policy!Ask(p)
<1>1. PICK x \in Node : PinsNode(c, p, x, Len(list) + 1)
  BY AddPins
<1>2. /\ Len(list) + 1 \in Nat /\ Len(list) + 1 \in 1 .. Len(list) + 1
      /\ Queue \in Seq(PageNums) /\ Len(Queue) = Len(list) /\ Places = 1 .. Len(Queue)
      /\ \A i \in Places : Queue[i] = list[i].pageNum
      /\ Len(list) <= NumFrames
  BY ListTyped, QueueIs DEF Inv
<1>3. Queue' \in Seq(PageNums) /\ Fronted(Queue', p, Queue, Len(list) + 1)
  BY <1>1, <1>2, QueueFronted
<1>4. Queue' = <<p>> \o Queue
  BY <1>2, <1>3, PutBefore, FrontedOnce
<1>5. Kept' = Kept \cup {p}
  BY <1>1, <1>2, KeptGrows
<1>6. ~Policy!Contains(Queue, p)
  BY <1>2, SamePolicyOperators DEF LRUAdd, Holding
<1>7. Len(Queue) < NumFrames
  BY <1>2, FramesAssumption DEF LRUAdd, Full
<1> QED
  BY <1>4, <1>5, <1>6, <1>7 DEF Policy!Ask, Policy!Load, Queue, Kept

LEMMA ReplaceReplaces ==
  ASSUME IsFiniteSet(Clients), Inv, Inv', NEW c \in Clients, NEW p \in PageNums,
         pool = "open", handle[c] = NO_PAGE, LRUReplace(c, p)
  PROVE  Policy!Ask(p)
<1>1. PICK i \in Places : Replaces(p, i)
  BY DEF LRUReplace, Replaces
<1>2. PICK x \in Node : PinsNode(c, p, x, i)
  BY <1>1, ReplacePins
<1>3. /\ i \in Nat /\ i \in 1 .. Len(list) /\ Len(list) = NumFrames /\ NumFrames \in Nat
      /\ Queue \in Seq(PageNums) /\ Len(Queue) = Len(list) /\ DOMAIN Queue = Places
      /\ Places = 1 .. Len(Queue)
      /\ \A j \in Places : Queue[j] = list[j].pageNum
  BY ListTyped, QueueIs, FramesAssumption DEF LRUReplace, Full, Inv
<1>4. Queue' \in Seq(PageNums) /\ Fronted(Queue', p, Queue, i)
  BY <1>2, <1>3, QueueFronted
<1>5. Queue' = <<p>> \o RemoveAt(Queue, i)
  <2> DEFINE d == <<p>> \o RemoveAt(Queue, i)
  <2>1. i \in 1 .. Len(Queue)
    BY <1>3, <1>4
  <2>2. d \in Seq(PageNums) /\ Fronted(d, p, Queue, i)
    BY <1>3, <1>4, <2>1, MovedBefore
  <2> HIDE DEF d
  <2>3. Queue' = d
    BY <1>3, <1>4, <2>2, FrontedOnce
  <2> QED
    BY <2>3 DEF d
<1>6. Kept' = Kept \cup {p}
  BY <1>2, <1>3, KeptGrows
<1>7. ~Policy!Contains(Queue, p)
  BY <1>3, SamePolicyOperators DEF LRUReplace, Holding
<1>8. Queue[i] \notin Kept
  <2>1. i \in Unfixed
    BY <1>1 DEF Replaces, LastUnfixed
  <2>2. \A j \in Places \ Unfixed : list[j].pageNum # list[i].pageNum
    BY <2>1 DEF Inv, Distinct
  <2> QED
    BY <1>3, <2>2 DEF Kept
<1>9. ASSUME NEW j \in i + 1 .. NumFrames PROVE Queue[j] \in Kept
  <2>1. j \in Places /\ ~(j <= i)
    BY <1>3
  <2>2. j \notin Unfixed
    BY <1>1, <2>1 DEF Replaces, LastUnfixed
  <2> QED
    BY <1>3, <2>1, <2>2 DEF Kept
<1>10. Policy!Replace(p)
  BY <1>3, <1>5, <1>7, <1>8, <1>9, SamePolicyOperators DEF Policy!Replace, Queue, Kept
<1> QED
  BY <1>6, <1>10 DEF Policy!Ask, Kept

(* A step that moves no node and fixes none that was free. *)
LEMMA RewrittenReleases ==
  ASSUME TypeOK, Rewritten, \A i \in Places : list[i].fixCount = 0 => list'[i].fixCount = 0
  PROVE  Policy!Release
<1>1. /\ Places' = Places
      /\ \A i \in Places : list'[i].pageNum = list[i].pageNum
  BY RewrittenStays DEF Rewritten
<1>2. Queue' = Queue
  BY <1>1 DEF Queue
<1>3. Kept' \in SUBSET Kept
  BY <1>1 DEF Kept, Unfixed
<1> QED
  BY <1>2, <1>3 DEF Policy!Release, Queue, Kept

LEMMA PolicyStep ==
  ASSUME IsFiniteSet(Clients), Inv, Inv', [Next]_vars
  PROVE  Policy!Next
<1>1. ASSUME list' = list PROVE Policy!Next
  BY <1>1, SameList, RewrittenReleases DEF Inv, Policy!Next
<1>2. ASSUME NEW c \in Clients, NEW p \in PageNums, pinPage(c, p)
      PROVE  Policy!Next
  <2>1. CASE list' = list
    BY <1>1, <2>1
  <2>2. CASE list' # list
    <3>1. ~Break
      BY <2>2 DEF Break, listVars
    <3>2. (LRUHit(c, p) /\ pool' # "broken") \/ LRUAdd(c, p) \/ LRUReplace(c, p)
      BY <1>2, <3>1 DEF pinPage, LRUHit, LRUCrash
    <3> QED
      BY <1>2, <3>2, HitTouches, AddLoads, ReplaceReplaces DEF pinPage, Policy!Next
  <2> QED
    BY <2>1, <2>2
<1>3. ASSUME NEW c \in Clients, NEW d \in Data, writeData(c, d)
      PROVE  Policy!Release
  BY <1>3, WriteDataChanges, RewrittenReleases DEF Changes, Inv
<1>4. ASSUME NEW c \in Clients, markDirty(c)
      PROVE  Policy!Release
  BY <1>4, MarkDirtyChanges, RewrittenReleases DEF Changes, Inv
<1>5. ASSUME NEW c \in Clients, unpinPage(c)
      PROVE  Policy!Release
  BY <1>5, UnpinChanges, RewrittenReleases DEF Changes, Inv
<1>6. ASSUME Flush PROVE Policy!Release
  BY <1>6, FlushRewrites, RewrittenReleases DEF Inv
<1>7. ASSUME Closes PROVE Policy!Clear
  <2>1. Queue' = <<>> /\ Kept' = {}
    BY <1>7 DEF Closes, Queue, Kept, Places
  <2> QED
    BY <2>1 DEF Policy!Clear, Queue, Kept
<1>8. CASE forceFlushPool \/ shutdownBufferPool
  BY <1>6, <1>7, <1>8, ShutdownSteps DEF forceFlushPool, Policy!Next
<1>9. CASE \/ createPageFile \/ initBufferPool \/ (\E p \in PageNums : forcePage(p))
           \/ UNCHANGED vars
  BY <1>1, <1>9 DEF createPageFile, initBufferPool, forcePage, vars, listVars
<1> QED
  BY <1>2, <1>3, <1>4, <1>5, <1>8, <1>9 DEF Next, Policy!Next

(* For any clients, careful or not, the page that leaves is the one asked for the longest
   ago of those whose fix count is 0, and every pin brings its page to the start. *)
THEOREM LeastRecentlyUsed ==
  ASSUME IsFiniteSet(Clients)
  PROVE  Spec => EvictsLeastRecent
<1>1. Init => Inv
  BY InitInv
<1>2. Init => Policy!Init
  BY DEF Init, Policy!Init, Places, Unfixed
<1>3. Inv /\ [Next]_vars => Inv'
  BY InvStep
<1>4. Inv /\ Inv' /\ [Next]_vars => [Policy!Next]_(Policy!vars)
  BY PolicyStep
<1> QED
  BY <1>1, <1>2, <1>3, <1>4, PTL DEF Spec, EvictsLeastRecent, Policy!Spec
=============================================================================

--------------------------- MODULE BufferPoolFIFO ---------------------------
(***************************************************************************)
(* The buffer manager of assign2_buffer_manager under RS_FIFO, with the    *)
(* page file it reads and writes through the storage manager below it and  *)
(* the clients that hold its page handles above it.                        *)
(*                                                                         *)
(* The nodes of stPageLinkedList appear as frames: FIFO never changes the  *)
(* pair (iFrameNum, c_ptrFrameData) of a place in the pool, a replacement  *)
(* frees the victim's node and appends a new one with the same pair.  The  *)
(* list from start to end is the sequence "order" of frame numbers.        *)
(***************************************************************************)
EXTENDS Integers, FiniteSets

CONSTANTS
    Clients,      \* the page handles (BM_PageHandle) the clients own
    PageNums,     \* the page numbers they pass to pinPage
    Data,         \* what PAGE_SIZE bytes can be, as far as anybody can tell
    Blank,        \* the member of Data that is all zeros
    NumFrames,    \* the numPages argument of initBufferPool
    StrayUnpins   \* whether a client may unpin a page it does not hold

NO_PAGE == -1
NULL == -1

ASSUME FramesAssumption == NumFrames \in Nat \ {0}
ASSUME PagesAssumption == PageNums \subseteq Int
ASSUME DataAssumption == Blank \in Data
ASSUME StrayAssumption == StrayUnpins \in BOOLEAN

Frames == 0 .. NumFrames - 1
Places == 1 .. NumFrames
FilePages == PageNums \cap Nat

VARIABLES
    pool,      \* "closed", "open", or "crashed": memory already freed was used
    order,     \* the frames from start to end of the list
    pageNum,   \* pageNum of each frame's node, NO_PAGE when empty
    fixCount,  \* iFixCount
    dirty,     \* iDirtyPage = 1
    content,   \* the bytes of c_ptrFrameData
    filled,    \* iFrameFilled
    present,   \* whether the page file exists
    disk,      \* its pages
    total,     \* its size in pages, which is fHandle->totalNumPages too
    handle,    \* each client's page handle, while it is pinned
    stored     \* history: the pages somebody stored bytes in

poolVars == <<order, pageNum, fixCount, dirty, content, filled>>
fileVars == <<present, disk, total>>
vars == <<pool, poolVars, fileVars, handle, stored>>

NoHandle == [pageNum |-> NO_PAGE, data |-> NULL, unmarked |-> FALSE]
Pinned(c) == handle[c].data # NULL

-----------------------------------------------------------------------------
(* The storage manager, as the pool calls it.                              *)

(* readBlock: past the end, at the end and before the file nothing is read,
   and the pool looks at no return code: the buffer keeps the bytes it had. *)
readBlockSkipsTheLast(d, n, p, buffer) == IF p \in 0 .. n - 2 THEN d[p] ELSE buffer
readBlock(d, n, p, buffer) == IF p \in 0 .. n - 1 THEN d[p] ELSE buffer

(* writeBlock of all frames of S: a page past the end extends the file (the
   bytes between are zeros already), a negative page number cannot be sought. *)
writeBlocksWithinTheFile(S) ==
    [p \in FilePages |->
        IF p < total /\ \E f \in S : pageNum[f] = p
        THEN content[CHOOSE f \in S : pageNum[f] = p]
        ELSE disk[p]]

writeBlocks(S) ==
    [p \in FilePages |->
        IF \E f \in S : pageNum[f] = p
        THEN content[CHOOSE f \in S : pageNum[f] = p]
        ELSE disk[p]]

SizesAfterOffByOne(S) == {total} \cup {pageNum[f] : f \in {g \in S : pageNum[g] >= 0}}
SizesAfter(S) == {total} \cup {pageNum[f] + 1 : f \in {g \in S : pageNum[g] >= 0}}
IsSizeAfter(n, S) == n \in SizesAfter(S) /\ \A m \in SizesAfter(S) : m <= n

-----------------------------------------------------------------------------
(* The loops over the list. *)

Holding(p) == {f \in Frames : pageNum[f] = p}
UnfixedOrFixedOnce == {f \in Frames : fixCount[f] <= 1}
Unfixed == {f \in Frames : fixCount[f] = 0}
ToFlush == {f \in Unfixed : dirty[f]}

LastIn(k, S) == order[k] \in S /\ \A j \in k + 1 .. NumFrames : order[j] \notin S

(* k is the first place from start whose frame is in S. *)
FirstIn(k, S) == order[k] \in S /\ \A j \in 1 .. k - 1 : order[j] \notin S

StayInPlace(k) == order

MoveToEndLosesTheTail(k) ==
    [i \in 1 .. NumFrames - 1 |-> IF i < k THEN order[i] ELSE order[i + 1]]

(* Unlink the node at place k and append one for the same frame at the end. *)
MoveToEnd(k) ==
    [i \in Places |-> IF i < k THEN order[i]
                      ELSE IF i < NumFrames THEN order[i + 1]
                      ELSE order[k]]

-----------------------------------------------------------------------------
Init ==
    /\ pool = "closed"
    /\ order = [k \in Places |-> k - 1]
    /\ pageNum = [f \in Frames |-> NO_PAGE]
    /\ fixCount = [f \in Frames |-> 0]
    /\ dirty = [f \in Frames |-> FALSE]
    /\ content = [f \in Frames |-> Blank]
    /\ filled = 0
    /\ present = FALSE
    /\ disk = [p \in FilePages |-> Blank]
    /\ total = 0
    /\ handle = [c \in Clients |-> NoHandle]
    /\ stored = {}

(* The list as initBufferPool builds it; what is freed counts as empty too. *)
EmptyTheList ==
    /\ order' = [k \in Places |-> k - 1]
    /\ pageNum' = [f \in Frames |-> NO_PAGE]
    /\ fixCount' = [f \in Frames |-> 0]
    /\ dirty' = [f \in Frames |-> FALSE]
    /\ content' = [f \in Frames |-> Blank]
    /\ filled' = 0

(* createPageFile and destroyPageFile, which clients call around the life of a
   pool.  A file that exists is truncated; a new one has one page of zeros. *)
createPageFile ==
    /\ pool = "closed"
    /\ present' = TRUE
    /\ disk' = [p \in FilePages |-> Blank]
    /\ total' = 1
    /\ stored' = FilePages \cap {0}
    /\ UNCHANGED <<pool, poolVars, handle>>

destroyPageFile ==
    /\ pool = "closed"
    /\ present
    /\ present' = FALSE
    /\ disk' = [p \in FilePages |-> Blank]
    /\ total' = 0
    /\ stored' = {}
    /\ UNCHANGED <<pool, poolVars, handle>>

(* initBufferPool: when the file cannot be opened it calls ClearMemory, which
   frees the first node once per frame. *)
initBufferPool ==
    /\ pool = "closed"
    /\ pool' = IF present THEN "open" ELSE "crashed"
    /\ EmptyTheList
    /\ UNCHANGED <<fileVars, handle, stored>>

SetHandle(c, p, f) ==
    handle' = [handle EXCEPT ![c] = [pageNum |-> p, data |-> f, unmarked |-> FALSE]]

PinHitUncounted(c, p) ==
    \E k \in Places :
        /\ FirstIn(k, Holding(p))
        /\ SetHandle(c, p, order[k])
        /\ UNCHANGED <<pool, poolVars, fileVars, stored>>

(* FIFOpin, the page is in the pool. *)
PinHit(c, p) ==
    \E k \in Places :
        /\ FirstIn(k, Holding(p))
        /\ fixCount' = [fixCount EXCEPT ![order[k]] = @ + 1]
        /\ SetHandle(c, p, order[k])
        /\ UNCHANGED <<pool, order, pageNum, dirty, content, filled, fileVars, stored>>

(* FIFOpin, the page goes to the first empty frame. *)
PinEmpty(c, p) ==
    /\ Holding(p) = {}
    /\ filled < NumFrames
    /\ \E k \in Places :
        LET f == order[k] IN
        /\ FirstIn(k, Holding(NO_PAGE))
        /\ fixCount' = [fixCount EXCEPT ![f] = 1]
        /\ dirty' = [dirty EXCEPT ![f] = FALSE]
        /\ pageNum' = [pageNum EXCEPT ![f] = p]
        /\ content' = [content EXCEPT ![f] = readBlock(disk, total, p, @)]
        /\ SetHandle(c, p, f)
    /\ filled' = filled + 1
    /\ UNCHANGED <<pool, order, fileVars, stored>>

(* FIFOpin, the page replaces the first unfixed frame, written back if dirty. *)
PinReplace(c, p) ==
    /\ Holding(p) = {}
    /\ filled = NumFrames
    /\ NumFrames > 1
    /\ \E k \in Places :
        LET f == order[k]
            written == {f} \cap ToFlush
        IN
        /\ FirstIn(k, Unfixed)
        /\ disk' = writeBlocks(written)
        /\ IsSizeAfter(total', written)
        /\ order' = MoveToEnd(k)
        /\ fixCount' = [fixCount EXCEPT ![f] = 1]
        /\ dirty' = [dirty EXCEPT ![f] = FALSE]
        /\ pageNum' = [pageNum EXCEPT ![f] = p]
        /\ content' = [content EXCEPT ![f] = readBlock(disk', total', p, @)]
        /\ SetHandle(c, p, f)
    /\ UNCHANGED <<pool, filled, present, stored>>

(* No unfixed frame: RC_NO_FREESPACE_ERROR, on which pinPage calls ClearMemory,
   which frees the first node once per frame.  With one frame, start->next is
   the bytes behind an array, and FIFOpin writes through it. *)
PinCrash(c, p) ==
    /\ Holding(p) = {}
    /\ filled = NumFrames
    /\ Unfixed = {} \/ NumFrames = 1
    /\ pool' = "crashed"
    /\ UNCHANGED <<poolVars, fileVars, handle, stored>>

pinPage(c, p) ==
    /\ pool = "open"
    /\ ~Pinned(c)
    /\ PinHit(c, p) \/ PinEmpty(c, p) \/ PinReplace(c, p) \/ PinCrash(c, p)

(* The client stores bytes through its handle's data pointer. *)
writeData(c, d) ==
    /\ pool = "open"
    /\ Pinned(c)
    /\ content' = [content EXCEPT ![handle[c].data] = d]
    /\ handle' = [handle EXCEPT ![c].unmarked = TRUE]
    /\ stored' = stored \cup {handle[c].pageNum}
    /\ UNCHANGED <<pool, order, pageNum, fixCount, dirty, filled, fileVars>>

markDirty(c) ==
    /\ pool = "open"
    /\ Pinned(c)
    /\ \E k \in Places :
        /\ FirstIn(k, Holding(handle[c].pageNum))
        /\ dirty' = [dirty EXCEPT ![order[k]] = TRUE]
    /\ handle' = [handle EXCEPT ![c].unmarked = FALSE]
    /\ UNCHANGED <<pool, order, pageNum, fixCount, content, filled, fileVars, stored>>

(* A client marks what it stored before it lets go of the page. *)
unpinPage(c) ==
    /\ pool = "open"
    /\ Pinned(c)
    /\ ~handle[c].unmarked
    /\ \E k \in Places :
        /\ FirstIn(k, Holding(handle[c].pageNum))
        /\ fixCount' = [fixCount EXCEPT ![order[k]] = @ - 1]
    /\ handle' = [handle EXCEPT ![c] = NoHandle]
    /\ UNCHANGED <<pool, order, pageNum, dirty, content, filled, fileVars, stored>>

(* unpinPage by a client that does not hold the page: a page that is not in the
   pool runs into ClearMemory, one that is loses a count that is not the caller's,
   below zero too and any number of times. *)
unpinStray(p) ==
    /\ StrayUnpins
    /\ pool = "open"
    /\ \/ /\ Holding(p) = {}
          /\ pool' = "crashed"
          /\ UNCHANGED fixCount
       \/ \E k \in Places :
            /\ FirstIn(k, Holding(p))
            /\ fixCount' = [fixCount EXCEPT ![order[k]] = @ - 1]
            /\ UNCHANGED pool
    /\ UNCHANGED <<order, pageNum, dirty, content, filled, fileVars, handle, stored>>

(* forcePage writes the page and leaves it dirty; of an absent page nothing.
   When the write fails it calls ClearMemory. *)
forcePage(p) ==
    /\ pool = "open"
    /\ \E k \in Places :
        /\ FirstIn(k, Holding(p))
        /\ \/ /\ p >= 0
              /\ disk' = writeBlocks({order[k]})
              /\ IsSizeAfter(total', {order[k]})
              /\ UNCHANGED pool
           \/ /\ p < 0
              /\ pool' = "crashed"
              /\ UNCHANGED <<disk, total>>
    /\ UNCHANGED <<poolVars, present, handle, stored>>

WriteToFlush ==
    /\ disk' = writeBlocks(ToFlush)
    /\ IsSizeAfter(total', ToFlush)
    /\ UNCHANGED present

Flush ==
    /\ WriteToFlush
    /\ dirty' = [f \in Frames |-> dirty[f] /\ f \notin ToFlush]

forceFlushPool ==
    /\ pool = "open"
    /\ Flush
    /\ UNCHANGED <<pool, order, pageNum, fixCount, content, filled, handle, stored>>

(* shutdownBufferPool looks for a fixed frame among the first iFrameFilled of
   the list, and returns RC_OK with the pool as it is when it finds one. *)
shutdownBufferPool ==
    /\ pool = "open"
    /\ IF \E k \in 1 .. filled : fixCount[order[k]] # 0
       THEN Flush /\ UNCHANGED <<pool, order, pageNum, fixCount, content, filled>>
       ELSE WriteToFlush /\ pool' = "closed" /\ EmptyTheList
    /\ UNCHANGED <<handle, stored>>

Next ==
    \/ createPageFile
    \/ destroyPageFile
    \/ initBufferPool
    \/ \E c \in Clients, p \in PageNums : pinPage(c, p)
    \/ \E c \in Clients, d \in Data : writeData(c, d)
    \/ \E c \in Clients : markDirty(c)
    \/ \E c \in Clients : unpinPage(c)
    \/ \E p \in PageNums : unpinStray(p)
    \/ \E p \in PageNums : forcePage(p)
    \/ forceFlushPool
    \/ shutdownBufferPool

Spec == Init /\ [][Next]_vars

-----------------------------------------------------------------------------
TypeOK ==
    /\ pool \in {"closed", "open", "crashed"}
    /\ order \in [Places -> Frames]
    /\ pageNum \in [Frames -> PageNums \cup {NO_PAGE}]
    /\ fixCount \in [Frames -> Int]
    /\ dirty \in [Frames -> BOOLEAN]
    /\ content \in [Frames -> Data]
    /\ filled \in 0 .. NumFrames
    /\ present \in BOOLEAN
    /\ disk \in [FilePages -> Data]
    /\ total \in Nat
    /\ handle \in [Clients -> [pageNum : PageNums \cup {NO_PAGE},
                               data : Frames \cup {NULL},
                               unmarked : BOOLEAN]]
    /\ stored \in SUBSET PageNums

(* A frame's fix count is the number of clients that hold it: no pin is lost
   and none leaks, whatever the order of hits, replacements and unpins. *)
Holders(f) == {c \in Clients : handle[c].data = f}

PinAccounting == \A f \in Frames : fixCount[f] = Cardinality(Holders(f))

(* The data pointer of a pinned handle still points into the frame that holds
   the handle's page: nobody evicted the page or moved another one under it. *)
HandlesValid ==
    \A c \in Clients : Pinned(c) => pageNum[handle[c].data] = handle[c].pageNum

(* iFrameFilled counts the occupied frames and these come first in the list, so
   the search for an empty frame ends, and the search of shutdownBufferPool for
   a fixed one, which looks at the first iFrameFilled nodes, misses none. *)
FilledFirst ==
    \A k \in Places : (k <= filled) <=> (pageNum[order[k]] # NO_PAGE)

(* A page somebody stored is either safe in the file, or in a frame that will be
   written: dirty, or held by the client that has yet to mark it. *)
OwesWrite(f) ==
    dirty[f] \/ \E c \in Holders(f) : handle[c].unmarked

NothingLost ==
    \A p \in stored :
        \/ \E f \in Holding(p) : OwesWrite(f)
        \/ p < total /\ \A f \in Holding(p) : content[f] = disk[p]

(* The rest of the inductive invariant: the list visits every frame once, no two
   frames hold the same page, a handle is pinned to a page of the pool or is
   cleared, and a closed pool has no pages and nobody holds a handle into it. *)
ListComplete ==
    /\ \A f \in Frames : \E k \in Places : order[k] = f
    /\ \A i, j \in Places : order[i] = order[j] => i = j

OneFramePerPage ==
    \A f, g \in Frames : pageNum[f] = pageNum[g] /\ pageNum[f] # NO_PAGE => f = g

HandlesShaped ==
    \A c \in Clients :
        IF Pinned(c) THEN pool # "closed" /\ handle[c].pageNum \in PageNums
        ELSE handle[c] = NoHandle

ClosedIsEmpty == pool = "closed" => \A f \in Frames : pageNum[f] = NO_PAGE

(* What the proofs ask of the clients: page numbers that are not negative, and
   no unpin of a page one does not hold. *)
CarefulClients == PageNums \subseteq Nat /\ StrayUnpins = FALSE /\ IsFiniteSet(Clients)

(* The pool is consistent: list, pages, handles, counts and bytes agree. *)
Inv ==
    /\ TypeOK
    /\ ListComplete
    /\ OneFramePerPage
    /\ HandlesShaped
    /\ HandlesValid
    /\ PinAccounting
    /\ ClosedIsEmpty
    /\ FilledFirst
    /\ NothingLost

-----------------------------------------------------------------------------
(* The pool implements a store of pages. *)
Unstored == "unstored"

Contents(p) ==
    IF p \notin stored THEN Unstored
    ELSE IF Holding(p) # {}
         THEN content[CHOOSE f \in Holding(p) : TRUE]
         ELSE disk[p]

Store == INSTANCE PageStore WITH
    NoPage <- NO_PAGE,
    Capacity <- NumFrames,
    Enough <- NumFrames,
    Unstored <- Unstored,
    up <- pool # "crashed",
    exists <- present,
    mem <- [p \in PageNums |-> Contents(p)],
    held <- [c \in Clients |-> handle[c].pageNum],
    view <- [c \in Clients |-> IF Pinned(c) THEN content[handle[c].data] ELSE Unstored]

(* Clients that read and write through the pool see a store of pages: what one
   stored is what everybody reads, through eviction, flush, shutdown and reopen,
   and the pool fails only when as many pages are held as it has frames. *)
ImplementsPageStore == Store!Spec

(* The pages of the list from start to end, and the ones with a fix count. *)
Policy == INSTANCE FIFOPolicy WITH
    Pages <- PageNums,
    Capacity <- NumFrames,
    queue <- [k \in 1 .. filled |-> pageNum[order[k]]],
    kept <- {pageNum[f] : f \in Frames \ Unfixed}

(* The page that leaves is the first that came of those whose fix count is 0. *)
EvictsFirstIn == Policy!Spec

-----------------------------------------------------------------------------
(* test_assign2_2.c: pinning one page too many is an error, and the pool can
   still be shut down. *)
FullPoolSurvives ==
    [][\A c \in Clients, p \in PageNums : pinPage(c, p) => pool' = "open"]_vars
=============================================================================

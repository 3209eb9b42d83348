--------------------------- MODULE BufferPoolLRU ----------------------------
(***************************************************************************)
(* The buffer manager of assign2_buffer_manager under RS_LRU, with its     *)
(* page file and its clients.  A page that is pinned gets a new node at    *)
(* the start of stPageLinkedList, or its node is moved there; the nodes    *)
(* that initBufferPool made stay behind them, empty.                       *)
(*                                                                         *)
(* "list" is the sequence of the nodes that hold pages, from start.  The   *)
(* model ends with "broken" where the pointers no longer form a list, or   *)
(* one that is NULL is followed.                                           *)
(***************************************************************************)
EXTENDS Integers, Sequences, FiniteSets, SequencesExt

CONSTANTS
    Clients,      \* the page handles (BM_PageHandle) the clients own
    PageNums,     \* the page numbers they pass to pinPage
    Data,         \* what PAGE_SIZE bytes can be, as far as anybody can tell
    Blank,        \* the member of Data that is all zeros
    NumFrames     \* the numPages argument of initBufferPool

NO_PAGE == -1

ASSUME FramesAssumption == NumFrames \in Nat \ {0}
ASSUME PagesAssumption == PageNums \subseteq Nat
ASSUME DataAssumption == Blank \in Data

VARIABLES
    pool,      \* "closed", "open" or "broken"
    list,      \* pageNum, iFrameNum, iFixCount, iDirtyPage and bytes of each node
    evicted,   \* whether "end" is the last of the nodes with pages
    cut,       \* whether its ptrNextPageInfo is NULL
    present,   \* whether the page file exists
    disk,      \* its pages
    total,     \* its size in pages
    handle,    \* the page each client holds, or NO_PAGE
    unmarked,  \* the clients that have yet to mark what they stored
    stored,    \* history: the pages somebody stored bytes in
    careful    \* history: whether clients asked again only for pages inside the list

listVars == <<list, evicted, cut>>
fileVars == <<present, disk, total>>
clientVars == <<handle, unmarked, stored, careful>>
vars == <<pool, listVars, fileVars, clientVars>>

(* The loops over the list stop at the first node with the page. *)
Places == DOMAIN list
Holding(p) == {i \in Places : list[i].pageNum = p}
Unfixed == {i \in Places : list[i].fixCount = 0}
Full == Len(list) = NumFrames

-----------------------------------------------------------------------------
Init ==
    /\ pool = "closed"
    /\ list = <<>> /\ evicted = FALSE /\ cut = FALSE
    /\ present = FALSE
    /\ disk = [p \in PageNums |-> Blank]
    /\ total = 0
    /\ handle = [c \in Clients |-> NO_PAGE]
    /\ unmarked = {}
    /\ stored = {}
    /\ careful = TRUE

createPageFile ==
    /\ pool = "closed"
    /\ present' = TRUE
    /\ disk' = [p \in PageNums |-> Blank]
    /\ total' = 1
    /\ stored' = PageNums \cap {0}
    /\ UNCHANGED <<pool, listVars, handle, unmarked, careful>>

initBufferPool ==
    /\ pool = "closed"
    /\ present
    /\ pool' = "open"
    /\ UNCHANGED <<listVars, fileVars, clientVars>>

Break ==
    /\ pool' = "broken"
    /\ UNCHANGED <<listVars, fileVars, handle, unmarked, stored>>

SetHandle(c, p) ==
    /\ handle' = [handle EXCEPT ![c] = p]
    /\ UNCHANGED <<unmarked, stored>>

-----------------------------------------------------------------------------
(* LRUpin, the page is in the list. *)

StaysWhereItIs(i) == list
InBothPlaces(i) == <<list[i]>> \o list
ToTheFront(i) == <<list[i]>> \o RemoveAt(list, i)

AtTheEnd(i) == evicted /\ i = Len(list)

(* The first node becomes its own next and previous one.  The node that "end"
   points to loses its next one when it moves, so that the new end has none; a
   node without a next one is taken out and put nowhere. *)
LRUHit(c, p) ==
    \E i \in Holding(p) :
        /\ careful' = (careful /\ i > 1 /\ ~AtTheEnd(i))
        /\ \/ /\ i = 1 \/ (AtTheEnd(i) /\ cut)
              /\ Break
           \/ /\ i > 1 /\ ~(AtTheEnd(i) /\ cut)
              /\ list' = [ToTheFront(i) EXCEPT ![1].fixCount = @ + 1]
              /\ cut' = (cut \/ AtTheEnd(i))
              /\ SetHandle(c, p)
              /\ UNCHANGED <<pool, evicted, fileVars>>

(* addPageFrameLList: the bytes are the file's, or past its end what malloc left. *)
readBlock(d, n, p) == IF p < n THEN {d[p]} ELSE Data

NewNode(p, frame, bytes) ==
    [pageNum |-> p, frameNum |-> frame, fixCount |-> 1, dirty |-> FALSE, content |-> bytes]

LRUAdd(c, p) ==
    /\ Holding(p) = {}
    /\ ~Full
    /\ \E bytes \in readBlock(disk, total, p) :
          list' = <<NewNode(p, IF list = <<>> THEN 0 ELSE list[1].frameNum + 1, bytes)>> \o list
    /\ SetHandle(c, p)
    /\ UNCHANGED <<pool, evicted, cut, fileVars, careful>>

(* removePageFrameLList looks from the last node to the first. *)
LastUnfixed(i) == i \in Unfixed /\ \A j \in Unfixed : j <= i

(* It hands on the number of the page that left as the number of its frame; 0
   when the only node behind is the end, or when none is and iNum, which is not
   initialised, happens to be the page of the new end. *)
FrameHandedOn(i) ==
    IF i = Len(list) - 1 THEN {0}
    ELSE IF i = Len(list) THEN {0, list[i].pageNum}
    ELSE {list[i].pageNum}

NeverWritten(i) == {}
ToWrite(i) == {i} \cap {j \in Places : list[j].dirty}

writeBlocks(S) ==
    [p \in PageNums |-> IF \E i \in S : list[i].pageNum = p
                        THEN list[CHOOSE i \in S : list[i].pageNum = p].content
                        ELSE disk[p]]

IsSizeAfter(n, S) ==
    LET sizes == {total} \cup {list[i].pageNum + 1 : i \in S}
    IN  n \in sizes /\ \A m \in sizes : m <= n

LRUReplace(c, p) ==
    /\ Holding(p) = {}
    /\ Full
    /\ \E i \in Places :
        /\ LastUnfixed(i)
        /\ i > 1
        /\ ~(i = Len(list) /\ cut)
        /\ disk' = writeBlocks(ToWrite(i))
        /\ IsSizeAfter(total', ToWrite(i))
        /\ \E frame \in FrameHandedOn(i), bytes \in readBlock(disk', total', p) :
              list' = <<NewNode(p, frame, bytes)>> \o RemoveAt(list, i)
    /\ evicted' = TRUE
    /\ SetHandle(c, p)
    /\ UNCHANGED <<pool, cut, present, careful>>

(* It follows a NULL pointer when it comes to the first node or beyond, and when
   the node that leaves has no next one. *)
LRUCrash(p) ==
    /\ Holding(p) = {}
    /\ Full
    /\ \A i \in Places : LastUnfixed(i) => i = 1 \/ (i = Len(list) /\ cut)
    /\ Break
    /\ UNCHANGED careful

pinPage(c, p) ==
    /\ pool = "open"
    /\ handle[c] = NO_PAGE
    /\ LRUHit(c, p) \/ LRUAdd(c, p) \/ LRUReplace(c, p) \/ LRUCrash(p)

-----------------------------------------------------------------------------
Holds(c) == pool = "open" /\ Holding(handle[c]) # {}
First(S) == CHOOSE i \in S : \A j \in S : i <= j

(* The client stores bytes through the data pointer of its handle. *)
writeData(c, d) ==
    /\ Holds(c)
    /\ list' = [list EXCEPT ![First(Holding(handle[c]))].content = d]
    /\ unmarked' = unmarked \cup {c}
    /\ stored' = stored \cup {handle[c]}
    /\ UNCHANGED <<pool, evicted, cut, fileVars, handle, careful>>

markDirty(c) ==
    /\ Holds(c)
    /\ list' = [list EXCEPT ![First(Holding(handle[c]))].dirty = TRUE]
    /\ unmarked' = unmarked \ {c}
    /\ UNCHANGED <<pool, evicted, cut, fileVars, handle, stored, careful>>

unpinPage(c) ==
    /\ Holds(c)
    /\ c \notin unmarked
    /\ list' = [list EXCEPT ![First(Holding(handle[c]))].fixCount = @ - 1]
    /\ handle' = [handle EXCEPT ![c] = NO_PAGE]
    /\ UNCHANGED <<pool, evicted, cut, fileVars, unmarked, stored, careful>>

forcePage(p) ==
    /\ pool = "open"
    /\ \E i \in Holding(p) : disk' = writeBlocks({i}) /\ IsSizeAfter(total', {i})
    /\ UNCHANGED <<pool, listVars, present, clientVars>>

ToFlush == {i \in Unfixed : list[i].dirty}

WriteToFlush ==
    /\ disk' = writeBlocks(ToFlush)
    /\ IsSizeAfter(total', ToFlush)
    /\ UNCHANGED present

Flush ==
    /\ WriteToFlush
    /\ list' = [i \in Places |-> [list[i] EXCEPT !.dirty = @ /\ i \notin ToFlush]]

forceFlushPool ==
    /\ pool = "open"
    /\ Flush
    /\ UNCHANGED <<pool, evicted, cut, clientVars>>

(* It returns RC_OK and leaves the pool as it is when a page is fixed. *)
shutdownBufferPool ==
    /\ pool = "open"
    /\ IF Unfixed # Places
       THEN Flush /\ UNCHANGED <<pool, evicted, cut>>
       ELSE /\ WriteToFlush
            /\ pool' = "closed"
            /\ list' = <<>> /\ evicted' = FALSE /\ cut' = FALSE
    /\ UNCHANGED clientVars

Next ==
    \/ createPageFile
    \/ initBufferPool
    \/ \E c \in Clients, p \in PageNums : pinPage(c, p)
    \/ \E c \in Clients, d \in Data : writeData(c, d)
    \/ \E c \in Clients : markDirty(c)
    \/ \E c \in Clients : unpinPage(c)
    \/ \E p \in PageNums : forcePage(p)
    \/ forceFlushPool
    \/ shutdownBufferPool

Spec == Init /\ [][Next]_vars

-----------------------------------------------------------------------------
TypeOK ==
    /\ pool \in {"closed", "open", "broken"}
    /\ list \in Seq([pageNum : PageNums, frameNum : Nat, fixCount : Nat,
                     dirty : BOOLEAN, content : Data])
    /\ Len(list) <= NumFrames
    /\ evicted \in BOOLEAN /\ cut \in BOOLEAN
    /\ present \in BOOLEAN
    /\ disk \in [PageNums -> Data]
    /\ total \in Nat
    /\ handle \in [Clients -> PageNums \cup {NO_PAGE}]
    /\ unmarked \subseteq Clients
    /\ stored \subseteq PageNums
    /\ careful \in BOOLEAN

(* What is kept of a page, and what its holders read. *)
Unstored == "unstored"

Contents(p) ==
    IF p \notin stored THEN Unstored
    ELSE IF Holding(p) # {} THEN list[First(Holding(p))].content
    ELSE disk[p]

Bytes(p) == IF Holding(p) # {} THEN list[First(Holding(p))].content ELSE Unstored

Store == INSTANCE PageStore WITH
    NoPage <- NO_PAGE,
    Capacity <- NumFrames,
    Enough <- NumFrames - 1,
    Unstored <- Unstored,
    up <- pool # "broken",
    exists <- present,
    mem <- [p \in PageNums |-> Contents(p)],
    held <- handle,
    view <- [c \in Clients |-> Bytes(handle[c])]

(* As long as clients were careful the pool is a store of pages that may fail when all
   frames but one are held: no byte that was stored is lost and no page that is
   held leaves, through moves, replacements, flushes and reopening. *)
ImplementsPageStore == Store!Init /\ [][careful' => [Store!Next]_Store!vars]_vars

Policy == INSTANCE LRUPolicy WITH
    Pages <- PageNums,
    Capacity <- NumFrames,
    queue <- [i \in Places |-> list[i].pageNum],
    kept <- {list[i].pageNum : i \in Places \ Unfixed}

(* For any clients, until the list breaks: the page that leaves is the one asked
   for the longest ago of those whose fix count is 0. *)
EvictsLeastRecent == Policy!Spec

=============================================================================

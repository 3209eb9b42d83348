------------------------------ MODULE FramePool ------------------------------
(***************************************************************************)
(* Clients of the buffer pool of assign3_record_manager, each with a page  *)
(* handle.  A client pins a page, stores bytes through its handle, marks   *)
(* and forces the page, and unpins it.                                     *)
(***************************************************************************)
EXTENDS FrameArray

CONSTANTS
    Clients,      \* the page handles
    PageNums,     \* the pages the clients ask for
    Data,         \* what a page can hold
    Strategies,   \* the strategies they open pools with
    Unsaved,      \* stands for bytes that nobody forced to the file
    MaxUnpins     \* bound: how far below 0 a fix count may go

ASSUME PagesAssumption == PageNums \subseteq Nat
ASSUME DataAssumption == Blank \in Data /\ Unsaved \notin Data
ASSUME StrategiesAssumption == Strategies \subseteq {"RS_FIFO", "RS_LRU"}

VARIABLES
    pool,         \* "closed", "open", or "hung": shutdownBufferPool does not end
    bp,           \* the frames, the buffers and the file
    handle,       \* each client's page handle, while it is pinned
    saved,        \* history: the bytes of each page forced last, if none came after
    shared        \* history: whether two clients ever held a page at the same time

vars == <<pool, bp, handle, saved, shared>>

NoHandle == [pageNum |-> NO_PAGE, data |-> NULL]
Holds(c) == handle[c].data # NULL
NoneHeld == \A c \in Clients : ~Holds(c)
HeldBuffers == {handle[c].data : c \in Clients}

Init ==
    /\ pool = "closed"
    /\ bp = EmptyPool("RS_FIFO", NoFile)
    /\ handle = [c \in Clients |-> NoHandle]
    /\ saved = [p \in PageNums |-> Unsaved]
    /\ shared = FALSE

createPageFile ==
    /\ pool = "closed"
    /\ bp' = [bp EXCEPT !.file = NewFile]
    /\ saved' = [p \in PageNums |-> Unsaved]
    /\ UNCHANGED <<pool, handle, shared>>

(* A pool that could not be shut down is left behind, and another one opened on
   the same file. *)
initBufferPool(strategy) ==
    /\ pool # "hung"
    /\ NoneHeld
    /\ bp.file.present
    /\ pool' = "open"
    /\ bp' = EmptyPool(strategy, bp.file)
    /\ UNCHANGED <<handle, saved, shared>>

pinPageOfTheNext(c, p) ==
    /\ pool = "open"
    /\ ~Holds(c)
    /\ \A f \in FramesOf(bp, p) : bp.fix[f] > -MaxUnpins
    /\ LET b == NewBuffer(bp, HeldBuffers) IN
        /\ \E junk \in Data : bp' = Pin(bp, p, b, junk)
        /\ handle' = [handle EXCEPT ![c] = [pageNum |-> p + 1, data |-> PinData(bp, p, b)]]
    /\ shared' = (shared \/ ~NoneHeld)
    /\ UNCHANGED <<pool, saved>>

pinPage(c, p) ==
    /\ pool = "open"
    /\ ~Holds(c)
    /\ \A f \in FramesOf(bp, p) : bp.fix[f] > -MaxUnpins
    /\ LET b == NewBuffer(bp, HeldBuffers) IN
        /\ \E junk \in Data : bp' = Pin(bp, p, b, junk)
        /\ handle' = [handle EXCEPT ![c] = [pageNum |-> p, data |-> PinData(bp, p, b)]]
    /\ shared' = (shared \/ ~NoneHeld)
    /\ UNCHANGED <<pool, saved>>

writeData(c, d) ==
    /\ Holds(c)
    /\ bp' = [bp EXCEPT !.heap[handle[c].data] = d]
    /\ saved' = [saved EXCEPT ![handle[c].pageNum] = Unsaved]
    /\ UNCHANGED <<pool, handle, shared>>

markDirty(c) ==
    /\ Holds(c)
    /\ bp' = MarkDirty(bp)
    /\ UNCHANGED <<pool, handle, saved, shared>>

forcePage(c) ==
    /\ Holds(c)
    /\ bp' = ForcePage(bp, handle[c].pageNum)
    /\ saved' = [saved EXCEPT ![handle[c].pageNum] = bp.heap[handle[c].data]]
    /\ UNCHANGED <<pool, handle, shared>>

unpinPage(c) ==
    /\ Holds(c)
    /\ bp' = Unpin(bp, handle[c].pageNum)
    /\ handle' = [handle EXCEPT ![c] = NoHandle]
    /\ UNCHANGED <<pool, saved, shared>>

forceFlushPool ==
    /\ pool = "open"
    /\ bp' = ForceFlushPool(bp)
    /\ UNCHANGED <<pool, handle, saved, shared>>

shutdownBufferPool ==
    /\ pool = "open"
    /\ bp' = ForceFlushPool(bp)
    /\ pool' = IF ShutdownReturns(bp) THEN pool ELSE "hung"
    /\ UNCHANGED <<handle, saved, shared>>

Next ==
    /\ pool # "hung"
    /\ \/ createPageFile
       \/ \E strategy \in Strategies : initBufferPool(strategy)
       \/ \E c \in Clients, p \in PageNums : pinPage(c, p)
       \/ \E c \in Clients, d \in Data : writeData(c, d)
       \/ \E c \in Clients : markDirty(c) \/ forcePage(c) \/ unpinPage(c)
       \/ forceFlushPool
       \/ shutdownBufferPool

Spec == Init /\ [][Next]_vars

-----------------------------------------------------------------------------
Pool == [strategy : {"RS_FIFO", "RS_LRU"},
         page : [Frames -> PageNums \cup {NO_PAGE}],
         fix : [Frames -> Int],
         dirty : [Frames -> BOOLEAN],
         data : [Frames -> Buffers \cup {NULL}],
         heap : [Buffers -> Data],
         file : [present : BOOLEAN, pages : Seq(Data)]]

TypeOK ==
    /\ pool \in {"closed", "open", "hung"}
    /\ bp \in Pool
    /\ handle \in [Clients -> [pageNum : PageNums \cup {NO_PAGE},
                               data : Buffers \cup {NULL}]]
    /\ saved \in [PageNums -> Data \cup {Unsaved}]
    /\ shared \in BOOLEAN

(* A page may be in several frames, which FIFO fills together: they stay copies
   of one another because they share one buffer, and no two pages do.  Whichever
   of them is written, or delivered to the next client, the bytes are the same. *)
CopiesShareBytes ==
    \A f, g \in Frames :
        bp.page[f] # NO_PAGE /\ bp.page[g] # NO_PAGE =>
            (bp.page[f] = bp.page[g] <=> bp.data[f] = bp.data[g])

(* A client that is alone always gets a frame for its page, although under FIFO
   fix counts of copies drop below 0 and these frames are never replaced again. *)
AloneFindsAFrame ==
    ~shared => \A c \in Clients : Holds(c) =>
        \E f \in FramesOf(bp, handle[c].pageNum) : bp.data[f] = handle[c].data

(* What the next client that pins page p will see; junk if it was never written. *)
Delivered(p) ==
    IF FramesOf(bp, p) # {} THEN Bytes(bp, Min(FramesOf(bp, p)))
    ELSE IF HasPage(bp.file, p) THEN bp.file.pages[p + 1]
    ELSE Unsaved

(* As long as one client at a time holds a page, bytes forced to the file and not
   stored over are what anybody sees next: replacements that drop dirty frames,
   flushes that write the clean ones and pools left open do not lose them. *)
ForcedIsKept ==
    ~shared => \A p \in PageNums : saved[p] # Unsaved => Delivered(p) = saved[p]
=============================================================================

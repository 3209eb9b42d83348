---------------------------- MODULE StrategyPool ----------------------------
(***************************************************************************)
(* The buffer pool of assign4_b+tree_index: buffer_mgr.c, an array of      *)
(* frames under one of five strategies, and its clients.                   *)
(*                                                                         *)
(* openPageFile returns before it has set anything of the file handle but  *)
(* its name and position (storage_mgr.c:54), so every block that is read   *)
(* or written goes through a handle that holds what the stack held: the    *)
(* call fails, which nobody looks at, or it ends the program ("broken").   *)
(* No byte ever moves between a frame and the file, which is left out.     *)
(***************************************************************************)
EXTENDS Integers, FiniteSets, Sequences

CONSTANTS
    Clients,      \* the page handles
    PageNums,     \* the pages the clients ask for
    NumFrames,    \* the numPages argument of initBufferPool
    Strategies,   \* the strategies they open pools with
    Buffers,      \* bound: buffers of PAGE_SIZE bytes that somebody points to
    MaxHits       \* bound: pins since the first of a pool

NO_PAGE == -1
NULL == 0
Frames == 0 .. NumFrames - 1

ASSUME FramesAssumption == NumFrames \in Nat \ {0}
ASSUME PagesAssumption == PageNums \subseteq Nat
ASSUME BuffersAssumption == Buffers \subseteq Nat \ {NULL}
ASSUME HitsAssumption == MaxHits \in Nat
ASSUME StrategiesAssumption ==
    Strategies \subseteq {"RS_FIFO", "RS_LRU", "RS_CLOCK", "RS_LFU", "RS_LRU_K"}

VARIABLES
    pool,         \* "closed", "open", or "broken": memory is not the program's own
    strategy,
    frame,        \* mgmtData: the frames
    lastIndex,    \* the loads since the first of a pool
    hitCount,     \* the pins since the first of a pool
    clockPtr,     \* the hand of CLOCK, which every hit moves
    lfuPtr,       \* where LFU begins, which may be behind the last frame
    newPage,      \* the page that CLOCK is looking for a place for, or NoFrame
    handle,       \* each client's page handle, while it is pinned
    shared,       \* history: whether two clients ever held pages of this pool
    unplaced,     \* history: whether a page of this pool was put into no frame
    spare         \* history: the frames least used when the search of CLOCK began

counters == <<lastIndex, hitCount, clockPtr, lfuPtr>>
history == <<shared, unplaced, spare>>
vars == <<pool, strategy, frame, counters, newPage, handle, history>>

NoFrame == [pageNum |-> NO_PAGE, data |-> NULL, dirty |-> FALSE,
            fixCount |-> 0, hitNum |-> 0, index |-> 0]
NoHandle == [pageNum |-> NO_PAGE, data |-> NULL]

Holds(c) == handle[c] # NoHandle
NoneHeld == \A c \in Clients : ~Holds(c)
FramesOf(p) == {f \in Frames : frame[f].pageNum = p}
Unfixed == {f \in Frames : frame[f].fixCount = 0}

Running == pool = "open" /\ newPage = NoFrame

(* What the program's memory holds after this is not modelled. *)
Break ==
    /\ pool' = "broken"
    /\ frame' = [f \in Frames |-> NoFrame]
    /\ newPage' = NoFrame /\ spare' = {}
    /\ handle' = [c \in Clients |-> NoHandle]
    /\ UNCHANGED <<strategy, counters, shared, unplaced>>

-----------------------------------------------------------------------------
Init ==
    /\ pool = "closed"
    /\ strategy = "RS_FIFO"
    /\ frame = [f \in Frames |-> NoFrame]
    /\ lastIndex = 0 /\ hitCount = 0 /\ clockPtr = 0 /\ lfuPtr = 0
    /\ newPage = NoFrame
    /\ handle = [c \in Clients |-> NoHandle]
    /\ shared = FALSE /\ unplaced = FALSE /\ spare = {}

(* The frames of a pool opened before are left behind, and lastIndex and hitCount
   stay until the first pin. *)
initBufferPool(s) ==
    /\ pool \in {"closed", "open"} /\ newPage = NoFrame
    /\ NoneHeld
    /\ pool' = "open"
    /\ strategy' = s
    /\ frame' = [f \in Frames |-> NoFrame]
    /\ clockPtr' = 0 /\ lfuPtr' = 0
    /\ shared' = FALSE /\ unplaced' = FALSE
    /\ UNCHANGED <<lastIndex, hitCount, newPage, handle, spare>>

-----------------------------------------------------------------------------
(* pinPage. *)

(* malloc: a buffer that no frame and no handle points to. *)
IsNewBuffer(b) ==
    /\ b \in Buffers
    /\ \A f \in Frames : frame[f].data # b
    /\ \A c \in Clients : handle[c].data # b
    /\ \A a \in Buffers : a < b =>
          \/ \E f \in Frames : frame[f].data = a
          \/ \E c \in Clients : handle[c].data = a

(* What the strategy notes of a page that is asked for. *)
HitNum(old) ==
    CASE strategy = "RS_LRU" -> hitCount + 1
      [] strategy = "RS_CLOCK" -> 1
      [] OTHER -> old

Loaded(p, b, hitNum) ==
    [pageNum |-> p, data |-> b, dirty |-> FALSE, fixCount |-> 1, hitNum |-> hitNum, index |-> 0]

SetHandle(c, p, b) ==
    /\ handle' = [handle EXCEPT ![c] = [pageNum |-> p, data |-> b]]
    /\ shared' = (shared \/ ~NoneHeld)

PinFirstBeforeZero(c, p, b) ==
    /\ frame[0].pageNum = NO_PAGE
    /\ frame' = [frame EXCEPT ![0] = Loaded(p, b, 0)]
    /\ lastIndex' = -1 /\ hitCount' = -1
    /\ SetHandle(c, p, b)
    /\ UNCHANGED <<clockPtr, lfuPtr, newPage, unplaced, spare>>

(* The first page of a pool does not count as used. *)
PinFirst(c, p, b) ==
    /\ frame[0].pageNum = NO_PAGE
    /\ frame' = [frame EXCEPT ![0] = Loaded(p, b, 0)]
    /\ lastIndex' = 0 /\ hitCount' = 0
    /\ SetHandle(c, p, b)
    /\ UNCHANGED <<clockPtr, lfuPtr, newPage, unplaced, spare>>

StopsAtAny(f, p) == frame[f].pageNum \in {NO_PAGE, p}

(* The scan of the frames stops at the first that is empty or holds p. *)
StopsAt(f, p) ==
    /\ frame[f].pageNum \in {NO_PAGE, p}
    /\ \A g \in 0 .. f - 1 : frame[g].pageNum \notin {NO_PAGE, p}

PinHit(c, p) ==
    \E f \in Frames :
        /\ StopsAt(f, p) /\ frame[f].pageNum = p
        /\ frame' = [frame EXCEPT ![f].fixCount = @ + 1,
                                  ![f].hitNum = HitNum(@),
                                  ![f].index = IF strategy = "RS_LFU" THEN @ + 1 ELSE @]
        /\ hitCount' = hitCount + 1
        /\ clockPtr' = clockPtr + 1
        /\ SetHandle(c, p, frame[f].data)
        /\ UNCHANGED <<lastIndex, lfuPtr, newPage, unplaced, spare>>

PinEmptyUncounted(c, p, b) ==
    /\ frame[0].pageNum # NO_PAGE
    /\ \E f \in Frames :
        /\ StopsAt(f, p) /\ frame[f].pageNum = NO_PAGE
        /\ frame' = [frame EXCEPT ![f] = Loaded(p, b, HitNum(0))]
    /\ hitCount' = hitCount + 1
    /\ SetHandle(c, p, b)
    /\ UNCHANGED <<lastIndex, clockPtr, lfuPtr, newPage, unplaced, spare>>

PinEmpty(c, p, b) ==
    /\ frame[0].pageNum # NO_PAGE
    /\ \E f \in Frames :
        /\ StopsAt(f, p) /\ frame[f].pageNum = NO_PAGE
        /\ frame' = [frame EXCEPT ![f] = Loaded(p, b, HitNum(0))]
    /\ lastIndex' = lastIndex + 1 /\ hitCount' = hitCount + 1
    /\ SetHandle(c, p, b)
    /\ UNCHANGED <<clockPtr, lfuPtr, newPage, unplaced, spare>>

-----------------------------------------------------------------------------
(* The strategies, when every frame has a page and none has p: Victim(f) says
   which frame the page may go to. *)

After(i, f) == (f - i) % NumFrames

FIFOVictimFixedOrNot(f) == After(lastIndex + 1, f) = 0

(* The first that is not fixed, from the number of loads on. *)
FIFOVictim(f) ==
    /\ f \in Unfixed
    /\ \A g \in Unfixed : After(lastIndex + 1, f) <= After(lastIndex + 1, g)

LRUVictimIsTheFirst(f) == f \in Unfixed /\ \A g \in Unfixed : f <= g

(* From the first that is not fixed on, the one used the longest ago, fixed or
   not; any when all are fixed, because LHI is not initialised then. *)
LRUVictim(f) ==
    \/ Unfixed = {}
    \/ \E first \in Unfixed :
          /\ \A g \in Unfixed : first <= g
          /\ f \in first .. NumFrames - 1
          /\ \A g \in first .. NumFrames - 1 :
                IF g < f THEN frame[f].hitNum < frame[g].hitNum
                ELSE frame[f].hitNum <= frame[g].hitNum

(* The frame that the first loop of LFU ends at: it goes on by i in round i as long
   as the frames that it comes to are not fixed. *)
LFUStart(i) ==
    LET at[round \in 0 .. NumFrames] ==
            IF round = 0 THEN i
            ELSE IF at[round - 1] \in Unfixed THEN (at[round - 1] + round - 1) % NumFrames
            ELSE at[round - 1]
    IN  at[NumFrames]

Least == {f \in Frames : \A g \in Frames : frame[f].index <= frame[g].index}
NearestLeast(i) == {f \in Least : \A g \in Least : After(i + 1, f) <= After(i + 1, g)}

(* The second loop looks for a smaller index in all frames, fixed or not.  When the
   first finds lfuPtr at a fixed frame, leastFreqRef is not initialised, and the
   second compares with something smaller or greater than any.  lfuPtr may be one
   behind the last frame, where either may be found. *)
LFUVictim(f) ==
    LET i == lfuPtr % NumFrames
        inside == lfuPtr < NumFrames
        start == LFUStart(i)
    IN  \/ /\ i \in Unfixed \/ ~inside
           /\ f \in (IF start \in Least THEN {start} ELSE NearestLeast(start))
        \/ i \notin Unfixed /\ inside /\ f \in {i} \cup NearestLeast(i)
        \/ ~inside /\ f \in NearestLeast(i)

Victim(f) ==
    CASE strategy = "RS_FIFO" -> FIFOVictim(f)
      [] strategy = "RS_LRU" -> LRUVictim(f)
      [] strategy = "RS_LFU" -> LFUVictim(f)
      [] OTHER -> FALSE

Full(p) == \A f \in Frames : frame[f].pageNum \notin {NO_PAGE, p}

(* A dirty page that leaves is written, which moves no bytes.  With CLOCK the search
   begins; where no frame is found, the client gets a buffer that is in none. *)
PinReplace(c, p, b) ==
    /\ Full(p)
    /\ lastIndex' = lastIndex + 1 /\ hitCount' = hitCount + 1
    /\ SetHandle(c, p, b)
    /\ UNCHANGED clockPtr
    /\ \/ \E f \in Frames :
            /\ Victim(f)
            /\ frame' = [frame EXCEPT ![f] = Loaded(p, b, HitNum(0))]
            /\ lfuPtr' = IF strategy = "RS_LFU" THEN f + 1 ELSE lfuPtr
            /\ UNCHANGED <<newPage, unplaced, spare>>
       \/ /\ strategy = "RS_CLOCK"
          /\ newPage' = Loaded(p, b, HitNum(0))
          /\ spare' = {f \in Frames : \A g \in Frames : frame[f].hitNum <= frame[g].hitNum}
          /\ UNCHANGED <<frame, lfuPtr, unplaced>>
       \/ /\ strategy \in {"RS_FIFO", "RS_LRU_K"}
          /\ \A f \in Frames : ~Victim(f)
          /\ unplaced' = TRUE
          /\ UNCHANGED <<frame, lfuPtr, newPage, spare>>

(* Reading the page, or writing the one that leaves, ends the program. *)
PinBreaks(p) == FramesOf(p) = {} /\ Break

pinPage(c, p) ==
    /\ Running
    /\ ~Holds(c)
    /\ hitCount < MaxHits \/ frame[0].pageNum = NO_PAGE
    /\ \/ /\ \/ PinHit(c, p)
             \/ \E b \in Buffers :
                   IsNewBuffer(b) /\ (PinFirst(c, p, b) \/ PinEmpty(c, p, b) \/ PinReplace(c, p, b))
          /\ UNCHANGED <<pool, strategy>>
       \/ PinBreaks(p)

ClockHand == IF clockPtr % NumFrames = 0 THEN 0 ELSE clockPtr

BitKept(f) == frame
AllBitsCleared(f) == [g \in Frames |-> [frame[g] EXCEPT !.hitNum = 0]]
BitCleared(f) == [frame EXCEPT ![f].hitNum = 0]

(* One round of the loop of CLOCK, which looks at no fix count.  Hits move the hand
   as well, so that it may be behind the last frame. *)
ClockStep ==
    /\ newPage # NoFrame
    /\ \/ ClockHand \notin Frames /\ Break
       \/ /\ ClockHand \in Frames
          /\ clockPtr' = ClockHand + 1
          /\ IF frame[ClockHand].hitNum = 0
             THEN /\ frame' = [frame EXCEPT ![ClockHand] = newPage]
                  /\ newPage' = NoFrame /\ spare' = {}
             ELSE frame' = BitCleared(ClockHand) /\ UNCHANGED <<newPage, spare>>
          /\ UNCHANGED <<pool, strategy, lastIndex, hitCount, lfuPtr, handle, shared, unplaced>>
       \/ /\ ClockHand \in Frames
          /\ frame[ClockHand].hitNum = 0 /\ frame[ClockHand].dirty
          /\ Break

-----------------------------------------------------------------------------
markDirty(c) ==
    /\ Running
    /\ Holds(c)
    /\ frame' = [f \in Frames |->
                   [frame[f] EXCEPT !.dirty = @ \/ f \in FramesOf(handle[c].pageNum)]]
    /\ UNCHANGED <<pool, strategy, counters, newPage, handle, history>>

(* A page that left its frame meanwhile is unpinned all the same. *)
unpinPage(c) ==
    /\ Running
    /\ Holds(c)
    /\ frame' = [f \in Frames |->
                   IF f \in FramesOf(handle[c].pageNum)
                   THEN [frame[f] EXCEPT !.fixCount = @ - 1] ELSE frame[f]]
    /\ handle' = [handle EXCEPT ![c] = NoHandle]
    /\ UNCHANGED <<pool, strategy, counters, newPage, history>>

(* Pages of S are written: the call fails and they count as clean, or it breaks. *)
Write(S) ==
    \/ /\ frame' = [f \in Frames |-> [frame[f] EXCEPT !.dirty = @ /\ f \notin S]]
       /\ UNCHANGED <<pool, strategy, counters, newPage, handle, history>>
    \/ S # {} /\ Break

forcePage(c) ==
    /\ Running
    /\ Holds(c)
    /\ Write(FramesOf(handle[c].pageNum))

ToFlush == {f \in Unfixed : frame[f].dirty}

forceFlushPool ==
    /\ Running
    /\ Write(ToFlush)

(* It returns after the flush: nothing is freed, and the pool stays usable. *)
shutdownBufferPool ==
    /\ Running
    /\ Write(ToFlush)

Next ==
    \/ \E s \in Strategies : initBufferPool(s)
    \/ \E c \in Clients, p \in PageNums : pinPage(c, p)
    \/ ClockStep
    \/ \E c \in Clients : markDirty(c) \/ unpinPage(c) \/ forcePage(c)
    \/ forceFlushPool
    \/ shutdownBufferPool

Spec == Init /\ [][Next]_vars

(* The program runs on: nothing waits in the loop of CLOCK. *)
Fairness == WF_vars(ClockStep)

FairSpec == Spec /\ Fairness

-----------------------------------------------------------------------------
FrameType ==
    [pageNum : PageNums \cup {NO_PAGE}, data : Buffers \cup {NULL}, dirty : BOOLEAN,
     fixCount : Int, hitNum : Nat, index : Nat]

TypeOK ==
    /\ pool \in {"closed", "open", "broken"}
    /\ strategy \in Strategies \cup {"RS_FIFO"}
    /\ frame \in [Frames -> FrameType]
    /\ lastIndex \in Nat /\ hitCount \in Nat /\ clockPtr \in Nat
    /\ lfuPtr \in 0 .. NumFrames
    /\ newPage \in FrameType
    /\ handle \in [Clients -> [pageNum : PageNums \cup {NO_PAGE}, data : Buffers \cup {NULL}]]
    /\ shared \in BOOLEAN /\ unplaced \in BOOLEAN /\ spare \subseteq Frames

(* Under every strategy, whoever holds what and whatever was replaced, a page is in
   one frame and a buffer in one frame; the frames without pages are the last. *)
OneFramePerPage ==
    \A f, g \in Frames : f < g /\ frame[g].pageNum # NO_PAGE =>
        /\ frame[f].pageNum \notin {NO_PAGE, frame[g].pageNum}
        /\ frame[f].data # frame[g].data

(* FIFO alone asks for the fix count: until it is called with all frames fixed, which
   pinPage does not tell the client, every page that is held stays in its frame
   and buffer, and its fix count is the number of clients that hold it. *)
Holders(p) == {c \in Clients : Holds(c) /\ handle[c].pageNum = p}

PinsHonoured ==
    strategy = "RS_FIFO" /\ ~unplaced =>
        /\ \A f \in Frames : frame[f].fixCount = Cardinality(Holders(frame[f].pageNum))
        /\ \A c \in Clients : Holds(c) =>
              \E f \in FramesOf(handle[c].pageNum) : frame[f].data = handle[c].data

-----------------------------------------------------------------------------
(* The pages of a pool with strategy s, in the order of key, and those fixed. *)
Occupied(s) == {f \in Frames : strategy = s /\ frame[f].pageNum # NO_PAGE}

PagesBy(s, key) ==
    [i \in 1 .. Cardinality(Occupied(s)) |->
        LET place(f) == Cardinality({g \in Occupied(s) : key[g] <= key[f]})
        IN  frame[CHOOSE f \in Occupied(s) : place(f) = i].pageNum]

LoadTime == [f \in Frames |-> After(lastIndex + 1, f)]
UseAge == [f \in Frames |-> -frame[f].hitNum]

Kept(s) == {frame[f].pageNum : f \in Occupied(s) \ Unfixed}

ByLoad == INSTANCE FIFOPolicy WITH
    Pages <- PageNums,
    Capacity <- NumFrames,
    queue <- PagesBy("RS_FIFO", LoadTime),
    kept <- Kept("RS_FIFO")

(* For clients that take turns RS_FIFO is first in, first out: although the order is
   kept only as a count of all loads, hits and empty frames do not disturb it. *)
EvictsFirstIn == ByLoad!Init /\ [][~shared' => [ByLoad!Next]_ByLoad!vars]_vars

ByUse == INSTANCE LRUPolicy WITH
    Pages <- PageNums,
    Capacity <- NumFrames,
    queue <- PagesBy("RS_LRU", UseAge),
    kept <- Kept("RS_LRU")

(* For clients that take turns RS_LRU replaces the page asked for the longest ago. *)
EvictsLeastRecent == ByUse!Init /\ [][~shared' => [ByUse!Next]_ByUse!vars]_vars

(* A new page comes to frame f, whose page leaves. *)
Replaces(f) ==
    frame[f].data \notin {NULL, frame'[f].data} /\ frame'[f].data # NULL

(* CLOCK takes a frame that was not used since its hand passed, if there was one
   when the search began, wherever hits have moved the hand; for clients that take
   turns LFU takes the frame that was hit least, wherever lfuPtr points. *)
TakesLeastUsed ==
    [][\A f \in Frames : Replaces(f) =>
          /\ strategy = "RS_CLOCK" => f \in spare
          /\ strategy = "RS_LFU" /\ ~shared' => f \in Least]_vars

(* The search of CLOCK, which has no bound but the bits it clears, comes to an end,
   from wherever hits have moved its hand to. *)
SearchEnds == newPage # NoFrame ~> newPage = NoFrame
=============================================================================

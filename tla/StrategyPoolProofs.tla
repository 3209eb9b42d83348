------------------------- MODULE StrategyPoolProofs -------------------------
(***************************************************************************)
(* Theorems about StrategyPool, for any clients, pages, buffers and number *)
(* of frames, and pools that are opened with any strategies.               *)
(***************************************************************************)
EXTENDS StrategyPool, FiniteSetTheorems, SequenceTheorems, TLAPS

(* What CLOCK looks for a place for is a page that no frame has, in a buffer that
   no frame has, and all frames have pages: so it may go to any of them. *)
Searching ==
    newPage # NoFrame =>
        /\ newPage.pageNum # NO_PAGE
        /\ \A f \in Frames : frame[f].pageNum \notin {NO_PAGE, newPage.pageNum}
                             /\ frame[f].data # newPage.data

IInv == TypeOK /\ OneFramePerPage /\ Searching

-----------------------------------------------------------------------------
LEMMA FramesExist ==
  /\ 0 \in Frames /\ 0 \in 0 .. NumFrames
  /\ \A f \in Frames : f \in Nat /\ f < NumFrames /\ f + 1 \in 0 .. NumFrames
  BY FramesAssumption DEF Frames

LEMMA NoHandleType == NoHandle \in [pageNum : PageNums \cup {NO_PAGE}, data : Buffers \cup {NULL}]
  BY DEF NoHandle

(* A page number that clients ask for is not the mark of an empty frame. *)
LEMMA PagesAreNotEmpty == ASSUME NEW p \in PageNums PROVE p # NO_PAGE
  BY PagesAssumption DEF NO_PAGE

LEMMA NoFrameType == NoFrame \in FrameType
  BY DEF NoFrame, FrameType, NO_PAGE, NULL

(* What is loaded is a frame with its page and buffer. *)
LEMMA LoadedType ==
  ASSUME NEW p \in PageNums, NEW b \in Buffers, NEW h \in Nat
  PROVE  /\ Loaded(p, b, h) \in FrameType
         /\ Loaded(p, b, h).pageNum = p
         /\ Loaded(p, b, h).data = b
  BY DEF Loaded, FrameType

LEMMA HitNumType ==
  ASSUME TypeOK, NEW n \in Nat
  PROVE  HitNum(n) \in Nat
  BY DEF TypeOK, HitNum

(* A page and a buffer that no frame has may go to any frame without one behind it
   in front of it. *)
LEMMA LoadKeepsPlaces ==
  ASSUME TypeOK, OneFramePerPage, NEW f \in Frames, NEW x \in FrameType,
         x.pageNum # NO_PAGE,
         \A g \in Frames : frame[g].pageNum # x.pageNum /\ frame[g].data # x.data,
         \A g \in Frames : g < f => frame[g].pageNum # NO_PAGE,
         frame' = [frame EXCEPT ![f] = x]
  PROVE  frame' \in [Frames -> FrameType] /\ OneFramePerPage'
<1>1. frame \in [Frames -> FrameType]
  BY DEF TypeOK
<1>2. frame' \in [Frames -> FrameType] /\ frame'[f] = x
      /\ \A g \in Frames : g # f => frame'[g] = frame[g]
  BY <1>1
<1>3. ASSUME NEW g \in Frames, NEW h \in Frames, g < h, frame'[h].pageNum # NO_PAGE
      PROVE  frame'[g].pageNum \notin {NO_PAGE, frame'[h].pageNum} /\ frame'[g].data # frame'[h].data
  <2>1. g # h
    BY <1>3, FramesExist
  <2>2. CASE h = f
    BY <1>2, <1>3, <2>1, <2>2
  <2>3. CASE g = f
    BY <1>2, <1>3, <2>1, <2>3
  <2>4. CASE g # f /\ h # f
    BY <1>2, <1>3, <2>4 DEF OneFramePerPage
  <2> QED
    BY <2>2, <2>3, <2>4
<1> QED
  BY <1>2, <1>3 DEF OneFramePerPage

(* Steps that leave pages and buffers where they are. *)
LEMMA SamePlaces ==
  ASSUME OneFramePerPage,
         \A f \in Frames : frame'[f].pageNum = frame[f].pageNum /\ frame'[f].data = frame[f].data
  PROVE  OneFramePerPage'
  BY DEF OneFramePerPage

LEMMA SamePlacesSearching ==
  ASSUME Searching, newPage' = newPage,
         \A f \in Frames : frame'[f].pageNum = frame[f].pageNum /\ frame'[f].data = frame[f].data
  PROVE  Searching'
  BY DEF Searching

LEMMA NotSearching ==
  ASSUME newPage' = NoFrame
  PROVE  Searching'
  BY DEF Searching

(* An empty pool, also the one of a program that broke. *)
LEMMA EmptyKeepsPlaces ==
  ASSUME frame' = [f \in Frames |-> NoFrame]
  PROVE  frame' \in [Frames -> FrameType] /\ OneFramePerPage'
<1>1. \A f \in Frames : frame'[f].pageNum = NO_PAGE
  BY DEF NoFrame
<1> QED
  BY <1>1, NoFrameType DEF OneFramePerPage

-----------------------------------------------------------------------------
LEMMA InitInv == Init => IInv
<1> SUFFICES ASSUME Init PROVE IInv
  OBVIOUS
<1>1. \A f \in Frames : frame[f].pageNum = NO_PAGE
  BY DEF Init, NoFrame
<1>2. TypeOK
  <2>1. handle \in [Clients -> [pageNum : PageNums \cup {NO_PAGE}, data : Buffers \cup {NULL}]]
    BY NoHandleType DEF Init
  <2>2. frame \in [Frames -> FrameType] /\ newPage \in FrameType
    BY NoFrameType DEF Init
  <2> QED
    BY <2>1, <2>2, FramesExist DEF Init, TypeOK
<1> QED
  BY <1>1, <1>2 DEF IInv, OneFramePerPage, Searching, Init

LEMMA BreakKeepsInv == ASSUME IInv, Break PROVE IInv'
<1>1. TypeOK'
  <2>1. handle' \in [Clients -> [pageNum : PageNums \cup {NO_PAGE}, data : Buffers \cup {NULL}]]
    BY NoHandleType DEF Break
  <2>2. frame' \in [Frames -> FrameType] /\ newPage' \in FrameType
    BY NoFrameType DEF Break
  <2> QED
    BY <2>1, <2>2 DEF IInv, TypeOK, Break, counters
<1> QED
  BY <1>1, EmptyKeepsPlaces, NotSearching DEF IInv, Break

LEMMA InitBufferPoolKeepsInv ==
  ASSUME IInv, NEW s \in Strategies, initBufferPool(s)
  PROVE  IInv'
<1>1. TypeOK'
  <2>1. frame' \in [Frames -> FrameType]
    BY NoFrameType DEF initBufferPool
  <2> QED
    BY <2>1, FramesExist DEF IInv, TypeOK, initBufferPool
<1> QED
  BY <1>1, EmptyKeepsPlaces, NotSearching DEF IInv, initBufferPool

-----------------------------------------------------------------------------
(* The outcomes of pinPage. *)

LEMMA SetHandleType ==
  ASSUME TypeOK, NEW c \in Clients, NEW p \in PageNums, NEW b \in Buffers \cup {NULL},
         SetHandle(c, p, b)
  PROVE  /\ handle' \in [Clients -> [pageNum : PageNums \cup {NO_PAGE}, data : Buffers \cup {NULL}]]
         /\ shared' \in BOOLEAN
<1>1. [pageNum |-> p, data |-> b] \in [pageNum : PageNums \cup {NO_PAGE}, data : Buffers \cup {NULL}]
  OBVIOUS
<1>2. handle' \in [Clients -> [pageNum : PageNums \cup {NO_PAGE}, data : Buffers \cup {NULL}]]
  BY <1>1 DEF TypeOK, SetHandle
<1>3. shared' \in BOOLEAN
  BY DEF TypeOK, SetHandle
<1> QED
  BY <1>2, <1>3

LEMMA PinFirstKeepsInv ==
  ASSUME IInv, Running, NEW c \in Clients, NEW p \in PageNums, NEW b \in Buffers,
         IsNewBuffer(b), PinFirst(c, p, b), UNCHANGED <<pool, strategy>>
  PROVE  IInv'
<1>1. \A g \in Frames : frame[g].pageNum = NO_PAGE
  <2> SUFFICES ASSUME NEW g \in Frames, frame[g].pageNum # NO_PAGE PROVE FALSE
    OBVIOUS
  <2>1. 0 < g
    BY FramesExist DEF PinFirst
  <2> QED
    BY <2>1, FramesExist DEF IInv, OneFramePerPage, PinFirst
<1> DEFINE x == Loaded(p, b, 0)
<1>2. frame' \in [Frames -> FrameType] /\ OneFramePerPage'
  <2>1. x \in FrameType /\ x.pageNum = p /\ x.data = b
    BY LoadedType
  <2>2. frame' = [frame EXCEPT ![0] = x]
    BY DEF PinFirst
  <2>3. \A g \in Frames : frame[g].data # b
    BY DEF IsNewBuffer
  <2>4. 0 \in Frames /\ \A g \in Frames : ~(g < 0)
    BY FramesExist
  <2> HIDE DEF x
  <2>5. TypeOK /\ OneFramePerPage /\ p # NO_PAGE
    BY PagesAreNotEmpty DEF IInv
  <2>6. \A g \in Frames : frame[g].pageNum # x.pageNum /\ frame[g].data # x.data
    BY <1>1, <2>1, <2>3, <2>5
  <2> QED
    BY <2>1, <2>2, <2>4, <2>5, <2>6, LoadKeepsPlaces
<1>3. TypeOK'
  BY <1>2, SetHandleType DEF IInv, TypeOK, PinFirst
<1> QED
  BY <1>2, <1>3, NotSearching DEF IInv, PinFirst, Running

LEMMA PinEmptyKeepsInv ==
  ASSUME IInv, Running, NEW c \in Clients, NEW p \in PageNums, NEW b \in Buffers,
         IsNewBuffer(b), PinEmpty(c, p, b), UNCHANGED <<pool, strategy>>
  PROVE  IInv'
<1>1. PICK f \in Frames : /\ StopsAt(f, p) /\ frame[f].pageNum = NO_PAGE
                          /\ frame' = [frame EXCEPT ![f] = Loaded(p, b, HitNum(0))]
  BY DEF PinEmpty
<1>2. \A g \in Frames : g < f => frame[g].pageNum \notin {NO_PAGE, p}
  BY <1>1, FramesExist DEF StopsAt, Frames
<1>3. \A g \in Frames : f < g => frame[g].pageNum = NO_PAGE
  BY <1>1 DEF IInv, OneFramePerPage
<1>4. \A g \in Frames : frame[g].pageNum # p
  BY <1>1, <1>2, <1>3, PagesAreNotEmpty, FramesExist
<1> DEFINE x == Loaded(p, b, HitNum(0))
<1>5. x \in FrameType /\ x.pageNum = p /\ x.data = b
  <2>1. HitNum(0) \in Nat
    BY HitNumType DEF IInv
  <2> QED
    BY <2>1, LoadedType
<1>6. frame' \in [Frames -> FrameType] /\ OneFramePerPage'
  <2>1. \A g \in Frames : frame[g].data # b
    BY DEF IsNewBuffer
  <2>2. frame' = [frame EXCEPT ![f] = x]
    BY <1>1
  <2> HIDE DEF x
  <2>3. TypeOK /\ OneFramePerPage /\ p # NO_PAGE
    BY PagesAreNotEmpty DEF IInv
  <2>4. \A g \in Frames : frame[g].pageNum # x.pageNum /\ frame[g].data # x.data
    BY <1>4, <1>5, <2>1
  <2>5. \A g \in Frames : g < f => frame[g].pageNum # NO_PAGE
    BY <1>2
  <2> QED
    BY <1>5, <2>2, <2>3, <2>4, <2>5, LoadKeepsPlaces
<1>7. TypeOK'
  BY <1>6, SetHandleType DEF IInv, TypeOK, PinEmpty
<1> QED
  BY <1>6, <1>7, NotSearching DEF IInv, PinEmpty, Running

LEMMA PinHitKeepsInv ==
  ASSUME IInv, Running, NEW c \in Clients, NEW p \in PageNums,
         PinHit(c, p), UNCHANGED <<pool, strategy>>
  PROVE  IInv'
<1>1. PICK f \in Frames :
        /\ frame' = [frame EXCEPT ![f].fixCount = @ + 1, ![f].hitNum = HitNum(@),
                                  ![f].index = IF strategy = "RS_LFU" THEN @ + 1 ELSE @]
        /\ SetHandle(c, p, frame[f].data)
  BY DEF PinHit
<1>2. frame \in [Frames -> FrameType] /\ frame[f] \in FrameType
  BY DEF IInv, TypeOK
<1>3. HitNum(frame[f].hitNum) \in Nat
  BY <1>2, HitNumType DEF IInv, FrameType
<1>4. frame' = [frame EXCEPT ![f] = [frame[f] EXCEPT !.fixCount = @ + 1, !.hitNum = HitNum(@),
                                        !.index = IF strategy = "RS_LFU" THEN @ + 1 ELSE @]]
  BY <1>1, <1>2
<1> DEFINE n == IF strategy = "RS_LFU" THEN frame[f].index + 1 ELSE frame[f].index
<1>5. /\ frame'[f] \in FrameType
      /\ frame'[f].pageNum = frame[f].pageNum /\ frame'[f].data = frame[f].data
  <2>1. n \in Nat /\ frame[f].fixCount + 1 \in Int
    BY <1>2 DEF FrameType
  <2>2. frame'[f] = [pageNum |-> frame[f].pageNum, data |-> frame[f].data, dirty |-> frame[f].dirty,
                     fixCount |-> frame[f].fixCount + 1, hitNum |-> HitNum(frame[f].hitNum), index |-> n]
    BY <1>2, <1>4 DEF FrameType
  <2> HIDE DEF n
  <2> QED
    BY <1>2, <1>3, <2>1, <2>2 DEF FrameType
<1>6. /\ frame' \in [Frames -> FrameType]
      /\ \A g \in Frames : frame'[g].pageNum = frame[g].pageNum /\ frame'[g].data = frame[g].data
  BY <1>2, <1>4, <1>5
<1>7. handle' \in [Clients -> [pageNum : PageNums \cup {NO_PAGE}, data : Buffers \cup {NULL}]]
      /\ shared' \in BOOLEAN
  BY <1>1, <1>2, SetHandleType DEF IInv, FrameType
<1>8. TypeOK'
  BY <1>6, <1>7 DEF IInv, TypeOK, PinHit
<1> QED
  BY <1>6, <1>8, SamePlaces, NotSearching DEF IInv, PinHit, Running

LEMMA PinReplaceKeepsInv ==
  ASSUME IInv, Running, NEW c \in Clients, NEW p \in PageNums, NEW b \in Buffers,
         IsNewBuffer(b), PinReplace(c, p, b), UNCHANGED <<pool, strategy>>
  PROVE  IInv'
<1> DEFINE x == Loaded(p, b, HitNum(0))
<1>1. x \in FrameType /\ x.pageNum = p /\ x.data = b
  <2>1. HitNum(0) \in Nat
    BY HitNumType DEF IInv
  <2> QED
    BY <2>1, LoadedType
<1>2. TypeOK /\ OneFramePerPage /\ p # NO_PAGE
  BY PagesAreNotEmpty DEF IInv
<1>3. \A g \in Frames : frame[g].pageNum \notin {NO_PAGE, p} /\ frame[g].data # b
  BY DEF PinReplace, Full, IsNewBuffer
<1>4. /\ handle' \in [Clients -> [pageNum : PageNums \cup {NO_PAGE}, data : Buffers \cup {NULL}]]
      /\ shared' \in BOOLEAN
      /\ lastIndex' \in Nat /\ hitCount' \in Nat /\ clockPtr' = clockPtr
  BY <1>2, SetHandleType DEF TypeOK, PinReplace
<1>5. CASE \E f \in Frames :
             /\ frame' = [frame EXCEPT ![f] = x]
             /\ lfuPtr' = IF strategy = "RS_LFU" THEN f + 1 ELSE lfuPtr
             /\ UNCHANGED <<newPage, unplaced, spare>>
  <2>1. PICK f \in Frames : /\ frame' = [frame EXCEPT ![f] = x]
                            /\ lfuPtr' = IF strategy = "RS_LFU" THEN f + 1 ELSE lfuPtr
                            /\ UNCHANGED <<newPage, unplaced, spare>>
    BY <1>5
  <2> HIDE DEF x
  <2>2. \A g \in Frames : frame[g].pageNum # x.pageNum /\ frame[g].data # x.data
    BY <1>1, <1>3
  <2>3. \A g \in Frames : g < f => frame[g].pageNum # NO_PAGE
    BY <1>3
  <2>4. frame' \in [Frames -> FrameType] /\ OneFramePerPage'
    BY <1>1, <1>2, <2>1, <2>2, <2>3, LoadKeepsPlaces
  <2>5. lfuPtr' \in 0 .. NumFrames
    BY <1>2, <2>1, FramesExist DEF TypeOK
  <2>6. TypeOK'
    BY <1>2, <1>4, <2>1, <2>4, <2>5 DEF TypeOK
  <2> QED
    BY <2>1, <2>4, <2>6, NotSearching DEF IInv, Running
<1>6. CASE /\ newPage' = x
           /\ spare' = {f \in Frames : \A g \in Frames : frame[f].hitNum <= frame[g].hitNum}
           /\ UNCHANGED <<frame, lfuPtr, unplaced>>
  <2> HIDE DEF x
  <2>1. TypeOK'
    BY <1>1, <1>2, <1>4, <1>6 DEF TypeOK
  <2>2. Searching'
    BY <1>1, <1>2, <1>3, <1>6 DEF Searching
  <2>3. OneFramePerPage'
    BY <1>2, <1>6, SamePlaces
  <2> QED
    BY <2>1, <2>2, <2>3 DEF IInv
<1>7. CASE unplaced' = TRUE /\ UNCHANGED <<frame, lfuPtr, newPage, spare>>
  <2>1. TypeOK'
    BY <1>2, <1>4, <1>7 DEF TypeOK
  <2>2. OneFramePerPage'
    BY <1>2, <1>7, SamePlaces
  <2> QED
    BY <1>7, <2>1, <2>2, NotSearching DEF IInv, Running
<1> QED
  BY <1>5, <1>6, <1>7 DEF PinReplace

LEMMA PinPageKeepsInv ==
  ASSUME IInv, NEW c \in Clients, NEW p \in PageNums, pinPage(c, p)
  PROVE  IInv'
BY PinFirstKeepsInv, PinEmptyKeepsInv, PinHitKeepsInv, PinReplaceKeepsInv, BreakKeepsInv
   DEF pinPage, PinBreaks

-----------------------------------------------------------------------------
(* A round of CLOCK: the page comes to the frame at the hand, or a bit is cleared. *)
LEMMA ClockStepKeepsInv == ASSUME IInv, ClockStep PROVE IInv'
<1>1. CASE Break
  BY <1>1, BreakKeepsInv
<1>2. CASE /\ ClockHand \in Frames /\ clockPtr' = ClockHand + 1
           /\ frame' = [frame EXCEPT ![ClockHand] = newPage] /\ newPage' = NoFrame /\ spare' = {}
           /\ UNCHANGED <<pool, strategy, lastIndex, hitCount, lfuPtr, handle, shared, unplaced>>
  <2> DEFINE f == ClockHand
  <2>1. /\ newPage.pageNum # NO_PAGE /\ newPage \in FrameType
        /\ \A g \in Frames : /\ frame[g].pageNum \notin {NO_PAGE, newPage.pageNum}
                             /\ frame[g].data # newPage.data
    BY DEF IInv, TypeOK, Searching, ClockStep
  <2>2. f \in Frames /\ frame' = [frame EXCEPT ![f] = newPage] /\ clockPtr' = f + 1
    BY <1>2
  <2> HIDE DEF f
  <2>3. frame' \in [Frames -> FrameType] /\ OneFramePerPage'
    BY <2>1, <2>2, LoadKeepsPlaces DEF IInv
  <2>4. clockPtr' \in Nat
    BY <2>2, FramesExist
  <2>5. TypeOK'
    BY <1>2, <2>3, <2>4, NoFrameType DEF IInv, TypeOK
  <2> QED
    BY <1>2, <2>3, <2>5, NotSearching DEF IInv
<1>3. CASE /\ ClockHand \in Frames /\ clockPtr' = ClockHand + 1
           /\ frame' = BitCleared(ClockHand) /\ UNCHANGED <<newPage, spare>>
           /\ UNCHANGED <<pool, strategy, lastIndex, hitCount, lfuPtr, handle, shared, unplaced>>
  <2> DEFINE f == ClockHand
  <2>1. f \in Frames /\ frame' = [frame EXCEPT ![f].hitNum = 0] /\ clockPtr' = f + 1
    BY <1>3 DEF BitCleared
  <2> HIDE DEF f
  <2>2. frame \in [Frames -> FrameType]
    BY DEF IInv, TypeOK
  <2>3. /\ frame' \in [Frames -> FrameType]
        /\ \A g \in Frames : frame'[g].pageNum = frame[g].pageNum /\ frame'[g].data = frame[g].data
    BY <2>1, <2>2 DEF FrameType
  <2>4. clockPtr' \in Nat
    BY <2>1, FramesExist
  <2>5. TypeOK'
    BY <1>3, <2>3, <2>4 DEF IInv, TypeOK
  <2> QED
    BY <1>3, <2>3, <2>5, SamePlaces, SamePlacesSearching DEF IInv
<1> QED
  BY <1>1, <1>2, <1>3 DEF ClockStep

-----------------------------------------------------------------------------
(* Steps that change marks and fix counts only. *)
LEMMA MarksKeepInv ==
  ASSUME IInv, frame' \in [Frames -> FrameType],
         \A f \in Frames : frame'[f].pageNum = frame[f].pageNum /\ frame'[f].data = frame[f].data,
         handle' \in [Clients -> [pageNum : PageNums \cup {NO_PAGE}, data : Buffers \cup {NULL}]],
         UNCHANGED <<pool, strategy, counters, newPage, history>>
  PROVE  IInv'
<1>1. TypeOK'
  BY DEF IInv, TypeOK, counters, history
<1> QED
  BY <1>1, SamePlaces, SamePlacesSearching DEF IInv

LEMMA MarkDirtyKeepsInv ==
  ASSUME IInv, NEW c \in Clients, markDirty(c)
  PROVE  IInv'
<1>1. frame \in [Frames -> FrameType]
  BY DEF IInv, TypeOK
<1>2. ASSUME NEW f \in Frames
      PROVE  /\ frame'[f] \in FrameType
             /\ frame'[f].pageNum = frame[f].pageNum /\ frame'[f].data = frame[f].data
  BY <1>1 DEF markDirty, FrameType
<1>3. frame' \in [Frames -> FrameType]
  BY <1>2 DEF markDirty
<1> QED
  BY <1>2, <1>3, MarksKeepInv DEF markDirty, IInv, TypeOK

LEMMA UnpinPageKeepsInv ==
  ASSUME IInv, NEW c \in Clients, unpinPage(c)
  PROVE  IInv'
<1>1. frame \in [Frames -> FrameType]
  BY DEF IInv, TypeOK
<1>2. ASSUME NEW f \in Frames
      PROVE  /\ frame'[f] \in FrameType
             /\ frame'[f].pageNum = frame[f].pageNum /\ frame'[f].data = frame[f].data
  BY <1>1 DEF unpinPage, FrameType
<1>3. frame' \in [Frames -> FrameType]
  BY <1>2 DEF unpinPage
<1>4. handle' \in [Clients -> [pageNum : PageNums \cup {NO_PAGE}, data : Buffers \cup {NULL}]]
  BY NoHandleType DEF unpinPage, IInv, TypeOK
<1> QED
  BY <1>2, <1>3, <1>4, MarksKeepInv DEF unpinPage

LEMMA WriteKeepsInv ==
  ASSUME IInv, NEW S, Write(S)
  PROVE  IInv'
<1>1. CASE Break
  BY <1>1, BreakKeepsInv
<1>2. CASE /\ frame' = [f \in Frames |-> [frame[f] EXCEPT !.dirty = @ /\ f \notin S]]
           /\ UNCHANGED <<pool, strategy, counters, newPage, handle, history>>
  <2>1. frame \in [Frames -> FrameType]
    BY DEF IInv, TypeOK
  <2>2. ASSUME NEW f \in Frames
        PROVE  /\ frame'[f] \in FrameType
               /\ frame'[f].pageNum = frame[f].pageNum /\ frame'[f].data = frame[f].data
    BY <1>2, <2>1 DEF FrameType
  <2>3. frame' \in [Frames -> FrameType]
    BY <1>2, <2>2
  <2> QED
    BY <1>2, <2>2, <2>3, MarksKeepInv DEF IInv, TypeOK
<1> QED
  BY <1>1, <1>2 DEF Write

LEMMA StepKeepsInv == ASSUME IInv, [Next]_vars PROVE IInv'
<1>1. CASE UNCHANGED vars
  BY <1>1 DEF vars, counters, history, IInv, TypeOK, OneFramePerPage, Searching
<1>2. CASE Next
  BY <1>2, InitBufferPoolKeepsInv, PinPageKeepsInv, ClockStepKeepsInv, MarkDirtyKeepsInv,
     UnpinPageKeepsInv, WriteKeepsInv
     DEF Next, forcePage, forceFlushPool, shutdownBufferPool
<1> QED
  BY <1>1, <1>2

(* The invariant is inductive; what is typed and where pages are follows from it. *)
LEMMA Invariance == Spec => []IInv
<1>1. Init => IInv
  BY InitInv
<1>2. IInv /\ [Next]_vars => IInv'
  BY StepKeepsInv
<1> QED
  BY <1>1, <1>2, PTL DEF Spec

(* The counters stay counts: no strategy takes a frame that is none, and lfuPtr is at
   most one behind the last. *)
THEOREM TypesCorrect == Spec => []TypeOK
<1>1. IInv => TypeOK
  BY DEF IInv
<1> QED
  BY <1>1, Invariance, PTL

(* Under every strategy a page is in one frame and a buffer in one frame, and frames
   fill from the first on, whoever holds what. *)
THEOREM PagesHaveOneFrame == Spec => []OneFramePerPage
<1>1. IInv => OneFramePerPage
  BY DEF IInv
<1> QED
  BY <1>1, Invariance, PTL

-----------------------------------------------------------------------------
(* What PinsHonoured rests on: a handle that is held has a page, and only CLOCK
   looks for a place after pinPage has set the handle. *)
HandlesShaped == \A c \in Clients : Holds(c) => handle[c].pageNum # NO_PAGE
OnlyClockSearches == newPage # NoFrame => strategy = "RS_CLOCK"

PInv == IInv /\ HandlesShaped /\ OnlyClockSearches /\ PinsHonoured

(* The clients whose handles h say that they hold q. *)
HoldersIn(h, q) == {c \in Clients : h[c] # NoHandle /\ h[c].pageNum = q}

Honoured(h, fr) ==
    /\ \A f \in Frames : fr[f].fixCount = Cardinality(HoldersIn(h, fr[f].pageNum))
    /\ \A c \in Clients : h[c] # NoHandle =>
          \E f \in Frames : fr[f].pageNum = h[c].pageNum /\ fr[f].data = h[c].data

LEMMA HonouredMeans ==
  /\ PinsHonoured <=> (strategy = "RS_FIFO" /\ ~unplaced => Honoured(handle, frame))
  /\ PinsHonoured' <=> (strategy' = "RS_FIFO" /\ ~unplaced' => Honoured(handle', frame'))
<1>1. PinsHonoured <=> (strategy = "RS_FIFO" /\ ~unplaced => Honoured(handle, frame))
  BY Zenon DEF PinsHonoured, Honoured, Holders, HoldersIn, Holds, FramesOf
<1>2. PinsHonoured' <=> (strategy' = "RS_FIFO" /\ ~unplaced' => Honoured(handle', frame'))
  BY Zenon DEF PinsHonoured, Honoured, Holders, HoldersIn, Holds, FramesOf
<1> QED
  BY <1>1, <1>2

LEMMA HoldersFinite ==
  ASSUME IsFiniteSet(Clients), NEW h, NEW q
  PROVE  IsFiniteSet(HoldersIn(h, q)) /\ Cardinality(HoldersIn(h, q)) \in Nat
<1>1. HoldersIn(h, q) \subseteq Clients
  BY DEF HoldersIn
<1> QED
  BY <1>1, FS_Subset, FS_CardinalityType

(* A client more, or one less, that holds p. *)
LEMMA PinCounts ==
  ASSUME IsFiniteSet(Clients), TypeOK, NEW c \in Clients, ~Holds(c), NEW p \in PageNums, NEW b,
         handle' = [handle EXCEPT ![c] = [pageNum |-> p, data |-> b]], NEW q
  PROVE  /\ q = p => Cardinality(HoldersIn(handle', q)) = Cardinality(HoldersIn(handle, q)) + 1
         /\ q # p => HoldersIn(handle', q) = HoldersIn(handle, q)
<1>1. /\ handle'[c] # NoHandle /\ handle'[c].pageNum = p
      /\ \A d \in Clients : d # c => handle'[d] = handle[d]
      /\ handle[c] = NoHandle
  BY PagesAreNotEmpty DEF TypeOK, Holds, NoHandle
<1>2. CASE q = p
  <2>1. HoldersIn(handle', q) = HoldersIn(handle, q) \cup {c} /\ c \notin HoldersIn(handle, q)
    BY <1>1, <1>2 DEF HoldersIn
  <2> QED
    BY <1>2, <2>1, HoldersFinite, FS_AddElement
<1>3. CASE q # p
  BY <1>1, <1>3 DEF HoldersIn
<1> QED
  BY <1>2, <1>3

LEMMA UnpinCounts ==
  ASSUME IsFiniteSet(Clients), TypeOK, NEW c \in Clients, Holds(c),
         handle' = [handle EXCEPT ![c] = NoHandle], NEW q
  PROVE  /\ q = handle[c].pageNum =>
               Cardinality(HoldersIn(handle', q)) = Cardinality(HoldersIn(handle, q)) - 1
         /\ q # handle[c].pageNum => HoldersIn(handle', q) = HoldersIn(handle, q)
<1>1. /\ handle'[c] = NoHandle /\ handle[c] # NoHandle
      /\ \A d \in Clients : d # c => handle'[d] = handle[d]
  BY DEF TypeOK, Holds
<1>2. HoldersIn(handle', q) = HoldersIn(handle, q) \ {c}
  BY <1>1 DEF HoldersIn
<1>3. c \in HoldersIn(handle, q) <=> q = handle[c].pageNum
  BY <1>1 DEF HoldersIn
<1>4. ASSUME q = handle[c].pageNum
      PROVE  Cardinality(HoldersIn(handle', q)) = Cardinality(HoldersIn(handle, q)) - 1
  <2>1. c \in HoldersIn(handle, q) /\ IsFiniteSet(HoldersIn(handle, q))
    BY <1>3, <1>4, HoldersFinite
  <2>2. Cardinality(HoldersIn(handle, q) \ {c}) = Cardinality(HoldersIn(handle, q)) - 1
    BY <2>1, FS_RemoveElement
  <2> QED
    BY <1>2, <2>2
<1>5. ASSUME q # handle[c].pageNum
      PROVE  HoldersIn(handle', q) = HoldersIn(handle, q)
  BY <1>2, <1>3, <1>5
<1> QED
  BY <1>4, <1>5

LEMMA NobodyHolds ==
  ASSUME NEW h, \A c \in Clients : h[c] = NoHandle
  PROVE  \A q : Cardinality(HoldersIn(h, q)) = 0
<1>1. \A q : HoldersIn(h, q) = {}
  BY DEF HoldersIn
<1> QED
  BY <1>1, FS_EmptySet

(* A page that no frame has may come to a frame that is empty or not fixed: nobody
   holds the page that leaves, and only c holds the one that comes. *)
LEMMA FreshPageComes ==
  ASSUME IsFiniteSet(Clients), TypeOK, HandlesShaped, Honoured(handle, frame),
         NEW c \in Clients, ~Holds(c), NEW p \in PageNums, NEW b, NEW f \in Frames,
         NEW x, x.pageNum = p, x.data = b, x.fixCount = 1,
         \A g \in Frames : frame[g].pageNum # p,
         frame[f].fixCount = 0 \/ frame[f].pageNum = NO_PAGE,
         frame' = [frame EXCEPT ![f] = x],
         handle' = [handle EXCEPT ![c] = [pageNum |-> p, data |-> b]]
  PROVE  Honoured(handle', frame')
<1>1. /\ frame'[f] = x
      /\ \A g \in Frames : g # f => frame'[g] = frame[g]
      /\ handle'[c] = [pageNum |-> p, data |-> b]
      /\ \A d \in Clients : d # c => handle'[d] = handle[d]
  BY DEF TypeOK
<1>2. /\ Cardinality(HoldersIn(handle', p)) = Cardinality(HoldersIn(handle, p)) + 1
      /\ \A q : q # p => HoldersIn(handle', q) = HoldersIn(handle, q)
  BY PinCounts
<1>3. Cardinality(HoldersIn(handle, p)) = 0
  <2>1. HoldersIn(handle, p) = {}
    BY DEF HoldersIn, Honoured
  <2> QED
    BY <2>1, FS_EmptySet
<1>4. \A d \in Clients : handle[d] # NoHandle => handle[d].pageNum # frame[f].pageNum
  <2>1. CASE frame[f].pageNum = NO_PAGE
    BY <2>1 DEF HandlesShaped, Holds
  <2>2. CASE frame[f].fixCount = 0
    <3>1. Cardinality(HoldersIn(handle, frame[f].pageNum)) = 0
      BY <2>2 DEF Honoured
    <3>2. HoldersIn(handle, frame[f].pageNum) = {}
      BY <3>1, HoldersFinite, FS_EmptySet
    <3> QED
      BY <3>2 DEF HoldersIn
  <2> QED
    BY <2>1, <2>2
<1>5. ASSUME NEW g \in Frames
      PROVE  frame'[g].fixCount = Cardinality(HoldersIn(handle', frame'[g].pageNum))
  <2>1. CASE g = f
    <3>1. Cardinality(HoldersIn(handle', p)) = 1
      BY <1>2, <1>3
    <3>2. frame'[g].pageNum = p /\ frame'[g].fixCount = 1
      BY <1>1, <2>1
    <3> QED
      BY <3>1, <3>2
  <2>2. CASE g # f
    <3>1. frame[g].fixCount = Cardinality(HoldersIn(handle, frame[g].pageNum))
      BY DEF Honoured
    <3>2. frame'[g] = frame[g] /\ frame[g].pageNum # p
      BY <1>1, <2>2
    <3> QED
      BY <1>2, <3>1, <3>2, HoldersFinite
  <2> QED
    BY <2>1, <2>2
<1>6. ASSUME NEW d \in Clients, handle'[d] # NoHandle
      PROVE  \E g \in Frames : frame'[g].pageNum = handle'[d].pageNum /\ frame'[g].data = handle'[d].data
  <2>1. CASE d = c
    <3>1. frame'[f].pageNum = handle'[d].pageNum /\ frame'[f].data = handle'[d].data
      BY <1>1, <2>1
    <3> QED
      BY <3>1
  <2>2. CASE d # c
    <3>1. handle'[d] = handle[d] /\ handle[d] # NoHandle
      BY <1>1, <1>6, <2>2
    <3>2. PICK g \in Frames : frame[g].pageNum = handle[d].pageNum /\ frame[g].data = handle[d].data
      BY <3>1 DEF Honoured
    <3>3. g # f
      BY <1>4, <3>1, <3>2
    <3> QED
      BY <1>1, <3>1, <3>2, <3>3
  <2> QED
    BY <2>1, <2>2
<1> QED
  BY <1>5, <1>6 DEF Honoured

(* Steps after which handles and frames say of pages, buffers and fix counts what
   they said before. *)
LEMMA SameHonoured ==
  ASSUME Honoured(handle, frame), handle' = handle,
         \A f \in Frames : /\ frame'[f].pageNum = frame[f].pageNum
                           /\ frame'[f].data = frame[f].data
                           /\ frame'[f].fixCount = frame[f].fixCount
  PROVE  Honoured(handle', frame')
BY DEF Honoured

-----------------------------------------------------------------------------
LEMMA InitHonours == Init => PInv
<1> SUFFICES ASSUME Init PROVE PInv
  OBVIOUS
<1>1. \A c \in Clients : handle[c] = NoHandle
  BY DEF Init
<1>2. \A f \in Frames : frame[f].fixCount = 0
  BY DEF Init, NoFrame
<1>3. Honoured(handle, frame)
  BY <1>1, <1>2, NobodyHolds DEF Honoured
<1> QED
  BY <1>1, <1>3, InitInv, HonouredMeans DEF PInv, HandlesShaped, Holds, OnlyClockSearches, Init

(* A pool that is opened, or broke, is empty, and nobody holds a page. *)
LEMMA EmptyHonours ==
  ASSUME IInv', frame' = [f \in Frames |-> NoFrame], \A c \in Clients : handle'[c] = NoHandle,
         newPage' = NoFrame
  PROVE  PInv'
<1>1. \A f \in Frames : frame'[f].fixCount = 0
  BY DEF NoFrame
<1>2. Honoured(handle', frame')
  BY <1>1, NobodyHolds DEF Honoured
<1> QED
  BY <1>2, HonouredMeans DEF PInv, HandlesShaped, Holds, OnlyClockSearches

LEMMA BreakHonours == ASSUME PInv, Break PROVE PInv'
<1>1. IInv'
  BY BreakKeepsInv DEF PInv
<1>2. \A c \in Clients : handle'[c] = NoHandle
  BY DEF Break
<1> QED
  BY <1>1, <1>2, EmptyHonours DEF Break

LEMMA InitBufferPoolHonours ==
  ASSUME PInv, NEW s \in Strategies, initBufferPool(s)
  PROVE  PInv'
<1>1. IInv'
  BY InitBufferPoolKeepsInv DEF PInv
<1>2. \A c \in Clients : handle'[c] = NoHandle
  BY DEF initBufferPool, NoneHeld, Holds
<1>3. newPage' = NoFrame
  BY DEF initBufferPool
<1> QED
  BY <1>1, <1>2, <1>3, EmptyHonours DEF initBufferPool

-----------------------------------------------------------------------------
(* Whatever pinPage did, the handle has a page. *)
LEMMA PinShapes ==
  ASSUME TypeOK, HandlesShaped, NEW c \in Clients, NEW p \in PageNums, NEW b, SetHandle(c, p, b)
  PROVE  HandlesShaped'
<1>1. /\ handle'[c].pageNum = p
      /\ \A d \in Clients : d # c => handle'[d] = handle[d]
  BY DEF TypeOK, SetHandle
<1> QED
  BY <1>1, PagesAreNotEmpty DEF HandlesShaped, Holds

LEMMA PinFirstHonours ==
  ASSUME IsFiniteSet(Clients), PInv, Running, NEW c \in Clients, ~Holds(c), NEW p \in PageNums,
         NEW b \in Buffers, IsNewBuffer(b), PinFirst(c, p, b), UNCHANGED <<pool, strategy>>
  PROVE  PInv'
<1>1. IInv'
  BY PinFirstKeepsInv DEF PInv
<1>2. HandlesShaped' /\ OnlyClockSearches'
  BY PinShapes DEF PInv, IInv, PinFirst, Running, OnlyClockSearches
<1>3. ASSUME Honoured(handle, frame) PROVE Honoured(handle', frame')
  <2> DEFINE x == Loaded(p, b, 0)
  <2>1. x.pageNum = p /\ x.data = b /\ x.fixCount = 1
    BY DEF Loaded
  <2>2. /\ frame' = [frame EXCEPT ![0] = x] /\ frame[0].pageNum = NO_PAGE
        /\ handle' = [handle EXCEPT ![c] = [pageNum |-> p, data |-> b]]
    BY DEF PinFirst, SetHandle
  <2>3. \A g \in Frames : frame[g].pageNum # p
    <3> SUFFICES ASSUME NEW g \in Frames, frame[g].pageNum = p PROVE FALSE
      OBVIOUS
    <3>1. frame[g].pageNum # NO_PAGE
      BY PagesAreNotEmpty
    <3>2. 0 < g
      BY <2>2, <3>1, FramesExist
    <3> QED
      BY <2>2, <3>1, <3>2, FramesExist DEF PInv, IInv, OneFramePerPage
  <2>4. 0 \in Frames /\ TypeOK /\ HandlesShaped
    BY FramesExist DEF PInv, IInv
  <2> HIDE DEF x
  <2> QED
    BY <1>3, <2>1, <2>2, <2>3, <2>4, FreshPageComes
<1>4. PinsHonoured'
  BY <1>3, HonouredMeans DEF PInv, PinFirst
<1> QED
  BY <1>1, <1>2, <1>4 DEF PInv

LEMMA PinEmptyHonours ==
  ASSUME IsFiniteSet(Clients), PInv, Running, NEW c \in Clients, ~Holds(c), NEW p \in PageNums,
         NEW b \in Buffers, IsNewBuffer(b), PinEmpty(c, p, b), UNCHANGED <<pool, strategy>>
  PROVE  PInv'
<1>1. IInv'
  BY PinEmptyKeepsInv DEF PInv
<1>2. HandlesShaped' /\ OnlyClockSearches'
  BY PinShapes DEF PInv, IInv, PinEmpty, Running, OnlyClockSearches
<1>3. ASSUME Honoured(handle, frame) PROVE Honoured(handle', frame')
  <2> DEFINE x == Loaded(p, b, HitNum(0))
  <2>1. x.pageNum = p /\ x.data = b /\ x.fixCount = 1
    BY DEF Loaded
  <2>2. PICK f \in Frames : /\ StopsAt(f, p) /\ frame[f].pageNum = NO_PAGE
                            /\ frame' = [frame EXCEPT ![f] = x]
    BY DEF PinEmpty
  <2>3. \A g \in Frames : g < f => frame[g].pageNum \notin {NO_PAGE, p}
    BY <2>2, FramesExist DEF StopsAt, Frames
  <2>4. \A g \in Frames : f < g => frame[g].pageNum = NO_PAGE
    BY <2>2 DEF PInv, IInv, OneFramePerPage
  <2>5. \A g \in Frames : frame[g].pageNum # p
    BY <2>2, <2>3, <2>4, PagesAreNotEmpty, FramesExist
  <2>6. TypeOK /\ HandlesShaped /\ handle' = [handle EXCEPT ![c] = [pageNum |-> p, data |-> b]]
    BY DEF PInv, IInv, PinEmpty, SetHandle
  <2> HIDE DEF x
  <2> QED
    BY <1>3, <2>1, <2>2, <2>5, <2>6, FreshPageComes
<1>4. PinsHonoured'
  BY <1>3, HonouredMeans DEF PInv, PinEmpty
<1> QED
  BY <1>1, <1>2, <1>4 DEF PInv

(* FIFO takes a frame of fix count 0; where there is none the page is unplaced. *)
LEMMA PinReplaceHonours ==
  ASSUME IsFiniteSet(Clients), PInv, Running, NEW c \in Clients, ~Holds(c), NEW p \in PageNums,
         NEW b \in Buffers, IsNewBuffer(b), PinReplace(c, p, b), UNCHANGED <<pool, strategy>>
  PROVE  PInv'
<1>1. IInv'
  BY PinReplaceKeepsInv DEF PInv
<1>2. HandlesShaped'
  BY PinShapes DEF PInv, IInv, PinReplace
<1>3. OnlyClockSearches'
  BY DEF PInv, PinReplace, Running, OnlyClockSearches
<1>4. ASSUME strategy = "RS_FIFO", ~unplaced', Honoured(handle, frame)
      PROVE  Honoured(handle', frame')
  <2> DEFINE x == Loaded(p, b, HitNum(0))
  <2>1. x.pageNum = p /\ x.data = b /\ x.fixCount = 1
    BY DEF Loaded
  <2>2. PICK f \in Frames : Victim(f) /\ frame' = [frame EXCEPT ![f] = x]
    BY <1>4 DEF PinReplace
  <2>3. frame[f].fixCount = 0
    BY <1>4, <2>2 DEF Victim, FIFOVictim, Unfixed
  <2>4. \A g \in Frames : frame[g].pageNum \notin {NO_PAGE, p}
    BY DEF PinReplace, Full
  <2>5. TypeOK /\ HandlesShaped /\ handle' = [handle EXCEPT ![c] = [pageNum |-> p, data |-> b]]
    BY DEF PInv, IInv, PinReplace, SetHandle
  <2>6. \A g \in Frames : frame[g].pageNum # p
    BY <2>4
  <2>7. frame' = [frame EXCEPT ![f] = x]
    BY <2>2
  <2> HIDE DEF x
  <2> QED
    BY <1>4, <2>1, <2>3, <2>5, <2>6, <2>7, FreshPageComes
<1>5. unplaced => unplaced'
  BY DEF PinReplace
<1>6. PinsHonoured'
  BY <1>4, <1>5, HonouredMeans DEF PInv
<1> QED
  BY <1>1, <1>2, <1>3, <1>6 DEF PInv

(* A client that comes to a page gets the buffer of its frame. *)
LEMMA PinHitHonours ==
  ASSUME IsFiniteSet(Clients), PInv, Running, NEW c \in Clients, ~Holds(c), NEW p \in PageNums,
         PinHit(c, p), UNCHANGED <<pool, strategy>>
  PROVE  PInv'
<1>1. IInv'
  BY PinHitKeepsInv DEF PInv
<1>2. PICK f \in Frames :
        /\ frame[f].pageNum = p
        /\ frame' = [frame EXCEPT ![f].fixCount = @ + 1, ![f].hitNum = HitNum(@),
                                  ![f].index = IF strategy = "RS_LFU" THEN @ + 1 ELSE @]
        /\ SetHandle(c, p, frame[f].data)
  BY DEF PinHit
<1>3. HandlesShaped' /\ OnlyClockSearches'
  BY <1>2, PinShapes DEF PInv, IInv, PinHit, Running, OnlyClockSearches
<1>4. ASSUME Honoured(handle, frame) PROVE Honoured(handle', frame')
  <2>1. frame \in [Frames -> FrameType] /\ frame[f] \in FrameType /\ TypeOK
    BY DEF PInv, IInv, TypeOK
  <2>2. /\ frame'[f].pageNum = frame[f].pageNum /\ frame'[f].data = frame[f].data
        /\ frame'[f].fixCount = frame[f].fixCount + 1
        /\ \A g \in Frames : g # f => frame'[g] = frame[g]
    BY <1>2, <2>1 DEF FrameType
  <2>3. /\ handle'[c].pageNum = p /\ handle'[c].data = frame[f].data
        /\ handle' = [handle EXCEPT ![c] = [pageNum |-> p, data |-> frame[f].data]]
        /\ \A d \in Clients : d # c => handle'[d] = handle[d]
    BY <1>2, <2>1 DEF SetHandle, TypeOK
  <2>4. /\ Cardinality(HoldersIn(handle', p)) = Cardinality(HoldersIn(handle, p)) + 1
        /\ \A q : q # p => HoldersIn(handle', q) = HoldersIn(handle, q)
    <3> DEFINE b == frame[f].data
    <3>1. handle' = [handle EXCEPT ![c] = [pageNum |-> p, data |-> b]] /\ TypeOK
      BY <2>1, <2>3
    <3> HIDE DEF b
    <3> QED
      BY <3>1, PinCounts
  <2>5. ASSUME NEW g \in Frames
        PROVE  frame'[g].fixCount = Cardinality(HoldersIn(handle', frame'[g].pageNum))
    <3>1. frame[g].fixCount = Cardinality(HoldersIn(handle, frame[g].pageNum))
      BY <1>4 DEF Honoured
    <3>2. CASE g = f
      BY <1>2, <2>2, <2>4, <3>1, <3>2
    <3>3. CASE g # f
      <4>1. frame[g].pageNum # p
        <5>1. g < f \/ f < g
          BY <3>3, FramesExist
        <5> QED
          BY <1>2, <5>1, PagesAreNotEmpty DEF PInv, IInv, OneFramePerPage
      <4> QED
        BY <2>2, <2>4, <3>1, <3>3, <4>1
    <3> QED
      BY <3>2, <3>3
  <2>6. ASSUME NEW d \in Clients, handle'[d] # NoHandle
        PROVE  \E g \in Frames : /\ frame'[g].pageNum = handle'[d].pageNum
                                 /\ frame'[g].data = handle'[d].data
    <3>1. CASE d = c
      BY <1>2, <2>2, <2>3, <3>1
    <3>2. CASE d # c
      <4>1. PICK g \in Frames : frame[g].pageNum = handle[d].pageNum /\ frame[g].data = handle[d].data
        BY <1>4, <2>3, <2>6, <3>2 DEF Honoured
      <4> QED
        BY <2>2, <2>3, <3>2, <4>1
    <3> QED
      BY <3>1, <3>2
  <2> QED
    BY <2>5, <2>6 DEF Honoured
<1>5. PinsHonoured'
  BY <1>4, HonouredMeans DEF PInv, PinHit
<1> QED
  BY <1>1, <1>3, <1>5 DEF PInv

LEMMA PinPageHonours ==
  ASSUME IsFiniteSet(Clients), PInv, NEW c \in Clients, NEW p \in PageNums, pinPage(c, p)
  PROVE  PInv'
BY PinFirstHonours, PinEmptyHonours, PinHitHonours, PinReplaceHonours, BreakHonours
   DEF pinPage, PinBreaks

-----------------------------------------------------------------------------
LEMMA ClockStepHonours == ASSUME PInv, ClockStep PROVE PInv'
<1>1. CASE Break
  BY <1>1, BreakHonours
<1>2. CASE ~Break
  <2>1. IInv'
    BY ClockStepKeepsInv DEF PInv
  <2>2. UNCHANGED <<strategy, handle>> /\ newPage' \in {newPage, NoFrame}
    BY <1>2 DEF ClockStep
  <2>3. strategy = "RS_CLOCK"
    BY DEF ClockStep, PInv, OnlyClockSearches
  <2>4. HandlesShaped' /\ OnlyClockSearches'
    BY <2>2, <2>3 DEF PInv, HandlesShaped, Holds, OnlyClockSearches
  <2> QED
    BY <2>1, <2>2, <2>3, <2>4, HonouredMeans DEF PInv
<1> QED
  BY <1>1, <1>2

(* Steps that move no page and change no fix count. *)
LEMMA MarksHonour ==
  ASSUME PInv, IInv', UNCHANGED <<strategy, newPage, handle, unplaced>>,
         \A f \in Frames : /\ frame'[f].pageNum = frame[f].pageNum
                           /\ frame'[f].data = frame[f].data
                           /\ frame'[f].fixCount = frame[f].fixCount
  PROVE  PInv'
<1>1. HandlesShaped' /\ OnlyClockSearches'
  BY DEF PInv, HandlesShaped, Holds, OnlyClockSearches
<1> QED
  BY <1>1, SameHonoured, HonouredMeans DEF PInv

LEMMA MarkDirtyHonours ==
  ASSUME PInv, NEW c \in Clients, markDirty(c)
  PROVE  PInv'
<1>1. frame \in [Frames -> FrameType]
  BY DEF PInv, IInv, TypeOK
<1>2. \A f \in Frames : /\ frame'[f].pageNum = frame[f].pageNum
                        /\ frame'[f].data = frame[f].data
                        /\ frame'[f].fixCount = frame[f].fixCount
  BY <1>1 DEF markDirty, FrameType
<1>3. IInv'
  BY MarkDirtyKeepsInv DEF PInv
<1> QED
  BY <1>2, <1>3, MarksHonour DEF markDirty, history

LEMMA WriteHonours ==
  ASSUME PInv, NEW S, Write(S)
  PROVE  PInv'
<1>1. CASE Break
  BY <1>1, BreakHonours
<1>2. CASE /\ frame' = [f \in Frames |-> [frame[f] EXCEPT !.dirty = @ /\ f \notin S]]
           /\ UNCHANGED <<pool, strategy, counters, newPage, handle, history>>
  <2>1. frame \in [Frames -> FrameType]
    BY DEF PInv, IInv, TypeOK
  <2>2. \A f \in Frames : /\ frame'[f].pageNum = frame[f].pageNum
                          /\ frame'[f].data = frame[f].data
                          /\ frame'[f].fixCount = frame[f].fixCount
    BY <1>2, <2>1 DEF FrameType
  <2>3. IInv'
    BY WriteKeepsInv DEF PInv
  <2> QED
    BY <1>2, <2>2, <2>3, MarksHonour DEF history
<1> QED
  BY <1>1, <1>2 DEF Write

LEMMA UnpinPageHonours ==
  ASSUME IsFiniteSet(Clients), PInv, NEW c \in Clients, unpinPage(c)
  PROVE  PInv'
<1>1. IInv'
  BY UnpinPageKeepsInv DEF PInv
<1>2. /\ frame \in [Frames -> FrameType] /\ TypeOK /\ Holds(c)
      /\ handle' = [handle EXCEPT ![c] = NoHandle]
      /\ handle'[c] = NoHandle /\ \A d \in Clients : d # c => handle'[d] = handle[d]
  BY DEF PInv, IInv, TypeOK, unpinPage
<1>3. HandlesShaped' /\ OnlyClockSearches'
  BY <1>2 DEF PInv, HandlesShaped, Holds, OnlyClockSearches, unpinPage
<1>4. \A f \in Frames :
        /\ frame'[f].pageNum = frame[f].pageNum /\ frame'[f].data = frame[f].data
        /\ frame[f].pageNum = handle[c].pageNum => frame'[f].fixCount = frame[f].fixCount - 1
        /\ frame[f].pageNum # handle[c].pageNum => frame'[f].fixCount = frame[f].fixCount
  BY <1>2 DEF unpinPage, FramesOf, FrameType
<1>5. ASSUME Honoured(handle, frame) PROVE Honoured(handle', frame')
  <2>1. ASSUME NEW f \in Frames
        PROVE  frame'[f].fixCount = Cardinality(HoldersIn(handle', frame'[f].pageNum))
    <3>1. frame[f].fixCount = Cardinality(HoldersIn(handle, frame[f].pageNum))
      BY <1>5 DEF Honoured
    <3> DEFINE q == frame[f].pageNum
    <3>2. frame'[f].pageNum = q
      BY <1>4
    <3>3. CASE q = handle[c].pageNum
      <4>1. Cardinality(HoldersIn(handle', q)) = Cardinality(HoldersIn(handle, q)) - 1
        BY <1>2, <3>3, UnpinCounts
      <4> QED
        BY <1>4, <3>1, <3>2, <3>3, <4>1
    <3>4. CASE q # handle[c].pageNum
      <4>1. HoldersIn(handle', q) = HoldersIn(handle, q)
        BY <1>2, <3>4, UnpinCounts
      <4> QED
        BY <1>4, <3>1, <3>2, <3>4, <4>1
    <3> QED
      BY <3>3, <3>4
  <2>2. ASSUME NEW d \in Clients, handle'[d] # NoHandle
        PROVE  \E g \in Frames : /\ frame'[g].pageNum = handle'[d].pageNum
                                 /\ frame'[g].data = handle'[d].data
    <3>1. handle'[d] = handle[d]
      BY <1>2, <2>2
    <3>2. PICK g \in Frames : frame[g].pageNum = handle[d].pageNum /\ frame[g].data = handle[d].data
      BY <1>5, <2>2, <3>1 DEF Honoured
    <3> QED
      BY <1>4, <3>1, <3>2
  <2> QED
    BY <2>1, <2>2 DEF Honoured
<1>6. PinsHonoured'
  BY <1>5, HonouredMeans DEF PInv, unpinPage, history
<1> QED
  BY <1>1, <1>3, <1>6 DEF PInv

LEMMA StepHonours == ASSUME IsFiniteSet(Clients), PInv, [Next]_vars PROVE PInv'
<1>1. CASE UNCHANGED vars
  <2>1. IInv'
    BY StepKeepsInv DEF PInv
  <2> QED
    BY <1>1, <2>1, MarksHonour DEF vars, history
<1>2. CASE Next
  BY <1>2, InitBufferPoolHonours, PinPageHonours, ClockStepHonours, MarkDirtyHonours,
     UnpinPageHonours, WriteHonours
     DEF Next, forcePage, forceFlushPool, shutdownBufferPool
<1> QED
  BY <1>1, <1>2

(* Under FIFO, until it is asked for a frame with all frames fixed, fix counts are of
   the clients that hold the page, and a page that is held stays in its buffer, for any
   finite set of clients and whatever strategies the program's pools had before. *)
THEOREM PinsAreHonoured ==
  ASSUME IsFiniteSet(Clients)
  PROVE  Spec => []PinsHonoured
<1>1. Init => PInv
  BY InitHonours
<1>2. PInv /\ [Next]_vars => PInv'
  BY StepHonours
<1>3. PInv => PinsHonoured
  BY DEF PInv
<1> QED
  BY <1>1, <1>2, <1>3, PTL DEF Spec

-----------------------------------------------------------------------------
(* Which page a strategy replaces.  The strategies note what they go by as counts of
   pins and loads; the invariant says what these counts say of the frames. *)

(* While clients take turns, a frame is fixed once if its page is held, or not at all. *)
CountsAlone ==
    ~shared =>
        /\ \A c, d \in Clients : Holds(c) /\ Holds(d) => c = d
        /\ \A f \in Frames :
              frame[f].fixCount = IF HoldersIn(handle, frame[f].pageNum) = {} THEN 0 ELSE 1
        /\ newPage # NoFrame => newPage.fixCount = 1 /\ HoldersIn(handle, newPage.pageNum) # {}

EmptyFrames == \A f \in Frames : frame[f].pageNum = NO_PAGE => frame[f] = NoFrame

(* CLOCK has bits, and its hand comes to the frames that had none set when the search
   began before it comes to those that it cleared itself. *)
Bits == strategy = "RS_CLOCK" => \A f \in Frames : frame[f].hitNum \in {0, 1}

ComesBefore(h, g, f) == (h <= g /\ g < f) \/ (g < f /\ f < h) \/ (f < h /\ h <= g)

Swept ==
    newPage # NoFrame =>
        /\ newPage.hitNum = 1
        /\ spare # {}
        /\ spare = Frames \/ \A f \in spare : frame[f].hitNum = 0
        /\ ClockHand \in Frames => \A f \in Frames \ spare : frame[f].hitNum = 0 =>
              \E g \in spare : ComesBefore(ClockHand, g, f)

(* The frames up to the number of loads have pages. *)
LoadsCounted ==
    frame[0].pageNum # NO_PAGE => \A f \in Frames : frame[f].pageNum # NO_PAGE <=> f <= lastIndex

(* Under LRU the time of the last pin tells the frames apart, and is past. *)
Occupies(f) == frame[f].pageNum # NO_PAGE
UsesOrdered ==
    strategy = "RS_LRU" =>
        \A f \in Frames : Occupies(f) =>
            /\ frame[f].hitNum <= hitCount
            /\ \A g \in Frames : Occupies(g) /\ frame[g].hitNum = frame[f].hitNum => g = f

TInv ==
    /\ IInv
    /\ HandlesShaped /\ OnlyClockSearches
    /\ CountsAlone /\ EmptyFrames
    /\ Bits /\ Swept
    /\ LoadsCounted /\ UsesOrdered

LEMMA NothingSearched ==
  ASSUME newPage' = NoFrame
  PROVE  Swept' /\ OnlyClockSearches'
BY DEF Swept, OnlyClockSearches

LEMMA EmptyIsCounted ==
  ASSUME IInv', frame' = [f \in Frames |-> NoFrame], \A c \in Clients : handle'[c] = NoHandle,
         newPage' = NoFrame
  PROVE  TInv'
<1>1. \A f \in Frames : frame'[f] = NoFrame
  OBVIOUS
<1>2. HandlesShaped' /\ CountsAlone'
  <2>1. \A q : HoldersIn(handle', q) = {}
    BY DEF HoldersIn
  <2> QED
    BY <1>1, <2>1 DEF HandlesShaped, CountsAlone, Holds, NoFrame
<1>3. EmptyFrames' /\ Bits' /\ LoadsCounted' /\ UsesOrdered'
  BY <1>1, FramesExist DEF EmptyFrames, Bits, LoadsCounted, UsesOrdered, Occupies, NoFrame
<1> QED
  BY <1>2, <1>3, NothingSearched DEF TInv

LEMMA BreakIsCounted == ASSUME TInv, Break PROVE TInv'
<1>1. IInv' /\ \A c \in Clients : handle'[c] = NoHandle
  BY BreakKeepsInv DEF TInv, Break
<1> QED
  BY <1>1, EmptyIsCounted DEF Break

LEMMA InitIsCounted == Init => TInv
<1> SUFFICES ASSUME Init PROVE TInv
  OBVIOUS
<1>1. \A f \in Frames : frame[f] = NoFrame /\ frame[f].pageNum = NO_PAGE /\ frame[f].hitNum = 0
  BY DEF Init, NoFrame
<1>2. HandlesShaped /\ CountsAlone
  <2>1. \A q : HoldersIn(handle, q) = {}
    BY DEF HoldersIn, Init
  <2> QED
    BY <1>1, <2>1 DEF HandlesShaped, CountsAlone, Holds, NoFrame, Init
<1>3. EmptyFrames /\ Bits /\ LoadsCounted /\ UsesOrdered
  BY <1>1, FramesExist DEF EmptyFrames, Bits, LoadsCounted, UsesOrdered, Occupies
<1>4. Swept /\ OnlyClockSearches
  BY DEF Swept, OnlyClockSearches, Init
<1> QED
  BY <1>2, <1>3, <1>4, InitInv DEF TInv

LEMMA InitBufferPoolIsCounted ==
  ASSUME TInv, NEW s \in Strategies, initBufferPool(s)
  PROVE  TInv'
<1>1. IInv' /\ \A c \in Clients : handle'[c] = NoHandle
  BY InitBufferPoolKeepsInv DEF TInv, initBufferPool, NoneHeld, Holds
<1>2. newPage' = NoFrame /\ frame' = [f \in Frames |-> NoFrame]
  BY DEF initBufferPool
<1> QED
  BY <1>1, <1>2, EmptyIsCounted

-----------------------------------------------------------------------------
(* A client that takes its turn finds nothing held. *)
LEMMA TurnTaken ==
  ASSUME TypeOK, NEW c \in Clients, NEW p \in PageNums, NEW b, SetHandle(c, p, b), ~shared'
  PROVE  /\ ~shared /\ NoneHeld
         /\ \A d \in Clients : Holds(d)' <=> d = c
         /\ \A q : HoldersIn(handle, q) = {}
         /\ \A q : HoldersIn(handle', q) = IF q = p THEN {c} ELSE {}
<1>1. /\ ~shared /\ NoneHeld
      /\ handle'[c] = [pageNum |-> p, data |-> b]
      /\ \A d \in Clients : d # c => handle'[d] = handle[d]
  BY DEF SetHandle, TypeOK
<1>2. \A d \in Clients : handle[d] = NoHandle
  BY <1>1 DEF NoneHeld, Holds
<1>3. handle'[c] # NoHandle /\ handle'[c].pageNum = p
  BY <1>1, PagesAreNotEmpty DEF NoHandle
<1> QED
  BY <1>1, <1>2, <1>3 DEF HoldersIn, Holds

(* Then all frames are free. *)
LEMMA AllUnfixed ==
  ASSUME CountsAlone, ~shared, \A q : HoldersIn(handle, q) = {}
  PROVE  Unfixed = Frames
BY DEF CountsAlone, Unfixed

LEMMA HandlesStayShaped ==
  ASSUME TInv, NEW c \in Clients, NEW p \in PageNums, NEW b, SetHandle(c, p, b)
  PROVE  HandlesShaped'
BY PinShapes DEF TInv, IInv

(* A page that no frame has comes to frame f. *)
LEMMA FreshKeepsOrders ==
  ASSUME TInv, NEW c \in Clients, NEW p \in PageNums, NEW b \in Buffers, NEW h,
         NEW f \in Frames, frame' = [frame EXCEPT ![f] = Loaded(p, b, h)],
         \A g \in Frames : frame[g].pageNum # p,
         strategy = "RS_LRU" => h = hitCount' /\ \A g \in Frames : Occupies(g) => hitCount < hitCount',
         strategy = "RS_CLOCK" => h \in {0, 1},
         SetHandle(c, p, b), newPage' = NoFrame, UNCHANGED <<pool, strategy>>,
         IInv', LoadsCounted'
  PROVE  TInv'
<1>1. /\ frame'[f] = Loaded(p, b, h)
      /\ \A g \in Frames : g # f => frame'[g] = frame[g]
  BY DEF TInv, IInv, TypeOK
<1>2. Loaded(p, b, h).pageNum = p /\ Loaded(p, b, h).hitNum = h /\ Loaded(p, b, h).fixCount = 1
  BY DEF Loaded
<1>3. CountsAlone'
  <2> SUFFICES ASSUME ~shared' PROVE CountsAlone'
    BY DEF CountsAlone
  <2>1. /\ ~shared
        /\ \A d \in Clients : Holds(d)' <=> d = c
        /\ \A q : HoldersIn(handle, q) = {}
        /\ \A q : HoldersIn(handle', q) = IF q = p THEN {c} ELSE {}
    BY TurnTaken DEF TInv, IInv
  <2>2. \A g \in Frames : frame[g].fixCount = 0
    BY <2>1 DEF TInv, CountsAlone
  <2>3. \A g \in Frames :
          frame'[g].fixCount = IF HoldersIn(handle', frame'[g].pageNum) = {} THEN 0 ELSE 1
    BY <1>1, <1>2, <2>1, <2>2
  <2> QED
    BY <2>1, <2>3 DEF CountsAlone
<1>4. EmptyFrames' /\ Bits'
  BY <1>1, <1>2, PagesAreNotEmpty DEF TInv, EmptyFrames, Bits
<1>5. UsesOrdered'
  <2> SUFFICES ASSUME strategy = "RS_LRU" PROVE UsesOrdered'
    BY DEF UsesOrdered
  <2>1. \A g \in Frames : frame[g].hitNum \in Nat /\ hitCount \in Nat /\ hitCount' \in Nat
    BY DEF TInv, IInv, TypeOK, FrameType
  <2>2. \A g \in Frames : Occupies(g) => frame[g].hitNum < hitCount'
    BY <2>1 DEF TInv, UsesOrdered
  <2>3. \A g \in Frames : g # f /\ Occupies(g)' => frame'[g].hitNum < hitCount'
    BY <1>1, <2>2 DEF Occupies
  <2>4. frame'[f].hitNum = hitCount'
    BY <1>1, <1>2
  <2>5. ASSUME NEW g \in Frames, Occupies(g)',
               NEW k \in Frames, Occupies(k)', frame'[k].hitNum = frame'[g].hitNum
        PROVE  k = g
    <3>1. CASE g = f \/ k = f
      BY <2>1, <2>3, <2>4, <2>5, <3>1
    <3>2. CASE g # f /\ k # f
      BY <1>1, <2>5, <3>2 DEF TInv, UsesOrdered, Occupies
    <3> QED
      BY <3>1, <3>2
  <2>6. ASSUME NEW g \in Frames, Occupies(g)' PROVE frame'[g].hitNum <= hitCount'
    BY <1>1, <2>1, <2>3, <2>4, <2>6
  <2> QED
    BY <2>5, <2>6 DEF UsesOrdered
<1>6. HandlesShaped'
  BY HandlesStayShaped
<1> QED
  BY <1>3, <1>4, <1>5, <1>6, NothingSearched DEF TInv

LEMMA PinFirstIsCounted ==
  ASSUME TInv, Running, NEW c \in Clients, NEW p \in PageNums, NEW b \in Buffers,
         IsNewBuffer(b), PinFirst(c, p, b), UNCHANGED <<pool, strategy>>
  PROVE  TInv'
<1>1. IInv'
  BY PinFirstKeepsInv DEF TInv
<1>2. \A g \in Frames : frame[g].pageNum = NO_PAGE
  <2> SUFFICES ASSUME NEW g \in Frames, frame[g].pageNum # NO_PAGE PROVE FALSE
    OBVIOUS
  <2>1. 0 < g
    BY FramesExist DEF PinFirst
  <2> QED
    BY <2>1, FramesExist DEF TInv, IInv, OneFramePerPage, PinFirst
<1>3. /\ 0 \in Frames /\ frame' = [frame EXCEPT ![0] = Loaded(p, b, 0)]
      /\ \A g \in Frames : frame[g].pageNum # p
      /\ SetHandle(c, p, b) /\ newPage' = NoFrame
  BY <1>2, PagesAreNotEmpty, FramesExist DEF PinFirst, Running
<1>4. LoadsCounted'
  <2>1. /\ frame'[0].pageNum = p
        /\ \A g \in Frames : g # 0 => frame'[g] = frame[g]
    BY <1>3 DEF TInv, IInv, TypeOK, Loaded
  <2> QED
    BY <1>2, <2>1, FramesExist, PagesAreNotEmpty DEF LoadsCounted, PinFirst
<1>5. hitCount' = 0 /\ \A g \in Frames : ~Occupies(g)
  BY <1>2 DEF PinFirst, Occupies
<1> QED
  BY <1>1, <1>3, <1>4, <1>5, FreshKeepsOrders

LEMMA HitNumIs ==
  ASSUME TInv, NEW n, hitCount' = hitCount + 1
  PROVE  /\ strategy = "RS_LRU" =>
              HitNum(n) = hitCount' /\ \A g \in Frames : Occupies(g) => hitCount < hitCount'
         /\ strategy = "RS_CLOCK" => HitNum(n) = 1
BY DEF HitNum, TInv, IInv, TypeOK

LEMMA PinEmptyIsCounted ==
  ASSUME TInv, Running, NEW c \in Clients, NEW p \in PageNums, NEW b \in Buffers,
         IsNewBuffer(b), PinEmpty(c, p, b), UNCHANGED <<pool, strategy>>
  PROVE  TInv'
<1>1. IInv'
  BY PinEmptyKeepsInv DEF TInv
<1>2. PICK f \in Frames : /\ StopsAt(f, p) /\ frame[f].pageNum = NO_PAGE
                          /\ frame' = [frame EXCEPT ![f] = Loaded(p, b, HitNum(0))]
  BY DEF PinEmpty
<1>3. \A g \in Frames : g < f => frame[g].pageNum \notin {NO_PAGE, p}
  BY <1>2, FramesExist DEF StopsAt, Frames
<1>4. \A g \in Frames : f < g => frame[g].pageNum = NO_PAGE
  BY <1>2 DEF TInv, IInv, OneFramePerPage
<1>5. /\ \A g \in Frames : frame[g].pageNum # p
      /\ SetHandle(c, p, b) /\ newPage' = NoFrame
  BY <1>2, <1>3, <1>4, PagesAreNotEmpty, FramesExist DEF PinEmpty, Running
<1>6. LoadsCounted'
  <2>1. /\ frame'[f].pageNum = p /\ p # NO_PAGE
        /\ \A g \in Frames : g # f => frame'[g] = frame[g]
    BY <1>2, PagesAreNotEmpty DEF TInv, IInv, TypeOK, Loaded
  <2>2. frame[0].pageNum # NO_PAGE /\ lastIndex' = lastIndex + 1 /\ lastIndex \in Nat
    BY DEF PinEmpty, TInv, IInv, TypeOK
  <2>3. f # 0 /\ f - 1 \in Frames /\ f - 1 < f
    <3>1. f # 0
      BY <1>2, <2>2
    <3> QED
      BY <3>1, FramesAssumption DEF Frames
  <2>4. f = lastIndex + 1
    <3>1. f - 1 <= lastIndex
      BY <1>3, <2>2, <2>3 DEF TInv, LoadsCounted
    <3>2. ~(f <= lastIndex)
      BY <1>2, <2>2 DEF TInv, LoadsCounted
    <3> QED
      BY <2>2, <3>1, <3>2, FramesExist
  <2>5. ASSUME NEW g \in Frames PROVE frame'[g].pageNum # NO_PAGE <=> g <= lastIndex'
    <3>1. frame[g].pageNum # NO_PAGE <=> g <= lastIndex
      BY <2>2 DEF TInv, LoadsCounted
    <3> QED
      BY <2>1, <2>2, <2>4, <3>1, FramesExist
  <2> QED
    BY <2>5 DEF LoadsCounted
<1>7. hitCount' = hitCount + 1
  BY DEF PinEmpty
<1> QED
  BY <1>1, <1>2, <1>5, <1>6, <1>7, HitNumIs, FreshKeepsOrders

(* The frame least used when the search of CLOCK begins. *)
LEMMA SearchBegins ==
  ASSUME TInv, strategy = "RS_CLOCK", NEW p, NEW b,
         newPage' = Loaded(p, b, HitNum(0)), UNCHANGED frame, hitCount' = hitCount + 1,
         spare' = {f \in Frames : \A g \in Frames : frame[f].hitNum <= frame[g].hitNum}
  PROVE  Swept'
<1>1. \A f \in Frames : frame[f].hitNum \in {0, 1}
  BY DEF TInv, Bits
<1>2. newPage'.hitNum = 1
  BY HitNumIs DEF Loaded
<1>3. CASE \A f \in Frames : frame[f].hitNum = 1
  <2>1. spare' = Frames
    BY <1>3
  <2> QED
    BY <1>2, <2>1, FramesExist DEF Swept
<1>4. CASE \E f \in Frames : frame[f].hitNum = 0
  <2>1. spare' = {f \in Frames : frame[f].hitNum = 0}
    BY <1>1, <1>4
  <2>2. spare' # {} /\ (\A f \in spare' : frame[f].hitNum = 0)
        /\ (\A f \in Frames \ spare' : frame[f].hitNum # 0)
    BY <1>4, <2>1
  <2> QED
    BY <1>2, <2>2 DEF Swept
<1> QED
  BY <1>1, <1>3, <1>4

LEMMA PinReplaceIsCounted ==
  ASSUME TInv, Running, NEW c \in Clients, NEW p \in PageNums, NEW b \in Buffers,
         IsNewBuffer(b), PinReplace(c, p, b), UNCHANGED <<pool, strategy>>
  PROVE  TInv'
<1>1. IInv'
  BY PinReplaceKeepsInv DEF TInv
<1>2. /\ \A g \in Frames : frame[g].pageNum \notin {NO_PAGE, p}
      /\ SetHandle(c, p, b) /\ hitCount' = hitCount + 1 /\ lastIndex' = lastIndex + 1
      /\ lastIndex \in Nat
  BY DEF PinReplace, Full, TInv, IInv, TypeOK
<1>3. \A g \in Frames : g <= lastIndex'
  BY <1>2, FramesExist DEF TInv, LoadsCounted
<1>4. CASE \E f \in Frames : frame' = [frame EXCEPT ![f] = Loaded(p, b, HitNum(0))] /\ UNCHANGED newPage
  <2>1. PICK f \in Frames : frame' = [frame EXCEPT ![f] = Loaded(p, b, HitNum(0))] /\ UNCHANGED newPage
    BY <1>4
  <2>2. newPage' = NoFrame
    BY <2>1 DEF Running
  <2>3. LoadsCounted'
    <3>1. /\ frame'[f].pageNum = p /\ p # NO_PAGE
          /\ \A g \in Frames : g # f => frame'[g] = frame[g]
      BY <2>1, PagesAreNotEmpty DEF TInv, IInv, TypeOK, Loaded
    <3> QED
      BY <1>2, <1>3, <3>1 DEF LoadsCounted
  <2>4. \A g \in Frames : frame[g].pageNum # p
    BY <1>2
  <2> QED
    BY <1>1, <1>2, <2>1, <2>2, <2>3, <2>4, HitNumIs, FreshKeepsOrders
<1>5. ASSUME UNCHANGED frame, \/ newPage' = newPage
                              \/ /\ strategy = "RS_CLOCK" /\ newPage' = Loaded(p, b, HitNum(0))
                                 /\ spare' = {f \in Frames : \A g \in Frames : frame[f].hitNum <= frame[g].hitNum}
      PROVE  TInv'
  <2>1. HandlesShaped'
    BY <1>2, HandlesStayShaped
  <2>2. CountsAlone'
    <3> SUFFICES ASSUME ~shared' PROVE CountsAlone'
      BY DEF CountsAlone
    <3>1. /\ ~shared
          /\ \A d \in Clients : Holds(d)' <=> d = c
          /\ \A q : HoldersIn(handle, q) = {}
          /\ \A q : HoldersIn(handle', q) = IF q = p THEN {c} ELSE {}
      BY <1>2, TurnTaken DEF TInv, IInv
    <3>2. \A g \in Frames : frame[g].fixCount = 0 /\ frame'[g] = frame[g] /\ frame[g].pageNum # p
      BY <1>2, <1>5, <3>1 DEF TInv, CountsAlone
    <3>3. newPage' # NoFrame => newPage'.fixCount = 1 /\ newPage'.pageNum = p
      BY <1>5 DEF Loaded, Running
    <3> QED
      BY <3>1, <3>2, <3>3 DEF CountsAlone
  <2>3. EmptyFrames' /\ Bits'
    BY <1>5 DEF TInv, EmptyFrames, Bits
  <2>4. OnlyClockSearches' /\ Swept'
    <3>1. CASE newPage' = newPage
      BY <3>1, NothingSearched DEF Running
    <3>2. CASE newPage' # newPage
      BY <1>2, <1>5, <3>2, SearchBegins DEF OnlyClockSearches
    <3> QED
      BY <3>1, <3>2
  <2>5. LoadsCounted'
    BY <1>2, <1>3, <1>5 DEF LoadsCounted
  <2>6. UsesOrdered'
    <3>1. \A g \in Frames : frame[g].hitNum \in Nat /\ hitCount \in Nat
      BY DEF TInv, IInv, TypeOK, FrameType
    <3> QED
      BY <1>2, <1>5, <3>1 DEF TInv, UsesOrdered, Occupies
  <2> QED
    BY <1>1, <2>1, <2>2, <2>3, <2>4, <2>5, <2>6 DEF TInv
<1> QED
  BY <1>4, <1>5 DEF PinReplace

LEMMA PinHitIsCounted ==
  ASSUME TInv, Running, NEW c \in Clients, NEW p \in PageNums,
         PinHit(c, p), UNCHANGED <<pool, strategy>>
  PROVE  TInv'
<1>1. IInv'
  BY PinHitKeepsInv DEF TInv
<1>2. PICK f \in Frames :
        /\ frame[f].pageNum = p
        /\ frame' = [frame EXCEPT ![f].fixCount = @ + 1, ![f].hitNum = HitNum(@),
                                  ![f].index = IF strategy = "RS_LFU" THEN @ + 1 ELSE @]
        /\ SetHandle(c, p, frame[f].data)
  BY DEF PinHit
<1>3. /\ frame \in [Frames -> FrameType] /\ frame[f] \in FrameType /\ p # NO_PAGE
      /\ hitCount \in Nat /\ hitCount' = hitCount + 1 /\ newPage' = NoFrame
      /\ lastIndex' = lastIndex
  BY PagesAreNotEmpty DEF TInv, IInv, TypeOK, PinHit, Running
<1>4. /\ frame'[f].pageNum = p /\ frame'[f].hitNum = HitNum(frame[f].hitNum)
      /\ frame'[f].fixCount = frame[f].fixCount + 1
      /\ \A g \in Frames : g # f => frame'[g] = frame[g]
  BY <1>2, <1>3 DEF FrameType
<1>5. \A g \in Frames : g # f => frame[g].pageNum # p
  <2> SUFFICES ASSUME NEW g \in Frames, g # f, frame[g].pageNum = p PROVE FALSE
    OBVIOUS
  <2>1. g < f \/ f < g
    BY FramesExist
  <2> QED
    BY <1>2, <1>3, <2>1 DEF TInv, IInv, OneFramePerPage
<1>6. CountsAlone'
  <2> SUFFICES ASSUME ~shared' PROVE CountsAlone'
    BY DEF CountsAlone
  <2>1. /\ ~shared
        /\ \A d \in Clients : Holds(d)' <=> d = c
        /\ \A q : HoldersIn(handle, q) = {}
        /\ \A q : HoldersIn(handle', q) = IF q = p THEN {c} ELSE {}
    <3> DEFINE b == frame[f].data
    <3>1. SetHandle(c, p, b) /\ TypeOK
      BY <1>2 DEF TInv, IInv
    <3> HIDE DEF b
    <3> QED
      BY <3>1, TurnTaken
  <2>2. \A g \in Frames : frame[g].fixCount = 0
    BY <2>1 DEF TInv, CountsAlone
  <2>3. \A g \in Frames :
          frame'[g].fixCount = IF HoldersIn(handle', frame'[g].pageNum) = {} THEN 0 ELSE 1
    BY <1>4, <1>5, <2>1, <2>2
  <2> QED
    BY <1>3, <2>1, <2>3 DEF CountsAlone
<1>7. EmptyFrames' /\ Bits' /\ LoadsCounted'
  <2>1. \A g \in Frames : frame'[g].pageNum = frame[g].pageNum /\ 0 \in Frames
    BY <1>2, <1>4, FramesExist
  <2>2. EmptyFrames' /\ LoadsCounted'
    BY <1>3, <1>4, <2>1 DEF TInv, EmptyFrames, LoadsCounted
  <2>3. Bits'
    BY <1>3, <1>4, HitNumIs DEF TInv, Bits
  <2> QED
    BY <2>2, <2>3
<1>8. UsesOrdered'
  <2> SUFFICES ASSUME strategy = "RS_LRU" PROVE UsesOrdered'
    BY DEF UsesOrdered
  <2>1. \A g \in Frames : frame[g].hitNum \in Nat
    BY <1>3 DEF FrameType
  <2>2. \A g \in Frames : Occupies(g)' <=> Occupies(g)
    BY <1>2, <1>4 DEF Occupies
  <2>3. \A g \in Frames : g # f /\ Occupies(g)' => frame'[g].hitNum < hitCount'
    BY <1>3, <1>4, <2>1, <2>2 DEF TInv, UsesOrdered
  <2>4. frame'[f].hitNum = hitCount'
    BY <1>3, <1>4, HitNumIs
  <2>5. ASSUME NEW g \in Frames, Occupies(g)',
               NEW k \in Frames, Occupies(k)', frame'[k].hitNum = frame'[g].hitNum
        PROVE  k = g
    <3>1. CASE g = f \/ k = f
      BY <1>3, <2>3, <2>4, <2>5, <3>1
    <3>2. CASE g # f /\ k # f
      BY <1>4, <2>2, <2>5, <3>2 DEF TInv, UsesOrdered
    <3> QED
      BY <3>1, <3>2
  <2>6. ASSUME NEW g \in Frames, Occupies(g)' PROVE frame'[g].hitNum <= hitCount'
    BY <1>3, <1>4, <2>1, <2>3, <2>4, <2>6
  <2> QED
    BY <2>5, <2>6 DEF UsesOrdered
<1>9. HandlesShaped'
  BY <1>2, HandlesStayShaped
<1> QED
  BY <1>1, <1>3, <1>6, <1>7, <1>8, <1>9, NothingSearched DEF TInv

LEMMA PinPageIsCounted ==
  ASSUME TInv, NEW c \in Clients, NEW p \in PageNums, pinPage(c, p)
  PROVE  TInv'
BY PinFirstIsCounted, PinEmptyIsCounted, PinHitIsCounted, PinReplaceIsCounted, BreakIsCounted
   DEF pinPage, PinBreaks

-----------------------------------------------------------------------------
(* What CLOCK does in a round. *)
ClockTakes ==
    /\ ClockHand \in Frames /\ clockPtr' = ClockHand + 1
    /\ frame[ClockHand].hitNum = 0
    /\ frame' = [frame EXCEPT ![ClockHand] = newPage] /\ newPage' = NoFrame /\ spare' = {}
    /\ UNCHANGED <<pool, strategy, lastIndex, hitCount, lfuPtr, handle, shared, unplaced>>

ClockClears ==
    /\ ClockHand \in Frames /\ clockPtr' = ClockHand + 1
    /\ frame[ClockHand].hitNum # 0
    /\ frame' = BitCleared(ClockHand) /\ UNCHANGED <<newPage, spare>>
    /\ UNCHANGED <<pool, strategy, lastIndex, hitCount, lfuPtr, handle, shared, unplaced>>

LEMMA ClockSteps ==
  ASSUME ClockStep
  PROVE  newPage # NoFrame /\ (Break \/ ClockTakes \/ ClockClears)
BY DEF ClockStep, ClockTakes, ClockClears

(* The hand that follows hand h. *)
LEMMA HandMoves ==
  ASSUME NEW h \in Frames, clockPtr' = h + 1
  PROVE  ClockHand' = IF h + 1 = NumFrames THEN 0 ELSE h + 1
<1>1. (h + 1) % NumFrames = 0 <=> h + 1 = NumFrames
  <2> h \in 0 .. NumFrames - 1 /\ NumFrames \in Nat \ {0}
    BY FramesAssumption DEF Frames
  <2> QED
    OBVIOUS
<1> QED
  BY <1>1, FramesExist DEF ClockHand

(* The frame that is taken was one of the least used when the search began. *)
LEMMA ClockTakesSpare ==
  ASSUME TInv, newPage # NoFrame, ClockTakes
  PROVE  ClockHand \in spare
<1> SUFFICES ASSUME ClockHand \notin spare PROVE FALSE
  OBVIOUS
<1>1. ClockHand \in Frames /\ frame[ClockHand].hitNum = 0
  BY DEF ClockTakes
<1> DEFINE h == ClockHand
<1>2. PICK g \in spare : ComesBefore(h, g, h)
  BY <1>1 DEF TInv, Swept
<1>3. g \in Nat /\ h \in Nat
  BY <1>1, FramesExist DEF TInv, IInv, TypeOK
<1> HIDE DEF h
<1> QED
  BY <1>2, <1>3 DEF ComesBefore

LEMMA TakingIsCounted == ASSUME TInv, newPage # NoFrame, ClockTakes PROVE TInv'
<1> DEFINE f == ClockHand
<1>1. /\ f \in Frames /\ frame' = [frame EXCEPT ![f] = newPage] /\ newPage' = NoFrame
      /\ strategy' = strategy /\ strategy = "RS_CLOCK"
      /\ UNCHANGED <<handle, shared, lastIndex, hitCount>>
  BY DEF ClockTakes, TInv, OnlyClockSearches
<1> HIDE DEF f
<1>2. frame'[f] = newPage /\ \A g \in Frames : g # f => frame'[g] = frame[g]
  BY <1>1 DEF TInv, IInv, TypeOK
<1>3. \A g \in Frames : frame[g].pageNum # NO_PAGE
  BY DEF TInv, IInv, Searching
<1>4. newPage.pageNum # NO_PAGE /\ newPage.hitNum = 1
  BY DEF TInv, IInv, Searching, Swept
<1>5. IInv'
  <2>1. ClockStep
    BY DEF ClockStep, ClockTakes
  <2> QED
    BY <2>1, ClockStepKeepsInv DEF TInv
<1>6. HandlesShaped'
  BY <1>1 DEF TInv, HandlesShaped, Holds
<1>7. CountsAlone'
  <2>1. ~shared => newPage.fixCount = 1 /\ HoldersIn(handle, newPage.pageNum) # {}
    BY DEF TInv, CountsAlone
  <2> QED
    BY <1>1, <1>2, <2>1 DEF TInv, CountsAlone, Holds
<1>8. EmptyFrames' /\ Bits' /\ LoadsCounted' /\ UsesOrdered'
  <2>1. EmptyFrames' /\ Bits'
    BY <1>1, <1>2, <1>4 DEF TInv, EmptyFrames, Bits
  <2>2. \A g \in Frames : frame'[g].pageNum # NO_PAGE /\ 0 \in Frames
    BY <1>2, <1>3, <1>4, FramesExist
  <2>3. LoadsCounted'
    BY <1>1, <1>3, <2>2 DEF TInv, LoadsCounted
  <2>4. UsesOrdered'
    BY <1>1 DEF UsesOrdered
  <2> QED
    BY <2>1, <2>3, <2>4
<1> QED
  BY <1>1, <1>5, <1>6, <1>7, <1>8, NothingSearched DEF TInv

(* A frame that is cleared is now the last that the hand comes to. *)
LEMMA ClearingSweeps == ASSUME TInv, newPage # NoFrame, ClockClears PROVE Swept'
<1> DEFINE h == ClockHand
           k == ClockHand'
<1>1. /\ h \in Frames /\ frame[h].hitNum # 0 /\ frame' = [frame EXCEPT ![h].hitNum = 0]
      /\ newPage' = newPage /\ spare' = spare /\ clockPtr' = h + 1
  BY DEF ClockClears, BitCleared
<1>2. k = IF h + 1 = NumFrames THEN 0 ELSE h + 1
  <2>1. h \in Frames /\ clockPtr' = h + 1
    BY <1>1
  <2> HIDE DEF h
  <2> QED
    BY <2>1, HandMoves
<1>3. /\ newPage.hitNum = 1 /\ spare # {} /\ spare \subseteq Frames
      /\ spare = Frames \/ \A f \in spare : frame[f].hitNum = 0
      /\ \A f \in Frames \ spare : frame[f].hitNum = 0 => \E g \in spare : ComesBefore(h, g, f)
  BY <1>1 DEF TInv, IInv, TypeOK, Swept
<1> HIDE DEF h, k
<1>4. /\ frame'[h].hitNum = 0
      /\ \A f \in Frames : f # h => frame'[f] = frame[f]
  BY <1>1 DEF TInv, IInv, TypeOK, FrameType
<1>5. CASE spare = Frames
  BY <1>1, <1>3, <1>5 DEF Swept
<1>6. CASE spare # Frames
  <2>1. h \notin spare /\ \A f \in spare : frame'[f].hitNum = 0
    BY <1>1, <1>3, <1>4, <1>6
  <2>2. ASSUME NEW f \in Frames \ spare, frame'[f].hitNum = 0
        PROVE  \E g \in spare : ComesBefore(k, g, f)
    <3>1. CASE f = h
      <4>1. PICK g \in spare : TRUE
        BY <1>3
      <4>2. g \in Frames /\ g # h
        BY <1>3, <2>1
      <4>3. g \in Nat /\ g < NumFrames /\ h \in Nat /\ h < NumFrames /\ NumFrames \in Nat
        BY <1>1, <4>2, FramesExist, FramesAssumption
      <4>4. ComesBefore(k, g, h)
        BY <1>2, <4>2, <4>3 DEF ComesBefore
      <4> QED
        BY <3>1, <4>4
    <3>2. CASE f # h
      <4>1. PICK g \in spare : ComesBefore(h, g, f)
        BY <1>3, <1>4, <2>2, <3>2
      <4>2. g \in Frames /\ g # h
        BY <1>3, <2>1
      <4>3. /\ g \in Nat /\ g < NumFrames /\ h \in Nat /\ h < NumFrames /\ NumFrames \in Nat
            /\ f \in Nat /\ f < NumFrames
        BY <1>1, <4>2, FramesExist, FramesAssumption
      <4>4. ComesBefore(k, g, f)
        BY <1>2, <3>2, <4>1, <4>2, <4>3 DEF ComesBefore
      <4> QED
        BY <4>4
    <3> QED
      BY <3>1, <3>2
  <2>3. newPage'.hitNum = 1 /\ spare' # {} /\ \A f \in spare' : frame'[f].hitNum = 0
    BY <1>1, <1>3, <2>1
  <2>4. \A f \in Frames \ spare' : frame'[f].hitNum = 0 => \E g \in spare' : ComesBefore(k, g, f)
    BY <1>1, <2>2
  <2> QED
    BY <2>3, <2>4 DEF Swept, k
<1> QED
  BY <1>5, <1>6

(* Steps that leave pages, uses and what is searched as they are. *)
LEMMA SameOrders ==
  ASSUME TInv, UNCHANGED <<strategy, hitCount, lastIndex>>,
         \A f \in Frames : frame'[f].pageNum = frame[f].pageNum /\ frame'[f].hitNum = frame[f].hitNum
  PROVE  LoadsCounted' /\ UsesOrdered' /\ Bits'
BY FramesExist DEF TInv, LoadsCounted, UsesOrdered, Bits, Occupies

LEMMA ClearingIsCounted == ASSUME TInv, newPage # NoFrame, ClockClears PROVE TInv'
<1> DEFINE f == ClockHand
<1>1. /\ f \in Frames /\ frame' = [frame EXCEPT ![f].hitNum = 0]
      /\ UNCHANGED <<handle, shared, strategy, lastIndex, hitCount, newPage>>
      /\ strategy = "RS_CLOCK"
  BY DEF ClockClears, BitCleared, TInv, OnlyClockSearches
<1> HIDE DEF f
<1>2. /\ \A g \in Frames : frame'[g].pageNum = frame[g].pageNum /\ frame'[g].fixCount = frame[g].fixCount
      /\ frame'[f].hitNum = 0 /\ \A g \in Frames : g # f => frame'[g] = frame[g]
  BY <1>1 DEF TInv, IInv, TypeOK, FrameType
<1>3. IInv'
  <2>1. ClockStep
    BY DEF ClockStep, ClockClears
  <2> QED
    BY <2>1, ClockStepKeepsInv DEF TInv
<1>4. HandlesShaped' /\ OnlyClockSearches'
  BY <1>1 DEF TInv, HandlesShaped, Holds, OnlyClockSearches
<1>5. CountsAlone'
  BY <1>1, <1>2 DEF TInv, CountsAlone, Holds
<1>6. Bits' /\ UsesOrdered'
  BY <1>1, <1>2 DEF TInv, Bits, UsesOrdered
<1>7. EmptyFrames'
  <2>1. \A g \in Frames : frame[g].pageNum # NO_PAGE
    BY DEF TInv, IInv, Searching
  <2> QED
    BY <1>2, <2>1 DEF EmptyFrames
<1>8. LoadsCounted'
  BY <1>1, <1>2, FramesExist DEF TInv, LoadsCounted
<1> QED
  BY <1>3, <1>4, <1>5, <1>6, <1>7, <1>8, ClearingSweeps DEF TInv

LEMMA ClockStepIsCounted == ASSUME TInv, ClockStep PROVE TInv'
BY ClockSteps, BreakIsCounted, TakingIsCounted, ClearingIsCounted

-----------------------------------------------------------------------------
LEMMA NothingRunning ==
  ASSUME Running
  PROVE  newPage = NoFrame
BY DEF Running

LEMMA MarksAreCounted ==
  ASSUME TInv, IInv', UNCHANGED <<strategy, counters, newPage, handle, shared, spare>>,
         \A f \in Frames : /\ frame'[f].pageNum = frame[f].pageNum
                           /\ frame'[f].hitNum = frame[f].hitNum
                           /\ frame'[f].fixCount = frame[f].fixCount
                           /\ frame[f] = NoFrame => frame'[f] = NoFrame
  PROVE  TInv'
<1>1. HandlesShaped' /\ OnlyClockSearches' /\ CountsAlone'
  BY DEF TInv, HandlesShaped, Holds, OnlyClockSearches, CountsAlone
<1>2. EmptyFrames'
  BY DEF TInv, EmptyFrames
<1>3. Swept'
  <2>1. ClockHand' = ClockHand
    BY DEF counters, ClockHand
  <2> QED
    BY <2>1 DEF TInv, IInv, TypeOK, Swept
<1>4. Bits' /\ LoadsCounted' /\ UsesOrdered'
  BY SameOrders DEF counters
<1> QED
  BY <1>1, <1>2, <1>3, <1>4 DEF TInv

LEMMA MarkDirtyIsCounted ==
  ASSUME TInv, NEW c \in Clients, markDirty(c)
  PROVE  TInv'
<1>1. frame \in [Frames -> FrameType] /\ handle[c].pageNum # NO_PAGE
  BY DEF TInv, IInv, TypeOK, HandlesShaped, markDirty
<1>2. \A f \in Frames : /\ frame'[f].pageNum = frame[f].pageNum
                        /\ frame'[f].hitNum = frame[f].hitNum
                        /\ frame'[f].fixCount = frame[f].fixCount
                        /\ frame[f] = NoFrame => frame'[f] = NoFrame
  <2> SUFFICES ASSUME NEW f \in Frames
               PROVE  /\ frame'[f].pageNum = frame[f].pageNum
                      /\ frame'[f].hitNum = frame[f].hitNum
                      /\ frame'[f].fixCount = frame[f].fixCount
                      /\ frame[f] = NoFrame => frame'[f] = NoFrame
    OBVIOUS
  <2>1. frame'[f] = [frame[f] EXCEPT !.dirty = @ \/ f \in FramesOf(handle[c].pageNum)]
        /\ frame[f] \in FrameType
    BY <1>1 DEF markDirty
  <2>2. frame[f] = NoFrame => f \notin FramesOf(handle[c].pageNum)
    BY <1>1 DEF FramesOf, NoFrame
  <2> QED
    BY <2>1, <2>2 DEF FrameType, NoFrame
<1>3. IInv'
  BY MarkDirtyKeepsInv DEF TInv
<1> QED
  BY <1>2, <1>3, MarksAreCounted DEF markDirty, history

LEMMA WriteIsCounted ==
  ASSUME TInv, NEW S, Write(S)
  PROVE  TInv'
<1>1. CASE Break
  BY <1>1, BreakIsCounted
<1>2. CASE /\ frame' = [f \in Frames |-> [frame[f] EXCEPT !.dirty = @ /\ f \notin S]]
           /\ UNCHANGED <<pool, strategy, counters, newPage, handle, history>>
  <2>1. frame \in [Frames -> FrameType]
    BY DEF TInv, IInv, TypeOK
  <2>2. \A f \in Frames : /\ frame'[f].pageNum = frame[f].pageNum
                          /\ frame'[f].hitNum = frame[f].hitNum
                          /\ frame'[f].fixCount = frame[f].fixCount
                          /\ frame[f] = NoFrame => frame'[f] = NoFrame
    <3> SUFFICES ASSUME NEW f \in Frames
                 PROVE  /\ frame'[f].pageNum = frame[f].pageNum
                        /\ frame'[f].hitNum = frame[f].hitNum
                        /\ frame'[f].fixCount = frame[f].fixCount
                        /\ frame[f] = NoFrame => frame'[f] = NoFrame
      OBVIOUS
    <3>1. frame'[f] = [frame[f] EXCEPT !.dirty = @ /\ f \notin S] /\ frame[f] \in FrameType
      BY <1>2, <2>1
    <3> QED
      BY <3>1 DEF FrameType, NoFrame
  <2>3. IInv'
    BY WriteKeepsInv DEF TInv
  <2> QED
    BY <1>2, <2>2, <2>3, MarksAreCounted DEF history
<1> QED
  BY <1>1, <1>2 DEF Write

LEMMA UnpinPageIsCounted ==
  ASSUME TInv, NEW c \in Clients, unpinPage(c)
  PROVE  TInv'
<1>1. IInv'
  BY UnpinPageKeepsInv DEF TInv
<1>2. /\ frame \in [Frames -> FrameType] /\ Holds(c) /\ newPage = NoFrame
      /\ handle'[c] = NoHandle /\ \A d \in Clients : d # c => handle'[d] = handle[d]
      /\ UNCHANGED <<strategy, counters, newPage, shared>>
      /\ handle[c].pageNum # NO_PAGE
  BY DEF TInv, IInv, TypeOK, HandlesShaped, unpinPage, history, Running
<1>3. \A f \in Frames :
        /\ frame'[f].pageNum = frame[f].pageNum /\ frame'[f].hitNum = frame[f].hitNum
        /\ frame[f].pageNum = handle[c].pageNum => frame'[f].fixCount = frame[f].fixCount - 1
        /\ frame[f].pageNum # handle[c].pageNum => frame'[f] = frame[f]
  BY <1>2 DEF unpinPage, FramesOf, FrameType
<1>4. HandlesShaped' /\ OnlyClockSearches' /\ Swept'
  BY <1>2, NothingSearched DEF TInv, HandlesShaped, Holds
<1>5. EmptyFrames'
  BY <1>2, <1>3 DEF TInv, EmptyFrames
<1>6. CountsAlone'
  <2> SUFFICES ASSUME ~shared PROVE CountsAlone'
    BY <1>2 DEF CountsAlone
  <2>1. \A d \in Clients : handle[d] # NoHandle <=> d = c
    BY <1>2 DEF TInv, CountsAlone, Holds
  <2>2. \A q : /\ HoldersIn(handle, q) = IF q = handle[c].pageNum THEN {c} ELSE {}
               /\ HoldersIn(handle', q) = {}
    BY <1>2, <2>1 DEF HoldersIn
  <2>3. \A f \in Frames : frame[f].fixCount = IF frame[f].pageNum = handle[c].pageNum THEN 1 ELSE 0
    BY <2>2 DEF TInv, CountsAlone
  <2>4. \A f \in Frames : frame'[f].fixCount = 0
    BY <1>3, <2>3
  <2>5. \A d \in Clients : ~Holds(d)'
    BY <1>2, <2>1 DEF Holds
  <2> QED
    BY <1>2, <2>2, <2>4, <2>5 DEF CountsAlone
<1>7. Bits' /\ LoadsCounted' /\ UsesOrdered'
  BY <1>2, <1>3, SameOrders DEF counters
<1> QED
  BY <1>1, <1>4, <1>5, <1>6, <1>7 DEF TInv

LEMMA StepIsCounted == ASSUME TInv, [Next]_vars PROVE TInv'
<1>1. CASE UNCHANGED vars
  <2>1. IInv'
    BY StepKeepsInv DEF TInv
  <2> QED
    BY <1>1, <2>1, MarksAreCounted DEF vars, history
<1>2. CASE Next
  BY <1>2, InitBufferPoolIsCounted, PinPageIsCounted, ClockStepIsCounted, MarkDirtyIsCounted,
     UnpinPageIsCounted, WriteIsCounted
     DEF Next, forcePage, forceFlushPool, shutdownBufferPool
<1> QED
  BY <1>1, <1>2

-----------------------------------------------------------------------------
(* What CLOCK and LFU replace. *)
LeastUsedLeaves ==
    \A f \in Frames : Replaces(f) =>
        /\ strategy = "RS_CLOCK" => f \in spare
        /\ strategy = "RS_LFU" /\ ~shared' => f \in Least

LEMMA NoPageLeaves ==
  ASSUME \A f \in Frames : frame[f].data = NULL \/ frame'[f].data \in {NULL, frame[f].data}
  PROVE  LeastUsedLeaves
BY DEF LeastUsedLeaves, Replaces

LEMMA EmptyReplaces ==
  ASSUME frame' = [f \in Frames |-> NoFrame]
  PROVE  LeastUsedLeaves
<1>1. \A f \in Frames : frame'[f].data = NULL
  BY DEF NoFrame
<1> QED
  BY <1>1, NoPageLeaves

(* A page that comes to an empty frame makes none leave. *)
LEMMA EmptyFrameTaken ==
  ASSUME TInv, NEW f \in Frames, frame[f].pageNum = NO_PAGE, NEW x, frame' = [frame EXCEPT ![f] = x]
  PROVE  LeastUsedLeaves
<1>1. frame[f].data = NULL
  BY DEF TInv, EmptyFrames, NoFrame
<1>2. \A g \in Frames : g # f => frame'[g] = frame[g]
  BY DEF TInv, IInv, TypeOK
<1> QED
  BY <1>1, <1>2, NoPageLeaves

(* With all frames free LFU begins at the frame of lfuPtr, and goes on to one that was
   hit least whether it began at such a frame or not. *)
LEMMA LFUTakesLeast ==
  ASSUME Unfixed = Frames, lfuPtr \in Nat, NEW f \in Frames, LFUVictim(f)
  PROVE  f \in Least
<1> DEFINE i == lfuPtr % NumFrames
<1>1. i \in Unfixed
  <2> NumFrames \in Nat \ {0} /\ lfuPtr \in Nat
    BY FramesAssumption
  <2>1. i \in 0 .. NumFrames - 1
    OBVIOUS
  <2> QED
    BY <2>1 DEF Frames
<1>2. \A k : NearestLeast(k) \subseteq Least
  BY DEF NearestLeast
<1> DEFINE start == LFUStart(i)
<1>3. \/ f \in (IF start \in Least THEN {start} ELSE NearestLeast(start))
      \/ f \in NearestLeast(i)
  BY <1>1 DEF LFUVictim
<1> HIDE DEF i, start
<1> QED
  BY <1>2, <1>3

LEMMA ReplacementReplaces ==
  ASSUME TInv, NEW c \in Clients, NEW p \in PageNums, NEW b \in Buffers, PinReplace(c, p, b)
  PROVE  LeastUsedLeaves
<1>1. CASE UNCHANGED frame
  BY <1>1, NoPageLeaves
<1>2. CASE \E f \in Frames : Victim(f) /\ frame' = [frame EXCEPT ![f] = Loaded(p, b, HitNum(0))]
  <2>1. PICK f \in Frames : Victim(f) /\ frame' = [frame EXCEPT ![f] = Loaded(p, b, HitNum(0))]
    BY <1>2
  <2>2. \A g \in Frames : g # f => frame'[g] = frame[g]
    BY <2>1 DEF TInv, IInv, TypeOK
  <2>3. strategy # "RS_CLOCK"
    BY <2>1 DEF Victim
  <2>4. ASSUME strategy = "RS_LFU", ~shared' PROVE f \in Least
    <3>1. SetHandle(c, p, b) /\ TypeOK /\ CountsAlone /\ lfuPtr \in Nat
      BY FramesAssumption DEF PinReplace, TInv, IInv, TypeOK
    <3>2. ~shared /\ \A q : HoldersIn(handle, q) = {}
      BY <2>4, <3>1, TurnTaken
    <3>3. LFUVictim(f)
      BY <2>1, <2>4 DEF Victim
    <3> QED
      BY <3>1, <3>2, <3>3, AllUnfixed, LFUTakesLeast
  <2>5. \A g \in Frames : Replaces(g) => g = f
    BY <2>2 DEF Replaces
  <2> QED
    BY <2>3, <2>4, <2>5 DEF LeastUsedLeaves
<1> QED
  BY <1>1, <1>2 DEF PinReplace

LEMMA PinPageReplaces ==
  ASSUME TInv, NEW c \in Clients, NEW p \in PageNums, pinPage(c, p)
  PROVE  LeastUsedLeaves
<1>1. ASSUME NEW b \in Buffers, PinFirst(c, p, b) PROVE LeastUsedLeaves
  <2>1. frame' = [frame EXCEPT ![0] = Loaded(p, b, 0)] /\ frame[0].pageNum = NO_PAGE /\ 0 \in Frames
    BY <1>1, FramesExist DEF PinFirst
  <2> QED
    BY <2>1, EmptyFrameTaken
<1>2. ASSUME NEW b \in Buffers, PinEmpty(c, p, b) PROVE LeastUsedLeaves
  BY <1>2, EmptyFrameTaken DEF PinEmpty
<1>3. ASSUME PinHit(c, p) PROVE LeastUsedLeaves
  <2>1. \A f \in Frames : frame'[f].data = frame[f].data
    BY <1>3 DEF PinHit, TInv, IInv, TypeOK, FrameType
  <2> QED
    BY <2>1, NoPageLeaves
<1>4. ASSUME PinBreaks(p) PROVE LeastUsedLeaves
  BY <1>4, EmptyReplaces DEF PinBreaks, Break
<1> QED
  BY <1>1, <1>2, <1>3, <1>4, ReplacementReplaces DEF pinPage

LEMMA ClockStepReplaces == ASSUME TInv, ClockStep PROVE LeastUsedLeaves
<1>1. CASE Break
  BY <1>1, EmptyReplaces DEF Break
<1>2. CASE ClockTakes
  <2>1. ClockHand \in spare /\ strategy = "RS_CLOCK"
    BY <1>2, ClockSteps, ClockTakesSpare DEF TInv, OnlyClockSearches
  <2>2. \A g \in Frames : g # ClockHand => frame'[g] = frame[g]
    BY <1>2 DEF ClockTakes, TInv, IInv, TypeOK
  <2> QED
    BY <2>1, <2>2 DEF LeastUsedLeaves, Replaces
<1>3. CASE ClockClears
  <2>1. \A f \in Frames : frame'[f].data = frame[f].data
    BY <1>3 DEF ClockClears, BitCleared, TInv, IInv, TypeOK, FrameType
  <2> QED
    BY <2>1, NoPageLeaves
<1> QED
  BY <1>1, <1>2, <1>3, ClockSteps

LEMMA MarksReplaceNone ==
  ASSUME TInv, \/ \E c \in Clients : markDirty(c) \/ unpinPage(c)
               \/ \E S \in SUBSET Frames : Write(S)
  PROVE  LeastUsedLeaves
<1>1. frame \in [Frames -> FrameType]
  BY DEF TInv, IInv, TypeOK
<1>2. ASSUME NEW c \in Clients, markDirty(c) PROVE LeastUsedLeaves
  <2>1. \A f \in Frames : frame'[f].data = frame[f].data
    BY <1>1, <1>2 DEF markDirty, FrameType
  <2> QED
    BY <2>1, NoPageLeaves
<1>3. ASSUME NEW c \in Clients, unpinPage(c) PROVE LeastUsedLeaves
  <2>1. \A f \in Frames : frame'[f].data = frame[f].data
    BY <1>1, <1>3 DEF unpinPage, FrameType
  <2> QED
    BY <2>1, NoPageLeaves
<1>4. ASSUME NEW S \in SUBSET Frames, Write(S) PROVE LeastUsedLeaves
  <2>1. CASE Break
    BY <2>1, EmptyReplaces DEF Break
  <2>2. CASE frame' = [f \in Frames |-> [frame[f] EXCEPT !.dirty = @ /\ f \notin S]]
    <3>1. \A f \in Frames : frame'[f].data = frame[f].data
      BY <1>1, <2>2 DEF FrameType
    <3> QED
      BY <3>1, NoPageLeaves
  <2> QED
    BY <1>4, <2>1, <2>2 DEF Write
<1> QED
  BY <1>2, <1>3, <1>4

LEMMA StepReplaces == ASSUME TInv, Next PROVE LeastUsedLeaves
<1>1. ASSUME NEW s \in Strategies, initBufferPool(s) PROVE LeastUsedLeaves
  BY <1>1, EmptyReplaces DEF initBufferPool
<1>2. ASSUME NEW c \in Clients, forcePage(c) PROVE \E S \in SUBSET Frames : Write(S)
  BY <1>2 DEF forcePage, FramesOf
<1>3. forceFlushPool \/ shutdownBufferPool => \E S \in SUBSET Frames : Write(S)
  BY DEF forceFlushPool, shutdownBufferPool, ToFlush, Unfixed
<1> QED
  BY <1>1, <1>2, <1>3, PinPageReplaces, ClockStepReplaces, MarksReplaceNone DEF Next

(* CLOCK takes a frame that was not used since its hand passed, if there was one when
   the search began, wherever hits have moved the hand; LFU, for clients that take
   turns, takes the frame hit least, wherever its pointer is. *)
THEOREM LeastUsedIsTaken == Spec => TakesLeastUsed
<1>1. Init => TInv
  BY InitIsCounted
<1>2. TInv /\ [Next]_vars => TInv'
  BY StepIsCounted
<1>3. TInv /\ [Next]_vars =>
        [\A f \in Frames : Replaces(f) =>
            /\ strategy = "RS_CLOCK" => f \in spare
            /\ strategy = "RS_LFU" /\ ~shared' => f \in Least]_vars
  BY StepReplaces DEF LeastUsedLeaves
<1> QED
  BY <1>1, <1>2, <1>3, PTL DEF Spec, TakesLeastUsed

-----------------------------------------------------------------------------
(* Frames in the order of a key: the queues of EvictsFirstIn and EvictsLeastRecent. *)

(* A finite set S and a key K of its members that tells them apart. *)
Ordered(S, K) ==
    /\ IsFiniteSet(S)
    /\ \A f \in S : K[f] \in Int
    /\ \A f, g \in S : K[f] = K[g] => f = g

SameOrderOn(S, K, L) == \A f, g \in S : K[f] <= K[g] <=> L[f] <= L[g]

UpTo(S, K, f) == {g \in S : K[g] <= K[f]}
Place(S, K, f) == Cardinality(UpTo(S, K, f))

(* What P says of the members of S, in the order of K. *)
QueueOf(S, K, P) == [i \in 1 .. Cardinality(S) |-> P[CHOOSE f \in S : Place(S, K, f) = i]]

(* P names the members of S by members of V. *)
Names(V, S, P) == \A f \in S : P[f] \in V

(* Everything is at its place. *)
IsQueue(q, V, S, K, P) ==
    /\ q \in Seq(V) /\ Len(q) = Cardinality(S)
    /\ \A f \in S : q[Place(S, K, f)] = P[f]

LEMMA PlaceOrders ==
  ASSUME NEW S, NEW K, Ordered(S, K), NEW f \in S, NEW g \in S
  PROVE  /\ IsFiniteSet(UpTo(S, K, f)) /\ Place(S, K, f) \in 1 .. Cardinality(S)
         /\ Cardinality(S) \in Nat
         /\ K[f] < K[g] => Place(S, K, f) < Place(S, K, g)
<1>1. K[f] \in Int /\ K[g] \in Int /\ IsFiniteSet(S) /\ \A h \in S : K[h] \in Int
  BY DEF Ordered
<1>2. UpTo(S, K, f) \in SUBSET S /\ UpTo(S, K, g) \in SUBSET S
  BY DEF UpTo
<1>3. /\ IsFiniteSet(UpTo(S, K, f)) /\ IsFiniteSet(UpTo(S, K, g))
      /\ Cardinality(UpTo(S, K, f)) \in Nat /\ Cardinality(UpTo(S, K, g)) \in Nat
      /\ Cardinality(S) \in Nat /\ Cardinality(UpTo(S, K, f)) <= Cardinality(S)
  BY <1>1, <1>2, FS_Subset, FS_CardinalityType
<1>4. Cardinality(UpTo(S, K, f)) # 0
  <2>1. f \in UpTo(S, K, f)
    BY <1>1 DEF UpTo
  <2> QED
    BY <1>3, <2>1, FS_EmptySet
<1>5. ASSUME K[f] < K[g]
      PROVE  Cardinality(UpTo(S, K, f)) < Cardinality(UpTo(S, K, g))
  <2>1. UpTo(S, K, f) \in SUBSET UpTo(S, K, g)
    BY <1>1, <1>5 DEF UpTo
  <2>2. g \in UpTo(S, K, g) /\ g \notin UpTo(S, K, f)
    BY <1>1, <1>5 DEF UpTo
  <2>3. /\ Cardinality(UpTo(S, K, f)) <= Cardinality(UpTo(S, K, g))
        /\ Cardinality(UpTo(S, K, g)) = Cardinality(UpTo(S, K, f)) => UpTo(S, K, g) = UpTo(S, K, f)
    BY <1>3, <2>1, FS_Subset
  <2> QED
    BY <1>3, <2>2, <2>3
<1> QED
  BY <1>3, <1>4, <1>5 DEF Place

LEMMA PlaceIsOne ==
  ASSUME NEW S, NEW K, Ordered(S, K), NEW f \in S, NEW g \in S
  PROVE  /\ Place(S, K, f) = Place(S, K, g) => f = g
         /\ Place(S, K, f) <= Place(S, K, g) <=> K[f] <= K[g]
<1>1. K[f] \in Int /\ K[g] \in Int /\ (K[f] = K[g] => f = g)
  BY DEF Ordered
<1>2. /\ Place(S, K, f) \in Int /\ Place(S, K, g) \in Int
      /\ K[f] < K[g] => Place(S, K, f) < Place(S, K, g)
      /\ K[g] < K[f] => Place(S, K, g) < Place(S, K, f)
  BY PlaceOrders
<1> QED
  BY <1>1, <1>2

LEMMA PlacesTaken ==
  ASSUME NEW S, NEW K, Ordered(S, K), NEW i \in 1 .. Cardinality(S)
  PROVE  \E f \in S : Place(S, K, f) = i
<1> DEFINE n == Cardinality(S)
           F == [f \in S |-> Place(S, K, f)]
<1>1. IsFiniteSet(S) /\ n \in Nat
  BY FS_CardinalityType DEF Ordered
<1>2. IsFiniteSet(1 .. n) /\ Cardinality(1 .. n) = n
  <2> HIDE DEF n
  <2> QED
    BY <1>1, FS_Interval
<1>3. F \in [S -> 1 .. n]
  BY PlaceOrders
<1>4. ASSUME NEW f \in S, NEW g \in S, F[f] = F[g] PROVE f = g
  BY <1>4, PlaceIsOne
<1> HIDE DEF F
<1>5. F \in Injection(S, 1 .. n)
  BY <1>3, <1>4 DEF Injection, IsInjective
<1>6. F \in Surjection(S, 1 .. n)
  <2> HIDE DEF n
  <2>1. Cardinality(S) = Cardinality(1 .. n)
    BY <1>2 DEF n
  <2> QED
    BY <1>2, <1>5, <2>1, FS_Injection
<1>7. PICK f \in S : F[f] = i
  BY <1>6 DEF Surjection
<1> QED
  BY <1>7 DEF F

LEMMA QueueIs ==
  ASSUME NEW V, NEW S, NEW K, NEW P, Ordered(S, K), Names(V, S, P)
  PROVE  IsQueue(QueueOf(S, K, P), V, S, K, P)
<1> DEFINE n == Cardinality(S)
           at(i) == CHOOSE f \in S : Place(S, K, f) = i
<1>1. n \in Nat
  BY FS_CardinalityType DEF Ordered
<1>2. \A i \in 1 .. n : at(i) \in S /\ Place(S, K, at(i)) = i
  BY PlacesTaken
<1>3. ASSUME NEW f \in S PROVE Place(S, K, f) \in 1 .. n /\ at(Place(S, K, f)) = f
  <2>1. Place(S, K, f) \in 1 .. n
    BY PlaceOrders
  <2> DEFINE g == at(Place(S, K, f))
  <2>2. g \in S /\ Place(S, K, g) = Place(S, K, f)
    BY <1>2, <2>1
  <2> HIDE DEF g
  <2> QED
    BY <2>1, <2>2, PlaceIsOne DEF g
<1>4. QueueOf(S, K, P) = [i \in 1 .. n |-> P[at(i)]]
  BY DEF QueueOf
<1> HIDE DEF n, at
<1>5. QueueOf(S, K, P) \in [1 .. n -> V]
  BY <1>2, <1>4 DEF Names
<1>6. \A f \in S : QueueOf(S, K, P)[Place(S, K, f)] = P[f]
  BY <1>3, <1>4
<1> QED
  BY <1>1, <1>5, <1>6 DEF n, IsQueue

(* No other sequence has everything at its place. *)
LEMMA QueueOnly ==
  ASSUME NEW V, NEW S, NEW K, NEW P, Ordered(S, K), Names(V, S, P),
         NEW q, IsQueue(q, V, S, K, P)
  PROVE  q = QueueOf(S, K, P)
<1> DEFINE r == QueueOf(S, K, P)
<1>1. IsQueue(r, V, S, K, P)
  BY QueueIs
<1> HIDE DEF r
<1>2. ASSUME NEW i \in 1 .. Len(q) PROVE q[i] = r[i]
  <2>1. PICK f \in S : Place(S, K, f) = i
    BY PlacesTaken DEF IsQueue
  <2> QED
    BY <1>1, <2>1 DEF IsQueue
<1>3. q = r
  BY <1>1, <1>2, SeqEqual DEF IsQueue
<1> QED
  BY <1>3 DEF r

(* x comes before, or behind, all of S, which keep their names. *)
Leads(x, S, P, L, R) == \A f \in S : R[f] = P[f] /\ L[x] < L[f]
Follows(x, S, P, L, R) == \A f \in S : R[f] = P[f] /\ L[f] < L[x]

(* Sequences with one more. *)
PutFirst(v, q) == <<v>> \o q
PutLast(q, v) == Append(q, v)

(* One more, before all. *)
LEMMA QueueFirst ==
  ASSUME NEW V, NEW S, NEW K, NEW P, NEW x, NEW L, NEW R,
         Ordered(S, K), x \notin S, Ordered(S \cup {x}, L), SameOrderOn(S, K, L),
         Names(V, S, P), Leads(x, S, P, L, R), R[x] \in V
  PROVE  QueueOf(S \cup {x}, L, R) = PutFirst(R[x], QueueOf(S, K, P))
<1> DEFINE T == S \cup {x}
           q == QueueOf(S, K, P)
           v == R[x]
<1>0. \A f \in S : R[f] = P[f] /\ L[x] < L[f]
  BY DEF Leads
<1>1. /\ IsFiniteSet(S) /\ Cardinality(S) \in Nat /\ Cardinality(T) = Cardinality(S) + 1
      /\ L[x] \in Int /\ \A f \in S : L[f] \in Int
  BY FS_AddElement, FS_CardinalityType DEF Ordered
<1>2. /\ UpTo(T, L, x) = {x}
      /\ \A f \in S : UpTo(T, L, f) = UpTo(S, K, f) \cup {x} /\ x \notin UpTo(S, K, f)
  BY <1>0, <1>1 DEF SameOrderOn, UpTo
<1>3. Place(T, L, x) = 1
  BY <1>2, FS_Singleton DEF Place
<1>4. \A f \in S : /\ Place(S, K, f) \in 1 .. Cardinality(S)
                   /\ Place(T, L, f) = Place(S, K, f) + 1
  <2> SUFFICES ASSUME NEW f \in S
               PROVE  /\ Place(S, K, f) \in 1 .. Cardinality(S)
                      /\ Place(T, L, f) = Place(S, K, f) + 1
    OBVIOUS
  <2>1. IsFiniteSet(UpTo(S, K, f)) /\ Place(S, K, f) \in 1 .. Cardinality(S)
    BY PlaceOrders
  <2>2. Cardinality(UpTo(S, K, f) \cup {x}) = Cardinality(UpTo(S, K, f)) + 1
    BY <1>2, <2>1, FS_AddElement
  <2> QED
    BY <1>2, <2>1, <2>2 DEF Place
<1>5. q \in Seq(V) /\ Len(q) = Cardinality(S) /\ \A f \in S : q[Place(S, K, f)] = P[f]
  <2>1. IsQueue(q, V, S, K, P)
    BY QueueIs
  <2> QED
    BY <2>1 DEF IsQueue
<1>6. Ordered(T, L) /\ v \in V
  OBVIOUS
<1> HIDE DEF q, T, v
<1>7. <<v>> \in Seq(V) /\ Len(<<v>>) = 1 /\ <<v>>[1] = v
  BY <1>6
<1>8. /\ <<v>> \o q \in Seq(V) /\ Len(<<v>> \o q) = 1 + Len(q)
      /\ \A j \in 1 .. 1 + Len(q) : (<<v>> \o q)[j] = IF j <= 1 THEN <<v>>[j] ELSE q[j - 1]
  BY <1>5, <1>7, ConcatProperties
<1>9. ASSUME NEW f \in T PROVE (<<v>> \o q)[Place(T, L, f)] = R[f] /\ R[f] \in V
  <2>1. CASE f = x
    BY <1>1, <1>3, <1>5, <1>6, <1>7, <1>8, <2>1 DEF v
  <2>2. CASE f \in S
    <3> DEFINE i == Place(S, K, f)
    <3>1. i \in 1 .. Cardinality(S) /\ Place(T, L, f) = i + 1 /\ q[i] = R[f]
      BY <1>0, <1>4, <1>5, <2>2
    <3> HIDE DEF i
    <3>2. (<<v>> \o q)[i + 1] = q[i]
      BY <1>1, <1>5, <1>8, <3>1
    <3> QED
      BY <1>0, <2>2, <3>1, <3>2 DEF Names
  <2> QED
    BY <2>1, <2>2 DEF T
<1> DEFINE r == <<v>> \o q
<1>10. IsQueue(r, V, T, L, R) /\ Names(V, T, R)
  <2>1. Len(r) = Cardinality(T) /\ r \in Seq(V)
    BY <1>1, <1>5, <1>8
  <2> QED
    BY <1>9, <2>1 DEF IsQueue, Names
<1> HIDE DEF r
<1>11. r = QueueOf(T, L, R)
  BY <1>6, <1>10, QueueOnly
<1> QED
  BY <1>11 DEF q, T, v, r, PutFirst

(* One more, behind all. *)
LEMMA QueueLast ==
  ASSUME NEW V, NEW S, NEW K, NEW P, NEW x, NEW L, NEW R,
         Ordered(S, K), x \notin S, Ordered(S \cup {x}, L), SameOrderOn(S, K, L),
         Names(V, S, P), Follows(x, S, P, L, R), R[x] \in V
  PROVE  QueueOf(S \cup {x}, L, R) = PutLast(QueueOf(S, K, P), R[x])
<1> DEFINE T == S \cup {x}
           q == QueueOf(S, K, P)
           v == R[x]
<1>0. \A f \in S : R[f] = P[f] /\ L[f] < L[x]
  BY DEF Follows
<1>1. /\ IsFiniteSet(S) /\ Cardinality(S) \in Nat /\ Cardinality(T) = Cardinality(S) + 1
      /\ L[x] \in Int /\ \A f \in S : L[f] \in Int
  BY FS_AddElement, FS_CardinalityType DEF Ordered
<1>2. /\ UpTo(T, L, x) = T
      /\ \A f \in S : UpTo(T, L, f) = UpTo(S, K, f)
  BY <1>0, <1>1 DEF SameOrderOn, UpTo
<1>3. Place(T, L, x) = Cardinality(S) + 1
  BY <1>1, <1>2 DEF Place
<1>4. \A f \in S : Place(S, K, f) \in 1 .. Cardinality(S) /\ Place(T, L, f) = Place(S, K, f)
  BY <1>2, PlaceOrders DEF Place
<1>5. q \in Seq(V) /\ Len(q) = Cardinality(S) /\ \A f \in S : q[Place(S, K, f)] = P[f]
  <2>1. IsQueue(q, V, S, K, P)
    BY QueueIs
  <2> QED
    BY <2>1 DEF IsQueue
<1>6. Ordered(T, L) /\ v \in V
  OBVIOUS
<1> HIDE DEF q, T, v
<1>7. /\ Append(q, v) \in Seq(V) /\ Len(Append(q, v)) = Len(q) + 1
      /\ Append(q, v)[Len(q) + 1] = v /\ \A j \in 1 .. Len(q) : Append(q, v)[j] = q[j]
  BY <1>5, <1>6
<1>8. ASSUME NEW f \in T PROVE Append(q, v)[Place(T, L, f)] = R[f] /\ R[f] \in V
  <2>1. CASE f = x
    BY <1>3, <1>5, <1>6, <1>7, <2>1 DEF v
  <2>2. CASE f \in S
    BY <1>0, <1>4, <1>5, <1>7, <2>2 DEF Names
  <2> QED
    BY <2>1, <2>2 DEF T
<1> DEFINE r == Append(q, v)
<1>9. IsQueue(r, V, T, L, R) /\ Names(V, T, R)
  BY <1>1, <1>5, <1>7, <1>8 DEF IsQueue, Names
<1> HIDE DEF r
<1>10. r = QueueOf(T, L, R)
  BY <1>6, <1>9, QueueOnly
<1> QED
  BY <1>10 DEF q, T, v, r, PutLast

Without(s, i) == SubSeq(s, 1, i - 1) \o SubSeq(s, i + 1, Len(s))

LEMMA WithoutIs ==
  ASSUME NEW V, NEW a \in Seq(V), NEW i \in 1 .. Len(a)
  PROVE  /\ Without(a, i) \in Seq(V) /\ Len(Without(a, i)) = Len(a) - 1
         /\ \A k \in 1 .. Len(a) - 1 : Without(a, i)[k] = a[IF k < i THEN k ELSE k + 1]
<1> DEFINE s == SubSeq(a, 1, i - 1)
           t == SubSeq(a, i + 1, Len(a))
<1>1. s \in Seq(V) /\ Len(s) = i - 1 /\ \A k \in 1 .. i - 1 : s[k] = a[k]
  OBVIOUS
<1>2. t \in Seq(V) /\ Len(t) = Len(a) - i /\ \A k \in 1 .. Len(a) - i : t[k] = a[k + i]
  OBVIOUS
<1> HIDE DEF s, t
<1>3. /\ s \o t \in Seq(V) /\ Len(s \o t) = Len(s) + Len(t)
      /\ \A k \in 1 .. Len(s) + Len(t) : (s \o t)[k] = IF k <= Len(s) THEN s[k] ELSE t[k - Len(s)]
  BY <1>1, <1>2, ConcatProperties
<1>4. Len(a) \in Nat /\ i \in Nat /\ Len(s) + Len(t) = Len(a) - 1
  BY <1>1, <1>2
<1>5. ASSUME NEW k \in 1 .. Len(a) - 1
      PROVE  (s \o t)[k] = a[IF k < i THEN k ELSE k + 1]
  <2>1. CASE k < i
    BY <1>1, <1>3, <1>4, <2>1
  <2>2. CASE ~(k < i)
    <3>1. k - (i - 1) \in 1 .. Len(a) - i /\ (k - (i - 1)) + i = k + 1
      BY <1>4, <2>2
    <3>2. (s \o t)[k] = t[k - (i - 1)]
      BY <1>1, <1>3, <1>4, <2>2
    <3> QED
      BY <1>2, <2>2, <3>1, <3>2
  <2> QED
    BY <2>1, <2>2
<1>6. Without(a, i) = s \o t
  BY DEF Without, s, t
<1> QED
  BY <1>3, <1>4, <1>5, <1>6

(* One less. *)
LEMMA QueueLess ==
  ASSUME NEW V, NEW S, NEW K, NEW P, NEW x \in S,
         Ordered(S, K), Names(V, S, P)
  PROVE  /\ Ordered(S \ {x}, K) /\ Names(V, S \ {x}, P)
         /\ QueueOf(S \ {x}, K, P) = Without(QueueOf(S, K, P), Place(S, K, x))
<1> DEFINE T == S \ {x}
           q == QueueOf(S, K, P)
           i == Place(S, K, x)
<1>1. Ordered(T, K) /\ Cardinality(T) = Cardinality(S) - 1 /\ Cardinality(S) \in Nat
  BY FS_RemoveElement, FS_CardinalityType DEF Ordered
<1>2. q \in Seq(V) /\ Len(q) = Cardinality(S) /\ \A f \in S : q[Place(S, K, f)] = P[f]
  <2>1. IsQueue(q, V, S, K, P)
    BY QueueIs
  <2> QED
    BY <2>1 DEF IsQueue
<1>3. i \in 1 .. Cardinality(S)
  BY PlaceOrders
<1>4. ASSUME NEW f \in T
      PROVE  /\ Place(S, K, f) \in 1 .. Cardinality(S) /\ Place(S, K, f) # i
             /\ Place(T, K, f) = IF i <= Place(S, K, f) THEN Place(S, K, f) - 1 ELSE Place(S, K, f)
  <2>1. UpTo(T, K, f) = UpTo(S, K, f) \ {x} /\ (x \in UpTo(S, K, f) <=> K[x] <= K[f])
    BY DEF UpTo
  <2>2. K[x] <= K[f] <=> i <= Place(S, K, f)
    BY PlaceIsOne
  <2>3. Place(S, K, f) # i
    BY PlaceIsOne
  <2>4. IsFiniteSet(UpTo(S, K, f)) /\ Place(S, K, f) \in 1 .. Cardinality(S)
    BY PlaceOrders
  <2>5. Cardinality(UpTo(S, K, f) \ {x}) =
          IF x \in UpTo(S, K, f) THEN Cardinality(UpTo(S, K, f)) - 1 ELSE Cardinality(UpTo(S, K, f))
    BY <2>4, FS_RemoveElement
  <2> HIDE DEF i
  <2> QED
    BY <2>1, <2>2, <2>3, <2>4, <2>5 DEF Place
<1> HIDE DEF q, i, T
<1>5. /\ Without(q, i) \in Seq(V) /\ Len(Without(q, i)) = Len(q) - 1
      /\ \A k \in 1 .. Len(q) - 1 : Without(q, i)[k] = q[IF k < i THEN k ELSE k + 1]
  BY <1>2, <1>3, WithoutIs
<1>6. ASSUME NEW f \in T PROVE Without(q, i)[Place(T, K, f)] = P[f] /\ P[f] \in V
  <2> DEFINE j == Place(S, K, f)
             k == IF i <= j THEN j - 1 ELSE j
  <2>1. /\ f \in S /\ j \in 1 .. Cardinality(S) /\ j # i /\ Place(T, K, f) = k /\ q[j] = P[f]
    BY <1>2, <1>4 DEF T
  <2> HIDE DEF j
  <2>2. k \in 1 .. Len(q) - 1 /\ (IF k < i THEN k ELSE k + 1) = j
    BY <1>1, <1>2, <1>3, <2>1
  <2> QED
    BY <1>5, <2>1, <2>2 DEF Names
<1> DEFINE r == Without(q, i)
<1>7. IsQueue(r, V, T, K, P) /\ Names(V, T, P)
  BY <1>1, <1>2, <1>5, <1>6 DEF IsQueue, Names
<1> HIDE DEF r
<1>8. r = QueueOf(T, K, P)
  BY <1>1, <1>7, QueueOnly
<1> QED
  BY <1>1, <1>7, <1>8 DEF T, q, i, r

-----------------------------------------------------------------------------
(* The names of the frames' pages: PagesBy is the queue of these. *)
PageOf == [f \in Frames |-> frame[f].pageNum]

LEMMA FramesFinite == IsFiniteSet(Frames)
<1>1. 0 \in Int /\ NumFrames - 1 \in Int
  BY FramesAssumption
<1> QED
  BY <1>1, FS_Interval DEF Frames

LEMMA OccupiedAre ==
  ASSUME NEW s
  PROVE  /\ Occupied(s) \subseteq Frames /\ IsFiniteSet(Occupied(s))
         /\ strategy # s => Occupied(s) = {}
         /\ strategy = s => Occupied(s) = {f \in Frames : Occupies(f)}
<1>1. Occupied(s) \in SUBSET Frames
  BY DEF Occupied
<1> QED
  BY <1>1, FramesFinite, FS_Subset DEF Occupied, Occupies

LEMMA OccupiedNamed == ASSUME TypeOK, NEW s PROVE Names(PageNums, Occupied(s), PageOf)
BY DEF TypeOK, FrameType, Names, PageOf, Occupied

LEMMA UsesOrder == ASSUME TInv PROVE Ordered(Occupied("RS_LRU"), UseAge)
<1>1. \A f \in Frames : frame[f].hitNum \in Nat /\ UseAge[f] = -frame[f].hitNum
  BY DEF TInv, IInv, TypeOK, FrameType, UseAge
<1>2. \A f, g \in Occupied("RS_LRU") : frame[f].hitNum = frame[g].hitNum => f = g
  BY DEF Occupied, Occupies, TInv, UsesOrdered
<1> QED
  BY <1>1, <1>2, OccupiedAre DEF Ordered

LEMMA PagesByIs ==
  ASSUME TypeOK, NEW s, NEW key, Ordered(Occupied(s), key)
  PROVE  PagesBy(s, key) = QueueOf(Occupied(s), key, PageOf)
<1> DEFINE S == Occupied(s)
           n == Cardinality(S)
           at(i) == CHOOSE f \in S : Cardinality({g \in S : key[g] <= key[f]}) = i
           q == PagesBy(s, key)
<1>1. Ordered(S, key) /\ Names(PageNums, S, PageOf) /\ S \subseteq Frames
  BY OccupiedNamed, OccupiedAre
<1>2. q = [i \in 1 .. n |-> frame[at(i)].pageNum]
  BY DEF PagesBy
<1>3. \A f \in S : Cardinality({g \in S : key[g] <= key[f]}) = Place(S, key, f)
  BY DEF Place, UpTo
<1> HIDE DEF S, q
<1>4. \A i \in 1 .. n : at(i) \in S /\ Place(S, key, at(i)) = i
  <2>1. \A i \in 1 .. n : \E f \in S : Cardinality({g \in S : key[g] <= key[f]}) = i
    BY <1>1, <1>3, PlacesTaken
  <2>2. \A i \in 1 .. n : at(i) \in S /\ Cardinality({g \in S : key[g] <= key[at(i)]}) = i
    BY <2>1
  <2> QED
    BY <1>3, <2>2
<1> HIDE DEF at
<1>5. n \in Nat
  BY <1>1, FS_CardinalityType DEF Ordered
<1>6. ASSUME NEW f \in S PROVE Place(S, key, f) \in 1 .. n /\ at(Place(S, key, f)) = f
  <2> DEFINE i == Place(S, key, f)
             h == at(i)
  <2>1. i \in 1 .. n
    BY <1>1, PlaceOrders
  <2>2. h \in S /\ Place(S, key, h) = Place(S, key, f)
    BY <1>4, <2>1
  <2> HIDE DEF h
  <2>3. h = f
    BY <1>1, <2>2, PlaceIsOne
  <2> QED
    BY <2>1, <2>3 DEF h
<1>7. \A f \in S : f \in Frames /\ frame[f].pageNum \in PageNums /\ PageOf[f] = frame[f].pageNum
  BY <1>1 DEF PageOf, Names
<1> HIDE DEF n
<1>8. q \in [1 .. n -> PageNums]
  BY <1>2, <1>4, <1>7
<1>9. \A f \in S : q[Place(S, key, f)] = PageOf[f]
  BY <1>2, <1>6, <1>7
<1>10. IsQueue(q, PageNums, S, key, PageOf)
  BY <1>5, <1>8, <1>9 DEF IsQueue, n
<1>11. q = QueueOf(S, key, PageOf)
  BY <1>1, <1>10, QueueOnly
<1> QED
  BY <1>11 DEF S, q

LEMMA UseOperators ==
  /\ \A s, i : ByUse!RemoveAt(s, i) = Without(s, i)
  /\ \A s, e : ByUse!Contains(s, e) <=> \E i \in 1 .. Len(s) : s[i] = e
BY DEF ByUse!RemoveAt, Without, ByUse!Contains

LEMMA LoadOperators ==
  /\ \A s, i : ByLoad!RemoveAt(s, i) = Without(s, i)
  /\ \A s, e : ByLoad!Contains(s, e) <=> \E i \in 1 .. Len(s) : s[i] = e
BY DEF ByLoad!RemoveAt, Without, ByLoad!Contains

-----------------------------------------------------------------------------
(* What PagesBy stands for, with the names and the order that it needs. *)
Queued(s, key) ==
    /\ Ordered(Occupied(s), key)
    /\ Names(PageNums, Occupied(s), PageOf)
    /\ PagesBy(s, key) = QueueOf(Occupied(s), key, PageOf)

LEMMA UsesQueued == ASSUME TInv PROVE Queued("RS_LRU", UseAge)
BY UsesOrder, OccupiedNamed, PagesByIs DEF Queued, TInv, IInv

LEMMA QueuedIs ==
  ASSUME NEW s, NEW key, Queued(s, key)
  PROVE  /\ IsQueue(PagesBy(s, key), PageNums, Occupied(s), key, PageOf)
         /\ \A e : (\E i \in 1 .. Len(PagesBy(s, key)) : PagesBy(s, key)[i] = e)
                      <=> \E f \in Occupied(s) : frame[f].pageNum = e
<1> DEFINE q == PagesBy(s, key)
           S == Occupied(s)
<1>1. IsQueue(q, PageNums, S, key, PageOf) /\ Ordered(S, key) /\ S \subseteq Frames
  BY QueueIs, OccupiedAre DEF Queued
<1>2. \A f \in S : PageOf[f] = frame[f].pageNum
  BY <1>1 DEF PageOf
<1> HIDE DEF q, S
<1>3. \A i \in 1 .. Len(q) : \E f \in S : Place(S, key, f) = i
  BY <1>1, PlacesTaken DEF IsQueue
<1>4. \A f \in S : Place(S, key, f) \in 1 .. Len(q)
  BY <1>1, PlaceOrders DEF IsQueue
<1>5. \A e : (\E i \in 1 .. Len(q) : q[i] = e) <=> \E f \in S : frame[f].pageNum = e
  BY <1>1, <1>2, <1>3, <1>4 DEF IsQueue
<1> QED
  BY <1>1, <1>5 DEF q, S

LEMMA Emptied ==
  ASSUME NEW s, NEW key, Queued(s, key), Occupied(s) = {}
  PROVE  PagesBy(s, key) = <<>> /\ Kept(s) = {}
<1>1. Cardinality(Occupied(s)) = 0
  BY FS_EmptySet
<1>2. IsQueue(PagesBy(s, key), PageNums, Occupied(s), key, PageOf)
  BY QueuedIs
<1>3. PagesBy(s, key) \in Seq(PageNums) /\ Len(PagesBy(s, key)) = 0
  BY <1>1, <1>2 DEF IsQueue
<1>4. PagesBy(s, key) = <<>>
  BY <1>3
<1> QED
  BY <1>4 DEF Kept

(* The number of frames with pages. *)
LEMMA CountOccupied ==
  ASSUME NEW s
  PROVE  /\ Cardinality(Occupied(s)) <= NumFrames /\ Cardinality(Occupied(s)) \in Nat
         /\ (\E f \in Frames : f \notin Occupied(s)) => Cardinality(Occupied(s)) < NumFrames
         /\ Occupied(s) = Frames => Cardinality(Occupied(s)) = NumFrames
<1>1. Cardinality(Frames) = NumFrames /\ NumFrames \in Nat
  <2>1. 0 \in Int /\ NumFrames - 1 \in Int /\ 0 <= NumFrames - 1 /\ NumFrames \in Nat
    BY FramesAssumption
  <2>2. Cardinality(0 .. NumFrames - 1) = (NumFrames - 1) - 0 + 1
    BY <2>1, FS_Interval
  <2> QED
    BY <2>1, <2>2 DEF Frames
<1> DEFINE S == Occupied(s)
<1>2. S \in SUBSET Frames /\ IsFiniteSet(S) /\ IsFiniteSet(Frames)
  BY OccupiedAre, FramesFinite
<1> HIDE DEF S
<1>3. /\ Cardinality(S) \in Nat /\ Cardinality(S) <= Cardinality(Frames)
      /\ Cardinality(Frames) = Cardinality(S) => S = Frames
  BY <1>2, FS_Subset, FS_CardinalityType
<1>4. Cardinality(S) \in Nat /\ Cardinality(S) <= NumFrames /\ (Cardinality(S) = NumFrames => S = Frames)
  BY <1>1, <1>3
<1>5. (\E f \in Frames : f \notin S) => Cardinality(S) < NumFrames
  BY <1>1, <1>4
<1>6. S = Frames => Cardinality(S) = NumFrames
  BY <1>1
<1> QED
  BY <1>4, <1>5, <1>6 DEF S

(* Clients that take turns find nothing kept, and keep what they pin. *)
LEMMA TurnKeeps ==
  ASSUME TInv, TInv', NEW c \in Clients, NEW p \in PageNums, NEW b, SetHandle(c, p, b), ~shared',
         NEW f \in Frames, frame'[f].pageNum = p, NEW s, strategy' = s
  PROVE  Unfixed = Frames /\ Kept(s) = {} /\ Kept(s)' = {p}
<1>1. /\ ~shared
      /\ \A q : HoldersIn(handle, q) = {}
      /\ \A q : HoldersIn(handle', q) = IF q = p THEN {c} ELSE {}
  BY TurnTaken DEF TInv, IInv
<1>2. Unfixed = Frames
  BY <1>1, AllUnfixed DEF TInv
<1>3. Kept(s) = {}
  BY <1>2 DEF Kept, Occupied
<1>4. \A g \in Frames : frame'[g].fixCount = IF frame'[g].pageNum = p THEN 1 ELSE 0
  BY <1>1 DEF TInv, CountsAlone
<1>5. p # NO_PAGE
  BY PagesAreNotEmpty
<1>6. Kept(s)' = {p}
  BY <1>4, <1>5 DEF Kept, Occupied, Unfixed
<1> QED
  BY <1>2, <1>3, <1>6

-----------------------------------------------------------------------------
(* LRU. *)
UseQueued == Queued("RS_LRU", UseAge)

LEMMA NoUses == ASSUME UseQueued', Occupied("RS_LRU")' = {} PROVE ByUse!Clear
<1>1. ASSUME NEW key, NEW q, UseQueued', key = UseAge', q = PagesBy("RS_LRU", UseAge)'
      PROVE  q = <<>>
  <2>1. /\ Ordered({}, key) /\ q = QueueOf({}, key, PageOf')
        /\ Names(PageNums, {}, PageOf')
    BY <1>1 DEF UseQueued, Queued
  <2>2. IsQueue(q, PageNums, {}, key, PageOf')
    BY <2>1, QueueIs
  <2>3. q \in Seq(PageNums) /\ Len(q) = 0
    BY <2>2, FS_EmptySet DEF IsQueue
  <2> QED
    BY <2>3
<1>2. PagesBy("RS_LRU", UseAge)' = <<>> /\ Kept("RS_LRU")' = {}
  BY <1>1 DEF Kept
<1> QED
  BY <1>2 DEF ByUse!Clear

(* A page that is loaded comes to an empty frame and is used last. *)
LEMMA FreshLoads ==
  ASSUME TInv, Running, NEW c \in Clients, NEW p \in PageNums, NEW b \in Buffers,
         strategy = "RS_LRU", PinFirst(c, p, b) \/ PinEmpty(c, p, b)
  PROVE  \E f \in Frames, h \in Nat :
            /\ frame' = [frame EXCEPT ![f] = Loaded(p, b, h)] /\ frame[f].pageNum = NO_PAGE
            /\ \A g \in Frames : frame[g].pageNum # p
            /\ \A g \in Frames : Occupies(g) => frame[g].hitNum < h
            /\ SetHandle(c, p, b)
<1>1. p # NO_PAGE
  BY PagesAreNotEmpty
<1>2. CASE PinFirst(c, p, b)
  <2>1. \A g \in Frames : frame[g].pageNum = NO_PAGE
    <3> SUFFICES ASSUME NEW g \in Frames, frame[g].pageNum # NO_PAGE PROVE FALSE
      OBVIOUS
    <3>1. 0 < g
      BY <1>2, FramesExist DEF PinFirst
    <3> QED
      BY <1>2, <3>1, FramesExist DEF TInv, IInv, OneFramePerPage, PinFirst
  <2>2. \A g \in Frames : frame[g].pageNum # p /\ ~Occupies(g)
    BY <1>1, <2>1 DEF Occupies
  <2>3. /\ 0 \in Frames /\ frame[0].pageNum = NO_PAGE /\ SetHandle(c, p, b)
        /\ frame' = [frame EXCEPT ![0] = Loaded(p, b, 0)]
    BY <1>2, FramesExist DEF PinFirst
  <2> QED
    BY <2>2, <2>3
<1>3. CASE PinEmpty(c, p, b)
  <2>1. PICK f \in Frames : /\ StopsAt(f, p) /\ frame[f].pageNum = NO_PAGE
                            /\ frame' = [frame EXCEPT ![f] = Loaded(p, b, HitNum(0))]
    BY <1>3 DEF PinEmpty
  <2>2. \A g \in Frames : g < f => frame[g].pageNum \notin {NO_PAGE, p}
    BY <2>1, FramesExist DEF StopsAt, Frames
  <2>3. \A g \in Frames : f < g => frame[g].pageNum = NO_PAGE
    BY <2>1 DEF TInv, IInv, OneFramePerPage
  <2>4. \A g \in Frames : frame[g].pageNum # p
    BY <1>1, <2>1, <2>2, <2>3, FramesExist
  <2>5. SetHandle(c, p, b) /\ HitNum(0) = hitCount' /\ hitCount' = hitCount + 1 /\ hitCount \in Nat
    <3>1. SetHandle(c, p, b) /\ hitCount' = hitCount + 1 /\ hitCount \in Nat
      BY <1>3 DEF PinEmpty, TInv, IInv, TypeOK
    <3> QED
      BY <3>1, HitNumIs
  <2>6. \A g \in Frames : Occupies(g) => frame[g].hitNum < HitNum(0)
    <3>1. \A g \in Frames : frame[g].hitNum \in Nat
      BY DEF TInv, IInv, TypeOK, FrameType
    <3> QED
      BY <2>5, <3>1 DEF TInv, UsesOrdered
  <2> DEFINE h == HitNum(0)
  <2>7. /\ h \in Nat /\ frame' = [frame EXCEPT ![f] = Loaded(p, b, h)] /\ frame[f].pageNum = NO_PAGE
        /\ \A g \in Frames : Occupies(g) => frame[g].hitNum < h
        /\ SetHandle(c, p, b)
    BY <2>1, <2>5, <2>6
  <2> HIDE DEF h
  <2> QED
    BY <2>4, <2>7
<1> QED
  BY <1>2, <1>3

(* Frame f is used, and comes before those that were there without it. *)
LEMMA UsedComesFirst ==
  ASSUME UseQueued, UseQueued', strategy = "RS_LRU", TypeOK,
         NEW f \in Frames, NEW p \in PageNums, frame'[f].pageNum = p,
         Occupied("RS_LRU")' = Occupied("RS_LRU") \cup {f},
         \A g \in Frames : g # f => frame'[g].pageNum = frame[g].pageNum
                                    /\ frame'[g].hitNum = frame[g].hitNum,
         frame'[f].hitNum \in Nat,
         \A g \in Occupied("RS_LRU") : g # f => frame[g].hitNum < frame'[f].hitNum
  PROVE  PagesBy("RS_LRU", UseAge)' =
           <<p>> \o QueueOf(Occupied("RS_LRU") \ {f}, UseAge, PageOf)
<1> DEFINE S == Occupied("RS_LRU")
           T == S \ {f}
           K == UseAge
           L == UseAge'
           R == PageOf'
<1>1. Ordered(S, K) /\ Names(PageNums, S, PageOf) /\ S \subseteq Frames
  BY OccupiedAre DEF UseQueued, Queued
<1>2. S \cup {f} = T \cup {f} /\ f \notin T
  OBVIOUS
<1>3. Ordered(T \cup {f}, L) /\ PagesBy("RS_LRU", UseAge)' = QueueOf(T \cup {f}, L, R)
  BY <1>2 DEF UseQueued, Queued
<1>4. Ordered(T, K) /\ Names(PageNums, T, PageOf)
  <2>1. CASE f \in S
    BY <1>1, <2>1, QueueLess
  <2>2. CASE f \notin S
    <3>1. T = S
      BY <2>2
    <3> QED
      BY <1>1, <3>1
  <2> QED
    BY <2>1, <2>2
<1>5. \A g \in Frames : K[g] = -frame[g].hitNum /\ L[g] = -frame'[g].hitNum /\ frame[g].hitNum \in Nat
                        /\ PageOf[g] = frame[g].pageNum /\ R[g] = frame'[g].pageNum
  BY DEF UseAge, PageOf, TypeOK, FrameType
<1> HIDE DEF K, L, R
<1>6. Leads(f, T, PageOf, L, R)
  BY <1>1, <1>5 DEF Leads
<1>7. SameOrderOn(T, K, L) /\ R[f] = p /\ R[f] \in PageNums
  <2>1. \A g \in T : L[g] = K[g]
    BY <1>1, <1>5
  <2> QED
    BY <1>5, <2>1 DEF SameOrderOn
<1> HIDE DEF T, S
<1>8. QueueOf(T \cup {f}, L, R) = PutFirst(R[f], QueueOf(T, K, PageOf))
  BY <1>2, <1>3, <1>4, <1>6, <1>7, QueueFirst
<1> QED
  BY <1>3, <1>7, <1>8 DEF K, T, S, PutFirst

(* A page comes to an empty frame. *)
LEMMA UseLoads ==
  ASSUME TInv, TInv', UseQueued, UseQueued', strategy = "RS_LRU", strategy' = "RS_LRU", ~shared',
         NEW c \in Clients, NEW p \in PageNums, NEW b \in Buffers, NEW h \in Nat,
         NEW f \in Frames, frame' = [frame EXCEPT ![f] = Loaded(p, b, h)], SetHandle(c, p, b),
         frame[f].pageNum = NO_PAGE, \A g \in Frames : frame[g].pageNum # p,
         \A g \in Frames : Occupies(g) => frame[g].hitNum < h
  PROVE  ByUse!Ask(p)
<1> DEFINE S == Occupied("RS_LRU")
           q == PagesBy("RS_LRU", UseAge)
<1>1. /\ frame'[f].pageNum = p /\ frame'[f].hitNum = h /\ p # NO_PAGE /\ TypeOK
      /\ \A g \in Frames : g # f => frame'[g] = frame[g]
  BY PagesAreNotEmpty DEF TInv, IInv, TypeOK, Loaded
<1>2. S = {g \in Frames : Occupies(g)} /\ f \notin S /\ S \ {f} = S
  BY OccupiedAre DEF Occupies
<1>3. Occupied("RS_LRU")' = S \cup {f}
  BY <1>1, <1>2 DEF Occupied, Occupies
<1>4. q = QueueOf(S, UseAge, PageOf)
  BY DEF UseQueued, Queued
<1>5. PagesBy("RS_LRU", UseAge)' = <<p>> \o q
  <2>1. \A g \in S : g # f => frame[g].hitNum < frame'[f].hitNum
    BY <1>1, <1>2
  <2>2. PagesBy("RS_LRU", UseAge)' = <<p>> \o QueueOf(S \ {f}, UseAge, PageOf)
    BY <1>1, <1>3, <2>1, UsedComesFirst
  <2> QED
    BY <1>2, <1>4, <2>2
<1>6. ~ByUse!Contains(q, p)
  <2>1. ~ \E i \in 1 .. Len(q) : q[i] = p
    BY <1>2, QueuedIs DEF UseQueued
  <2> QED
    BY <2>1, UseOperators
<1>7. Len(q) < NumFrames
  <2>1. Len(q) = Cardinality(S)
    BY QueuedIs DEF UseQueued, IsQueue
  <2> QED
    BY <1>2, <2>1, CountOccupied
<1>8. Kept("RS_LRU")' = Kept("RS_LRU") \cup {p}
  BY <1>1, TurnKeeps
<1> QED
  BY <1>5, <1>6, <1>7, <1>8 DEF ByUse!Ask, ByUse!Load

(* A page is asked for that is there. *)
LEMMA UseTouches ==
  ASSUME TInv, TInv', UseQueued, UseQueued', strategy = "RS_LRU", strategy' = "RS_LRU", ~shared',
         NEW c \in Clients, NEW p \in PageNums, PinHit(c, p)
  PROVE  ByUse!Ask(p)
<1> DEFINE S == Occupied("RS_LRU")
           q == PagesBy("RS_LRU", UseAge)
<1>1. PICK f \in Frames :
        /\ frame[f].pageNum = p
        /\ frame' = [frame EXCEPT ![f].fixCount = @ + 1, ![f].hitNum = HitNum(@),
                                  ![f].index = IF strategy = "RS_LFU" THEN @ + 1 ELSE @]
        /\ SetHandle(c, p, frame[f].data)
  BY DEF PinHit
<1> DEFINE b == frame[f].data
           i == Place(S, UseAge, f)
<1>2. SetHandle(c, p, b)
  BY <1>1
<1> HIDE DEF b
<1>3. /\ frame \in [Frames -> FrameType] /\ p # NO_PAGE /\ TypeOK
      /\ hitCount \in Nat /\ hitCount' = hitCount + 1
  BY PagesAreNotEmpty DEF TInv, IInv, TypeOK, PinHit
<1>4. /\ frame'[f].pageNum = p /\ frame'[f].hitNum = hitCount'
      /\ \A g \in Frames : g # f => frame'[g] = frame[g]
  BY <1>1, <1>3, HitNumIs DEF FrameType
<1>5. S = {g \in Frames : Occupies(g)} /\ f \in S
  BY <1>1, <1>3, OccupiedAre DEF Occupies
<1>6. Occupied("RS_LRU")' = S \cup {f}
  BY <1>3, <1>4, <1>5 DEF Occupied, Occupies
<1>7. \A g \in S : g # f => frame[g].hitNum < frame'[f].hitNum
  <2>1. \A g \in Frames : frame[g].hitNum \in Nat
    BY <1>3 DEF FrameType
  <2>2. \A g \in S : frame[g].hitNum <= hitCount
    BY <1>5 DEF TInv, UsesOrdered
  <2> QED
    BY <1>3, <1>4, <1>5, <2>1, <2>2
<1>8. PagesBy("RS_LRU", UseAge)' = <<p>> \o QueueOf(S \ {f}, UseAge, PageOf)
  <2>1. frame'[f].hitNum \in Nat
    BY <1>3, <1>4
  <2>2. \A g \in Frames : g # f => frame'[g].pageNum = frame[g].pageNum
                                   /\ frame'[g].hitNum = frame[g].hitNum
    BY <1>4
  <2>3. frame'[f].pageNum = p /\ TypeOK
    BY <1>3, <1>4
  <2> QED
    BY <1>6, <1>7, <2>1, <2>2, <2>3, UsedComesFirst
<1>9. /\ QueueOf(S \ {f}, UseAge, PageOf) = Without(q, i)
      /\ i \in 1 .. Len(q) /\ q \in Seq(PageNums) /\ q[i] = p
  <2>1. Ordered(S, UseAge) /\ Names(PageNums, S, PageOf) /\ q = QueueOf(S, UseAge, PageOf)
    BY DEF UseQueued, Queued
  <2>2. IsQueue(q, PageNums, S, UseAge, PageOf)
    BY QueuedIs DEF UseQueued
  <2>3. i = Place(S, UseAge, f)
    OBVIOUS
  <2> HIDE DEF S, q, i
  <2>4. QueueOf(S \ {f}, UseAge, PageOf) = Without(q, i)
    BY <1>5, <2>1, <2>3, QueueLess
  <2>5. i \in 1 .. Cardinality(S)
    BY <1>5, <2>1, <2>3, PlaceOrders
  <2> QED
    BY <1>1, <1>5, <2>2, <2>3, <2>4, <2>5 DEF IsQueue, PageOf
<1>10. Kept("RS_LRU")' = Kept("RS_LRU") \cup {p}
  BY <1>2, <1>4, TurnKeeps
<1>11. ByUse!Touch(p)
  <2>1. i \in DOMAIN q
    BY <1>9
  <2> HIDE DEF q, i
  <2>2. PagesBy("RS_LRU", UseAge)' = <<p>> \o ByUse!RemoveAt(q, i) /\ q[i] = p
    BY <1>8, <1>9, UseOperators
  <2> QED
    BY <2>1, <2>2 DEF ByUse!Touch, q
<1> QED
  BY <1>10, <1>11 DEF ByUse!Ask

(* With all frames free the first is not fixed, and the victim is used least of all. *)
LEMMA LRUVictimIsOldest ==
  ASSUME TInv, Unfixed = Frames, NEW f \in Frames, LRUVictim(f)
  PROVE  \A g \in Frames : frame[f].hitNum <= frame[g].hitNum
<1>1. PICK first \in Frames :
        /\ \A g \in Frames : first <= g
        /\ \A g \in first .. NumFrames - 1 :
              IF g < f THEN frame[f].hitNum < frame[g].hitNum
              ELSE frame[f].hitNum <= frame[g].hitNum
  BY FramesExist DEF LRUVictim
<1>2. first = 0
  BY <1>1, FramesExist
<1>3. \A g \in Frames : frame[g].hitNum \in Nat
  BY DEF TInv, IInv, TypeOK, FrameType
<1> QED
  BY <1>1, <1>2, <1>3 DEF Frames

LEMMA UseReplaces ==
  ASSUME TInv, TInv', UseQueued, UseQueued', strategy = "RS_LRU", strategy' = "RS_LRU", ~shared',
         NEW c \in Clients, NEW p \in PageNums, NEW b \in Buffers, PinReplace(c, p, b)
  PROVE  ByUse!Ask(p)
<1> DEFINE S == Occupied("RS_LRU")
           q == PagesBy("RS_LRU", UseAge)
<1>1. PICK f \in Frames : Victim(f) /\ frame' = [frame EXCEPT ![f] = Loaded(p, b, HitNum(0))]
  BY DEF PinReplace
<1>2. /\ \A g \in Frames : frame[g].pageNum \notin {NO_PAGE, p}
      /\ SetHandle(c, p, b) /\ hitCount' = hitCount + 1 /\ hitCount \in Nat /\ TypeOK /\ p # NO_PAGE
  BY PagesAreNotEmpty DEF PinReplace, Full, TInv, IInv, TypeOK
<1>3. /\ frame'[f].pageNum = p /\ frame'[f].hitNum = hitCount'
      /\ \A g \in Frames : g # f => frame'[g] = frame[g]
  <2>1. HitNum(0) = hitCount'
    BY <1>2, HitNumIs
  <2> QED
    BY <1>1, <1>2, <2>1 DEF Loaded, TypeOK
<1>4. S = Frames /\ Occupied("RS_LRU")' = S \cup {f}
  BY <1>2, <1>3 DEF Occupied
<1>5. \A g \in S : g # f => frame[g].hitNum < frame'[f].hitNum
  <2>1. \A g \in Frames : frame[g].hitNum \in Nat /\ Occupies(g)
    BY <1>2 DEF TypeOK, FrameType, Occupies
  <2> QED
    BY <1>2, <1>3, <1>4, <2>1 DEF TInv, UsesOrdered
<1>6. PagesBy("RS_LRU", UseAge)' = <<p>> \o QueueOf(S \ {f}, UseAge, PageOf)
  <2>1. frame'[f].hitNum \in Nat
    BY <1>2, <1>3
  <2>2. \A g \in Frames : g # f => frame'[g].pageNum = frame[g].pageNum
                                   /\ frame'[g].hitNum = frame[g].hitNum
    BY <1>3
  <2>3. frame'[f].pageNum = p /\ TypeOK /\ Occupied("RS_LRU")' = S \cup {f}
    BY <1>2, <1>3, <1>4
  <2> QED
    BY <1>5, <2>1, <2>2, <2>3, UsedComesFirst
<1>7. Unfixed = Frames /\ Kept("RS_LRU") = {} /\ Kept("RS_LRU")' = {p}
  BY <1>2, <1>3, TurnKeeps
<1>8. Cardinality(S) = NumFrames /\ NumFrames \in Nat \ {0}
  BY <1>4, CountOccupied, FramesAssumption
<1>9. QueueOf(S \ {f}, UseAge, PageOf) = Without(q, NumFrames) /\ Len(q) = NumFrames
  <2>1. Ordered(S, UseAge) /\ Names(PageNums, S, PageOf) /\ q = QueueOf(S, UseAge, PageOf)
    BY DEF UseQueued, Queued
  <2>2. IsQueue(q, PageNums, S, UseAge, PageOf)
    BY QueuedIs DEF UseQueued
  <2>3. UpTo(S, UseAge, f) = S
    <3>1. LRUVictim(f)
      BY <1>1 DEF Victim
    <3>2. \A g \in Frames : frame[f].hitNum <= frame[g].hitNum
      BY <1>7, <3>1, LRUVictimIsOldest
    <3>3. \A g \in Frames : frame[g].hitNum \in Nat /\ UseAge[g] = -frame[g].hitNum
      BY <1>2 DEF TypeOK, FrameType, UseAge
    <3>4. \A g \in Frames : UseAge[g] <= UseAge[f]
      BY <3>2, <3>3
    <3> QED
      BY <1>4, <3>4 DEF UpTo
  <2>4. Place(S, UseAge, f) = NumFrames
    BY <1>8, <2>3 DEF Place
  <2> HIDE DEF S, q
  <2>5. QueueOf(S \ {f}, UseAge, PageOf) = Without(q, Place(S, UseAge, f))
    BY <1>4, <2>1, QueueLess
  <2> QED
    BY <1>8, <2>2, <2>4, <2>5 DEF IsQueue
<1>10. ~ByUse!Contains(q, p)
  <2>1. ~ \E j \in 1 .. Len(q) : q[j] = p
    BY <1>2, <1>4, QueuedIs DEF UseQueued
  <2> QED
    BY <2>1, UseOperators
<1>11. ByUse!Replace(p)
  <2>1. q \in Seq(PageNums)
    BY QueuedIs DEF UseQueued, IsQueue
  <2> HIDE DEF q
  <2>2. NumFrames \in DOMAIN q
    BY <1>8, <1>9, <2>1
  <2>3. PagesBy("RS_LRU", UseAge)' = <<p>> \o ByUse!RemoveAt(q, NumFrames)
    BY <1>6, <1>9, UseOperators
  <2>4. \A j \in NumFrames + 1 .. NumFrames : q[j] \in Kept("RS_LRU")
    BY <1>8
  <2> QED
    BY <1>7, <1>9, <1>10, <2>2, <2>3, <2>4 DEF ByUse!Replace, q
<1> QED
  BY <1>7, <1>11 DEF ByUse!Ask

(* Steps that leave pages, uses and loads as they are leave the queues. *)
LEMMA SameQueues ==
  ASSUME UNCHANGED <<strategy, lastIndex>>,
         \A f \in Frames : frame'[f].pageNum = frame[f].pageNum /\ frame'[f].hitNum = frame[f].hitNum,
         UseQueued, UseQueued'
  PROVE  PagesBy("RS_LRU", UseAge)' = PagesBy("RS_LRU", UseAge)
<1>1. UseAge' = UseAge /\ PageOf' = PageOf
  BY DEF UseAge, PageOf
<1>2. Occupied("RS_LRU")' = Occupied("RS_LRU")
  BY DEF Occupied
<1> QED
  BY <1>1, <1>2 DEF UseQueued, Queued

(* Whoever lets go of a page fixed it alone. *)
LEMMA NothingNewKept ==
  ASSUME UNCHANGED strategy, NEW s,
         \A f \in Frames : frame'[f].pageNum = frame[f].pageNum,
         \A f \in Frames : frame[f].fixCount = 0 => frame'[f].fixCount = 0
  PROVE  Kept(s)' \subseteq Kept(s)
<1>1. Unfixed \subseteq Unfixed'
  BY DEF Unfixed
<1>2. Occupied(s)' = Occupied(s)
  BY DEF Occupied
<1>3. \A f \in Occupied(s) : f \in Frames
  BY DEF Occupied
<1> QED
  BY <1>1, <1>2, <1>3 DEF Kept

(* Steps that change marks and counts only. *)
MarksOnly ==
    /\ UNCHANGED <<strategy, lastIndex>>
    /\ \A f \in Frames :
          /\ frame'[f].pageNum = frame[f].pageNum /\ frame'[f].hitNum = frame[f].hitNum
          /\ frame[f].fixCount = 0 => frame'[f].fixCount = 0

LEMMA MarkingMarks ==
  ASSUME TInv, NEW c \in Clients, markDirty(c)
  PROVE  MarksOnly
<1>1. frame \in [Frames -> FrameType]
  BY DEF TInv, IInv, TypeOK
<1> QED
  BY <1>1 DEF MarksOnly, markDirty, counters, FrameType

LEMMA WritingMarks ==
  ASSUME TInv, NEW S, Write(S), ~Break
  PROVE  MarksOnly
<1>1. frame \in [Frames -> FrameType]
  BY DEF TInv, IInv, TypeOK
<1>2. /\ frame' = [f \in Frames |-> [frame[f] EXCEPT !.dirty = @ /\ f \notin S]]
      /\ UNCHANGED <<strategy, counters>>
  BY DEF Write
<1>3. ASSUME NEW f \in Frames
      PROVE  /\ frame'[f].pageNum = frame[f].pageNum /\ frame'[f].hitNum = frame[f].hitNum
             /\ frame'[f].fixCount = frame[f].fixCount
  <2>1. frame[f] \in FrameType /\ frame'[f] = [frame[f] EXCEPT !.dirty = @ /\ f \notin S]
    BY <1>1, <1>2
  <2> QED
    BY <2>1 DEF FrameType
<1> QED
  BY <1>2, <1>3 DEF MarksOnly, counters

LEMMA UnpinningMarks ==
  ASSUME TInv, NEW c \in Clients, unpinPage(c), ~shared'
  PROVE  MarksOnly
<1>1. /\ frame \in [Frames -> FrameType] /\ Holds(c) /\ ~shared /\ c \in Clients
      /\ UNCHANGED <<strategy, counters>>
  BY DEF TInv, IInv, TypeOK, unpinPage, history
<1>2. c \in HoldersIn(handle, handle[c].pageNum)
  BY <1>1 DEF HoldersIn, Holds
<1>3. ASSUME NEW f \in Frames
      PROVE  /\ frame'[f].pageNum = frame[f].pageNum /\ frame'[f].hitNum = frame[f].hitNum
             /\ frame[f].fixCount = 0 => frame'[f].fixCount = 0
  <2>1. frame[f].pageNum = handle[c].pageNum => frame[f].fixCount = 1
    BY <1>1, <1>2 DEF TInv, CountsAlone
  <2>2. /\ frame[f] \in FrameType
        /\ frame'[f] = IF f \in FramesOf(handle[c].pageNum)
                       THEN [frame[f] EXCEPT !.fixCount = @ - 1] ELSE frame[f]
    BY <1>1 DEF unpinPage
  <2> QED
    BY <2>1, <2>2 DEF FramesOf, FrameType
<1> QED
  BY <1>1, <1>3 DEF MarksOnly, counters

LEMMA MarksRelease ==
  ASSUME UseQueued, UseQueued', MarksOnly
  PROVE  ByUse!Release
<1>1. PagesBy("RS_LRU", UseAge)' = PagesBy("RS_LRU", UseAge)
  BY SameQueues DEF MarksOnly
<1>2. Kept("RS_LRU")' \subseteq Kept("RS_LRU")
  BY NothingNewKept DEF MarksOnly
<1> QED
  BY <1>1, <1>2 DEF ByUse!Release

(* What a step of the program is to the pages of a pool, without what breaks it. *)
LEMMA StepPins ==
  ASSUME TInv, [Next]_vars, ~shared'
  PROVE  \/ \A f \in Frames : frame'[f].pageNum = NO_PAGE
         \/ strategy = "RS_CLOCK" /\ strategy' = "RS_CLOCK"
         \/ MarksOnly
         \/ /\ strategy' = strategy /\ Running
            /\ \E c \in Clients, p \in PageNums :
                  \/ PinHit(c, p)
                  \/ \E b \in Buffers : PinFirst(c, p, b) \/ PinEmpty(c, p, b) \/ PinReplace(c, p, b)
<1> DEFINE Empties == \A f \in Frames : frame'[f].pageNum = NO_PAGE
           Pins == /\ strategy' = strategy /\ Running
                   /\ \E c \in Clients, p \in PageNums :
                         \/ PinHit(c, p)
                         \/ \E b \in Buffers : \/ PinFirst(c, p, b) \/ PinEmpty(c, p, b)
                                               \/ PinReplace(c, p, b)
<1>1. Break => Empties
  BY DEF Break, NoFrame
<1>2. ASSUME NEW s \in Strategies, initBufferPool(s) PROVE Empties
  BY <1>2 DEF initBufferPool, NoFrame
<1>3. ASSUME NEW c \in Clients, NEW p \in PageNums, pinPage(c, p) PROVE Empties \/ Pins
  BY <1>1, <1>3 DEF pinPage, PinBreaks
<1>4. ASSUME ClockStep PROVE Empties \/ (strategy = "RS_CLOCK" /\ strategy' = "RS_CLOCK")
  BY <1>1, <1>4, ClockSteps DEF ClockTakes, ClockClears, TInv, OnlyClockSearches
<1>5. ASSUME NEW c \in Clients, markDirty(c) \/ unpinPage(c) PROVE MarksOnly
  BY <1>5, MarkingMarks, UnpinningMarks
<1>6. ASSUME NEW S, Write(S) PROVE Empties \/ MarksOnly
  BY <1>1, <1>6, WritingMarks
<1>7. UNCHANGED vars => MarksOnly
  BY DEF vars, counters, MarksOnly
<1> HIDE DEF Empties, Pins
<1>8. Empties \/ (strategy = "RS_CLOCK" /\ strategy' = "RS_CLOCK") \/ MarksOnly \/ Pins
  BY <1>2, <1>3, <1>4, <1>5, <1>6, <1>7 DEF Next, forcePage, forceFlushPool, shutdownBufferPool
<1> QED
  BY <1>8 DEF Empties, Pins

LEMMA StepEvictsLeastRecent ==
  ASSUME TInv, TInv', UseQueued, UseQueued', [Next]_vars, ~shared'
  PROVE  ByUse!Next
<1>1. CASE Occupied("RS_LRU")' = {}
  BY <1>1, NoUses DEF ByUse!Next
<1>2. CASE MarksOnly
  BY <1>2, MarksRelease DEF ByUse!Next
<1>3. CASE /\ strategy = "RS_LRU" /\ strategy' = "RS_LRU" /\ Running
           /\ \E c \in Clients, p \in PageNums :
                 \/ PinHit(c, p)
                 \/ \E b \in Buffers : PinFirst(c, p, b) \/ PinEmpty(c, p, b) \/ PinReplace(c, p, b)
  <2>1. PICK c \in Clients, p \in PageNums :
                 \/ PinHit(c, p)
                 \/ \E b \in Buffers : PinFirst(c, p, b) \/ PinEmpty(c, p, b) \/ PinReplace(c, p, b)
    BY <1>3
  <2>2. CASE PinHit(c, p)
    BY <1>3, <2>2, UseTouches DEF ByUse!Next
  <2>3. ASSUME NEW b \in Buffers, PinReplace(c, p, b) PROVE ByUse!Next
    BY <1>3, <2>3, UseReplaces DEF ByUse!Next
  <2>4. ASSUME NEW b \in Buffers, PinFirst(c, p, b) \/ PinEmpty(c, p, b) PROVE ByUse!Next
    <3>1. PICK f \in Frames, h \in Nat :
            /\ frame' = [frame EXCEPT ![f] = Loaded(p, b, h)] /\ frame[f].pageNum = NO_PAGE
            /\ \A g \in Frames : frame[g].pageNum # p
            /\ \A g \in Frames : Occupies(g) => frame[g].hitNum < h
            /\ SetHandle(c, p, b)
      BY <1>3, <2>4, FreshLoads
    <3> QED
      BY <1>3, <3>1, UseLoads DEF ByUse!Next
  <2> QED
    BY <2>1, <2>2, <2>3, <2>4
<1>4. Occupied("RS_LRU")' = {} \/ (strategy = "RS_LRU" /\ strategy' = "RS_LRU") \/ MarksOnly
  BY StepPins DEF Occupied
<1> QED
  BY <1>1, <1>2, <1>3, <1>4, StepPins DEF Occupied

(* For clients that take turns, RS_LRU replaces the page asked for the longest ago. *)
THEOREM LeastRecentIsEvicted == Spec => EvictsLeastRecent
<1>1. Init => TInv /\ ByUse!Init
  <2> SUFFICES ASSUME Init PROVE TInv /\ ByUse!Init
    OBVIOUS
  <2>1. TInv /\ Queued("RS_LRU", UseAge)
    BY InitIsCounted, UsesQueued
  <2>2. Occupied("RS_LRU") = {}
    BY DEF Init, Occupied
  <2> QED
    BY <2>1, <2>2, Emptied DEF ByUse!Init
<1>2. TInv /\ [Next]_vars => TInv'
  BY StepIsCounted
<1>3. TInv => UseQueued
  BY UsesQueued DEF UseQueued
<1>4. TInv /\ TInv' /\ UseQueued /\ UseQueued' /\ [Next]_vars
        => [~shared' => [ByUse!Next]_ByUse!vars]_vars
  BY StepEvictsLeastRecent
<1> QED
  BY <1>1, <1>2, <1>3, <1>4, PTL DEF Spec, EvictsLeastRecent

-----------------------------------------------------------------------------
(* Remainders, for FIFO. *)
LEMMA RemainderOnly ==
  ASSUME NEW N \in Nat \ {0}, NEW a \in Int, NEW q \in Int, NEW r \in 0 .. N - 1, a = N * q + r
  PROVE  a % N = r
<1> DEFINE p == a \div N
           s == a % N
<1>1. p \in Int /\ s \in 0 .. N - 1 /\ N * p + s = N * q + r
  OBVIOUS
<1> HIDE DEF p, s
<1>2. p = q
  <2>1. CASE p < q
    <3>1. N * (q - p) >= N
      BY <1>1, <2>1
    <3> QED
      BY <1>1, <3>1
  <2>2. CASE q < p
    <3>1. N * (p - q) >= N
      BY <1>1, <2>2
    <3> QED
      BY <1>1, <3>1
  <2> QED
    BY <1>1, <2>1, <2>2
<1>3. s = r
  BY <1>1, <1>2
<1> QED
  BY <1>3 DEF s

LEMMA RemainderBefore ==
  ASSUME NEW N \in Nat \ {0}, NEW a \in Int
  PROVE  (a - 1) % N = IF a % N = 0 THEN N - 1 ELSE (a % N) - 1
<1> DEFINE q == a \div N
           r == a % N
<1>1. q \in Int /\ r \in 0 .. N - 1 /\ a = N * q + r
  OBVIOUS
<1> HIDE DEF q, r
<1>2. CASE r = 0
  <2>1. a - 1 = N * (q - 1) + (N - 1) /\ a - 1 \in Int /\ q - 1 \in Int /\ N - 1 \in 0 .. N - 1
    BY <1>1, <1>2
  <2>2. (a - 1) % N = N - 1
    BY <2>1, RemainderOnly
  <2> QED
    BY <1>2, <2>2 DEF r
<1>3. CASE r # 0
  <2>1. a - 1 = N * q + (r - 1) /\ a - 1 \in Int /\ r - 1 \in 0 .. N - 1
    BY <1>1, <1>3
  <2>2. (a - 1) % N = r - 1
    BY <1>1, <2>1, RemainderOnly
  <2> QED
    BY <1>3, <2>2 DEF r
<1> QED
  BY <1>2, <1>3

LEMMA RemainderOfNegative ==
  ASSUME NEW N \in Nat \ {0}, NEW a \in -N .. -1
  PROVE  a % N = a + N
<1>1. a = N * (-1) + (a + N) /\ a + N \in 0 .. N - 1 /\ a \in Int
  OBVIOUS
<1> QED
  BY <1>1, RemainderOnly

LEMMA RemainderMeets ==
  ASSUME NEW N \in Nat \ {0}, NEW m \in Int
  PROVE  m % N \in 0 .. N - 1 /\ ((m % N) - m) % N = 0
<1>1. m \div N \in Int /\ m % N \in 0 .. N - 1 /\ m = N * (m \div N) + (m % N)
  OBVIOUS
<1>2. (m % N) - m = N * (-(m \div N)) + 0 /\ -(m \div N) \in Int /\ 0 \in 0 .. N - 1 /\ (m % N) - m \in Int
  BY <1>1
<1> QED
  BY <1>1, <1>2, RemainderOnly

LEMMA RemainderTells ==
  ASSUME NEW N \in Nat \ {0}, NEW m \in Int, NEW f \in 0 .. N - 1, NEW g \in 0 .. N - 1,
         (f - m) % N = (g - m) % N
  PROVE  f = g
<1> DEFINE a == f - m
           b == g - m
           p == a \div N
           q == b \div N
<1>1. /\ a \in Int /\ b \in Int /\ p \in Int /\ q \in Int
      /\ a = N * p + (a % N) /\ b = N * q + (b % N) /\ a % N = b % N
  OBVIOUS
<1>2. a - b = N * (p - q)
  BY <1>1
<1>3. p \in Int /\ q \in Int /\ a - b = f - g
  BY <1>1
<1> HIDE DEF p, q, a, b
<1>4. f - g = N * (p - q) /\ f - g < N /\ g - f < N
  BY <1>2, <1>3
<1>5. p = q
  <2>1. CASE p < q
    <3>1. N * (q - p) >= N
      BY <1>3, <2>1
    <3> QED
      BY <1>3, <1>4, <3>1
  <2>2. CASE q < p
    <3>1. N * (p - q) >= N
      BY <1>3, <2>2
    <3> QED
      BY <1>3, <1>4, <3>1
  <2> QED
    BY <1>3, <2>1, <2>2
<1> QED
  BY <1>3, <1>4, <1>5

-----------------------------------------------------------------------------
(* FIFO. *)
LoadQueued == Queued("RS_FIFO", LoadTime)

LEMMA LoadTimeIs ==
  ASSUME TypeOK
  PROVE  /\ \A f \in Frames : LoadTime[f] = (f - (lastIndex + 1)) % NumFrames /\ f \in Int
                              /\ f - (lastIndex + 1) \in Int /\ LoadTime[f] \in 0 .. NumFrames - 1
         /\ \A f, g \in Frames : LoadTime[f] = LoadTime[g] => f = g
         /\ NumFrames \in Nat \ {0} /\ lastIndex \in Nat /\ lastIndex + 1 \in Int
<1>1. NumFrames \in Nat \ {0} /\ lastIndex \in Nat /\ lastIndex + 1 \in Int
  BY FramesAssumption DEF TypeOK
<1>2. \A f \in Frames : LoadTime[f] = (f - (lastIndex + 1)) % NumFrames
  BY DEF LoadTime, After
<1>3. \A f \in Frames : f \in 0 .. NumFrames - 1
  BY DEF Frames
<1>4. \A f \in Frames : f \in Int /\ f - (lastIndex + 1) \in Int
  BY <1>1, <1>3
<1>5. ASSUME NEW f \in Frames PROVE LoadTime[f] \in 0 .. NumFrames - 1
  <2> DEFINE a == f - (lastIndex + 1)
  <2>1. a \in Int /\ LoadTime[f] = a % NumFrames
    BY <1>2, <1>4
  <2> HIDE DEF a
  <2> QED
    BY <1>1, <2>1
<1>6. ASSUME NEW f \in Frames, NEW g \in Frames, LoadTime[f] = LoadTime[g] PROVE f = g
  <2> DEFINE m == lastIndex + 1
  <2>1. (f - m) % NumFrames = (g - m) % NumFrames
    BY <1>2, <1>6
  <2>2. m \in Int
    BY <1>1
  <2> HIDE DEF m
  <2> QED
    BY <1>1, <1>3, <2>1, <2>2, RemainderTells
<1> QED
  BY <1>1, <1>2, <1>4, <1>5, <1>6

LEMMA LoadsQueued == ASSUME TInv PROVE Queued("RS_FIFO", LoadTime)
<1>1. TypeOK /\ Occupied("RS_FIFO") \subseteq Frames /\ IsFiniteSet(Occupied("RS_FIFO"))
  BY OccupiedAre DEF TInv, IInv
<1>2. \A f \in Frames : LoadTime[f] \in Int
  BY <1>1, LoadTimeIs
<1>3. \A f, g \in Frames : LoadTime[f] = LoadTime[g] => f = g
  BY <1>1, LoadTimeIs
<1>4. Ordered(Occupied("RS_FIFO"), LoadTime)
  BY <1>1, <1>2, <1>3 DEF Ordered
<1> QED
  BY <1>1, <1>4, OccupiedNamed, PagesByIs DEF Queued

(* Two times of load in a row: what came first comes last. *)
LEMMA LoadTimePasses ==
  ASSUME TypeOK, lastIndex' = lastIndex + 1
  PROVE  \A f \in Frames :
           LoadTime'[f] = IF LoadTime[f] = 0 THEN NumFrames - 1 ELSE LoadTime[f] - 1
<1> SUFFICES ASSUME NEW f \in Frames
             PROVE  LoadTime'[f] = IF LoadTime[f] = 0 THEN NumFrames - 1 ELSE LoadTime[f] - 1
  OBVIOUS
<1> DEFINE a == f - (lastIndex + 1)
<1>1. a \in Int /\ LoadTime[f] = a % NumFrames /\ NumFrames \in Nat \ {0} /\ lastIndex \in Nat /\ f \in Int
  BY LoadTimeIs
<1>2. LoadTime'[f] = (f - (lastIndex' + 1)) % NumFrames
  BY DEF LoadTime, After
<1>3. f - (lastIndex' + 1) = a - 1
  BY <1>1
<1> HIDE DEF a
<1>4. LoadTime'[f] = (a - 1) % NumFrames
  BY <1>2, <1>3
<1> QED
  BY <1>1, <1>4, RemainderBefore

(* Until all frames have pages, the load times are the numbers of the frames. *)
LEMMA LoadTimeOfEarly ==
  ASSUME TypeOK, NEW f \in Frames, f <= lastIndex, lastIndex < NumFrames
  PROVE  LoadTime[f] = f - (lastIndex + 1) + NumFrames
<1> DEFINE a == f - (lastIndex + 1)
<1>1. LoadTime[f] = a % NumFrames /\ NumFrames \in Nat \ {0} /\ a \in -NumFrames .. -1
  <2>1. LoadTime[f] = a % NumFrames /\ NumFrames \in Nat \ {0} /\ lastIndex \in Nat /\ f \in Int
    BY LoadTimeIs
  <2>2. 0 <= f
    BY FramesExist
  <2> QED
    BY <2>1, <2>2
<1> HIDE DEF a
<1>2. LoadTime[f] = a + NumFrames
  BY <1>1, RemainderOfNegative
<1> QED
  BY <1>2 DEF a

LEMMA LoadedComesLast ==
  ASSUME LoadQueued, LoadQueued',
         NEW f \in Frames, NEW p \in PageNums, frame'[f].pageNum = p,
         Occupied("RS_FIFO")' = Occupied("RS_FIFO") \cup {f},
         \A g \in Frames : g # f => frame'[g].pageNum = frame[g].pageNum,
         SameOrderOn(Occupied("RS_FIFO") \ {f}, LoadTime, LoadTime'),
         \A g \in Occupied("RS_FIFO") : g # f => LoadTime'[g] < LoadTime'[f]
  PROVE  PagesBy("RS_FIFO", LoadTime)' =
           Append(QueueOf(Occupied("RS_FIFO") \ {f}, LoadTime, PageOf), p)
<1> DEFINE S == Occupied("RS_FIFO")
           T == S \ {f}
           K == LoadTime
           L == LoadTime'
           R == PageOf'
<1>1. Ordered(S, K) /\ Names(PageNums, S, PageOf) /\ S \subseteq Frames
  BY OccupiedAre DEF LoadQueued, Queued
<1>2. S \cup {f} = T \cup {f} /\ f \notin T
  OBVIOUS
<1>3. Ordered(T \cup {f}, L) /\ PagesBy("RS_FIFO", LoadTime)' = QueueOf(T \cup {f}, L, R)
  BY <1>2 DEF LoadQueued, Queued
<1>4. Ordered(T, K) /\ Names(PageNums, T, PageOf)
  <2>1. CASE f \in S
    BY <1>1, <2>1, QueueLess
  <2>2. CASE f \notin S
    <3>1. T = S
      BY <2>2
    <3> QED
      BY <1>1, <3>1
  <2> QED
    BY <2>1, <2>2
<1>5. \A g \in Frames : PageOf[g] = frame[g].pageNum /\ R[g] = frame'[g].pageNum
  BY DEF PageOf
<1>6. SameOrderOn(T, K, L)
  OBVIOUS
<1> HIDE DEF K, L, R
<1>7. Follows(f, T, PageOf, L, R)
  BY <1>1, <1>5 DEF Follows, L
<1>8. R[f] = p /\ R[f] \in PageNums
  BY <1>5
<1> HIDE DEF T, S
<1>9. QueueOf(T \cup {f}, L, R) = PutLast(QueueOf(T, K, PageOf), R[f])
  BY <1>2, <1>3, <1>4, <1>6, <1>7, <1>8, QueueLast
<1> QED
  BY <1>3, <1>8, <1>9 DEF K, T, S, PutLast

LEMMA NoLoads == ASSUME LoadQueued', Occupied("RS_FIFO")' = {} PROVE ByLoad!Clear
<1>1. ASSUME NEW key, NEW q, LoadQueued', key = LoadTime', q = PagesBy("RS_FIFO", LoadTime)'
      PROVE  q = <<>>
  <2>1. /\ Ordered({}, key) /\ q = QueueOf({}, key, PageOf')
        /\ Names(PageNums, {}, PageOf')
    BY <1>1 DEF LoadQueued, Queued
  <2>2. IsQueue(q, PageNums, {}, key, PageOf')
    BY <2>1, QueueIs
  <2>3. q \in Seq(PageNums) /\ Len(q) = 0
    BY <2>2, FS_EmptySet DEF IsQueue
  <2> QED
    BY <2>3
<1>2. PagesBy("RS_FIFO", LoadTime)' = <<>> /\ Kept("RS_FIFO")' = {}
  BY <1>1 DEF Kept
<1> QED
  BY <1>2 DEF ByLoad!Clear

(* A page that is loaded comes to an empty frame and is loaded last. *)
LEMMA EmptyIsLast ==
  ASSUME TInv, Running, NEW c \in Clients, NEW p \in PageNums, NEW b \in Buffers,
         PinFirst(c, p, b) \/ PinEmpty(c, p, b)
  PROVE  \E f \in Frames, h \in Nat :
            /\ frame' = [frame EXCEPT ![f] = Loaded(p, b, h)] /\ frame[f].pageNum = NO_PAGE
            /\ SetHandle(c, p, b)
            /\ \A g \in Frames : frame[g].pageNum # p
            /\ \A g \in Frames : Occupies(g) => LoadTime'[g] < LoadTime'[f]
            /\ \A g, k \in Frames : Occupies(g) /\ Occupies(k) =>
                  (LoadTime[g] <= LoadTime[k] <=> LoadTime'[g] <= LoadTime'[k])
<1>1. p # NO_PAGE /\ TypeOK
  BY PagesAreNotEmpty DEF TInv, IInv
<1>2. CASE PinFirst(c, p, b)
  <2>1. \A g \in Frames : frame[g].pageNum = NO_PAGE
    <3> SUFFICES ASSUME NEW g \in Frames, frame[g].pageNum # NO_PAGE PROVE FALSE
      OBVIOUS
    <3>1. 0 < g
      BY <1>2, FramesExist DEF PinFirst
    <3> QED
      BY <1>2, <3>1, FramesExist DEF TInv, IInv, OneFramePerPage, PinFirst
  <2>2. \A g \in Frames : frame[g].pageNum # p /\ ~Occupies(g)
    BY <1>1, <2>1 DEF Occupies
  <2>3. /\ 0 \in Frames /\ frame[0].pageNum = NO_PAGE /\ SetHandle(c, p, b)
        /\ frame' = [frame EXCEPT ![0] = Loaded(p, b, 0)]
    BY <1>2, FramesExist DEF PinFirst
  <2> QED
    BY <2>2, <2>3
<1>3. CASE PinEmpty(c, p, b)
  <2>1. PICK f \in Frames : /\ StopsAt(f, p) /\ frame[f].pageNum = NO_PAGE
                            /\ frame' = [frame EXCEPT ![f] = Loaded(p, b, HitNum(0))]
    BY <1>3 DEF PinEmpty
  <2>2. \A g \in Frames : g < f => frame[g].pageNum \notin {NO_PAGE, p}
    BY <2>1, FramesExist DEF StopsAt, Frames
  <2>3. \A g \in Frames : f < g => frame[g].pageNum = NO_PAGE
    BY <2>1 DEF TInv, IInv, OneFramePerPage
  <2>4. \A g \in Frames : frame[g].pageNum # p
    BY <1>1, <2>1, <2>2, <2>3, FramesExist
  <2>5. \A g \in Frames : Occupies(g) <=> g <= lastIndex
    BY <1>3 DEF TInv, LoadsCounted, Occupies, PinEmpty
  <2>6. /\ SetHandle(c, p, b) /\ lastIndex' = lastIndex + 1 /\ lastIndex \in Nat
        /\ frame[0].pageNum # NO_PAGE
    BY <1>1, <1>3 DEF PinEmpty, TypeOK
  <2>7. f = lastIndex + 1 /\ f < NumFrames /\ NumFrames \in Nat
    <3>1. ~(f <= lastIndex) /\ f \in Nat /\ f < NumFrames /\ NumFrames \in Nat \ {0}
      BY <2>1, <2>5, FramesExist, FramesAssumption DEF Occupies
    <3>2. f - 1 \in Frames /\ f - 1 < f
      BY <2>6, <3>1, FramesAssumption DEF Frames
    <3>3. f - 1 <= lastIndex
      BY <2>2, <2>5, <3>2 DEF Occupies
    <3> QED
      BY <2>6, <3>1, <3>3
  <2>8. \A g \in Frames : Occupies(g) => LoadTime[g] = g - (lastIndex + 1) + NumFrames
    BY <1>1, <2>5, <2>6, <2>7, LoadTimeOfEarly
  <2>9. \A g \in Frames : LoadTime'[g] = IF LoadTime[g] = 0 THEN NumFrames - 1 ELSE LoadTime[g] - 1
    BY <1>1, <2>6, LoadTimePasses
  <2>10. LoadTime[f] = 0
    <3>1. LoadTime[f] = (f - (lastIndex + 1)) % NumFrames /\ NumFrames \in Nat \ {0}
      BY <1>1, LoadTimeIs
    <3>2. f - (lastIndex + 1) = 0
      BY <2>6, <2>7
    <3>3. 0 % NumFrames = 0
      BY <3>1
    <3> QED
      BY <3>1, <3>2, <3>3
  <2>11. \A g \in Frames : Occupies(g) =>
            /\ LoadTime[g] = g - (lastIndex + 1) + NumFrames
            /\ LoadTime'[g] = g - (lastIndex + 1) + NumFrames - 1
            /\ g \in Nat /\ g <= lastIndex
    <3> SUFFICES ASSUME NEW g \in Frames, Occupies(g)
                 PROVE  /\ LoadTime[g] = g - (lastIndex + 1) + NumFrames
                        /\ LoadTime'[g] = g - (lastIndex + 1) + NumFrames - 1
                        /\ g \in Nat /\ g <= lastIndex
      OBVIOUS
    <3>1. LoadTime[g] = g - (lastIndex + 1) + NumFrames /\ g \in Nat /\ g <= lastIndex
      BY <2>5, <2>8, FramesExist
    <3>2. LoadTime[g] # 0
      BY <2>6, <2>7, <3>1
    <3>3. LoadTime'[g] = LoadTime[g] - 1
      BY <2>9, <3>2
    <3> QED
      BY <2>6, <2>7, <3>1, <3>3
  <2>12. \A g \in Frames : Occupies(g) => LoadTime'[g] < LoadTime'[f]
    <3>1. LoadTime'[f] = NumFrames - 1
      BY <2>9, <2>10
    <3> QED
      BY <2>6, <2>7, <2>11, <3>1
  <2>13. \A g, k \in Frames : Occupies(g) /\ Occupies(k) =>
            (LoadTime[g] <= LoadTime[k] <=> LoadTime'[g] <= LoadTime'[k])
    BY <2>6, <2>7, <2>11
  <2> DEFINE h == HitNum(0)
  <2>14. h \in Nat /\ frame' = [frame EXCEPT ![f] = Loaded(p, b, h)] /\ frame[f].pageNum = NO_PAGE
    BY <1>1, <2>1, HitNumType
  <2> HIDE DEF h
  <2> QED
    BY <2>4, <2>6, <2>12, <2>13, <2>14
<1> QED
  BY <1>2, <1>3

LEMMA LoadLoads ==
  ASSUME TInv, TInv', LoadQueued, LoadQueued', strategy = "RS_FIFO", strategy' = "RS_FIFO", ~shared',
         Running, NEW c \in Clients, NEW p \in PageNums, NEW b \in Buffers,
         PinFirst(c, p, b) \/ PinEmpty(c, p, b)
  PROVE  ByLoad!Load(p)
<1> DEFINE S == Occupied("RS_FIFO")
           q == PagesBy("RS_FIFO", LoadTime)
<1>1. PICK f \in Frames, h \in Nat :
            /\ frame' = [frame EXCEPT ![f] = Loaded(p, b, h)] /\ frame[f].pageNum = NO_PAGE
            /\ SetHandle(c, p, b)
            /\ \A g \in Frames : frame[g].pageNum # p
            /\ \A g \in Frames : Occupies(g) => LoadTime'[g] < LoadTime'[f]
            /\ \A g, k \in Frames : Occupies(g) /\ Occupies(k) =>
                  (LoadTime[g] <= LoadTime[k] <=> LoadTime'[g] <= LoadTime'[k])
  BY EmptyIsLast
<1>2. /\ frame'[f].pageNum = p /\ p # NO_PAGE
      /\ \A g \in Frames : g # f => frame'[g] = frame[g]
  BY <1>1, PagesAreNotEmpty DEF TInv, IInv, TypeOK, Loaded
<1>3. S = {g \in Frames : Occupies(g)} /\ f \notin S /\ S \ {f} = S
  BY <1>1, OccupiedAre DEF Occupies
<1>4. Occupied("RS_FIFO")' = S \cup {f}
  BY <1>2, <1>3 DEF Occupied, Occupies
<1>5. q = QueueOf(S, LoadTime, PageOf)
  BY DEF LoadQueued, Queued
<1>6. PagesBy("RS_FIFO", LoadTime)' = Append(q, p)
  <2>1. SameOrderOn(S \ {f}, LoadTime, LoadTime')
    BY <1>1, <1>3 DEF SameOrderOn
  <2>2. \A g \in S : g # f => LoadTime'[g] < LoadTime'[f]
    BY <1>1, <1>3
  <2>3. \A g \in Frames : g # f => frame'[g].pageNum = frame[g].pageNum
    BY <1>2
  <2>4. PagesBy("RS_FIFO", LoadTime)' = Append(QueueOf(S \ {f}, LoadTime, PageOf), p)
    BY <1>2, <1>4, <2>1, <2>2, <2>3, LoadedComesLast
  <2> QED
    BY <1>3, <1>5, <2>4
<1>7. ~ByLoad!Contains(q, p)
  <2>1. ~ \E i \in 1 .. Len(q) : q[i] = p
    BY <1>1, <1>3, QueuedIs DEF LoadQueued
  <2> QED
    BY <2>1, LoadOperators
<1>8. Len(q) < NumFrames
  <2>1. Len(q) = Cardinality(S)
    BY QueuedIs DEF LoadQueued, IsQueue
  <2> QED
    BY <1>3, <2>1, CountOccupied
<1>9. Kept("RS_FIFO")' = Kept("RS_FIFO") \cup {p}
  BY <1>1, <1>2, TurnKeeps
<1> QED
  BY <1>6, <1>7, <1>8, <1>9 DEF ByLoad!Load

(* With all frames free the victim is the frame that the count of loads has come to. *)
LEMMA FIFOVictimIsFirst ==
  ASSUME TypeOK, Unfixed = Frames
  PROVE  /\ \A f \in Frames : FIFOVictim(f) => LoadTime[f] = 0
         /\ \E f \in Frames : FIFOVictim(f)
<1> DEFINE m == lastIndex + 1
           z == m % NumFrames
<1>1. NumFrames \in Nat \ {0} /\ m \in Int
  BY LoadTimeIs
<1>2. \A f \in Frames : LoadTime[f] = After(m, f) /\ LoadTime[f] \in 0 .. NumFrames - 1
  BY LoadTimeIs DEF LoadTime
<1>3. z \in Frames /\ After(m, z) = 0
  <2> HIDE DEF m
  <2> QED
    BY <1>1, RemainderMeets DEF Frames, After
<1> HIDE DEF z
<1>4. LoadTime[z] = 0
  BY <1>2, <1>3
<1>5. ASSUME NEW f \in Frames, FIFOVictim(f) PROVE LoadTime[f] = 0
  <2>1. After(m, f) <= After(m, z)
    BY <1>3, <1>5 DEF FIFOVictim
  <2>2. LoadTime[f] <= LoadTime[z]
    BY <1>2, <1>3, <2>1
  <2> QED
    BY <1>1, <1>2, <1>4, <2>2
<1>6. FIFOVictim(z)
  <2>1. \A g \in Frames : After(m, z) <= After(m, g)
    <3> HIDE DEF m
    <3> QED
      BY <1>1, <1>2, <1>3
  <2> QED
    BY <1>3, <2>1 DEF FIFOVictim
<1> QED
  BY <1>3, <1>5, <1>6

LEMMA LoadReplaces ==
  ASSUME TInv, TInv', LoadQueued, LoadQueued', strategy = "RS_FIFO", strategy' = "RS_FIFO", ~shared',
         NEW c \in Clients, NEW p \in PageNums, NEW b \in Buffers, PinReplace(c, p, b)
  PROVE  ByLoad!Replace(p)
<1> DEFINE S == Occupied("RS_FIFO")
           q == PagesBy("RS_FIFO", LoadTime)
<1>1. /\ \A g \in Frames : frame[g].pageNum \notin {NO_PAGE, p}
      /\ SetHandle(c, p, b) /\ lastIndex' = lastIndex + 1 /\ TypeOK /\ p # NO_PAGE
  BY PagesAreNotEmpty DEF PinReplace, Full, TInv, IInv
<1>2. Unfixed = Frames
  <2>1. ~shared /\ \A r : HoldersIn(handle, r) = {}
    BY <1>1, TurnTaken
  <2> QED
    BY <2>1, AllUnfixed DEF TInv
<1>3. PICK f \in Frames : LoadTime[f] = 0 /\ frame' = [frame EXCEPT ![f] = Loaded(p, b, HitNum(0))]
  <2>1. \E f \in Frames : Victim(f) /\ frame' = [frame EXCEPT ![f] = Loaded(p, b, HitNum(0))]
    BY <1>1, <1>2, FIFOVictimIsFirst DEF PinReplace, Victim
  <2>2. \A f \in Frames : Victim(f) => LoadTime[f] = 0
    BY <1>1, <1>2, FIFOVictimIsFirst DEF Victim
  <2> QED
    BY <2>1, <2>2
<1>4. /\ frame'[f].pageNum = p
      /\ \A g \in Frames : g # f => frame'[g] = frame[g]
  BY <1>1, <1>3 DEF Loaded, TypeOK
<1>5. S = Frames /\ Occupied("RS_FIFO")' = S \cup {f}
  BY <1>1, <1>4 DEF Occupied
<1>6. /\ NumFrames \in Nat \ {0} /\ LoadTime'[f] = NumFrames - 1
      /\ \A g \in Frames : LoadTime[g] \in 0 .. NumFrames - 1
      /\ \A g \in Frames : g # f => LoadTime[g] # 0 /\ LoadTime'[g] = LoadTime[g] - 1
  <2>1. \A g \in Frames : LoadTime'[g] = IF LoadTime[g] = 0 THEN NumFrames - 1 ELSE LoadTime[g] - 1
    BY <1>1, LoadTimePasses
  <2>2. \A g, k \in Frames : LoadTime[g] = LoadTime[k] => g = k
    BY <1>1, LoadTimeIs
  <2>3. NumFrames \in Nat \ {0} /\ \A g \in Frames : LoadTime[g] \in 0 .. NumFrames - 1
    BY <1>1, LoadTimeIs
  <2>4. \A g \in Frames : g # f => LoadTime[g] # 0
    BY <1>3, <2>2
  <2> QED
    BY <1>3, <2>1, <2>3, <2>4
<1>7. PagesBy("RS_FIFO", LoadTime)' = Append(QueueOf(S \ {f}, LoadTime, PageOf), p)
  <2>1. SameOrderOn(S \ {f}, LoadTime, LoadTime')
    BY <1>5, <1>6 DEF SameOrderOn
  <2>2. \A g \in S : g # f => LoadTime'[g] < LoadTime'[f]
    BY <1>5, <1>6
  <2>3. \A g \in Frames : g # f => frame'[g].pageNum = frame[g].pageNum
    BY <1>4
  <2> QED
    BY <1>4, <1>5, <2>1, <2>2, <2>3, LoadedComesLast
<1>8. Cardinality(S) = NumFrames
  BY <1>5, CountOccupied
<1>9. QueueOf(S \ {f}, LoadTime, PageOf) = Without(q, 1) /\ Len(q) = NumFrames /\ q \in Seq(PageNums)
  <2>1. Ordered(S, LoadTime) /\ Names(PageNums, S, PageOf) /\ q = QueueOf(S, LoadTime, PageOf)
    BY DEF LoadQueued, Queued
  <2>2. IsQueue(q, PageNums, S, LoadTime, PageOf)
    BY QueuedIs DEF LoadQueued
  <2>3. UpTo(S, LoadTime, f) = {f}
    <3>1. \A g \in Frames : LoadTime[g] <= LoadTime[f] <=> g = f
      BY <1>3, <1>6
    <3> QED
      BY <1>5, <3>1 DEF UpTo
  <2>4. Place(S, LoadTime, f) = 1
    BY <2>3, FS_Singleton DEF Place
  <2> HIDE DEF S, q
  <2>5. QueueOf(S \ {f}, LoadTime, PageOf) = Without(q, Place(S, LoadTime, f))
    BY <1>5, <2>1, QueueLess
  <2> QED
    BY <1>8, <2>2, <2>4, <2>5 DEF IsQueue
<1>10. ~ByLoad!Contains(q, p)
  <2>1. (\E j \in 1 .. Len(q) : q[j] = p) <=> \E g \in S : frame[g].pageNum = p
    <3>1. LoadQueued <=> Queued("RS_FIFO", LoadTime)
      BY DEF LoadQueued
    <3> QED
      BY <3>1, QueuedIs
  <2> HIDE DEF q
  <2>2. ~ \E j \in 1 .. Len(q) : q[j] = p
    BY <1>1, <1>5, <2>1
  <2> QED
    BY <2>2, LoadOperators
<1>11. Kept("RS_FIFO") = {} /\ Kept("RS_FIFO")' = {p}
  BY <1>1, <1>4, TurnKeeps
<1> HIDE DEF q
<1>12. 1 \in DOMAIN q /\ \A j \in 1 .. 1 - 1 : q[j] \in Kept("RS_FIFO")
  BY <1>6, <1>9
<1>13. PagesBy("RS_FIFO", LoadTime)' = Append(ByLoad!RemoveAt(q, 1), p)
  BY <1>7, <1>9, LoadOperators
<1>14. q[1] \notin Kept("RS_FIFO")
  BY <1>11
<1> QED
  BY <1>9, <1>10, <1>11, <1>12, <1>13, <1>14 DEF ByLoad!Replace, q

(* Steps that change no page and load none. *)
LEMMA PagesStay ==
  ASSUME LoadQueued, LoadQueued', UNCHANGED <<strategy, lastIndex>>,
         \A f \in Frames : frame'[f].pageNum = frame[f].pageNum
  PROVE  ByLoad!KeepOrRelease
<1> DEFINE q == PagesBy("RS_FIFO", LoadTime)
<1>1. LoadTime' = LoadTime /\ PageOf' = PageOf
  BY DEF LoadTime, PageOf, After
<1>2. Occupied("RS_FIFO")' = Occupied("RS_FIFO")
  BY DEF Occupied
<1>3. q' = q
  BY <1>1, <1>2 DEF LoadQueued, Queued
<1>4. Kept("RS_FIFO")' \subseteq {frame[f].pageNum : f \in Occupied("RS_FIFO")}
  BY <1>2 DEF Kept, Occupied
<1>5. /\ \A e : (\E i \in 1 .. Len(q) : q[i] = e) <=> \E f \in Occupied("RS_FIFO") : frame[f].pageNum = e
      /\ q \in Seq(PageNums)
  <2>1. Queued("RS_FIFO", LoadTime)
    BY DEF LoadQueued
  <2>2. IsQueue(q, PageNums, Occupied("RS_FIFO"), LoadTime, PageOf)
    BY <2>1, QueuedIs
  <2>3. \A e : (\E i \in 1 .. Len(q) : q[i] = e) <=> \E f \in Occupied("RS_FIFO") : frame[f].pageNum = e
    BY <2>1, QueuedIs
  <2> QED
    BY <2>2, <2>3 DEF IsQueue
<1>6. Kept("RS_FIFO")' \subseteq ByLoad!ToSet(q)
  <2> HIDE DEF q
  <2>1. ByLoad!ToSet(q) = {q[i] : i \in 1 .. Len(q)}
    BY <1>5 DEF ByLoad!ToSet
  <2> QED
    BY <1>4, <1>5, <2>1
<1> QED
  BY <1>3, <1>6 DEF ByLoad!KeepOrRelease

LEMMA StepEvictsFirstIn ==
  ASSUME TInv, TInv', LoadQueued, LoadQueued', [Next]_vars, ~shared'
  PROVE  ByLoad!Next
<1>1. CASE Occupied("RS_FIFO")' = {}
  BY <1>1, NoLoads DEF ByLoad!Next
<1>2. CASE MarksOnly
  BY <1>2, PagesStay DEF ByLoad!Next, MarksOnly
<1>3. CASE /\ strategy = "RS_FIFO" /\ strategy' = "RS_FIFO" /\ Running
           /\ \E c \in Clients, p \in PageNums :
                 \/ PinHit(c, p)
                 \/ \E b \in Buffers : PinFirst(c, p, b) \/ PinEmpty(c, p, b) \/ PinReplace(c, p, b)
  <2>1. PICK c \in Clients, p \in PageNums :
                 \/ PinHit(c, p)
                 \/ \E b \in Buffers : PinFirst(c, p, b) \/ PinEmpty(c, p, b) \/ PinReplace(c, p, b)
    BY <1>3
  <2>2. CASE PinHit(c, p)
    <3>1. frame \in [Frames -> FrameType]
      BY DEF TInv, IInv, TypeOK
    <3>2. UNCHANGED lastIndex /\ \A f \in Frames : frame'[f].pageNum = frame[f].pageNum
      BY <2>2, <3>1 DEF PinHit, FrameType
    <3> QED
      BY <1>3, <3>2, PagesStay DEF ByLoad!Next
  <2>3. ASSUME NEW b \in Buffers, PinReplace(c, p, b) PROVE ByLoad!Next
    BY <1>3, <2>3, LoadReplaces DEF ByLoad!Next
  <2>4. ASSUME NEW b \in Buffers, PinFirst(c, p, b) \/ PinEmpty(c, p, b) PROVE ByLoad!Next
    BY <1>3, <2>4, LoadLoads DEF ByLoad!Next
  <2> QED
    BY <2>1, <2>2, <2>3, <2>4
<1> QED
  BY <1>1, <1>2, <1>3, StepPins DEF Occupied

(* For clients that take turns, RS_FIFO is first in, first out, whatever was hit, and
   whatever the frames were that were empty. *)
THEOREM FirstInIsEvicted == Spec => EvictsFirstIn
<1>1. Init => TInv /\ ByLoad!Init
  <2> SUFFICES ASSUME Init PROVE TInv /\ ByLoad!Init
    OBVIOUS
  <2>1. TInv /\ Queued("RS_FIFO", LoadTime)
    BY InitIsCounted, LoadsQueued
  <2>2. Occupied("RS_FIFO") = {}
    BY DEF Init, Occupied, NoFrame
  <2> QED
    BY <2>1, <2>2, Emptied DEF ByLoad!Init
<1>2. TInv /\ [Next]_vars => TInv'
  BY StepIsCounted
<1>3. TInv => LoadQueued
  BY LoadsQueued DEF LoadQueued
<1>4. TInv /\ TInv' /\ LoadQueued /\ LoadQueued' /\ [Next]_vars
        => [~shared' => [ByLoad!Next]_ByLoad!vars]_vars
  BY StepEvictsFirstIn
<1> QED
  BY <1>1, <1>2, <1>3, <1>4, PTL DEF Spec, EvictsFirstIn
==============================================================================

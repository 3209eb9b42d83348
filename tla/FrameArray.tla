----------------------------- MODULE FrameArray -----------------------------
(***************************************************************************)
(* The buffer pool of assign3_record_manager: an array of frames over a    *)
(* page file.  The functions of buffer_mgr.c appear as operators from one  *)
(* state of the pool to the next, because the record manager above makes   *)
(* several calls in one of its own; FramePool and RecordManager make steps *)
(* of them.                                                                *)
(*                                                                         *)
(* A pool bp is a record: strategy; page, fix, dirty and data of every     *)
(* frame; heap, the bytes of the buffers that data points to; and file,    *)
(* the pages of the file, which the pool opens anew for each call.         *)
(***************************************************************************)
EXTENDS Integers, Sequences, FiniteSetsExt

CONSTANTS
    NumFrames,    \* the numPages argument of initBufferPool
    NumBuffers,   \* bound: buffers of PAGE_SIZE bytes that somebody points to
    Blank         \* a page of zeros

ASSUME FramesAssumption == NumFrames \in Nat \ {0, 1}
ASSUME BuffersAssumption == NumBuffers \in Nat /\ NumBuffers > NumFrames

NO_PAGE == -1
NULL == 0
Frames == 0 .. NumFrames - 1
Buffers == 1 .. NumBuffers

EmptyPool(strategy, file) ==
    [strategy |-> strategy,
     page |-> [f \in Frames |-> NO_PAGE],
     fix |-> [f \in Frames |-> 0],
     dirty |-> [f \in Frames |-> FALSE],
     data |-> [f \in Frames |-> NULL],
     heap |-> [b \in Buffers |-> Blank],
     file |-> file]

NewBufferOfAFrame(bp, held) == Min(Buffers \ held)

(* malloc: a buffer that no frame and no handle points to. *)
NewBuffer(bp, held) == Min(Buffers \ (held \cup {bp.data[f] : f \in Frames}))

Bytes(bp, f) == bp.heap[bp.data[f]]
FramesOf(bp, p) == {f \in Frames : bp.page[f] = p}
UnfixedIn(bp) == {f \in Frames : bp.fix[f] = 0}

-----------------------------------------------------------------------------
(* The storage manager, as the pool calls it.  No return code is looked at. *)

NoFile == [present |-> FALSE, pages |-> <<>>]
NewFile == [present |-> TRUE, pages |-> <<Blank>>]

HasPage(file, p) == file.present /\ p < Len(file.pages)

(* A page that is not there leaves the buffer as malloc returned it. *)
readBlock(file, p, junk) == IF HasPage(file, p) THEN file.pages[p + 1] ELSE junk

Padded(file, n) ==
    [i \in 1 .. n |-> IF i <= Len(file.pages) THEN file.pages[i] ELSE Blank]

(* ensureCapacity(p) makes room for p pages, the last of which is p - 1. *)
ensureCapacity(file, p) ==
    IF file.present /\ Len(file.pages) < p
    THEN [file EXCEPT !.pages = Padded(file, p)]
    ELSE file

writeBlocksInPlace(bp, S) ==
    LET Writers(i) == {f \in S : bp.page[f] = i - 1}
    IN  [bp.file EXCEPT !.pages =
            [i \in DOMAIN @ |-> IF Writers(i) # {} THEN Bytes(bp, Min(Writers(i))) ELSE @[i]]]

(* The file after writeBlock of the frames of S; one without a page cannot be
   sought.  Frames that hold the same page share its buffer. *)
writeBlocks(bp, S) ==
    LET W == {f \in S : bp.page[f] # NO_PAGE}
        size == Max({Len(bp.file.pages)} \cup {bp.page[f] + 1 : f \in W})
        Writers(i) == {f \in W : bp.page[f] = i - 1}
    IN  IF bp.file.present
        THEN [bp.file EXCEPT !.pages =
                 [i \in 1 .. size |-> IF Writers(i) # {} THEN Bytes(bp, Min(Writers(i)))
                                      ELSE Padded(bp.file, size)[i]]]
        ELSE bp.file

-----------------------------------------------------------------------------
(* pinPage. *)

(* Page p with the given bytes in buffer b becomes the page of all frames of S. *)
Fill(bp, S, p, b, bytes) ==
    [bp EXCEPT !.page = [f \in Frames |-> IF f \in S THEN p ELSE @[f]],
               !.fix = [f \in Frames |-> IF f \in S THEN 1 ELSE @[f]],
               !.dirty = [f \in Frames |-> @[f] /\ f \notin S],
               !.data = [f \in Frames |-> IF f \in S THEN b ELSE @[f]],
               !.heap[b] = bytes]

(* The scan of the frames stops at the first that is empty or holds p. *)
StopsAt(bp, p) == {f \in Frames : bp.page[f] \in {NO_PAGE, p}}

PinFirst(bp, p, b, junk) ==
    LET file == ensureCapacity(bp.file, p)
    IN  Fill([bp EXCEPT !.file = file], {0}, p, b, readBlock(file, p, junk))

PinFoundUncounted(bp, p, b, junk) ==
    LET f == Min(StopsAt(bp, p))
    IN  IF bp.page[f] = p
        THEN bp
        ELSE Fill(bp, {f}, p, b, readBlock(bp.file, p, junk))

PinFound(bp, p, b, junk) ==
    LET f == Min(StopsAt(bp, p))
    IN  IF bp.page[f] = p
        THEN [bp EXCEPT !.fix[f] = @ + 1]
        ELSE Fill(bp, {f}, p, b, readBlock(bp.file, p, junk))

(* FIFO does not stop at its victim: every unfixed frame gets the new page, and
   of those it overwrites it writes back the ones that are not dirty. *)
FIFO(bp, p, b, junk) ==
    LET clean == {f \in UnfixedIn(bp) : ~bp.dirty[f]}
    IN  Fill([bp EXCEPT !.file = writeBlocks(bp, clean)],
             UnfixedIn(bp), p, b, readBlock(bp.file, p, junk))

(* The search of LRU compares every hit count with a minimum that includes it and
   never moves on from frame 0, fixed or not; what it would write back goes to
   a file whose name is the frame array, which does not exist. *)
LRU(bp, p, b, junk) == Fill(bp, {0}, p, b, readBlock(bp.file, p, junk))

Pin(bp, p, b, junk) ==
    CASE bp.page[0] = NO_PAGE -> PinFirst(bp, p, b, junk)
      [] bp.page[0] # NO_PAGE /\ StopsAt(bp, p) # {} -> PinFound(bp, p, b, junk)
      [] StopsAt(bp, p) = {} /\ bp.strategy = "RS_FIFO" -> FIFO(bp, p, b, junk)
      [] StopsAt(bp, p) = {} /\ bp.strategy = "RS_LRU" -> LRU(bp, p, b, junk)

(* The buffer that the page handle is given. *)
PinData(bp, p, b) ==
    IF bp.page[0] # NO_PAGE /\ StopsAt(bp, p) # {} /\ bp.page[Min(StopsAt(bp, p))] = p
    THEN bp.data[Min(StopsAt(bp, p))]
    ELSE b

-----------------------------------------------------------------------------
UnpinForgotten(bp, p) == bp

(* unpinPage counts down every frame that holds the page. *)
Unpin(bp, p) ==
    [bp EXCEPT !.fix = [f \in Frames |-> IF bp.page[f] = p THEN @[f] - 1 ELSE @[f]]]

(* markDirty marks every frame, the empty ones included. *)
MarkDirty(bp) == [bp EXCEPT !.dirty = [f \in Frames |-> TRUE]]

ForcePage(bp, p) ==
    [bp EXCEPT !.file = writeBlocks(bp, FramesOf(bp, p)),
               !.dirty = [f \in Frames |->
                   @[f] /\ ~(bp.file.present /\ bp.page[f] = p)]]

(* forceFlushPool stops at the first dirty frame, and writes those before it
   that are unfixed. *)
ToFlush(bp) == {f \in UnfixedIn(bp) : \A g \in 0 .. f : ~bp.dirty[g]}

ForceFlushPool(bp) == [bp EXCEPT !.file = writeBlocks(bp, ToFlush(bp))]

(* shutdownBufferPool, after a flush: the loop looks at frame 0 and from then on
   at frame 1, until one of the two is fixed. *)
ShutdownReturns(bp) == bp.fix[0] # 0 \/ bp.fix[1] # 0
=============================================================================

--------------------------- MODULE MCStrategyPool ---------------------------
(* Instances of StrategyPool for TLC. *)
EXTENDS StrategyPool

MCPageNums == 0 .. 3
MCBuffers == 1 .. 5
MCStrategies == {"RS_FIFO", "RS_LRU", "RS_CLOCK", "RS_LFU", "RS_LRU_K"}

(* The pool compares page numbers and nothing else: the pages that come first can
   be 0, 1 and 2. *)
FirstPagesInOrder ==
    lastIndex < NumFrames => \A f \in Frames : frame[f].pageNum \in {NO_PAGE, f}

(* Bound: what is written does not depend on how many frames are dirty. *)
OneDirtyFrame == Cardinality({f \in Frames : frame[f].dirty}) <= 1
=============================================================================

--------------------------- MODULE MCRecordManager ---------------------------
(* Instances of RecordManager for TLC. *)
EXTENDS RecordManager, TLC

CONSTANTS
    MaxPins,      \* bound: pins of one page that are told apart
    MaxTuples     \* bound: how far the count of tuples may go

(* A condition that deleted records satisfy too. *)
MCConditions == {{"dashes"} \cup Values}

Bounded == tCount <= MaxTuples

(* More than MaxPins pins of a page are as good as MaxPins, and those of the first
   two frames decide about the end of shutdownBufferPool.  Of the file and the
   buffers it matters what the next call finds: the pages of the instance fit
   into the frames, and none is read a second time. *)
PinsToldApart(n) == IF n > MaxPins THEN MaxPins ELSE IF n < -MaxPins THEN -MaxPins ELSE n

WhatCallsFind ==
    IF mgr \in {"none", "hung", "crashed"} THEN <<mgr, bp.file.present, inserted>>
    ELSE <<mgr, bp.page, bp.file.present, scan, inserted,
           IF mgr = "open" THEN <<tCount, freePg>> ELSE <<>>,
           [f \in {0, 1} |-> PinsToldApart(bp.fix[f])],
           [p \in 0 .. MaxPage |-> DeliveredBy(bp, p)]>>

ValueSymmetry == Permutations(Values)
=============================================================================

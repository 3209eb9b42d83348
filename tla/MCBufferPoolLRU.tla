--------------------------- MODULE MCBufferPoolLRU --------------------------
(* Instances of BufferPoolLRU for TLC. *)
EXTENDS BufferPoolLRU, TLC

MCPageNums == 0 .. 3

(* Bound: the bytes of two pages are enough to lose some; others are only read,
   and pages are marked that somebody stored bytes in. *)
TwoPagesStored ==
    stored \subseteq {0, 1} /\ \A i \in Places : list[i].dirty => list[i].pageNum \in stored

(* What is claimed of clients that were not careful does not depend on the bytes:
   those only read. *)
CarelessOnlyRead == careful \/ (stored \subseteq {0} /\ \A i \in Places : ~list[i].dirty)

(* Nothing depends on the numbers of the frames but what getFrameContents shows. *)
NodeWithoutFrame(i) == <<list[i].pageNum, list[i].fixCount, list[i].dirty, list[i].content>>
WithoutFrames ==
    <<pool, [i \in Places |-> NodeWithoutFrame(i)], evicted, cut, fileVars, clientVars>>

ClientSymmetry == Permutations(Clients)
=============================================================================

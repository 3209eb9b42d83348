-------------------------- MODULE MCBufferPoolFIFO --------------------------
(* Instances of BufferPoolFIFO for TLC. *)
EXTENDS BufferPoolFIFO, TLC

MCPageNums == 0 .. 2
MCFourPages == {-10} \cup 0 .. 2

(* The order of replacement does not depend on the bytes: clients that only read. *)
ReadersOnly == stored \subseteq {0} /\ total <= 1 /\ \A f \in Frames : ~dirty[f]

(* Bound: how far below zero unpins of pages one does not hold may take a fix count.
   The code tells only 0 from other counts; what goes below the bound is checked,
   and not continued. *)
MinFixCount == -2
FixCountsBounded == \A f \in Frames : fixCount[f] >= MinFixCount

ClientSymmetry == Permutations(Clients)
=============================================================================

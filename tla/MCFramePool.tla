----------------------------- MODULE MCFramePool -----------------------------
(* Instances of FramePool for TLC. *)
EXTENDS FramePool, TLC

ClientSymmetry == Permutations(Clients)

(* A buffer is who points to it and what it holds; its number, and what is left in
   buffers that nobody points to, do not matter; nor does "saved"
   once a page was shared, because no property looks at it. *)
Pointers(b) == <<{f \in Frames : bp.data[f] = b}, {c \in Clients : handle[c].data = b},
                 IF b = NULL THEN Blank ELSE bp.heap[b]>>

WithoutNumbers ==
    <<pool, bp.strategy, bp.page, bp.fix, bp.dirty, bp.file, shared,
      IF shared THEN <<>> ELSE saved,
      [c \in Clients |-> handle[c].pageNum],
      {Pointers(b) : b \in HeldBuffers \cup {bp.data[f] : f \in Frames}}>>
=============================================================================

-------------------------- MODULE MCStorageManager --------------------------
(* Instances of StorageManager for TLC. *)
EXTENDS StorageManager, TLC

HandleSymmetry == Permutations(Handles)

(* Once two files were open together no property looks at bytes. *)
BytesOfOneFile ==
    <<exists, filePtr, handle, rc, together,
      IF together THEN [n \in Names |-> Len(pages[n])] ELSE <<pages, mem>> >>
=============================================================================

----------------------------- MODULE LRUPolicy ------------------------------
(***************************************************************************)
(* Least recently used, as a replacement policy promises it: a page that   *)
(* is asked for comes to the front of a queue, whether it was there or     *)
(* not, and when the queue is full the page that leaves is the one that    *)
(* was not asked for the longest, of those nobody keeps.                   *)
(***************************************************************************)
EXTENDS Naturals, Sequences, SequencesExt

CONSTANTS
    Pages,      \* the pages that can be asked for
    Capacity    \* the length of a full queue

VARIABLES
    queue,      \* the pages there are, the one asked for last at the head
    kept        \* the pages that may not leave now

vars == <<queue, kept>>

Init == queue = <<>> /\ kept = {}

Touch(p) ==
    \E i \in DOMAIN queue : queue[i] = p /\ queue' = <<p>> \o RemoveAt(queue, i)

Load(p) ==
    /\ ~Contains(queue, p)
    /\ Len(queue) < Capacity
    /\ queue' = <<p>> \o queue

Replace(p) ==
    /\ ~Contains(queue, p)
    /\ Len(queue) = Capacity
    /\ \E i \in DOMAIN queue :
        /\ queue[i] \notin kept
        /\ \A j \in i + 1 .. Capacity : queue[j] \in kept
        /\ queue' = <<p>> \o RemoveAt(queue, i)

Ask(p) ==
    /\ Touch(p) \/ Load(p) \/ Replace(p)
    /\ kept' = kept \cup {p}

Release == kept' \in SUBSET kept /\ UNCHANGED queue

Clear == queue' = <<>> /\ kept' = {}

Next ==
    \/ \E p \in Pages : Ask(p)
    \/ Release
    \/ Clear

Spec == Init /\ [][Next]_vars
=============================================================================

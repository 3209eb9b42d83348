----------------------------- MODULE FIFOPolicy -----------------------------
(***************************************************************************)
(* First in, first out, as a replacement policy promises it: a page enters *)
(* at the end of a queue, and when the queue is full the page that leaves  *)
(* is the one that came first among those nobody keeps.  A page that is    *)
(* asked for again stays where it is.                                      *)
(***************************************************************************)
EXTENDS Naturals, Sequences, SequencesExt

CONSTANTS
    Pages,      \* the pages that can be asked for
    Capacity    \* the length of a full queue

VARIABLES
    queue,      \* the pages kept, the one that came first at the head
    kept        \* the pages that may not leave now

vars == <<queue, kept>>

Init == queue = <<>> /\ kept = {}

Load(p) ==
    /\ Len(queue) < Capacity
    /\ ~Contains(queue, p)
    /\ queue' = Append(queue, p)
    /\ kept' = kept \cup {p}

Replace(p) ==
    /\ Len(queue) = Capacity
    /\ ~Contains(queue, p)
    /\ \E i \in DOMAIN queue :
        /\ queue[i] \notin kept
        /\ \A j \in 1 .. i - 1 : queue[j] \in kept
        /\ queue' = Append(RemoveAt(queue, i), p)
    /\ kept' = kept \cup {p}

KeepOrRelease ==
    /\ kept' \in SUBSET ToSet(queue)
    /\ UNCHANGED queue

Clear == queue' = <<>> /\ kept' = {}

Next ==
    \/ \E p \in Pages : Load(p) \/ Replace(p)
    \/ KeepOrRelease
    \/ Clear

Spec == Init /\ [][Next]_vars
=============================================================================

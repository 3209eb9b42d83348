------------------------------ MODULE KeyIndex ------------------------------
(***************************************************************************)
(* What an index promises: it keeps, for every key, the record ids that    *)
(* were inserted under it and not deleted, finds the oldest of them and    *)
(* counts them all.  Closing the index gives up what it kept.              *)
(***************************************************************************)
EXTENDS Naturals, Sequences, SequencesExt, FiniteSets

CONSTANTS
    Keys,       \* what can be inserted, found and deleted
    RIDs,       \* what a key is mapped to
    OK,         \* the answer of a call that asks nothing
    NotFound,   \* the answer for a key that is not there
    NoMore      \* the answer of a scan that is at its end

VARIABLES
    ready,      \* whether there is an index
    rids,       \* the record ids of each key, oldest first
    answer      \* what the last call answered

vars == <<ready, rids, answer>>

Empty == [k \in Keys |-> <<>>]

Init == ready = FALSE /\ rids = Empty /\ answer = OK

Create == ready' = TRUE /\ rids' = Empty /\ answer' = OK

Lose == ready' = FALSE /\ rids' = Empty /\ answer' = OK

Insert(k, r) ==
    /\ ready
    /\ rids' = [rids EXCEPT ![k] = Append(@, r)]
    /\ answer' = OK
    /\ UNCHANGED ready

Delete(k) ==
    /\ ready
    /\ rids' = [rids EXCEPT ![k] = IF @ = <<>> THEN @ ELSE Tail(@)]
    /\ answer' = OK
    /\ UNCHANGED ready

Find(k) ==
    /\ ready
    /\ answer' = IF rids[k] = <<>> THEN NotFound ELSE Head(rids[k])
    /\ UNCHANGED <<ready, rids>>

Entries == UNION {{k} \X DOMAIN rids[k] : k \in Keys}

CountEntries ==
    /\ ready
    /\ answer' = [entries |-> Cardinality(Entries)]
    /\ UNCHANGED <<ready, rids>>

(* A scan answers record ids; their order is not the index's concern. *)
Scan ==
    /\ ready
    /\ answer' \in (UNION {ToSet(rids[k]) : k \in Keys}) \cup {OK, NoMore}
    /\ UNCHANGED <<ready, rids>>

Next ==
    \/ Create
    \/ Lose
    \/ \E k \in Keys, r \in RIDs : Insert(k, r)
    \/ \E k \in Keys : Delete(k) \/ Find(k)
    \/ CountEntries
    \/ Scan

Spec == Init /\ [][Next]_vars
=============================================================================

------------------------------- MODULE Table -------------------------------
(***************************************************************************)
(* What a record manager promises: a table of records.  Every insertion    *)
(* answers with an id that no record has, looking up an id answers with    *)
(* its record, and no call touches any other record than its own.  A       *)
(* record that is updated after its deletion is back.                      *)
(***************************************************************************)
CONSTANTS
    Rids,       \* the ids a record can get
    Values,     \* what a record can be
    NoRecord    \* stands for an id without a record

VARIABLES
    recs,       \* the record of every id
    answer      \* what the last call answered

vars == <<recs, answer>>

Init ==
    /\ recs = [r \in Rids |-> NoRecord]
    /\ answer = <<"other">>

Create ==
    /\ recs' = [r \in Rids |-> NoRecord]
    /\ answer' = <<"other">>

Insert(r, v) ==
    /\ recs[r] = NoRecord
    /\ recs' = [recs EXCEPT ![r] = v]
    /\ answer' = <<"inserted", r>>

Update(r, v) ==
    /\ recs' = [recs EXCEPT ![r] = v]
    /\ answer' = <<"updated", r>>

Delete(r) ==
    /\ recs' = [recs EXCEPT ![r] = NoRecord]
    /\ answer' = <<"deleted", r>>

Get(r) ==
    /\ answer' = <<"got", r, recs[r]>>
    /\ UNCHANGED recs

(* Scans, opening, closing and failing. *)
Other ==
    /\ answer' = <<"other">>
    /\ UNCHANGED recs

Next ==
    \/ Create
    \/ \E r \in Rids, v \in Values : Insert(r, v) \/ Update(r, v)
    \/ \E r \in Rids : Delete(r) \/ Get(r)
    \/ Other

Spec == Init /\ [][Next]_vars
=============================================================================

----------------------------- MODULE PageStore -----------------------------
(***************************************************************************)
(* What a buffer pool promises its clients, with no frames, no dirty flags *)
(* and no file: a store of pages.  A client pins a page, reads and writes  *)
(* it through its page handle, and unpins it.  Everybody who holds a page  *)
(* sees the same bytes, and a page that was ever stored holds the bytes    *)
(* stored last, whoever evicted, flushed, closed or reopened what in       *)
(* between.  At most Capacity pages can be held at the same time; the      *)
(* store may fail only while Enough pages are held, or while it does not   *)
(* exist.                                                                  *)
(***************************************************************************)
EXTENDS Integers, FiniteSets

CONSTANTS
    Clients,    \* the page handles
    PageNums,   \* the pages the clients ask for
    Data,       \* what a page can hold
    Blank,      \* what page 0 of a new store holds
    Unstored,   \* stands for the contents of a page nobody ever stored
    NoPage,     \* what a client holds when it holds no page
    Capacity,   \* how many pages can be held at the same time
    Enough      \* how many have to be held for a failure to be excused

VARIABLES
    up,         \* FALSE once the store has failed
    exists,     \* whether the store was created and not destroyed
    mem,        \* the contents of every page
    held,       \* the page each client holds, or NoPage
    view        \* what each client reads through its handle

vars == <<up, exists, mem, held, view>>

HeldPages == {held[c] : c \in Clients} \ {NoPage}
Holders(p) == {c \in Clients : held[c] = p}

TypeOK ==
    /\ up \in BOOLEAN
    /\ exists \in BOOLEAN
    /\ mem \in [PageNums -> Data \cup {Unstored}]
    /\ held \in [Clients -> PageNums \cup {NoPage}]
    /\ view \in [Clients -> Data \cup {Unstored}]

Init ==
    /\ up = TRUE
    /\ exists = FALSE
    /\ mem = [p \in PageNums |-> Unstored]
    /\ held = [c \in Clients |-> NoPage]
    /\ view = [c \in Clients |-> Unstored]

Create ==
    /\ up
    /\ HeldPages = {}
    /\ exists' = TRUE
    /\ mem' = [p \in PageNums |-> IF p = 0 THEN Blank ELSE Unstored]
    /\ UNCHANGED <<up, held, view>>

Destroy ==
    /\ up
    /\ HeldPages = {}
    /\ exists' = FALSE
    /\ mem' = [p \in PageNums |-> Unstored]
    /\ UNCHANGED <<up, held, view>>

(* The bytes of a page nobody stored are whatever the holders agree on. *)
Pin(c, p) ==
    /\ up
    /\ exists
    /\ held[c] = NoPage
    /\ Cardinality(HeldPages \cup {p}) <= Capacity
    /\ \E d \in Data :
          /\ mem[p] # Unstored => d = mem[p]
          /\ \A o \in Holders(p) : d = view[o]
          /\ view' = [view EXCEPT ![c] = d]
    /\ held' = [held EXCEPT ![c] = p]
    /\ UNCHANGED <<up, exists, mem>>

Write(c, d) ==
    /\ up
    /\ held[c] # NoPage
    /\ mem' = [mem EXCEPT ![held[c]] = d]
    /\ view' = [o \in Clients |-> IF held[o] = held[c] THEN d ELSE view[o]]
    /\ UNCHANGED <<up, exists, held>>

Unpin(c) ==
    /\ up
    /\ held[c] # NoPage
    /\ held' = [held EXCEPT ![c] = NoPage]
    /\ view' = [view EXCEPT ![c] = Unstored]
    /\ UNCHANGED <<up, exists, mem>>

(* The only excuses for failing: Enough pages are held, or nothing is there. *)
Fail ==
    /\ up
    /\ ~exists \/ Cardinality(HeldPages) >= Enough
    /\ up' = FALSE
    /\ UNCHANGED <<exists, mem, held, view>>

Next ==
    \/ Create
    \/ Destroy
    \/ \E c \in Clients, p \in PageNums : Pin(c, p)
    \/ \E c \in Clients, d \in Data : Write(c, d)
    \/ \E c \in Clients : Unpin(c)
    \/ Fail

Spec == Init /\ [][Next]_vars
=============================================================================

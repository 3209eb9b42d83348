----------------------------- MODULE BTreeIndex -----------------------------
(***************************************************************************)
(* The index of assign4_b+tree_index: btree_mgr.c.  What it calls a tree   *)
(* is a chain of nodes, linked through next[maxEle], of maxEle slots each. *)
(* A slot whose key is 0 is free.  The chain appears as the sequence of    *)
(* its slots: node j has the slots Order * (j - 1) + 1 .. Order * j.       *)
(***************************************************************************)
EXTENDS Integers, Sequences, FiniteSets, SequencesExt

CONSTANTS
    Order,       \* n of createBtree, kept in maxEle
    Keys,        \* the keys of the clients
    RIDs,        \* the record ids of the clients
    NoRID,       \* page 0 and slot 0, which a free slot holds
    FreshKeys,   \* the numbers that memory fresh from malloc can hold
    MaxNodes     \* bound: the length of the chain

(* From order 4 on the record ids of a node, for which createBtree allocates
   n numbers and each of which is two, lie beyond what malloc gave it. *)
ASSUME OrderAssumption == Order \in 1 .. 3
ASSUME KeysAssumption == Keys \subseteq Int \ {0}
ASSUME FreshAssumption == 0 \in FreshKeys /\ FreshKeys \subseteq Int
ASSUME RIDsAssumption == NoRID \notin RIDs

VARIABLES
    up,          \* "running", "hung" in the chain, or "broken": memory is not its own
    file,        \* the page file is "absent", "closed" or "open"
    root,        \* the root node: "none" yet, "live" or "freed"
    key,         \* the key of every slot of the chain
    id,          \* its record id
    back,        \* the node that next[maxEle] of the last one points to, 0 for NULL
    scan,        \* the node that the scan is at, 0 before openTreeScan
    inum,        \* the slots of it that were returned
    answer,      \* what the last call on the index answered
    returned,    \* history: how many entries the scan returned
    tidy         \* history: whether the root was made of zeros, and clients deleted
                 \* only the last key and scanned only a full chain

chain == <<key, id, back>>
cursor == <<scan, inum, returned>>
vars == <<up, file, root, chain, cursor, answer, tidy>>

OK == [code |-> "RC_OK"]
NotFound == [code |-> "RC_IM_KEY_NOT_FOUND"]
NoMore == [code |-> "RC_IM_NO_MORE_ENTRIES"]

(* What tells that a key is not there, or that a scan ended, is no record id. *)
ASSUME AnswersAssumption == {NotFound, NoMore} \cap (RIDs \cup {NoRID}) = {}

Slots == DOMAIN key
Taken == {s \in Slots : key[s] # 0}
NumNodes == Len(key) \div Order
NodeOf(s) == (s - 1) \div Order + 1
FirstSlot(j) == Order * (j - 1) + 1

(* The loops over the chain stop at NULL, or at what they look for. *)
FirstSlots(k) == {s \in Slots : key[s] = k /\ \A t \in 1 .. s - 1 : key[t] # k}
Endless == back # 0

-----------------------------------------------------------------------------
Init ==
    /\ up = "running"
    /\ file = "absent"
    /\ root = "none"
    /\ key = <<>> /\ id = <<>> /\ back = 0
    /\ scan = 0 /\ inum = 0 /\ returned = 0
    /\ answer = OK
    /\ tidy = TRUE

(* The keys of the root are as malloc left them. *)
createBtree ==
    /\ file # "open"
    /\ file' = "closed"
    /\ root' = "live"
    /\ key' \in [1 .. Order -> FreshKeys]
    /\ id' = [i \in 1 .. Order |-> NoRID]
    /\ back' = 0
    /\ scan' = 0
    /\ returned' = 0
    /\ answer' = OK
    /\ tidy' = (key' = [i \in 1 .. Order |-> 0])
    /\ UNCHANGED <<up, inum>>

openBtree ==
    /\ file # "open"
    /\ file' = IF file = "closed" THEN "open" ELSE file
    /\ UNCHANGED <<up, root, chain, cursor, answer, tidy>>

Forget == key' = <<>> /\ id' = <<>> /\ back' = 0 /\ scan' = 0 /\ returned' = 0

(* The root is freed, and stays what the other functions start from. *)
closeBtree ==
    /\ file = "open"
    /\ file' = "closed"
    /\ root' = "freed"
    /\ up' = IF root = "freed" THEN "broken" ELSE up
    /\ Forget
    /\ answer' = OK
    /\ UNCHANGED <<inum, tidy>>

deleteBtree ==
    /\ file # "open"
    /\ file' = "absent"
    /\ UNCHANGED <<up, root, chain, cursor, answer, tidy>>

(* Clients use the index while its file is open. *)
UseAfterFree ==
    /\ file = "open"
    /\ root = "freed"
    /\ up' = "broken"
    /\ UNCHANGED <<file, root, chain, cursor, answer, tidy>>

InUse == file = "open" /\ root = "live"

Hang == up' = "hung" /\ UNCHANGED <<file, root, chain, cursor, answer>>

-----------------------------------------------------------------------------
AllFreeSlots == Slots \ Taken
LastSlots == {s \in Slots : s % Order = 0}

(* The first free slot of every node: insertKey uses all of them. *)
FreeSlots ==
    LET open == Slots \ Taken
    IN  {s \in open : \A t \in open : NodeOf(t) = NodeOf(s) => s <= t}

NeverFull == FALSE
LastNodeFull == \A s \in Slots : NodeOf(s) = NumNodes => s \in Taken

(* The chain f with v put in: in the free slots, and in a new node at the end
   if the last one is full. *)
With(f, v, zero) ==
    LET free == FreeSlots IN
    [s \in Slots |-> IF s \in free THEN v ELSE f[s]]
    \o (IF LastNodeFull THEN <<v>> \o [i \in 1 .. Order - 1 |-> zero] ELSE <<>>)

(* When the sixth key is in, insertKey makes the node it allocated, which is the
   last of the chain or nowhere, the parent of the first three. *)
IsFourth(f) == Cardinality({s \in DOMAIN f : f[s] # 0}) = 4
IsSixth(f) == Cardinality({s \in DOMAIN f : f[s] # 0}) = 6

ParentOfThree(f) ==
    LET last == FirstSlot(Len(f) \div Order)
        g == [f EXCEPT ![last] = f[FirstSlot(2)]]
    IN  IF Order = 1 THEN g ELSE [g EXCEPT ![last + 1] = g[FirstSlot(3)]]

insertKey(k, r) ==
    LET chained == With(key, k, 0) IN
    /\ InUse
    /\ scan = 0
    /\ LastNodeFull => NumNodes < MaxNodes
    /\ \/ Endless /\ Hang
       \/ /\ ~Endless
          /\ id' = With(id, r, NoRID)
          /\ IF ~IsSixth(chained) THEN key' = chained /\ UNCHANGED <<up, back>>
             ELSE IF Len(chained) < 3 * Order THEN key' = chained /\ up' = "broken" /\ UNCHANGED back
             ELSE IF ~LastNodeFull THEN key' = chained /\ UNCHANGED <<up, back>>
             ELSE /\ key' = ParentOfThree(chained)
                  /\ back' = IF Order < 3 THEN Order + 1 ELSE 0
                  /\ UNCHANGED up
          /\ answer' = OK
          /\ UNCHANGED <<file, root, cursor>>
    /\ UNCHANGED tidy

(* One entry of the key is freed, the first; nothing tells when there is none.
   Tidy clients leave free slots in the last node only, behind its keys. *)
deleteKey(k) ==
    LET found == FirstSlots(k) IN
    /\ InUse
    /\ scan = 0
    /\ tidy' = (tidy /\ \A s \in found : NodeOf(s) = NumNodes /\ \A t \in Taken : t <= s)
    /\ \/ found = {} /\ Endless /\ Hang
       \/ /\ found # {} \/ ~Endless
          /\ key' = [s \in Slots |-> IF s \in found THEN 0 ELSE key[s]]
          /\ id' = [s \in Slots |-> IF s \in found THEN NoRID ELSE id[s]]
          /\ answer' = OK
          /\ UNCHANGED <<up, file, root, back, cursor>>

Find(k) ==
    LET found == FirstSlots(k)
    IN  IF found = {} THEN NotFound ELSE id[CHOOSE s \in found : TRUE]

findKey(k) ==
    /\ InUse
    /\ \/ FirstSlots(k) = {} /\ Endless /\ Hang
       \/ /\ FirstSlots(k) # {} \/ ~Endless
          /\ answer' = Find(k)
          /\ UNCHANGED <<up, file, root, chain, cursor>>
    /\ UNCHANGED tidy

getNumEntries ==
    /\ InUse
    /\ \/ Endless /\ Hang
       \/ /\ ~Endless
          /\ answer' = [entries |-> Cardinality(Taken)]
          /\ UNCHANGED <<up, file, root, chain, cursor>>
    /\ UNCHANGED tidy

-----------------------------------------------------------------------------
(* Bubble sort leaves entries of the same key in their order: the place of the
   entry of slot s, and the entry that comes to place i. *)
Place(s) ==
    Cardinality({t \in Slots : key[t] < key[s] \/ (key[t] = key[s] /\ t <= s)})

NotWrittenBack(f) == f
SortedByKey(f) == [i \in Slots |-> f[CHOOSE s \in Slots : Place(s) = i]]

(* openTreeScan sorts copies of the slots and writes them back.  Its arrays have
   room for one entry per key: with a free slot, or with order 1, for which the
   array elements has no second row, it reads and writes outside of them. *)
openTreeScan ==
    /\ InUse
    /\ scan = 0
    /\ tidy' = (tidy /\ Taken = Slots)
    /\ \/ Endless /\ Hang
       \/ /\ ~Endless
          /\ Taken # Slots \/ Order = 1
          /\ up' = "broken"
          /\ UNCHANGED <<file, root, chain, cursor, answer>>
       \/ /\ ~Endless
          /\ Taken = Slots /\ Order > 1
          /\ key' = SortedByKey(key)
          /\ id' = SortedByKey(id)
          /\ scan' = 1
          /\ inum' = 0
          /\ returned' = 0
          /\ answer' = OK
          /\ UNCHANGED <<up, file, root, back>>

NextNode == IF scan < NumNodes THEN scan + 1 ELSE back

nextEntryStays ==
    /\ InUse
    /\ scan # 0
    /\ NextNode # 0
    /\ inum' = inum + 1
    /\ answer' = id[FirstSlot(scan) + inum]
    /\ returned' = returned + 1
    /\ UNCHANGED <<up, file, root, chain, scan, tidy>>

(* Clients call nextEntry between openTreeScan and closeTreeScan, and change
   nothing meanwhile.  *)
nextEntry ==
    /\ InUse
    /\ scan # 0
    /\ \/ /\ NextNode = 0
          /\ answer' = NoMore
          /\ UNCHANGED <<scan, inum, returned>>
       \/ /\ NextNode # 0
          /\ scan' = IF inum = Order THEN NextNode ELSE scan
          /\ inum' = IF inum = Order THEN 1 ELSE inum + 1
          /\ answer' = id[FirstSlot(scan') + inum' - 1]
          /\ returned' = returned + 1
    /\ UNCHANGED <<up, file, root, chain, tidy>>

closeTreeScan ==
    /\ InUse
    /\ scan' = 0
    /\ inum' = 0
    /\ returned' = 0
    /\ answer' = OK
    /\ UNCHANGED <<up, file, root, chain, tidy>>

Next ==
    /\ up = "running"
    /\ \/ createBtree \/ openBtree \/ closeBtree \/ deleteBtree
       \/ UseAfterFree
       \/ \E k \in Keys, r \in RIDs : insertKey(k, r)
       \/ \E k \in Keys : deleteKey(k) \/ findKey(k)
       \/ getNumEntries
       \/ openTreeScan \/ nextEntry \/ closeTreeScan

Spec == Init /\ [][Next]_vars

-----------------------------------------------------------------------------
TypeOK ==
    /\ up \in {"running", "hung", "broken"}
    /\ file \in {"absent", "closed", "open"}
    /\ root \in {"none", "live", "freed"}
    /\ key \in Seq(Int)
    /\ id \in Seq(RIDs \cup {NoRID}) /\ Len(id) = Len(key)
    /\ Len(key) = Order * NumNodes
    /\ back \in 0 .. NumNodes
    /\ scan \in 0 .. NumNodes
    /\ inum \in 0 .. Order
    /\ returned \in 0 .. Len(key)
    /\ tidy \in BOOLEAN

(* As long as clients freed no slot but the last and scanned a full chain, the chain
   is an index: every key is found with the record id inserted first, and
   counted, whatever nodes were added and however the scans reordered them. *)
SlotsOf(k) == {s \in Slots : key[s] = k}
Nth(S, i) == CHOOSE s \in S : Cardinality({t \in S : t <= s}) = i
RIDsOf(k) == [i \in 1 .. Cardinality(SlotsOf(k)) |-> id[Nth(SlotsOf(k), i)]]

Index == INSTANCE KeyIndex WITH
    ready <- root = "live",
    rids <- [k \in Keys |-> RIDsOf(k)]

ImplementsKeyIndex == Index!Init /\ [][tidy' => [Index!Next]_Index!vars]_vars

(* For the same clients, and with two keys to a node, no call runs into the end of the
   chain, around it, or out of the arrays: only an index that was closed and opened
   again is gone. *)
OnlyReopeningBreaks == tidy => back = 0 /\ (up # "running" => root = "freed")

(* A scan of a chain that nobody changes meanwhile returns the entries one after
   the other in the order of their keys, and when it ends it has returned all but
   those that fit into one node. *)
InPlace(n) ==
    {s \in Taken : /\ Cardinality({t \in Taken : key[t] < key[s]}) < n
                   /\ n <= Cardinality({t \in Taken : key[t] <= key[s]})}

ScanInOrder ==
    [][nextEntry =>
          IF answer' = NoMore THEN returned + Order >= Cardinality(Taken)
          ELSE answer' \in {id[s] : s \in InPlace(returned + 1)}]_vars

(* Wherever clients delete: what is found for a key is changed by nothing but an
   insertion or deletion of that key, although an insertion puts its key into
   every node with a free slot and a scan moves the entries. *)
OtherKeysUnmoved ==
    [][InUse /\ InUse' => \A k \in Keys :
          Find(k)' # Find(k) => deleteKey(k) \/ \E r \in RIDs : insertKey(k, r)]_vars

(* A key that was not there is found after its insertion, with its record id, as
   long as insertKey did not tie the chain into a ring. *)
InsertedIsFound ==
    [][\A k \in Keys, r \in RIDs :
          Find(k) = NotFound /\ insertKey(k, r) /\ up' = "running" /\ back' = 0
          => Find(k)' = r]_vars
=============================================================================

---------------------------- MODULE RecordManager ----------------------------
(***************************************************************************)
(* The record manager of assign3_record_manager: a table of records in the *)
(* slots of pages, above the pool of the same directory, which it opens    *)
(* with RS_LRU.  Page 0 describes the table, records begin in page 1.      *)
(*                                                                         *)
(* There is one RecMgr (objRecMgr) with one pool and one page handle; all  *)
(* calls pin their page anew, so the handle between calls is not state.    *)
(* Every scan has a RecMgr of its own for its position and page handle.    *)
(***************************************************************************)
EXTENDS Integers, Sequences, SequencesExt

CONSTANTS
    NumFrames,      \* 100 in createTable
    NumBuffers,     \* bound of FrameArray; one more than frames is enough here
    Values,         \* what a record can be
    SlotsPerPage,   \* PAGE_SIZE / getRecordSize
    MaxPage,        \* bound: the last page with records
    ATTRIBUTE_SZ,   \* 15, the number of tuples that startScan writes down
    Scans,          \* the scan handles of the clients
    Conditions,     \* the conditions, as sets of the slot contents that satisfy them
    NoRecord        \* stands for a slot without a record

ASSUME PoolAssumption == NumFrames \in Nat \ {0, 1} /\ NumBuffers \in Nat /\ NumBuffers > NumFrames
ASSUME SlotsAssumption == SlotsPerPage \in Nat \ {0, 1} /\ MaxPage \in Nat \ {0}
ASSUME ValuesAssumption == Values \cap {"zeros", "dashes"} = {}

(* A scan as startScan begins it ends before the last slot of the last page. *)
ASSUME ScanAssumption == ATTRIBUTE_SZ \in Nat \ {0} /\ ATTRIBUTE_SZ + 1 < MaxPage * SlotsPerPage

Slots == 0 .. SlotsPerPage - 1
Rids == [page : 1 .. MaxPage, slot : Slots]

(* A slot holds a record, marked '+', or the zeros of a new page, or the dashes
   of a deletion.  Conditions are evaluated on all of them. *)
Contents == Values \cup {"zeros", "dashes"}
ZeroPage == [s \in Slots |-> "zeros"]
Header == [s \in Slots |-> "header"]

INSTANCE FrameArray WITH Blank <- ZeroPage

VARIABLES
    mgr,        \* what became of objRecMgr and the client's table: "none",
                \* "created", "open", "closed", "hung" or "crashed"
    bp,         \* objRecMgr->buff_pool and the page file
    tCount,     \* t_count
    freePg,     \* freePg
    scan,       \* the RecMgr of each scan
    inserted,   \* history: whether a record was inserted since createTable
    recs,       \* history: the record in every slot, as the next call finds it
    answer      \* history: what the last call answered

vars == <<mgr, bp, tCount, freePg, scan, inserted, recs, answer>>
tableVars == <<tCount, freePg>>

NoScan == [on |-> FALSE, page |-> 1, slot |-> 0, count |-> 0, cond |-> {},
           pinned |-> NO_PAGE, seen |-> {}, still |-> FALSE]
ScansOff == \A s \in Scans : ~scan[s].on

PinPage(pl, p) == Pin(pl, p, NewBuffer(pl, {}), ZeroPage)
PageBytes(pl, p) == Bytes(pl, Min(FramesOf(pl, p)))
SetSlot(pl, r, content) == [pl EXCEPT !.heap[pl.data[Min(FramesOf(pl, r.page))]][r.slot] = content]

(* The bytes of page p as the next call that pins it will find them, and the
   records in them. *)
DeliveredBy(pl, p) ==
    IF FramesOf(pl, p) # {} THEN PageBytes(pl, p) ELSE readBlock(pl.file, p, ZeroPage)

RecordsIn(pl) ==
    [r \in Rids |-> LET content == DeliveredBy(pl, r.page)[r.slot]
                    IN  IF content \in Values THEN content ELSE NoRecord]

(* A table changed under a scan: nothing is claimed about what that one returns. *)
Disturbed == [s \in Scans |-> [scan[s] EXCEPT !.still = FALSE, !.seen = {}]]

-----------------------------------------------------------------------------
Init ==
    /\ mgr = "none"
    /\ bp = EmptyPool("RS_LRU", NoFile)
    /\ tCount = 0
    /\ freePg = 0
    /\ scan = [s \in Scans |-> NoScan]
    /\ inserted = FALSE
    /\ recs = RecordsIn(bp)
    /\ answer = <<"other">>

(* createTable opens a pool on a file that it only then creates; the manager and
   pool of an earlier table are left behind. *)
createTable ==
    /\ ~bp.file.present
    /\ ScansOff
    /\ mgr' = "created"
    /\ bp' = EmptyPool("RS_LRU", [present |-> TRUE, pages |-> <<Header>>])
    /\ inserted' = FALSE
    /\ answer' = <<"other">>
    /\ UNCHANGED <<tableVars, scan>>

(* openTable reads page 0, which createTable was the last to write: no tuples,
   free page 1. *)
PoolAfterOpening == ForcePage(Unpin(PinPage(bp, 0), 0), 0)

openTable ==
    /\ mgr \in {"created", "open", "closed"}
    /\ bp.file.present
    /\ ScansOff
    /\ mgr' = "open"
    /\ bp' = PoolAfterOpening
    /\ tCount' = 0
    /\ freePg' = 1
    /\ answer' = <<"other">>
    /\ UNCHANGED <<scan, inserted>>

(* After shutdownRecordManager there is no objRecMgr to open the table with. *)
openTableAgain ==
    /\ mgr = "none"
    /\ bp.file.present
    /\ mgr' = "crashed"
    /\ answer' = <<"other">>
    /\ UNCHANGED <<bp, tableVars, scan, inserted>>

(* closeTable shuts the pool down if there is none. *)
closeTable ==
    /\ mgr = "open"
    /\ ScansOff
    /\ mgr' = "closed"
    /\ answer' = <<"other">>
    /\ UNCHANGED <<bp, tableVars, scan, inserted>>

deleteTable ==
    /\ mgr # "open"
    /\ bp.file.present
    /\ bp' = [bp EXCEPT !.file = NoFile]
    /\ answer' = <<"other">>
    /\ UNCHANGED <<mgr, tableVars, scan, inserted>>

shutdownRecordManager ==
    /\ mgr \in {"created", "open", "closed"}
    /\ ScansOff
    /\ bp' = ForceFlushPool(bp)
    /\ mgr' = IF ShutdownReturns(bp) THEN "none" ELSE "hung"
    /\ answer' = <<"other">>
    /\ UNCHANGED <<tableVars, scan, inserted>>

-----------------------------------------------------------------------------
FreeSlotsOrTheFirst(bytes) == {s \in Slots : s = 0 \/ bytes[s] \notin Values}

(* findFreeSlot: any mark but '+' is free. *)
FreeSlotsOf(bytes) == {s \in Slots : bytes[s] \notin Values}
findFreeSlot(bytes) == Min(FreeSlotsOf(bytes))

(* One round of the search of insertRecord at page p: it stays pinned if a slot
   is free. *)
TryPage(at, p) ==
    LET pl == PinPage(at.pool, p)
        free == FreeSlotsOf(PageBytes(pl, p)) # {}
    IN  IF at.page # NO_PAGE THEN at
        ELSE IF free THEN [page |-> p, pool |-> pl]
        ELSE [page |-> NO_PAGE, pool |-> Unpin(pl, p)]

PlaceForRecord ==
    FoldLeft(TryPage, [page |-> NO_PAGE, pool |-> bp],
             [i \in 1 .. MaxPage + 1 - freePg |-> freePg + i - 1])

(* After the record is in place page 0 is pinned, and stays so. *)
insertRecord(v) ==
    LET at == PlaceForRecord
        r == [page |-> at.page, slot |-> findFreeSlot(PageBytes(at.pool, at.page))]
    IN  /\ mgr = "open"
        /\ at.page # NO_PAGE
        /\ bp' = PinPage(Unpin(SetSlot(MarkDirty(at.pool), r, v), r.page), 0)
        /\ tCount' = tCount + 1
        /\ inserted' = TRUE
        /\ scan' = Disturbed
        /\ answer' = <<"inserted", r>>
        /\ UNCHANGED <<mgr, freePg>>

(* The page of the deleted record stays pinned. *)
deleteRecord(r) ==
    /\ mgr = "open"
    /\ bp' = ForcePage(MarkDirty(SetSlot(PinPage(bp, r.page), r, "dashes")), r.page)
    /\ freePg' = r.page
    /\ scan' = Disturbed
    /\ answer' = <<"deleted", r>>
    /\ UNCHANGED <<mgr, tCount, inserted>>

(* A pointer that was never set decides whether updateRecord looks for its slot
   or writes to address 1. *)
updateRecord(r, v) ==
    /\ mgr = "open"
    /\ \/ /\ bp' = Unpin(MarkDirty(SetSlot(PinPage(bp, r.page), r, v)), r.page)
          /\ answer' = <<"updated", r>>
          /\ UNCHANGED mgr
       \/ /\ bp' = PinPage(bp, r.page)
          /\ mgr' = "crashed"
          /\ answer' = <<"other">>
    /\ scan' = Disturbed
    /\ UNCHANGED <<tableVars, inserted>>

(* Where there is no record getRecord fails with the page still pinned. *)
getRecord(r) ==
    LET pl == PinPage(bp, r.page)
        content == PageBytes(pl, r.page)[r.slot]
    IN  /\ mgr = "open"
        /\ \/ content \in Values /\ bp' = Unpin(pl, r.page) /\ answer' = <<"got", r, content>>
           \/ content \notin Values /\ bp' = pl /\ answer' = <<"got", r, NoRecord>>
        /\ UNCHANGED <<mgr, tableVars, scan, inserted>>

-----------------------------------------------------------------------------
(* Scans. *)

(* startScan opens the table again and then writes a number of tuples down. *)
startScan(s, cond) ==
    /\ mgr = "open"
    /\ ~scan[s].on
    /\ bp' = PoolAfterOpening
    /\ tCount' = ATTRIBUTE_SZ
    /\ freePg' = 1
    /\ scan' = [scan EXCEPT ![s] = [NoScan EXCEPT !.on = TRUE, !.cond = cond, !.still = TRUE]]
    /\ answer' = <<"other">>
    /\ UNCHANGED <<mgr, inserted>>

AdvancedBehindTheFirst(sc) ==
    IF sc.slot + 1 < SlotsPerPage
    THEN [sc EXCEPT !.slot = @ + 1]
    ELSE [sc EXCEPT !.slot = 1, !.page = IF sc.count > 0 THEN @ + 1 ELSE @]

(* The scan begins behind the slot it starts at. *)
Advanced(sc) ==
    IF sc.slot + 1 < SlotsPerPage
    THEN [sc EXCEPT !.slot = @ + 1]
    ELSE [sc EXCEPT !.slot = 0, !.page = IF sc.count > 0 THEN @ + 1 ELSE @]

(* One round of the loop of next: pin the page, and return the slot if it
   satisfies the condition.  Otherwise the page stays pinned. *)
ScanSlot(at, i) ==
    LET sc == Advanced(at.sc)
        pl == PinPage(at.pool, sc.page)
        content == PageBytes(pl, sc.page)[sc.slot]
        visited == [sc EXCEPT !.count = @ + 1, !.pinned = sc.page]
        returned == IF sc.still THEN {[page |-> sc.page, slot |-> sc.slot]} ELSE {}
    IN  IF at.hit THEN at
        ELSE IF content \in sc.cond
        THEN [sc |-> [visited EXCEPT !.seen = @ \cup returned],
              pool |-> Unpin(pl, sc.page), hit |-> TRUE]
        ELSE [sc |-> visited, pool |-> pl, hit |-> FALSE]

Scanned(s) ==
    FoldLeft(ScanSlot, [sc |-> scan[s], pool |-> bp, hit |-> FALSE],
             [i \in 1 .. tCount + 1 - scan[s].count |-> i])

(* When the count is used up next pins page 0 and starts over. *)
AtTheHeader(sc) == [sc EXCEPT !.page = 0, !.slot = 0, !.count = 0, !.pinned = 0, !.seen = {}]
AtTheStart(sc) == [sc EXCEPT !.page = 1, !.slot = 0, !.count = 0, !.pinned = 0, !.seen = {}]

next(s) ==
    LET at == Scanned(s)
    IN  /\ mgr = "open"
        /\ scan[s].on
        /\ bp' = IF at.hit THEN at.pool ELSE PinPage(at.pool, 0)
        /\ scan' = [scan EXCEPT ![s] = IF at.hit THEN at.sc ELSE AtTheStart(at.sc)]
        /\ answer' = <<"other">>
        /\ UNCHANGED <<mgr, tableVars, inserted>>

(* closeScan unpins the page that the scan pinned last, returned or not.  Clients
   close a scan they read from; its page handle is not initialised before. *)
closeScan(s) ==
    /\ mgr = "open"
    /\ scan[s].on
    /\ scan[s].pinned # NO_PAGE
    /\ bp' = Unpin(bp, scan[s].pinned)
    /\ scan' = [scan EXCEPT ![s] = NoScan]
    /\ answer' = <<"other">>
    /\ UNCHANGED <<mgr, tableVars, inserted>>

Next ==
    /\ mgr \notin {"hung", "crashed"}
    /\ \/ createTable
       \/ openTable
       \/ openTableAgain
       \/ closeTable
       \/ deleteTable
       \/ shutdownRecordManager
       \/ \E v \in Values : insertRecord(v)
       \/ \E r \in Rids : deleteRecord(r) \/ getRecord(r)
       \/ \E r \in Rids, v \in Values : updateRecord(r, v)
       \/ \E s \in Scans, cond \in Conditions : startScan(s, cond)
       \/ \E s \in Scans : next(s) \/ closeScan(s)
    /\ recs' = RecordsIn(bp')

Spec == Init /\ [][Next]_vars

-----------------------------------------------------------------------------
TypeOK ==
    /\ mgr \in {"none", "created", "open", "closed", "hung", "crashed"}
    /\ bp.page \in [Frames -> Nat \cup {NO_PAGE}]
    /\ bp.fix \in [Frames -> Int]
    /\ bp.dirty \in [Frames -> BOOLEAN]
    /\ bp.data \in [Frames -> Buffers \cup {NULL}]
    /\ \A f \in Frames : bp.page[f] # NO_PAGE => bp.data[f] # NULL
    /\ bp.heap \in [Buffers -> [Slots -> Contents \cup {"header"}]]
    /\ bp.file.pages \in Seq([Slots -> Contents \cup {"header"}])
    /\ tCount \in Nat
    /\ freePg \in 0 .. MaxPage
    /\ \A s \in Scans : /\ scan[s].page \in Nat \ {0}
                        /\ scan[s].slot \in Slots
                        /\ scan[s].seen \subseteq Rids
    /\ inserted \in BOOLEAN

T == INSTANCE Table

(* As long as its pages fit into the frames the record manager implements a table:
   insertions reuse free slots only, in the page of the last deletion or behind
   it, and neither they nor scans, reopening or leaked pins touch other records. *)
ImplementsTable == T!Spec

(* The loop of shutdownBufferPool ends because of a leak: once a record was
   inserted the pin of page 0 that insertRecord leaves is never taken back, by
   scans that end, start over and are closed, or by opening the table again. *)
HangsOnlyUnused == mgr = "hung" => ~inserted

(* What a scan has to find: the records that satisfy its condition. *)
Matching(s) == {r \in Rids : recs[r] # NoRecord /\ recs[r] \in scan[s].cond}

(* The ATTRIBUTE_SZ + 1 slots behind the first, which next counts. *)
Reach == {r \in Rids : (r.page - 1) * SlotsPerPage + r.slot \in 1 .. ATTRIBUTE_SZ + 1}

(* A scan of a table that nobody changes meanwhile, however often it was stopped by a
   match and whatever it left pinned, returns no slot twice and none that does not
   satisfy its condition, and it does not end before it has returned every record of
   its reach that does. *)
ScansMissNoneInReach ==
    [][\A s \in Scans : scan[s].still /\ next(s) =>
          \/ \E r \in Rids \ scan[s].seen :
                /\ DeliveredBy(bp, r.page)[r.slot] \in scan[s].cond
                /\ scan'[s].seen = scan[s].seen \cup {r}
          \/ Matching(s) \cap Reach \subseteq scan[s].seen /\ scan'[s].seen = {}]_vars

(* README: "The Scan functions are used to find all tuples in a table that meet a
   predefined set of criteria": when a scan of a table that nobody changed meanwhile
   ends, it has returned the records that satisfy its condition, no fewer and no more. *)
ScansFindAll ==
    [][\A s \in Scans : scan[s].still /\ next(s) /\ scan'[s].seen = {} =>
          scan[s].seen = Matching(s)]_vars

(* What closeTable is said to do: the table's changes are in the page file. *)
ClosedTableIsInFile ==
    mgr = "closed" /\ bp.file.present =>
        \A p \in 1 .. MaxPage : DeliveredBy(bp, p) = readBlock(bp.file, p, ZeroPage)
=============================================================================

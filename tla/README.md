# Verification of the Advanced Database Organization assignments

The repository holds four C programs, each building a layer of a database:
page files (`assign1_storage_manager`), a buffer pool over them
(`assign2_buffer_manager`), records in pages (`assign3_record_manager`) and an
index (`assign4_b+tree_index`). The directories are self-contained: assign2 and
assign3 bring their own copy of the storage manager, assign3 and assign4 their
own rewritten buffer pool, assign4 a rewritten record manager.

Everything is sequential C with global state. What is hard in it is not threads
but *clients*: several page handles, file handles or scans are in use at the same
time, their calls come in any order, and each call changes structures that the
others rely on. The models let any number of clients call anything that the
interface allows, in every order.

## Inventory

| Component | State | Operations | Interacts with | What makes it correct |
|---|---|---|---|---|
| Storage manager (assign1; same code in 2 and 3) | one global stream `filePtr`; per handle `fileName`, `totalNumPages`, `curPagePos` | create, open, close, destroy; read and write a block, relative reads, append, ensureCapacity | the file system; called by the pools | the handle's page count is the file's; a read delivers the page; only the page written changes |
| Buffer pool, FIFO (assign2) | globals `fHandle`, `stPtrLList`: a doubly linked list of frames, fix count and dirty bit per frame, `iFrameFilled` | init, shutdown, pin, unpin, markDirty, forcePage, forceFlushPool | storage manager below, page handles (pointers into frames) above | fix counts are the pins; no held page is evicted; no stored byte is lost; FIFO order |
| Buffer pool, LRU (assign2) | the same list, rebuilt on every pin | the same | the same | the same, with LRU order |
| Buffer pool (assign3) | an array of frames, global counters | the same, FIFO and LRU | storage manager, record manager | the same |
| Record manager (assign3) | the page with the table's description, slots and tombstones, one global scan | tables, insert, delete, update, get, scans, attributes | pool of assign3, `expr.c` | a record stays what it was until it is updated; scans return each matching record once; pins are released |
| Attributes (assign3) | the bytes of a record; the client's arrays of data types and lengths | createSchema, createRecord, getAttr, setAttr | record manager | an attribute holds what it was set to, and touches no other |
| Expressions (assign3, assign4) | none; `getAttr` changes the schema under them | `evalExpr`, comparisons, boolean operators | record manager, attributes | a condition is satisfied by the records it means |
| B-tree index (assign4) | global `root`, `scan`, `inum`, `maxEle`, `btree_fh`; nodes chained through `next[maxEle]` | create, open, close, delete; insert, delete, find, count; scans | its page file (which stays empty) | what is inserted is found and counted until it is deleted; scans return everything in key order |
| Buffer pool (assign4) | an array of frames; `lastIndex`, `hitCount`, `clockPtr`, `lfuPtr`, kept across pools | the same, FIFO, LRU, CLOCK, LFU | storage manager of assign4 | one frame per page; held pages stay; each strategy replaces what it is named for; its searches end |
| Storage manager (assign4) | a handle that `openPageFile` leaves unset | as in assign1 | file system | no call moves a byte |
| Record manager (assign4) | as in assign3 | as in assign3 | storage manager of assign4, under which no table can be created | |
| Serialisation, pool statistics, error codes, older copies | none | formatting | | not modelled |

Hard behaviours: interleaved pins and unpins of several handles; eviction
against pointers that clients still hold; dirty pages that must reach the file;
cached sizes (`totalNumPages`, `iFrameFilled`) against what they cache; calls at
a limit (all frames pinned, the page after the last, the sixth key); closing and
reopening. There is no concurrency, no persistence protocol and no retry, so
crash recovery and message loss do not arise. `PROJECT.json` lists the hazards
at their lines, with the properties that watch them. Where the code does go wrong at such a line, and
the properties say only what survives, or from which clients it is excused, the hazard's note says so.

## Modules

| Module | Models |
|---|---|
| `PageStore` | abstract: what a buffer pool promises, a store of pages with no frames and no file |
| `FIFOPolicy` | abstract: first in, first out, with pages that may not leave |
| `BufferPoolFIFO` | `assign2_buffer_manager/buffer_mgr.c` under `RS_FIFO`, the page file below, the page handles above |
| `MCBufferPoolFIFO` | instances for TLC |
| `BufferPoolFIFOProofs` | theorems about `BufferPoolFIFO`: its invariants, and that it implements `PageStore` and `FIFOPolicy` |
| `LRUPolicy` | abstract: least recently used, with pages that may not leave |
| `BufferPoolLRU` | the same `buffer_mgr.c` under `RS_LRU` |
| `MCBufferPoolLRU` | instances for TLC |
| `BufferPoolLRUProofs` | theorems about `BufferPoolLRU`: its types, and that it implements `PageStore` and `LRUPolicy` |
| `StorageManager` | `assign1_storage_manager/storage_mgr.c`, with clients that hold several file handles |
| `MCStorageManager` | instances for TLC |
| `StorageManagerProofs` | theorems about `StorageManager` |
| `KeyIndex` | abstract: what an index promises |
| `BTreeIndex` | `assign4_b+tree_index/btree_mgr.c` |
| `MCBTreeIndex` | instances for TLC |
| `BTreeIndexProofs` | theorems about `BTreeIndex`: its invariants and steps, and that it implements `KeyIndex` |
| `FrameArray` | `assign3_record_manager/buffer_mgr.c`: its functions as operators on the state of a pool |
| `FramePool` | that pool with clients that pin, write, force and unpin |
| `MCFramePool` | instances for TLC |
| `FramePoolProofs` | theorems about `FramePool` |
| `Table` | abstract: what a record manager promises, a record for every id |
| `RecordManager` | `assign3_record_manager/record_mgr.c` over `FrameArray` |
| `MCRecordManager` | instances for TLC |
| `RecordManagerProofs` | theorems about `RecordManager`: its invariants, its scans, and that it implements `Table` |
| `RecordData` | the attributes of a record, `record_mgr.c` l.684-955, and `assign3_record_manager/expr.c` |
| `MCRecordData` | instances for TLC |
| `RecordDataProofs` | theorems about `RecordData` |
| `StrategyPool` | `assign4_b+tree_index/buffer_mgr.c` under its five strategies |
| `MCStrategyPool` | instances for TLC |
| `StrategyPoolProofs` | theorems about `StrategyPool` |

`BufferPoolFIFO` contains the page file as the pool uses it; `StorageManager` is
the same code seen from clients that use it directly.

### BufferPoolFIFO

`pool` tells whether the two globals are set; the value `"crashed"` means that
memory already freed was used again, after which anything may happen and nothing
more is modelled. `order` is the list from `start` to `end`. A replacement in
`FIFOpin` frees the victim's node and appends a new one that takes over its frame
number and buffer, so the pair (frame number, buffer) is never broken and a node
is the frame it describes; `MoveToEnd` is that unlinking and appending. `pageNum`,
`fixCount`, `dirty` and `content` are the fields of the node and its buffer,
`filled` is `iFrameFilled`. The file is `present`, `disk` and `total`, where
`total` is both the size of the file and `fHandle->totalNumPages` (the storage
model checks that they agree: `HandleTracksFile`).

Each client owns one `BM_PageHandle`. Its `data` pointer is the frame it points
into. A client calls `pinPage` when it holds nothing, stores bytes through the
pointer (`writeData`), and calls `markDirty` before it unpins what it stored;
the field `unmarked` is that duty. `stored` remembers which pages have contents
that count. With `StrayUnpins`, clients also unpin pages they do not hold.

`pinPage` is `FIFOpin` with its three outcomes: `PinHit` (l.657-678), `PinEmpty`
(l.680-710) and `PinReplace` (l.712-781), and `PinCrash` where `pinPage` calls
`ClearMemory`. `ClearMemory` (l.16-43) frees the first node of the list once per
frame, a double free in any pool of more than one frame. A `forcePage` of a page
with a negative number fails in the storage manager and ends there as well.

### BufferPoolLRU

Under LRU a page gets a new node in front of the list, or its node is moved
there. The nodes of `initBufferPool` stay behind, empty, until the list is cut.
`list` is the sequence of the nodes with pages. Two more facts about the pointers
matter: `evicted`, whether `end` points to the last of these (it does from the first
eviction on, l.489-494), and `cut`, whether that one has `NULL` behind it (l.639,
after the end itself was pinned again). `pool` is `"broken"` where the pointers stop being
a list: the first node pinned again becomes its own successor (l.620), a cut end
pinned again is taken out and put nowhere (l.625-634), an eviction of a cut end or of the first
node follows a `NULL` pointer (l.506-512). All of these were reproduced with the compiled
program. `removePageFrameLList` looks for a victim in a loop without a break and
unlinks it again in every round; the second round restores the link to the empty nodes that the
first one cut, and the net effect is one removal. Its return value, the number of a *page*, becomes the
new node's frame number (`FrameHandedOn`).

Clients ask for any page at any time. `careful` remembers whether they asked
again only for pages strictly inside the list. They cannot know which these are; the
variable says what the code would need of them, and `PageStore` is claimed as
long as it holds. `EvictsLeastRecent` is claimed of everybody.

`PageStore` has a parameter for how many pages must be held before a failure is
excused: all frames under FIFO, all but one under LRU, where an eviction that comes to the
first node fails.

### StorageManager

`filePtr` is the file that the shared stream is open on, `NULL`, or `"dangling"`
after `fclose`: neither `closePageFile` nor `createPageFile` resets the pointer.
`rc` is the code of the last call, or `"crash"` when the call used a stream that was
closed. `readBlock` sets `curPagePos` to the stream's position in bytes
(`PageSize * ...`), `writeBlock` to a number of pages.

`together` remembers whether two files were ever open at the same time. All callers
in the repository keep one open; the properties about sizes and bytes are claimed
for them, under `~together`, and `StreamHasOwner` for everybody.

### BTreeIndex

What the code calls a tree is a list of nodes of `maxEle` slots, linked through
`next[maxEle]`; `next[0 .. maxEle - 1]` are written and never followed. The
model flattens the chain into the sequence of its slots. `back` is the node that
`next[maxEle]` of the last node points to: 0 for `NULL`, another number after the
sixth insertion made the newly linked node the parent of the first three (l.212-219;
`next[2]` is `next[maxEle]` for order 2) and with that tied the chain into a ring.
`up` is `"hung"` when a loop goes round that ring, `"broken"` when the code used
memory that is not its own: the root freed by `closeBtree`, the arrays of
`openTreeScan`, which have room for as many entries as there are keys and get as many as
there are slots, or a missing third node at the sixth key. The behaviour was
compared with the compiled program.

`FreshKeys` is what `malloc` may leave in the keys of a new root, which
`createBtree` does not initialise. Clients insert, delete and scan as they like;
`tidy` remembers whether the root was all zeros and they deleted only the last key,
in the last node, and opened a scan only when no slot was free: as long as free slots
are only behind the last key, an insertion uses one. That the chain is an index is claimed while `tidy`
holds, of orders above one, and that it breaks by reopening only, of order 2: with one key to a node the sixth key
makes a ring, with three it can come while there are two nodes. `OtherKeysUnmoved`, `InsertedIsFound` and
`ScanInOrder` of all chains, with holes or tied into a ring.

`nextEntry` ends as soon as its node has no next one, before it has returned the rest of that node, of
which it returns the first entry or, if it is the only one, none. `ScanInOrder` has what is
left of the promise to scan all entries: when a scan ends, no more are missing than fit into a node.

### FrameArray and FramePool

The pool of assign3 is an array of frames, each with a page number, a fix count, a
dirty mark, and a pointer to a buffer. In `FrameArray` its state is a record `bp`
and each function of `buffer_mgr.c` an operator from one such record to the next, because
the record manager makes several calls in one of its own; `FramePool` and
`RecordManager` make steps of them. Buffers have numbers (`data`) and bytes (`heap`): several
frames, and the handle of a client, may point to one buffer, and a buffer that left
its frame stays valid for the client that holds it (nothing is freed).
`NewBuffer` is `malloc`. `file` is opened anew in every call.

`pinPage` stops at the first frame that is empty or has the page. If there is none,
`RS_FIFO` replaces not one unfixed frame but *all* of them by the new page in one
buffer, after it wrote back those that are *not* dirty; `RS_LRU` always takes frame 0,
fixed or not, and writes nothing, because it opens a file named by the bytes of the frame array.
`markDirty` marks every frame. `forceFlushPool` stops at the first dirty
frame, so it writes the clean prefix. The loop of `shutdownBufferPool` starts over after
each frame and ends only if frame 0 or 1 is fixed (`"hung"` otherwise).

In `FramePool` each client has one page handle. `saved` is what a client forced last
and nobody stored over, and `shared` whether two clients ever held a page at a time: what
is claimed about finding frames and about forced bytes is claimed for clients that
take turns.

### RecordManager

`mgr` is what became of the one `objRecMgr` and the client's table, `tCount` and `freePg`
its counters. A page is a function from slots to contents: a record, which the code
marks `'+'`, the zeros of a page just appended or never written, or the dashes
that `deleteRecord` leaves. `findFreeSlot` takes any slot without a `'+'`. Memory that
`malloc` returns for a page behind the end of the file is taken as zeros, that is, as
without a stray `'+'`.

Each operation is one action with all its calls of the pool, in their order. Several leave
pages pinned: `insertRecord` page 0 (l.342), `deleteRecord` the page of the record, `getRecord` the
page of a slot without a record, every round of a scan without a match its page.
`updateRecord` tests a pointer it has not set (l.433) and either finds its slot or writes to address
1: a choice in the model. `startScan` opens the table again and sets
`t_count` to `ATTRIBUTE_SZ`; `next` increments the slot before it looks, so that a scan starts
behind the first slot, ends after `ATTRIBUTE_SZ + 1` slots and evaluates its
condition on free slots as well. A scan is the fold of its rounds (`Scanned`).

So a scan does not do what it is documented to do, to find all tuples that satisfy a condition:
`ScansFindAll` says that it does, and the run `ScanFindsAll` refutes it. What the loop of `next`
does keep, and a corrected one would keep too, is `ScansMissNoneInReach`: a scan of a table that
nobody changes, continued after every match, returns no slot twice and none that its condition does not
hold of, and does not end before it returned every matching record (`Matching`) of the slots that it
counts (`Reach`).

Clients open, close and shut down while no scan is on, close a scan only after reading
from it (its page handle is uninitialised before), and delete a table that is not open. Of the conditions,
the instance takes the one that all contents but zeros satisfy.

`recs` is the record that the next call finds in every slot, `answer` what the last call
answered; with these `RecordManager` implements `Table`. `seen` is what a scan returned since it started,
`still` whether the table stayed unchanged meanwhile.

### RecordData

A record is the sequence of its bytes: the mark of its slot, then the attributes at
the offsets that `attrOffset` computes from the data types. `dataTypes` is the
client's own array, which the schema points to. `getAttr` of attribute 1 writes
`DT_STRING` into it (l.831-832) before it looks; for the schema of the tests, whose attribute 1
is a string, this changes nothing, for others it makes everything behind attribute
1 move. `value` is what an attribute was set to, and `Lost` from the moment its
place or type changes; so `AttributesKept` speaks of records made or written again
under the changed types as well. Attributes that are not strings have length 0, as in
the tests.

Ints are four bytes of two's complement, strings are padded with zeros and end at the
first. `getAttr` of a float or bool calls `call_memcopy`, which copies over its own
parameter: what the client gets is what `malloc` returned (`Junk`).

An expression is the sequence of its nodes in the order in which the recursion of `evalExpr`
comes to their values, arguments before their operator and left before right, and an operator names the
places of its arguments; so a fold over the nodes (`Results`) is the recursion. It threads the data
types through: a reference to attribute 1 retypes what comes after it. Errors of comparisons and connectives end the
program in `CHECK`. `boolAnd` and `boolOr` do not set the type of their result, which stays
the int -1 with its lower half overwritten; `valueSmaller` of two bools goes
on into `strcmp`. `MeaningOf` says which nodes are well typed in spite of this, and what they mean
over the values that clients set; `Meaningless` is what the others mean.

### StrategyPool

`frame` is the array behind `mgmtData`; `lastIndex`, `hitCount`, `clockPtr` and `lfuPtr` are the
globals of `buffer_helper.h`, of which `initBufferPool` resets the last two. `openPageFile` of
assign4 returns (`storage_mgr.c:54`) before it has set `totalNumPages` or `mgmtInfo`, so
that every block goes through whatever the stack held: the call fails unseen or
the program ends (`pool = "broken"`, a choice wherever a page is read or written). No byte moves between a frame
and the file, and bytes are left out.

`pinPage` has an action for each outcome: the first page of a pool, a hit, an empty frame
and a replacement. `StopsAt` is the frame where its scan ends. Each strategy
is a predicate `Victim(f)`: FIFO takes the first frame that is not fixed, from the number of
loads on; LRU the smallest `hitNum` from the first unfixed frame on, fixed or not; LFU goes
through two loops, the first of which moves by `i` in round `i`, the second of which looks at all frames,
fixed or not. `LHI` and `leastFreqRef` are read uninitialised when all frames, or the frame at `lfuPtr`, are
fixed, and `lfuPtr` may be one behind the last frame: choices over what may be found there. CLOCK is a
search with a step per round of its loop (`ClockStep`); it looks at no fix count, and its
hand is moved by every hit as well. `RS_LRU_K` and a FIFO with all frames fixed
give the client a buffer that is in no frame and answer `RC_OK`.

`shared` remembers whether two clients ever held pages of the pool, `unplaced` whether a page was put into no
frame. The behaviour was compared with the compiled program (which links with `-fcommon` only).

## Runs and what they show

| Run | Instance | Shows |
|---|---|---|
| `FIFOStore` | 3 clients, 2 frames, 3 pages, 2 contents | the pool is consistent (`Inv`), fix counts are pins, held pages stay, nothing stored is lost, and the pool implements `PageStore` |
| `FIFOOrder` | 2 clients, 3 frames, 4 pages of which one negative, stray unpins, no writes, fix counts down to -2 | frames fill in list order (`FilledFirst`) and the pool implements `FIFOPolicy` |
| `FIFOFullPoolCrash` | as `FIFOStore` | refutes `FullPoolSurvives` |
| `LRUStore` | 2 clients, 3 frames, 4 pages, 2 contents | as long as clients are `careful` the pool implements `PageStore`; until the list breaks it implements `LRUPolicy` |
| `StorageStreams` | 2 names, 2 handles, up to 3 pages | sizes follow the file, reads deliver the page, or nothing where there is none, only owners change pages; the stream is never left on a file that no handle names |
| `BTreeStore` | order 2, 2 keys, 2 record ids, up to 4 nodes, any deletion, roots with garbage | as long as clients are `tidy` the chain implements `KeyIndex` and nothing breaks but by reopening; scans are sorted and end in the last node (`ScanInOrder`), no call changes what is found for another key, a new key is found |
| `FramesKept` | 2 clients, 2 frames, 3 pages, 2 contents, FIFO and LRU | copies of a page share one buffer, and two pages never do (`CopiesShareBytes`); clients that take turns get a frame, and see what was forced (`AloneFindsAFrame`, `ForcedIsKept`) |
| `RecordsKept` | 4 frames, pages 0 to 2, 2 slots a page, 2 values, 1 scan of 3 slots | the record manager implements `Table`; a scan returns no slot twice and misses no matching record of its reach (`ScansMissNoneInReach`); shutdown hangs only if nothing was inserted |
| `ScanFindsAll` | 3 frames, 1 value | refutes `ScansFindAll`: the record in the first slot is not found |
| `ClosedTable` | 3 frames, 1 value | refutes `ClosedTableIsInFile` |
| `AttributesKept` | 3 schemas of 3 attributes, 8 values, some 110 conditions | attributes hold what they were set to and nothing else is touched, under the types getAttr leaves too; well-typed conditions are satisfied by what they mean (`ConditionsMean`) |
| `Strategies` | 2 clients, 3 frames, 4 pages, 5 strategies, up to 8 pins a pool after its first | one frame per page; FIFO keeps held pages until it is asked with all frames fixed; FIFO implements `FIFOPolicy`, LRU `LRUPolicy`, CLOCK and LFU take what was used least (`TakesLeastUsed`), and the search of CLOCK ends (`SearchEnds`) |

Why the bounds are enough. Two frames and three pages give hits, empty frames,
replacements at the start and at the end of the list, and re-reading of pages that
left; three clients let two share a page while a third replaces another. Three
frames give a replacement in the middle. A page file of three pages has pages
before, at and behind its end, so that writes extend it by one or by more. Three nodes of
order 2 hold the six entries at which `insertKey` behaves differently, and four
let the sixth come after deletions. `MaxPages` and `MaxNodes` bound what would
otherwise grow; the `CONSTRAINT`s `ReadersOnly` (`FIFOOrder`: the order of replacement does not depend
on bytes), `CarelessOnlyRead` (once clients were careless only the order of
replacement is claimed, which does not depend on bytes) and `UpToSixTaken` keep the runs short, as do `TwoPagesStored` (two pages are written, four read) and the
`VIEW` of `LRUStore`, which leaves out the frame numbers: no guard depends on them. The
pages of `RecordsKept` fit into its frames, so that none is replaced, with one frame
more than pages; tables that do not fit lose records. Its `ATTRIBUTE_SZ`, 15
in the code, is scaled to 2 with the slots of a page, so that a scan ends within the second
page. `MaxUnpins` bounds fix counts of copies, which sink below 0; `MaxTuples` bounds
`t_count`. In `FIFOOrder` unpins by clients that hold nothing take fix counts below 0 as often as
they are called; the constraint `FixCountsBounded` ends behaviours at `MinFixCount`, -2, a count from
which two pins do not lead above 0: all that the code asks of a fix count is whether it is 0.

The `VIEW`s leave out what no later step looks at: the numbers of buffers
(`WithoutNumbers`), the bytes of files after two were open together (`BytesOfOneFile`), and
in `WhatCallsFind` the bytes of the file where a frame has the page, the fix counts
behind the first two frames, which decide about the end of a shutdown and about nothing
else, and pins beyond the `MaxPins`-th. The last joins states that differ in how many leaked pins
a page has. Only `closeScan` unpins without having pinned in the same call; of page 0 it takes back
one pin, which the end of the scan left, so that for frame 0 it makes no difference
whether one leaked pin or several are behind it. For frame 1 it may, but frame 1
decides about a shutdown only while frame 0 is unfixed.

`Strategies` bounds the pins since the first of a pool (`MaxHits`): eight fill three frames,
hit them and replace pages several times over, from every position of the hand and of
`lfuPtr`. `OneDirtyFrame` keeps the dirty marks few, on which no property depends, and
`FirstPagesInOrder` takes one of the orders in which the first pages may come, which are all alike. Strategies that only
clients who take turns can rely on (`EvictsFirstIn`, `EvictsLeastRecent`, LFU) are claimed under `~shared`: with two
pages held, FIFO may replace the page that came last, and LRU a page that is held.

The schemas of `AttributesKept` have each type in front of, at and behind attribute 1; its
strings are shorter than their attribute, as long, and longer; its ints have one byte, two, and the
sign. The conditions are all comparisons of attributes and constants, connectives of four of them, and negations.

Clients, handles and record ids are
symmetric where the run says so: no property and no action tells them apart.

`CHECK_DEADLOCK` is off everywhere. A pool whose memory was freed, a hung index
or shutdown and a storage or record manager after a crash have no next step.

The code has no scheduler and no call that waits for another, so nothing is claimed about
what clients eventually do. Where a loop may not end, `"hung"` is a state. The one
loop whose end depends on what it changes on its way is that of CLOCK, and there the
end is a liveness property, `SearchEnds`. It assumes weak fairness of `ClockStep` alone
(`FairSpec`): while the search is on no client can call anything, a round is always possible, and
a sequential program goes on to its next statement.

## Proofs

Every theorem holds for any value of the constants that its module assumes: any clients, pages,
contents, keys and files, any number of frames, chains and files of any length. Each component has an inductive
invariant, in which what the runs check is strengthened by what it rests on, with a lemma for every action;
TLC checked it before it was proved. Properties of steps, and refinements, follow from the
invariant step by step.

`BufferPoolFIFOProofs`:

- `Consistency`: `Inv` is inductive. It
  strengthens the properties with the facts they rest on: the list visits every
  frame once (`ListComplete`; otherwise `FirstIn` might find nothing and a
  replacement might drop a frame), no page is in two frames (`OneFramePerPage`;
  otherwise markDirty marks the wrong one), a handle is pinned or cleared
  (`HandlesShaped`), a closed pool is empty (`ClosedIsEmpty`), and occupied
  frames come first (`FilledFirst`; otherwise a shutdown could miss a pinned one).
- `PinsCounted`, `HandlesStayValid`, `NothingIsLost`: the properties that clients
  rely on, as consequences.
- `TypesCorrect`: the list stays a sequence of frames of its length, and no fix count is below zero, because
  each is the number of holders.

The assumption is `CarefulClients`: page numbers are not negative, nobody unpins a
page it does not hold, and there are finitely many clients. Each conjunct is
needed: a negative page is never written, so its bytes are lost, and a stray unpin takes
away another client's pin. The counting part uses the library's theorems about cardinality.

- `PoolIsAStore`: the pool implements `PageStore`, for `CarefulClients` and `NumFrames > 1`. A pool of one frame
  crashes at its first replacement, whoever holds what. The invariant is `Inv` with `OpenHasFile`. A pin
  succeeds only if a page can still be held (`FitsFrames`: there are no more pages held than frames), and fails only if
  every frame holds one (`FullIsHeld`); a replacement leaves the contents of every page alone because what is dirty is
  written and what is clean is in the file (`NothingLost`).
- `FramesFillInOrder`, `FirstInFirstOut`: `FilledFirst` and `FIFOPolicy` for any clients at all, also for those who
  unpin what they do not hold. Fix counts mean nothing then, so the invariant here (`ListInv`) is about the list alone.
  The queue of the policy is the first `filled` frames of the list.

`BufferPoolLRUProofs`, for finitely many clients, from the inductive `Inv`: no page is in two nodes (`Distinct`), a fix
count counts the holders of its page (`Counted`), what is held is in the list (`HandlesListed`), what leaves the pool
clean is in the file (`NothingLost`), and the end is not cut while clients are careful (`CarefulNotCut`). A hit, a new page
and a replacement do the same to the list: a node comes to the front and at most one other place is gone
(`PinsNode`), so that what they keep is proved once.

- `PoolIsAStore`: the pool implements `PageStore` as long as clients are careful, for any number of frames. The point is
  that a careful client meets the broken list only when all frames but the first are held
  (`BrokenIsFull`): the only place where a replacement can then fail is the first node.
- `LeastRecentlyUsed`: it implements `LRUPolicy` for any clients, until the list breaks. The queue of the policy is the
  pages of the list, and `QueueFronted` says what moving a node to the front does to it.
- `TypesCorrect`.

`StorageManagerProofs`, from the inductive `IInv`:

- `HandlesTrackTheirFiles`, `OwnersChangePages` and `ReadsDeliver` (a page of the file is delivered, and a read of
  any other leaves the client's memory alone), as long as one file is open at a time. That two
  handles are never open then (`OneHandleOpen`) has to be part of the invariant: `closePageFile`
  would leave the other one on the stream it closed.
- `StreamsHaveOwners` for any handles: whatever is open, the stream is on no file that can be destroyed.
- `TypesCorrect`.

`FramePoolProofs`, under `EnoughBuffers` (there are buffers for all frames and handles; `malloc` finds one):

- `CopiesStayOne`: frames of one page have one buffer and frames of different pages different ones, from
  `WellFormed`, which also has that a frame without a page is behind those with one.
- `AloneServed`: while clients take turns, the page a client holds has a frame with its buffer. `unpinPage` counts all
  copies of a page down and `pinPage` counts one up, so no general statement about counts holds. The invariant is
  about frame 0 (`FrontCount`): no copy of its page is found before it, so its count is 1 if its page
  is held and 0 otherwise, and a replacement always finds it.
- `ForcedPagesSurvive`: while clients take turns, what was forced, and not stored over, is in the file and in every
  frame of the page (`SavedEverywhere`), and so is what the next pin delivers: it does not matter that a replacement drops dirty frames and writes clean ones.
- `TypesCorrect`.

`RecordManagerProofs`, for any number of frames above one, of pages with records, of slots, scans and tuples:

- `TypesCorrect`, from the inductive `IInv`, for tables of any size: every frame with a page has a buffer, and what a
  scan holds is a place in the table. `IInv` also has that a buffer is in one frame or in none, and that frames without
  a page are behind those with one (`WellFormed`).
- `RefinesTable` (the record manager implements `Table`), `ScansComplete` and `HangsOnlyIfUnused`, under `PagesFit`: the
  pages with records, and the page of the last tuple that a scan asks for, have frames.
  The hypothesis is needed: with more pages the pool replaces frame 0, which it does not write, and records are lost. The
  inductive invariant (`FitInv`) has that what is in no frame was never written (`PoolFits`), so that a page is read
  from the file only when it is all zeros; that page 0 is in frame 0 and pinned once for an insertion and once for every
  scan that ended (`Unused`), so that neither the searches of `insertRecord` nor `closeScan` let a shutdown
  hang; that a scan has returned the slots it passed that satisfy its condition (`SeenInv`), from which
  `NextReturns` has what each call of `next` returns; and that `recs` is what the next call finds.
- A page that fits finds a frame, because the pages of the others are fewer than the frames (`RoomForPage`, by the
  pigeonhole theorem of the library). What a call of the pool keeps of a table is said once for each
  (`PinCarries`, `MarkCarries`, `ForceCarries`, ...), and an operation of the record manager composes them.
- The searches for a free slot and for the next match are folds. `TriedRounds` and `ScanRounds` prove from
  the definition of `FoldLeft` that they are so many rounds, one after the other; what a round keeps then goes through all
  (`PlaceCarries`, `ScannedPasses`).

`RecordDataProofs`, for schemas of any number of attributes and any lengths, all ints of 32 bits, all strings and conditions
of any size:

- `TypesCorrect` and `AttributesAreKept`, from the inductive `IInv`: a record has room for its attributes under
  the types of the moment, and what is not `Lost` has the bytes of its value at its place
  (`Holds`). Offsets are sums of widths, and `OffsetsAre` has what they need to be: attributes lie behind the mark, one behind the
  other, and types that `getAttr` changed make none begin later, so a record that was created under the old types has room under the
  new ones. That needs strings to be the only attributes with a length, which `SchemasAssumption` says; the other assumptions are the ranges of C's types (`IsContent`) and that operators
  come behind their arguments (`IsNode`).
- Bytes are read as they were written: `IntIsBytes` (two's complement in four bytes, for every int) and `StringIsBytes` (a
  string without zeros, cut at the length of its attribute).
- `ConditionsMeanIt`, from the same invariant: the evaluation goes through the nodes in rounds (`EvaluationRounds`), the
  meaning as well (`MeaningsAre`), and after each round every value that the evaluation may have come to is the one that
  its node means (`Agrees`, `NodeAgrees`). Of a connective that is a bool in the lower half of an int whose upper half is all ones.

`StrategyPoolProofs`, for any set of strategies and through every change of strategy:

- `TypesCorrect` and `PagesHaveOneFrame`, from the inductive `IInv`. Besides the two it has
  `Searching`: while CLOCK searches, which takes many steps, all frames have pages and none has the new
  page or its buffer; otherwise the page could come to a second frame, or behind an empty one.
- `PinsAreHonoured`, for finitely many clients, from the inductive `PInv`. It adds
  that a handle that is held has a page (`HandlesShaped`; the scan would take the frames without
  one for frames of that page) and that only CLOCK
  searches (`OnlyClockSearches`; it takes frames that are fixed). `FreshPageComes` is the heart:
  a frame that is not fixed has a page that nobody holds.
- `LeastUsedIsTaken`, `FirstInIsEvicted` and `LeastRecentIsEvicted`: the frame that a strategy takes is the one it is
  named for, FIFO as `FIFOPolicy` and LRU as `LRUPolicy`, both as long as clients take turns. The strategies go by
  counts of pins and loads, and the inductive `TInv` says what these counts are of the frames: each frame is
  fixed once or not at all (`CountsAlone`), the frames with pages are those up to the number of loads
  (`LoadsCounted`), times of use are past and tell pages apart (`UsesOrdered`), and the hand of CLOCK comes to
  each frame that had no bit when the search began before it comes back to one that it cleared (`Swept`), however
  far hits moved the hand.
- For the two policies a queue is the pages in the order of a key of their frames (`QueueOf`). The lemmas about it are
  that places are taken once each (`PlaceIsOne`, `PlacesTaken`) and what one more in front or behind and one
  less make of the queue (`QueueFirst`, `QueueLast`, `QueueLess`). FIFO's key is a remainder: a load takes one from
  every remainder, and what was at 0 comes last (`LoadTimePasses`, from `RemainderBefore`).

`BTreeIndexProofs`:

- `TypesCorrect` and `ScansAreSorted`, from the inductive `IInv`: the chain has whole nodes, a live root has a node
  (`LiveHasNode`), and while a scan is open the chain is full, sorted and no ring, and the cursor is where
  the number of returned entries says (`ScanShaped`); so a scan that ends is in the last node (`EndIsLast`). That `NotFound` and
  `NoMore` are no record ids is an assumption (`AnswersAssumption`).
- `OtherKeysStay`, `InsertedKeysAreFound`, for any clients, roots with garbage and rings included. The lemmas
  about operators are `WithIs` and `ParentIs` (what an insertion and the parent of the sixth key leave in every
  slot), and `PlaceOrders`, `PlacesTaken`, `SortSorts` and `SortKeepsFound` (the places of a stable sort are
  taken once each, and the first entry of a key stays the first).
- `OnlyReopening`, for order 2, from the inductive `TidyInv`: free slots are behind the last key in the last node
  (`TidyChain`) and the chain is no ring (`NoRing`). With two keys to a node the sixth key fills up the
  third node, and the parent is made in memory that nothing points to.
- `ChainIsAnIndex`, for orders above one: for tidy clients the chain implements `KeyIndex`, whose `rids` of a key are the record ids
  at the slots of the key, in the order of the slots. The lemmas are about the i-th slot of a finite set of slots
  (`NthIs`): how it changes when a slot is added behind all (`NthOfLarger`, an insertion), when the first is removed
  (`NthOfRest`, a deletion) and under a move that keeps the order (`NthOfImage`, the sort). Counting is
  a bijection between the slots taken and the entries (`CountIs`).
- `CallsAreIndexCalls`: and every call is the call of the same name with the same arguments. The refinement by
  itself would allow one call to be taken for another.

What holds of every natural number is proved by taking the least element of a set of numbers, or the greatest if it has a bound (`LeastExists`, `LastExists`), because
the induction theorems of the library take operators.

Only model-checked:

- `StrategyPool`: that the search of CLOCK ends, which is liveness.

Out of the prover's reach are liveness, `ENABLED` and induction over data.

## Divergences found

Shown by runs (see "findings" in `PROJECT.json`): pinning into a full pool destroys
it; a scan of a table does not find the record in the first slot; a table that was closed
is not in its page file (nor is it after the record manager was shut down: an insertion marks every
frame, and a flush stops at the first that is marked).

Seen while modelling, and part of the models without a run of their own:

- `initBufferPool` of a missing file runs into `ClearMemory` and returns
  `RC_OK`; `unpinPage` of an absent page destroys the pool; both are errors that the
  pool survives in `test_assign2_2.c:175` and `:183`.
- `shutdownBufferPool` with a page fixed returns `RC_OK` and does nothing.
- A pool of one frame cannot replace its page: `ptrNextPageInfo` of its only
  node points behind an array.
- Under LRU, pinning once more the page that was pinned last makes its node its own
  successor, and all other pages are gone.
- A pool pins negative page numbers (`test_assign2_2.c:170` expects an error).
- Under LRU two pages can get the same frame number, or one beyond the last, and
  the statistics functions show one page twice or not at all.
- `readBlock` of page `totalNumPages`, which does not exist, reads nothing and
  returns `RC_OK`.
- After `readBlock`, `curPagePos` is a number of bytes, which `writeCurrentBlock` takes
  for a page number.
- `readPreviousBlock`, `readCurrentBlock` and `readNextBlock` refuse every handle,
  because the test is inverted.
- With two files open, a read through the first handle delivers a page of the
  second, and closing one leaves the other on a closed stream.
- The index loses everything, and uses freed memory, once it is closed and opened.
  From order 4 on its nodes are too small (`sizeof(int)` for an `RID`).
- One insertion into the index fills the first free slot of *every* node that has one.
- The pool of assign3: shutdown of a pool with neither of its first two frames fixed does
  not end; replacements drop dirty pages and write clean ones; LRU replaces
  frame 0 while it is fixed; every load, flush and force opens the file and
  leaves the stream open.
- A table with more pages than the pool has frames loses records (`RecordsKept` with two
  frames violates `ImplementsTable`).
- A scan of a table also looks at free slots, and returns deleted ones that satisfy its condition, and it ends after
  `ATTRIBUTE_SZ + 1` slots; after it, and after deletions and reopening, `getNumTuples` is not the number of records.
- A scan of the index ends with `RC_IM_NO_MORE_ENTRIES` before it returned the rest of the last node, where
  `assign4_b+tree_index/README.txt:119` says that it scans all entries; `test_assign4_1.c:253` adds 1 to its count.
- `openTable` after `shutdownRecordManager` dereferences `NULL` (`openTableAgain`).
- `getAttr` of attribute 1 declares it a string for good, in the array of the client.
  Of a schema whose attribute 1 is an int, that attribute is never read again, the ones behind
  it are read from the wrong place, and a condition on it ends the program.
- Floats and bools are never read: `getAttr` returns them uninitialised, where
  `assign3_record_manager/README` says that it copies the value.
- The result of AND and OR is typed as an int, so that NOT, AND and OR of it end the
  program, and `valueSmaller` of two bools compares them as strings.
- `rm_serializer.c` has its own `attrOffset`, which starts at 0 and not behind the mark: it prints every
  attribute from one byte too early (an int 7 behind the string `ab` as 1890).
- The pool of assign4 neither reads nor writes a page. CLOCK, and LRU and LFU behind the
  first unfixed frame, replace pages that are held; FIFO with all frames fixed, and RS_LRU_K always, answer `RC_OK`
  with a buffer in no frame. `shutdownBufferPool` returns after the flush. Hits move the hand of CLOCK, and
  after hits it may be behind the last frame, where the program breaks.

## Not modelled

- The record manager of assign4: its `createTable` writes a block through a handle that
  `openPageFile` did not set, so no table can be made, and nothing in the repository calls it.
- The storage manager of assign4 by itself: of its calls, those that touch blocks
  fail or end the program; `StrategyPool` has this as its only choice.
- Serialisation and pool statistics, which format for printing and keep no state; `printTree`, `getNumNodes`,
  error messages.
- `buffer_mgr_orig.c`, `Backup` and `Og_Nayana_Record_Manager`: earlier versions that no makefile builds.
- Environment limits: full disks, failing `malloc`, the number of open streams (which
  the pool of assign3 uses up: it opens the file at every load, flush and force and never closes
  it). A pool of one frame, whose replacement leaves the list, is not instantiated.

## Plan

1. Done: the FIFO pool with its abstract specifications and the proof of its
   invariant; the storage manager; the index.
2. Done: `BufferPoolLRU`, sharing `PageStore`.
3. Done: `FramePool`, the array pool of assign3, and `RecordManager` over it, against
   an abstract table.
4. Done: `RecordData`, attributes and conditions against their meaning.
5. Done: `StrategyPool`, the pool of assign4, with the liveness of CLOCK.
6. Done: proofs of `OneFramePerPage` and `PinsHonoured` of the pool of assign4.
7. Done: proofs of the invariants of the storage manager, the pool of assign3 and the index, and that the FIFO pool
   implements `PageStore` and `FIFOPolicy`, the LRU pool `PageStore` and `LRUPolicy`, and the index `KeyIndex`; that
   FIFO, LRU, CLOCK and LFU of assign4 replace what they are named for.
8. Done: proofs of the invariants of `RecordManager`, and that it implements `Table`.
9. Done: proofs that attributes are kept and that conditions mean what they say.
10. Left: a table and the attributes of its records in one model.

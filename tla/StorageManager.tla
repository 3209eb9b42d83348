--------------------------- MODULE StorageManager ---------------------------
(***************************************************************************)
(* The storage manager of assign1_storage_manager (the same code is in     *)
(* assign2 and assign3): page files, the file handles of its clients, and  *)
(* the one stdio stream, filePtr, that all handles share.                  *)
(*                                                                         *)
(* Each handle comes with the page of memory its client reads into and     *)
(* writes from.  A handle is NULL here while it is not open.               *)
(***************************************************************************)
EXTENDS Integers, Sequences

CONSTANTS
    Names,       \* the file names
    Handles,     \* the SM_FileHandle structures of the clients
    Data,        \* what a page can hold
    Blank,       \* a page of zeros
    NULL,        \* no file, no handle, no stream
    PageSize,    \* PAGE_SIZE; any number above 1 tells bytes from pages
    MaxPages     \* bound: the pages of a file and the page numbers asked for

ASSUME DataAssumption == Blank \in Data /\ NULL \notin Names
ASSUME SizeAssumption == PageSize \in Nat \ {0} /\ MaxPages \in Nat \ {0}

VARIABLES
    exists,      \* the files that exist
    pages,       \* the pages of each file
    filePtr,     \* the file the stream is open on, NULL, or "dangling" after fclose
    handle,      \* fileName, totalNumPages and curPagePos of each open handle
    mem,         \* the memory page of each handle's client
    rc,          \* the return code of the last call, or "crash"
    together     \* history: whether a file was created or opened while one was open

vars == <<exists, pages, filePtr, handle, mem, rc, together>>

Opened(h) == handle[h] # NULL
NoneOpen == \A h \in Handles : ~Opened(h)
InUse(n) == \E h \in Handles : Opened(h) /\ handle[h].fileName = n
OnFile == filePtr \in Names
File == pages[filePtr]

(* Using a stream that was closed, or seeking in none. *)
Crash == rc' = "crash" /\ UNCHANGED <<exists, pages, filePtr, handle, mem, together>>

Return(code) == rc' = code /\ UNCHANGED <<exists, pages, filePtr, handle, mem, together>>

-----------------------------------------------------------------------------
Init ==
    /\ exists = {}
    /\ pages = [n \in Names |-> <<>>]
    /\ filePtr = NULL
    /\ handle = [h \in Handles |-> NULL]
    /\ mem = [h \in Handles |-> Blank]
    /\ rc = "RC_OK"
    /\ together = FALSE

(* The stream is taken from the handle that is open, if one is. *)
NoteOpenFiles == together' = (together \/ ~NoneOpen)

(* Clients create and destroy a file that no handle is open on.  fopen "w+"
   truncates; the stream is closed again, but filePtr stays. *)
createPageFile(n) ==
    /\ ~InUse(n)
    /\ exists' = exists \cup {n}
    /\ pages' = [pages EXCEPT ![n] = <<Blank>>]
    /\ filePtr' = "dangling"
    /\ rc' = "RC_OK"
    /\ NoteOpenFiles
    /\ UNCHANGED <<handle, mem>>

openPageFileBeforeTheStart(n, h) ==
    /\ ~Opened(h)
    /\ n \in exists
    /\ filePtr' = n
    /\ handle' = [handle EXCEPT ![h] =
           [fileName |-> n, totalNumPages |-> Len(pages[n]), curPagePos |-> -1]]
    /\ rc' = "RC_OK"
    /\ NoteOpenFiles
    /\ UNCHANGED <<exists, pages, mem>>

openPageFile(n, h) ==
    /\ ~Opened(h)
    /\ IF n \in exists
       THEN /\ filePtr' = n
            /\ handle' = [handle EXCEPT ![h] =
                   [fileName |-> n, totalNumPages |-> Len(pages[n]), curPagePos |-> 0]]
            /\ rc' = "RC_OK"
       ELSE /\ filePtr' = NULL
            /\ rc' = "RC_FILE_NOT_FOUND"
            /\ UNCHANGED handle
    /\ NoteOpenFiles
    /\ UNCHANGED <<exists, pages, mem>>

closePageFileForgetsTheStream(h) ==
    /\ Opened(h)
    /\ OnFile
    /\ handle' = [handle EXCEPT ![h] = NULL]
    /\ rc' = "RC_OK"
    /\ UNCHANGED <<exists, pages, filePtr, mem, together>>

(* fclose, whichever file the stream is open on. *)
closePageFile(h) ==
    /\ Opened(h)
    /\ \/ filePtr = "dangling" /\ Crash
       \/ filePtr = NULL /\ Return("RC_FILE_NOT_FOUND")
       \/ /\ OnFile
          /\ filePtr' = "dangling"
          /\ handle' = [handle EXCEPT ![h] = NULL]
          /\ rc' = "RC_OK"
          /\ UNCHANGED <<exists, pages, mem, together>>

destroyPageFile(n) ==
    /\ ~InUse(n)
    /\ exists' = exists \ {n}
    /\ pages' = [pages EXCEPT ![n] = <<>>]
    /\ rc' = IF n \in exists THEN "RC_OK" ELSE "RC_FILE_NOT_FOUND"
    /\ UNCHANGED <<filePtr, handle, mem, together>>

(* What the client's page of memory holds after fread at page p of the file. *)
BytesReadFromOneEarlier(p, memPage) == IF p \in 1 .. Len(File) THEN File[p] ELSE memPage
BytesRead(p, memPage) == IF p < Len(File) THEN File[p + 1] ELSE memPage

(* The page number may be one past the last: nothing is read then, and the
   call succeeds.  curPagePos becomes the stream's position in bytes. *)
readBlock(h, p) ==
    /\ Opened(h)
    /\ \/ filePtr = NULL /\ Return("RC_FILE_HANDLE_NOT_INIT")
       \/ /\ filePtr # NULL
          /\ p > handle[h].totalNumPages
          /\ Return("RC_READ_NON_EXISTING_PAGE")
       \/ filePtr = "dangling" /\ p <= handle[h].totalNumPages /\ Crash
       \/ OnFile /\ p < 0 /\ Return("seek failed")
       \/ /\ OnFile
          /\ p \in 0 .. handle[h].totalNumPages
          /\ mem' = [mem EXCEPT ![h] = BytesRead(p, @)]
          /\ handle' = [handle EXCEPT ![h].curPagePos =
                 PageSize * (IF p < Len(File) THEN p + 1 ELSE p)]
          /\ rc' = "RC_OK"
          /\ UNCHANGED <<exists, pages, filePtr, together>>

(* readPreviousBlock, readCurrentBlock and readNextBlock refuse every handle. *)
readRelativeBlock(h) == Opened(h) /\ Return("RC_FILE_NOT_FOUND")

(* The file after page p of it was written: past the end it grows, with zeros. *)
Written(f, p, d) ==
    [i \in 1 .. (IF p < Len(f) THEN Len(f) ELSE p + 1) |->
        IF i = p + 1 THEN d ELSE IF i <= Len(f) THEN f[i] ELSE Blank]

(* The client fills its memory page with d and calls writeBlock.  Page 0 is
   refused while the handle has no page; any other number is sought, and before
   the file that fails.  curPagePos becomes a number of pages. *)
Admitted(h, p) == p > 0 \/ p < handle[h].totalNumPages

WriteWithoutCounting(h, p, d) ==
    /\ pages' = [pages EXCEPT ![filePtr] = Written(@, p, d)]
    /\ handle' = [handle EXCEPT ![h].curPagePos = p + 1]
    /\ rc' = "RC_OK"

Write(h, p, d) ==
    /\ pages' = [pages EXCEPT ![filePtr] = Written(@, p, d)]
    /\ handle' = [handle EXCEPT ![h].curPagePos = p + 1,
                                ![h].totalNumPages = Len(Written(File, p, d))]
    /\ rc' = "RC_OK"

WriteError(h, p) ==
    IF ~Admitted(h, p) \/ OnFile THEN "RC_WRITE_FAILED"
    ELSE IF filePtr = NULL THEN "RC_FILE_HANDLE_NOT_INIT"
    ELSE "crash"

writeBlock(h, p, d) ==
    /\ Opened(h)
    /\ p < MaxPages
    /\ mem' = [mem EXCEPT ![h] = d]
    /\ IF Admitted(h, p) /\ OnFile /\ p >= 0
       THEN Write(h, p, d)
       ELSE rc' = WriteError(h, p) /\ UNCHANGED <<pages, handle>>
    /\ UNCHANGED <<exists, filePtr, together>>

writeCurrentBlock(h, d) == Opened(h) /\ writeBlock(h, handle[h].curPagePos, d)

AppendedAtTheStart(h, count) ==
    /\ OnFile
    /\ Len(File) + count <= MaxPages
    /\ handle[h].totalNumPages + count <= MaxPages
    /\ pages' = [pages EXCEPT ![filePtr] =
           [i \in 1 .. Len(@) + count |-> IF i <= count THEN Blank
                                          ELSE IF i <= Len(@) THEN @[i] ELSE Blank]]
    /\ handle' = [handle EXCEPT ![h].totalNumPages = @ + count]
    /\ rc' = "RC_OK"
    /\ UNCHANGED <<exists, filePtr, mem, together>>

(* ensureCapacity(n, h) appends the blank pages that totalNumPages lacks. *)
Appended(h, count) ==
    /\ OnFile
    /\ Len(File) + count <= MaxPages
    /\ handle[h].totalNumPages + count <= MaxPages
    /\ pages' = [pages EXCEPT ![filePtr] = @ \o [i \in 1 .. count |-> Blank]]
    /\ handle' = [handle EXCEPT ![h].totalNumPages = @ + count]
    /\ rc' = "RC_OK"
    /\ UNCHANGED <<exists, filePtr, mem, together>>

appendEmptyBlock(h) ==
    /\ Opened(h)
    /\ Appended(h, 1) \/ (~OnFile /\ Crash)

ensureCapacity(n, h) ==
    /\ Opened(h)
    /\ \/ n <= handle[h].totalNumPages /\ Return("RC_OK")
       \/ /\ n > handle[h].totalNumPages
          /\ Appended(h, n - handle[h].totalNumPages) \/ (~OnFile /\ Crash)

Next ==
    /\ rc # "crash"
    /\ \/ \E n \in Names : createPageFile(n) \/ destroyPageFile(n)
       \/ \E n \in Names, h \in Handles : openPageFile(n, h)
       \/ \E h \in Handles : \/ closePageFile(h)
                             \/ readRelativeBlock(h)
                             \/ appendEmptyBlock(h)
       \/ \E h \in Handles, p \in -1 .. MaxPages : readBlock(h, p)
       \/ \E h \in Handles, p \in -1 .. MaxPages, d \in Data : writeBlock(h, p, d)
       \/ \E h \in Handles, d \in Data : writeCurrentBlock(h, d)
       \/ \E h \in Handles, n \in 1 .. MaxPages : ensureCapacity(n, h)

Spec == Init /\ [][Next]_vars

-----------------------------------------------------------------------------
Handle == [fileName : Names, totalNumPages : Nat, curPagePos : Nat]

(* The marks are no files and no handles. *)
ASSUME MarksAssumption == NULL \notin Handle \cup {"dangling"} /\ "dangling" \notin Names

TypeOK ==
    /\ exists \in SUBSET Names
    /\ pages \in [Names -> Seq(Data)]
    /\ filePtr \in Names \cup {NULL, "dangling"}
    /\ handle \in [Handles -> Handle \cup {NULL}]
    /\ mem \in [Handles -> Data]
    /\ together \in BOOLEAN

(* As long as one file is open at a time, an open handle and the shared stream are about
   the same file, and totalNumPages is its size: no call on an open handle runs
   into a stream that is closed or open on something else. *)
HandleTracksFile ==
    ~together => \A h \in Handles : Opened(h) =>
        /\ filePtr = handle[h].fileName
        /\ filePtr \in exists
        /\ handle[h].totalNumPages = Len(File)

(* Then a page that is already there changes only to what the client of a handle open
   on its file holds in memory, and only one page at a time: growing the file,
   closing and opening it leave the rest alone. *)
PagesChangedByOwners ==
    [][\/ together
       \/ \E n \in Names : createPageFile(n) \/ destroyPageFile(n)
       \/ \A n \in Names :
            \A i \in DOMAIN pages[n] : pages[n][i] # pages'[n][i] =>
                /\ \E h \in Handles : /\ Opened(h) /\ handle[h].fileName = n
                                      /\ pages'[n][i] = mem'[h]
                /\ \A j \in DOMAIN pages[n] \ {i} : pages[n][j] = pages'[n][j]]_vars

(* With any number of files open: the stream is never left on a file that no open
   handle names, so no file is destroyed or truncated under the stream. *)
StreamHasOwner == OnFile => filePtr \in exists /\ InUse(filePtr)

(* With one file open at a time readBlock, from wherever the calls before left the
   stream, delivers the page if the handle's file has it; of a page behind the end,
   the next one included, for which it answers RC_OK, the client gets no byte, nor of
   another page. *)
ReadsThePage ==
    [][\A h \in Handles, p \in 0 .. MaxPages :
          ~together /\ readBlock(h, p) =>
              IF p < Len(pages[handle[h].fileName])
              THEN rc' = "RC_OK" /\ mem'[h] = pages[handle[h].fileName][p + 1]
              ELSE mem'[h] = mem[h]]_vars
=============================================================================

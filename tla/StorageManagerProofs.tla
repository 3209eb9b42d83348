------------------------ MODULE StorageManagerProofs ------------------------
(***************************************************************************)
(* Theorems about StorageManager, for any files, handles and pages, any    *)
(* page size and any number of pages.                                      *)
(***************************************************************************)
EXTENDS StorageManager, SequenceTheorems, TLAPS

(* As long as nobody opened a file beside an open one, one handle is open: closing
   its file leaves nobody on the stream that is closed then. *)
OneHandleOpen == ~together => \A g, h \in Handles : Opened(g) /\ Opened(h) => g = h

IInv == TypeOK /\ OneHandleOpen /\ HandleTracksFile /\ StreamHasOwner

-----------------------------------------------------------------------------
LEMMA OpenHandleType ==
  ASSUME TypeOK, NEW h \in Handles, Opened(h)
  PROVE  handle[h] \in Handle
BY DEF TypeOK, Opened

LEMMA FileType ==
  ASSUME TypeOK, OnFile
  PROVE  filePtr \in Names /\ File \in Seq(Data) /\ Len(File) \in Nat
BY DEF TypeOK, OnFile, File

(* A page that is written is in the file afterwards; the others stay, and the pages
   between the end and it are blank. *)
LEMMA WrittenType ==
  ASSUME NEW f \in Seq(Data), NEW p \in Nat, NEW d \in Data
  PROVE  /\ Written(f, p, d) \in Seq(Data)
         /\ Len(Written(f, p, d)) = IF p < Len(f) THEN Len(f) ELSE p + 1
         /\ \A i \in 1 .. Len(f) : Written(f, p, d)[i] = IF i = p + 1 THEN d ELSE f[i]
<1> DEFINE n == IF p < Len(f) THEN Len(f) ELSE p + 1
           e(i) == IF i = p + 1 THEN d ELSE IF i <= Len(f) THEN f[i] ELSE Blank
<1>1. n \in Nat /\ Len(f) \in Nat /\ Len(f) <= n
  OBVIOUS
<1>2. \A i \in 1 .. n : e(i) \in Data
  BY DataAssumption
<1>3. Written(f, p, d) = [i \in 1 .. n |-> e(i)]
  BY DEF Written
<1> HIDE DEF n
<1>4. Written(f, p, d) \in Seq(Data)
  BY <1>1, <1>2, <1>3
<1>5. Len(Written(f, p, d)) = n
  BY <1>1, <1>3
<1>6. \A i \in 1 .. Len(f) : Written(f, p, d)[i] = IF i = p + 1 THEN d ELSE f[i]
  BY <1>1, <1>3
<1> QED
  BY <1>4, <1>5, <1>6 DEF n

(* Blank pages at the end change no page before them. *)
LEMMA BlanksType ==
  ASSUME NEW f \in Seq(Data), NEW count \in Nat
  PROVE  /\ f \o [i \in 1 .. count |-> Blank] \in Seq(Data)
         /\ Len(f \o [i \in 1 .. count |-> Blank]) = Len(f) + count
         /\ \A i \in 1 .. Len(f) : (f \o [j \in 1 .. count |-> Blank])[i] = f[i]
<1> DEFINE b == [i \in 1 .. count |-> Blank]
<1>1. b \in Seq(Data) /\ Len(b) = count
  BY DataAssumption
<1> HIDE DEF b
<1>2. /\ f \o b \in Seq(Data) /\ Len(f \o b) = Len(f) + Len(b)
      /\ \A i \in 1 .. Len(f) + Len(b) : (f \o b)[i] = IF i <= Len(f) THEN f[i] ELSE b[i - Len(f)]
  BY <1>1, ConcatProperties, Zenon
<1>3. \A i \in 1 .. Len(f) : (f \o b)[i] = f[i]
  BY <1>1, <1>2
<1>4. Len(f \o b) = Len(f) + count
  BY <1>1, <1>2
<1> QED
  BY <1>2, <1>3, <1>4 DEF b

-----------------------------------------------------------------------------
LEMMA InitInv == Init => IInv
<1> SUFFICES ASSUME Init PROVE IInv
  OBVIOUS
<1>1. pages \in [Names -> Seq(Data)]
  BY DEF Init
<1>2. TypeOK
  BY <1>1, DataAssumption DEF Init, TypeOK
<1>3. \A h \in Handles : ~Opened(h)
  BY DEF Init, Opened
<1>4. ~OnFile
  BY DataAssumption DEF Init, OnFile
<1> QED
  BY <1>2, <1>3, <1>4 DEF IInv, OneHandleOpen, HandleTracksFile, StreamHasOwner

(* Calls that set a return code, and memory of a client, alone. *)
LEMMA SameFilesKeepInv ==
  ASSUME IInv, UNCHANGED <<exists, pages, filePtr, handle, together>>, mem' \in [Handles -> Data]
  PROVE  IInv'
BY DEF IInv, TypeOK, OneHandleOpen, HandleTracksFile, StreamHasOwner, Opened, OnFile, File, InUse

LEMMA ReturnKeepsInv ==
  ASSUME IInv, UNCHANGED <<exists, pages, filePtr, handle, mem, together>>
  PROVE  IInv'
BY SameFilesKeepInv DEF IInv, TypeOK

LEMMA CreatePageFileKeepsInv ==
  ASSUME IInv, NEW n \in Names, createPageFile(n)
  PROVE  IInv'
<1>1. TypeOK'
  <2>1. <<Blank>> \in Seq(Data)
    BY DataAssumption
  <2> QED
    BY <2>1 DEF IInv, TypeOK, createPageFile, NoteOpenFiles, NoneOpen
<1>2. OneHandleOpen'
  BY DEF createPageFile, NoteOpenFiles, NoneOpen, IInv, OneHandleOpen, Opened
<1>3. HandleTracksFile'
  BY DEF createPageFile, NoteOpenFiles, NoneOpen, HandleTracksFile, Opened, IInv, TypeOK
<1>4. StreamHasOwner'
  BY MarksAssumption DEF createPageFile, StreamHasOwner, OnFile
<1> QED
  BY <1>1, <1>2, <1>3, <1>4 DEF IInv

LEMMA DestroyPageFileKeepsInv ==
  ASSUME IInv, NEW n \in Names, destroyPageFile(n)
  PROVE  IInv'
<1>1. TypeOK'
  BY DEF IInv, TypeOK, destroyPageFile
<1>2. \A h \in Handles : Opened(h) => handle[h].fileName # n
  BY DEF destroyPageFile, InUse
<1>3. OneHandleOpen' /\ HandleTracksFile'
  BY <1>2 DEF destroyPageFile, IInv, TypeOK, OneHandleOpen, HandleTracksFile, Opened, File
<1>4. StreamHasOwner'
  BY <1>2 DEF destroyPageFile, IInv, StreamHasOwner, OnFile, InUse, Opened
<1> QED
  BY <1>1, <1>3, <1>4 DEF IInv

LEMMA OpenPageFileKeepsInv ==
  ASSUME IInv, NEW n \in Names, NEW h \in Handles, openPageFile(n, h)
  PROVE  IInv'
<1>1. CASE n \in exists
  <2> DEFINE x == [fileName |-> n, totalNumPages |-> Len(pages[n]), curPagePos |-> 0]
  <2>1. x \in Handle /\ x # NULL /\ x.fileName = n /\ x.totalNumPages = Len(pages[n])
    BY MarksAssumption DEF IInv, TypeOK, Handle
  <2>2. /\ handle' = [handle EXCEPT ![h] = x] /\ filePtr' = n
        /\ together' = (together \/ ~NoneOpen)
        /\ UNCHANGED <<exists, pages, mem>>
    BY <1>1 DEF openPageFile, NoteOpenFiles
  <2> HIDE DEF x
  <2>3. handle'[h] = x /\ \A g \in Handles : g # h => handle'[g] = handle[g]
    BY <2>2 DEF IInv, TypeOK
  <2>4. TypeOK'
    BY <2>1, <2>2 DEF IInv, TypeOK, NoneOpen
  <2>5. ASSUME ~together' PROVE \A g \in Handles : Opened(g)' => g = h
    BY <2>2, <2>3, <2>5 DEF NoneOpen, Opened
  <2>6. OneHandleOpen'
    BY <2>5 DEF OneHandleOpen
  <2>7. HandleTracksFile'
    BY <1>1, <2>1, <2>2, <2>3, <2>5 DEF HandleTracksFile, File
  <2>8. StreamHasOwner'
    BY <1>1, <2>1, <2>2, <2>3 DEF StreamHasOwner, InUse, Opened
  <2> QED
    BY <2>4, <2>6, <2>7, <2>8 DEF IInv
<1>2. CASE n \notin exists
  <2>1. /\ filePtr' = NULL /\ together' = (together \/ ~NoneOpen)
        /\ UNCHANGED <<exists, pages, handle, mem>>
    BY <1>2 DEF openPageFile, NoteOpenFiles
  <2>2. TypeOK'
    BY <2>1 DEF IInv, TypeOK, NoneOpen
  <2>3. OneHandleOpen' /\ HandleTracksFile'
    BY <2>1 DEF OneHandleOpen, HandleTracksFile, NoneOpen, Opened
  <2>4. StreamHasOwner'
    BY <2>1, DataAssumption DEF StreamHasOwner, OnFile
  <2> QED
    BY <2>2, <2>3, <2>4 DEF IInv
<1> QED
  BY <1>1, <1>2

LEMMA ClosePageFileKeepsInv ==
  ASSUME IInv, NEW h \in Handles, closePageFile(h)
  PROVE  IInv'
<1>1. CASE /\ OnFile /\ filePtr' = "dangling" /\ handle' = [handle EXCEPT ![h] = NULL]
           /\ UNCHANGED <<exists, pages, mem, together>>
  <2>1. TypeOK'
    BY <1>1 DEF IInv, TypeOK
  <2>2. handle'[h] = NULL /\ \A g \in Handles : g # h => handle'[g] = handle[g]
    BY <1>1 DEF IInv, TypeOK
  <2>3. ~together => \A g \in Handles : ~Opened(g)'
    BY <2>2 DEF IInv, OneHandleOpen, closePageFile, Opened
  <2>4. OneHandleOpen' /\ HandleTracksFile'
    BY <1>1, <2>2, <2>3 DEF IInv, OneHandleOpen, HandleTracksFile, Opened
  <2>5. StreamHasOwner'
    BY <1>1, MarksAssumption DEF StreamHasOwner, OnFile
  <2> QED
    BY <2>1, <2>4, <2>5 DEF IInv
<1> QED
  BY <1>1, ReturnKeepsInv DEF closePageFile, Crash, Return

-----------------------------------------------------------------------------
(* Steps on an open handle that leave it on its file. *)
LEMMA SameNamesKeepInv ==
  ASSUME IInv, NEW h \in Handles, Opened(h), NEW x \in Handle, handle' = [handle EXCEPT ![h] = x],
         x.fileName = handle[h].fileName,
         ~together => x.totalNumPages = Len(pages[filePtr])',
         \A n \in Names \ {filePtr} : pages'[n] = pages[n],
         pages' \in [Names -> Seq(Data)], mem' \in [Handles -> Data],
         UNCHANGED <<exists, filePtr, together>>
  PROVE  IInv'
<1>1. handle'[h] = x /\ \A g \in Handles : g # h => handle'[g] = handle[g]
  BY DEF IInv, TypeOK
<1>2. TypeOK'
  BY DEF IInv, TypeOK
<1>3. \A g \in Handles : /\ Opened(g)' <=> Opened(g)
                         /\ Opened(g) => handle'[g].fileName = handle[g].fileName
  BY <1>1, MarksAssumption DEF Opened
<1>4. OneHandleOpen' /\ StreamHasOwner'
  BY <1>3 DEF IInv, OneHandleOpen, StreamHasOwner, OnFile, InUse
<1>5. HandleTracksFile'
  <2> SUFFICES ASSUME ~together, NEW g \in Handles, Opened(g)
               PROVE  /\ filePtr' = handle'[g].fileName /\ filePtr' \in exists'
                      /\ handle'[g].totalNumPages = Len(File')
    BY <1>3 DEF HandleTracksFile
  <2>1. g = h
    BY DEF IInv, OneHandleOpen
  <2> QED
    BY <1>1, <2>1 DEF IInv, HandleTracksFile, File
<1> QED
  BY <1>2, <1>4, <1>5 DEF IInv

LEMMA ReadBlockKeepsInv ==
  ASSUME IInv, NEW h \in Handles, NEW p \in -1 .. MaxPages, readBlock(h, p)
  PROVE  IInv'
<1>1. CASE /\ OnFile /\ p \in 0 .. handle[h].totalNumPages
           /\ mem' = [mem EXCEPT ![h] = BytesRead(p, @)]
           /\ handle' = [handle EXCEPT ![h].curPagePos =
                  PageSize * (IF p < Len(File) THEN p + 1 ELSE p)]
           /\ UNCHANGED <<exists, pages, filePtr, together>>
  <2> DEFINE pos == PageSize * (IF p < Len(File) THEN p + 1 ELSE p)
             x == [handle[h] EXCEPT !.curPagePos = pos]
  <2>9. Opened(h) /\ handle[h] \in Handle /\ File \in Seq(Data)
    BY <1>1, OpenHandleType, FileType DEF readBlock, IInv
  <2>1. Opened(h) /\ handle[h] \in Handle /\ p \in Nat /\ File \in Seq(Data)
    BY <1>1, <2>9 DEF Handle
  <2>2. pos \in Nat
    <3>1. \A k \in Nat : PageSize * k \in Nat
      BY SizeAssumption
    <3> QED
      BY <2>1, <3>1
  <2>3. handle' = [handle EXCEPT ![h] = x]
    BY <1>1 DEF IInv, TypeOK
  <2>4. x \in Handle /\ x.fileName = handle[h].fileName /\ x.totalNumPages = handle[h].totalNumPages
    BY <2>1, <2>2 DEF Handle
  <2>5. mem' \in [Handles -> Data]
    BY <1>1, <2>1 DEF IInv, TypeOK, BytesRead
  <2>6. ~together => x.totalNumPages = Len(pages[filePtr])'
    BY <1>1, <2>1, <2>4 DEF IInv, HandleTracksFile, File
  <2> HIDE DEF x, pos
  <2> QED
    BY <1>1, <2>1, <2>3, <2>4, <2>5, <2>6, SameNamesKeepInv DEF IInv, TypeOK
<1> QED
  BY <1>1, ReturnKeepsInv DEF readBlock, Crash, Return

LEMMA WriteBlockKeepsInv ==
  ASSUME IInv, NEW h \in Handles, NEW p \in Int, NEW d \in Data, writeBlock(h, p, d)
  PROVE  IInv'
<1>1. mem' \in [Handles -> Data] /\ UNCHANGED <<exists, filePtr, together>> /\ Opened(h)
  BY DEF writeBlock, IInv, TypeOK
<1>2. CASE OnFile /\ p >= 0 /\ Write(h, p, d)
  <2> DEFINE w == Written(File, p, d)
             x == [fileName |-> handle[h].fileName, totalNumPages |-> Len(w), curPagePos |-> p + 1]
  <2>1. handle[h] \in Handle /\ p \in Nat /\ File \in Seq(Data) /\ filePtr \in Names
    BY <1>1, <1>2, OpenHandleType, FileType DEF IInv
  <2>2. w \in Seq(Data) /\ Len(w) \in Nat
    BY <2>1, WrittenType
  <2>3. handle' = [handle EXCEPT ![h] = x]
    <3>1. handle' = [handle EXCEPT ![h].curPagePos = p + 1, ![h].totalNumPages = Len(w)]
      BY <1>2 DEF Write
    <3>2. handle'[h] = x /\ \A g \in Handles : g # h => handle'[g] = handle[g]
      BY <2>1, <3>1 DEF Handle, IInv, TypeOK
    <3>3. handle' \in [Handles -> Handle \cup {NULL, x}]
      BY <3>1, <3>2 DEF IInv, TypeOK
    <3> QED
      BY <3>2, <3>3 DEF IInv, TypeOK
  <2>4. pages' = [pages EXCEPT ![filePtr] = w]
    BY <1>2 DEF Write, File
  <2> HIDE DEF w
  <2>5. x \in Handle /\ x.fileName = handle[h].fileName /\ x.totalNumPages = Len(w)
    BY <2>1, <2>2 DEF Handle
  <2>6. /\ pages' \in [Names -> Seq(Data)] /\ pages'[filePtr] = w
        /\ \A n \in Names \ {filePtr} : pages'[n] = pages[n]
    BY <2>1, <2>2, <2>4 DEF IInv, TypeOK
  <2> HIDE DEF x
  <2>7. ~together => x.totalNumPages = Len(pages[filePtr])'
    BY <1>1, <2>5, <2>6
  <2> QED
    BY <1>1, <2>3, <2>5, <2>6, <2>7, SameNamesKeepInv
<1>3. CASE UNCHANGED <<pages, handle>>
  BY <1>1, <1>3, SameFilesKeepInv
<1> QED
  BY <1>2, <1>3 DEF writeBlock

LEMMA AppendedKeepsInv ==
  ASSUME IInv, NEW h \in Handles, Opened(h), NEW count \in Nat, Appended(h, count)
  PROVE  IInv'
<1> DEFINE w == File \o [i \in 1 .. count |-> Blank]
           x == [handle[h] EXCEPT !.totalNumPages = @ + count]
<1>1. handle[h] \in Handle /\ File \in Seq(Data) /\ filePtr \in Names
  BY OpenHandleType, FileType DEF IInv, Appended
<1>2. w \in Seq(Data) /\ Len(w) = Len(File) + count
  BY <1>1, BlanksType
<1>3. handle' = [handle EXCEPT ![h] = x]
  BY DEF Appended, IInv, TypeOK
<1>4. pages' = [pages EXCEPT ![filePtr] = w]
  BY DEF Appended, File
<1> HIDE DEF w
<1>5. x \in Handle /\ x.fileName = handle[h].fileName
      /\ x.totalNumPages = handle[h].totalNumPages + count
  BY <1>1 DEF Handle
<1>6. /\ pages' \in [Names -> Seq(Data)] /\ pages'[filePtr] = w
      /\ \A n \in Names \ {filePtr} : pages'[n] = pages[n]
  BY <1>1, <1>2, <1>4 DEF IInv, TypeOK
<1> HIDE DEF x
<1>7. UNCHANGED <<exists, filePtr, mem, together>>
  BY DEF Appended
<1>8. ~together => x.totalNumPages = Len(pages[filePtr])'
  BY <1>2, <1>5, <1>6, <1>7 DEF IInv, HandleTracksFile
<1> QED
  BY <1>3, <1>5, <1>6, <1>7, <1>8, SameNamesKeepInv DEF IInv, TypeOK

LEMMA EnsureCapacityKeepsInv ==
  ASSUME IInv, NEW h \in Handles, NEW n \in 1 .. MaxPages, ensureCapacity(n, h)
  PROVE  IInv'
<1>1. CASE n <= handle[h].totalNumPages /\ Return("RC_OK")
  BY <1>1, ReturnKeepsInv DEF Return
<1>2. CASE ~OnFile /\ Crash
  BY <1>2, ReturnKeepsInv DEF Crash
<1>3. CASE n > handle[h].totalNumPages /\ Appended(h, n - handle[h].totalNumPages)
  <2>1. Opened(h) /\ handle[h] \in Handle
    BY OpenHandleType DEF ensureCapacity, IInv
  <2>2. n - handle[h].totalNumPages \in Nat
    BY <1>3, <2>1, SizeAssumption DEF Handle
  <2> QED
    BY <1>3, <2>1, <2>2, AppendedKeepsInv
<1> QED
  BY <1>1, <1>2, <1>3 DEF ensureCapacity

LEMMA StepKeepsInv == ASSUME IInv, [Next]_vars PROVE IInv'
<1>1. CASE UNCHANGED vars
  BY <1>1, ReturnKeepsInv DEF vars
<1>2. ASSUME NEW h \in Handles, closePageFile(h) \/ readRelativeBlock(h) \/ appendEmptyBlock(h)
      PROVE  IInv'
  <2>1. CASE readRelativeBlock(h)
    BY <2>1, ReturnKeepsInv DEF readRelativeBlock, Return
  <2>2. CASE appendEmptyBlock(h)
    BY <2>2, AppendedKeepsInv, ReturnKeepsInv DEF appendEmptyBlock, Crash
  <2> QED
    BY <1>2, <2>1, <2>2, ClosePageFileKeepsInv
<1>3. ASSUME NEW h \in Handles, NEW d \in Data, writeCurrentBlock(h, d) PROVE IInv'
  <2>1. handle[h].curPagePos \in Int
    BY <1>3, OpenHandleType DEF writeCurrentBlock, IInv, Handle
  <2> QED
    BY <1>3, <2>1, WriteBlockKeepsInv DEF writeCurrentBlock
<1>4. ASSUME NEW h \in Handles, NEW p \in -1 .. MaxPages, NEW d \in Data, writeBlock(h, p, d)
      PROVE  IInv'
  BY <1>4, SizeAssumption, WriteBlockKeepsInv
<1> QED
  BY <1>1, <1>2, <1>3, <1>4, CreatePageFileKeepsInv, DestroyPageFileKeepsInv,
     OpenPageFileKeepsInv, ReadBlockKeepsInv, EnsureCapacityKeepsInv DEF Next

LEMMA Invariance == Spec => []IInv
<1>1. Init => IInv
  BY InitInv
<1>2. IInv /\ [Next]_vars => IInv'
  BY StepKeepsInv
<1> QED
  BY <1>1, <1>2, PTL DEF Spec

-----------------------------------------------------------------------------
(* Files stay sequences of pages, and positions of handles stay counts, whether a call
   takes them for pages or for bytes. *)
THEOREM TypesCorrect == Spec => []TypeOK
<1>1. IInv => TypeOK
  BY DEF IInv
<1> QED
  BY <1>1, Invariance, PTL

(* With one file open at a time the shared stream is on the file of the handle, and
   totalNumPages is the size of the file. *)
THEOREM HandlesTrackTheirFiles == Spec => []HandleTracksFile
<1>1. IInv => HandleTracksFile
  BY DEF IInv
<1> QED
  BY <1>1, Invariance, PTL

(* With any number of files open, the stream is on no file that can be destroyed. *)
THEOREM StreamsHaveOwners == Spec => []StreamHasOwner
<1>1. IInv => StreamHasOwner
  BY DEF IInv
<1> QED
  BY <1>1, Invariance, PTL

-----------------------------------------------------------------------------
(* The pages of file n after a step stay, but one at most, which the client of a handle
   on n has in memory. *)
OwnerChanged(n) ==
    \A i \in DOMAIN pages[n] : pages[n][i] # pages'[n][i] =>
        /\ \E h \in Handles : /\ Opened(h) /\ handle[h].fileName = n
                              /\ pages'[n][i] = mem'[h]
        /\ \A j \in DOMAIN pages[n] \ {i} : pages[n][j] = pages'[n][j]

LEMMA WriteBlockChangesOne ==
  ASSUME IInv, ~together, NEW h \in Handles, NEW p \in Int, NEW d \in Data, writeBlock(h, p, d),
         NEW n \in Names
  PROVE  OwnerChanged(n)
<1>1. CASE UNCHANGED pages
  BY <1>1 DEF OwnerChanged
<1>2. CASE OnFile /\ p >= 0 /\ Write(h, p, d)
  <2>1. /\ Opened(h) /\ mem'[h] = d /\ handle[h].fileName = filePtr
        /\ p \in Nat /\ File \in Seq(Data) /\ filePtr \in Names
    BY <1>2, FileType DEF writeBlock, IInv, TypeOK, HandleTracksFile
  <2>2. pages' = [pages EXCEPT ![filePtr] = Written(File, p, d)]
    BY <1>2 DEF Write, File
  <2>3. CASE n # filePtr
    BY <2>1, <2>2, <2>3 DEF OwnerChanged, IInv, TypeOK
  <2>4. CASE n = filePtr
    <3>1. pages'[n] = Written(File, p, d) /\ pages[n] = File
      BY <2>1, <2>2, <2>4 DEF IInv, TypeOK, File
    <3>2. \A i \in 1 .. Len(File) : Written(File, p, d)[i] = IF i = p + 1 THEN d ELSE File[i]
      BY <2>1, WrittenType
    <3>3. DOMAIN pages[n] = 1 .. Len(File)
      BY <2>1, <3>1
    <3>4. \A i \in DOMAIN pages[n] : pages'[n][i] = IF i = p + 1 THEN d ELSE pages[n][i]
      BY <3>1, <3>2, <3>3
    <3> QED
      BY <2>1, <2>4, <3>4 DEF OwnerChanged
  <2> QED
    BY <2>3, <2>4
<1> QED
  BY <1>1, <1>2 DEF writeBlock

LEMMA AppendedChangesNone ==
  ASSUME IInv, NEW h \in Handles, NEW count \in Nat, Appended(h, count), NEW n \in Names
  PROVE  OwnerChanged(n)
<1>1. File \in Seq(Data) /\ filePtr \in Names
  BY FileType DEF IInv, Appended
<1>2. pages' = [pages EXCEPT ![filePtr] = File \o [i \in 1 .. count |-> Blank]]
  BY DEF Appended, File
<1>3. CASE n # filePtr
  BY <1>1, <1>2, <1>3 DEF OwnerChanged, IInv, TypeOK
<1>4. CASE n = filePtr
  <2>1. pages'[n] = File \o [i \in 1 .. count |-> Blank] /\ pages[n] = File
    BY <1>1, <1>2, <1>4 DEF IInv, TypeOK, File
  <2>2. \A i \in DOMAIN pages[n] : pages'[n][i] = pages[n][i]
    BY <1>1, <2>1, BlanksType
  <2> QED
    BY <2>2 DEF OwnerChanged
<1> QED
  BY <1>3, <1>4

LEMMA StepChangesByOwners ==
  ASSUME IInv, [Next]_vars, ~together, ~ \E n \in Names : createPageFile(n) \/ destroyPageFile(n),
         NEW n \in Names
  PROVE  OwnerChanged(n)
<1>1. CASE UNCHANGED pages
  BY <1>1 DEF OwnerChanged
<1>2. ASSUME NEW h \in Handles, NEW k \in 1 .. MaxPages, ensureCapacity(k, h)
      PROVE  UNCHANGED pages \/ OwnerChanged(n)
  <2>1. CASE k > handle[h].totalNumPages /\ Appended(h, k - handle[h].totalNumPages)
    <3>1. handle[h] \in Handle
      BY <1>2, OpenHandleType DEF ensureCapacity, IInv
    <3>2. k - handle[h].totalNumPages \in Nat
      BY <2>1, <3>1, SizeAssumption DEF Handle
    <3> QED
      BY <2>1, <3>2, AppendedChangesNone
  <2> QED
    BY <1>2, <2>1 DEF ensureCapacity, Return, Crash
<1>3. ASSUME NEW h \in Handles, closePageFile(h) \/ readRelativeBlock(h) \/ appendEmptyBlock(h)
      PROVE  UNCHANGED pages \/ OwnerChanged(n)
  BY <1>3, AppendedChangesNone
     DEF closePageFile, readRelativeBlock, appendEmptyBlock, Return, Crash
<1>4. ASSUME NEW h \in Handles, NEW d \in Data, writeCurrentBlock(h, d) PROVE OwnerChanged(n)
  <2>1. handle[h].curPagePos \in Int
    BY <1>4, OpenHandleType DEF writeCurrentBlock, IInv, Handle
  <2> QED
    BY <1>4, <2>1, WriteBlockChangesOne DEF writeCurrentBlock
<1>5. ASSUME NEW h \in Handles, NEW p \in -1 .. MaxPages, NEW d \in Data, writeBlock(h, p, d)
      PROVE  OwnerChanged(n)
  BY <1>5, SizeAssumption, WriteBlockChangesOne
<1>6. ASSUME NEW h \in Handles, NEW p \in -1 .. MaxPages, readBlock(h, p) PROVE UNCHANGED pages
  BY <1>6 DEF readBlock, Return, Crash
<1>7. ASSUME NEW m \in Names, NEW h \in Handles, openPageFile(m, h) PROVE UNCHANGED pages
  BY <1>7 DEF openPageFile
<1>8. CASE UNCHANGED vars
  BY <1>1, <1>8 DEF vars
<1> QED
  BY <1>1, <1>2, <1>3, <1>4, <1>5, <1>6, <1>7, <1>8 DEF Next

(* With one file open at a time a call changes one page at most, of the file that its
   handle is open on, and to what its client has in memory. *)
THEOREM OwnersChangePages == Spec => PagesChangedByOwners
<1> DEFINE A == \/ together
                \/ \E n \in Names : createPageFile(n) \/ destroyPageFile(n)
                \/ \A n \in Names : OwnerChanged(n)
<1>1. IInv /\ [Next]_vars => A
  BY StepChangesByOwners
<1>2. A => \/ together
           \/ \E n \in Names : createPageFile(n) \/ destroyPageFile(n)
           \/ \A n \in Names :
                \A i \in DOMAIN pages[n] : pages[n][i] # pages'[n][i] =>
                    /\ \E h \in Handles : /\ Opened(h) /\ handle[h].fileName = n
                                          /\ pages'[n][i] = mem'[h]
                    /\ \A j \in DOMAIN pages[n] \ {i} : pages[n][j] = pages'[n][j]
  BY DEF OwnerChanged
<1> HIDE DEF A
<1> QED
  BY <1>1, <1>2, Invariance, PTL DEF Spec, PagesChangedByOwners

(* With one file open at a time readBlock delivers the page it is asked for if the file
   has it, and otherwise leaves the client's page of memory as it was. *)
THEOREM ReadsDeliver == Spec => ReadsThePage
<1> DEFINE Delivers(h, p) ==
        IF p < Len(pages[handle[h].fileName])
        THEN rc' = "RC_OK" /\ mem'[h] = pages[handle[h].fileName][p + 1]
        ELSE mem'[h] = mem[h]
<1>1. ASSUME IInv, NEW h \in Handles, NEW p \in 0 .. MaxPages, ~together, readBlock(h, p)
      PROVE  Delivers(h, p)
  <2>1. /\ filePtr = handle[h].fileName /\ filePtr \in Names /\ Opened(h)
        /\ handle[h].totalNumPages = Len(File)
    BY <1>1 DEF readBlock, IInv, HandleTracksFile, TypeOK
  <2>2. mem \in [Handles -> Data] /\ Len(File) \in Nat /\ p \in Int /\ p >= 0
    BY <1>1, <2>1, SizeAssumption DEF IInv, TypeOK, File
  <2>3. CASE p > handle[h].totalNumPages /\ Return("RC_READ_NON_EXISTING_PAGE")
    BY <2>1, <2>2, <2>3 DEF Return, File
  <2>4. CASE rc' = "RC_OK" /\ mem' = [mem EXCEPT ![h] = BytesRead(p, @)]
                /\ p \in 0 .. handle[h].totalNumPages
    BY <2>1, <2>2, <2>4 DEF BytesRead, File
  <2>5. filePtr # NULL /\ filePtr # "dangling" /\ ~(p < 0)
    BY <2>1, <2>2, DataAssumption, MarksAssumption
  <2> HIDE DEF Delivers
  <2> QED
    BY <1>1, <2>3, <2>4, <2>5 DEF readBlock
<1>2. IInv /\ [Next]_vars =>
        \A h \in Handles, p \in 0 .. MaxPages : ~together /\ readBlock(h, p) => Delivers(h, p)
  BY <1>1
<1> QED
  BY <1>2, Invariance, PTL DEF Spec, ReadsThePage
=============================================================================

---------------------------- MODULE FileStoreProofs ----------------------------
(***************************************************************************)
(* Proofs about FileStore, for any number of requests, tool calls and      *)
(* previews.                                                               *)
(***************************************************************************)
EXTENDS FileStore, TLAPS

\* A file that is not there has nothing; a call works on a file it has found.
RowOK ==
    /\ row = None => content = None /\ versions = {}
    /\ row # None => content # None
    /\ \A q \in Requests : text[q] \in Writers /\ (pc[q] = "new" => text[q] = q)
    /\ \A t \in Tools : text[t] = t
    /\ \A a \in Actors :
          pc[a] \in {"update", "remove", "restore", "last", "insert", "editFile", "deleteFile"}
              => fileId[a] # None

\* A call has the labels of its kind.
KindOK ==
    /\ \A q \in Requests : pc[q] \notin {"lookCreate", "lookEdit", "insertFile", "editFile",
                                        "deleteFile", "clear", "mkdir", "fill"}
    /\ \A t \in Tools : pc[t] \in {"new", "lookCreate", "lookEdit", "insertFile", "editFile",
                                   "deleteFile", "sync", "write", "unsync", "unlink", "done"}
    /\ \A b \in Previews : pc[b] \in {"new", "clear", "mkdir", "fill", "done"}

\* Nobody knows the id of a file that is not created yet.
IdsFresh ==
    \A a \in Requests \cup Tools :
        pc[a] \in {"new", "lookCreate", "lookEdit", "insertFile"} =>
            row # a /\ \A c \in Actors : fileId[c] # a

\* What a writer last saw is still there, or the file is not.
LastSeen ==
    \A q \in Requests :
        pc[q] = "insert" /\ fileId[q] = row => last[q] \in Numbers \cup {0}

\* The numbers end somewhere, so that there is a newest one.
Dense ==
    /\ \E k \in Nat : Numbers = 1 .. k
    /\ \A u, v \in versions : u.n = v.n => u = v

RecordsHere(q) == Recording(q) /\ fileId[q] = row

\* Without a gap there is one recording at most, which has the file's text and
\* will get its number.
Recorded ==
    row # None /\ ~gap =>
        /\ \A p, q \in Requests : RecordsHere(p) /\ RecordsHere(q) => p = q
        /\ \A q \in Requests : RecordsHere(q) =>
              text[q] = content /\ (pc[q] = "insert" => last[q] = Newest)
        /\ \/ \E q \in Requests : RecordsHere(q)
           \/ [n |-> Newest, content |-> content] \in versions

\* What a copying has to be for the preview to end up with what is stored.
CopyOK(a) ==
    /\ pc[a] \in {"last", "insert"} =>
          fileId[a] = row /\ text[a] = content /\ ~Restoring(a)
    /\ pc[a] = "insert" => last[a] = Newest
    /\ pc[a] \in {"sync", "write", "clear", "mkdir", "fill"} => text[a] = content
    /\ pc[a] \in {"unsync", "unlink"} => content = None
    /\ pc[a] \in {"mkdir", "fill"} => disk = None

\* Without drift there is one copying at most.
Copied ==
    ~drift =>
        /\ \A a, c \in Actors : Copying(a) /\ Copying(c) => a = c
        /\ \A a \in Actors : CopyOK(a)
        /\ dir => disk = content \/ \E a \in Actors : Copying(a)

\* The inductive invariant.
IInv == TypeOK /\ RowOK /\ KindOK /\ IdsFresh /\ LastSeen /\ Dense /\ Recorded /\ Copied
        /\ CacheCoherent

USE FileConstants
USE DEF Actors, Writers, fileVars, dirVars, chatVars, history

\* At first there is at most the template's file, and nobody is under way.
LEMMA InitIInv == Init => IInv
<1> SUFFICES ASSUME Init
             PROVE  IInv
  OBVIOUS
<1>1. TypeOK
  <2>1. dir \in BOOLEAN /\ loop \in BOOLEAN /\ gap \in BOOLEAN /\ drift \in BOOLEAN
        /\ foreign \in BOOLEAN
    BY Zenon DEF Init
  <2>2. QED
    BY <2>1 DEF Init, TypeOK, Labels
<1>2. RowOK /\ KindOK /\ IdsFresh /\ LastSeen
  BY DEF Init, RowOK, KindOK, IdsFresh, LastSeen
<1>3. Dense
  <2>1. Numbers = 1 .. 0
    BY DEF Init, Numbers
  <2>2. QED
    BY <2>1 DEF Init, Dense
<1>4. Recorded /\ Copied /\ CacheCoherent
  BY DEF Init, Recorded, RecordsHere, Recording, Copied, CopyOK, Copying, CacheCoherent
<1>5. QED
  BY <1>1, <1>2, <1>3, <1>4 DEF IInv

\* The newest version is the one with the highest number, and the numbers are
\* those up to it.
LEMMA NewestTop ==
  ASSUME TypeOK, Dense
  PROVE  Newest \in Nat /\ Numbers = 1 .. Newest
<1>1. PICK k \in Nat : Numbers = 1 .. k
  BY DEF Dense
<1>2. versions = {} <=> Numbers = {}
  BY DEF Numbers
<1>3. CASE k = 0
  BY <1>1, <1>2, <1>3 DEF Newest
<1>4. CASE k # 0
  <2>1. k \in Numbers /\ \A n \in Numbers : n <= k
    BY <1>1, <1>4
  <2>2. Newest = k
    BY <1>1, <1>2, <2>1 DEF Newest
  <2>3. QED
    BY <1>1, <2>2
<1>5. QED
  BY <1>3, <1>4

-----------------------------------------------------------------------------
(* One lemma per conjunct, one step per action that can disturb it.         *)

\* The Boolean variables stay Boolean.
LEMMA FlagsStep ==
  ASSUME TypeOK, [Next]_vars
  PROVE  /\ dir' \in BOOLEAN /\ loop' \in BOOLEAN
         /\ gap' \in BOOLEAN /\ drift' \in BOOLEAN /\ foreign' \in BOOLEAN
<1> DEFINE Flags == dir \in BOOLEAN /\ loop \in BOOLEAN /\ gap \in BOOLEAN /\ drift \in BOOLEAN
                    /\ foreign \in BOOLEAN
<1>1. Flags
  BY DEF TypeOK
<1> USE <1>1
<1>2. ASSUME NEW q \in Requests, RestStep(q) PROVE Flags'
  BY <1>2, Zenon DEF RestStep, RestCreate, RestFind, RestVersion, RestUpdate, LastVersion,
     InsertVersion, RestRemove, Races, Astray, Overlaps
<1>3. ASSUME NEW t \in Tools, ToolStep(t) PROVE Flags'
  BY <1>3, Zenon DEF ToolStep, ReadFile, LookCreate, InsertFile, LookEdit, EditFile, LookDelete,
     DeleteFile, Overlaps
<1>4. ASSUME NEW a \in Actors, SyncStep(a) PROVE Flags'
  BY <1>4, Zenon DEF SyncStep, Stat, WriteFile, Unlink
<1>5. ASSUME NEW b \in Previews, PreviewStep(b) PROVE Flags'
  BY <1>5, Zenon DEF PreviewStep, FetchFiles, ClearDir, MakeDir, FillDir, StopPreview, Overlaps
<1>6. CASE OpenLoop \/ UNCHANGED vars
  BY <1>6, Zenon DEF OpenLoop, vars
<1>7. QED
  BY <1>2, <1>3, <1>4, <1>5, <1>6 DEF Next

\* What Append, Tail, Head and a new first element make of a sequence.
LEMMA SeqFacts ==
  ASSUME NEW S, NEW s \in Seq(S), NEW x \in S
  PROVE  /\ Append(s, x) \in Seq(S) /\ <<x>> \in Seq(S)
         /\ s # <<>> => Tail(s) \in Seq(S) /\ Head(s) \in S /\ <<x>> \o Tail(s) \in Seq(S)
<1>1. <<x>> \in Seq(S) /\ Append(s, x) \in Seq(S)
  OBVIOUS
<1>2. ASSUME s # <<>> PROVE Tail(s) \in Seq(S) /\ Head(s) \in S
  BY <1>2
<1>3. QED
  BY <1>1, <1>2

\* Whatever a tool does to the context, its entries are texts.
LEMMA CacheStep ==
  ASSUME TypeOK, [Next]_vars
  PROVE  cache' \in Seq(Writers \cup {None})
<1> DEFINE S == Writers \cup {None}
<1>1. cache \in Seq(S) /\ <<>> \in Seq(S) /\ <<None>> \in Seq(S)
  BY DEF TypeOK
<1>2. ASSUME NEW x \in S PROVE CacheFirst(x) \in Seq(S) /\ Append(cache, x) \in Seq(S)
                                 /\ <<x>> \in Seq(S)
  BY <1>1, SeqFacts DEF CacheFirst
<1>3. cache # <<>> => Tail(cache) \in Seq(S)
  BY <1>1, SeqFacts
<1>4. ASSUME NEW t \in Tools, ToolStep(t) PROVE cache' \in Seq(S)
  <2>1. cache' \in {cache, <<content>>, CacheFirst(content), Append(cache, t), CacheFirst(t)}
        \/ (cache # <<>> /\ cache' = Tail(cache))
    BY <1>4, Zenon DEF ToolStep, ReadFile, LookCreate, InsertFile, LookEdit, EditFile, LookDelete,
       DeleteFile
  <2>2. QED
    BY <1>1, <1>2, <1>3, <2>1, ZenonT(40) DEF TypeOK
<1>5. ASSUME NEW q \in Requests, RestStep(q) PROVE cache' = cache
  BY <1>5, Zenon DEF RestStep, RestCreate, RestFind, RestVersion, RestUpdate, LastVersion,
     InsertVersion, RestRemove
<1>6. ASSUME NEW a \in Actors, SyncStep(a) \/ PreviewStep(a) PROVE cache' = cache
  BY <1>6, Zenon DEF SyncStep, Stat, WriteFile, Unlink, PreviewStep, FetchFiles, ClearDir,
     MakeDir, FillDir, StopPreview
<1>7. CASE OpenLoop \/ UNCHANGED vars
  BY <1>1, <1>7, Zenon DEF OpenLoop, vars
<1>8. QED
  BY <1>1, <1>4, <1>5, <1>6, <1>7 DEF Next

\* Every step keeps every variable's type.
LEMMA TypeStep == TypeOK /\ RowOK /\ Dense /\ [Next]_vars => TypeOK'
<1> SUFFICES ASSUME TypeOK, RowOK, Dense, [Next]_vars
             PROVE  TypeOK'
  OBVIOUS
<1> USE FlagsStep, CacheStep
<1> USE DEF TypeOK, Labels, Goto, SetRow, DeleteRow
<1>1. ASSUME NEW q \in Requests, RestStep(q) PROVE TypeOK'
  <2>1. CASE RestCreate(q)
    BY <2>1 DEF RestCreate
  <2>2. CASE RestFind(q)
    BY <2>2 DEF RestFind
  <2>3. CASE RestVersion(q)
    BY <2>3 DEF RestVersion
  <2>4. CASE RestUpdate(q)
    <3>1. row' = row /\ content' \in {content, text[q]} /\ \E l \in {"last", "done"} : Goto(q, l)
      BY <2>4, Zenon DEF RestUpdate
    <3>2. UNCHANGED <<versions, disk, fileId, text, last>>
      BY <2>4, Zenon DEF RestUpdate
    <3>3. QED
      BY <3>1, <3>2 DEF RowOK
  <2>5. CASE LastVersion(q)
    BY <2>5, NewestTop DEF LastVersion
  <2>6. CASE InsertVersion(q)
    <3>1. text[q] \in Writers
      BY DEF RowOK
    <3>2. [n |-> last[q] + 1, content |-> text[q]] \in [n : Nat \ {0}, content : Writers]
      BY <3>1
    <3>3. \/ versions' = versions
          \/ versions' = versions \cup {[n |-> last[q] + 1, content |-> text[q]]}
      BY <2>6, Zenon DEF InsertVersion
    <3>4. versions' \subseteq [n : Nat \ {0}, content : Writers]
      BY <3>2, <3>3
    <3>5. /\ UNCHANGED <<fileVars, dirVars, fileId, text, last>>
          /\ \E l \in {"sync", "done"} : pc' = [pc EXCEPT ![q] = l]
      BY <2>6, Zenon DEF InsertVersion
    <3>6. QED
      BY <3>4, <3>5
  <2>7. CASE RestRemove(q)
    BY <2>7 DEF RestRemove
  <2>8. QED
    BY <1>1, <2>1, <2>2, <2>3, <2>4, <2>5, <2>6, <2>7 DEF RestStep
<1>2. ASSUME NEW t \in Tools, ToolStep(t) PROVE TypeOK'
  <2>1. CASE ReadFile(t)
    BY <2>1 DEF ReadFile, RowOK, CacheFirst, Runs
  <2>2. CASE LookCreate(t)
    BY <2>2 DEF LookCreate, Runs
  <2>3. CASE InsertFile(t)
    BY <2>3 DEF InsertFile, CacheFirst
  <2>4. CASE LookEdit(t)
    BY <2>4 DEF LookEdit, Runs
  <2>5. CASE EditFile(t)
    BY <2>5 DEF EditFile, CacheFirst
  <2>6. CASE LookDelete(t)
    BY <2>6 DEF LookDelete, Runs
  <2>7. CASE DeleteFile(t)
    BY <2>7 DEF DeleteFile
  <2>8. QED
    BY <1>2, <2>1, <2>2, <2>3, <2>4, <2>5, <2>6, <2>7 DEF ToolStep
<1>3. ASSUME NEW a \in Actors, SyncStep(a) PROVE TypeOK'
  <2>1. CASE Stat(a)
    BY <2>1 DEF Stat
  <2>2. CASE WriteFile(a)
    BY <2>2 DEF WriteFile
  <2>3. CASE Unlink(a)
    BY <2>3 DEF Unlink
  <2>4. QED
    BY <1>3, <2>1, <2>2, <2>3 DEF SyncStep
<1>4. ASSUME NEW b \in Previews, PreviewStep(b) PROVE TypeOK'
  <2>1. CASE FetchFiles(b)
    BY <2>1 DEF FetchFiles
  <2>2. CASE ClearDir(b)
    BY <2>2 DEF ClearDir
  <2>3. CASE MakeDir(b)
    BY <2>3 DEF MakeDir
  <2>4. CASE FillDir(b)
    BY <2>4 DEF FillDir
  <2>5. CASE StopPreview(b)
    BY <2>5 DEF StopPreview
  <2>6. QED
    BY <1>4, <2>1, <2>2, <2>3, <2>4, <2>5 DEF PreviewStep
<1>5. CASE OpenLoop \/ UNCHANGED vars
  BY <1>5 DEF OpenLoop, vars
<1>6. QED
  BY <1>1, <1>2, <1>3, <1>4, <1>5 DEF Next, Actors

\* A call that works on a file has found one, and writes a text.
LEMMA RowStep == TypeOK /\ RowOK /\ KindOK /\ [Next]_vars => RowOK'
<1> SUFFICES ASSUME TypeOK, RowOK, KindOK, [Next]_vars
             PROVE  RowOK'
  OBVIOUS
<1> USE DEF TypeOK, RowOK, KindOK, Goto, SetRow, DeleteRow
<1>1. ASSUME NEW q \in Requests, RestStep(q) PROVE RowOK'
  <2>1. CASE RestCreate(q)
    BY <2>1 DEF RestCreate
  <2>2. CASE RestFind(q)
    BY <2>2 DEF RestFind
  <2>3. CASE RestVersion(q)
    <3>1. CASE row = fileId[q] /\ \E v \in versions : text' = [text EXCEPT ![q] = v.content]
      <4>1. PICK v \in versions : text' = [text EXCEPT ![q] = v.content]
        BY <3>1
      <4>2. v.content \in Writers
        OBVIOUS
      <4>3. QED
        BY <2>3, <4>1, <4>2 DEF RestVersion
    <3>2. CASE UNCHANGED text
      BY <2>3, <3>2 DEF RestVersion
    <3>3. QED
      BY <2>3, <3>1, <3>2 DEF RestVersion
  <2>4. CASE RestUpdate(q)
    BY <2>4 DEF RestUpdate
  <2>5. CASE LastVersion(q)
    BY <2>5 DEF LastVersion
  <2>6. CASE InsertVersion(q)
    BY <2>6 DEF InsertVersion
  <2>7. CASE RestRemove(q)
    BY <2>7 DEF RestRemove
  <2>8. QED
    BY <1>1, <2>1, <2>2, <2>3, <2>4, <2>5, <2>6, <2>7 DEF RestStep
<1>2. ASSUME NEW t \in Tools, ToolStep(t) PROVE RowOK'
  <2>1. CASE ReadFile(t)
    BY <2>1 DEF ReadFile, Runs
  <2>2. CASE LookCreate(t)
    BY <2>2 DEF LookCreate, Runs
  <2>3. CASE InsertFile(t)
    BY <2>3 DEF InsertFile
  <2>4. CASE LookEdit(t)
    BY <2>4 DEF LookEdit, Runs
  <2>5. CASE EditFile(t)
    BY <2>5 DEF EditFile
  <2>6. CASE LookDelete(t)
    BY <2>6 DEF LookDelete, Runs
  <2>7. CASE DeleteFile(t)
    BY <2>7 DEF DeleteFile
  <2>8. QED
    BY <1>2, <2>1, <2>2, <2>3, <2>4, <2>5, <2>6, <2>7 DEF ToolStep
<1>3. ASSUME NEW a \in Actors, SyncStep(a) PROVE RowOK'
  <2>1. CASE Stat(a) \/ WriteFile(a) \/ Unlink(a)
    BY <2>1 DEF Stat, WriteFile, Unlink
  <2>2. QED
    BY <1>3, <2>1 DEF SyncStep
<1>4. ASSUME NEW b \in Previews, PreviewStep(b) PROVE RowOK'
  <2>1. CASE FetchFiles(b)
    BY <2>1 DEF FetchFiles
  <2>2. CASE ClearDir(b)
    BY <2>2 DEF ClearDir
  <2>3. CASE MakeDir(b)
    BY <2>3 DEF MakeDir
  <2>4. CASE FillDir(b)
    BY <2>4 DEF FillDir
  <2>5. CASE StopPreview(b)
    BY <2>5 DEF StopPreview
  <2>6. QED
    BY <1>4, <2>1, <2>2, <2>3, <2>4, <2>5 DEF PreviewStep
<1>5. CASE OpenLoop \/ UNCHANGED vars
  BY <1>5 DEF OpenLoop, vars
<1>6. QED
  BY <1>1, <1>2, <1>3, <1>4, <1>5 DEF Next, Actors

\* No call gets to a label of another kind of call.
LEMMA KindStep == TypeOK /\ KindOK /\ [Next]_vars => KindOK'
<1> SUFFICES ASSUME TypeOK, KindOK, [Next]_vars
             PROVE  KindOK'
  OBVIOUS
<1> USE DEF TypeOK, KindOK, Goto
<1>1. ASSUME NEW q \in Requests, RestStep(q) PROVE KindOK'
  <2>1. CASE RestCreate(q)
    BY <2>1 DEF RestCreate
  <2>2. CASE RestFind(q)
    BY <2>2 DEF RestFind
  <2>3. CASE RestVersion(q)
    BY <2>3, SMTT(30) DEF RestVersion
  <2>4. CASE RestUpdate(q)
    BY <2>4, SMTT(30) DEF RestUpdate
  <2>5. CASE LastVersion(q)
    BY <2>5 DEF LastVersion
  <2>6. CASE InsertVersion(q)
    BY <2>6, ZenonT(40) DEF InsertVersion
  <2>7. CASE RestRemove(q)
    BY <2>7, SMTT(30) DEF RestRemove
  <2>8. QED
    BY <1>1, <2>1, <2>2, <2>3, <2>4, <2>5, <2>6, <2>7 DEF RestStep
<1>2. ASSUME NEW t \in Tools, ToolStep(t) PROVE KindOK'
  <2>1. CASE ReadFile(t)
    BY <2>1 DEF ReadFile
  <2>2. CASE LookCreate(t)
    BY <2>2 DEF LookCreate
  <2>3. CASE InsertFile(t)
    BY <2>3 DEF InsertFile
  <2>4. CASE LookEdit(t)
    BY <2>4 DEF LookEdit
  <2>5. CASE EditFile(t)
    BY <2>5, SMTT(30) DEF EditFile
  <2>6. CASE LookDelete(t)
    BY <2>6 DEF LookDelete
  <2>7. CASE DeleteFile(t)
    BY <2>7 DEF DeleteFile
  <2>8. QED
    BY <1>2, <2>1, <2>2, <2>3, <2>4, <2>5, <2>6, <2>7 DEF ToolStep
<1>3. ASSUME NEW a \in Actors, SyncStep(a) PROVE KindOK'
  <2>1. CASE Stat(a) \/ WriteFile(a) \/ Unlink(a)
    BY <2>1, ZenonT(40) DEF Stat, WriteFile, Unlink
  <2>2. QED
    BY <1>3, <2>1 DEF SyncStep
<1>4. ASSUME NEW b \in Previews, PreviewStep(b) PROVE KindOK'
  <2>1. CASE FetchFiles(b)
    BY <2>1 DEF FetchFiles
  <2>2. CASE ClearDir(b)
    BY <2>2 DEF ClearDir
  <2>3. CASE MakeDir(b)
    BY <2>3 DEF MakeDir
  <2>4. CASE FillDir(b)
    BY <2>4 DEF FillDir
  <2>5. CASE StopPreview(b)
    BY <2>5 DEF StopPreview
  <2>6. QED
    BY <1>4, <2>1, <2>2, <2>3, <2>4, <2>5 DEF PreviewStep
<1>5. CASE OpenLoop \/ UNCHANGED vars
  BY <1>5 DEF OpenLoop, vars
<1>6. QED
  BY <1>1, <1>2, <1>3, <1>4, <1>5 DEF Next, Actors

\* The id of a file that is yet to be created is not in circulation.
LEMMA IdsStep == TypeOK /\ KindOK /\ IdsFresh /\ [Next]_vars => IdsFresh'
<1> SUFFICES ASSUME TypeOK, KindOK, IdsFresh, [Next]_vars
             PROVE  IdsFresh'
  OBVIOUS
<1> USE DEF TypeOK, KindOK, IdsFresh, Goto, SetRow, DeleteRow
<1>1. ASSUME NEW q \in Requests, RestStep(q) PROVE IdsFresh'
  <2>1. CASE RestCreate(q)
    BY <2>1 DEF RestCreate
  <2>2. CASE RestFind(q)
    BY <2>2 DEF RestFind
  <2>3. CASE RestVersion(q)
    BY <2>3 DEF RestVersion
  <2>4. CASE RestUpdate(q)
    BY <2>4 DEF RestUpdate
  <2>5. CASE LastVersion(q)
    BY <2>5 DEF LastVersion
  <2>6. CASE InsertVersion(q)
    BY <2>6 DEF InsertVersion
  <2>7. CASE RestRemove(q)
    BY <2>7 DEF RestRemove
  <2>8. QED
    BY <1>1, <2>1, <2>2, <2>3, <2>4, <2>5, <2>6, <2>7 DEF RestStep
<1>2. ASSUME NEW t \in Tools, ToolStep(t) PROVE IdsFresh'
  <2>1. CASE ReadFile(t)
    BY <2>1 DEF ReadFile, Runs
  <2>2. CASE LookCreate(t)
    BY <2>2 DEF LookCreate, Runs
  <2>3. CASE InsertFile(t)
    BY <2>3 DEF InsertFile
  <2>4. CASE LookEdit(t)
    BY <2>4 DEF LookEdit, Runs
  <2>5. CASE EditFile(t)
    BY <2>5 DEF EditFile
  <2>6. CASE LookDelete(t)
    BY <2>6 DEF LookDelete, Runs
  <2>7. CASE DeleteFile(t)
    BY <2>7 DEF DeleteFile
  <2>8. QED
    BY <1>2, <2>1, <2>2, <2>3, <2>4, <2>5, <2>6, <2>7 DEF ToolStep
<1>3. ASSUME NEW a \in Actors, SyncStep(a) PROVE IdsFresh'
  <2>1. CASE Stat(a) \/ WriteFile(a) \/ Unlink(a)
    BY <2>1 DEF Stat, WriteFile, Unlink
  <2>2. QED
    BY <1>3, <2>1 DEF SyncStep
<1>4. ASSUME NEW b \in Previews, PreviewStep(b) PROVE IdsFresh'
  <2>1. CASE FetchFiles(b) \/ ClearDir(b) \/ MakeDir(b) \/ FillDir(b) \/ StopPreview(b)
    BY <2>1 DEF FetchFiles, ClearDir, MakeDir, FillDir, StopPreview
  <2>2. QED
    BY <1>4, <2>1 DEF PreviewStep
<1>5. CASE OpenLoop \/ UNCHANGED vars
  BY <1>5 DEF OpenLoop, vars
<1>6. QED
  BY <1>1, <1>2, <1>3, <1>4, <1>5 DEF Next, Actors

\* What createVersion has read stays in the table as long as the file does.
LEMMA SeenStep ==
  TypeOK /\ RowOK /\ KindOK /\ IdsFresh /\ Dense /\ LastSeen /\ [Next]_vars => LastSeen'
<1> SUFFICES ASSUME TypeOK, RowOK, KindOK, IdsFresh, Dense, LastSeen, [Next]_vars
             PROVE  LastSeen'
  OBVIOUS
<1> USE DEF TypeOK, RowOK, KindOK, LastSeen, Goto, SetRow, DeleteRow
<1>1. ASSUME NEW q \in Requests, RestStep(q) PROVE LastSeen'
  <2>1. CASE RestCreate(q)
    BY <2>1 DEF RestCreate, IdsFresh, Numbers
  <2>2. CASE RestFind(q)
    BY <2>2 DEF RestFind, Numbers
  <2>3. CASE RestVersion(q)
    BY <2>3 DEF RestVersion, Numbers
  <2>4. CASE RestUpdate(q)
    BY <2>4 DEF RestUpdate, Numbers
  <2>5. CASE LastVersion(q)
    <3>1. Newest \in Nat /\ Numbers = 1 .. Newest
      BY NewestTop
    <3>2. /\ UNCHANGED <<row, versions, fileId>> /\ pc' = [pc EXCEPT ![q] = "insert"]
          /\ last' = [last EXCEPT ![q] = IF row = fileId[q] THEN Newest ELSE 0]
      BY <2>5, Zenon DEF LastVersion, fileVars
    <3>3. Numbers' = Numbers
      BY <3>2 DEF Numbers
    <3>4. Newest \in Numbers \cup {0}
      BY <3>1
    <3>5. QED
      BY <3>2, <3>3, <3>4
  <2>6. CASE InsertVersion(q)
    BY <2>6 DEF InsertVersion, Numbers
  <2>7. CASE RestRemove(q)
    BY <2>7 DEF RestRemove, Numbers
  <2>8. QED
    BY <1>1, <2>1, <2>2, <2>3, <2>4, <2>5, <2>6, <2>7 DEF RestStep
<1>2. ASSUME NEW t \in Tools, ToolStep(t) PROVE LastSeen'
  <2>1. CASE ReadFile(t)
    BY <2>1 DEF ReadFile, Numbers
  <2>2. CASE LookCreate(t)
    BY <2>2 DEF LookCreate, Numbers
  <2>3. CASE InsertFile(t)
    BY <2>3 DEF InsertFile, IdsFresh, Numbers
  <2>4. CASE LookEdit(t)
    BY <2>4 DEF LookEdit, Numbers
  <2>5. CASE EditFile(t)
    BY <2>5 DEF EditFile, Numbers
  <2>6. CASE LookDelete(t)
    BY <2>6 DEF LookDelete, Numbers
  <2>7. CASE DeleteFile(t)
    BY <2>7 DEF DeleteFile, Numbers
  <2>8. QED
    BY <1>2, <2>1, <2>2, <2>3, <2>4, <2>5, <2>6, <2>7 DEF ToolStep
<1>3. ASSUME NEW a \in Actors, SyncStep(a) PROVE LastSeen'
  <2>1. CASE Stat(a) \/ WriteFile(a) \/ Unlink(a)
    BY <2>1 DEF Stat, WriteFile, Unlink, Numbers
  <2>2. QED
    BY <1>3, <2>1 DEF SyncStep
<1>4. ASSUME NEW b \in Previews, PreviewStep(b) PROVE LastSeen'
  <2>1. CASE FetchFiles(b) \/ ClearDir(b) \/ MakeDir(b) \/ FillDir(b) \/ StopPreview(b)
    BY <2>1 DEF FetchFiles, ClearDir, MakeDir, FillDir, StopPreview, Numbers
  <2>2. QED
    BY <1>4, <2>1 DEF PreviewStep
<1>5. CASE OpenLoop \/ UNCHANGED vars
  BY <1>5 DEF OpenLoop, vars, Numbers
<1>6. QED
  BY <1>1, <1>2, <1>3, <1>4, <1>5 DEF Next, Actors

\* Only InsertVersion adds versions; everything else keeps or drops them all.
LEMMA VersionsChange ==
  ASSUME [Next]_vars
  PROVE  \/ versions' = versions \/ versions' = {}
         \/ \E q \in Requests : InsertVersion(q)
<1>1. ASSUME NEW q \in Requests, RestStep(q) \/ SyncStep(q)
      PROVE  versions' = versions \/ versions' = {} \/ InsertVersion(q)
  BY <1>1, Zenon DEF RestStep, RestCreate, RestFind, RestVersion, RestUpdate, LastVersion,
     RestRemove, DeleteRow, SyncStep, Stat, WriteFile, Unlink
<1>2. ASSUME NEW t \in Tools, ToolStep(t) \/ SyncStep(t)
      PROVE  versions' = versions \/ versions' = {}
  BY <1>2, Zenon DEF ToolStep, ReadFile, LookCreate, InsertFile, LookEdit, EditFile, LookDelete,
     DeleteFile, DeleteRow, SyncStep, Stat, WriteFile, Unlink
<1>3. ASSUME NEW b \in Previews, PreviewStep(b)
      PROVE  versions' = versions
  BY <1>3, Zenon DEF PreviewStep, FetchFiles, ClearDir, MakeDir, FillDir, StopPreview
<1>4. CASE OpenLoop \/ UNCHANGED vars
  BY <1>4, Zenon DEF OpenLoop, vars
<1>5. QED
  BY <1>1, <1>2, <1>3, <1>4 DEF Next

\* Who inserts a number that is free has seen the newest one.
LEMMA InsertsNext ==
  ASSUME TypeOK, Dense, LastSeen, NEW q \in Requests, pc[q] = "insert", fileId[q] = row,
         \A v \in versions : v.n # last[q] + 1
  PROVE  last[q] = Newest
<1>1. Newest \in Nat /\ Numbers = 1 .. Newest
  BY NewestTop
<1>2. last[q] \in Nat /\ last[q] + 1 \notin Numbers /\ last[q] \in Numbers \cup {0}
  BY DEF TypeOK, LastSeen, Numbers
<1>3. QED
  BY <1>1, <1>2

\* The number that is inserted follows the newest one.
LEMMA InsertNumbers ==
  ASSUME NEW n, NEW t, versions' = versions \cup {[n |-> n, content |-> t]}
  PROVE  Numbers' = Numbers \cup {n}
<1>1. ASSUME NEW k \in Numbers' PROVE k \in Numbers \cup {n}
  BY <1>1 DEF Numbers
<1>2. ASSUME NEW k \in Numbers PROVE k \in Numbers'
  BY <1>2 DEF Numbers
<1>3. n \in Numbers'
  <2>1. [n |-> n, content |-> t] \in versions' /\ [n |-> n, content |-> t].n = n
    OBVIOUS
  <2>2. QED
    BY <2>1 DEF Numbers
<1>4. QED
  BY <1>1, <1>2, <1>3

\* Insertions extend the numbers by the next one, deletions drop them all.
LEMMA DenseStep == TypeOK /\ Dense /\ LastSeen /\ [Next]_vars => Dense'
<1> SUFFICES ASSUME TypeOK, Dense, LastSeen, [Next]_vars
             PROVE  Dense'
  OBVIOUS
<1>1. CASE versions' = versions
  BY <1>1 DEF Dense, Numbers
<1>2. CASE versions' = {}
  <2>1. Numbers' = 1 .. 0
    BY <1>2 DEF Numbers
  <2>2. QED
    BY <1>2, <2>1 DEF Dense
<1>3. ASSUME NEW q \in Requests, InsertVersion(q), versions' # versions PROVE Dense'
  <2>1. /\ pc[q] = "insert" /\ fileId[q] = row /\ \A v \in versions : v.n # last[q] + 1
        /\ versions' = versions \cup {[n |-> last[q] + 1, content |-> text[q]]}
    BY <1>3, Zenon DEF InsertVersion
  <2>2. last[q] = Newest /\ Newest \in Nat /\ Numbers = 1 .. Newest
    BY <2>1, InsertsNext, NewestTop
  <2>3. Numbers' = Numbers \cup {last[q] + 1}
    BY <2>1, InsertNumbers
  <2>4. Numbers' = 1 .. (Newest + 1)
    BY <2>2, <2>3
  <2>5. \A u, v \in versions' : u.n = v.n => u = v
    BY <2>1 DEF Dense
  <2>6. QED
    BY <2>2, <2>4, <2>5 DEF Dense
<1>4. QED
  BY <1>1, <1>2, <1>3, VersionsChange

\* A step that touches neither the file nor a recording of it keeps Recorded.
LEMMA RecordedFrame ==
  ASSUME Recorded, row' = row, content' = content, versions' = versions, gap' = gap,
         \A q \in Requests :
             /\ RecordsHere(q)' <=> RecordsHere(q)
             /\ RecordsHere(q) => text'[q] = text[q] /\ pc'[q] = pc[q] /\ last'[q] = last[q]
  PROVE  Recorded'
<1>1. Newest' = Newest
  BY DEF Newest, Numbers
<1>2. QED
  BY <1>1 DEF Recorded

\* A write that is alone records itself, and one that is not leaves a gap.
LEMMA RecordedStep ==
  TypeOK /\ RowOK /\ KindOK /\ IdsFresh /\ Dense /\ LastSeen /\ Recorded /\ [Next]_vars
    => Recorded'
<1> SUFFICES ASSUME TypeOK, RowOK, KindOK, IdsFresh, Dense, LastSeen, Recorded, [Next]_vars
             PROVE  Recorded'
  OBVIOUS
<1> USE DEF RecordsHere, Recording, Goto
<1>1. ASSUME NEW q \in Requests, RestStep(q) PROVE Recorded'
  <2>1. CASE RestCreate(q)
    <3>1. CASE UNCHANGED <<fileVars, versions, fileId, history>>
      BY <2>1, <3>1, RecordedFrame DEF RestCreate, TypeOK
    <3>2. CASE row' = q /\ content' = q /\ fileId' = [fileId EXCEPT ![q] = q] /\ Goto(q, "last")
      <4>1. \A p \in Requests : RecordsHere(p)' <=> p = q
        BY <2>1, <3>2 DEF RestCreate, TypeOK, IdsFresh
      <4>2. text'[q] = q /\ pc'[q] = "last"
        BY <2>1, <3>2 DEF RestCreate, TypeOK, IdsFresh, RowOK
      <4>3. QED
        BY <3>2, <4>1, <4>2 DEF Recorded
    <3>3. QED
      BY <2>1, <3>1, <3>2 DEF RestCreate, SetRow
  <2>2. CASE RestFind(q) \/ RestVersion(q)
    BY <2>2, RecordedFrame DEF RestFind, RestVersion, TypeOK
  <2>3. CASE RestUpdate(q)
    <3>1. CASE row = fileId[q]
      <4>1. /\ row' = row /\ content' = text[q] /\ pc' = [pc EXCEPT ![q] = "last"]
            /\ UNCHANGED <<fileId, text, last>>
        BY <2>3, <3>1, Zenon DEF RestUpdate, SetRow
      <4>2. ~gap' => \A p \in Requests : ~RecordsHere(p)
        BY <2>3, <3>1, Zenon DEF RestUpdate, Races
      <4>3. ~gap' => \A p \in Requests : RecordsHere(p)' <=> p = q
        BY <3>1, <4>1, <4>2 DEF TypeOK
      <4>4. QED
        BY <4>1, <4>3 DEF Recorded, TypeOK
    <3>2. CASE row # fileId[q]
      <4>1. /\ row' = row /\ content' = content /\ pc' = [pc EXCEPT ![q] = "done"]
            /\ UNCHANGED <<versions, gap, fileId, text, last>> /\ pc[q] = "update"
        BY <2>3, <3>2, Zenon DEF RestUpdate, fileVars, history
      <4>2. QED
        BY <4>1, RecordedFrame DEF TypeOK
    <3>3. QED
      BY <3>1, <3>2
  <2>4. CASE LastVersion(q)
    <3>1. Newest' = Newest
      BY <2>4 DEF LastVersion, Newest, Numbers
    <3>2. \A p \in Requests : RecordsHere(p)' <=> RecordsHere(p)
      BY <2>4 DEF LastVersion, TypeOK
    <3>3. QED
      BY <2>4, <3>1, <3>2 DEF LastVersion, TypeOK, Recorded
  <2>5. CASE InsertVersion(q)
    <3>1. /\ pc[q] = "insert" /\ UNCHANGED <<row, content, gap, fileId, text, last>>
          /\ \E l \in {"done", "sync"} : pc' = [pc EXCEPT ![q] = l]
      BY <2>5, Zenon DEF InsertVersion, fileVars, history
    <3>2. CASE row # fileId[q]
      <4>1. versions' = versions
        BY <2>5, <3>2, Zenon DEF InsertVersion
      <4>2. QED
        BY <3>1, <3>2, <4>1, RecordedFrame DEF TypeOK
    <3>3. CASE row = fileId[q] /\ row # None /\ ~gap
      <4>1. last[q] = Newest /\ text[q] = content /\ Newest \in Nat /\ Numbers = 1 .. Newest
        BY <3>1, <3>3, NewestTop DEF Recorded
      <4>2. \A v \in versions : v.n # last[q] + 1
        BY <4>1 DEF Numbers
      <4>3. versions' = versions \cup {[n |-> last[q] + 1, content |-> text[q]]}
        BY <2>5, <3>3, <4>2, Zenon DEF InsertVersion
      <4>4. Numbers' = 1 .. (Newest + 1)
        <5>1. Numbers' = Numbers \cup {last[q] + 1}
          BY <4>3, InsertNumbers
        <5>2. QED
          BY <4>1, <5>1
      <4>5. Newest' = Newest + 1
        <5>1. PICK k \in Nat : k = Newest + 1
          BY <4>1
        <5>2. versions' # {}
          BY <4>3
        <5>3. Numbers' = 1 .. k
          BY <4>4, <5>1
        <5>4. k \in Numbers' /\ \A n \in Numbers' : n <= k /\ n \in Nat
          BY <5>1, <5>3, <4>1
        <5>5. \A n \in Numbers' : (\A m \in Numbers' : m <= n) => n = k
          BY <5>4
        <5>6. Newest' = k
          BY <5>2, <5>4, <5>5 DEF Newest
        <5>7. QED
          BY <5>1, <5>6
      <4>6. \A p \in Requests : ~RecordsHere(p)'
        BY <3>1, <3>3 DEF Recorded, TypeOK
      <4>7. [n |-> Newest', content |-> content'] \in versions'
        BY <3>1, <4>1, <4>3, <4>5
      <4>8. QED
        BY <4>6, <4>7 DEF Recorded
    <3>4. CASE row = None \/ gap
      BY <3>1, <3>4 DEF Recorded
    <3>5. QED
      BY <3>2, <3>3, <3>4
  <2>6. CASE RestRemove(q)
    <3>1. CASE row = fileId[q]
      BY <2>6, <3>1 DEF RestRemove, DeleteRow, SetRow, Recorded
    <3>2. CASE row # fileId[q]
      BY <2>6, <3>2, RecordedFrame DEF RestRemove, TypeOK
    <3>3. QED
      BY <3>1, <3>2
  <2>7. QED
    BY <1>1, <2>1, <2>2, <2>3, <2>4, <2>5, <2>6 DEF RestStep
<1>2. ASSUME NEW t \in Tools, ToolStep(t) PROVE Recorded'
  <2>1. \A q \in Requests : pc'[q] = pc[q] /\ fileId'[q] = fileId[q] /\ UNCHANGED <<text, last>>
    BY <1>2 DEF ToolStep, ReadFile, LookCreate, InsertFile, LookEdit, EditFile, LookDelete,
       DeleteFile, TypeOK
  <2>2. \/ UNCHANGED <<row, content, versions, gap>>
        \/ gap'
        \/ row' = None
    BY <1>2, Zenon DEF ToolStep, ReadFile, LookCreate, InsertFile, LookEdit, EditFile, LookDelete,
       DeleteFile, DeleteRow, SetRow, fileVars, history
  <2>3. CASE UNCHANGED <<row, content, versions, gap>>
    BY <2>1, <2>3, RecordedFrame
  <2>4. CASE gap' \/ row' = None
    BY <2>4 DEF Recorded
  <2>5. QED
    BY <2>2, <2>3, <2>4
<1>3. ASSUME NEW a \in Actors, SyncStep(a) PROVE Recorded'
  BY <1>3, RecordedFrame DEF SyncStep, Stat, WriteFile, Unlink, TypeOK
<1>4. ASSUME NEW b \in Previews, PreviewStep(b) PROVE Recorded'
  BY <1>4, RecordedFrame DEF PreviewStep, FetchFiles, ClearDir, MakeDir, FillDir, StopPreview,
     TypeOK
<1>5. CASE OpenLoop \/ UNCHANGED vars
  BY <1>5, RecordedFrame DEF OpenLoop, vars
<1>6. QED
  BY <1>1, <1>2, <1>3, <1>4, <1>5 DEF Next, Actors

\* A context of one entry or none, with an entry put in its place.
LEMMA SingleFacts ==
  ASSUME NEW x, NEW y
  PROVE  /\ Tail(<<x>>) = <<>> /\ Append(<<>>, x) = <<x>> /\ <<y>> \o Tail(<<x>>) = <<y>>
         /\ <<x>> # <<>>
<1>1. Tail(<<x>>) = <<>> /\ <<x>> # <<>>
  OBVIOUS
<1>2. Append(<<>>, x) = <<x>>
  OBVIOUS
<1>3. <<y>> \o <<>> = <<y>>
  OBVIOUS
<1>4. QED
  BY <1>1, <1>2, <1>3

\* The tools change the file and their context together.
LEMMA CoherentStep == TypeOK /\ RowOK /\ CacheCoherent /\ [Next]_vars => CacheCoherent'
<1> SUFFICES ASSUME TypeOK, RowOK, CacheCoherent, [Next]_vars, loop', ~foreign'
             PROVE  IF row' = None THEN cache' = <<>> ELSE cache' \in {<<None>>, <<content'>>}
  BY DEF CacheCoherent
<1> USE DEF CacheCoherent, SetRow, DeleteRow, CacheFirst
<1>1. ASSUME NEW q \in Requests, RestStep(q)
      PROVE  UNCHANGED <<row, content, loop, cache, foreign>>
  BY <1>1 DEF RestStep, RestCreate, RestFind, RestVersion, RestUpdate, LastVersion, InsertVersion,
     RestRemove
<1>2. ASSUME NEW t \in Tools, ToolStep(t)
      PROVE  IF row' = None THEN cache' = <<>> ELSE cache' \in {<<None>>, <<content'>>}
  <2>1. loop' = loop /\ foreign' = foreign
    BY <1>2, Zenon DEF ToolStep, ReadFile, LookCreate, InsertFile, LookEdit, EditFile, LookDelete,
       DeleteFile, chatVars, history
  <2>2. CASE ReadFile(t)
    <3>1. cache' \in {cache, <<content>>} \/ (cache # <<>> /\ cache' = CacheFirst(content))
      BY <2>2, Zenon DEF ReadFile, CacheFirst
    <3>2. row' = row /\ content' = content /\ (row = None => cache' = cache)
      BY <2>2, Zenon DEF ReadFile, fileVars
    <3>3. CASE row = None
      BY <2>1, <3>2, <3>3
    <3>4. CASE row # None
      <4>1. cache \in {<<None>>, <<content>>}
        BY <2>1, <3>4
      <4>2. CacheFirst(content) = <<content>>
        BY <4>1, SingleFacts
      <4>3. QED
        BY <3>1, <3>2, <3>4, <4>1, <4>2
    <3>5. QED
      BY <3>3, <3>4
  <2>3. CASE InsertFile(t)
    <3>1. CASE row = None
      BY <2>1, <2>3, <3>1, SingleFacts DEF InsertFile
    <3>2. CASE row # None
      BY <2>1, <2>3, <3>2 DEF InsertFile
    <3>3. QED
      BY <3>1, <3>2
  <2>4. CASE EditFile(t)
    BY <2>1, <2>4, SingleFacts DEF EditFile, RowOK
  <2>5. CASE DeleteFile(t)
    <3>1. CASE row = fileId[t]
      <4>1. cache \in {<<>>, <<None>>, <<content>>}
        BY <2>1
      <4>2. cache # <<>> => Tail(cache) = <<>>
        BY <4>1, SingleFacts
      <4>3. row' = None /\ cache' = <<>>
        BY <2>5, <3>1, <4>2 DEF DeleteFile
      <4>4. QED
        BY <4>3
    <3>2. CASE row # fileId[t]
      BY <2>1, <2>5, <3>2 DEF DeleteFile
    <3>3. QED
      BY <3>1, <3>2
  <2>6. CASE LookCreate(t) \/ LookEdit(t) \/ LookDelete(t)
    BY <2>1, <2>6 DEF LookCreate, LookEdit, LookDelete
  <2>7. QED
    BY <1>2, <2>2, <2>3, <2>4, <2>5, <2>6 DEF ToolStep
<1>3. ASSUME NEW a \in Actors, SyncStep(a)
      PROVE  UNCHANGED <<row, content, loop, cache, foreign>>
  BY <1>3 DEF SyncStep, Stat, WriteFile, Unlink
<1>4. ASSUME NEW b \in Previews, PreviewStep(b)
      PROVE  UNCHANGED <<row, content, loop, cache, foreign>>
  BY <1>4 DEF PreviewStep, FetchFiles, ClearDir, MakeDir, FillDir, StopPreview
<1>5. CASE OpenLoop
  BY <1>5 DEF OpenLoop
<1>6. CASE UNCHANGED <<row, content, loop, cache, foreign>>
  BY <1>6
<1>7. QED
  BY <1>1, <1>2, <1>3, <1>4, <1>5, <1>6 DEF Next, Actors, vars

\* A step that touches neither the file, nor its copy, nor a copying keeps
\* Copied.
LEMMA CopiedFrame ==
  ASSUME Copied, UNCHANGED <<row, content, versions, dir, disk, drift>>,
         \A c \in Actors :
             /\ Copying(c)' <=> Copying(c)
             /\ Copying(c) => /\ pc'[c] = pc[c] /\ fileId'[c] = fileId[c]
                              /\ text'[c] = text[c] /\ last'[c] = last[c]
  PROVE  Copied'
<1>1. Newest' = Newest
  BY DEF Newest, Numbers
<1>2. \A c \in Actors : CopyOK(c) => CopyOK(c)'
  BY <1>1 DEF CopyOK, Copying, Restoring
<1>3. QED
  BY <1>2 DEF Copied

\* The other way to get there: nobody else copies.
LEMMA OneCopies ==
  ASSUME NEW a \in Actors, \A c \in Actors : c # a => ~Copying(c)', CopyOK(a)',
         dir' => disk' = content' \/ Copying(a)'
  PROVE  Copied'
<1>1. \A c \in Actors : c # a => CopyOK(c)'
  BY DEF CopyOK, Copying
<1>2. QED
  BY <1>1 DEF Copied

\* Who copied alone still does after its own step.
LEMMA Lonely ==
  ASSUME TypeOK, NEW a \in Actors, \A c \in Actors : Copying(c) => c = a,
         NEW l \in Labels, pc' = [pc EXCEPT ![a] = l]
  PROVE  pc'[a] = l /\ \A c \in Actors : c # a => ~Copying(c)'
BY DEF TypeOK, Copying

\* A copying that is alone brings the stored text to the directory.
LEMMA CopiedStep ==
  TypeOK /\ RowOK /\ KindOK /\ Dense /\ Copied /\ [Next]_vars => Copied'
<1> SUFFICES ASSUME TypeOK, RowOK, KindOK, Dense, Copied, [Next]_vars, ~drift'
             PROVE  Copied'
  BY DEF Copied
<1> USE DEF Goto, Labels
<1>1. ASSUME NEW a \in Actors, ~drift, Copying(a)
      PROVE  CopyOK(a) /\ \A c \in Actors : Copying(c) => c = a
  BY <1>1 DEF Copied
<1>2. ASSUME NEW q \in Requests, RestStep(q) PROVE Copied'
  <2>1. CASE RestCreate(q)
    <3>1. CASE UNCHANGED <<fileVars, versions, fileId, history>> /\ Goto(q, "done")
      <4>1. /\ UNCHANGED <<row, content, versions, dir, disk, drift, fileId, text, last>>
            /\ pc[q] = "new" /\ pc' = [pc EXCEPT ![q] = "done"]
        BY <2>1, <3>1, Zenon DEF RestCreate, fileVars, history, dirVars
      <4>2. QED
        BY <4>1, CopiedFrame DEF TypeOK, Copying
    <3>2. CASE /\ SetRow(q, q) /\ fileId' = [fileId EXCEPT ![q] = q] /\ drift' = Overlaps
               /\ Goto(q, "last")
      <4>1. \A c \in Actors : ~Copying(c)
        BY <3>2, Zenon DEF Overlaps
      <4>2. pc'[q] = "last" /\ \A c \in Actors : c # q => ~Copying(c)'
        BY <3>2, <4>1, Lonely
      <4>3. fileId'[q] = row' /\ text'[q] = content' /\ text'[q] = q
        BY <2>1, <3>2 DEF RestCreate, SetRow, TypeOK, RowOK
      <4>4. QED
        BY <4>2, <4>3, OneCopies DEF CopyOK, Restoring, Copying
    <3>3. QED
      BY <2>1, <3>1, <3>2, Zenon DEF RestCreate
  <2>2. CASE RestFind(q) \/ RestVersion(q)
    BY <2>2, CopiedFrame DEF RestFind, RestVersion, TypeOK, Copying
  <2>3. CASE RestUpdate(q)
    <3>1. CASE row = fileId[q]
      <4>1. /\ row' = row /\ content' = text[q] /\ pc' = [pc EXCEPT ![q] = "last"]
            /\ UNCHANGED <<fileId, text, last>>
        BY <2>3, <3>1, Zenon DEF RestUpdate, SetRow
      <4>2. ~Restoring(q) /\ \A c \in Actors : ~Copying(c)
        BY <2>3, <3>1, Zenon DEF RestUpdate, Astray, Overlaps
      <4>3. pc'[q] = "last" /\ \A c \in Actors : c # q => ~Copying(c)'
        BY <4>1, <4>2, Lonely
      <4>4. QED
        BY <3>1, <4>1, <4>2, <4>3, OneCopies DEF CopyOK, Restoring, Copying
    <3>2. CASE row # fileId[q]
      <4>1. /\ UNCHANGED <<row, content, versions, dir, disk, drift, fileId, text, last>>
            /\ pc[q] = "update" /\ pc' = [pc EXCEPT ![q] = "done"]
        BY <2>3, <3>2, Zenon DEF RestUpdate, fileVars, history, dirVars
      <4>2. QED
        BY <4>1, CopiedFrame DEF TypeOK, Copying
    <3>3. QED
      BY <3>1, <3>2
  <2>4. CASE LastVersion(q)
    <3>1. /\ pc[q] = "last" /\ pc' = [pc EXCEPT ![q] = "insert"]
          /\ UNCHANGED <<row, content, versions, fileId, text, drift>>
          /\ last' = [last EXCEPT ![q] = IF row = fileId[q] THEN Newest ELSE 0]
      BY <2>4, Zenon DEF LastVersion, fileVars, history
    <3>2. CopyOK(q) /\ \A c \in Actors : Copying(c) => c = q
      BY <1>1, <3>1 DEF Copying
    <3>3. pc'[q] = "insert" /\ \A c \in Actors : c # q => ~Copying(c)'
      BY <3>1, <3>2, Lonely
    <3>4. Newest' = Newest
      BY <3>1 DEF Newest, Numbers
    <3>5. last'[q] = Newest
      BY <3>1, <3>2 DEF CopyOK, TypeOK
    <3>6. CopyOK(q)' /\ Copying(q)'
      BY <3>1, <3>2, <3>3, <3>4, <3>5 DEF CopyOK, Restoring, Copying
    <3>7. QED
      BY <3>3, <3>6, OneCopies
  <2>5. CASE InsertVersion(q)
    <3>1. pc[q] = "insert" /\ UNCHANGED <<row, content, fileId, text, drift>>
      BY <2>5, Zenon DEF InsertVersion, fileVars, history
    <3>2. CopyOK(q) /\ \A c \in Actors : Copying(c) => c = q
      BY <1>1, <3>1 DEF Copying
    <3>3. last[q] = Newest /\ row = fileId[q] /\ text[q] = content /\ ~Restoring(q)
      BY <3>1, <3>2 DEF CopyOK
    <3>4. \A v \in versions : v.n # last[q] + 1
      BY <3>3, NewestTop DEF Numbers
    <3>5. pc' = [pc EXCEPT ![q] = "sync"]
      BY <2>5, <3>3, <3>4, Zenon DEF InsertVersion
    <3>6. pc'[q] = "sync" /\ \A c \in Actors : c # q => ~Copying(c)'
      BY <3>2, <3>5, Lonely
    <3>7. QED
      BY <3>1, <3>3, <3>6, OneCopies DEF CopyOK, Copying
  <2>6. CASE RestRemove(q)
    <3>1. CASE row = fileId[q]
      <4>1. content' = None /\ pc' = [pc EXCEPT ![q] = "unsync"]
        BY <2>6, <3>1, Zenon DEF RestRemove, DeleteRow, SetRow
      <4>2. \A c \in Actors : ~Copying(c)
        BY <2>6, <3>1, Zenon DEF RestRemove, Overlaps
      <4>3. pc'[q] = "unsync" /\ \A c \in Actors : c # q => ~Copying(c)'
        BY <4>1, <4>2, Lonely
      <4>4. QED
        BY <4>1, <4>3, OneCopies DEF CopyOK, Copying
    <3>2. CASE row # fileId[q]
      BY <2>6, <3>2, CopiedFrame DEF RestRemove, TypeOK, Copying
    <3>3. QED
      BY <3>1, <3>2
  <2>7. QED
    BY <1>2, <2>1, <2>2, <2>3, <2>4, <2>5, <2>6 DEF RestStep
<1>3. ASSUME NEW t \in Tools, ToolStep(t) PROVE Copied'
  <2>1. CASE InsertFile(t) \/ EditFile(t)
    <3>1. CASE UNCHANGED <<row, content, versions, drift>> /\ Goto(t, "done")
      BY <2>1, <3>1, CopiedFrame DEF InsertFile, EditFile, TypeOK, Copying
    <3>2. CASE content' = t /\ drift' = Overlaps /\ Goto(t, "sync")
      <4>1. \A c \in Actors : ~Copying(c)
        BY <3>2, Zenon DEF Overlaps
      <4>2. pc'[t] = "sync" /\ \A c \in Actors : c # t => ~Copying(c)'
        BY <3>2, <4>1, Lonely
      <4>3. text'[t] = t
        BY <2>1 DEF InsertFile, EditFile, RowOK
      <4>4. QED
        BY <3>2, <4>2, <4>3, OneCopies DEF CopyOK, Copying
    <3>3. QED
      BY <2>1, <3>1, <3>2, Zenon DEF InsertFile, EditFile, SetRow, fileVars
  <2>2. CASE DeleteFile(t)
    <3>1. CASE row = fileId[t]
      <4>1. content' = None /\ pc' = [pc EXCEPT ![t] = "unsync"]
        BY <2>2, <3>1, Zenon DEF DeleteFile, DeleteRow, SetRow
      <4>2. \A c \in Actors : ~Copying(c)
        BY <2>2, <3>1, Zenon DEF DeleteFile, Overlaps
      <4>3. pc'[t] = "unsync" /\ \A c \in Actors : c # t => ~Copying(c)'
        BY <4>1, <4>2, Lonely
      <4>4. QED
        BY <4>1, <4>3, OneCopies DEF CopyOK, Copying
    <3>2. CASE row # fileId[t]
      BY <2>2, <3>2, CopiedFrame DEF DeleteFile, TypeOK, Copying
    <3>3. QED
      BY <3>1, <3>2
  <2>3. CASE ReadFile(t) \/ LookDelete(t)
    BY <2>3, CopiedFrame DEF ReadFile, LookDelete, Runs, TypeOK, Copying
  <2>4. CASE LookCreate(t) \/ LookEdit(t)
    BY <2>4, CopiedFrame DEF LookCreate, LookEdit, Runs, TypeOK, Copying
  <2>5. QED
    BY <1>3, <2>1, <2>2, <2>3, <2>4 DEF ToolStep
<1>4. ASSUME NEW a \in Actors, SyncStep(a) PROVE Copied'
  <2>1. Copying(a) /\ drift' = drift
    BY <1>4 DEF SyncStep, Stat, WriteFile, Unlink, Copying
  <2>2. CopyOK(a) /\ \A c \in Actors : Copying(c) => c = a
    BY <1>1, <2>1
  <2>3. \A c \in Actors : c # a => ~Copying(c)'
    BY <1>4, <2>2 DEF SyncStep, Stat, WriteFile, Unlink, Copying, TypeOK
  <2>4. CASE Stat(a)
    <3>1. CopyOK(a)'
      BY <2>2, <2>4 DEF Stat, CopyOK, TypeOK
    <3>2. dir' => Copying(a)'
      BY <2>4 DEF Stat, Copying, TypeOK
    <3>3. QED
      BY <2>3, <3>1, <3>2, OneCopies
  <2>5. CASE WriteFile(a) \/ Unlink(a)
    <3>1. pc'[a] = "done" /\ disk' = content'
      BY <2>2, <2>5 DEF WriteFile, Unlink, CopyOK, TypeOK
    <3>2. QED
      BY <2>3, <3>1, OneCopies DEF CopyOK
  <2>6. QED
    BY <1>4, <2>4, <2>5 DEF SyncStep
<1>5. ASSUME NEW b \in Previews, PreviewStep(b) PROVE Copied'
  <2>1. CASE FetchFiles(b)
    <3>1. \A c \in Actors : ~Copying(c)
      BY <2>1, Zenon DEF FetchFiles, Overlaps
    <3>2. pc'[b] = "clear" /\ \A c \in Actors : c # b => ~Copying(c)'
      BY <2>1, <3>1, Lonely DEF FetchFiles
    <3>3. text'[b] = content'
      BY <2>1 DEF FetchFiles, TypeOK
    <3>4. QED
      BY <3>2, <3>3, OneCopies DEF CopyOK, Copying
  <2>2. CASE StopPreview(b)
    <3>1. \A c \in Actors : ~Copying(c)
      BY <2>2, Zenon DEF StopPreview, Overlaps
    <3>2. pc'[b] = "done" /\ \A c \in Actors : c # b => ~Copying(c)'
      BY <2>2, <3>1, Lonely DEF StopPreview
    <3>3. QED
      BY <2>2, <3>2, OneCopies DEF StopPreview, CopyOK
  <2>3. CASE ClearDir(b) \/ MakeDir(b) \/ FillDir(b)
    <3>1. Copying(b) /\ drift' = drift
      BY <2>3 DEF ClearDir, MakeDir, FillDir, Copying
    <3>2. CopyOK(b) /\ \A c \in Actors : Copying(c) => c = b
      BY <1>1, <3>1
    <3>3. \A c \in Actors : c # b => ~Copying(c)'
      BY <2>3, <3>2 DEF ClearDir, MakeDir, FillDir, Copying, TypeOK
    <3>4. CASE ClearDir(b) \/ MakeDir(b)
      <4>1. CopyOK(b)'
        BY <3>2, <3>4 DEF ClearDir, MakeDir, CopyOK, TypeOK
      <4>2. Copying(b)'
        BY <3>4 DEF ClearDir, MakeDir, Copying, TypeOK
      <4>3. QED
        BY <3>3, <4>1, <4>2, OneCopies
    <3>5. CASE FillDir(b)
      <4>1. pc'[b] = "done" /\ disk' = content'
        BY <3>2, <3>5 DEF FillDir, CopyOK, TypeOK
      <4>2. QED
        BY <3>3, <4>1, OneCopies DEF CopyOK
    <3>6. QED
      BY <2>3, <3>4, <3>5
  <2>4. QED
    BY <1>5, <2>1, <2>2, <2>3 DEF PreviewStep
<1>6. CASE OpenLoop \/ UNCHANGED vars
  BY <1>6, CopiedFrame DEF OpenLoop, vars, Copying
<1>7. QED
  BY <1>2, <1>3, <1>4, <1>5, <1>6 DEF Next, Actors

\* The conjuncts together are inductive.
LEMMA NextIInv == IInv /\ [Next]_vars => IInv'
  BY TypeStep, RowStep, KindStep, IdsStep, SeenStep, DenseStep, RecordedStep, CopiedStep,
     CoherentStep DEF IInv

-----------------------------------------------------------------------------
\* The inductive invariant holds in every reachable state.
THEOREM Invariance == Spec => []IInv
  BY InitIInv, NextIInv, PTL DEF Spec

\* Every variable keeps its type.
THEOREM TypeCorrectness == Spec => []TypeOK
<1>1. IInv => TypeOK
  BY DEF IInv
<1>2. QED
  BY <1>1, Invariance, PTL

\* However many writers race for the next number, and whatever is deleted and
\* created in between, version numbers have no gap and are given once.
THEOREM VersionSafety == Spec => []VersionsDense
<1>1. IInv => VersionsDense
  <2> SUFFICES ASSUME IInv
               PROVE  VersionsDense
    OBVIOUS
  <2>1. PICK k \in Nat : Numbers = 1 .. k
    BY DEF IInv, Dense
  <2>2. ASSUME NEW v \in versions, v.n # 1 PROVE \E u \in versions : u.n = v.n - 1
    <3>1. v.n \in 1 .. k
      BY <2>1 DEF Numbers
    <3>2. v.n - 1 \in Numbers
      BY <2>1, <2>2, <3>1
    <3>3. QED
      BY <3>2 DEF Numbers
  <2>3. QED
    BY <2>2 DEF IInv, Dense, VersionsDense
<1>2. QED
  BY <1>1, Invariance, PTL

\* The newest version is the file, unless the chat or a race left a gap.
THEOREM HistorySafety == Spec => []HistoryCurrent
<1>1. IInv => HistoryCurrent
  BY DEF IInv, Recorded, RecordsHere, HistoryCurrent
<1>2. QED
  BY <1>1, Invariance, PTL

\* The preview has the file as it is stored, unless a restored version or an
\* overlap made it drift.
THEOREM PreviewSafety == Spec => []PreviewCurrent
<1>1. IInv => PreviewCurrent
  BY DEF IInv, Copied, PreviewCurrent
<1>2. QED
  BY <1>1, Invariance, PTL

\* A loop of the chat believes what is stored while nobody else writes.
THEOREM CacheSafety == Spec => []CacheCoherent
<1>1. IInv => CacheCoherent
  BY DEF IInv
<1>2. QED
  BY <1>1, Invariance, PTL

-----------------------------------------------------------------------------
(* FileStore implements VersionedFile: every step is a step of it or a      *)
(* stutter.                                                                 *)

Promised == [History!Next]_<<row, content, Pending, Newest, versions>>

\* What is pending depends on the recordings of this file alone.
LEMMA PendingFrame ==
  ASSUME \A q \in Requests : RecordsHere(q)' <=> RecordsHere(q),
         \A q \in Requests : RecordsHere(q) => text'[q] = text[q]
  PROVE  Pending' = Pending
<1>1. Pending = {text[q] : q \in {p \in Requests : RecordsHere(p)}}
  BY DEF Pending, RecordsHere
<1>2. Pending' = {text'[q] : q \in {p \in Requests : RecordsHere(p)'}}
  BY DEF Pending, RecordsHere
<1>3. QED
  BY <1>1, <1>2

\* A recording that begins makes its text pending.
LEMMA PendingGrows ==
  ASSUME NEW q \in Requests, RecordsHere(q)',
         \A p \in Requests : p # q => (RecordsHere(p)' <=> RecordsHere(p)),
         ~RecordsHere(q),
         \A p \in Requests : text'[p] = text[p]
  PROVE  Pending' = Pending \cup {text[q]}
<1>1. Pending = {text[p] : p \in {c \in Requests : RecordsHere(c)}}
  BY DEF Pending, RecordsHere
<1>2. Pending' = {text'[p] : p \in {c \in Requests : RecordsHere(c)'}}
  BY DEF Pending, RecordsHere
<1>3. QED
  BY <1>1, <1>2

\* One that ends may leave the same text pending for another one.
LEMMA PendingShrinks ==
  ASSUME NEW q \in Requests, RecordsHere(q), ~RecordsHere(q)',
         \A p \in Requests : p # q => (RecordsHere(p)' <=> RecordsHere(p)),
         \A p \in Requests : text'[p] = text[p]
  PROVE  text[q] \in Pending /\ Pending' \in {Pending, Pending \ {text[q]}}
<1>1. Pending = {text[p] : p \in {c \in Requests : RecordsHere(c)}}
  BY DEF Pending, RecordsHere
<1>2. Pending' = {text'[p] : p \in {c \in Requests : RecordsHere(c)'}}
  BY DEF Pending, RecordsHere
<1>3. text[q] \in Pending
  BY <1>1
<1>4. \A x : x \in Pending' => x \in Pending
  BY <1>1, <1>2
<1>5. \A x : x \in Pending /\ x # text[q] => x \in Pending'
  BY <1>1, <1>2
<1>6. CASE text[q] \in Pending'
  <2>1. Pending' = Pending
    BY <1>3, <1>4, <1>5, <1>6
  <2>2. QED
    BY <1>3, <2>1
<1>7. CASE text[q] \notin Pending'
  <2>1. Pending' = Pending \ {text[q]}
    BY <1>4, <1>5, <1>7
  <2>2. QED
    BY <1>3, <2>1
<1>8. QED
  BY <1>6, <1>7

\* Nothing is pending for a file that nobody knows, or that is not there.
LEMMA PendingNone ==
  ASSUME \A q \in Requests : ~RecordsHere(q)
  PROVE  Pending = {}
  BY DEF Pending, RecordsHere

\* The same after a step.
LEMMA EmptiedPending ==
  ASSUME \A q \in Requests : ~RecordsHere(q)'
  PROVE  Pending' = {}
<1>1. Pending' = {text'[q] : q \in {p \in Requests : RecordsHere(p)'}}
  BY DEF Pending, RecordsHere
<1>2. QED
  BY <1>1

\* Without a change of the versions the newest stays.
LEMMA NewestKept ==
  ASSUME versions' = versions
  PROVE  Newest' = Newest
  BY DEF Newest, Numbers

\* An insertion that got the next number is the newest.
LEMMA InsertNewest ==
  ASSUME TypeOK, Dense, NEW t,
         versions' = versions \cup {[n |-> Newest + 1, content |-> t]}
  PROVE  Newest' = Newest + 1
<1>1. Newest \in Nat /\ Numbers = 1 .. Newest
  BY NewestTop
<1>2. Numbers' = 1 .. (Newest + 1)
  <2>1. Numbers' = Numbers \cup {Newest + 1}
    BY InsertNumbers
  <2>2. QED
    BY <1>1, <2>1
<1>3. versions' # {}
  OBVIOUS
<1>4. Newest' = CHOOSE n \in Numbers' : \A k \in Numbers' : k <= n
  BY <1>3 DEF Newest
<1>5. Newest + 1 \in Numbers' /\ \A k \in Numbers' : k <= Newest + 1
  BY <1>1, <1>2
<1>6. \A n \in Numbers' : (\A k \in Numbers' : k <= n) => n = Newest + 1
  BY <1>1, <1>2, <1>5
<1>7. QED
  BY <1>4, <1>5, <1>6

\* Where there are no versions the newest has number 0.
LEMMA NewestNone ==
  ASSUME versions = {}
  PROVE  Newest = 0
  BY DEF Newest

\* A step that leaves the rows and the recordings alone is a stutter.
LEMMA StutterKept ==
  ASSUME UNCHANGED <<row, content, versions>>,
         \A q \in Requests : RecordsHere(q)' <=> RecordsHere(q),
         \A q \in Requests : RecordsHere(q) => text'[q] = text[q]
  PROVE  Promised
  BY PendingFrame, NewestKept DEF Promised

\* A row that goes takes what is pending along.
LEMMA DeleteKept ==
  ASSUME IInv, row # None, DeleteRow, UNCHANGED fileId,
         \A q \in Requests : Recording(q)' => Recording(q)
  PROVE  Promised
<1>1. row' = None /\ content' = None /\ versions' = {}
  BY DEF DeleteRow, SetRow
<1>2. \A q \in Requests : ~RecordsHere(q)'
  BY <1>1 DEF IInv, RowOK, RecordsHere, Recording
<1>3. Pending' = {}
  BY <1>2, EmptiedPending
<1>4. Newest' = 0
  BY <1>1 DEF Newest
<1>5. History!Delete
  BY <1>1, <1>3, <1>4 DEF History!Delete
<1>6. QED
  BY <1>5 DEF Promised, History!Next

\* A new file begins without versions, and nobody else has its id.
LEMMA CreateKept ==
  ASSUME IInv, NEW i \in Requests \cup Tools, row = None, SetRow(i, i), versions' = {},
         pc[i] \in {"new", "insertFile"}, UNCHANGED text, text[i] = i,
         \A c \in Actors : c # i => fileId'[c] = fileId[c],
         \A q \in Requests : q # i => pc'[q] = pc[q],
         i \in Requests => RecordsHere(i)'
  PROVE  Promised
<1>1. row' = i /\ content' = i /\ versions = {}
  BY DEF SetRow, IInv, RowOK
<1>2. \A q \in Requests : q # i => ~RecordsHere(q)'
  BY <1>1 DEF IInv, IdsFresh, RecordsHere
<1>3. Newest' = Newest
  BY <1>1, NewestKept
<1>4. Pending' \in {{}, {i}}
  <2>1. CASE i \in Requests
    <3>1. {p \in Requests : RecordsHere(p)'} = {i}
      BY <1>2, <2>1
    <3>2. Pending' = {text'[q] : q \in {p \in Requests : RecordsHere(p)'}}
      BY DEF Pending, RecordsHere
    <3>3. Pending' = {i}
      BY <3>1, <3>2
    <3>4. QED
      BY <3>3
  <2>2. CASE i \notin Requests
    <3>1. \A q \in Requests : ~RecordsHere(q)'
      BY <1>2, <2>2
    <3>2. Pending' = {}
      BY <3>1, EmptiedPending
    <3>3. QED
      BY <3>2
  <2>3. QED
    BY <2>1, <2>2
<1>5. History!Create(i)
  BY <1>1, <1>3, <1>4 DEF History!Create
<1>6. QED
  BY <1>5 DEF Promised, History!Next, Writers

\* The calls of FilesService.
LEMMA RestKept ==
  ASSUME IInv, NEW q \in Requests, RestStep(q)
  PROVE  Promised
<1> USE DEF Goto, RecordsHere, Recording, SetRow
<1>0. TypeOK /\ RowOK /\ Dense /\ LastSeen
  BY DEF IInv
<1>1. CASE RestCreate(q)
  <2>1. CASE row = None /\ row' = q
    <3>1. QED
      BY <1>0, <1>1, <2>1, CreateKept DEF RestCreate, TypeOK, RowOK
  <2>2. CASE UNCHANGED <<fileVars, versions, fileId>> /\ pc' = [pc EXCEPT ![q] = "done"]
    BY <1>0, <1>1, <2>2, StutterKept DEF RestCreate, TypeOK
  <2>3. QED
    BY <1>1, <2>1, <2>2 DEF RestCreate
<1>2. CASE RestFind(q)
  BY <1>0, <1>2, StutterKept DEF RestFind, TypeOK
<1>3. CASE RestVersion(q)
  BY <1>0, <1>3, StutterKept DEF RestVersion, TypeOK
<1>4. CASE RestUpdate(q)
  <2>1. CASE row = fileId[q]
    <3>1. Pending' = Pending \cup {text[q]}
      BY <1>0, <1>4, <2>1, PendingGrows DEF RestUpdate, TypeOK
    <3>2. Newest' = Newest
      BY <1>4, NewestKept DEF RestUpdate
    <3>3. text[q] \in Writers /\ row # None
      BY <1>0, <1>4, <2>1 DEF RestUpdate, RowOK
    <3>4. History!Write(text[q])
      BY <1>4, <2>1, <3>1, <3>2, <3>3 DEF RestUpdate, History!Write
    <3>5. QED
      BY <3>3, <3>4 DEF Promised, History!Next
  <2>2. CASE row # fileId[q]
    BY <1>0, <1>4, <2>2, StutterKept DEF RestUpdate, TypeOK
  <2>3. QED
    BY <2>1, <2>2
<1>5. CASE LastVersion(q)
  BY <1>0, <1>5, StutterKept DEF LastVersion, TypeOK
<1>6. CASE InsertVersion(q)
  <2>1. CASE row # fileId[q]
    BY <1>0, <1>6, <2>1, StutterKept DEF InsertVersion, TypeOK
  <2>2. CASE row = fileId[q]
    <3>1. text[q] \in Pending /\ Pending' \in {Pending, Pending \ {text[q]}}
      BY <1>0, <1>6, <2>2, PendingShrinks DEF InsertVersion, TypeOK
    <3>2. text[q] \in Writers
      BY <1>0 DEF RowOK
    <3>3. CASE \A v \in versions : v.n # last[q] + 1
      <4>1. last[q] = Newest /\ Newest \in Nat /\ Numbers = 1 .. Newest
        BY <1>0, <1>6, <2>2, <3>3, InsertsNext, NewestTop DEF InsertVersion
      <4>2. versions' = versions \cup {[n |-> Newest + 1, content |-> text[q]]}
        BY <1>6, <2>2, <3>3, <4>1 DEF InsertVersion
      <4>3. Newest' = Newest + 1
        BY <1>0, <4>2, InsertNewest
      <4>4. History!Record(text[q])
        BY <1>6, <3>1, <4>2, <4>3 DEF InsertVersion, History!Record
      <4>5. QED
        BY <3>2, <4>4 DEF Promised, History!Next
    <3>4. CASE ~\A v \in versions : v.n # last[q] + 1
      <4>1. versions' = versions /\ UNCHANGED <<row, content>>
        BY <1>6, <3>4 DEF InsertVersion
      <4>2. Newest' = Newest
        BY <4>1, NewestKept
      <4>3. Pending' = Pending => Promised
        BY <4>1, <4>2 DEF Promised
      <4>4. Pending' = Pending \ {text[q]} => History!Forget(text[q])
        BY <4>1, <4>2 DEF History!Forget
      <4>5. QED
        BY <3>1, <3>2, <4>3, <4>4 DEF Promised, History!Next
    <3>5. QED
      BY <3>3, <3>4
  <2>3. QED
    BY <2>1, <2>2
<1>7. CASE RestRemove(q)
  <2>1. CASE row = fileId[q]
    BY <1>0, <1>7, <2>1, DeleteKept DEF RestRemove, TypeOK, RowOK
  <2>2. CASE row # fileId[q]
    BY <1>0, <1>7, <2>2, StutterKept DEF RestRemove, TypeOK
  <2>3. QED
    BY <2>1, <2>2
<1>8. QED
  BY <1>1, <1>2, <1>3, <1>4, <1>5, <1>6, <1>7 DEF RestStep

\* The file tools, which record nothing.
LEMMA ToolKept ==
  ASSUME IInv, NEW t \in Tools, ToolStep(t)
  PROVE  Promised
<1> USE DEF Goto, RecordsHere, Recording, SetRow
<1>0. TypeOK /\ RowOK /\ KindOK
  BY DEF IInv
<1>1. CASE InsertFile(t)
  <2>1. CASE row = None
    BY <1>0, <1>1, <2>1, CreateKept DEF InsertFile, TypeOK, RowOK
  <2>2. CASE row # None
    BY <1>0, <1>1, <2>2, StutterKept DEF InsertFile, TypeOK
  <2>3. QED
    BY <2>1, <2>2
<1>2. CASE EditFile(t)
  <2>1. CASE row = fileId[t]
    <3>1. Pending' = Pending
      BY <1>0, <1>2, <2>1, PendingFrame DEF EditFile, TypeOK
    <3>2. Newest' = Newest
      BY <1>2, NewestKept DEF EditFile
    <3>3. row # None
      BY <1>0, <1>2, <2>1 DEF EditFile, RowOK
    <3>4. History!Write(t)
      BY <1>2, <2>1, <3>1, <3>2, <3>3 DEF EditFile, History!Write
    <3>5. QED
      BY <3>4 DEF Promised, History!Next
  <2>2. CASE row # fileId[t]
    BY <1>0, <1>2, <2>2, StutterKept DEF EditFile, TypeOK
  <2>3. QED
    BY <2>1, <2>2
<1>3. CASE DeleteFile(t)
  <2>1. CASE row = fileId[t]
    BY <1>0, <1>3, <2>1, DeleteKept DEF DeleteFile, TypeOK, RowOK
  <2>2. CASE row # fileId[t]
    BY <1>0, <1>3, <2>2, StutterKept DEF DeleteFile, TypeOK
  <2>3. QED
    BY <2>1, <2>2
<1>4. CASE ReadFile(t) \/ LookCreate(t) \/ LookEdit(t) \/ LookDelete(t)
  BY <1>0, <1>4, StutterKept DEF ReadFile, LookCreate, LookEdit, LookDelete, TypeOK
<1>5. QED
  BY <1>1, <1>2, <1>3, <1>4 DEF ToolStep

\* Every step is one of VersionedFile or a stutter.
LEMMA StepKept == IInv /\ [Next]_vars => Promised
<1> SUFFICES ASSUME IInv, [Next]_vars
             PROVE  Promised
  OBVIOUS
<1>0. TypeOK /\ KindOK
  BY DEF IInv
<1>1. ASSUME NEW a \in Actors, SyncStep(a) PROVE Promised
  BY <1>0, <1>1, StutterKept DEF SyncStep, Stat, WriteFile, Unlink, Goto, RecordsHere, Recording,
     TypeOK
<1>2. ASSUME NEW b \in Previews, PreviewStep(b) PROVE Promised
  BY <1>0, <1>2, StutterKept DEF PreviewStep, FetchFiles, ClearDir, MakeDir, FillDir, StopPreview,
     Goto, RecordsHere, Recording, TypeOK
<1>3. CASE OpenLoop \/ UNCHANGED vars
  BY <1>3, StutterKept DEF OpenLoop, vars, RecordsHere, Recording
<1>4. QED
  BY <1>1, <1>2, <1>3, RestKept, ToolKept DEF Next, Actors

\* For any number of calls: a file that lives loses none of its versions, the
\* next one is a text that was written to it and has the next number, and the
\* history goes with the file.
THEOREM Implementation == Spec => KeepsHistory
<1>1. Init => History!Init
  <2>1. Init => Pending = {} /\ Newest = 0
    BY PendingNone, NewestNone DEF Init, RecordsHere, Recording
  <2>2. QED
    BY <2>1 DEF Init, History!Init
<1>2. IInv /\ [Next]_vars => [History!Next]_<<row, content, Pending, Newest, versions>>
  BY StepKept DEF Promised
<1>3. QED
  BY <1>1, <1>2, Invariance, PTL DEF Spec, KeepsHistory, History!Spec, History!vars
=============================================================================

------------------------------- MODULE FileStore -------------------------------
(***************************************************************************)
(* One path of one project: its row and its versions in the database, and  *)
(* its copy in the working directory of a preview.                         *)
(*                                                                         *)
(* Writers are the REST calls of FilesService, the file tools of one loop  *)
(* of ChatAiService, and the starts and stops of a preview, which fill and *)
(* remove the working directory.  The web preview and the tunnel treat     *)
(* their directories alike, so one stands for both.  A text is named after *)
(* the call that wrote it first, a row after the call that created it.     *)
(***************************************************************************)
EXTENDS Naturals, Sequences

CONSTANTS
    Requests,
    Tools,
    Previews,
    Seed,         \* the file of the project's template
    None

ASSUME FileConstants ==
    /\ None \notin Requests \cup Tools \cup Previews \cup {Seed}
    /\ Seed \notin Requests \cup Tools \cup Previews
    /\ Requests \cap Tools = {} /\ Requests \cap Previews = {} /\ Tools \cap Previews = {}

Actors == Requests \cup Tools \cup Previews
Writers == Requests \cup Tools \cup {Seed}

VARIABLES
    row,          \* the file's id, None when there is no such file
    content,
    versions,     \* the FileVersion rows of the file
    dir,          \* the working directory exists
    disk,         \* the file in it, None when it is not there
    loop,         \* a loop of the chat has loaded the file tree
    cache,        \* its entries for the path; None stands for one of the tree
    pc,           \* where a call stands
    fileId,       \* locals: the id a call works on,
    text,         \* the text it writes,
    last,         \* the newest version it saw
    gap,          \* history: a write of the text was not recorded, or raced
    drift,        \* history: a write or a start was not copied, or raced
    foreign       \* history: somebody else wrote since the loop began

vars == <<row, content, versions, dir, disk, loop, cache, pc, fileId, text, last,
          gap, drift, foreign>>

fileVars == <<row, content>>
dirVars == <<dir, disk>>
chatVars == <<loop, cache>>
history == <<gap, drift, foreign>>

Labels == {"new", "update", "remove", "restore", "last", "insert",
           "lookCreate", "lookEdit", "insertFile", "editFile", "deleteFile",
           "sync", "write", "unsync", "unlink", "clear", "mkdir", "fill", "done"}

TypeOK ==
    /\ row \in Writers \cup {None}
    /\ content \in Writers \cup {None}
    /\ versions \subseteq [n : Nat \ {0}, content : Writers]
    /\ dir \in BOOLEAN
    /\ disk \in Writers \cup {None}
    /\ loop \in BOOLEAN
    /\ cache \in Seq(Writers \cup {None})
    /\ pc \in [Actors -> Labels]
    /\ fileId \in [Actors -> Writers \cup {None}]
    /\ text \in [Actors -> Writers \cup {None}]
    /\ last \in [Actors -> Nat]
    /\ gap \in BOOLEAN /\ drift \in BOOLEAN /\ foreign \in BOOLEAN

\* Templates write rows without versions.
Init ==
    /\ row \in {None, Seed} /\ content = row
    /\ versions = {}
    /\ dir = FALSE /\ disk = None
    /\ loop = FALSE /\ cache = <<>>
    /\ pc = [a \in Actors |-> "new"]
    /\ fileId = [a \in Actors |-> None]
    /\ text = [a \in Actors |-> IF a \in Previews THEN None ELSE a]
    /\ last = [a \in Actors |-> 0]
    /\ gap = TRUE /\ drift = FALSE /\ foreign = FALSE

Goto(a, label) == pc' = [pc EXCEPT ![a] = label]

\* Between its write of the row and the end of its version, or of its copying.
Recording(a) == pc[a] \in {"last", "insert"}
Copying(a) ==
    pc[a] \in {"last", "insert", "sync", "write", "unsync", "unlink", "clear", "mkdir",
              "fill"}

\* A write that meets another one's recording leaves a gap; a write or a start
\* that meets another one's copying makes the preview drift.
Races == \E p \in Requests : Recording(p) /\ fileId[p] = row
Overlaps == \E a \in Actors : Copying(a)

\* The row's text changes, and its row as well when it is created.
SetRow(id, t) == row' = id /\ content' = t

Numbers == {v.n : v \in versions}

\* Mutant: numbering begins at zero.
NewestFromZero ==
    IF versions = {} THEN 0 - 1 ELSE CHOOSE n \in Numbers : \A k \in Numbers : k <= n

\* The highest version number of the file, 0 when it has none.
Newest ==
    IF versions = {} THEN 0 ELSE CHOOSE n \in Numbers : \A k \in Numbers : k <= n

\* onDelete: Cascade.
DeleteRow == SetRow(None, None) /\ versions' = {}

-----------------------------------------------------------------------------
(* FilesService: create, update, remove, restoreVersion                     *)

\* The quota or, on the path, the unique key refuses a file.
RestCreate(q) ==
    /\ pc[q] = "new"
    /\ \/ /\ row = None
          /\ SetRow(q, q) /\ versions' = {}
          /\ fileId' = [fileId EXCEPT ![q] = q]
          /\ gap' = FALSE /\ drift' = Overlaps /\ foreign' = TRUE
          /\ Goto(q, "last")
       \/ /\ Goto(q, "done")
          /\ UNCHANGED <<fileVars, versions, fileId, history>>
    /\ UNCHANGED <<dirVars, chatVars, text, last>>

\* findById refuses a file that is not there.
RestFind(q) ==
    /\ pc[q] = "new"
    /\ fileId' = [fileId EXCEPT ![q] = row]
    /\ \E next \in {"update", "remove", "restore"} :
           Goto(q, IF row = None THEN "done" ELSE next)
    /\ UNCHANGED <<fileVars, versions, dirVars, chatVars, text, last, history>>

\* getVersion; the version may have gone with its file.
RestVersion(q) ==
    /\ pc[q] = "restore"
    /\ \/ /\ row = fileId[q]
          /\ \E v \in versions : text' = [text EXCEPT ![q] = v.content]
          /\ Goto(q, "update")
       \/ /\ Goto(q, "done")
          /\ UNCHANGED text
    /\ UNCHANGED <<fileVars, versions, dirVars, chatVars, fileId, last, history>>

\* A call that restores writes a text of somebody else.
Restoring(q) == text[q] # q

\* Restored texts are not copied.
Astray(q) == Restoring(q) \/ Overlaps

\* Mutant: the update leaves no version.
RestUpdateUnversioned(q) ==
    /\ pc[q] = "update"
    /\ IF row = fileId[q]
       THEN /\ SetRow(row, text[q])
            /\ gap' = Races /\ drift' = Astray(q) /\ foreign' = TRUE
            /\ Goto(q, "sync")
       ELSE Goto(q, "done") /\ UNCHANGED <<fileVars, history>>
    /\ UNCHANGED <<versions, dirVars, chatVars, fileId, text, last>>

RestUpdate(q) ==
    /\ pc[q] = "update"
    /\ IF row = fileId[q]
       THEN /\ SetRow(row, text[q])
            /\ gap' = Races /\ drift' = Astray(q) /\ foreign' = TRUE
            /\ Goto(q, "last")
       ELSE Goto(q, "done") /\ UNCHANGED <<fileVars, history>>
    /\ UNCHANGED <<versions, dirVars, chatVars, fileId, text, last>>

\* createVersion reads the newest number of the file ...
LastVersion(q) ==
    /\ pc[q] = "last"
    /\ last' = [last EXCEPT ![q] = IF row = fileId[q] THEN Newest ELSE 0]
    /\ Goto(q, "insert")
    /\ UNCHANGED <<fileVars, versions, dirVars, chatVars, fileId, text, history>>

\* Mutant: no unique key on the number.
InsertVersionUnchecked(q) ==
    /\ pc[q] = "insert"
    /\ IF row = fileId[q]
       THEN /\ versions' = versions \cup {[n |-> last[q] + 1, content |-> text[q]]}
            /\ Goto(q, IF Restoring(q) THEN "done" ELSE "sync")
       ELSE Goto(q, "done") /\ UNCHANGED versions
    /\ UNCHANGED <<fileVars, dirVars, chatVars, fileId, text, last, history>>

\* ... and inserts the next one, unless the file is gone or the number taken.
InsertVersion(q) ==
    /\ pc[q] = "insert"
    /\ IF row = fileId[q] /\ \A v \in versions : v.n # last[q] + 1
       THEN /\ versions' = versions \cup {[n |-> last[q] + 1, content |-> text[q]]}
            /\ Goto(q, IF Restoring(q) THEN "done" ELSE "sync")
       ELSE Goto(q, "done") /\ UNCHANGED versions
    /\ UNCHANGED <<fileVars, dirVars, chatVars, fileId, text, last, history>>

\* Mutant: the previews are not told.
RestRemoveKeepsCopy(q) ==
    /\ pc[q] = "remove"
    /\ IF row = fileId[q]
       THEN DeleteRow /\ drift' = Overlaps /\ foreign' = TRUE /\ Goto(q, "done")
       ELSE Goto(q, "done") /\ UNCHANGED <<fileVars, versions, drift, foreign>>
    /\ UNCHANGED <<dirVars, chatVars, fileId, text, last, gap>>

RestRemove(q) ==
    /\ pc[q] = "remove"
    /\ IF row = fileId[q]
       THEN DeleteRow /\ drift' = Overlaps /\ foreign' = TRUE /\ Goto(q, "unsync")
       ELSE Goto(q, "done") /\ UNCHANGED <<fileVars, versions, drift, foreign>>
    /\ UNCHANGED <<dirVars, chatVars, fileId, text, last, gap>>

-----------------------------------------------------------------------------
(* ChatAiService: one loop and its file tools, called one after the other   *)

\* The tree is loaded without texts.
OpenLoop ==
    /\ ~loop
    /\ loop' = TRUE
    /\ cache' = IF row = None THEN <<>> ELSE <<None>>
    /\ foreign' = FALSE
    /\ UNCHANGED <<fileVars, versions, dirVars, pc, fileId, text, last, gap, drift>>

NoTool == \A t \in Tools : pc[t] \in {"new", "done"}

\* A handler runs because the model called its tool, or because the handler of
\* create_file or edit_file called the other one.
Runs(t, label) == pc[t] = label \/ (pc[t] = "new" /\ loop /\ NoTool)

\* The first entry of the path is the one that is found.
CacheFirst(t) == IF cache = <<>> THEN cache ELSE <<t>> \o Tail(cache)

\* An entry with a text is trusted, any other is filled.
ReadFile(t) ==
    /\ Runs(t, "new")
    /\ cache' = IF row = None \/ (cache # <<>> /\ Head(cache) # None) THEN cache
                ELSE IF cache = <<>> THEN <<content>> ELSE CacheFirst(content)
    /\ Goto(t, "done")
    /\ UNCHANGED <<fileVars, versions, dirVars, loop, fileId, text, last, history>>

LookCreate(t) ==
    /\ Runs(t, "lookCreate")
    /\ Goto(t, IF row = None THEN "insertFile" ELSE "lookEdit")
    /\ UNCHANGED <<fileVars, versions, dirVars, chatVars, fileId, text, last, history>>

InsertFile(t) ==
    /\ pc[t] = "insertFile"
    /\ IF row = None
       THEN /\ SetRow(t, t) /\ versions' = {}
            /\ cache' = Append(cache, t)
            /\ gap' = TRUE /\ drift' = Overlaps
            /\ Goto(t, "sync")
       ELSE Goto(t, "done") /\ UNCHANGED <<fileVars, versions, cache, gap, drift>>
    /\ UNCHANGED <<dirVars, loop, fileId, text, last, foreign>>

LookEdit(t) ==
    /\ Runs(t, "lookEdit")
    /\ fileId' = [fileId EXCEPT ![t] = row]
    /\ Goto(t, IF row = None THEN "lookCreate" ELSE "editFile")
    /\ UNCHANGED <<fileVars, versions, dirVars, chatVars, text, last, history>>

\* The chat's edits leave no version.
EditFile(t) ==
    /\ pc[t] = "editFile"
    /\ IF row = fileId[t]
       THEN /\ SetRow(row, t)
            /\ cache' = CacheFirst(t)
            /\ gap' = TRUE /\ drift' = Overlaps
            /\ Goto(t, "sync")
       ELSE Goto(t, "done") /\ UNCHANGED <<fileVars, cache, gap, drift>>
    /\ UNCHANGED <<versions, dirVars, loop, fileId, text, last, foreign>>

LookDelete(t) ==
    /\ Runs(t, "new")
    /\ fileId' = [fileId EXCEPT ![t] = row]
    /\ Goto(t, IF row = None THEN "done" ELSE "deleteFile")
    /\ UNCHANGED <<fileVars, versions, dirVars, chatVars, text, last, history>>

\* Mutant: the entry stays in the loop's context.
DeleteFileKeepsEntry(t) ==
    /\ pc[t] = "deleteFile"
    /\ IF row = fileId[t]
       THEN DeleteRow /\ drift' = Overlaps /\ Goto(t, "unsync")
       ELSE Goto(t, "done") /\ UNCHANGED <<fileVars, versions, drift>>
    /\ UNCHANGED <<dirVars, chatVars, fileId, text, last, gap, foreign>>

DeleteFile(t) ==
    /\ pc[t] = "deleteFile"
    /\ IF row = fileId[t]
       THEN /\ DeleteRow /\ drift' = Overlaps
            /\ cache' = IF cache = <<>> THEN cache ELSE Tail(cache)
            /\ Goto(t, "unsync")
       ELSE Goto(t, "done") /\ UNCHANGED <<fileVars, versions, cache, drift>>
    /\ UNCHANGED <<dirVars, loop, fileId, text, last, gap, foreign>>

-----------------------------------------------------------------------------
(* syncFile and deleteFile of the previews                                  *)

\* Is there a directory?
Stat(a) ==
    /\ pc[a] \in {"sync", "unsync"}
    /\ Goto(a, IF ~dir THEN "done" ELSE IF pc[a] = "sync" THEN "write" ELSE "unlink")
    /\ UNCHANGED <<fileVars, versions, dirVars, chatVars, fileId, text, last, history>>

\* mkdir is recursive: it makes a directory that has gone since.
WriteFile(a) ==
    /\ pc[a] = "write"
    /\ dir' = TRUE /\ disk' = text[a]
    /\ Goto(a, "done")
    /\ UNCHANGED <<fileVars, versions, chatVars, fileId, text, last, history>>

Unlink(a) ==
    /\ pc[a] = "unlink"
    /\ disk' = None
    /\ Goto(a, "done")
    /\ UNCHANGED <<fileVars, versions, dir, chatVars, fileId, text, last, history>>

-----------------------------------------------------------------------------
(* A preview fills its directory and removes it                             *)

FetchFiles(b) ==
    /\ pc[b] = "new"
    /\ text' = [text EXCEPT ![b] = content]
    /\ drift' = Overlaps
    /\ Goto(b, "clear")
    /\ UNCHANGED <<fileVars, versions, dirVars, chatVars, fileId, last, gap, foreign>>

ClearDir(b) ==
    /\ pc[b] = "clear"
    /\ dir' = FALSE /\ disk' = None
    /\ Goto(b, "mkdir")
    /\ UNCHANGED <<fileVars, versions, chatVars, fileId, text, last, history>>

MakeDir(b) ==
    /\ pc[b] = "mkdir"
    /\ dir' = TRUE
    /\ Goto(b, "fill")
    /\ UNCHANGED <<fileVars, versions, disk, chatVars, fileId, text, last, history>>

\* Of the files that were fetched.
FillDir(b) ==
    /\ pc[b] = "fill"
    /\ IF text[b] = None THEN UNCHANGED dirVars ELSE dir' = TRUE /\ disk' = text[b]
    /\ Goto(b, "done")
    /\ UNCHANGED <<fileVars, versions, chatVars, fileId, text, last, history>>

StopPreview(b) ==
    /\ pc[b] = "new"
    /\ dir' = FALSE /\ disk' = None
    /\ drift' = Overlaps
    /\ Goto(b, "done")
    /\ UNCHANGED <<fileVars, versions, chatVars, fileId, text, last, gap, foreign>>

-----------------------------------------------------------------------------
RestStep(q) ==
    \/ RestCreate(q) \/ RestFind(q) \/ RestVersion(q) \/ RestUpdate(q)
    \/ LastVersion(q) \/ InsertVersion(q) \/ RestRemove(q)

ToolStep(t) ==
    \/ ReadFile(t) \/ LookCreate(t) \/ InsertFile(t) \/ LookEdit(t) \/ EditFile(t)
    \/ LookDelete(t) \/ DeleteFile(t)

SyncStep(a) == Stat(a) \/ WriteFile(a) \/ Unlink(a)

PreviewStep(b) ==
    FetchFiles(b) \/ ClearDir(b) \/ MakeDir(b) \/ FillDir(b) \/ StopPreview(b)

Next ==
    \/ \E q \in Requests : RestStep(q) \/ SyncStep(q)
    \/ \E t \in Tools : ToolStep(t) \/ SyncStep(t)
    \/ \E b \in Previews : PreviewStep(b)
    \/ OpenLoop

Spec == Init /\ [][Next]_vars

-----------------------------------------------------------------------------
(* Properties                                                               *)

\* The numbers of a file's versions are 1, 2, 3, ... without a gap and each is
\* given once, though each writer reads the newest one and inserts later and
\* the file may be deleted and created again in between.
VersionsDense ==
    /\ \A v \in versions : v.n = 1 \/ \E u \in versions : u.n = v.n - 1
    /\ \A u, v \in versions : u.n = v.n => u = v

\* What is written to the file and not recorded yet.
Pending == {text[q] : q \in {p \in Requests : Recording(p) /\ fileId[p] = row}}

History ==
    INSTANCE VersionedFile WITH
        Ids <- Writers, Nothing <- None,
        file <- row, text <- content, pending <- Pending,
        count <- Newest, history <- versions

\* The calls together keep the promise of a versioned file: whatever they race
\* for, a file that lives loses no version, and gets the next one only from a
\* call that wrote it.
KeepsHistory == History!Spec

\* The newest version is the file, or somebody is about to record it.  Only a
\* write by the chat, or two writes whose recordings overlap, leave a gap, and
\* the next write that is alone closes it.
HistoryCurrent ==
    row # None /\ ~gap =>
        \/ \E q \in Requests : Recording(q) /\ fileId[q] = row /\ text[q] = content
        \/ [n |-> Newest, content |-> content] \in versions

\* A preview serves the file as it is stored, or somebody is about to copy it.
\* Only a restored version, or writes and starts that overlap, make it drift,
\* and the next one that is alone puts it right.
PreviewCurrent ==
    dir /\ ~drift => (\E a \in Actors : Copying(a)) \/ disk = content

\* What the loop believes of the file is what is stored, as long as nobody
\* else writes: entries are neither lost nor doubled, and a text is the text.
CacheCoherent ==
    loop /\ ~foreign =>
        IF row = None THEN cache = <<>> ELSE cache \in {<<None>>, <<content>>}
=============================================================================

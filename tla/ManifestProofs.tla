----------------------------- MODULE ManifestProofs -----------------------------
(***************************************************************************)
(* Proofs about Manifest, for any texts, any number of edits and builds.   *)
(***************************************************************************)
EXTENDS Manifest, TLAPS

\* Stages of a build, each with those after it.
Running == {"push", "up"}
Serving == Running \cup {"realign", "realignWrite", "installServer"}
Container == Serving \cup {"align", "alignWrite", "install"}
Configured == Container \cup {"config", "detect", "schemaWrite", "configWrite"}
Pointed == Configured \cup {"deps", "depsWrite"}
Injected == Pointed \cup {"verify", "main", "mainWrite"}
Filled == Injected \cup {"sdk", "sdkWrite", "inject"}

\* A build works in a directory, and an edit that is checked has a file.
PlacesOK ==
    /\ pc \in Filled => dir
    /\ edit.checked => edit.file # None
    /\ pc \notin AppHeld \cup SchemaHeld \cup {"depsWrite"} => held = None

\* A file holds what its source holds.
Same(d, s) == IF s = None THEN d \in {None, Made} ELSE d \notin {None, Made} /\ d.v = s.v

\* A file that no edit is bringing, and none has lost.
Settled(f) == f \notin lost /\ edit.file # f

\* What the directory, or the text held, or the fetched list, has is the source's.
ReachOK ==
    /\ pc = "fetched" => \A f \in Names : Settled(f) => files[f] = source[f]
    /\ pc \in Filled => \A f \in Names \ {"config"} : Settled(f) => Same(disk[f], source[f])
    /\ pc \in AppHeld /\ Settled("app") => held = None \/ Same(held, source["app"])
    /\ pc = "depsWrite" /\ Settled("server") => held = None \/ Same(held, source["server"])
    /\ pc \in SchemaHeld /\ Settled("schema") => Same(held, source["schema"])
    /\ pc \in {"sdk", "sdkWrite", "inject"} /\ files["metro"] = None =>
          \A f \in {"metro", "entry"} : files[f] = None /\ Settled(f) => source[f] = None

\* What the build has made of package.json and of the entry.
Pointing(t) ==
    /\ files["app"] # None /\ t.parses = files["app"].parses
    /\ t.parses => t.main = IF files["app"].main = "default" /\ files["entry"] = None
                            THEN "entry" ELSE files["app"].main

Untouched(t) ==
    /\ t = None <=> files["app"] = None
    /\ t # None => t.parses = files["app"].parses /\ t.main = files["app"].main

EntryOK ==
    /\ pc \in {"sdk", "sdkWrite", "inject"} /\ "entry" \notin raw => disk["entry"] = files["entry"]
    /\ pc \in Injected /\ "entry" \notin raw =>
          /\ files["entry"] # None => disk["entry"] = files["entry"]
          /\ files["metro"] = None => disk["entry"] # None
    /\ "app" \notin raw =>
          /\ pc \in {"sdk", "sdkWrite", "inject", "verify", "main", "mainWrite"} =>
                Untouched(disk["app"])
          /\ pc \in {"main", "mainWrite"} => disk["app"] # None
          /\ pc \in {"sdkWrite", "mainWrite"} => held = disk["app"]
          /\ pc \in Pointed => disk["app"] # None /\ Pointing(disk["app"])
          /\ pc \in {"alignWrite", "realignWrite"} => held = disk["app"]
          /\ pc \in Serving => disk["app"].parses

\* The url fields that a schema is left with for a major version.
Urls(m, s) ==
    IF m >= 7 THEN s.urls \ {"env"}
    ELSE IF s.urls \cap {"env", "other"} = {} /\ s.postgres THEN s.urls \cup {"env"} ELSE s.urls

\* What it has made of the files of Prisma.
PrismaOK ==
    raw \cap {"server", "schema", "config"} = {} /\ files["schema"] # None =>
        /\ pc \in Filled \ Configured => disk["schema"] = files["schema"]
        /\ pc \in {"config"} \cup SchemaHeld => disk["schema"] = files["schema"]
        /\ pc = "depsWrite" => held = disk["server"]
        /\ pc \in SchemaHeld => held = files["schema"]
        /\ pc \in Configured /\ Readable(disk["server"]) =>
              disk["server"].cli # None /\ disk["server"].client # None
        /\ pc \in Container \cup {"schemaWrite", "configWrite"} => major = Major(disk["server"])
        /\ pc \in Container \cup {"configWrite"} =>
              disk["schema"] # None /\ disk["schema"].urls = Urls(major, files["schema"])
        /\ pc \in Container => (major >= 7 <=> disk["config"] # None)

\* What the container has installed.
InstallOK ==
    /\ pc \in Filled /\ pc # "up" =>
          /\ ~Fullstack /\ "server" \notin missed => disk["server"] = None
          /\ files["schema"] = None /\ "schema" \notin missed => disk["schema"] = None
    /\ pc = "depsWrite" /\ ~Fullstack /\ "server" \notin missed => held = None
    /\ pc \in SchemaHeld /\ files["schema"] = None => "schema" \in missed
    /\ pc = "push" => files["schema"] # None
    /\ pc \in {"realign", "realignWrite", "installServer"} => Fullstack
    /\ "app" \notin missed =>
          /\ pc = "alignWrite" => held = disk["app"]
          /\ pc \in {"install", "realign", "installServer"} => Aligned(disk["app"]) = disk["app"]
          /\ pc = "realignWrite" => held = disk["app"] /\ Aligned(held) = held
          /\ pc \in Serving /\ (pc = "up" => "app" \notin commands) /\ disk["app"] # None =>
                installed.app = disk["app"]
    /\ "server" \notin missed /\ pc \in Running /\ (pc = "up" => "server" \notin commands)
          /\ disk["server"] # None => installed.server = disk["server"]
    /\ "schema" \notin missed /\ pc = "up" /\ "schema" \notin commands
          /\ disk["schema"] # None => installed.schema = disk["schema"]

\* The inductive invariant.
IInv ==
    /\ FilesOK /\ HeldOK /\ InstalledOK /\ LocalsOK /\ PlacesOK
    /\ ReachOK /\ EntryOK /\ PrismaOK /\ InstallOK

USE ManifestConstants
USE DEF project, history, Goto, Names

\* What a build makes of a text is a text.
LEMMA BuildAppTexts ==
  ASSUME NEW t \in AppTexts
  PROVE  Upgraded(t) \in AppTexts /\ Aligned(t) \in AppTexts /\ WithEntry(t) \in AppTexts
<1>1. Upgraded(t) \in AppTexts
  BY DEF Upgraded, AppTexts
<1>2. Aligned(t) \in AppTexts
  BY DEF Aligned, AppTexts
<1>3. WithEntry(t) \in AppTexts
  <2>1. \A m \in {"default", "custom", "entry"}, a \in BOOLEAN :
           [t EXCEPT !.aligned = a, !.runtime = TRUE, !.main = m] \in AppTexts
    BY DEF AppTexts
  <2>2. (t.aligned /\ t.runtime) \in BOOLEAN
    BY Zenon
  <2>3. t.main \in {"default", "custom", "entry"}
    BY DEF AppTexts
  <2>4. QED
    BY <2>1, <2>2, <2>3 DEF WithEntry
<1>4. QED
  BY <1>1, <1>2, <1>3

\* A package that is not declared gets a version, another keeps its own.
LEMMA DeclaredVersions ==
  ASSUME NEW c \in Versions \cup {None}
  PROVE  Declared(c) \in Versions /\ Declared(c) # None
<1>1. Prisma5 \in Versions
  BY DEF Prisma5, Versions, Majors
<1>2. Declared(c) \in Versions
  BY <1>1 DEF Declared
<1>3. QED
  BY <1>2

\* detectPrismaMajor answers with a version, whatever it finds.
LEMMA MajorType ==
  ASSUME NEW t \in ServerTexts \cup {None}
  PROVE  Major(t) \in Majors
<1>1. \A c \in Versions : Number(c) \in Majors
  BY DEF Number, Versions, Majors
<1>2. ASSUME Readable(t), t.cli # None \/ t.client # None
      PROVE  (IF t.cli # None THEN t.cli ELSE t.client) \in Versions
  <2>1. t.cli \in Versions \cup {None} /\ t.client \in Versions \cup {None}
    BY <1>2 DEF ServerTexts, Readable
  <2>2. QED
    BY <1>2, <2>1
<1>3. 5 \in Majors
  BY DEF Majors
<1>4. QED
  BY <1>1, <1>2, <1>3 DEF Major

\* What a build makes of a text is a text of the same file.
LEMMA BuildTexts ==
  /\ \A t \in AppTexts \cup {None} :
        {Upgraded(t), WithEntry(t), Aligned(t)} \subseteq AppTexts \cup {None}
  /\ \A t \in ServerTexts : WithPrisma(t) \in ServerTexts
  /\ WithPrisma(None) = None
  /\ \A t \in SchemaTexts : Adapted(t) \in SchemaTexts
<1>1. ASSUME NEW t \in AppTexts \cup {None}
      PROVE  {Upgraded(t), WithEntry(t), Aligned(t)} \subseteq AppTexts \cup {None}
  <2>1. CASE t = None
    BY <2>1 DEF Upgraded, WithEntry, Aligned, Readable
  <2>2. CASE t \in AppTexts
    BY <2>2, BuildAppTexts
  <2>3. QED
    BY <2>1, <2>2
<1>2. ASSUME NEW t \in ServerTexts PROVE WithPrisma(t) \in ServerTexts
  <2>1. \A c \in Versions, d \in Versions :
           [t EXCEPT !.client = c, !.cli = d] \in ServerTexts
    BY DEF ServerTexts
  <2>2. Declared(t.client) \in Versions /\ Declared(t.cli) \in Versions
    BY DeclaredVersions DEF ServerTexts
  <2>3. QED
    BY <2>1, <2>2 DEF WithPrisma
<1>3. WithPrisma(None) = None
  BY DEF WithPrisma, Readable
<1>4. ASSUME NEW t \in SchemaTexts PROVE Adapted(t) \in SchemaTexts
  <2>1. \A u \in SUBSET {"env", "other", "literal"} : [t EXCEPT !.urls = u] \in SchemaTexts
    BY DEF SchemaTexts
  <2>2. t.urls \in SUBSET {"env", "other", "literal"}
    BY DEF SchemaTexts
  <2>3. QED
    BY <2>1, <2>2 DEF Adapted
<1>5. QED
  BY <1>1, <1>2, <1>3, <1>4

\* Writing a text of its file's kind leaves a directory one.
LEMMA WriteTypes ==
  ASSUME NEW d, Directory(d), NEW f \in Names, NEW t \in Texts(f) \cup {None}
  PROVE  Directory([d EXCEPT ![f] = t])
BY DEF Directory

\* What of a text a build keeps, and what it changes.
LEMMA BuildKeeps ==
  /\ \A t \in AppTexts \cup {None} :
        \A u \in {Upgraded(t), WithEntry(t), Aligned(t)} :
           /\ u = None <=> t = None
           /\ t # None => u.v = t.v /\ u.parses = t.parses
  /\ \A t \in AppTexts :
        /\ Upgraded(t).main = t.main /\ Aligned(t).main = t.main
        /\ t.parses => WithEntry(t).main = IF t.main = "default" /\ files["entry"] = None
                                           THEN "entry" ELSE t.main
        /\ Aligned(Aligned(t)) = Aligned(t)
  /\ WithPrisma(None) = None /\ Aligned(None) = None
  /\ \A t \in ServerTexts :
        /\ WithPrisma(t) # None
        /\ WithPrisma(t).v = t.v /\ WithPrisma(t).parses = t.parses
        /\ t.parses => WithPrisma(t).cli # None /\ WithPrisma(t).client # None
  /\ \A t \in SchemaTexts :
        Adapted(t) # None /\ Adapted(t).v = t.v /\ Adapted(t).urls = Urls(major, t)
<1>1. ASSUME NEW t \in AppTexts \cup {None}, NEW u \in {Upgraded(t), WithEntry(t), Aligned(t)}
      PROVE  /\ u = None <=> t = None
             /\ t # None => u.v = t.v /\ u.parses = t.parses
  <2>1. CASE t = None
    BY <2>1 DEF Upgraded, WithEntry, Aligned, Readable
  <2>2. CASE t \in AppTexts
    <3>1. t # None
      BY <2>2
    <3>2. /\ Upgraded(t).v = t.v /\ Upgraded(t).parses = t.parses
          /\ Aligned(t).v = t.v /\ Aligned(t).parses = t.parses
      BY <2>2 DEF Upgraded, Aligned, AppTexts
    <3>3. WithEntry(t).v = t.v /\ WithEntry(t).parses = t.parses
      BY <2>2 DEF WithEntry, AppTexts
    <3>4. /\ Upgraded(t) \in AppTexts /\ Aligned(t) \in AppTexts
      BY <2>2 DEF Upgraded, Aligned, AppTexts
    <3>5. WithEntry(t) # None
      BY <2>2, BuildAppTexts
    <3>6. QED
      BY <3>1, <3>2, <3>3, <3>4, <3>5
  <2>3. QED
    BY <2>1, <2>2
<1>2. ASSUME NEW t \in AppTexts
      PROVE  /\ Upgraded(t).main = t.main /\ Aligned(t).main = t.main
             /\ t.parses => WithEntry(t).main = IF t.main = "default" /\ files["entry"] = None
                                                THEN "entry" ELSE t.main
             /\ Aligned(Aligned(t)) = Aligned(t)
  BY DEF Upgraded, WithEntry, Aligned, Readable, AppTexts
<1>3. WithPrisma(None) = None /\ Aligned(None) = None
  BY DEF WithPrisma, Aligned, Readable
<1>4. ASSUME NEW t \in ServerTexts
      PROVE  /\ WithPrisma(t) # None
             /\ WithPrisma(t).v = t.v /\ WithPrisma(t).parses = t.parses
             /\ t.parses => WithPrisma(t).cli # None /\ WithPrisma(t).client # None
  <2>1. t # None /\ WithPrisma(t) # None
    BY BuildTexts
  <2>2. WithPrisma(t).v = t.v /\ WithPrisma(t).parses = t.parses
    BY DEF WithPrisma, ServerTexts
  <2>3. t.parses => WithPrisma(t).cli # None /\ WithPrisma(t).client # None
    <3>1. Declared(t.client) # None /\ Declared(t.cli) # None
      BY DeclaredVersions DEF ServerTexts
    <3>2. t.parses => /\ WithPrisma(t).client = Declared(t.client)
                      /\ WithPrisma(t).cli = Declared(t.cli)
      BY <2>1 DEF WithPrisma, Readable, ServerTexts
    <3>3. QED
      BY <3>1, <3>2
  <2>4. QED
    BY <2>1, <2>2, <2>3
<1>5. ASSUME NEW t \in SchemaTexts
      PROVE  Adapted(t) # None /\ Adapted(t).v = t.v /\ Adapted(t).urls = Urls(major, t)
  <2>1. Adapted(t) # None
    BY BuildTexts
  <2>2. Adapted(t).v = t.v /\ Adapted(t).urls = Urls(major, t)
    BY DEF Adapted, SchemaTexts, Urls
  <2>3. QED
    BY <2>1, <2>2
<1>6. QED
  BY <1>1, <1>2, <1>3, <1>4, <1>5

\* A text is neither nothing nor a file that the build makes.
LEMMA TextKinds ==
  \A t \in AppTexts \cup ServerTexts \cup SchemaTexts : t # None /\ t # Made
BY DEF AppTexts, ServerTexts, SchemaTexts, Made

\* What an author makes of a file is a text of its kind.
LEMMA EditedTexts ==
  ASSUME NEW f \in Names, NEW t \in Authored(f), NEW n \in Nat
  PROVE  /\ [t EXCEPT !.v = n] \in Texts(f)
         /\ [t EXCEPT !.v = n] # Made
         /\ [t EXCEPT !.v = n].v = n
<1>1. CASE f = "app"
  BY <1>1 DEF Authored, Texts, AppTexts, Made
<1>2. CASE f = "server"
  BY <1>2 DEF Authored, Texts, ServerTexts, Made
<1>3. CASE f = "schema"
  BY <1>3 DEF Authored, Texts, SchemaTexts, Made
<1>4. CASE f \in {"metro", "entry", "config"}
  BY <1>4 DEF Authored, Texts, PlainTexts, Made
<1>5. QED
  BY <1>1, <1>2, <1>3, <1>4

\* What a directory holds, file by file.
LEMMA DirectoryTypes ==
  ASSUME NEW d, Directory(d)
  PROVE  /\ d["app"] \in AppTexts \cup {None}
         /\ d["server"] \in ServerTexts \cup {None}
         /\ d["schema"] \in SchemaTexts \cup {None}
         /\ \A f \in {"metro", "entry", "config"} : d[f] \in PlainTexts \cup {Made, None}
BY DEF Directory, Texts

\* No step leaves the places.
LEMMA PlacesStep == LocalsOK /\ PlacesOK /\ [Next]_vars => PlacesOK'
<1> SUFFICES ASSUME LocalsOK, PlacesOK, [Next]_vars
             PROVE  PlacesOK'
  OBVIOUS
<1> USE DEF PlacesOK, Filled, Injected, Pointed, Configured, Container, Serving, Running,
   AppHeld, SchemaHeld, Read, WriteBack
<1>1. CASE Fetch
  BY <1>1 DEF Fetch
<1>2. CASE Fill
  BY <1>2 DEF Fill
<1>3. CASE ReadForSdk
  BY <1>3 DEF ReadForSdk
<1>4. CASE WriteSdk
  BY <1>4 DEF WriteSdk, Upgraded, Readable
<1>5. CASE Inject
  BY <1>5 DEF Inject
<1>6. CASE Verify
  BY <1>6 DEF Verify
<1>7. CASE ReadForMain
  BY <1>7 DEF ReadForMain
<1>8. CASE WriteMain
  BY <1>8 DEF WriteMain, WithEntry, Readable
<1>9. CASE ReadForDeps
  BY <1>9 DEF ReadForDeps
<1>10. CASE WriteDeps
  BY <1>10 DEF WriteDeps, WithPrisma, Readable
<1>11. CASE ReadForConfig
  BY <1>11 DEF ReadForConfig
<1>12. CASE Detect
  BY <1>12 DEF Detect
<1>13. CASE WriteSchema
  BY <1>13 DEF WriteSchema, Adapted
<1>14. CASE WriteConfig
  BY <1>14 DEF WriteConfig
<1>15. CASE ReadForAlign
  BY <1>15 DEF ReadForAlign
<1>16. CASE WriteAligned
  BY <1>16 DEF WriteAligned, Aligned, Readable
<1>17. CASE Install
  BY <1>17 DEF Install
<1>18. CASE InstallServer
  BY <1>18 DEF InstallServer
<1>19. CASE Push
  BY <1>19 DEF Push
<1>20. CASE ContainerFails
  BY <1>20 DEF ContainerFails, InContainer
<1>21. CASE Stop
  BY <1>21 DEF Stop
<1>22. CASE Edit
  BY <1>22 DEF Edit, NoEdit
<1>23. CASE CheckPreview
  <2>1. PICK b : edit' = NoEdit \/ edit' = [edit EXCEPT !.checked = TRUE, !.ready = b]
    BY <1>23, Zenon DEF CheckPreview
  <2>2. edit.file # None
    BY <1>23, Zenon DEF CheckPreview
  <2>3. edit \in [file : Names \cup {None}, checked : BOOLEAN, ready : BOOLEAN]
    BY Zenon DEF LocalsOK
  <2>4. NoEdit.checked = FALSE
    BY DEF NoEdit
  <2>5. edit'.checked => edit'.file # None
    BY <2>1, <2>2, <2>3, <2>4
  <2>6. QED
    BY <1>23, <2>5 DEF CheckPreview
<1>24. CASE CopyEdit
  BY <1>24 DEF CopyEdit, NoEdit
<1>25. CASE RunCommand
  BY <1>25 DEF RunCommand, InContainer, Special
<1>26. CASE UNCHANGED vars
  BY <1>26 DEF vars
<1>27. QED
  BY <1>1, <1>2, <1>3, <1>4, <1>5, <1>6, <1>7, <1>8, <1>9, <1>10, <1>11, <1>12, <1>13,
     <1>14, <1>15, <1>16, <1>17, <1>18, <1>19, <1>20, <1>21, <1>22, <1>23, <1>24, <1>25,
     <1>26 DEF Next, Build

\* No step leaves the types of what is not a file.
LEMMA LocalsStep == FilesOK /\ LocalsOK /\ PlacesOK /\ [Next]_vars => LocalsOK'
<1> SUFFICES ASSUME FilesOK, LocalsOK, PlacesOK, [Next]_vars
             PROVE  LocalsOK'
  OBVIOUS
<1> USE DEF LocalsOK, Labels, Read, WriteBack
<1>1. CASE Fetch
  BY <1>1 DEF Fetch
<1>2. CASE Fill
  BY <1>2 DEF Fill
<1>3. CASE ReadForSdk
  BY <1>3 DEF ReadForSdk
<1>4. CASE WriteSdk
  BY <1>4 DEF WriteSdk, Upgraded, Readable
<1>5. CASE Inject
  BY <1>5 DEF Inject
<1>6. CASE Verify
  BY <1>6 DEF Verify
<1>7. CASE ReadForMain
  BY <1>7 DEF ReadForMain
<1>8. CASE WriteMain
  BY <1>8 DEF WriteMain, WithEntry, Readable
<1>9. CASE ReadForDeps
  BY <1>9 DEF ReadForDeps
<1>10. CASE WriteDeps
  BY <1>10 DEF WriteDeps, WithPrisma, Readable
<1>11. CASE ReadForConfig
  BY <1>11 DEF ReadForConfig
<1>12. CASE Detect
  <2>1. Major(disk["server"]) \in Majors
    BY DirectoryTypes, MajorType DEF FilesOK
  <2>2. QED
    BY <1>12, <2>1 DEF Detect
<1>13. CASE WriteSchema
  BY <1>13 DEF WriteSchema, Adapted
<1>14. CASE WriteConfig
  BY <1>14 DEF WriteConfig
<1>15. CASE ReadForAlign
  BY <1>15 DEF ReadForAlign
<1>16. CASE WriteAligned
  BY <1>16 DEF WriteAligned, Aligned, Readable
<1>17. CASE Install
  BY <1>17 DEF Install
<1>18. CASE InstallServer
  BY <1>18 DEF InstallServer
<1>19. CASE Push
  BY <1>19 DEF Push
<1>20. CASE ContainerFails
  BY <1>20 DEF ContainerFails, InContainer
<1>21. CASE Stop
  BY <1>21 DEF Stop
<1>22. CASE Edit
  <2>1. edit' \in [file : Names \cup {None}, checked : BOOLEAN, ready : BOOLEAN]
    BY <1>22 DEF Edit, NoEdit
  <2>2. QED
    BY <1>22, <2>1 DEF Edit
<1>23. CASE CheckPreview
  <2>1. \A b \in BOOLEAN : [edit EXCEPT !.checked = TRUE, !.ready = b]
           \in [file : Names \cup {None}, checked : BOOLEAN, ready : BOOLEAN]
    BY DEF LocalsOK
  <2>2. (pc = "up") \in BOOLEAN
    BY Zenon
  <2>3. NoEdit \in [file : Names \cup {None}, checked : BOOLEAN, ready : BOOLEAN]
    BY DEF NoEdit
  <2>4. edit' \in [file : Names \cup {None}, checked : BOOLEAN, ready : BOOLEAN]
    BY <1>23, <2>1, <2>2, <2>3, Zenon DEF CheckPreview
  <2>5. QED
    BY <1>23, <2>4 DEF CheckPreview
<1>24. CASE CopyEdit
  BY <1>24 DEF CopyEdit, NoEdit, HasCommand, Special, PlacesOK
<1>25. CASE RunCommand
  BY <1>25, ZenonT(40) DEF RunCommand, InContainer, Special
<1>26. CASE UNCHANGED vars
  BY <1>26 DEF vars
<1>27. QED
  BY <1>1, <1>2, <1>3, <1>4, <1>5, <1>6, <1>7, <1>8, <1>9, <1>10, <1>11, <1>12, <1>13,
     <1>14, <1>15, <1>16, <1>17, <1>18, <1>19, <1>20, <1>21, <1>22, <1>23, <1>24, <1>25,
     <1>26 DEF Next, Build

\* No step leaves the types of the text held.
LEMMA HeldStep == FilesOK /\ HeldOK /\ PlacesOK /\ [Next]_vars => HeldOK'
<1> SUFFICES ASSUME FilesOK, HeldOK, PlacesOK, [Next]_vars
             PROVE  HeldOK'
  OBVIOUS
<1> USE DEF FilesOK, HeldOK, PlacesOK, AppHeld, SchemaHeld, Read, WriteBack
<1>1. CASE Fetch
  BY <1>1 DEF Fetch
<1>2. CASE Fill
  BY <1>2 DEF Fill
<1>3. CASE ReadForSdk
  BY <1>3, DirectoryTypes DEF ReadForSdk
<1>4. CASE WriteSdk
  BY <1>4 DEF WriteSdk, Upgraded, Readable
<1>5. CASE Inject
  BY <1>5 DEF Inject
<1>6. CASE Verify
  BY <1>6 DEF Verify
<1>7. CASE ReadForMain
  BY <1>7, DirectoryTypes DEF ReadForMain
<1>8. CASE WriteMain
  BY <1>8 DEF WriteMain, WithEntry, Readable
<1>9. CASE ReadForDeps
  BY <1>9, DirectoryTypes DEF ReadForDeps
<1>10. CASE WriteDeps
  BY <1>10 DEF WriteDeps, WithPrisma, Readable
<1>11. CASE ReadForConfig
  BY <1>11, DirectoryTypes DEF ReadForConfig
<1>12. CASE Detect
  BY <1>12 DEF Detect
<1>13. CASE WriteSchema
  BY <1>13 DEF WriteSchema, Adapted
<1>14. CASE WriteConfig
  BY <1>14 DEF WriteConfig
<1>15. CASE ReadForAlign
  BY <1>15, DirectoryTypes DEF ReadForAlign
<1>16. CASE WriteAligned
  BY <1>16 DEF WriteAligned, Aligned, Readable
<1>17. CASE Install
  BY <1>17 DEF Install
<1>18. CASE InstallServer
  BY <1>18 DEF InstallServer
<1>19. CASE Push
  BY <1>19 DEF Push
<1>20. CASE ContainerFails
  BY <1>20 DEF ContainerFails, InContainer
<1>21. CASE Stop
  BY <1>21 DEF Stop
<1>22. CASE Edit
  BY <1>22 DEF Edit
<1>23. CASE CheckPreview
  BY <1>23 DEF CheckPreview
<1>24. CASE CopyEdit
  BY <1>24 DEF CopyEdit
<1>25. CASE RunCommand
  BY <1>25 DEF RunCommand, InContainer, Special
<1>26. CASE UNCHANGED vars
  BY <1>26 DEF vars
<1>27. QED
  BY <1>1, <1>2, <1>3, <1>4, <1>5, <1>6, <1>7, <1>8, <1>9, <1>10, <1>11, <1>12, <1>13,
     <1>14, <1>15, <1>16, <1>17, <1>18, <1>19, <1>20, <1>21, <1>22, <1>23, <1>24, <1>25,
     <1>26 DEF Next, Build

\* No step leaves the types of what is installed.
LEMMA InstalledStep == FilesOK /\ InstalledOK /\ LocalsOK /\ [Next]_vars => InstalledOK'
<1> SUFFICES ASSUME FilesOK, InstalledOK, LocalsOK, [Next]_vars
             PROVE  InstalledOK'
  OBVIOUS
<1> USE DEF InstalledOK
<1>1. CASE Fetch
  BY <1>1 DEF Fetch
<1>2. CASE Fill
  BY <1>2 DEF Fill, NotInstalled
<1>3. CASE ReadForSdk
  BY <1>3 DEF ReadForSdk
<1>4. CASE WriteSdk
  BY <1>4 DEF WriteSdk, Upgraded, Readable
<1>5. CASE Inject
  BY <1>5 DEF Inject
<1>6. CASE Verify
  BY <1>6 DEF Verify
<1>7. CASE ReadForMain
  BY <1>7 DEF ReadForMain
<1>8. CASE WriteMain
  BY <1>8 DEF WriteMain, WithEntry, Readable
<1>9. CASE ReadForDeps
  BY <1>9 DEF ReadForDeps
<1>10. CASE WriteDeps
  BY <1>10 DEF WriteDeps, WithPrisma, Readable
<1>11. CASE ReadForConfig
  BY <1>11 DEF ReadForConfig
<1>12. CASE Detect
  BY <1>12 DEF Detect
<1>13. CASE WriteSchema
  BY <1>13 DEF WriteSchema, Adapted
<1>14. CASE WriteConfig
  BY <1>14 DEF WriteConfig
<1>15. CASE ReadForAlign
  BY <1>15 DEF ReadForAlign
<1>16. CASE WriteAligned
  BY <1>16 DEF WriteAligned, Aligned, Readable
<1>17. CASE Install
  BY <1>17, DirectoryTypes DEF Install, FilesOK, Readable
<1>18. CASE InstallServer
  BY <1>18, DirectoryTypes DEF InstallServer, FilesOK, Readable
<1>19. CASE Push
  BY <1>19, DirectoryTypes DEF Push, FilesOK
<1>20. CASE ContainerFails
  BY <1>20 DEF ContainerFails, InContainer
<1>21. CASE Stop
  BY <1>21 DEF Stop
<1>22. CASE Edit
  BY <1>22 DEF Edit
<1>23. CASE CheckPreview
  BY <1>23 DEF CheckPreview
<1>24. CASE CopyEdit
  BY <1>24 DEF CopyEdit
<1>25. CASE RunCommand
  BY <1>25, DirectoryTypes DEF RunCommand, InContainer, Special, FilesOK, LocalsOK
<1>26. CASE UNCHANGED vars
  BY <1>26 DEF vars
<1>27. QED
  BY <1>1, <1>2, <1>3, <1>4, <1>5, <1>6, <1>7, <1>8, <1>9, <1>10, <1>11, <1>12, <1>13,
     <1>14, <1>15, <1>16, <1>17, <1>18, <1>19, <1>20, <1>21, <1>22, <1>23, <1>24, <1>25,
     <1>26 DEF Next, Build

\* No step leaves the types of the files.
LEMMA FilesStep == FilesOK /\ HeldOK /\ LocalsOK /\ PlacesOK /\ [Next]_vars => FilesOK'
<1> SUFFICES ASSUME FilesOK, HeldOK, LocalsOK, PlacesOK, [Next]_vars
             PROVE  FilesOK'
  OBVIOUS
<1>1. CASE Fetch
  BY <1>1 DEF Fetch, FilesOK
<1>2. CASE Fill
  BY <1>2 DEF Fill, FilesOK, Project
<1>3. CASE ReadForSdk
  BY <1>3 DEF ReadForSdk, FilesOK
<1>4. CASE WriteSdk
  <2>1. Directory(disk')
    <3>1. disk' = disk \/ disk' = [disk EXCEPT !["app"] = Upgraded(held)]
      BY <1>4 DEF WriteSdk, WriteBack
    <3>2. Upgraded(held) \in Texts("app") \cup {None}
      BY <1>4, BuildTexts DEF WriteSdk, HeldOK, AppHeld, SchemaHeld, Texts
    <3>3. QED
      BY <3>1, <3>2, WriteTypes DEF FilesOK
  <2>2. QED
    BY <1>4, <2>1 DEF WriteSdk, FilesOK, PlacesOK, Filled, Injected, Pointed, Configured,
       Container, Serving
<1>5. CASE Inject
  <2>1. Directory(disk')
    BY <1>5 DEF Inject, FilesOK, Directory, Texts
  <2>2. QED
    BY <1>5, <2>1 DEF Inject, FilesOK, PlacesOK, Filled, Injected
<1>6. CASE Verify
  BY <1>6 DEF Verify, FilesOK
<1>7. CASE ReadForMain
  BY <1>7 DEF ReadForMain, FilesOK
<1>8. CASE WriteMain
  <2>1. Directory(disk')
    <3>1. disk' = disk \/ disk' = [disk EXCEPT !["app"] = WithEntry(held)]
      BY <1>8 DEF WriteMain, WriteBack
    <3>2. WithEntry(held) \in Texts("app") \cup {None}
      BY <1>8, BuildTexts DEF WriteMain, HeldOK, AppHeld, SchemaHeld, Texts
    <3>3. QED
      BY <3>1, <3>2, WriteTypes DEF FilesOK
  <2>2. QED
    BY <1>8, <2>1 DEF WriteMain, FilesOK, PlacesOK, Filled, Injected, Pointed, Configured,
       Container, Serving
<1>9. CASE ReadForDeps
  BY <1>9 DEF ReadForDeps, FilesOK
<1>10. CASE WriteDeps
  <2>1. Directory(disk')
    <3>1. disk' = disk \/ disk' = [disk EXCEPT !["server"] = WithPrisma(held)]
      BY <1>10 DEF WriteDeps, WriteBack
    <3>2. WithPrisma(held) \in Texts("server") \cup {None}
      BY <1>10, BuildTexts DEF WriteDeps, HeldOK, AppHeld, SchemaHeld, Texts
    <3>3. QED
      BY <3>1, <3>2, WriteTypes DEF FilesOK
  <2>2. QED
    BY <1>10, <2>1 DEF WriteDeps, FilesOK, PlacesOK, Filled, Injected, Pointed,
       Configured, Container, Serving
<1>11. CASE ReadForConfig
  BY <1>11 DEF ReadForConfig, FilesOK
<1>12. CASE Detect
  BY <1>12 DEF Detect, FilesOK
<1>13. CASE WriteSchema
  <2>1. Directory(disk')
    <3>1. disk' = disk \/ disk' = [disk EXCEPT !["schema"] = Adapted(held)]
      BY <1>13 DEF WriteSchema, WriteBack
    <3>2. Adapted(held) \in Texts("schema") \cup {None}
      BY <1>13, BuildTexts DEF WriteSchema, HeldOK, AppHeld, SchemaHeld, Texts
    <3>3. QED
      BY <3>1, <3>2, WriteTypes DEF FilesOK
  <2>2. QED
    BY <1>13, <2>1 DEF WriteSchema, FilesOK, PlacesOK, Filled, Injected, Pointed,
       Configured, Container, Serving
<1>14. CASE WriteConfig
  <2>1. Directory(disk')
    BY <1>14 DEF WriteConfig, FilesOK, Directory, Texts
  <2>2. QED
    BY <1>14, <2>1 DEF WriteConfig, FilesOK, PlacesOK, Filled, Injected, Pointed, Configured
<1>15. CASE ReadForAlign
  BY <1>15 DEF ReadForAlign, FilesOK
<1>16. CASE WriteAligned
  <2>1. Directory(disk')
    <3>1. disk' = disk \/ disk' = [disk EXCEPT !["app"] = Aligned(held)]
      BY <1>16 DEF WriteAligned, WriteBack
    <3>2. Aligned(held) \in Texts("app") \cup {None}
      BY <1>16, BuildTexts DEF WriteAligned, HeldOK, AppHeld, SchemaHeld, Texts
    <3>3. QED
      BY <3>1, <3>2, WriteTypes DEF FilesOK
  <2>2. QED
    BY <1>16, <2>1 DEF WriteAligned, FilesOK, PlacesOK, Filled, Injected, Pointed,
       Configured, Container, Serving
<1>17. CASE Install
  BY <1>17 DEF Install, FilesOK
<1>18. CASE InstallServer
  BY <1>18 DEF InstallServer, FilesOK
<1>19. CASE Push
  BY <1>19 DEF Push, FilesOK
<1>20. CASE ContainerFails
  BY <1>20 DEF ContainerFails, InContainer, FilesOK
<1>21. CASE Stop
  <2>1. Directory(disk')
    BY <1>21 DEF Stop, NoFiles, Directory
  <2>2. QED
    BY <1>21, <2>1 DEF Stop, FilesOK, NoFiles
<1>22. CASE Edit
  <2>1. Project(source')
    <3>1. PICK f \in Names : \E t \in Texts(f) \cup {None} :
             t # Made /\ source' = [source EXCEPT ![f] = t]
      <4>1. PICK f \in Names :
               \/ \E t \in Authored(f) : source' = [source EXCEPT ![f] = [t EXCEPT !.v = edits + 1]]
               \/ source' = [source EXCEPT ![f] = None]
        BY <1>22, Zenon DEF Edit
      <4>2. CASE source' = [source EXCEPT ![f] = None]
        BY <4>2
      <4>3. ASSUME NEW t \in Authored(f),
                   source' = [source EXCEPT ![f] = [t EXCEPT !.v = edits + 1]]
            PROVE  \E u \in Texts(f) \cup {None} :
                      u # Made /\ source' = [source EXCEPT ![f] = u]
        <5>1. edits + 1 \in Nat
          BY DEF LocalsOK
        <5>2. [t EXCEPT !.v = edits + 1] \in Texts(f) /\ [t EXCEPT !.v = edits + 1] # Made
          BY <4>3, <5>1, EditedTexts
        <5>3. QED
          BY <4>3, <5>2, Zenon
      <4>4. QED
        BY <4>1, <4>2, <4>3, Zenon
    <3>2. QED
      BY <3>1, ZenonT(40) DEF FilesOK, Project, Directory
  <2>2. QED
    BY <1>22, <2>1 DEF Edit, FilesOK
<1>23. CASE CheckPreview
  BY <1>23 DEF CheckPreview, FilesOK
<1>24. CASE CopyEdit
  <2>1. edit.file \in Names
    BY <1>24 DEF CopyEdit, LocalsOK, PlacesOK
  <2>2. source[edit.file] \in Texts(edit.file) \cup {None}
    BY <2>1 DEF FilesOK, Project, Directory
  <2>3. Directory(disk')
    BY <1>24, <2>1, <2>2, WriteTypes DEF CopyEdit, FilesOK
  <2>4. QED
    BY <1>24, <2>1, <2>3 DEF CopyEdit, FilesOK, LocalsOK, Directory
<1>25. CASE RunCommand
  BY <1>25 DEF RunCommand, InContainer, Special, FilesOK
<1>26. CASE UNCHANGED vars
  BY <1>26 DEF vars, FilesOK
<1>27. QED
  BY <1>1, <1>2, <1>3, <1>4, <1>5, <1>6, <1>7, <1>8, <1>9, <1>10, <1>11, <1>12, <1>13,
     <1>14, <1>15, <1>16, <1>17, <1>18, <1>19, <1>20, <1>21, <1>22, <1>23, <1>24, <1>25,
     <1>26 DEF Next, Build

\* No step leaves the reach of the edits.
LEMMA ReachStep ==
  FilesOK /\ HeldOK /\ LocalsOK /\ PlacesOK /\ ReachOK /\ [Next]_vars => ReachOK'
<1> SUFFICES ASSUME FilesOK, HeldOK, LocalsOK, PlacesOK, ReachOK, [Next]_vars
             PROVE  ReachOK'
  OBVIOUS
<1>1. CASE Fetch
  BY <1>1 DEF Fetch, ReachOK, PlacesOK, Settled, Same, Read, FilesOK, Project, Directory,
     Filled, Injected, Pointed, Configured, Container, Serving, Running, AppHeld, SchemaHeld
<1>2. CASE Fill
  BY <1>2 DEF Fill, ReachOK, PlacesOK, Settled, Same, Read, FilesOK, Project, Directory,
     Filled, Injected, Pointed, Configured, Container, Serving, Running, AppHeld, SchemaHeld
<1>3. CASE ReadForSdk
  BY <1>3 DEF ReadForSdk, ReachOK, PlacesOK, Settled, Same, Read, FilesOK, Project,
     Directory, Filled, Injected, Pointed, Configured, Container, Serving, Running,
     AppHeld, SchemaHeld
<1>4. CASE WriteSdk
  <2>1. held # None => /\ held # Made /\ Upgraded(held) \notin {None, Made}
                        /\ Upgraded(held).v = held.v
    BY <1>4, BuildTexts, BuildKeeps, TextKinds DEF WriteSdk, HeldOK, AppHeld, SchemaHeld
  <2>2. disk' = disk \/ (held # None /\ disk' = [disk EXCEPT !["app"] = Upgraded(held)])
    BY <1>4, BuildTexts, BuildKeeps DEF WriteSdk, WriteBack, HeldOK, AppHeld, SchemaHeld
  <2>3. Settled("app") => disk' = disk \/ Same(disk'["app"], source["app"])
    <3>1. disk' = disk \/ (held # None /\ disk'["app"] = Upgraded(held))
      BY <2>2 DEF FilesOK, Directory
    <3>2. Settled("app") => held = None \/ Same(held, source["app"])
      BY <1>4 DEF WriteSdk, ReachOK, AppHeld, SchemaHeld
    <3>3. QED
      BY <2>1, <3>1, <3>2 DEF Same
  <2>4. \A f \in Names \ {"app"} : disk'[f] = disk[f]
    BY <2>2 DEF FilesOK, Directory
  <2>5. \A f \in Names \ {"config"} : Settled(f) => Same(disk'[f], source[f])
    BY <1>4, <2>3, <2>4 DEF WriteSdk, ReachOK, Filled, Injected, Pointed, Configured,
       Container, Serving
  <2>6. QED
    BY <1>4, <2>5 DEF WriteSdk, ReachOK, Settled, AppHeld, SchemaHeld
<1>5. CASE Inject
  <2>1. \A f \in {"metro", "entry"} : 
           \/ disk'[f] = disk[f]
           \/ disk'[f] = Made /\ files["metro"] = None /\ files[f] = None
    BY <1>5, ZenonT(40) DEF Inject, FilesOK, Directory
  <2>2. \A f \in Names \ {"metro", "entry"} : disk'[f] = disk[f]
    BY <1>5 DEF Inject, FilesOK, Directory
  <2>3. \A f \in Names \ {"config"} : Settled(f) => Same(disk[f], source[f])
    BY <1>5 DEF Inject, ReachOK, Filled, Injected
  <2>4. \A f \in {"metro", "entry"} : Settled(f) => Same(disk'[f], source[f])
    BY <1>5, <2>1, <2>3 DEF Inject, ReachOK, Same
  <2>5. \A f \in Names \ {"config"} : Settled(f) => Same(disk'[f], source[f])
    BY <2>2, <2>3, <2>4
  <2>6. QED
    BY <1>5, <2>5 DEF Inject, ReachOK, Settled, AppHeld, SchemaHeld
<1>6. CASE Verify
  BY <1>6 DEF Verify, ReachOK, PlacesOK, Settled, Same, Read, FilesOK, Project, Directory,
     Filled, Injected, Pointed, Configured, Container, Serving, Running, AppHeld, SchemaHeld
<1>7. CASE ReadForMain
  BY <1>7 DEF ReadForMain, ReachOK, PlacesOK, Settled, Same, Read, FilesOK, Project,
     Directory, Filled, Injected, Pointed, Configured, Container, Serving, Running,
     AppHeld, SchemaHeld
<1>8. CASE WriteMain
  <2>1. held # None => /\ held # Made /\ WithEntry(held) \notin {None, Made}
                        /\ WithEntry(held).v = held.v
    BY <1>8, BuildTexts, BuildKeeps, TextKinds DEF WriteMain, HeldOK, AppHeld, SchemaHeld
  <2>2. disk' = disk \/ (held # None /\ disk' = [disk EXCEPT !["app"] = WithEntry(held)])
    BY <1>8, BuildTexts, BuildKeeps DEF WriteMain, WriteBack, HeldOK, AppHeld, SchemaHeld
  <2>3. Settled("app") => disk' = disk \/ Same(disk'["app"], source["app"])
    <3>1. disk' = disk \/ (held # None /\ disk'["app"] = WithEntry(held))
      BY <2>2 DEF FilesOK, Directory
    <3>2. Settled("app") => held = None \/ Same(held, source["app"])
      BY <1>8 DEF WriteMain, ReachOK, AppHeld, SchemaHeld
    <3>3. QED
      BY <2>1, <3>1, <3>2 DEF Same
  <2>4. \A f \in Names \ {"app"} : disk'[f] = disk[f]
    BY <2>2 DEF FilesOK, Directory
  <2>5. \A f \in Names \ {"config"} : Settled(f) => Same(disk'[f], source[f])
    BY <1>8, <2>3, <2>4 DEF WriteMain, ReachOK, Filled, Injected, Pointed, Configured,
       Container, Serving
  <2>6. QED
    BY <1>8, <2>5 DEF WriteMain, ReachOK, Settled, AppHeld, SchemaHeld
<1>9. CASE ReadForDeps
  BY <1>9 DEF ReadForDeps, ReachOK, PlacesOK, Settled, Same, Read, FilesOK, Project,
     Directory, Filled, Injected, Pointed, Configured, Container, Serving, Running,
     AppHeld, SchemaHeld
<1>10. CASE WriteDeps
  <2>1. held # None => /\ held # Made /\ WithPrisma(held) \notin {None, Made}
                        /\ WithPrisma(held).v = held.v
    BY <1>10, BuildTexts, BuildKeeps, TextKinds DEF WriteDeps, HeldOK, AppHeld, SchemaHeld
  <2>2. disk' = disk \/ (held # None /\ disk' = [disk EXCEPT !["server"] = WithPrisma(held)])
    BY <1>10, BuildTexts, BuildKeeps DEF WriteDeps, WriteBack, HeldOK, AppHeld, SchemaHeld
  <2>3. Settled("server") => disk' = disk \/ Same(disk'["server"], source["server"])
    <3>1. disk' = disk \/ (held # None /\ disk'["server"] = WithPrisma(held))
      BY <2>2 DEF FilesOK, Directory
    <3>2. Settled("server") => held = None \/ Same(held, source["server"])
      BY <1>10 DEF WriteDeps, ReachOK, AppHeld, SchemaHeld
    <3>3. QED
      BY <2>1, <3>1, <3>2 DEF Same
  <2>4. \A f \in Names \ {"server"} : disk'[f] = disk[f]
    BY <2>2 DEF FilesOK, Directory
  <2>5. \A f \in Names \ {"config"} : Settled(f) => Same(disk'[f], source[f])
    BY <1>10, <2>3, <2>4 DEF WriteDeps, ReachOK, Filled, Injected, Pointed, Configured,
       Container, Serving
  <2>6. QED
    BY <1>10, <2>5 DEF WriteDeps, ReachOK, Settled, AppHeld, SchemaHeld
<1>11. CASE ReadForConfig
  BY <1>11 DEF ReadForConfig, ReachOK, PlacesOK, Settled, Same, Read, FilesOK, Project,
     Directory, Filled, Injected, Pointed, Configured, Container, Serving, Running,
     AppHeld, SchemaHeld
<1>12. CASE Detect
  BY <1>12 DEF Detect, ReachOK, PlacesOK, Settled, Same, Read, FilesOK, Project,
     Directory, Filled, Injected, Pointed, Configured, Container, Serving, Running,
     AppHeld, SchemaHeld
<1>13. CASE WriteSchema
  <2>1. held # None => /\ held # Made /\ Adapted(held) \notin {None, Made}
                        /\ Adapted(held).v = held.v
    BY <1>13, BuildTexts, BuildKeeps, TextKinds DEF WriteSchema, HeldOK, AppHeld, SchemaHeld
  <2>2. disk' = disk \/ (held # None /\ disk' = [disk EXCEPT !["schema"] = Adapted(held)])
    BY <1>13, BuildTexts, BuildKeeps DEF WriteSchema, WriteBack, HeldOK, AppHeld, SchemaHeld
  <2>3. Settled("schema") => disk' = disk \/ Same(disk'["schema"], source["schema"])
    <3>1. disk' = disk \/ (held # None /\ disk'["schema"] = Adapted(held))
      BY <2>2 DEF FilesOK, Directory
    <3>2. Settled("schema") => held = None \/ Same(held, source["schema"])
      BY <1>13 DEF WriteSchema, ReachOK, AppHeld, SchemaHeld
    <3>3. QED
      BY <2>1, <3>1, <3>2 DEF Same
  <2>4. \A f \in Names \ {"schema"} : disk'[f] = disk[f]
    BY <2>2 DEF FilesOK, Directory
  <2>5. \A f \in Names \ {"config"} : Settled(f) => Same(disk'[f], source[f])
    BY <1>13, <2>3, <2>4 DEF WriteSchema, ReachOK, Filled, Injected, Pointed, Configured,
       Container, Serving
  <2>6. QED
    BY <1>13, <2>5 DEF WriteSchema, ReachOK, Settled, AppHeld, SchemaHeld
<1>14. CASE WriteConfig
  BY <1>14 DEF WriteConfig, ReachOK, PlacesOK, Settled, Same, Read, FilesOK, Project,
     Directory, Filled, Injected, Pointed, Configured, Container, Serving, Running,
     AppHeld, SchemaHeld
<1>15. CASE ReadForAlign
  BY <1>15 DEF ReadForAlign, ReachOK, PlacesOK, Settled, Same, Read, FilesOK, Project,
     Directory, Filled, Injected, Pointed, Configured, Container, Serving, Running,
     AppHeld, SchemaHeld
<1>16. CASE WriteAligned
  <2>1. held # None => /\ held # Made /\ Aligned(held) \notin {None, Made}
                        /\ Aligned(held).v = held.v
    BY <1>16, BuildTexts, BuildKeeps, TextKinds DEF WriteAligned, HeldOK, AppHeld,
       SchemaHeld
  <2>2. disk' = disk \/ (held # None /\ disk' = [disk EXCEPT !["app"] = Aligned(held)])
    BY <1>16, BuildTexts, BuildKeeps DEF WriteAligned, WriteBack, HeldOK, AppHeld,
       SchemaHeld
  <2>3. Settled("app") => disk' = disk \/ Same(disk'["app"], source["app"])
    <3>1. disk' = disk \/ (held # None /\ disk'["app"] = Aligned(held))
      BY <2>2 DEF FilesOK, Directory
    <3>2. Settled("app") => held = None \/ Same(held, source["app"])
      BY <1>16 DEF WriteAligned, ReachOK, AppHeld, SchemaHeld
    <3>3. QED
      BY <2>1, <3>1, <3>2 DEF Same
  <2>4. \A f \in Names \ {"app"} : disk'[f] = disk[f]
    BY <2>2 DEF FilesOK, Directory
  <2>5. \A f \in Names \ {"config"} : Settled(f) => Same(disk'[f], source[f])
    BY <1>16, <2>3, <2>4 DEF WriteAligned, ReachOK, Filled, Injected, Pointed, Configured,
       Container, Serving
  <2>6. QED
    BY <1>16, <2>5 DEF WriteAligned, ReachOK, Settled, AppHeld, SchemaHeld
<1>17. CASE Install
  BY <1>17 DEF Install, ReachOK, PlacesOK, Settled, Same, Read, FilesOK, Project,
     Directory, Filled, Injected, Pointed, Configured, Container, Serving, Running,
     AppHeld, SchemaHeld
<1>18. CASE InstallServer
  BY <1>18 DEF InstallServer, ReachOK, PlacesOK, Settled, Same, Read, FilesOK, Project,
     Directory, Filled, Injected, Pointed, Configured, Container, Serving, Running,
     AppHeld, SchemaHeld
<1>19. CASE Push
  BY <1>19 DEF Push, ReachOK, PlacesOK, Settled, Same, Read, FilesOK, Project, Directory,
     Filled, Injected, Pointed, Configured, Container, Serving, Running, AppHeld, SchemaHeld
<1>20. CASE ContainerFails
  BY <1>20 DEF ContainerFails, InContainer, ReachOK, PlacesOK, Settled, Same, Read,
     FilesOK, Project, Directory, Filled, Injected, Pointed, Configured, Container,
     Serving, Running, AppHeld, SchemaHeld
<1>21. CASE Stop
  BY <1>21 DEF Stop, ReachOK, PlacesOK, Settled, Same, Read, FilesOK, Project, Directory,
     Filled, Injected, Pointed, Configured, Container, Serving, Running, AppHeld, SchemaHeld
<1>22. CASE Edit
  <2>1. \A f \in Names : Settled(f)' => Settled(f) /\ source'[f] = source[f]
    <3>1. PICK f \in Names : /\ \E t : source' = [source EXCEPT ![f] = t]
                            /\ edit' = [NoEdit EXCEPT !.file = f]
      BY <1>22, Zenon DEF Edit
    <3>2. \A g \in Names \ {f} : source'[g] = source[g]
      BY <3>1 DEF FilesOK, Project, Directory
    <3>3. edit'.file = f /\ edit.file = None /\ lost' = lost
      BY <1>22, <3>1 DEF Edit, NoEdit
    <3>4. QED
      BY <3>2, <3>3 DEF Settled
  <2>2. QED
    BY <1>22, <2>1 DEF Edit, ReachOK
<1>23. CASE CheckPreview
  <2>1. CASE dir
    <3>1. edit'.file = edit.file /\ lost' = lost
      BY <1>23, <2>1, ZenonT(40) DEF CheckPreview, LocalsOK
    <3>2. \A f \in Names : Settled(f)' => Settled(f)
      BY <3>1 DEF Settled
    <3>3. QED
      BY <1>23, <3>2 DEF CheckPreview, ReachOK
  <2>2. CASE ~dir
    <3>1. pc \notin Filled
      BY <2>2 DEF PlacesOK
    <3>2. ASSUME NEW f \in Names, pc = "fetched", Settled(f)' PROVE files[f] = source[f]
      BY <1>23, <2>2, <3>2 DEF CheckPreview, ReachOK, Settled, Outdated
    <3>3. QED
      BY <1>23, <3>1, <3>2 DEF CheckPreview, ReachOK, Filled, Injected, Pointed,
         Configured, Container, Serving, Running, AppHeld, SchemaHeld
  <2>3. QED
    BY <2>1, <2>2
<1>24. CASE CopyEdit
  <2>1. /\ edit.file \in Names /\ disk' = [disk EXCEPT ![edit.file] = source[edit.file]]
        /\ UNCHANGED <<source, files, pc, held>>
        /\ edit'.file = None
    BY <1>24 DEF CopyEdit, LocalsOK, PlacesOK, NoEdit
  <2>2. \A f \in Names : Settled(f)' /\ f # edit.file => Settled(f) /\ disk'[f] = disk[f]
    BY <1>24, <2>1 DEF CopyEdit, Settled, FilesOK, Directory
  <2>3. edit.file \notin lost' => ~Outdated(edit.file) /\ ~Overwriting(edit.file)
    BY <1>24 DEF CopyEdit
  <2>4. \A f \in Names : Same(source[f], source[f])
    BY DEF Same, FilesOK, Project
  <2>5. disk'[edit.file] = source[edit.file]
    BY <2>1 DEF FilesOK, Directory
  <2>6. pc = "fetched" => \A f \in Names : Settled(f)' => files[f] = source[f]
    BY <2>1, <2>2, <2>3 DEF ReachOK, Outdated, Settled
  <2>7. pc \in Filled => \A f \in Names \ {"config"} : Settled(f)' => Same(disk'[f], source[f])
    BY <2>1, <2>2, <2>4, <2>5 DEF ReachOK
  <2>8. /\ pc \in AppHeld /\ Settled("app")' => held = None \/ Same(held, source["app"])
        /\ pc = "depsWrite" /\ Settled("server")' => held = None \/ Same(held, source["server"])
        /\ pc \in SchemaHeld /\ Settled("schema")' => Same(held, source["schema"])
    BY <2>1, <2>2, <2>3 DEF ReachOK, Overwriting, Settled
  <2>9. pc \in {"sdk", "sdkWrite", "inject"} /\ files["metro"] = None =>
            \A f \in {"metro", "entry"} : files[f] = None /\ Settled(f)' => source[f] = None
    BY <2>1, <2>2, <2>3 DEF ReachOK, Overwriting, Settled
  <2>10. QED
    BY <2>1, <2>6, <2>7, <2>8, <2>9 DEF ReachOK
<1>25. CASE RunCommand
  BY <1>25 DEF RunCommand, InContainer, Special, ReachOK, PlacesOK, Settled, Same, Read,
     FilesOK, Project, Directory, Filled, Injected, Pointed, Configured, Container,
     Serving, Running, AppHeld, SchemaHeld
<1>26. CASE UNCHANGED vars
  BY <1>26 DEF vars, ReachOK, Settled
<1>27. QED
  BY <1>1, <1>2, <1>3, <1>4, <1>5, <1>6, <1>7, <1>8, <1>9, <1>10, <1>11, <1>12, <1>13,
     <1>14, <1>15, <1>16, <1>17, <1>18, <1>19, <1>20, <1>21, <1>22, <1>23, <1>24, <1>25,
     <1>26 DEF Next, Build

\* No step leaves what the build makes of the entry.
LEMMA EntryStep ==
  FilesOK /\ HeldOK /\ LocalsOK /\ PlacesOK /\ EntryOK /\ [Next]_vars => EntryOK'
<1> SUFFICES ASSUME FilesOK, HeldOK, LocalsOK, PlacesOK, EntryOK, [Next]_vars
             PROVE  EntryOK'
  OBVIOUS
<1> USE DEF EntryOK, PlacesOK, Untouched, Pointing, Read, WriteBack, FilesOK, Project,
   Directory, Filled, Injected, Pointed, Configured, Container, Serving, Running, AppHeld,
   SchemaHeld
<1>1. CASE Fetch
  BY <1>1 DEF Fetch
<1>2. CASE Fill
  BY <1>2 DEF Fill
<1>3. CASE ReadForSdk
  BY <1>3 DEF ReadForSdk
<1>4. CASE WriteSdk
  BY <1>4, BuildKeeps, TextKinds, DirectoryTypes DEF WriteSdk, HeldOK
<1>5. CASE Inject
  BY <1>5 DEF Inject
<1>6. CASE Verify
  BY <1>6 DEF Verify
<1>7. CASE ReadForMain
  BY <1>7 DEF ReadForMain
<1>8. CASE WriteMain
  BY <1>8, BuildKeeps, TextKinds, DirectoryTypes DEF WriteMain, HeldOK
<1>9. CASE ReadForDeps
  BY <1>9 DEF ReadForDeps
<1>10. CASE WriteDeps
  BY <1>10, BuildKeeps, TextKinds, DirectoryTypes DEF WriteDeps, HeldOK
<1>11. CASE ReadForConfig
  BY <1>11 DEF ReadForConfig
<1>12. CASE Detect
  BY <1>12 DEF Detect
<1>13. CASE WriteSchema
  BY <1>13, BuildKeeps, TextKinds, DirectoryTypes DEF WriteSchema, HeldOK
<1>14. CASE WriteConfig
  BY <1>14 DEF WriteConfig
<1>15. CASE ReadForAlign
  BY <1>15 DEF ReadForAlign
<1>16. CASE WriteAligned
  BY <1>16, BuildKeeps, TextKinds, DirectoryTypes DEF WriteAligned, HeldOK
<1>17. CASE Install
  BY <1>17 DEF Install, Readable
<1>18. CASE InstallServer
  BY <1>18 DEF InstallServer
<1>19. CASE Push
  BY <1>19 DEF Push
<1>20. CASE ContainerFails
  BY <1>20 DEF ContainerFails, InContainer
<1>21. CASE Stop
  BY <1>21 DEF Stop
<1>22. CASE Edit
  BY <1>22 DEF Edit
<1>23. CASE CheckPreview
  BY <1>23 DEF CheckPreview
<1>24. CASE CopyEdit
  BY <1>24 DEF CopyEdit
<1>25. CASE RunCommand
  BY <1>25 DEF RunCommand, InContainer, Special
<1>26. CASE UNCHANGED vars
  BY <1>26 DEF vars
<1>27. QED
  BY <1>1, <1>2, <1>3, <1>4, <1>5, <1>6, <1>7, <1>8, <1>9, <1>10, <1>11, <1>12, <1>13,
     <1>14, <1>15, <1>16, <1>17, <1>18, <1>19, <1>20, <1>21, <1>22, <1>23, <1>24, <1>25,
     <1>26 DEF Next, Build

\* No step leaves what the build makes of Prisma's files.
LEMMA PrismaStep ==
  FilesOK /\ HeldOK /\ LocalsOK /\ PlacesOK /\ PrismaOK /\ [Next]_vars => PrismaOK'
<1> SUFFICES ASSUME FilesOK, HeldOK, LocalsOK, PlacesOK, PrismaOK, [Next]_vars
             PROVE  PrismaOK'
  OBVIOUS
<1> USE DEF PrismaOK, PlacesOK, Read, WriteBack, FilesOK, Project, Directory, Filled,
   Injected, Pointed, Configured, Container, Serving, Running, AppHeld, SchemaHeld
<1>1. CASE Fetch
  BY <1>1 DEF Fetch
<1>2. CASE Fill
  BY <1>2 DEF Fill
<1>3. CASE ReadForSdk
  BY <1>3 DEF ReadForSdk
<1>4. CASE WriteSdk
  BY <1>4, BuildKeeps, TextKinds, DirectoryTypes DEF WriteSdk, HeldOK
<1>5. CASE Inject
  BY <1>5 DEF Inject
<1>6. CASE Verify
  BY <1>6 DEF Verify
<1>7. CASE ReadForMain
  BY <1>7 DEF ReadForMain
<1>8. CASE WriteMain
  BY <1>8, BuildKeeps, TextKinds, DirectoryTypes DEF WriteMain, HeldOK
<1>9. CASE ReadForDeps
  BY <1>9 DEF ReadForDeps
<1>10. CASE WriteDeps
  <2>1. held = disk["server"] => disk'["server"] = WithPrisma(held)
    BY <1>10 DEF WriteDeps
  <2>2. Readable(WithPrisma(held)) => WithPrisma(held).cli # None /\ WithPrisma(held).client # None
    BY <1>10, BuildKeeps DEF WriteDeps, HeldOK, Readable
  <2>3. disk'["schema"] = disk["schema"]
    BY <1>10 DEF WriteDeps
  <2>4. QED
    BY <1>10, <2>1, <2>2, <2>3 DEF WriteDeps
<1>11. CASE ReadForConfig
  BY <1>11 DEF ReadForConfig
<1>12. CASE Detect
  BY <1>12 DEF Detect
<1>13. CASE WriteSchema
  BY <1>13, BuildKeeps, TextKinds, DirectoryTypes DEF WriteSchema, HeldOK
<1>14. CASE WriteConfig
  <2>1. /\ disk'["server"] = disk["server"] /\ disk'["schema"] = disk["schema"]
        /\ UNCHANGED <<source, files, major, raw>>
    BY <1>14 DEF WriteConfig
  <2>2. major >= 7 <=> disk'["config"] # None
    BY <1>14 DEF WriteConfig, LocalsOK, Majors
  <2>3. QED
    BY <1>14, <2>1, <2>2 DEF WriteConfig, Major
<1>15. CASE ReadForAlign
  BY <1>15 DEF ReadForAlign
<1>16. CASE WriteAligned
  BY <1>16, BuildKeeps, TextKinds, DirectoryTypes DEF WriteAligned, HeldOK
<1>17. CASE Install
  BY <1>17 DEF Install
<1>18. CASE InstallServer
  BY <1>18 DEF InstallServer
<1>19. CASE Push
  BY <1>19 DEF Push
<1>20. CASE ContainerFails
  BY <1>20 DEF ContainerFails, InContainer
<1>21. CASE Stop
  BY <1>21 DEF Stop
<1>22. CASE Edit
  BY <1>22 DEF Edit
<1>23. CASE CheckPreview
  BY <1>23 DEF CheckPreview
<1>24. CASE CopyEdit
  BY <1>24 DEF CopyEdit
<1>25. CASE RunCommand
  BY <1>25 DEF RunCommand, InContainer, Special
<1>26. CASE UNCHANGED vars
  BY <1>26 DEF vars
<1>27. QED
  BY <1>1, <1>2, <1>3, <1>4, <1>5, <1>6, <1>7, <1>8, <1>9, <1>10, <1>11, <1>12, <1>13,
     <1>14, <1>15, <1>16, <1>17, <1>18, <1>19, <1>20, <1>21, <1>22, <1>23, <1>24, <1>25,
     <1>26 DEF Next, Build

\* No step leaves what is installed behind.
LEMMA InstallStep ==
  FilesOK /\ InstalledOK /\ HeldOK /\ LocalsOK /\ PlacesOK /\ InstallOK /\ [Next]_vars => InstallOK'
<1> SUFFICES ASSUME FilesOK, InstalledOK, HeldOK, LocalsOK, PlacesOK, InstallOK, [Next]_vars
             PROVE  InstallOK'
  OBVIOUS
<1> USE DEF InstallOK, InstalledOK, PlacesOK, Fullstack, Read, WriteBack, FilesOK,
   Project, Directory, Filled, Injected, Pointed, Configured, Container, Serving, Running,
   AppHeld, SchemaHeld
<1>1. CASE Fetch
  BY <1>1 DEF Fetch
<1>2. CASE Fill
  BY <1>2 DEF Fill
<1>3. CASE ReadForSdk
  BY <1>3 DEF ReadForSdk
<1>4. CASE WriteSdk
  BY <1>4, BuildKeeps, TextKinds, DirectoryTypes DEF WriteSdk, HeldOK
<1>5. CASE Inject
  BY <1>5 DEF Inject
<1>6. CASE Verify
  BY <1>6 DEF Verify
<1>7. CASE ReadForMain
  BY <1>7 DEF ReadForMain
<1>8. CASE WriteMain
  BY <1>8, BuildKeeps, TextKinds, DirectoryTypes DEF WriteMain, HeldOK
<1>9. CASE ReadForDeps
  BY <1>9 DEF ReadForDeps
<1>10. CASE WriteDeps
  BY <1>10, BuildKeeps, TextKinds, DirectoryTypes DEF WriteDeps, HeldOK
<1>11. CASE ReadForConfig
  BY <1>11 DEF ReadForConfig
<1>12. CASE Detect
  BY <1>12 DEF Detect
<1>13. CASE WriteSchema
  BY <1>13, BuildKeeps, TextKinds, DirectoryTypes DEF WriteSchema, HeldOK
<1>14. CASE WriteConfig
  BY <1>14 DEF WriteConfig
<1>15. CASE ReadForAlign
  BY <1>15 DEF ReadForAlign
<1>16. CASE WriteAligned
  <2>1. Aligned(Aligned(held)) = Aligned(held) /\ (Aligned(held) = None <=> held = None)
    BY <1>16, BuildKeeps DEF WriteAligned, HeldOK
  <2>2. \A f \in Names \ {"app"} : disk'[f] = disk[f]
    BY <1>16 DEF WriteAligned
  <2>3. held = disk["app"] => disk'["app"] = Aligned(held)
    BY <1>16 DEF WriteAligned
  <2>4. held = disk["app"] /\ Aligned(held) = held => disk' = disk
    BY <1>16 DEF WriteAligned
  <2>5. QED
    BY <1>16, <2>1, <2>2, <2>3, <2>4 DEF WriteAligned
<1>17. CASE Install
  BY <1>17 DEF Install
<1>18. CASE InstallServer
  BY <1>18 DEF InstallServer
<1>19. CASE Push
  BY <1>19 DEF Push
<1>20. CASE ContainerFails
  BY <1>20 DEF ContainerFails, InContainer
<1>21. CASE Stop
  BY <1>21 DEF Stop
<1>22. CASE Edit
  BY <1>22 DEF Edit
<1>23. CASE CheckPreview
  BY <1>23 DEF CheckPreview
<1>24. CASE CopyEdit
  <2>1. /\ edit.file \in Names /\ disk'[edit.file] = source[edit.file]
        /\ \A f \in Names \ {edit.file} : disk'[f] = disk[f]
        /\ UNCHANGED <<files, pc, held, installed>>
    BY <1>24 DEF CopyEdit, LocalsOK
  <2>2. /\ missed \subseteq missed' /\ commands \subseteq commands'
        /\ TooLate(edit.file) /\ edit.file \notin missed' => edit.ready /\ pc = "up"
        /\ edit.ready /\ source[edit.file] # None /\ edit.file \in Special =>
              edit.file \in commands'
    BY <1>24 DEF CopyEdit, HasCommand
  <2>3. CASE edit.file = "app"
    BY <2>1, <2>2, <2>3 DEF TooLate, Special
  <2>4. CASE edit.file = "server"
    BY <2>1, <2>2, <2>4 DEF TooLate, Special
  <2>5. CASE edit.file = "schema"
    BY <2>1, <2>2, <2>5 DEF TooLate, Special
  <2>6. CASE edit.file \in {"metro", "entry", "config"}
    BY <2>1, <2>2, <2>6
  <2>7. QED
    BY <2>1, <2>3, <2>4, <2>5, <2>6
<1>25. CASE RunCommand
  BY <1>25 DEF RunCommand, InContainer, Special
<1>26. CASE UNCHANGED vars
  BY <1>26 DEF vars
<1>27. QED
  BY <1>1, <1>2, <1>3, <1>4, <1>5, <1>6, <1>7, <1>8, <1>9, <1>10, <1>11, <1>12, <1>13,
     <1>14, <1>15, <1>16, <1>17, <1>18, <1>19, <1>20, <1>21, <1>22, <1>23, <1>24, <1>25,
     <1>26 DEF Next, Build

\* The invariant holds at first.
LEMMA InitIInv == Init => IInv
<1> SUFFICES ASSUME Init
             PROVE  IInv
  OBVIOUS
<1>1. Project(NoFiles) /\ Directory(NoFiles) /\ \A f \in Names : NoFiles[f] = None
  BY DEF NoFiles, Project, Directory, Made
<1>2. Project(source)
  <2>1. \A f \in Names : source[f] \in Texts(f) \cup {None}
    <3>1. source["app"] \in Apps \cup {None} /\ source["server"] \in Servers \cup {None}
      BY DEF Init
    <3>2. source["schema"] \in Schemas \cup {None}
      BY DEF Init
    <3>3. \A f \in {"metro", "entry", "config"} : source[f] \in Plains \cup {None}
      BY DEF Init
    <3>4. QED
      BY <3>1, <3>2, <3>3 DEF Texts
  <2>2. \A f \in Names : source[f] # Made
    <3>1. \A t \in PlainTexts : t # Made
      BY DEF PlainTexts, Made
    <3>2. source["app"] # Made /\ source["server"] # Made /\ source["schema"] # Made
      BY TextKinds DEF Init
    <3>3. \A f \in {"metro", "entry", "config"} : source[f] # Made
      BY <3>1 DEF Init
    <3>4. QED
      BY <3>2, <3>3
  <2>3. source = [f \in Names |-> source[f]]
    BY DEF Init
  <2>4. QED
    BY <2>1, <2>2, <2>3 DEF Project, Directory
<1>3. FilesOK
  BY <1>1, <1>2 DEF Init, FilesOK
<1>4. HeldOK /\ InstalledOK /\ LocalsOK
  <2>1. HeldOK /\ InstalledOK
    BY DEF Init, HeldOK, InstalledOK, NotInstalled, AppHeld, SchemaHeld
  <2>2. NoEdit \in [file : Names \cup {None}, checked : BOOLEAN, ready : BOOLEAN]
    BY DEF NoEdit
  <2>3. 0 \in 0..MaxBuilds /\ 0 \in 0..MaxEdits /\ 5 \in Majors /\ "idle" \in Labels
    BY DEF Majors, Labels
  <2>4. LocalsOK
    BY <2>2, <2>3 DEF Init, LocalsOK
  <2>5. QED
    BY <2>1, <2>4
<1>5. PlacesOK /\ ReachOK /\ EntryOK /\ PrismaOK /\ InstallOK
  BY DEF Init, PlacesOK, ReachOK, EntryOK, PrismaOK, InstallOK, NoEdit, AppHeld, SchemaHeld,
      Filled, Injected, Pointed, Configured, Container, Serving, Running
<1>6. QED
  BY <1>3, <1>4, <1>5 DEF IInv

\* The invariant holds throughout.
LEMMA Invariance == Spec => []IInv
<1>1. Init => IInv
  BY InitIInv
<1>2. IInv /\ [Next]_vars => IInv'
  BY FilesStep, HeldStep, InstalledStep, LocalsStep, PlacesStep, ReachStep, EntryStep,
      PrismaStep, InstallStep DEF IInv
<1>3. QED
  BY <1>1, <1>2, PTL DEF Spec

\* Every state is of its type: no step makes of a manifest what is not one.
THEOREM TypeSafety == Spec => []TypeOK
<1>1. IInv => TypeOK
  BY DEF IInv, TypeOK
<1>2. QED
  BY <1>1, Invariance, PTL

\* An edit whose copying is over is in the directory of a running preview, unless the
\* build was about to write over the copy (syncFile against buildAndStart).
THEOREM EditsReachSafety == Spec => []EditsReach
<1>1. IInv => EditsReach
  <2> SUFFICES ASSUME IInv, pc = "up", edit = NoEdit, NEW f \in Names \ ({"config"} \cup lost)
               PROVE  Same(disk[f], source[f])
    BY DEF EditsReach, Same
  <2>1. Settled(f)
    BY DEF Settled, NoEdit
  <2>2. pc \in Filled
    BY DEF Filled, Injected, Pointed, Configured, Container, Serving, Running
  <2>3. QED
    BY <2>1, <2>2 DEF IInv, ReachOK
<1>2. QED
  BY <1>1, Invariance, PTL

\* The bundle starts from a file that is there: the author's own entry, or else the
\* preview's (the injections of buildAndStart).
THEOREM EntrySafety == Spec => []EntryThere
<1>1. IInv => EntryThere
  <2> SUFFICES ASSUME IInv, pc \in {"push", "up"}, raw \cap {"app", "entry"} = {}
               PROVE  /\ disk["app"].main = "entry" => files["metro"] # None \/ disk["entry"] # None
                      /\ files["app"].main = "default" /\ files["entry"] = None =>
                            disk["app"].main = "entry"
                      /\ files["app"].main = "custom" => disk["app"].main = "custom"
                      /\ files["entry"] # None => disk["entry"] = files["entry"]
    BY DEF EntryThere
  <2>1. pc \in Injected /\ pc \in Pointed /\ pc \in Serving
    BY DEF Injected, Pointed, Configured, Container, Serving, Running
  <2>2. "app" \notin raw /\ "entry" \notin raw
    OBVIOUS
  <2>3. disk["app"] # None /\ Pointing(disk["app"]) /\ disk["app"].parses
    BY <2>1, <2>2 DEF IInv, EntryOK
  <2>4. /\ files["entry"] # None => disk["entry"] = files["entry"]
        /\ files["metro"] = None => disk["entry"] # None
    BY <2>1, <2>2 DEF IInv, EntryOK
  <2>5. QED
    BY <2>3, <2>4 DEF Pointing
<1>2. QED
  BY <1>1, Invariance, PTL

\* When the container sets Prisma up, schema.prisma and prisma.config.ts are of the
\* form that the declared command wants exactly if its version tells the major: not for
\* "latest", nor for ">=5" (ensurePrismaDeps, ensurePrismaConfig, detectPrismaMajor).
THEOREM PrismaSafety == Spec => []PrismaFits
<1>1. IInv => PrismaFits
  <2> SUFFICES ASSUME IInv, pc = "push", raw \cap {"server", "schema", "config"} = {},
                      files["schema"].postgres, files["schema"].urls \subseteq {"env"}
               PROVE  IF Readable(disk["server"])
                      THEN /\ disk["server"].cli # None /\ disk["server"].client # None
                           /\ InForm(disk["server"].cli.major) <=> Telling(disk["server"].cli)
                      ELSE InForm(5)
    BY Zenon DEF PrismaFits
  <2>1. pc \in Configured /\ pc \in Container
    BY DEF Configured, Container, Serving, Running
  <2>2. files["schema"] # None
    BY DEF IInv, InstallOK
  <2>3. /\ Readable(disk["server"]) =>
              disk["server"].cli # None /\ disk["server"].client # None
        /\ major = Major(disk["server"])
        /\ disk["schema"].urls = Urls(major, files["schema"])
        /\ major >= 7 <=> disk["config"] # None
    BY <2>1, <2>2 DEF IInv, PrismaOK
  <2>4. major \in Majors
    BY DEF IInv, LocalsOK
  <2>5. IF major = 7
        THEN disk["schema"].urls = {} /\ disk["config"] # None
        ELSE disk["schema"].urls = {"env"} /\ disk["config"] = None
    <3>1. CASE major = 7
      BY <2>3, <3>1 DEF Urls
    <3>2. CASE major = 5
      BY <2>3, <3>2 DEF Urls
    <3>3. QED
      BY <2>4, <3>1, <3>2 DEF Majors
  <2>6. ASSUME NEW m \in Majors PROVE InForm(m) <=> m = major
    BY <2>4, <2>5 DEF InForm, Majors
  <2>7. CASE Readable(disk["server"])
    <3> DEFINE version == disk["server"].cli
    <3>1. version # None /\ disk["server"].client # None
      BY <2>3, <2>7
    <3>2. version \in Versions
      BY <2>7, <3>1, DirectoryTypes DEF IInv, FilesOK, Readable, ServerTexts
    <3>3. major = Number(version)
      BY <2>3, <2>7, <3>1 DEF Major
    <3>4. version.major \in Majors /\ version.number \in Majors \cup {0}
      BY <3>2 DEF Versions
    <3> HIDE DEF version
    <3>5. Telling(version) <=> version.major = Number(version)
      BY <3>4 DEF Telling, Number, Majors
    <3>6. InForm(version.major) <=> Telling(version)
      BY <2>6, <3>3, <3>4, <3>5
    <3>7. QED
      BY <2>7, <3>1, <3>6, Zenon DEF version
  <2>8. CASE ~Readable(disk["server"])
    <3>1. major = 5
      BY <2>3, <2>8 DEF Major
    <3>2. InForm(5)
      BY <2>6, <3>1 DEF Majors
    <3>3. QED
      BY <2>8, <3>2
  <2>9. QED
    BY <2>7, <2>8
<1>2. QED
  BY <1>1, Invariance, PTL

\* What a quiet preview has installed and pushed is what its directory declares, with
\* the exceptions that the history names (getPostSyncCommand, EXPO_INSTALL).
THEOREM InstalledSafety == Spec => []InstalledCurrent
<1>1. IInv => InstalledCurrent
  <2> SUFFICES ASSUME IInv, pc = "up", commands = {}, NEW f \in Special \ missed,
                      disk[f] # None
               PROVE  installed[f] = disk[f]
    BY DEF InstalledCurrent
  <2>1. pc \in Serving /\ pc \in Running
    BY DEF Serving, Running
  <2>2. QED
    BY <2>1 DEF IInv, InstallOK, Special
<1>2. QED
  BY <1>1, Invariance, PTL
-----------------------------------------------------------------------------
(* Which projects have the packages of Prisma when it is set up.            *)

\* A build makes of package.json what the image has, but for the packages that it
\* declares beside: it cannot add those, nor take them away.
ImageOK ==
    "app" \notin raw =>
        /\ pc \in Filled /\ disk["app"] # None => disk["app"].baked = files["app"].baked
        /\ pc \in Injected \cup {"inject"} /\ Readable(disk["app"]) => disk["app"].expo
        /\ pc \in Pointed /\ Readable(disk["app"]) => disk["app"].runtime
        /\ pc \in Serving \cup {"install"} /\ Readable(disk["app"]) => disk["app"].aligned

\* What becomes of the server's packages until the container takes them, and in the
\* first build, that no command of an earlier one takes them.
ServerOK ==
    /\ "server" \notin raw /\ Readable(files["server"]) /\ pc \in Filled =>
          Readable(disk["server"]) /\ (pc = "depsWrite" => held = disk["server"])
    /\ pc = "push" /\ raw = {} /\ Readable(files["server"]) /\ ~files["app"].baked =>
          installed.server = disk["server"]
    /\ builds = 0 => pc = "idle" /\ commands = {} /\ ~edit.ready
    /\ builds = 1 /\ pc \in Filled \cup {"fetched"} /\ pc # "up" => commands = {} /\ ~edit.ready
    /\ builds = 1 /\ pc \in Filled \ Running => installed.server = None
    /\ builds = 1 /\ pc = "push" /\ raw = {} /\ files["app"].baked => installed.server = None

\* What a step of the build adds to package.json, and what it keeps.
LEMMA BuildMakes ==
  ASSUME NEW t \in AppTexts \cup {None}
  PROVE  /\ \A u \in {Upgraded(t), WithEntry(t), Aligned(t)} :
               t # None => u.baked = t.baked /\ (t.expo => u.expo) /\ (t.runtime => u.runtime)
         /\ Readable(t) => Upgraded(t).expo /\ WithEntry(t).runtime /\ Aligned(t).aligned
<1>1. CASE t = None
  BY <1>1 DEF Readable
<1>2. CASE t \in AppTexts
  <2>1. /\ Upgraded(t).baked = t.baked /\ Upgraded(t).runtime = t.runtime
        /\ (t.expo => Upgraded(t).expo) /\ (Readable(t) => Upgraded(t).expo)
    BY <1>2 DEF Upgraded, AppTexts
  <2>2. /\ WithEntry(t).baked = t.baked /\ WithEntry(t).expo = t.expo
        /\ (t.runtime => WithEntry(t).runtime) /\ (Readable(t) => WithEntry(t).runtime)
    BY <1>2 DEF WithEntry, AppTexts
  <2>3. /\ Aligned(t).baked = t.baked /\ Aligned(t).runtime = t.runtime
        /\ (t.expo => Aligned(t).expo) /\ (Readable(t) => Aligned(t).aligned)
    BY <1>2 DEF Aligned, AppTexts
  <2>4. QED
    BY <2>1, <2>2, <2>3
<1>3. QED
  BY <1>1, <1>2

\* No step leaves what the build makes of package.json.
LEMMA ImageStep ==
  FilesOK /\ HeldOK /\ LocalsOK /\ PlacesOK /\ EntryOK /\ ImageOK /\ [Next]_vars => ImageOK'
<1> SUFFICES ASSUME FilesOK, HeldOK, LocalsOK, PlacesOK, EntryOK, ImageOK, [Next]_vars
             PROVE  ImageOK'
  OBVIOUS
<1> USE DEF ImageOK, PlacesOK, Read, WriteBack, FilesOK, Project, Directory, Filled,
   Injected, Pointed, Configured, Container, Serving, Running, AppHeld, SchemaHeld
<1>1. CASE Fetch
  BY <1>1 DEF Fetch
<1>2. CASE Fill
  BY <1>2 DEF Fill
<1>3. CASE ReadForSdk
  BY <1>3 DEF ReadForSdk
<1>4. CASE WriteSdk
  <2>1. held \in AppTexts \cup {None} /\ ("app" \notin raw => held = disk["app"])
    BY <1>4 DEF WriteSdk, HeldOK, EntryOK
  <2>2. held = disk["app"] => disk'["app"] = Upgraded(held)
    BY <1>4 DEF WriteSdk
  <2>3. UNCHANGED <<files, raw>>
    BY <1>4 DEF WriteSdk
  <2>4. QED
    BY <1>4, <2>1, <2>2, <2>3, BuildMakes, BuildKeeps DEF WriteSdk, Readable
<1>5. CASE Inject
  BY <1>5 DEF Inject
<1>6. CASE Verify
  BY <1>6 DEF Verify
<1>7. CASE ReadForMain
  BY <1>7 DEF ReadForMain
<1>8. CASE WriteMain
  <2>1. held \in AppTexts \cup {None} /\ ("app" \notin raw => held = disk["app"])
    BY <1>8 DEF WriteMain, HeldOK, EntryOK
  <2>2. held = disk["app"] => disk'["app"] = WithEntry(held)
    BY <1>8 DEF WriteMain
  <2>3. UNCHANGED <<files, raw>>
    BY <1>8 DEF WriteMain
  <2>4. QED
    BY <1>8, <2>1, <2>2, <2>3, BuildMakes, BuildKeeps DEF WriteMain, Readable
<1>9. CASE ReadForDeps
  BY <1>9 DEF ReadForDeps
<1>10. CASE WriteDeps
  BY <1>10 DEF WriteDeps
<1>11. CASE ReadForConfig
  BY <1>11 DEF ReadForConfig
<1>12. CASE Detect
  BY <1>12 DEF Detect
<1>13. CASE WriteSchema
  BY <1>13 DEF WriteSchema
<1>14. CASE WriteConfig
  BY <1>14 DEF WriteConfig
<1>15. CASE ReadForAlign
  BY <1>15 DEF ReadForAlign
<1>16. CASE WriteAligned
  <2>1. held \in AppTexts \cup {None} /\ ("app" \notin raw => held = disk["app"])
    BY <1>16 DEF WriteAligned, HeldOK, EntryOK
  <2>2. held = disk["app"] => disk'["app"] = Aligned(held)
    BY <1>16 DEF WriteAligned
  <2>3. UNCHANGED <<files, raw>>
    BY <1>16 DEF WriteAligned
  <2>4. QED
    BY <1>16, <2>1, <2>2, <2>3, BuildMakes, BuildKeeps DEF WriteAligned, Readable
<1>17. CASE Install
  BY <1>17 DEF Install
<1>18. CASE InstallServer
  BY <1>18 DEF InstallServer
<1>19. CASE Push
  BY <1>19 DEF Push
<1>20. CASE ContainerFails
  BY <1>20 DEF ContainerFails, InContainer
<1>21. CASE Stop
  BY <1>21 DEF Stop
<1>22. CASE Edit
  BY <1>22 DEF Edit
<1>23. CASE CheckPreview
  BY <1>23 DEF CheckPreview
<1>24. CASE CopyEdit
  BY <1>24 DEF CopyEdit
<1>25. CASE RunCommand
  BY <1>25 DEF RunCommand, InContainer, Special
<1>26. CASE UNCHANGED vars
  BY <1>26 DEF vars
<1>27. QED
  BY <1>1, <1>2, <1>3, <1>4, <1>5, <1>6, <1>7, <1>8, <1>9, <1>10, <1>11, <1>12, <1>13,
     <1>14, <1>15, <1>16, <1>17, <1>18, <1>19, <1>20, <1>21, <1>22, <1>23, <1>24, <1>25,
     <1>26 DEF Next, Build

\* No step leaves what becomes of the server's packages.
LEMMA ServerStep ==
  IInv /\ ImageOK /\ ServerOK /\ [Next]_vars => ServerOK'
<1> SUFFICES ASSUME FilesOK, HeldOK, InstalledOK, LocalsOK, PlacesOK, EntryOK, InstallOK, ImageOK,
                    ServerOK, [Next]_vars
             PROVE  ServerOK'
  BY DEF IInv
<1> USE DEF ServerOK, PlacesOK, Read, WriteBack, FilesOK, Project, Directory, Filled,
   Injected, Pointed, Configured, Container, Serving, Running, AppHeld, SchemaHeld
<1>1. CASE Fetch
  BY <1>1 DEF Fetch, LocalsOK
<1>2. CASE Fill
  BY <1>2 DEF Fill, NotInstalled
<1>3. CASE ReadForSdk
  BY <1>3 DEF ReadForSdk
<1>4. CASE WriteSdk
  BY <1>4 DEF WriteSdk
<1>5. CASE Inject
  BY <1>5 DEF Inject
<1>6. CASE Verify
  BY <1>6 DEF Verify
<1>7. CASE ReadForMain
  BY <1>7 DEF ReadForMain
<1>8. CASE WriteMain
  BY <1>8 DEF WriteMain
<1>9. CASE ReadForDeps
  BY <1>9 DEF ReadForDeps
<1>10. CASE WriteDeps
  <2>1. "server" \notin raw /\ Readable(files["server"]) => Readable(disk["server"]) /\ held = disk["server"]
    BY <1>10 DEF WriteDeps
  <2>2. held = disk["server"] => disk'["server"] = WithPrisma(held)
    BY <1>10 DEF WriteDeps
  <2>3. held \in ServerTexts \cup {None}
    BY <1>10 DEF WriteDeps, HeldOK
  <2>4. Readable(held) => Readable(WithPrisma(held))
    BY <2>3, BuildKeeps DEF Readable
  <2>5. QED
    BY <1>10, <2>1, <2>2, <2>4 DEF WriteDeps
<1>11. CASE ReadForConfig
  BY <1>11 DEF ReadForConfig
<1>12. CASE Detect
  BY <1>12 DEF Detect
<1>13. CASE WriteSchema
  BY <1>13 DEF WriteSchema
<1>14. CASE WriteConfig
  BY <1>14 DEF WriteConfig
<1>15. CASE ReadForAlign
  BY <1>15 DEF ReadForAlign
<1>16. CASE WriteAligned
  BY <1>16 DEF WriteAligned
<1>17. CASE Install
  <2>1. installed'.server = installed.server
    BY <1>17 DEF Install, InstalledOK
  <2>2. UNCHANGED <<disk, files, raw, builds, commands, edit>>
        /\ pc = "install" /\ pc' \in {"realign", "up", "failed"}
    BY <1>17 DEF Install
  <2>3. QED
    BY <2>1, <2>2
<1>18. CASE InstallServer
  <2>1. raw = {} => Readable(disk["app"]) /\ disk["app"].baked = files["app"].baked
                    /\ (LikeImage(disk["app"]) <=> files["app"].baked)
    BY <1>18 DEF InstallServer, ImageOK, EntryOK, Pointing, LikeImage, Readable
  <2>2. UNCHANGED <<disk, files, raw, builds, commands, edit>>
        /\ pc = "installServer" /\ pc' \in {"push", "up", "failed"}
    BY <1>18 DEF InstallServer
  <2>3. ~LikeImage(disk["app"]) /\ disk["server"] # None /\ pc' # "failed" =>
           installed'.server = disk["server"]
    BY <1>18 DEF InstallServer, InstalledOK
  <2>4. "server" \notin raw /\ Readable(files["server"]) => disk["server"] # None
    BY <2>2 DEF Readable
  <2>5. LikeImage(disk["app"]) \/ disk["server"] = None => installed' = installed
    BY <1>18 DEF InstallServer, Readable
  <2>6. QED
    BY <2>1, <2>2, <2>3, <2>4, <2>5
<1>19. CASE Push
  BY <1>19 DEF Push
<1>20. CASE ContainerFails
  BY <1>20 DEF ContainerFails, InContainer
<1>21. CASE Stop
  BY <1>21 DEF Stop
<1>22. CASE Edit
  BY <1>22 DEF Edit
<1>23. CASE CheckPreview
  <2>1. edit'.ready => pc = "up"
    <3>1. edit' = NoEdit \/ edit' = [edit EXCEPT !.checked = TRUE, !.ready = (pc = "up")]
      BY <1>23 DEF CheckPreview
    <3>2. CASE edit' = NoEdit
      BY <3>2 DEF NoEdit
    <3>3. CASE edit' = [edit EXCEPT !.checked = TRUE, !.ready = (pc = "up")]
      <4>1. edit'.ready = (pc = "up")
        BY <3>3 DEF LocalsOK
      <4>2. QED
        BY <4>1, Zenon
    <3>4. QED
      BY <3>1, <3>2, <3>3
  <2>2. UNCHANGED <<commands, builds, files, disk, pc, held, installed, raw>>
    BY <1>23 DEF CheckPreview
  <2>3. QED
    BY <2>1, <2>2
<1>24. CASE CopyEdit
  <2>1. /\ "server" \notin raw' => "server" \notin raw /\ disk'["server"] = disk["server"]
        /\ raw' # {}
    BY <1>24 DEF CopyEdit, LocalsOK
  <2>2. ~edit.ready => commands' = commands
    BY <1>24 DEF CopyEdit
  <2>3. ~edit'.ready /\ UNCHANGED <<builds, files, pc, held, installed>>
    BY <1>24 DEF CopyEdit, NoEdit
  <2>4. QED
    BY <2>1, <2>2, <2>3
<1>25. CASE RunCommand
  <2>1. PICK f \in commands : commands' = commands \ {f} /\ RunCommand
    BY <1>25 DEF RunCommand
  <2>2. installed'.server \in {installed.server, disk["server"]}
    BY <1>25 DEF RunCommand, InstalledOK, LocalsOK
  <2>3. UNCHANGED <<edit, builds, files, disk, pc, held, raw>>
    BY <2>1 DEF RunCommand
  <2>4. QED
    BY <2>1, <2>2, <2>3
<1>26. CASE UNCHANGED vars
  BY <1>26 DEF vars
<1>27. QED
  BY <1>1, <1>2, <1>3, <1>4, <1>5, <1>6, <1>7, <1>8, <1>9, <1>10, <1>11, <1>12, <1>13,
     <1>14, <1>15, <1>16, <1>17, <1>18, <1>19, <1>20, <1>21, <1>22, <1>23, <1>24, <1>25,
     <1>26 DEF Next, Build

\* The packages of Prisma are installed when the container comes to set it up, with
\* the files as the build left them, in every project that declares a package beside
\* the image's; in one that declares the image's own packages, as a template does,
\* the first build never installs them.
PrismaDownloaded ==
    pc = "push" /\ raw = {} /\ Readable(files["server"]) =>
        /\ ~files["app"].baked =>
              /\ Readable(installed.server)
              /\ installed.server.cli # None /\ installed.server.client # None
        /\ files["app"].baked /\ builds = 1 => installed.server = None

\* For any texts and any number of edits and builds: which projects the comment on
\* ensurePrismaDeps holds for, and which it does not.
THEOREM PrismaDownload == Spec => []PrismaDownloaded
<1>1. Init => ImageOK /\ ServerOK
  BY DEF Init, ImageOK, ServerOK, NoEdit, Filled, Injected, Pointed, Configured, Container,
     Serving, Running
<1>2. IInv /\ ImageOK /\ [Next]_vars => ImageOK'
  BY ImageStep DEF IInv
<1>3. IInv /\ ImageOK /\ ServerOK => PrismaDownloaded
  <2> SUFFICES ASSUME IInv, ServerOK, pc = "push", raw = {}, Readable(files["server"])
               PROVE  /\ ~files["app"].baked =>
                            /\ Readable(installed.server)
                            /\ installed.server.cli # None /\ installed.server.client # None
                      /\ files["app"].baked /\ builds = 1 => installed.server = None
    BY DEF PrismaDownloaded
  <2>1. pc \in Configured /\ pc \in Filled
    BY DEF Filled, Injected, Pointed, Configured, Container, Serving, Running
  <2>2. files["schema"] # None
    BY DEF IInv, InstallOK
  <2>3. Readable(disk["server"]) /\ (~files["app"].baked => installed.server = disk["server"])
    BY <2>1 DEF ServerOK
  <2>4. disk["server"].cli # None /\ disk["server"].client # None
    BY <2>1, <2>2, <2>3 DEF IInv, PrismaOK
  <2>5. QED
    BY <2>3, <2>4 DEF ServerOK
<1>4. QED
  BY <1>1, <1>2, <1>3, ServerStep, Invariance, PTL DEF Spec
=============================================================================

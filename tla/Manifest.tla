------------------------------- MODULE Manifest -------------------------------
(***************************************************************************)
(* What the builds of a web preview do to a full-stack project's manifests *)
(* in the working directory, while edits of the same files are copied in.  *)
(*                                                                         *)
(* A build fetches the project's files, writes them out, and then adapts   *)
(* package.json, server/package.json and server/prisma/schema.prisma by    *)
(* reading a file, awaiting, and writing it back; the container aligns and *)
(* installs them.  An edit writes the database, looks at the preview, and  *)
(* writes the file unadapted.  FileStore is about the copies of any file;  *)
(* this module is about the files that a build rewrites.                   *)
(***************************************************************************)
EXTENDS Naturals, FiniteSets

CONSTANTS
    Apps,         \* texts of package.json a project may hold or be edited to,
    Servers,      \* of server/package.json,
    Schemas,      \* of server/prisma/schema.prisma,
    Plains,       \* of metro.config.js, bv-preview-entry.js, prisma.config.ts
    None,         \* no file
    MaxBuilds,    \* bound on the builds
    MaxEdits      \* bound on the edits

Names == {"app", "server", "schema", "metro", "entry", "config"}

\* What a build tells apart in a text; v says which edit wrote it, 0 for none.
AppTexts ==
    [v : Nat, parses : BOOLEAN,
     expo : BOOLEAN,        \* declares the target SDK
     runtime : BOOLEAN,     \* declares @expo/metro-runtime
     aligned : BOOLEAN,     \* other versions are those of the image
     baked : BOOLEAN,       \* beside the runtime, it declares the image's packages
     main : {"default", "custom", "entry"}]

\* Of Prisma's versions 5 stands for those up to 6, and 7 for the later ones.
Majors == {5, 7}

\* A declared version: "^5.22.0", "7", ">=5", "latest", "*".
Versions ==
    [number : Majors \cup {0},   \* the first number in the text, 0 if there is none
     major : Majors]             \* what npm makes of it

\* dependencies and devDependencies of server/package.json; None is not declared.
ServerTexts ==
    [v : Nat, parses : BOOLEAN, client : Versions \cup {None}, cli : Versions \cup {None}]

\* The url fields of the datasource: env("DATABASE_URL"), env of another name, a literal.
SchemaTexts == [v : Nat, urls : SUBSET {"env", "other", "literal"}, postgres : BOOLEAN]

PlainTexts == [v : Nat]

Made == [made |-> TRUE]     \* a file that the build itself writes

ASSUME ManifestConstants ==
    /\ Apps \subseteq AppTexts /\ Servers \subseteq ServerTexts
    /\ Schemas \subseteq SchemaTexts /\ Plains \subseteq PlainTexts
    /\ MaxBuilds \in Nat /\ MaxEdits \in Nat
    /\ None \notin AppTexts \cup ServerTexts \cup SchemaTexts \cup PlainTexts \cup {Made}
    /\ None \notin Names \cup Versions

\* The texts an author gives a file.
Authored(f) ==
    CASE f = "app" -> Apps
      [] f = "server" -> Servers
      [] f = "schema" -> Schemas
      [] OTHER -> Plains

Texts(f) ==
    CASE f = "app" -> AppTexts
      [] f = "server" -> ServerTexts
      [] f = "schema" -> SchemaTexts
      [] OTHER -> PlainTexts \cup {Made}

VARIABLES
    source,       \* the project's files in the database
    files,        \* the build's copy of them
    dir,          \* the working directory exists
    disk,         \* the files in it
    pc,           \* where the build, and then its container, stand
    held,         \* the text read and not yet written back
    major,        \* Prisma's major version as the build found it
    installed,    \* the texts that the container last installed or pushed
    edit,         \* the edit whose copying is under way
    commands,     \* commands after a copy that have not run
    builds,
    edits,
    raw,          \* history: files that an edit's copy replaced since the build's
    lost,         \* history: files whose copy met a build's writing,
    missed        \* history: or came after the install with no command to follow

vars == <<source, files, dir, disk, pc, held, major, installed, edit, commands,
          builds, edits, raw, lost, missed>>

project == <<source, edit, edits, commands>>
history == <<raw, lost, missed>>

Labels == {"idle", "fetched", "sdk", "sdkWrite", "inject", "verify", "main", "mainWrite",
           "deps", "depsWrite", "config", "detect", "schemaWrite", "configWrite",
           "align", "alignWrite", "install", "realign", "realignWrite", "installServer",
           "push", "up", "failed"}

NoEdit == [file |-> None, checked |-> FALSE, ready |-> FALSE]

\* A text or nothing for every name; what an author wrote, in a project.
Directory(d) ==
    /\ d = [f \in Names |-> d[f]]
    /\ \A f \in Names : d[f] \in Texts(f) \cup {None}

Project(d) == Directory(d) /\ \A f \in Names : d[f] # Made

FilesOK ==
    /\ Project(source) /\ Project(files) /\ Directory(disk)
    /\ ~dir => \A f \in Names : disk[f] = None

\* Stages between a file's reading and its writing back.
AppHeld == {"sdkWrite", "mainWrite", "alignWrite", "realignWrite"}
SchemaHeld == {"detect", "schemaWrite"}

HeldOK ==
    /\ held \in AppTexts \cup ServerTexts \cup SchemaTexts \cup {None}
    /\ pc \in AppHeld => held \in AppTexts \cup {None}
    /\ pc = "depsWrite" => held \in ServerTexts \cup {None}
    /\ pc \in SchemaHeld => held \in SchemaTexts

InstalledOK ==
    installed \in [app : AppTexts \cup {None}, server : ServerTexts \cup {None},
                  schema : SchemaTexts \cup {None}]

LocalsOK ==
    /\ dir \in BOOLEAN
    /\ pc \in Labels
    /\ major \in Majors
    /\ edit \in [file : Names \cup {None}, checked : BOOLEAN, ready : BOOLEAN]
    /\ commands \subseteq {"app", "server", "schema"}
    /\ builds \in 0..MaxBuilds /\ edits \in 0..MaxEdits
    /\ raw \subseteq Names /\ lost \subseteq Names /\ missed \subseteq Names

TypeOK == FilesOK /\ HeldOK /\ InstalledOK /\ LocalsOK

NoFiles == [f \in Names |-> None]
NotInstalled == [app |-> None, server |-> None, schema |-> None]

Init ==
    /\ source \in [app : Apps \cup {None}, server : Servers \cup {None},
                   schema : Schemas \cup {None}, metro : Plains \cup {None},
                   entry : Plains \cup {None}, config : Plains \cup {None}]
    /\ files = NoFiles
    /\ dir = FALSE /\ disk = NoFiles
    /\ pc = "idle" /\ held = None /\ major = 5
    /\ installed = NotInstalled
    /\ edit = NoEdit /\ commands = {}
    /\ builds = 0 /\ edits = 0
    /\ raw = {} /\ lost = {} /\ missed = {}

-----------------------------------------------------------------------------
(* What the build does to a text                                            *)

Readable(t) == t # None /\ t.parses

\* upgradeProjectToTargetSdk
Upgraded(t) == IF Readable(t) THEN [t EXCEPT !.expo = TRUE] ELSE t

\* The runtime comes with a version that the image does not hold; a default main
\* is pointed at the preview's entry, unless the project has an entry of its own.
WithEntry(t) ==
    IF Readable(t)
    THEN [t EXCEPT !.aligned = @ /\ t.runtime,
                   !.runtime = TRUE,
                   !.main = IF @ = "default" /\ files.entry = None THEN "entry" ELSE @]
    ELSE t

\* What is injected, "^5.22.0".
Prisma5 == [number |-> 5, major |-> 5]

Declared(version) == IF version = None THEN Prisma5 ELSE version

\* ensurePrismaDeps
WithPrisma(t) ==
    IF Readable(t)
    THEN [t EXCEPT !.client = Declared(@), !.cli = Declared(@)]
    ELSE t

\* Mutant: the match is used without a look whether there is one.
NumberUnchecked(version) == version.number

\* The first number of a version, 5 for one without.
Number(version) == IF version.number = 0 THEN 5 ELSE version.number

\* Mutant: the client's version is asked before the command's.
MajorOfClient(t) ==
    IF ~Readable(t) \/ {t.cli, t.client} = {None} THEN 5
    ELSE Number(IF t.client # None THEN t.client ELSE t.cli)

\* detectPrismaMajor: the command's version, or else the client's.
Major(t) ==
    IF ~Readable(t) \/ {t.cli, t.client} = {None} THEN 5
    ELSE Number(IF t.cli # None THEN t.cli ELSE t.client)

\* From 7 on the url is in prisma.config.ts, before that in the schema.
Adapted(t) ==
    IF major >= 7
    THEN [t EXCEPT !.urls = @ \ {"env"}]
    ELSE IF t.urls \cap {"env", "other"} = {} /\ t.postgres
         THEN [t EXCEPT !.urls = @ \cup {"env"}]
         ELSE t

\* ALIGN_VERSIONS_WITH_BAKED
Aligned(t) == IF Readable(t) THEN [t EXCEPT !.expo = TRUE, !.aligned = TRUE] ELSE t

\* The digest of the declared packages is that of the image.
LikeImage(t) == Readable(t) /\ t.expo /\ t.runtime /\ t.aligned /\ t.baked

-----------------------------------------------------------------------------
(* PreviewService.buildAndStart                                             *)

Goto(label) == pc' = label

Read(f) == held' = disk[f]

\* A file is written back when its text was changed.
WriteBack(f, t) ==
    /\ disk' = IF t = held THEN disk ELSE [disk EXCEPT ![f] = t]
    /\ held' = None

\* Only a project without a container starts here: HostResources has the others.
Fetch ==
    /\ pc \in {"idle", "failed"} /\ builds < MaxBuilds
    /\ builds' = builds + 1
    /\ files' = source
    /\ lost' = {}
    /\ Goto("fetched")
    /\ UNCHANGED <<project, dir, disk, held, major, installed, raw, missed>>

\* FileStore has the steps in which the directory is cleared and filled.
Fill ==
    /\ pc = "fetched"
    /\ dir' = TRUE /\ disk' = files
    /\ installed' = NotInstalled
    /\ raw' = {} /\ missed' = {}
    /\ Goto("sdk")
    /\ UNCHANGED <<project, builds, files, held, major, lost>>

ReadForSdk ==
    /\ pc = "sdk"
    /\ Read("app")
    /\ Goto("sdkWrite")
    /\ UNCHANGED <<project, builds, files, dir, disk, major, installed, history>>

WriteSdk ==
    /\ pc = "sdkWrite"
    /\ WriteBack("app", Upgraded(held))
    /\ Goto("inject")
    /\ UNCHANGED <<project, builds, files, dir, major, installed, history>>

\* Mutant: the entry is left to a project that has one of the two files.
InjectMetroOnly ==
    /\ pc = "inject"
    /\ disk' = IF files.metro = None THEN [disk EXCEPT !.metro = Made] ELSE disk
    /\ Goto("verify")
    /\ UNCHANGED <<project, builds, files, dir, held, major, installed, history>>

\* Whose files they are is read from the fetched list, not from the directory.
Inject ==
    /\ pc = "inject"
    /\ \/ /\ files.metro = None
          /\ disk' = [disk EXCEPT !.metro = Made,
                                  !.entry = IF files.entry = None THEN Made ELSE @]
       \/ /\ files.metro # None
          /\ UNCHANGED disk
    /\ Goto("verify")
    /\ UNCHANGED <<project, builds, files, dir, held, major, installed, history>>

Verify ==
    /\ pc = "verify"
    /\ Goto(IF disk.app = None THEN "failed" ELSE "main")
    /\ UNCHANGED <<project, builds, files, dir, disk, held, major, installed, history>>

ReadForMain ==
    /\ pc = "main"
    /\ Read("app")
    /\ Goto("mainWrite")
    /\ UNCHANGED <<project, builds, files, dir, disk, major, installed, history>>

\* Mutant: the text is the fetched one, not the one in the directory.
WriteMainOfFiles ==
    /\ pc = "mainWrite"
    /\ WriteBack("app", WithEntry(Upgraded(files.app)))
    /\ Goto("deps")
    /\ UNCHANGED <<project, builds, files, dir, major, installed, history>>

WriteMain ==
    /\ pc = "mainWrite"
    /\ WriteBack("app", WithEntry(held))
    /\ Goto("deps")
    /\ UNCHANGED <<project, builds, files, dir, major, installed, history>>

ReadForDeps ==
    /\ pc = "deps"
    /\ \/ /\ disk.schema # None
          /\ Read("server")
          /\ Goto("depsWrite")
       \/ /\ disk.schema = None
          /\ Goto("config")
          /\ UNCHANGED held
    /\ UNCHANGED <<project, builds, files, dir, disk, major, installed, history>>

WriteDeps ==
    /\ pc = "depsWrite"
    /\ WriteBack("server", WithPrisma(held))
    /\ Goto("config")
    /\ UNCHANGED <<project, builds, files, dir, major, installed, history>>

ReadForConfig ==
    /\ pc = "config"
    /\ \/ /\ disk.schema # None
          /\ Read("schema")
          /\ Goto("detect")
       \/ /\ disk.schema = None
          /\ Goto("align")
          /\ UNCHANGED held
    /\ UNCHANGED <<project, builds, files, dir, disk, major, installed, history>>

Detect ==
    /\ pc = "detect"
    /\ major' = Major(disk.server)
    /\ Goto("schemaWrite")
    /\ UNCHANGED <<project, builds, files, dir, disk, held, installed, history>>

WriteSchema ==
    /\ pc = "schemaWrite"
    /\ WriteBack("schema", Adapted(held))
    /\ Goto("configWrite")
    /\ UNCHANGED <<project, builds, files, dir, major, installed, history>>

\* The file is looked for and made, or removed, in adjacent calls.
WriteConfig ==
    /\ pc = "configWrite"
    /\ \/ /\ major >= 7
          /\ disk' = [disk EXCEPT !.config = IF @ = None THEN Made ELSE @]
       \/ /\ major < 7
          /\ disk' = [disk EXCEPT !.config = None]
    /\ Goto("align")
    /\ UNCHANGED <<project, builds, files, dir, held, major, installed, history>>

-----------------------------------------------------------------------------
(* EXPO_INSTALL, here and then in server/, and the set-up of Prisma         *)

ReadForAlign ==
    /\ \/ pc = "align" /\ Goto("alignWrite")
       \/ pc = "realign" /\ Goto("realignWrite")
    /\ Read("app")
    /\ UNCHANGED <<project, builds, files, dir, disk, major, installed, history>>

\* Both times it is the app's package.json.
WriteAligned ==
    /\ \/ pc = "alignWrite" /\ Goto("install")
       \/ pc = "realignWrite" /\ Goto("installServer")
    /\ WriteBack("app", Aligned(held))
    /\ UNCHANGED <<project, builds, files, dir, major, installed, history>>

Fullstack == files.server # None \/ files.schema # None

\* Packages like the image's are there already.
Install ==
    /\ pc = "install"
    /\ \/ /\ Readable(disk.app)
          /\ installed' = [installed EXCEPT !.app = disk.app]
          /\ Goto(IF Fullstack THEN "realign" ELSE "up")
       \/ /\ ~Readable(disk.app)
          /\ Goto("failed")
          /\ UNCHANGED installed
    /\ UNCHANGED <<project, builds, files, dir, disk, held, major, history>>

\* The server's install is skipped as well when the app's packages are the image's.
InstallServer ==
    /\ pc = "installServer"
    /\ \/ /\ LikeImage(disk.app) \/ disk.server = None
          /\ missed' = missed \cup {"server"}
          /\ Goto(IF files.schema # None THEN "push" ELSE "up")
          /\ UNCHANGED installed
       \/ /\ ~LikeImage(disk.app) /\ Readable(disk.server)
          /\ installed' = [installed EXCEPT !.server = disk.server]
          /\ Goto(IF files.schema # None THEN "push" ELSE "up")
          /\ UNCHANGED missed
       \/ /\ ~LikeImage(disk.app) /\ disk.server # None /\ ~Readable(disk.server)
          /\ Goto("failed")
          /\ UNCHANGED <<installed, missed>>
    /\ UNCHANGED <<project, builds, files, dir, disk, held, major, raw, lost>>

\* prisma generate, prisma db push; what else they need is not modelled.
Push ==
    /\ pc = "push" /\ disk.schema # None
    /\ installed' = [installed EXCEPT !.schema = disk.schema]
    /\ Goto("up")
    /\ UNCHANGED <<project, builds, files, dir, disk, held, major, history>>

InContainer ==
    pc \in {"align", "alignWrite", "install", "realign", "realignWrite", "installServer",
           "push", "up"}

\* The container, or what precedes its start, fails; the cleanup leaves the directory.
ContainerFails ==
    /\ InContainer
    /\ Goto("failed")
    /\ held' = None
    /\ commands' = {}
    /\ UNCHANGED <<source, edit, edits, builds, files, dir, disk, major, installed, history>>

Stop ==
    /\ pc \in {"up", "failed"}
    /\ Goto("idle")
    /\ dir' = FALSE /\ disk' = NoFiles
    /\ commands' = {}
    /\ UNCHANGED <<source, edit, edits, builds, files, held, major, installed, history>>

-----------------------------------------------------------------------------
(* An edit: the database, PreviewService.syncFile, the command after it     *)

\* A file is written, or removed; package.json stays.
Edit ==
    /\ edit = NoEdit /\ edits < MaxEdits
    /\ edits' = edits + 1
    /\ \E f \in Names :
          /\ \/ \E t \in Authored(f) :
                   source' = [source EXCEPT ![f] = [t EXCEPT !.v = edits + 1]]
             \/ /\ f # "app" /\ source[f] # None
                /\ source' = [source EXCEPT ![f] = None]
          /\ edit' = [NoEdit EXCEPT !.file = f]
    /\ UNCHANGED <<builds, files, dir, disk, pc, held, major, installed, commands, history>>

\* History: a copy that the fetched list does not have is filled over.
Outdated(f) == pc = "fetched" /\ files[f] # source[f]

\* History: the build writes over a copy with what it read before.
Overwriting(f) ==
    \/ f = "app" /\ pc \in AppHeld
    \/ f = "server" /\ pc = "depsWrite"
    \/ f = "schema" /\ pc \in SchemaHeld
    \/ f \in {"metro", "entry"} /\ files.metro = None /\ files[f] = None
       /\ pc \in {"sdk", "sdkWrite", "inject"}

\* History: the container's install took or read the file before the copy, or the
\* fetched list has no server and no schema and the container takes none.
TooLate(f) ==
    \/ f = "app" /\ pc \in {"alignWrite", "install", "realign", "realignWrite", "installServer",
                            "push", "up"}
    \/ f = "server" /\ (~Fullstack \/ pc \in {"push", "up"})
    \/ f = "schema" /\ (files.schema = None \/ pc = "up")

\* The state is read, and the directory looked for.
CheckPreview ==
    /\ edit.file # None /\ ~edit.checked
    /\ \/ /\ dir
          /\ edit' = [edit EXCEPT !.checked = TRUE, !.ready = (pc = "up")]
          /\ UNCHANGED lost
       \/ /\ ~dir
          /\ edit' = NoEdit
          /\ lost' = IF Outdated(edit.file) THEN lost \cup {edit.file} ELSE lost
    /\ UNCHANGED <<source, edits, commands, builds, files, dir, disk, pc, held, major,
                   installed, raw, missed>>

Special == {"app", "server", "schema"}

\* Mutant: the schema has no command.
OnlyInstalls(f) == f \in {"app", "server"}

\* getPostSyncCommand has a command for the file.
HasCommand(f) == f \in Special

CopyEdit ==
    /\ edit.checked
    /\ LET f == edit.file IN
       /\ disk' = [disk EXCEPT ![f] = source[f]]
       /\ dir' = (dir \/ source[f] # None)
       /\ commands' = IF edit.ready /\ source[f] # None /\ HasCommand(f)
                      THEN commands \cup {f} ELSE commands
       /\ raw' = raw \cup {f}
       /\ lost' = IF Outdated(f) \/ Overwriting(f) THEN lost \cup {f} ELSE lost \ {f}
       /\ missed' = IF TooLate(f) /\ ~(edit.ready /\ pc = "up") THEN missed \cup {f} ELSE missed
    /\ edit' = NoEdit
    /\ UNCHANGED <<source, edits, builds, files, pc, held, major, installed>>

\* npm install, or prisma generate and db push, in whatever container there is now.
RunCommand ==
    \E f \in commands :
        /\ commands' = commands \ {f}
        /\ \/ /\ InContainer /\ disk[f] # None
              /\ installed' = [installed EXCEPT ![f] = disk[f]]
              /\ UNCHANGED missed
           \/ /\ missed' = missed \cup {f}
              /\ UNCHANGED installed
        /\ UNCHANGED <<source, edit, edits, builds, files, dir, disk, pc, held, major, raw, lost>>

Build ==
    \/ Fetch \/ Fill \/ ReadForSdk \/ WriteSdk \/ Inject \/ Verify \/ ReadForMain \/ WriteMain
    \/ ReadForDeps \/ WriteDeps \/ ReadForConfig \/ Detect \/ WriteSchema \/ WriteConfig
    \/ ReadForAlign \/ WriteAligned \/ Install \/ InstallServer \/ Push

Next == Build \/ ContainerFails \/ Stop \/ Edit \/ CheckPreview \/ CopyEdit \/ RunCommand

Spec == Init /\ [][Next]_vars

-----------------------------------------------------------------------------
(* Properties                                                               *)

\* The form that Prisma wants of its two files from 7 on, and before.
InForm(m) ==
    IF m >= 7 THEN disk.schema.urls = {} /\ disk.config # None
              ELSE disk.schema.urls = {"env"} /\ disk.config = None

\* The first number of the version is the major that npm installs; one without a
\* number, such as "latest" or "*", is of version 5.
Telling(version) == version.number = version.major \/ (version.number = 0 /\ version.major = 5)

\* When the container sets Prisma up, both packages are declared, and schema.prisma and
\* prisma.config.ts are of the form that the declared command wants if and only if its
\* version tells the major, unless an edit replaced one of the files meanwhile or the
\* schema's url was never env("DATABASE_URL").
PrismaFits ==
    pc = "push" /\ raw \cap {"server", "schema", "config"} = {} /\ files.schema.postgres
       /\ files.schema.urls \subseteq {"env"}
       => IF Readable(disk.server)
          THEN /\ disk.server.cli # None /\ disk.server.client # None
               /\ InForm(disk.server.cli.major) <=> Telling(disk.server.cli)
          ELSE InForm(5)

\* The bundle starts from a file that is there: the author's own entry, or else the
\* preview's, unless an edit replaced one of the files meanwhile or the project has a
\* metro.config.js of its own.
EntryThere ==
    pc \in {"push", "up"} /\ raw \cap {"app", "entry"} = {}
       => /\ disk.app.main = "entry" => files.metro # None \/ disk.entry # None
          /\ files.app.main = "default" /\ files.entry = None => disk.app.main = "entry"
          /\ files.app.main = "custom" => disk.app.main = "custom"
          /\ files.entry # None => disk.entry = files.entry

\* An edit whose copying is over is in the directory of a running preview, unless the
\* build was about to write over the copy.  Builds below 7 remove prisma.config.ts.
EditsReach ==
    pc = "up" /\ edit = NoEdit
       => \A f \in Names \ ({"config"} \cup lost) :
             IF source[f] = None THEN disk[f] \in {None, Made}
             ELSE disk[f] \notin {None, Made} /\ disk[f].v = source[f].v

\* What a quiet preview has installed and pushed is what its directory declares,
\* unless an edit was copied after the install by a call that had found the preview
\* building, or into a build by one that had found the previous preview ready, a
\* command failed, or the server's install was skipped.
InstalledCurrent ==
    pc = "up" /\ edit = NoEdit /\ commands = {}
       => \A f \in Special \ missed : disk[f] # None => installed[f] = disk[f]

\* "inject them so npm install actually downloads Prisma before we run generate / db
\* push" (preview.service.ts:917-918): the server's packages are installed when the
\* container comes to set Prisma up, with the files as the build left them.
PrismaInstalled ==
    pc = "push" /\ raw = {} /\ Readable(files.server) => installed.server # None
=============================================================================

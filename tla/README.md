# Verification of the Bolder Vibes backend

This directory holds TLA+ models of the backend under `src/`, the TLC
configurations that check them on small instances, and theorems that the TLA+
proof system proves for every value of the constants.

The backend is one NestJS process with PostgreSQL (Prisma), Redis (ioredis),
the Docker command line and the Anthropic API around it. Users own projects,
projects have files, conversations in which a model edits the files, previews
of the running app, and builds of mobile artifacts. Nearly everything that is
hard in it is hard for one reason: a request handler reads some state, awaits,
and acts on what it read, while other requests, background builds, timers and
crashes act on the same project.

Paths below are relative to `src/src/`.

## Inventory

| Component | State it keeps | Operations |
| --- | --- | --- |
| `sandbox/preview/preview.service.ts` PreviewService | Redis `preview:<p>`, `global-active-previews`, `user-previews:<u>`, `preview-last-access:<p>`, `preview-token:<t>`; memory `buildingProjects`, `buildNonces`; the working directory | startPreview, buildAndStart, stopPreview, idle reaper, boot reset, syncFile, tokens |
| `sandbox/preview/preview.interface.ts`, `sdk-upgrade.ts` | none of their own: the commands a preview container runs, and what a build makes of package.json | ALIGN_VERSIONS_WITH_BAKED, EXPO_INSTALL, upgradeProjectToTargetSdk |
| `sandbox/runners/docker-runner.service.ts` DockerRunnerService | the containers, networks and ports of the host; log handles | startLongRunning, containerExists, cleanup, streamLogs, execute, database containers |
| `sandbox/preview/native-preview.service.ts` NativePreviewService | Redis `preview:native:<p>`; memory `starting`, `logStreams`; a container and a directory per project | start, stop, syncFile, deleteFile, log-close handler, 4-minute timer, shutdown |
| `sandbox/apk-build/apk-build.service.ts` ApkBuildService | Redis `apk:<p>`; memory `buildingProjects`, `logBuffers`; a container, a working directory, the artifacts on disk | startBuild, getStatus, getApkStream, shutdown |
| `conversations/chat-ai.service.ts` ChatAiService | memory `activeStreams` | streamChatResponse, runAgenticLoop, file tools, abortChat, generateTitle |
| `gateway/events.gateway.ts` EventsGateway | socket rooms | send_message, stop_chat, cancel_task, join and leave, emit helpers |
| `conversations/conversations.service.ts` ConversationsService | tables Conversation, Message | create, list, addMessage, remove |
| `files/files.service.ts`, `files/versioning/versioning.service.ts` | tables ProjectFile, FileVersion | create, update, remove, restoreVersion, createVersion |
| `agents/orchestrator/agent-orchestrator.service.ts` | tables AgentTask, AgentStep; Redis `task:cancel:<t>` | executeTask, cancelTask, requestCancellation |
| `auth/auth.service.ts` AuthService | table User (refresh token hash, reset token) | register, login, refreshTokens, logout, forgotPassword, resetPassword |
| projects, users, Expo account, sandbox controller, agents and providers, infrastructure | rows behind an ownership check, or nothing | not modelled, see the end |

How they interact. The gateway calls ChatAiService and reports what it yields
to the socket. The file tools of ChatAiService write ProjectFile and
FileVersion and then call `syncFile` of both preview services, which write
into the working directories that the containers mount. PreviewService reads
ProjectFile when a build begins, drives DockerRunnerService, and emits its
state through the gateway. The preview proxy touches the access time that the
idle reaper reads. ApkBuildService and NativePreviewService read ProjectFile
and drive docker themselves. The orchestrator writes files, versions and
previews at the end of a task.

What makes each correct:

- PreviewService: the flag "a build is running" never leaks; "building" is
  always on its way to something else; a crash is recovered from at boot; the
  host's capacity is respected; an outdated build does not report.
- PreviewService and DockerRunnerService on the host: a project without a
  preview holds nothing; a running one reaches its database and mounts its
  directory.
- PreviewService on the project's manifests: the entry is there, Prisma's files
  fit each other, an edit is not lost, what is declared is installed.
- ApkBuildService: one build per project; flag and state follow the build
  through failures, time limits and restarts; "ready" always has its file.
- Chat: one stream per conversation, always reachable by stop; a bounded
  number of turns; every announced response ends; the model sees the question.
- NativePreviewService: one tunnel per project; a stop is final; "ready" is
  about the container that runs.
- Files: the newest version is the content; version numbers are dense and
  unique; the quota holds; a preview serves what is stored, and the chat's
  context agrees with it.
- Orchestrator: a task ends in exactly one terminal state, and its steps agree.
- Auth: a logout or a reset is not undone by a refresh; a reset token works
  once.

## Plan

1. `PreviewLifecycle` with DockerRunnerService inside it, and the abstract
   `BuildLock` that its flag and nonce implement (done, with proofs).
2. `ApkBuild` (done, with proofs).
3. `ChatStream` over EventsGateway, ChatAiService and ConversationsService, and
   the abstract `TurnTaking` it implements (done, with proofs).
4. `NativePreview` (done, with proofs).
5. `FileStore`: FilesService, VersioningService, the file tools of the chat and
   the working directory of the previews; one path, several writers; and the
   abstract `VersionedFile` they implement (done, with proofs).
6. `Pipeline`: AgentOrchestratorService, tasks with their steps, the
   cancellation flag and the storing of their files and summaries; and the
   abstract `TaskLife` they implement (done, with proofs).
7. `HostResources`: the working directory, network, database and container of
   a full-stack project, with failing commands, expiring keys and crashes (done,
   with proofs).
8. `Manifest`: the repair and installation of dependencies, against edits (done,
   with proofs).
9. Open: a composition of `FileStore` and `Pipeline`, once a route calls
   `executeTask`; the races of AuthService, see the hazards; a composition of
   `PreviewLifecycle` and `HostResources`, whose steps multiply.

AuthService stays out: its calls are short and on one user's row, and what
matters about them is secrets rather than the order of steps.

The theorems in order of worth: the inductive invariants of the done modules
(proved), the refinements of `TurnTaking`, `BuildLock`, `VersionedFile` and
`TaskLife` (proved), the measures that calls, builds and tasks run down (proved,
but for the builds of `Manifest`; the tool calls of `FileStore` have none, since
the handlers of create and edit call each other as often as the file comes and
goes), the composition of 9.

## How the code became steps

Node runs one thread. The code between two awaits is not interrupted, so an
action is one awaited call together with the code that runs when it returns,
up to the next await. Two points need an argument.

- *Redis.* There is one ordered connection. A command and the handling of its
  reply may be taken as one step: another command can only take effect in
  between if it was sent later, and its reply is then also handled later, so no
  other handler sees a difference.
- *Docker, the file system and the database.* The effect of a command happens
  some time before the handler of its completion runs. What the handler then
  changes is either Redis or memory, and nothing the effect touches is read by
  the code in between except through a further awaited command, so effect and
  handler can again be taken together.

Every catch branch and every early return of the modelled functions is a
disjunct. A query or a command may fail wherever the code awaits it, unless
the failure is listed below as left out.

## PreviewLifecycle

| TLA+ | code |
| --- | --- |
| `status` | Redis `preview:<project>`, its `status` field |
| `globalSet`, `userSet`, `recent` | `global-active-previews`, `user-previews:<u>`, `preview-last-access` against the idle timeout |
| `building`, `nonce` | `buildingProjects`, `buildNonces` |
| `container`, `running` | the container with the project's name and the build that created it; whether it runs |
| `pc`, `target`, `todo`, `cnt`, `cur` | where a start or stop request, or the reaper, stands in its function, and its local variables |
| `bpc`, `bcont` | where the build of a start request stands in `buildAndStart`, its handlers and its watcher; the container whose port it polls |
| `mode`, `bootTodo`, `bootCur`, `crashes` | the process: serving, dead, or inside `onModuleInit` |
| `orphaned` | history variable: the state is a leftover of a dead process |

A start request is `StartRequest` to `Announce`; the build it launches is
`BuildFiles` to `TouchReady` or `FailMark`, then the watcher. A request is used
once and names its build, which is what the random nonce does in the code. A
stop is `StopRequest` to `StopCleanup`; the reaper runs the same steps without
the owner's set. `BuildRun` needs the name to be free, because `docker run`
does; otherwise `BuildFail`. `containerExists` may answer "no" for an existing
container (its command has a timeout) and answers "yes" for an exited one.

Left out: what is in the working directory (see `FileStore` and `Manifest`),
ports, the database container and network of full-stack projects (see
`HostResources`), and a failing Redis or `docker rm`. Overlapping runs of the
reaper are left out: a run takes seconds, the timer two minutes.

Runs (`MCPreview`):

- `Preview.cfg`: one project, two requests that may each be a start or a stop,
  every interleaving with builds, watchers, reaper and expiry, and one crash at
  any point, under fairness. Two starts have the builds meet, and the reaper is
  a stop that comes on top of them. `BuildingBacked`, `BootRecovers`,
  `KeepsLock`, `FlagClears` and `BuildingResolves` hold; the first three are
  proved for any number of requests and crashes.
- `PreviewStaleBuild.cfg` finds a build that reports after its nonce is gone.

The global limit does not bound the running containers, although its comment
("protects the host from OOM") reads as if it did: it counts `status`, which is
written several awaits after the check, so two starts of different projects
both pass a limit of one. The model keeps the limits for their refusals.

Proved in `PreviewLifecycleProofs` for any constants that satisfy
`ConstantsAssumption`: `TypeOK`, `FlagBacked`, `BuildingBacked`,
`BootRecovers`, the refinement `KeepsLock`, and `Onward`. The inductive
invariant is

    TypeOK /\ TargetOK /\ NonceOwner /\ FlagBacked /\ BuildingBacked /\ BootPending

`FlagBacked` alone is not inductive: `Announce` overwrites the nonce of
another build, which is harmless only because the nonce of a project always
belongs to a build of that project (`NonceOwner`), and `ClearFlag` compares
with it. `TargetOK` says that whoever is under way has a project.
`BuildingBacked` needs `FlagBacked`'s companion facts for the same step.
`BootPending` carries recovery: while the process boots, each tracked project
that is "building" is still to be looked at, so an empty list means there is
none.

`BuildLock` is what `buildingProjects` and `buildNonces` are for: a lock per
project that a build takes when it is launched, also from another build; that
the end of its holder frees, and the end of a build it was taken from does not;
that a stop or the death of the process frees at once. `locked` is the flag,
`holder` the nonce, `alive` and `fresh` are the requests whose build runs or is
not launched yet. In `Implementation` each step of the service is one step of
the lock or none: `Announce` is `Take`, what ends a build is `End` (`ClearFlag`
is where the nonce is compared; `NonceOwner` says that the only project it can
free is the one the build holds), `StopRequest` and the reaper are `Free`,
`Crash` is `Lose`. `Take` needs the build to be fresh, which is `OneBuild`: who
has launched a build has answered. `FlagBacked` follows from `KeepsLock` and is
no longer a property of the run.

`Onward` is the safety half of `FlagClears` and `BuildingResolves`: two
measures, the stations ahead of a request and of its build, fall with every
step of their own and rise with nobody's. A request that counts a set has as a
second component the members it has still to look at. With the fairness of the
steps, which stays with the run, both come to an end.

## ApkBuild

| TLA+ | code |
| --- | --- |
| `key` | Redis `apk:<project>`: status, platform, build type |
| `flag` | `buildingProjects` has the project |
| `container`, `workDir` | who holds the project's container name and its working directory |
| `artifact` | the file per extension in the uploads directory |
| `want`, `pc` | the arguments of a call of `startBuild`, and where it and its build stand |
| `rpc`, `rext` | where a call of `getStatus` or `getApkStream` stands, and the file it is to open |
| `lateKill` | the `docker rm -f` issued by a time limit and not yet executed |
| `raced` | history variable: a build was launched while the flag was set |
| `orphaned` | history variable as above |

Local and cloud builds share their steps; where they differ (a cloud build
finds its artifact's URL in the log even when the working directory is gone)
the action has the condition. `Collect` is the end of the artifact's download or
copying. `downloadFile` sets no timeout, so that a download ends, by success or
failure, is an assumption on the network: `Fairness`, and with it `BuildResolves`,
and the guard of `Expire` rest on it. On SIGTERM the Redis connection is closed in
`onModuleDestroy`, before `onApplicationShutdown` removes the containers, so a
build that fails in this way writes nothing any more: `Die` is one step. A key
lives 24 hours and a build at most 45 minutes beside its download, hence the
guard of `Expire`.

Runs (`MCApkBuild`):

- `ApkBuild.cfg`: two builds out of four kinds (one for each extension and one
  that is refused), two clients that poll and download, one crash or shutdown.
  `SerialBuilds` says what is left of exclusion: as long as the race at the
  entry has not happened, nothing else lets a second build in. The race itself
  (the guard "to prevent two parallel builds" is tested three awaits before it
  is set) is what `raced` records; it does happen.

Proved in `ApkBuildProofs`, for any number of builds and clients: `TypeOK`,
`FlagHasBuild`, `BuildingHasBuild`, `DownloadServes`, `SerialBuilds`, and, from
the same invariant, `Isolated` and `Onward`. The
inductive invariant adds `FlagHeld` and `ArtifactKept`. `FlagHeld` says: while
no build was launched under a set flag, a build in flight is the only one and
the flag is set. `SerialBuilds` alone is not inductive, because `finally`
clears the flag whoever set it; when the build that does so is the only one,
nobody is hurt. `ArtifactKept` says that the artifact a finished build is about
to announce is on disk: nothing in the service deletes artifacts, so it stays.

`Isolated` is what exclusion is wanted for, and a theorem only. As long as no
build was launched under a set flag, the directory a build works in, the
container it waits for and the artifact it is about to announce are its own,
whatever a container that outlived a crash, the late removal of a timed-out one
or a poll that suspects an orphan still do. `Onward` says that a build passes at
most eleven stations and that nobody leads it back, the safety half of
`BuildResolves`.

## ChatStream and TurnTaking

| TLA+ | code |
| --- | --- |
| `exists`, `log` | the Conversation row and its messages |
| `active`, `aborted` | `activeStreams`, and which controllers were aborted |
| `pc` | where the handling of a message stands, from socket to last event |
| `prompt`, `turns`, `truncations`, `calls`, `text` | locals of `runAgenticLoop` and of the gateway: messages, `iteration`, `consecutiveTruncations`, remaining tool calls, whether `fullResponse` has text |
| `ui` | the last event the client was sent for a message |

`LoopTop` and `Return` are shared tails: the test at the head of the loop, and
what happens from the loop's return through `finally` to the gateway. A stop
is `StopChat`; a stop that finds no controller does nothing and needs no
action. `Remove` deletes the conversation under a running stream.

`TurnTaking` states what a conversation promises: at most one exchange has the
floor, and only it asks for turns, at most `MaxTurns` times. `KeepsTurns`
instantiates it with the registered controller as the floor.

Runs (`ChatStream`): `Chat.cfg` has two messages, by socket or by REST, a
history of two, three turns, one truncation and two tool calls per turn: enough for a
takeover in every phase, for the turn limit to be hit by tool calls and by
truncations, and for the history to overflow. `ChatHistory.cfg` shows that the
history is cut at the wrong end. A message whose conversation is gone ends in
`"error"` without an end, since the lookup stands outside the `try` block;
`ResponsesEnd` is about responses that were announced.

Proved in `ChatStreamProofs`: `TypeOK`, `ActiveStreamsExact`, and the
refinement `KeepsTurns`. The inductive invariant adds `Early` (a message whose
stream has not begun has used no turn and is not aborted) and `CallsLeft`
(whoever executes tools has a call left). `ActiveStreamsExact` is what makes
the refinement go through: a further turn is only asked for by a stream that
is not aborted, hence registered, hence has the floor.

Three more theorems are about what no run could enumerate far enough.
`Transcript`: a message is stored once, an answer only after the message it
answers, and the log goes with the conversation; it is inductive together with
`Stored`, which says what is in the log by where a send stands.
`ShortHistoryKept` is the complement of `ChatHistory.cfg`: as long as the stream
was given fewer messages than the limit, the one it is to answer is among them,
so the limit is the only place where it can get lost. `Announced` and `Nearer`
are the safety half of `ResponsesEnd`: an announced response has a number of
awaited calls ahead of it, turns times tool calls at most, that each of them
makes smaller and that no stop, newer message or removal makes larger.

## NativePreview

| TLA+ | code |
| --- | --- |
| `key` | Redis `preview:native:<project>`, its status; "idle" when absent |
| `starting`, `handle` | `starting`, `logStreams`: the start whose stream is registered |
| `container`, `up` | the container with the project's name, by the start that created it; whether it runs |
| `pc` | where a call of `start` (with `runStart`, `catch` and `finally`) or of `stop` stands |
| `streams`, `killed` | the `docker logs -f` processes that have not closed, and those that were killed |
| `timers`, `url`, `rpc` | per start: its timer, whether `expoUrl` is known, where `resolveTunnelUrl` stands |
| `gpc` | where the asynchronous part of a stream's close handler, or of a timer, stands |
| `orphaned` | history variable: the process died and nobody wrote the key since |

A start is over for its caller when the state says "building", and for
`starting` when its container runs. What it leaves behind acts by the project's
name and never asks whose container, key or stream it finds: the close handler
drops whatever stream is registered, the timer removes whatever container has
the name. The module asks what of the promises survives that.

`Fail` covers a failure in any awaited step, also a `docker run` that exceeds
its timeout after it created the container. `Expire` is guarded: the key lives
an hour from its last write, and everything a start leaves behind writes the
key or is over within minutes.

Left out: the working directory, which is in `FileStore`; the repair of
dependencies; and a `docker stop` or `docker rm` that fails or exceeds its
timeout. `forceRemoveContainer` ignores both and goes on, and `RemoveContainer`
always succeeds: `NoAbandonedTunnel` is about who removes a container, not about a
docker daemon that refuses to.

Runs:

- `Native.cfg`: two starts, a stop, one crash or shutdown, under fairness. Two
  starts are needed for the handlers of one to meet the other, and the stop to
  let the second one in while the first one's are pending. `FlagHasStart`,
  `BuildingBacked`, `NoAbandonedTunnel` and `BuildingResolves` hold. After a
  crash it is only the TTL that ends "building": `start` returns it until then.

The timer of a start is never cleared and asks only for the project's name and
state: after a stop and a new start it may give up the second start's tunnel
before its four minutes are over. The properties hold all the same, since whatever
it gives up it also removes; they do not exclude it, and nothing else does.

Proved in `NativePreviewProofs`, for any number of starts, stops and crashes:
`TypeOK`, `FlagHasStart`, `BuildingBacked`, `NoAbandonedTunnel`. The inductive
invariant adds `Once`: a start's stream closes once and its timer fires once,
after the start is done. Without it a handler could be begun a second time
while it is pending, and the model would forget the first.

`Onward` is the safety half of `BuildingResolves`. A call passes at most seven
stations. The two handlers a start leaves behind have a measure that also counts
whether they may still begin: as long as the start, its log stream or its timer
can bring them on. So each is begun at most once and then has three steps.
`resolveTunnelUrl` has no such measure: a further line of the log may begin it
again until the URL is known.

Not a property: "ready" with a container that runs. The close handler leaves a
"ready" state alone when the URL was once known, so a tunnel that dies later
stays "ready" in Redis until the TTL or a stop.

## FileStore

One path of one project is written from three sides: the REST calls of
FilesService, the file tools of a conversation, and the starts and stops of
the previews, which fill and remove the directory their containers mount. The
database orders single queries and nothing more.

| TLA+ | code |
| --- | --- |
| `row`, `content` | the ProjectFile row of the path: its id, its text |
| `versions` | its FileVersion rows, which go with the file (`onDelete: Cascade`) and whose number is unique per file |
| `dir`, `disk` | whether the preview's working directory exists, and the file in it |
| `loop`, `cache` | whether `streamChatResponse` has loaded its tree, and the entries for the path in its `fileContext` |
| `pc`, `fileId`, `text`, `last` | where a call stands, and its locals: the id it found, the text it writes, the version it saw |
| `gap`, `drift`, `foreign` | history variables, see below |

A REST call is `RestCreate`, or `RestFind` and what follows. Recording a
version is `LastVersion` and `InsertVersion`, with the unique key refusing a
number that was taken meanwhile: such a call has changed the file, leaves no
version and copies nothing. A tool call is a handler from `ReadFile` to
`DeleteFile`; the handlers of create and edit call each other when the file
has come or gone. The copying is `Stat`, then `WriteFile` or `Unlink`; a start
is `FetchFiles` to `FillDir`. A text is named after the call that wrote it.

The promises of this code are not unconditional, and the history variables say
exactly where they end. `gap` is set by a write of the chat, whose edits leave
no version, and by a write that meets another one between its row and its
version; `drift` by a restore, which is copied nowhere, and by a write, start
or stop that meets another one between its row and its copy; `foreign` by any
REST write since the loop began. Each is cleared by the next write (or start)
that is alone, so the properties also say that the damage does not outlast it.

Left out: sizes and the amounts of the quota (a creation may be refused at any
time), diffs, the seeding of empty projects by a start, the `npm install` that
follows some copies, failing queries and file operations, crashes, and the
orchestrator's writes, which no route reaches. Web preview and tunnel treat
their directories alike; one stands for either. An empty text is treated by
the context like an entry of the tree and is left out.

Run (`MCFiles`): `Files.cfg`, with two REST calls of any kind, two tool calls
and one start or stop. Two calls are what every race here needs; the preview
adds a third party to a pair that already races. `CallSymmetry` is sound: the
calls are alike to the abstract file as well, and nothing needs fairness.

- `KeepsHistory`: the calls together implement `VersionedFile`, see below.
- `HistoryCurrent`: the newest version is the file, unless `gap`.
- `PreviewCurrent`: the preview's copy is the file, unless `drift`.
- `CacheCoherent`: the context has one entry exactly if the file exists, and
  its text if it has one, unless `foreign`. With a foreign deletion the tools
  can leave two entries, of which the older is found first.

Proved in `FileStoreProofs`, for any number of calls and previews: all five,
and `VersionsDense`. The inductive invariant has a strengthening for each. `Dense` says that the
numbers are `1 .. k`; it needs `LastSeen` (the number a call saw is still in
the table, as long as its file is), so that a free successor can only be the
next one. `LastSeen` needs `IdsFresh`: the id of a file that is created later
is in nobody's hands. `Recorded` adds to `HistoryCurrent` that without a gap
there is one recording at most, that it has the file's text and that its
number will be free; `Copied` says the same of `PreviewCurrent` and of each
step of a copying. `RowOK` and `KindOK` tie a call's locals to its label.

`VersionedFile` is what a file promises its owner: it has one text; its history
is only ever added to, by a text that was written to the file since it was
created, with the next number; and the history goes with the file. `file`,
`text` and `history` are the row and its versions, `count` is the newest number,
`pending` the texts whose calls are about to record them for this very row. In
`Implementation` a REST creation is `Create` with a text pending, a tool's
without; an update or restore is `Write`; `InsertVersion` is `Record`, or
`Forget` when the unique key refuses the number; every other step is none. The
step that needs the invariant is `InsertVersion`: `Dense` and `LastSeen` make the
free successor of the number that was seen the next one, and `IdsFresh` keeps a
call that still holds the id of a deleted file out of the history of its
successor.

## Pipeline

`executeTask` runs a planner, a developer and a refactorer one after the other,
applies the changes the last of them gave, and posts a summary. It is one long
function of awaits, inside one try block.

| TLA+ | code |
| --- | --- |
| `status`, `steps` | the status of the AgentTask row and of its three AgentStep rows |
| `flag` | Redis `task:cancel:<t>`, which lives five minutes |
| `conversation`, `messages` | whether the conversation exists, and which tasks have their summary in it |
| `files`, `versions` | per path who wrote its ProjectFile row last; the FileVersion rows that name a step of a task |
| `pc`, `agent` | where a task stands, and which agent's turn it is |
| `todo`, `held` | the changes still to be applied; whether the row found for the first of them still exists |
| `due` | history variable: the flag was set while a check was still to come, and has not expired |
| `touched` | history variable: the task wrote or deleted a file |

The three agents share the actions `Check` to `FinishStep`; `agent` says whose
turn it is. `InsertFile` to `DeleteFile` are the body of the loop of
`applyFileChanges`, which does everything by id: a row that a user deleted
meanwhile makes the next query fail. `Throw` is any awaited call that fails
inside the try block, `FailTask` its catch block. `cancelTask` is returned and
not awaited, so what fails in it is not caught: the task is `"rejected"`, as it
is when its row cannot be inserted or marked as failed. The number of a version
may collide with another writer's; that is one of the failures of the label
`"version"`.

Left out: what the prompts are made of, plans and results, tokens and
durations, the retries around a model's call, and which of two steps a version
names. `SyncToPreview` is a step that may fail and has no other effect: that
`syncToPreview` copies each change into the preview's directory, and takes a
change without content for a deletion, is left out, and `FileStore`, which has
`syncFile` for the other callers, does not have this one. A user's version names no step
and is not counted in `versions`. No fairness is assumed and no liveness
claimed: a task that died with its process is never taken up.

Run (`MCPipeline`): `Pipeline.cfg`, with two tasks, two paths and three change
lists: none, one creation, an update followed by a deletion. `TaskSymmetry` is
sound: tasks are alike to `TaskLife` as well, and nothing needs fairness.

- `StepsAgree`: an agent begins when its predecessors are COMPLETED; a
  COMPLETED task has three COMPLETED steps; whoever returned has a terminal
  state.
- `CancelHonoured`: a cancellation that a check can still see, and that does
  not expire, leaves every file alone; and a task that changed a file is never
  CANCELLED.
- `KeepsLife`: the tasks implement `TaskLife`, see below.
- `Attributed`: a text an agent wrote has a version naming its task, unless
  the task is about to write it or did not get through.

Proved in `PipelineProofs`, for any number of tasks, paths and changes: all
five, `Answered`, and `Onward`. The inductive invariant is

    TypeOK /\ StepsOK /\ StatusOK /\ DueOK /\ MessagesOK /\ TodoOK /\ Attributed

`StepsOK` ties the steps to `agent`: those before it are COMPLETED, those after
it are not there, and whoever applies changes, or ever touched a file, has the
third COMPLETED. `DueOK` says that a due cancellation has its flag set while a
check is to come, or the task is at an end, and that the third step is not
COMPLETED; with `StepsOK` that gives `CancelHonoured`. `StatusOK` has where
each terminal state can be found; its clause that a CANCELLED task has no step
for the agent whose turn it is is why no step is left running. `TodoOK` keeps
the change that a row was found for.

`TaskLife` is what the status of a task tells a client: the agents begin and
finish in their order; no file changes before the last has finished; a task ends
once, COMPLETED, FAILED or CANCELLED; a COMPLETED one is answered while there is
a conversation, and may become FAILED until then; a CANCELLED one changed
nothing. `done` is the set of agents whose step is COMPLETED, `over` the tasks
that returned. `Implementation` needs beside the invariant `StageOK`: at each
label the row has the status of the agent whose turn it is, or of the one before
while the next has not begun. `Answered` says the same of the summaries as a
state: they are there for the COMPLETED tasks and no others, although COMPLETED
is stored first, because a summary that cannot be stored takes COMPLETED back,
and the removal of a conversation is looked up.

`Onward` says that a task comes to an end whatever lists of changes the agents
give: a step of its own lowers its phase, of which there are twenty-one, or
leaves the phase and lowers the work, three steps for each change that is left;
and nobody else's step raises either. A pair is needed because no bound on the
lists is assumed. It is no liveness claim: a task that dies with its process
stays where it is.

What the model makes plain, and no comment contradicts: a task that completed
and told its client so becomes FAILED when its summary cannot be stored; the
running step of a failed task stays RUNNING; no cancelled task ever has a step
to skip, since the checks stand between the steps; a flag that expires while an
agent runs is a cancellation lost.

## HostResources

`PreviewLifecycle` has who may start, stop and report, and one container.
`HostResources` has what the preview of one full-stack project holds on the
host, and every command that makes or removes a part of it. The requests are
reduced to the flag, the nonce and the key.

| TLA+ | code |
| --- | --- |
| `key`, `flag`, `nonce` | Redis `preview:<project>`, `buildingProjects`, `buildNonces` |
| `dir` | the working directory, named after the build that made it |
| `net`, `db` | the network `bv-net-<p>`; the container `bv-db-<p>`, by the build that ran it |
| `app` | the container `bv-preview-<p>`: its build, the directory behind `/app`, whether it runs and is on the network, the database its schema was pushed into, whether a later build took it over |
| `pc`, `then`, `polls` | where a start with its build, a stop, or the process (`Boot`) stands; where its cleanup or verdict leads; the container whose port a build polls |
| `disturbed` | history variable, see below |

A start is `StartRequest` to `Announce`, its build `ClearDir` to `Settle`, then
the watcher. `Reuse`, `NoReuse`, `Replace`, `RunApp` and `Connect` are
`startLongRunning`; `RemoveApp`, `RemoveDatabase` and `RemoveNetwork` are
`runner.cleanup`, which a failed build, a stop, a ghost state and recovery
share. Each command may fail where the code lets its failure through, and
`docker run` may fail having created the container. Docker's own rules are part
of the model: a name in use is refused, a network in use stays, a missing bind
source is made. The removal of a directory is best effort in the code and in
`DirLeft`.

What the code promises ends where two operations are under way at once, where a
death falls between the deletion of the key and the end of the cleanup, and
where the key of a finished preview runs out: an hour after the verdict, while
the access time that keeps the reaper away is renewed. `disturbed` records the
three. A stop that ran alone to its end and finds nothing left clears it, so
the properties also say that the damage does not outlast such a stop.

Left out: a failing `docker rm`, whose failure the code ignores as well; ports,
volumes and images; the sandbox container and log streams that `cleanup` ends
too; failing Redis calls.

Runs (`MCHostResources`):

- `HostResources.cfg`: two starts, a stop and two deaths in every order. Two
  starts let a container be taken over, the stop gives the second one a fresh
  host, and the second death meets the recovery from the first.
  `StartSymmetry` is sound: no property is temporal.
  - `NothingLeft`: without a preview there is no container, database or
    network, after every stop, failure, death and recovery.
  - `DatabaseReachable`: a ready preview that runs is on a network with its
    database, also when it was taken over and when the earlier key had run out.
  - `ServesOwnBuild`: unless it was taken over, it mounts the directory that is
    there and has pushed its schema into the database that is there.
- `HostMount.cfg` finds what the exception hides: a second start removes and
  remakes the directory, drops and recreates the database, and then takes over
  the container, which mounts the old directory.

Proved in `HostResourcesProofs`, for any number of starts, stops and deaths: all
four. The inductive invariant is

    TypeOK /\ PlacesOK /\ DownOK /\ OverlapOK /\ KeyOK
      /\ CleanOK /\ ClearOK /\ NetOK /\ DbOK /\ OwnOK

`PlacesOK` ties `then` to whoever cleans up. `OverlapOK` says that two
operations under way are on record; so while nothing is, one actor is at work,
and each later conjunct is about what that one has made so far. `KeyOK` has the
key follow it: without it a crash could leave resources under a key that
recovery does not look at. `CleanOK` and `ClearOK` carry `NothingLeft` through a
cleanup, `NetOK`, `DbOK` and `OwnOK` carry the others through a build.

`Onward` is a measure of a start, from its request through a ghost's removal and
its build to the end of the watcher, and of a stop: it falls with every step of
its own, at most twenty-six times, and rises with nobody's. The cleanup that four
operations share falls by where it leads, which `PlacesOK` bounds. Recovery
(`Boot`) has none, since each death begins it again.

## Manifest

A build writes the fetched files and then adapts `package.json`,
`server/package.json`, `server/prisma/schema.prisma`, `prisma.config.ts`,
`metro.config.js` and the preview's entry, one after the other: it reads a file,
awaits, and writes it back. The container aligns `package.json` once more and
installs. Meanwhile `syncFile` copies edits of the same files into the same
directory and runs a command after some of them.

| TLA+ | code |
| --- | --- |
| `source`, `files` | the project's files in the database; the list that a build fetched |
| `dir`, `disk` | the working directory, and the files in it |
| `pc`, `held` | where `buildAndStart`, and then the container's command, stands; the text read and not yet written back |
| `major` | the version that `detectPrismaMajor` returned |
| `installed` | the texts that `npm install` or `prisma db push` last worked on |
| `edit`, `commands` | the edit whose `syncFile` is under way, with what it saw; commands that were begun and not awaited |
| `raw`, `lost`, `missed` | history variables: files that an edit replaced since the build's own, files whose copy met a build's writing, files that came too late for the install |

A text is a record of what the build tells apart: whether it parses, whether it
declares the target SDK, the runtime and other packages as the image has them,
its `main`, the declared versions of Prisma's two packages, the `url` fields of the
datasource. A version is two things that its text need not agree on: the first
number in it, if it has one, and the major that npm installs for it. "^5.22.0" is 5
and 5, "latest" none and 7, ">=5" 5 and 7, where 5 stands for all majors up to 6 and
7 for all later ones. `Upgraded`, `WithEntry`, `WithPrisma`, `Adapted`, `Aligned`
and `Major` are what the functions compute of a text; `Number` is the match in
`detectPrismaMajor`, with its fallback of 5. Whose `metro.config.js` and entry
they are is read from the list and not from the directory, here as in the code.

Left out: two of the three pairs of schema and manifest that `ensurePrismaDeps`
tries (`prisma/` and `backend/`), a package declared both in `dependencies` and in
`devDependencies`, starts and stops that overlap with a build
(`PreviewLifecycle` and `HostResources` have them), the proxy script. What
`npm` and `prisma` do with a manifest that parses is external: they succeed on
what is there, or the container fails.

Runs (`MCManifest`):

- `Manifest.cfg`: two builds and one edit; the app's `package.json` as the
  template's, extended, legacy or broken; the server's without Prisma, with
  Prisma 7, with its client alone, with "latest" or ">=5" for its command, or
  broken; a schema with and without a url.
  - `PrismaFits`: when Prisma is set up, both packages are declared, and schema and
    `prisma.config.ts` have the form that the declared command wants if and only if
    its version tells the major (`Telling`): the first number is the major that npm
    installs, or there is none and it is 5.
  - `EntryThere`: `main` names the preview's entry only if it is there, an
    author's `main` and entry are kept, and a default `main` is pointed at it.
  - `EditsReach`: an edit whose copying is over is in the directory of a running
    preview, unless it is in `lost`.
  - `InstalledCurrent`: what a quiet preview has installed is what its directory
    declares, unless the file is in `missed`.
- `ManifestPrisma.cfg`: no edit. In the container `(cd server && EXPO_INSTALL)`
  compares the packages of `/app/package.json` with the image's, and skips the
  server's install with the app's.

Proved in `ManifestProofs`, for any texts, builds and edits: all five. The
inductive invariant is

    FilesOK /\ HeldOK /\ InstalledOK /\ LocalsOK /\ PlacesOK
      /\ ReachOK /\ EntryOK /\ PrismaOK /\ InstallOK

The first four are `TypeOK`. `ReachOK` follows a text from the database to the
fetched list, the directory, the hand of a build and back: at each place it is
the source's unless the file is in `lost`. Without the clause about `held` it is
not inductive, since the write back would put an old text over a new one.
`EntryOK` and `PrismaOK` say, stage by stage (`Filled`, `Injected`, `Pointed`,
`Configured`, `Container`), what the build has made of its files so far;
`InstallOK` says that before the install nothing is missed, and why an aligned
text is not changed by the second alignment. `PrismaSafety` is for any versions, as
a number and a major of which neither determines the other: the build takes the
number for the major, so the equivalence of `PrismaFits` is all that can be said.

`PrismaDownload` is the complement of `ManifestPrisma.cfg`: with the files as a
build left them, a project whose app declares a package beside the image's has
both packages of Prisma installed when they are first used, and a project that
declares the image's own, as the template does, never has in its first build.
It needs `ImageOK`, that a build and the alignment change a manifest but not
whether its packages are the image's, and `ServerOK`, that the server's manifest
stays readable and that before the first install nothing is installed there.

What the model makes plain, and its properties name as exceptions: a project
with a `metro.config.js` of its own and a default `main` has `main` pointed at an
entry that is never written; a `metro.config.js` or entry that an author creates
between the fetch and the injection is written over, although the comment says
"never clobber a user-authored one"; a manifest that declares `"prisma": "latest"`,
"*" or ">=5" has its files put into the form of Prisma 5, url in the schema and no
`prisma.config.ts`, for a command that wants the other, although the step is
"Ensure Prisma config matches the installed version" (`preview.service.ts:651`); a
manifest that declares only the client of
Prisma 7 gets the command of Prisma 5; below 7 an author's `prisma.config.ts` is
removed; an edit of an adapted file reaches a running preview unadapted; an edit
that arrives while the container installs is copied and never installed.

## Fairness

`Fairness` of each module that has one says only that the program's own steps go on: an
awaited call returns or throws (docker commands, fetches and polls carry
timeouts; a hanging Redis or database is out of scope), a polling loop meets
its deadline, a process that died is restarted, and a key that nobody writes
again reaches its TTL. Nothing is assumed of clients, of containers, or of the
reaper's timer. For a chat, the model's turn is assumed to end.

## Bounds

| Constant | Why it is enough |
| --- | --- |
| requests 2, builds 2, messages 2, starts 2, tasks 2 | the hazards are pairwise: one actor acts on what it read before another acted; the reaper, the timers and the users come on top |
| one project | the services key all their state by project; only the limits relate two of them |
| `MaxCrashes` 1, on the host 2 | one crash at any step, on the host a second one that meets the recovery of the first; boot recovery is also proved for any number |
| `MaxBuilds` 2, `MaxEdits` 1 | a build, its preview and the next build, with an edit that is copied before, in or between them; the proofs have any number |
| REST calls 2, tool calls 2, previews 1 | a race needs two; create and edit call each other once per change of the file |
| paths 2, change lists of at most 2 | a task at one file while another, or a user, is at the same or the other one; every kind of change occurs |
| `HistoryLimit`, `MaxTurns`, `MaxTruncations`, `MaxCalls` 2, 3, 1, 2 | each limit is reached and passed |

`CHECK_DEADLOCK FALSE` is set in the runs whose requests are used up: when the
last one is handled the model has nothing left to do.

## Proved, checked, found

| | TLAPS, all constants | TLC only |
| --- | --- | --- |
| Preview | `TypeOK`, `BuildingBacked`, `BootRecovers`, `KeepsLock`; `FlagBacked`, `OneBuild`, `Onward` | `FlagClears`, `BuildingResolves` |
| Apk | `TypeOK`, `FlagHasBuild`, `BuildingHasBuild`, `DownloadServes`, `SerialBuilds`; `Isolated`, `Onward` | `BuildResolves` |
| Chat | `TypeOK`, `ActiveStreamsExact`, `KeepsTurns`; `Transcript`, `ShortHistoryKept`, `Announced`, `Nearer` | `ResponsesEnd` |
| Native preview | `TypeOK`, `FlagHasStart`, `BuildingBacked`, `NoAbandonedTunnel`; `Onward` | `BuildingResolves` |
| Files | `TypeOK`, `HistoryCurrent`, `PreviewCurrent`, `CacheCoherent`, `KeepsHistory`; `VersionsDense` | |
| Pipeline | `TypeOK`, `StepsAgree`, `CancelHonoured`, `Attributed`, `KeepsLife`; `Answered`, `Onward` | |
| Host | `TypeOK`, `NothingLeft`, `DatabaseReachable`, `ServesOwnBuild`; `Onward` | |
| Manifest | `TypeOK`, `PrismaFits`, `EntryThere`, `EditsReach`, `InstalledCurrent`; `PrismaDownloaded` | |

What stands behind a semicolon is stated and proved in the proof module, and no
property of a run.

The properties in the right column are liveness under fairness, which the
proof system's back ends cannot treat, as they cannot treat ENABLED. What is
proved of them is the half that is safety: whoever they wait for is there
(`FlagBacked`, `BuildingBacked`, `BuildingHasBuild`, `Announced`), has a number of
steps ahead, and no step of anybody raises that number (`Onward`, `Nearer`). That
the steps are taken, and can be, rests on the runs.

The code departs from its own comments in these places, each with a
run that ends in a counterexample:

- a build that lost its nonce still reports (`PreviewStaleBuild.cfg`);
- beyond the history limit the model is not given the question
  (`ChatHistory.cfg`);
- a second start takes over a container that mounts a removed directory
  (`HostMount.cfg`);
- the server's packages, Prisma among them, are not installed when the app's are
  the image's (`ManifestPrisma.cfg`).

Others need no run, because the model is built on them or a history variable
names them: a restored version reaches no preview, the chat's edits leave no
version, the global preview limit is passed by concurrent starts, two artifact
builds pass the guard together (`raced`), the timer of an earlier tunnel gives
up a later one, a message to a conversation that is gone is never ended, and
those listed under `Manifest`.

## Not modelled

- Ownership checks, guards, validation, pagination and response shaping: they
  decide whether a request reaches a handler and keep no state.
- Auth: two races (a refresh against a logout or reset, two resets with one
  token) are listed as hazards; what else could be asked is about secrets.
- Projects, users, templates and the Expo account: single-row operations.
- Prompts, parsing and the AI providers: stateless around a remote model.
- Preview tokens: written once and read, they expire by TTL.
- The proxying of HTTP and web sockets: pure input and output.

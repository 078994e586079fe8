# T3 Code in TLA+

T3 Code is a WebSocket server that wraps coding agents (Codex, Claude Code), a
web client and a desktop shell. Its core is an event-sourced *orchestration*
subsystem: commands become events, events feed an in-memory read model, SQL
projections and a handful of reactors that drive the agents, git and the
workspace. This directory holds the specifications of that core, of the agent
sessions behind it, of the client that follows it with its unsent drafts, of the
terminals and the git actions beside it and of the desktop shell around it; the TLC
runs that check them on small instances; and machine-checked proofs about the
command engine, the projections, the agent sessions and the questions they ask, the client and
its drafts, the terminals, the desktop shell, the git actions and the checkpoints.

Paths below are relative to `src/apps/server/src/` unless they start with
`apps/`, `packages/` or `.plans/`.

- [Inventory](#inventory) - the parts, their state, what is hard about them
- [Modules](#modules) - which module models what, and how it maps to the code
- [Runs](#runs) - what each run checks, its bounds
- [Fairness and faults](#fairness-and-faults)
- [Proofs](#proofs)
- [Divergences](#divergences) - findings, and what was seen but has no run
- [Not modelled](#not-modelled)
- [Plan](#plan)

## Inventory

| component | state | operations | talks to | hard behaviour | correct when |
|---|---|---|---|---|---|
| **Orchestration engine** `orchestration/Layers/OrchestrationEngine.ts` | command queue, read model, event PubSub; event store and command receipts in SQLite | `dispatch`, `processEnvelope`, reconcile, bootstrap | called by wsServer and every reactor; calls decider, projector, pipeline; publishes to reactors and clients | many callers, retries, failing transactions, crashes | each command is decided once, for good, on the committed state; its events enter together, are projected before they are published, and reach every subscriber in order; every caller is answered |
| **Decider** `orchestration/decider.ts`, `commandInvariants.ts` | none | one case per command type | engine | - | guards and events are those of the contracts |
| **Read-model projector** `orchestration/projector.ts` | none (a fold) | one case per event type | engine | streamed messages, reverts, caps | agrees with the SQL projections |
| **Projection pipeline** `orchestration/Layers/ProjectionPipeline.ts` | nine groups of `projection_*` tables, one cursor each | `projectEvent`, `bootstrap` | engine's transaction, event store | a bootstrap that is interrupted, projectors at different cursors, one projector reading another's tables | every event is applied exactly once to every table |
| **Snapshot query** `ProjectionSnapshotQuery.ts` | none | `getSnapshot` | wsServer, clients | mixing projectors at different sequences | the snapshot is the state at the sequence it claims |
| **Checkpoint reactor** `CheckpointReactor.ts`, `checkpointing/` | queue, git refs, workspace | baseline, capture, revert | subscribes to the engine and the provider; dispatches to the engine, calls git and the provider | races with the agent's edits and with ingestion; multi-step reverts that fail half-way | counts are contiguous, checkpoints restorable; a revert undoes what it should in files, conversation and messages, and is answered |
| **Runtime ingestion** `ProviderRuntimeIngestion.ts` | text buffers per message, caches | one handler per runtime event | provider events in, commands out | late events of an earlier turn, buffered vs streamed delivery, text that outgrows its buffer | the session follows the active turn; what the agent said is shown once, whole and in order; open requests are those that wait |
| **Provider command reactor** `ProviderCommandReactor.ts` | recently handled starts, options per thread | turn start, interrupt, approvals, stop, compaction | engine events in, provider calls out | retries, sessions that vanished, compaction in steps | a turn that was requested runs or its failure is shown; an answer settles its request or is refused visibly |
| **Provider service, session directory** `provider/Layers/` | adapters' sessions, persisted bindings | start, send, interrupt, rollback, recover, stop | adapters | recovery after a restart, a cursor stored at the wrong moment | a call reaches the session of its thread, which remembers the earlier turns |
| **Adapters** `CodexAdapter.ts`, `ClaudeCodeAdapter.ts`, `codexAppServerManager.ts` | external processes | JSON-RPC, SDK streams | the agents | pending requests when a process exits | every pending request settles |
| **Terminal manager** `terminal/Layers/Manager.ts` | sessions, history, timers | open, write, resize, clear, restart, close | PTYs, files | kill escalation, eviction, persistence queues | no process is left behind, transcripts are written in order, what was stopped dies |
| **WebSocket server** `wsServer.ts` | clients, subscriptions | RPC methods, pushes | engine, clients | pushes before the snapshot, a restart with clients connected | a client can rebuild the state |
| **Client transport and sync** `apps/web/src/wsTransport.ts`, `routes/__root.tsx` | pending requests, latest sequence | request, reconnect, resync | wsServer | requests that outlive their timeout, failed resync | the client shows states of the server in order and comes to show the latest |
| **Composer drafts** `apps/web/src/composerDraftStore.ts`, `ChatView.tsx` (`onSend`), `Sidebar.tsx` | drafts and draft threads in memory and in localStorage, sends under way, optimistic messages | type, attach, send, restore, navigate, new and deleted threads | server, router | a send that fails after its view was left or typed into, a debounced write, previews that are revoked | what was typed is not lost, and not sent twice or out of order; a draft has a thread |
| **Desktop shell** `apps/desktop/src/main.ts`, `updateMachine.ts` | update state, server process, timers, `isQuitting` | start, restart, stop, quit; check, download, install | server, updater library | an exit that meets a timer, a quit or an installation | the server is restarted, and has ended when the application or the installer goes on; a download is kept |
| **Git actions** `git/Layers/GitCore.ts`, `GitManager.ts`, `apps/web/src/components/GitActionsControl*`, `BranchToolbarBranchSelector.tsx` | the repository, its remote, pull requests; requests under way; the client's last status and branch list, dialogs, offered actions | status, commit, push, pull request, pull, feature branch, branch selection, threads on pull requests | git, gh, text model, agents, the team | nothing is locked between the commands of a request; HEAD moves; a request stops half-way | no edit is lost, a success is true of the repository, the default branch is pushed only when the user was asked |
| keybindings, usage tracker, workspace entries, attachments, telemetry, other web views, live browser, marketing | little | I/O, parsing, presentation | | | |

How they interact: a client's request becomes a command (`dispatch`); the engine
commits the events with their projections and a receipt in one SQLite
transaction, installs the new read model, then publishes. Three reactors
subscribe: ProviderCommandReactor turns intents into provider calls,
CheckpointReactor captures and restores the workspace, and the runtime events
that the provider emits go to ProviderRuntimeIngestion and CheckpointReactor,
which dispatch commands again.

The terminals are separate: a client's call goes to the manager, whose output is
pushed past the engine. So are the git actions: requests of the client, which run in
the directory in which the agents write.

The hazards of this code, each at its line, are listed in `PROJECT.json`
with the properties that guard against them; those without a property say why.

## Modules

```
Contracts            the vocabulary: null values, command and event types
  Decider            guards and events of a command           decider.ts, commandInvariants.ts
  Projector          the in-memory read model                 projector.ts
    OrchestrationEngine (Decider, Projector)                  OrchestrationEngine.ts
      CommandLedger (INSTANCE)     what the engine promises
      OrchestrationEngineProofs    theorems
    ProjectionTables (Projector)   the nine projectors        ProjectionPipeline.ts, ProjectionTurns.ts
      ProjectionPipeline (Decider, ProjectionTables)          ... and ProjectionSnapshotQuery.ts
        ProjectionPipelineProofs     theorems
    CheckpointReactor (Projector)                             CheckpointReactor.ts, CheckpointStore.ts
    RuntimeEvents (Projector)    text and questions           ProviderRuntimeIngestion.ts, the adapters,
                                                              ProviderCommandReactor.ts, session-logic.ts
      RuntimeEventsProofs          theorems: questions, text
  ProviderSessions (Contracts)   sessions and turns           ProviderCommandReactor.ts, ProviderService.ts,
                                                              the adapters, ProviderRuntimeIngestion.ts
    ProviderSessionsProofs         theorems: what is shown, what is kept
ClientSync                       one client and its server    wsTransport.ts, __root.tsx, wsServer.ts
  SnapshotView (INSTANCE)        what a client promises
  ClientSyncProofs               theorems
TerminalManager                  terminals                    terminal/Layers/Manager.ts
ComposerDrafts                   drafts and sends             composerDraftStore.ts, ChatView.tsx, Sidebar.tsx,
                                                              _chat.$threadId.tsx
  ComposerDraftsProofs           theorems
DesktopShell                     server process, updates      apps/desktop/src/main.ts, updateMachine.ts
ProcessProofs (TerminalManager, DesktopShell)                 theorems: processes, transcripts, updates
GitRepository                    clone, remote, team          GitCore.ts (status, pushes), git and gh
  GitActions                     requests and their client    GitManager.ts, GitCore.ts, GitActionsControl*,
                                                              BranchToolbarBranchSelector.tsx
WorkspaceProofs (GitActions, CheckpointReactor)               theorems: edits, answers, checkpoints, reverts
MC*                              small instances
```

**Contracts, Decider, Projector** are pure. A command is
`[id, type, project, thread, data]`; `Decide` returns the sequence of its event
bases, the empty one for `OrchestrationCommandInvariantError`. `ProjectEvent`
folds one event into `[snapshotSequence, projects, threads]`. A thread keeps the
fields that a guard, a reactor or a property reads; titles, models, branches,
file lists and update times are left out. Message text is a sequence of chunks,
so that accumulation and overwriting differ.

**OrchestrationEngine.** The variables of the database (`log`, `receipts`,
`projected`) survive `Crash`; those of the process do not. One action per step
of `processEnvelope` between which something else may happen: `Take`,
`AnswerFromReceipt`, `DecideCommand`, `Commit` (the whole transaction: SQLite
has one connection and the code runs the appends, the projections and the
receipt inside `withTransaction`), `Install` (`readModel = nextReadModel`),
`Publish` (one event), `AnswerAccepted`; and of the error path:
`Reconcile`/`ReconcileFails`, `RecordRejection`/`RecordRejectionFails`,
`AnswerFailed`. The read model is represented by the sequences that it has
folded, so that a skipped, repeated or reordered event is visible; a decision
evaluates the fold (`ReadModelOf`). `Boot` is the bootstrap of projections and
read model, which runs before the worker fiber is forked.

**CommandLedger** is the abstract specification: a log and an outcome per
command id; `Accept` appends all events of a command that is acceptable on the
log, `Reject` records a rejection. The engine implements it with
`outcome[id] = receipts[id].status` (run `engine`, theorem
`EngineImplementsLedger`), provided that reconciliation does not fail.

**ProjectionTables, ProjectionPipeline.** The rows of one thread in each
projector's tables. The live path applies an event to all tables in the
engine's transaction (`Dispatch`); after a crash `StartBootstrap`, `ReplayEvent`
(one event and its cursor, one transaction) and `EndReplay` replay projector
after projector, as `bootstrapProjector` does, at most `ReadLimit` events each.
`Histories` gives the event stores the server may find and the commands that
may follow. `past` is a history variable: what a server that never stopped
would have had after each event; no action's guard or effect on another
variable depends on it except the read model, which is by definition that fold.

**CheckpointReactor.** One thread, its reactor and the actors it races: the
user, the agent (which edits the workspace between any two steps), ingestion
and the provider service. The workspace is the set of turns whose edits it
contains, a git ref is a captured workspace. A job is the continuation of a
handler after the point where it read the thread, so what it writes is decided
on what may be stale by then. A dispatch is one step here, because what the
engine makes of it is the subject of OrchestrationEngine; it may fail where the reactor
records a checkpoint or completes a revert. The two or three
dispatches of one lifecycle event of ingestion are one step. A revert deletes refs one by one, and
may stop half-way; `lost` has those deleted by a revert that failed afterwards. Of the activities
the reactor appends, `replies` keeps the answer to a revert. The agent is
external: it runs the requested turns one at a time and may lose its session. The adapter
lists its turns (`turns`), the agent remembers them (`memory`): a rollback shortens the list, and makes
Codex forget, Claude not (`forgets`).

**ProviderSessions.** The life of one thread's agent sessions across five files.
The reactor takes one intent at a time (`Take`) and its calls are steps of their
own: `Ensure` (`ensureSessionForThread`), `Start` (the adapter's `startSession`,
with or without a resume cursor), `Bind` (the directory and the
`thread.session.set` command), `Send`, `Interrupt`, `Stop`, `Mark` and so on; the
continuation in `job` holds what was read before, so that it may be stale.
Ingestion reads the session (`IngestRead`) and writes it back (`IngestWrite`),
and the reactor may write in between. Every context an adapter ever created runs
on, with `sessions` being what the adapter's map still names. Claude refuses a turn while
another runs, Codex runs both (`others`). A conversation is
the set of turns that the agent remembers, a cursor a conversation and the turns
before it: whether a turn is sent to an agent that remembers the earlier ones is
then a matter of sets, which is what `ConversationKept` states. `history` is a
history variable. The thread is shared with RuntimeEvents in the code, but not
in the models: this one is about the session and its turns, that one about what
is said in them.

**RuntimeEvents.** What an agent says and asks. `Agent` makes the runtime events of
either adapter; `Ingest` is one event in `ProviderRuntimeIngestion` with every
dispatch it makes (`IngestDelta`, `IngestItem`, `IngestTurn`, `IngestExit`),
its text buffers and the messages it remembers per turn; the messages
are folded by `Projector`'s own message events. A request opens in the adapter, becomes an
activity, is derived as open by the client (`Open`, from
`derivePendingApprovals`/`derivePendingUserInputs`), is answered (`User`), taken by
the reactor (`Work`), which settles it or refuses it with a failure activity, and
is resolved by the agent's callback (`Callback`). `Crash` loses everything that is
in memory. `said` counts the chunks of a message that were streamed and the texts that came at
once; of these Claude's adapter keeps the last one, and none after streamed text (`Kept`).

**ClientSync.** `WsTransport` with its numbered requests, its polling queue of
unsent ones, its timeouts and its reconnection; the root route's effect (mounted,
syncing, pending, latest sequence, armed retry); the plan view, which fetches a
snapshot of its own; and the server's side of one connection. The state of the
server is its sequence: the models of the projections say what is in it.
**SnapshotView** is the abstract specification: a client shows a state that the server has
reached and does not go back, unless a part of it writes past the router.
ClientSync implements it with `latest <- log` and
`mayRegress <- setting.plans > 0` (run `client_sync`).

**TerminalManager.** The manager's maps are one record, and code between two awaits
is a chain of operators on it. `operation` is what holds the lock of a thread:
a call (open, restart, close, clear) advances through `Flush`, `ReadHistory`,
`Spawned`, `Persisted`, `Closed`; the loop of `close` over the sessions of a thread is
`StopNext`, and as it has no await, nothing else happens before it ends (`Stopping`). Outputs, exits, the debounced write, the chain of
writes of a terminal, kill escalation, eviction, activity polling and `Dispose`
come between. The map is a set of sessions, `older` the order of their `updatedAt`, which
eviction reads. A transcript is the number of its last output. Every session object
that was ever made is kept, the map holds the current ones: what an
evicted or replaced object still does is thus visible. Whether `kill("SIGTERM")` throws for
a process (`deaf`, as for every signal on Windows) is settled when it is spawned: it is asked at
most once.

**ComposerDrafts.** The draft store is one record, `disk` what localStorage has of it,
`dirty` the armed debouncer. `view` is the mounted `ChatView` and its React state; every
mount has a number, because `onSend` goes on after its view is gone, with the refs of
that view as they were (`refsEmpty`). A call of `onSend` runs up to its first await
in `Send` and then advances through `Created`, `Started`, `Discard` and `Failed`, each
after `Handle` has carried its command to the server, or lost it, or lost the answer. A
prompt is the set of the pieces typed into it, so that "nothing typed is lost" is a
matter of sets. `Render` is what the route does when the thread of the URL appears or is
gone; it comes before any other step, as an effect does. `DeleteThread` begins after
its questions and its closing of the session. `WriteFails` is a `setItem` that throws for want of
quota.

**DesktopShell.** Every server process that was ever started is kept in `children`;
`backend` is the one that the code still names. `BackendExit` is the listener of one
process, which ends the wait of an installation too. `install` is where
`installDownloadedUpdate` stands: `stopping` (the SIGTERM is sent), `killing` (the
SIGKILL as well) and `ready` for `quitAndInstall`. The updater library is external: it answers a check or a download with
success or failure, and an installation with success, an exception or an event.

**GitRepository, GitActions.** The content of a branch is the set of edits that its
commits hold: every edit is written once and committed once, so that "ahead", "behind"
and "fast-forward" are differences and inclusions of sets. The clone has the remote
`origin` and HEAD is always on a branch. `marks` is what tells which branch is the default
one, and never changes: its name (main or master, which no other branch has then) and origin/HEAD,
which a clone has and `git init` with `git remote add` has not. `tracking` is what `refs/remotes/origin` last
saw, which `Refreshed` may or may not bring up to date before a status. The server runs
a request of the client as a sequence of commands, one action for each:
`Begin`, on a feature branch `Prepare`, `ResolveName`, `CreateBranch`, `CheckoutNew`,
then `Stage`, `Commit`, `PushStatus`, `Push` or `PushNew`, `FindPr`, `CreatePr`; or
`Pull`. Each acts on the branch that HEAD is on by then. The client's side is its last
status and last list of branches, which are read independently (`Known` is their
agreement), its dialogs, and the actions that its success messages offer (`offers`),
which repeat what was known when the first action was asked for. The branch selector and
the preparation of threads on pull requests move HEAD or overwrite branches; agents,
team, git and gh are external. `moves`, `made` and `dropped` are history variables: how
often HEAD was moved, the edits written, the edits that a preparation overwrote; so are `at` and `told` in a request
or offer: when the status was read that the user was shown, and whether the client could tell the default branch. The names for a feature
branch are the first free one of `Features`; in the code, whose suffixes count on, one is always free.

## Runs

| run | module, cfg | shows |
|---|---|---|
| `engine` | MCOrchestrationEngine, OrchestrationEngine.cfg | with one storage failure of any kind but a failing reconciliation, and a crash: decisions use the committed state, subscribers get the events without gaps, never ahead of the read model, and an idle worker owes none; an accepted answer is visible, the ledger is implemented |
| `engine_degraded` | OrchestrationEngineDegraded.cfg | with two failures of any kind and a crash: commands are stored once, decisions are final; under fairness every dispatch is answered |
| `projection` | MCProjectionPipeline, ProjectionPipeline.cfg | each projector's tables hold exactly the events up to its cursor, in the middle of an interrupted bootstrap too, turn counts are unique, and a server that runs has caught up; snapshot and read model agree; a revert restores the conversation of its target; a settled turn stays settled until it is interrupted, reverted or compacted, a resolved approval for good |
| `checkpoints` | MCCheckpointReactor, CheckpointReactor.cfg | counts are contiguous, checkpoints restorable and free of later edits, but for failures of a revert that are named; a revert undoes the dropped turns and is answered, once; the agent remembers the turns that are shown, and no others if it can forget |
| `provider_sessions` | MCProviderSessions, ProviderSessions.cfg | a turn shown as running runs, a stopped thread has no session, the next turn is sent to an agent that remembers the earlier ones, automatic compaction gives up after its failures, and every requested turn comes to an end |
| `provider_cursor` | ProviderSessionsCursor.cfg | violation: after a restart of the server Claude has forgotten the last turn |
| `client_sync` | MCClientSync, ClientSync.cfg | the client implements SnapshotView and comes to show the latest state unless its last synchronisation failed |
| `terminal` | MCTerminalManager, TerminalManager.cfg | no process is left behind, transcripts reach their files in order, what is known of subprocesses is current, everything settles |
| `runtime_events` | MCRuntimeEvents, RuntimeEvents.cfg | text is shown once, in order, and whole but for what Claude's adapter drops; questions are open exactly while they wait; answers settle or are refused |
| `drafts` | MCComposerDrafts, ComposerDrafts.cfg | typed text is in a draft, on its way or accepted; nothing is sent twice or out of order; drafts have a thread, failed first sends leave none; previews are valid; a reload keeps the drafts, if no write failed |
| `desktop` | MCDesktopShell, DesktopShell.cfg | the installer runs when the server has ended, every server that is left behind was told to stop, a download is not forgotten, a crashed server comes back |
| `git` | MCGitActions, GitActions.cfg | every edit is in the working tree, in a branch or knowingly overwritten; a success is true of the repository and does not offer itself again; the default branch, if the client can tell it, is pushed only when the user was asked |

Bounds, and why they are enough:

- *engine*: two callers suffice for every race on the single queue (the worker is
  one fiber, a third caller only lengthens the queue); four commands give one
  project, one thread on it, a command of two events and a competing create.
  Any command may be sent again at any time. One subscriber that may join at any
  moment: subscribers do not influence each other. `engine_degraded` has three
  commands and two faults, so that a failure may hit the recovery from another.
- *projection*: six histories. In any order, up to five of the eight
  commands of one streamed turn, and of the six around an approval, each after a
  store that holds only the creation and after one that holds a part of the story,
  all still unprojected; two turns that claim the same count; three turns with
  two reverts between them. One crash, at any point, the bootstrap included.
  `ReadLimit` is above the histories; a smaller one violates `TablesExact`
  without its condition.
- *checkpoints*: seven settings. Three turns, two reverts and one failure with a
  user who waits for the last checkpoint (a second revert sees the result of
  the first, and counts are used again); the same without failure with an agent that cannot forget,
  which with two turns has two failures; two turns and a revert requested at any
  time; a provider that reports two diffs of a turn; a workspace without git; one turn
  with two reverts at any time and a failure. In the last three a turn may fail too.
- *provider_sessions*: fifteen settings, each with one or two kinds of
  disturbance, for Claude, Codex or both: changes of mode between turns and
  while one runs, stops at any time, Codex turns beside each other, a turn requested during a
  compaction, a failing call or session, a restart with an interrupt, a compaction on demand or by a full window with a failure of it, turns
  that switch the provider. Two or three turns: the second is the first that can
  forget something, the third shows that a recovered session stays well.
  `MaxFailures` is 1 (3 in the code), one failure being enough to reach it.
- *client_sync*: seven settings. Three or four commits, so that one can fall before,
  during and after a request, with two lost connections, a restart, two failed
  requests, one late answer, one snapshot of the plan view, or a second mount.
- *terminal*: two terminals, on one thread or on two; three calls of any kind,
  enough to open, evict or close and open again; two outputs, so that a newer one
  may overtake an older; at most one failing spawn, write or removal, signal, look for
  subprocesses and dispose. The limit of inactive sessions is 1 where eviction is the
  subject.
- *runtime_events*: `MaxBuffered` is 2 chunks and a message has up to four, or three, so that
  text spills and is buffered again; two turns, so that events of the first can
  arrive in the second; a stop, a death, a crash or two changes of mode; two
  requests of either kind with answers that may come late or twice. For each
  provider.
- *drafts*: two threads, the draft thread and the one that follows it. Six
  settings: three messages in a row, of which one is lost, so that a second and
  third can be typed and sent before the first has failed; two lost commands, so that the deletion
  of a failed first send can fail too, and a lost answer, with moves between the
  threads; two images with a failure; two reloads; a deleted thread; a write that fails, with a reload.
- *desktop*: three settings. Three crashes and two failing starts, with a quit; five
  checks and downloads with two failures and two releases, so that a version can be
  superseded when it is downloaded; two failing installations over a server that
  crashes.
- *git*: three settings with both marks: one request with a preparation of a pull request's
  worktree, a move of HEAD and two steps of the team; two requests and a failing command;
  two requests, a move and two steps of the team. With one mark or none: two requests, or one
  and a move of HEAD. Two requests are served at a time, which
  is enough for every pair of commands to interleave. Two edits, one of which may be the
  team's, so that the two sides can diverge; they are symmetric. Three
  branches, of which the remote has main and one more when it is cloned: the third is the
  name for a feature branch.
- The caps `MaxMessages`, `MaxCheckpoints`, `MaxPlans`, `MaxActivities` are above
  the histories in every run: the SQL tables have no such caps, see
  [Divergences](#divergences).

`CHECK_DEADLOCK FALSE` stands in every run but those of the engine: scripts,
users and agents come to the end of their bounds there. The engine runs check for
deadlock.

An invariant of a run may have parts with a name of their own, each with its comment:
`TablesExact`, `SnapshotExact`, `CheckpointsSound`, `SessionsShown`, `ProcessesAccounted`,
`TextExact`, `DraftsSound`, `SentOnceInOrder`, `EditsKept` and `ServersStopped` are conjunctions of such
parts, the type invariant of the module among them where it is not checked by itself. Every
part has a mutant.

Properties with a condition state it in a named operator. `Orderly` (no failure
and a patient user) guards `ConversationMatches`, because a failed half of a
revert really leaves provider and read model apart (below), and only an agent that `forgets`
remembers no more than is shown. `lost` in `CheckpointsSound` and
`RevertUndoesEdits` are refs that a failed revert has deleted.
`RewoundWithoutCheckpoint` and `SharedTurnCount` name the two situations in which
snapshot and read model do differ. `history.passed` in `StoppedIsStopped` says that a stop
or a compaction passed over the session that lives, and `OneProvider` that no other provider was
tried; `KeepsMemory` excludes the histories in which an agent does
forget; `stale` in `CatchesUp` is a failed last request, which the router does not
repeat; `orphans` in `RequestsShown` are the requests of a session that ended without
resolving them. `Dropped` in `TextExact` is a message of which Claude's adapter keeps less than was
said. `missed` in `ProcessesOwned` and `Quiet` are processes that `kill` threw for; `TranscriptKept`
excepts terminals after an eviction, a failed write or removal, or a dispose. `excused` in the drafts'
`TextKept` is the text that the user deleted with its
thread, or left on its way to the server; `spent.unanswered` in `SentOnce` are lost
answers, after which the client cannot know that the message was accepted, and `Outdated` there, in
`DraftsReachable` and in `TextKept` a reload after a refused write, which brings old drafts back. `Steady` in
`AnswersTrue`, and `run[r].at # moves` in `DefaultConfirmed`, are about requests in whose time HEAD
was moved behind the back of the user, or (`Unseen`) sent while the client had no agreed
status to show: the code promises nothing there. `told` in `DefaultConfirmed` is whether the client
could tell the default branch when it was asked. `dropped` in `EditsKept` is what the
preparation of a thread on a pull request overwrites. All of these
are described below.

## Fairness and faults

- `WF(Work)`, `WF(Ingest)`: the worker and ingestion are `Effect.forever` fibers
  that catch every failure of a handler. Weak fairness is enough, as nothing
  disables a worker that has something to do, except a crash.
- `WF(Boot)`: the desktop shell restarts the server process when it exits
  (`scheduleBackendRestart` in `apps/desktop/src/main.ts`). Crashes are bounded,
  so this says that the last restart succeeds.
- *ProviderSessions*: `Reactor` and `Ingestion` are two such fibers; `Agent` says that
  an agent ends the turn it runs, an assumption about the agent without which
  nothing can be said of turns.
- *ClientSync*: the server answers and broadcasts, messages arrive, the transport
  reconnects (its backoff timer is always set again) and polls, the router mounts, its
  throttled synchronisation fires, and a request that was lost times out. Requests
  whose answer is on its way need not time out.
- *TerminalManager*: calls go on, the debounce and the escalation timers fire, writes
  end, and a killed process dies. A process that only got SIGTERM owes nothing.
- *RuntimeEvents*: the fibers of reactor (`Work`) and ingestion (`Ingest`), and the promise
  callbacks of the adapters (`Callback`).
- *DesktopShell*: the restart timer fires, the two timers of an installation fire, and
  the code behind its wait goes on. Checks, downloads and the user owe nothing.
- *GitActions*, `projection` and `drafts` are about safety only: no fairness. A command of a request may
  fail at any step (`StepFails`), and what is done stays.
- Callers, subscribers, users and (outside ProviderSessions) agents owe nothing: no
  fairness.
- Faults are hypotheses about the environment. `lookup`, `rollback`,
  `reconcile` and `receipt` are SQL calls that fail; `committed` is a
  transaction that is kept although an error is reported, the situation for which
  `reconcileReadModelAfterDispatchFailure` exists and which the engine's own test
  "reconciles in-memory state when append persists but projection fails"
  constructs. A `COMMIT` that itself dies ends the fiber as a defect; that is not
  modelled.

## Proofs

`OrchestrationEngineProofs` proves, for every set
of callers, subscribers and commands and for any bounds:

| theorem | statement | assumes |
|---|---|---|
| `TypeCorrect` | `Spec => []TypeOK` | the named assumptions of the module |
| `CommandsAtMostOnce` | `Spec => [](CommandsCommitOnce /\ ReceiptsMatchLog)` | same |
| `FinalDecisions` | `Spec => DecisionsAreFinal` | same |
| `DecisionsOnCommittedState` | `Spec => []DecidesOnCommittedState` | `ReliableReconcile` |
| `EngineImplementsLedger` | `Spec => ImplementsLedger` | `ReliableReconcile` |
| `EventsWithoutGaps` | `Spec => []DeliveredWithoutGaps` | `ReliableReconcile` |
| `EventsAreCovered` | `Spec => []ReadModelCoversDelivered` | `ReliableReconcile` |
| `AnswersVisible` | `Spec => []AnswersAreVisible` | `ReliableReconcile` |

`ClientSyncProofs` proves, for any bounds of commits, losses, failures and snapshots of
the plan view, from the assumption of `ClientSync` alone:

| theorem | statement |
|---|---|
| `TypeCorrect` | `Spec => []TypeOK` |
| `ClientImplementsView` | `Spec => ImplementsView` |

`ProcessProofs` is about the two parts that start processes and must account for each of
them. It proves of the desktop shell, for any bounds of crashes, failing starts, requests,
errors, releases, failing installations and quits, without any assumption:

| theorem | statement |
|---|---|
| `TypeCorrect` | `DesktopSpec => []DesktopTypeOK` |
| `InstallerAndEndAreSafe` | `DesktopSpec => []ServersStopped` |
| `DownloadIsKept` | `DesktopSpec => []DownloadKept` |

and of the terminals, for any terminals on any threads and any bounds, limit of inactive
sessions included, from `NoneAssumption` (undefined is not a transcript) and
`TerminalAssumption`:

| theorem | statement |
|---|---|
| `ProcessesAreAccounted` | `Spec => []ProcessesAccounted` |
| `TranscriptsAreKept` | `Spec => []TranscriptKept` |

One module extends both specifications, so the desktop shell names what both would call
`Init`, `Next`, `Spec` or `TypeOK` otherwise: `Bootstrapped`, `DesktopNext`, `DesktopSpec`,
`DesktopTypeOK`.

`WorkspaceProofs` is about the two parts that change the files and the repository of the
workspace. It proves of the git actions, for any numbers of requests, branches, edits and names
and for any bounds, from `BranchesAssumption` and `FeaturesAreBranches`:

| theorem | statement |
|---|---|
| `NoEditLost` | `Spec => []EditsKept` |
| `DefaultIsAsked` | `Spec => DefaultConfirmed` |
| `AnswersAreTrue` | `Spec => AnswersTrue` |

and of the checkpoints of a thread, for any circumstances (bounds of turns, reverts, failures
and diffs, a patient or a hasty user, a workspace with or without git), from
`ReactorAssumption` and `CapAssumption`:

| theorem | statement | assumes |
|---|---|---|
| `CheckpointsAreSound` | `ReactorSpec => []CheckpointsSound` | `WithinCap` |
| `EditsAreUndone` | `ReactorSpec => RevertUndoesEdits` | `WithinCap` |

Here it is the checkpoint reactor that has the names of its own (`ReactorInit`, `ReactorNext`,
`ReactorSpec`, `ReactorTypeOK`), for the same reason as the desktop shell.

`ComposerDraftsProofs` proves, for any numbers of threads, texts and images and any bounds of
moves, failures, reloads and deletions, from `DraftsAssumption`:

| theorem | statement |
|---|---|
| `ReloadsKeepDrafts` | `Spec => DraftsSurviveReload` |
| `TextIsKept` | `Spec => []TextKept` |
| `DraftsAreSound` | `Spec => []DraftsSound` |
| `MessagesSentOnceInOrder` | `Spec => []SentOnceInOrder` |

`RuntimeEventsProofs` proves, for either provider and any number of turns, chunks, questions,
answers, stops, deaths, changes of the delivery mode and crashes, and any size of the buffers, from
`RuntimeAssumption` and `BufferAssumption`:

| theorem | statement | assumes |
|---|---|---|
| `QuestionsShown` | `Spec => []RequestsShown` | nothing |
| `TextIsExact` | `Spec => []TextExact` | `FewMessages` |

`ProjectionPipelineProofs` proves, for any histories (event stores that are found unprojected, and
scripts of commands of any kind that follow), any read limit and any bound of crashes, from
`PipelineAssumption`:

| theorem | statement | assumes |
|---|---|---|
| `TablesStayExact` | `Spec => []TablesExact` | `ReplayableHistories` |
| `SnapshotIsAtItsSequence` | `Spec => []SnapshotSequenceExact` | `ReplayableHistories` |
| `SettledNeverReopens` | `Spec => []SettledStaysSettled` | `ReplayableHistories` |

`ProviderSessionsProofs` proves, for any circumstances (bounds of requests, faults and restarts,
providers that a turn may ask for), from `SessionsAssumption`, and from `NoneAssumption` and
`NullAssumption`, that `undefined` is no record or provider and `null` no session:

| theorem | statement |
|---|---|
| `SessionsAreTrue` | `Spec => []SessionsShown` |
| `ConversationsAreKept` | `Spec => []ConversationKept` |

`ReliableReconcile` says that `"reconcile"` is not among the faults. It is
needed: with it, the read model falls behind the log for good, and
`engine_degraded` shows only what survives.

`ReplayableHistories` says that a store that is found unprojected fits in one read of
`bootstrapProjector` and has no revert left to replay. Both are needed, and the code sees to neither
([Divergences](#divergences)); TLC evaluates it on the histories of the run. What is dispatched
afterwards, reverts included, and wherever a crash falls, is arbitrary.

`FewMessages` says that the thread has room for the messages that it can get, one for each turn and one more for each
chunk at most. It is needed: the projector keeps the last `MAX_THREAD_MESSAGES` (`projector.ts:385`) and drops
older ones, whose text is then no longer whole. TLC evaluates it on the settings of the run.

`WithinCap` says that no more turns are requested than the projector keeps checkpoints
(`projector.ts:510`). It is needed: beyond that it drops the oldest ones, and the counts of what is left
start no longer at 1. The run satisfies it with three turns and a cap of 10.

The argument. `TypeOK` is inductive on its own. None of the safety properties
is: that a command is stored once depends on the receipts, and that the receipts
match the log depends on no receipt having appeared since the lookup.
`PendingInv` says exactly this (one worker: no receipt of the current command
exists before its verdict is recorded), and with
`StoreInv == ReceiptsMatchLog /\ CommandsCommitOnce` and `TypeOK` it forms the
inductive `RecordInv`, whatever fails. `ReadModelInv` locates the read model at
each place of the worker: it is exactly the committed sequences, except between
commit and installation, and in `reconcile`, where it stands at `start`.
`VerdictInv` says that the verdict on the current command still holds on the log
when it is recorded, since nobody else writes. `IInv` is the conjunction; the
refinement maps `Commit` and the kept half of `TransactionFails` to `Accept`,
`RecordRejection` to `Reject`, and every other step to a stutter. Each
invariant has an `...Init` and a `...Step` lemma, the latter with one step per
action.

`ReceiptsMatchLog` is part of the invariant and in no run.

Subscribers: `DeliveredWithoutGaps` alone does not say where publication stands.
`DeliveryInv` does: what is unpublished is the end of the log (`OwedInv`), and what a
subscriber has received are consecutive sequences that end where publication stands
(`Announced`: the length of the log less the unpublished events, and `start` during
reconciliation, which finds out what is unpublished). Relative to `IInv` it is
inductive, and with `ReadModelInv` it gives `ReadModelCoversDelivered` too, since events
are announced only after the read model has them. Callers: an answer is about the
command that the caller waits for because every waiting caller has one envelope
(`EnvelopeInv`), and it may say "accepted" because the receipt was written in the
transaction that is being published (`AcceptedInv`); with `ReceiptsMatchLog`, the receipt
names an event of the command.

The client: that it does not go back cannot be seen from what it shows. The
router applies a snapshot without comparing it, so that the property rests on
`Forward` (an answer on its way to the router's request is at least as new as what is
shown, while no plan view writes), which rests on `OneSync` (the router has one
request at a time, also over timeouts and lost connections, and `syncing` says so) and on
`Places` (a request is asked, answered or unsent, and not twice). `Sequences`
bounds everything by the server's log. Every action that shows something maps to
the abstract `Show`, `Commit` to `Advance`, every other step to a stutter.

The desktop shell: that nothing of a server is left when the installer runs depends on
how few servers there are. `OneServer` says that at most one process runs, and none
while the restart timer is armed, because a restart is armed by an exit only;
`LiveIsRemembered` that the one not told to stop is `backend`; `QuittingStops` that there
is no `backend` while `isQuitting`, and no server that is stopping while not.
`InstallTracked` follows an installation through its two waits: besides the child that
it waits for, every server has exited or was killed. Forgetting one of them breaks
the step of `Install` after a failed installation, the case in which `isQuitting` is
reset. The update is independent of the servers: `StatusTracks` says that as long as no
installation has failed, the status shows what is in flight, and a version is downloaded
only in the status `downloaded`, which neither a check nor a download leaves.

The terminals: that a process is not left behind is a matter of three places, the object
of the session, the map and the process. `ObjectsSound` says that a session runs exactly
while it has a process, a live one that no other session has; `ProcessesSound` that a live process
has a session, and that a timer to kill is never for a live one; `MapSound` that a terminal
has one session in the map; and `LiveMapped` that a session with a process is in the map
unless it was evicted, and that a process that was signalled has its timer, which an eviction
leaves alone because the evicted have no process. A process that `kill` threw for is `missed`: it
has neither session nor timer, and is the exception that `ProcessesOwned` makes. The session's place in the map is certain at a start only because the session of a call that
holds the lock is still in the map (`CallsSound`): close and restart wait for the lock, and
what does not, eviction and `Dispose`, is excepted. So a session that is evicted while its
process is being spawned does run outside of the map, which `NoProcessLeftBehind` admits, as it
admits what `Dispose` cannot see.

That a transcript reaches its file rests on the queue of its writes. `Newest` says where
the transcript is: in `pendingPersistHistory` when something waits there, else in the write that the queue
ends with, else in the file. It is kept by the end of a write only if that write is the
first in line; when the last one ends, the queue is empty and the file has its text. The code keeps
no list, each write knows the one that it waits for, so the line must be recovered: `Lined` says
that the writes of a terminal can be numbered such that the first waits for none, each other for the
one before, and the queue ends with the last. `Queued` says that
writes have identities, which a new one chooses afresh among finitely many. A session is made of the file's text,
which is the newest only when nothing of the terminal waits or is written: `Drained` says so of
every terminal that is not in the map and that no call has yet to flush, and
`CallsSound` that no session of a terminal comes into the map while it is flushed. The
exceptions are those of the property: what is evicted leaves the queue with its write
under way, and a failed write or removal ends the claim (`Excepted`). Operators on the manager have a lemma each, what they keep of the
accounting, of the queue and of the other terminals; `StepKeeps` puts them together
for the terminal that takes a step.

The git actions: that an edit is held somewhere is inductive only with what keeps the
places from shrinking. A commit moves what is staged into the branch of HEAD, so `index`
must be part of `dirty` and HEAD a branch of the clone; a pull moves a branch
only forward; and a push replaces the remote's branch only by more
(`Pushable`), which also keeps `tracking` below the remote (`RepositoryTypeOK`), so that a branch
checked out from it is one the remote still holds. `RequestsOK` and `PrepOK` say that a
request about to check out, push or open names a branch that exists, and a
preparation one the remote has. `Kept` is the
property with `dropped` among the edits; `IInv` is the conjunction.

That the default branch is pushed only when the user was asked is a matter of what a
request carries with it from the client. `moves` counts the moves of HEAD, so that what was
read at `moves` is about the branch that HEAD is on (`ViewAsked`), and `OffMain` follows it into
the requests and offers: when it is still as recent, was read by a client that could tell the default branch, and
does not say "default", HEAD is on another branch.
A request for a feature branch is exempt until it has checked it out (`Early`), where its `at` becomes
the new `moves`. A default request to push is confirmed, because `Ask` lets no other one pass. Each
move makes everything older out of date (`OutOfDate`), so that the invariant `AskedInv` is
inductive together with `IInv`, which is needed for the branch that a push writes.

That a success is true of the repository (`AnswersInv`) follows a request from command to
command. `Done` reads off its place what it has committed, pushed and opened; `OnBranch` says that
this is on the branch that is checked out, and on the remote after the push, as long
as HEAD is where the client saw it (`request.at = moves`). `Uncommitted` is needed for a branch without
upstream: what it is ahead of is the local default branch, so that a push could be skipped
if that had the commit already; an edit that is not committed is in no branch, hence the new
commit is not in the default one either. `MainStays` keeps the default branch out of that case.

The drafts: four invariants, each relative to the ones before. `Typed` has the types and `DiskCurrent`
(without a write that waits or was refused, localStorage has what the store has), which is all that a
reload needs. `TextInvariant` adds that a message id has one text wherever it is found (`OneText`), and that a message
on its way is shown as sent, or is excused, or has arrived (`Backed`), so that a failed send
whose view was left loses nothing unnoticed. `ThreadsInvariant` is about the thread of a draft: what
may be out of reach holds only excused text (`Placed`); a send that is to make its thread
finds it registered (`CreatorsSound`); and an empty thread still has the send that made it, or two commands
were lost (`EmptyHasCreator`, with `FailuresCounted` for what the failures of a send have cost). `OneOwner`
says that no two drafts or messages show the same preview, without which revoking one would spoil another.
`OrderInvariant` puts every piece of text in one place (`Apart`) while no answer
and no write was lost (`Repeats`), and a message on its way behind all others of its view (`LastOfView`).

The projections: `TypeInv` has the keys, one lemma per projector (`ReplaceSound`, `CheckpointSound`:
a checkpoint takes its turn count from whoever has it). `PastInv` says that `past` is the fold of the log. For each
projector, `CursorInv` relates the tables that it writes to `past` at its cursor; what keeps it in a bootstrap is
`ReplayAgrees`: but for a revert no projector reads what another one writes, so that an event gives
the same rows although the other tables are older or newer than they were live. `BootInv` counts: the
projectors before `stage` are at the end of the log, the one at `stage` gets there
with what is unread, and as soon as all have been there they stay there. `SettledNeverReopens` follows
from these by induction over the events between two of them (`SettledSince`): one that does not release a
turn leaves it settled (`EventKeepsSettled`). The models of the fold
(`ApplyAll`, `ApplyEvents`, `Following`) are recursive functions; that they satisfy their equations at every
length needs induction over the natural numbers, which the library offers only for a predicate parameter.
`SetInduction` states it for a set instead, and rests on the well-foundedness of the finite
sets under strict inclusion (without it, the intervals 0..n of what is missing would have a smallest).

Questions: `Notices`, the events on their way together with the activities of the thread, hide
whether ingestion has come to an event. A question that the adapter holds was announced and nothing else was said
of it (`Waiting`); one that it gave up was decided, and resolved once its callback went on, unless its
session ended without (`Settled`); every resolution names the decision (`Truthful`). The client's
derivation then says what `RequestsShown` claims.

Text: `TextExact` speaks of what is shown only, and says nothing of a chunk before that. `Sound` follows
every chunk. It waits in the agent, is under way in the queue, buffered by ingestion or shown: in one of these
places only (`Placed`, `Queued`), and in none only of a turn whose session is gone (`Covered`). A provider may say a
message whole at its end instead of streaming it, which ingestion takes only of a message of which it has heard nothing
(`Now`). `Order` says that the end of an item, of a turn and of a session are the last that is said of them, so that text
that is flushed with a turn is all there is; `Streams` that a message that still streams is remembered, so that the end of its turn will
find it; `Fresh` that nobody knows of a message that the agent has not begun, so that a new one starts empty. `Sound` is
stated of a *view*, a record of the state's parts that matter for text, and each step is a lemma about two views
(`SpeakStep`, `HoldStep`, `ItemStep`, `CloseStep`, ...): the many actions of the model make few different steps of them.
`Tally` says that what a message keeps is what was said of it, unless its adapter drops some.
At the end of a turn ingestion folds over the turn's messages, a finite set, by `SetInduction`, which states induction for a
set in place of a predicate. `Possible` counts the messages, for `FewMessages`. `TextInvariant`, which adds the
types and bounds, is inductive together with the invariant of the questions.

Sessions: two workers write the session of the thread, and ingestion writes back what it read before.
`Typed` has the types, which are not simple: turns and conversations grow, cursors name
conversations that exist, and a continuation of the reactor has what its next call uses. `TurnsTrue` generalises
"shown when all is processed" to every moment: a turn that is shown, that ingestion read or
that an event on its way would show is either run by a live session, or an event that
ends it comes later in the queue (`Settles`). It is stated for the place of each event in the queue,
because an event is harmless only when the one that ends its turn is *behind* it; and only without
a restart, which forgets the queue. `StopInvariant` does the same for a session that lives: it
is shown, with no exit on its way, or an event that revives it has no exit behind it
(`AliveIsShown`). That rests on every context having a provider that was tried (`AllTried`): with one
provider, an exit can only come from the session that is gone, and a replaced one that is lost takes the live
one with it. `MarksTheDead` is what the reactor knows when it writes "stopped": nothing lives, or a stop
passed over it (`passed`).

Memory: `ConversationKept` holds for reasons that differ with the setting, so that `MemoryInvariant` has an
invariant for each kind. `Calm` is common to a user who waits while nothing fails: of the requests, and of what
may become one (a context that is nearly full makes ingestion ask for a compaction), one at most is
anywhere, in the queue, with the reactor or on its way through ingestion, and no agent runs meanwhile. Without
compactions (`Plainly`), `Plain` says for the one provider that what the next session would be resumed with has
every turn that ended (`Carries`): the cursor of the live context with Claude, the conversation itself with Codex, which
the binding names after a restart too; turns do not run beside each other (`Single`). A session is never shown as stopped, for then `ensureSessionForThread`
would start one without a cursor. With one compaction (`Promptly`), `Prompt` rests on two facts about
the thread. Its messages are all the turns there were until they are cleared (`ToCompact`), so that the summary has
what ended; and whenever the reactor is not in the middle of replacing the session (`Steady`), the thread shows the
session that the router would reach, and that session remembers all (`Attached`), or nothing has happened yet
(`Untouched`). Hence a turn finds its session and starts none. A thread that is compacted before it has a session gets
one of Codex, the default; `PromptTurns` says that it serves nothing but that compaction, so that replacing it by
Claude loses nothing. `KeepsMemoryIs` shows that the six conditions of `KeepsMemory` leave these two kinds only.

Checkpoints: neither property is inductive, for both depend on what waits in three queues and on
the continuations of two workers that read the thread before they write. `ReactorInvariant` follows them.
`Counted` bounds every turn count, recorded, drafted or about to be captured, by what the turns that have started can
have recorded (`Recordable`: each turn has one completion, and one provisional checkpoint for each of its diffs, of
which those still under way are due); that bounds the refs as well. `RepliesInOrder` accounts for each request to
revert: it waits, is under way or was answered. `Linked` says that a checkpoint has the ref of its count or a provisional
one, that a ref that is about to be written belongs to none, and that one that is about to be deleted
belongs to none that stays. `InOrder` is what makes the counts contiguous: without diffs, or with a user who waits, the
*n*-th checkpoint has the count *n* (or *n* + 1, when a second diff of a turn counted its own provisional
checkpoint), and what was computed before is still the next one when it is recorded (`Fits`). `Patiently` is for the
user who waits: one turn at a time is anywhere under way, and none while a revert is (`OneAtATime`), later checkpoints are
of later turns and a ref has no edits of turns after its own (`Separated`, but for the `lost`), and from `restore` on the files have none of
the dropped turns (`Undone`). A step that records a checkpoint sorts, one that reverts filters, so
that the proofs rest on lemmas about `Projector`'s `Filter` and `StableSort`: they keep exactly the entries that pass,
in ascending order, and sorting what ascends already changes nothing (`OrderIs`, `AscendingIs`, `SortedIs`). TLC checked
`ReactorInvariant` as an invariant of the run before it was proved.

Only model-checked:

- liveness and anything under fairness (`CatchesUp` of the client included), which the proof system does not support;
- that two folds of one log agree: `SnapshotMatchesReadModel` (the second half of `SnapshotExact`) and
  `RevertRestoresHistory` compare the rows of nine projectors with `Projector`'s fold of the same log, by
  an induction over the log that relates the two after every event. `Filter` and `StableSort` can be
  reasoned about, but which messages a revert retains is decided on one side by position and count, on the other
  by rows;
- `ConversationMatches`, which depends on the same retention of messages (`RetainMessages`).

## Divergences

A run that is expected to be violated (quoted in `PROJECT.json`): `provider_cursor` - the
directory keeps the cursor of the moment in which a turn was sent, so that a restarted
server resumes Claude before that turn.

Seen while modelling, without a run.

Projections and checkpoints:

- The provisional checkpoint that ingestion makes of a `turn.diff.updated` lets the reactor
  believe that the turn is captured (`CheckpointReactor.ts:165`): its completion makes no
  checkpoint in git, while `.plans/12-effect-new.md:31` has each completed turn capture one.
  The setting of `checkpoints` with diffs has this behaviour.
- `bootstrapProjector` reads with the default limit of 1000 events and does not come back
  for the rest (`ProjectionPipeline.ts:1230`), while `.plans/spec-1-1-cutover-plan.md:147`
  wants the projections "up to latest sequence"; `TablesExact` excepts longer logs.
- An interruption that is asked for after the end of a turn makes the completed or failed turn
  `interrupted` (`ProjectionPipeline.ts:951`), and an interrupted turn that a session names as its
  active one `running` (`:848`), which a completed one does not become: so it can run again.
  `SettledStaysSettled` excepts it by name (`Releases`).
- A rewind without checkpoints retains the first *n* turns by position in the read
  model (`projector.ts:549`), and only those with a checkpoint in SQL
  (`ProjectionPipeline.ts:94`).
- The count of a provisional checkpoint is `checkpoints.length + 1`, which includes
  its own when a turn reports two diffs (`ProviderRuntimeIngestion.ts:1308`).
- The client promises that a rewind without newer checkpoints leaves files alone
  (`ChatView.tsx:3261`); the server restores the latest one
  (`CheckpointReactor.ts:476`).
- Replay of `thread.reverted`: live, the message projector prunes by turn rows
  that are up to date (it runs before the turn projector, in the same event);
  in a bootstrap from scratch it replays all events before the turn projector
  has any rows, so it keeps other messages (`ProjectionPipeline.ts:622`; compare
  `.plans/14-server-authoritative-event-sourcing-cleanup.md`). The histories with
  reverts start with nothing unprojected but the creation, and crash afterwards
  only with cursors at the end.
- A checkpoint of status `missing` makes the latest turn `interrupted` in memory
  (`projector.ts:34`) and `completed` in SQL (`ProjectionPipeline.ts:977`);
  `latestTurnId` in SQL follows `activeTurnId`, also to null, the read model keeps
  the last turn. `StoredView` and `MemoryView` leave the latest turn out.
- After a revert user messages, which carry no turn, are kept by count in memory
  and by `pending_message_id` in SQL. `SnapshotMatchesReadModel` compares only
  rows with a turn once a revert has happened; `RevertRestoresHistory` compares all.
- The caps of the read model (2000 messages, 500 checkpoints, 200 plans, 500
  activities) have no counterpart in SQL.
- The root checkpoint is captured by the reactor's fiber while the agent may
  already run (`CheckpointReactor.ts:406`), so it may contain edits of the first
  turn; `CheckpointsRestorable` and `RevertUndoesEdits` speak of edits only for
  checkpoints of turns, and the latter of targets above 0.
- A completion that is processed when the next turn is active is dropped, and its
  turn never captured (`CheckpointReactor.ts:161`).
- A revert that fails after the provider rolled back leaves the read model
  unreverted (`CheckpointReactor.ts:504`; compare
  `.plans/16-pr89-review-remediation-phases.md`). When it has deleted refs, or some of them
  (`CheckpointStore.ts:257`), checkpoints that are still shown cannot be restored, or a later baseline
  makes the ref anew from later files (`lost`).
- Claude's `rollbackThread` only shortens the adapter's own list of turns
  (`ClaudeCodeAdapter.ts:2415`): the agent remembers what was rolled back (`forgets`).
- A dispatch of a completed diff that fails leaves a ref without checkpoint
  (`CheckpointReactor.ts:262`).
- `projection_pending_approvals`: a late response of the user overwrites a resolved row's
  time, and user-input activities make pending rows that nothing resolves
  (`ProjectionPipeline.ts:1062`-1150).

Sessions:

- A lifecycle event writes back the session that ingestion read before the dispatch, so
  that it can put back a runtime mode which the reactor has just changed
  (`ProviderRuntimeIngestion.ts:929`-941); the reactor's test "restarts the provider
  session when runtime mode is updated on the thread" runs without ingestion.
- The exit of an earlier session shows the thread as "stopped" for a moment, although another
  one has been started. A stop that is taken then passes over the live session, and
  marks the thread as stopped all the same; so does a compaction, whose new session hides the
  old one, unless its start fails (`history.passed`).
- A compaction of a thread without a session starts Codex (`ProviderCommandReactor.ts:595`), also
  where only Claude is used; the next turn leaves both live.
- `session.exited` marks the thread stopped, and the next session is started without a
  cursor although the binding has one (`ProviderCommandReactor.ts:276`).
- A send that fails is only logged, and its failure shown as an activity: the same event is
  not tried again.
- Codex gets no summary when a conversation is compacted
  (`ProviderCommandReactor.ts:581`); Claude gets it with its next prompt, and a change of
  mode, or a second compaction, before that prompt drops it. A late `session.exited`
  of the old session during a compaction has the same effect, hence `prompt` in
  `KeepsMemory`.
- A replaced Claude context is not closed everywhere, and its late failure deletes
  the map entry of the session that replaced it; switching the provider leaves both
  sessions live (compare `.plans/17-claude-code.md`).

Text and questions:

- The delivery mode is one reference for all threads: a switch from buffered to streaming in
  the middle of a message puts later text first (`ProviderRuntimeIngestion.ts:1130`-1154),
  therefore the order in `TextKept` is stated without switches.
- Text that is buffered is lost when the server stops, after the 120 minutes of the
  buffer's time to live, when the dispatch of its final delta fails, and when a Codex
  session stops or exits in the middle of a message (`clearTurnStateForSession`).
- Of the messages that a Claude stream did not stream, only the last is shown
  (`ClaudeCodeAdapter.ts:1067`), and none after streamed text (`:781`). `TextExact` excepts them
  by name (`Dropped`).
- A second turn that is sent to Codex while one runs is not refused
  (`codexAppServerManager.ts:733`): both run, and the thread shows the later one.
- A Codex session that stops, and a failed Claude stream, leave their approvals open in
  the client; the client clears one only on the text "Unknown pending permission request"
  (`session-logic.ts:244`, whose test has the case "clears stale pending approvals when
  provider reports unknown pending request"), while the adapters say "Unknown
  pending approval request" (`ClaudeCodeAdapter.ts:2437`, `codexAppServerManager.ts:907`).
  Questions to the user have no such case at all.
- Activities are ordered by a millisecond time and then by a random id, and a failure
  activity carries the client's clock: a resolution may sort before its request.

Client and terminals:

- The router does not notice that a pushed event leaves a gap after the last one
  (`__root.tsx:186`; `.plans/spec-contract-matrix.md:399` wants it to): what it
  missed it learns only from the snapshot that the event makes it fetch.
- A failed synchronisation is not repeated until the next event or welcome
  (`__root.tsx:185`); the plan view writes snapshots past the router
  (`ChatView.tsx:3970`-3992), also older ones.
- Requests made without a connection poll for one independently, each every 50 ms, and are sent in any
  order.
- Eviction of an inactive terminal before its debounced write loses its last output;
  eviction of one that is starting leaves a process that close, restart and dispose do not reach,
  although `terminal/Services/Manager.ts` says "closes all sessions for the thread" and
  "Dispose all managed terminal resources".
- When `kill("SIGTERM")` throws, `killProcessWithEscalation` warns and returns
  (`Manager.ts:772`-783), after the session has given its process up: close and restart succeed, and
  the process goes on with neither a session nor a timer. A `SIGKILL` that throws is not repeated.
- A transcript that cannot be removed is kept with a warning (`Manager.ts:951`-959, 1113-1118) and
  close succeeds: the next open shows it again.
- Dispose during a spawn leaves the process live, and dispose clears the SIGKILL timers, so that a
  process that ignores SIGTERM survives it.

Drafts:

- The images of a draft are staged and then, in a microtask, compared with localStorage, where
  the write arrives 300 ms later (`composerDraftStore.ts:1170`): they are dropped before
  they are saved. The view says "Stage attachments in persisted draft state first so
  persist middleware can write them" (`ChatView.tsx:2902`). `Stage` does the same, `persisted` is
  never more than empty, and no property speaks of images after a reload.
- A refused write is noticed by nobody (`composerDraftStore.ts:30`): a reload brings back what was
  written before, a text that was sent in the meantime included, which can then be sent again.
- The message of a failed send returns only when nothing is typed; otherwise it stays as an
  optimistic message, and is lost when its view is left (`excused`). The refs of
  a view that was left are those of its last render: a failure that comes after the user has
  left the thread and come back overwrites what was typed since (`ChatView.tsx:3577`).
- A lost answer to `thread.turn.start` is a failure to the client, which deletes the thread
  that it created, with the accepted message in it.
- The id of a thread that was created and deleted cannot be created again
  (`requireThreadAbsent`), so that the restored draft can never be sent; when a snapshot
  had the thread before its deletion, and no later one came, the retry is accepted into the
  deleted thread and its draft thread forgotten. `DraftsReachable` excepts the latter.
- A first message forgets the draft thread when its turn is accepted. When no
  snapshot has the thread yet, the route shows the index (`_chat.$threadId.tsx:253`).

Git:

- After a push that succeeded and a pull request that failed, neither the quick action nor
  the menu offers to create the pull request: nothing is ahead any more
  (`GitActionsControl.logic.ts:133`, `:268`).
- The question about the default branch offers a feature branch for a push of existing commits,
  too, which always fails: there are no changes to commit (`GitManager.ts:825`).
- The "Push" that a message offers is a stacked action, which commits what was written since
  (`GitCore.ts:735`, `git add -A`).
- The preparation of a thread on a pull request makes the local branch the pull request's
  (`branch --force`, `gh pr checkout --force`): commits that were not pushed, and
  edits that were not committed, are overwritten. `EditsKept` excepts them.
- Where origin/HEAD is not set (`git init`, `git remote add`), the list of branches knows no default branch and its
  `isDefault: false` keeps the client from going by the name (`GitActionsControl.tsx:197`): main is pushed without the
  question. Before the list is read, a default branch that is not called main or master is, too. `DefaultConfirmed` excepts both (`told`).
- What a branch without upstream is ahead of is the local default branch, however old; where that cannot be told, it
  never is ahead, and the client offers no push of what was committed before.
- While status and list of branches disagree for a moment, a commit confirmed in its
  dialog counts as one on no default branch, and the "Push" that its success offers pushes main
  without the question (found by TLC). `DefaultConfirmed` excepts it (`Unseen`).

Desktop:

- An `error` event during an installation sets the status without the context `install`
  (`main.ts:844`), which hides the button that would repeat it, although the client's test
  "keeps install action available after an install error" has that case; it also leaves
  `isQuitting` set, which refuses another attempt.
- An installation that fails leaves no server, and no timers that poll for updates, until the
  application is restarted. While quitting, it clears `isQuitting`, and a late exit of the
  server can start another.
- A failed check hides the button of an available update (`resolveDesktopUpdateButtonAction`).
- The SIGKILL timer of `stopBackend` does not keep a quitting application alive (it is
  `unref`ed): a server that ignores SIGTERM outlives it. `ServersToldToStop` therefore
  promises the signal and not the end.

## Not modelled

The map covers a small part of the implementation's lines, and this is the
reason: of its 76 943 lines most are React views, the
translation of two agents' protocols field by field, parsing of git and gh output,
schemas, SQL text, and presentation. They decide what is displayed or how a value is
spelled and hold no state that an interleaving, a failure or a restart could bring out of
step; a model of them would restate them. What does hold such state is modelled.

- Telemetry, keybindings, usage tracking, workspace search, attachments,
  the other web views, packaging and the marketing site: I/O, parsing and presentation.
- Of the desktop shell, windows, menus, the live browser and time (backoff, polling
  intervals). Of the drafts, the choices of model, provider and mode, several projects,
  follow-ups of plans, slash commands, worktrees and setup scripts, and the five seconds for
  which the previews of an acknowledged message are kept.
- Of git, forks, a detached HEAD, removal of worktrees and renaming of their branches, the fallback fetch of
  `refs/pull`, diffs, and the texts of commits and pull requests.
- In what is modelled: attachment files that a revert prunes; timestamps other
  than creation order; a git restore that stops in the middle; compaction and
  restarts in CheckpointReactor, a failing dispatch of its answer to a revert; the check
  for its message of a compaction queued behind another; what Codex makes of a second turn
  (queue, merge); diffs between checkpoints; proposed plans and tool
  activities in ingestion; the other WebSocket methods,
  which forward; the cap and migration of terminal transcripts, unreadable
  transcripts, a process that is spawned but fails to be wired up, removals of other transcripts of a
  thread that go on after one failed, an invalid working directory, and ties of `updatedAt` within a
  millisecond.
- The first turn of a terminal's flush loop runs at once in the code and as a step of its
  own in the model, which therefore has more interleavings.

## Plan

Done: engine, decider, projector, pipeline, snapshot, checkpoint reactor,
provider sessions, text and requests, client synchronisation, terminals, drafts, the desktop shell, the git actions; the
two refinements (CommandLedger, SnapshotView); proofs of the engine and of the
client, their refinements included, of the projections, the sessions, the questions, the text, the drafts, the terminals,
the desktop shell, the git actions and the checkpoints. Left, in this order:

1. Restarts and compaction in CheckpointReactor; proposed plans in RuntimeEvents.
2. A run of the projector with small caps.
3. Proofs: `ConversationMatches` of the checkpoint reactor, and that the two folds of one log agree.

-------------------------- MODULE CheckpointReactor --------------------------
(***************************************************************************)
(* Checkpoints of one thread: orchestration/Layers/CheckpointReactor.ts     *)
(* with the actors it races.                                                *)
(*                                                                         *)
(* The worker of the reactor merges the domain events of the engine and the *)
(* runtime events of the provider.  The runtime events also reach           *)
(* ProviderRuntimeIngestion, which keeps the session of the read model and, *)
(* for a provider that reports diffs, records provisional checkpoints.  The *)
(* user and the provider go on meanwhile: the provider edits the workspace  *)
(* between any two steps of the worker.  A dispatch is one step here: what  *)
(* the engine makes of it is the subject of OrchestrationEngine.            *)
(*                                                                         *)
(* The workspace is the set of turns whose edits are in it, a git ref the   *)
(* set that was captured, and turn n has the messages 2n - 1 and 2n.        *)
(***************************************************************************)
EXTENDS Projector

CONSTANTS
    Settings,    \* the circumstances to consider: records of
                 \*   turns, reverts: bounds of what the user requests
                 \*   faults: bound of failures of git, of the provider, of sessions
                 \*   diffs: bound of turn.diff.updated of a turn; 0 if the
                 \*          provider reports none
                 \*   patient: the user waits until a turn has been checkpointed
                 \*   git: isGitWorkspace(cwd)
                 \*   forgets: a rollback makes the agent forget (Codex), or only
                 \*            shortens the adapter's list of turns (Claude)
                 \*   states: how turns end
    Provisional, \* a checkpointRef "provider-diff:..."
    NoJob        \* the worker waits for its queue

ASSUME ReactorAssumption ==
    /\ \A s \in Settings :
          /\ {s.turns, s.reverts, s.faults, s.diffs} \subseteq Nat
          /\ {s.patient, s.git, s.forgets} \subseteq BOOLEAN
          /\ s.states \subseteq {"completed", "failed", "interrupted"}
    /\ NoTurn \notin Nat /\ Provisional \notin Nat
    /\ NoJob \notin [turn : Nat, count : Nat]
    /\ NoJob \notin [step : {"capture"}, count : Nat, turn : {NoTurn}]
    /\ NoJob \notin [step : {"capture", "record"}, count : Nat, turn : Nat,
                      status : {"error", "missing", "ready"}]
    /\ NoJob \notin [step : {"restore", "rollback", "delete", "complete"}, turnCount : Nat,
                      rollback : Nat, stale : SUBSET (Nat \cup {Provisional}),
                      target : Nat \cup {Provisional}]
    /\ NoJob \notin [step : {"rollback", "delete", "complete"}, turnCount : Nat,
                      rollback : Nat, stale : {{}}]

VARIABLES
    setting,    \* of this behaviour
    thread,     \* the engine's read model of the thread
    domain,     \* domain events on their way to the reactor
    runtime,    \* runtime events on their way to the reactor
    ingest,     \* runtime events on their way to ingestion
    draft,      \* ingestion's provisional checkpoint before its dispatch
    job,        \* what the worker does, NoJob or its continuation
    files,      \* the workspace
    refs,       \* refs/t3/checkpoints/<thread>/turn/<count>
    lost,       \* history: refs deleted by reverts that failed afterwards
    provider,   \* [session, active, turns, memory]: its session, the turns that
                \* its adapter lists and those that the agent remembers
    requests,   \* turns that ProviderCommandReactor has yet to send
    turns,      \* turns requested so far
    asked,      \* reverts requested so far
    replies,    \* "reverted" or "failed" (checkpoint.revert.failed), in order
    faults,
    diffs       \* turn.diff.updated of the active turn

control == <<turns, asked, faults>>
user == <<requests, turns, asked>>
reactorVars == <<setting, thread, domain, runtime, ingest, draft, job, files, refs, lost, provider,
          requests, turns, asked, replies, faults, diffs>>

Max0(S) == Max(S \cup {0})
Counts == {c.count : c \in Range(thread.checkpoints)}
CurrentTurnCount == Max0(Counts)
Project(type, data) == thread' = ProjectThread(thread, [type |-> type, data |-> data])
QueuesEmpty == domain = << >> /\ runtime = << >> /\ ingest = << >> /\ job = NoJob /\ draft = NoJob

ReactorInit ==
    /\ setting \in Settings
    /\ thread = [NewThread("project", "full-access") EXCEPT
                    !.session = [status |-> "ready", activeTurn |-> NoTurn]]
    /\ domain = << >> /\ runtime = << >> /\ ingest = << >>
    /\ draft = NoJob /\ job = NoJob
    /\ files = {} /\ refs = [count \in {} |-> {}] /\ lost = {}
    /\ provider = [session |-> TRUE, active |-> NoTurn, turns |-> << >>, memory |-> {}]
    /\ requests = << >> /\ turns = 0 /\ asked = 0 /\ replies = << >>
    /\ faults = 0 /\ diffs = 0

-----------------------------------------------------------------------------
(***************************************************************************)
(* The user.                                                                *)
(***************************************************************************)

(* thread.turn.start: both its events reach the reactor. *)
RequestTurn ==
    /\ turns < setting.turns
    /\ setting.patient => QueuesEmpty /\ requests = << >> /\ provider.active = NoTurn
    /\ turns' = turns + 1
    /\ Project("thread.message-sent",
               [message |-> 2 * turns' - 1, role |-> "user", turn |-> NoTurn,
                text |-> << >>, streaming |-> FALSE, at |-> 10 * turns'])
    /\ domain' = domain \o << [type |-> "message-sent"], [type |-> "turn-start-requested"] >>
    /\ requests' = Append(requests, turns')
    /\ UNCHANGED <<setting, runtime, ingest, draft, job, files, refs, lost, provider,
                   asked, replies, faults, diffs>>

(* thread.checkpoint.revert: clients offer it between turns only. *)
RequestRevert(n) ==
    /\ asked < setting.reverts
    /\ thread.session.status # "running" /\ requests = << >>
    /\ setting.patient => QueuesEmpty /\ provider.active = NoTurn
    /\ asked' = asked + 1
    /\ domain' = Append(domain, [type |-> "checkpoint-revert-requested", turnCount |-> n])
    /\ UNCHANGED <<setting, thread, runtime, ingest, draft, job, files, refs, lost,
                   provider, requests, turns, replies, faults, diffs>>

-----------------------------------------------------------------------------
(***************************************************************************)
(* The provider, outside of the repository.                                 *)
(***************************************************************************)
Emit(event) ==
    /\ ingest' = Append(ingest, event)
    /\ runtime' = IF event.type \in {"turn.started", "turn.completed"}
                  THEN Append(runtime, event) ELSE runtime

StartTurn ==
    /\ requests # << >> /\ provider.active = NoTurn
    /\ provider' = [provider EXCEPT !.session = TRUE, !.active = Head(requests)]
    /\ requests' = Tail(requests)
    /\ diffs' = 0
    /\ Emit([type |-> "turn.started", turn |-> provider'.active])
    /\ UNCHANGED <<setting, thread, domain, draft, job, files, refs, lost, control,
                   replies>>

AgentWrites ==
    /\ provider.active # NoTurn
    /\ files' = files \cup {provider.active}
    /\ UNCHANGED <<setting, thread, domain, runtime, ingest, draft, job, refs, lost,
                   provider, user, replies, faults, diffs>>

ReportDiff ==
    /\ provider.active \in files
    /\ diffs < setting.diffs
    /\ diffs' = diffs + 1
    /\ Emit([type |-> "turn.diff.updated", turn |-> provider.active])
    /\ UNCHANGED <<setting, thread, domain, draft, job, files, refs, lost, provider, user,
                   replies, faults>>

CompleteTurn(state) ==
    /\ provider.active # NoTurn
    /\ Emit([type |-> "turn.completed", turn |-> provider.active, state |-> state])
    /\ provider' = [provider EXCEPT !.active = NoTurn, !.turns = Append(@, provider.active),
                                    !.memory = @ \cup {provider.active}]
    /\ UNCHANGED <<setting, thread, domain, draft, job, files, refs, lost, user, replies,
                   faults, diffs>>

(* The process of the provider exits, with the turn that it was in; Codex *)
(* keeps its list of turns, Claude's adapter starts a new one.            *)
LoseSession ==
    /\ faults < setting.faults /\ provider.session
    /\ faults' = faults + 1
    /\ provider' = [provider EXCEPT !.session = FALSE, !.active = NoTurn,
                                    !.turns = IF setting.forgets THEN @ ELSE << >>]
    /\ Emit([type |-> "session.exited"])
    /\ UNCHANGED <<setting, thread, domain, draft, job, files, refs, lost, user, replies,
                   diffs>>

-----------------------------------------------------------------------------
(***************************************************************************)
(* ProviderRuntimeIngestion: one event after the other.                     *)
(***************************************************************************)
(* shouldApplyThreadLifecycle: only the active turn may start or end. *)
Applies(event) ==
    \/ event.type = "session.exited"
    \/ thread.session.activeTurn \in {NoTurn, event.turn}

SessionAfter(event) ==
    CASE event.type = "turn.started" -> [status |-> "running", activeTurn |-> event.turn]
      [] event.type = "session.exited" -> [status |-> "stopped", activeTurn |-> NoTurn]
      [] OTHER -> [status |-> IF event.state = "failed" THEN "error" ELSE "ready",
                   activeTurn |-> NoTurn]

LastMessage(turn) ==
    [message |-> 2 * turn, role |-> "assistant", turn |-> turn, text |-> << >>,
     streaming |-> FALSE, at |-> 10 * turn + 2]

(* thread.session.set and, for a turn that ends, its last message *)
IngestLifecycle ==
    /\ draft = NoJob /\ ingest # << >>
    /\ LET event == Head(ingest)
           set == IF Applies(event) THEN SetSession(thread, SessionAfter(event)) ELSE thread
       IN  /\ event.type # "turn.diff.updated"
           /\ thread' = IF event.type = "turn.completed"
                        THEN SendMessage(set, LastMessage(event.turn)) ELSE set
    /\ ingest' = Tail(ingest)
    /\ UNCHANGED <<setting, domain, runtime, draft, job, files, refs, lost, provider, user,
                   replies, faults, diffs>>

(* turn.diff.updated: the turn count is read ... *)
IngestDiff ==
    /\ draft = NoJob /\ ingest # << >>
    /\ Head(ingest).type = "turn.diff.updated"
    /\ draft' = IF setting.git
                THEN [turn |-> Head(ingest).turn, count |-> Len(thread.checkpoints) + 1]
                ELSE NoJob
    /\ ingest' = Tail(ingest)
    /\ UNCHANGED <<setting, thread, domain, runtime, job, files, refs, lost, provider,
                   user, replies, faults, diffs>>

(* ... and dispatched as a provisional checkpoint. *)
RecordDraft ==
    /\ draft # NoJob
    /\ Project("thread.turn-diff-completed",
               [turn |-> draft.turn, count |-> draft.count, status |-> "missing",
                assistant |-> 2 * draft.turn, ref |-> Provisional])
    /\ draft' = NoJob
    /\ UNCHANGED <<setting, domain, runtime, ingest, job, files, refs, lost, provider,
                   user, replies, faults, diffs>>

-----------------------------------------------------------------------------
(***************************************************************************)
(* The worker of the reactor.  A job is the rest of a handler after its     *)
(* reads: what it writes later it decides on the thread it read.            *)
(***************************************************************************)
Rest == <<ingest, draft, provider, user, faults, diffs>>

Reply(outcome) == replies' = Append(replies, outcome)

(* ensurePreTurnBaselineFrom(Domain)TurnStart *)
Baseline ==
    IF setting.git /\ CurrentTurnCount \notin DOMAIN refs
    THEN [step |-> "capture", count |-> CurrentTurnCount, turn |-> NoTurn] ELSE NoJob

(* captureCheckpointFromTurnCompletion, up to its capture *)
CheckpointStatus(state) ==
    CASE state = "failed" -> "error" [] state = "interrupted" -> "missing" [] OTHER -> "ready"

(* Mutant of Capture: the turn count is taken after its increment. *)
CaptureTwoAhead(event) ==
    IF /\ thread.session.activeTurn \in {NoTurn, event.turn}
       /\ ~ \E c \in Range(thread.checkpoints) : c.turn = event.turn
       /\ setting.git
    THEN [step |-> "capture", count |-> CurrentTurnCount + 2, turn |-> event.turn,
          status |-> CheckpointStatus(event.state)]
    ELSE NoJob

Capture(event) ==
    IF /\ thread.session.activeTurn \in {NoTurn, event.turn}
       /\ ~ \E c \in Range(thread.checkpoints) : c.turn = event.turn
       /\ setting.git
    THEN [step |-> "capture", count |-> CurrentTurnCount + 1, turn |-> event.turn,
          status |-> CheckpointStatus(event.state)]
    ELSE NoJob

TakeRuntime ==
    /\ job = NoJob /\ runtime # << >>
    /\ LET event == Head(runtime)
       IN  job' = CASE event.type = "turn.started" -> Baseline
                    [] event.type = "turn.completed" -> Capture(event)
    /\ runtime' = Tail(runtime)
    /\ UNCHANGED <<setting, thread, domain, files, refs, lost, replies, Rest>>

TakeTurnStart ==
    /\ job = NoJob /\ domain # << >>
    /\ Head(domain).type # "checkpoint-revert-requested"
    /\ job' = Baseline
    /\ domain' = Tail(domain)
    /\ UNCHANGED <<setting, thread, runtime, files, refs, lost, replies, Rest>>

(* handleRevertRequested, up to its first effect *)
UserMessages == {i \in DOMAIN thread.messages : thread.messages[i].role = "user"}

RevertPlan(n) ==
    IF thread.checkpoints # << >> /\ setting.git
    THEN [step |-> "restore", turnCount |-> n,
          rollback |-> IF CurrentTurnCount > n THEN CurrentTurnCount - n ELSE 0,
          stale |-> {c.ref : c \in {d \in Range(thread.checkpoints) : d.count > n}},
          target |-> IF n = 0 THEN 0
                     ELSE thread.checkpoints[Min({i \in DOMAIN thread.checkpoints :
                                                    thread.checkpoints[i].count = n})].ref]
    ELSE [step |-> "rollback", turnCount |-> n, stale |-> {},
          rollback |-> Cardinality(UserMessages) - n]

Revertible(n) ==
    /\ provider.session
    /\ IF thread.checkpoints # << >> /\ setting.git
       THEN n <= CurrentTurnCount /\ n \in Counts \cup {0}
       ELSE n <= Cardinality(UserMessages)

(* Mutant of TakeRevert: an impossible request is dropped. *)
TakeRevertSilently ==
    /\ job = NoJob /\ domain # << >>
    /\ Head(domain).type = "checkpoint-revert-requested"
    /\ LET n == Head(domain).turnCount
       IN  job' = IF Revertible(n) THEN RevertPlan(n) ELSE NoJob
    /\ domain' = Tail(domain)
    /\ UNCHANGED <<setting, thread, runtime, files, refs, lost, replies, Rest>>

TakeRevert ==
    /\ job = NoJob /\ domain # << >>
    /\ Head(domain).type = "checkpoint-revert-requested"
    /\ LET n == Head(domain).turnCount
       IN  IF Revertible(n) THEN job' = RevertPlan(n) /\ UNCHANGED replies
                            ELSE UNCHANGED job /\ Reply("failed")
    /\ domain' = Tail(domain)
    /\ UNCHANGED <<setting, thread, runtime, files, refs, lost, Rest>>

\* The refs after the workspace was captured in one of them.
Saved(all, count) ==
    [saved \in {count} \cup DOMAIN all |-> IF saved = count THEN files ELSE all[saved]]

(* captureCheckpoint: the workspace as it is now, for a checkpoint to record or *)
(* as the baseline of a turn *)
CaptureRef ==
    /\ job # NoJob /\ job.step = "capture"
    /\ refs' = Saved(refs, job.count)
    /\ IF job.turn = NoTurn
       THEN job' = NoJob /\ UNCHANGED lost
       ELSE job' = [job EXCEPT !.step = "record"] /\ lost' = lost \ {job.count}
    /\ UNCHANGED <<setting, thread, domain, runtime, files, replies, Rest>>

(* Mutant of RecordCheckpoint: the turn count that the turn started from. *)
RecordFromCount ==
    /\ job # NoJob /\ job.step = "record"
    /\ Project("thread.turn-diff-completed",
               [turn |-> job.turn, count |-> job.count - 1, status |-> job.status,
                assistant |-> 2 * job.turn, ref |-> job.count])
    /\ job' = NoJob
    /\ UNCHANGED <<setting, domain, runtime, files, refs, lost, replies, Rest>>

(* thread.turn.diff.complete *)
RecordCheckpoint ==
    /\ job # NoJob /\ job.step = "record"
    /\ Project("thread.turn-diff-completed",
               [turn |-> job.turn, count |-> job.count, status |-> job.status,
                assistant |-> 2 * job.turn, ref |-> job.count])
    /\ job' = NoJob
    /\ UNCHANGED <<setting, domain, runtime, files, refs, lost, replies, Rest>>

(* Mutant of RestoreFiles: files added since the checkpoint are not cleaned. *)
RestoreWithoutClean ==
    /\ job # NoJob /\ job.step = "restore"
    /\ IF job.target \in DOMAIN refs \/ job.turnCount = 0
       THEN /\ files' = IF job.target \in DOMAIN refs THEN files \cup refs[job.target] ELSE files
            /\ job' = [job EXCEPT !.step = "rollback"]
            /\ UNCHANGED replies
       ELSE UNCHANGED files /\ job' = NoJob /\ Reply("failed")
    /\ UNCHANGED <<setting, thread, domain, runtime, refs, lost, Rest>>

(* restoreCheckpoint: turn 0 falls back to HEAD. *)
RestoreFiles ==
    /\ job # NoJob /\ job.step = "restore"
    /\ IF job.target \in DOMAIN refs \/ job.turnCount = 0
       THEN /\ files' = IF job.target \in DOMAIN refs THEN refs[job.target] ELSE {}
            /\ job' = [job EXCEPT !.step = "rollback"]
            /\ UNCHANGED replies
       ELSE UNCHANGED files /\ job' = NoJob /\ Reply("failed")
    /\ UNCHANGED <<setting, thread, domain, runtime, refs, lost, Rest>>

(* Mutant of RolledBack: one turn only. *)
RolledBackOne(count) ==
    LET kept == SubSeq(provider.turns, 1, Len(provider.turns) - Min({1, Len(provider.turns)}))
    IN  [provider EXCEPT !.session = TRUE, !.turns = kept,
                         !.memory = IF setting.forgets THEN Range(kept) ELSE @]

(* rollbackConversation, which recovers a session that was lost *)
RolledBack(count) ==
    LET kept == SubSeq(provider.turns, 1, Len(provider.turns) - Min({count, Len(provider.turns)}))
    IN  [provider EXCEPT !.session = TRUE, !.turns = kept,
                         !.memory = IF setting.forgets THEN Range(kept) ELSE @]

RollBack ==
    /\ job # NoJob /\ job.step = "rollback"
    /\ provider' = IF job.rollback = 0 THEN provider ELSE RolledBack(job.rollback)
    /\ job' = [job EXCEPT !.step = "delete"]
    /\ UNCHANGED <<setting, thread, domain, runtime, ingest, draft, files, refs, lost,
                   user, replies, faults, diffs>>

(* deleteCheckpointRefs, ref by ref: one that git refuses to delete stays, and *)
(* nothing is said of it.                                                      *)
Without(gone) == [count \in DOMAIN refs \ gone |-> refs[count]]

DeleteRefs ==
    /\ job # NoJob /\ job.step = "delete"
    /\ \E gone \in SUBSET job.stale :
          /\ refs' = Without(gone)
          /\ IF gone = job.stale THEN UNCHANGED faults
             ELSE faults < setting.faults /\ faults' = faults + 1
    /\ job' = [job EXCEPT !.step = "complete"]
    /\ UNCHANGED <<setting, thread, domain, runtime, ingest, draft, files, lost, provider,
                   user, replies, diffs>>

(* thread.revert.complete *)
CompleteRevert ==
    /\ job # NoJob /\ job.step = "complete"
    /\ Project("thread.reverted", [turnCount |-> job.turnCount])
    /\ job' = NoJob
    /\ Reply("reverted")
    /\ UNCHANGED <<setting, domain, runtime, files, refs, lost, Rest>>

(* What calls git, the provider or the engine: nothing to roll back or delete, *)
(* no call.                                                                    *)
MayFail ==
    \/ job.step \in {"capture", "record", "restore", "complete"}
    \/ job.step = "rollback" /\ job.rollback > 0
    \/ job.step = "delete" /\ job.stale # {}

(* Mutant of HandlerFails: the failure is only logged. *)
HandlerFailsSilently ==
    /\ faults < setting.faults
    /\ job # NoJob /\ MayFail
    /\ faults' = faults + 1
    /\ job' = NoJob
    /\ UNCHANGED <<setting, thread, domain, runtime, ingest, draft, files, refs, lost,
                   provider, user, replies, diffs>>

(* What a revert deleted that fails now: some refs, or all that are gone. *)
Deleted ==
    CASE job.step = "delete" -> SUBSET job.stale
      [] job.step = "complete" -> {job.stale \ DOMAIN refs}
      [] OTHER -> {{}}

(* A call fails: the handler stops and says so. *)
HandlerFails ==
    /\ faults < setting.faults
    /\ job # NoJob /\ MayFail
    /\ faults' = faults + 1
    /\ job' = NoJob
    /\ \E gone \in Deleted : refs' = Without(gone) /\ lost' = lost \cup gone
    /\ IF job.step \in {"capture", "record"} THEN UNCHANGED replies ELSE Reply("failed")
    /\ UNCHANGED <<setting, thread, domain, runtime, ingest, draft, files, provider, user,
                   diffs>>

Work ==
    \/ TakeRuntime \/ TakeTurnStart \/ TakeRevert
    \/ CaptureRef \/ RecordCheckpoint
    \/ RestoreFiles \/ RollBack \/ DeleteRefs \/ CompleteRevert \/ HandlerFails

Ingest == IngestLifecycle \/ IngestDiff \/ RecordDraft

Environment ==
    \/ RequestTurn \/ \E n \in 0 .. setting.turns : RequestRevert(n)
    \/ StartTurn \/ AgentWrites \/ ReportDiff
    \/ \E state \in setting.states : CompleteTurn(state)
    \/ LoseSession

ReactorNext == Environment \/ Ingest \/ Work

ReactorSpec == ReactorInit /\ [][ReactorNext]_reactorVars
ReactorLiveSpec == ReactorSpec /\ WF_reactorVars(Work) /\ WF_reactorVars(Ingest)

-----------------------------------------------------------------------------
(***************************************************************************)
(* Properties.                                                              *)
(***************************************************************************)
Steps == {"capture", "record", "restore", "rollback", "delete", "complete"}
TurnIds == 1 .. setting.turns

\* Types, and the bounds of the queues.
ReactorTypeOK ==
    /\ \A c \in Range(thread.checkpoints) :
          c.turn \in TurnIds /\ c.count \in Nat \ {0} /\ c.ref \in Nat \cup {Provisional}
    /\ files \subseteq TurnIds
    /\ DOMAIN refs \subseteq 0 .. setting.turns * (1 + setting.diffs)
    /\ \A count \in DOMAIN refs : refs[count] \subseteq TurnIds
    /\ provider.session \in BOOLEAN
    /\ provider.active \in TurnIds \cup {NoTurn}
    /\ Range(provider.turns) \cup provider.memory \subseteq TurnIds
    /\ job # NoJob => job.step \in Steps
    /\ Len(replies) <= asked /\ asked <= setting.reverts
    /\ turns <= setting.turns /\ faults <= setting.faults

Settled == QueuesEmpty /\ requests = << >> /\ provider.active = NoTurn

\* The checkpoints of a thread are counted 1, 2, ... without a gap or a
\* repetition, whatever turns, failures and reverts the reactor interleaves,
\* unless the provider reports diffs: "turn counts are monotonic and contiguous"
\* (.plans/13-provider-service-integration-tests.md).
CountsContiguous == setting.diffs = 0 => Counts = 1 .. Len(thread.checkpoints)

\* A checkpoint that the reactor recorded can be restored: its git ref exists,
\* except while the revert that drops it is between deleting refs and its event,
\* and contains no edits of a turn that was checkpointed later, unless turns are
\* requested before the last one is captured. Excepted are the checkpoints whose
\* refs were deleted by a revert that then failed, and which are shown as before:
\* their refs are missing, or were made again as the baseline of a later turn.
CheckpointsRestorable ==
    \A c \in Range(thread.checkpoints) :
        /\ \/ c.ref \in DOMAIN refs \cup {Provisional} \cup lost
           \/ job # NoJob /\ job.step = "complete" /\ c.count > job.turnCount
        /\ setting.patient /\ c.ref \in DOMAIN refs \ lost =>
              \A d \in Range(thread.checkpoints) :
                  c.count < d.count => d.turn \notin refs[c.ref]

\* A request to revert is answered exactly once, by thread.reverted or by a
\* checkpoint.revert.failed activity, whatever fails on the way.
OneReplyPerRevert == QueuesEmpty => Len(replies) = asked

\* What is recorded of checkpoints is well-formed, contiguous and restorable, and
\* every request to revert has one answer.
CheckpointsSound ==
    ReactorTypeOK /\ CountsContiguous /\ CheckpointsRestorable /\ OneReplyPerRevert

\* After a revert to a checkpoint the workspace holds none of the edits of the
\* turns that the read model drops, unless an earlier revert failed after it had
\* deleted the checkpoint's ref.
RevertUndoesEdits ==
    [][setting.patient /\ setting.git /\ job # NoJob /\ job.step = "complete"
        /\ job.turnCount > 0 /\ job.turnCount \notin lost =>
          \A c \in Range(thread.checkpoints) :
              c.count > job.turnCount => c.turn \notin files]_reactorVars

(* No failure, and each turn is requested on a settled thread. *)
Orderly == setting.patient /\ faults = 0

\* When nothing is under way, the provider lists the turns that the read model
\* shows, neither more nor less, with checkpoints and, in a workspace without git,
\* by counting user messages; the agent remembers each of them and, unless a
\* rollback only shortens the list, nothing else.
ConversationMatches ==
    LET shown == {m.turn : m \in Range(thread.messages)} \ {NoTurn}
    IN  Orderly /\ Settled /\ (setting.git => setting.diffs = 0) =>
            /\ Range(provider.turns) = shown
            /\ shown \subseteq provider.memory
            /\ setting.forgets => provider.memory = shown

\* Every request to revert is answered in the end, as long as worker and
\* ingestion keep running (processInputSafely).
RevertsAnswered == []<>(Len(replies) = asked)
=============================================================================

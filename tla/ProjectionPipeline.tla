------------------------- MODULE ProjectionPipeline -------------------------
(***************************************************************************)
(* The persistent projections of orchestration/Layers/ProjectionPipeline.ts *)
(* and the snapshot that ProjectionSnapshotQuery.ts reads from them.        *)
(*                                                                         *)
(* While the server runs, the engine projects every event inside the        *)
(* transaction that stores it.  When it starts, bootstrap replays the event *)
(* store into one projector after the other from the cursor that each keeps *)
(* in projection_state; an event and the cursor of its projector are one    *)
(* transaction, and the process may die between two of them.  A database    *)
(* that was written before the projections existed starts with events and   *)
(* no cursors.                                                              *)
(***************************************************************************)
EXTENDS Decider, ProjectionTables

CONSTANTS
    Thread,        \* the thread whose rows are modelled
    Histories,     \* [log, script]: an event store that the server may find,
                   \* unprojected, and the commands that then may come as the
                   \* first, second, ... of the store: sets of commands
    ReadLimit,     \* DEFAULT_READ_FROM_SEQUENCE_LIMIT (1000 in the code)
    MaxCrashes     \* bound: crashes in a behaviour

ASSUME PipelineAssumption ==
    /\ ReadLimit \in Nat /\ MaxCrashes \in Nat
    /\ \A history \in Histories : history.log \in Seq(Range(history.log))

\* What bootstrap relies on and nothing sees to: a store that is found
\* unprojected fits in one read, and no revert is among its events, for which
\* the projectors of messages, plans and activities would read turns that are
\* not projected yet.
ReplayableHistories ==
    \A history \in Histories :
        /\ Len(history.log) <= ReadLimit
        /\ \A i \in DOMAIN history.log : history.log[i].type # "thread.reverted"

VARIABLES
    script,   \* the commands that clients and reactors will send
    log,      \* orchestration_events
    tables,   \* the projection_* tables
    cursor,   \* projection_state: projector -> last_applied_sequence
    phase,    \* "down", "bootstrap" or "running"
    stage,    \* the index of the projector bootstrapping
    unread,   \* how many events its readFromSequence may still return
    past,     \* past[n]: what a server that never stopped had after n events
    crashes

vars == <<script, log, tables, cursor, phase, stage, unread, past, crashes>>

(* past is a history variable, which only the read model and properties use. *)
Nothing == [tables |-> EmptyTables, model |-> EmptyReadModel]

\* What a server that never stopped has after each of the events, the first of
\* which are known.
Following(known, events) ==
    LET after[n \in 0..Len(events)] ==
            IF n \in DOMAIN known THEN known[n]
            ELSE LET last == after[n - 1]
                 IN  [tables |-> ApplyAll(last.tables, events[n]),
                      model |-> ProjectEvent(last.model, n, events[n])]
    IN  after

At(n) == past[n]

(* What the engine bootstrapped from the event store and folded since *)
ReadModel == At(Len(log)).model
CommandsSoFar == {log[i].command : i \in DOMAIN log}

Init ==
    /\ \E history \in Histories : log = history.log /\ script = history.script
    /\ past = Following([n \in {0} |-> Nothing], log)
    /\ tables = EmptyTables
    /\ cursor = [projector \in Range(Projectors) |-> 0]
    /\ phase = "down"
    /\ stage = 1
    /\ unread = 0
    /\ crashes = 0

StartBootstrap ==
    /\ phase = "down"
    /\ phase' = "bootstrap"
    /\ stage' = 1
    /\ unread' = ReadLimit
    /\ UNCHANGED <<script, log, tables, cursor, past, crashes>>

(* Mutant of ReplayEvent: the stream starts at the cursor, not after it. *)
ReplayInclusive ==
    /\ phase = "bootstrap"
    /\ LET projector == Projectors[stage]
           next == IF unread = ReadLimit /\ cursor[projector] > 0
                   THEN cursor[projector] ELSE cursor[projector] + 1
       IN  /\ unread > 0 /\ next <= Len(log)
           /\ tables' = Apply(projector, tables, log[next])
           /\ cursor' = [cursor EXCEPT ![projector] = next]
           /\ unread' = unread - 1
    /\ UNCHANGED <<script, log, phase, stage, past, crashes>>

(* runProjectorForEvent for the next event of the projector bootstrapping *)
ReplayEvent ==
    /\ phase = "bootstrap"
    /\ LET projector == Projectors[stage]
           next == cursor[projector] + 1
       IN  /\ unread > 0 /\ next <= Len(log)
           /\ tables' = Apply(projector, tables, log[next])
           /\ cursor' = [cursor EXCEPT ![projector] = next]
           /\ unread' = unread - 1
    /\ UNCHANGED <<script, log, phase, stage, past, crashes>>

(* Mutant of EndReplay: the replay of a projector is not awaited. *)
EndReplayEarly ==
    /\ phase = "bootstrap"
    /\ IF stage = Len(Projectors)
       THEN phase' = "running" /\ unread' = 0 /\ UNCHANGED stage
       ELSE stage' = stage + 1 /\ unread' = ReadLimit /\ UNCHANGED phase
    /\ UNCHANGED <<script, log, tables, cursor, past, crashes>>

(* The stream of the projector has ended: on to the next, or serve. *)
EndReplay ==
    /\ phase = "bootstrap"
    /\ unread = 0 \/ cursor[Projectors[stage]] = Len(log)
    /\ IF stage = Len(Projectors)
       THEN phase' = "running" /\ unread' = 0 /\ UNCHANGED stage
       ELSE stage' = stage + 1 /\ unread' = ReadLimit /\ UNCHANGED phase
    /\ UNCHANGED <<script, log, tables, cursor, past, crashes>>

(* The engine stores and projects the events of an admissible new command. *)
Dispatch(command) ==
    /\ phase = "running"
    /\ command.id \notin CommandsSoFar
    /\ LET events == Decide(command, ReadModel)
       IN  /\ events # Rejection
           /\ log' = log \o events
           /\ tables' = ApplyEvents(tables, events)
           /\ cursor' = [projector \in DOMAIN cursor |-> Len(log')]
           /\ past' = Following(past, log')
    /\ UNCHANGED <<script, phase, stage, unread, crashes>>

Crash ==
    /\ phase # "down"
    /\ crashes < MaxCrashes
    /\ crashes' = crashes + 1
    /\ phase' = "down"
    /\ stage' = 1
    /\ unread' = 0
    /\ UNCHANGED <<script, log, tables, cursor, past>>

Scripted ==
    LET step == Cardinality(CommandsSoFar) + 1
    IN  step \in DOMAIN script /\ \E command \in script[step] : Dispatch(command)

Next == StartBootstrap \/ ReplayEvent \/ EndReplay \/ Scripted \/ Crash

Spec == Init /\ [][Next]_vars

-----------------------------------------------------------------------------
(* getSnapshot, for the thread *)

SnapshotSequence ==
    Min({cursor[projector] : projector \in Range(Projectors)
                                 \ {"threadTurns", "pendingApprovals"}})

CheckpointRows(turns) == {row \in turns : row.count # NoCount}

-----------------------------------------------------------------------------
(***************************************************************************)
(* Properties.                                                              *)
(***************************************************************************)
TurnStates == {"running", "interrupted", "completed", "error"}

\* Every table keeps its type and its keys: the primary ones, and
\* UNIQUE (thread_id, checkpoint_turn_count) of projection_turns, as a
\* provisional turn gives its turn count up to the one that completes with it.
TypeOK ==
    /\ DOMAIN tables = DOMAIN EmptyTables
    /\ \A row \in tables.turns : row.state \in TurnStates
    /\ \A rows \in {tables.messages, tables.plans, tables.activities, tables.turns,
                    tables.approvals} :
          \A row, other \in rows : row.id = other.id => row = other
    /\ \A row, other \in CheckpointRows(tables.turns) : row.count = other.count => row = other
    /\ cursor \in [Range(Projectors) -> 0 .. Len(log)]
    /\ phase \in {"down", "bootstrap", "running"}
    /\ stage \in DOMAIN Projectors
    /\ unread \in 0 .. ReadLimit

HasRevert == \E i \in DOMAIN log : log[i].type = "thread.reverted"

(* The tables that a projector writes. *)
Written(projector, t) ==
    CASE projector = "projects" -> t.project
      [] projector = "threadMessages" -> t.messages
      [] projector = "threadProposedPlans" -> t.plans
      [] projector = "threadActivities" -> t.activities
      [] projector = "threadSessions" -> t.session
      [] projector = "threadTurns" -> <<t.turns, t.pendingStart>>
      [] projector = "pendingApprovals" -> t.approvals
      [] projector = "threads" -> t.thread
      [] OTHER -> t.project

\* A projector's tables hold each event up to its cursor exactly once, in
\* order, at every moment, in the middle of a bootstrap that was interrupted
\* too (runProjectorForEvent's transaction).
ProjectorsExact ==
    \A applied \in Range(cursor) :
        LET live == At(applied).tables
        IN  \A projector \in DOMAIN cursor \ {"checkpoints"} :
                cursor[projector] = applied =>
                    Written(projector, tables) = Written(projector, live)

\* A server that runs has replayed all events, in as many attempts as it took,
\* if one read returns all of them ("bring projections up to latest sequence on
\* startup", .plans/spec-1-1-cutover-plan.md).
BootstrapReachesLatest ==
    phase = "running" /\ Len(log) <= ReadLimit => Range(cursor) = {Len(log)}

\* The tables have their type and keys, hold exactly the events up to their
\* cursors, and are up to date when the server runs.
TablesExact == TypeOK /\ ProjectorsExact /\ BootstrapReachesLatest

\* The snapshot that clients fetch, and from which they follow the events,
\* contains exactly the events up to the sequence that it claims.
SnapshotSequenceExact ==
    phase = "running" => tables = At(SnapshotSequence).tables

\* What takes a settled turn out of its state: a revert, a compaction, and an
\* interruption of that very turn, which may be asked for after its end.  An
\* interrupted turn runs again when a session names it as its active turn.
Releases(event, turn) ==
    \/ event.type \in {"thread.reverted", "thread.context-compacted"}
    \/ event.type = "thread.turn-interrupt-requested" /\ event.data.turn = turn

TurnsStaySettled ==
    LET now == cursor["threadTurns"]
    IN  \A n \in 0..now : \A row \in At(n).tables.turns :
            IsSettled(row.state) /\ (\A k \in (n + 1)..now : ~Releases(log[k], row.id)) =>
                \E new \in tables.turns : new.id = row.id /\ IsSettled(new.state)

ApprovalsStayResolved ==
    \A n \in 0..cursor["pendingApprovals"] : \A row \in At(n).tables.approvals :
        row.status = "resolved" =>
            \E new \in tables.approvals : new.id = row.id /\ new.status = "resolved"

\* What was settled after any earlier event is settled now, through late and
\* repeated events, crashes and replays: a turn that completed or failed has
\* not been started anew, nor been lost, unless one of the events since then
\* releases it, and a resolved approval is resolved for good.
SettledStaysSettled == TurnsStaySettled /\ ApprovalsStayResolved

(* The fields in which the read model and the tables describe a thread. *)
View(project, thread, messages, plans, activities, checkpoints) ==
    LET tied(rows) == IF HasRevert THEN {row \in rows : row.turn # NoTurn} ELSE rows
    IN  [project |-> project, session |-> thread.session, deleted |-> thread.deleted,
         runtimeMode |-> thread.runtimeMode, messages |-> tied(messages),
         plans |-> tied(plans), activities |-> tied(activities),
         checkpoints |-> {<<c.turn, c.count, c.status>> : c \in checkpoints}]

StoredView ==
    View(tables.project,
         [session |-> tables.session] @@ tables.thread,
         tables.messages, tables.plans, tables.activities,
         {[turn |-> row.id] @@ row : row \in CheckpointRows(tables.turns)})

MemoryView ==
    LET thread == ReadModel.threads[Thread]
    IN  View(ReadModel.projects[thread.project], thread, Range(thread.messages),
             Range(thread.plans), Range(thread.activities), Range(thread.checkpoints))

(* A revert to n retained, by position, a turn without a checkpoint. *)
RewoundWithoutCheckpoint ==
    \E k \in DOMAIN log :
        /\ log[k].type = "thread.reverted"
        /\ LET thread == At(k - 1).model.threads[Thread]
               n == log[k].data.turnCount
           IN  \E turn \in PositionTurns(thread.messages, n) :
                  ~ \E c \in Range(thread.checkpoints) : c.turn = turn /\ c.count <= n

\* Two turns of the thread held a checkpoint of the same turn count at a time.
SharedTurnCount ==
    \E k \in DOMAIN log :
        /\ log[k].type = "thread.turn-diff-completed"
        /\ LET thread == At(k).model.threads[Thread]
           IN  \E c, d \in Range(thread.checkpoints) : c.count = d.count /\ c.turn # d.turn

\* The read model that decides commands and the snapshot that clients are
\* sent describe the same thread, as long as no two turns shared a turn count
\* and every retained turn of a revert had a checkpoint.
SnapshotMatchesReadModel ==
    /\ phase = "running"
    /\ Thread \in DOMAIN ReadModel.threads
    /\ ~RewoundWithoutCheckpoint
    /\ ~SharedTurnCount
    => StoredView = MemoryView

\* A snapshot is the state at the sequence that it claims, and agrees with the
\* read model.
SnapshotExact == SnapshotSequenceExact /\ SnapshotMatchesReadModel

(* The checkpoint of turn count n that was current before k. *)
CheckpointOf(n, k) ==
    LET marks == {i \in 1 .. (k - 1) :
                    IF n = 0 THEN log[i].type = "thread.created"
                    ELSE log[i].type = "thread.turn-diff-completed" /\ log[i].data.count = n}
    IN  Max(marks)

(* Turns were checkpointed as CheckpointReactor counts them, 1, 2, ..., and  *)
(* the revert at k went to one of them (or to 0).                           *)
CountedRevert(k) ==
    LET counts == {row.count : row \in CheckpointRows(At(k - 1).tables.turns)}
    IN  counts = 1 .. Cardinality(counts) /\ log[k].data.turnCount \in counts \cup {0}

\* Reverting to turn count n brings back exactly the conversation there was
\* when turn n completed, in the snapshot and in the read model.
RevertRestoresHistory ==
    LET k == Len(log)
    IN  /\ phase = "running" /\ k > 0 /\ log[k].type = "thread.reverted"
        /\ CountedRevert(k) /\ ~SharedTurnCount
        =>
          LET was == At(CheckpointOf(log[k].data.turnCount, k)).tables
              model == At(CheckpointOf(log[k].data.turnCount, k)).model
          IN  /\ tables.messages = was.messages
              /\ tables.plans = was.plans
              /\ CheckpointRows(tables.turns) = CheckpointRows(was.turns)
              /\ ReadModel.threads[Thread].messages = model.threads[Thread].messages
              /\ ReadModel.threads[Thread].plans = model.threads[Thread].plans

=============================================================================

-------------------------- MODULE ProjectionTables --------------------------
(***************************************************************************)
(* The projection_* tables of one thread and what each projector of         *)
(* orchestration/Layers/ProjectionPipeline.ts does to them for one event.   *)
(*                                                                         *)
(* A table is a set of rows with a primary key "id".  Every statement of    *)
(* the repositories is restricted to the thread of the event, so the rows   *)
(* of one thread are independent of those of another.                       *)
(***************************************************************************)
EXTENDS Projector

CONSTANTS
    NoRow,     \* no project, thread or pending start yet
    NoCount    \* checkpointTurnCount: null

Projectors == << "projects", "threadMessages", "threadProposedPlans", "threadActivities",
                 "threadSessions", "threadTurns", "checkpoints", "pendingApprovals",
                 "threads" >>

EmptyTables ==
    [project |-> NoRow, messages |-> {}, plans |-> {}, activities |-> {},
     session |-> NoSession, turns |-> {}, pendingStart |-> NoRow, approvals |-> {},
     thread |-> NoRow]

Known(rows, id) == \E row \in rows : row.id = id
RowOf(rows, id) == CHOOSE row \in rows : row.id = id

Replace(rows, row) == {other \in rows : other.id # row.id} \cup {row}

-----------------------------------------------------------------------------
(* projection.projects *)
ApplyProjects(project, event) ==
    CASE event.type = "project.created" -> [deleted |-> FALSE]
      [] event.type = "project.deleted" /\ project # NoRow -> [deleted |-> TRUE]
      [] OTHER -> project

(* projection.threads: a thread row, once created, follows the active turn. *)
ApplyThreads(thread, event) ==
    LET latest(turn) == [thread EXCEPT !.latestTurn = turn]
    IN  CASE event.type = "thread.created" ->
                [latestTurn |-> NoTurn, runtimeMode |-> event.data.runtimeMode,
                 deleted |-> FALSE]
          [] thread = NoRow -> NoRow
          [] event.type = "thread.runtime-mode-set" ->
                [thread EXCEPT !.runtimeMode = event.data.runtimeMode]
          [] event.type = "thread.deleted" -> [thread EXCEPT !.deleted = TRUE]
          [] event.type = "thread.session-set" -> latest(event.data.session.activeTurn)
          [] event.type = "thread.turn-diff-completed" -> latest(event.data.turn)
          [] event.type \in {"thread.reverted", "thread.context-compacted"} -> latest(NoTurn)
          [] OTHER -> thread

-----------------------------------------------------------------------------
(***************************************************************************)
(* What thread.reverted retains.  Unlike the read model, the projectors     *)
(* know a turn only by the checkpoint recorded in projection_turns.         *)
(***************************************************************************)
KeptTurns(turns, n) == {row \in turns : row.count # NoCount /\ row.count <= n}

(* Mutant of RetainRows: a revert prunes nothing but messages. *)
RetainAllRows(rows, turns, n) == rows

RetainRows(rows, turns, n) ==
    {row \in rows : row.turn = NoTurn \/ row.turn \in {kept.id : kept \in KeptTurns(turns, n)}}

(* Rows that a checkpoint keeps; to them come the oldest user messages, and  *)
(* the oldest answers, until there are n of each.                           *)
RetainMessageRows(rows, turns, n) ==
    LET kept == KeptTurns(turns, n)
        ids == {row.id : row \in kept}
        named == {row.pending : row \in kept} \cup {row.assistant : row \in kept}
        direct == {row \in rows : row.role = "system" \/ row.turn \in ids \/ row.id \in named}
        fallback(role) ==
            LET found == {row \in direct : row.role = role}
                others == {row \in rows \ direct :
                              row.role = role /\ (row.turn = NoTurn \/ row.turn \in ids)}
            IN  {row \in others :
                    Cardinality(found)
                        + Cardinality({other \in others : ByCreation(other, row)}) < n}
    IN  direct \cup fallback("user") \cup fallback("assistant")

(* Mutant of StoreMessage: an empty completion erases the streamed text. *)
StoreMessageOverwriting(rows, data) ==
    LET known == Known(rows, data.message)
        old == RowOf(rows, data.message)
        text == IF known /\ data.streaming THEN old.text \o data.text ELSE data.text
    IN  Replace(rows, [id |-> data.message, role |-> data.role, turn |-> data.turn,
                       text |-> text, streaming |-> data.streaming,
                       at |-> IF known THEN old.at ELSE data.at])

(* thread.message-sent: deltas accumulate, an empty completion keeps them. *)
StoreMessage(rows, data) ==
    LET known == Known(rows, data.message)
        old == RowOf(rows, data.message)
        text == CASE known /\ data.streaming -> old.text \o data.text
                  [] known /\ ~data.streaming /\ data.text = << >> -> old.text
                  [] OTHER -> data.text
    IN  Replace(rows, [id |-> data.message, role |-> data.role, turn |-> data.turn,
                       text |-> text, streaming |-> data.streaming,
                       at |-> IF known THEN old.at ELSE data.at])

ApplyMessages(rows, turns, event) ==
    CASE event.type = "thread.message-sent" -> StoreMessage(rows, event.data)
      [] event.type = "thread.reverted" ->
            RetainMessageRows(rows, turns, event.data.turnCount)
      [] event.type = "thread.context-compacted" ->
            {[id |-> 0, role |-> "system", turn |-> NoTurn, text |-> << >>,
              streaming |-> FALSE, at |-> event.data.at]}
      [] OTHER -> rows

(* Plans and activities: upsert by id, prune on revert, clear on compaction. *)
ApplyEntries(rows, turns, event, appended) ==
    CASE event.type = appended -> Replace(rows, event.data)
      [] event.type = "thread.reverted" -> RetainRows(rows, turns, event.data.turnCount)
      [] event.type = "thread.context-compacted" -> {}
      [] OTHER -> rows

ApplySession(session, event) ==
    IF event.type = "thread.session-set" THEN event.data.session ELSE session

-----------------------------------------------------------------------------
(***************************************************************************)
(* projection.thread-turns: the rows [id, pending, assistant, state,        *)
(* requested, count, status] of projection_turns, and its pending row       *)
(* (turn_id NULL), of which replacePendingTurnStart keeps at most one.      *)
(***************************************************************************)
NewTurn(id, state, at) ==
    [id |-> id, pending |-> 0, assistant |-> 0, state |-> state, requested |-> at,
     count |-> NoCount, status |-> "none"]

TurnRow(turns, id, state, at) ==
    IF Known(turns, id) THEN RowOf(turns, id) ELSE NewTurn(id, state, at)

IsSettled(state) == state \in {"completed", "error"}

(* Mutant of StartTurn: a settled turn runs again. *)
StartTurnAfresh(tables, session, at) ==
    LET start == tables.pendingStart
        row == TurnRow(tables.turns, session.activeTurn, "running",
                       IF start = NoRow THEN at ELSE start.at)
    IN  [row EXCEPT
            !.state = "running",
            !.pending = IF @ = 0 /\ start # NoRow THEN start.message ELSE @]

(* thread.session-set of a running turn, which takes over the pending start *)
StartTurn(tables, session, at) ==
    LET start == tables.pendingStart
        row == TurnRow(tables.turns, session.activeTurn, "running",
                       IF start = NoRow THEN at ELSE start.at)
    IN  [row EXCEPT
            !.state = IF IsSettled(@) THEN @ ELSE "running",
            !.pending = IF @ = 0 /\ start # NoRow THEN start.message ELSE @]

(* thread.message-sent of the assistant *)
AnswerTurn(turns, data) ==
    LET row == TurnRow(turns, data.turn, "running", data.at)
    IN  [row EXCEPT
            !.assistant = data.message,
            !.state = CASE data.streaming -> @
                        [] ~data.streaming /\ @ \in {"interrupted", "error"} -> @
                        [] OTHER -> "completed"]

InterruptTurn(turns, data) ==
    [TurnRow(turns, data.turn, "interrupted", data.at) EXCEPT !.state = "interrupted"]

(* Mutant of ClearCountConflict: provisional turns keep their turn count. *)
KeepCountConflict(turns, data) == turns

(* clearCheckpointTurnConflict *)
ClearCountConflict(turns, data) ==
    {IF row.count = data.count /\ row.id # data.turn
     THEN [row EXCEPT !.count = NoCount, !.status = "none"] ELSE row : row \in turns}

(* thread.turn-diff-completed *)
CheckpointTurn(turns, data) ==
    [TurnRow(turns, data.turn, "completed", data.at) EXCEPT
        !.assistant = data.assistant,
        !.state = IF data.status = "error" THEN "error" ELSE "completed",
        !.count = data.count,
        !.status = data.status]

ApplyTurns(tables, event) ==
    LET data == event.data
        upsert(row) == [tables EXCEPT !.turns = Replace(@, row)]
        retain(turns) == [tables EXCEPT !.turns = turns, !.pendingStart = NoRow]
    IN  CASE event.type = "thread.turn-start-requested" ->
                [tables EXCEPT !.pendingStart = [message |-> data.message, at |-> data.at]]
          [] event.type = "thread.session-set"
             /\ data.session.status = "running" /\ data.session.activeTurn # NoTurn ->
                [upsert(StartTurn(tables, data.session, data.at)) EXCEPT
                    !.pendingStart = NoRow]
          [] event.type = "thread.message-sent"
             /\ data.turn # NoTurn /\ data.role = "assistant" ->
                upsert(AnswerTurn(tables.turns, data))
          [] event.type = "thread.turn-interrupt-requested" /\ data.turn # NoTurn ->
                upsert(InterruptTurn(tables.turns, data))
          [] event.type = "thread.turn-diff-completed" ->
                [tables EXCEPT !.turns =
                    Replace(ClearCountConflict(@, data), CheckpointTurn(@, data))]
          [] event.type = "thread.reverted" ->
                retain(KeptTurns(tables.turns, data.turnCount))
          [] event.type = "thread.context-compacted" -> retain({})
          [] OTHER -> tables

-----------------------------------------------------------------------------
(***************************************************************************)
(* projection.pending-approvals: any activity that carries a request id     *)
(* opens it, approval.resolved and the user's response resolve it for good. *)
(***************************************************************************)
Approval(rows, event) ==
    LET data == event.data
        old == RowOf(rows, data.request)
    IN  CASE event.type = "thread.activity-appended" /\ data.kind # "approval.resolved" ->
                IF Known(rows, data.request) /\ old.status = "resolved" THEN old
                ELSE [id |-> data.request, status |-> "pending", decision |-> "none"]
          [] OTHER -> [id |-> data.request, status |-> "resolved", decision |-> data.decision]

ApplyApprovals(rows, event) ==
    IF /\ event.type \in {"thread.activity-appended", "thread.approval-response-requested"}
       /\ event.data.request # 0
    THEN Replace(rows, Approval(rows, event))
    ELSE rows

-----------------------------------------------------------------------------
(* One projector of the pipeline applied to one event; "checkpoints" is the *)
(* projector that does nothing.                                             *)
Apply(projector, tables, event) ==
    CASE projector = "projects" ->
            [tables EXCEPT !.project = ApplyProjects(@, event)]
      [] projector = "threadMessages" ->
            [tables EXCEPT !.messages = ApplyMessages(@, tables.turns, event)]
      [] projector = "threadProposedPlans" ->
            [tables EXCEPT !.plans =
                ApplyEntries(@, tables.turns, event, "thread.proposed-plan-upserted")]
      [] projector = "threadActivities" ->
            [tables EXCEPT !.activities =
                ApplyEntries(@, tables.turns, event, "thread.activity-appended")]
      [] projector = "threadSessions" ->
            [tables EXCEPT !.session = ApplySession(@, event)]
      [] projector = "threadTurns" -> ApplyTurns(tables, event)
      [] projector = "pendingApprovals" ->
            [tables EXCEPT !.approvals = ApplyApprovals(@, event)]
      [] projector = "threads" ->
            [tables EXCEPT !.thread = ApplyThreads(@, event)]
      [] OTHER -> tables

(* projectEvent: every projector, in order. *)
ApplyAll(tables, event) ==
    LET after[n \in 0..Len(Projectors)] ==
            IF n = 0 THEN tables ELSE Apply(Projectors[n], after[n - 1], event)
    IN  after[Len(Projectors)]

(* The events of a command, one after the other. *)
ApplyEvents(tables, events) ==
    LET after[n \in 0..Len(events)] ==
            IF n = 0 THEN tables ELSE ApplyAll(after[n - 1], events[n])
    IN  after[Len(events)]
=============================================================================

----------------------------- MODULE Projector -----------------------------
(***************************************************************************)
(* The in-memory read model: projectEvent of orchestration/projector.ts.    *)
(*                                                                         *)
(* The model is [snapshotSequence, projects, threads]; projects and threads *)
(* are functions on the identifiers created so far (nothing is ever removed *)
(* from either, deletion only sets "deleted").  A thread keeps the fields   *)
(* that a guard, a reactor or a property reads.  Titles, branches, files    *)
(* and timestamps are left out, except for the creation times that order    *)
(* messages, plans and activities.                                          *)
(***************************************************************************)
EXTENDS Naturals, Sequences, SequencesExt, FiniteSets, Contracts

CONSTANTS
    MaxMessages,     \* MAX_THREAD_MESSAGES (2000 in the code)
    MaxCheckpoints,  \* MAX_THREAD_CHECKPOINTS (500)
    MaxPlans,        \* the literal 200 of proposedPlans
    MaxActivities    \* the literal 500 of activities

ASSUME CapAssumption == {MaxMessages, MaxCheckpoints, MaxPlans, MaxActivities} \subseteq Nat

EmptyReadModel ==
    [snapshotSequence |-> 0, projects |-> << >>, threads |-> << >>]

NewThread(project, runtimeMode) ==
    [project |-> project, deleted |-> FALSE, runtimeMode |-> runtimeMode,
     session |-> NoSession, latestTurn |-> NoLatestTurn, messages |-> << >>,
     plans |-> << >>, activities |-> << >>, checkpoints |-> << >>]

-----------------------------------------------------------------------------
(* slice(-n): the last n entries. *)
LastN(s, n) == IF Len(s) <= n THEN s ELSE SubSeq(s, Len(s) - n + 1, Len(s))

(* The members of I in ascending order. *)
Ascending[I \in SUBSET Nat] ==
    LET place == [i \in I |-> Cardinality({j \in I : j < i})]
    IN  [k \in 1..Cardinality(I) |-> CHOOSE i \in I : place[i] = k - 1]

(* The entries of s at the indices of I, in order. *)
AtIndices(s, I) ==
    LET order == Ascending[I]
    IN  [k \in 1..Cardinality(I) |-> s[order[k]]]

(* filter *)
Filter(s, Test(_)) == AtIndices(s, {i \in DOMAIN s : Test(s[i])})

(* toSorted: entries that the comparator does not order keep their places. *)
StableSort(s, Before(_, _)) ==
    LET place == [i \in DOMAIN s |-> Cardinality({j \in DOMAIN s :
                    Before(s[j], s[i]) \/ (~Before(s[i], s[j]) /\ j < i)})]
    IN  [k \in DOMAIN s |-> s[CHOOSE i \in DOMAIN s : place[i] = k - 1]]

ByCreation(a, b) == a.at < b.at \/ (a.at = b.at /\ a.id < b.id)

\* compareThreadActivities: an activity without a sequence (0) precedes every
\* activity that has one.
ByActivityOrder(a, b) ==
    IF a.sequence # b.sequence THEN a.sequence < b.sequence ELSE ByCreation(a, b)

ByTurnCount(a, b) == a.count < b.count

(* filter out the entry with the same id and append the new one *)
Upsert(s, entry, Same(_)) == Append(Filter(s, LAMBDA e : ~Same(e)), entry)

LatestTurnState(checkpointStatus) ==
    CASE checkpointStatus = "error"   -> "error"
      [] checkpointStatus = "missing" -> "interrupted"
      [] OTHER                        -> "completed"

TurnOf(checkpoint) ==
    [turn |-> checkpoint.turn, state |-> LatestTurnState(checkpoint.status),
     assistant |-> checkpoint.assistant]

-----------------------------------------------------------------------------
(* thread.message-sent *)
MergeMessage(old, new) ==
    [old EXCEPT !.text = IF new.streaming THEN old.text \o new.text
                         ELSE IF new.text # << >> THEN new.text ELSE old.text,
                !.streaming = new.streaming,
                !.turn = new.turn]

SendMessage(thread, data) ==
    LET new == [id |-> data.message, role |-> data.role, turn |-> data.turn,
                text |-> data.text, streaming |-> data.streaming, at |-> data.at]
        known == \E i \in DOMAIN thread.messages : thread.messages[i].id = new.id
        messages ==
            IF known
            THEN [i \in DOMAIN thread.messages |->
                    IF thread.messages[i].id = new.id
                    THEN MergeMessage(thread.messages[i], new)
                    ELSE thread.messages[i]]
            ELSE Append(thread.messages, new)
    IN  [thread EXCEPT !.messages = LastN(messages, MaxMessages)]

(* thread.session-set *)
SetSession(thread, session) ==
    LET latest == thread.latestTurn
        starts == session.status = "running" /\ session.activeTurn # NoTurn
        sameTurn == latest # NoLatestTurn /\ latest.turn = session.activeTurn
    IN  [thread EXCEPT
            !.session = session,
            !.latestTurn =
                IF starts
                THEN [turn |-> session.activeTurn, state |-> "running",
                      assistant |-> IF sameTurn THEN latest.assistant ELSE 0]
                ELSE @]

(* thread.turn-diff-completed *)
CompleteTurnDiff(thread, checkpoint) ==
    [thread EXCEPT
        !.checkpoints = LastN(StableSort(
            Upsert(@, checkpoint, LAMBDA c : c.turn = checkpoint.turn), ByTurnCount),
            MaxCheckpoints),
        !.latestTurn = TurnOf(checkpoint)]

-----------------------------------------------------------------------------
(***************************************************************************)
(* thread.reverted.  A turn survives when a checkpoint at or below the      *)
(* target turn count names it, or when it is among the first turnCount      *)
(* turns in the order the messages were created.                            *)
(***************************************************************************)
CreatedBefore(messages, i, j) ==
    \/ messages[i].at < messages[j].at
    \/ messages[i].at = messages[j].at /\ i < j

PositionTurns(messages, n) ==
    LET withTurn == {i \in DOMAIN messages : messages[i].turn # NoTurn}
        first == {i \in withTurn : \A j \in withTurn :
                    messages[j].turn = messages[i].turn => ~CreatedBefore(messages, j, i)}
    IN  {messages[i].turn : i \in {k \in first :
            Cardinality({j \in first : CreatedBefore(messages, j, k)}) < n}}

(* The oldest messages of a role that make up for turns with none retained. *)
FallbackMessages(messages, role, retained, turns, n) ==
    LET ofRole == {i \in DOMAIN messages : messages[i].role = role}
        candidates == {i \in ofRole \ retained :
                         messages[i].turn = NoTurn \/ messages[i].turn \in turns}
        kept == Cardinality(ofRole \cap retained)
    IN  {i \in candidates :
            kept + Cardinality({j \in candidates :
                                  ByCreation(messages[j], messages[i])}) < n}

RetainMessages(messages, turns, n) ==
    LET direct == {i \in DOMAIN messages :
                     messages[i].role = "system" \/ messages[i].turn \in turns}
    IN  AtIndices(messages,
            direct \cup FallbackMessages(messages, "user", direct, turns, n)
                   \cup FallbackMessages(messages, "assistant", direct, turns, n))

RetainByTurn(s, turns) ==
    Filter(s, LAMBDA e : e.turn = NoTurn \/ e.turn \in turns)

Revert(thread, n) ==
    LET checkpoints == Filter(thread.checkpoints, LAMBDA c : c.count <= n)
        turns == {checkpoints[i].turn : i \in DOMAIN checkpoints}
                    \cup PositionTurns(thread.messages, n)
    IN  [thread EXCEPT
            !.checkpoints = checkpoints,
            !.messages = RetainMessages(@, turns, n),
            !.plans = RetainByTurn(@, turns),
            !.activities = RetainByTurn(@, turns),
            !.latestTurn = IF checkpoints = << >> THEN NoLatestTurn
                           ELSE TurnOf(Last(checkpoints))]

(* thread.context-compacted: one system message replaces the conversation. *)
Compact(thread, event) ==
    [thread EXCEPT
        !.messages = << [id |-> 0, role |-> "system", turn |-> NoTurn, text |-> << >>,
                         streaming |-> FALSE, at |-> event.data.at] >>,
        !.activities = << >>, !.plans = << >>, !.checkpoints = << >>,
        !.latestTurn = NoLatestTurn]

-----------------------------------------------------------------------------
ProjectThread(thread, event) ==
    CASE event.type = "thread.deleted" -> [thread EXCEPT !.deleted = TRUE]
      [] event.type = "thread.runtime-mode-set" ->
            [thread EXCEPT !.runtimeMode = event.data.runtimeMode]
      [] event.type = "thread.message-sent" -> SendMessage(thread, event.data)
      [] event.type = "thread.session-set" -> SetSession(thread, event.data.session)
      [] event.type = "thread.proposed-plan-upserted" ->
            [thread EXCEPT !.plans = LastN(StableSort(
                Upsert(@, event.data, LAMBDA p : p.id = event.data.id), ByCreation),
                MaxPlans)]
      [] event.type = "thread.turn-diff-completed" -> CompleteTurnDiff(thread, event.data)
      [] event.type = "thread.reverted" -> Revert(thread, event.data.turnCount)
      [] event.type = "thread.activity-appended" ->
            [thread EXCEPT !.activities = LastN(StableSort(
                Upsert(@, event.data, LAMBDA a : a.id = event.data.id), ByActivityOrder),
                MaxActivities)]
      [] event.type = "thread.context-compacted" -> Compact(thread, event)
      [] OTHER -> thread

ProjectEvent(model, sequence, event) ==
    [model EXCEPT
        !.snapshotSequence = sequence,
        !.projects =
            CASE event.type = "project.created" ->
                    (event.project :> [deleted |-> FALSE]) @@ @
              [] event.type = "project.deleted" /\ event.project \in DOMAIN @ ->
                    [@ EXCEPT ![event.project].deleted = TRUE]
              [] OTHER -> @,
        !.threads =
            CASE event.type = "thread.created" ->
                    (event.thread :> NewThread(event.project, event.data.runtimeMode)) @@ @
              [] event.type # "thread.created" /\ event.thread \in DOMAIN @ ->
                    [@ EXCEPT ![event.thread] = ProjectThread(@, event)]
              [] OTHER -> @]

(* The read model that folds, in order, the events of log at the positions  *)
(* of "sequences", from createEmptyReadModel.                               *)
ReadModelOf(log, sequences) ==
    FoldLeft(LAMBDA model, n : ProjectEvent(model, n, log[n]), EmptyReadModel, sequences)
=============================================================================

----------------------------- MODULE Contracts -----------------------------
(***************************************************************************)
(* The vocabulary shared by the orchestration modules, after                *)
(* packages/contracts/src/orchestration.ts: the null values, and the        *)
(* command and event types.                                                 *)
(***************************************************************************)
EXTENDS TLC

CONSTANTS
    NoThread,      \* the thread field of a project command or event
    NoTurn,        \* turnId: null
    NoSession,     \* session: null
    NoLatestTurn   \* latestTurn: null

\* The event that a command of each type turns into.  thread.turn.start, the
\* only command of two events, is absent.
EventTypeOf ==
    "project.create"                   :> "project.created"
 @@ "project.meta.update"              :> "project.meta-updated"
 @@ "project.delete"                   :> "project.deleted"
 @@ "thread.create"                    :> "thread.created"
 @@ "thread.delete"                    :> "thread.deleted"
 @@ "thread.meta.update"               :> "thread.meta-updated"
 @@ "thread.runtime-mode.set"          :> "thread.runtime-mode-set"
 @@ "thread.interaction-mode.set"      :> "thread.interaction-mode-set"
 @@ "thread.turn.interrupt"            :> "thread.turn-interrupt-requested"
 @@ "thread.approval.respond"          :> "thread.approval-response-requested"
 @@ "thread.user-input.respond"        :> "thread.user-input-response-requested"
 @@ "thread.checkpoint.revert"         :> "thread.checkpoint-revert-requested"
 @@ "thread.session.stop"              :> "thread.session-stop-requested"
 @@ "thread.session.set"               :> "thread.session-set"
 @@ "thread.message.assistant.delta"   :> "thread.message-sent"
 @@ "thread.message.assistant.complete" :> "thread.message-sent"
 @@ "thread.proposed-plan.upsert"      :> "thread.proposed-plan-upserted"
 @@ "thread.turn.diff.complete"        :> "thread.turn-diff-completed"
 @@ "thread.revert.complete"           :> "thread.reverted"
 @@ "thread.activity.append"           :> "thread.activity-appended"
 @@ "thread.context.compact"           :> "thread.context-compacted"
=============================================================================

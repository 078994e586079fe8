------------------------ MODULE MCProjectionPipeline ------------------------
(***************************************************************************)
(* Small histories of one thread for the projection pipeline.  Turns and    *)
(* messages are numbers; "at" follows the order of the script.              *)
(***************************************************************************)
EXTENDS ProjectionPipeline

Command(id, type, data) ==
    [id |-> id, type |-> type, project |-> "p", thread |-> Thread, data |-> data]

CreateProject == Command(<<"create-p", 0>>, "project.create", << >>)
CreateThread == Command(<<"create-t", 0>>, "thread.create", [runtimeMode |-> "full-access"])
Created == EventsOf(CreateProject) \o EventsOf(CreateThread)

\* Turn n: the request of message 2n - 1, the answer of message 2n.
Start(n) == Command(<<"start", n>>, "thread.turn.start",
                    [message |-> 2 * n - 1, text |-> << "ask" >>, at |-> 10 * n])
Session(n, status, turn) == Command(<<"session", n, status>>, "thread.session.set",
                    [session |-> [status |-> status, activeTurn |-> turn], at |-> 10 * n + 1])
Running(n) == Session(n, "running", n)
Ready(n) == Session(n, "ready", NoTurn)
Delta(n, k) == Command(<<"delta", n, k>>, "thread.message.assistant.delta",
                    [message |-> 2 * n, turn |-> n, delta |-> << k >>, at |-> 10 * n + 2])
Complete(n) == Command(<<"complete", n>>, "thread.message.assistant.complete",
                    [message |-> 2 * n, turn |-> n, at |-> 10 * n + 2])
Interrupt(n) == Command(<<"interrupt", n>>, "thread.turn.interrupt",
                    [turn |-> n, at |-> 10 * n + 4])
Diff(n, count, status) == Command(<<"diff", n>>, "thread.turn.diff.complete",
                    [turn |-> n, count |-> count, status |-> status,
                     assistant |-> 2 * n, at |-> 10 * n + 5])
Plan(n) == Command(<<"plan", n>>, "thread.proposed-plan.upsert",
                    [id |-> n, turn |-> n, at |-> 10 * n + 3])
RevertTo(n, k) == Command(<<"revert", k>>, "thread.revert.complete", [turnCount |-> n])
Compacted == Command(<<"compact", 0>>, "thread.context.compact", [at |-> 90])
Activity(k, kind, request, decision) ==
    Command(<<"activity", k>>, "thread.activity.append",
            [id |-> k, turn |-> 1, sequence |-> k, at |-> 50 + k, kind |-> kind,
             request |-> request, decision |-> decision])
Respond == Command(<<"respond", 0>>, "thread.approval.respond",
                   [request |-> 7, decision |-> "accept"])

-----------------------------------------------------------------------------
\* In any order: one streamed turn, its interruption, its checkpoint.
TurnCommands == {Start(1), Running(1), Delta(1, "a"), Delta(1, "b"), Complete(1),
                 Interrupt(1), Diff(1, 1, "ready"), Ready(1)}
\* In any order: an approval, its retried activity, its resolution.
ApprovalCommands == {Activity(1, "approval.requested", 7, "none"),
                     Activity(2, "tool.updated", 7, "none"), Respond,
                     Activity(3, "approval.resolved", 7, "decline"), Compacted, Plan(1)}

AnyOrder(commands) == [step \in 1 .. 7 |-> IF step <= 2 THEN {} ELSE commands]

Streamed == Created \o EventsOf(Start(1)) \o EventsOf(Running(1)) \o EventsOf(Delta(1, "a"))
            \o EventsOf(Delta(1, "b"))
Requested == Created \o EventsOf(Activity(1, "approval.requested", 7, "none"))
             \o EventsOf(Respond)

-----------------------------------------------------------------------------
\* Two turns in order, a revert, another turn, another revert.
Turn(n, counts) == << {Start(n)}, {Running(n)}, {Delta(n, "a")}, {Delta(n, "b"), Complete(n)},
                       {Plan(n), Ready(n)}, {Diff(n, count, "ready") : count \in counts}
                        \cup {Diff(n, count, "error") : count \in counts} >>

RevertScript ==
    << {}, {} >> \o Turn(1, {1}) \o Turn(2, {2}) \o << {RevertTo(0, 1), RevertTo(1, 1)} >>
    \o Turn(3, {1, 2}) \o << {RevertTo(0, 2), RevertTo(1, 2), RevertTo(2, 2)} >>

\* Two turns whose checkpoints claim the same turn count.
\* The second may be steered, without a request of its own.
ConflictScript ==
    << {}, {} >> \o Turn(1, {1}) \o << {Start(2), Respond} >> \o Tail(Turn(2, {1}))
    \o << {RevertTo(1, 1), Interrupt(2), Interrupt(1)} >>

History(events, commands) == [log |-> events, script |-> commands]

AllHistories ==
    {History(Created, AnyOrder(TurnCommands)), History(Streamed, AnyOrder(TurnCommands)),
     History(Created, AnyOrder(ApprovalCommands)), History(Requested, AnyOrder(ApprovalCommands)),
     History(Created, ConflictScript), History(Created, RevertScript)}

ASSUME HistoriesAreReplayable == ReplayableHistories
=============================================================================

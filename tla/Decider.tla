------------------------------ MODULE Decider ------------------------------
(***************************************************************************)
(* The command side of the orchestration domain: decideOrchestrationCommand *)
(* (orchestration/decider.ts) with the guards of commandInvariants.ts.      *)
(*                                                                         *)
(* A command is a record                                                    *)
(*   [id, type, project, thread, data]                                      *)
(* whose "data" holds the fields of its type that a projection reads.  A    *)
(* decision is the sequence of event bases of the command; the empty        *)
(* sequence stands for OrchestrationCommandInvariantError, which the engine *)
(* also raises for a command that produced no events.                       *)
(***************************************************************************)
EXTENDS Naturals, Sequences, Contracts

(***************************************************************************)
(* Guards.  They ask for existence only: a soft-deleted project or thread   *)
(* (deletedAt set) is still found by findProjectById and findThreadById.    *)
(***************************************************************************)
ProjectExists(model, project) == project \in DOMAIN model.projects
ThreadExists(model, thread) == thread \in DOMAIN model.threads

Admissible(command, model) ==
    CASE command.type = "project.create" ->
            ~ProjectExists(model, command.project)
      [] command.type \in {"project.meta.update", "project.delete"} ->
            ProjectExists(model, command.project)
      [] command.type = "thread.create" ->
            /\ ProjectExists(model, command.project)
            /\ ~ThreadExists(model, command.thread)
      [] OTHER ->
            ThreadExists(model, command.thread)

(***************************************************************************)
(* Payloads.                                                                *)
(***************************************************************************)
MessageSent(command, role, turn, text, streaming) ==
    [message |-> command.data.message, role |-> role, turn |-> turn,
     text |-> text, streaming |-> streaming, at |-> command.data.at]

Payload(command) ==
    CASE command.type = "thread.message.assistant.delta" ->
            MessageSent(command, "assistant", command.data.turn, command.data.delta, TRUE)
      [] command.type = "thread.message.assistant.complete" ->
            MessageSent(command, "assistant", command.data.turn, <<>>, FALSE)
      [] OTHER -> command.data

(* withEventBase: "index" tells apart the event ids of one command. *)
EventBase(command, index, type, payload) ==
    [command |-> command.id, index |-> index, type |-> type,
     project |-> command.project, thread |-> command.thread, data |-> payload]

EventsOf(command) ==
    IF command.type = "thread.turn.start"
    THEN << EventBase(command, 1, "thread.message-sent",
                      MessageSent(command, "user", NoTurn, command.data.text, FALSE)),
            EventBase(command, 2, "thread.turn-start-requested", command.data) >>
    ELSE << EventBase(command, 1, EventTypeOf[command.type], Payload(command)) >>

Rejection == << >>

Decide(command, model) ==
    IF Admissible(command, model) THEN EventsOf(command) ELSE Rejection
=============================================================================

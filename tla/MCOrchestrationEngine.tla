----------------------- MODULE MCOrchestrationEngine -----------------------
(***************************************************************************)
(* A small instance of the engine: two callers, one project, one thread, a  *)
(* command of two events, and two commands that want the same project.      *)
(***************************************************************************)
EXTENDS OrchestrationEngine

Command(id, type, thread, data) ==
    [id |-> id, type |-> type, project |-> "p", thread |-> thread, data |-> data]

CreateProject == Command("create-p", "project.create", NoThread, << >>)
CreateProjectAgain == Command("create-p-2", "project.create", NoThread, << >>)
CreateThread == Command("create-t", "thread.create", "t", [runtimeMode |-> "full-access"])
StartTurn == Command("start-turn", "thread.turn.start", "t",
                     [message |-> 1, text |-> << "hi" >>, at |-> 1])

MCCommands == {CreateProject, CreateProjectAgain, CreateThread, StartTurn}
MCThreadCommands == {CreateProject, CreateThread, StartTurn}
=============================================================================

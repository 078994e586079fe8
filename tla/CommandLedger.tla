--------------------------- MODULE CommandLedger ---------------------------
(***************************************************************************)
(* What the command engine promises: a ledger of decisions.  Every command  *)
(* identifier is decided at most once and for good, every decision is taken *)
(* against exactly the committed events, and the events of an accepted      *)
(* command enter the log together.                                          *)
(***************************************************************************)
EXTENDS Sequences

CONSTANTS
    Commands,                 \* records with a field "id"
    EventsOf(_),              \* the events of a command
    Acceptable(_, _)          \* may the command follow this history?

CommandIds == {command.id : command \in Commands}

VARIABLES log, outcome

Init ==
    /\ log = << >>
    /\ outcome = [id \in CommandIds |-> "none"]

Accept(command) ==
    /\ outcome[command.id] = "none"
    /\ Acceptable(command, log)
    /\ log' = log \o EventsOf(command)
    /\ outcome' = [outcome EXCEPT ![command.id] = "accepted"]

Reject(command) ==
    /\ outcome[command.id] = "none"
    /\ ~Acceptable(command, log)
    /\ outcome' = [outcome EXCEPT ![command.id] = "rejected"]
    /\ UNCHANGED log

Next == \E command \in Commands : Accept(command) \/ Reject(command)

Spec == Init /\ [][Next]_<<log, outcome>>
=============================================================================

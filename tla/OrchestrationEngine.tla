------------------------ MODULE OrchestrationEngine ------------------------
(***************************************************************************)
(* The command engine of orchestration/Layers/OrchestrationEngine.ts over   *)
(* the event store and the command receipts (persistence/Layers).           *)
(*                                                                         *)
(* Callers (WebSocket requests and the reactors) put commands on one        *)
(* unbounded queue; one worker fiber takes them in order, answers a repeat  *)
(* from its receipt, decides a new command against the read model, commits  *)
(* its events, projections and receipt in one SQL transaction, installs the *)
(* next read model and publishes the events.  The process may crash between *)
(* any two steps and boot again from the database.                          *)
(*                                                                         *)
(* An event is known by its sequence, which is its position in log: the     *)
(* AUTOINCREMENT key of orchestration_events has no gaps because a rolled   *)
(* back transaction also rolls back its counter.                            *)
(***************************************************************************)
EXTENDS Decider, Projector

CONSTANTS
    Caller,       \* fibers that dispatch commands and await the answer
    NoCaller,     \* the caller of no envelope
    NoCommand,    \* the command of no envelope
    Subscriber,   \* readers of streamDomainEvents
    Commands,     \* the command records that callers may dispatch
    Faults,       \* the storage failures that may happen, out of FaultKinds
    MaxFaults,    \* bound: storage failures in a behaviour
    MaxCrashes    \* bound: crashes in a behaviour

FaultKinds ==
    {"lookup",     \* getByCommandId fails
     "rollback",   \* the transaction fails and nothing of it is kept
     "committed",  \* the transaction is kept but reported as failed
     "reconcile",  \* readFromSequence fails while reconciling
     "receipt"}    \* the upsert of a rejected receipt fails

ASSUME FaultAssumption ==
    Faults \subseteq FaultKinds /\ MaxFaults \in Nat /\ MaxCrashes \in Nat

ASSUME NullAssumption == NoCaller \notin Caller /\ NoCommand \notin Commands

CommandIds == {command.id : command \in Commands}
EventBases == UNION {Range(EventsOf(command)) : command \in Commands}

NoReceipt == [status |-> "none", sequence |-> 0]
Receipts == [status : {"none", "accepted", "rejected"}, sequence : Nat]
NotSubscribed == << 0 >>

VARIABLES
    \* the SQLite database
    log,         \* orchestration_events: the committed events
    receipts,    \* orchestration_command_receipts: command id -> receipt
    projected,   \* last_applied_sequence of the projections
    \* the server process
    pc,          \* where the worker fiber is ("down": no process)
    queue,       \* commandQueue: envelopes [caller, command]
    job,         \* the envelope being processed
    start,       \* dispatchStartSequence of that envelope
    readModel,   \* the sequences the in-memory read model has folded
    unpublished, \* sequences still to be published for the current envelope
    error,       \* why the current envelope fails
    inbox,       \* what PubSub has handed each subscriber since it subscribed
    \* the callers
    call,        \* status, command and result of each caller's last dispatch
    faults, crashes

database == <<log, receipts, projected>>
worker == <<pc, job, start, unpublished, error>>
bounds == <<faults, crashes>>
vars == <<database, worker, queue, readModel, inbox, call, bounds>>

-----------------------------------------------------------------------------
SnapshotSequence == IF readModel = << >> THEN 0 ELSE Last(readModel)

(* readFromSequence: the committed sequences after n, oldest first. *)
SequencesAfter(n) == [i \in 1 .. (Len(log) - n) |-> n + i]

Idle == [status |-> "idle", command |-> NoCommand, sequence |-> 0]
NoJob == [caller |-> NoCaller, command |-> NoCommand]

Init ==
    /\ log = << >>
    /\ receipts = [id \in CommandIds |-> NoReceipt]
    /\ projected = 0
    /\ pc = "down"
    /\ queue = << >>
    /\ job = NoJob
    /\ start = 0
    /\ readModel = << >>
    /\ unpublished = << >>
    /\ error = "none"
    /\ inbox = [s \in Subscriber |-> NotSubscribed]
    /\ call = [c \in Caller |-> Idle]
    /\ faults = 0
    /\ crashes = 0

(* A storage failure of one of the kinds that the configuration allows. *)
Fail(kind) ==
    /\ kind \in Faults
    /\ faults < MaxFaults
    /\ faults' = faults + 1
    /\ UNCHANGED crashes

(* Mutant of Settle: the envelope is not let go. *)
SettleKeepingJob(status, sequence) ==
    /\ pc' = "idle"
    /\ call' = [call EXCEPT ![job.caller].status = status,
                            ![job.caller].sequence = sequence]
    /\ start' = 0
    /\ error' = "none"
    /\ UNCHANGED <<job, unpublished>>

(* The Deferred of the current envelope is settled and the worker returns   *)
(* to Queue.take.                                                           *)
Settle(status, sequence) ==
    /\ pc' = "idle"
    /\ call' = [call EXCEPT ![job.caller].status = status,
                            ![job.caller].sequence = sequence]
    /\ job' = NoJob
    /\ start' = 0
    /\ error' = "none"
    /\ UNCHANGED unpublished

-----------------------------------------------------------------------------
(* Mutant of Boot: the read model is not rebuilt from the event store. *)
BootWithoutReplay ==
    /\ pc = "down"
    /\ pc' = "idle"
    /\ projected' = Len(log)
    /\ readModel' = << >>
    /\ UNCHANGED <<log, receipts, queue, job, start, unpublished, error, inbox, call, bounds>>

(* Bootstrap of the projections, then of the read model from readAll. *)
Boot ==
    /\ pc = "down"
    /\ pc' = "idle"
    /\ projected' = Len(log)
    /\ readModel' = SequencesAfter(0)
    /\ UNCHANGED <<log, receipts, queue, job, start, unpublished, error, inbox, call, bounds>>

(* Stream.fromPubSub: a subscriber sees what is published from now on. *)
Subscribe(s) ==
    /\ pc # "down"
    /\ inbox[s] = NotSubscribed
    /\ inbox' = [inbox EXCEPT ![s] = << >>]
    /\ UNCHANGED <<database, worker, queue, readModel, call, bounds>>

(* dispatch: a caller may send any command, also one it sent before. *)
Dispatch(c, command) ==
    /\ pc # "down"
    /\ call[c].status # "waiting"
    /\ queue' = Append(queue, [caller |-> c, command |-> command])
    /\ call' = [call EXCEPT ![c] = [status |-> "waiting", command |-> command, sequence |-> 0]]
    /\ UNCHANGED <<database, worker, readModel, inbox, bounds>>

Take ==
    /\ pc = "idle"
    /\ queue # << >>
    /\ pc' = "lookup"
    /\ job' = Head(queue)
    /\ start' = SnapshotSequence
    /\ queue' = Tail(queue)
    /\ UNCHANGED <<database, readModel, unpublished, error, inbox, call, bounds>>

(* An earlier decision is answered from its receipt. *)
AnswerFromReceipt ==
    /\ pc = "lookup"
    /\ receipts[job.command.id] # NoReceipt
    /\ LET receipt == receipts[job.command.id]
       IN  IF receipt.status = "accepted" THEN Settle("accepted", receipt.sequence)
                                          ELSE Settle("rejected", 0)
    /\ UNCHANGED <<database, queue, readModel, inbox, bounds>>

(* Mutant of DecideCommand: only an accepted receipt stops a decision. *)
DecideUnlessAccepted ==
    /\ pc = "lookup"
    /\ receipts[job.command.id].status # "accepted"
    /\ IF Decide(job.command, ReadModelOf(log, readModel)) = Rejection
       THEN pc' = "reconcile" /\ error' = "invariant"
       ELSE pc' = "transaction" /\ UNCHANGED error
    /\ UNCHANGED <<database, queue, job, start, readModel, unpublished, inbox, call, bounds>>

(* A command that no receipt mentions is decided against the read model. *)
DecideCommand ==
    /\ pc = "lookup"
    /\ receipts[job.command.id] = NoReceipt
    /\ IF Decide(job.command, ReadModelOf(log, readModel)) = Rejection
       THEN pc' = "reconcile" /\ error' = "invariant"
       ELSE pc' = "transaction" /\ UNCHANGED error
    /\ UNCHANGED <<database, queue, job, start, readModel, unpublished, inbox, call, bounds>>

LookupFails ==
    /\ pc = "lookup"
    /\ Fail("lookup")
    /\ pc' = "reconcile"
    /\ error' = "storage"
    /\ UNCHANGED <<database, queue, job, start, readModel, unpublished, inbox, call>>

(* Mutant of Persist: the receipt is not part of the transaction. *)
PersistWithoutReceipt ==
    LET events == EventsOf(job.command)
    IN  /\ log' = log \o events
        /\ projected' = Len(log) + Len(events)
        /\ UNCHANGED receipts

(* What the transaction writes: every event, its projections, the receipt. *)
Persist ==
    LET events == EventsOf(job.command)
    IN  /\ log' = log \o events
        /\ projected' = Len(log) + Len(events)
        /\ receipts' = [receipts EXCEPT ![job.command.id] =
                          [status |-> "accepted", sequence |-> Len(log) + Len(events)]]

(* Mutant of Commit: publication starts without installing the read model. *)
CommitThenPublish ==
    /\ pc = "transaction"
    /\ Persist
    /\ unpublished' = [i \in 1 .. Len(EventsOf(job.command)) |-> Len(log) + i]
    /\ pc' = "publish"
    /\ UNCHANGED <<queue, job, start, readModel, error, inbox, call, bounds>>

Commit ==
    /\ pc = "transaction"
    /\ Persist
    /\ unpublished' = [i \in 1 .. Len(EventsOf(job.command)) |-> Len(log) + i]
    /\ pc' = "install"
    /\ UNCHANGED <<queue, job, start, readModel, error, inbox, call, bounds>>

(* Mutant of TransactionFails: the receipt was written outside the transaction. *)
TransactionFailsAfterReceipt ==
    /\ pc = "transaction"
    /\ \/ /\ Fail("rollback")
          /\ receipts' = [receipts EXCEPT ![job.command.id] =
                            [status |-> "accepted", sequence |-> Len(log)]]
          /\ UNCHANGED <<log, projected>>
       \/ Fail("committed") /\ Persist
    /\ pc' = "reconcile"
    /\ error' = "storage"
    /\ UNCHANGED <<queue, job, start, readModel, unpublished, inbox, call>>

TransactionFails ==
    /\ pc = "transaction"
    /\ \/ Fail("rollback") /\ UNCHANGED database
       \/ Fail("committed") /\ Persist
    /\ pc' = "reconcile"
    /\ error' = "storage"
    /\ UNCHANGED <<queue, job, start, readModel, unpublished, inbox, call>>

(* Mutant of Install: only the last event of the command is folded. *)
InstallLastEvent ==
    /\ pc = "install"
    /\ readModel' = Append(readModel, Last(unpublished))
    /\ pc' = "publish"
    /\ UNCHANGED <<database, queue, job, start, unpublished, error, inbox, call, bounds>>

(* readModel = committedCommand.nextReadModel *)
Install ==
    /\ pc = "install"
    /\ readModel' = readModel \o unpublished
    /\ pc' = "publish"
    /\ UNCHANGED <<database, queue, job, start, unpublished, error, inbox, call, bounds>>

(* PubSub.publish of the next event, to every current subscriber. *)
Publish ==
    /\ pc \in {"publish", "republish"}
    /\ unpublished # << >>
    /\ inbox' = [s \in Subscriber |->
                    IF inbox[s] = NotSubscribed THEN NotSubscribed
                    ELSE Append(inbox[s], Head(unpublished))]
    /\ unpublished' = Tail(unpublished)
    /\ UNCHANGED <<database, pc, queue, job, start, readModel, error, call, bounds>>

AnswerAccepted ==
    /\ pc = "publish"
    /\ unpublished = << >>
    /\ Settle("accepted", receipts[job.command.id].sequence)
    /\ UNCHANGED <<database, queue, readModel, inbox, bounds>>

-----------------------------------------------------------------------------
(* Mutant of Reconcile: recovered events are folded but not published. *)
ReconcileSilently ==
    /\ pc = "reconcile"
    /\ readModel' = readModel \o SequencesAfter(start)
    /\ pc' = "republish"
    /\ UNCHANGED <<database, queue, job, start, unpublished, error, inbox, call, bounds>>

(* reconcileReadModelAfterDispatchFailure: fold and publish whatever was    *)
(* persisted since the envelope was taken.                                  *)
Reconcile ==
    /\ pc = "reconcile"
    /\ readModel' = readModel \o SequencesAfter(start)
    /\ unpublished' = SequencesAfter(start)
    /\ pc' = "republish"
    /\ UNCHANGED <<database, queue, job, start, error, inbox, call, bounds>>

ReconcileFails ==
    /\ pc = "reconcile"
    /\ Fail("reconcile")
    /\ pc' = "republish"
    /\ UNCHANGED <<database, queue, job, start, readModel, unpublished, error, inbox, call>>

(* An invariant error is remembered as a rejected receipt. *)
RecordRejection ==
    /\ pc = "republish"
    /\ unpublished = << >>
    /\ error = "invariant"
    /\ receipts' = [receipts EXCEPT ![job.command.id] =
                      [status |-> "rejected", sequence |-> SnapshotSequence]]
    /\ pc' = "fail"
    /\ UNCHANGED <<log, projected, queue, job, start, readModel, unpublished, error, inbox,
                   call, bounds>>

RecordRejectionFails ==
    /\ pc = "republish"
    /\ unpublished = << >>
    /\ error = "invariant"
    /\ Fail("receipt")
    /\ pc' = "fail"
    /\ UNCHANGED <<database, queue, job, start, readModel, unpublished, error, inbox, call>>

(* Mutant of AnswerFailed: only rejections reach the caller. *)
AnswerRejectedOnly ==
    /\ \/ pc = "fail" /\ Settle("rejected", 0)
       \/ /\ pc = "republish" /\ unpublished = << >> /\ error = "storage"
          /\ pc' = "idle"
          /\ job' = NoJob
          /\ error' = "none"
          /\ UNCHANGED <<start, unpublished, call>>
    /\ UNCHANGED <<database, queue, readModel, inbox, bounds>>

AnswerFailed ==
    /\ \/ pc = "fail" /\ Settle("rejected", 0)
       \/ pc = "republish" /\ unpublished = << >> /\ error = "storage" /\ Settle("failed", 0)
    /\ UNCHANGED <<database, queue, readModel, inbox, bounds>>

(* The process dies: memory is lost, awaiting callers lose their answer. *)
Crash ==
    /\ pc # "down"
    /\ crashes < MaxCrashes
    /\ crashes' = crashes + 1
    /\ pc' = "down"
    /\ queue' = << >>
    /\ job' = NoJob
    /\ start' = 0
    /\ readModel' = << >>
    /\ unpublished' = << >>
    /\ error' = "none"
    /\ inbox' = [s \in Subscriber |-> NotSubscribed]
    /\ call' = [c \in Caller |-> IF call[c].status = "waiting"
                                 THEN [call[c] EXCEPT !.status = "lost"] ELSE call[c]]
    /\ UNCHANGED <<database, faults>>

-----------------------------------------------------------------------------
Work ==
    \/ Take \/ AnswerFromReceipt \/ DecideCommand \/ LookupFails
    \/ Commit \/ TransactionFails \/ Install \/ Publish \/ AnswerAccepted
    \/ Reconcile \/ ReconcileFails \/ RecordRejection \/ RecordRejectionFails
    \/ AnswerFailed

Next ==
    \/ Boot
    \/ \E s \in Subscriber : Subscribe(s)
    \/ \E c \in Caller, command \in Commands : Dispatch(c, command)
    \/ Work
    \/ Crash

Spec == Init /\ [][Next]_vars

(* The worker is an Effect.forever fiber and the supervisor of the server   *)
(* restarts it; callers and subscribers owe nothing.                        *)
FairSpec == Spec /\ WF_vars(Boot) /\ WF_vars(Work)

-----------------------------------------------------------------------------
(***************************************************************************)
(* Properties.                                                              *)
(***************************************************************************)
Envelopes == [caller : Caller, command : Commands]
Working == {"lookup", "transaction", "install", "publish", "reconcile", "republish", "fail"}

DatabaseTypeOK ==
    /\ log \in Seq(EventBases)
    /\ receipts \in [CommandIds -> Receipts]
    /\ projected \in Nat

WorkerTypeOK ==
    /\ pc \in {"down", "idle"} \cup Working
    /\ job \in Envelopes \cup {NoJob}
    /\ pc \in Working <=> job # NoJob
    /\ start \in Nat
    /\ error \in {"none", "invariant", "storage"}

MemoryTypeOK ==
    /\ queue \in Seq(Envelopes)
    /\ readModel \in Seq(Nat)
    /\ unpublished \in Seq(Nat)
    /\ inbox \in [Subscriber -> Seq(Nat)]

Calls == [status : {"idle", "waiting", "accepted", "rejected", "failed", "lost"},
          command : Commands \cup {NoCommand}, sequence : Nat]

BoundsTypeOK == faults \in Nat /\ crashes \in Nat

\* Every variable keeps its type, and the worker holds an envelope exactly
\* while it processes one.
TypeOK ==
    /\ DatabaseTypeOK
    /\ WorkerTypeOK
    /\ MemoryTypeOK
    /\ call \in [Caller -> Calls]
    /\ BoundsTypeOK

\* However often a command is sent, by whomever, across failures and
\* restarts, its events enter the event store at most once (the receipt
\* lookup and the receipt written in the same transaction).
CommandsCommitOnce ==
    \A i, j \in DOMAIN log :
        log[i].command = log[j].command /\ log[i].index = log[j].index => i = j

\* Receipts and event store tell the same story: an accepted receipt names
\* the last event of its command, every stored event belongs to an accepted
\* command, and a rejected command has stored nothing.
ReceiptsMatchLog ==
    /\ \A id \in CommandIds : receipts[id].status = "accepted" =>
          /\ receipts[id].sequence \in DOMAIN log
          /\ log[receipts[id].sequence].command = id
          /\ \A i \in DOMAIN log : log[i].command = id => i <= receipts[id].sequence
    /\ \A i \in DOMAIN log : receipts[log[i].command].status = "accepted"

\* A command is decided, and its transaction runs, on a read model that has
\* folded exactly the committed events: no stale and no repeated event.
DecidesOnCommittedState ==
    pc \in {"idle", "lookup", "transaction"} => readModel = SequencesAfter(0)

\* A subscriber receives the events that follow its subscription one after
\* the other: none skipped, repeated or reordered, also when a failed
\* dispatch publishes through reconciliation, and none left unpublished when
\* the worker is idle.
DeliveredWithoutGaps ==
    \A s \in Subscriber :
        /\ \A i \in 1 .. (Len(inbox[s]) - 1) : inbox[s][i + 1] = inbox[s][i] + 1
        /\ pc = "idle" /\ inbox[s] \notin {NotSubscribed, << >>} => Last(inbox[s]) = Len(log)

\* An event reaches a subscriber only after the read model has folded it and
\* the projections have stored it: the reactors look up the thread of the
\* event they were handed, and clients fetch a snapshot.
ReadModelCoversDelivered ==
    \A s \in Subscriber : inbox[s] # NotSubscribed =>
        \A i \in DOMAIN inbox[s] :
            inbox[s][i] <= SnapshotSequence /\ inbox[s][i] <= projected

\* Read your writes: a caller told "accepted at n" finds its own event at n
\* and a read model that covers n, also after a restart and also when the
\* answer came from the receipt of an earlier dispatch.
AnswersAreVisible ==
    \A c \in Caller : call[c].status = "accepted" =>
        /\ call[c].sequence \in DOMAIN log
        /\ log[call[c].sequence].command = call[c].command.id
        /\ pc # "down" => call[c].sequence <= SnapshotSequence

\* A decision once recorded never changes, across retries, failures and
\* restarts: rejected stays rejected even when the command would now succeed.
DecisionsAreFinal ==
    [][\A id \in CommandIds : receipts[id] # NoReceipt => receipts'[id] = receipts[id]]_vars

\* A dispatch never hangs: its caller is answered, or the process crashes.
EveryDispatchSettles ==
    \A c \in Caller : call[c].status = "waiting" ~> call[c].status # "waiting"

(* The ledger of decisions that the engine implements. *)
Acceptable(command, history) ==
    Decide(command, ReadModelOf(history, [i \in 1 .. Len(history) |-> i])) # Rejection

outcome == [id \in CommandIds |-> receipts[id].status]

Ledger == INSTANCE CommandLedger

\* The engine implements the ledger: each command decided at most once, on
\* exactly the committed events, all of its events together.
ImplementsLedger == Ledger!Spec
=============================================================================

--------------------- MODULE OrchestrationEngineProofs ---------------------
(***************************************************************************)
(* Theorems about the command engine, for every set of commands, callers    *)
(* and subscribers and every bound on failures and crashes.                 *)
(***************************************************************************)
EXTENDS OrchestrationEngine, SequenceTheorems, TLAPS

--------------------
(* Lemmas about the events of a command and about sequences of positions.   *)

\* The decider gives a command one or two events, numbered from 1 and marked
\* with the identifier of the command (withEventBase).
LEMMA EventsOfCommand ==
  ASSUME NEW command \in Commands
  PROVE /\ EventsOf(command) \in Seq(EventBases)
        /\ Len(EventsOf(command)) \in {1, 2}
        /\ \A i \in 1 .. Len(EventsOf(command)) :
              /\ EventsOf(command)[i].command = command.id
              /\ EventsOf(command)[i].index = i
<1>1. Range(EventsOf(command)) \subseteq EventBases BY DEF EventBases
<1>2. CASE command.type = "thread.turn.start"
 <2> DEFINE a == EventBase(command, 1, "thread.message-sent",
                           MessageSent(command, "user", NoTurn, command.data.text, FALSE))
            b == EventBase(command, 2, "thread.turn-start-requested", command.data)
 <2>1. EventsOf(command) = << a, b >> BY <1>2 DEF EventsOf
 <2>2. /\ a.command = command.id /\ a.index = 1
       /\ b.command = command.id /\ b.index = 2
  BY DEF EventBase
 <2> HIDE DEF a, b
 <2>3. a \in EventBases /\ b \in EventBases BY <1>1, <2>1 DEF Range
 <2> QED BY <2>1, <2>2, <2>3
<1>3. CASE command.type # "thread.turn.start"
 <2>1. PICK a : /\ EventsOf(command) = << a >>
                /\ a.command = command.id /\ a.index = 1
  BY <1>3 DEF EventsOf, EventBase
 <2>2. a \in EventBases BY <1>1, <2>1 DEF Range
 <2> QED BY <2>1, <2>2
<1> QED BY <1>2, <1>3

\* Every event base carries the identifier of a dispatchable command.
LEMMA EventBaseCommand ==
  ASSUME NEW event \in EventBases PROVE event.command \in CommandIds
<1>1. PICK command \in Commands : event \in Range(EventsOf(command)) BY DEF EventBases
<1>2. PICK i \in DOMAIN EventsOf(command) : event = EventsOf(command)[i] BY <1>1 DEF Range
<1>3. event.command = command.id BY <1>2, EventsOfCommand
<1> QED BY <1>3 DEF CommandIds

\* Positions 1..n as a sequence, and how it grows.
LEMMA Positions ==
  ASSUME NEW n \in Nat, NEW m \in Nat, n <= m
  PROVE /\ [i \in 1 .. n |-> i] \in Seq(Nat)
        /\ [i \in 1 .. n |-> i] \o [i \in 1 .. (m - n) |-> n + i] = [i \in 1 .. m |-> i]
 OBVIOUS

--------------------
(* Type correctness. *)

LEMMA ReadingsTyped ==
  ASSUME DatabaseTypeOK, MemoryTypeOK
  PROVE /\ SnapshotSequence \in Nat
        /\ \A n \in Nat : SequencesAfter(n) \in Seq(Nat)
<1>1. SnapshotSequence \in Nat BY DEF MemoryTypeOK, SnapshotSequence, Last
<1>2. \A n \in Nat : SequencesAfter(n) \in Seq(Nat) BY DEF DatabaseTypeOK, SequencesAfter
<1> QED BY <1>1, <1>2

LEMMA JobTyped ==
  ASSUME WorkerTypeOK, pc \in Working PROVE job.caller \in Caller /\ job.command \in Commands
BY DEF WorkerTypeOK, Envelopes

LEMMA SettleTyped ==
  ASSUME call \in [Caller -> Calls], job.caller \in Caller,
    NEW status \in {"accepted", "rejected", "failed"}, NEW sequence \in Nat,
    Settle(status, sequence)
  PROVE call' \in [Caller -> Calls]
<1> DEFINE answered == [call[job.caller] EXCEPT !.status = status, !.sequence = sequence]
<1>1. call[job.caller] \in Calls OBVIOUS
<1>2. answered \in Calls BY <1>1 DEF Calls
<1>3. call' = [call EXCEPT ![job.caller] = answered] BY <1>1 DEF Settle, Calls
<1> QED BY <1>2, <1>3

LEMMA PersistTyped ==
  ASSUME DatabaseTypeOK, job.command \in Commands, Persist PROVE DatabaseTypeOK'
<1> DEFINE events == EventsOf(job.command)
<1>1. events \in Seq(EventBases) /\ Len(events) \in Nat BY EventsOfCommand
<1>2. job.command.id \in CommandIds BY DEF CommandIds
<1>3. /\ log' = log \o events
      /\ projected' = Len(log) + Len(events)
      /\ receipts' = [receipts EXCEPT ![job.command.id] =
                        [status |-> "accepted", sequence |-> Len(log) + Len(events)]]
 BY DEF Persist
<1> HIDE DEF events
<1>4. Len(log) + Len(events) \in Nat BY <1>1 DEF DatabaseTypeOK
<1>5. log' \in Seq(EventBases) BY <1>1, <1>3 DEF DatabaseTypeOK
<1>6. receipts' \in [CommandIds -> Receipts] BY <1>2, <1>3, <1>4 DEF DatabaseTypeOK, Receipts
<1> QED BY <1>3, <1>4, <1>5, <1>6 DEF DatabaseTypeOK

LEMMA TypeInit == Init => TypeOK
BY FaultAssumption, NullAssumption
   DEF Init, TypeOK, DatabaseTypeOK, WorkerTypeOK, MemoryTypeOK, Calls, BoundsTypeOK, CommandIds,
     Receipts, NoReceipt, Working, NotSubscribed, Idle, NoJob

LEMMA TypeStep == TypeOK /\ [Next]_vars => TypeOK'
<1> SUFFICES ASSUME TypeOK, [Next]_vars PROVE TypeOK' OBVIOUS
<1> USE DEF database, worker, bounds
<1>0. /\ DatabaseTypeOK /\ WorkerTypeOK /\ MemoryTypeOK
      /\ call \in [Caller -> Calls] /\ BoundsTypeOK
      /\ SnapshotSequence \in Nat /\ \A n \in Nat : SequencesAfter(n) \in Seq(Nat)
 BY ReadingsTyped DEF TypeOK
<1>1. CASE Boot
 <2>1. DatabaseTypeOK' BY <1>0, <1>1 DEF Boot, DatabaseTypeOK, CommandIds, Receipts
 <2>2. WorkerTypeOK'
  BY <1>0, <1>1, NullAssumption DEF Boot, WorkerTypeOK, Envelopes, NoJob, Working
 <2>3. MemoryTypeOK' BY <1>0, <1>1 DEF Boot, MemoryTypeOK, Envelopes, DatabaseTypeOK
 <2>4. (call \in [Caller -> Calls])'
  BY <1>0, <1>1, NullAssumption DEF Boot, Calls, Envelopes, NoJob, Working, WorkerTypeOK
 <2>5. BoundsTypeOK' BY <1>0, <1>1 DEF Boot, BoundsTypeOK
 <2> QED BY <2>1, <2>2, <2>3, <2>4, <2>5 DEF TypeOK
<1>2. ASSUME NEW s \in Subscriber, Subscribe(s) PROVE TypeOK'
 <2>1. DatabaseTypeOK' BY <1>0, <1>2 DEF Subscribe, DatabaseTypeOK, CommandIds, Receipts
 <2>2. WorkerTypeOK'
  BY <1>0, <1>2, NullAssumption DEF Subscribe, WorkerTypeOK, Envelopes, NoJob, Working
 <2>3. MemoryTypeOK' BY <1>0, <1>2 DEF Subscribe, MemoryTypeOK, Envelopes
 <2>4. (call \in [Caller -> Calls])'
  BY <1>0, <1>2, NullAssumption DEF Subscribe, Calls, Envelopes, NoJob, Working, WorkerTypeOK
 <2>5. BoundsTypeOK' BY <1>0, <1>2 DEF Subscribe, BoundsTypeOK
 <2> QED BY <2>1, <2>2, <2>3, <2>4, <2>5 DEF TypeOK
<1>3. ASSUME NEW c \in Caller, NEW command \in Commands, Dispatch(c, command) PROVE TypeOK'
 <2>1. DatabaseTypeOK' BY <1>0, <1>3 DEF Dispatch, DatabaseTypeOK, CommandIds, Receipts
 <2>2. WorkerTypeOK'
  BY <1>0, <1>3, NullAssumption DEF Dispatch, WorkerTypeOK, Envelopes, NoJob, Working
 <2>3. MemoryTypeOK' BY <1>0, <1>3 DEF Dispatch, MemoryTypeOK, Envelopes
 <2>4. (call \in [Caller -> Calls])'
  BY <1>0, <1>3, NullAssumption DEF Dispatch, Calls, Envelopes, NoJob, Working, WorkerTypeOK
 <2>5. BoundsTypeOK' BY <1>0, <1>3 DEF Dispatch, BoundsTypeOK
 <2> QED BY <2>1, <2>2, <2>3, <2>4, <2>5 DEF TypeOK
<1>4. CASE Take
 <2>1. DatabaseTypeOK' BY <1>0, <1>4 DEF Take, DatabaseTypeOK, CommandIds, Receipts
 <2>2. WorkerTypeOK'
  <3>1. Head(queue) \in Envelopes BY <1>0, <1>4 DEF Take, MemoryTypeOK
  <3>2. Head(queue) # NoJob BY <3>1, NullAssumption DEF Envelopes, NoJob
  <3> QED BY <1>0, <1>4, <3>1, <3>2 DEF Take, WorkerTypeOK, Working
 <2>3. MemoryTypeOK' BY <1>0, <1>4 DEF Take, MemoryTypeOK, Envelopes
 <2>4. (call \in [Caller -> Calls])'
  BY <1>0, <1>4, NullAssumption DEF Take, Calls, Envelopes, NoJob, Working, WorkerTypeOK
 <2>5. BoundsTypeOK' BY <1>0, <1>4 DEF Take, BoundsTypeOK
 <2> QED BY <2>1, <2>2, <2>3, <2>4, <2>5 DEF TypeOK
<1>5. CASE AnswerFromReceipt
 <2>1. DatabaseTypeOK'
  BY <1>0, <1>5 DEF AnswerFromReceipt, Settle, DatabaseTypeOK, CommandIds, Receipts
 <2>2. WorkerTypeOK'
  BY <1>0, <1>5, NullAssumption DEF AnswerFromReceipt, Settle, WorkerTypeOK, Envelopes, NoJob, Working
 <2>3. MemoryTypeOK' BY <1>0, <1>5 DEF AnswerFromReceipt, Settle, MemoryTypeOK, Envelopes
 <2>4. (call \in [Caller -> Calls])'
  <3>1. job.caller \in Caller /\ receipts[job.command.id].sequence \in Nat
   BY <1>0, <1>5, JobTyped DEF AnswerFromReceipt, Working, DatabaseTypeOK, Receipts, CommandIds
  <3>2. \/ Settle("accepted", receipts[job.command.id].sequence)
        \/ Settle("rejected", 0)
   BY <1>5 DEF AnswerFromReceipt
  <3> QED BY <1>0, <3>1, <3>2, SettleTyped
 <2>5. BoundsTypeOK' BY <1>0, <1>5 DEF AnswerFromReceipt, Settle, BoundsTypeOK
 <2> QED BY <2>1, <2>2, <2>3, <2>4, <2>5 DEF TypeOK
<1>6. CASE DecideCommand
 <2>1. DatabaseTypeOK' BY <1>0, <1>6 DEF DecideCommand, DatabaseTypeOK, CommandIds, Receipts
 <2>2. WorkerTypeOK'
  BY <1>0, <1>6, NullAssumption DEF DecideCommand, WorkerTypeOK, Envelopes, NoJob, Working
 <2>3. MemoryTypeOK' BY <1>0, <1>6 DEF DecideCommand, MemoryTypeOK, Envelopes
 <2>4. (call \in [Caller -> Calls])'
  BY <1>0, <1>6, NullAssumption DEF DecideCommand, Calls, Envelopes, NoJob, Working, WorkerTypeOK
 <2>5. BoundsTypeOK' BY <1>0, <1>6 DEF DecideCommand, BoundsTypeOK
 <2> QED BY <2>1, <2>2, <2>3, <2>4, <2>5 DEF TypeOK
<1>7. CASE LookupFails
 <2>1. DatabaseTypeOK' BY <1>0, <1>7 DEF LookupFails, Fail, DatabaseTypeOK, CommandIds, Receipts
 <2>2. WorkerTypeOK'
  BY <1>0, <1>7, NullAssumption DEF LookupFails, Fail, WorkerTypeOK, Envelopes, NoJob, Working
 <2>3. MemoryTypeOK' BY <1>0, <1>7 DEF LookupFails, Fail, MemoryTypeOK, Envelopes
 <2>4. (call \in [Caller -> Calls])'
  BY <1>0, <1>7, NullAssumption DEF LookupFails, Fail, Calls, Envelopes, NoJob, Working, WorkerTypeOK
 <2>5. BoundsTypeOK' BY <1>0, <1>7 DEF LookupFails, Fail, BoundsTypeOK
 <2> QED BY <2>1, <2>2, <2>3, <2>4, <2>5 DEF TypeOK
<1>8. CASE Commit
 <2>1. DatabaseTypeOK' BY <1>0, <1>8, JobTyped, PersistTyped DEF Commit, Working
 <2>2. WorkerTypeOK'
  BY <1>0, <1>8, NullAssumption DEF Commit, Persist, WorkerTypeOK, Envelopes, NoJob, Working
 <2>3. MemoryTypeOK'
  <3>1. Len(log) \in Nat /\ Len(EventsOf(job.command)) \in Nat
   BY <1>0, <1>8, JobTyped, EventsOfCommand DEF Commit, Working, DatabaseTypeOK
  <3>2. unpublished' \in Seq(Nat) BY <1>8, <3>1 DEF Commit
  <3> QED BY <1>0, <1>8, <3>2 DEF Commit, MemoryTypeOK
 <2>4. (call \in [Caller -> Calls])'
  BY <1>0, <1>8, NullAssumption DEF Commit, Persist, Calls, Envelopes, NoJob, Working, WorkerTypeOK
 <2>5. BoundsTypeOK' BY <1>0, <1>8 DEF Commit, Persist, BoundsTypeOK
 <2> QED BY <2>1, <2>2, <2>3, <2>4, <2>5 DEF TypeOK
<1>9. CASE TransactionFails
 <2>1. DatabaseTypeOK'
  BY <1>0, <1>9, JobTyped, PersistTyped DEF TransactionFails, Working, DatabaseTypeOK
 <2>2. WorkerTypeOK'
  BY <1>0, <1>9, NullAssumption DEF TransactionFails, Fail, Persist, WorkerTypeOK, Envelopes, NoJob, Working
 <2>3. MemoryTypeOK' BY <1>0, <1>9 DEF TransactionFails, Fail, Persist, MemoryTypeOK, Envelopes
 <2>4. (call \in [Caller -> Calls])'
  BY <1>0, <1>9, NullAssumption DEF TransactionFails, Fail, Persist, Calls, Envelopes, NoJob, Working, WorkerTypeOK
 <2>5. BoundsTypeOK'
  <3>1. Fail("rollback") \/ Fail("committed") BY <1>9 DEF TransactionFails
  <3>2. faults' = faults + 1 /\ crashes' = crashes BY <3>1 DEF Fail
  <3>3. faults \in Nat /\ crashes \in Nat BY <1>0 DEF BoundsTypeOK
  <3> QED BY <3>2, <3>3 DEF BoundsTypeOK
 <2> QED BY <2>1, <2>2, <2>3, <2>4, <2>5 DEF TypeOK
<1>10. CASE Install
 <2>1. DatabaseTypeOK' BY <1>0, <1>10 DEF Install, DatabaseTypeOK, CommandIds, Receipts
 <2>2. WorkerTypeOK'
  BY <1>0, <1>10, NullAssumption DEF Install, WorkerTypeOK, Envelopes, NoJob, Working
 <2>3. MemoryTypeOK' BY <1>0, <1>10 DEF Install, MemoryTypeOK, Envelopes
 <2>4. (call \in [Caller -> Calls])'
  BY <1>0, <1>10, NullAssumption DEF Install, Calls, Envelopes, NoJob, Working, WorkerTypeOK
 <2>5. BoundsTypeOK' BY <1>0, <1>10 DEF Install, BoundsTypeOK
 <2> QED BY <2>1, <2>2, <2>3, <2>4, <2>5 DEF TypeOK
<1>11. CASE Publish
 <2>1. DatabaseTypeOK' BY <1>0, <1>11 DEF Publish, DatabaseTypeOK, CommandIds, Receipts
 <2>2. WorkerTypeOK'
  BY <1>0, <1>11, NullAssumption DEF Publish, WorkerTypeOK, Envelopes, NoJob, Working
 <2>3. MemoryTypeOK'
  <3>1. Head(unpublished) \in Nat /\ Tail(unpublished) \in Seq(Nat)
   <4>1. unpublished \in Seq(Nat) /\ unpublished # << >> BY <1>0, <1>11 DEF Publish, MemoryTypeOK
   <4> QED BY <4>1, HeadTailProperties
  <3>2. inbox' \in [Subscriber -> Seq(Nat)] BY <1>0, <1>11, <3>1 DEF Publish, MemoryTypeOK
  <3> QED BY <1>0, <1>11, <3>1, <3>2 DEF Publish, MemoryTypeOK
 <2>4. (call \in [Caller -> Calls])'
  BY <1>0, <1>11, NullAssumption DEF Publish, Calls, Envelopes, NoJob, Working, WorkerTypeOK
 <2>5. BoundsTypeOK' BY <1>0, <1>11 DEF Publish, BoundsTypeOK
 <2> QED BY <2>1, <2>2, <2>3, <2>4, <2>5 DEF TypeOK
<1>12. CASE AnswerAccepted
 <2>1. DatabaseTypeOK'
  BY <1>0, <1>12 DEF AnswerAccepted, Settle, DatabaseTypeOK, CommandIds, Receipts
 <2>2. WorkerTypeOK'
  BY <1>0, <1>12, NullAssumption DEF AnswerAccepted, Settle, WorkerTypeOK, Envelopes, NoJob, Working
 <2>3. MemoryTypeOK' BY <1>0, <1>12 DEF AnswerAccepted, Settle, MemoryTypeOK, Envelopes
 <2>4. (call \in [Caller -> Calls])'
  <3>1. job.caller \in Caller /\ receipts[job.command.id].sequence \in Nat
   BY <1>0, <1>12, JobTyped DEF AnswerAccepted, Working, DatabaseTypeOK, Receipts, CommandIds
  <3> QED BY <1>0, <1>12, <3>1, SettleTyped DEF AnswerAccepted
 <2>5. BoundsTypeOK' BY <1>0, <1>12 DEF AnswerAccepted, Settle, BoundsTypeOK
 <2> QED BY <2>1, <2>2, <2>3, <2>4, <2>5 DEF TypeOK
<1>13. CASE Reconcile
 <2>1. DatabaseTypeOK' BY <1>0, <1>13 DEF Reconcile, DatabaseTypeOK, CommandIds, Receipts
 <2>2. WorkerTypeOK'
  BY <1>0, <1>13, NullAssumption DEF Reconcile, WorkerTypeOK, Envelopes, NoJob, Working
 <2>3. MemoryTypeOK' BY <1>0, <1>13 DEF Reconcile, MemoryTypeOK, Envelopes, WorkerTypeOK
 <2>4. (call \in [Caller -> Calls])'
  BY <1>0, <1>13, NullAssumption DEF Reconcile, Calls, Envelopes, NoJob, Working, WorkerTypeOK
 <2>5. BoundsTypeOK' BY <1>0, <1>13 DEF Reconcile, BoundsTypeOK
 <2> QED BY <2>1, <2>2, <2>3, <2>4, <2>5 DEF TypeOK
<1>14. CASE ReconcileFails
 <2>1. DatabaseTypeOK'
  BY <1>0, <1>14 DEF ReconcileFails, Fail, DatabaseTypeOK, CommandIds, Receipts
 <2>2. WorkerTypeOK'
  BY <1>0, <1>14, NullAssumption DEF ReconcileFails, Fail, WorkerTypeOK, Envelopes, NoJob, Working
 <2>3. MemoryTypeOK' BY <1>0, <1>14 DEF ReconcileFails, Fail, MemoryTypeOK, Envelopes
 <2>4. (call \in [Caller -> Calls])'
  BY <1>0, <1>14, NullAssumption DEF ReconcileFails, Fail, Calls, Envelopes, NoJob, Working, WorkerTypeOK
 <2>5. BoundsTypeOK' BY <1>0, <1>14 DEF ReconcileFails, Fail, BoundsTypeOK
 <2> QED BY <2>1, <2>2, <2>3, <2>4, <2>5 DEF TypeOK
<1>15. CASE RecordRejection
 <2>1. DatabaseTypeOK'
  BY <1>0, <1>15 DEF RecordRejection, DatabaseTypeOK, CommandIds, Receipts, WorkerTypeOK, Envelopes, NoJob, Working
 <2>2. WorkerTypeOK'
  BY <1>0, <1>15, NullAssumption DEF RecordRejection, WorkerTypeOK, Envelopes, NoJob, Working
 <2>3. MemoryTypeOK' BY <1>0, <1>15 DEF RecordRejection, MemoryTypeOK, Envelopes
 <2>4. (call \in [Caller -> Calls])'
  BY <1>0, <1>15, NullAssumption DEF RecordRejection, Calls, Envelopes, NoJob, Working, WorkerTypeOK
 <2>5. BoundsTypeOK' BY <1>0, <1>15 DEF RecordRejection, BoundsTypeOK
 <2> QED BY <2>1, <2>2, <2>3, <2>4, <2>5 DEF TypeOK
<1>16. CASE RecordRejectionFails
 <2>1. DatabaseTypeOK'
  BY <1>0, <1>16 DEF RecordRejectionFails, Fail, DatabaseTypeOK, CommandIds, Receipts
 <2>2. WorkerTypeOK'
  BY <1>0, <1>16, NullAssumption DEF RecordRejectionFails, Fail, WorkerTypeOK, Envelopes, NoJob, Working
 <2>3. MemoryTypeOK' BY <1>0, <1>16 DEF RecordRejectionFails, Fail, MemoryTypeOK, Envelopes
 <2>4. (call \in [Caller -> Calls])'
  BY <1>0, <1>16, NullAssumption DEF RecordRejectionFails, Fail, Calls, Envelopes, NoJob, Working, WorkerTypeOK
 <2>5. BoundsTypeOK' BY <1>0, <1>16 DEF RecordRejectionFails, Fail, BoundsTypeOK
 <2> QED BY <2>1, <2>2, <2>3, <2>4, <2>5 DEF TypeOK
<1>17. CASE AnswerFailed
 <2>1. DatabaseTypeOK'
  BY <1>0, <1>17 DEF AnswerFailed, Settle, DatabaseTypeOK, CommandIds, Receipts
 <2>2. WorkerTypeOK'
  BY <1>0, <1>17, NullAssumption DEF AnswerFailed, Settle, WorkerTypeOK, Envelopes, NoJob, Working
 <2>3. MemoryTypeOK' BY <1>0, <1>17 DEF AnswerFailed, Settle, MemoryTypeOK, Envelopes
 <2>4. (call \in [Caller -> Calls])'
  BY <1>0, <1>17, JobTyped, SettleTyped DEF AnswerFailed, Working
 <2>5. BoundsTypeOK' BY <1>0, <1>17 DEF AnswerFailed, Settle, BoundsTypeOK
 <2> QED BY <2>1, <2>2, <2>3, <2>4, <2>5 DEF TypeOK
<1>18. CASE Crash
 <2>1. DatabaseTypeOK'
  BY <1>0, <1>18 DEF Crash, NotSubscribed, DatabaseTypeOK, CommandIds, Receipts
 <2>2. WorkerTypeOK'
  BY <1>0, <1>18, NullAssumption DEF Crash, NotSubscribed, WorkerTypeOK, Envelopes, NoJob, Working
 <2>3. MemoryTypeOK' BY <1>0, <1>18 DEF Crash, NotSubscribed, MemoryTypeOK, Envelopes
 <2>4. (call \in [Caller -> Calls])'
  <3>1. call' = [c \in Caller |-> IF call[c].status = "waiting"
                                  THEN [call[c] EXCEPT !.status = "lost"] ELSE call[c]]
   BY <1>18 DEF Crash
  <3>2. \A c \in Caller : [call[c] EXCEPT !.status = "lost"] \in Calls /\ call[c] \in Calls
   BY <1>0 DEF Calls
  <3> QED BY <3>1, <3>2
 <2>5. BoundsTypeOK' BY <1>0, <1>18 DEF Crash, NotSubscribed, BoundsTypeOK
 <2> QED BY <2>1, <2>2, <2>3, <2>4, <2>5 DEF TypeOK
<1>19. CASE UNCHANGED vars
 BY <1>0, <1>19 DEF vars, TypeOK, DatabaseTypeOK, WorkerTypeOK, MemoryTypeOK, BoundsTypeOK
<1> QED BY <1>1, <1>2, <1>3, <1>4, <1>5, <1>6, <1>7, <1>8, <1>9, <1>10, <1>11, <1>12, <1>13, <1>14, <1>15, <1>16, <1>17, <1>18, <1>19 DEF Next, Work

\* Every variable of the engine keeps its type and the worker holds an envelope
\* exactly while it processes one.
THEOREM TypeCorrect == Spec => []TypeOK
BY TypeInit, TypeStep, PTL DEF Spec

--------------------
(* The inductive invariant.  It says where the read model, the store and    *)
(* the receipts stand at each place of the worker, provided that the store  *)
(* can be read when a failed dispatch is reconciled.                        *)
ReliableReconcile == "reconcile" \notin Faults

(* The read model: every committed sequence once and in order, except while *)
(* the events of the current envelope still have to be folded.              *)
ReadModelInv ==
    /\ pc \in {"down", "idle", "lookup", "transaction", "reconcile", "fail"} =>
          unpublished = << >>
    /\ pc \in {"idle", "lookup", "transaction", "publish", "republish", "fail"} =>
          readModel = SequencesAfter(0)
    /\ pc = "install" => readModel \o unpublished = SequencesAfter(0)
    /\ pc = "reconcile" => /\ start <= Len(log)
                           /\ readModel = [i \in 1 .. start |-> i]
    /\ pc \in {"lookup", "transaction"} => start = Len(log)

(* No decision on the current command is recorded before its time.          *)
PendingInv ==
    \/ pc = "transaction"
    \/ pc \in {"reconcile", "republish"} /\ error = "invariant"
    => receipts[job.command.id] = NoReceipt

(* The verdict on the current command still holds when it is recorded.      *)
VerdictInv ==
    /\ pc = "transaction" => Acceptable(job.command, log)
    /\ pc \in {"reconcile", "republish"} /\ error = "invariant" =>
          ~Acceptable(job.command, log)

StoreInv == ReceiptsMatchLog /\ CommandsCommitOnce

RecordInv == TypeOK /\ PendingInv /\ StoreInv

IInv == RecordInv /\ ReadModelInv /\ VerdictInv
--------------------
LEMMA CommittedPositions ==
  ASSUME log \in Seq(EventBases)
  PROVE /\ SequencesAfter(0) = [i \in 1 .. Len(log) |-> i]
        /\ readModel = SequencesAfter(0) => SnapshotSequence = Len(log)
BY DEF SequencesAfter, SnapshotSequence, Last

LEMMA ReadModelInit == Init => ReadModelInv
BY DEF Init, ReadModelInv

LEMMA ReadModelStep ==
  ASSUME ReliableReconcile, TypeOK, ReadModelInv, [Next]_vars PROVE ReadModelInv'
<1> USE DEF database, worker
<1>0. /\ log \in Seq(EventBases) /\ Len(log) \in Nat /\ start \in Nat
      /\ SequencesAfter(0) = [i \in 1 .. Len(log) |-> i]
      /\ readModel = SequencesAfter(0) => SnapshotSequence = Len(log)
 BY CommittedPositions DEF TypeOK, DatabaseTypeOK, WorkerTypeOK
<1>1. CASE Boot BY <1>0, <1>1 DEF Boot, ReadModelInv, SequencesAfter
<1>2. ASSUME NEW s \in Subscriber, Subscribe(s) PROVE ReadModelInv'
 BY <1>0, <1>2 DEF Subscribe, ReadModelInv, SequencesAfter
<1>3. ASSUME NEW c \in Caller, NEW command \in Commands, Dispatch(c, command) PROVE ReadModelInv'
 BY <1>0, <1>3 DEF Dispatch, ReadModelInv, SequencesAfter
<1>4. CASE Take BY <1>0, <1>4 DEF Take, ReadModelInv, SequencesAfter
<1>5. CASE AnswerFromReceipt
 BY <1>0, <1>5 DEF AnswerFromReceipt, Settle, ReadModelInv, SequencesAfter
<1>6. CASE DecideCommand BY <1>0, <1>6 DEF DecideCommand, ReadModelInv, SequencesAfter
<1>7. CASE LookupFails BY <1>0, <1>7 DEF LookupFails, Fail, ReadModelInv, SequencesAfter
<1>8. CASE Commit
 <2> DEFINE events == EventsOf(job.command)
 <2>1. events \in Seq(EventBases) /\ Len(events) \in Nat
  BY <1>8, JobTyped, EventsOfCommand DEF Commit, Working, TypeOK
 <2>2. Len(log') = Len(log) + Len(events) BY <1>0, <1>8, <2>1 DEF Commit, Persist
 <2>3. readModel = [i \in 1 .. Len(log) |-> i] BY <1>0, <1>8 DEF Commit, ReadModelInv
 <2>4. /\ pc' = "install" /\ readModel' = readModel
       /\ unpublished' = [i \in 1 .. Len(events) |-> Len(log) + i]
  BY <1>8 DEF Commit
 <2> HIDE DEF events
 <2>5. readModel' \o unpublished' = [i \in 1 .. Len(log') |-> i]
  BY <1>0, <2>1, <2>2, <2>3, <2>4, Positions
 <2>6. SequencesAfter(0)' = [i \in 1 .. Len(log') |-> i] BY <1>0, <2>1, <2>2 DEF SequencesAfter
 <2> QED BY <2>4, <2>5, <2>6 DEF ReadModelInv
<1>9. CASE TransactionFails
 <2>1. /\ pc' = "reconcile" /\ unpublished' = << >> /\ start' = Len(log)
       /\ readModel' = [i \in 1 .. Len(log) |-> i]
  BY <1>0, <1>9 DEF TransactionFails, ReadModelInv
 <2>2. Len(log) <= Len(log')
  <3>1. CASE Persist
   <4>1. EventsOf(job.command) \in Seq(EventBases)
    BY <1>9, JobTyped, EventsOfCommand DEF TransactionFails, Working, TypeOK
   <4> QED BY <1>0, <3>1, <4>1 DEF Persist
  <3>2. CASE UNCHANGED database BY <1>0, <3>2
  <3> QED BY <1>9, <3>1, <3>2 DEF TransactionFails
 <2> QED BY <2>1, <2>2 DEF ReadModelInv
<1>10. CASE Install BY <1>0, <1>10 DEF Install, ReadModelInv, SequencesAfter
<1>11. CASE Publish BY <1>0, <1>11 DEF Publish, ReadModelInv, SequencesAfter
<1>12. CASE AnswerAccepted BY <1>0, <1>12 DEF AnswerAccepted, Settle, ReadModelInv, SequencesAfter
<1>13. CASE Reconcile
 <2>1. /\ pc' = "republish" /\ log' = log
       /\ readModel' = [i \in 1 .. start |-> i] \o [i \in 1 .. (Len(log) - start) |-> start + i]
  BY <1>13 DEF Reconcile, ReadModelInv, SequencesAfter
 <2>2. start <= Len(log) BY <1>13 DEF Reconcile, ReadModelInv
 <2>3. readModel' = [i \in 1 .. Len(log) |-> i] BY <1>0, <2>1, <2>2, Positions
 <2> QED BY <1>0, <2>1, <2>3 DEF ReadModelInv, SequencesAfter
<1>14. CASE ReconcileFails
 BY <1>0, <1>14 DEF ReconcileFails, Fail, ReliableReconcile, ReadModelInv, SequencesAfter
<1>15. CASE RecordRejection BY <1>0, <1>15 DEF RecordRejection, ReadModelInv, SequencesAfter
<1>16. CASE RecordRejectionFails
 BY <1>0, <1>16 DEF RecordRejectionFails, Fail, ReadModelInv, SequencesAfter
<1>17. CASE AnswerFailed BY <1>0, <1>17 DEF AnswerFailed, Settle, ReadModelInv, SequencesAfter
<1>18. CASE Crash BY <1>0, <1>18 DEF Crash, ReadModelInv, SequencesAfter
<1>19. CASE UNCHANGED vars BY <1>19 DEF vars, ReadModelInv, SequencesAfter
<1> QED BY <1>1, <1>2, <1>3, <1>4, <1>5, <1>6, <1>7, <1>8, <1>9, <1>10, <1>11, <1>12, <1>13, <1>14, <1>15, <1>16, <1>17, <1>18, <1>19 DEF Next, Work
LEMMA PendingInit == Init => PendingInv
BY DEF Init, PendingInv

LEMMA PendingStep ==
  ASSUME PendingInv, [Next]_vars PROVE PendingInv'
<1> USE DEF database, worker
<1>1. CASE Boot BY <1>1 DEF Boot, PendingInv
<1>2. ASSUME NEW s \in Subscriber, Subscribe(s) PROVE PendingInv'
 BY <1>2 DEF Subscribe, PendingInv
<1>3. ASSUME NEW c \in Caller, NEW command \in Commands, Dispatch(c, command) PROVE PendingInv'
 BY <1>3 DEF Dispatch, PendingInv
<1>4. CASE Take BY <1>4 DEF Take, PendingInv
<1>5. CASE AnswerFromReceipt BY <1>5 DEF AnswerFromReceipt, Settle, PendingInv
<1>6. CASE DecideCommand BY <1>6 DEF DecideCommand, PendingInv
<1>7. CASE LookupFails BY <1>7 DEF LookupFails, Fail, PendingInv
<1>8. CASE Commit BY <1>8 DEF Commit, PendingInv
<1>9. CASE TransactionFails BY <1>9 DEF TransactionFails, PendingInv
<1>10. CASE Install BY <1>10 DEF Install, PendingInv
<1>11. CASE Publish BY <1>11 DEF Publish, PendingInv
<1>12. CASE AnswerAccepted BY <1>12 DEF AnswerAccepted, Settle, PendingInv
<1>13. CASE Reconcile BY <1>13 DEF Reconcile, PendingInv
<1>14. CASE ReconcileFails BY <1>14 DEF ReconcileFails, Fail, PendingInv
<1>15. CASE RecordRejection BY <1>15 DEF RecordRejection, PendingInv
<1>16. CASE RecordRejectionFails BY <1>16 DEF RecordRejectionFails, Fail, PendingInv
<1>17. CASE AnswerFailed BY <1>17 DEF AnswerFailed, Settle, PendingInv
<1>18. CASE Crash BY <1>18 DEF Crash, PendingInv
<1>19. CASE UNCHANGED vars BY <1>19 DEF vars, PendingInv
<1> QED BY <1>1, <1>2, <1>3, <1>4, <1>5, <1>6, <1>7, <1>8, <1>9, <1>10, <1>11, <1>12, <1>13, <1>14, <1>15, <1>16, <1>17, <1>18, <1>19 DEF Next, Work

LEMMA VerdictInit == Init => VerdictInv
BY DEF Init, VerdictInv

LEMMA VerdictStep ==
  ASSUME ReliableReconcile, TypeOK, ReadModelInv, VerdictInv, [Next]_vars PROVE VerdictInv'
<1> USE DEF database, worker
<1>1. CASE Boot BY <1>1 DEF Boot, VerdictInv, Acceptable
<1>2. ASSUME NEW s \in Subscriber, Subscribe(s) PROVE VerdictInv'
 BY <1>2 DEF Subscribe, VerdictInv, Acceptable
<1>3. ASSUME NEW c \in Caller, NEW command \in Commands, Dispatch(c, command) PROVE VerdictInv'
 BY <1>3 DEF Dispatch, VerdictInv, Acceptable
<1>4. CASE Take BY <1>4 DEF Take, VerdictInv, Acceptable
<1>5. CASE AnswerFromReceipt BY <1>5 DEF AnswerFromReceipt, Settle, VerdictInv, Acceptable
<1>6. CASE DecideCommand
 <2>1. readModel = [i \in 1 .. Len(log) |-> i]
  BY <1>6, CommittedPositions DEF DecideCommand, ReadModelInv, TypeOK, DatabaseTypeOK
 <2>2. Acceptable(job.command, log)
          <=> Decide(job.command, ReadModelOf(log, readModel)) # Rejection
  BY <2>1 DEF Acceptable
 <2> QED BY <1>6, <2>2 DEF DecideCommand, VerdictInv, Acceptable
<1>7. CASE LookupFails BY <1>7 DEF LookupFails, Fail, VerdictInv, Acceptable
<1>8. CASE Commit BY <1>8 DEF Commit, VerdictInv, Acceptable
<1>9. CASE TransactionFails BY <1>9 DEF TransactionFails, VerdictInv
<1>10. CASE Install BY <1>10 DEF Install, VerdictInv, Acceptable
<1>11. CASE Publish BY <1>11 DEF Publish, VerdictInv, Acceptable
<1>12. CASE AnswerAccepted BY <1>12 DEF AnswerAccepted, Settle, VerdictInv, Acceptable
<1>13. CASE Reconcile BY <1>13 DEF Reconcile, VerdictInv, Acceptable
<1>14. CASE ReconcileFails
 BY <1>14 DEF ReconcileFails, Fail, ReliableReconcile, VerdictInv, Acceptable
<1>15. CASE RecordRejection BY <1>15 DEF RecordRejection, VerdictInv, Acceptable
<1>16. CASE RecordRejectionFails BY <1>16 DEF RecordRejectionFails, Fail, VerdictInv, Acceptable
<1>17. CASE AnswerFailed BY <1>17 DEF AnswerFailed, Settle, VerdictInv, Acceptable
<1>18. CASE Crash BY <1>18 DEF Crash, VerdictInv, Acceptable
<1>19. CASE UNCHANGED vars BY <1>19 DEF vars, VerdictInv, Acceptable
<1> QED BY <1>1, <1>2, <1>3, <1>4, <1>5, <1>6, <1>7, <1>8, <1>9, <1>10, <1>11, <1>12, <1>13, <1>14, <1>15, <1>16, <1>17, <1>18, <1>19 DEF Next, Work

LEMMA StoreInit == Init => StoreInv
BY DEF Init, StoreInv, ReceiptsMatchLog, CommandsCommitOnce, NoReceipt

\* The transaction keeps store and receipts in step when the command had no receipt.
LEMMA PersistStore ==
  ASSUME DatabaseTypeOK, StoreInv, job.command \in Commands,
    receipts[job.command.id] = NoReceipt, Persist
  PROVE StoreInv'
<1> DEFINE events == EventsOf(job.command)
           id == job.command.id
           last == Len(log) + Len(events)
<1>1. /\ events \in Seq(EventBases) /\ Len(events) \in {1, 2}
      /\ \A i \in 1 .. Len(events) : events[i].command = id /\ events[i].index = i
 BY EventsOfCommand
<1>2. /\ log' = log \o events
      /\ receipts' = [receipts EXCEPT ![id] = [status |-> "accepted", sequence |-> last]]
 BY DEF Persist
<1>3. id \in CommandIds /\ log \in Seq(EventBases) /\ receipts \in [CommandIds -> Receipts]
 BY DEF DatabaseTypeOK, CommandIds
<1>4. \A i \in DOMAIN log :
         log[i].command \in CommandIds /\ log[i].command # id
 BY <1>3, EventBaseCommand DEF StoreInv, ReceiptsMatchLog, NoReceipt
<1> HIDE DEF events, id, last
<1>5. /\ DOMAIN log' = 1 .. last /\ DOMAIN log = 1 .. Len(log) /\ Len(log) \in Nat
      /\ Len(events) \in Nat /\ last \in Nat /\ Len(log) < last
      /\ \A i \in 1 .. Len(log) : log'[i] = log[i]
      /\ \A i \in (Len(log) + 1) .. last : log'[i] = events[i - Len(log)]
                                         /\ i - Len(log) \in 1 .. Len(events)
 <2>1. /\ log' \in Seq(EventBases) /\ Len(log') = Len(log) + Len(events)
       /\ \A i \in 1 .. Len(log') : log'[i] = IF i <= Len(log) THEN log[i]
                                             ELSE events[i - Len(log)]
  BY <1>1, <1>2, <1>3, ConcatProperties
 <2>2. Len(log) \in Nat /\ Len(events) \in Nat /\ Len(events) > 0
  <3>1. Len(events) = 1 \/ Len(events) = 2 BY <1>1
  <3>2. Len(log) \in Nat /\ Len(events) \in Nat BY <1>1, <1>3, LenProperties
  <3>3. Len(events) > 0 BY <3>1, <3>2
  <3> QED BY <3>2, <3>3
 <2> QED BY <1>3, <2>1, <2>2 DEF last
<1>6. \A i \in (Len(log) + 1) .. last :
         log'[i].command = id /\ log'[i].index = i - Len(log)
 BY <1>1, <1>5
<1>7. CommandsCommitOnce'
 <2> SUFFICES ASSUME NEW i \in 1 .. last, NEW j \in 1 .. last,
                     log'[i].command = log'[j].command, log'[i].index = log'[j].index
     PROVE  i = j
  BY <1>5 DEF CommandsCommitOnce
 <2>1. CASE i <= Len(log) /\ j <= Len(log) BY <2>1, <1>5 DEF StoreInv, CommandsCommitOnce
 <2>2. CASE i <= Len(log) /\ j > Len(log)
  <3>1. log'[i].command # id BY <2>2, <1>4, <1>5
  <3>2. log'[j].command = id BY <2>2, <1>5, <1>6
  <3> QED BY <3>1, <3>2
 <2>3. CASE i > Len(log) /\ j <= Len(log)
  <3>1. log'[j].command # id BY <2>3, <1>4, <1>5
  <3>2. log'[i].command = id BY <2>3, <1>5, <1>6
  <3> QED BY <3>1, <3>2
 <2>4. CASE i > Len(log) /\ j > Len(log) BY <2>4, <1>5, <1>6
 <2> QED BY <1>5, <2>1, <2>2, <2>3, <2>4
<1>8. ReceiptsMatchLog'
 <2>1. \A i \in 1 .. last : receipts'[log'[i].command].status = "accepted"
  <3> TAKE i \in 1 .. last
  <3>1. CASE i <= Len(log)
   <4>1. i \in DOMAIN log /\ log'[i] = log[i] BY <3>1, <1>5
   <4>2. receipts[log[i].command].status = "accepted" BY <4>1 DEF StoreInv, ReceiptsMatchLog
   <4> QED BY <1>2, <1>3, <1>4, <4>1, <4>2
  <3>2. CASE i > Len(log) BY <3>2, <1>2, <1>3, <1>5, <1>6
  <3> QED BY <1>5, <3>1, <3>2
 <2>2. ASSUME NEW k \in CommandIds, receipts'[k].status = "accepted"
     PROVE  /\ receipts'[k].sequence \in 1 .. last
            /\ log'[receipts'[k].sequence].command = k
            /\ \A i \in 1 .. last : log'[i].command = k => i <= receipts'[k].sequence
  <3>1. CASE k = id
   <4>1. receipts'[k].sequence = last BY <3>1, <1>2, <1>3
   <4> QED BY <3>1, <4>1, <1>5, <1>6
  <3>2. CASE k # id
   <4>1. receipts'[k] = receipts[k] BY <3>2, <1>2, <1>3
   <4>2. /\ receipts[k].sequence \in DOMAIN log
         /\ log[receipts[k].sequence].command = k
         /\ \A i \in DOMAIN log : log[i].command = k => i <= receipts[k].sequence
    BY <2>2, <4>1 DEF StoreInv, ReceiptsMatchLog
   <4>3. \A i \in 1 .. last : log'[i].command = k =>
            i \in DOMAIN log /\ log[i].command = k
    BY <3>2, <1>5, <1>6
   <4>4. log'[receipts[k].sequence] = log[receipts[k].sequence] BY <4>2, <1>5
   <4>5. receipts[k].sequence \in 1 .. last BY <4>2, <1>5
   <4> QED BY <4>1, <4>2, <4>3, <4>4, <4>5
  <3> QED BY <3>1, <3>2
 <2> QED BY <2>1, <2>2, <1>5 DEF ReceiptsMatchLog
<1> QED BY <1>7, <1>8 DEF StoreInv

LEMMA StoreStep ==
  ASSUME TypeOK, PendingInv, StoreInv, [Next]_vars PROVE StoreInv'
<1> USE DEF database, worker
<1>1. CASE Boot BY <1>1 DEF Boot, StoreInv, ReceiptsMatchLog, CommandsCommitOnce
<1>2. ASSUME NEW s \in Subscriber, Subscribe(s) PROVE StoreInv'
 BY <1>2 DEF Subscribe, StoreInv, ReceiptsMatchLog, CommandsCommitOnce
<1>3. ASSUME NEW c \in Caller, NEW command \in Commands, Dispatch(c, command) PROVE StoreInv'
 BY <1>3 DEF Dispatch, StoreInv, ReceiptsMatchLog, CommandsCommitOnce
<1>4. CASE Take BY <1>4 DEF Take, StoreInv, ReceiptsMatchLog, CommandsCommitOnce
<1>5. CASE AnswerFromReceipt
 BY <1>5 DEF AnswerFromReceipt, Settle, StoreInv, ReceiptsMatchLog, CommandsCommitOnce
<1>6. CASE DecideCommand BY <1>6 DEF DecideCommand, StoreInv, ReceiptsMatchLog, CommandsCommitOnce
<1>7. CASE LookupFails
 BY <1>7 DEF LookupFails, Fail, StoreInv, ReceiptsMatchLog, CommandsCommitOnce
<1>8. CASE Commit
 <2>1. job.command \in Commands /\ receipts[job.command.id] = NoReceipt /\ Persist
  BY <1>8, JobTyped DEF Commit, Working, TypeOK, PendingInv
 <2> QED BY <2>1, PersistStore DEF TypeOK
<1>9. CASE TransactionFails
 <2>1. job.command \in Commands /\ receipts[job.command.id] = NoReceipt
  BY <1>9, JobTyped DEF TransactionFails, Working, TypeOK, PendingInv
 <2>2. CASE Persist BY <2>1, <2>2, PersistStore DEF TypeOK
 <2>3. CASE UNCHANGED database BY <2>3 DEF StoreInv, ReceiptsMatchLog, CommandsCommitOnce
 <2> QED BY <1>9, <2>2, <2>3 DEF TransactionFails
<1>10. CASE Install BY <1>10 DEF Install, StoreInv, ReceiptsMatchLog, CommandsCommitOnce
<1>11. CASE Publish BY <1>11 DEF Publish, StoreInv, ReceiptsMatchLog, CommandsCommitOnce
<1>12. CASE AnswerAccepted
 BY <1>12 DEF AnswerAccepted, Settle, StoreInv, ReceiptsMatchLog, CommandsCommitOnce
<1>13. CASE Reconcile BY <1>13 DEF Reconcile, StoreInv, ReceiptsMatchLog, CommandsCommitOnce
<1>14. CASE ReconcileFails
 BY <1>14 DEF ReconcileFails, Fail, ReliableReconcile, StoreInv, ReceiptsMatchLog, CommandsCommitOnce
<1>15. CASE RecordRejection
 <2>1. /\ job.command.id \in CommandIds /\ receipts[job.command.id] = NoReceipt
       /\ receipts \in [CommandIds -> Receipts] /\ log \in Seq(EventBases)
  BY <1>15, JobTyped DEF RecordRejection, Working, TypeOK, DatabaseTypeOK, PendingInv, CommandIds
 <2>2. \A i \in DOMAIN log :
          log[i].command \in CommandIds /\ log[i].command # job.command.id
  BY <2>1, EventBaseCommand DEF StoreInv, ReceiptsMatchLog, NoReceipt
 <2>3. /\ log' = log
       /\ \A k \in CommandIds : receipts'[k] = IF k = job.command.id
                                 THEN [status |-> "rejected", sequence |-> SnapshotSequence]
                                 ELSE receipts[k]
  BY <1>15, <2>1 DEF RecordRejection
 <2> QED BY <2>1, <2>2, <2>3 DEF StoreInv, ReceiptsMatchLog, CommandsCommitOnce
<1>16. CASE RecordRejectionFails
 BY <1>16 DEF RecordRejectionFails, Fail, StoreInv, ReceiptsMatchLog, CommandsCommitOnce
<1>17. CASE AnswerFailed
 BY <1>17 DEF AnswerFailed, Settle, StoreInv, ReceiptsMatchLog, CommandsCommitOnce
<1>18. CASE Crash BY <1>18 DEF Crash, StoreInv, ReceiptsMatchLog, CommandsCommitOnce
<1>19. CASE UNCHANGED vars BY <1>19 DEF vars, StoreInv, ReceiptsMatchLog, CommandsCommitOnce
<1> QED BY <1>1, <1>2, <1>3, <1>4, <1>5, <1>6, <1>7, <1>8, <1>9, <1>10, <1>11, <1>12, <1>13, <1>14, <1>15, <1>16, <1>17, <1>18, <1>19 DEF Next, Work
--------------------
(* The theorems.                                                            *)
LEMMA RecordInductive == Spec => []RecordInv
<1>1. Init => RecordInv BY TypeInit, PendingInit, StoreInit DEF RecordInv
<1>2. RecordInv /\ [Next]_vars => RecordInv' BY TypeStep, PendingStep, StoreStep DEF RecordInv
<1> QED BY <1>1, <1>2, PTL DEF Spec

\* A command's events are stored at most once and the receipts name them,
\* whatever fails.
THEOREM CommandsAtMostOnce == Spec => [](CommandsCommitOnce /\ ReceiptsMatchLog)
<1>1. RecordInv => CommandsCommitOnce /\ ReceiptsMatchLog BY DEF RecordInv, StoreInv
<1> QED BY <1>1, RecordInductive, PTL

\* A recorded decision never changes.
THEOREM FinalDecisions == Spec => DecisionsAreFinal
<1> DEFINE Final == \A id \in CommandIds : receipts[id] # NoReceipt => receipts'[id] = receipts[id]
<1>1. RecordInv /\ [Next]_vars => [Final]_vars
 <2> SUFFICES ASSUME RecordInv, Next PROVE Final OBVIOUS
 <2> USE DEF database
 <2>0. receipts \in [CommandIds -> Receipts] BY DEF RecordInv, TypeOK, DatabaseTypeOK
 <2>1. CASE Commit
  <3>1. receipts[job.command.id] = NoReceipt BY <2>1 DEF Commit, RecordInv, PendingInv
  <3> QED BY <2>0, <2>1, <3>1 DEF Commit, Persist
 <2>2. CASE TransactionFails
  <3>1. receipts[job.command.id] = NoReceipt BY <2>2 DEF TransactionFails, RecordInv, PendingInv
  <3> QED BY <2>0, <2>2, <3>1 DEF TransactionFails, Persist
 <2>3. CASE RecordRejection
  <3>1. receipts[job.command.id] = NoReceipt BY <2>3 DEF RecordRejection, RecordInv, PendingInv
  <3> QED BY <2>0, <2>3, <3>1 DEF RecordRejection
 <2>4. CASE receipts' = receipts BY <2>4
 <2>5. \/ Commit \/ TransactionFails \/ RecordRejection \/ receipts' = receipts
  BY DEF Next, Work, Boot, Subscribe, Dispatch, Take, AnswerFromReceipt, DecideCommand,
     LookupFails, Install, Publish, AnswerAccepted, Reconcile, ReconcileFails,
     RecordRejectionFails, AnswerFailed, Crash
 <2> QED BY <2>1, <2>2, <2>3, <2>4, <2>5
<1> QED BY <1>1, RecordInductive, PTL DEF Spec, DecisionsAreFinal

LEMMA Inductive ==
  ASSUME ReliableReconcile PROVE Spec => []IInv
<1>1. Init => ReadModelInv /\ VerdictInv BY ReadModelInit, VerdictInit
<1>2. RecordInv /\ ReadModelInv /\ VerdictInv /\ [Next]_vars => (ReadModelInv /\ VerdictInv)'
 BY ReadModelStep, VerdictStep, ReliableReconcile DEF RecordInv
<1> QED BY <1>1, <1>2, RecordInductive, PTL DEF Spec, IInv

\* A command is decided, and its transaction runs, on a read model that has
\* folded exactly the committed events, as long as a failed dispatch can be
\* reconciled.
THEOREM DecisionsOnCommittedState ==
  ASSUME ReliableReconcile PROVE Spec => []DecidesOnCommittedState
<1>1. IInv => DecidesOnCommittedState BY DEF IInv, ReadModelInv, DecidesOnCommittedState
<1> QED BY <1>1, Inductive, PTL

\* The engine implements the ledger of decisions.
THEOREM EngineImplementsLedger ==
  ASSUME ReliableReconcile PROVE Spec => ImplementsLedger
<1>1. Init => Ledger!Init
 BY DEF Init, Ledger!Init, outcome, NoReceipt, CommandIds, Ledger!CommandIds
<1>2. IInv /\ IInv' /\ [Next]_vars => [Ledger!Next]_<<log, outcome>>
 <2> SUFFICES ASSUME IInv, IInv', [Next]_vars
     PROVE  Ledger!Next \/ UNCHANGED <<log, outcome>>
  OBVIOUS
 <2> USE DEF database
 <2>0. receipts \in [CommandIds -> Receipts] BY DEF IInv, RecordInv, TypeOK, DatabaseTypeOK
 <2>1. ASSUME pc = "transaction", Persist PROVE Ledger!Next
  <3>1. /\ job.command \in Commands /\ receipts[job.command.id] = NoReceipt
        /\ Acceptable(job.command, log) /\ job.command.id \in CommandIds
   BY <2>1, JobTyped DEF IInv, RecordInv, PendingInv, VerdictInv, TypeOK, Working, CommandIds
  <3>2. outcome' = [outcome EXCEPT ![job.command.id] = "accepted"]
   BY <2>0, <2>1, <3>1 DEF Persist, outcome
  <3>3. outcome[job.command.id] = "none" BY <3>1 DEF outcome, NoReceipt
  <3>4. log' = log \o EventsOf(job.command) BY <2>1 DEF Persist
  <3> QED BY <3>1, <3>2, <3>3, <3>4 DEF Ledger!Next, Ledger!Accept
 <2>2. CASE Commit BY <2>1, <2>2 DEF Commit
 <2>3. CASE TransactionFails
  <3>1. CASE Persist BY <2>1, <2>3, <3>1 DEF TransactionFails
  <3>2. CASE UNCHANGED database BY <3>2 DEF outcome
  <3> QED BY <2>3, <3>1, <3>2 DEF TransactionFails
 <2>4. CASE RecordRejection
  <3>1. /\ job.command \in Commands /\ receipts[job.command.id] = NoReceipt
        /\ ~Acceptable(job.command, log) /\ job.command.id \in CommandIds
   BY <2>4, JobTyped
     DEF RecordRejection, IInv, RecordInv, PendingInv, VerdictInv, TypeOK, Working, CommandIds
  <3>2. outcome' = [outcome EXCEPT ![job.command.id] = "rejected"]
   BY <2>0, <2>4, <3>1 DEF RecordRejection, outcome
  <3>3. outcome[job.command.id] = "none" BY <3>1 DEF outcome, NoReceipt
  <3> QED BY <2>4, <3>1, <3>2, <3>3 DEF RecordRejection, Ledger!Next, Ledger!Reject
 <2>5. CASE UNCHANGED <<log, receipts>> BY <2>5 DEF outcome
 <2>6. \/ Commit \/ TransactionFails \/ RecordRejection \/ UNCHANGED <<log, receipts>>
  BY DEF Next, Work, Boot, Subscribe, Dispatch, Take, AnswerFromReceipt, DecideCommand,
     LookupFails, Install, Publish, AnswerAccepted, Reconcile, ReconcileFails,
     RecordRejectionFails, AnswerFailed, Crash, vars
 <2> QED BY <2>2, <2>3, <2>4, <2>5, <2>6
<1>3. Spec => []IInv BY Inductive, ReliableReconcile
<1> QED BY <1>1, <1>2, <1>3, PTL DEF Spec, ImplementsLedger, Ledger!Spec

--------------------
(* What the command engine tells the outside: the events it publishes and   *)
(* the answers it gives, as long as a failed dispatch can be reconciled.    *)
\* The sequence of the last event that was published.
Announced == IF pc = "reconcile" THEN start ELSE Len(log) - Len(unpublished)

(* What is still to be published is the end of the log.                     *)
OwedInv ==
    /\ projected = Len(log)
    /\ Len(unpublished) <= Len(log)
    /\ \A i \in 1 .. Len(unpublished) : unpublished[i] = Len(log) - Len(unpublished) + i

(* What a subscriber has is a part of the log that ends where publication   *)
(* stands.                                                                  *)
InboxInv ==
    \A s \in Subscriber :
        inbox[s] # NotSubscribed =>
            /\ pc # "down"
            /\ \A i \in 1 .. Len(inbox[s]) : inbox[s][i] = Announced - Len(inbox[s]) + i

DeliveryInv == OwedInv /\ InboxInv

(* Every envelope belongs to a caller of its own that awaits its command.   *)
EnvelopeInv ==
    /\ \A i \in DOMAIN queue : /\ call[queue[i].caller].status = "waiting"
                               /\ call[queue[i].caller].command = queue[i].command
    /\ \A i, j \in DOMAIN queue : queue[i].caller = queue[j].caller => i = j
    /\ job # NoJob => /\ call[job.caller].status = "waiting"
                      /\ call[job.caller].command = job.command
                      /\ \A i \in DOMAIN queue : queue[i].caller # job.caller

(* The command of a transaction that is kept has an accepted receipt.       *)
AcceptedInv == pc \in {"install", "publish"} => receipts[job.command.id].status = "accepted"

AnswerInv == EnvelopeInv /\ AcceptedInv /\ AnswersAreVisible

--------------------
(* Sequences of consecutive numbers.                                        *)
(* One that ends in a, and what follows when a + 1 is added.                *)
LEMMA Consecutive ==
  ASSUME NEW q \in Seq(Nat), NEW a \in Nat,
    \A i \in 1 .. Len(q) : q[i] = a - Len(q) + i
  PROVE /\ \A i \in 1 .. (Len(q) - 1) : q[i + 1] = q[i] + 1
        /\ q # << >> => Last(q) = a
        /\ \A i \in 1 .. Len(q) : q[i] <= a
        /\ \A i \in 1 .. Len(Append(q, a + 1)) :
              Append(q, a + 1)[i] = (a + 1) - Len(Append(q, a + 1)) + i
<1> DEFINE n == Len(q)
           longer == Append(q, a + 1)
<1>1. n \in Nat OBVIOUS
<1>2. /\ Len(longer) = n + 1 /\ longer[n + 1] = a + 1
      /\ \A i \in 1 .. n : longer[i] = q[i]
 OBVIOUS
<1>3. \A i \in 1 .. n : q[i] = a - n + i OBVIOUS
<1>4. q # << >> => n \in 1 .. n OBVIOUS
<1>5. Last(q) = q[n] BY DEF Last
<1> HIDE DEF n, longer
<1>6. \A i \in 1 .. (n - 1) : q[i + 1] = q[i] + 1 BY <1>1, <1>3
<1>7. q # << >> => Last(q) = a BY <1>1, <1>3, <1>4, <1>5
<1>8. \A i \in 1 .. n : q[i] <= a BY <1>1, <1>3
<1>9. ASSUME NEW i \in 1 .. Len(longer) PROVE longer[i] = (a + 1) - Len(longer) + i
 <2>1. CASE i \in 1 .. n BY <1>1, <1>2, <1>3, <2>1
 <2>2. CASE i = n + 1 BY <1>1, <1>2, <2>2
 <2> QED BY <1>1, <1>2, <2>1, <2>2
<1> QED BY <1>6, <1>7, <1>8, <1>9 DEF n, longer

(* One that counts to n, as the read model does.                            *)
LEMMA CountingTo ==
  ASSUME NEW n \in Nat, readModel = [j \in 1 .. n |-> j] PROVE SnapshotSequence = n
<1>1. Len(readModel) = n /\ readModel \in Seq(Nat) OBVIOUS
<1>2. CASE n = 0 BY <1>1, <1>2 DEF SnapshotSequence
<1>3. CASE n > 0
 <2>1. readModel # << >> /\ n \in 1 .. n BY <1>1, <1>3
 <2>2. readModel[n] = n BY <2>1
 <2> QED BY <1>1, <2>1, <2>2 DEF SnapshotSequence, Last
<1> QED BY <1>2, <1>3

(* The beginning of one that counts to n.                                   *)
LEMMA CountingPrefix ==
  ASSUME NEW q \in Seq(Nat), NEW r \in Seq(Nat), NEW n \in Nat,
    q \o r = [j \in 1 .. n |-> j]
  PROVE /\ Len(q) \in Nat /\ Len(q) + Len(r) = n
        /\ q = [j \in 1 .. Len(q) |-> j]
<1>1. /\ Len(q \o r) = Len(q) + Len(r) /\ Len(q) \in Nat /\ Len(r) \in Nat
      /\ \A j \in 1 .. Len(q) : (q \o r)[j] = q[j]
 <2> DEFINE a == Len(q)
            b == Len(r)
            both == q \o r
 <2>1. a \in Nat /\ b \in Nat OBVIOUS
 <2>2. /\ Len(both) = a + b
       /\ \A i \in 1 .. (a + b) : both[i] = IF i <= a THEN q[i] ELSE r[i - a]
  BY ZenonT(30), ConcatProperties
 <2> HIDE DEF a, b, both
 <2>3. \A j \in 1 .. a : j \in 1 .. (a + b) /\ j <= a BY <2>1
 <2>4. \A j \in 1 .. a : both[j] = q[j] BY <2>2, <2>3
 <2> QED BY <2>1, <2>2, <2>4 DEF a, b, both
<1>2. Len(q \o r) = n OBVIOUS
<1>3. \A j \in 1 .. Len(q) : q[j] = j
 <2> SUFFICES ASSUME NEW j \in 1 .. Len(q) PROVE q[j] = j OBVIOUS
 <2>1. j \in 1 .. n BY <1>1, <1>2
 <2> QED BY <1>1, <2>1
<1>4. DOMAIN q = 1 .. Len(q) /\ q = [j \in DOMAIN q |-> q[j]] OBVIOUS
<1> QED BY <1>1, <1>2, <1>3, <1>4

--------------------
(* Publication.                                                             *)
(* What a transaction that is kept adds to the database.                    *)
LEMMA PersistAppends ==
  ASSUME TypeOK, pc = "transaction", Persist
  PROVE \E n \in Nat \ {0} :
           /\ n = Len(EventsOf(job.command))
           /\ Len(log') = Len(log) + n /\ projected' = Len(log')
           /\ \A i \in DOMAIN log : i \in DOMAIN log' /\ log'[i] = log[i]
           /\ receipts' = [receipts EXCEPT ![job.command.id] =
                              [status |-> "accepted", sequence |-> Len(log')]]
<1> DEFINE events == EventsOf(job.command)
<1>1. events \in Seq(EventBases) /\ Len(events) \in {1, 2}
 BY JobTyped, EventsOfCommand DEF Working, TypeOK
<1>2. /\ log' = log \o events
      /\ projected' = Len(log) + Len(events)
      /\ receipts' = [receipts EXCEPT ![job.command.id] =
                         [status |-> "accepted", sequence |-> Len(log) + Len(events)]]
 BY DEF Persist
<1>3. log \in Seq(EventBases) BY DEF TypeOK, DatabaseTypeOK
<1> HIDE DEF events
<1>4. Len(events) \in Nat \ {0} BY <1>1
<1>5. Len(log') = Len(log) + Len(events) BY <1>1, <1>2, <1>3
<1>6. \A i \in DOMAIN log : i \in DOMAIN log' /\ log'[i] = log[i] BY <1>1, <1>2, <1>3
<1> QED BY <1>2, <1>4, <1>5, <1>6 DEF events

(* At first nothing is stored and nothing owed.                             *)
LEMMA DeliveryInit == Init => DeliveryInv
<1> SUFFICES ASSUME Init PROVE DeliveryInv OBVIOUS
<1>1. Len(log) = 0 /\ Len(unpublished) = 0 /\ projected = 0 BY DEF Init
<1>2. OwedInv BY <1>1 DEF OwedInv
<1>3. InboxInv BY DEF Init, InboxInv
<1> QED BY <1>2, <1>3 DEF DeliveryInv

(* Every step keeps what is owed the end of the log.                        *)
LEMMA OwedStep ==
  ASSUME TypeOK, ReadModelInv, OwedInv, [Next]_vars PROVE OwedInv'
<1> USE DEF database, worker
<1>0. /\ log \in Seq(EventBases) /\ Len(log) \in Nat /\ start \in Nat
      /\ unpublished \in Seq(Nat) /\ Len(unpublished) \in Nat
 BY DEF TypeOK, DatabaseTypeOK, WorkerTypeOK, MemoryTypeOK
<1>1. CASE Boot BY <1>1 DEF Boot, OwedInv
<1>2. CASE UNCHANGED <<log, projected, unpublished>> BY <1>2 DEF OwedInv
<1>3. CASE Commit
 <2>1. PICK n \in Nat \ {0} : /\ n = Len(EventsOf(job.command))
                              /\ Len(log') = Len(log) + n /\ projected' = Len(log')
  BY <1>3, PersistAppends DEF Commit
 <2>2. unpublished' = [i \in 1 .. n |-> Len(log) + i] BY <1>3, <2>1 DEF Commit
 <2>3. Len(unpublished') = n BY <2>2
 <2> QED BY <1>0, <2>1, <2>2, <2>3 DEF OwedInv
<1>4. CASE TransactionFails
 <2>1. unpublished' = << >> /\ Len(unpublished') = 0 BY <1>4 DEF TransactionFails, ReadModelInv
 <2>2. projected' = Len(log') /\ Len(log') \in Nat
  <3>1. CASE Persist BY <1>0, <1>4, <3>1, PersistAppends DEF TransactionFails
  <3>2. CASE UNCHANGED database BY <1>0, <3>2 DEF OwedInv
  <3> QED BY <1>4, <3>1, <3>2 DEF TransactionFails
 <2> QED BY <2>1, <2>2 DEF OwedInv
<1>5. CASE Publish
 <2>1. /\ unpublished # << >> /\ unpublished' = Tail(unpublished)
       /\ UNCHANGED <<log, projected>>
  BY <1>5 DEF Publish
 <2>2. /\ Len(unpublished') = Len(unpublished) - 1
       /\ \A i \in 1 .. Len(unpublished') : unpublished'[i] = unpublished[i + 1]
  BY <1>0, <2>1
 <2> QED BY <1>0, <2>1, <2>2 DEF OwedInv
<1>6. CASE Reconcile
 <2>1. /\ unpublished' = [i \in 1 .. (Len(log) - start) |-> start + i]
       /\ UNCHANGED <<log, projected>> /\ start <= Len(log)
  BY <1>6 DEF Reconcile, ReadModelInv, SequencesAfter
 <2>2. Len(unpublished') = Len(log) - start BY <1>0, <2>1
 <2> QED BY <1>0, <2>1, <2>2 DEF OwedInv
<1>7. CASE Crash
 <2>1. unpublished' = << >> /\ Len(unpublished') = 0 /\ UNCHANGED <<log, projected>>
  BY <1>7 DEF Crash
 <2> QED BY <1>0, <2>1 DEF OwedInv
<1>8. CASE UNCHANGED vars BY <1>2, <1>8 DEF vars
<1>9. \/ Boot \/ Commit \/ TransactionFails \/ Publish \/ Reconcile \/ Crash
      \/ UNCHANGED <<log, projected, unpublished>>
 BY <1>8 DEF Next, Work, vars, Subscribe, Dispatch, Take, AnswerFromReceipt, DecideCommand,
     LookupFails, Install, AnswerAccepted, ReconcileFails, RecordRejection, RecordRejectionFails,
     AnswerFailed, Settle
<1> QED BY <1>1, <1>2, <1>3, <1>4, <1>5, <1>6, <1>7, <1>9

(* Every step that leaves the inboxes alone leaves publication where it is. *)
LEMMA AnnouncedStep ==
  ASSUME ReliableReconcile, TypeOK, ReadModelInv, OwedInv, [Next]_vars,
    pc # "down", ~Publish, ~Crash
  PROVE Announced' = Announced /\ pc' # "down"
<1> USE DEF database, worker
<1>0. /\ log \in Seq(EventBases) /\ Len(log) \in Nat /\ start \in Nat
      /\ unpublished \in Seq(Nat) /\ Len(unpublished) \in Nat
 BY DEF TypeOK, DatabaseTypeOK, WorkerTypeOK, MemoryTypeOK
<1>1. CASE Commit
 <2>1. PICK n \in Nat \ {0} : n = Len(EventsOf(job.command)) /\ Len(log') = Len(log) + n
  BY <1>1, PersistAppends DEF Commit
 <2>2. unpublished' = [i \in 1 .. n |-> Len(log) + i] /\ pc' = "install" /\ pc = "transaction"
  BY <1>1, <2>1 DEF Commit
 <2>3. Len(unpublished') = n /\ Len(unpublished) = 0 BY <2>2 DEF ReadModelInv
 <2> QED BY <1>0, <2>1, <2>2, <2>3 DEF Announced
<1>2. CASE TransactionFails BY <1>0, <1>2 DEF TransactionFails, ReadModelInv, Announced
<1>3. CASE DecideCommand \/ LookupFails
 <2>1. /\ pc = "lookup" /\ pc' \in {"reconcile", "transaction"}
       /\ UNCHANGED <<log, start, unpublished>>
  BY <1>3 DEF DecideCommand, LookupFails
 <2>2. Len(unpublished) = 0 /\ start = Len(log) BY <2>1 DEF ReadModelInv
 <2> QED BY <1>0, <2>1, <2>2 DEF Announced
<1>4. CASE Reconcile
 <2>1. /\ unpublished' = [i \in 1 .. (Len(log) - start) |-> start + i] /\ log' = log
       /\ start <= Len(log) /\ pc = "reconcile" /\ pc' = "republish"
  BY <1>4 DEF Reconcile, ReadModelInv, SequencesAfter
 <2>2. Len(unpublished') = Len(log) - start BY <1>0, <2>1
 <2> QED BY <1>0, <2>1, <2>2 DEF Announced
<1>5. CASE ReconcileFails BY <1>5 DEF ReconcileFails, Fail, ReliableReconcile
<1>6. CASE /\ UNCHANGED <<log, unpublished>>
           /\ pc # "reconcile" /\ pc' # "reconcile" /\ pc' # "down"
 BY <1>6 DEF Announced
<1>7. CASE UNCHANGED <<log, unpublished, start, pc>> BY <1>7 DEF Announced
<1>8. \/ Commit \/ TransactionFails \/ DecideCommand \/ LookupFails \/ Reconcile \/ ReconcileFails
      \/ /\ UNCHANGED <<log, unpublished>>
         /\ pc # "reconcile" /\ pc' # "reconcile" /\ pc' # "down"
      \/ UNCHANGED <<log, unpublished, start, pc>>
 BY DEF Next, Work, vars, Boot, Subscribe, Dispatch, Take, AnswerFromReceipt, Install,
     AnswerAccepted, RecordRejection, RecordRejectionFails, AnswerFailed, Settle
<1> QED BY <1>1, <1>2, <1>3, <1>4, <1>5, <1>6, <1>7, <1>8

(* Every step keeps the inboxes parts of the log.                           *)
LEMMA InboxStep ==
  ASSUME ReliableReconcile, TypeOK, ReadModelInv, OwedInv, InboxInv, [Next]_vars PROVE InboxInv'
<1> USE DEF database, worker
<1>0. /\ log \in Seq(EventBases) /\ Len(log) \in Nat /\ start \in Nat
      /\ unpublished \in Seq(Nat) /\ Len(unpublished) \in Nat
      /\ inbox \in [Subscriber -> Seq(Nat)]
 BY DEF TypeOK, DatabaseTypeOK, WorkerTypeOK, MemoryTypeOK
<1>1. CASE Crash BY <1>1 DEF Crash, InboxInv
<1>2. CASE pc = "down"
 <2>1. \A s \in Subscriber : inbox[s] = NotSubscribed BY <1>2 DEF InboxInv
 <2>2. CASE Boot BY <2>1, <2>2 DEF Boot, InboxInv
 <2>3. CASE UNCHANGED vars BY <2>1, <2>3 DEF vars, InboxInv
 <2>4. Boot \/ UNCHANGED vars
  BY <1>2 DEF Next, Work, Subscribe, Dispatch, Take, AnswerFromReceipt, DecideCommand,
     LookupFails, Commit, TransactionFails, Install, Publish, AnswerAccepted, Reconcile,
     ReconcileFails, RecordRejection, RecordRejectionFails, AnswerFailed, Crash
 <2> QED BY <2>2, <2>3, <2>4
<1>3. CASE Publish
 <2>1. /\ pc \in {"publish", "republish"} /\ unpublished # << >>
       /\ unpublished' = Tail(unpublished) /\ UNCHANGED <<log, pc, start>>
       /\ inbox' = [s \in Subscriber |-> IF inbox[s] = NotSubscribed THEN NotSubscribed
                                         ELSE Append(inbox[s], Head(unpublished))]
  BY <1>3 DEF Publish
 <2>2. /\ Len(unpublished') = Len(unpublished) - 1
       /\ Head(unpublished) = unpublished[1] /\ Len(unpublished) >= 1
  BY <1>0, <2>1
 <2>3. /\ Announced \in Nat /\ Announced' = Announced + 1
       /\ Head(unpublished) = Announced + 1
  BY <1>0, <2>1, <2>2 DEF Announced, OwedInv
 <2> SUFFICES ASSUME NEW s \in Subscriber, inbox'[s] # NotSubscribed
     PROVE  /\ pc' # "down"
            /\ \A i \in 1 .. Len(inbox'[s]) :
                  inbox'[s][i] = Announced' - Len(inbox'[s]) + i
  BY DEF InboxInv
 <2>4. inbox[s] # NotSubscribed /\ inbox'[s] = Append(inbox[s], Head(unpublished)) BY <2>1
 <2>5. /\ inbox[s] \in Seq(Nat) /\ Head(unpublished) \in Nat
       /\ \A i \in 1 .. Len(inbox[s]) : inbox[s][i] = Announced - Len(inbox[s]) + i
  BY <1>0, <2>3, <2>4 DEF InboxInv
 <2>6. inbox'[s] = Append(inbox[s], Announced + 1) BY <2>3, <2>4
 <2> HIDE DEF Announced
 <2>7. \A i \in 1 .. Len(Append(inbox[s], Announced + 1)) :
          Append(inbox[s], Announced + 1)[i]
             = (Announced + 1) - Len(Append(inbox[s], Announced + 1)) + i
  BY <2>3, <2>5, Consecutive
 <2> QED BY <2>1, <2>3, <2>6, <2>7
<1>4. CASE pc # "down" /\ ~Publish /\ ~Crash
 <2>1. Announced' = Announced /\ pc' # "down" BY <1>4, AnnouncedStep
 <2>2. ASSUME NEW s \in Subscriber, Subscribe(s) PROVE InboxInv'
  BY <1>0, <2>1, <2>2 DEF Subscribe, InboxInv
 <2>3. CASE UNCHANGED inbox BY <2>1, <2>3 DEF InboxInv
 <2>4. (\E s \in Subscriber : Subscribe(s)) \/ UNCHANGED inbox
  BY <1>4 DEF Next, Work, vars, Boot, Dispatch, Take, AnswerFromReceipt, DecideCommand,
     LookupFails, Commit, TransactionFails, Install, AnswerAccepted, Reconcile, ReconcileFails,
     RecordRejection, RecordRejectionFails, AnswerFailed
 <2> QED BY <2>2, <2>3, <2>4
<1> QED BY <1>1, <1>2, <1>3, <1>4

(* What is published is always the next part of the log.                    *)
LEMMA DeliveryInductive ==
  ASSUME ReliableReconcile PROVE Spec => [](IInv /\ DeliveryInv)
<1>1. Init => DeliveryInv BY DeliveryInit
<1>2. IInv /\ DeliveryInv /\ [Next]_vars => DeliveryInv'
 BY ReliableReconcile, OwedStep, InboxStep DEF IInv, RecordInv, DeliveryInv
<1> QED BY <1>1, <1>2, Inductive, PTL DEF Spec

\* Every subscriber receives the events that follow its subscription without
\* gap or repetition, and all of them by the time the worker is idle.
THEOREM EventsWithoutGaps ==
  ASSUME ReliableReconcile PROVE Spec => []DeliveredWithoutGaps
<1>1. IInv /\ DeliveryInv => DeliveredWithoutGaps
 <2> SUFFICES ASSUME IInv, DeliveryInv, NEW s \in Subscriber
     PROVE  /\ \A i \in 1 .. (Len(inbox[s]) - 1) : inbox[s][i + 1] = inbox[s][i] + 1
            /\ pc = "idle" /\ inbox[s] \notin {NotSubscribed, << >>} =>
                  Last(inbox[s]) = Len(log)
  BY DEF DeliveredWithoutGaps
 <2>0. /\ inbox[s] \in Seq(Nat) /\ Len(log) \in Nat /\ start \in Nat
       /\ Len(unpublished) \in Nat
  BY DEF IInv, RecordInv, TypeOK, MemoryTypeOK, DatabaseTypeOK, WorkerTypeOK
 <2>1. CASE inbox[s] = NotSubscribed
  <3>1. Len(inbox[s]) = 1 BY <2>1 DEF NotSubscribed
  <3> QED BY <2>1, <3>1
 <2>2. CASE inbox[s] # NotSubscribed
  <3>1. \A i \in 1 .. Len(inbox[s]) : inbox[s][i] = Announced - Len(inbox[s]) + i
   BY <2>2 DEF DeliveryInv, InboxInv
  <3>2. Announced \in Nat BY <2>0 DEF Announced, DeliveryInv, OwedInv
  <3>3. pc = "idle" => Announced = Len(log)
   <4>1. pc = "idle" => unpublished = << >> BY DEF IInv, ReadModelInv
   <4> QED BY <2>0, <4>1 DEF Announced
  <3> HIDE DEF Announced
  <3>4. /\ \A i \in 1 .. (Len(inbox[s]) - 1) : inbox[s][i + 1] = inbox[s][i] + 1
        /\ inbox[s] # << >> => Last(inbox[s]) = Announced
   BY <2>0, <3>1, <3>2, Consecutive
  <3> QED BY <3>3, <3>4
 <2> QED BY <2>1, <2>2
<1> QED BY <1>1, DeliveryInductive, PTL

\* A subscriber is never ahead of the read model, nor of the projections.
THEOREM EventsAreCovered ==
  ASSUME ReliableReconcile PROVE Spec => []ReadModelCoversDelivered
<1>1. IInv /\ DeliveryInv => ReadModelCoversDelivered
 <2> SUFFICES ASSUME IInv, DeliveryInv, NEW s \in Subscriber, inbox[s] # NotSubscribed,
                     NEW i \in DOMAIN inbox[s]
     PROVE  inbox[s][i] <= SnapshotSequence /\ inbox[s][i] <= projected
  BY DEF ReadModelCoversDelivered
 <2>0. /\ inbox[s] \in Seq(Nat) /\ log \in Seq(EventBases) /\ Len(log) \in Nat
       /\ start \in Nat /\ unpublished \in Seq(Nat) /\ Len(unpublished) \in Nat
       /\ readModel \in Seq(Nat)
  BY DEF IInv, RecordInv, TypeOK, MemoryTypeOK, DatabaseTypeOK, WorkerTypeOK
 <2>1. /\ pc # "down"
       /\ \A j \in 1 .. Len(inbox[s]) : inbox[s][j] = Announced - Len(inbox[s]) + j
  BY DEF DeliveryInv, InboxInv
 <2>2. Announced \in Nat /\ Announced <= Len(log)
  BY <2>0 DEF Announced, DeliveryInv, OwedInv, IInv, ReadModelInv
 <2>3. inbox[s][i] <= Announced
  <3> HIDE DEF Announced
  <3>1. i \in 1 .. Len(inbox[s]) BY <2>0
  <3> QED BY <2>0, <2>1, <2>2, <3>1, Consecutive
 <2>4. Announced <= SnapshotSequence /\ SnapshotSequence \in Nat
  <3>1. CASE pc = "install"
   <4>1. readModel \o unpublished = [j \in 1 .. Len(log) |-> j]
    BY <2>0, <3>1, CommittedPositions DEF IInv, ReadModelInv
   <4>2. /\ Len(readModel) \in Nat /\ Len(readModel) + Len(unpublished) = Len(log)
         /\ readModel = [j \in 1 .. Len(readModel) |-> j]
    BY <2>0, <4>1, CountingPrefix
   <4>3. SnapshotSequence = Len(readModel) BY <4>2, CountingTo
   <4> QED BY <2>0, <3>1, <4>2, <4>3 DEF Announced
  <3>2. CASE pc = "reconcile"
   <4>1. readModel = [j \in 1 .. start |-> j] BY <3>2 DEF IInv, ReadModelInv
   <4>2. SnapshotSequence = start BY <2>0, <4>1, CountingTo
   <4> QED BY <2>0, <3>2, <4>2 DEF Announced
  <3>3. CASE pc \notin {"install", "reconcile"}
   <4>1. readModel = SequencesAfter(0)
    BY <2>1, <3>3 DEF IInv, RecordInv, TypeOK, WorkerTypeOK, Working, ReadModelInv
   <4>2. SnapshotSequence = Len(log) BY <2>0, <4>1, CommittedPositions
   <4> QED BY <2>0, <2>2, <4>2
  <3> QED BY <3>1, <3>2, <3>3
 <2>5. projected = Len(log) BY DEF DeliveryInv, OwedInv
 <2>6. inbox[s][i] \in Nat BY <2>0
 <2> QED BY <2>0, <2>2, <2>3, <2>4, <2>5, <2>6
<1> QED BY <1>1, DeliveryInductive, PTL

--------------------
(* Answers.                                                                 *)
(* At first nobody waits.                                                   *)
LEMMA AnswerInit == Init => AnswerInv
BY DEF Init, AnswerInv, EnvelopeInv, AcceptedInv, AnswersAreVisible, Idle

(* The caller that is answered had the only envelope of its own.            *)
LEMMA SettleAnswers ==
  ASSUME TypeOK, EnvelopeInv, pc \in Working, NEW status, NEW sequence,
    status \in {"accepted", "rejected", "failed"},
    Settle(status, sequence), UNCHANGED queue
  PROVE /\ EnvelopeInv'
        /\ job.caller \in Caller /\ call[job.caller].command = job.command
        /\ \A c \in Caller \ {job.caller} : call'[c] = call[c]
        /\ call'[job.caller].status = status /\ call'[job.caller].sequence = sequence
        /\ call'[job.caller].command = job.command
<1>1. job.caller \in Caller /\ job # NoJob BY JobTyped DEF TypeOK, WorkerTypeOK
<1>2. /\ job' = NoJob
      /\ call' = [call EXCEPT ![job.caller].status = status, ![job.caller].sequence = sequence]
 BY DEF Settle
<1>3. call \in [Caller -> Calls] BY DEF TypeOK
<1>4. \A i \in DOMAIN queue : queue[i].caller \in Caller
 <2>1. \A i \in DOMAIN queue : queue[i] \in Envelopes BY DEF TypeOK, MemoryTypeOK
 <2> QED BY <2>1 DEF Envelopes
<1>5. /\ \A c \in Caller \ {job.caller} : call'[c] = call[c]
      /\ call'[job.caller].status = status /\ call'[job.caller].sequence = sequence
      /\ call'[job.caller].command = call[job.caller].command
 BY <1>1, <1>2, <1>3 DEF Calls
<1>6. EnvelopeInv'
 <2>1. \A i \in DOMAIN queue : queue[i].caller \in Caller \ {job.caller}
  BY <1>1, <1>4 DEF EnvelopeInv
 <2>2. \A i \in DOMAIN queue : call'[queue[i].caller] = call[queue[i].caller] BY <1>5, <2>1
 <2>3. queue' = queue /\ job' = NoJob BY <1>2
 <2> QED BY <2>2, <2>3 DEF EnvelopeInv
<1> QED BY <1>1, <1>5, <1>6 DEF EnvelopeInv

(* Every step keeps an envelope of its own for each waiting caller.         *)
LEMMA EnvelopeStep ==
  ASSUME TypeOK, EnvelopeInv, [Next]_vars PROVE EnvelopeInv'
<1> USE DEF database, worker
<1>0. /\ queue \in Seq(Envelopes) /\ call \in [Caller -> Calls]
      /\ job \in Envelopes \cup {NoJob}
 BY DEF TypeOK, MemoryTypeOK, WorkerTypeOK
<1>1. ASSUME NEW c \in Caller, NEW command \in Commands, Dispatch(c, command)
    PROVE  EnvelopeInv'
 <2> DEFINE envelope == [caller |-> c, command |-> command]
            made == [status |-> "waiting", command |-> command, sequence |-> 0]
 <2>1. /\ call[c].status # "waiting" /\ job' = job
       /\ queue' = Append(queue, envelope)
       /\ call' = [call EXCEPT ![c] = made]
  BY <1>1 DEF Dispatch
 <2>2. /\ \A i \in DOMAIN queue' : \/ i \in DOMAIN queue /\ queue'[i] = queue[i]
                                   \/ i = Len(queue) + 1 /\ queue'[i] = envelope
       /\ Len(queue) + 1 \notin DOMAIN queue
  BY <1>0, <2>1
 <2>3. \A i \in DOMAIN queue : queue[i].caller # c /\ queue[i].caller \in Caller
  <3>1. \A i \in DOMAIN queue : queue[i] \in Envelopes BY <1>0
  <3> QED BY <2>1, <3>1 DEF EnvelopeInv, Envelopes
 <2>4. call'[c] = made /\ \A d \in Caller \ {c} : call'[d] = call[d] BY <1>0, <2>1
 <2>5. job # NoJob => job.caller # c /\ job.caller \in Caller
  BY <1>0, <2>1 DEF EnvelopeInv, Envelopes
 <2>6. envelope.caller = c /\ envelope.command = command OBVIOUS
 <2>7. made.status = "waiting" /\ made.command = command OBVIOUS
 <2> HIDE DEF envelope, made
 <2>8. \A i \in DOMAIN queue' : /\ call'[queue'[i].caller].status = "waiting"
                                /\ call'[queue'[i].caller].command = queue'[i].command
  BY <2>2, <2>3, <2>4, <2>6, <2>7 DEF EnvelopeInv
 <2>9. \A i, j \in DOMAIN queue' : queue'[i].caller = queue'[j].caller => i = j
  BY <2>2, <2>3, <2>6 DEF EnvelopeInv
 <2>10. job' # NoJob => /\ call'[job'.caller].status = "waiting"
                        /\ call'[job'.caller].command = job'.command
                        /\ \A i \in DOMAIN queue' : queue'[i].caller # job'.caller
  BY <2>1, <2>2, <2>4, <2>5, <2>6 DEF EnvelopeInv
 <2> QED BY <2>8, <2>9, <2>10 DEF EnvelopeInv
<1>2. CASE Take
 <2>1. /\ queue # << >> /\ job' = Head(queue) /\ queue' = Tail(queue) /\ call' = call
  BY <1>2 DEF Take
 <2>2. /\ 1 \in DOMAIN queue /\ job' = queue[1]
       /\ \A i \in DOMAIN queue' : i + 1 \in DOMAIN queue /\ queue'[i] = queue[i + 1] /\ i + 1 # 1
  BY <1>0, <2>1
 <2>3. \A i, j \in DOMAIN queue' : i + 1 = j + 1 => i = j BY <1>0, <2>1
 <2> QED BY <2>1, <2>2, <2>3 DEF EnvelopeInv
<1>3. CASE AnswerFromReceipt
 <2>1. PICK status, sequence : /\ status \in {"accepted", "rejected"}
                               /\ Settle(status, sequence) /\ UNCHANGED queue
  BY <1>3 DEF AnswerFromReceipt
 <2> QED BY <1>3, <2>1, SettleAnswers DEF AnswerFromReceipt, Working
<1>4. CASE AnswerAccepted BY <1>4, SettleAnswers DEF AnswerAccepted, Working
<1>5. CASE AnswerFailed
 <2>1. PICK status \in {"rejected", "failed"} : Settle(status, 0) /\ UNCHANGED queue
  BY <1>5 DEF AnswerFailed
 <2> QED BY <1>5, <2>1, SettleAnswers DEF AnswerFailed, Working
<1>6. CASE Crash
 <2>1. queue' = << >> /\ DOMAIN queue' = {} /\ job' = NoJob BY <1>6 DEF Crash
 <2> QED BY <2>1 DEF EnvelopeInv
<1>7. CASE UNCHANGED <<queue, job, call>> BY <1>7 DEF EnvelopeInv
<1>8. \/ \E c \in Caller, command \in Commands : Dispatch(c, command)
      \/ Take \/ AnswerFromReceipt \/ AnswerAccepted \/ AnswerFailed \/ Crash
      \/ UNCHANGED <<queue, job, call>>
 BY DEF Next, Work, vars, Boot, Subscribe, DecideCommand, LookupFails, Commit, TransactionFails,
     Install, Publish, Reconcile, ReconcileFails, RecordRejection, RecordRejectionFails
<1> QED BY <1>1, <1>2, <1>3, <1>4, <1>5, <1>6, <1>7, <1>8

(* Every step keeps the receipt of a command that was committed.            *)
LEMMA AcceptedStep ==
  ASSUME TypeOK, AcceptedInv, [Next]_vars PROVE AcceptedInv'
<1> USE DEF database, worker
<1>0. receipts \in [CommandIds -> Receipts] BY DEF TypeOK, DatabaseTypeOK
<1>1. CASE Commit
 <2>1. job.command.id \in CommandIds BY <1>1, JobTyped DEF Commit, Working, TypeOK, CommandIds
 <2> QED BY <1>0, <1>1, <2>1 DEF Commit, Persist, AcceptedInv
<1>2. CASE UNCHANGED <<receipts, job>> /\ (pc' \in {"install", "publish"} => pc \in {"install", "publish"})
 BY <1>2 DEF AcceptedInv
<1>3. CASE pc' \notin {"install", "publish"} BY <1>3 DEF AcceptedInv
<1>4. \/ Commit
      \/ UNCHANGED <<receipts, job>> /\ (pc' \in {"install", "publish"} => pc \in {"install", "publish"})
      \/ pc' \notin {"install", "publish"}
 BY DEF Next, Work, vars, Boot, Subscribe, Dispatch, Take, AnswerFromReceipt, DecideCommand,
     LookupFails, TransactionFails, Install, Publish, AnswerAccepted, Reconcile, ReconcileFails,
     RecordRejection, RecordRejectionFails, AnswerFailed, Settle, Crash
<1> QED BY <1>1, <1>2, <1>3, <1>4

(* Outside of a transaction's end the read model stands at the log's end.   *)
LEMMA ReadModelCurrent ==
  ASSUME IInv
  PROVE /\ Len(log) \in Nat /\ (pc # "down" => SnapshotSequence \in 0 .. Len(log))
        /\ pc \notin {"down", "install", "reconcile"} => SnapshotSequence = Len(log)
<1>0. /\ log \in Seq(EventBases) /\ Len(log) \in Nat /\ start \in Nat
      /\ readModel \in Seq(Nat) /\ unpublished \in Seq(Nat) /\ Len(unpublished) \in Nat
 BY DEF IInv, RecordInv, TypeOK, MemoryTypeOK, DatabaseTypeOK, WorkerTypeOK
<1>1. CASE pc = "install"
 <2>1. readModel \o unpublished = [j \in 1 .. Len(log) |-> j]
  BY <1>0, <1>1, CommittedPositions DEF IInv, ReadModelInv
 <2>2. /\ Len(readModel) \in Nat /\ Len(readModel) + Len(unpublished) = Len(log)
       /\ readModel = [j \in 1 .. Len(readModel) |-> j]
  BY <1>0, <2>1, CountingPrefix
 <2>3. SnapshotSequence = Len(readModel) BY <2>2, CountingTo
 <2> QED BY <1>0, <1>1, <2>2, <2>3
<1>2. CASE pc = "reconcile"
 <2>1. readModel = [j \in 1 .. start |-> j] /\ start <= Len(log) BY <1>2 DEF IInv, ReadModelInv
 <2>2. SnapshotSequence = start BY <1>0, <2>1, CountingTo
 <2> QED BY <1>0, <1>2, <2>1, <2>2
<1>3. CASE pc \notin {"down", "install", "reconcile"}
 <2>1. readModel = SequencesAfter(0)
  BY <1>3 DEF IInv, RecordInv, TypeOK, WorkerTypeOK, Working, ReadModelInv
 <2> QED BY <1>0, <2>1, CommittedPositions
<1> QED BY <1>0, <1>1, <1>2, <1>3

(* The same after a step.                                                   *)
LEMMA ReadModelCurrentNext ==
    (IInv => (pc \in {"idle", "publish", "republish"} => SnapshotSequence = Len(log)))'
<1>1. IInv => (pc \in {"idle", "publish", "republish"} => SnapshotSequence = Len(log))
 BY ReadModelCurrent
<1> QED BY <1>1, PTL

(* The log only grows, and with it the read model while the process lives.  *)
LEMMA StateGrows ==
  ASSUME IInv, IInv', [Next]_vars
  PROVE /\ \A i \in DOMAIN log : i \in DOMAIN log' /\ log'[i] = log[i]
        /\ \/ pc' = "down"
           \/ SnapshotSequence' = Len(log')
           \/ pc # "down" /\ SnapshotSequence' = SnapshotSequence
<1> USE DEF database, worker
<1>1. \A i \in DOMAIN log : i \in DOMAIN log' /\ log'[i] = log[i]
 <2>1. CASE pc = "transaction" /\ Persist BY <2>1, PersistAppends DEF IInv, RecordInv
 <2>2. CASE log' = log BY <2>2
 <2>3. (pc = "transaction" /\ Persist) \/ log' = log
  BY DEF Next, Work, vars, Boot, Subscribe, Dispatch, Take, AnswerFromReceipt, DecideCommand,
     LookupFails, Commit, TransactionFails, Install, Publish, AnswerAccepted, Reconcile,
     ReconcileFails, RecordRejection, RecordRejectionFails, AnswerFailed, Crash
 <2> QED BY <2>1, <2>2, <2>3
<1>2. \/ pc' = "down"
      \/ pc' \in {"idle", "publish", "republish"}
      \/ pc # "down" /\ readModel' = readModel
      \/ UNCHANGED <<readModel, pc>>
 BY DEF Next, Work, vars, Boot, Subscribe, Dispatch, Take, AnswerFromReceipt, DecideCommand,
     LookupFails, Commit, TransactionFails, Install, Publish, AnswerAccepted, Reconcile,
     ReconcileFails, RecordRejection, RecordRejectionFails, AnswerFailed, Crash
<1>3. pc' \in {"idle", "publish", "republish"} => SnapshotSequence' = Len(log')
 BY ReadModelCurrentNext
<1>4. readModel' = readModel => SnapshotSequence' = SnapshotSequence BY DEF SnapshotSequence
<1> QED BY <1>1, <1>2, <1>3, <1>4

(* Every step keeps what callers were told true.                            *)
LEMMA VisibleStep ==
  ASSUME IInv, IInv', AnswerInv, [Next]_vars PROVE AnswersAreVisible'
<1> USE DEF database, worker
<1>0. /\ log \in Seq(EventBases) /\ Len(log) \in Nat /\ log' \in Seq(EventBases)
      /\ Len(log') \in Nat /\ TypeOK /\ call \in [Caller -> Calls]
 BY DEF IInv, RecordInv, TypeOK, DatabaseTypeOK
<1>1. /\ \A i \in DOMAIN log : i \in DOMAIN log' /\ log'[i] = log[i]
      /\ \/ pc' = "down"
         \/ SnapshotSequence' = Len(log')
         \/ pc # "down" /\ SnapshotSequence' = SnapshotSequence
 BY StateGrows
(* An answer that was visible stays so. *)
<1>2. ASSUME NEW c \in Caller, call[c].status = "accepted", call'[c] = call[c]
    PROVE  /\ call'[c].sequence \in DOMAIN log'
           /\ log'[call'[c].sequence].command = call'[c].command.id
           /\ pc' # "down" => call'[c].sequence <= SnapshotSequence'
 <2>1. /\ call[c].sequence \in DOMAIN log
       /\ log[call[c].sequence].command = call[c].command.id
       /\ pc # "down" => call[c].sequence <= SnapshotSequence
  BY <1>2 DEF AnswerInv, AnswersAreVisible
 <2>2. call[c].sequence \in DOMAIN log' /\ log'[call[c].sequence] = log[call[c].sequence]
  BY <1>1, <2>1
 <2>3. call[c].sequence <= Len(log') BY <1>0, <2>2
 <2> QED BY <1>1, <1>2, <2>1, <2>2, <2>3
(* An answer that is given. *)
<1>3. ASSUME pc \in {"lookup", "publish"}, receipts[job.command.id].status = "accepted",
             Settle("accepted", receipts[job.command.id].sequence),
             UNCHANGED <<database, queue, readModel>>
    PROVE  AnswersAreVisible'
 <2> DEFINE n == receipts[job.command.id].sequence
 <2>1. /\ job.caller \in Caller
       /\ \A c \in Caller \ {job.caller} : call'[c] = call[c]
       /\ call'[job.caller].sequence = n
       /\ call'[job.caller].command = job.command
  BY <1>0, <1>3, SettleAnswers DEF Working, AnswerInv
 <2>2. job.command.id \in CommandIds BY <1>0, <1>3, JobTyped DEF Working, TypeOK, CommandIds
 <2>3. n \in DOMAIN log /\ log[n].command = job.command.id
  BY <1>3, <2>2 DEF IInv, RecordInv, StoreInv, ReceiptsMatchLog
 <2>4. SnapshotSequence = Len(log) BY <1>3, ReadModelCurrent
 <2>5. n <= Len(log) BY <1>0, <2>3
 <2>6. SnapshotSequence' = SnapshotSequence /\ log' = log BY <1>3 DEF SnapshotSequence
 <2> HIDE DEF n
 <2>7. ASSUME NEW c \in Caller, call'[c].status = "accepted"
     PROVE  /\ call'[c].sequence \in DOMAIN log'
            /\ log'[call'[c].sequence].command = call'[c].command.id
            /\ pc' # "down" => call'[c].sequence <= SnapshotSequence'
  <3>1. CASE c = job.caller BY <2>1, <2>3, <2>4, <2>5, <2>6, <3>1
  <3>2. CASE c # job.caller BY <1>2, <2>1, <2>7, <3>2
  <3> QED BY <3>1, <3>2
 <2> QED BY <2>7 DEF AnswersAreVisible
(* Nobody is told that a command was accepted. *)
<1>4. ASSUME \A c \in Caller : call'[c].status = "accepted" => call'[c] = call[c]
    PROVE  AnswersAreVisible'
 BY <1>2, <1>4 DEF AnswersAreVisible
<1>5. CASE AnswerFromReceipt
 <2>1. CASE receipts[job.command.id].status = "accepted" BY <1>3, <1>5, <2>1 DEF AnswerFromReceipt
 <2>2. CASE receipts[job.command.id].status # "accepted"
  <3>1. Settle("rejected", 0) /\ UNCHANGED queue /\ pc \in Working
   BY <1>5, <2>2 DEF AnswerFromReceipt, Working
  <3>2. /\ \A c \in Caller \ {job.caller} : call'[c] = call[c]
        /\ call'[job.caller].status = "rejected"
   BY <1>0, <3>1, SettleAnswers DEF AnswerInv
  <3> QED BY <1>4, <3>2
 <2> QED BY <2>1, <2>2
<1>6. CASE AnswerAccepted
 <2>1. receipts[job.command.id].status = "accepted"
  BY <1>6 DEF AnswerAccepted, AnswerInv, AcceptedInv
 <2> QED BY <1>3, <1>6, <2>1 DEF AnswerAccepted
<1>7. CASE AnswerFailed
 <2>1. PICK status \in {"rejected", "failed"} : Settle(status, 0) /\ UNCHANGED queue
  BY <1>7 DEF AnswerFailed
 <2>2. pc \in Working BY <1>7 DEF AnswerFailed, Working
 <2>3. /\ \A c \in Caller \ {job.caller} : call'[c] = call[c]
       /\ call'[job.caller].status = status
  BY <1>0, <2>1, <2>2, SettleAnswers DEF AnswerInv
 <2> QED BY <1>4, <2>1, <2>3
<1>8. ASSUME NEW c \in Caller, NEW command \in Commands, Dispatch(c, command)
    PROVE  AnswersAreVisible'
 <2>1. /\ call'[c].status = "waiting"
       /\ \A d \in Caller \ {c} : call'[d] = call[d]
  BY <1>0, <1>8 DEF Dispatch
 <2> QED BY <1>4, <2>1
<1>9. CASE Crash
 <2>1. call' = [c \in Caller |-> IF call[c].status = "waiting"
                                 THEN [call[c] EXCEPT !.status = "lost"] ELSE call[c]]
  BY <1>9 DEF Crash
 <2>2. \A c \in Caller : call[c].status = "waiting" => call'[c].status = "lost"
  BY <1>0, <2>1 DEF Calls
 <2>3. \A c \in Caller : call[c].status # "waiting" => call'[c] = call[c] BY <2>1
 <2> QED BY <1>4, <2>2, <2>3
<1>10. CASE call' = call BY <1>4, <1>10
<1>11. \/ AnswerFromReceipt \/ AnswerAccepted \/ AnswerFailed \/ Crash \/ call' = call
       \/ \E c \in Caller, command \in Commands : Dispatch(c, command)
 BY DEF Next, Work, vars, Boot, Subscribe, Take, DecideCommand, LookupFails, Commit,
     TransactionFails, Install, Publish, Reconcile, ReconcileFails, RecordRejection,
     RecordRejectionFails
<1> QED BY <1>5, <1>6, <1>7, <1>8, <1>9, <1>10, <1>11

\* Read your writes: whoever was told "accepted at n" finds its event at n,
\* and a read model that covers it.
THEOREM AnswersVisible ==
  ASSUME ReliableReconcile PROVE Spec => []AnswersAreVisible
<1>1. Init => AnswerInv BY AnswerInit
<1>2. IInv /\ IInv' /\ AnswerInv /\ [Next]_vars => AnswerInv'
 BY EnvelopeStep, AcceptedStep, VisibleStep DEF AnswerInv, IInv, RecordInv
<1>3. AnswerInv => AnswersAreVisible BY DEF AnswerInv
<1> QED BY <1>1, <1>2, <1>3, Inductive, PTL DEF Spec
=============================================================================

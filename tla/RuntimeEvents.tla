---------------------------- MODULE RuntimeEvents ----------------------------
(***************************************************************************)
(* What an agent says and asks, on its way to the thread: an adapter        *)
(* (ClaudeCodeAdapter, or CodexAdapter with codexAppServerManager) makes    *)
(* runtime events of it, ProviderRuntimeIngestion makes messages and        *)
(* activities of them, the client derives the open requests, and            *)
(* ProviderCommandReactor takes the user's answers back.                    *)
(*                                                                         *)
(* A message is the pair of its turn and its item, and text is a sequence   *)
(* of chunks: the n-th that is streamed of a message is chunk n, and of a   *)
(* message that is not streamed, what is kept of it is chunk 1.  The events *)
(* of the provider reach ingestion in the order in which they were offered. *)
(***************************************************************************)
EXTENDS Projector

CONSTANTS
    Settings,    \* the circumstances to consider: records of
                 \*   provider: "claudeCode" or "codex"
                 \*   mode: the assistantDeliveryMode of the thread's turns
                 \*   and bounds of each of Kinds
    MaxBuffered  \* MAX_BUFFERED_ASSISTANT_CHARS (24 000 in the code), in chunks

Kinds == {"turns", "chunks", "requests", "answers", "stops", "deaths", "switches", "crashes"}

ASSUME RuntimeAssumption == \A s \in Settings :
    /\ s.provider \in {"claudeCode", "codex"}
    /\ s.mode \in {"buffered", "streaming"}
    /\ \A k \in Kinds : s[k] \in Nat
ASSUME BufferAssumption == MaxBuffered \in Nat

\* The thread keeps its messages: LastN of the read model drops none of so few.
FewMessages == MaxMessages \in Nat /\ \A s \in Settings : s.turns + s.chunks <= MaxMessages

VARIABLES
    setting,   \* of this behaviour
    adapter,   \* the session of the thread in its adapter: live, turn (0 for none),
               \*   item, emitted (text of the item was streamed), and the requests
               \*   in pendingApprovals and pendingUserInputs
    requests,  \* what the agent asked: kind, turn, decision, whether it was told
    queue,     \* runtime events on their way to ingestion
    ingest,    \* assistantDeliveryModeRef, bufferedAssistantTextByMessageId and
               \*   turnMessageIdsByTurnKey
    thread,    \* messages, activities and the session's status in the read model
    intents,   \* the queue of ProviderCommandReactor
    spent,     \* how much of the bounds is used
    said,      \* (history) what the agent said of each message: the number of
               \*   chunks it streamed, and of texts that came at once
    completed, \* (history) the turns whose completion was ingested
    orphans,   \* (history) requests whose session ended without resolving them
    answered   \* (history) requests that were answered since the server started

vars == <<setting, adapter, requests, queue, ingest, thread, intents, spent, said,
          completed, orphans, answered>>

\* Map.set
Put(f, x, value) == [y \in DOMAIN f \cup {x} |-> IF y = x THEN value ELSE f[y]]

Claude == setting.provider = "claudeCode"

Spend(kind) ==
    /\ spent[kind] < setting[kind]
    /\ spent' = [spent EXCEPT ![kind] = @ + 1]

NewSession(live) ==
    [live |-> live, turn |-> 0, item |-> 1, emitted |-> FALSE, pending |-> {}]
NewIngest == [mode |-> setting.mode, buffered |-> << >>, remembered |-> << >>]

Init ==
    /\ setting \in Settings
    /\ adapter = NewSession(FALSE)
    /\ requests = << >>
    /\ queue = << >>
    /\ ingest = NewIngest
    /\ thread = [messages |-> << >>, activities |-> {}, status |-> "none"]
    /\ intents = << >>
    /\ spent = [k \in Kinds |-> 0]
    /\ said = << >>
    /\ completed = {}
    /\ orphans = {}
    /\ answered = {}

-----------------------------------------------------------------------------
(***************************************************************************)
(* Runtime events, and what the client derives from the activities.         *)
(***************************************************************************)
Current == <<adapter.turn, adapter.item>>
Said(m) == IF m \in DOMAIN said THEN said[m] ELSE [streamed |-> 0, atOnce |-> 0]

\* The chunks that the text of a message keeps: those that were streamed or
\* else one, the last text that came at once.
Kept(m) ==
    IF m \notin DOMAIN said THEN 0 ELSE IF said[m].streamed > 0 THEN said[m].streamed ELSE 1
Whole(m) == [n \in 1..Kept(m) |-> n]

Started == [type |-> "started"]
Delta(m, text) == [type |-> "content.delta", message |-> m, text |-> text]
ItemCompleted(m, detail) == [type |-> "item.completed", message |-> m, text |-> detail]
TurnCompleted(turn) == [type |-> "turn.completed", turn |-> turn]
Exited == [type |-> "session.exited"]
Opened(r) == [type |-> "opened", request |-> r]
Resolved(r, decision) == [type |-> "resolved", request |-> r, decision |-> decision]
Failed(r, detail) == [type |-> "failed", request |-> r, detail |-> detail]

\* What respondToRequest of both adapters says, what the client looks for.
UnknownRequest == "Unknown pending approval request"
UnknownPermission == "Unknown pending permission request"

\* derivePendingApprovals, derivePendingUserInputs
Open(r) ==
    /\ Opened(r) \in thread.activities
    /\ \A a \in thread.activities : a.type = "resolved" => a.request # r
    /\ requests[r].kind = "approval" => Failed(r, UnknownPermission) \notin thread.activities

-----------------------------------------------------------------------------
(***************************************************************************)
(* Claude: completeTurn.  The text of a turn that streamed none is that of  *)
(* its last assistant message, fallbackAssistantText.                       *)
(***************************************************************************)
LastWords ==
    IF adapter.turn = 0 THEN << >>
    ELSE (IF ~adapter.emitted /\ Kept(Current) > 0 THEN <<Delta(Current, Whole(Current))>>
          ELSE << >>)
         \o <<ItemCompleted(Current, << >>)>>

CompleteTurn == Append(LastWords, TurnCompleted(adapter.turn))

(***************************************************************************)
(* The agent.  A turn of Claude is one item, one of Codex a sequence of     *)
(* them.                                                                    *)
(***************************************************************************)
Running == adapter.live /\ adapter.turn # 0

(* content_block_delta, item/agentMessage/delta *)
Say ==
    /\ Running
    /\ Spend("chunks")
    /\ said' = Put(said, Current, [Said(Current) EXCEPT !.streamed = @ + 1])
    /\ queue' = Append(queue, Delta(Current, <<Said(Current).streamed + 1>>))
    /\ adapter' = [adapter EXCEPT !.emitted = TRUE]
    /\ UNCHANGED <<setting, requests, ingest, thread, intents, completed, orphans, answered>>

(* Text that is not streamed: an item/completed of Codex, or an assistant   *)
(* message of Claude, any of a turn, which waits as fallbackAssistantText   *)
(* in place of the one before it.                                           *)
SayAtOnce ==
    /\ Running
    /\ Spend("chunks")
    /\ Claude \/ ~adapter.emitted
    /\ said' = Put(said, Current, [Said(Current) EXCEPT !.atOnce = @ + 1])
    /\ IF Claude THEN UNCHANGED <<queue, adapter>>
       ELSE /\ queue' = Append(queue, ItemCompleted(Current, <<1>>))
            /\ adapter' = [adapter EXCEPT !.item = @ + 1]
    /\ UNCHANGED <<setting, requests, ingest, thread, intents, completed, orphans, answered>>

(* item/completed: the item with its whole text. *)
FinishItem ==
    /\ Running /\ ~Claude
    /\ adapter.emitted
    /\ queue' = Append(queue, ItemCompleted(Current, Whole(Current)))
    /\ adapter' = [adapter EXCEPT !.item = @ + 1, !.emitted = FALSE]
    /\ UNCHANGED <<setting, requests, ingest, thread, intents, spent, said, completed,
                   orphans, answered>>

(* A result, also of an interrupted turn; turn/completed.  Claude's agent   *)
(* waits for the answers to what it asked.                                  *)
EndTurn ==
    /\ Running
    /\ Claude => \A q \in Range(requests) : q.turn = adapter.turn => q.told
    /\ queue' = queue \o (IF Claude THEN CompleteTurn ELSE <<TurnCompleted(adapter.turn)>>)
    /\ adapter' = [adapter EXCEPT !.turn = 0, !.item = 1, !.emitted = FALSE]
    /\ UNCHANGED <<setting, requests, ingest, thread, intents, spent, said, completed,
                   orphans, answered>>

(* canUseTool, handleServerRequest *)
Ask(kind) ==
    /\ Running
    /\ Spend("requests")
    /\ LET r == Len(requests) + 1
       IN  /\ requests' = Append(requests, [kind |-> kind, turn |-> adapter.turn,
                                             decision |-> "none", told |-> FALSE])
           /\ queue' = Append(queue, Opened(r))
           /\ adapter' = [adapter EXCEPT !.pending = @ \cup {r}]
    /\ UNCHANGED <<setting, ingest, thread, intents, said, completed, orphans, answered>>

(* onAbort: the agent gives up a question. *)
Abort(r) ==
    /\ Claude /\ adapter.live
    /\ r \in adapter.pending
    /\ adapter' = [adapter EXCEPT !.pending = @ \ {r}]
    /\ requests' = [requests EXCEPT ![r].decision = "cancel"]
    /\ UNCHANGED <<setting, queue, ingest, thread, intents, spent, said, completed, orphans,
                   answered>>

(* The rest of canUseTool, once its Deferred has a value. *)
Tell(r) ==
    /\ Claude
    /\ requests[r].decision # "none" /\ ~requests[r].told
    /\ requests' = [requests EXCEPT ![r].told = TRUE]
    /\ queue' = Append(queue, Resolved(r, requests[r].decision))
    /\ UNCHANGED <<setting, adapter, ingest, thread, intents, spent, said, completed, orphans,
                   answered>>

(* The stream of Claude fails, the process of Codex exits. *)
Die ==
    /\ adapter.live
    /\ Spend("deaths")
    /\ queue' = queue \o (IF Claude THEN CompleteTurn ELSE <<Exited>>)
    /\ orphans' = orphans \cup adapter.pending
    /\ adapter' = NewSession(FALSE)
    /\ UNCHANGED <<setting, requests, ingest, thread, intents, said, completed, answered>>

-----------------------------------------------------------------------------
(***************************************************************************)
(* The user.                                                                *)
(***************************************************************************)
(* A turn, requested when the last one is over. *)
RequestTurn ==
    /\ adapter.turn = 0
    /\ \A i \in Range(intents) : i.type # "start"
    /\ Spend("turns")
    /\ intents' = Append(intents, [type |-> "start"])
    /\ UNCHANGED <<setting, adapter, requests, queue, ingest, thread, said, completed, orphans,
                   answered>>

RequestStop ==
    /\ Spend("stops")
    /\ intents' = Append(intents, [type |-> "stop"])
    /\ UNCHANGED <<setting, adapter, requests, queue, ingest, thread, said, completed, orphans,
                   answered>>

(* An answer to a request that the client shows. *)
Answer(r, decision) ==
    /\ Open(r)
    /\ Spend("answers")
    /\ intents' = Append(intents, [type |-> "answer", request |-> r, decision |-> decision])
    /\ answered' = answered \cup {r}
    /\ UNCHANGED <<setting, adapter, requests, queue, ingest, thread, said, completed, orphans>>

(* A turn of any thread sets the delivery mode of all of them. *)
SwitchMode ==
    /\ Spend("switches")
    /\ \E mode \in {"buffered", "streaming"} \ {ingest.mode} : ingest' = [ingest EXCEPT !.mode = mode]
    /\ UNCHANGED <<setting, adapter, requests, queue, thread, intents, said, completed, orphans,
                   answered>>

-----------------------------------------------------------------------------
(***************************************************************************)
(* ProviderCommandReactor, with the part of ProviderService and of the      *)
(* adapters that an intent reaches.                                         *)
(***************************************************************************)
TakeIntent(type) == intents # << >> /\ Head(intents).type = type /\ intents' = Tail(intents)

(* processTurnStartRequested: sendTurn, in a new session if there is none.  *)
StartTurn ==
    /\ TakeIntent("start")
    /\ adapter' = [(IF adapter.live THEN adapter ELSE NewSession(TRUE)) EXCEPT !.turn = spent.turns]
    /\ queue' = Append(queue, Started)
    /\ thread' = [thread EXCEPT !.status = "active"]
    /\ UNCHANGED <<setting, requests, ingest, spent, said, completed, orphans, answered>>

(* stopSessionInternal: open approvals are cancelled twice, here and by     *)
(* their callbacks; the turn is completed before the session ends.          *)
StopClaude ==
    LET approvals == {r \in adapter.pending : requests[r].kind = "approval"}
    IN  /\ requests' = [r \in DOMAIN requests |->
                           IF r \in adapter.pending
                           THEN [requests[r] EXCEPT !.decision = "cancel"] ELSE requests[r]]
        /\ \E inOrder \in [1..Cardinality(approvals) -> approvals] :
              /\ \A i, j \in DOMAIN inOrder : i < j => inOrder[i] < inOrder[j]
              /\ queue' = queue
                          \o [i \in DOMAIN inOrder |-> Resolved(inOrder[i], "cancel")]
                          \o (IF adapter.turn = 0 THEN << >> ELSE CompleteTurn) \o <<Exited>>
        /\ UNCHANGED orphans

(* stopSession of codexAppServerManager: what was open is forgotten. *)
StopCodex ==
    /\ queue' = Append(queue, Exited)
    /\ orphans' = orphans \cup adapter.pending
    /\ UNCHANGED requests

(* processSessionStopRequested *)
StopSession ==
    /\ TakeIntent("stop")
    /\ IF adapter.live /\ thread.status # "stopped"
       THEN /\ IF Claude THEN StopClaude ELSE StopCodex
            /\ adapter' = NewSession(FALSE)
       ELSE UNCHANGED <<adapter, requests, queue, orphans>>
    /\ thread' = [thread EXCEPT !.status = "stopped"]
    /\ UNCHANGED <<setting, ingest, spent, said, completed, answered>>

(* Mutant of Settle: the request stays in the map of those that are open.   *)
SettleMutant(r, decision) ==
    /\ requests' = [requests EXCEPT ![r].decision = decision, ![r].told = ~Claude]
    /\ queue' = IF Claude THEN queue ELSE Append(queue, Resolved(r, decision))
    /\ UNCHANGED adapter

(* respondToRequest, respondToUserInput: Claude's callback goes on later,   *)
(* Codex is told at once.                                                   *)
Settle(r, decision) ==
    /\ requests' = [requests EXCEPT ![r].decision = decision, ![r].told = ~Claude]
    /\ queue' = IF Claude THEN queue ELSE Append(queue, Resolved(r, decision))
    /\ adapter' = [adapter EXCEPT !.pending = @ \ {r}]

(* Mutant of Refuse: as in other intents, a failure is only logged. *)
RefuseMutant(r, detail) == UNCHANGED thread

(* appendProviderFailureActivity *)
Refuse(r, detail) == thread' = [thread EXCEPT !.activities = @ \cup {Failed(r, detail)}]

(* processApprovalResponseRequested, processUserInputResponseRequested: the *)
(* service recovers a session that is gone, where it has a cursor for it.   *)
DeliverAnswer ==
    /\ TakeIntent("answer")
    /\ LET r == Head(intents).request
       IN  \/ /\ thread.status \in {"none", "stopped"}
              /\ Refuse(r, "No active provider session")
              /\ UNCHANGED <<adapter, requests, queue>>
           \/ /\ thread.status = "active" /\ ~adapter.live
              /\ \/ /\ Refuse(r, "Cannot recover thread")
                    /\ UNCHANGED <<adapter, queue>>
                 \/ /\ Refuse(r, UnknownRequest)
                    /\ adapter' = NewSession(TRUE)
                    /\ queue' = Append(queue, Started)
              /\ UNCHANGED requests
           \/ /\ thread.status = "active" /\ adapter.live
              /\ IF r \in adapter.pending
                 THEN Settle(r, Head(intents).decision) /\ UNCHANGED thread
                 ELSE Refuse(r, UnknownRequest) /\ UNCHANGED <<adapter, requests, queue>>
    /\ UNCHANGED <<setting, ingest, spent, said, completed, orphans, answered>>

-----------------------------------------------------------------------------
(***************************************************************************)
(* ProviderRuntimeIngestion: a handler is a chain of operators on           *)
(* [thread, ingest], and one step, since nobody else writes these messages. *)
(***************************************************************************)
(* thread.message.assistant.delta, thread.message.assistant.complete *)
Dispatch(st, m, text, streaming) ==
    [st EXCEPT !.thread = SendMessage(@, [message |-> m, role |-> "assistant", turn |-> m[1],
                                          text |-> text, streaming |-> streaming, at |-> 0])]

Buffered(st, m) == IF m \in DOMAIN st.ingest.buffered THEN st.ingest.buffered[m] ELSE << >>
Clear(st, m) == [st EXCEPT !.ingest.buffered = Restrict(@, DOMAIN @ \ {m})]

Remembered(st, turn) ==
    IF turn \in DOMAIN st.ingest.remembered THEN st.ingest.remembered[turn] ELSE {}
RememberAs(st, turn, messages) ==
    [st EXCEPT !.ingest.remembered =
        IF messages = {} THEN Restrict(@, DOMAIN @ \ {turn}) ELSE Put(@, turn, messages)]
Remember(st, m) == RememberAs(st, m[1], Remembered(st, m[1]) \cup {m})
Forget(st, m) == RememberAs(st, m[1], Remembered(st, m[1]) \ {m})

(* Mutant of Buffer: the text spills one chunk too late. *)
BufferMutant(st, m, text) ==
    LET next == Buffered(st, m) \o text
    IN  IF Len(next) <= MaxBuffered + 1
        THEN [st EXCEPT !.ingest.buffered = Put(@, m, next)]
        ELSE Dispatch(Clear(st, m), m, next, TRUE)

(* appendBufferedAssistantText, and the spill *)
Buffer(st, m, text) ==
    LET next == Buffered(st, m) \o text
    IN  IF Len(next) <= MaxBuffered
        THEN [st EXCEPT !.ingest.buffered = Put(@, m, next)]
        ELSE Dispatch(Clear(st, m), m, next, TRUE)

(* finalizeAssistantMessage *)
Finalize(st, m, fallback) ==
    LET text == IF Buffered(st, m) # << >> THEN Buffered(st, m) ELSE fallback
        last == IF text = << >> THEN Clear(st, m) ELSE Dispatch(Clear(st, m), m, text, TRUE)
    IN  Dispatch(last, m, << >>, FALSE)

\* The text that the thread has of m, whose messages differ in their ids.
Shown(messages, m) ==
    LET known == {x \in Range(messages) : x.id = m}
    IN  IF known = {} THEN << >> ELSE (CHOOSE x \in known : TRUE).text

(* content.delta *)
IngestDelta(st, event) ==
    LET m == event.message
    IN  IF ingest.mode = "buffered" THEN Buffer(Remember(st, m), m, event.text)
        ELSE Dispatch(Remember(st, m), m, event.text, TRUE)

(* item.completed of an assistant message *)
IngestItem(st, event) ==
    LET m == event.message
        fallback == IF Shown(st.thread.messages, m) = << >> THEN event.text ELSE << >>
    IN  Forget(Finalize(Remember(st, m), m, fallback), m)

(* Mutant of IngestTurn: the messages of the turn are only forgotten. *)
IngestTurnMutant(st, turn) ==
    RememberAs([st EXCEPT !.thread.status = "active"], turn, {})

(* finalizeAssistantMessage, for what is left of the turn's messages. *)
FinalizeTurn(st, turn) ==
    FoldSet(LAMBDA m, x : Finalize(x, m, << >>), st, Remembered(st, turn))

(* turn.completed *)
IngestTurn(st, turn) ==
    RememberAs([st EXCEPT !.thread.messages = FinalizeTurn(st, turn).thread.messages,
                          !.thread.status = "active",
                          !.ingest.buffered = FinalizeTurn(st, turn).ingest.buffered],
               turn, {})

(* session.exited, clearTurnStateForSession *)
IngestExit(st) ==
    LET messages == UNION {st.ingest.remembered[t] : t \in DOMAIN st.ingest.remembered}
    IN  [st EXCEPT !.ingest.buffered = Restrict(@, DOMAIN @ \ messages),
                   !.ingest.remembered = << >>,
                   !.thread.status = "stopped"]

IngestActivity(st, event) == [st EXCEPT !.thread.activities = @ \cup {event}]

(* processRuntimeEvent *)
Handled(st, event) ==
    CASE event.type = "started"        -> [st EXCEPT !.thread.status = "active"]
      [] event.type = "content.delta"  -> IngestDelta(st, event)
      [] event.type = "item.completed" -> IngestItem(st, event)
      [] event.type = "turn.completed" -> IngestTurn(st, event.turn)
      [] event.type = "session.exited" -> IngestExit(st)
      [] OTHER                         -> IngestActivity(st, event)

Ingest ==
    /\ queue # << >>
    /\ queue' = Tail(queue)
    /\ \E next \in {Handled([thread |-> thread, ingest |-> ingest], Head(queue))} :
          /\ thread' = next.thread
          /\ ingest' = next.ingest
    /\ completed' = IF Head(queue).type = "turn.completed"
                    THEN completed \cup ({Head(queue).turn} \ {0}) ELSE completed
    /\ UNCHANGED <<setting, adapter, requests, intents, spent, said, orphans, answered>>

-----------------------------------------------------------------------------
(* The server stops, and starts again with what the thread shows. *)
Crash ==
    /\ Spend("crashes")
    /\ adapter' = NewSession(FALSE)
    /\ queue' = << >>
    /\ intents' = << >>
    /\ ingest' = NewIngest
    /\ orphans' = DOMAIN requests
    /\ answered' = {}
    /\ UNCHANGED <<setting, requests, thread, said, completed>>

Agent ==
    \/ Say \/ SayAtOnce \/ FinishItem \/ EndTurn \/ Die
    \/ \E kind \in {"approval", "user-input"} : Ask(kind)
    \/ \E r \in DOMAIN requests : Abort(r)

User ==
    \/ RequestTurn \/ RequestStop \/ SwitchMode
    \/ \E r \in DOMAIN requests, decision \in {"accept", "decline"} : Answer(r, decision)

Callback == \E r \in DOMAIN requests : Tell(r)
Work == StartTurn \/ StopSession \/ DeliverAnswer

Next == Agent \/ User \/ Callback \/ Work \/ Ingest \/ Crash

Spec == Init /\ [][Next]_vars

\* The reactors' fibers and the callbacks go on; users and agents owe nothing.
FairSpec == Spec /\ WF_vars(Work) /\ WF_vars(Ingest) /\ WF_vars(Callback)

-----------------------------------------------------------------------------
(***************************************************************************)
(* Properties.                                                              *)
(***************************************************************************)
MaxOf(kind) == CHOOSE n \in {s[kind] : s \in Settings} : \A s \in Settings : s[kind] <= n
Requests == 1..MaxOf("requests")

\* Types; no more text is buffered than allowed, none that is empty, and only
\* of messages that the end of a turn or of the session will find.
TypeOK ==
    /\ setting \in Settings
    /\ adapter \in [live : BOOLEAN, turn : Nat, item : Nat \ {0}, emitted : BOOLEAN,
                    pending : SUBSET DOMAIN requests]
    /\ requests \in Seq([kind : {"approval", "user-input"}, turn : Nat, told : BOOLEAN,
                         decision : {"none", "accept", "decline", "cancel"}])
    /\ ingest.mode \in {"buffered", "streaming"}
    /\ \A m \in DOMAIN ingest.buffered :
          /\ Len(ingest.buffered[m]) \in 1..MaxBuffered
          /\ m[1] \in DOMAIN ingest.remembered /\ m \in ingest.remembered[m[1]]
    /\ thread.status \in {"none", "active", "stopped"}
    /\ spent \in [Kinds -> Nat]

\* Claude's adapter drops text that came at once: all but the last of a turn,
\* and that too where other text was streamed.
Dropped(m) == Claude /\ said[m].atOnce > (IF said[m].streamed > 0 THEN 0 ELSE 1)

\* The messages of a thread show what the agent said: nothing twice, in the
\* order in which it was said unless the delivery mode changed meanwhile, and
\* as final text, once the end of the turn is ingested, all of it, or where
\* some was dropped all that was streamed or else the last of the texts.
TextKept ==
    \A m \in DOMAIN said :
        LET shown == Shown(thread.messages, m)
        IN  /\ IsInjective(shown) /\ ToSet(shown) \subseteq 1..Kept(m)
            /\ spent.switches = 0 => IsPrefix(shown, Whole(m))
            /\ m[1] \in completed =>
                  /\ Len(shown) = IF Dropped(m) THEN Kept(m)
                                  ELSE said[m].streamed + said[m].atOnce
                  /\ \A x \in Range(thread.messages) : x.id = m => ~x.streaming

\* Text is buffered where it will be found, and shown exactly.
TextExact == TypeOK /\ TextKept

Quiet == queue = << >> /\ \A q \in Range(requests) : q.decision = "none" \/ q.told

\* The user sees a question while the agent waits for its answer, and when all
\* is quiet only then, and a resolution names the decision that the agent got,
\* unless the session ended without resolving it.
RequestsShown ==
    \A r \in DOMAIN requests \ orphans :
        /\ r \in adapter.pending /\ Opened(r) \notin Range(queue) => Open(r)
        /\ Quiet /\ Open(r) => r \in adapter.pending
        /\ \A a \in thread.activities :
              a.type = "resolved" /\ a.request = r => a.decision = requests[r].decision

\* Every answer settles the request or is refused with an activity, unless the
\* server stops.
AnswersSettle ==
    \A r \in Requests :
        r \in answered ~>
            \/ r \notin answered
            \/ \E a \in thread.activities :
                  a.type \in {"resolved", "failed"} /\ a.request = r
=============================================================================

--------------------------- MODULE ProviderSessions ---------------------------
(***************************************************************************)
(* The agent sessions of one thread: ProviderCommandReactor, the router     *)
(* ProviderService with its ProviderSessionDirectory, the two adapters      *)
(* (ClaudeCodeAdapter, CodexAdapter over codexAppServerManager) and the     *)
(* part of ProviderRuntimeIngestion that keeps the session of the read      *)
(* model.                                                                   *)
(*                                                                         *)
(* Two workers write that session: the reactor, one request at a time, each *)
(* call of which is a step; and ingestion, one event at a time, which reads *)
(* the session, then dispatches.  The agents run on meanwhile, sessions     *)
(* that were replaced included.  A dispatch is one step: what the engine    *)
(* makes of it is the subject of OrchestrationEngine.                       *)
(*                                                                         *)
(* A conversation is the set of turns that its agent remembers.  Claude     *)
(* resumes one at the message a cursor names, Codex as a whole.             *)
(***************************************************************************)
EXTENDS Contracts, Naturals, Sequences, FiniteSets

CONSTANTS
    Settings,    \* the circumstances to consider: records of
                 \*   turns, modes, stops, compacts, interrupts: bounds of
                 \*          what the user requests
                 \*   full:  bound of turns that fill the context window
                 \*   faults, restarts: bounds of failures of a provider, of
                 \*          crashes of the server
                 \*   providers: what a turn may ask for
                 \*   patient: the user waits until all is processed
                 \*   prompt: ingestion is faster than the reactor
    MaxFailures, \* MAX_AUTO_COMPACT_CONSECUTIVE_FAILURES
    None         \* undefined

Requests == {"turns", "modes", "stops", "compacts", "interrupts", "full", "faults", "restarts"}

ASSUME SessionsAssumption ==
    /\ \A s \in Settings :
          /\ \A r \in Requests : s[r] \in Nat
          /\ s.providers # {} /\ s.providers \subseteq {"codex", "claudeCode"}
          /\ {s.patient, s.prompt} \subseteq BOOLEAN
    /\ MaxFailures \in Nat \ {0}

Providers == {"codex", "claudeCode"}
Modes == {"full-access", "approval-required"}
Statuses == {"starting", "running", "ready", "stopped", "error"}

\* Sessions of the read model, and runtime events, that name any turn.
TurnIds == Nat \cup {NoTurn}
ShownSessions ==
    [status : Statuses, activeTurn : TurnIds, mode : Modes, provider : Providers \cup {None}]
ModelSessions == {NoSession} \cup ShownSessions
EventTypes ==
    {"session.started", "session.state.changed", "session.exited", "turn.started",
     "turn.completed", "runtime.error", "thread.token-usage.updated"}
EventStates == {"", "starting", "ready", "completed", "failed", "interrupted"}
RuntimeEvents ==
    [type : EventTypes, provider : Providers, turn : TurnIds, state : EventStates, full : BOOLEAN]

\* What the directory and the reactor keep: cursors, bindings, and requests.
Cursors == [provider : Providers, conversation : Nat, at : SUBSET TurnIds]
Bindings == [provider : Providers, mode : Modes, cursor : Cursors, prompt : SUBSET TurnIds]
Jobs ==
    [type : {"turn", "mode", "compact", "stop", "interrupt"},
     step : {"ensure", "start", "bind", "send", "route", "stop", "mark", "ready", "clear"},
     read : [session : ModelSessions, mode : Modes, messages : SUBSET TurnIds],
     turn : TurnIds, provider : {None} \cup Providers,
     start : {None} \cup [provider : Providers, mode : Modes, cursor : {None} \cup Cursors,
                         prompt : SUBSET TurnIds, then : {"bind", "ready"}],
     recovered : BOOLEAN]

ASSUME NoneAssumption ==
    None \notin [event : RuntimeEvents, session : ModelSessions] \cup Cursors \cup Bindings
                    \cup Jobs \cup Providers
ASSUME NullAssumption == NoSession \notin ShownSessions

VARIABLES
    setting,       \* of this behaviour
    thread,        \* [session, mode, messages] of the read model
    intents,       \* the reactor's queue
    job,           \* what the reactor does, None or its continuation
    directory,     \* the binding of provider_session_runtime, or None
    sessions,      \* each adapter's sessions.get(threadId): an index or 0
    contexts,      \* the session contexts ever created
    conversations, \* what each conversation of an agent holds
    runtime,       \* runtime events on their way to ingestion
    ingesting,     \* the event in hand and the session read for it, or None
    breaker,       \* [failures, disabled]: autoCompactState
    spent,         \* how much of the bounds is used
    history        \* [ended, forgotten, lost, failed, tried, passed], for the properties

agents == <<sessions, contexts, conversations, runtime>>
worker == <<job, directory>>
vars == <<setting, thread, intents, job, directory, sessions, contexts, conversations, runtime,
          ingesting, breaker, spent, history>>

Session == thread.session
HasSession(session) == session # NoSession /\ session.status # "stopped"
SessionStatus == IF Session = NoSession THEN "none" ELSE Session.status
\* Mutant of Ready: a status of the provider that is not mapped.
ReadyMutant(provider, mode) ==
    [status |-> "connecting", activeTurn |-> NoTurn, mode |-> mode, provider |-> provider]
Ready(provider, mode) ==
    [status |-> "ready", activeTurn |-> NoTurn, mode |-> mode, provider |-> provider]
Settled == intents = << >> /\ job = None /\ runtime = << >> /\ ingesting = None
Running(c) == contexts[c].up /\ contexts[c].turn # NoTurn
TurnsOf(c) == (contexts[c].others \cup {contexts[c].turn}) \ {NoTurn}

Spend(what) ==
    /\ spent[what] < setting[what]
    /\ spent' = [spent EXCEPT ![what] = @ + 1]

Init ==
    /\ setting \in Settings
    /\ thread = [session |-> NoSession, mode |-> "full-access", messages |-> {}]
    /\ intents = << >> /\ job = None /\ directory = None
    /\ sessions = [p \in Providers |-> 0]
    /\ contexts = << >> /\ conversations = << >> /\ runtime = << >> /\ ingesting = None
    /\ breaker = [failures |-> 0, disabled |-> FALSE]
    /\ spent = [r \in Requests |-> 0]
    /\ history = [ended |-> {}, forgotten |-> {}, lost |-> {}, failed |-> 0,
                  tried |-> {}, passed |-> FALSE]

-----------------------------------------------------------------------------
(***************************************************************************)
(* The user, through commands of the engine.                                *)
(***************************************************************************)
MayRequest == setting.patient => Settled /\ \A c \in DOMAIN contexts : TurnsOf(c) = {}
Ask(intent) ==
    /\ MayRequest
    /\ intents' = Append(intents, intent)
    /\ UNCHANGED <<setting, worker, agents, ingesting, breaker, history>>

RequestTurn(provider) ==
    /\ Spend("turns")
    /\ thread' = [thread EXCEPT !.messages = @ \cup {spent'.turns}]
    /\ Ask([type |-> "turn", turn |-> spent'.turns, provider |-> provider])

RequestMode ==
    /\ Spend("modes")
    /\ thread' = [thread EXCEPT !.mode = IF @ = "full-access" THEN "approval-required"
                                         ELSE "full-access"]
    /\ Ask([type |-> "mode"])

RequestCompaction == Spend("compacts") /\ Ask([type |-> "compact"]) /\ UNCHANGED thread
RequestStop == Spend("stops") /\ Ask([type |-> "stop"]) /\ UNCHANGED thread

\* Clients offer it while a turn runs, so it does not wait.
RequestInterrupt ==
    /\ Spend("interrupts")
    /\ HasSession(Session) /\ Session.activeTurn # NoTurn
    /\ intents' = Append(intents, [type |-> "interrupt"])
    /\ UNCHANGED <<setting, thread, worker, agents, ingesting, breaker, history>>

-----------------------------------------------------------------------------
(***************************************************************************)
(* The adapters.                                                            *)
(***************************************************************************)
Event(type, provider, turn) ==
    [type |-> type, provider |-> provider, turn |-> turn, state |-> "", full |-> FALSE]
Exited(p) == Event("session.exited", p, NoTurn)
Completed(p, turn, state) == [Event("turn.completed", p, turn) EXCEPT !.state = state]
StateChanged(p, state) == [Event("session.state.changed", p, NoTurn) EXCEPT !.state = state]

\* A Claude cursor of a session of which no message was received.
Blank == [provider |-> "claudeCode", conversation |-> 0, at |-> {}]

\* What a session resumed with a cursor starts from; the cursor of another
\* provider names nothing that an adapter finds.
Recalled(p, cursor) ==
    CASE cursor = None -> {}
      [] cursor # None /\ cursor.provider # p -> {}
      [] cursor # None /\ p = "codex" /\ cursor.provider = p -> conversations[cursor.conversation]
      [] OTHER -> cursor.at

Memory(c) == conversations[contexts[c].conversation] \cup contexts[c].prompt

(* startSession: the new context takes the place of another, which lives on. *)
StartSession(p, mode, cursor, prompt) ==
    LET resumes == p = "codex" /\ cursor # None /\ cursor.provider = p
        conversation == IF resumes THEN cursor.conversation ELSE Len(conversations) + 1
        own == [provider |-> p, conversation |-> conversation, at |-> {}]
        context == [provider |-> p, mode |-> mode, turn |-> NoTurn, others |-> {},
                    conversation |-> conversation,
                    cursor |-> CASE p = "codex" -> own
                                 [] p # "codex" /\ cursor # None /\ cursor.provider = p -> cursor
                                 [] OTHER -> Blank,
                    prompt |-> IF p = "claudeCode" THEN prompt ELSE {},
                    interrupted |-> FALSE, up |-> TRUE]
        events == IF p = "codex" THEN << StateChanged(p, "starting"), StateChanged(p, "ready") >>
                  ELSE << Event("session.started", p, NoTurn), StateChanged(p, "ready") >>
    IN  /\ conversations' = IF resumes THEN conversations
                            ELSE Append(conversations, Recalled(p, cursor))
        /\ contexts' = Append(contexts, context)
        /\ sessions' = [sessions EXCEPT ![p] = Len(contexts')]
        /\ runtime' = runtime \o events

(* sendTurn of the context in the map.  Claude's adapter refuses a turn     *)
(* while it has another; Codex is sent it and runs both.                    *)
AcceptsTurn(c) ==
    contexts[c].up /\ (contexts[c].provider = "claudeCode" => contexts[c].turn = NoTurn)
SendTurn(c, turn) ==
    /\ contexts' = [contexts EXCEPT ![c].turn = turn, ![c].interrupted = FALSE,
                       ![c].others = (@ \cup {contexts[c].turn}) \ {NoTurn}]
    /\ runtime' = Append(runtime, Event("turn.started", contexts[c].provider, turn))

\* A context whose session has ended, with every turn that it ran.
Down(context) == [context EXCEPT !.up = FALSE, !.turn = NoTurn, !.others = {}]

(* Mutant of StopSession: the map keeps what was stopped. *)
StopSessionMutant(c) ==
    /\ contexts' = [contexts EXCEPT ![c] = Down(@)]
    /\ runtime' = Append(runtime, Exited(contexts[c].provider))
    /\ UNCHANGED sessions

(* stopSession: Claude first completes the turn that it interrupts. *)
StopSession(c) ==
    LET context == contexts[c]
        p == context.provider
    IN  /\ contexts' = [contexts EXCEPT ![c] = Down(@)]
        /\ sessions' = [sessions EXCEPT ![p] = 0]
        /\ runtime' = runtime
              \o (IF p = "claudeCode" /\ context.turn # NoTurn
                  THEN << Completed(p, context.turn, "interrupted") >> ELSE << >>)
              \o << Exited(p) >>

-----------------------------------------------------------------------------
(***************************************************************************)
(* The router: the calls of ProviderService, of which only the reactor's    *)
(* can be in progress.  The payload of a binding keeps the provider options *)
(* of the start, the summary of a compaction among them.                    *)
(***************************************************************************)
Upsert(p, mode, cursor, prompt) ==
    directory' = [provider |-> p, mode |-> mode, cursor |-> cursor, prompt |-> prompt]

\* startSession and the recovery of a binding; neither gets an older cursor,
\* for the adapters always return one.
StartAndBind(p, mode, cursor, prompt, kept) ==
    /\ StartSession(p, mode, cursor, prompt)
    /\ Upsert(p, mode, contexts'[Len(contexts')].cursor, kept)

\* Codex fails after its process was spawned: stopSession(threadId) closes
\* the new context.  Claude fails before it takes the place of another.
StartFails(p) ==
    /\ Spend("faults")
    /\ IF p = "codex"
       THEN /\ sessions' = [sessions EXCEPT ![p] = 0]
            /\ runtime' = runtime \o << StateChanged(p, "starting"),
                                        Event("runtime.error", p, NoTurn), Exited(p) >>
       ELSE UNCHANGED <<sessions, runtime>>
    /\ UNCHANGED <<contexts, conversations, directory>>

Payload == IF directory = None THEN {} ELSE directory.prompt
Routed == directory # None /\ sessions[directory.provider] # 0
RoutedContext == sessions[directory.provider]

\* listSessions().find: Codex comes first.
Active == IF sessions["codex"] # 0 THEN sessions["codex"] ELSE sessions["claudeCode"]

-----------------------------------------------------------------------------
(***************************************************************************)
(* The reactor.                                                             *)
(***************************************************************************)
SetSession(session) == thread' = [thread EXCEPT !.session = session]
NextJob(step) == job' = [job EXCEPT !.step = step]
NoDispatch == UNCHANGED <<thread, intents>>
NoAgent == UNCHANGED <<agents, directory>>
Aside == UNCHANGED <<setting, ingesting>>
MayAct == setting.prompt => runtime = << >> /\ ingesting = None

Lose(turns) == history' = [history EXCEPT !.lost = @ \cup (turns \ {NoTurn})]

\* A provider starts a session, which is told apart from one that a stop
\* passes over.
Tries(p) == history' = [history EXCEPT !.tried = @ \cup {p}, !.passed = FALSE]
PassesOver ==
    history' = [history EXCEPT !.passed = @ \/ \E p \in Providers : sessions[p] # 0]

\* The end of a request: a compaction is counted, a turn that failed is only
\* logged.
SucceedForgetting(turns) ==
    /\ job' = None
    /\ breaker' = IF job.type = "compact" THEN [failures |-> 0, disabled |-> FALSE] ELSE breaker
    /\ history' = [history EXCEPT !.failed = IF job.type = "compact" THEN 0 ELSE @,
                                  !.forgotten = @ \cup turns]
Succeed == SucceedForgetting({})
FailTrying(providers) ==
    /\ job' = None
    /\ IF job.type = "compact"
       THEN LET failures == breaker.failures + 1
            IN  /\ breaker' = [failures |-> failures,
                               disabled |-> breaker.disabled \/ failures >= MaxFailures]
                /\ history' = [history EXCEPT !.failed = @ + 1, !.tried = @ \cup providers]
       ELSE /\ history' = [history EXCEPT !.lost = @ \cup ({job.turn} \ {NoTurn}),
                                         !.tried = @ \cup providers]
            /\ UNCHANGED breaker
Fail == FailTrying({})
Go == UNCHANGED <<breaker, history>>

\* A compaction may have cleared the message that a turn was requested with.
Gone(intent) == intent.type = "turn" /\ intent.turn \notin thread.messages

\* The step that the handler of an intent begins with, "" if there is none.
Beginning(intent) ==
    CASE intent.type = "turn" /\ ~Gone(intent) -> "ensure"
      [] intent.type = "compact" -> "stop"
      [] intent.type = "mode" /\ HasSession(Session) -> "ensure"
      [] intent.type = "stop" -> IF HasSession(Session) THEN "stop" ELSE "mark"
      [] intent.type = "interrupt" /\ HasSession(Session) -> "route"
      [] OTHER -> ""

\* Queue.take, and what the handler reads of the thread first.
Take ==
    /\ job = None /\ intents # << >> /\ MayAct
    /\ LET intent == Head(intents)
       IN  /\ job' = IF Beginning(intent) = "" THEN None
                     ELSE [type |-> intent.type, step |-> Beginning(intent), read |-> thread,
                           turn |-> IF intent.type = "turn" THEN intent.turn ELSE NoTurn,
                           provider |-> IF intent.type = "turn" THEN intent.provider ELSE None,
                           start |-> None, recovered |-> FALSE]
           /\ \/ Beginning(intent) = "mark" /\ PassesOver
              \/ Gone(intent) /\ Lose({intent.turn})
              \/ Beginning(intent) # "mark" /\ ~Gone(intent) /\ UNCHANGED history
    /\ intents' = Tail(intents)
    /\ UNCHANGED <<thread, spent, breaker>> /\ NoAgent /\ Aside

(* ensureSessionForThread: what it decides from the read model, the live    *)
(* session and the binding.                                                 *)
SessionProvider(session) == IF session = NoSession THEN None ELSE session.provider
Preferred ==
    CASE job.provider # None -> job.provider
      [] job.provider = None /\ SessionProvider(Session) # None -> SessionProvider(Session)
      [] OTHER -> "codex"
ProviderChanged == job.provider # None /\ job.provider # SessionProvider(Session)
Reuses ==
    /\ HasSession(Session) /\ Active # 0
    /\ thread.mode = Session.mode /\ ~ProviderChanged
\* After an error, without the message to resume at.
WholeConversation(cursor) ==
    IF cursor # None /\ cursor.provider = "claudeCode" /\ cursor.conversation # 0
    THEN [cursor EXCEPT !.at = conversations[cursor.conversation]] ELSE cursor
\* Mutant of ResumeCursor: the stored cursor before that of the live session.
ResumeCursorMutant ==
    IF ~HasSession(Session) \/ ProviderChanged THEN None
    ELSE IF directory # None THEN directory.cursor
    ELSE IF Active # 0 THEN contexts[Active].cursor ELSE None
ResumeCursor ==
    IF ~HasSession(Session) \/ ProviderChanged THEN None
    ELSE IF Active # 0 THEN contexts[Active].cursor
    ELSE LET stored == IF directory = None THEN None ELSE directory.cursor
         IN  IF Session.status = "error" THEN WholeConversation(stored) ELSE stored

\* The turns that compactions send themselves are numbered after the user's.
FirstAcknowledgement == setting.turns

\* Mutant of AfterEnsure: the turn is not sent after its session was restarted.
AfterEnsureMutant == IF job.type = "mode" \/ job.start # None THEN "done" ELSE "send"
AfterEnsure == IF job.type = "mode" THEN "done" ELSE "send"
Ensure ==
    /\ job # None /\ job.step = "ensure" /\ MayAct
    /\ IF Reuses
       THEN IF AfterEnsure = "done" THEN Succeed ELSE NextJob(AfterEnsure) /\ Go
       ELSE /\ job' = [job EXCEPT !.step = "start",
                          !.start = [provider |-> Preferred, mode |-> thread.mode,
                                     cursor |-> ResumeCursor, prompt |-> {}, then |-> "bind"]]
            /\ Go
    /\ UNCHANGED spent /\ NoDispatch /\ NoAgent /\ Aside

Start ==
    /\ job # None /\ job.step = "start" /\ MayAct
    /\ LET s == job.start
           kept == IF s.then = "ready" THEN s.prompt ELSE Payload
       IN  \/ /\ StartAndBind(s.provider, s.mode, s.cursor, s.prompt, kept)
              /\ NextJob(s.then) /\ Tries(s.provider)
              /\ UNCHANGED <<breaker, spent>>
           \/ StartFails(s.provider) /\ FailTrying({s.provider})
    /\ NoDispatch /\ Aside

(* bindSessionToThread *)
Bind ==
    /\ job # None /\ job.step = "bind" /\ MayAct
    /\ SetSession(Ready(job.start.provider, job.start.mode))
    /\ IF AfterEnsure = "done" THEN Succeed ELSE NextJob(AfterEnsure) /\ Go
    /\ UNCHANGED <<intents, spent>> /\ NoAgent /\ Aside

\* The session that the binding names is started again if it is not live, once.
Recover ==
    /\ directory # None /\ ~Routed /\ ~job.recovered /\ directory.cursor # None
    /\ \/ /\ StartAndBind(directory.provider, directory.mode, directory.cursor, directory.prompt,
                           Payload)
          /\ job' = [job EXCEPT !.recovered = TRUE] /\ Tries(directory.provider)
          /\ UNCHANGED <<breaker, spent>>
       \/ StartFails(directory.provider) /\ FailTrying({directory.provider})
CannotRoute == directory # None => ~Routed /\ (job.recovered \/ directory.cursor = None)

(* providerService.sendTurn *)
Send ==
    /\ job # None /\ job.step = "send" /\ MayAct
    /\ \/ Recover
       \/ /\ Routed /\ AcceptsTurn(RoutedContext)
          /\ SendTurn(RoutedContext, job.turn)
          /\ directory' = [directory EXCEPT !.cursor = contexts[RoutedContext].cursor]
          /\ SucceedForgetting((history.ended \cap 1..setting.turns) \ Memory(RoutedContext))
          /\ UNCHANGED <<sessions, conversations, spent>>
       \/ /\ CannotRoute \/ (Routed /\ ~AcceptsTurn(RoutedContext))
          /\ Fail /\ NoAgent /\ UNCHANGED spent
       \/ Routed /\ Spend("faults") /\ Fail /\ NoAgent
    /\ NoDispatch /\ Aside

(* providerService.interruptTurn, and likewise the answers to approvals and *)
(* questions: a session is recovered for them.                              *)
Interrupt ==
    /\ job # None /\ job.step = "route" /\ MayAct
    /\ \/ Recover
       \/ /\ Routed
          /\ contexts' = [contexts EXCEPT ![RoutedContext].interrupted = Running(RoutedContext)]
          /\ Succeed
          /\ UNCHANGED <<sessions, conversations, runtime, directory, spent>>
       \/ CannotRoute /\ Fail /\ NoAgent /\ UNCHANGED spent
    /\ NoDispatch /\ Aside

(* providerService.stopSession, of a stop and of a compaction: the latter   *)
(* goes on when there is no binding.                                        *)
Stop ==
    /\ job # None /\ job.step = "stop" /\ MayAct
    /\ IF directory = None \/ ~HasSession(job.read.session)
       THEN /\ IF job.type = "compact" THEN NextJob("mark") /\ PassesOver /\ UNCHANGED breaker
               ELSE Fail
            /\ NoAgent
       ELSE /\ IF Routed
               THEN StopSession(RoutedContext) /\ Lose(TurnsOf(RoutedContext))
               ELSE UNCHANGED <<contexts, sessions, runtime, history>>
            /\ directory' = None
            /\ NextJob("mark")
            /\ UNCHANGED <<conversations, breaker>>
    /\ UNCHANGED spent /\ NoDispatch /\ Aside

Stopped(session) ==
    IF session = NoSession
    THEN [status |-> "stopped", activeTurn |-> NoTurn, mode |-> "full-access", provider |-> None]
    ELSE [session EXCEPT !.status = "stopped", !.activeTurn = NoTurn]

(* The session is marked stopped, as it was read; a compaction then starts  *)
(* a session with the summary in its system prompt.                         *)
Mark ==
    /\ job # None /\ job.step = "mark" /\ MayAct
    /\ SetSession(Stopped(job.read.session))
    /\ IF job.type = "stop" THEN Succeed
       ELSE /\ job' = [job EXCEPT !.step = "start",
                          !.start = [provider |-> IF SessionProvider(job.read.session) = None
                                                  THEN "codex" ELSE job.read.session.provider,
                                     mode |-> job.read.mode, cursor |-> None,
                                     prompt |-> job.read.messages, then |-> "ready"]]
            /\ Go
    /\ UNCHANGED <<intents, spent>> /\ NoAgent /\ Aside

(* The rest of handleCompaction, up to its own turn. *)
MarkReady ==
    /\ job # None /\ job.step = "ready" /\ MayAct
    /\ SetSession(Ready(job.start.provider, job.start.mode))
    /\ NextJob("clear") /\ Go
    /\ UNCHANGED <<intents, spent>> /\ NoAgent /\ Aside

Clear ==
    /\ job # None /\ job.step = "clear" /\ MayAct
    /\ thread' = [thread EXCEPT !.messages = {}]
    /\ job' = [job EXCEPT !.step = "ensure", !.turn = FirstAcknowledgement + Len(contexts)]
    /\ Go
    /\ UNCHANGED <<intents, spent>> /\ NoAgent /\ Aside

-----------------------------------------------------------------------------
(***************************************************************************)
(* The agents, outside of the repository, and what the adapters make of     *)
(* their messages.                                                          *)
(***************************************************************************)

SpendEnd(state, full) ==
    CASE full -> state # "interrupted" /\ Spend("full")
      [] ~full /\ state = "failed" -> Spend("faults")
      [] OTHER -> UNCHANGED spent

(* A turn ends: result of Claude, turn/completed of Codex.  Claude reports  *)
(* a failure and the token usage by events of their own and remembers where *)
(* to resume, in the context only.                                          *)
CompleteTurn(c, state, full) ==
    LET context == contexts[c]
        p == context.provider
        turn == context.turn
        held == conversations[context.conversation] \cup {turn}
        completed == [Completed(p, turn, state) EXCEPT !.full = full]
    IN  /\ Running(c)
        /\ state = "interrupted" => context.interrupted
        /\ SpendEnd(state, full)
        /\ conversations' = [conversations EXCEPT ![context.conversation] = held]
        /\ contexts' = [contexts EXCEPT ![c].turn = NoTurn,
                           ![c].cursor.conversation = context.conversation,
                           ![c].cursor.at = IF p = "codex" THEN {} ELSE held]
        /\ runtime' = runtime
              \o (IF state = "failed" /\ p = "claudeCode"
                  THEN << [Event("runtime.error", p, turn) EXCEPT !.full = full] >> ELSE << >>)
              \o << completed >>
              \o (IF p = "claudeCode" THEN << Event("thread.token-usage.updated", p, turn) >>
                  ELSE << >>)
        /\ history' = [history EXCEPT !.ended = @ \cup {turn}]
        /\ UNCHANGED <<setting, thread, intents, worker, sessions, ingesting, breaker>>

(* turn/completed of a turn that Codex runs besides the last one it was     *)
(* sent: the manager then has no active turn, though that one goes on.      *)
CompleteOther(c, turn, state, full) ==
    LET context == contexts[c]
    IN  /\ context.up /\ turn \in context.others
        /\ SpendEnd(state, full)
        /\ conversations' = [conversations EXCEPT ![context.conversation] = @ \cup {turn}]
        /\ contexts' = [contexts EXCEPT ![c].turn = NoTurn, ![c].others = TurnsOf(c) \ {turn}]
        /\ runtime' = Append(runtime, [Completed(context.provider, turn, state)
                                         EXCEPT !.full = full])
        /\ history' = [history EXCEPT !.ended = @ \cup {turn}]
        /\ UNCHANGED <<setting, thread, intents, worker, sessions, ingesting, breaker>>

(* The stream of Claude fails, the process of Codex exits: whatever context *)
(* the map holds for the thread is deleted.                                 *)
LoseSession(c) ==
    LET context == contexts[c]
        p == context.provider
    IN  /\ context.up
        /\ Spend("faults")
        /\ contexts' = [contexts EXCEPT ![c] = Down(@)]
        /\ sessions' = [sessions EXCEPT ![p] = 0]
        /\ runtime' = runtime
              \o (IF p = "codex" THEN << Exited(p) >>
                  ELSE << Event("runtime.error", p, context.turn),
                          Completed(p, context.turn, "failed") >>)
        /\ Lose(TurnsOf(c))
        /\ UNCHANGED <<setting, thread, intents, worker, conversations, ingesting, breaker>>

-----------------------------------------------------------------------------
(***************************************************************************)
(* Ingestion of one runtime event.                                          *)
(***************************************************************************)
IngestRead ==
    /\ ingesting = None /\ runtime # << >>
    /\ ingesting' = [event |-> Head(runtime), session |-> Session]
    /\ runtime' = Tail(runtime)
    /\ UNCHANGED <<setting, thread, intents, worker, sessions, contexts, conversations, breaker,
                   spent, history>>

ActiveTurn(session) == IF session = NoSession THEN NoTurn ELSE session.activeTurn

(* shouldApplyThreadLifecycle, shouldApplyRuntimeError *)
Applies(event, session) ==
    LET active == ActiveTurn(session)
        conflicts == active # NoTurn /\ event.turn # NoTurn /\ active # event.turn
        missing == active # NoTurn /\ event.turn = NoTurn
    IN  CASE event.type \in {"turn.started", "runtime.error"} -> ~conflicts
          [] event.type = "turn.completed" -> ~conflicts /\ ~missing
          [] OTHER -> TRUE

NextStatus(event, session) ==
    CASE event.type = "session.state.changed" -> event.state
      [] event.type = "turn.started" -> "running"
      [] event.type = "session.exited" -> "stopped"
      [] event.type = "runtime.error" -> "error"
      [] event.type = "turn.completed" -> IF event.state = "failed" THEN "error" ELSE "ready"
      [] event.type = "session.started" ->
            IF ActiveTurn(session) # NoTurn THEN "running" ELSE "ready"

\* Mutant of NextActiveTurn: a session that exits keeps its turn.
NextActiveTurnMutant(event, session) ==
    CASE event.type \in {"turn.started", "runtime.error"} -> event.turn
      [] event.type = "turn.completed" -> NoTurn
      [] OTHER -> ActiveTurn(session)

NextActiveTurn(event, session) ==
    CASE event.type \in {"turn.started", "runtime.error"} -> event.turn
      [] event.type \in {"turn.completed", "session.exited"} -> NoTurn
      [] OTHER -> ActiveTurn(session)

\* The whole session is written, from the one that was read.
NextSession(event, session) ==
    IF event.type = "thread.token-usage.updated" \/ ~Applies(event, session) THEN session
    ELSE [status |-> NextStatus(event, session), activeTurn |-> NextActiveTurn(event, session),
          mode |-> IF session = NoSession THEN "full-access" ELSE session.mode,
          provider |-> event.provider]

(* A turn that left the context window nearly full, or a prompt that        *)
(* exceeds it, asks for a compaction.                                       *)
AsksCompaction(event, session) ==
    /\ event.full /\ ~breaker.disabled
    /\ \/ event.type = "runtime.error"
       \/ event.type = "turn.completed" /\ event.state = "completed" /\ Applies(event, session)

IngestWrite ==
    /\ ingesting # None
    /\ LET event == ingesting.event
           session == ingesting.session
       IN  /\ thread' = IF Applies(event, session)
                        THEN [thread EXCEPT !.session = NextSession(event, session)] ELSE thread
           /\ intents' = IF AsksCompaction(event, session)
                         THEN Append(intents, [type |-> "compact"]) ELSE intents
    /\ ingesting' = None
    /\ UNCHANGED <<setting, worker, agents, breaker, spent, history>>

-----------------------------------------------------------------------------
(* The server is gone, with what it had in memory, and starts again.        *)
Restart ==
    /\ Spend("restarts")
    /\ intents' = << >> /\ job' = None /\ runtime' = << >> /\ ingesting' = None
    /\ sessions' = [p \in Providers |-> 0]
    /\ contexts' = [c \in DOMAIN contexts |-> Down(contexts[c])]
    /\ breaker' = [failures |-> 0, disabled |-> FALSE]
    /\ UNCHANGED <<setting, thread, directory, conversations, history>>

User ==
    \/ \E provider \in setting.providers : RequestTurn(provider)
    \/ RequestMode \/ RequestCompaction \/ RequestStop \/ RequestInterrupt
Reactor ==
    Take \/ Ensure \/ Start \/ Bind \/ Send \/ Interrupt \/ Stop \/ Mark \/ MarkReady \/ Clear
Ingestion == IngestRead \/ IngestWrite
Agent(c) ==
    \E state \in {"completed", "failed", "interrupted"}, full \in BOOLEAN :
        \/ CompleteTurn(c, state, full)
        \/ \E turn \in contexts[c].others : CompleteOther(c, turn, state, full)

Next ==
    \/ User \/ Reactor \/ Ingestion \/ Restart
    \/ \E c \in DOMAIN contexts : Agent(c) \/ LoseSession(c)

Spec == Init /\ [][Next]_vars

(* Both workers take what is in their queues, and an agent ends the turns   *)
(* that it runs.                                                            *)
Fairness ==
    /\ WF_vars(Reactor) /\ WF_vars(Ingestion)
    /\ WF_vars(\E c \in DOMAIN contexts : Agent(c))
FairSpec == Spec /\ Fairness

-----------------------------------------------------------------------------
(***************************************************************************)
(* Properties.                                                              *)
(***************************************************************************)
Turns == {NoTurn} \cup 1..setting.turns \cup {FirstAcknowledgement + n : n \in DOMAIN contexts}
SessionOK(session) ==
    session = NoSession \/
        /\ session.status \in Statuses /\ session.activeTurn \in Turns
        /\ session.mode \in Modes /\ session.provider \in Providers \cup {None}
CursorOK(cursor) ==
    /\ cursor.provider \in Providers
    /\ cursor.conversation \in 0..Len(conversations) /\ cursor.at \subseteq Turns
ContextsOK ==
    \A c \in DOMAIN contexts :
        /\ contexts[c].provider \in Providers /\ contexts[c].mode \in Modes
        /\ contexts[c].turn \in Turns
        /\ contexts[c].others \cup contexts[c].prompt \subseteq Turns
        /\ contexts[c].conversation \in DOMAIN conversations
        /\ CursorOK(contexts[c].cursor)

(* The type of every variable; what an adapter's map holds for the thread   *)
(* is a live context of that adapter.                                       *)
TypeOK ==
    /\ SessionOK(Session) /\ thread.mode \in Modes /\ thread.messages \subseteq Turns
    /\ ContextsOK
    /\ \A p \in Providers : sessions[p] # 0 => contexts[sessions[p]].provider = p
    /\ directory # None => directory.provider \in Providers /\ CursorOK(directory.cursor)
    /\ ingesting # None => SessionOK(ingesting.session)
    /\ breaker.failures \in Nat /\ breaker.disabled \in BOOLEAN
    /\ \A r \in Requests : spent[r] <= setting[r]

(* When everything has been processed, the turn that the thread shows as    *)
(* running is being run by a live session: no stale write of either worker  *)
(* leaves a finished turn running (applies, bindSessionToThread).           *)
ShownTurnRuns ==
    Settled /\ spent.restarts = 0 /\ ActiveTurn(Session) # NoTurn
        => \E c \in DOMAIN contexts : contexts[c].up /\ Session.activeTurn \in TurnsOf(c)

(* When everything has been processed, a thread shown as stopped has no     *)
(* session that the router could reach.  Not after a switch of providers,   *)
(* and not when a stop or a compaction passed over the session that lives:  *)
(* the exit of an earlier one shows the thread as stopped for a moment, in  *)
(* which neither stops anything (processSessionStopRequested,               *)
(* handleCompaction).                                                       *)
OneProvider == \A p, q \in history.tried : p = q
StoppedIsStopped ==
    (Settled /\ SessionStatus = "stopped" /\ ~history.passed /\ OneProvider)
        => \A p \in Providers : sessions[p] = 0

(* What the thread, the maps and the directory say of sessions is           *)
(* well-formed, and true once everything has been processed.                *)
SessionsShown == TypeOK /\ ShownTurnRuns /\ StoppedIsStopped

(* A turn is sent to a session that remembers every turn that ended before: *)
(* across a change of the runtime mode, across a compaction of Claude when  *)
(* ingestion keeps up, and with Codex across a restart of the server.       *)
KeepsMemory ==
    /\ setting.patient /\ setting.stops = 0 /\ setting.faults = 0
    /\ Cardinality(setting.providers) = 1
    /\ setting.modes + setting.compacts + setting.full > 1 => setting.compacts + setting.full = 0
    /\ setting.restarts > 0 => setting.providers = {"codex"}
    /\ setting.compacts + setting.full > 0 => setting.prompt /\ setting.providers = {"claudeCode"}
ConversationKept == KeepsMemory => history.forgotten = {}

(* A turn that was requested is run to its end or found to be impossible:   *)
(* none is forgotten by a queue, a lost session or a session that the read  *)
(* model shows and nobody runs.                                             *)
MaxTurns == CHOOSE n \in {s.turns : s \in Settings} : \A s \in Settings : s.turns <= n
TurnsSettle ==
    \A turn \in 1..MaxTurns :
        (turn <= spent.turns) ~> (turn \in history.ended \cup history.lost \/ spent.restarts > 0)

(* Whatever happens between two turns, the agent that gets the second       *)
(* remembers the first.                                                     *)
NothingForgotten == history.forgotten = {}
=============================================================================

----------------------- MODULE ProviderSessionsProofs -----------------------
(***************************************************************************)
(* Proofs about the sessions of a thread, for any circumstances: what the   *)
(* read model shows of them is true once everything has been processed, and *)
(* a conversation goes on where it was, as far as KeepsMemory says.         *)
(***************************************************************************)
EXTENDS ProviderSessions, SequenceTheorems, FiniteSetTheorems, TLAPS

(* The types of what the variables hold: T are the turns that there are, n  *)
(* the number of conversations.  Both grow.                                 *)
SessionsOf(T) ==
    [status : Statuses, activeTurn : T, mode : Modes, provider : Providers \cup {None}]
ReadsOf(T) ==
    [session : {NoSession} \cup SessionsOf(T), mode : Modes, messages : SUBSET T]
CursorsOf(T, n) ==
    {cursor \in [provider : Providers, conversation : 0..n, at : SUBSET T] :
        cursor.provider = "codex" => cursor.conversation # 0}
ContextsOf(T, n) ==
    {context \in [provider : Providers, mode : Modes, turn : T, others : SUBSET T,
                  conversation : 1..n, cursor : CursorsOf(T, n), prompt : SUBSET T,
                  interrupted : BOOLEAN, up : BOOLEAN] :
        context.provider = "claudeCode" => context.others = {}}
BindingsOf(T, n) ==
    [provider : Providers, mode : Modes, cursor : CursorsOf(T, n), prompt : SUBSET T]
StartsOf(T, n) ==
    [provider : Providers, mode : Modes, cursor : {None} \cup CursorsOf(T, n),
     prompt : SUBSET T, then : {"bind", "ready"}]
JobsOf(T, n) ==
    [type : {"turn", "mode", "compact", "stop", "interrupt"},
     step : {"ensure", "start", "bind", "send", "route", "stop", "mark", "ready", "clear"},
     read : ReadsOf(T), turn : T, provider : {None} \cup Providers,
     start : {None} \cup StartsOf(T, n), recovered : BOOLEAN]
EventsOf(T) ==
    {event \in [type : EventTypes, provider : Providers, turn : T, state : EventStates,
                full : BOOLEAN] :
        event.type = "session.state.changed" => event.state \in {"starting", "ready"}}
IntentsOf(T) ==
    [type : {"turn"}, turn : T, provider : Providers]
        \cup [type : {"mode", "compact", "stop", "interrupt"}]

N == Len(conversations)
BoundsTyped ==
    /\ setting \in Settings
    /\ spent \in [Requests -> Nat] /\ \A r \in Requests : spent[r] <= setting[r]
ThreadTyped == thread \in ReadsOf(Turns)
IntentsTyped == intents \in Seq(IntentsOf(Turns))
JobTyped ==
    job # None =>
        /\ job \in JobsOf(Turns, N)
        /\ job.step \in {"start", "bind", "ready", "clear"} => job.start \in StartsOf(Turns, N)
        /\ job.step \in {"bind", "ready", "clear"} => contexts # << >>
DirectoryTyped == directory # None => directory \in BindingsOf(Turns, N)
AgentsTyped ==
    /\ conversations \in Seq(SUBSET Turns)
    /\ contexts \in Seq(ContextsOf(Turns, N))
    /\ sessions \in [Providers -> 0..Len(contexts)]
    /\ \A p \in Providers : sessions[p] # 0 => contexts[sessions[p]].provider = p
RuntimeTyped == runtime \in Seq(EventsOf(Turns))
IngestingTyped ==
    ingesting # None => /\ ingesting.event \in EventsOf(Turns)
                        /\ ingesting.session \in {NoSession} \cup SessionsOf(Turns)
BreakerTyped == breaker \in [failures : Nat, disabled : BOOLEAN]
HistoryTyped ==
    history \in [ended : SUBSET Turns, forgotten : SUBSET Turns, lost : SUBSET Turns,
                failed : Nat, tried : SUBSET Providers, passed : BOOLEAN]
Typed ==
    /\ BoundsTyped /\ ThreadTyped /\ IntentsTyped /\ JobTyped /\ DirectoryTyped
    /\ AgentsTyped /\ RuntimeTyped /\ IngestingTyped /\ BreakerTyped /\ HistoryTyped

--------------------
(* What a step does not write keeps its type, while turns and conversations *)
(* grow.                                                                    *)
Grown ==
    /\ Turns \subseteq Turns' /\ N \in Nat /\ N' \in Nat /\ N <= N'
    /\ contexts # << >> => contexts' # << >>

LEMMA SetsGrow ==
  ASSUME NEW T, NEW U, T \subseteq U, NEW n \in Nat, NEW m \in Nat, n <= m
  PROVE /\ SessionsOf(T) \subseteq SessionsOf(U) /\ ReadsOf(T) \subseteq ReadsOf(U)
        /\ CursorsOf(T, n) \subseteq CursorsOf(U, m)
        /\ ContextsOf(T, n) \subseteq ContextsOf(U, m)
        /\ BindingsOf(T, n) \subseteq BindingsOf(U, m)
        /\ StartsOf(T, n) \subseteq StartsOf(U, m)
        /\ JobsOf(T, n) \subseteq JobsOf(U, m)
        /\ EventsOf(T) \subseteq EventsOf(U) /\ IntentsOf(T) \subseteq IntentsOf(U)
<1>1. SessionsOf(T) \subseteq SessionsOf(U) BY DEF SessionsOf
<1>2. ReadsOf(T) \subseteq ReadsOf(U) BY <1>1 DEF ReadsOf
<1>3. CursorsOf(T, n) \subseteq CursorsOf(U, m) BY DEF CursorsOf
<1>4. ContextsOf(T, n) \subseteq ContextsOf(U, m) BY <1>3 DEF ContextsOf
<1>5. BindingsOf(T, n) \subseteq BindingsOf(U, m) BY <1>3 DEF BindingsOf
<1>6. StartsOf(T, n) \subseteq StartsOf(U, m) BY <1>3 DEF StartsOf
<1>7. JobsOf(T, n) \subseteq JobsOf(U, m) BY <1>2, <1>6 DEF JobsOf
<1>8. EventsOf(T) \subseteq EventsOf(U) /\ IntentsOf(T) \subseteq IntentsOf(U)
 BY DEF EventsOf, IntentsOf
<1> QED BY <1>1, <1>2, <1>3, <1>4, <1>5, <1>6, <1>7, <1>8

LEMMA SequencesGrow ==
  ASSUME NEW S, NEW R, S \subseteq R, NEW s \in Seq(S) PROVE s \in Seq(R)
OBVIOUS

LEMMA SameIs ==
  ASSUME AgentsTyped, UNCHANGED <<setting, contexts, conversations>>
  PROVE Grown /\ Turns' = Turns /\ N' = N
BY DEF Grown, Turns, FirstAcknowledgement, N, AgentsTyped

LEMMA ThreadStays == ASSUME Grown, ThreadTyped, UNCHANGED thread PROVE ThreadTyped'
BY SetsGrow DEF Grown, ThreadTyped

LEMMA IntentsStay == ASSUME Grown, IntentsTyped, UNCHANGED intents PROVE IntentsTyped'
<1>1. IntentsOf(Turns) \subseteq IntentsOf(Turns') BY SetsGrow DEF Grown
<1> QED BY <1>1, SequencesGrow DEF IntentsTyped

LEMMA JobStays == ASSUME Grown, JobTyped, UNCHANGED job PROVE JobTyped'
<1>1. JobsOf(Turns, N) \subseteq JobsOf(Turns', N') /\ StartsOf(Turns, N) \subseteq StartsOf(Turns', N')
 BY SetsGrow DEF Grown
<1> QED BY <1>1 DEF JobTyped, Grown

LEMMA DirectoryStays == ASSUME Grown, DirectoryTyped, UNCHANGED directory PROVE DirectoryTyped'
<1>1. BindingsOf(Turns, N) \subseteq BindingsOf(Turns', N') BY SetsGrow DEF Grown
<1> QED BY <1>1 DEF DirectoryTyped

LEMMA RuntimeStays == ASSUME Grown, RuntimeTyped, UNCHANGED runtime PROVE RuntimeTyped'
<1>1. EventsOf(Turns) \subseteq EventsOf(Turns') BY SetsGrow DEF Grown
<1> QED BY <1>1, SequencesGrow DEF RuntimeTyped

LEMMA IngestingStays == ASSUME Grown, IngestingTyped, UNCHANGED ingesting PROVE IngestingTyped'
<1>1. EventsOf(Turns) \subseteq EventsOf(Turns') /\ SessionsOf(Turns) \subseteq SessionsOf(Turns')
 BY SetsGrow DEF Grown
<1> QED BY <1>1 DEF IngestingTyped

LEMMA HistoryStays == ASSUME Grown, HistoryTyped, UNCHANGED history PROVE HistoryTyped'
BY DEF Grown, HistoryTyped

LEMMA BoundsStay == ASSUME BoundsTyped, UNCHANGED <<setting, spent>> PROVE BoundsTyped'
BY DEF BoundsTyped

LEMMA AgentsStay ==
  ASSUME AgentsTyped, UNCHANGED <<setting, sessions, contexts, conversations>>
  PROVE AgentsTyped'
<1>1. Turns' = Turns /\ N' = N BY SameIs
<1> QED BY <1>1 DEF AgentsTyped

--------------------
(* What the adapters do to their sessions.                                  *)
LEMMA ContextsAre ==
  ASSUME AgentsTyped
  PROVE /\ \A c \in DOMAIN contexts : contexts[c] \in ContextsOf(Turns, N)
        /\ \A k \in 1..N : conversations[k] \in SUBSET Turns
        /\ N \in Nat /\ Len(contexts) \in Nat /\ DOMAIN contexts = 1..Len(contexts)
        /\ \A p \in Providers : sessions[p] # 0 =>
              sessions[p] \in DOMAIN contexts /\ contexts[sessions[p]] \in ContextsOf(Turns, N)
<1>1. /\ \A c \in DOMAIN contexts : contexts[c] \in ContextsOf(Turns, N)
      /\ \A k \in 1..N : conversations[k] \in SUBSET Turns
      /\ N \in Nat /\ Len(contexts) \in Nat /\ DOMAIN contexts = 1..Len(contexts)
 BY DEF AgentsTyped, N
<1>2. \A p \in Providers : sessions[p] # 0 => sessions[p] \in DOMAIN contexts
 BY <1>1 DEF AgentsTyped
<1> QED BY <1>1, <1>2

LEMMA DownIs ==
  ASSUME NEW T, NEW n, NEW context \in ContextsOf(T, n), NoTurn \in T
  PROVE /\ Down(context) \in ContextsOf(T, n)
        /\ ~Down(context).up /\ Down(context).turn = NoTurn /\ Down(context).others = {}
        /\ Down(context).provider = context.provider
        /\ Down(context).conversation = context.conversation
        /\ Down(context).cursor = context.cursor /\ Down(context).prompt = context.prompt
BY DEF Down, ContextsOf

LEMMA RecalledIs ==
  ASSUME AgentsTyped, NEW p \in Providers, NEW cursor \in {None} \cup CursorsOf(Turns, N)
  PROVE Recalled(p, cursor) \in SUBSET Turns
<1>1. CASE cursor = None BY <1>1 DEF Recalled
<1>2. CASE cursor # None
 <2>1. cursor.provider \in Providers /\ cursor.at \in SUBSET Turns BY <1>2 DEF CursorsOf
 <2>2. cursor.provider = "codex" => cursor.conversation \in 1..N
  BY <1>2, ContextsAre DEF CursorsOf
 <2>3. cursor.provider = "codex" => conversations[cursor.conversation] \in SUBSET Turns
  BY <2>2, ContextsAre
 <2> QED BY <1>2, <2>1, <2>3 DEF Recalled
<1> QED BY <1>1, <1>2

(* A session that starts is the last context, with a cursor of its own.     *)
LEMMA StartSessionIs ==
  ASSUME AgentsTyped, RuntimeTyped, UNCHANGED setting, NEW p \in Providers, NEW mode \in Modes,
    NEW cursor \in {None} \cup CursorsOf(Turns, N), NEW prompt \in SUBSET Turns,
    StartSession(p, mode, cursor, prompt)
  PROVE /\ AgentsTyped' /\ RuntimeTyped' /\ Grown
        /\ Len(contexts') = Len(contexts) + 1 /\ Len(contexts) \in Nat
        /\ contexts'[Len(contexts')].cursor \in CursorsOf(Turns', N')
        /\ \A c \in DOMAIN contexts : contexts'[c] = contexts[c]
        /\ sessions' = [sessions EXCEPT ![p] = Len(contexts')]
<1> DEFINE resumes == p = "codex" /\ cursor # None /\ cursor.provider = p
           conversation == IF resumes THEN cursor.conversation ELSE Len(conversations) + 1
           own == [provider |-> p, conversation |-> conversation, at |-> {}]
           first == CASE p = "codex" -> own
                      [] p # "codex" /\ cursor # None /\ cursor.provider = p -> cursor
                      [] OTHER -> Blank
           context == [provider |-> p, mode |-> mode, turn |-> NoTurn, others |-> {},
                       conversation |-> conversation, cursor |-> first,
                       prompt |-> IF p = "claudeCode" THEN prompt ELSE {},
                       interrupted |-> FALSE, up |-> TRUE]
           events == IF p = "codex"
                     THEN << StateChanged(p, "starting"), StateChanged(p, "ready") >>
                     ELSE << Event("session.started", p, NoTurn), StateChanged(p, "ready") >>
<1>1. /\ conversations' = IF resumes THEN conversations
                          ELSE Append(conversations, Recalled(p, cursor))
      /\ contexts' = Append(contexts, context)
      /\ sessions' = [sessions EXCEPT ![p] = Len(contexts')]
      /\ runtime' = runtime \o events
 BY DEF StartSession
<1>2. /\ N \in Nat /\ N' \in Nat /\ N <= N' /\ conversation \in 1..N'
      /\ conversations' \in Seq(SUBSET Turns)
 <2>1. CASE resumes BY <1>1, <2>1, ContextsAre DEF CursorsOf, N, AgentsTyped
 <2>2. CASE ~resumes BY <1>1, <2>2, ContextsAre, RecalledIs DEF N, AgentsTyped
 <2> QED BY <2>1, <2>2
<1> HIDE DEF conversation, events
<1>3. first \in CursorsOf(Turns, N')
 <2>1. own \in CursorsOf(Turns, N') BY <1>2 DEF CursorsOf
 <2>2. Blank \in CursorsOf(Turns, N') BY <1>2 DEF CursorsOf, Blank, Providers
 <2>3. cursor # None => cursor \in CursorsOf(Turns, N') BY <1>2, SetsGrow
 <2> HIDE DEF own
 <2> QED BY <2>1, <2>2, <2>3
<1> HIDE DEF first
<1>4. context \in ContextsOf(Turns, N') BY <1>2, <1>3 DEF ContextsOf, Turns
<1>5. contexts \in Seq(ContextsOf(Turns, N'))
 <2>1. ContextsOf(Turns, N) \subseteq ContextsOf(Turns, N') BY <1>2, SetsGrow
 <2> QED BY <2>1, SequencesGrow DEF AgentsTyped
<1>6. /\ context.cursor = first /\ context.provider = p OBVIOUS
<1> HIDE DEF context
<1>7. /\ contexts' \in Seq(ContextsOf(Turns, N')) /\ Len(contexts') = Len(contexts) + 1
      /\ contexts'[Len(contexts')] = context /\ Len(contexts) \in Nat
      /\ \A c \in DOMAIN contexts : contexts'[c] = contexts[c]
      /\ DOMAIN contexts = 1..Len(contexts) /\ DOMAIN contexts' = 1..Len(contexts')
 BY <1>1, <1>4, <1>5
<1>8. Turns \subseteq Turns' BY <1>7 DEF Turns, FirstAcknowledgement
<1>9. contexts' \in Seq(ContextsOf(Turns', N')) /\ conversations' \in Seq(SUBSET Turns')
 <2>0. N' \in Nat /\ N' <= N' BY <1>2
 <2>1. ContextsOf(Turns, N') \subseteq ContextsOf(Turns', N') BY <1>8, <2>0, SetsGrow
 <2>2. SUBSET Turns \subseteq SUBSET Turns' BY <1>8
 <2> QED BY <1>2, <1>7, <2>1, <2>2, SequencesGrow
<1>10. /\ sessions' \in [Providers -> 0..Len(contexts')]
       /\ \A q \in Providers : sessions'[q] # 0 => contexts'[sessions'[q]].provider = q
 <2>1. \A q \in Providers : q # p => sessions'[q] = sessions[q] BY <1>1 DEF AgentsTyped
 <2>2. sessions'[p] = Len(contexts') BY <1>1 DEF AgentsTyped
 <2>3. sessions' \in [Providers -> 0..Len(contexts')] BY <1>1, <1>7 DEF AgentsTyped
 <2>4. \A q \in Providers : sessions[q] # 0 => contexts'[sessions[q]].provider = q
  BY <1>7, ContextsAre DEF AgentsTyped
 <2> QED BY <1>6, <1>7, <2>1, <2>2, <2>3, <2>4
<1>11. RuntimeTyped'
 <2>1. NoTurn \in Turns' BY DEF Turns
 <2>2. events \in Seq(EventsOf(Turns'))
  <3>1. /\ StateChanged(p, "starting") \in EventsOf(Turns')
        /\ StateChanged(p, "ready") \in EventsOf(Turns')
        /\ Event("session.started", p, NoTurn) \in EventsOf(Turns')
   BY <2>1 DEF StateChanged, Event, EventsOf, EventTypes, EventStates
  <3> QED BY <3>1 DEF events
 <2>3. runtime \in Seq(EventsOf(Turns'))
  <3>1. EventsOf(Turns) \subseteq EventsOf(Turns') BY <1>2, <1>8, SetsGrow
  <3> QED BY <3>1, SequencesGrow DEF RuntimeTyped
 <2> QED BY <1>1, <2>2, <2>3 DEF RuntimeTyped
<1>12. AgentsTyped' BY <1>9, <1>10 DEF AgentsTyped
<1>13. Grown BY <1>2, <1>7, <1>8 DEF Grown
<1>14. first \in CursorsOf(Turns', N')
 <2>1. N' \in Nat /\ N' <= N' BY <1>2
 <2> QED BY <1>3, <1>8, <2>1, SetsGrow
<1> QED BY <1>1, <1>6, <1>7, <1>11, <1>12, <1>13, <1>14

(* A context that is replaced by another of the same adapter.               *)
LEMMA ContextReplaced ==
  ASSUME AgentsTyped, UNCHANGED setting, NEW c \in DOMAIN contexts,
    NEW new \in ContextsOf(Turns, N), new.provider = contexts[c].provider,
    contexts' = [contexts EXCEPT ![c] = new],
    Len(conversations') = Len(conversations), conversations' \in Seq(SUBSET Turns),
    \/ UNCHANGED sessions
    \/ \E p \in Providers : sessions' = [sessions EXCEPT ![p] = 0]
  PROVE /\ AgentsTyped' /\ Grown /\ Turns' = Turns /\ N' = N
        /\ DOMAIN contexts' = DOMAIN contexts /\ contexts'[c] = new
        /\ \A d \in DOMAIN contexts \ {c} : contexts'[d] = contexts[d]
<1>1. /\ DOMAIN contexts = 1..Len(contexts) /\ Len(contexts) \in Nat /\ N \in Nat
      /\ contexts \in Seq(ContextsOf(Turns, N))
 BY ContextsAre DEF AgentsTyped
<1>2. /\ DOMAIN contexts' = DOMAIN contexts /\ contexts'[c] = new
      /\ \A d \in DOMAIN contexts \ {c} : contexts'[d] = contexts[d]
      /\ contexts' \in Seq(ContextsOf(Turns, N)) /\ Len(contexts') = Len(contexts)
 BY <1>1
<1>3. Turns' = Turns BY <1>2 DEF Turns, FirstAcknowledgement
<1>4. N' = N BY DEF N
<1>5. /\ sessions' \in [Providers -> 0..Len(contexts)]
      /\ \A p \in Providers : sessions'[p] \in {0, sessions[p]}
 <2>1. sessions \in [Providers -> 0..Len(contexts)] /\ 0 \in 0..Len(contexts)
  BY <1>1 DEF AgentsTyped
 <2>2. CASE UNCHANGED sessions BY <2>1, <2>2
 <2>3. ASSUME NEW p \in Providers, sessions' = [sessions EXCEPT ![p] = 0]
     PROVE  /\ sessions' \in [Providers -> 0..Len(contexts)]
            /\ \A q \in Providers : sessions'[q] \in {0, sessions[q]}
  BY <2>1, <2>3
 <2> QED BY <2>2, <2>3
<1>6. \A p \in Providers : sessions'[p] # 0 => contexts'[sessions'[p]].provider = p
 <2> SUFFICES ASSUME NEW p \in Providers, sessions'[p] # 0
     PROVE  contexts'[sessions'[p]].provider = p
  OBVIOUS
 <2>1. sessions'[p] = sessions[p] /\ sessions[p] \in DOMAIN contexts BY <1>5, ContextsAre
 <2>2. contexts[sessions[p]].provider = p BY <2>1 DEF AgentsTyped
 <2> QED BY <1>2, <2>1, <2>2
<1>7. AgentsTyped' BY <1>2, <1>3, <1>4, <1>5, <1>6 DEF AgentsTyped
<1>8. Grown BY <1>1, <1>2, <1>3, <1>4 DEF Grown
<1> QED BY <1>2, <1>3, <1>4, <1>7, <1>8

LEMMA RuntimeAppended ==
  ASSUME Grown, RuntimeTyped, NEW events \in Seq(EventsOf(Turns')), runtime' = runtime \o events
  PROVE RuntimeTyped'
<1>1. EventsOf(Turns) \subseteq EventsOf(Turns') BY SetsGrow DEF Grown
<1>2. runtime \in Seq(EventsOf(Turns')) BY <1>1, SequencesGrow DEF RuntimeTyped
<1> QED BY <1>2 DEF RuntimeTyped

LEMMA EventsAre ==
  ASSUME NEW p \in Providers, NEW T, NoTurn \in T, NEW turn \in T,
    NEW state \in {"completed", "failed", "interrupted"}
  PROVE /\ Exited(p) \in EventsOf(T) /\ Completed(p, turn, state) \in EventsOf(T)
        /\ Event("runtime.error", p, turn) \in EventsOf(T)
        /\ Event("thread.token-usage.updated", p, turn) \in EventsOf(T)
        /\ Event("turn.started", p, turn) \in EventsOf(T)
        /\ Event("runtime.error", p, NoTurn) \in EventsOf(T)
        /\ StateChanged(p, "starting") \in EventsOf(T)
        /\ \A full \in BOOLEAN :
             /\ [Event("runtime.error", p, turn) EXCEPT !.full = full] \in EventsOf(T)
             /\ [Completed(p, turn, state) EXCEPT !.full = full] \in EventsOf(T)
BY DEF Exited, Completed, StateChanged, Event, EventsOf, EventTypes, EventStates

LEMMA SendTurnTypes ==
  ASSUME AgentsTyped, RuntimeTyped, UNCHANGED <<setting, sessions, conversations>>,
    NEW c \in DOMAIN contexts, NEW turn \in Turns, AcceptsTurn(c), SendTurn(c, turn)
  PROVE AgentsTyped' /\ RuntimeTyped' /\ Grown
<1> DEFINE new == [contexts[c] EXCEPT !.turn = turn, !.interrupted = FALSE,
                      !.others = (@ \cup {contexts[c].turn}) \ {NoTurn}]
<1>1. contexts[c] \in ContextsOf(Turns, N) BY ContextsAre
<1>2. /\ new \in ContextsOf(Turns, N) /\ new.provider = contexts[c].provider
      /\ contexts[c].provider \in Providers
 BY <1>1 DEF ContextsOf, AcceptsTurn
<1>3. contexts' = [contexts EXCEPT ![c] = new] BY DEF SendTurn
<1>4. conversations' \in Seq(SUBSET Turns) BY DEF AgentsTyped
<1> HIDE DEF new
<1>5. AgentsTyped' /\ Grown /\ Turns' = Turns BY <1>2, <1>3, <1>4, ContextReplaced
<1>6. NoTurn \in Turns BY DEF Turns
<1>7. Event("turn.started", contexts[c].provider, turn) \in EventsOf(Turns')
 BY <1>2, <1>5, <1>6, EventsAre
<1>8. runtime' = runtime \o << Event("turn.started", contexts[c].provider, turn) >>
 BY <1>5, <1>7, AppendIsConcat DEF SendTurn, RuntimeTyped
<1>9. << Event("turn.started", contexts[c].provider, turn) >> \in Seq(EventsOf(Turns')) BY <1>7
<1> QED BY <1>5, <1>8, <1>9, RuntimeAppended

LEMMA StopSessionTypes ==
  ASSUME AgentsTyped, RuntimeTyped, UNCHANGED <<setting, conversations>>,
    NEW c \in DOMAIN contexts, StopSession(c)
  PROVE AgentsTyped' /\ RuntimeTyped' /\ Grown
<1> DEFINE new == Down(contexts[c])
           p == contexts[c].provider
           last == IF p = "claudeCode" /\ contexts[c].turn # NoTurn
                   THEN << Completed(p, contexts[c].turn, "interrupted") >> ELSE << >>
<1>1. contexts[c] \in ContextsOf(Turns, N) /\ NoTurn \in Turns BY ContextsAre DEF Turns
<1>2. /\ new \in ContextsOf(Turns, N) /\ new.provider = contexts[c].provider
      /\ p \in Providers /\ contexts[c].turn \in Turns
 BY <1>1, DownIs DEF ContextsOf
<1>3. /\ contexts' = [contexts EXCEPT ![c] = new]
      /\ sessions' = [sessions EXCEPT ![p] = 0]
 BY DEF StopSession
<1>4. conversations' \in Seq(SUBSET Turns) BY DEF AgentsTyped
<1> HIDE DEF new, p
<1>5. AgentsTyped' /\ Grown /\ Turns' = Turns BY <1>2, <1>3, <1>4, ContextReplaced DEF p
<1>6. /\ Completed(p, contexts[c].turn, "interrupted") \in EventsOf(Turns')
      /\ Exited(p) \in EventsOf(Turns')
 BY <1>1, <1>2, <1>5, EventsAre
<1>7. last \in Seq(EventsOf(Turns')) /\ << Exited(p) >> \in Seq(EventsOf(Turns')) BY <1>6
<1>8. runtime' = runtime \o last \o << Exited(p) >> BY DEF StopSession, p
<1> HIDE DEF last
<1>9. runtime' = runtime \o (last \o << Exited(p) >>)
 BY <1>5, <1>7, <1>8, ConcatAssociative DEF RuntimeTyped
<1>10. last \o << Exited(p) >> \in Seq(EventsOf(Turns')) BY <1>7
<1> QED BY <1>5, <1>9, <1>10, RuntimeAppended

LEMMA SpendTypes ==
  ASSUME BoundsTyped, UNCHANGED setting, NEW what \in Requests, Spend(what)
  PROVE /\ BoundsTyped' /\ spent'[what] = spent[what] + 1
        /\ spent'[what] \in 1..setting[what]
        /\ \A r \in Requests \ {what} : spent'[r] = spent[r]
<1>1. \A r \in Requests : setting[r] \in Nat BY SessionsAssumption DEF BoundsTyped
<1>2. /\ spent' \in [Requests -> Nat] /\ spent'[what] = spent[what] + 1
      /\ \A r \in Requests \ {what} : spent'[r] = spent[r]
 BY DEF Spend, BoundsTyped
<1> QED BY <1>1, <1>2 DEF Spend, BoundsTyped

LEMMA StartAndBindTypes ==
  ASSUME AgentsTyped, RuntimeTyped, UNCHANGED setting, NEW p \in Providers, NEW mode \in Modes,
    NEW cursor \in {None} \cup CursorsOf(Turns, N), NEW prompt \in SUBSET Turns,
    NEW kept \in SUBSET Turns, StartAndBind(p, mode, cursor, prompt, kept)
  PROVE AgentsTyped' /\ RuntimeTyped' /\ DirectoryTyped' /\ Grown /\ contexts' # << >>
<1>1. /\ AgentsTyped' /\ RuntimeTyped' /\ Grown
      /\ Len(contexts') = Len(contexts) + 1 /\ Len(contexts) \in Nat
      /\ contexts'[Len(contexts')].cursor \in CursorsOf(Turns', N')
 BY StartSessionIs DEF StartAndBind
<1>2. kept \in SUBSET Turns' BY <1>1 DEF Grown
<1>3. directory' = [provider |-> p, mode |-> mode, cursor |-> contexts'[Len(contexts')].cursor,
                    prompt |-> kept]
 BY DEF StartAndBind, Upsert
<1>4. directory' \in BindingsOf(Turns', N') BY <1>1, <1>2, <1>3 DEF BindingsOf
<1>5. contexts' # << >> BY <1>1
<1> QED BY <1>1, <1>4, <1>5 DEF DirectoryTyped

LEMMA StartFailsTypes ==
  ASSUME BoundsTyped, AgentsTyped, RuntimeTyped, DirectoryTyped, UNCHANGED setting,
    NEW p \in Providers, StartFails(p)
  PROVE AgentsTyped' /\ RuntimeTyped' /\ DirectoryTyped' /\ Grown /\ BoundsTyped'
<1>1. /\ UNCHANGED <<contexts, conversations, directory>> /\ Spend("faults") BY DEF StartFails
<1>2. BoundsTyped' BY <1>1, SpendTypes DEF Requests
<1>3. Grown /\ Turns' = Turns /\ N' = N BY <1>1, SameIs
<1>4. DirectoryTyped' BY <1>1, <1>3, DirectoryStays
<1>5. CASE UNCHANGED <<sessions, runtime>>
 <2>1. AgentsTyped' /\ RuntimeTyped' BY <1>1, <1>3, <1>5, AgentsStay, RuntimeStays
 <2> QED BY <1>2, <1>3, <1>4, <2>1
<1>6. CASE /\ sessions' = [sessions EXCEPT ![p] = 0]
           /\ runtime' = runtime \o << StateChanged(p, "starting"),
                                       Event("runtime.error", p, NoTurn), Exited(p) >>
 <2>1. NoTurn \in Turns' BY DEF Turns
 <2>2. << StateChanged(p, "starting"), Event("runtime.error", p, NoTurn), Exited(p) >>
         \in Seq(EventsOf(Turns'))
  BY <2>1, EventsAre
 <2>3. RuntimeTyped' BY <1>3, <1>6, <2>2, RuntimeAppended
 <2>4. AgentsTyped' BY <1>1, <1>3, <1>6 DEF AgentsTyped
 <2> QED BY <1>2, <1>3, <1>4, <2>3, <2>4
<1> QED BY <1>5, <1>6 DEF StartFails

--------------------
(* What the reactor reads of what the others wrote.                         *)
LEMMA FailTypes ==
  ASSUME JobTyped, BreakerTyped, HistoryTyped, job # None, NEW providers \in SUBSET Providers,
    FailTrying(providers), Grown
  PROVE JobTyped' /\ BreakerTyped' /\ HistoryTyped' /\ job' = None
<1>1. job' = None BY DEF FailTrying
<1>2. job.turn \in Turns BY DEF JobTyped, JobsOf
<1>3. BreakerTyped'
 <2>1. CASE job.type = "compact"
  <3> DEFINE failures == breaker.failures + 1
             disabled == breaker.disabled \/ failures >= MaxFailures
  <3>1. failures \in Nat BY DEF BreakerTyped
  <3>2. disabled \in BOOLEAN OBVIOUS
  <3>3. breaker' = [failures |-> failures, disabled |-> disabled] BY <2>1 DEF FailTrying
  <3> HIDE DEF failures, disabled
  <3> QED BY <3>1, <3>2, <3>3 DEF BreakerTyped
 <2>2. CASE job.type # "compact" BY <2>2 DEF FailTrying, BreakerTyped
 <2> QED BY <2>1, <2>2
<1>4. history' \in [ended : SUBSET Turns, forgotten : SUBSET Turns, lost : SUBSET Turns,
                    failed : Nat, tried : SUBSET Providers, passed : BOOLEAN]
 <2>1. CASE job.type = "compact"
  <3>1. history' = [history EXCEPT !.failed = @ + 1, !.tried = @ \cup providers]
   BY <2>1 DEF FailTrying
  <3>2. history.failed + 1 \in Nat /\ history.tried \cup providers \in SUBSET Providers
   BY DEF HistoryTyped
  <3>3. [history EXCEPT !.failed = @ + 1] \in
          [ended : SUBSET Turns, forgotten : SUBSET Turns, lost : SUBSET Turns,
           failed : Nat, tried : SUBSET Providers, passed : BOOLEAN]
   BY <3>2 DEF HistoryTyped
  <3> QED BY <3>1, <3>2, <3>3 DEF HistoryTyped
 <2>2. CASE job.type # "compact"
  <3>1. history' = [history EXCEPT !.lost = @ \cup ({job.turn} \ {NoTurn}),
                                   !.tried = @ \cup providers]
   BY <2>2 DEF FailTrying
  <3> QED BY <1>2, <3>1 DEF HistoryTyped
 <2> QED BY <2>1, <2>2
<1>5. HistoryTyped' BY <1>4 DEF HistoryTyped, Grown
<1> QED BY <1>1, <1>3, <1>5 DEF JobTyped

LEMMA SucceedTypes ==
  ASSUME JobTyped, BreakerTyped, HistoryTyped, job # None, NEW turns \in SUBSET Turns,
    SucceedForgetting(turns), Grown
  PROVE JobTyped' /\ BreakerTyped' /\ HistoryTyped' /\ job' = None
<1>1. job' = None BY DEF SucceedForgetting
<1>2. BreakerTyped' BY DEF SucceedForgetting, BreakerTyped
<1>3. history' \in [ended : SUBSET Turns, forgotten : SUBSET Turns, lost : SUBSET Turns,
                    failed : Nat, tried : SUBSET Providers, passed : BOOLEAN]
 BY DEF SucceedForgetting, HistoryTyped
<1>4. HistoryTyped' BY <1>3 DEF HistoryTyped, Grown
<1> QED BY <1>1, <1>2, <1>4 DEF JobTyped

LEMMA HistoryKept ==
  ASSUME HistoryTyped, Grown,
    \/ \E p \in Providers : Tries(p)
    \/ PassesOver
    \/ \E turns \in SUBSET Turns : Lose(turns)
    \/ UNCHANGED history
  PROVE HistoryTyped'
<1> DEFINE Records == [ended : SUBSET Turns, forgotten : SUBSET Turns, lost : SUBSET Turns,
                       failed : Nat, tried : SUBSET Providers, passed : BOOLEAN]
<1>1. history' \in Records
 <2>1. history \in Records BY DEF HistoryTyped
 <2>2. ASSUME NEW p \in Providers, Tries(p) PROVE history' \in Records BY <2>1, <2>2 DEF Tries
 <2>3. CASE PassesOver BY <2>1, <2>3 DEF PassesOver
 <2>4. ASSUME NEW turns \in SUBSET Turns, Lose(turns) PROVE history' \in Records
  BY <2>1, <2>4 DEF Lose
 <2> QED BY <2>1, <2>2, <2>3, <2>4
<1> QED BY <1>1 DEF HistoryTyped, Grown

(* A step of a job that keeps what the job carries.                         *)
LEMMA NextJobTypes ==
  ASSUME JobTyped, job # None, Grown,
    NEW step \in {"ensure", "start", "bind", "send", "route", "stop", "mark", "ready", "clear"},
    NextJob(step), step \in {"start", "bind", "ready", "clear"} => job.start \in StartsOf(Turns, N),
    step \in {"bind", "ready", "clear"} => contexts' # << >>
  PROVE JobTyped'
<1>1. JobsOf(Turns, N) \subseteq JobsOf(Turns', N') /\ StartsOf(Turns, N) \subseteq StartsOf(Turns', N')
 BY SetsGrow DEF Grown
<1>2. /\ job' \in JobsOf(Turns, N) /\ job'.step = step /\ job'.start = job.start
 BY DEF NextJob, JobTyped, JobsOf
<1> QED BY <1>1, <1>2 DEF JobTyped

--------------------
(* Every step keeps the types.                                              *)
LEMMA QuietTypes ==
  ASSUME Typed, UNCHANGED <<setting, agents, directory>>
  PROVE /\ AgentsTyped' /\ RuntimeTyped' /\ DirectoryTyped' /\ Grown
        /\ Turns' = Turns /\ N' = N
<1>1. UNCHANGED <<setting, sessions, contexts, conversations, runtime, directory>> BY DEF agents
<1>2. Grown /\ Turns' = Turns /\ N' = N BY <1>1, SameIs DEF Typed
<1> QED BY <1>1, <1>2, AgentsStay, RuntimeStays, DirectoryStays DEF Typed

LEMMA IntentAppended ==
  ASSUME Grown, IntentsTyped, NEW intent \in IntentsOf(Turns'), intents' = Append(intents, intent)
  PROVE IntentsTyped'
<1>1. IntentsOf(Turns) \subseteq IntentsOf(Turns') BY SetsGrow DEF Grown
<1>2. intents \in Seq(IntentsOf(Turns')) BY <1>1, SequencesGrow DEF IntentsTyped
<1> QED BY <1>2 DEF IntentsTyped

LEMMA RequestTyped ==
  ASSUME Typed, NEW intent \in IntentsOf(Turns), NEW what \in Requests, Spend(what),
    UNCHANGED <<setting, worker, agents, ingesting, breaker, history>>,
    intents' = Append(intents, intent), thread' \in ReadsOf(Turns)
  PROVE Typed'
<1>1. UNCHANGED <<setting, agents, directory, job, ingesting, breaker, history>> BY DEF worker
<1>2. /\ AgentsTyped' /\ RuntimeTyped' /\ DirectoryTyped' /\ Grown /\ Turns' = Turns /\ N' = N
 BY <1>1, QuietTypes
<1>3. BoundsTyped' BY <1>1, SpendTypes DEF Typed
<1>4. IntentsTyped' BY <1>2, IntentAppended DEF Typed
<1>5. ThreadTyped' BY <1>2 DEF ThreadTyped
<1>6. JobTyped' /\ IngestingTyped' /\ HistoryTyped'
 BY <1>1, <1>2, JobStays, IngestingStays, HistoryStays DEF Typed
<1>7. BreakerTyped' BY <1>1 DEF Typed, BreakerTyped
<1> QED BY <1>2, <1>3, <1>4, <1>5, <1>6, <1>7 DEF Typed

LEMMA UserTyped == ASSUME Typed, User PROVE Typed'
<1>1. thread \in ReadsOf(Turns) /\ thread.mode \in Modes /\ thread.messages \in SUBSET Turns
 BY DEF Typed, ThreadTyped, ReadsOf
<1>2. ASSUME NEW provider \in setting.providers, RequestTurn(provider) PROVE Typed'
 <2>1. provider \in Providers BY <1>2, SessionsAssumption DEF Typed, BoundsTyped, Providers
 <2>2. /\ UNCHANGED <<setting, worker, agents, ingesting, breaker, history>> /\ Spend("turns")
       /\ intents' = Append(intents, [type |-> "turn", turn |-> spent'.turns, provider |-> provider])
       /\ thread' = [thread EXCEPT !.messages = @ \cup {spent'.turns}]
  BY <1>2 DEF RequestTurn, Ask
 <2>3. spent'["turns"] \in 1..setting["turns"] BY <2>2, SpendTypes DEF Requests, Typed
 <2>4. spent'.turns \in Turns BY <2>3 DEF Turns
 <2>5. [type |-> "turn", turn |-> spent'.turns, provider |-> provider] \in IntentsOf(Turns)
  BY <2>1, <2>4 DEF IntentsOf
 <2>6. thread' \in ReadsOf(Turns) BY <1>1, <2>2, <2>4 DEF ReadsOf
 <2> QED BY <2>2, <2>5, <2>6, RequestTyped DEF Requests
<1>3. CASE RequestMode
 <2>1. /\ UNCHANGED <<setting, worker, agents, ingesting, breaker, history>> /\ Spend("modes")
       /\ intents' = Append(intents, [type |-> "mode"])
       /\ thread' = [thread EXCEPT !.mode = IF @ = "full-access" THEN "approval-required"
                                            ELSE "full-access"]
  BY <1>3 DEF RequestMode, Ask
 <2>2. [type |-> "mode"] \in IntentsOf(Turns) BY DEF IntentsOf
 <2>3. thread' \in ReadsOf(Turns) BY <1>1, <2>1 DEF ReadsOf, Modes
 <2> QED BY <2>1, <2>2, <2>3, RequestTyped DEF Requests
<1>4. CASE RequestCompaction
 <2>1. /\ UNCHANGED <<setting, worker, agents, ingesting, breaker, history>> /\ Spend("compacts")
       /\ intents' = Append(intents, [type |-> "compact"]) /\ UNCHANGED thread
  BY <1>4 DEF RequestCompaction, Ask
 <2>2. [type |-> "compact"] \in IntentsOf(Turns) BY DEF IntentsOf
 <2> QED BY <1>1, <2>1, <2>2, RequestTyped DEF Requests
<1>5. CASE RequestStop
 <2>1. /\ UNCHANGED <<setting, worker, agents, ingesting, breaker, history>> /\ Spend("stops")
       /\ intents' = Append(intents, [type |-> "stop"]) /\ UNCHANGED thread
  BY <1>5 DEF RequestStop, Ask
 <2>2. [type |-> "stop"] \in IntentsOf(Turns) BY DEF IntentsOf
 <2> QED BY <1>1, <2>1, <2>2, RequestTyped DEF Requests
<1>6. CASE RequestInterrupt
 <2>1. /\ UNCHANGED <<setting, worker, agents, ingesting, breaker, history>> /\ Spend("interrupts")
       /\ intents' = Append(intents, [type |-> "interrupt"]) /\ UNCHANGED thread
  BY <1>6 DEF RequestInterrupt
 <2>2. [type |-> "interrupt"] \in IntentsOf(Turns) BY DEF IntentsOf
 <2> QED BY <1>1, <2>1, <2>2, RequestTyped DEF Requests
<1> QED BY <1>2, <1>3, <1>4, <1>5, <1>6 DEF User

(* What is taken becomes a job, unless there is nothing to do.              *)
Taken(intent, first) ==
    [type |-> intent.type, step |-> first, read |-> thread,
     turn |-> IF intent.type = "turn" THEN intent.turn ELSE NoTurn,
     provider |-> IF intent.type = "turn" THEN intent.provider ELSE None,
     start |-> None, recovered |-> FALSE]
Starts(intent, first) ==
    /\ intent.type = "turn" => first = "ensure"
    /\ intent.type = "compact" => first = "stop"
    /\ intent.type = "mode" => first = "ensure"
    /\ intent.type = "interrupt" => first = "route"
    /\ intent.type \in {"mode", "interrupt"} => HasSession(Session)

LEMMA TakeBegins ==
  ASSUME Take
  PROVE \E first \in {"ensure", "stop", "route", "mark", ""} :
           /\ job' = None \/ (first # "" /\ job' = Taken(Head(intents), first))
           /\ first # "" => Starts(Head(intents), first)
           /\ \/ first = "mark" /\ PassesOver
              \/ \E turns : turns = {Head(intents).turn} /\ Gone(Head(intents)) /\ Lose(turns)
              \/ UNCHANGED history
           /\ first = "mark" => PassesOver
<1> DEFINE intent == Head(intents)
           first == Beginning(intent)
<1>1. first \in {"ensure", "stop", "route", "mark", ""} BY DEF Beginning
<1>2. job' = None \/ (first # "" /\ job' = Taken(intent, first)) BY Zenon DEF Take, Taken
<1>3. /\ \/ first = "mark" /\ PassesOver
         \/ \E turns : turns = {intent.turn} /\ Gone(intent) /\ Lose(turns)
         \/ UNCHANGED history
      /\ first = "mark" => PassesOver \/ Gone(intent)
 BY Zenon DEF Take
<1>4. Gone(intent) => first # "mark" BY DEF Gone, Beginning
<1>5. first # "" => Starts(intent, first) BY DEF Beginning, Starts
<1> QED BY Zenon, <1>1, <1>2, <1>3, <1>4, <1>5

LEMMA TakeTyped == ASSUME Typed, Take PROVE Typed'
<1> DEFINE intent == Head(intents)
<1>0. PICK first \in {"ensure", "stop", "route", "mark", ""} :
            /\ job' = None \/ (first # "" /\ job' = Taken(intent, first))
            /\ \/ PassesOver
               \/ \E turns : turns = {intent.turn} /\ Gone(intent) /\ Lose(turns)
               \/ UNCHANGED history
 BY TakeBegins, Zenon
<1>1. /\ intents # << >> /\ intents' = Tail(intents)
      /\ UNCHANGED <<thread, spent, breaker, setting, ingesting>>
      /\ UNCHANGED <<setting, agents, directory>>
 BY Zenon DEF Take, NoAgent, Aside
<1>2. /\ AgentsTyped' /\ RuntimeTyped' /\ DirectoryTyped' /\ Grown /\ Turns' = Turns /\ N' = N
 BY <1>1, QuietTypes
<1>3. /\ intent \in IntentsOf(Turns) /\ intents' \in Seq(IntentsOf(Turns))
 <2>1. intents \in Seq(IntentsOf(Turns)) BY DEF Typed, IntentsTyped
 <2> QED BY <1>1, <2>1, HeadTailProperties
<1>4. /\ intent.type \in {"turn", "mode", "compact", "stop", "interrupt"}
      /\ intent.type = "turn" => intent.turn \in Turns /\ intent.provider \in Providers
 BY <1>3 DEF IntentsOf
<1> HIDE DEF intent
<1>6. first # "" => Taken(intent, first) \in JobsOf(Turns, N) /\ Taken(intent, first).step = first
 <2>1. thread \in ReadsOf(Turns) /\ NoTurn \in Turns BY DEF Typed, ThreadTyped, Turns
 <2> QED BY <1>4, <2>1 DEF JobsOf, Taken
<1>7. JobTyped' BY <1>0, <1>2, <1>6 DEF JobTyped
<1>8. HistoryTyped'
 <2>1. ASSUME NEW turns, turns = {intent.turn}, Gone(intent), Lose(turns) PROVE HistoryTyped'
  <3>1. turns \in SUBSET Turns BY <1>4, <2>1 DEF Gone
  <3> QED BY <1>2, <2>1, <3>1, HistoryKept DEF Typed
 <2> QED BY <1>0, <1>2, <2>1, HistoryKept DEF Typed
<1>9. ThreadTyped' /\ IngestingTyped' /\ BoundsTyped'
 BY <1>1, <1>2, ThreadStays, IngestingStays, BoundsStay DEF Typed
<1>10. BreakerTyped' /\ IntentsTyped' BY <1>1, <1>2, <1>3 DEF Typed, BreakerTyped, IntentsTyped
<1> QED BY <1>2, <1>7, <1>8, <1>9, <1>10 DEF Typed

LEMMA SessionIs ==
  ASSUME ThreadTyped
  PROVE /\ thread \in ReadsOf(Turns) /\ Session \in {NoSession} \cup SessionsOf(Turns)
        /\ thread.mode \in Modes /\ thread.messages \in SUBSET Turns
        /\ Session # NoSession => /\ Session.status \in Statuses /\ Session.activeTurn \in Turns
                                  /\ Session.mode \in Modes
                                  /\ Session.provider \in Providers \cup {None}
BY DEF ThreadTyped, ReadsOf, Session, SessionsOf

LEMMA JobIs ==
  ASSUME JobTyped, job # None
  PROVE /\ job \in JobsOf(Turns, N) /\ job.turn \in Turns /\ job.provider \in {None} \cup Providers
        /\ job.read \in ReadsOf(Turns)
        /\ job.read.session \in {NoSession} \cup SessionsOf(Turns)
        /\ job.read.mode \in Modes /\ job.read.messages \in SUBSET Turns
        /\ job.step \in {"start", "bind", "ready", "clear"} => job.start \in StartsOf(Turns, N)
BY DEF JobTyped, JobsOf, ReadsOf

LEMMA DirectoryIs ==
  ASSUME DirectoryTyped, directory # None
  PROVE /\ directory \in BindingsOf(Turns, N) /\ directory.provider \in Providers
        /\ directory.mode \in Modes /\ directory.cursor \in CursorsOf(Turns, N)
        /\ directory.prompt \in SUBSET Turns
BY DEF DirectoryTyped, BindingsOf

LEMMA ActiveIs ==
  ASSUME AgentsTyped, Active # 0
  PROVE Active \in DOMAIN contexts /\ contexts[Active].cursor \in CursorsOf(Turns, N)
<1>1. \E p \in Providers : Active = sessions[p] BY DEF Active, Providers
<1> QED BY <1>1, ContextsAre DEF ContextsOf

LEMMA ResumeCursorIs ==
  ASSUME Typed PROVE ResumeCursor \in {None} \cup CursorsOf(Turns, N)
<1> DEFINE stored == IF directory = None THEN None ELSE directory.cursor
<1>1. stored \in {None} \cup CursorsOf(Turns, N) BY DirectoryIs DEF Typed
<1>2. WholeConversation(stored) \in {None} \cup CursorsOf(Turns, N)
 <2>1. CASE stored # None /\ stored.provider = "claudeCode" /\ stored.conversation # 0
  <3>1. stored \in CursorsOf(Turns, N) BY <1>1, <2>1
  <3>2. stored.conversation \in 1..N BY <2>1, <3>1, ContextsAre DEF CursorsOf, Typed
  <3>3. conversations[stored.conversation] \in SUBSET Turns BY <3>2, ContextsAre DEF Typed
  <3> HIDE DEF stored
  <3>4. [stored EXCEPT !.at = conversations[stored.conversation]] \in CursorsOf(Turns, N)
   BY <3>1, <3>3 DEF CursorsOf
  <3> QED BY <2>1, <3>4 DEF WholeConversation
 <2>2. CASE ~(stored # None /\ stored.provider = "claudeCode" /\ stored.conversation # 0)
  BY <1>1, <2>2 DEF WholeConversation
 <2> QED BY <2>1, <2>2
<1>3. Active # 0 => contexts[Active].cursor \in CursorsOf(Turns, N) BY ActiveIs DEF Typed
<1> HIDE DEF stored
<1>4. \/ ResumeCursor = None
      \/ ResumeCursor = contexts[Active].cursor /\ Active # 0
      \/ ResumeCursor = WholeConversation(stored)
      \/ ResumeCursor = stored
 BY DEF ResumeCursor, stored
<1> QED BY <1>1, <1>2, <1>3, <1>4

(* What a reactor step that leaves the agents alone keeps.                  *)
LEMMA QuietStep ==
  ASSUME Typed, UNCHANGED <<setting, ingesting, agents, directory, spent>>,
    thread' \in ReadsOf(Turns), UNCHANGED intents, BreakerTyped', HistoryTyped', JobTyped'
  PROVE Typed'
<1>1. /\ AgentsTyped' /\ RuntimeTyped' /\ DirectoryTyped' /\ Grown /\ Turns' = Turns /\ N' = N
 BY QuietTypes
<1>2. IntentsTyped' /\ IngestingTyped' /\ BoundsTyped'
 BY <1>1, IntentsStay, IngestingStays, BoundsStay DEF Typed
<1>3. ThreadTyped' BY <1>1 DEF ThreadTyped
<1> QED BY <1>1, <1>2, <1>3 DEF Typed

LEMMA GoTypes == ASSUME Typed, Grown, Go PROVE BreakerTyped' /\ HistoryTyped'
BY HistoryStays DEF Go, Typed, BreakerTyped

LEMMA EnsureTyped == ASSUME Typed, Ensure PROVE Typed'
<1> DEFINE start == [provider |-> Preferred, mode |-> thread.mode, cursor |-> ResumeCursor,
                     prompt |-> {}, then |-> "bind"]
<1>1. /\ job # None /\ job.step = "ensure"
      /\ UNCHANGED <<setting, ingesting, agents, directory, spent>> /\ UNCHANGED <<thread, intents>>
 BY DEF Ensure, NoAgent, Aside, NoDispatch
<1>2. Grown /\ Turns' = Turns /\ N' = N BY <1>1, QuietTypes
<1>3. thread \in ReadsOf(Turns) /\ thread' = thread BY <1>1, SessionIs DEF Typed
<1>4. CASE Succeed
 <2>1. BreakerTyped' /\ HistoryTyped' /\ JobTyped'
  BY <1>1, <1>2, <1>4, SucceedTypes DEF Succeed, Typed
 <2> QED BY <1>1, <1>3, <2>1, QuietStep
<1>5. CASE NextJob("send") /\ Go
 <2>1. JobTyped' BY <1>1, <1>2, <1>5, NextJobTypes DEF Typed
 <2> QED BY <1>1, <1>2, <1>3, <1>5, <2>1, QuietStep, GoTypes
<1>6. CASE job' = [job EXCEPT !.step = "start", !.start = start] /\ Go
 <2>1. Preferred \in Providers
  BY <1>1, SessionIs, JobIs DEF Typed, Preferred, SessionProvider, Providers
 <2>2. start \in StartsOf(Turns, N) BY <2>1, ResumeCursorIs, SessionIs DEF StartsOf, Typed
 <2> HIDE DEF start
 <2>3. /\ job' \in JobsOf(Turns, N) /\ job'.start = start /\ job'.step = "start"
  BY <1>1, <1>6, <2>2, JobIs DEF JobsOf, Typed
 <2>4. JobTyped' BY <1>2, <2>2, <2>3 DEF JobTyped
 <2> QED BY <1>1, <1>2, <1>3, <1>6, <2>4, QuietStep, GoTypes
<1> QED BY <1>4, <1>5, <1>6 DEF Ensure, AfterEnsure

(* What a reactor step that calls an agent keeps.                           *)
LEMMA CallStep ==
  ASSUME Typed, UNCHANGED <<setting, ingesting, thread, intents>>, Grown,
    AgentsTyped', RuntimeTyped', DirectoryTyped', BoundsTyped', BreakerTyped',
    HistoryTyped', JobTyped'
  PROVE Typed'
BY ThreadStays, IntentsStay, IngestingStays DEF Typed

LEMMA TryingTypes ==
  ASSUME Typed, Grown, NEW p \in Providers, Tries(p), UNCHANGED breaker
  PROVE BreakerTyped' /\ HistoryTyped'
BY HistoryKept DEF Typed, BreakerTyped

LEMMA StartTyped == ASSUME Typed, Start PROVE Typed'
<1> DEFINE s == job.start
           kept == IF s.then = "ready" THEN s.prompt ELSE Payload
<1>1. /\ job # None /\ job.step = "start" /\ UNCHANGED <<setting, ingesting, thread, intents>>
 BY DEF Start, NoDispatch, Aside
<1>2. s \in StartsOf(Turns, N) BY <1>1 DEF Typed, JobTyped
<1>3. /\ s.provider \in Providers /\ s.mode \in Modes /\ s.prompt \in SUBSET Turns
      /\ s.cursor \in {None} \cup CursorsOf(Turns, N) /\ s.then \in {"bind", "ready"}
 BY <1>2 DEF StartsOf
<1>4. kept \in SUBSET Turns BY <1>3, DirectoryIs DEF Typed, Payload
<1>5. CASE /\ StartAndBind(s.provider, s.mode, s.cursor, s.prompt, kept)
           /\ NextJob(s.then) /\ Tries(s.provider) /\ UNCHANGED <<breaker, spent>>
 <2>1. /\ AgentsTyped' /\ RuntimeTyped' /\ DirectoryTyped' /\ Grown /\ contexts' # << >>
  BY <1>1, <1>3, <1>4, <1>5, StartAndBindTypes DEF Typed
 <2>2. JobTyped' BY <1>1, <1>2, <1>3, <1>5, <2>1, NextJobTypes DEF Typed
 <2>3. BoundsTyped' /\ BreakerTyped' /\ HistoryTyped'
  BY <1>1, <1>3, <1>5, <2>1, TryingTypes, BoundsStay DEF Typed
 <2> QED BY <1>1, <2>1, <2>2, <2>3, CallStep
<1>6. CASE StartFails(s.provider) /\ FailTrying({s.provider})
 <2>1. AgentsTyped' /\ RuntimeTyped' /\ DirectoryTyped' /\ Grown /\ BoundsTyped'
  BY <1>1, <1>3, <1>6, StartFailsTypes DEF Typed
 <2>2. JobTyped' /\ BreakerTyped' /\ HistoryTyped' BY <1>1, <1>3, <1>6, <2>1, FailTypes DEF Typed
 <2> QED BY <1>1, <2>1, <2>2, CallStep
<1> QED BY <1>5, <1>6 DEF Start

LEMMA RecoverTyped ==
  ASSUME Typed, Recover, job # None, job.step \in {"send", "route"},
    UNCHANGED <<setting, ingesting, thread, intents>>
  PROVE Typed'
<1>1. directory # None BY DEF Recover
<1>2. /\ directory.provider \in Providers /\ directory.mode \in Modes
      /\ directory.cursor \in CursorsOf(Turns, N) /\ directory.prompt \in SUBSET Turns
 BY <1>1, DirectoryIs DEF Typed
<1>3. Payload \in SUBSET Turns BY <1>1, <1>2 DEF Payload
<1>4. CASE /\ StartAndBind(directory.provider, directory.mode, directory.cursor,
                           directory.prompt, Payload)
           /\ job' = [job EXCEPT !.recovered = TRUE] /\ Tries(directory.provider)
           /\ UNCHANGED <<breaker, spent>>
 <2>1. AgentsTyped' /\ RuntimeTyped' /\ DirectoryTyped' /\ Grown
  BY <1>2, <1>3, <1>4, StartAndBindTypes DEF Typed
 <2>2. JobTyped'
  <3>1. job' \in JobsOf(Turns, N) /\ job'.step = job.step /\ job'.start = job.start
   BY <1>4, JobIs DEF JobsOf, Typed
  <3>2. JobsOf(Turns, N) \subseteq JobsOf(Turns', N') BY <2>1, SetsGrow DEF Grown
  <3> QED BY <3>1, <3>2 DEF JobTyped
 <2>3. BoundsTyped' /\ BreakerTyped' /\ HistoryTyped'
  BY <1>2, <1>4, <2>1, TryingTypes, BoundsStay DEF Typed
 <2> QED BY <2>1, <2>2, <2>3, CallStep
<1>5. CASE StartFails(directory.provider) /\ FailTrying({directory.provider})
 <2>1. AgentsTyped' /\ RuntimeTyped' /\ DirectoryTyped' /\ Grown /\ BoundsTyped'
  BY <1>2, <1>5, StartFailsTypes DEF Typed
 <2>2. JobTyped' /\ BreakerTyped' /\ HistoryTyped' BY <1>2, <1>5, <2>1, FailTypes DEF Typed
 <2> QED BY <2>1, <2>2, CallStep
<1> QED BY <1>4, <1>5 DEF Recover

LEMMA FailQuietly ==
  ASSUME Typed, job # None, Fail, NoAgent, UNCHANGED <<setting, ingesting, thread, intents>>,
    BoundsTyped'
  PROVE Typed'
<1>1. /\ AgentsTyped' /\ RuntimeTyped' /\ DirectoryTyped' /\ Grown BY QuietTypes DEF NoAgent
<1>2. JobTyped' /\ BreakerTyped' /\ HistoryTyped' BY <1>1, FailTypes DEF Fail, Typed
<1> QED BY <1>1, <1>2, CallStep

LEMMA RoutedIs ==
  ASSUME Typed, Routed
  PROVE /\ directory # None /\ directory.provider \in Providers
        /\ RoutedContext = sessions[directory.provider]
        /\ RoutedContext \in DOMAIN contexts
        /\ contexts[RoutedContext] \in ContextsOf(Turns, N)
        /\ contexts[RoutedContext].provider = directory.provider
BY DirectoryIs, ContextsAre DEF Routed, RoutedContext, Typed, AgentsTyped

LEMMA SendTyped == ASSUME Typed, Send PROVE Typed'
<1>1. /\ job # None /\ job.step = "send" /\ UNCHANGED <<setting, ingesting, thread, intents>>
 BY DEF Send, NoDispatch, Aside
<1>2. CASE Recover BY <1>1, <1>2, RecoverTyped
<1>3. CASE /\ Routed /\ AcceptsTurn(RoutedContext)
           /\ SendTurn(RoutedContext, job.turn)
           /\ directory' = [directory EXCEPT !.cursor = contexts[RoutedContext].cursor]
           /\ SucceedForgetting((history.ended \cap 1..setting.turns) \ Memory(RoutedContext))
           /\ UNCHANGED <<sessions, conversations, spent>>
 <2>1. AgentsTyped' /\ RuntimeTyped' /\ Grown
  BY <1>1, <1>3, RoutedIs, JobIs, SendTurnTypes DEF Typed
 <2>2. contexts[RoutedContext].cursor \in CursorsOf(Turns, N) BY <1>3, RoutedIs DEF ContextsOf
 <2>3. directory' \in BindingsOf(Turns, N)
  BY <1>3, <2>2, RoutedIs, DirectoryIs DEF BindingsOf, Typed
 <2>4. DirectoryTyped' BY <2>1, <2>3, SetsGrow DEF Grown, DirectoryTyped
 <2>5. (history.ended \cap 1..setting.turns) \ Memory(RoutedContext) \in SUBSET Turns
  BY DEF Typed, HistoryTyped
 <2>6. JobTyped' /\ BreakerTyped' /\ HistoryTyped'
  BY <1>1, <1>3, <2>1, <2>5, SucceedTypes DEF Typed
 <2>7. BoundsTyped' BY <1>1, <1>3, BoundsStay DEF Typed
 <2> QED BY <1>1, <2>1, <2>4, <2>6, <2>7, CallStep
<1>4. CASE Fail /\ NoAgent /\ UNCHANGED spent BY <1>1, <1>4, FailQuietly, BoundsStay DEF Typed
<1>5. CASE Spend("faults") /\ Fail /\ NoAgent
 BY <1>1, <1>5, FailQuietly, SpendTypes DEF Typed, Requests
<1> QED BY <1>2, <1>3, <1>4, <1>5 DEF Send

LEMMA InterruptTyped == ASSUME Typed, Interrupt PROVE Typed'
<1>1. /\ job # None /\ job.step = "route" /\ UNCHANGED <<setting, ingesting, thread, intents>>
 BY DEF Interrupt, NoDispatch, Aside
<1>2. CASE Recover BY <1>1, <1>2, RecoverTyped
<1>3. CASE /\ Routed
           /\ contexts' = [contexts EXCEPT ![RoutedContext].interrupted = Running(RoutedContext)]
           /\ Succeed
           /\ UNCHANGED <<sessions, conversations, runtime, directory, spent>>
 <2> DEFINE c == RoutedContext
            new == [contexts[c] EXCEPT !.interrupted = Running(c)]
 <2>1. c \in DOMAIN contexts /\ contexts[c] \in ContextsOf(Turns, N) BY <1>3, RoutedIs
 <2>2. Running(c) \in BOOLEAN BY DEF Running
 <2>3. new \in ContextsOf(Turns, N) /\ new.provider = contexts[c].provider
  BY <2>1, <2>2 DEF ContextsOf
 <2>4. contexts' = [contexts EXCEPT ![c] = new] BY <1>3
 <2> HIDE DEF new
 <2>5. conversations' \in Seq(SUBSET Turns) /\ Len(conversations') = Len(conversations)
  BY <1>3 DEF Typed, AgentsTyped
 <2>6. AgentsTyped' /\ Grown BY <1>1, <1>3, <2>1, <2>3, <2>4, <2>5, ContextReplaced DEF Typed
 <2>7. RuntimeTyped' /\ DirectoryTyped' /\ BoundsTyped'
  BY <1>1, <1>3, <2>6, RuntimeStays, DirectoryStays, BoundsStay DEF Typed
 <2>8. JobTyped' /\ BreakerTyped' /\ HistoryTyped'
  BY <1>1, <1>3, <2>6, SucceedTypes DEF Typed, Succeed
 <2> QED BY <1>1, <2>6, <2>7, <2>8, CallStep
<1>4. CASE Fail /\ NoAgent /\ UNCHANGED spent BY <1>1, <1>4, FailQuietly, BoundsStay DEF Typed
<1> QED BY <1>2, <1>3, <1>4 DEF Interrupt

LEMMA StopTyped == ASSUME Typed, Stop PROVE Typed'
<1>1. /\ job # None /\ job.step = "stop"
      /\ UNCHANGED <<setting, ingesting, thread, intents, spent>>
 BY DEF Stop, NoDispatch, Aside
<1>2. CASE Fail /\ NoAgent BY <1>1, <1>2, FailQuietly, BoundsStay DEF Typed
<1>3. CASE NextJob("mark") /\ PassesOver /\ UNCHANGED breaker /\ NoAgent
 <2>1. AgentsTyped' /\ RuntimeTyped' /\ DirectoryTyped' /\ Grown
  BY <1>1, <1>3, QuietTypes DEF NoAgent
 <2>2. JobTyped' BY <1>1, <1>3, <2>1, NextJobTypes DEF Typed
 <2>3. BreakerTyped' /\ HistoryTyped' /\ BoundsTyped'
  BY <1>1, <1>3, <2>1, HistoryKept, BoundsStay DEF Typed, BreakerTyped
 <2> QED BY <1>1, <2>1, <2>2, <2>3, CallStep
<1>4. CASE /\ \/ /\ Routed /\ StopSession(RoutedContext)
                 /\ Lose(TurnsOf(RoutedContext))
              \/ UNCHANGED <<contexts, sessions, runtime, history>>
           /\ directory' = None /\ NextJob("mark") /\ UNCHANGED <<conversations, breaker>>
 <2>1. AgentsTyped' /\ RuntimeTyped' /\ Grown /\ HistoryTyped'
  <3>1. CASE Routed /\ StopSession(RoutedContext) /\ Lose(TurnsOf(RoutedContext))
   <4>1. AgentsTyped' /\ RuntimeTyped' /\ Grown
    BY <1>1, <1>4, <3>1, RoutedIs, StopSessionTypes DEF Typed
   <4>2. TurnsOf(RoutedContext) \in SUBSET Turns BY <3>1, RoutedIs DEF ContextsOf, TurnsOf
   <4> QED BY <3>1, <4>1, <4>2, HistoryKept DEF Typed
  <3>2. CASE UNCHANGED <<contexts, sessions, runtime, history>>
   <4>1. Grown BY <1>1, <1>4, <3>2, SameIs DEF Typed
   <4> QED BY <1>1, <1>4, <3>2, <4>1, AgentsStay, RuntimeStays, HistoryStays DEF Typed
  <3> QED BY <1>4, <3>1, <3>2
 <2>2. DirectoryTyped' BY <1>4 DEF DirectoryTyped
 <2>3. JobTyped' BY <1>1, <1>4, <2>1, NextJobTypes DEF Typed
 <2>4. BreakerTyped' /\ BoundsTyped' BY <1>1, <1>4, BoundsStay DEF Typed, BreakerTyped
 <2> QED BY <1>1, <2>1, <2>2, <2>3, <2>4, CallStep
<1> QED BY <1>1, <1>2, <1>3, <1>4 DEF Stop

LEMMA StoppedIs ==
  ASSUME NEW T, NoTurn \in T, NEW session \in {NoSession} \cup SessionsOf(T)
  PROVE /\ Stopped(session) \in SessionsOf(T) /\ Stopped(session).status = "stopped"
        /\ Stopped(session).activeTurn = NoTurn
BY DEF Stopped, SessionsOf, Statuses, Modes

LEMMA ReadyIs ==
  ASSUME NEW T, NoTurn \in T, NEW p \in Providers, NEW mode \in Modes
  PROVE /\ Ready(p, mode) \in SessionsOf(T) /\ Ready(p, mode).status = "ready"
        /\ Ready(p, mode).activeTurn = NoTurn
BY DEF Ready, SessionsOf, Statuses, Providers

LEMMA SetSessionIs ==
  ASSUME ThreadTyped, NEW session \in SessionsOf(Turns), SetSession(session)
  PROVE thread' \in ReadsOf(Turns) /\ Session' = session
BY DEF ThreadTyped, ReadsOf, SetSession, Session

LEMMA BindTyped == ASSUME Typed, Bind PROVE Typed'
<1> DEFINE session == Ready(job.start.provider, job.start.mode)
<1>1. /\ job # None /\ job.step = "bind" /\ SetSession(session)
      /\ UNCHANGED <<setting, ingesting, agents, directory, spent, intents>>
 BY DEF Bind, NoAgent, Aside
<1>2. Grown /\ Turns' = Turns /\ N' = N /\ NoTurn \in Turns BY <1>1, QuietTypes DEF Turns
<1>3. job.start.provider \in Providers /\ job.start.mode \in Modes
 BY <1>1, JobIs DEF StartsOf, Typed
<1>4. session \in SessionsOf(Turns) BY <1>2, <1>3, ReadyIs
<1> HIDE DEF session
<1>5. thread' \in ReadsOf(Turns) BY <1>1, <1>4, SetSessionIs DEF Typed
<1>6. CASE Succeed
 <2>1. BreakerTyped' /\ HistoryTyped' /\ JobTyped'
  BY <1>1, <1>2, <1>6, SucceedTypes DEF Succeed, Typed
 <2> QED BY <1>1, <1>5, <2>1, QuietStep
<1>7. CASE NextJob("send") /\ Go
 <2>1. JobTyped' BY <1>1, <1>2, <1>7, NextJobTypes DEF Typed
 <2> QED BY <1>1, <1>2, <1>5, <1>7, <2>1, QuietStep, GoTypes
<1> QED BY <1>6, <1>7 DEF Bind, AfterEnsure

LEMMA MarkTyped == ASSUME Typed, Mark PROVE Typed'
<1> DEFINE session == Stopped(job.read.session)
           provider == IF SessionProvider(job.read.session) = None THEN "codex"
                       ELSE job.read.session.provider
           start == [provider |-> provider, mode |-> job.read.mode, cursor |-> None,
                     prompt |-> job.read.messages, then |-> "ready"]
<1>1. /\ job # None /\ SetSession(session)
      /\ UNCHANGED <<setting, ingesting, agents, directory, spent, intents>>
 BY DEF Mark, NoAgent, Aside
<1>2. Grown /\ Turns' = Turns /\ N' = N /\ NoTurn \in Turns BY <1>1, QuietTypes DEF Turns
<1>3. /\ job.read.session \in {NoSession} \cup SessionsOf(Turns)
      /\ job.read.mode \in Modes /\ job.read.messages \in SUBSET Turns
      /\ job \in JobsOf(Turns, N)
 BY <1>1, JobIs DEF Typed
<1>4. session \in SessionsOf(Turns) BY <1>2, <1>3, StoppedIs
<1>5. provider \in Providers BY <1>3 DEF SessionProvider, SessionsOf, Providers
<1> HIDE DEF session, provider
<1>6. thread' \in ReadsOf(Turns) BY <1>1, <1>4, SetSessionIs DEF Typed
<1>7. CASE Succeed
 <2>1. BreakerTyped' /\ HistoryTyped' /\ JobTyped'
  BY <1>1, <1>2, <1>7, SucceedTypes DEF Succeed, Typed
 <2> QED BY <1>1, <1>6, <2>1, QuietStep
<1>8. CASE job' = [job EXCEPT !.step = "start", !.start = start] /\ Go
 <2>1. start \in StartsOf(Turns, N) BY <1>3, <1>5 DEF StartsOf
 <2> HIDE DEF start
 <2>2. job' \in JobsOf(Turns, N) /\ job'.start = start /\ job'.step = "start"
  BY <1>3, <1>8, <2>1 DEF JobsOf
 <2>3. JobTyped' BY <1>2, <2>1, <2>2 DEF JobTyped
 <2> QED BY <1>1, <1>2, <1>6, <1>8, <2>3, QuietStep, GoTypes
<1> QED BY <1>7, <1>8 DEF Mark, provider

LEMMA MarkReadyTyped == ASSUME Typed, MarkReady PROVE Typed'
<1> DEFINE session == Ready(job.start.provider, job.start.mode)
<1>1. /\ job # None /\ job.step = "ready" /\ SetSession(session) /\ NextJob("clear") /\ Go
      /\ UNCHANGED <<setting, ingesting, agents, directory, spent, intents>>
 BY DEF MarkReady, NoAgent, Aside
<1>2. Grown /\ Turns' = Turns /\ N' = N /\ NoTurn \in Turns BY <1>1, QuietTypes DEF Turns
<1>3. /\ job.start.provider \in Providers /\ job.start.mode \in Modes
      /\ job.start \in StartsOf(Turns, N) /\ contexts # << >>
 BY <1>1, JobIs DEF StartsOf, Typed, JobTyped
<1>4. session \in SessionsOf(Turns) BY <1>2, <1>3, ReadyIs
<1> HIDE DEF session
<1>5. thread' \in ReadsOf(Turns) BY <1>1, <1>4, SetSessionIs DEF Typed
<1>6. JobTyped' BY <1>1, <1>2, <1>3, NextJobTypes DEF Typed, Grown
<1> QED BY <1>1, <1>2, <1>5, <1>6, QuietStep, GoTypes

LEMMA ClearTyped == ASSUME Typed, Clear PROVE Typed'
<1> DEFINE turn == FirstAcknowledgement + Len(contexts)
<1>1. /\ job # None /\ job.step = "clear" /\ Go
      /\ thread' = [thread EXCEPT !.messages = {}]
      /\ job' = [job EXCEPT !.step = "ensure", !.turn = turn]
      /\ UNCHANGED <<setting, ingesting, agents, directory, spent, intents>>
 BY DEF Clear, NoAgent, Aside
<1>2. Grown /\ Turns' = Turns /\ N' = N BY <1>1, QuietTypes
<1>3. job \in JobsOf(Turns, N) /\ contexts # << >> BY <1>1, JobIs DEF Typed, JobTyped
<1>4. Len(contexts) \in DOMAIN contexts
 <2>1. DOMAIN contexts = 1..Len(contexts) /\ Len(contexts) \in Nat BY ContextsAre DEF Typed
 <2>2. contexts \in Seq(ContextsOf(Turns, N)) BY DEF Typed, AgentsTyped
 <2>3. Len(contexts) # 0 BY <1>3, <2>2, EmptySeq
 <2> QED BY <2>1, <2>3
<1>5. turn \in Turns BY <1>4 DEF Turns
<1> HIDE DEF turn
<1>6. thread' \in ReadsOf(Turns) BY <1>1, SessionIs DEF ReadsOf, Typed
<1>7. job' \in JobsOf(Turns, N) /\ job'.step = "ensure" BY <1>1, <1>3, <1>5 DEF JobsOf
<1>8. JobTyped' BY <1>2, <1>7 DEF JobTyped
<1> QED BY <1>1, <1>2, <1>6, <1>8, QuietStep, GoTypes

LEMMA ReactorTyped == ASSUME Typed, Reactor PROVE Typed'
BY TakeTyped, EnsureTyped, StartTyped, BindTyped, SendTyped, InterruptTyped, StopTyped, MarkTyped,
   MarkReadyTyped, ClearTyped DEF Reactor

(* The events of a turn that ends.                                          *)
CompletionEvents(c, state, full) ==
    LET p == contexts[c].provider
        turn == contexts[c].turn
    IN  (IF state = "failed" /\ p = "claudeCode"
         THEN << [Event("runtime.error", p, turn) EXCEPT !.full = full] >> ELSE << >>)
        \o << [Completed(p, turn, state) EXCEPT !.full = full] >>
        \o (IF p = "claudeCode" THEN << Event("thread.token-usage.updated", p, turn) >> ELSE << >>)

LEMMA CompleteTurnIs ==
  ASSUME Typed, NEW c \in DOMAIN contexts, NEW state \in {"completed", "failed", "interrupted"},
    NEW full \in BOOLEAN, CompleteTurn(c, state, full)
  PROVE /\ runtime' = runtime \o CompletionEvents(c, state, full)
        /\ CompletionEvents(c, state, full) \in Seq(EventsOf(Turns))
        /\ contexts[c].turn \in Turns /\ contexts[c].provider \in Providers
<1> DEFINE p == contexts[c].provider
           turn == contexts[c].turn
           a == IF state = "failed" /\ p = "claudeCode"
                THEN << [Event("runtime.error", p, turn) EXCEPT !.full = full] >> ELSE << >>
           b == << [Completed(p, turn, state) EXCEPT !.full = full] >>
           d == IF p = "claudeCode" THEN << Event("thread.token-usage.updated", p, turn) >>
                ELSE << >>
<1>1. contexts[c] \in ContextsOf(Turns, N) /\ NoTurn \in Turns BY ContextsAre DEF Typed, Turns
<1>2. p \in Providers /\ turn \in Turns BY <1>1 DEF ContextsOf
<1>3. runtime' = ((runtime \o a) \o b) \o d BY DEF CompleteTurn
<1>4. CompletionEvents(c, state, full) = (a \o b) \o d BY DEF CompletionEvents
<1>5. /\ [Event("runtime.error", p, turn) EXCEPT !.full = full] \in EventsOf(Turns)
      /\ [Completed(p, turn, state) EXCEPT !.full = full] \in EventsOf(Turns)
      /\ Event("thread.token-usage.updated", p, turn) \in EventsOf(Turns)
 <2> HIDE DEF p, turn
 <2> QED BY <1>1, <1>2, EventsAre
<1>6. a \in Seq(EventsOf(Turns)) /\ b \in Seq(EventsOf(Turns)) /\ d \in Seq(EventsOf(Turns))
 BY <1>5
<1>7. runtime \in Seq(EventsOf(Turns)) BY DEF Typed, RuntimeTyped
<1> HIDE DEF a, b, d
<1>8. /\ ((runtime \o a) \o b) \o d = runtime \o ((a \o b) \o d)
      /\ (a \o b) \o d \in Seq(EventsOf(Turns))
 <2>1. \A e, f, g \in Seq(EventsOf(Turns)) :
          /\ ((runtime \o e) \o f) \o g = runtime \o ((e \o f) \o g)
          /\ (e \o f) \o g \in Seq(EventsOf(Turns))
  <3> SUFFICES ASSUME NEW e \in Seq(EventsOf(Turns)), NEW f \in Seq(EventsOf(Turns)),
                      NEW g \in Seq(EventsOf(Turns))
      PROVE  /\ ((runtime \o e) \o f) \o g = runtime \o ((e \o f) \o g)
             /\ (e \o f) \o g \in Seq(EventsOf(Turns))
   OBVIOUS
  <3>1. runtime \o e \in Seq(EventsOf(Turns)) /\ e \o f \in Seq(EventsOf(Turns))
        /\ (e \o f) \o g \in Seq(EventsOf(Turns))
   BY <1>7, ConcatProperties, Zenon
  <3>2. (runtime \o e) \o f = runtime \o (e \o f) BY <1>7, ConcatAssociative
  <3>3. (runtime \o (e \o f)) \o g = runtime \o ((e \o f) \o g)
   <4>1. \A h \in Seq(EventsOf(Turns)) : (runtime \o h) \o g = runtime \o (h \o g)
    <5> TAKE h \in Seq(EventsOf(Turns))
    <5> QED BY <1>7, ConcatAssociative, SMTT(40)
   <4> QED BY <3>1, <4>1, Zenon
  <3> QED BY <3>1, <3>2, <3>3
 <2> QED BY <1>6, <2>1
<1> QED BY <1>2, <1>3, <1>4, <1>8

LEMMA CompleteTurnTyped ==
  ASSUME Typed, NEW c \in DOMAIN contexts, NEW state \in {"completed", "failed", "interrupted"},
    NEW full \in BOOLEAN, CompleteTurn(c, state, full)
  PROVE Typed'
<1> DEFINE context == contexts[c]
           held == conversations[context.conversation] \cup {context.turn}
           at == IF context.provider = "codex" THEN {} ELSE held
           cursor == [context.cursor EXCEPT !.conversation = context.conversation, !.at = at]
           new == [context EXCEPT !.turn = NoTurn, !.cursor = cursor]
<1>1. /\ UNCHANGED <<setting, thread, intents, worker, sessions, ingesting, breaker>>
      /\ UNCHANGED <<job, directory>>
      /\ \/ Spend("full") \/ Spend("faults") \/ UNCHANGED spent
      /\ conversations' = [conversations EXCEPT ![context.conversation] = held]
      /\ history' = [history EXCEPT !.ended = @ \cup {context.turn}]
 BY DEF CompleteTurn, SpendEnd, worker
<1>2. context \in ContextsOf(Turns, N) /\ NoTurn \in Turns /\ N \in Nat
 BY ContextsAre DEF Typed, Turns
<1>3. /\ context.conversation \in 1..N /\ context.turn \in Turns
      /\ context.cursor \in CursorsOf(Turns, N)
 BY <1>2 DEF ContextsOf
<1>4. conversations \in Seq(SUBSET Turns) /\ conversations[context.conversation] \in SUBSET Turns
 BY <1>3, ContextsAre DEF Typed, AgentsTyped
<1>5. held \in SUBSET Turns /\ at \in SUBSET Turns BY <1>3, <1>4
<1>6. contexts' = [contexts EXCEPT ![c] = new] BY DEF CompleteTurn
<1> HIDE DEF held, at
<1>7. cursor \in CursorsOf(Turns, N)
 <2> DEFINE old == context.cursor
            number == context.conversation
 <2>1. old \in CursorsOf(Turns, N) /\ number \in 1..N /\ N \in Nat BY <1>2, <1>3
 <2> HIDE DEF old, number
 <2>2. old = [provider |-> old.provider, conversation |-> old.conversation, at |-> old.at]
  BY <2>1 DEF CursorsOf
 <2>3. [old EXCEPT !.conversation = number, !.at = at]
         = [provider |-> old.provider, conversation |-> number, at |-> at]
  <3> DEFINE mid == [old EXCEPT !.conversation = number]
  <3>1. mid = [provider |-> old.provider, conversation |-> number, at |-> old.at] BY <2>2
  <3> HIDE DEF mid
  <3>2. [mid EXCEPT !.at = at]
          = [provider |-> old.provider, conversation |-> number, at |-> at]
   BY <3>1
  <3> QED BY <3>2 DEF mid
 <2>4. [provider |-> old.provider, conversation |-> number, at |-> at] \in CursorsOf(Turns, N)
  BY <1>5, <2>1 DEF CursorsOf
 <2> QED BY <2>3, <2>4 DEF old, number
<1> HIDE DEF cursor
<1>8. new \in ContextsOf(Turns, N) /\ new.provider = context.provider BY <1>2, <1>7 DEF ContextsOf
<1> HIDE DEF new
<1>9. conversations' \in Seq(SUBSET Turns) /\ Len(conversations') = Len(conversations)
 BY <1>1, <1>3, <1>4, <1>5 DEF N
<1>10. AgentsTyped' /\ Grown /\ Turns' = Turns /\ N' = N
 BY <1>1, <1>6, <1>8, <1>9, ContextReplaced DEF Typed
<1>11. RuntimeTyped' BY <1>10, CompleteTurnIs, RuntimeAppended DEF Typed
<1>12. BoundsTyped' BY <1>1, SpendTypes, BoundsStay DEF Typed, Requests
<1>13. HistoryTyped' BY <1>1, <1>3, <1>10 DEF Typed, HistoryTyped
<1>14. /\ ThreadTyped' /\ IntentsTyped' /\ JobTyped' /\ DirectoryTyped' /\ IngestingTyped'
 BY <1>1, <1>10, ThreadStays, IntentsStay, JobStays, DirectoryStays, IngestingStays DEF Typed
<1>15. BreakerTyped' BY <1>1 DEF Typed, BreakerTyped
<1> QED BY <1>10, <1>11, <1>12, <1>13, <1>14, <1>15 DEF Typed

(* A turn that ends besides the last one.                                   *)
LEMMA CompleteOtherIs ==
  ASSUME Typed, NEW c \in DOMAIN contexts, NEW state \in {"completed", "failed", "interrupted"},
    NEW full \in BOOLEAN, NEW turn \in contexts[c].others,
    CompleteOther(c, turn, state, full)
  PROVE /\ turn \in Turns /\ contexts[c].provider = "codex"
        /\ [Completed("codex", turn, state) EXCEPT !.full = full] \in EventsOf(Turns)
        /\ runtime' = runtime \o << [Completed("codex", turn, state) EXCEPT !.full = full] >>
<1> DEFINE event == [Completed("codex", turn, state) EXCEPT !.full = full]
<1>1. contexts[c] \in ContextsOf(Turns, N) /\ NoTurn \in Turns BY ContextsAre DEF Typed, Turns
<1>2. turn \in Turns /\ contexts[c].provider = "codex" BY <1>1 DEF ContextsOf, Providers
<1>3. event \in EventsOf(Turns) BY <1>1, <1>2, EventsAre DEF Providers
<1>4. runtime' = Append(runtime, event) BY <1>2 DEF CompleteOther
<1> HIDE DEF event
<1>5. runtime' = runtime \o << event >> BY <1>3, <1>4, AppendIsConcat DEF Typed, RuntimeTyped
<1> QED BY <1>2, <1>3, <1>5 DEF event

LEMMA CompleteOtherTyped ==
  ASSUME Typed, NEW c \in DOMAIN contexts, NEW state \in {"completed", "failed", "interrupted"},
    NEW full \in BOOLEAN, NEW turn \in contexts[c].others,
    CompleteOther(c, turn, state, full)
  PROVE Typed'
<1> DEFINE context == contexts[c]
           new == [context EXCEPT !.turn = NoTurn, !.others = TurnsOf(c) \ {turn}]
           event == [Completed("codex", turn, state) EXCEPT !.full = full]
<1>1. /\ UNCHANGED <<setting, thread, intents, worker, sessions, ingesting, breaker>>
      /\ UNCHANGED <<job, directory>>
      /\ \/ Spend("full") \/ Spend("faults") \/ UNCHANGED spent
      /\ conversations' = [conversations EXCEPT ![context.conversation] = @ \cup {turn}]
      /\ history' = [history EXCEPT !.ended = @ \cup {turn}]
      /\ contexts' = [contexts EXCEPT ![c] = new]
 BY DEF CompleteOther, SpendEnd, worker
<1>2. context \in ContextsOf(Turns, N) /\ NoTurn \in Turns /\ N \in Nat
 BY ContextsAre DEF Typed, Turns
<1>3. turn \in Turns /\ context.provider = "codex" /\ event \in EventsOf(Turns)
      /\ runtime' = runtime \o << event >>
 BY CompleteOtherIs
<1>4. context.conversation \in 1..N /\ TurnsOf(c) \ {turn} \in SUBSET Turns
 BY <1>2 DEF ContextsOf, TurnsOf
<1>5. conversations \in Seq(SUBSET Turns) /\ conversations[context.conversation] \in SUBSET Turns
 BY <1>4, ContextsAre DEF Typed, AgentsTyped
<1>6. new \in ContextsOf(Turns, N) /\ new.provider = context.provider
 BY <1>2, <1>3, <1>4 DEF ContextsOf
<1> HIDE DEF new, event
<1>7. conversations' \in Seq(SUBSET Turns) /\ Len(conversations') = Len(conversations)
 BY <1>1, <1>3, <1>4, <1>5 DEF N
<1>8. AgentsTyped' /\ Grown /\ Turns' = Turns /\ N' = N
 BY <1>1, <1>6, <1>7, ContextReplaced DEF Typed
<1>9. RuntimeTyped'
 <2>1. << event >> \in Seq(EventsOf(Turns')) BY <1>3, <1>8
 <2> QED BY <1>3, <1>8, <2>1, RuntimeAppended DEF Typed
<1>10. BoundsTyped' BY <1>1, SpendTypes, BoundsStay DEF Typed, Requests
<1>11. HistoryTyped' BY <1>1, <1>3, <1>8 DEF Typed, HistoryTyped
<1>12. /\ ThreadTyped' /\ IntentsTyped' /\ JobTyped' /\ DirectoryTyped' /\ IngestingTyped'
 BY <1>1, <1>8, ThreadStays, IntentsStay, JobStays, DirectoryStays, IngestingStays DEF Typed
<1>13. BreakerTyped' BY <1>1 DEF Typed, BreakerTyped
<1> QED BY <1>8, <1>9, <1>10, <1>11, <1>12, <1>13 DEF Typed

(* The events of a session that is lost.                                    *)
LossEvents(c) ==
    LET p == contexts[c].provider
    IN  IF p = "codex" THEN << Exited(p) >>
        ELSE << Event("runtime.error", p, contexts[c].turn),
                Completed(p, contexts[c].turn, "failed") >>

LEMMA LoseSessionTyped ==
  ASSUME Typed, NEW c \in DOMAIN contexts, LoseSession(c) PROVE Typed'
<1> DEFINE p == contexts[c].provider
           new == Down(contexts[c])
<1>1. /\ UNCHANGED <<setting, thread, intents, job, directory, conversations, ingesting, breaker>>
      /\ Spend("faults") /\ Lose(TurnsOf(c))
      /\ sessions' = [sessions EXCEPT ![p] = 0] /\ runtime' = runtime \o LossEvents(c)
      /\ contexts' = [contexts EXCEPT ![c] = new]
 BY DEF LoseSession, worker, LossEvents
<1>2. contexts[c] \in ContextsOf(Turns, N) /\ NoTurn \in Turns BY ContextsAre DEF Typed, Turns
<1>3. /\ contexts[c].turn \in Turns /\ p \in Providers /\ new \in ContextsOf(Turns, N)
      /\ new.provider = contexts[c].provider
 BY <1>2, DownIs DEF ContextsOf
<1> HIDE DEF new
<1>4. conversations' \in Seq(SUBSET Turns) /\ Len(conversations') = Len(conversations)
 BY <1>1 DEF Typed, AgentsTyped
<1>5. AgentsTyped' /\ Grown /\ Turns' = Turns /\ N' = N
 BY <1>1, <1>3, <1>4, ContextReplaced DEF Typed
<1>6. /\ Exited(p) \in EventsOf(Turns) /\ Event("runtime.error", p, contexts[c].turn) \in EventsOf(Turns)
      /\ Completed(p, contexts[c].turn, "failed") \in EventsOf(Turns)
 BY <1>2, <1>3, EventsAre
<1>7. LossEvents(c) \in Seq(EventsOf(Turns)) BY <1>6 DEF LossEvents
<1>8. RuntimeTyped' BY <1>1, <1>5, <1>7, RuntimeAppended DEF Typed
<1>9. BoundsTyped' /\ HistoryTyped'
 <2>1. TurnsOf(c) \in SUBSET Turns BY <1>2 DEF ContextsOf, TurnsOf
 <2> QED BY <1>1, <1>5, <2>1, SpendTypes, HistoryKept DEF Typed, Requests
<1>10. /\ ThreadTyped' /\ IntentsTyped' /\ JobTyped' /\ DirectoryTyped' /\ IngestingTyped'
 BY <1>1, <1>5, ThreadStays, IntentsStay, JobStays, DirectoryStays, IngestingStays DEF Typed
<1>11. BreakerTyped' BY <1>1 DEF Typed, BreakerTyped
<1> QED BY <1>5, <1>8, <1>9, <1>10, <1>11 DEF Typed

LEMMA IngestReadTyped == ASSUME Typed, IngestRead PROVE Typed'
<1>1. /\ runtime # << >> /\ runtime' = Tail(runtime)
      /\ ingesting' = [event |-> Head(runtime), session |-> Session]
      /\ UNCHANGED <<setting, thread, intents, worker, sessions, contexts, conversations, breaker,
                     spent, history, job, directory>>
 BY DEF IngestRead, worker
<1>2. Grown /\ Turns' = Turns /\ N' = N BY <1>1, SameIs DEF Typed
<1>3. runtime \in Seq(EventsOf(Turns)) BY DEF Typed, RuntimeTyped
<1>4. Head(runtime) \in EventsOf(Turns) /\ Tail(runtime) \in Seq(EventsOf(Turns))
 BY <1>1, <1>3, HeadTailProperties
<1>5. RuntimeTyped' /\ IngestingTyped'
 BY <1>1, <1>2, <1>4, SessionIs DEF RuntimeTyped, IngestingTyped, Typed
<1>6. /\ ThreadTyped' /\ IntentsTyped' /\ JobTyped' /\ DirectoryTyped' /\ AgentsTyped'
      /\ HistoryTyped' /\ BoundsTyped'
 BY <1>1, <1>2, ThreadStays, IntentsStay, JobStays, DirectoryStays, AgentsStay, HistoryStays,
    BoundsStay DEF Typed
<1>7. BreakerTyped' BY <1>1 DEF Typed, BreakerTyped
<1> QED BY <1>5, <1>6, <1>7 DEF Typed

LEMMA NextSessionIs ==
  ASSUME NEW event \in EventsOf(Turns), NEW session \in {NoSession} \cup SessionsOf(Turns)
  PROVE /\ NextSession(event, session) \in {NoSession} \cup SessionsOf(Turns)
        /\ ActiveTurn(session) \in Turns
<1>1. ActiveTurn(session) \in Turns /\ NoTurn \in Turns BY DEF ActiveTurn, SessionsOf, Turns
<1>2. /\ event.turn \in Turns /\ event.provider \in Providers
      /\ event.type = "session.state.changed" => event.state \in {"starting", "ready"}
      /\ event.type \in {"session.exited", "turn.completed", "session.state.changed",
                         "session.started", "turn.started", "runtime.error",
                         "thread.token-usage.updated"}
 BY DEF EventsOf, EventTypes, EventStates
<1>3. event.type # "thread.token-usage.updated" => NextStatus(event, session) \in Statuses
 BY <1>2 DEF NextStatus, Statuses
<1>4. NextActiveTurn(event, session) \in Turns BY <1>1, <1>2 DEF NextActiveTurn
<1>5. session # NoSession => session.mode \in Modes BY DEF SessionsOf
<1>6. "full-access" \in Modes BY DEF Modes
<1> QED BY <1>1, <1>2, <1>3, <1>4, <1>5, <1>6 DEF NextSession, SessionsOf

LEMMA IngestWriteTyped == ASSUME Typed, IngestWrite PROVE Typed'
<1> DEFINE event == ingesting.event
           session == ingesting.session
<1>1. /\ ingesting # None /\ ingesting' = None
      /\ UNCHANGED <<setting, agents, directory, job, breaker, spent, history>>
      /\ thread' = IF Applies(event, session)
                   THEN [thread EXCEPT !.session = NextSession(event, session)] ELSE thread
      /\ \/ intents' = Append(intents, [type |-> "compact"]) \/ UNCHANGED intents
 BY DEF IngestWrite, worker
<1>2. /\ AgentsTyped' /\ RuntimeTyped' /\ DirectoryTyped' /\ Grown /\ Turns' = Turns /\ N' = N
 BY <1>1, QuietTypes
<1>3. NextSession(event, session) \in {NoSession} \cup SessionsOf(Turns)
 BY <1>1, NextSessionIs DEF Typed, IngestingTyped
<1>4. ThreadTyped' BY <1>1, <1>2, <1>3 DEF Typed, ThreadTyped, ReadsOf
<1>5. [type |-> "compact"] \in IntentsOf(Turns') BY DEF IntentsOf
<1>6. IntentsTyped' BY <1>1, <1>2, <1>5, IntentsStay, IntentAppended DEF Typed
<1>7. JobTyped' /\ HistoryTyped' /\ BoundsTyped' /\ IngestingTyped'
 BY <1>1, <1>2, JobStays, HistoryStays, BoundsStay DEF Typed, IngestingTyped
<1>8. BreakerTyped' BY <1>1 DEF Typed, BreakerTyped
<1> QED BY <1>2, <1>4, <1>6, <1>7, <1>8 DEF Typed

LEMMA RestartTyped == ASSUME Typed, Restart PROVE Typed'
<1>1. /\ Spend("restarts") /\ intents' = << >> /\ job' = None /\ runtime' = << >>
      /\ ingesting' = None /\ sessions' = [p \in Providers |-> 0]
      /\ contexts' = [c \in DOMAIN contexts |-> Down(contexts[c])]
      /\ breaker' = [failures |-> 0, disabled |-> FALSE]
      /\ UNCHANGED <<setting, thread, directory, conversations, history>>
 BY DEF Restart
<1>2. /\ \A c \in DOMAIN contexts : contexts[c] \in ContextsOf(Turns, N)
      /\ N \in Nat /\ Len(contexts) \in Nat /\ DOMAIN contexts = 1..Len(contexts)
 BY ContextsAre DEF Typed
<1>3. DOMAIN contexts' = DOMAIN contexts /\ Turns' = Turns /\ N' = N /\ NoTurn \in Turns
 BY <1>1 DEF Turns, FirstAcknowledgement, N
<1>4. \A c \in DOMAIN contexts : contexts'[c] \in ContextsOf(Turns, N) BY <1>1, <1>2, <1>3, DownIs
<1>5. contexts' \in Seq(ContextsOf(Turns, N)) /\ Len(contexts') = Len(contexts)
 <2> DEFINE n == Len(contexts)
            S == ContextsOf(Turns, N)
 <2>1. contexts' = [c \in 1..n |-> contexts'[c]] BY <1>1, <1>2
 <2>2. \A c \in 1..n : contexts'[c] \in S BY <1>2, <1>4
 <2>3. n \in Nat BY <1>2
 <2> HIDE DEF n, S
 <2>4. contexts' \in [1..n -> S] BY <2>1, <2>2
 <2>5. contexts' \in Seq(S) BY <2>3, <2>4, SeqDef
 <2>6. Len(contexts') = n BY <2>3, <2>4, <2>5, LenProperties
 <2> QED BY <2>5, <2>6 DEF n, S
<1>6. AgentsTyped'
 <2>1. conversations' \in Seq(SUBSET Turns') /\ contexts' \in Seq(ContextsOf(Turns', N'))
  BY <1>1, <1>3, <1>5 DEF Typed, AgentsTyped
 <2>2. sessions' \in [Providers -> 0..Len(contexts')] /\ \A p \in Providers : sessions'[p] = 0
  <3>1. 0 \in 0..Len(contexts') BY <1>2, <1>5
  <3> QED BY <1>1, <3>1
 <2> QED BY <2>1, <2>2 DEF AgentsTyped
<1>7. Grown
 <2>1. contexts # << >> => contexts' # << >>
  <3>1. contexts \in Seq(ContextsOf(Turns, N)) BY DEF Typed, AgentsTyped
  <3>2. contexts # << >> => Len(contexts) # 0 BY <3>1, EmptySeq
  <3>3. Len(<< >>) = 0 OBVIOUS
  <3> QED BY <1>5, <3>2, <3>3
 <2> QED BY <1>2, <1>3, <2>1 DEF Grown
<1>8. RuntimeTyped' /\ IntentsTyped' /\ JobTyped' /\ IngestingTyped' /\ BreakerTyped'
 <2>1. runtime' \in Seq(EventsOf(Turns')) /\ intents' \in Seq(IntentsOf(Turns')) BY <1>1, EmptySeq
 <2>2. JobTyped' /\ IngestingTyped' BY <1>1 DEF JobTyped, IngestingTyped
 <2>3. BreakerTyped' BY <1>1 DEF BreakerTyped
 <2> QED BY <2>1, <2>2, <2>3 DEF RuntimeTyped, IntentsTyped
<1>9. ThreadTyped' /\ DirectoryTyped' /\ HistoryTyped' /\ BoundsTyped'
 BY <1>1, <1>7, ThreadStays, DirectoryStays, HistoryStays, SpendTypes DEF Typed, Requests
<1> QED BY <1>6, <1>8, <1>9 DEF Typed

LEMMA InitTyped == ASSUME Init PROVE Typed
<1>1. NoTurn \in Turns /\ Len(conversations) = 0 /\ Len(contexts) = 0 BY DEF Init, Turns
<1>2. BoundsTyped
 <2>1. \A r \in Requests : setting[r] \in Nat BY SessionsAssumption DEF Init
 <2>2. \A n \in Nat : 0 <= n OBVIOUS
 <2> QED BY <2>1, <2>2 DEF Init, BoundsTyped
<1>3. ThreadTyped BY DEF Init, ThreadTyped, ReadsOf, Modes
<1>4. IntentsTyped /\ RuntimeTyped BY EmptySeq DEF Init, IntentsTyped, RuntimeTyped
<1>5. JobTyped /\ DirectoryTyped /\ IngestingTyped /\ BreakerTyped
 BY DEF Init, JobTyped, DirectoryTyped, IngestingTyped, BreakerTyped
<1>6. AgentsTyped
 <2>1. conversations \in Seq(SUBSET Turns) /\ contexts \in Seq(ContextsOf(Turns, N))
  BY EmptySeq DEF Init
 <2>2. sessions \in [Providers -> 0..Len(contexts)] /\ \A p \in Providers : sessions[p] = 0
  <3>1. 0 \in 0..Len(contexts) BY <1>1
  <3> QED BY <3>1 DEF Init
 <2> QED BY <2>1, <2>2 DEF AgentsTyped
<1>7. HistoryTyped BY DEF Init, HistoryTyped
<1> QED BY <1>2, <1>3, <1>4, <1>5, <1>6, <1>7 DEF Typed

LEMMA StutterTyped == ASSUME Typed, UNCHANGED vars PROVE Typed'
<1>1. /\ UNCHANGED <<setting, agents, directory, thread, intents, job, ingesting, breaker>>
      /\ UNCHANGED <<spent, history>>
 BY DEF vars, agents
<1>2. AgentsTyped' /\ RuntimeTyped' /\ DirectoryTyped' /\ Grown BY <1>1, QuietTypes
<1>3. /\ ThreadTyped' /\ IntentsTyped' /\ JobTyped' /\ IngestingTyped' /\ HistoryTyped'
      /\ BoundsTyped'
 BY <1>1, <1>2, ThreadStays, IntentsStay, JobStays, IngestingStays, HistoryStays, BoundsStay
    DEF Typed
<1>4. BreakerTyped' BY <1>1 DEF Typed, BreakerTyped
<1> QED BY <1>2, <1>3, <1>4 DEF Typed

LEMMA NextTyped == ASSUME Typed, [Next]_vars PROVE Typed'
<1>1. ASSUME NEW c \in DOMAIN contexts, Agent(c) PROVE Typed'
 BY <1>1, CompleteTurnTyped, CompleteOtherTyped DEF Agent
<1>2. ASSUME NEW c \in DOMAIN contexts, LoseSession(c) PROVE Typed' BY <1>2, LoseSessionTyped
<1>3. CASE User \/ Reactor \/ Ingestion \/ Restart
 BY <1>3, UserTyped, ReactorTyped, IngestReadTyped, IngestWriteTyped, RestartTyped DEF Ingestion
<1>4. CASE UNCHANGED vars BY <1>4, StutterTyped
<1> QED BY <1>1, <1>2, <1>3, <1>4 DEF Next

LEMMA TypedIsTypeOK == ASSUME Typed PROVE TypeOK
<1>1. SessionOK(Session) /\ thread.mode \in Modes /\ thread.messages \subseteq Turns
 BY SessionIs DEF Typed, SessionOK, SessionsOf
<1>2. ASSUME NEW cursor \in CursorsOf(Turns, N) PROVE CursorOK(cursor)
 BY DEF CursorsOf, CursorOK, N
<1>3. ContextsOK
 <2> SUFFICES ASSUME NEW c \in DOMAIN contexts
     PROVE  /\ contexts[c].provider \in Providers /\ contexts[c].mode \in Modes
            /\ contexts[c].turn \in Turns
            /\ contexts[c].others \cup contexts[c].prompt \subseteq Turns
            /\ contexts[c].conversation \in DOMAIN conversations
            /\ CursorOK(contexts[c].cursor)
  BY DEF ContextsOK
 <2>1. contexts[c] \in ContextsOf(Turns, N) BY ContextsAre DEF Typed
 <2>2. DOMAIN conversations = 1..N BY DEF Typed, AgentsTyped, N
 <2>3. CursorOK(contexts[c].cursor) BY <1>2, <2>1 DEF ContextsOf
 <2> QED BY <2>1, <2>2, <2>3 DEF ContextsOf
<1>4. \A p \in Providers : sessions[p] # 0 => contexts[sessions[p]].provider = p
 BY DEF Typed, AgentsTyped
<1>5. directory # None => directory.provider \in Providers /\ CursorOK(directory.cursor)
 BY <1>2 DEF Typed, DirectoryTyped, BindingsOf
<1>6. ingesting # None => SessionOK(ingesting.session)
 BY DEF Typed, IngestingTyped, SessionOK, SessionsOf
<1>7. breaker.failures \in Nat /\ breaker.disabled \in BOOLEAN BY DEF Typed, BreakerTyped
<1>8. \A r \in Requests : spent[r] <= setting[r] BY DEF Typed, BoundsTyped
<1> QED BY <1>1, <1>3, <1>4, <1>5, <1>6, <1>7, <1>8 DEF TypeOK

--------------------
(* The turn that the thread shows as running is run, or an event that ends  *)
(* it is on its way, behind every event that could show it again.  Both     *)
(* workers write the session: what ingestion read of it is never ahead.     *)
Clears(event, turn) ==
    event.type = "session.exited" \/ (event.type = "turn.completed" /\ event.turn = turn)
ShowsTurn(event) == event.type \in {"turn.started", "runtime.error"}
Revives(event) == event.type \in {"session.started", "session.state.changed"}
Runs(turn) == \E c \in DOMAIN contexts : contexts[c].up /\ turn \in TurnsOf(c)
Settles(turn, i) ==
    \/ turn = NoTurn \/ Runs(turn)
    \/ \E j \in DOMAIN runtime : i < j /\ Clears(runtime[j], turn)
Accounted(turn) ==
    \/ Settles(turn, 0)
    \/ ingesting # None /\ Clears(ingesting.event, turn)
TurnShown == Accounted(ActiveTurn(Session))
TurnsAnnounced ==
    \A i \in DOMAIN runtime : ShowsTurn(runtime[i]) => Settles(runtime[i].turn, i)
IngestingSettles ==
    ingesting # None =>
        /\ Accounted(ActiveTurn(ingesting.session))
        /\ ShowsTurn(ingesting.event) => Settles(ingesting.event.turn, 0)
        /\ ActiveTurn(Session) \in {NoTurn, ActiveTurn(ingesting.session)}
TurnsSettled == TurnShown /\ TurnsAnnounced /\ IngestingSettles
TurnsTrue == spent.restarts = 0 => TurnsSettled

LEMMA ConcatIs ==
  ASSUME NEW S, NEW s \in Seq(S), NEW e \in Seq(S)
  PROVE /\ s \o e \in Seq(S) /\ Len(s) \in Nat /\ Len(e) \in Nat
        /\ DOMAIN s = 1..Len(s) /\ DOMAIN e = 1..Len(e)
        /\ DOMAIN (s \o e) = 1..Len(s) + Len(e)
        /\ \A i \in DOMAIN s : (s \o e)[i] = s[i]
        /\ \A j \in DOMAIN e : (s \o e)[Len(s) + j] = e[j]
        /\ \A i \in DOMAIN (s \o e) : i \in DOMAIN s \/ i - Len(s) \in DOMAIN e
<1>1. /\ s \o e \in Seq(S) /\ Len(s) \in Nat /\ Len(e) \in Nat
      /\ DOMAIN s = 1..Len(s) /\ DOMAIN e = 1..Len(e) /\ Len(s \o e) = Len(s) + Len(e)
      /\ DOMAIN (s \o e) = 1..Len(s \o e)
      /\ \A i \in 1..Len(s) + Len(e) : (s \o e)[i] = IF i <= Len(s) THEN s[i] ELSE e[i - Len(s)]
 BY ConcatProperties, LenProperties
<1>2. \A j \in DOMAIN e : /\ Len(s) + j \in 1..Len(s) + Len(e) /\ ~(Len(s) + j <= Len(s))
                          /\ (Len(s) + j) - Len(s) = j
 BY <1>1
<1>3. \A i \in DOMAIN s : i \in 1..Len(s) + Len(e) /\ i <= Len(s) BY <1>1
<1>4. \A i \in 1..Len(s) + Len(e) : i \in 1..Len(s) \/ i - Len(s) \in 1..Len(e) BY <1>1
<1> QED BY <1>1, <1>2, <1>3, <1>4

(* A step that adds events to those on their way and ends no turn silently. *)
LEMMA TurnsAppended ==
  ASSUME NEW S, runtime \in Seq(S), NEW events \in Seq(S), runtime' = runtime \o events,
    TurnsSettled, UNCHANGED ingesting,
    ActiveTurn(Session)' \in {NoTurn, ActiveTurn(Session)},
    \A t : t # NoTurn /\ Runs(t) =>
               Runs(t)' \/ \E j \in DOMAIN events : Clears(events[j], t),
    \A i \in DOMAIN events : ShowsTurn(events[i]) =>
       \/ events[i].turn = NoTurn \/ Runs(events[i].turn)'
       \/ \E j \in DOMAIN events : i < j /\ Clears(events[j], events[i].turn)
  PROVE TurnsSettled'
<1> DEFINE n == Len(runtime)
<1>1. /\ n \in Nat /\ DOMAIN runtime = 1..n /\ DOMAIN events = 1..Len(events)
      /\ \A i \in DOMAIN runtime : i \in DOMAIN runtime' /\ runtime'[i] = runtime[i]
      /\ \A j \in DOMAIN events : n + j \in DOMAIN runtime' /\ runtime'[n + j] = events[j]
      /\ \A i \in DOMAIN runtime' : i \in DOMAIN runtime \/ i - n \in DOMAIN events
      /\ DOMAIN runtime' \subseteq Nat /\ Len(events) \in Nat
 BY ConcatIs
<1> HIDE DEF n
<1>2. ASSUME NEW t, NEW i \in 0..n, Settles(t, i) PROVE Settles(t, i)'
 <2>1. CASE t # NoTurn /\ Runs(t) /\ ~Runs(t)'
  <3>1. PICK j \in DOMAIN events : Clears(events[j], t) BY <2>1
  <3>2. i < n + j /\ n + j \in DOMAIN runtime' /\ Clears(runtime'[n + j], t) BY <1>1, <3>1
  <3> QED BY <3>2 DEF Settles, Clears
 <2>2. ASSUME NEW j \in DOMAIN runtime, i < j, Clears(runtime[j], t) PROVE Settles(t, i)'
  <3>1. j \in DOMAIN runtime' /\ Clears(runtime'[j], t) BY <1>1, <2>2
  <3> QED BY <2>2, <3>1 DEF Settles, Clears
 <2>3. CASE t = NoTurn \/ Runs(t)' BY <2>3 DEF Settles
 <2> QED BY <1>2, <2>1, <2>2, <2>3 DEF Settles
<1>3. 0 \in 0..n BY <1>1
<1>4. ASSUME NEW t, Accounted(t) PROVE Accounted(t)' BY <1>2, <1>3, <1>4 DEF Accounted, Clears
<1>5. Accounted(NoTurn)' BY DEF Accounted, Settles
<1>6. TurnShown'
 <2>1. Accounted(ActiveTurn(Session)) BY DEF TurnsSettled, TurnShown
 <2>2. CASE ActiveTurn(Session)' = NoTurn BY <1>5, <2>2 DEF TurnShown, Accounted, Settles
 <2>3. CASE ActiveTurn(Session)' = ActiveTurn(Session)
  BY <1>4, <2>1, <2>3 DEF TurnShown, Accounted, Settles, Clears
 <2> QED BY <2>2, <2>3
<1>7. ASSUME NEW i \in DOMAIN runtime', NEW e, e = runtime'[i], ShowsTurn(e)
    PROVE  Settles(e.turn, i)'
 <2>1. CASE i \in DOMAIN runtime
  <3>1. e = runtime[i] /\ i \in 0..n BY <1>1, <1>7, <2>1
  <3>2. Settles(e.turn, i) BY <1>7, <2>1, <3>1 DEF TurnsSettled, TurnsAnnounced
  <3> QED BY <1>2, <3>1, <3>2
 <2>2. CASE i - n \in DOMAIN events
  <3> DEFINE k == i - n
  <3>1. k \in DOMAIN events /\ i = n + k /\ e = events[k] /\ k \in Nat BY <1>1, <1>7, <2>2
  <3> HIDE DEF k
  <3>2. CASE e.turn = NoTurn \/ Runs(e.turn)' BY <3>2 DEF Settles
  <3>3. ASSUME NEW j \in DOMAIN events, k < j, Clears(events[j], e.turn)
      PROVE  Settles(e.turn, i)'
   <4>1. i < n + j /\ n + j \in DOMAIN runtime' /\ runtime'[n + j] = events[j] BY <1>1, <3>1, <3>3
   <4> QED BY <3>3, <4>1 DEF Settles, Clears
  <3> QED BY <1>7, <3>1, <3>2, <3>3
 <2> QED BY <1>1, <1>7, <2>1, <2>2
<1>8. TurnsAnnounced' BY <1>7 DEF TurnsAnnounced, Settles, ShowsTurn
<1>9. ASSUME ingesting # None, NEW read, NEW turn,
             read = ActiveTurn(ingesting.session), turn = ingesting.event.turn
    PROVE  /\ Accounted(read)' /\ (ShowsTurn(ingesting.event) => Settles(turn, 0)')
           /\ ActiveTurn(Session)' \in {NoTurn, read}
 <2>1. /\ Accounted(read) /\ (ShowsTurn(ingesting.event) => Settles(turn, 0))
       /\ ActiveTurn(Session) \in {NoTurn, read}
  BY <1>9 DEF TurnsSettled, IngestingSettles
 <2>2. Accounted(read)' BY <1>4, <2>1
 <2>3. ShowsTurn(ingesting.event) => Settles(turn, 0)' BY <1>2, <1>3, <2>1
 <2> QED BY <2>1, <2>2, <2>3
<1>10. IngestingSettles'
 BY <1>9 DEF IngestingSettles, ShowsTurn, ActiveTurn, Accounted, Settles, Clears
<1> QED BY <1>6, <1>8, <1>10 DEF TurnsSettled

LEMMA RuntimeGrows ==
  ASSUME Grown, RuntimeTyped PROVE runtime \in Seq(EventsOf(Turns'))
<1>1. EventsOf(Turns) \subseteq EventsOf(Turns') BY SetsGrow DEF Grown
<1> QED BY <1>1, SequencesGrow DEF RuntimeTyped

LEMMA RunsReplaced ==
  ASSUME NEW c \in DOMAIN contexts, DOMAIN contexts' = DOMAIN contexts,
    \A d \in DOMAIN contexts \ {c} : contexts'[d] = contexts[d], NEW t, Runs(t)
  PROVE Runs(t)' \/ (contexts[c].up /\ t \in TurnsOf(c))
<1>1. PICK d \in DOMAIN contexts : contexts[d].up /\ t \in TurnsOf(d) BY DEF Runs
<1>2. CASE d = c BY <1>1, <1>2
<1>3. CASE d # c BY <1>1, <1>3 DEF Runs, TurnsOf
<1> QED BY <1>2, <1>3

(* Steps that tell ingestion nothing.                                       *)
LEMMA TurnsQuiet ==
  ASSUME RuntimeTyped, TurnsSettled, UNCHANGED <<runtime, ingesting>>,
    \A t : Runs(t) => Runs(t)',
    ActiveTurn(Session)' \in {NoTurn, ActiveTurn(Session)}
  PROVE TurnsSettled'
<1> DEFINE S == EventsOf(Turns)
<1>1. runtime \in Seq(S) /\ << >> \in Seq(S) /\ DOMAIN << >> = {} BY DEF RuntimeTyped
<1>2. runtime' = runtime \o << >> BY <1>1
<1> HIDE DEF S
<1> QED BY <1>1, <1>2, TurnsAppended

LEMMA RunsSame == ASSUME UNCHANGED contexts, NEW t, Runs(t) PROVE Runs(t)'
BY DEF Runs, TurnsOf

(* A context that goes on with the turns it has.                            *)
LEMMA RunsKept ==
  ASSUME NEW c \in DOMAIN contexts, DOMAIN contexts' = DOMAIN contexts,
    \A d \in DOMAIN contexts \ {c} : contexts'[d] = contexts[d],
    contexts[c].up => contexts'[c].up,
    NEW t, Runs(t), t \in TurnsOf(c) => t \in TurnsOf(c)'
  PROVE Runs(t)'
BY RunsReplaced DEF Runs, TurnsOf

(* The events that the calls of an adapter announce.                        *)
StartEvents(p) ==
    IF p = "codex" THEN << StateChanged(p, "starting"), StateChanged(p, "ready") >>
    ELSE << Event("session.started", p, NoTurn), StateChanged(p, "ready") >>
FailedStartEvents(p) ==
    IF p = "codex"
    THEN << StateChanged(p, "starting"), Event("runtime.error", p, NoTurn), Exited(p) >> ELSE << >>

LEMMA StartAnnounces ==
  ASSUME NEW T, NoTurn \in T, NEW p \in Providers
  PROVE /\ StartEvents(p) \in Seq(EventsOf(T)) /\ FailedStartEvents(p) \in Seq(EventsOf(T))
        /\ DOMAIN StartEvents(p) = {1, 2}
        /\ \A i \in {1, 2} : Revives(StartEvents(p)[i])
<1>1. /\ StateChanged(p, "starting") \in EventsOf(T) /\ StateChanged(p, "ready") \in EventsOf(T)
      /\ Event("session.started", p, NoTurn) \in EventsOf(T) /\ Exited(p) \in EventsOf(T)
      /\ Event("runtime.error", p, NoTurn) \in EventsOf(T)
 BY DEF StateChanged, Event, EventsOf, Exited, EventTypes, EventStates
<1>2. /\ StateChanged(p, "starting").type = "session.state.changed"
      /\ StateChanged(p, "ready").type = "session.state.changed"
      /\ Event("session.started", p, NoTurn).type = "session.started"
 BY DEF StateChanged, Event
<1>3. StartEvents(p) \in Seq(EventsOf(T)) /\ FailedStartEvents(p) \in Seq(EventsOf(T))
 BY <1>1 DEF StartEvents, FailedStartEvents
<1>4. DOMAIN StartEvents(p) = {1, 2} BY DEF StartEvents
<1>5. \A i \in {1, 2} : Revives(StartEvents(p)[i]) BY <1>2 DEF StartEvents, Revives
<1> QED BY <1>3, <1>4, <1>5

LEMMA TurnsStart ==
  ASSUME AgentsTyped, RuntimeTyped, TurnsSettled, UNCHANGED <<setting, thread, ingesting>>,
    NEW p \in Providers, NEW mode \in Modes,
    NEW cursor \in {None} \cup CursorsOf(Turns, N), NEW prompt \in SUBSET Turns,
    StartSession(p, mode, cursor, prompt)
  PROVE TurnsSettled'
<1>1. /\ AgentsTyped' /\ Grown
      /\ Len(contexts') = Len(contexts) + 1 /\ Len(contexts) \in Nat
      /\ \A c \in DOMAIN contexts : contexts'[c] = contexts[c]
 BY StartSessionIs
<1>2. DOMAIN contexts \subseteq DOMAIN contexts' BY <1>1 DEF AgentsTyped
<1>3. \A t : Runs(t) => Runs(t)' BY <1>1, <1>2 DEF Runs, TurnsOf
<1>4. NoTurn \in Turns' BY DEF Turns
<1>5. /\ StartEvents(p) \in Seq(EventsOf(Turns')) /\ DOMAIN StartEvents(p) = {1, 2}
      /\ \A i \in {1, 2} : Revives(StartEvents(p)[i])
 BY <1>4, StartAnnounces
<1>6. \A i \in DOMAIN StartEvents(p) : ~ShowsTurn(StartEvents(p)[i])
 BY <1>5 DEF ShowsTurn, Revives
<1>7. runtime \in Seq(EventsOf(Turns')) /\ runtime' = runtime \o StartEvents(p)
 BY <1>1, RuntimeGrows DEF StartSession, StartEvents
<1>8. ActiveTurn(Session)' \in {NoTurn, ActiveTurn(Session)} BY DEF ActiveTurn, Session
<1> DEFINE S == EventsOf(Turns')
           events == StartEvents(p)
<1>9. /\ runtime \in Seq(S) /\ events \in Seq(S) /\ runtime' = runtime \o events
      /\ \A i \in DOMAIN events : ~ShowsTurn(events[i])
 BY <1>5, <1>6, <1>7
<1> HIDE DEF S, events
<1> QED BY <1>3, <1>8, <1>9, TurnsAppended

LEMMA TurnsStartFails ==
  ASSUME RuntimeTyped, Grown, TurnsSettled, UNCHANGED <<setting, thread, ingesting>>,
    NEW p \in Providers, StartFails(p)
  PROVE TurnsSettled'
<1>1. UNCHANGED contexts BY DEF StartFails
<1>2. \A t : Runs(t) => Runs(t)' BY <1>1, RunsSame
<1>3. ActiveTurn(Session)' \in {NoTurn, ActiveTurn(Session)} BY DEF ActiveTurn, Session
<1>4. CASE p # "codex"
 <2>1. UNCHANGED runtime BY <1>4 DEF StartFails
 <2> QED BY <1>2, <1>3, <2>1, TurnsQuiet
<1>5. CASE p = "codex"
 <2> DEFINE S == EventsOf(Turns')
            events == FailedStartEvents(p)
 <2>1. NoTurn \in Turns' BY DEF Turns
 <2>2. runtime \in Seq(S) /\ events \in Seq(S) BY <2>1, StartAnnounces, RuntimeGrows
 <2>3. runtime' = runtime \o events BY <1>5 DEF StartFails, FailedStartEvents
 <2>4. events = << StateChanged(p, "starting"), Event("runtime.error", p, NoTurn), Exited(p) >>
  BY <1>5 DEF FailedStartEvents
 <2>5. /\ ~ShowsTurn(StateChanged(p, "starting")) /\ ~ShowsTurn(Exited(p))
       /\ Event("runtime.error", p, NoTurn).turn = NoTurn
  BY DEF StateChanged, Event, Exited, ShowsTurn
 <2>6. \A i \in DOMAIN events : ShowsTurn(events[i]) => events[i].turn = NoTurn BY <2>4, <2>5
 <2> HIDE DEF S, events
 <2> QED BY <1>2, <1>3, <2>2, <2>3, <2>6, TurnsAppended
<1> QED BY <1>4, <1>5

LEMMA TurnsSend ==
  ASSUME AgentsTyped, RuntimeTyped, TurnsSettled, UNCHANGED <<setting, thread, ingesting>>,
    UNCHANGED <<sessions, conversations>>,
    NEW c \in DOMAIN contexts, AcceptsTurn(c), NEW turn \in Turns, SendTurn(c, turn)
  PROVE TurnsSettled'
<1> DEFINE new == [contexts[c] EXCEPT !.turn = turn, !.interrupted = FALSE,
                      !.others = (@ \cup {contexts[c].turn}) \ {NoTurn}]
           event == Event("turn.started", contexts[c].provider, turn)
<1>1. contexts[c] \in ContextsOf(Turns, N) /\ NoTurn \in Turns BY ContextsAre DEF Turns
<1>2. /\ contexts[c].provider \in Providers /\ new.turn = turn /\ new.up
      /\ new.others = (contexts[c].others \cup {contexts[c].turn}) \ {NoTurn}
 BY <1>1 DEF ContextsOf, AcceptsTurn
<1>3. contexts' = [contexts EXCEPT ![c] = new] /\ runtime' = Append(runtime, event)
 BY DEF SendTurn
<1>4. event \in EventsOf(Turns) /\ event.turn = turn BY <1>1, <1>2, EventsAre DEF Event
<1> HIDE DEF new, event
<1>5. /\ DOMAIN contexts' = DOMAIN contexts /\ contexts'[c] = new
      /\ \A d \in DOMAIN contexts \ {c} : contexts'[d] = contexts[d]
 BY <1>3
<1>6. \A t : Runs(t) => Runs(t)'
 <2>1. \A t : t \in TurnsOf(c) => t \in TurnsOf(c)' BY <1>2, <1>5 DEF TurnsOf
 <2> QED BY <1>2, <1>5, <2>1, RunsKept
<1>7. turn = NoTurn \/ Runs(turn)' BY <1>2, <1>5 DEF Runs, TurnsOf
<1> DEFINE S == EventsOf(Turns)
           events == << event >>
<1>8. runtime \in Seq(S) /\ events \in Seq(S) /\ runtime' = runtime \o events
 BY <1>3, <1>4, AppendIsConcat DEF RuntimeTyped
<1>9. \A i \in DOMAIN events : events[i].turn = turn BY <1>4
<1>10. ActiveTurn(Session)' \in {NoTurn, ActiveTurn(Session)} BY DEF ActiveTurn, Session
<1> HIDE DEF S, events
<1> QED BY <1>6, <1>7, <1>8, <1>9, <1>10, TurnsAppended

(* Of a context that runs no more, an event ends the turn.                  *)
LEMMA TurnsLeave ==
  ASSUME NEW S, runtime \in Seq(S), NEW events \in Seq(S), runtime' = runtime \o events,
    TurnsSettled, UNCHANGED <<thread, ingesting>>,
    NEW c \in DOMAIN contexts, DOMAIN contexts' = DOMAIN contexts,
    \A d \in DOMAIN contexts \ {c} : contexts'[d] = contexts[d],
    NEW last \in DOMAIN events,
    \A t \in TurnsOf(c) : contexts[c].up => Runs(t)' \/ Clears(events[last], t),
    \A i \in DOMAIN events : ShowsTurn(events[i]) =>
       events[i].turn = NoTurn \/ (i < last /\ Clears(events[last], events[i].turn))
  PROVE TurnsSettled'
<1>1. \A t : t # NoTurn /\ Runs(t) => Runs(t)' \/ \E j \in DOMAIN events : Clears(events[j], t)
 BY RunsReplaced
<1>2. ActiveTurn(Session)' \in {NoTurn, ActiveTurn(Session)} BY DEF ActiveTurn, Session
<1>3. \A i \in DOMAIN events : ShowsTurn(events[i]) =>
         \/ events[i].turn = NoTurn \/ Runs(events[i].turn)'
         \/ \E j \in DOMAIN events : i < j /\ Clears(events[j], events[i].turn)
 OBVIOUS
<1> QED BY <1>1, <1>2, <1>3, TurnsAppended

LEMMA PairIs == ASSUME NEW e, NEW f PROVE << e >> \o << f >> = << e, f >>
<1> DEFINE S == {e, f}
           s == << e >>
           t == << f >>
           pair == << e, f >>
<1>1. /\ s \in Seq(S) /\ t \in Seq(S) /\ pair \in Seq(S) /\ Len(s) = 1 /\ Len(t) = 1 /\ Len(pair) = 2
      /\ s[1] = e /\ t[1] = f /\ pair[1] = e /\ pair[2] = f
 OBVIOUS
<1> HIDE DEF s, t, pair, S
<1>2. /\ s \o t \in Seq(S) /\ Len(s \o t) = 2
      /\ \A i \in 1..2 : (s \o t)[i] = IF i <= 1 THEN s[i] ELSE t[i - 1]
 BY <1>1, ConcatProperties
<1>3. \A i \in 1..2 : (s \o t)[i] = pair[i] BY <1>1, <1>2
<1>4. s \o t = pair BY <1>1, <1>2, <1>3, SeqEqual
<1> QED BY <1>4 DEF s, t, pair

StopEvents(c) ==
    LET p == contexts[c].provider
        turn == contexts[c].turn
    IN  IF p = "claudeCode" /\ turn # NoTurn
        THEN << Completed(p, turn, "interrupted"), Exited(p) >> ELSE << Exited(p) >>

LEMMA StopAnnounces ==
  ASSUME AgentsTyped, NEW c \in DOMAIN contexts, StopSession(c), RuntimeTyped
  PROVE /\ runtime' = runtime \o StopEvents(c) /\ StopEvents(c) \in Seq(EventsOf(Turns))
        /\ \E last \in DOMAIN StopEvents(c) : StopEvents(c)[last].type = "session.exited"
        /\ \A i \in DOMAIN StopEvents(c) : ~ShowsTurn(StopEvents(c)[i])
<1> DEFINE p == contexts[c].provider
           turn == contexts[c].turn
           first == Completed(p, turn, "interrupted")
           second == Exited(p)
<1>1. contexts[c] \in ContextsOf(Turns, N) /\ NoTurn \in Turns BY ContextsAre DEF Turns
<1>2. p \in Providers /\ turn \in Turns BY <1>1 DEF ContextsOf
<1>3. first \in EventsOf(Turns) /\ second \in EventsOf(Turns) BY <1>1, <1>2, EventsAre
<1>4. /\ second.type = "session.exited" /\ ~ShowsTurn(first) /\ ~ShowsTurn(second)
 BY DEF Exited, Event, Completed, ShowsTurn
<1> HIDE DEF first, second
<1>5. CASE p = "claudeCode" /\ turn # NoTurn
 <2>1. StopEvents(c) = << first, second >> BY <1>5 DEF StopEvents, first, second
 <2>2. runtime' = runtime \o << first >> \o << second >> BY <1>5 DEF StopSession, first, second
 <2>3. /\ << first >> \in Seq(EventsOf(Turns)) /\ << second >> \in Seq(EventsOf(Turns))
       /\ runtime \in Seq(EventsOf(Turns))
  BY <1>3 DEF RuntimeTyped
 <2>4. runtime' = runtime \o (<< first >> \o << second >>) BY <2>2, <2>3, ConcatAssociative
 <2>5. << first >> \o << second >> = << first, second >> BY PairIs
 <2>6. /\ DOMAIN StopEvents(c) = {1, 2} /\ StopEvents(c)[1] = first /\ StopEvents(c)[2] = second
       /\ StopEvents(c) \in Seq(EventsOf(Turns))
  BY <1>3, <2>1
 <2> QED BY <1>4, <2>1, <2>4, <2>5, <2>6
<1>6. CASE ~(p = "claudeCode" /\ turn # NoTurn)
 <2>1. StopEvents(c) = << second >> BY <1>6 DEF StopEvents, second
 <2>2. runtime' = runtime \o << >> \o << second >> /\ runtime \in Seq(EventsOf(Turns))
  BY <1>6 DEF StopSession, second, RuntimeTyped
 <2>3. runtime \o << >> = runtime BY <2>2
 <2> QED BY <1>3, <1>4, <2>1, <2>2, <2>3
<1> QED BY <1>5, <1>6

LEMMA TurnsStop ==
  ASSUME AgentsTyped, RuntimeTyped, TurnsSettled, UNCHANGED <<thread, ingesting>>,
    NEW c \in DOMAIN contexts, StopSession(c)
  PROVE TurnsSettled'
<1> DEFINE new == Down(contexts[c])
           S == EventsOf(Turns)
           events == StopEvents(c)
<1>1. contexts' = [contexts EXCEPT ![c] = new] BY DEF StopSession
<1> HIDE DEF new
<1>2. /\ DOMAIN contexts' = DOMAIN contexts
      /\ \A d \in DOMAIN contexts \ {c} : contexts'[d] = contexts[d]
 BY <1>1 DEF AgentsTyped
<1>3. /\ runtime \in Seq(S) /\ events \in Seq(S) /\ runtime' = runtime \o events
      /\ \A i \in DOMAIN events : ~ShowsTurn(events[i])
      /\ \E last \in DOMAIN events : events[last].type = "session.exited"
 BY StopAnnounces DEF RuntimeTyped
<1> HIDE DEF S, events
<1>4. PICK last \in DOMAIN events : events[last].type = "session.exited" BY <1>3
<1>5. \A t : Clears(events[last], t) BY <1>4 DEF Clears
<1> QED BY <1>2, <1>3, <1>5, TurnsLeave

LEMMA TripleIs == ASSUME NEW e, NEW f, NEW g PROVE (<< e >> \o << f >>) \o << g >> = << e, f, g >>
<1> DEFINE S == {e, f, g}
           s == << e, f >>
           t == << g >>
           triple == << e, f, g >>
<1>1. /\ s \in Seq(S) /\ t \in Seq(S) /\ triple \in Seq(S) /\ Len(s) = 2 /\ Len(t) = 1
      /\ Len(triple) = 3 /\ s[1] = e /\ s[2] = f /\ t[1] = g
      /\ triple[1] = e /\ triple[2] = f /\ triple[3] = g
 OBVIOUS
<1> HIDE DEF s, t, triple, S
<1>2. /\ s \o t \in Seq(S) /\ Len(s \o t) = 3
      /\ \A i \in 1..3 : (s \o t)[i] = IF i <= 2 THEN s[i] ELSE t[i - 2]
 <2>1. /\ s \o t \in Seq(S) /\ Len(s \o t) = Len(s) + Len(t)
       /\ \A i \in 1..Len(s) + Len(t) :
             (s \o t)[i] = IF i <= Len(s) THEN s[i] ELSE t[i - Len(s)]
  BY <1>1, ConcatProperties
 <2> QED BY <1>1, <2>1
<1>3. \A i \in 1..3 : (s \o t)[i] = triple[i] BY <1>1, <1>2
<1>4. s \o t = triple BY <1>1, <1>2, <1>3, SeqEqual
<1>5. << e >> \o << f >> = s BY PairIs DEF s
<1> QED BY <1>4, <1>5 DEF t, triple

LEMMA CompletionAnnounces ==
  ASSUME NEW c, NEW state, NEW full \in BOOLEAN
  PROVE \E last \in DOMAIN CompletionEvents(c, state, full) :
           /\ Clears(CompletionEvents(c, state, full)[last], contexts[c].turn)
           /\ \A i \in DOMAIN CompletionEvents(c, state, full) :
                 /\ CompletionEvents(c, state, full)[i].type # "session.exited"
                 /\ ShowsTurn(CompletionEvents(c, state, full)[i]) =>
                      /\ i < last /\ CompletionEvents(c, state, full)[i].turn = contexts[c].turn
<1> DEFINE p == contexts[c].provider
           turn == contexts[c].turn
           error == [Event("runtime.error", p, turn) EXCEPT !.full = full]
           done == [Completed(p, turn, state) EXCEPT !.full = full]
           usage == Event("thread.token-usage.updated", p, turn)
           events == CompletionEvents(c, state, full)
<1>1. /\ error.type = "runtime.error" /\ error.turn = turn
      /\ done.type = "turn.completed" /\ done.turn = turn
      /\ usage.type = "thread.token-usage.updated"
 BY DEF Event, Completed
<1>2. /\ Clears(done, turn) /\ ~ShowsTurn(done) /\ ~ShowsTurn(usage)
      /\ done.type # "session.exited" /\ usage.type # "session.exited"
      /\ error.type # "session.exited"
 BY <1>1 DEF Clears, ShowsTurn
<1>3. events = (IF state = "failed" /\ p = "claudeCode" THEN << error >> ELSE << >>)
                 \o << done >> \o (IF p = "claudeCode" THEN << usage >> ELSE << >>)
 BY DEF CompletionEvents
<1> HIDE DEF error, done, usage, events
<1>4. ASSUME NEW last \in DOMAIN events, Clears(events[last], turn),
             \A i \in DOMAIN events : /\ events[i].type # "session.exited"
                                      /\ ShowsTurn(events[i]) => i < last /\ events[i].turn = turn
    PROVE  \E k \in DOMAIN events :
              /\ Clears(events[k], turn)
              /\ \A i \in DOMAIN events : /\ events[i].type # "session.exited"
                                          /\ ShowsTurn(events[i]) => i < k /\ events[i].turn = turn
 BY <1>4
<1>5. CASE p = "claudeCode" /\ state = "failed"
 <2>1. events = << error, done, usage >> BY <1>3, <1>5, TripleIs
 <2>2. /\ DOMAIN events = {1, 2, 3} /\ events[1] = error /\ events[2] = done /\ events[3] = usage
  BY <2>1
 <2> QED BY <1>1, <1>2, <1>4, <2>2 DEF events
<1>6. CASE p = "claudeCode" /\ state # "failed"
 <2>1. events = << done, usage >>
  <3>1. << >> \o << done >> = << done >> OBVIOUS
  <3> QED BY <1>3, <1>6, <3>1, PairIs
 <2>2. /\ DOMAIN events = {1, 2} /\ events[1] = done /\ events[2] = usage BY <2>1
 <2> QED BY <1>1, <1>2, <1>4, <2>2 DEF events
<1>7. CASE p # "claudeCode"
 <2>1. events = << done >>
  <3>1. << >> \o << done >> = << done >> /\ << done >> \o << >> = << done >> OBVIOUS
  <3> QED BY <1>3, <1>7, <3>1
 <2>2. DOMAIN events = {1} /\ events[1] = done BY <2>1
 <2> QED BY <1>1, <1>2, <1>4, <2>2 DEF events
<1> QED BY <1>5, <1>6, <1>7

LEMMA TurnsComplete ==
  ASSUME Typed, TurnsSettled, NEW c \in DOMAIN contexts,
    NEW state \in {"completed", "failed", "interrupted"}, NEW full \in BOOLEAN,
    CompleteTurn(c, state, full)
  PROVE TurnsSettled'
<1> DEFINE S == EventsOf(Turns)
           events == CompletionEvents(c, state, full)
<1>1. runtime \in Seq(S) /\ events \in Seq(S) /\ runtime' = runtime \o events
 BY CompleteTurnIs DEF Typed, RuntimeTyped
<1>2. /\ DOMAIN contexts' = DOMAIN contexts /\ UNCHANGED <<thread, ingesting>>
      /\ \A d \in DOMAIN contexts \ {c} : contexts'[d] = contexts[d]
 BY DEF CompleteTurn
<1>3. PICK last \in DOMAIN events :
         /\ Clears(events[last], contexts[c].turn)
         /\ \A i \in DOMAIN events :
               ShowsTurn(events[i]) => i < last /\ events[i].turn = contexts[c].turn
 BY CompletionAnnounces
<1>4. \A t \in TurnsOf(c) : contexts[c].up => Runs(t)' \/ t = contexts[c].turn
 <2> DEFINE context == contexts[c]
            at == [context.cursor EXCEPT !.conversation = context.conversation,
                     !.at = IF context.provider = "codex" THEN {}
                            ELSE conversations[context.conversation] \cup {context.turn}]
            new == [context EXCEPT !.turn = NoTurn, !.cursor = at]
 <2>1. contexts' = [contexts EXCEPT ![c] = new] BY DEF CompleteTurn
 <2>2. context \in ContextsOf(Turns, N) BY ContextsAre DEF Typed
 <2> HIDE DEF at
 <2>3. new.up = context.up /\ new.others = context.others BY <2>2 DEF ContextsOf
 <2> HIDE DEF new
 <2>4. contexts'[c].up = contexts[c].up /\ contexts'[c].others = contexts[c].others BY <2>1, <2>3
 <2> QED BY <1>2, <2>4 DEF Runs, TurnsOf
<1> HIDE DEF S, events
<1> QED BY <1>1, <1>2, <1>3, <1>4, TurnsLeave

LEMMA TurnsCompleteOther ==
  ASSUME Typed, TurnsSettled, NEW c \in DOMAIN contexts,
    NEW state \in {"completed", "failed", "interrupted"}, NEW full \in BOOLEAN,
    NEW turn \in contexts[c].others, CompleteOther(c, turn, state, full)
  PROVE TurnsSettled'
<1> DEFINE S == EventsOf(Turns)
           event == [Completed("codex", turn, state) EXCEPT !.full = full]
           events == << event >>
           new == [contexts[c] EXCEPT !.turn = NoTurn, !.others = TurnsOf(c) \ {turn}]
<1>1. event \in S /\ runtime' = runtime \o events BY CompleteOtherIs
<1>2. contexts' = [contexts EXCEPT ![c] = new] /\ UNCHANGED <<thread, ingesting>>
 BY DEF CompleteOther
<1>3. contexts[c] \in ContextsOf(Turns, N) BY ContextsAre DEF Typed
<1>4. new.up = contexts[c].up /\ new.turn = NoTurn /\ new.others = TurnsOf(c) \ {turn}
 BY <1>3 DEF ContextsOf
<1> HIDE DEF new
<1>5. /\ DOMAIN contexts' = DOMAIN contexts /\ contexts'[c] = new
      /\ \A d \in DOMAIN contexts \ {c} : contexts'[d] = contexts[d]
 BY <1>2
<1>6. Clears(event, turn) /\ ~ShowsTurn(event) BY DEF Completed, Event, Clears, ShowsTurn
<1>7. \A t \in TurnsOf(c) : contexts[c].up => Runs(t)' \/ t = turn BY <1>4, <1>5 DEF Runs, TurnsOf
<1> HIDE DEF S, event
<1>8. /\ runtime \in Seq(S) /\ events \in Seq(S) /\ 1 \in DOMAIN events /\ events[1] = event
      /\ \A i \in DOMAIN events : ~ShowsTurn(events[i])
 BY <1>1, <1>6 DEF Typed, RuntimeTyped, S
<1> HIDE DEF events
<1>9. \A t \in TurnsOf(c) : contexts[c].up => Runs(t)' \/ Clears(events[1], t)
 BY <1>6, <1>7, <1>8 DEF Clears
<1> QED BY <1>1, <1>2, <1>5, <1>8, <1>9, TurnsLeave

LEMMA LossAnnounces ==
  ASSUME NEW c
  PROVE \E last \in DOMAIN LossEvents(c) :
           /\ Clears(LossEvents(c)[last], contexts[c].turn)
           /\ \A i \in DOMAIN LossEvents(c) :
                 ShowsTurn(LossEvents(c)[i]) => i < last /\ LossEvents(c)[i].turn = contexts[c].turn
<1> DEFINE p == contexts[c].provider
           turn == contexts[c].turn
           exit == Exited(p)
           error == Event("runtime.error", p, turn)
           done == Completed(p, turn, "failed")
           events == LossEvents(c)
<1>1. /\ error.turn = turn /\ Clears(done, turn) /\ ~ShowsTurn(done)
      /\ Clears(exit, turn) /\ ~ShowsTurn(exit)
 BY DEF Event, Completed, Exited, Clears, ShowsTurn
<1>2. events = IF p = "codex" THEN << exit >> ELSE << error, done >> BY DEF LossEvents
<1> HIDE DEF exit, error, done, events
<1>3. CASE p = "codex"
 <2>1. DOMAIN events = {1} /\ events[1] = exit BY <1>2, <1>3
 <2> QED BY <1>1, <2>1 DEF events
<1>4. CASE p # "codex"
 <2>1. DOMAIN events = {1, 2} /\ events[1] = error /\ events[2] = done /\ 1 < 2 BY <1>2, <1>4
 <2> QED BY <1>1, <2>1 DEF events
<1> QED BY <1>3, <1>4

LEMMA TurnsLose ==
  ASSUME Typed, TurnsSettled, NEW c \in DOMAIN contexts, LoseSession(c) PROVE TurnsSettled'
<1> DEFINE S == EventsOf(Turns)
           events == LossEvents(c)
           p == contexts[c].provider
<1>1. /\ DOMAIN contexts' = DOMAIN contexts /\ UNCHANGED <<thread, ingesting>>
      /\ \A d \in DOMAIN contexts \ {c} : contexts'[d] = contexts[d]
      /\ runtime' = runtime \o events
 BY DEF LoseSession, LossEvents
<1>2. contexts[c] \in ContextsOf(Turns, N) /\ NoTurn \in Turns BY ContextsAre DEF Typed, Turns
<1>3. contexts[c].turn \in Turns /\ p \in Providers BY <1>2 DEF ContextsOf
<1>4. /\ Exited(p) \in EventsOf(Turns) /\ Event("runtime.error", p, contexts[c].turn) \in EventsOf(Turns)
      /\ Completed(p, contexts[c].turn, "failed") \in EventsOf(Turns)
 BY <1>2, <1>3, EventsAre
<1>5. runtime \in Seq(S) /\ events \in Seq(S) BY <1>4 DEF LossEvents, Typed, RuntimeTyped
<1>6. PICK last \in DOMAIN events :
         /\ Clears(events[last], contexts[c].turn)
         /\ \A i \in DOMAIN events :
               ShowsTurn(events[i]) => i < last /\ events[i].turn = contexts[c].turn
 BY LossAnnounces
<1>7. \A t \in TurnsOf(c) : contexts[c].up => Clears(events[last], t)
 <2>1. CASE p = "codex"
  <3>1. events = << Exited(p) >> BY <2>1 DEF LossEvents
  <3>2. events[last] = Exited(p) BY <1>6, <3>1
  <3>3. Exited(p).type = "session.exited" BY DEF Exited, Event
  <3> QED BY <3>2, <3>3 DEF Clears
 <2>2. CASE p # "codex"
  <3>1. p = "claudeCode" BY <1>3, <2>2 DEF Providers
  <3>2. contexts[c].others = {} BY <1>2, <3>1 DEF ContextsOf
  <3>3. \A t \in TurnsOf(c) : t = contexts[c].turn BY <3>2 DEF TurnsOf
  <3> QED BY <1>6, <3>3
 <2> QED BY <2>1, <2>2
<1> HIDE DEF S, events
<1> QED BY <1>1, <1>5, <1>6, <1>7, TurnsLeave

(* What the reactor calls an adapter with, and what it records of it.       *)
Tried(p) ==
    \/ /\ \E mode \in Modes, cursor \in {None} \cup CursorsOf(Turns, N), prompt \in SUBSET Turns,
             kept \in SUBSET Turns : StartAndBind(p, mode, cursor, prompt, kept)
       /\ Tries(p) /\ UNCHANGED spent
    \/ StartFails(p) /\ FailTrying({p})

LEMMA StartTries ==
  ASSUME Typed, Start PROVE job.start.provider \in Providers /\ Tried(job.start.provider)
<1> DEFINE s == job.start
           kept == IF s.then = "ready" THEN s.prompt ELSE Payload
<1>1. job # None /\ job.step = "start" BY DEF Start
<1>2. s \in StartsOf(Turns, N) BY <1>1 DEF Typed, JobTyped
<1>3. /\ s.provider \in Providers /\ s.mode \in Modes /\ s.prompt \in SUBSET Turns
      /\ s.cursor \in {None} \cup CursorsOf(Turns, N)
 BY <1>2 DEF StartsOf
<1>4. kept \in SUBSET Turns BY <1>3, DirectoryIs DEF Typed, Payload
<1>5. CASE /\ StartAndBind(s.provider, s.mode, s.cursor, s.prompt, kept)
           /\ Tries(s.provider) /\ UNCHANGED spent
 BY <1>3, <1>4, <1>5 DEF Tried
<1>6. CASE StartFails(s.provider) /\ FailTrying({s.provider}) BY <1>3, <1>6 DEF Tried
<1> QED BY <1>3, <1>5, <1>6 DEF Start

LEMMA RecoverTries ==
  ASSUME Typed, Recover
  PROVE directory # None /\ directory.provider \in Providers /\ Tried(directory.provider)
<1>1. directory # None BY DEF Recover
<1>2. /\ directory.provider \in Providers /\ directory.mode \in Modes
      /\ directory.cursor \in CursorsOf(Turns, N) /\ directory.prompt \in SUBSET Turns
 BY <1>1, DirectoryIs DEF Typed
<1>3. Payload \in SUBSET Turns BY <1>1, <1>2 DEF Payload
<1>4. CASE /\ StartAndBind(directory.provider, directory.mode, directory.cursor,
                           directory.prompt, Payload)
           /\ Tries(directory.provider) /\ UNCHANGED spent
 BY <1>1, <1>2, <1>3, <1>4 DEF Tried
<1>5. CASE StartFails(directory.provider) /\ FailTrying({directory.provider})
 BY <1>1, <1>2, <1>5 DEF Tried
<1> QED BY <1>1, <1>2, <1>4, <1>5 DEF Recover

LEMMA TurnsTried ==
  ASSUME Typed, TurnsSettled, UNCHANGED <<setting, thread, ingesting>>, NEW p \in Providers, Tried(p)
  PROVE TurnsSettled'
<1>1. ASSUME NEW mode \in Modes, NEW cursor \in {None} \cup CursorsOf(Turns, N),
             NEW prompt \in SUBSET Turns, NEW kept \in SUBSET Turns,
             StartAndBind(p, mode, cursor, prompt, kept)
    PROVE  TurnsSettled'
 BY <1>1, TurnsStart DEF StartAndBind, Typed
<1>2. CASE StartFails(p) BY <1>2, StartFailsTypes, TurnsStartFails DEF Typed
<1> QED BY <1>1, <1>2 DEF Tried

(* Steps that leave the agents alone.                                       *)
LEMMA TurnsAside ==
  ASSUME Typed, TurnsSettled, UNCHANGED <<agents, ingesting>>,
    ActiveTurn(Session)' \in {NoTurn, ActiveTurn(Session)}
  PROVE TurnsSettled'
<1>1. UNCHANGED <<runtime, ingesting, contexts>> BY DEF agents
<1>2. \A t : Runs(t) => Runs(t)' BY <1>1, RunsSame
<1> QED BY <1>1, <1>2, TurnsQuiet DEF Typed

LEMMA TurnsReactor ==
  ASSUME Typed, TurnsSettled, Reactor PROVE TurnsSettled'
<1>1. UNCHANGED <<setting, ingesting>>
 BY DEF Reactor, Take, Ensure, Start, Bind, Send, Interrupt, Stop, Mark, MarkReady, Clear, Aside
<1>2. UNCHANGED thread => ActiveTurn(Session)' \in {NoTurn, ActiveTurn(Session)}
 BY DEF ActiveTurn, Session
<1>3. CASE Take \/ Ensure BY <1>1, <1>2, <1>3, TurnsAside DEF Take, Ensure, NoAgent, NoDispatch
<1>4. CASE Start BY <1>1, <1>4, StartTries, TurnsTried DEF Start, NoDispatch
<1>5. CASE Bind \/ MarkReady
 <2>1. SetSession(Ready(job.start.provider, job.start.mode)) /\ UNCHANGED agents
  BY <1>5 DEF Bind, MarkReady, NoAgent
 <2>2. Session' = Ready(job.start.provider, job.start.mode)
  BY <2>1 DEF SetSession, Session, Typed, ThreadTyped, ReadsOf
 <2>3. ActiveTurn(Session)' = NoTurn BY <2>2 DEF ActiveTurn, Ready
 <2> QED BY <1>1, <2>1, <2>3, TurnsAside
<1>6. CASE Mark
 <2>1. SetSession(Stopped(job.read.session)) /\ UNCHANGED agents /\ job # None
  BY <1>6 DEF Mark, NoAgent
 <2>2. Session' = Stopped(job.read.session)
  BY <2>1 DEF SetSession, Session, Typed, ThreadTyped, ReadsOf
 <2>3. job.read.session \in {NoSession} \cup SessionsOf(Turns) /\ NoTurn \in Turns
  BY <2>1, JobIs DEF Typed, Turns
 <2>4. Stopped(job.read.session).activeTurn = NoTurn BY <2>3, StoppedIs
 <2>5. ActiveTurn(Session)' = NoTurn BY <2>2, <2>4 DEF ActiveTurn
 <2> QED BY <1>1, <2>1, <2>5, TurnsAside
<1>7. CASE Clear
 <2>1. thread' = [thread EXCEPT !.messages = {}] /\ UNCHANGED agents BY <1>7 DEF Clear, NoAgent
 <2>2. Session' = Session BY <2>1 DEF Session, Typed, ThreadTyped, ReadsOf
 <2>3. ActiveTurn(Session)' = ActiveTurn(Session) BY <2>2 DEF ActiveTurn
 <2> QED BY <1>1, <2>1, <2>3, TurnsAside
<1>8. CASE Send
 <2>1. UNCHANGED thread /\ job # None BY <1>8 DEF Send, NoDispatch
 <2>2. CASE Recover BY <1>1, <2>1, <2>2, RecoverTries, TurnsTried
 <2>3. CASE NoAgent BY <1>1, <1>2, <2>1, <2>3, TurnsAside DEF NoAgent
 <2>4. CASE /\ Routed /\ AcceptsTurn(RoutedContext) /\ SendTurn(RoutedContext, job.turn)
            /\ UNCHANGED <<sessions, conversations>>
  BY <1>1, <2>1, <2>4, RoutedIs, JobIs, TurnsSend DEF Typed
 <2> QED BY <1>8, <2>2, <2>3, <2>4 DEF Send
<1>9. CASE Interrupt
 <2>1. UNCHANGED thread BY <1>9 DEF Interrupt, NoDispatch
 <2>2. CASE Recover BY <1>1, <2>1, <2>2, RecoverTries, TurnsTried
 <2>3. CASE NoAgent BY <1>1, <1>2, <2>1, <2>3, TurnsAside DEF NoAgent
 <2>4. CASE /\ contexts' = [contexts EXCEPT ![RoutedContext].interrupted = Running(RoutedContext)]
            /\ UNCHANGED runtime
  <3>1. \A c \in DOMAIN contexts : contexts[c] \in ContextsOf(Turns, N) BY ContextsAre DEF Typed
  <3>2. /\ DOMAIN contexts' = DOMAIN contexts
        /\ \A c \in DOMAIN contexts : /\ contexts'[c].up = contexts[c].up
                                      /\ contexts'[c].turn = contexts[c].turn
                                      /\ contexts'[c].others = contexts[c].others
   BY <2>4, <3>1 DEF ContextsOf
  <3>3. \A t : Runs(t) => Runs(t)' BY <3>2 DEF Runs, TurnsOf
  <3> QED BY <1>1, <1>2, <2>1, <2>4, <3>3, TurnsQuiet DEF Typed
 <2> QED BY <1>9, <2>2, <2>3, <2>4 DEF Interrupt
<1>10. CASE Stop
 <2>1. UNCHANGED thread BY <1>10 DEF Stop, NoDispatch
 <2>2. CASE NoAgent BY <1>1, <1>2, <2>1, <2>2, TurnsAside DEF NoAgent
 <2>3. CASE Routed /\ StopSession(RoutedContext)
  BY <1>1, <2>1, <2>3, RoutedIs, TurnsStop DEF Typed
 <2>4. CASE UNCHANGED <<contexts, runtime>>
  <3>1. \A t : Runs(t) => Runs(t)' BY <2>4, RunsSame
  <3> QED BY <1>1, <1>2, <2>1, <2>4, <3>1, TurnsQuiet DEF Typed
 <2> QED BY <1>10, <2>2, <2>3, <2>4 DEF Stop
<1> QED BY <1>3, <1>4, <1>5, <1>6, <1>7, <1>8, <1>9, <1>10 DEF Reactor

(* The event in hand takes the place of the first on its way.               *)
LEMMA ReadIsSomething ==
  ASSUME NEW event, NEW session, event \in EventsOf(Turns), session \in {NoSession} \cup SessionsOf(Turns),
    BoundsTyped, AgentsTyped
  PROVE [event |-> event, session |-> session] # None
<1>1. Turns \subseteq TurnIds
 <2>1. \A s \in Settings : s["turns"] \in Nat BY SessionsAssumption DEF Requests
 <2>2. DOMAIN contexts \subseteq Nat BY ContextsAre
 <2> QED BY <2>1, <2>2 DEF Turns, TurnIds, BoundsTyped, FirstAcknowledgement
<1>2. EventsOf(Turns) \subseteq RuntimeEvents BY <1>1 DEF EventsOf, RuntimeEvents
<1>3. {NoSession} \cup SessionsOf(Turns) \subseteq ModelSessions
 BY <1>1 DEF SessionsOf, ModelSessions, ShownSessions
<1>4. [event |-> event, session |-> session] \in [event : RuntimeEvents, session : ModelSessions]
 BY <1>2, <1>3
<1> QED BY <1>4, NoneAssumption

LEMMA IngestReadIs ==
  ASSUME Typed, IngestRead
  PROVE /\ ingesting = None /\ ingesting' # None
        /\ ingesting'.event = runtime[1] /\ ingesting'.session = Session
        /\ UNCHANGED thread
        /\ 1 \in DOMAIN runtime
        /\ \A i \in DOMAIN runtime' : /\ i + 1 \in DOMAIN runtime /\ runtime'[i] = runtime[i + 1]
                                      /\ i \in Nat
        /\ \A j \in DOMAIN runtime : /\ j \in Nat
                                     /\ j = 1 \/ (j - 1 \in DOMAIN runtime' /\ runtime'[j - 1] = runtime[j])
<1> DEFINE S == EventsOf(Turns)
<1>1. /\ ingesting = None /\ runtime # << >> /\ UNCHANGED thread
      /\ ingesting' = [event |-> Head(runtime), session |-> Session] /\ runtime' = Tail(runtime)
 BY DEF IngestRead
<1>2. runtime \in Seq(S) BY DEF Typed, RuntimeTyped
<1> HIDE DEF S
<1>3. /\ Head(runtime) \in S /\ Tail(runtime) \in Seq(S) /\ Len(Tail(runtime)) = Len(runtime) - 1
      /\ \A i \in 1..Len(Tail(runtime)) : Tail(runtime)[i] = runtime[i + 1]
 BY <1>1, <1>2, HeadTailProperties
<1>4. /\ DOMAIN runtime = 1..Len(runtime) /\ Len(runtime) \in Nat /\ Len(runtime) # 0
      /\ DOMAIN runtime' = 1..Len(runtime) - 1 /\ Head(runtime) = runtime[1]
 BY <1>1, <1>2, <1>3, EmptySeq, LenProperties
<1>5. [event |-> Head(runtime), session |-> Session] # None
 BY <1>3, SessionIs, ReadIsSomething DEF Typed, S
<1>6. \A i \in DOMAIN runtime' : /\ i + 1 \in DOMAIN runtime /\ runtime'[i] = runtime[i + 1]
                                 /\ i \in Nat
 BY <1>1, <1>3, <1>4
<1>7. \A j \in DOMAIN runtime : /\ j \in Nat
                                /\ j = 1 \/ (j - 1 \in DOMAIN runtime' /\ runtime'[j - 1] = runtime[j])
 <2> SUFFICES ASSUME NEW j \in DOMAIN runtime, j # 1
     PROVE  j \in Nat /\ j - 1 \in DOMAIN runtime' /\ runtime'[j - 1] = runtime[j]
  BY <1>4
 <2>1. j \in Nat /\ j - 1 \in DOMAIN runtime' /\ (j - 1) + 1 = j BY <1>4
 <2> QED BY <1>6, <2>1
<1> QED BY <1>1, <1>4, <1>5, <1>6, <1>7

LEMMA TurnsIngestRead ==
  ASSUME Typed, TurnsSettled, IngestRead PROVE TurnsSettled'
<1>1. \A t : Runs(t) => Runs(t)' BY RunsSame DEF IngestRead
<1>2. ASSUME NEW t, NEW i \in Nat, Settles(t, i + 1)
    PROVE  Settles(t, i)'
 <2>1. ASSUME NEW j \in DOMAIN runtime, i + 1 < j, Clears(runtime[j], t) PROVE Settles(t, i)'
  <3>1. j \in Nat /\ j # 1 /\ j - 1 \in DOMAIN runtime' /\ runtime'[j - 1] = runtime[j] /\ i < j - 1
   BY <2>1, IngestReadIs
  <3> QED BY <2>1, <3>1 DEF Settles, Clears
 <2>2. CASE t = NoTurn \/ Runs(t) BY <1>1, <2>2 DEF Settles
 <2> QED BY <1>2, <2>1, <2>2 DEF Settles
<1>3. ASSUME NEW t, Settles(t, 0) PROVE Accounted(t)'
 <2>1. CASE t = NoTurn \/ Runs(t) BY <1>1, <2>1 DEF Accounted, Settles
 <2>2. ASSUME NEW j \in DOMAIN runtime, Clears(runtime[j], t) PROVE Accounted(t)'
  <3>1. CASE j = 1
   <4>1. ingesting' # None /\ ingesting'.event = runtime[j] BY <3>1, IngestReadIs
   <4> QED BY <2>2, <4>1 DEF Accounted, Clears
  <3>2. CASE j # 1
   <4>1. j - 1 \in DOMAIN runtime' /\ runtime'[j - 1] = runtime[j] /\ 0 < j - 1
    <5>1. j \in Nat /\ j - 1 \in DOMAIN runtime' /\ runtime'[j - 1] = runtime[j]
     BY <3>2, IngestReadIs
    <5>2. j - 1 \in Nat /\ (j - 1) + 1 \in DOMAIN runtime /\ j # 0 BY <5>1, IngestReadIs
    <5> QED BY <3>2, <5>1, <5>2
   <4> QED BY <2>2, <4>1 DEF Accounted, Settles, Clears
  <3> QED BY <3>1, <3>2
 <2> QED BY <1>3, <2>1, <2>2 DEF Settles
<1>4. ASSUME NEW turn, turn = ActiveTurn(Session)
    PROVE  Accounted(turn)' /\ ActiveTurn(Session)' = turn /\ ActiveTurn(ingesting.session)' = turn
 <2>1. Settles(turn, 0) BY <1>4, IngestReadIs DEF TurnsSettled, TurnShown, Accounted
 <2>2. ActiveTurn(Session)' = turn /\ ActiveTurn(ingesting.session)' = turn
  BY <1>4, IngestReadIs DEF ActiveTurn, Session
 <2> QED BY <1>3, <2>1, <2>2
<1>5. TurnShown' BY <1>4 DEF TurnShown, Accounted, Settles, Clears
<1>6. ASSUME NEW i \in DOMAIN runtime', NEW e, e = runtime'[i], ShowsTurn(e)
    PROVE  Settles(e.turn, i)'
 <2>1. i + 1 \in DOMAIN runtime /\ e = runtime[i + 1] /\ i \in Nat BY <1>6, IngestReadIs
 <2>2. Settles(e.turn, i + 1) BY <1>6, <2>1 DEF TurnsSettled, TurnsAnnounced
 <2> QED BY <1>2, <2>1, <2>2
<1>7. TurnsAnnounced' BY <1>6 DEF TurnsAnnounced, Settles, ShowsTurn
<1>8. ASSUME NEW turn, turn = runtime[1].turn, ShowsTurn(runtime[1])
    PROVE  Settles(turn, 0)'
 <2>1. Settles(turn, 0 + 1) BY <1>8, IngestReadIs DEF TurnsSettled, TurnsAnnounced
 <2> QED BY <1>2, <2>1
<1>9. ShowsTurn(ingesting.event)' => Settles(ingesting.event.turn, 0)'
 <2>1. ingesting'.event = runtime[1] BY IngestReadIs
 <2> QED BY <1>8, <2>1 DEF ShowsTurn, Settles
<1>10. IngestingSettles' BY <1>4, <1>9 DEF IngestingSettles, Accounted, Settles, Clears
<1> QED BY <1>5, <1>7, <1>10 DEF TurnsSettled

LEMMA TurnsIngestWrite ==
  ASSUME Typed, TurnsSettled, IngestWrite PROVE TurnsSettled'
<1> DEFINE event == ingesting.event
           session == ingesting.session
           read == ActiveTurn(session)
           active == ActiveTurn(Session)
<1>1. /\ ingesting # None /\ ingesting' = None /\ UNCHANGED <<contexts, runtime>>
      /\ thread' = IF Applies(event, session)
                   THEN [thread EXCEPT !.session = NextSession(event, session)] ELSE thread
 BY DEF IngestWrite, agents
<1>2. Session' = IF Applies(event, session) THEN NextSession(event, session) ELSE Session
 BY <1>1, SessionIs DEF Session, ReadsOf, Typed
<1>3. /\ Settles(read, 0) \/ Clears(event, read)
      /\ Settles(active, 0) \/ Clears(event, active)
      /\ ShowsTurn(event) => Settles(event.turn, 0)
      /\ active \in {NoTurn, read}
 BY <1>1 DEF TurnsSettled, TurnShown, IngestingSettles, Accounted
<1>4. /\ event \in EventsOf(Turns) /\ session \in {NoSession} \cup SessionsOf(Turns)
 BY <1>1 DEF Typed, IngestingTyped
<1>5. \A t, i : Settles(t, i) => Settles(t, i)'
 <2> SUFFICES ASSUME NEW t, NEW i, Settles(t, i) PROVE Settles(t, i)' OBVIOUS
 <2>1. Runs(t) => Runs(t)' BY <1>1, RunsSame
 <2> QED BY <1>1, <2>1 DEF Settles, Clears
<1>6. Settles(NoTurn, 0) BY DEF Settles
<1>7. /\ event.type = "turn.completed" /\ Applies(event, session) => read \in {NoTurn, event.turn}
      /\ event.type = "turn.completed" /\ ~Applies(event, session) => read # event.turn
      /\ ~Applies(event, session) => event.type # "session.exited"
 <2>1. event.type = "turn.completed" =>
          (Applies(event, session)
             <=> /\ ~(read # NoTurn /\ event.turn # NoTurn /\ read # event.turn)
                 /\ ~(read # NoTurn /\ event.turn = NoTurn))
  BY DEF Applies
 <2>2. event.type = "session.exited" => Applies(event, session) BY DEF Applies
 <2> QED BY <2>1, <2>2
<1>8. ASSUME Applies(event, session), event.type # "thread.token-usage.updated"
    PROVE  ActiveTurn(NextSession(event, session)) \in {NoTurn, NextActiveTurn(event, session)}
 <2>1. NextSession(event, session).activeTurn = NextActiveTurn(event, session)
  BY <1>8 DEF NextSession
 <2> QED BY <2>1 DEF ActiveTurn
<1>9. ASSUME NEW turn, turn = ActiveTurn(Session)'
    PROVE  Settles(turn, 0)
 <2>1. turn = ActiveTurn(IF Applies(event, session) THEN NextSession(event, session) ELSE Session)
  BY <1>2, <1>9 DEF ActiveTurn
 <2>2. CASE ~Applies(event, session)
  <3>1. turn = active /\ (turn = NoTurn \/ turn = read) BY <1>3, <2>1, <2>2
  <3>2. turn = read => ~Clears(event, read) BY <1>7, <2>2 DEF Clears
  <3> QED BY <1>3, <1>6, <3>1, <3>2
 <2>3. CASE Applies(event, session) /\ event.type = "thread.token-usage.updated"
  <3>1. turn = read BY <2>1, <2>3 DEF NextSession
  <3>2. ~Clears(event, read) BY <2>3 DEF Clears
  <3> QED BY <1>3, <3>1, <3>2
 <2>4. CASE Applies(event, session) /\ event.type # "thread.token-usage.updated"
  <3>1. turn \in {NoTurn, NextActiveTurn(event, session)} BY <1>8, <2>1, <2>4
  <3>2. \/ NextActiveTurn(event, session) = NoTurn
        \/ ShowsTurn(event) /\ NextActiveTurn(event, session) = event.turn
        \/ ~ShowsTurn(event) /\ event.type # "session.exited" /\ event.type # "turn.completed"
              /\ NextActiveTurn(event, session) = read
   BY DEF NextActiveTurn, ShowsTurn
  <3>3. event.type # "session.exited" /\ event.type # "turn.completed" => ~Clears(event, read)
   BY DEF Clears
  <3> QED BY <1>3, <1>6, <3>1, <3>2, <3>3
 <2> QED BY <2>2, <2>3, <2>4
<1>10. TurnShown'
 <2>1. ASSUME NEW turn, turn = ActiveTurn(Session)' PROVE Settles(turn, 0)' BY <1>5, <1>9, <2>1
 <2> QED BY <2>1 DEF TurnShown, Accounted, Settles, Clears
<1>11. TurnsAnnounced'
 <2> SUFFICES ASSUME NEW i \in DOMAIN runtime', NEW e, e = runtime'[i], ShowsTurn(e)
     PROVE  Settles(e.turn, i)'
  BY DEF TurnsAnnounced, Settles, ShowsTurn
 <2>1. Settles(e.turn, i) BY <1>1 DEF TurnsSettled, TurnsAnnounced
 <2> QED BY <1>5, <2>1
<1>12. IngestingSettles' BY <1>1 DEF IngestingSettles
<1> QED BY <1>10, <1>11, <1>12 DEF TurnsSettled

(* A crash forgets what is on its way: only then is the claim given up.     *)
LEMMA RestartsKept ==
  ASSUME Typed, [Next]_vars, ~Restart PROVE spent'.restarts = spent.restarts
<1>1. \A what \in Requests \ {"restarts"} : Spend(what) => spent'.restarts = spent.restarts
 BY DEF Spend, Typed, BoundsTyped
<1>2. {"turns", "modes", "stops", "compacts", "interrupts", "full", "faults"}
        \subseteq Requests \ {"restarts"} /\ "restarts" \in Requests
 BY DEF Requests
<1>3. CASE User
 BY <1>1, <1>2, <1>3 DEF User, RequestTurn, RequestMode, RequestCompaction, RequestStop, RequestInterrupt
<1>4. ASSUME NEW p \in Providers, StartFails(p) PROVE spent'.restarts = spent.restarts
 BY <1>1, <1>2, <1>4 DEF StartFails
<1>5. ASSUME NEW p \in Providers, Tried(p) PROVE spent'.restarts = spent.restarts
 BY <1>4, <1>5 DEF Tried
<1>6. CASE Reactor
 <2>1. CASE Take \/ Ensure \/ Bind \/ Stop \/ Mark \/ MarkReady \/ Clear
  BY <2>1 DEF Take, Ensure, Bind, Stop, Mark, MarkReady, Clear
 <2>2. CASE Start BY <1>5, <2>2, StartTries
 <2>3. CASE Recover BY <1>5, <2>3, RecoverTries
 <2>4. CASE Send \/ Interrupt BY <1>1, <1>2, <2>3, <2>4 DEF Send, Interrupt
 <2> QED BY <1>6, <2>1, <2>2, <2>4 DEF Reactor
<1>7. CASE Ingestion BY <1>7 DEF Ingestion, IngestRead, IngestWrite
<1>8. ASSUME NEW c \in DOMAIN contexts, Agent(c) \/ LoseSession(c)
    PROVE  spent'.restarts = spent.restarts
 BY <1>1, <1>2, <1>8 DEF Agent, CompleteTurn, CompleteOther, SpendEnd, LoseSession
<1>9. CASE UNCHANGED vars BY <1>9 DEF vars
<1> QED BY <1>3, <1>6, <1>7, <1>8, <1>9 DEF Next

LEMMA TurnsNext ==
  ASSUME Typed, TurnsTrue, [Next]_vars PROVE TurnsTrue'
<1>1. CASE Restart
 <2>1. spent'.restarts = spent.restarts + 1 /\ spent.restarts \in Nat
  BY <1>1, SpendTypes DEF Typed, BoundsTyped, Requests, Restart
 <2> QED BY <2>1 DEF TurnsTrue
<1>2. CASE ~Restart
 <2> SUFFICES ASSUME spent'.restarts = 0 PROVE TurnsSettled' BY DEF TurnsTrue
 <2>1. TurnsSettled BY <1>2, RestartsKept DEF TurnsTrue
 <2>2. UNCHANGED thread => ActiveTurn(Session)' \in {NoTurn, ActiveTurn(Session)}
  BY DEF ActiveTurn, Session
 <2>3. CASE User
  <3>1. UNCHANGED <<agents, ingesting>>
   BY <2>3 DEF User, RequestTurn, RequestMode, RequestCompaction, RequestStop, RequestInterrupt, Ask
  <3>2. Session' = Session
   BY <2>3 DEF User, RequestTurn, RequestMode, RequestCompaction, RequestStop, RequestInterrupt,
     Ask, Session, Typed, ThreadTyped, ReadsOf
  <3>3. ActiveTurn(Session)' = ActiveTurn(Session) BY <3>2 DEF ActiveTurn
  <3> QED BY <2>1, <3>1, <3>3, TurnsAside
 <2>4. CASE Reactor BY <2>1, <2>4, TurnsReactor
 <2>5. CASE Ingestion BY <2>1, <2>5, TurnsIngestRead, TurnsIngestWrite DEF Ingestion
 <2>6. ASSUME NEW c \in DOMAIN contexts, Agent(c) \/ LoseSession(c) PROVE TurnsSettled'
  BY <2>1, <2>6, TurnsComplete, TurnsCompleteOther, TurnsLose DEF Agent
 <2>7. CASE UNCHANGED vars BY <2>1, <2>2, <2>7, TurnsAside DEF vars, agents
 <2> QED BY <1>2, <2>3, <2>4, <2>5, <2>6, <2>7 DEF Next
<1> QED BY <1>1, <1>2

LEMMA TurnsInit == ASSUME Init PROVE TurnsTrue
<1>1. ActiveTurn(Session) = NoTurn /\ DOMAIN runtime = {} /\ ingesting = None
 BY DEF Init, ActiveTurn, Session
<1> QED
 BY <1>1 DEF TurnsTrue, TurnsSettled, TurnShown, TurnsAnnounced, IngestingSettles, Accounted, Settles

LEMMA TurnsTrueIsShown == ASSUME TurnsTrue PROVE ShownTurnRuns
<1> SUFFICES ASSUME Settled, spent.restarts = 0, ActiveTurn(Session) # NoTurn
    PROVE  \E c \in DOMAIN contexts : contexts[c].up /\ Session.activeTurn \in TurnsOf(c)
 BY DEF ShownTurnRuns
<1>1. DOMAIN runtime = {} /\ ingesting = None BY DEF Settled
<1>2. Runs(ActiveTurn(Session)) BY <1>1 DEF TurnsTrue, TurnsSettled, TurnShown, Accounted, Settles
<1>3. ActiveTurn(Session) = Session.activeTurn BY DEF ActiveTurn
<1> QED BY <1>2, <1>3 DEF Runs

--------------------
(* A session that lives is shown as one that does, or an event that revives *)
(* what is shown is on its way with no exit behind it.  Exits come from     *)
(* sessions that are gone: with one provider, from the only one.            *)
Alive == \E p \in Providers : sessions[p] # 0
Exits(event) == event.type = "session.exited"
NoExitAfter(i) == \A j \in DOMAIN runtime : i < j => ~Exits(runtime[j])
IsStopped(session) == session # NoSession /\ session.status = "stopped"
Reviving ==
    \/ \E i \in DOMAIN runtime : Revives(runtime[i]) /\ NoExitAfter(i)
    \/ ingesting # None /\ Revives(ingesting.event) /\ NoExitAfter(0)
ShownAlive ==
    /\ NoExitAfter(0) /\ ~IsStopped(Session)
    /\ ingesting # None => ~Exits(ingesting.event) /\ ~IsStopped(ingesting.session)
AliveIsShown == (Alive /\ ~history.passed /\ OneProvider) => Reviving \/ ShownAlive
MarksTheDead ==
    (job # None /\ job.step = "mark" /\ OneProvider) => ~Alive \/ history.passed
AllTried ==
    /\ \A c \in DOMAIN contexts : contexts[c].provider \in history.tried
    /\ directory # None => directory.provider \in history.tried
StopInvariant == AliveIsShown /\ MarksTheDead /\ AllTried

(* A step that adds no exit keeps what is shown, unless it shows a stop.    *)
LEMMA AliveAppended ==
  ASSUME NEW S, runtime \in Seq(S), NEW events \in Seq(S), runtime' = runtime \o events,
    \A j \in DOMAIN events : ~Exits(events[j]),
    Reviving \/ ShownAlive, UNCHANGED ingesting,
    IsStopped(Session)' => IsStopped(Session)
  PROVE (Reviving \/ ShownAlive)'
<1> DEFINE n == Len(runtime)
<1>1. /\ n \in Nat /\ DOMAIN runtime = 1..n
      /\ \A i \in DOMAIN runtime : i \in DOMAIN runtime' /\ runtime'[i] = runtime[i]
      /\ \A j \in DOMAIN events : runtime'[n + j] = events[j]
      /\ \A i \in DOMAIN runtime' : i \in DOMAIN runtime \/ i - n \in DOMAIN events
      /\ DOMAIN runtime' \subseteq Nat
 BY ConcatIs
<1> HIDE DEF n
<1>2. ASSUME NEW i \in 0..n, NoExitAfter(i) PROVE NoExitAfter(i)'
 <2> SUFFICES ASSUME NEW j \in DOMAIN runtime', i < j PROVE ~Exits(runtime'[j])
  BY DEF NoExitAfter, Exits
 <2>1. CASE j \in DOMAIN runtime BY <1>1, <1>2, <2>1 DEF NoExitAfter
 <2>2. CASE j - n \in DOMAIN events
  <3> DEFINE k == j - n
  <3>1. k \in DOMAIN events /\ j = n + k BY <1>1, <2>2
  <3> HIDE DEF k
  <3> QED BY <1>1, <3>1
 <2> QED BY <1>1, <2>1, <2>2
<1>3. 0 \in 0..n /\ \A i \in DOMAIN runtime : i \in 0..n BY <1>1
<1>4. ASSUME NEW i \in DOMAIN runtime, Revives(runtime[i]), NoExitAfter(i) PROVE Reviving'
 <2>1. i \in DOMAIN runtime' /\ Revives(runtime'[i]) /\ NoExitAfter(i)' BY <1>1, <1>2, <1>3, <1>4
 <2> QED BY <2>1 DEF Reviving, Revives, NoExitAfter, Exits
<1>5. CASE ingesting # None /\ Revives(ingesting.event) /\ NoExitAfter(0)
 BY <1>2, <1>3, <1>5 DEF Reviving, Revives, NoExitAfter, Exits
<1>6. CASE ShownAlive
 <2>1. NoExitAfter(0)' /\ ~IsStopped(Session)' BY <1>2, <1>3, <1>6 DEF ShownAlive
 <2>2. (ingesting # None => ~Exits(ingesting.event) /\ ~IsStopped(ingesting.session))'
  BY <1>6 DEF ShownAlive, Exits, IsStopped
 <2> QED BY <2>1, <2>2 DEF ShownAlive, NoExitAfter, Exits
<1> QED BY <1>4, <1>5, <1>6 DEF Reviving

LEMMA AliveQuiet ==
  ASSUME RuntimeTyped, Reviving \/ ShownAlive, UNCHANGED <<runtime, ingesting>>,
         IsStopped(Session)' => IsStopped(Session)
  PROVE (Reviving \/ ShownAlive)'
<1> DEFINE S == EventsOf(Turns)
<1>1. runtime \in Seq(S) /\ << >> \in Seq(S) /\ DOMAIN << >> = {} BY DEF RuntimeTyped
<1>2. runtime' = runtime \o << >> BY <1>1
<1> HIDE DEF S
<1> QED BY <1>1, <1>2, AliveAppended

(* Of a session that starts, the events revive what is shown.               *)
LEMMA AppendedIs ==
  ASSUME NEW S, runtime \in Seq(S), NEW events \in Seq(S), runtime' = runtime \o events
  PROVE /\ Len(runtime) \in Nat /\ DOMAIN runtime = 1..Len(runtime)
        /\ \A j \in DOMAIN events :
              Len(runtime) + j \in DOMAIN runtime' /\ runtime'[Len(runtime) + j] = events[j]
        /\ \A i \in DOMAIN runtime' : i \in DOMAIN runtime \/ i - Len(runtime) \in DOMAIN events
        /\ DOMAIN runtime' \subseteq Nat
BY ConcatIs

LEMMA LastRevives ==
  ASSUME NEW S, runtime \in Seq(S), NEW events \in Seq(S), runtime' = runtime \o events,
    DOMAIN events = {1, 2}, Revives(events[2])
  PROVE Reviving'
<1> DEFINE n == Len(runtime)
<1>1. /\ n \in Nat /\ DOMAIN runtime = 1..n
      /\ \A j \in DOMAIN events : n + j \in DOMAIN runtime' /\ runtime'[n + j] = events[j]
      /\ \A i \in DOMAIN runtime' : i \in DOMAIN runtime \/ i - n \in DOMAIN events
      /\ DOMAIN runtime' \subseteq Nat
 BY AppendedIs
<1> HIDE DEF n
<1>2. n + 2 \in DOMAIN runtime' /\ runtime'[n + 2] = events[2] BY <1>1
<1>3. ASSUME NEW j \in DOMAIN runtime' PROVE ~(n + 2 < j)
 <2>1. j \in Nat /\ (j \in 1..n \/ j - n \in {1, 2}) BY <1>1
 <2> QED BY <1>1, <2>1
<1>4. Revives(runtime'[n + 2]) BY <1>2
<1>5. PICK i \in DOMAIN runtime' : Revives(runtime'[i]) /\ \A j \in DOMAIN runtime' : ~(i < j)
 BY <1>2, <1>3, <1>4
<1> QED BY <1>5 DEF Reviving, NoExitAfter, Revives

LEMMA StartRevives ==
  ASSUME AgentsTyped, RuntimeTyped, UNCHANGED setting, NEW p \in Providers, NEW mode \in Modes,
    NEW cursor \in {None} \cup CursorsOf(Turns, N), NEW prompt \in SUBSET Turns,
    StartSession(p, mode, cursor, prompt)
  PROVE Reviving'
<1> DEFINE S == EventsOf(Turns')
           events == StartEvents(p)
<1>1. Grown /\ NoTurn \in Turns' BY StartSessionIs DEF Turns
<1>2. /\ events \in Seq(S) /\ DOMAIN events = {1, 2} /\ Revives(events[2]) BY <1>1, StartAnnounces
<1>3. runtime \in Seq(S) /\ runtime' = runtime \o events
 BY <1>1, RuntimeGrows DEF StartSession, StartEvents
<1> HIDE DEF S, events
<1> QED BY <1>2, <1>3, LastRevives

LEMMA AliveIngestRead ==
  ASSUME Typed, IngestRead, Reviving \/ ShownAlive PROVE (Reviving \/ ShownAlive)'
<1>1. ASSUME NEW i \in Nat, NoExitAfter(i + 1) PROVE NoExitAfter(i)'
 <2> SUFFICES ASSUME NEW j \in DOMAIN runtime', i < j PROVE ~Exits(runtime'[j])
  BY DEF NoExitAfter, Exits
 <2>1. j + 1 \in DOMAIN runtime /\ runtime'[j] = runtime[j + 1] /\ i + 1 < j + 1 BY IngestReadIs
 <2> QED BY <1>1, <2>1 DEF NoExitAfter
<1>2. ASSUME NEW i \in DOMAIN runtime, Revives(runtime[i]), NoExitAfter(i) PROVE Reviving'
 <2>1. CASE i = 1
  <3>1. /\ ingesting' # None /\ ingesting'.event = runtime[1] BY IngestReadIs
  <3>2. NoExitAfter(0)'
   <4>1. NoExitAfter(0 + 1) BY <1>2, <2>1
   <4> QED BY <1>1, <4>1
  <3> QED BY <1>2, <2>1, <3>1, <3>2 DEF Reviving, Revives, NoExitAfter, Exits
 <2>2. CASE i # 1
  <3> DEFINE k == i - 1
  <3>1. k \in DOMAIN runtime' /\ runtime'[k] = runtime[i] /\ i \in Nat BY <2>2, IngestReadIs
  <3>2. k \in Nat /\ k + 1 = i BY <3>1, IngestReadIs
  <3> HIDE DEF k
  <3>3. NoExitAfter(k)' BY <1>1, <1>2, <3>2
  <3> QED BY <1>2, <3>1, <3>3 DEF Reviving, Revives, NoExitAfter, Exits
 <2> QED BY <2>1, <2>2
<1>3. CASE ShownAlive
 <2>1. NoExitAfter(0) /\ ~IsStopped(Session) /\ 1 \in DOMAIN runtime
  BY <1>3, IngestReadIs DEF ShownAlive
 <2>2. NoExitAfter(0 + 1) /\ ~Exits(runtime[1]) BY <2>1, IngestReadIs DEF NoExitAfter
 <2>3. NoExitAfter(0)' BY <1>1, <2>2
 <2>4. /\ ingesting'.event = runtime[1] /\ ingesting'.session = Session /\ Session' = Session
  BY IngestReadIs DEF Session
 <2> QED BY <2>1, <2>2, <2>3, <2>4 DEF ShownAlive, NoExitAfter, Exits, IsStopped
<1>4. ingesting = None BY IngestReadIs
<1> QED BY <1>2, <1>3, <1>4 DEF Reviving

LEMMA AliveIngestWrite ==
  ASSUME Typed, IngestWrite, Reviving \/ ShownAlive PROVE (Reviving \/ ShownAlive)'
<1> DEFINE event == ingesting.event
           session == ingesting.session
<1>1. /\ ingesting # None /\ ingesting' = None /\ UNCHANGED runtime
      /\ thread' = IF Applies(event, session)
                   THEN [thread EXCEPT !.session = NextSession(event, session)] ELSE thread
 BY DEF IngestWrite, agents
<1>2. Session' = IF Applies(event, session) THEN NextSession(event, session) ELSE Session
 BY <1>1, SessionIs DEF Session, ReadsOf, Typed
<1>3. event \in EventsOf(Turns) BY <1>1 DEF Typed, IngestingTyped
<1>4. \A i : NoExitAfter(i) => NoExitAfter(i)' BY <1>1 DEF NoExitAfter, Exits
<1>5. ~Exits(event) /\ event.type # "thread.token-usage.updated" => NextStatus(event, session) # "stopped"
 BY <1>3 DEF NextStatus, Exits, EventsOf, EventTypes
<1>6. ASSUME Applies(event, session), ~Exits(event), event.type # "thread.token-usage.updated"
    PROVE  ~IsStopped(NextSession(event, session))
 <2>1. NextSession(event, session).status = NextStatus(event, session) BY <1>6 DEF NextSession
 <2> QED BY <1>5, <1>6, <2>1 DEF IsStopped
<1>7. ASSUME NEW i \in DOMAIN runtime, Revives(runtime[i]), NoExitAfter(i) PROVE Reviving'
 <2>1. i \in DOMAIN runtime' /\ Revives(runtime'[i]) /\ NoExitAfter(i)' BY <1>1, <1>4, <1>7
 <2> QED BY <2>1 DEF Reviving, Revives, NoExitAfter, Exits
<1>8. CASE Revives(event) /\ NoExitAfter(0)
 <2>1. Applies(event, session) /\ ~Exits(event) /\ event.type # "thread.token-usage.updated"
  BY <1>8 DEF Applies, Exits, Revives
 <2>2. ~IsStopped(Session)' BY <1>2, <1>6, <2>1 DEF IsStopped
 <2> QED BY <1>1, <1>4, <1>8, <2>2 DEF ShownAlive
<1>9. CASE ShownAlive
 <2>1. NoExitAfter(0) /\ ~IsStopped(Session) /\ ~Exits(event) /\ ~IsStopped(session)
  BY <1>1, <1>9 DEF ShownAlive
 <2>2. ~IsStopped(Session)'
  <3>1. CASE ~Applies(event, session) BY <1>2, <2>1, <3>1 DEF IsStopped
  <3>2. CASE Applies(event, session) /\ event.type = "thread.token-usage.updated"
   <4>1. NextSession(event, session) = session BY <3>2 DEF NextSession
   <4> QED BY <1>2, <2>1, <3>2, <4>1 DEF IsStopped
  <3>3. CASE Applies(event, session) /\ event.type # "thread.token-usage.updated"
   BY <1>2, <1>6, <2>1, <3>3 DEF IsStopped
  <3> QED BY <3>1, <3>2, <3>3
 <2> QED BY <1>1, <1>4, <2>1, <2>2 DEF ShownAlive
<1> QED BY <1>7, <1>8, <1>9 DEF Reviving

(* What the steps record of the providers that were tried.                  *)
LEMMA HistoryIs ==
  ASSUME HistoryTyped
  PROVE /\ history.tried \in SUBSET Providers /\ history.passed \in BOOLEAN
        /\ UNCHANGED history => UNCHANGED history.tried /\ UNCHANGED history.passed
        /\ \A turns : Lose(turns) => UNCHANGED history.tried /\ UNCHANGED history.passed
        /\ \A turns : SucceedForgetting(turns) =>
              UNCHANGED history.tried /\ UNCHANGED history.passed
        /\ \A providers : FailTrying(providers) =>
              history'.tried = history.tried \cup providers /\ UNCHANGED history.passed
        /\ \A p : Tries(p) => history'.tried = history.tried \cup {p}
        /\ PassesOver => UNCHANGED history.tried /\ (history'.passed <=> history.passed \/ Alive)
<1>1. history.tried \in SUBSET Providers /\ history.passed \in BOOLEAN BY DEF HistoryTyped
<1>2. \A turns : Lose(turns) => UNCHANGED history.tried /\ UNCHANGED history.passed
 BY DEF Lose, HistoryTyped
<1>3. \A turns : SucceedForgetting(turns) =>
               UNCHANGED history.tried /\ UNCHANGED history.passed
 BY DEF SucceedForgetting, HistoryTyped
<1>4. ASSUME NEW providers, FailTrying(providers)
    PROVE  history'.tried = history.tried \cup providers /\ UNCHANGED history.passed
 <2>1. CASE job.type = "compact"
  <3>1. history' = [history EXCEPT !.failed = @ + 1, !.tried = @ \cup providers]
   BY <1>4, <2>1 DEF FailTrying
  <3> DEFINE mid == [history EXCEPT !.failed = @ + 1]
  <3>2. mid.tried = history.tried /\ mid.passed = history.passed
        /\ mid \in [ended : SUBSET Turns, forgotten : SUBSET Turns, lost : SUBSET Turns,
                    failed : Nat, tried : SUBSET Providers, passed : BOOLEAN]
   BY DEF HistoryTyped
  <3>3. history' = [mid EXCEPT !.tried = @ \cup providers] BY <3>1
  <3> HIDE DEF mid
  <3> QED BY <3>2, <3>3
 <2>2. CASE job.type # "compact"
  <3>1. history' = [history EXCEPT !.lost = @ \cup ({job.turn} \ {NoTurn}),
                                   !.tried = @ \cup providers]
   BY <1>4, <2>2 DEF FailTrying
  <3> QED BY <3>1 DEF HistoryTyped
 <2> QED BY <2>1, <2>2
<1>5. \A p : Tries(p) => history'.tried = history.tried \cup {p} BY DEF Tries, HistoryTyped
<1>6. PassesOver => UNCHANGED history.tried /\ (history'.passed <=> history.passed \/ Alive)
 BY DEF PassesOver, HistoryTyped, Alive
<1> QED BY <1>1, <1>2, <1>3, <1>4, <1>5, <1>6

(* With one provider, the session that lives is its own.                    *)
LEMMA OnlyOne ==
  ASSUME Typed, AllTried, NEW p, NEW tried, history.tried \subseteq tried, p \in tried,
    \A a, b \in tried : a = b, NEW q \in Providers, sessions[q] # 0
  PROVE q = p
<1>1. sessions[q] \in DOMAIN contexts /\ contexts[sessions[q]].provider = q
 BY ContextsAre DEF Typed, AgentsTyped
<1> QED BY <1>1 DEF AllTried

LEMMA StopKept ==
  ASSUME Typed, StopInvariant, history.tried \subseteq history'.tried, UNCHANGED history.passed,
    directory' # None => directory # None /\ directory'.provider = directory.provider,
    job' # None /\ job'.step = "mark" => UNCHANGED job,
    \A p \in Providers : sessions'[p] \in {0, sessions[p]},
    DOMAIN contexts' = DOMAIN contexts,
    \A c \in DOMAIN contexts : contexts'[c].provider = contexts[c].provider,
    Alive' /\ Alive /\ ~history.passed /\ OneProvider' /\ OneProvider /\ (Reviving \/ ShownAlive)
       => (Reviving \/ ShownAlive)'
  PROVE StopInvariant'
<1>1. OneProvider' => OneProvider BY DEF OneProvider
<1>2. Alive' => Alive BY DEF Alive
<1>3. AliveIsShown' BY <1>1, <1>2 DEF AliveIsShown, StopInvariant
<1>4. MarksTheDead'
 <2> SUFFICES ASSUME job' # None, job'.step = "mark", OneProvider'
     PROVE  ~Alive' \/ history'.passed
  BY DEF MarksTheDead
 <2> QED BY <1>1, <1>2 DEF MarksTheDead, StopInvariant
<1>5. AllTried' BY DEF AllTried, StopInvariant
<1> QED BY <1>3, <1>4, <1>5 DEF StopInvariant

(* Steps that leave the agents alone.                                       *)
LEMMA StopAside ==
  ASSUME Typed, StopInvariant, history.tried \subseteq history'.tried, UNCHANGED history.passed,
    UNCHANGED <<agents, ingesting, directory>>,
    job' # None /\ job'.step = "mark" => UNCHANGED job,
    IsStopped(Session)' => IsStopped(Session) \/ ~Alive \/ history.passed \/ ~OneProvider
  PROVE StopInvariant'
<1>1. /\ UNCHANGED <<runtime, ingesting, directory>> /\ DOMAIN contexts' = DOMAIN contexts
      /\ \A p \in Providers : sessions'[p] \in {0, sessions[p]}
      /\ \A c \in DOMAIN contexts : contexts'[c].provider = contexts[c].provider
 BY DEF agents
<1>2. Alive' /\ Alive /\ ~history.passed /\ OneProvider' /\ OneProvider /\ (Reviving \/ ShownAlive)
         => (Reviving \/ ShownAlive)'
 BY <1>1, AliveQuiet DEF Typed
<1> QED BY <1>1, <1>2, StopKept

LEMMA StopTried ==
  ASSUME Typed, StopInvariant, UNCHANGED <<setting, thread, ingesting>>, NEW p \in Providers, Tried(p),
    job' # None => job'.step # "mark"
  PROVE StopInvariant'
<1>1. MarksTheDead' BY DEF MarksTheDead
<1>2. ASSUME NEW mode \in Modes, NEW cursor \in {None} \cup CursorsOf(Turns, N),
             NEW prompt \in SUBSET Turns, NEW kept \in SUBSET Turns,
             StartAndBind(p, mode, cursor, prompt, kept), Tries(p)
    PROVE  StopInvariant'
 <2>1. StartSession(p, mode, cursor, prompt) /\ directory'.provider = p
  BY <1>2 DEF StartAndBind, Upsert
 <2>2. Reviving' BY <2>1, StartRevives DEF Typed
 <2>3. AliveIsShown' BY <2>2 DEF AliveIsShown
 <2>4. /\ AgentsTyped' /\ Len(contexts') = Len(contexts) + 1 /\ Len(contexts) \in Nat
       /\ \A c \in DOMAIN contexts : contexts'[c] = contexts[c]
       /\ sessions' = [sessions EXCEPT ![p] = Len(contexts')]
  BY <2>1, StartSessionIs DEF Typed
 <2>5. contexts'[Len(contexts')].provider = p BY SMTT(30), <2>4 DEF AgentsTyped, Typed
 <2>6. \A c \in DOMAIN contexts' : c \in DOMAIN contexts \/ c = Len(contexts')
  <3>1. DOMAIN contexts' = 1..Len(contexts') /\ DOMAIN contexts = 1..Len(contexts)
   BY <2>4 DEF AgentsTyped, Typed
  <3> QED BY <2>4, <3>1
 <2>7. history'.tried = history.tried \cup {p} BY <1>2, HistoryIs DEF Typed
 <2>8. AllTried' BY <2>1, <2>4, <2>5, <2>6, <2>7 DEF AllTried, StopInvariant
 <2> QED BY <1>1, <2>3, <2>8 DEF StopInvariant
<1>3. CASE StartFails(p) /\ FailTrying({p})
 <2>1. /\ history'.tried = history.tried \cup {p} /\ UNCHANGED history.passed
  BY <1>3, HistoryIs DEF Typed
 <2>2. UNCHANGED <<contexts, conversations, directory>> BY <1>3 DEF StartFails
 <2>3. CASE UNCHANGED <<sessions, runtime>>
  <3>1. UNCHANGED agents BY <2>2, <2>3 DEF agents
  <3>2. IsStopped(Session)' => IsStopped(Session) BY DEF Session, IsStopped
  <3> QED BY <2>1, <2>2, <3>1, <3>2, StopAside
 <2>4. CASE sessions' = [sessions EXCEPT ![p] = 0]
  <3>1. sessions'[p] = 0 /\ \A q \in Providers : sessions'[q] \in {0, sessions[q]}
   BY <2>4 DEF Typed, AgentsTyped
  <3>2. ASSUME OneProvider' PROVE ~Alive'
   <4> SUFFICES ASSUME NEW q \in Providers, sessions'[q] # 0 PROVE FALSE BY DEF Alive
   <4>1. sessions[q] # 0 /\ q # p BY <3>1
   <4> DEFINE tried == history'.tried
   <4>2. history.tried \subseteq tried /\ p \in tried /\ \A a, b \in tried : a = b
    BY <2>1, <3>2 DEF OneProvider
   <4> HIDE DEF tried
   <4> QED BY <4>1, <4>2, OnlyOne DEF StopInvariant
  <3>3. AliveIsShown' BY <3>2 DEF AliveIsShown
  <3>4. AllTried' BY <2>1, <2>2 DEF AllTried, StopInvariant
  <3> QED BY <1>1, <3>3, <3>4 DEF StopInvariant
 <2> QED BY <1>3, <2>3, <2>4 DEF StartFails
<1> QED BY <1>2, <1>3 DEF Tried

LEMMA TakeIs ==
  ASSUME Take
  PROVE /\ job = None /\ UNCHANGED <<thread, ingesting, agents, directory>>
        /\ \/ PassesOver
           \/ /\ UNCHANGED history \/ \E turns : Lose(turns)
              /\ job' # None => job'.step # "mark"
<1>1. /\ job = None /\ UNCHANGED <<thread, ingesting, agents, directory>>
 BY DEF Take, NoAgent, Aside
<1>2. PICK first :
         /\ job' = None \/ job' = Taken(Head(intents), first)
         /\ PassesOver \/ UNCHANGED history \/ \E turns : Lose(turns)
         /\ first = "mark" => PassesOver
 BY TakeBegins, Zenon
<1>3. job' # None => job'.step = first BY <1>2 DEF Taken
<1> QED BY <1>1, <1>2, <1>3

(* A stop that passes over a session that lives.                            *)
LEMMA StopPassesOver ==
  ASSUME Typed, StopInvariant, PassesOver, UNCHANGED <<thread, ingesting, agents, directory>>
  PROVE StopInvariant'
<1>1. UNCHANGED history.tried /\ (history'.passed <=> history.passed \/ Alive)
 BY HistoryIs DEF Typed
<1>2. Alive' <=> Alive BY DEF Alive, agents
<1>3. AliveIsShown' BY <1>1, <1>2 DEF AliveIsShown
<1>4. MarksTheDead' BY <1>1, <1>2 DEF MarksTheDead
<1>5. AllTried' BY <1>1 DEF AllTried, StopInvariant, agents
<1> QED BY <1>3, <1>4, <1>5 DEF StopInvariant

(* The end of a request, and a step that only the job sees.                 *)
LEMMA JobEnds ==
  ASSUME HistoryTyped, JobTyped, job # None,
    \/ Fail \/ Succeed
    \/ \E step \in {"send", "clear", "ensure"} : NextJob(step) /\ UNCHANGED history
  PROVE /\ UNCHANGED history.passed /\ UNCHANGED history.tried
        /\ job' # None /\ job'.step = "mark" => UNCHANGED job
<1>1. CASE Fail
 <2>1. job' = None BY <1>1 DEF Fail, FailTrying
 <2> QED BY <1>1, <2>1, HistoryIs DEF Fail
<1>2. CASE Succeed
 <2>1. job' = None BY <1>2 DEF Succeed, SucceedForgetting
 <2> QED BY <1>2, <2>1, HistoryIs DEF Succeed
<1>3. ASSUME NEW step \in {"send", "clear", "ensure"}, NextJob(step), UNCHANGED history
    PROVE  /\ UNCHANGED history.passed /\ UNCHANGED history.tried
           /\ job' # None /\ job'.step = "mark" => UNCHANGED job
 <2>1. job' = [job EXCEPT !.step = step] /\ step # "mark" BY <1>3 DEF NextJob
 <2>2. job'.step = step BY <2>1, JobIs DEF JobsOf
 <2> QED BY <1>3, <2>1, <2>2
<1> QED BY <1>1, <1>2, <1>3

LEMMA StopByQuiet ==
  ASSUME Typed, StopInvariant, Ensure \/ Bind \/ Mark \/ MarkReady \/ Clear PROVE StopInvariant'
<1>1. /\ job # None /\ UNCHANGED <<agents, ingesting, directory>>
 BY DEF Ensure, Bind, Mark, MarkReady, Clear, NoAgent, Aside
<1>2. CASE Ensure
 <2>1. \/ Succeed
       \/ NextJob("send") /\ Go
       \/ Go /\ job' = [job EXCEPT !.step = "start",
                          !.start = [provider |-> Preferred, mode |-> thread.mode,
                                     cursor |-> ResumeCursor, prompt |-> {}, then |-> "bind"]]
  BY <1>2 DEF Ensure, AfterEnsure
 <2>2. ASSUME NEW start, Go, job' = [job EXCEPT !.step = "start", !.start = start]
     PROVE  /\ UNCHANGED history.passed /\ UNCHANGED history.tried
            /\ job'.step # "mark"
  BY <1>1, <2>2, JobIs DEF Go, Typed, JobsOf
 <2>3. /\ UNCHANGED history.passed /\ UNCHANGED history.tried
       /\ job' # None /\ job'.step = "mark" => UNCHANGED job
  BY <1>1, <2>1, <2>2, JobEnds DEF Go, Typed
 <2>4. IsStopped(Session)' => IsStopped(Session)
  BY <1>2 DEF Ensure, NoDispatch, IsStopped, Session
 <2> QED BY <1>1, <2>3, <2>4, StopAside
<1>3. CASE Bind \/ MarkReady
 <2>1. /\ SetSession(Ready(job.start.provider, job.start.mode))
       /\ \/ Succeed
          \/ NextJob("send") /\ Go
          \/ NextJob("clear") /\ Go
  <3>1. CASE Bind BY <3>1 DEF Bind, AfterEnsure
  <3>2. CASE MarkReady BY <3>2 DEF MarkReady
  <3> QED BY <1>3, <3>1, <3>2
 <2>2. Session' = Ready(job.start.provider, job.start.mode)
  BY <2>1 DEF SetSession, Session, Typed, ThreadTyped, ReadsOf
 <2>3. ~IsStopped(Session)' BY <2>2 DEF IsStopped, Ready
 <2>4. /\ UNCHANGED history.passed /\ UNCHANGED history.tried
       /\ job' # None /\ job'.step = "mark" => UNCHANGED job
  BY <1>1, <2>1, JobEnds DEF Go, Typed
 <2> QED BY <1>1, <2>3, <2>4, StopAside
<1>4. CASE Mark
 <2>1. ~Alive \/ history.passed \/ ~OneProvider BY <1>4 DEF Mark, StopInvariant, MarksTheDead
 <2>2. ASSUME NEW start, Go, job' = [job EXCEPT !.step = "start", !.start = start]
     PROVE  /\ UNCHANGED history.passed /\ UNCHANGED history.tried
            /\ job'.step # "mark"
  BY <1>1, <2>2, JobIs DEF Go, Typed, JobsOf
 <2>3. \/ Succeed
       \/ \E start : Go /\ job' = [job EXCEPT !.step = "start", !.start = start]
  BY <1>4 DEF Mark
 <2>4. /\ UNCHANGED history.passed /\ UNCHANGED history.tried
       /\ job' # None /\ job'.step = "mark" => UNCHANGED job
  BY <1>1, <2>2, <2>3, JobEnds DEF Typed
 <2> QED BY <1>1, <2>1, <2>4, StopAside
<1>5. CASE Clear
 <2>1. /\ thread' = [thread EXCEPT !.messages = {}] /\ Go
       /\ job' = [job EXCEPT !.step = "ensure", !.turn = FirstAcknowledgement + Len(contexts)]
  BY <1>5 DEF Clear
 <2>2. Session' = Session BY <2>1 DEF Session, Typed, ThreadTyped, ReadsOf
 <2>3. IsStopped(Session)' => IsStopped(Session) BY <2>2 DEF IsStopped
 <2>4. ASSUME NEW turn, job' = [job EXCEPT !.step = "ensure", !.turn = turn]
     PROVE  job'.step # "mark"
  BY <1>1, <2>4, JobIs DEF Typed, JobsOf
 <2>5. UNCHANGED history.passed /\ UNCHANGED history.tried BY <2>1 DEF Go
 <2> QED BY <1>1, <2>1, <2>3, <2>4, <2>5, StopAside
<1> QED BY <1>2, <1>3, <1>4, <1>5

LEMMA StopByStart == ASSUME Typed, StopInvariant, Start PROVE StopInvariant'
<1>1. job # None /\ job.step = "start" /\ UNCHANGED <<setting, thread, ingesting>>
 BY DEF Start, NoDispatch, Aside
<1>2. job.start.provider \in Providers /\ Tried(job.start.provider) BY StartTries
<1>3. job' # None => job'.step # "mark"
 <2>1. job.start.then \in {"bind", "ready"} BY <1>1, JobIs DEF StartsOf, Typed
 <2>2. CASE NextJob(job.start.then) BY <1>1, <2>1, <2>2, JobIs DEF NextJob, JobsOf, Typed
 <2>3. CASE FailTrying({job.start.provider}) BY <2>3 DEF FailTrying
 <2> QED BY <2>2, <2>3 DEF Start
<1> QED BY <1>1, <1>2, <1>3, StopTried

LEMMA StopByRecover ==
  ASSUME Typed, StopInvariant, Recover, job # None, job.step \in {"send", "route"},
    UNCHANGED <<setting, thread, ingesting>>
  PROVE StopInvariant'
<1>1. directory.provider \in Providers /\ Tried(directory.provider) BY RecoverTries
<1>2. job' # None => job'.step # "mark"
 <2>1. CASE job' = [job EXCEPT !.recovered = TRUE] BY <2>1, JobIs DEF JobsOf, Typed
 <2>2. CASE FailTrying({directory.provider}) BY <2>2 DEF FailTrying
 <2> QED BY <2>1, <2>2 DEF Recover
<1> QED BY <1>1, <1>2, StopTried

LEMMA StopBySend == ASSUME Typed, StopInvariant, Send PROVE StopInvariant'
<1>1. job # None /\ job.step = "send" /\ UNCHANGED <<setting, thread, ingesting>>
 BY DEF Send, NoDispatch, Aside
<1>2. IsStopped(Session)' => IsStopped(Session) BY <1>1 DEF IsStopped, Session
<1>3. CASE Recover BY <1>1, <1>3, StopByRecover
<1>4. CASE Fail /\ NoAgent BY <1>1, <1>2, <1>4, JobEnds, StopAside DEF NoAgent, Typed
<1>5. CASE /\ Routed /\ AcceptsTurn(RoutedContext) /\ SendTurn(RoutedContext, job.turn)
           /\ directory' = [directory EXCEPT !.cursor = contexts[RoutedContext].cursor]
           /\ SucceedForgetting((history.ended \cap 1..setting.turns) \ Memory(RoutedContext))
           /\ UNCHANGED <<sessions, conversations, spent>>
 <2> DEFINE c == RoutedContext
            event == Event("turn.started", contexts[c].provider, job.turn)
            new == [contexts[c] EXCEPT !.turn = job.turn, !.interrupted = FALSE,
                     !.others = (@ \cup {contexts[c].turn}) \ {NoTurn}]
 <2>1. /\ c \in DOMAIN contexts /\ contexts[c] \in ContextsOf(Turns, N) /\ job.turn \in Turns
       /\ directory # None /\ directory \in BindingsOf(Turns, N)
  BY <1>1, <1>5, RoutedIs, JobIs, DirectoryIs DEF Typed
 <2>2. directory'.provider = directory.provider BY <1>5, <2>1 DEF BindingsOf
 <2>3. job' = None /\ UNCHANGED history.tried /\ UNCHANGED history.passed
  BY <1>5, HistoryIs DEF SucceedForgetting, Typed
 <2>4. new.provider = contexts[c].provider /\ contexts[c].provider \in Providers
  BY <2>1 DEF ContextsOf
 <2>5. contexts' = [contexts EXCEPT ![c] = new] /\ runtime' = Append(runtime, event)
  BY <1>5 DEF SendTurn
 <2>6. event \in EventsOf(Turns) /\ ~Exits(event) BY <2>1, <2>4, EventsAre DEF Exits, Event, Turns
 <2> HIDE DEF c, event, new
 <2>7. /\ DOMAIN contexts' = DOMAIN contexts
       /\ \A d \in DOMAIN contexts : contexts'[d].provider = contexts[d].provider
  BY <2>4, <2>5
 <2> DEFINE S == EventsOf(Turns)
            events == << event >>
 <2>8. runtime \in Seq(S) /\ events \in Seq(S) /\ runtime' = runtime \o events
  BY <2>5, <2>6, AppendIsConcat DEF Typed, RuntimeTyped
 <2>9. \A j \in DOMAIN events : ~Exits(events[j]) BY <2>6
 <2> HIDE DEF S, events
 <2>10. Reviving \/ ShownAlive => (Reviving \/ ShownAlive)'
  BY <1>1, <1>2, <2>8, <2>9, AliveAppended
 <2>11. \A p \in Providers : sessions'[p] \in {0, sessions[p]} BY <1>5
 <2> QED BY <2>1, <2>2, <2>3, <2>7, <2>10, <2>11, StopKept
<1> QED BY <1>3, <1>4, <1>5 DEF Send

LEMMA StopByInterrupt == ASSUME Typed, StopInvariant, Interrupt PROVE StopInvariant'
<1>1. job # None /\ job.step = "route" /\ UNCHANGED <<setting, thread, ingesting>>
 BY DEF Interrupt, NoDispatch, Aside
<1>2. IsStopped(Session)' => IsStopped(Session) BY <1>1 DEF IsStopped, Session
<1>3. CASE Recover BY <1>1, <1>3, StopByRecover
<1>4. CASE Fail /\ NoAgent BY <1>1, <1>2, <1>4, JobEnds, StopAside DEF NoAgent, Typed
<1>5. CASE /\ contexts' = [contexts EXCEPT ![RoutedContext].interrupted = Running(RoutedContext)]
           /\ Succeed /\ UNCHANGED <<sessions, conversations, runtime, directory, spent>>
 <2>1. /\ UNCHANGED history.passed /\ UNCHANGED history.tried
       /\ job' # None /\ job'.step = "mark" => UNCHANGED job
  BY <1>1, <1>5, JobEnds DEF Typed
 <2>2. \A c \in DOMAIN contexts : contexts[c] \in ContextsOf(Turns, N) BY ContextsAre DEF Typed
 <2>3. /\ DOMAIN contexts' = DOMAIN contexts
       /\ \A c \in DOMAIN contexts : contexts'[c].provider = contexts[c].provider
  BY <1>5, <2>2 DEF ContextsOf
 <2>4. Reviving \/ ShownAlive => (Reviving \/ ShownAlive)'
  BY <1>1, <1>2, <1>5, AliveQuiet DEF Typed
 <2>5. \A p \in Providers : sessions'[p] \in {0, sessions[p]} BY <1>5
 <2> QED BY <1>5, <2>1, <2>3, <2>4, <2>5, StopKept
<1> QED BY <1>3, <1>4, <1>5 DEF Interrupt

LEMMA StopByStop == ASSUME Typed, StopInvariant, Stop PROVE StopInvariant'
<1>1. job # None /\ UNCHANGED <<setting, thread, ingesting>> BY DEF Stop, NoDispatch, Aside
<1>2. IsStopped(Session)' => IsStopped(Session) BY <1>1 DEF IsStopped, Session
<1>3. CASE Fail /\ NoAgent BY <1>1, <1>2, <1>3, JobEnds, StopAside DEF NoAgent, Typed
<1>4. CASE PassesOver /\ NoAgent BY <1>1, <1>4, StopPassesOver DEF NoAgent
<1>5. CASE /\ directory # None
           /\ \/ /\ Routed /\ StopSession(RoutedContext)
                 /\ Lose(TurnsOf(RoutedContext))
              \/ ~Routed /\ UNCHANGED <<contexts, sessions, runtime, history>>
           /\ directory' = None
 <2> DEFINE p == directory.provider
 <2>1. p \in Providers /\ p \in history.tried
  BY <1>5, DirectoryIs DEF Typed, StopInvariant, AllTried
 <2>2. /\ UNCHANGED history.tried
       /\ sessions'[p] = 0 /\ \A q \in Providers : sessions'[q] \in {0, sessions[q]}
       /\ DOMAIN contexts' = DOMAIN contexts
       /\ \A c \in DOMAIN contexts : contexts'[c].provider = contexts[c].provider
  <3>1. CASE /\ Routed /\ StopSession(RoutedContext)
             /\ Lose(TurnsOf(RoutedContext))
   <4> DEFINE c == RoutedContext
              new == Down(contexts[c])
   <4>1. /\ c \in DOMAIN contexts /\ contexts[c] \in ContextsOf(Turns, N)
         /\ contexts[c].provider = p
    BY <3>1, RoutedIs
   <4>2. contexts' = [contexts EXCEPT ![c] = new] /\ sessions' = [sessions EXCEPT ![p] = 0]
    BY <3>1, <4>1 DEF StopSession
   <4>3. new.provider = contexts[c].provider BY <4>1 DEF ContextsOf, Down
   <4>4. UNCHANGED history.tried BY <3>1, HistoryIs DEF Typed
   <4> HIDE DEF new, c, p
   <4>5. sessions'[p] = 0 /\ \A q \in Providers : sessions'[q] \in {0, sessions[q]}
    BY <2>1, <4>2 DEF Typed, AgentsTyped
   <4>6. /\ DOMAIN contexts' = DOMAIN contexts
         /\ \A d \in DOMAIN contexts : contexts'[d].provider = contexts[d].provider
    BY <4>1, <4>2, <4>3
   <4> QED BY <4>4, <4>5, <4>6
  <3>2. CASE ~Routed /\ UNCHANGED <<contexts, sessions, runtime, history>>
   BY <1>5, <2>1, <3>2 DEF Routed
  <3> QED BY <1>5, <3>1, <3>2
 <2>3. ASSUME OneProvider' PROVE ~Alive'
  <3> SUFFICES ASSUME NEW q \in Providers, sessions'[q] # 0 PROVE FALSE BY DEF Alive
  <3>1. sessions[q] # 0 /\ q # p BY <2>2
  <3> DEFINE tried == history.tried
  <3>2. history.tried \subseteq tried /\ p \in tried /\ \A a, b \in tried : a = b
   BY <2>1, <2>2, <2>3 DEF OneProvider
  <3> HIDE DEF tried, p
  <3> QED BY <3>1, <3>2, OnlyOne DEF StopInvariant
 <2>4. AliveIsShown' /\ MarksTheDead' BY <2>3 DEF AliveIsShown, MarksTheDead
 <2>5. AllTried' BY <1>5, <2>2 DEF AllTried, StopInvariant
 <2> QED BY <2>4, <2>5 DEF StopInvariant
<1> QED BY <1>3, <1>4, <1>5 DEF Stop

LEMMA StopByReactor == ASSUME Typed, StopInvariant, Reactor PROVE StopInvariant'
<1>1. CASE Take
 <2>1. /\ job = None /\ UNCHANGED <<thread, ingesting, agents, directory>>
       /\ \/ PassesOver
          \/ /\ UNCHANGED history \/ \E turns : Lose(turns)
             /\ job' # None => job'.step # "mark"
  BY <1>1, TakeIs
 <2>2. IsStopped(Session)' => IsStopped(Session) BY <2>1 DEF IsStopped, Session
 <2>3. ASSUME UNCHANGED history \/ \E turns : Lose(turns), job' # None => job'.step # "mark"
     PROVE  StopInvariant'
  <3>1. UNCHANGED history.tried /\ UNCHANGED history.passed BY <2>3, HistoryIs DEF Typed
  <3> QED BY <2>1, <2>2, <2>3, <3>1, StopAside
 <2> QED BY <2>1, <2>3, StopPassesOver
<1> QED BY <1>1, StopByQuiet, StopByStart, StopBySend, StopByInterrupt, StopByStop DEF Reactor

LEMMA StopByUser == ASSUME Typed, StopInvariant, User PROVE StopInvariant'
<1>1. UNCHANGED <<agents, ingesting, directory, job, history>>
 BY DEF User, RequestTurn, RequestMode, RequestCompaction, RequestStop, RequestInterrupt, Ask, worker
<1>2. Session' = Session
 BY DEF User, RequestTurn, RequestMode, RequestCompaction, RequestStop, RequestInterrupt, Ask,
     Session, Typed, ThreadTyped, ReadsOf
<1>3. UNCHANGED history.tried /\ UNCHANGED history.passed BY <1>1
<1>4. IsStopped(Session)' => IsStopped(Session) BY <1>2 DEF IsStopped
<1> QED BY <1>1, <1>3, <1>4, StopAside

LEMMA StopByIngestion == ASSUME Typed, StopInvariant, Ingestion PROVE StopInvariant'
<1>1. UNCHANGED <<job, directory, sessions, contexts, history>>
 BY DEF Ingestion, IngestRead, IngestWrite, worker, agents
<1>2. Reviving \/ ShownAlive => (Reviving \/ ShownAlive)'
 BY AliveIngestRead, AliveIngestWrite DEF Ingestion
<1>3. /\ UNCHANGED history.tried /\ UNCHANGED history.passed
      /\ \A p \in Providers : sessions'[p] \in {0, sessions[p]}
      /\ DOMAIN contexts' = DOMAIN contexts
      /\ \A c \in DOMAIN contexts : contexts'[c].provider = contexts[c].provider
 BY <1>1
<1> QED BY <1>1, <1>2, <1>3, StopKept

LEMMA StopByComplete ==
  ASSUME Typed, StopInvariant, NEW c \in DOMAIN contexts,
    NEW state \in {"completed", "failed", "interrupted"}, NEW full \in BOOLEAN,
    CompleteTurn(c, state, full)
  PROVE StopInvariant'
<1> DEFINE S == EventsOf(Turns)
           events == CompletionEvents(c, state, full)
           held == conversations[contexts[c].conversation] \cup {contexts[c].turn}
           at == IF contexts[c].provider = "codex" THEN {} ELSE held
           cursor == [contexts[c].cursor EXCEPT !.conversation = contexts[c].conversation, !.at = at]
           new == [contexts[c] EXCEPT !.turn = NoTurn, !.cursor = cursor]
<1>1. /\ UNCHANGED <<thread, job, directory, sessions, ingesting>>
      /\ history' = [history EXCEPT !.ended = @ \cup {contexts[c].turn}]
      /\ contexts' = [contexts EXCEPT ![c] = new]
 BY DEF CompleteTurn, worker
<1>2. contexts[c] \in ContextsOf(Turns, N) BY ContextsAre DEF Typed
<1>3. new.provider = contexts[c].provider
 <2> HIDE DEF cursor
 <2> QED BY <1>2 DEF ContextsOf
<1> HIDE DEF new
<1>4. /\ DOMAIN contexts' = DOMAIN contexts
      /\ \A d \in DOMAIN contexts : contexts'[d].provider = contexts[d].provider
 BY <1>1, <1>3
<1>5. UNCHANGED history.tried /\ UNCHANGED history.passed BY <1>1 DEF Typed, HistoryTyped
<1>6. runtime \in Seq(S) /\ events \in Seq(S) /\ runtime' = runtime \o events
 BY CompleteTurnIs DEF Typed, RuntimeTyped
<1>7. \A j \in DOMAIN events : ~Exits(events[j]) BY CompletionAnnounces DEF Exits
<1>8. IsStopped(Session)' => IsStopped(Session) BY <1>1 DEF IsStopped, Session
<1> HIDE DEF S, events
<1>9. Reviving \/ ShownAlive => (Reviving \/ ShownAlive)' BY <1>1, <1>6, <1>7, <1>8, AliveAppended
<1>10. \A p \in Providers : sessions'[p] \in {0, sessions[p]} BY <1>1
<1> QED BY <1>1, <1>4, <1>5, <1>9, <1>10, StopKept

LEMMA StopByCompleteOther ==
  ASSUME Typed, StopInvariant, NEW c \in DOMAIN contexts,
    NEW state \in {"completed", "failed", "interrupted"}, NEW full \in BOOLEAN,
    NEW turn \in contexts[c].others, CompleteOther(c, turn, state, full)
  PROVE StopInvariant'
<1> DEFINE S == EventsOf(Turns)
           event == [Completed("codex", turn, state) EXCEPT !.full = full]
           events == << event >>
           new == [contexts[c] EXCEPT !.turn = NoTurn, !.others = TurnsOf(c) \ {turn}]
<1>1. /\ UNCHANGED <<thread, job, directory, sessions, ingesting>>
      /\ history' = [history EXCEPT !.ended = @ \cup {turn}]
      /\ contexts' = [contexts EXCEPT ![c] = new]
 BY DEF CompleteOther, worker
<1>2. contexts[c] \in ContextsOf(Turns, N) BY ContextsAre DEF Typed
<1>3. new.provider = contexts[c].provider BY <1>2 DEF ContextsOf
<1> HIDE DEF new
<1>4. /\ DOMAIN contexts' = DOMAIN contexts
      /\ \A d \in DOMAIN contexts : contexts'[d].provider = contexts[d].provider
 BY <1>1, <1>3
<1>5. UNCHANGED history.tried /\ UNCHANGED history.passed BY <1>1 DEF Typed, HistoryTyped
<1>6. event \in S /\ ~Exits(event) /\ runtime' = runtime \o events
 <2>1. event \in S /\ runtime' = runtime \o events BY CompleteOtherIs
 <2>2. event.type = "turn.completed" BY DEF Completed, Event
 <2> QED BY <2>1, <2>2 DEF Exits
<1> HIDE DEF event
<1>7. /\ runtime \in Seq(S) /\ events \in Seq(S) /\ \A j \in DOMAIN events : ~Exits(events[j])
 BY <1>6 DEF Typed, RuntimeTyped
<1>8. IsStopped(Session)' => IsStopped(Session) BY <1>1 DEF IsStopped, Session
<1> HIDE DEF S, events
<1>9. Reviving \/ ShownAlive => (Reviving \/ ShownAlive)' BY <1>1, <1>6, <1>7, <1>8, AliveAppended
<1>10. \A p \in Providers : sessions'[p] \in {0, sessions[p]} BY <1>1
<1> QED BY <1>1, <1>4, <1>5, <1>9, <1>10, StopKept

(* A provider that loses its session was tried: with one provider, no other *)
(* session lives.                                                           *)
LEMMA StopByLoss ==
  ASSUME Typed, StopInvariant, NEW c \in DOMAIN contexts, LoseSession(c) PROVE StopInvariant'
<1> DEFINE p == contexts[c].provider
           new == Down(contexts[c])
<1>1. /\ UNCHANGED <<job, directory>> /\ Lose(TurnsOf(c))
      /\ sessions' = [sessions EXCEPT ![p] = 0]
      /\ contexts' = [contexts EXCEPT ![c] = new]
 BY DEF LoseSession, worker
<1>2. contexts[c] \in ContextsOf(Turns, N) BY ContextsAre DEF Typed
<1>3. new.provider = p /\ p \in Providers /\ p \in history.tried
 BY <1>2 DEF ContextsOf, Down, StopInvariant, AllTried
<1> HIDE DEF new, p
<1>4. UNCHANGED history.tried BY <1>1, HistoryIs DEF Typed
<1>5. /\ DOMAIN contexts' = DOMAIN contexts
      /\ \A d \in DOMAIN contexts : contexts'[d].provider = contexts[d].provider
 BY <1>1, <1>3 DEF p
<1>6. sessions'[p] = 0 /\ \A q \in Providers : sessions'[q] \in {0, sessions[q]}
 BY <1>1, <1>3 DEF Typed, AgentsTyped
<1>7. ASSUME OneProvider' PROVE ~Alive'
 <2> SUFFICES ASSUME NEW q \in Providers, sessions'[q] # 0 PROVE FALSE BY DEF Alive
 <2>1. sessions[q] # 0 /\ q # p BY <1>6
 <2>2. \A a, b \in history.tried : a = b BY <1>4, <1>7 DEF OneProvider
 <2> DEFINE tried == history.tried
 <2>3. history.tried \subseteq tried /\ p \in tried /\ \A a, b \in tried : a = b BY <1>3, <2>2
 <2> HIDE DEF tried
 <2> QED BY <2>1, <2>3, OnlyOne DEF StopInvariant
<1>8. AliveIsShown' /\ MarksTheDead' BY <1>7 DEF AliveIsShown, MarksTheDead
<1>9. AllTried' BY <1>1, <1>4, <1>5 DEF AllTried, StopInvariant
<1> QED BY <1>8, <1>9 DEF StopInvariant

LEMMA StopByRestart == ASSUME Typed, StopInvariant, Restart PROVE StopInvariant'
<1>1. /\ UNCHANGED <<directory, history>> /\ job' = None
      /\ sessions' = [p \in Providers |-> 0]
      /\ contexts' = [c \in DOMAIN contexts |-> Down(contexts[c])]
 BY DEF Restart
<1>2. ~Alive' BY <1>1 DEF Alive
<1>3. AliveIsShown' /\ MarksTheDead' BY <1>2 DEF AliveIsShown, MarksTheDead
<1>4. \A c \in DOMAIN contexts : contexts[c] \in ContextsOf(Turns, N) BY ContextsAre DEF Typed
<1>5. /\ DOMAIN contexts' = DOMAIN contexts
      /\ \A c \in DOMAIN contexts : contexts'[c].provider = contexts[c].provider
 BY <1>1, <1>4 DEF ContextsOf, Down
<1>6. AllTried' BY <1>1, <1>5 DEF AllTried, StopInvariant
<1> QED BY <1>3, <1>6 DEF StopInvariant

LEMMA StopNext ==
  ASSUME Typed, StopInvariant, [Next]_vars PROVE StopInvariant'
<1>1. ASSUME NEW c \in DOMAIN contexts, Agent(c) \/ LoseSession(c) PROVE StopInvariant'
 BY <1>1, StopByComplete, StopByCompleteOther, StopByLoss DEF Agent
<1>2. CASE UNCHANGED vars
 <2>1. UNCHANGED <<agents, ingesting, directory, job, history, thread>> BY <1>2 DEF vars, agents
 <2>2. IsStopped(Session)' => IsStopped(Session) BY <2>1 DEF IsStopped, Session
 <2>3. UNCHANGED history.tried /\ UNCHANGED history.passed BY <2>1
 <2> QED BY <2>1, <2>2, <2>3, StopAside
<1> QED BY <1>1, <1>2, StopByUser, StopByReactor, StopByIngestion, StopByRestart DEF Next

LEMMA StopInit == ASSUME Init PROVE StopInvariant
<1>1. ~Alive /\ job = None /\ directory = None /\ DOMAIN contexts = {} BY DEF Init, Alive
<1> QED BY <1>1 DEF StopInvariant, AliveIsShown, MarksTheDead, AllTried

LEMMA StopInvariantIsShown == ASSUME StopInvariant PROVE StoppedIsStopped
<1> SUFFICES ASSUME Settled, SessionStatus = "stopped", ~history.passed, OneProvider, Alive
    PROVE  FALSE
 BY DEF StoppedIsStopped, Alive
<1>1. DOMAIN runtime = {} /\ ingesting = None BY DEF Settled
<1>2. IsStopped(Session) BY DEF SessionStatus, IsStopped
<1> QED BY <1>1, <1>2 DEF StopInvariant, AliveIsShown, Reviving, ShownAlive

--------------------
(* The sessions of a thread are well-formed, and once both workers are done *)
(* the read model is true of them: a turn shown as running is run by a live *)
(* session, unless the server crashed; a session shown as stopped leaves    *)
(* none that the router reaches, unless a stop found nothing to stop or the *)
(* thread changed its provider.  So whatever the two workers read before    *)
(* they wrote, and however the agents go on meanwhile (ensureSession-       *)
(* ForThread, processSessionStopRequested, handleCompaction, the lifecycle  *)
(* part of processRuntimeEvent).                                            *)
SessionsInvariant == Typed /\ TurnsTrue /\ StopInvariant

THEOREM SessionsAreTrue == Spec => []SessionsShown
<1>1. Init => SessionsInvariant BY InitTyped, TurnsInit, StopInit DEF SessionsInvariant
<1>2. SessionsInvariant /\ [Next]_vars => SessionsInvariant'
 BY NextTyped, TurnsNext, StopNext DEF SessionsInvariant
<1>3. SessionsInvariant => SessionsShown
 BY TypedIsTypeOK, TurnsTrueIsShown, StopInvariantIsShown DEF SessionsInvariant, SessionsShown
<1> QED BY <1>1, <1>2, <1>3, PTL DEF Spec

--------------------
(* What the agents remember.                                                *)
\* One request at a time: it is served, ordered, or ingestion will ask for it.
IsWork(intent) == intent.type # "interrupt"
Serving == job # None /\ job.type # "interrupt"
Ordered == \E i \in DOMAIN intents : IsWork(intents[i])
Asks(event) ==
    /\ event.full
    /\ \/ event.type = "runtime.error"
       \/ event.type = "turn.completed" /\ event.state = "completed"
Asking ==
    \/ \E i \in DOMAIN runtime : Asks(runtime[i])
    \/ ingesting # None /\ Asks(ingesting.event)
AllIdle == \A c \in DOMAIN contexts : ~Running(c)

\* The turns of the user that ended.
Ended == history.ended \cap 1..setting.turns

\* A patient user, and nothing that fails.
Serene ==
    /\ setting.patient /\ setting.stops = 0 /\ setting.faults = 0
    /\ setting.compacts + setting.full > 0 => setting.providers = {"claudeCode"}

\* Steps of a request of each type.
Steps ==
    job # None =>
        /\ job.type # "stop"
        /\ job.type = "interrupt" <=> job.step = "route"
        /\ job.step \in {"stop", "mark", "ready", "clear"} => job.type = "compact"
        /\ job.step = "send" => job.type # "mode"
        /\ job.step = "start" => (job.start.then = "ready" => job.type = "compact")
        /\ job.step = "bind" => job.start.then = "bind"
        /\ job.step \in {"ready", "clear"} => job.start.then = "ready"
        /\ job.type = "turn" => job.provider \in setting.providers /\ job.turn \in 1..spent.turns
        /\ job.type # "turn" => job.provider = None

Orders ==
    \A i \in DOMAIN intents :
        /\ intents[i].type # "stop"
        /\ intents[i].type = "turn" =>
              intents[i].provider \in setting.providers /\ intents[i].turn \in 1..spent.turns

\* Nothing runs while there is a request, of which there is one at most.
Calm ==
    /\ Steps /\ Orders
    /\ Serving \/ Ordered \/ Asking => AllIdle
    /\ Serving => ~Ordered /\ ~Asking
    /\ Ordered => ~Asking
    /\ \A i, j \in DOMAIN intents : IsWork(intents[i]) /\ IsWork(intents[j]) => i = j
    /\ \A i, j \in DOMAIN runtime : Asks(runtime[i]) /\ Asks(runtime[j]) => i = j
    /\ ingesting # None /\ Asks(ingesting.event) => \A i \in DOMAIN runtime : ~Asks(runtime[i])
    /\ \A c, d \in DOMAIN contexts : Running(c) /\ Running(d) => c = d

\* No turns run beside each other.
Single == \A c \in DOMAIN contexts : contexts[c].others = {}

\* Without compactions.  p is the only provider.
Plainly(p) ==
    /\ Serene /\ setting.providers = {p} /\ setting.compacts = 0 /\ setting.full = 0
    /\ p = "claudeCode" => setting.restarts = 0

\* A cursor from which a session remembers everything that ended.
Carries(p, cursor) ==
    Ended = {} \/ (cursor # None /\ cursor.provider = p /\ Ended \subseteq Recalled(p, cursor))

\* A session that the thread may show.
Shows(p, session) ==
    session # NoSession => session.provider = p /\ session.status # "stopped"
IsUsage(event) == event.type = "thread.token-usage.updated"

PlainRequests(p) ==
    /\ \A i \in DOMAIN intents : intents[i].type # "compact"
    /\ job # None =>
          /\ job.type # "compact" /\ (job.type = "mode" => Session # NoSession)
          /\ job.step \in {"start", "bind"} => job.start.provider = p
          /\ job.step = "start" => Carries(p, job.start.cursor)
          /\ job.step = "send" => Session # NoSession

PlainSessions(p) ==
    /\ Shows(p, Session)
    /\ ingesting # None => /\ Shows(p, ingesting.session)
                           /\ ~Exits(ingesting.event) /\ ingesting.event.provider = p
                           /\ ~Asks(ingesting.event)
                           /\ IsUsage(ingesting.event) => ingesting.session # NoSession
    /\ \A i \in DOMAIN runtime : /\ ~Exits(runtime[i]) /\ runtime[i].provider = p
                                 /\ IsUsage(runtime[i]) => Session # NoSession
                                 /\ ~Asks(runtime[i])
    /\ Session = NoSession => Ended = {} /\ AllIdle

PlainContexts(p) ==
    /\ \A q \in Providers : sessions[q] # 0 => q = p
    /\ \A c \in DOMAIN contexts : contexts[c].provider = p
    /\ directory # None => directory.provider = p
    /\ \A c \in DOMAIN contexts : Running(c) => c = sessions[p]
    /\ sessions[p] # 0 =>
          LET context == contexts[sessions[p]]
          IN  /\ directory # None
              /\ Carries(p, context.cursor) /\ Ended \subseteq conversations[context.conversation]
              /\ context.cursor.provider = p
              /\ p = "codex" => /\ context.cursor.conversation = context.conversation
                                /\ directory.cursor.conversation = context.conversation
                                /\ directory.cursor.provider = p
    /\ p = "codex" => Ended = {} \/ (directory # None /\ Carries(p, directory.cursor))
    /\ p = "claudeCode" => Ended = {} \/ sessions[p] # 0

Plain(p) == PlainRequests(p) /\ PlainSessions(p) /\ PlainContexts(p)

\* With a single compaction, which a context that is nearly full may ask for,
\* and an ingestion that keeps up.
Promptly ==
    /\ Serene /\ setting.providers = {"claudeCode"} /\ setting.prompt
    /\ setting.modes = 0 /\ setting.restarts = 0 /\ setting.compacts + setting.full <= 1

\* A mode that nobody changes.
PromptModes ==
    /\ thread.mode = "full-access" /\ (Session # NoSession => Session.mode = "full-access")
    /\ ingesting # None /\ ingesting.session # NoSession => ingesting.session.mode = "full-access"
    /\ \A i \in DOMAIN intents : intents[i].type # "mode"
    /\ job # None =>
          /\ job.type # "mode"
          /\ job.read.mode = "full-access"
          /\ job.read.session # NoSession => job.read.session.mode = "full-access"
          /\ job.step \in {"start", "bind", "ready"} => job.start.mode = "full-access"

\* The compaction is still to come, or has not cleared the messages yet.
ToCompact ==
    \/ spent.compacts + spent.full = 0
    \/ Asking
    \/ \E i \in DOMAIN intents : intents[i].type = "compact"
    \/ job # None /\ job.type = "compact" /\ job.step \in {"stop", "mark"}

\* The compaction is on its way.
Compacting ==
    \/ Asking
    \/ \E i \in DOMAIN intents : intents[i].type = "compact"
    \/ job # None /\ job.type = "compact"

PromptRequests ==
    /\ Ended \subseteq 1..spent.turns
    /\ \A c \in DOMAIN contexts :
          Running(c) => contexts[c].turn \in 1..spent.turns \/ contexts[c].turn > setting.turns
    /\ ToCompact => thread.messages = 1..spent.turns
    /\ Compacting => spent.compacts + spent.full = 1
    /\ job # None /\ job.type = "compact" /\ job.step \in {"ensure", "send"} =>
            job.turn > setting.turns

\* Events that leave a session of p shown.
Lively(p, event) == ~Exits(event) /\ event.provider = p
LivelyEvents(p) ==
    /\ \A i \in DOMAIN runtime : Lively(p, runtime[i])
    /\ ingesting # None => Lively(p, ingesting.event)

\* The session that the router would reach.
Bound(p) ==
    /\ directory # None /\ directory.provider = p
    /\ sessions[p] # 0 /\ contexts[sessions[p]].up
    /\ Ended \subseteq Memory(sessions[p])
    /\ LivelyEvents(p)

\* Nothing has started; or the thread shows the session that the router would reach.
Untouched ==
    /\ directory = None /\ Session = NoSession /\ runtime = << >> /\ ingesting = None
    /\ Ended = {} /\ AllIdle
Showing(p, session) == session # NoSession /\ Shows(p, session)
Attached(p) ==
    /\ Bound(p) /\ Showing(p, Session)
    /\ ingesting # None => Showing(p, ingesting.session)
Grounded == Untouched \/ \E p \in Providers : Attached(p)

\* A request that is not in the middle of replacing the session.
Steady ==
    \/ job = None
    \/ job.step \in {"ensure", "send", "route", "clear"}
    \/ job.step = "start" /\ job.start.then = "bind"
    \/ job.step = "stop"

PromptJob ==
    job # None =>
        /\ job.step \in {"send", "clear"} \/ (job.step = "ensure" /\ job.type = "compact") =>
              directory # None
        /\ job.step = "send" /\ job.type = "turn" => directory.provider = "claudeCode"
        /\ job.step = "start" /\ job.start.then = "bind" =>
              job.start.provider = "claudeCode" /\ Ended = {} /\ job.type = "turn"
        /\ job.step = "bind" => Bound(job.start.provider) /\ job.type = "turn"
              /\ job.start.provider = "claudeCode"
        /\ job.step = "ready" => Bound(job.start.provider)
        /\ job.step = "stop" =>
              /\ job.read.messages = 1..spent.turns
              /\ directory # None => Showing(directory.provider, job.read.session)
        /\ job.step = "mark" =>
              /\ directory = None /\ Ended \subseteq job.read.messages
              /\ Ended # {} => Showing("claudeCode", job.read.session)
        /\ job.step = "start" /\ job.start.then = "ready" =>
              /\ directory = None /\ Ended \subseteq job.start.prompt
              /\ Ended # {} => job.start.provider = "claudeCode"

\* The turns of the user are Claude's.
PromptTurns ==
    /\ \A c \in DOMAIN contexts :
          Running(c) => directory # None /\ c = sessions[directory.provider]
    /\ directory # None /\ directory.provider = "codex" =>
          /\ Ended = {}
          /\ \A c \in DOMAIN contexts : Running(c) => contexts[c].turn > setting.turns

Prompt == PromptModes /\ PromptRequests /\ PromptJob /\ PromptTurns /\ (Steady => Grounded)

--------------------
(* What is not None.                                                        *)
LEMMA TurnsAreIds ==
  ASSUME BoundsTyped, AgentsTyped PROVE Turns \subseteq TurnIds /\ setting.turns \in Nat
<1>1. \A s \in Settings : s["turns"] \in Nat BY SessionsAssumption DEF Requests
<1>2. DOMAIN contexts \subseteq Nat BY ContextsAre
<1> QED BY <1>1, <1>2 DEF Turns, TurnIds, BoundsTyped, FirstAcknowledgement

LEMMA TurnsAreIdsThen ==
  ASSUME BoundsTyped', AgentsTyped' PROVE Turns' \subseteq TurnIds
<1>1. \A s \in Settings : s["turns"] \in Nat BY SessionsAssumption DEF Requests
<1>2. DOMAIN contexts' \subseteq Nat
 <2>1. DOMAIN contexts' = 1..Len(contexts') /\ Len(contexts') \in Nat BY DEF AgentsTyped
 <2> QED BY <2>1
<1> QED BY <1>1, <1>2 DEF Turns, TurnIds, BoundsTyped, FirstAcknowledgement

LEMMA RecordsAreSomething ==
  ASSUME NEW T, T \subseteq TurnIds, NEW n \in Nat
  PROVE /\ \A x \in JobsOf(T, n) : x # None
        /\ \A x \in BindingsOf(T, n) : x # None
        /\ \A x \in CursorsOf(T, n) : x # None
        /\ \A x \in SessionsOf(T) : x # NoSession
        /\ \A p \in Providers : p # None
<1>1. CursorsOf(T, n) \subseteq Cursors BY DEF CursorsOf, Cursors
<1>2. BindingsOf(T, n) \subseteq Bindings BY <1>1 DEF BindingsOf, Bindings
<1>3. SessionsOf(T) \subseteq ShownSessions BY DEF SessionsOf, ShownSessions
<1>4. StartsOf(T, n) \subseteq [provider : Providers, mode : Modes, cursor : {None} \cup Cursors,
                                prompt : SUBSET TurnIds, then : {"bind", "ready"}]
 BY <1>1 DEF StartsOf
<1>5. ReadsOf(T) \subseteq [session : ModelSessions, mode : Modes, messages : SUBSET TurnIds]
 BY <1>3 DEF ReadsOf, ModelSessions
<1>6. JobsOf(T, n) \subseteq Jobs BY <1>4, <1>5 DEF JobsOf, Jobs
<1> QED BY <1>1, <1>2, <1>3, <1>6, NoneAssumption, NullAssumption

LEMMA SereneIs ==
  ASSUME Typed, Serene PROVE ~Spend("faults") /\ ~Spend("stops")
BY DEF Typed, BoundsTyped, Serene, Spend, Requests

(* A provider starts a session: the only way, as long as nothing fails.     *)
Begins(p, mode, cursor, prompt) ==
    /\ Len(contexts) \in Nat /\ Len(contexts') = Len(contexts) + 1
    /\ DOMAIN contexts = 1..Len(contexts) /\ DOMAIN contexts' = 1..Len(contexts) + 1
    /\ \A c \in DOMAIN contexts : contexts'[c] = contexts[c]
    /\ sessions' = [sessions EXCEPT ![p] = Len(contexts) + 1]
    /\ runtime' = runtime \o StartEvents(p)
    /\ \A k \in 1..N : k \in 1..N' /\ conversations'[k] = conversations[k]
    /\ directory' # None /\ directory'.provider = p
    /\ LET new == contexts'[Len(contexts) + 1]
       IN  /\ new.provider = p /\ new.turn = NoTurn /\ new.others = {} /\ new.up
           /\ directory'.cursor = new.cursor
           /\ new.prompt = IF p = "claudeCode" THEN prompt ELSE {}
           /\ conversations'[new.conversation] = Recalled(p, cursor)
           /\ new.cursor \in CursorsOf(Turns', N')
           /\ p = "codex" => new.cursor.conversation = new.conversation
           /\ new.cursor.provider = p
           /\ p = "claudeCode" /\ cursor # None /\ cursor.provider = p => new.cursor = cursor

LEMMA StartAndBindIs ==
  ASSUME Typed, Typed', UNCHANGED setting, NEW p \in Providers, NEW mode \in Modes,
    NEW cursor \in {None} \cup CursorsOf(Turns, N), NEW prompt \in SUBSET Turns,
    NEW kept \in SUBSET Turns, StartAndBind(p, mode, cursor, prompt, kept)
  PROVE Begins(p, mode, cursor, prompt)
<1> DEFINE resumes == p = "codex" /\ cursor # None /\ cursor.provider = p
           conversation == IF resumes THEN cursor.conversation ELSE Len(conversations) + 1
           own == [provider |-> p, conversation |-> conversation, at |-> {}]
           first == CASE p = "codex" -> own
                      [] p # "codex" /\ cursor # None /\ cursor.provider = p -> cursor
                      [] OTHER -> Blank
           context == [provider |-> p, mode |-> mode, turn |-> NoTurn, others |-> {},
                       conversation |-> conversation, cursor |-> first,
                       prompt |-> IF p = "claudeCode" THEN prompt ELSE {},
                       interrupted |-> FALSE, up |-> TRUE]
<1>1. /\ conversations' = IF resumes THEN conversations
                          ELSE Append(conversations, Recalled(p, cursor))
      /\ contexts' = Append(contexts, context)
      /\ sessions' = [sessions EXCEPT ![p] = Len(contexts')]
      /\ runtime' = runtime \o StartEvents(p)
 BY DEF StartAndBind, StartSession, StartEvents
<1>2. /\ AgentsTyped' /\ Len(contexts') = Len(contexts) + 1 /\ Len(contexts) \in Nat
      /\ contexts'[Len(contexts')].cursor \in CursorsOf(Turns', N')
      /\ \A c \in DOMAIN contexts : contexts'[c] = contexts[c]
 BY StartSessionIs DEF StartAndBind, Typed
<1>3. DOMAIN contexts = 1..Len(contexts) /\ DOMAIN contexts' = 1..Len(contexts) + 1
 BY <1>2, ContextsAre DEF AgentsTyped, Typed
<1>4. contexts'[Len(contexts) + 1] = context
 BY <1>1, <1>2, <1>3, AppendProperties DEF AgentsTyped, Typed
<1>5. /\ N \in Nat /\ conversation \in 1..N'
      /\ \A k \in 1..N : k \in 1..N' /\ conversations'[k] = conversations[k]
      /\ conversations'[conversation] = Recalled(p, cursor)
 <2>0. N \in Nat /\ conversations \in Seq(SUBSET Turns) /\ Recalled(p, cursor) \in SUBSET Turns
  BY RecalledIs, ContextsAre DEF Typed, AgentsTyped
 <2>1. CASE resumes
  <3>1. cursor.conversation \in 1..N BY <2>0, <2>1 DEF CursorsOf
  <3> QED BY <1>1, <2>0, <2>1, <3>1 DEF N, Recalled
 <2>2. CASE ~resumes
  <3>1. conversations' = Append(conversations, Recalled(p, cursor)) /\ conversation = N + 1
   BY <1>1, <2>2 DEF N
  <3>2. /\ N' = N + 1 /\ conversations'[N + 1] = Recalled(p, cursor)
        /\ \A k \in 1..N : conversations'[k] = conversations[k]
   BY <2>0, <3>1, AppendProperties DEF N
  <3> HIDE DEF resumes, conversation
  <3> QED BY <2>0, <3>1, <3>2 DEF N
 <2> QED BY <2>1, <2>2
<1>6. /\ context.provider = p /\ context.turn = NoTurn /\ context.others = {} /\ context.up
      /\ context.conversation = conversation /\ context.cursor = first
      /\ context.prompt = IF p = "claudeCode" THEN prompt ELSE {}
 OBVIOUS
<1>7. /\ p = "codex" => first.conversation = conversation
      /\ first.provider = p
      /\ p = "claudeCode" /\ cursor # None /\ cursor.provider = p => first = cursor
 BY DEF Providers, Blank
<1>8. directory' # None /\ directory'.provider = p
      /\ directory'.cursor = contexts'[Len(contexts) + 1].cursor
 <2>1. directory' = [provider |-> p, mode |-> mode, cursor |-> contexts'[Len(contexts')].cursor,
                     prompt |-> kept]
  BY DEF StartAndBind, Upsert
 <2>2. kept \in SUBSET Turns' BY StartSessionIs DEF StartAndBind, Typed, Grown
 <2>3. directory' \in BindingsOf(Turns', N') BY <1>2, <2>1, <2>2 DEF BindingsOf
 <2>4. Turns' \subseteq TurnIds /\ N' \in Nat BY TurnsAreIdsThen, <1>5 DEF Typed, AgentsTyped, N
 <2> QED BY <1>2, <2>1, <2>3, <2>4, RecordsAreSomething
<1> HIDE DEF context, first, conversation
<1> QED BY <1>1, <1>2, <1>3, <1>4, <1>5, <1>6, <1>7, <1>8 DEF Begins

LEMMA StartIs ==
  ASSUME Typed, Typed', Serene, Start
  PROVE /\ job # None /\ job.step = "start" /\ job.start \in StartsOf(Turns, N)
        /\ Begins(job.start.provider, job.start.mode, job.start.cursor, job.start.prompt)
        /\ job' = [job EXCEPT !.step = job.start.then] /\ job' # None
        /\ job'.step = job.start.then /\ job'.type = job.type /\ job'.start = job.start
        /\ job'.read = job.read /\ job'.turn = job.turn /\ job'.provider = job.provider
        /\ UNCHANGED <<thread, intents, setting, ingesting, spent>>
        /\ history' = [history EXCEPT !.tried = @ \cup {job.start.provider}, !.passed = FALSE]
<1> DEFINE s == job.start
           kept == IF s.then = "ready" THEN s.prompt ELSE Payload
<1>1. /\ job # None /\ job.step = "start" /\ UNCHANGED <<thread, intents, setting, ingesting>>
 BY DEF Start, NoDispatch, Aside
<1>2. s \in StartsOf(Turns, N) /\ job \in JobsOf(Turns, N) BY <1>1 DEF Typed, JobTyped
<1>3. /\ s.provider \in Providers /\ s.mode \in Modes /\ s.prompt \in SUBSET Turns
      /\ s.cursor \in {None} \cup CursorsOf(Turns, N) /\ s.then \in {"bind", "ready"}
 BY <1>2 DEF StartsOf
<1>4. kept \in SUBSET Turns BY <1>3, DirectoryIs DEF Typed, Payload
<1>5. /\ StartAndBind(s.provider, s.mode, s.cursor, s.prompt, kept)
      /\ NextJob(s.then) /\ Tries(s.provider) /\ UNCHANGED <<breaker, spent>>
 BY SereneIs DEF Start, StartFails
<1> HIDE DEF s, kept
<1>6. Begins(s.provider, s.mode, s.cursor, s.prompt) BY <1>1, <1>3, <1>4, <1>5, StartAndBindIs
<1>7. /\ job' = [job EXCEPT !.step = s.then] /\ job' \in JobsOf(Turns, N)
      /\ job'.step = s.then /\ job'.type = job.type /\ job'.start = job.start
      /\ job'.read = job.read /\ job'.turn = job.turn /\ job'.provider = job.provider
 BY <1>2, <1>3, <1>5 DEF NextJob, JobsOf
<1>8. job' # None BY <1>7, TurnsAreIds, RecordsAreSomething, ContextsAre DEF Typed
<1> QED BY <1>1, <1>2, <1>5, <1>6, <1>7, <1>8 DEF s, Tries

LEMMA RecoverIs ==
  ASSUME Typed, Typed', Serene, Recover, UNCHANGED setting, job # None
  PROVE /\ directory # None /\ ~Routed /\ directory \in BindingsOf(Turns, N)
        /\ Begins(directory.provider, directory.mode, directory.cursor, directory.prompt)
        /\ job' = [job EXCEPT !.recovered = TRUE]
        /\ job'.step = job.step /\ job'.type = job.type /\ job'.start = job.start
        /\ job'.read = job.read /\ job'.turn = job.turn /\ job'.provider = job.provider
        /\ UNCHANGED spent
        /\ history' = [history EXCEPT !.tried = @ \cup {directory.provider}, !.passed = FALSE]
<1>1. directory # None /\ ~Routed BY DEF Recover
<1>2. /\ directory.provider \in Providers /\ directory.mode \in Modes
      /\ directory.cursor \in CursorsOf(Turns, N) /\ directory.prompt \in SUBSET Turns
      /\ directory \in BindingsOf(Turns, N)
 BY <1>1, DirectoryIs DEF Typed
<1>3. Payload \in SUBSET Turns BY <1>1, <1>2 DEF Payload
<1>4. /\ StartAndBind(directory.provider, directory.mode, directory.cursor,
                      directory.prompt, Payload)
      /\ job' = [job EXCEPT !.recovered = TRUE] /\ Tries(directory.provider)
      /\ UNCHANGED <<breaker, spent>>
 BY SereneIs DEF Recover, StartFails
<1>5. Begins(directory.provider, directory.mode, directory.cursor, directory.prompt)
 BY <1>2, <1>3, <1>4, StartAndBindIs
<1>6. job \in JobsOf(Turns, N) BY DEF Typed, JobTyped
<1>7. /\ job'.step = job.step /\ job'.type = job.type /\ job'.start = job.start
      /\ job'.read = job.read /\ job'.turn = job.turn /\ job'.provider = job.provider
 BY <1>4, <1>6 DEF JobsOf
<1> QED BY <1>1, <1>2, <1>4, <1>5, <1>7 DEF Tries

--------------------
(* One request at a time.                                                   *)

(* A step that adds no request and lets nothing run.                        *)
LEMMA CalmKept ==
  ASSUME Calm, Steps', UNCHANGED <<setting, intents, ingesting>>,
    spent'.turns = spent.turns,
    NEW S, runtime \in Seq(S), NEW events \in Seq(S), runtime' = runtime \o events,
    \A i \in DOMAIN events : ~Asks(events[i]),
    Serving' => Serving,
    \A c \in DOMAIN contexts' : Running(c)' => c \in DOMAIN contexts /\ Running(c)
  PROVE Calm'
<1>1. /\ \A i \in DOMAIN runtime : i \in DOMAIN runtime' /\ runtime'[i] = runtime[i]
      /\ \A i \in DOMAIN runtime' : Asks(runtime'[i]) => i \in DOMAIN runtime /\ Asks(runtime[i])
 <2>1. /\ DOMAIN runtime = 1..Len(runtime) /\ DOMAIN runtime' = 1..Len(runtime) + Len(events)
       /\ Len(runtime) \in Nat /\ Len(events) \in Nat
       /\ \A i \in DOMAIN runtime : runtime'[i] = runtime[i]
       /\ \A j \in DOMAIN events : runtime'[Len(runtime) + j] = events[j]
       /\ \A i \in DOMAIN runtime' : i \in DOMAIN runtime \/ i - Len(runtime) \in DOMAIN events
  BY ConcatIs
 <2>2. \A i \in DOMAIN runtime' : i - Len(runtime) \in DOMAIN events => ~Asks(runtime'[i])
  <3> SUFFICES ASSUME NEW i \in DOMAIN runtime', i - Len(runtime) \in DOMAIN events
      PROVE  ~Asks(runtime'[i])
   OBVIOUS
  <3>1. Len(runtime) + (i - Len(runtime)) = i BY <2>1
  <3> QED BY <2>1, <3>1
 <2>3. \A i \in DOMAIN runtime : i \in DOMAIN runtime' BY <2>1
 <2> QED BY <2>1, <2>2, <2>3
<1>2. Asking' => Asking BY <1>1 DEF Asking
<1>3. Ordered' <=> Ordered BY DEF Ordered
<1>4. AllIdle => AllIdle' BY DEF AllIdle
<1>5. Orders' BY DEF Calm, Orders
<1>6. /\ Serving' \/ Ordered' \/ Asking' => AllIdle'
      /\ Serving' => ~Ordered' /\ ~Asking'
      /\ Ordered' => ~Asking'
 BY <1>2, <1>3, <1>4 DEF Calm
<1>7. \A i, j \in DOMAIN runtime' : Asks(runtime'[i]) /\ Asks(runtime'[j]) => i = j
 BY <1>1 DEF Calm
<1>8. ingesting' # None /\ Asks(ingesting'.event) => \A i \in DOMAIN runtime' : ~Asks(runtime'[i])
 BY <1>1 DEF Calm
<1>9. \A c, d \in DOMAIN contexts' : Running(c)' /\ Running(d)' => c = d BY DEF Calm
<1>10. \A i, j \in DOMAIN intents' : IsWork(intents'[i]) /\ IsWork(intents'[j]) => i = j
 BY DEF Calm
<1> QED BY <1>5, <1>6, <1>7, <1>8, <1>9, <1>10 DEF Calm

(* The same, of a step that adds no event.                                  *)
LEMMA CalmQuiet ==
  ASSUME Typed, Calm, Steps', UNCHANGED <<setting, intents, ingesting, runtime>>,
    spent'.turns = spent.turns, Serving' => Serving,
    \A c \in DOMAIN contexts' : Running(c)' => c \in DOMAIN contexts /\ Running(c)
  PROVE Calm'
<1> DEFINE S == EventsOf(Turns)
<1>1. runtime \in Seq(S) /\ << >> \in Seq(S) /\ DOMAIN << >> = {} BY DEF Typed, RuntimeTyped
<1>2. runtime' = runtime \o << >> BY <1>1
<1> HIDE DEF S
<1> QED BY <1>1, <1>2, CalmKept

LEMMA StartAsksNothing ==
  ASSUME NEW p \in Providers
  PROVE /\ \A i \in DOMAIN StartEvents(p) : ~Asks(StartEvents(p)[i])
        /\ \A i \in DOMAIN StartEvents(p) : Lively(p, StartEvents(p)[i])
        /\ \A i \in DOMAIN StartEvents(p) : ~IsUsage(StartEvents(p)[i])
<1>1. \A e \in {StateChanged(p, "starting"), StateChanged(p, "ready"),
                Event("session.started", p, NoTurn)} : ~Asks(e) /\ Lively(p, e) /\ ~IsUsage(e)
 <2>1. ASSUME NEW e, e.type \in {"session.started", "session.state.changed"}, e.provider = p
     PROVE  ~Asks(e) /\ Lively(p, e) /\ ~IsUsage(e)
  BY <2>1 DEF Asks, Lively, Exits, IsUsage
 <2>2. /\ \A state : /\ StateChanged(p, state).type = "session.state.changed"
                     /\ StateChanged(p, state).provider = p
       /\ Event("session.started", p, NoTurn).type = "session.started"
       /\ Event("session.started", p, NoTurn).provider = p
  BY DEF StateChanged, Event
 <2> QED BY <2>1, <2>2
<1>2. /\ DOMAIN StartEvents(p) = {1, 2}
      /\ StartEvents(p)[1] \in {StateChanged(p, "starting"), Event("session.started", p, NoTurn)}
      /\ StartEvents(p)[2] = StateChanged(p, "ready")
 BY DEF StartEvents
<1> QED BY <1>1, <1>2

LEMMA CalmBegins ==
  ASSUME Typed, Typed', Calm, Steps', UNCHANGED <<setting, intents, ingesting, spent>>,
    NEW p \in Providers, NEW mode, NEW cursor, NEW prompt, Begins(p, mode, cursor, prompt),
    Serving' => Serving
  PROVE Calm'
<1> DEFINE S == EventsOf(Turns)
<1>1. StartEvents(p) \in Seq(S) /\ runtime \in Seq(S) /\ runtime' = runtime \o StartEvents(p)
 BY StartAnnounces DEF Turns, Begins, Typed, RuntimeTyped
<1>2. \A c \in DOMAIN contexts' : Running(c)' => c \in DOMAIN contexts /\ Running(c)
 <2>1. \A c \in DOMAIN contexts' : c \in DOMAIN contexts \/ c = Len(contexts) + 1 BY DEF Begins
 <2>2. \A c \in DOMAIN contexts' : c = Len(contexts) + 1 => ~Running(c)' BY DEF Begins, Running
 <2>3. \A c \in DOMAIN contexts : Running(c)' => Running(c) BY DEF Begins, Running
 <2> QED BY <2>1, <2>2, <2>3
<1> HIDE DEF S
<1> QED BY <1>1, <1>2, StartAsksNothing, CalmKept

LEMMA CalmByStart == ASSUME Typed, Typed', Serene, Calm, Start PROVE Calm'
<1>1. job' # None /\ job'.step = job.start.then /\ job'.type = job.type /\ job'.start = job.start
      /\ job'.turn = job.turn /\ job'.provider = job.provider /\ job # None /\ job.step = "start"
      /\ UNCHANGED <<intents, setting, ingesting, spent>>
      /\ job.start \in StartsOf(Turns, N)
      /\ Begins(job.start.provider, job.start.mode, job.start.cursor, job.start.prompt)
 BY StartIs
<1>2. job.start.then \in {"bind", "ready"} /\ job.start.provider \in Providers
 BY <1>1 DEF StartsOf
<1>3. Steps' BY <1>1, <1>2 DEF Calm, Steps
<1>4. Serving' => Serving BY <1>1 DEF Serving
<1> QED BY <1>1, <1>2, <1>3, <1>4, CalmBegins

LEMMA CalmByRecover ==
  ASSUME Typed, Typed', Serene, Calm, Recover, job # None,
    UNCHANGED <<setting, intents, ingesting>>
  PROVE Calm'
<1>1. /\ job'.step = job.step /\ job'.type = job.type /\ job'.start = job.start
      /\ job'.turn = job.turn /\ job'.provider = job.provider
      /\ directory \in BindingsOf(Turns, N) /\ UNCHANGED spent
      /\ Begins(directory.provider, directory.mode, directory.cursor, directory.prompt)
 BY RecoverIs
<1>2. directory.provider \in Providers BY <1>1 DEF BindingsOf
<1>3. Steps' BY <1>1 DEF Calm, Steps
<1>4. Serving' => Serving BY <1>1 DEF Serving
<1> QED BY <1>1, <1>2, <1>3, <1>4, CalmBegins

(* The end of a request.                                                    *)
LEMMA Ends == ASSUME \/ Fail \/ Succeed \/ (\E t : SucceedForgetting(t)) PROVE job' = None /\ Steps'
BY DEF Fail, FailTrying, Succeed, SucceedForgetting, Steps

LEMMA NextStep ==
  ASSUME Typed, job # None, NEW step, NextJob(step)
  PROVE /\ job'.step = step /\ job'.type = job.type /\ job'.start = job.start
        /\ job'.read = job.read /\ job'.turn = job.turn /\ job'.provider = job.provider
BY DEF Typed, JobTyped, JobsOf, NextJob

LEMMA JobExcept ==
  ASSUME Typed, job # None, NEW step, NEW start, job' = [job EXCEPT !.step = step, !.start = start]
  PROVE /\ job'.step = step /\ job'.type = job.type /\ job'.start = start
        /\ job'.read = job.read /\ job'.turn = job.turn /\ job'.provider = job.provider
BY DEF Typed, JobTyped, JobsOf

(* Steps that only the read model and the job see.                          *)
LEMMA CalmByQuiet ==
  ASSUME Typed, Typed', Serene, Calm, Ensure \/ Bind \/ Mark \/ MarkReady \/ Clear PROVE Calm'
<1>1. /\ job # None /\ UNCHANGED <<setting, intents, ingesting, runtime, contexts, spent>>
      /\ job.step \in {"ensure", "bind", "mark", "ready", "clear"}
 BY DEF Ensure, Bind, Mark, MarkReady, Clear, NoDispatch, NoAgent, Aside, agents
<1>2. Steps /\ job.type # "interrupt" BY <1>1 DEF Calm, Steps
<1>3. CASE job' = None BY <1>1, <1>3, CalmQuiet DEF Steps, Serving, Running
<1>4. CASE job' # None
 <2>1. Steps' /\ job'.type = job.type
  <3>1. CASE Ensure
   <4>1. \/ NextJob("send") /\ job.type # "mode"
         \/ \E start : start.then = "bind" /\ job' = [job EXCEPT !.step = "start", !.start = start]
    BY <1>4, <3>1, Ends DEF Ensure, AfterEnsure
   <4>2. CASE NextJob("send") /\ job.type # "mode" BY <1>1, <1>2, <4>2, NextStep DEF Steps
   <4>3. ASSUME NEW start, start.then = "bind",
                job' = [job EXCEPT !.step = "start", !.start = start]
       PROVE  Steps' /\ job'.type = job.type
    <5>1. /\ job'.step = "start" /\ job'.type = job.type /\ job'.start = start
          /\ job'.turn = job.turn /\ job'.provider = job.provider
     BY <1>1, <4>3, JobExcept
    <5> QED BY <1>1, <1>2, <3>1, <4>3, <5>1 DEF Steps, Ensure
   <4> QED BY <4>1, <4>2, <4>3
  <3>2. CASE Bind
   <4>1. NextJob("send") /\ job.type # "mode" BY <1>4, <3>2, Ends DEF Bind, AfterEnsure
   <4> QED BY <1>1, <1>2, <4>1, NextStep DEF Steps
  <3>3. CASE Mark
   <4>1. \E start : start.then = "ready" /\ job' = [job EXCEPT !.step = "start", !.start = start]
    BY <1>4, <3>3, Ends DEF Mark
   <4>2. PICK start : start.then = "ready" /\ job' = [job EXCEPT !.step = "start", !.start = start]
    BY <4>1
   <4>3. /\ job'.step = "start" /\ job'.type = job.type /\ job'.start = start
         /\ job'.turn = job.turn /\ job'.provider = job.provider
    BY <1>1, <4>2, JobExcept
   <4>4. job.step = "mark" BY <3>3 DEF Mark
   <4> QED BY <1>1, <1>2, <4>2, <4>3, <4>4 DEF Steps
  <3>4. CASE MarkReady
   <4>1. NextJob("clear") /\ job.step = "ready" BY <3>4 DEF MarkReady
   <4> QED BY <1>1, <1>2, <4>1, NextStep DEF Steps
  <3>5. CASE Clear
   <4>1. /\ job.step = "clear"
         /\ job' = [job EXCEPT !.step = "ensure", !.turn = FirstAcknowledgement + Len(contexts)]
    BY <3>5 DEF Clear
   <4>2. /\ job'.step = "ensure" /\ job'.type = job.type /\ job'.provider = job.provider
    BY <1>1, <4>1 DEF Typed, JobTyped, JobsOf
   <4> QED BY <1>1, <1>2, <4>1, <4>2 DEF Steps
  <3> QED BY <3>1, <3>2, <3>3, <3>4, <3>5
 <2>2. Serving' => Serving BY <1>1, <2>1 DEF Serving
 <2>3. \A c \in DOMAIN contexts' : Running(c)' => c \in DOMAIN contexts /\ Running(c)
  BY <1>1 DEF Running
 <2> QED BY <1>1, <2>1, <2>2, <2>3, CalmQuiet
<1> QED BY <1>3, <1>4

LEMMA SpendIs ==
  ASSUME Typed, NEW what \in Requests, Spend(what)
  PROVE /\ spent[what] \in Nat /\ spent'[what] = spent[what] + 1
        /\ \A r \in Requests : r # what => spent'[r] = spent[r]
        /\ spent[what] < setting[what]
BY DEF Typed, BoundsTyped, Spend

(* A step after which nothing is asked for.                                 *)
LEMMA CalmRests ==
  ASSUME Steps', Orders', ~Serving', ~Ordered', ~Asking',
    \A c, d \in DOMAIN contexts' : Running(c)' /\ Running(d)' => c = d
  PROVE Calm'
<1>1. \A i, j \in DOMAIN intents' : IsWork(intents'[i]) /\ IsWork(intents'[j]) => i = j
 BY DEF Ordered
<1>2. /\ \A i \in DOMAIN runtime' : ~Asks(runtime'[i])
      /\ ~(ingesting' # None /\ Asks(ingesting'.event))
 BY DEF Asking
<1> QED BY <1>1, <1>2 DEF Calm

LEMMA CalmFails ==
  ASSUME Typed, Calm, Fail \/ Succeed, UNCHANGED <<setting, intents, ingesting, runtime, contexts, spent>>
  PROVE Calm'
<1>1. job' = None /\ Steps' BY Ends
<1>2. ~Serving' BY <1>1 DEF Serving
<1>3. \A c \in DOMAIN contexts' : Running(c)' => c \in DOMAIN contexts /\ Running(c)
 BY DEF Running
<1> QED BY <1>1, <1>2, <1>3, CalmQuiet

LEMMA ServingIs ==
  ASSUME Calm, job # None, job.step # "route"
  PROVE /\ Serving /\ AllIdle /\ ~Ordered /\ ~Asking
        /\ \A i \in DOMAIN intents : ~IsWork(intents[i])
        /\ \A i \in DOMAIN runtime : ~Asks(runtime[i])
        /\ ~(ingesting # None /\ Asks(ingesting.event))
<1>1. Serving BY DEF Calm, Steps, Serving
<1> QED BY <1>1 DEF Calm, Ordered, Asking

\* A turn is sent.
SendsTurn ==
    /\ job # None /\ job.step = "send" /\ MayAct /\ Routed /\ AcceptsTurn(RoutedContext)
    /\ SendTurn(RoutedContext, job.turn)
    /\ directory' = [directory EXCEPT !.cursor = contexts[RoutedContext].cursor]
    /\ SucceedForgetting((history.ended \cap 1..setting.turns) \ Memory(RoutedContext))
    /\ UNCHANGED <<sessions, conversations, spent, thread, intents, setting, ingesting>>

LEMMA SendIs ==
  ASSUME Typed, Serene, Send
  PROVE /\ job # None /\ job.step = "send" /\ UNCHANGED <<thread, intents, setting, ingesting>>
        /\ \/ Recover
           \/ SendsTurn
           \/ Fail /\ UNCHANGED <<agents, directory, spent>>
BY SereneIs DEF Send, SendsTurn, NoDispatch, NoAgent, Aside

LEMMA AppendedTo ==
  ASSUME NEW S, NEW s \in Seq(S), NEW e, NEW t, t = Append(s, e)
  PROVE /\ DOMAIN s = 1..Len(s) /\ DOMAIN t = 1..Len(s) + 1 /\ Len(s) \in Nat
        /\ \A i \in DOMAIN s : t[i] = s[i]
        /\ t[Len(s) + 1] = e
        /\ Len(t) = Len(s) + 1
<1>1. s \in Seq(S \cup {e}) BY SequencesGrow
<1>2. /\ Len(t) = Len(s) + 1 /\ t \in Seq(S \cup {e}) /\ Len(s) \in Nat
      /\ \A i \in 1..Len(s) : t[i] = s[i]
      /\ t[Len(s) + 1] = e
 BY <1>1, AppendProperties
<1> QED BY <1>1, <1>2

LEMMA SendsTurnIs ==
  ASSUME Typed, SendsTurn
  PROVE /\ directory # None /\ directory.provider \in Providers
        /\ RoutedContext = sessions[directory.provider] /\ RoutedContext \in DOMAIN contexts
        /\ contexts[RoutedContext].provider = directory.provider
        /\ contexts[RoutedContext].up
        /\ DOMAIN contexts' = DOMAIN contexts
        /\ \A c \in DOMAIN contexts : c # RoutedContext => contexts'[c] = contexts[c]
        /\ \E o : contexts'[RoutedContext] = [contexts[RoutedContext] EXCEPT !.turn = job.turn,
                                                !.interrupted = FALSE, !.others = o]
        /\ DOMAIN runtime = 1..Len(runtime) /\ DOMAIN runtime' = 1..Len(runtime) + 1
        /\ Len(runtime) \in Nat
        /\ \A i \in DOMAIN runtime : runtime'[i] = runtime[i]
        /\ runtime'[Len(runtime) + 1] = Event("turn.started", directory.provider, job.turn)
        /\ job' = None
<1>1. /\ directory # None /\ directory.provider \in Providers
      /\ RoutedContext = sessions[directory.provider] /\ RoutedContext \in DOMAIN contexts
      /\ contexts[RoutedContext].provider = directory.provider
 BY RoutedIs DEF SendsTurn
<1>2. contexts[RoutedContext].up BY DEF SendsTurn, AcceptsTurn
<1>3. PICK o : contexts' = [contexts EXCEPT ![RoutedContext].turn = job.turn,
                               ![RoutedContext].interrupted = FALSE, ![RoutedContext].others = o]
 BY Zenon DEF SendsTurn, SendTurn
<1>4. /\ DOMAIN contexts' = DOMAIN contexts
      /\ \A c \in DOMAIN contexts : c # RoutedContext => contexts'[c] = contexts[c]
      /\ contexts'[RoutedContext] = [contexts[RoutedContext] EXCEPT !.turn = job.turn,
                                        !.interrupted = FALSE, !.others = o]
 <2> HIDE DEF RoutedContext
 <2> QED BY <1>1, <1>3 DEF Typed, AgentsTyped
<1>5. runtime' = Append(runtime, Event("turn.started", directory.provider, job.turn))
 BY <1>1 DEF SendsTurn, SendTurn
<1>6. job' = None BY DEF SendsTurn, SucceedForgetting
<1>7. runtime \in Seq(EventsOf(Turns)) BY DEF Typed, RuntimeTyped
<1>8. \E x : contexts'[RoutedContext] = [contexts[RoutedContext] EXCEPT !.turn = job.turn,
                                              !.interrupted = FALSE, !.others = x]
 BY <1>4, Zenon
<1>9. /\ DOMAIN contexts' = DOMAIN contexts
      /\ \A c \in DOMAIN contexts : c # RoutedContext => contexts'[c] = contexts[c]
 BY <1>4
<1>10. /\ DOMAIN runtime = 1..Len(runtime) /\ DOMAIN runtime' = 1..Len(runtime) + 1
       /\ Len(runtime) \in Nat
       /\ \A i \in DOMAIN runtime : runtime'[i] = runtime[i]
       /\ runtime'[Len(runtime) + 1] = Event("turn.started", directory.provider, job.turn)
 BY <1>5, <1>7, AppendedTo
<1> QED BY <1>1, <1>2, <1>6, <1>8, <1>9, <1>10, Zenon

LEMMA CalmBySend == ASSUME Typed, Typed', Serene, Calm, Send PROVE Calm'
<1>1. /\ job # None /\ job.step = "send" /\ UNCHANGED <<thread, intents, setting, ingesting>>
      /\ \/ Recover
         \/ SendsTurn
         \/ Fail /\ UNCHANGED <<agents, directory, spent>>
 BY SendIs
<1>2. CASE Recover BY <1>1, <1>2, CalmByRecover
<1>3. CASE Fail /\ UNCHANGED <<agents, directory, spent>> BY <1>1, <1>3, CalmFails DEF agents
<1>4. CASE SendsTurn
 <2> DEFINE e == Event("turn.started", directory.provider, job.turn)
 <2>1. /\ Serving /\ AllIdle /\ ~Ordered /\ ~Asking
       /\ \A i \in DOMAIN intents : ~IsWork(intents[i])
       /\ \A i \in DOMAIN runtime : ~Asks(runtime[i])
       /\ ~(ingesting # None /\ Asks(ingesting.event))
  BY <1>1, ServingIs
 <2>2. ~Asks(e) BY DEF Event, Asks
 <2>3. /\ DOMAIN contexts' = DOMAIN contexts
       /\ \A c \in DOMAIN contexts : c # RoutedContext => contexts'[c] = contexts[c]
       /\ DOMAIN runtime = 1..Len(runtime) /\ DOMAIN runtime' = 1..Len(runtime) + 1
       /\ Len(runtime) \in Nat
       /\ \A i \in DOMAIN runtime : runtime'[i] = runtime[i]
       /\ runtime'[Len(runtime) + 1] = e
       /\ job' = None
  BY <1>4, SendsTurnIs
 <2> HIDE DEF e
 <2>4. ~Asking'
  <3>1. \A i \in DOMAIN runtime' : i \in DOMAIN runtime \/ i = Len(runtime) + 1 BY <2>3
  <3> QED BY <1>1, <2>1, <2>2, <2>3, <3>1 DEF Asking
 <2>5. ~Ordered' /\ ~Serving' /\ Steps' BY <1>1, <2>1, <2>3 DEF Ordered, Serving, Steps
 <2>6. Orders' BY <1>1, <1>4 DEF Calm, Orders, SendsTurn
 <2>7. \A c \in DOMAIN contexts : c # RoutedContext => ~Running(c)'
  BY <2>1, <2>3 DEF AllIdle, Running
 <2> QED BY <2>3, <2>4, <2>5, <2>6, <2>7, CalmRests
<1> QED BY <1>1, <1>2, <1>3, <1>4

LEMMA InterruptIs ==
  ASSUME Typed, Interrupt
  PROVE /\ job # None /\ job.step = "route" /\ UNCHANGED <<thread, intents, setting, ingesting>>
        /\ MayAct
        /\ \/ Recover
           \/ /\ Fail \/ Succeed
              /\ UNCHANGED <<sessions, conversations, runtime, directory, spent>>
              /\ DOMAIN contexts' = DOMAIN contexts
              /\ \A c \in DOMAIN contexts :
                    \/ contexts'[c] = contexts[c]
                    \/ \E b : contexts'[c] = [contexts[c] EXCEPT !.interrupted = b]
<1>1. /\ job # None /\ job.step = "route" /\ UNCHANGED <<thread, intents, setting, ingesting>>
      /\ MayAct
 BY DEF Interrupt, NoDispatch, Aside
<1>2. CASE /\ Routed
           /\ contexts' = [contexts EXCEPT ![RoutedContext].interrupted = Running(RoutedContext)]
           /\ Succeed
           /\ UNCHANGED <<sessions, conversations, runtime, directory, spent>>
 <2>1. \A c \in DOMAIN contexts :
          \/ contexts'[c] = contexts[c]
          \/ contexts'[c] = [contexts[c] EXCEPT !.interrupted = Running(RoutedContext)]
  BY <1>2
 <2>2. DOMAIN contexts' = DOMAIN contexts BY <1>2
 <2> QED BY <1>1, <1>2, <2>1, <2>2
<1>3. CASE CannotRoute /\ Fail /\ NoAgent /\ UNCHANGED spent BY <1>1, <1>3 DEF NoAgent, agents
<1>4. CASE Recover BY <1>1, <1>4
<1> QED BY <1>2, <1>3, <1>4 DEF Interrupt

LEMMA CalmByInterrupt == ASSUME Typed, Typed', Serene, Calm, Interrupt PROVE Calm'
<1>1. /\ job # None /\ UNCHANGED <<thread, intents, setting, ingesting>>
      /\ \/ Recover
         \/ /\ Fail \/ Succeed
            /\ UNCHANGED <<sessions, conversations, runtime, directory, spent>>
            /\ DOMAIN contexts' = DOMAIN contexts
            /\ \A c \in DOMAIN contexts :
                  \/ contexts'[c] = contexts[c]
                  \/ \E b : contexts'[c] = [contexts[c] EXCEPT !.interrupted = b]
 BY InterruptIs
<1>2. CASE Recover BY <1>1, <1>2, CalmByRecover
<1>3. CASE ~Recover
 <2>1. job' = None /\ Steps' BY <1>1, <1>3, Ends
 <2>2. ~Serving' BY <2>1 DEF Serving
 <2>3. \A c \in DOMAIN contexts' : Running(c)' => c \in DOMAIN contexts /\ Running(c)
  <3> SUFFICES ASSUME NEW c \in DOMAIN contexts PROVE Running(c)' => Running(c) BY <1>1, <1>3
  <3>1. contexts[c] \in ContextsOf(Turns, N) BY ContextsAre DEF Typed
  <3>2. contexts'[c].up = contexts[c].up /\ contexts'[c].turn = contexts[c].turn
   BY <1>1, <1>3, <3>1 DEF ContextsOf
  <3> QED BY <3>2 DEF Running
 <2> QED BY <1>1, <1>3, <2>1, <2>2, <2>3, CalmQuiet
<1> QED BY <1>2, <1>3

--------------------
(* A compaction stops the session, unless it passes over it.                *)
LEMMA StopIs ==
  ASSUME Typed, Calm, Stop
  PROVE /\ job # None /\ job.step = "stop" /\ job.type = "compact" /\ MayAct
        /\ UNCHANGED <<thread, intents, setting, ingesting, spent, conversations>>
        /\ job'.step = "mark" /\ job'.type = job.type /\ job'.start = job.start
        /\ job'.read = job.read /\ job'.turn = job.turn /\ job'.provider = job.provider
        /\ \/ /\ directory = None \/ ~HasSession(job.read.session)
              /\ PassesOver /\ UNCHANGED <<agents, directory>>
           \/ /\ directory # None /\ HasSession(job.read.session) /\ directory' = None
              /\ \/ Routed /\ StopSession(RoutedContext) /\ Lose(TurnsOf(RoutedContext))
                 \/ ~Routed /\ UNCHANGED <<contexts, sessions, runtime, history>>
<1>1. /\ job # None /\ job.step = "stop" /\ MayAct
      /\ UNCHANGED <<thread, intents, setting, ingesting, spent>>
 BY DEF Stop, NoDispatch, Aside
<1>2. job.type = "compact" BY <1>1 DEF Calm, Steps
<1>3. CASE directory = None \/ ~HasSession(job.read.session)
 <2>1. NextJob("mark") /\ PassesOver /\ UNCHANGED <<agents, directory>>
  BY <1>2, <1>3 DEF Stop, NoAgent
 <2> QED BY <1>1, <1>2, <1>3, <2>1, NextStep DEF agents
<1>4. CASE ~(directory = None \/ ~HasSession(job.read.session))
 <2>1. /\ NextJob("mark") /\ UNCHANGED conversations /\ directory' = None
       /\ IF Routed
          THEN StopSession(RoutedContext) /\ Lose(TurnsOf(RoutedContext))
          ELSE UNCHANGED <<contexts, sessions, runtime, history>>
  BY <1>4 DEF Stop
 <2> QED BY <1>1, <1>2, <1>4, <2>1, NextStep
<1> QED BY <1>3, <1>4

LEMMA StopAsksNothing ==
  ASSUME NEW c PROVE \A i \in DOMAIN StopEvents(c) : ~Asks(StopEvents(c)[i])
<1> DEFINE first == Completed(contexts[c].provider, contexts[c].turn, "interrupted")
           second == Exited(contexts[c].provider)
<1>1. ~Asks(first) /\ ~Asks(second) BY DEF Completed, Exited, Event, Asks
<1>2. StopEvents(c) = << first, second >> \/ StopEvents(c) = << second >> BY DEF StopEvents
<1> HIDE DEF first, second
<1> QED BY <1>1, <1>2

LEMMA StopSessionIs ==
  ASSUME Typed, NEW c \in DOMAIN contexts, StopSession(c)
  PROVE /\ DOMAIN contexts' = DOMAIN contexts
        /\ \A d \in DOMAIN contexts : d # c => contexts'[d] = contexts[d]
        /\ contexts'[c] = Down(contexts[c])
        /\ ~contexts'[c].up
        /\ sessions' = [sessions EXCEPT ![contexts[c].provider] = 0]
<1>1. contexts' = [contexts EXCEPT ![c] = Down(@)] BY Zenon DEF StopSession
<1>2. /\ DOMAIN contexts' = DOMAIN contexts
      /\ \A d \in DOMAIN contexts : d # c => contexts'[d] = contexts[d]
      /\ contexts'[c] = Down(contexts[c])
 BY <1>1 DEF Typed, AgentsTyped
<1>3. contexts[c] \in ContextsOf(Turns, N) BY ContextsAre DEF Typed
<1>4. ~contexts'[c].up
 <2>1. NoTurn \in Turns BY DEF Turns
 <2> QED BY <1>2, <1>3, <2>1, DownIs
<1> QED BY <1>2, <1>4 DEF StopSession

LEMMA CalmByStop == ASSUME Typed, Typed', Serene, Calm, Stop PROVE Calm'
<1>1. /\ job # None /\ job.step = "stop" /\ job.type = "compact"
      /\ UNCHANGED <<thread, intents, setting, ingesting, spent, conversations>>
      /\ job'.step = "mark" /\ job'.type = job.type /\ job'.provider = job.provider
      /\ \/ UNCHANGED agents
         \/ Routed /\ StopSession(RoutedContext)
         \/ UNCHANGED <<contexts, runtime>>
 BY StopIs
<1>2. Steps' /\ (Serving' => Serving) BY <1>1 DEF Calm, Steps, Serving
<1>3. CASE UNCHANGED <<contexts, runtime>>
 <2>1. \A c \in DOMAIN contexts' : Running(c)' => c \in DOMAIN contexts /\ Running(c)
  BY <1>3 DEF Running
 <2> QED BY <1>1, <1>2, <1>3, <2>1, CalmQuiet
<1>4. CASE Routed /\ StopSession(RoutedContext)
 <2> DEFINE S == EventsOf(Turns)
            old == RoutedContext
 <2>1. old \in DOMAIN contexts BY <1>4, RoutedIs
 <2> HIDE DEF old
 <2>2. StopSession(old) BY <1>4 DEF old
 <2>3. /\ runtime' = runtime \o StopEvents(old) /\ StopEvents(old) \in Seq(S)
       /\ runtime \in Seq(S)
  BY <2>1, <2>2, StopAnnounces DEF Typed, RuntimeTyped
 <2>4. \A i \in DOMAIN StopEvents(old) : ~Asks(StopEvents(old)[i]) BY StopAsksNothing
 <2>5. \A c \in DOMAIN contexts' : Running(c)' => c \in DOMAIN contexts /\ Running(c)
  BY <2>1, <2>2, StopSessionIs DEF Running
 <2> HIDE DEF S
 <2> QED BY <1>1, <1>2, <2>3, <2>4, <2>5, CalmKept
<1> QED BY <1>1, <1>3, <1>4 DEF agents

\* What the handler of a request has read and begins with.
LEMMA TakenIs ==
  ASSUME Typed, Take
  PROVE /\ job = None /\ intents # << >> /\ intents[1] \in IntentsOf(Turns) /\ MayAct
        /\ 1 \in DOMAIN intents
        /\ \A i \in DOMAIN intents' : /\ i + 1 \in DOMAIN intents /\ intents'[i] = intents[i + 1]
                                      /\ i \in Nat /\ i # 0
        /\ UNCHANGED <<thread, spent, setting, ingesting, agents, directory>>
        /\ job' # None =>
              /\ job'.type = intents[1].type /\ job'.read = thread
              /\ job'.provider = IF intents[1].type = "turn" THEN intents[1].provider ELSE None
              /\ job'.turn = IF intents[1].type = "turn" THEN intents[1].turn ELSE NoTurn
              /\ job'.start = None
              /\ intents[1].type = "turn" => job'.step = "ensure"
              /\ intents[1].type = "compact" => job'.step = "stop"
              /\ intents[1].type = "mode" => job'.step = "ensure"
              /\ intents[1].type = "interrupt" => job'.step = "route"
              /\ intents[1].type \in {"mode", "interrupt"} => HasSession(Session)
<1> DEFINE intent == Head(intents)
           S == IntentsOf(Turns)
<1>1. /\ job = None /\ intents # << >> /\ MayAct /\ intents' = Tail(intents)
      /\ UNCHANGED <<thread, spent, setting, ingesting, agents, directory>>
 BY DEF Take, NoAgent, Aside
<1>0. PICK first : job' = None \/ (job' = Taken(intent, first) /\ Starts(intent, first))
 BY TakeBegins, Zenon
<1>2. intents \in Seq(S) BY DEF Typed, IntentsTyped
<1> HIDE DEF S, intent
<1>3. /\ intent \in S /\ Tail(intents) \in Seq(S) /\ Len(Tail(intents)) = Len(intents) - 1
      /\ \A i \in 1..Len(Tail(intents)) : Tail(intents)[i] = intents[i + 1]
 BY <1>1, <1>2, HeadTailProperties DEF intent
<1>4. /\ DOMAIN intents = 1..Len(intents) /\ Len(intents) \in Nat /\ Len(intents) # 0
      /\ DOMAIN intents' = 1..Len(intents) - 1 /\ intent = intents[1]
 <2>1. /\ DOMAIN intents = 1..Len(intents) /\ Len(intents) \in Nat /\ Len(intents) # 0
  BY <1>1, <1>2, EmptySeq, LenProperties
 <2>2. DOMAIN intents' = 1..Len(intents) - 1 BY <1>1, <1>3, LenProperties
 <2> QED BY <2>1, <2>2 DEF intent
<1>5. \A i \in DOMAIN intents' : /\ i + 1 \in DOMAIN intents /\ intents'[i] = intents[i + 1]
                                 /\ i \in Nat /\ i # 0
 BY <1>1, <1>3, <1>4
<1>7. job' # None =>
               /\ job'.type = intent.type /\ job'.read = thread
               /\ job'.provider = IF intent.type = "turn" THEN intent.provider ELSE None
               /\ job'.turn = IF intent.type = "turn" THEN intent.turn ELSE NoTurn
               /\ job'.start = None /\ job'.step = first /\ Starts(intent, first)
 BY <1>0 DEF Taken
<1>9. intents[1] \in IntentsOf(Turns) /\ 1 \in DOMAIN intents BY <1>3, <1>4 DEF S
<1>10. Starts(intent, first) =>
               /\ intent.type = "turn" => first = "ensure"
               /\ intent.type = "compact" => first = "stop"
               /\ intent.type = "mode" => first = "ensure"
               /\ intent.type = "interrupt" => first = "route"
               /\ intent.type \in {"mode", "interrupt"} => HasSession(Session)
 BY Zenon DEF Starts
<1> QED BY <1>1, <1>4, <1>5, <1>7, <1>9, <1>10

LEMMA CalmByTake == ASSUME Typed, Typed', Serene, Calm, Take PROVE Calm'
<1>1. /\ job = None /\ intents[1] \in IntentsOf(Turns)
      /\ 1 \in DOMAIN intents
      /\ \A i \in DOMAIN intents' : /\ i + 1 \in DOMAIN intents /\ intents'[i] = intents[i + 1]
                                    /\ i \in Nat /\ i # 0
      /\ UNCHANGED <<thread, spent, setting, ingesting, agents, directory>>
      /\ job' # None =>
               /\ job'.type = intents[1].type
               /\ job'.provider = IF intents[1].type = "turn" THEN intents[1].provider ELSE None
               /\ job'.turn = IF intents[1].type = "turn" THEN intents[1].turn ELSE NoTurn
               /\ intents[1].type = "turn" => job'.step = "ensure"
               /\ intents[1].type = "compact" => job'.step = "stop"
               /\ intents[1].type = "mode" => job'.step = "ensure"
               /\ intents[1].type = "interrupt" => job'.step = "route"
 BY TakenIs
<1>2. intents[1].type \in {"turn", "mode", "compact", "interrupt"}
 BY <1>1 DEF Calm, Orders, IntentsOf
<1>3. Steps'
 <2> SUFFICES ASSUME job' # None PROVE Steps' BY DEF Steps
 <2>1. intents[1].type = "turn" =>
          intents[1].provider \in setting.providers /\ intents[1].turn \in 1..spent.turns
  BY <1>1 DEF Calm, Orders
 <2>2. intents[1].type = "turn" => job'.step = "ensure" /\ job'.type = "turn"
             /\ job'.provider \in setting'.providers /\ job'.turn \in 1..spent'.turns
  BY <1>1, <2>1
 <2>3. intents[1].type # "turn" => job'.type # "turn" /\ job'.provider = None BY <1>1
 <2>4. intents[1].type = "compact" => job'.step = "stop" /\ job'.type = "compact" BY <1>1
 <2>5. intents[1].type = "mode" => job'.step = "ensure" /\ job'.type = "mode" BY <1>1
 <2>6. intents[1].type = "interrupt" => job'.step = "route" /\ job'.type = "interrupt" BY <1>1
 <2> QED BY <1>2, <2>2, <2>3, <2>4, <2>5, <2>6 DEF Steps
<1>4. Orders' BY <1>1 DEF Calm, Orders
<1>5. UNCHANGED <<contexts, runtime, ingesting>> /\ (AllIdle' <=> AllIdle) /\ (Asking' <=> Asking)
 BY <1>1 DEF AllIdle, Asking, Running, agents
<1>6. Ordered' => Ordered BY <1>1 DEF Ordered
<1>7. Serving' => IsWork(intents[1]) BY <1>1 DEF Serving, IsWork
<1>8. IsWork(intents[1]) => Ordered /\ ~Ordered'
 <2>1. IsWork(intents[1]) => Ordered BY <1>1 DEF Ordered
 <2>2. \A i, j \in DOMAIN intents : IsWork(intents[i]) /\ IsWork(intents[j]) => i = j BY DEF Calm
 <2>3. \A i \in DOMAIN intents' : i + 1 # 1 BY <1>1
 <2> QED BY <1>1, <2>1, <2>2, <2>3 DEF Ordered
<1>9. /\ Ordered => AllIdle /\ ~Asking
      /\ Asking => AllIdle
 BY DEF Calm
<1>10. \A i, j \in DOMAIN intents' : IsWork(intents'[i]) /\ IsWork(intents'[j]) => i = j
 <2> SUFFICES ASSUME NEW i \in DOMAIN intents', NEW j \in DOMAIN intents',
                     IsWork(intents'[i]), IsWork(intents'[j])
     PROVE  i = j
  OBVIOUS
 <2>1. i + 1 = j + 1 BY <1>1 DEF Calm
 <2>2. i \in Nat /\ j \in Nat BY <1>1
 <2> QED BY <2>1, <2>2
<1>11. /\ \A i, j \in DOMAIN runtime' : Asks(runtime'[i]) /\ Asks(runtime'[j]) => i = j
       /\ ingesting' # None /\ Asks(ingesting'.event) => \A i \in DOMAIN runtime' : ~Asks(runtime'[i])
       /\ \A c, d \in DOMAIN contexts' : Running(c)' /\ Running(d)' => c = d
 BY <1>5 DEF Calm, Running
<1> QED BY <1>3, <1>4, <1>5, <1>6, <1>7, <1>8, <1>9, <1>10, <1>11 DEF Calm

--------------------
(* What a patient user asks for, when nothing else is going on.             *)
LEMMA AskIs ==
  ASSUME Typed, Serene, NEW intent, Ask(intent)
  PROVE /\ intents = << >> /\ job = None /\ runtime = << >> /\ ingesting = None /\ AllIdle
        /\ DOMAIN intents' = {1} /\ intents'[1] = intent
        /\ UNCHANGED <<setting, job, directory, agents, ingesting, history>>
<1>0. \A c : TurnsOf(c) = {} => ~Running(c) BY DEF TurnsOf, Running
<1>1. /\ intents = << >> /\ job = None /\ runtime = << >> /\ ingesting = None /\ AllIdle
      /\ intents' = Append(intents, intent)
      /\ UNCHANGED <<setting, job, directory, agents, ingesting, history>>
 BY <1>0 DEF Ask, MayRequest, Serene, Settled, AllIdle, worker
<1>2. intents' = << intent >> BY <1>1
<1>3. DOMAIN intents' = {1} /\ intents'[1] = intent BY <1>2
<1> QED BY <1>1, <1>3

LEMMA CalmByAsk ==
  ASSUME Typed, Serene, Calm, NEW intent, Ask(intent), intent.type # "stop",
    intent.type = "turn" => intent.provider \in setting.providers /\ intent.turn \in 1..spent'.turns
  PROVE Calm'
<1>1. /\ intents = << >> /\ job = None /\ runtime = << >> /\ ingesting = None /\ AllIdle
      /\ DOMAIN intents' = {1} /\ intents'[1] = intent
      /\ UNCHANGED <<setting, job, directory, agents, ingesting, history>>
 BY AskIs
<1>2. Steps' /\ Orders' /\ ~Serving' BY <1>1 DEF Steps, Orders, Serving
<1>3. UNCHANGED <<contexts, runtime>> /\ DOMAIN << >> = {} BY <1>1 DEF agents
<1>4. AllIdle' BY <1>1, <1>3 DEF AllIdle, Running
<1>5. ~Asking' /\ \A i \in DOMAIN runtime' : FALSE BY <1>1, <1>3 DEF Asking
<1>6. \A c, d \in DOMAIN contexts' : Running(c)' /\ Running(d)' => c = d BY <1>4 DEF AllIdle
<1> QED BY <1>1, <1>2, <1>4, <1>5, <1>6 DEF Calm

LEMMA RequestInterruptIs ==
  ASSUME Typed, RequestInterrupt
  PROVE /\ UNCHANGED <<setting, thread, job, directory, agents, ingesting, history>>
        /\ \A r \in Requests : r # "interrupts" => spent'[r] = spent[r]
        /\ \A i \in DOMAIN intents : i \in DOMAIN intents' /\ intents'[i] = intents[i]
        /\ \A i \in DOMAIN intents' :
              \/ i \in DOMAIN intents /\ intents'[i] = intents[i]
              \/ intents'[i] = [type |-> "interrupt"]
        /\ Session # NoSession
<1> DEFINE intent == [type |-> "interrupt"]
           S == IntentsOf(Turns)
<1>1. /\ UNCHANGED <<setting, thread, job, directory, agents, ingesting, history>>
      /\ Spend("interrupts") /\ intents' = Append(intents, intent) /\ Session # NoSession
 BY DEF RequestInterrupt, worker, HasSession
<1>2. \A r \in Requests : r # "interrupts" => spent'[r] = spent[r] BY <1>1, SpendIs DEF Requests
<1>3. intents \in Seq(S) BY DEF Typed, IntentsTyped
<1> HIDE DEF intent, S
<1>4. /\ DOMAIN intents = 1..Len(intents) /\ DOMAIN intents' = 1..Len(intents) + 1 /\ Len(intents) \in Nat
      /\ \A i \in DOMAIN intents : intents'[i] = intents[i]
      /\ intents'[Len(intents) + 1] = intent
 BY <1>1, <1>3, AppendedTo
<1>5. \A i \in DOMAIN intents' : i \in DOMAIN intents \/ i = Len(intents) + 1 BY <1>4
<1>6. \A i \in DOMAIN intents : i \in DOMAIN intents' BY <1>4
<1> QED BY <1>1, <1>2, <1>4, <1>5, <1>6 DEF intent

LEMMA CalmByUser == ASSUME Typed, Serene, Calm, User PROVE Calm'
<1>1. ASSUME NEW provider \in setting.providers, RequestTurn(provider) PROVE Calm'
 <2> DEFINE intent == [type |-> "turn", turn |-> spent'.turns, provider |-> provider]
 <2>1. Spend("turns") /\ Ask(intent) BY <1>1 DEF RequestTurn
 <2>2. spent["turns"] \in Nat /\ spent'["turns"] = spent["turns"] + 1
  BY <2>1, SpendIs DEF Requests
 <2>3. intent.type = "turn" /\ intent.provider \in setting.providers /\ intent.turn \in 1..spent'.turns
  BY <2>2
 <2> HIDE DEF intent
 <2> QED BY <2>1, <2>3, CalmByAsk
<1>2. CASE RequestMode
 <2>1. Ask([type |-> "mode"]) BY <1>2 DEF RequestMode
 <2> QED BY <2>1, CalmByAsk
<1>3. CASE RequestCompaction
 <2>1. Ask([type |-> "compact"]) BY <1>3 DEF RequestCompaction
 <2> QED BY <2>1, CalmByAsk
<1>4. CASE RequestStop BY <1>4, SereneIs DEF RequestStop
<1>5. CASE RequestInterrupt
 <2>1. /\ UNCHANGED <<setting, thread, job, directory, agents, ingesting, history>>
       /\ spent'.turns = spent.turns
       /\ \A i \in DOMAIN intents : i \in DOMAIN intents' /\ intents'[i] = intents[i]
       /\ \A i \in DOMAIN intents' :
              \/ i \in DOMAIN intents /\ intents'[i] = intents[i]
              \/ intents'[i] = [type |-> "interrupt"]
  BY <1>5, RequestInterruptIs DEF Requests
 <2>2. \A i \in DOMAIN intents' : IsWork(intents'[i]) => i \in DOMAIN intents /\ IsWork(intents[i])
  BY <2>1 DEF IsWork
 <2>3. Ordered' => Ordered BY <2>2 DEF Ordered
 <2>4. Steps' /\ (Serving' <=> Serving) BY <2>1 DEF Calm, Steps, Serving
 <2>5. Orders' BY <2>1 DEF Calm, Orders
 <2>6. UNCHANGED <<contexts, runtime, ingesting>> /\ (AllIdle' <=> AllIdle) /\ (Asking' <=> Asking)
  BY <2>1 DEF AllIdle, Asking, Running, agents
 <2>7. \A i, j \in DOMAIN intents' : IsWork(intents'[i]) /\ IsWork(intents'[j]) => i = j
  BY <2>2 DEF Calm
 <2>8. /\ \A i, j \in DOMAIN runtime' : Asks(runtime'[i]) /\ Asks(runtime'[j]) => i = j
       /\ ingesting' # None /\ Asks(ingesting'.event) => \A i \in DOMAIN runtime' : ~Asks(runtime'[i])
       /\ \A c, d \in DOMAIN contexts' : Running(c)' /\ Running(d)' => c = d
  BY <2>6 DEF Calm, Running
 <2>9. /\ Serving' \/ Ordered' \/ Asking' => AllIdle'
       /\ Serving' => ~Ordered' /\ ~Asking'
       /\ Ordered' => ~Asking'
  BY <2>3, <2>4, <2>6 DEF Calm
 <2> QED BY <2>4, <2>5, <2>7, <2>8, <2>9 DEF Calm
<1> QED BY <1>1, <1>2, <1>3, <1>4, <1>5 DEF User

--------------------
(* A turn ends.                                                             *)
LEMMA CompletionIs ==
  ASSUME NEW c, NEW state \in {"completed", "failed", "interrupted"}, NEW full \in BOOLEAN
  PROVE LET events == CompletionEvents(c, state, full)
        IN  /\ \A i, j \in DOMAIN events : Asks(events[i]) /\ Asks(events[j]) => i = j
            /\ \A i \in DOMAIN events : Lively(contexts[c].provider, events[i])
            /\ (\E i \in DOMAIN events : Asks(events[i])) => full /\ state # "interrupted"
<1> DEFINE p == contexts[c].provider
           error == [Event("runtime.error", p, contexts[c].turn) EXCEPT !.full = full]
           completed == [Completed(p, contexts[c].turn, state) EXCEPT !.full = full]
           usage == Event("thread.token-usage.updated", p, contexts[c].turn)
           events == CompletionEvents(c, state, full)
<1>1. /\ error.type = "runtime.error" /\ error.full = full /\ error.provider = p
      /\ completed.type = "turn.completed" /\ completed.full = full /\ completed.provider = p
      /\ completed.state = state
      /\ usage.type = "thread.token-usage.updated" /\ usage.full = FALSE /\ usage.provider = p
 BY DEF Completed, Event
<1>2. events = ((IF state = "failed" /\ p = "claudeCode" THEN << error >> ELSE << >>)
                  \o << completed >>) \o (IF p = "claudeCode" THEN << usage >> ELSE << >>)
 BY DEF CompletionEvents
<1> HIDE DEF error, completed, usage, events, p
<1>3. /\ Asks(error) => full
      /\ Asks(completed) => full /\ state = "completed"
      /\ ~Asks(usage)
      /\ Lively(p, error) /\ Lively(p, completed) /\ Lively(p, usage)
 BY <1>1 DEF Asks, Lively, Exits
<1>4. CASE p = "claudeCode" /\ state = "failed"
 <2>1. events = << error, completed, usage >> BY <1>2, <1>4, TripleIs
 <2> QED BY <1>3, <1>4, <2>1 DEF events, p
<1>5. CASE p = "claudeCode" /\ state # "failed"
 <2>1. << >> \o << completed >> = << completed >> OBVIOUS
 <2>2. events = << completed, usage >> BY <1>2, <1>5, <2>1, PairIs
 <2> QED BY <1>3, <1>5, <2>2 DEF events, p
<1>6. CASE p # "claudeCode"
 <2>1. << >> \o << completed >> = << completed >> /\ << completed >> \o << >> = << completed >>
  OBVIOUS
 <2>2. events = << completed >> BY <1>2, <1>6, <2>1
 <2> QED BY <1>3, <1>6, <2>2 DEF events, p
<1> QED BY <1>4, <1>5, <1>6

LEMMA CompletesIs ==
  ASSUME Typed, NEW c \in DOMAIN contexts, NEW state \in {"completed", "failed", "interrupted"},
    NEW full \in BOOLEAN, CompleteTurn(c, state, full)
  PROVE /\ Running(c)
        /\ UNCHANGED <<setting, thread, intents, job, directory, sessions, ingesting>>
        /\ DOMAIN contexts' = DOMAIN contexts
        /\ \A d \in DOMAIN contexts : d # c => contexts'[d] = contexts[d]
        /\ LET old == contexts[c]  new == contexts'[c]
           IN  /\ new.up = old.up /\ new.turn = NoTurn /\ new.others = old.others
               /\ new.provider = old.provider
               /\ new.conversation = old.conversation /\ new.prompt = old.prompt
               /\ new.mode = old.mode
               /\ new.cursor.provider = old.cursor.provider
               /\ new.cursor.conversation = old.conversation
               /\ new.cursor.at = IF old.provider = "codex" THEN {}
                                  ELSE conversations[old.conversation] \cup {old.turn}
        /\ conversations' = [conversations EXCEPT ![contexts[c].conversation] = @ \cup {contexts[c].turn}]
        /\ history'.ended = history.ended \cup {contexts[c].turn}
        /\ UNCHANGED history.forgotten
<1>1. /\ Running(c)
      /\ UNCHANGED <<setting, thread, intents, job, directory, sessions, ingesting>>
      /\ conversations' = [conversations EXCEPT ![contexts[c].conversation] =
                              conversations[contexts[c].conversation] \cup {contexts[c].turn}]
      /\ history' = [history EXCEPT !.ended = @ \cup {contexts[c].turn}]
      /\ contexts' = [contexts EXCEPT ![c].turn = NoTurn,
                           ![c].cursor.conversation = contexts[c].conversation,
                           ![c].cursor.at = IF contexts[c].provider = "codex" THEN {}
                              ELSE conversations[contexts[c].conversation] \cup {contexts[c].turn}]
 BY DEF CompleteTurn, worker
<1>2. contexts[c] \in ContextsOf(Turns, N) BY ContextsAre DEF Typed
<1>3. /\ DOMAIN contexts' = DOMAIN contexts
      /\ \A d \in DOMAIN contexts : d # c => contexts'[d] = contexts[d]
 BY <1>1
<1>4. LET old == contexts[c]  new == contexts'[c]
      IN  /\ new.up = old.up /\ new.turn = NoTurn /\ new.others = old.others
          /\ new.provider = old.provider
          /\ new.conversation = old.conversation /\ new.prompt = old.prompt
          /\ new.mode = old.mode
          /\ new.cursor.provider = old.cursor.provider
          /\ new.cursor.conversation = old.conversation
          /\ new.cursor.at = IF old.provider = "codex" THEN {}
                             ELSE conversations[old.conversation] \cup {old.turn}
 <2> DEFINE old == contexts[c]
            at == IF old.provider = "codex" THEN {}
                  ELSE conversations[old.conversation] \cup {old.turn}
 <2>1. contexts'[c] = [old EXCEPT !.turn = NoTurn, !.cursor.conversation = old.conversation,
                          !.cursor.at = at]
  BY <1>1, <1>2
 <2> HIDE DEF at
 <2>2. old.cursor \in [provider : Providers, conversation : 0..N, at : SUBSET Turns]
  BY <1>2 DEF ContextsOf, CursorsOf
 <2>3. contexts'[c].cursor = [old.cursor EXCEPT !.conversation = old.conversation, !.at = at]
  BY <1>2, <2>1 DEF ContextsOf
 <2>4. /\ contexts'[c].up = old.up /\ contexts'[c].turn = NoTurn
       /\ contexts'[c].others = old.others
       /\ contexts'[c].provider = old.provider /\ contexts'[c].conversation = old.conversation
       /\ contexts'[c].prompt = old.prompt /\ contexts'[c].mode = old.mode
  BY <1>2, <2>1 DEF ContextsOf
 <2>5. /\ contexts'[c].cursor.provider = old.cursor.provider
       /\ contexts'[c].cursor.conversation = old.conversation /\ contexts'[c].cursor.at = at
  BY <2>2, <2>3
 <2> QED BY <2>4, <2>5 DEF at
<1>5. history'.ended = history.ended \cup {contexts[c].turn} /\ UNCHANGED history.forgotten
 BY <1>1 DEF Typed, HistoryTyped
<1> QED BY <1>1, <1>3, <1>4, <1>5

LEMMA CalmByComplete ==
  ASSUME Typed, Serene, Calm, NEW c \in DOMAIN contexts,
    NEW state \in {"completed", "failed", "interrupted"}, NEW full \in BOOLEAN,
    CompleteTurn(c, state, full)
  PROVE Calm'
<1> DEFINE S == EventsOf(Turns)
           events == CompletionEvents(c, state, full)
<1>1. /\ Running(c)
      /\ UNCHANGED <<setting, thread, intents, job, directory, sessions, ingesting>>
      /\ DOMAIN contexts' = DOMAIN contexts
      /\ \A d \in DOMAIN contexts : d # c => contexts'[d] = contexts[d]
      /\ contexts'[c].turn = NoTurn
 BY CompletesIs
<1>2. ~Serving /\ ~Ordered /\ ~Asking BY <1>1 DEF Calm, AllIdle
<1>3. ~Serving' /\ ~Ordered' BY <1>1, <1>2 DEF Serving, Ordered
<1>4. AllIdle'
 <2> SUFFICES ASSUME NEW d \in DOMAIN contexts PROVE ~Running(d)' BY <1>1 DEF AllIdle
 <2>1. CASE d = c BY <1>1, <2>1 DEF Running
 <2>2. CASE d # c BY <1>1, <2>2 DEF Calm, Running
 <2> QED BY <2>1, <2>2
<1>5. spent'.turns = spent.turns
 <2>1. Spend("full") \/ Spend("faults") \/ UNCHANGED spent BY DEF CompleteTurn, SpendEnd
 <2> QED BY <2>1, SpendIs DEF Requests
<1>6. Steps' /\ Orders' BY <1>1, <1>5 DEF Calm, Steps, Orders
<1>7. /\ runtime' = runtime \o events /\ events \in Seq(S) /\ runtime \in Seq(S)
 BY CompleteTurnIs DEF Typed, RuntimeTyped
<1>8. \A i, j \in DOMAIN events : Asks(events[i]) /\ Asks(events[j]) => i = j BY CompletionIs
<1> HIDE DEF events, S
<1>9. /\ \A i \in DOMAIN runtime : i \in Nat /\ runtime'[i] = runtime[i]
      /\ \A i \in DOMAIN runtime' : \/ i \in DOMAIN runtime
                                    \/ /\ i - Len(runtime) \in DOMAIN events /\ i \in Nat
                                       /\ runtime'[i] = events[i - Len(runtime)]
      /\ Len(runtime) \in Nat
 <2>1. /\ DOMAIN runtime = 1..Len(runtime) /\ DOMAIN runtime' = 1..Len(runtime) + Len(events)
       /\ Len(runtime) \in Nat /\ Len(events) \in Nat
       /\ \A i \in DOMAIN runtime : runtime'[i] = runtime[i]
       /\ \A j \in DOMAIN events : runtime'[Len(runtime) + j] = events[j]
       /\ \A i \in DOMAIN runtime' : i \in DOMAIN runtime \/ i - Len(runtime) \in DOMAIN events
  BY <1>7, ConcatIs
 <2>2. \A i \in DOMAIN runtime' : i \in Nat /\ Len(runtime) + (i - Len(runtime)) = i BY <2>1
 <2>3. \A i \in DOMAIN runtime : i \in Nat BY <2>1
 <2>4. \A i \in DOMAIN runtime' : i - Len(runtime) \in DOMAIN events =>
           runtime'[i] = events[i - Len(runtime)]
  <3> SUFFICES ASSUME NEW i \in DOMAIN runtime', i - Len(runtime) \in DOMAIN events
      PROVE  runtime'[i] = events[i - Len(runtime)]
   OBVIOUS
  <3>1. runtime'[Len(runtime) + (i - Len(runtime))] = events[i - Len(runtime)] BY <2>1
  <3> QED BY <3>1, <2>2
 <2> QED BY <2>1, <2>2, <2>3, <2>4
<1>10. \A i \in DOMAIN runtime : ~Asks(runtime[i]) BY <1>2 DEF Asking
<1>11. \A i, j \in DOMAIN runtime' : Asks(runtime'[i]) /\ Asks(runtime'[j]) => i = j
 <2> SUFFICES ASSUME NEW i \in DOMAIN runtime', NEW j \in DOMAIN runtime', Asks(runtime'[i]),
                     Asks(runtime'[j])
     PROVE  i = j
  OBVIOUS
 <2>1. /\ i - Len(runtime) \in DOMAIN events /\ i \in Nat /\ Asks(events[i - Len(runtime)])
       /\ j - Len(runtime) \in DOMAIN events /\ j \in Nat /\ Asks(events[j - Len(runtime)])
  BY <1>9, <1>10
 <2>2. i - Len(runtime) = j - Len(runtime) BY <1>8, <2>1
 <2> QED BY <1>9, <2>1, <2>2
<1>12. ~(ingesting' # None /\ Asks(ingesting'.event)) BY <1>1, <1>2 DEF Asking
<1>13. /\ \A d, e \in DOMAIN contexts' : Running(d)' /\ Running(e)' => d = e
       /\ \A i, j \in DOMAIN intents' : IsWork(intents'[i]) /\ IsWork(intents'[j]) => i = j
 BY <1>1, <1>4 DEF AllIdle, Calm
<1> QED BY <1>3, <1>4, <1>6, <1>11, <1>12, <1>13 DEF Calm

LEMMA CalmByRead == ASSUME Typed, Serene, Calm, IngestRead PROVE Calm'
<1>1. /\ ingesting = None /\ ingesting' # None
      /\ ingesting'.event = runtime[1] /\ 1 \in DOMAIN runtime
      /\ \A i \in DOMAIN runtime' : /\ i + 1 \in DOMAIN runtime /\ runtime'[i] = runtime[i + 1]
                                    /\ i \in Nat
      /\ UNCHANGED <<setting, thread, intents, job, contexts, spent>>
 BY IngestReadIs DEF IngestRead, worker
<1>2. Asking' => Asking BY <1>1 DEF Asking
<1>3. /\ (Serving' <=> Serving) /\ (Ordered' <=> Ordered) /\ (AllIdle' <=> AllIdle)
      /\ Steps' /\ Orders'
 BY <1>1 DEF Serving, Ordered, AllIdle, Running, Calm, Steps, Orders
<1>4. \A i, j \in DOMAIN runtime' : Asks(runtime'[i]) /\ Asks(runtime'[j]) => i = j
 <2> SUFFICES ASSUME NEW i \in DOMAIN runtime', NEW j \in DOMAIN runtime', Asks(runtime'[i]),
                     Asks(runtime'[j])
     PROVE  i = j
  OBVIOUS
 <2>1. i + 1 = j + 1 /\ i \in Nat /\ j \in Nat BY <1>1 DEF Calm
 <2> QED BY <2>1
<1>5. Asks(ingesting'.event) => \A i \in DOMAIN runtime' : ~Asks(runtime'[i])
 <2> SUFFICES ASSUME NEW i \in DOMAIN runtime', Asks(runtime[1]), Asks(runtime'[i])
     PROVE  FALSE
  BY <1>1
 <2>1. i + 1 = 1 /\ i \in Nat BY <1>1 DEF Calm
 <2>2. i \in 1..Len(runtime')
  <3>1. runtime' = Tail(runtime) /\ runtime \in Seq(EventsOf(Turns)) /\ runtime # << >>
   BY DEF IngestRead, Typed, RuntimeTyped
  <3>2. runtime' \in Seq(EventsOf(Turns)) BY <3>1, HeadTailProperties
  <3> QED BY <3>2, LenProperties
 <2> QED BY <2>1, <2>2
<1>6. /\ \A d, e \in DOMAIN contexts' : Running(d)' /\ Running(e)' => d = e
      /\ \A i, j \in DOMAIN intents' : IsWork(intents'[i]) /\ IsWork(intents'[j]) => i = j
 BY <1>1 DEF Calm, Running
<1>7. /\ Serving' \/ Ordered' \/ Asking' => AllIdle'
      /\ Serving' => ~Ordered' /\ ~Asking'
      /\ Ordered' => ~Asking'
 BY <1>2, <1>3 DEF Calm
<1> QED BY <1>3, <1>4, <1>5, <1>6, <1>7 DEF Calm

LEMMA WrittenIs ==
  ASSUME Typed, IngestWrite
  PROVE /\ ingesting # None /\ ingesting' = None
        /\ ingesting.event \in EventsOf(Turns)
        /\ ingesting.session \in {NoSession} \cup SessionsOf(Turns)
        /\ UNCHANGED <<setting, job, directory, agents, breaker, spent, history>>
        /\ thread' = IF Applies(ingesting.event, ingesting.session)
                     THEN [thread EXCEPT !.session = NextSession(ingesting.event, ingesting.session)]
                     ELSE thread
        /\ \/ UNCHANGED intents
           \/ /\ Asks(ingesting.event)
              /\ DOMAIN intents = 1..Len(intents) /\ DOMAIN intents' = 1..Len(intents) + 1
              /\ Len(intents) \in Nat
              /\ \A i \in DOMAIN intents : intents'[i] = intents[i]
              /\ intents'[Len(intents) + 1] = [type |-> "compact"]
<1> DEFINE event == ingesting.event
           session == ingesting.session
           intent == [type |-> "compact"]
<1>1. /\ ingesting # None /\ ingesting' = None
      /\ UNCHANGED <<setting, job, directory, agents, breaker, spent, history>>
      /\ thread' = IF Applies(event, session)
                   THEN [thread EXCEPT !.session = NextSession(event, session)] ELSE thread
      /\ intents' = IF AsksCompaction(event, session) THEN Append(intents, intent) ELSE intents
 BY DEF IngestWrite, worker
<1>2. AsksCompaction(event, session) => Asks(event) BY DEF AsksCompaction, Asks
<1>3. intents \in Seq(IntentsOf(Turns)) BY DEF Typed, IntentsTyped
<1>4. ingesting.event \in EventsOf(Turns) /\ ingesting.session \in {NoSession} \cup SessionsOf(Turns)
 BY <1>1 DEF Typed, IngestingTyped
<1> HIDE DEF intent
<1>5. intents' = Append(intents, intent) =>
         /\ DOMAIN intents = 1..Len(intents) /\ DOMAIN intents' = 1..Len(intents) + 1
         /\ Len(intents) \in Nat
         /\ \A i \in DOMAIN intents : intents'[i] = intents[i]
         /\ intents'[Len(intents) + 1] = intent
 BY <1>3, AppendedTo
<1> QED BY <1>1, <1>2, <1>4, <1>5 DEF intent

LEMMA CalmByWrite == ASSUME Typed, Serene, Calm, IngestWrite PROVE Calm'
<1>1. /\ ingesting # None /\ ingesting' = None
      /\ UNCHANGED <<setting, job, agents, spent>>
      /\ \/ UNCHANGED intents
         \/ /\ Asks(ingesting.event)
            /\ DOMAIN intents = 1..Len(intents) /\ DOMAIN intents' = 1..Len(intents) + 1
            /\ Len(intents) \in Nat
            /\ \A i \in DOMAIN intents : intents'[i] = intents[i]
            /\ intents'[Len(intents) + 1] = [type |-> "compact"]
 BY WrittenIs
<1>2. UNCHANGED <<contexts, runtime>> /\ (AllIdle' <=> AllIdle) /\ Steps' /\ (Serving' <=> Serving)
 BY <1>1 DEF AllIdle, Running, Calm, Steps, Serving, agents
<1>3. Asking' => Asking BY <1>1, <1>2 DEF Asking
<1>4. /\ \A i, j \in DOMAIN runtime' : Asks(runtime'[i]) /\ Asks(runtime'[j]) => i = j
      /\ \A c, d \in DOMAIN contexts' : Running(c)' /\ Running(d)' => c = d
 BY <1>2 DEF Calm, Running
<1>5. CASE UNCHANGED intents
 <2>1. /\ (Ordered' <=> Ordered) /\ Orders'
       /\ \A i, j \in DOMAIN intents' : IsWork(intents'[i]) /\ IsWork(intents'[j]) => i = j
  BY <1>1, <1>5 DEF Ordered, Calm, Orders
 <2>2. /\ Serving' \/ Ordered' \/ Asking' => AllIdle'
       /\ Serving' => ~Ordered' /\ ~Asking'
       /\ Ordered' => ~Asking'
  BY <1>2, <1>3, <2>1 DEF Calm
 <2> QED BY <1>1, <1>2, <1>4, <2>1, <2>2 DEF Calm
<1>6. CASE ~UNCHANGED intents
 <2>1. /\ Asking /\ AllIdle /\ ~Serving /\ ~Ordered
       /\ \A i \in DOMAIN runtime : ~Asks(runtime[i])
  BY <1>1, <1>6 DEF Asking, Calm
 <2>2. ~Asking' BY <1>1, <1>2, <2>1 DEF Asking
 <2>3. \A i \in DOMAIN intents' : i \in DOMAIN intents \/ i = Len(intents) + 1 BY <1>1, <1>6
 <2>4. \A i \in DOMAIN intents : ~IsWork(intents'[i]) BY <1>1, <1>6, <2>1 DEF Ordered
 <2>5. Orders' BY <1>1, <1>6, <2>3 DEF Orders, Calm
 <2>6. \A i, j \in DOMAIN intents' : IsWork(intents'[i]) /\ IsWork(intents'[j]) => i = j
  BY <2>3, <2>4
 <2> QED BY <1>1, <1>2, <1>4, <2>1, <2>2, <2>5, <2>6 DEF Calm
<1> QED BY <1>5, <1>6

LEMMA RestartIs ==
  ASSUME Typed, Restart
  PROVE /\ intents' = << >> /\ job' = None /\ runtime' = << >> /\ ingesting' = None
        /\ \A p \in Providers : sessions'[p] = 0
        /\ DOMAIN contexts' = DOMAIN contexts
        /\ \A c \in DOMAIN contexts : /\ contexts'[c].provider = contexts[c].provider
                                      /\ ~contexts'[c].up /\ ~Running(c)'
        /\ UNCHANGED <<setting, thread, directory, conversations, history>>
        /\ \A r \in Requests : r # "restarts" => spent'[r] = spent[r]
        /\ Spend("restarts")
<1>1. /\ intents' = << >> /\ job' = None /\ runtime' = << >> /\ ingesting' = None
      /\ sessions' = [p \in Providers |-> 0]
      /\ contexts' = [c \in DOMAIN contexts |-> Down(contexts[c])]
      /\ UNCHANGED <<setting, thread, directory, conversations, history>>
      /\ Spend("restarts")
 BY DEF Restart
<1>2. \A c \in DOMAIN contexts : /\ contexts'[c].provider = contexts[c].provider
                                 /\ ~contexts'[c].up
 <2>1. NoTurn \in Turns BY DEF Turns
 <2> QED BY <1>1, <2>1, ContextsAre, DownIs DEF Typed
<1>3. \A r \in Requests : r # "restarts" => spent'[r] = spent[r] BY <1>1, SpendIs DEF Requests
<1> QED BY <1>1, <1>2, <1>3 DEF Running

LEMMA CalmByRestart == ASSUME Typed, Serene, Calm, Restart PROVE Calm'
<1>1. /\ intents' = << >> /\ job' = None /\ runtime' = << >> /\ ingesting' = None
      /\ DOMAIN contexts' = DOMAIN contexts
      /\ \A c \in DOMAIN contexts : ~Running(c)'
 BY RestartIs
<1>2. DOMAIN << >> = {} OBVIOUS
<1>3. Steps' /\ Orders' /\ ~Serving' /\ ~Ordered' /\ ~Asking'
 BY <1>1, <1>2 DEF Steps, Orders, Serving, Ordered, Asking
<1> QED BY <1>1, <1>3, CalmRests

LEMMA CalmInit == ASSUME Init PROVE Calm /\ Single
<1>1. intents = << >> /\ job = None /\ contexts = << >> /\ runtime = << >> /\ ingesting = None
 BY DEF Init
<1>2. DOMAIN << >> = {} OBVIOUS
<1> QED BY <1>1, <1>2 DEF Calm, Single, Steps, Orders, Serving, Ordered, Asking, AllIdle

LEMMA CalmStays == ASSUME Calm, UNCHANGED vars PROVE Calm'
BY DEF Calm, Steps, Orders, Serving, Ordered, Asking, AllIdle, Running, vars

LEMMA SettingStays == ASSUME [Next]_vars PROVE UNCHANGED setting
<1>1. CASE User
 BY <1>1, Zenon DEF User, RequestTurn, RequestMode, RequestCompaction, RequestStop,
     RequestInterrupt, Ask
<1>2. CASE Reactor
 BY <1>2, Zenon DEF Reactor, Take, Ensure, Start, Bind, Send, Interrupt, Stop, Mark, MarkReady,
     Clear, Aside
<1>3. CASE Ingestion \/ Restart \/ UNCHANGED vars
 BY <1>3, Zenon DEF Ingestion, IngestRead, IngestWrite, Restart, vars
<1>4. ASSUME NEW c, Agent(c) \/ LoseSession(c) PROVE UNCHANGED setting
 BY <1>4, Zenon DEF Agent, CompleteTurn, CompleteOther, LoseSession
<1> QED BY <1>1, <1>2, <1>3, <1>4, Zenon DEF Next

LEMMA SoleTurnEnds ==
  ASSUME Single, NEW c \in DOMAIN contexts, Agent(c)
  PROVE \E state \in {"completed", "failed", "interrupted"}, full \in BOOLEAN :
           CompleteTurn(c, state, full)
BY Zenon DEF Agent, Single

LEMMA SingleByStart ==
  ASSUME Single, NEW p, NEW mode, NEW cursor, NEW prompt, Begins(p, mode, cursor, prompt)
  PROVE Single'
<1>1. \A c \in DOMAIN contexts' : c \in DOMAIN contexts \/ c = Len(contexts) + 1 BY DEF Begins
<1>2. /\ \A c \in DOMAIN contexts : contexts'[c] = contexts[c]
      /\ contexts'[Len(contexts) + 1].others = {}
 BY DEF Begins
<1> QED BY <1>1, <1>2 DEF Single

LEMMA SingleBySend ==
  ASSUME Typed, Calm, Single, SendsTurn PROVE Single'
<1> DEFINE c == RoutedContext
<1>1. c \in DOMAIN contexts BY RoutedIs DEF SendsTurn
<1>2. AllIdle BY ServingIs, Zenon DEF SendsTurn
<1>3. contexts[c].up BY Zenon DEF SendsTurn, AcceptsTurn
<1>4. contexts[c].turn = NoTurn /\ contexts[c].others = {}
 BY <1>1, <1>2, <1>3, Zenon DEF AllIdle, Running, Single
<1>5. contexts' = [contexts EXCEPT ![c].turn = job.turn, ![c].interrupted = FALSE,
                       ![c].others = (@ \cup {contexts[c].turn}) \ {NoTurn}]
 BY Zenon DEF SendsTurn, SendTurn
<1>6. contexts[c] \in ContextsOf(Turns, N) BY <1>1, ContextsAre DEF Typed
<1> HIDE DEF c
<1>7. /\ DOMAIN contexts' = DOMAIN contexts
      /\ \A d \in DOMAIN contexts : d # c => contexts'[d] = contexts[d]
      /\ contexts'[c].others = (contexts[c].others \cup {contexts[c].turn}) \ {NoTurn}
 BY <1>1, <1>5, <1>6 DEF Typed, AgentsTyped, ContextsOf
<1>8. contexts'[c].others = {} BY <1>4, <1>7
<1> QED BY <1>7, <1>8 DEF Single

LEMMA SingleNext == ASSUME Typed, Typed', Serene, Calm, Single, [Next]_vars PROVE Single'
<1>0. ASSUME UNCHANGED contexts PROVE Single' BY <1>0 DEF Single
<1>1. CASE User \/ Ingestion \/ UNCHANGED vars
 <2>1. UNCHANGED contexts
  BY <1>1, Zenon DEF User, RequestTurn, RequestMode, RequestCompaction, RequestStop,
     RequestInterrupt, Ask, agents, Ingestion, IngestRead, IngestWrite, vars
 <2> QED BY <1>0, <2>1
<1>2. CASE Take \/ Ensure \/ Bind \/ Mark \/ MarkReady \/ Clear
 <2>1. UNCHANGED contexts
  BY <1>2, Zenon DEF Take, Ensure, Bind, Mark, MarkReady, Clear, NoAgent, agents
 <2> QED BY <1>0, <2>1
<1>3. CASE Start BY <1>3, StartIs, SingleByStart
<1>4. ASSUME Recover, job # None, UNCHANGED <<setting, intents, ingesting>> PROVE Single'
 BY <1>4, RecoverIs, SingleByStart
<1>5. CASE Send
 <2>1. CASE Recover BY <1>4, <1>5, <2>1, SendIs
 <2>2. CASE Fail /\ UNCHANGED <<agents, directory, spent>> BY <1>0, <2>2 DEF agents
 <2> QED BY <1>5, <2>1, <2>2, SendIs, SingleBySend
<1>6. CASE Interrupt
 <2>1. CASE Recover BY <1>4, <1>6, <2>1, InterruptIs
 <2>2. ASSUME DOMAIN contexts' = DOMAIN contexts,
              \A c \in DOMAIN contexts :
                 \/ contexts'[c] = contexts[c]
                 \/ \E b : contexts'[c] = [contexts[c] EXCEPT !.interrupted = b]
     PROVE  Single'
  <3>1. \A c \in DOMAIN contexts : contexts[c] \in ContextsOf(Turns, N) BY ContextsAre DEF Typed
  <3>2. \A c \in DOMAIN contexts : contexts'[c].others = contexts[c].others
   BY <2>2, <3>1 DEF ContextsOf
  <3> QED BY <2>2, <3>2 DEF Single
 <2> QED BY <1>6, <2>1, <2>2, InterruptIs
<1>7. NoTurn \in Turns /\ \A c \in DOMAIN contexts : contexts[c] \in ContextsOf(Turns, N)
 BY ContextsAre DEF Typed, Turns
<1>8. CASE Stop
 <2>1. CASE Routed /\ StopSession(RoutedContext)
  <3>1. RoutedContext \in DOMAIN contexts BY <2>1, RoutedIs
  <3>2. /\ DOMAIN contexts' = DOMAIN contexts
        /\ \A d \in DOMAIN contexts : d # RoutedContext => contexts'[d] = contexts[d]
        /\ contexts'[RoutedContext] = Down(contexts[RoutedContext])
   BY <2>1, <3>1, StopSessionIs
  <3>3. contexts'[RoutedContext].others = {} BY <1>7, <3>1, <3>2, DownIs
  <3> QED BY <3>2, <3>3 DEF Single
 <2> QED BY <1>0, <1>8, <2>1, StopIs DEF agents
<1>9. CASE Restart
 <2>1. contexts' = [c \in DOMAIN contexts |-> Down(contexts[c])] BY <1>9 DEF Restart
 <2>2. \A c \in DOMAIN contexts : contexts'[c].others = {} BY <1>7, <2>1, DownIs
 <2>3. DOMAIN contexts' = DOMAIN contexts BY <2>1
 <2> QED BY <2>2, <2>3 DEF Single
<1>10. ASSUME NEW c \in DOMAIN contexts, Agent(c) \/ LoseSession(c) PROVE Single'
 <2>1. ~LoseSession(c) BY SereneIs DEF LoseSession
 <2>2. PICK state \in {"completed", "failed", "interrupted"}, full \in BOOLEAN :
          CompleteTurn(c, state, full)
  BY <1>10, <2>1, SoleTurnEnds
 <2>3. /\ DOMAIN contexts' = DOMAIN contexts
       /\ \A d \in DOMAIN contexts : d # c => contexts'[d] = contexts[d]
       /\ contexts'[c].others = contexts[c].others
  BY <2>2, CompletesIs, Zenon
 <2> QED BY <2>3 DEF Single
<1> QED BY <1>1, <1>2, <1>3, <1>5, <1>6, <1>8, <1>9, <1>10 DEF Next, Reactor

LEMMA CalmNext == ASSUME Typed, Typed', Serene, Calm, Single, [Next]_vars PROVE Calm' /\ Serene'
<1>1. Serene' BY SettingStays DEF Serene
<1> SUFFICES Calm' BY <1>1
<1>2. CASE User BY <1>2, CalmByUser
<1>3. CASE Reactor
 BY <1>3, CalmByTake, CalmByQuiet, CalmByStart, CalmBySend, CalmByInterrupt, CalmByStop DEF Reactor
<1>4. CASE Ingestion BY <1>4, CalmByRead, CalmByWrite DEF Ingestion
<1>5. CASE Restart BY <1>5, CalmByRestart
<1>6. ASSUME NEW c \in DOMAIN contexts, Agent(c) PROVE Calm'
 <2>1. PICK state \in {"completed", "failed", "interrupted"}, full \in BOOLEAN :
          CompleteTurn(c, state, full)
  BY <1>6, SoleTurnEnds
 <2> QED BY <2>1, CalmByComplete
<1>7. ASSUME NEW c \in DOMAIN contexts, LoseSession(c) PROVE Calm'
 BY <1>7, SereneIs DEF LoseSession
<1>8. CASE UNCHANGED vars BY <1>8, CalmStays
<1> QED BY <1>2, <1>3, <1>4, <1>5, <1>6, <1>7, <1>8 DEF Next

--------------------
(* Which turns ended, and which were forgotten.                             *)
LEMMA HistoryEnds ==
  ASSUME HistoryTyped
  PROVE /\ UNCHANGED history => UNCHANGED <<history.ended, history.forgotten>>
        /\ \A turns : Lose(turns) => UNCHANGED <<history.ended, history.forgotten>>
        /\ \A turns : SucceedForgetting(turns) =>
              UNCHANGED history.ended /\ history'.forgotten = history.forgotten \cup turns
        /\ Succeed => UNCHANGED <<history.ended, history.forgotten>>
        /\ \A ps : FailTrying(ps) => UNCHANGED <<history.ended, history.forgotten>>
        /\ Fail => UNCHANGED <<history.ended, history.forgotten>>
        /\ \A p : Tries(p) => UNCHANGED <<history.ended, history.forgotten>>
        /\ PassesOver => UNCHANGED <<history.ended, history.forgotten>>
<1>1. \A turns : Lose(turns) => UNCHANGED <<history.ended, history.forgotten>>
 BY DEF Lose, HistoryTyped
<1>2. \A turns : SucceedForgetting(turns) =>
         UNCHANGED history.ended /\ history'.forgotten = history.forgotten \cup turns
 BY DEF SucceedForgetting, HistoryTyped
<1>3. Succeed => UNCHANGED <<history.ended, history.forgotten>> BY <1>2 DEF Succeed
<1>4. \A ps : FailTrying(ps) => UNCHANGED <<history.ended, history.forgotten>>
 <2> SUFFICES ASSUME NEW ps, FailTrying(ps)
     PROVE  UNCHANGED <<history.ended, history.forgotten>>
  OBVIOUS
 <2>1. \/ history' = [history EXCEPT !.failed = @ + 1, !.tried = @ \cup ps]
       \/ history' = [history EXCEPT !.lost = @ \cup ({job.turn} \ {NoTurn}), !.tried = @ \cup ps]
  BY DEF FailTrying
 <2> QED BY <2>1 DEF HistoryTyped
<1>5. Fail => UNCHANGED <<history.ended, history.forgotten>> BY <1>4 DEF Fail
<1>6. \A p : Tries(p) => UNCHANGED <<history.ended, history.forgotten>> BY DEF Tries, HistoryTyped
<1>7. PassesOver => UNCHANGED <<history.ended, history.forgotten>> BY DEF PassesOver, HistoryTyped
<1> QED BY <1>1, <1>2, <1>3, <1>4, <1>5, <1>6, <1>7

\* Only the reactor sends turns, and only a turn that ends adds to Ended.
LEMMA ReactorEnds ==
  ASSUME Typed, Typed', Serene, Calm, Reactor
  PROVE /\ Ended' = Ended
        /\ UNCHANGED history.forgotten \/ SendsTurn
        /\ SendsTurn => history'.forgotten = history.forgotten \cup (Ended \ Memory(RoutedContext))
<1>1. UNCHANGED setting
 BY DEF Reactor, Take, Ensure, Start, Bind, Send, Interrupt, Stop, Mark, MarkReady, Clear, Aside
<1>2. SendsTurn => /\ history'.ended = history.ended
                   /\ history'.forgotten = history.forgotten \cup (Ended \ Memory(RoutedContext))
 BY HistoryEnds DEF SendsTurn, Ended, Typed
<1>3. UNCHANGED <<history.ended, history.forgotten>> \/ SendsTurn
 <2>1. CASE Take BY <2>1, HistoryEnds DEF Take, Typed
 <2>2. CASE Ensure BY <2>2, HistoryEnds DEF Ensure, Go, Typed
 <2>3. CASE Start
  <3>1. Tries(job.start.provider) BY <2>3, StartIs DEF Tries
  <3> QED BY <3>1, HistoryEnds DEF Typed
 <2>4. CASE Bind BY <2>4, HistoryEnds DEF Bind, Go, Typed
 <2>5. ASSUME Recover, job # None PROVE UNCHANGED <<history.ended, history.forgotten>>
  <3>1. Tries(directory.provider) BY <1>1, <2>5, RecoverIs DEF Tries
  <3> QED BY <3>1, HistoryEnds DEF Typed
 <2>6. CASE Send BY <2>5, <2>6, SendIs, HistoryEnds DEF Typed
 <2>7. CASE Interrupt BY <2>5, <2>7, InterruptIs, HistoryEnds DEF Typed
 <2>8. CASE Stop BY <2>8, StopIs, HistoryEnds DEF Typed
 <2>9. CASE Mark BY <2>9, HistoryEnds DEF Mark, Go, Typed
 <2>10. CASE MarkReady BY <2>10, HistoryEnds DEF MarkReady, Go, Typed
 <2>11. CASE Clear BY <2>11, HistoryEnds DEF Clear, Go, Typed
 <2> QED BY <2>1, <2>2, <2>3, <2>4, <2>6, <2>7, <2>8, <2>9, <2>10, <2>11 DEF Reactor
<1> QED BY <1>1, <1>2, <1>3 DEF Ended

(* The turns that ended grow by the one that ends.                          *)
LEMMA CompletionEnds ==
  ASSUME Typed, NEW c \in DOMAIN contexts, NEW state \in {"completed", "failed", "interrupted"},
    NEW full \in BOOLEAN, CompleteTurn(c, state, full)
  PROVE /\ Ended' \subseteq Ended \cup {contexts[c].turn}
        /\ contexts[c].turn > setting.turns => Ended' = Ended
        /\ UNCHANGED history.forgotten
<1>1. history'.ended = history.ended \cup {contexts[c].turn} /\ UNCHANGED <<setting, history.forgotten>>
 BY CompletesIs
<1>2. setting.turns \in Nat BY TurnsAreIds DEF Typed
<1> QED BY <1>1, <1>2 DEF Ended


(* A session that is written is none that is absent.                        *)
LEMMA ReadyIsShown ==
  ASSUME Typed, NEW p \in Providers, NEW mode \in Modes
  PROVE /\ Ready(p, mode) # NoSession /\ Ready(p, mode).provider = p
        /\ Ready(p, mode).status = "ready" /\ Ready(p, mode).mode = mode
<1>1. Ready(p, mode) \in SessionsOf(Turns) BY ReadyIs DEF Turns
<1>2. Turns \subseteq TurnIds BY TurnsAreIds DEF Typed
<1> QED BY <1>1, <1>2, RecordsAreSomething DEF Ready

LEMMA NextIsShown ==
  ASSUME Typed, NEW event \in EventsOf(Turns), NEW session \in {NoSession} \cup SessionsOf(Turns),
    ~IsUsage(event), Applies(event, session)
  PROVE /\ NextSession(event, session) # NoSession
        /\ NextSession(event, session).provider = event.provider
        /\ ~Exits(event) => NextSession(event, session).status # "stopped"
        /\ NextSession(event, session).mode =
              IF session = NoSession THEN "full-access" ELSE session.mode
<1> DEFINE next == [status |-> NextStatus(event, session),
                    activeTurn |-> NextActiveTurn(event, session),
                    mode |-> IF session = NoSession THEN "full-access" ELSE session.mode,
                    provider |-> event.provider]
<1>1. NextSession(event, session) = next BY DEF NextSession, IsUsage
<1>2. /\ event.turn \in Turns /\ event.provider \in Providers
      /\ event.type = "session.state.changed" => event.state \in {"starting", "ready"}
      /\ event.type \in {"session.exited", "turn.completed", "session.state.changed",
                         "session.started", "turn.started", "runtime.error"}
 BY DEF EventsOf, EventTypes, EventStates, IsUsage
<1>3. /\ NextStatus(event, session) \in Statuses
      /\ ~Exits(event) => NextStatus(event, session) # "stopped"
 BY <1>2 DEF NextStatus, Statuses, Exits
<1>4. NextActiveTurn(event, session) \in Turns BY <1>2, NextSessionIs DEF NextActiveTurn, Turns
<1>5. (IF session = NoSession THEN "full-access" ELSE session.mode) \in Modes
 BY DEF SessionsOf, Modes
<1>6. next \in SessionsOf(Turns) BY <1>2, <1>3, <1>4, <1>5 DEF SessionsOf
<1>7. Turns \subseteq TurnIds BY TurnsAreIds DEF Typed
<1>8. next # NoSession BY <1>6, <1>7, RecordsAreSomething
<1> QED BY <1>1, <1>3, <1>8

--------------------
(* Without compactions.                                                     *)
LEMMA PlainlyIs ==
  ASSUME Typed, NEW p, Plainly(p)
  PROVE /\ p \in Providers /\ Serene /\ setting.providers = {p} /\ p # None
        /\ ~Spend("compacts") /\ ~Spend("full")
        /\ p = "claudeCode" => ~Spend("restarts")
<1>1. Serene /\ setting.providers = {p} /\ setting.compacts = 0 /\ setting.full = 0
      /\ (p = "claudeCode" => setting.restarts = 0)
 BY DEF Plainly
<1>2. setting.providers \subseteq Providers
 BY SessionsAssumption DEF Typed, BoundsTyped, Providers
<1>3. /\ ~Spend("compacts") /\ ~Spend("full")
      /\ p = "claudeCode" => ~Spend("restarts")
 BY <1>1, SpendIs DEF Requests
<1>4. \A q \in Providers : q # None BY NoneAssumption
<1> QED BY <1>1, <1>2, <1>3, <1>4

LEMMA CarriesIs ==
  ASSUME NEW p \in Providers, NEW cursor
  PROVE Carries(p, cursor) <=>
           \/ Ended = {}
           \/ /\ cursor # None /\ cursor.provider = p
              /\ p = "codex" => Ended \subseteq conversations[cursor.conversation]
              /\ p = "claudeCode" => Ended \subseteq cursor.at
BY DEF Carries, Recalled, Providers

\* The agents and the router, when no turn ends and no session starts.
LEMMA ContextsStay ==
  ASSUME NEW p \in Providers, PlainContexts(p), UNCHANGED <<sessions, directory, conversations>>,
    Ended' = Ended, DOMAIN contexts' = DOMAIN contexts,
    \A c \in DOMAIN contexts : /\ contexts'[c].provider = contexts[c].provider
                               /\ contexts'[c].cursor = contexts[c].cursor
                               /\ contexts'[c].conversation = contexts[c].conversation
                               /\ Running(c)' => Running(c),
    sessions[p] # 0 => sessions[p] \in DOMAIN contexts
  PROVE PlainContexts(p)'
<1>1. /\ \A q \in Providers : sessions'[q] # 0 => q = p
      /\ \A c \in DOMAIN contexts' : contexts'[c].provider = p
      /\ directory' # None => directory'.provider = p
      /\ \A c \in DOMAIN contexts' : Running(c)' => c = sessions'[p]
      /\ p = "claudeCode" => Ended' = {} \/ sessions'[p] # 0
 BY DEF PlainContexts
<1>2. p = "codex" => Ended' = {} \/ (directory' # None /\ Carries(p, directory.cursor)')
 BY DEF PlainContexts, Carries, Recalled
<1>3. ASSUME sessions[p] # 0
    PROVE  /\ directory' # None /\ Carries(p, contexts[sessions[p]].cursor)'
           /\ Ended' \subseteq conversations'[contexts'[sessions'[p]].conversation]
           /\ contexts'[sessions'[p]].cursor.provider = p
           /\ p = "codex" =>
                /\ contexts'[sessions'[p]].cursor.conversation = contexts'[sessions'[p]].conversation
                /\ directory'.cursor.conversation = contexts'[sessions'[p]].conversation
                /\ directory'.cursor.provider = p
 BY <1>3 DEF PlainContexts, Carries, Recalled
<1> QED BY <1>1, <1>2, <1>3 DEF PlainContexts

LEMMA SessionsStay ==
  ASSUME NEW p, PlainSessions(p), UNCHANGED <<Session, ingesting, runtime>>,
    Ended' = Ended, AllIdle => AllIdle'
  PROVE PlainSessions(p)'
BY DEF PlainSessions, Shows

\* A request ends, or goes on.
LEMMA RequestsEnd ==
  ASSUME NEW p, PlainRequests(p), UNCHANGED intents, job' = None PROVE PlainRequests(p)'
BY DEF PlainRequests

LEMMA PlainFails ==
  ASSUME Typed, NEW p \in Providers, Plain(p), UNCHANGED <<intents, thread, ingesting, runtime>>,
    job' = None, Ended' = Ended, UNCHANGED <<sessions, directory, conversations>>,
    DOMAIN contexts' = DOMAIN contexts,
    \A c \in DOMAIN contexts : /\ contexts'[c].provider = contexts[c].provider
                               /\ contexts'[c].cursor = contexts[c].cursor
                               /\ contexts'[c].conversation = contexts[c].conversation
                               /\ Running(c)' => Running(c)
  PROVE Plain(p)'
<1>1. sessions[p] # 0 => sessions[p] \in DOMAIN contexts BY ContextsAre DEF Typed
<1>2. AllIdle => AllIdle' BY DEF AllIdle
<1>3. UNCHANGED Session BY DEF Session
<1> QED BY <1>1, <1>2, <1>3, ContextsStay, SessionsStay, RequestsEnd DEF Plain

\* The same, of a step that leaves the agents alone.
LEMMA PlainQuiet ==
  ASSUME Typed, NEW p \in Providers, Plain(p), PlainRequests(p)',
    UNCHANGED <<Session, ingesting, agents, directory>>, Ended' = Ended
  PROVE Plain(p)'
<1>1. sessions[p] # 0 => sessions[p] \in DOMAIN contexts BY ContextsAre DEF Typed
<1>2. UNCHANGED <<sessions, contexts, conversations, runtime>> BY DEF agents
<1>3. \A c \in DOMAIN contexts : Running(c)' => Running(c) BY <1>2 DEF Running
<1>4. AllIdle => AllIdle' BY <1>2, <1>3 DEF AllIdle
<1> QED BY <1>1, <1>2, <1>3, <1>4, ContextsStay, SessionsStay DEF Plain

\* A provider starts a session that remembers what ended.
LEMMA PlainBegins ==
  ASSUME Typed, Typed', NEW p \in Providers, Plain(p), AllIdle, UNCHANGED <<thread, ingesting>>,
    Ended' = Ended, PlainRequests(p)',
    NEW mode, NEW cursor, NEW prompt, Carries(p, cursor), Begins(p, mode, cursor, prompt)
  PROVE Plain(p)'
<1> DEFINE n == Len(contexts) + 1
           new == contexts'[n]
<1>1. /\ Len(contexts) \in Nat /\ DOMAIN contexts = 1..Len(contexts) /\ DOMAIN contexts' = 1..n
      /\ \A c \in DOMAIN contexts : contexts'[c] = contexts[c]
      /\ sessions' = [sessions EXCEPT ![p] = n]
      /\ directory' # None /\ directory'.provider = p
      /\ new.provider = p /\ new.turn = NoTurn /\ directory'.cursor = new.cursor
      /\ new.cursor \in CursorsOf(Turns', N') /\ new.cursor.provider = p
      /\ conversations'[new.conversation] = Recalled(p, cursor)
      /\ p = "codex" => new.cursor.conversation = new.conversation
      /\ p = "claudeCode" /\ cursor # None /\ cursor.provider = p => new.cursor = cursor
 BY DEF Begins
<1>2. new.cursor # None
 <2>1. Turns' \subseteq TurnIds /\ N' \in Nat BY TurnsAreIdsThen DEF Typed, AgentsTyped, N
 <2> QED BY <1>1, <2>1, RecordsAreSomething
<1>3. /\ sessions'[p] = n /\ n # 0 /\ \A q \in Providers : q # p => sessions'[q] = sessions[q]
 BY <1>1 DEF Typed, AgentsTyped
<1>4. AllIdle'
 <2> SUFFICES ASSUME NEW c \in DOMAIN contexts' PROVE ~Running(c)' BY DEF AllIdle
 <2>1. CASE c = n BY <1>1, <2>1 DEF Running
 <2>2. CASE c # n BY <1>1, <2>2 DEF Running, AllIdle
 <2> QED BY <2>1, <2>2
<1>5. \A c \in DOMAIN contexts' : contexts'[c].provider = p
 <2> SUFFICES ASSUME NEW c \in DOMAIN contexts', c # n PROVE contexts'[c].provider = p BY <1>1
 <2>1. c \in DOMAIN contexts BY <1>1
 <2> QED BY <1>1, <2>1 DEF Plain, PlainContexts
<1>6. /\ Ended' \subseteq conversations'[new.conversation]
      /\ Ended' = {} \/ (p = "claudeCode" => Ended' \subseteq new.cursor.at)
 BY <1>1, CarriesIs DEF Recalled, Providers
<1> HIDE DEF n, new
<1>8. Carries(p, contexts[sessions[p]].cursor)' /\ Carries(p, directory.cursor)'
 BY <1>1, <1>2, <1>3, <1>6 DEF Carries, Recalled, Providers, new
<1>9. PlainContexts(p)'
 BY <1>1, <1>3, <1>4, <1>5, <1>6, <1>8 DEF PlainContexts, Plain, AllIdle, new
<1>10. PlainSessions(p)'
 <2> DEFINE S == EventsOf(Turns)
            events == StartEvents(p)
 <2>1. /\ events \in Seq(S) /\ runtime \in Seq(S) /\ runtime' = runtime \o events
       /\ \A i \in DOMAIN events : ~Asks(events[i]) /\ Lively(p, events[i]) /\ ~IsUsage(events[i])
  BY StartAnnounces, StartAsksNothing DEF Turns, Begins, Typed, RuntimeTyped
 <2> HIDE DEF S, events
 <2>2. \A i \in DOMAIN runtime' : \/ i \in DOMAIN runtime /\ runtime'[i] = runtime[i]
                                  \/ \E j \in DOMAIN events : runtime'[i] = events[j]
  BY <2>1, AppendedIs
 <2>3. \A i \in DOMAIN runtime' : /\ ~Exits(runtime'[i]) /\ runtime'[i].provider = p
                                  /\ IsUsage(runtime'[i]) => Session # NoSession
                                  /\ ~Asks(runtime'[i])
  BY <2>1, <2>2 DEF Plain, PlainSessions, Lively
 <2>4. UNCHANGED Session BY DEF Session
 <2> QED BY <1>4, <2>3, <2>4 DEF Plain, PlainSessions, Shows
<1> QED BY <1>9, <1>10 DEF Plain

LEMMA PlainByTake ==
  ASSUME Typed, Calm, NEW p \in Providers, Plain(p), Ended' = Ended, Take PROVE Plain(p)'
<1>1. /\ 1 \in DOMAIN intents
      /\ \A i \in DOMAIN intents' : i + 1 \in DOMAIN intents /\ intents'[i] = intents[i + 1]
      /\ intents[1] \in IntentsOf(Turns)
      /\ UNCHANGED <<thread, ingesting, agents, directory>>
      /\ job' # None =>
               /\ job'.type = intents[1].type
               /\ intents[1].type = "turn" => job'.step = "ensure"
               /\ intents[1].type = "compact" => job'.step = "stop"
               /\ intents[1].type = "mode" => job'.step = "ensure"
               /\ intents[1].type = "interrupt" => job'.step = "route"
               /\ intents[1].type \in {"mode", "interrupt"} => HasSession(Session)
 BY TakenIs
<1>2. intents[1].type \in {"turn", "mode", "interrupt"}
 BY <1>1 DEF Plain, PlainRequests, Calm, Orders, IntentsOf
<1>3. UNCHANGED Session BY <1>1 DEF Session
<1>4. job' # None => /\ job'.type # "compact" /\ (job'.type = "mode" => Session' # NoSession)
                     /\ job'.step \in {"ensure", "route"}
 BY <1>1, <1>2, <1>3 DEF HasSession
<1>5. \A i \in DOMAIN intents' : intents'[i].type # "compact" BY <1>1 DEF Plain, PlainRequests
<1>6. PlainRequests(p)' BY <1>4, <1>5 DEF PlainRequests
<1> QED BY <1>1, <1>3, <1>6, PlainQuiet

\* What ensureSessionForThread decides: a session resumed where the last one was.
LEMMA ResumesPlainly ==
  ASSUME Typed, Calm, NEW p \in Providers, Plainly(p), Plain(p), job # None, job.step = "ensure"
  PROVE Preferred = p /\ Carries(p, ResumeCursor)
<1>1. /\ job.type # "compact" /\ (job.type = "mode" => Session # NoSession)
      /\ job.type = "turn" => job.provider \in setting.providers
      /\ job.type # "turn" => job.provider = None
      /\ job.type \notin {"stop", "interrupt"}
 BY DEF Plain, PlainRequests, Calm, Steps
<1>2. job.type \in {"turn", "mode"} BY <1>1 DEF Typed, JobTyped, JobsOf
<1>3. setting.providers = {p} /\ p # None BY PlainlyIs
<1>4. Session # NoSession => Session.provider = p /\ Session.status # "stopped"
 BY DEF Plain, PlainSessions, Shows
<1>5. \/ job.type = "turn" /\ job.provider = p
      \/ job.type = "mode" /\ job.provider = None /\ Session # NoSession
 BY <1>1, <1>2, <1>3
<1>6. Preferred = p BY <1>3, <1>4, <1>5 DEF Preferred, SessionProvider
<1>7. CASE Session = NoSession BY <1>6, <1>7 DEF Plain, PlainSessions, Carries
<1>8. CASE Session # NoSession
 <2>1. HasSession(Session) /\ ~ProviderChanged
  BY <1>3, <1>4, <1>5, <1>8 DEF HasSession, ProviderChanged, SessionProvider
 <2>2. CASE Active # 0
  <3>1. Active = sessions[p] /\ sessions[p] # 0
   BY <2>2 DEF Active, Plain, PlainContexts, Providers
  <3>2. ResumeCursor = contexts[sessions[p]].cursor BY <2>1, <2>2, <3>1 DEF ResumeCursor
  <3> QED BY <1>6, <3>1, <3>2 DEF Plain, PlainContexts
 <2>3. CASE Active = 0
  <3> DEFINE stored == IF directory = None THEN None ELSE directory.cursor
  <3>1. sessions[p] = 0 BY <2>3 DEF Active, Plain, PlainContexts, Providers
  <3>2. \/ ResumeCursor = stored
        \/ ResumeCursor = WholeConversation(stored)
   BY <2>1, <2>3 DEF ResumeCursor
  <3>3. CASE Ended = {} BY <1>6, <3>3 DEF Carries
  <3>4. CASE Ended # {}
   <4>1. p = "codex" /\ directory # None /\ Carries(p, directory.cursor)
    BY <3>1, <3>4 DEF Plain, PlainContexts, Providers
   <4>2. stored # None /\ stored.provider = "codex" /\ stored = directory.cursor
    BY <3>4, <4>1 DEF Carries
   <4>3. WholeConversation(stored) = stored BY <4>2 DEF WholeConversation
   <4> QED BY <1>6, <3>2, <4>1, <4>2, <4>3
  <3> QED BY <3>3, <3>4
 <2> QED BY <2>2, <2>3
<1> QED BY <1>6, <1>7, <1>8

LEMMA PlainByEnsure ==
  ASSUME Typed, Calm, NEW p \in Providers, Plainly(p), Plain(p), Ended' = Ended, Ensure
  PROVE Plain(p)'
<1> DEFINE start == [provider |-> Preferred, mode |-> thread.mode, cursor |-> ResumeCursor,
                     prompt |-> {}, then |-> "bind"]
<1>1. /\ job # None /\ job.step = "ensure"
      /\ UNCHANGED <<thread, intents, ingesting, agents, directory>>
 BY DEF Ensure, NoDispatch, NoAgent, Aside
<1>2. Preferred = p /\ Carries(p, ResumeCursor) BY <1>1, ResumesPlainly
<1>3. \/ job' = None
      \/ Reuses /\ NextJob("send")
      \/ job' = [job EXCEPT !.step = "start", !.start = start]
 BY Ends DEF Ensure, AfterEnsure
<1>4. UNCHANGED <<Session, conversations>> BY <1>1 DEF Session, agents
<1>5. CASE job' = None BY <1>1, <1>4, <1>5, RequestsEnd, PlainQuiet DEF Plain
<1>6. CASE Reuses /\ NextJob("send")
 <2>1. job'.step = "send" /\ job'.type = job.type /\ Session # NoSession
  BY <1>1, <1>6, NextStep DEF Reuses, HasSession
 <2>2. PlainRequests(p)' BY <1>1, <1>4, <2>1 DEF Plain, PlainRequests
 <2> QED BY <1>1, <1>4, <2>2, PlainQuiet
<1>7. CASE job' = [job EXCEPT !.step = "start", !.start = start]
 <2>1. start.provider = p /\ start.cursor = ResumeCursor BY <1>2
 <2> HIDE DEF start
 <2>2. job'.step = "start" /\ job'.type = job.type /\ job'.start = start BY <1>1, <1>7, JobExcept
 <2>3. Carries(p, job.start.cursor)' BY <1>2, <1>4, <2>1, <2>2 DEF Carries, Recalled
 <2>4. PlainRequests(p)' BY <1>1, <1>4, <2>1, <2>2, <2>3 DEF Plain, PlainRequests
 <2> QED BY <1>1, <1>4, <2>4, PlainQuiet
<1> QED BY <1>3, <1>5, <1>6, <1>7

LEMMA PlainByStart ==
  ASSUME Typed, Typed', Calm, NEW p \in Providers, Plainly(p), Plain(p), Ended' = Ended, Start
  PROVE Plain(p)'
<1>1. /\ job # None /\ job.step = "start" /\ job.start \in StartsOf(Turns, N)
      /\ Begins(job.start.provider, job.start.mode, job.start.cursor, job.start.prompt)
      /\ job'.step = job.start.then /\ job'.type = job.type /\ job'.start = job.start
      /\ UNCHANGED <<thread, intents, ingesting>>
 BY StartIs DEF Plainly
<1>2. job.start.provider = p /\ Carries(p, job.start.cursor) BY <1>1 DEF Plain, PlainRequests
<1>3. AllIdle BY <1>1, ServingIs
<1>4. job.start.then \in {"bind", "ready"} BY <1>1 DEF StartsOf
<1>5. UNCHANGED Session BY <1>1 DEF Session
<1>6. PlainRequests(p)' BY <1>1, <1>2, <1>4, <1>5 DEF Plain, PlainRequests
<1> QED BY <1>1, <1>2, <1>3, <1>6, PlainBegins

LEMMA PlainByRecover ==
  ASSUME Typed, Typed', Calm, NEW p \in Providers, Plainly(p), Plain(p), Ended' = Ended,
    job # None, job.step \in {"send", "route"}, Recover,
    UNCHANGED <<thread, intents, setting, ingesting>>
  PROVE Plain(p)'
<1>1. /\ directory # None /\ ~Routed
      /\ Begins(directory.provider, directory.mode, directory.cursor, directory.prompt)
      /\ job'.step = job.step /\ job'.type = job.type
 BY RecoverIs DEF Plainly
<1>2. directory.provider = p /\ sessions[p] = 0 BY <1>1 DEF Routed, Plain, PlainContexts
<1>3. Carries(p, directory.cursor) BY <1>1, <1>2 DEF Plain, PlainContexts, Carries, Providers
<1>4. AllIdle
 <2>1. 0 \notin DOMAIN contexts BY ContextsAre DEF Typed
 <2> QED BY <1>2, <2>1 DEF AllIdle, Plain, PlainContexts
<1>5. UNCHANGED Session BY DEF Session
<1>6. PlainRequests(p)' BY <1>1, <1>5 DEF Plain, PlainRequests
<1> QED BY <1>1, <1>2, <1>3, <1>4, <1>6, PlainBegins

LEMMA PlainByBind ==
  ASSUME Typed, Calm, NEW p \in Providers, Plain(p), Ended' = Ended, Bind PROVE Plain(p)'
<1> DEFINE session == Ready(job.start.provider, job.start.mode)
<1>1. /\ job # None /\ job.step = "bind" /\ SetSession(session)
      /\ UNCHANGED <<intents, ingesting, agents, directory>>
      /\ job' = None \/ NextJob("send")
 BY Ends DEF Bind, AfterEnsure, NoAgent, Aside
<1>2. job.start.provider = p /\ job.start \in StartsOf(Turns, N)
 BY <1>1, JobIs DEF Plain, PlainRequests, Typed
<1>3. job.start.mode \in Modes BY <1>2 DEF StartsOf
<1>4. session # NoSession /\ session.provider = p /\ session.status = "ready"
 BY <1>2, <1>3, ReadyIsShown
<1> HIDE DEF session
<1>5. Session' = session BY <1>1 DEF SetSession, Session, Typed, ThreadTyped, ReadsOf
<1>6. PlainRequests(p)'
 <2>1. job' # None => job'.step = "send" /\ job'.type = job.type BY <1>1, NextStep
 <2> QED BY <1>1, <1>4, <1>5, <2>1 DEF Plain, PlainRequests
<1>7. UNCHANGED <<sessions, contexts, conversations, runtime>> BY <1>1 DEF agents
<1>8. PlainSessions(p)' BY <1>1, <1>4, <1>5, <1>7 DEF Plain, PlainSessions, Shows
<1>9. PlainContexts(p)'
 <2>1. sessions[p] # 0 => sessions[p] \in DOMAIN contexts BY ContextsAre DEF Typed
 <2>2. \A c \in DOMAIN contexts : Running(c)' => Running(c) BY <1>7 DEF Running
 <2> QED BY <1>1, <1>7, <2>1, <2>2, ContextsStay DEF Plain
<1> QED BY <1>6, <1>8, <1>9 DEF Plain

LEMMA PlainBySend ==
  ASSUME Typed, Typed', Calm, NEW p \in Providers, Plainly(p), Plain(p), Ended' = Ended, Send
  PROVE Plain(p)' /\ (SendsTurn => Ended \ Memory(RoutedContext) = {})
<1>1. /\ job # None /\ job.step = "send" /\ UNCHANGED <<thread, intents, setting, ingesting>>
      /\ \/ Recover
         \/ SendsTurn
         \/ Fail /\ UNCHANGED <<agents, directory, spent>>
 BY SendIs DEF Plainly
<1>2. CASE Recover /\ ~SendsTurn BY <1>1, <1>2, PlainByRecover
<1>3. CASE Fail /\ UNCHANGED <<agents, directory, spent>> /\ ~SendsTurn
 <2>1. job' = None /\ UNCHANGED Session BY <1>1, <1>3, Ends DEF Session
 <2> QED BY <1>1, <1>3, <2>1, RequestsEnd, PlainQuiet DEF Plain
<1>4. CASE SendsTurn
 <2> DEFINE c == RoutedContext
            e == Event("turn.started", directory.provider, job.turn)
 <2>1. /\ directory # None /\ directory.provider \in Providers
       /\ c = sessions[directory.provider] /\ c \in DOMAIN contexts
       /\ DOMAIN contexts' = DOMAIN contexts
       /\ \A d \in DOMAIN contexts : d # c => contexts'[d] = contexts[d]
       /\ \E o : contexts'[c] = [contexts[c] EXCEPT !.turn = job.turn, !.interrupted = FALSE,
                                     !.others = o]
       /\ DOMAIN runtime = 1..Len(runtime) /\ DOMAIN runtime' = 1..Len(runtime) + 1
       /\ Len(runtime) \in Nat
       /\ \A i \in DOMAIN runtime : runtime'[i] = runtime[i]
       /\ runtime'[Len(runtime) + 1] = e
       /\ job' = None
  BY <1>4, SendsTurnIs
 <2>2. directory.provider = p /\ c = sessions[p] /\ sessions[p] # 0
  <3>1. 0 \notin DOMAIN contexts BY ContextsAre DEF Typed
  <3> QED BY <2>1, <3>1 DEF Plain, PlainContexts
 <2>3. contexts[c] \in ContextsOf(Turns, N) BY <2>1, ContextsAre DEF Typed
 <2> HIDE DEF c, e
 <2>4. /\ contexts'[c].provider = contexts[c].provider /\ contexts'[c].cursor = contexts[c].cursor
       /\ contexts'[c].conversation = contexts[c].conversation
  BY <2>1, <2>3 DEF ContextsOf
 <2>5. /\ UNCHANGED <<sessions, conversations, thread, intents, ingesting>>
       /\ directory' = [directory EXCEPT !.cursor = contexts[c].cursor]
  BY <1>4 DEF SendsTurn, c
 <2>6. /\ directory' # None /\ directory'.provider = p /\ directory'.cursor = contexts[c].cursor
  <3>1. directory \in BindingsOf(Turns, N) /\ contexts[c].cursor \in CursorsOf(Turns, N)
   BY <2>1, <2>3, DirectoryIs DEF Typed, ContextsOf
  <3>2. directory' \in BindingsOf(Turns, N) /\ directory'.provider = directory.provider
        /\ directory'.cursor = contexts[c].cursor
   BY <2>5, <3>1 DEF BindingsOf
  <3>3. Turns \subseteq TurnIds /\ N \in Nat BY TurnsAreIds, ContextsAre DEF Typed
  <3> QED BY <2>2, <3>2, <3>3, RecordsAreSomething
 <2>7. /\ Carries(p, contexts[c].cursor) /\ Ended \subseteq conversations[contexts[c].conversation]
       /\ contexts[c].cursor.provider = p
       /\ p = "codex" => contexts[c].cursor.conversation = contexts[c].conversation
  BY <2>2 DEF Plain, PlainContexts
 <2>8. Carries(p, contexts[sessions[p]].cursor)' /\ Carries(p, directory.cursor)'
  BY <2>2, <2>4, <2>5, <2>6, <2>7 DEF Carries, Recalled
 <2>9. \A d \in DOMAIN contexts' : contexts'[d].provider = p /\ (Running(d)' => d = c)
  BY <2>1, <2>2, <2>4 DEF Plain, PlainContexts, Running
 <2>10. PlainContexts(p)'
  <3>1. \A q \in Providers : sessions'[q] # 0 => q = p BY <2>5 DEF Plain, PlainContexts
  <3>2. directory' # None /\ directory'.provider = p /\ sessions'[p] = c /\ c # 0
   BY <2>2, <2>5, <2>6
  <3>3. /\ Ended' \subseteq conversations'[contexts'[c].conversation]
        /\ contexts'[c].cursor.provider = p
        /\ p = "codex" => /\ contexts'[c].cursor.conversation = contexts'[c].conversation
                          /\ directory'.cursor.conversation = contexts'[c].conversation
                          /\ directory'.cursor.provider = p
   BY <2>4, <2>5, <2>6, <2>7
  <3> QED BY <2>8, <2>9, <3>1, <3>2, <3>3 DEF PlainContexts
 <2>11. e.provider = p /\ ~Asks(e) /\ ~IsUsage(e) /\ ~Exits(e)
  BY <2>2 DEF e, Event, Asks, IsUsage, Exits
 <2>12. Session # NoSession /\ UNCHANGED Session BY <1>1, <2>5 DEF Plain, PlainRequests, Session
 <2>13. PlainSessions(p)'
  <3>1. \A i \in DOMAIN runtime' : i \in DOMAIN runtime \/ i = Len(runtime) + 1 BY <2>1
  <3>2. \A i \in DOMAIN runtime' : /\ ~Exits(runtime'[i]) /\ runtime'[i].provider = p
                                   /\ ~Asks(runtime'[i])
   BY <2>1, <2>11, <3>1 DEF Plain, PlainSessions
  <3> QED BY <2>5, <2>12, <3>2 DEF Plain, PlainSessions, Shows
 <2>14. PlainRequests(p)' BY <2>1, <2>5, RequestsEnd DEF Plain
 <2>15. Ended \ Memory(RoutedContext) = {} BY <2>7 DEF Memory, c
 <2> QED BY <2>10, <2>13, <2>14, <2>15 DEF Plain
<1> QED BY <1>1, <1>2, <1>3, <1>4

LEMMA PlainByInterrupt ==
  ASSUME Typed, Typed', Calm, NEW p \in Providers, Plainly(p), Plain(p), Ended' = Ended, Interrupt
  PROVE Plain(p)'
<1>1. /\ job # None /\ job.step = "route" /\ UNCHANGED <<thread, intents, setting, ingesting>>
      /\ \/ Recover
         \/ /\ Fail \/ Succeed
            /\ UNCHANGED <<sessions, conversations, runtime, directory, spent>>
            /\ DOMAIN contexts' = DOMAIN contexts
            /\ \A c \in DOMAIN contexts :
                  \/ contexts'[c] = contexts[c]
                  \/ \E b : contexts'[c] = [contexts[c] EXCEPT !.interrupted = b]
 BY InterruptIs
<1>2. CASE Recover BY <1>1, <1>2, PlainByRecover
<1>3. CASE ~Recover
 <2>1. job' = None BY <1>1, <1>3, Ends
 <2>2. \A c \in DOMAIN contexts : /\ contexts'[c].provider = contexts[c].provider
                                  /\ contexts'[c].cursor = contexts[c].cursor
                                  /\ contexts'[c].conversation = contexts[c].conversation
                                  /\ Running(c)' => Running(c)
  <3> SUFFICES ASSUME NEW c \in DOMAIN contexts
      PROVE  /\ contexts'[c].provider = contexts[c].provider
             /\ contexts'[c].cursor = contexts[c].cursor
             /\ contexts'[c].conversation = contexts[c].conversation
             /\ Running(c)' => Running(c)
   OBVIOUS
  <3>1. contexts[c] \in ContextsOf(Turns, N) BY ContextsAre DEF Typed
  <3>2. /\ contexts'[c].provider = contexts[c].provider
        /\ contexts'[c].cursor = contexts[c].cursor
        /\ contexts'[c].conversation = contexts[c].conversation
        /\ contexts'[c].up = contexts[c].up /\ contexts'[c].turn = contexts[c].turn
   BY <1>1, <1>3, <3>1 DEF ContextsOf
  <3> QED BY <3>2 DEF Running
 <2> QED BY <1>1, <1>3, <2>1, <2>2, PlainFails
<1> QED BY <1>2, <1>3

\* A compaction is not asked for.
LEMMA PlainByReactor ==
  ASSUME Typed, Typed', Calm, NEW p \in Providers, Plainly(p), Plain(p), Ended' = Ended, Reactor
  PROVE Plain(p)' /\ (SendsTurn => Ended \ Memory(RoutedContext) = {})
<1>1. ASSUME Stop \/ Mark \/ MarkReady \/ Clear PROVE FALSE
 <2>1. job # None /\ job.step \in {"stop", "mark", "ready", "clear"}
  BY <1>1 DEF Stop, Mark, MarkReady, Clear
 <2> QED BY <2>1 DEF Calm, Steps, Plain, PlainRequests
<1>2. CASE Send BY <1>2, PlainBySend
<1>3. CASE Take \/ Ensure \/ Start \/ Bind \/ Interrupt
 <2>1. ~SendsTurn
  <3>1. job = None \/ job.step \in {"ensure", "start", "bind", "route"}
   BY <1>3 DEF Take, Ensure, Start, Bind, Interrupt
  <3> QED BY <3>1 DEF SendsTurn
 <2> QED BY <1>3, <2>1, PlainByTake, PlainByEnsure, PlainByStart, PlainByBind, PlainByInterrupt
<1> QED BY <1>1, <1>2, <1>3 DEF Reactor

LEMMA PlainByUser ==
  ASSUME Typed, Typed', Calm, NEW p \in Providers, Plainly(p), Plain(p), Ended' = Ended, User
  PROVE Plain(p)'
<1>0. Serene /\ ~Spend("compacts") BY PlainlyIs
<1>1. ASSUME NEW intent, Ask(intent), intent.type # "compact", UNCHANGED Session PROVE Plain(p)'
 <2>1. /\ job = None /\ DOMAIN intents' = {1} /\ intents'[1] = intent
       /\ UNCHANGED <<job, directory, agents, ingesting>>
  BY <1>0, <1>1, AskIs
 <2>2. PlainRequests(p)' BY <1>1, <2>1 DEF PlainRequests
 <2> QED BY <1>1, <2>1, <2>2, PlainQuiet
<1>2. ASSUME NEW provider \in setting.providers, RequestTurn(provider) PROVE Plain(p)'
 <2>1. /\ Ask([type |-> "turn", turn |-> spent'.turns, provider |-> provider])
       /\ thread' = [thread EXCEPT !.messages = @ \cup {spent'.turns}]
  BY <1>2 DEF RequestTurn
 <2>2. UNCHANGED Session BY <2>1 DEF Session, Typed, ThreadTyped, ReadsOf
 <2> QED BY <1>1, <2>1, <2>2
<1>3. CASE RequestMode
 <2>1. Ask([type |-> "mode"]) /\ UNCHANGED Session
  BY <1>3 DEF RequestMode, Session, Typed, ThreadTyped, ReadsOf
 <2> QED BY <1>1, <2>1
<1>4. CASE RequestInterrupt
 <2>1. /\ UNCHANGED <<thread, job, directory, agents, ingesting>>
       /\ \A i \in DOMAIN intents' :
              \/ i \in DOMAIN intents /\ intents'[i] = intents[i]
              \/ intents'[i] = [type |-> "interrupt"]
  BY <1>4, RequestInterruptIs
 <2>2. UNCHANGED <<Session, conversations>> BY <2>1 DEF Session, agents
 <2>3. PlainRequests(p)'
  <3>1. \A i \in DOMAIN intents' : intents'[i].type # "compact" BY <2>1 DEF Plain, PlainRequests
  <3>2. job # None => (job.step = "start" => Carries(p, job.start.cursor)')
   BY <2>1, <2>2 DEF Plain, PlainRequests, Carries, Recalled
  <3> QED BY <2>1, <2>2, <3>1, <3>2 DEF Plain, PlainRequests
 <2> QED BY <2>1, <2>2, <2>3, PlainQuiet
<1>5. ~RequestCompaction /\ ~RequestStop BY <1>0, SereneIs DEF RequestCompaction, RequestStop
<1> QED BY <1>2, <1>3, <1>4, <1>5 DEF User

LEMMA PlainByComplete ==
  ASSUME Typed, Typed', Calm, NEW p \in Providers, Plainly(p), Plain(p),
    NEW c \in DOMAIN contexts, NEW state \in {"completed", "failed", "interrupted"},
    NEW full \in BOOLEAN, CompleteTurn(c, state, full)
  PROVE Plain(p)'
<1> DEFINE held == conversations[contexts[c].conversation] \cup {contexts[c].turn}
           new == contexts'[c]
<1>1. /\ Running(c)
      /\ UNCHANGED <<setting, thread, intents, job, directory, sessions, ingesting>>
      /\ DOMAIN contexts' = DOMAIN contexts
      /\ \A d \in DOMAIN contexts : d # c => contexts'[d] = contexts[d]
      /\ new.turn = NoTurn /\ new.provider = contexts[c].provider
      /\ new.conversation = contexts[c].conversation
      /\ new.cursor.provider = contexts[c].cursor.provider
      /\ new.cursor.conversation = contexts[c].conversation
      /\ new.cursor.at = IF contexts[c].provider = "codex" THEN {} ELSE held
      /\ conversations' = [conversations EXCEPT ![contexts[c].conversation] = held]
 BY CompletesIs
<1>2. /\ contexts[c] \in ContextsOf(Turns, N) /\ DOMAIN conversations = 1..N
      /\ contexts[c].conversation \in 1..N /\ 0 \notin DOMAIN contexts
 <2>1. contexts[c] \in ContextsOf(Turns, N) /\ 0 \notin DOMAIN contexts BY ContextsAre DEF Typed
 <2>2. DOMAIN conversations = 1..N BY DEF Typed, AgentsTyped, N
 <2> QED BY <2>1, <2>2 DEF ContextsOf
<1>3. conversations'[contexts[c].conversation] = held BY <1>1, <1>2
<1>4. Ended' \subseteq Ended \cup {contexts[c].turn} BY CompletionEnds
<1>5. /\ c = sessions[p] /\ sessions[p] # 0 /\ contexts[c].provider = p /\ Session # NoSession
      /\ Ended \subseteq conversations[contexts[c].conversation] /\ directory # None
      /\ directory.provider = p /\ contexts[c].cursor.provider = p
      /\ p = "codex" => /\ contexts[c].cursor.conversation = contexts[c].conversation
                        /\ directory.cursor.conversation = contexts[c].conversation
                        /\ directory.cursor.provider = p
 BY <1>1, <1>2 DEF Plain, PlainContexts, PlainSessions, AllIdle
<1>6. Ended' \subseteq held BY <1>4, <1>5
<1>7. new.cursor # None /\ directory.cursor # None
 <2>1. contexts'[c] \in ContextsOf(Turns', N') BY <1>1 DEF Typed, AgentsTyped
 <2>2. new.cursor \in CursorsOf(Turns', N') BY <2>1 DEF ContextsOf
 <2>3. directory.cursor \in CursorsOf(Turns, N) BY <1>5, DirectoryIs DEF Typed
 <2>4. Turns' \subseteq TurnIds /\ N' \in Nat /\ Turns \subseteq TurnIds /\ N \in Nat
  BY TurnsAreIds, TurnsAreIdsThen, ContextsAre DEF Typed, AgentsTyped, N
 <2> QED BY <2>2, <2>3, <2>4, RecordsAreSomething
<1> HIDE DEF held, new
<1>8. /\ Carries(p, contexts[sessions[p]].cursor)'
      /\ p = "codex" => Carries(p, directory.cursor)'
 BY <1>1, <1>3, <1>5, <1>6, <1>7 DEF Carries, Recalled, Providers, new
<1>9. \A d \in DOMAIN contexts' : contexts'[d].provider = p /\ (Running(d)' => d = c)
 BY <1>1, <1>5 DEF Plain, PlainContexts, Running, new
<1>10. PlainContexts(p)'
 <2>1. /\ \A q \in Providers : sessions'[q] # 0 => q = p
       /\ sessions'[p] = c /\ c # 0 /\ directory' # None /\ directory'.provider = p
  BY <1>1, <1>5 DEF Plain, PlainContexts
 <2>2. /\ Ended' \subseteq conversations'[contexts'[c].conversation]
       /\ contexts'[c].cursor.provider = p
       /\ p = "codex" => /\ contexts'[c].cursor.conversation = contexts'[c].conversation
                         /\ directory'.cursor.conversation = contexts'[c].conversation
                         /\ directory'.cursor.provider = p
  BY <1>1, <1>3, <1>5, <1>6 DEF new
 <2> QED BY <1>8, <1>9, <2>1, <2>2 DEF PlainContexts
<1>11. PlainRequests(p)'
 <2>1. job # None => job.step \notin {"start", "bind", "send"} BY <1>1, ServingIs DEF AllIdle
 <2>2. UNCHANGED Session BY <1>1 DEF Session
 <2> QED BY <1>1, <2>1, <2>2 DEF Plain, PlainRequests
<1>12. ~full BY PlainlyIs DEF CompleteTurn, SpendEnd
<1>13. PlainSessions(p)'
 <2> DEFINE S == EventsOf(Turns)
            events == CompletionEvents(c, state, full)
 <2>1. /\ runtime' = runtime \o events /\ events \in Seq(S) /\ runtime \in Seq(S)
       /\ \A i \in DOMAIN events : Lively(p, events[i]) /\ ~Asks(events[i])
  BY <1>5, <1>12, CompleteTurnIs, CompletionIs DEF Typed, RuntimeTyped
 <2> HIDE DEF S, events
 <2>2. \A i \in DOMAIN runtime' : \/ i \in DOMAIN runtime /\ runtime'[i] = runtime[i]
                                  \/ \E j \in DOMAIN events : runtime'[i] = events[j]
  BY <2>1, AppendedIs
 <2>3. \A i \in DOMAIN runtime' : /\ ~Exits(runtime'[i]) /\ runtime'[i].provider = p
                                  /\ ~Asks(runtime'[i])
  BY <2>1, <2>2 DEF Plain, PlainSessions, Lively
 <2>4. UNCHANGED Session BY <1>1 DEF Session
 <2> QED BY <1>1, <1>5, <2>3, <2>4 DEF Plain, PlainSessions, Shows
<1> QED BY <1>10, <1>11, <1>13 DEF Plain

LEMMA PlainByRead ==
  ASSUME Typed, NEW p \in Providers, Plain(p), Ended' = Ended, IngestRead PROVE Plain(p)'
<1>1. /\ ingesting' # None /\ ingesting'.event = runtime[1] /\ ingesting'.session = Session
      /\ 1 \in DOMAIN runtime
      /\ \A i \in DOMAIN runtime' : i + 1 \in DOMAIN runtime /\ runtime'[i] = runtime[i + 1]
      /\ UNCHANGED <<thread, intents, job, directory, sessions, contexts, conversations>>
 BY IngestReadIs DEF IngestRead, worker
<1>2. UNCHANGED Session /\ (AllIdle' <=> AllIdle) /\ \A c \in DOMAIN contexts : Running(c)' <=> Running(c)
 BY <1>1 DEF Session, AllIdle, Running
<1>3. PlainSessions(p)' BY <1>1, <1>2 DEF Plain, PlainSessions, Shows
<1>4. PlainContexts(p)'
 <2>1. sessions[p] # 0 => sessions[p] \in DOMAIN contexts BY ContextsAre DEF Typed
 <2> QED BY <1>1, <1>2, <2>1, ContextsStay DEF Plain
<1>5. PlainRequests(p)' BY <1>1, <1>2 DEF Plain, PlainRequests, Carries, Recalled
<1> QED BY <1>3, <1>4, <1>5 DEF Plain

LEMMA PlainByWrite ==
  ASSUME Typed, NEW p \in Providers, Plain(p), Ended' = Ended, IngestWrite PROVE Plain(p)'
<1> DEFINE event == ingesting.event
           session == ingesting.session
<1>1. /\ ingesting # None /\ ingesting' = None
      /\ event \in EventsOf(Turns) /\ session \in {NoSession} \cup SessionsOf(Turns)
      /\ UNCHANGED <<job, directory, agents>>
      /\ thread' = IF Applies(event, session)
                   THEN [thread EXCEPT !.session = NextSession(event, session)] ELSE thread
      /\ UNCHANGED intents \/ Asks(event)
 BY WrittenIs
<1>2. /\ Shows(p, session) /\ ~Exits(event) /\ event.provider = p /\ ~Asks(event)
      /\ IsUsage(event) => session # NoSession
 BY <1>1 DEF Plain, PlainSessions
<1>3. Session' = IF Applies(event, session) THEN NextSession(event, session) ELSE Session
 BY <1>1 DEF Session, Typed, ThreadTyped, ReadsOf
<1>4. Applies(event, session) => /\ NextSession(event, session) # NoSession
                                 /\ NextSession(event, session).provider = p
                                 /\ NextSession(event, session).status # "stopped"
 <2>1. CASE IsUsage(event) BY <1>2, <2>1 DEF NextSession, IsUsage, Shows
 <2>2. CASE ~IsUsage(event) BY <1>1, <1>2, <2>2, NextIsShown
 <2> QED BY <2>1, <2>2
<1>5. Shows(p, Session)' /\ (Session # NoSession => Session' # NoSession)
      /\ (Session' = NoSession => Session = NoSession)
 BY <1>3, <1>4 DEF Plain, PlainSessions, Shows
<1> HIDE DEF event, session
<1>6. UNCHANGED <<sessions, contexts, conversations, runtime, directory, job, intents>>
 BY <1>1, <1>2 DEF agents
<1>7. (AllIdle' <=> AllIdle) /\ \A c \in DOMAIN contexts : Running(c)' <=> Running(c)
 BY <1>6 DEF AllIdle, Running
<1>8. PlainSessions(p)' BY <1>1, <1>5, <1>6, <1>7 DEF Plain, PlainSessions
<1>9. PlainContexts(p)'
 <2>1. sessions[p] # 0 => sessions[p] \in DOMAIN contexts BY ContextsAre DEF Typed
 <2> QED BY <1>6, <1>7, <2>1, ContextsStay DEF Plain
<1>10. PlainRequests(p)' BY <1>5, <1>6 DEF Plain, PlainRequests, Carries, Recalled
<1> QED BY <1>8, <1>9, <1>10 DEF Plain

LEMMA PlainByRestart ==
  ASSUME Typed, NEW p \in Providers, Plainly(p), Plain(p), Ended' = Ended, Restart
  PROVE Plain(p)'
<1>1. /\ intents' = << >> /\ job' = None /\ runtime' = << >> /\ ingesting' = None
      /\ \A q \in Providers : sessions'[q] = 0
      /\ DOMAIN contexts' = DOMAIN contexts
      /\ \A c \in DOMAIN contexts : contexts'[c].provider = contexts[c].provider /\ ~Running(c)'
      /\ UNCHANGED <<thread, directory, conversations>>
      /\ Spend("restarts")
 BY RestartIs
<1>2. p # "claudeCode" BY <1>1, PlainlyIs
<1>3. DOMAIN << >> = {} OBVIOUS
<1>4. PlainRequests(p)' BY <1>1, <1>3 DEF PlainRequests
<1>5. UNCHANGED Session /\ AllIdle' BY <1>1 DEF Session, AllIdle
<1>6. PlainSessions(p)' BY <1>1, <1>3, <1>5 DEF Plain, PlainSessions, Shows
<1>7. PlainContexts(p)' BY <1>1, <1>2 DEF Plain, PlainContexts, Carries, Recalled
<1> QED BY <1>4, <1>6, <1>7 DEF Plain

LEMMA PlainInit == ASSUME Init, NEW p \in Providers PROVE Plain(p)
<1>1. /\ intents = << >> /\ job = None /\ contexts = << >> /\ runtime = << >> /\ ingesting = None
      /\ directory = None /\ Session = NoSession
      /\ \A q \in Providers : sessions[q] = 0
 BY DEF Init, Session
<1>2. history.ended = {} BY DEF Init
<1>3. DOMAIN << >> = {} /\ Ended = {} BY <1>2 DEF Ended
<1> QED BY <1>1, <1>3 DEF Plain, PlainRequests, PlainSessions, PlainContexts, Shows, AllIdle

LEMMA PlainStays == ASSUME NEW p, Plain(p), UNCHANGED vars PROVE Plain(p)'
BY DEF Plain, PlainRequests, PlainSessions, PlainContexts, Shows, AllIdle, Carries, Recalled, Ended,
     Session, Running, vars

LEMMA EndedStays ==
  ASSUME Typed, User \/ Ingestion \/ Restart \/ UNCHANGED vars
  PROVE Ended' = Ended /\ UNCHANGED history.forgotten
<1>1. UNCHANGED <<history, setting>>
 BY DEF User, RequestTurn, RequestMode, RequestCompaction, RequestStop, RequestInterrupt, Ask,
     Ingestion, IngestRead, IngestWrite, Restart, vars
<1> QED BY <1>1 DEF Ended

LEMMA PlainNext ==
  ASSUME Typed, Typed', Calm, Single, NEW p \in Providers, Plainly(p), Plain(p), [Next]_vars
  PROVE /\ Plain(p)' /\ Plainly(p)'
        /\ history.forgotten = {} => history'.forgotten = {}
<1>1. Plainly(p)' /\ Serene BY SettingStays DEF Plainly, Serene
<1> SUFFICES Plain(p)' /\ (history.forgotten = {} => history'.forgotten = {}) BY <1>1
<1>2. CASE User BY <1>2, EndedStays, PlainByUser
<1>3. CASE Reactor BY <1>1, <1>3, ReactorEnds, PlainByReactor
<1>4. CASE Ingestion BY <1>4, EndedStays, PlainByRead, PlainByWrite DEF Ingestion
<1>5. CASE Restart BY <1>5, EndedStays, PlainByRestart
<1>6. ASSUME NEW c \in DOMAIN contexts, Agent(c)
    PROVE  Plain(p)' /\ (history.forgotten = {} => history'.forgotten = {})
 <2>1. PICK state \in {"completed", "failed", "interrupted"}, full \in BOOLEAN :
          CompleteTurn(c, state, full)
  BY <1>6, SoleTurnEnds
 <2> QED BY <2>1, PlainByComplete, CompletionEnds
<1>7. ASSUME NEW c \in DOMAIN contexts, LoseSession(c) PROVE FALSE
 BY <1>1, <1>7, SereneIs DEF LoseSession
<1>8. CASE UNCHANGED vars BY <1>8, EndedStays, PlainStays
<1> QED BY <1>2, <1>3, <1>4, <1>5, <1>6, <1>7, <1>8 DEF Next

--------------------
(* With a single compaction.                                                *)
LEMMA PromptlyIs ==
  ASSUME Typed, Promptly
  PROVE /\ Serene /\ setting.prompt /\ setting.providers = {"claudeCode"}
        /\ ~Spend("modes") /\ ~Spend("restarts")
        /\ Spend("compacts") \/ Spend("full") =>
              /\ spent.compacts + spent.full = 0 /\ spent'.compacts + spent'.full = 1
              /\ spent'.turns = spent.turns
        /\ spent.compacts \in Nat /\ spent.full \in Nat /\ spent.turns \in Nat
        /\ setting.turns \in Nat /\ spent.turns <= setting.turns
<1>1. /\ Serene /\ setting.prompt /\ setting.providers = {"claudeCode"}
      /\ setting.modes = 0 /\ setting.restarts = 0 /\ setting.compacts + setting.full <= 1
 BY DEF Promptly
<1>2. ~Spend("modes") /\ ~Spend("restarts") BY <1>1, SpendIs DEF Requests
<1>3. \A r \in Requests : setting[r] \in Nat /\ spent[r] \in Nat /\ spent[r] <= setting[r]
 BY SessionsAssumption DEF Typed, BoundsTyped
<1>4. /\ setting["compacts"] \in Nat /\ setting["full"] \in Nat /\ spent["compacts"] \in Nat
      /\ spent["full"] \in Nat /\ spent["compacts"] <= setting["compacts"]
      /\ spent["full"] <= setting["full"]
      /\ spent["turns"] \in Nat /\ setting["turns"] \in Nat /\ spent["turns"] <= setting["turns"]
 BY <1>3 DEF Requests
<1>5. CASE Spend("compacts")
 <2>1. /\ spent'["compacts"] = spent["compacts"] + 1 /\ spent'["full"] = spent["full"]
       /\ spent["compacts"] < setting["compacts"] /\ spent'["turns"] = spent["turns"]
  BY <1>5, SpendIs DEF Requests
 <2> QED BY <1>1, <1>2, <1>4, <2>1
<1>6. CASE Spend("full")
 <2>1. /\ spent'["full"] = spent["full"] + 1 /\ spent'["compacts"] = spent["compacts"]
       /\ spent["full"] < setting["full"] /\ spent'["turns"] = spent["turns"]
  BY <1>6, SpendIs DEF Requests
 <2> QED BY <1>1, <1>2, <1>4, <2>1
<1> QED BY <1>1, <1>2, <1>4, <1>5, <1>6

LEMMA ActsAlone ==
  ASSUME Promptly, MayAct PROVE runtime = << >> /\ ingesting = None
BY DEF Promptly, MayAct

\* The agents do what they did, and are told the same.
SameAgents ==
    /\ UNCHANGED <<sessions, directory, conversations, runtime>>
    /\ DOMAIN contexts' = DOMAIN contexts
    /\ \A c \in DOMAIN contexts : /\ contexts'[c].up = contexts[c].up
                                  /\ contexts'[c].turn = contexts[c].turn
                                  /\ contexts'[c].prompt = contexts[c].prompt
                                  /\ contexts'[c].conversation = contexts[c].conversation

LEMMA SameAgentsIs ==
  ASSUME Typed, SameAgents, Ended' = Ended
  PROVE /\ \A c \in DOMAIN contexts : Running(c)' <=> Running(c)
        /\ AllIdle' <=> AllIdle
        /\ UNCHANGED setting /\ PromptTurns => PromptTurns'
        /\ UNCHANGED ingesting => \A p \in Providers : Bound(p) => Bound(p)'
        /\ UNCHANGED <<ingesting, Session>> /\ Grounded => Grounded'
<1>1. \A c \in DOMAIN contexts : Running(c)' <=> Running(c) BY DEF SameAgents, Running
<1>2. AllIdle' <=> AllIdle BY <1>1 DEF AllIdle, SameAgents
<1>3. UNCHANGED setting /\ PromptTurns => PromptTurns' BY <1>1 DEF PromptTurns, SameAgents
<1>4. UNCHANGED ingesting => \A p \in Providers : Bound(p) => Bound(p)'
 <2> SUFFICES ASSUME UNCHANGED ingesting, NEW p \in Providers, Bound(p) PROVE Bound(p)' OBVIOUS
 <2>1. sessions[p] # 0 /\ sessions[p] \in DOMAIN contexts BY ContextsAre DEF Bound, Typed
 <2> QED BY <2>1 DEF Bound, Memory, LivelyEvents, SameAgents
<1>5. UNCHANGED <<ingesting, Session>> /\ Grounded => Grounded'
 <2> SUFFICES ASSUME UNCHANGED <<ingesting, Session>>, Grounded PROVE Grounded' OBVIOUS
 <2>1. CASE Untouched BY <1>2, <2>1 DEF Untouched, Grounded, SameAgents
 <2>2. ASSUME NEW p \in Providers, Attached(p) PROVE Grounded'
  BY <1>4, <2>2 DEF Attached, Grounded, Showing, Shows
 <2> QED BY <2>1, <2>2 DEF Grounded
<1> QED BY <1>1, <1>2, <1>3, <1>4, <1>5

LEMMA AgentsAreSame ==
  ASSUME UNCHANGED <<agents, directory>> PROVE SameAgents
BY DEF SameAgents, agents

\* A request that has begun, and the thread it has not cleared.
LEMMA JobStaysPrompt ==
  ASSUME PromptJob, UNCHANGED <<job, directory, spent>>, Ended' = Ended,
    \A p \in Providers : Bound(p) => Bound(p)', Typed
  PROVE PromptJob'
<1>1. job # None /\ job.step \in {"bind", "ready"} => job.start.provider \in Providers
 BY JobIs DEF Typed, StartsOf
<1>2. ASSUME NEW p, NEW s PROVE Showing(p, s)' <=> Showing(p, s) BY DEF Showing, Shows
<1> QED BY <1>1 DEF PromptJob, Showing, Shows

\* What a step that requests nothing leaves of the requests.
LEMMA RequestsStayPrompt ==
  ASSUME PromptRequests, UNCHANGED <<setting, spent, thread.messages>>, Ended' = Ended,
    \A c \in DOMAIN contexts' :
       Running(c)' => /\ c \in DOMAIN contexts /\ Running(c)
                      /\ contexts'[c].turn = contexts[c].turn,
    ToCompact' => ToCompact, Compacting' => Compacting,
    job' # None /\ job'.type = "compact" /\ job'.step \in {"ensure", "send"} =>
       job'.turn > setting.turns
  PROVE PromptRequests'
BY DEF PromptRequests

\* A request that ends without a word to the agents.
LEMMA PromptFails ==
  ASSUME Typed, Prompt, Steady, job' = None, SameAgents, Ended' = Ended,
    UNCHANGED <<thread, intents, ingesting, spent, setting>>
  PROVE Prompt'
<1>1. UNCHANGED <<Session, thread.messages, runtime>> BY DEF Session, SameAgents
<1>2. PromptModes' BY <1>1 DEF Prompt, PromptModes
<1>3. Asking' <=> Asking BY <1>1 DEF Asking
<1>4. (ToCompact' => ToCompact) /\ (Compacting' => Compacting) BY <1>3 DEF ToCompact, Compacting
<1>5. PromptRequests'
 <2>1. \A c \in DOMAIN contexts' : Running(c)' => /\ c \in DOMAIN contexts /\ Running(c)
                                                  /\ contexts'[c].turn = contexts[c].turn
  BY DEF SameAgents, Running
 <2> QED BY <1>1, <1>4, <2>1, RequestsStayPrompt DEF Prompt
<1>6. PromptJob' BY DEF PromptJob
<1>7. PromptTurns' /\ Grounded' BY <1>1, SameAgentsIs DEF Prompt
<1> QED BY <1>2, <1>5, <1>6, <1>7 DEF Prompt

(* A request goes on, and neither the agents nor the thread hear of it.     *)
LEMMA PromptGoesOn ==
  ASSUME Typed, Prompt, UNCHANGED <<agents, directory, thread, intents, ingesting, spent, setting>>,
    Ended' = Ended, job # None, job' # None, job'.type = job.type,
    job'.read = job.read, job'.turn = job.turn,
    job'.step \in {"start", "bind", "ready"} => job'.start.mode = "full-access",
    job'.type = "compact" /\ job'.step \in {"stop", "mark"} => job.step \in {"stop", "mark"},
    job'.type = "compact" /\ job'.step \in {"ensure", "send"} =>
       job.step \in {"ensure", "send"}
  PROVE PromptModes' /\ PromptRequests' /\ PromptTurns' /\ (Grounded => Grounded')
<1>1. UNCHANGED <<Session, thread.messages, runtime, contexts>> BY DEF Session, agents
<1>2. PromptModes' BY <1>1 DEF Prompt, PromptModes
<1>3. Asking' <=> Asking BY <1>1 DEF Asking
<1>4. (ToCompact' => ToCompact) /\ (Compacting' => Compacting) BY <1>3 DEF ToCompact, Compacting
<1>5. PromptRequests'
 <2>1. \A c \in DOMAIN contexts' : Running(c)' => Running(c) BY <1>1 DEF Running
 <2>2. job'.type = "compact" /\ job'.step \in {"ensure", "send"} => job'.turn > setting.turns
  BY DEF Prompt, PromptRequests
 <2> QED BY <1>1, <1>4, <2>1, <2>2, RequestsStayPrompt DEF Prompt
<1>6. PromptTurns' /\ (Grounded => Grounded') BY <1>1, SameAgentsIs, AgentsAreSame DEF Prompt
<1> QED BY <1>2, <1>5, <1>6

\* What is grounded is untouched, or attached to the provider that the router would call.
LEMMA GroundedIs ==
  ASSUME Typed, Grounded
  PROVE \/ Untouched /\ directory = None
        \/ /\ directory # None /\ directory.provider \in Providers /\ Attached(directory.provider)
           /\ Session.provider = directory.provider /\ HasSession(Session) /\ Routed
           /\ RoutedContext = sessions[directory.provider] /\ Active # 0
           /\ RoutedContext \in DOMAIN contexts
<1>1. CASE Untouched BY <1>1 DEF Untouched
<1>2. ASSUME NEW p \in Providers, Attached(p)
    PROVE  /\ directory # None /\ directory.provider \in Providers /\ Attached(directory.provider)
           /\ Session.provider = directory.provider /\ HasSession(Session) /\ Routed
           /\ RoutedContext = sessions[directory.provider] /\ Active # 0
           /\ RoutedContext \in DOMAIN contexts
 <2>1. directory # None /\ directory.provider = p /\ sessions[p] # 0 /\ Showing(p, Session)
  BY <1>2 DEF Attached, Bound
 <2>2. Session.provider = p /\ HasSession(Session) BY <2>1 DEF Showing, Shows, HasSession
 <2>3. Routed /\ RoutedContext = sessions[p] /\ Active # 0
  BY <2>1 DEF Routed, RoutedContext, Active, Providers
 <2>4. sessions[p] \in DOMAIN contexts BY <2>1, ContextsAre DEF Typed
 <2> QED BY <1>2, <2>1, <2>2, <2>3, <2>4
<1> QED BY <1>1, <1>2 DEF Grounded

LEMMA PromptByTake ==
  ASSUME Typed, Calm, Promptly, Prompt, Ended' = Ended, Take PROVE Prompt'
<1>1. /\ job = None /\ 1 \in DOMAIN intents /\ intents[1] \in IntentsOf(Turns) /\ MayAct
      /\ \A i \in DOMAIN intents' : i + 1 \in DOMAIN intents /\ intents'[i] = intents[i + 1]
      /\ UNCHANGED <<thread, spent, setting, ingesting, agents, directory>>
      /\ job' # None =>
               /\ job'.type = intents[1].type /\ job'.read = thread
               /\ intents[1].type = "turn" => job'.step = "ensure"
               /\ intents[1].type = "compact" => job'.step = "stop"
               /\ intents[1].type = "mode" => job'.step = "ensure"
               /\ intents[1].type = "interrupt" => job'.step = "route"
 BY TakenIs
<1>2. intents[1].type \in {"turn", "compact", "interrupt"}
 BY <1>1 DEF Prompt, PromptModes, Calm, Orders, IntentsOf
<1>3. /\ UNCHANGED <<Session, thread.messages, runtime, contexts>> /\ job'.read = thread
         => job'.read.session = Session /\ job'.read.mode = thread.mode
            /\ job'.read.messages = thread.messages
      /\ UNCHANGED <<Session, thread.messages, runtime, contexts>>
 BY <1>1 DEF Session, agents
<1>4. PromptModes' BY <1>1, <1>2, <1>3 DEF Prompt, PromptModes
<1>5. Asking' <=> Asking BY <1>1, <1>3 DEF Asking
<1>6. (\E i \in DOMAIN intents' : intents'[i].type = "compact") =>
         \E i \in DOMAIN intents : intents[i].type = "compact"
 BY <1>1
<1>7. job' # None /\ job'.type = "compact" =>
         /\ job'.step = "stop" /\ intents[1].type = "compact" /\ ToCompact
 BY <1>1 DEF ToCompact
<1>8. (ToCompact' => ToCompact) /\ (Compacting' => Compacting)
 BY <1>1, <1>5, <1>6, <1>7 DEF ToCompact, Compacting
<1>9. PromptRequests'
 <2>1. \A c \in DOMAIN contexts' : Running(c)' => Running(c) BY <1>3 DEF Running
 <2> QED BY <1>1, <1>3, <1>7, <1>8, <2>1, RequestsStayPrompt DEF Prompt
<1>10. Grounded /\ Steady BY <1>1 DEF Prompt, Steady
<1>11. PromptJob'
 <2>1. CASE job' # None /\ intents[1].type = "compact"
  <3>1. /\ job'.step = "stop" /\ job'.read.messages = 1..spent.turns
        /\ job'.read.session = Session
   BY <1>1, <1>3, <1>7, <2>1 DEF Prompt, PromptRequests
  <3>2. directory # None => Showing(directory.provider, Session)
   BY <1>10, GroundedIs DEF Untouched, Attached
  <3> QED BY <1>1, <3>1, <3>2 DEF PromptJob, Showing, Shows
 <2>2. CASE job' # None /\ intents[1].type # "compact" BY <1>1, <1>2, <2>2 DEF PromptJob
 <2> QED BY <2>1, <2>2 DEF PromptJob
<1>12. PromptTurns' /\ Grounded' BY <1>1, <1>3, <1>10, SameAgentsIs, AgentsAreSame DEF Prompt
<1> QED BY <1>4, <1>9, <1>11, <1>12 DEF Prompt

LEMMA PromptByEnsure ==
  ASSUME Typed, Calm, Promptly, Prompt, Ended' = Ended, Ensure PROVE Prompt'
<1> DEFINE start == [provider |-> Preferred, mode |-> thread.mode, cursor |-> ResumeCursor,
                     prompt |-> {}, then |-> "bind"]
<1>1. /\ job # None /\ job.step = "ensure"
      /\ UNCHANGED <<thread, intents, setting, ingesting, agents, directory, spent>>
 BY DEF Ensure, NoDispatch, NoAgent, Aside
<1>2. job.type \in {"turn", "compact"}
 <2>1. job.type \notin {"stop", "interrupt", "mode"} BY <1>1 DEF Calm, Steps, Prompt, PromptModes
 <2> QED BY <1>1, <2>1 DEF Typed, JobTyped, JobsOf
<1>3. /\ Grounded
      /\ job.type = "compact" => directory # None
      /\ job.type = "turn" => job.provider = "claudeCode"
      /\ job.type # "turn" => job.provider = None
 BY <1>1, <1>2, PromptlyIs DEF Prompt, PromptJob, Steady, Calm, Steps
<1>4. None \notin Providers /\ "claudeCode" # None /\ thread.mode = "full-access"
 BY NoneAssumption DEF Providers, Prompt, PromptModes
<1>5. CASE Reuses
 <2>1. job' # None /\ job'.step = "send" /\ job'.type = job.type /\ job'.read = job.read
       /\ job'.turn = job.turn
  <3>1. NextJob("send") BY <1>1, <1>2, <1>5 DEF Ensure, AfterEnsure
  <3>2. job' = [job EXCEPT !.step = "send"] /\ job \in JobsOf(Turns, N)
   BY <1>1, <3>1 DEF NextJob, Typed, JobTyped
  <3>3. job' \in JobsOf(Turns, N) BY <3>2 DEF JobsOf
  <3>4. job' # None BY <3>3, TurnsAreIds, RecordsAreSomething, ContextsAre DEF Typed
  <3> QED BY <1>1, <3>1, <3>4, NextStep
 <2>2. PromptModes' /\ PromptRequests' /\ PromptTurns' /\ Grounded'
  BY <1>1, <1>3, <2>1, PromptGoesOn
 <2>3. HasSession(Session) /\ ~ProviderChanged BY <1>5 DEF Reuses
 <2>4. directory # None /\ Session.provider = directory.provider
  BY <1>3, <2>3, GroundedIs DEF Untouched, HasSession
 <2>5. job.type = "turn" => directory.provider = "claudeCode"
  BY <1>3, <1>4, <2>3, <2>4 DEF ProviderChanged, SessionProvider, HasSession
 <2>6. PromptJob' BY <1>1, <2>1, <2>4, <2>5 DEF PromptJob
 <2> QED BY <2>2, <2>6 DEF Prompt
<1>6. CASE ~Reuses
 <2>1. job' = [job EXCEPT !.step = "start", !.start = start] /\ start.then = "bind"
       /\ start.provider = Preferred /\ start.mode = thread.mode
  BY <1>6 DEF Ensure
 <2> HIDE DEF start
 <2>2. /\ job'.step = "start" /\ job'.type = job.type /\ job'.start = start
       /\ job'.read = job.read /\ job'.turn = job.turn
  BY <1>1, <2>1, JobExcept
 <2>3. job.type = "turn" /\ Ended = {}
  <3>1. CASE directory = None BY <1>2, <1>3, <3>1, GroundedIs DEF Untouched
  <3>2. CASE directory # None
   <4>1. /\ HasSession(Session) /\ Active # 0 /\ Session.provider = directory.provider
         /\ directory.provider \in Providers /\ Session # NoSession
    BY <1>3, <3>2, GroundedIs DEF HasSession
   <4>2. thread.mode = Session.mode BY <1>4, <4>1 DEF Prompt, PromptModes
   <4>3. job.provider # None /\ job.provider # directory.provider
    BY <1>6, <4>1, <4>2 DEF Reuses, ProviderChanged, SessionProvider
   <4> QED BY <1>2, <1>3, <3>2, <4>1, <4>3 DEF Prompt, PromptTurns, Providers
  <3> QED BY <3>1, <3>2
 <2>4. start.provider = "claudeCode" BY <1>3, <1>4, <2>1, <2>3 DEF Preferred
 <2>5. CASE job' = None BY <1>1, <1>3, <2>5, PromptFails, AgentsAreSame DEF Steady
 <2>6. CASE job' # None
  <3>1. PromptModes' /\ PromptRequests' /\ PromptTurns' /\ Grounded'
   BY <1>1, <1>3, <1>4, <2>1, <2>2, <2>6, PromptGoesOn
  <3>2. PromptJob' BY <2>1, <2>2, <2>3, <2>4 DEF PromptJob
  <3> QED BY <3>1, <3>2 DEF Prompt
 <2> QED BY <2>5, <2>6
<1> QED BY <1>5, <1>6

--------------------
(* The router binds a session that starts while nothing runs.               *)
LEMMA BeginsBound ==
  ASSUME Typed, NEW p \in Providers, NEW mode, NEW cursor, NEW prompt,
    Begins(p, mode, cursor, prompt), AllIdle, runtime = << >>, ingesting = None,
    UNCHANGED <<ingesting, setting>>, Ended' = Ended,
    Ended \subseteq (IF p = "claudeCode" THEN prompt ELSE {})
  PROVE /\ Bound(p)' /\ AllIdle' /\ directory' # None /\ directory'.provider = p
        /\ ~Asking'
        /\ PromptTurns'
<1> DEFINE n == Len(contexts) + 1
<1>1. /\ Len(contexts) \in Nat /\ DOMAIN contexts = 1..Len(contexts) /\ DOMAIN contexts' = 1..n
      /\ \A c \in DOMAIN contexts : contexts'[c] = contexts[c]
      /\ sessions' = [sessions EXCEPT ![p] = n] /\ runtime' = runtime \o StartEvents(p)
      /\ directory' # None /\ directory'.provider = p
      /\ contexts'[n].turn = NoTurn /\ contexts'[n].up
      /\ contexts'[n].prompt = IF p = "claudeCode" THEN prompt ELSE {}
 BY DEF Begins
<1>2. n # 0 /\ sessions'[p] = n BY <1>1 DEF Typed, AgentsTyped
<1>3. AllIdle'
 <2> SUFFICES ASSUME NEW c \in DOMAIN contexts' PROVE ~Running(c)' BY DEF AllIdle
 <2>1. CASE c = n BY <1>1, <2>1 DEF Running
 <2>2. CASE c # n BY <1>1, <2>2 DEF Running, AllIdle
 <2> QED BY <2>1, <2>2
<1>4. \A i \in DOMAIN runtime' : ~Asks(runtime'[i]) /\ Lively(p, runtime'[i])
 <2> DEFINE S == EventsOf(Turns)
            events == StartEvents(p)
 <2>1. /\ events \in Seq(S) /\ runtime \in Seq(S) /\ runtime' = runtime \o events
       /\ \A i \in DOMAIN events : ~Asks(events[i]) /\ Lively(p, events[i])
  BY <1>1, StartAnnounces, StartAsksNothing DEF Turns, Typed, RuntimeTyped
 <2> HIDE DEF S, events
 <2>2. DOMAIN runtime = {} OBVIOUS
 <2> QED BY <2>1, <2>2, ConcatIs
<1>5. ~Asking' BY <1>4 DEF Asking
<1>6. Ended' \subseteq conversations'[contexts'[n].conversation] \cup contexts'[n].prompt BY <1>1
<1> HIDE DEF n
<1>7. Bound(p)' BY <1>1, <1>2, <1>4, <1>6 DEF Bound, Memory, LivelyEvents
<1>8. p = "codex" => Ended' = {} OBVIOUS
<1>9. \A c \in DOMAIN contexts' : ~Running(c)' BY <1>3 DEF AllIdle
<1> QED BY <1>1, <1>3, <1>5, <1>7, <1>8, <1>9 DEF PromptTurns

LEMMA PromptByStart ==
  ASSUME Typed, Typed', Calm, Promptly, Prompt, Ended' = Ended, Start PROVE Prompt'
<1>1. /\ job # None /\ job.step = "start" /\ job.start \in StartsOf(Turns, N)
      /\ Begins(job.start.provider, job.start.mode, job.start.cursor, job.start.prompt)
      /\ job' # None /\ job'.step = job.start.then /\ job'.type = job.type /\ job'.start = job.start
      /\ job'.read = job.read /\ job'.turn = job.turn
      /\ UNCHANGED <<thread, intents, setting, ingesting, spent>>
 BY PromptlyIs, StartIs
<1>2. AllIdle /\ ~Asking /\ runtime = << >> /\ ingesting = None
 BY <1>1, ServingIs, ActsAlone DEF Start
<1>3. job.start.provider \in Providers /\ job.start.then \in {"bind", "ready"}
 BY <1>1 DEF StartsOf
<1>4. /\ job.start.then = "bind" =>
            job.start.provider = "claudeCode" /\ Ended = {} /\ job.type = "turn"
      /\ job.start.then = "ready" =>
            /\ Ended \subseteq job.start.prompt
            /\ Ended # {} => job.start.provider = "claudeCode"
      /\ job.start.mode = "full-access"
 BY <1>1 DEF Prompt, PromptJob, PromptModes
<1>5. /\ Bound(job.start.provider)' /\ AllIdle' /\ ~Asking' /\ PromptTurns'
 <2>1. Ended \subseteq (IF job.start.provider = "claudeCode" THEN job.start.prompt ELSE {})
  BY <1>3, <1>4
 <2> QED BY <1>1, <1>2, <1>3, <2>1, BeginsBound
<1>6. UNCHANGED <<Session, thread.messages>> BY <1>1 DEF Session
<1>7. PromptModes' BY <1>1, <1>4, <1>6 DEF Prompt, PromptModes
<1>8. (ToCompact' => ToCompact) /\ (Compacting' => Compacting)
 BY <1>1, <1>3, <1>5 DEF ToCompact, Compacting
<1>9. PromptRequests'
 <2>1. \A c \in DOMAIN contexts' : ~Running(c)' BY <1>5 DEF AllIdle
 <2> QED BY <1>1, <1>3, <1>6, <1>8, <2>1, RequestsStayPrompt DEF Prompt
<1>10. job'.start.provider \in Providers /\ Bound(job.start.provider)' /\ job'.start = job.start
 BY <1>1, <1>3, <1>5
<1>11. PromptJob' BY <1>1, <1>3, <1>4, <1>10 DEF PromptJob
<1>12. ~Steady' BY <1>1, <1>3 DEF Steady
<1> QED BY <1>5, <1>7, <1>9, <1>11, <1>12 DEF Prompt

(* The thread shows the session that was started.                           *)
LEMMA ReadyAttaches ==
  ASSUME Typed, NEW p \in Providers, Bound(p), ingesting = None, Ended' = Ended,
    UNCHANGED <<agents, directory, ingesting, intents, spent, setting>>,
    SetSession(Ready(p, "full-access"))
  PROVE /\ Attached(p)' /\ Grounded' /\ Session' # NoSession /\ Session'.mode = "full-access"
        /\ UNCHANGED <<thread.mode, thread.messages>>
        /\ directory # None /\ directory.provider = p
<1>1. Session' = Ready(p, "full-access") /\ UNCHANGED <<thread.mode, thread.messages>>
 BY DEF SetSession, Session, Typed, ThreadTyped, ReadsOf
<1>2. /\ Session' # NoSession /\ Session'.provider = p /\ Session'.status = "ready"
      /\ Session'.mode = "full-access"
 BY <1>1, ReadyIsShown DEF Modes
<1>3. Bound(p)' BY SameAgentsIs, AgentsAreSame
<1>4. Attached(p)' BY <1>2, <1>3 DEF Attached, Showing, Shows
<1> QED BY <1>1, <1>2, <1>4 DEF Grounded, Bound

LEMMA PromptByBind ==
  ASSUME Typed, Calm, Promptly, Prompt, Ended' = Ended, Bind PROVE Prompt'
<1>1. /\ job # None /\ job.step = "bind"
      /\ UNCHANGED <<intents, setting, ingesting, agents, directory, spent>>
      /\ SetSession(Ready(job.start.provider, job.start.mode))
 BY DEF Bind, NoAgent, Aside
<1>2. AllIdle /\ ~Asking /\ runtime = << >> /\ ingesting = None
 BY <1>1, ServingIs, ActsAlone DEF Bind
<1>3. /\ Bound("claudeCode") /\ job.type = "turn" /\ job.start.provider = "claudeCode"
      /\ job.start.mode = "full-access"
 BY <1>1 DEF Prompt, PromptJob, PromptModes
<1>4. /\ Grounded' /\ Session' # NoSession /\ Session'.mode = "full-access"
      /\ UNCHANGED <<thread.mode, thread.messages>>
      /\ directory # None /\ directory.provider = "claudeCode"
 BY <1>1, <1>2, <1>3, ReadyAttaches DEF Providers
<1>5. /\ job'.step = "send" /\ job'.type = "turn" /\ job'.read = job.read /\ job'.turn = job.turn
 BY <1>1, <1>3, NextStep DEF Bind, AfterEnsure
<1>6. PromptModes' BY <1>1, <1>2, <1>4, <1>5 DEF Prompt, PromptModes
<1>7. UNCHANGED <<contexts, runtime>> /\ (Asking' <=> Asking) BY <1>1 DEF agents, Asking
<1>8. (ToCompact' => ToCompact) /\ (Compacting' => Compacting)
 BY <1>1, <1>5, <1>7 DEF ToCompact, Compacting
<1>9. PromptRequests'
 <2>1. \A c \in DOMAIN contexts' : Running(c)' => Running(c) BY <1>7 DEF Running
 <2> QED BY <1>1, <1>4, <1>5, <1>7, <1>8, <2>1, RequestsStayPrompt DEF Prompt
<1>10. PromptJob' BY <1>1, <1>4, <1>5 DEF PromptJob
<1>11. PromptTurns' BY <1>1, SameAgentsIs, AgentsAreSame DEF Prompt
<1> QED BY <1>4, <1>6, <1>9, <1>10, <1>11 DEF Prompt

LEMMA PromptByReady ==
  ASSUME Typed, Calm, Promptly, Prompt, Ended' = Ended, MarkReady PROVE Prompt'
<1>1. /\ job # None /\ job.step = "ready"
      /\ UNCHANGED <<intents, setting, ingesting, agents, directory, spent>>
      /\ SetSession(Ready(job.start.provider, job.start.mode))
 BY DEF MarkReady, NoAgent, Aside
<1>2. AllIdle /\ ~Asking /\ runtime = << >> /\ ingesting = None
 BY <1>1, ServingIs, ActsAlone DEF MarkReady
<1>3. Bound(job.start.provider) /\ job.start.mode = "full-access"
 BY <1>1 DEF Prompt, PromptJob, PromptModes
<1>4. job.start.provider \in Providers BY <1>1, JobIs DEF Typed, StartsOf
<1>5. /\ Grounded' /\ Session' # NoSession /\ Session'.mode = "full-access"
      /\ UNCHANGED <<thread.mode, thread.messages>>
      /\ directory # None
 BY <1>1, <1>2, <1>3, <1>4, ReadyAttaches
<1>6. /\ job'.step = "clear" /\ job'.type = job.type /\ job'.read = job.read /\ job'.turn = job.turn
 BY <1>1, NextStep DEF MarkReady
<1>7. PromptModes' BY <1>1, <1>2, <1>5, <1>6 DEF Prompt, PromptModes
<1>8. UNCHANGED <<contexts, runtime>> /\ (Asking' <=> Asking) BY <1>1 DEF agents, Asking
<1>9. (ToCompact' => ToCompact) /\ (Compacting' => Compacting)
 BY <1>1, <1>6, <1>8 DEF ToCompact, Compacting
<1>10. PromptRequests'
 <2>1. \A c \in DOMAIN contexts' : Running(c)' => Running(c) BY <1>8 DEF Running
 <2> QED BY <1>1, <1>5, <1>6, <1>8, <1>9, <2>1, RequestsStayPrompt DEF Prompt
<1>11. PromptJob' BY <1>1, <1>5, <1>6 DEF PromptJob
<1>12. PromptTurns' BY <1>1, SameAgentsIs, AgentsAreSame DEF Prompt
<1> QED BY <1>5, <1>7, <1>10, <1>11, <1>12 DEF Prompt

LEMMA PromptBySend ==
  ASSUME Typed, Typed', Calm, Promptly, Prompt, Ended' = Ended, Send
  PROVE Prompt' /\ (SendsTurn => Ended \subseteq Memory(RoutedContext))
<1>1. /\ job # None /\ job.step = "send" /\ UNCHANGED <<thread, intents, setting, ingesting>>
      /\ \/ Recover
         \/ SendsTurn
         \/ Fail /\ UNCHANGED <<agents, directory, spent>>
 BY PromptlyIs, SendIs
<1>2. AllIdle /\ ~Asking /\ runtime = << >> /\ ingesting = None
 BY <1>1, ServingIs, ActsAlone DEF Send
<1>3. Grounded /\ directory # None BY <1>1 DEF Prompt, PromptJob, Steady
<1>p. PICK p \in Providers : p = directory.provider BY <1>3, GroundedIs
<1>c. PICK c \in DOMAIN contexts : c = RoutedContext BY <1>3, GroundedIs
<1>4. /\ p \in Providers /\ Attached(p) /\ Routed /\ c = sessions[p] /\ c \in DOMAIN contexts
      /\ c = RoutedContext /\ p = directory.provider
 BY <1>3, <1>p, <1>c, GroundedIs
<1>5. ~Recover BY <1>4 DEF Recover
<1>6. CASE Fail /\ UNCHANGED <<agents, directory, spent>>
 <2>1. job' = None /\ Steady BY <1>1, <1>6, Ends DEF Steady
 <2>2. Prompt' BY <1>1, <1>6, <2>1, PromptFails, AgentsAreSame
 <2>3. ~SendsTurn
  <3>1. SendsTurn => runtime' = Append(runtime, Event("turn.started", contexts[c].provider, job.turn))
   BY <1>4 DEF SendsTurn, SendTurn
  <3>2. runtime' = runtime BY <1>6 DEF agents
  <3> QED BY <1>2, <3>1, <3>2
 <2> QED BY <2>2, <2>3
<1>7. CASE SendsTurn
 <2> DEFINE e == Event("turn.started", p, job.turn)
 <2>1. /\ DOMAIN contexts' = DOMAIN contexts
       /\ \A d \in DOMAIN contexts : d # c => contexts'[d] = contexts[d]
       /\ \E o : contexts'[c] = [contexts[c] EXCEPT !.turn = job.turn, !.interrupted = FALSE,
                                     !.others = o]
       /\ DOMAIN runtime = 1..Len(runtime) /\ DOMAIN runtime' = 1..Len(runtime) + 1
       /\ Len(runtime) \in Nat
       /\ \A i \in DOMAIN runtime : runtime'[i] = runtime[i]
       /\ runtime'[Len(runtime) + 1] = e
       /\ job' = None
  BY <1>4, <1>7, SendsTurnIs
 <2>2. /\ UNCHANGED <<sessions, conversations, spent>>
       /\ directory' = [directory EXCEPT !.cursor = contexts[c].cursor]
  BY <1>4, <1>7 DEF SendsTurn
 <2>3. contexts[c] \in ContextsOf(Turns, N) /\ directory \in BindingsOf(Turns, N)
  BY <1>3, <1>4, ContextsAre, DirectoryIs DEF Typed
 <2>4. /\ contexts'[c].up = contexts[c].up /\ contexts'[c].turn = job.turn
       /\ contexts'[c].prompt = contexts[c].prompt
       /\ contexts'[c].conversation = contexts[c].conversation
  BY <2>1, <2>3 DEF ContextsOf
 <2>5. directory' # None /\ directory'.provider = p
  <3>1. directory' \in BindingsOf(Turns, N) /\ directory'.provider = p
   BY <1>4, <2>2, <2>3 DEF BindingsOf, ContextsOf
  <3> QED BY <3>1, TurnsAreIds, RecordsAreSomething, ContextsAre DEF Typed
 <2>6. ~Asks(e) /\ Lively(p, e) BY DEF Event, Asks, Lively, Exits
 <2> HIDE DEF e
 <2>7. \A i \in DOMAIN runtime' : i \in DOMAIN runtime \/ runtime'[i] = e
  <3>1. \A i \in DOMAIN runtime' : i \in DOMAIN runtime \/ i = Len(runtime) + 1 BY <2>1
  <3> QED BY <2>1, <3>1
 <2>8. ~Asking' /\ LivelyEvents(p)'
  <3>1. \A i \in DOMAIN runtime' : ~Asks(runtime'[i]) /\ Lively(p, runtime'[i])
   BY <1>2, <2>6, <2>7
  <3> QED BY <1>1, <1>2, <3>1 DEF Asking, LivelyEvents
 <2>9. Ended \subseteq Memory(c) /\ Memory(c)' = Memory(c) /\ contexts[c].up
  <3>1. Ended \subseteq Memory(c) /\ contexts[c].up BY <1>4 DEF Attached, Bound
  <3> QED BY <2>2, <2>4, <3>1 DEF Memory
 <2>10. Bound(p)'
  <3>1. sessions'[p] = c /\ sessions[p] # 0 BY <1>4, <2>2 DEF Attached, Bound
  <3> QED BY <1>4, <2>2, <2>4, <2>5, <2>8, <2>9, <3>1 DEF Bound
 <2>11. UNCHANGED <<Session, thread.messages>> BY <1>1 DEF Session
 <2>12. Grounded'
  <3>1. Showing(p, Session) /\ ingesting' = None /\ Session' = Session
   BY <1>1, <1>2, <1>4, <2>11 DEF Attached
  <3>2. Attached(p)' BY <2>10, <3>1 DEF Attached, Showing, Shows
  <3> QED BY <1>4, <3>2 DEF Grounded
 <2>13. PromptModes' BY <1>1, <2>1, <2>11 DEF Prompt, PromptModes
 <2>14. job.type \in {"turn", "compact"}
  <3>1. job.type \notin {"stop", "interrupt", "mode"} BY <1>1 DEF Calm, Steps, Prompt, PromptModes
  <3> QED BY <1>1, <3>1 DEF Typed, JobTyped, JobsOf
 <2>15. /\ job.turn \in 1..spent.turns \/ job.turn > setting.turns
        /\ p = "codex" => job.turn > setting.turns
  BY <1>1, <1>4, <2>14 DEF Prompt, PromptJob, PromptRequests, Calm, Steps
 <2>16. \A d \in DOMAIN contexts' : Running(d)' => d = c BY <1>2, <2>1 DEF AllIdle, Running
 <2>17. (ToCompact' => ToCompact) /\ (Compacting' => Compacting)
  <3>1. \A i \in DOMAIN intents' : intents'[i] = intents[i] BY <1>1
  <3> QED BY <1>1, <2>1, <2>2, <2>8 DEF ToCompact, Compacting
 <2>18. PromptRequests'
  <3>1. /\ Ended' \subseteq 1..spent'.turns
        /\ ToCompact' => thread'.messages = 1..spent'.turns
        /\ Compacting' => spent'.compacts + spent'.full = 1
   BY <2>2, <2>11, <2>17 DEF Prompt, PromptRequests
  <3>2. ASSUME NEW d \in DOMAIN contexts', Running(d)'
      PROVE  contexts'[d].turn \in 1..spent'.turns \/ contexts'[d].turn > setting'.turns
   BY <1>1, <2>2, <2>4, <2>15, <2>16, <3>2
  <3> QED BY <2>1, <3>1, <3>2 DEF PromptRequests
 <2>19. PromptJob' BY <2>1 DEF PromptJob
 <2>20. PromptTurns'
  <3>1. p = "codex" => Ended' = {} BY <1>3, <1>4 DEF Prompt, PromptTurns
  <3>2. \A d \in DOMAIN contexts' : Running(d)' => d = sessions'[directory'.provider]
   BY <1>4, <2>2, <2>5, <2>16
  <3>3. p = "codex" => \A d \in DOMAIN contexts' : Running(d)' => contexts'[d].turn > setting'.turns
   BY <1>1, <2>4, <2>15, <2>16
  <3> QED BY <2>5, <3>1, <3>2, <3>3 DEF PromptTurns
 <2> QED BY <1>4, <2>9, <2>12, <2>13, <2>18, <2>19, <2>20 DEF Prompt
<1> QED BY <1>1, <1>5, <1>6, <1>7

LEMMA PromptByInterrupt ==
  ASSUME Typed, Calm, Promptly, Prompt, Ended' = Ended, Interrupt PROVE Prompt'
<1>1. /\ job # None /\ job.step = "route" /\ UNCHANGED <<thread, intents, setting, ingesting>>
      /\ \/ Recover
         \/ /\ Fail \/ Succeed
            /\ UNCHANGED <<sessions, conversations, runtime, directory, spent>>
            /\ DOMAIN contexts' = DOMAIN contexts
            /\ \A c \in DOMAIN contexts :
                  \/ contexts'[c] = contexts[c]
                  \/ \E b : contexts'[c] = [contexts[c] EXCEPT !.interrupted = b]
 BY InterruptIs
<1>2. Grounded /\ Steady BY <1>1 DEF Prompt, Steady
<1>3. ~Recover BY <1>2, GroundedIs DEF Recover
<1>4. job' = None BY <1>1, <1>3, Ends
<1>5. SameAgents
 <2>1. ASSUME NEW c \in DOMAIN contexts
     PROVE  /\ contexts'[c].up = contexts[c].up /\ contexts'[c].turn = contexts[c].turn
            /\ contexts'[c].prompt = contexts[c].prompt
            /\ contexts'[c].conversation = contexts[c].conversation
  <3>1. contexts[c] \in ContextsOf(Turns, N) BY ContextsAre DEF Typed
  <3> QED BY <1>1, <1>3, <3>1 DEF ContextsOf
 <2> QED BY <1>1, <1>3, <2>1 DEF SameAgents
<1> QED BY <1>1, <1>2, <1>3, <1>4, <1>5, PromptFails

LEMMA PromptByStop ==
  ASSUME Typed, Calm, Promptly, Prompt, Ended' = Ended, Stop PROVE Prompt'
<1>1. /\ job # None /\ job.step = "stop" /\ job.type = "compact" /\ MayAct
      /\ UNCHANGED <<thread, intents, setting, ingesting, spent, conversations>>
      /\ job'.step = "mark" /\ job'.type = job.type
      /\ job'.read = job.read /\ job'.turn = job.turn
      /\ \/ /\ directory = None \/ ~HasSession(job.read.session)
            /\ PassesOver /\ UNCHANGED <<agents, directory>>
         \/ /\ directory # None /\ HasSession(job.read.session) /\ directory' = None
            /\ \/ Routed /\ StopSession(RoutedContext) /\ Lose(TurnsOf(RoutedContext))
               \/ ~Routed /\ UNCHANGED <<contexts, sessions, runtime, history>>
 BY StopIs
<1>2. AllIdle /\ ~Asking /\ runtime = << >> /\ ingesting = None BY <1>1, ServingIs, ActsAlone
<1>3. /\ job.read.messages = 1..spent.turns /\ Ended \subseteq 1..spent.turns
      /\ directory # None => Showing(directory.provider, job.read.session)
      /\ Grounded
 BY <1>1 DEF Prompt, PromptJob, PromptRequests, Steady
<1>4. directory' = None BY <1>1, <1>3 DEF Showing, Shows, HasSession
<1>5. Ended # {} => Showing("claudeCode", job.read.session)
 <2>1. CASE directory = None BY <1>3, <2>1, GroundedIs DEF Untouched
 <2>2. CASE directory # None
  <3>1. directory.provider \in Providers BY <2>2, DirectoryIs DEF Typed
  <3> QED BY <1>3, <2>2, <3>1 DEF Prompt, PromptTurns, Providers
 <2> QED BY <2>1, <2>2
<1>6. AllIdle' /\ ~Asking'
 <2>1. CASE UNCHANGED <<contexts, runtime>> BY <1>1, <1>2, <2>1 DEF AllIdle, Running, Asking
 <2>2. CASE Routed /\ StopSession(RoutedContext)
  <3>1. RoutedContext \in DOMAIN contexts BY <2>2, RoutedIs DEF Typed
  <3>2. /\ DOMAIN contexts' = DOMAIN contexts
        /\ \A d \in DOMAIN contexts : d # RoutedContext => contexts'[d] = contexts[d]
        /\ ~contexts'[RoutedContext].up
   BY <2>2, <3>1, StopSessionIs
  <3>3. AllIdle' BY <1>2, <3>2 DEF AllIdle, Running
  <3> DEFINE S == EventsOf(Turns)
             events == StopEvents(RoutedContext)
  <3>4. /\ events \in Seq(S) /\ runtime \in Seq(S) /\ runtime' = runtime \o events
        /\ \A i \in DOMAIN events : ~Asks(events[i])
   BY <2>2, <3>1, StopAnnounces, StopAsksNothing DEF Typed, RuntimeTyped
  <3> HIDE DEF S, events
  <3>5. \A i \in DOMAIN runtime' : ~Asks(runtime'[i])
   <4>1. DOMAIN runtime = {} BY <1>2
   <4> QED BY <1>2, <3>4, <4>1, ConcatIs
  <3> QED BY <1>1, <1>2, <3>3, <3>5 DEF Asking
 <2>3. UNCHANGED <<agents, directory>> => UNCHANGED <<contexts, runtime>> BY DEF agents
 <2> QED BY <1>1, <2>1, <2>2, <2>3
<1>7. UNCHANGED <<Session, thread.messages>> BY <1>1 DEF Session
<1>8. PromptModes' BY <1>1, <1>7 DEF Prompt, PromptModes
<1>9. (ToCompact' => ToCompact) /\ (Compacting' => Compacting)
 BY <1>1, <1>6 DEF ToCompact, Compacting
<1>10. PromptRequests'
 <2>1. \A c \in DOMAIN contexts' : ~Running(c)' BY <1>6 DEF AllIdle
 <2> QED BY <1>1, <1>7, <1>9, <2>1, RequestsStayPrompt DEF Prompt
<1>11. PromptJob' BY <1>1, <1>3, <1>4, <1>5 DEF PromptJob, Showing, Shows
<1>12. PromptTurns' BY <1>4, <1>6 DEF PromptTurns, AllIdle
<1>13. job' # None
 <2>1. job' = [job EXCEPT !.step = "mark"] /\ job \in JobsOf(Turns, N)
  BY <1>1 DEF Typed, JobTyped, Stop, NextJob
 <2>2. job' \in JobsOf(Turns, N) BY <2>1 DEF JobsOf
 <2> QED BY <2>2, TurnsAreIds, RecordsAreSomething, ContextsAre DEF Typed
<1>14. ~Steady' BY <1>1, <1>13 DEF Steady
<1> QED BY <1>8, <1>10, <1>11, <1>12, <1>13, <1>14 DEF Prompt

LEMMA PromptByMark ==
  ASSUME Typed, Typed', Calm, Promptly, Prompt, Ended' = Ended, Mark PROVE Prompt'
<1> DEFINE read == job.read
           start == [provider |-> IF SessionProvider(read.session) = None
                                  THEN "codex" ELSE read.session.provider,
                     mode |-> read.mode, cursor |-> None,
                     prompt |-> read.messages, then |-> "ready"]
<1>1. /\ job # None /\ job.step = "mark"
      /\ UNCHANGED <<intents, setting, ingesting, agents, directory, spent>>
      /\ SetSession(Stopped(read.session))
 BY DEF Mark, NoAgent, Aside
<1>2. job.type = "compact" /\ AllIdle /\ ~Asking BY <1>1, ServingIs DEF Calm, Steps
<1>3. /\ job' = [job EXCEPT !.step = "start", !.start = start]
      /\ start.then = "ready" /\ start.mode = read.mode /\ start.prompt = read.messages
      /\ start.provider = IF SessionProvider(read.session) = None
                          THEN "codex" ELSE read.session.provider
 BY <1>2 DEF Mark
<1> HIDE DEF start
<1>4. /\ job'.step = "start" /\ job'.type = job.type /\ job'.start = start
      /\ job'.read = job.read /\ job'.turn = job.turn
 BY <1>1, <1>3, JobExcept
<1>5. /\ directory = None /\ Ended \subseteq read.messages
      /\ Ended # {} => Showing("claudeCode", read.session)
      /\ read.mode = "full-access" /\ (read.session # NoSession => read.session.mode = "full-access")
 BY <1>1 DEF Prompt, PromptJob, PromptModes
<1>6. /\ Session' = Stopped(read.session) /\ UNCHANGED <<thread.mode, thread.messages>>
 BY <1>1 DEF SetSession, Session, Typed, ThreadTyped, ReadsOf
<1>7. Session'.mode = "full-access"
 <2>1. CASE read.session = NoSession BY <1>6, <2>1 DEF Stopped
 <2>2. CASE read.session # NoSession
  <3>1. read.session \in SessionsOf(Turns) BY <1>1, <2>2, JobIs DEF Typed
  <3>2. Stopped(read.session).mode = read.session.mode BY <2>2, <3>1 DEF Stopped, SessionsOf
  <3> QED BY <1>5, <1>6, <2>2, <3>2
 <2> QED BY <2>1, <2>2
<1>8. PromptModes' BY <1>1, <1>4, <1>5, <1>3, <1>6, <1>7 DEF Prompt, PromptModes
<1>9. UNCHANGED <<contexts, runtime>> /\ (Asking' <=> Asking) BY <1>1 DEF agents, Asking
<1>10. (ToCompact' => ToCompact) /\ (Compacting' => Compacting)
 BY <1>1, <1>4, <1>9 DEF ToCompact, Compacting
<1>11. PromptRequests'
 <2>1. \A c \in DOMAIN contexts' : Running(c)' => Running(c) BY <1>9 DEF Running
 <2> QED BY <1>1, <1>4, <1>6, <1>9, <1>10, <2>1, RequestsStayPrompt DEF Prompt
<1>12. Ended # {} => start.provider = "claudeCode"
 <2>1. "claudeCode" # None BY NoneAssumption DEF Providers
 <2> QED BY <1>3, <1>5, <2>1 DEF Showing, Shows, SessionProvider
<1>13. PromptJob' BY <1>1, <1>3, <1>4, <1>5, <1>12 DEF PromptJob
<1>14. PromptTurns' BY <1>1, SameAgentsIs, AgentsAreSame DEF Prompt
<1>15. ~Steady'
 <2>1. job' # None
  <3>1. job \in JobsOf(Turns, N) /\ start.provider \in Providers
        /\ read.mode \in Modes /\ read.messages \in SUBSET Turns
   <4>1. /\ job \in JobsOf(Turns, N) /\ read.mode \in Modes /\ read.messages \in SUBSET Turns
         /\ read.session \in {NoSession} \cup SessionsOf(Turns)
    BY <1>1, JobIs DEF Typed
   <4>2. start.provider \in Providers BY <1>3, <4>1 DEF SessionProvider, SessionsOf, Providers
   <4> QED BY <4>1, <4>2
  <3>2. start \in StartsOf(Turns, N) BY <3>1 DEF start, StartsOf
  <3>3. job' \in JobsOf(Turns, N) BY <1>3, <3>1, <3>2 DEF JobsOf
  <3> QED BY <3>3, TurnsAreIds, RecordsAreSomething, ContextsAre DEF Typed
 <2> QED BY <1>3, <1>4, <2>1 DEF Steady
<1> QED BY <1>8, <1>11, <1>13, <1>14, <1>15 DEF Prompt

LEMMA PromptByClear ==
  ASSUME Typed, Calm, Promptly, Prompt, Ended' = Ended, Clear PROVE Prompt'
<1>1. /\ job # None /\ job.step = "clear" /\ thread' = [thread EXCEPT !.messages = {}]
      /\ job' = [job EXCEPT !.step = "ensure", !.turn = FirstAcknowledgement + Len(contexts)]
      /\ UNCHANGED <<intents, setting, ingesting, agents, directory, spent>>
 BY DEF Clear, NoAgent, Aside
<1>2. /\ job \in JobsOf(Turns, N) /\ job'.step = "ensure" /\ job'.type = job.type
      /\ job'.read = job.read /\ job'.turn = setting.turns + Len(contexts)
 BY <1>1 DEF Typed, JobTyped, JobsOf, FirstAcknowledgement
<1>3. job.type = "compact" /\ AllIdle /\ ~Asking /\ \A i \in DOMAIN intents : ~IsWork(intents[i])
 BY <1>1, ServingIs DEF Calm, Steps
<1>4. job'.turn > setting.turns
 <2>1. contexts # << >> /\ Len(contexts) \in Nat /\ setting.turns \in Nat
  BY <1>1, TurnsAreIds, ContextsAre DEF Typed, JobTyped
 <2>2. Len(contexts) # 0 BY <2>1, EmptySeq DEF Typed, AgentsTyped
 <2> QED BY <1>2, <2>1, <2>2
<1>5. Session' = Session /\ thread'.mode = thread.mode
 BY <1>1 DEF Session, Typed, ThreadTyped, ReadsOf
<1>6. PromptModes' BY <1>1, <1>2, <1>5 DEF Prompt, PromptModes
<1>7. UNCHANGED <<contexts, runtime>> /\ (Asking' <=> Asking) BY <1>1 DEF agents, Asking
<1>8. spent.compacts + spent.full = 1 BY <1>1, <1>3 DEF Prompt, PromptRequests, Compacting
<1>9. ~ToCompact' BY <1>1, <1>2, <1>3, <1>7, <1>8 DEF ToCompact, IsWork
<1>10. PromptRequests'
 <2>1. \A c \in DOMAIN contexts' : ~Running(c)' BY <1>3, <1>7 DEF AllIdle, Running
 <2> QED BY <1>1, <1>2, <1>4, <1>8, <1>9, <2>1 DEF Prompt, PromptRequests
<1>11. directory # None /\ Grounded BY <1>1 DEF Prompt, PromptJob, Steady
<1>12. PromptJob' BY <1>1, <1>2, <1>11 DEF PromptJob
<1>13. PromptTurns' /\ Grounded' BY <1>1, <1>5, <1>11, SameAgentsIs, AgentsAreSame DEF Prompt
<1> QED BY <1>6, <1>10, <1>12, <1>13 DEF Prompt

\* A user who waits asks for something.
LEMMA PromptByAsk ==
  ASSUME Typed, Serene, Promptly, Prompt, Ended' = Ended, NEW intent, Ask(intent),
    intent.type \in {"turn", "compact"}, UNCHANGED <<thread.mode, Session>>,
    spent.turns \in Nat, spent'.turns \in Nat, spent.turns <= spent'.turns,
    thread.messages = 1..spent.turns /\ spent.compacts + spent.full = 0 =>
       thread'.messages = 1..spent'.turns,
    spent'.compacts + spent'.full = 0 => spent.compacts + spent.full = 0,
    intent.type = "compact" => /\ spent.compacts + spent.full = 0
                               /\ spent'.compacts + spent'.full = 1
  PROVE Prompt'
<1>1. /\ intents = << >> /\ job = None /\ runtime = << >> /\ ingesting = None /\ AllIdle
      /\ DOMAIN intents' = {1} /\ intents'[1] = intent
      /\ UNCHANGED <<setting, job, directory, agents, ingesting, history>>
 BY AskIs
<1>2. UNCHANGED <<contexts, runtime>> /\ (Asking' <=> Asking) /\ ~Asking
 <2>1. UNCHANGED <<contexts, runtime>> /\ DOMAIN runtime = {} BY <1>1 DEF agents
 <2> QED BY <1>1, <2>1 DEF Asking
<1>3. PromptModes' BY <1>1 DEF Prompt, PromptModes
<1>4. \A c \in DOMAIN contexts' : ~Running(c)' BY <1>1, <1>2 DEF AllIdle, Running
<1>5. PromptRequests'
 <2>1. Ended' \subseteq 1..spent'.turns
  <3>1. Ended \subseteq 1..spent.turns BY DEF Prompt, PromptRequests
  <3>2. 1..spent.turns \subseteq 1..spent'.turns OBVIOUS
  <3> QED BY <3>1, <3>2
 <2>2. ToCompact' => thread'.messages = 1..spent'.turns
  <3>1. ToCompact' => spent.compacts + spent.full = 0 BY <1>1, <1>2 DEF ToCompact
  <3> QED BY <3>1 DEF Prompt, PromptRequests, ToCompact
 <2>3. Compacting' => spent'.compacts + spent'.full = 1 BY <1>1, <1>2 DEF Compacting
 <2> QED BY <1>1, <1>4, <2>1, <2>2, <2>3 DEF PromptRequests
<1>6. PromptJob' /\ Steady /\ Grounded BY <1>1 DEF PromptJob, Steady, Prompt
<1>7. PromptTurns' /\ Grounded' BY <1>1, <1>6, SameAgentsIs, AgentsAreSame DEF Prompt
<1> QED BY <1>3, <1>5, <1>6, <1>7 DEF Prompt

LEMMA PromptByUser ==
  ASSUME Typed, Calm, Promptly, Prompt, Ended' = Ended, User PROVE Prompt'
<1>1. /\ Serene /\ spent.turns \in Nat
      /\ ~Spend("modes") /\ ~Spend("stops")
      /\ Spend("compacts") =>
               /\ spent.compacts + spent.full = 0 /\ spent'.compacts + spent'.full = 1
               /\ spent'.turns = spent.turns
 BY PromptlyIs, SereneIs
<1>2. ASSUME NEW p \in setting.providers, RequestTurn(p) PROVE Prompt'
 <2> DEFINE intent == [type |-> "turn", turn |-> spent'.turns, provider |-> p]
 <2>1. /\ Spend("turns") /\ thread' = [thread EXCEPT !.messages = @ \cup {spent'.turns}]
       /\ Ask(intent) /\ intent.type = "turn"
  BY <1>2 DEF RequestTurn
 <2> HIDE DEF intent
 <2>2. /\ spent'["turns"] = spent["turns"] + 1
       /\ spent'["compacts"] = spent["compacts"] /\ spent'["full"] = spent["full"]
  BY <2>1, SpendIs DEF Requests
 <2>3. /\ UNCHANGED <<thread.mode, Session>>
       /\ thread'.messages = thread.messages \cup {spent'.turns}
  BY <2>1 DEF Session, Typed, ThreadTyped, ReadsOf
 <2>4. 1..spent.turns + 1 = (1..spent.turns) \cup {spent.turns + 1} BY <1>1
 <2>5. thread.messages = 1..spent.turns => thread'.messages = 1..spent'.turns BY <2>2, <2>3, <2>4
 <2> QED BY <1>1, <2>1, <2>2, <2>3, <2>5, PromptByAsk
<1>3. CASE RequestCompaction
 <2> DEFINE intent == [type |-> "compact"]
 <2>1. Spend("compacts") /\ Ask(intent) /\ UNCHANGED thread /\ intent.type = "compact"
  BY <1>3 DEF RequestCompaction
 <2> HIDE DEF intent
 <2>2. UNCHANGED <<thread.mode, Session, thread.messages>> BY <2>1 DEF Session
 <2> QED BY <1>1, <2>1, <2>2, PromptByAsk
<1>4. CASE RequestInterrupt
 <2>1. /\ UNCHANGED <<setting, thread, job, directory, agents, ingesting>>
       /\ \A r \in Requests : r # "interrupts" => spent'[r] = spent[r]
       /\ \A i \in DOMAIN intents' :
             \/ i \in DOMAIN intents /\ intents'[i] = intents[i]
             \/ intents'[i] = [type |-> "interrupt"]
  BY <1>4, RequestInterruptIs
 <2>2. spent'.turns = spent.turns /\ spent'.compacts = spent.compacts /\ spent'.full = spent.full
  BY <2>1 DEF Requests
 <2>3. UNCHANGED <<Session, thread.messages, contexts, runtime>> /\ (Asking' <=> Asking)
  BY <2>1 DEF Session, agents, Asking
 <2>4. PromptModes' BY <2>1, <2>3 DEF Prompt, PromptModes
 <2>5. (\E i \in DOMAIN intents' : intents'[i].type = "compact") =>
          \E i \in DOMAIN intents : intents[i].type = "compact"
  BY <2>1
 <2>6. (ToCompact' => ToCompact) /\ (Compacting' => Compacting)
  BY <2>1, <2>2, <2>3, <2>5 DEF ToCompact, Compacting
 <2>7. PromptRequests'
  <3>1. \A c \in DOMAIN contexts' : Running(c)' => Running(c) BY <2>3 DEF Running
  <3> QED BY <2>1, <2>2, <2>3, <2>6, <3>1 DEF Prompt, PromptRequests
 <2>8. PromptTurns' /\ (Grounded => Grounded') /\ \A p \in Providers : Bound(p) => Bound(p)'
  BY <2>1, <2>3, SameAgentsIs, AgentsAreSame DEF Prompt
 <2>9. PromptJob' /\ (Steady' <=> Steady)
  <3>1. job # None /\ job.step \in {"bind", "ready"} => job.start.provider \in Providers
   BY JobIs DEF Typed, StartsOf
  <3> QED BY <2>1, <2>2, <2>8, <3>1 DEF Prompt, PromptJob, Showing, Shows, Steady
 <2> QED BY <2>4, <2>7, <2>8, <2>9 DEF Prompt
<1> QED BY <1>1, <1>2, <1>3, <1>4 DEF User, RequestMode, RequestStop

LEMMA PromptByRead ==
  ASSUME Typed, Calm, Promptly, Prompt, Ended' = Ended, IngestRead PROVE Prompt'
<1>1. /\ ingesting = None /\ ingesting' # None
      /\ ingesting'.event = runtime[1] /\ ingesting'.session = Session
      /\ 1 \in DOMAIN runtime
      /\ \A i \in DOMAIN runtime' : i + 1 \in DOMAIN runtime /\ runtime'[i] = runtime[i + 1]
      /\ UNCHANGED <<setting, thread, intents, job, directory, sessions, contexts, conversations,
                     spent>>
 BY IngestReadIs DEF IngestRead, worker
<1>2. UNCHANGED <<Session, thread.messages>> /\ (AllIdle' <=> AllIdle)
      /\ \A c \in DOMAIN contexts : Running(c)' <=> Running(c)
 BY <1>1 DEF Session, AllIdle, Running
<1>3. Asking' => Asking BY <1>1 DEF Asking
<1>4. PromptModes' BY <1>1, <1>2 DEF Prompt, PromptModes
<1>5. (ToCompact' => ToCompact) /\ (Compacting' => Compacting)
 BY <1>1, <1>3 DEF ToCompact, Compacting
<1>6. PromptRequests'
 <2>1. job' # None /\ job'.type = "compact" /\ job'.step \in {"ensure", "send"} =>
           job'.turn > setting.turns
  BY <1>1 DEF Prompt, PromptRequests
 <2> QED BY <1>1, <1>2, <1>5, <2>1, RequestsStayPrompt DEF Prompt
<1>7. \A p \in Providers : LivelyEvents(p) => LivelyEvents(p)' BY <1>1 DEF LivelyEvents
<1>8. \A p \in Providers : Bound(p) => Bound(p)' BY <1>1, <1>7 DEF Bound, Memory
<1>9. PromptJob' /\ PromptTurns' BY <1>1, <1>2, <1>8, JobStaysPrompt DEF Prompt, PromptTurns
<1>10. Grounded => Grounded'
 <2> SUFFICES ASSUME Grounded PROVE Grounded' OBVIOUS
 <2>1. ~Untouched BY <1>1 DEF Untouched
 <2>2. PICK p \in Providers : Attached(p) BY <2>1 DEF Grounded
 <2>3. Attached(p)' BY <1>1, <1>2, <1>8, <2>2 DEF Attached, Showing, Shows
 <2> QED BY <2>3 DEF Grounded
<1>11. Steady' <=> Steady BY <1>1 DEF Steady
<1> QED BY <1>4, <1>6, <1>9, <1>10, <1>11 DEF Prompt

LEMMA PromptByWrite ==
  ASSUME Typed, Calm, Promptly, Prompt, Ended' = Ended, IngestWrite PROVE Prompt'
<1> DEFINE event == ingesting.event
           session == ingesting.session
<1>1. /\ ingesting # None /\ ingesting' = None
      /\ event \in EventsOf(Turns) /\ session \in {NoSession} \cup SessionsOf(Turns)
      /\ UNCHANGED <<setting, job, directory, agents, spent>>
      /\ thread' = IF Applies(event, session)
                   THEN [thread EXCEPT !.session = NextSession(event, session)] ELSE thread
      /\ \/ UNCHANGED intents
         \/ /\ Asks(event)
            /\ DOMAIN intents' = 1..Len(intents) + 1 /\ DOMAIN intents = 1..Len(intents)
            /\ Len(intents) \in Nat
            /\ \A i \in DOMAIN intents : intents'[i] = intents[i]
            /\ intents'[Len(intents) + 1] = [type |-> "compact"]
 BY WrittenIs
<1>2. session # NoSession => session.mode = "full-access" BY <1>1 DEF Prompt, PromptModes
<1> HIDE DEF event, session
<1>3. /\ Session' = IF Applies(event, session) THEN NextSession(event, session) ELSE Session
      /\ UNCHANGED <<thread.mode, thread.messages>>
 BY <1>1 DEF Session, Typed, ThreadTyped, ReadsOf
<1>4. Applies(event, session) /\ NextSession(event, session) # NoSession =>
         NextSession(event, session).mode = "full-access"
 <2>1. CASE IsUsage(event) BY <1>2, <2>1 DEF NextSession, IsUsage
 <2>2. CASE ~IsUsage(event) BY <1>1, <1>2, <2>2, NextIsShown
 <2> QED BY <2>1, <2>2
<1>5. \A i \in DOMAIN intents' : \/ i \in DOMAIN intents /\ intents'[i] = intents[i]
                                 \/ Asks(event) /\ intents'[i].type = "compact"
 <2>1. CASE UNCHANGED intents BY <2>1
 <2>2. CASE ~UNCHANGED intents
  <3>1. \A i \in DOMAIN intents' : i \in DOMAIN intents \/ i = Len(intents) + 1 BY <1>1, <2>2
  <3> QED BY <1>1, <2>2, <3>1
 <2> QED BY <2>1, <2>2
<1>6. PromptModes' BY <1>1, <1>3, <1>4, <1>5 DEF Prompt, PromptModes
<1>7. UNCHANGED <<sessions, contexts, conversations, runtime>> BY <1>1 DEF agents
<1>8. (Asking' => Asking) /\ (Asks(event) => Asking) BY <1>1, <1>7 DEF Asking, event
<1>9. (ToCompact' => ToCompact) /\ (Compacting' => Compacting)
 BY <1>1, <1>5, <1>8 DEF ToCompact, Compacting
<1>10. PromptRequests'
 <2>1. \A c \in DOMAIN contexts' : Running(c)' => Running(c) BY <1>7 DEF Running
 <2>2. job' # None /\ job'.type = "compact" /\ job'.step \in {"ensure", "send"} =>
           job'.turn > setting.turns
  BY <1>1 DEF Prompt, PromptRequests
 <2> QED BY <1>1, <1>3, <1>7, <1>9, <2>1, <2>2, RequestsStayPrompt DEF Prompt
<1>11. \A p \in Providers : Bound(p) => Bound(p)' BY <1>1, <1>7 DEF Bound, Memory, LivelyEvents
<1>12. PromptJob' /\ PromptTurns'
 BY <1>1, <1>7, <1>11, JobStaysPrompt DEF Prompt, PromptTurns, Running
<1>13. Grounded => Grounded'
 <2> SUFFICES ASSUME Grounded PROVE Grounded' OBVIOUS
 <2>1. ~Untouched BY <1>1 DEF Untouched
 <2>2. PICK p \in Providers : Attached(p) BY <2>1 DEF Grounded
 <2>3. Showing(p, session) /\ Showing(p, Session) /\ ~Exits(event) /\ event.provider = p
  BY <1>1, <2>2 DEF Attached, Bound, LivelyEvents, Lively, event, session
 <2>4. Applies(event, session) => Showing(p, NextSession(event, session))
  <3>1. CASE IsUsage(event) BY <2>3, <3>1 DEF NextSession, IsUsage
  <3>2. CASE ~IsUsage(event) BY <1>1, <2>3, <3>2, NextIsShown DEF Showing, Shows
  <3> QED BY <3>1, <3>2
 <2>5. Showing(p, Session)' BY <1>3, <2>3, <2>4 DEF Showing, Shows
 <2>6. Attached(p)' BY <1>1, <1>11, <2>2, <2>5 DEF Attached
 <2> QED BY <2>6 DEF Grounded
<1>14. Steady' <=> Steady BY <1>1 DEF Steady
<1> QED BY <1>6, <1>10, <1>12, <1>13, <1>14 DEF Prompt

LEMMA PromptByComplete ==
  ASSUME Typed, Typed', Calm, Promptly, Prompt, NEW c \in DOMAIN contexts,
    NEW state \in {"completed", "failed", "interrupted"}, NEW full \in BOOLEAN,
    CompleteTurn(c, state, full)
  PROVE Prompt'
<1> DEFINE turn == contexts[c].turn
           talk == contexts[c].conversation
<1>1. /\ Running(c)
      /\ UNCHANGED <<setting, thread, intents, job, directory, sessions, ingesting>>
      /\ DOMAIN contexts' = DOMAIN contexts
      /\ \A d \in DOMAIN contexts : d # c => contexts'[d] = contexts[d]
      /\ contexts'[c].up = contexts[c].up /\ contexts'[c].turn = NoTurn
      /\ contexts'[c].conversation = talk /\ contexts'[c].prompt = contexts[c].prompt
      /\ conversations' = [conversations EXCEPT ![talk] = @ \cup {turn}]
 BY CompletesIs
<1>2. /\ Ended' \subseteq Ended \cup {turn}
      /\ turn > setting.turns => Ended' = Ended
 BY CompletionEnds
<1>3. /\ ~Serving /\ ~Ordered /\ ~Asking
      /\ \A d \in DOMAIN contexts : Running(d) => d = c
 BY <1>1 DEF Calm, AllIdle
<1>4. job # None => job.step = "route" /\ job.type = "interrupt" BY <1>3 DEF Serving, Calm, Steps
<1>5. Steady /\ Steady' /\ Grounded /\ ~Untouched
 BY <1>1, <1>4 DEF Steady, Prompt, Untouched, AllIdle
<1>6. PICK p \in Providers : p = directory.provider BY <1>5, GroundedIs
<1>7. /\ Attached(p) /\ directory # None /\ c = sessions[p] /\ contexts[c].provider = p
 <2>1. /\ Attached(p) /\ directory # None BY <1>5, <1>6, GroundedIs
 <2>2. c = sessions[p] BY <1>1, <1>6 DEF Prompt, PromptTurns
 <2>3. sessions[p] # 0 BY <2>1 DEF Attached, Bound
 <2> QED BY <2>1, <2>2, <2>3 DEF Typed, AgentsTyped
<1>8. /\ turn \in 1..spent.turns \/ turn > setting.turns
      /\ p = "codex" => turn > setting.turns /\ Ended = {}
      /\ Ended \subseteq 1..spent.turns
 BY <1>1, <1>6, <1>7 DEF Prompt, PromptRequests, PromptTurns
<1>9. /\ Ended' \subseteq 1..spent.turns
      /\ p = "codex" => Ended' = {}
 BY <1>2, <1>8
<1>10. \A d \in DOMAIN contexts' : ~Running(d)' BY <1>1, <1>3 DEF Running
<1> DEFINE S == EventsOf(Turns)
           events == CompletionEvents(c, state, full)
<1>11. /\ runtime' = runtime \o events /\ events \in Seq(S) /\ runtime \in Seq(S)
       /\ \A i \in DOMAIN events : Lively(p, events[i])
       /\ (\E i \in DOMAIN events : Asks(events[i])) => full
 BY <1>7, CompleteTurnIs, CompletionIs DEF Typed, RuntimeTyped
<1> HIDE DEF S, events
<1>12. \A i \in DOMAIN runtime' : \/ i \in DOMAIN runtime /\ runtime'[i] = runtime[i]
                                  \/ \E j \in DOMAIN events : runtime'[i] = events[j]
 BY <1>11, AppendedIs
<1>13. /\ Asking' => full
       /\ LivelyEvents(p)'
 <2>1. Asking' => full BY <1>1, <1>3, <1>11, <1>12 DEF Asking
 <2>2. LivelyEvents(p)' BY <1>1, <1>7, <1>11, <1>12 DEF LivelyEvents, Attached, Bound
 <2> QED BY <2>1, <2>2
<1>14. /\ spent'.turns = spent.turns
       /\ full => spent.compacts + spent.full = 0 /\ spent'.compacts + spent'.full = 1
       /\ ~full => spent'.compacts = spent.compacts /\ spent'.full = spent.full
 <2>1. CASE full BY <2>1, PromptlyIs DEF CompleteTurn, SpendEnd
 <2>2. CASE ~full
  <3>1. Spend("faults") \/ UNCHANGED spent BY <2>2 DEF CompleteTurn, SpendEnd
  <3> QED BY <2>2, <3>1, PromptlyIs, SereneIs
 <2> QED BY <2>1, <2>2
<1>15. UNCHANGED <<Session, thread.messages>> BY <1>1 DEF Session
<1>16. PromptModes' BY <1>1, <1>15 DEF Prompt, PromptModes
<1>17. \A i \in DOMAIN intents' : intents'[i].type # "compact" BY <1>1, <1>3 DEF Ordered, IsWork
<1>18. job' # None => job'.type # "compact" BY <1>1, <1>4
<1>19. PromptRequests'
 <2>1. ToCompact' => spent.compacts + spent.full = 0 BY <1>13, <1>14, <1>17, <1>18 DEF ToCompact
 <2>2. ToCompact' => thread'.messages = 1..spent'.turns
  BY <1>14, <1>15, <2>1 DEF Prompt, PromptRequests, ToCompact
 <2>3. Compacting' => spent'.compacts + spent'.full = 1
  BY <1>13, <1>14, <1>17, <1>18 DEF Compacting
 <2> QED BY <1>9, <1>10, <1>14, <1>18, <2>2, <2>3 DEF PromptRequests
<1>20. PromptJob' BY <1>1, <1>4 DEF PromptJob
<1>21. PromptTurns' BY <1>1, <1>6, <1>9, <1>10 DEF PromptTurns
<1>22. Grounded'
 <2>1. /\ talk \in 1..N /\ conversations'[talk] = conversations[talk] \cup {turn}
  <3>1. contexts[c] \in ContextsOf(Turns, N) BY ContextsAre DEF Typed
  <3>2. talk \in 1..N BY <3>1 DEF ContextsOf
  <3> QED BY <1>1, <3>2 DEF Typed, AgentsTyped, N
 <2>2. Memory(c)' = Memory(c) \cup {turn} BY <1>1, <2>1 DEF Memory
 <2>3. Ended \subseteq Memory(c) /\ contexts[c].up /\ Showing(p, Session) /\ c # 0
       /\ (ingesting # None => Showing(p, ingesting.session))
  BY <1>7 DEF Attached, Bound
 <2>4. Bound(p)' BY <1>1, <1>2, <1>6, <1>7, <1>13, <2>2, <2>3 DEF Bound
 <2>5. Attached(p)' BY <1>1, <1>15, <2>3, <2>4 DEF Attached, Showing, Shows
 <2> QED BY <2>5 DEF Grounded
<1> QED BY <1>16, <1>19, <1>20, <1>21, <1>22 DEF Prompt

LEMMA PromptStays ==
  ASSUME Prompt, UNCHANGED vars PROVE Prompt'
<1>1. /\ UNCHANGED <<setting, thread, intents, job, directory, sessions, contexts, conversations,
                     runtime, ingesting, spent, history>>
 BY DEF vars
<1>2. /\ (Asking' <=> Asking) /\ Ended' = Ended /\ UNCHANGED Session
      /\ \A c : Running(c)' <=> Running(c)
      /\ \A p : LivelyEvents(p)' <=> LivelyEvents(p)
 BY <1>1 DEF Asking, Ended, Session, Running, LivelyEvents
<1>3. (AllIdle' <=> AllIdle) /\ \A p : Bound(p)' <=> Bound(p)
 BY <1>1, <1>2 DEF AllIdle, Bound, Memory
<1>4. (Grounded' <=> Grounded) /\ (Steady' <=> Steady)
 BY <1>1, <1>2, <1>3 DEF Grounded, Untouched, Attached, Showing, Shows, Steady
<1>5. PromptModes' /\ PromptTurns' BY <1>1, <1>2 DEF Prompt, PromptModes, PromptTurns
<1>6. PromptRequests' BY <1>1, <1>2 DEF Prompt, PromptRequests, ToCompact, Compacting
<1>7. PromptJob' BY <1>1, <1>2, <1>3 DEF Prompt, PromptJob, Showing, Shows
<1> QED BY <1>4, <1>5, <1>6, <1>7 DEF Prompt

LEMMA PromptInit == ASSUME Init, setting.turns \in Nat PROVE Prompt
<1>1. /\ intents = << >> /\ job = None /\ contexts = << >> /\ runtime = << >> /\ ingesting = None
      /\ directory = None /\ Session = NoSession /\ thread.mode = "full-access"
      /\ thread.messages = {} /\ history.ended = {}
      /\ spent = [r \in Requests |-> 0]
 BY DEF Init, Session
<1>2. spent.turns = 0 /\ spent.compacts = 0 /\ spent.full = 0 BY <1>1 DEF Requests
<1>3. DOMAIN << >> = {} /\ 1..0 = {} OBVIOUS
<1>4. Ended = {} /\ AllIdle BY <1>1, <1>3 DEF Ended, AllIdle
<1>5. PromptModes /\ PromptJob BY <1>1, <1>3 DEF PromptModes, PromptJob
<1>6. PromptRequests
 <2>1. ~Compacting BY <1>1, <1>3 DEF Compacting, Asking
 <2> QED BY <1>1, <1>2, <1>3, <1>4, <2>1 DEF PromptRequests
<1>7. PromptTurns /\ Grounded BY <1>1, <1>3, <1>4 DEF PromptTurns, Grounded, Untouched
<1> QED BY <1>5, <1>6, <1>7 DEF Prompt

LEMMA PromptNext ==
  ASSUME Typed, Typed', Calm, Single, Promptly, Prompt, [Next]_vars
  PROVE /\ Prompt' /\ Promptly'
        /\ history.forgotten = {} => history'.forgotten = {}
<1>1. Promptly' /\ Serene BY SettingStays DEF Promptly, Serene
<1> SUFFICES Prompt' /\ (history.forgotten = {} => history'.forgotten = {}) BY <1>1
<1>2. CASE User BY <1>2, EndedStays, PromptByUser
<1>3. CASE Reactor
 <2>1. /\ Ended' = Ended
       /\ UNCHANGED history.forgotten \/ SendsTurn
       /\ SendsTurn => history'.forgotten = history.forgotten \cup (Ended \ Memory(RoutedContext))
  BY <1>1, <1>3, ReactorEnds
 <2>2. Prompt'
  BY <1>3, <2>1, PromptByTake, PromptByEnsure, PromptByStart, PromptByBind, PromptBySend,
     PromptByInterrupt, PromptByStop, PromptByMark, PromptByReady, PromptByClear DEF Reactor
 <2>3. SendsTurn => Send BY DEF SendsTurn, Send, NoDispatch, Aside
 <2>4. SendsTurn => Ended \subseteq Memory(RoutedContext) BY <2>1, <2>3, PromptBySend
 <2> QED BY <2>1, <2>2, <2>4
<1>4. CASE Ingestion BY <1>4, EndedStays, PromptByRead, PromptByWrite DEF Ingestion
<1>5. ~Restart BY PromptlyIs DEF Restart
<1>6. ASSUME NEW c \in DOMAIN contexts, Agent(c)
    PROVE  Prompt' /\ (history.forgotten = {} => history'.forgotten = {})
 <2>1. PICK state \in {"completed", "failed", "interrupted"}, full \in BOOLEAN :
          CompleteTurn(c, state, full)
  BY <1>6, SoleTurnEnds
 <2> QED BY <2>1, PromptByComplete, CompletionEnds
<1>7. ASSUME NEW c \in DOMAIN contexts, LoseSession(c) PROVE FALSE
 BY <1>1, <1>7, SereneIs DEF LoseSession
<1>8. CASE UNCHANGED vars BY <1>8, EndedStays, PromptStays
<1> QED BY <1>2, <1>3, <1>4, <1>5, <1>6, <1>7, <1>8 DEF Next

--------------------
(* The settings in which a conversation is kept: without compactions, or    *)
(* with one and an ingestion that keeps up.                                 *)
LEMMA KeepsMemoryIs ==
  ASSUME Typed, KeepsMemory PROVE Serene /\ ((\E p \in Providers : Plainly(p)) \/ Promptly)
<1>1. \A r \in Requests : setting[r] \in Nat BY SessionsAssumption DEF Typed, BoundsTyped
<1>2. /\ setting["modes"] \in Nat /\ setting["compacts"] \in Nat /\ setting["full"] \in Nat
      /\ setting["restarts"] \in Nat
 BY <1>1 DEF Requests
<1>3. PICK p : setting.providers = {p}
 <2>1. setting.providers \subseteq {"codex", "claudeCode"}
  BY SessionsAssumption DEF Typed, BoundsTyped
 <2>2. IsFiniteSet({"codex", "claudeCode"})
  <3>1. {"codex", "claudeCode"} = ({} \cup {"codex"}) \cup {"claudeCode"} OBVIOUS
  <3>2. IsFiniteSet({} \cup {"codex"}) BY FS_EmptySet, FS_AddElement
  <3> QED BY <3>1, <3>2, FS_AddElement
 <2>3. IsFiniteSet(setting.providers) BY <2>1, <2>2, FS_Subset
 <2> QED BY <2>3, FS_Singleton DEF KeepsMemory
<1>4. p \in Providers BY <1>3, SessionsAssumption DEF Typed, BoundsTyped, Providers
<1>5. setting.compacts + setting.full > 0 => setting.prompt /\ setting.providers = {"claudeCode"}
 BY DEF KeepsMemory
<1>6. Serene BY <1>5 DEF Serene, KeepsMemory
<1>7. CASE setting.compacts + setting.full = 0
 <2>1. setting.compacts = 0 /\ setting.full = 0 BY <1>2, <1>7
 <2>2. p = "claudeCode" => setting.restarts = 0
  <3>1. setting.restarts > 0 => p = "codex" BY <1>3 DEF KeepsMemory
  <3> QED BY <1>2, <3>1
 <2> QED BY <1>3, <1>4, <1>6, <2>1, <2>2 DEF Plainly
<1>8. CASE setting.compacts + setting.full # 0
 <2>1. setting.compacts + setting.full > 0 BY <1>2, <1>8
 <2>2. setting.prompt /\ setting.providers = {"claudeCode"} BY <1>5, <2>1
 <2>3. setting.modes + setting.compacts + setting.full <= 1 BY <1>2, <1>8 DEF KeepsMemory
 <2>4. setting.modes = 0 /\ setting.compacts + setting.full <= 1 BY <1>2, <2>1, <2>3
 <2>5. setting.restarts = 0
  <3>1. setting.restarts > 0 => setting.providers = {"codex"} BY DEF KeepsMemory
  <3>2. {"codex"} # {"claudeCode"} OBVIOUS
  <3> QED BY <1>2, <2>2, <3>1, <3>2
 <2> QED BY <1>6, <2>2, <2>4, <2>5 DEF Promptly
<1> QED BY <1>7, <1>8

\* What the agents remember, in each kind of setting.
MemoryInvariant ==
    /\ Typed
    /\ Serene => Calm /\ Single
    /\ \A p \in Providers : Plainly(p) => Plain(p)
    /\ Promptly => Prompt
    /\ ConversationKept

LEMMA MemoryInit == Init => MemoryInvariant
<1> SUFFICES ASSUME Init PROVE MemoryInvariant OBVIOUS
<1>1. setting.turns \in Nat
 <2>1. setting["turns"] \in Nat BY SessionsAssumption DEF Init, Requests
 <2> QED BY <2>1
<1>2. history.forgotten = {} BY DEF Init
<1> QED
 BY <1>1, <1>2, InitTyped, CalmInit, PlainInit, PromptInit DEF MemoryInvariant, ConversationKept

LEMMA MemoryNext == MemoryInvariant /\ [Next]_vars => MemoryInvariant'
<1> SUFFICES ASSUME MemoryInvariant, [Next]_vars PROVE MemoryInvariant' OBVIOUS
<1>0. Typed /\ Typed' BY NextTyped DEF MemoryInvariant
<1>1. UNCHANGED setting BY SettingStays
<1>2. /\ (Serene' <=> Serene) /\ (Promptly' <=> Promptly) /\ (KeepsMemory' <=> KeepsMemory)
      /\ \A p \in Providers : Plainly(p)' <=> Plainly(p)
 BY <1>1 DEF Serene, Promptly, Plainly, KeepsMemory
<1>3. Serene => Calm /\ Calm' /\ Single /\ Single'
 BY <1>0, CalmNext, SingleNext DEF MemoryInvariant
<1>4. ASSUME NEW p \in Providers, Plainly(p)
    PROVE  Plain(p)' /\ (history.forgotten = {} => history'.forgotten = {})
 BY <1>0, <1>3, <1>4, PlainlyIs, PlainNext DEF MemoryInvariant
<1>5. Promptly => Prompt' /\ (history.forgotten = {} => history'.forgotten = {})
 BY <1>0, <1>3, PromptlyIs, PromptNext DEF MemoryInvariant
<1>6. ConversationKept'
 BY <1>0, <1>2, <1>4, <1>5, KeepsMemoryIs DEF MemoryInvariant, ConversationKept
<1> QED BY <1>0, <1>2, <1>3, <1>4, <1>5, <1>6 DEF MemoryInvariant

(* Under a user who waits, with one provider and nothing that fails, a turn *)
(* is sent to a session that remembers every turn that ended before, across *)
(* changes of the runtime mode, one compaction, and restarts with Codex     *)
(* (ensureSessionForThread, handleCompaction, resolveRoutableSession).      *)
THEOREM ConversationsAreKept == Spec => []ConversationKept
<1>1. Init => MemoryInvariant BY MemoryInit
<1>2. MemoryInvariant /\ [Next]_vars => MemoryInvariant' BY MemoryNext
<1>3. MemoryInvariant => ConversationKept BY DEF MemoryInvariant
<1> QED BY <1>1, <1>2, <1>3, PTL DEF Spec
=============================================================================

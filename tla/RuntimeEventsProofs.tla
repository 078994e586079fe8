-------------------------- MODULE RuntimeEventsProofs --------------------------
(***************************************************************************)
(* The questions and the text of an agent, for every number of them and     *)
(* every order of answers, stops, deaths and crashes: RequestsShown and, in *)
(* a thread that has room for its messages, TextExact are invariants.       *)
(*                                                                          *)
(* The argument about questions follows one from the adapter to the         *)
(* activities.  An event about it is under way in the queue or has arrived  *)
(* in the thread, and Notices is the set of both: ingestion only moves an   *)
(* event from one to the other.  A question that the adapter still holds    *)
(* has been announced and nothing else was said of it (Waiting); one that   *)
(* it gave up has a decision, which nobody changes (Settled), unless its    *)
(* session ended without resolving it; and a resolution that anybody reads  *)
(* or will read names that decision (Truthful).                             *)
(*                                                                          *)
(* The argument about text follows every chunk: it waits in the agent, is   *)
(* under way in the queue, buffered by ingestion or shown by the thread,    *)
(* and in one of these places only.  Sound says so of a view of the state,  *)
(* which the second part of this module introduces.                         *)
(***************************************************************************)
EXTENDS RuntimeEvents, SequenceTheorems, FiniteSetTheorems, WellFoundedInduction, TLAPS

\* What was said of the questions, whether the thread shows it yet or not.
Notices == Range(queue) \cup thread.activities

\* A sequence, whatever its elements.
IsSeq(s) == s \in Seq(Range(s))

\* What a settled question may have been settled with.
Decisions == {"accept", "decline", "cancel"}
\* What is known of a question.
Questions == [kind : {"approval", "user-input"}, turn : Nat, told : BOOLEAN,
              decision : {"none"} \cup Decisions]

\* The shapes the other parts rest on.
Shapes ==
    /\ DOMAIN adapter = {"live", "turn", "item", "emitted", "pending"}
    /\ DOMAIN thread = {"messages", "activities", "status"}
    /\ requests \in Seq(Questions)
    /\ adapter.turn \in Nat /\ spent \in [Kinds -> Nat]
    /\ IsSeq(queue)
    /\ IsSeq(intents)
    /\ \A i \in Range(intents) : i.type = "answer" => i.decision \in Decisions

\* A session that is gone holds no question; one that is held was announced,
\* nobody has answered it and no resolution of it is on its way.
Waiting ==
    /\ ~adapter.live => adapter.pending = {}
    /\ \A r \in adapter.pending :
          /\ r \in DOMAIN requests
          /\ requests[r].decision = "none" /\ ~requests[r].told
          /\ Opened(r) \in Notices
          /\ \A n \in Notices : n.type = "resolved" => n.request # r

\* A question that is no longer held was decided, and once its callback went
\* on the decision was announced, unless its session ended without that.
Settled ==
    \A r \in DOMAIN requests \ orphans :
        /\ r \notin adapter.pending => requests[r].decision # "none"
        /\ requests[r].told => Resolved(r, requests[r].decision) \in Notices

\* A resolution names the decision, and no refusal looks like one that closes
\* a question.
Truthful ==
    \A n \in Notices :
        /\ n.type = "resolved" =>
              /\ n.request \in DOMAIN requests
              /\ n.decision = requests[n.request].decision /\ n.decision # "none"
        /\ n.type = "failed" => n.detail # UnknownPermission

\* The inductive invariant of the questions.
RequestsInvariant == Shapes /\ Waiting /\ Settled /\ Truthful

--------------------
(* Sequences, seen as the set of what is in them.                           *)
LEMMA EmptyIs == IsSeq(<< >>) /\ Range(<< >>) = {}
BY DEF IsSeq, Range

LEMMA OneIs == ASSUME NEW e PROVE IsSeq(<<e>>) /\ Range(<<e>>) = {e}
BY DEF IsSeq, Range

LEMMA AppendIs ==
  ASSUME NEW s, IsSeq(s), NEW e
  PROVE IsSeq(Append(s, e)) /\ Range(Append(s, e)) = Range(s) \cup {e}
<1>1. s \in Seq(Range(s) \cup {e}) BY SeqMonotonic, Range(s) \subseteq Range(s) \cup {e} DEF IsSeq
<1>2. /\ Append(s, e) \in Seq(Range(s) \cup {e})
      /\ Len(Append(s, e)) = Len(s) + 1
      /\ \A i \in 1..Len(s) : Append(s, e)[i] = s[i]
      /\ Append(s, e)[Len(s) + 1] = e
 BY <1>1, AppendProperties
<1>3. Len(s) \in Nat /\ DOMAIN s = 1..Len(s) /\ DOMAIN Append(s, e) = 1..(Len(s) + 1)
 BY <1>1, <1>2, LenProperties
<1>4. Range(Append(s, e)) = Range(s) \cup {e}
 <2>1. ASSUME NEW x \in Range(Append(s, e)) PROVE x \in Range(s) \cup {e} BY <1>2, <1>3 DEF Range
 <2>2. ASSUME NEW x \in Range(s) PROVE x \in Range(Append(s, e)) BY <1>2, <1>3 DEF Range
 <2>3. e \in Range(Append(s, e)) BY <1>2, <1>3 DEF Range
 <2> QED BY <2>1, <2>2, <2>3
<1> QED BY <1>2, <1>4 DEF IsSeq

LEMMA ConcatIs ==
  ASSUME NEW s, IsSeq(s), NEW t, IsSeq(t)
  PROVE IsSeq(s \o t) /\ Range(s \o t) = Range(s) \cup Range(t)
<1>1. s \in Seq(Range(s) \cup Range(t)) /\ t \in Seq(Range(s) \cup Range(t))
 BY SeqMonotonic, Range(s) \subseteq Range(s) \cup Range(t),
    Range(t) \subseteq Range(s) \cup Range(t) DEF IsSeq
<1>2. /\ s \o t \in Seq(Range(s) \cup Range(t))
      /\ Len(s \o t) = Len(s) + Len(t)
      /\ \A i \in 1..(Len(s) + Len(t)) :
            (s \o t)[i] = IF i <= Len(s) THEN s[i] ELSE t[i - Len(s)]
 BY <1>1, ConcatProperties
<1>3. /\ Len(s) \in Nat /\ DOMAIN s = 1..Len(s)
      /\ Len(t) \in Nat /\ DOMAIN t = 1..Len(t)
      /\ DOMAIN (s \o t) = 1..(Len(s) + Len(t))
 BY <1>1, <1>2, LenProperties
<1>4. Range(s \o t) = Range(s) \cup Range(t)
 <2>1. ASSUME NEW i \in DOMAIN (s \o t) PROVE (s \o t)[i] \in Range(s) \cup Range(t)
  <3>1. CASE i <= Len(s) BY <3>1, <1>2, <1>3 DEF Range
  <3>2. CASE ~(i <= Len(s))
   <4>1. i - Len(s) \in DOMAIN t /\ (s \o t)[i] = t[i - Len(s)] BY <3>2, <1>2, <1>3
   <4> QED BY <4>1 DEF Range
  <3> QED BY <3>1, <3>2
 <2>2. ASSUME NEW i \in DOMAIN s PROVE s[i] \in Range(s \o t)
  <3>1. i \in DOMAIN (s \o t) /\ (s \o t)[i] = s[i] BY <1>2, <1>3
  <3> QED BY <3>1 DEF Range
 <2>3. ASSUME NEW i \in DOMAIN t PROVE t[i] \in Range(s \o t)
  <3>1. i + Len(s) \in DOMAIN (s \o t) /\ (s \o t)[i + Len(s)] = t[i] BY <1>2, <1>3
  <3> QED BY <3>1 DEF Range
 <2> QED BY <2>1, <2>2, <2>3 DEF Range
<1> QED BY <1>2, <1>4 DEF IsSeq

LEMMA TailIs ==
  ASSUME NEW s, IsSeq(s), s # << >>
  PROVE /\ IsSeq(Tail(s)) /\ Head(s) \in Range(s)
        /\ Range(s) = Range(Tail(s)) \cup {Head(s)}
<1>1. /\ Len(Tail(s)) = Len(s) - 1
      /\ \A i \in 1..Len(Tail(s)) : Tail(s)[i] = s[i + 1]
      /\ Tail(s) \in Seq(Range(s))
      /\ Head(s) = s[1]
 BY HeadTailProperties DEF IsSeq
<1>2. Len(s) \in Nat /\ Len(s) # 0 /\ DOMAIN s = 1..Len(s) /\ DOMAIN Tail(s) = 1..(Len(s) - 1)
 BY <1>1, LenProperties, EmptySeq DEF IsSeq
<1>3. ASSUME NEW i \in DOMAIN Tail(s) PROVE Tail(s)[i] \in Range(s)
 <2>1. i + 1 \in DOMAIN s /\ Tail(s)[i] = s[i + 1] BY <1>1, <1>2
 <2> QED BY <2>1 DEF Range
<1>4. ASSUME NEW i \in DOMAIN s PROVE s[i] = Head(s) \/ s[i] \in Range(Tail(s))
 <2>1. CASE i # 1
  <3>1. i - 1 \in DOMAIN Tail(s) /\ Tail(s)[i - 1] = s[i] BY <2>1, <1>1, <1>2
  <3> QED BY <3>1 DEF Range
 <2> QED BY <2>1, <1>1
<1>5. Head(s) \in Range(s) BY <1>1, <1>2 DEF Range
<1>6. Range(s) = Range(Tail(s)) \cup {Head(s)} BY <1>3, <1>4, <1>5 DEF Range
<1>7. Tail(s) \in Seq(Range(Tail(s))) BY <1>1, SeqOfRange
<1> QED BY <1>5, <1>6, <1>7 DEF IsSeq

--------------------
(* Ingestion changes messages and buffers as it likes; of activities it     *)
(* keeps all and adds the event at most.                                    *)
ThreadFields == {"messages", "activities", "status"}
Held(st) == DOMAIN st = {"thread", "ingest"} /\ DOMAIN st.thread = ThreadFields
SameActivities(st, next) ==
    Held(next) /\ next.thread.activities = st.thread.activities

LEMMA DispatchKeeps ==
  ASSUME NEW st, Held(st), NEW m, NEW text, NEW streaming
  PROVE SameActivities(st, Dispatch(st, m, text, streaming))
<1> DEFINE data == [message |-> m, role |-> "assistant", turn |-> m[1],
                    text |-> text, streaming |-> streaming, at |-> 0]
           new == SendMessage(st.thread, data)
<1>1. PICK messages : new = [st.thread EXCEPT !.messages = messages] BY DEF SendMessage
<1>2. DOMAIN new = ThreadFields /\ new.activities = st.thread.activities
 BY <1>1 DEF Held, ThreadFields
<1>3. Dispatch(st, m, text, streaming) = [st EXCEPT !.thread = new] BY DEF Dispatch
<1> HIDE DEF new
<1> QED BY <1>2, <1>3 DEF Held, SameActivities

LEMMA IngestKeeps ==
  ASSUME NEW st, Held(st), NEW changed PROVE SameActivities(st, [st EXCEPT !.ingest = changed])
BY DEF Held, SameActivities, ThreadFields

LEMMA ClearKeeps ==
  ASSUME NEW st, Held(st), NEW m PROVE SameActivities(st, Clear(st, m))
<1>1. PICK changed : Clear(st, m) = [st EXCEPT !.ingest = changed] BY DEF Clear
<1> QED BY <1>1, IngestKeeps

LEMMA RememberAsKeeps ==
  ASSUME NEW st, Held(st), NEW turn, NEW messages
  PROVE SameActivities(st, RememberAs(st, turn, messages))
<1>1. PICK changed : RememberAs(st, turn, messages) = [st EXCEPT !.ingest = changed]
 BY DEF RememberAs
<1> QED BY <1>1, IngestKeeps

LEMMA SameTwice ==
  ASSUME NEW st, NEW next, NEW last, SameActivities(st, next), SameActivities(next, last)
  PROVE SameActivities(st, last)
BY DEF SameActivities

LEMMA BufferKeeps ==
  ASSUME NEW st, Held(st), NEW m, NEW text PROVE SameActivities(st, Buffer(st, m, text))
<1> DEFINE next == Buffered(st, m) \o text
<1>1. CASE Len(next) <= MaxBuffered
 <2>1. PICK changed : Buffer(st, m, text) = [st EXCEPT !.ingest = changed] BY <1>1 DEF Buffer
 <2> QED BY <2>1, IngestKeeps
<1>2. CASE ~(Len(next) <= MaxBuffered)
 <2>1. Buffer(st, m, text) = Dispatch(Clear(st, m), m, next, TRUE) BY <1>2 DEF Buffer
 <2>2. SameActivities(st, Clear(st, m)) /\ Held(Clear(st, m)) BY ClearKeeps DEF SameActivities
 <2> QED BY <2>1, <2>2, DispatchKeeps, SameTwice
<1> QED BY <1>1, <1>2

LEMMA FinalizeKeeps ==
  ASSUME NEW st, Held(st), NEW m, NEW fallback
  PROVE SameActivities(st, Finalize(st, m, fallback))
<1> DEFINE text == IF Buffered(st, m) # << >> THEN Buffered(st, m) ELSE fallback
           last == IF text = << >> THEN Clear(st, m) ELSE Dispatch(Clear(st, m), m, text, TRUE)
<1>1. SameActivities(st, Clear(st, m)) /\ Held(Clear(st, m)) BY ClearKeeps DEF SameActivities
<1>2. SameActivities(st, last) BY <1>1, DispatchKeeps, SameTwice
<1>3. Held(last) BY <1>2 DEF SameActivities
<1>4. Finalize(st, m, fallback) = Dispatch(last, m, << >>, FALSE) BY DEF Finalize
<1> HIDE DEF last
<1> QED BY <1>2, <1>3, <1>4, DispatchKeeps, SameTwice

LEMMA IngestDeltaKeeps ==
  ASSUME NEW st, Held(st), NEW event PROVE SameActivities(st, IngestDelta(st, event))
<1> DEFINE m == event.message
           known == Remember(st, m)
<1>1. SameActivities(st, known) /\ Held(known) BY RememberAsKeeps DEF Remember, SameActivities
<1>2. \/ IngestDelta(st, event) = Buffer(known, m, event.text)
      \/ IngestDelta(st, event) = Dispatch(known, m, event.text, TRUE)
 BY DEF IngestDelta
<1> HIDE DEF known
<1>3. /\ SameActivities(known, Buffer(known, m, event.text))
      /\ SameActivities(known, Dispatch(known, m, event.text, TRUE))
 BY <1>1, BufferKeeps, DispatchKeeps
<1>4. SameActivities(known, IngestDelta(st, event)) BY <1>2, <1>3
<1> QED BY <1>1, <1>4, SameTwice

LEMMA IngestItemKeeps ==
  ASSUME NEW st, Held(st), NEW event PROVE SameActivities(st, IngestItem(st, event))
<1> DEFINE m == event.message
           fallback == IF Shown(st.thread.messages, m) = << >> THEN event.text ELSE << >>
           known == Remember(st, m)
           last == Finalize(known, m, fallback)
<1>1. SameActivities(st, known) /\ Held(known) BY RememberAsKeeps DEF Remember, SameActivities
<1>2. IngestItem(st, event) = Forget(last, m) BY DEF IngestItem
<1> HIDE DEF known, fallback
<1>3. SameActivities(st, last) /\ Held(last) BY <1>1, FinalizeKeeps, SameTwice DEF SameActivities
<1> HIDE DEF last
<1>4. SameActivities(last, Forget(last, m)) BY <1>3, RememberAsKeeps DEF Forget
<1> QED BY <1>2, <1>3, <1>4, SameTwice

LEMMA IngestTurnKeeps ==
  ASSUME NEW st, Held(st), NEW turn PROVE SameActivities(st, IngestTurn(st, turn))
<1> DEFINE ended(messages, buffered) ==
               [st EXCEPT !.thread.messages = messages, !.thread.status = "active",
                          !.ingest.buffered = buffered]
<1>1. ASSUME NEW messages, NEW buffered
    PROVE  SameActivities(st, ended(messages, buffered)) /\ Held(ended(messages, buffered))
 BY DEF Held, SameActivities, ThreadFields
<1>2. PICK messages, buffered :
          IngestTurn(st, turn) = RememberAs(ended(messages, buffered), turn, {})
 BY DEF IngestTurn
<1> HIDE DEF ended
<1> QED BY <1>1, <1>2, RememberAsKeeps, SameTwice

\* A question, its end or its refusal.
Activity(event) ==
    event.type \notin {"started", "content.delta", "item.completed", "turn.completed",
                       "session.exited"}

(* A handler of ingestion adds an activity to those of the thread, or none. *)
LEMMA HandledKeeps ==
  ASSUME NEW st, Held(st), NEW event
  PROVE /\ Held(Handled(st, event))
        /\ Handled(st, event).thread.activities =
              IF Activity(event) THEN st.thread.activities \cup {event}
              ELSE st.thread.activities
<1>1. CASE event.type = "started" BY <1>1 DEF Handled, Activity, Held, ThreadFields
<1>2. CASE event.type = "content.delta"
 BY <1>2, IngestDeltaKeeps DEF Handled, Activity, SameActivities
<1>3. CASE event.type = "item.completed"
 BY <1>3, IngestItemKeeps DEF Handled, Activity, SameActivities
<1>4. CASE event.type = "turn.completed"
 BY <1>4, IngestTurnKeeps DEF Handled, Activity, SameActivities
<1>5. CASE event.type = "session.exited"
 BY <1>5 DEF Handled, IngestExit, Activity, Held, ThreadFields
<1>6. CASE Activity(event)
 <2>1. Handled(st, event) = IngestActivity(st, event) BY <1>6 DEF Handled, Activity
 <2> QED BY <1>6, <2>1 DEF IngestActivity, Held, ThreadFields
<1> QED BY <1>1, <1>2, <1>3, <1>4, <1>5, <1>6 DEF Activity

--------------------
(* A step that says nothing of a question, or only that it is refused.      *)
Silent(n) == n.type \notin {"opened", "resolved"} /\ (n.type = "failed" => n.detail # UnknownPermission)

LEMMA SilentEvents ==
  ASSUME NEW m, NEW text, NEW turn
  PROVE Silent(Started) /\ Silent(Exited) /\ Silent(Delta(m, text))
        /\ Silent(ItemCompleted(m, text)) /\ Silent(TurnCompleted(turn))
BY DEF Silent, Started, Exited, Delta, ItemCompleted, TurnCompleted

LEMMA SilentRefusal ==
  ASSUME NEW r, NEW detail \in {"No active provider session", "Cannot recover thread",
                           UnknownRequest}
  PROVE Silent(Failed(r, detail))
BY DEF Silent, Failed, UnknownRequest, UnknownPermission

(* Questions keep their state when the adapter only forgets some, as those  *)
(* of a session that ended, and the notices about questions stay.           *)
LEMMA Carried ==
  ASSUME Waiting, Settled, Truthful,
    requests' = requests, orphans \subseteq orphans',
    adapter'.pending \subseteq adapter.pending,
    adapter.pending \ adapter'.pending \subseteq orphans',
    ~adapter'.live => adapter'.pending = {},
    \A n \in Notices' : n \in Notices \/ Silent(n),
    \A n \in Notices : n.type \in {"opened", "resolved"} => n \in Notices'
  PROVE Waiting' /\ Settled' /\ Truthful'
<1>1. Waiting'
 <2> SUFFICES ASSUME NEW r \in adapter'.pending
     PROVE  /\ r \in DOMAIN requests
            /\ requests[r].decision = "none" /\ ~requests[r].told
            /\ Opened(r) \in Notices'
            /\ \A n \in Notices' : n.type = "resolved" => n.request # r
  BY DEF Waiting, Opened
 <2>1. r \in adapter.pending OBVIOUS
 <2>2. Opened(r) \in Notices' BY <2>1 DEF Waiting, Opened
 <2>3. ASSUME NEW n \in Notices', n.type = "resolved" PROVE n.request # r
  BY <2>1, <2>3 DEF Waiting, Silent
 <2> QED BY <2>1, <2>2, <2>3 DEF Waiting
<1>2. Settled'
 <2> SUFFICES ASSUME NEW r \in DOMAIN requests \ orphans'
     PROVE  /\ r \notin adapter'.pending => requests[r].decision # "none"
            /\ requests[r].told => Resolved(r, requests[r].decision) \in Notices'
  BY DEF Settled, Resolved
 <2>1. r \in DOMAIN requests \ orphans /\ (r \in adapter.pending => r \in adapter'.pending)
  OBVIOUS
 <2>2. requests[r].told => Resolved(r, requests[r].decision) \in Notices'
  BY <2>1 DEF Settled, Resolved
 <2> QED BY <2>1, <2>2 DEF Settled
<1>3. Truthful' BY DEF Truthful, Silent
<1> QED BY <1>1, <1>2, <1>3

LEMMA SpendTyped ==
  ASSUME spent \in [Kinds -> Nat], NEW kind, Spend(kind) PROVE spent' \in [Kinds -> Nat]
<1>1. spent' = [spent EXCEPT ![kind] = spent[kind] + 1] BY DEF Spend
<1>2. ASSUME NEW k \in Kinds PROVE spent'[k] \in Nat BY <1>1
<1> QED BY <1>1, <1>2

(* The same for a step that adds some silent events to the queue and leaves *)
(* the thread's activities alone.                                           *)
LEMMA OnlySays ==
  ASSUME RequestsInvariant, NEW events, \A n \in events : Silent(n),
    Range(queue') = Range(queue) \cup events, thread'.activities = thread.activities,
    requests' = requests, orphans \subseteq orphans',
    adapter'.pending \subseteq adapter.pending,
    adapter.pending \ adapter'.pending \subseteq orphans',
    ~adapter'.live => adapter'.pending = {}
  PROVE Waiting' /\ Settled' /\ Truthful'
<1>1. Notices' = Notices \cup events BY DEF Notices
<1> QED BY <1>1, Carried DEF RequestsInvariant

--------------------
(* The agent speaks, and ends turns and sessions.                           *)
LEMMA LastWordsAre ==
    /\ IsSeq(LastWords) /\ \A n \in Range(LastWords) : Silent(n)
    /\ IsSeq(CompleteTurn) /\ \A n \in Range(CompleteTurn) : Silent(n)
<1> DEFINE delta == Delta(Current, Whole(Current))
           item == ItemCompleted(Current, << >>)
           first == IF ~adapter.emitted /\ Kept(Current) > 0 THEN <<delta>> ELSE << >>
<1>1. LastWords = (IF adapter.turn = 0 THEN << >> ELSE first \o <<item>>) BY DEF LastWords
<1>2. Silent(delta) /\ Silent(item) BY SilentEvents
<1>3. IsSeq(<<delta>>) /\ Range(<<delta>>) = {delta} /\ IsSeq(<<item>>) /\ Range(<<item>>) = {item}
 BY OneIs
<1> HIDE DEF delta, item
<1>4. IsSeq(first) /\ Range(first) \subseteq {delta} BY <1>3, EmptyIs
<1> HIDE DEF first
<1>5. IsSeq(first \o <<item>>) /\ Range(first \o <<item>>) \subseteq {delta, item}
 BY <1>3, <1>4, ConcatIs
<1>6. IsSeq(LastWords) /\ \A n \in Range(LastWords) : Silent(n) BY <1>1, <1>2, <1>5, EmptyIs
<1>7. /\ IsSeq(Append(LastWords, TurnCompleted(adapter.turn)))
      /\ Range(Append(LastWords, TurnCompleted(adapter.turn)))
            = Range(LastWords) \cup {TurnCompleted(adapter.turn)}
 BY <1>6, AppendIs
<1>8. Silent(TurnCompleted(adapter.turn)) BY SilentEvents
<1> QED BY <1>6, <1>7, <1>8 DEF CompleteTurn

AdapterFields == {"live", "turn", "item", "emitted", "pending"}

LEMMA NewSessionIs ==
    /\ DOMAIN NewSession(FALSE) = AdapterFields /\ DOMAIN NewSession(TRUE) = AdapterFields
    /\ NewSession(TRUE).live /\ ~NewSession(FALSE).live
    /\ NewSession(FALSE).pending = {} /\ NewSession(TRUE).pending = {}
    /\ NewSession(FALSE).turn \in Nat /\ NewSession(TRUE).turn \in Nat
BY DEF NewSession, AdapterFields

LEMMA SaySteps ==
  ASSUME RequestsInvariant, Say \/ SayAtOnce \/ FinishItem PROVE RequestsInvariant'
<1>1. /\ UNCHANGED <<requests, thread, intents, orphans>>
      /\ adapter'.pending = adapter.pending /\ adapter'.live = adapter.live
      /\ adapter'.turn = adapter.turn /\ DOMAIN adapter' = DOMAIN adapter
 BY DEF Say, SayAtOnce, FinishItem, RequestsInvariant, Shapes
<1>2. spent' \in [Kinds -> Nat]
 BY SpendTyped DEF Say, SayAtOnce, FinishItem, RequestsInvariant, Shapes, Kinds
<1>3. \/ queue' = queue
      \/ \E text : queue' = Append(queue, Delta(Current, text))
      \/ \E text : queue' = Append(queue, ItemCompleted(Current, text))
 BY DEF Say, SayAtOnce, FinishItem
<1>4. \/ IsSeq(queue') /\ Range(queue') = Range(queue) \cup {}
      \/ \E n : /\ Silent(n)
                /\ IsSeq(queue') /\ Range(queue') = Range(queue) \cup {n}
 <2>1. CASE queue' = queue BY <2>1 DEF RequestsInvariant, Shapes
 <2>2. ASSUME NEW n, queue' = Append(queue, n)
     PROVE  IsSeq(queue') /\ Range(queue') = Range(queue) \cup {n}
  BY <2>2, AppendIs DEF RequestsInvariant, Shapes
 <2>3. CASE queue' # queue
  <3>1. PICK text : \/ queue' = Append(queue, Delta(Current, text))
                    \/ queue' = Append(queue, ItemCompleted(Current, text))
   BY <1>3, <2>3
  <3>2. Silent(Delta(Current, text)) /\ Silent(ItemCompleted(Current, text)) BY SilentEvents
  <3> QED BY <3>1, <3>2, <2>2
 <2> QED BY <2>1, <2>3
<1>5. Shapes' BY <1>1, <1>2, <1>4 DEF RequestsInvariant, Shapes
<1>6. /\ ~adapter'.live => adapter'.pending = {}
      /\ orphans \subseteq orphans' /\ adapter'.pending \subseteq adapter.pending
      /\ adapter.pending \ adapter'.pending \subseteq orphans'
      /\ thread'.activities = thread.activities /\ requests' = requests
 BY <1>1 DEF RequestsInvariant, Waiting
<1>7. ASSUME Range(queue') = Range(queue) \cup {}
    PROVE  Waiting' /\ Settled' /\ Truthful'
 <2>1. \A e \in {} : Silent(e) OBVIOUS
 <2> QED BY <1>6, <1>7, <2>1, OnlySays
<1>8. ASSUME NEW n, Silent(n), Range(queue') = Range(queue) \cup {n}
    PROVE  Waiting' /\ Settled' /\ Truthful'
 <2>1. \A e \in {n} : Silent(e) BY <1>8
 <2> QED BY <1>6, <1>8, <2>1, OnlySays
<1> QED BY <1>4, <1>5, <1>7, <1>8 DEF RequestsInvariant

LEMMA EndTurnStep ==
  ASSUME RequestsInvariant, EndTurn PROVE RequestsInvariant'
<1> DEFINE events == IF Claude THEN CompleteTurn ELSE <<TurnCompleted(adapter.turn)>>
<1>1. /\ UNCHANGED <<requests, thread, intents, orphans, spent>>
      /\ adapter'.pending = adapter.pending /\ adapter'.live = adapter.live
      /\ adapter'.turn = 0 /\ DOMAIN adapter' = DOMAIN adapter
 BY DEF EndTurn, RequestsInvariant, Shapes
<1>2. queue' = queue \o events BY DEF EndTurn
<1>3. IsSeq(events) /\ \A n \in Range(events) : Silent(n) BY LastWordsAre, OneIs, SilentEvents
<1> HIDE DEF events
<1>4. IsSeq(queue') /\ Range(queue') = Range(queue) \cup Range(events)
 BY <1>2, <1>3, ConcatIs DEF RequestsInvariant, Shapes
<1>5. Shapes' BY <1>1, <1>4 DEF RequestsInvariant, Shapes
<1>6. Waiting' /\ Settled' /\ Truthful'
 BY <1>1, <1>3, <1>4, OnlySays DEF RequestsInvariant, Waiting
<1> QED BY <1>5, <1>6 DEF RequestsInvariant

LEMMA DieStep ==
  ASSUME RequestsInvariant, Die PROVE RequestsInvariant'
<1> DEFINE events == IF Claude THEN CompleteTurn ELSE <<Exited>>
<1>1. /\ UNCHANGED <<requests, thread, intents>>
      /\ orphans' = orphans \cup adapter.pending
      /\ adapter' = NewSession(FALSE)
 BY DEF Die
<1>2. queue' = queue \o events BY DEF Die
<1>3. IsSeq(events) /\ \A n \in Range(events) : Silent(n) BY LastWordsAre, OneIs, SilentEvents
<1> HIDE DEF events
<1>4. IsSeq(queue') /\ Range(queue') = Range(queue) \cup Range(events)
 BY <1>2, <1>3, ConcatIs DEF RequestsInvariant, Shapes
<1>5. spent' \in [Kinds -> Nat] BY SpendTyped DEF Die, RequestsInvariant, Shapes, Kinds
<1>6. Shapes'
 <2>1. DOMAIN adapter' = AdapterFields /\ adapter'.turn \in Nat BY <1>1, NewSessionIs
 <2>2. UNCHANGED <<requests, thread, intents>> BY <1>1
 <2> QED BY <1>4, <1>5, <2>1, <2>2 DEF RequestsInvariant, Shapes, AdapterFields
<1>7. Waiting' /\ Settled' /\ Truthful' BY <1>1, <1>3, <1>4, NewSessionIs, OnlySays
<1> QED BY <1>6, <1>7 DEF RequestsInvariant

--------------------
(* Questions: asked, given up, answered.                                    *)
LEMMA QuestionIs ==
  ASSUME Shapes, NEW r \in DOMAIN requests PROVE requests[r] \in Questions
<1>1. requests \in Seq(Questions) /\ DOMAIN requests = 1..Len(requests)
 BY LenProperties DEF Shapes
<1> QED BY <1>1, ElementOfSeq

(* A new question is announced, and nothing was said of it before.          *)
LEMMA AskStep ==
  ASSUME RequestsInvariant, NEW kind \in {"approval", "user-input"}, Ask(kind)
  PROVE RequestsInvariant'
<1> DEFINE r == Len(requests) + 1
           question == [kind |-> kind, turn |-> adapter.turn, decision |-> "none",
                        told |-> FALSE]
<1>1. /\ requests' = Append(requests, question)
      /\ queue' = Append(queue, Opened(r))
      /\ adapter' = [adapter EXCEPT !.pending = adapter.pending \cup {r}]
      /\ UNCHANGED <<thread, intents, orphans>>
      /\ adapter.live
 BY DEF Ask, Running
<1>2. question \in Questions BY DEF RequestsInvariant, Shapes, Questions
<1>3. question.decision = "none" /\ ~question.told OBVIOUS
<1> HIDE DEF question
<1>4. requests \in Seq(Questions) BY DEF RequestsInvariant, Shapes
<1>5. /\ requests' \in Seq(Questions)
      /\ DOMAIN requests = 1..Len(requests) /\ DOMAIN requests' = 1..r /\ Len(requests) \in Nat
      /\ \A q \in DOMAIN requests : requests'[q] = requests[q]
      /\ requests'[r] = question
 BY <1>1, <1>2, <1>4, AppendProperties, LenProperties
<1>6. r \notin DOMAIN requests /\ DOMAIN requests' = DOMAIN requests \cup {r} BY <1>5
<1> HIDE DEF r
<1>7. IsSeq(queue') /\ Range(queue') = Range(queue) \cup {Opened(r)}
 BY <1>1, AppendIs DEF RequestsInvariant, Shapes
<1>8. Notices' = Notices \cup {Opened(r)} BY <1>1, <1>7 DEF Notices
<1>9. /\ DOMAIN adapter' = DOMAIN adapter /\ adapter'.live = adapter.live
      /\ adapter'.turn = adapter.turn /\ adapter'.pending = adapter.pending \cup {r}
 BY <1>1 DEF RequestsInvariant, Shapes
<1>10. Opened(r).type = "opened" BY DEF Opened
<1>11. spent' \in [Kinds -> Nat] BY SpendTyped DEF Ask, RequestsInvariant, Shapes, Kinds
<1>12. Shapes' BY <1>1, <1>5, <1>7, <1>9, <1>11 DEF RequestsInvariant, Shapes
<1>13. Truthful'
 <2> SUFFICES ASSUME NEW n \in Notices'
     PROVE  /\ n.type = "resolved" =>
                  /\ n.request \in DOMAIN requests'
                  /\ n.decision = requests'[n.request].decision
                  /\ n.decision # "none"
            /\ n.type = "failed" => n.detail # UnknownPermission
  BY DEF Truthful, UnknownPermission
 <2>1. CASE n \in Notices BY <2>1, <1>5, <1>6 DEF RequestsInvariant, Truthful
 <2>2. CASE n = Opened(r) BY <2>2, <1>10
 <2> QED BY <2>1, <2>2, <1>8
<1>14. Waiting'
 <2> SUFFICES ASSUME NEW q \in adapter'.pending
     PROVE  /\ q \in DOMAIN requests'
            /\ requests'[q].decision = "none" /\ ~requests'[q].told
            /\ Opened(q) \in Notices'
            /\ \A n \in Notices' : n.type = "resolved" => n.request # q
  BY <1>1, <1>9 DEF Waiting, Opened
 <2>1. CASE q \in adapter.pending BY <2>1, <1>5, <1>6, <1>8, <1>10 DEF RequestsInvariant, Waiting
 <2>2. CASE q = r
  <3>1. \A n \in Notices' : n.type = "resolved" => n.request # r
   BY <1>6, <1>8, <1>10 DEF RequestsInvariant, Truthful
  <3> QED BY <2>2, <3>1, <1>3, <1>5, <1>6, <1>8
 <2> QED BY <2>1, <2>2, <1>9
<1>15. Settled'
 <2> SUFFICES ASSUME NEW q \in DOMAIN requests' \ orphans'
     PROVE  /\ q \notin adapter'.pending => requests'[q].decision # "none"
            /\ requests'[q].told => Resolved(q, requests'[q].decision) \in Notices'
  BY DEF Settled, Resolved
 <2>1. CASE q \in DOMAIN requests BY <2>1, <1>1, <1>5, <1>8, <1>9 DEF RequestsInvariant, Settled
 <2>2. CASE q = r BY <2>2, <1>3, <1>5, <1>9
 <2> QED BY <2>1, <2>2, <1>6
<1> QED BY <1>12, <1>13, <1>14, <1>15 DEF RequestsInvariant

(* A question that the adapter holds gets its decision: held no longer, and *)
(* where somebody is told at once, with the resolution.                     *)
LEMMA DecidedKeeps ==
  ASSUME RequestsInvariant, NEW gone, gone \subseteq adapter.pending,
    adapter'.pending = adapter.pending \ gone,
    ~adapter'.live => adapter'.pending = {}, UNCHANGED orphans,
    DOMAIN requests' = DOMAIN requests,
    \A q \in DOMAIN requests \ gone : requests'[q] = requests[q],
    \A q \in gone : /\ requests'[q].decision # "none"
                    /\ requests'[q].told => Resolved(q, requests'[q].decision) \in Notices',
    Notices \subseteq Notices',
    \A n \in Notices' : \/ n \in Notices \/ Silent(n)
                        \/ \E q \in gone : n = Resolved(q, requests'[q].decision)
  PROVE Waiting' /\ Settled' /\ Truthful'
<1>0. \A q, d : /\ Resolved(q, d).type = "resolved" /\ Resolved(q, d).request = q
                /\ Resolved(q, d).decision = d
 BY DEF Resolved
<1>1. \A q \in gone : q \in DOMAIN requests BY DEF RequestsInvariant, Waiting
<1>2. Truthful'
 <2> SUFFICES ASSUME NEW n \in Notices'
     PROVE  /\ n.type = "resolved" =>
                  /\ n.request \in DOMAIN requests'
                  /\ n.decision = requests'[n.request].decision
                  /\ n.decision # "none"
            /\ n.type = "failed" => n.detail # UnknownPermission
  BY DEF Truthful, UnknownPermission
 <2>1. CASE n \in Notices
  <3>1. n.type = "resolved" => n.request \in DOMAIN requests /\ n.request \notin gone
   BY <2>1 DEF RequestsInvariant, Waiting, Truthful
  <3> QED BY <2>1, <3>1 DEF RequestsInvariant, Truthful
 <2>2. CASE Silent(n) BY <2>2 DEF Silent
 <2>3. ASSUME NEW q \in gone, n = Resolved(q, requests'[q].decision)
     PROVE  /\ n.type = "resolved" /\ n.request \in DOMAIN requests'
            /\ n.decision = requests'[n.request].decision /\ n.decision # "none"
  BY <2>3, <1>0, <1>1
 <2> QED BY <2>1, <2>2, <2>3
<1>3. Waiting'
 <2> SUFFICES ASSUME NEW r \in adapter'.pending
     PROVE  /\ r \in DOMAIN requests'
            /\ requests'[r].decision = "none" /\ ~requests'[r].told
            /\ Opened(r) \in Notices'
            /\ \A n \in Notices' : n.type = "resolved" => n.request # r
  BY DEF Waiting, Opened
 <2>1. /\ r \in adapter.pending /\ r \notin gone /\ r \in DOMAIN requests
       /\ requests[r].decision = "none" /\ ~requests[r].told /\ Opened(r) \in Notices
  BY DEF RequestsInvariant, Waiting
 <2>2. ASSUME NEW n \in Notices', n.type = "resolved" PROVE n.request # r
  <3>1. CASE n \in Notices BY <2>1, <2>2, <3>1 DEF RequestsInvariant, Waiting
  <3>2. CASE \E q \in gone : n = Resolved(q, requests'[q].decision) BY <2>1, <3>2, <1>0
  <3> QED BY <2>2, <3>1, <3>2 DEF Silent
 <2> QED BY <2>1, <2>2
<1>4. Settled'
 <2> SUFFICES ASSUME NEW q \in DOMAIN requests \ orphans
     PROVE  /\ q \notin adapter'.pending => requests'[q].decision # "none"
            /\ requests'[q].told => Resolved(q, requests'[q].decision) \in Notices'
  BY DEF Settled, Resolved
 <2>1. CASE q \in gone BY <2>1
 <2>2. CASE q \notin gone BY <2>2 DEF RequestsInvariant, Settled
 <2> QED BY <2>1, <2>2
<1> QED BY <1>2, <1>3, <1>4

LEMMA AbortStep ==
  ASSUME RequestsInvariant, NEW r, Abort(r) PROVE RequestsInvariant'
<1>1. /\ r \in adapter.pending /\ r \in DOMAIN requests
      /\ adapter' = [adapter EXCEPT !.pending = adapter.pending \ {r}]
      /\ requests' = [requests EXCEPT ![r] = [requests[r] EXCEPT !.decision = "cancel"]]
      /\ UNCHANGED <<queue, thread, intents, spent, orphans>>
 BY DEF Abort, RequestsInvariant, Waiting
<1>2. /\ DOMAIN adapter' = DOMAIN adapter /\ adapter'.live = adapter.live
      /\ adapter'.turn = adapter.turn /\ adapter'.pending = adapter.pending \ {r}
 BY <1>1 DEF RequestsInvariant, Shapes
<1>3. requests \in Seq(Questions) /\ requests[r] \in Questions
 BY <1>1, QuestionIs DEF RequestsInvariant, Shapes
<1>4. [requests[r] EXCEPT !.decision = "cancel"] \in Questions BY <1>3 DEF Questions, Decisions
<1>5. /\ requests' \in Seq(Questions) /\ DOMAIN requests' = DOMAIN requests
      /\ \A q \in DOMAIN requests \ {r} : requests'[q] = requests[q]
 BY <1>1, <1>3, <1>4, ExceptSeq, LenProperties
<1>6. requests'[r].decision = "cancel" /\ requests'[r].told = requests[r].told
 BY <1>1, <1>3 DEF Questions
<1>7. ~requests[r].told BY <1>1 DEF RequestsInvariant, Waiting
<1>8. Shapes' BY <1>1, <1>2, <1>5 DEF RequestsInvariant, Shapes
<1>9. Notices' = Notices BY <1>1 DEF Notices
<1>10. ~adapter'.live => adapter'.pending = {} BY <1>2 DEF RequestsInvariant, Waiting
<1>11. \A q \in {r} : /\ requests'[q].decision # "none"
                      /\ requests'[q].told => Resolved(q, requests'[q].decision) \in Notices'
 BY <1>6, <1>7
<1>12. {r} \subseteq adapter.pending /\ Notices \subseteq Notices' /\ UNCHANGED orphans
       /\ \A n \in Notices' : n \in Notices
 BY <1>1, <1>9
<1>13. Waiting' /\ Settled' /\ Truthful' BY <1>2, <1>5, <1>10, <1>11, <1>12, DecidedKeeps
<1> QED BY <1>8, <1>13 DEF RequestsInvariant

(* The callback tells a decision that was made before.                      *)
LEMMA TellStep ==
  ASSUME RequestsInvariant, NEW r \in DOMAIN requests, Tell(r) PROVE RequestsInvariant'
<1> DEFINE end == Resolved(r, requests[r].decision)
<1>1. /\ requests[r].decision # "none"
      /\ requests' = [requests EXCEPT ![r] = [requests[r] EXCEPT !.told = TRUE]]
      /\ queue' = Append(queue, end)
      /\ UNCHANGED <<adapter, thread, intents, spent, orphans>>
 BY DEF Tell
<1>2. requests \in Seq(Questions) /\ requests[r] \in Questions
 BY QuestionIs DEF RequestsInvariant, Shapes
<1>3. [requests[r] EXCEPT !.told = TRUE] \in Questions BY <1>2 DEF Questions
<1>4. /\ requests' \in Seq(Questions) /\ DOMAIN requests' = DOMAIN requests
      /\ \A q \in DOMAIN requests \ {r} : requests'[q] = requests[q]
 BY <1>1, <1>2, <1>3, ExceptSeq, LenProperties
<1>5. requests'[r].decision = requests[r].decision BY <1>1, <1>2 DEF Questions
<1>6. \A q \in DOMAIN requests : requests'[q].decision = requests[q].decision BY <1>4, <1>5
<1>7. end.type = "resolved" /\ end.request = r /\ end.decision = requests[r].decision
 BY DEF Resolved
<1>8. r \notin adapter.pending BY <1>1 DEF RequestsInvariant, Waiting
<1> HIDE DEF end
<1>9. IsSeq(queue') /\ Range(queue') = Range(queue) \cup {end}
 BY <1>1, AppendIs DEF RequestsInvariant, Shapes
<1>10. Notices' = Notices \cup {end} BY <1>1, <1>9 DEF Notices
<1>11. Shapes' BY <1>1, <1>4, <1>9 DEF RequestsInvariant, Shapes
<1>12. Waiting'
 <2>1. ASSUME NEW q \in adapter.pending
     PROVE  /\ q \in DOMAIN requests'
            /\ requests'[q].decision = "none" /\ ~requests'[q].told
            /\ Opened(q) \in Notices'
            /\ \A n \in Notices' : n.type = "resolved" => n.request # q
  <3>1. q # r /\ q \in DOMAIN requests BY <1>8 DEF RequestsInvariant, Waiting
  <3>2. requests'[q] = requests[q] BY <3>1, <1>4
  <3> QED BY <3>1, <3>2, <1>4, <1>7, <1>10 DEF RequestsInvariant, Waiting
 <2> QED BY <1>1, <2>1 DEF RequestsInvariant, Waiting, Opened
<1>13. Settled'
 <2> SUFFICES ASSUME NEW q \in DOMAIN requests \ orphans
     PROVE  /\ q \notin adapter.pending => requests'[q].decision # "none"
            /\ requests'[q].told => Resolved(q, requests'[q].decision) \in Notices'
  BY <1>1, <1>4 DEF Settled, Resolved
 <2>1. q \notin adapter.pending => requests'[q].decision # "none"
  BY <1>6 DEF RequestsInvariant, Settled
 <2>2. CASE q = r BY <2>1, <2>2, <1>5, <1>10 DEF end
 <2>3. CASE q # r BY <2>1, <2>3, <1>4, <1>10 DEF RequestsInvariant, Settled
 <2> QED BY <2>2, <2>3
<1>14. Truthful'
 <2> SUFFICES ASSUME NEW n \in Notices'
     PROVE  /\ n.type = "resolved" =>
                  /\ n.request \in DOMAIN requests'
                  /\ n.decision = requests'[n.request].decision
                  /\ n.decision # "none"
            /\ n.type = "failed" => n.detail # UnknownPermission
  BY DEF Truthful, UnknownPermission
 <2>1. CASE n \in Notices BY <2>1, <1>4, <1>6 DEF RequestsInvariant, Truthful
 <2>2. CASE n = end BY <2>2, <1>1, <1>4, <1>5, <1>7
 <2> QED BY <2>1, <2>2, <1>10
<1> QED BY <1>11, <1>12, <1>13, <1>14 DEF RequestsInvariant

(* An answer reaches a question that the adapter holds.                     *)
LEMMA SettleStep ==
  ASSUME RequestsInvariant, NEW r \in adapter.pending, NEW decision \in Decisions,
    Settle(r, decision), UNCHANGED <<thread, spent, orphans>>, IsSeq(intents'),
    Range(intents') \subseteq Range(intents), adapter.live
  PROVE RequestsInvariant'
<1> DEFINE end == Resolved(r, decision)
<1>1. /\ r \in DOMAIN requests
      /\ adapter' = [adapter EXCEPT !.pending = adapter.pending \ {r}]
      /\ requests' = [requests EXCEPT ![r] = [[requests[r] EXCEPT !.decision = decision]
                                                EXCEPT !.told = ~Claude]]
      /\ queue' = IF Claude THEN queue ELSE Append(queue, end)
 BY DEF Settle, RequestsInvariant, Waiting
<1>2. /\ DOMAIN adapter' = DOMAIN adapter /\ adapter'.live = adapter.live
      /\ adapter'.turn = adapter.turn /\ adapter'.pending = adapter.pending \ {r}
 BY <1>1 DEF RequestsInvariant, Shapes
<1>3. requests \in Seq(Questions) /\ requests[r] \in Questions
 BY <1>1, QuestionIs DEF RequestsInvariant, Shapes
<1>4. requests'[r] \in Questions /\ requests'[r].decision = decision
 BY <1>1, <1>3 DEF Questions, Claude
<1>5. requests'[r].told => ~Claude BY <1>1, <1>3 DEF Questions
<1>6. /\ requests' \in Seq(Questions) /\ DOMAIN requests' = DOMAIN requests
      /\ \A q \in DOMAIN requests \ {r} : requests'[q] = requests[q]
 <2>1. requests' = [requests EXCEPT ![r] = requests'[r]] BY <1>1
 <2> QED BY <2>1, <1>1, <1>3, <1>4, ExceptSeq, LenProperties
<1>7. decision # "none" BY DEF Decisions
<1> HIDE DEF end
<1>8. /\ IsSeq(queue')
      /\ Range(queue') = IF Claude THEN Range(queue) ELSE Range(queue) \cup {end}
 BY <1>1, AppendIs DEF RequestsInvariant, Shapes
<1>9. Notices' = IF Claude THEN Notices ELSE Notices \cup {end} BY <1>8 DEF Notices
<1>10. Shapes' BY <1>2, <1>6, <1>8 DEF RequestsInvariant, Shapes
<1>11. \A q \in {r} : /\ requests'[q].decision # "none"
                      /\ requests'[q].told => Resolved(q, requests'[q].decision) \in Notices'
 BY <1>4, <1>5, <1>7, <1>9 DEF end
<1>12. \A n \in Notices' : n \in Notices \/ \E q \in {r} : n = Resolved(q, requests'[q].decision)
 BY <1>4, <1>9 DEF end
<1>13. Notices \subseteq Notices' /\ {r} \subseteq adapter.pending
       /\ (~adapter'.live => adapter'.pending = {})
 BY <1>2, <1>9
<1>14. Waiting' /\ Settled' /\ Truthful' BY <1>2, <1>6, <1>11, <1>12, <1>13, DecidedKeeps
<1> QED BY <1>10, <1>14 DEF RequestsInvariant

--------------------
(* The user asks for something: only an intent more.                        *)
LEMMA SameQuestions ==
  ASSUME RequestsInvariant, UNCHANGED <<adapter, requests, queue, thread, orphans>>,
    Shapes'
  PROVE RequestsInvariant'
<1>1. Notices' = Notices BY DEF Notices
<1> QED BY <1>1 DEF RequestsInvariant, Waiting, Settled, Truthful, Opened, Resolved,
     UnknownPermission

LEMMA UserSteps ==
  ASSUME RequestsInvariant, User PROVE RequestsInvariant'
<1>1. UNCHANGED <<adapter, requests, queue, thread, orphans>>
 BY DEF User, RequestTurn, RequestStop, SwitchMode, Answer
<1>2. spent' \in [Kinds -> Nat]
 BY SpendTyped DEF User, RequestTurn, RequestStop, SwitchMode, Answer, RequestsInvariant, Shapes,
     Kinds
<1>3. \/ intents' = intents
      \/ \E intent : /\ intents' = Append(intents, intent)
                     /\ intent.type = "answer" => intent.decision \in Decisions
 <2>1. CASE RequestTurn
  <3>1. [type |-> "start"].type = "start" OBVIOUS
  <3> QED BY <2>1, <3>1 DEF RequestTurn
 <2>2. CASE RequestStop
  <3>1. [type |-> "stop"].type = "stop" OBVIOUS
  <3> QED BY <2>2, <3>1 DEF RequestStop
 <2>3. CASE SwitchMode BY <2>3 DEF SwitchMode
 <2>4. ASSUME NEW r, NEW decision \in {"accept", "decline"}, Answer(r, decision)
     PROVE  \E intent : /\ intents' = Append(intents, intent)
                        /\ intent.type = "answer" => intent.decision \in Decisions
  <3> DEFINE intent == [type |-> "answer", request |-> r, decision |-> decision]
  <3>1. intent.decision \in Decisions BY DEF Decisions
  <3>2. intents' = Append(intents, intent) BY <2>4 DEF Answer
  <3> HIDE DEF intent
  <3> QED BY <3>1, <3>2
 <2> QED BY <2>1, <2>2, <2>3, <2>4 DEF User
<1>4. /\ IsSeq(intents')
      /\ \A i \in Range(intents') : i.type = "answer" => i.decision \in Decisions
 <2>1. CASE intents' = intents BY <2>1 DEF RequestsInvariant, Shapes
 <2>2. ASSUME NEW intent, intents' = Append(intents, intent),
              intent.type = "answer" => intent.decision \in Decisions
     PROVE  /\ IsSeq(intents')
            /\ \A i \in Range(intents') : i.type = "answer" => i.decision \in Decisions
  BY <2>2, AppendIs DEF RequestsInvariant, Shapes
 <2> QED BY <1>3, <2>1, <2>2
<1>5. Shapes' BY <1>1, <1>2, <1>4 DEF RequestsInvariant, Shapes
<1> QED BY <1>1, <1>5, SameQuestions

--------------------
(* The reactor takes an intent.                                             *)
LEMMA IntentTaken ==
  ASSUME Shapes, NEW type, TakeIntent(type)
  PROVE /\ IsSeq(intents') /\ Range(intents') \subseteq Range(intents)
        /\ Head(intents) \in Range(intents) /\ Head(intents).type = type
        /\ \A i \in Range(intents') : i.type = "answer" => i.decision \in Decisions
BY TailIs DEF TakeIntent, Shapes

LEMMA StartTurnStep ==
  ASSUME RequestsInvariant, StartTurn PROVE RequestsInvariant'
<1> DEFINE session == IF adapter.live THEN adapter ELSE NewSession(TRUE)
<1>1. /\ adapter' = [session EXCEPT !.turn = spent.turns]
      /\ queue' = Append(queue, Started)
      /\ thread' = [thread EXCEPT !.status = "active"]
      /\ UNCHANGED <<requests, spent, orphans>>
 BY DEF StartTurn
<1>2. DOMAIN session = AdapterFields /\ session.live /\ session.pending = adapter.pending
 BY NewSessionIs DEF RequestsInvariant, Shapes, Waiting, AdapterFields
<1> HIDE DEF session
<1>3. /\ DOMAIN adapter' = AdapterFields /\ adapter'.live /\ adapter'.pending = adapter.pending
      /\ adapter'.turn = spent.turns
 BY <1>1, <1>2 DEF AdapterFields
<1>4. spent.turns \in Nat BY DEF RequestsInvariant, Shapes, Kinds
<1>5. DOMAIN thread' = DOMAIN thread /\ thread'.activities = thread.activities
 BY <1>1 DEF RequestsInvariant, Shapes
<1>6. /\ IsSeq(queue') /\ Range(queue') = Range(queue) \cup {Started}
      /\ \A n \in {Started} : Silent(n)
 BY <1>1, AppendIs, SilentEvents DEF RequestsInvariant, Shapes
<1>7. /\ IsSeq(intents')
      /\ \A i \in Range(intents') : i.type = "answer" => i.decision \in Decisions
 BY IntentTaken DEF StartTurn, RequestsInvariant
<1>8. UNCHANGED <<requests, spent, orphans>> BY <1>1
<1>9. Shapes' BY <1>3, <1>4, <1>5, <1>6, <1>7, <1>8 DEF RequestsInvariant, Shapes, AdapterFields
<1>10. /\ requests' = requests /\ orphans \subseteq orphans'
       /\ adapter'.pending \subseteq adapter.pending
       /\ adapter.pending \ adapter'.pending \subseteq orphans'
       /\ ~adapter'.live => adapter'.pending = {}
 BY <1>3, <1>8
<1>11. Waiting' /\ Settled' /\ Truthful' BY <1>5, <1>6, <1>10, OnlySays
<1> QED BY <1>9, <1>11 DEF RequestsInvariant

LEMMA FunctionIsSeq ==
  ASSUME NEW n \in Nat, NEW S, NEW f \in [1..n -> S] PROVE f \in Seq(S)
OBVIOUS

(* Claude's adapter cancels what it holds: approvals at once, the rest when *)
(* their callbacks go on.                                                   *)
LEMMA StopClaudeStep ==
  ASSUME RequestsInvariant, StopClaude, adapter' = NewSession(FALSE),
    thread'.activities = thread.activities
  PROVE /\ IsSeq(queue') /\ requests' \in Seq(Questions)
        /\ Waiting' /\ Settled' /\ Truthful'
<1> DEFINE gone == adapter.pending
           approvals == {r \in gone : requests[r].kind = "approval"}
           last == IF adapter.turn = 0 THEN << >> ELSE CompleteTurn
           Cancelled(inOrder) == [i \in DOMAIN inOrder |-> Resolved(inOrder[i], "cancel")]
<1>1. /\ requests' = [r \in DOMAIN requests |->
                        IF r \in gone THEN [requests[r] EXCEPT !.decision = "cancel"]
                        ELSE requests[r]]
      /\ UNCHANGED orphans
 BY DEF StopClaude
<1>2. PICK inOrder \in [1..Cardinality(approvals) -> approvals] :
          queue' = queue \o Cancelled(inOrder) \o last \o <<Exited>>
 BY DEF StopClaude
<1>3. gone \subseteq DOMAIN requests /\ \A r \in gone : ~requests[r].told
 BY DEF RequestsInvariant, Waiting
<1>4. requests' \in Seq(Questions)
 <2>1. requests \in Seq(Questions) BY DEF RequestsInvariant, Shapes
 <2>2. Len(requests) \in Nat /\ DOMAIN requests = 1..Len(requests) BY <2>1, LenProperties
 <2>3. ASSUME NEW r \in DOMAIN requests PROVE requests'[r] \in Questions
  <3>1. requests[r] \in Questions BY QuestionIs DEF RequestsInvariant
  <3>2. [requests[r] EXCEPT !.decision = "cancel"] \in Questions BY <3>1 DEF Questions, Decisions
  <3> QED BY <1>1, <3>1, <3>2
 <2>4. requests' \in [1..Len(requests) -> Questions] BY <1>1, <2>2, <2>3
 <2> QED BY <2>2, <2>4, FunctionIsSeq
<1>5. /\ DOMAIN requests' = DOMAIN requests
      /\ \A r \in DOMAIN requests \ gone : requests'[r] = requests[r]
 BY <1>1
<1>6. ASSUME NEW r \in gone PROVE requests'[r].decision = "cancel" /\ ~requests'[r].told
 <2>1. requests[r] \in Questions BY <1>3, QuestionIs DEF RequestsInvariant
 <2>2. requests'[r] = [requests[r] EXCEPT !.decision = "cancel"] BY <1>1, <1>3
 <2> QED BY <1>3, <2>1, <2>2 DEF Questions
<1>7. IsSeq(last) /\ \A n \in Range(last) : Silent(n) BY LastWordsAre, EmptyIs
<1>8. /\ IsSeq(Cancelled(inOrder))
      /\ \A n \in Range(Cancelled(inOrder)) : \E r \in gone : n = Resolved(r, "cancel")
 <2>1. ASSUME NEW i \in DOMAIN inOrder
     PROVE  /\ inOrder[i] \in gone
            /\ Cancelled(inOrder)[i] = Resolved(inOrder[i], "cancel")
  OBVIOUS
 <2>2. DOMAIN Cancelled(inOrder) = DOMAIN inOrder OBVIOUS
 <2>3. DOMAIN inOrder = 1..Cardinality(approvals) OBVIOUS
 <2> HIDE DEF Cancelled
 <2>4. Cancelled(inOrder) \in Seq(Range(Cancelled(inOrder)))
  <3>1. IsFiniteSet(DOMAIN requests) BY FS_Interval, LenProperties DEF RequestsInvariant, Shapes
  <3>2. IsFiniteSet(approvals) BY <1>3, <3>1, FS_Subset
  <3>3. Cardinality(approvals) \in Nat BY <3>2, FS_CardinalityType
  <3>4. Cancelled(inOrder) \in [1..Cardinality(approvals) -> Range(Cancelled(inOrder))]
   BY <2>2, <2>3 DEF Range, Cancelled
  <3> QED BY <3>3, <3>4, FunctionIsSeq
 <2> QED BY <2>1, <2>2, <2>4 DEF IsSeq, Range
<1> HIDE DEF last, Cancelled
<1>9. /\ IsSeq(queue')
      /\ Range(queue') = (Range(queue) \cup Range(Cancelled(inOrder)))
                            \cup (Range(last) \cup {Exited})
 <2>1. IsSeq(<<Exited>>) /\ Range(<<Exited>>) = {Exited} BY OneIs
 <2>2. /\ IsSeq(queue \o Cancelled(inOrder))
       /\ Range(queue \o Cancelled(inOrder)) = Range(queue) \cup Range(Cancelled(inOrder))
  BY <1>8, ConcatIs DEF RequestsInvariant, Shapes
 <2>3. /\ IsSeq((queue \o Cancelled(inOrder)) \o last)
       /\ Range((queue \o Cancelled(inOrder)) \o last)
             = (Range(queue) \cup Range(Cancelled(inOrder))) \cup Range(last)
  BY <2>2, <1>7, ConcatIs
 <2>4. queue' = ((queue \o Cancelled(inOrder)) \o last) \o <<Exited>> BY <1>2
 <2> QED BY <2>1, <2>3, <2>4, ConcatIs
<1>10. Silent(Exited) BY SilentEvents
<1>11. /\ Notices \subseteq Notices'
       /\ \A n \in Notices' : \/ n \in Notices \/ Silent(n)
                              \/ \E r \in gone : n = Resolved(r, requests'[r].decision)
 BY <1>6, <1>7, <1>8, <1>9, <1>10 DEF Notices
<1>12. /\ adapter'.pending = adapter.pending \ gone
       /\ ~adapter'.live => adapter'.pending = {}
 BY NewSessionIs
<1>13. UNCHANGED orphans BY <1>1
<1>14. \A r \in gone : /\ requests'[r].decision # "none"
                       /\ requests'[r].told => Resolved(r, requests'[r].decision) \in Notices'
 BY <1>6
<1>15. Waiting' /\ Settled' /\ Truthful' BY <1>5, <1>11, <1>12, <1>13, <1>14, DecidedKeeps
<1> QED BY <1>4, <1>9, <1>15

LEMMA StopSessionStep ==
  ASSUME RequestsInvariant, StopSession PROVE RequestsInvariant'
<1>1. /\ thread' = [thread EXCEPT !.status = "stopped"]
      /\ UNCHANGED spent
 BY DEF StopSession
<1>2. DOMAIN thread' = DOMAIN thread /\ thread'.activities = thread.activities
 BY <1>1 DEF RequestsInvariant, Shapes
<1>3. /\ IsSeq(intents')
      /\ \A i \in Range(intents') : i.type = "answer" => i.decision \in Decisions
 BY IntentTaken DEF StopSession, RequestsInvariant
<1>4. CASE adapter' = NewSession(FALSE) /\ (IF Claude THEN StopClaude ELSE StopCodex)
 <2>1. DOMAIN adapter' = AdapterFields /\ adapter'.turn \in Nat /\ adapter'.pending = {}
  BY <1>4, NewSessionIs
 <2>2. UNCHANGED spent BY <1>1
 <2>3. /\ IsSeq(queue') /\ requests' \in Seq(Questions)
       /\ Waiting' /\ Settled' /\ Truthful'
  <3>1. CASE Claude BY <1>2, <1>4, <3>1, StopClaudeStep
  <3>2. CASE ~Claude
   <4>1. /\ queue' = Append(queue, Exited)
         /\ orphans' = orphans \cup adapter.pending /\ UNCHANGED requests
    BY <1>4, <3>2 DEF StopCodex
   <4>2. /\ IsSeq(queue') /\ Range(queue') = Range(queue) \cup {Exited}
         /\ \A n \in {Exited} : Silent(n)
    BY <4>1, AppendIs, SilentEvents DEF RequestsInvariant, Shapes
   <4>3. Waiting' /\ Settled' /\ Truthful' BY <1>2, <2>1, <4>1, <4>2, OnlySays
   <4> QED BY <4>1, <4>2, <4>3 DEF RequestsInvariant, Shapes
  <3> QED BY <3>1, <3>2
 <2>4. Shapes' BY <1>2, <1>3, <2>1, <2>2, <2>3 DEF RequestsInvariant, Shapes, AdapterFields
 <2> QED BY <2>3, <2>4 DEF RequestsInvariant
<1>5. CASE UNCHANGED <<adapter, requests, queue, orphans>>
 <2>1. Shapes' BY <1>1, <1>2, <1>3, <1>5 DEF RequestsInvariant, Shapes
 <2>2. Notices' = Notices BY <1>2, <1>5 DEF Notices
 <2>3. Waiting' /\ Settled' /\ Truthful'
  BY <1>5, <2>2 DEF RequestsInvariant, Waiting, Settled, Truthful, Opened, Resolved,
     UnknownPermission
 <2> QED BY <2>1, <2>3 DEF RequestsInvariant
<1> QED BY <1>4, <1>5 DEF StopSession

(* A refusal is an activity that closes no question.                        *)
LEMMA RefuseStep ==
  ASSUME RequestsInvariant, NEW r,
    NEW detail \in {"No active provider session", "Cannot recover thread", UnknownRequest},
    Refuse(r, detail), UNCHANGED <<requests, orphans, spent>>,
    \/ UNCHANGED <<adapter, queue>>
    \/ /\ ~adapter.live /\ adapter'.live /\ adapter'.pending = {}
       /\ DOMAIN adapter' = AdapterFields /\ adapter'.turn \in Nat
       /\ queue' = Append(queue, Started),
    IsSeq(intents'),
    \A i \in Range(intents') : i.type = "answer" => i.decision \in Decisions
  PROVE RequestsInvariant'
<1>1. thread' = [thread EXCEPT !.activities = thread.activities \cup {Failed(r, detail)}]
 BY DEF Refuse
<1>2. /\ DOMAIN thread' = DOMAIN thread
      /\ thread'.activities = thread.activities \cup {Failed(r, detail)}
 BY <1>1 DEF RequestsInvariant, Shapes
<1>3. Silent(Failed(r, detail)) /\ Silent(Started) BY SilentRefusal, SilentEvents
<1>4. /\ DOMAIN adapter' = DOMAIN adapter /\ adapter'.turn \in Nat
      /\ adapter'.pending = adapter.pending /\ (~adapter'.live => adapter'.pending = {})
 <2>1. CASE UNCHANGED <<adapter, queue>> BY <2>1 DEF RequestsInvariant, Shapes, Waiting
 <2>2. CASE queue' = Append(queue, Started) /\ ~UNCHANGED <<adapter, queue>>
  BY <2>2 DEF RequestsInvariant, Shapes, Waiting, AdapterFields
 <2> QED BY <2>1, <2>2
<1>5. /\ IsSeq(queue')
      /\ Range(queue') = Range(queue) \/ Range(queue') = Range(queue) \cup {Started}
 <2>1. CASE queue' = queue BY <2>1 DEF RequestsInvariant, Shapes
 <2>2. CASE queue' = Append(queue, Started) BY <2>2, AppendIs DEF RequestsInvariant, Shapes
 <2> QED BY <2>1, <2>2
<1>6. /\ Notices \subseteq Notices'
      /\ \A n \in Notices' : n \in Notices \/ Silent(n)
 BY <1>2, <1>3, <1>5 DEF Notices
<1>7. Shapes' BY <1>2, <1>4, <1>5 DEF RequestsInvariant, Shapes
<1>8. Waiting' /\ Settled' /\ Truthful' BY <1>4, <1>6, Carried DEF RequestsInvariant
<1> QED BY <1>7, <1>8 DEF RequestsInvariant

LEMMA DeliverAnswerStep ==
  ASSUME RequestsInvariant, DeliverAnswer PROVE RequestsInvariant'
<1> DEFINE r == Head(intents).request
           decision == Head(intents).decision
<1>1. /\ IsSeq(intents') /\ Range(intents') \subseteq Range(intents)
      /\ \A i \in Range(intents') : i.type = "answer" => i.decision \in Decisions
      /\ Head(intents) \in Range(intents) /\ Head(intents).type = "answer"
 BY IntentTaken DEF DeliverAnswer, RequestsInvariant
<1>2. decision \in Decisions BY <1>1 DEF RequestsInvariant, Shapes
<1>3. UNCHANGED <<spent, orphans>> BY DEF DeliverAnswer
<1>4. \/ /\ adapter.live /\ r \in adapter.pending
         /\ Settle(r, decision) /\ UNCHANGED thread
      \/ \E detail \in {"No active provider session", "Cannot recover thread", UnknownRequest} :
            /\ Refuse(r, detail) /\ UNCHANGED requests
            /\ \/ UNCHANGED <<adapter, queue>>
               \/ /\ ~adapter.live /\ adapter'.live /\ adapter'.pending = {}
                  /\ DOMAIN adapter' = AdapterFields /\ adapter'.turn \in Nat
                  /\ queue' = Append(queue, Started)
 BY NewSessionIs DEF DeliverAnswer
<1> HIDE DEF r, decision
<1>5. CASE /\ adapter.live /\ r \in adapter.pending
           /\ Settle(r, decision) /\ UNCHANGED thread
 BY <1>1, <1>2, <1>3, <1>5, SettleStep
<1>6. ASSUME NEW detail \in {"No active provider session", "Cannot recover thread",
                             UnknownRequest},
             Refuse(r, detail), UNCHANGED requests,
             \/ UNCHANGED <<adapter, queue>>
             \/ /\ ~adapter.live /\ adapter'.live /\ adapter'.pending = {}
                /\ DOMAIN adapter' = AdapterFields /\ adapter'.turn \in Nat
                /\ queue' = Append(queue, Started)
    PROVE  RequestsInvariant'
 BY <1>1, <1>3, <1>6, RefuseStep
<1> QED BY <1>4, <1>5, <1>6

--------------------
(* Ingestion, and a crash.                                                  *)
LEMMA IngestStep ==
  ASSUME RequestsInvariant, Ingest PROVE RequestsInvariant'
<1> DEFINE event == Head(queue)
           st == [thread |-> thread, ingest |-> ingest]
<1>1. /\ queue # << >> /\ queue' = Tail(queue) /\ thread' = Handled(st, event).thread
      /\ UNCHANGED <<adapter, requests, intents, spent, orphans>>
 BY DEF Ingest
<1>2. Held(st) /\ st.thread = thread BY DEF Held, ThreadFields, RequestsInvariant, Shapes
<1> HIDE DEF st
<1>3. /\ Held(Handled(st, event))
      /\ Handled(st, event).thread.activities =
            IF Activity(event) THEN st.thread.activities \cup {event} ELSE st.thread.activities
 BY <1>2, HandledKeeps
<1>4. /\ DOMAIN thread' = ThreadFields
      /\ thread'.activities = IF Activity(event) THEN thread.activities \cup {event}
                              ELSE thread.activities
 BY <1>1, <1>2, <1>3 DEF Held
<1>5. IsSeq(queue') /\ Range(queue) = Range(queue') \cup {event}
 BY <1>1, TailIs DEF RequestsInvariant, Shapes
<1>6. Activity(event) \/ event.type \notin {"opened", "resolved"} BY DEF Activity
<1> HIDE DEF event
<1>7. Notices' \subseteq Notices BY <1>4, <1>5 DEF Notices
<1>8. \A n \in Notices : n.type \in {"opened", "resolved"} => n \in Notices'
 BY <1>4, <1>5, <1>6 DEF Notices
<1>9. UNCHANGED <<adapter, requests, intents, spent, orphans>> BY <1>1
<1>10. Shapes' BY <1>4, <1>5, <1>9 DEF RequestsInvariant, Shapes, ThreadFields
<1>11. ~adapter'.live => adapter'.pending = {} BY <1>9 DEF RequestsInvariant, Waiting
<1>12. Waiting' /\ Settled' /\ Truthful' BY <1>7, <1>8, <1>9, <1>11, Carried DEF RequestsInvariant
<1> QED BY <1>10, <1>12 DEF RequestsInvariant

LEMMA CrashStep ==
  ASSUME RequestsInvariant, Crash PROVE RequestsInvariant'
<1>1. /\ adapter' = NewSession(FALSE) /\ queue' = << >> /\ intents' = << >>
      /\ orphans' = DOMAIN requests /\ UNCHANGED <<requests, thread>>
 BY DEF Crash
<1>2. /\ DOMAIN adapter' = AdapterFields /\ adapter'.pending = {} BY <1>1, NewSessionIs
<1>3. adapter'.turn \in Nat BY <1>1, NewSessionIs
<1>4. spent' \in [Kinds -> Nat] BY SpendTyped DEF Crash, RequestsInvariant, Shapes, Kinds
<1>5. /\ IsSeq(queue') /\ IsSeq(intents') /\ Range(queue') = {} /\ Range(intents') = {}
 BY <1>1, EmptyIs
<1>6. UNCHANGED <<requests, thread>> /\ orphans' = DOMAIN requests BY <1>1
<1>7. Shapes' BY <1>2, <1>3, <1>4, <1>5, <1>6 DEF RequestsInvariant, Shapes, AdapterFields
<1>8. Notices' \subseteq Notices BY <1>5, <1>6 DEF Notices
<1>9. Waiting' BY <1>2 DEF Waiting
<1>10. Settled' BY <1>6 DEF Settled
<1>11. Truthful' BY <1>6, <1>8 DEF RequestsInvariant, Truthful, UnknownPermission
<1> QED BY <1>7, <1>9, <1>10, <1>11 DEF RequestsInvariant

--------------------
LEMMA StartsSound == Init => RequestsInvariant
<1> SUFFICES ASSUME Init PROVE RequestsInvariant OBVIOUS
<1>1. /\ adapter = NewSession(FALSE) /\ requests = << >> /\ queue = << >> /\ intents = << >>
      /\ thread = [messages |-> << >>, activities |-> {}, status |-> "none"]
      /\ spent = [k \in Kinds |-> 0]
 BY DEF Init
<1>2. /\ DOMAIN adapter = AdapterFields /\ adapter.turn \in Nat /\ adapter.pending = {}
 BY <1>1, NewSessionIs
<1>3. spent \in [Kinds -> Nat]
 <2>1. spent = [k \in Kinds |-> 0] BY <1>1
 <2> QED BY <2>1
<1>4. /\ IsSeq(queue) /\ IsSeq(intents) /\ Range(queue) = {} /\ Range(intents) = {}
 BY <1>1, EmptyIs
<1>5. requests \in Seq(Questions) /\ DOMAIN requests = {} BY <1>1, EmptySeq
<1>6. DOMAIN thread = {"messages", "activities", "status"} /\ thread.activities = {} BY <1>1
<1>7. Shapes BY <1>2, <1>3, <1>4, <1>5, <1>6 DEF Shapes, AdapterFields
<1>8. Notices = {} BY <1>4, <1>6 DEF Notices
<1> QED BY <1>2, <1>5, <1>7, <1>8 DEF RequestsInvariant, Waiting, Settled, Truthful

LEMMA StepsSound == RequestsInvariant /\ [Next]_vars => RequestsInvariant'
<1> SUFFICES ASSUME RequestsInvariant, [Next]_vars PROVE RequestsInvariant' OBVIOUS
<1>1. CASE UNCHANGED vars
 <2>1. UNCHANGED <<adapter, requests, queue, thread, orphans, intents, spent>> BY <1>1 DEF vars
 <2>2. Shapes' BY <2>1 DEF RequestsInvariant, Shapes
 <2> QED BY <2>1, <2>2, SameQuestions
<1>2. CASE Agent BY <1>2, SaySteps, EndTurnStep, DieStep, AskStep, AbortStep DEF Agent
<1>3. CASE User BY <1>3, UserSteps
<1>4. CASE Callback BY <1>4, TellStep DEF Callback
<1>5. CASE Work BY <1>5, StartTurnStep, StopSessionStep, DeliverAnswerStep DEF Work
<1>6. CASE Ingest BY <1>6, IngestStep
<1>7. CASE Crash BY <1>7, CrashStep
<1> QED BY <1>1, <1>2, <1>3, <1>4, <1>5, <1>6, <1>7 DEF Next

LEMMA SoundIsShown == RequestsInvariant => RequestsShown
<1> SUFFICES ASSUME RequestsInvariant, NEW r \in DOMAIN requests \ orphans
    PROVE  /\ r \in adapter.pending /\ Opened(r) \notin Range(queue) => Open(r)
           /\ Quiet /\ Open(r) => r \in adapter.pending
           /\ \A a \in thread.activities :
                 a.type = "resolved" /\ a.request = r => a.decision = requests[r].decision
 BY DEF RequestsShown
<1>1. thread.activities \subseteq Notices BY DEF Notices
<1>2. ASSUME r \in adapter.pending, Opened(r) \notin Range(queue) PROVE Open(r)
 <2>1. Opened(r) \in thread.activities BY <1>2 DEF RequestsInvariant, Waiting, Notices
 <2>2. \A a \in thread.activities : a.type = "resolved" => a.request # r
  BY <1>1, <1>2 DEF RequestsInvariant, Waiting
 <2>3. Failed(r, UnknownPermission).type = "failed"
       /\ Failed(r, UnknownPermission).detail = UnknownPermission
  BY DEF Failed
 <2>4. Failed(r, UnknownPermission) \notin thread.activities
  BY <1>1, <2>3 DEF RequestsInvariant, Truthful
 <2> QED BY <2>1, <2>2, <2>4 DEF Open
<1>3. ASSUME Quiet, Open(r) PROVE r \in adapter.pending
 <2>1. SUFFICES ASSUME r \notin adapter.pending PROVE FALSE OBVIOUS
 <2>2. requests[r].decision # "none" BY <2>1 DEF RequestsInvariant, Settled
 <2>3. requests[r] \in Range(requests) BY DEF Range
 <2>4. requests[r].told BY <1>3, <2>2, <2>3 DEF Quiet
 <2>5. Range(queue) = {} BY <1>3, EmptyIs DEF Quiet
 <2>6. Resolved(r, requests[r].decision) \in thread.activities
  BY <2>4, <2>5 DEF RequestsInvariant, Settled, Notices
 <2>7. /\ Resolved(r, requests[r].decision).type = "resolved"
       /\ Resolved(r, requests[r].decision).request = r
  BY DEF Resolved
 <2> QED BY <1>3, <2>6, <2>7 DEF Open
<1>4. ASSUME NEW a \in thread.activities, a.type = "resolved", a.request = r
    PROVE  a.decision = requests[r].decision
 BY <1>1, <1>4 DEF RequestsInvariant, Truthful
<1> QED BY <1>2, <1>3, <1>4

(* The questions of an agent and the thread's activities: a question that   *)
(* waits for an answer is shown as open once its event is ingested, one     *)
(* that nobody waits for is not, and a resolution says what the agent got   *)
(* (canUseTool, respondToRequest, stopSessionInternal, processRuntimeEvent, *)
(* derivePendingApprovals).                                                 *)
THEOREM QuestionsShown == Spec => []RequestsShown
<1>1. Spec => []RequestsInvariant BY StartsSound, StepsSound, PTL DEF Spec
<1> QED BY <1>1, SoundIsShown, PTL

--------------------
(* Induction over the natural numbers, for a set instead of a predicate:    *)
(* without it, the intervals 0..n of what is missing would have a smallest. *)
LEMMA SetInduction ==
  ASSUME NEW S, 0 \in S, \A n \in Nat : n \in S => n + 1 \in S PROVE Nat \subseteq S
<1> SUFFICES ASSUME NEW m \in Nat, m \notin S PROVE FALSE OBVIOUS
<1> DEFINE missing == {0..n : n \in Nat \ S}
           below == StrictSubsetOrdering(Nat)
<1>1. IsWellFoundedOn(below, FiniteSubsetsOf(Nat)) BY FS_StrictSubsetOrderingWellFounded
<1>2. missing \subseteq FiniteSubsetsOf(Nat) /\ missing # {}
 <2>1. \A n \in Nat : 0..n \in SUBSET Nat /\ IsFiniteSet(0..n) BY FS_Interval
 <2> QED BY <2>1 DEF FiniteSubsetsOf
<1>3. PICK least \in missing : \A other \in missing : <<other, least>> \notin below
 <2> HIDE DEF missing, below
 <2> QED BY <1>1, <1>2, WFMin
<1>4. PICK n \in Nat \ S : least = 0..n BY <1>3
<1>5. n # 0 /\ n - 1 \in Nat \ S BY <1>4
<1>6. 0..(n - 1) \in SUBSET least /\ 0..(n - 1) # least /\ n \in Nat /\ least \in SUBSET Nat
 BY <1>4, <1>5
<1>7. <<0..(n - 1), least>> \in below BY <1>6 DEF StrictSubsetOrdering
<1> QED BY <1>3, <1>5, <1>7

--------------------
(* Text: sequences of chunks, and what is known of two of them put          *)
(* together.                                                                *)
\* The chunks follow each other, from the one after the first n.
Counts(s, n) == \A k \in 1..Len(s) : s[k] = n + k

LEMMA TextIs ==
  ASSUME NEW s \in Seq(Nat)
  PROVE /\ Len(s) \in Nat /\ DOMAIN s = 1..Len(s) /\ Range(s) \subseteq Nat
        /\ \A k \in 1..Len(s) : s[k] \in Nat /\ s[k] \in Range(s)
        /\ \A x \in Range(s) : \E k \in 1..Len(s) : x = s[k]
        /\ s = << >> <=> Len(s) = 0
        /\ s = << >> <=> Range(s) = {}
<1>1. Len(s) \in Nat /\ DOMAIN s = 1..Len(s) BY LenProperties
<1>2. \A k \in 1..Len(s) : s[k] \in Nat BY ElementOfSeq
<1>3. s = << >> <=> Len(s) = 0 BY EmptySeq
<1>4. /\ \A k \in 1..Len(s) : s[k] \in Range(s)
      /\ \A x \in Range(s) : \E k \in 1..Len(s) : x = s[k]
 BY <1>1 DEF Range
<1>5. Range(s) \subseteq Nat BY <1>2, <1>4
<1>6. Range(s) = {} <=> Len(s) = 0 BY <1>1, <1>4
<1> QED BY <1>1, <1>2, <1>3, <1>4, <1>5, <1>6

LEMMA NoText == << >> \in Seq(Nat) /\ Len(<< >>) = 0 /\ Range(<< >>) = {} /\ IsInjective(<< >>)
BY EmptySeq DEF IsInjective, Range

LEMMA Joined ==
  ASSUME NEW s \in Seq(Nat), NEW t \in Seq(Nat)
  PROVE /\ s \o t \in Seq(Nat) /\ Len(s \o t) = Len(s) + Len(t)
        /\ Range(s \o t) = Range(s) \cup Range(t)
        /\ IsInjective(s) /\ IsInjective(t) /\ Range(s) \cap Range(t) = {} => IsInjective(s \o t)
        /\ \A n \in Nat : Counts(s, n) /\ Counts(t, n + Len(s)) => Counts(s \o t, n)
<1> DEFINE u == s \o t
<1>1. /\ u \in Seq(Nat) /\ Len(u) = Len(s) + Len(t)
      /\ \A k \in 1..(Len(s) + Len(t)) : u[k] = IF k <= Len(s) THEN s[k] ELSE t[k - Len(s)]
 BY ConcatProperties
<1>2. Len(s) \in Nat /\ Len(t) \in Nat /\ DOMAIN s = 1..Len(s) /\ DOMAIN t = 1..Len(t)
      /\ DOMAIN u = 1..(Len(s) + Len(t))
 BY <1>1, LenProperties
<1> HIDE DEF u
<1>3. \A k \in 1..Len(s) : k \in DOMAIN u /\ u[k] = s[k] BY <1>1, <1>2
<1>4. \A k \in 1..Len(t) : Len(s) + k \in DOMAIN u /\ u[Len(s) + k] = t[k]
 <2> TAKE k \in 1..Len(t)
 <2>1. Len(s) + k \in 1..(Len(s) + Len(t)) /\ ~(Len(s) + k <= Len(s)) /\ (Len(s) + k) - Len(s) = k
  BY <1>2
 <2> QED BY <1>1, <1>2, <2>1
<1>5. \A k \in DOMAIN u :
         \/ k \in 1..Len(s) /\ u[k] = s[k]
         \/ k - Len(s) \in 1..Len(t) /\ u[k] = t[k - Len(s)]
 BY <1>1, <1>2
<1>6. Range(u) = Range(s) \cup Range(t)
 <2>1. ASSUME NEW x \in Range(u) PROVE x \in Range(s) \cup Range(t) BY <1>2, <1>5 DEF Range
 <2>2. ASSUME NEW x \in Range(s) PROVE x \in Range(u) BY <1>2, <1>3 DEF Range
 <2>3. ASSUME NEW x \in Range(t) PROVE x \in Range(u) BY <1>2, <1>4 DEF Range
 <2> QED BY <2>1, <2>2, <2>3
<1>7. ASSUME IsInjective(s), IsInjective(t), Range(s) \cap Range(t) = {}
    PROVE  IsInjective(u)
 <2> SUFFICES ASSUME NEW a \in DOMAIN u, NEW b \in DOMAIN u, u[a] = u[b] PROVE a = b
  BY DEF IsInjective
 <2>1. \A k \in DOMAIN s : s[k] \in Range(s) BY DEF Range
 <2>2. \A k \in DOMAIN t : t[k] \in Range(t) BY DEF Range
 <2>3. CASE a \in 1..Len(s) /\ u[a] = s[a]
  <3>1. b \in 1..Len(s) /\ u[b] = s[b] BY <1>2, <1>5, <1>7, <2>1, <2>2, <2>3
  <3> QED BY <1>2, <1>7, <2>3, <3>1 DEF IsInjective
 <2>4. CASE a - Len(s) \in 1..Len(t) /\ u[a] = t[a - Len(s)]
  <3>1. b - Len(s) \in 1..Len(t) /\ u[b] = t[b - Len(s)] BY <1>2, <1>5, <1>7, <2>1, <2>2, <2>4
  <3>2. a - Len(s) = b - Len(s) BY <1>2, <1>7, <2>4, <3>1 DEF IsInjective
  <3> QED BY <1>2, <3>2
 <2> QED BY <1>5, <2>3, <2>4
<1>8. ASSUME NEW n \in Nat, Counts(s, n), Counts(t, n + Len(s))
    PROVE  Counts(u, n)
 <2> SUFFICES ASSUME NEW k \in 1..Len(u) PROVE u[k] = n + k BY DEF Counts
 <2>1. k \in DOMAIN u BY <1>1, <1>2 DEF u
 <2>2. CASE k \in 1..Len(s) /\ u[k] = s[k] BY <1>8, <2>2 DEF Counts
 <2>3. CASE k - Len(s) \in 1..Len(t) /\ u[k] = t[k - Len(s)]
  <3>1. t[k - Len(s)] = (n + Len(s)) + (k - Len(s)) BY <1>8, <2>3 DEF Counts
  <3> QED BY <1>2, <2>3, <3>1
 <2> QED BY <1>5, <2>1, <2>2, <2>3
<1> QED BY <1>1, <1>6, <1>7, <1>8 DEF u

LEMMA CountsApart ==
  ASSUME NEW s \in Seq(Nat), NEW n \in Nat, Counts(s, n) PROVE IsInjective(s)
<1> SUFFICES ASSUME NEW a \in DOMAIN s, NEW b \in DOMAIN s, s[a] = s[b] PROVE a = b
 BY DEF IsInjective
<1>1. a \in 1..Len(s) /\ b \in 1..Len(s) /\ Len(s) \in Nat BY TextIs
<1>2. s[a] = n + a /\ s[b] = n + b BY <1>1 DEF Counts
<1>3. a \in Nat /\ b \in Nat BY <1>1
<1>4. n + a = n + b BY <1>2
<1> QED BY <1>3, <1>4

(* Text that shows every chunk once is as long as what was said.            *)
LEMMA AllShown ==
  ASSUME NEW s \in Seq(Nat), IsInjective(s), NEW n \in Nat, Range(s) = 1..n PROVE Len(s) = n
<1>1. Len(s) \in Nat /\ DOMAIN s = 1..Len(s) BY TextIs
<1>2. s \in [1..Len(s) -> 1..n]
 <2>1. s = [k \in 1..Len(s) |-> s[k]] BY <1>1
 <2>2. \A k \in 1..Len(s) : s[k] \in 1..n BY TextIs
 <2> QED BY <2>1, <2>2
<1>3. s \in Bijection(1..Len(s), 1..n)
 BY <1>1, <1>2, TextIs DEF Bijection, Injection, Surjection, IsInjective
<1>4. ExistsBijection(1..Len(s), 1..n) BY <1>3 DEF ExistsBijection
<1>5. Cardinality(1..n) = Len(s) BY <1>1, <1>4, FS_CountingElements
<1>6. Cardinality(1..n) = n BY FS_Interval
<1> QED BY <1>5, <1>6

LEMMA FromTheStart ==
  ASSUME NEW s \in Seq(Nat), NEW n \in Nat, Counts(s, 0), Range(s) \subseteq 1..n
  PROVE IsPrefix(s, [k \in 1..n |-> k])
<1> DEFINE whole == [k \in 1..n |-> k]
<1>1. Len(s) \in Nat /\ \A k \in 1..Len(s) : s[k] = k BY TextIs DEF Counts
<1>2. Len(s) <= n
 <2>1. CASE Len(s) = 0 BY <2>1
 <2>2. CASE Len(s) # 0
  <3>1. Len(s) \in 1..Len(s) BY <1>1, <2>2
  <3>2. s[Len(s)] \in 1..n /\ s[Len(s)] = Len(s) BY <1>1, <3>1, TextIs
  <3> QED BY <3>2
 <2> QED BY <2>1, <2>2
<1>3. whole \in Seq(Nat) /\ Len(whole) = n
 <2>1. whole \in [1..n -> Nat] OBVIOUS
 <2>2. whole \in Seq(Nat) BY <2>1, FunctionIsSeq
 <2> QED BY <2>2, LenProperties
<1> HIDE DEF whole
<1>4. SubSeq(s, 1, Len(s)) = SubSeq(whole, 1, Len(s))
 <2>1. \A k \in 1..Len(s) : s[k] = whole[k] BY <1>1, <1>2 DEF whole
 <2>2. /\ SubSeq(s, 1, Len(s)) = [k \in 1..Len(s) |-> s[1 + k - 1]]
       /\ SubSeq(whole, 1, Len(s)) = [k \in 1..Len(s) |-> whole[1 + k - 1]]
  BY <1>1
 <2> QED BY <1>1, <2>1, <2>2
<1> QED BY <1>2, <1>3, <1>4 DEF IsPrefix, whole

--------------------
(* The messages of a thread: no two of the same identifier.                 *)
\* What projectEvent keeps of a message.
MessageFields == {"id", "role", "turn", "text", "streaming", "at"}

\* Messages of different identifiers, each with a text.
Ledger(ms) ==
    /\ IsSeq(ms)
    /\ \A i, j \in DOMAIN ms : ms[i].id = ms[j].id => i = j
    /\ \A x \in Range(ms) : DOMAIN x = MessageFields /\ x.text \in Seq(Nat)

\* Their identifiers.
Ids(ms) == {x.id : x \in Range(ms)}

LEMMA EmptyLedger == Ledger(<< >>) /\ Ids(<< >>) = {} /\ \A m : Shown(<< >>, m) = << >>
BY EmptyIs DEF Ledger, Ids, Shown

LEMMA ShownIs ==
  ASSUME NEW ms, Ledger(ms)
  PROVE /\ \A i \in DOMAIN ms : ms[i].id \in Ids(ms) /\ Shown(ms, ms[i].id) = ms[i].text
        /\ \A m : m \notin Ids(ms) => Shown(ms, m) = << >>
        /\ \A m : Shown(ms, m) \in Seq(Nat)
        /\ \A x \in Range(ms) : x.id \in Ids(ms)
<1>1. ASSUME NEW i \in DOMAIN ms
    PROVE  ms[i].id \in Ids(ms) /\ Shown(ms, ms[i].id) = ms[i].text
 <2>1. ms[i] \in Range(ms) BY DEF Range
 <2>2. {x \in Range(ms) : x.id = ms[i].id} = {ms[i]} BY <2>1 DEF Ledger, Range
 <2> QED BY <2>1, <2>2 DEF Shown, Ids
<1>2. ASSUME NEW m, m \notin Ids(ms)
    PROVE  Shown(ms, m) = << >>
 BY <1>2 DEF Shown, Ids
<1>3. ASSUME NEW m
    PROVE  Shown(ms, m) \in Seq(Nat)
 <2>1. CASE m \in Ids(ms)
  <3>1. PICK i \in DOMAIN ms : m = ms[i].id BY <2>1 DEF Ids, Range
  <3>2. ms[i] \in Range(ms) BY DEF Range
  <3> QED BY <1>1, <3>1, <3>2 DEF Ledger
 <2>2. CASE m \notin Ids(ms) BY <1>2, <2>2, NoText
 <2> QED BY <2>1, <2>2
<1> QED BY <1>1, <1>2, <1>3 DEF Ids

\* What a message of m makes of the ledger.
Sent(ms, next, m, text, streaming) ==
    /\ Ledger(next)
    /\ Ids(next) = Ids(ms) \cup {m}
    /\ Shown(next, m) = IF streaming THEN Shown(ms, m) \o text
                        ELSE IF text # << >> THEN text ELSE Shown(ms, m)
    /\ \A other : other # m => Shown(next, other) = Shown(ms, other)
    /\ \A x \in Range(next) : \/ x.id = m /\ x.streaming = streaming
                              \/ x.id # m /\ x \in Range(ms)

LEMMA LedgerIsShort ==
  ASSUME NEW ms, Ledger(ms), NEW A, IsFiniteSet(A), Ids(ms) \subseteq A
  PROVE Len(ms) \in Nat /\ Len(ms) <= Cardinality(A)
<1>1. Len(ms) \in Nat /\ DOMAIN ms = 1..Len(ms) BY LenProperties DEF Ledger, IsSeq
<1> DEFINE id == [i \in 1..Len(ms) |-> ms[i].id]
<1>2. id \in Injection(1..Len(ms), A)
 <2>1. \A i \in 1..Len(ms) : ms[i].id \in A BY <1>1, ShownIs
 <2>2. id \in [1..Len(ms) -> A] BY <2>1
 <2>3. \A i, j \in 1..Len(ms) : id[i] = id[j] => i = j BY <1>1 DEF Ledger
 <2> QED BY <2>2, <2>3 DEF Injection, IsInjective
<1>3. Cardinality(1..Len(ms)) = Len(ms)
 <2>1. \A n \in Nat : Cardinality(1..n) = n BY FS_Interval
 <2> QED BY <1>1, <2>1
<1>4. Cardinality(1..Len(ms)) <= Cardinality(A) BY <1>2, FS_Injection
<1> QED BY <1>1, <1>3, <1>4

LEMMA Merged ==
  ASSUME NEW old, DOMAIN old = MessageFields, NEW new
  PROVE LET x == MergeMessage(old, new)
        IN  /\ DOMAIN x = MessageFields /\ x.id = old.id /\ x.streaming = new.streaming
            /\ x.text = IF new.streaming THEN old.text \o new.text
                        ELSE IF new.text # << >> THEN new.text ELSE old.text
BY DEF MergeMessage, MessageFields

LEMMA SendIs ==
  ASSUME NEW t, Ledger(t.messages), "messages" \in DOMAIN t,
    NEW data, data.text \in Seq(Nat),
    NEW A, IsFiniteSet(A), Cardinality(A) <= MaxMessages, MaxMessages \in Nat,
    Ids(t.messages) \cup {data.message} \subseteq A
  PROVE Sent(t.messages, SendMessage(t, data).messages, data.message, data.text, data.streaming)
<1> DEFINE ms == t.messages
           m == data.message
           new == [id |-> m, role |-> data.role, turn |-> data.turn,
                   text |-> data.text, streaming |-> data.streaming, at |-> data.at]
           known == \E i \in DOMAIN ms : ms[i].id = m
           merged == [i \in DOMAIN ms |-> IF ms[i].id = m THEN MergeMessage(ms[i], new) ELSE ms[i]]
           next == IF known THEN merged ELSE Append(ms, new)
<1>1. SendMessage(t, data).messages = LastN(next, MaxMessages)
 <2>1. SendMessage(t, data) = [t EXCEPT !.messages = LastN(next, MaxMessages)] BY DEF SendMessage
 <2> QED BY <2>1
<1>2. /\ DOMAIN new = MessageFields /\ new.id = m /\ new.text = data.text
      /\ new.streaming = data.streaming
 BY DEF MessageFields
<1>3. Len(ms) \in Nat /\ DOMAIN ms = 1..Len(ms) /\ ms \in Seq(Range(ms))
 BY LenProperties DEF Ledger, IsSeq
<1> HIDE DEF new, ms
<1>4. Sent(ms, next, m, data.text, data.streaming)
 <2>1. CASE known
  <3>1. PICK i \in DOMAIN ms : ms[i].id = m BY <2>1
  <3> DEFINE x == MergeMessage(ms[i], new)
  <3>2. \A j \in DOMAIN ms : ms[j].id = m <=> j = i BY <3>1 DEF Ledger, ms
  <3>3. \A j \in DOMAIN ms : ms[j] \in Range(ms) /\ DOMAIN ms[j] = MessageFields
                             /\ ms[j].text \in Seq(Nat)
   BY DEF Ledger, ms, Range
  <3>4. /\ DOMAIN x = MessageFields /\ x.id = m /\ x.streaming = data.streaming
        /\ x.text = IF data.streaming THEN ms[i].text \o data.text
                    ELSE IF data.text # << >> THEN data.text ELSE ms[i].text
   <4>1. DOMAIN ms[i] = MessageFields BY <3>3
   <4> DEFINE old == ms[i]
   <4> HIDE DEF old
   <4>2. LET y == MergeMessage(old, new)
         IN  /\ DOMAIN y = MessageFields /\ y.id = old.id /\ y.streaming = new.streaming
             /\ y.text = IF new.streaming THEN old.text \o new.text
                         ELSE IF new.text # << >> THEN new.text ELSE old.text
    BY <4>1, Merged DEF old
   <4> QED BY <1>2, <3>1, <4>2 DEF old
  <3>5. x.text \in Seq(Nat) BY <3>3, <3>4, Joined
  <3>6. next = [j \in DOMAIN ms |-> IF j = i THEN x ELSE ms[j]] BY <2>1, <3>2
  <3> HIDE DEF x, next
  <3>7. /\ DOMAIN next = DOMAIN ms /\ next[i] = x
        /\ \A j \in DOMAIN ms : j # i => next[j] = ms[j]
   BY <3>6
  <3>8. \A j \in DOMAIN ms : next[j].id = ms[j].id BY <3>1, <3>4, <3>7
  <3>9. IsSeq(next)
   <4>1. \A j \in 1..Len(ms) : next[j] \in Range(next) BY <1>3, <3>7 DEF Range
   <4>2. next \in [1..Len(ms) -> Range(next)] BY <1>3, <3>6, <4>1
   <4> QED BY <1>3, <4>2, FunctionIsSeq DEF IsSeq
  <3>10. Ledger(next)
   <4>1. \A a, b \in DOMAIN next : next[a].id = next[b].id => a = b BY <3>7, <3>8 DEF Ledger, ms
   <4>2. \A y \in Range(next) : DOMAIN y = MessageFields /\ y.text \in Seq(Nat)
    BY <3>3, <3>4, <3>5, <3>7 DEF Range
   <4> QED BY <3>9, <4>1, <4>2 DEF Ledger
  <3>11. Ids(next) = Ids(ms) \cup {m}
   <4>1. Ids(next) = {next[j].id : j \in DOMAIN ms} BY <3>7 DEF Ids, Range
   <4>2. Ids(ms) = {ms[j].id : j \in DOMAIN ms} BY DEF Ids, Range
   <4> QED BY <3>1, <3>8, <4>1, <4>2
  <3>12. Shown(ms, m) = ms[i].text /\ Shown(next, m) = x.text
   <4>1. Shown(ms, ms[i].id) = ms[i].text BY ShownIs DEF ms
   <4>2. Shown(next, next[i].id) = next[i].text BY <3>7, <3>10, ShownIs
   <4> QED BY <3>1, <3>4, <3>7, <4>1, <4>2
  <3>13. ASSUME NEW other, other # m PROVE Shown(next, other) = Shown(ms, other)
   <4>1. CASE other \in Ids(ms)
    <5>1. PICK j \in DOMAIN ms : other = ms[j].id BY <4>1 DEF Ids, Range
    <5>2. j # i /\ next[j] = ms[j] BY <3>1, <3>7, <3>13, <5>1
    <5>3. Shown(ms, ms[j].id) = ms[j].text BY ShownIs DEF ms
    <5>4. Shown(next, next[j].id) = next[j].text BY <3>7, <3>10, ShownIs
    <5> QED BY <5>1, <5>2, <5>3, <5>4
   <4>2. CASE other \notin Ids(ms)
    <5>1. Shown(ms, other) = << >> /\ Shown(next, other) = << >>
     BY <3>10, <3>11, <3>13, <4>2, ShownIs DEF ms
    <5> QED BY <5>1
   <4> QED BY <4>1, <4>2
  <3>14. \A y \in Range(next) : \/ y.id = m /\ y.streaming = data.streaming
                                \/ y.id # m /\ y \in Range(ms)
   <4> SUFFICES ASSUME NEW j \in DOMAIN ms
       PROVE  \/ next[j].id = m /\ next[j].streaming = data.streaming
              \/ next[j].id # m /\ next[j] \in Range(ms)
    BY <3>7 DEF Range
   <4> QED BY <3>2, <3>3, <3>4, <3>7
  <3> QED BY <3>4, <3>10, <3>11, <3>12, <3>13, <3>14 DEF Sent
 <2>2. CASE ~known
  <3>1. next = Append(ms, new) BY <2>2
  <3>2. \A j \in DOMAIN ms : ms[j].id # m BY <2>2
  <3> HIDE DEF next
  <3>3. IsSeq(next) /\ Range(next) = Range(ms) \cup {new} BY <3>1, AppendIs DEF Ledger, ms
  <3>4. /\ Len(next) = Len(ms) + 1 /\ next[Len(ms) + 1] = new
        /\ \A j \in 1..Len(ms) : next[j] = ms[j]
   <4>1. ms \in Seq(Range(ms) \cup {new})
    BY <1>3, SeqMonotonic, Range(ms) \subseteq Range(ms) \cup {new}
   <4> QED BY <3>1, <4>1, AppendProperties
  <3>5. DOMAIN next = 1..(Len(ms) + 1) BY <3>3, <3>4, LenProperties DEF IsSeq
  <3>6. m \notin Ids(ms) BY <3>2 DEF Ids, Range
  <3>7. Ledger(next)
   <4>1. ASSUME NEW a \in DOMAIN next, NEW b \in DOMAIN next, next[a].id = next[b].id
       PROVE  a = b
    <5>1. CASE a \in 1..Len(ms) /\ b \in 1..Len(ms) BY <1>3, <3>4, <4>1, <5>1 DEF Ledger, ms
    <5>2. CASE a = Len(ms) + 1 /\ b \in 1..Len(ms) BY <1>2, <1>3, <3>2, <3>4, <4>1, <5>2
    <5>3. CASE b = Len(ms) + 1 /\ a \in 1..Len(ms) BY <1>2, <1>3, <3>2, <3>4, <4>1, <5>3
    <5> QED BY <1>3, <3>5, <5>1, <5>2, <5>3
   <4>2. \A y \in Range(next) : DOMAIN y = MessageFields /\ y.text \in Seq(Nat)
    BY <1>2, <3>3 DEF Ledger, ms
   <4> QED BY <3>3, <4>1, <4>2 DEF Ledger
  <3>8. Ids(next) = Ids(ms) \cup {m} BY <1>2, <3>3 DEF Ids
  <3>9. Shown(ms, m) = << >> /\ Shown(next, m) = data.text
   <4>1. Shown(ms, m) = << >> BY <3>6, ShownIs DEF ms
   <4>2. Len(ms) + 1 \in DOMAIN next BY <1>3, <3>5
   <4>3. Shown(next, next[Len(ms) + 1].id) = next[Len(ms) + 1].text BY <3>7, <4>2, ShownIs
   <4> QED BY <1>2, <3>4, <4>1, <4>3
  <3>10. ASSUME NEW other, other # m PROVE Shown(next, other) = Shown(ms, other)
   <4>1. CASE other \in Ids(ms)
    <5>1. PICK j \in DOMAIN ms : other = ms[j].id BY <4>1 DEF Ids, Range
    <5>2. j \in DOMAIN next /\ next[j] = ms[j] BY <1>3, <3>4, <3>5, <5>1
    <5>3. Shown(ms, ms[j].id) = ms[j].text BY ShownIs DEF ms
    <5>4. Shown(next, next[j].id) = next[j].text BY <3>7, <5>2, ShownIs
    <5> QED BY <5>1, <5>2, <5>3, <5>4
   <4>2. CASE other \notin Ids(ms)
    <5>1. Shown(ms, other) = << >> /\ Shown(next, other) = << >>
     BY <3>7, <3>8, <3>10, <4>2, ShownIs DEF ms
    <5> QED BY <5>1
   <4> QED BY <4>1, <4>2
  <3>11. \A y \in Range(next) : \/ y.id = m /\ y.streaming = data.streaming
                                \/ y.id # m /\ y \in Range(ms)
   BY <1>2, <3>2, <3>3 DEF Range
  <3>12. << >> \o data.text = data.text BY ConcatEmptySeq
  <3>13. Shown(next, m) = IF data.streaming THEN Shown(ms, m) \o data.text
                          ELSE IF data.text # << >> THEN data.text ELSE Shown(ms, m)
   BY <3>9, <3>12
  <3> QED BY <3>7, <3>8, <3>10, <3>11, <3>13 DEF Sent
 <2> QED BY <2>1, <2>2
<1> HIDE DEF next
<1>5. Len(next) <= MaxMessages
 <2>1. Ledger(next) /\ Ids(next) \subseteq A BY <1>4 DEF Sent, ms
 <2>2. Cardinality(A) \in Nat BY FS_CardinalityType
 <2> QED BY <2>1, <2>2, LedgerIsShort
<1>6. LastN(next, MaxMessages) = next BY <1>5 DEF LastN
<1> QED BY <1>1, <1>4, <1>6 DEF ms

--------------------
(* What the operators of ingestion make of messages, buffers and of what    *)
(* they remember.                                                           *)
\* The three maps and references of ingestion.
IngestFields == {"mode", "buffered", "remembered"}

\* Messages that a thread has room for.
Roomy(A) == IsFiniteSet(A) /\ MaxMessages \in Nat /\ Cardinality(A) <= MaxMessages

\* A state of a handler of ingestion whose messages are among A.
Stored(st, A) ==
    /\ Held(st) /\ DOMAIN st.ingest = IngestFields
    /\ Ledger(st.thread.messages) /\ Ids(st.thread.messages) \subseteq A
    /\ \A m \in DOMAIN st.ingest.buffered : st.ingest.buffered[m] \in Seq(Nat)

LEMMA BufferedIs ==
  ASSUME NEW A, NEW st, Stored(st, A), NEW m PROVE Buffered(st, m) \in Seq(Nat)
BY NoText DEF Stored, Buffered

LEMMA DispatchIs ==
  ASSUME NEW A, Roomy(A), NEW st, Stored(st, A), NEW m \in A, NEW text \in Seq(Nat),
    NEW streaming, NEW next, next = Dispatch(st, m, text, streaming)
  PROVE /\ Stored(next, A) /\ next.ingest = st.ingest
        /\ next.thread.status = st.thread.status
        /\ Sent(st.thread.messages, next.thread.messages, m, text, streaming)
<1> DEFINE data == [message |-> m, role |-> "assistant", turn |-> m[1],
                    text |-> text, streaming |-> streaming, at |-> 0]
           new == SendMessage(st.thread, data)
<1>1. data.message = m /\ data.text = text /\ data.streaming = streaming OBVIOUS
<1>2. next = [st EXCEPT !.thread = new] BY DEF Dispatch
<1>3. PICK messages : new = [st.thread EXCEPT !.messages = messages] BY DEF SendMessage
<1>4. Held(st) /\ DOMAIN st.thread = ThreadFields /\ "messages" \in DOMAIN st.thread
 BY DEF Stored, Held, ThreadFields
<1>5. Sent(st.thread.messages, new.messages, m, text, streaming)
 <2> HIDE DEF data
 <2>1. Ids(st.thread.messages) \cup {data.message} \subseteq A /\ Ledger(st.thread.messages)
  BY <1>1 DEF Stored
 <2>2. Sent(st.thread.messages, new.messages, data.message, data.text, data.streaming)
  BY <1>1, <1>4, <2>1, SendIs DEF Roomy
 <2> QED BY <1>1, <2>2
<1>6. DOMAIN new = ThreadFields /\ new.status = st.thread.status BY <1>3, <1>4 DEF ThreadFields
<1> HIDE DEF new
<1>7. /\ next.thread = new /\ next.ingest = st.ingest /\ DOMAIN next = {"thread", "ingest"}
 BY <1>2, <1>4 DEF Held
<1>8. Stored(next, A)
 <2>1. Ledger(new.messages) /\ Ids(new.messages) \subseteq A BY <1>5 DEF Sent, Stored
 <2> QED BY <1>6, <1>7, <2>1 DEF Stored, Held
<1> QED BY <1>5, <1>6, <1>7, <1>8

LEMMA ClearIs ==
  ASSUME NEW A, NEW st, Stored(st, A), NEW m, NEW next, next = Clear(st, m)
  PROVE /\ Stored(next, A) /\ next.thread = st.thread
        /\ next.ingest.mode = st.ingest.mode
        /\ next.ingest.remembered = st.ingest.remembered
        /\ DOMAIN next.ingest.buffered = DOMAIN st.ingest.buffered \ {m}
        /\ \A n \in DOMAIN next.ingest.buffered :
              next.ingest.buffered[n] = st.ingest.buffered[n]
<1> DEFINE rest == Restrict(st.ingest.buffered, DOMAIN st.ingest.buffered \ {m})
<1>1. next = [st EXCEPT !.ingest = [st.ingest EXCEPT !.buffered = rest]] BY DEF Clear
<1>2. /\ DOMAIN rest = DOMAIN st.ingest.buffered \ {m}
      /\ \A n \in DOMAIN rest : rest[n] = st.ingest.buffered[n]
 BY DEF Restrict
<1> HIDE DEF rest
<1>3. /\ next.thread = st.thread /\ DOMAIN next = {"thread", "ingest"}
      /\ DOMAIN next.ingest = IngestFields /\ next.ingest.buffered = rest
      /\ next.ingest.mode = st.ingest.mode /\ next.ingest.remembered = st.ingest.remembered
 BY <1>1 DEF Stored, Held, IngestFields
<1>4. Stored(next, A) BY <1>2, <1>3 DEF Stored, Held
<1> QED BY <1>2, <1>3, <1>4

\* What is remembered of the turn is replaced.
Remembers(st, next, turn, messages) ==
    /\ next.thread = st.thread
    /\ next.ingest.mode = st.ingest.mode /\ next.ingest.buffered = st.ingest.buffered
    /\ messages = {} => DOMAIN next.ingest.remembered = DOMAIN st.ingest.remembered \ {turn}
    /\ messages # {} =>
          DOMAIN next.ingest.remembered = DOMAIN st.ingest.remembered \cup {turn}
    /\ turn \in DOMAIN next.ingest.remembered => next.ingest.remembered[turn] = messages
    /\ \A t \in DOMAIN next.ingest.remembered \ {turn} :
          next.ingest.remembered[t] = st.ingest.remembered[t]

LEMMA RememberAsIs ==
  ASSUME NEW A, NEW st, Stored(st, A), NEW turn, NEW messages,
    NEW next, next = RememberAs(st, turn, messages)
  PROVE Stored(next, A) /\ Remembers(st, next, turn, messages)
<1> DEFINE old == st.ingest.remembered
           new == IF messages = {} THEN Restrict(old, DOMAIN old \ {turn})
                  ELSE Put(old, turn, messages)
<1>1. next = [st EXCEPT !.ingest = [st.ingest EXCEPT !.remembered = new]] BY DEF RememberAs
<1>2. /\ DOMAIN new = IF messages = {} THEN DOMAIN old \ {turn} ELSE DOMAIN old \cup {turn}
      /\ turn \in DOMAIN new => new[turn] = messages
      /\ \A t \in DOMAIN new \ {turn} : new[t] = old[t]
 <2>1. CASE messages = {} BY <2>1 DEF Restrict
 <2>2. CASE messages # {} BY <2>2 DEF Put
 <2> QED BY <2>1, <2>2
<1> HIDE DEF new
<1>3. /\ next.thread = st.thread /\ DOMAIN next = {"thread", "ingest"}
      /\ DOMAIN next.ingest = IngestFields /\ next.ingest.remembered = new
      /\ next.ingest.mode = st.ingest.mode /\ next.ingest.buffered = st.ingest.buffered
 BY <1>1 DEF Stored, Held, IngestFields
<1>4. Stored(next, A) BY <1>3 DEF Stored, Held
<1> QED BY <1>2, <1>3, <1>4 DEF Remembers

\* Finalized messages M show what was buffered of them and stream no more.
Finalized(st, next, M) ==
    /\ next.ingest.mode = st.ingest.mode /\ next.ingest.remembered = st.ingest.remembered
    /\ next.thread.status = st.thread.status
    /\ DOMAIN next.ingest.buffered = DOMAIN st.ingest.buffered \ M
    /\ \A n \in DOMAIN next.ingest.buffered : next.ingest.buffered[n] = st.ingest.buffered[n]
    /\ Ids(next.thread.messages) = Ids(st.thread.messages) \cup M
    /\ \A n : n \notin M => Shown(next.thread.messages, n) = Shown(st.thread.messages, n)
    /\ \A x \in Range(next.thread.messages) :
          \/ x.id \in M /\ ~x.streaming
          \/ x.id \notin M /\ x \in Range(st.thread.messages)

\* Message m gets text at its end.
Adds(st, next, m, text) ==
    Shown(next.thread.messages, m) = Shown(st.thread.messages, m) \o text

LEMMA FinalizeIs ==
  ASSUME NEW A, Roomy(A), NEW st, Stored(st, A), NEW m \in A, NEW fallback \in Seq(Nat),
    NEW next, next = Finalize(st, m, fallback),
    NEW text, Buffered(st, m) # << >> => text = Buffered(st, m),
    Buffered(st, m) = << >> => text = fallback
  PROVE /\ Stored(next, A) /\ Finalized(st, next, {m})
        /\ Adds(st, next, m, text)
<1> DEFINE cleared == Clear(st, m)
           last == IF text = << >> THEN cleared ELSE Dispatch(cleared, m, text, TRUE)
<1>1. next = Dispatch(last, m, << >>, FALSE) BY DEF Finalize
<1>2. text \in Seq(Nat) BY BufferedIs
<1>3. /\ Stored(cleared, A) /\ cleared.thread = st.thread
      /\ cleared.ingest.mode = st.ingest.mode
      /\ cleared.ingest.remembered = st.ingest.remembered
      /\ DOMAIN cleared.ingest.buffered = DOMAIN st.ingest.buffered \ {m}
      /\ \A n \in DOMAIN cleared.ingest.buffered :
            cleared.ingest.buffered[n] = st.ingest.buffered[n]
 BY ClearIs
<1> HIDE DEF cleared
<1>4. /\ Stored(last, A) /\ last.ingest = cleared.ingest
      /\ last.thread.status = st.thread.status
      /\ Ids(last.thread.messages) \cup {m} = Ids(st.thread.messages) \cup {m}
      /\ Shown(last.thread.messages, m) = Shown(st.thread.messages, m) \o text
      /\ \A n : n # m => Shown(last.thread.messages, n) = Shown(st.thread.messages, n)
      /\ \A x \in Range(last.thread.messages) : x.id = m \/ x \in Range(st.thread.messages)
 <2>1. CASE text = << >>
  <3>1. Shown(st.thread.messages, m) \in Seq(Nat) BY ShownIs DEF Stored
  <3>2. Shown(st.thread.messages, m) \o << >> = Shown(st.thread.messages, m)
   BY <3>1, ConcatEmptySeq
  <3> QED BY <1>3, <2>1, <3>2
 <2>2. CASE text # << >>
  <3>1. last = Dispatch(cleared, m, text, TRUE) BY <2>2
  <3> HIDE DEF last
  <3>2. Stored(cleared, A) BY <1>3
  <3>3. \A words \in Seq(Nat) : \A x : x = Dispatch(cleared, m, words, TRUE) =>
           /\ Stored(x, A) /\ x.ingest = cleared.ingest
           /\ x.thread.status = cleared.thread.status
           /\ Sent(cleared.thread.messages, x.thread.messages, m, words, TRUE)
   BY <3>2, DispatchIs
  <3>4. /\ Stored(last, A) /\ last.ingest = cleared.ingest
        /\ last.thread.status = cleared.thread.status
        /\ Sent(cleared.thread.messages, last.thread.messages, m, text, TRUE)
   BY <1>2, <3>1, <3>3
  <3> QED BY <1>3, <3>4 DEF Sent
 <2> QED BY <2>1, <2>2
<1> HIDE DEF last
<1>5. /\ Stored(next, A) /\ next.ingest = last.ingest
      /\ next.thread.status = last.thread.status
      /\ Sent(last.thread.messages, next.thread.messages, m, << >>, FALSE)
 BY <1>1, <1>4, NoText, DispatchIs
<1>6. Finalized(st, next, {m})
 <2>1. \A x \in Range(next.thread.messages) :
          \/ x.id \in {m} /\ ~x.streaming
          \/ x.id \notin {m} /\ x \in Range(st.thread.messages)
  BY <1>4, <1>5 DEF Sent
 <2>2. Ids(next.thread.messages) = Ids(st.thread.messages) \cup {m} BY <1>4, <1>5 DEF Sent
 <2> QED BY <1>3, <1>4, <1>5, <2>1, <2>2 DEF Finalized, Sent
<1>7. Shown(next.thread.messages, m) = Shown(st.thread.messages, m) \o text BY <1>4, <1>5 DEF Sent
<1> QED BY <1>5, <1>6, <1>7 DEF Adds

LEMMA FinalizeBufferedIs ==
  ASSUME NEW A, Roomy(A), NEW st, Stored(st, A), NEW m \in A,
    NEW next, next = Finalize(st, m, << >>)
  PROVE /\ Stored(next, A) /\ Finalized(st, next, {m})
        /\ Adds(st, next, m, Buffered(st, m))
<1>1. << >> \in Seq(Nat) BY NoText
<1> QED BY <1>1, FinalizeIs

--------------------
(* The end of a turn finalizes its messages, one after the other.           *)
Finalizing(f, st, U) ==
    f = [s \in U |-> IF s = {} THEN st
                     ELSE LET m == CHOOSE m \in s : TRUE
                          IN  Finalize(f[s \ {m}], m, << >>)]

LEMMA FinalizingExists ==
  ASSUME NEW st, NEW M, IsFiniteSet(M) PROVE \E f : Finalizing(f, st, SUBSET M)
<1> DEFINE U(n) == {s \in SUBSET M : Cardinality(s) <= n}
           S == {n \in Nat : \E f : Finalizing(f, st, U(n))}
<1>1. \A s \in SUBSET M : IsFiniteSet(s) /\ Cardinality(s) \in Nat
 BY FS_Subset, FS_CardinalityType
<1>2. 0 \in S
 <2>1. \A s \in U(0) : s = {} BY <1>1, FS_EmptySet
 <2> DEFINE f == [s \in U(0) |-> st]
 <2>2. Finalizing(f, st, U(0)) BY <2>1 DEF Finalizing
 <2> QED BY <2>2
<1>3. ASSUME NEW n \in Nat, NEW f, Finalizing(f, st, U(n))
    PROVE  n + 1 \in S
 <2> DEFINE Value(g, s) == IF s = {} THEN st
                           ELSE LET m == CHOOSE m \in s : TRUE
                                IN  Finalize(g[s \ {m}], m, << >>)
            next == [s \in U(n + 1) |-> IF s \in U(n) THEN f[s] ELSE Value(f, s)]
 <2>1. U(n) \subseteq U(n + 1) BY <1>1
 <2>2. \A s \in U(n) : f[s] = Value(f, s) /\ next[s] = f[s] BY <1>3, <2>1 DEF Finalizing
 <2>3. \A s \in U(n + 1) : next[s] = Value(f, s) BY <2>2
 <2>4. next = [s \in U(n + 1) |-> next[s]] OBVIOUS
 <2> HIDE DEF next
 <2>5. ASSUME NEW s \in U(n + 1) PROVE Value(next, s) = Value(f, s)
  <3>1. CASE s # {}
   <4> DEFINE m == CHOOSE m \in s : TRUE
   <4>1. m \in s BY <3>1
   <4> HIDE DEF m
   <4>2. Cardinality(s \ {m}) = Cardinality(s) - 1 BY <1>1, <4>1, FS_RemoveElement
   <4>3. s \ {m} \in U(n) BY <1>1, <4>2
   <4>4. next[s \ {m}] = f[s \ {m}] BY <2>2, <4>3
   <4> QED BY <3>1, <4>4 DEF m
  <3> QED BY <3>1
 <2>6. next = [s \in U(n + 1) |-> Value(next, s)]
  <3> HIDE DEF Value, U
  <3> QED BY <2>3, <2>4, <2>5
 <2>7. Finalizing(next, st, U(n + 1)) BY <2>6 DEF Finalizing
 <2> HIDE DEF U
 <2>8. n + 1 \in Nat OBVIOUS
 <2>9. \E g : Finalizing(g, st, U(n + 1)) BY <2>7
 <2> QED BY <2>8, <2>9
<1>4. Nat \subseteq S
 <2>1. \A n \in Nat : n \in S => n + 1 \in S BY <1>3
 <2> HIDE DEF S
 <2> QED BY <1>2, <2>1, SetInduction
<1>5. Cardinality(M) \in S BY <1>1, <1>4
<1>6. U(Cardinality(M)) = SUBSET M BY FS_Subset
<1> QED BY <1>5, <1>6

LEMMA FinalizeTurnIs ==
  ASSUME NEW A, Roomy(A), NEW st, Stored(st, A), NEW turn,
    NEW M \in SUBSET A, M = Remembered(st, turn),
    NEW next, next = FinalizeTurn(st, turn)
  PROVE /\ Stored(next, A) /\ Finalized(st, next, M)
        /\ \A m \in M : Shown(next.thread.messages, m) =
                           Shown(st.thread.messages, m) \o Buffered(st, m)
<1> DEFINE f == CHOOSE f : Finalizing(f, st, SUBSET M)
           Done(s) == /\ Stored(f[s], A) /\ Finalized(st, f[s], s)
                      /\ \A m \in s : Shown(f[s].thread.messages, m) =
                                         Shown(st.thread.messages, m) \o Buffered(st, m)
           S == {n \in Nat : \A s \in SUBSET M : Cardinality(s) = n => Done(s)}
<1>1. next = f[M] BY DEF FinalizeTurn, FoldSet, MapThenFoldSet, Finalizing
<1>2. IsFiniteSet(M) BY FS_Subset DEF Roomy
<1>3. Finalizing(f, st, SUBSET M) BY <1>2, FinalizingExists
<1> HIDE DEF f
<1>4. /\ f[{}] = st
      /\ \A s \in SUBSET M : s # {} =>
            \E m \in s : f[s] = Finalize(f[s \ {m}], m, << >>)
 <2>1. \A s \in SUBSET M : f[s] = IF s = {} THEN st
                                  ELSE LET m == CHOOSE m \in s : TRUE
                                       IN  Finalize(f[s \ {m}], m, << >>)
  BY <1>3 DEF Finalizing
 <2>2. ASSUME NEW s \in SUBSET M, s # {}
     PROVE  \E m \in s : f[s] = Finalize(f[s \ {m}], m, << >>)
  <3> DEFINE m == CHOOSE m \in s : TRUE
  <3>1. m \in s BY <2>2
  <3>2. f[s] = Finalize(f[s \ {m}], m, << >>) BY <2>1, <2>2
  <3> QED BY <3>1, <3>2
 <2> QED BY <2>1, <2>2
<1>5. \A s \in SUBSET M : IsFiniteSet(s) /\ Cardinality(s) \in Nat
 BY <1>2, FS_Subset, FS_CardinalityType
<1>6. Done({})
 <2>1. Finalized(st, st, {}) BY ShownIs DEF Finalized, Stored, Ids
 <2> QED BY <1>4, <2>1
<1>7. 0 \in S BY <1>5, <1>6, FS_EmptySet
<1>8. ASSUME NEW n \in Nat, n \in S PROVE n + 1 \in S
 <2> SUFFICES ASSUME NEW s \in SUBSET M, Cardinality(s) = n + 1 PROVE Done(s) OBVIOUS
 <2>1. s # {} BY FS_EmptySet
 <2>2. PICK m \in s : f[s] = Finalize(f[s \ {m}], m, << >>) BY <1>4, <2>1
 <2> DEFINE before == s \ {m}
 <2>3. Cardinality(before) = n /\ before \in SUBSET M
  <3>1. IsFiniteSet(s) /\ m \in s BY <1>5
  <3>2. Cardinality(before) = Cardinality(s) - 1 BY <3>1, FS_RemoveElement
  <3> QED BY <3>2
 <2>4. Done(before) BY <1>8, <2>3
 <2>5. m \in A /\ m \notin before /\ s = before \cup {m} OBVIOUS
 <2> DEFINE x == f[before]
            after == f[s]
 <2>6. /\ Stored(x, A) /\ Finalized(st, x, before)
       /\ \A k \in before : Shown(x.thread.messages, k) =
                               Shown(st.thread.messages, k) \o Buffered(st, k)
  BY <2>4
 <2>7. after = Finalize(x, m, << >>) BY <2>2
 <2> HIDE DEF x, after, before
 <2>8. /\ Stored(after, A) /\ Finalized(x, after, {m})
       /\ Adds(x, after, m, Buffered(x, m))
  <3>1. Stored(x, A) /\ m \in A BY <2>5, <2>6
  <3> QED BY <2>7, <3>1, FinalizeBufferedIs
 <2>9. Buffered(x, m) = Buffered(st, m) BY <2>5, <2>6 DEF Finalized, Buffered
 <2>10. Shown(after.thread.messages, m) = Shown(st.thread.messages, m) \o Buffered(st, m)
  BY <2>5, <2>6, <2>8, <2>9 DEF Finalized, Adds
 <2>11. Finalized(st, after, s)
  <3>1. \A y \in Range(after.thread.messages) :
           \/ y.id \in s /\ ~y.streaming
           \/ y.id \notin s /\ y \in Range(st.thread.messages)
   BY <2>5, <2>6, <2>8 DEF Finalized
  <3>2. Ids(after.thread.messages) = Ids(st.thread.messages) \cup s
   BY <2>5, <2>6, <2>8 DEF Finalized
  <3>3. DOMAIN after.ingest.buffered = DOMAIN st.ingest.buffered \ s
        /\ \A k \in DOMAIN after.ingest.buffered :
              after.ingest.buffered[k] = st.ingest.buffered[k]
   BY <2>5, <2>6, <2>8 DEF Finalized
  <3>4. \A k : k \notin s =>
           Shown(after.thread.messages, k) = Shown(st.thread.messages, k)
   BY <2>5, <2>6, <2>8 DEF Finalized
  <3> QED BY <2>6, <2>8, <3>1, <3>2, <3>3, <3>4 DEF Finalized
 <2>12. \A k \in s : Shown(after.thread.messages, k) =
                       Shown(st.thread.messages, k) \o Buffered(st, k)
  <3> SUFFICES ASSUME NEW k \in before, k # m
      PROVE  Shown(after.thread.messages, k) = Shown(x.thread.messages, k)
   BY <2>5, <2>6, <2>10
  <3> QED BY <2>8 DEF Finalized
 <2> QED BY <2>8, <2>11, <2>12 DEF after
<1>9. Nat \subseteq S
 <2>1. \A n \in Nat : n \in S => n + 1 \in S BY <1>8
 <2> HIDE DEF S
 <2> QED BY <1>7, <2>1, SetInduction
<1>10. Done(M) BY <1>5, <1>9
<1> QED BY <1>1, <1>10

--------------------
(* The state as text sees it: a view.  A step of the program is one step or *)
(* several of its view, and the lemmas about views need not know of         *)
(* sessions, questions and intents.                                         *)
\* The events of text: of message m, of turn t, and all the others.
AboutText(e) == e.type \in {"content.delta", "item.completed"}
IsDelta(e, m) == e.type = "content.delta" /\ e.message = m
IsItem(e, m) == e.type = "item.completed" /\ e.message = m
Of(e, t) == (AboutText(e) /\ e.message[1] = t) \/ (e.type = "turn.completed" /\ e.turn = t)
Other(e) == e.type \notin {"content.delta", "item.completed", "turn.completed", "session.exited"}

\* q: the queue; turn, item, emitted: of the adapter; quiet: its agent says a
\* message at once without ending it; said: the chunks kept of it; turns: the number of
\* turns requested; starting: one of them is about to begin; messages: of the
\* thread; mode, buffered, remembered: of ingestion; completed: the history;
\* ordered: the delivery mode never changed.
View ==
    [q |-> queue, turn |-> adapter.turn, item |-> adapter.item, emitted |-> adapter.emitted,
     quiet |-> Claude, said |-> [m \in DOMAIN said |-> Kept(m)], turns |-> spent.turns,
     starting |-> \E i \in Range(intents) : i.type = "start",
     messages |-> thread.messages, mode |-> ingest.mode, buffered |-> ingest.buffered,
     remembered |-> ingest.remembered, completed |-> completed,
     ordered |-> spent.switches = 0]

\* The message in hand, and where text of a message is.
Cur(v) == <<v.turn, v.item>>
SaidIn(v, m) == IF m \in DOMAIN v.said THEN v.said[m] ELSE 0
WholeIn(v, m) == [n \in 1..SaidIn(v, m) |-> n]
ShownIn(v, m) == Shown(v.messages, m)
BufferedIn(v, m) == IF m \in DOMAIN v.buffered THEN v.buffered[m] ELSE << >>
RememberedIn(v, t) == IF t \in DOMAIN v.remembered THEN v.remembered[t] ELSE {}
DeltaIn(v, m, i) == i \in DOMAIN v.q /\ IsDelta(v.q[i], m)

\* Chunk n of m is shown, buffered or under way.
Found(v, m, n) ==
    \/ n \in Range(ShownIn(v, m)) \cup Range(BufferedIn(v, m))
    \/ \E i \in DOMAIN v.q : DeltaIn(v, m, i) /\ n \in Range(v.q[i].text)

\* Nothing of m is.
Unheard(v, m) ==
    /\ ShownIn(v, m) = << >> /\ BufferedIn(v, m) = << >>
    /\ \A i \in DOMAIN v.q : ~DeltaIn(v, m, i)

\* A turn that runs, of which there are events, or that was completed.
Alive(v, t) == v.turn = t \/ (\E i \in DOMAIN v.q : Of(v.q[i], t)) \/ t \in v.completed

\* A turn that has begun, and a message that one of them can have.
Below(v, t) == t \in Nat \ {0} /\ t <= v.turns /\ (v.starting => t < v.turns)
Plausible(v, m) ==
    /\ m = <<m[1], m[2]>> /\ Below(v, m[1]) /\ m[2] \in Nat \ {0}
    /\ m[1] = v.turn => m[2] <= v.item
    /\ m \in DOMAIN v.said \/ m[2] = 1

\* The agent runs a turn that was requested, and none while one is about to
\* start; a message of which nothing was said has no entry.
AgentTyped(v) ==
    /\ v.turn \in Nat /\ v.turns \in Nat /\ v.turn <= v.turns /\ v.item \in Nat \ {0}
    /\ v.turn = 0 => v.item = 1 /\ ~v.emitted
    /\ v.starting => v.turn = 0
    /\ \A m \in DOMAIN v.said : v.said[m] \in Nat \ {0}

\* Text is buffered of remembered messages, no more than allowed, and none of
\* it where text always streamed.
IngestTyped(v) ==
    /\ Ledger(v.messages)
    /\ \A m \in DOMAIN v.buffered :
          /\ v.buffered[m] \in Seq(Nat) /\ Len(v.buffered[m]) \in 1..MaxBuffered
          /\ m \in RememberedIn(v, m[1])
    /\ v.mode \in {"buffered", "streaming"}
    /\ v.ordered /\ v.mode = "streaming" => DOMAIN v.buffered = {}
    /\ \A t \in DOMAIN v.remembered :
          v.remembered[t] # {} /\ \A m \in v.remembered[t] : m[1] = t

\* Nobody knows of a turn or of a message that does not exist yet.
Fresh(v) ==
    /\ \A m \in DOMAIN v.said \cup Ids(v.messages) : Plausible(v, m)
    /\ \A t \in DOMAIN v.remembered : \A m \in v.remembered[t] : Plausible(v, m)
    /\ \A i \in DOMAIN v.q : /\ AboutText(v.q[i]) => Plausible(v, v.q[i].message)
                             /\ v.q[i].type = "turn.completed" =>
                                   v.q[i].turn = 0 \/ Below(v, v.q[i].turn)
    /\ \A t \in v.completed : Below(v, t)

\* Nothing is said of turn t after event i.
Over(v, t, i) == v.turn # t /\ \A j \in DOMAIN v.q : i < j => ~Of(v.q[j], t)

\* The end of a turn is the last that is said of it, the end of a session the
\* last that is said of its turns, the end of an item the last of the item.
EndsTurn(v, i) == v.q[i].type = "turn.completed" /\ v.q[i].turn # 0 => Over(v, v.q[i].turn, i)
EndsSession(v, i) ==
    v.q[i].type = "session.exited" =>
        \A t \in 1..v.turns :
            t \in DOMAIN v.remembered \/ (\E h \in DOMAIN v.q : h < i /\ Of(v.q[h], t)) =>
                Over(v, t, i)

EndsItem(v, i) ==
    v.q[i].type = "item.completed" =>
        /\ v.turn = v.q[i].message[1] => v.q[i].message[2] < v.item
        /\ \A j \in DOMAIN v.q : i < j => ~(AboutText(v.q[j]) /\ v.q[j].message = v.q[i].message)

\* The events of a turn come in order, and none comes after its end.
Order(v) ==
    /\ \A i \in DOMAIN v.q : EndsTurn(v, i) /\ EndsSession(v, i) /\ EndsItem(v, i)
    /\ \A t \in v.completed : Over(v, t, 0) /\ t \notin DOMAIN v.remembered

\* Text that is shown and text that is buffered have no chunk in common, and
\* continue each other where the delivery mode never changed.
Arranged(s, b, n, ordered) ==
    /\ IsInjective(s) /\ IsInjective(b) /\ Range(s) \cap Range(b) = {}
    /\ Range(s) \subseteq 1..n /\ Range(b) \subseteq 1..n
    /\ ordered => Counts(s, 0) /\ Counts(b, Len(s))

Placed(v) == \A m : Arranged(ShownIn(v, m), BufferedIn(v, m), SaidIn(v, m), v.ordered)

\* A delta holds consecutive chunks of m, none of which arrived, and before
\* those of the next delta.
DeltaSound(v, m, i) ==
    LET text == v.q[i].text
    IN  /\ text \in Seq(Nat) /\ text # << >> /\ text[1] # 0 /\ Counts(text, text[1] - 1)
        /\ \A n \in Range(text) :
              /\ n \in 1..SaidIn(v, m)
              /\ n \notin Range(ShownIn(v, m)) \cup Range(BufferedIn(v, m))
        /\ \A j \in DOMAIN v.q : i < j /\ DeltaIn(v, m, j) => text[Len(text)] < v.q[j].text[1]

\* Deltas are sound, and an item ends with its whole text or none.
Queued(v) ==
    /\ \A m : \A i \in DOMAIN v.q : DeltaIn(v, m, i) => DeltaSound(v, m, i)
    /\ \A m : \A i \in DOMAIN v.q : IsItem(v.q[i], m) => v.q[i].text \in {<< >>, WholeIn(v, m)}

\* The message in hand was streamed, or nobody has heard of it.
Now(v) ==
    v.turn # 0 => IF v.emitted THEN Cur(v) \in DOMAIN v.said
                  ELSE Unheard(v, Cur(v)) /\ (~v.quiet => Cur(v) \notin DOMAIN v.said)

\* The text of m waits in the agent, or comes with its end.
ComesWhole(v, m) ==
    \/ m = Cur(v) /\ ~v.emitted
    \/ \E i \in DOMAIN v.q : IsItem(v.q[i], m) /\ v.q[i].text = WholeIn(v, m)

\* No chunk of m is lost: each can be found, or all of them come at once.
CoveredAt(v, m) ==
    \/ \A n \in 1..SaidIn(v, m) : Found(v, m, n)
    \/ Unheard(v, m) /\ ComesWhole(v, m)

Covered(v) == \A m \in DOMAIN v.said : Alive(v, m[1]) => CoveredAt(v, m)

\* A message that streams will be found by the end of its turn.
Streams(v) == \A x \in Range(v.messages) :
    x.streaming /\ Alive(v, x.id[1]) => x.id \in RememberedIn(v, x.id[1])

\* The inductive invariant of text.
Sound(v) ==
    /\ AgentTyped(v) /\ IngestTyped(v) /\ Fresh(v) /\ Order(v) /\ Placed(v) /\ Queued(v)
    /\ Now(v) /\ Covered(v) /\ Streams(v)

--------------------
(* Two views of the pipeline, before a step and after it.                   *)
\* Ingestion has the same state, and the same is shown.
SameIngest(v, w) ==
    /\ w.messages = v.messages /\ w.buffered = v.buffered /\ w.remembered = v.remembered
    /\ w.mode = v.mode /\ w.ordered = v.ordered /\ w.completed = v.completed

\* The agent has the same state.
SameAgent(v, w) ==
    /\ w.turn = v.turn /\ w.item = v.item /\ w.emitted = v.emitted /\ w.quiet = v.quiet
    /\ w.said = v.said /\ w.turns = v.turns /\ w.starting = v.starting

\* The adapter offers e, the n-th event of the queue.
Offers(v, w, n, e) ==
    /\ n \in Nat \ DOMAIN v.q /\ DOMAIN w.q = DOMAIN v.q \cup {n} /\ w.q[n] = e
    /\ \A i \in DOMAIN v.q : i \in Nat \ {0} /\ i < n /\ w.q[i] = v.q[i]

LEMMA OffersIs ==
  ASSUME NEW v, NEW w, IsSeq(v.q), NEW e, w.q = Append(v.q, e)
  PROVE IsSeq(w.q) /\ \E n : Offers(v, w, n, e)
<1> DEFINE s == v.q
           t == w.q
<1>1. s \in Seq(Range(s) \cup {e}) BY SeqMonotonic, Range(s) \subseteq Range(s) \cup {e} DEF IsSeq
<1>2. /\ Len(t) = Len(s) + 1 /\ t \in Seq(Range(s) \cup {e})
      /\ \A i \in 1..Len(s) : t[i] = s[i]
      /\ t[Len(s) + 1] = e
 BY <1>1, AppendProperties
<1>3. Len(s) \in Nat /\ DOMAIN s = 1..Len(s) /\ DOMAIN t = 1..(Len(s) + 1)
 BY <1>1, <1>2, LenProperties
<1>4. IsSeq(w.q) BY AppendIs
<1> HIDE DEF s, t
<1> DEFINE n == Len(s) + 1
<1>5. /\ n \in Nat /\ n \notin DOMAIN s /\ DOMAIN t = DOMAIN s \cup {n} /\ t[n] = e
      /\ \A i \in DOMAIN s : i \in Nat \ {0} /\ i < n /\ t[i] = s[i]
 BY <1>2, <1>3
<1> HIDE DEF n
<1>6. Offers(v, w, n, e) BY <1>5 DEF Offers, s, t
<1> QED BY <1>4, <1>6

LEMMA CurIs == ASSUME NEW v PROVE Cur(v)[1] = v.turn /\ Cur(v)[2] = v.item
BY DEF Cur

LEMMA SaidIs ==
  ASSUME NEW v, AgentTyped(v)
  PROVE \A m : SaidIn(v, m) \in Nat /\ (SaidIn(v, m) = 0 <=> m \notin DOMAIN v.said)
BY DEF AgentTyped, SaidIn

(* Of a message that is not plausible nothing is known.                     *)
LEMMA NothingKnown ==
  ASSUME NEW v, Fresh(v), IngestTyped(v), NEW m, ~Plausible(v, m)
  PROVE Unheard(v, m) /\ m \notin DOMAIN v.said /\ m \notin Ids(v.messages)
<1>1. m \notin DOMAIN v.said /\ m \notin Ids(v.messages) BY DEF Fresh
<1>2. ShownIn(v, m) = << >> BY <1>1, ShownIs DEF ShownIn, IngestTyped
<1>3. m \notin DOMAIN v.buffered BY DEF Fresh, IngestTyped, RememberedIn
<1>4. \A i \in DOMAIN v.q : ~DeltaIn(v, m, i) BY DEF Fresh, DeltaIn, IsDelta, AboutText
<1> QED BY <1>1, <1>2, <1>3, <1>4 DEF Unheard, BufferedIn

LEMMA SameIngestIs ==
  ASSUME NEW v, NEW w, SameIngest(v, w)
  PROVE /\ IngestTyped(v) => IngestTyped(w)
        /\ \A m : /\ ShownIn(w, m) = ShownIn(v, m) /\ BufferedIn(w, m) = BufferedIn(v, m)
                  /\ RememberedIn(w, m) = RememberedIn(v, m)
BY DEF SameIngest, IngestTyped, ShownIn, BufferedIn, RememberedIn

LEMMA FreshGrows ==
  ASSUME NEW v, NEW w, Fresh(v), SameIngest(v, w), w.turns = v.turns, w.starting = v.starting,
    NEW n, NEW e, Offers(v, w, n, e), v.item \in Nat, w.item \in Nat,
    (w.turn = v.turn /\ v.item <= w.item) \/ w.turn = 0,
    DOMAIN v.said \subseteq DOMAIN w.said, DOMAIN w.said \subseteq DOMAIN v.said \cup {Cur(v)},
    Cur(v) \in DOMAIN w.said \/ AboutText(e) => Plausible(w, Cur(v)),
    AboutText(e) => e.message = Cur(v),
    e.type = "turn.completed" => e.turn = 0 \/ Below(v, e.turn)
  PROVE Fresh(w)
<1>1. \A t : Below(v, t) => Below(w, t) BY DEF Below
<1>2. ASSUME NEW m, Plausible(v, m) PROVE Plausible(w, m)
 <2>1. m[1] = w.turn => m[2] <= w.item BY <1>2 DEF Plausible, Below
 <2> QED BY <1>1, <1>2, <2>1 DEF Plausible
<1>3. \A m \in DOMAIN w.said \cup Ids(w.messages) : Plausible(w, m) BY <1>2 DEF Fresh, SameIngest
<1>4. \A t \in DOMAIN w.remembered : \A m \in w.remembered[t] : Plausible(w, m)
 BY <1>2 DEF Fresh, SameIngest
<1>5. ASSUME NEW i \in DOMAIN w.q
    PROVE  /\ AboutText(w.q[i]) => Plausible(w, w.q[i].message)
           /\ w.q[i].type = "turn.completed" => w.q[i].turn = 0 \/ Below(w, w.q[i].turn)
 <2>1. CASE i \in DOMAIN v.q BY <1>1, <1>2, <2>1 DEF Fresh, Offers
 <2>2. CASE i = n BY <1>1, <2>2 DEF Offers
 <2> QED BY <2>1, <2>2 DEF Offers
<1>6. \A t \in w.completed : Below(w, t) BY <1>1 DEF Fresh, SameIngest
<1> QED BY <1>3, <1>4, <1>5, <1>6 DEF Fresh

LEMMA OrderGrows ==
  ASSUME NEW v, NEW w, Order(v), Fresh(v), SameIngest(v, w), w.turns = v.turns, v.turns \in Nat,
    NEW n, NEW e, Offers(v, w, n, e), v.item \in Nat, w.item \in Nat,
    (w.turn = v.turn /\ v.item <= w.item) \/ w.turn = 0,
    \A t : t # 0 /\ Of(e, t) => t = v.turn,
    AboutText(e) => e.message = Cur(v),
    e.type \in {"turn.completed", "session.exited"} => w.turn = 0,
    e.type = "item.completed" => w.turn = v.turn /\ v.item < w.item
  PROVE Order(w)
<1>1. ASSUME NEW t, t # 0, NEW i \in DOMAIN v.q \cup {0}, Over(v, t, i)
    PROVE  Over(w, t, i)
 <2>1. w.turn # t BY <1>1 DEF Over
 <2>2. ASSUME NEW j \in DOMAIN w.q, i < j PROVE ~Of(w.q[j], t)
  <3>1. CASE j \in DOMAIN v.q BY <1>1, <2>2, <3>1 DEF Over, Offers
  <3>2. CASE j = n BY <1>1, <3>2 DEF Over, Offers
  <3> QED BY <3>1, <3>2 DEF Offers
 <2> QED BY <2>1, <2>2 DEF Over
<1>2. ASSUME NEW i \in DOMAIN v.q
    PROVE  EndsTurn(w, i) /\ EndsSession(w, i) /\ EndsItem(w, i)
 <2>1. /\ EndsTurn(v, i) /\ EndsSession(v, i) /\ EndsItem(v, i)
       /\ w.q[i] = v.q[i] /\ i \in DOMAIN w.q
  BY DEF Order, Offers
 <2>2. EndsTurn(w, i) BY <1>1, <2>1 DEF EndsTurn
 <2>3. EndsSession(w, i)
  <3> SUFFICES ASSUME v.q[i].type = "session.exited", NEW t \in 1..v.turns,
                      \/ t \in DOMAIN v.remembered
                      \/ \E h \in DOMAIN w.q : h < i /\ Of(w.q[h], t)
      PROVE  Over(w, t, i)
   BY <2>1 DEF EndsSession, SameIngest
  <3>1. ASSUME NEW h \in DOMAIN w.q, h < i, Of(w.q[h], t)
      PROVE  \E g \in DOMAIN v.q : g < i /\ Of(v.q[g], t)
   <4>1. h # n BY <3>1 DEF Offers
   <4> QED BY <3>1, <4>1 DEF Offers
  <3>2. Over(v, t, i) BY <2>1, <3>1 DEF EndsSession
  <3>3. t # 0 OBVIOUS
  <3> QED BY <1>1, <3>2, <3>3
 <2>4. EndsItem(w, i)
  <3> SUFFICES ASSUME v.q[i].type = "item.completed"
      PROVE  /\ w.turn = v.q[i].message[1] => v.q[i].message[2] < w.item
             /\ \A j \in DOMAIN w.q : i < j =>
                   ~(AboutText(w.q[j]) /\ w.q[j].message = v.q[i].message)
   BY <2>1 DEF EndsItem
  <3> DEFINE m == v.q[i].message
  <3>1. m[1] \in Nat \ {0} /\ m[2] \in Nat BY DEF Fresh, AboutText, Plausible, Below
  <3>2. v.turn = m[1] => m[2] < v.item BY <2>1 DEF EndsItem
  <3>3. w.turn = m[1] => m[2] < w.item BY <3>1, <3>2
  <3>4. ASSUME NEW j \in DOMAIN w.q, i < j, AboutText(w.q[j]), w.q[j].message = m PROVE FALSE
   <4>1. CASE j \in DOMAIN v.q BY <2>1, <3>4, <4>1 DEF Offers, EndsItem
   <4>2. CASE j = n
    <5>1. m = Cur(v) BY <3>4, <4>2 DEF Offers
    <5> QED BY <3>1, <3>2, <5>1, CurIs
   <4> QED BY <4>1, <4>2 DEF Offers
  <3> QED BY <3>3, <3>4
 <2> QED BY <2>2, <2>3, <2>4
<1>3. EndsTurn(w, n) /\ EndsSession(w, n) /\ EndsItem(w, n)
 <2>1. w.q[n] = e /\ \A j \in DOMAIN w.q : ~(n < j) BY DEF Offers
 <2>2. EndsTurn(w, n) BY <2>1 DEF EndsTurn, Over
 <2>3. EndsSession(w, n)
  <3>1. \A t \in 1..w.turns : t # 0 OBVIOUS
  <3> QED BY <2>1, <3>1 DEF EndsSession, Over
 <2>4. EndsItem(w, n) BY <2>1, CurIs DEF EndsItem, AboutText
 <2> QED BY <2>2, <2>3, <2>4
<1>4. ASSUME NEW t \in w.completed PROVE Over(w, t, 0) /\ t \notin DOMAIN w.remembered
 <2>1. t # 0 /\ Over(v, t, 0) /\ t \notin DOMAIN v.remembered
  BY DEF Order, Fresh, Below, SameIngest
 <2> QED BY <1>1, <2>1 DEF SameIngest
<1> QED BY <1>2, <1>3, <1>4 DEF Order, Offers

LEMMA ArrangedGrows ==
  ASSUME NEW s, NEW b, NEW k \in Nat, NEW n \in Nat, k <= n, NEW ordered, Arranged(s, b, k, ordered)
  PROVE Arranged(s, b, n, ordered)
<1>1. 1..k \subseteq 1..n OBVIOUS
<1> QED BY <1>1 DEF Arranged

LEMMA PlacedGrows ==
  ASSUME NEW v, NEW w, Placed(v), SameIngest(v, w),
    \A m : SaidIn(v, m) \in Nat /\ SaidIn(w, m) \in Nat /\ SaidIn(v, m) <= SaidIn(w, m)
  PROVE Placed(w)
<1> SUFFICES ASSUME NEW m PROVE Arranged(ShownIn(w, m), BufferedIn(w, m), SaidIn(w, m), w.ordered)
 BY DEF Placed
<1>1. Arranged(ShownIn(v, m), BufferedIn(v, m), SaidIn(v, m), v.ordered) BY DEF Placed
<1>2. Arranged(ShownIn(v, m), BufferedIn(v, m), SaidIn(w, m), v.ordered) BY <1>1, ArrangedGrows
<1> QED BY <1>2, SameIngestIs DEF SameIngest

\* A delta that may be offered: the chunks after the first a.
NextText(v, w, m, text, a) ==
    /\ text \in Seq(Nat) /\ text # << >> /\ a \in Nat /\ Counts(text, a)
    /\ \A k \in Range(text) : k \in 1..SaidIn(w, m)
    /\ \A k : Found(v, m, k) => k <= a

LEMMA TextAfter ==
  ASSUME NEW text \in Seq(Nat), text # << >>, NEW a \in Nat, Counts(text, a)
  PROVE /\ text[1] = a + 1 /\ Len(text) \in 1..Len(text) /\ text[Len(text)] = a + Len(text)
        /\ \A k \in Range(text) : a < k
        /\ \A k \in Nat : a < k /\ k <= a + Len(text) => k \in Range(text)
<1>1. Len(text) \in Nat \ {0} BY TextIs
<1>2. 1 \in 1..Len(text) /\ Len(text) \in 1..Len(text) BY <1>1
<1>3. text[1] = a + 1 /\ text[Len(text)] = a + Len(text) BY <1>2 DEF Counts
<1>4. ASSUME NEW k \in Range(text) PROVE a < k
 <2>1. PICK j \in 1..Len(text) : k = text[j] BY TextIs
 <2> QED BY <2>1 DEF Counts
<1>5. ASSUME NEW k \in Nat, a < k, k <= a + Len(text) PROVE k \in Range(text)
 <2>1. k - a \in 1..Len(text) BY <1>1, <1>5
 <2>2. text[k - a] = k BY <2>1 DEF Counts
 <2>3. text[k - a] \in Range(text) BY <2>1, TextIs
 <2> QED BY <2>2, <2>3
<1> QED BY <1>2, <1>3, <1>4, <1>5

LEMMA QueuedGrows ==
  ASSUME NEW v, NEW w, Queued(v), Order(v), SameIngest(v, w),
    NEW n, NEW e, Offers(v, w, n, e), v.item \in Nat,
    \A m : SaidIn(v, m) \in Nat /\ SaidIn(w, m) \in Nat /\ SaidIn(v, m) <= SaidIn(w, m),
    \A m : m # Cur(v) => SaidIn(w, m) = SaidIn(v, m),
    AboutText(e) => e.message = Cur(v),
    e.type = "content.delta" => \E a : NextText(v, w, Cur(v), e.text, a),
    e.type = "item.completed" => e.text \in {<< >>, WholeIn(w, Cur(v))}
  PROVE Queued(w)
<1>1. ASSUME NEW m, NEW i \in DOMAIN w.q, DeltaIn(w, m, i) PROVE DeltaSound(w, m, i)
 <2> DEFINE text == w.q[i].text
 <2>1. CASE i \in DOMAIN v.q
  <3>1. w.q[i] = v.q[i] /\ DeltaIn(v, m, i) /\ DeltaSound(v, m, i)
   BY <1>1, <2>1 DEF Queued, Offers, DeltaIn
  <3>2. /\ text \in Seq(Nat) /\ text # << >> /\ text[1] # 0 /\ Counts(text, text[1] - 1)
        /\ \A k \in Range(text) :
              /\ k \in 1..SaidIn(v, m)
              /\ k \notin Range(ShownIn(v, m)) \cup Range(BufferedIn(v, m))
        /\ \A j \in DOMAIN v.q : i < j /\ DeltaIn(v, m, j) => text[Len(text)] < v.q[j].text[1]
   BY <3>1 DEF DeltaSound
  <3>3. \A k \in Range(text) :
              /\ k \in 1..SaidIn(w, m)
              /\ k \notin Range(ShownIn(w, m)) \cup Range(BufferedIn(w, m))
   BY <3>2, SameIngestIs
  <3>4. ASSUME NEW j \in DOMAIN w.q, i < j, DeltaIn(w, m, j)
      PROVE  text[Len(text)] < w.q[j].text[1]
   <4>1. CASE j \in DOMAIN v.q BY <3>2, <3>4, <4>1 DEF Offers, DeltaIn
   <4>2. CASE j = n
    <5>1. e.type = "content.delta" /\ m = Cur(v) /\ w.q[j] = e
     BY <3>4, <4>2 DEF Offers, DeltaIn, IsDelta, AboutText
    <5>2. PICK a : NextText(v, w, m, e.text, a) BY <5>1
    <5>3. text[Len(text)] \in Range(text)
     <6>1. Len(text) \in Nat /\ Len(text) # 0 BY <3>2, TextIs
     <6>2. Len(text) \in 1..Len(text) BY <6>1
     <6> QED BY <3>2, <6>2, TextIs
    <5>4. Found(v, m, text[Len(text)]) BY <2>1, <3>1, <5>3 DEF Found
    <5>5. text[Len(text)] <= a /\ a \in Nat BY <5>2, <5>4 DEF NextText
    <5>6. e.text[1] = a + 1 BY <5>2, TextAfter DEF NextText
    <5>7. text[Len(text)] \in Nat BY <3>2, <5>3, TextIs
    <5> QED BY <5>1, <5>5, <5>6, <5>7
   <4> QED BY <3>4, <4>1, <4>2 DEF Offers
  <3> QED BY <3>2, <3>3, <3>4 DEF DeltaSound
 <2>2. CASE i = n
  <3>1. e.type = "content.delta" /\ m = Cur(v) /\ w.q[i] = e
   BY <1>1, <2>2 DEF Offers, DeltaIn, IsDelta, AboutText
  <3>2. PICK a : NextText(v, w, m, e.text, a) BY <3>1
  <3>3. /\ text = e.text /\ text \in Seq(Nat) /\ text # << >> /\ a \in Nat /\ Counts(text, a)
        /\ \A k \in Range(text) : k \in 1..SaidIn(w, m)
        /\ \A k : Found(v, m, k) => k <= a
   BY <3>1, <3>2 DEF NextText
  <3> HIDE DEF text
  <3>4. text[1] = a + 1 /\ \A k \in Range(text) : a < k BY <3>3, TextAfter
  <3>5. text[1] # 0 /\ text[1] - 1 = a BY <3>3, <3>4
  <3>6. ASSUME NEW k \in Range(text)
      PROVE  k \notin Range(ShownIn(w, m)) \cup Range(BufferedIn(w, m))
   <4>1. k \in Nat /\ a < k BY <3>3, <3>4, TextIs
   <4>2. ~Found(v, m, k) BY <3>3, <4>1
   <4> QED BY <4>2, SameIngestIs DEF Found
  <3>7. \A j \in DOMAIN w.q : ~(i < j) BY <2>2 DEF Offers
  <3>8. Counts(text, text[1] - 1) BY <3>3, <3>5
  <3> QED BY <3>3, <3>5, <3>6, <3>7, <3>8 DEF DeltaSound, text
 <2> QED BY <2>1, <2>2 DEF Offers
<1>2. ASSUME NEW m, NEW i \in DOMAIN w.q, IsItem(w.q[i], m)
    PROVE  w.q[i].text \in {<< >>, WholeIn(w, m)}
 <2>1. CASE i \in DOMAIN v.q
  <3>1. w.q[i] = v.q[i] /\ w.q[i].text \in {<< >>, WholeIn(v, m)} /\ EndsItem(v, i)
   BY <1>2, <2>1 DEF Queued, Offers, Order
  <3>2. m # Cur(v) BY <1>2, <3>1, CurIs DEF EndsItem, IsItem
  <3>3. WholeIn(w, m) = WholeIn(v, m) BY <3>2 DEF WholeIn
  <3> QED BY <3>1, <3>3
 <2>2. CASE i = n BY <1>2, <2>2 DEF Offers, IsItem, AboutText
 <2> QED BY <2>1, <2>2 DEF Offers
<1> QED BY <1>1, <1>2 DEF Queued

LEMMA AliveGrows ==
  ASSUME NEW v, NEW w, SameIngest(v, w), NEW n, NEW e, Offers(v, w, n, e),
    w.turn \in {v.turn, 0}, \A t : Of(e, t) => t = v.turn
  PROVE \A t : t # 0 /\ Alive(w, t) => Alive(v, t)
<1> TAKE t
<1> SUFFICES ASSUME t # 0, Alive(w, t) PROVE Alive(v, t) OBVIOUS
<1>1. CASE w.turn = t BY <1>1 DEF Alive
<1>2. ASSUME NEW i \in DOMAIN w.q, Of(w.q[i], t) PROVE Alive(v, t) BY <1>2 DEF Alive, Offers
<1>3. CASE t \in w.completed BY <1>3 DEF Alive, SameIngest
<1> QED BY <1>1, <1>2, <1>3 DEF Alive

LEMMA StreamsKept ==
  ASSUME NEW v, NEW w, Streams(v), Fresh(v), SameIngest(v, w),
    \A t : t # 0 /\ Alive(w, t) => Alive(v, t)
  PROVE Streams(w)
<1>1. \A x \in Range(v.messages) : x.id[1] # 0 BY DEF Fresh, Plausible, Below, Ids
<1> QED BY <1>1, SameIngestIs DEF Streams, SameIngest

(* A message of which nothing is said or ended in this step.                *)
LEMMA CoveredElsewhere ==
  ASSUME NEW v, NEW w, SameIngest(v, w), NEW n, NEW e, Offers(v, w, n, e),
    NEW m, CoveredAt(v, m), SaidIn(w, m) = SaidIn(v, m), ~IsDelta(e, m),
    m = Cur(v) /\ ~v.emitted => m = Cur(w) /\ ~w.emitted
  PROVE CoveredAt(w, m)
<1>1. \A i \in DOMAIN v.q : i \in DOMAIN w.q /\ w.q[i] = v.q[i] BY DEF Offers
<1>2. \A k : Found(v, m, k) => Found(w, m, k) BY <1>1, SameIngestIs DEF Found, DeltaIn
<1>3. Unheard(v, m) => Unheard(w, m) BY SameIngestIs DEF Unheard, DeltaIn, Offers
<1>4. ComesWhole(v, m) => ComesWhole(w, m) BY <1>1 DEF ComesWhole, WholeIn
<1> QED BY <1>2, <1>3, <1>4 DEF CoveredAt

--------------------
(* What the agent does, one event at a time.                                *)
SameTurns(v, w) == w.turns = v.turns /\ w.starting = v.starting

\* The message in hand now holds k chunks.
SaysUpTo(v, w, k) ==
    /\ k \in Nat \ {0}
    /\ DOMAIN w.said = DOMAIN v.said \cup {Cur(v)} /\ w.said[Cur(v)] = k
    /\ \A m \in DOMAIN v.said : m # Cur(v) => w.said[m] = v.said[m]

LEMMA SaysIs ==
  ASSUME NEW v, NEW w, AgentTyped(v), NEW k, SaysUpTo(v, w, k), SaidIn(v, Cur(v)) <= k
  PROVE /\ \A m : m # Cur(v) => SaidIn(w, m) = SaidIn(v, m)
        /\ SaidIn(w, Cur(v)) = k
        /\ \A m : SaidIn(v, m) \in Nat /\ SaidIn(w, m) \in Nat /\ SaidIn(v, m) <= SaidIn(w, m)
        /\ \A m \in DOMAIN w.said : w.said[m] \in Nat \ {0}
<1>1. \A m : m # Cur(v) => SaidIn(w, m) = SaidIn(v, m) BY DEF SaysUpTo, SaidIn
<1>2. SaidIn(w, Cur(v)) = k /\ k \in Nat BY DEF SaysUpTo, SaidIn
<1>3. \A m : SaidIn(v, m) \in Nat BY SaidIs
<1>4. \A m \in DOMAIN w.said : w.said[m] \in Nat \ {0} BY DEF SaysUpTo, AgentTyped
<1> QED BY <1>1, <1>2, <1>3, <1>4

LEMMA CurPlausible ==
  ASSUME NEW v, NEW w, AgentTyped(v), v.turn # 0, w.turns = v.turns, w.starting = v.starting,
    w.turn = v.turn, w.item \in Nat, v.item <= w.item,
    Cur(v) \in DOMAIN w.said \/ v.item = 1
  PROVE Plausible(w, Cur(v))
<1>1. Below(w, v.turn) BY DEF AgentTyped, Below
<1> QED BY <1>1, CurIs DEF AgentTyped, Plausible, Cur

(* Text is streamed, or follows at the end of a turn that streamed none.    *)
LEMMA SpeakStep ==
  ASSUME NEW v, NEW w, Sound(v), SameIngest(v, w), SameTurns(v, w),
    v.turn # 0, w.turn = v.turn, w.item = v.item, w.emitted,
    NEW k, SaysUpTo(v, w, k), NEW a \in Nat, NEW text \in Seq(Nat), text # << >>,
    Counts(text, a), a + Len(text) = k, SaidIn(v, Cur(v)) <= k,
    v.emitted => a = SaidIn(v, Cur(v)), ~v.emitted => a = 0,
    NEW n, Offers(v, w, n, Delta(Cur(v), text))
  PROVE Sound(w)
<1> DEFINE e == Delta(Cur(v), text)
<1>1. e.type = "content.delta" /\ e.message = Cur(v) /\ e.text = text BY DEF Delta
<1>2. Offers(v, w, n, e) OBVIOUS
<1> HIDE DEF e
<1>3. /\ AgentTyped(v) /\ IngestTyped(v) /\ Fresh(v) /\ Order(v) /\ Placed(v) /\ Queued(v)
      /\ Now(v) /\ Covered(v) /\ Streams(v)
 BY DEF Sound
<1>4. /\ v.turns \in Nat /\ v.item \in Nat \ {0} /\ v.turn \in Nat
      /\ Cur(w) = Cur(v) /\ Cur(v) \in DOMAIN w.said
 BY <1>3 DEF AgentTyped, Cur, SaysUpTo
<1>5. /\ \A m : m # Cur(v) => SaidIn(w, m) = SaidIn(v, m)
      /\ SaidIn(w, Cur(v)) = k
      /\ \A m : SaidIn(v, m) \in Nat /\ SaidIn(w, m) \in Nat /\ SaidIn(v, m) <= SaidIn(w, m)
      /\ \A m \in DOMAIN w.said : w.said[m] \in Nat \ {0}
 BY <1>3, SaysIs
<1>6. AgentTyped(w) BY <1>3, <1>5 DEF AgentTyped, SameTurns
<1>7. IngestTyped(w) BY <1>3, SameIngestIs
<1>8. Fresh(w)
 <2>1. Plausible(w, Cur(v)) BY <1>3, <1>4, CurPlausible DEF SameTurns
 <2> QED BY <1>1, <1>2, <1>3, <1>4, <2>1, FreshGrows DEF SameTurns, SaysUpTo
<1>9. \A t : Of(e, t) => t = v.turn BY <1>1, CurIs DEF Of
<1>10. Order(w) BY <1>1, <1>2, <1>3, <1>4, <1>9, OrderGrows DEF SameTurns
<1>11. Placed(w) BY <1>3, <1>5, PlacedGrows
<1>12. ASSUME a # 0 PROVE \A j \in 1..a : Found(v, Cur(v), j)
 <2>1. v.emitted /\ a = SaidIn(v, Cur(v)) /\ Cur(v) \in DOMAIN v.said BY <1>3, <1>12 DEF Now
 <2>2. CoveredAt(v, Cur(v)) BY <1>3, <2>1, CurIs DEF Covered, Alive
 <2>3. \A i \in DOMAIN v.q : ~IsItem(v.q[i], Cur(v))
  <3> SUFFICES ASSUME NEW i \in DOMAIN v.q, IsItem(v.q[i], Cur(v)) PROVE FALSE OBVIOUS
  <3>1. EndsItem(v, i) /\ v.q[i].type = "item.completed" /\ v.q[i].message = Cur(v)
   BY <1>3 DEF Order, IsItem
  <3>2. v.item < v.item BY <3>1, CurIs DEF EndsItem
  <3> QED BY <1>4, <3>2
 <2> QED BY <2>1, <2>2, <2>3 DEF CoveredAt, ComesWhole
<1>13. \A j : Found(v, Cur(v), j) => j \in 1..SaidIn(v, Cur(v))
 BY <1>3 DEF Found, Placed, Arranged, Queued, DeltaSound
<1>14. NextText(v, w, Cur(v), text, a)
 <2>1. \A j : Found(v, Cur(v), j) => j <= a
  <3>1. CASE v.emitted BY <1>13, <3>1
  <3>2. CASE ~v.emitted BY <1>3, <3>2, NoText DEF Now, Unheard, Found
  <3> QED BY <3>1, <3>2
 <2>2. ASSUME NEW j \in Range(text) PROVE j \in 1..k
  <3>1. PICK h \in 1..Len(text) : j = text[h] BY TextIs
  <3>2. j = a + h BY <3>1 DEF Counts
  <3>3. Len(text) \in Nat BY TextIs
  <3> QED BY <3>2, <3>3
 <2> QED BY <1>5, <2>1, <2>2 DEF NextText
<1>15. Queued(w) BY <1>1, <1>2, <1>3, <1>4, <1>5, <1>14, QueuedGrows
<1>16. Now(w) BY <1>4 DEF Now
<1>17. \A t : t # 0 /\ Alive(w, t) => Alive(v, t) BY <1>2, <1>9, AliveGrows
<1>18. Covered(w)
 <2> SUFFICES ASSUME NEW m \in DOMAIN w.said, Alive(w, m[1]) PROVE CoveredAt(w, m) BY DEF Covered
 <2>1. CASE m = Cur(v)
  <3> SUFFICES ASSUME NEW j \in 1..k PROVE Found(w, m, j) BY <1>5, <2>1 DEF CoveredAt
  <3>1. CASE j <= a
   <4>1. Found(v, m, j) BY <1>12, <2>1, <3>1
   <4> QED BY <1>2, <4>1, SameIngestIs DEF Found, Offers, DeltaIn
  <3>2. CASE ~(j <= a)
   <4>1. j \in Range(text) BY <3>2, TextAfter
   <4> QED BY <1>1, <1>2, <2>1, <4>1 DEF Found, Offers, DeltaIn, IsDelta
  <3> QED BY <3>1, <3>2
 <2>2. CASE m # Cur(v)
  <3>1. m \in DOMAIN v.said /\ m[1] # 0 BY <1>3, <2>2 DEF SaysUpTo, Fresh, Plausible, Below
  <3>2. CoveredAt(v, m) BY <1>3, <1>17, <3>1 DEF Covered
  <3> QED BY <1>1, <1>2, <1>5, <2>2, <3>2, CoveredElsewhere DEF IsDelta
 <2> QED BY <2>1, <2>2
<1>19. Streams(w) BY <1>3, <1>17, StreamsKept
<1> QED BY <1>6, <1>7, <1>8, <1>10, <1>11, <1>15, <1>16, <1>18, <1>19 DEF Sound

(* A message of Claude is complete before any of it is streamed.            *)
LEMMA HoldStep ==
  ASSUME NEW v, NEW w, Sound(v), SameIngest(v, w), SameTurns(v, w), w.q = v.q,
    v.turn # 0, w.turn = v.turn, w.item = v.item, w.emitted = v.emitted, w.quiet,
    Cur(v) \notin DOMAIN v.said, SaysUpTo(v, w, 1)
  PROVE Sound(w)
<1>1. /\ AgentTyped(v) /\ IngestTyped(v) /\ Fresh(v) /\ Order(v) /\ Placed(v) /\ Queued(v)
      /\ Now(v) /\ Covered(v) /\ Streams(v)
 BY DEF Sound
<1>2. /\ v.turns \in Nat /\ v.item \in Nat \ {0} /\ v.turn \in Nat
      /\ Cur(w) = Cur(v) /\ Cur(v) \in DOMAIN w.said /\ SaidIn(v, Cur(v)) = 0
 BY <1>1 DEF AgentTyped, Cur, SaysUpTo, SaidIn
<1>3. /\ \A m : m # Cur(v) => SaidIn(w, m) = SaidIn(v, m)
      /\ SaidIn(w, Cur(v)) = 1
      /\ \A m : SaidIn(v, m) \in Nat /\ SaidIn(w, m) \in Nat /\ SaidIn(v, m) <= SaidIn(w, m)
      /\ \A m \in DOMAIN w.said : w.said[m] \in Nat \ {0}
 BY <1>1, <1>2, SaysIs
<1>4. AgentTyped(w) BY <1>1, <1>3 DEF AgentTyped, SameTurns
<1>5. IngestTyped(w) BY <1>1, SameIngestIs
<1>6. Fresh(w)
 <2>1. Plausible(w, Cur(v)) BY <1>1, <1>2, CurPlausible DEF SameTurns
 <2>2. \A m : Plausible(v, m) => Plausible(w, m) BY DEF Plausible, Below, SameTurns, SaysUpTo
 <2>3. \A t : Below(v, t) => Below(w, t) BY DEF Below, SameTurns
 <2> QED BY <1>1, <2>1, <2>2, <2>3 DEF Fresh, SameIngest, SaysUpTo
<1>7. Order(w)
 <2>1. \A t, i : Over(v, t, i) => Over(w, t, i) BY DEF Over
 <2> QED BY <1>1, <2>1 DEF Order, EndsTurn, EndsSession, EndsItem, SameIngest, SameTurns
<1>8. Placed(w) BY <1>1, <1>3, PlacedGrows
<1>9. Queued(w)
 <2>1. ASSUME NEW m, NEW i \in DOMAIN w.q, DeltaIn(w, m, i) PROVE DeltaSound(w, m, i)
  <3>1. DeltaSound(v, m, i) BY <1>1, <2>1 DEF Queued, DeltaIn
  <3>2. \A j \in 1..SaidIn(v, m) : j \in 1..SaidIn(w, m) BY <1>3
  <3> QED BY <3>1, <3>2, SameIngestIs DEF DeltaSound, DeltaIn
 <2>2. ASSUME NEW m, NEW i \in DOMAIN w.q, IsItem(w.q[i], m)
     PROVE  w.q[i].text \in {<< >>, WholeIn(w, m)}
  <3>1. m # Cur(v) BY <1>1, <1>2, <2>2, CurIs DEF Order, EndsItem, IsItem
  <3> QED BY <1>1, <1>3, <2>2, <3>1 DEF Queued, WholeIn
 <2> QED BY <2>1, <2>2 DEF Queued
<1>10. Unheard(w, Cur(v)) /\ ~v.emitted BY <1>1, <1>2, SameIngestIs DEF Now, Unheard, DeltaIn
<1>11. Now(w) BY <1>2, <1>10 DEF Now
<1>12. \A t : Alive(w, t) => Alive(v, t) BY DEF Alive, SameIngest
<1>13. Covered(w)
 <2> SUFFICES ASSUME NEW m \in DOMAIN w.said, Alive(w, m[1]) PROVE CoveredAt(w, m) BY DEF Covered
 <2>1. CASE m = Cur(v) BY <1>2, <1>10, <2>1 DEF CoveredAt, ComesWhole
 <2>2. CASE m # Cur(v)
  <3>1. CoveredAt(v, m) /\ SaidIn(w, m) = SaidIn(v, m)
   BY <1>1, <1>3, <1>12, <2>2 DEF Covered, SaysUpTo
  <3>2. \A j : Found(v, m, j) => Found(w, m, j) BY SameIngestIs DEF Found, DeltaIn
  <3>3. Unheard(v, m) => Unheard(w, m) BY SameIngestIs DEF Unheard, DeltaIn
  <3>4. ComesWhole(v, m) => ComesWhole(w, m) BY <2>2, <3>1 DEF ComesWhole, WholeIn
  <3> QED BY <3>1, <3>2, <3>3, <3>4 DEF CoveredAt
 <2> QED BY <2>1, <2>2
<1>14. Streams(w) BY <1>1, <1>12, StreamsKept
<1> QED BY <1>4, <1>5, <1>6, <1>7, <1>8, <1>9, <1>11, <1>13, <1>14 DEF Sound

(* An item ends, with its whole text or none.                               *)
LEMMA ItemStep ==
  ASSUME NEW v, NEW w, Sound(v), SameIngest(v, w), SameTurns(v, w), w.said = v.said,
    v.turn # 0, w.turn = v.turn, w.item = v.item + 1, ~w.emitted,
    NEW text, text \in {<< >>, WholeIn(v, Cur(v))},
    v.emitted \/ Cur(v) \notin DOMAIN v.said \/ text = WholeIn(v, Cur(v)),
    Cur(v) \in DOMAIN v.said \/ v.item = 1,
    NEW n, Offers(v, w, n, ItemCompleted(Cur(v), text))
  PROVE Sound(w)
<1> DEFINE e == ItemCompleted(Cur(v), text)
<1>1. e.type = "item.completed" /\ e.message = Cur(v) /\ e.text = text BY DEF ItemCompleted
<1>2. Offers(v, w, n, e) OBVIOUS
<1> HIDE DEF e
<1>3. /\ AgentTyped(v) /\ IngestTyped(v) /\ Fresh(v) /\ Order(v) /\ Placed(v) /\ Queued(v)
      /\ Now(v) /\ Covered(v) /\ Streams(v)
 BY DEF Sound
<1>4. /\ v.turns \in Nat /\ v.item \in Nat \ {0} /\ w.item \in Nat \ {0}
      /\ v.turn \in Nat /\ v.item < w.item
 BY <1>3 DEF AgentTyped
<1>5. \A m : SaidIn(w, m) = SaidIn(v, m) /\ WholeIn(w, m) = WholeIn(v, m) /\ SaidIn(v, m) \in Nat
 BY <1>3, SaidIs DEF SaidIn, WholeIn
<1>6. AgentTyped(w) BY <1>3, <1>4 DEF AgentTyped, SameTurns
<1>7. IngestTyped(w) BY <1>3, SameIngestIs
<1>8. Fresh(w)
 <2>1. Plausible(w, Cur(v)) BY <1>3, <1>4, CurPlausible DEF SameTurns
 <2> QED BY <1>1, <1>2, <1>3, <1>4, <2>1, FreshGrows DEF SameTurns
<1>9. \A t : Of(e, t) => t = v.turn BY <1>1, CurIs DEF Of
<1>10. Order(w) BY <1>1, <1>2, <1>3, <1>4, <1>9, OrderGrows DEF SameTurns
<1>11. Placed(w) BY <1>3, <1>5, PlacedGrows
<1>12. Queued(w) BY <1>1, <1>2, <1>3, <1>4, <1>5, QueuedGrows
<1>13. Now(w)
 <2>1. ~Plausible(v, Cur(w)) BY <1>4, CurIs DEF Plausible
 <2>2. Unheard(v, Cur(w)) /\ Cur(w) \notin DOMAIN w.said BY <1>3, <2>1, NothingKnown
 <2>3. Unheard(w, Cur(w)) BY <1>1, <1>2, <2>2, SameIngestIs DEF Unheard, DeltaIn, Offers, IsDelta
 <2> QED BY <2>2, <2>3 DEF Now
<1>14. \A t : t # 0 /\ Alive(w, t) => Alive(v, t) BY <1>2, <1>9, AliveGrows
<1>15. Covered(w)
 <2> SUFFICES ASSUME NEW m \in DOMAIN v.said, Alive(w, m[1]) PROVE CoveredAt(w, m) BY DEF Covered
 <2>1. m[1] # 0 BY <1>3 DEF Fresh, Plausible, Below
 <2>2. CoveredAt(v, m) BY <1>3, <1>14, <2>1 DEF Covered
 <2>3. CASE ~(m = Cur(v) /\ ~v.emitted)
  BY <1>1, <1>2, <1>5, <2>2, <2>3, CoveredElsewhere DEF IsDelta
 <2>4. CASE m = Cur(v) /\ ~v.emitted
  <3>1. Unheard(v, m) /\ text = WholeIn(v, m) BY <1>3, <2>4 DEF Now
  <3>2. Unheard(w, m) BY <1>1, <1>2, <3>1, SameIngestIs DEF Unheard, DeltaIn, Offers, IsDelta
  <3>3. n \in DOMAIN w.q /\ IsItem(w.q[n], m) /\ w.q[n].text = WholeIn(w, m)
   BY <1>1, <1>2, <1>5, <2>4, <3>1 DEF Offers, IsItem
  <3> QED BY <3>2, <3>3 DEF CoveredAt, ComesWhole
 <2> QED BY <2>3, <2>4
<1>16. Streams(w) BY <1>3, <1>14, StreamsKept
<1> QED BY <1>6, <1>7, <1>8, <1>10, <1>11, <1>12, <1>13, <1>15, <1>16 DEF Sound

(* A turn ends, or the session and with it any turn.                        *)
LEMMA CloseStep ==
  ASSUME NEW v, NEW w, Sound(v), SameIngest(v, w), SameTurns(v, w), w.said = v.said,
    w.turn = 0, w.item = 1, ~w.emitted,
    v.turn # 0 /\ ~v.emitted => Cur(v) \notin DOMAIN v.said,
    NEW n, NEW e, Offers(v, w, n, e),
    (e.type = "turn.completed" /\ e.turn = v.turn) \/ e.type = "session.exited"
  PROVE Sound(w)
<1>1. /\ AgentTyped(v) /\ IngestTyped(v) /\ Fresh(v) /\ Order(v) /\ Placed(v) /\ Queued(v)
      /\ Now(v) /\ Covered(v) /\ Streams(v)
 BY DEF Sound
<1>2. /\ v.turns \in Nat /\ v.item \in Nat \ {0} /\ w.item \in Nat
      /\ v.turn \in Nat /\ v.turn <= v.turns
 BY <1>1 DEF AgentTyped
<1>3. \A m : SaidIn(w, m) = SaidIn(v, m) /\ WholeIn(w, m) = WholeIn(v, m) /\ SaidIn(v, m) \in Nat
 BY <1>1, SaidIs DEF SaidIn, WholeIn
<1>4. AgentTyped(w) BY <1>1 DEF AgentTyped, SameTurns
<1>5. IngestTyped(w) BY <1>1, SameIngestIs
<1>6. Fresh(w)
 <2>1. v.turn # 0 => Below(v, v.turn) BY <1>1, <1>2 DEF AgentTyped, Below
 <2>2. ~AboutText(e) /\ (e.type = "turn.completed" => e.turn = 0 \/ Below(v, e.turn))
  BY <2>1 DEF AboutText
 <2>3. w.turns = v.turns /\ w.starting = v.starting /\ v.item \in Nat /\ w.item \in Nat
  BY <1>2 DEF SameTurns
 <2>4. Cur(v) \in DOMAIN w.said => Plausible(w, Cur(v))
  BY <1>1, <2>3, CurIs DEF Fresh, Plausible, Below
 <2> QED BY <1>1, <2>2, <2>3, <2>4, FreshGrows
<1>7. \A t : Of(e, t) => t = v.turn BY DEF Of, AboutText
<1>8. Order(w) BY <1>1, <1>2, <1>7, OrderGrows DEF SameTurns, AboutText
<1>9. Placed(w) BY <1>1, <1>3, PlacedGrows
<1>10. Queued(w) BY <1>1, <1>2, <1>3, QueuedGrows DEF AboutText
<1>11. Now(w) BY DEF Now
<1>12. \A t : t # 0 /\ Alive(w, t) => Alive(v, t) BY <1>7, AliveGrows
<1>13. Covered(w)
 <2> SUFFICES ASSUME NEW m \in DOMAIN v.said, Alive(w, m[1]) PROVE CoveredAt(w, m) BY DEF Covered
 <2>1. m[1] # 0 BY <1>1 DEF Fresh, Plausible, Below
 <2>2. CoveredAt(v, m) BY <1>1, <1>12, <2>1 DEF Covered
 <2>3. ~(m = Cur(v) /\ ~v.emitted) BY <2>1, CurIs
 <2> QED BY <1>3, <2>2, <2>3, CoveredElsewhere DEF IsDelta
<1>14. Streams(w) BY <1>1, <1>12, StreamsKept
<1> QED BY <1>4, <1>5, <1>6, <1>8, <1>9, <1>10, <1>11, <1>13, <1>14 DEF Sound

(* Events about other things are offered.                                   *)
LEMMA OtherStep ==
  ASSUME NEW v, NEW w, Sound(v), SameIngest(v, w), SameAgent(v, w),
    DOMAIN v.q \subseteq DOMAIN w.q, \A i \in DOMAIN v.q : w.q[i] = v.q[i],
    \A i \in DOMAIN w.q \ DOMAIN v.q : Other(w.q[i])
  PROVE Sound(w)
<1>1. /\ AgentTyped(v) /\ IngestTyped(v) /\ Fresh(v) /\ Order(v) /\ Placed(v) /\ Queued(v)
      /\ Now(v) /\ Covered(v) /\ Streams(v)
 BY DEF Sound
<1>2. /\ \A m : SaidIn(w, m) = SaidIn(v, m) /\ WholeIn(w, m) = WholeIn(v, m)
      /\ Cur(w) = Cur(v)
 BY DEF SameAgent, SaidIn, WholeIn, Cur
<1>3. \A i \in DOMAIN w.q \ DOMAIN v.q :
         /\ ~AboutText(w.q[i]) /\ \A t : ~Of(w.q[i], t)
         /\ \A m : ~IsDelta(w.q[i], m) /\ ~IsItem(w.q[i], m)
         /\ w.q[i].type \notin {"turn.completed", "session.exited", "item.completed"}
 BY DEF Other, AboutText, Of, IsDelta, IsItem
<1>4. \A i, m : DeltaIn(w, m, i) <=> DeltaIn(v, m, i) BY <1>3 DEF DeltaIn
<1>5. \A m : /\ \A k : Found(v, m, k) <=> Found(w, m, k)
             /\ Unheard(v, m) <=> Unheard(w, m)
             /\ ComesWhole(v, m) => ComesWhole(w, m)
 <2>1. \A m, k : Found(v, m, k) <=> Found(w, m, k) BY <1>4, SameIngestIs DEF Found, DeltaIn
 <2>2. \A m : Unheard(v, m) <=> Unheard(w, m) BY <1>4, SameIngestIs DEF Unheard, DeltaIn
 <2>3. \A m : ComesWhole(v, m) => ComesWhole(w, m) BY <1>2 DEF ComesWhole, SameAgent
 <2> QED BY <2>1, <2>2, <2>3
<1>6. \A t : Alive(w, t) => Alive(v, t) BY <1>3 DEF Alive, SameIngest, SameAgent
<1>7. AgentTyped(w) BY <1>1 DEF AgentTyped, SameAgent
<1>8. IngestTyped(w) BY <1>1, SameIngestIs
<1>9. Fresh(w)
 <2>1. \A m : Plausible(v, m) => Plausible(w, m) BY DEF Plausible, Below, SameAgent
 <2>2. \A t : Below(v, t) => Below(w, t) BY DEF Below, SameAgent
 <2> QED BY <1>1, <1>3, <2>1, <2>2 DEF Fresh, SameIngest, SameAgent
<1>10. Order(w)
 <2>1. \A t, i : Over(v, t, i) => Over(w, t, i) BY <1>3 DEF Over, SameAgent
 <2>2. ASSUME NEW i \in DOMAIN v.q PROVE EndsTurn(w, i) /\ EndsSession(w, i) /\ EndsItem(w, i)
  <3>1. EndsTurn(v, i) /\ EndsSession(v, i) /\ EndsItem(v, i) /\ w.q[i] = v.q[i] BY <1>1 DEF Order
  <3>2. EndsTurn(w, i) BY <2>1, <3>1 DEF EndsTurn
  <3>3. EndsSession(w, i) BY <1>3, <2>1, <3>1 DEF EndsSession, SameIngest, SameAgent
  <3>4. EndsItem(w, i) BY <1>3, <3>1 DEF EndsItem, SameAgent
  <3> QED BY <3>2, <3>3, <3>4
 <2>3. \A i \in DOMAIN w.q \ DOMAIN v.q : EndsTurn(w, i) /\ EndsSession(w, i) /\ EndsItem(w, i)
  BY <1>3 DEF EndsTurn, EndsSession, EndsItem
 <2>4. \A t \in w.completed : Over(w, t, 0) /\ t \notin DOMAIN w.remembered
  BY <1>1, <2>1 DEF Order, SameIngest
 <2> QED BY <2>2, <2>3, <2>4 DEF Order
<1>11. Placed(w)
 <2> SUFFICES ASSUME NEW m
     PROVE  Arranged(ShownIn(w, m), BufferedIn(w, m), SaidIn(w, m), w.ordered)
  BY DEF Placed
 <2>1. Arranged(ShownIn(v, m), BufferedIn(v, m), SaidIn(v, m), v.ordered) BY <1>1 DEF Placed
 <2> QED BY <1>2, <2>1, SameIngestIs DEF SameIngest
<1>12. Queued(w)
 <2>1. ASSUME NEW m, NEW i \in DOMAIN w.q, DeltaIn(w, m, i) PROVE DeltaSound(w, m, i)
  <3>1. i \in DOMAIN v.q /\ DeltaSound(v, m, i) /\ w.q[i] = v.q[i]
   BY <1>1, <1>4, <2>1 DEF Queued, DeltaIn
  <3>2. \A j : DeltaIn(w, m, j) => j \in DOMAIN v.q /\ DeltaIn(v, m, j) /\ w.q[j] = v.q[j]
   BY <1>4 DEF DeltaIn
  <3> QED BY <1>2, <3>1, <3>2, SameIngestIs DEF DeltaSound
 <2>2. ASSUME NEW m, NEW i \in DOMAIN w.q, IsItem(w.q[i], m)
     PROVE  w.q[i].text \in {<< >>, WholeIn(w, m)}
  BY <1>1, <1>2, <1>3, <2>2 DEF Queued
 <2> QED BY <2>1, <2>2 DEF Queued
<1>13. Now(w) BY <1>1, <1>2, <1>5 DEF Now, SameAgent
<1>14. Covered(w) BY <1>1, <1>2, <1>5, <1>6 DEF Covered, CoveredAt, SameAgent
<1>15. Streams(w) BY <1>1, <1>6, StreamsKept
<1> QED BY <1>7, <1>8, <1>9, <1>10, <1>11, <1>12, <1>13, <1>14, <1>15 DEF Sound

LEMMA QueuedKept ==
  ASSUME NEW v, NEW w, Queued(v), w.q = v.q, w.said = v.said,
    \A m : ShownIn(w, m) = ShownIn(v, m) /\ BufferedIn(w, m) = BufferedIn(v, m)
  PROVE Queued(w)
<1>1. \A m : /\ SaidIn(w, m) = SaidIn(v, m) /\ WholeIn(w, m) = WholeIn(v, m)
             /\ \A i : DeltaIn(w, m, i) <=> DeltaIn(v, m, i)
 BY DEF SaidIn, WholeIn, DeltaIn
<1>2. ASSUME NEW m, NEW i \in DOMAIN w.q, DeltaIn(w, m, i) PROVE DeltaSound(w, m, i)
 <2>1. DeltaSound(v, m, i) BY <1>1, <1>2 DEF Queued
 <2> QED BY <1>1, <2>1 DEF DeltaSound
<1>3. ASSUME NEW m, NEW i \in DOMAIN w.q, IsItem(w.q[i], m)
    PROVE  w.q[i].text \in {<< >>, WholeIn(w, m)}
 BY <1>1, <1>3 DEF Queued
<1> QED BY <1>2, <1>3 DEF Queued

(* A turn begins: nothing is known of it yet.                               *)
LEMMA BeginStep ==
  ASSUME NEW v, NEW w, Sound(v), SameIngest(v, w), w.q = v.q, w.said = v.said,
    v.starting, ~w.starting, w.turns = v.turns, w.turn = v.turns, w.item = v.item,
    w.emitted = v.emitted, w.quiet = v.quiet
  PROVE Sound(w)
<1>1. /\ AgentTyped(v) /\ IngestTyped(v) /\ Fresh(v) /\ Order(v) /\ Placed(v) /\ Queued(v)
      /\ Now(v) /\ Covered(v) /\ Streams(v)
 BY DEF Sound
<1>2. /\ v.turn = 0 /\ v.item = 1 /\ ~v.emitted /\ v.turns \in Nat BY <1>1 DEF AgentTyped
<1>3. \A t : Below(v, t) => Below(w, t) /\ t # w.turn /\ t # 0 /\ t \in Nat BY <1>2 DEF Below
<1>4. \A m : /\ SaidIn(w, m) = SaidIn(v, m) /\ WholeIn(w, m) = WholeIn(v, m)
             /\ \A i : DeltaIn(w, m, i) <=> DeltaIn(v, m, i)
 BY DEF SaidIn, WholeIn, DeltaIn
<1>5. \A m : Plausible(v, m) => Plausible(w, m) /\ m[1] # w.turn /\ m[1] # 0 BY <1>3 DEF Plausible
<1>6. AgentTyped(w) BY <1>1, <1>2 DEF AgentTyped
<1>7. IngestTyped(w) BY <1>1, SameIngestIs
<1>8. Fresh(w) BY <1>1, <1>3, <1>5 DEF Fresh, SameIngest
<1>9. Order(w)
 <2>1. \A t, i : t # w.turn /\ Over(v, t, i) => Over(w, t, i) BY DEF Over
 <2>2. ASSUME NEW i \in DOMAIN w.q PROVE EndsTurn(w, i) /\ EndsSession(w, i) /\ EndsItem(w, i)
  <3>1. EndsTurn(v, i) /\ EndsSession(v, i) /\ EndsItem(v, i) BY <1>1 DEF Order
  <3>2. EndsTurn(w, i) BY <1>1, <1>3, <2>1, <3>1 DEF EndsTurn, Fresh
  <3>3. EndsSession(w, i)
   <4> SUFFICES ASSUME v.q[i].type = "session.exited", NEW t \in 1..v.turns,
                       \/ t \in DOMAIN v.remembered
                       \/ \E h \in DOMAIN v.q : h < i /\ Of(v.q[h], t)
       PROVE  Over(w, t, i)
    BY DEF EndsSession, SameIngest
   <4>1. Over(v, t, i) BY <3>1 DEF EndsSession
   <4>2. CASE t \in DOMAIN v.remembered
    <5>1. \E m \in v.remembered[t] : m[1] = t BY <1>1, <4>2 DEF IngestTyped
    <5>2. t # w.turn BY <1>1, <1>5, <4>2, <5>1 DEF Fresh
    <5> QED BY <2>1, <4>1, <5>2
   <4>3. ASSUME NEW h \in DOMAIN v.q, Of(v.q[h], t) PROVE t # w.turn
    BY <1>1, <1>3, <1>5, <4>3 DEF Fresh, Of
   <4> QED BY <2>1, <4>1, <4>2, <4>3
  <3>4. EndsItem(w, i) BY <1>1, <1>5, <3>1 DEF EndsItem, Fresh, AboutText
  <3> QED BY <3>2, <3>3, <3>4
 <2>3. \A t \in w.completed : Over(w, t, 0) /\ t \notin DOMAIN w.remembered
  BY <1>1, <1>3, <2>1 DEF Order, Fresh, SameIngest
 <2> QED BY <2>2, <2>3 DEF Order
<1>10. Placed(w) BY <1>1, <1>4, SameIngestIs DEF Placed, SameIngest
<1>11. Queued(w) BY <1>1, SameIngestIs, QueuedKept
<1>12. Now(w)
 <2>1. ~Plausible(v, Cur(w)) BY <1>5, CurIs
 <2>2. Unheard(v, Cur(w)) /\ Cur(w) \notin DOMAIN w.said BY <1>1, <2>1, NothingKnown
 <2> QED BY <1>2, <1>4, <2>2, SameIngestIs DEF Now, Unheard
<1>13. \A t : t # w.turn /\ Alive(w, t) => Alive(v, t) BY DEF Alive, SameIngest
<1>14. Covered(w)
 <2> SUFFICES ASSUME NEW m \in DOMAIN v.said, Alive(w, m[1]) PROVE CoveredAt(w, m) BY DEF Covered
 <2>1. m[1] # w.turn /\ m[1] # 0 BY <1>1, <1>5 DEF Fresh
 <2>2. CoveredAt(v, m) /\ m # Cur(v) BY <1>1, <1>2, <1>13, <2>1, CurIs DEF Covered
 <2> QED BY <1>4, <2>2, SameIngestIs DEF CoveredAt, Found, Unheard, ComesWhole
<1>15. Streams(w)
 <2>1. \A x \in Range(v.messages) : x.id[1] # w.turn BY <1>1, <1>5 DEF Fresh, Ids
 <2> QED BY <1>1, <1>13, <2>1, SameIngestIs DEF Streams, SameIngest
<1> QED BY <1>6, <1>7, <1>8, <1>9, <1>10, <1>11, <1>12, <1>14, <1>15 DEF Sound

(* The user requests a turn, with a number nobody knows.                    *)
LEMMA PromptStep ==
  ASSUME NEW v, NEW w, Sound(v), SameIngest(v, w), w.q = v.q, w.said = v.said,
    w.starting, w.turns = v.turns + 1, v.turn = 0, w.turn = v.turn, w.item = v.item,
    w.emitted = v.emitted, w.quiet = v.quiet
  PROVE Sound(w)
<1>1. /\ AgentTyped(v) /\ IngestTyped(v) /\ Fresh(v) /\ Order(v) /\ Placed(v) /\ Queued(v)
      /\ Now(v) /\ Covered(v) /\ Streams(v)
 BY DEF Sound
<1>2. v.turns \in Nat BY <1>1 DEF AgentTyped
<1>3. \A t : Below(v, t) => Below(w, t) /\ t \in 1..v.turns BY <1>2 DEF Below
<1>4. \A m : /\ SaidIn(w, m) = SaidIn(v, m) /\ WholeIn(w, m) = WholeIn(v, m)
             /\ \A i : DeltaIn(w, m, i) <=> DeltaIn(v, m, i)
 BY DEF SaidIn, WholeIn, DeltaIn
<1>5. \A m : Plausible(v, m) => Plausible(w, m) /\ m[1] \in 1..v.turns BY <1>3 DEF Plausible
<1>6. AgentTyped(w) BY <1>1, <1>2 DEF AgentTyped
<1>7. IngestTyped(w) BY <1>1, SameIngestIs
<1>8. Fresh(w) BY <1>1, <1>3, <1>5 DEF Fresh, SameIngest
<1>9. Order(w)
 <2>1. \A t, i : Over(v, t, i) => Over(w, t, i) BY DEF Over
 <2>2. ASSUME NEW i \in DOMAIN w.q PROVE EndsTurn(w, i) /\ EndsSession(w, i) /\ EndsItem(w, i)
  <3>1. EndsTurn(v, i) /\ EndsSession(v, i) /\ EndsItem(v, i) BY <1>1 DEF Order
  <3>2. EndsTurn(w, i) /\ EndsItem(w, i) BY <2>1, <3>1 DEF EndsTurn, EndsItem
  <3>3. EndsSession(w, i)
   <4> SUFFICES ASSUME v.q[i].type = "session.exited", NEW t \in 1..w.turns,
                       \/ t \in DOMAIN v.remembered
                       \/ \E h \in DOMAIN v.q : h < i /\ Of(v.q[h], t)
       PROVE  Over(w, t, i)
    BY DEF EndsSession, SameIngest
   <4>1. CASE t \in DOMAIN v.remembered
    <5>1. \E m \in v.remembered[t] : m[1] = t BY <1>1, <4>1 DEF IngestTyped
    <5>2. t \in 1..v.turns BY <1>1, <1>5, <4>1, <5>1 DEF Fresh
    <5> QED BY <2>1, <3>1, <4>1, <5>2 DEF EndsSession
   <4>2. ASSUME NEW h \in DOMAIN v.q, h < i, Of(v.q[h], t) PROVE Over(w, t, i)
    <5>1. t \in 1..v.turns BY <1>1, <1>3, <1>5, <4>2 DEF Fresh, Of
    <5> QED BY <2>1, <3>1, <4>2, <5>1 DEF EndsSession
   <4> QED BY <4>1, <4>2
  <3> QED BY <3>2, <3>3
 <2>3. \A t \in w.completed : Over(w, t, 0) /\ t \notin DOMAIN w.remembered
  BY <1>1, <2>1 DEF Order, SameIngest
 <2> QED BY <2>2, <2>3 DEF Order
<1>10. Placed(w) BY <1>1, <1>4, SameIngestIs DEF Placed, SameIngest
<1>11. Queued(w) BY <1>1, SameIngestIs, QueuedKept
<1>12. Now(w) BY DEF Now
<1>13. \A t : Alive(w, t) => Alive(v, t) BY DEF Alive, SameIngest
<1>14. Covered(w)
 <2> SUFFICES ASSUME NEW m \in DOMAIN v.said, Alive(w, m[1]) PROVE CoveredAt(w, m) BY DEF Covered
 <2>1. CoveredAt(v, m) /\ Cur(w) = Cur(v) BY <1>1, <1>13 DEF Covered, Cur
 <2> QED BY <1>4, <2>1, SameIngestIs DEF CoveredAt, Found, Unheard, ComesWhole
<1>15. Streams(w) BY <1>1, <1>13, SameIngestIs DEF Streams, SameIngest
<1> QED BY <1>6, <1>7, <1>8, <1>9, <1>10, <1>11, <1>12, <1>14, <1>15 DEF Sound

(* The delivery mode changes.                                               *)
LEMMA SwitchStep ==
  ASSUME NEW v, NEW w, Sound(v), SameAgent(v, w), w.q = v.q, w.messages = v.messages,
    w.buffered = v.buffered, w.remembered = v.remembered, w.completed = v.completed,
    w.mode \in {"buffered", "streaming"}, ~w.ordered
  PROVE Sound(w)
<1>1. /\ AgentTyped(v) /\ IngestTyped(v) /\ Fresh(v) /\ Order(v) /\ Placed(v) /\ Queued(v)
      /\ Now(v) /\ Covered(v) /\ Streams(v)
 BY DEF Sound
<1>2. \A m : /\ SaidIn(w, m) = SaidIn(v, m) /\ WholeIn(w, m) = WholeIn(v, m)
             /\ ShownIn(w, m) = ShownIn(v, m) /\ BufferedIn(w, m) = BufferedIn(v, m)
             /\ RememberedIn(w, m) = RememberedIn(v, m)
             /\ \A i : DeltaIn(w, m, i) <=> DeltaIn(v, m, i)
 BY DEF SameAgent, SaidIn, WholeIn, DeltaIn, ShownIn, BufferedIn, RememberedIn
<1>3. Cur(w) = Cur(v) /\ \A t : Alive(w, t) <=> Alive(v, t) BY DEF SameAgent, Cur, Alive
<1>4. AgentTyped(w) BY <1>1 DEF AgentTyped, SameAgent
<1>5. IngestTyped(w) BY <1>1, <1>2 DEF IngestTyped
<1>6. Fresh(w)
 <2>1. \A m : Plausible(v, m) => Plausible(w, m) BY DEF Plausible, Below, SameAgent
 <2>2. \A t : Below(v, t) => Below(w, t) BY DEF Below, SameAgent
 <2> QED BY <1>1, <2>1, <2>2 DEF Fresh, SameAgent
<1>7. Order(w)
 <2>1. \A t, i : Over(v, t, i) => Over(w, t, i) BY DEF Over, SameAgent
 <2> QED BY <1>1, <2>1 DEF Order, EndsTurn, EndsSession, EndsItem, SameAgent
<1>8. Placed(w) BY <1>1, <1>2 DEF Placed, Arranged
<1>9. Queued(w) BY <1>1, <1>2, QueuedKept DEF SameAgent
<1>10. Now(w) BY <1>1, <1>2, <1>3 DEF Now, Unheard, SameAgent
<1>11. Covered(w)
 BY <1>1, <1>2, <1>3 DEF Covered, CoveredAt, Found, Unheard, ComesWhole, SameAgent
<1>12. Streams(w) BY <1>1, <1>2, <1>3 DEF Streams
<1> QED BY <1>4, <1>5, <1>6, <1>7, <1>8, <1>9, <1>10, <1>11, <1>12 DEF Sound

(* The server starts again: what was buffered or under way is lost.         *)
LEMMA LossStep ==
  ASSUME NEW v, NEW w, Sound(v), IsSeq(v.q),
    w.q = << >>, w.buffered = << >>, w.remembered = << >>,
    w.turn = 0, w.item = 1, ~w.emitted, ~w.starting, w.turns = v.turns, w.said = v.said,
    w.messages = v.messages, w.completed = v.completed, w.ordered = v.ordered,
    w.mode \in {"buffered", "streaming"}
  PROVE Sound(w)
<1>1. /\ AgentTyped(v) /\ IngestTyped(v) /\ Fresh(v) /\ Order(v) /\ Placed(v) /\ Queued(v)
      /\ Now(v) /\ Covered(v) /\ Streams(v)
 BY DEF Sound
<1>2. DOMAIN w.q = {} /\ DOMAIN w.buffered = {} /\ DOMAIN w.remembered = {} OBVIOUS
<1>3. \A m : /\ SaidIn(w, m) = SaidIn(v, m) /\ ShownIn(w, m) = ShownIn(v, m)
             /\ BufferedIn(w, m) = << >>
 BY <1>2 DEF SaidIn, ShownIn, BufferedIn
<1>4. AgentTyped(w) BY <1>1 DEF AgentTyped
<1>5. IngestTyped(w) BY <1>1, <1>2 DEF IngestTyped
<1>6. Fresh(w)
 <2>1. \A t : Below(v, t) => Below(w, t) /\ t # 0 BY DEF Below
 <2>2. \A m : Plausible(v, m) => Plausible(w, m) BY <2>1 DEF Plausible
 <2> QED BY <1>1, <1>2, <2>1, <2>2 DEF Fresh
<1>7. Order(w) BY <1>1, <1>2 DEF Order, Over, Fresh, Below
<1>8. Placed(w)
 <2> SUFFICES ASSUME NEW m PROVE Arranged(ShownIn(w, m), << >>, SaidIn(w, m), w.ordered)
  BY <1>3 DEF Placed
 <2>1. Arranged(ShownIn(v, m), BufferedIn(v, m), SaidIn(v, m), v.ordered) BY <1>1 DEF Placed
 <2>2. Counts(<< >>, Len(ShownIn(v, m))) BY NoText DEF Counts
 <2> QED BY <1>3, <2>1, <2>2, NoText DEF Arranged
<1>9. Queued(w) BY <1>2 DEF Queued
<1>10. Now(w) BY DEF Now
<1>11. ASSUME NEW t, t # 0, Alive(w, t)
    PROVE  t \in v.completed /\ Alive(v, t) /\ Over(v, t, 0) /\ t \notin DOMAIN v.remembered
 BY <1>1, <1>2, <1>11 DEF Alive, Order
<1>12. Covered(w)
 <2> SUFFICES ASSUME NEW m \in DOMAIN v.said, Alive(w, m[1]) PROVE CoveredAt(w, m) BY DEF Covered
 <2>1. m[1] # 0 BY <1>1 DEF Fresh, Plausible, Below
 <2>2. CoveredAt(v, m) /\ Over(v, m[1], 0) /\ m[1] \notin DOMAIN v.remembered
  BY <1>1, <1>11, <2>1 DEF Covered
 <2>3. ASSUME NEW i \in DOMAIN v.q PROVE ~IsItem(v.q[i], m) /\ ~DeltaIn(v, m, i)
  <3>1. 0 < i BY LenProperties DEF IsSeq
  <3> QED BY <2>2, <3>1 DEF Over, Of, AboutText, IsItem, DeltaIn, IsDelta
 <2>4. m # Cur(v) BY <2>2, CurIs DEF Over
 <2>5. \A k \in 1..SaidIn(v, m) : Found(v, m, k) BY <2>2, <2>3, <2>4 DEF CoveredAt, ComesWhole
 <2>6. BufferedIn(v, m) = << >> BY <1>1, <2>2 DEF BufferedIn, IngestTyped, RememberedIn
 <2> QED BY <1>3, <2>3, <2>5, <2>6 DEF CoveredAt, Found
<1>13. Streams(w) BY <1>1, <1>11 DEF Streams, RememberedIn, Fresh, Plausible, Below, Ids
<1> QED BY <1>4, <1>5, <1>6, <1>7, <1>8, <1>9, <1>10, <1>12, <1>13 DEF Sound

--------------------
(* Ingestion takes e, the first event of the queue.                         *)
Takes(v, w, e) ==
    /\ 1 \in DOMAIN v.q /\ v.q[1] = e
    /\ \A i \in DOMAIN w.q : i \in Nat \ {0} /\ i + 1 \in DOMAIN v.q /\ w.q[i] = v.q[i + 1]
    /\ \A i \in DOMAIN v.q : i \in Nat \ {0} /\ (i # 1 => i - 1 \in DOMAIN w.q /\ w.q[i - 1] = v.q[i])

LEMMA TakesIs ==
  ASSUME NEW v, NEW w, IsSeq(v.q), v.q # << >>, w.q = Tail(v.q)
  PROVE IsSeq(w.q) /\ Takes(v, w, Head(v.q))
<1> DEFINE s == v.q
           t == w.q
<1>1. /\ Len(t) = Len(s) - 1 /\ \A i \in 1..Len(t) : t[i] = s[i + 1]
      /\ t \in Seq(Range(s)) /\ Head(s) = s[1]
 <2>1. /\ Len(Tail(s)) = Len(s) - 1 /\ \A i \in 1..Len(Tail(s)) : Tail(s)[i] = s[i + 1]
       /\ Tail(s) \in Seq(Range(s)) /\ Head(s) = s[1]
  <3> HIDE DEF s
  <3>1. s \in Seq(Range(s)) /\ s # << >> BY DEF IsSeq, s
  <3> QED BY <3>1, HeadTailProperties
 <2> QED BY <2>1
<1>2. Len(s) \in Nat /\ Len(s) # 0 /\ DOMAIN s = 1..Len(s) /\ DOMAIN t = 1..(Len(s) - 1)
 BY <1>1, LenProperties, EmptySeq DEF IsSeq
<1>3. IsSeq(t) BY TailIs
<1> HIDE DEF s, t
<1>4. \A i \in DOMAIN s : i \in Nat \ {0} /\ (i # 1 => i - 1 \in DOMAIN t /\ t[i - 1] = s[i])
 BY <1>1, <1>2
<1>5. \A i \in DOMAIN t : i \in Nat \ {0} /\ i + 1 \in DOMAIN s /\ t[i] = s[i + 1] BY <1>1, <1>2
<1> QED BY <1>1, <1>2, <1>3, <1>4, <1>5 DEF Takes, s, t

LEMMA FreshTaken ==
  ASSUME NEW v, NEW w, NEW e, Takes(v, w, e), SameAgent(v, w), Fresh(v),
    \A m \in Ids(w.messages) : Plausible(v, m),
    \A t \in DOMAIN w.remembered : \A m \in w.remembered[t] : Plausible(v, m),
    \A t \in w.completed : Below(v, t)
  PROVE Fresh(w)
<1>1. \A t : Below(v, t) => Below(w, t) BY DEF Below, SameAgent
<1>2. \A m : Plausible(v, m) => Plausible(w, m) BY DEF Plausible, Below, SameAgent
<1>3. ASSUME NEW i \in DOMAIN w.q
    PROVE  /\ AboutText(w.q[i]) => Plausible(w, w.q[i].message)
           /\ w.q[i].type = "turn.completed" => w.q[i].turn = 0 \/ Below(w, w.q[i].turn)
 BY <1>1, <1>2 DEF Takes, Fresh
<1> QED BY <1>1, <1>2, <1>3 DEF Fresh, SameAgent

LEMMA OrderTaken ==
  ASSUME NEW v, NEW w, NEW e, Takes(v, w, e), SameAgent(v, w), Order(v),
    \A t \in DOMAIN w.remembered : t \in DOMAIN v.remembered \/ Of(e, t),
    \A t \in w.completed :
       \/ t \in v.completed
       \/ e.type = "turn.completed" /\ e.turn = t /\ t # 0 /\ t \notin DOMAIN w.remembered
  PROVE Order(w)
<1>1. ASSUME NEW t, NEW i \in Nat, Over(v, t, i + 1) PROVE Over(w, t, i)
 BY <1>1 DEF Over, Takes, SameAgent
<1>2. ASSUME NEW t, Over(v, t, 0) PROVE Over(w, t, 0) BY <1>2 DEF Over, Takes, SameAgent
<1>3. ASSUME NEW i \in DOMAIN w.q PROVE EndsTurn(w, i) /\ EndsSession(w, i) /\ EndsItem(w, i)
 <2>1. /\ i \in Nat \ {0} /\ i + 1 \in DOMAIN v.q /\ w.q[i] = v.q[i + 1]
       /\ EndsTurn(v, i + 1) /\ EndsSession(v, i + 1) /\ EndsItem(v, i + 1)
  BY DEF Takes, Order
 <2>2. EndsTurn(w, i) BY <1>1, <2>1 DEF EndsTurn
 <2>3. EndsSession(w, i)
  <3> SUFFICES ASSUME v.q[i + 1].type = "session.exited", NEW t \in 1..v.turns,
                      \/ t \in DOMAIN w.remembered
                      \/ \E h \in DOMAIN w.q : h < i /\ Of(w.q[h], t)
      PROVE  Over(w, t, i)
   BY <2>1 DEF EndsSession, SameAgent
  <3>1. t \in DOMAIN v.remembered \/ \E h \in DOMAIN v.q : h < i + 1 /\ Of(v.q[h], t)
   <4>1. ASSUME NEW h \in DOMAIN w.q, h < i, Of(w.q[h], t)
       PROVE  \E g \in DOMAIN v.q : g < i + 1 /\ Of(v.q[g], t)
    BY <2>1, <4>1 DEF Takes
   <4>2. ASSUME Of(e, t) PROVE \E g \in DOMAIN v.q : g < i + 1 /\ Of(v.q[g], t)
    BY <2>1, <4>2 DEF Takes
   <4> QED BY <4>1, <4>2
  <3>2. Over(v, t, i + 1) BY <2>1, <3>1 DEF EndsSession
  <3> QED BY <1>1, <2>1, <3>2
 <2>4. EndsItem(w, i)
  <3>1. \A j \in DOMAIN w.q : i < j => i + 1 < j + 1 /\ j + 1 \in DOMAIN v.q /\ w.q[j] = v.q[j + 1]
   BY <2>1 DEF Takes
  <3> QED BY <2>1, <3>1 DEF EndsItem, SameAgent
 <2> QED BY <2>2, <2>3, <2>4
<1>4. ASSUME NEW t \in w.completed PROVE Over(w, t, 0) /\ t \notin DOMAIN w.remembered
 <2>1. CASE t \in v.completed
  <3>1. Over(v, t, 0) /\ t \notin DOMAIN v.remembered BY <2>1 DEF Order
  <3>2. ~Of(e, t) BY <3>1 DEF Over, Takes
  <3> QED BY <1>2, <3>1, <3>2
 <2>2. CASE e.type = "turn.completed" /\ e.turn = t /\ t # 0 /\ t \notin DOMAIN w.remembered
  <3>1. Over(v, t, 1) BY <2>2 DEF Order, EndsTurn, Takes
  <3>2. Over(w, t, 0) BY <3>1 DEF Over, Takes, SameAgent
  <3> QED BY <2>2, <3>2
 <2> QED BY <2>1, <2>2
<1> QED BY <1>3, <1>4 DEF Order

\* What the handler of e makes of message m: text moves towards the thread.
Receives(v, w, e, m) ==
    LET before == Range(ShownIn(v, m)) \cup Range(BufferedIn(v, m))
        after == Range(ShownIn(w, m)) \cup Range(BufferedIn(w, m))
    IN  /\ \A k \in after : k \in before \/ (AboutText(e) /\ e.message = m /\ k \in Range(e.text))
        /\ Alive(w, m[1]) => before \subseteq after
        /\ IsDelta(e, m) => Range(e.text) \subseteq after
        /\ IsItem(e, m) /\ Unheard(v, m) => Range(e.text) \subseteq after
        /\ Arranged(ShownIn(w, m), BufferedIn(w, m), SaidIn(w, m), w.ordered)

LEMMA SequencesIn ==
  ASSUME NEW v, IngestTyped(v)
  PROVE \A m : ShownIn(v, m) \in Seq(Nat) /\ BufferedIn(v, m) \in Seq(Nat)
BY ShownIs, NoText DEF IngestTyped, ShownIn, BufferedIn

LEMMA WholeIs ==
  ASSUME NEW v, NEW m, SaidIn(v, m) \in Nat
  PROVE WholeIn(v, m) \in Seq(Nat) /\ Range(WholeIn(v, m)) = 1..SaidIn(v, m)
        /\ Len(WholeIn(v, m)) = SaidIn(v, m) /\ Counts(WholeIn(v, m), 0)
<1> DEFINE whole == WholeIn(v, m)
           n == SaidIn(v, m)
<1>1. whole = [k \in 1..n |-> k] BY DEF WholeIn
<1>2. whole \in [1..n -> Nat] BY <1>1
<1>3. whole \in Seq(Nat) BY <1>2, FunctionIsSeq
<1>4. Len(whole) = n BY <1>1, <1>3, LenProperties
<1>5. Range(whole) = 1..n BY <1>1 DEF Range
<1> HIDE DEF whole
<1>6. Counts(whole, 0) BY <1>1, <1>4 DEF Counts
<1> QED BY <1>3, <1>4, <1>5, <1>6 DEF whole

LEMMA TakenStep ==
  ASSUME NEW v, NEW w, NEW e, Sound(v), IsSeq(v.q), Takes(v, w, e), SameAgent(v, w),
    IngestTyped(w), Streams(w), \A m : Receives(v, w, e, m),
    \A m \in Ids(w.messages) : Plausible(v, m),
    \A t \in DOMAIN w.remembered : \A m \in w.remembered[t] : Plausible(v, m),
    \A t \in DOMAIN w.remembered : t \in DOMAIN v.remembered \/ Of(e, t),
    \A t \in w.completed :
       \/ t \in v.completed
       \/ e.type = "turn.completed" /\ e.turn = t /\ t # 0 /\ t \notin DOMAIN w.remembered
  PROVE Sound(w)
<1>1. /\ AgentTyped(v) /\ IngestTyped(v) /\ Fresh(v) /\ Order(v) /\ Placed(v) /\ Queued(v)
      /\ Now(v) /\ Covered(v) /\ Streams(v)
 BY DEF Sound
<1>2. /\ Cur(w) = Cur(v) /\ w.emitted = v.emitted /\ v.item \in Nat
      /\ \A m : SaidIn(w, m) = SaidIn(v, m) /\ WholeIn(w, m) = WholeIn(v, m) /\ SaidIn(v, m) \in Nat
 BY <1>1, SaidIs DEF SameAgent, Cur, SaidIn, WholeIn, AgentTyped
<1>3. AgentTyped(w) BY <1>1 DEF AgentTyped, SameAgent
<1>4. Fresh(w)
 <2>1. \A t \in w.completed : Below(v, t) BY <1>1 DEF Fresh, Takes
 <2> QED BY <1>1, <2>1, FreshTaken
<1>5. Order(w) BY <1>1, OrderTaken
<1>6. Placed(w) BY DEF Placed, Receives
<1>7. \A m, i : DeltaIn(w, m, i) => i \in Nat \ {0} /\ DeltaIn(v, m, i + 1) /\ w.q[i] = v.q[i + 1]
 BY DEF DeltaIn, Takes
<1>8. ASSUME NEW m, NEW i \in Nat \ {0}, DeltaIn(v, m, i + 1)
    PROVE  ~IsItem(e, m)
 <2>1. EndsItem(v, 1) /\ 1 < i + 1 BY <1>1 DEF Order, Takes
 <2> QED BY <1>8, <2>1 DEF EndsItem, IsItem, DeltaIn, IsDelta, AboutText, Takes
<1>9. Queued(w)
 <2>1. ASSUME NEW m, NEW i \in DOMAIN w.q, DeltaIn(w, m, i) PROVE DeltaSound(w, m, i)
  <3> DEFINE text == w.q[i].text
  <3>1. /\ i \in Nat \ {0} /\ DeltaIn(v, m, i + 1) /\ i + 1 \in DOMAIN v.q
        /\ w.q[i] = v.q[i + 1]
   BY <1>7, <2>1 DEF DeltaIn
  <3>2. DeltaSound(v, m, i + 1) BY <1>1, <3>1 DEF Queued
  <3>3. /\ text \in Seq(Nat) /\ text # << >> /\ text[1] # 0 /\ Counts(text, text[1] - 1)
        /\ \A k \in Range(text) :
              /\ k \in 1..SaidIn(v, m)
              /\ k \notin Range(ShownIn(v, m)) \cup Range(BufferedIn(v, m))
        /\ \A j \in DOMAIN v.q : i + 1 < j /\ DeltaIn(v, m, j) =>
                                    text[Len(text)] < v.q[j].text[1]
   BY <3>1, <3>2 DEF DeltaSound
  <3> HIDE DEF text
  <3>4. ASSUME NEW j \in DOMAIN w.q, i < j, DeltaIn(w, m, j)
      PROVE  text[Len(text)] < w.q[j].text[1]
   <4>1. /\ j \in Nat \ {0} /\ DeltaIn(v, m, j + 1) /\ j + 1 \in DOMAIN v.q
         /\ w.q[j] = v.q[j + 1]
    BY <1>7, <3>4 DEF DeltaIn
   <4>2. i + 1 < j + 1 BY <3>1, <3>4, <4>1
   <4> QED BY <3>3, <4>1, <4>2
  <3>5. ASSUME NEW k \in Range(text)
      PROVE  k \notin Range(ShownIn(w, m)) \cup Range(BufferedIn(w, m))
   <4>1. SUFFICES ASSUME AboutText(e), e.message = m, k \in Range(e.text) PROVE FALSE
    BY <3>3, <3>5 DEF Receives
   <4>2. DeltaIn(v, m, 1) /\ v.q[1] = e
    BY <1>8, <3>1, <4>1 DEF AboutText, IsItem, DeltaIn, IsDelta, Takes
   <4>3. DeltaSound(v, m, 1) /\ 1 < i + 1 BY <1>1, <3>1, <4>2 DEF Queued, DeltaIn
   <4>4. /\ e.text \in Seq(Nat) /\ e.text # << >> /\ e.text[1] # 0
         /\ Counts(e.text, e.text[1] - 1) /\ e.text[Len(e.text)] < text[1]
    BY <3>1, <4>2, <4>3 DEF DeltaSound, text
   <4>5. e.text[1] - 1 \in Nat
    <5>1. 1 \in 1..Len(e.text) BY <4>4, TextIs
    <5> QED BY <4>4, <5>1, TextIs
   <4>6. k <= e.text[Len(e.text)]
    <5>1. PICK h \in 1..Len(e.text) : k = e.text[h] BY <4>1, <4>4, TextIs
    <5>2. Len(e.text) \in Nat /\ Len(e.text) \in 1..Len(e.text) BY <4>4, TextIs, TextAfter, <4>5
    <5> DEFINE a == e.text[1] - 1
    <5>3. a \in Nat /\ Counts(e.text, a) BY <4>4, <4>5
    <5> HIDE DEF a
    <5>4. e.text[h] = a + h /\ e.text[Len(e.text)] = a + Len(e.text) BY <5>2, <5>3 DEF Counts
    <5> QED BY <5>1, <5>2, <5>3, <5>4
   <4>7. text[1] \in Nat /\ text[1] - 1 \in Nat
    <5>1. Len(text) \in Nat /\ Len(text) # 0 BY <3>3, TextIs
    <5>2. text[1] \in Nat BY <3>3, <5>1, TextIs
    <5> QED BY <3>3, <5>2
   <4>8. text[1] - 1 < k BY <3>3, <3>5, <4>7, TextAfter
   <4>9. k \in Nat /\ e.text[Len(e.text)] \in Nat
    <5>1. Len(e.text) \in 1..Len(e.text) BY <4>4, <4>5, TextAfter
    <5> QED BY <3>3, <3>5, <4>4, <5>1, TextIs
   <4> QED BY <4>4, <4>6, <4>7, <4>8, <4>9
  <3> QED BY <1>2, <3>3, <3>4, <3>5 DEF DeltaSound, text
 <2>2. ASSUME NEW m, NEW i \in DOMAIN w.q, IsItem(w.q[i], m)
     PROVE  w.q[i].text \in {<< >>, WholeIn(w, m)}
  <3>1. i + 1 \in DOMAIN v.q /\ w.q[i] = v.q[i + 1] BY DEF Takes
  <3>2. v.q[i + 1].text \in {<< >>, WholeIn(v, m)} BY <1>1, <2>2, <3>1 DEF Queued
  <3> QED BY <1>2, <3>1, <3>2
 <2> QED BY <2>1, <2>2 DEF Queued
<1>10. ASSUME NEW m, Unheard(v, m), ~IsItem(e, m) PROVE Unheard(w, m)
 <2>1. ~IsDelta(e, m) BY <1>10 DEF Unheard, DeltaIn, Takes
 <2>2. Range(ShownIn(v, m)) = {} /\ Range(BufferedIn(v, m)) = {} BY <1>10, NoText DEF Unheard
 <2>3. Range(ShownIn(w, m)) = {} /\ Range(BufferedIn(w, m)) = {}
  BY <1>10, <2>1, <2>2 DEF Receives, AboutText, IsItem, IsDelta
 <2>4. ShownIn(w, m) = << >> /\ BufferedIn(w, m) = << >> BY <2>3, SequencesIn, TextIs
 <2>5. \A i \in DOMAIN w.q : ~DeltaIn(w, m, i) BY <1>7, <1>10 DEF Unheard, DeltaIn
 <2> QED BY <2>4, <2>5 DEF Unheard
<1>11. Now(w)
 <2>1. ~IsItem(e, Cur(v))
  <3>1. EndsItem(v, 1) BY <1>1 DEF Order, Takes
  <3>2. IsItem(e, Cur(v)) => v.item < v.item BY <3>1, CurIs DEF EndsItem, IsItem, Takes
  <3> QED BY <1>2, <3>2
 <2> QED BY <1>1, <1>2, <1>10, <2>1 DEF Now, SameAgent
<1>12. \A t : t # 0 /\ Alive(w, t) => Alive(v, t)
 <2>1. \A i \in DOMAIN w.q : i + 1 \in DOMAIN v.q /\ w.q[i] = v.q[i + 1] BY DEF Takes
 <2>2. \A t \in w.completed : t \in v.completed \/ Of(v.q[1], t) BY DEF Of, Takes
 <2> QED BY <2>1, <2>2 DEF Alive, SameAgent, Takes
<1>13. Covered(w)
 <2> SUFFICES ASSUME NEW m \in DOMAIN v.said, Alive(w, m[1]) PROVE CoveredAt(w, m)
  BY DEF Covered, SameAgent
 <2>1. m[1] # 0 BY <1>1 DEF Fresh, Plausible, Below
 <2>2. CoveredAt(v, m) BY <1>1, <1>12, <2>1 DEF Covered
 <2>3. ASSUME NEW k, Found(v, m, k) PROVE Found(w, m, k)
  <3>1. CASE k \in Range(ShownIn(v, m)) \cup Range(BufferedIn(v, m)) BY <3>1 DEF Receives, Found
  <3>2. ASSUME NEW i \in DOMAIN v.q, DeltaIn(v, m, i), k \in Range(v.q[i].text)
      PROVE  Found(w, m, k)
   <4>1. CASE i = 1 BY <3>2, <4>1 DEF Receives, Found, Takes, DeltaIn
   <4>2. CASE i # 1 BY <3>2, <4>2 DEF Found, Takes, DeltaIn
   <4> QED BY <4>1, <4>2
  <3> QED BY <2>3, <3>1, <3>2 DEF Found
 <2>4. CASE \A k \in 1..SaidIn(v, m) : Found(v, m, k) BY <1>2, <2>3, <2>4 DEF CoveredAt
 <2>5. CASE Unheard(v, m) /\ m = Cur(v) /\ ~v.emitted
  <3>1. ~IsItem(e, m)
   <4>1. EndsItem(v, 1) BY <1>1 DEF Order, Takes
   <4>2. IsItem(e, Cur(v)) => v.item < v.item BY <4>1, CurIs DEF EndsItem, IsItem, Takes
   <4> QED BY <1>2, <2>5, <4>2
  <3> QED BY <1>2, <1>10, <2>5, <3>1 DEF CoveredAt, ComesWhole
 <2>6. ASSUME Unheard(v, m), NEW i \in DOMAIN v.q, IsItem(v.q[i], m),
              v.q[i].text = WholeIn(v, m)
     PROVE  CoveredAt(w, m)
  <3>1. CASE i = 1
   <4>1. IsItem(e, m) /\ e.text = WholeIn(v, m) BY <2>6, <3>1 DEF Takes
   <4>2. Range(e.text) = 1..SaidIn(v, m) BY <1>2, <4>1, WholeIs
   <4> QED BY <1>2, <2>6, <4>1, <4>2 DEF Receives, CoveredAt, Found
  <3>2. CASE i # 1
   <4>1. EndsItem(v, 1) /\ 1 < i BY <1>1, <3>2 DEF Order, Takes
   <4>2. ~IsItem(e, m) BY <2>6, <4>1 DEF EndsItem, IsItem, AboutText, Takes
   <4>3. i - 1 \in DOMAIN w.q /\ w.q[i - 1] = v.q[i] BY <3>2 DEF Takes
   <4>4. \E j \in DOMAIN w.q : IsItem(w.q[j], m) /\ w.q[j].text = WholeIn(w, m)
    BY <1>2, <2>6, <4>3
   <4> QED BY <1>10, <2>6, <4>2, <4>4 DEF CoveredAt, ComesWhole
  <3> QED BY <3>1, <3>2
 <2> QED BY <2>2, <2>4, <2>5, <2>6 DEF CoveredAt, ComesWhole
<1> QED BY <1>3, <1>4, <1>5, <1>6, <1>9, <1>11, <1>13 DEF Sound

--------------------
(* Text that is new goes behind what is buffered, or with it to the thread. *)
LEMMA Rearranged ==
  ASSUME NEW s \in Seq(Nat), NEW b \in Seq(Nat), NEW text \in Seq(Nat), NEW n \in Nat,
    NEW ordered, Arranged(s, b, n, ordered), IsInjective(text),
    Range(text) \subseteq 1..n, Range(text) \cap (Range(s) \cup Range(b)) = {},
    ordered => Counts(text, Len(s) + Len(b))
  PROVE /\ Arranged(s, b \o text, n, ordered)
        /\ Arranged(s \o (b \o text), << >>, n, ordered)
        /\ (ordered => b = << >>) => Arranged(s \o text, b, n, ordered)
<1>1. /\ IsInjective(s) /\ IsInjective(b) /\ Range(s) \cap Range(b) = {}
      /\ Range(s) \subseteq 1..n /\ Range(b) \subseteq 1..n
      /\ ordered => Counts(s, 0) /\ Counts(b, Len(s))
 BY DEF Arranged
<1>2. Len(s) \in Nat /\ Len(b) \in Nat /\ Len(s) + Len(b) \in Nat /\ 0 + Len(s) = Len(s) BY TextIs
<1> DEFINE c == b \o text
           d == s \o text
           all == s \o c
<1>3. /\ c \in Seq(Nat) /\ Range(c) = Range(b) \cup Range(text)
      /\ Range(b) \cap Range(text) = {} => IsInjective(c)
      /\ Counts(b, Len(s)) /\ Counts(text, Len(s) + Len(b)) => Counts(c, Len(s))
 BY <1>1, <1>2, Joined
<1>4. /\ d \in Seq(Nat) /\ Range(d) = Range(s) \cup Range(text)
      /\ Range(s) \cap Range(text) = {} => IsInjective(d)
      /\ Counts(s, 0) /\ Counts(text, 0 + Len(s)) => Counts(d, 0)
 BY <1>1, <1>2, Joined
<1> HIDE DEF c, d
<1>5. IsInjective(c) /\ Range(s) \cap Range(c) = {} /\ Range(c) \subseteq 1..n BY <1>1, <1>3
<1>6. Arranged(s, c, n, ordered) BY <1>1, <1>3, <1>5 DEF Arranged
<1>7. /\ all \in Seq(Nat) /\ Range(all) = Range(s) \cup Range(c)
      /\ IsInjective(all)
      /\ Counts(s, 0) /\ Counts(c, 0 + Len(s)) => Counts(all, 0)
 BY <1>1, <1>3, <1>5, Joined
<1> HIDE DEF all
<1>8. Range(all) \subseteq 1..n BY <1>1, <1>5, <1>7
<1>9. \A k : Counts(<< >>, k) BY NoText DEF Counts
<1>10. Arranged(all, << >>, n, ordered) BY <1>1, <1>2, <1>3, <1>7, <1>8, <1>9, NoText DEF Arranged
<1>11. ASSUME ordered => b = << >> PROVE Arranged(d, b, n, ordered)
 <2>1. IsInjective(d) /\ Range(d) \cap Range(b) = {} /\ Range(d) \subseteq 1..n BY <1>1, <1>4
 <2>2. ordered => Counts(d, 0) /\ Counts(b, Len(d))
  <3>1. ordered => Len(s) + Len(b) = 0 + Len(s) BY <1>2, <1>11, NoText
  <3> QED BY <1>1, <1>4, <1>9, <1>11, <3>1
 <2> QED BY <1>1, <2>1, <2>2 DEF Arranged
<1> QED BY <1>6, <1>10, <1>11 DEF c, d, all

(* What is buffered goes to the thread.                                     *)
LEMMA Moved ==
  ASSUME NEW s \in Seq(Nat), NEW b \in Seq(Nat), NEW n \in Nat, NEW ordered,
    Arranged(s, b, n, ordered)
  PROVE Arranged(s \o b, << >>, n, ordered)
<1>1. /\ IsInjective(s) /\ IsInjective(b) /\ Range(s) \cap Range(b) = {}
      /\ Range(s) \subseteq 1..n /\ Range(b) \subseteq 1..n
      /\ ordered => Counts(s, 0) /\ Counts(b, Len(s))
 BY DEF Arranged
<1>2. Len(s) \in Nat /\ 0 + Len(s) = Len(s) BY TextIs
<1> DEFINE d == s \o b
<1>3. /\ d \in Seq(Nat) /\ Range(d) = Range(s) \cup Range(b)
      /\ IsInjective(d)
      /\ Counts(s, 0) /\ Counts(b, 0 + Len(s)) => Counts(d, 0)
 BY <1>1, Joined
<1> HIDE DEF d
<1>4. \A k : Counts(<< >>, k) BY NoText DEF Counts
<1>5. Range(d) \subseteq 1..n BY <1>1, <1>3
<1>6. Arranged(d, << >>, n, ordered) BY <1>1, <1>2, <1>3, <1>4, <1>5, NoText DEF Arranged
<1> QED BY <1>6 DEF d

--------------------
(* The text of the first event is new, and the next if nobody changed the   *)
(* delivery mode.                                                           *)
LEMMA CountedText ==
  ASSUME NEW text \in Seq(Nat), text # << >>, text[1] # 0, Counts(text, text[1] - 1)
  PROVE /\ text[1] \in Nat /\ text[1] - 1 \in Nat /\ text[1] \in Range(text)
        /\ IsInjective(text) /\ Len(text) \in Nat /\ Len(text) # 0
        /\ text[Len(text)] = text[1] - 1 + Len(text)
        /\ \A k \in Range(text) : k \in Nat /\ text[1] <= k /\ k <= text[Len(text)]
<1>1. Len(text) \in Nat /\ Len(text) # 0 BY TextIs
<1>2. 1 \in 1..Len(text) /\ Len(text) \in 1..Len(text) BY <1>1
<1>3. text[1] \in Nat /\ text[1] \in Range(text) BY <1>2, TextIs
<1>4. text[1] - 1 \in Nat BY <1>3
<1>5. IsInjective(text) BY <1>4, CountsApart
<1>6. text[Len(text)] = text[1] - 1 + Len(text) BY <1>2 DEF Counts
<1>7. ASSUME NEW k \in Range(text) PROVE k \in Nat /\ text[1] <= k /\ k <= text[Len(text)]
 <2>1. PICK h \in 1..Len(text) : k = text[h] BY TextIs
 <2>2. k = text[1] - 1 + h BY <2>1 DEF Counts
 <2> DEFINE a == text[1]
            z == text[Len(text)]
            l == Len(text)
 <2>3. a \in Nat /\ h \in Nat /\ l \in Nat /\ 1 <= h /\ h <= l /\ k = a - 1 + h /\ z = a - 1 + l
  BY <1>1, <1>3, <1>6, <2>2
 <2> HIDE DEF a, z, l
 <2>4. k \in Nat /\ a <= k /\ k <= z BY <2>3
 <2> QED BY <2>4 DEF a, z
<1> QED BY <1>1, <1>3, <1>4, <1>5, <1>6, <1>7

LEMMA CountsTo ==
  ASSUME NEW s \in Seq(Nat), NEW n \in Nat, Counts(s, n)
  PROVE \A k \in Nat : k \in Range(s) <=> n < k /\ k <= n + Len(s)
<1>1. Len(s) \in Nat BY TextIs
<1>2. ASSUME NEW k \in Range(s) PROVE k \in Nat /\ n < k /\ k <= n + Len(s)
 <2>1. PICK h \in 1..Len(s) : k = s[h] BY TextIs
 <2>2. k = n + h BY <2>1 DEF Counts
 <2> QED BY <1>1, <2>2
<1>3. ASSUME NEW k \in Nat, n < k, k <= n + Len(s) PROVE k \in Range(s)
 <2>1. k - n \in 1..Len(s) BY <1>1, <1>3
 <2>2. s[k - n] = n + (k - n) /\ s[k - n] \in Range(s) BY <2>1, TextIs DEF Counts
 <2> QED BY <2>2
<1> QED BY <1>2, <1>3

LEMMA FirstDelta ==
  ASSUME NEW v, NEW w, NEW e, Sound(v), Takes(v, w, e), NEW m, IsDelta(e, m)
  PROVE LET s == ShownIn(v, m)
            b == BufferedIn(v, m)
        IN  /\ Plausible(v, m)
            /\ e.text \in Seq(Nat) /\ IsInjective(e.text)
            /\ Range(e.text) \subseteq 1..SaidIn(v, m)
            /\ Range(e.text) \cap (Range(s) \cup Range(b)) = {}
            /\ v.ordered => Counts(e.text, Len(s) + Len(b))
<1> DEFINE s == ShownIn(v, m)
           b == BufferedIn(v, m)
           text == e.text
<1>1. /\ IngestTyped(v) /\ Fresh(v) /\ Placed(v) /\ Queued(v) /\ Covered(v) /\ AgentTyped(v)
      /\ 1 \in DOMAIN v.q /\ v.q[1] = e /\ DeltaIn(v, m, 1)
 BY DEF Sound, Takes, DeltaIn
<1>2. DeltaSound(v, m, 1) BY <1>1 DEF Queued
<1>3. /\ text \in Seq(Nat) /\ text # << >> /\ text[1] # 0 /\ Counts(text, text[1] - 1)
      /\ \A n \in Range(text) : n \in 1..SaidIn(v, m) /\ n \notin Range(s) \cup Range(b)
      /\ \A j \in DOMAIN v.q : 1 < j /\ DeltaIn(v, m, j) => text[Len(text)] < v.q[j].text[1]
 BY <1>1, <1>2 DEF DeltaSound
<1>4. Plausible(v, m) BY <1>1 DEF Fresh, IsDelta, AboutText
<1>5. s \in Seq(Nat) /\ b \in Seq(Nat) /\ SaidIn(v, m) \in Nat BY <1>1, SequencesIn, SaidIs
<1>6. Arranged(s, b, SaidIn(v, m), v.ordered) BY <1>1 DEF Placed
<1>7. CoveredAt(v, m)
 <2>1. Alive(v, m[1]) BY <1>1 DEF Alive, Of, IsDelta, AboutText
 <2>2. SaidIn(v, m) # 0
  <3>1. text[1] \in Range(text) BY <1>3, CountedText
  <3>2. text[1] \in 1..SaidIn(v, m) BY <1>3, <3>1
  <3> QED BY <1>5, <3>2
 <2>3. m \in DOMAIN v.said BY <1>1, <2>2, SaidIs
 <2> QED BY <1>1, <2>1, <2>3 DEF Covered
<1>8. \A k \in 1..SaidIn(v, m) : Found(v, m, k) BY <1>1, <1>7 DEF CoveredAt, Unheard, DeltaIn
<1>9. ASSUME NEW j, DeltaIn(v, m, j)
    PROVE  j \in DOMAIN v.q /\ (j # 1 => 1 < j)
           /\ \A k \in Range(v.q[j].text) : k \in Nat /\ v.q[j].text[1] \in Nat /\ v.q[j].text[1] <= k
 <2>1. j \in DOMAIN v.q BY <1>9 DEF DeltaIn
 <2>2. DeltaSound(v, m, j) BY <1>1, <1>9, <2>1 DEF Queued
 <2>3. LET t == v.q[j].text IN t \in Seq(Nat) /\ t # << >> /\ t[1] # 0 /\ Counts(t, t[1] - 1)
  BY <2>2 DEF DeltaSound
 <2>4. j # 1 => 1 < j BY <2>1 DEF Takes
 <2> QED BY <2>1, <2>3, <2>4, CountedText
<1> HIDE DEF s, b, text
<1>10. ASSUME v.ordered PROVE Counts(text, Len(s) + Len(b))
 <2>1. Counts(s, 0) /\ Counts(b, Len(s)) BY <1>6, <1>10 DEF Arranged
 <2>2. Len(s) \in Nat /\ Len(b) \in Nat /\ Len(s) + Len(b) \in Nat BY <1>5, TextIs
 <2> DEFINE n == Len(s) + Len(b) + 1
 <2>3. n \in Nat BY <2>2
 <2>4. \A k \in Nat : k \in Range(s) \cup Range(b) <=> 0 < k /\ k < n
  <3>1. \A k \in Nat : k \in Range(s) <=> 0 < k /\ k <= 0 + Len(s) BY <1>5, <2>1, CountsTo
  <3>2. \A k \in Nat : k \in Range(b) <=> Len(s) < k /\ k <= Len(s) + Len(b)
   BY <1>5, <2>1, <2>2, CountsTo
  <3> QED BY <2>2, <3>1, <3>2
 <2>5. /\ text[1] \in Nat /\ text[1] \in Range(text) /\ Len(text) \in Nat /\ Len(text) # 0
       /\ text[Len(text)] = text[1] - 1 + Len(text)
       /\ \A k \in Range(text) : k \in Nat /\ text[1] <= k
  BY <1>3, CountedText
 <2>6. text[1] \in 1..SaidIn(v, m) /\ text[1] \notin Range(s) \cup Range(b) BY <1>3, <2>5
 <2> HIDE DEF n
 <2>7. n <= text[1] BY <1>3, <2>3, <2>4, <2>5, <2>6
 <2>8. ASSUME n # text[1] PROVE FALSE
  <3>1. n < text[1] BY <2>3, <2>5, <2>7, <2>8
  <3>2. n \in 1..SaidIn(v, m) BY <1>5, <2>2, <2>3, <2>6, <3>1 DEF n
  <3>3. n \notin Range(s) \cup Range(b) BY <2>3, <2>4
  <3>4. PICK j \in DOMAIN v.q : DeltaIn(v, m, j) /\ n \in Range(v.q[j].text)
   BY <1>8, <3>2, <3>3 DEF Found, s, b
  <3>5. CASE j = 1
   <4>1. n \in Range(text) BY <1>1, <3>4, <3>5 DEF text
   <4> QED BY <2>3, <2>5, <3>1, <4>1
  <3>6. CASE j # 1
   <4>1. 1 < j /\ v.q[j].text[1] \in Nat /\ v.q[j].text[1] <= n BY <1>9, <3>4, <3>6
   <4>2. text[Len(text)] < v.q[j].text[1] BY <1>3, <3>4, <4>1
   <4> QED BY <2>3, <2>5, <3>1, <4>1, <4>2
  <3> QED BY <3>5, <3>6
 <2>9. text[1] - 1 = Len(s) + Len(b) BY <2>2, <2>8 DEF n
 <2> QED BY <1>3, <2>9
<1>11. IsInjective(text) BY <1>3, CountedText
<1> QED BY <1>3, <1>4, <1>10, <1>11 DEF s, b, text

--------------------
(* The handlers of ingestion: st before, next after, as the views see them. *)
\* The view v is of the state st of ingestion.
Holds(v, st) ==
    /\ v.messages = st.thread.messages /\ v.buffered = st.ingest.buffered
    /\ v.remembered = st.ingest.remembered /\ v.mode = st.ingest.mode

\* What stays well formed.
Preserved(st, next, A) ==
    Stored(next, A) /\ next.thread.status \in {st.thread.status, "active", "stopped"}

\* A handler takes event e from v to w and from st to next.
Handles(v, w, st, next, e, A) ==
    /\ Sound(v) /\ IsSeq(v.q) /\ Takes(v, w, e) /\ SameAgent(v, w) /\ w.ordered = v.ordered
    /\ Holds(v, st) /\ Holds(w, next) /\ Stored(st, A) /\ Roomy(A)
    /\ \A m : Plausible(v, m) => m \in A

\* The turns that are completed once e is taken.
Completes(v, w, e) ==
    \A t \in w.completed :
        \/ t \in v.completed
        \/ e.type = "turn.completed" /\ e.turn = t /\ t # 0 /\ t \notin DOMAIN w.remembered

LEMMA HoldsIs ==
  ASSUME NEW v, NEW st, Holds(v, st)
  PROVE /\ \A m : ShownIn(v, m) = Shown(st.thread.messages, m) /\ BufferedIn(v, m) = Buffered(st, m)
        /\ \A t : RememberedIn(v, t) = Remembered(st, t)
BY DEF Holds, ShownIn, BufferedIn, RememberedIn, Buffered, Remembered

LEMMA AliveTaken ==
  ASSUME NEW v, NEW w, NEW e, Takes(v, w, e), SameAgent(v, w), Completes(v, w, e)
  PROVE \A t : t # 0 /\ Alive(w, t) => Alive(v, t)
<1>1. \A i \in DOMAIN w.q : i + 1 \in DOMAIN v.q /\ w.q[i] = v.q[i + 1] BY DEF Takes
<1>2. \A t \in w.completed : t \in v.completed \/ Of(v.q[1], t) BY DEF Of, Takes, Completes
<1> QED BY <1>1, <1>2 DEF Alive, SameAgent, Takes

LEMMA ReceivesNothing ==
  ASSUME NEW v, NEW w, NEW e, NEW m, Sound(v), SameAgent(v, w), w.ordered = v.ordered,
    ~IsDelta(e, m), ~IsItem(e, m),
    ShownIn(w, m) = ShownIn(v, m), BufferedIn(w, m) = BufferedIn(v, m)
  PROVE Receives(v, w, e, m)
<1>1. Arranged(ShownIn(v, m), BufferedIn(v, m), SaidIn(v, m), v.ordered) BY DEF Sound, Placed
<1>2. SaidIn(w, m) = SaidIn(v, m) BY DEF SaidIn, SameAgent
<1> QED BY <1>1, <1>2 DEF Receives

LEMMA HandledStep ==
  ASSUME NEW v, NEW w, NEW e, NEW st, NEW next, NEW A, Handles(v, w, st, next, e, A),
    Stored(next, A), next.ingest.mode = st.ingest.mode,
    \A m \in DOMAIN w.buffered :
       Len(w.buffered[m]) \in 1..MaxBuffered /\ m \in RememberedIn(w, m[1]),
    v.mode = "streaming" => DOMAIN w.buffered \subseteq DOMAIN v.buffered,
    \A t \in DOMAIN w.remembered :
       /\ w.remembered[t] # {} /\ (t \in DOMAIN v.remembered \/ Of(e, t))
       /\ \A m \in w.remembered[t] :
             m \in RememberedIn(v, t) \/ (m[1] = t /\ AboutText(e) /\ e.message = m),
    \A m \in Ids(w.messages) : \/ m \in Ids(v.messages)
                               \/ \E t \in DOMAIN v.remembered : m \in v.remembered[t]
                               \/ AboutText(e) /\ e.message = m,
    Completes(v, w, e), \A m : Receives(v, w, e, m), Streams(w)
  PROVE Sound(w)
<1>1. /\ Sound(v) /\ IsSeq(v.q) /\ Takes(v, w, e) /\ SameAgent(v, w) /\ w.ordered = v.ordered
      /\ Holds(v, st) /\ Holds(w, next)
 BY DEF Handles
<1>2. IngestTyped(v) /\ Fresh(v) BY <1>1 DEF Sound
<1>3. AboutText(e) => Plausible(v, e.message) BY <1>1, <1>2 DEF Fresh, Takes
<1>4. \A t \in DOMAIN w.remembered : \A m \in w.remembered[t] : m[1] = t
 BY <1>2 DEF IngestTyped, RememberedIn
<1>5. Ledger(w.messages) /\ \A m \in DOMAIN w.buffered : w.buffered[m] \in Seq(Nat)
 BY <1>1 DEF Stored, Holds
<1>6. w.mode = v.mode BY <1>1 DEF Holds
<1>7. IngestTyped(w) BY <1>1, <1>2, <1>4, <1>5, <1>6 DEF IngestTyped
<1>8. \A m \in Ids(w.messages) : Plausible(v, m) BY <1>2, <1>3 DEF Fresh
<1>9. \A t \in DOMAIN w.remembered : \A m \in w.remembered[t] : Plausible(v, m)
 BY <1>2, <1>3 DEF Fresh, RememberedIn
<1>10. \A t \in w.completed :
          \/ t \in v.completed
          \/ e.type = "turn.completed" /\ e.turn = t /\ t # 0 /\ t \notin DOMAIN w.remembered
 BY DEF Completes
<1>11. \A t \in DOMAIN w.remembered : t \in DOMAIN v.remembered \/ Of(e, t) OBVIOUS
<1> QED BY <1>1, <1>7, <1>8, <1>9, <1>10, <1>11, TakenStep

(* Messages that were streaming are still remembered, or do not stream now. *)
LEMMA StreamsTaken ==
  ASSUME NEW v, NEW w, NEW e, Takes(v, w, e), SameAgent(v, w), Completes(v, w, e),
    Streams(v), Fresh(v),
    \A x \in Range(w.messages) :
       \/ ~x.streaming
       \/ x.id \in RememberedIn(w, x.id[1])
       \/ /\ x \in Range(v.messages)
          /\ Alive(w, x.id[1]) /\ x.id \in RememberedIn(v, x.id[1]) =>
                x.id \in RememberedIn(w, x.id[1])
  PROVE Streams(w)
<1> SUFFICES ASSUME NEW x \in Range(w.messages), x.streaming, Alive(w, x.id[1]),
                    x \in Range(v.messages),
                    x.id \in RememberedIn(v, x.id[1]) => x.id \in RememberedIn(w, x.id[1])
    PROVE  x.id \in RememberedIn(w, x.id[1])
 BY DEF Streams
<1>1. x.id \in Ids(v.messages) BY DEF Ids
<1>2. x.id[1] # 0 BY <1>1 DEF Fresh, Plausible, Below
<1>3. Alive(v, x.id[1]) BY <1>2, AliveTaken
<1> QED BY <1>3 DEF Streams

--------------------
(* What else is taken: nothing that is about text.                          *)
LEMMA NeutralStep ==
  ASSUME NEW v, NEW w, NEW e, Sound(v), IsSeq(v.q), Takes(v, w, e), SameAgent(v, w),
    SameIngest(v, w), Other(e)
  PROVE Sound(w)
<1>1. IngestTyped(v) /\ Fresh(v) /\ Streams(v) BY DEF Sound
<1>2. /\ IngestTyped(w) /\ w.ordered = v.ordered /\ w.completed = v.completed
      /\ w.remembered = v.remembered /\ w.messages = v.messages
      /\ \A m : ShownIn(w, m) = ShownIn(v, m) /\ BufferedIn(w, m) = BufferedIn(v, m)
      /\ \A t : RememberedIn(w, t) = RememberedIn(v, t)
 BY <1>1, SameIngestIs DEF SameIngest
<1>3. Completes(v, w, e) BY <1>2 DEF Completes
<1>4. Streams(w)
 <2>1. \A x \in Range(w.messages) :
           /\ x \in Range(v.messages)
           /\ Alive(w, x.id[1]) /\ x.id \in RememberedIn(v, x.id[1]) =>
                    x.id \in RememberedIn(w, x.id[1])
  BY <1>2
 <2> QED BY <1>1, <1>3, <2>1, StreamsTaken
<1>5. \A m : Receives(v, w, e, m)
 <2>1. \A m : ~IsDelta(e, m) /\ ~IsItem(e, m) BY DEF Other, IsDelta, IsItem
 <2> QED BY <1>2, <2>1, ReceivesNothing
<1>6. \A m \in Ids(w.messages) : Plausible(v, m) BY <1>1, <1>2 DEF Fresh
<1>7. \A t \in DOMAIN w.remembered : \A m \in w.remembered[t] : Plausible(v, m)
 BY <1>1, <1>2 DEF Fresh
<1>8. /\ \A t \in DOMAIN w.remembered : t \in DOMAIN v.remembered \/ Of(e, t)
      /\ \A t \in w.completed : t \in v.completed
 BY <1>2
<1> QED BY <1>2, <1>4, <1>5, <1>6, <1>7, <1>8, TakenStep

--------------------
\* A message that gets text: the rest is left alone.
Lands(st, next, m) ==
    /\ next.thread.status = st.thread.status
    /\ next.ingest.mode = st.ingest.mode /\ next.ingest.remembered = st.ingest.remembered
    /\ Ids(next.thread.messages) \subseteq Ids(st.thread.messages) \cup {m}
    /\ \A x \in Range(next.thread.messages) : x.id = m \/ x \in Range(st.thread.messages)
    /\ DOMAIN next.ingest.buffered \subseteq DOMAIN st.ingest.buffered \cup {m}
    /\ \A o \in DOMAIN next.ingest.buffered :
          \/ o \in DOMAIN st.ingest.buffered /\ next.ingest.buffered[o] = st.ingest.buffered[o]
          \/ o = m /\ Len(next.ingest.buffered[o]) \in 1..MaxBuffered
    /\ \A o : o # m =>
          /\ Shown(next.thread.messages, o) = Shown(st.thread.messages, o)
          /\ Buffered(next, o) = Buffered(st, o)

\* A message that streams.
Streamed(st, m, text) == Dispatch(st, m, text, TRUE)

LEMMA DispatchLands ==
  ASSUME NEW A, Roomy(A), NEW st, Stored(st, A), NEW m \in A, NEW text \in Seq(Nat),
    NEW next, next = Streamed(st, m, text)
  PROVE /\ Stored(next, A) /\ Lands(st, next, m) /\ Adds(st, next, m, text)
        /\ next.ingest.buffered = st.ingest.buffered
<1>1. /\ Stored(next, A) /\ next.ingest = st.ingest
      /\ next.thread.status = st.thread.status
      /\ Sent(st.thread.messages, next.thread.messages, m, text, TRUE)
 <2>1. \A words \in Seq(Nat) : \A x : x = Dispatch(st, m, words, TRUE) =>
          /\ Stored(x, A) /\ x.ingest = st.ingest
          /\ x.thread.status = st.thread.status
          /\ Sent(st.thread.messages, x.thread.messages, m, words, TRUE)
  BY DispatchIs
 <2> QED BY <2>1 DEF Streamed
<1>2. Adds(st, next, m, text) BY <1>1 DEF Adds, Sent
<1>3. Lands(st, next, m)
 <2>1. /\ Ids(next.thread.messages) = Ids(st.thread.messages) \cup {m}
       /\ \A o : o # m => Shown(next.thread.messages, o) = Shown(st.thread.messages, o)
       /\ \A x \in Range(next.thread.messages) : x.id = m \/ x \in Range(st.thread.messages)
  BY <1>1 DEF Sent
 <2>2. \A o : Buffered(next, o) = Buffered(st, o) BY <1>1 DEF Buffered
 <2> QED BY <1>1, <2>1, <2>2 DEF Lands
<1> QED BY <1>1, <1>2, <1>3

LEMMA SpillLands ==
  ASSUME NEW A, Roomy(A), NEW st, Stored(st, A), NEW m \in A, NEW text \in Seq(Nat),
    NEW next, next = Streamed(Clear(st, m), m, text)
  PROVE /\ Stored(next, A) /\ Lands(st, next, m) /\ Adds(st, next, m, text)
        /\ Buffered(next, m) = << >>
        /\ DOMAIN next.ingest.buffered \subseteq DOMAIN st.ingest.buffered
<1> DEFINE mid == Clear(st, m)
<1>1. /\ Stored(mid, A) /\ mid.thread = st.thread
      /\ mid.ingest.mode = st.ingest.mode /\ mid.ingest.remembered = st.ingest.remembered
      /\ DOMAIN mid.ingest.buffered = DOMAIN st.ingest.buffered \ {m}
      /\ \A n \in DOMAIN mid.ingest.buffered : mid.ingest.buffered[n] = st.ingest.buffered[n]
 BY ClearIs
<1>2. next = Streamed(mid, m, text) OBVIOUS
<1> HIDE DEF mid
<1>3. /\ Stored(next, A) /\ Lands(mid, next, m) /\ Adds(mid, next, m, text)
      /\ next.ingest.buffered = mid.ingest.buffered
 <2>1. Stored(mid, A) BY <1>1
 <2> QED BY <1>2, <2>1, DispatchLands
<1>4. Adds(st, next, m, text) BY <1>1, <1>3 DEF Adds
<1>5. Buffered(next, m) = << >> BY <1>1, <1>3 DEF Buffered
<1>6. \A o : o # m => Buffered(next, o) = Buffered(st, o) BY <1>1, <1>3 DEF Buffered
<1>7. Lands(st, next, m) BY <1>1, <1>3, <1>6 DEF Lands
<1> QED BY <1>1, <1>3, <1>4, <1>5, <1>7

\* A message that is withheld.
Withheld(st, m, text) == [st EXCEPT !.ingest.buffered = Put(@, m, text)]

LEMMA KeptBack ==
  ASSUME NEW A, NEW st, Stored(st, A), NEW m, NEW text \in Seq(Nat),
    Len(text) \in 1..MaxBuffered,
    NEW next, next = Withheld(st, m, text)
  PROVE /\ Stored(next, A) /\ Lands(st, next, m) /\ next.thread = st.thread
        /\ Buffered(next, m) = text
<1>1. Held(st) /\ DOMAIN st.ingest = IngestFields BY DEF Stored
<1>2. DOMAIN next = DOMAIN st /\ next.thread = st.thread BY <1>1 DEF Held, Withheld
<1>3. /\ DOMAIN next.ingest = IngestFields
      /\ next.ingest.mode = st.ingest.mode /\ next.ingest.remembered = st.ingest.remembered
      /\ next.ingest.buffered = Put(st.ingest.buffered, m, text)
 BY <1>1 DEF Held, IngestFields, Withheld
<1>4. /\ DOMAIN next.ingest.buffered = DOMAIN st.ingest.buffered \cup {m}
      /\ next.ingest.buffered[m] = text
      /\ \A o \in DOMAIN st.ingest.buffered \ {m} :
            next.ingest.buffered[o] = st.ingest.buffered[o]
 BY <1>3 DEF Put
<1>5. Stored(next, A) BY <1>1, <1>2, <1>3, <1>4 DEF Stored, Held
<1>6. Lands(st, next, m) BY <1>2, <1>3, <1>4 DEF Lands, Buffered
<1> QED BY <1>2, <1>4, <1>5, <1>6 DEF Buffered

LEMMA DeltaLands ==
  ASSUME NEW v, NEW w, NEW e, NEW st, NEW next, NEW A, Handles(v, w, st, next, e, A),
    NEW m, IsDelta(e, m), NEW mid, Stored(mid, A), mid.thread = st.thread,
    mid.ingest.buffered = st.ingest.buffered,
    \/ v.mode = "buffered" /\ next = Buffer(mid, m, e.text)
    \/ v.mode = "streaming" /\ next = Streamed(mid, m, e.text)
  PROVE /\ Stored(next, A) /\ Lands(mid, next, m)
        /\ v.mode = "streaming" => DOMAIN next.ingest.buffered \subseteq DOMAIN st.ingest.buffered
        /\ Arranged(ShownIn(w, m), BufferedIn(w, m), SaidIn(v, m), v.ordered)
        /\ Range(ShownIn(w, m)) \cup Range(BufferedIn(w, m)) =
              Range(ShownIn(v, m)) \cup Range(BufferedIn(v, m)) \cup Range(e.text)
<1> DEFINE s == ShownIn(v, m)
           b == BufferedIn(v, m)
           text == e.text
           n == SaidIn(v, m)
<1>1. /\ Sound(v) /\ Takes(v, w, e) /\ Holds(v, st) /\ Holds(w, next) /\ Roomy(A)
      /\ \A o : Plausible(v, o) => o \in A
 BY DEF Handles
<1>2. /\ Plausible(v, m) /\ text \in Seq(Nat) /\ IsInjective(text)
      /\ Range(text) \subseteq 1..n /\ Range(text) \cap (Range(s) \cup Range(b)) = {}
      /\ v.ordered => Counts(text, Len(s) + Len(b))
 BY <1>1, FirstDelta
<1>3. m \in A BY <1>1, <1>2
<1>4. IngestTyped(v) /\ AgentTyped(v) /\ Placed(v) BY <1>1 DEF Sound
<1>5. s \in Seq(Nat) /\ b \in Seq(Nat) /\ n \in Nat BY <1>4, SequencesIn, SaidIs
<1>6. Arranged(s, b, n, v.ordered) BY <1>4 DEF Placed
<1>7. text # << >>
 <2>1. DeltaSound(v, m, 1) BY <1>1 DEF Sound, Queued, DeltaIn, Takes
 <2> QED BY <1>1, <2>1 DEF DeltaSound, Takes
<1>8. Buffered(mid, m) = b /\ Shown(mid.thread.messages, m) = s BY <1>1, HoldsIs DEF Buffered
<1>9. ShownIn(w, m) = Shown(next.thread.messages, m) /\ BufferedIn(w, m) = Buffered(next, m)
 BY <1>1, HoldsIs
<1> DEFINE joined == b \o text
           all == s \o joined
           tail == s \o text
<1> HIDE DEF s, b, text, n
<1>10. /\ Arranged(s, joined, n, v.ordered) /\ Arranged(all, << >>, n, v.ordered)
       /\ (v.ordered => b = << >>) => Arranged(tail, b, n, v.ordered)
 BY <1>2, <1>5, <1>6, Rearranged
<1>11. /\ joined \in Seq(Nat) /\ Len(joined) = Len(b) + Len(text)
       /\ Range(joined) = Range(b) \cup Range(text)
 BY <1>2, <1>5, Joined
<1>12. Range(tail) = Range(s) \cup Range(text) BY <1>2, <1>5, Joined
<1>13. Range(all) = Range(s) \cup Range(joined)
 <2> HIDE DEF joined
 <2> QED BY <1>5, <1>11, Joined
<1>14. Len(joined) \in Nat /\ Len(joined) # 0
 <2>1. Len(b) \in Nat /\ Len(text) \in Nat /\ Len(text) # 0 BY <1>2, <1>5, <1>7, TextIs
 <2> QED BY <1>11, <2>1
<1>15. Adds(mid, next, m, joined) => Shown(next.thread.messages, m) = all BY <1>8 DEF Adds
<1>16. Adds(mid, next, m, text) => Shown(next.thread.messages, m) = tail BY <1>8 DEF Adds
<1>17. Buffered(mid, m) \o e.text = joined BY <1>8 DEF text
<1> HIDE DEF joined, all, tail
<1>18. CASE v.mode = "buffered" /\ next = Buffer(mid, m, e.text)
 <2>1. CASE Len(joined) <= MaxBuffered
  <3>1. next = Withheld(mid, m, joined) BY <1>17, <1>18, <2>1 DEF Buffer, Withheld
  <3>2. Len(joined) \in 1..MaxBuffered BY <1>14, <2>1, BufferAssumption
  <3>3. /\ Stored(next, A) /\ Lands(mid, next, m) /\ next.thread = mid.thread
        /\ Buffered(next, m) = joined
   BY <1>11, <3>1, <3>2, KeptBack
  <3>4. ShownIn(w, m) = s /\ BufferedIn(w, m) = joined BY <1>8, <1>9, <3>3
  <3> QED BY <1>10, <1>11, <1>18, <3>3, <3>4 DEF s, b, text, n
 <2>2. CASE ~(Len(joined) <= MaxBuffered)
  <3>1. next = Streamed(Clear(mid, m), m, joined) BY <1>17, <1>18, <2>2 DEF Buffer, Streamed
  <3>2. /\ Stored(next, A) /\ Lands(mid, next, m) /\ Adds(mid, next, m, joined)
        /\ Buffered(next, m) = << >>
   BY <1>1, <1>3, <1>11, <3>1, SpillLands
  <3>3. ShownIn(w, m) = all /\ BufferedIn(w, m) = << >> BY <1>9, <1>15, <3>2
  <3> QED BY <1>10, <1>11, <1>13, <1>18, <3>2, <3>3, NoText DEF s, b, text, n
 <2> QED BY <2>1, <2>2
<1>19. CASE v.mode = "streaming" /\ next = Streamed(mid, m, e.text)
 <2>1. next = Streamed(mid, m, text) BY <1>19 DEF text
 <2>2. /\ Stored(next, A) /\ Lands(mid, next, m) /\ Adds(mid, next, m, text)
       /\ next.ingest.buffered = mid.ingest.buffered
  BY <1>1, <1>2, <1>3, <2>1, DispatchLands
 <2>3. ShownIn(w, m) = tail /\ BufferedIn(w, m) = b BY <1>8, <1>9, <1>16, <2>2 DEF Buffered
 <2>4. v.ordered => b = << >> BY <1>4, <1>19 DEF IngestTyped, BufferedIn, b
 <2> QED BY <1>10, <1>12, <2>2, <2>3, <2>4 DEF s, b, text, n
<1> QED BY <1>18, <1>19

(* Text is streamed, or buffered, or spills.                                *)
LEMMA DeltaTaken ==
  ASSUME NEW v, NEW w, NEW e, NEW st, NEW next, NEW A, Handles(v, w, st, next, e, A),
    w.completed = v.completed, NEW m, IsDelta(e, m), NEW mid, mid = Remember(st, m),
    \/ v.mode = "buffered" /\ next = Buffer(mid, m, e.text)
    \/ v.mode = "streaming" /\ next = Streamed(mid, m, e.text)
  PROVE Sound(w) /\ Preserved(st, next, A)
<1>1. /\ Sound(v) /\ Takes(v, w, e) /\ Holds(v, st) /\ Holds(w, next) /\ Stored(st, A)
      /\ SameAgent(v, w) /\ w.ordered = v.ordered
 BY DEF Handles
<1>2. IngestTyped(v) /\ Fresh(v) /\ Streams(v) BY <1>1 DEF Sound
<1> DEFINE t == m[1]
           group == Remembered(st, t) \cup {m}
<1>3. mid = RememberAs(st, t, group) /\ group # {} BY DEF Remember
<1> HIDE DEF group
<1>4. /\ Stored(mid, A) /\ mid.thread = st.thread
      /\ mid.ingest.mode = st.ingest.mode
      /\ mid.ingest.buffered = st.ingest.buffered
      /\ DOMAIN mid.ingest.remembered = DOMAIN st.ingest.remembered \cup {t}
      /\ mid.ingest.remembered[t] = group
      /\ \A u \in DOMAIN mid.ingest.remembered \ {t} :
            mid.ingest.remembered[u] = st.ingest.remembered[u]
 <2>1. Stored(mid, A) /\ Remembers(st, mid, t, group) BY <1>1, <1>3, RememberAsIs
 <2> QED BY <1>3, <2>1 DEF Remembers
<1>5. /\ Stored(next, A) /\ Lands(mid, next, m)
      /\ v.mode = "streaming" => DOMAIN next.ingest.buffered \subseteq DOMAIN st.ingest.buffered
      /\ Arranged(ShownIn(w, m), BufferedIn(w, m), SaidIn(v, m), v.ordered)
      /\ Range(ShownIn(w, m)) \cup Range(BufferedIn(w, m)) =
            Range(ShownIn(v, m)) \cup Range(BufferedIn(v, m)) \cup Range(e.text)
 BY <1>4, DeltaLands
<1>6. /\ DOMAIN w.remembered = DOMAIN v.remembered \cup {t}
      /\ w.remembered[t] = RememberedIn(v, t) \cup {m}
      /\ \A u \in DOMAIN v.remembered \ {t} : w.remembered[u] = v.remembered[u]
 BY <1>1, <1>4, <1>5, HoldsIs DEF Lands, Holds, group
<1>7. \A u : RememberedIn(v, u) \subseteq RememberedIn(w, u) BY <1>6 DEF RememberedIn
<1>8. m \in RememberedIn(w, m[1]) BY <1>6 DEF RememberedIn
<1>9. Completes(v, w, e) BY DEF Completes
<1>10. Streams(w)
 <2>1. \A x \in Range(w.messages) :
           \/ x.id \in RememberedIn(w, x.id[1])
           \/ /\ x \in Range(v.messages)
              /\ Alive(w, x.id[1]) /\ x.id \in RememberedIn(v, x.id[1]) =>
                    x.id \in RememberedIn(w, x.id[1])
  BY <1>1, <1>4, <1>5, <1>7, <1>8 DEF Lands, Holds
 <2> QED BY <1>1, <1>2, <1>9, <2>1, StreamsTaken
<1>11. \A o : Receives(v, w, e, o)
 <2>1. Receives(v, w, e, m)
  <3>1. SaidIn(w, m) = SaidIn(v, m) BY <1>1 DEF SameAgent, SaidIn
  <3>2. AboutText(e) /\ e.message = m /\ ~IsItem(e, m) BY DEF IsDelta, IsItem, AboutText
  <3> QED BY <1>1, <1>5, <3>1, <3>2 DEF Receives
 <2>2. ASSUME NEW o, o # m PROVE Receives(v, w, e, o)
  <3>1. ShownIn(w, o) = ShownIn(v, o) /\ BufferedIn(w, o) = BufferedIn(v, o)
   <4>1. /\ Shown(next.thread.messages, o) = Shown(mid.thread.messages, o)
         /\ Buffered(next, o) = Buffered(mid, o)
    BY <1>5, <2>2 DEF Lands
   <4>2. Buffered(mid, o) = Buffered(st, o) BY <1>4 DEF Buffered
   <4> QED BY <1>1, <1>4, <4>1, <4>2, HoldsIs
  <3>2. ~IsDelta(e, o) /\ ~IsItem(e, o) BY <2>2 DEF IsDelta, IsItem
  <3> QED BY <1>1, <3>1, <3>2, ReceivesNothing
 <2> QED BY <2>1, <2>2
<1>12. ASSUME NEW o \in DOMAIN w.buffered
    PROVE  Len(w.buffered[o]) \in 1..MaxBuffered /\ o \in RememberedIn(w, o[1])
 <2>1. CASE o \in DOMAIN mid.ingest.buffered
               /\ next.ingest.buffered[o] = mid.ingest.buffered[o]
  <3>1. o \in DOMAIN v.buffered /\ w.buffered[o] = v.buffered[o] BY <1>1, <1>4, <2>1 DEF Holds
  <3> QED BY <1>2, <1>7, <3>1 DEF IngestTyped
 <2>2. CASE o = m /\ Len(next.ingest.buffered[o]) \in 1..MaxBuffered BY <1>1, <1>8, <2>2 DEF Holds
 <2> QED BY <1>1, <1>5, <2>1, <2>2 DEF Lands, Holds
<1>13. v.mode = "streaming" => DOMAIN w.buffered \subseteq DOMAIN v.buffered
 BY <1>1, <1>5 DEF Holds
<1>14. ASSUME NEW u \in DOMAIN w.remembered
    PROVE  /\ w.remembered[u] # {} /\ (u \in DOMAIN v.remembered \/ Of(e, u))
           /\ \A o \in w.remembered[u] :
                 o \in RememberedIn(v, u) \/ (o[1] = u /\ AboutText(e) /\ e.message = o)
 <2>1. CASE u = t BY <1>6, <2>1 DEF Of, IsDelta, AboutText
 <2>2. CASE u # t BY <1>2, <1>6, <2>2 DEF IngestTyped, RememberedIn
 <2> QED BY <2>1, <2>2
<1>15. \A o \in Ids(w.messages) : o \in Ids(v.messages) \/ (AboutText(e) /\ e.message = o)
 BY <1>1, <1>4, <1>5 DEF Lands, Holds, IsDelta, AboutText
<1>16. next.ingest.mode = st.ingest.mode BY <1>4, <1>5 DEF Lands
<1>17. Preserved(st, next, A) BY <1>4, <1>5 DEF Lands, Preserved
<1> QED BY <1>17, <1>5, <1>9, <1>10, <1>11, <1>12, <1>13, <1>14, <1>15, <1>16, HandledStep

\* The end of an item adds nothing but its text, and that if nothing is known of it.
Rounds(v, w, e, m) ==
    /\ Arranged(ShownIn(w, m), BufferedIn(w, m), SaidIn(v, m), v.ordered)
    /\ \E text \in {<< >>, e.text} :
          Range(ShownIn(w, m)) \cup Range(BufferedIn(w, m)) =
             Range(ShownIn(v, m)) \cup Range(BufferedIn(v, m)) \cup Range(text)
    /\ Unheard(v, m) => Range(e.text) \subseteq Range(ShownIn(w, m))

(* What is buffered is shown, or else the text of the item if nothing is    *)
(* shown of it.                                                             *)
LEMMA ItemLands ==
  ASSUME NEW v, NEW w, NEW e, NEW st, NEW next, NEW A, Handles(v, w, st, next, e, A),
    NEW m, IsItem(e, m), NEW mid, Stored(mid, A), mid.thread = st.thread,
    mid.ingest.buffered = st.ingest.buffered,
    NEW fallback, ShownIn(v, m) = << >> => fallback = e.text,
    ShownIn(v, m) # << >> => fallback = << >>,
    NEW fin, fin = Finalize(mid, m, fallback), next.thread = fin.thread,
    next.ingest.buffered = fin.ingest.buffered
  PROVE Stored(fin, A) /\ Finalized(mid, fin, {m}) /\ Rounds(v, w, e, m)
<1> DEFINE s == ShownIn(v, m)
           b == BufferedIn(v, m)
           n == SaidIn(v, m)
<1>1. /\ Sound(v) /\ Takes(v, w, e) /\ Holds(v, st) /\ Holds(w, next) /\ Roomy(A)
      /\ \A o : Plausible(v, o) => o \in A
 BY DEF Handles
<1>2. IngestTyped(v) /\ AgentTyped(v) /\ Placed(v) /\ Fresh(v) /\ Queued(v) BY <1>1 DEF Sound
<1>3. m \in A
 <2>1. Plausible(v, m) BY <1>1, <1>2 DEF Fresh, IsItem, AboutText, Takes
 <2> QED BY <1>1, <2>1
<1>4. s \in Seq(Nat) /\ b \in Seq(Nat) /\ n \in Nat BY <1>2, SequencesIn, SaidIs
<1>5. Arranged(s, b, n, v.ordered) BY <1>2 DEF Placed
<1>6. /\ e.text \in Seq(Nat) /\ Range(e.text) \subseteq 1..n /\ Counts(e.text, 0)
 <2>1. e.text \in {<< >>, WholeIn(v, m)} BY <1>1, <1>2 DEF Queued, Takes
 <2>2. CASE e.text = << >> BY <2>2, NoText DEF Counts
 <2>3. CASE e.text = WholeIn(v, m) BY <1>4, <2>3, WholeIs DEF n
 <2> QED BY <2>1, <2>2, <2>3
<1>7. Buffered(mid, m) = b /\ Shown(mid.thread.messages, m) = s BY <1>1, HoldsIs DEF Buffered
<1>8. /\ ShownIn(w, m) = Shown(fin.thread.messages, m) /\ BufferedIn(w, m) = Buffered(fin, m)
 BY <1>1, HoldsIs DEF Buffered
<1> HIDE DEF s, b, n
<1> DEFINE text == IF b # << >> THEN b ELSE fallback
<1>9. fallback \in Seq(Nat) BY <1>6, NoText
<1>10. (b # << >> => text = b) /\ (b = << >> => text = fallback) OBVIOUS
<1> HIDE DEF text
<1>11. Stored(fin, A) /\ Finalized(mid, fin, {m}) /\ Adds(mid, fin, m, text)
 BY <1>1, <1>3, <1>7, <1>9, <1>10, FinalizeIs
<1>12. BufferedIn(w, m) = << >> BY <1>8, <1>11 DEF Finalized, Buffered
<1> DEFINE d == s \o text
<1>13. ShownIn(w, m) = d BY <1>7, <1>8, <1>11 DEF Adds
<1>14. text \in Seq(Nat) BY <1>4, <1>9, <1>10
<1>15. Range(d) = Range(s) \cup Range(text) BY <1>4, <1>14, Joined
<1>16. CASE b # << >>
 <2>1. Arranged(d, << >>, n, v.ordered) BY <1>4, <1>5, <1>10, <1>16, Moved
 <2>2. Range(d) = Range(s) \cup Range(b) \cup Range(<< >>) BY <1>10, <1>15, <1>16, NoText
 <2> HIDE DEF d
 <2>3. ~Unheard(v, m) BY <1>16 DEF Unheard, b
 <2> QED BY <1>11, <1>12, <1>13, <2>1, <2>2, <2>3, NoText DEF s, b, n, Rounds
<1>17. CASE b = << >>
 <2>1. text = << >> \/ (text = e.text /\ s = << >>) BY <1>10, <1>17 DEF s
 <2>2. /\ IsInjective(text) /\ Range(text) \subseteq 1..n
       /\ Range(text) \cap (Range(s) \cup Range(b)) = {}
       /\ v.ordered => Counts(text, Len(s) + Len(b))
  <3>1. CASE text = << >> BY <3>1, NoText DEF Counts
  <3>2. CASE text = e.text /\ s = << >>
   <4>1. Counts(text, 0) /\ Len(s) + Len(b) = 0 /\ Range(s) \cup Range(b) = {}
    BY <1>6, <1>17, <3>2, NoText
   <4>2. IsInjective(text) BY <1>14, <4>1, CountsApart
   <4> QED BY <1>6, <3>2, <4>1, <4>2
  <3> QED BY <2>1, <3>1, <3>2
 <2>3. v.ordered => b = << >> BY <1>17
 <2>4. Arranged(d, b, n, v.ordered) BY <1>4, <1>5, <1>14, <2>2, <2>3, Rearranged
 <2>5. Range(d) \cup Range(<< >>) = Range(s) \cup Range(b) \cup Range(text)
  BY <1>15, <1>17, NoText
 <2>6. Unheard(v, m) => Range(e.text) \subseteq Range(d)
  <3>1. Unheard(v, m) => text = e.text BY <1>10, <1>17 DEF Unheard, s
  <3> QED BY <1>15, <3>1
 <2> HIDE DEF d
 <2>7. text \in {<< >>, e.text} BY <2>1
 <2> QED BY <1>11, <1>12, <1>13, <1>17, <2>4, <2>5, <2>6, <2>7 DEF s, b, n, Rounds
<1> QED BY <1>16, <1>17

(* An item ends: its message is final, and need not be remembered.          *)
LEMMA ItemTaken ==
  ASSUME NEW v, NEW w, NEW e, NEW st, NEW next, NEW A, Handles(v, w, st, next, e, A),
    w.completed = v.completed, NEW m, IsItem(e, m), NEW mid, mid = Remember(st, m),
    NEW fallback, ShownIn(v, m) = << >> => fallback = e.text,
    ShownIn(v, m) # << >> => fallback = << >>,
    NEW fin, fin = Finalize(mid, m, fallback), next = Forget(fin, m)
  PROVE Sound(w) /\ Preserved(st, next, A)
<1>1. /\ Sound(v) /\ Takes(v, w, e) /\ Holds(v, st) /\ Holds(w, next) /\ Stored(st, A)
      /\ SameAgent(v, w) /\ w.ordered = v.ordered
      /\ \A o : Plausible(v, o) => o \in A
      /\ Roomy(A)
 BY DEF Handles
<1>2. IngestTyped(v) /\ Fresh(v) /\ Streams(v) BY <1>1 DEF Sound
<1> DEFINE t == m[1]
           group == Remembered(st, t) \cup {m}
           rest == Remembered(fin, t) \ {m}
<1>3. mid = RememberAs(st, t, group) /\ group # {} /\ next = RememberAs(fin, t, rest)
 BY DEF Remember, Forget
<1> HIDE DEF group, rest
<1>4. Stored(mid, A) /\ Remembers(st, mid, t, group) BY <1>1, <1>3, RememberAsIs
<1>5. Stored(fin, A)
 <2>1. m \in A
  <3>1. Plausible(v, m) BY <1>1, <1>2 DEF Fresh, IsItem, AboutText, Takes
  <3> QED BY <1>1, <3>1
 <2>2. fallback \in Seq(Nat)
  <3>1. e.text \in {<< >>, WholeIn(v, m)} BY <1>1 DEF Sound, Queued, Takes
  <3>2. SaidIn(v, m) \in Nat BY <1>1, SaidIs DEF Sound
  <3> QED BY <3>1, <3>2, WholeIs, NoText
 <2> DEFINE text == IF Buffered(mid, m) # << >> THEN Buffered(mid, m) ELSE fallback
 <2>3. /\ Buffered(mid, m) # << >> => text = Buffered(mid, m)
       /\ Buffered(mid, m) = << >> => text = fallback
  OBVIOUS
 <2> HIDE DEF text
 <2>4. Stored(fin, A) /\ Finalized(mid, fin, {m}) /\ Adds(mid, fin, m, text)
  BY <1>1, <1>4, <2>1, <2>2, <2>3, FinalizeIs
 <2> QED BY <2>4
<1>6. Stored(next, A) /\ Remembers(fin, next, t, rest) BY <1>3, <1>5, RememberAsIs
<1>7. /\ mid.thread = st.thread /\ mid.ingest.buffered = st.ingest.buffered
      /\ next.thread = fin.thread /\ next.ingest.buffered = fin.ingest.buffered
 BY <1>4, <1>6 DEF Remembers
<1>8. Stored(fin, A) /\ Finalized(mid, fin, {m}) /\ Rounds(v, w, e, m) BY <1>4, <1>7, ItemLands
<1>9. /\ next.ingest.mode = st.ingest.mode
      /\ DOMAIN w.buffered = DOMAIN v.buffered \ {m}
      /\ \A o \in DOMAIN w.buffered : w.buffered[o] = v.buffered[o]
      /\ Ids(w.messages) = Ids(v.messages) \cup {m}
      /\ \A x \in Range(w.messages) : (x.id = m /\ ~x.streaming) \/ (x.id # m /\ x \in Range(v.messages))
 BY <1>1, <1>4, <1>6, <1>7, <1>8 DEF Remembers, Finalized, Holds
<1>10. rest = RememberedIn(v, t) \ {m}
 <2>1. Remembered(fin, t) = group BY <1>3, <1>4, <1>8 DEF Remembers, Finalized, Remembered
 <2> QED BY <1>1, <2>1, HoldsIs DEF rest, group
<1>11. /\ DOMAIN w.remembered \subseteq DOMAIN v.remembered \cup {t}
       /\ DOMAIN v.remembered \subseteq DOMAIN w.remembered \cup {t}
       /\ t \in DOMAIN w.remembered <=> rest # {}
       /\ t \in DOMAIN w.remembered => w.remembered[t] = rest
       /\ \A u \in DOMAIN w.remembered \ {t} : w.remembered[u] = v.remembered[u]
 <2>1. DOMAIN fin.ingest.remembered = DOMAIN v.remembered \cup {t}
  BY <1>1, <1>3, <1>4, <1>8 DEF Remembers, Finalized, Holds
 <2>2. \A u \in DOMAIN v.remembered \ {t} : fin.ingest.remembered[u] = v.remembered[u]
  BY <1>1, <1>4, <1>8, <2>1 DEF Remembers, Finalized, Holds
 <2> QED BY <1>1, <1>6, <2>1, <2>2 DEF Remembers, Holds
<1>12. \A u : RememberedIn(w, u) = RememberedIn(v, u) \ {m} \/ (u # t /\ RememberedIn(w, u) = RememberedIn(v, u))
 <2>1. RememberedIn(w, t) = RememberedIn(v, t) \ {m} BY <1>10, <1>11 DEF RememberedIn
 <2>2. \A u : u # t => RememberedIn(w, u) = RememberedIn(v, u) BY <1>11 DEF RememberedIn
 <2> QED BY <2>1, <2>2
<1>13. \A u, o : o # m /\ o \in RememberedIn(v, u) => o \in RememberedIn(w, u) BY <1>12
<1>14. Completes(v, w, e) BY DEF Completes
<1>15. Streams(w)
 <2>1. \A x \in Range(w.messages) :
           \/ ~x.streaming
           \/ /\ x \in Range(v.messages)
              /\ Alive(w, x.id[1]) /\ x.id \in RememberedIn(v, x.id[1]) =>
                    x.id \in RememberedIn(w, x.id[1])
  BY <1>9, <1>13
 <2> QED BY <1>1, <1>2, <1>14, <2>1, StreamsTaken
<1>16. \A o : Receives(v, w, e, o)
 <2>1. Receives(v, w, e, m)
  <3>1. SaidIn(w, m) = SaidIn(v, m) BY <1>1 DEF SameAgent, SaidIn
  <3>2. AboutText(e) /\ e.message = m /\ ~IsDelta(e, m) BY DEF IsDelta, IsItem, AboutText
  <3>3. PICK text \in {<< >>, e.text} :
          Range(ShownIn(w, m)) \cup Range(BufferedIn(w, m)) =
             Range(ShownIn(v, m)) \cup Range(BufferedIn(v, m)) \cup Range(text)
   BY <1>8 DEF Rounds
  <3>4. Range(text) \subseteq Range(e.text) BY NoText
  <3> QED BY <1>1, <1>8, <3>1, <3>2, <3>3, <3>4 DEF Receives, Rounds
 <2>2. ASSUME NEW o, o # m PROVE Receives(v, w, e, o)
  <3>1. ShownIn(w, o) = ShownIn(v, o)
   <4>1. Shown(next.thread.messages, o) = Shown(st.thread.messages, o)
    BY <1>7, <1>8, <2>2 DEF Finalized
   <4> QED BY <1>1, <4>1, HoldsIs
  <3>2. BufferedIn(w, o) = BufferedIn(v, o) BY <1>9, <2>2 DEF BufferedIn
  <3>3. ~IsDelta(e, o) /\ ~IsItem(e, o) BY <2>2 DEF IsDelta, IsItem
  <3> QED BY <1>1, <3>1, <3>2, <3>3, ReceivesNothing
 <2> QED BY <2>1, <2>2
<1>17. ASSUME NEW o \in DOMAIN w.buffered
    PROVE  Len(w.buffered[o]) \in 1..MaxBuffered /\ o \in RememberedIn(w, o[1])
 BY <1>2, <1>9, <1>13 DEF IngestTyped
<1>18. v.mode = "streaming" => DOMAIN w.buffered \subseteq DOMAIN v.buffered BY <1>9
<1>19. ASSUME NEW u \in DOMAIN w.remembered
    PROVE  /\ w.remembered[u] # {} /\ (u \in DOMAIN v.remembered \/ Of(e, u))
           /\ \A o \in w.remembered[u] :
                 o \in RememberedIn(v, u) \/ (o[1] = u /\ AboutText(e) /\ e.message = o)
 <2>1. CASE u = t BY <1>10, <1>11, <2>1 DEF Of, IsItem, AboutText
 <2>2. CASE u # t BY <1>2, <1>11, <2>2 DEF IngestTyped, RememberedIn
 <2> QED BY <2>1, <2>2
<1>20. \A o \in Ids(w.messages) : o \in Ids(v.messages) \/ (AboutText(e) /\ e.message = o)
 BY <1>9 DEF IsItem, AboutText
<1>21. Preserved(st, next, A) BY <1>6, <1>7, <1>8 DEF Finalized, Preserved
<1> QED BY <1>21, <1>6, <1>9, <1>14, <1>15, <1>16, <1>17, <1>18, <1>19, <1>20, HandledStep

(* A turn ends: its messages are final, and none is remembered.             *)
LEMMA TurnTaken ==
  ASSUME NEW v, NEW w, NEW e, NEW st, NEW next, NEW A, Handles(v, w, st, next, e, A),
    NEW turn, e.type = "turn.completed", e.turn = turn, next = IngestTurn(st, turn),
    w.completed = v.completed \cup ({turn} \ {0})
  PROVE Sound(w) /\ Preserved(st, next, A)
<1>1. /\ Sound(v) /\ Takes(v, w, e) /\ Holds(v, st) /\ Holds(w, next) /\ Stored(st, A)
      /\ SameAgent(v, w) /\ w.ordered = v.ordered
      /\ \A o : Plausible(v, o) => o \in A
      /\ Roomy(A)
 BY DEF Handles
<1>2. IngestTyped(v) /\ Fresh(v) /\ Streams(v) /\ Placed(v) BY <1>1 DEF Sound
<1> DEFINE M == Remembered(st, turn)
           fin == FinalizeTurn(st, turn)
           mid == [st EXCEPT !.thread.messages = fin.thread.messages,
                             !.thread.status = "active",
                             !.ingest.buffered = fin.ingest.buffered]
<1>3. next = RememberAs(mid, turn, {}) BY DEF IngestTurn
<1>4. M = RememberedIn(v, turn) BY <1>1, HoldsIs
<1>5. M \in SUBSET A BY <1>1, <1>2, <1>4 DEF Fresh, RememberedIn
<1>6. \A m \in M : m[1] = turn BY <1>2, <1>4 DEF IngestTyped, RememberedIn
<1>7. M = Remembered(st, turn) /\ fin = FinalizeTurn(st, turn) OBVIOUS
<1>8. Held(st) /\ DOMAIN st.ingest = IngestFields BY <1>1 DEF Stored
<1> HIDE DEF fin, M
<1>9. /\ Stored(fin, A) /\ Finalized(st, fin, M)
      /\ \A m \in M : Shown(fin.thread.messages, m) = Shown(st.thread.messages, m) \o Buffered(st, m)
 BY <1>1, <1>5, <1>7, FinalizeTurnIs
<1>10. /\ Held(mid) /\ DOMAIN mid.ingest = IngestFields
       /\ mid.thread.messages = fin.thread.messages
       /\ mid.ingest.mode = st.ingest.mode /\ mid.ingest.buffered = fin.ingest.buffered
       /\ mid.ingest.remembered = st.ingest.remembered
       /\ mid.thread.status = "active"
 BY <1>8 DEF Held, IngestFields, ThreadFields
<1> HIDE DEF mid
<1>11. Stored(mid, A) BY <1>9, <1>10 DEF Stored
<1>12. Stored(next, A) /\ Remembers(mid, next, turn, {}) BY <1>3, <1>11, RememberAsIs
<1>13. /\ next.ingest.mode = st.ingest.mode
       /\ w.messages = fin.thread.messages /\ w.buffered = fin.ingest.buffered
       /\ DOMAIN w.remembered = DOMAIN v.remembered \ {turn}
       /\ \A u \in DOMAIN w.remembered : w.remembered[u] = v.remembered[u]
 BY <1>1, <1>10, <1>12 DEF Remembers, Holds
<1>14. /\ DOMAIN w.buffered = DOMAIN v.buffered \ M
       /\ \A o \in DOMAIN w.buffered : w.buffered[o] = v.buffered[o]
       /\ Ids(w.messages) = Ids(v.messages) \cup M
       /\ \A x \in Range(w.messages) : (x.id \in M /\ ~x.streaming) \/ (x.id \notin M /\ x \in Range(v.messages))
 BY <1>1, <1>9, <1>13 DEF Finalized, Holds
<1>15. \A o : o \in RememberedIn(v, o[1]) /\ o \notin M => o \in RememberedIn(w, o[1])
 BY <1>4, <1>13 DEF RememberedIn
<1>16. Completes(v, w, e) BY <1>13 DEF Completes
<1>17. Streams(w)
 <2>1. \A x \in Range(w.messages) :
           \/ ~x.streaming
           \/ /\ x \in Range(v.messages)
              /\ Alive(w, x.id[1]) /\ x.id \in RememberedIn(v, x.id[1]) =>
                    x.id \in RememberedIn(w, x.id[1])
  BY <1>14, <1>15
 <2> QED BY <1>1, <1>2, <1>16, <2>1, StreamsTaken
<1>18. ASSUME NEW o PROVE Receives(v, w, e, o)
 <2>1. ~IsDelta(e, o) /\ ~IsItem(e, o) /\ ~AboutText(e) BY DEF IsDelta, IsItem, AboutText
 <2>2. CASE o \notin M
  <3>1. ShownIn(w, o) = ShownIn(v, o) BY <1>1, <1>9, <1>13, <2>2 DEF Finalized, ShownIn, Holds
  <3>2. BufferedIn(w, o) = BufferedIn(v, o) BY <1>14, <2>2 DEF BufferedIn
  <3> QED BY <1>1, <2>1, <3>1, <3>2, ReceivesNothing
 <2>3. CASE o \in M
  <3> DEFINE s == ShownIn(v, o)
             b == BufferedIn(v, o)
             d == s \o b
  <3>1. Shown(fin.thread.messages, o) = d BY <1>1, <1>9, <2>3, HoldsIs
  <3>2. ShownIn(w, o) = d BY <1>13, <3>1 DEF ShownIn
  <3>3. BufferedIn(w, o) = << >> BY <1>14, <2>3 DEF BufferedIn
  <3>4. s \in Seq(Nat) /\ b \in Seq(Nat) BY <1>2, SequencesIn
  <3>5. SaidIn(v, o) \in Nat /\ SaidIn(w, o) = SaidIn(v, o)
   <4>1. AgentTyped(v) BY <1>1 DEF Sound
   <4> QED BY <1>1, <4>1, SaidIs DEF SameAgent, SaidIn
  <3>6. Arranged(s, b, SaidIn(v, o), v.ordered) BY <1>2 DEF Placed
  <3> HIDE DEF s, b
  <3>7. Arranged(d, << >>, SaidIn(v, o), v.ordered) BY <3>4, <3>5, <3>6, Moved
  <3>8. Range(d) = Range(s) \cup Range(b) BY <3>4, Joined
  <3> HIDE DEF d
  <3> QED BY <1>1, <2>1, <3>2, <3>3, <3>5, <3>7, <3>8, NoText DEF Receives, s, b
 <2> QED BY <2>2, <2>3
<1>19. ASSUME NEW o \in DOMAIN w.buffered
    PROVE  Len(w.buffered[o]) \in 1..MaxBuffered /\ o \in RememberedIn(w, o[1])
 BY <1>2, <1>14, <1>15 DEF IngestTyped
<1>20. v.mode = "streaming" => DOMAIN w.buffered \subseteq DOMAIN v.buffered BY <1>14
<1>21. ASSUME NEW u \in DOMAIN w.remembered
    PROVE  /\ w.remembered[u] # {} /\ (u \in DOMAIN v.remembered \/ Of(e, u))
           /\ \A o \in w.remembered[u] :
                 o \in RememberedIn(v, u) \/ (o[1] = u /\ AboutText(e) /\ e.message = o)
 BY <1>2, <1>13 DEF IngestTyped, RememberedIn
<1>22. \A o \in Ids(w.messages) :
          o \in Ids(v.messages) \/ \E t \in DOMAIN v.remembered : o \in v.remembered[t]
 BY <1>4, <1>14 DEF RememberedIn
<1>23. Preserved(st, next, A) BY <1>10, <1>12 DEF Remembers, Preserved
<1> QED BY <1>23, <1>12, <1>13, <1>16, <1>17, <1>18, <1>19, <1>20, <1>21, <1>22, HandledStep

(* The session ends: what is buffered belongs to turns that are over.       *)
LEMMA ExitTaken ==
  ASSUME NEW v, NEW w, NEW e, NEW st, NEW next, NEW A, Handles(v, w, st, next, e, A),
    e.type = "session.exited", next = IngestExit(st), w.completed = v.completed
  PROVE Sound(w) /\ Preserved(st, next, A)
<1>1. /\ Sound(v) /\ Takes(v, w, e) /\ Holds(v, st) /\ Holds(w, next) /\ Stored(st, A)
      /\ SameAgent(v, w) /\ w.ordered = v.ordered
 BY DEF Handles
<1>2. IngestTyped(v) /\ Fresh(v) /\ Streams(v) /\ Placed(v) /\ Order(v) /\ AgentTyped(v)
 BY <1>1 DEF Sound
<1> DEFINE messages == UNION {st.ingest.remembered[t] : t \in DOMAIN st.ingest.remembered}
<1>3. DOMAIN st.ingest.buffered \subseteq messages
 BY <1>1, <1>2 DEF IngestTyped, RememberedIn, Holds
<1>4. Held(st) /\ DOMAIN st.ingest = IngestFields BY <1>1 DEF Stored
<1>5. /\ Held(next) /\ DOMAIN next.ingest = IngestFields
      /\ next.thread.messages = st.thread.messages
      /\ next.ingest.mode = st.ingest.mode
      /\ next.ingest.buffered = Restrict(st.ingest.buffered, DOMAIN st.ingest.buffered \ messages)
      /\ next.ingest.remembered = << >>
      /\ next.thread.status = "stopped"
 BY <1>4 DEF IngestExit, Held, IngestFields, ThreadFields
<1>6. DOMAIN next.ingest.buffered = {} BY <1>3, <1>5 DEF Restrict
<1>7. Stored(next, A) BY <1>1, <1>5, <1>6 DEF Stored
<1>8. DOMAIN w.remembered = {} /\ DOMAIN w.buffered = {} /\ w.messages = v.messages
 BY <1>1, <1>5, <1>6 DEF Holds
<1>9. ASSUME NEW t \in DOMAIN v.remembered PROVE ~Alive(w, t)
 <2>1. t \in 1..v.turns
  <3>1. PICK m : m \in v.remembered[t] /\ m[1] = t BY <1>2 DEF IngestTyped
  <3>2. Below(v, t) BY <1>2, <3>1 DEF Fresh, Plausible
  <3> QED BY <1>2, <3>2 DEF Below, AgentTyped
 <2>2. Over(v, t, 1) BY <1>1, <1>2, <2>1 DEF Order, EndsSession, Takes
 <2>3. t \notin v.completed BY <1>2 DEF Order
 <2>4. \A i \in DOMAIN w.q : ~Of(w.q[i], t)
  <3>1. \A i \in DOMAIN w.q : i + 1 \in DOMAIN v.q /\ w.q[i] = v.q[i + 1] /\ 1 < i + 1
   BY <1>1 DEF Takes
  <3> QED BY <2>2, <3>1 DEF Over
 <2> QED BY <1>1, <2>2, <2>3, <2>4 DEF Alive, Over, SameAgent
<1>10. Completes(v, w, e) BY DEF Completes
<1>11. Streams(w)
 <2>1. \A x \in Range(w.messages) :
           /\ x \in Range(v.messages)
           /\ Alive(w, x.id[1]) /\ x.id \in RememberedIn(v, x.id[1]) =>
                    x.id \in RememberedIn(w, x.id[1])
  BY <1>8, <1>9 DEF RememberedIn
 <2> QED BY <1>1, <1>2, <1>10, <2>1, StreamsTaken
<1>12. ASSUME NEW o PROVE Receives(v, w, e, o)
 <2>1. ~IsDelta(e, o) /\ ~IsItem(e, o) /\ ~AboutText(e) BY DEF IsDelta, IsItem, AboutText
 <2>2. ShownIn(w, o) = ShownIn(v, o) /\ BufferedIn(w, o) = << >> /\ SaidIn(w, o) = SaidIn(v, o)
  BY <1>1, <1>8 DEF ShownIn, BufferedIn, SaidIn, SameAgent
 <2>3. Alive(w, o[1]) => BufferedIn(v, o) = << >>
  BY <1>2, <1>9 DEF IngestTyped, BufferedIn, RememberedIn
 <2>4. Arranged(ShownIn(v, o), << >>, SaidIn(v, o), v.ordered)
  <3>1. Arranged(ShownIn(v, o), BufferedIn(v, o), SaidIn(v, o), v.ordered) BY <1>2 DEF Placed
  <3>2. \A k : Counts(<< >>, k) BY NoText DEF Counts
  <3> QED BY <3>1, <3>2, NoText DEF Arranged
 <2> QED BY <1>1, <2>1, <2>2, <2>3, <2>4, NoText DEF Receives
<1>13. v.mode = "streaming" => DOMAIN w.buffered \subseteq DOMAIN v.buffered BY <1>8
<1>14. \A o \in Ids(w.messages) : o \in Ids(v.messages) BY <1>8
<1>15. Preserved(st, next, A) BY <1>5, <1>7 DEF Preserved
<1> QED BY <1>15, <1>5, <1>7, <1>8, <1>10, <1>11, <1>12, <1>13, <1>14, HandledStep

--------------------
(* A turn of Claude ends with several events at once: its last words are    *)
(* followed one event at a time.                                            *)
\* The view v with another queue and another state of the agent.
After(v, q, item, emitted) ==
    [q |-> q, turn |-> v.turn, item |-> item, emitted |-> emitted, quiet |-> v.quiet,
     said |-> v.said, turns |-> v.turns, starting |-> v.starting, messages |-> v.messages,
     mode |-> v.mode, buffered |-> v.buffered, remembered |-> v.remembered,
     completed |-> v.completed, ordered |-> v.ordered]

\* The agent of the view is idle.
Idle(v, w) ==
    /\ SameIngest(v, w) /\ SameTurns(v, w) /\ w.said = v.said
    /\ w.turn = 0 /\ w.item = 1 /\ ~w.emitted

LEMMA ItemEnds ==
  ASSUME NEW v, NEW w, Sound(v), IsSeq(v.q), v.turn # 0, v.item = 1,
    v.emitted \/ Cur(v) \notin DOMAIN v.said, Idle(v, w),
    w.q = Append(Append(v.q, ItemCompleted(Cur(v), << >>)), TurnCompleted(v.turn))
  PROVE Sound(w) /\ IsSeq(w.q)
<1> DEFINE q == Append(v.q, ItemCompleted(Cur(v), << >>))
           x == After(v, q, v.item + 1, FALSE)
<1>1. /\ SameIngest(v, x) /\ SameTurns(v, x) /\ x.said = v.said /\ x.turn = v.turn
      /\ x.q = q /\ x.item = v.item + 1 /\ x.emitted = FALSE
 BY DEF After, SameIngest, SameTurns
<1> HIDE DEF x
<1>2. PICK i : Offers(v, x, i, ItemCompleted(Cur(v), << >>)) BY <1>1, OffersIs
<1>3. IsSeq(x.q) BY <1>1, AppendIs
<1>4. Sound(x)
 <2>1. /\ << >> \in {<< >>, WholeIn(v, Cur(v))}
       /\ v.emitted \/ Cur(v) \notin DOMAIN v.said \/ << >> = WholeIn(v, Cur(v))
       /\ Cur(v) \in DOMAIN v.said \/ v.item = 1
  OBVIOUS
 <2>2. ~x.emitted BY <1>1
 <2> QED BY <1>1, <1>2, <2>1, <2>2, ItemStep
<1>5. Cur(x) \notin DOMAIN x.said
 <2>1. Cur(x)[1] = v.turn /\ Cur(x)[2] = 2 BY <1>1, CurIs
 <2>2. Fresh(v) BY DEF Sound
 <2>3. \A m \in DOMAIN v.said : m[1] = v.turn => m[2] <= 1 BY <2>2 DEF Fresh, Plausible
 <2> QED BY <1>1, <2>1, <2>3
<1> HIDE DEF q
<1> DEFINE e == TurnCompleted(v.turn)
<1>6. w.q = Append(x.q, e) BY <1>1 DEF q
<1>7. e.type = "turn.completed" /\ e.turn = x.turn BY <1>1 DEF TurnCompleted
<1> HIDE DEF e
<1>8. PICK n : Offers(x, w, n, e) BY <1>3, <1>6, OffersIs
<1>9. /\ SameIngest(x, w) /\ SameTurns(x, w) /\ w.said = x.said
      /\ w.turn = 0 /\ w.item = 1 /\ ~w.emitted
 BY <1>1 DEF Idle, SameIngest, SameTurns
<1>10. Sound(w) BY <1>4, <1>5, <1>7, <1>8, <1>9, CloseStep
<1>11. IsSeq(w.q) BY <1>3, <1>6, AppendIs
<1> QED BY <1>10, <1>11

LEMMA TurnEnds ==
  ASSUME NEW v, NEW w, Sound(v), IsSeq(v.q), v.turn # 0, v.item = 1, Idle(v, w),
    NEW q, ~v.emitted /\ SaidIn(v, Cur(v)) > 0 =>
              q = Append(v.q, Delta(Cur(v), WholeIn(v, Cur(v)))),
    ~(~v.emitted /\ SaidIn(v, Cur(v)) > 0) => q = v.q,
    w.q = Append(Append(q, ItemCompleted(Cur(v), << >>)), TurnCompleted(v.turn))
  PROVE Sound(w) /\ IsSeq(w.q)
<1>1. AgentTyped(v) BY DEF Sound
<1>2. SaidIn(v, Cur(v)) \in Nat /\ (SaidIn(v, Cur(v)) = 0 <=> Cur(v) \notin DOMAIN v.said)
 BY <1>1, SaidIs
<1>3. CASE ~(~v.emitted /\ SaidIn(v, Cur(v)) > 0)
 <2>1. v.emitted \/ Cur(v) \notin DOMAIN v.said BY <1>1, <1>2, <1>3 DEF AgentTyped
 <2> QED BY <1>3, <2>1, ItemEnds
<1>4. CASE ~v.emitted /\ SaidIn(v, Cur(v)) > 0
 <2> DEFINE text == WholeIn(v, Cur(v))
            k == SaidIn(v, Cur(v))
            e == Delta(Cur(v), text)
            x == After(v, q, v.item, TRUE)
 <2>1. /\ SameIngest(v, x) /\ SameTurns(v, x) /\ x.said = v.said /\ x.turn = v.turn
       /\ x.q = q /\ x.item = v.item /\ x.emitted = TRUE
  BY DEF After, SameIngest, SameTurns
 <2> HIDE DEF x
 <2>2. q = Append(v.q, e) BY <1>4
 <2>3. PICK n : Offers(v, x, n, e) BY <2>1, <2>2, OffersIs
 <2>4. IsSeq(x.q) BY <2>1, <2>2, AppendIs
 <2>5. text \in Seq(Nat) /\ Len(text) = k /\ Counts(text, 0) BY <1>2, WholeIs
 <2>6. SaysUpTo(v, x, k) BY <1>2, <1>4, <2>1 DEF SaysUpTo, SaidIn
 <2> HIDE DEF text, k
 <2>7. /\ k \in Nat /\ k > 0 /\ SaidIn(v, Cur(v)) <= k BY <1>2, <1>4 DEF k
 <2>8. text # << >> /\ 0 + Len(text) = k BY <2>5, <2>7, NoText
 <2>9. 0 \in Nat /\ x.emitted BY <2>1
 <2>10. Sound(x) BY <1>4, <2>1, <2>3, <2>5, <2>6, <2>7, <2>8, <2>9, SpeakStep
 <2>11. Idle(x, w) /\ Cur(x) = Cur(v) BY <2>1 DEF Idle, SameIngest, SameTurns, Cur
 <2>12. w.q = Append(Append(x.q, ItemCompleted(Cur(x), << >>)), TurnCompleted(x.turn))
  BY <2>1, <2>11
 <2>13. x.item = 1 /\ x.turn # 0 BY <2>1
 <2> QED BY <2>4, <2>9, <2>10, <2>11, <2>12, <2>13, ItemEnds
<1> QED BY <1>3, <1>4

--------------------
(* The invariant, and the states of the model as views.                     *)
\* A session of the adapter.
Session == [live : BOOLEAN, turn : Nat, item : Nat \ {0}, emitted : BOOLEAN,
            pending : SUBSET Nat]

\* The shapes that text rests on.
Typed ==
    /\ setting \in Settings
    /\ adapter \in Session
    /\ DOMAIN ingest = IngestFields
    /\ thread.status \in {"none", "active", "stopped"}

\* One turn at most is about to start.
OneStart ==
    \A i, j \in DOMAIN intents :
        intents[i].type = "start" /\ intents[j].type = "start" => i = j

\* No more messages than chunks; a turn of Claude has one item, and a session
\* that is gone runs no turn.
Bounded ==
    /\ IsFiniteSet(DOMAIN said) /\ Cardinality(DOMAIN said) <= spent.chunks
    /\ \A k \in Kinds : spent[k] <= setting[k]
    /\ Claude => adapter.item = 1
    /\ ~adapter.live => adapter.turn = 0
    /\ OneStart

\* What is streamed of the message in hand can be told from the adapter, and
\* Codex streams a message or says it at once.
Tally ==
    /\ \A m \in DOMAIN said :
          /\ said[m] \in [streamed : Nat, atOnce : Nat]
          /\ said[m].streamed = 0 => said[m].atOnce # 0
          /\ said[m].streamed # 0 /\ ~Claude => said[m].atOnce = 0
          /\ said[m].streamed = 0 /\ ~Claude => said[m].atOnce = 1
    /\ adapter.turn # 0 => (adapter.emitted <=> Said(Current).streamed # 0)

\* What holds of every state, with RequestsInvariant and Tally.
TextInvariant == Typed /\ Bounded /\ Sound(View)

\* The chunks that the text of each message keeps.
Texts == [m \in DOMAIN said |-> Kept(m)]

LEMMA ViewIs ==
    /\ View.q = queue /\ View.turn = adapter.turn /\ View.item = adapter.item
    /\ View.emitted = adapter.emitted /\ View.quiet = Claude /\ View.said = Texts
    /\ View.turns = spent.turns
    /\ View.starting = (\E i \in Range(intents) : i.type = "start")
    /\ View.messages = thread.messages /\ View.mode = ingest.mode
    /\ View.buffered = ingest.buffered /\ View.remembered = ingest.remembered
    /\ View.completed = completed /\ View.ordered = (spent.switches = 0)
    /\ DOMAIN View.said = DOMAIN said
BY DEF View, Texts

LEMMA NextViewIs ==
    /\ View'.q = queue' /\ View'.turn = adapter'.turn /\ View'.item = adapter'.item
    /\ View'.emitted = adapter'.emitted /\ View'.quiet = Claude' /\ View'.said = Texts'
    /\ View'.turns = spent'.turns
    /\ View'.starting = (\E i \in Range(intents') : i.type = "start")
    /\ View'.messages = thread'.messages /\ View'.mode = ingest'.mode
    /\ View'.buffered = ingest'.buffered /\ View'.remembered = ingest'.remembered
    /\ View'.completed = completed' /\ View'.ordered = (spent'.switches = 0)
    /\ said' = said => View'.said = View.said
BY DEF View, Texts, Kept

LEMMA CurrentIs ==
    /\ Cur(View) = Current
    /\ \A m : SaidIn(View, m) = Kept(m) /\ WholeIn(View, m) = Whole(m)
<1>1. \A m : SaidIn(View, m) = Kept(m) BY ViewIs DEF SaidIn, Texts, Kept
<1> QED BY <1>1, ViewIs DEF Cur, Current, WholeIn, Whole

LEMMA SpendKeeps ==
  ASSUME NEW kind \in Kinds, Spend(kind), spent \in [Kinds -> Nat], setting \in Settings,
    \A k \in Kinds : spent[k] <= setting[k], UNCHANGED setting
  PROVE /\ \A k \in Kinds : spent'[k] <= setting'[k]
        /\ spent'[kind] = spent[kind] + 1
        /\ \A k \in Kinds \ {kind} : spent'[k] = spent[k]
<1>1. \A k \in Kinds : setting[k] \in Nat BY RuntimeAssumption
<1>2. spent[kind] \in Nat /\ spent[kind] < setting[kind] BY DEF Spend
<1>3. spent'[kind] = spent[kind] + 1 /\ \A k \in Kinds \ {kind} : spent'[k] = spent[k]
 BY DEF Spend
<1>4. spent[kind] + 1 <= setting[kind] BY <1>1, <1>2
<1> QED BY <1>3, <1>4

--------------------
(* Sequences put together.                                                  *)
LEMMA Glue ==
  ASSUME NEW q, IsSeq(q), NEW s, IsSeq(s), NEW e
  PROVE /\ q \o << >> = q
        /\ q \o Append(s, e) = Append(q \o s, e)
        /\ q \o <<e>> = Append(q, e)
<1> DEFINE S == Range(q) \cup Range(s) \cup {e}
<1>1. Range(q) \subseteq S /\ Range(s) \subseteq S OBVIOUS
<1>2. q \in Seq(S) /\ s \in Seq(S) /\ e \in S BY <1>1, SeqMonotonic DEF IsSeq
<1> HIDE DEF S
<1>3. q \o << >> = q BY <1>2, ConcatEmptySeq
<1>4. Append(q, e) = q \o <<e>> /\ Append(s, e) = s \o <<e>> BY <1>2, AppendIsConcat
<1>5. q \o s \in Seq(S) /\ <<e>> \in Seq(S) BY <1>2, ConcatProperties
<1>6. Append(q \o s, e) = (q \o s) \o <<e>> BY <1>2, <1>5, AppendIsConcat
<1>7. (q \o s) \o <<e>> = q \o (s \o <<e>>) BY <1>2, <1>5, ConcatAssociative
<1> QED BY <1>3, <1>4, <1>6, <1>7

LEMMA Longer ==
  ASSUME NEW q, IsSeq(q), NEW s, IsSeq(s), NEW r, r = q \o s
  PROVE /\ DOMAIN q \subseteq DOMAIN r /\ \A i \in DOMAIN q : r[i] = q[i]
        /\ \A i \in DOMAIN r \ DOMAIN q : r[i] \in Range(s)
<1> DEFINE S == Range(q) \cup Range(s)
<1>1. Range(q) \subseteq S /\ Range(s) \subseteq S OBVIOUS
<1>2. q \in Seq(S) /\ s \in Seq(S) BY <1>1, SeqMonotonic DEF IsSeq
<1> HIDE DEF S
<1>3. /\ Len(r) = Len(q) + Len(s) /\ r \in Seq(S)
      /\ \A i \in 1..(Len(q) + Len(s)) : r[i] = IF i <= Len(q) THEN q[i] ELSE s[i - Len(q)]
 BY <1>2, ConcatProperties
<1>4. /\ Len(q) \in Nat /\ DOMAIN q = 1..Len(q) /\ Len(s) \in Nat /\ DOMAIN s = 1..Len(s)
      /\ DOMAIN r = 1..(Len(q) + Len(s))
 BY <1>2, <1>3, LenProperties
<1>5. ASSUME NEW i \in DOMAIN r \ DOMAIN q PROVE r[i] \in Range(s)
 <2>1. i - Len(q) \in DOMAIN s /\ r[i] = s[i - Len(q)] BY <1>3, <1>4
 <2> QED BY <2>1 DEF Range
<1> QED BY <1>3, <1>4, <1>5

(* Other events are offered, and text stays as it is.                       *)
LEMMA OthersOffered ==
  ASSUME NEW v, NEW w, Sound(v), IsSeq(v.q), SameIngest(v, w), SameAgent(v, w),
    NEW s, IsSeq(s), \A e \in Range(s) : Other(e), w.q = v.q \o s
  PROVE Sound(w)
<1>1. /\ DOMAIN v.q \subseteq DOMAIN w.q /\ \A i \in DOMAIN v.q : w.q[i] = v.q[i]
      /\ \A i \in DOMAIN w.q \ DOMAIN v.q : w.q[i] \in Range(s)
 BY Longer
<1>2. \A i \in DOMAIN w.q \ DOMAIN v.q : Other(w.q[i]) BY <1>1
<1> QED BY <1>1, <1>2, OtherStep

LEMMA OtherOffered ==
  ASSUME NEW v, NEW w, Sound(v), IsSeq(v.q), SameIngest(v, w), SameAgent(v, w),
    NEW e, Other(e), w.q = Append(v.q, e)
  PROVE Sound(w)
<1>1. IsSeq(<<e>>) /\ \A x \in Range(<<e>>) : Other(x) BY OneIs
<1>2. w.q = v.q \o <<e>> BY EmptyIs, Glue
<1> QED BY <1>1, <1>2, OthersOffered

LEMMA NothingOffered ==
  ASSUME NEW v, NEW w, Sound(v), SameIngest(v, w), SameAgent(v, w), w.q = v.q PROVE Sound(w)
BY OtherStep

LEMMA OtherEvents ==
    /\ Other(Started) /\ \A r : Other(Opened(r))
    /\ \A r, d : Other(Resolved(r, d))
BY DEF Other, Started, Opened, Resolved

--------------------
(* The agent says something.                                                *)
\* What both invariants say of the state, ready to be cited.
LEMMA Facts ==
  ASSUME RequestsInvariant, TextInvariant
  PROVE /\ Sound(View) /\ IsSeq(View.q) /\ IsSeq(queue) /\ IsSeq(intents)
        /\ adapter \in Session /\ spent \in [Kinds -> Nat] /\ setting \in Settings
        /\ DOMAIN thread = ThreadFields /\ DOMAIN ingest = IngestFields
        /\ AgentTyped(View) /\ adapter.turn <= spent.turns
        /\ adapter.turn = 0 => adapter.item = 1 /\ ~adapter.emitted
        /\ \A k \in Kinds : spent[k] <= setting[k]
BY ViewIs DEF TextInvariant, Typed, Bounded, Sound, AgentTyped, RequestsInvariant, Shapes,
     ThreadFields

LEMMA StayingIngest ==
  ASSUME UNCHANGED <<ingest, completed>>, thread'.messages = thread.messages,
    spent'.switches = spent.switches
  PROVE SameIngest(View, View')
BY ViewIs, NextViewIs DEF SameIngest

\* A turn is about to start after the step if one was before it.
SameStart ==
    (\E i \in Range(intents) : i.type = "start") <=> (\E i \in Range(intents') : i.type = "start")

LEMMA StayingTurns ==
  ASSUME spent'.turns = spent.turns, SameStart PROVE SameTurns(View, View')
<1>1. View.starting = View'.starting BY ViewIs, NextViewIs DEF SameStart
<1> QED BY <1>1, ViewIs, NextViewIs DEF SameTurns

LEMMA StayingAgent ==
  ASSUME spent'.turns = spent.turns, SameStart, UNCHANGED <<setting, said>>,
    adapter'.turn = adapter.turn, adapter'.item = adapter.item,
    adapter'.emitted = adapter.emitted
  PROVE SameAgent(View, View')
<1>1. View.starting = View'.starting BY ViewIs, NextViewIs DEF SameStart
<1>2. View.quiet = View'.quiet BY ViewIs, NextViewIs DEF Claude
<1> QED BY <1>1, <1>2, ViewIs, NextViewIs DEF SameAgent

LEMMA SameIntents == ASSUME UNCHANGED intents PROVE SameStart
BY DEF SameStart

\* The message in hand now holds k chunks, one more than was spent.
Tells(k) ==
    /\ \A x \in Kinds : spent'[x] <= setting'[x]
    /\ spent'.switches = spent.switches /\ spent'.turns = spent.turns
    /\ IsFiniteSet(DOMAIN said') /\ Cardinality(DOMAIN said') <= spent'.chunks
    /\ DOMAIN Texts' = DOMAIN Texts \cup {Current} /\ Texts'[Current] = k
    /\ \A m \in DOMAIN Texts : m # Current => Texts'[m] = Texts[m]

\* A message of which s was said, in the history after the step.
Heard(m, s) ==
    /\ DOMAIN said' = DOMAIN said \cup {m} /\ said'[m] = s
    /\ \A x \in DOMAIN said : x # m => said'[x] = said[x]

LEMMA Spoken ==
  ASSUME RequestsInvariant, TextInvariant, Spend("chunks"), UNCHANGED setting,
    NEW s, Heard(Current, s)
  PROVE Tells(IF s.streamed > 0 THEN s.streamed ELSE 1)
<1>1. /\ spent \in [Kinds -> Nat] /\ setting \in Settings
      /\ \A x \in Kinds : spent[x] <= setting[x]
 BY Facts
<1>2. {"chunks", "switches", "turns"} \subseteq Kinds BY DEF Kinds
<1>3. /\ \A x \in Kinds : spent'[x] <= setting'[x]
      /\ spent'["chunks"] = spent["chunks"] + 1
      /\ \A x \in Kinds \ {"chunks"} : spent'[x] = spent[x]
 BY <1>1, <1>2, SpendKeeps
<1>4. /\ DOMAIN said' = DOMAIN said \cup {Current} /\ said'[Current] = s
      /\ \A m \in DOMAIN said : m # Current => said'[m] = said[m]
 BY DEF Heard
<1>10. DOMAIN Texts' = DOMAIN said' /\ DOMAIN Texts = DOMAIN said BY DEF Texts
<1>11. Texts'[Current] = IF s.streamed > 0 THEN s.streamed ELSE 1 BY <1>4 DEF Texts, Kept
<1>12. \A m \in DOMAIN said : m # Current => Texts'[m] = Texts[m] BY <1>4 DEF Texts, Kept
<1>5. IsFiniteSet(DOMAIN said) /\ Cardinality(DOMAIN said) <= spent.chunks
 BY DEF TextInvariant, Bounded
<1>6. IsFiniteSet(DOMAIN said') /\ Cardinality(DOMAIN said') <= Cardinality(DOMAIN said) + 1
 <2> DEFINE D == DOMAIN said
 <2>1. /\ IsFiniteSet(D \cup {Current}) /\ Cardinality(D) \in Nat
       /\ Cardinality(D \cup {Current}) = IF Current \in D THEN Cardinality(D)
                                          ELSE Cardinality(D) + 1
  BY <1>5, FS_AddElement, FS_CardinalityType
 <2> QED BY <1>4, <2>1
<1>7. Cardinality(DOMAIN said') \in Nat /\ Cardinality(DOMAIN said) \in Nat
 BY <1>5, <1>6, FS_CardinalityType
<1>8. spent.chunks \in Nat /\ spent'.chunks = spent.chunks + 1 BY <1>1, <1>2, <1>3
<1>9. Cardinality(DOMAIN said') <= spent'.chunks BY <1>5, <1>6, <1>7, <1>8
<1> QED BY <1>2, <1>3, <1>4, <1>6, <1>9, <1>10, <1>11, <1>12 DEF Tells

\* What was said of the message in hand.
LEMMA SaidNow ==
  ASSUME TextInvariant, Tally, Running
  PROVE /\ Said(Current) \in [streamed : Nat, atOnce : Nat]
        /\ adapter.emitted <=> Said(Current).streamed # 0
        /\ adapter.emitted => Kept(Current) = Said(Current).streamed
        /\ Current \in DOMAIN said => Kept(Current) # 0
        /\ Current \notin DOMAIN said => Said(Current) = [streamed |-> 0, atOnce |-> 0]
<1>1. adapter.emitted <=> Said(Current).streamed # 0 BY DEF Tally, Running
<1>2. Said(Current) \in [streamed : Nat, atOnce : Nat]
 <2>1. CASE Current \in DOMAIN said BY <2>1 DEF Tally, Said
 <2>2. CASE Current \notin DOMAIN said BY <2>2 DEF Said
 <2> QED BY <2>1, <2>2
<1>3. CASE Current \in DOMAIN said
 <2>1. Said(Current) = said[Current] /\ said[Current].streamed \in Nat BY <1>2, <1>3 DEF Said
 <2>2. Kept(Current) = IF said[Current].streamed > 0 THEN said[Current].streamed ELSE 1
  BY <1>3 DEF Kept
 <2> QED BY <1>1, <1>2, <1>3, <2>1, <2>2
<1>4. CASE Current \notin DOMAIN said BY <1>1, <1>2, <1>4 DEF Said
<1> QED BY <1>3, <1>4

LEMMA Hears ==
  ASSUME NEW m, NEW s, said' = Put(said, m, s) PROVE Heard(m, s)
BY DEF Heard, Put

LEMMA SayText ==
  ASSUME RequestsInvariant, TextInvariant, Tally, Say PROVE TextInvariant'
<1> DEFINE k == Said(Current).streamed + 1
           text == <<k>>
           v == View
           w == View'
           s == [Said(Current) EXCEPT !.streamed = @ + 1]
<1>1. /\ Running /\ Spend("chunks")
      /\ said' = Put(said, Current, s)
      /\ queue' = Append(queue, Delta(Current, text))
      /\ adapter' = [adapter EXCEPT !.emitted = TRUE]
      /\ UNCHANGED <<setting, ingest, thread, intents, completed>>
 BY DEF Say
<1>2. /\ Sound(v) /\ IsSeq(v.q) /\ AgentTyped(v) /\ adapter \in Session BY Facts
<1>3. /\ Said(Current) \in [streamed : Nat, atOnce : Nat] /\ Said(Current).streamed \in Nat
      /\ (adapter.emitted <=> Said(Current).streamed # 0)
      /\ adapter.emitted => Kept(Current) = Said(Current).streamed
 BY <1>1, SaidNow
<1>4. k \in Nat \ {0} /\ k > 0 BY <1>3
<1>5. Tells(k)
 <2>1. s.streamed = k BY <1>3
 <2>2. Heard(Current, s) BY <1>1, Hears
 <2> HIDE DEF s, k
 <2>3. Tells(IF s.streamed > 0 THEN s.streamed ELSE 1) BY <1>1, <2>2, Spoken
 <2> QED BY <1>4, <2>1, <2>3
<1>6. /\ adapter' \in Session /\ adapter'.live = adapter.live /\ adapter'.turn = adapter.turn
      /\ adapter'.item = adapter.item /\ adapter'.emitted = TRUE
 BY <1>1, <1>2 DEF Session
<1>7. Typed' /\ Bounded'
 BY <1>1, <1>5, <1>6 DEF TextInvariant, Typed, Bounded, OneStart, Claude, Tells
<1>8. SameIngest(v, w) /\ SameTurns(v, w)
 BY <1>1, <1>5, StayingIngest, StayingTurns, SameIntents DEF Tells
<1>9. Cur(v) = Current /\ SaidIn(v, Cur(v)) = Kept(Current) BY CurrentIs
<1>10. SaysUpTo(v, w, k) BY <1>4, <1>5, <1>9, ViewIs, NextViewIs DEF SaysUpTo, Tells
<1>11. w.q = Append(v.q, Delta(Cur(v), text)) BY <1>1, <1>9, ViewIs, NextViewIs
<1>12. PICK n : Offers(v, w, n, Delta(Cur(v), text)) BY <1>2, <1>11, OffersIs
<1> DEFINE a == Said(Current).streamed
<1>13. /\ text \in Seq(Nat) /\ text # << >> /\ Counts(text, a) /\ a + Len(text) = k
 BY <1>3, <1>4 DEF Counts
<1>14. a \in Nat /\ SaidIn(v, Cur(v)) <= k
 <2>1. Kept(Current) <= k
  <3>1. CASE adapter.emitted BY <1>3, <3>1
  <3>2. CASE ~adapter.emitted
   <4>1. Said(Current).streamed = 0 BY <1>3, <3>2
   <4>2. Kept(Current) \in {0, 1} BY <4>1 DEF Kept, Said
   <4> QED BY <1>4, <4>2
  <3> QED BY <3>1, <3>2
 <2> QED BY <1>3, <1>9, <2>1
<1>15. (v.emitted => a = SaidIn(v, Cur(v))) /\ (~v.emitted => a = 0) BY <1>3, <1>9, ViewIs
<1>16. v.turn # 0 /\ w.turn = v.turn /\ w.item = v.item /\ w.emitted = TRUE
 BY <1>1, <1>6, ViewIs, NextViewIs DEF Running
<1> HIDE DEF k, text, v, w, a, s
<1>17. Sound(w) BY <1>2, <1>8, <1>10, <1>12, <1>13, <1>14, <1>15, <1>16, SpeakStep
<1> QED BY <1>7, <1>17 DEF TextInvariant, w

LEMMA FinishItemText ==
  ASSUME RequestsInvariant, TextInvariant, FinishItem PROVE TextInvariant'
<1> DEFINE v == View
           w == View'
           text == Whole(Current)
<1>1. /\ Running /\ ~Claude /\ adapter.emitted
      /\ queue' = Append(queue, ItemCompleted(Current, text))
      /\ adapter' = [adapter EXCEPT !.item = @ + 1, !.emitted = FALSE]
      /\ UNCHANGED <<setting, ingest, thread, intents, spent, said, completed>>
 BY DEF FinishItem
<1>2. /\ Sound(v) /\ IsSeq(v.q) /\ AgentTyped(v) /\ adapter \in Session BY Facts
<1>3. /\ adapter' \in Session /\ adapter'.live = adapter.live /\ adapter'.turn = adapter.turn
      /\ adapter'.item = adapter.item + 1 /\ adapter'.emitted = FALSE
 <2>1. adapter.item + 1 \in Nat \ {0} BY <1>2 DEF Session
 <2>2. adapter' = [adapter EXCEPT !.item = adapter.item + 1, !.emitted = FALSE] BY <1>1
 <2> QED BY <1>2, <2>1, <2>2 DEF Session
<1>4. Typed' /\ Bounded' BY <1>1, <1>3 DEF TextInvariant, Typed, Bounded, OneStart, Claude
<1>5. SameIngest(v, w) /\ SameTurns(v, w) BY <1>1, StayingIngest, StayingTurns, SameIntents
<1>6. Cur(v) = Current /\ WholeIn(v, Cur(v)) = text BY CurrentIs
<1>7. w.q = Append(v.q, ItemCompleted(Cur(v), text)) /\ w.said = v.said
 BY <1>1, <1>6, ViewIs, NextViewIs
<1>8. PICK n : Offers(v, w, n, ItemCompleted(Cur(v), text)) BY <1>2, <1>7, OffersIs
<1>9. v.turn # 0 /\ w.turn = v.turn /\ w.item = v.item + 1 /\ w.emitted = FALSE /\ v.emitted
 BY <1>1, <1>3, ViewIs, NextViewIs DEF Running
<1>10. Cur(v) \in DOMAIN v.said BY <1>2, <1>9 DEF Sound, Now
<1>11. text \in {<< >>, WholeIn(v, Cur(v))} BY <1>6
<1> HIDE DEF v, w, text
<1>12. Sound(w) BY <1>2, <1>5, <1>7, <1>8, <1>9, <1>10, <1>11, ItemStep
<1> QED BY <1>4, <1>12 DEF TextInvariant, w

--------------------
(* A turn or the session ends.                                              *)
\* r is q followed by s; t is s followed by the event e.
Glues(q, s, r) == r = q \o s
Added(s, e, t) == t = Append(s, e)

LEMMA Glued ==
  ASSUME NEW q, IsSeq(q), NEW s, IsSeq(s), NEW e, NEW t, Added(s, e, t),
    NEW p, Glues(q, s, p), NEW r, Glues(q, t, r)
  PROVE Added(p, e, r)
<1>1. q \o Append(s, e) = Append(q \o s, e) BY Glue
<1> QED BY <1>1 DEF Glues, Added

LEMMA TurnCompletes ==
  ASSUME NEW v, NEW w, Sound(v), IsSeq(v.q), Idle(v, w), v.item = 1,
    v.turn = adapter.turn, v.emitted = adapter.emitted, Cur(v) = Current,
    SaidIn(v, Current) = Kept(Current), WholeIn(v, Current) = Whole(Current),
    w.q = v.q \o CompleteTurn
  PROVE Sound(w) /\ IsSeq(w.q)
<1> DEFINE end == TurnCompleted(adapter.turn)
<1>1. IsSeq(LastWords) /\ CompleteTurn = Append(LastWords, end) BY LastWordsAre DEF CompleteTurn
<1> DEFINE before == v.q \o LastWords
<1>2. IsSeq(before) BY <1>1, ConcatIs
<1>3. w.q = Append(before, end)
 <2> DEFINE all == CompleteTurn
            last == LastWords
 <2>1. Added(last, end, all) /\ Glues(v.q, last, before) /\ Glues(v.q, all, w.q)
  BY <1>1 DEF Added, Glues
 <2>2. IsSeq(last) BY <1>1
 <2> HIDE DEF all, last, before, end
 <2>3. Added(before, end, w.q) BY <2>1, <2>2, Glued
 <2> QED BY <2>3 DEF Added
<1>4. CASE v.turn = 0
 <2>1. before = v.q BY <1>4, EmptyIs, Glue DEF LastWords
 <2>2. PICK n : Offers(v, w, n, end) BY <1>3, <2>1, OffersIs
 <2>3. end.type = "turn.completed" /\ end.turn = v.turn BY DEF TurnCompleted
 <2> HIDE DEF end
 <2>4. Sound(w) BY <1>4, <2>2, <2>3, CloseStep DEF Idle
 <2> QED BY <1>2, <1>3, <2>4, AppendIs
<1>5. CASE v.turn # 0
 <2> DEFINE delta == Delta(Current, Whole(Current))
            item == ItemCompleted(Current, << >>)
            said0 == ~adapter.emitted /\ Kept(Current) > 0
            first == IF said0 THEN <<delta>> ELSE << >>
            q == v.q \o first
 <2>1. LastWords = first \o <<item>> BY <1>5 DEF LastWords
 <2>2. IsSeq(first) BY OneIs, EmptyIs
 <2> HIDE DEF first, item
 <2>3. first \o <<item>> = Append(first, item) BY <2>2, Glue
 <2>4. before = Append(q, item)
  <3> DEFINE last == LastWords
  <3>1. Added(first, item, last) /\ Glues(v.q, last, before) /\ Glues(v.q, first, q)
   BY <2>1, <2>3 DEF Added, Glues
  <3> HIDE DEF last, before, q
  <3>2. Added(q, item, before) BY <2>2, <3>1, Glued
  <3> QED BY <3>2 DEF Added
 <2>5. said0 => q = Append(v.q, delta)
  <3> HIDE DEF delta
  <3> QED BY EmptyIs, Glue DEF first
 <2>6. ~said0 => q = v.q BY EmptyIs, Glue DEF first
 <2> HIDE DEF q, before
 <2>7. ~v.emitted /\ SaidIn(v, Cur(v)) > 0 => q = Append(v.q, Delta(Cur(v), WholeIn(v, Cur(v))))
  BY <2>5
 <2>8. ~(~v.emitted /\ SaidIn(v, Cur(v)) > 0) => q = v.q BY <2>6
 <2>9. w.q = Append(Append(q, ItemCompleted(Cur(v), << >>)), TurnCompleted(v.turn))
  BY <1>3, <2>4 DEF item
 <2> QED BY <1>5, <2>7, <2>8, <2>9, TurnEnds
<1> QED BY <1>4, <1>5

\* The session of the adapter runs no turn.
Rests == adapter'.turn = 0 /\ adapter'.item = 1 /\ adapter'.emitted = FALSE

LEMMA NewSessionRests ==
  ASSUME NEW live \in BOOLEAN, adapter' = NewSession(live)
  PROVE Rests /\ adapter' \in Session /\ adapter'.live = live
BY DEF Rests, NewSession, Session

LEMMA RestingIs ==
  ASSUME Rests, UNCHANGED <<said, ingest, completed, setting>>,
    thread'.messages = thread.messages, spent'.switches = spent.switches,
    spent'.turns = spent.turns, SameStart
  PROVE Idle(View, View')
<1>1. SameIngest(View, View') /\ SameTurns(View, View') BY StayingIngest, StayingTurns
<1>2. View'.turn = 0 /\ View'.item = 1 /\ View'.emitted = FALSE /\ View'.said = View.said
 BY ViewIs, NextViewIs DEF Rests
<1> QED BY <1>1, <1>2 DEF Idle

(* The end of a turn or of the session reaches ingestion, whatever else was *)
(* offered before.                                                          *)
LEMMA Closed ==
  ASSUME RequestsInvariant, TextInvariant, Claude, Idle(View, View'),
    queue' = queue \o CompleteTurn
  PROVE Sound(View')
<1> DEFINE v == View
           w == View'
<1>1. Sound(v) /\ IsSeq(v.q) BY Facts
<1>2. /\ v.item = 1 /\ v.turn = adapter.turn /\ v.emitted = adapter.emitted
      /\ Cur(v) = Current /\ SaidIn(v, Current) = Kept(Current)
      /\ WholeIn(v, Current) = Whole(Current) /\ w.q = v.q \o CompleteTurn
 BY ViewIs, NextViewIs, CurrentIs DEF TextInvariant, Bounded
<1> HIDE DEF v, w
<1>3. Idle(v, w) BY DEF v, w
<1>4. Sound(w) BY <1>1, <1>2, <1>3, TurnCompletes
<1> QED BY <1>4 DEF w

LEMMA Ended ==
  ASSUME RequestsInvariant, TextInvariant, ~Claude, Idle(View, View'),
    NEW e, queue' = Append(queue, e),
    (e.type = "turn.completed" /\ e.turn = adapter.turn) \/ e.type = "session.exited"
  PROVE Sound(View')
<1> DEFINE v == View
           w == View'
<1>1. Sound(v) /\ IsSeq(v.q) BY Facts
<1>2. v.turn # 0 /\ ~v.emitted => Cur(v) \notin DOMAIN v.said BY <1>1, ViewIs DEF Sound, Now
<1>3. (e.type = "turn.completed" /\ e.turn = v.turn) \/ e.type = "session.exited" BY ViewIs
<1>4. w.q = Append(v.q, e) BY ViewIs, NextViewIs
<1>5. PICK n : Offers(v, w, n, e) BY <1>1, <1>4, OffersIs
<1> HIDE DEF v, w
<1>6. Idle(v, w) BY DEF v, w
<1>7. Sound(w) BY <1>1, <1>2, <1>3, <1>5, <1>6, CloseStep DEF Idle
<1> QED BY <1>7 DEF w

--------------------
(* What the agent says without streaming it, and how it ends.               *)
(* What the other bounds allow.                                             *)
LEMMA Spent ==
  ASSUME RequestsInvariant, TextInvariant, NEW kind \in Kinds \ {"chunks"}, Spend(kind),
    UNCHANGED <<setting, said>>
  PROVE /\ \A k \in Kinds : spent'[k] <= setting'[k]
        /\ spent'[kind] = spent[kind] + 1
        /\ \A k \in Kinds \ {kind} : spent'[k] = spent[k]
        /\ IsFiniteSet(DOMAIN said') /\ Cardinality(DOMAIN said') <= spent'.chunks
<1>1. /\ spent \in [Kinds -> Nat] /\ setting \in Settings
      /\ \A k \in Kinds : spent[k] <= setting[k]
 BY Facts
<1>2. /\ \A k \in Kinds : spent'[k] <= setting'[k]
      /\ spent'[kind] = spent[kind] + 1
      /\ \A k \in Kinds \ {kind} : spent'[k] = spent[k]
 BY <1>1, SpendKeeps
<1>3. "chunks" \in Kinds \ {kind} BY DEF Kinds
<1>4. spent'.chunks = spent.chunks BY <1>2, <1>3
<1>5. IsFiniteSet(DOMAIN said) /\ Cardinality(DOMAIN said) <= spent.chunks
 BY DEF TextInvariant, Bounded
<1> QED BY <1>2, <1>4, <1>5

(* Text of Claude in place of another, or which is dropped.                 *)
LEMMA ReplacedText ==
  ASSUME RequestsInvariant, TextInvariant, Tally, SayAtOnce, Claude, Current \in DOMAIN said
  PROVE TextInvariant'
<1> DEFINE s == [Said(Current) EXCEPT !.atOnce = @ + 1]
           old == Said(Current).streamed
<1>1. /\ Running /\ Spend("chunks") /\ said' = Put(said, Current, s)
      /\ UNCHANGED <<setting, queue, adapter, ingest, thread, intents, completed>>
 BY DEF SayAtOnce
<1>2. Said(Current) \in [streamed : Nat, atOnce : Nat] /\ Said(Current) = said[Current]
 BY <1>1, SaidNow DEF Said
<1>3. s.streamed = old BY <1>2
<1>4. Heard(Current, s) BY <1>1, Hears
<1> DEFINE k == IF old > 0 THEN old ELSE 1
<1>5. Tells(k)
 <2> HIDE DEF s, old
 <2>1. Tells(IF s.streamed > 0 THEN s.streamed ELSE 1) BY <1>1, <1>4, Spoken
 <2> QED BY <1>3, <2>1
<1>6. Kept(Current) = k BY <1>2 DEF Kept
<1> HIDE DEF s, k
<1>7. Texts' = Texts
 <2>1. Texts[Current] = k /\ Current \in DOMAIN Texts BY <1>6 DEF Texts
 <2>2. DOMAIN Texts' = DOMAIN Texts /\ \A m \in DOMAIN Texts : Texts'[m] = Texts[m]
  BY <1>5, <2>1 DEF Tells
 <2> DEFINE t == Texts
            u == Texts'
 <2>3. t = [m \in DOMAIN t |-> t[m]] /\ u = [m \in DOMAIN u |-> u[m]] BY DEF Texts
 <2> HIDE DEF t, u
 <2>4. DOMAIN u = DOMAIN t /\ \A m \in DOMAIN t : u[m] = t[m] BY <2>2 DEF t, u
 <2>5. u = t BY <2>3, <2>4
 <2> QED BY <2>5 DEF t, u
<1>8. Typed' /\ Bounded' BY <1>1, <1>5 DEF TextInvariant, Typed, Bounded, OneStart, Claude, Tells
<1>9. SameIngest(View, View') /\ SameAgent(View, View') /\ View'.q = View.q
 <2>1. SameIngest(View, View') /\ SameTurns(View, View')
  BY <1>1, <1>5, StayingIngest, StayingTurns, SameIntents DEF Tells
 <2>2. View'.quiet = View.quiet BY <1>1, ViewIs, NextViewIs DEF Claude
 <2> QED BY <1>1, <1>7, <2>1, <2>2, ViewIs, NextViewIs DEF SameAgent, SameTurns
<1>10. Sound(View') BY <1>9, Facts, NothingOffered
<1> QED BY <1>8, <1>10 DEF TextInvariant

LEMMA SayAtOnceText ==
  ASSUME RequestsInvariant, TextInvariant, Tally, SayAtOnce PROVE TextInvariant'
<1> DEFINE v == View
           w == View'
<1>0. Claude \/ ~adapter.emitted BY DEF SayAtOnce
<1> SUFFICES ASSUME Current \notin DOMAIN said PROVE TextInvariant'
 <2> SUFFICES ASSUME Current \in DOMAIN said PROVE Claude BY ReplacedText
 <2> SUFFICES ASSUME ~Claude PROVE FALSE OBVIOUS
 <2>1. Sound(v) /\ ~v.emitted /\ ~v.quiet /\ v.turn # 0
  BY <1>0, Facts, ViewIs DEF SayAtOnce, Running
 <2>2. Cur(v) \in DOMAIN v.said BY CurrentIs, ViewIs
 <2> HIDE DEF v
 <2> QED BY <2>1, <2>2 DEF Sound, Now
<1> DEFINE s == [Said(Current) EXCEPT !.atOnce = @ + 1]
<1>1. /\ Running /\ Spend("chunks") /\ Said(Current) = [streamed |-> 0, atOnce |-> 0]
      /\ said' = Put(said, Current, s)
      /\ UNCHANGED <<setting, ingest, thread, intents, completed>>
 BY SaidNow DEF SayAtOnce
<1>2. /\ Sound(v) /\ IsSeq(v.q) /\ AgentTyped(v) /\ adapter \in Session BY Facts
<1>3. Tells(1)
 <2>1. s.streamed = 0 BY <1>1
 <2>2. Heard(Current, s) BY <1>1, Hears
 <2> HIDE DEF s
 <2>3. Tells(IF s.streamed > 0 THEN s.streamed ELSE 1) BY <1>1, <2>2, Spoken
 <2> QED BY <2>1, <2>3
<1>4. Cur(v) = Current /\ Cur(v) \notin DOMAIN v.said BY CurrentIs, ViewIs
<1>5. v.turn # 0 /\ v.turn = adapter.turn /\ v.item = adapter.item
      /\ v.emitted = adapter.emitted
 BY <1>1, ViewIs DEF Running
<1>6. ~adapter.emitted BY <1>2, <1>4, <1>5 DEF Sound, Now
<1>7. SameIngest(v, w) /\ SameTurns(v, w)
 BY <1>1, <1>3, StayingIngest, StayingTurns, SameIntents DEF Tells
<1>8. SaysUpTo(v, w, 1) BY <1>3, <1>4, ViewIs, NextViewIs DEF SaysUpTo, Tells
<1>9. CASE Claude
 <2>1. UNCHANGED <<queue, adapter>> BY <1>9 DEF SayAtOnce
 <2>2. Typed' /\ Bounded'
  BY <1>1, <1>3, <2>1 DEF TextInvariant, Typed, Bounded, OneStart, Claude, Tells
 <2>3. /\ w.q = v.q /\ w.turn = v.turn /\ w.item = v.item /\ w.emitted = v.emitted
       /\ w.quiet
  BY <1>1, <1>9, <2>1, ViewIs, NextViewIs DEF Claude
 <2> HIDE DEF v, w
 <2>4. Sound(w) BY <1>2, <1>4, <1>5, <1>7, <1>8, <2>3, HoldStep
 <2> QED BY <2>2, <2>4 DEF TextInvariant, w
<1>10. CASE ~Claude
 <2> DEFINE x == [q |-> v.q, turn |-> v.turn, item |-> v.item, emitted |-> v.emitted,
                  quiet |-> TRUE, said |-> w.said, turns |-> v.turns,
                  starting |-> v.starting, messages |-> v.messages, mode |-> v.mode,
                  buffered |-> v.buffered, remembered |-> v.remembered,
                  completed |-> v.completed, ordered |-> v.ordered]
 <2>1. /\ queue' = Append(queue, ItemCompleted(Current, <<1>>))
       /\ adapter' = [adapter EXCEPT !.item = @ + 1]
  BY <1>10 DEF SayAtOnce
 <2>2. /\ adapter' \in Session /\ adapter'.live = adapter.live
       /\ adapter'.turn = adapter.turn /\ adapter'.item = adapter.item + 1
       /\ adapter'.emitted = adapter.emitted
  <3>1. adapter.item + 1 \in Nat \ {0} BY <1>2 DEF Session
  <3>2. adapter' = [adapter EXCEPT !.item = adapter.item + 1] BY <2>1
  <3> QED BY <1>2, <3>1, <3>2 DEF Session
 <2>3. Typed' /\ Bounded'
  BY <1>1, <1>3, <1>10, <2>2 DEF TextInvariant, Typed, Bounded, OneStart, Claude, Tells
 <2>4. /\ x.q = v.q /\ x.turn = v.turn /\ x.item = v.item /\ x.emitted = v.emitted
       /\ x.quiet = TRUE /\ x.said = w.said /\ SameIngest(v, x) /\ SameTurns(v, x)
  BY DEF SameIngest, SameTurns
 <2>5. w.q = Append(v.q, ItemCompleted(Cur(v), <<1>>)) /\ w.turn = v.turn
       /\ w.item = v.item + 1 /\ ~w.emitted
  BY <1>4, <1>6, <2>1, <2>2, ViewIs, NextViewIs
 <2> HIDE DEF x, v, w
 <2>6. SaysUpTo(v, x, 1) BY <1>8, <2>4 DEF SaysUpTo
 <2>7. x.quiet BY <2>4
 <2>8. Sound(x) BY <1>2, <1>4, <1>5, <2>4, <2>6, <2>7, HoldStep
 <2>9. SameIngest(x, w) /\ SameTurns(x, w) /\ Cur(x) = Cur(v)
  BY <1>7, <2>4 DEF SameIngest, SameTurns, Cur
 <2>10. Cur(x) \in DOMAIN x.said /\ SaidIn(x, Cur(x)) = 1 BY <2>4, <2>6, <2>9 DEF SaysUpTo, SaidIn
 <2>11. <<1>> = WholeIn(x, Cur(x))
  <3>1. WholeIn(x, Cur(x)) = [n \in 1..1 |-> n] BY <2>10 DEF WholeIn
  <3>2. [n \in 1..1 |-> n] = <<1>> OBVIOUS
  <3> QED BY <3>1, <3>2
 <2>12. w.q = Append(x.q, ItemCompleted(Cur(x), <<1>>)) /\ IsSeq(x.q) BY <1>2, <2>4, <2>5, <2>9
 <2>13. PICK n : Offers(x, w, n, ItemCompleted(Cur(x), <<1>>)) BY <2>12, OffersIs
 <2> DEFINE text == <<1>>
 <2>14. /\ text \in {<< >>, WholeIn(x, Cur(x))}
        /\ x.emitted \/ Cur(x) \notin DOMAIN x.said \/ text = WholeIn(x, Cur(x))
        /\ Offers(x, w, n, ItemCompleted(Cur(x), text))
  BY <2>11, <2>13
 <2>15. x.turn # 0 /\ w.turn = x.turn /\ w.item = x.item + 1 /\ ~w.emitted
        /\ w.said = x.said
  BY <1>5, <2>4, <2>5
 <2> HIDE DEF text
 <2>16. Sound(w) BY <2>8, <2>9, <2>10, <2>14, <2>15, ItemStep
 <2> QED BY <2>3, <2>16 DEF TextInvariant, w
<1> QED BY <1>9, <1>10

LEMMA EndTurnText ==
  ASSUME RequestsInvariant, TextInvariant, EndTurn PROVE TextInvariant'
<1>1. /\ queue' = queue \o (IF Claude THEN CompleteTurn ELSE <<TurnCompleted(adapter.turn)>>)
      /\ adapter' = [adapter EXCEPT !.turn = 0, !.item = 1, !.emitted = FALSE]
      /\ UNCHANGED <<setting, ingest, thread, intents, spent, said, completed>>
 BY DEF EndTurn
<1>2. adapter \in Session /\ IsSeq(queue) BY Facts
<1>3. Rests /\ adapter' \in Session /\ adapter'.live = adapter.live
 <2>1. adapter' = [adapter EXCEPT !.turn = 0, !.item = 1, !.emitted = FALSE] BY <1>1
 <2>2. adapter \in [live : BOOLEAN, turn : Nat, item : Nat \ {0}, emitted : BOOLEAN,
                    pending : SUBSET Nat]
  BY <1>2 DEF Session
 <2>3. 0 \in Nat /\ 1 \in Nat \ {0} /\ FALSE \in BOOLEAN OBVIOUS
 <2>4. /\ adapter'.turn = 0 /\ adapter'.item = 1 /\ adapter'.emitted = FALSE
       /\ adapter'.live = adapter.live
  BY <2>1, <2>2
 <2>5. adapter' \in Session BY <2>1, <2>2, <2>3 DEF Session
 <2> QED BY <2>4, <2>5 DEF Rests
<1>4. Typed' /\ Bounded' BY <1>1, <1>3 DEF TextInvariant, Typed, Bounded, OneStart, Claude, Rests
<1>5. Idle(View, View') BY <1>1, <1>3, RestingIs, SameIntents
<1>6. CASE Claude
 <2>1. Sound(View') BY <1>1, <1>5, <1>6, Closed
 <2> QED BY <1>4, <2>1 DEF TextInvariant
<1>7. CASE ~Claude
 <2> DEFINE e == TurnCompleted(adapter.turn)
 <2>1. queue' = Append(queue, e) BY <1>1, <1>2, <1>7, EmptyIs, Glue
 <2>2. e.type = "turn.completed" /\ e.turn = adapter.turn BY DEF TurnCompleted
 <2> HIDE DEF e
 <2>3. Sound(View') BY <1>5, <1>7, <2>1, <2>2, Ended
 <2> QED BY <1>4, <2>3 DEF TextInvariant
<1> QED BY <1>6, <1>7

LEMMA DieText ==
  ASSUME RequestsInvariant, TextInvariant, Die PROVE TextInvariant'
<1>1. /\ Spend("deaths") /\ adapter' = NewSession(FALSE)
      /\ queue' = queue \o (IF Claude THEN CompleteTurn ELSE <<Exited>>)
      /\ UNCHANGED <<setting, ingest, thread, intents, said, completed>>
 BY DEF Die
<1>2. IsSeq(queue) BY Facts
<1>3. Rests /\ adapter' \in Session /\ adapter'.live = FALSE BY <1>1, NewSessionRests
<1>4. /\ \A k \in Kinds : spent'[k] <= setting'[k]
      /\ spent'.switches = spent.switches /\ spent'.turns = spent.turns
      /\ IsFiniteSet(DOMAIN said') /\ Cardinality(DOMAIN said') <= spent'.chunks
 <2>1. "deaths" \in Kinds \ {"chunks"} /\ {"switches", "turns"} \subseteq Kinds \ {"deaths"}
  BY DEF Kinds
 <2> QED BY <1>1, <2>1, Spent
<1>5. Typed' /\ Bounded'
 BY <1>1, <1>3, <1>4 DEF TextInvariant, Typed, Bounded, OneStart, Claude, Rests
<1>6. Idle(View, View') BY <1>1, <1>3, <1>4, RestingIs, SameIntents
<1>7. CASE Claude
 <2>1. Sound(View') BY <1>1, <1>6, <1>7, Closed
 <2> QED BY <1>5, <2>1 DEF TextInvariant
<1>8. CASE ~Claude
 <2> DEFINE e == Exited
 <2>1. queue' = Append(queue, e) BY <1>1, <1>2, <1>8, EmptyIs, Glue
 <2>2. e.type = "session.exited" BY DEF Exited
 <2> HIDE DEF e
 <2>3. Sound(View') BY <1>6, <1>8, <2>1, <2>2, Ended
 <2> QED BY <1>5, <2>3 DEF TextInvariant
<1> QED BY <1>7, <1>8

--------------------
(* Questions, and what the user asks for.                                   *)
\* Nothing that text depends on is spent.
SpentElsewhere ==
    /\ \A k \in Kinds : spent'[k] <= setting'[k]
    /\ spent'.switches = spent.switches /\ spent'.turns = spent.turns
    /\ IsFiniteSet(DOMAIN said') /\ Cardinality(DOMAIN said') <= spent'.chunks

LEMMA SpentElsewhereIs ==
  ASSUME RequestsInvariant, TextInvariant, UNCHANGED <<setting, said>>,
    \/ UNCHANGED spent
    \/ \E kind \in {"requests", "answers", "stops", "deaths", "crashes"} : Spend(kind)
  PROVE SpentElsewhere
<1>1. CASE UNCHANGED spent BY <1>1 DEF SpentElsewhere, TextInvariant, Bounded
<1>2. ASSUME NEW kind \in {"requests", "answers", "stops", "deaths", "crashes"}, Spend(kind)
    PROVE  SpentElsewhere
 <2>1. kind \in Kinds \ {"chunks"} /\ {"switches", "turns"} \subseteq Kinds \ {kind} BY DEF Kinds
 <2>2. /\ \A k \in Kinds : spent'[k] <= setting'[k]
       /\ \A k \in Kinds \ {kind} : spent'[k] = spent[k]
       /\ IsFiniteSet(DOMAIN said') /\ Cardinality(DOMAIN said') <= spent'.chunks
  BY <1>2, <2>1, Spent
 <2> QED BY <2>1, <2>2 DEF SpentElsewhere
<1> QED BY <1>1, <1>2

(* A step in which nothing is said, and no turn begins or ends.             *)
LEMMA Unspoken ==
  ASSUME RequestsInvariant, TextInvariant,
    UNCHANGED <<setting, ingest, said, completed>>, SpentElsewhere,
    thread'.messages = thread.messages,
    thread'.status \in {thread.status, "active", "stopped"},
    SameStart, OneStart', adapter' \in Session, adapter'.turn = adapter.turn,
    adapter'.item = adapter.item, adapter'.emitted = adapter.emitted,
    adapter.live => adapter'.live,
    queue' = queue \/ \E e : Other(e) /\ queue' = Append(queue, e)
  PROVE TextInvariant'
<1> DEFINE v == View
           w == View'
<1>1. Typed' /\ Bounded' BY DEF TextInvariant, Typed, Bounded, Claude, SpentElsewhere
<1>2. Sound(v) /\ IsSeq(v.q) BY Facts
<1>3. SameIngest(v, w) /\ SameAgent(v, w) BY StayingIngest, StayingAgent DEF SpentElsewhere
<1>4. CASE queue' = queue
 <2>1. w.q = v.q BY <1>4, ViewIs, NextViewIs
 <2> HIDE DEF v, w
 <2>2. Sound(w) BY <1>2, <1>3, <2>1, NothingOffered
 <2> QED BY <1>1, <2>2 DEF TextInvariant, w
<1>5. ASSUME NEW e, Other(e), queue' = Append(queue, e)
    PROVE  TextInvariant'
 <2>1. w.q = Append(v.q, e) BY <1>5, ViewIs, NextViewIs
 <2> HIDE DEF v, w
 <2>2. Sound(w) BY <1>2, <1>3, <1>5, <2>1, OtherOffered
 <2> QED BY <1>1, <2>2 DEF TextInvariant, w
<1> QED BY <1>4, <1>5

LEMMA StaysIs ==
  ASSUME RequestsInvariant, TextInvariant
  PROVE /\ thread.status \in {thread.status, "active", "stopped"}
        /\ UNCHANGED intents => SameStart /\ OneStart'
        /\ UNCHANGED adapter =>
              /\ adapter' \in Session /\ adapter'.turn = adapter.turn
              /\ adapter'.item = adapter.item /\ adapter'.emitted = adapter.emitted
              /\ (adapter.live => adapter'.live)
BY Facts DEF SameStart, OneStart, TextInvariant, Bounded

LEMMA AskText ==
  ASSUME RequestsInvariant, TextInvariant, NEW kind, Ask(kind) PROVE TextInvariant'
<1> DEFINE r == Len(requests) + 1
           e == Opened(r)
<1>1. /\ Spend("requests") /\ queue' = Append(queue, e)
      /\ adapter' = [adapter EXCEPT !.pending = adapter.pending \cup {r}]
      /\ UNCHANGED <<setting, ingest, thread, intents, said, completed>>
 BY DEF Ask
<1>2. r \in Nat BY LenProperties DEF RequestsInvariant, Shapes
<1>3. adapter \in Session BY Facts
<1> HIDE DEF r
<1>4. /\ adapter' \in Session /\ adapter'.turn = adapter.turn
      /\ adapter'.item = adapter.item /\ adapter'.emitted = adapter.emitted
      /\ adapter.live => adapter'.live
 BY <1>1, <1>2, <1>3 DEF Session
<1>5. SpentElsewhere BY <1>1, SpentElsewhereIs
<1>6. Other(e) BY OtherEvents
<1>7. SameStart /\ OneStart' /\ thread'.status \in {thread.status, "active", "stopped"}
      /\ thread'.messages = thread.messages
 BY <1>1, StaysIs
<1> HIDE DEF e
<1> QED BY <1>1, <1>4, <1>5, <1>6, <1>7, Unspoken

LEMMA AbortText ==
  ASSUME RequestsInvariant, TextInvariant, NEW r, Abort(r) PROVE TextInvariant'
<1>1. /\ adapter' = [adapter EXCEPT !.pending = adapter.pending \ {r}]
      /\ UNCHANGED <<setting, queue, ingest, thread, intents, spent, said, completed>>
 BY DEF Abort
<1>2. adapter \in Session BY Facts
<1>3. /\ adapter' \in Session /\ adapter'.turn = adapter.turn
      /\ adapter'.item = adapter.item /\ adapter'.emitted = adapter.emitted
      /\ adapter.live => adapter'.live
 BY <1>1, <1>2 DEF Session
<1>4. SpentElsewhere BY <1>1, SpentElsewhereIs
<1>5. SameStart /\ OneStart' /\ thread'.status \in {thread.status, "active", "stopped"}
      /\ thread'.messages = thread.messages
 BY <1>1, StaysIs
<1> QED BY <1>1, <1>3, <1>4, <1>5, Unspoken

LEMMA TellText ==
  ASSUME RequestsInvariant, TextInvariant, NEW r, Tell(r) PROVE TextInvariant'
<1> DEFINE e == Resolved(r, requests[r].decision)
<1>1. /\ queue' = Append(queue, e)
      /\ UNCHANGED <<setting, adapter, ingest, thread, intents, spent, said, completed>>
 BY DEF Tell
<1>2. /\ adapter' \in Session /\ adapter'.turn = adapter.turn
      /\ adapter'.item = adapter.item /\ adapter'.emitted = adapter.emitted
      /\ adapter.live => adapter'.live
 BY <1>1, StaysIs
<1>3. SpentElsewhere BY <1>1, SpentElsewhereIs
<1>4. SameStart /\ OneStart' /\ thread'.status \in {thread.status, "active", "stopped"}
      /\ thread'.messages = thread.messages
 BY <1>1, StaysIs
<1>5. Other(e) BY OtherEvents
<1> HIDE DEF e
<1> QED BY <1>1, <1>2, <1>3, <1>4, <1>5, Unspoken

(* An intent that starts no turn.                                           *)
LEMMA IntentAdded ==
  ASSUME RequestsInvariant, TextInvariant, NEW i, intents' = Append(intents, i),
    i.type # "start"
  PROVE SameStart /\ OneStart'
<1>1. IsSeq(intents) BY Facts
<1>2. Range(intents') = Range(intents) \cup {i} BY <1>1, AppendIs
<1>3. SameStart BY <1>2 DEF SameStart
<1>4. /\ Len(intents) \in Nat /\ DOMAIN intents = 1..Len(intents)
      /\ DOMAIN intents' = 1..(Len(intents) + 1) /\ intents'[Len(intents) + 1] = i
      /\ \A j \in 1..Len(intents) : intents'[j] = intents[j]
 <2> DEFINE S == Range(intents) \cup {i}
 <2>1. intents \in Seq(S) /\ i \in S BY <1>1, SeqMonotonic DEF IsSeq
 <2> HIDE DEF S
 <2> QED BY <2>1, AppendProperties, LenProperties
<1>5. \A j \in DOMAIN intents' : intents'[j].type = "start" =>
          j \in DOMAIN intents /\ intents'[j] = intents[j]
 BY <1>4
<1>6. OneStart BY DEF TextInvariant, Bounded
<1>7. OneStart' BY <1>5, <1>6 DEF OneStart
<1> QED BY <1>3, <1>7

LEMMA RequestStopText ==
  ASSUME RequestsInvariant, TextInvariant, RequestStop PROVE TextInvariant'
<1> DEFINE i == [type |-> "stop"]
<1>1. /\ Spend("stops") /\ intents' = Append(intents, i)
      /\ UNCHANGED <<setting, adapter, queue, ingest, thread, said, completed>>
 BY DEF RequestStop
<1>2. /\ adapter' \in Session /\ adapter'.turn = adapter.turn
      /\ adapter'.item = adapter.item /\ adapter'.emitted = adapter.emitted
      /\ adapter.live => adapter'.live
      /\ thread'.status \in {thread.status, "active", "stopped"}
      /\ thread'.messages = thread.messages
 BY <1>1, StaysIs
<1>3. SpentElsewhere BY <1>1, SpentElsewhereIs
<1>4. i.type # "start" OBVIOUS
<1> HIDE DEF i
<1>5. SameStart /\ OneStart' BY <1>1, <1>4, IntentAdded
<1> QED BY <1>1, <1>2, <1>3, <1>5, Unspoken

LEMMA AnswerText ==
  ASSUME RequestsInvariant, TextInvariant, NEW r, NEW decision, Answer(r, decision)
  PROVE TextInvariant'
<1> DEFINE i == [type |-> "answer", request |-> r, decision |-> decision]
<1>1. /\ Spend("answers") /\ intents' = Append(intents, i)
      /\ UNCHANGED <<setting, adapter, queue, ingest, thread, said, completed>>
 BY DEF Answer
<1>2. /\ adapter' \in Session /\ adapter'.turn = adapter.turn
      /\ adapter'.item = adapter.item /\ adapter'.emitted = adapter.emitted
      /\ adapter.live => adapter'.live
      /\ thread'.status \in {thread.status, "active", "stopped"}
      /\ thread'.messages = thread.messages
 BY <1>1, StaysIs
<1>3. SpentElsewhere BY <1>1, SpentElsewhereIs
<1>4. i.type # "start" OBVIOUS
<1> HIDE DEF i
<1>5. SameStart /\ OneStart' BY <1>1, <1>4, IntentAdded
<1> QED BY <1>1, <1>2, <1>3, <1>5, Unspoken

LEMMA SwitchModeText ==
  ASSUME RequestsInvariant, TextInvariant, SwitchMode PROVE TextInvariant'
<1> DEFINE v == View
           w == View'
<1>1. /\ Spend("switches")
      /\ UNCHANGED <<setting, adapter, queue, thread, intents, said, completed>>
 BY DEF SwitchMode
<1>2. PICK mode \in {"buffered", "streaming"} : ingest' = [ingest EXCEPT !.mode = mode]
 BY DEF SwitchMode
<1>3. Sound(v) /\ IsSeq(v.q) /\ DOMAIN ingest = IngestFields /\ spent \in [Kinds -> Nat] BY Facts
<1>4. /\ DOMAIN ingest' = IngestFields /\ ingest'.mode = mode
      /\ ingest'.buffered = ingest.buffered /\ ingest'.remembered = ingest.remembered
 BY <1>2, <1>3 DEF IngestFields
<1>5. /\ \A k \in Kinds : spent'[k] <= setting'[k]
      /\ spent'.switches = spent.switches + 1 /\ spent'.turns = spent.turns
      /\ IsFiniteSet(DOMAIN said') /\ Cardinality(DOMAIN said') <= spent'.chunks
 <2>1. "switches" \in Kinds \ {"chunks"} /\ {"turns"} \subseteq Kinds \ {"switches"} BY DEF Kinds
 <2> QED BY <1>1, <2>1, Spent
<1>6. spent'.switches # 0 BY <1>3, <1>5 DEF Kinds
<1>7. Typed' /\ Bounded' BY <1>1, <1>4, <1>5 DEF TextInvariant, Typed, Bounded, OneStart, Claude
<1>8. SameAgent(v, w) BY <1>1, <1>5, StayingAgent, SameIntents
<1>9. /\ w.q = v.q /\ w.messages = v.messages /\ w.buffered = v.buffered
      /\ w.remembered = v.remembered /\ w.completed = v.completed
      /\ w.mode \in {"buffered", "streaming"} /\ ~w.ordered
 BY <1>1, <1>4, <1>6, ViewIs, NextViewIs
<1> HIDE DEF v, w
<1>10. Sound(w) BY <1>3, <1>8, <1>9, SwitchStep
<1> QED BY <1>7, <1>10 DEF TextInvariant, w

LEMMA RequestTurnText ==
  ASSUME RequestsInvariant, TextInvariant, RequestTurn PROVE TextInvariant'
<1> DEFINE v == View
           w == View'
           i == [type |-> "start"]
<1>1. /\ Spend("turns") /\ adapter.turn = 0 /\ intents' = Append(intents, i)
      /\ UNCHANGED <<setting, adapter, queue, ingest, thread, said, completed>>
 BY DEF RequestTurn
<1>2. \A j \in Range(intents) : j.type # "start" BY DEF RequestTurn
<1>3. Sound(v) /\ IsSeq(v.q) /\ spent \in [Kinds -> Nat] /\ IsSeq(intents) BY Facts
<1>4. /\ \A k \in Kinds : spent'[k] <= setting'[k]
      /\ spent'.switches = spent.switches /\ spent'.turns = spent.turns + 1
      /\ IsFiniteSet(DOMAIN said') /\ Cardinality(DOMAIN said') <= spent'.chunks
 <2>1. "turns" \in Kinds \ {"chunks"} /\ {"switches"} \subseteq Kinds \ {"turns"} BY DEF Kinds
 <2> QED BY <1>1, <2>1, Spent
<1>5. Range(intents') = Range(intents) \cup {i} /\ i.type = "start" BY <1>1, <1>3, AppendIs
<1>6. OneStart'
 <2>1. /\ Len(intents) \in Nat /\ DOMAIN intents = 1..Len(intents)
       /\ DOMAIN intents' = 1..(Len(intents) + 1)
       /\ \A j \in 1..Len(intents) : intents'[j] = intents[j]
  <3> DEFINE S == Range(intents) \cup {i}
  <3>1. intents \in Seq(S) /\ i \in S BY <1>3, SeqMonotonic DEF IsSeq
  <3> HIDE DEF S, i
  <3> QED BY <1>1, <3>1, AppendProperties, LenProperties
 <2>2. \A j \in DOMAIN intents : intents[j] \in Range(intents) BY DEF Range
 <2>3. \A j \in DOMAIN intents' : intents'[j].type = "start" => j = Len(intents) + 1
  BY <1>2, <2>1, <2>2
 <2> QED BY <2>3 DEF OneStart
<1>7. Typed' /\ Bounded' BY <1>1, <1>4, <1>6 DEF TextInvariant, Typed, Bounded, Claude
<1>8. SameIngest(v, w) BY <1>1, <1>4, StayingIngest
<1>9. w.starting = TRUE BY <1>5, NextViewIs
<1>10. /\ w.q = v.q /\ w.said = v.said /\ w.turns = v.turns + 1 /\ v.turn = 0
       /\ w.turn = v.turn /\ w.item = v.item /\ w.emitted = v.emitted /\ w.quiet = v.quiet
 BY <1>1, <1>4, ViewIs, NextViewIs DEF Claude
<1> HIDE DEF v, w
<1>11. w.starting BY <1>9
<1>12. Sound(w) BY <1>3, <1>8, <1>10, <1>11, PromptStep
<1> QED BY <1>7, <1>12 DEF TextInvariant, w

--------------------
(* Intents, and a crash.                                                    *)
(* One start at most is left, and none once it is taken.                    *)
LEMMA StartsLeft ==
  ASSUME RequestsInvariant, TextInvariant, NEW type, TakeIntent(type)
  PROVE /\ OneStart' /\ (type # "start" => SameStart)
        /\ type = "start" => /\ \E i \in Range(intents) : i.type = "start"
                             /\ \A i \in Range(intents') : i.type # "start"
<1>1. intents # << >> /\ Head(intents).type = type /\ intents' = Tail(intents) BY DEF TakeIntent
<1>2. IsSeq(intents) /\ OneStart BY Facts DEF TextInvariant, Bounded
<1>3. /\ Head(intents) \in Range(intents)
      /\ Range(intents) = Range(intents') \cup {Head(intents)}
 BY <1>1, <1>2, TailIs
<1>4. /\ Len(intents') = Len(intents) - 1 /\ Head(intents) = intents[1]
      /\ \A i \in 1..Len(intents') : intents'[i] = intents[i + 1]
      /\ Len(intents) \in Nat /\ Len(intents) # 0 /\ DOMAIN intents = 1..Len(intents)
      /\ DOMAIN intents' = 1..(Len(intents) - 1)
 <2> DEFINE S == Range(intents)
            s == intents
            t == intents'
 <2>1. s \in Seq(S) /\ s # << >> /\ t = Tail(s) BY <1>1, <1>2 DEF IsSeq
 <2> HIDE DEF S, s, t
 <2>2. /\ Len(t) = Len(s) - 1 /\ Head(s) = s[1] /\ t \in Seq(S)
       /\ \A i \in 1..Len(t) : t[i] = s[i + 1]
  BY <2>1, HeadTailProperties
 <2>3. Len(s) \in Nat /\ Len(s) # 0 /\ DOMAIN s = 1..Len(s) /\ DOMAIN t = 1..Len(t)
  BY <2>1, <2>2, LenProperties, EmptySeq
 <2>4. DOMAIN t = 1..(Len(s) - 1) BY <2>2, <2>3
 <2> QED BY <2>2, <2>3, <2>4 DEF s, t
<1>5. \A i \in DOMAIN intents' : i + 1 \in DOMAIN intents /\ intents'[i] = intents[i + 1]
                                 /\ i \in Nat \ {0}
 BY <1>4
<1>6. OneStart'
 <2>1. ASSUME NEW i \in DOMAIN intents', NEW j \in DOMAIN intents',
              intents'[i].type = "start", intents'[j].type = "start"
     PROVE  i = j
  <3>1. i + 1 = j + 1 BY <1>2, <1>5, <2>1 DEF OneStart
  <3> QED BY <1>5, <3>1
 <2> QED BY <2>1 DEF OneStart
<1>7. type # "start" => SameStart BY <1>1, <1>3 DEF SameStart
<1>8. ASSUME type = "start" PROVE \A i \in Range(intents') : i.type # "start"
 <2>1. ASSUME NEW i \in DOMAIN intents', intents'[i].type = "start" PROVE FALSE
  <3>1. i + 1 = 1 BY <1>1, <1>2, <1>4, <1>5, <1>8, <2>1 DEF OneStart
  <3> QED BY <1>5, <3>1
 <2> QED BY <2>1 DEF Range
<1>9. type = "start" => \E i \in Range(intents) : i.type = "start" BY <1>1, <1>3
<1> QED BY <1>6, <1>7, <1>8, <1>9

LEMMA StartTurnText ==
  ASSUME RequestsInvariant, TextInvariant, StartTurn PROVE TextInvariant'
<1> DEFINE v == View
           w == View'
           session == IF adapter.live THEN adapter ELSE NewSession(TRUE)
           turn == spent.turns
<1>1. /\ TakeIntent("start") /\ adapter' = [session EXCEPT !.turn = turn]
      /\ queue' = Append(queue, Started) /\ thread' = [thread EXCEPT !.status = "active"]
      /\ UNCHANGED <<setting, ingest, spent, said, completed>>
 BY DEF StartTurn
<1>2. /\ Sound(v) /\ IsSeq(v.q) /\ spent \in [Kinds -> Nat] /\ adapter \in Session
      /\ DOMAIN thread = ThreadFields /\ AgentTyped(v)
      /\ adapter.turn = 0 => adapter.item = 1 /\ ~adapter.emitted
 BY Facts
<1>3. /\ OneStart' /\ \E i \in Range(intents) : i.type = "start"
      /\ \A i \in Range(intents') : i.type # "start"
 BY <1>1, StartsLeft
<1>4. v.starting = TRUE /\ w.starting = FALSE BY <1>3, ViewIs, NextViewIs
<1>5. adapter.turn = 0 /\ adapter.item = 1 /\ adapter.emitted = FALSE
 BY <1>2, <1>4, ViewIs DEF AgentTyped, Session
<1>6. /\ session \in Session /\ session.live = TRUE /\ session.item = 1
      /\ session.emitted = FALSE
 BY <1>2, <1>5, NewSessionIs DEF NewSession, Session
<1>7. turn \in Nat BY <1>2 DEF Kinds
<1> HIDE DEF session, turn
<1>8. /\ adapter' \in Session /\ adapter'.live = TRUE /\ adapter'.item = 1
      /\ adapter'.emitted = FALSE /\ adapter'.turn = turn
 BY <1>1, <1>6, <1>7 DEF Session
<1>9. thread'.messages = thread.messages /\ thread'.status = "active"
 BY <1>1, <1>2 DEF ThreadFields
<1>10. Typed' /\ Bounded' BY <1>1, <1>3, <1>8, <1>9 DEF TextInvariant, Typed, Bounded, Claude
<1> DEFINE x == [q |-> v.q, turn |-> w.turn, item |-> v.item, emitted |-> v.emitted,
                 quiet |-> v.quiet, said |-> v.said, turns |-> v.turns,
                 starting |-> FALSE, messages |-> v.messages, mode |-> v.mode,
                 buffered |-> v.buffered, remembered |-> v.remembered,
                 completed |-> v.completed, ordered |-> v.ordered]
<1>11. SameIngest(v, w) BY <1>1, <1>9, StayingIngest
<1>12. /\ w.q = Append(v.q, Started) /\ w.turn = v.turns /\ w.item = v.item
       /\ w.emitted = v.emitted /\ w.quiet = v.quiet /\ w.said = v.said /\ w.turns = v.turns
 BY ZenonT(30), <1>1, <1>5, <1>8, ViewIs, NextViewIs DEF Claude, turn
<1>13. /\ x.q = v.q /\ x.turn = w.turn /\ x.item = v.item /\ x.emitted = v.emitted
       /\ x.quiet = v.quiet /\ x.said = v.said /\ x.turns = v.turns /\ x.starting = FALSE
       /\ SameIngest(v, x)
 BY DEF SameIngest
<1> HIDE DEF x, v, w
<1>14. /\ x.turn = v.turns /\ v.starting /\ ~x.starting BY <1>4, <1>12, <1>13
<1>15. Sound(x) BY <1>2, <1>13, <1>14, BeginStep
<1>16. SameIngest(x, w) /\ SameAgent(x, w) BY <1>4, <1>11, <1>12, <1>13 DEF SameIngest, SameAgent
<1>17. IsSeq(x.q) BY <1>2, <1>13
<1> DEFINE e == Started
<1>18. Other(e) /\ w.q = Append(x.q, e) BY <1>12, <1>13, OtherEvents
<1> HIDE DEF e
<1>19. Sound(w) BY <1>15, <1>16, <1>17, <1>18, OtherOffered
<1> QED BY <1>10, <1>19 DEF TextInvariant, w

LEMMA CancelledAre ==
  ASSUME RequestsInvariant,
    NEW approvals, approvals = {r \in adapter.pending : requests[r].kind = "approval"},
    NEW inOrder \in [1..Cardinality(approvals) -> approvals],
    NEW s, s = [i \in DOMAIN inOrder |-> Resolved(inOrder[i], "cancel")]
  PROVE IsSeq(s) /\ \A e \in Range(s) : Other(e)
<1>1. \A r \in adapter.pending : r \in DOMAIN requests BY DEF RequestsInvariant, Waiting
<1>2. IsFiniteSet(DOMAIN requests) BY FS_Interval, LenProperties DEF RequestsInvariant, Shapes
<1>3. IsFiniteSet(approvals) BY <1>1, <1>2, FS_Subset
<1>4. Cardinality(approvals) \in Nat BY <1>3, FS_CardinalityType
<1>5. s \in [1..Cardinality(approvals) -> Range(s)] BY DEF Range
<1>6. s \in Seq(Range(s)) BY <1>4, <1>5, FunctionIsSeq
<1>7. \A i \in DOMAIN s : s[i] = Resolved(inOrder[i], "cancel") OBVIOUS
<1>8. \A i \in DOMAIN s : Other(s[i]) BY <1>7, OtherEvents
<1> QED BY <1>6, <1>8 DEF IsSeq, Range

LEMMA StopClaudeText ==
  ASSUME RequestsInvariant, TextInvariant, Claude, StopClaude, Idle(View, View')
  PROVE Sound(View')
<1> DEFINE v == View
           w == View'
           approvals == {r \in adapter.pending : requests[r].kind = "approval"}
           Cancelled(inOrder) == [i \in DOMAIN inOrder |-> Resolved(inOrder[i], "cancel")]
           last == IF adapter.turn = 0 THEN << >> ELSE CompleteTurn
<1>1. PICK inOrder \in [1..Cardinality(approvals) -> approvals] :
          queue' = queue \o Cancelled(inOrder) \o last \o <<Exited>>
 BY DEF StopClaude
<1> DEFINE s == Cancelled(inOrder)
           x == After(v, queue \o s, v.item, v.emitted)
           p == (queue \o s) \o last
           y == After([x EXCEPT !.turn = 0], p, 1, FALSE)
<1>2. IsSeq(s) /\ \A e \in Range(s) : Other(e) BY CancelledAre
<1>3. Sound(v) /\ IsSeq(v.q) /\ v.q = queue /\ v.turn = adapter.turn BY Facts, ViewIs
<1>4. /\ x.q = v.q \o s /\ SameIngest(v, x) /\ SameAgent(v, x)
 BY <1>3 DEF After, SameIngest, SameAgent
<1>5. /\ v.item = 1 /\ v.emitted = adapter.emitted
      /\ Cur(v) = Current /\ SaidIn(v, Current) = Kept(Current)
      /\ WholeIn(v, Current) = Whole(Current)
 BY ViewIs, CurrentIs DEF TextInvariant, Bounded
<1>6. /\ SameIngest(x, y) /\ SameTurns(x, y) /\ y.said = x.said /\ y.turn = 0
      /\ y.item = 1 /\ y.emitted = FALSE /\ y.q = p
 BY ZenonT(30) DEF After, SameIngest, SameTurns
<1>7. p = x.q \o last BY <1>3, <1>4
<1> HIDE DEF x, y, p, last, v, w, s
<1>8. Sound(x) /\ IsSeq(x.q)
 <2>1. Sound(x) BY <1>2, <1>3, <1>4, OthersOffered
 <2>2. IsSeq(x.q) BY <1>2, <1>3, <1>4, ConcatIs
 <2> QED BY <2>1, <2>2
<1>9. /\ x.turn = adapter.turn /\ x.emitted = adapter.emitted /\ x.item = 1 /\ Cur(x) = Current
      /\ SaidIn(x, Current) = Kept(Current) /\ WholeIn(x, Current) = Whole(Current)
 BY <1>3, <1>4, <1>5 DEF SameAgent, Cur, SaidIn, WholeIn
<1>10. Idle(v, w) BY DEF v, w
<1>11. w.q = p \o <<Exited>> BY <1>1, NextViewIs DEF w, p, s
<1>12. /\ SameIngest(x, w) /\ SameTurns(x, w) /\ w.said = x.said
       /\ w.turn = 0 /\ w.item = 1 /\ ~w.emitted
 BY <1>4, <1>10 DEF Idle, SameIngest, SameAgent, SameTurns
<1> DEFINE e == Exited
<1>13. e.type = "session.exited" BY DEF Exited
<1>14. w.q = p \o <<e>> BY <1>11
<1> HIDE DEF e
<1>15. CASE adapter.turn = 0
 <2>1. last = << >> BY <1>15 DEF last
 <2>2. x.q \o << >> = x.q BY <1>8, EmptyIs, Glue
 <2>3. p = x.q BY <1>7, <2>1, <2>2
 <2>4. w.q = Append(x.q, e) BY <1>8, <1>14, <2>3, EmptyIs, Glue
 <2>5. PICK n : Offers(x, w, n, e) BY <1>8, <2>4, OffersIs
 <2>6. x.turn # 0 /\ ~x.emitted => Cur(x) \notin DOMAIN x.said BY <1>9, <1>15
 <2>7. Sound(w) BY <1>8, <1>12, <1>13, <2>5, <2>6, CloseStep
 <2> QED BY <2>7 DEF w
<1>16. CASE adapter.turn # 0
 <2>1. last = CompleteTurn BY <1>16 DEF last
 <2>2. Idle(x, y) BY <1>6 DEF Idle
 <2>3. y.q = x.q \o CompleteTurn BY <1>6, <1>7, <2>1
 <2>4. Sound(y) /\ IsSeq(y.q) BY <1>8, <1>9, <2>2, <2>3, TurnCompletes
 <2>5. w.q = Append(y.q, e) BY <1>6, <1>14, <2>4, EmptyIs, Glue
 <2>6. PICK n : Offers(y, w, n, e) BY <2>4, <2>5, OffersIs
 <2>7. /\ SameIngest(y, w) /\ SameTurns(y, w) /\ w.said = y.said
       /\ (y.turn # 0 /\ ~y.emitted => Cur(y) \notin DOMAIN y.said)
  BY <1>6, <1>12 DEF SameIngest, SameTurns
 <2>8. Sound(w) BY <1>12, <1>13, <2>4, <2>6, <2>7, CloseStep
 <2> QED BY <2>8 DEF w
<1> QED BY <1>15, <1>16

LEMMA StopSessionText ==
  ASSUME RequestsInvariant, TextInvariant, StopSession PROVE TextInvariant'
<1>1. /\ TakeIntent("stop") /\ thread' = [thread EXCEPT !.status = "stopped"]
      /\ UNCHANGED <<setting, ingest, spent, said, completed>>
 BY DEF StopSession
<1>2. DOMAIN thread = ThreadFields BY Facts
<1>3. thread'.messages = thread.messages /\ thread'.status = "stopped"
 BY <1>1, <1>2 DEF ThreadFields
<1>4. SameStart /\ OneStart' BY <1>1, StartsLeft
<1>5. SpentElsewhere BY <1>1, SpentElsewhereIs
<1>6. CASE (IF Claude THEN StopClaude ELSE StopCodex) /\ adapter' = NewSession(FALSE)
 <2>1. Rests /\ adapter' \in Session /\ adapter'.live = FALSE BY <1>6, NewSessionRests
 <2>2. Typed' /\ Bounded'
  BY <1>1, <1>3, <1>4, <1>5, <2>1 DEF TextInvariant, Typed, Bounded, Claude, Rests, SpentElsewhere
 <2>3. Idle(View, View') BY <1>1, <1>3, <1>4, <2>1, RestingIs
 <2>4. CASE Claude
  <3>1. Sound(View') BY <1>6, <2>3, <2>4, StopClaudeText
  <3> QED BY <2>2, <3>1 DEF TextInvariant
 <2>5. CASE ~Claude
  <3> DEFINE e == Exited
  <3>1. queue' = Append(queue, e) /\ e.type = "session.exited" BY <1>6, <2>5 DEF StopCodex, Exited
  <3> HIDE DEF e
  <3>2. Sound(View') BY <2>3, <2>5, <3>1, Ended
  <3> QED BY <2>2, <3>2 DEF TextInvariant
 <2> QED BY <2>4, <2>5
<1>7. CASE UNCHANGED <<adapter, queue>>
 <2>1. /\ adapter' \in Session /\ adapter'.turn = adapter.turn
       /\ adapter'.item = adapter.item /\ adapter'.emitted = adapter.emitted
       /\ adapter.live => adapter'.live
  BY <1>7, StaysIs
 <2>2. thread'.status \in {thread.status, "active", "stopped"} BY <1>3
 <2> QED BY <1>1, <1>3, <1>4, <1>5, <1>7, <2>1, <2>2, Unspoken
<1> QED BY <1>6, <1>7 DEF StopSession

LEMMA DeliverAnswerText ==
  ASSUME RequestsInvariant, TextInvariant, DeliverAnswer PROVE TextInvariant'
<1> DEFINE r == Head(intents).request
           decision == Head(intents).decision
<1>1. TakeIntent("answer") /\ UNCHANGED <<setting, ingest, spent, said, completed>>
 BY DEF DeliverAnswer
<1>2. SameStart /\ OneStart' BY <1>1, StartsLeft
<1>3. SpentElsewhere BY <1>1, SpentElsewhereIs
<1>4. /\ DOMAIN thread = ThreadFields /\ adapter \in Session
      /\ adapter.turn = 0 => adapter.item = 1 /\ ~adapter.emitted
 BY Facts
<1> HIDE DEF r, decision
<1>5. ASSUME UNCHANGED thread \/ \E detail : Refuse(r, detail)
    PROVE  /\ thread'.messages = thread.messages
           /\ thread'.status \in {thread.status, "active", "stopped"}
 BY <1>4, <1>5 DEF Refuse, ThreadFields
<1>6. CASE (\E detail : Refuse(r, detail)) /\ UNCHANGED <<adapter, queue>>
 <2>1. /\ adapter' \in Session /\ adapter'.turn = adapter.turn
       /\ adapter'.item = adapter.item /\ adapter'.emitted = adapter.emitted
       /\ adapter.live => adapter'.live
  BY <1>6, StaysIs
 <2> QED BY <1>1, <1>2, <1>3, <1>5, <1>6, <2>1, Unspoken
<1>7. CASE /\ ~adapter.live /\ \E detail : Refuse(r, detail)
           /\ adapter' = NewSession(TRUE) /\ queue' = Append(queue, Started)
 <2>1. Rests /\ adapter' \in Session /\ adapter'.live = TRUE BY <1>7, NewSessionRests
 <2>2. adapter.turn = 0 BY <1>7 DEF TextInvariant, Bounded
 <2>3. adapter.item = 1 /\ adapter.emitted = FALSE BY <1>4, <2>2 DEF Session
 <2>4. /\ adapter'.turn = adapter.turn /\ adapter'.item = adapter.item
       /\ adapter'.emitted = adapter.emitted /\ (adapter.live => adapter'.live)
  BY <2>1, <2>2, <2>3 DEF Rests
 <2> DEFINE e == Started
 <2>5. Other(e) /\ queue' = Append(queue, e) BY <1>7, OtherEvents
 <2> HIDE DEF e
 <2> QED BY <1>1, <1>2, <1>3, <1>5, <1>7, <2>1, <2>4, <2>5, Unspoken
<1>8. CASE Settle(r, decision) /\ UNCHANGED thread
 <2>1. adapter' = [adapter EXCEPT !.pending = adapter.pending \ {r}] BY <1>8 DEF Settle
 <2>2. /\ adapter' \in Session /\ adapter'.turn = adapter.turn
       /\ adapter'.item = adapter.item /\ adapter'.emitted = adapter.emitted
       /\ adapter.live => adapter'.live
  BY <1>4, <2>1 DEF Session
 <2>3. queue' = queue \/ queue' = Append(queue, Resolved(r, decision)) BY <1>8 DEF Settle
 <2>4. queue' = queue \/ \E e : Other(e) /\ queue' = Append(queue, e) BY <2>3, OtherEvents
 <2> QED BY <1>1, <1>2, <1>3, <1>5, <1>8, <2>2, <2>4, Unspoken
<1> QED BY <1>6, <1>7, <1>8 DEF DeliverAnswer, r, decision

LEMMA CrashText ==
  ASSUME RequestsInvariant, TextInvariant, Crash PROVE TextInvariant'
<1> DEFINE v == View
           w == View'
<1>1. /\ Spend("crashes") /\ adapter' = NewSession(FALSE) /\ queue' = << >>
      /\ intents' = << >> /\ ingest' = NewIngest
      /\ UNCHANGED <<setting, thread, said, completed>>
 BY DEF Crash
<1>2. Sound(v) /\ IsSeq(v.q) /\ setting \in Settings BY Facts
<1>3. Rests /\ adapter' \in Session /\ adapter'.live = FALSE BY <1>1, NewSessionRests
<1>4. SpentElsewhere BY <1>1, SpentElsewhereIs
<1>5. DOMAIN intents' = {} /\ Range(intents') = {} BY <1>1, EmptyIs
<1>6. /\ DOMAIN ingest' = IngestFields /\ ingest'.mode = setting.mode
      /\ ingest'.buffered = << >> /\ ingest'.remembered = << >>
 BY <1>1 DEF NewIngest, IngestFields
<1>7. Typed' /\ Bounded'
 BY <1>1, <1>3, <1>4, <1>5, <1>6
    DEF TextInvariant, Typed, Bounded, OneStart, Claude, Rests, SpentElsewhere
<1>8. setting.mode \in {"buffered", "streaming"} BY <1>2, RuntimeAssumption
<1>9. /\ w.q = << >> /\ w.buffered = << >> /\ w.remembered = << >>
      /\ w.turn = 0 /\ w.item = 1 /\ w.emitted = FALSE /\ w.starting = FALSE
      /\ w.turns = v.turns /\ w.said = v.said /\ w.messages = v.messages
      /\ w.completed = v.completed /\ w.ordered = v.ordered
      /\ w.mode \in {"buffered", "streaming"}
 BY <1>1, <1>3, <1>4, <1>5, <1>6, <1>8, ViewIs, NextViewIs DEF Rests, SpentElsewhere
<1> HIDE DEF v, w
<1>10. ~w.emitted /\ ~w.starting BY <1>9
<1>11. Sound(w) BY <1>2, <1>9, <1>10, LossStep
<1> QED BY <1>7, <1>11 DEF TextInvariant, w

--------------------
(* Ingestion takes an event.                                                *)
\* The messages that the thread can get: those of which something was said, and
\* the first of every turn.
Possible == DOMAIN said \cup {<<t, 1>> : t \in 1..spent.turns}

LEMMA PossibleIs ==
  ASSUME FewMessages, RequestsInvariant, TextInvariant
  PROVE Roomy(Possible) /\ \A m : Plausible(View, m) => m \in Possible
<1>1. /\ spent \in [Kinds -> Nat] /\ setting \in Settings
      /\ \A k \in Kinds : spent[k] <= setting[k]
 BY Facts
<1>2. \A k \in Kinds : setting[k] \in Nat BY <1>1, RuntimeAssumption
<1>3. {"turns", "chunks"} \subseteq Kinds BY DEF Kinds
<1> DEFINE firsts == {<<t, 1>> : t \in 1..spent.turns}
           n == spent.turns
           c == spent.chunks
<1>4. n \in Nat /\ c \in Nat /\ n <= setting.turns /\ c <= setting.chunks
      /\ setting.turns \in Nat /\ setting.chunks \in Nat
 BY <1>1, <1>2, <1>3
<1>5. IsFiniteSet(firsts) /\ Cardinality(firsts) <= n
 <2> DEFINE f == [t \in 1..n |-> <<t, 1>>]
 <2>1. f \in Surjection(1..n, firsts) BY DEF Surjection
 <2>2. IsFiniteSet(1..n) /\ Cardinality(1..n) = n
  <3>1. n \in Nat BY <1>4
  <3> HIDE DEF n
  <3>2. 1 \in Int /\ n \in Int BY <3>1
  <3>3. IsFiniteSet(1..n) /\ Cardinality(1..n) = IF 1 > n THEN 0 ELSE n - 1 + 1
   BY <3>2, FS_Interval
  <3> QED BY <3>1, <3>3
 <2> HIDE DEF f, firsts, n
 <2> QED BY <2>1, <2>2, FS_Surjection
<1>6. IsFiniteSet(DOMAIN said) /\ Cardinality(DOMAIN said) <= c BY DEF TextInvariant, Bounded
<1>7. MaxMessages \in Nat /\ setting.turns + setting.chunks <= MaxMessages BY <1>1 DEF FewMessages
<1>8. /\ IsFiniteSet(Possible)
      /\ Cardinality(Possible) = Cardinality(DOMAIN said) + Cardinality(firsts)
                                    - Cardinality(DOMAIN said \cap firsts)
 <2> DEFINE S == DOMAIN said
 <2>1. Possible = S \cup firsts BY DEF Possible
 <2> HIDE DEF S, firsts
 <2>2. IsFiniteSet(S) BY <1>6 DEF S
 <2>3. IsFiniteSet(S \cup firsts)
       /\ Cardinality(S \cup firsts) = Cardinality(S) + Cardinality(firsts) - Cardinality(S \cap firsts)
  BY <1>5, <2>2, FS_Union
 <2> QED BY <2>1, <2>3 DEF S
<1>9. Cardinality(Possible) <= MaxMessages
 <2>1. IsFiniteSet(DOMAIN said \cap firsts) BY <1>5, FS_Subset
 <2> DEFINE a == Cardinality(DOMAIN said)
            b == Cardinality(firsts)
            d == Cardinality(DOMAIN said \cap firsts)
 <2>2. a \in Nat /\ b \in Nat /\ d \in Nat BY <1>5, <1>6, <2>1, FS_CardinalityType
 <2>3. Cardinality(Possible) = a + b - d /\ a <= c /\ b <= n BY <1>5, <1>6, <1>8
 <2> HIDE DEF a, b, d, n, c
 <2> DEFINE x == setting.turns
            y == setting.chunks
 <2>4. x \in Nat /\ y \in Nat /\ n <= x /\ c <= y /\ x + y <= MaxMessages BY <1>4, <1>7
 <2> HIDE DEF x, y
 <2>5. a + b - d <= MaxMessages BY <1>4, <1>7, <2>2, <2>3, <2>4
 <2> QED BY <2>3, <2>5
<1>10. ASSUME NEW m, Plausible(View, m) PROVE m \in Possible
 <2>1. /\ m = <<m[1], m[2]>> /\ m[1] \in Nat \ {0} /\ m[1] <= n
       /\ m \in DOMAIN said \/ m[2] = 1
  BY <1>10, ViewIs DEF Plausible, Below
 <2>2. m[1] \in 1..n BY <1>4, <2>1
 <2> QED BY <2>1, <2>2 DEF Possible
<1> QED BY <1>7, <1>8, <1>9, <1>10 DEF Roomy

LEMMA IngestText ==
  ASSUME FewMessages, RequestsInvariant, TextInvariant, Ingest PROVE TextInvariant'
<1> DEFINE v == View
           w == View'
           e == Head(queue)
           A == Possible
           st == [thread |-> thread, ingest |-> ingest]
           next == Handled(st, e)
<1>1. /\ queue # << >> /\ queue' = Tail(queue)
      /\ thread' = next.thread /\ ingest' = next.ingest
      /\ UNCHANGED <<setting, adapter, intents, spent, said>>
 BY DEF Ingest
<1>2. /\ e.type = "turn.completed" => completed' = completed \cup ({e.turn} \ {0})
      /\ e.type # "turn.completed" => completed' = completed
 BY DEF Ingest
<1>3. /\ Sound(v) /\ IsSeq(v.q) /\ DOMAIN thread = ThreadFields
      /\ DOMAIN ingest = IngestFields /\ v.q = queue
 BY Facts, ViewIs
<1>4. Roomy(A) /\ \A m : Plausible(v, m) => m \in A BY PossibleIs
<1>5. IsSeq(w.q) /\ Takes(v, w, e)
 <2>1. v.q # << >> /\ w.q = Tail(v.q) BY <1>1, <1>3, NextViewIs
 <2> HIDE DEF w, v
 <2>2. IsSeq(w.q) /\ Takes(v, w, Head(v.q)) BY <1>3, <2>1, TakesIs
 <2> QED BY <1>3, <2>2
<1>6. SameAgent(v, w) /\ w.ordered = v.ordered
 <2>1. SameAgent(v, w) BY <1>1, StayingAgent, SameIntents
 <2> QED BY <1>1, <2>1, ViewIs, NextViewIs
<1>7. /\ st.thread = thread /\ st.ingest = ingest /\ Held(st) BY <1>3 DEF Held
<1>8. Holds(v, st) BY <1>7, ViewIs DEF Holds
<1>9. Holds(w, next) BY <1>1, NextViewIs DEF Holds
<1> HIDE DEF st
<1>10. Stored(st, A)
 <2>1. IngestTyped(v) /\ Fresh(v) BY <1>3 DEF Sound
 <2>2. Ledger(v.messages) /\ \A m \in DOMAIN v.buffered : v.buffered[m] \in Seq(Nat)
  BY <2>1 DEF IngestTyped
 <2>3. Ids(v.messages) \subseteq A BY <1>4, <2>1 DEF Fresh
 <2> HIDE DEF A
 <2>4. DOMAIN st.ingest = IngestFields BY <1>3, <1>7
 <2> QED BY <1>7, <1>8, <2>2, <2>3, <2>4 DEF Stored, Holds
<1> HIDE DEF v, w, A, next
<1>11. Handles(v, w, st, next, e, A) BY <1>3, <1>4, <1>5, <1>6, <1>8, <1>9, <1>10 DEF Handles
<1>12. e.type # "turn.completed" => w.completed = v.completed BY <1>2, ViewIs, NextViewIs DEF v, w
<1>13. v.mode = ingest.mode /\ v.mode \in {"buffered", "streaming"}
 <2>1. IngestTyped(v) BY <1>3 DEF Sound
 <2> QED BY <2>1, ViewIs DEF IngestTyped, v
<1> HIDE DEF e
<1>14. Sound(w) /\ Preserved(st, next, A)
 <2>1. CASE e.type = "content.delta"
  <3> DEFINE m == e.message
             mid == Remember(st, m)
  <3>1. next = IngestDelta(st, e) BY <2>1 DEF next, Handled
  <3>2. \/ v.mode = "buffered" /\ next = Buffer(mid, m, e.text)
        \/ v.mode = "streaming" /\ next = Streamed(mid, m, e.text)
   BY <1>13, <3>1 DEF IngestDelta, Streamed
  <3>3. IsDelta(e, m) BY <2>1 DEF IsDelta
  <3>4. w.completed = v.completed BY <1>12, <2>1
  <3>5. mid = Remember(st, m) OBVIOUS
  <3> HIDE DEF m, mid
  <3> QED BY <1>11, <3>2, <3>3, <3>4, <3>5, DeltaTaken
 <2>2. CASE e.type = "item.completed"
  <3> DEFINE m == e.message
             mid == Remember(st, m)
             fallback == IF Shown(st.thread.messages, m) = << >> THEN e.text ELSE << >>
             fin == Finalize(mid, m, fallback)
  <3>1. next = IngestItem(st, e) BY <2>2 DEF next, Handled
  <3>2. next = Forget(fin, m) BY <3>1 DEF IngestItem
  <3>3. IsItem(e, m) BY <2>2 DEF IsItem
  <3>4. w.completed = v.completed BY <1>12, <2>2
  <3>5. ShownIn(v, m) = Shown(st.thread.messages, m) BY <1>8, HoldsIs
  <3>6. ShownIn(v, m) = << >> => fallback = e.text BY <3>5
  <3>7. ShownIn(v, m) # << >> => fallback = << >> BY <3>5
  <3>8. mid = Remember(st, m) /\ fin = Finalize(mid, m, fallback) OBVIOUS
  <3> HIDE DEF m, mid, fallback, fin
  <3> QED BY <1>11, <3>2, <3>3, <3>4, <3>6, <3>7, <3>8, ItemTaken
 <2>3. CASE e.type = "turn.completed"
  <3> DEFINE turn == e.turn
  <3>1. next = IngestTurn(st, turn) BY <2>3 DEF next, Handled
  <3>2. w.completed = v.completed \cup ({turn} \ {0}) BY <1>2, <2>3, ViewIs, NextViewIs DEF v, w
  <3>3. e.turn = turn OBVIOUS
  <3> HIDE DEF turn
  <3> QED BY <1>11, <2>3, <3>1, <3>2, <3>3, TurnTaken
 <2>4. CASE e.type = "session.exited"
  <3>1. next = IngestExit(st) BY <2>4 DEF next, Handled
  <3>2. w.completed = v.completed BY <1>12, <2>4
  <3> QED BY <1>11, <2>4, <3>1, <3>2, ExitTaken
 <2>5. CASE Other(e)
  <3>1. /\ next = [st EXCEPT !.thread.status = "active"]
        \/ next = [st EXCEPT !.thread.activities = st.thread.activities \cup {e}]
   BY <2>5 DEF next, Handled, IngestActivity, Other
  <3>2. /\ DOMAIN next = {"thread", "ingest"} /\ DOMAIN next.thread = ThreadFields
        /\ next.ingest = st.ingest /\ next.thread.messages = st.thread.messages
        /\ next.thread.status \in {st.thread.status, "active"}
   BY <1>7, <3>1 DEF Held, ThreadFields
  <3>3. Stored(next, A) BY <1>10, <3>2 DEF Stored, Held
  <3>4. Preserved(st, next, A) BY <3>2, <3>3 DEF Preserved
  <3>5. w.completed = v.completed BY <1>12, <2>5 DEF Other
  <3>6. SameIngest(v, w) BY <1>6, <1>8, <1>9, <3>2, <3>5 DEF SameIngest, Holds
  <3>7. Sound(w) BY <1>3, <1>5, <1>6, <2>5, <3>6, NeutralStep
  <3> QED BY <3>4, <3>7
 <2> QED BY <2>1, <2>2, <2>3, <2>4, <2>5 DEF Other
<1>15. Typed' /\ Bounded'
 <2>1. /\ DOMAIN next.ingest = IngestFields
       /\ next.thread.status \in {st.thread.status, "active", "stopped"}
  BY <1>14 DEF Preserved, Stored
 <2>2. /\ DOMAIN ingest' = IngestFields
       /\ thread'.status \in {thread.status, "active", "stopped"}
  BY <1>1, <1>7, <2>1 DEF next
 <2>3. Typed' BY <1>1, <2>2 DEF TextInvariant, Typed
 <2>4. Bounded' BY <1>1 DEF TextInvariant, Bounded, OneStart, Claude
 <2> QED BY <2>3, <2>4
<1> QED BY <1>14, <1>15 DEF TextInvariant, w

--------------------
(* The theorem on text.                                                     *)
LEMMA TextStarts == Init => TextInvariant
<1> SUFFICES ASSUME Init PROVE TextInvariant OBVIOUS
<1> DEFINE v == View
<1>1. /\ setting \in Settings /\ adapter = NewSession(FALSE) /\ queue = << >>
      /\ ingest = NewIngest /\ thread = [messages |-> << >>, activities |-> {}, status |-> "none"]
      /\ intents = << >> /\ spent = [k \in Kinds |-> 0] /\ said = << >> /\ completed = {}
 BY DEF Init
<1>2. /\ adapter \in Session /\ adapter.live = FALSE /\ adapter.turn = 0 /\ adapter.item = 1
      /\ adapter.emitted = FALSE
 BY <1>1 DEF NewSession, Session
<1>3. /\ DOMAIN ingest = IngestFields /\ ingest.mode = setting.mode
      /\ ingest.buffered = << >> /\ ingest.remembered = << >>
 BY <1>1 DEF NewIngest, IngestFields
<1>4. spent.switches = 0 /\ spent.turns = 0 /\ spent.chunks = 0 /\ \A k \in Kinds : spent[k] = 0
 BY <1>1 DEF Kinds
<1>5. DOMAIN << >> = {} /\ Range(<< >>) = {} BY EmptyIs
<1>6. Typed BY <1>1, <1>2, <1>3 DEF Typed
<1>7. Bounded
 <2>1. \A k \in Kinds : setting[k] \in Nat BY <1>1, RuntimeAssumption
 <2>2. DOMAIN said = {} /\ DOMAIN intents = {} BY <1>1, <1>5
 <2>3. IsFiniteSet(DOMAIN said) /\ Cardinality(DOMAIN said) = 0 BY <2>2, FS_EmptySet
 <2> QED BY <1>2, <1>4, <2>1, <2>2, <2>3 DEF Bounded, OneStart
<1>8. setting.mode \in {"buffered", "streaming"} BY <1>1, RuntimeAssumption
<1>9. /\ DOMAIN v.q = {} /\ v.turn = 0 /\ v.item = 1 /\ v.emitted = FALSE /\ DOMAIN v.said = {}
      /\ v.turns = 0 /\ v.starting = FALSE /\ v.messages = << >>
      /\ v.mode \in {"buffered", "streaming"} /\ DOMAIN v.buffered = {}
      /\ DOMAIN v.remembered = {} /\ v.completed = {}
 BY <1>1, <1>2, <1>3, <1>4, <1>5, <1>8, ViewIs
<1>10. /\ Ledger(v.messages) /\ Ids(v.messages) = {} /\ Range(v.messages) = {}
       /\ \A m : ShownIn(v, m) = << >>
 BY <1>5, <1>9, EmptyLedger DEF ShownIn
<1> HIDE DEF v
<1>11. \A m : BufferedIn(v, m) = << >> /\ SaidIn(v, m) = 0 BY <1>9 DEF BufferedIn, SaidIn
<1>12. Arranged(<< >>, << >>, 0, v.ordered) BY NoText DEF Arranged, Counts
<1>13. Placed(v) BY <1>10, <1>11, <1>12 DEF Placed
<1>14. AgentTyped(v) /\ IngestTyped(v) /\ Fresh(v) /\ Order(v)
 BY <1>9, <1>10 DEF AgentTyped, IngestTyped, Fresh, Order
<1>15. Queued(v) /\ Now(v) /\ Covered(v) /\ Streams(v)
 BY <1>9, <1>10 DEF Queued, DeltaIn, Now, Covered, Streams
<1>16. Sound(v) BY <1>13, <1>14, <1>15 DEF Sound
<1> QED BY <1>6, <1>7, <1>16 DEF TextInvariant, v

LEMMA TextSteps ==
  ASSUME FewMessages, RequestsInvariant, TextInvariant, Tally, [Next]_vars PROVE TextInvariant'
<1>1. CASE UNCHANGED vars
 <2>1. /\ SpentElsewhere /\ SameStart /\ OneStart'
       /\ adapter' \in Session /\ adapter'.turn = adapter.turn
       /\ adapter'.item = adapter.item /\ adapter'.emitted = adapter.emitted
       /\ adapter.live => adapter'.live
       /\ thread'.status \in {thread.status, "active", "stopped"}
  BY <1>1, StaysIs, SpentElsewhereIs DEF vars
 <2>2. thread'.messages = thread.messages /\ queue' = queue
       /\ UNCHANGED <<setting, ingest, said, completed>>
  BY <1>1 DEF vars
 <2> QED BY <2>1, <2>2, Unspoken
<1>2. CASE Agent
 BY <1>2, SayText, SayAtOnceText, FinishItemText, EndTurnText, DieText, AskText, AbortText
    DEF Agent
<1>3. CASE User BY <1>3, RequestTurnText, RequestStopText, SwitchModeText, AnswerText DEF User
<1>4. CASE Callback BY <1>4, TellText DEF Callback
<1>5. CASE Work BY <1>5, StartTurnText, StopSessionText, DeliverAnswerText DEF Work
<1>6. CASE Ingest BY <1>6, IngestText
<1>7. CASE Crash BY <1>7, CrashText
<1> QED BY <1>1, <1>2, <1>3, <1>4, <1>5, <1>6, <1>7 DEF Next

(* What is streamed and what comes at once is counted.                      *)
LEMMA TallyStarts == Init => Tally
BY EmptyIs DEF Init, Tally, NewSession

\* Nothing is said, and the message in hand is the same, a new one or none.
LEMMA TallyStays ==
  ASSUME Tally, UNCHANGED <<setting, said>>,
    adapter'.turn # 0 =>
       \/ UNCHANGED adapter
       \/ adapter'.turn = adapter.turn /\ adapter'.item = adapter.item
          /\ adapter'.emitted = adapter.emitted
       \/ Current' \notin DOMAIN said /\ ~adapter'.emitted
  PROVE Tally'
<1>1. Claude' = Claude /\ \A m : Said(m)' = Said(m) BY DEF Claude, Said
<1>2. ASSUME adapter'.turn # 0
    PROVE  adapter'.emitted <=> Said(Current)'.streamed # 0
 <2>1. CASE Current' = Current /\ adapter'.turn = adapter.turn
            /\ adapter'.emitted = adapter.emitted
  BY <1>2, <2>1 DEF Tally, Said
 <2>2. CASE Current' \notin DOMAIN said /\ ~adapter'.emitted BY <2>2 DEF Said
 <2> QED BY <1>2, <2>1, <2>2 DEF Current
<1> QED BY <1>1, <1>2 DEF Tally

\* Nothing was said of the messages to come.
LEMMA NoneAhead ==
  ASSUME RequestsInvariant, TextInvariant
  PROVE \A m \in DOMAIN said :
           /\ m[1] = adapter.turn => m[2] <= adapter.item
           /\ (\E i \in Range(intents) : i.type = "start") => m[1] < spent.turns
<1>1. Fresh(View) BY Facts DEF Sound
<1>2. \A m \in DOMAIN View.said : Plausible(View, m) BY <1>1 DEF Fresh
<1> QED BY <1>2, ViewIs DEF Plausible, Below

LEMMA TallyElsewhere ==
  ASSUME RequestsInvariant, TextInvariant, Tally, [Next]_vars, ~Say, ~SayAtOnce PROVE Tally'
<1>1. adapter \in Session /\ IsSeq(intents) BY Facts
<1>2. CASE FinishItem
 <2>1. /\ adapter'.turn = adapter.turn /\ adapter'.item = adapter.item + 1
       /\ adapter'.emitted = FALSE
  BY <1>1, <1>2 DEF FinishItem, Session
 <2>2. Current' = <<adapter.turn, adapter.item + 1>> BY <2>1 DEF Current
 <2>3. adapter.item \in Nat /\ Current'[1] = adapter.turn /\ Current'[2] = adapter.item + 1
  BY <1>1, <2>2 DEF Session
 <2>4. Current' \notin DOMAIN said BY <2>3, NoneAhead
 <2> QED BY <1>2, <2>1, <2>4, TallyStays DEF FinishItem
<1>3. CASE StartTurn
 <2>1. Head(intents) \in Range(intents) /\ Head(intents).type = "start"
  BY <1>1, <1>3, TailIs DEF StartTurn, TakeIntent
 <2>2. adapter'.turn = spent.turns /\ adapter'.emitted = FALSE /\ adapter'.item = 1
  BY <1>1, <1>3, <2>1, Facts, ViewIs DEF StartTurn, Session, NewSession, AgentTyped
 <2>3. Current' = <<spent.turns, 1>> BY <2>2 DEF Current
 <2>4. Current' \notin DOMAIN said
  <3> SUFFICES ASSUME Current' \in DOMAIN said PROVE FALSE OBVIOUS
  <3>1. Current'[1] < spent.turns /\ Current'[1] = spent.turns BY <2>1, <2>3, NoneAhead
  <3>2. spent.turns \in Nat BY Facts DEF Kinds
  <3> QED BY <3>1, <3>2
 <2> QED BY <1>3, <2>2, <2>4, TallyStays DEF StartTurn
<1>4. CASE EndTurn
 <2>1. adapter'.turn = 0 BY <1>1, <1>4 DEF EndTurn, Session
 <2> QED BY <1>4, <2>1, TallyStays DEF EndTurn
<1>5. CASE Die \/ Crash
 <2>1. adapter'.turn = 0 BY <1>5 DEF Die, Crash, NewSession
 <2> QED BY <1>5, <2>1, TallyStays DEF Die, Crash
<1>6. CASE StopSession
 <2>1. UNCHANGED adapter \/ adapter'.turn = 0 BY <1>6 DEF StopSession, NewSession
 <2> QED BY <1>6, <2>1, TallyStays DEF StopSession
<1>7. CASE DeliverAnswer
 <2>1. \/ UNCHANGED adapter
       \/ adapter' = NewSession(TRUE)
       \/ \E r, d : Settle(r, d)
  BY <1>7, Zenon DEF DeliverAnswer
 <2>2. ASSUME NEW r, NEW d, Settle(r, d)
     PROVE  /\ adapter'.turn = adapter.turn /\ adapter'.item = adapter.item
            /\ adapter'.emitted = adapter.emitted
  BY <1>1, <2>2 DEF Settle, Session
 <2>3. UNCHANGED <<setting, said>> BY <1>7 DEF DeliverAnswer
 <2>4. adapter' = NewSession(TRUE) => adapter'.turn = 0 BY DEF NewSession
 <2> QED BY <2>1, <2>2, <2>3, <2>4, TallyStays
<1>8. CASE \E kind \in {"approval", "user-input"} : Ask(kind)
 <2>1. /\ adapter'.turn = adapter.turn /\ adapter'.item = adapter.item
       /\ adapter'.emitted = adapter.emitted
  BY <1>1, <1>8 DEF Ask, Session
 <2> QED BY <1>8, <2>1, TallyStays DEF Ask
<1>9. CASE \E r \in DOMAIN requests : Abort(r)
 <2>1. /\ adapter'.turn = adapter.turn /\ adapter'.item = adapter.item
       /\ adapter'.emitted = adapter.emitted
  BY <1>1, <1>9 DEF Abort, Session
 <2> QED BY <1>9, <2>1, TallyStays DEF Abort
<1>10. CASE User \/ Callback \/ Ingest \/ UNCHANGED vars
 <2>1. UNCHANGED <<setting, said, adapter>>
  BY <1>10 DEF User, RequestTurn, RequestStop, SwitchMode, Answer, Callback, Tell, Ingest, vars
 <2> QED BY <2>1, TallyStays
<1> QED BY <1>2, <1>3, <1>4, <1>5, <1>6, <1>7, <1>8, <1>9, <1>10 DEF Next, Agent, Work

LEMMA TallySteps ==
  ASSUME RequestsInvariant, TextInvariant, Tally, [Next]_vars PROVE Tally'
<1>0. adapter \in Session /\ Sound(View) /\ AgentTyped(View) /\ IsSeq(intents) BY Facts
<1>1. CASE Say
 <2> DEFINE s == [Said(Current) EXCEPT !.streamed = @ + 1]
 <2>1. /\ Running /\ said' = Put(said, Current, s) /\ UNCHANGED setting
       /\ adapter' = [adapter EXCEPT !.emitted = TRUE]
  BY <1>1 DEF Say
 <2>2. Heard(Current, s) BY <2>1, Hears
 <2>3. Said(Current) \in [streamed : Nat, atOnce : Nat]
       /\ (adapter.emitted <=> Said(Current).streamed # 0)
  BY <2>1, SaidNow
 <2>4. s.streamed \in Nat \ {0} /\ s.atOnce = Said(Current).atOnce
       /\ s \in [streamed : Nat, atOnce : Nat]
  BY <2>3
 <2>5. ~Claude => s.atOnce = 0
  <3> SUFFICES ASSUME ~Claude PROVE Said(Current).atOnce = 0 BY <2>4
  <3>1. CASE Current \notin DOMAIN said BY <3>1 DEF Said
  <3>2. CASE Current \in DOMAIN said
   <4>1. adapter.emitted
    <5> SUFFICES ASSUME ~adapter.emitted PROVE FALSE OBVIOUS
    <5>1. View.turn # 0 /\ ~View.emitted /\ ~View.quiet /\ Cur(View) \in DOMAIN View.said
     BY <2>1, <3>2, ViewIs, CurrentIs DEF Running
    <5> QED BY <1>0, <5>1 DEF Sound, Now
   <4>2. Said(Current) = said[Current] BY <3>2 DEF Said
   <4> QED BY <2>3, <3>2, <4>1, <4>2 DEF Tally
  <3> QED BY <3>1, <3>2
 <2>6. adapter'.turn = adapter.turn /\ adapter'.item = adapter.item /\ adapter'.emitted = TRUE
  BY <1>0, <2>1 DEF Session
 <2>7. Claude' = Claude /\ Current' = Current BY <2>1, <2>6 DEF Claude, Current
 <2> HIDE DEF s
 <2>8. Said(Current)' = s BY <2>2, <2>7 DEF Said, Heard
 <2> QED BY <2>2, <2>4, <2>5, <2>6, <2>7, <2>8 DEF Tally, Heard
<1>2. CASE SayAtOnce
 <2> DEFINE s == [Said(Current) EXCEPT !.atOnce = @ + 1]
 <2>1. /\ Running /\ said' = Put(said, Current, s) /\ UNCHANGED setting
       /\ Claude \/ ~adapter.emitted
  BY <1>2 DEF SayAtOnce
 <2>2. Heard(Current, s) BY <2>1, Hears
 <2>3. /\ Said(Current) \in [streamed : Nat, atOnce : Nat]
       /\ adapter.emitted <=> Said(Current).streamed # 0
  BY <2>1, SaidNow
 <2>10. Current \notin DOMAIN said => Said(Current).streamed = 0 /\ Said(Current).atOnce = 0
  BY DEF Said
 <2>4. s.atOnce = Said(Current).atOnce + 1 /\ s.streamed = Said(Current).streamed
       /\ s \in [streamed : Nat, atOnce : Nat]
  BY <2>3
 <2>5. ~Claude => s.streamed = 0 /\ s.atOnce = 1
  <3> SUFFICES ASSUME ~Claude PROVE Current \notin DOMAIN said BY <2>4, <2>10
  <3>1. View.turn # 0 /\ ~View.emitted /\ ~View.quiet BY <2>1, ViewIs DEF Running
  <3>2. Cur(View) \notin DOMAIN View.said BY <1>0, <3>1 DEF Sound, Now
  <3> QED BY <3>2, ViewIs, CurrentIs
 <2> HIDE DEF s
 <2>6. \A m \in DOMAIN said' :
          /\ said'[m] \in [streamed : Nat, atOnce : Nat]
          /\ said'[m].streamed = 0 => said'[m].atOnce # 0
          /\ said'[m].streamed # 0 /\ ~Claude => said'[m].atOnce = 0
          /\ said'[m].streamed = 0 /\ ~Claude => said'[m].atOnce = 1
  <3> TAKE m \in DOMAIN said'
  <3>1. CASE m = Current
   <4>1. said'[m] = s BY <2>2, <3>1 DEF Heard
   <4>2. s.atOnce # 0 BY <2>3, <2>4
   <4> QED BY <2>4, <2>5, <4>1, <4>2
  <3>2. CASE m # Current
   <4>1. m \in DOMAIN said /\ said'[m] = said[m] BY <2>2, <3>2 DEF Heard
   <4> QED BY <4>1 DEF Tally
  <3> QED BY <3>1, <3>2
 <2>7. Claude' = Claude BY <2>1 DEF Claude
 <2>8. CASE Claude
  <3>1. Current' = Current /\ adapter' = adapter BY <1>2, <2>8 DEF SayAtOnce, Current
  <3>2. Said(Current)' = s BY <2>2, <3>1 DEF Said, Heard
  <3> QED BY <2>3, <2>4, <2>6, <2>7, <3>1, <3>2 DEF Tally
 <2>9. CASE ~Claude
  <3>1. adapter' = [adapter EXCEPT !.item = @ + 1] /\ ~adapter.emitted
   BY <1>2, <2>1, <2>9 DEF SayAtOnce
  <3>2. /\ adapter'.turn = adapter.turn /\ adapter'.item = adapter.item + 1
        /\ adapter'.emitted = adapter.emitted
   BY <1>0, <3>1 DEF Session
  <3>3. Current' # Current /\ Current' \notin DOMAIN said
   BY <1>0, <2>1, <3>2, NoneAhead DEF Current, Session, Running
  <3>4. Said(Current)'.streamed = 0 BY <2>2, <3>3 DEF Said, Heard
  <3> QED BY <2>6, <2>7, <3>1, <3>2, <3>4 DEF Tally
 <2> QED BY <2>8, <2>9
<1> QED BY <1>1, <1>2, TallyElsewhere

(* What the invariant says of the messages that are shown.                  *)
LEMMA SoundIsKept ==
  ASSUME RequestsInvariant, TextInvariant, Tally PROVE TextKept
<1> DEFINE v == View
<1>1. Sound(v) /\ AgentTyped(v) /\ IngestTyped(v) BY Facts DEF Sound
<1> SUFFICES ASSUME NEW m \in DOMAIN said
    PROVE  /\ IsInjective(Shown(thread.messages, m))
           /\ ToSet(Shown(thread.messages, m)) \subseteq 1..Kept(m)
           /\ spent.switches = 0 => IsPrefix(Shown(thread.messages, m), Whole(m))
           /\ m[1] \in completed =>
                 /\ Len(Shown(thread.messages, m)) =
                       IF Dropped(m) THEN Kept(m)
                       ELSE said[m].streamed + said[m].atOnce
                 /\ \A x \in Range(thread.messages) : x.id = m => ~x.streaming
 BY DEF TextKept
<1> DEFINE s == ShownIn(v, m)
           k == Kept(m)
<1>2. s = Shown(thread.messages, m) /\ SaidIn(v, m) = k /\ m \in DOMAIN v.said
 BY ViewIs, CurrentIs DEF ShownIn
<1>3. s \in Seq(Nat) /\ k \in Nat /\ BufferedIn(v, m) \in Seq(Nat)
 BY <1>1, <1>2, SequencesIn, SaidIs
<1>9. k = IF Dropped(m) THEN Kept(m) ELSE said[m].streamed + said[m].atOnce
 <2>1. /\ said[m] \in [streamed : Nat, atOnce : Nat]
       /\ said[m].streamed = 0 => said[m].atOnce # 0
       /\ said[m].streamed # 0 /\ ~Claude => said[m].atOnce = 0
       /\ said[m].streamed = 0 /\ ~Claude => said[m].atOnce = 1
  BY DEF Tally
 <2> DEFINE a == said[m].streamed
            b == said[m].atOnce
 <2>2. /\ a \in Nat /\ b \in Nat /\ (a = 0 => b # 0)
       /\ (a # 0 /\ ~Claude => b = 0) /\ (a = 0 /\ ~Claude => b = 1)
  BY <2>1
 <2>3. k = IF a > 0 THEN a ELSE 1 BY DEF Kept
 <2>4. /\ a > 0 => (Dropped(m) <=> Claude /\ b > 0)
       /\ a = 0 => (Dropped(m) <=> Claude /\ b > 1)
  BY <2>2 DEF Dropped
 <2> HIDE DEF a, b
 <2>5. ASSUME ~Dropped(m) PROVE k = a + b
  <3>1. CASE a > 0
   <4>1. b = 0 BY <2>2, <2>4, <2>5, <3>1
   <4> QED BY <2>2, <2>3, <3>1, <4>1
  <3>2. CASE a = 0
   <4>1. b = 1 BY <2>2, <2>4, <2>5, <3>2
   <4> QED BY <2>2, <2>3, <3>2, <4>1
  <3> QED BY <2>2, <3>1, <3>2
 <2> QED BY <2>5 DEF a, b, k
<1>4. Arranged(s, BufferedIn(v, m), k, v.ordered) BY <1>1, <1>2 DEF Sound, Placed
<1> HIDE DEF s, k
<1>5. IsInjective(s) /\ Range(s) \subseteq 1..k /\ (v.ordered => Counts(s, 0))
 BY <1>4 DEF Arranged
<1>6. ToSet(s) \subseteq 1..k BY <1>5 DEF ToSet, Range
<1>7. ASSUME spent.switches = 0 PROVE IsPrefix(s, Whole(m))
 <2>1. Counts(s, 0) BY <1>5, <1>7, ViewIs
 <2>2. Whole(m) = [n \in 1..k |-> n] BY DEF Whole, k
 <2>3. IsPrefix(s, [n \in 1..k |-> n]) BY <1>3, <1>5, <2>1, FromTheStart
 <2> QED BY <2>2, <2>3
<1>8. ASSUME m[1] \in completed
    PROVE  /\ Len(s) = k
           /\ \A x \in Range(thread.messages) : x.id = m => ~x.streaming
 <2> DEFINE t == m[1]
 <2>1. t \in v.completed BY <1>8, ViewIs
 <2>2. Over(v, t, 0) /\ t \notin DOMAIN v.remembered BY <1>1, <2>1 DEF Sound, Order
 <2>3. \A i \in DOMAIN v.q : i \in Nat \ {0} BY Facts, LenProperties DEF IsSeq
 <2>4. v.turn # t /\ \A i \in DOMAIN v.q : ~Of(v.q[i], t) BY <2>2, <2>3 DEF Over
 <2>5. RememberedIn(v, t) = {} BY <2>2 DEF RememberedIn
 <2>6. m \notin DOMAIN v.buffered BY <1>1, <2>5 DEF IngestTyped
 <2>7. BufferedIn(v, m) = << >> BY <2>6 DEF BufferedIn
 <2>8. \A i \in DOMAIN v.q : ~IsDelta(v.q[i], m) /\ ~IsItem(v.q[i], m)
  BY <2>4 DEF Of, AboutText, IsDelta, IsItem
 <2>9. Alive(v, t) BY <2>1 DEF Alive
 <2>10. CoveredAt(v, m) BY <1>1, <1>2, <2>9 DEF Sound, Covered
 <2>11. ~ComesWhole(v, m)
  <3>1. Cur(v)[1] = v.turn BY CurIs
  <3> QED BY <2>4, <2>8, <3>1 DEF ComesWhole
 <2>12. \A n \in 1..k : n \in Range(s)
  BY <1>2, <2>7, <2>8, <2>10, <2>11, EmptyIs DEF CoveredAt, Found, DeltaIn, s
 <2>13. Range(s) = 1..k BY <1>5, <2>12
 <2>14. Len(s) = k BY <1>3, <1>5, <2>13, AllShown
 <2>15. ASSUME NEW x \in Range(thread.messages), x.id = m PROVE ~x.streaming
  BY <1>1, <2>5, <2>9, <2>15, ViewIs DEF Sound, Streams
 <2> QED BY <2>14, <2>15
<1> QED BY <1>2, <1>5, <1>6, <1>7, <1>8, <1>9 DEF k

LEMMA SoundIsTyped ==
  ASSUME RequestsInvariant, TextInvariant PROVE TypeOK
<1> DEFINE v == View
<1>1. IngestTyped(v) BY Facts DEF Sound
<1>2. adapter \in [live : BOOLEAN, turn : Nat, item : Nat \ {0}, emitted : BOOLEAN,
                   pending : SUBSET DOMAIN requests]
 <2>1. adapter.pending \subseteq DOMAIN requests BY DEF RequestsInvariant, Waiting
 <2> QED BY <2>1, Facts DEF Session
<1>3. requests \in Seq([kind : {"approval", "user-input"}, turn : Nat, told : BOOLEAN,
                        decision : {"none", "accept", "decline", "cancel"}])
 <2>1. {"none"} \cup Decisions = {"none", "accept", "decline", "cancel"} BY DEF Decisions
 <2> QED BY <2>1 DEF RequestsInvariant, Shapes, Questions
<1>4. ASSUME NEW m \in DOMAIN ingest.buffered
    PROVE  /\ Len(ingest.buffered[m]) \in 1..MaxBuffered
           /\ m[1] \in DOMAIN ingest.remembered /\ m \in ingest.remembered[m[1]]
 <2>1. /\ Len(v.buffered[m]) \in 1..MaxBuffered /\ m \in RememberedIn(v, m[1])
  BY <1>1, ViewIs DEF IngestTyped
 <2> QED BY <2>1, ViewIs DEF RememberedIn
<1>5. ingest.mode \in {"buffered", "streaming"} BY <1>1, ViewIs DEF IngestTyped
<1>6. setting \in Settings /\ thread.status \in {"none", "active", "stopped"}
      /\ spent \in [Kinds -> Nat]
 BY Facts DEF TextInvariant, Typed
<1> QED BY <1>2, <1>3, <1>4, <1>5, <1>6 DEF TypeOK

(* The messages of a thread show what the agent said: nothing twice, in     *)
(* order unless the delivery mode changed, and all of it as final text once *)
(* the end of the turn is ingested; what is buffered will be found.  The    *)
(* thread keeps its messages: LastN drops the oldest of more than           *)
(* MAX_THREAD_MESSAGES.                                                     *)
THEOREM TextIsExact ==
  ASSUME FewMessages PROVE Spec => []TextExact
<1>1. Init => TextInvariant BY TextStarts
<1>2. RequestsInvariant /\ TextInvariant /\ Tally /\ [Next]_vars => TextInvariant' BY TextSteps
<1>6. Init => Tally BY TallyStarts
<1>7. RequestsInvariant /\ TextInvariant /\ Tally /\ [Next]_vars => Tally' BY TallySteps
<1>3. RequestsInvariant /\ TextInvariant /\ Tally => TextExact
 BY SoundIsKept, SoundIsTyped DEF TextExact
<1>4. Init => RequestsInvariant BY StartsSound
<1>5. RequestsInvariant /\ [Next]_vars => RequestsInvariant' BY StepsSound
<1> QED BY <1>1, <1>2, <1>3, <1>4, <1>5, <1>6, <1>7, PTL DEF Spec
=============================================================================

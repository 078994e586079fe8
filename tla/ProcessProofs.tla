--------------------------- MODULE ProcessProofs ---------------------------
(***************************************************************************)
(* The safety of what starts processes and must account for each of them:   *)
(* the terminals, with ProcessesAccounted and TranscriptKept, for any       *)
(* terminals on any threads; and the desktop application, with              *)
(* DesktopTypeOK, ServersStopped and DownloadKept, whatever crashes, fails  *)
(* to start, is released, is installed and quits.                           *)
(***************************************************************************)
EXTENDS TerminalManager, DesktopShell, TLAPS, FiniteSetTheorems

--------------------
(* The terminals, inductive invariant: the manager.                         *)
\* The numbers of texts, of which there are n besides the empty one.
Texts(n) == {None} \cup 0..n

SessionStates(n) ==
    [terminal : Terminals, status : {"starting", "running", "exited", "error"},
     history : 0..n, process : Nat, subprocess : Nat]
PersistWrites(n) == [id : Nat, terminal : Terminals, history : 0..n, after : Nat]
ProcessStates == {"live", "signalled", "missed", "killed", "gone"}

Managers(n) ==
    [objects : Seq(SessionStates(n)), sessions : SUBSET Nat, older : SUBSET (Nat \X Nat),
     timers : SUBSET Terminals, pending : [Terminals -> Texts(n)], tail : [Terminals -> Nat],
     writes : SUBSET PersistWrites(n), escalating : SUBSET Nat, evicted : SUBSET Nat,
     processes : Seq(ProcessStates), deaf : SUBSET Nat]

\* The map has one session of a terminal.
MapSound(m) ==
    /\ m.sessions \subseteq DOMAIN m.objects /\ m.evicted \subseteq DOMAIN m.objects
    /\ \A s, x \in m.sessions : m.objects[s].terminal = m.objects[x].terminal => s = x

\* A session runs while it has a process, which is live and no other's.
ObjectsSound(m) ==
    /\ \A s \in DOMAIN m.objects :
          LET object == m.objects[s]
          IN  /\ object.status = "running" <=> object.process # 0
              /\ object.process # 0 => /\ object.process \in DOMAIN m.processes
                                       /\ m.processes[object.process] = "live"
              /\ object.subprocess \in {0, object.process}
    /\ \A s, x \in DOMAIN m.objects :
          m.objects[s].process = m.objects[x].process => s = x \/ m.objects[s].process = 0

\* A live process has its session, a timer to kill is for one that is not.
ProcessesSound(m) ==
    /\ m.escalating \subseteq DOMAIN m.processes
    /\ \A p \in m.escalating : m.processes[p] \in {"signalled", "gone"}
    /\ \A p \in DOMAIN m.processes :
          m.processes[p] = "live" => \E s \in DOMAIN m.objects : m.objects[s].process = p

\* A session with a process is in the map, unless it was evicted; a process
\* that was signalled has its timer.
LiveMapped(m) ==
    /\ \A s \in DOMAIN m.objects \ m.evicted : m.objects[s].process # 0 => s \in m.sessions
    /\ \A p \in DOMAIN m.processes : m.processes[p] = "signalled" => p \in m.escalating

Accounted(m) == MapSound(m) /\ ObjectsSound(m) /\ ProcessesSound(m)

\* Writes are known by their id, and wait for one of the same terminal; so
\* does what the queue of a terminal ends with.
Queued(m) ==
    /\ IsFiniteSet(m.writes)
    /\ \A w \in m.writes : w.id # 0
    /\ \A v, w \in m.writes : v.id = w.id => v = w
    /\ \A w \in m.writes : w.after # 0 =>
          \E v \in m.writes : v.id = w.after /\ v.terminal = w.terminal
    /\ \A t \in Terminals : m.tail[t] # 0 =>
          \E w \in m.writes : w.id = m.tail[t] /\ w.terminal = t

--------------------
(* The terminals, inductive invariant: the calls.                           *)
Calls ==
    [kind : {"open", "clear", "restart", "close", "closeThread"},
     step : {"stopping", "flush", "persist", "spawn"}, terminal : Terminals, session : Nat,
     flushing : SUBSET Terminals, waits : [Terminals -> Nat], deletes : BOOLEAN]

\* The session of a call is the one in the map, unless it was evicted or
\* dispose took it out.
SessionSound(m, call) ==
    /\ call.session \in DOMAIN m.objects /\ m.objects[call.session].terminal = call.terminal
    /\ disposed \/ call.session \in m.sessions \cup m.evicted

\* A call flushes terminals that are not in the map any more, or not yet; a
\* process is spawned for a session that has none.
Emptied(call) ==
    IF call.kind = "closeThread" THEN Of(setting.thread[call.terminal]) ELSE {call.terminal}
CallSound(m, call) ==
    /\ call.flushing \subseteq Of(setting.thread[call.terminal])
    /\ call.step \in {"persist", "spawn"} => call.flushing = {} /\ SessionSound(m, call)
    /\ call.step = "spawn" => m.objects[call.session].process = 0
    /\ call.step = "stopping" =>
          /\ call.kind = "closeThread"
          /\ \A u \in Emptied(call) \ call.flushing : Session(m, u) = {}
    /\ call.step = "flush" => \A u \in Emptied(call) : Session(m, u) = {}

CallsSound(m) ==
    \A thread \in Threads :
        operation[thread] # Idle =>
            /\ setting.thread[operation[thread].terminal] = thread
            /\ CallSound(m, operation[thread])

--------------------
(* The terminals, inductive invariant: the transcripts.                     *)
\* The writes of a terminal have places: the first does not wait, each other
\* waits for the one before, and the queue ends with the last.
InLine(m, t, n, place) ==
    LET own == {w \in m.writes : w.terminal = t}
    IN  /\ \A w \in own : place[w.id] \in 1..n /\ (w.after = 0 => place[w.id] = 1)
        /\ \A v, w \in own : place[v.id] = place[w.id] => v = w
        /\ \A v, w \in own : v.after = w.id => place[v.id] = place[w.id] + 1
        /\ \A w \in own : w.id = m.tail[t] => place[w.id] = n
        /\ m.tail[t] = 0 => n = 0
Lined(m, t) == \E n \in Nat, place \in [Nat -> Int] : InLine(m, t, n, place)

\* What waits to be written, else what is written last, else the file, is the
\* transcript that the file should come to hold.
Newest(m, t, text, file) ==
    /\ m.pending[t] # None => m.pending[t] = text
    /\ m.pending[t] = None /\ m.tail[t] # 0 =>
          \A w \in m.writes : w.id = m.tail[t] => w.history = text
    /\ m.pending[t] = None /\ m.tail[t] = 0 => file = text

\* Nothing is left to write for a terminal that is not in the map, unless the
\* call on its thread has yet to flush it.
Awaits(call, t) == call # Idle /\ t \in call.flushing
Drained(m, t, call) ==
    Session(m, t) = {} => Awaits(call, t) \/ (m.pending[t] = None /\ m.tail[t] = 0)

Evicted(m, t) == \E s \in m.evicted : m.objects[s].terminal = t
Excepted(m, t) == disposed \/ spent.writes > 0 \/ Evicted(m, t)

Kept(m, t) ==
    /\ Lined(m, t) /\ Newest(m, t, wanted[t], files[t])
    /\ Drained(m, t, operation[setting.thread[t]])

TranscriptsSound(m) == \A t \in Terminals : Excepted(m, t) \/ Kept(m, t)

--------------------
Typed ==
    /\ setting \in Settings /\ spent \in [Kinds -> Nat]
    /\ manager \in Managers(spent.outputs)
    /\ operation \in [Threads -> {Idle} \cup Calls]
    /\ files \in [Terminals -> Texts(spent.outputs)]
    /\ wanted \in [Terminals -> Texts(spent.outputs)]

IInv ==
    /\ Typed
    /\ Accounted(manager) /\ (disposed \/ LiveMapped(manager)) /\ Queued(manager)
    /\ CallsSound(manager)
    /\ TranscriptsSound(manager)

--------------------
(* The terminals: the operators on the manager.                             *)
Sound(m, n) ==
    m \in Managers(n) /\ Accounted(m) /\ (disposed \/ LiveMapped(m)) /\ Queued(m)

\* What stopping and eviction leave alone: the terminals of the sessions and
\* the writes, and of what is not evicted the map and the queue.
Spares(m, new) ==
    /\ DOMAIN new.objects = DOMAIN m.objects
    /\ \A s \in DOMAIN m.objects :
          /\ new.objects[s].terminal = m.objects[s].terminal
          /\ new.objects[s].process \in {0, m.objects[s].process}
    /\ new.sessions \subseteq m.sessions /\ m.sessions \subseteq new.sessions \cup new.evicted
    /\ m.evicted \subseteq new.evicted /\ new.writes = m.writes
    /\ \A t \in Terminals :
          ~Evicted(new, t) => new.pending[t] = m.pending[t] /\ new.tail[t] = m.tail[t]

(* What is spared in two steps is spared in both.                           *)
LEMMA SparesTwice ==
  ASSUME NEW m, NEW mid, NEW new, MapSound(mid), Spares(m, mid), Spares(mid, new)
  PROVE Spares(m, new)
<1>1. \A t \in Terminals : ~Evicted(new, t) => ~Evicted(mid, t)
 <2> SUFFICES ASSUME NEW t \in Terminals, NEW s \in mid.evicted, mid.objects[s].terminal = t
     PROVE  Evicted(new, t)
  BY DEF Evicted
 <2> QED BY DEF MapSound, Spares, Evicted
<1> QED BY <1>1 DEF Spares

(* A session is only touched: its place in the order changes.               *)
LEMMA TouchFields ==
  ASSUME NEW n \in Nat, NEW m \in Managers(n), NEW s \in Nat
  PROVE /\ Touch(m, s) \in Managers(n)
        /\ Touch(m, s).objects = m.objects /\ Touch(m, s).sessions = m.sessions
        /\ Touch(m, s).timers = m.timers /\ Touch(m, s).pending = m.pending
        /\ Touch(m, s).tail = m.tail /\ Touch(m, s).writes = m.writes
        /\ Touch(m, s).escalating = m.escalating /\ Touch(m, s).evicted = m.evicted
        /\ Touch(m, s).processes = m.processes
<1>1. CASE s \notin m.sessions BY <1>1 DEF Touch
<1>2. CASE s \in m.sessions
 <2> DEFINE older == {pair \in m.older : s \notin {pair[1], pair[2]}}
                     \cup (m.sessions \ {s}) \X {s}
 <2>1. older \in SUBSET (Nat \X Nat) BY <1>2 DEF Managers
 <2>2. Touch(m, s) = [m EXCEPT !.older = older] BY <1>2 DEF Touch
 <2> HIDE DEF older
 <2> QED BY <2>1, <2>2 DEF Managers
<1> QED BY <1>1, <1>2

(* What is taken out of the map.                                            *)
LEMMA RemoveFields ==
  ASSUME NEW n \in Nat, NEW m \in Managers(n), NEW gone
  PROVE /\ Remove(m, gone) \in Managers(n)
        /\ Remove(m, gone).objects = m.objects /\ Remove(m, gone).sessions = m.sessions \ gone
        /\ Remove(m, gone).timers = m.timers /\ Remove(m, gone).pending = m.pending
        /\ Remove(m, gone).tail = m.tail /\ Remove(m, gone).writes = m.writes
        /\ Remove(m, gone).escalating = m.escalating /\ Remove(m, gone).evicted = m.evicted
        /\ Remove(m, gone).processes = m.processes
<1> DEFINE older == {pair \in m.older : pair[1] \notin gone /\ pair[2] \notin gone}
<1>1. older \in SUBSET (Nat \X Nat) /\ m.sessions \ gone \in SUBSET Nat BY DEF Managers
<1>2. Remove(m, gone) = [m EXCEPT !.sessions = m.sessions \ gone, !.older = older] BY DEF Remove
<1> HIDE DEF older
<1> QED BY <1>1, <1>2 DEF Managers

(* The sessions that are evicted are in the map and do not run.             *)
LEMMA OverdueIdle ==
  ASSUME NEW m, NEW s \in Overdue(m) PROVE s \in m.sessions /\ m.objects[s].status # "running"
BY DEF Overdue

(* Eviction, field by field.                                                *)
LEMMA EvictFields ==
  ASSUME NEW n \in Nat, NEW m \in Managers(n), MapSound(m)
  PROVE LET new == Evict(m)
            keys == {m.objects[s].terminal : s \in Overdue(m)}
        IN  /\ new \in Managers(n)
            /\ new.objects = m.objects /\ new.sessions = m.sessions \ Overdue(m)
            /\ new.pending = [t \in Terminals |-> IF t \in keys THEN None ELSE m.pending[t]]
            /\ new.tail = [t \in Terminals |-> IF t \in keys THEN 0 ELSE m.tail[t]]
            /\ new.writes = m.writes
            /\ new.escalating = m.escalating \ {m.objects[s].process : s \in Overdue(m)}
            /\ new.evicted = m.evicted \cup Overdue(m) /\ new.processes = m.processes
<1> DEFINE evicted == Overdue(m)
           keys == {m.objects[s].terminal : s \in evicted}
           removed == Remove(m, evicted)
           pending == [t \in Terminals |-> IF t \in keys THEN None ELSE m.pending[t]]
           tail == [t \in Terminals |-> IF t \in keys THEN 0 ELSE m.tail[t]]
           timed == m.escalating \ {m.objects[s].process : s \in evicted}
<1>1. /\ removed \in Managers(n)
      /\ removed.objects = m.objects /\ removed.sessions = m.sessions \ evicted
      /\ removed.timers = m.timers /\ removed.pending = m.pending
      /\ removed.tail = m.tail /\ removed.writes = m.writes
      /\ removed.escalating = m.escalating /\ removed.evicted = m.evicted
      /\ removed.processes = m.processes
 BY RemoveFields
<1>2. Evict(m) = [removed EXCEPT !.timers = removed.timers \ keys,
                                 !.pending = [t \in Terminals |->
                                                IF t \in keys THEN None ELSE removed.pending[t]],
                                 !.tail = [t \in Terminals |->
                                             IF t \in keys THEN 0 ELSE removed.tail[t]],
                                 !.escalating =
                                    removed.escalating \ {m.objects[s].process : s \in evicted},
                                 !.evicted = removed.evicted \cup evicted]
 BY DEF Evict
<1>3. evicted \subseteq Nat BY OverdueIdle DEF Managers
<1>4. /\ pending \in [Terminals -> Texts(n)] /\ tail \in [Terminals -> Nat]
      /\ timed \in SUBSET Nat /\ m.timers \ keys \in SUBSET Terminals
      /\ m.evicted \cup evicted \in SUBSET Nat
 BY <1>3 DEF Managers, Texts
<1>5. Evict(m) = [removed EXCEPT !.timers = m.timers \ keys, !.pending = pending, !.tail = tail,
                                 !.escalating = timed, !.evicted = m.evicted \cup evicted]
 BY <1>1, <1>2
<1> HIDE DEF pending, tail, timed, keys, removed, evicted
<1>6. /\ Evict(m) \in Managers(n)
      /\ Evict(m).objects = m.objects /\ Evict(m).sessions = m.sessions \ evicted
      /\ Evict(m).pending = pending /\ Evict(m).tail = tail /\ Evict(m).writes = m.writes
      /\ Evict(m).escalating = timed /\ Evict(m).evicted = m.evicted \cup evicted
      /\ Evict(m).processes = m.processes
 <2>1. \A x \in Managers(n) :
         LET new == [x EXCEPT !.timers = m.timers \ keys, !.pending = pending, !.tail = tail,
                              !.escalating = timed, !.evicted = m.evicted \cup evicted]
         IN  /\ new \in Managers(n)
             /\ new.objects = x.objects /\ new.sessions = x.sessions
             /\ new.pending = pending /\ new.tail = tail /\ new.writes = x.writes
             /\ new.escalating = timed /\ new.evicted = m.evicted \cup evicted
             /\ new.processes = x.processes
  BY <1>4 DEF Managers
 <2> QED BY ZenonT(30), <1>1, <1>5, <2>1
<1> QED BY <1>6 DEF pending, tail, timed, keys, evicted

(* Touching keeps a sound manager sound, and spares everything.             *)
LEMMA TouchSound ==
  ASSUME NEW n \in Nat, NEW m, Sound(m, n), NEW s \in Nat
  PROVE Sound(Touch(m, s), n) /\ Spares(m, Touch(m, s))
<1>1. /\ Touch(m, s) \in Managers(n)
      /\ Touch(m, s).objects = m.objects /\ Touch(m, s).sessions = m.sessions
      /\ Touch(m, s).timers = m.timers /\ Touch(m, s).pending = m.pending
      /\ Touch(m, s).tail = m.tail /\ Touch(m, s).writes = m.writes
      /\ Touch(m, s).escalating = m.escalating /\ Touch(m, s).evicted = m.evicted
      /\ Touch(m, s).processes = m.processes
 BY TouchFields DEF Sound
<1> DEFINE new == Touch(m, s)
<1> HIDE DEF new
<1>2. Accounted(new) BY <1>1 DEF new, Sound, Accounted, MapSound, ObjectsSound, ProcessesSound
<1>3. disposed \/ LiveMapped(new) BY <1>1 DEF new, Sound, LiveMapped
<1>4. Queued(new) BY <1>1 DEF new, Sound, Queued
<1>5. Spares(m, new) BY <1>1 DEF new, Spares, Evicted
<1> QED BY <1>1, <1>2, <1>3, <1>4, <1>5 DEF Sound, new

(* So does eviction, which takes no session that runs.                      *)
LEMMA EvictSound ==
  ASSUME NEW n \in Nat, NEW m, Sound(m, n) PROVE Sound(Evict(m), n) /\ Spares(m, Evict(m))
<1> DEFINE new == Evict(m)
           evicted == Overdue(m)
           keys == {m.objects[s].terminal : s \in evicted}
<1>1. /\ new \in Managers(n)
      /\ new.objects = m.objects /\ new.sessions = m.sessions \ evicted
      /\ new.pending = [t \in Terminals |-> IF t \in keys THEN None ELSE m.pending[t]]
      /\ new.tail = [t \in Terminals |-> IF t \in keys THEN 0 ELSE m.tail[t]]
      /\ new.writes = m.writes
      /\ new.escalating = m.escalating \ {m.objects[s].process : s \in evicted}
      /\ new.evicted = m.evicted \cup evicted /\ new.processes = m.processes
 BY EvictFields DEF Sound, Accounted
<1>2. \A s \in evicted : s \in m.sessions /\ s \in DOMAIN m.objects /\ m.objects[s].process = 0
 BY OverdueIdle DEF Sound, Accounted, MapSound, ObjectsSound
<1> HIDE DEF new, evicted
<1>3. MapSound(new) BY <1>1, <1>2 DEF Sound, Accounted, MapSound
<1>4. ObjectsSound(new) /\ ProcessesSound(new)
 BY <1>1 DEF Sound, Accounted, ObjectsSound, ProcessesSound
<1>5. disposed \/ LiveMapped(new)
 <2>1. \A p \in DOMAIN m.processes : p # 0 BY DEF Sound, Managers
 <2>2. \A p \in DOMAIN m.processes : p \in m.escalating => p \in new.escalating
  BY <1>1, <1>2, <2>1
 <2> QED BY <1>1, <1>2, <2>2 DEF Sound, LiveMapped
<1>6. Queued(new)
 <2>1. \A t \in Terminals : new.tail[t] # 0 => new.tail[t] = m.tail[t] BY <1>1
 <2> QED BY <1>1, <2>1 DEF Sound, Queued
<1>7. Spares(m, new)
 <2>1. \A t \in Terminals : t \in keys => Evicted(new, t) BY <1>1 DEF Evicted
 <2>2. \A t \in Terminals :
         ~Evicted(new, t) => new.pending[t] = m.pending[t] /\ new.tail[t] = m.tail[t]
  BY <1>1, <2>1
 <2> QED BY <1>1, <2>2 DEF Spares
<1> QED BY <1>1, <1>3, <1>4, <1>5, <1>6, <1>7 DEF Sound, Accounted, new

(* What a session is known to be.                                           *)
LEMMA SessionTyped ==
  ASSUME NEW n \in Nat, NEW m \in Managers(n), NEW s \in DOMAIN m.objects
  PROVE m.objects[s] \in SessionStates(n) /\ s \in Nat /\ s # 0
BY DEF Managers

(* A session that loses its process.                                        *)
LEMMA StateHalted ==
  ASSUME NEW n \in Nat, NEW object \in SessionStates(n)
  PROVE LET state == [object EXCEPT !.process = 0, !.subprocess = 0, !.status = "exited"]
        IN  /\ state \in SessionStates(n) /\ state.process = 0 /\ state.subprocess = 0
            /\ state.status = "exited" /\ state.terminal = object.terminal
BY DEF SessionStates

(* One session changes, and no other.                                       *)
LEMMA OneSessionChanges ==
  ASSUME NEW n \in Nat, NEW objects \in Seq(SessionStates(n)), NEW s \in DOMAIN objects,
    NEW state \in SessionStates(n)
  PROVE LET changed == [objects EXCEPT ![s] = state]
        IN  /\ changed \in Seq(SessionStates(n)) /\ DOMAIN changed = DOMAIN objects
            /\ \A x \in DOMAIN objects : changed[x] = IF x = s THEN state ELSE objects[x]
OBVIOUS

(* One process changes, and no other.                                       *)
LEMMA OneProcessChanges ==
  ASSUME NEW processes \in Seq(ProcessStates), NEW p \in DOMAIN processes,
    NEW state \in ProcessStates
  PROVE LET changed == [processes EXCEPT ![p] = state]
        IN  /\ changed \in Seq(ProcessStates) /\ DOMAIN changed = DOMAIN processes
            /\ \A x \in DOMAIN processes : changed[x] = IF x = p THEN state ELSE processes[x]
OBVIOUS

(* A session that loses its process, stopped or gone, leaves a sound        *)
(* manager and spares everything.                                           *)
LEMMA HaltedSound ==
  ASSUME NEW n \in Nat, NEW m, Sound(m, n), NEW s \in DOMAIN m.objects,
    m.objects[s].process # 0, NEW new \in Managers(n),
    NEW state \in {"signalled", "missed", "gone"},
    DOMAIN new.objects = DOMAIN m.objects,
    \A x \in DOMAIN m.objects : x # s => new.objects[x] = m.objects[x],
    new.objects[s].terminal = m.objects[s].terminal, new.objects[s].status # "running",
    new.objects[s].process = 0, new.objects[s].subprocess = 0,
    DOMAIN new.processes = DOMAIN m.processes,
    \A p \in DOMAIN m.processes :
       new.processes[p] = IF p = m.objects[s].process THEN state ELSE m.processes[p],
    m.escalating \ {m.objects[s].process} \subseteq new.escalating,
    new.escalating \subseteq m.escalating \cup {m.objects[s].process},
    state = "signalled" => m.objects[s].process \in new.escalating,
    state # "signalled" => m.objects[s].process \notin new.escalating,
    new.sessions = m.sessions, new.evicted = m.evicted, new.writes = m.writes,
    new.pending = m.pending, new.tail = m.tail
  PROVE Sound(new, n) /\ Spares(m, new)
<1>1. MapSound(new) BY DEF Sound, Accounted, MapSound
<1>2. ObjectsSound(new)
 <2> SUFFICES ASSUME NEW x \in DOMAIN m.objects
     PROVE  /\ new.objects[x].status = "running" <=> new.objects[x].process # 0
            /\ new.objects[x].process # 0 =>
                  /\ new.objects[x].process \in DOMAIN new.processes
                  /\ new.processes[new.objects[x].process] = "live"
            /\ new.objects[x].subprocess \in {0, new.objects[x].process}
            /\ \A y \in DOMAIN m.objects :
                  new.objects[x].process = new.objects[y].process =>
                      x = y \/ new.objects[x].process = 0
  BY DEF ObjectsSound
 <2>1. CASE x = s BY <2>1
 <2>2. CASE x # s BY <2>2 DEF Sound, Accounted, ObjectsSound
 <2> QED BY <2>1, <2>2
<1>3. ProcessesSound(new) BY DEF Sound, Accounted, ObjectsSound, ProcessesSound
<1>4. disposed \/ LiveMapped(new)
 <2>1. \A p \in DOMAIN m.processes : new.processes[p] = "signalled" =>
         p \in new.escalating \/ (m.processes[p] = "signalled" /\ p \notin m.escalating)
  OBVIOUS
 <2>2. \A x \in DOMAIN m.objects \ m.evicted : new.objects[x].process # 0 =>
         x # s /\ new.objects[x] = m.objects[x]
  OBVIOUS
 <2> QED BY <2>1, <2>2 DEF Sound, LiveMapped
<1>5. Queued(new) BY DEF Sound, Queued
<1>6. Spares(m, new) BY DEF Spares
<1> QED BY <1>1, <1>2, <1>3, <1>4, <1>5, <1>6 DEF Sound, Accounted

(* Stopping a session that has no process does nothing; one that has it     *)
(* loses it, and what is evicted then is all that is not spared.            *)
LEMMA StopSound ==
  ASSUME NEW n \in Nat, NEW m, Sound(m, n), NEW s \in DOMAIN m.objects
  PROVE Sound(Stop(m, s), n) /\ Spares(m, Stop(m, s)) /\ Stop(m, s).objects[s].process = 0
<1>1. m \in Managers(n) BY DEF Sound
<1>2. CASE m.objects[s].process = 0
 <2>1. Spares(m, m) BY DEF Spares
 <2> QED BY <1>2, <2>1 DEF Stop
<1>3. CASE m.objects[s].process # 0
 <2> DEFINE p == m.objects[s].process
            state == [m.objects[s] EXCEPT !.process = 0, !.subprocess = 0, !.status = "exited"]
            objects == [m.objects EXCEPT ![s] = state]
            answer == Signalled(m, p)
            timer == {p} \ m.deaf
            processes == [m.processes EXCEPT ![p] = answer]
            timed == (m.escalating \ {p}) \cup timer
            halted == [m EXCEPT !.objects = objects, !.processes = processes,
                                !.escalating = timed]
 <2>0. /\ answer \in {"signalled", "missed", "gone"} /\ answer \in ProcessStates
       /\ timer \subseteq {p} /\ (answer = "signalled" <=> p \in timer)
  BY DEF Signalled, ProcessStates
 <2>1. p \in DOMAIN m.processes /\ p \in Nat /\ s \in Nat
  BY <1>1, <1>3 DEF Sound, Accounted, ObjectsSound, Managers
 <2>2. /\ state \in SessionStates(n) /\ state.process = 0 /\ state.subprocess = 0
       /\ state.status = "exited" /\ state.terminal = m.objects[s].terminal
  BY <1>1, SessionTyped, StateHalted
 <2>3. Stop(m, s) = Evict(Touch(halted, s)) BY ZenonT(30), <1>1, <1>3 DEF Stop, Managers
 <2>4. /\ objects \in Seq(SessionStates(n)) /\ DOMAIN objects = DOMAIN m.objects
       /\ \A x \in DOMAIN m.objects : objects[x] = IF x = s THEN state ELSE m.objects[x]
  BY <1>1, <2>2, OneSessionChanges DEF Managers
 <2>5. /\ processes \in Seq(ProcessStates) /\ DOMAIN processes = DOMAIN m.processes
       /\ \A x \in DOMAIN m.processes :
             processes[x] = IF x = p THEN answer ELSE m.processes[x]
  BY <1>1, <2>0, <2>1, OneProcessChanges DEF Managers
 <2>12. timed \in SUBSET Nat BY <1>1, <2>0, <2>1 DEF Managers
 <2>13. /\ m.escalating \ {p} \subseteq timed /\ timed \subseteq m.escalating \cup {p}
        /\ answer = "signalled" <=> p \in timed
  BY <2>0
 <2> HIDE DEF state, objects, processes, answer, timed
 <2>6. /\ halted \in Managers(n) /\ halted.objects = objects /\ halted.processes = processes
       /\ halted.escalating = timed /\ halted.sessions = m.sessions
       /\ halted.evicted = m.evicted /\ halted.writes = m.writes
       /\ halted.pending = m.pending /\ halted.tail = m.tail
  BY <1>1, <2>1, <2>4, <2>5, <2>12 DEF Managers
 <2> HIDE DEF halted
 <2>7. Sound(halted, n) /\ Spares(m, halted)
  BY SMTT(30), <1>3, <2>0, <2>13, <2>2, <2>4, <2>5, <2>6, HaltedSound
 <2>8. Sound(Touch(halted, s), n) /\ Spares(halted, Touch(halted, s)) BY <2>1, <2>7, TouchSound
 <2>9. Sound(Stop(m, s), n) /\ Spares(Touch(halted, s), Stop(m, s)) BY <2>3, <2>8, EvictSound
 <2>10. Spares(m, Stop(m, s)) /\ Spares(halted, Stop(m, s))
  BY <2>7, <2>8, <2>9, SparesTwice DEF Sound, Accounted
 <2>11. halted.objects[s].process = 0 /\ s \in DOMAIN halted.objects BY <2>2, <2>4, <2>6
 <2> QED BY <2>9, <2>10, <2>11 DEF Spares
<1> QED BY <1>2, <1>3

(* A session may change but for its terminal and its process.               *)
LEMMA UpdateSound ==
  ASSUME NEW n \in Nat, NEW m, Sound(m, n), NEW s \in DOMAIN m.objects,
    NEW state \in SessionStates(n), state.terminal = m.objects[s].terminal,
    state.process = m.objects[s].process,
    state.status = "running" <=> m.objects[s].status = "running",
    state.subprocess \in {0, state.process}
  PROVE LET new == [m EXCEPT !.objects = [m.objects EXCEPT ![s] = state]]
        IN  /\ Sound(new, n) /\ Spares(m, new)
            /\ new.sessions = m.sessions /\ new.evicted = m.evicted
            /\ new.writes = m.writes /\ new.pending = m.pending /\ new.tail = m.tail
<1> DEFINE objects == [m.objects EXCEPT ![s] = state]
           new == [m EXCEPT !.objects = objects]
<1>1. m \in Managers(n) BY DEF Sound
<1>2. /\ objects \in Seq(SessionStates(n)) /\ DOMAIN objects = DOMAIN m.objects
      /\ \A x \in DOMAIN m.objects : objects[x] = IF x = s THEN state ELSE m.objects[x]
 BY <1>1, OneSessionChanges DEF Managers
<1> HIDE DEF objects
<1>3. /\ new \in Managers(n) /\ new.objects = objects
      /\ new.processes = m.processes /\ new.escalating = m.escalating
      /\ new.sessions = m.sessions /\ new.evicted = m.evicted
      /\ new.writes = m.writes /\ new.pending = m.pending /\ new.tail = m.tail
 BY <1>1, <1>2 DEF Managers
<1> HIDE DEF new
<1>4. MapSound(new) BY <1>2, <1>3 DEF Sound, Accounted, MapSound
<1>5. ObjectsSound(new) BY <1>2, <1>3 DEF Sound, Accounted, ObjectsSound
<1>6. ProcessesSound(new) BY <1>2, <1>3 DEF Sound, Accounted, ProcessesSound
<1>7. disposed \/ LiveMapped(new) BY <1>2, <1>3 DEF Sound, LiveMapped
<1>8. Queued(new) BY <1>3 DEF Sound, Queued
<1>9. Spares(m, new) BY <1>2, <1>3 DEF Spares
<1> QED BY <1>3, <1>4, <1>5, <1>6, <1>7, <1>8, <1>9 DEF Sound, Accounted, new, objects

(* A session starts when it is stopped, and is not evicted after.           *)
LEMMA StartSound ==
  ASSUME NEW n \in Nat, NEW m, Sound(m, n), NEW s \in DOMAIN m.objects
  PROVE Sound(Start(m, s), n) /\ Spares(m, Start(m, s)) /\ Start(m, s).objects[s].process = 0
<1> DEFINE stopped == Stop(m, s)
           state == [stopped.objects[s] EXCEPT !.status = "starting", !.subprocess = 0]
           starting == [stopped EXCEPT !.objects = [stopped.objects EXCEPT ![s] = state]]
<1>1. /\ Sound(stopped, n) /\ Spares(m, stopped) /\ stopped.objects[s].process = 0
      /\ stopped \in Managers(n) /\ s \in DOMAIN stopped.objects
 BY StopSound DEF Sound, Spares
<1> HIDE DEF stopped
<1>2. stopped.objects[s] \in SessionStates(n) /\ s \in Nat BY <1>1, SessionTyped
<1>3. /\ state \in SessionStates(n) /\ state.process = 0 /\ state.subprocess = 0
      /\ state.status = "starting" /\ state.terminal = stopped.objects[s].terminal
 BY <1>1, <1>2 DEF SessionStates
<1>4. stopped.objects[s].status # "running" BY <1>1 DEF Sound, Accounted, ObjectsSound
<1>5. Start(m, s) = Touch(starting, s) BY <1>1 DEF Start, stopped, Managers
<1> HIDE DEF state
<1>6. Sound(starting, n) /\ Spares(stopped, starting) BY <1>1, <1>3, <1>4, UpdateSound
<1> HIDE DEF starting
<1>7. Sound(Start(m, s), n) /\ Spares(starting, Start(m, s)) BY <1>2, <1>5, <1>6, TouchSound
<1>8. Spares(m, Start(m, s)) /\ Spares(stopped, Start(m, s))
 BY <1>1, <1>6, <1>7, SparesTwice DEF Sound, Accounted
<1>9. Start(m, s).objects[s].process = 0 BY <1>1, <1>8 DEF Spares
<1> QED BY <1>7, <1>8, <1>9

--------------------
(* The terminals: the sessions that come and go.                            *)
\* What a step of a terminal leaves alone of the others: their sessions in
\* the map or evicted, their processes or none, their queues.
Continues(m, new, t) ==
    /\ DOMAIN m.objects \subseteq DOMAIN new.objects
    /\ \A s \in DOMAIN m.objects :
          /\ new.objects[s].terminal = m.objects[s].terminal
          /\ m.objects[s].terminal # t => new.objects[s].process \in {0, m.objects[s].process}
    /\ \A s \in new.sessions : new.objects[s].terminal # t => s \in m.sessions
    /\ \A s \in m.sessions : m.objects[s].terminal # t => s \in new.sessions \cup new.evicted
    /\ m.evicted \subseteq new.evicted /\ new.writes = m.writes
    /\ \A u \in Terminals :
          ~Evicted(new, u) => new.pending[u] = m.pending[u] /\ new.tail[u] = m.tail[u]

LEMMA SparesContinues ==
  ASSUME NEW m, NEW new, NEW t, Spares(m, new) PROVE Continues(m, new, t)
BY DEF Spares, Continues

LEMMA ContinuesThenSpares ==
  ASSUME NEW m, NEW mid, NEW new, NEW t, MapSound(m), MapSound(mid), Continues(m, mid, t),
    Spares(mid, new)
  PROVE Continues(m, new, t)
<1>1. \A u \in Terminals : ~Evicted(new, u) => ~Evicted(mid, u)
 <2> SUFFICES ASSUME NEW u \in Terminals, NEW s \in mid.evicted, mid.objects[s].terminal = u
     PROVE  Evicted(new, u)
  BY DEF Evicted
 <2> QED BY DEF MapSound, Spares, Evicted
<1>2. \A u \in Terminals :
        ~Evicted(new, u) => new.pending[u] = m.pending[u] /\ new.tail[u] = m.tail[u]
 BY <1>1 DEF Continues, Spares
<1>3. /\ DOMAIN m.objects \subseteq DOMAIN new.objects
      /\ \A s \in DOMAIN m.objects :
            /\ new.objects[s].terminal = m.objects[s].terminal
            /\ m.objects[s].terminal # t => new.objects[s].process \in {0, m.objects[s].process}
 BY DEF Continues, Spares
<1>4. /\ \A s \in new.sessions : new.objects[s].terminal # t => s \in m.sessions
      /\ \A s \in m.sessions : m.objects[s].terminal # t => s \in new.sessions \cup new.evicted
      /\ m.evicted \subseteq new.evicted /\ new.writes = m.writes
 BY DEF Continues, Spares, MapSound
<1> QED BY <1>2, <1>3, <1>4 DEF Continues

(* A new session is the last of the objects.                                *)
LEMMA SessionAdded ==
  ASSUME NEW n \in Nat, NEW objects \in Seq(SessionStates(n)), NEW state \in SessionStates(n)
  PROVE LET added == Append(objects, state)
            s == Len(objects) + 1
        IN  /\ added \in Seq(SessionStates(n)) /\ s \notin DOMAIN objects /\ s \in Nat
            /\ DOMAIN added = DOMAIN objects \cup {s} /\ added[s] = state
            /\ \A x \in DOMAIN objects : added[x] = objects[x]
OBVIOUS

(* A session is made for a terminal that has none in the map.               *)
LEMMA CreateSound ==
  ASSUME NEW n \in Nat, NEW m, Sound(m, n), NEW t \in Terminals, Session(m, t) = {},
    NEW history \in 0..n
  PROVE LET new == Create(m, t, history)
            s == Len(m.objects) + 1
        IN  /\ Sound(new, n) /\ Continues(m, new, t)
            /\ s \in DOMAIN new.objects /\ new.objects[s].terminal = t
            /\ s \in new.sessions \cup new.evicted
<1> DEFINE s == Len(m.objects) + 1
           state == [terminal |-> t, status |-> "starting", history |-> history, process |-> 0,
                     subprocess |-> 0]
           objects == Append(m.objects, state)
           created == [m EXCEPT !.objects = objects, !.sessions = m.sessions \cup {s}]
<1>1. m \in Managers(n) /\ m.objects \in Seq(SessionStates(n)) BY DEF Sound, Managers
<1>2. /\ state \in SessionStates(n) /\ state.terminal = t /\ state.status = "starting"
      /\ state.process = 0 /\ state.subprocess = 0
 BY DEF SessionStates
<1>3. Create(m, t, history) = Evict(Touch(created, s)) BY DEF Create
<1> HIDE DEF state
<1>4. /\ objects \in Seq(SessionStates(n)) /\ s \notin DOMAIN m.objects /\ s \in Nat
      /\ DOMAIN objects = DOMAIN m.objects \cup {s} /\ objects[s] = state
      /\ \A x \in DOMAIN m.objects : objects[x] = m.objects[x]
 BY <1>1, <1>2, SessionAdded
<1> HIDE DEF s, objects
<1>5. /\ created \in Managers(n) /\ created.objects = objects
      /\ created.sessions = m.sessions \cup {s} /\ created.processes = m.processes
      /\ created.escalating = m.escalating /\ created.evicted = m.evicted
      /\ created.writes = m.writes /\ created.pending = m.pending /\ created.tail = m.tail
 BY <1>1, <1>4 DEF Managers
<1> HIDE DEF created
<1>6. MapSound(created)
 <2>1. \A x \in m.sessions : x \in DOMAIN m.objects /\ m.objects[x].terminal # t
  BY DEF Sound, Accounted, MapSound, Session
 <2> QED BY <1>2, <1>4, <1>5, <2>1 DEF Sound, Accounted, MapSound
<1>7. ObjectsSound(created)
 <2>1. \A x \in DOMAIN objects : x = s \/ x \in DOMAIN m.objects BY <1>4
 <2> QED BY <1>2, <1>4, <1>5, <2>1 DEF Sound, Accounted, ObjectsSound
<1>8. ProcessesSound(created) BY <1>4, <1>5 DEF Sound, Accounted, ProcessesSound
<1>9. disposed \/ LiveMapped(created) BY <1>2, <1>4, <1>5 DEF Sound, LiveMapped
<1>10. Queued(created) BY <1>5 DEF Sound, Queued
<1>11. Sound(created, n) BY <1>5, <1>6, <1>7, <1>8, <1>9, <1>10 DEF Sound, Accounted
<1>12. Continues(m, created, t) BY <1>2, <1>4, <1>5 DEF Continues, Sound, Accounted, MapSound
<1>13. Sound(Touch(created, s), n) /\ Spares(created, Touch(created, s))
 BY <1>4, <1>11, TouchSound
<1>14. /\ Sound(Create(m, t, history), n)
       /\ Spares(created, Create(m, t, history))
 BY <1>3, <1>13, EvictSound, SparesTwice DEF Sound, Accounted
<1>15. Continues(m, Create(m, t, history), t)
 BY <1>11, <1>12, <1>14, ContinuesThenSpares DEF Sound, Accounted
<1>16. /\ s \in DOMAIN Create(m, t, history).objects
       /\ Create(m, t, history).objects[s].terminal = t
       /\ s \in Create(m, t, history).sessions \cup Create(m, t, history).evicted
 BY <1>2, <1>4, <1>5, <1>14 DEF Spares
<1> QED BY <1>14, <1>15, <1>16 DEF s

(* A session is stopped and taken out of the map.                           *)
LEMMA DiscardSound ==
  ASSUME NEW n \in Nat, NEW m, Sound(m, n), NEW s \in DOMAIN m.objects
  PROVE LET new == Discard(m, s)
        IN  /\ Sound(new, n) /\ Continues(m, new, m.objects[s].terminal)
            /\ s \notin new.sessions /\ new.sessions \subseteq m.sessions
<1> DEFINE stopped == Stop(m, s)
           new == Remove(stopped, {s})
           t == m.objects[s].terminal
<1>1. /\ Sound(stopped, n) /\ Spares(m, stopped) /\ stopped.objects[s].process = 0
      /\ stopped \in Managers(n)
 BY StopSound DEF Sound
<1> HIDE DEF stopped
<1>2. /\ new \in Managers(n)
      /\ new.objects = stopped.objects /\ new.sessions = stopped.sessions \ {s}
      /\ new.pending = stopped.pending /\ new.tail = stopped.tail
      /\ new.writes = stopped.writes /\ new.escalating = stopped.escalating
      /\ new.evicted = stopped.evicted /\ new.processes = stopped.processes
 BY <1>1, RemoveFields
<1> HIDE DEF new
<1>3. Accounted(new)
 <2>1. MapSound(new) BY <1>1, <1>2 DEF Sound, Accounted, MapSound
 <2>2. ObjectsSound(new) /\ ProcessesSound(new)
  BY <1>1, <1>2 DEF Sound, Accounted, ObjectsSound, ProcessesSound
 <2> QED BY <2>1, <2>2 DEF Accounted
<1>4. disposed \/ LiveMapped(new) BY <1>1, <1>2 DEF Sound, LiveMapped
<1>5. Queued(new) BY <1>1, <1>2 DEF Sound, Queued
<1>6. Continues(m, stopped, t) BY <1>1, SparesContinues
<1>7. Continues(m, new, t)
 <2>1. \A u \in Terminals :
         ~Evicted(new, u) => new.pending[u] = m.pending[u] /\ new.tail[u] = m.tail[u]
  BY <1>2, <1>6 DEF Continues, Evicted
 <2> QED BY <1>2, <1>6, <2>1 DEF Continues, Sound, Accounted, MapSound
<1>8. s \notin new.sessions /\ new.sessions \subseteq m.sessions BY <1>1, <1>2 DEF Spares
<1> QED BY <1>2, <1>3, <1>4, <1>5, <1>7, <1>8 DEF Sound, Accounted, Discard, new, stopped

\* A process is spawned for a session, perhaps one that cannot be signalled.
Equipped(m, s, deaf) ==
    Touch([m EXCEPT !.processes = Append(@, "live"), !.deaf = @ \cup deaf,
                    !.objects[s].process = Len(m.processes) + 1,
                    !.objects[s].status = "running"], s)

(* A process is started for a session that has none, in the map or evicted  *)
(* from it.                                                                 *)
LEMMA SpawnSound ==
  ASSUME NEW n \in Nat, NEW m, Sound(m, n), NEW s \in DOMAIN m.objects,
    m.objects[s].process = 0, disposed \/ s \in m.sessions \cup m.evicted,
    NEW deaf \in SUBSET {Len(m.processes) + 1}
  PROVE LET new == Equipped(m, s, deaf)
        IN  /\ Sound(new, n) /\ Continues(m, new, m.objects[s].terminal)
            /\ new.sessions = m.sessions
<1> DEFINE process == Len(m.processes) + 1
           processes == Append(m.processes, "live")
           state == [m.objects[s] EXCEPT !.process = process, !.status = "running"]
           objects == [m.objects EXCEPT ![s] = state]
           deafer == m.deaf \cup deaf
           running == [m EXCEPT !.processes = processes, !.deaf = deafer, !.objects = objects]
           t == m.objects[s].terminal
<1>1. m \in Managers(n) /\ m.processes \in Seq(ProcessStates) BY DEF Sound, Managers
<1>2. m.objects[s] \in SessionStates(n) /\ s \in Nat BY <1>1, SessionTyped
<1>3. /\ processes \in Seq(ProcessStates) /\ process \notin DOMAIN m.processes
      /\ process \in Nat /\ process # 0 /\ DOMAIN processes = DOMAIN m.processes \cup {process}
      /\ processes[process] = "live"
      /\ \A p \in DOMAIN m.processes : processes[p] = m.processes[p]
 BY <1>1 DEF ProcessStates
<1>4. [m EXCEPT !.processes = Append(@, "live"), !.deaf = @ \cup deaf,
                !.objects[s].process = process, !.objects[s].status = "running"] = running
 BY <1>1 DEF Managers
<1>18. deafer \in SUBSET Nat BY <1>1, <1>3 DEF Managers
<1> HIDE DEF process, processes, deafer
<1>5. /\ state \in SessionStates(n) /\ state.process = process /\ state.status = "running"
      /\ state.terminal = t /\ state.subprocess = m.objects[s].subprocess
 BY <1>2, <1>3 DEF SessionStates
<1> HIDE DEF state
<1>6. /\ objects \in Seq(SessionStates(n)) /\ DOMAIN objects = DOMAIN m.objects
      /\ \A x \in DOMAIN m.objects : objects[x] = IF x = s THEN state ELSE m.objects[x]
 BY <1>1, <1>5, OneSessionChanges DEF Managers
<1> HIDE DEF objects
<1>7. /\ running \in Managers(n) /\ running.objects = objects
      /\ running.sessions = m.sessions /\ running.processes = processes
      /\ running.escalating = m.escalating /\ running.evicted = m.evicted
      /\ running.writes = m.writes /\ running.pending = m.pending /\ running.tail = m.tail
 BY <1>1, <1>3, <1>6, <1>18 DEF Managers
<1> HIDE DEF running
<1>8. MapSound(running) BY <1>5, <1>6, <1>7 DEF Sound, Accounted, MapSound
<1>9. ObjectsSound(running)
 <2> SUFFICES ASSUME NEW x \in DOMAIN m.objects
     PROVE  /\ objects[x].status = "running" <=> objects[x].process # 0
            /\ objects[x].process # 0 => /\ objects[x].process \in DOMAIN processes
                                         /\ processes[objects[x].process] = "live"
            /\ objects[x].subprocess \in {0, objects[x].process}
            /\ \A y \in DOMAIN m.objects :
                  objects[x].process = objects[y].process =>
                      x = y \/ objects[x].process = 0
  BY <1>6, <1>7 DEF ObjectsSound
 <2>1. \A y \in DOMAIN m.objects : m.objects[y].process # process
  BY <1>3 DEF Sound, Accounted, ObjectsSound
 <2>2. CASE x = s BY <1>3, <1>5, <1>6, <2>1, <2>2 DEF Sound, Accounted, ObjectsSound
 <2>3. CASE x # s BY <1>3, <1>5, <1>6, <2>1, <2>3 DEF Sound, Accounted, ObjectsSound
 <2> QED BY <2>2, <2>3
<1>10. ProcessesSound(running)
 <2>1. \A p \in DOMAIN m.processes : m.processes[p] = "live" =>
          \E x \in DOMAIN m.objects : x # s /\ m.objects[x].process = p
  BY <1>1 DEF Sound, Accounted, ProcessesSound, Managers
 <2>2. \A p \in DOMAIN processes :
          processes[p] = "live" => \E x \in DOMAIN objects : objects[x].process = p
  BY <1>3, <1>5, <1>6, <2>1
 <2> QED BY <1>3, <1>7, <2>2 DEF Sound, Accounted, ProcessesSound
<1>11. disposed \/ LiveMapped(running) BY <1>3, <1>6, <1>7 DEF Sound, LiveMapped
<1>12. Queued(running) BY <1>7 DEF Sound, Queued
<1>13. Sound(running, n) BY <1>7, <1>8, <1>9, <1>10, <1>11, <1>12 DEF Sound, Accounted
<1>14. Continues(m, running, t) BY <1>5, <1>6, <1>7 DEF Continues, Sound, Accounted, MapSound
<1>15. Sound(Touch(running, s), n) /\ Spares(running, Touch(running, s))
 BY <1>2, <1>13, TouchSound
<1>16. Continues(m, Touch(running, s), t)
 BY <1>13, <1>14, <1>15, ContinuesThenSpares DEF Sound, Accounted
<1>17. Touch(running, s).sessions = m.sessions BY <1>2, <1>7, TouchFields
<1> QED BY <1>4, <1>15, <1>16, <1>17 DEF process, Equipped

--------------------
(* The terminals: the queues of writes.                                     *)
(* There is an identity that no write under way has: there are more numbers *)
(* to choose from than writes.                                              *)
LEMMA NewWriteIsNew ==
  ASSUME NEW m, Queued(m)
  PROVE NewWrite(m) \in Nat /\ NewWrite(m) # 0 /\ \A w \in m.writes : w.id # NewWrite(m)
<1> DEFINE choice == 1..(Cardinality(m.writes) + 1)
<1>1. IsFiniteSet(m.writes) /\ Cardinality(m.writes) \in Nat BY FS_CardinalityType DEF Queued
<1>2. \E id \in choice : \A w \in m.writes : w.id # id
 <2> SUFFICES ASSUME \A id \in choice : \E w \in m.writes : w.id = id PROVE FALSE OBVIOUS
 <2> DEFINE g == [id \in choice |-> CHOOSE w \in m.writes : w.id = id]
 <2>1. \A id \in choice : g[id] \in m.writes /\ g[id].id = id OBVIOUS
 <2>2. g \in [choice -> m.writes] BY <2>1
 <2>3. IsFiniteSet(choice) /\ Cardinality(choice) = Cardinality(m.writes) + 1 BY <1>1, FS_Interval
 <2>4. Cardinality(choice) > Cardinality(m.writes) BY <1>1, <2>3
 <2> HIDE DEF g
 <2>5. \E i, j \in choice : i # j /\ g[i] = g[j] BY <1>1, <2>2, <2>3, <2>4, FS_PigeonHole
 <2> QED BY <2>1, <2>5
<1>3. NewWrite(m) \in choice /\ \A w \in m.writes : w.id # NewWrite(m) BY <1>2 DEF NewWrite
<1> QED BY <1>1, <1>3


(* A write is put into the queue, field by field.                           *)
LEMMA EnqueueFields ==
  ASSUME NEW n \in Nat, NEW m \in Managers(n), Queued(m), NEW t \in Terminals,
    NEW history \in 0..n
  PROVE LET new == Enqueue(m, t, history)
            write == [id |-> NewWrite(m), terminal |-> t, history |-> history,
                      after |-> m.tail[t]]
        IN  /\ new \in Managers(n)
            /\ new.writes = m.writes \cup {write}
            /\ new.tail = [m.tail EXCEPT ![t] = NewWrite(m)]
            /\ new.objects = m.objects /\ new.sessions = m.sessions
            /\ new.pending = m.pending /\ new.timers = m.timers
            /\ new.escalating = m.escalating /\ new.evicted = m.evicted
            /\ new.processes = m.processes
<1> DEFINE write == [id |-> NewWrite(m), terminal |-> t, history |-> history, after |-> m.tail[t]]
           writes == m.writes \cup {write}
           tail == [m.tail EXCEPT ![t] = NewWrite(m)]
<1>1. writes \in SUBSET PersistWrites(n) /\ tail \in [Terminals -> Nat]
 <2>1. m.tail[t] \in Nat /\ NewWrite(m) \in Nat BY NewWriteIsNew DEF Managers
 <2>2. write \in PersistWrites(n) BY <2>1 DEF PersistWrites
 <2> QED BY <2>1, <2>2 DEF Managers
<1>2. Enqueue(m, t, history) = [m EXCEPT !.writes = writes, !.tail = tail]
 BY DEF Enqueue, Managers
<1> HIDE DEF writes, tail
<1>3. LET new == [m EXCEPT !.writes = writes, !.tail = tail]
      IN  /\ new \in Managers(n)
          /\ new.writes = writes /\ new.tail = tail
          /\ new.objects = m.objects /\ new.sessions = m.sessions
          /\ new.pending = m.pending /\ new.timers = m.timers
          /\ new.escalating = m.escalating /\ new.evicted = m.evicted
          /\ new.processes = m.processes
 BY <1>1 DEF Managers
<1> QED BY <1>2, <1>3 DEF writes, tail

(* The accounting of sessions and processes is blind to the queues.         *)
LEMMA AccountedSame ==
  ASSUME NEW n \in Nat, NEW m, Sound(m, n), NEW new \in Managers(n), Queued(new),
    new.objects = m.objects, new.sessions = m.sessions,
    new.escalating = m.escalating, new.evicted = m.evicted,
    new.processes = m.processes
  PROVE Sound(new, n)
<1>1. Accounted(new) BY DEF Sound, Accounted, MapSound, ObjectsSound, ProcessesSound
<1>2. disposed \/ LiveMapped(new) BY DEF Sound, LiveMapped
<1> QED BY <1>1, <1>2 DEF Sound

(* A write that is put into a queue has its own identity, and waits for the *)
(* last of its terminal.                                                    *)
LEMMA EnqueueSound ==
  ASSUME NEW n \in Nat, NEW m, Sound(m, n), NEW t \in Terminals, NEW history \in 0..n
  PROVE Sound(Enqueue(m, t, history), n)
<1> DEFINE new == Enqueue(m, t, history)
           id == NewWrite(m)
           write == [id |-> id, terminal |-> t, history |-> history, after |-> m.tail[t]]
<1>1. m \in Managers(n) /\ Queued(m) BY DEF Sound
<1>2. /\ new \in Managers(n)
      /\ new.writes = m.writes \cup {write} /\ new.tail = [m.tail EXCEPT ![t] = id]
      /\ new.objects = m.objects /\ new.sessions = m.sessions
      /\ new.escalating = m.escalating /\ new.evicted = m.evicted
      /\ new.processes = m.processes
 BY <1>1, EnqueueFields
<1>3. id \in Nat /\ id # 0 /\ \A w \in m.writes : w.id # id BY <1>1, NewWriteIsNew
<1>4. write.id = id /\ write.terminal = t /\ write.after = m.tail[t] OBVIOUS
<1>5. \A u \in Terminals : new.tail[u] = IF u = t THEN id ELSE m.tail[u]
 BY <1>1, <1>2 DEF Managers
<1> HIDE DEF new, id, write
<1>6. Queued(new)
 <2>1. IsFiniteSet(new.writes) BY <1>1, <1>2, FS_AddElement DEF Queued
 <2>2. \A w \in new.writes : w.id # 0 BY <1>1, <1>2, <1>3, <1>4 DEF Queued
 <2>3. \A v, w \in new.writes : v.id = w.id => v = w BY <1>1, <1>2, <1>3, <1>4 DEF Queued
 <2>4. \A w \in new.writes : w.after # 0 =>
          \E v \in new.writes : v.id = w.after /\ v.terminal = w.terminal
  BY <1>1, <1>2, <1>4 DEF Queued
 <2>5. \A u \in Terminals : new.tail[u] # 0 =>
          \E w \in new.writes : w.id = new.tail[u] /\ w.terminal = u
  BY <1>1, <1>2, <1>4, <1>5 DEF Queued
 <2> QED BY <2>1, <2>2, <2>3, <2>4, <2>5 DEF Queued
<1> QED BY <1>2, <1>6, AccountedSame DEF new

(* The line of a terminal is that of its writes.                            *)
LEMMA LinedSame ==
  ASSUME NEW m, NEW new, NEW t, Lined(m, t), new.tail[t] = m.tail[t],
    \A w \in new.writes : w.terminal = t => w \in m.writes
  PROVE Lined(new, t)
<1>1. PICK n \in Nat, place \in [Nat -> Int] : InLine(m, t, n, place) BY DEF Lined
<1>2. InLine(new, t, n, place) BY <1>1 DEF InLine
<1> QED BY <1>2 DEF Lined

(* A write that is put into a queue comes last in line; it is the newest of *)
(* its terminal when nothing waits to be written.                           *)
LEMMA EnqueueKeeps ==
  ASSUME NEW n \in Nat, NEW m \in Managers(n), Queued(m), NEW t \in Terminals,
    NEW history \in 0..n
  PROVE LET new == Enqueue(m, t, history)
        IN  /\ \A u \in Terminals : Lined(m, u) => Lined(new, u)
            /\ \A file : m.pending[t] = None => Newest(new, t, history, file)
            /\ \A u \in Terminals : \A text, file :
                 u # t /\ Newest(m, u, text, file) => Newest(new, u, text, file)
<1> DEFINE new == Enqueue(m, t, history)
           id == NewWrite(m)
           write == [id |-> id, terminal |-> t, history |-> history, after |-> m.tail[t]]
<1>1. /\ new.writes = m.writes \cup {write} /\ new.tail = [m.tail EXCEPT ![t] = id]
      /\ new.pending = m.pending
 BY EnqueueFields
<1>2. id \in Nat /\ id # 0 /\ \A w \in m.writes : w.id # id BY NewWriteIsNew
<1>3. write.id = id /\ write.terminal = t /\ write.after = m.tail[t] /\ write.history = history
 OBVIOUS
<1>4. \A u \in Terminals : new.tail[u] = IF u = t THEN id ELSE m.tail[u] BY <1>1 DEF Managers
<1>5. \A w \in m.writes : w.id \in Nat BY DEF Managers, PersistWrites
<1> HIDE DEF new, id, write
<1>6. ASSUME NEW u \in Terminals, Lined(m, u) PROVE Lined(new, u)
 <2>1. CASE u # t BY <1>1, <1>3, <1>4, <1>6, <2>1, LinedSame
 <2>2. CASE u = t
  <3>1. PICK last \in Nat, place \in [Nat -> Int] : InLine(m, t, last, place)
   BY <1>6, <2>2 DEF Lined
  <3> DEFINE longer == [place EXCEPT ![id] = last + 1]
  <3>2. /\ longer \in [Nat -> Int] /\ longer[id] = last + 1
        /\ \A w \in m.writes : longer[w.id] = place[w.id]
   BY <1>2, <1>5
  <3> HIDE DEF longer
  <3>3. \A w \in new.writes : w.terminal = t =>
          longer[w.id] \in 1..last + 1 /\ (w.after = 0 => longer[w.id] = 1)
   BY <1>1, <1>3, <3>1, <3>2 DEF InLine
  <3>4. \A v, w \in new.writes :
          v.terminal = t /\ w.terminal = t /\ longer[v.id] = longer[w.id] => v = w
   BY <1>1, <1>3, <3>1, <3>2 DEF InLine
  <3>5. \A v, w \in new.writes :
          v.terminal = t /\ w.terminal = t /\ v.after = w.id => longer[v.id] = longer[w.id] + 1
   <4> SUFFICES ASSUME NEW v \in new.writes, NEW w \in new.writes, v.terminal = t,
                       w.terminal = t, v.after = w.id
       PROVE  longer[v.id] = longer[w.id] + 1
    OBVIOUS
   <4>1. v.after # id BY <1>1, <1>2, <1>3 DEF Queued
   <4>2. w \in m.writes BY <1>1, <1>3, <4>1
   <4>3. CASE v \in m.writes BY <3>1, <3>2, <4>2, <4>3 DEF InLine
   <4>4. CASE v = write BY <1>3, <3>1, <3>2, <4>2, <4>4 DEF InLine
   <4> QED BY <1>1, <4>3, <4>4
  <3>6. \A w \in new.writes : w.terminal = t /\ w.id = new.tail[t] => longer[w.id] = last + 1
   BY <1>4, <3>2
  <3>7. InLine(new, t, last + 1, longer) BY <1>2, <1>4, <3>3, <3>4, <3>5, <3>6 DEF InLine
  <3> QED BY <2>2, <3>1, <3>2, <3>7 DEF Lined
 <2> QED BY <2>1, <2>2
<1>7. ASSUME m.pending[t] = None, NEW file PROVE Newest(new, t, history, file)
 BY <1>1, <1>2, <1>3, <1>4, <1>7 DEF Newest
<1>8. ASSUME NEW u \in Terminals, NEW text, NEW file, u # t, Newest(m, u, text, file)
    PROVE  Newest(new, u, text, file)
 BY <1>1, <1>2, <1>3, <1>4, <1>8 DEF Newest, Queued
<1> QED BY <1>6, <1>7, <1>8 DEF new


(* A write ends: those after it go on, and a queue that ends with it is     *)
(* empty.                                                                   *)
Freed(w, id) == [w EXCEPT !.after = IF @ = id THEN 0 ELSE @]

LEMMA FreedFields ==
  ASSUME NEW n \in Nat, NEW w \in PersistWrites(n), NEW id
  PROVE /\ Freed(w, id) \in PersistWrites(n)
        /\ Freed(w, id).id = w.id /\ Freed(w, id).terminal = w.terminal
        /\ Freed(w, id).history = w.history
        /\ Freed(w, id).after = IF w.after = id THEN 0 ELSE w.after
BY DEF Freed, PersistWrites

LEMMA WrittenFields ==
  ASSUME NEW n \in Nat, NEW m \in Managers(n), NEW write \in m.writes
  PROVE LET new == Written(m, write)
            t == write.terminal
        IN  /\ new \in Managers(n)
            /\ new.writes = {Freed(w, write.id) : w \in m.writes \ {write}}
            /\ new.tail = [m.tail EXCEPT ![t] = IF @ = write.id THEN 0 ELSE @]
            /\ new.objects = m.objects /\ new.sessions = m.sessions
            /\ new.pending = m.pending
            /\ new.escalating = m.escalating /\ new.evicted = m.evicted
            /\ new.processes = m.processes
<1> DEFINE t == write.terminal
           writes == {Freed(w, write.id) : w \in m.writes \ {write}}
           tail == [m.tail EXCEPT ![t] = IF @ = write.id THEN 0 ELSE @]
           timers == IF m.pending[t] # None THEN m.timers \cup {t} ELSE m.timers
<1>1. t \in Terminals /\ m.writes \subseteq PersistWrites(n) BY DEF Managers, PersistWrites
<1>2. writes \in SUBSET PersistWrites(n) BY <1>1, FreedFields
<1>3. tail \in [Terminals -> Nat] /\ timers \in SUBSET Terminals BY <1>1 DEF Managers
<1>4. Written(m, write) = [m EXCEPT !.writes = writes, !.tail = tail, !.timers = timers]
 BY DEF Written, Freed, Managers
<1> HIDE DEF writes, tail, timers
<1>5. LET new == [m EXCEPT !.writes = writes, !.tail = tail, !.timers = timers]
      IN  /\ new \in Managers(n) /\ new.writes = writes /\ new.tail = tail
          /\ new.objects = m.objects /\ new.sessions = m.sessions
          /\ new.pending = m.pending
          /\ new.escalating = m.escalating /\ new.evicted = m.evicted
          /\ new.processes = m.processes
 BY <1>2, <1>3 DEF Managers
<1> QED BY <1>4, <1>5 DEF writes, tail

(* What is left of the writes and the queues when one has ended.            *)
LEMMA WrittenLeaves ==
  ASSUME NEW n \in Nat, NEW m \in Managers(n), NEW write \in m.writes
  PROVE LET new == Written(m, write)
        IN  /\ \A v \in new.writes : \E w \in m.writes \ {write} : v = Freed(w, write.id)
            /\ \A w \in m.writes \ {write} : Freed(w, write.id) \in new.writes
            /\ \A t \in Terminals :
                  new.tail[t] = IF t = write.terminal /\ m.tail[t] = write.id THEN 0
                                ELSE m.tail[t]
<1> DEFINE new == Written(m, write)
<1>1. m.tail \in [Terminals -> Nat] BY DEF Managers
<1>2. /\ new.writes = {Freed(w, write.id) : w \in m.writes \ {write}}
      /\ new.tail = [m.tail EXCEPT ![write.terminal] = IF @ = write.id THEN 0 ELSE @]
 BY WrittenFields
<1> HIDE DEF new
<1>3. \A t \in Terminals :
        new.tail[t] = IF t = write.terminal /\ m.tail[t] = write.id THEN 0 ELSE m.tail[t]
 BY <1>1, <1>2
<1> QED BY <1>2, <1>3 DEF new

LEMMA WrittenSound ==
  ASSUME NEW n \in Nat, NEW m, Sound(m, n), NEW write \in m.writes
  PROVE Sound(Written(m, write), n)
<1> DEFINE new == Written(m, write)
           rest == m.writes \ {write}
<1>1. m \in Managers(n) /\ Queued(m) /\ m.writes \subseteq PersistWrites(n) BY DEF Sound, Managers
<1>2. \A w \in m.writes :
        /\ Freed(w, write.id).id = w.id /\ Freed(w, write.id).terminal = w.terminal
        /\ Freed(w, write.id).after = IF w.after = write.id THEN 0 ELSE w.after
 BY <1>1, FreedFields
<1>3. /\ new \in Managers(n)
      /\ new.writes = {Freed(w, write.id) : w \in rest}
      /\ new.objects = m.objects /\ new.sessions = m.sessions
      /\ new.escalating = m.escalating /\ new.evicted = m.evicted
      /\ new.processes = m.processes
 BY <1>1, WrittenFields
<1>4. /\ \A v \in new.writes : \E w \in rest : v = Freed(w, write.id)
      /\ \A w \in rest : Freed(w, write.id) \in new.writes
      /\ \A t \in Terminals :
            new.tail[t] = IF t = write.terminal /\ m.tail[t] = write.id THEN 0 ELSE m.tail[t]
 BY <1>1, WrittenLeaves
<1> HIDE DEF new
<1>5. Queued(new)
 <2>1. IsFiniteSet(new.writes)
  <3> DEFINE f == [w \in rest |-> Freed(w, write.id)]
  <3>1. f \in Surjection(rest, new.writes) BY <1>3 DEF Surjection
  <3>2. IsFiniteSet(rest) BY <1>1, FS_RemoveElement DEF Queued
  <3> HIDE DEF f
  <3> QED BY <3>1, <3>2, FS_Surjection
 <2>2. \A v \in new.writes : v.id # 0 BY <1>1, <1>2, <1>4 DEF Queued
 <2>3. \A v, w \in new.writes : v.id = w.id => v = w BY <1>1, <1>2, <1>4 DEF Queued
 <2>4. \A v \in new.writes : v.after # 0 =>
          \E w \in new.writes : w.id = v.after /\ w.terminal = v.terminal
  <3> SUFFICES ASSUME NEW x \in rest, Freed(x, write.id).after # 0
      PROVE  \E w \in new.writes : /\ w.id = Freed(x, write.id).after
                                   /\ w.terminal = Freed(x, write.id).terminal
   BY <1>4
  <3>1. x.after # 0 /\ x.after # write.id /\ Freed(x, write.id).after = x.after BY <1>2
  <3>2. PICK y \in rest : y.id = x.after /\ y.terminal = x.terminal BY <1>1, <3>1 DEF Queued
  <3> QED BY <1>2, <1>4, <3>1, <3>2
 <2>5. \A t \in Terminals : new.tail[t] # 0 =>
          \E w \in new.writes : w.id = new.tail[t] /\ w.terminal = t
  <3> SUFFICES ASSUME NEW t \in Terminals, new.tail[t] # 0
      PROVE  \E w \in new.writes : w.id = new.tail[t] /\ w.terminal = t
   OBVIOUS
  <3>1. new.tail[t] = m.tail[t] /\ m.tail[t] # 0 /\ (t = write.terminal => m.tail[t] # write.id)
   BY <1>4
  <3>2. PICK y \in rest : y.id = m.tail[t] /\ y.terminal = t BY <1>1, <3>1 DEF Queued
  <3> QED BY <1>2, <1>4, <3>1, <3>2
 <2> QED BY <2>1, <2>2, <2>3, <2>4, <2>5 DEF Queued
<1> QED BY <1>3, <1>5, AccountedSame DEF new

(* A write that ends was the first in line, and the others of its terminal  *)
(* move up.                                                                 *)
LEMMA WrittenLined ==
  ASSUME NEW n \in Nat, NEW m, Sound(m, n), NEW write \in m.writes, write.after = 0,
    NEW t \in Terminals, Lined(m, t)
  PROVE Lined(Written(m, write), t)
<1> DEFINE new == Written(m, write)
<1>1. m \in Managers(n) /\ Queued(m) /\ m.writes \subseteq PersistWrites(n) BY DEF Sound, Managers
<1>2. \A w \in m.writes :
        /\ w.id \in Nat
        /\ Freed(w, write.id).id = w.id /\ Freed(w, write.id).terminal = w.terminal
        /\ Freed(w, write.id).after = IF w.after = write.id THEN 0 ELSE w.after
 BY <1>1, FreedFields DEF PersistWrites
<1>3. /\ \A v \in new.writes : \E w \in m.writes \ {write} : v = Freed(w, write.id)
      /\ new.tail[t] = IF t = write.terminal /\ m.tail[t] = write.id THEN 0 ELSE m.tail[t]
 BY <1>1, WrittenLeaves
<1>4. PICK last \in Nat, place \in [Nat -> Int] : InLine(m, t, last, place) BY DEF Lined
<1> HIDE DEF new
<1>5. CASE t # write.terminal
 <2>1. \A v \in new.writes : v.terminal = t =>
         \E w \in m.writes : /\ w.terminal = t /\ w.id = v.id /\ w.after = v.after
                             /\ v = Freed(w, write.id)
  <3> SUFFICES ASSUME NEW w \in m.writes \ {write}, w.terminal = t
      PROVE  Freed(w, write.id).after = w.after
   BY <1>2, <1>3
  <3>1. w.after # write.id BY <1>1, <1>2, <1>5 DEF Queued
  <3> QED BY <1>2, <3>1
 <2>2. \A v, w \in new.writes : v.id = w.id => v = w BY WrittenSound DEF new, Sound, Queued
 <2>3. InLine(new, t, last, place)
  <3>1. \A w \in new.writes : w.terminal = t =>
          /\ place[w.id] \in 1..last /\ (w.after = 0 => place[w.id] = 1)
          /\ w.id = new.tail[t] => place[w.id] = last
   BY <1>3, <1>4, <1>5, <2>1 DEF InLine
  <3>2. \A v, w \in new.writes :
          v.terminal = t /\ w.terminal = t =>
              /\ place[v.id] = place[w.id] => v = w
              /\ v.after = w.id => place[v.id] = place[w.id] + 1
   <4> SUFFICES ASSUME NEW v \in new.writes, NEW w \in new.writes, v.terminal = t,
                       w.terminal = t
       PROVE  /\ place[v.id] = place[w.id] => v = w
              /\ v.after = w.id => place[v.id] = place[w.id] + 1
    OBVIOUS
   <4>1. PICK x \in m.writes : x.terminal = t /\ x.id = v.id /\ x.after = v.after BY <2>1
   <4>2. PICK y \in m.writes : y.terminal = t /\ y.id = w.id /\ y.after = w.after BY <2>1
   <4> QED BY <1>4, <2>2, <4>1, <4>2 DEF InLine
  <3> QED BY <1>3, <1>4, <1>5, <3>1, <3>2 DEF InLine
 <2> QED BY <2>3 DEF Lined, new
<1>6. CASE t = write.terminal
 <2> DEFINE moved == [i \in Nat |-> place[i] - 1]
 <2>1. place[write.id] = 1 /\ last \in Nat \ {0} BY <1>2, <1>4, <1>6 DEF InLine
 <2>2. moved \in [Nat -> Int] /\ \A w \in m.writes : moved[w.id] = place[w.id] - 1 BY <1>2
 <2> HIDE DEF moved
 <2>3. \A w \in m.writes \ {write} :
         w.terminal = t => /\ place[w.id] \in 2..last
                           /\ w.after # 0 /\ (w.after = write.id => place[w.id] = 2)
  BY <1>2, <1>4, <1>6, <2>1 DEF InLine
 <2>4. \A v \in new.writes : v.terminal = t =>
         \E w \in m.writes \ {write} : /\ w.terminal = t /\ w.id = v.id
                                       /\ v = Freed(w, write.id)
                                       /\ v.after = IF w.after = write.id THEN 0 ELSE w.after
  BY <1>2, <1>3
 <2>5. \A w \in new.writes : w.terminal = t =>
         /\ moved[w.id] \in 1..last - 1 /\ (w.after = 0 => moved[w.id] = 1)
         /\ w.id = new.tail[t] => moved[w.id] = last - 1
  <3> SUFFICES ASSUME NEW v \in new.writes, v.terminal = t
      PROVE  /\ moved[v.id] \in 1..last - 1 /\ (v.after = 0 => moved[v.id] = 1)
             /\ v.id = new.tail[t] => moved[v.id] = last - 1
   OBVIOUS
  <3>1. PICK w \in m.writes \ {write} :
          w.terminal = t /\ w.id = v.id /\ v.after = IF w.after = write.id THEN 0 ELSE w.after
   BY <2>4
  <3>2. place[w.id] \in 2..last /\ w.after # 0 /\ (w.after = write.id => place[w.id] = 2)
   BY <2>3, <3>1
  <3>3. w.id # 0 /\ (w.id = m.tail[t] => place[w.id] = last)
   BY <1>1, <1>4, <3>1 DEF InLine, Queued
  <3> QED BY <1>3, <2>1, <2>2, <3>1, <3>2, <3>3
 <2>6. \A v, w \in new.writes :
         v.terminal = t /\ w.terminal = t =>
             /\ moved[v.id] = moved[w.id] => v = w
             /\ v.after = w.id => moved[v.id] = moved[w.id] + 1
  <3> SUFFICES ASSUME NEW v \in new.writes, NEW w \in new.writes, v.terminal = t, w.terminal = t
      PROVE  /\ moved[v.id] = moved[w.id] => v = w
             /\ v.after = w.id => moved[v.id] = moved[w.id] + 1
   OBVIOUS
  <3>1. PICK x \in m.writes \ {write} :
          /\ x.terminal = t /\ x.id = v.id /\ v = Freed(x, write.id)
          /\ v.after = IF x.after = write.id THEN 0 ELSE x.after
   BY <2>4
  <3>2. PICK y \in m.writes \ {write} :
          y.terminal = t /\ y.id = w.id /\ w = Freed(y, write.id)
   BY <2>4
  <3>3. place[x.id] \in Int /\ place[y.id] \in Int /\ (place[x.id] = place[y.id] => x = y)
   BY <1>2, <1>4, <3>1, <3>2 DEF InLine
  <3>4. v.after = w.id => x.after = y.id BY <1>1, <3>1, <3>2 DEF Queued
  <3>5. x.after = y.id => place[x.id] = place[y.id] + 1 BY <1>4, <3>1, <3>2 DEF InLine
  <3> QED BY <2>2, <3>1, <3>2, <3>3, <3>4, <3>5
 <2>7. new.tail[t] = 0 => last - 1 = 0
  <3>1. m.tail[t] # 0 BY <1>4, <2>1 DEF InLine
  <3>2. m.tail[t] = write.id => last = 1 BY <1>4, <1>6, <2>1 DEF InLine
  <3> QED BY <1>3, <1>6, <2>1, <3>1, <3>2
 <2>8. InLine(new, t, last - 1, moved) BY <2>5, <2>6, <2>7 DEF InLine
 <2>9. last - 1 \in Nat BY <2>1
 <2> QED BY <2>2, <2>8, <2>9 DEF Lined, new
<1> QED BY <1>5, <1>6 DEF new

(* What its terminal has newest is then in the file, if nothing is left to  *)
(* write.                                                                   *)
LEMMA WrittenNewest ==
  ASSUME NEW n \in Nat, NEW m, Sound(m, n), NEW write \in m.writes, write.after = 0,
    NEW t \in Terminals, NEW text, NEW file, Lined(m, t), Newest(m, t, text, file)
  PROVE Newest(Written(m, write), t, text,
               IF t = write.terminal THEN write.history ELSE file)
<1> DEFINE new == Written(m, write)
<1>1. m \in Managers(n) /\ Queued(m) /\ m.writes \subseteq PersistWrites(n) BY DEF Sound, Managers
<1>2. \A w \in m.writes :
        Freed(w, write.id).id = w.id /\ Freed(w, write.id).history = w.history
 BY <1>1, FreedFields
<1>3. /\ \A v \in new.writes : \E w \in m.writes \ {write} : v = Freed(w, write.id)
      /\ new.tail[t] = IF t = write.terminal /\ m.tail[t] = write.id THEN 0 ELSE m.tail[t]
 BY <1>1, WrittenLeaves
<1>4. new.pending = m.pending BY <1>1, WrittenFields
<1>5. write.terminal = t => m.tail[t] # 0 BY DEF Lined, InLine
<1> HIDE DEF new
<1>6. \A v \in new.writes : \E w \in m.writes : v.id = w.id /\ v.history = w.history BY <1>2, <1>3
<1>7. write.id # 0 BY <1>1 DEF Queued
<1> QED BY <1>3, <1>4, <1>5, <1>6, <1>7 DEF Newest, new


--------------------
(* The terminals: a step of one terminal, seen from the others.             *)
\* The sessions of the others, and their queues as far as they are kept.
Elsewhere(m, new, t) ==
    /\ DOMAIN m.objects \subseteq DOMAIN new.objects
    /\ \A s \in DOMAIN m.objects :
          /\ new.objects[s].terminal = m.objects[s].terminal
          /\ m.objects[s].terminal # t => new.objects[s].process \in {0, m.objects[s].process}
    /\ \A s \in new.sessions : new.objects[s].terminal # t => s \in m.sessions
    /\ \A s \in m.sessions : m.objects[s].terminal # t => s \in new.sessions \cup new.evicted
    /\ m.evicted \subseteq new.evicted
    /\ \A u \in Terminals \ {t} : ~Evicted(new, u) =>
          /\ new.pending[u] = m.pending[u] /\ new.tail[u] = m.tail[u]
          /\ Lined(m, u) => Lined(new, u)
          /\ \A text, file : Newest(m, u, text, file) => Newest(new, u, text, file)

\* What stopping and eviction leave alone of the sessions.
SparesSessions(m, new) ==
    /\ DOMAIN new.objects = DOMAIN m.objects
    /\ \A s \in DOMAIN m.objects :
          /\ new.objects[s].terminal = m.objects[s].terminal
          /\ new.objects[s].process \in {0, m.objects[s].process}
    /\ new.sessions \subseteq m.sessions /\ m.sessions \subseteq new.sessions \cup new.evicted
    /\ m.evicted \subseteq new.evicted

(* The line and the newest of a terminal whose queue is left alone.         *)
LEMMA QueueLeft ==
  ASSUME NEW m, NEW new, NEW u, new.writes = m.writes, new.pending[u] = m.pending[u],
    new.tail[u] = m.tail[u]
  PROVE /\ Lined(m, u) => Lined(new, u)
        /\ \A text, file : Newest(m, u, text, file) => Newest(new, u, text, file)
<1>1. Lined(m, u) => Lined(new, u) BY LinedSame
<1> QED BY <1>1 DEF Newest

LEMMA ContinuesElsewhere ==
  ASSUME NEW m, NEW new, NEW t, Continues(m, new, t) PROVE Elsewhere(m, new, t)
BY QueueLeft DEF Continues, Elsewhere

(* A queue of the terminal itself may change beside.                        *)
LEMMA ElsewhereQueues ==
  ASSUME NEW m, NEW mid, NEW new, NEW t, Elsewhere(m, mid, t),
    new.objects = mid.objects, new.sessions = mid.sessions, new.evicted = mid.evicted,
    \A u \in Terminals \ {t} :
       /\ new.pending[u] = mid.pending[u] /\ new.tail[u] = mid.tail[u]
       /\ Lined(mid, u) => Lined(new, u)
       /\ \A text, file : Newest(mid, u, text, file) => Newest(new, u, text, file)
  PROVE Elsewhere(m, new, t)
<1>1. \A u \in Terminals : Evicted(mid, u) => Evicted(new, u) BY DEF Evicted
<1> QED BY <1>1 DEF Elsewhere

(* A call on another thread is as sound as before.                          *)
LEMMA CallElsewhere ==
  ASSUME NEW m, MapSound(m), NEW new, NEW t \in Terminals, Elsewhere(m, new, t), NEW call,
    CallSound(m, call), call.terminal \in Terminals,
    setting.thread[call.terminal] # setting.thread[t]
  PROVE CallSound(new, call)
<1>1. \A u \in Terminals \ {t} : Session(m, u) = {} => Session(new, u) = {}
 BY DEF Session, Elsewhere, MapSound
<1>2. t \notin Emptied(call) /\ Emptied(call) \subseteq Terminals /\ call.terminal # t
 BY DEF Emptied, Of
<1>3. SessionSound(m, call) => SessionSound(new, call) BY <1>2 DEF SessionSound, Elsewhere
<1>4. SessionSound(m, call) /\ m.objects[call.session].process = 0
      => new.objects[call.session].process = 0
 BY <1>2 DEF SessionSound, Elsewhere
<1> QED BY <1>1, <1>2, <1>3, <1>4 DEF CallSound

(* So is every call when only sessions are stopped or evicted.              *)
LEMMA CallSpared ==
  ASSUME NEW m, MapSound(m), NEW new, SparesSessions(m, new), NEW call, CallSound(m, call)
  PROVE CallSound(new, call)
<1>1. \A u : Session(m, u) = {} => Session(new, u) = {} BY DEF Session, SparesSessions, MapSound
<1>2. SessionSound(m, call) => SessionSound(new, call) BY DEF SessionSound, SparesSessions
<1>3. SessionSound(m, call) /\ m.objects[call.session].process = 0
      => new.objects[call.session].process = 0
 BY DEF SessionSound, SparesSessions
<1> QED BY <1>1, <1>2, <1>3 DEF CallSound

\* A call that differs at most in what it waits for and deletes.
SameCall(call, other) ==
    \/ call = Idle /\ other = Idle
    \/ /\ call # Idle /\ other # Idle
       /\ other.kind = call.kind /\ other.step = call.step /\ other.terminal = call.terminal
       /\ other.session = call.session /\ other.flushing = call.flushing

LEMMA SameCallSound ==
  ASSUME NEW m, NEW call, NEW other, SameCall(call, other), call # Idle, CallSound(m, call)
  PROVE CallSound(m, other)
BY DEF SameCall, CallSound, SessionSound, Emptied

(* A call is never idle.                                                    *)
LEMMA CallNotIdle ==
  ASSUME NEW call \in Calls PROVE call # Idle
BY DEF Calls, Idle

(* What is kept of another terminal.                                        *)
LEMMA KeptElsewhere ==
  ASSUME NEW m, MapSound(m), NEW new, NEW t, Elsewhere(m, new, t), NEW u \in Terminals \ {t},
    NEW call
  PROVE /\ Evicted(m, u) => Evicted(new, u)
        /\ \A text, file :
              /\ ~Evicted(new, u) /\ Lined(m, u) /\ Newest(m, u, text, file)
              /\ Drained(m, u, call)
              => Lined(new, u) /\ Newest(new, u, text, file) /\ Drained(new, u, call)
<1>1. Evicted(m, u) => Evicted(new, u) BY DEF Evicted, Elsewhere, MapSound
<1>2. ASSUME ~Evicted(new, u), Session(new, u) = {} PROVE Session(m, u) = {}
 BY <1>2 DEF Session, Elsewhere, MapSound, Evicted
<1>3. ~Evicted(new, u) /\ Drained(m, u, call) => Drained(new, u, call)
 BY <1>2 DEF Drained, Elsewhere
<1> QED BY <1>1, <1>3 DEF Elsewhere

--------------------
(* The terminals: the steps.                                                *)
\* The outputs so far.
Outputs == spent.outputs

(* What is known before a step.                                             *)
LEMMA Known ==
  ASSUME IInv
  PROVE /\ Outputs \in Nat /\ Sound(manager, Outputs) /\ MapSound(manager)
        /\ manager \in Managers(Outputs) /\ setting \in Settings
        /\ DOMAIN setting.thread = Terminals
        /\ \A t \in Terminals : setting.thread[t] \in Threads
<1>1. setting \in Settings /\ Outputs \in Nat /\ manager \in Managers(Outputs)
 BY DEF IInv, Typed, Outputs, Kinds
<1>2. DOMAIN setting.thread = Terminals BY <1>1, TerminalAssumption
<1>3. Sound(manager, Outputs) BY <1>1 DEF IInv, Sound
<1> QED BY <1>1, <1>2, <1>3 DEF Sound, Accounted, Threads

(* Spending from a bound counts it, and nothing else.                       *)
LEMMA SpendCounts ==
  ASSUME IInv, NEW kind \in Kinds, Spend(kind)
  PROVE /\ spent' \in [Kinds -> Nat]
        /\ \A k \in Kinds : spent'[k] = IF k = kind THEN spent[k] + 1 ELSE spent[k]
BY DEF IInv, Typed, Spend

\* What a step of a terminal keeps of the variables beside the manager.
Framed(t) ==
    /\ setting' = setting /\ disposed' = disposed
    /\ spent' \in [Kinds -> Nat] /\ spent'.writes >= spent.writes
    /\ operation' \in [Threads -> {Idle} \cup Calls]
    /\ \A thread \in Threads \ {setting.thread[t]} : SameCall(operation[thread], operation'[thread])
    /\ files' \in [Terminals -> Texts(spent'.outputs)]
    /\ wanted' \in [Terminals -> Texts(spent'.outputs)]
    /\ \A u \in Terminals \ {t} : files'[u] = files[u] /\ wanted'[u] = wanted[u]

(* A step of one terminal keeps the invariant if it keeps it for that       *)
(* terminal and its thread.                                                 *)
LEMMA StepKeeps ==
  ASSUME IInv, NEW t \in Terminals, Framed(t), Sound(manager', spent'.outputs),
    Elsewhere(manager, manager', t),
    NEW call, call = operation'[setting.thread[t]],
    call # Idle => /\ setting.thread[call.terminal] = setting.thread[t]
                   /\ CallSound(manager', call),
    \A u \in Terminals \ {t} :
       /\ setting.thread[u] = setting.thread[t]
       /\ Awaits(operation[setting.thread[t]], u)
       => Awaits(call, u),
    Excepted(manager, t)' \/ Evicted(manager', t) \/
       /\ Lined(manager', t) /\ Newest(manager', t, wanted'[t], files'[t])
       /\ Drained(manager', t, call)
  PROVE IInv'
<1> DEFINE own == setting.thread[t]
<1>1. /\ Outputs \in Nat /\ Sound(manager, Outputs) /\ MapSound(manager)
      /\ DOMAIN setting.thread = Terminals
      /\ \A u \in Terminals : setting.thread[u] \in Threads
 BY Known
<1>2. Threads' = Threads BY DEF Threads, Framed
<1>3. Typed' BY <1>2 DEF IInv, Typed, Framed, Sound
<1>4. /\ Accounted(manager') /\ (disposed' \/ LiveMapped(manager')) /\ Queued(manager')
 BY DEF Sound, Framed
<1>5. \A thread \in Threads \ {own} :
        operation'[thread] # Idle =>
            /\ setting.thread[operation'[thread].terminal] = thread
            /\ CallSound(manager', operation'[thread])
 <2> SUFFICES ASSUME NEW thread \in Threads \ {own}, operation'[thread] # Idle
     PROVE  /\ setting.thread[operation'[thread].terminal] = thread
            /\ CallSound(manager', operation'[thread])
  OBVIOUS
 <2>1. SameCall(operation[thread], operation'[thread]) BY DEF Framed
 <2>2. operation[thread] # Idle /\ operation'[thread].terminal = operation[thread].terminal
  BY <2>1 DEF SameCall
 <2>3. /\ operation[thread] \in Calls
       /\ setting.thread[operation[thread].terminal] = thread
       /\ CallSound(manager, operation[thread])
  BY <2>2 DEF IInv, Typed, CallsSound
 <2>4. operation[thread].terminal \in Terminals BY <2>3 DEF Calls
 <2>5. CallSound(manager', operation[thread]) BY <1>1, <2>3, <2>4, CallElsewhere
 <2> QED BY <2>1, <2>2, <2>3, <2>5, SameCallSound
<1>6. \A thread \in Threads :
        operation'[thread] # Idle =>
            /\ setting.thread[operation'[thread].terminal] = thread
            /\ CallSound(manager', operation'[thread])
 BY <1>5
<1>7. CallsSound(manager)'
 BY <1>2, <1>6 DEF CallsSound, CallSound, SessionSound, Emptied, Of, Session, Framed
<1>8. ASSUME NEW u \in Terminals
    PROVE  (Excepted(manager, u) \/ Kept(manager, u))'
 <2>1. CASE u = t BY <2>1 DEF Excepted, Kept, Framed, Evicted
 <2>2. CASE u # t
  <3> SUFFICES ASSUME ~Excepted(manager, u)' PROVE Kept(manager, u)' OBVIOUS
  <3>1. ~Evicted(manager', u) /\ ~disposed /\ spent'.writes = 0 /\ spent.writes = 0
   BY <1>1 DEF Excepted, Evicted, Framed, IInv, Typed, Kinds
  <3>2. ~Evicted(manager, u) BY <1>1, <2>2, <3>1, KeptElsewhere
  <3>3. Kept(manager, u) BY <3>1, <3>2 DEF IInv, TranscriptsSound, Excepted
  <3>4. /\ Lined(manager', u) /\ Newest(manager', u, wanted[u], files[u])
        /\ Drained(manager', u, operation[setting.thread[u]])
   BY <1>1, <2>2, <3>1, <3>3, KeptElsewhere DEF Kept
  <3>5. Awaits(operation[setting.thread[u]], u) => Awaits(operation'[setting.thread[u]], u)
   <4>1. CASE setting.thread[u] = own BY <2>2, <4>1
   <4>2. CASE setting.thread[u] # own BY <1>1, <4>2 DEF Framed, SameCall, Awaits
   <4> QED BY <4>1, <4>2
  <3>6. Drained(manager', u, operation'[setting.thread[u]]) BY <3>4, <3>5 DEF Drained
  <3> QED BY <2>2, <3>4, <3>6 DEF Kept, Framed, Lined, InLine, Newest, Drained, Session
 <2> QED BY <2>1, <2>2
<1>9. TranscriptsSound(manager)' BY <1>8 DEF TranscriptsSound
<1> QED BY <1>3, <1>4, <1>7, <1>9 DEF IInv


(* What is kept of a terminal when only sessions are stopped or evicted.    *)
LEMMA KeptSpared ==
  ASSUME NEW m, MapSound(m), NEW new, Spares(m, new), NEW u \in Terminals, NEW call
  PROVE /\ Evicted(m, u) => Evicted(new, u)
        /\ \A text, file :
              /\ ~Evicted(new, u) /\ Lined(m, u) /\ Newest(m, u, text, file)
              /\ Drained(m, u, call)
              => Lined(new, u) /\ Newest(new, u, text, file) /\ Drained(new, u, call)
<1>1. Evicted(m, u) => Evicted(new, u) BY DEF Evicted, Spares, MapSound
<1>2. ASSUME ~Evicted(new, u), Session(new, u) = {} PROVE Session(m, u) = {}
 BY <1>2 DEF Session, Spares, MapSound, Evicted
<1>3. ~Evicted(new, u) /\ Drained(m, u, call) => Drained(new, u, call) BY <1>2 DEF Drained, Spares
<1>4. ASSUME ~Evicted(new, u)
    PROVE  /\ Lined(m, u) => Lined(new, u)
           /\ \A text, file : Newest(m, u, text, file) => Newest(new, u, text, file)
 BY <1>4, QueueLeft DEF Spares
<1> QED BY <1>1, <1>3, <1>4

LEMMA SparesSessionsToo ==
  ASSUME NEW m, NEW new, Spares(m, new) PROVE SparesSessions(m, new)
BY DEF Spares, SparesSessions

(* A step that stops or evicts, and nothing else but what the invariant     *)
(* does not speak of, keeps it.                                             *)
LEMMA SparingKeeps ==
  ASSUME IInv, setting' = setting, disposed' = disposed, operation' = operation,
    files' = files, wanted' = wanted, spent' \in [Kinds -> Nat],
    spent'.outputs = spent.outputs, spent'.writes >= spent.writes,
    Sound(manager', Outputs), Spares(manager, manager')
  PROVE IInv'
<1>1. MapSound(manager) /\ SparesSessions(manager, manager') BY Known, SparesSessionsToo
<1>2. Threads' = Threads BY DEF Threads
<1>3. Typed' BY <1>2 DEF IInv, Typed, Sound, Outputs
<1>4. Accounted(manager') /\ (disposed' \/ LiveMapped(manager')) /\ Queued(manager') BY DEF Sound
<1>5. \A thread \in Threads :
        operation[thread] # Idle =>
            /\ setting.thread[operation[thread].terminal] = thread
            /\ CallSound(manager', operation[thread])
 BY <1>1, CallSpared DEF IInv, CallsSound
<1>6. CallsSound(manager)'
 BY <1>2, <1>5 DEF CallsSound, CallSound, SessionSound, Emptied, Of, Session
<1>7. ASSUME NEW u \in Terminals, ~Excepted(manager, u)'
    PROVE  Kept(manager, u)'
 <2>1. ~Evicted(manager', u) /\ ~disposed /\ spent.writes = 0
  BY <1>7 DEF Excepted, Evicted, IInv, Typed, Kinds
 <2>2. ~Evicted(manager, u) BY <1>1, <2>1, KeptSpared
 <2>3. Kept(manager, u) BY <2>1, <2>2 DEF IInv, TranscriptsSound, Excepted
 <2>4. /\ Lined(manager', u) /\ Newest(manager', u, wanted[u], files[u])
       /\ Drained(manager', u, operation[setting.thread[u]])
  BY <1>1, <2>1, <2>3, KeptSpared DEF Kept
 <2> QED BY <2>4 DEF Kept, Lined, InLine, Newest, Drained, Session
<1>8. TranscriptsSound(manager)' BY <1>7 DEF TranscriptsSound
<1> QED BY <1>3, <1>4, <1>6, <1>8 DEF IInv

(* A manager spares itself.                                                 *)
LEMMA SparesItself == ASSUME NEW m PROVE Spares(m, m)
BY DEF Spares

(* The frame of a step that holds a lock.                                   *)
LEMMA HoldFrames ==
  ASSUME IInv, NEW t \in Terminals, NEW call \in {Idle} \cup Calls, Hold(t, call),
    setting' = setting, disposed' = disposed, files' = files,
    wanted' = wanted \/ wanted' = [wanted EXCEPT ![t] = 0],
    spent' = spent \/ \E kind \in Kinds \ {"outputs"} : Spend(kind)
  PROVE Framed(t) /\ operation'[setting.thread[t]] = call /\ spent'.outputs = Outputs
<1>1. /\ spent' \in [Kinds -> Nat] /\ spent'.writes >= spent.writes
      /\ spent'.outputs = spent.outputs /\ spent.outputs \in Nat
 <2>1. /\ spent \in [Kinds -> Nat] /\ "outputs" \in Kinds /\ "writes" \in Kinds
       /\ spent.outputs \in Nat /\ spent.writes \in Nat
  BY DEF IInv, Typed, Kinds
 <2>2. CASE spent' = spent BY <2>1, <2>2
 <2>3. CASE \E kind \in Kinds \ {"outputs"} : Spend(kind)
  <3>1. PICK kind \in Kinds \ {"outputs"} : Spend(kind) BY <2>3
  <3> QED BY <2>1, <3>1, SpendCounts
 <2> QED BY <2>2, <2>3
<1>2. setting.thread[t] \in Threads /\ operation \in [Threads -> {Idle} \cup Calls]
 BY Known DEF IInv, Typed
<1>3. /\ operation' \in [Threads -> {Idle} \cup Calls]
      /\ operation'[setting.thread[t]] = call
      /\ \A thread \in Threads \ {setting.thread[t]} : operation'[thread] = operation[thread]
 BY <1>2 DEF Hold
<1>4. \A thread \in Threads \ {setting.thread[t]} : SameCall(operation[thread], operation'[thread])
 BY <1>3 DEF SameCall
<1>5. /\ wanted' \in [Terminals -> Texts(Outputs)] /\ files' \in [Terminals -> Texts(Outputs)]
      /\ \A u \in Terminals \ {t} : files'[u] = files[u] /\ wanted'[u] = wanted[u]
 BY <1>1 DEF IInv, Typed, Texts, Outputs
<1> QED BY <1>1, <1>3, <1>4, <1>5 DEF Framed, Outputs

(* The frame of a step that holds none.                                     *)
LEMMA FreeFrames ==
  ASSUME IInv, NEW t \in Terminals, setting' = setting, disposed' = disposed, files' = files,
    wanted' = wanted, operation' = operation, spent' = spent
  PROVE Framed(t) /\ spent'.outputs = Outputs
BY DEF IInv, Typed, Framed, SameCall, Kinds, Outputs

(* Only timers and what waits to be written change.                         *)
Waiting(m, timers, pending) == [m EXCEPT !.timers = timers, !.pending = pending]

LEMMA PendingSound ==
  ASSUME NEW n \in Nat, NEW m, Sound(m, n), NEW timers \in SUBSET Terminals,
    NEW pending \in [Terminals -> Texts(n)]
  PROVE LET new == Waiting(m, timers, pending)
        IN  /\ Sound(new, n)
            /\ new.objects = m.objects /\ new.sessions = m.sessions
            /\ new.evicted = m.evicted /\ new.writes = m.writes
            /\ new.pending = pending /\ new.tail = m.tail
<1> DEFINE new == Waiting(m, timers, pending)
<1>1. /\ new \in Managers(n) /\ new.objects = m.objects /\ new.sessions = m.sessions
      /\ new.evicted = m.evicted /\ new.writes = m.writes /\ new.pending = pending
      /\ new.tail = m.tail /\ new.escalating = m.escalating /\ new.processes = m.processes
 BY DEF Waiting, Sound, Managers
<1> HIDE DEF new
<1>2. Queued(new) BY <1>1 DEF Sound, Queued
<1>3. Sound(new, n) BY <1>1, <1>2, AccountedSame
<1> QED BY <1>1, <1>3 DEF new

(* Only timers change.                                                      *)
LEMMA TimersSound ==
  ASSUME NEW n \in Nat, NEW m, Sound(m, n), NEW timers \in SUBSET Terminals
  PROVE LET new == [m EXCEPT !.timers = timers]
        IN  /\ Sound(new, n) /\ Spares(m, new)
            /\ new.objects = m.objects /\ new.sessions = m.sessions
            /\ new.evicted = m.evicted /\ new.writes = m.writes
            /\ new.pending = m.pending /\ new.tail = m.tail
<1> DEFINE new == [m EXCEPT !.timers = timers]
<1>1. new = Waiting(m, timers, m.pending) /\ m.pending \in [Terminals -> Texts(n)]
 BY DEF Waiting, Sound, Managers
<1> HIDE DEF new
<1>2. /\ Sound(new, n) /\ new.objects = m.objects /\ new.sessions = m.sessions
      /\ new.evicted = m.evicted /\ new.writes = m.writes /\ new.pending = m.pending
      /\ new.tail = m.tail
 BY <1>1, PendingSound
<1>3. Spares(m, new) BY <1>2 DEF Spares
<1> QED BY <1>2, <1>3 DEF new

(* Calls are typed.                                                         *)
LEMMA CallTyped ==
  ASSUME NEW kind \in {"open", "clear", "restart", "close", "closeThread"},
    NEW step \in {"stopping", "flush", "persist", "spawn"}, NEW t \in Terminals,
    NEW s \in Nat
  PROVE LET call == Call(kind, step, t, s)
        IN  /\ call \in Calls /\ call.kind = kind /\ call.step = step /\ call.terminal = t
            /\ call.session = s /\ call.flushing = {}
BY DEF Call, Calls

--------------------
(* The terminals: the calls that begin.                                     *)
(* A terminal that is not in the map is flushed before it is opened.        *)
LEMMA OpenNewKeeps == ASSUME IInv, NEW t \in Terminals, OpenNew(t) PROVE IInv'
<1> DEFINE call == Flushing("open", t, {t}, FALSE)
<1>1. /\ Sound(manager, Outputs) /\ MapSound(manager) /\ manager \in Managers(Outputs)
      /\ Outputs \in Nat
 BY Known
<1>2. /\ call \in Calls /\ call.kind = "open" /\ call.step = "flush" /\ call.terminal = t
      /\ call.flushing = {t}
 <2>1. Call("open", "flush", t, 0) \in Calls BY CallTyped
 <2> QED BY <2>1 DEF Flushing, Call, Calls
<1>3. manager.timers \ {t} \in SUBSET Terminals BY <1>1 DEF Managers
<1>4. manager' = [manager EXCEPT !.timers = manager.timers \ {t}] BY DEF OpenNew
<1>5. /\ Sound(manager', Outputs) /\ Spares(manager, manager')
      /\ manager'.objects = manager.objects /\ manager'.sessions = manager.sessions
 BY <1>1, <1>3, <1>4, TimersSound
<1> HIDE DEF call
<1>6. Framed(t) /\ operation'[setting.thread[t]] = call /\ spent'.outputs = Outputs
 <2>1. Hold(t, call) /\ Spend("calls") /\ "calls" \in Kinds \ {"outputs"}
  BY DEF OpenNew, Begin, call, Kinds
 <2> QED BY <1>2, <2>1, HoldFrames DEF OpenNew
<1>7. CallSound(manager', call) BY <1>2, <1>5 DEF CallSound, Emptied, Of, Session, OpenNew
<1>8. \A u \in Terminals \ {t} : ~Awaits(operation[setting.thread[t]], u)
 BY DEF OpenNew, Begin, Awaits
<1>9. Elsewhere(manager, manager', t) BY <1>5, SparesContinues, ContinuesElsewhere
<1>10. ASSUME ~Excepted(manager, t)', ~Evicted(manager', t)
    PROVE  /\ Lined(manager', t) /\ Newest(manager', t, wanted'[t], files'[t])
           /\ Drained(manager', t, call)
 <2>1. Kept(manager, t)
  BY <1>1, <1>5, <1>6, <1>10, KeptSpared
  DEF IInv, TranscriptsSound, Excepted, Framed, Typed, Kinds
 <2>2. call # Idle /\ Drained(manager', t, call) BY <1>2, CallNotIdle DEF Drained, Awaits
 <2> QED BY <1>1, <1>5, <1>10, <2>1, <2>2, KeptSpared DEF Kept, OpenNew
<1> QED BY <1>2, <1>5, <1>6, <1>7, <1>8, <1>9, <1>10, StepKeeps

(* A reset: the terminal has its session, whose empty history is the last   *)
(* to be written.                                                           *)
LEMMA ResetKeeps ==
  ASSUME IInv, NEW t \in Terminals, NEW kind \in {"open", "clear", "restart"},
    NEW mid, NEW s, Begin(t), Reset(kind, mid, s), setting' = setting,
    disposed' = disposed, files' = files, Sound(mid, Outputs),
    Continues(manager, mid, t), s \in DOMAIN mid.objects, mid.objects[s].terminal = t,
    disposed \/ s \in mid.sessions \cup mid.evicted
  PROVE IInv'
<1> DEFINE state == [mid.objects[s] EXCEPT !.history = 0]
           zeroed == [mid EXCEPT !.objects = [mid.objects EXCEPT ![s] = state]]
           pending == [zeroed.pending EXCEPT ![t] = None]
           ready == Waiting(zeroed, zeroed.timers \ {t}, pending)
           cleared == Enqueue(ready, t, 0)
           call == [Call(kind, "persist", t, s) EXCEPT !.waits[t] = cleared.tail[t]]
<1>1. /\ Sound(manager, Outputs) /\ MapSound(manager) /\ manager \in Managers(Outputs)
      /\ Outputs \in Nat /\ mid \in Managers(Outputs) /\ MapSound(mid)
 BY Known DEF Sound, Accounted
<1>2. mid.objects[s] \in SessionStates(Outputs) /\ s \in Nat BY <1>1, SessionTyped
<1>3. /\ state \in SessionStates(Outputs) /\ state.terminal = t
      /\ state.process = mid.objects[s].process /\ state.status = mid.objects[s].status
      /\ state.subprocess = mid.objects[s].subprocess
 BY <1>1, <1>2 DEF SessionStates
<1>4. state.subprocess \in {0, state.process} BY <1>3 DEF Sound, Accounted, ObjectsSound
<1>5. manager' = Enqueue([[mid EXCEPT !.objects[s].history = 0] EXCEPT
                             !.timers = @ \ {t}, !.pending[t] = None], t, 0)
 BY DEF Reset, Persist
<1>6. [mid EXCEPT !.objects[s].history = 0] = zeroed BY <1>1 DEF Managers
<1> HIDE DEF state
<1>7. /\ Sound(zeroed, Outputs) /\ Spares(mid, zeroed)
      /\ zeroed.sessions = mid.sessions /\ zeroed.evicted = mid.evicted
      /\ zeroed.writes = mid.writes /\ zeroed.pending = mid.pending
      /\ zeroed.tail = mid.tail
 BY <1>1, <1>3, <1>4, UpdateSound
<1> HIDE DEF zeroed
<1>8. zeroed \in Managers(Outputs) /\ zeroed.timers \ {t} \in SUBSET Terminals
 BY <1>7 DEF Sound, Managers
<1>9. pending \in [Terminals -> Texts(Outputs)] /\ pending[t] = None
      /\ \A u \in Terminals \ {t} : pending[u] = zeroed.pending[u]
 BY <1>8 DEF Managers, Texts
<1>10. manager' = cleared BY <1>5, <1>6, <1>8 DEF Waiting, Managers
<1> HIDE DEF pending
<1>11. /\ Sound(ready, Outputs) /\ ready.objects = zeroed.objects
       /\ ready.sessions = zeroed.sessions /\ ready.evicted = zeroed.evicted
       /\ ready.writes = zeroed.writes /\ ready.pending = pending
       /\ ready.tail = zeroed.tail
 BY <1>1, <1>7, <1>8, <1>9, PendingSound
<1> HIDE DEF ready
<1>12. /\ 0 \in 0..Outputs /\ ready \in Managers(Outputs) /\ Queued(ready)
 BY <1>1, <1>11 DEF Sound
<1>13. Sound(cleared, Outputs) BY <1>1, <1>11, <1>12, EnqueueSound
<1>14. /\ cleared.tail = [ready.tail EXCEPT ![t] = NewWrite(ready)]
       /\ cleared.objects = zeroed.objects /\ cleared.sessions = zeroed.sessions
       /\ cleared.evicted = zeroed.evicted /\ cleared.pending = pending
 BY <1>1, <1>11, <1>12, EnqueueFields
<1>15. /\ \A u \in Terminals : Lined(ready, u) => Lined(cleared, u)
       /\ \A file : Newest(cleared, t, 0, file)
       /\ \A u \in Terminals : \A text, file :
            u # t /\ Newest(ready, u, text, file) => Newest(cleared, u, text, file)
 BY <1>1, <1>9, <1>11, <1>12, EnqueueKeeps
<1>16. cleared.tail[t] \in Nat /\ \A u \in Terminals \ {t} : cleared.tail[u] = ready.tail[u]
 BY <1>12, <1>14, NewWriteIsNew DEF Managers
<1> HIDE DEF cleared
<1>17. \A u \in Terminals \ {t} :
          /\ cleared.pending[u] = zeroed.pending[u] /\ cleared.tail[u] = zeroed.tail[u]
          /\ Lined(zeroed, u) => Lined(cleared, u)
          /\ \A text, file : Newest(zeroed, u, text, file) => Newest(cleared, u, text, file)
 BY <1>9, <1>11, <1>14, <1>15, <1>16, QueueLeft
<1>18. Continues(manager, zeroed, t) BY <1>1, <1>7, ContinuesThenSpares
<1>19. Elsewhere(manager, cleared, t) BY <1>14, <1>17, <1>18, ContinuesElsewhere, ElsewhereQueues
<1>20. /\ call \in Calls /\ call.step = "persist" /\ call.terminal = t /\ call.session = s
       /\ call.flushing = {}
 <2>1. Call(kind, "persist", t, s) \in Calls BY <1>2, CallTyped
 <2> QED BY <1>16, <2>1 DEF Call, Calls
<1>21. Hold(t, call) /\ wanted' = [wanted EXCEPT ![t] = 0] BY <1>5, <1>10 DEF Reset, Persist
<1> HIDE DEF call
<1>22. Framed(t) /\ operation'[setting.thread[t]] = call /\ spent'.outputs = Outputs
 <2>1. Spend("calls") /\ "calls" \in Kinds \ {"outputs"} BY DEF Begin, Kinds
 <2> QED BY <1>20, <1>21, <2>1, HoldFrames
<1>23. CallSound(cleared, call)
 <2>1. s \in DOMAIN cleared.objects /\ cleared.objects[s].terminal = t BY <1>7, <1>14 DEF Spares
 <2> QED BY <1>7, <1>14, <1>20, <2>1 DEF CallSound, SessionSound
<1>24. \A u \in Terminals \ {t} : ~Awaits(operation[setting.thread[t]], u) BY DEF Begin, Awaits
<1>25. ASSUME ~Excepted(manager, t)', ~Evicted(cleared, t)
    PROVE  /\ Lined(cleared, t) /\ Newest(cleared, t, wanted'[t], files'[t])
           /\ Drained(cleared, t, call)
 <2>1. ~disposed /\ spent.writes = 0 BY <1>22, <1>25 DEF Excepted, Framed, IInv, Typed, Kinds
 <2>2. ~Evicted(zeroed, t) /\ ~Evicted(manager, t)
  BY <1>1, <1>14, <1>18, <1>25 DEF Evicted, Continues, MapSound
 <2>3. Lined(manager, t) BY <2>1, <2>2 DEF IInv, TranscriptsSound, Excepted, Kept
 <2>4. Lined(zeroed, t) BY <1>18, <2>2, <2>3, QueueLeft DEF Continues
 <2>5. Lined(ready, t) BY <1>11, <2>4, LinedSame
 <2>6. wanted'[t] = 0 BY <1>21 DEF IInv, Typed
 <2>7. s \in Session(cleared, t) BY <1>7, <1>14, <1>25, <2>1 DEF Evicted, Session, Spares
 <2> QED BY <1>15, <2>5, <2>6, <2>7 DEF Drained
<1> QED BY <1>10, <1>13, <1>19, <1>20, <1>22, <1>23, <1>24, <1>25, StepKeeps

(* A session of a terminal in the map.                                      *)
LEMMA SessionKnown ==
  ASSUME IInv, NEW t \in Terminals, NEW s \in Session(manager, t)
  PROVE /\ s \in manager.sessions /\ s \in DOMAIN manager.objects /\ s \in Nat
        /\ manager.objects[s].terminal = t
BY Known, SessionTyped DEF Session, MapSound

(* open of a terminal in the map: its session is reset, or left as it is.   *)
LEMMA OpenExistingKeeps == ASSUME IInv, NEW t \in Terminals, OpenExisting(t) PROVE IInv'
<1>1. Sound(manager, Outputs) /\ MapSound(manager) /\ Outputs \in Nat BY Known
<1>2. PICK s \in Session(manager, t) :
         \/ Reset("open", Stop(manager, s), s)
         \/ manager.objects[s].status \in {"exited", "error"} /\ Reset("open", manager, s)
         \/ manager.objects[s].process # 0 /\ UNCHANGED <<manager, operation, wanted>>
 BY DEF OpenExisting
<1>3. /\ s \in manager.sessions /\ s \in DOMAIN manager.objects
      /\ manager.objects[s].terminal = t
 BY SessionKnown
<1>4. Begin(t) /\ UNCHANGED <<setting, files, checks, disposed>> BY DEF OpenExisting
<1>5. CASE Reset("open", Stop(manager, s), s)
 <2>1. Sound(Stop(manager, s), Outputs) /\ Spares(manager, Stop(manager, s))
  BY <1>1, <1>3, StopSound
 <2>2. Continues(manager, Stop(manager, s), t) BY <2>1, SparesContinues
 <2>3. /\ s \in DOMAIN Stop(manager, s).objects /\ Stop(manager, s).objects[s].terminal = t
       /\ s \in Stop(manager, s).sessions \cup Stop(manager, s).evicted
  BY <1>3, <2>1 DEF Spares
 <2> QED BY <1>4, <1>5, <2>1, <2>2, <2>3, ResetKeeps
<1>6. CASE Reset("open", manager, s)
 <2>1. Continues(manager, manager, t) BY SparesItself, SparesContinues
 <2> QED BY <1>1, <1>3, <1>4, <1>6, <2>1, ResetKeeps
<1>7. CASE UNCHANGED <<manager, operation, wanted>>
 <2>1. "calls" \in Kinds /\ Spend("calls") BY <1>4 DEF Begin, Kinds
 <2>2. spent' \in [Kinds -> Nat] /\ spent'.outputs = spent.outputs /\ spent'.writes >= spent.writes
  BY <2>1, SpendCounts DEF Kinds, IInv, Typed
 <2> QED BY <1>1, <1>4, <1>7, <2>2, SparesItself, SparingKeeps
<1> QED BY <1>2, <1>5, <1>6, <1>7

(* clear: the history is emptied, the process goes on.                      *)
LEMMA ClearKeeps == ASSUME IInv, NEW t \in Terminals, Clear(t) PROVE IInv'
<1>1. Sound(manager, Outputs) /\ Outputs \in Nat BY Known
<1>2. PICK s \in Session(manager, t) : Reset("clear", Touch(manager, s), s) BY DEF Clear
<1>3. /\ s \in manager.sessions /\ s \in DOMAIN manager.objects /\ s \in Nat
      /\ manager.objects[s].terminal = t
 BY SessionKnown
<1>4. Sound(Touch(manager, s), Outputs) /\ Spares(manager, Touch(manager, s))
 BY <1>1, <1>3, TouchSound
<1>5. Continues(manager, Touch(manager, s), t) BY <1>4, SparesContinues
<1>6. /\ s \in DOMAIN Touch(manager, s).objects /\ Touch(manager, s).objects[s].terminal = t
      /\ s \in Touch(manager, s).sessions \cup Touch(manager, s).evicted
 BY <1>3, <1>4 DEF Spares
<1> QED BY <1>2, <1>4, <1>5, <1>6, ResetKeeps DEF Clear

(* restart: of a session that is made for it, or stopped.                   *)
LEMMA RestartKeeps == ASSUME IInv, NEW t \in Terminals, RestartTerminal(t) PROVE IInv'
<1>1. Sound(manager, Outputs) /\ Outputs \in Nat BY Known
<1>2. CASE Session(manager, t) = {}
 <2> DEFINE mid == Create(manager, t, 0)
            s == Len(manager.objects) + 1
 <2>1. 0 \in 0..Outputs BY <1>1
 <2>2. /\ Sound(mid, Outputs) /\ Continues(manager, mid, t)
       /\ s \in DOMAIN mid.objects /\ mid.objects[s].terminal = t
       /\ s \in mid.sessions \cup mid.evicted
  BY <1>1, <1>2, <2>1, CreateSound
 <2>3. Reset("restart", mid, s) BY <1>2 DEF RestartTerminal
 <2> HIDE DEF mid, s
 <2> QED BY <2>2, <2>3, ResetKeeps DEF RestartTerminal
<1>3. CASE Session(manager, t) # {}
 <2>1. PICK s \in Session(manager, t) : Reset("restart", Stop(manager, s), s)
  BY <1>3 DEF RestartTerminal
 <2>2. /\ s \in manager.sessions /\ s \in DOMAIN manager.objects
       /\ manager.objects[s].terminal = t
  BY SessionKnown
 <2>3. Sound(Stop(manager, s), Outputs) /\ Spares(manager, Stop(manager, s))
  BY <1>1, <2>2, StopSound
 <2>4. Continues(manager, Stop(manager, s), t) BY <2>3, SparesContinues
 <2>5. /\ s \in DOMAIN Stop(manager, s).objects /\ Stop(manager, s).objects[s].terminal = t
       /\ s \in Stop(manager, s).sessions \cup Stop(manager, s).evicted
  BY <2>2, <2>3 DEF Spares
 <2> QED BY <2>1, <2>3, <2>4, <2>5, ResetKeeps DEF RestartTerminal
<1> QED BY <1>2, <1>3

(* The queue of a terminal goes on like the others.                         *)
LEMMA ContinuesQueue ==
  ASSUME NEW m, MapSound(m), NEW new, NEW t, Continues(m, new, t), NEW u \in Terminals
  PROVE /\ Evicted(m, u) => Evicted(new, u)
        /\ ~Evicted(new, u) =>
              /\ new.pending[u] = m.pending[u] /\ new.tail[u] = m.tail[u]
              /\ Lined(m, u) => Lined(new, u)
              /\ \A text, file : Newest(m, u, text, file) => Newest(new, u, text, file)
<1>1. Evicted(m, u) => Evicted(new, u) BY DEF Evicted, Continues, MapSound
<1>2. ASSUME ~Evicted(new, u)
    PROVE  /\ new.pending[u] = m.pending[u] /\ new.tail[u] = m.tail[u]
           /\ Lined(m, u) => Lined(new, u)
           /\ \A text, file : Newest(m, u, text, file) => Newest(new, u, text, file)
 BY <1>2, QueueLeft DEF Continues
<1> QED BY <1>1, <1>2

(* What is kept of a terminal, if nothing is excepted after a step.         *)
LEMMA KeptBefore ==
  ASSUME IInv, NEW t \in Terminals, ~Excepted(manager, t)', Framed(t), ~Evicted(manager, t)
  PROVE Kept(manager, t) /\ ~disposed
<1>1. ~disposed /\ spent.writes = 0 BY DEF Excepted, Framed, IInv, Typed, Kinds
<1> QED BY <1>1 DEF IInv, TranscriptsSound, Excepted

(* close: the session is stopped, and what it left is flushed.              *)
LEMMA CloseKeeps == ASSUME IInv, NEW t \in Terminals, Close(t) PROVE IInv'
<1>1. /\ Sound(manager, Outputs) /\ MapSound(manager) /\ Outputs \in Nat BY Known
<1>2. PICK s \in {0} \cup Session(manager, t), deletes \in BOOLEAN :
         /\ s = 0 <=> Session(manager, t) = {}
         /\ LET m == IF s = 0 THEN manager ELSE Discard(manager, s)
            IN  manager' = [m EXCEPT !.timers = @ \ {t}]
         /\ Hold(t, Flushing("close", t, {t}, deletes))
 BY DEF Close
<1> DEFINE mid == IF s = 0 THEN manager ELSE Discard(manager, s)
           call == Flushing("close", t, {t}, deletes)
<1>3. Sound(mid, Outputs) /\ Continues(manager, mid, t) /\ Session(mid, t) = {}
 <2>1. CASE s = 0 BY <1>1, <1>2, <2>1, SparesItself, SparesContinues
 <2>2. CASE s # 0
  <3>1. /\ s \in manager.sessions /\ s \in DOMAIN manager.objects
        /\ manager.objects[s].terminal = t
   BY <2>2, SessionKnown
  <3>2. /\ Sound(mid, Outputs) /\ Continues(manager, mid, t)
        /\ s \notin mid.sessions /\ mid.sessions \subseteq manager.sessions
   BY <1>1, <2>2, <3>1, DiscardSound
  <3> HIDE DEF mid
  <3> QED BY <1>1, <3>1, <3>2 DEF Session, MapSound, Continues
 <2> QED BY <2>1, <2>2
<1>4. manager' = [mid EXCEPT !.timers = mid.timers \ {t}] BY <1>2
<1> HIDE DEF mid
<1>5. mid.timers \ {t} \in SUBSET Terminals /\ MapSound(mid)
 BY <1>3 DEF Sound, Accounted, Managers
<1>6. /\ Sound(manager', Outputs) /\ Spares(mid, manager')
      /\ manager'.objects = mid.objects /\ manager'.sessions = mid.sessions
 BY <1>1, <1>3, <1>4, <1>5, TimersSound
<1>7. Continues(manager, manager', t) BY <1>1, <1>3, <1>5, <1>6, ContinuesThenSpares
<1>8. /\ call \in Calls /\ call.kind = "close" /\ call.step = "flush" /\ call.terminal = t
      /\ call.flushing = {t}
 <2>1. Call("close", "flush", t, 0) \in Calls BY CallTyped
 <2> QED BY <2>1 DEF Flushing, Call, Calls
<1>9. Hold(t, call) BY <1>2
<1> HIDE DEF call
<1>10. Framed(t) /\ operation'[setting.thread[t]] = call /\ spent'.outputs = Outputs
 <2>1. Spend("calls") /\ "calls" \in Kinds \ {"outputs"} BY DEF Close, Begin, Kinds
 <2> QED BY <1>8, <1>9, <2>1, HoldFrames DEF Close
<1>11. CallSound(manager', call) BY <1>3, <1>6, <1>8 DEF CallSound, Emptied, Of, Session
<1>12. \A u \in Terminals \ {t} : ~Awaits(operation[setting.thread[t]], u)
 BY DEF Close, Begin, Awaits
<1>13. Elsewhere(manager, manager', t) BY <1>7, ContinuesElsewhere
<1>14. ASSUME ~Excepted(manager, t)', ~Evicted(manager', t)
    PROVE  /\ Lined(manager', t) /\ Newest(manager', t, wanted'[t], files'[t])
           /\ Drained(manager', t, call)
 <2>1. ~Evicted(manager, t) BY <1>1, <1>7, <1>14, ContinuesQueue
 <2>2. Kept(manager, t) BY <1>10, <1>14, <2>1, KeptBefore
 <2>3. Drained(manager', t, call) BY <1>8, CallNotIdle DEF Drained, Awaits
 <2>4. Lined(manager', t) /\ Newest(manager', t, wanted[t], files[t])
  BY <1>1, <1>7, <1>14, <2>2, ContinuesQueue DEF Kept
 <2> QED BY <2>3, <2>4 DEF Close
<1> QED BY <1>6, <1>8, <1>10, <1>11, <1>12, <1>13, <1>14, StepKeeps

(* close of a thread begins: its terminals in the map are yet to be stopped. *)
LEMMA CloseThreadKeeps == ASSUME IInv, NEW t \in Terminals, CloseThread(t) PROVE IInv'
<1> DEFINE own == {s \in manager.sessions : manager.objects[s].terminal \in Of(setting.thread[t])}
           keys == {manager.objects[s].terminal : s \in own}
<1>1. /\ Sound(manager, Outputs) /\ MapSound(manager) /\ Outputs \in Nat BY Known
<1>2. PICK deletes \in BOOLEAN :
         Hold(t, [Flushing("closeThread", t, keys, deletes) EXCEPT !.step = "stopping"])
 BY DEF CloseThread
<1> DEFINE call == [Flushing("closeThread", t, keys, deletes) EXCEPT !.step = "stopping"]
<1>3. /\ keys \subseteq Of(setting.thread[t]) /\ Of(setting.thread[t]) \subseteq Terminals
      /\ \A u \in Of(setting.thread[t]) \ keys : Session(manager, u) = {}
 BY DEF Of, Session
<1>4. manager' = manager BY DEF CloseThread
<1> HIDE DEF keys
<1>5. /\ call \in Calls /\ call.kind = "closeThread" /\ call.step = "stopping"
      /\ call.terminal = t /\ call.flushing = keys
 <2>1. Call("closeThread", "flush", t, 0) \in Calls /\ keys \in SUBSET Terminals
  BY <1>3, CallTyped
 <2> QED BY <2>1 DEF Flushing, Call, Calls
<1>6. Hold(t, call) BY <1>2
<1> HIDE DEF call
<1>7. Framed(t) /\ operation'[setting.thread[t]] = call /\ spent'.outputs = Outputs
 <2>1. Spend("calls") /\ "calls" \in Kinds \ {"outputs"} BY DEF CloseThread, Begin, Kinds
 <2> QED BY <1>5, <1>6, <2>1, HoldFrames DEF CloseThread
<1>8. CallSound(manager, call) BY <1>3, <1>5 DEF CallSound, Emptied
<1>9. \A u \in Terminals : ~Awaits(operation[setting.thread[t]], u)
 BY DEF CloseThread, Begin, Awaits
<1>10. Elsewhere(manager, manager, t) BY SparesItself, SparesContinues, ContinuesElsewhere
<1>11. ASSUME ~Excepted(manager, t)', ~Evicted(manager', t)
    PROVE  /\ Lined(manager, t) /\ Newest(manager, t, wanted'[t], files'[t])
           /\ Drained(manager, t, call)
 <2>1. Kept(manager, t) BY <1>4, <1>7, <1>11, KeptBefore
 <2> QED BY <1>9, <2>1 DEF Kept, Drained, CloseThread
<1> QED BY <1>1, <1>4, <1>5, <1>7, <1>8, <1>9, <1>10, <1>11, StepKeeps


--------------------
(* The terminals: the steps of the calls.                                   *)
(* What is known of the call that holds the lock of a terminal's thread.    *)
LEMMA HeldKnown ==
  ASSUME IInv, NEW t \in Terminals, operation[setting.thread[t]] # Idle
  PROVE LET call == operation[setting.thread[t]]
        IN  /\ call \in Calls /\ CallSound(manager, call)
            /\ setting.thread[call.terminal] = setting.thread[t]
            /\ call.flushing \subseteq Terminals /\ call.waits \in [Terminals -> Nat]
BY Known DEF IInv, Typed, CallsSound, Calls

LEMMA AtHeld ==
  ASSUME NEW t, NEW step, At(t, step), step # "idle" PROVE operation[setting.thread[t]] # Idle
BY DEF At, Idle

(* A call of a thread stops the next session, or begins to flush.           *)
LEMMA StopNextKeeps == ASSUME IInv, NEW t \in Terminals, StopNext(t) PROVE IInv'
<1> DEFINE call == operation[setting.thread[t]]
           own == {s \in manager.sessions : manager.objects[s].terminal \in call.flushing}
<1>1. /\ Sound(manager, Outputs) /\ MapSound(manager) /\ Outputs \in Nat
      /\ manager \in Managers(Outputs)
 BY Known
<1>2. /\ call.step = "stopping" /\ call.terminal = t /\ call # Idle
      /\ UNCHANGED <<setting, files, checks, spent, wanted, disposed>>
 BY AtHeld DEF StopNext, At
<1>3. /\ call \in Calls /\ CallSound(manager, call) /\ call.flushing \subseteq Terminals
      /\ call.kind = "closeThread" /\ call.flushing \subseteq Of(setting.thread[t])
      /\ Emptied(call) = Of(setting.thread[t])
      /\ \A u \in Emptied(call) \ call.flushing : Session(manager, u) = {}
 <2>1. call \in Calls /\ CallSound(manager, call) /\ call.flushing \subseteq Terminals
  BY <1>2, HeldKnown
 <2> QED BY <1>2, <2>1 DEF CallSound, Emptied
<1>4. CASE \E s \in own : manager' = Discard(manager, s) /\ UNCHANGED operation
 <2>1. PICK s \in own : manager' = Discard(manager, s) /\ UNCHANGED operation BY <1>4
 <2>0. PICK u \in call.flushing : u = manager.objects[s].terminal OBVIOUS
 <2>2. /\ s \in DOMAIN manager.objects /\ u \in call.flushing /\ u \in Terminals
       /\ u = manager.objects[s].terminal /\ setting.thread[u] = setting.thread[t]
  BY <1>1, <1>3, <2>0 DEF MapSound, Of
 <2>3. /\ Sound(manager', Outputs) /\ Continues(manager, manager', u)
       /\ manager'.sessions \subseteq manager.sessions
  BY <1>1, <2>1, <2>2, DiscardSound
 <2>4. operation'[setting.thread[u]] = call BY <2>1, <2>2
 <2> HIDE DEF call, own
 <2>5. Framed(u) /\ spent'.outputs = Outputs BY <1>2, <2>1, <2>2, FreeFrames
 <2>6. CallSound(manager', call)
  <3>1. \A x \in Emptied(call) \ call.flushing : Session(manager', x) = {}
   BY <1>1, <1>3, <2>3 DEF Session, Continues, MapSound
  <3> QED BY <1>2, <1>3, <3>1 DEF CallSound
 <2>7. ASSUME ~Excepted(manager, u)', ~Evicted(manager', u)
     PROVE  /\ Lined(manager', u) /\ Newest(manager', u, wanted'[u], files'[u])
            /\ Drained(manager', u, call)
  <3>1. ~Evicted(manager, u) BY <1>1, <2>2, <2>3, <2>7, ContinuesQueue
  <3>2. Kept(manager, u) BY <2>2, <2>5, <2>7, <3>1, KeptBefore
  <3>3. Drained(manager', u, call) BY <1>2, <2>2 DEF Drained, Awaits
  <3>4. Lined(manager', u) /\ Newest(manager', u, wanted[u], files[u])
   BY <1>1, <2>2, <2>3, <2>7, <3>2, ContinuesQueue DEF Kept
  <3> QED BY <1>2, <3>3, <3>4
 <2>8. Elsewhere(manager, manager', u) BY <2>3, ContinuesElsewhere
 <2>9. setting.thread[call.terminal] = setting.thread[u] BY <1>2, <2>2
 <2>10. operation[setting.thread[u]] = call BY <2>2 DEF call
 <2> QED BY <2>2, <2>3, <2>4, <2>5, <2>6, <2>7, <2>8, <2>9, <2>10, StepKeeps
<1>5. CASE /\ own = {}
           /\ manager' = [manager EXCEPT !.timers = @ \ call.flushing]
           /\ Hold(t, [call EXCEPT !.step = "flush"])
 <2> DEFINE next == [call EXCEPT !.step = "flush"]
 <2>1. /\ next \in Calls /\ next.kind = call.kind /\ next.step = "flush"
       /\ next.terminal = t /\ next.flushing = call.flushing
  BY <1>2, <1>3 DEF Calls
 <2>2. Hold(t, next) BY <1>5
 <2>3. manager.timers \ call.flushing \in SUBSET Terminals
       /\ manager' = [manager EXCEPT !.timers = manager.timers \ call.flushing]
  BY <1>1, <1>5 DEF Managers
 <2>4. \A u \in call.flushing : Session(manager, u) = {} BY <1>5 DEF Session
 <2> HIDE DEF call, own, next
 <2>5. /\ Sound(manager', Outputs) /\ Spares(manager, manager')
       /\ manager'.objects = manager.objects /\ manager'.sessions = manager.sessions
  BY <1>1, <2>3, TimersSound
 <2>6. Framed(t) /\ operation'[setting.thread[t]] = next /\ spent'.outputs = Outputs
  BY <1>2, <2>1, <2>2, HoldFrames
 <2>7. CallSound(manager', next) BY <1>3, <2>1, <2>4, <2>5 DEF CallSound, Emptied, Session
 <2>8. call # Idle /\ next # Idle /\ operation[setting.thread[t]] = call
  BY <1>2, <2>1, CallNotIdle DEF call
 <2>9. \A u : Awaits(call, u) <=> Awaits(next, u) BY <2>1, <2>8 DEF Awaits
 <2>10. Elsewhere(manager, manager', t) BY <2>5, SparesContinues, ContinuesElsewhere
 <2>11. ASSUME ~Excepted(manager, t)', ~Evicted(manager', t)
     PROVE  /\ Lined(manager', t) /\ Newest(manager', t, wanted'[t], files'[t])
            /\ Drained(manager', t, next)
  <3>1. ~Evicted(manager, t) BY <1>1, <2>5, <2>11, KeptSpared
  <3>2. Kept(manager, t) BY <2>6, <2>11, <3>1, KeptBefore
  <3>3. /\ Lined(manager', t) /\ Newest(manager', t, wanted[t], files[t])
        /\ Drained(manager', t, call)
   BY <1>1, <2>5, <2>8, <2>11, <3>2, KeptSpared DEF Kept
  <3> QED BY <1>2, <2>9, <3>3 DEF Drained
 <2> QED BY <1>2, <2>1, <2>5, <2>6, <2>7, <2>8, <2>9, <2>10, <2>11, StepKeeps
<1> QED BY <1>4, <1>5 DEF StopNext

(* What waits to be written is put into the queue.                          *)
Moved(m, t, timers) == Enqueue(Waiting(m, timers, [m.pending EXCEPT ![t] = None]), t, m.pending[t])

LEMMA MovedSound ==
  ASSUME NEW n \in Nat, NEW m, Sound(m, n), NEW t \in Terminals, m.pending[t] # None,
    NEW timers \in SUBSET Terminals
  PROVE LET new == Moved(m, t, timers)
        IN  /\ Sound(new, n) /\ new.objects = m.objects /\ new.sessions = m.sessions
            /\ new.evicted = m.evicted /\ new.tail[t] \in Nat
            /\ Elsewhere(m, new, t) /\ SparesSessions(m, new)
            /\ Lined(m, t) => Lined(new, t)
            /\ \A text, file : Newest(m, t, text, file) => Newest(new, t, text, file)
<1> DEFINE pending == [m.pending EXCEPT ![t] = None]
           mid == Waiting(m, timers, pending)
           new == Enqueue(mid, t, m.pending[t])
<1>1. /\ m \in Managers(n) /\ MapSound(m) /\ m.pending[t] \in 0..n
      /\ pending \in [Terminals -> Texts(n)] /\ pending[t] = None
      /\ \A u \in Terminals \ {t} : pending[u] = m.pending[u]
 BY DEF Sound, Accounted, Managers, Texts
<1> HIDE DEF pending
<1>2. /\ Sound(mid, n) /\ mid.objects = m.objects /\ mid.sessions = m.sessions
      /\ mid.evicted = m.evicted /\ mid.writes = m.writes /\ mid.pending = pending
      /\ mid.tail = m.tail
 BY <1>1, PendingSound
<1> HIDE DEF mid
<1>3. mid \in Managers(n) /\ Queued(mid) BY <1>2 DEF Sound
<1>4. /\ Sound(new, n) /\ new.tail = [mid.tail EXCEPT ![t] = NewWrite(mid)]
      /\ new.objects = mid.objects /\ new.sessions = mid.sessions
      /\ new.evicted = mid.evicted /\ new.pending = mid.pending
 <2>1. Sound(new, n) BY <1>1, <1>2, EnqueueSound
 <2>2. /\ new.tail = [mid.tail EXCEPT ![t] = NewWrite(mid)]
       /\ new.objects = mid.objects /\ new.sessions = mid.sessions
       /\ new.evicted = mid.evicted /\ new.pending = mid.pending
  BY <1>1, <1>3, EnqueueFields
 <2> QED BY <2>1, <2>2
<1>5. /\ \A u \in Terminals : Lined(mid, u) => Lined(new, u)
      /\ \A file : Newest(new, t, m.pending[t], file)
      /\ \A u \in Terminals : \A text, file :
           u # t /\ Newest(mid, u, text, file) => Newest(new, u, text, file)
 BY <1>1, <1>2, <1>3, EnqueueKeeps
<1>6. new.tail[t] \in Nat /\ \A u \in Terminals \ {t} : new.tail[u] = m.tail[u]
 BY <1>2, <1>3, <1>4, NewWriteIsNew DEF Managers
<1> HIDE DEF new
<1>7. \A u \in Terminals \ {t} :
        /\ new.pending[u] = m.pending[u] /\ new.tail[u] = m.tail[u]
        /\ Lined(m, u) => Lined(new, u)
        /\ \A text, file : Newest(m, u, text, file) => Newest(new, u, text, file)
 BY <1>1, <1>2, <1>4, <1>5, <1>6, QueueLeft
<1>8. Elsewhere(m, m, t) BY SparesItself, SparesContinues, ContinuesElsewhere
<1>9. Elsewhere(m, new, t) BY <1>2, <1>4, <1>7, <1>8, ElsewhereQueues
<1>10. SparesSessions(m, new) BY <1>2, <1>4 DEF SparesSessions
<1>11. Lined(m, t) => Lined(new, t) BY <1>2, <1>5, LinedSame
<1>12. \A text, file : Newest(m, t, text, file) => Newest(new, t, text, file) BY <1>5 DEF Newest
<1> QED BY <1>2, <1>4, <1>6, <1>9, <1>10, <1>11, <1>12 DEF Moved, new, mid, pending

(* A turn of the loop that flushes: what waits is written, or a write is    *)
(* waited for, or nothing is left.                                          *)
LEMMA FlushKeeps == ASSUME IInv, NEW t \in Terminals, Flush(t) PROVE IInv'
<1> DEFINE call == operation[setting.thread[t]]
<1>1. /\ Sound(manager, Outputs) /\ MapSound(manager) /\ Outputs \in Nat
      /\ manager \in Managers(Outputs)
 BY Known
<1>2. /\ call.step = "flush" /\ call # Idle /\ t \in call.flushing
      /\ UNCHANGED <<setting, files, checks, spent, wanted, disposed>>
 BY AtHeld DEF Flush, At
<1>3. /\ call \in Calls /\ CallSound(manager, call) /\ call.flushing \subseteq Terminals
      /\ setting.thread[call.terminal] = setting.thread[t]
 BY <1>2, HeldKnown
<1>4. Elsewhere(manager, manager, t) BY SparesItself, SparesContinues, ContinuesElsewhere
<1>5. ASSUME NEW next \in Calls, SameCall(call, next), Hold(t, next),
             Sound(manager', Outputs), Elsewhere(manager, manager', t),
             SparesSessions(manager, manager'),
             Lined(manager, t) => Lined(manager', t),
             \A text, file : Newest(manager, t, text, file) => Newest(manager', t, text, file)
    PROVE  IInv'
 <2>1. Framed(t) /\ operation'[setting.thread[t]] = next /\ spent'.outputs = Outputs
  BY <1>2, <1>5, HoldFrames
 <2>2. CallSound(manager', call) BY <1>1, <1>3, <1>5, CallSpared
 <2>3. CallSound(manager', next) /\ setting.thread[next.terminal] = setting.thread[t]
  BY <1>2, <1>3, <1>5, <2>2, SameCallSound DEF SameCall
 <2>4. \A u : Awaits(call, u) <=> Awaits(next, u) BY <1>5 DEF SameCall, Awaits
 <2>5. Awaits(next, t) BY <1>2, <2>4 DEF Awaits
 <2>6. Evicted(manager, t) => Evicted(manager', t)
  BY <1>1, <1>5 DEF SparesSessions, MapSound, Evicted
 <2>7. ASSUME ~Excepted(manager, t)', ~Evicted(manager', t)
     PROVE  /\ Lined(manager', t) /\ Newest(manager', t, wanted'[t], files'[t])
            /\ Drained(manager', t, next)
  <3>1. Kept(manager, t) BY <2>1, <2>6, <2>7, KeptBefore
  <3> QED BY <1>2, <1>5, <2>5, <3>1 DEF Kept, Drained
 <2> HIDE DEF call
 <2>8. operation[setting.thread[t]] = call BY DEF call
 <2> QED BY <1>5, <2>1, <2>3, <2>4, <2>7, <2>8, StepKeeps
<1>6. SparesSessions(manager, manager) BY SparesItself, SparesSessionsToo
<1>7. \A wait \in Nat : /\ [call EXCEPT !.waits[t] = wait] \in Calls
                        /\ SameCall(call, [call EXCEPT !.waits[t] = wait])
 <2> SUFFICES ASSUME NEW wait \in Nat
     PROVE  /\ [call EXCEPT !.waits[t] = wait] \in Calls
            /\ SameCall(call, [call EXCEPT !.waits[t] = wait])
  OBVIOUS
 <2> DEFINE next == [call EXCEPT !.waits[t] = wait]
 <2>1. /\ next \in Calls /\ next.kind = call.kind /\ next.step = call.step
       /\ next.terminal = call.terminal /\ next.session = call.session
       /\ next.flushing = call.flushing
  BY <1>3 DEF Calls
 <2> QED BY <1>2, <2>1, CallNotIdle DEF SameCall
<1>8. CASE manager.pending[t] # None
 <2> DEFINE new == Moved(manager, t, manager.timers)
 <2>1. manager.timers \in SUBSET Terminals BY <1>1 DEF Managers
 <2>2. /\ Sound(new, Outputs) /\ new.tail[t] \in Nat
       /\ Elsewhere(manager, new, t) /\ SparesSessions(manager, new)
       /\ Lined(manager, t) => Lined(new, t)
       /\ \A text, file : Newest(manager, t, text, file) => Newest(new, t, text, file)
  BY <1>1, <1>8, <2>1, MovedSound
 <2>3. Waiting(manager, manager.timers, [manager.pending EXCEPT ![t] = None])
           = [manager EXCEPT !.pending[t] = None]
  BY <1>1 DEF Waiting, Managers
 <2>4. manager' = new /\ Hold(t, [call EXCEPT !.waits[t] = new.tail[t]])
  BY <1>8, <2>3 DEF Flush, Moved
 <2> HIDE DEF new, call
 <2> QED BY <1>5, <1>7, <2>2, <2>4
<1>9. CASE manager.pending[t] = None /\ manager.tail[t] # 0
 <2>1. manager' = manager /\ Hold(t, [call EXCEPT !.waits[t] = manager.tail[t]]) BY <1>9 DEF Flush
 <2>2. manager.tail[t] \in Nat BY <1>1 DEF Managers
 <2> HIDE DEF call
 <2> QED BY <1>1, <1>4, <1>5, <1>6, <1>7, <2>1, <2>2
<1>10. CASE manager.pending[t] = None /\ manager.tail[t] = 0
 <2> DEFINE next == [call EXCEPT !.flushing = call.flushing \ {t}]
 <2>1. manager' = manager /\ Hold(t, next) BY <1>10 DEF Flush
 <2>2. /\ next \in Calls /\ next.kind = call.kind /\ next.step = "flush"
       /\ next.terminal = call.terminal /\ next.flushing = call.flushing \ {t}
  BY <1>2, <1>3 DEF Calls
 <2> HIDE DEF next
 <2>3. Framed(t) /\ operation'[setting.thread[t]] = next /\ spent'.outputs = Outputs
  BY <1>2, <2>1, <2>2, HoldFrames
 <2>4. CallSound(manager, next) /\ setting.thread[next.terminal] = setting.thread[t]
  BY <1>2, <1>3, <2>2 DEF CallSound, Emptied
 <2>5. \A u \in Terminals \ {t} : Awaits(call, u) => Awaits(next, u)
  BY <2>2, CallNotIdle DEF Awaits
 <2>6. ASSUME ~Excepted(manager, t)', ~Evicted(manager', t)
     PROVE  /\ Lined(manager, t) /\ Newest(manager, t, wanted'[t], files'[t])
            /\ Drained(manager, t, next)
  <3>1. Kept(manager, t) BY <2>1, <2>3, <2>6, KeptBefore
  <3> QED BY <1>2, <1>10, <3>1 DEF Kept, Drained
 <2> HIDE DEF call
 <2>7. operation[setting.thread[t]] = call BY DEF call
 <2> QED BY <1>1, <1>4, <2>1, <2>3, <2>4, <2>5, <2>6, <2>7, StepKeeps
<1> QED BY <1>8, <1>9, <1>10

(* The timer of what waits to be written.                                   *)
LEMMA WritePendingKeeps == ASSUME IInv, NEW t \in Terminals, WritePending(t) PROVE IInv'
<1>1. /\ Sound(manager, Outputs) /\ MapSound(manager) /\ Outputs \in Nat
      /\ manager \in Managers(Outputs) /\ manager.timers \ {t} \in SUBSET Terminals
 BY Known DEF Managers
<1>2. UNCHANGED <<setting, operation, files, checks, spent, wanted, disposed>> BY DEF WritePending
<1>3. CASE manager.pending[t] = None
 <2>1. manager' = [manager EXCEPT !.timers = manager.timers \ {t}]
  BY <1>1, <1>3 DEF WritePending, Managers
 <2>2. Sound(manager', Outputs) /\ Spares(manager, manager') BY <1>1, <2>1, TimersSound
 <2>3. spent \in [Kinds -> Nat] /\ spent.writes >= spent.writes BY DEF IInv, Typed, Kinds
 <2> QED BY <1>2, <2>2, <2>3, SparingKeeps
<1>4. CASE manager.pending[t] # None
 <2> DEFINE new == Moved(manager, t, manager.timers \ {t})
            call == operation[setting.thread[t]]
 <2>1. /\ Sound(new, Outputs) /\ new.objects = manager.objects
       /\ new.sessions = manager.sessions /\ new.evicted = manager.evicted
       /\ Elsewhere(manager, new, t) /\ SparesSessions(manager, new)
       /\ Lined(manager, t) => Lined(new, t)
       /\ \A text, file : Newest(manager, t, text, file) => Newest(new, t, text, file)
  BY <1>1, <1>4, MovedSound
 <2>2. Waiting(manager, manager.timers \ {t}, [manager.pending EXCEPT ![t] = None])
           = [[manager EXCEPT !.timers = @ \ {t}] EXCEPT !.pending[t] = None]
       /\ [manager EXCEPT !.timers = @ \ {t}].pending = manager.pending
  BY <1>1 DEF Waiting, Managers
 <2>3. manager' = new BY <1>4, <2>2 DEF WritePending, Moved
 <2> HIDE DEF new
 <2>4. Framed(t) /\ spent'.outputs = Outputs BY <1>2, FreeFrames
 <2>5. call # Idle => /\ setting.thread[call.terminal] = setting.thread[t]
                      /\ CallSound(manager', call)
  BY <1>1, <2>1, <2>3, HeldKnown, CallSpared
 <2>6. ASSUME ~Excepted(manager, t)', ~Evicted(manager', t)
     PROVE  /\ Lined(manager', t) /\ Newest(manager', t, wanted'[t], files'[t])
            /\ Drained(manager', t, call)
  <3>1. ~Evicted(manager, t) BY <2>1, <2>3, <2>6 DEF Evicted
  <3>2. Kept(manager, t) BY <2>4, <2>6, <3>1, KeptBefore
  <3>3. Session(manager', t) = {} => Awaits(call, t)
   BY <1>4, <2>1, <2>3, <3>2 DEF Session, Kept, Drained
  <3> QED BY <1>2, <2>1, <2>3, <3>2, <3>3 DEF Kept, Drained
 <2>7. operation'[setting.thread[t]] = call /\ operation[setting.thread[t]] = call BY <1>2
 <2> HIDE DEF call
 <2> QED BY <2>1, <2>3, <2>4, <2>5, <2>6, <2>7, StepKeeps
<1> QED BY <1>3, <1>4

(* open goes on: nothing is left to be written, so that the file holds what *)
(* the session is made of.                                                  *)
LEMMA ReadHistoryKeeps == ASSUME IInv, NEW t \in Terminals, ReadHistory(t) PROVE IInv'
<1> DEFINE call == operation[setting.thread[t]]
           history == IF files[t] = None THEN 0 ELSE files[t]
           s == Len(manager.objects) + 1
           mid == Create(manager, t, history)
           next == Call("open", "spawn", t, s)
<1>1. /\ Sound(manager, Outputs) /\ MapSound(manager) /\ Outputs \in Nat BY Known
<1>2. /\ call.step = "flush" /\ call # Idle /\ call.terminal = t /\ call.flushing = {}
      /\ call.kind = "open"
      /\ UNCHANGED <<setting, files, checks, spent, wanted, disposed>>
 BY AtHeld DEF ReadHistory, Flushed, At
<1>3. Session(manager, t) = {} BY <1>2, HeldKnown DEF CallSound, Emptied
<1>4. history \in 0..Outputs BY <1>1 DEF IInv, Typed, Texts, Outputs
<1>5. manager' = Start(mid, s) /\ Hold(t, next) BY DEF ReadHistory
<1>6. \A u : ~Awaits(call, u) BY <1>2 DEF Awaits
<1> HIDE DEF history, next, call
<1>7. /\ Sound(mid, Outputs) /\ Continues(manager, mid, t)
      /\ s \in DOMAIN mid.objects /\ mid.objects[s].terminal = t
      /\ s \in mid.sessions \cup mid.evicted
 BY <1>1, <1>3, <1>4, CreateSound
<1> HIDE DEF mid, s
<1>8. /\ Sound(manager', Outputs) /\ Spares(mid, manager') /\ manager'.objects[s].process = 0
 BY <1>1, <1>5, <1>7, StartSound
<1>9. Continues(manager, manager', t)
 BY <1>1, <1>7, <1>8, ContinuesThenSpares DEF Sound, Accounted
<1>10. /\ next \in Calls /\ next.step = "spawn" /\ next.terminal = t /\ next.session = s
       /\ next.flushing = {}
 <2>1. mid \in Managers(Outputs) BY <1>7 DEF Sound
 <2>2. s \in Nat BY <1>1, <1>7, <2>1, SessionTyped
 <2> QED BY <2>2, CallTyped DEF next
<1>11. Framed(t) /\ operation'[setting.thread[t]] = next /\ spent'.outputs = Outputs
 BY <1>2, <1>5, <1>10, HoldFrames
<1>12. CallSound(manager', next) BY <1>7, <1>8, <1>10 DEF CallSound, SessionSound, Spares
<1>13. operation[setting.thread[t]] = call BY DEF call
<1>14. Elsewhere(manager, manager', t) BY <1>9, ContinuesElsewhere
<1>15. ASSUME ~Excepted(manager, t)', ~Evicted(manager', t)
    PROVE  /\ Lined(manager', t) /\ Newest(manager', t, wanted'[t], files'[t])
           /\ Drained(manager', t, next)
 <2>1. ~Evicted(manager, t) BY <1>1, <1>9, <1>15, ContinuesQueue
 <2>2. Kept(manager, t) BY <1>11, <1>15, <2>1, KeptBefore
 <2>3. manager.pending[t] = None /\ manager.tail[t] = 0
  BY <1>3, <1>6, <1>13, <2>2 DEF Kept, Drained
 <2>4. Drained(manager', t, next) BY <1>1, <1>9, <1>15, <2>3, ContinuesQueue DEF Drained
 <2>5. Lined(manager', t) /\ Newest(manager', t, wanted[t], files[t])
  BY <1>1, <1>9, <1>15, <2>2, ContinuesQueue DEF Kept
 <2> QED BY <1>2, <2>4, <2>5
<1> QED BY <1>6, <1>8, <1>10, <1>11, <1>12, <1>13, <1>14, <1>15, StepKeeps

(* close ends: nothing is left to be written for the files it deletes.      *)
LEMMA ClosedKeeps == ASSUME IInv, NEW t \in Terminals, Closed(t) PROVE IInv'
<1> DEFINE call == operation[setting.thread[t]]
           keys == Emptied(call)
<1>1. /\ Sound(manager, Outputs) /\ Outputs \in Nat
      /\ setting.thread[t] \in Threads /\ \A u \in Terminals : setting.thread[u] \in Threads
 BY Known
<1>2. /\ call.step = "flush" /\ call # Idle /\ call.terminal = t /\ call.flushing = {}
      /\ Hold(t, Idle) /\ UNCHANGED <<setting, manager, checks, disposed>>
 BY AtHeld DEF Closed, Flushed, At
<1>3. /\ keys \subseteq Terminals /\ \A u \in keys : setting.thread[u] = setting.thread[t]
      /\ \A u \in keys : Session(manager, u) = {}
 BY <1>2, HeldKnown DEF CallSound, Emptied, Of
<1> DEFINE without(keep) == [x \in Terminals |-> IF x \in keys \ keep THEN None ELSE files[x]]
<1>4. \/ /\ \E kept \in SUBSET keys :
               /\ IF kept = {} THEN UNCHANGED spent ELSE Spend("writes")
               /\ files' = without(kept)
         /\ wanted' = [x \in Terminals |-> IF x \in keys THEN None ELSE wanted[x]]
      \/ UNCHANGED <<files, wanted, spent>>
 BY <1>2 DEF Closed, Flushed, Emptied
<1>5. \A u : ~Awaits(call, u) BY <1>2 DEF Awaits
<1> HIDE DEF keys, call
<1>14. /\ spent' \in [Kinds -> Nat] /\ spent'.outputs = spent.outputs
       /\ spent' = spent \/ spent'.writes > 0
 <2>1. spent \in [Kinds -> Nat] /\ {"writes", "outputs"} \subseteq Kinds BY DEF IInv, Typed, Kinds
 <2>2. CASE spent' = spent BY <2>1, <2>2
 <2>3. CASE Spend("writes") BY <2>1, <2>3, SpendCounts
 <2> QED BY <1>4, <2>2, <2>3
<1>6. /\ files' \in [Terminals -> Texts(Outputs)] /\ wanted' \in [Terminals -> Texts(Outputs)]
      /\ spent' = spent =>
            /\ \A u \in Terminals \ keys : files'[u] = files[u] /\ wanted'[u] = wanted[u]
            /\ \A u \in keys : \/ files'[u] = None /\ wanted'[u] = None
                               \/ files'[u] = files[u] /\ wanted'[u] = wanted[u]
 <2>1. /\ files \in [Terminals -> Texts(Outputs)] /\ wanted \in [Terminals -> Texts(Outputs)]
       /\ None \in Texts(Outputs)
  BY DEF IInv, Typed, Texts, Outputs
 <2>2. \A kept \in SUBSET keys :
         /\ without(kept) \in [Terminals -> Texts(Outputs)]
         /\ \A u \in keys : kept = {} => without(kept)[u] = None
         /\ \A u \in Terminals \ keys : without(kept)[u] = files[u]
  BY <1>3, <2>1
 <2>3. ASSUME NEW kept \in SUBSET keys, Spend("writes") PROVE spent' # spent
  <3>1. spent.writes \in Nat /\ "writes" \in Kinds BY DEF IInv, Typed, Kinds
  <3> QED BY <2>3, <3>1, SpendCounts
 <2> HIDE DEF without
 <2>4. CASE UNCHANGED <<files, wanted, spent>> BY <1>3, <2>1, <2>4
 <2>5. ASSUME NEW kept \in SUBSET keys, files' = without(kept),
              IF kept = {} THEN UNCHANGED spent ELSE Spend("writes"),
              wanted' = [x \in Terminals |-> IF x \in keys THEN None ELSE wanted[x]]
     PROVE  /\ files' \in [Terminals -> Texts(Outputs)] /\ wanted' \in [Terminals -> Texts(Outputs)]
            /\ spent' = spent =>
                  /\ \A u \in Terminals \ keys : files'[u] = files[u] /\ wanted'[u] = wanted[u]
                  /\ \A u \in keys : files'[u] = None /\ wanted'[u] = None
  BY <1>3, <2>1, <2>2, <2>3, <2>5
 <2> QED BY <1>4, <2>4, <2>5
<1>7. /\ operation' \in [Threads -> {Idle} \cup Calls]
      /\ operation'[setting.thread[t]] = Idle
      /\ \A thread \in Threads \ {setting.thread[t]} : operation'[thread] = operation[thread]
 BY <1>1, <1>2 DEF Hold, IInv, Typed
<1>8. Threads' = Threads BY <1>2 DEF Threads
<1>9. Typed' BY <1>2, <1>6, <1>7, <1>8, <1>14 DEF IInv, Typed, Outputs
<1>10. CallsSound(manager)'
 <2>1. \A thread \in Threads :
         operation'[thread] # Idle =>
             /\ setting.thread[operation'[thread].terminal] = thread
             /\ CallSound(manager, operation'[thread])
  BY <1>7 DEF IInv, CallsSound
 <2> QED BY <1>2, <1>8, <2>1 DEF CallsSound, CallSound, SessionSound, Emptied, Of, Session
<1>11. ASSUME NEW u \in Terminals, ~Excepted(manager, u)'
    PROVE  Kept(manager, u)'
 <2>0. spent' = spent BY <1>11, <1>14 DEF Excepted
 <2>1. Kept(manager, u) BY <1>2, <1>11, <2>0 DEF IInv, TranscriptsSound, Excepted, Evicted
 <2>2. Awaits(operation[setting.thread[u]], u) => Awaits(operation'[setting.thread[u]], u)
  BY <1>1, <1>5, <1>7 DEF call
 <2>3. Drained(manager, u, operation'[setting.thread[u]]) BY <2>1, <2>2 DEF Kept, Drained
 <2>4. Newest(manager, u, wanted'[u], files'[u])
  <3>1. CASE files'[u] = files[u] /\ wanted'[u] = wanted[u] BY <2>1, <3>1 DEF Kept
  <3>2. CASE u \in keys /\ files'[u] = None /\ wanted'[u] = None
   <4>1. ~Awaits(operation[setting.thread[u]], u) BY <1>3, <1>5, <3>2 DEF call
   <4>2. manager.pending[u] = None /\ manager.tail[u] = 0
    BY <1>3, <2>1, <3>2, <4>1 DEF Kept, Drained
   <4> QED BY <3>2, <4>2 DEF Newest
  <3> QED BY <1>6, <2>0, <3>1, <3>2
 <2> QED BY <1>2, <2>1, <2>3, <2>4 DEF Kept, Lined, InLine, Newest, Drained, Session
<1>12. TranscriptsSound(manager)' BY <1>11 DEF TranscriptsSound
<1>13. (Accounted(manager) /\ (disposed \/ LiveMapped(manager)) /\ Queued(manager))'
 BY <1>2 DEF IInv
<1> QED BY <1>9, <1>10, <1>12, <1>13 DEF IInv

(* A step of a call that flushes nothing, to one that flushes nothing or to *)
(* its end, which leaves the queues alone.                                  *)
LEMMA AdvanceKeeps ==
  ASSUME IInv, NEW t \in Terminals, operation[setting.thread[t]] # Idle,
    operation[setting.thread[t]].flushing = {},
    NEW next \in {Idle} \cup Calls, Hold(t, next),
    setting' = setting, disposed' = disposed, files' = files, wanted' = wanted,
    spent' = spent \/ \E kind \in Kinds \ {"outputs"} : Spend(kind),
    Sound(manager', Outputs), Continues(manager, manager', t),
    Session(manager', t) = {} => Session(manager, t) = {} \/ Evicted(manager', t),
    next # Idle => next.terminal = t /\ CallSound(manager', next)
  PROVE IInv'
<1> DEFINE call == operation[setting.thread[t]]
<1>1. Framed(t) /\ operation'[setting.thread[t]] = next /\ spent'.outputs = Outputs BY HoldFrames
<1>2. \A u : ~Awaits(call, u) BY DEF Awaits
<1>3. Sound(manager, Outputs) /\ MapSound(manager) BY Known
<1>4. ASSUME ~Excepted(manager, t)', ~Evicted(manager', t)
    PROVE  /\ Lined(manager', t) /\ Newest(manager', t, wanted'[t], files'[t])
           /\ Drained(manager', t, next)
 <2>1. ~Evicted(manager, t) BY <1>3, <1>4, ContinuesQueue
 <2>2. Kept(manager, t) BY <1>1, <1>4, <2>1, KeptBefore
 <2>3. Drained(manager', t, next) BY <1>2, <1>3, <1>4, <2>2, ContinuesQueue DEF Kept, Drained
 <2> QED BY <1>3, <1>4, <2>2, <2>3, ContinuesQueue DEF Kept
<1>5. Elsewhere(manager, manager', t) BY ContinuesElsewhere
<1> QED BY <1>1, <1>2, <1>4, <1>5, StepKeeps

(* The history is written: a process may be started.                        *)
LEMMA PersistedKeeps == ASSUME IInv, NEW t \in Terminals, Persisted(t) PROVE IInv'
<1> DEFINE call == operation[setting.thread[t]]
<1>1. /\ Sound(manager, Outputs) /\ MapSound(manager) /\ Outputs \in Nat BY Known
<1>2. /\ call.step = "persist" /\ call # Idle /\ call.terminal = t
      /\ UNCHANGED <<setting, files, checks, spent, wanted, disposed>>
 BY AtHeld DEF Persisted, At
<1>3. /\ call \in Calls /\ call.flushing = {} /\ SessionSound(manager, call)
 BY <1>2, HeldKnown DEF CallSound
<1>4. CASE call.kind = "clear"
 <2>1. Hold(t, Idle) /\ manager' = manager BY <1>4 DEF Persisted
 <2>2. Continues(manager, manager, t) BY SparesItself, SparesContinues
 <2> QED BY <1>1, <1>2, <1>3, <2>1, <2>2, AdvanceKeeps
<1>5. CASE call.kind # "clear"
 <2> DEFINE next == [call EXCEPT !.step = "spawn"]
 <2>1. manager' = Start(manager, call.session) /\ Hold(t, next) BY <1>5 DEF Persisted
 <2>2. /\ next \in Calls /\ next.step = "spawn" /\ next.terminal = t
       /\ next.session = call.session /\ next.flushing = {}
  BY <1>2, <1>3 DEF Calls
 <2>3. /\ Sound(manager', Outputs) /\ Spares(manager, manager')
       /\ manager'.objects[call.session].process = 0
  BY <1>1, <1>3, <2>1, StartSound DEF SessionSound
 <2> HIDE DEF call, next
 <2>4. CallSound(manager', next) BY <1>2, <1>3, <2>2, <2>3 DEF CallSound, SessionSound, Spares
 <2>5. Session(manager', t) = {} => Session(manager, t) = {} \/ Evicted(manager', t)
  BY <1>1, <2>3 DEF Session, Spares, MapSound, Evicted
 <2>6. Continues(manager, manager', t) BY <2>3, SparesContinues
 <2>7. operation[setting.thread[t]] = call BY DEF call
 <2> QED BY <1>2, <1>3, <2>1, <2>2, <2>3, <2>4, <2>5, <2>6, <2>7, AdvanceKeeps
<1> QED BY <1>4, <1>5

(* The spawn succeeds, for a session that has no process; or it fails.      *)
LEMMA SpawnedKeeps == ASSUME IInv, NEW t \in Terminals, Spawned(t) PROVE IInv'
<1> DEFINE call == operation[setting.thread[t]]
           s == call.session
<1>1. /\ Sound(manager, Outputs) /\ MapSound(manager) /\ Outputs \in Nat
      /\ manager \in Managers(Outputs)
 BY Known
<1>2. /\ call.step = "spawn" /\ call # Idle /\ call.terminal = t /\ Hold(t, Idle)
      /\ UNCHANGED <<setting, files, checks, wanted, disposed>>
 BY AtHeld DEF Spawned, At
<1>3. /\ call.flushing = {} /\ s \in DOMAIN manager.objects
      /\ manager.objects[s].terminal = t /\ manager.objects[s].process = 0
      /\ disposed \/ s \in manager.sessions \cup manager.evicted
 BY <1>2, HeldKnown DEF CallSound, SessionSound
<1>4. ASSUME NEW deaf \in SUBSET {Len(manager.processes) + 1},
             IF deaf = {} THEN UNCHANGED spent ELSE Spend("signals"),
             manager' = Touch([manager EXCEPT !.processes = Append(@, "live"),
                                              !.deaf = @ \cup deaf,
                                              !.objects[s].process = Len(manager.processes) + 1,
                                              !.objects[s].status = "running"], s)
    PROVE  IInv'
 <2>3. spent' = spent \/ \E kind \in Kinds \ {"outputs"} : Spend(kind) BY <1>4 DEF Kinds
 <2> HIDE DEF call, s
 <2>1. /\ Sound(manager', Outputs) /\ Continues(manager, manager', t)
       /\ manager'.sessions = manager.sessions
  <3>1. manager' = Equipped(manager, s, deaf) BY <1>4 DEF Equipped
  <3> QED BY <1>1, <1>3, <3>1, SpawnSound
 <2>2. Session(manager', t) = {} => Session(manager, t) = {}
  BY <1>1, <2>1 DEF Session, Continues, MapSound
 <2> QED BY <1>2, <1>3, <2>1, <2>2, <2>3, AdvanceKeeps DEF call
<1>5. CASE /\ Spend("spawns")
           /\ manager' = Evict(Touch([manager EXCEPT !.objects[s].status = "error"], s))
 <2> DEFINE state == [manager.objects[s] EXCEPT !.status = "error"]
            failed == [manager EXCEPT !.objects = [manager.objects EXCEPT ![s] = state]]
 <2> HIDE DEF call, s
 <2>1. [manager EXCEPT !.objects[s].status = "error"] = failed BY <1>1 DEF Managers
 <2>2. manager.objects[s] \in SessionStates(Outputs) /\ s \in Nat BY <1>1, <1>3, SessionTyped
 <2>3. /\ state \in SessionStates(Outputs) /\ state.terminal = manager.objects[s].terminal
       /\ state.process = manager.objects[s].process
       /\ state.status # "running" /\ state.subprocess = manager.objects[s].subprocess
  BY <2>2 DEF SessionStates
 <2>4. manager.objects[s].status # "running" /\ state.subprocess \in {0, state.process}
  BY <1>1, <1>3, <2>3 DEF Sound, Accounted, ObjectsSound
 <2> HIDE DEF state
 <2>5. Sound(failed, Outputs) /\ Spares(manager, failed) BY <1>1, <1>3, <2>3, <2>4, UpdateSound
 <2> HIDE DEF failed
 <2>6. Sound(Touch(failed, s), Outputs) /\ Spares(failed, Touch(failed, s))
  BY <1>1, <2>2, <2>5, TouchSound
 <2>7. Sound(manager', Outputs) /\ Spares(Touch(failed, s), manager')
  BY <1>1, <1>5, <2>1, <2>6, EvictSound
 <2>8. Spares(manager, manager')
  <3>1. Spares(manager, Touch(failed, s)) BY <2>5, <2>6, SparesTwice DEF Sound, Accounted
  <3> QED BY <2>6, <2>7, <3>1, SparesTwice DEF Sound, Accounted
 <2>9. Session(manager', t) = {} => Session(manager, t) = {} \/ Evicted(manager', t)
  BY <1>1, <2>8 DEF Session, Spares, MapSound, Evicted
 <2>10. Continues(manager, manager', t) BY <2>8, SparesContinues
 <2>11. \E kind \in Kinds \ {"outputs"} : Spend(kind) BY <1>5 DEF Kinds
 <2> QED BY <1>2, <1>3, <2>7, <2>9, <2>10, <2>11, AdvanceKeeps DEF call
<1> QED BY <1>4, <1>5 DEF Spawned


--------------------
(* The terminals: writes and processes.                                     *)
(* A write ends: it was the first of its terminal, so the file never goes   *)
(* back to an older text.                                                   *)
LEMMA WriteKeeps == ASSUME IInv, NEW write \in manager.writes, Write(write) PROVE IInv'
<1>1. /\ Sound(manager, Outputs) /\ MapSound(manager) /\ Outputs \in Nat
      /\ manager \in Managers(Outputs)
 BY Known
<1>2. /\ write.after = 0 /\ manager' = Written(manager, write)
      /\ UNCHANGED <<setting, checks, wanted, disposed>>
      /\ \/ files' = [files EXCEPT ![write.terminal] = write.history] /\ UNCHANGED spent
         \/ Spend("writes") /\ UNCHANGED files
 BY DEF Write
<1>3. PICK t \in Terminals : t = write.terminal BY <1>1 DEF Managers, PersistWrites
<1>4. write.history \in 0..Outputs BY <1>1 DEF Managers, PersistWrites
<1>5. Sound(manager', Outputs) BY <1>1, <1>2, WrittenSound
<1>6. /\ manager'.objects = manager.objects /\ manager'.sessions = manager.sessions
      /\ manager'.pending = manager.pending /\ manager'.evicted = manager.evicted
 BY <1>1, <1>2, WrittenFields
<1>7. /\ \A v \in manager'.writes : \E w \in manager.writes : v.id = w.id /\ v.history = w.history
      /\ \A u \in Terminals :
            manager'.tail[u] = IF u = t /\ manager.tail[u] = write.id THEN 0 ELSE manager.tail[u]
 <2>1. \A w \in manager.writes :
         Freed(w, write.id).id = w.id /\ Freed(w, write.id).history = w.history
  BY <1>1, FreedFields DEF Managers
 <2> QED BY <1>1, <1>2, <1>3, <2>1, WrittenLeaves
<1>8. \A u \in Terminals : Lined(manager, u) => Lined(manager', u) BY <1>1, <1>2, WrittenLined
<1>9. \A u \in Terminals \ {t} : \A text, file :
        Newest(manager, u, text, file) => Newest(manager', u, text, file)
 BY <1>6, <1>7 DEF Newest
<1>10. Elsewhere(manager, manager', t) BY <1>6, <1>7, <1>8, <1>9 DEF Elsewhere
<1>11. SparesSessions(manager, manager') BY <1>6 DEF SparesSessions
<1>12. /\ operation' \in [Threads -> {Idle} \cup Calls]
       /\ \A thread \in Threads : SameCall(operation[thread], operation'[thread])
 <2> DEFINE freed(call) == [u \in Terminals |-> IF call.waits[u] = write.id THEN 0 ELSE call.waits[u]]
            next(call) == [call EXCEPT !.waits = freed(call)]
 <2>1. ASSUME NEW call \in Calls
     PROVE  next(call) \in Calls /\ SameCall(call, next(call))
  <3>1. freed(call) \in [Terminals -> Nat] BY DEF Calls
  <3> HIDE DEF freed
  <3>2. /\ next(call) \in Calls /\ next(call).kind = call.kind
        /\ next(call).step = call.step /\ next(call).terminal = call.terminal
        /\ next(call).session = call.session /\ next(call).flushing = call.flushing
   BY <3>1 DEF Calls
  <3> QED BY <3>2, CallNotIdle DEF SameCall
 <2>2. operation' = [thread \in Threads |-> IF operation[thread] = Idle THEN operation[thread]
                                            ELSE next(operation[thread])]
  BY DEF Write
 <2>3. operation \in [Threads -> {Idle} \cup Calls] BY DEF IInv, Typed
 <2>4. SameCall(Idle, Idle) BY DEF SameCall
 <2> HIDE DEF next
 <2> QED BY <2>1, <2>2, <2>3, <2>4
<1>13. /\ spent' \in [Kinds -> Nat] /\ spent'.writes >= spent.writes
       /\ spent'.outputs = Outputs
       /\ \/ files' = [files EXCEPT ![t] = write.history]
          \/ spent'.writes > 0 /\ files' = files
 <2>1. /\ spent \in [Kinds -> Nat] /\ "writes" \in Kinds /\ "outputs" \in Kinds
       /\ spent.writes \in Nat
  BY DEF IInv, Typed, Kinds
 <2>2. CASE files' = [files EXCEPT ![write.terminal] = write.history] /\ UNCHANGED spent
  BY <1>3, <2>1, <2>2 DEF Outputs
 <2>3. CASE Spend("writes") /\ UNCHANGED files BY <2>1, <2>3, SpendCounts DEF Outputs
 <2> QED BY <1>2, <2>2, <2>3
<1>14. /\ files' \in [Terminals -> Texts(Outputs)] /\ wanted' \in [Terminals -> Texts(Outputs)]
       /\ \A u \in Terminals \ {t} : files'[u] = files[u] /\ wanted'[u] = wanted[u]
       /\ files'[t] = write.history \/ spent'.writes > 0
 <2>1. files \in [Terminals -> Texts(Outputs)] /\ write.history \in Texts(Outputs)
  BY <1>4 DEF IInv, Typed, Outputs, Texts
 <2> QED BY <1>2, <1>13, <2>1 DEF IInv, Typed, Outputs
<1>15. Framed(t) BY <1>2, <1>12, <1>13, <1>14 DEF Framed
<1> DEFINE call == operation[setting.thread[t]]
           next == operation'[setting.thread[t]]
<1>16. SameCall(call, next) BY <1>12, Known
<1>17. next # Idle => setting.thread[next.terminal] = setting.thread[t] /\ CallSound(manager', next)
 <2> SUFFICES ASSUME next # Idle
     PROVE  setting.thread[next.terminal] = setting.thread[t] /\ CallSound(manager', next)
  OBVIOUS
 <2>1. call # Idle /\ next.terminal = call.terminal BY <1>16 DEF SameCall
 <2>2. CallSound(manager, call) /\ setting.thread[call.terminal] = setting.thread[t]
  BY <2>1, HeldKnown
 <2>3. CallSound(manager', call) BY <1>1, <1>11, <2>2, CallSpared
 <2> QED BY <1>16, <2>1, <2>2, <2>3, SameCallSound
<1>18. \A u : Awaits(call, u) <=> Awaits(next, u) BY <1>16 DEF SameCall, Awaits
<1>19. ASSUME ~Excepted(manager, t)', ~Evicted(manager', t)
    PROVE  /\ Lined(manager', t) /\ Newest(manager', t, wanted'[t], files'[t])
           /\ Drained(manager', t, next)
 <2>1. ~Evicted(manager, t) /\ ~(spent'.writes > 0) BY <1>6, <1>19 DEF Evicted, Excepted
 <2>2. Kept(manager, t) BY <1>15, <1>19, <2>1, KeptBefore
 <2>3. Newest(manager', t, wanted[t], write.history)
  BY <1>1, <1>2, <1>3, <2>2, WrittenNewest DEF Kept
 <2>4. Drained(manager', t, next) BY <1>6, <1>7, <1>18, <2>2 DEF Kept, Drained, Session
 <2> QED BY <1>2, <1>8, <1>14, <2>1, <2>2, <2>3, <2>4 DEF Kept
<1> HIDE DEF call
<1>20. operation[setting.thread[t]] = call /\ next = operation'[setting.thread[t]] BY DEF call
<1> HIDE DEF next
<1> QED BY <1>5, <1>10, <1>13, <1>15, <1>17, <1>18, <1>19, <1>20, StepKeeps

(* A process that was asked to stop, or killed, changes its state.          *)
LEMMA ProcessEndsSound ==
  ASSUME NEW n \in Nat, NEW m, Sound(m, n), NEW p \in DOMAIN m.processes,
    m.processes[p] # "live", NEW state \in {"missed", "killed", "gone"},
    NEW timed \in SUBSET m.escalating, m.escalating \ {p} \subseteq timed,
    state = "gone" \/ p \notin timed
  PROVE LET new == [m EXCEPT !.escalating = timed,
                             !.processes = [m.processes EXCEPT ![p] = state]]
        IN  Sound(new, n) /\ Spares(m, new)
<1> DEFINE processes == [m.processes EXCEPT ![p] = state]
           new == [m EXCEPT !.escalating = timed, !.processes = processes]
<1>1. m \in Managers(n) BY DEF Sound
<1>2. /\ processes \in Seq(ProcessStates) /\ DOMAIN processes = DOMAIN m.processes
      /\ \A x \in DOMAIN m.processes : processes[x] = IF x = p THEN state ELSE m.processes[x]
 BY <1>1, OneProcessChanges DEF Managers, ProcessStates
<1> HIDE DEF processes
<1>3. /\ new \in Managers(n) /\ new.objects = m.objects
      /\ new.sessions = m.sessions /\ new.evicted = m.evicted /\ new.writes = m.writes
      /\ new.pending = m.pending /\ new.tail = m.tail
      /\ new.escalating = timed /\ new.processes = processes
 BY <1>1, <1>2 DEF Managers
<1> HIDE DEF new
<1>4. MapSound(new) /\ ObjectsSound(new)
 BY <1>2, <1>3 DEF Sound, Accounted, MapSound, ObjectsSound
<1>5. ProcessesSound(new) BY <1>2, <1>3 DEF Sound, Accounted, ProcessesSound
<1>6. disposed \/ LiveMapped(new) BY <1>2, <1>3 DEF Sound, LiveMapped
<1>7. Queued(new) BY <1>3 DEF Sound, Queued
<1>8. Spares(m, new) BY <1>3 DEF Spares
<1> QED BY <1>3, <1>4, <1>5, <1>6, <1>7, <1>8 DEF Sound, Accounted, new, processes

LEMMA DieKeeps == ASSUME IInv, NEW p \in DOMAIN manager.processes, Die(p) PROVE IInv'
<1>1. /\ Sound(manager, Outputs) /\ Outputs \in Nat /\ manager \in Managers(Outputs) BY Known
<1>2. manager' = [manager EXCEPT !.escalating = manager.escalating,
                                 !.processes = [manager.processes EXCEPT ![p] = "gone"]]
 BY <1>1 DEF Die, Managers
<1>3. Sound(manager', Outputs) /\ Spares(manager, manager')
 <2>1. manager.processes[p] # "live" /\ manager.escalating \in SUBSET manager.escalating
       /\ "gone" \in {"missed", "killed", "gone"}
  BY DEF Die
 <2> HIDE DEF Die
 <2> QED BY <1>1, <1>2, <2>1, ProcessEndsSound
<1>4. spent \in [Kinds -> Nat] /\ spent.writes >= spent.writes BY DEF IInv, Typed, Kinds
<1> QED BY <1>3, <1>4, SparingKeeps DEF Die

LEMMA KillKeeps == ASSUME IInv, NEW p \in DOMAIN manager.processes, Kill(p) PROVE IInv'
<1>1. /\ Sound(manager, Outputs) /\ Outputs \in Nat /\ manager \in Managers(Outputs) BY Known
<1>6. PICK outcome \in {"killed", "missed"} :
         /\ IF outcome = "killed" THEN UNCHANGED spent ELSE Spend("signals")
         /\ manager' = [manager EXCEPT !.escalating = @ \ {p},
                                       !.processes[p] = IF @ = "gone" THEN @ ELSE outcome]
 BY DEF Kill
<1> DEFINE state == IF manager.processes[p] = "gone" THEN "gone" ELSE outcome
           timed == manager.escalating \ {p}
<1>2. manager' = [manager EXCEPT !.escalating = timed,
                                 !.processes = [manager.processes EXCEPT ![p] = state]]
 BY <1>1, <1>6 DEF Managers
<1>3. /\ manager.processes[p] # "live" /\ timed \in SUBSET manager.escalating
      /\ state \in {"missed", "killed", "gone"} /\ p \notin timed
      /\ manager.escalating \ {p} \subseteq timed
 BY <1>1 DEF Kill, Sound, Accounted, ProcessesSound
<1> HIDE DEF state, timed
<1>4. Sound(manager', Outputs) /\ Spares(manager, manager') BY <1>1, <1>2, <1>3, ProcessEndsSound
<1>5. spent' \in [Kinds -> Nat] /\ spent'.outputs = spent.outputs /\ spent'.writes >= spent.writes
 <2>1. CASE spent' = spent BY <2>1 DEF IInv, Typed, Kinds
 <2>2. CASE Spend("signals")
  <3>1. "signals" \in Kinds BY DEF Kinds
  <3> QED BY <2>2, <3>1, SpendCounts DEF IInv, Typed, Kinds
 <2> QED BY <1>6, <2>1, <2>2
<1> QED BY <1>4, <1>5, SparingKeeps DEF Kill

(* A process exits by itself: its session loses it.                         *)
LEMMA ExitKeeps == ASSUME IInv, NEW s \in Objects, Exit(s) PROVE IInv'
<1> DEFINE p == manager.objects[s].process
           state == [manager.objects[s] EXCEPT !.process = 0, !.subprocess = 0, !.status = "exited"]
           objects == [manager.objects EXCEPT ![s] = state]
           processes == [manager.processes EXCEPT ![p] = "gone"]
           halted == [manager EXCEPT !.objects = objects, !.processes = processes,
                                     !.escalating = manager.escalating \ {p}]
<1>1. /\ Sound(manager, Outputs) /\ Outputs \in Nat /\ manager \in Managers(Outputs)
      /\ s \in DOMAIN manager.objects /\ p # 0 /\ s \in Nat /\ manager \in Managers(Outputs)
 BY Known, SessionTyped DEF Objects, Exit
<1>2. p \in DOMAIN manager.processes BY <1>1 DEF Sound, Accounted, ObjectsSound
<1>3. /\ state \in SessionStates(Outputs) /\ state.process = 0 /\ state.subprocess = 0
      /\ state.status = "exited" /\ state.terminal = manager.objects[s].terminal
 BY <1>1, SessionTyped, StateHalted
<1>4. manager' = Evict(Touch(halted, s)) BY ZenonT(30), <1>1 DEF Exit, Managers
<1>5. /\ objects \in Seq(SessionStates(Outputs)) /\ DOMAIN objects = DOMAIN manager.objects
      /\ \A x \in DOMAIN manager.objects : objects[x] = IF x = s THEN state ELSE manager.objects[x]
 BY <1>1, <1>3, OneSessionChanges DEF Managers
<1>6. /\ processes \in Seq(ProcessStates) /\ DOMAIN processes = DOMAIN manager.processes
      /\ \A x \in DOMAIN manager.processes :
            processes[x] = IF x = p THEN "gone" ELSE manager.processes[x]
 BY <1>1, <1>2, OneProcessChanges DEF Managers, ProcessStates
<1> HIDE DEF state, objects, processes
<1>7. /\ halted \in Managers(Outputs) /\ halted.objects = objects /\ halted.processes = processes
      /\ halted.escalating = manager.escalating \ {p} /\ halted.sessions = manager.sessions
      /\ halted.evicted = manager.evicted /\ halted.writes = manager.writes
      /\ halted.pending = manager.pending /\ halted.tail = manager.tail
 BY <1>1, <1>5, <1>6 DEF Managers
<1> HIDE DEF halted
<1>13. /\ "gone" \in {"signalled", "missed", "gone"} /\ p \notin halted.escalating
       /\ manager.escalating \ {p} \subseteq halted.escalating
       /\ halted.escalating \subseteq manager.escalating \cup {p}
 BY <1>7
<1>8. Sound(halted, Outputs) /\ Spares(manager, halted)
 BY SMTT(30), <1>1, <1>3, <1>5, <1>6, <1>7, <1>13, HaltedSound
<1>9. Sound(Touch(halted, s), Outputs) /\ Spares(halted, Touch(halted, s))
 BY <1>1, <1>8, TouchSound
<1>10. Sound(manager', Outputs) /\ Spares(Touch(halted, s), manager')
 BY <1>1, <1>4, <1>9, EvictSound
<1>11. Spares(manager, manager')
 <2>1. Spares(manager, Touch(halted, s)) BY <1>8, <1>9, SparesTwice DEF Sound, Accounted
 <2> QED BY <1>9, <1>10, <2>1, SparesTwice DEF Sound, Accounted
<1>12. spent \in [Kinds -> Nat] /\ spent.writes >= spent.writes BY DEF IInv, Typed, Kinds
<1> QED BY <1>10, <1>11, <1>12, SparingKeeps DEF Exit

LEMMA PollKeeps == ASSUME IInv, Poll PROVE IInv'
<1>1. Sound(manager, Outputs) /\ Spares(manager, manager) BY Known, SparesItself
<1>2. "polls" \in Kinds /\ Spend("polls") BY DEF Poll, Kinds
<1>3. spent' \in [Kinds -> Nat] /\ spent'.outputs = spent.outputs /\ spent'.writes >= spent.writes
 BY <1>2, SpendCounts DEF Kinds, IInv, Typed
<1> QED BY <1>1, <1>3, SparingKeeps DEF Poll

(* The result of a look is for the process that the session has.            *)
LEMMA CheckedKeeps == ASSUME IInv, NEW check \in checks, Checked(check) PROVE IInv'
<1>1. /\ Sound(manager, Outputs) /\ Outputs \in Nat /\ manager \in Managers(Outputs)
      /\ MapSound(manager)
 BY Known
<1>2. Sound(manager', Outputs) /\ Spares(manager, manager')
 <2>1. CASE UNCHANGED manager BY <1>1, <2>1, SparesItself
 <2>2. CASE \E s \in Session(manager, check.terminal), found \in BOOLEAN :
              /\ Seen(check, s)
              /\ manager' = [manager EXCEPT !.objects[s].subprocess =
                                              IF found THEN check.pid ELSE 0]
  <3>1. PICK s \in Session(manager, check.terminal), found \in BOOLEAN :
           /\ Seen(check, s)
           /\ manager' = [manager EXCEPT !.objects[s].subprocess =
                                           IF found THEN check.pid ELSE 0]
   BY <2>2
  <3>2. s \in DOMAIN manager.objects /\ check.pid = manager.objects[s].process
   BY <1>1, <3>1 DEF Session, MapSound, Seen
  <3> DEFINE subprocess == IF found THEN check.pid ELSE 0
             state == [manager.objects[s] EXCEPT !.subprocess = subprocess]
  <3>3. manager.objects[s] \in SessionStates(Outputs) BY <1>1, <3>2, SessionTyped
  <3>4. subprocess \in {0, manager.objects[s].process} /\ subprocess \in Nat
   BY <3>2, <3>3 DEF SessionStates
  <3>5. manager' = [manager EXCEPT !.objects = [manager.objects EXCEPT ![s] = state]]
   BY <1>1, <3>1 DEF Managers
  <3> HIDE DEF subprocess
  <3>6. /\ state \in SessionStates(Outputs) /\ state.terminal = manager.objects[s].terminal
        /\ state.process = manager.objects[s].process
        /\ state.status = manager.objects[s].status /\ state.subprocess = subprocess
   BY <3>3, <3>4 DEF SessionStates
  <3> HIDE DEF state
  <3> QED BY <1>1, <3>2, <3>4, <3>5, <3>6, UpdateSound
 <2> QED BY <2>1, <2>2 DEF Checked
<1>3. spent \in [Kinds -> Nat] /\ spent.writes >= spent.writes BY DEF IInv, Typed, Kinds
<1> QED BY <1>2, <1>3, SparingKeeps DEF Checked

(* There are more texts to choose from after an output.                     *)
LEMMA SoundMore ==
  ASSUME NEW n \in Nat, NEW m, Sound(m, n) PROVE Sound(m, n + 1)
<1>1. SessionStates(n) \subseteq SessionStates(n + 1) /\ Texts(n) \subseteq Texts(n + 1)
      /\ PersistWrites(n) \subseteq PersistWrites(n + 1)
 BY DEF SessionStates, Texts, PersistWrites
<1>2. m \in Managers(n) BY DEF Sound
<1>3. m.objects \in Seq(SessionStates(n + 1)) BY <1>1, <1>2 DEF Managers
<1>4. m.pending \in [Terminals -> Texts(n + 1)] /\ m.writes \subseteq PersistWrites(n + 1)
 BY <1>1, <1>2 DEF Managers
<1>5. m \in Managers(n + 1) BY <1>2, <1>3, <1>4 DEF Managers
<1> QED BY <1>5 DEF Sound

(* Output is new, is displayed and waits to be written.                     *)
LEMMA OutputKeeps == ASSUME IInv, NEW s \in Objects, Output(s) PROVE IInv'
<1> DEFINE n == Outputs + 1
           state == [manager.objects[s] EXCEPT !.history = n]
           updated == [manager EXCEPT !.objects = [manager.objects EXCEPT ![s] = state]]
<1>1. /\ Sound(manager, Outputs) /\ MapSound(manager) /\ manager \in Managers(Outputs)
      /\ Outputs \in Nat /\ n \in Nat /\ s \in DOMAIN manager.objects /\ s \in Nat
      /\ manager.objects[s].process # 0
 BY Known, SessionTyped DEF Objects, Output
<1>2. PICK t \in Terminals : t = manager.objects[s].terminal
 BY <1>1, SessionTyped DEF SessionStates
<1>3. Sound(manager, n) /\ manager.objects[s] \in SessionStates(n)
 <2>1. Sound(manager, n) /\ manager \in Managers(n) BY <1>1, SoundMore DEF Sound
 <2> QED BY <1>1, <2>1, SessionTyped
<1>4. /\ state \in SessionStates(n) /\ state.terminal = manager.objects[s].terminal
      /\ state.process = manager.objects[s].process
      /\ state.status = manager.objects[s].status
      /\ state.subprocess = manager.objects[s].subprocess
 BY <1>1, <1>3 DEF SessionStates
<1>5. state.subprocess \in {0, state.process} BY <1>1, <1>4 DEF Sound, Accounted, ObjectsSound
<1> HIDE DEF state
<1>6. /\ Sound(updated, n) /\ Spares(manager, updated)
      /\ updated.sessions = manager.sessions /\ updated.evicted = manager.evicted
      /\ updated.writes = manager.writes /\ updated.pending = manager.pending
      /\ updated.tail = manager.tail
 BY <1>1, <1>3, <1>4, <1>5, UpdateSound
<1>7. [manager EXCEPT !.objects[s].history = n] = updated BY <1>1 DEF state, Managers
<1> HIDE DEF updated
<1> DEFINE pending == [updated.pending EXCEPT ![t] = n]
           timers == updated.timers \cup {t}
           queued == Waiting(updated, timers, pending)
<1>8. updated \in Managers(n) /\ timers \in SUBSET Terminals BY <1>6 DEF Sound, Managers
<1>9. /\ pending \in [Terminals -> Texts(n)] /\ pending[t] = n
      /\ \A u \in Terminals \ {t} : pending[u] = updated.pending[u]
 BY <1>1, <1>8 DEF Managers, Texts
<1>10. manager' = Touch(queued, s)
 <2>1. Queue(updated, t, n) = queued BY <1>8 DEF Queue, Waiting, Managers
 <2> QED BY <1>2, <1>7, <2>1 DEF Output, Outputs
<1> HIDE DEF pending, timers
<1>11. /\ Sound(queued, n) /\ queued.objects = updated.objects
       /\ queued.sessions = updated.sessions /\ queued.evicted = updated.evicted
       /\ queued.writes = updated.writes /\ queued.pending = pending
       /\ queued.tail = updated.tail
 BY <1>1, <1>6, <1>8, <1>9, PendingSound
<1> HIDE DEF queued
<1>12. Sound(manager', n) BY <1>1, <1>10, <1>11, TouchSound
<1>13. /\ manager'.objects = updated.objects /\ manager'.sessions = manager.sessions
       /\ manager'.evicted = manager.evicted /\ manager'.writes = manager.writes
       /\ manager'.pending = pending /\ manager'.tail = manager.tail
 <2>1. queued \in Managers(n) BY <1>11 DEF Sound
 <2> QED BY <1>1, <1>6, <1>10, <1>11, <2>1, TouchFields
<1>14. /\ UNCHANGED <<setting, operation, files, checks, disposed>>
       /\ wanted' = [wanted EXCEPT ![t] = n] /\ Spend("outputs")
 BY <1>2 DEF Output, Outputs
<1>15. spent' \in [Kinds -> Nat] /\ spent'.outputs = n /\ spent'.writes = spent.writes
 <2>1. "outputs" \in Kinds /\ "writes" \in Kinds BY DEF Kinds
 <2> QED BY <1>14, <2>1, SpendCounts DEF Outputs
<1>16. /\ files' \in [Terminals -> Texts(n)] /\ wanted' \in [Terminals -> Texts(n)]
       /\ wanted'[t] = n
       /\ \A u \in Terminals \ {t} : files'[u] = files[u] /\ wanted'[u] = wanted[u]
 <2>1. Texts(Outputs) \subseteq Texts(n) /\ n \in Texts(n) BY <1>1 DEF Texts
 <2>2. files \in [Terminals -> Texts(Outputs)] /\ wanted \in [Terminals -> Texts(Outputs)]
  BY DEF IInv, Typed, Outputs
 <2> HIDE DEF n
 <2> QED BY <1>14, <2>1, <2>2
<1>17. Framed(t)
 <2>1. operation \in [Threads -> {Idle} \cup Calls] /\ spent.writes \in Nat
  BY DEF IInv, Typed, Kinds
 <2> HIDE DEF n
 <2> QED BY <1>14, <1>15, <1>16, <2>1 DEF Framed, SameCall
<1> HIDE DEF n
<1>18. /\ SparesSessions(manager, manager')
       /\ Elsewhere(manager, manager', t)
 <2>1. SparesSessions(manager, updated) /\ Elsewhere(manager, updated, t)
  BY <1>6, SparesSessionsToo, SparesContinues, ContinuesElsewhere
 <2>2. \A u \in Terminals \ {t} :
         /\ manager'.pending[u] = updated.pending[u] /\ manager'.tail[u] = updated.tail[u]
         /\ Lined(updated, u) => Lined(manager', u)
         /\ \A text, file : Newest(updated, u, text, file) => Newest(manager', u, text, file)
  BY <1>6, <1>9, <1>13, QueueLeft
 <2>3. Elsewhere(manager, manager', t) BY <1>6, <1>13, <2>1, <2>2, ElsewhereQueues
 <2> QED BY <1>6, <1>13, <2>1, <2>3 DEF SparesSessions
<1> DEFINE call == operation[setting.thread[t]]
<1>19. call # Idle => setting.thread[call.terminal] = setting.thread[t] /\ CallSound(manager', call)
 BY <1>1, <1>18, HeldKnown, CallSpared
<1>20. ASSUME ~Excepted(manager, t)', ~Evicted(manager', t)
    PROVE  /\ Lined(manager', t) /\ Newest(manager', t, wanted'[t], files'[t])
           /\ Drained(manager', t, call)
 <2>1. ~Evicted(manager, t) BY <1>1, <1>13, <1>18, <1>20 DEF Evicted, SparesSessions, MapSound
 <2>2. Kept(manager, t) /\ ~disposed BY <1>17, <1>20, <2>1, KeptBefore
 <2>3. Lined(manager', t) BY <1>13, <2>2, LinedSame DEF Kept
 <2>4. n # None BY <1>1, NoneAssumption
 <2>5. Newest(manager', t, wanted'[t], files'[t]) BY <1>9, <1>13, <1>16, <2>4 DEF Newest
 <2>6. s \in Session(manager', t)
  <3>1. s \in manager.sessions BY <1>1, <1>2, <2>1, <2>2 DEF Sound, LiveMapped, Evicted
  <3> QED BY <1>1, <1>2, <1>13, <1>18, <3>1 DEF Session, SparesSessions
 <2> QED BY <2>3, <2>5, <2>6 DEF Drained
<1>21. operation'[setting.thread[t]] = call /\ operation[setting.thread[t]] = call BY <1>14
<1> HIDE DEF call
<1> QED BY <1>12, <1>15, <1>17, <1>18, <1>19, <1>20, <1>21, StepKeeps

--------------------
(* The terminals: dispose.                                                  *)
(* A sequence mapped to another of the same length.                         *)
LEMMA MappedSequence ==
  ASSUME NEW S, NEW R, NEW seq \in Seq(S), NEW F, F \in [DOMAIN seq -> R]
  PROVE F \in Seq(R) /\ DOMAIN F = DOMAIN seq
<1>1. DOMAIN seq = 1..Len(seq) /\ Len(seq) \in Nat OBVIOUS
<1> QED BY <1>1

(* dispose stops every session that is in the map, and empties it; the      *)
(* calls under way go on without it.                                        *)
LEMMA DisposeKeeps == ASSUME IInv, Dispose PROVE IInv'
<1> DEFINE stopped == {s \in manager.sessions : manager.objects[s].process # 0}
           signalled == {manager.objects[s].process : s \in stopped}
           halt(object) == [object EXCEPT !.process = 0, !.subprocess = 0, !.status = "exited"]
           objects == [s \in DOMAIN manager.objects |->
                          IF s \in stopped THEN halt(manager.objects[s]) ELSE manager.objects[s]]
           processes == [p \in DOMAIN manager.processes |->
                            IF p \in signalled THEN Signalled(manager, p)
                            ELSE manager.processes[p]]
           removed == Remove(manager, manager.sessions)
           new == manager'
<1>1. /\ Sound(manager, Outputs) /\ MapSound(manager) /\ manager \in Managers(Outputs)
      /\ Outputs \in Nat
 BY Known
<1>2. /\ removed \in Managers(Outputs) /\ removed.objects = manager.objects
      /\ removed.sessions = {} /\ removed.writes = manager.writes
      /\ removed.evicted = manager.evicted /\ removed.processes = manager.processes
 BY <1>1, RemoveFields
<1>3. /\ objects \in Seq(SessionStates(Outputs)) /\ DOMAIN objects = DOMAIN manager.objects
      /\ \A s \in DOMAIN manager.objects :
            /\ objects[s].terminal = manager.objects[s].terminal
            /\ s \notin stopped => objects[s] = manager.objects[s]
            /\ s \in stopped => /\ objects[s].process = 0 /\ objects[s].subprocess = 0
                                /\ objects[s].status = "exited"
 <2>1. \A s \in DOMAIN manager.objects :
         LET state == halt(manager.objects[s])
         IN  /\ state \in SessionStates(Outputs) /\ state.process = 0 /\ state.subprocess = 0
             /\ state.status = "exited" /\ state.terminal = manager.objects[s].terminal
  BY <1>1, SessionTyped, StateHalted
 <2>2. objects \in [DOMAIN manager.objects -> SessionStates(Outputs)] BY <1>1, <2>1, SessionTyped
 <2>3. manager.objects \in Seq(SessionStates(Outputs)) BY <1>1 DEF Managers
 <2>4. \A s \in DOMAIN manager.objects :
         objects[s] = IF s \in stopped THEN halt(manager.objects[s]) ELSE manager.objects[s]
  OBVIOUS
 <2> HIDE DEF objects, halt, stopped
 <2>5. objects \in Seq(SessionStates(Outputs)) /\ DOMAIN objects = DOMAIN manager.objects
  BY <2>2, <2>3, MappedSequence
 <2> QED BY <2>1, <2>4, <2>5
<1>4. /\ processes \in Seq(ProcessStates) /\ DOMAIN processes = DOMAIN manager.processes
      /\ \A p \in DOMAIN manager.processes :
            /\ p \in signalled => processes[p] # "live"
            /\ p \notin signalled => processes[p] = manager.processes[p]
 <2>1. manager.processes \in Seq(ProcessStates) BY <1>1 DEF Managers
 <2>2. processes \in [DOMAIN manager.processes -> ProcessStates]
  BY <2>1 DEF ProcessStates, Signalled
 <2>3. \A p \in DOMAIN manager.processes :
         /\ p \in signalled => processes[p] # "live"
         /\ p \notin signalled => processes[p] = manager.processes[p]
  BY DEF Signalled
 <2> HIDE DEF processes, signalled
 <2> QED BY <2>1, <2>2, <2>3, MappedSequence
<1>5. /\ disposed' = TRUE /\ UNCHANGED <<setting, operation, files, checks, wanted>>
      /\ Spend("disposes")
      /\ new = [removed EXCEPT !.objects = objects, !.processes = processes,
                               !.timers = {}, !.escalating = {},
                               !.pending = [t \in Terminals |-> None],
                               !.tail = [t \in Terminals |-> 0]]
 BY <1>2 DEF Dispose
<1>6. \A p \in DOMAIN manager.processes :
        p \in signalled <=> \E s \in stopped : manager.objects[s].process = p
 OBVIOUS
<1> HIDE DEF objects, processes, removed, signalled
<1>7. /\ new \in Managers(Outputs) /\ new.objects = objects /\ new.sessions = {}
      /\ new.writes = manager.writes /\ new.evicted = manager.evicted
      /\ new.processes = processes /\ new.escalating = {}
      /\ new.tail = [t \in Terminals |-> 0]
 <2>1. /\ [t \in Terminals |-> None] \in [Terminals -> Texts(Outputs)]
       /\ [t \in Terminals |-> 0] \in [Terminals -> Nat]
  BY DEF Texts
 <2> QED BY <1>2, <1>3, <1>4, <1>5, <2>1 DEF Managers
<1> HIDE DEF new
<1>8. MapSound(new) BY <1>1, <1>3, <1>7 DEF MapSound
<1>9. ObjectsSound(new)
 <2>1. \A s \in DOMAIN manager.objects \ stopped :
         manager.objects[s].process # 0 => manager.objects[s].process \notin signalled
  BY <1>1, <1>6 DEF Sound, Accounted, ObjectsSound, MapSound
 <2>2. \A s \in DOMAIN objects :
         /\ objects[s].status = "running" <=> objects[s].process # 0
         /\ objects[s].process # 0 => /\ objects[s].process \in DOMAIN processes
                                      /\ processes[objects[s].process] = "live"
         /\ objects[s].subprocess \in {0, objects[s].process}
  BY <1>1, <1>3, <1>4, <2>1 DEF Sound, Accounted, ObjectsSound
 <2>3. \A s, x \in DOMAIN objects :
         objects[s].process = objects[x].process => s = x \/ objects[s].process = 0
  BY <1>1, <1>3 DEF Sound, Accounted, ObjectsSound
 <2> QED BY <1>7, <2>2, <2>3 DEF ObjectsSound
<1>10. ProcessesSound(new)
 <2>1. \A p \in DOMAIN processes :
         processes[p] = "live" => \E s \in DOMAIN objects : objects[s].process = p
  BY <1>1, <1>3, <1>4, <1>6 DEF Sound, Accounted, ProcessesSound
 <2> QED BY <1>7, <2>1 DEF ProcessesSound
<1>11. Queued(new) BY <1>1, <1>7 DEF Sound, Queued
<1>12. Threads' = Threads /\ spent' \in [Kinds -> Nat] /\ spent'.outputs = spent.outputs
 <2>1. "disposes" \in Kinds /\ "outputs" \in Kinds BY DEF Kinds
 <2> QED BY <1>5, <2>1, SpendCounts DEF Threads
<1>13. Typed' BY <1>5, <1>7, <1>12 DEF IInv, Typed, Outputs, new
<1>14. CallsSound(manager)'
 <2> SUFFICES ASSUME NEW thread \in Threads, operation[thread] # Idle
     PROVE  (/\ setting.thread[operation[thread].terminal] = thread
             /\ CallSound(manager, operation[thread]))'
  BY <1>5, <1>12 DEF CallsSound
 <2> DEFINE call == operation[thread]
 <2>1. setting.thread[call.terminal] = thread /\ CallSound(manager, call) BY DEF IInv, CallsSound
 <2>2. SessionSound(manager, call) =>
         /\ call.session \in DOMAIN new.objects
         /\ new.objects[call.session].terminal = call.terminal
         /\ manager.objects[call.session].process = 0 => new.objects[call.session].process = 0
  BY <1>3, <1>7 DEF SessionSound
 <2>3. \A u : Session(new, u) = {} BY <1>7 DEF Session
 <2> QED BY <1>5, <2>1, <2>2, <2>3 DEF CallSound, SessionSound, Emptied, Of, Session, new
<1>15. TranscriptsSound(manager)' BY <1>5 DEF TranscriptsSound, Excepted
<1> QED BY <1>5, <1>8, <1>9, <1>10, <1>11, <1>13, <1>14, <1>15 DEF IInv, Accounted, new

--------------------
(* The terminals: the invariant, and what follows from it.                  *)
(* At first there are no sessions, no calls and no files.                   *)
LEMMA InitSound == Init => IInv
<1> SUFFICES ASSUME Init PROVE IInv OBVIOUS
<1>1. spent \in [Kinds -> Nat] /\ spent.outputs = 0 /\ setting \in Settings BY DEF Init, Kinds
<1>2. manager \in Managers(0)
 <2>1. /\ << >> \in Seq(SessionStates(0)) /\ << >> \in Seq(ProcessStates)
       /\ [t \in Terminals |-> None] \in [Terminals -> Texts(0)]
       /\ [t \in Terminals |-> 0] \in [Terminals -> Nat]
  BY DEF Texts
 <2> QED BY <2>1 DEF Init, Managers
<1>3. Typed BY <1>1, <1>2 DEF Init, Typed, Texts
<1>4. Accounted(manager) /\ LiveMapped(manager)
 BY DEF Init, Accounted, MapSound, ObjectsSound, ProcessesSound, LiveMapped
<1>5. Queued(manager) BY FS_EmptySet DEF Init, Queued
<1>6. CallsSound(manager) BY DEF Init, CallsSound
<1>7. ASSUME NEW t \in Terminals PROVE Kept(manager, t)
 <2>1. Lined(manager, t)
  <3>1. [i \in Nat |-> 0] \in [Nat -> Int] /\ 0 \in Nat OBVIOUS
  <3>2. InLine(manager, t, 0, [i \in Nat |-> 0]) BY DEF Init, InLine
  <3> QED BY <3>1, <3>2 DEF Lined
 <2>2. manager.pending[t] = None /\ manager.tail[t] = 0 /\ files[t] = None /\ wanted[t] = None
  BY DEF Init
 <2> QED BY <2>1, <2>2 DEF Kept, Newest, Drained
<1> QED BY <1>3, <1>4, <1>5, <1>6, <1>7 DEF IInv, TranscriptsSound

(* Every step keeps the invariant.                                          *)
LEMMA NextKeeps == IInv /\ [Next]_vars => IInv'
<1> SUFFICES ASSUME IInv, [Next]_vars PROVE IInv' OBVIOUS
<1>1. ASSUME NEW t \in Terminals,
             \/ StopNext(t) \/ OpenNew(t) \/ OpenExisting(t) \/ Clear(t) \/ RestartTerminal(t)
             \/ Close(t) \/ CloseThread(t) \/ Flush(t) \/ ReadHistory(t) \/ Closed(t)
             \/ Persisted(t) \/ Spawned(t) \/ WritePending(t)
    PROVE  IInv'
 BY <1>1, StopNextKeeps, OpenNewKeeps, OpenExistingKeeps, ClearKeeps, RestartKeeps, CloseKeeps,
    CloseThreadKeeps, FlushKeeps, ReadHistoryKeeps, ClosedKeeps, PersistedKeeps, SpawnedKeeps,
    WritePendingKeeps
<1>2. ASSUME NEW write \in manager.writes, Write(write) PROVE IInv' BY <1>2, WriteKeeps
<1>3. ASSUME NEW s \in Objects, Output(s) \/ Exit(s) PROVE IInv' BY <1>3, OutputKeeps, ExitKeeps
<1>4. ASSUME NEW p \in DOMAIN manager.processes, Die(p) \/ Kill(p) PROVE IInv'
 BY <1>4, DieKeeps, KillKeeps
<1>5. ASSUME NEW check \in checks, Checked(check) PROVE IInv' BY <1>5, CheckedKeeps
<1>6. CASE Poll \/ Dispose BY <1>6, PollKeeps, DisposeKeeps
<1>7. CASE UNCHANGED vars
 <2>1. Sound(manager, Outputs) /\ Spares(manager, manager) BY Known, SparesItself
 <2>2. spent \in [Kinds -> Nat] /\ spent.writes >= spent.writes BY DEF IInv, Typed, Kinds
 <2> QED BY <1>7, <2>1, <2>2, SparingKeeps DEF vars
<1> QED BY <1>1, <1>2, <1>3, <1>4, <1>5, <1>6, <1>7 DEF Next

(* The inductive invariant implies that sessions, writes and processes      *)
(* agree.                                                                   *)
LEMMA SoundAccounted == IInv => ProcessesAccounted
<1> SUFFICES ASSUME IInv PROVE ProcessesAccounted OBVIOUS
<1>1. /\ Sound(manager, Outputs) /\ manager \in Managers(Outputs)
      /\ \A s \in DOMAIN manager.objects : manager.objects[s] \in SessionStates(Outputs)
 BY Known, SessionTyped
<1>2. SessionsOK
 BY <1>1 DEF SessionsOK, Objects, Sound, Accounted, MapSound, ObjectsSound, SessionStates, Outputs
<1>3. WritesOK BY <1>1 DEF WritesOK, Sound, Queued
<1>4. TypeOK BY <1>1, <1>2, <1>3 DEF TypeOK, IInv, Typed, Texts, Sound, Accounted, ProcessesSound
<1>5. NoProcessLeftBehind
 BY <1>1 DEF NoProcessLeftBehind, LiveReachable, ProcessesOwned, Objects, Sound, Accounted,
     ProcessesSound, LiveMapped
<1>6. ActivityIsCurrent BY <1>1 DEF ActivityIsCurrent, Objects, Sound, Accounted, ObjectsSound
<1> QED BY <1>4, <1>5, <1>6 DEF ProcessesAccounted

(* It implies that the files of the terminals that settle are up to date:   *)
(* a queue that ends with a write has it under way.                         *)
LEMMA SoundTranscripts == IInv => TranscriptKept
<1> SUFFICES ASSUME IInv, NEW t \in Terminals, Settled(t), ~Excepted(manager, t)
    PROVE  files[t] = wanted[t]
 BY DEF TranscriptKept, Excepted, Evicted
<1>1. Kept(manager, t) BY DEF IInv, TranscriptsSound
<1>2. manager.tail[t] = 0 BY DEF IInv, Queued, Settled
<1> QED BY <1>1, <1>2 DEF Kept, Newest, Settled

(* Sessions, writes and processes agree in every state: one session of a    *)
(* terminal is in the map, every process that was not asked to stop belongs *)
(* to a session that close, restart and dispose find there, unless it was   *)
(* evicted or disposed, and what is known of subprocesses is known of the   *)
(* process that runs.                                                       *)
THEOREM ProcessesAreAccounted == Spec => []ProcessesAccounted
<1>1. Spec => []IInv BY InitSound, NextKeeps, PTL DEF Spec
<1> QED BY <1>1, SoundAccounted, PTL

(* A terminal that has settled has its transcript in its file, for any      *)
(* interleaving of calls, outputs, timers and writes, unless a session of   *)
(* it was evicted, a write failed or dispose gave it up.                    *)
THEOREM TranscriptsAreKept == Spec => []TranscriptKept
<1>1. Spec => []IInv BY InitSound, NextKeeps, PTL DEF Spec
<1> QED BY <1>1, SoundTranscripts, PTL

--------------------
(* The desktop application, invariant: the servers.                         *)
Statuses == {"live", "stopping", "killed", "gone"}

ServersTyped ==
    /\ app \in {"up", "quitting", "gone"}
    /\ children \in Seq(Statuses)
    /\ backend \in {0} \cup DOMAIN children /\ escalating \subseteq DOMAIN children
    /\ install \in [step : {"none", "stopping", "killing", "ready"}, child : Nat]

\* There is never more than one server process, and none while a timer waits
\* to start one: each start needs the exit of the server before.
OneServer ==
    /\ \A c, d \in DOMAIN children : ChildRuns(c) /\ ChildRuns(d) => c = d
    /\ restartTimer => \A c \in DOMAIN children : ~ChildRuns(c)

\* The server that was not told to stop is the one remembered, and a kill is
\* never for it.
LiveIsRemembered ==
    /\ \A c \in DOMAIN children : children[c] = "live" <=> c = backend
    /\ \A c \in escalating : children[c] # "live"

\* Quitting, no server is remembered; otherwise none is stopping.
QuittingStops ==
    /\ isQuitting => backend = 0
    /\ ~isQuitting => \A c \in DOMAIN children : children[c] # "stopping"

\* What an installation in progress knows of the servers.
InstallTracked ==
    /\ install.step # "none" => isQuitting
    /\ install.child = 0 <=> install.step \in {"none", "ready"}
    /\ install.child \in {0} \cup DOMAIN children
    /\ install.step \in {"killing", "ready"} =>
         \A c \in DOMAIN children : children[c] \in {"killed", "gone"}
    /\ install.step = "stopping" =>
         \A c \in DOMAIN children : c # install.child => children[c] \in {"killed", "gone"}

ServersInvariant ==
    /\ ServersTyped
    /\ OneServer
    /\ LiveIsRemembered
    /\ QuittingStops
    /\ InstallTracked

--------------------
(* The desktop application, invariant: the update.                          *)
UpdateStatuses ==
    {"idle", "checking", "up-to-date", "available", "downloading", "downloaded", "error"}
Contexts == {"none", "check", "download", "install"}

Updates == [status : UpdateStatuses, available : Nat, downloaded : Nat, context : Contexts]

UpdateTyped ==
    /\ released \in Nat /\ used \in [Events -> Nat]
    /\ update \in Updates
    /\ update.available <= released /\ update.downloaded <= update.available

\* What is in flight shows in the status, and a version is downloaded only in
\* the status that says so.
StatusTracks ==
    used.installs = 0 =>
        /\ checking => update.status = "checking"
        /\ downloading => update.status = "downloading"
        /\ update.downloaded # 0 => update.status = "downloaded"

UpdateInvariant == UpdateTyped /\ StatusTracks

FlagsTyped == {isQuitting, restartTimer, checking, downloading} \subseteq BOOLEAN

--------------------
(* The desktop application: lemmas.                                         *)
(* A signal, like an exit, changes one child and no other.                  *)
LEMMA OneChildChanges ==
  ASSUME NEW processes \in Seq(Statuses), NEW child \in DOMAIN processes, NEW status \in Statuses
  PROVE LET changed == [processes EXCEPT ![child] = status]
        IN  /\ changed \in Seq(Statuses)
            /\ DOMAIN changed = DOMAIN processes
            /\ \A c \in DOMAIN processes :
                 changed[c] = IF c = child THEN status ELSE processes[c]
OBVIOUS

(* A signal reaches the child if it still runs.                             *)
LEMMA SignalReaches ==
  ASSUME children \in Seq(Statuses), NEW child \in DOMAIN children, NEW status \in Statuses
  PROVE /\ Signal(child, status) \in Seq(Statuses)
        /\ DOMAIN Signal(child, status) = DOMAIN children
        /\ \A c \in DOMAIN children :
             Signal(child, status)[c] =
                 IF c = child /\ children[c] # "gone" THEN status ELSE children[c]
<1>1. children[child] \in Statuses OBVIOUS
<1>2. CASE children[child] = "gone"
 <2>1. Signal(child, status) = [children EXCEPT ![child] = "gone"] BY <1>2 DEF Signal, ChildRuns
 <2>2. "gone" \in Statuses BY DEF Statuses
 <2> QED BY <1>2, <2>1, <2>2, OneChildChanges
<1>3. CASE children[child] # "gone"
 <2>1. Signal(child, status) = [children EXCEPT ![child] = status] BY <1>3 DEF Signal, ChildRuns
 <2> QED BY <1>3, <2>1, OneChildChanges
<1> QED BY <1>2, <1>3

(* A new server is the last of the children.                                *)
LEMMA ServerAdded ==
  ASSUME children \in Seq(Statuses)
  PROVE LET added == Append(children, "live")
            new == Len(children) + 1
        IN  /\ added \in Seq(Statuses)
            /\ new # 0 /\ DOMAIN added = DOMAIN children \cup {new}
            /\ new \notin DOMAIN children
            /\ added[new] = "live"
            /\ \A c \in DOMAIN children : added[c] = children[c]
BY DEF Statuses

(* Spending from a bound counts it, and nothing else.                       *)
LEMMA UseCounts ==
  ASSUME NEW kind \in Events, used \in [Events -> Nat], Use(kind)
  PROVE /\ used' \in [Events -> Nat]
        /\ used'.installs = IF kind = "installs" THEN used.installs + 1 ELSE used.installs
BY DEF Use, Events

(* A new status keeps the versions.                                         *)
LEMMA StatusChanges ==
  ASSUME update \in Updates, NEW status \in UpdateStatuses, NEW context \in Contexts
  PROVE LET changed == [update EXCEPT !.status = status, !.context = context]
        IN  /\ changed \in Updates /\ changed.status = status
            /\ changed.available = update.available
            /\ changed.downloaded = update.downloaded
BY DEF Updates

(* A child is never number 0.                                               *)
LEMMA ChildrenArePositive ==
  ASSUME children \in Seq(Statuses)
  PROVE /\ DOMAIN children \subseteq Nat /\ 0 \notin DOMAIN children
        /\ \A c \in DOMAIN children : children[c] \in Statuses
OBVIOUS

--------------------
(* The desktop application: the steps of the update.                        *)
(* A release makes the latest version later.                                *)
LEMMA ReleaseUpdate == ASSUME UpdateInvariant, Release PROVE UpdateInvariant'
<1>1. used' \in [Events -> Nat] /\ used'.installs = used.installs
 BY UseCounts DEF Release, UpdateInvariant, UpdateTyped, Events
<1> QED BY <1>1 DEF UpdateInvariant, UpdateTyped, StatusTracks, Release, Updates

(* A check starts when no version waits, unless an installation failed.     *)
LEMMA CheckUpdate == ASSUME UpdateInvariant, Check PROVE UpdateInvariant'
<1>1. used' \in [Events -> Nat] /\ used'.installs = used.installs
 BY UseCounts DEF Check, BeginCheck, UpdateInvariant, UpdateTyped, Events
<1>2. /\ update' \in Updates /\ update'.status = "checking"
      /\ update'.available = update.available /\ update'.downloaded = update.downloaded
 <2>1. "checking" \in UpdateStatuses /\ "none" \in Contexts BY DEF UpdateStatuses, Contexts
 <2> QED BY <2>1, StatusChanges DEF Check, BeginCheck, UpdateInvariant, UpdateTyped
<1>3. UpdateTyped' BY <1>1, <1>2 DEF UpdateInvariant, UpdateTyped, Check, BeginCheck
<1>4. StatusTracks' BY <1>1, <1>2 DEF UpdateInvariant, StatusTracks, Check, BeginCheck
<1> QED BY <1>3, <1>4 DEF UpdateInvariant

(* The answer of a check replaces what was known, a failed check nothing.   *)
LEMMA CheckSettlesUpdate == ASSUME UpdateInvariant, CheckSettles PROVE UpdateInvariant'
<1>1. /\ used' \in [Events -> Nat] /\ used'.installs = used.installs
 BY UseCounts DEF CheckSettles, UpdateInvariant, UpdateTyped, Events
<1>2. CASE /\ update'.status \in {"available", "up-to-date"} /\ update' \in Updates
           /\ update'.available <= released /\ update'.downloaded = 0
 BY <1>1, <1>2 DEF UpdateInvariant, UpdateTyped, StatusTracks, CheckSettles, Updates
<1>3. CASE update' = [update EXCEPT !.status = "error", !.context = "check"]
 <2>1. "error" \in UpdateStatuses /\ "check" \in Contexts BY DEF UpdateStatuses, Contexts
 <2>2. /\ update' \in Updates /\ update'.status = "error"
       /\ update'.available = update.available /\ update'.downloaded = update.downloaded
  BY <1>3, <2>1, StatusChanges DEF UpdateInvariant, UpdateTyped
 <2>3. UpdateTyped' BY <1>1, <2>2 DEF UpdateInvariant, UpdateTyped, CheckSettles
 <2>4. StatusTracks' BY <1>1, <2>2 DEF UpdateInvariant, StatusTracks, CheckSettles
 <2> QED BY <2>3, <2>4 DEF UpdateInvariant
<1>4. \/ update' = [update EXCEPT !.status = "error", !.context = "check"]
      \/ /\ update'.status \in {"available", "up-to-date"} /\ update' \in Updates
         /\ update'.available <= released /\ update'.downloaded = 0
 BY DEF CheckSettles, UpdateInvariant, UpdateTyped, Updates, UpdateStatuses, Contexts
<1> QED BY <1>2, <1>3, <1>4

(* A download begins in the status that excludes a downloaded version.      *)
LEMMA DownloadUpdate == ASSUME UpdateInvariant, Download PROVE UpdateInvariant'
<1>1. used' \in [Events -> Nat] /\ used'.installs = used.installs
 BY UseCounts DEF Download, UpdateInvariant, UpdateTyped, Events
<1>2. /\ update' \in Updates /\ update'.status = "downloading"
      /\ update'.available = update.available /\ update'.downloaded = update.downloaded
 <2>1. "downloading" \in UpdateStatuses /\ "none" \in Contexts BY DEF UpdateStatuses, Contexts
 <2> QED BY <2>1, StatusChanges DEF Download, UpdateInvariant, UpdateTyped
<1>3. UpdateTyped' BY <1>1, <1>2 DEF UpdateInvariant, UpdateTyped, Download
<1>4. StatusTracks' BY <1>1, <1>2 DEF UpdateInvariant, StatusTracks, Download
<1> QED BY <1>3, <1>4 DEF UpdateInvariant

(* A download ends with its version, or with the status that it began from. *)
LEMMA DownloadSettlesUpdate == ASSUME UpdateInvariant, DownloadSettles PROVE UpdateInvariant'
<1>1. used' \in [Events -> Nat] /\ used'.installs = used.installs
 BY UseCounts DEF DownloadSettles, UpdateInvariant, UpdateTyped, Events
<1>2. CASE update' = [update EXCEPT !.status = "downloaded", !.downloaded = update.available,
                                    !.context = "none"]
 <2>1. /\ update' \in Updates /\ update'.status = "downloaded"
       /\ update'.available = update.available /\ update'.downloaded = update.available
  BY <1>2 DEF UpdateInvariant, UpdateTyped, Updates, UpdateStatuses, Contexts
 <2>2. UpdateTyped' BY <1>1, <2>1 DEF UpdateInvariant, UpdateTyped, DownloadSettles, Updates
 <2>3. StatusTracks' BY <1>1, <2>1 DEF UpdateInvariant, StatusTracks, DownloadSettles
 <2> QED BY <2>2, <2>3 DEF UpdateInvariant
<1>3. CASE update' = [update EXCEPT
                        !.status = IF update.available # 0 THEN "available" ELSE "error",
                        !.context = "download"]
 <2> DEFINE status == IF update.available # 0 THEN "available" ELSE "error"
 <2>1. status \in UpdateStatuses /\ "download" \in Contexts BY DEF UpdateStatuses, Contexts
 <2>2. /\ update' \in Updates /\ update'.status = status
       /\ update'.available = update.available /\ update'.downloaded = update.downloaded
  BY <1>3, <2>1, StatusChanges DEF UpdateInvariant, UpdateTyped
 <2>3. UpdateTyped' BY <1>1, <2>2 DEF UpdateInvariant, UpdateTyped, DownloadSettles
 <2>4. StatusTracks' BY <1>1, <2>2 DEF UpdateInvariant, StatusTracks, DownloadSettles
 <2> QED BY <2>3, <2>4 DEF UpdateInvariant
<1> QED BY <1>2, <1>3 DEF DownloadSettles

(* The installer leaves the versions alone; its failure is counted.         *)
LEMMA QuitAndInstallUpdate == ASSUME UpdateInvariant, QuitAndInstall PROVE UpdateInvariant'
<1>1. CASE UNCHANGED <<used, update>>
 BY <1>1 DEF UpdateInvariant, UpdateTyped, StatusTracks, QuitAndInstall
<1>2. CASE Use("installs") /\ update' \in Updates
           /\ update'.available = update.available /\ update'.downloaded = update.downloaded
 <2>1. used' \in [Events -> Nat] /\ used'.installs # 0
  <3>1. "installs" \in Events /\ used.installs \in Nat BY DEF Events, UpdateInvariant, UpdateTyped
  <3> QED BY <1>2, <3>1, UseCounts DEF UpdateInvariant, UpdateTyped
 <2> QED BY <1>2, <2>1 DEF UpdateInvariant, UpdateTyped, StatusTracks, QuitAndInstall
<1>3. \/ UNCHANGED <<used, update>>
      \/ /\ Use("installs") /\ update' \in Updates
         /\ update'.available = update.available /\ update'.downloaded = update.downloaded
 BY DEF QuitAndInstall, UpdateInvariant, UpdateTyped, Updates, UpdateStatuses, Contexts
<1> QED BY <1>1, <1>2, <1>3

--------------------
(* The desktop application: the steps of the server and its installation.   *)
USE DEF ChildRuns, Installing, NoInstall, Statuses

(* The timer starts a server when none is running, or does nothing.         *)
LEMMA RestartBackendServers ==
  ASSUME ServersInvariant, RestartBackend PROVE ServersInvariant'
<1>1. CASE UNCHANGED <<backend, children>>
 BY <1>1 DEF ServersInvariant, ServersTyped, OneServer, LiveIsRemembered, QuittingStops,
     InstallTracked, RestartBackend
<1>2. CASE /\ ~isQuitting /\ backend = 0
           /\ backend' = Len(children) + 1 /\ children' = Append(children, "live")
 <2>1. ServersTyped' BY <1>2, ServerAdded DEF ServersInvariant, ServersTyped, RestartBackend
 <2>2. OneServer'
  BY <1>2, ServerAdded DEF ServersInvariant, ServersTyped, OneServer, RestartBackend
 <2>3. LiveIsRemembered'
  BY <1>2, ServerAdded DEF ServersInvariant, ServersTyped, OneServer, LiveIsRemembered, RestartBackend
 <2>4. QuittingStops' /\ InstallTracked'
  BY <1>2, ServerAdded
  DEF ServersInvariant, ServersTyped, QuittingStops, InstallTracked, RestartBackend
 <2> QED BY <2>1, <2>2, <2>3, <2>4 DEF ServersInvariant
<1> QED BY <1>1, <1>2 DEF RestartBackend

(* An exit leaves no server that runs; an installation that waits for it    *)
(* goes on.                                                                 *)
LEMMA ExitServers ==
  ASSUME ServersInvariant, NEW child \in DOMAIN children, BackendExit(child)
  PROVE ServersInvariant'
<1>1. /\ children' \in Seq(Statuses) /\ DOMAIN children' = DOMAIN children
      /\ \A c \in DOMAIN children : children'[c] = IF c = child THEN "gone" ELSE children[c]
 BY OneChildChanges DEF ServersInvariant, ServersTyped, BackendExit, ChildExit
<1>2. \A c \in DOMAIN children : children'[c] = "gone"
 BY <1>1 DEF ServersInvariant, OneServer, BackendExit, ChildExit
<1>3. backend' = 0
 BY <1>2 DEF ServersInvariant, ServersTyped, OneServer, LiveIsRemembered, BackendExit, ChildExit
<1>4. ServersTyped' BY <1>1, <1>3 DEF ServersInvariant, ServersTyped, BackendExit, ChildExit
<1>5. OneServer' /\ LiveIsRemembered' /\ QuittingStops'
 BY <1>1, <1>2, <1>3, ChildrenArePositive
 DEF ServersInvariant, ServersTyped, OneServer, LiveIsRemembered, QuittingStops, BackendExit, ChildExit
<1>6. InstallTracked'
 BY <1>1, <1>2, ChildrenArePositive
 DEF ServersInvariant, ServersTyped, InstallTracked, BackendExit, ChildExit
<1> QED BY <1>4, <1>5, <1>6 DEF ServersInvariant

(* A kill is for a server that was told to stop.                            *)
LEMMA EscalateServers ==
  ASSUME ServersInvariant, NEW child \in DOMAIN children, Escalate(child)
  PROVE ServersInvariant'
<1>1. /\ children' \in Seq(Statuses) /\ DOMAIN children' = DOMAIN children
      /\ \A c \in DOMAIN children :
           children'[c] = IF c = child /\ children[c] # "gone" THEN "killed" ELSE children[c]
 BY SignalReaches DEF ServersInvariant, ServersTyped, Escalate
<1>2. ServersTyped' /\ OneServer' BY <1>1 DEF ServersInvariant, ServersTyped, OneServer, Escalate
<1>3. LiveIsRemembered' BY <1>1 DEF ServersInvariant, ServersTyped, LiveIsRemembered, Escalate
<1>4. QuittingStops' /\ InstallTracked'
 BY <1>1 DEF ServersInvariant, QuittingStops, InstallTracked, Escalate
<1> QED BY <1>2, <1>3, <1>4 DEF ServersInvariant

(* Quitting forgets the server and asks it to stop.  An installation in     *)
(* progress has done so before.                                             *)
LEMMA QuitServers ==
  ASSUME ServersInvariant, Quit PROVE ServersInvariant'
<1>1. CASE backend = 0
 BY <1>1 DEF ServersInvariant, ServersTyped, OneServer, LiveIsRemembered, QuittingStops,
     InstallTracked, Quit, StopBackend
<1>2. CASE backend # 0
 <2>1. /\ backend \in DOMAIN children
       /\ children' \in Seq(Statuses) /\ DOMAIN children' = DOMAIN children
       /\ \A c \in DOMAIN children :
            children'[c] = IF c = backend /\ children[c] # "gone" THEN "stopping" ELSE children[c]
  BY <1>2, SignalReaches DEF ServersInvariant, ServersTyped, Quit, StopBackend
 <2>2. ServersTyped' BY <2>1 DEF ServersInvariant, ServersTyped, Quit, StopBackend
 <2>3. OneServer' /\ LiveIsRemembered' /\ QuittingStops'
  BY <1>2, <2>1, ChildrenArePositive
  DEF ServersInvariant, ServersTyped, OneServer, LiveIsRemembered, QuittingStops, Quit, StopBackend
 <2>4. InstallTracked' BY <1>2, <2>1 DEF ServersInvariant, QuittingStops, InstallTracked, Quit
 <2> QED BY <2>2, <2>3, <2>4 DEF ServersInvariant
<1> QED BY <1>1, <1>2

(* Nothing of the servers changes as the application leaves.                *)
LEMMA LeaveServers ==
  ASSUME ServersInvariant, Leave PROVE ServersInvariant'
BY DEF ServersInvariant, ServersTyped, OneServer, LiveIsRemembered, QuittingStops, InstallTracked,
     Leave, servers

(* An installation begins when no server is stopping: the one that is       *)
(* remembered is the only one to wait for.                                  *)
LEMMA InstallServers ==
  ASSUME ServersInvariant, Install, install.step # "ready" PROVE ServersInvariant'
<1>1. CASE backend = 0
 <2>1. ServersTyped' BY <1>1 DEF ServersInvariant, ServersTyped, Install
 <2>2. OneServer' /\ LiveIsRemembered' /\ QuittingStops'
  BY <1>1 DEF ServersInvariant, ServersTyped, OneServer, LiveIsRemembered, QuittingStops, Install
 <2>3. InstallTracked'
  BY <1>1, ChildrenArePositive
  DEF ServersInvariant, ServersTyped, LiveIsRemembered, QuittingStops, InstallTracked, Install
 <2> QED BY <2>1, <2>2, <2>3 DEF ServersInvariant
<1>2. CASE backend # 0
 <2>1. /\ backend \in DOMAIN children
       /\ children' \in Seq(Statuses) /\ DOMAIN children' = DOMAIN children
       /\ \A c \in DOMAIN children :
            children'[c] = IF c = backend /\ children[c] # "gone" THEN "stopping" ELSE children[c]
  BY <1>2, SignalReaches DEF ServersInvariant, ServersTyped, Install
 <2>2. ServersTyped'
  BY <1>2, <2>1, ChildrenArePositive DEF ServersInvariant, ServersTyped, Install
 <2>3. OneServer' /\ LiveIsRemembered' /\ QuittingStops'
  BY <1>2, <2>1, ChildrenArePositive
  DEF ServersInvariant, ServersTyped, OneServer, LiveIsRemembered, QuittingStops, Install
 <2>4. InstallTracked'
  BY <1>2, <2>1, ChildrenArePositive
  DEF ServersInvariant, ServersTyped, LiveIsRemembered, QuittingStops, InstallTracked, Install
 <2> QED BY <2>2, <2>3, <2>4 DEF ServersInvariant
<1> QED BY <1>1, <1>2

(* After the kill no other server is left to run.                           *)
LEMMA ForceKillServers ==
  ASSUME ServersInvariant, ForceKill PROVE ServersInvariant'
<1>1. /\ install.child \in DOMAIN children
      /\ children' \in Seq(Statuses) /\ DOMAIN children' = DOMAIN children
      /\ \A c \in DOMAIN children :
           children'[c] = IF c = install.child /\ children[c] # "gone" THEN "killed" ELSE children[c]
 BY SignalReaches DEF ServersInvariant, ServersTyped, InstallTracked, ForceKill
<1>2. /\ install'.step = "killing" /\ install'.child = install.child
      /\ install' \in [step : {"none", "stopping", "killing", "ready"}, child : Nat]
 BY DEF ServersInvariant, ServersTyped, ForceKill
<1>3. ServersTyped' /\ OneServer'
 BY <1>1, <1>2 DEF ServersInvariant, ServersTyped, OneServer, ForceKill
<1>4. LiveIsRemembered' /\ QuittingStops'
 BY <1>1
 DEF ServersInvariant, ServersTyped, LiveIsRemembered, QuittingStops, InstallTracked, ForceKill
<1>5. InstallTracked' BY <1>1, <1>2 DEF ServersInvariant, InstallTracked, ForceKill
<1> QED BY <1>3, <1>4, <1>5 DEF ServersInvariant

(* The last wait ends.                                                      *)
LEMMA ExitTimeoutServers ==
  ASSUME ServersInvariant, ExitTimeout PROVE ServersInvariant'
BY DEF ServersInvariant, ServersTyped, OneServer, LiveIsRemembered, QuittingStops, InstallTracked,
     ExitTimeout, servers

(* When the installer fails, no server is stopping.                         *)
LEMMA QuitAndInstallServers ==
  ASSUME ServersInvariant, QuitAndInstall PROVE ServersInvariant'
<1>1. ServersTyped'
 <2>1. app' \in {"up", "quitting", "gone"} BY DEF ServersInvariant, ServersTyped, QuitAndInstall
 <2> QED BY <2>1 DEF ServersInvariant, ServersTyped, QuitAndInstall, servers
<1>2. OneServer' /\ LiveIsRemembered' /\ QuittingStops' /\ InstallTracked'
 BY DEF ServersInvariant, OneServer, LiveIsRemembered, QuittingStops, InstallTracked,
     QuitAndInstall, servers
<1> QED BY <1>1, <1>2 DEF ServersInvariant

--------------------
(* The desktop application: the invariants and the theorems.                *)
(* The application starts with one server and no update.                    *)
LEMMA InitEstablishes == Bootstrapped => ServersInvariant /\ UpdateInvariant /\ FlagsTyped
<1> SUFFICES ASSUME Bootstrapped PROVE ServersInvariant /\ UpdateInvariant /\ FlagsTyped OBVIOUS
<1>1. ServersTyped BY DEF Bootstrapped, ServersTyped
<1>2. OneServer /\ LiveIsRemembered /\ QuittingStops /\ InstallTracked
 BY DEF Bootstrapped, OneServer, LiveIsRemembered, QuittingStops, InstallTracked
<1>3. UpdateTyped /\ StatusTracks
 BY DEF Bootstrapped, UpdateTyped, StatusTracks, Events, Updates, UpdateStatuses, Contexts
<1>4. FlagsTyped BY DEF Bootstrapped, FlagsTyped
<1> QED BY <1>1, <1>2, <1>3, <1>4 DEF ServersInvariant, UpdateInvariant

(* Every step keeps what is known of the servers.                           *)
LEMMA ServersKeep ==
  ASSUME ServersInvariant, [DesktopNext]_desktopVars PROVE ServersInvariant'
<1>1. CASE QuitAndInstall BY <1>1, QuitAndInstallServers
<1>2. CASE RestartBackend \/ Quit \/ Leave
 BY <1>2, RestartBackendServers, QuitServers, LeaveServers
<1>3. ASSUME NEW child \in DOMAIN children, BackendExit(child) \/ Escalate(child)
    PROVE  ServersInvariant'
 BY <1>3, ExitServers, EscalateServers
<1>4. CASE install.step # "ready" /\ (Install \/ ForceKill \/ ExitTimeout)
 BY <1>4, InstallServers, ForceKillServers, ExitTimeoutServers
<1>5. CASE UNCHANGED <<app, isQuitting, servers, install>>
 BY <1>5 DEF ServersInvariant, ServersTyped, OneServer, LiveIsRemembered, QuittingStops,
     InstallTracked, servers
<1>6. Release \/ Check \/ CheckSettles \/ Download \/ DownloadSettles
      => UNCHANGED <<app, isQuitting, servers, install>>
 BY DEF Release, Check, BeginCheck, CheckSettles, Download, DownloadSettles
<1>7. UNCHANGED desktopVars => UNCHANGED <<app, isQuitting, servers, install>> BY DEF desktopVars
<1> QED BY <1>1, <1>2, <1>3, <1>4, <1>5, <1>6, <1>7 DEF DesktopNext

(* Every step keeps what is known of the update; those of the servers only  *)
(* spend from bounds that are not the installer's.                          *)
LEMMA UpdateKeeps ==
  ASSUME UpdateInvariant, [DesktopNext]_desktopVars PROVE UpdateInvariant'
<1>1. CASE QuitAndInstall BY <1>1, QuitAndInstallUpdate
<1>2. CASE Release \/ Check \/ CheckSettles \/ Download \/ DownloadSettles
 BY <1>2, ReleaseUpdate, CheckUpdate, CheckSettlesUpdate, DownloadUpdate, DownloadSettlesUpdate
<1>3. CASE /\ UNCHANGED updates
           /\ UNCHANGED used \/ \E kind \in {"crashes", "spawns", "quits"} : Use(kind)
 <2>1. used' \in [Events -> Nat] /\ used'.installs = used.installs
  BY <1>3, UseCounts DEF UpdateInvariant, UpdateTyped, Events
 <2> QED BY <1>3, <2>1 DEF UpdateInvariant, UpdateTyped, StatusTracks, updates
<1>4. CASE RestartBackend \/ Quit \/ Leave \/ Install \/ ForceKill \/ ExitTimeout
 BY <1>3, <1>4 DEF RestartBackend, Quit, Leave, Install, ForceKill, ExitTimeout, updates
<1>5. ASSUME NEW child \in DOMAIN children, BackendExit(child) \/ Escalate(child)
    PROVE  UpdateInvariant'
 BY <1>3, <1>5 DEF BackendExit, ChildExit, Escalate, updates
<1>6. CASE UNCHANGED desktopVars BY <1>3, <1>6 DEF desktopVars
<1> QED BY <1>1, <1>2, <1>4, <1>5, <1>6 DEF DesktopNext

(* Every step sets flags to truth values.                                   *)
LEMMA FlagsKeep ==
  ASSUME FlagsTyped, [DesktopNext]_desktopVars PROVE FlagsTyped'
<1>1. CASE QuitAndInstall BY <1>1, Zenon DEF FlagsTyped, QuitAndInstall, servers
<1>2. CASE RestartBackend BY <1>2, Zenon DEF FlagsTyped, RestartBackend, ScheduleRestart, updates
<1>3. CASE Quit BY <1>3, Zenon DEF FlagsTyped, Quit, StopBackend, updates
<1>4. CASE Leave BY <1>4, Zenon DEF FlagsTyped, Leave, servers, updates
<1>5. ASSUME NEW child \in DOMAIN children, BackendExit(child) PROVE FlagsTyped'
 BY <1>5, Zenon DEF FlagsTyped, BackendExit, ChildExit, ScheduleRestart, updates
<1>6. ASSUME NEW child \in DOMAIN children, Escalate(child) PROVE FlagsTyped'
 BY <1>6, Zenon DEF FlagsTyped, Escalate, updates
<1>7. CASE Release BY <1>7, Zenon DEF FlagsTyped, Release, servers
<1>8. CASE Check BY <1>8, Zenon DEF FlagsTyped, Check, BeginCheck, servers
<1>9. CASE CheckSettles BY <1>9, Zenon DEF FlagsTyped, CheckSettles, servers
<1>10. CASE Download BY <1>10, Zenon DEF FlagsTyped, Download, servers
<1>11. CASE DownloadSettles BY <1>11, Zenon DEF FlagsTyped, DownloadSettles, servers
<1>12. CASE Install BY <1>12, Zenon DEF FlagsTyped, Install, updates
<1>13. CASE ForceKill \/ ExitTimeout
 BY <1>13, Zenon DEF FlagsTyped, ForceKill, ExitTimeout, servers, updates
<1>14. CASE UNCHANGED desktopVars BY <1>14 DEF FlagsTyped, desktopVars, servers, updates
<1> QED
 BY <1>1, <1>2, <1>3, <1>4, <1>5, <1>6, <1>7, <1>8, <1>9, <1>10, <1>11, <1>12, <1>13, <1>14
 DEF DesktopNext

(* What holds in every state that can be reached.                           *)
LEMMA InvariantHolds == DesktopSpec => [](ServersInvariant /\ UpdateInvariant /\ FlagsTyped)
<1>1. ServersInvariant /\ UpdateInvariant /\ FlagsTyped /\ [DesktopNext]_desktopVars
      => (ServersInvariant /\ UpdateInvariant /\ FlagsTyped)'
 BY ServersKeep, UpdateKeeps, FlagsKeep
<1> QED BY <1>1, InitEstablishes, PTL DEF DesktopSpec

(* Type correctness: a server that is remembered runs, and no timer is      *)
(* armed beside it; an installation waits for a server that is forgotten.   *)
THEOREM TypeCorrect == DesktopSpec => []DesktopTypeOK
<1>1. ServersInvariant /\ UpdateInvariant /\ FlagsTyped => DesktopTypeOK
 <2> SUFFICES ASSUME ServersInvariant, UpdateInvariant, FlagsTyped PROVE DesktopTypeOK OBVIOUS
 <2>1. backend # 0 => children[backend] = "live" /\ ~restartTimer
  BY DEF ServersInvariant, ServersTyped, OneServer, LiveIsRemembered
 <2>2. install.child # 0 => backend = 0 /\ install.step \in {"stopping", "killing"}
  BY DEF ServersInvariant, ServersTyped, QuittingStops, InstallTracked
 <2>3. update.available \in 0..released /\ update.downloaded \in 0..update.available
  BY DEF UpdateInvariant, UpdateTyped, Updates
 <2>4. {isQuitting, restartTimer, checking, downloading} \subseteq BOOLEAN BY DEF FlagsTyped
 <2> QED BY <2>1, <2>2, <2>3, <2>4 DEF DesktopTypeOK, ServersInvariant, ServersTyped
<1> QED BY <1>1, InvariantHolds, PTL

(* The installer never replaces the files of a server that was neither      *)
(* killed nor has exited, and an application that is gone while it quits    *)
(* has told its server to stop, whatever came before.                       *)
THEOREM InstallerAndEndAreSafe == DesktopSpec => []ServersStopped
<1>1. ServersInvariant => ServersStopped
 BY DEF ServersInvariant, ServersStopped, InstallerWaits, ServersToldToStop, InstallTracked,
     LiveIsRemembered, QuittingStops, ServersTyped
<1> QED BY <1>1, InvariantHolds, PTL

(* Whatever checks and timers do, a version that was downloaded stays ready *)
(* to install until its installation fails.                                 *)
THEOREM DownloadIsKept == DesktopSpec => []DownloadKept
<1>1. UpdateInvariant => DownloadKept
 <2> SUFFICES ASSUME UpdateInvariant, update.downloaded # 0, ~(used.installs > 0)
     PROVE  ButtonAction = "install"
  BY DEF DownloadKept
 <2>1. used.installs = 0 BY DEF UpdateInvariant, UpdateTyped, Events
 <2>2. update.status = "downloaded" BY <2>1 DEF UpdateInvariant, StatusTracks
 <2> QED BY <2>2 DEF ButtonAction
<1> QED BY <1>1, InvariantHolds, PTL
============================================================================

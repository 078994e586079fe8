--------------------------- MODULE TerminalManager ---------------------------
(***************************************************************************)
(* The terminals of the server: TerminalManagerRuntime, its sessions, their *)
(* processes and the files that keep their transcripts.                     *)
(*                                                                         *)
(* The state of the manager is one record.  What runs without an await is a *)
(* chain of operators from one such record to the next; an await ends a     *)
(* step, and the steps of one thread's calls are serialised by its lock.    *)
(*                                                                         *)
(* A transcript is the number of the last output in it, 0 being the empty   *)
(* one: the output names the text, since its session and what was cleared   *)
(* before are fixed with it.  A file is None while it does not exist.       *)
(***************************************************************************)
EXTENDS Integers, Sequences, FiniteSets

CONSTANTS
    Terminals, \* a thread and a terminal id each
    Settings,  \* the circumstances to consider: records of
               \*   calls, outputs: bounds of calls and of outputs
               \*   spawns, writes, signals: bounds of spawns, of writes and
               \*     removals of files, and of signals that fail
               \*   polls: bound of looks for subprocesses
               \*   retain: maxRetainedInactiveSessions
               \*   thread: the thread of each terminal
               \*   disposes: bound of dispose
    None       \* undefined

Kinds == {"calls", "outputs", "spawns", "writes", "signals", "polls", "disposes"}

ASSUME NoneAssumption == None \notin Nat

ASSUME TerminalAssumption == \A s \in Settings :
    /\ \A k \in Kinds \cup {"retain"} : s[k] \in Nat
    /\ DOMAIN s.thread = Terminals

VARIABLES
    setting,   \* of this behaviour
    manager,   \* a record of
               \*   objects: every TerminalSessionState ever made
               \*   sessions: the indices of those in the map of that name
               \*   older: the pairs of them of which one is older, by updatedAt
               \*   timers, pending, tail: persistTimers, pendingPersistHistory,
               \*     persistQueues (a write or 0)
               \*   writes: the writes under way, [id, terminal, history, after]
               \*   escalating: the processes with a timer in killEscalationTimers
               \*   evicted: (history) the objects that were evicted
               \*   processes: every process, live, signalled, killed, missed by a
               \*     signal that could not be sent, or gone
               \*   deaf: the processes that no SIGTERM can be sent to
    operation, \* what holds the lock of each thread
    files,     \* the transcripts on disk
    checks,    \* looks for subprocesses under way: [terminal, pid]
    spent,     \* how much of the bounds is used
    wanted,    \* (history) the transcript that each file should come to hold
    disposed   \* (history) dispose ran

vars == <<setting, manager, operation, files, checks, spent, wanted, disposed>>

Threads == {setting.thread[t] : t \in Terminals}
Of(thread) == {t \in Terminals : setting.thread[t] = thread}

Spend(kind) ==
    /\ spent[kind] < setting[kind]
    /\ spent' = [spent EXCEPT ![kind] = @ + 1]

\* No call holds the lock; otherwise its kind, the step it is at, its terminal
\* and session, the terminals it still flushes, the write each of them waits
\* for (0 for none) and whether it deletes.
Idle == [step |-> "idle"]
Call(kind, step, t, session) ==
    [kind |-> kind, step |-> step, terminal |-> t, session |-> session, flushing |-> {},
     waits |-> [x \in Terminals |-> 0], deletes |-> FALSE]
Flushing(kind, t, keys, deletes) ==
    [Call(kind, "flush", t, 0) EXCEPT !.flushing = keys, !.deletes = deletes]

Init ==
    /\ setting \in Settings
    /\ manager = [objects |-> << >>, sessions |-> {}, older |-> {}, timers |-> {},
                  pending |-> [t \in Terminals |-> None], tail |-> [t \in Terminals |-> 0],
                  writes |-> {}, escalating |-> {}, evicted |-> {}, processes |-> << >>,
                  deaf |-> {}]
    /\ operation = [thread \in Threads |-> Idle]
    /\ files = [t \in Terminals |-> None]
    /\ checks = {}
    /\ spent = [k \in Kinds |-> 0]
    /\ wanted = [t \in Terminals |-> None]
    /\ disposed = FALSE

-----------------------------------------------------------------------------
(***************************************************************************)
(* Sessions and the map of them.                                            *)
(***************************************************************************)
Session(m, t) == {s \in m.sessions : m.objects[s].terminal = t}
Running(m, s) == m.objects[s].status = "running" /\ m.objects[s].process # 0

\* updatedAt, of a session that may no longer be in the map.
Touch(m, s) ==
    IF s \notin m.sessions THEN m
    ELSE [m EXCEPT !.older = {pair \in @ : s \notin {pair[1], pair[2]}}
                               \cup (m.sessions \ {s}) \X {s}]

\* Sessions are taken out of the map.
Remove(m, gone) ==
    [m EXCEPT !.sessions = @ \ gone,
              !.older = {pair \in @ : pair[1] \notin gone /\ pair[2] \notin gone}]

\* The oldest sessions that do not run, beyond those that are retained.
Overdue(m) ==
    LET inactive == {s \in m.sessions : m.objects[s].status # "running"}
    IN  {s \in inactive : Cardinality({x \in inactive : <<s, x>> \in m.older}) >= setting.retain}

(* Mutant of Evict: with a session its timer to kill is given up, whatever  *)
(* process it is for.                                                       *)
EvictMutant(m) ==
    LET evicted == Overdue(m)
    IN  [Remove(m, evicted) EXCEPT !.escalating = IF evicted = {} THEN @ ELSE {},
                                   !.evicted = @ \cup evicted]

(* evictInactiveSessionsIfNeeded: with a session goes what was to be written *)
(* for it; a write under way goes on outside of the queue.                  *)
Evict(m) ==
    LET evicted == Overdue(m)
        keys == {m.objects[s].terminal : s \in evicted}
    IN  [Remove(m, evicted) EXCEPT
            !.timers = @ \ keys,
            !.pending = [t \in Terminals |-> IF t \in keys THEN None ELSE @[t]],
            !.tail = [t \in Terminals |-> IF t \in keys THEN 0 ELSE @[t]],
            !.escalating = @ \ {m.objects[s].process : s \in evicted},
            !.evicted = @ \cup evicted]

\* What becomes of a process with killProcessWithEscalation.
Signalled(m, process) == IF process \in m.deaf THEN "missed" ELSE "signalled"

\* stopProcess: the session gives its process up, whose events are not heard
\* any more; then SIGTERM and a timer to kill, or neither if kill throws.
Stop(m, s) ==
    LET process == m.objects[s].process
        timer == {process} \ m.deaf
    IN  IF process = 0 THEN m
        ELSE Evict(Touch([m EXCEPT !.objects[s].process = 0, !.objects[s].subprocess = 0,
                                   !.objects[s].status = "exited",
                                   !.processes[process] = Signalled(m, process),
                                   !.escalating = (@ \ {process}) \cup timer], s))

\* A session that is not in the map yet.
Create(m, t, history) ==
    LET s == Len(m.objects) + 1
    IN  Evict(Touch([m EXCEPT !.objects = Append(@, [terminal |-> t, status |-> "starting",
                                                     history |-> history, process |-> 0,
                                                     subprocess |-> 0]),
                              !.sessions = @ \cup {s}], s))

\* startSession up to the spawn, for a session that was stopped before.
Start(m, s) ==
    Touch([Stop(m, s) EXCEPT !.objects[s].status = "starting", !.objects[s].subprocess = 0], s)

-----------------------------------------------------------------------------
(***************************************************************************)
(* Transcripts.                                                             *)
(***************************************************************************)
\* The identity of a new write.
NewWrite(m) ==
    CHOOSE id \in 1..(Cardinality(m.writes) + 1) : \A w \in m.writes : w.id # id

\* enqueuePersistWrite: after the last write of the queue.
Enqueue(m, t, history) ==
    [m EXCEPT !.writes = @ \cup {[id |-> NewWrite(m), terminal |-> t, history |-> history,
                                  after |-> m.tail[t]]},
              !.tail[t] = NewWrite(m)]

(* Mutant of Persist: what waits to be written is left to its timer. *)
PersistMutant(m, t, history) == Enqueue(m, t, history)

(* persistHistory: instead of what waits to be written. *)
Persist(m, t, history) ==
    Enqueue([m EXCEPT !.timers = @ \ {t}, !.pending[t] = None], t, history)

\* Mutant of Queue: no timer is started.
QueueMutant(m, t, history) == [m EXCEPT !.pending[t] = history]

\* queuePersist.
Queue(m, t, history) == [m EXCEPT !.pending[t] = history, !.timers = @ \cup {t}]

\* The timer of schedulePersist.
WritePending(t) ==
    /\ t \in manager.timers
    /\ LET m == [manager EXCEPT !.timers = @ \ {t}]
       IN  manager' = IF m.pending[t] = None THEN m
                      ELSE Enqueue([m EXCEPT !.pending[t] = None], t, m.pending[t])
    /\ UNCHANGED <<setting, operation, files, checks, spent, wanted, disposed>>

(* Mutant of Written: the queue keeps the write that ended. *)
WrittenMutant(m, write) ==
    LET t == write.terminal
        rest == {[w EXCEPT !.after = IF @ = write.id THEN 0 ELSE @] : w \in m.writes \ {write}}
    IN  [m EXCEPT !.writes = rest,
                  !.timers = IF m.pending[t] # None THEN @ \cup {t} ELSE @]

(* The queue without a write that ended; what came in meanwhile gets a      *)
(* timer.                                                                   *)
Written(m, write) ==
    LET t == write.terminal
        rest == {[w EXCEPT !.after = IF @ = write.id THEN 0 ELSE @] : w \in m.writes \ {write}}
    IN  [m EXCEPT !.writes = rest,
                  !.tail[t] = IF @ = write.id THEN 0 ELSE @,
                  !.timers = IF m.pending[t] # None THEN @ \cup {t} ELSE @]

\* A write ends, or fails with a warning; who waits for it goes on.
Write(write) ==
    /\ write.after = 0
    /\ \/ files' = [files EXCEPT ![write.terminal] = write.history] /\ UNCHANGED spent
       \/ Spend("writes") /\ UNCHANGED files
    /\ manager' = Written(manager, write)
    /\ operation' = [thread \in Threads |->
          LET call == operation[thread]
          IN  IF call = Idle THEN call
              ELSE [call EXCEPT !.waits =
                      [t \in Terminals |-> IF @[t] = write.id THEN 0 ELSE @[t]]]]
    /\ UNCHANGED <<setting, checks, wanted, disposed>>

-----------------------------------------------------------------------------
(***************************************************************************)
(* Calls, which wait for the lock of their thread.                          *)
(***************************************************************************)
Begin(t) ==
    /\ ~disposed /\ operation[setting.thread[t]] = Idle
    /\ Spend("calls")

Hold(t, call) == operation' = [operation EXCEPT ![setting.thread[t]] = call]

\* The history of a session is reset and written; the call waits.
Reset(kind, m, s) ==
    LET t == m.objects[s].terminal
        cleared == Persist([m EXCEPT !.objects[s].history = 0], t, 0)
    IN  /\ manager' = cleared
        /\ wanted' = [wanted EXCEPT ![t] = 0]
        /\ Hold(t, [Call(kind, "persist", t, s) EXCEPT !.waits[t] = cleared.tail[t]])

\* open of a terminal that is not in the map: its file is flushed, then read.
OpenNew(t) ==
    /\ Begin(t)
    /\ Session(manager, t) = {}
    /\ manager' = [manager EXCEPT !.timers = @ \ {t}]
    /\ Hold(t, Flushing("open", t, {t}, FALSE))
    /\ UNCHANGED <<setting, files, checks, wanted, disposed>>

\* open of one that is, perhaps with another directory or environment.
OpenExisting(t) ==
    /\ Begin(t)
    /\ \E s \in Session(manager, t) :
          \/ Reset("open", Stop(manager, s), s)
          \/ manager.objects[s].status \in {"exited", "error"} /\ Reset("open", manager, s)
          \/ manager.objects[s].process # 0 /\ UNCHANGED <<manager, operation, wanted>>
    /\ UNCHANGED <<setting, files, checks, disposed>>

Clear(t) ==
    /\ Begin(t)
    /\ \E s \in Session(manager, t) : Reset("clear", Touch(manager, s), s)
    /\ UNCHANGED <<setting, files, checks, disposed>>

RestartTerminal(t) ==
    /\ Begin(t)
    /\ IF Session(manager, t) = {}
       THEN Reset("restart", Create(manager, t, 0), Len(manager.objects) + 1)
       ELSE \E s \in Session(manager, t) : Reset("restart", Stop(manager, s), s)
    /\ UNCHANGED <<setting, files, checks, disposed>>

\* Mutant of Discard: the process of the session is left alone.
DiscardMutant(m, s) == Remove(m, {s})

\* A session is stopped and taken out of the map.
Discard(m, s) == Remove(Stop(m, s), {s})

\* close of one terminal.
Close(t) ==
    /\ Begin(t)
    /\ \E s \in {0} \cup Session(manager, t), deletes \in BOOLEAN :
          /\ s = 0 <=> Session(manager, t) = {}
          /\ LET m == IF s = 0 THEN manager ELSE Discard(manager, s)
             IN  manager' = [m EXCEPT !.timers = @ \ {t}]
          /\ Hold(t, Flushing("close", t, {t}, deletes))
    /\ UNCHANGED <<setting, files, checks, wanted, disposed>>

\* close of all terminals of a thread: those in the map are stopped, one by
\* one, before anything else happens.
CloseThread(t) ==
    LET own == {s \in manager.sessions : manager.objects[s].terminal \in Of(setting.thread[t])}
        keys == {manager.objects[s].terminal : s \in own}
    IN  /\ Begin(t)
        /\ \E deletes \in BOOLEAN :
              Hold(t, [Flushing("closeThread", t, keys, deletes) EXCEPT !.step = "stopping"])
        /\ UNCHANGED <<setting, manager, files, checks, wanted, disposed>>

Stopping == \E thread \in Threads : operation[thread].step = "stopping"

\* dispose does not wait for a lock.  What a call awaits still comes.
Dispose ==
    LET stopped == {s \in manager.sessions : manager.objects[s].process # 0}
        signalled == {manager.objects[s].process : s \in stopped}
    IN  /\ ~disposed /\ Spend("disposes")
        /\ disposed' = TRUE
        /\ manager' = [Remove(manager, manager.sessions) EXCEPT
                          !.objects = [s \in DOMAIN @ |->
                              IF s \in stopped
                              THEN [@[s] EXCEPT !.process = 0, !.subprocess = 0, !.status = "exited"]
                              ELSE @[s]],
                          !.processes = [p \in DOMAIN @ |->
                              IF p \in signalled THEN Signalled(manager, p) ELSE @[p]],
                          !.timers = {}, !.escalating = {},
                          !.pending = [t \in Terminals |-> None],
                          !.tail = [t \in Terminals |-> 0]]
        /\ UNCHANGED <<setting, operation, files, checks, wanted>>

-----------------------------------------------------------------------------
(***************************************************************************)
(* The steps of the call that holds the lock of a thread.                   *)
(***************************************************************************)
At(t, step) == operation[setting.thread[t]].step = step

\* The next session of the thread that close stops, in the order of the map;
\* after the last, the transcripts are flushed.
StopNext(t) ==
    LET call == operation[setting.thread[t]]
        own == {s \in manager.sessions : manager.objects[s].terminal \in call.flushing}
    IN  /\ At(t, "stopping") /\ call.terminal = t
        /\ \/ /\ \E s \in own : (\A x \in own : s <= x) /\ manager' = Discard(manager, s)
              /\ UNCHANGED operation
           \/ /\ own = {}
              /\ manager' = [manager EXCEPT !.timers = @ \ call.flushing]
              /\ Hold(t, [call EXCEPT !.step = "flush"])
        /\ UNCHANGED <<setting, files, checks, spent, wanted, disposed>>

\* flushPersistQueue of one terminal, one turn of its loop (of which the code
\* takes the first at once).
Flush(t) ==
    LET call == operation[setting.thread[t]]
    IN  /\ At(t, "flush") /\ t \in call.flushing /\ call.waits[t] = 0
        /\ IF manager.pending[t] # None
           THEN LET m == Enqueue([manager EXCEPT !.pending[t] = None], t, manager.pending[t])
                IN  manager' = m /\ Hold(t, [call EXCEPT !.waits[t] = m.tail[t]])
           ELSE /\ UNCHANGED manager
                /\ IF manager.tail[t] # 0
                   THEN Hold(t, [call EXCEPT !.waits[t] = manager.tail[t]])
                   ELSE Hold(t, [call EXCEPT !.flushing = @ \ {t}])
        /\ UNCHANGED <<setting, files, checks, spent, wanted, disposed>>

\* The call of this terminal has flushed what it had to.
Flushed(t, kinds) ==
    LET call == operation[setting.thread[t]]
    IN  At(t, "flush") /\ call.terminal = t /\ call.flushing = {} /\ call.kind \in kinds

\* open goes on: the session is made of what the file holds.
ReadHistory(t) ==
    /\ Flushed(t, {"open"})
    /\ LET s == Len(manager.objects) + 1
           history == IF files[t] = None THEN 0 ELSE files[t]
       IN  /\ manager' = Start(Create(manager, t, history), s)
           /\ Hold(t, Call("open", "spawn", t, s))
    /\ UNCHANGED <<setting, files, checks, spent, wanted, disposed>>

\* close ends, with the deletion of the files of the terminal or the thread;
\* what cannot be removed is kept with a warning.
Closed(t) ==
    /\ Flushed(t, {"close", "closeThread"})
    /\ LET call == operation[setting.thread[t]]
           keys == IF call.kind = "close" THEN {t} ELSE Of(setting.thread[t])
       IN  IF call.deletes
           THEN /\ \E kept \in SUBSET keys :
                      /\ IF kept = {} THEN UNCHANGED spent ELSE Spend("writes")
                      /\ files' = [x \in Terminals |-> IF x \in keys \ kept THEN None ELSE files[x]]
                /\ wanted' = [x \in Terminals |-> IF x \in keys THEN None ELSE wanted[x]]
           ELSE UNCHANGED <<files, wanted, spent>>
    /\ Hold(t, Idle)
    /\ UNCHANGED <<setting, manager, checks, disposed>>

\* The history is written: clear ends, the others start a process.
Persisted(t) ==
    LET call == operation[setting.thread[t]]
    IN  /\ At(t, "persist") /\ call.terminal = t /\ call.waits[t] = 0
        /\ IF call.kind = "clear" THEN Hold(t, Idle) /\ UNCHANGED manager
           ELSE /\ manager' = Start(manager, call.session)
                /\ Hold(t, [call EXCEPT !.step = "spawn"])
        /\ UNCHANGED <<setting, files, checks, spent, wanted, disposed>>

\* The spawn of startSession succeeds, of a process that can be signalled or
\* of one that cannot, or no shell can be started.
Spawned(t) ==
    LET call == operation[setting.thread[t]]
        s == call.session
        process == Len(manager.processes) + 1
    IN  /\ At(t, "spawn") /\ call.terminal = t
        /\ \/ \E deaf \in SUBSET {process} :
                 /\ IF deaf = {} THEN UNCHANGED spent ELSE Spend("signals")
                 /\ manager' = Touch([manager EXCEPT !.processes = Append(@, "live"),
                                                     !.deaf = @ \cup deaf,
                                                     !.objects[s].process = process,
                                                     !.objects[s].status = "running"], s)
           \/ /\ Spend("spawns")
              /\ manager' = Evict(Touch([manager EXCEPT !.objects[s].status = "error"], s))
        /\ Hold(t, Idle)
        /\ UNCHANGED <<setting, files, checks, wanted, disposed>>

-----------------------------------------------------------------------------
(***************************************************************************)
(* Processes, whose events reach the session that they belong to.           *)
(***************************************************************************)
Objects == DOMAIN manager.objects

\* onProcessData.
Output(s) ==
    LET t == manager.objects[s].terminal
        history == spent.outputs + 1
    IN  /\ manager.objects[s].process # 0
        /\ Spend("outputs")
        /\ manager' = Touch(Queue([manager EXCEPT !.objects[s].history = history], t, history), s)
        /\ wanted' = [wanted EXCEPT ![t] = history]
        /\ UNCHANGED <<setting, operation, files, checks, disposed>>

\* A process exits by itself: onProcessExit.
Exit(s) ==
    LET process == manager.objects[s].process
    IN  /\ process # 0
        /\ manager' = Evict(Touch([manager EXCEPT !.objects[s].process = 0,
                                                  !.objects[s].subprocess = 0,
                                                  !.objects[s].status = "exited",
                                                  !.processes[process] = "gone",
                                                  !.escalating = @ \ {process}], s))
        /\ UNCHANGED <<setting, operation, files, checks, spent, wanted, disposed>>

\* One that was given up exits unheard; a signal may be ignored.
Die(process) ==
    /\ manager.processes[process] \in {"signalled", "missed", "killed"}
    /\ manager' = [manager EXCEPT !.processes[process] = "gone"]
    /\ UNCHANGED <<setting, operation, files, checks, spent, wanted, disposed>>

\* The timer of killProcessWithEscalation, which nobody ends before; its
\* SIGKILL may throw as well.
Kill(process) ==
    /\ process \in manager.escalating
    /\ \E outcome \in {"killed", "missed"} :
          /\ IF outcome = "killed" THEN UNCHANGED spent ELSE Spend("signals")
          /\ manager' = [manager EXCEPT !.escalating = @ \ {process},
                                        !.processes[process] = IF @ = "gone" THEN @ ELSE outcome]
    /\ UNCHANGED <<setting, operation, files, checks, wanted, disposed>>

\* pollSubprocessActivity: all running sessions are looked at at once.
Poll ==
    /\ checks = {} /\ ~disposed
    /\ Spend("polls")
    /\ checks' = {[terminal |-> manager.objects[s].terminal, pid |-> manager.objects[s].process] :
                    s \in {x \in manager.sessions : Running(manager, x)}}
    /\ checks' # {}
    /\ UNCHANGED <<setting, manager, operation, files, wanted, disposed>>

\* Mutant of Seen: the result is taken for that of the session that runs now.
SeenMutant(check, s) == Running(manager, s)

\* The session that the result of a look is for.
Seen(check, s) == Running(manager, s) /\ manager.objects[s].process = check.pid

\* A look ends: it failed, or there are subprocesses of the process or none.
Checked(check) ==
    /\ check \in checks
    /\ checks' = checks \ {check}
    /\ \/ UNCHANGED manager
       \/ \E s \in Session(manager, check.terminal), found \in BOOLEAN :
             /\ Seen(check, s)
             /\ manager' = [manager EXCEPT !.objects[s].subprocess =
                                             IF found THEN check.pid ELSE 0]
    /\ UNCHANGED <<setting, operation, files, spent, wanted, disposed>>

\* While the terminals of a thread are stopped nothing else happens.
Next ==
    \/ \E t \in Terminals : StopNext(t)
    \/ /\ ~Stopping
       /\ \/ \E t \in Terminals :
                \/ OpenNew(t) \/ OpenExisting(t) \/ Clear(t) \/ RestartTerminal(t)
                \/ Close(t) \/ CloseThread(t)
                \/ Flush(t) \/ ReadHistory(t) \/ Closed(t) \/ Persisted(t) \/ Spawned(t)
                \/ WritePending(t)
          \/ \E write \in manager.writes : Write(write)
          \/ \E s \in Objects : Output(s) \/ Exit(s)
          \/ \E process \in DOMAIN manager.processes : Die(process) \/ Kill(process)
          \/ \E check \in checks : Checked(check)
          \/ Poll \/ Dispose

Spec == Init /\ [][Next]_vars

(* Calls go on when what they await has come, timers end, writes end, and a *)
(* process that is killed dies.                                             *)
Fairness ==
    /\ \A t \in Terminals :
          /\ WF_vars(StopNext(t))
          /\ WF_vars(Flush(t)) /\ WF_vars(ReadHistory(t)) /\ WF_vars(Closed(t))
          /\ WF_vars(Persisted(t)) /\ WF_vars(Spawned(t)) /\ WF_vars(WritePending(t))
    /\ WF_vars(\E write \in manager.writes : Write(write))
    /\ WF_vars(\E process \in DOMAIN manager.processes : Kill(process))
    /\ WF_vars(\E process \in DOMAIN manager.processes :
                  manager.processes[process] = "killed" /\ Die(process))
FairSpec == Spec /\ Fairness

-----------------------------------------------------------------------------
(***************************************************************************)
(* Properties.                                                              *)
(***************************************************************************)
(* The type of the state; the map has one session of a terminal, a session  *)
(* runs exactly while it has a process, a write waits for one of the same   *)
(* terminal, and a queue ends with one that is under way.                   *)
SessionsOK ==
    /\ \A s \in Objects :
          LET object == manager.objects[s]
          IN  /\ object.status = "running" <=> object.process # 0
              /\ object.process # 0 => manager.processes[object.process] = "live"
              /\ object.status \in {"starting", "running", "exited", "error"}
              /\ object.history \in 0..spent.outputs
    /\ manager.sessions \subseteq Objects
    /\ \A s, x \in manager.sessions :
          manager.objects[s].terminal = manager.objects[x].terminal => s = x
WritesOK ==
    /\ \A v, w \in manager.writes : v.id = w.id => v = w
    /\ \A w \in manager.writes : w.after # 0 =>
          \E v \in manager.writes : v.id = w.after /\ v.terminal = w.terminal
    /\ \A t \in Terminals : manager.tail[t] # 0 =>
          \E w \in manager.writes : w.id = manager.tail[t] /\ w.terminal = t
TypeOK ==
    /\ SessionsOK /\ WritesOK
    /\ \A t \in Terminals : files[t] \in {None} \cup 0..spent.outputs
    /\ \A process \in manager.escalating :
          manager.processes[process] \in {"signalled", "gone"}

(* A process that was not given up belongs to the session of its terminal   *)
(* in the map, where close, restart and dispose find it, and one that was   *)
(* has its timer until it is killed or gone: none is left behind by a call  *)
(* (stopProcess everywhere).  Excepted are sessions that were evicted while *)
(* they started, calls and timers that dispose overtook, and the missed:    *)
(* those whose session gave them up, or whose timer ended, when kill threw. *)
LiveReachable ==
    \A s \in Objects \ manager.evicted :
        manager.objects[s].process # 0 => disposed \/ s \in manager.sessions
ProcessesOwned ==
    \A process \in DOMAIN manager.processes :
        /\ manager.processes[process] = "live" =>
              \E s \in Objects : manager.objects[s].process = process
        /\ manager.processes[process] = "signalled" => disposed \/ process \in manager.escalating
NoProcessLeftBehind == LiveReachable /\ ProcessesOwned

(* What is known of subprocesses is known of the process that runs now, not *)
(* of one that was replaced while it was looked at.                         *)
ActivityIsCurrent ==
    \A s \in Objects : manager.objects[s].subprocess \in {0, manager.objects[s].process}

(* Sessions, writes and processes agree.                                    *)
ProcessesAccounted == TypeOK /\ NoProcessLeftBehind /\ ActivityIsCurrent

(* When nothing waits to be written and no call is under way, the file of a *)
(* terminal holds what was last displayed or cleared, and does not exist    *)
(* after its deletion (the queue and the timer of a terminal are emptied by *)
(* open and close, and a write does not overtake another), unless one of    *)
(* its sessions was evicted, dispose gave it up, or a write or the removal  *)
(* of a file failed, which the call that deletes does not report.           *)
Settled(t) ==
    /\ operation[setting.thread[t]] = Idle
    /\ manager.pending[t] = None
    /\ \A w \in manager.writes : w.terminal # t
TranscriptKept ==
    \A t \in Terminals :
        Settled(t) => \/ files[t] = wanted[t]
                      \/ disposed \/ spent.writes > 0
                      \/ \E s \in manager.evicted : manager.objects[s].terminal = t

(* All calls end, all that was displayed is written, and who was asked to   *)
(* stop dies, whether or not it heeds SIGTERM, unless dispose took away the *)
(* timers or the process is one of the missed, which kill threw for and     *)
(* nobody asks again.                                                       *)
Quiet ==
    /\ \A t \in Terminals : Settled(t)
    /\ disposed \/ \A process \in DOMAIN manager.processes :
                      manager.processes[process] \in {"live", "missed", "gone"}
Settles == <>[]Quiet
=============================================================================

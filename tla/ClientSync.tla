----------------------------- MODULE ClientSync -----------------------------
(***************************************************************************)
(* One client and the server that it follows: WsTransport, the event router *)
(* of the root route, the plan view that fetches snapshots past it, and the *)
(* WebSocket side of wsServer.                                              *)
(*                                                                         *)
(* A state of the server is its sequence, which is what a snapshot carries; *)
(* commands are commits.  A message is lost with its connection.  Timers    *)
(* may end at any time: nothing of the code depends on their length except  *)
(* that the poll of an unsent request is given up with the request.         *)
(***************************************************************************)
EXTENDS Naturals, Sequences

CONSTANTS
    Settings,  \* the circumstances to consider: records of bounds of
               \*   commits: events that are committed
               \*   drops, restarts: lost connections, crashes of the server
               \*   faults, slow: requests that fail, that outlast their time
               \*   plans, mounts: snapshots of the plan view, mounts of the
               \*     router
    None       \* undefined

Kinds == {"commits", "drops", "restarts", "faults", "slow", "plans", "mounts"}

ASSUME SyncAssumption ==
    /\ \A s \in Settings : \A k \in Kinds : s[k] \in Nat
    /\ None \notin Nat

VARIABLES
    setting,   \* of this behaviour
    log,       \* the sequence of the last event that is committed
    published, \* the sequence of the last event that was broadcast
    connected, \* is there a connection?
    inbound,   \* what is on its way to the client
    asked,     \* requests that the server works on
    answers,   \* their results: [id, sequence], sequence None for an error
    issued,    \* nextId - 1
    pending,   \* the requests whose promise is not settled
    unsent,    \* those that poll for a connection
    welcomed,  \* lastWelcome is set
    router,    \* the effect of EventRouter: [mounted, latest, syncing, again,
               \* armed, requests], again being its variable pending
    plans,     \* requests of the plan view
    shown,     \* the sequence of the snapshot in the store
    spent,     \* how much of the bounds is used
    stale      \* history: the last synchronisation failed, or the plan view
               \* wrote since

transport == <<issued, pending, unsent>>
server == <<log, published>>
wire == <<connected, inbound, asked, answers>>
vars == <<setting, server, wire, transport, welcomed, router, plans, shown, spent, stale>>

Spend(kind) ==
    /\ spent[kind] < setting[kind]
    /\ spent' = [spent EXCEPT ![kind] = @ + 1]

Unmounted == [mounted |-> FALSE, latest |-> 0, syncing |-> FALSE, again |-> FALSE,
              armed |-> FALSE, requests |-> {}]

Init ==
    /\ setting \in Settings
    /\ log = 1 /\ published = 1
    /\ connected = FALSE /\ inbound = << >> /\ asked = {} /\ answers = {}
    /\ issued = 0 /\ pending = {} /\ unsent = {}
    /\ welcomed = FALSE /\ router = Unmounted /\ plans = {} /\ shown = 0
    /\ spent = [k \in Kinds |-> 0]
    /\ stale = FALSE

-----------------------------------------------------------------------------
(***************************************************************************)
(* WsTransport.                                                             *)
(***************************************************************************)
\* request: it is sent at once or polls for a connection.
Request ==
    /\ issued' = issued + 1
    /\ pending' = pending \cup {issued + 1}
    /\ IF connected
       THEN asked' = asked \cup {issued + 1} /\ UNCHANGED unsent
       ELSE unsent' = unsent \cup {issued + 1} /\ UNCHANGED asked
NoRequest == UNCHANGED <<transport, asked>>

\* The interval of an unsent request finds the connection open, whatever the
\* others do.
Poll(id) ==
    /\ id \in unsent /\ connected
    /\ unsent' = unsent \ {id}
    /\ asked' = asked \cup {id}
    /\ UNCHANGED <<setting, server, connected, inbound, answers, issued, pending, welcomed, router,
                   plans, shown, spent, stale>>

\* The server adds the client and welcomes it.
Connect ==
    /\ ~connected
    /\ connected' = TRUE
    /\ inbound' = << [type |-> "welcome"] >>
    /\ UNCHANGED <<setting, server, asked, answers, transport, welcomed, router, plans, shown,
                   spent, stale>>

\* Nothing tells the requests under way; they run into their timeouts.
Disconnect ==
    /\ connected' = FALSE
    /\ inbound' = << >> /\ asked' = {} /\ answers' = {}
    /\ UNCHANGED <<setting, log, transport, welcomed, router, plans, shown, stale>>
Drop == connected /\ Spend("drops") /\ Disconnect /\ UNCHANGED published

-----------------------------------------------------------------------------
(***************************************************************************)
(* The server.                                                              *)
(***************************************************************************)
Commit ==
    /\ Spend("commits")
    /\ log' = log + 1
    /\ UNCHANGED <<setting, published, wire, transport, welcomed, router, plans, shown, stale>>

\* Events that the stream has not delivered are lost with the server.
Restart == Spend("restarts") /\ published' = log /\ Disconnect

\* The stream of events, broadcast to who is connected.
Publish ==
    /\ published < log
    /\ published' = published + 1
    /\ inbound' = IF connected THEN Append(inbound, [type |-> "event", sequence |-> published'])
                  ELSE inbound
    /\ UNCHANGED <<setting, log, connected, asked, answers, transport, welcomed, router, plans,
                   shown, spent, stale>>

\* handleMessage: requests are handled concurrently; each reads the snapshot,
\* then is answered.
Handle(id) ==
    /\ id \in asked
    /\ asked' = asked \ {id}
    /\ \/ answers' = answers \cup {[id |-> id, sequence |-> log]} /\ UNCHANGED spent
       \/ Spend("faults") /\ answers' = answers \cup {[id |-> id, sequence |-> None]}
    /\ UNCHANGED <<setting, server, connected, inbound, transport, welcomed, router, plans, shown,
                   stale>>

Reply(answer) ==
    /\ answer \in answers
    /\ answers' = answers \ {answer}
    /\ inbound' = Append(inbound, [type |-> "response", answer |-> answer])
    /\ UNCHANGED <<setting, server, connected, asked, transport, welcomed, router, plans, shown,
                   spent, stale>>

-----------------------------------------------------------------------------
(***************************************************************************)
(* The event router.                                                        *)
(***************************************************************************)
(* Mutant of SyncSnapshot: without the guard against a second request. *)
SyncSnapshotMutant(state) ==
    /\ Request
    /\ router' = [state EXCEPT !.syncing = TRUE, !.again = FALSE,
                              !.requests = @ \cup {issued'}]

(* syncSnapshot of the router in the given state. *)
SyncSnapshot(state) ==
    IF state.syncing THEN router' = [state EXCEPT !.again = TRUE] /\ NoRequest
    ELSE /\ Request
         /\ router' = [state EXCEPT !.syncing = TRUE, !.again = FALSE, !.requests = {issued'}]

(* Mutant of Mount: a welcome that came before is not repeated. *)
MountMutant ==
    /\ Spend("mounts")
    /\ router' = [Unmounted EXCEPT !.mounted = TRUE] /\ NoRequest
    /\ stale' = FALSE
    /\ UNCHANGED <<setting, server, connected, inbound, answers, welcomed, plans, shown>>

(* The effect runs, perhaps again: what the earlier one asked for is        *)
(* disposed, and a welcome that came before is repeated.                    *)
Mount ==
    /\ Spend("mounts")
    /\ LET fresh == [Unmounted EXCEPT !.mounted = TRUE]
       IN  IF welcomed THEN SyncSnapshot(fresh) ELSE router' = fresh /\ NoRequest
    /\ stale' = FALSE
    /\ UNCHANGED <<setting, server, connected, inbound, answers, welcomed, plans, shown>>

\* The throttler's timer.
Fire ==
    /\ router.armed
    /\ SyncSnapshot([router EXCEPT !.armed = FALSE])
    /\ UNCHANGED <<setting, server, connected, inbound, answers, welcomed, plans, shown, spent,
                   stale>>

(* Mutant of SyncFails: the synchronisation is taken for under way. *)
SyncFailsMutant(id) ==
    /\ router' = [router EXCEPT !.requests = @ \ {id}]
    /\ stale' = TRUE

\* The request of a synchronisation failed: it ends, and forgets that it was
\* to be repeated.
SyncFails(id) ==
    /\ router' = [router EXCEPT !.syncing = FALSE, !.requests = @ \ {id}]
    /\ stale' = TRUE

-----------------------------------------------------------------------------
(***************************************************************************)
(* Messages that the client receives.                                       *)
(***************************************************************************)
ReceiveWelcome ==
    /\ welcomed' = TRUE
    /\ IF router.mounted THEN SyncSnapshot(router) ELSE UNCHANGED router /\ NoRequest
    /\ UNCHANGED <<plans, shown, stale>>

ReceiveEvent(sequence) ==
    /\ router' = IF router.mounted /\ sequence > router.latest
                 THEN [router EXCEPT !.latest = sequence, !.armed = TRUE] ELSE router
    /\ NoRequest
    /\ UNCHANGED <<welcomed, plans, shown, stale>>

(* flushSnapshotSync, which repeats itself. *)
ReceiveSnapshot(id, sequence) ==
    LET latest == IF sequence > router.latest THEN sequence ELSE router.latest
    IN  /\ shown' = sequence /\ stale' = FALSE
        /\ IF router.again
           THEN /\ issued' = issued + 1
                /\ pending' = (pending \ {id}) \cup {issued + 1}
                /\ asked' = asked \cup {issued + 1} /\ UNCHANGED unsent
                /\ router' = [router EXCEPT !.latest = latest, !.again = FALSE,
                                            !.requests = (@ \ {id}) \cup {issued + 1}]
           ELSE /\ pending' = pending \ {id} /\ UNCHANGED <<issued, unsent, asked>>
                /\ router' = [router EXCEPT !.latest = latest, !.syncing = FALSE,
                                            !.requests = @ \ {id}]

\* The plan view puts its snapshot into the store as it is.
ReceivePlan(id, sequence) ==
    /\ plans' = plans \ {id}
    /\ IF sequence = None THEN UNCHANGED <<shown, stale>>
       ELSE shown' = sequence /\ stale' = (stale \/ sequence < shown)
    /\ pending' = pending \ {id}
    /\ UNCHANGED <<issued, unsent, asked, router>>

\* A late answer finds no promise, that of a disposed router no use.
ReceiveResponse(id, sequence) ==
    /\ UNCHANGED welcomed
    /\ CASE id \in pending /\ id \in plans -> ReceivePlan(id, sequence)
         [] id \in pending /\ id \in router.requests /\ sequence # None ->
               ReceiveSnapshot(id, sequence) /\ UNCHANGED plans
         [] id \in pending /\ id \in router.requests /\ sequence = None ->
               /\ SyncFails(id)
               /\ pending' = pending \ {id}
               /\ UNCHANGED <<issued, unsent, asked, plans, shown>>
         [] OTHER -> /\ pending' = pending \ {id}
                     /\ UNCHANGED <<issued, unsent, asked, router, plans, shown, stale>>

Receive ==
    /\ inbound # << >>
    /\ inbound' = Tail(inbound)
    /\ LET message == Head(inbound)
       IN  \/ message.type = "welcome" /\ ReceiveWelcome
           \/ message.type = "event" /\ ReceiveEvent(message.sequence)
           \/ message.type = "response" /\ ReceiveResponse(message.answer.id, message.answer.sequence)
    /\ UNCHANGED <<setting, server, connected, answers, spent>>

\* Neither is it polling, nor does the server work on it, nor does its answer
\* come.
Lost(id) ==
    /\ id \notin unsent \cup asked
    /\ \A answer \in answers : answer.id # id
    /\ \A i \in DOMAIN inbound : inbound[i].type = "response" => inbound[i].answer.id # id

\* A request times out, with its poll; only a lost one has to.
Timeout(id) ==
    /\ id \in pending
    /\ IF Lost(id) THEN UNCHANGED spent ELSE Spend("slow")
    /\ pending' = pending \ {id} /\ unsent' = unsent \ {id}
    /\ plans' = plans \ {id}
    /\ IF id \in router.requests THEN SyncFails(id) ELSE UNCHANGED <<router, stale>>
    /\ UNCHANGED <<setting, server, wire, issued, welcomed, shown>>

\* The plan view asks for a snapshot after its commands.
AskForPlan ==
    /\ Spend("plans") /\ router.mounted
    /\ Request
    /\ plans' = plans \cup {issued'}
    /\ UNCHANGED <<setting, server, connected, inbound, answers, welcomed, router, shown, stale>>

Next ==
    \/ Commit \/ Publish \/ Restart \/ Connect \/ Drop
    \/ Mount \/ Fire \/ Receive \/ AskForPlan
    \/ \E id \in 1..issued : Poll(id) \/ Handle(id) \/ Timeout(id)
    \/ \E answer \in answers : Reply(answer)

Spec == Init /\ [][Next]_vars

(* The server answers and broadcasts, the transport reconnects and settles  *)
(* every promise, messages arrive.                                          *)
Fairness ==
    /\ WF_vars(Publish) /\ WF_vars(Connect) /\ WF_vars(Receive) /\ WF_vars(Fire)
    /\ WF_vars(router.mounted = FALSE /\ Mount)
    /\ WF_vars(\E id \in 1..issued : Poll(id)) /\ WF_vars(\E id \in 1..issued : Handle(id))
    /\ WF_vars(\E answer \in answers : Reply(answer))
    /\ WF_vars(\E id \in 1..issued : Lost(id) /\ Timeout(id))
FairSpec == Spec /\ Fairness

-----------------------------------------------------------------------------
(***************************************************************************)
(* Properties.                                                              *)
(***************************************************************************)
(* The type of every variable; a request is at one place at a time, and the *)
(* router synchronises exactly while a request of its own is pending.       *)
RouterOK ==
    /\ {router.mounted, router.syncing, router.again, router.armed} \subseteq BOOLEAN
    /\ router.syncing <=> router.requests # {}
    /\ router.requests \subseteq pending \ plans
TypeOK ==
    /\ RouterOK
    /\ published \in 1..log /\ shown \in 0..log /\ router.latest \in 0..log
    /\ unsent \subseteq pending /\ plans \subseteq pending /\ pending \subseteq 1..issued
    /\ asked \subseteq 1..issued /\ asked \cap unsent = {}
    /\ \A answer \in answers : answer.id \in (1..issued) \ (unsent \cup asked)
    /\ ~connected => inbound = << >> /\ asked = {} /\ answers = {}

(* The client implements SnapshotView: what it shows is a state of the      *)
(* server and never an earlier one, for the router has one request at a     *)
(* time (syncing); only the plan view may put it back.                      *)
View == INSTANCE SnapshotView WITH
            latest <- log, mayRegress <- setting.plans > 0
ImplementsView == View!Spec

(* The client comes to show the latest state for good, again unless its     *)
(* last synchronisation failed or the plan view wrote since.                *)
CatchesUp == <>[](shown = log \/ stale)
=============================================================================

--------------------------- MODULE ClientSyncProofs ---------------------------
(***************************************************************************)
(* Proofs about a client that follows a server: the types of its variables, *)
(* and that what it shows implements SnapshotView.                          *)
(***************************************************************************)
EXTENDS ClientSync, TLAPS

\* Answers, and what the client receives; those that it may still receive.
Answers == [id : Nat, sequence : Nat \cup {None}]
Messages == [type : {"welcome"}] \cup [type : {"event"}, sequence : Nat]
              \cup [type : {"response"}, answer : Answers]
OnTheWay == answers \cup
    {inbound[i].answer : i \in {j \in DOMAIN inbound : inbound[j].type = "response"}}
OnTheWayIds == {a.id : a \in OnTheWay}

\* The type of every variable.
Types ==
    /\ setting \in Settings /\ spent \in [Kinds -> Nat]
    /\ log \in Nat /\ published \in Nat /\ issued \in Nat /\ shown \in Nat
    /\ connected \in BOOLEAN /\ stale \in BOOLEAN
    /\ inbound \in Seq(Messages) /\ answers \in SUBSET Answers
    /\ asked \in SUBSET Nat /\ pending \in SUBSET Nat /\ unsent \in SUBSET Nat
    /\ plans \in SUBSET Nat
    /\ router \in [mounted : BOOLEAN, latest : Nat, syncing : BOOLEAN, again : BOOLEAN,
                   armed : BOOLEAN, requests : SUBSET Nat]

\* A request is at one place at a time, all places end with the connection.
Places ==
    /\ asked \subseteq 1..issued /\ asked \cap unsent = {}
    /\ unsent \subseteq pending /\ plans \subseteq pending /\ pending \subseteq 1..issued
    /\ \A a \in OnTheWay : a.id \in (1..issued) \ (unsent \cup asked)
    /\ ~connected => inbound = << >> /\ asked = {} /\ answers = {}

\* Nothing that is known of the server is ahead of it.
Sequences ==
    /\ 1 <= published /\ published <= log /\ shown <= log /\ router.latest <= log
    /\ \A a \in OnTheWay : a.sequence # None => a.sequence <= log
    /\ \A i \in DOMAIN inbound : inbound[i].type = "event" => inbound[i].sequence <= log

\* The router has one request at a time, and syncing says so.
OneSync ==
    /\ router.requests \subseteq pending \ plans
    /\ router.syncing <=> router.requests # {}
    /\ \A x, y \in router.requests : x = y

\* Without the plan view, the answer to the router's request is as new as what
\* is shown.
Forward ==
    /\ plans # {} => setting.plans > 0
    /\ setting.plans = 0 =>
          \A a \in OnTheWay : a.id \in router.requests /\ a.sequence # None => shown <= a.sequence

\* The inductive invariant.
IInv == Types /\ Places /\ Sequences /\ OneSync /\ Forward

--------------------
(* What a step does to the messages on their way.                           *)
(* Taking the first message brings no new ones.                             *)
LEMMA TailKeeps ==
  ASSUME inbound \in Seq(Messages), inbound # << >>, inbound' = Tail(inbound),
    answers' = answers
  PROVE /\ inbound' \in Seq(Messages)
        /\ \A i \in DOMAIN inbound' : i + 1 \in DOMAIN inbound /\ inbound'[i] = inbound[i + 1]
        /\ OnTheWay' \subseteq OnTheWay
<1>1. inbound' \in Seq(Messages) OBVIOUS
<1>2. \A i \in DOMAIN inbound' : i + 1 \in DOMAIN inbound /\ inbound'[i] = inbound[i + 1] OBVIOUS
<1>3. OnTheWay' \subseteq OnTheWay BY <1>2 DEF OnTheWay
<1> QED BY <1>1, <1>2, <1>3

(* A message that is sent is the last one.                                  *)
LEMMA AppendKeeps ==
  ASSUME inbound \in Seq(Messages), NEW message \in Messages,
    inbound' = Append(inbound, message)
  PROVE /\ inbound' \in Seq(Messages)
        /\ \A i \in DOMAIN inbound' :
              \/ inbound'[i] = message
              \/ i \in DOMAIN inbound /\ inbound'[i] = inbound[i]
   OBVIOUS

(* A request has a number of its own, and is at one place.                  *)
LEMMA RequestKeeps ==
  ASSUME Types, Places, Request, UNCHANGED connected
  PROVE /\ issued' \in Nat /\ issued' = issued + 1
        /\ asked' \in SUBSET Nat /\ pending' \in SUBSET Nat /\ unsent' \in SUBSET Nat
        /\ pending' = pending \cup {issued'} /\ issued' \notin pending
        /\ asked' \subseteq 1..issued' /\ asked' \cap unsent' = {}
        /\ unsent' \subseteq pending' /\ pending' \subseteq 1..issued'
        /\ \A a \in OnTheWay :
              /\ a.id \in (1..issued') \ (unsent' \cup asked')
              /\ a.id # issued'
        /\ ~connected => asked' = asked
<1>1. issued' \in Nat /\ issued' = issued + 1 /\ issued' \notin 1..issued BY DEF Types, Request
<1>2. 1..issued' = (1..issued) \cup {issued'} BY <1>1 DEF Types
<1>3. pending' = pending \cup {issued'} /\ issued' \notin pending BY <1>1 DEF Request, Places
<1>4. \/ asked' = asked \cup {issued'} /\ unsent' = unsent /\ connected
      \/ unsent' = unsent \cup {issued'} /\ asked' = asked
   BY <1>1 DEF Request
<1>5. issued' \notin asked \cup unsent BY <1>1 DEF Places
<1>6. /\ asked' \in SUBSET Nat /\ pending' \in SUBSET Nat /\ unsent' \in SUBSET Nat
   BY <1>1, <1>3, <1>4 DEF Types
<1>7. /\ asked' \subseteq 1..issued' /\ asked' \cap unsent' = {}
      /\ unsent' \subseteq pending' /\ pending' \subseteq 1..issued'
   BY <1>2, <1>3, <1>4, <1>5 DEF Places
<1>8. \A a \in OnTheWay : a.id \in (1..issued') \ (unsent' \cup asked') /\ a.id # issued'
   BY <1>1, <1>2, <1>4 DEF Places
<1> QED BY <1>1, <1>3, <1>4, <1>6, <1>7, <1>8

(* The router asks, or notes that it must ask again.                        *)
LEMMA SyncSnapshotKeeps ==
  ASSUME Types, Places, NEW state, SyncSnapshot(state), UNCHANGED <<connected, plans>>,
    state \in [mounted : BOOLEAN, latest : Nat, syncing : BOOLEAN, again : BOOLEAN,
               armed : BOOLEAN, requests : SUBSET Nat],
    state.latest <= log,
    state.requests \subseteq pending \ plans,
    state.syncing <=> state.requests # {},
    \A x, y \in state.requests : x = y
  PROVE /\ issued' \in Nat
        /\ asked' \in SUBSET Nat /\ pending' \in SUBSET Nat /\ unsent' \in SUBSET Nat
        /\ asked' \subseteq 1..issued' /\ asked' \cap unsent' = {}
        /\ unsent' \subseteq pending' /\ pending' \subseteq 1..issued'
        /\ pending \subseteq pending'
        /\ \A a \in OnTheWay :
              /\ a.id \in (1..issued') \ (unsent' \cup asked')
              /\ a.id \in router'.requests => a.id \in state.requests
        /\ ~connected => asked' = asked
        /\ router' \in [mounted : BOOLEAN, latest : Nat, syncing : BOOLEAN, again : BOOLEAN,
                        armed : BOOLEAN, requests : SUBSET Nat]
        /\ router'.latest = state.latest
        /\ router'.mounted = state.mounted
        /\ OneSync'
<1>1. CASE state.syncing
    <2>1. router' = [state EXCEPT !.again = TRUE] /\ NoRequest BY <1>1 DEF SyncSnapshot
    <2>2. router'.requests = state.requests /\ router'.syncing = state.syncing BY <2>1
    <2> QED BY <2>1, <2>2 DEF NoRequest, transport, Types, Places, OneSync
<1>2. CASE ~state.syncing
    <2>1. /\ Request
          /\ router' = [state EXCEPT !.syncing = TRUE, !.again = FALSE, !.requests = {issued'}]
       BY <1>2 DEF SyncSnapshot
    <2>2. router'.requests = {issued'} /\ router'.syncing BY <2>1
    <2>3. issued' \notin plans /\ issued' \in pending' BY <2>1, RequestKeeps DEF Places
    <2>4. OneSync' BY <2>2, <2>3 DEF OneSync
    <2>5. router' \in [mounted : BOOLEAN, latest : Nat, syncing : BOOLEAN, again : BOOLEAN,
                       armed : BOOLEAN, requests : SUBSET Nat]
       BY <2>1, RequestKeeps
    <2>6. router'.latest = state.latest /\ router'.mounted = state.mounted BY <2>1
    <2> QED BY <2>1, <2>2, <2>4, <2>5, <2>6, RequestKeeps
<1> QED BY <1>1, <1>2

--------------------
(* Every step keeps the invariant.                                          *)
(* The server commits an event.                                             *)
LEMMA CommitKeeps == IInv /\ Commit => IInv'
<1> SUFFICES ASSUME IInv, Commit PROVE IInv' OBVIOUS
<1> USE DEF IInv
<1>1. /\ log' = log + 1 /\ spent' \in [Kinds -> Nat]
      /\ UNCHANGED <<setting, published, connected, inbound, asked, answers, issued, pending,
                     unsent, router, plans, shown, stale>>
   BY DEF Commit, Spend, Types, wire, transport, Kinds
<1>2. OnTheWay' = OnTheWay BY <1>1 DEF OnTheWay
<1>3. Types' BY <1>1 DEF Types
<1>4. Places' BY <1>1, <1>2 DEF Places
<1>5. Sequences'
    <2>1. \A a \in OnTheWay : a.sequence # None => a.sequence \in Nat
       BY DEF OnTheWay, Types, Answers, Messages
    <2>2. \A i \in DOMAIN inbound : inbound[i].type = "event" => inbound[i].sequence \in Nat
       BY DEF Types, Messages
    <2>3. router.latest \in Nat BY DEF Types
    <2> QED BY <1>1, <1>2, <2>1, <2>2, <2>3 DEF Sequences, Types
<1>6. OneSync' /\ Forward' BY <1>1, <1>2 DEF OneSync, Forward
<1> QED BY <1>3, <1>4, <1>5, <1>6

(* The server broadcasts the next event.                                    *)
LEMMA PublishKeeps == IInv /\ Publish => IInv'
<1> SUFFICES ASSUME IInv, Publish PROVE IInv' OBVIOUS
<1> USE DEF IInv
<1> DEFINE event == [type |-> "event", sequence |-> published']
<1>1. /\ published < log /\ published' = published + 1
      /\ inbound' = IF connected THEN Append(inbound, event) ELSE inbound
      /\ UNCHANGED <<setting, log, connected, asked, answers, issued, pending, unsent, router,
                     plans, shown, spent, stale>>
   BY DEF Publish, transport
<1>2. published' \in Nat /\ published' <= log /\ event \in Messages BY <1>1 DEF Types, Messages
<1>3. /\ inbound' \in Seq(Messages)
      /\ \A i \in DOMAIN inbound' :
            \/ inbound'[i] = event
            \/ i \in DOMAIN inbound /\ inbound'[i] = inbound[i]
   BY <1>1, <1>2, AppendKeeps DEF Types
<1>4. OnTheWay' \subseteq OnTheWay BY <1>1, <1>3 DEF OnTheWay
<1>5. Types' BY <1>1, <1>2, <1>3 DEF Types
<1>6. Places' BY <1>1, <1>4 DEF Places
<1>7. Sequences' BY <1>1, <1>2, <1>3, <1>4 DEF Sequences, Types
<1>8. OneSync' /\ Forward' BY <1>1, <1>4 DEF OneSync, Forward
<1> QED BY <1>5, <1>6, <1>7, <1>8

(* The connection is lost, alone or with the server.                        *)
LEMMA DisconnectKeeps == IInv /\ (Restart \/ Drop) => IInv'
<1> SUFFICES ASSUME IInv, Restart \/ Drop PROVE IInv' OBVIOUS
<1> USE DEF IInv
<1>1. /\ published' \in {published, log} /\ spent' \in [Kinds -> Nat]
      /\ connected' = FALSE /\ inbound' = << >> /\ asked' = {} /\ answers' = {}
      /\ UNCHANGED <<setting, log, issued, pending, unsent, router, plans, shown, stale>>
   BY SMTT(30) DEF Restart, Drop, Disconnect, Spend, Types, Kinds, transport
<1>2. OnTheWay' = {}
    <2>1. DOMAIN inbound' = {} BY <1>1
    <2> QED BY <1>1, <2>1 DEF OnTheWay
<1>3. Types'
    <2>1. inbound' \in Seq(Messages) /\ asked' \in SUBSET Nat /\ answers' \in SUBSET Answers
       BY <1>1
    <2> QED BY <1>1, <2>1 DEF Types
<1>4. Places' BY <1>1, <1>2 DEF Places
<1>5. Sequences' BY <1>1, <1>2 DEF Sequences, Types
<1>6. OneSync' /\ Forward' BY <1>1, <1>2 DEF OneSync, Forward
<1> QED BY <1>3, <1>4, <1>5, <1>6

(* A connection opens with a welcome.                                       *)
LEMMA ConnectKeeps == IInv /\ Connect => IInv'
<1> SUFFICES ASSUME IInv, Connect PROVE IInv' OBVIOUS
<1> USE DEF IInv
<1>1. /\ connected' = TRUE /\ inbound' = << [type |-> "welcome"] >>
      /\ UNCHANGED <<setting, log, published, asked, answers, issued, pending, unsent, router,
                     plans, shown, spent, stale>>
   BY DEF Connect, server, transport
<1>2. OnTheWay' \subseteq OnTheWay /\ inbound' \in Seq(Messages) BY <1>1 DEF OnTheWay, Messages
<1>3. Types' BY <1>1, <1>2 DEF Types
<1>4. Places' BY <1>1, <1>2 DEF Places
<1>5. Sequences' BY <1>1, <1>2 DEF Sequences, Types
<1>6. OneSync' /\ Forward' BY <1>1, <1>2 DEF OneSync, Forward
<1> QED BY <1>3, <1>4, <1>5, <1>6

(* A request that waited is sent.                                           *)
LEMMA PollKeeps == ASSUME IInv, NEW id \in 1..issued, Poll(id) PROVE IInv'
<1> USE DEF IInv
<1>1. /\ id \in unsent /\ connected
      /\ unsent' = unsent \ {id} /\ asked' = asked \cup {id}
      /\ UNCHANGED <<setting, log, published, connected, inbound, answers, issued, pending, router,
                     plans, shown, spent, stale>>
   BY DEF Poll, server
<1>2. OnTheWay' = OnTheWay BY <1>1 DEF OnTheWay
<1>3. Types' BY <1>1 DEF Types
<1>4. Places' BY <1>1, <1>2 DEF Places
<1>5. Sequences' BY <1>1, <1>2 DEF Sequences, Types
<1>6. OneSync' /\ Forward' BY <1>1, <1>2 DEF OneSync, Forward
<1> QED BY <1>3, <1>4, <1>5, <1>6

(* The server answers with what it has committed, or with an error.         *)
LEMMA HandleKeeps == ASSUME IInv, NEW id \in 1..issued, Handle(id) PROVE IInv'
<1> USE DEF IInv
<1>1. PICK sequence \in {log, None} :
         /\ id \in asked /\ asked' = asked \ {id}
         /\ answers' = answers \cup {[id |-> id, sequence |-> sequence]}
         /\ spent' \in [Kinds -> Nat]
         /\ UNCHANGED <<setting, log, published, connected, inbound, issued, pending, unsent,
                        router, plans, shown, stale>>
   BY DEF Handle, Spend, Types, Kinds, server, transport
<1> DEFINE answer == [id |-> id, sequence |-> sequence]
<1>2. OnTheWay' = OnTheWay \cup {answer} /\ answer \in Answers
   BY <1>1 DEF OnTheWay, Answers, Types, Places
<1>3. Types' BY <1>1, <1>2 DEF Types
<1>4. Places' BY <1>1, <1>2 DEF Places
<1>5. Sequences' BY <1>1, <1>2 DEF Sequences, Types
<1>6. OneSync' /\ Forward' BY <1>1, <1>2 DEF OneSync, Forward, Sequences
<1> QED BY <1>3, <1>4, <1>5, <1>6

(* An answer is sent.                                                       *)
LEMMA ReplyKeeps == ASSUME IInv, NEW answer \in answers, Reply(answer) PROVE IInv'
<1> USE DEF IInv
<1> DEFINE message == [type |-> "response", answer |-> answer]
<1>1. /\ answers' = answers \ {answer} /\ inbound' = Append(inbound, message)
      /\ UNCHANGED <<setting, log, published, connected, asked, issued, pending, unsent, router,
                     plans, shown, spent, stale>>
   BY DEF Reply, server, transport
<1>2. message \in Messages BY DEF Types, Messages
<1>3. /\ inbound' \in Seq(Messages)
      /\ \A i \in DOMAIN inbound' :
            \/ inbound'[i] = message
            \/ i \in DOMAIN inbound /\ inbound'[i] = inbound[i]
   BY <1>1, <1>2, AppendKeeps DEF Types
<1>4. OnTheWay' \subseteq OnTheWay BY <1>1, <1>3 DEF OnTheWay
<1>5. Types' BY <1>1, <1>3 DEF Types
<1>6. connected BY DEF Places
<1>7. Places' BY <1>1, <1>4, <1>6 DEF Places
<1>8. Sequences' BY <1>1, <1>3, <1>4 DEF Sequences, Types
<1>9. OneSync' /\ Forward' BY <1>1, <1>4 DEF OneSync, Forward
<1> QED BY <1>5, <1>7, <1>8, <1>9

(* The router is mounted, and synchronises if it was welcomed before.       *)
LEMMA MountKeeps == IInv /\ Mount => IInv'
<1> SUFFICES ASSUME IInv, Mount PROVE IInv' OBVIOUS
<1> USE DEF IInv
<1> DEFINE fresh == [Unmounted EXCEPT !.mounted = TRUE]
<1>1. /\ spent' \in [Kinds -> Nat] /\ stale' = FALSE
      /\ UNCHANGED <<setting, log, published, connected, inbound, answers, plans, shown>>
      /\ SyncSnapshot(fresh) \/ (router' = fresh /\ NoRequest)
   BY DEF Mount, Spend, Types, Kinds, server
<1>2. OnTheWay' = OnTheWay BY <1>1 DEF OnTheWay
<1>3. /\ fresh \in [mounted : BOOLEAN, latest : Nat, syncing : BOOLEAN, again : BOOLEAN,
                    armed : BOOLEAN, requests : SUBSET Nat]
      /\ fresh.requests = {} /\ fresh.latest = 0 /\ ~fresh.syncing
   BY DEF Unmounted
<1>4. CASE SyncSnapshot(fresh)
    <2>1. fresh.latest <= log BY <1>3 DEF Types
    <2>2. /\ issued' \in Nat
          /\ asked' \in SUBSET Nat /\ pending' \in SUBSET Nat /\ unsent' \in SUBSET Nat
          /\ asked' \subseteq 1..issued' /\ asked' \cap unsent' = {}
          /\ unsent' \subseteq pending' /\ pending' \subseteq 1..issued'
          /\ pending \subseteq pending'
          /\ \A a \in OnTheWay :
                /\ a.id \in (1..issued') \ (unsent' \cup asked')
                /\ a.id \in router'.requests => a.id \in fresh.requests
          /\ ~connected => asked' = asked
          /\ router' \in [mounted : BOOLEAN, latest : Nat, syncing : BOOLEAN, again : BOOLEAN,
                          armed : BOOLEAN, requests : SUBSET Nat]
          /\ router'.latest = fresh.latest
          /\ OneSync'
        <3> HIDE DEF fresh
        <3> QED BY <1>1, <1>3, <1>4, <2>1, SyncSnapshotKeeps
    <2> HIDE DEF fresh
    <2>3. Types' BY <1>1, <2>2 DEF Types
    <2>4. Places' BY <1>1, <1>2, <2>2 DEF Places
    <2>5. Sequences' BY <1>1, <1>2, <1>3, <2>1, <2>2 DEF Sequences
    <2>6. Forward' BY <1>1, <1>2, <1>3, <2>2 DEF Forward
    <2> QED BY <2>2, <2>3, <2>4, <2>5, <2>6
<1>5. CASE router' = fresh /\ NoRequest
    <2>1. router' = fresh /\ UNCHANGED <<issued, asked, pending, unsent>>
       BY <1>5 DEF NoRequest, transport
    <2> HIDE DEF fresh
    <2>2. Types' BY <1>1, <1>3, <2>1 DEF Types
    <2>3. Places' BY <1>1, <1>2, <2>1 DEF Places
    <2>4. Sequences' BY <1>1, <1>2, <1>3, <2>1 DEF Sequences, Types
    <2>5. OneSync' /\ Forward' BY <1>1, <1>2, <1>3, <2>1 DEF OneSync, Forward
    <2> QED BY <2>2, <2>3, <2>4, <2>5
<1> QED BY <1>1, <1>4, <1>5

(* The throttled synchronisation begins.                                    *)
LEMMA FireKeeps == IInv /\ Fire => IInv'
<1> SUFFICES ASSUME IInv, Fire PROVE IInv' OBVIOUS
<1> USE DEF IInv
<1> DEFINE state == [router EXCEPT !.armed = FALSE]
<1>1. /\ SyncSnapshot(state)
      /\ UNCHANGED <<setting, log, published, connected, inbound, answers, plans, shown, spent,
                     stale>>
   BY DEF Fire, server
<1>2. OnTheWay' = OnTheWay BY <1>1 DEF OnTheWay
<1>3. /\ state \in [mounted : BOOLEAN, latest : Nat, syncing : BOOLEAN, again : BOOLEAN,
                    armed : BOOLEAN, requests : SUBSET Nat]
      /\ state.requests = router.requests /\ state.latest = router.latest
      /\ state.syncing = router.syncing
   BY DEF Types
<1> HIDE DEF state
<1>4. /\ state.latest <= log
      /\ state.requests \subseteq pending \ plans
      /\ state.syncing <=> state.requests # {}
      /\ \A x, y \in state.requests : x = y
   BY <1>3 DEF Sequences, OneSync
<1>5. /\ issued' \in Nat
      /\ asked' \in SUBSET Nat /\ pending' \in SUBSET Nat /\ unsent' \in SUBSET Nat
      /\ asked' \subseteq 1..issued' /\ asked' \cap unsent' = {}
      /\ unsent' \subseteq pending' /\ pending' \subseteq 1..issued'
      /\ pending \subseteq pending'
      /\ \A a \in OnTheWay :
            /\ a.id \in (1..issued') \ (unsent' \cup asked')
            /\ a.id \in router'.requests => a.id \in state.requests
      /\ ~connected => asked' = asked
      /\ router' \in [mounted : BOOLEAN, latest : Nat, syncing : BOOLEAN, again : BOOLEAN,
                      armed : BOOLEAN, requests : SUBSET Nat]
      /\ router'.latest = state.latest
      /\ OneSync'
   BY <1>1, <1>3, <1>4, SyncSnapshotKeeps
<1>6. Types' BY <1>1, <1>5 DEF Types
<1>7. Places' BY <1>1, <1>2, <1>5 DEF Places
<1>8. Sequences' BY <1>1, <1>2, <1>4, <1>5 DEF Sequences
<1>9. Forward' BY <1>1, <1>2, <1>3, <1>5 DEF Forward
<1> QED BY <1>5, <1>6, <1>7, <1>8, <1>9

(* The plan view asks for a snapshot.                                       *)
LEMMA AskForPlanKeeps == IInv /\ AskForPlan => IInv'
<1> SUFFICES ASSUME IInv, AskForPlan PROVE IInv' OBVIOUS
<1> USE DEF IInv
<1>1. /\ Request /\ plans' = plans \cup {issued'}
      /\ spent["plans"] < setting["plans"] /\ spent' \in [Kinds -> Nat]
      /\ UNCHANGED <<setting, log, published, connected, inbound, answers, router, shown, stale>>
   BY DEF AskForPlan, Spend, Types, Kinds, server
<1>2. OnTheWay' = OnTheWay BY <1>1 DEF OnTheWay
<1>3. setting.plans > 0
    <2>1. spent["plans"] \in Nat /\ setting["plans"] \in Nat BY SyncAssumption DEF Types, Kinds
    <2> QED BY <1>1, <2>1
<1>4. /\ issued' \in Nat
      /\ asked' \in SUBSET Nat /\ pending' \in SUBSET Nat /\ unsent' \in SUBSET Nat
      /\ pending' = pending \cup {issued'} /\ issued' \notin pending
      /\ asked' \subseteq 1..issued' /\ asked' \cap unsent' = {}
      /\ unsent' \subseteq pending' /\ pending' \subseteq 1..issued'
      /\ \A a \in OnTheWay : a.id \in (1..issued') \ (unsent' \cup asked')
      /\ ~connected => asked' = asked
   BY <1>1, RequestKeeps
<1>5. Types' BY <1>1, <1>4 DEF Types
<1>6. Places' BY <1>1, <1>2, <1>4 DEF Places
<1>7. Sequences' BY <1>1, <1>2 DEF Sequences
<1>8. OneSync' BY <1>1, <1>4 DEF OneSync
<1>9. Forward' BY <1>1, <1>2, <1>3 DEF Forward, Types
<1> QED BY <1>5, <1>6, <1>7, <1>8, <1>9

(* A request times out.                                                     *)
LEMMA TimeoutKeeps == ASSUME IInv, NEW id \in 1..issued, Timeout(id) PROVE IInv'
<1> USE DEF IInv
<1>1. /\ id \in pending /\ pending' = pending \ {id} /\ unsent' = unsent \ {id}
      /\ plans' = plans \ {id} /\ spent' \in [Kinds -> Nat]
      /\ UNCHANGED <<setting, log, published, connected, inbound, asked, answers, issued, shown>>
      /\ IF id \in router.requests THEN SyncFails(id) ELSE UNCHANGED <<router, stale>>
   BY DEF Timeout, Spend, Types, Kinds, server, wire
<1>2. OnTheWay' = OnTheWay BY <1>1 DEF OnTheWay
<1>3. /\ router' \in [mounted : BOOLEAN, latest : Nat, syncing : BOOLEAN, again : BOOLEAN,
                      armed : BOOLEAN, requests : SUBSET Nat]
      /\ router'.requests = router.requests \ {id} /\ router'.latest = router.latest
      /\ stale' \in BOOLEAN
      /\ router'.syncing <=> router'.requests # {}
   BY ZenonT(30), <1>1 DEF SyncFails, Types, OneSync
<1>4. Types' BY <1>1, <1>3 DEF Types
<1>5. Places' BY <1>1, <1>2 DEF Places
<1>6. Sequences' BY <1>1, <1>2, <1>3 DEF Sequences
<1>7. OneSync' BY <1>1, <1>3 DEF OneSync
<1>8. Forward' BY <1>1, <1>2, <1>3 DEF Forward
<1> QED BY <1>4, <1>5, <1>6, <1>7, <1>8

--------------------
(* A message arrives.                                                       *)
(* What every receipt does, whatever the message is.                        *)
Received ==
    /\ inbound # << >> /\ inbound' = Tail(inbound) /\ connected
    /\ UNCHANGED <<setting, log, published, connected, answers, spent>>
    /\ inbound' \in Seq(Messages)
    /\ OnTheWay' \subseteq OnTheWay
    /\ \A i \in DOMAIN inbound' : i + 1 \in DOMAIN inbound /\ inbound'[i] = inbound[i + 1]

(* A receipt takes the first message and leaves the server alone.          *)
LEMMA ReceiveReceives == IInv /\ Receive => Received /\ Head(inbound) \in Messages
<1> SUFFICES ASSUME IInv, Receive PROVE Received /\ Head(inbound) \in Messages OBVIOUS
<1> USE DEF IInv
<1>1. /\ inbound # << >> /\ inbound' = Tail(inbound)
      /\ UNCHANGED <<setting, log, published, connected, answers, spent>>
   BY DEF Receive, server
<1>2. connected BY <1>1 DEF Places
<1>3. inbound \in Seq(Messages) BY DEF Types
<1>4. Head(inbound) \in Messages BY <1>1, <1>3
<1> QED BY <1>1, <1>2, <1>3, <1>4, TailKeeps DEF Received

(* The part of the invariant that a receipt keeps for every message.        *)
LEMMA ReceivedKeeps ==
  ASSUME IInv, Received, shown' \in Nat, shown' <= log,
    router' \in [mounted : BOOLEAN, latest : Nat, syncing : BOOLEAN, again : BOOLEAN,
                 armed : BOOLEAN, requests : SUBSET Nat],
    router'.latest <= log
  PROVE Sequences'
<1> USE DEF IInv
<1>1. \A i \in DOMAIN inbound' : inbound'[i].type = "event" => inbound'[i].sequence <= log
   BY DEF Received, Sequences
<1> QED BY <1>1 DEF Received, Sequences

(* A welcome makes the router synchronise.                                  *)
LEMMA WelcomeKeeps == ASSUME IInv, Received, ReceiveWelcome PROVE IInv'
<1> USE DEF IInv
<1>1. /\ UNCHANGED <<plans, shown, stale>>
      /\ SyncSnapshot(router) \/ (router' = router /\ NoRequest)
   BY DEF ReceiveWelcome
<1>2. CASE SyncSnapshot(router)
    <2>1. /\ issued' \in Nat
          /\ asked' \in SUBSET Nat /\ pending' \in SUBSET Nat /\ unsent' \in SUBSET Nat
          /\ asked' \subseteq 1..issued' /\ asked' \cap unsent' = {}
          /\ unsent' \subseteq pending' /\ pending' \subseteq 1..issued'
          /\ pending \subseteq pending'
          /\ \A a \in OnTheWay :
                /\ a.id \in (1..issued') \ (unsent' \cup asked')
                /\ a.id \in router'.requests => a.id \in router.requests
          /\ ~connected => asked' = asked
          /\ router' \in [mounted : BOOLEAN, latest : Nat, syncing : BOOLEAN, again : BOOLEAN,
                          armed : BOOLEAN, requests : SUBSET Nat]
          /\ router'.latest = router.latest
          /\ OneSync'
        <3>1. router \in [mounted : BOOLEAN, latest : Nat, syncing : BOOLEAN, again : BOOLEAN,
                          armed : BOOLEAN, requests : SUBSET Nat]
           BY DEF Types
        <3>2. /\ router.latest <= log
              /\ router.requests \subseteq pending \ plans
              /\ router.syncing <=> router.requests # {}
              /\ \A x, y \in router.requests : x = y
           BY DEF Sequences, OneSync
        <3>3. UNCHANGED <<connected, plans>> BY <1>1 DEF Received
        <3> QED BY <1>2, <3>1, <3>2, <3>3, SyncSnapshotKeeps
    <2>2. Types' BY <1>1, <2>1 DEF Types, Received
    <2>3. Places' BY <1>1, <2>1 DEF Places, Received
    <2>4. shown' \in Nat /\ shown' <= log /\ router'.latest <= log
       BY <1>1, <2>1 DEF Types, Sequences
    <2>5. Sequences' BY <2>1, <2>4, ReceivedKeeps
    <2>6. Forward' BY <1>1, <2>1 DEF Forward, Received
    <2> QED BY <2>1, <2>2, <2>3, <2>5, <2>6
<1>3. CASE router' = router /\ NoRequest
    <2>1. UNCHANGED <<router, issued, asked, pending, unsent>> BY <1>3 DEF NoRequest, transport
    <2>2. Types' BY <1>1, <2>1 DEF Types, Received
    <2>3. Places' BY <1>1, <2>1 DEF Places, Received
    <2>4. Sequences' BY <1>1, <2>1, ReceivedKeeps DEF Types, Sequences
    <2>5. OneSync' /\ Forward' BY <1>1, <2>1 DEF OneSync, Forward, Received
    <2> QED BY <2>2, <2>3, <2>4, <2>5
<1> QED BY <1>1, <1>2, <1>3

(* An event moves the latest sequence that the router knows.                *)
LEMMA EventKeeps ==
  ASSUME IInv, Received, NEW sequence \in Nat, sequence <= log, ReceiveEvent(sequence)
  PROVE IInv'
<1> USE DEF IInv
<1>1. UNCHANGED <<issued, asked, pending, unsent, plans, shown, stale>>
   BY DEF ReceiveEvent, NoRequest, transport
<1>2. /\ router' \in [mounted : BOOLEAN, latest : Nat, syncing : BOOLEAN, again : BOOLEAN,
                      armed : BOOLEAN, requests : SUBSET Nat]
      /\ router'.latest <= log
      /\ router'.requests = router.requests /\ router'.syncing = router.syncing
   BY DEF ReceiveEvent, Types, Sequences
<1>3. Types' BY <1>1, <1>2 DEF Types, Received
<1>4. Places' BY <1>1 DEF Places, Received
<1>5. Sequences' BY <1>1, <1>2, ReceivedKeeps DEF Types, Sequences
<1>6. OneSync' /\ Forward' BY <1>1, <1>2 DEF OneSync, Forward, Received
<1> QED BY <1>3, <1>4, <1>5, <1>6

(* The plan view shows the answer to its request.                           *)
LEMMA PlanKeeps ==
  ASSUME IInv, Received, NEW id \in Nat, NEW sequence \in Nat \cup {None},
    sequence # None => sequence <= log,
    id \in OnTheWayIds, id \in pending, id \in plans, ReceivePlan(id, sequence)
  PROVE IInv'
<1> USE DEF IInv
<1>1. /\ plans' = plans \ {id} /\ pending' = pending \ {id}
      /\ UNCHANGED <<issued, unsent, asked, router>>
   BY DEF ReceivePlan
<1>2. shown' \in Nat /\ shown' <= log /\ stale' \in BOOLEAN BY DEF ReceivePlan, Types, Sequences
<1>3. setting.plans # 0 BY DEF Forward
<1>4. id \notin unsent BY DEF Places, OnTheWayIds
<1>5. Types' BY <1>1, <1>2 DEF Types, Received
<1>6. Places' BY <1>1, <1>4 DEF Places, Received
<1>7. Sequences' BY <1>1, <1>2, ReceivedKeeps DEF Types, Sequences
<1>8. OneSync' BY <1>1 DEF OneSync
<1>9. Forward' BY <1>1, <1>3 DEF Forward, Received
<1> QED BY <1>5, <1>6, <1>7, <1>8, <1>9

(* The router shows the answer to its request, and may ask again.           *)
LEMMA SnapshotKeeps ==
  ASSUME IInv, Received, NEW id \in Nat, NEW sequence \in Nat, sequence <= log,
    id \in OnTheWayIds, id \in router.requests,
    ReceiveSnapshot(id, sequence), UNCHANGED plans
  PROVE IInv'
<1> USE DEF IInv
<1>1. shown' = sequence /\ stale' = FALSE BY DEF ReceiveSnapshot
<1>2. /\ router' \in [mounted : BOOLEAN, latest : Nat, syncing : BOOLEAN, again : BOOLEAN,
                      armed : BOOLEAN, requests : SUBSET Nat]
      /\ router'.latest <= log
    <2> DEFINE latest == IF sequence > router.latest THEN sequence ELSE router.latest
    <2>1. latest \in Nat /\ latest <= log BY DEF Types, Sequences
    <2>2. issued + 1 \in Nat /\ router.requests \in SUBSET Nat BY DEF Types
    <2>3. (router.requests \ {id}) \cup {issued + 1} \in SUBSET Nat BY <2>2
    <2>4. \/ router' = [router EXCEPT !.latest = latest, !.again = FALSE,
                                      !.requests = (@ \ {id}) \cup {issued + 1}]
          \/ router' = [router EXCEPT !.latest = latest, !.syncing = FALSE,
                                      !.requests = @ \ {id}]
       BY DEF ReceiveSnapshot
    <2> HIDE DEF latest
    <2> QED BY <2>1, <2>2, <2>3, <2>4 DEF Types
<1>3. router.requests = {id} /\ id \in pending \ plans /\ id \notin unsent /\ router.syncing
    <2>1. \A x \in router.requests : x = id BY DEF OneSync
    <2>2. router.syncing /\ id \in pending \ plans BY DEF OneSync
    <2>3. id \notin unsent BY DEF Places, OnTheWayIds
    <2> QED BY <2>1, <2>2, <2>3
<1>4. issued + 1 \notin 1..issued /\ 1..(issued + 1) = (1..issued) \cup {issued + 1} BY DEF Types
<1>5. CASE router.again
    <2>1. /\ issued' = issued + 1 /\ pending' = (pending \ {id}) \cup {issued + 1}
          /\ asked' = asked \cup {issued + 1} /\ unsent' = unsent
          /\ router'.requests = {issued + 1} /\ router'.syncing
        <3>1. /\ issued' = issued + 1 /\ pending' = (pending \ {id}) \cup {issued + 1}
              /\ asked' = asked \cup {issued + 1} /\ unsent' = unsent
           BY <1>5 DEF ReceiveSnapshot
        <3>2. /\ router'.requests = (router.requests \ {id}) \cup {issued + 1}
              /\ router'.syncing = router.syncing
           BY <1>5 DEF ReceiveSnapshot, Types
        <3> QED BY <1>3, <3>1, <3>2
    <2>2. Types' BY <1>1, <1>2, <2>1 DEF Types, Received
    <2>3. Places' BY <1>3, <1>4, <2>1 DEF Places, Received
    <2>4. OneSync' BY <1>3, <1>4, <2>1 DEF OneSync, Places
    <2>5. Forward' BY <1>4, <2>1 DEF Forward, Places, Received
    <2>6. Sequences' BY <1>1, <1>2, ReceivedKeeps
    <2> QED BY <2>2, <2>3, <2>4, <2>5, <2>6
<1>6. CASE ~router.again
    <2>1. /\ pending' = pending \ {id} /\ UNCHANGED <<issued, unsent, asked>>
          /\ router'.requests = {} /\ ~router'.syncing
       BY ZenonT(30), <1>3, <1>6 DEF ReceiveSnapshot, Types
    <2>2. Types' BY <1>1, <1>2, <2>1 DEF Types, Received
    <2>3. Places' BY <1>3, <2>1 DEF Places, Received
    <2>4. OneSync' /\ Forward' BY <2>1 DEF OneSync, Forward, Received
    <2>5. Sequences' BY <1>1, <1>2, ReceivedKeeps
    <2> QED BY <2>2, <2>3, <2>4, <2>5
<1> QED BY <1>5, <1>6

(* The router's request fails.                                              *)
LEMMA FailureKeeps ==
  ASSUME IInv, Received, NEW id \in Nat, id \in OnTheWayIds, id \in pending,
    id \in router.requests, SyncFails(id), pending' = pending \ {id},
    UNCHANGED <<issued, unsent, asked, plans, shown>>
  PROVE IInv'
<1> USE DEF IInv
<1>1. /\ router' \in [mounted : BOOLEAN, latest : Nat, syncing : BOOLEAN, again : BOOLEAN,
                      armed : BOOLEAN, requests : SUBSET Nat]
      /\ router'.requests = router.requests \ {id} /\ router'.latest = router.latest
      /\ stale' \in BOOLEAN /\ ~router'.syncing
   BY DEF SyncFails, Types
<1>2. router'.requests = {} BY <1>1 DEF OneSync
<1>3. id \notin unsent /\ id \notin plans BY DEF Places, OnTheWayIds, OneSync
<1>4. Types' BY <1>1 DEF Types, Received
<1>5. Places' BY <1>3 DEF Places, Received
<1>6. Sequences' BY <1>1, ReceivedKeeps DEF Types, Sequences
<1>7. OneSync' /\ Forward' BY <1>1, <1>2 DEF OneSync, Forward, Received
<1> QED BY <1>4, <1>5, <1>6, <1>7

(* An answer that nobody waits for changes nothing.                         *)
LEMMA LateAnswerKeeps ==
  ASSUME IInv, Received, NEW id \in Nat, id \in OnTheWayIds,
    id \notin pending \/ (id \notin plans /\ id \notin router.requests),
    pending' = pending \ {id},
    UNCHANGED <<issued, unsent, asked, router, plans, shown, stale>>
  PROVE IInv'
<1> USE DEF IInv
<1>1. id \notin unsent /\ id \notin plans /\ id \notin router.requests
   BY DEF Places, OnTheWayIds, OneSync
<1>2. Types' BY DEF Types, Received
<1>3. Places' BY <1>1 DEF Places, Received
<1>4. Sequences' BY ReceivedKeeps DEF Types, Sequences
<1>5. OneSync' /\ Forward' BY <1>1 DEF OneSync, Forward, Received
<1> QED BY <1>2, <1>3, <1>4, <1>5

(* What an answer does is one of four things.                               *)
LEMMA ResponseCases ==
  ASSUME NEW id, NEW sequence, ReceiveResponse(id, sequence)
  PROVE \/ id \in pending /\ id \in plans /\ ReceivePlan(id, sequence)
        \/ /\ id \in router.requests /\ sequence # None
           /\ ReceiveSnapshot(id, sequence) /\ UNCHANGED plans
        \/ /\ id \in pending /\ id \in router.requests /\ SyncFails(id)
           /\ pending' = pending \ {id}
           /\ UNCHANGED <<issued, unsent, asked, plans, shown>>
        \/ /\ id \notin pending \/ (id \notin plans /\ id \notin router.requests)
           /\ pending' = pending \ {id}
           /\ UNCHANGED <<issued, unsent, asked, router, plans, shown, stale>>
<1>1. CASE id \in pending /\ id \in plans BY <1>1 DEF ReceiveResponse
<1>2. CASE id \in pending /\ id \notin plans /\ id \in router.requests /\ sequence # None
   BY <1>2 DEF ReceiveResponse
<1>3. CASE id \in pending /\ id \notin plans /\ id \in router.requests /\ sequence = None
   BY <1>3 DEF ReceiveResponse
<1>4. CASE id \notin pending \/ (id \notin plans /\ id \notin router.requests)
   BY <1>4 DEF ReceiveResponse
<1> QED BY <1>1, <1>2, <1>3, <1>4

(* The three kinds of message.                                              *)
LEMMA ReceiveCases ==
  ASSUME IInv, Receive
  PROVE /\ Received
        /\ \/ ReceiveWelcome
           \/ \E sequence \in Nat : sequence <= log /\ ReceiveEvent(sequence)
           \/ \E answer \in Answers :
                 /\ answer \in OnTheWay /\ answer.id \in OnTheWayIds
                 /\ answer.sequence # None => answer.sequence <= log
                 /\ ReceiveResponse(answer.id, answer.sequence)
<1> USE DEF IInv
<1> DEFINE message == Head(inbound)
<1>1. Received /\ message \in Messages BY ReceiveReceives
<1>2. 1 \in DOMAIN inbound /\ message = inbound[1] BY <1>1 DEF Received, Types
<1>3. \/ message.type = "welcome" /\ ReceiveWelcome
      \/ message.type = "event" /\ ReceiveEvent(message.sequence)
      \/ message.type = "response" /\ ReceiveResponse(message.answer.id, message.answer.sequence)
   BY DEF Receive
<1> HIDE DEF message
<1>4. CASE message.type = "event" /\ ReceiveEvent(message.sequence)
    <2>1. message.sequence \in Nat BY <1>1, <1>4 DEF Messages
    <2>2. message.sequence <= log BY <1>2, <1>4 DEF Sequences
    <2> QED BY <1>1, <1>4, <2>1, <2>2
<1>5. CASE message.type = "response" /\ ReceiveResponse(message.answer.id, message.answer.sequence)
    <2>1. message.answer \in Answers BY <1>1, <1>5 DEF Messages
    <2>2. message.answer \in OnTheWay BY <1>2, <1>5 DEF OnTheWay
    <2>3. message.answer.sequence # None => message.answer.sequence <= log BY <2>2 DEF Sequences
    <2> QED BY <1>1, <1>5, <2>1, <2>2, <2>3 DEF OnTheWayIds
<1> QED BY <1>1, <1>3, <1>4, <1>5

(* A receipt keeps the invariant.                                          *)
LEMMA ReceiveKeeps == IInv /\ Receive => IInv'
<1> SUFFICES ASSUME IInv, Receive PROVE IInv' OBVIOUS
<1>1. Received BY ReceiveCases
<1>2. CASE ReceiveWelcome BY <1>1, <1>2, WelcomeKeeps
<1>3. ASSUME NEW sequence \in Nat, sequence <= log, ReceiveEvent(sequence) PROVE IInv'
   BY <1>1, <1>3, EventKeeps
<1>4. ASSUME NEW answer \in Answers, answer.id \in OnTheWayIds,
             answer.sequence # None => answer.sequence <= log,
             ReceiveResponse(answer.id, answer.sequence)
    PROVE  IInv'
    <2> DEFINE id == answer.id
               sequence == answer.sequence
    <2>1. id \in Nat /\ sequence \in Nat \cup {None} BY DEF Answers
    <2>2. id \in OnTheWayIds /\ (sequence # None => sequence <= log) BY <1>4
    <2>3. ReceiveResponse(id, sequence) BY <1>4
    <2> HIDE DEF id, sequence
    <2>4. CASE id \in pending /\ id \in plans /\ ReceivePlan(id, sequence)
       BY <1>1, <2>1, <2>2, <2>4, PlanKeeps
    <2>5. CASE /\ id \in router.requests /\ sequence # None
               /\ ReceiveSnapshot(id, sequence) /\ UNCHANGED plans
       BY <1>1, <2>1, <2>2, <2>5, SnapshotKeeps
    <2>6. CASE /\ id \in pending /\ id \in router.requests /\ SyncFails(id)
               /\ pending' = pending \ {id}
               /\ UNCHANGED <<issued, unsent, asked, plans, shown>>
       BY <1>1, <2>1, <2>2, <2>6, FailureKeeps
    <2>7. CASE /\ id \notin pending \/ (id \notin plans /\ id \notin router.requests)
               /\ pending' = pending \ {id}
               /\ UNCHANGED <<issued, unsent, asked, router, plans, shown, stale>>
       BY <1>1, <2>1, <2>2, <2>7, LateAnswerKeeps
    <2> QED BY <2>3, <2>4, <2>5, <2>6, <2>7, ResponseCases
<1> QED BY <1>2, <1>3, <1>4, ReceiveCases

--------------------
(* The invariant.                                                           *)
(* A client that was not mounted yet satisfies it.                         *)
LEMMA InvInit == Init => IInv
<1> SUFFICES ASSUME Init PROVE IInv OBVIOUS
<1>1. DOMAIN inbound = {} /\ OnTheWay = {}
    <2>1. inbound = << >> /\ answers = {} BY DEF Init
    <2>2. DOMAIN inbound = {} BY <2>1
    <2> QED BY <2>1, <2>2 DEF OnTheWay
<1>2. inbound \in Seq(Messages) BY DEF Init
<1>3. Types BY <1>2 DEF Init, Types, Unmounted, Kinds
<1>4. Places BY <1>1 DEF Init, Places
<1>5. Sequences BY <1>1 DEF Init, Sequences, Unmounted
<1>6. OneSync /\ Forward BY <1>1 DEF Init, OneSync, Forward, Unmounted
<1> QED BY <1>3, <1>4, <1>5, <1>6 DEF IInv

(* Every step keeps it.                                                    *)
LEMMA InvStep == IInv /\ [Next]_vars => IInv'
<1> SUFFICES ASSUME IInv, [Next]_vars PROVE IInv' OBVIOUS
<1>1. CASE Commit BY <1>1, CommitKeeps
<1>2. CASE Publish BY <1>2, PublishKeeps
<1>3. CASE Restart \/ Drop BY <1>3, DisconnectKeeps
<1>4. CASE Connect BY <1>4, ConnectKeeps
<1>5. CASE Mount BY <1>5, MountKeeps
<1>6. CASE Fire BY <1>6, FireKeeps
<1>7. CASE Receive BY <1>7, ReceiveKeeps
<1>8. CASE AskForPlan BY <1>8, AskForPlanKeeps
<1>9. ASSUME NEW id \in 1..issued, Poll(id) \/ Handle(id) \/ Timeout(id) PROVE IInv'
   BY <1>9, PollKeeps, HandleKeeps, TimeoutKeeps
<1>10. ASSUME NEW answer \in answers, Reply(answer) PROVE IInv' BY <1>10, ReplyKeeps
<1>11. CASE UNCHANGED vars
    <2>1. UNCHANGED <<setting, spent, log, published, issued, shown, connected, stale, inbound,
                      answers, asked, pending, unsent, plans, router>>
       BY <1>11 DEF vars, server, wire, transport
    <2>2. OnTheWay' = OnTheWay BY <2>1 DEF OnTheWay
    <2> QED BY <2>1, <2>2 DEF IInv, Types, Places, Sequences, OneSync, Forward
<1> QED BY <1>1, <1>2, <1>3, <1>4, <1>5, <1>6, <1>7, <1>8, <1>9, <1>10, <1>11 DEF Next

(* It holds always.                                                        *)
LEMMA Invariance == Spec => []IInv
   BY InvInit, InvStep, PTL DEF Spec

(* The variables of the client keep their types, a request is at one place  *)
(* at a time and the router synchronises exactly while it has a request,    *)
(* for any bounds of commits, losses and failures (syncSnapshot,            *)
(* wsTransport's pending map).                                              *)
THEOREM TypeCorrect == Spec => []TypeOK
<1>1. IInv => TypeOK
    <2> SUFFICES ASSUME IInv PROVE TypeOK OBVIOUS
    <2>1. RouterOK BY DEF IInv, Types, OneSync, RouterOK
    <2>2. \A answer \in answers : answer.id \in (1..issued) \ (unsent \cup asked)
       BY DEF IInv, Places, OnTheWay
    <2>3. published \in 1..log /\ shown \in 0..log /\ router.latest \in 0..log
       BY DEF IInv, Types, Sequences
    <2> QED BY <2>1, <2>2, <2>3 DEF IInv, Places, TypeOK
<1> QED BY <1>1, Invariance, PTL

--------------------
(* The refinement.                                                          *)
(* Initial states map to initial states.                                   *)
LEMMA ViewInit == Init => View!Init
   BY DEF Init, View!Init

(* What an answer shows is not older, unless the plan view asked for it.    *)
LEMMA ReceiveShows ==
    IInv /\ Receive =>
        /\ UNCHANGED <<log, setting>> /\ shown' \in 0..log
        /\ setting.plans > 0 \/ shown' >= shown
<1> SUFFICES ASSUME IInv, Receive
    PROVE  /\ UNCHANGED <<log, setting>> /\ shown' \in 0..log
           /\ setting.plans > 0 \/ shown' >= shown
   OBVIOUS
<1>1. Received BY ReceiveCases
<1>2. shown \in 0..log /\ shown \in Nat /\ log \in Nat BY DEF IInv, Types, Sequences
<1>3. setting.plans \in Nat BY SyncAssumption DEF IInv, Types, Kinds
<1>4. UNCHANGED <<log, setting>> BY <1>1 DEF Received
<1>5. CASE ReceiveWelcome BY <1>2, <1>4, <1>5 DEF ReceiveWelcome
<1>6. ASSUME NEW sequence \in Nat, ReceiveEvent(sequence) PROVE shown' = shown
   BY <1>6 DEF ReceiveEvent
<1>7. ASSUME NEW answer \in Answers, answer \in OnTheWay,
             answer.sequence # None => answer.sequence <= log,
             ReceiveResponse(answer.id, answer.sequence)
    PROVE  shown' \in 0..log /\ (setting.plans > 0 \/ shown' >= shown)
    <2>1. answer.sequence \in Nat \cup {None} BY DEF Answers
    <2>2. CASE answer.id \in plans /\ ReceivePlan(answer.id, answer.sequence)
        <3>1. setting.plans > 0 BY <2>2, <1>3 DEF IInv, Forward
        <3>2. shown' \in 0..log BY <1>2, <1>7, <2>1, <2>2 DEF ReceivePlan
        <3> QED BY <3>1, <3>2
    <2>3. CASE /\ answer.id \in router.requests /\ answer.sequence # None
               /\ ReceiveSnapshot(answer.id, answer.sequence)
        <3>1. shown' = answer.sequence BY <2>3 DEF ReceiveSnapshot
        <3>2. setting.plans = 0 => shown <= answer.sequence BY <1>7, <2>3 DEF IInv, Forward
        <3> QED BY <1>2, <1>3, <1>7, <2>1, <2>3, <3>1, <3>2
    <2>4. CASE UNCHANGED shown BY <1>2, <2>4
    <2> QED BY <1>7, <2>2, <2>3, <2>4, ResponseCases
<1> QED BY <1>2, <1>4, <1>5, <1>6, <1>7, ReceiveCases

(* Every step maps to a step of the view, or to a stutter.                 *)
LEMMA ViewStep ==
    IInv /\ [Next]_vars => [View!Next]_<<log, shown, setting.plans > 0>>
<1> SUFFICES ASSUME IInv, [Next]_vars
    PROVE  [View!Next]_<<log, shown, setting.plans > 0>>
   OBVIOUS
<1>1. CASE Commit BY <1>1 DEF Commit, View!Next, View!Advance
<1>2. CASE Receive BY <1>2, ReceiveShows DEF View!Next, View!Show
<1>3. CASE UNCHANGED <<log, shown, setting>> BY <1>3
<1>4. CASE Publish BY <1>3, <1>4 DEF Publish
<1>5. CASE Restart \/ Drop BY <1>3, <1>5 DEF Restart, Drop, Disconnect
<1>6. CASE Connect BY <1>3, <1>6 DEF Connect, server
<1>7. CASE Mount BY <1>3, <1>7 DEF Mount, server
<1>8. CASE Fire BY <1>3, <1>8 DEF Fire, server
<1>9. CASE AskForPlan BY <1>3, <1>9 DEF AskForPlan, server
<1>10. ASSUME NEW id \in 1..issued, Poll(id) \/ Handle(id) \/ Timeout(id)
    PROVE  UNCHANGED <<log, shown, setting>>
   BY <1>10 DEF Poll, Handle, Timeout, server
<1>11. ASSUME NEW answer \in answers, Reply(answer) PROVE UNCHANGED <<log, shown, setting>>
   BY <1>11 DEF Reply, server
<1>12. CASE UNCHANGED vars BY <1>3, <1>12 DEF vars, server
<1> QED BY <1>1, <1>2, <1>3, <1>4, <1>5, <1>6, <1>7, <1>8, <1>9, <1>10, <1>11, <1>12 DEF Next

(* What a client shows is a state of the server and never goes back, unless *)
(* the plan view writes past the router, however connections are lost and   *)
(* answers late (syncSnapshot's guard against a second request).            *)
THEOREM ClientImplementsView == Spec => ImplementsView
   BY ViewInit, ViewStep, Invariance, PTL DEF Spec, ImplementsView, View!Spec
=============================================================================

---------------------- MODULE ProjectionPipelineProofs ----------------------
(***************************************************************************)
(* Proofs about the projections: for any histories, the tables hold exactly *)
(* the events up to their cursors, through interrupted bootstraps too, and  *)
(* what is settled stays settled.                                           *)
(***************************************************************************)
EXTENDS ProjectionPipeline, FiniteSetTheorems, WellFoundedInduction, TLAPS

--------------------
(* Induction over the natural numbers, for a set instead of a predicate:    *)
(* without it, the intervals 0..n of what is missing would have a smallest. *)
LEMMA SetInduction ==
  ASSUME NEW S, 0 \in S, \A n \in Nat : n \in S => n + 1 \in S PROVE Nat \subseteq S
<1> SUFFICES ASSUME NEW m \in Nat, m \notin S PROVE FALSE OBVIOUS
<1> DEFINE missing == {0..n : n \in Nat \ S}
           below == StrictSubsetOrdering(Nat)
<1>1. IsWellFoundedOn(below, FiniteSubsetsOf(Nat)) BY FS_StrictSubsetOrderingWellFounded
<1>2. missing \subseteq FiniteSubsetsOf(Nat) /\ missing # {}
 <2>1. \A n \in Nat : 0..n \in SUBSET Nat /\ IsFiniteSet(0..n) BY FS_Interval
 <2> QED BY <2>1 DEF FiniteSubsetsOf
<1>3. PICK least \in missing : \A other \in missing : <<other, least>> \notin below
 <2> HIDE DEF missing, below
 <2> QED BY <1>1, <1>2, WFMin
<1>4. PICK n \in Nat \ S : least = 0..n BY <1>3
<1>5. n # 0 /\ n - 1 \in Nat \ S BY <1>4
<1>6. 0..(n - 1) \in SUBSET least /\ 0..(n - 1) # least /\ n \in Nat /\ least \in SUBSET Nat
 BY <1>4, <1>5
<1>7. <<0..(n - 1), least>> \in below BY <1>6 DEF StrictSubsetOrdering
<1> QED BY <1>3, <1>5, <1>7

--------------------
(* The recursive functions of the model do what they say.                   *)
Projecting(after, t, event, m) ==
    after = [n \in 0..m |-> IF n = 0 THEN t ELSE Apply(Projectors[n], after[n - 1], event)]
Sequencing(after, t, events, m) ==
    after = [n \in 0..m |-> IF n = 0 THEN t ELSE ApplyAll(after[n - 1], events[n])]
Remembering(after, known, events, m) ==
    after = [n \in 0..m |-> IF n \in DOMAIN known THEN known[n]
                            ELSE LET last == after[n - 1]
                                 IN  [tables |-> ApplyAll(last.tables, events[n]),
                                      model |-> ProjectEvent(last.model, n, events[n])]]

LEMMA ProjectingExists ==
  ASSUME NEW t, NEW event PROVE \A m \in Nat : \E after : Projecting(after, t, event, m)
<1> DEFINE S == {m \in Nat : \E after : Projecting(after, t, event, m)}
<1>1. 0 \in S
 <2>1. Projecting([n \in 0..0 |-> t], t, event, 0) BY DEF Projecting
 <2> QED BY <2>1
<1>2. ASSUME NEW m \in Nat, NEW after, Projecting(after, t, event, m)
    PROVE  m + 1 \in S
 <2> DEFINE next == [n \in 0..(m + 1) |->
                       IF n <= m THEN after[n] ELSE Apply(Projectors[n], after[n - 1], event)]
 <2>1. Projecting(next, t, event, m + 1) BY <1>2 DEF Projecting
 <2> QED BY <2>1
<1>3. Nat \subseteq S
 <2>1. \A m \in Nat : m \in S => m + 1 \in S BY <1>2
 <2> HIDE DEF S
 <2> QED BY <1>1, <2>1, SetInduction
<1> QED BY <1>3

LEMMA SequencingExists ==
  ASSUME NEW t, NEW events PROVE \A m \in Nat : \E after : Sequencing(after, t, events, m)
<1> DEFINE S == {m \in Nat : \E after : Sequencing(after, t, events, m)}
<1>1. 0 \in S
 <2>1. Sequencing([n \in 0..0 |-> t], t, events, 0) BY DEF Sequencing
 <2> QED BY <2>1
<1>2. ASSUME NEW m \in Nat, NEW after, Sequencing(after, t, events, m)
    PROVE  m + 1 \in S
 <2> DEFINE next == [n \in 0..(m + 1) |->
                       IF n <= m THEN after[n] ELSE ApplyAll(after[n - 1], events[n])]
 <2>1. Sequencing(next, t, events, m + 1) BY <1>2 DEF Sequencing
 <2> QED BY <2>1
<1>3. Nat \subseteq S
 <2>1. \A m \in Nat : m \in S => m + 1 \in S BY <1>2
 <2> HIDE DEF S
 <2> QED BY <1>1, <2>1, SetInduction
<1> QED BY <1>3

LEMMA RememberingExists ==
  ASSUME NEW known, NEW events, 0 \in DOMAIN known
  PROVE \A m \in Nat : \E after : Remembering(after, known, events, m)
<1> DEFINE S == {m \in Nat : \E after : Remembering(after, known, events, m)}
           Value(after, n) ==
              IF n \in DOMAIN known THEN known[n]
              ELSE LET last == after[n - 1]
                   IN  [tables |-> ApplyAll(last.tables, events[n]),
                        model |-> ProjectEvent(last.model, n, events[n])]
<1>1. 0 \in S
 <2>1. Remembering([n \in 0..0 |-> known[0]], known, events, 0) BY DEF Remembering
 <2> QED BY <2>1
<1>2. ASSUME NEW m \in Nat, NEW after, Remembering(after, known, events, m)
    PROVE  m + 1 \in S
 <2> DEFINE next == [n \in 0..(m + 1) |-> IF n <= m THEN after[n] ELSE Value(after, n)]
 <2>1. \A n \in 0..m : next[n] = after[n] /\ after[n] = Value(after, n) BY <1>2 DEF Remembering
 <2>2. next[m + 1] = Value(after, m + 1) BY <1>2
 <2>3. next = [n \in 0..(m + 1) |-> next[n]] OBVIOUS
 <2> HIDE DEF next
 <2>4. \A n \in 0..(m + 1) : next[n] = Value(next, n)
  <3>1. ASSUME NEW n \in 0..(m + 1) PROVE Value(next, n) = Value(after, n)
   <4>1. n \notin DOMAIN known => n - 1 \in 0..m BY <1>2
   <4> QED BY <2>1, <4>1
  <3> HIDE DEF Value
  <3>2. ASSUME NEW n \in 0..(m + 1) PROVE n \in 0..m \/ n = m + 1 BY <1>2
  <3> QED BY <2>1, <2>2, <3>1, <3>2
 <2>5. next = [n \in 0..(m + 1) |-> Value(next, n)]
  <3> HIDE DEF Value
  <3> QED BY <2>3, <2>4
 <2>6. Remembering(next, known, events, m + 1) BY <2>5 DEF Remembering
 <2> QED BY <1>2, <2>6
<1>3. Nat \subseteq S
 <2>1. \A m \in Nat : m \in S => m + 1 \in S BY <1>2
 <2> HIDE DEF S
 <2> QED BY <1>1, <2>1, SetInduction
<1> QED BY <1>3

LEMMA ApplyAllUnfolds ==
  ASSUME NEW t, NEW event
  PROVE \E after : Projecting(after, t, event, 9) /\ ApplyAll(t, event) = after[9]
<1> DEFINE after == CHOOSE a : Projecting(a, t, event, 9)
<1>1. Len(Projectors) = 9 BY DEF Projectors
<1>2. Projecting(after, t, event, 9)
 <2>1. \E a : Projecting(a, t, event, 9) BY ProjectingExists
 <2> QED BY <2>1
<1>3. ApplyAll(t, event) = after[9] BY <1>1 DEF ApplyAll, Projecting
<1> QED BY <1>2, <1>3

(* A command has one event, or two. *)
LEMMA ApplyEventsUnfolds ==
  ASSUME NEW t, NEW events, Len(events) \in {1, 2}
  PROVE ApplyEvents(t, events) =
           IF Len(events) = 1 THEN ApplyAll(t, events[1])
           ELSE ApplyAll(ApplyAll(t, events[1]), events[2])
<1> DEFINE length == Len(events)
           after == CHOOSE a : Sequencing(a, t, events, length)
<1>1. length \in Nat OBVIOUS
<1>2. Sequencing(after, t, events, length)
 <2>1. \E a : Sequencing(a, t, events, length) BY <1>1, SequencingExists
 <2> QED BY <2>1
<1>3. ApplyEvents(t, events) = after[length] BY DEF ApplyEvents, Sequencing
<1>4. /\ after[0] = t /\ after[1] = ApplyAll(after[0], events[1])
      /\ length = 2 => after[2] = ApplyAll(after[1], events[2])
 <2> HIDE DEF after
 <2> QED BY <1>2 DEF Sequencing
<1> QED BY <1>3, <1>4

Follows(after, known, events) ==
    /\ DOMAIN after = 0..Len(events)
    /\ \A n \in DOMAIN known \cap 0..Len(events) : after[n] = known[n]
    /\ \A n \in (1..Len(events)) \ DOMAIN known :
          after[n].tables = ApplyAll(after[n - 1].tables, events[n])

LEMMA FollowingUnfolds ==
  ASSUME NEW known, NEW events, 0 \in DOMAIN known, Len(events) \in Nat
  PROVE Follows(Following(known, events), known, events)
<1> DEFINE length == Len(events)
           after == CHOOSE a : Remembering(a, known, events, length)
<1>2. Remembering(after, known, events, length)
 <2>1. \E a : Remembering(a, known, events, length) BY RememberingExists
 <2> QED BY <2>1
<1>3. Following(known, events) = after BY DEF Following, Remembering
<1>4. length \in Nat OBVIOUS
<1> HIDE DEF after, length
<1>5. DOMAIN after = 0..length BY <1>2 DEF Remembering
<1>6. \A n \in DOMAIN known \cap 0..length : after[n] = known[n] BY <1>2 DEF Remembering
<1>7. ASSUME NEW n \in (1..length) \ DOMAIN known
    PROVE  after[n].tables = ApplyAll(after[n - 1].tables, events[n])
 <2>1. n \in 0..length BY <1>4
 <2>2. after[n] = [tables |-> ApplyAll(after[n - 1].tables, events[n]),
                   model |-> ProjectEvent(after[n - 1].model, n, events[n])]
  BY <1>2, <2>1 DEF Remembering
 <2> QED BY <2>2
<1>9. Follows(after, known, events) BY <1>5, <1>6, <1>7 DEF Follows, length
<1> QED BY <1>3, <1>9

--------------------
(* The tables are a record; what each projector makes of it.                *)
IsTables(t) ==
    t = [project |-> t.project, messages |-> t.messages, plans |-> t.plans,
         activities |-> t.activities, session |-> t.session, turns |-> t.turns,
         pendingStart |-> t.pendingStart, approvals |-> t.approvals, thread |-> t.thread]

(* The part of the tables that the projector of turns reads and writes.     *)
TurnTables(t) == [turns |-> t.turns, pendingStart |-> t.pendingStart]

LEMMA TurnsAreLocal ==
  ASSUME NEW t, IsTables(t), NEW event
  PROVE ApplyTurns(t, event) =
           [t EXCEPT !.turns = ApplyTurns(TurnTables(t), event).turns,
                     !.pendingStart = ApplyTurns(TurnTables(t), event).pendingStart]
<1> DEFINE u == TurnTables(t)
<1>1. u.turns = t.turns /\ u.pendingStart = t.pendingStart BY DEF TurnTables
<1>2. \A session, at : StartTurn(t, session, at) = StartTurn(u, session, at) BY <1>1 DEF StartTurn
<1> DEFINE Joined(v) == [t EXCEPT !.turns = v.turns, !.pendingStart = v.pendingStart]
<1>3. \A rows : /\ Joined([u EXCEPT !.turns = rows]) = [t EXCEPT !.turns = rows]
                /\ Joined([[u EXCEPT !.turns = rows] EXCEPT !.pendingStart = NoRow])
                      = [[t EXCEPT !.turns = rows] EXCEPT !.pendingStart = NoRow]
                /\ Joined([u EXCEPT !.turns = rows, !.pendingStart = NoRow])
                      = [t EXCEPT !.turns = rows, !.pendingStart = NoRow]
 BY <1>1 DEF IsTables, TurnTables
<1>4. /\ \A start : Joined([u EXCEPT !.pendingStart = start]) = [t EXCEPT !.pendingStart = start]
      /\ Joined(u) = t
 BY <1>1 DEF IsTables, TurnTables
<1> HIDE DEF u, Joined
<1>5. ApplyTurns(t, event) = Joined(ApplyTurns(u, event))
 <2> DEFINE type == event.type
            data == event.data
            runs == data.session.status = "running" /\ data.session.activeTurn # NoTurn
            answers == data.turn # NoTurn /\ data.role = "assistant"
 <2>1. CASE type = "thread.turn-start-requested"
  <3> DEFINE asked == [message |-> data.message, at |-> data.at]
  <3>1. /\ ApplyTurns(t, event) = [t EXCEPT !.pendingStart = asked]
        /\ ApplyTurns(u, event) = [u EXCEPT !.pendingStart = asked]
   BY <2>1 DEF ApplyTurns
  <3>2. Joined([u EXCEPT !.pendingStart = asked]) = [t EXCEPT !.pendingStart = asked]
   <4> HIDE DEF asked
   <4> QED BY <1>1 DEF IsTables, TurnTables, Joined, u
  <3> QED BY <3>1, <3>2
 <2>2. CASE type = "thread.session-set" /\ runs
  <3>1. PICK rows : rows = Replace(t.turns, StartTurn(t, data.session, data.at)) OBVIOUS
  <3>2. rows = Replace(u.turns, StartTurn(u, data.session, data.at)) BY <1>1, <1>2, <3>1
  <3>3. /\ ApplyTurns(t, event) = [[t EXCEPT !.turns = rows] EXCEPT !.pendingStart = NoRow]
        /\ ApplyTurns(u, event) = [[u EXCEPT !.turns = rows] EXCEPT !.pendingStart = NoRow]
   BY <2>2, <3>1, <3>2 DEF ApplyTurns
  <3> QED BY <1>3, <3>3
 <2>3. CASE type = "thread.message-sent" /\ answers BY <1>1, <1>3, <2>3 DEF ApplyTurns
 <2>4. CASE type = "thread.turn-interrupt-requested" /\ data.turn # NoTurn
  BY <1>1, <1>3, <2>4 DEF ApplyTurns
 <2>5. CASE type = "thread.turn-diff-completed" BY <1>1, <1>3, <2>5 DEF ApplyTurns
 <2>6. CASE type = "thread.reverted" BY <1>1, <1>3, <2>6 DEF ApplyTurns
 <2>7. CASE type = "thread.context-compacted" BY <1>1, <1>3, <2>7 DEF ApplyTurns
 <2>8. CASE /\ type \notin {"thread.turn-start-requested", "thread.turn-diff-completed",
                            "thread.reverted", "thread.context-compacted"}
            /\ ~(type = "thread.session-set" /\ runs)
            /\ ~(type = "thread.message-sent" /\ answers)
            /\ ~(type = "thread.turn-interrupt-requested" /\ data.turn # NoTurn)
  BY <1>4, <2>8 DEF ApplyTurns
 <2> QED BY <2>1, <2>2, <2>3, <2>4, <2>5, <2>6, <2>7, <2>8
<1> QED BY <1>5 DEF u, Joined

(* What one projector makes of the tables.                                  *)
Projected(p, t, event) ==
    [project |-> IF p = "projects" THEN ApplyProjects(t.project, event) ELSE t.project,
     messages |-> IF p = "threadMessages" THEN ApplyMessages(t.messages, t.turns, event)
                  ELSE t.messages,
     plans |-> IF p = "threadProposedPlans"
               THEN ApplyEntries(t.plans, t.turns, event, "thread.proposed-plan-upserted")
               ELSE t.plans,
     activities |-> IF p = "threadActivities"
                    THEN ApplyEntries(t.activities, t.turns, event, "thread.activity-appended")
                    ELSE t.activities,
     session |-> IF p = "threadSessions" THEN ApplySession(t.session, event) ELSE t.session,
     turns |-> IF p = "threadTurns" THEN ApplyTurns(TurnTables(t), event).turns ELSE t.turns,
     pendingStart |-> IF p = "threadTurns" THEN ApplyTurns(TurnTables(t), event).pendingStart
                      ELSE t.pendingStart,
     approvals |-> IF p = "pendingApprovals" THEN ApplyApprovals(t.approvals, event)
                   ELSE t.approvals,
     thread |-> IF p = "threads" THEN ApplyThreads(t.thread, event) ELSE t.thread]

LEMMA ApplyIsProjected ==
  ASSUME NEW p \in Range(Projectors), NEW t, IsTables(t), NEW event
  PROVE Apply(p, t, event) = Projected(p, t, event) /\ IsTables(Apply(p, t, event))
<1>1. p \in {"projects", "threadMessages", "threadProposedPlans", "threadActivities",
            "threadSessions", "threadTurns", "checkpoints", "pendingApprovals", "threads"}
 BY DEF Range, Projectors
<1>2. Apply(p, t, event) = Projected(p, t, event)
 <2>1. CASE p = "projects" BY <2>1 DEF Apply, Projected, IsTables
 <2>2. CASE p = "threadMessages" BY <2>2 DEF Apply, Projected, IsTables
 <2>3. CASE p = "threadProposedPlans" BY <2>3 DEF Apply, Projected, IsTables
 <2>4. CASE p = "threadActivities" BY <2>4 DEF Apply, Projected, IsTables
 <2>5. CASE p = "threadSessions" BY <2>5 DEF Apply, Projected, IsTables
 <2>6. CASE p = "threadTurns"
  <3>1. PICK v : v = ApplyTurns(TurnTables(t), event) OBVIOUS
  <3>2. Apply(p, t, event) = [t EXCEPT !.turns = v.turns, !.pendingStart = v.pendingStart]
   BY <2>6, <3>1, TurnsAreLocal DEF Apply
  <3>3. Projected(p, t, event) = [t EXCEPT !.turns = v.turns, !.pendingStart = v.pendingStart]
   <4>1. Projected(p, t, event) =
           [project |-> t.project, messages |-> t.messages, plans |-> t.plans,
            activities |-> t.activities, session |-> t.session, turns |-> v.turns,
            pendingStart |-> v.pendingStart, approvals |-> t.approvals, thread |-> t.thread]
    BY <2>6, <3>1 DEF Projected
   <4>2. PICK s : s = [t EXCEPT !.turns = v.turns] OBVIOUS
   <4>3. s = [project |-> t.project, messages |-> t.messages, plans |-> t.plans,
              activities |-> t.activities, session |-> t.session, turns |-> v.turns,
              pendingStart |-> t.pendingStart, approvals |-> t.approvals,
              thread |-> t.thread]
    BY <4>2 DEF IsTables
   <4>4. Projected(p, t, event) = [s EXCEPT !.pendingStart = v.pendingStart] BY <4>1, <4>3
   <4> QED BY <4>2, <4>4
  <3> QED BY <3>2, <3>3
 <2>7. CASE p = "checkpoints" BY <2>7 DEF Apply, Projected, IsTables
 <2>8. CASE p = "pendingApprovals" BY <2>8 DEF Apply, Projected, IsTables
 <2>9. CASE p = "threads" BY <2>9 DEF Apply, Projected, IsTables
 <2> QED BY <1>1, <2>1, <2>2, <2>3, <2>4, <2>5, <2>6, <2>7, <2>8, <2>9
<1>3. IsTables(Projected(p, t, event)) BY DEF IsTables, Projected
<1> QED BY <1>2, <1>3

(* All projectors, one after the other: those before the turns read the     *)
(* turns as they were.                                                      *)
AllProjected(t, event) ==
    [project |-> ApplyProjects(t.project, event),
     messages |-> ApplyMessages(t.messages, t.turns, event),
     plans |-> ApplyEntries(t.plans, t.turns, event, "thread.proposed-plan-upserted"),
     activities |-> ApplyEntries(t.activities, t.turns, event, "thread.activity-appended"),
     session |-> ApplySession(t.session, event),
     turns |-> ApplyTurns(TurnTables(t), event).turns,
     pendingStart |-> ApplyTurns(TurnTables(t), event).pendingStart,
     approvals |-> ApplyApprovals(t.approvals, event),
     thread |-> ApplyThreads(t.thread, event)]

LEMMA ApplyAllIsProjected ==
  ASSUME NEW t, IsTables(t), NEW event
  PROVE ApplyAll(t, event) = AllProjected(t, event) /\ IsTables(ApplyAll(t, event))
<1>1. PICK after : Projecting(after, t, event, 9) /\ ApplyAll(t, event) = after[9]
 BY ApplyAllUnfolds
<1> DEFINE next == AllProjected(t, event)
           t1 == after[1]
           t2 == after[2]
           t3 == after[3]
           t4 == after[4]
           t5 == after[5]
           t6 == after[6]
           t7 == after[7]
           t8 == after[8]
           t9 == after[9]
<1>2. /\ after[0] = t
      /\ t1 = Apply("projects", t, event)
      /\ t2 = Apply("threadMessages", t1, event)
      /\ t3 = Apply("threadProposedPlans", t2, event)
      /\ t4 = Apply("threadActivities", t3, event)
      /\ t5 = Apply("threadSessions", t4, event)
      /\ t6 = Apply("threadTurns", t5, event)
      /\ t7 = Apply("checkpoints", t6, event)
      /\ t8 = Apply("pendingApprovals", t7, event)
      /\ t9 = Apply("threads", t8, event)
 BY <1>1 DEF Projecting, Projectors
<1> HIDE DEF next, t1, t2, t3, t4, t5, t6, t7, t8, t9
<1>p. {"projects", "threadMessages", "threadProposedPlans", "threadActivities",
       "threadSessions", "threadTurns", "checkpoints", "pendingApprovals", "threads"}
            \subseteq Range(Projectors)
 BY DEF Range, Projectors
<1>next. /\ next.project = ApplyProjects(t.project, event)
         /\ next.messages = ApplyMessages(t.messages, t.turns, event)
         /\ next.plans = ApplyEntries(t.plans, t.turns, event, "thread.proposed-plan-upserted")
         /\ next.activities = ApplyEntries(t.activities, t.turns, event, "thread.activity-appended")
         /\ next.session = ApplySession(t.session, event)
         /\ next.turns = ApplyTurns(TurnTables(t), event).turns
         /\ next.pendingStart = ApplyTurns(TurnTables(t), event).pendingStart
         /\ next.approvals = ApplyApprovals(t.approvals, event)
         /\ next.thread = ApplyThreads(t.thread, event)
 BY DEF AllProjected, next
<1>3. /\ IsTables(t1) /\ IsTables(t2) /\ IsTables(t3) /\ IsTables(t4) /\ IsTables(t5)
      /\ IsTables(t6) /\ IsTables(t7) /\ IsTables(t8) /\ IsTables(t9)
 BY <1>2, <1>p, ApplyIsProjected
<1>4. /\ t1.project = next.project /\ t1.messages = t.messages /\ t1.plans = t.plans
      /\ t1.activities = t.activities /\ t1.session = t.session /\ t1.turns = t.turns
      /\ t1.pendingStart = t.pendingStart /\ t1.approvals = t.approvals /\ t1.thread = t.thread
 <2>1. t1 = Projected("projects", t, event) BY <1>2, <1>3, <1>p, ApplyIsProjected
 <2> QED BY <2>1, <1>next DEF Projected
<1>5. /\ t2.project = next.project /\ t2.messages = next.messages /\ t2.plans = t.plans
      /\ t2.activities = t.activities /\ t2.session = t.session /\ t2.turns = t.turns
      /\ t2.pendingStart = t.pendingStart /\ t2.approvals = t.approvals /\ t2.thread = t.thread
 <2>1. t2 = Projected("threadMessages", t1, event) BY <1>2, <1>3, <1>p, ApplyIsProjected
 <2> QED BY <2>1, <1>4, <1>next DEF Projected
<1>6. /\ t3.project = next.project /\ t3.messages = next.messages /\ t3.plans = next.plans
      /\ t3.activities = t.activities /\ t3.session = t.session /\ t3.turns = t.turns
      /\ t3.pendingStart = t.pendingStart /\ t3.approvals = t.approvals /\ t3.thread = t.thread
 <2>1. t3 = Projected("threadProposedPlans", t2, event) BY <1>2, <1>3, <1>p, ApplyIsProjected
 <2> QED BY <2>1, <1>5, <1>next DEF Projected
<1>7. /\ t4.project = next.project /\ t4.messages = next.messages /\ t4.plans = next.plans
      /\ t4.activities = next.activities /\ t4.session = t.session /\ t4.turns = t.turns
      /\ t4.pendingStart = t.pendingStart /\ t4.approvals = t.approvals /\ t4.thread = t.thread
 <2>1. t4 = Projected("threadActivities", t3, event) BY <1>2, <1>3, <1>p, ApplyIsProjected
 <2> QED BY <2>1, <1>6, <1>next DEF Projected
<1>8. /\ t5.project = next.project /\ t5.messages = next.messages /\ t5.plans = next.plans
      /\ t5.activities = next.activities /\ t5.session = next.session /\ t5.turns = t.turns
      /\ t5.pendingStart = t.pendingStart /\ t5.approvals = t.approvals /\ t5.thread = t.thread
 <2>1. t5 = Projected("threadSessions", t4, event) BY <1>2, <1>3, <1>p, ApplyIsProjected
 <2> QED BY <2>1, <1>7, <1>next DEF Projected
<1>9. /\ t6.project = next.project /\ t6.messages = next.messages /\ t6.plans = next.plans
      /\ t6.activities = next.activities /\ t6.session = next.session /\ t6.turns = next.turns
      /\ t6.pendingStart = next.pendingStart /\ t6.approvals = t.approvals /\ t6.thread = t.thread
 <2>1. t6 = Projected("threadTurns", t5, event) BY <1>2, <1>3, <1>p, ApplyIsProjected
 <2> QED BY <2>1, <1>8, <1>next DEF Projected, TurnTables
<1>10. /\ t7.project = next.project /\ t7.messages = next.messages /\ t7.plans = next.plans
       /\ t7.activities = next.activities /\ t7.session = next.session /\ t7.turns = next.turns
       /\ t7.pendingStart = next.pendingStart /\ t7.approvals = t.approvals /\ t7.thread = t.thread
 <2>1. t7 = Projected("checkpoints", t6, event) BY <1>2, <1>3, <1>p, ApplyIsProjected
 <2> QED BY <2>1, <1>9, <1>next DEF Projected
<1>11. /\ t8.project = next.project /\ t8.messages = next.messages /\ t8.plans = next.plans
       /\ t8.activities = next.activities /\ t8.session = next.session /\ t8.turns = next.turns
       /\ t8.pendingStart = next.pendingStart /\ t8.approvals = next.approvals /\ t8.thread = t.thread
 <2>1. t8 = Projected("pendingApprovals", t7, event) BY <1>2, <1>3, <1>p, ApplyIsProjected
 <2> QED BY <2>1, <1>10, <1>next DEF Projected
<1>12. /\ t9.project = next.project /\ t9.messages = next.messages /\ t9.plans = next.plans
       /\ t9.activities = next.activities /\ t9.session = next.session /\ t9.turns = next.turns
       /\ t9.pendingStart = next.pendingStart /\ t9.approvals = next.approvals /\ t9.thread = next.thread
 <2>1. t9 = Projected("threads", t8, event) BY <1>2, <1>3, <1>p, ApplyIsProjected
 <2> QED BY <2>1, <1>11, <1>next DEF Projected
<1>13. t9 = next BY <1>3, <1>12 DEF IsTables, AllProjected, next
<1> QED BY <1>1, <1>3, <1>13 DEF t9, next

--------------------
(* Keys.                                                                    *)
Keyed(rows) == \A row, other \in rows : row.id = other.id => row = other

LEMMA ReplaceKeyed ==
  ASSUME NEW rows, Keyed(rows), NEW row PROVE Keyed(Replace(rows, row))
BY DEF Keyed, Replace

LEMMA MessagesKeyed ==
  ASSUME NEW rows, Keyed(rows), NEW turns, NEW event
  PROVE Keyed(ApplyMessages(rows, turns, event))
<1>1. \A data : Keyed(StoreMessage(rows, data)) BY ReplaceKeyed DEF StoreMessage
<1>2. \A n : RetainMessageRows(rows, turns, n) \subseteq rows BY DEF RetainMessageRows
<1>3. \A n : Keyed(RetainMessageRows(rows, turns, n)) BY <1>2 DEF Keyed
<1>4. \A row : Keyed({row}) BY DEF Keyed
<1> QED BY <1>1, <1>3, <1>4 DEF ApplyMessages

LEMMA EntriesKeyed ==
  ASSUME NEW rows, Keyed(rows), NEW turns, NEW event, NEW appended
  PROVE Keyed(ApplyEntries(rows, turns, event, appended))
<1>1. Keyed(Replace(rows, event.data)) BY ReplaceKeyed
<1>2. Keyed({}) /\ \A n : Keyed(RetainRows(rows, turns, n)) BY DEF Keyed, RetainRows
<1> QED BY <1>1, <1>2 DEF ApplyEntries

LEMMA ApprovalsKeyed ==
  ASSUME NEW rows, Keyed(rows), NEW event PROVE Keyed(ApplyApprovals(rows, event))
BY ReplaceKeyed DEF ApplyApprovals

--------------------
(* The turns: a table of records with unique ids and turn counts.           *)
IsTurn(row) ==
    /\ row = [id |-> row.id, pending |-> row.pending, assistant |-> row.assistant,
              state |-> row.state, requested |-> row.requested, count |-> row.count,
              status |-> row.status]
    /\ row.state \in TurnStates

TurnsSound(turns) ==
    /\ \A row \in turns : IsTurn(row)
    /\ Keyed(turns)
    /\ \A row, other \in CheckpointRows(turns) : row.count = other.count => row = other

(* What a row put in place of the turn "id" has of the row before it.       *)
TakesOver(row, turns, id) ==
    /\ IsTurn(row) /\ row.id = id
    /\ row.count # NoCount => \E old \in turns : old.id = id /\ old.count = row.count

LEMMA RowOfKnown ==
  ASSUME NEW rows, NEW id, Known(rows, id)
  PROVE RowOf(rows, id) \in rows /\ RowOf(rows, id).id = id
BY DEF Known, RowOf

LEMMA StateAndPending ==
  ASSUME NEW row, IsTurn(row), NEW a, NEW b
  PROVE [row EXCEPT !.state = a, !.pending = b] =
           [id |-> row.id, pending |-> b, assistant |-> row.assistant,
            state |-> a, requested |-> row.requested, count |-> row.count, status |-> row.status]
<1>1. PICK s : s = [row EXCEPT !.state = a] OBVIOUS
<1>2. s = [id |-> row.id, pending |-> row.pending, assistant |-> row.assistant,
           state |-> a, requested |-> row.requested, count |-> row.count, status |-> row.status]
 BY <1>1 DEF IsTurn
<1>3. [s EXCEPT !.pending = b] =
         [id |-> row.id, pending |-> b, assistant |-> row.assistant,
          state |-> a, requested |-> row.requested, count |-> row.count, status |-> row.status]
 BY <1>2
<1> QED BY <1>1, <1>3

LEMMA AssistantAndState ==
  ASSUME NEW row, IsTurn(row), NEW a, NEW b
  PROVE [row EXCEPT !.assistant = a, !.state = b] =
           [id |-> row.id, pending |-> row.pending, assistant |-> a,
            state |-> b, requested |-> row.requested, count |-> row.count, status |-> row.status]
<1>1. PICK s : s = [row EXCEPT !.assistant = a] OBVIOUS
<1>2. s = [id |-> row.id, pending |-> row.pending, assistant |-> a,
           state |-> row.state, requested |-> row.requested, count |-> row.count, status |-> row.status]
 BY <1>1 DEF IsTurn
<1>3. [s EXCEPT !.state = b] =
         [id |-> row.id, pending |-> row.pending, assistant |-> a,
          state |-> b, requested |-> row.requested, count |-> row.count, status |-> row.status]
 BY <1>2
<1> QED BY <1>1, <1>3

LEMMA CountAndStatus ==
  ASSUME NEW row, IsTurn(row), NEW a, NEW b
  PROVE [row EXCEPT !.count = a, !.status = b] =
           [id |-> row.id, pending |-> row.pending, assistant |-> row.assistant,
            state |-> row.state, requested |-> row.requested, count |-> a, status |-> b]
<1>1. PICK s : s = [row EXCEPT !.count = a] OBVIOUS
<1>2. s = [id |-> row.id, pending |-> row.pending, assistant |-> row.assistant,
           state |-> row.state, requested |-> row.requested, count |-> a, status |-> row.status]
 BY <1>1 DEF IsTurn
<1>3. [s EXCEPT !.status = b] =
         [id |-> row.id, pending |-> row.pending, assistant |-> row.assistant,
          state |-> row.state, requested |-> row.requested, count |-> a, status |-> b]
 BY <1>2
<1> QED BY <1>1, <1>3

LEMMA TurnRowTakesOver ==
  ASSUME NEW turns, TurnsSound(turns), NEW id, NEW state \in TurnStates, NEW at
  PROVE TakesOver(TurnRow(turns, id, state, at), turns, id)
<1>1. CASE Known(turns, id) BY <1>1, RowOfKnown DEF TurnRow, TakesOver, TurnsSound
<1>2. CASE ~Known(turns, id)
 <2>1. TurnRow(turns, id, state, at) = NewTurn(id, state, at) BY <1>2 DEF TurnRow
 <2>2. IsTurn(NewTurn(id, state, at)) /\ NewTurn(id, state, at).id = id
       /\ NewTurn(id, state, at).count = NoCount
  BY DEF NewTurn, IsTurn
 <2> QED BY <2>1, <2>2 DEF TakesOver
<1> QED BY <1>1, <1>2

LEMMA ReplaceSound ==
  ASSUME NEW turns, TurnsSound(turns), NEW row, NEW id, TakesOver(row, turns, id)
  PROVE TurnsSound(Replace(turns, row))
<1>1. \A new \in Replace(turns, row) : IsTurn(new) BY DEF Replace, TurnsSound, TakesOver
<1>2. Keyed(Replace(turns, row)) BY ReplaceKeyed DEF TurnsSound
<1>3. ASSUME NEW one \in CheckpointRows(Replace(turns, row)),
             NEW two \in CheckpointRows(Replace(turns, row)), one.count = two.count
    PROVE  one = two
 <2>1. \A other \in turns : other.count # NoCount /\ other.count = row.count => other.id = id
  BY DEF TurnsSound, TakesOver, CheckpointRows
 <2> QED BY <1>3, <2>1 DEF Replace, TurnsSound, TakesOver, CheckpointRows
<1> QED BY <1>1, <1>2, <1>3 DEF TurnsSound

LEMMA StartedTakesOver ==
  ASSUME NEW tables0, TurnsSound(tables0.turns), NEW session, NEW at
  PROVE TakesOver(StartTurn(tables0, session, at), tables0.turns, session.activeTurn)
<1> DEFINE start == tables0.pendingStart
           requested == IF start = NoRow THEN at ELSE start.at
<1>1. PICK row : /\ row = TurnRow(tables0.turns, session.activeTurn, "running", requested)
                 /\ TakesOver(row, tables0.turns, session.activeTurn)
 BY TurnRowTakesOver DEF TurnStates
<1>2. PICK state, pending :
        /\ state = IF IsSettled(row.state) THEN row.state ELSE "running"
        /\ pending = IF row.pending = 0 /\ start # NoRow THEN start.message ELSE row.pending
 OBVIOUS
<1>3. StartTurn(tables0, session, at) = [row EXCEPT !.state = state, !.pending = pending]
 BY <1>1, <1>2 DEF StartTurn
<1>4. state \in TurnStates BY <1>1, <1>2 DEF TakesOver, IsTurn, TurnStates
<1>5. [row EXCEPT !.state = state, !.pending = pending] =
        [id |-> row.id, pending |-> pending, assistant |-> row.assistant, state |-> state,
         requested |-> row.requested, count |-> row.count, status |-> row.status]
 <2>1. IsTurn(row) BY <1>1 DEF TakesOver
 <2> QED BY <2>1, StateAndPending
<1> QED BY <1>1, <1>3, <1>4, <1>5 DEF TakesOver, IsTurn

LEMMA AnsweredTakesOver ==
  ASSUME NEW turns, TurnsSound(turns), NEW data
  PROVE TakesOver(AnswerTurn(turns, data), turns, data.turn)
<1>1. PICK row : /\ row = TurnRow(turns, data.turn, "running", data.at)
                 /\ TakesOver(row, turns, data.turn)
 BY TurnRowTakesOver DEF TurnStates
<1>2. PICK state : state = CASE data.streaming -> row.state
                             [] ~data.streaming /\ row.state \in {"interrupted", "error"} ->
                                   row.state
                             [] OTHER -> "completed"
 OBVIOUS
<1>3. AnswerTurn(turns, data) = [row EXCEPT !.assistant = data.message, !.state = state]
 BY <1>1, <1>2 DEF AnswerTurn
<1>4. state \in TurnStates BY <1>1, <1>2 DEF TakesOver, IsTurn, TurnStates
<1>5. [row EXCEPT !.assistant = data.message, !.state = state] =
        [id |-> row.id, pending |-> row.pending, assistant |-> data.message, state |-> state,
         requested |-> row.requested, count |-> row.count, status |-> row.status]
 <2>1. IsTurn(row) BY <1>1 DEF TakesOver
 <2> QED BY <2>1, AssistantAndState
<1> QED BY <1>1, <1>3, <1>4, <1>5 DEF TakesOver, IsTurn

LEMMA InterruptedTakesOver ==
  ASSUME NEW turns, TurnsSound(turns), NEW data
  PROVE TakesOver(InterruptTurn(turns, data), turns, data.turn)
<1>1. PICK row : /\ row = TurnRow(turns, data.turn, "interrupted", data.at)
                 /\ TakesOver(row, turns, data.turn)
 BY TurnRowTakesOver DEF TurnStates
<1>2. [row EXCEPT !.state = "interrupted"] =
        [id |-> row.id, pending |-> row.pending, assistant |-> row.assistant,
         state |-> "interrupted", requested |-> row.requested, count |-> row.count,
         status |-> row.status]
 BY <1>1 DEF TakesOver, IsTurn
<1> QED BY <1>1, <1>2 DEF InterruptTurn, TakesOver, IsTurn, TurnStates

(* A checkpoint takes its turn count from any other turn that has it.       *)
LEMMA CheckpointSound ==
  ASSUME NEW turns, TurnsSound(turns), NEW data
  PROVE /\ TurnsSound(Replace(ClearCountConflict(turns, data), CheckpointTurn(turns, data)))
        /\ CheckpointTurn(turns, data).id = data.turn
        /\ IsSettled(CheckpointTurn(turns, data).state)
        /\ \A old \in turns : \E other \in ClearCountConflict(turns, data) :
              other.id = old.id /\ other.state = old.state
<1> DEFINE cleared == ClearCountConflict(turns, data)
           state == IF data.status = "error" THEN "error" ELSE "completed"
           Clear(row) == [id |-> row.id, pending |-> row.pending, assistant |-> row.assistant,
                          state |-> row.state, requested |-> row.requested,
                          count |-> NoCount, status |-> "none"]
<1>1. PICK row : /\ row = TurnRow(turns, data.turn, "completed", data.at)
                 /\ TakesOver(row, turns, data.turn)
 BY TurnRowTakesOver DEF TurnStates
<1>2. PICK new : new = CheckpointTurn(turns, data) OBVIOUS
<1>3. new = [id |-> row.id, pending |-> row.pending, assistant |-> data.assistant,
             state |-> state, requested |-> row.requested, count |-> data.count,
             status |-> data.status]
 <2>1. new = [row EXCEPT !.assistant = data.assistant, !.state = state, !.count = data.count,
                         !.status = data.status]
  BY <1>1, <1>2 DEF CheckpointTurn
 <2> HIDE DEF state
 <2> QED BY <1>1, <2>1 DEF TakesOver, IsTurn
<1>4. IsTurn(new) /\ new.id = data.turn /\ new.count = data.count
 BY <1>1, <1>3 DEF TakesOver, IsTurn, TurnStates
<1>5. \A old \in turns : [old EXCEPT !.count = NoCount, !.status = "none"] = Clear(old)
 BY CountAndStatus DEF TurnsSound
<1>6. cleared = {IF old.count = data.count /\ old.id # data.turn THEN Clear(old) ELSE old
                    : old \in turns}
 <2>1. \A old \in turns :
          (IF old.count = data.count /\ old.id # data.turn
           THEN [old EXCEPT !.count = NoCount, !.status = "none"] ELSE old)
        = (IF old.count = data.count /\ old.id # data.turn THEN Clear(old) ELSE old)
  BY <1>5
 <2> HIDE DEF Clear
 <2> QED BY <2>1 DEF ClearCountConflict
<1>7. \A old \in turns : /\ IsTurn(Clear(old)) /\ Clear(old).id = old.id
                         /\ Clear(old).count = NoCount /\ Clear(old).state = old.state
 BY DEF TurnsSound, IsTurn
<1> HIDE DEF Clear, cleared
<1>8. \A one \in cleared :
         \E old \in turns : /\ one.id = old.id /\ IsTurn(one)
                            /\ one = Clear(old) \/ one = old
                            /\ one.id # data.turn => one.count # data.count \/ one.count = NoCount
                            /\ one.count # NoCount => one = old
 BY <1>6, <1>7 DEF TurnsSound
<1>9. Keyed(cleared) BY <1>6, <1>7 DEF Keyed, TurnsSound
<1>10. \A one \in Replace(cleared, new) : IsTurn(one) BY <1>4, <1>8 DEF Replace
<1>11. Keyed(Replace(cleared, new)) BY <1>9, ReplaceKeyed
<1>12. ASSUME NEW one \in CheckpointRows(Replace(cleared, new)),
              NEW two \in CheckpointRows(Replace(cleared, new)), one.count = two.count
    PROVE  one = two
 <2>1. one.count # NoCount /\ two.count # NoCount BY DEF CheckpointRows
 <2>2. CASE one # new /\ two # new
  BY <1>8, <1>12, <2>1, <2>2 DEF CheckpointRows, Replace, TurnsSound
 <2>3. CASE one = new /\ two # new BY <1>4, <1>8, <1>12, <2>1, <2>3 DEF CheckpointRows, Replace
 <2>4. CASE one # new /\ two = new BY <1>4, <1>8, <1>12, <2>1, <2>4 DEF CheckpointRows, Replace
 <2> QED BY <2>2, <2>3, <2>4
<1>13. TurnsSound(Replace(cleared, new)) BY <1>10, <1>11, <1>12 DEF TurnsSound
<1>14. IsSettled(new.state) BY <1>3 DEF IsSettled
<1>15. \A old \in turns : \E other \in cleared : other.id = old.id /\ other.state = old.state
 BY <1>6, <1>7
<1> QED BY <1>2, <1>4, <1>13, <1>14, <1>15 DEF cleared

(* What the projector of turns does to the turns.                           *)
Starts(event) ==
    /\ event.type = "thread.session-set"
    /\ event.data.session.status = "running" /\ event.data.session.activeTurn # NoTurn
Answers(event) ==
    /\ event.type = "thread.message-sent"
    /\ event.data.turn # NoTurn /\ event.data.role = "assistant"
Interrupts(event) ==
    event.type = "thread.turn-interrupt-requested" /\ event.data.turn # NoTurn
NoTurnChange(event) ==
    /\ event.type \notin {"thread.turn-diff-completed", "thread.reverted",
                          "thread.context-compacted"}
    /\ ~Starts(event) /\ ~Answers(event) /\ ~Interrupts(event)

LEMMA TurnsAfter ==
  ASSUME NEW t, IsTables(t), NEW event
  PROVE LET turns == ApplyTurns(t, event).turns
            data == event.data
        IN  /\ Starts(event) =>
                  turns = Replace(t.turns, StartTurn(t, data.session, data.at))
            /\ Answers(event) => turns = Replace(t.turns, AnswerTurn(t.turns, data))
            /\ Interrupts(event) => turns = Replace(t.turns, InterruptTurn(t.turns, data))
            /\ event.type = "thread.turn-diff-completed" =>
                  turns = Replace(ClearCountConflict(t.turns, data),
                                  CheckpointTurn(t.turns, data))
            /\ event.type = "thread.reverted" => turns = KeptTurns(t.turns, data.turnCount)
            /\ event.type = "thread.context-compacted" => turns = {}
            /\ NoTurnChange(event) => turns = t.turns
<1> DEFINE data == event.data
           u == ApplyTurns(t, event)
<1>1. /\ \A rows : [t EXCEPT !.turns = rows].turns = rows
      /\ \A rows, start : [[t EXCEPT !.turns = rows] EXCEPT !.pendingStart = start].turns = rows
      /\ \A start : [t EXCEPT !.pendingStart = start].turns = t.turns
 <2>1. \A rows, start :
          /\ [t EXCEPT !.turns = rows] =
               [project |-> t.project, messages |-> t.messages, plans |-> t.plans,
                activities |-> t.activities, session |-> t.session, turns |-> rows,
                pendingStart |-> t.pendingStart, approvals |-> t.approvals,
                thread |-> t.thread]
          /\ [t EXCEPT !.pendingStart = start] =
               [project |-> t.project, messages |-> t.messages, plans |-> t.plans,
                activities |-> t.activities, session |-> t.session, turns |-> t.turns,
                pendingStart |-> start, approvals |-> t.approvals, thread |-> t.thread]
  BY DEF IsTables
 <2>2. ASSUME NEW rows, NEW start
     PROVE  [[t EXCEPT !.turns = rows] EXCEPT !.pendingStart = start].turns = rows
  <3>1. PICK s : s = [t EXCEPT !.turns = rows] OBVIOUS
  <3>2. s = [project |-> t.project, messages |-> t.messages, plans |-> t.plans,
             activities |-> t.activities, session |-> t.session, turns |-> rows,
             pendingStart |-> t.pendingStart, approvals |-> t.approvals,
             thread |-> t.thread]
   BY <2>1, <3>1
  <3>3. [s EXCEPT !.pendingStart = start].turns = rows BY <3>2
  <3> QED BY <3>1, <3>3
 <2> QED BY <2>1, <2>2
<1>2. CASE event.type = "thread.turn-start-requested"
 <2>1. u.turns = t.turns BY <1>1, <1>2 DEF ApplyTurns
 <2> QED BY <1>2, <2>1 DEF Starts, Answers, Interrupts
<1>3. CASE Starts(event)
 <2>1. u = [[t EXCEPT !.turns = Replace(t.turns, StartTurn(t, data.session, data.at))]
               EXCEPT !.pendingStart = NoRow]
  BY <1>3 DEF ApplyTurns, Starts
 <2>2. u.turns = Replace(t.turns, StartTurn(t, data.session, data.at)) BY <1>1, <2>1
 <2> QED BY <1>3, <2>2 DEF Starts, Answers, Interrupts, NoTurnChange
<1>4. CASE Answers(event)
 <2>1. u.turns = Replace(t.turns, AnswerTurn(t.turns, data)) BY <1>1, <1>4 DEF ApplyTurns, Answers
 <2> QED BY <1>4, <2>1 DEF Starts, Answers, Interrupts, NoTurnChange
<1>5. CASE Interrupts(event)
 <2>1. u.turns = Replace(t.turns, InterruptTurn(t.turns, data))
  BY <1>1, <1>5 DEF ApplyTurns, Interrupts
 <2> QED BY <1>5, <2>1 DEF Starts, Answers, Interrupts, NoTurnChange
<1>6. CASE event.type = "thread.turn-diff-completed"
 <2>1. u.turns = Replace(ClearCountConflict(t.turns, data), CheckpointTurn(t.turns, data))
  BY <1>1, <1>6 DEF ApplyTurns
 <2> QED BY <1>6, <2>1 DEF Starts, Answers, Interrupts, NoTurnChange
<1>7. CASE event.type = "thread.reverted"
 <2>1. u.turns = KeptTurns(t.turns, data.turnCount) BY <1>1, <1>7 DEF ApplyTurns
 <2> QED BY <1>7, <2>1 DEF Starts, Answers, Interrupts, NoTurnChange
<1>8. CASE event.type = "thread.context-compacted"
 <2>1. u.turns = {} BY <1>1, <1>8 DEF ApplyTurns
 <2> QED BY <1>8, <2>1 DEF Starts, Answers, Interrupts, NoTurnChange
<1>9. CASE NoTurnChange(event) /\ event.type # "thread.turn-start-requested"
 <2>1. u = t BY <1>9 DEF ApplyTurns, NoTurnChange, Starts, Answers, Interrupts
 <2> QED BY <1>9, <2>1 DEF NoTurnChange
<1> QED BY <1>2, <1>3, <1>4, <1>5, <1>6, <1>7, <1>8, <1>9 DEF NoTurnChange

LEMMA TurnsStaySound ==
  ASSUME NEW t, IsTables(t), TurnsSound(t.turns), NEW event
  PROVE TurnsSound(ApplyTurns(t, event).turns)
<1> DEFINE data == event.data
           turns == ApplyTurns(t, event).turns
<1>1. CASE Starts(event)
 <2>1. PICK row : row = StartTurn(t, data.session, data.at) OBVIOUS
 <2>2. TakesOver(row, t.turns, data.session.activeTurn) /\ turns = Replace(t.turns, row)
  BY <1>1, <2>1, TurnsAfter, StartedTakesOver
 <2> QED BY <2>2, ReplaceSound
<1>2. CASE Answers(event) BY <1>2, TurnsAfter, AnsweredTakesOver, ReplaceSound
<1>3. CASE Interrupts(event) BY <1>3, TurnsAfter, InterruptedTakesOver, ReplaceSound
<1>4. CASE event.type = "thread.turn-diff-completed"
 <2>1. turns = Replace(ClearCountConflict(t.turns, data), CheckpointTurn(t.turns, data))
  BY <1>4, TurnsAfter
 <2>2. TurnsSound(Replace(ClearCountConflict(t.turns, data), CheckpointTurn(t.turns, data)))
  BY CheckpointSound
 <2> QED BY <2>1, <2>2
<1>5. CASE event.type = "thread.reverted"
 <2>1. turns = KeptTurns(t.turns, data.turnCount) BY <1>5, TurnsAfter
 <2> QED BY <2>1 DEF KeptTurns, TurnsSound, Keyed, CheckpointRows
<1>6. CASE event.type = "thread.context-compacted"
 <2>1. turns = {} BY <1>6, TurnsAfter
 <2> QED BY <2>1 DEF TurnsSound, Keyed, CheckpointRows
<1>7. CASE NoTurnChange(event) BY <1>7, TurnsAfter
<1> QED BY <1>1, <1>2, <1>3, <1>4, <1>5, <1>6, <1>7 DEF NoTurnChange

(* An event that does not release a settled turn leaves it settled.         *)
LEMMA EventKeepsSettled ==
  ASSUME NEW t, IsTables(t), TurnsSound(t.turns), NEW event,
    NEW row \in t.turns, IsSettled(row.state), ~Releases(event, row.id)
  PROVE \E new \in ApplyTurns(t, event).turns : new.id = row.id /\ IsSettled(new.state)
<1> DEFINE data == event.data
           turns == ApplyTurns(t, event).turns
<1>1. ASSUME NEW id, NEW state, NEW at, id = row.id
    PROVE  TurnRow(t.turns, id, state, at) = row
 <2>1. Known(t.turns, id) BY <1>1 DEF Known
 <2> QED BY <1>1, <2>1, RowOfKnown DEF TurnRow, TurnsSound, Keyed
<1>3. IsTurn(row) BY DEF TurnsSound
<1>4. ASSUME NEW other, turns = Replace(t.turns, other),
             other.id = row.id => IsSettled(other.state)
    PROVE  \E new \in turns : new.id = row.id /\ IsSettled(new.state)
 BY <1>4 DEF Replace
<1>5. CASE Starts(event)
 <2>1. PICK new : new = StartTurn(t, data.session, data.at) OBVIOUS
 <2>2. TakesOver(new, t.turns, data.session.activeTurn) /\ turns = Replace(t.turns, new)
  BY <1>5, <2>1, TurnsAfter, StartedTakesOver
 <2>3. ASSUME data.session.activeTurn = row.id
     PROVE  IsSettled(new.state)
  <3>1. PICK pending : new = [row EXCEPT !.state = row.state, !.pending = pending]
   BY <1>1, <2>1, <2>3 DEF StartTurn
  <3>2. new.state = row.state BY <1>3, <3>1, StateAndPending
  <3> QED BY <3>2
 <2> QED BY <1>4, <2>2, <2>3 DEF TakesOver
<1>6. CASE Answers(event)
 <2>1. PICK new : new = AnswerTurn(t.turns, data) OBVIOUS
 <2>2. TakesOver(new, t.turns, data.turn) /\ turns = Replace(t.turns, new)
  BY <1>6, <2>1, TurnsAfter, AnsweredTakesOver
 <2>3. ASSUME data.turn = row.id
     PROVE  IsSettled(new.state)
  <3>1. PICK state : /\ new = [row EXCEPT !.assistant = data.message, !.state = state]
                     /\ state = CASE data.streaming -> row.state
                                  [] ~data.streaming /\ row.state \in {"interrupted", "error"}
                                        -> row.state
                                  [] OTHER -> "completed"
   BY <1>1, <2>1, <2>3 DEF AnswerTurn
  <3>2. new.state = state BY <1>3, <3>1, AssistantAndState
  <3> QED BY <3>1, <3>2 DEF IsSettled
 <2> QED BY <1>4, <2>2, <2>3 DEF TakesOver
<1>7. CASE Interrupts(event)
 <2>1. PICK new : new = InterruptTurn(t.turns, data) OBVIOUS
 <2>2. TakesOver(new, t.turns, data.turn) /\ turns = Replace(t.turns, new)
  BY <1>7, <2>1, TurnsAfter, InterruptedTakesOver
 <2>3. data.turn # row.id BY <1>7 DEF Releases, Interrupts
 <2> QED BY <1>4, <2>2, <2>3 DEF TakesOver
<1>8. CASE event.type = "thread.turn-diff-completed"
 <2>1. PICK new : new = CheckpointTurn(t.turns, data) OBVIOUS
 <2>2. turns = Replace(ClearCountConflict(t.turns, data), new) BY <1>8, <2>1, TurnsAfter
 <2>3. new.id = data.turn /\ IsSettled(new.state) BY <2>1, CheckpointSound
 <2>4. \E other \in ClearCountConflict(t.turns, data) :
          other.id = row.id /\ other.state = row.state
  BY CheckpointSound
 <2> QED BY <2>2, <2>3, <2>4 DEF Replace
<1>9. CASE NoTurnChange(event) BY <1>9, TurnsAfter
<1> QED BY <1>5, <1>6, <1>7, <1>8, <1>9 DEF NoTurnChange, Releases

--------------------
(* An approval that is resolved stays.                                      *)
LEMMA ApprovalsStaySettled ==
  ASSUME NEW rows, Keyed(rows), NEW event, NEW row \in rows, row.status = "resolved"
  PROVE \E new \in ApplyApprovals(rows, event) : new.id = row.id /\ new.status = "resolved"
<1> DEFINE request == event.data.request
           approval == Approval(rows, event)
<1>1. CASE ApplyApprovals(rows, event) = rows BY <1>1
<1>2. CASE ApplyApprovals(rows, event) = Replace(rows, approval)
 <2>1. ASSUME request = row.id
     PROVE  approval.status = "resolved"
  <3>1. Known(rows, request) /\ RowOf(rows, request) = row BY <2>1, RowOfKnown DEF Known, Keyed
  <3>2. CASE event.type = "thread.activity-appended" /\ event.data.kind # "approval.resolved"
   BY <3>1, <3>2 DEF Approval
  <3>3. CASE ~(event.type = "thread.activity-appended" /\ event.data.kind # "approval.resolved")
   BY <3>3 DEF Approval
  <3> QED BY <3>2, <3>3
 <2>2. approval.id = request BY RowOfKnown DEF Approval
 <2>3. CASE request = row.id BY <1>2, <2>1, <2>2, <2>3 DEF Replace
 <2>4. CASE request # row.id BY <1>2, <2>2, <2>4 DEF Replace
 <2> QED BY <2>3, <2>4
<1> QED BY <1>1, <1>2 DEF ApplyApprovals

(* The keys of all tables.                                                  *)
TablesSound(t) ==
    /\ IsTables(t)
    /\ Keyed(t.messages) /\ Keyed(t.plans) /\ Keyed(t.activities) /\ Keyed(t.approvals)
    /\ TurnsSound(t.turns)

LEMMA EmptySound == TablesSound(EmptyTables)
BY DEF TablesSound, EmptyTables, IsTables, Keyed, TurnsSound, CheckpointRows

LEMMA TurnTablesApply ==
  ASSUME NEW t, IsTables(t), NEW event
  PROVE ApplyTurns(TurnTables(t), event).turns = ApplyTurns(t, event).turns
<1>1. PICK v : v = ApplyTurns(TurnTables(t), event) OBVIOUS
<1>2. ApplyTurns(t, event) = [t EXCEPT !.turns = v.turns, !.pendingStart = v.pendingStart]
 BY <1>1, TurnsAreLocal
<1>3. PICK s : s = [t EXCEPT !.turns = v.turns] OBVIOUS
<1>4. s = [project |-> t.project, messages |-> t.messages, plans |-> t.plans,
           activities |-> t.activities, session |-> t.session, turns |-> v.turns,
           pendingStart |-> t.pendingStart, approvals |-> t.approvals, thread |-> t.thread]
 BY <1>3 DEF IsTables
<1>5. [s EXCEPT !.pendingStart = v.pendingStart].turns = v.turns BY <1>4
<1> QED BY <1>1, <1>2, <1>3, <1>5

LEMMA ApplySound ==
  ASSUME NEW p \in Range(Projectors), NEW t, TablesSound(t), NEW event
  PROVE TablesSound(Apply(p, t, event))
<1> DEFINE u == Apply(p, t, event)
<1>1. IsTables(t) /\ IsTables(u) /\ u = Projected(p, t, event) BY ApplyIsProjected DEF TablesSound
<1>2. /\ u.messages \in {t.messages, ApplyMessages(t.messages, t.turns, event)}
      /\ u.plans \in {t.plans,
                      ApplyEntries(t.plans, t.turns, event, "thread.proposed-plan-upserted")}
      /\ u.activities \in {t.activities,
                      ApplyEntries(t.activities, t.turns, event, "thread.activity-appended")}
      /\ u.approvals \in {t.approvals, ApplyApprovals(t.approvals, event)}
      /\ u.turns \in {t.turns, ApplyTurns(t, event).turns}
 BY <1>1, TurnTablesApply DEF Projected
<1>3. Keyed(u.messages) /\ Keyed(u.approvals)
 BY <1>2, MessagesKeyed, ApprovalsKeyed DEF TablesSound
<1>4. Keyed(u.plans) /\ Keyed(u.activities) BY <1>2, EntriesKeyed DEF TablesSound
<1>5. TurnsSound(u.turns) BY <1>1, <1>2, TurnsStaySound DEF TablesSound
<1> QED BY <1>1, <1>3, <1>4, <1>5 DEF TablesSound

LEMMA ApplyAllSound ==
  ASSUME NEW t, TablesSound(t), NEW event PROVE TablesSound(ApplyAll(t, event))
<1> DEFINE u == ApplyAll(t, event)
<1>1. IsTables(t) /\ IsTables(u) /\ u = AllProjected(t, event)
 BY ApplyAllIsProjected DEF TablesSound
<1>2. /\ u.messages = ApplyMessages(t.messages, t.turns, event)
      /\ u.plans = ApplyEntries(t.plans, t.turns, event, "thread.proposed-plan-upserted")
      /\ u.activities = ApplyEntries(t.activities, t.turns, event, "thread.activity-appended")
      /\ u.approvals = ApplyApprovals(t.approvals, event)
      /\ u.turns = ApplyTurns(t, event).turns
 BY <1>1, TurnTablesApply DEF AllProjected
<1>3. Keyed(u.messages) /\ Keyed(u.approvals)
 BY <1>2, MessagesKeyed, ApprovalsKeyed DEF TablesSound
<1>4. Keyed(u.plans) /\ Keyed(u.activities) BY <1>2, EntriesKeyed DEF TablesSound
<1>5. TurnsSound(u.turns) BY <1>1, <1>2, TurnsStaySound DEF TablesSound
<1> QED BY <1>1, <1>3, <1>4, <1>5 DEF TablesSound

--------------------
(* What is settled stays settled, from some tables to those after an event. *)
KeepsSettled(t, u, event) ==
    /\ \A row \in t.turns : IsSettled(row.state) /\ ~Releases(event, row.id) =>
          \E new \in u.turns : new.id = row.id /\ IsSettled(new.state)
    /\ \A row \in t.approvals : row.status = "resolved" =>
          \E new \in u.approvals : new.id = row.id /\ new.status = "resolved"

LEMMA ApplyAllKeepsSettled ==
  ASSUME NEW t, TablesSound(t), NEW event PROVE KeepsSettled(t, ApplyAll(t, event), event)
<1> DEFINE u == ApplyAll(t, event)
<1>1. IsTables(t) /\ u = AllProjected(t, event) BY ApplyAllIsProjected DEF TablesSound
<1>2. u.approvals = ApplyApprovals(t.approvals, event) /\ u.turns = ApplyTurns(t, event).turns
 BY <1>1, TurnTablesApply DEF AllProjected
<1> QED BY <1>2, EventKeepsSettled, ApprovalsStaySettled DEF KeepsSettled, TablesSound

(* A command has one event, or two.                                         *)
LEMMA EventsOfCommand ==
  ASSUME NEW command, NEW events, events = EventsOf(command)
  PROVE /\ Len(events) \in {1, 2}
        /\ events \in Seq({events[1], events[Len(events)]})
<1>1. CASE command.type = "thread.turn.start" BY <1>1 DEF EventsOf, EventBase, MessageSent
<1>2. CASE command.type # "thread.turn.start" BY <1>2 DEF EventsOf
<1> QED BY <1>1, <1>2

LEMMA ApplyEventsSound ==
  ASSUME NEW t, TablesSound(t), NEW command PROVE TablesSound(ApplyEvents(t, EventsOf(command)))
<1> DEFINE events == EventsOf(command)
           first == ApplyAll(t, events[1])
           second == ApplyAll(first, events[2])
<1>1. Len(events) \in {1, 2} BY EventsOfCommand
<1>2. ApplyEvents(t, events) = IF Len(events) = 1 THEN first ELSE second
 BY <1>1, ApplyEventsUnfolds
<1>3. TablesSound(first) /\ TablesSound(second) BY ApplyAllSound
<1> QED BY <1>1, <1>2, <1>3

--------------------
(* The replay of one event into one projector.                              *)
Writers == Range(Projectors) \ {"checkpoints"}

LEMMA ProjectorNames ==
  Range(Projectors) = {"projects", "threadMessages", "threadProposedPlans",
                       "threadActivities", "threadSessions", "threadTurns", "checkpoints",
                       "pendingApprovals", "threads"}
BY DEF Range, Projectors

LEMMA ProjectorIndices ==
  /\ Len(Projectors) = 9 /\ DOMAIN Projectors = 1 .. 9
  /\ \A p \in Range(Projectors) : \E i \in 1 .. 9 : p = Projectors[i]
  /\ \A i \in 1 .. 9 : Projectors[i] \in Range(Projectors)
BY DEF Range, Projectors

LEMMA SameWritten ==
  ASSUME NEW t, IsTables(t), NEW u, IsTables(u),
    \A p \in Writers : Written(p, t) = Written(p, u)
  PROVE t = u
<1>1. {"projects", "threadMessages", "threadProposedPlans", "threadActivities",
       "threadSessions", "threadTurns", "pendingApprovals", "threads"} \subseteq Writers
 BY ProjectorNames DEF Writers
<1>2. /\ t.project = u.project /\ t.messages = u.messages /\ t.plans = u.plans
      /\ t.activities = u.activities /\ t.session = u.session /\ t.approvals = u.approvals
      /\ t.thread = u.thread /\ <<t.turns, t.pendingStart>> = <<u.turns, u.pendingStart>>
 BY <1>1 DEF Written
<1>3. t.turns = u.turns /\ t.pendingStart = u.pendingStart BY <1>2
<1> QED BY <1>2, <1>3 DEF IsTables

(* But for a revert, a projector writes what it would have written live, if *)
(* its tables are what they were live: it reads no tables of another.       *)
LEMMA ReplayAgrees ==
  ASSUME NEW p \in Writers, NEW t, IsTables(t), NEW u, IsTables(u), NEW event,
    event.type # "thread.reverted", Written(p, t) = Written(p, u)
  PROVE Written(p, Apply(p, t, event)) = Written(p, ApplyAll(u, event))
<1> DEFINE v == Apply(p, t, event)
           w == ApplyAll(u, event)
<1>1. v = Projected(p, t, event) /\ w = AllProjected(u, event)
 BY ApplyIsProjected, ApplyAllIsProjected DEF Writers
<1>2. /\ \A rows, one, two : ApplyMessages(rows, one, event) = ApplyMessages(rows, two, event)
      /\ \A rows, one, two, appended :
            ApplyEntries(rows, one, event, appended) = ApplyEntries(rows, two, event, appended)
 BY DEF ApplyMessages, ApplyEntries
<1>3. /\ w.project = ApplyProjects(u.project, event)
      /\ w.messages = ApplyMessages(u.messages, u.turns, event)
      /\ w.plans = ApplyEntries(u.plans, u.turns, event, "thread.proposed-plan-upserted")
      /\ w.activities = ApplyEntries(u.activities, u.turns, event, "thread.activity-appended")
      /\ w.session = ApplySession(u.session, event)
      /\ w.turns = ApplyTurns(TurnTables(u), event).turns
      /\ w.pendingStart = ApplyTurns(TurnTables(u), event).pendingStart
      /\ w.approvals = ApplyApprovals(u.approvals, event)
      /\ w.thread = ApplyThreads(u.thread, event)
 BY <1>1 DEF AllProjected
<1> HIDE DEF v, w
<1>4. CASE p = "projects"
 <2>1. t.project = u.project BY <1>4 DEF Written
 <2>2. v.project = ApplyProjects(t.project, event) BY <1>1, <1>4 DEF Projected
 <2>3. v.project = w.project BY <1>3, <2>1, <2>2
 <2> QED BY <1>4, <2>3 DEF Written, v, w
<1>5. CASE p = "threadMessages"
 <2>1. t.messages = u.messages BY <1>5 DEF Written
 <2>2. v.messages = ApplyMessages(t.messages, t.turns, event) BY <1>1, <1>5 DEF Projected
 <2>3. v.messages = w.messages BY <1>2, <1>3, <2>1, <2>2
 <2> QED BY <1>5, <2>3 DEF Written, v, w
<1>6. CASE p = "threadProposedPlans"
 <2>1. t.plans = u.plans BY <1>6 DEF Written
 <2>2. v.plans = ApplyEntries(t.plans, t.turns, event, "thread.proposed-plan-upserted")
  BY <1>1, <1>6 DEF Projected
 <2>3. v.plans = w.plans BY <1>2, <1>3, <2>1, <2>2
 <2> QED BY <1>6, <2>3 DEF Written, v, w
<1>7. CASE p = "threadActivities"
 <2>1. t.activities = u.activities BY <1>7 DEF Written
 <2>2. v.activities = ApplyEntries(t.activities, t.turns, event, "thread.activity-appended")
  BY <1>1, <1>7 DEF Projected
 <2>3. v.activities = w.activities BY <1>2, <1>3, <2>1, <2>2
 <2> QED BY <1>7, <2>3 DEF Written, v, w
<1>8. CASE p = "threadSessions"
 <2>1. t.session = u.session BY <1>8 DEF Written
 <2>2. v.session = ApplySession(t.session, event) BY <1>1, <1>8 DEF Projected
 <2>3. v.session = w.session BY <1>3, <2>1, <2>2
 <2> QED BY <1>8, <2>3 DEF Written, v, w
<1>9. CASE p = "threadTurns"
 <2>1. t.turns = u.turns /\ t.pendingStart = u.pendingStart BY <1>9 DEF Written
 <2>2. TurnTables(t) = TurnTables(u) BY <2>1 DEF TurnTables
 <2>3. /\ v.turns = ApplyTurns(TurnTables(t), event).turns
       /\ v.pendingStart = ApplyTurns(TurnTables(t), event).pendingStart
  BY <1>1, <1>9 DEF Projected
 <2>4. v.turns = w.turns /\ v.pendingStart = w.pendingStart BY <1>3, <2>2, <2>3
 <2> QED BY <1>9, <2>4 DEF Written, v, w
<1>10. CASE p = "pendingApprovals"
 <2>1. t.approvals = u.approvals BY <1>10 DEF Written
 <2>2. v.approvals = ApplyApprovals(t.approvals, event) BY <1>1, <1>10 DEF Projected
 <2>3. v.approvals = w.approvals BY <1>3, <2>1, <2>2
 <2> QED BY <1>10, <2>3 DEF Written, v, w
<1>11. CASE p = "threads"
 <2>1. t.thread = u.thread BY <1>11 DEF Written
 <2>2. v.thread = ApplyThreads(t.thread, event) BY <1>1, <1>11 DEF Projected
 <2>3. v.thread = w.thread BY <1>3, <2>1, <2>2
 <2> QED BY <1>11, <2>3 DEF Written, v, w
<1> QED BY <1>4, <1>5, <1>6, <1>7, <1>8, <1>9, <1>10, <1>11, ProjectorNames DEF Writers

LEMMA OthersUnwritten ==
  ASSUME NEW p \in Range(Projectors), NEW q \in Writers, q # p, NEW t, IsTables(t), NEW event
  PROVE Written(q, Apply(p, t, event)) = Written(q, t)
<1>1. Apply(p, t, event) = Projected(p, t, event) BY ApplyIsProjected
<1>2. PICK v : v = Projected(p, t, event) OBVIOUS
<1>3. /\ q = "projects" => v.project = t.project
      /\ q = "threadMessages" => v.messages = t.messages
      /\ q = "threadProposedPlans" => v.plans = t.plans
      /\ q = "threadActivities" => v.activities = t.activities
      /\ q = "threadSessions" => v.session = t.session
      /\ q = "threadTurns" => v.turns = t.turns /\ v.pendingStart = t.pendingStart
      /\ q = "pendingApprovals" => v.approvals = t.approvals
      /\ q = "threads" => v.thread = t.thread
 BY <1>2 DEF Projected
<1>4. Written(q, v) = Written(q, t) BY <1>3, ProjectorNames DEF Written, Writers
<1> QED BY <1>1, <1>2, <1>4

--------------------
(* The inductive invariants.                                                *)
TypeInv ==
    /\ TablesSound(tables)
    /\ \E S : log \in Seq(S)
    /\ cursor \in [Range(Projectors) -> 0 .. Len(log)]
    /\ phase \in {"down", "bootstrap", "running"}
    /\ stage \in 1 .. 9
    /\ unread \in 0 .. ReadLimit

(* past is what a server that never stopped has after each event.           *)
PastInv ==
    /\ DOMAIN past = 0 .. Len(log)
    /\ past[0] = Nothing
    /\ \A n \in 0 .. Len(log) : TablesSound(past[n].tables)
    /\ \A n \in 1 .. Len(log) : past[n].tables = ApplyAll(past[n - 1].tables, log[n])

CursorInv ==
    \A p \in Writers : Written(p, tables) = Written(p, past[cursor[p]].tables)

CaughtUp == \A p \in Range(Projectors) : cursor[p] = Len(log)

(* What is left to replay can be replayed, in one read of each projector.   *)
BootInv ==
    /\ CaughtUp \/ (Len(log) <= ReadLimit /\ ~HasRevert)
    /\ phase = "running" => CaughtUp
    /\ phase = "bootstrap" =>
          /\ \A i \in 1 .. (stage - 1) : cursor[Projectors[i]] = Len(log)
          /\ cursor[Projectors[stage]] + unread >= Len(log)

PipelineInv == TypeInv /\ PastInv /\ CursorInv /\ BootInv

--------------------
LEMMA TypeInit ==
  ASSUME Init PROVE TypeInv
<1>1. PICK history \in Histories : log = history.log BY DEF Init
<1>2. log \in Seq(Range(log)) BY <1>1, PipelineAssumption
<1>3. Len(log) \in Nat /\ 0 \in 0 .. Len(log) BY <1>2
<1>4. cursor \in [Range(Projectors) -> 0 .. Len(log)] BY <1>3 DEF Init
<1>5. unread \in 0 .. ReadLimit BY PipelineAssumption DEF Init
<1> QED BY <1>2, <1>4, <1>5, EmptySound DEF Init, TypeInv

LEMMA DispatchExtends ==
  ASSUME TypeInv, NEW command, Dispatch(command)
  PROVE LET events == EventsOf(command)
        IN  /\ log' = log \o events /\ tables' = ApplyEvents(tables, events)
            /\ \E S : log' \in Seq(S)
            /\ Len(events) \in {1, 2}
            /\ Len(log) \in Nat /\ Len(log') = Len(log) + Len(events)
            /\ \A n \in 1 .. Len(log) : log'[n] = log[n]
            /\ \A k \in 1 .. Len(events) : log'[Len(log) + k] = events[k]
<1> DEFINE events == EventsOf(command)
<1>1. log' = log \o events /\ tables' = ApplyEvents(tables, events) BY DEF Dispatch, Decide
<1>2. Len(events) \in {1, 2} /\ events \in Seq({events[1], events[Len(events)]})
 BY EventsOfCommand
<1>3. PICK S : log \in Seq(S) BY DEF TypeInv
<1> DEFINE T == S \cup {events[1], events[Len(events)]}
<1> HIDE DEF events
<1>4. log \in Seq(T) /\ events \in Seq(T)
 <2>1. S \subseteq T /\ {events[1], events[Len(events)]} \subseteq T OBVIOUS
 <2> HIDE DEF T
 <2> QED BY <1>2, <1>3, <2>1
<1>5. log' \in Seq(T)
 <2> HIDE DEF T
 <2> QED BY <1>1, <1>4
<1>6. /\ Len(log) \in Nat /\ Len(log') = Len(log) + Len(events)
      /\ \A n \in 1 .. Len(log) : log'[n] = log[n]
      /\ \A k \in 1 .. Len(events) : log'[Len(log) + k] = events[k]
 <2> HIDE DEF T
 <2> QED BY <1>1, <1>2, <1>4
<1> QED BY <1>1, <1>2, <1>5, <1>6 DEF events

LEMMA TypeStep ==
  ASSUME TypeInv, [Next]_vars PROVE TypeInv'
<1> USE PipelineAssumption DEF TypeInv
<1>1. Len(log) \in Nat OBVIOUS
<1>2. ASSUME UNCHANGED <<log, tables, cursor>>, phase' \in {"down", "bootstrap", "running"},
             stage' \in 1 .. 9, unread' \in 0 .. ReadLimit
    PROVE  TypeInv'
 BY <1>2
<1>3. CASE StartBootstrap BY <1>2, <1>3 DEF StartBootstrap
<1>4. CASE ReplayEvent
 <2> DEFINE p == Projectors[stage]
            next == cursor[p] + 1
 <2>1. p \in Range(Projectors) /\ cursor[p] \in 0 .. Len(log) BY ProjectorIndices
 <2>2. /\ tables' = Apply(p, tables, log[next]) /\ next <= Len(log) /\ unread > 0
       /\ cursor' = [cursor EXCEPT ![p] = next] /\ unread' = unread - 1
       /\ UNCHANGED <<log, phase, stage>>
  BY <1>4 DEF ReplayEvent
 <2>3. TablesSound(tables') BY <2>1, <2>2, ApplySound
 <2>4. cursor' \in [Range(Projectors) -> 0 .. Len(log)] /\ unread' \in 0 .. ReadLimit
  BY <1>1, <2>1, <2>2
 <2> QED BY <2>2, <2>3, <2>4
<1>5. CASE EndReplay
 <2>1. \/ phase' = "running" /\ unread' = 0 /\ stage' = stage
       \/ stage # 9 /\ stage' = stage + 1 /\ unread' = ReadLimit /\ phase' = phase
  BY <1>5, ProjectorIndices DEF EndReplay
 <2> QED BY <1>2, <1>5, <2>1 DEF EndReplay
<1>6. CASE Scripted
 <2>1. PICK command : Dispatch(command) BY <1>6 DEF Scripted
 <2>2. TablesSound(tables') /\ Len(log') \in Nat
       /\ \E S : log' \in Seq(S)
  BY <2>1, DispatchExtends, ApplyEventsSound
 <2>3. cursor' \in [Range(Projectors) -> 0 .. Len(log')] BY <2>1, <2>2 DEF Dispatch
 <2> QED BY <2>1, <2>2, <2>3 DEF Dispatch
<1>7. CASE Crash BY <1>2, <1>7 DEF Crash
<1>8. CASE UNCHANGED vars BY <1>2, <1>8 DEF vars
<1> QED BY <1>3, <1>4, <1>5, <1>6, <1>7, <1>8 DEF Next

LEMMA TypeAlways == Spec => []TypeInv
<1>1. Init => TypeInv BY TypeInit
<1>2. TypeInv /\ [Next]_vars => TypeInv' BY TypeStep
<1> QED BY <1>1, <1>2, PTL DEF Spec

--------------------
LEMMA PastSound ==
  ASSUME NEW after, NEW length \in Nat, TablesSound(after[0].tables), NEW events,
    \A n \in 1 .. length : after[n].tables = ApplyAll(after[n - 1].tables, events[n])
  PROVE \A n \in 0 .. length : TablesSound(after[n].tables)
<1> DEFINE S == {n \in Nat : n <= length => TablesSound(after[n].tables)}
<1>1. 0 \in S OBVIOUS
<1>2. ASSUME NEW n \in Nat, n \in S, n + 1 <= length
    PROVE  TablesSound(after[n + 1].tables)
 <2>1. TablesSound(after[n].tables) BY <1>2
 <2>2. after[n + 1].tables = ApplyAll(after[n].tables, events[n + 1])
  <3>1. n + 1 \in 1 .. length /\ (n + 1) - 1 = n BY <1>2
  <3> QED BY <3>1
 <2> QED BY <2>1, <2>2, ApplyAllSound
<1>3. \A n \in Nat : n \in S => n + 1 \in S BY <1>2
<1>4. Nat \subseteq S
 <2> HIDE DEF S
 <2> QED BY <1>1, <1>3, SetInduction
<1> QED BY <1>4

LEMMA PastInit ==
  ASSUME Init PROVE PastInv
<1> DEFINE known == [n \in {0} |-> Nothing]
<1>1. Len(log) \in Nat BY TypeInit DEF TypeInv
<1>2. DOMAIN known = {0} /\ known[0] = Nothing OBVIOUS
<1>3. Follows(past, known, log) BY <1>1, <1>2, FollowingUnfolds DEF Init
<1> HIDE DEF known
<1>4. /\ DOMAIN past = 0 .. Len(log) /\ past[0] = Nothing
      /\ \A n \in 1 .. Len(log) : past[n].tables = ApplyAll(past[n - 1].tables, log[n])
 BY <1>1, <1>2, <1>3 DEF Follows
<1>5. TablesSound(past[0].tables) BY <1>4, EmptySound DEF Nothing
<1> QED BY <1>1, <1>4, <1>5, PastSound DEF PastInv

LEMMA ExactInit ==
  ASSUME ReplayableHistories, Init PROVE CursorInv /\ BootInv
<1>1. \A p \in Range(Projectors) : cursor[p] = 0 BY DEF Init
<1>2. CursorInv BY <1>1, PastInit DEF CursorInv, PastInv, Nothing, Init, Writers
<1>3. Len(log) <= ReadLimit /\ ~HasRevert /\ phase = "down"
 BY DEF ReplayableHistories, Init, HasRevert
<1> QED BY <1>2, <1>3 DEF BootInv

LEMMA CaughtUpTables ==
  ASSUME TypeInv, PastInv, CursorInv, CaughtUp PROVE tables = past[Len(log)].tables
<1>1. Len(log) \in 0 .. Len(log) BY DEF TypeInv
<1>2. IsTables(tables) /\ IsTables(past[Len(log)].tables)
 BY <1>1 DEF TypeInv, PastInv, TablesSound
<1>3. \A p \in Writers : Written(p, tables) = Written(p, past[Len(log)].tables)
 BY DEF CursorInv, CaughtUp, Writers
<1> QED BY <1>2, <1>3, SameWritten

LEMMA DispatchExact ==
  ASSUME PipelineInv, NEW command, Dispatch(command) PROVE PastInv' /\ CursorInv' /\ BootInv'
<1> DEFINE events == EventsOf(command)
<1>1. /\ log' = log \o events /\ tables' = ApplyEvents(tables, events)
      /\ Len(events) \in {1, 2} /\ Len(log) \in Nat /\ Len(log') = Len(log) + Len(events)
      /\ \A n \in 1 .. Len(log) : log'[n] = log[n]
      /\ \A k \in 1 .. Len(events) : log'[Len(log) + k] = events[k]
 BY DispatchExtends DEF PipelineInv
<1>2. ApplyEvents(tables, events) =
        IF Len(events) = 1 THEN ApplyAll(tables, events[1])
        ELSE ApplyAll(ApplyAll(tables, events[1]), events[2])
 BY <1>1, ApplyEventsUnfolds
<1>3. tables = past[Len(log)].tables /\ DOMAIN past = 0 .. Len(log)
 BY CaughtUpTables DEF PipelineInv, BootInv, PastInv, Dispatch
<1> HIDE DEF events
<1>4. past' = Following(past, log') /\ \A p \in Range(Projectors) : cursor'[p] = Len(log')
 BY DEF Dispatch, PipelineInv, TypeInv
<1>5. Follows(past', past, log') BY <1>1, <1>3, <1>4, FollowingUnfolds
<1>6. /\ DOMAIN past' = 0 .. Len(log')
      /\ \A n \in 0 .. Len(log) : past'[n] = past[n]
      /\ \A n \in (Len(log) + 1) .. Len(log') :
            past'[n].tables = ApplyAll(past'[n - 1].tables, log'[n])
 <2>1. DOMAIN past' = 0 .. Len(log') BY <1>5 DEF Follows
 <2>2. \A n \in 0 .. Len(log) : n \in DOMAIN past \cap 0 .. Len(log') BY <1>1, <1>3
 <2>3. \A n \in 0 .. Len(log) : past'[n] = past[n] BY <1>5, <2>2 DEF Follows
 <2>4. \A n \in (Len(log) + 1) .. Len(log') : n \in (1 .. Len(log')) \ DOMAIN past BY <1>1, <1>3
 <2>5. \A n \in (Len(log) + 1) .. Len(log') :
          past'[n].tables = ApplyAll(past'[n - 1].tables, log'[n])
  BY <1>5, <2>4 DEF Follows
 <2> QED BY <2>1, <2>3, <2>5
<1>7. \A n \in 1 .. Len(log') : past'[n].tables = ApplyAll(past'[n - 1].tables, log'[n])
 <2>1. \A n \in 1 .. Len(log) : past'[n].tables = ApplyAll(past'[n - 1].tables, log'[n])
  BY <1>1, <1>6 DEF PipelineInv, PastInv
 <2> QED BY <1>1, <1>6, <2>1
<1>8. past'[0] = Nothing /\ TablesSound(past'[0].tables)
 BY <1>1, <1>6, EmptySound DEF PipelineInv, PastInv, Nothing
<1>9. PastInv'
 <2>1. Len(log') \in Nat BY <1>1
 <2>2. \A n \in 0 .. Len(log') : TablesSound(past'[n].tables) BY <1>7, <1>8, <2>1, PastSound
 <2> QED BY <1>6, <1>7, <1>8, <2>2 DEF PastInv
<1>10. tables' = past'[Len(log')].tables
 <2>1. past'[Len(log) + 1].tables = ApplyAll(tables, events[1])
  <3>1. /\ Len(log) + 1 \in (Len(log) + 1) .. Len(log') /\ (Len(log) + 1) - 1 = Len(log)
        /\ Len(log) \in 0 .. Len(log) /\ 1 \in 1 .. Len(events)
   <4>1. Len(log) \in Nat /\ Len(events) \in {1, 2} /\ Len(log') = Len(log) + Len(events) BY <1>1
   <4> QED BY <4>1
  <3>2. past'[Len(log) + 1].tables =
           ApplyAll(past'[(Len(log) + 1) - 1].tables, log'[Len(log) + 1])
   BY <1>6, <3>1
  <3>3. log'[Len(log) + 1] = events[1] BY <1>1, <3>1
  <3>4. past'[(Len(log) + 1) - 1].tables = tables BY <1>3, <1>6, <3>1
  <3> QED BY <3>2, <3>3, <3>4
 <2>2. CASE Len(events) = 1 BY <1>1, <1>2, <2>1, <2>2
 <2>3. CASE Len(events) = 2
  <3>1. past'[Len(log) + 2].tables = ApplyAll(past'[Len(log) + 1].tables, log'[Len(log) + 2])
   BY <1>1, <1>6, <2>3
  <3> QED BY <1>1, <1>2, <2>1, <2>3, <3>1
 <2> QED BY <1>1, <2>2, <2>3
<1>11. CursorInv' BY <1>4, <1>10 DEF CursorInv, Writers
<1>12. BootInv'
 <2>1. CaughtUp' /\ phase' = "running" BY <1>4 DEF CaughtUp, Dispatch
 <2> QED BY <2>1 DEF BootInv
<1> QED BY <1>9, <1>11, <1>12

LEMMA ReplayExact ==
  ASSUME PipelineInv, ReplayEvent PROVE CursorInv' /\ BootInv'
<1> USE DEF PipelineInv, TypeInv
<1> DEFINE p == Projectors[stage]
           next == cursor[p] + 1
<1>1. /\ p \in Range(Projectors) /\ cursor[p] \in 0 .. Len(log) /\ Len(log) \in Nat
 <2>1. p \in Range(Projectors) BY ProjectorIndices
 <2>2. cursor[p] \in 0 .. Len(log) BY <2>1
 <2> QED BY <2>1, <2>2
<1>2. /\ phase = "bootstrap" /\ tables' = Apply(p, tables, log[next])
      /\ cursor' = [cursor EXCEPT ![p] = next] /\ unread' = unread - 1 /\ unread > 0
      /\ next \in 1 .. Len(log) /\ UNCHANGED <<log, phase, stage, past>>
 BY <1>1 DEF ReplayEvent
<1>3. ~CaughtUp /\ Len(log) <= ReadLimit /\ ~HasRevert
 <2>1. cursor[p] # Len(log) BY <1>1, <1>2
 <2> QED BY <1>1, <2>1 DEF BootInv, CaughtUp
<1>4. log[next].type # "thread.reverted"
 <2>1. next \in DOMAIN log BY <1>2
 <2> QED BY <1>3, <2>1 DEF HasRevert
<1>5. /\ cursor'[p] = next
      /\ \A q \in Range(Projectors) : q # p => cursor'[q] = cursor[q]
 BY <1>1, <1>2
<1> HIDE DEF p, next
<1>6. ASSUME NEW q \in Writers
    PROVE  Written(q, tables') = Written(q, past[cursor'[q]].tables)
 <2>1. IsTables(tables) /\ q \in Range(Projectors) /\ cursor[q] \in 0 .. Len(log)
  BY DEF TablesSound, Writers
 <2>2. Written(q, tables) = Written(q, past[cursor[q]].tables) BY <1>6 DEF CursorInv
 <2>3. CASE q = p
  <3>1. IsTables(past[cursor[p]].tables) BY <1>1 DEF PastInv, TablesSound
  <3>2. past[next].tables = ApplyAll(past[cursor[p]].tables, log[next])
   BY <1>1, <1>2 DEF PastInv, next
  <3> QED BY <1>2, <1>4, <1>5, <1>6, <2>1, <2>2, <2>3, <3>1, <3>2, ReplayAgrees
 <2>4. CASE q # p
  <3>1. Written(q, Apply(p, tables, log[next])) = Written(q, tables)
   BY <1>1, <2>1, <2>4, OthersUnwritten
  <3> QED BY <1>2, <1>5, <2>1, <2>2, <2>4, <3>1
 <2> QED BY <2>3, <2>4
<1>7. CursorInv' BY <1>2, <1>6 DEF CursorInv
<1>8. \A i \in 1 .. (stage - 1) : cursor'[Projectors[i]] = Len(log)
 <2>1. \A i \in 1 .. (stage - 1) : cursor[Projectors[i]] = Len(log) BY <1>2 DEF BootInv
 <2>2. ASSUME NEW i \in 1 .. (stage - 1)
     PROVE  Projectors[i] \in Range(Projectors)
  <3>1. i \in 1 .. 9 OBVIOUS
  <3> QED BY <3>1, ProjectorIndices
 <2>3. cursor[p] # Len(log) BY <1>1, <1>2 DEF next
 <2> QED BY <1>5, <2>1, <2>2, <2>3
<1>9. cursor'[p] + unread' >= Len(log)
 <2>1. cursor[p] + unread >= Len(log) BY <1>2 DEF BootInv, p
 <2> QED BY <1>1, <1>2, <1>5, <2>1 DEF next
<1>10. BootInv' BY <1>2, <1>3, <1>8, <1>9 DEF BootInv, HasRevert, p
<1> QED BY <1>7, <1>10

LEMMA ExactStep ==
  ASSUME PipelineInv, [Next]_vars PROVE PastInv' /\ CursorInv' /\ BootInv'
<1> USE PipelineAssumption DEF PipelineInv
<1>1. Len(log) \in Nat /\ \A p \in Range(Projectors) : cursor[p] \in 0 .. Len(log) BY DEF TypeInv
<1>2. \A i \in 1 .. 9 : /\ cursor[Projectors[i]] \in 0 .. Len(log)
                        /\ cursor[Projectors[i]] + ReadLimit >= Len(log)
 <2> SUFFICES ASSUME NEW i \in 1 .. 9
     PROVE  /\ cursor[Projectors[i]] \in 0 .. Len(log)
            /\ cursor[Projectors[i]] + ReadLimit >= Len(log)
  OBVIOUS
 <2>1. Projectors[i] \in Range(Projectors) BY ProjectorIndices
 <2>2. cursor[Projectors[i]] \in 0 .. Len(log) BY <1>1, <2>1
 <2>3. cursor[Projectors[i]] = Len(log) \/ Len(log) <= ReadLimit BY <2>1 DEF BootInv, CaughtUp
 <2> QED BY <1>1, <2>2, <2>3
<1>3. ASSUME UNCHANGED <<log, tables, cursor, past>>
    PROVE  PastInv' /\ CursorInv' /\ HasRevert' = HasRevert /\ CaughtUp' = CaughtUp
 BY <1>3 DEF PastInv, CursorInv, HasRevert, CaughtUp
<1>4. CASE StartBootstrap
 <2>1. cursor[Projectors[1]] + ReadLimit >= Len(log) BY <1>2
 <2>2. UNCHANGED <<log, tables, cursor, past>> /\ phase' = "bootstrap" /\ stage' = 1
       /\ unread' = ReadLimit
  BY <1>4 DEF StartBootstrap
 <2>3. BootInv' BY <1>3, <2>1, <2>2 DEF BootInv
 <2> QED BY <1>3, <2>2, <2>3
<1>5. CASE ReplayEvent
 <2>1. PastInv' BY <1>5 DEF ReplayEvent, PastInv
 <2> QED BY <1>5, <2>1, ReplayExact
<1>6. CASE EndReplay
 <2>1. UNCHANGED <<log, tables, cursor, past>> /\ phase = "bootstrap" /\ stage \in 1 .. 9
  BY <1>6 DEF EndReplay, TypeInv
 <2>2. \A i \in 1 .. stage : cursor[Projectors[i]] = Len(log)
  <3>1. unread = 0 \/ cursor[Projectors[stage]] = Len(log) BY <1>6 DEF EndReplay
  <3>2. cursor[Projectors[stage]] + unread >= Len(log) BY <2>1 DEF BootInv
  <3>3. cursor[Projectors[stage]] \in 0 .. Len(log) BY <1>2, <2>1
  <3>4. cursor[Projectors[stage]] = Len(log) BY <1>1, <3>1, <3>2, <3>3
  <3>5. \A i \in 1 .. (stage - 1) : cursor[Projectors[i]] = Len(log) BY <2>1 DEF BootInv
  <3> QED BY <2>1, <3>4, <3>5
 <2>3. CASE stage = 9
  <3>1. phase' = "running" /\ stage' = stage BY <1>6, <2>3, ProjectorIndices DEF EndReplay
  <3>2. CaughtUp BY <2>2, <2>3, ProjectorIndices DEF CaughtUp
  <3> QED BY <1>3, <2>1, <3>1, <3>2 DEF BootInv
 <2>4. CASE stage # 9
  <3>1. phase' = "bootstrap" /\ stage' = stage + 1 /\ unread' = ReadLimit
   BY <1>6, <2>1, <2>4, ProjectorIndices DEF EndReplay
  <3>2. stage + 1 \in 1 .. 9 BY <2>1, <2>4
  <3>3. cursor[Projectors[stage + 1]] + ReadLimit >= Len(log) BY <1>2, <3>2
  <3>4. \A i \in 1 .. (stage' - 1) : cursor[Projectors[i]] = Len(log) BY <2>1, <2>2, <3>1
  <3> QED BY <1>3, <2>1, <3>1, <3>3, <3>4 DEF BootInv
 <2> QED BY <2>3, <2>4
<1>7. CASE Scripted
 <2>1. PICK command : Dispatch(command) BY <1>7 DEF Scripted
 <2> QED BY <2>1, DispatchExact
<1>8. CASE Crash
 <2>1. UNCHANGED <<log, tables, cursor, past>> /\ phase' = "down" BY <1>8 DEF Crash
 <2> QED BY <1>3, <2>1 DEF BootInv
<1>9. CASE UNCHANGED vars
 <2>1. UNCHANGED <<log, tables, cursor, past, phase, stage, unread>> BY <1>9 DEF vars
 <2> QED BY <1>3, <2>1 DEF BootInv
<1> QED BY <1>4, <1>5, <1>6, <1>7, <1>8, <1>9 DEF Next

LEMMA PipelineAlways ==
  ASSUME ReplayableHistories PROVE Spec => []PipelineInv
<1>1. Init => PipelineInv BY TypeInit, PastInit, ExactInit DEF PipelineInv
<1>2. PipelineInv /\ [Next]_vars => PipelineInv' BY TypeStep, ExactStep DEF PipelineInv
<1> QED BY <1>1, <1>2, PTL DEF Spec

(* The tables keep their type and their keys, hold every event up to the    *)
(* cursor of its projector exactly once, in order, through any crash in the *)
(* middle of a bootstrap, and are up to date when the server runs.          *)
THEOREM TablesStayExact ==
  ASSUME ReplayableHistories PROVE Spec => []TablesExact
<1>1. PipelineInv => TablesExact
 <2> SUFFICES ASSUME PipelineInv PROVE TablesExact OBVIOUS
 <2> USE DEF PipelineInv
 <2>1. TypeOK
  <3>1. DOMAIN tables = DOMAIN EmptyTables BY DEF TypeInv, TablesSound, IsTables, EmptyTables
  <3>2. \A row \in tables.turns : row.state \in TurnStates
   BY DEF TypeInv, TablesSound, TurnsSound, IsTurn
  <3>3. \A rows \in {tables.messages, tables.plans, tables.activities, tables.turns,
                     tables.approvals} : Keyed(rows)
   BY DEF TypeInv, TablesSound, TurnsSound
  <3>4. \A row, other \in CheckpointRows(tables.turns) : row.count = other.count => row = other
   BY DEF TypeInv, TablesSound, TurnsSound
  <3> QED BY <3>1, <3>2, <3>3, <3>4, ProjectorIndices DEF TypeOK, TypeInv, Keyed
 <2>2. ProjectorsExact BY DEF ProjectorsExact, CursorInv, At, Writers, TypeInv
 <2>3. BootstrapReachesLatest
  <3> SUFFICES ASSUME phase = "running" PROVE Range(cursor) = {Len(log)}
   BY DEF BootstrapReachesLatest
  <3>1. DOMAIN cursor = Range(Projectors) /\ "projects" \in Range(Projectors)
   BY ProjectorNames DEF TypeInv
  <3>2. \A p \in DOMAIN cursor : cursor[p] = Len(log) BY <3>1 DEF BootInv, CaughtUp
  <3> QED BY <3>1, <3>2 DEF Range
 <2> QED BY <2>1, <2>2, <2>3 DEF TablesExact
<1> QED BY <1>1, PipelineAlways, PTL

(* The snapshot that clients fetch is the state at the sequence number that *)
(* it claims: what follows it in the log is what they have not seen.        *)
THEOREM SnapshotIsAtItsSequence ==
  ASSUME ReplayableHistories PROVE Spec => []SnapshotSequenceExact
<1>1. PipelineInv => SnapshotSequenceExact
 <2> SUFFICES ASSUME PipelineInv, phase = "running"
     PROVE  tables = At(SnapshotSequence).tables
  BY DEF SnapshotSequenceExact
 <2>1. CaughtUp BY DEF PipelineInv, BootInv
 <2>2. {cursor[projector] : projector \in Range(Projectors)
                                \ {"threadTurns", "pendingApprovals"}} = {Len(log)}
  BY <2>1, ProjectorNames DEF CaughtUp
 <2>3. SnapshotSequence = Len(log) BY <2>2 DEF SnapshotSequence, Min, PipelineInv, TypeInv
 <2> QED BY <2>1, <2>3, CaughtUpTables DEF At, PipelineInv
<1> QED BY <1>1, PipelineAlways, PTL

--------------------
(* Settled after the first n events, settled after the first m: over the    *)
(* events between them, one at a time.                                      *)
SettledSince(n, m) ==
    /\ \A row \in At(n).tables.turns :
          IsSettled(row.state) /\ (\A k \in (n + 1)..m : ~Releases(log[k], row.id)) =>
             \E new \in At(m).tables.turns : new.id = row.id /\ IsSettled(new.state)
    /\ \A row \in At(n).tables.approvals : row.status = "resolved" =>
          \E new \in At(m).tables.approvals : new.id = row.id /\ new.status = "resolved"

LEMMA OneEventLater ==
  ASSUME PastInv, Len(log) \in Nat, NEW n \in Nat, NEW m \in Nat, n <= m, m < Len(log),
    SettledSince(n, m)
  PROVE SettledSince(n, m + 1)
<1>1. m \in 0..Len(log) /\ m + 1 \in 1..Len(log) /\ (m + 1) - 1 = m OBVIOUS
<1>2. TablesSound(At(m).tables) /\ At(m + 1).tables = ApplyAll(At(m).tables, log[m + 1])
 <2>1. past[m + 1].tables = ApplyAll(past[(m + 1) - 1].tables, log[m + 1]) BY <1>1 DEF PastInv
 <2> QED BY <1>1, <2>1 DEF PastInv, At
<1>3. KeepsSettled(At(m).tables, At(m + 1).tables, log[m + 1]) BY <1>2, ApplyAllKeepsSettled
<1>4. m + 1 \in (n + 1)..(m + 1) /\ \A k \in (n + 1)..m : k \in (n + 1)..(m + 1) OBVIOUS
<1>5. ASSUME NEW row \in At(n).tables.turns, IsSettled(row.state),
             \A k \in (n + 1)..(m + 1) : ~Releases(log[k], row.id)
    PROVE  \E new \in At(m + 1).tables.turns : new.id = row.id /\ IsSettled(new.state)
 <2>1. PICK old \in At(m).tables.turns : old.id = row.id /\ IsSettled(old.state)
  BY <1>4, <1>5 DEF SettledSince
 <2>2. ~Releases(log[m + 1], old.id) BY <1>4, <1>5, <2>1
 <2> QED BY <1>3, <2>1, <2>2 DEF KeepsSettled
<1>6. ASSUME NEW row \in At(n).tables.approvals, row.status = "resolved"
    PROVE  \E new \in At(m + 1).tables.approvals : new.id = row.id /\ new.status = "resolved"
 BY <1>3, <1>6 DEF SettledSince, KeepsSettled
<1> QED BY <1>5, <1>6 DEF SettledSince

LEMMA SettledUntil ==
  ASSUME PastInv, Len(log) \in Nat, NEW n \in Nat
  PROVE \A m \in n..Len(log) : SettledSince(n, m)
<1> DEFINE S == {d \in Nat : n + d <= Len(log) => SettledSince(n, n + d)}
<1>1. 0 \in S
 <2>1. n + 0 = n OBVIOUS
 <2>2. SettledSince(n, n) BY DEF SettledSince
 <2> QED BY <2>1, <2>2
<1>2. ASSUME NEW d \in Nat, d \in S
    PROVE  d + 1 \in S
 <2>1. SUFFICES ASSUME n + (d + 1) <= Len(log) PROVE SettledSince(n, n + (d + 1)) OBVIOUS
 <2>2. /\ n + d \in Nat /\ n <= n + d /\ n + d < Len(log)
       /\ (n + d) + 1 = n + (d + 1)
  BY <2>1
 <2>3. SettledSince(n, n + d) BY <1>2, <2>2
 <2>4. SettledSince(n, (n + d) + 1) BY <2>2, <2>3, OneEventLater
 <2> QED BY <2>2, <2>4
<1>3. Nat \subseteq S
 <2> HIDE DEF S
 <2> QED BY <1>1, <1>2, SetInduction
<1>4. ASSUME NEW m \in n..Len(log)
    PROVE  SettledSince(n, m)
 <2>1. m - n \in Nat /\ n + (m - n) = m /\ m <= Len(log) OBVIOUS
 <2> QED BY <1>3, <2>1
<1> QED BY <1>4

(* A turn that completed or failed after any earlier event is settled now,  *)
(* unless it was interrupted, reverted or compacted since, and an approval  *)
(* that was resolved is, whatever is replayed, repeated or late.            *)
THEOREM SettledNeverReopens ==
  ASSUME ReplayableHistories PROVE Spec => []SettledStaysSettled
<1>1. PipelineInv => SettledStaysSettled
 <2> SUFFICES ASSUME PipelineInv PROVE SettledStaysSettled OBVIOUS
 <2>1. /\ Len(log) \in Nat /\ PastInv /\ CursorInv
       /\ \A p \in Writers : cursor[p] \in 0..Len(log)
  BY DEF PipelineInv, TypeInv, Writers
 <2>2. "threadTurns" \in Writers /\ "pendingApprovals" \in Writers BY ProjectorNames DEF Writers
 <2>3. \A p \in Writers : \A n \in 0..cursor[p] : SettledSince(n, cursor[p])
  <3>1. \A p \in Writers : \A n \in 0..cursor[p] : n \in Nat /\ cursor[p] \in n..Len(log) BY <2>1
  <3> QED BY <2>1, <3>1, SettledUntil
 <2>4. tables.turns = At(cursor["threadTurns"]).tables.turns
  BY <2>1, <2>2 DEF CursorInv, Written, At
 <2>5. tables.approvals = At(cursor["pendingApprovals"]).tables.approvals
  BY <2>1, <2>2 DEF CursorInv, Written, At
 <2>6. TurnsStaySettled BY <2>2, <2>3, <2>4 DEF TurnsStaySettled, SettledSince
 <2>7. ApprovalsStayResolved BY <2>2, <2>3, <2>5 DEF ApprovalsStayResolved, SettledSince
 <2> QED BY <2>6, <2>7 DEF SettledStaysSettled
<1> QED BY <1>1, PipelineAlways, PTL
=============================================================================

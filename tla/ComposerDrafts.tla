--------------------------- MODULE ComposerDrafts ---------------------------
(***************************************************************************)
(* What a user has typed and attached, until the server has it: the drafts  *)
(* of the composer and their copy in localStorage, the view of a thread     *)
(* that sends them, and what it puts back when a send fails.                *)
(*                                                                         *)
(* There is one project.  A prompt is the set of the pieces typed into it,  *)
(* an image its number and the blob URL of its preview.  The mode, model    *)
(* and provider of a draft are left out, and so are worktrees and scripts:  *)
(* they may fail before a command is sent, as the command itself may.       *)
(***************************************************************************)
EXTENDS Naturals, Sequences, FiniteSets

CONSTANTS Threads,  \* the ids that the client may make
          None,     \* no thread
          Settings  \* bounds of what may happen: records of
                    \*   texts, images: pieces typed, images attached
                    \*   sends, moves, reloads, deletes: what the user does
                    \*   lost, unanswered: commands that do not arrive, or
                    \*     arrive while their answer does not
                    \*   unwritten: writes that localStorage refuses

Kinds == {"texts", "images", "sends", "moves", "reloads", "deletes", "lost", "unanswered",
          "unwritten"}

ASSUME DraftsAssumption ==
    /\ None \notin Threads
    /\ \A s \in Settings, k \in Kinds : s[k] \in Nat

VARIABLES
    setting,  \* of this behaviour
    spent,    \* how much of the bounds is used
    store,    \* the draft store: [drafts, registered, mapping], where
              \*   drafts: the prompt, images and persistedAttachments of a thread
              \*   registered: draftThreadsByThreadId, a set of threads
              \*   mapping: projectDraftThreadIdByProjectId, a thread or None
    disk,     \* what localStorage has of it
    dirty,    \* whether the debounced write waits
    view,     \* the ChatView: [route, mount, busy, optimistic, staging], where
              \*   route: the thread of the URL or None
              \*   mount: the number of the mounted instance, 0 is none
              \*   busy: sendPhase is not idle
              \*   optimistic: the messages that it shows by itself
              \*   staging: whether the effect of composerImages is to run
    mounts,   \* how many instances there were
    sends,    \* the calls of onSend under way
    server,   \* [threads: absent, live or deleted; messages: a sequence of each]
    known,    \* the snapshot that the client has, [hydrated, live, messages]
    revoked,  \* blob URLs that were revoked
    urls,     \* how many were made
    excused   \* (history) pieces that the user deleted, typed into a thread before
              \* the client knew that it is deleted, left on their way, or had
              \* in a draft at a reload after a write that failed

vars == <<setting, spent, store, disk, dirty, view, mounts, sends, server, known,
          revoked, urls, excused>>

Spend(kind) ==
    /\ spent[kind] < setting[kind]
    /\ spent' = [spent EXCEPT ![kind] = @ + 1]

-----------------------------------------------------------------------------
(***************************************************************************)
(* The store.                                                               *)
(***************************************************************************)
EmptyDraft == [text |-> {}, images |-> {}, persisted |-> {}]
IsEmpty(draft) == draft.text = {} /\ draft.images = {}

Ids(images) == {image.id : image \in images}
Urls(images) == {image.url : image \in images}

\* Every change of the store asks for a write of the whole of it.
SetStore(next) == store' = next /\ dirty' = TRUE
WithDraft(t, draft) == [store EXCEPT !.drafts[t] = draft]

\* partialize, and merge: an image is hydrated from its persisted copy, whose
\* URL is a data URL (0).
Partialized ==
    [store EXCEPT !.drafts = [t \in Threads |-> [store.drafts[t] EXCEPT !.images = {}]]]
Hydrated(saved) ==
    [saved EXCEPT !.drafts = [t \in Threads |->
        [saved.drafts[t] EXCEPT !.images = {[id |-> i, url |-> 0] : i \in saved.drafts[t].persisted}]]]

\* setProjectDraftThreadId: a thread that this one replaces is forgotten.
Mapped(t) ==
    LET previous == store.mapping
    IN  IF previous \in {None, t}
        THEN [store EXCEPT !.mapping = t, !.registered = @ \cup {t}]
        ELSE [store EXCEPT !.mapping = t, !.registered = (@ \cup {t}) \ {previous},
                           !.drafts[previous] = EmptyDraft]

(* Mutant of Unregistered: the project still names the thread.              *)
UnregisteredMutant(t) == [store EXCEPT !.registered = @ \ {t}]

\* clearDraftThread
Unregistered(t) ==
    [store EXCEPT !.registered = @ \ {t}, !.mapping = IF @ = t THEN None ELSE @]

Init ==
    /\ setting \in Settings
    /\ spent = [k \in Kinds |-> 0]
    /\ store = [drafts |-> [t \in Threads |-> EmptyDraft], registered |-> {}, mapping |-> None]
    /\ disk = store /\ dirty = FALSE
    /\ view = [route |-> None, mount |-> 0, busy |-> FALSE, optimistic |-> {}, staging |-> FALSE]
    /\ mounts = 0 /\ sends = {}
    /\ server = [threads |-> [t \in Threads |-> "absent"], messages |-> [t \in Threads |-> << >>]]
    /\ known = [hydrated |-> TRUE, live |-> {}, messages |-> [t \in Threads |-> {}]]
    /\ revoked = {} /\ urls = 0 /\ excused = {}

\* The debounced write.
Write ==
    /\ dirty /\ dirty' = FALSE /\ disk' = Partialized
    /\ UNCHANGED <<setting, spent, store, view, mounts, sends, server, known, revoked, urls, excused>>

\* setItem throws, as the quota is used up.  Whether the debouncer still has the
\* write afterwards is left open.
WriteFails ==
    /\ dirty /\ Spend("unwritten") /\ dirty' \in BOOLEAN
    /\ UNCHANGED <<setting, store, disk, view, mounts, sends, server, known, revoked, urls, excused>>

-----------------------------------------------------------------------------
(***************************************************************************)
(* The view.                                                                *)
(***************************************************************************)
Exists(t) == t \in known.live \cup store.registered
Mounted == view.mount # 0
Draft == store.drafts[view.route]

Texts(messages) == UNION {message.text : message \in messages}

\* A view that goes takes its optimistic messages along; a send that it leaves
\* behind keeps its refs as they are.
Unmount(route) ==
    /\ view' = [route |-> route, mount |-> 0, busy |-> FALSE, optimistic |-> {}, staging |-> FALSE]
    /\ revoked' = revoked \cup UNION {Urls(message.images) : message \in view.optimistic}
    /\ excused' = excused \cup Texts(view.optimistic)
    /\ sends' = {IF s.mount = view.mount THEN [s EXCEPT !.refsEmpty = IsEmpty(Draft)] ELSE s : s \in sends}

\* The route shows the view of a thread that exists, and leaves one that does not.
NeedsRender ==
    \/ Mounted /\ ~Exists(view.route)
    \/ ~Mounted /\ view.route # None /\ known.hydrated
Render ==
    /\ NeedsRender
    /\ IF Mounted
       THEN Unmount(None) /\ UNCHANGED mounts
       ELSE /\ IF Exists(view.route)
               THEN /\ mounts' = mounts + 1
                    /\ view' = [view EXCEPT !.mount = mounts + 1, !.staging = TRUE]
               ELSE view' = [view EXCEPT !.route = None] /\ UNCHANGED mounts
            /\ UNCHANGED <<revoked, excused, sends>>
    /\ UNCHANGED <<setting, spent, store, disk, dirty, server, known, urls>>

\* Another thread, or the index: navigate.
Go(route) ==
    IF Mounted THEN Unmount(route)
    ELSE view' = [view EXCEPT !.route = route] /\ UNCHANGED <<revoked, excused, sends>>

Navigate(route) ==
    /\ route # view.route /\ (route = None \/ Exists(route))
    /\ Spend("moves") /\ Go(route)
    /\ UNCHANGED <<setting, store, disk, dirty, mounts, server, known, urls>>

\* handleNewThread: the project's draft thread, or a new one.
NewThread(t) ==
    /\ IF store.mapping # None /\ store.mapping \in store.registered
       THEN t = store.mapping
       ELSE server.threads[t] = "absent" /\ store.drafts[t] = EmptyDraft /\ \A s \in sends : s.thread # t
    /\ t # view.route
    /\ Spend("moves") /\ SetStore(Mapped(t)) /\ Go(t)
    /\ UNCHANGED <<setting, disk, mounts, server, known, urls>>

\* setPrompt, for a next piece of text.
Type ==
    /\ Mounted /\ Spend("texts")
    /\ SetStore(WithDraft(view.route, [Draft EXCEPT !.text = @ \cup {spent.texts + 1}]))
    /\ excused' = IF view.route \in known.live /\ server.threads[view.route] = "deleted"
                  THEN excused \cup {spent.texts + 1} ELSE excused
    /\ UNCHANGED <<setting, disk, view, mounts, sends, server, known, revoked, urls>>

\* addImages
Attach ==
    /\ Mounted /\ Spend("images")
    /\ urls' = urls + 1
    /\ SetStore(WithDraft(view.route,
            [Draft EXCEPT !.images = @ \cup {[id |-> spent.images + 1, url |-> urls + 1]}]))
    /\ view' = [view EXCEPT !.staging = TRUE]
    /\ UNCHANGED <<setting, disk, mounts, sends, server, known, revoked, excused>>

\* removeImage
Detach(image) ==
    /\ Mounted /\ image \in Draft.images /\ Spend("moves")
    /\ revoked' = revoked \cup {image.url}
    /\ SetStore(WithDraft(view.route, [Draft EXCEPT !.images = @ \ {image},
                                                    !.persisted = @ \ {image.id}]))
    /\ view' = [view EXCEPT !.staging = TRUE]
    /\ UNCHANGED <<setting, disk, mounts, sends, server, known, urls, excused>>

\* The effect of composerImages, when the files are read.  It stages the images
\* and looks at once, in a microtask, which of them localStorage has.
Stage ==
    /\ Mounted /\ view.staging
    /\ view' = [view EXCEPT !.staging = FALSE]
    /\ IF Draft = EmptyDraft THEN UNCHANGED <<store, dirty>>
       ELSE SetStore(WithDraft(view.route,
                [Draft EXCEPT !.persisted = Ids(Draft.images) \cap disk.drafts[view.route].persisted]))
    /\ UNCHANGED <<setting, spent, disk, mounts, sends, server, known, revoked, urls, excused>>

\* A write was refused.
Refused == spent.unwritten > 0

DraftTexts == UNION {store.drafts[t].text : t \in Threads}

\* The page is loaded again: beforeunload writes, the store is read.
Reloading(saved) ==
    /\ Spend("reloads")
    /\ disk' = saved /\ store' = Hydrated(saved) /\ dirty' = FALSE
    /\ view' = [route |-> view.route, mount |-> 0, busy |-> FALSE, optimistic |-> {}, staging |-> FALSE]
    /\ sends' = {} /\ revoked' = {}
    /\ known' = [hydrated |-> FALSE, live |-> {}, messages |-> [t \in Threads |-> {}]]
    /\ excused' = excused \cup Texts(view.optimistic \cup sends)
                    \cup (IF Refused THEN DraftTexts ELSE {})
    /\ UNCHANGED <<setting, mounts, server, urls>>

(* Mutant of Reload: the debounced write is not flushed.                    *)
ReloadMutant == Reloading(disk)

Reload == Reloading(IF dirty THEN Partialized ELSE disk)

-----------------------------------------------------------------------------
(***************************************************************************)
(* Sending.                                                                 *)
(***************************************************************************)
InFlight == \E s \in sends : s.mount = view.mount

Message(s) == [id |-> s.id, mount |-> s.mount, text |-> s.text, images |-> s.images]

\* onSend up to its first await, with or without sendInFlightRef; the composer
\* is left with a draft.
Sending(inFlight, draft) ==
    LET s == [id |-> spent.sends + 1, thread |-> view.route, mount |-> view.mount,
              first |-> view.route \notin known.live \/ known.messages[view.route] = {},
              created |-> FALSE, answer |-> "none",
              step |-> IF view.route \in known.live THEN "start" ELSE "create",
              text |-> Draft.text, images |-> Draft.images, refsEmpty |-> FALSE]
    IN  /\ Mounted /\ ~view.busy /\ ~inFlight /\ ~IsEmpty(Draft)
        /\ Spend("sends")
        /\ sends' = sends \cup {s}
        /\ view' = [view EXCEPT !.busy = TRUE, !.optimistic = @ \cup {Message(s)}, !.staging = TRUE]
        /\ SetStore(WithDraft(view.route, draft))
        /\ UNCHANGED <<setting, disk, mounts, server, known, revoked, urls, excused>>

(* Mutants of Send: another may be under way; the composer is not cleared.  *)
SendMutant == Sending(FALSE, EmptyDraft)
SendTwiceMutant == Sending(InFlight, Draft)

Send == Sending(InFlight, EmptyDraft)

\* (external) What the decider does with the command of a send.
Served(s) ==
    LET t == s.thread
        applied ==
            CASE s.step = "create" /\ server.threads[t] = "absent" ->
                    [server EXCEPT !.threads[t] = "live"]
              [] s.step = "start" /\ server.threads[t] # "absent" ->
                    [server EXCEPT !.messages[t] = Append(@, [id |-> s.id, mount |-> s.mount, text |-> s.text])]
              [] s.step = "delete" /\ server.threads[t] # "absent" ->
                    [server EXCEPT !.threads[t] = "deleted"]
              [] OTHER -> server
    IN  [applied |-> applied, answer |-> IF applied = server /\ s.step # "delete" THEN "error" ELSE "ok"]

\* A command is handled and answered, or is lost, or only its answer is.
Handle(s) ==
    /\ s.answer = "none"
    /\ \E answer \in {"served", "lost", "unanswered"} :
          /\ IF answer = "served" THEN UNCHANGED spent ELSE Spend(answer)
          /\ server' = IF answer = "lost" THEN server ELSE Served(s).applied
          /\ sends' = (sends \ {s}) \cup
                {[s EXCEPT !.answer = IF answer = "served" THEN Served(s).answer ELSE "error"]}
    /\ UNCHANGED <<setting, store, disk, dirty, view, mounts, known, revoked, urls, excused>>

Goes(s, step) == sends' = (sends \ {s}) \cup {[s EXCEPT !.step = step, !.answer = "none"]}

Create(s, created) ==
    /\ s.step = "create" /\ s.answer = "ok"
    /\ sends' = (sends \ {s}) \cup
          {[s EXCEPT !.step = "start", !.answer = "none", !.created = created]}
    /\ UNCHANGED <<setting, spent, disk, view, mounts, server, known, revoked, urls, excused>>

(* Mutants of Created: that the thread was made for the draft is forgotten; *)
(* the draft thread is cleared too early.                                   *)
CreatedMutant(s) == Create(s, FALSE) /\ UNCHANGED <<store, dirty>>
CreatedClearsMutant(s) == Create(s, TRUE) /\ SetStore(Unregistered(s.thread))

\* thread.create was accepted.
Created(s) == Create(s, TRUE) /\ UNCHANGED <<store, dirty>>

\* thread.turn.start was accepted.
Started(s) ==
    /\ s.step = "start" /\ s.answer = "ok"
    /\ sends' = sends \ {s}
    /\ IF s.first THEN SetStore(Unregistered(s.thread)) ELSE UNCHANGED <<store, dirty>>
    /\ UNCHANGED <<setting, spent, disk, view, mounts, server, known, revoked, urls, excused>>

\* It was not: a thread that was made for it is deleted.
Discard(s) ==
    /\ s.step = "start" /\ s.answer = "error" /\ s.created
    /\ Goes(s, "delete")
    /\ UNCHANGED <<setting, spent, store, disk, dirty, view, mounts, server, known, revoked, urls, excused>>

\* cloneComposerImageForRetry
Cloned(images) ==
    {[image EXCEPT !.url = IF @ = 0 THEN 0 ELSE urls + Cardinality({i \in images : i.id <= image.id})]
        : image \in images}

\* The end of a send that failed: what was sent returns to the composer if the
\* refs of its view say that nothing is there.
Restoring(s, empty, images) ==
    LET current == s.mount = view.mount
        draft == store.drafts[s.thread]
        removed == {m \in view.optimistic : current /\ m.id = s.id}
    IN  /\ \/ s.step \in {"create", "start"} /\ s.answer = "error" /\ ~s.created
           \/ s.step = "delete" /\ s.answer # "none"
        /\ sends' = sends \ {s}
        /\ IF empty
           THEN /\ SetStore(WithDraft(s.thread,
                      [draft EXCEPT !.text = s.text,
                                    !.images = @ \cup {i \in images : i.id \notin Ids(@)}]))
                /\ revoked' = revoked \cup UNION {Urls(m.images) : m \in removed}
                /\ urls' = urls + Cardinality(images)
                /\ excused' = IF current THEN excused ELSE excused \cup draft.text
                /\ view' = [view EXCEPT !.optimistic = @ \ removed, !.busy = @ /\ ~current,
                                        !.staging = @ \/ (Mounted /\ view.route = s.thread)]
           ELSE /\ view' = [view EXCEPT !.busy = @ /\ ~current]
                /\ UNCHANGED <<store, dirty, revoked, urls, excused>>
        /\ UNCHANGED <<setting, spent, disk, mounts, server, known>>

RefsEmpty(s) == IF s.mount = view.mount THEN IsEmpty(Draft) ELSE s.refsEmpty

(* Mutants of Failed: what was typed since is not looked at; the previews   *)
(* are put back as they were.                                               *)
FailedMutant(s) == Restoring(s, TRUE, Cloned(s.images))
FailedImagesMutant(s) == Restoring(s, RefsEmpty(s), s.images)

Failed(s) == Restoring(s, RefsEmpty(s), Cloned(s.images))

-----------------------------------------------------------------------------
(***************************************************************************)
(* The server's state.                                                      *)
(***************************************************************************)
MessageIds == [t \in Threads |-> {server.messages[t][i].id : i \in DOMAIN server.messages[t]}]

\* A snapshot comes: messages that it has are no longer shown optimistically.
Sync ==
    /\ known' = [hydrated |-> TRUE, live |-> {t \in Threads : server.threads[t] = "live"},
                 messages |-> MessageIds]
    /\ known' # known
    /\ view' = IF Mounted /\ view.route \in known'.live
               THEN [view EXCEPT !.optimistic = {m \in @ : m.id \notin MessageIds[view.route]}]
               ELSE view
    /\ UNCHANGED <<setting, spent, store, disk, dirty, mounts, sends, server, revoked, urls, excused>>

\* A turn of the thread is seen to run: the view is no longer busy.
Acknowledge ==
    /\ Mounted /\ view.busy /\ view.route \in known.live /\ known.messages[view.route] # {}
    /\ view' = [view EXCEPT !.busy = FALSE]
    /\ UNCHANGED <<setting, spent, store, disk, dirty, mounts, sends, server, known, revoked, urls, excused>>

\* deleteThread of the sidebar, once the server has done it.  A view of the
\* thread gives way to another thread, or to the index.
DeleteThread(t) ==
    /\ t \in known.live /\ server.threads[t] # "absent" /\ Spend("deletes")
    /\ server' = [server EXCEPT !.threads[t] = "deleted"]
    /\ store' = [Unregistered(t) EXCEPT !.drafts[t] = EmptyDraft] /\ dirty' = TRUE
    /\ \E fallback \in IF known.live = {t} THEN {None} ELSE known.live \ {t} :
          IF view.route = t /\ Mounted
          THEN /\ view' = [route |-> fallback, mount |-> 0, busy |-> FALSE, optimistic |-> {},
                           staging |-> FALSE]
               /\ revoked' = revoked \cup Urls(store.drafts[t].images)
                               \cup UNION {Urls(message.images) : message \in view.optimistic}
               /\ sends' = {IF s.mount = view.mount THEN [s EXCEPT !.refsEmpty = TRUE] ELSE s : s \in sends}
          ELSE /\ view' = [view EXCEPT !.route = IF @ = t THEN fallback ELSE @]
               /\ revoked' = revoked \cup Urls(store.drafts[t].images) /\ UNCHANGED sends
    /\ excused' = excused \cup store.drafts[t].text \cup Texts({s \in sends : s.thread = t})
                    \cup (IF view.route = t THEN Texts(view.optimistic) ELSE {})
    /\ UNCHANGED <<setting, disk, mounts, known, urls>>

\* The view follows the route and the store before anything else happens.
Next ==
    \/ Render
    \/ /\ ~NeedsRender
       /\ \/ Write \/ WriteFails \/ Type \/ Attach \/ Stage \/ Reload \/ Send \/ Sync \/ Acknowledge
          \/ \E t \in Threads \cup {None} : Navigate(t)
          \/ \E t \in Threads : NewThread(t) \/ DeleteThread(t)
          \/ Mounted /\ \E image \in Draft.images : Detach(image)
          \/ \E s \in sends : Handle(s) \/ Created(s) \/ Started(s) \/ Discard(s) \/ Failed(s)

Spec == Init /\ [][Next]_vars

-----------------------------------------------------------------------------
(***************************************************************************)
(* Properties.                                                              *)
(***************************************************************************)
Accepted(t) == UNION {server.messages[t][i].text : i \in DOMAIN server.messages[t]}

(* The type of the state; the project's draft thread is the one that is     *)
(* registered, and a mounted view shows a thread of which it knows.         *)
TypeOK ==
    /\ store.registered = IF store.mapping = None THEN {} ELSE {store.mapping}
    /\ store.mapping \in Threads \cup {None} /\ disk.mapping \in Threads \cup {None}
    /\ view.route \in Threads \cup {None} /\ view.mount \in 0..mounts
    /\ Mounted => view.route # None
    /\ \A s \in sends : s.id \in 1..spent.sends /\ s.mount \in 1..mounts
    /\ \A s, r \in sends : s.id = r.id => s = r
    /\ excused \subseteq 1..spent.texts /\ revoked \subseteq 0..urls

(* What was typed stays in a draft, in a message that is being sent or is   *)
(* shown as sent, or reaches the server.  Only who leaves or reloads the    *)
(* view of a message on its way, or deletes the thread, may lose something, *)
(* and a reload after a write that failed.                                  *)
TextKept ==
    1..spent.texts \subseteq
        (UNION {store.drafts[t].text \cup Accepted(t) : t \in Threads})
            \cup Texts(sends) \cup Texts(view.optimistic) \cup excused

\* The drafts may be those of an earlier time.
Outdated == Refused /\ spent.reloads > 0

(* A draft with text can be found: its thread is the draft thread of the    *)
(* project, or one that the server has.  Excepted is a thread that a failed *)
(* send deleted, and that took a message afterwards, and what a reload finds *)
(* after a write that failed.                                               *)
DraftsReachable ==
    \A t \in Threads :
        \/ store.drafts[t].text \subseteq excused \/ Outdated
        \/ t \in store.registered \/ server.threads[t] = "live"
        \/ server.threads[t] = "deleted" /\ server.messages[t] # << >>

Repeats == spent.unanswered > 0 \/ Outdated

(* Nothing is sent twice, unless the answer to it did not arrive, or a      *)
(* reload brings back a draft whose end could not be written.               *)
SentOnce ==
    \A t, u \in Threads : \A i \in DOMAIN server.messages[t], j \in DOMAIN server.messages[u] :
        server.messages[t][i].text \cap server.messages[u][j].text # {} =>
            <<t, i>> = <<u, j>> \/ Repeats

(* The server has the messages that were sent from a view in the order in   *)
(* which they were sent.                                                    *)
SentInOrder ==
    \A t \in Threads : \A i, j \in DOMAIN server.messages[t] :
        /\ i < j /\ server.messages[t][i].mount = server.messages[t][j].mount
        => server.messages[t][i].id < server.messages[t][j].id

(* A first message that is not accepted leaves no empty thread behind,      *)
(* unless another failure or a reload comes between.                        *)
NoOrphanThread ==
    \A t \in Threads :
        server.threads[t] = "live" /\ server.messages[t] = << >> =>
            \/ \E s \in sends : s.thread = t
            \/ spent.lost > 1 \/ spent.unanswered > 0 \/ spent.reloads > 0

(* No preview that the composer or the messages on their way show was       *)
(* revoked.                                                                 *)
PreviewsValid ==
    /\ \A t \in Threads : Urls(store.drafts[t].images) \cap revoked \subseteq {0}
    /\ \A message \in view.optimistic : Urls(message.images) \cap revoked \subseteq {0}

(* Threads, drafts and previews belong together.                            *)
DraftsSound == TypeOK /\ DraftsReachable /\ NoOrphanThread /\ PreviewsValid

(* Nothing is sent twice or late (onSend).                                  *)
SentOnceInOrder == SentOnce /\ SentInOrder

(* A reload keeps the text of all drafts and the draft thread as they are   *)
(* at that time, written or not, unless a write failed before: then it may   *)
(* bring back an earlier draft.  Images do not survive it.                  *)
DraftsSurviveReload ==
    [][Reload => \/ Refused
                 \/ /\ store'.mapping = store.mapping
                    /\ \A t \in Threads : store'.drafts[t].text = store.drafts[t].text]_vars
=============================================================================

----------------------------- MODULE GitActions -----------------------------
(***************************************************************************)
(* The stacked git actions: commit, push and pull request in one request.  *)
(* The client offers them from the status it last saw, asks before it      *)
(* pushes the default branch and offers the next action with the answer.   *)
(* The server runs a request as a sequence of git and gh commands, each of *)
(* which sees the repository as the other requests, the branch selector,   *)
(* the agents and the team left it: nothing is locked between them.        *)
(***************************************************************************)
EXTENDS GitRepository, Integers, Sequences

CONSTANTS Runs,         \* requests the server can serve at a time
          Features,     \* the names for feature branches, in order of choice
          Circumstances \* pairs: how the default branch is marked, and how
                        \* much happens (the fields of `left')

ASSUME FeaturesAreBranches ==
  \A i \in 1..Len(Features) : Features[i] \in Branches \ {Main}

VARIABLES run,          \* the requests
          prep,         \* the preparation of a worktree for a pull request
          view,         \* the client's last status
          shown,        \* the current branch in its last list of branches
          dialog,       \* its open dialog
          offers,       \* the actions its success messages offer
          moves,        \* history: how often HEAD was moved
          dropped,      \* history: the edits a preparation overwrote
          left          \* what the bounds leave

client == <<view, shown, dialog, offers>>
server == <<run, prep>>
vars == <<repository, server, client, moves, dropped, left>>

Unseen == -1
Publishing == {"commit_push", "commit_push_pr"}

NoPrep == [pc |-> "idle", branch |-> Main]
NoView == [at |-> Unseen]
NoDialog == [kind |-> "none"]

(* A request: asked for with what the user was shown, and confirmed or not; *)
(* `at' and `told' are history: when that was read, and whether the client *)
(* could tell the default branch then.                                     *)
Request(action, feature, confirmed, default, pr, at, told) ==
  [pc |-> "begin", action |-> action, feature |-> feature,
   confirmed |-> confirmed, default |-> default, pr |-> pr, at |-> at,
   told |-> told, branch |-> Main, commit |-> {}, pushed |-> FALSE, ok |-> FALSE]

Idle == [Request("none", FALSE, FALSE, FALSE, FALSE, Unseen, TRUE) EXCEPT !.pc = "idle"]

Init ==
  /\ InitRepository
  /\ run = [r \in Runs |-> Idle]
  /\ prep = NoPrep
  /\ view = NoView /\ shown = NoBranch
  /\ dialog = NoDialog /\ offers = {}
  /\ moves = 0 /\ dropped = {}
  /\ \E setting \in Circumstances : marks = setting[1] /\ left = setting[2]

Spend(bound) ==
  /\ left[bound] > 0
  /\ left' = [left EXCEPT ![bound] = @ - 1]

-----------------------------------------------------------------------------
(* What the client offers (GitActionsControl.logic.ts).                    *)

Known == view # NoView /\ shown \in {NoBranch, view.status.branch}

(* The list of branches goes by origin/HEAD alone (GitCore.ts listBranches); *)
(* as long as there is none, the client goes by the names main and master.  *)
Told == (IF shown = NoBranch THEN "name" ELSE "head") \in marks

OnDefaultMutant == Known /\ "head" \in marks /\ view.status.branch = Main
OnDefault == Known /\ Told /\ view.status.branch = Main

busy == \E r \in Runs : run[r].pc # "idle"

Publish(s) ==
  IF s.pr \/ (Told /\ s.branch = Main) THEN "commit_push" ELSE "commit_push_pr"

QuickAction(s) ==
  CASE s.changes \/ (s.ahead /\ ~s.behind) -> Publish(s)
    [] ~s.changes /\ s.behind /\ ~s.ahead  -> "pull"
    [] OTHER                               -> "none"

MenuActions(s) ==
  IF s.changes \/ s.behind \/ ~s.ahead THEN {}
  ELSE {"commit_push"} \cup (IF s.pr THEN {} ELSE {"commit_push_pr"})

Confirmable(action, default) == default /\ action \in Publishing

Send(request) ==
  /\ Spend("starts")
  /\ \E r \in Runs : /\ run[r].pc = "idle"
                     /\ run' = [run EXCEPT ![r] = request]

(* GitActionsControl.tsx:223-: an action on the default branch is asked    *)
(* about first, anything else is sent.                                     *)
Ask(action, default, pr, at, told, closes) ==
  IF Confirmable(action, default)
  THEN /\ dialog' = [kind |-> "default", action |-> action, closes |-> closes]
       /\ UNCHANGED <<run, left>>
  ELSE /\ Send(Request(action, FALSE, FALSE, default, pr, at, told))
       /\ UNCHANGED dialog

ViewPr == Known /\ view.status.pr

(* When the status was read that the user is shown, if one is shown.       *)
Seen == IF Known THEN view.at ELSE Unseen

ClickAction ==
  /\ dialog = NoDialog /\ ~busy /\ Known
  /\ \E action \in ({QuickAction(view.status)} \cup MenuActions(view.status)) \ {"none"} :
       Ask(action, OnDefault, ViewPr, Seen, Told, {})
  /\ UNCHANGED <<repository, prep, view, shown, offers, moves, dropped>>

OpenCommitDialog ==
  /\ dialog = NoDialog /\ ~busy /\ Known /\ view.status.changes
  /\ dialog' = [kind |-> "commit"]
  /\ UNCHANGED <<repository, server, view, shown, offers, moves, dropped, left>>

(* The commit dialog, on this branch or on a new one.                      *)
ConfirmCommit(feature) ==
  /\ dialog.kind = "commit"
  /\ dialog' = NoDialog
  /\ Send(Request("commit", feature, FALSE, OnDefault /\ ~feature, ViewPr,
                  Seen, Told))
  /\ UNCHANGED <<repository, prep, view, shown, offers, moves, dropped>>

(* The question about the default branch: go on, or on a feature branch.   *)
ConfirmDefault(feature) ==
  /\ dialog.kind = "default"
  /\ dialog' = NoDialog
  /\ Send(Request(dialog.action, feature, ~feature, OnDefault /\ ~feature,
                  ViewPr, Seen, Told))
  /\ offers' = offers \ dialog.closes
  /\ UNCHANGED <<repository, prep, view, shown, moves, dropped>>

CancelDialog ==
  /\ dialog # NoDialog
  /\ dialog' = NoDialog
  /\ UNCHANGED <<repository, server, view, shown, offers, moves, dropped, left>>

(* The button of a success message: not disabled by another request, and   *)
(* with what was known when the first action was asked for. A message that *)
(* is closed is one that is not clicked.                                   *)
ClickOffer(offer) ==
  /\ dialog = NoDialog
  /\ Ask(offer.action, offer.default, offer.pr, offer.at, offer.told, {offer})
  /\ offers' = IF dialog' = NoDialog THEN offers \ {offer} ELSE offers
  /\ UNCHANGED <<repository, prep, view, shown, moves, dropped>>

(* An answer: the queries are read again (below), and a success offers to  *)
(* push what was committed or to create a pull request for what was pushed. *)
Offer(done) ==
  IF ~done.ok THEN {}
  ELSE IF done.action = "commit" /\ done.commit # {}
  THEN {[action |-> "commit_push", default |-> done.default, pr |-> done.pr,
         at |-> done.at, told |-> done.told]}
  ELSE IF done.action = "commit_push" /\ done.pushed /\ ~done.pr /\ ~done.default
  THEN {[action |-> "commit_push_pr", default |-> done.default, pr |-> done.pr,
         at |-> done.at, told |-> done.told]}
  ELSE {}

ReceiveAnswer(r) ==
  /\ run[r].pc = "done"
  /\ run' = [run EXCEPT ![r] = Idle]
  /\ offers' = offers \cup Offer(run[r])
  /\ UNCHANGED <<repository, prep, view, shown, dialog, moves, dropped, left>>

(* The two queries: the status, whose lookup of the pull request may fail, *)
(* and the list of branches.                                               *)
ReadStatus ==
  /\ \E seen \in Refreshed, pr \in {(head \in prs), FALSE} :
       /\ tracking' = seen
       /\ view' = [status |-> Status(seen, pr), at |-> moves]
  /\ UNCHANGED <<clone, origin, made, server, shown, dialog, offers, moves,
                 dropped, left>>

ReadBranches ==
  /\ shown' = head
  /\ UNCHANGED <<repository, server, view, dialog, offers, moves, dropped, left>>

-----------------------------------------------------------------------------
(* The server runs a request (GitManager.ts runStackedAction).             *)

Go(r, pc) == run' = [run EXCEPT ![r].pc = pc]

Answer(r, ok) == run' = [run EXCEPT ![r].pc = "done", ![r].ok = ok]

Surroundings == <<prep, client, dropped, left>>

(* Any command may fail: the network, gh, a hook, the model that writes    *)
(* the message.                                                            *)
StepFails(r) ==
  /\ run[r].pc \notin {"idle", "done"}
  /\ Spend("failures")
  /\ Answer(r, FALSE)
  /\ UNCHANGED <<repository, prep, client, moves, dropped>>

Begin(r) ==
  /\ run[r].pc = "begin"
  /\ tracking' \in Refreshed
  /\ run' = [run EXCEPT ![r].branch = head,
                        ![r].pc = IF run[r].action = "pull" THEN "pull"
                                  ELSE IF run[r].feature THEN "prepare"
                                  ELSE "stage"]
  /\ UNCHANGED <<clone, origin, made, Surroundings, moves>>

(* A feature branch: everything is staged for the message and the name,    *)
(* which must be free, then the branch is created and checked out.         *)
Prepare(r) ==
  /\ run[r].pc = "prepare"
  /\ index' = dirty
  /\ IF dirty = {} THEN Answer(r, FALSE) ELSE Go(r, "name")
  /\ UNCHANGED <<local, upstream, worktrees, head, dirty, tracking, origin, made,
                 Surroundings, moves>>

FreeFeatures == {i \in 1..Len(Features) : Features[i] \notin DOMAIN local}

ResolveName(r) ==
  /\ run[r].pc = "name"
  /\ \E i \in FreeFeatures :
       /\ \A j \in FreeFeatures : i <= j
       /\ run' = [run EXCEPT ![r].branch = Features[i], ![r].pc = "create"]
  /\ UNCHANGED <<repository, Surroundings, moves>>

CreateBranch(r) ==
  /\ run[r].pc = "create"
  /\ IF run[r].branch \in DOMAIN local
     THEN Answer(r, FALSE) /\ UNCHANGED local
     ELSE Go(r, "checkout") /\ local' = With(local, run[r].branch, local[head])
  /\ UNCHANGED <<upstream, worktrees, head, dirty, index, tracking, origin, made,
                 Surroundings, moves>>

CheckoutNew(r) ==
  /\ run[r].pc = "checkout"
  /\ IF run[r].branch \in worktrees
     THEN Answer(r, FALSE) /\ UNCHANGED <<head, moves>>
     ELSE /\ head' = run[r].branch
          /\ moves' = moves + 1
          /\ run' = [run EXCEPT ![r].pc = "commit", ![r].at = moves']
  /\ UNCHANGED <<local, upstream, worktrees, dirty, index, tracking, origin, made,
                 Surroundings>>

AfterCommit(r) == IF run[r].action = "commit" THEN "done" ELSE "push_status"

(* git add -A; nothing to commit is not an error.                          *)
Stage(r) ==
  /\ run[r].pc = "stage"
  /\ index' = dirty
  /\ IF dirty # {} THEN Go(r, "commit")
     ELSE IF run[r].action = "commit" THEN Answer(r, TRUE)
     ELSE Go(r, "push_status")
  /\ UNCHANGED <<local, upstream, worktrees, head, dirty, tracking, origin, made,
                 Surroundings, moves>>

(* The index as it is now, on the branch HEAD is on now.                   *)
Commit(r) ==
  /\ run[r].pc = "commit"
  /\ IF index = {}
     THEN Answer(r, FALSE) /\ UNCHANGED <<local, dirty, index>>
     ELSE /\ local' = With(local, head, local[head] \cup index)
          /\ dirty' = dirty \ index
          /\ index' = {}
          /\ run' = [run EXCEPT ![r].commit = index,
                       ![r].pc = AfterCommit(r),
                       ![r].ok = run[r].action = "commit"]
  /\ UNCHANGED <<upstream, worktrees, head, tracking, origin, made,
                 Surroundings, moves>>

(* GitCore.pushCurrentBranch: what there is to push, then the push, which  *)
(* names the branch only when it has no upstream yet.                      *)
PushStatus(r) ==
  /\ run[r].pc = "push_status"
  /\ \E seen \in Refreshed :
       /\ tracking' = seen
       /\ IF /\ Ahead(seen) = {} /\ Behind(seen) = {}
             /\ head \in upstream \/ (Based /\ head \in DOMAIN seen)
          THEN IF run[r].action = "commit_push" THEN Answer(r, TRUE)
               ELSE Go(r, "pr")
          ELSE run' = [run EXCEPT
                 ![r].pc = IF head \in upstream THEN "push" ELSE "push_new",
                 ![r].branch = head]
  /\ UNCHANGED <<clone, origin, made, Surroundings, moves>>

AfterPush(r) ==
  run' = [run EXCEPT ![r].pushed = TRUE,
            ![r].pc = IF run[r].action = "commit_push" THEN "done" ELSE "pr",
            ![r].ok = run[r].action = "commit_push"]

PushNew(r) ==
  /\ run[r].pc = "push_new"
  /\ LET b == run[r].branch IN
       IF Pushable(b)
       THEN /\ PushTo(b)
            /\ upstream' = upstream \cup {b}
            /\ AfterPush(r)
       ELSE Answer(r, FALSE) /\ UNCHANGED <<upstream, tracking, origin, made>>
  /\ UNCHANGED <<local, worktrees, head, dirty, index, Surroundings, moves>>

Push(r) ==
  /\ run[r].pc = "push"
  /\ IF head \in upstream /\ Pushable(head)
     THEN PushTo(head) /\ AfterPush(r)
     ELSE Answer(r, FALSE) /\ UNCHANGED <<tracking, origin, made>>
  /\ UNCHANGED <<clone, Surroundings, moves>>

(* runPrStep: an open pull request of the branch's name is answered with,  *)
(* otherwise one is created, which gh refuses for a branch that adds       *)
(* nothing or has one in the meantime.                                     *)
FindPr(r) ==
  /\ run[r].pc = "pr"
  /\ tracking' \in Refreshed
  /\ IF head \notin upstream THEN Answer(r, FALSE)
     ELSE IF head \in prs THEN Answer(r, TRUE)
     ELSE run' = [run EXCEPT ![r].pc = "open", ![r].branch = head]
  /\ UNCHANGED <<clone, origin, made, Surroundings, moves>>

CreatePr(r) ==
  /\ run[r].pc = "open"
  /\ LET b == run[r].branch IN
       IF b \in prs \/ remote[b] \subseteq remote[Main]
       THEN Answer(r, FALSE) /\ UNCHANGED prs
       ELSE Answer(r, TRUE) /\ prs' = prs \cup {b}
  /\ UNCHANGED <<clone, tracking, remote, marks, made, Surroundings, moves>>

(* git pull --ff-only.                                                     *)
Pull(r) ==
  /\ run[r].pc = "pull"
  /\ IF head \in upstream
     THEN /\ tracking' = With(tracking, head, remote[head])
          /\ IF local[head] \subseteq remote[head]
             THEN local' = With(local, head, remote[head]) /\ Answer(r, TRUE)
             ELSE /\ UNCHANGED local
                  /\ Answer(r, remote[head] \subseteq local[head])
     ELSE Answer(r, FALSE) /\ UNCHANGED <<local, tracking>>
  /\ UNCHANGED <<upstream, worktrees, head, dirty, index, origin, made,
                 Surroundings, moves>>

-----------------------------------------------------------------------------
(* The branch selector: checks out a branch of the clone, or one that only *)
(* the remote has, and uncommitted edits come along. One that it creates   *)
(* is checked out by a second request, if that comes.                      *)
Move ==
  /\ Spend("moves")
  /\ moves' = moves + 1

SelectBranch(b) ==
  /\ b \in (DOMAIN local \cup DOMAIN tracking) \ (worktrees \cup {head})
  /\ Move
  /\ head' = b
  /\ IF b \in DOMAIN local THEN UNCHANGED <<local, upstream>>
     ELSE local' = With(local, b, tracking[b]) /\ upstream' = upstream \cup {b}
  /\ UNCHANGED <<worktrees, dirty, index, tracking, origin, made, server, client,
                 dropped>>

SelectNewBranch(b) ==
  /\ b \notin DOMAIN local /\ left["moves"] > 0
  /\ local' = With(local, b, local[head])
  /\ UNCHANGED <<upstream, worktrees, head, dirty, index, tracking, origin, made,
                 server, client, moves, dropped, left>>

(* A thread on a pull request (preparePullRequestThread).                  *)

(* In this directory, gh pr checkout --force: the branch becomes the pull  *)
(* request's, and of the uncommitted edits only what git does not track    *)
(* remains when the branch existed.                                        *)
CheckoutPr(b) ==
  /\ b \in prs \ worktrees
  /\ Move
  /\ head' = b
  /\ local' = With(local, b, remote[b])
  /\ tracking' = With(tracking, b, remote[b])
  /\ upstream' = upstream \cup {b}
  /\ \E kept \in IF b \in DOMAIN local THEN SUBSET (dirty \ index) ELSE {dirty} :
       /\ dirty' = kept
       /\ index' = index \cap kept
       /\ dropped' = dropped \cup (dirty \ kept) \cup
            (IF b \in DOMAIN local THEN local[b] \ remote[b] ELSE {})
  /\ UNCHANGED <<worktrees, origin, made, server, client>>

(* In a worktree: one that has the branch is used as it is, a branch that  *)
(* is checked out here is refused, otherwise the branch is made the pull   *)
(* request's and a worktree is added for it. Git does neither to a branch  *)
(* that was checked out in the meantime.                                   *)
PrepareWorktree(b) ==
  /\ prep = NoPrep
  /\ b \in prs /\ b \notin worktrees /\ b # head
  /\ Spend("preparations")
  /\ prep' = [pc |-> "fetch", branch |-> b]
  /\ UNCHANGED <<repository, run, client, moves, dropped>>

FetchPr ==
  /\ prep.pc = "fetch"
  /\ LET b == prep.branch IN
       IF b = head
       THEN prep' = NoPrep /\ UNCHANGED <<local, tracking, upstream, dropped>>
       ELSE /\ local' = With(local, b, remote[b])
            /\ tracking' = With(tracking, b, remote[b])
            /\ upstream' = upstream \cup {b}
            /\ dropped' = dropped \cup
                 (IF b \in DOMAIN local THEN local[b] \ remote[b] ELSE {})
            /\ prep' = [prep EXCEPT !.pc = "add"]
  /\ UNCHANGED <<worktrees, head, dirty, index, origin, made, run, client, moves,
                 left>>

AddWorktree ==
  /\ prep.pc = "add"
  /\ worktrees' = worktrees \cup ({prep.branch} \ {head})
  /\ prep' = NoPrep
  /\ UNCHANGED <<local, upstream, head, dirty, index, tracking, origin, made, run,
                 client, moves, dropped, left>>

-----------------------------------------------------------------------------
ClientNext ==
  \/ ClickAction \/ OpenCommitDialog \/ CancelDialog
  \/ \E feature \in BOOLEAN : ConfirmCommit(feature) \/ ConfirmDefault(feature)
  \/ \E offer \in offers : ClickOffer(offer)
  \/ \E r \in Runs : ReceiveAnswer(r)
  \/ ReadStatus \/ ReadBranches

RunNext(r) ==
  \/ StepFails(r) \/ Begin(r) \/ Prepare(r) \/ ResolveName(r) \/ CreateBranch(r)
  \/ CheckoutNew(r) \/ Stage(r) \/ Commit(r) \/ PushStatus(r) \/ PushNew(r)
  \/ Push(r) \/ FindPr(r) \/ CreatePr(r) \/ Pull(r)

BranchNext ==
  \/ \E b \in Branches : \/ SelectBranch(b) \/ SelectNewBranch(b)
                         \/ CheckoutPr(b) \/ PrepareWorktree(b)
  \/ FetchPr \/ AddWorktree

Others == <<server, client, moves, dropped>>

AgentNext == \E e \in Edits : AgentEdits(e) /\ UNCHANGED <<Others, left>>

TeamNext ==
  /\ Spend("team")
  /\ \E b \in Branches : \/ \E e \in Edits : TeamPushes(b, e)
                         \/ TeamOpensPr(b)
                         \/ TeamMerges(b)
  /\ UNCHANGED Others

Next ==
  \/ ClientNext
  \/ \E r \in Runs : RunNext(r)
  \/ BranchNext \/ AgentNext \/ TeamNext

Spec == Init /\ [][Next]_vars

-----------------------------------------------------------------------------
(* Properties.                                                             *)

TypeOK ==
  /\ RepositoryTypeOK
  /\ \A r \in Runs : run[r].branch \in Branches /\ run[r].commit \subseteq Edits
  /\ prep.branch \in Branches
  /\ dropped \subseteq Edits

(* Whatever runs at the same time, no edit is lost: what was written is in *)
(* the working tree or in a branch, unless the user prepared a thread on a *)
(* pull request whose branch it overwrote (GitManager, GitCore).           *)
EditsKept ==
  /\ TypeOK
  /\ made \subseteq Held \cup dropped

(* HEAD is where the user was shown it to be.                              *)
Steady(r) == run'[r].at = moves'

Succeeds(r) ==
  /\ run[r].pc \notin {"idle", "done"}
  /\ run'[r].pc = "done" /\ run'[r].ok

(* A success means what the client then shows: the commit is on the branch *)
(* that was shown or asked for, it is on the remote if it was to be        *)
(* pushed, a pull request is open if one was to be created, and, when      *)
(* nothing new was written, the quick action is not the one that just      *)
(* succeeded (runStackedAction, resolveQuickAction).                       *)
AnswersTrue ==
  [][\A r \in Runs : Succeeds(r) /\ Steady(r) =>
       LET done == run'[r] IN
         /\ done.commit \subseteq local'[done.branch]
         /\ done.action \in Publishing => done.commit \subseteq remote'[done.branch]
         /\ done.action = "commit_push_pr" => done.branch \in prs'
         /\ dirty' = {} =>
              QuickAction(Status(tracking, head \in prs))' # done.action]_vars

(* The default branch is pushed only after the user was asked, unless HEAD *)
(* was moved to it behind the client's back, or the client could not tell  *)
(* the default branch when the action was asked for: its list of branches  *)
(* knows none without origin/HEAD, and before the list is read only main   *)
(* and master are known (runGitActionWithToast and pushCurrentBranch).     *)
DefaultConfirmed ==
  [][\A r \in Runs :
       /\ run[r].pc \in {"push", "push_new"} /\ run'[r] # run[r]
       /\ remote'[Main] # remote[Main]
       => run[r].confirmed \/ run[r].at # moves \/ ~run[r].told]_vars

=============================================================================

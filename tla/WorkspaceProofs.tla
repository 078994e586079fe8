-------------------------- MODULE WorkspaceProofs --------------------------
(***************************************************************************)
(* Proofs about what changes the workspace's files and its repository.      *)
(*                                                                          *)
(* The stacked git actions, for any number of requests, branches and edits  *)
(* and for any bounds: no edit is lost, the default branch is pushed only   *)
(* after the user was asked, and an answer that is shown is true.           *)
(*                                                                          *)
(* The checkpoints, for any thread, turns and edits, for any bounds and for *)
(* any settings that request no more turns than checkpoints are kept: the   *)
(* checkpoints of a thread are counted in order and each has its ref, and a *)
(* revert undoes the edits of the turns it takes back.                      *)
(***************************************************************************)
EXTENDS GitActions, CheckpointReactor, TLAPS, FiniteSetTheorems

(* The fields of a request, and what a request knows of branches.           *)
Fields == {"pc", "action", "feature", "confirmed", "default", "pr", "at",
           "told", "branch", "commit", "pushed", "ok"}

RequestOK(request) ==
  /\ DOMAIN request = Fields
  /\ request.branch \in Branches /\ request.commit \subseteq Edits
  /\ request.pc \in {"checkout", "push_new"} => request.branch \in DOMAIN local
  /\ request.pc = "open" => request.branch \in DOMAIN remote

RequestsOK ==
  /\ DOMAIN run = Runs
  /\ \A r \in Runs : RequestOK(run[r])

PrepOK ==
  /\ DOMAIN prep = {"pc", "branch"} /\ prep.branch \in Branches
  /\ prep.pc = "fetch" => prep.branch \in DOMAIN remote
  /\ prep.pc = "add" => prep.branch \in DOMAIN local

Kept == dropped \subseteq Edits /\ made \subseteq Held \cup dropped

(* The inductive invariant.                                                 *)
IInv == RepositoryTypeOK /\ RequestsOK /\ PrepOK /\ Kept

LEMMA IInvImplies == IInv => EditsKept
 BY DEF IInv, RequestsOK, RequestOK, PrepOK, Kept, EditsKept, TypeOK

--------------------
(* Refs.                                                                    *)

LEMMA RefsAre ==
  ASSUME NEW names
  PROVE names \in Refs <=>
          /\ names = [b \in DOMAIN names |-> names[b]]
          /\ DOMAIN names \subseteq Branches
          /\ \A b \in DOMAIN names : names[b] \subseteq Edits
 BY DEF Refs

(* Writing one ref.                                                         *)
LEMMA WithIs ==
  ASSUME NEW names \in Refs, NEW b \in Branches, NEW content \in SUBSET Edits
  PROVE /\ With(names, b, content) \in Refs
        /\ DOMAIN With(names, b, content) = DOMAIN names \cup {b}
        /\ With(names, b, content)[b] = content
        /\ \A n \in DOMAIN names \ {b} : With(names, b, content)[n] = names[n]
<1>1. DOMAIN names \subseteq Branches /\ \A n \in DOMAIN names : names[n] \subseteq Edits
 BY RefsAre
<1>2. /\ DOMAIN With(names, b, content) = DOMAIN names \cup {b}
      /\ With(names, b, content)[b] = content
      /\ \A n \in DOMAIN names \ {b} : With(names, b, content)[n] = names[n]
      /\ With(names, b, content) = [n \in DOMAIN With(names, b, content) |-> With(names, b, content)[n]]
 BY DEF With
<1>3. With(names, b, content) \in Refs BY <1>1, <1>2, RefsAre
<1> QED BY <1>2, <1>3

(* A ref that is written with what it held, and more, loses nothing.        *)
LEMMA WithKeeps ==
  ASSUME NEW names \in Refs, NEW b \in Branches, NEW content \in SUBSET Edits
  PROVE /\ content \subseteq Contents(With(names, b, content))
        /\ Contents(names) \subseteq
             Contents(With(names, b, content)) \cup
               (IF b \in DOMAIN names THEN names[b] \ content ELSE {})
<1> DEFINE new == With(names, b, content)
<1>1. /\ DOMAIN new = DOMAIN names \cup {b}
      /\ new[b] = content
      /\ \A n \in DOMAIN names \ {b} : new[n] = names[n]
 BY WithIs
<1> HIDE DEF new
<1>2. \A n \in DOMAIN new : new[n] \subseteq Contents(new) BY DEF Contents
<1>3. content \subseteq Contents(new) BY <1>1, <1>2
<1>4. \A n \in DOMAIN names :
        names[n] \subseteq Contents(new) \cup
          (IF b \in DOMAIN names THEN names[b] \ content ELSE {})
 BY <1>1, <1>2, <1>3
<1>5. Contents(names) \subseteq
        Contents(new) \cup (IF b \in DOMAIN names THEN names[b] \ content ELSE {})
 BY <1>4 DEF Contents
<1> QED BY <1>3, <1>5 DEF new

(* A refreshed view of the remote.                                          *)
LEMMA RefreshedKeeps ==
  ASSUME RepositoryTypeOK, NEW seen \in Refreshed
  PROVE /\ seen \in Refs /\ DOMAIN seen = DOMAIN tracking
        /\ \A b \in DOMAIN seen : b \in DOMAIN remote /\ seen[b] \subseteq remote[b]
<1>1. CASE seen = tracking BY <1>1 DEF RepositoryTypeOK
<1>2. CASE head \in upstream /\ seen = With(tracking, head, remote[head])
 <2>1. /\ head \in DOMAIN tracking /\ head \in DOMAIN remote
       /\ tracking \in Refs /\ remote \in Refs
  BY <1>2 DEF RepositoryTypeOK
 <2>2. head \in Branches /\ remote[head] \in SUBSET Edits BY <2>1, RefsAre
 <2>3. /\ seen \in Refs /\ DOMAIN seen = DOMAIN tracking
       /\ seen[head] = remote[head]
       /\ \A n \in DOMAIN tracking \ {head} : seen[n] = tracking[n]
  BY <1>2, <2>1, <2>2, WithIs
 <2> QED BY <2>1, <2>3 DEF RepositoryTypeOK
<1> QED BY <1>1, <1>2 DEF Refreshed

(* The requests stay sound when one of them changes and names are only added. *)
LEMMA RequestsKept ==
  ASSUME RequestsOK, DOMAIN local \subseteq DOMAIN local',
    DOMAIN remote \subseteq DOMAIN remote',
    DOMAIN run' = Runs, NEW r \in Runs,
    \A x \in Runs \ {r} : run'[x] = run[x],
    RequestOK(run[r])'
  PROVE RequestsOK'
 BY DEF RequestsOK, RequestOK

LEMMA RequestsUnchanged ==
  ASSUME RequestsOK, DOMAIN local \subseteq DOMAIN local',
    DOMAIN remote \subseteq DOMAIN remote', UNCHANGED run
  PROVE RequestsOK'
 BY DEF RequestsOK, RequestOK

(* What a step of a request leaves of it.                                   *)
LEMMA GoIs ==
  ASSUME RequestsOK, NEW r \in Runs, NEW pc, Go(r, pc)
  PROVE /\ DOMAIN run' = Runs /\ \A x \in Runs \ {r} : run'[x] = run[x]
        /\ DOMAIN run'[r] = Fields /\ run'[r].pc = pc
        /\ run'[r].branch = run[r].branch /\ run'[r].commit = run[r].commit
<1>1. DOMAIN run = Runs /\ DOMAIN run[r] = Fields BY DEF RequestsOK, RequestOK
<1> QED BY <1>1 DEF Go, Fields

LEMMA AnswerIs ==
  ASSUME RequestsOK, NEW r \in Runs, NEW ok, Answer(r, ok)
  PROVE /\ DOMAIN run' = Runs /\ \A x \in Runs \ {r} : run'[x] = run[x]
        /\ DOMAIN run'[r] = Fields /\ run'[r].pc = "done"
        /\ run'[r].branch = run[r].branch /\ run'[r].commit = run[r].commit
<1>1. DOMAIN run = Runs /\ DOMAIN run[r] = Fields BY DEF RequestsOK, RequestOK
<1> QED BY <1>1 DEF Answer, Fields

LEMMA AfterPushIs ==
  ASSUME RequestsOK, NEW r \in Runs, AfterPush(r)
  PROVE /\ DOMAIN run' = Runs /\ \A x \in Runs \ {r} : run'[x] = run[x]
        /\ DOMAIN run'[r] = Fields /\ run'[r].pc \in {"done", "pr"}
        /\ run'[r].branch = run[r].branch /\ run'[r].commit = run[r].commit
<1>1. DOMAIN run = Runs /\ DOMAIN run[r] = Fields BY DEF RequestsOK, RequestOK
<1> QED BY <1>1 DEF AfterPush, Fields

(* An answer needs nothing of the branches.                                 *)
LEMMA AnswerKeeps ==
  ASSUME RequestsOK, NEW r \in Runs, NEW ok, Answer(r, ok),
    DOMAIN local \subseteq DOMAIN local', DOMAIN remote \subseteq DOMAIN remote'
  PROVE RequestsOK'
<1>1. RequestOK(run[r])' BY AnswerIs DEF RequestsOK, RequestOK
<1> QED BY <1>1, AnswerIs, RequestsKept

(* A step to a place that needs nothing of the branches.                    *)
LEMMA GoKeeps ==
  ASSUME RequestsOK, NEW r \in Runs,
    NEW pc \in {"pull", "prepare", "stage", "name", "commit", "push_status",
                "push", "pr"},
    Go(r, pc),
    DOMAIN local \subseteq DOMAIN local', DOMAIN remote \subseteq DOMAIN remote'
  PROVE RequestsOK'
<1>1. RequestOK(run[r])' BY GoIs DEF RequestsOK, RequestOK
<1> QED BY <1>1, GoIs, RequestsKept

LEMMA PrepUnchanged ==
  ASSUME PrepOK, DOMAIN local \subseteq DOMAIN local',
    DOMAIN remote \subseteq DOMAIN remote', UNCHANGED prep
  PROVE PrepOK'
 BY DEF PrepOK

(* A status may refresh what was seen of the remote, and changes nothing else. *)
LEMMA RefreshKeeps ==
  ASSUME RepositoryTypeOK, Kept, PrepOK, tracking' \in Refreshed,
    UNCHANGED <<clone, origin, made, dropped, prep>>
  PROVE /\ RepositoryTypeOK' /\ Kept' /\ PrepOK'
        /\ local' = local /\ remote' = remote /\ head' = head /\ upstream' = upstream
<1>1. /\ tracking' \in Refs /\ DOMAIN tracking' = DOMAIN tracking
      /\ \A b \in DOMAIN tracking' : b \in DOMAIN remote /\ tracking'[b] \subseteq remote[b]
 BY RefreshedKeeps
<1>2. RepositoryTypeOK' BY <1>1 DEF RepositoryTypeOK, clone, origin
<1>3. Kept' /\ PrepOK' BY DEF Kept, PrepOK, Held, clone, origin
<1> QED BY <1>2, <1>3 DEF clone, origin

(* Staging everything.                                                      *)
LEMMA StageKeeps ==
  ASSUME RepositoryTypeOK, Kept, PrepOK, index' = dirty,
    UNCHANGED <<local, upstream, worktrees, head, dirty, tracking, origin, made,
                dropped, prep>>
  PROVE RepositoryTypeOK' /\ Kept' /\ PrepOK' /\ local' = local /\ remote' = remote
 BY DEF RepositoryTypeOK, Kept, PrepOK, Held, origin

(* Writing a branch of the clone with at least what it held.                *)
LEMMA LocalGrows ==
  ASSUME RepositoryTypeOK, Kept, NEW b \in Branches, NEW content \in SUBSET Edits,
    b \in DOMAIN local => local[b] \subseteq content,
    local' = With(local, b, content)
  PROVE /\ local' \in Refs /\ DOMAIN local' = DOMAIN local \cup {b}
        /\ content \cup Contents(local) \subseteq Contents(local')
<1>1. local \in Refs BY DEF RepositoryTypeOK
<1> QED BY <1>1, WithIs, WithKeeps

(* A push loses nothing of the remote, because it is a fast-forward.        *)
LEMMA PushToKeeps ==
  ASSUME RepositoryTypeOK, Kept, NEW b \in DOMAIN local, Pushable(b), PushTo(b),
    UNCHANGED <<local, worktrees, head, dirty, index, dropped>>,
    upstream' \subseteq upstream \cup {b}
  PROVE RepositoryTypeOK' /\ Kept' /\ DOMAIN remote \subseteq DOMAIN remote'
<1>1. /\ local \in Refs /\ tracking \in Refs /\ remote \in Refs BY DEF RepositoryTypeOK
<1>2. b \in Branches /\ local[b] \in SUBSET Edits BY <1>1, RefsAre
<1>3. /\ remote' \in Refs /\ DOMAIN remote' = DOMAIN remote \cup {b}
      /\ remote'[b] = local[b] /\ \A n \in DOMAIN remote \ {b} : remote'[n] = remote[n]
 BY <1>1, <1>2, WithIs DEF PushTo
<1>4. /\ tracking' \in Refs /\ DOMAIN tracking' = DOMAIN tracking \cup {b}
      /\ tracking'[b] = local[b]
      /\ \A n \in DOMAIN tracking \ {b} : tracking'[n] = tracking[n]
 <2>1. tracking' = With(tracking, b, local[b]) BY DEF PushTo
 <2>2. /\ With(tracking, b, local[b]) \in Refs
       /\ DOMAIN With(tracking, b, local[b]) = DOMAIN tracking \cup {b}
       /\ With(tracking, b, local[b])[b] = local[b]
       /\ \A n \in DOMAIN tracking \ {b} : With(tracking, b, local[b])[n] = tracking[n]
  BY <1>1, <1>2, WithIs, ZenonT(40)
 <2> QED BY <2>1, <2>2
<1>5. Contents(remote) \subseteq Contents(remote') BY <1>1, <1>2, WithKeeps DEF PushTo, Pushable
<1>6. RepositoryTypeOK'
 <2>1. UNCHANGED <<prs, marks, made>> BY DEF PushTo
 <2> QED BY <1>3, <1>4, <2>1 DEF RepositoryTypeOK
<1>7. Kept' BY <1>5 DEF Kept, Held, PushTo
<1> QED BY <1>3, <1>6, <1>7

--------------------
(* The client: it sends requests and takes answers.                         *)

LEMMA RepositoryUnchanged ==
  ASSUME IInv, UNCHANGED <<repository, prep, dropped>>, RequestsOK' PROVE IInv'
<1>1. UNCHANGED <<local, tracking, upstream, worktrees, head, dirty, index, remote,
                  prs, marks, made, prep, dropped>>
 BY DEF repository, clone, origin
<1>2. RepositoryTypeOK' BY <1>1 DEF IInv, RepositoryTypeOK
<1>3. PrepOK' /\ Kept' BY <1>1 DEF IInv, PrepOK, Kept, Held
<1> QED BY <1>2, <1>3 DEF IInv

LEMMA NewRequestOK ==
  ASSUME NEW action, NEW feature, NEW confirmed, NEW default, NEW pr, NEW at, NEW told
  PROVE /\ RequestOK(Request(action, feature, confirmed, default, pr, at, told))
        /\ Request(action, feature, confirmed, default, pr, at, told).pc = "begin"
        /\ RequestOK(Idle)
<1>1. Main \in Branches BY BranchesAssumption
<1>2. RequestOK(Request(action, feature, confirmed, default, pr, at, told))
 BY <1>1 DEF RequestOK, Request, Fields
<1>3. RequestOK(Idle) BY <1>1 DEF RequestOK, Idle, Request, Fields
<1> QED BY <1>2, <1>3 DEF Request

(* A request that is put in a free place, or a place that becomes free.     *)
LEMMA PlaceKeeps ==
  ASSUME RequestsOK, NEW r \in Runs, NEW request, RequestOK(request),
    run' = [run EXCEPT ![r] = request], UNCHANGED <<local, remote>>
  PROVE RequestsOK'
<1>1. /\ DOMAIN run' = Runs /\ run'[r] = request
      /\ \A x \in Runs \ {r} : run'[x] = run[x]
 BY DEF RequestsOK
<1>2. RequestOK(run[r])' BY <1>1 DEF RequestOK
<1> QED BY <1>1, <1>2, RequestsKept

LEMMA SendKeeps ==
  ASSUME RequestsOK, NEW request, RequestOK(request), Send(request),
    UNCHANGED <<local, remote>>
  PROVE RequestsOK'
<1>1. PICK r \in Runs : run' = [run EXCEPT ![r] = request] BY DEF Send
<1> QED BY <1>1, PlaceKeeps

LEMMA AskKeeps ==
  ASSUME RequestsOK, NEW action, NEW default, NEW pr, NEW at, NEW told, NEW closes,
    Ask(action, default, pr, at, told, closes), UNCHANGED <<local, remote>>
  PROVE RequestsOK'
<1>1. CASE UNCHANGED run BY <1>1, RequestsUnchanged
<1>2. CASE Send(Request(action, FALSE, FALSE, default, pr, at, told))
 BY <1>2, SendKeeps, NewRequestOK
<1> QED BY <1>1, <1>2 DEF Ask

LEMMA ClientKeeps == ASSUME IInv, ClientNext PROVE IInv'
<1>1. RequestsOK BY DEF IInv
<1>2. CASE ClickAction
 <2>1. UNCHANGED <<repository, local, remote, prep, dropped>>
  BY <1>2 DEF ClickAction, repository, clone, origin
 <2>2. RequestsOK' BY <1>1, <1>2, <2>1, AskKeeps DEF ClickAction
 <2> QED BY <2>1, <2>2, RepositoryUnchanged
<1>3. CASE OpenCommitDialog \/ CancelDialog \/ ReadBranches
 <2>1. UNCHANGED <<repository, local, remote, run, prep, dropped>>
  BY <1>3 DEF OpenCommitDialog, CancelDialog, ReadBranches, repository, clone, origin, server
 <2> QED BY <1>1, <2>1, RequestsUnchanged, RepositoryUnchanged
<1>4. ASSUME NEW feature \in BOOLEAN, ConfirmCommit(feature) \/ ConfirmDefault(feature)
    PROVE  IInv'
 <2>1. UNCHANGED <<repository, local, remote, prep, dropped>>
  BY <1>4 DEF ConfirmCommit, ConfirmDefault, repository, clone, origin
 <2>2. CASE ConfirmCommit(feature)
  <3>1. PICK request : RequestOK(request) /\ Send(request) BY <2>2, NewRequestOK DEF ConfirmCommit
  <3> QED BY <1>1, <2>1, <3>1, SendKeeps, RepositoryUnchanged
 <2>3. CASE ConfirmDefault(feature)
  <3>1. PICK request : RequestOK(request) /\ Send(request)
   BY <2>3, NewRequestOK DEF ConfirmDefault
  <3> QED BY <1>1, <2>1, <3>1, SendKeeps, RepositoryUnchanged
 <2> QED BY <1>4, <2>2, <2>3
<1>5. ASSUME NEW offer \in offers, ClickOffer(offer) PROVE IInv'
 <2>1. UNCHANGED <<repository, local, remote, prep, dropped>>
  BY <1>5 DEF ClickOffer, repository, clone, origin
 <2>2. RequestsOK' BY <1>1, <1>5, <2>1, AskKeeps DEF ClickOffer
 <2> QED BY <2>1, <2>2, RepositoryUnchanged
<1>6. ASSUME NEW r \in Runs, ReceiveAnswer(r) PROVE IInv'
 <2>1. UNCHANGED <<repository, local, remote, prep, dropped>>
  BY <1>6 DEF ReceiveAnswer, repository, clone, origin
 <2>2. RequestsOK' BY <1>1, <1>6, <2>1, NewRequestOK, PlaceKeeps DEF ReceiveAnswer
 <2> QED BY <2>1, <2>2, RepositoryUnchanged
<1>7. CASE ReadStatus
 <2>1. /\ tracking' \in Refreshed
       /\ UNCHANGED <<clone, origin, made, run, prep, dropped>>
  BY <1>7 DEF ReadStatus, server
 <2>2. /\ RepositoryTypeOK' /\ Kept' /\ PrepOK'
       /\ local' = local /\ remote' = remote
  BY <2>1, RefreshKeeps DEF IInv
 <2> QED BY <1>1, <2>1, <2>2, RequestsUnchanged DEF IInv
<1> QED BY <1>2, <1>3, <1>4, <1>5, <1>6, <1>7 DEF ClientNext

--------------------
(* The steps of a request.                                                  *)

LEMMA StepFailsKeeps == ASSUME IInv, NEW r \in Runs, StepFails(r) PROVE IInv'
<1>1. UNCHANGED <<repository, local, remote, prep, dropped>> /\ Answer(r, FALSE)
 BY DEF StepFails, repository, clone, origin
<1> QED BY <1>1, AnswerKeeps, RepositoryUnchanged DEF IInv

LEMMA BeginKeeps == ASSUME IInv, NEW r \in Runs, Begin(r) PROVE IInv'
<1>1. RepositoryTypeOK' /\ Kept' /\ PrepOK' /\ local' = local /\ remote' = remote
 BY RefreshKeeps DEF IInv, Begin, Surroundings
<1>2. /\ DOMAIN run = Runs /\ DOMAIN run[r] = Fields /\ run[r].commit \subseteq Edits
      /\ head \in Branches
 BY RefsAre DEF IInv, RequestsOK, RequestOK, RepositoryTypeOK
<1>3. /\ DOMAIN run' = Runs /\ \A x \in Runs \ {r} : run'[x] = run[x]
      /\ DOMAIN run'[r] = Fields /\ run'[r].pc \in {"pull", "prepare", "stage"}
      /\ run'[r].branch = head /\ run'[r].commit = run[r].commit
 BY <1>2 DEF Begin, Fields
<1>4. RequestOK(run[r])' BY <1>1, <1>2, <1>3 DEF RequestOK
<1> QED BY <1>1, <1>3, <1>4, RequestsKept DEF IInv

LEMMA PrepareKeeps == ASSUME IInv, NEW r \in Runs, Prepare(r) PROVE IInv'
<1>1. RepositoryTypeOK' /\ Kept' /\ PrepOK' /\ local' = local /\ remote' = remote
 BY StageKeeps DEF IInv, Prepare, Surroundings
<1>2. Answer(r, FALSE) \/ Go(r, "name") BY DEF Prepare
<1> QED BY <1>1, <1>2, AnswerKeeps, GoKeeps DEF IInv

LEMMA ResolveNameKeeps == ASSUME IInv, NEW r \in Runs, ResolveName(r) PROVE IInv'
<1>1. PICK i \in 1..Len(Features) :
        run' = [run EXCEPT ![r].branch = Features[i], ![r].pc = "create"]
 BY DEF ResolveName, FreeFeatures
<1>2. /\ DOMAIN run = Runs /\ DOMAIN run[r] = Fields /\ run[r].commit \subseteq Edits
      /\ Features[i] \in Branches
 BY FeaturesAreBranches DEF IInv, RequestsOK, RequestOK
<1>3. /\ DOMAIN run' = Runs /\ \A x \in Runs \ {r} : run'[x] = run[x]
      /\ DOMAIN run'[r] = Fields /\ run'[r].pc = "create"
      /\ run'[r].branch = Features[i] /\ run'[r].commit = run[r].commit
 BY <1>1, <1>2 DEF Fields
<1>4. RequestOK(run[r])' BY <1>2, <1>3 DEF RequestOK
<1>5. UNCHANGED <<repository, local, remote, prep, dropped>>
 BY DEF ResolveName, Surroundings, repository, clone, origin
<1> QED BY <1>3, <1>4, <1>5, RequestsKept, RepositoryUnchanged DEF IInv

LEMMA CreateBranchKeeps == ASSUME IInv, NEW r \in Runs, CreateBranch(r) PROVE IInv'
<1> DEFINE b == run[r].branch
<1>1. /\ UNCHANGED <<upstream, worktrees, head, dirty, index, tracking, remote, prs, marks, made,
                     prep, dropped>>
 BY DEF CreateBranch, Surroundings, origin
<1>2. CASE Answer(r, FALSE) /\ UNCHANGED local
 <2>1. UNCHANGED <<repository, local, remote, prep, dropped>>
  BY <1>1, <1>2 DEF repository, clone, origin
 <2> QED BY <1>2, <2>1, AnswerKeeps, RepositoryUnchanged DEF IInv
<1>3. CASE b \notin DOMAIN local /\ Go(r, "checkout") /\ local' = With(local, b, local[head])
 <2>1. b \in Branches /\ local[head] \in SUBSET Edits
  BY RefsAre DEF IInv, RequestsOK, RequestOK, RepositoryTypeOK
 <2>2. /\ local' \in Refs /\ DOMAIN local' = DOMAIN local \cup {b}
       /\ Contents(local) \subseteq Contents(local')
  BY <1>3, <2>1, LocalGrows DEF IInv
 <2>3. RequestOK(run[r])' BY <1>3, <2>2, GoIs DEF IInv, RequestsOK, RequestOK
 <2>4. RequestsOK' BY <1>1, <1>3, <2>2, <2>3, GoIs, RequestsKept DEF IInv
 <2>5. RepositoryTypeOK' BY <1>1, <2>2 DEF IInv, RepositoryTypeOK
 <2>6. Kept' /\ PrepOK' BY <1>1, <2>2, PrepUnchanged DEF IInv, Kept, Held
 <2> QED BY <2>4, <2>5, <2>6 DEF IInv
<1> QED BY <1>2, <1>3 DEF CreateBranch

LEMMA CheckoutNewKeeps == ASSUME IInv, NEW r \in Runs, CheckoutNew(r) PROVE IInv'
<1>1. UNCHANGED <<local, upstream, worktrees, dirty, index, tracking, remote, prs, marks, made,
                  prep, dropped>>
 BY DEF CheckoutNew, Surroundings, origin
<1>2. CASE Answer(r, FALSE) /\ UNCHANGED head
 <2>1. UNCHANGED <<repository, local, remote, prep, dropped>>
  BY <1>1, <1>2 DEF repository, clone, origin
 <2> QED BY <1>2, <2>1, AnswerKeeps, RepositoryUnchanged DEF IInv
<1>3. CASE /\ run[r].branch \notin worktrees /\ head' = run[r].branch
           /\ run' = [run EXCEPT ![r].pc = "commit", ![r].at = moves']
 <2>1. /\ DOMAIN run = Runs /\ DOMAIN run[r] = Fields /\ run[r].commit \subseteq Edits
       /\ run[r].branch \in Branches /\ run[r].branch \in DOMAIN local
  BY DEF IInv, RequestsOK, RequestOK, CheckoutNew
 <2>2. /\ DOMAIN run' = Runs /\ \A x \in Runs \ {r} : run'[x] = run[x]
       /\ DOMAIN run'[r] = Fields /\ run'[r].pc = "commit"
       /\ run'[r].branch = run[r].branch /\ run'[r].commit = run[r].commit
  BY <1>3, <2>1 DEF Fields
 <2>3. RequestOK(run[r])' BY <2>1, <2>2 DEF RequestOK
 <2>4. RequestsOK' BY <1>1, <2>2, <2>3, RequestsKept DEF IInv
 <2>5. RepositoryTypeOK' BY <1>1, <1>3, <2>1 DEF IInv, RepositoryTypeOK
 <2>6. Kept' /\ PrepOK' BY <1>1, PrepUnchanged DEF IInv, Kept, Held
 <2> QED BY <2>4, <2>5, <2>6 DEF IInv
<1> QED BY <1>2, <1>3 DEF CheckoutNew

LEMMA StageStepKeeps == ASSUME IInv, NEW r \in Runs, Stage(r) PROVE IInv'
<1>1. RepositoryTypeOK' /\ Kept' /\ PrepOK' /\ local' = local /\ remote' = remote
 BY StageKeeps DEF IInv, Stage, Surroundings
<1>2. Answer(r, TRUE) \/ Go(r, "commit") \/ Go(r, "push_status") BY DEF Stage
<1> QED BY <1>1, <1>2, AnswerKeeps, GoKeeps DEF IInv

LEMMA CommitKeeps == ASSUME IInv, NEW r \in Runs, Commit(r) PROVE IInv'
<1>1. UNCHANGED <<upstream, worktrees, head, tracking, remote, prs, marks, made, prep, dropped>>
 BY DEF Commit, Surroundings, origin
<1>2. CASE Answer(r, FALSE) /\ UNCHANGED <<local, dirty, index>>
 <2>1. UNCHANGED <<repository, local, remote, prep, dropped>>
  BY <1>1, <1>2 DEF repository, clone, origin
 <2> QED BY <1>2, <2>1, AnswerKeeps, RepositoryUnchanged DEF IInv
<1>3. CASE /\ local' = With(local, head, local[head] \cup index)
           /\ dirty' = dirty \ index /\ index' = {}
           /\ run' = [run EXCEPT ![r].commit = index, ![r].pc = AfterCommit(r),
                                 ![r].ok = run[r].action = "commit"]
 <2>1. /\ head \in Branches /\ head \in DOMAIN local /\ index \subseteq Edits
       /\ local[head] \cup index \in SUBSET Edits
  BY RefsAre DEF IInv, RepositoryTypeOK
 <2>2. /\ local' \in Refs /\ DOMAIN local' = DOMAIN local
       /\ index \cup Contents(local) \subseteq Contents(local')
  BY <1>3, <2>1, LocalGrows DEF IInv
 <2>3. /\ DOMAIN run = Runs /\ DOMAIN run[r] = Fields /\ run[r].branch \in Branches
  BY DEF IInv, RequestsOK, RequestOK
 <2>4. /\ DOMAIN run' = Runs /\ \A x \in Runs \ {r} : run'[x] = run[x]
       /\ DOMAIN run'[r] = Fields /\ run'[r].pc \in {"done", "push_status"}
       /\ run'[r].branch = run[r].branch /\ run'[r].commit = index
  BY <1>3, <2>3 DEF Fields, AfterCommit
 <2>5. RequestOK(run[r])' BY <2>1, <2>3, <2>4 DEF RequestOK
 <2>6. RequestsOK' BY <1>1, <2>2, <2>4, <2>5, RequestsKept DEF IInv
 <2>7. RepositoryTypeOK' BY <1>1, <1>3, <2>2 DEF IInv, RepositoryTypeOK
 <2>8. Kept' /\ PrepOK' BY <1>1, <1>3, <2>2, PrepUnchanged DEF IInv, Kept, Held
 <2> QED BY <2>6, <2>7, <2>8 DEF IInv
<1> QED BY <1>2, <1>3 DEF Commit

LEMMA PushStatusKeeps == ASSUME IInv, NEW r \in Runs, PushStatus(r) PROVE IInv'
<1>1. tracking' \in Refreshed /\ UNCHANGED <<clone, origin, made, dropped, prep>>
 BY DEF PushStatus, Surroundings
<1>2. RepositoryTypeOK' /\ Kept' /\ PrepOK' /\ local' = local /\ remote' = remote
 BY <1>1, RefreshKeeps DEF IInv
<1>3. CASE Answer(r, TRUE) \/ Go(r, "pr") BY <1>2, <1>3, AnswerKeeps, GoKeeps DEF IInv
<1>4. CASE run' = [run EXCEPT
                 ![r].pc = IF head \in upstream THEN "push" ELSE "push_new",
                 ![r].branch = head]
 <2>1. /\ DOMAIN run = Runs /\ DOMAIN run[r] = Fields /\ run[r].commit \subseteq Edits
       /\ head \in DOMAIN local /\ head \in Branches
  BY RefsAre DEF IInv, RequestsOK, RequestOK, RepositoryTypeOK
 <2>2. /\ DOMAIN run' = Runs /\ \A x \in Runs \ {r} : run'[x] = run[x]
       /\ DOMAIN run'[r] = Fields /\ run'[r].pc \in {"push", "push_new"}
       /\ run'[r].branch = head /\ run'[r].commit = run[r].commit
  BY <1>4, <2>1 DEF Fields
 <2>3. RequestOK(run[r])' BY <1>2, <2>1, <2>2 DEF RequestOK
 <2> QED BY <1>2, <2>2, <2>3, RequestsKept DEF IInv
<1> QED BY <1>3, <1>4 DEF PushStatus

LEMMA PushNewKeeps == ASSUME IInv, NEW r \in Runs, PushNew(r) PROVE IInv'
<1> DEFINE b == run[r].branch
<1>1. /\ UNCHANGED <<local, worktrees, head, dirty, index, prep, dropped>>
      /\ b \in DOMAIN local
 BY DEF PushNew, Surroundings, IInv, RequestsOK, RequestOK
<1>2. CASE Answer(r, FALSE) /\ UNCHANGED <<upstream, tracking, origin, made>>
 <2>1. UNCHANGED <<repository, local, remote, prep, dropped>>
  BY <1>1, <1>2 DEF repository, clone, origin
 <2> QED BY <1>2, <2>1, AnswerKeeps, RepositoryUnchanged DEF IInv
<1>3. CASE Pushable(b) /\ PushTo(b) /\ upstream' = upstream \cup {b} /\ AfterPush(r)
 <2>1. RepositoryTypeOK' /\ Kept' /\ DOMAIN remote \subseteq DOMAIN remote'
  BY <1>1, <1>3, PushToKeeps DEF IInv
 <2>2. RequestOK(run[r])' BY <1>3, AfterPushIs DEF IInv, RequestsOK, RequestOK
 <2>3. RequestsOK' /\ PrepOK'
  BY <1>1, <1>3, <2>1, <2>2, AfterPushIs, RequestsKept, PrepUnchanged DEF IInv
 <2> QED BY <2>1, <2>3 DEF IInv
<1> QED BY <1>2, <1>3 DEF PushNew

LEMMA PushKeeps == ASSUME IInv, NEW r \in Runs, Push(r) PROVE IInv'
<1>1. UNCHANGED <<clone, local, upstream, worktrees, head, dirty, index, prep, dropped>>
 BY DEF Push, Surroundings, clone
<1>2. CASE Answer(r, FALSE) /\ UNCHANGED <<tracking, origin, made>>
 <2>1. UNCHANGED <<repository, local, remote, prep, dropped>> BY <1>1, <1>2 DEF repository, origin
 <2> QED BY <1>2, <2>1, AnswerKeeps, RepositoryUnchanged DEF IInv
<1>3. CASE Pushable(head) /\ PushTo(head) /\ AfterPush(r)
 <2>1. head \in DOMAIN local BY DEF IInv, RepositoryTypeOK
 <2>2. RepositoryTypeOK' /\ Kept' /\ DOMAIN remote \subseteq DOMAIN remote'
  BY <1>1, <1>3, <2>1, PushToKeeps DEF IInv
 <2>3. RequestOK(run[r])' BY <1>3, AfterPushIs DEF IInv, RequestsOK, RequestOK
 <2>4. RequestsOK' /\ PrepOK'
  BY <1>1, <1>3, <2>2, <2>3, AfterPushIs, RequestsKept, PrepUnchanged DEF IInv
 <2> QED BY <2>2, <2>4 DEF IInv
<1> QED BY <1>2, <1>3 DEF Push

LEMMA FindPrKeeps == ASSUME IInv, NEW r \in Runs, FindPr(r) PROVE IInv'
<1>1. RepositoryTypeOK' /\ Kept' /\ PrepOK' /\ local' = local /\ remote' = remote
 BY RefreshKeeps DEF IInv, FindPr, Surroundings
<1>2. CASE Answer(r, FALSE) \/ Answer(r, TRUE) BY <1>1, <1>2, AnswerKeeps DEF IInv
<1>3. CASE head \in upstream /\ run' = [run EXCEPT ![r].pc = "open", ![r].branch = head]
 <2>1. /\ DOMAIN run = Runs /\ DOMAIN run[r] = Fields /\ run[r].commit \subseteq Edits
       /\ head \in DOMAIN remote /\ head \in Branches
  BY <1>3, RefsAre DEF IInv, RequestsOK, RequestOK, RepositoryTypeOK
 <2>2. /\ DOMAIN run' = Runs /\ \A x \in Runs \ {r} : run'[x] = run[x]
       /\ DOMAIN run'[r] = Fields /\ run'[r].pc = "open"
       /\ run'[r].branch = head /\ run'[r].commit = run[r].commit
  BY <1>3, <2>1 DEF Fields
 <2>3. RequestOK(run[r])' BY <1>1, <2>1, <2>2 DEF RequestOK
 <2> QED BY <1>1, <2>2, <2>3, RequestsKept DEF IInv
<1> QED BY <1>2, <1>3 DEF FindPr

LEMMA CreatePrKeeps == ASSUME IInv, NEW r \in Runs, CreatePr(r) PROVE IInv'
<1>1. UNCHANGED <<local, upstream, worktrees, head, dirty, index, tracking, remote, made,
                  marks, prep, dropped>>
 BY DEF CreatePr, Surroundings, clone
<1>2. (Answer(r, FALSE) \/ Answer(r, TRUE)) /\ prs' \subseteq prs \cup {run[r].branch}
 BY DEF CreatePr
<1>3. run[r].branch \in DOMAIN remote BY DEF CreatePr, IInv, RequestsOK, RequestOK
<1>4. RequestsOK' BY <1>1, <1>2, AnswerKeeps DEF IInv
<1>5. RepositoryTypeOK' BY <1>1, <1>2, <1>3 DEF IInv, RepositoryTypeOK
<1>6. Kept' /\ PrepOK' BY <1>1, PrepUnchanged DEF IInv, Kept, Held
<1> QED BY <1>4, <1>5, <1>6 DEF IInv

LEMMA PullKeeps == ASSUME IInv, NEW r \in Runs, Pull(r) PROVE IInv'
<1>1. UNCHANGED <<upstream, worktrees, head, dirty, index, remote, prs, marks, made,
                  prep, dropped>>
 BY DEF Pull, Surroundings, origin
<1>2. PICK ok : Answer(r, ok) BY DEF Pull
<1>3. CASE UNCHANGED <<local, tracking>>
 <2>1. UNCHANGED <<repository, local, remote, prep, dropped>>
  BY <1>1, <1>3 DEF repository, clone, origin
 <2> QED BY <1>2, <2>1, AnswerKeeps, RepositoryUnchanged DEF IInv
<1>4. CASE /\ head \in upstream /\ tracking' = With(tracking, head, remote[head])
           /\ \/ UNCHANGED local
              \/ local[head] \subseteq remote[head] /\ local' = With(local, head, remote[head])
 <2>1. /\ head \in Branches /\ head \in DOMAIN local /\ head \in DOMAIN tracking
       /\ head \in DOMAIN remote /\ remote[head] \in SUBSET Edits
  BY <1>4, RefsAre DEF IInv, RepositoryTypeOK
 <2>2. /\ tracking' \in Refs /\ DOMAIN tracking' = DOMAIN tracking
       /\ \A b \in DOMAIN tracking' : b \in DOMAIN remote /\ tracking'[b] \subseteq remote[b]
  <3>1. tracking' \in Refreshed BY <1>4, <2>1 DEF Refreshed
  <3> QED BY <3>1, RefreshedKeeps DEF IInv
 <2>3. /\ local' \in Refs /\ DOMAIN local' = DOMAIN local
       /\ Contents(local) \subseteq Contents(local')
  <3>1. CASE UNCHANGED local BY <3>1 DEF IInv, RepositoryTypeOK
  <3>2. CASE local[head] \subseteq remote[head] /\ local' = With(local, head, remote[head])
   BY <2>1, <3>2, LocalGrows DEF IInv
  <3> QED BY <1>4, <3>1, <3>2
 <2>4. RepositoryTypeOK' BY <1>1, <2>2, <2>3 DEF IInv, RepositoryTypeOK
 <2>5. Kept' /\ PrepOK' BY <1>1, <2>3, PrepUnchanged DEF IInv, Kept, Held
 <2>6. RequestsOK' BY <1>1, <1>2, <2>3, AnswerKeeps DEF IInv
 <2> QED BY <2>4, <2>5, <2>6 DEF IInv
<1> QED BY <1>3, <1>4 DEF Pull

LEMMA RunKeeps == ASSUME IInv, NEW r \in Runs, RunNext(r) PROVE IInv'
BY StepFailsKeeps, BeginKeeps, PrepareKeeps, ResolveNameKeeps, CreateBranchKeeps,
   CheckoutNewKeeps, StageStepKeeps, CommitKeeps, PushStatusKeeps, PushNewKeeps, PushKeeps,
   FindPrKeeps, CreatePrKeeps, PullKeeps DEF RunNext

--------------------
(* The branch selector and the threads on pull requests.                    *)

LEMMA SelectBranchKeeps == ASSUME IInv, NEW b \in Branches, SelectBranch(b) PROVE IInv'
<1>1. /\ UNCHANGED <<worktrees, dirty, index, tracking, remote, prs, marks, made, run, prep, dropped>>
      /\ b \notin worktrees /\ head' = b
 BY DEF SelectBranch, origin, server
<1>2. /\ local' \in Refs /\ DOMAIN local' = DOMAIN local \cup {b}
      /\ Contents(local) \subseteq Contents(local')
      /\ upstream' \subseteq DOMAIN local' \cap DOMAIN tracking
 <2>1. CASE b \in DOMAIN local /\ UNCHANGED <<local, upstream>> BY <2>1 DEF IInv, RepositoryTypeOK
 <2>2. CASE /\ b \notin DOMAIN local /\ b \in DOMAIN tracking
            /\ local' = With(local, b, tracking[b]) /\ upstream' = upstream \cup {b}
  <3>1. tracking[b] \in SUBSET Edits BY <2>2, RefsAre DEF IInv, RepositoryTypeOK
  <3>2. /\ local' \in Refs /\ DOMAIN local' = DOMAIN local \cup {b}
        /\ Contents(local) \subseteq Contents(local')
   BY <2>2, <3>1, LocalGrows DEF IInv
  <3> QED BY <2>2, <3>2 DEF IInv, RepositoryTypeOK
 <2> QED BY <2>1, <2>2 DEF SelectBranch
<1>3. RepositoryTypeOK' BY <1>1, <1>2 DEF IInv, RepositoryTypeOK
<1>4. Kept' /\ PrepOK' /\ RequestsOK'
 BY <1>1, <1>2, PrepUnchanged, RequestsUnchanged DEF IInv, Kept, Held
<1> QED BY <1>3, <1>4 DEF IInv

LEMMA SelectNewBranchKeeps ==
  ASSUME IInv, NEW b \in Branches, SelectNewBranch(b) PROVE IInv'
<1>1. /\ UNCHANGED <<upstream, worktrees, dirty, index, tracking, remote, prs, marks, made, run,
                     prep, dropped, head>>
      /\ b \notin DOMAIN local /\ local' = With(local, b, local[head])
 BY DEF SelectNewBranch, origin, server
<1>2. local[head] \in SUBSET Edits BY RefsAre DEF IInv, RepositoryTypeOK
<1>3. /\ local' \in Refs /\ DOMAIN local' = DOMAIN local \cup {b}
      /\ Contents(local) \subseteq Contents(local')
 BY <1>1, <1>2, LocalGrows DEF IInv
<1>4. RepositoryTypeOK' BY <1>1, <1>3 DEF IInv, RepositoryTypeOK
<1>5. Kept' /\ PrepOK' /\ RequestsOK'
 BY <1>1, <1>3, PrepUnchanged, RequestsUnchanged DEF IInv, Kept, Held
<1> QED BY <1>4, <1>5 DEF IInv

(* A branch that becomes what the remote has loses what is recorded as      *)
(* overwritten, and nothing else.                                           *)
LEMMA OverwriteIs ==
  ASSUME IInv, NEW b \in DOMAIN remote,
    local' = With(local, b, remote[b]), tracking' = With(tracking, b, remote[b]),
    upstream' = upstream \cup {b}, UNCHANGED remote
  PROVE /\ local' \in Refs /\ DOMAIN local' = DOMAIN local \cup {b}
        /\ tracking' \in Refs
        /\ upstream' \subseteq DOMAIN local' \cap DOMAIN tracking'
        /\ \A n \in DOMAIN tracking' : n \in DOMAIN remote /\ tracking'[n] \subseteq remote[n]
        /\ Contents(local) \subseteq Contents(local') \cup
             (IF b \in DOMAIN local THEN local[b] \ remote[b] ELSE {})
        /\ (IF b \in DOMAIN local THEN local[b] \ remote[b] ELSE {}) \subseteq Edits
<1>1. local \in Refs /\ tracking \in Refs /\ remote \in Refs BY DEF IInv, RepositoryTypeOK
<1>2. b \in Branches /\ remote[b] \in SUBSET Edits BY <1>1, RefsAre
<1>3. /\ local' \in Refs /\ DOMAIN local' = DOMAIN local \cup {b}
      /\ Contents(local) \subseteq Contents(local') \cup
           (IF b \in DOMAIN local THEN local[b] \ remote[b] ELSE {})
 BY <1>1, <1>2, WithIs, WithKeeps
<1>4. /\ tracking' \in Refs /\ DOMAIN tracking' = DOMAIN tracking \cup {b}
      /\ tracking'[b] = remote[b]
      /\ \A n \in DOMAIN tracking \ {b} : tracking'[n] = tracking[n]
 BY <1>1, <1>2, WithIs
<1>5. \A n \in DOMAIN tracking' : n \in DOMAIN remote /\ tracking'[n] \subseteq remote[n]
 BY <1>4 DEF IInv, RepositoryTypeOK
<1>6. upstream' \subseteq DOMAIN local' \cap DOMAIN tracking'
 BY <1>3, <1>4 DEF IInv, RepositoryTypeOK
<1>7. (IF b \in DOMAIN local THEN local[b] \ remote[b] ELSE {}) \subseteq Edits BY <1>1, RefsAre
<1> QED BY <1>3, <1>4, <1>5, <1>6, <1>7

LEMMA CheckoutPrKeeps == ASSUME IInv, NEW b \in Branches, CheckoutPr(b) PROVE IInv'
<1> DEFINE gone == IF b \in DOMAIN local THEN local[b] \ remote[b] ELSE {}
<1>1. /\ UNCHANGED <<worktrees, remote, prs, marks, made, run, prep>>
      /\ b \in DOMAIN remote /\ b \notin worktrees /\ head' = b
      /\ local' = With(local, b, remote[b]) /\ tracking' = With(tracking, b, remote[b])
      /\ upstream' = upstream \cup {b}
 BY DEF CheckoutPr, IInv, RepositoryTypeOK, origin, server
<1>2. PICK kept : /\ kept \subseteq dirty /\ dirty' = kept /\ index' = index \cap kept
                  /\ dropped' = dropped \cup (dirty \ kept) \cup gone
 BY DEF CheckoutPr
<1>3. /\ local' \in Refs /\ DOMAIN local' = DOMAIN local \cup {b}
      /\ tracking' \in Refs
      /\ upstream' \subseteq DOMAIN local' \cap DOMAIN tracking'
      /\ \A n \in DOMAIN tracking' : n \in DOMAIN remote /\ tracking'[n] \subseteq remote[n]
      /\ Contents(local) \subseteq Contents(local') \cup gone
      /\ gone \subseteq Edits
 BY <1>1, OverwriteIs
<1> HIDE DEF gone
<1>4. RepositoryTypeOK' BY <1>1, <1>2, <1>3 DEF IInv, RepositoryTypeOK
<1>5. Kept' BY <1>1, <1>2, <1>3 DEF IInv, RepositoryTypeOK, Kept, Held
<1>6. PrepOK' /\ RequestsOK' BY <1>1, <1>3, PrepUnchanged, RequestsUnchanged DEF IInv
<1> QED BY <1>4, <1>5, <1>6 DEF IInv

LEMMA PrepareWorktreeKeeps ==
  ASSUME IInv, NEW b \in Branches, PrepareWorktree(b) PROVE IInv'
<1>1. /\ UNCHANGED <<local, tracking, upstream, worktrees, head, dirty, index, remote, prs, marks,
                     made, run, dropped>>
      /\ b \in DOMAIN remote /\ prep' = [pc |-> "fetch", branch |-> b]
 BY DEF PrepareWorktree, IInv, RepositoryTypeOK, repository, clone, origin
<1>2. PrepOK' BY <1>1 DEF PrepOK
<1>3. RepositoryTypeOK' /\ Kept' BY <1>1 DEF IInv, RepositoryTypeOK, Kept, Held
<1>4. RequestsOK' BY <1>1, RequestsUnchanged DEF IInv
<1> QED BY <1>2, <1>3, <1>4 DEF IInv

LEMMA NoPrepOK == ASSUME prep' = NoPrep PROVE PrepOK'
BY BranchesAssumption DEF PrepOK, NoPrep

LEMMA FetchPrKeeps == ASSUME IInv, FetchPr PROVE IInv'
<1> DEFINE b == prep.branch
           gone == IF b \in DOMAIN local THEN local[b] \ remote[b] ELSE {}
<1>1. /\ UNCHANGED <<worktrees, head, dirty, index, remote, prs, marks, made, run>>
      /\ b \in DOMAIN remote
 BY DEF FetchPr, IInv, PrepOK, origin
<1>2. CASE prep' = NoPrep /\ UNCHANGED <<local, tracking, upstream, dropped>>
 <2>1. RepositoryTypeOK' /\ Kept' BY <1>1, <1>2 DEF IInv, RepositoryTypeOK, Kept, Held
 <2> QED BY <1>1, <1>2, <2>1, NoPrepOK, RequestsUnchanged DEF IInv
<1>3. CASE /\ local' = With(local, b, remote[b]) /\ tracking' = With(tracking, b, remote[b])
           /\ upstream' = upstream \cup {b} /\ dropped' = dropped \cup gone
           /\ prep' = [prep EXCEPT !.pc = "add"]
 <2>1. /\ local' \in Refs /\ DOMAIN local' = DOMAIN local \cup {b}
       /\ tracking' \in Refs
       /\ upstream' \subseteq DOMAIN local' \cap DOMAIN tracking'
       /\ \A n \in DOMAIN tracking' : n \in DOMAIN remote /\ tracking'[n] \subseteq remote[n]
       /\ Contents(local) \subseteq Contents(local') \cup gone
       /\ gone \subseteq Edits
  BY <1>1, <1>3, OverwriteIs
 <2> HIDE DEF gone
 <2>2. RepositoryTypeOK' BY <1>1, <2>1 DEF IInv, RepositoryTypeOK
 <2>3. Kept' BY <1>1, <1>3, <2>1 DEF IInv, Kept, Held
 <2>4. PrepOK' BY <1>3, <2>1 DEF IInv, PrepOK
 <2> QED BY <1>1, <2>1, <2>2, <2>3, <2>4, RequestsUnchanged DEF IInv
<1> QED BY <1>2, <1>3 DEF FetchPr

LEMMA AddWorktreeKeeps == ASSUME IInv, AddWorktree PROVE IInv'
<1>1. /\ UNCHANGED <<local, upstream, head, dirty, index, tracking, remote, prs, marks, made, run,
                     dropped>>
      /\ prep' = NoPrep /\ prep.branch \in DOMAIN local
      /\ worktrees' = worktrees \cup ({prep.branch} \ {head})
 BY DEF AddWorktree, IInv, PrepOK, origin
<1>2. RepositoryTypeOK' /\ Kept' BY <1>1 DEF IInv, RepositoryTypeOK, Kept, Held
<1> QED BY <1>1, <1>2, NoPrepOK, RequestsUnchanged DEF IInv

LEMMA BranchKeeps == ASSUME IInv, BranchNext PROVE IInv'
BY SelectBranchKeeps, SelectNewBranchKeeps, CheckoutPrKeeps, PrepareWorktreeKeeps, FetchPrKeeps,
   AddWorktreeKeeps DEF BranchNext

--------------------
(* The agents and the team.                                                 *)

LEMMA AgentKeeps == ASSUME IInv, NEW e \in Edits, AgentEdits(e), UNCHANGED Others PROVE IInv'
<1>1. /\ UNCHANGED <<local, tracking, upstream, worktrees, head, index, remote, prs, marks,
                     run, prep, dropped>>
      /\ made' = made \cup {e} /\ dirty' = dirty \cup {e}
 BY DEF AgentEdits, Others, server, origin
<1>2. RepositoryTypeOK' /\ Kept' BY <1>1 DEF IInv, RepositoryTypeOK, Kept, Held
<1> QED BY <1>1, <1>2, PrepUnchanged, RequestsUnchanged DEF IInv

(* What is on the remote only grows.                                        *)
LEMMA RemoteGrows ==
  ASSUME IInv, NEW b \in Branches, NEW content \in SUBSET Edits,
    b \in DOMAIN remote => remote[b] \subseteq content,
    remote' = With(remote, b, content),
    prs' \subseteq prs, made' \subseteq made \cup content, made' \subseteq Edits,
    UNCHANGED <<clone, tracking, marks, run, prep, dropped>>
  PROVE IInv'
<1>1. remote \in Refs /\ UNCHANGED <<local, upstream, worktrees, head, dirty, index>>
 BY DEF IInv, RepositoryTypeOK, clone
<1> DEFINE new == With(remote, b, content)
<1>0. /\ new \in Refs /\ DOMAIN new = DOMAIN remote \cup {b} /\ new[b] = content
      /\ \A n \in DOMAIN remote \ {b} : new[n] = remote[n]
 BY ZenonT(30), <1>1, WithIs
<1>2. /\ remote' \in Refs /\ DOMAIN remote' = DOMAIN remote \cup {b} /\ remote'[b] = content
      /\ \A n \in DOMAIN remote \ {b} : remote'[n] = remote[n]
 BY <1>0
<1>3. content \subseteq Contents(remote') /\ Contents(remote) \subseteq Contents(remote')
 BY <1>1, WithKeeps
<1>4. RepositoryTypeOK' BY <1>1, <1>2 DEF IInv, RepositoryTypeOK
<1>5. Kept' BY <1>1, <1>3 DEF IInv, Kept, Held
<1> QED BY <1>1, <1>2, <1>4, <1>5, PrepUnchanged, RequestsUnchanged DEF IInv

LEMMA TeamKeeps == ASSUME IInv, TeamNext PROVE IInv'
<1>1. UNCHANGED <<run, prep, dropped>> BY DEF TeamNext, Others, server
<1>2. /\ remote \in Refs /\ made \subseteq Edits /\ prs \subseteq DOMAIN remote
      /\ \A b \in DOMAIN remote : b \in Branches /\ remote[b] \subseteq Edits
 BY RefsAre DEF IInv, RepositoryTypeOK
<1>3. ASSUME NEW b \in Branches, NEW e \in Edits, TeamPushes(b, e) PROVE IInv'
 <2> DEFINE content == {e} \cup (IF b \in DOMAIN remote THEN remote[b] ELSE remote[Main])
 <2>1. content \in SUBSET Edits /\ (b \in DOMAIN remote => remote[b] \subseteq content)
  <3>1. Main \in DOMAIN remote BY DEF IInv, RepositoryTypeOK
  <3> QED BY <1>2, <3>1
 <2>2. /\ remote' = With(remote, b, content) /\ made' = made \cup {e}
       /\ UNCHANGED <<clone, tracking, prs, marks>>
  BY <1>3 DEF TeamPushes
 <2>3. e \in content OBVIOUS
 <2> HIDE DEF content
 <2> QED BY <1>1, <1>2, <2>1, <2>2, <2>3, RemoteGrows
<1>4. ASSUME NEW b \in Branches, TeamOpensPr(b) PROVE IInv'
 <2>1. UNCHANGED <<local, tracking, upstream, worktrees, head, dirty, index,
               remote, marks, made>>
  BY <1>4 DEF TeamOpensPr, clone
 <2>2. prs' \subseteq DOMAIN remote BY <1>2, <1>4 DEF TeamOpensPr
 <2>3. RepositoryTypeOK' /\ Kept' BY <1>1, <2>1, <2>2 DEF IInv, RepositoryTypeOK, Kept, Held
 <2> QED BY <1>1, <2>1, <2>3, PrepUnchanged, RequestsUnchanged DEF IInv
<1>5. ASSUME NEW b \in Branches, TeamMerges(b) PROVE IInv'
 <2> DEFINE content == remote[Main] \cup remote[b]
 <2>1. /\ Main \in DOMAIN remote /\ remote' = With(remote, Main, content)
       /\ prs' \subseteq prs /\ UNCHANGED <<clone, tracking, marks, made>>
  BY <1>5 DEF TeamMerges, IInv, RepositoryTypeOK
 <2>2. content \in SUBSET Edits /\ Main \in Branches /\ remote[Main] \subseteq content
  BY <1>2, <1>5, <2>1 DEF TeamMerges
 <2> HIDE DEF content
 <2> QED BY <1>1, <1>2, <2>1, <2>2, RemoteGrows
<1> QED BY <1>3, <1>4, <1>5 DEF TeamNext

--------------------
LEMMA InitKeeps == Init => IInv
<1> SUFFICES ASSUME Init PROVE IInv OBVIOUS
<1>1. /\ Main \in Branches /\ Published \subseteq Branches /\ Main \in Published
 BY BranchesAssumption
<1>2. /\ local = [b \in {Main} |-> {}] /\ remote = [b \in Published |-> {}]
      /\ tracking = remote /\ upstream = {Main} /\ worktrees = {} /\ head = Main
      /\ dirty = {} /\ index = {} /\ prs = {} /\ made = {} /\ marks \subseteq Marks
      /\ run = [r \in Runs |-> Idle] /\ prep = NoPrep /\ dropped = {}
 BY DEF Init, InitRepository
<1>3. local \in Refs /\ remote \in Refs BY <1>1, <1>2, RefsAre
<1>4. RepositoryTypeOK BY <1>1, <1>2, <1>3 DEF RepositoryTypeOK
<1>5. RequestOK(Idle) BY NewRequestOK
<1>6. RequestsOK BY <1>2, <1>5 DEF RequestsOK
<1>7. PrepOK /\ Kept BY <1>1, <1>2 DEF PrepOK, NoPrep, Kept
<1> QED BY <1>4, <1>6, <1>7 DEF IInv

LEMMA NextKeeps == IInv /\ [Next]_vars => IInv'
<1> SUFFICES ASSUME IInv, [Next]_vars PROVE IInv' OBVIOUS
<1>1. CASE ClientNext BY <1>1, ClientKeeps
<1>2. ASSUME NEW r \in Runs, RunNext(r) PROVE IInv' BY <1>2, RunKeeps
<1>3. CASE BranchNext BY <1>3, BranchKeeps
<1>4. CASE AgentNext BY <1>4, AgentKeeps DEF AgentNext
<1>5. CASE TeamNext BY <1>5, TeamKeeps
<1>6. CASE UNCHANGED vars
 <2>1. UNCHANGED <<repository, local, remote, run, prep, dropped>>
  BY <1>6 DEF vars, server, repository, clone, origin
 <2> QED BY <2>1, RequestsUnchanged, RepositoryUnchanged DEF IInv
<1> QED BY <1>1, <1>2, <1>3, <1>4, <1>5, <1>6 DEF Next

(* Whatever the requests, the selector, the agents and the team do at the   *)
(* same time, no edit is lost that a preparation did not overwrite.         *)
THEOREM NoEditLost == Spec => []EditsKept
<1>1. Init => IInv BY InitKeeps
<1>2. IInv /\ [Next]_vars => IInv' BY NextKeeps
<1>3. IInv => EditsKept BY IInvImplies
<1> QED BY <1>1, <1>2, <1>3, PTL DEF Spec

--------------------
(* The default branch is pushed only after the user was asked.              *)
Actions == {"none", "commit", "pull"} \cup Publishing

(* What was asked for when HEAD had moved as often as now, by a client that *)
(* could tell the default branch and did not see it, is about another one.  *)
OffMain(at, default, told) ==
  /\ at \in Int /\ at <= moves
  /\ at = moves /\ told /\ ~default => head # Main

(* A request for a feature branch has not got it yet, or never will.        *)
Early(request) ==
  /\ request.feature
  /\ \/ request.pc \in {"begin", "prepare", "name", "create", "checkout"}
     \/ request.pc = "done" /\ ~request.ok

Typed(request) ==
  /\ request.action \in Actions
  /\ request.feature \in BOOLEAN /\ request.confirmed \in BOOLEAN
  /\ request.default \in BOOLEAN /\ request.ok \in BOOLEAN
  /\ request.at \in Int /\ request.at <= moves

(* Where a request stands tells what it was asked to do.                    *)
Placed(request) ==
  /\ request.pc = "begin" => request.action # "none"
  /\ request.action = "pull" => ~request.feature
  /\ request.pc \in {"prepare", "name", "create", "checkout", "stage", "commit"} =>
       request.action \in {"commit"} \cup Publishing
  /\ request.pc \in {"prepare", "name", "create", "checkout"} => request.feature
  /\ request.pc \in {"push_status", "push", "push_new"} => request.action \in Publishing

RequestAsked(request) ==
  /\ Typed(request) /\ Placed(request)
  /\ ~Early(request) => OffMain(request.at, request.default, request.told)
  /\ request.action \in Publishing /\ request.default => request.confirmed
  /\ request.pc \in {"create", "checkout"} => request.branch # Main
  /\ request.pc = "push_new" /\ request.at = moves => request.branch = head

RequestsAsked == \A r \in Runs : RequestAsked(run[r])

ViewAsked ==
  /\ view.at \in Int /\ view.at <= moves
  /\ view.at = moves => view.status.branch = head

OfferAsked(offer) ==
  /\ offer.action \in Publishing /\ offer.default \in BOOLEAN
  /\ OffMain(offer.at, offer.default, offer.told)

OffersAsked == \A offer \in offers : OfferAsked(offer)

DialogAsked == dialog.kind = "default" => dialog.action \in Publishing

(* The invariant, which is inductive together with IInv.                    *)
AskedInv ==
  /\ moves \in Nat
  /\ RequestsAsked /\ ViewAsked /\ OffersAsked /\ DialogAsked

--------------------
(* A request and the repository.                                            *)

LEMMA GoLeaves ==
  ASSUME RequestsOK, NEW r \in Runs, NEW pc, Go(r, pc)
  PROVE /\ \A x \in Runs \ {r} : run'[x] = run[x]
        /\ run'[r].pc = pc
        /\ run'[r].action = run[r].action /\ run'[r].feature = run[r].feature
        /\ run'[r].confirmed = run[r].confirmed /\ run'[r].default = run[r].default
        /\ run'[r].at = run[r].at /\ run'[r].told = run[r].told /\ run'[r].ok = run[r].ok
        /\ run'[r].branch = run[r].branch
<1>1. DOMAIN run = Runs /\ DOMAIN run[r] = Fields BY DEF RequestsOK, RequestOK
<1> QED BY <1>1 DEF Go, Fields

LEMMA AnswerLeaves ==
  ASSUME RequestsOK, NEW r \in Runs, NEW ok, Answer(r, ok)
  PROVE /\ \A x \in Runs \ {r} : run'[x] = run[x]
        /\ run'[r].pc = "done" /\ run'[r].ok = ok
        /\ run'[r].action = run[r].action /\ run'[r].feature = run[r].feature
        /\ run'[r].confirmed = run[r].confirmed /\ run'[r].default = run[r].default
        /\ run'[r].at = run[r].at /\ run'[r].told = run[r].told
<1>1. DOMAIN run = Runs /\ DOMAIN run[r] = Fields BY DEF RequestsOK, RequestOK
<1> QED BY <1>1 DEF Answer, Fields

(* While HEAD is not moved, only the request that takes the step matters.   *)
LEMMA StepKeepsAsked ==
  ASSUME AskedInv, UNCHANGED <<head, moves, client>>, NEW r \in Runs,
    \A x \in Runs \ {r} : run'[x] = run[x], RequestAsked(run[r])'
  PROVE AskedInv'
<1>1. /\ moves' = moves /\ head' = head /\ view' = view /\ offers' = offers
      /\ dialog' = dialog
 BY DEF client
<1>2. \A x \in Runs \ {r} : RequestAsked(run[x])'
 BY <1>1 DEF AskedInv, RequestsAsked, RequestAsked, Typed, Placed, Early, OffMain
<1>3. ViewAsked' /\ OffersAsked' /\ DialogAsked' /\ moves' \in Nat
 BY <1>1 DEF AskedInv, ViewAsked, OffersAsked, OfferAsked, OffMain, DialogAsked
<1> QED BY <1>2, <1>3 DEF AskedInv, RequestsAsked

(* A step to another place.                                                 *)
LEMMA GoKeepsAsked ==
  ASSUME RequestsOK, AskedInv, UNCHANGED <<head, moves, client>>, NEW r \in Runs, NEW pc,
    Go(r, pc),
    \/ run[r].pc = "prepare" /\ pc = "name"
    \/ run[r].pc = "create" /\ pc = "checkout"
    \/ /\ pc \in {"commit", "push_status", "pr"}
       /\ ~Early(run[r])
       /\ pc = "commit" => run[r].action \in {"commit"} \cup Publishing
       /\ pc = "push_status" => run[r].action \in Publishing
  PROVE AskedInv'
<1>1. RequestAsked(run[r]) BY DEF AskedInv, RequestsAsked
<1>2. RequestAsked(run[r])' BY <1>1, GoLeaves DEF RequestAsked, Typed, Placed, Early, OffMain
<1> QED BY <1>2, GoLeaves, StepKeepsAsked

(* An answer. A request that never got its feature branch fails.            *)
LEMMA AnswerKeepsAsked ==
  ASSUME RequestsOK, AskedInv, UNCHANGED <<head, moves, client>>, NEW r \in Runs,
    NEW ok \in BOOLEAN, Answer(r, ok), ok => ~Early(run[r])
  PROVE AskedInv'
<1>1. RequestAsked(run[r]) BY DEF AskedInv, RequestsAsked
<1>2. /\ Typed(run[r])' /\ Placed(run[r])'
      /\ run'[r].action \in Publishing /\ run'[r].default => run'[r].confirmed
      /\ run'[r].pc = "done"
 BY <1>1, AnswerLeaves DEF RequestAsked, Typed, Placed
<1>3. ~Early(run[r])' => OffMain(run[r].at, run[r].default, run[r].told)'
 <2>1. CASE Early(run[r])
  <3>1. ok = FALSE /\ run[r].feature BY <2>1 DEF Early
  <3>2. Early(run[r])' BY <3>1, AnswerLeaves DEF Early
  <3> QED BY <3>2
 <2>2. CASE ~Early(run[r])
  <3>1. OffMain(run[r].at, run[r].default, run[r].told) BY <1>1, <2>2 DEF RequestAsked
  <3> QED BY <3>1, AnswerLeaves DEF OffMain
 <2> QED BY <2>1, <2>2
<1>4. RequestAsked(run[r])' BY <1>2, <1>3 DEF RequestAsked
<1> QED BY <1>4, AnswerLeaves, StepKeepsAsked

--------------------
(* The steps of a request.                                                  *)

LEMMA StepFailsKeepsAsked ==
  ASSUME RequestsOK, AskedInv, NEW r \in Runs, StepFails(r) PROVE AskedInv'
<1>1. Answer(r, FALSE) /\ UNCHANGED <<head, moves, client>> BY DEF StepFails, repository, clone
<1> QED BY <1>1, AnswerKeepsAsked

LEMMA BeginKeepsAsked ==
  ASSUME RequestsOK, AskedInv, NEW r \in Runs, Begin(r) PROVE AskedInv'
<1>1. RequestAsked(run[r]) BY DEF AskedInv, RequestsAsked
<1>2. UNCHANGED <<head, moves, client>> /\ run[r].pc = "begin" BY DEF Begin, clone, Surroundings
<1>3. DOMAIN run = Runs /\ DOMAIN run[r] = Fields BY DEF RequestsOK, RequestOK
<1>4. /\ \A x \in Runs \ {r} : run'[x] = run[x]
      /\ run'[r].pc = IF run[r].action = "pull" THEN "pull"
                      ELSE IF run[r].feature THEN "prepare" ELSE "stage"
      /\ run'[r].action = run[r].action /\ run'[r].feature = run[r].feature
      /\ run'[r].confirmed = run[r].confirmed /\ run'[r].default = run[r].default
      /\ run'[r].at = run[r].at /\ run'[r].told = run[r].told /\ run'[r].ok = run[r].ok
 BY <1>3 DEF Begin, Fields
<1>5. /\ Typed(run[r])'
      /\ OffMain(run[r].at, run[r].default, run[r].told) =>
           OffMain(run[r].at, run[r].default, run[r].told)'
 BY <1>1, <1>2, <1>4 DEF RequestAsked, Typed, OffMain
<1>6. ASSUME run[r].action = "pull" PROVE RequestAsked(run[r])'
 BY <1>1, <1>2, <1>4, <1>5, <1>6 DEF RequestAsked, Placed, Early
<1>7. ASSUME run[r].action # "pull", run[r].feature PROVE RequestAsked(run[r])'
 BY <1>1, <1>2, <1>4, <1>5, <1>7 DEF RequestAsked, Typed, Placed, Early, Actions
<1>8. ASSUME run[r].action # "pull", ~run[r].feature PROVE RequestAsked(run[r])'
 BY <1>1, <1>2, <1>4, <1>5, <1>8 DEF RequestAsked, Typed, Placed, Early, Actions
<1> QED BY <1>2, <1>4, <1>6, <1>7, <1>8, StepKeepsAsked

LEMMA PrepareKeepsAsked ==
  ASSUME RequestsOK, AskedInv, NEW r \in Runs, Prepare(r) PROVE AskedInv'
<1>1. UNCHANGED <<head, moves, client>> /\ run[r].pc = "prepare" BY DEF Prepare, Surroundings
<1>2. Answer(r, FALSE) \/ Go(r, "name") BY DEF Prepare
<1> QED BY <1>1, <1>2, AnswerKeepsAsked, GoKeepsAsked

LEMMA ResolveNameKeepsAsked ==
  ASSUME RequestsOK, AskedInv, NEW r \in Runs, ResolveName(r) PROVE AskedInv'
<1>1. RequestAsked(run[r]) BY DEF AskedInv, RequestsAsked
<1>2. UNCHANGED <<head, moves, client>> /\ run[r].pc = "name"
 BY DEF ResolveName, repository, clone, Surroundings
<1>3. PICK i \in 1..Len(Features) :
        run' = [run EXCEPT ![r].branch = Features[i], ![r].pc = "create"]
 BY DEF ResolveName, FreeFeatures
<1>4. Features[i] # Main BY FeaturesAreBranches
<1>5. DOMAIN run = Runs /\ DOMAIN run[r] = Fields BY DEF RequestsOK, RequestOK
<1>6. /\ \A x \in Runs \ {r} : run'[x] = run[x]
      /\ run'[r].pc = "create" /\ run'[r].branch # Main
      /\ run'[r].action = run[r].action /\ run'[r].feature = run[r].feature
      /\ run'[r].confirmed = run[r].confirmed /\ run'[r].default = run[r].default
      /\ run'[r].at = run[r].at /\ run'[r].told = run[r].told /\ run'[r].ok = run[r].ok
 BY <1>3, <1>4, <1>5 DEF Fields
<1>7. RequestAsked(run[r])' BY <1>1, <1>2, <1>6 DEF RequestAsked, Typed, Placed, Early, OffMain
<1> QED BY <1>2, <1>6, <1>7, StepKeepsAsked

LEMMA CreateBranchKeepsAsked ==
  ASSUME RequestsOK, AskedInv, NEW r \in Runs, CreateBranch(r) PROVE AskedInv'
<1>1. UNCHANGED <<head, moves, client>> /\ run[r].pc = "create" BY DEF CreateBranch, Surroundings
<1>2. Answer(r, FALSE) \/ Go(r, "checkout") BY DEF CreateBranch
<1> QED BY <1>1, <1>2, AnswerKeepsAsked, GoKeepsAsked

LEMMA StageKeepsAsked ==
  ASSUME RequestsOK, AskedInv, NEW r \in Runs, Stage(r) PROVE AskedInv'
<1>1. UNCHANGED <<head, moves, client>> /\ run[r].pc = "stage" BY DEF Stage, Surroundings
<1>2. RequestAsked(run[r]) /\ ~Early(run[r]) BY <1>1 DEF AskedInv, RequestsAsked, Early
<1>3. run[r].action \in {"commit"} \cup Publishing BY <1>1, <1>2 DEF RequestAsked, Placed
<1>4. \/ Go(r, "commit")
      \/ Answer(r, TRUE)
      \/ run[r].action # "commit" /\ Go(r, "push_status")
 BY DEF Stage
<1> QED BY <1>1, <1>2, <1>3, <1>4, AnswerKeepsAsked, GoKeepsAsked

(* A request that goes on, or is answered, with HEAD where it was shown.    *)
LEMMA RestKeepsAsked ==
  ASSUME AskedInv, NEW r \in Runs, UNCHANGED <<head, moves, client>>,
    ~Early(run[r]),
    \A x \in Runs \ {r} : run'[x] = run[x],
    run'[r].action = run[r].action, run'[r].feature = run[r].feature,
    run'[r].confirmed = run[r].confirmed, run'[r].default = run[r].default,
    run'[r].at = run[r].at, run'[r].told = run[r].told, run'[r].ok \in BOOLEAN,
    \/ run'[r].pc \in {"done", "pr", "open"}
    \/ /\ run'[r].pc \in {"push_status", "push", "push_new"}
       /\ run[r].action \in Publishing
       /\ run'[r].pc = "push_new" => run'[r].branch = head
  PROVE AskedInv'
<1>1. RequestAsked(run[r]) /\ OffMain(run[r].at, run[r].default, run[r].told)
 BY DEF AskedInv, RequestsAsked, RequestAsked
<1>2. OffMain(run[r].at, run[r].default, run[r].told)' BY <1>1 DEF OffMain
<1>3. Typed(run[r])' /\ Placed(run[r])' BY <1>1 DEF RequestAsked, Typed, Placed
<1>4. RequestAsked(run[r])' BY <1>1, <1>2, <1>3 DEF RequestAsked
<1> QED BY <1>4, StepKeepsAsked

LEMMA CommitKeepsAsked ==
  ASSUME RequestsOK, AskedInv, NEW r \in Runs, Commit(r) PROVE AskedInv'
<1>1. UNCHANGED <<head, moves, client>> /\ run[r].pc = "commit" /\ ~Early(run[r])
 BY DEF Commit, Surroundings, Early
<1>2. CASE Answer(r, FALSE) BY <1>1, <1>2, AnswerKeepsAsked
<1>3. CASE run' = [run EXCEPT ![r].commit = index, ![r].pc = AfterCommit(r),
                              ![r].ok = run[r].action = "commit"]
 <2>1. DOMAIN run = Runs /\ DOMAIN run[r] = Fields BY DEF RequestsOK, RequestOK
 <2>2. /\ \A x \in Runs \ {r} : run'[x] = run[x]
       /\ run'[r].pc = AfterCommit(r)
       /\ run'[r].action = run[r].action /\ run'[r].feature = run[r].feature
       /\ run'[r].confirmed = run[r].confirmed /\ run'[r].default = run[r].default
       /\ run'[r].at = run[r].at /\ run'[r].told = run[r].told /\ run'[r].ok = (run[r].action = "commit")
  BY <1>3, <2>1 DEF Fields
 <2>3. run[r].action \in {"commit"} \cup Publishing
  BY <1>1 DEF AskedInv, RequestsAsked, RequestAsked, Placed
 <2>4. \/ run'[r].pc = "done"
       \/ run'[r].pc = "push_status" /\ run[r].action \in Publishing
  BY <2>2, <2>3 DEF AfterCommit
 <2> QED BY <1>1, <2>2, <2>4, RestKeepsAsked
<1> QED BY <1>2, <1>3 DEF Commit

LEMMA PushStatusKeepsAsked ==
  ASSUME RequestsOK, AskedInv, NEW r \in Runs, PushStatus(r) PROVE AskedInv'
<1>1. UNCHANGED <<head, moves, client>> /\ run[r].pc = "push_status" /\ ~Early(run[r])
 BY DEF PushStatus, Surroundings, clone, Early
<1>2. CASE Answer(r, TRUE) BY <1>1, <1>2, AnswerKeepsAsked
<1>3. CASE Go(r, "pr") BY <1>1, <1>3, GoKeepsAsked
<1>4. CASE run' = [run EXCEPT ![r].pc = IF head \in upstream THEN "push" ELSE "push_new",
                              ![r].branch = head]
 <2>1. DOMAIN run = Runs /\ DOMAIN run[r] = Fields BY DEF RequestsOK, RequestOK
 <2>2. /\ \A x \in Runs \ {r} : run'[x] = run[x]
       /\ run'[r].pc \in {"push", "push_new"} /\ run'[r].branch = head
       /\ run'[r].action = run[r].action /\ run'[r].feature = run[r].feature
       /\ run'[r].confirmed = run[r].confirmed /\ run'[r].default = run[r].default
       /\ run'[r].at = run[r].at /\ run'[r].told = run[r].told /\ run'[r].ok = run[r].ok
  BY <1>4, <2>1 DEF Fields
 <2>3. run[r].action \in Publishing /\ run[r].ok \in BOOLEAN
  BY <1>1 DEF AskedInv, RequestsAsked, RequestAsked, Placed, Typed
 <2> QED BY <1>1, <2>2, <2>3, RestKeepsAsked
<1> QED BY <1>2, <1>3, <1>4 DEF PushStatus

LEMMA AfterPushKeepsAsked ==
  ASSUME RequestsOK, AskedInv, NEW r \in Runs, UNCHANGED <<head, moves, client>>,
    ~Early(run[r]), AfterPush(r)
  PROVE AskedInv'
<1>1. DOMAIN run = Runs /\ DOMAIN run[r] = Fields BY DEF RequestsOK, RequestOK
<1>2. /\ \A x \in Runs \ {r} : run'[x] = run[x]
      /\ run'[r].pc \in {"done", "pr"}
      /\ run'[r].action = run[r].action /\ run'[r].feature = run[r].feature
      /\ run'[r].confirmed = run[r].confirmed /\ run'[r].default = run[r].default
      /\ run'[r].at = run[r].at /\ run'[r].told = run[r].told /\ run'[r].ok = (run[r].action = "commit_push")
 BY <1>1 DEF AfterPush, Fields
<1> QED BY <1>2, RestKeepsAsked

LEMMA PushNewKeepsAsked ==
  ASSUME RequestsOK, AskedInv, NEW r \in Runs, PushNew(r) PROVE AskedInv'
<1>1. /\ UNCHANGED <<head, moves, client>> /\ ~Early(run[r])
      /\ AfterPush(r) \/ Answer(r, FALSE)
 BY DEF PushNew, Surroundings, Early
<1> QED BY <1>1, AnswerKeepsAsked, AfterPushKeepsAsked

LEMMA PushKeepsAsked ==
  ASSUME RequestsOK, AskedInv, NEW r \in Runs, Push(r) PROVE AskedInv'
<1>1. /\ UNCHANGED <<head, moves, client>> /\ ~Early(run[r])
      /\ AfterPush(r) \/ Answer(r, FALSE)
 BY DEF Push, Surroundings, clone, Early
<1> QED BY <1>1, AnswerKeepsAsked, AfterPushKeepsAsked

LEMMA FindPrKeepsAsked ==
  ASSUME RequestsOK, AskedInv, NEW r \in Runs, FindPr(r) PROVE AskedInv'
<1>1. UNCHANGED <<head, moves, client>> /\ ~Early(run[r])
 BY DEF FindPr, Surroundings, clone, Early
<1>2. CASE Answer(r, FALSE) \/ Answer(r, TRUE) BY <1>1, <1>2, AnswerKeepsAsked
<1>3. CASE run' = [run EXCEPT ![r].pc = "open", ![r].branch = head]
 <2>1. DOMAIN run = Runs /\ DOMAIN run[r] = Fields BY DEF RequestsOK, RequestOK
 <2>2. /\ \A x \in Runs \ {r} : run'[x] = run[x]
       /\ run'[r].pc = "open"
       /\ run'[r].action = run[r].action /\ run'[r].feature = run[r].feature
       /\ run'[r].confirmed = run[r].confirmed /\ run'[r].default = run[r].default
       /\ run'[r].at = run[r].at /\ run'[r].told = run[r].told /\ run'[r].ok = run[r].ok
  BY <1>3, <2>1 DEF Fields
 <2>3. run[r].ok \in BOOLEAN BY DEF AskedInv, RequestsAsked, RequestAsked, Typed
 <2> QED BY <1>1, <2>2, <2>3, RestKeepsAsked
<1> QED BY <1>2, <1>3 DEF FindPr

LEMMA CreatePrKeepsAsked ==
  ASSUME RequestsOK, AskedInv, NEW r \in Runs, CreatePr(r) PROVE AskedInv'
<1>1. /\ UNCHANGED <<head, moves, client>> /\ ~Early(run[r])
      /\ Answer(r, FALSE) \/ Answer(r, TRUE)
 BY DEF CreatePr, Surroundings, clone, Early
<1> QED BY <1>1, AnswerKeepsAsked

LEMMA PullKeepsAsked ==
  ASSUME RequestsOK, AskedInv, NEW r \in Runs, Pull(r) PROVE AskedInv'
<1>1. UNCHANGED <<head, moves, client>> /\ ~Early(run[r]) BY DEF Pull, Surroundings, Early
<1>2. PICK ok \in BOOLEAN : Answer(r, ok) BY DEF Pull
<1> QED BY <1>1, <1>2, AnswerKeepsAsked

--------------------
(* HEAD moves: what was asked for before is then out of date, except for    *)
(* the request that checks its feature branch out.                          *)

LEMMA OutOfDate ==
  ASSUME AskedInv, moves' = moves + 1, UNCHANGED client
  PROVE /\ moves' \in Nat /\ ViewAsked' /\ OffersAsked' /\ DialogAsked'
        /\ \A x \in Runs : run'[x] = run[x] => RequestAsked(run[x])'
<1>1. moves \in Nat /\ view' = view /\ offers' = offers /\ dialog' = dialog
 BY DEF AskedInv, client
<1>2. ViewAsked' /\ OffersAsked' /\ DialogAsked'
 BY <1>1 DEF AskedInv, ViewAsked, OffersAsked, OfferAsked, OffMain, DialogAsked
<1>3. ASSUME NEW x \in Runs, run'[x] = run[x] PROVE RequestAsked(run[x])'
 <2>1. RequestAsked(run[x]) BY DEF AskedInv, RequestsAsked
 <2>2. run[x].at \in Int /\ run[x].at < moves' BY <1>1, <2>1 DEF RequestAsked, Typed
 <2>3. OffMain(run[x].at, run[x].default, run[x].told)' BY <1>1, <1>3, <2>2 DEF OffMain
 <2>4. Typed(run[x])' /\ Placed(run[x])' BY <1>1, <1>3, <2>1, <2>2 DEF RequestAsked, Typed, Placed
 <2> QED BY <1>1, <1>3, <2>1, <2>2, <2>3, <2>4 DEF RequestAsked
<1> QED BY <1>1, <1>2, <1>3

LEMMA CheckoutNewKeepsAsked ==
  ASSUME RequestsOK, AskedInv, NEW r \in Runs, CheckoutNew(r) PROVE AskedInv'
<1>1. UNCHANGED client /\ run[r].pc = "checkout" BY DEF CheckoutNew, Surroundings
<1>2. CASE Answer(r, FALSE) /\ UNCHANGED <<head, moves>> BY <1>1, <1>2, AnswerKeepsAsked
<1>3. CASE /\ head' = run[r].branch /\ moves' = moves + 1
           /\ run' = [run EXCEPT ![r].pc = "commit", ![r].at = moves']
 <2>1. DOMAIN run = Runs /\ DOMAIN run[r] = Fields BY DEF RequestsOK, RequestOK
 <2>2. /\ \A x \in Runs \ {r} : run'[x] = run[x]
       /\ run'[r].pc = "commit" /\ run'[r].at = moves'
       /\ run'[r].action = run[r].action /\ run'[r].feature = run[r].feature
       /\ run'[r].confirmed = run[r].confirmed /\ run'[r].default = run[r].default
       /\ run'[r].ok = run[r].ok
  BY <1>3, <2>1 DEF Fields
 <2>3. RequestAsked(run[r]) /\ moves \in Nat BY DEF AskedInv, RequestsAsked
 <2>4. head' # Main BY <1>1, <1>3, <2>3 DEF RequestAsked
 <2>5. OffMain(run[r].at, run[r].default, run[r].told)' BY <1>3, <2>2, <2>3, <2>4 DEF OffMain
 <2>6. Typed(run[r])' /\ Placed(run[r])' BY <1>1, <1>3, <2>2, <2>3 DEF RequestAsked, Typed, Placed
 <2>7. RequestAsked(run[r])' BY <2>2, <2>3, <2>5, <2>6 DEF RequestAsked
 <2> QED BY <1>1, <1>3, <2>2, <2>7, OutOfDate DEF AskedInv, RequestsAsked
<1> QED BY <1>2, <1>3 DEF CheckoutNew

LEMMA RunKeepsAsked ==
  ASSUME RequestsOK, AskedInv, NEW r \in Runs, RunNext(r) PROVE AskedInv'
BY StepFailsKeepsAsked, BeginKeepsAsked, PrepareKeepsAsked, ResolveNameKeepsAsked,
   CreateBranchKeepsAsked, CheckoutNewKeepsAsked, StageKeepsAsked, CommitKeepsAsked,
   PushStatusKeepsAsked, PushNewKeepsAsked, PushKeepsAsked, FindPrKeepsAsked, CreatePrKeepsAsked,
   PullKeepsAsked DEF RunNext

(* Steps that leave HEAD, the requests and the client alone.                *)
LEMMA StutterKeepsAsked ==
  ASSUME AskedInv, UNCHANGED <<head, moves, client, run>> PROVE AskedInv'
<1>1. /\ moves' = moves /\ head' = head /\ view' = view /\ offers' = offers
      /\ dialog' = dialog /\ run' = run
 BY DEF client
<1>2. RequestsAsked'
 BY <1>1 DEF AskedInv, RequestsAsked, RequestAsked, Typed, Placed, Early, OffMain
<1>3. ViewAsked' /\ OffersAsked' /\ DialogAsked' /\ moves' \in Nat
 BY <1>1 DEF AskedInv, ViewAsked, OffersAsked, OfferAsked, OffMain, DialogAsked
<1> QED BY <1>2, <1>3 DEF AskedInv

LEMMA BranchKeepsAsked == ASSUME AskedInv, BranchNext PROVE AskedInv'
<1>1. ASSUME NEW b \in Branches, SelectBranch(b) \/ CheckoutPr(b)
    PROVE  AskedInv'
 <2>1. UNCHANGED <<client, run>> /\ moves' = moves + 1
  BY <1>1 DEF SelectBranch, CheckoutPr, Move, server
 <2> QED BY <2>1, OutOfDate DEF AskedInv, RequestsAsked
<1>2. ASSUME (\E b \in Branches : SelectNewBranch(b) \/ PrepareWorktree(b)) \/ FetchPr \/ AddWorktree
    PROVE  AskedInv'
 <2>1. UNCHANGED <<head, moves, client, run>>
  BY <1>2 DEF SelectNewBranch, PrepareWorktree, FetchPr, AddWorktree, repository, clone, server
 <2> QED BY <2>1, StutterKeepsAsked
<1> QED BY <1>1, <1>2 DEF BranchNext

LEMMA OthersKeepAsked == ASSUME AskedInv, AgentNext \/ TeamNext PROVE AskedInv'
<1>1. UNCHANGED <<head, moves, client, run>>
 BY DEF AgentNext, TeamNext, AgentEdits, TeamPushes, TeamOpensPr, TeamMerges, Others, server,
     clone
<1> QED BY <1>1, StutterKeepsAsked

--------------------
(* The client.                                                              *)

(* What the user is shown of the default branch is true unless HEAD moved.  *)
LEMMA SeenIs ==
  ASSUME AskedInv PROVE OnDefault \in BOOLEAN /\ OffMain(Seen, OnDefault, Told)
<1>1. OnDefault \in BOOLEAN BY DEF OnDefault, Known
<1>2. OffMain(Seen, OnDefault, Told)
 BY DEF AskedInv, ViewAsked, Seen, Told, OnDefault, OffMain, Unseen
<1> QED BY <1>1, <1>2

LEMMA NewRequestAsked ==
  ASSUME NEW action \in {"commit", "pull"} \cup Publishing, NEW feature \in BOOLEAN,
    NEW confirmed \in BOOLEAN, NEW default \in BOOLEAN, NEW pr, NEW at, NEW told,
    at \in Int, at <= moves, feature \/ OffMain(at, default, told),
    action = "pull" => ~feature, action \in Publishing /\ default => confirmed
  PROVE RequestAsked(Request(action, feature, confirmed, default, pr, at, told))
<1> DEFINE request == Request(action, feature, confirmed, default, pr, at, told)
<1>1. /\ request.pc = "begin" /\ request.action = action /\ request.feature = feature
      /\ request.confirmed = confirmed /\ request.default = default
      /\ request.at = at /\ request.told = told /\ request.ok = FALSE
 BY DEF Request
<1> HIDE DEF request
<1>2. Typed(request) /\ Placed(request) BY <1>1 DEF Typed, Placed, Actions, Publishing
<1>3. ~Early(request) => OffMain(request.at, request.default, request.told) BY <1>1 DEF Early
<1>4. RequestAsked(request) BY <1>1, <1>2, <1>3 DEF RequestAsked
<1> QED BY <1>4 DEF request

LEMMA IdleAsked == ASSUME moves \in Nat PROVE RequestAsked(Idle)
<1>1. /\ Idle.pc = "idle" /\ Idle.action = "none" /\ Idle.feature = FALSE
      /\ Idle.confirmed = FALSE /\ Idle.default = FALSE /\ Idle.at = -1 /\ Idle.ok = FALSE
 BY DEF Idle, Request, Unseen
<1>2. Typed(Idle)
 <2>1. /\ Idle.feature \in BOOLEAN /\ Idle.confirmed \in BOOLEAN
       /\ Idle.default \in BOOLEAN /\ Idle.ok \in BOOLEAN
  BY <1>1
 <2>2. Idle.action \in Actions /\ Idle.at \in Int /\ Idle.at <= moves BY <1>1 DEF Actions
 <2> QED BY <2>1, <2>2 DEF Typed
<1>3. Placed(Idle) BY <1>1 DEF Placed
<1>4. OffMain(Idle.at, Idle.default, Idle.told) BY <1>1 DEF OffMain
<1> QED BY <1>1, <1>2, <1>3, <1>4 DEF RequestAsked

LEMMA PlaceAsked ==
  ASSUME RequestsOK, AskedInv, UNCHANGED <<head, moves>>, NEW r \in Runs, NEW request,
    RequestAsked(request), run' = [run EXCEPT ![r] = request]
  PROVE RequestsAsked'
<1>1. run'[r] = request /\ \A x \in Runs \ {r} : run'[x] = run[x] BY DEF RequestsOK
<1>2. RequestAsked(run[r])' BY <1>1 DEF RequestAsked, Typed, Placed, Early, OffMain
<1>3. \A x \in Runs \ {r} : RequestAsked(run[x])'
 BY <1>1 DEF AskedInv, RequestsAsked, RequestAsked, Typed, Placed, Early, OffMain
<1> QED BY <1>2, <1>3 DEF RequestsAsked

LEMMA SendAsked ==
  ASSUME RequestsOK, AskedInv, UNCHANGED <<head, moves>>, NEW request,
    RequestAsked(request), Send(request)
  PROVE RequestsAsked'
BY PlaceAsked DEF Send

LEMMA RequestsUndisturbed ==
  ASSUME AskedInv, UNCHANGED <<head, moves, run>> PROVE RequestsAsked'
BY DEF AskedInv, RequestsAsked, RequestAsked, Typed, Placed, Early, OffMain

(* An action about the default branch becomes a question.                   *)
LEMMA AskAsked ==
  ASSUME RequestsOK, AskedInv, UNCHANGED <<head, moves>>,
    NEW action \in {"commit", "pull"} \cup Publishing, NEW default \in BOOLEAN,
    NEW pr, NEW at, NEW told, NEW closes, OffMain(at, default, told),
    Ask(action, default, pr, at, told, closes)
  PROVE RequestsAsked' /\ DialogAsked'
<1>1. CASE Confirmable(action, default)
 <2>1. /\ dialog' = [kind |-> "default", action |-> action, closes |-> closes]
       /\ UNCHANGED run /\ action \in Publishing
  BY <1>1 DEF Ask, Confirmable
 <2> QED BY <2>1, RequestsUndisturbed DEF DialogAsked
<1>2. CASE ~Confirmable(action, default)
 <2>1. /\ Send(Request(action, FALSE, FALSE, default, pr, at, told)) /\ UNCHANGED dialog
       /\ ~(action \in Publishing /\ default)
  BY <1>2 DEF Ask, Confirmable
 <2>2. RequestAsked(Request(action, FALSE, FALSE, default, pr, at, told))
  BY <2>1, NewRequestAsked DEF OffMain
 <2> QED BY <2>1, <2>2, SendAsked DEF AskedInv, DialogAsked
<1> QED BY <1>1, <1>2

(* The view and the offers while HEAD stays and no offer is added.          *)
LEMMA ShownKeeps ==
  ASSUME AskedInv, UNCHANGED <<head, moves, view>>, offers' \subseteq offers
  PROVE moves' \in Nat /\ ViewAsked' /\ OffersAsked'
BY DEF AskedInv, ViewAsked, OffersAsked, OfferAsked, OffMain

LEMMA OfferedAsked ==
  ASSUME AskedInv, NEW r \in Runs, run[r].pc = "done", NEW offer \in Offer(run[r])
  PROVE OfferAsked(offer)
<1>1. RequestAsked(run[r]) BY DEF AskedInv, RequestsAsked
<1>2. run[r].ok /\ offer.at = run[r].at /\ offer.told = run[r].told /\ offer.default = run[r].default
      /\ offer.action \in Publishing
 BY DEF Offer, Publishing
<1>3. ~Early(run[r]) BY <1>2 DEF Early
<1> QED BY <1>1, <1>2, <1>3 DEF RequestAsked, Typed, OfferAsked, OffMain

LEMMA ClientKeepsAsked == ASSUME RequestsOK, AskedInv, ClientNext PROVE AskedInv'
<1>1. CASE ClickAction
 <2>1. PICK action \in ({QuickAction(view.status)} \cup MenuActions(view.status)) \ {"none"} :
         Ask(action, OnDefault, ViewPr, Seen, Told, {})
  BY <1>1 DEF ClickAction
 <2>2. action \in {"commit", "pull"} \cup Publishing
  BY <2>1 DEF QuickAction, MenuActions, Publish, Publishing
 <2>3. UNCHANGED <<head, moves, view, offers>> BY <1>1 DEF ClickAction, repository, clone
 <2> QED BY <2>1, <2>2, <2>3, SeenIs, AskAsked, ShownKeeps DEF AskedInv
<1>2. CASE OpenCommitDialog \/ CancelDialog
 <2>1. /\ UNCHANGED <<head, moves, run, view, offers>>
       /\ dialog' \in {[kind |-> "commit"], NoDialog}
  BY <1>2 DEF OpenCommitDialog, CancelDialog, repository, clone, server
 <2>2. DialogAsked' BY <2>1 DEF DialogAsked, NoDialog
 <2> QED BY <2>1, <2>2, RequestsUndisturbed, ShownKeeps DEF AskedInv
<1>3. ASSUME NEW feature \in BOOLEAN, ConfirmCommit(feature) PROVE AskedInv'
 <2>1. /\ UNCHANGED <<head, moves, view, offers>> /\ dialog' = NoDialog
       /\ Send(Request("commit", feature, FALSE, OnDefault /\ ~feature, ViewPr, Seen, Told))
  BY <1>3 DEF ConfirmCommit, repository, clone
 <2>2. RequestAsked(Request("commit", feature, FALSE, OnDefault /\ ~feature, ViewPr, Seen, Told))
  <3>1. CASE feature BY <3>1, SeenIs, NewRequestAsked DEF OffMain, Publishing
  <3>2. CASE ~feature BY <3>2, SeenIs, NewRequestAsked DEF OffMain, Publishing
  <3> QED BY <3>1, <3>2
 <2>3. DialogAsked' BY <2>1 DEF DialogAsked, NoDialog
 <2> QED BY <2>1, <2>2, <2>3, SendAsked, ShownKeeps DEF AskedInv
<1>4. ASSUME NEW feature \in BOOLEAN, ConfirmDefault(feature) PROVE AskedInv'
 <2>1. /\ UNCHANGED <<head, moves, view>> /\ offers' \subseteq offers /\ dialog' = NoDialog
       /\ dialog.action \in Publishing
       /\ Send(Request(dialog.action, feature, ~feature, OnDefault /\ ~feature, ViewPr, Seen, Told))
  BY <1>4 DEF ConfirmDefault, repository, clone, AskedInv, DialogAsked
 <2>2. RequestAsked(Request(dialog.action, feature, ~feature, OnDefault /\ ~feature,
                            ViewPr, Seen, Told))
  <3>0. dialog.action # "pull" BY <2>1 DEF Publishing
  <3>1. CASE feature BY <2>1, <3>0, <3>1, SeenIs, NewRequestAsked DEF OffMain
  <3>2. CASE ~feature BY <2>1, <3>0, <3>2, SeenIs, NewRequestAsked DEF OffMain
  <3> QED BY <3>1, <3>2
 <2>3. DialogAsked' BY <2>1 DEF DialogAsked, NoDialog
 <2> QED BY <2>1, <2>2, <2>3, SendAsked, ShownKeeps DEF AskedInv
<1>5. ASSUME NEW offer \in offers, ClickOffer(offer) PROVE AskedInv'
 <2>1. /\ UNCHANGED <<head, moves, view>> /\ offers' \subseteq offers
       /\ Ask(offer.action, offer.default, offer.pr, offer.at, offer.told, {offer})
  BY <1>5 DEF ClickOffer, repository, clone
 <2>2. OfferAsked(offer) BY DEF AskedInv, OffersAsked
 <2> QED BY <2>1, <2>2, AskAsked, ShownKeeps DEF OfferAsked, AskedInv
<1>6. ASSUME NEW r \in Runs, ReceiveAnswer(r) PROVE AskedInv'
 <2>1. /\ UNCHANGED <<head, moves, view, dialog>> /\ run[r].pc = "done"
       /\ run' = [run EXCEPT ![r] = Idle] /\ offers' = offers \cup Offer(run[r])
  BY <1>6 DEF ReceiveAnswer, repository, clone
 <2>2. \A offer \in offers' : OfferAsked(offer) BY <2>1, OfferedAsked DEF AskedInv, OffersAsked
 <2>3. OffersAsked' BY <2>1, <2>2 DEF OffersAsked, OfferAsked, OffMain
 <2>4. RequestsAsked' BY <2>1, IdleAsked, PlaceAsked DEF AskedInv
 <2> QED BY <2>1, <2>3, <2>4 DEF AskedInv, ViewAsked, DialogAsked
<1>7. CASE ReadStatus
 <2>1. /\ UNCHANGED <<head, moves, run, offers, dialog>>
       /\ view'.at = moves /\ view'.status.branch = head
  BY <1>7 DEF ReadStatus, Status, clone, server
 <2>2. ViewAsked' BY <2>1 DEF AskedInv, ViewAsked
 <2>3. OffersAsked' /\ DialogAsked'
  BY <2>1 DEF AskedInv, OffersAsked, OfferAsked, OffMain, DialogAsked
 <2> QED BY <2>1, <2>2, <2>3, RequestsUndisturbed DEF AskedInv
<1>8. CASE ReadBranches
 <2>1. UNCHANGED <<head, moves, run, view, offers, dialog>>
  BY <1>8 DEF ReadBranches, repository, clone, server
 <2> QED BY <2>1, RequestsUndisturbed, ShownKeeps DEF AskedInv, DialogAsked
<1> QED BY <1>1, <1>2, <1>3, <1>4, <1>5, <1>6, <1>7, <1>8 DEF ClientNext

--------------------
LEMMA InitAsked == Init => AskedInv
<1> SUFFICES ASSUME Init PROVE AskedInv OBVIOUS
<1>1. /\ run = [r \in Runs |-> Idle] /\ view = NoView /\ dialog = NoDialog
      /\ offers = {} /\ moves = 0
 BY DEF Init
<1>2. RequestsAsked BY <1>1, IdleAsked DEF RequestsAsked
<1>3. ViewAsked /\ OffersAsked /\ DialogAsked
 BY <1>1 DEF ViewAsked, OffersAsked, DialogAsked, NoView, NoDialog, Unseen
<1> QED BY <1>1, <1>2, <1>3 DEF AskedInv

LEMMA NextKeepsAsked == IInv /\ AskedInv /\ [Next]_vars => AskedInv'
<1> SUFFICES ASSUME IInv, AskedInv, [Next]_vars PROVE AskedInv' OBVIOUS
<1>1. RequestsOK BY DEF IInv
<1>2. CASE UNCHANGED vars
 <2>1. UNCHANGED <<head, moves, client, run>> BY <1>2 DEF vars, server, repository, clone
 <2> QED BY <2>1, StutterKeepsAsked
<1> QED BY <1>1, <1>2, ClientKeepsAsked, RunKeepsAsked, BranchKeepsAsked, OthersKeepAsked DEF Next

(* A push of the default branch is one that the user was asked about.       *)
LEMMA PushIsConfirmed ==
  ASSUME IInv, AskedInv, NEW r \in Runs, Push(r) \/ PushNew(r),
         remote'[Main] # remote[Main]
  PROVE run[r].confirmed \/ run[r].at # moves \/ ~run[r].told
<1> SUFFICES ASSUME run[r].at = moves, run[r].told PROVE run[r].confirmed OBVIOUS
<1>1. PICK b \in DOMAIN local :
        PushTo(b) /\ b = IF run[r].pc = "push" THEN head ELSE run[r].branch
 <2>1. head \in DOMAIN local /\ (run[r].pc = "push_new" => run[r].branch \in DOMAIN local)
  BY DEF IInv, RepositoryTypeOK, RequestsOK, RequestOK
 <2>2. CASE Push(r) BY <2>1, <2>2 DEF Push, origin
 <2>3. CASE PushNew(r) BY <2>1, <2>3 DEF PushNew, origin
 <2> QED BY <2>2, <2>3
<1>2. run[r].pc \in {"push", "push_new"} BY DEF Push, PushNew
<1>3. RequestAsked(run[r]) BY DEF AskedInv, RequestsAsked
<1>4. b = head BY <1>1, <1>2, <1>3 DEF RequestAsked
<1>5. b = Main
 <2>1. /\ remote \in Refs /\ local \in Refs /\ Main \in DOMAIN remote
  BY DEF IInv, RepositoryTypeOK
 <2>2. b \in Branches /\ local[b] \in SUBSET Edits BY <2>1, RefsAre
 <2>3. remote' = With(remote, b, local[b]) BY <1>1 DEF PushTo
 <2>4. \A n \in DOMAIN remote \ {b} : With(remote, b, local[b])[n] = remote[n]
  BY <2>1, <2>2, WithIs
 <2> QED BY <2>1, <2>3, <2>4
<1>6. ~Early(run[r]) /\ run[r].action \in Publishing BY <1>2, <1>3 DEF Early, RequestAsked, Placed
<1> QED BY <1>3, <1>4, <1>5, <1>6 DEF RequestAsked, OffMain

LEMMA StepIsConfirmed ==
  ASSUME IInv, AskedInv, [Next]_vars, NEW r \in Runs,
    run[r].pc \in {"push", "push_new"}, run'[r] # run[r],
    remote'[Main] # remote[Main]
  PROVE run[r].confirmed \/ run[r].at # moves \/ ~run[r].told
<1>1. DOMAIN run = Runs BY DEF IInv, RequestsOK
<1>2. ~ClientNext
 BY DEF ClientNext, ClickAction, OpenCommitDialog, CancelDialog, ConfirmCommit, ConfirmDefault,
     ClickOffer, ReceiveAnswer, ReadStatus, ReadBranches, repository, origin
<1>3. ~BranchNext /\ ~AgentNext /\ ~TeamNext /\ ~UNCHANGED vars
 BY DEF BranchNext, SelectBranch, SelectNewBranch, CheckoutPr, PrepareWorktree, FetchPr,
     AddWorktree, AgentNext, TeamNext, Others, server, vars
<1>4. PICK x \in Runs : RunNext(x) BY <1>2, <1>3 DEF Next
<1>5. Push(x) \/ PushNew(x)
 BY <1>4 DEF RunNext, StepFails, Begin, Prepare, ResolveName, CreateBranch, CheckoutNew, Stage,
     Commit, PushStatus, FindPr, CreatePr, Pull, repository, origin
<1>6. x = r BY <1>1, <1>5 DEF Push, PushNew, AfterPush, Answer
<1> QED BY <1>5, <1>6, PushIsConfirmed

(* The default branch is pushed only after the user was asked, or when HEAD *)
(* was moved behind the user's back, or the client could not tell it.       *)
THEOREM DefaultIsAsked == Spec => DefaultConfirmed
<1> DEFINE Confirmed == \A r \in Runs :
             /\ run[r].pc \in {"push", "push_new"} /\ run'[r] # run[r]
             /\ remote'[Main] # remote[Main]
             => run[r].confirmed \/ run[r].at # moves \/ ~run[r].told
<1>1. Init => IInv /\ AskedInv BY InitKeeps, InitAsked
<1>2. IInv /\ AskedInv /\ [Next]_vars => IInv' /\ AskedInv' BY NextKeeps, NextKeepsAsked
<1>3. IInv /\ AskedInv /\ [Next]_vars => [Confirmed]_vars BY StepIsConfirmed
<1> QED BY <1>1, <1>2, <1>3, PTL DEF Spec, DefaultConfirmed

--------------------
(* A success of a stacked action means what the client shows then.          *)
(* An edit that is not committed is in no branch, so that the default       *)
(* branch has what a request commits elsewhere only when it was pushed.     *)
Uncommitted ==
  /\ dirty \subseteq made
  /\ \A b \in DOMAIN local : local[b] \subseteq made \ dirty
  /\ \A b \in DOMAIN remote : remote[b] \subseteq made \ dirty

(* The default branch always has its upstream, and no pull request.         *)
MainStays ==
  /\ Main \in upstream /\ Main \notin prs
  /\ prep.pc = "fetch" => prep.branch # Main

(* Where a request stands tells what it has done.                           *)
Done(request) ==
  /\ request.pc \in {"begin", "pull", "prepare", "name", "create", "checkout",
                     "stage", "commit"} => request.commit = {}
  /\ request.pc = "pull" => request.action = "pull"
  /\ request.pc \in {"pr", "open"} => request.action = "commit_push_pr"

(* What a request did is on the branch that is checked out, and on its      *)
(* remote once it was pushed. Before that the default branch has none of it. *)
OnBranch(request) ==
  /\ request.pc \in {"pull", "stage", "commit", "push_status", "push", "push_new",
                     "pr", "open"} =>
       request.branch = head /\ request.commit \subseteq local[head]
  /\ request.pc \in {"pr", "open"} =>
       head \in DOMAIN remote /\ request.commit \subseteq remote[head]
  /\ request.pc \in {"push_status", "push", "push_new"} /\ head # Main =>
       request.commit \cap local[Main] = {}

(* That holds as long as HEAD is where the user was shown it to be.         *)
RequestTrue(request) ==
  /\ Done(request)
  /\ request.at = moves => OnBranch(request)

RequestsTrue == \A r \in Runs : RequestTrue(run[r])

(* The invariant, which is inductive together with IInv and AskedInv.       *)
AnswersInv == Uncommitted /\ MainStays /\ RequestsTrue

--------------------
(* What a step of one request leaves to the others.                         *)

(* While HEAD stays, its branch and the remote only grow, and the default   *)
(* branch stays unless it is the one that is checked out.                   *)
Going ==
  /\ UNCHANGED <<head, moves>>
  /\ local[head] \subseteq local'[head]
  /\ head # Main => local'[Main] = local[Main]
  /\ \A b \in DOMAIN remote : b \in DOMAIN remote' /\ remote[b] \subseteq remote'[b]

LEMMA RequestStays ==
  ASSUME Going, NEW x \in Runs, run'[x] = run[x], RequestTrue(run[x]) PROVE RequestTrue(run[x])'
<1>1. Done(run[x])' BY DEF RequestTrue, Done
<1>2. ASSUME run[x].at = moves PROVE OnBranch(run[x])'
 <2>1. OnBranch(run[x]) BY <1>2 DEF RequestTrue
 <2> QED BY <2>1 DEF OnBranch, Going
<1> QED BY <1>1, <1>2 DEF RequestTrue, Going

LEMMA RequestsStay ==
  ASSUME Going, RequestsTrue, NEW r \in Runs, \A x \in Runs \ {r} : run'[x] = run[x],
    RequestTrue(run[r])'
  PROVE RequestsTrue'
BY RequestStays DEF RequestsTrue

LEMMA AllRequestsStay ==
  ASSUME Going, RequestsTrue, UNCHANGED run PROVE RequestsTrue'
BY RequestStays DEF RequestsTrue

(* A request that was answered claims nothing of where HEAD is.             *)
LEMMA Answered ==
  ASSUME NEW r \in Runs, run'[r].pc \in {"done", "idle"} PROVE RequestTrue(run[r])'
BY DEF RequestTrue, Done, OnBranch

(* When HEAD moves, what was asked for before is out of date.               *)
LEMMA RequestPasses ==
  ASSUME AskedInv, moves' = moves + 1, NEW x \in Runs, run'[x] = run[x],
    RequestTrue(run[x])
  PROVE RequestTrue(run[x])'
<1>1. moves \in Nat /\ run[x].at \in Int /\ run[x].at <= moves
 BY DEF AskedInv, RequestsAsked, RequestAsked, Typed
<1>2. run'[x].at # moves' BY <1>1
<1>3. Done(run[x])' BY DEF RequestTrue, Done
<1> QED BY <1>2, <1>3 DEF RequestTrue

(* Steps that leave the branches and what is written alone.                 *)
Quiet == UNCHANGED <<local, upstream, head, dirty, remote, prs, made, prep, moves>>

LEMMA QuietKeeps ==
  ASSUME Uncommitted, MainStays, Quiet PROVE Uncommitted' /\ MainStays' /\ Going
BY DEF Uncommitted, MainStays, Quiet, Going

LEMMA QuietStep ==
  ASSUME AnswersInv, Quiet, NEW r \in Runs, \A x \in Runs \ {r} : run'[x] = run[x],
    RequestTrue(run[r])'
  PROVE AnswersInv'
BY QuietKeeps, RequestsStay DEF AnswersInv

LEMMA QuietAnswer ==
  ASSUME RequestsOK, AnswersInv, Quiet, NEW r \in Runs, NEW ok, Answer(r, ok) PROVE AnswersInv'
BY AnswerIs, Answered, QuietStep

LEMMA QuietGo ==
  ASSUME RequestsOK, AnswersInv, Quiet, NEW r \in Runs, NEW pc, Go(r, pc),
    \/ run[r].pc = "prepare" /\ pc = "name"
    \/ run[r].pc = "stage" /\ pc \in {"commit", "push_status"}
  PROVE AnswersInv'
<1>1. RequestTrue(run[r]) BY DEF AnswersInv, RequestsTrue
<1>2. /\ \A x \in Runs \ {r} : run'[x] = run[x]
      /\ run'[r].pc = pc /\ run'[r].at = run[r].at
      /\ run'[r].branch = run[r].branch /\ run'[r].commit = run[r].commit
 BY GoIs, GoLeaves
<1>3. Done(run[r])' BY <1>1, <1>2 DEF RequestTrue, Done
<1>4. ASSUME run'[r].at = moves' PROVE OnBranch(run[r])'
 BY <1>1, <1>2, <1>4 DEF RequestTrue, Done, OnBranch, Quiet
<1> QED BY <1>2, <1>3, <1>4, QuietStep DEF RequestTrue

(* Refs that hold nothing but what a set holds.                             *)
LEMMA WithFits ==
  ASSUME NEW names \in Refs, NEW b \in Branches, NEW content \in SUBSET Edits, NEW S,
    \A n \in DOMAIN names : names[n] \subseteq S, content \subseteq S
  PROVE \A n \in DOMAIN With(names, b, content) : With(names, b, content)[n] \subseteq S
<1> DEFINE new == With(names, b, content)
<1>1. /\ DOMAIN new = DOMAIN names \cup {b} /\ new[b] = content
      /\ \A n \in DOMAIN names \ {b} : new[n] = names[n]
 BY WithIs, ZenonT(40)
<1> HIDE DEF new
<1>2. \A n \in DOMAIN new : new[n] \subseteq S BY <1>1
<1> QED BY <1>2 DEF new

--------------------
(* The steps of a request.                                                  *)

LEMMA StepFailsKeepsTrue ==
  ASSUME RequestsOK, AnswersInv, NEW r \in Runs, StepFails(r) PROVE AnswersInv'
<1>1. Answer(r, FALSE) /\ Quiet BY DEF StepFails, Quiet, repository, clone, origin
<1> QED BY <1>1, QuietAnswer

LEMMA BeginKeepsTrue ==
  ASSUME RequestsOK, AnswersInv, NEW r \in Runs, Begin(r) PROVE AnswersInv'
<1>1. Quiet /\ run[r].pc = "begin" BY DEF Begin, Quiet, clone, origin, Surroundings
<1>2. DOMAIN run = Runs /\ DOMAIN run[r] = Fields BY DEF RequestsOK, RequestOK
<1>3. /\ \A x \in Runs \ {r} : run'[x] = run[x]
      /\ \/ run'[r].pc \in {"prepare", "stage"}
         \/ run'[r].pc = "pull" /\ run[r].action = "pull"
      /\ run'[r].action = run[r].action /\ run'[r].branch = head
      /\ run'[r].commit = run[r].commit
 BY <1>2 DEF Begin, Fields
<1>4. run[r].commit = {} BY <1>1 DEF AnswersInv, RequestsTrue, RequestTrue, Done
<1>5. Done(run[r])' /\ OnBranch(run[r])' BY <1>1, <1>3, <1>4 DEF Done, OnBranch, Quiet
<1> QED BY <1>1, <1>3, <1>5, QuietStep DEF RequestTrue

LEMMA PrepareKeepsTrue ==
  ASSUME RequestsOK, AnswersInv, NEW r \in Runs, Prepare(r) PROVE AnswersInv'
<1>1. Quiet /\ run[r].pc = "prepare" /\ (Answer(r, FALSE) \/ Go(r, "name"))
 BY DEF Prepare, Quiet, origin, Surroundings
<1> QED BY <1>1, QuietAnswer, QuietGo

LEMMA ResolveNameKeepsTrue ==
  ASSUME RequestsOK, AnswersInv, NEW r \in Runs, ResolveName(r) PROVE AnswersInv'
<1>1. Quiet /\ run[r].pc = "name"
 BY DEF ResolveName, Quiet, repository, clone, origin, Surroundings
<1>2. PICK i \in 1..Len(Features) :
        run' = [run EXCEPT ![r].branch = Features[i], ![r].pc = "create"]
 BY DEF ResolveName, FreeFeatures
<1>3. DOMAIN run = Runs /\ DOMAIN run[r] = Fields BY DEF RequestsOK, RequestOK
<1>4. /\ \A x \in Runs \ {r} : run'[x] = run[x]
      /\ run'[r].pc = "create" /\ run'[r].commit = run[r].commit
 BY <1>2, <1>3 DEF Fields
<1>5. run[r].commit = {} BY <1>1 DEF AnswersInv, RequestsTrue, RequestTrue, Done
<1>6. RequestTrue(run[r])' BY <1>4, <1>5 DEF RequestTrue, Done, OnBranch
<1> QED BY <1>1, <1>4, <1>6, QuietStep

LEMMA CreateBranchKeepsTrue ==
  ASSUME IInv, AnswersInv, NEW r \in Runs, CreateBranch(r) PROVE AnswersInv'
<1> DEFINE b == run[r].branch
<1>1. /\ UNCHANGED <<upstream, head, dirty, remote, prs, made, prep, moves>>
      /\ run[r].pc = "create" /\ RequestsOK
 BY DEF CreateBranch, Surroundings, origin, IInv
<1>2. CASE Answer(r, FALSE) /\ UNCHANGED local BY <1>1, <1>2, QuietAnswer DEF Quiet
<1>3. CASE b \notin DOMAIN local /\ Go(r, "checkout") /\ local' = With(local, b, local[head])
 <2>1. /\ b \in Branches /\ local \in Refs /\ head \in DOMAIN local
       /\ upstream \subseteq DOMAIN local
  BY DEF IInv, RequestsOK, RequestOK, RepositoryTypeOK
 <2>2. local[head] \in SUBSET Edits BY <2>1, RefsAre
 <2>3. \A n \in DOMAIN local : local'[n] = local[n]
  <3>1. \A n \in DOMAIN local \ {b} : With(local, b, local[head])[n] = local[n]
   BY <2>1, <2>2, WithIs, ZenonT(40)
  <3> QED BY <1>3, <3>1
 <2>4. Uncommitted'
  <3>1. \A n \in DOMAIN local : local[n] \subseteq made \ dirty BY DEF AnswersInv, Uncommitted
  <3>2. \A n \in DOMAIN local' : local'[n] \subseteq made \ dirty
   BY <1>3, <2>1, <2>2, <3>1, WithFits
  <3> QED BY <1>1, <3>2 DEF AnswersInv, Uncommitted
 <2>5. MainStays' /\ Going BY <1>1, <2>1, <2>3 DEF AnswersInv, MainStays, Going
 <2>6. /\ \A x \in Runs \ {r} : run'[x] = run[x]
       /\ run'[r].pc = "checkout" /\ run'[r].commit = run[r].commit
  BY <1>1, <1>3, GoIs
 <2>7. run[r].commit = {} BY <1>1 DEF AnswersInv, RequestsTrue, RequestTrue, Done
 <2>8. RequestTrue(run[r])' BY <2>6, <2>7 DEF RequestTrue, Done, OnBranch
 <2> QED BY <2>4, <2>5, <2>6, <2>8, RequestsStay DEF AnswersInv
<1> QED BY <1>2, <1>3 DEF CreateBranch

LEMMA CheckoutNewKeepsTrue ==
  ASSUME IInv, AskedInv, AnswersInv, NEW r \in Runs, CheckoutNew(r) PROVE AnswersInv'
<1>1. /\ UNCHANGED <<local, upstream, dirty, remote, prs, made, prep>>
      /\ run[r].pc = "checkout" /\ RequestsOK
 BY DEF CheckoutNew, Surroundings, origin, IInv
<1>2. CASE Answer(r, FALSE) /\ UNCHANGED <<head, moves>> BY <1>1, <1>2, QuietAnswer DEF Quiet
<1>3. CASE /\ head' = run[r].branch /\ moves' = moves + 1
           /\ run' = [run EXCEPT ![r].pc = "commit", ![r].at = moves']
 <2>1. DOMAIN run = Runs /\ DOMAIN run[r] = Fields BY <1>1 DEF RequestsOK, RequestOK
 <2>2. /\ \A x \in Runs \ {r} : run'[x] = run[x]
       /\ run'[r].pc = "commit" /\ run'[r].branch = head'
       /\ run'[r].commit = run[r].commit
  BY <1>3, <2>1 DEF Fields
 <2>3. run[r].commit = {} BY <1>1 DEF AnswersInv, RequestsTrue, RequestTrue, Done
 <2>4. RequestTrue(run[r])' BY <2>2, <2>3 DEF RequestTrue, Done, OnBranch
 <2>5. \A x \in Runs \ {r} : RequestTrue(run[x])'
  BY <1>3, <2>2, RequestPasses DEF AnswersInv, RequestsTrue
 <2>6. Uncommitted' /\ MainStays' BY <1>1 DEF AnswersInv, Uncommitted, MainStays
 <2> QED BY <2>4, <2>5, <2>6 DEF AnswersInv, RequestsTrue
<1> QED BY <1>2, <1>3 DEF CheckoutNew

LEMMA StageKeepsTrue ==
  ASSUME RequestsOK, AnswersInv, NEW r \in Runs, Stage(r) PROVE AnswersInv'
<1>1. Quiet /\ run[r].pc = "stage" BY DEF Stage, Quiet, origin, Surroundings
<1>2. Answer(r, TRUE) \/ Go(r, "commit") \/ Go(r, "push_status") BY DEF Stage
<1> QED BY <1>1, <1>2, QuietAnswer, QuietGo

(* A commit puts what nothing had on the branch that is checked out.        *)
LEMMA CommitKeepsTrue ==
  ASSUME IInv, AskedInv, AnswersInv, NEW r \in Runs, Commit(r) PROVE AnswersInv'
<1>1. /\ UNCHANGED <<upstream, head, remote, prs, made, prep, moves>>
      /\ run[r].pc = "commit" /\ RequestsOK
 BY DEF Commit, Surroundings, origin, IInv
<1>2. CASE Answer(r, FALSE) /\ UNCHANGED <<local, dirty>> BY <1>1, <1>2, QuietAnswer DEF Quiet
<1>3. CASE /\ local' = With(local, head, local[head] \cup index)
           /\ dirty' = dirty \ index
           /\ run' = [run EXCEPT ![r].commit = index, ![r].pc = AfterCommit(r),
                                 ![r].ok = run[r].action = "commit"]
 <2>1. /\ local \in Refs /\ head \in DOMAIN local /\ index \subseteq dirty
       /\ dirty \subseteq Edits /\ upstream \subseteq DOMAIN local
  BY DEF IInv, RepositoryTypeOK
 <2>2. head \in Branches /\ local[head] \cup index \in SUBSET Edits BY <2>1, RefsAre
 <2>3. /\ local'[head] = local[head] \cup index
       /\ \A n \in DOMAIN local \ {head} : local'[n] = local[n]
  BY <1>3, <2>1, <2>2, WithIs
 <2>4. dirty \subseteq made /\ \A n \in DOMAIN local : local[n] \subseteq made \ dirty
  BY DEF AnswersInv, Uncommitted
 <2>5. Uncommitted'
  <3>1. \A n \in DOMAIN local : local[n] \subseteq made \ dirty' BY <1>3, <2>4
  <3>2. local[head] \cup index \subseteq made \ dirty' BY <1>3, <2>1, <2>4
  <3>3. \A n \in DOMAIN local' : local'[n] \subseteq made \ dirty'
   BY <1>3, <2>1, <2>2, <3>1, <3>2, WithFits
  <3>4. dirty' \subseteq made /\ \A n \in DOMAIN remote : remote[n] \subseteq made \ dirty'
   BY <1>3 DEF AnswersInv, Uncommitted
  <3> QED BY <1>1, <3>3, <3>4 DEF Uncommitted
 <2>6. MainStays' /\ Main \in DOMAIN local BY <1>1, <2>1 DEF AnswersInv, MainStays
 <2>7. Going BY <1>1, <2>3, <2>6 DEF Going
 <2>8. DOMAIN run = Runs /\ DOMAIN run[r] = Fields BY <1>1 DEF RequestsOK, RequestOK
 <2>9. /\ \A x \in Runs \ {r} : run'[x] = run[x]
       /\ run'[r].pc \in {"done", "push_status"} /\ run'[r].at = run[r].at
       /\ run'[r].branch = run[r].branch /\ run'[r].commit = index
  BY <1>3, <2>8 DEF Fields, AfterCommit
 <2>10. index \cap local[Main] = {} BY <2>1, <2>4, <2>6
 <2>11. Done(run[r])' BY <2>9 DEF Done
 <2>12. ASSUME run'[r].at = moves' PROVE OnBranch(run[r])'
  <3>1. run[r].branch = head
   BY <1>1, <2>9, <2>12 DEF AnswersInv, RequestsTrue, RequestTrue, OnBranch
  <3>2. head # Main => index \cap local'[Main] = {} BY <2>7, <2>10 DEF Going
  <3> QED BY <1>1, <2>3, <2>9, <3>1, <3>2 DEF OnBranch
 <2> QED BY <2>5, <2>6, <2>7, <2>9, <2>11, <2>12, RequestsStay DEF AnswersInv, RequestTrue
<1> QED BY <1>2, <1>3 DEF Commit

(* What is not ahead of its remote is on it: a branch without an upstream   *)
(* is not ahead only if the request committed nothing.                      *)
LEMMA NothingAhead ==
  ASSUME IInv, AnswersInv, NEW r \in Runs, run[r].pc = "push_status",
    run[r].at = moves, NEW seen \in Refreshed, Ahead(seen) = {},
    head \in upstream \/ (Based /\ head \in DOMAIN seen)
  PROVE head \in DOMAIN remote /\ run[r].commit \subseteq remote[head]
<1>1. run[r].commit \subseteq local[head] /\ (head # Main => run[r].commit \cap local[Main] = {})
 BY DEF AnswersInv, RequestsTrue, RequestTrue, OnBranch
<1>2. /\ DOMAIN seen = DOMAIN tracking
      /\ \A b \in DOMAIN seen : b \in DOMAIN remote /\ seen[b] \subseteq remote[b]
 BY RefreshedKeeps DEF IInv
<1>3. upstream \subseteq DOMAIN tracking /\ Main \in upstream
 BY DEF IInv, RepositoryTypeOK, AnswersInv, MainStays
<1>4. CASE head \in upstream
 <2>1. local[head] \subseteq seen[head] BY <1>4 DEF Ahead, Compared
 <2> QED BY <1>1, <1>2, <1>3, <1>4, <2>1
<1>5. CASE head \notin upstream
 <2>1. local[head] \subseteq local[Main] /\ head # Main BY <1>3, <1>5 DEF Ahead, Compared
 <2>2. run[r].commit = {} BY <1>1, <2>1
 <2> QED BY <1>2, <1>5, <2>2
<1> QED BY <1>4, <1>5

LEMMA PushStatusKeepsTrue ==
  ASSUME IInv, AskedInv, AnswersInv, NEW r \in Runs, PushStatus(r) PROVE AnswersInv'
<1>1. Quiet /\ run[r].pc = "push_status" /\ RequestsOK
 BY DEF PushStatus, Quiet, clone, origin, Surroundings, IInv
<1>2. RequestTrue(run[r]) BY DEF AnswersInv, RequestsTrue
<1>3. PICK seen \in Refreshed :
        IF /\ Ahead(seen) = {} /\ Behind(seen) = {}
           /\ head \in upstream \/ (Based /\ head \in DOMAIN seen)
        THEN IF run[r].action = "commit_push" THEN Answer(r, TRUE) ELSE Go(r, "pr")
        ELSE run' = [run EXCEPT ![r].pc = IF head \in upstream THEN "push" ELSE "push_new",
                                ![r].branch = head]
 BY DEF PushStatus
<1>4. CASE Answer(r, TRUE) BY <1>1, <1>4, QuietAnswer
<1>5. CASE /\ Ahead(seen) = {}
           /\ head \in upstream \/ (Based /\ head \in DOMAIN seen)
           /\ run[r].action # "commit_push" /\ Go(r, "pr")
 <2>1. /\ \A x \in Runs \ {r} : run'[x] = run[x]
       /\ run'[r].pc = "pr" /\ run'[r].at = run[r].at /\ run'[r].action = run[r].action
       /\ run'[r].branch = run[r].branch /\ run'[r].commit = run[r].commit
  BY <1>1, <1>5, GoIs, GoLeaves
 <2>2. run[r].action = "commit_push_pr"
  BY <1>1, <1>5 DEF AskedInv, RequestsAsked, RequestAsked, Placed, Publishing
 <2>3. Done(run[r])' BY <2>1, <2>2 DEF Done
 <2>4. ASSUME run'[r].at = moves' PROVE OnBranch(run[r])'
  <3>1. run[r].at = moves BY <1>1, <2>1, <2>4 DEF Quiet
  <3>2. head \in DOMAIN remote /\ run[r].commit \subseteq remote[head]
   BY <1>1, <1>5, <3>1, NothingAhead
  <3>3. run[r].branch = head /\ run[r].commit \subseteq local[head]
   BY <1>1, <1>2, <3>1 DEF RequestTrue, OnBranch
  <3> QED BY <1>1, <2>1, <3>2, <3>3 DEF OnBranch, Quiet
 <2> QED BY <1>1, <2>1, <2>3, <2>4, QuietStep DEF RequestTrue
<1>6. CASE run' = [run EXCEPT ![r].pc = IF head \in upstream THEN "push" ELSE "push_new",
                              ![r].branch = head]
 <2>1. DOMAIN run = Runs /\ DOMAIN run[r] = Fields BY <1>1 DEF RequestsOK, RequestOK
 <2>2. /\ \A x \in Runs \ {r} : run'[x] = run[x]
       /\ run'[r].pc \in {"push", "push_new"} /\ run'[r].at = run[r].at
       /\ run'[r].branch = head /\ run'[r].commit = run[r].commit
  BY <1>6, <2>1 DEF Fields
 <2>3. Done(run[r])' BY <2>2 DEF Done
 <2>4. ASSUME run'[r].at = moves' PROVE OnBranch(run[r])'
  <3>1. OnBranch(run[r]) BY <1>1, <1>2, <2>2, <2>4 DEF RequestTrue, Quiet
  <3> QED BY <1>1, <2>2, <3>1 DEF OnBranch, Quiet
 <2> QED BY <1>1, <2>2, <2>3, <2>4, QuietStep DEF RequestTrue
<1> QED BY <1>3, <1>4, <1>5, <1>6

(* A push.                                                                  *)
LEMMA PushedIs ==
  ASSUME IInv, NEW b \in DOMAIN local, Pushable(b), PushTo(b)
  PROVE /\ b \in DOMAIN remote' /\ remote'[b] = local[b] /\ tracking'[b] = local[b]
        /\ \A n \in DOMAIN remote : n \in DOMAIN remote' /\ remote[n] \subseteq remote'[n]
<1>1. /\ local \in Refs /\ tracking \in Refs /\ remote \in Refs BY DEF IInv, RepositoryTypeOK
<1>2. b \in Branches /\ local[b] \in SUBSET Edits BY <1>1, RefsAre
<1> DEFINE new == With(remote, b, local[b])
<1>0. /\ DOMAIN new = DOMAIN remote \cup {b} /\ new[b] = local[b]
      /\ \A n \in DOMAIN remote \ {b} : new[n] = remote[n]
 BY <1>1, <1>2, WithIs
<1>3. /\ DOMAIN remote' = DOMAIN remote \cup {b} /\ remote'[b] = local[b]
      /\ \A n \in DOMAIN remote \ {b} : remote'[n] = remote[n]
 BY <1>0 DEF PushTo
<1>4. tracking'[b] = local[b] BY <1>1, <1>2, WithIs DEF PushTo
<1>5. b \in DOMAIN remote => remote[b] \subseteq local[b] BY DEF Pushable
<1> QED BY <1>3, <1>4, <1>5

LEMMA AfterPushLeaves ==
  ASSUME RequestsOK, NEW r \in Runs, AfterPush(r)
  PROVE /\ \A x \in Runs \ {r} : run'[x] = run[x]
        /\ run'[r].pc = IF run[r].action = "commit_push" THEN "done" ELSE "pr"
        /\ run'[r].branch = run[r].branch /\ run'[r].commit = run[r].commit
        /\ run'[r].action = run[r].action /\ run'[r].at = run[r].at
<1>1. DOMAIN run = Runs /\ DOMAIN run[r] = Fields BY DEF RequestsOK, RequestOK
<1> QED BY <1>1 DEF AfterPush, Fields

(* What is pushed while HEAD is where it was is the branch of the request.  *)
LEMMA PushStepKeepsTrue ==
  ASSUME IInv, AskedInv, AnswersInv, NEW r \in Runs,
    run[r].pc \in {"push", "push_new"}, NEW b \in DOMAIN local,
    run[r].at = moves => b = head, Pushable(b), PushTo(b), AfterPush(r),
    upstream \subseteq upstream',
    UNCHANGED <<local, head, dirty, prep, moves>>
  PROVE AnswersInv'
<1>1. /\ b \in DOMAIN remote' /\ remote'[b] = local[b]
      /\ \A n \in DOMAIN remote : n \in DOMAIN remote' /\ remote[n] \subseteq remote'[n]
 BY PushedIs
<1>2. Going BY <1>1 DEF Going
<1>3. UNCHANGED <<prs, made>> /\ remote' = With(remote, b, local[b]) BY DEF PushTo
<1>4. Uncommitted'
 <2>1. b \in Branches /\ local[b] \in SUBSET Edits /\ remote \in Refs
  BY RefsAre DEF IInv, RepositoryTypeOK
 <2>2. /\ dirty \subseteq made /\ \A n \in DOMAIN local : local[n] \subseteq made \ dirty
       /\ \A n \in DOMAIN remote : remote[n] \subseteq made \ dirty
  BY DEF AnswersInv, Uncommitted
 <2>3. \A n \in DOMAIN remote' : remote'[n] \subseteq made \ dirty BY <1>3, <2>1, <2>2, WithFits
 <2> QED BY <1>3, <2>2, <2>3 DEF Uncommitted
<1>5. MainStays' BY <1>3 DEF AnswersInv, MainStays
<1>6. RequestsOK BY DEF IInv
<1>7. /\ \A x \in Runs \ {r} : run'[x] = run[x]
      /\ run'[r].pc = IF run[r].action = "commit_push" THEN "done" ELSE "pr"
      /\ run'[r].branch = run[r].branch /\ run'[r].commit = run[r].commit
      /\ run'[r].action = run[r].action /\ run'[r].at = run[r].at
 BY <1>6, AfterPushLeaves
<1>8. run[r].action \in Publishing BY DEF AskedInv, RequestsAsked, RequestAsked, Placed
<1>9. Done(run[r])' BY <1>7, <1>8 DEF Done, Publishing
<1>10. ASSUME run'[r].at = moves' PROVE OnBranch(run[r])'
 <2>1. run[r].at = moves /\ b = head BY <1>7, <1>10
 <2>2. run[r].branch = head /\ run[r].commit \subseteq local[head]
  BY <2>1 DEF AnswersInv, RequestsTrue, RequestTrue, OnBranch
 <2> QED BY <1>1, <1>7, <2>1, <2>2 DEF OnBranch
<1> QED BY <1>2, <1>4, <1>5, <1>7, <1>9, <1>10, RequestsStay DEF AnswersInv, RequestTrue

LEMMA PushNewKeepsTrue ==
  ASSUME IInv, AskedInv, AnswersInv, NEW r \in Runs, PushNew(r) PROVE AnswersInv'
<1> DEFINE b == run[r].branch
<1>1. /\ UNCHANGED <<local, head, dirty, prep, moves>> /\ run[r].pc = "push_new"
      /\ b \in DOMAIN local /\ RequestsOK
 BY DEF PushNew, Surroundings, IInv, RequestsOK, RequestOK
<1>2. CASE Answer(r, FALSE) /\ UNCHANGED <<upstream, tracking, origin, made>>
 <2>1. Quiet BY <1>1, <1>2 DEF Quiet, origin
 <2> QED BY <1>1, <1>2, <2>1, QuietAnswer
<1>3. CASE Pushable(b) /\ PushTo(b) /\ upstream' = upstream \cup {b} /\ AfterPush(r)
 <2>1. run[r].at = moves => b = head BY <1>1 DEF AnswersInv, RequestsTrue, RequestTrue, OnBranch
 <2> QED BY <1>1, <1>3, <2>1, PushStepKeepsTrue
<1> QED BY <1>2, <1>3 DEF PushNew

LEMMA PushKeepsTrue ==
  ASSUME IInv, AskedInv, AnswersInv, NEW r \in Runs, Push(r) PROVE AnswersInv'
<1>1. /\ UNCHANGED <<local, head, dirty, upstream, prep, moves>> /\ run[r].pc = "push"
      /\ head \in DOMAIN local /\ RequestsOK
 BY DEF Push, Surroundings, clone, IInv, RepositoryTypeOK
<1>2. CASE Answer(r, FALSE) /\ UNCHANGED <<tracking, origin, made>>
 <2>1. Quiet BY <1>1, <1>2 DEF Quiet, origin
 <2> QED BY <1>1, <1>2, <2>1, QuietAnswer
<1>3. CASE Pushable(head) /\ PushTo(head) /\ AfterPush(r) BY <1>1, <1>3, PushStepKeepsTrue
<1> QED BY <1>2, <1>3 DEF Push

LEMMA FindPrKeepsTrue ==
  ASSUME RequestsOK, AnswersInv, NEW r \in Runs, FindPr(r) PROVE AnswersInv'
<1>1. Quiet /\ run[r].pc = "pr" BY DEF FindPr, Quiet, clone, origin, Surroundings
<1>2. CASE Answer(r, FALSE) \/ Answer(r, TRUE) BY <1>1, <1>2, QuietAnswer
<1>3. CASE run' = [run EXCEPT ![r].pc = "open", ![r].branch = head]
 <2>1. DOMAIN run = Runs /\ DOMAIN run[r] = Fields BY DEF RequestsOK, RequestOK
 <2>2. /\ \A x \in Runs \ {r} : run'[x] = run[x]
       /\ run'[r].pc = "open" /\ run'[r].at = run[r].at /\ run'[r].action = run[r].action
       /\ run'[r].branch = head /\ run'[r].commit = run[r].commit
  BY <1>3, <2>1 DEF Fields
 <2>3. RequestTrue(run[r]) BY DEF AnswersInv, RequestsTrue
 <2>4. Done(run[r])' BY <1>1, <2>2, <2>3 DEF RequestTrue, Done
 <2>5. ASSUME run'[r].at = moves' PROVE OnBranch(run[r])'
  <3>1. OnBranch(run[r]) BY <1>1, <2>2, <2>3, <2>5 DEF RequestTrue, Quiet
  <3> QED BY <1>1, <2>2, <3>1 DEF OnBranch, Quiet
 <2> QED BY <1>1, <2>2, <2>4, <2>5, QuietStep DEF RequestTrue
<1> QED BY <1>2, <1>3 DEF FindPr

(* A pull request of the default branch would add nothing.                  *)
LEMMA CreatePrKeepsTrue ==
  ASSUME RequestsOK, AnswersInv, NEW r \in Runs, CreatePr(r) PROVE AnswersInv'
<1>1. /\ UNCHANGED <<local, upstream, head, dirty, remote, made, prep, moves>>
      /\ Answer(r, FALSE) \/ Answer(r, TRUE)
 BY DEF CreatePr, Surroundings, clone
<1>2. Main \notin prs /\ prs' \subseteq prs \cup ({run[r].branch} \ {Main})
 BY DEF CreatePr, AnswersInv, MainStays
<1>3. Uncommitted' /\ MainStays' BY <1>1, <1>2 DEF AnswersInv, Uncommitted, MainStays
<1>4. Going BY <1>1 DEF Going
<1>5. \A x \in Runs \ {r} : run'[x] = run[x] BY <1>1, AnswerIs
<1>6. RequestTrue(run[r])' BY <1>1, AnswerIs, Answered
<1> QED BY <1>3, <1>4, <1>5, <1>6, RequestsStay DEF AnswersInv

LEMMA PullKeepsTrue ==
  ASSUME IInv, AnswersInv, NEW r \in Runs, Pull(r) PROVE AnswersInv'
<1>1. /\ UNCHANGED <<upstream, head, dirty, remote, prs, made, prep, moves>> /\ RequestsOK
 BY DEF Pull, Surroundings, origin, IInv
<1>2. PICK ok : Answer(r, ok) BY DEF Pull
<1>3. CASE UNCHANGED local BY <1>1, <1>2, <1>3, QuietAnswer DEF Quiet
<1>4. CASE /\ head \in upstream /\ local[head] \subseteq remote[head]
           /\ local' = With(local, head, remote[head])
 <2>1. /\ local \in Refs /\ remote \in Refs /\ head \in DOMAIN local /\ head \in DOMAIN remote
       /\ upstream \subseteq DOMAIN local
  BY <1>4 DEF IInv, RepositoryTypeOK
 <2>2. head \in Branches /\ remote[head] \in SUBSET Edits BY <2>1, RefsAre
 <2>3. /\ local'[head] = remote[head] /\ \A n \in DOMAIN local \ {head} : local'[n] = local[n]
  BY <1>4, <2>1, <2>2, WithIs
 <2>4. Uncommitted'
  <3>1. /\ dirty \subseteq made /\ \A n \in DOMAIN local : local[n] \subseteq made \ dirty
        /\ \A n \in DOMAIN remote : remote[n] \subseteq made \ dirty
   BY DEF AnswersInv, Uncommitted
  <3>2. \A n \in DOMAIN local' : local'[n] \subseteq made \ dirty
   BY <1>4, <2>1, <2>2, <3>1, WithFits
  <3> QED BY <1>1, <3>1, <3>2 DEF Uncommitted
 <2>5. MainStays' /\ Main \in DOMAIN local BY <1>1, <2>1 DEF AnswersInv, MainStays
 <2>6. Going BY <1>1, <1>4, <2>3, <2>5 DEF Going
 <2>7. (\A x \in Runs \ {r} : run'[x] = run[x]) /\ run'[r].pc = "done" BY <1>1, <1>2, AnswerIs
 <2> QED BY <2>4, <2>5, <2>6, <2>7, Answered, RequestsStay DEF AnswersInv
<1> QED BY <1>3, <1>4 DEF Pull

LEMMA RunKeepsTrue ==
  ASSUME IInv, AskedInv, AnswersInv, NEW r \in Runs, RunNext(r) PROVE AnswersInv'
<1>1. RequestsOK BY DEF IInv
<1> QED
 BY <1>1, StepFailsKeepsTrue, BeginKeepsTrue, PrepareKeepsTrue, ResolveNameKeepsTrue,
    CreateBranchKeepsTrue, CheckoutNewKeepsTrue, StageKeepsTrue, CommitKeepsTrue,
    PushStatusKeepsTrue, PushNewKeepsTrue, PushKeepsTrue, FindPrKeepsTrue, CreatePrKeepsTrue,
    PullKeepsTrue DEF RunNext

--------------------
(* The branch selector and the threads on pull requests: HEAD moves.        *)

LEMMA MoveKeepsTrue ==
  ASSUME AskedInv, AnswersInv, moves' = moves + 1, UNCHANGED run, Uncommitted', MainStays'
  PROVE AnswersInv'
BY RequestPasses DEF AnswersInv, RequestsTrue

LEMMA SelectBranchKeepsTrue ==
  ASSUME IInv, AskedInv, AnswersInv, NEW b \in Branches, SelectBranch(b) PROVE AnswersInv'
<1>1. /\ UNCHANGED <<dirty, remote, prs, made, run, prep>> /\ moves' = moves + 1
      /\ upstream \subseteq upstream'
 BY DEF SelectBranch, Move, origin, server
<1>2. MainStays' BY <1>1 DEF AnswersInv, MainStays
<1>3. CASE UNCHANGED local BY <1>1, <1>2, <1>3, MoveKeepsTrue DEF AnswersInv, Uncommitted
<1>4. CASE b \in DOMAIN tracking /\ local' = With(local, b, tracking[b])
 <2>1. /\ local \in Refs /\ tracking[b] \in SUBSET Edits
       /\ b \in DOMAIN remote /\ tracking[b] \subseteq remote[b]
  BY <1>4, RefsAre DEF IInv, RepositoryTypeOK
 <2>2. /\ \A n \in DOMAIN local : local[n] \subseteq made \ dirty
       /\ tracking[b] \subseteq made \ dirty
  BY <2>1 DEF AnswersInv, Uncommitted
 <2>3. \A n \in DOMAIN local' : local'[n] \subseteq made \ dirty BY <1>4, <2>1, <2>2, WithFits
 <2>4. Uncommitted' BY <1>1, <2>3 DEF AnswersInv, Uncommitted
 <2> QED BY <1>1, <1>2, <2>4, MoveKeepsTrue
<1> QED BY <1>3, <1>4 DEF SelectBranch

LEMMA SelectNewBranchKeepsTrue ==
  ASSUME IInv, AnswersInv, NEW b \in Branches, SelectNewBranch(b) PROVE AnswersInv'
<1>1. /\ UNCHANGED <<upstream, head, dirty, remote, prs, made, run, prep, moves>>
      /\ b \notin DOMAIN local /\ local' = With(local, b, local[head])
 BY DEF SelectNewBranch, origin, server
<1>2. /\ local \in Refs /\ head \in DOMAIN local /\ local[head] \in SUBSET Edits
      /\ upstream \subseteq DOMAIN local
 BY RefsAre DEF IInv, RepositoryTypeOK
<1>3. \A n \in DOMAIN local : local[n] \subseteq made \ dirty BY DEF AnswersInv, Uncommitted
<1>4. \A n \in DOMAIN local' : local'[n] \subseteq made \ dirty BY <1>1, <1>2, <1>3, WithFits
<1>5. Uncommitted' /\ MainStays' BY <1>1, <1>4 DEF AnswersInv, Uncommitted, MainStays
<1>6. \A n \in DOMAIN local : local'[n] = local[n]
 <2>1. \A n \in DOMAIN local \ {b} : With(local, b, local[head])[n] = local[n]
  BY <1>2, WithIs, ZenonT(40)
 <2> QED BY <1>1, <2>1
<1>7. Going BY <1>1, <1>2, <1>6 DEF Going, AnswersInv, MainStays
<1> QED BY <1>1, <1>5, <1>7, AllRequestsStay DEF AnswersInv

(* A branch that becomes what the remote has.                               *)
LEMMA OverwriteFits ==
  ASSUME IInv, Uncommitted, NEW b \in DOMAIN remote, local' = With(local, b, remote[b]),
    dirty' \subseteq dirty, UNCHANGED <<remote, made>>
  PROVE Uncommitted'
<1>1. /\ local \in Refs /\ b \in Branches /\ remote[b] \in SUBSET Edits
 BY RefsAre DEF IInv, RepositoryTypeOK
<1>2. /\ \A n \in DOMAIN local : local[n] \subseteq made \ dirty'
      /\ \A n \in DOMAIN remote : remote[n] \subseteq made \ dirty'
      /\ dirty' \subseteq made
 BY DEF Uncommitted
<1>3. \A n \in DOMAIN local' : local'[n] \subseteq made \ dirty' BY <1>1, <1>2, WithFits
<1> QED BY <1>2, <1>3 DEF Uncommitted

LEMMA CheckoutPrKeepsTrue ==
  ASSUME IInv, AskedInv, AnswersInv, NEW b \in Branches, CheckoutPr(b) PROVE AnswersInv'
<1>1. /\ UNCHANGED <<remote, prs, made, run, prep>> /\ moves' = moves + 1
      /\ b \in DOMAIN remote /\ upstream' = upstream \cup {b}
      /\ local' = With(local, b, remote[b])
 BY DEF CheckoutPr, Move, origin, server, IInv, RepositoryTypeOK
<1>2. dirty' \subseteq dirty BY DEF CheckoutPr
<1>3. Uncommitted' /\ MainStays' BY <1>1, <1>2, OverwriteFits DEF AnswersInv, MainStays
<1> QED BY <1>1, <1>3, MoveKeepsTrue

LEMMA FetchPrKeepsTrue == ASSUME IInv, AnswersInv, FetchPr PROVE AnswersInv'
<1> DEFINE b == prep.branch
<1>1. /\ UNCHANGED <<head, dirty, remote, prs, made, run, moves>>
      /\ prep.pc = "fetch" /\ b \in DOMAIN remote /\ DOMAIN prep = {"pc", "branch"}
      /\ b # Main
 BY DEF FetchPr, IInv, PrepOK, origin, client, AnswersInv, MainStays
<1>2. CASE prep' = NoPrep /\ UNCHANGED <<local, upstream>>
 <2>1. Going /\ Uncommitted' /\ MainStays'
  BY <1>1, <1>2 DEF Going, AnswersInv, Uncommitted, MainStays, NoPrep
 <2> QED BY <1>1, <2>1, AllRequestsStay DEF AnswersInv
<1>3. CASE /\ b # head /\ local' = With(local, b, remote[b]) /\ upstream' = upstream \cup {b}
           /\ prep' = [prep EXCEPT !.pc = "add"]
 <2>1. Uncommitted' BY <1>1, <1>3, OverwriteFits DEF AnswersInv
 <2>2. prep'.pc = "add" BY <1>1, <1>3
 <2>3. MainStays' BY <1>1, <1>3, <2>2 DEF AnswersInv, MainStays
 <2>4. /\ local \in Refs /\ b \in Branches /\ remote[b] \in SUBSET Edits
       /\ head \in DOMAIN local /\ Main \in DOMAIN local
  BY <1>1, RefsAre DEF IInv, RepositoryTypeOK, AnswersInv, MainStays
 <2>5. \A n \in DOMAIN local \ {b} : local'[n] = local[n]
  <3>1. \A n \in DOMAIN local \ {b} : With(local, b, remote[b])[n] = local[n]
   BY <2>4, WithIs, ZenonT(40)
  <3> QED BY <1>3, <3>1
 <2>6. Going BY <1>1, <1>3, <2>4, <2>5 DEF Going
 <2> QED BY <1>1, <2>1, <2>3, <2>6, AllRequestsStay DEF AnswersInv
<1> QED BY <1>2, <1>3 DEF FetchPr

LEMMA BranchKeepsTrue == ASSUME IInv, AskedInv, AnswersInv, BranchNext PROVE AnswersInv'
<1>1. ASSUME NEW b \in Branches, PrepareWorktree(b) PROVE AnswersInv'
 <2>1. /\ UNCHANGED <<local, upstream, head, dirty, remote, prs, made, moves, run>>
       /\ prep' = [pc |-> "fetch", branch |-> b] /\ b \in prs
  BY <1>1 DEF PrepareWorktree, repository, clone, origin
 <2>2. Going /\ Uncommitted' /\ MainStays' BY <2>1 DEF Going, AnswersInv, Uncommitted, MainStays
 <2> QED BY <2>1, <2>2, AllRequestsStay DEF AnswersInv
<1>2. CASE AddWorktree
 <2>1. /\ UNCHANGED <<local, upstream, head, dirty, remote, prs, made, moves, run>>
       /\ prep' = NoPrep
  BY <1>2 DEF AddWorktree, origin
 <2>2. Going /\ Uncommitted' /\ MainStays'
  BY <2>1 DEF Going, AnswersInv, Uncommitted, MainStays, NoPrep
 <2> QED BY <2>1, <2>2, AllRequestsStay DEF AnswersInv
<1> QED
 BY <1>1, <1>2, SelectBranchKeepsTrue, SelectNewBranchKeepsTrue, CheckoutPrKeepsTrue,
    FetchPrKeepsTrue DEF BranchNext

--------------------
(* The client, the agents and the team.                                     *)

LEMMA PlaceTrue ==
  ASSUME AnswersInv, Quiet, NEW r \in Runs, \A x \in Runs \ {r} : run'[x] = run[x],
    run'[r].pc \in {"begin", "idle"}, run'[r].commit = {}
  PROVE AnswersInv'
<1>1. RequestTrue(run[r])' BY DEF RequestTrue, Done, OnBranch
<1> QED BY <1>1, QuietStep

LEMMA SendTrue ==
  ASSUME RequestsOK, AnswersInv, Quiet, NEW action, NEW feature, NEW confirmed,
    NEW default, NEW pr, NEW at, NEW told,
    Send(Request(action, feature, confirmed, default, pr, at, told))
  PROVE AnswersInv'
<1> DEFINE request == Request(action, feature, confirmed, default, pr, at, told)
<1>1. request.pc = "begin" /\ request.commit = {} BY DEF Request
<1>2. PICK r \in Runs : run' = [run EXCEPT ![r] = request] BY DEF Send
<1> HIDE DEF request
<1>3. run'[r] = request /\ \A x \in Runs \ {r} : run'[x] = run[x] BY <1>2 DEF RequestsOK
<1> QED BY <1>1, <1>3, PlaceTrue

LEMMA QuietRun ==
  ASSUME AnswersInv, Quiet, UNCHANGED run PROVE AnswersInv'
BY QuietKeeps, AllRequestsStay DEF AnswersInv

LEMMA AskTrue ==
  ASSUME RequestsOK, AnswersInv, Quiet, NEW action, NEW default, NEW pr, NEW at, NEW told,
    NEW closes, Ask(action, default, pr, at, told, closes)
  PROVE AnswersInv'
<1>1. UNCHANGED run \/ Send(Request(action, FALSE, FALSE, default, pr, at, told)) BY DEF Ask
<1> QED BY <1>1, QuietRun, SendTrue

LEMMA ClientKeepsTrue == ASSUME RequestsOK, AnswersInv, ClientNext PROVE AnswersInv'
<1>1. Quiet
 BY DEF ClientNext, ClickAction, OpenCommitDialog, CancelDialog, ConfirmCommit, ConfirmDefault,
     ClickOffer, ReceiveAnswer, ReadStatus, ReadBranches, repository, clone, origin, server, Quiet
<1>2. CASE ClickAction
 <2>1. PICK action : Ask(action, OnDefault, ViewPr, Seen, Told, {}) BY <1>2 DEF ClickAction
 <2> QED BY <1>1, <2>1, AskTrue
<1>3. CASE OpenCommitDialog \/ CancelDialog \/ ReadStatus \/ ReadBranches
 <2>1. UNCHANGED run BY <1>3 DEF OpenCommitDialog, CancelDialog, ReadStatus, ReadBranches, server
 <2> QED BY <1>1, <2>1, QuietRun
<1>4. ASSUME NEW feature \in BOOLEAN, ConfirmCommit(feature) PROVE AnswersInv'
 <2>1. Send(Request("commit", feature, FALSE, OnDefault /\ ~feature, ViewPr, Seen, Told))
  BY <1>4 DEF ConfirmCommit
 <2> QED BY <1>1, <2>1, SendTrue
<1>5. ASSUME NEW feature \in BOOLEAN, ConfirmDefault(feature) PROVE AnswersInv'
 <2>1. Send(Request(dialog.action, feature, ~feature, OnDefault /\ ~feature, ViewPr, Seen, Told))
  BY <1>5 DEF ConfirmDefault
 <2> QED BY <1>1, <2>1, SendTrue
<1>6. ASSUME NEW offer \in offers, ClickOffer(offer) PROVE AnswersInv'
 <2>1. Ask(offer.action, offer.default, offer.pr, offer.at, offer.told, {offer})
  BY <1>6 DEF ClickOffer
 <2> QED BY <1>1, <2>1, AskTrue
<1>7. ASSUME NEW r \in Runs, ReceiveAnswer(r) PROVE AnswersInv'
 <2>1. run' = [run EXCEPT ![r] = Idle] BY <1>7 DEF ReceiveAnswer
 <2>2. Idle.pc = "idle" /\ Idle.commit = {} BY DEF Idle, Request
 <2>3. run'[r] = Idle /\ \A x \in Runs \ {r} : run'[x] = run[x] BY <2>1 DEF RequestsOK
 <2> QED BY <1>1, <2>2, <2>3, PlaceTrue
<1> QED BY <1>2, <1>3, <1>4, <1>5, <1>6, <1>7 DEF ClientNext

LEMMA AgentKeepsTrue == ASSUME AnswersInv, AgentNext PROVE AnswersInv'
<1>1. PICK e \in Edits : /\ e \notin made /\ made' = made \cup {e} /\ dirty' = dirty \cup {e}
                         /\ UNCHANGED <<local, upstream, head, remote, prs>>
 BY DEF AgentNext, AgentEdits, origin
<1>2. UNCHANGED <<run, prep, moves>> BY DEF AgentNext, Others, server
<1>3. Uncommitted' BY <1>1 DEF AnswersInv, Uncommitted
<1>4. MainStays' /\ Going BY <1>1, <1>2 DEF AnswersInv, MainStays, Going
<1> QED BY <1>2, <1>3, <1>4, AllRequestsStay DEF AnswersInv

(* The team only adds to a branch of the remote.                            *)
LEMMA TeamWrites ==
  ASSUME IInv, AnswersInv, NEW b \in Branches, NEW content \in SUBSET Edits,
    b \in DOMAIN remote => remote[b] \subseteq content,
    remote' = With(remote, b, content), made \subseteq made',
    content \subseteq made' \ dirty, prs' \subseteq prs,
    UNCHANGED <<local, upstream, head, dirty, run, prep, moves>>
  PROVE AnswersInv'
<1> DEFINE new == With(remote, b, content)
<1>1. remote \in Refs BY DEF IInv, RepositoryTypeOK
<1>2. /\ DOMAIN new = DOMAIN remote \cup {b} /\ new[b] = content
      /\ \A n \in DOMAIN remote \ {b} : new[n] = remote[n]
 BY <1>1, WithIs
<1> HIDE DEF new
<1>3. Going BY <1>2 DEF Going, new
<1>4. /\ dirty \subseteq made' /\ \A n \in DOMAIN local : local[n] \subseteq made' \ dirty
      /\ \A n \in DOMAIN remote : remote[n] \subseteq made' \ dirty
 BY DEF AnswersInv, Uncommitted
<1>5. \A n \in DOMAIN remote' : remote'[n] \subseteq made' \ dirty BY <1>1, <1>4, WithFits
<1>6. Uncommitted' /\ MainStays' BY <1>4, <1>5 DEF AnswersInv, Uncommitted, MainStays
<1> QED BY <1>3, <1>6, AllRequestsStay DEF AnswersInv

LEMMA TeamKeepsTrue == ASSUME IInv, AnswersInv, TeamNext PROVE AnswersInv'
<1>1. UNCHANGED <<run, prep, moves>> BY DEF TeamNext, Others, server
<1>2. /\ \A n \in DOMAIN remote : n \in Branches /\ remote[n] \subseteq Edits
      /\ Main \in DOMAIN remote /\ prs \subseteq DOMAIN remote
 BY RefsAre DEF IInv, RepositoryTypeOK
<1>3. /\ dirty \subseteq made /\ \A n \in DOMAIN remote : remote[n] \subseteq made \ dirty
 BY DEF AnswersInv, Uncommitted
<1>4. ASSUME NEW b \in Branches, NEW e \in Edits, TeamPushes(b, e) PROVE AnswersInv'
 <2> DEFINE old == IF b \in DOMAIN remote THEN remote[b] ELSE remote[Main]
            content == {e} \cup old
 <2>1. /\ e \notin made /\ made' = made \cup {e} /\ remote' = With(remote, b, content)
       /\ UNCHANGED <<local, upstream, head, dirty, prs>>
  BY <1>4 DEF TeamPushes, clone
 <2>2. old \subseteq Edits /\ old \subseteq made \ dirty BY <1>2, <1>3
 <2>3. b \in DOMAIN remote => remote[b] \subseteq content OBVIOUS
 <2> HIDE DEF old
 <2>4. content \in SUBSET Edits /\ content \subseteq made' \ dirty BY <1>3, <2>1, <2>2
 <2> HIDE DEF content
 <2> QED BY <1>1, <2>1, <2>3, <2>4, TeamWrites
<1>5. ASSUME NEW b \in Branches, TeamOpensPr(b) PROVE AnswersInv'
 <2>1. /\ UNCHANGED <<local, upstream, head, dirty, remote, made>>
       /\ prs' = prs \cup {b} /\ b # Main
  BY <1>5 DEF TeamOpensPr, clone
 <2>2. Uncommitted' /\ MainStays' /\ Going
  BY <1>1, <2>1 DEF AnswersInv, Uncommitted, MainStays, Going
 <2> QED BY <1>1, <2>2, AllRequestsStay DEF AnswersInv
<1>6. ASSUME NEW b \in Branches, TeamMerges(b) PROVE AnswersInv'
 <2> DEFINE content == remote[Main] \cup remote[b]
 <2>1. /\ b \in DOMAIN remote /\ remote' = With(remote, Main, content) /\ prs' \subseteq prs
       /\ UNCHANGED <<local, upstream, head, dirty, made>>
  BY <1>2, <1>6 DEF TeamMerges, clone
 <2>2. /\ content \in SUBSET Edits /\ content \subseteq made' \ dirty
       /\ Main \in Branches /\ remote[Main] \subseteq content
  BY <1>2, <1>3, <2>1
 <2> HIDE DEF content
 <2> QED BY <1>1, <2>1, <2>2, TeamWrites
<1> QED BY <1>4, <1>5, <1>6 DEF TeamNext

LEMMA InitTrue == Init => AnswersInv
<1> SUFFICES ASSUME Init PROVE AnswersInv OBVIOUS
<1>1. /\ local = [b \in {Main} |-> {}] /\ remote = [b \in Published |-> {}]
      /\ upstream = {Main} /\ dirty = {} /\ prs = {} /\ made = {}
      /\ run = [r \in Runs |-> Idle] /\ prep = NoPrep
 BY DEF Init, InitRepository
<1>2. Uncommitted /\ MainStays BY <1>1 DEF Uncommitted, MainStays, NoPrep
<1>3. Idle.pc = "idle" /\ Idle.commit = {} BY DEF Idle, Request
<1>4. RequestTrue(Idle) BY <1>3 DEF RequestTrue, Done, OnBranch
<1> QED BY <1>1, <1>2, <1>4 DEF AnswersInv, RequestsTrue

LEMMA NextKeepsTrue == IInv /\ AskedInv /\ AnswersInv /\ [Next]_vars => AnswersInv'
<1> SUFFICES ASSUME IInv, AskedInv, AnswersInv, [Next]_vars PROVE AnswersInv' OBVIOUS
<1>1. RequestsOK BY DEF IInv
<1>2. CASE UNCHANGED vars
 <2>1. Quiet /\ UNCHANGED run BY <1>2 DEF vars, server, repository, clone, origin, Quiet
 <2> QED BY <2>1, QuietRun
<1> QED
 BY <1>1, <1>2, ClientKeepsTrue, RunKeepsTrue, BranchKeepsTrue, AgentKeepsTrue,
    TeamKeepsTrue DEF Next

--------------------
(* What a success means.                                                    *)

AnswerTrue(r) ==
  LET done == run'[r] IN
    /\ done.commit \subseteq local'[done.branch]
    /\ done.action \in Publishing => done.commit \subseteq remote'[done.branch]
    /\ done.action = "commit_push_pr" => done.branch \in prs'
    /\ dirty' = {} => QuickAction(Status(tracking, head \in prs))' # done.action

(* The action that is offered next.                                         *)
LEMMA NextAction ==
  /\ QuickAction(Status(tracking, head \in prs))' # "commit"
  /\ Behind(tracking)' = {} => QuickAction(Status(tracking, head \in prs))' # "pull"
  /\ dirty' = {} /\ Ahead(tracking)' = {} =>
       QuickAction(Status(tracking, head \in prs))' \notin Publishing
  /\ head' \in prs' => QuickAction(Status(tracking, head \in prs))' # "commit_push_pr"
<1> DEFINE s == Status(tracking, head \in prs)'
           p == Publish(Status(tracking, head \in prs))'
<1>1. /\ s.changes = (dirty' # {}) /\ s.ahead = (Ahead(tracking)' # {})
      /\ s.behind = (Behind(tracking)' # {}) /\ s.pr = (head' \in prs')
 BY DEF Status
<1>2. QuickAction(Status(tracking, head \in prs))' =
        CASE s.changes \/ (s.ahead /\ ~s.behind) -> p
          [] ~s.changes /\ s.behind /\ ~s.ahead  -> "pull"
          [] OTHER                               -> "none"
 BY DEF QuickAction
<1>3. p \in Publishing /\ (s.pr => p = "commit_push") BY DEF Publish, Publishing
<1> HIDE DEF s, p
<1>4. /\ s.changes <=> dirty' # {}
      /\ s.ahead <=> Ahead(tracking)' # {}
      /\ s.behind <=> Behind(tracking)' # {}
      /\ s.pr <=> head' \in prs'
 BY <1>1
<1> DEFINE next == QuickAction(Status(tracking, head \in prs))'
<1>5. /\ next = p \/ next = "pull" \/ next = "none"
      /\ next = p \/ next = "none" \/ s.behind
      /\ s.changes \/ s.ahead \/ next = "pull" \/ next = "none"
 BY <1>2
<1> HIDE DEF next
<1>6. /\ next # "commit"
      /\ Behind(tracking)' = {} => next # "pull"
      /\ dirty' = {} /\ Ahead(tracking)' = {} => next \notin Publishing
      /\ head' \in prs' => next # "commit_push_pr"
 BY <1>3, <1>4, <1>5 DEF Publishing
<1> QED BY <1>6 DEF next

(* Only the step of a request makes it succeed.                             *)
LEMMA OwnStep ==
  ASSUME IInv, [Next]_vars, NEW r \in Runs, Succeeds(r) PROVE RunNext(r) /\ ~StepFails(r)
<1>1. DOMAIN run = Runs /\ DOMAIN run[r] = Fields /\ RequestsOK BY DEF IInv, RequestsOK, RequestOK
<1>2. run[r].pc \notin {"idle", "done"} /\ run'[r].pc = "done" /\ run'[r].ok BY DEF Succeeds
<1>3. ~ClientNext
 <2>1. ASSUME NEW request, request.pc = "begin", Send(request) PROVE FALSE
  <3>1. PICK x \in Runs : run' = [run EXCEPT ![x] = request] BY <2>1 DEF Send
  <3>2. run'[r] = run[r] \/ run'[r] = request BY <1>1, <3>1
  <3> QED BY <1>2, <2>1, <3>2
 <2>2. ASSUME NEW x \in Runs, ReceiveAnswer(x) PROVE FALSE
  <3>1. run'[r] = run[r] \/ run'[r] = Idle BY <1>1, <2>2 DEF ReceiveAnswer
  <3>2. Idle.pc = "idle" BY DEF Idle, Request
  <3> QED BY <1>2, <3>1, <3>2
 <2>3. run' # run BY <1>2
 <2>4. \A action, feature, confirmed, default, pr, at, told :
         ~Send(Request(action, feature, confirmed, default, pr, at, told))
  <3> SUFFICES ASSUME NEW action, NEW feature, NEW confirmed, NEW default,
                      NEW pr, NEW at, NEW told,
                      Send(Request(action, feature, confirmed, default, pr, at, told))
      PROVE  FALSE
   OBVIOUS
  <3>1. Request(action, feature, confirmed, default, pr, at, told).pc = "begin" BY DEF Request
  <3> QED BY <2>1, <3>1
 <2>5. \A action, default, pr, at, told, closes : ~Ask(action, default, pr, at, told, closes)
  BY <2>3, <2>4 DEF Ask
 <2>6. ~ClickAction /\ (\A offer \in offers : ~ClickOffer(offer))
  BY <2>5 DEF ClickAction, ClickOffer
 <2>7. \A feature \in BOOLEAN : ~ConfirmCommit(feature) /\ ~ConfirmDefault(feature)
  BY <2>4 DEF ConfirmCommit, ConfirmDefault
 <2>8. ~OpenCommitDialog /\ ~CancelDialog /\ ~ReadStatus /\ ~ReadBranches
  BY <2>3 DEF OpenCommitDialog, CancelDialog, ReadStatus, ReadBranches, server
 <2> QED BY <2>2, <2>6, <2>7, <2>8 DEF ClientNext
<1>4. ~BranchNext /\ ~AgentNext /\ ~TeamNext /\ ~UNCHANGED vars
 <2>1. run' # run BY <1>2
 <2> QED
  BY <2>1 DEF BranchNext, SelectBranch, SelectNewBranch, CheckoutPr, PrepareWorktree, FetchPr,
     AddWorktree, AgentNext, TeamNext, Others, server, vars
<1>5. PICK x \in Runs : RunNext(x) BY <1>3, <1>4 DEF Next
<1>6. \A y \in Runs \ {x} : run'[y] = run[y]
 <2>1. DOMAIN run = Runs BY <1>1
 <2> QED
  BY <1>5, <2>1 DEF RunNext, StepFails, Begin, Prepare, ResolveName, CreateBranch, CheckoutNew,
     Stage, Commit, PushStatus, PushNew, Push, FindPr, CreatePr, Pull, Go, Answer, AfterPush
<1>7. x = r BY <1>2, <1>6
<1>8. ~StepFails(r) BY <1>1, <1>2, AnswerLeaves DEF StepFails
<1> QED BY <1>5, <1>7, <1>8

(* The steps that never succeed.                                            *)
LEMMA FailsOrGoesOn ==
  ASSUME RequestsOK, NEW r \in Runs,
    Begin(r) \/ Prepare(r) \/ ResolveName(r) \/ CreateBranch(r) \/ CheckoutNew(r)
  PROVE ~Succeeds(r)
<1>1. DOMAIN run = Runs /\ DOMAIN run[r] = Fields BY DEF RequestsOK, RequestOK
<1>2. CASE Begin(r) BY <1>1, <1>2 DEF Begin, Succeeds, Fields
<1>3. CASE Prepare(r) \/ CreateBranch(r)
 <2>1. Answer(r, FALSE) \/ Go(r, "name") \/ Go(r, "checkout") BY <1>3 DEF Prepare, CreateBranch
 <2>2. CASE Answer(r, FALSE) BY <2>2, AnswerLeaves DEF Succeeds
 <2>3. CASE Go(r, "name") \/ Go(r, "checkout") BY <2>3, GoIs DEF Succeeds
 <2> QED BY <2>1, <2>2, <2>3
<1>4. CASE ResolveName(r)
 <2>1. PICK i \in 1..Len(Features) :
         run' = [run EXCEPT ![r].branch = Features[i], ![r].pc = "create"]
  BY <1>4 DEF ResolveName, FreeFeatures
 <2>2. run'[r].pc = "create" BY <1>1, <2>1 DEF Fields
 <2> QED BY <2>2 DEF Succeeds
<1>5. CASE CheckoutNew(r)
 <2>1. CASE Answer(r, FALSE) BY <2>1, AnswerLeaves DEF Succeeds
 <2>2. CASE run' = [run EXCEPT ![r].pc = "commit", ![r].at = moves']
  <3>1. run'[r].pc = "commit" BY <1>1, <2>2 DEF Fields
  <3> QED BY <3>1 DEF Succeeds
 <2> QED BY <1>5, <2>1, <2>2 DEF CheckoutNew
<1> QED BY <1>2, <1>3, <1>4, <1>5

(* What holds of a request that is answered while HEAD is where it was.     *)
LEMMA BeforeAnswer ==
  ASSUME RequestsOK, AnswersInv, NEW r \in Runs, NEW ok, Answer(r, ok), Steady(r),
    UNCHANGED moves
  PROVE /\ run[r].at = moves /\ RequestTrue(run[r]) /\ OnBranch(run[r])
        /\ run'[r].commit = run[r].commit /\ run'[r].branch = run[r].branch
        /\ run'[r].action = run[r].action
<1>1. run'[r].at = run[r].at BY AnswerLeaves
<1>2. run[r].at = moves /\ RequestTrue(run[r]) BY <1>1 DEF Steady, AnswersInv, RequestsTrue
<1> QED BY <1>2, AnswerIs, AnswerLeaves DEF RequestTrue

(* Nothing to commit, and a commit that was all that was asked for.         *)
LEMMA CommitSucceeds ==
  ASSUME IInv, AnswersInv, NEW r \in Runs, Stage(r) \/ Commit(r), Succeeds(r), Steady(r)
  PROVE AnswerTrue(r)
<1>1. RequestsOK /\ UNCHANGED <<head, moves>> BY DEF Stage, Commit, Surroundings, IInv
<1>2. CASE Stage(r)
 <2>1. Answer(r, TRUE) /\ run[r].action = "commit"
  <3>1. ~Go(r, "commit") /\ ~Go(r, "push_status") BY <1>1, GoIs DEF Succeeds
  <3> QED BY <1>2, <3>1 DEF Stage
 <2>2. run[r].pc = "stage" BY <1>2 DEF Stage
 <2>3. run'[r].commit = {} /\ run'[r].action = "commit"
  BY <1>1, <2>1, <2>2, BeforeAnswer DEF RequestTrue, Done
 <2> QED BY <2>3, NextAction DEF AnswerTrue, Publishing
<1>3. CASE Commit(r)
 <2>1. /\ local' = With(local, head, local[head] \cup index)
       /\ run' = [run EXCEPT ![r].commit = index, ![r].pc = AfterCommit(r),
                             ![r].ok = run[r].action = "commit"]
  <3>1. ~Answer(r, FALSE) BY <1>1, AnswerLeaves DEF Succeeds
  <3> QED BY <1>3, <3>1 DEF Commit
 <2>2. DOMAIN run = Runs /\ DOMAIN run[r] = Fields BY <1>1 DEF RequestsOK, RequestOK
 <2>3. /\ run'[r].pc = AfterCommit(r) /\ run'[r].at = run[r].at
       /\ run'[r].branch = run[r].branch /\ run'[r].commit = index
       /\ run'[r].action = run[r].action
  BY <2>1, <2>2 DEF Fields
 <2>4. run'[r].action = "commit" BY <2>3 DEF Succeeds, AfterCommit
 <2>5. run'[r].branch = head
  <3>1. run[r].pc = "commit" /\ run[r].at = moves BY <1>1, <1>3, <2>3 DEF Commit, Steady
  <3> QED BY <2>3, <3>1 DEF AnswersInv, RequestsTrue, RequestTrue, OnBranch
 <2>6. index \subseteq local'[head]
  <3>1. With(local, head, local[head] \cup index)[head] = local[head] \cup index BY DEF With
  <3> QED BY <2>1, <3>1
 <2> QED BY <2>3, <2>4, <2>5, <2>6, NextAction DEF AnswerTrue, Publishing
<1> QED BY <1>2, <1>3

(* Nothing to push.                                                         *)
LEMMA PushStatusSucceeds ==
  ASSUME IInv, AnswersInv, NEW r \in Runs, PushStatus(r), Succeeds(r), Steady(r)
  PROVE AnswerTrue(r)
<1>1. /\ RequestsOK /\ UNCHANGED <<head, moves, local, dirty, upstream, remote>>
      /\ run[r].pc = "push_status"
 BY DEF PushStatus, Surroundings, IInv, clone, origin
<1>2. PICK seen \in Refreshed :
        /\ tracking' = seen
        /\ IF /\ Ahead(seen) = {} /\ Behind(seen) = {}
              /\ head \in upstream \/ (Based /\ head \in DOMAIN seen)
           THEN IF run[r].action = "commit_push" THEN Answer(r, TRUE) ELSE Go(r, "pr")
           ELSE run' = [run EXCEPT ![r].pc = IF head \in upstream THEN "push" ELSE "push_new",
                                   ![r].branch = head]
 BY DEF PushStatus
<1>3. run'[r].pc = "done" BY DEF Succeeds
<1>4. ~Go(r, "pr") BY <1>1, <1>3, GoIs
<1>5. run' # [run EXCEPT ![r].pc = IF head \in upstream THEN "push" ELSE "push_new",
                         ![r].branch = head]
 BY <1>1, <1>3 DEF RequestsOK, RequestOK, Fields
<1>6. /\ Ahead(seen) = {}
      /\ head \in upstream \/ (Based /\ head \in DOMAIN seen)
      /\ run[r].action = "commit_push" /\ Answer(r, TRUE)
 BY <1>2, <1>4, <1>5
<1>7. /\ run[r].at = moves /\ OnBranch(run[r])
      /\ run'[r].commit = run[r].commit /\ run'[r].branch = run[r].branch
      /\ run'[r].action = "commit_push"
 BY <1>1, <1>6, BeforeAnswer
<1>8. run[r].branch = head /\ run[r].commit \subseteq local[head] BY <1>1, <1>7 DEF OnBranch
<1>9. run[r].commit \subseteq remote[head] BY <1>1, <1>6, <1>7, NothingAhead
<1>10. Ahead(tracking)' = {} BY <1>1, <1>2, <1>6 DEF Ahead, Compared
<1>11. dirty' = {} => QuickAction(Status(tracking, head \in prs))' # run'[r].action
 BY <1>7, <1>10, NextAction DEF Publishing
<1> QED BY <1>1, <1>7, <1>8, <1>9, <1>11 DEF AnswerTrue

(* A push.                                                                  *)
LEMMA PushSucceeds ==
  ASSUME IInv, AnswersInv, NEW r \in Runs, Push(r) \/ PushNew(r), Succeeds(r), Steady(r)
  PROVE AnswerTrue(r)
<1>1. /\ RequestsOK /\ UNCHANGED <<head, moves, local, dirty>>
      /\ run[r].pc \in {"push", "push_new"}
 BY DEF Push, PushNew, Surroundings, clone, IInv
<1>2. ~Answer(r, FALSE) BY <1>1, AnswerLeaves DEF Succeeds
<1>3. PICK b : /\ b = IF run[r].pc = "push" THEN head ELSE run[r].branch
               /\ Pushable(b) /\ PushTo(b) /\ AfterPush(r) /\ b \in upstream'
 <2>1. CASE Push(r) BY <1>2, <2>1 DEF Push, clone
 <2>2. CASE PushNew(r) BY <1>2, <2>2 DEF PushNew
 <2> QED BY <2>1, <2>2
<1>4. /\ run'[r].pc = IF run[r].action = "commit_push" THEN "done" ELSE "pr"
      /\ run'[r].branch = run[r].branch /\ run'[r].commit = run[r].commit
      /\ run'[r].action = run[r].action /\ run'[r].at = run[r].at
 BY <1>1, <1>3, AfterPushLeaves
<1>5. run'[r].action = "commit_push" BY <1>4 DEF Succeeds
<1>6. OnBranch(run[r]) BY <1>1, <1>4 DEF Steady, AnswersInv, RequestsTrue, RequestTrue
<1>7. run[r].branch = head /\ run[r].commit \subseteq local[head] /\ b = head
 BY <1>1, <1>3, <1>6 DEF OnBranch
<1>8. head \in DOMAIN local BY DEF IInv, RepositoryTypeOK
<1>9. remote'[head] = local[head] /\ tracking'[head] = local[head] BY <1>3, <1>7, <1>8, PushedIs
<1>10. Ahead(tracking)' = {} BY <1>1, <1>3, <1>7, <1>9 DEF Ahead, Compared
<1>11. dirty' = {} => QuickAction(Status(tracking, head \in prs))' # run'[r].action
 BY <1>5, <1>10, NextAction DEF Publishing
<1> QED BY <1>1, <1>4, <1>5, <1>7, <1>9, <1>11 DEF AnswerTrue

(* A pull request that is found, or created.                                *)
LEMMA PrSucceeds ==
  ASSUME IInv, AnswersInv, NEW r \in Runs, FindPr(r) \/ CreatePr(r), Succeeds(r), Steady(r)
  PROVE AnswerTrue(r)
<1>1. /\ RequestsOK /\ UNCHANGED <<head, moves, local, remote>>
      /\ run[r].pc \in {"pr", "open"}
 BY DEF FindPr, CreatePr, Surroundings, clone, origin, IInv
<1>2. ~Answer(r, FALSE) BY <1>1, AnswerLeaves DEF Succeeds
<1>3. /\ Answer(r, TRUE)
      /\ head \in prs' \/ run[r].branch \in prs'
 <2>1. CASE FindPr(r)
  <3>1. run' # [run EXCEPT ![r].pc = "open", ![r].branch = head]
   BY <1>1 DEF Succeeds, RequestsOK, RequestOK, Fields
  <3> QED BY <1>2, <2>1, <3>1 DEF FindPr, origin
 <2>2. CASE CreatePr(r) BY <1>2, <2>2 DEF CreatePr
 <2> QED BY <2>1, <2>2
<1>4. /\ RequestTrue(run[r]) /\ OnBranch(run[r])
      /\ run'[r].commit = run[r].commit /\ run'[r].branch = run[r].branch
      /\ run'[r].action = run[r].action
 BY <1>1, <1>3, BeforeAnswer
<1>5. /\ run[r].branch = head /\ run[r].commit \subseteq local[head]
      /\ run[r].commit \subseteq remote[head]
 BY <1>1, <1>4 DEF OnBranch
<1>6. run[r].action = "commit_push_pr" BY <1>1, <1>4 DEF RequestTrue, Done
<1>7. head' \in prs' BY <1>1, <1>3, <1>5
<1>8. QuickAction(Status(tracking, head \in prs))' # run'[r].action
 BY <1>4, <1>6, <1>7, NextAction
<1> QED BY <1>1, <1>4, <1>5, <1>7, <1>8 DEF AnswerTrue

(* A pull: nothing is behind.                                               *)
LEMMA PullSucceeds ==
  ASSUME IInv, AnswersInv, NEW r \in Runs, Pull(r), Succeeds(r), Steady(r) PROVE AnswerTrue(r)
<1>1. /\ RequestsOK /\ UNCHANGED <<head, moves, upstream>> /\ run[r].pc = "pull"
 BY DEF Pull, Surroundings, IInv
<1>2. ~Answer(r, FALSE) BY <1>1, AnswerLeaves DEF Succeeds
<1>3. PICK ok \in BOOLEAN :
        /\ Answer(r, ok)
        /\ tracking' = With(tracking, head, remote[head])
        /\ \/ local' = With(local, head, remote[head])
           \/ UNCHANGED local /\ ok = (remote[head] \subseteq local[head])
 BY <1>2 DEF Pull
<1>4. run[r].commit = {} /\ run[r].action = "pull"
 BY <1>1 DEF AnswersInv, RequestsTrue, RequestTrue, Done
<1>5. run'[r].commit = {} /\ run'[r].action = "pull" /\ ok
 BY <1>1, <1>3, <1>4, AnswerIs, AnswerLeaves DEF Succeeds
<1>6. tracking'[head] = remote[head]
 <2>1. With(tracking, head, remote[head])[head] = remote[head] BY DEF With
 <2> QED BY <1>3, <2>1
<1>7. remote[head] \subseteq local'[head]
 <2>1. With(local, head, remote[head])[head] = remote[head] BY DEF With
 <2> QED BY <1>3, <1>5, <2>1
<1>8. Behind(tracking)' = {} BY <1>1, <1>6, <1>7 DEF Behind
<1>9. QuickAction(Status(tracking, head \in prs))' # "pull" BY <1>8, NextAction
<1> QED BY <1>5, <1>9 DEF AnswerTrue, Publishing

LEMMA SuccessIsTrue ==
  ASSUME IInv, AnswersInv, [Next]_vars, NEW r \in Runs, Succeeds(r), Steady(r)
  PROVE AnswerTrue(r)
<1>1. RunNext(r) /\ ~StepFails(r) BY OwnStep
<1>2. RequestsOK BY DEF IInv
<1> QED
 BY <1>1, <1>2, FailsOrGoesOn, CommitSucceeds, PushStatusSucceeds, PushSucceeds, PrSucceeds,
    PullSucceeds DEF RunNext

(* A success means what the client then shows: what was committed is on the *)
(* branch that was shown, and on the remote if it was to be pushed, the     *)
(* pull request is open, and the action is not offered again.               *)
THEOREM AnswersAreTrue == Spec => AnswersTrue
<1> DEFINE Truly == \A r \in Runs : Succeeds(r) /\ Steady(r) =>
             LET done == run'[r] IN
               /\ done.commit \subseteq local'[done.branch]
               /\ done.action \in Publishing => done.commit \subseteq remote'[done.branch]
               /\ done.action = "commit_push_pr" => done.branch \in prs'
               /\ dirty' = {} =>
                    QuickAction(Status(tracking, head \in prs))' # done.action
<1>1. Init => IInv /\ AskedInv /\ AnswersInv BY InitKeeps, InitAsked, InitTrue
<1>2. IInv /\ AskedInv /\ AnswersInv /\ [Next]_vars => IInv' /\ AskedInv' /\ AnswersInv'
 BY NextKeeps, NextKeepsAsked, NextKeepsTrue
<1>3. IInv /\ AskedInv /\ AnswersInv /\ [Next]_vars => [Truly]_vars
 BY SuccessIsTrue DEF AnswerTrue
<1> QED BY <1>1, <1>2, <1>3, PTL DEF Spec, AnswersTrue

--------------------
(* Sequences that are sorted and filtered.                                  *)
\* "before" orders the indices of I.
Orders(I, before) ==
    /\ \A i \in I : <<i, i>> \notin before
    /\ \A i, j \in I : i # j => <<i, j>> \in before \/ <<j, i>> \in before
    /\ \A i, j, k \in I : <<i, j>> \in before /\ <<j, k>> \in before => <<i, k>> \in before

\* "place" counts the indices before one, "order" has the index of a place.
Places(place, I, before) ==
    place = [i \in I |-> Cardinality({j \in I : <<j, i>> \in before})]
Enumerates(order, place, I) ==
    order = [k \in 1..Cardinality(I) |-> CHOOSE i \in I : place[i] = k - 1]

(* As many come before an index as there are places before its own, so that *)
(* every place is taken once.                                               *)
LEMMA OrderIs ==
  ASSUME NEW I \in SUBSET Nat, IsFiniteSet(I), NEW before \in SUBSET (Nat \X Nat),
    Orders(I, before),
    NEW place, Places(place, I, before), NEW order, Enumerates(order, place, I)
  PROVE /\ order \in [1..Cardinality(I) -> I]
        /\ \A i \in I : \E k \in 1..Cardinality(I) : order[k] = i
        /\ \A k, l \in 1..Cardinality(I) : k < l => <<order[k], order[l]>> \in before
<1> DEFINE n == Cardinality(I)
           below(i) == {j \in I : <<j, i>> \in before}
<1>1. n \in Nat /\ IsFiniteSet(0..n - 1) /\ Cardinality(0..n - 1) = n
 <2>1. n \in Nat BY FS_CardinalityType
 <2> HIDE DEF n
 <2>2. 0 \in Int /\ n - 1 \in Int BY <2>1
 <2> QED BY <2>1, <2>2, FS_Interval
<1>2. ASSUME NEW i \in I
    PROVE  IsFiniteSet(below(i)) /\ place[i] \in 0..n - 1
 <2>1. below(i) \in SUBSET I /\ i \notin below(i) BY DEF Orders
 <2>2. IsFiniteSet(below(i)) /\ Cardinality(below(i)) <= n /\ Cardinality(below(i)) # n
  BY <2>1, FS_Subset
 <2>3. Cardinality(below(i)) \in Nat BY <2>2, FS_CardinalityType
 <2>4. place[i] = Cardinality(below(i)) BY DEF Places
 <2> HIDE DEF below
 <2> QED BY <1>1, <2>2, <2>3, <2>4
<1>3. ASSUME NEW i \in I, NEW j \in I, <<i, j>> \in before
    PROVE  place[i] < place[j]
 <2>1. below(i) \in SUBSET below(j) /\ i \in below(j) /\ i \notin below(i) BY <1>3 DEF Orders
 <2>2. Cardinality(below(i)) <= Cardinality(below(j))
       /\ Cardinality(below(i)) # Cardinality(below(j))
  BY <1>2, <2>1, FS_Subset
 <2>3. place[i] = Cardinality(below(i)) /\ place[j] = Cardinality(below(j)) BY DEF Places
 <2> HIDE DEF below
 <2> QED BY <1>1, <1>2, <2>2, <2>3
<1>4. place \in Injection(I, 0..n - 1)
 <2>1. ASSUME NEW i \in I, NEW j \in I, place[i] = place[j], i # j
     PROVE  FALSE
  <3> HIDE DEF n, below
  <3>1. place[i] \in Nat /\ place[j] \in Nat BY <1>1, <1>2
  <3>2. place[i] < place[j] \/ place[j] < place[i] BY <1>3, <2>1 DEF Orders
  <3> QED BY <2>1, <3>1, <3>2
 <2>2. place \in [I -> 0..n - 1] BY <1>2 DEF Places
 <2> QED BY <2>1, <2>2 DEF Injection, IsInjective
<1>5. \A k \in 0..n - 1 : \E i \in I : place[i] = k
 <2>1. place \in Surjection(I, 0..n - 1) BY <1>1, <1>4, FS_Injection
 <2> QED BY <2>1 DEF Surjection
<1>6. order = [k \in 1..n |-> CHOOSE i \in I : place[i] = k - 1] BY DEF Enumerates
<1> HIDE DEF n
<1>7. \A k \in 1..n : order[k] \in I /\ place[order[k]] = k - 1 BY SMTT(30), <1>1, <1>5, <1>6
<1>8. order \in [1..n -> I] BY <1>6, <1>7
<1>9. \A i \in I : \E k \in 1..n : order[k] = i
 <2> TAKE i \in I
 <2>1. place[i] \in 0..n - 1 BY <1>2
 <2>2. place[i] + 1 \in 1..n /\ place[order[place[i] + 1]] = place[i] BY <1>1, <1>7, <2>1
 <2>3. order[place[i] + 1] = i BY <1>4, <1>7, <2>2 DEF Injection, IsInjective
 <2> QED BY <2>2, <2>3
<1>10. \A k, l \in 1..n : k < l => <<order[k], order[l]>> \in before
 <2> TAKE k, l \in 1..n
 <2> HAVE k < l
 <2>1. order[k] # order[l] /\ ~(place[order[l]] < place[order[k]]) BY <1>1, <1>7
 <2> QED BY <1>3, <1>7, <2>1 DEF Orders
<1> QED BY <1>8, <1>9, <1>10 DEF n


(* The indices of a set ascend. *)
LEMMA AscendingIs ==
  ASSUME NEW I \in SUBSET Nat, IsFiniteSet(I)
  PROVE /\ Ascending[I] \in [1..Cardinality(I) -> I]
        /\ \A i \in I : \E k \in 1..Cardinality(I) : Ascending[I][k] = i
        /\ \A k, l \in 1..Cardinality(I) : k < l => Ascending[I][k] < Ascending[I][l]
<1> DEFINE before == {pair \in Nat \X Nat : pair[1] < pair[2]}
           place == [i \in I |-> Cardinality({j \in I : j < i})]
           order == Ascending[I]
<1>1. Orders(I, before) BY DEF Orders
<1>2. Places(place, I, before)
 <2>1. \A i \in I : {j \in I : j < i} = {j \in I : <<j, i>> \in before} OBVIOUS
 <2> HIDE DEF before
 <2> QED BY <2>1 DEF Places
<1>3. Enumerates(order, place, I) BY Zenon DEF Ascending, Enumerates
<1> HIDE DEF before, place, order
<1>4. before \in SUBSET (Nat \X Nat) BY DEF before
<1>5. \A i, j \in Nat : <<i, j>> \in before => i < j BY DEF before
<1>6. /\ order \in [1..Cardinality(I) -> I]
      /\ \A i \in I : \E k \in 1..Cardinality(I) : order[k] = i
      /\ \A k, l \in 1..Cardinality(I) : k < l => <<order[k], order[l]>> \in before
 BY <1>1, <1>2, <1>3, <1>4, OrderIs
<1>7. \A k, l \in 1..Cardinality(I) : k < l => order[k] < order[l] BY <1>5, <1>6
<1> QED BY <1>6, <1>7 DEF order

(* The last and the first of them are the greatest and the least. *)
LEMMA ExtremesAre ==
  ASSUME NEW S \in SUBSET Nat, IsFiniteSet(S), S # {}
  PROVE /\ Max(S) \in S /\ \A i \in S : i <= Max(S)
        /\ Min(S) \in S /\ \A i \in S : Min(S) <= i
<1> DEFINE n == Cardinality(S)
           order == Ascending[S]
<1>1. n \in Nat /\ n # 0 BY FS_CardinalityType, FS_EmptySet
<1>2. /\ order \in [1..n -> S]
      /\ \A i \in S : \E k \in 1..n : order[k] = i
      /\ \A k, l \in 1..n : k < l => order[k] < order[l]
 BY AscendingIs
<1> HIDE DEF n, order
<1> DEFINE first == order[1]
           last == order[n]
<1>7. \A k \in 1..n : order[k] \in Nat /\ (k < n => order[k] < last) /\ (1 < k => first < order[k])
 <2>1. 1 \in 1..n /\ n \in 1..n BY <1>1
 <2>2. \A k \in 1..n : order[k] \in S BY <1>2
 <2> QED BY <1>2, <2>1, <2>2
<1>8. \A k \in 1..n : order[k] <= last /\ first <= order[k] BY <1>1, <1>7
<1>9. first \in S /\ last \in S BY <1>1, <1>2
<1> HIDE DEF first, last
<1>3. last \in S /\ \A i \in S : last >= i BY <1>2, <1>8, <1>9
<1>4. first \in S /\ \A i \in S : first <= i BY <1>2, <1>8, <1>9
<1>5. Max(S) \in S /\ \A i \in S : Max(S) >= i BY <1>3, Zenon DEF Max
<1>6. Min(S) \in S /\ \A i \in S : Min(S) <= i BY <1>4, Zenon DEF Min
<1> QED BY <1>5, <1>6

(* Indices that each have as many before them as a sequence does, stay. *)
LEMMA InPlace ==
  ASSUME NEW m \in Nat, NEW place, \A i \in 1..m : place[i] = i - 1,
    NEW order, Enumerates(order, place, 1..m), NEW k \in 1..m
  PROVE order[k] = k
<1>1. Cardinality(1..m) = m BY FS_Interval
<1>2. order[k] = CHOOSE i \in 1..m : place[i] = k - 1 BY <1>1 DEF Enumerates
<1>3. \A i \in 1..m : place[i] = k - 1 <=> i = k OBVIOUS
<1> QED BY <1>2, <1>3

LEMMA AscendingPrefix ==
  ASSUME NEW m \in Nat, NEW k \in 1..m PROVE Ascending[1..m][k] = k
<1> DEFINE I == 1..m
           place == [i \in I |-> Cardinality({j \in I : j < i})]
           order == Ascending[I]
<1>1. Enumerates(order, place, I)
 <2>1. I \in SUBSET Nat OBVIOUS
 <2> HIDE DEF I
 <2> QED BY <2>1, Zenon DEF Ascending, Enumerates
<1>2. ASSUME NEW i \in I
    PROVE  place[i] = i - 1
 <2>1. {j \in I : j < i} = 1..i - 1 OBVIOUS
 <2>2. Cardinality(1..i - 1) = i - 1
  <3>1. i \in Int /\ i >= 1 BY <1>1
  <3> HIDE DEF I
  <3>2. \A b \in Int : Cardinality(1..b) = IF 1 > b THEN 0 ELSE b - 1 + 1 BY FS_Interval
  <3>3. i - 1 \in Int BY <3>1
  <3> QED BY <3>1, <3>2, <3>3
 <2> QED BY <2>1, <2>2
<1> HIDE DEF place, order
<1>3. order[k] = k BY <1>1, <1>2, InPlace
<1> QED BY <1>3 DEF order

(* What is left of a sequence when the indices outside of I are dropped. *)
LEMMA AtIndicesIs ==
  ASSUME NEW S, NEW s \in Seq(S), NEW I \in SUBSET (1..Len(s))
  PROVE LET r == AtIndices(s, I)
        IN  /\ r \in Seq(S) /\ Len(r) = Cardinality(I) /\ Len(r) <= Len(s)
            /\ \A k \in 1..Len(r) : \E i \in I : r[k] = s[i]
            /\ \A i \in I : \E k \in 1..Len(r) : r[k] = s[i]
<1> DEFINE n == Len(s)
           order == Ascending[I]
           r == AtIndices(s, I)
<1>1. DOMAIN s = 1..n /\ n \in Nat /\ \A i \in 1..n : s[i] \in S OBVIOUS
<1>2. IsFiniteSet(1..n) /\ Cardinality(1..n) = n BY <1>1, FS_Interval
<1>3. IsFiniteSet(I) /\ Cardinality(I) <= n BY <1>2, FS_Subset
<1>4. Cardinality(I) \in Nat BY <1>3, FS_CardinalityType
<1>5. I \in SUBSET Nat OBVIOUS
<1>6. /\ order \in [1..Cardinality(I) -> I]
      /\ \A i \in I : \E k \in 1..Cardinality(I) : order[k] = i
 BY <1>3, <1>5, AscendingIs
<1>7. r = [k \in 1..Cardinality(I) |-> s[order[k]]] BY DEF AtIndices
<1> HIDE DEF n, order, r
<1>8. ASSUME NEW k \in 1..Cardinality(I)
    PROVE  r[k] = s[order[k]] /\ order[k] \in I /\ r[k] \in S
 <2>1. order[k] \in I /\ r[k] = s[order[k]] BY <1>6, <1>7
 <2>2. I \in SUBSET (1..n) BY DEF n
 <2> QED BY <1>1, <2>1, <2>2
<1>9. r \in Seq(S) /\ Len(r) = Cardinality(I) BY <1>4, <1>7, <1>8
<1>10. Len(r) <= Len(s) BY <1>3, <1>9 DEF n
<1>11. ASSUME NEW i \in I
    PROVE  \E k \in 1..Len(r) : r[k] = s[i]
 <2>1. PICK k \in 1..Cardinality(I) : order[k] = i BY <1>6
 <2> QED BY <1>8, <1>9, <2>1
<1> QED BY <1>8, <1>9, <1>10, <1>11 DEF r

(* The first m entries of a sequence. *)
LEMMA PrefixIs ==
  ASSUME NEW S, NEW s \in Seq(S), NEW m \in 0..Len(s)
  PROVE LET r == AtIndices(s, 1..m)
        IN  Len(r) = m /\ \A k \in 1..m : r[k] = s[k]
<1> DEFINE order == Ascending[1..m]
           r == AtIndices(s, 1..m)
<1>1. Cardinality(1..m) = m BY FS_Interval
<1>2. r = [k \in 1..m |-> s[order[k]]] BY <1>1 DEF AtIndices
<1>3. \A k \in 1..m : order[k] = k BY AscendingPrefix
<1>4. Len(r) = m BY <1>1, AtIndicesIs
<1> HIDE DEF order, r
<1>5. \A k \in 1..m : r[k] = s[k] BY <1>2, <1>3
<1> QED BY <1>4, <1>5 DEF r

(* Sorting keeps the entries, and their places when they ascend already. *)
LEMMA SortedIs ==
  ASSUME NEW S, NEW s \in Seq(S), \A i \in 1..Len(s) : s[i].count \in Nat
  PROVE LET r == StableSort(s, ByTurnCount)
        IN  /\ r \in Seq(S) /\ Len(r) = Len(s)
            /\ \A k \in 1..Len(r) : \E i \in 1..Len(s) : r[k] = s[i]
            /\ \A i \in 1..Len(s) : \E k \in 1..Len(r) : r[k] = s[i]
            /\ (\A i, j \in 1..Len(s) : i < j => s[i].count <= s[j].count) => r = s
<1> DEFINE n == Len(s)
           I == DOMAIN s
           earlier(i, j) == \/ ByTurnCount(s[j], s[i])
                            \/ (~ByTurnCount(s[i], s[j]) /\ j < i)
           before == {pair \in I \X I : earlier(pair[2], pair[1])}
           place == [i \in I |-> Cardinality({j \in I : earlier(i, j)})]
           order == [k \in I |-> CHOOSE i \in I : place[i] = k - 1]
           r == StableSort(s, ByTurnCount)
<1>1. I = 1..n /\ n \in Nat /\ \A i \in I : s[i] \in S OBVIOUS
<1>2. IsFiniteSet(I) /\ Cardinality(I) = n
 <2>1. n \in Int /\ 1 \in Int BY <1>1
 <2> HIDE DEF n, I
 <2>2. IsFiniteSet(1..n) /\ Cardinality(1..n) = n
  <3>1. \A b \in Int : IsFiniteSet(1..b) /\ Cardinality(1..b) = IF 1 > b THEN 0 ELSE b - 1 + 1
   BY FS_Interval
  <3> QED BY <1>1, <2>1, <3>1
 <2> QED BY <1>1, <2>2
<1>3. I \in SUBSET Nat /\ before \in SUBSET (Nat \X Nat) /\ Orders(I, before)
 BY <1>1 DEF Orders, ByTurnCount
<1>4. r = [k \in I |-> s[CHOOSE i \in I : place[i] = k - 1]] BY Zenon DEF StableSort
<1>5. Places(place, I, before)
 <2>1. \A i, j \in I : <<j, i>> \in before <=> earlier(i, j) OBVIOUS
 <2> HIDE DEF before, earlier
 <2>2. \A i \in I : {j \in I : earlier(i, j)} = {j \in I : <<j, i>> \in before} BY <2>1
 <2> QED BY <2>2 DEF Places
<1>6. (\A i, j \in I : i < j => s[i].count <= s[j].count)
         => \A i \in I : place[i] = i - 1
 <2> SUFFICES ASSUME \A i, j \in I : i < j => s[i].count <= s[j].count, NEW i \in I
     PROVE  place[i] = i - 1
  OBVIOUS
 <2>1. {j \in I : earlier(i, j)} = 1..i - 1 BY <1>1 DEF ByTurnCount
 <2>2. Cardinality(1..i - 1) = i - 1
  <3>1. i \in Int /\ i >= 1 BY <1>1
  <3> HIDE DEF I
  <3>2. \A b \in Int : Cardinality(1..b) = IF 1 > b THEN 0 ELSE b - 1 + 1 BY FS_Interval
  <3>3. i - 1 \in Int BY <3>1
  <3> QED BY <3>1, <3>2, <3>3
 <2> QED BY <2>1, <2>2
<1> HIDE DEF place, before
<1>7. Enumerates(order, place, I) BY <1>2 DEF Enumerates
<1>8. r = [k \in I |-> s[order[k]]] BY <1>4
<1> HIDE DEF order
<1>9. /\ order \in [I -> I]
      /\ \A i \in I : \E k \in I : order[k] = i
 <2>1. 1..Cardinality(I) = I BY <1>1, <1>2
 <2> HIDE DEF I
 <2>2. /\ order \in [1..Cardinality(I) -> I]
       /\ \A i \in I : \E k \in 1..Cardinality(I) : order[k] = i
  BY <1>2, <1>3, <1>5, <1>7, OrderIs
 <2> QED BY <2>1, <2>2
<1> HIDE DEF n, r
<1>10. \A k \in I : r[k] = s[order[k]] /\ order[k] \in I /\ r[k] \in S BY <1>1, <1>8, <1>9
<1>11. r \in Seq(S) /\ Len(r) = n BY <1>1, <1>8, <1>10
<1>12. ASSUME NEW i \in I
    PROVE  \E k \in I : r[k] = s[i]
 <2>1. PICK k \in I : order[k] = i BY <1>9
 <2> QED BY <1>10, <2>1
<1>13. (\A i \in I : place[i] = i - 1) => r = s
 <2> SUFFICES ASSUME \A i \in I : place[i] = i - 1
     PROVE  r = s
  OBVIOUS
 <2>1. Enumerates(order, place, 1..n) /\ \A i \in 1..n : place[i] = i - 1 BY <1>1, <1>7
 <2>2. \A k \in 1..n : order[k] = k BY <1>1, <2>1, InPlace
 <2>3. \A k \in I : r[k] = s[k] BY <1>1, <1>10, <2>2
 <2> QED BY <1>1, <1>8, <2>3
<1> HIDE DEF I
<1> QED BY <1>1, <1>6, <1>10, <1>11, <1>12, <1>13 DEF r, n

--------------------
(* What the steps of the reactor and of its surroundings preserve.          *)
T == setting.turns
D == setting.diffs
Checkpoints == thread.checkpoints
Entries == DOMAIN Checkpoints

TurnStarts == [type : {"message-sent", "turn-start-requested"}]
RevertRequests == [type : {"checkpoint-revert-requested"}, turnCount : 0..T]
Lifecycle ==
    [type : {"turn.started"}, turn : TurnIds]
        \cup [type : {"turn.completed"}, turn : TurnIds,
              state : {"completed", "failed", "interrupted"}]
DiffUpdates == [type : {"turn.diff.updated"}, turn : TurnIds]
Exits == [type : {"session.exited"}]

Baselines == [step : {"capture"}, count : Nat, turn : {NoTurn}]
Completions ==
    [step : {"capture", "record"}, count : Nat \ {0}, turn : TurnIds,
     status : {"error", "missing", "ready"}]
GitReverts ==
    [step : {"restore", "rollback", "delete", "complete"}, turnCount : 0..T, rollback : Nat,
     stale : SUBSET (Nat \cup {Provisional}), target : Nat \cup {Provisional}]
PlainReverts ==
    [step : {"rollback", "delete", "complete"}, turnCount : 0..T, stale : {{}}, rollback : Nat]
Drafts == [turn : TurnIds, count : Nat \ {0}]
Providers ==
    [session : BOOLEAN, active : TurnIds \cup {NoTurn}, turns : Seq(TurnIds),
     memory : SUBSET TurnIds]

MessageType ==
    [id : Nat, role : {"user", "assistant"}, turn : TurnIds \cup {NoTurn}, text : {<< >>},
     streaming : {FALSE}, at : Nat]
CheckpointType ==
    [turn : TurnIds, count : Nat \ {0}, status : {"error", "missing", "ready"}, assistant : Nat,
     ref : Nat \cup {Provisional}]

Reverting == job \in GitReverts \cup PlainReverts
Completing == job \in Completions

ThreadTyped(t) ==
    /\ {"session", "latestTurn", "messages", "plans", "activities", "checkpoints"}
          \subseteq DOMAIN t
    /\ t.messages \in Seq(MessageType)
    /\ t.checkpoints \in Seq(CheckpointType)

QueuesTyped ==
    /\ domain \in Seq(TurnStarts \cup RevertRequests)
    /\ runtime \in Seq(Lifecycle)
    /\ ingest \in Seq(Lifecycle \cup DiffUpdates \cup Exits)
RequestsTyped ==
    /\ turns \in 0..T
    /\ requests \in Seq(TurnIds) /\ Len(requests) <= turns
    /\ \A i \in 1..Len(requests) : requests[i] = turns - Len(requests) + i
WorkersTyped ==
    /\ draft \in Drafts \cup {NoJob}
    /\ job \in Baselines \cup Completions \cup GitReverts \cup PlainReverts \cup {NoJob}
FilesTyped ==
    /\ files \subseteq 1..turns
    /\ DOMAIN refs \subseteq Nat
    /\ \A count \in DOMAIN refs : refs[count] \subseteq 1..turns
    /\ lost \subseteq Nat \cup {Provisional}
ProviderTyped ==
    /\ provider \in Providers
    /\ provider.active \in 1..turns \cup {NoTurn}
    /\ diffs \in 0..D
SpentTyped ==
    /\ asked \in 0..setting.reverts
    /\ replies \in Seq({"reverted", "failed"})
    /\ faults \in 0..setting.faults
StateTyped ==
    /\ setting \in Settings
    /\ ThreadTyped(thread)
    /\ QueuesTyped /\ RequestsTyped /\ WorkersTyped /\ FilesTyped /\ ProviderTyped /\ SpentTyped

\* How many entries of a queue have a type.
Queued(queue, type) == Cardinality({i \in DOMAIN queue : queue[i].type = type})
One(condition) == IF condition THEN 1 ELSE 0

\* The checkpoints that the turns started so far can have recorded: every turn
\* accounts for one of its own and one of each of its diffs, from when it starts
\* until the event for it is taken.
Due ==
    Queued(runtime, "turn.completed") + Queued(ingest, "turn.diff.updated")
        + IF provider.active = NoTurn THEN 0 ELSE 1 + D - diffs
Recordable == (1 + D) * (turns - Len(requests)) - Due

\* Turn counts, and the checkpoints there are, do not outnumber them.
Counted ==
    /\ \A i \in Entries : Checkpoints[i].count <= Recordable - One(draft # NoJob) - One(Completing)
    /\ Len(Checkpoints) <= Recordable - One(draft # NoJob) - One(Completing)
    /\ draft # NoJob => draft.count <= Recordable - One(Completing)
    /\ Completing => job.count <= Recordable - One(draft # NoJob)
    /\ job \in Baselines => job.count <= Recordable
    /\ \A count \in DOMAIN refs : count <= Recordable
    /\ D = 0 => draft = NoJob /\ Queued(ingest, "turn.diff.updated") = 0

\* Each revert that was asked for waits, is under way or was answered.
RepliesInOrder ==
    asked = Queued(domain, "checkpoint-revert-requested") + One(Reverting) + Len(replies)

\* A checkpoint has the ref of its count, unless a revert lost it; a ref that a
\* worker is about to write is of none, and one that it is about to delete of none that stays.
Linked ==
    /\ \A i \in Entries :
          /\ Checkpoints[i].ref \in {Provisional, Checkpoints[i].count}
          /\ \/ Checkpoints[i].ref \in DOMAIN refs \cup {Provisional} \cup lost
             \/ Reverting /\ job.step = "complete" /\ Checkpoints[i].ref \in job.stale
    /\ Completing /\ job.step = "record" => job.count \in DOMAIN refs
    /\ job \in Baselines => \A i \in Entries : Checkpoints[i].ref # job.count \/ job.count \in lost
    /\ Completing /\ job.step = "capture" => \A i \in Entries : Checkpoints[i].ref # job.count
    /\ Reverting => \A count \in job.stale : count = Provisional \/ count > job.turnCount

\* Without diffs, or with a user who waits, checkpoints are kept in the order of
\* their counts, and what is recorded next goes to the end.
Orderable == D = 0 \/ setting.patient
NthCount(n) == IF D = 0 THEN {n} ELSE {n, n + 1}
Fits(turn, count) ==
    \E m \in 0..Len(Checkpoints) :
        /\ {i \in Entries : Checkpoints[i].turn # turn} = 1..m
        /\ count \in NthCount(m + 1)
InOrder ==
    Orderable =>
        /\ \A i \in Entries : Checkpoints[i].count \in NthCount(i)
        /\ Completing => Fits(job.turn, job.count)
        /\ draft # NoJob => Fits(draft.turn, draft.count)

\* A user who waits has one turn at a time under way, the last, and none while a
\* revert is; and a checkpoint has no edits of the turns after its own.
OneAtATime ==
    /\ Len(requests) <= 1
    /\ provider.active \in {NoTurn, turns}
    /\ \A i \in 1..Len(runtime) : runtime[i].turn = turns
    /\ \A i \in 1..Len(ingest) : ingest[i].type # "session.exited" => ingest[i].turn = turns
    /\ draft # NoJob => draft.turn = turns
    /\ Completing => job.turn = turns
    /\ Reverting \/ Queued(domain, "checkpoint-revert-requested") > 0 =>
          /\ requests = << >> /\ provider.active = NoTurn /\ draft = NoJob
          /\ \A i \in 1..Len(ingest) : ingest[i].type = "session.exited"
Separated ==
    /\ \A i \in Entries : i <= Checkpoints[i].turn /\ Checkpoints[i].turn <= turns
    /\ \A i, j \in Entries : i < j => Checkpoints[i].turn < Checkpoints[j].turn
    /\ \A i \in Entries : Checkpoints[i].ref \in DOMAIN refs \ lost =>
          refs[Checkpoints[i].ref] \subseteq 1..Checkpoints[i].turn
Undone ==
    Reverting /\ job.turnCount > 0 /\ job.turnCount \notin lost =>
        \/ /\ job.step = "restore"
           /\ \E i \in Entries : /\ Checkpoints[i].count = job.turnCount
                                 /\ Checkpoints[i].ref = job.target
        \/ /\ job.step # "restore"
           /\ setting.git => \A i \in Entries : Checkpoints[i].count > job.turnCount =>
                                 Checkpoints[i].turn \notin files
Patiently == setting.patient => OneAtATime /\ Separated /\ Undone

ReactorInvariant ==
    StateTyped /\ Counted /\ RepliesInOrder /\ Linked /\ InOrder /\ Patiently

--------------------
(* How many entries of a queue have a type.                                 *)
LEMMA QueuedNone ==
  ASSUME NEW type PROVE Queued(<< >>, type) = 0
<1>1. {i \in DOMAIN << >> : << >>[i].type = type} = {} OBVIOUS
<1> QED BY <1>1, FS_EmptySet DEF Queued

LEMMA QueuedSome ==
  ASSUME NEW S, NEW queue \in Seq(S), NEW type
  PROVE /\ Queued(queue, type) \in Nat
        /\ Queued(queue, type) = 0 <=> \A i \in 1..Len(queue) : queue[i].type # type
<1> DEFINE I == {i \in DOMAIN queue : queue[i].type = type}
<1>1. IsFiniteSet(1..Len(queue)) /\ I \in SUBSET (1..Len(queue)) BY FS_Interval
<1>2. IsFiniteSet(I) /\ Cardinality(I) \in Nat BY <1>1, FS_Subset, FS_CardinalityType
<1>3. Cardinality(I) = 0 <=> I = {} BY <1>2, FS_EmptySet
<1> QED BY <1>2, <1>3 DEF Queued

LEMMA QueuedAppend ==
  ASSUME NEW S, NEW queue \in Seq(S), NEW event, NEW type
  PROVE Queued(Append(queue, event), type) = Queued(queue, type) + One(event.type = type)
<1> DEFINE n == Len(queue)
           I == {i \in DOMAIN queue : queue[i].type = type}
           J == {i \in DOMAIN Append(queue, event) : Append(queue, event)[i].type = type}
<1>1. n \in Nat /\ DOMAIN queue = 1..n /\ DOMAIN Append(queue, event) = 1..n + 1
      /\ (\A i \in 1..n : Append(queue, event)[i] = queue[i])
      /\ Append(queue, event)[n + 1] = event
 OBVIOUS
<1>2. IsFiniteSet(1..n) /\ I \in SUBSET (1..n) BY <1>1, FS_Interval
<1>3. IsFiniteSet(I) /\ Cardinality(I) \in Nat /\ n + 1 \notin I
 BY <1>1, <1>2, FS_Subset, FS_CardinalityType
<1>4. J = IF event.type = type THEN I \cup {n + 1} ELSE I BY <1>1
<1>5. Cardinality(J) = Cardinality(I) + One(event.type = type)
 <2> HIDE DEF I, J, n
 <2>1. Cardinality(I \cup {n + 1}) = Cardinality(I) + 1 BY <1>3, FS_AddElement
 <2> QED BY <1>3, <1>4, <2>1 DEF One
<1> QED BY <1>5 DEF Queued

LEMMA QueuedTail ==
  ASSUME NEW S, NEW queue \in Seq(S), queue # << >>, NEW type
  PROVE Queued(queue, type) = Queued(Tail(queue), type) + One(Head(queue).type = type)
<1> DEFINE n == Len(queue)
           I == {i \in DOMAIN queue : queue[i].type = type}
           K == I \ {1}
           J == {i \in DOMAIN Tail(queue) : Tail(queue)[i].type = type}
           shift == [j \in J |-> j + 1]
<1>1. n \in Nat /\ n > 0 /\ DOMAIN queue = 1..n /\ DOMAIN Tail(queue) = 1..n - 1
      /\ (\A i \in 1..n - 1 : Tail(queue)[i] = queue[i + 1])
      /\ Head(queue) = queue[1]
 OBVIOUS
<1>2. IsFiniteSet(1..n) /\ I \in SUBSET (1..n) BY <1>1, FS_Interval
<1>3. IsFiniteSet(I) /\ Cardinality(I) \in Nat BY <1>2, FS_Subset, FS_CardinalityType
<1>4. \A i \in 2..n : i - 1 \in 1..n - 1 /\ Tail(queue)[i - 1] = queue[i] BY <1>1
<1>5. shift \in Bijection(J, K)
 <2>1. \A j \in J : shift[j] \in K BY <1>1
 <2>2. \A k \in K : k - 1 \in J /\ shift[k - 1] = k BY <1>1, <1>4
 <2>3. \A j, l \in J : shift[j] = shift[l] => j = l BY <1>1
 <2>4. shift \in [J -> K] BY <2>1
 <2> HIDE DEF shift, J, K
 <2> QED BY <2>2, <2>3, <2>4 DEF Bijection, Injection, IsInjective, Surjection
<1>6. J \in SUBSET (1..n - 1) /\ IsFiniteSet(1..n - 1) BY <1>1, FS_Interval
<1>7. IsFiniteSet(J) BY <1>6, FS_Subset
<1>8. Cardinality(K) = Cardinality(J)
 <2> HIDE DEF shift, J, K
 <2> QED BY <1>5, <1>7, FS_Bijection DEF ExistsBijection
<1>9. Cardinality(K) = IF 1 \in I THEN Cardinality(I) - 1 ELSE Cardinality(I)
 BY <1>3, FS_RemoveElement
<1>10. 1 \in I <=> Head(queue).type = type BY <1>1
<1>11. Cardinality(I) = Cardinality(J) + One(Head(queue).type = type)
 <2> HIDE DEF I, J, K
 <2> QED BY <1>3, <1>8, <1>9, <1>10 DEF One
<1> QED BY <1>11 DEF Queued

--------------------
(* What the projector makes of a thread.                                    *)
LEMMA LastNIs ==
  ASSUME NEW S, NEW s \in Seq(S), NEW n \in Nat
  PROVE LET r == LastN(s, n)
        IN  /\ r \in Seq(S) /\ Len(r) <= Len(s)
            /\ \A k \in 1..Len(r) : \E i \in 1..Len(s) : r[k] = s[i]
            /\ Len(s) <= n => r = s
<1>1. CASE Len(s) <= n BY <1>1 DEF LastN
<1>2. CASE ~(Len(s) <= n)
 <2> DEFINE b == Len(s) - n
            r == SubSeq(s, b + 1, Len(s))
 <2>1. b \in Nat /\ b + 1 \in 1..Len(s) + 1 /\ Len(s) \in Nat BY <1>2
 <2>2. Len(r) = n /\ r \in Seq(S) /\ \A k \in 1..n : r[k] = s[b + k] BY <1>2, <2>1
 <2>3. \A k \in 1..n : b + k \in 1..Len(s) BY <1>2
 <2> QED BY <1>2, <2>2, <2>3 DEF LastN
<1> QED BY <1>1, <1>2

LEMMA SendMessageIs ==
  ASSUME NEW t, ThreadTyped(t),
    NEW data, data.message \in Nat, data.role \in {"user", "assistant"},
    data.turn \in TurnIds \cup {NoTurn}, data.text = << >>, data.streaming = FALSE,
    data.at \in Nat
  PROVE LET r == SendMessage(t, data)
        IN  ThreadTyped(r) /\ r.checkpoints = t.checkpoints
<1> DEFINE new == [id |-> data.message, role |-> data.role, turn |-> data.turn,
                   text |-> data.text, streaming |-> data.streaming, at |-> data.at]
           old == t.messages
           known == \E i \in DOMAIN old : old[i].id = new.id
           merged == [i \in DOMAIN old |->
                        IF old[i].id = new.id THEN MergeMessage(old[i], new) ELSE old[i]]
           messages == IF known THEN merged ELSE Append(old, new)
           r == SendMessage(t, data)
<1>1. new \in MessageType /\ old \in Seq(MessageType) BY DEF MessageType, ThreadTyped
<1>2. merged \in Seq(MessageType)
 <2>1. ASSUME NEW i \in 1..Len(old)
     PROVE  MergeMessage(old[i], new) \in MessageType
  <3>1. old[i] \in MessageType BY <1>1
  <3> QED BY <1>1, <3>1 DEF MergeMessage, MessageType
 <2>2. merged \in [1..Len(old) -> MessageType] /\ Len(old) \in Nat BY <1>1, <2>1
 <2> QED BY <2>2
<1>3. messages \in Seq(MessageType) BY <1>1, <1>2
<1>4. r = [t EXCEPT !.messages = LastN(messages, MaxMessages)] BY Zenon DEF SendMessage
<1> HIDE DEF messages, r
<1>5. LastN(messages, MaxMessages) \in Seq(MessageType) BY <1>3, LastNIs, CapAssumption
<1>6. ThreadTyped(r) /\ r.checkpoints = t.checkpoints BY <1>4, <1>5 DEF ThreadTyped
<1> QED BY <1>6 DEF r

LEMMA SetSessionIs ==
  ASSUME NEW t, ThreadTyped(t), NEW session
  PROVE LET r == SetSession(t, session)
        IN  ThreadTyped(r) /\ r.checkpoints = t.checkpoints /\ r.messages = t.messages
 BY DEF SetSession, ThreadTyped

(* Recording a checkpoint replaces the one of its turn, and adds it at the    *)
(* end when those that stay are the first, in order, and count no further.   *)
Recorded(s, entry, c) ==
    /\ Len(c) <= Len(s) + 1
    /\ \A k \in 1..Len(c) :
          \/ c[k] = entry
          \/ \E i \in 1..Len(s) : s[i].turn # entry.turn /\ c[k] = s[i]
    /\ \A m \in 0..Len(s) :
          /\ {i \in DOMAIN s : s[i].turn # entry.turn} = 1..m
          /\ \A i, j \in 1..m : i < j => s[i].count <= s[j].count
          /\ \A i \in 1..m : s[i].count <= entry.count
          /\ m + 1 <= MaxCheckpoints
          => /\ Len(c) = m + 1
             /\ \A k \in 1..m : c[k] = s[k]
             /\ c[m + 1] = entry

LEMMA CompleteTurnDiffIs ==
  ASSUME NEW t, ThreadTyped(t), NEW entry \in CheckpointType
  PROVE LET r == CompleteTurnDiff(t, entry)
        IN  /\ ThreadTyped(r) /\ r.messages = t.messages
            /\ Recorded(t.checkpoints, entry, r.checkpoints)
<1> DEFINE s == t.checkpoints
           I == {i \in DOMAIN s : s[i].turn # entry.turn}
           kept == AtIndices(s, I)
           all == Append(kept, entry)
           sorted == StableSort(all, ByTurnCount)
           c == LastN(sorted, MaxCheckpoints)
           r == CompleteTurnDiff(t, entry)
<1>1. s \in Seq(CheckpointType) /\ I \in SUBSET (1..Len(s)) /\ DOMAIN s = 1..Len(s)
 BY DEF ThreadTyped
<1>2. /\ kept \in Seq(CheckpointType) /\ Len(kept) = Cardinality(I) /\ Len(kept) <= Len(s)
      /\ \A k \in 1..Len(kept) : \E i \in I : kept[k] = s[i]
 <2> HIDE DEF I, s
 <2> QED BY <1>1, AtIndicesIs
<1>3. r = [t EXCEPT !.checkpoints = c, !.latestTurn = TurnOf(entry)]
 BY Zenon DEF CompleteTurnDiff, Upsert, Filter
<1> HIDE DEF kept
<1>4. /\ all \in Seq(CheckpointType) /\ Len(all) = Len(kept) + 1
      /\ \A k \in 1..Len(kept) : all[k] = kept[k]
      /\ all[Len(kept) + 1] = entry
 <2> HIDE DEF s, I
 <2>1. kept \in Seq(CheckpointType) /\ entry \in CheckpointType BY <1>2
 <2> QED BY <2>1
<1> HIDE DEF all
<1>5. ASSUME NEW k \in 1..Len(all)
    PROVE  all[k].count \in Nat
 <2>1. all[k] \in CheckpointType BY <1>4
 <2> QED BY <2>1 DEF CheckpointType
<1>6. /\ sorted \in Seq(CheckpointType) /\ Len(sorted) = Len(all)
      /\ \A k \in 1..Len(sorted) : \E i \in 1..Len(all) : sorted[k] = all[i]
      /\ (\A i, j \in 1..Len(all) : i < j => all[i].count <= all[j].count) => sorted = all
 BY <1>4, <1>5, SortedIs
<1> HIDE DEF sorted
<1>7. /\ c \in Seq(CheckpointType) /\ Len(c) <= Len(sorted)
      /\ \A k \in 1..Len(c) : \E i \in 1..Len(sorted) : c[k] = sorted[i]
      /\ Len(sorted) <= MaxCheckpoints => c = sorted
 BY <1>6, LastNIs, CapAssumption
<1> HIDE DEF c, r
<1>8. ThreadTyped(r) /\ r.messages = t.messages /\ r.checkpoints = c BY <1>3, <1>7 DEF ThreadTyped
<1>9. Len(c) <= Len(s) + 1
 <2>1. Len(kept) \in Nat /\ Len(all) \in Nat /\ Len(sorted) \in Nat /\ Len(c) \in Nat
       /\ Len(s) \in Nat
  BY <1>1, <1>2, <1>4, <1>6, <1>7
 <2> QED BY <1>2, <1>4, <1>6, <1>7, <2>1
<1>10. ASSUME NEW k \in 1..Len(c)
    PROVE  \/ c[k] = entry
           \/ \E i \in 1..Len(s) : s[i].turn # entry.turn /\ c[k] = s[i]
 <2>1. PICK i \in 1..Len(sorted) : c[k] = sorted[i] BY <1>7
 <2>2. PICK j \in 1..Len(all) : sorted[i] = all[j] BY <1>6
 <2>3. CASE j = Len(kept) + 1 BY <1>4, <2>1, <2>2, <2>3
 <2>4. CASE j \in 1..Len(kept)
  <3>1. PICK l \in I : kept[j] = s[l] BY <1>2, <2>4
  <3>2. l \in 1..Len(s) /\ s[l].turn # entry.turn BY <1>1
  <3>3. c[k] = s[l] BY <1>4, <2>1, <2>2, <2>4, <3>1
  <3> HIDE DEF s, I
  <3> QED BY <3>2, <3>3
 <2>5. Len(kept) \in Nat BY <1>2
 <2> QED BY <1>4, <2>3, <2>4, <2>5
<1>11. ASSUME NEW m \in 0..Len(s), I = 1..m,
              \A i, j \in 1..m : i < j => s[i].count <= s[j].count,
              \A i \in 1..m : s[i].count <= entry.count,
              m + 1 <= MaxCheckpoints
    PROVE  Len(c) = m + 1 /\ (\A k \in 1..m : c[k] = s[k]) /\ c[m + 1] = entry
 <2>1. Len(kept) = m /\ \A k \in 1..m : kept[k] = s[k]
  <3> HIDE DEF s
  <3> QED BY <1>1, <1>11, PrefixIs DEF kept
 <2>2. Len(all) = m + 1 /\ (\A k \in 1..m : all[k] = s[k]) /\ all[m + 1] = entry BY <1>4, <2>1
 <2>3. \A i, j \in 1..m + 1 : i < j => all[i].count <= all[j].count
  <3> SUFFICES ASSUME NEW i \in 1..m + 1, NEW j \in 1..m + 1, i < j
      PROVE  all[i].count <= all[j].count
   OBVIOUS
  <3>1. i \in 1..m /\ (j \in 1..m \/ j = m + 1) OBVIOUS
  <3> QED BY <1>11, <2>2, <3>1
 <2>4. sorted = all /\ Len(sorted) <= MaxCheckpoints BY <1>6, <1>11, <2>2, <2>3
 <2> QED BY <1>7, <2>2, <2>4
<1>12. Recorded(s, entry, c) BY <1>9, <1>10, <1>11 DEF Recorded
<1> QED BY <1>8, <1>12 DEF r

(* Reverting keeps the checkpoints that count no further.                    *)
Reverted(s, n, c) ==
    /\ Len(c) <= Len(s)
    /\ \A k \in 1..Len(c) : \E i \in 1..Len(s) : s[i].count <= n /\ c[k] = s[i]
    /\ \A m \in 0..Len(s) :
          {i \in DOMAIN s : s[i].count <= n} = 1..m
          => Len(c) = m /\ \A k \in 1..m : c[k] = s[k]

LEMMA RevertIs ==
  ASSUME NEW t, ThreadTyped(t), NEW n
  PROVE LET r == Revert(t, n)
        IN  ThreadTyped(r) /\ Reverted(t.checkpoints, n, r.checkpoints)
<1> DEFINE s == t.checkpoints
           I == {i \in DOMAIN s : s[i].count <= n}
           c == AtIndices(s, I)
           turnIds == {c[i].turn : i \in DOMAIN c} \cup PositionTurns(t.messages, n)
           r == Revert(t, n)
<1>1. s \in Seq(CheckpointType) /\ I \in SUBSET (1..Len(s)) BY DEF ThreadTyped
<1>2. /\ c \in Seq(CheckpointType) /\ Len(c) <= Len(s)
      /\ \A k \in 1..Len(c) : \E i \in I : c[k] = s[i]
 <2> HIDE DEF I, s
 <2> QED BY <1>1, AtIndicesIs
<1>3. r = [t EXCEPT !.checkpoints = c,
                    !.messages = RetainMessages(t.messages, turnIds, n),
                    !.plans = RetainByTurn(t.plans, turnIds),
                    !.activities = RetainByTurn(t.activities, turnIds),
                    !.latestTurn = IF c = << >> THEN NoLatestTurn ELSE TurnOf(Last(c))]
 BY Zenon DEF Revert, Filter
<1> HIDE DEF c, turnIds, r
<1>4. RetainMessages(t.messages, turnIds, n) \in Seq(MessageType)
 <2> DEFINE messages == t.messages
            direct == {i \in DOMAIN messages :
                         messages[i].role = "system" \/ messages[i].turn \in turnIds}
            J == direct \cup FallbackMessages(messages, "user", direct, turnIds, n)
                        \cup FallbackMessages(messages, "assistant", direct, turnIds, n)
 <2>1. messages \in Seq(MessageType) /\ DOMAIN messages = 1..Len(messages) BY DEF ThreadTyped
 <2>2. direct \in SUBSET (1..Len(messages)) BY <2>1
 <2> HIDE DEF direct, messages
 <2>3. \A role : FallbackMessages(messages, role, direct, turnIds, n)
                    \in SUBSET (1..Len(messages))
  BY <2>1 DEF FallbackMessages
 <2>4. J \in SUBSET (1..Len(messages)) BY <2>2, <2>3
 <2> HIDE DEF J
 <2>5. AtIndices(messages, J) \in Seq(MessageType) BY <2>1, <2>4, AtIndicesIs
 <2> QED BY <2>5, Zenon DEF RetainMessages, J, direct, messages
<1>5. ThreadTyped(r) /\ r.checkpoints = c BY <1>2, <1>3, <1>4 DEF ThreadTyped
<1>6. \A k \in 1..Len(c) : \E i \in 1..Len(s) : s[i].count <= n /\ c[k] = s[i] BY <1>1, <1>2
<1>7. ASSUME NEW m \in 0..Len(s), I = 1..m
    PROVE  Len(c) = m /\ \A k \in 1..m : c[k] = s[k]
 <2> HIDE DEF s
 <2> QED BY <1>1, <1>7, PrefixIs DEF c
<1>8. Reverted(s, n, c) BY <1>2, <1>6, <1>7 DEF Reverted
<1> QED BY <1>5, <1>8 DEF r

--------------------
(* Every step preserves the invariant.                                      *)
LEMMA TypesKept ==
  ASSUME setting' = setting
  PROVE /\ T' = T /\ D' = D /\ TurnIds' = TurnIds
        /\ RevertRequests' = RevertRequests
        /\ Lifecycle' = Lifecycle /\ DiffUpdates' = DiffUpdates
        /\ Completions' = Completions /\ GitReverts' = GitReverts
        /\ PlainReverts' = PlainReverts /\ Drafts' = Drafts
        /\ MessageType' = MessageType /\ CheckpointType' = CheckpointType
        /\ Providers' = Providers
 BY DEF T, D, TurnIds, RevertRequests, Lifecycle, DiffUpdates, Completions, GitReverts,
     PlainReverts, Drafts, MessageType, CheckpointType, Providers

(* Jobs and drafts are of one kind at a time. *)
LEMMA KindsApart ==
  ASSUME setting \in Settings, NEW j
  PROVE /\ j \in Baselines =>
              /\ j # NoJob /\ j \notin Completions /\ j \notin GitReverts \cup PlainReverts
              /\ j.step = "capture" /\ j.turn = NoTurn /\ j.count \in Nat
        /\ j \in Completions =>
              /\ j # NoJob /\ j \notin Baselines /\ j \notin GitReverts \cup PlainReverts
              /\ j.step \in {"capture", "record"} /\ j.turn \in TurnIds /\ j.turn # NoTurn
              /\ j.count \in Nat \ {0} /\ j.status \in {"error", "missing", "ready"}
        /\ j \in GitReverts \cup PlainReverts =>
              /\ j # NoJob /\ j \notin Baselines /\ j \notin Completions
              /\ j.step \in {"restore", "rollback", "delete", "complete"}
              /\ j.turnCount \in 0..T /\ j.rollback \in Nat
              /\ j.stale \in SUBSET (Nat \cup {Provisional})
        /\ j \in Drafts => j # NoJob /\ j.turn \in TurnIds /\ j.count \in Nat \ {0}
        /\ T \in Nat /\ D \in Nat /\ TurnIds = 1..T
<1>1. T \in Nat /\ D \in Nat /\ TurnIds = 1..T /\ TurnIds \subseteq Nat /\ 0..T \subseteq Nat
 BY ReactorAssumption DEF T, D, TurnIds
<1>2. NoTurn \notin Nat BY ReactorAssumption
<1> HIDE DEF T
<1>3. ASSUME j \in Baselines
    PROVE  j.step = "capture" /\ j.turn = NoTurn /\ j.count \in Nat /\ j # NoJob
 BY <1>3, ReactorAssumption DEF Baselines
<1>4. ASSUME j \in Completions
    PROVE  /\ j.step \in {"capture", "record"} /\ j.turn \in TurnIds /\ j.turn # NoTurn
           /\ j.count \in Nat \ {0} /\ j.status \in {"error", "missing", "ready"}
           /\ j # NoJob
 <2>1. j \in [step : {"capture", "record"}, count : Nat, turn : Nat,
               status : {"error", "missing", "ready"}]
  BY <1>1, <1>4 DEF Completions
 <2>2. j # NoJob BY <2>1, ReactorAssumption
 <2> QED BY <1>1, <1>2, <1>4, <2>2 DEF Completions
<1>5. ASSUME j \in GitReverts
    PROVE  /\ j.step \in {"restore", "rollback", "delete", "complete"} /\ j # NoJob
           /\ j.turnCount \in 0..T /\ j.rollback \in Nat
           /\ j.stale \in SUBSET (Nat \cup {Provisional})
 <2>1. j \in [step : {"restore", "rollback", "delete", "complete"}, turnCount : Nat,
               rollback : Nat, stale : SUBSET (Nat \cup {Provisional}),
               target : Nat \cup {Provisional}]
  BY <1>1, <1>5 DEF GitReverts
 <2>2. j # NoJob BY <2>1, ReactorAssumption
 <2> QED BY <1>5, <2>2 DEF GitReverts
<1>6. ASSUME j \in PlainReverts
    PROVE  /\ j.step \in {"rollback", "delete", "complete"} /\ j # NoJob
           /\ j.turnCount \in 0..T /\ j.rollback \in Nat /\ j.stale = {}
 <2>1. j \in [step : {"rollback", "delete", "complete"}, turnCount : Nat,
               rollback : Nat, stale : {{}}]
  BY <1>1, <1>6 DEF PlainReverts
 <2>2. j # NoJob BY <2>1, ReactorAssumption
 <2> QED BY <1>6, <2>2 DEF PlainReverts
<1>7. ASSUME j \in Drafts
    PROVE  j # NoJob /\ j.turn \in TurnIds /\ j.count \in Nat \ {0}
 <2>1. j \in [turn : Nat, count : Nat] BY <1>1, <1>7 DEF Drafts
 <2>2. j # NoJob BY <2>1, ReactorAssumption
 <2> QED BY <1>7, <2>2 DEF Drafts
<1> QED BY <1>1, <1>2, <1>3, <1>4, <1>5, <1>6, <1>7

LEMMA EntriesTyped ==
  ASSUME ThreadTyped(thread)
  PROVE /\ Entries = 1..Len(Checkpoints) /\ Len(Checkpoints) \in Nat
        /\ Checkpoints \in Seq(CheckpointType)
        /\ \A i \in Entries :
              /\ Checkpoints[i] \in CheckpointType
              /\ Checkpoints[i].turn \in TurnIds /\ Checkpoints[i].count \in Nat \ {0}
              /\ Checkpoints[i].ref \in Nat \cup {Provisional}
<1>1. /\ Checkpoints \in Seq(CheckpointType) /\ Entries = 1..Len(Checkpoints)
      /\ Len(Checkpoints) \in Nat
 BY DEF ThreadTyped, Checkpoints, Entries
<1>2. \A i \in Entries : Checkpoints[i] \in CheckpointType BY <1>1
<1> QED BY <1>1, <1>2 DEF CheckpointType

LEMMA FitsKept ==
  ASSUME setting' = setting, Checkpoints' = Checkpoints
  PROVE /\ \A turn, count : Fits(turn, count)' <=> Fits(turn, count)
        /\ \A n : NthCount(n)' = NthCount(n)
        /\ Orderable' <=> Orderable
        /\ Entries' = Entries
<1>1. Entries' = Entries /\ D' = D BY TypesKept DEF Entries
<1>2. \A n : NthCount(n)' = NthCount(n) BY <1>1 DEF NthCount
<1> QED BY <1>1, <1>2 DEF Fits, Orderable

(* What a step leaves alone. *)
LEMMA InOrderKept ==
  ASSUME setting' = setting, Checkpoints' = Checkpoints, draft' \in {draft, NoJob},
    Completing' => Completing /\ job'.turn = job.turn /\ job'.count = job.count,
    InOrder
  PROVE InOrder'
 BY FitsKept DEF InOrder

LEMMA LinkedKept ==
  ASSUME setting' = setting, setting \in Settings, Checkpoints' = Checkpoints,
    refs' = refs, lost' = lost,
    job' = job \/ (job' = NoJob /\ ~(Reverting /\ job.step = "complete")),
    Linked
  PROVE Linked'
<1>1. Entries' = Entries BY DEF Entries
<1>2. job' = job => (Reverting' <=> Reverting) /\ (Completing' <=> Completing)
 BY TypesKept DEF Reverting, Completing
<1>3. job' = NoJob => ~Reverting' /\ ~Completing' /\ job' \notin Baselines
 BY KindsApart, TypesKept DEF Reverting, Completing
<1>4. CASE job' = job BY <1>1, <1>2, <1>4 DEF Linked
<1>5. CASE job' = NoJob /\ ~(Reverting /\ job.step = "complete") BY <1>1, <1>3, <1>5 DEF Linked
<1> QED BY <1>4, <1>5

LEMMA CountedKept ==
  ASSUME setting' = setting, Checkpoints' = Checkpoints, draft' = draft,
    ThreadTyped(thread), draft \in Drafts \cup {NoJob}, setting \in Settings,
    Recordable \in Int, Recordable' \in Int, Recordable <= Recordable',
    Completing' => Completing /\ job'.count = job.count,
    Completing => job.count \in Nat,
    job' \in Baselines => job'.count <= Recordable',
    \A count \in DOMAIN refs' \ DOMAIN refs : count <= Recordable',
    DOMAIN refs \subseteq Nat,
    D = 0 => Queued(ingest', "turn.diff.updated") = 0,
    Counted
  PROVE Counted'
<1> DEFINE one == One(draft # NoJob)
           two == One(Completing)
           three == One(Completing')
<1>1. Entries' = Entries /\ D' = D BY TypesKept DEF Entries
<1>2. one \in 0..1 /\ two \in 0..1 /\ three \in 0..1 /\ three <= two BY DEF One
<1>3. /\ \A i \in Entries : Checkpoints[i].count \in Nat
      /\ Len(Checkpoints) \in Nat
      /\ draft # NoJob => draft.count \in Nat
 BY EntriesTyped, KindsApart
<1>4. /\ \A i \in Entries : Checkpoints[i].count <= Recordable - one - two
      /\ Len(Checkpoints) <= Recordable - one - two
      /\ draft # NoJob => draft.count <= Recordable - two
      /\ Completing => job.count <= Recordable - one
      /\ \A count \in DOMAIN refs : count <= Recordable
      /\ D = 0 => draft = NoJob
 BY DEF Counted
<1> HIDE DEF one, two, three
<1>5. /\ \A i \in Entries : Checkpoints[i].count <= Recordable' - one - three
      /\ Len(Checkpoints) <= Recordable' - one - three
      /\ draft # NoJob => draft.count <= Recordable' - three
      /\ Completing' => job'.count <= Recordable' - one
      /\ \A count \in DOMAIN refs' : count <= Recordable'
 BY <1>2, <1>3, <1>4
<1> QED BY <1>1, <1>4, <1>5 DEF Counted, one, three

LEMMA SeparatedKept ==
  ASSUME setting' = setting, Checkpoints' = Checkpoints, ThreadTyped(thread),
    turns \in Nat, turns' \in Nat, turns <= turns',
    \A i \in Entries : Checkpoints[i].ref \in DOMAIN refs' \ lost' =>
        /\ Checkpoints[i].ref \in DOMAIN refs \ lost
        /\ refs'[Checkpoints[i].ref] = refs[Checkpoints[i].ref],
    Separated
  PROVE Separated'
<1>1. Entries' = Entries BY DEF Entries
<1>2. \A i \in Entries : Checkpoints[i].turn \in Nat BY EntriesTyped DEF TurnIds
<1> QED BY <1>1, <1>2 DEF Separated

(* The queues of a state are sequences, and what is due is a number.          *)
LEMMA TypedFacts ==
  ASSUME StateTyped
  PROVE /\ setting \in Settings /\ ThreadTyped(thread)
        /\ T \in Nat /\ D \in Nat /\ TurnIds = 1..T /\ turns \in 0..T
        /\ domain \in Seq(TurnStarts \cup RevertRequests)
        /\ runtime \in Seq(Lifecycle)
        /\ ingest \in Seq(Lifecycle \cup DiffUpdates \cup Exits)
        /\ requests \in Seq(TurnIds) /\ Len(requests) \in 0..turns
        /\ draft \in Drafts \cup {NoJob}
        /\ provider.active \in TurnIds \cup {NoTurn} /\ diffs \in 0..D
        /\ Due \in Nat /\ Recordable \in Int
        /\ \A type : /\ Queued(domain, type) \in Nat /\ Queued(runtime, type) \in Nat
                     /\ Queued(ingest, type) \in Nat
<1>1. setting \in Settings /\ ThreadTyped(thread) BY DEF StateTyped
<1>2. T \in Nat /\ D \in Nat /\ TurnIds = 1..T BY <1>1, KindsApart
<1>3. /\ domain \in Seq(TurnStarts \cup RevertRequests)
      /\ runtime \in Seq(Lifecycle)
      /\ ingest \in Seq(Lifecycle \cup DiffUpdates \cup Exits)
 BY DEF StateTyped, QueuesTyped
<1>4. requests \in Seq(TurnIds) /\ Len(requests) \in 0..turns /\ turns \in 0..T
 BY <1>2 DEF StateTyped, RequestsTyped
<1>5. provider.active \in TurnIds \cup {NoTurn} /\ diffs \in 0..D
 BY DEF StateTyped, ProviderTyped, Providers
<1>6. \A type : /\ Queued(domain, type) \in Nat /\ Queued(runtime, type) \in Nat
                /\ Queued(ingest, type) \in Nat
 BY <1>3, QueuedSome
<1>7. Due \in Nat BY <1>2, <1>5, <1>6 DEF Due
<1>8. Recordable \in Int
 <2>1. 1 + D \in Int /\ turns - Len(requests) \in Int BY <1>2, <1>4
 <2>2. (1 + D) * (turns - Len(requests)) \in Int BY <2>1
 <2> QED BY <1>7, <2>2 DEF Recordable
<1> QED BY <1>1, <1>2, <1>3, <1>4, <1>5, <1>6, <1>7, <1>8 DEF StateTyped, WorkersTyped

LEMMA RequestTurnKeeps ==
  ASSUME ReactorInvariant, RequestTurn PROVE ReactorInvariant'
<1> DEFINE sent == [message |-> 2 * turns' - 1, role |-> "user", turn |-> NoTurn,
                    text |-> << >>, streaming |-> FALSE, at |-> 10 * turns']
<1>1. /\ StateTyped /\ T \in Nat /\ setting \in Settings /\ setting' = setting
      /\ turns' = turns + 1 /\ turns' \in 1..T /\ turns \in Nat
 <2>1. StateTyped /\ T \in Nat /\ setting \in Settings /\ turns \in 0..T
  BY TypedFacts DEF ReactorInvariant
 <2>2. setting' = setting /\ turns' = turns + 1 /\ turns < T BY DEF RequestTurn, T
 <2> QED BY <2>1, <2>2
<1>2. ThreadTyped(thread)' /\ thread'.checkpoints = thread.checkpoints
 <2>1. thread' = SendMessage(thread, sent) BY DEF RequestTurn, Project, ProjectThread
 <2>2. /\ sent.message \in Nat /\ sent.role = "user" /\ sent.turn = NoTurn
       /\ sent.text = << >> /\ sent.streaming = FALSE /\ sent.at \in Nat
  BY <1>1
 <2> HIDE DEF sent
 <2>3. ThreadTyped(thread) BY <1>1 DEF StateTyped
 <2>4. ThreadTyped(thread') /\ thread'.checkpoints = thread.checkpoints
  BY <2>1, <2>2, <2>3, SendMessageIs
 <2> QED BY <1>1, <2>4, TypesKept DEF ThreadTyped
<1>3. StateTyped'
 <2>1. QueuesTyped' BY <1>1, TypesKept DEF StateTyped, QueuesTyped, RequestTurn, TurnStarts
 <2>2. RequestsTyped'
  <3> DEFINE n == Len(requests)
  <3>1. /\ requests \in Seq(TurnIds) /\ n \in Nat /\ n <= turns
        /\ \A i \in 1..n : requests[i] = turns - n + i
   BY <1>1 DEF StateTyped, RequestsTyped
  <3>2. requests' = Append(requests, turns') /\ turns' \in TurnIds /\ turns' \in 0..T
   BY <1>1 DEF RequestTurn, TurnIds, T
  <3>3. requests' \in Seq(TurnIds) /\ Len(requests') = n + 1
        /\ requests'[n + 1] = turns' /\ \A i \in 1..n : requests'[i] = requests[i]
   BY <3>1, <3>2
  <3> HIDE DEF n
  <3>4. \A i \in 1..n + 1 : requests'[i] = turns' - (n + 1) + i
   <4> TAKE i \in 1..n + 1
   <4>1. CASE i = n + 1 BY <1>1, <3>1, <3>3, <4>1
   <4>2. CASE i \in 1..n BY <1>1, <3>1, <3>3, <4>2
   <4> QED BY <3>1, <4>1, <4>2
  <3>5. Len(requests') <= turns' BY <1>1, <3>1, <3>3
  <3>6. \A i \in 1..Len(requests') : requests'[i] = turns' - Len(requests') + i BY <3>3, <3>4
  <3>7. T' = T /\ TurnIds' = TurnIds BY <1>1, TypesKept
  <3> QED BY <3>2, <3>3, <3>5, <3>6, <3>7 DEF RequestsTyped
 <2>3. WorkersTyped' BY <1>1, TypesKept DEF StateTyped, WorkersTyped, RequestTurn
 <2>4. FilesTyped' BY <1>1, TypesKept DEF StateTyped, FilesTyped, RequestsTyped, RequestTurn
 <2>5. ProviderTyped'
  <3>1. 1..turns \subseteq 1..turns' BY <1>1
  <3> QED BY <1>1, <3>1, TypesKept DEF StateTyped, ProviderTyped, RequestTurn
 <2>6. SpentTyped' BY <1>1, TypesKept DEF StateTyped, SpentTyped, RequestTurn
 <2> QED BY <1>1, <1>2, <2>1, <2>2, <2>3, <2>4, <2>5, <2>6 DEF StateTyped
<1>4. Checkpoints' = Checkpoints /\ job' = job /\ draft' = draft /\ refs' = refs
      /\ lost' = lost
      /\ runtime' = runtime /\ ingest' = ingest /\ provider' = provider /\ diffs' = diffs
      /\ files' = files
 BY <1>2 DEF Checkpoints, RequestTurn
<1>5. (Reverting' <=> Reverting) /\ (Completing' <=> Completing)
 BY <1>1, <1>4, TypesKept DEF Reverting, Completing
<1>6. Counted'
 <2>1. turns' - Len(requests') = turns - Len(requests)
  <3>1. requests' = Append(requests, turns') /\ requests \in Seq(TurnIds)
   BY <1>1, TypedFacts DEF RequestTurn
  <3>2. Len(requests') = Len(requests) + 1 /\ Len(requests) \in Nat BY <3>1
  <3> QED BY <1>1, <3>2
 <2>2. Recordable' = Recordable BY <1>1, <1>4, <2>1, TypesKept DEF Recordable, Due
 <2> QED BY <1>1, <1>4, <1>5, <2>2, TypedFacts, KindsApart, CountedKept
     DEF Completing, Counted, ReactorInvariant, StateTyped, FilesTyped
<1>7. Queued(domain', "checkpoint-revert-requested")
         = Queued(domain, "checkpoint-revert-requested")
 <2> DEFINE d == Append(domain, [type |-> "message-sent"])
 <2>1. domain \in Seq(TurnStarts \cup RevertRequests) BY <1>1, TypedFacts
 <2>2. d \in Seq(TurnStarts \cup RevertRequests) BY <2>1 DEF TurnStarts
 <2>3. domain' = Append(d, [type |-> "turn-start-requested"]) BY <2>1 DEF RequestTurn
 <2>4. Queued(d, "checkpoint-revert-requested")
          = Queued(domain, "checkpoint-revert-requested")
               + One([type |-> "message-sent"].type = "checkpoint-revert-requested")
  BY <2>1, QueuedAppend
 <2> HIDE DEF d
 <2>5. Queued(domain', "checkpoint-revert-requested")
          = Queued(d, "checkpoint-revert-requested")
               + One([type |-> "turn-start-requested"].type = "checkpoint-revert-requested")
  BY <2>2, <2>3, QueuedAppend
 <2>6. Queued(domain, "checkpoint-revert-requested") \in Nat BY <2>1, QueuedSome
 <2> QED BY <2>4, <2>5, <2>6 DEF One
<1>8. RepliesInOrder' BY <1>5, <1>7 DEF RepliesInOrder, ReactorInvariant, RequestTurn, One
<1>9. Linked' BY <1>1, <1>4, LinkedKept DEF ReactorInvariant
<1>10. InOrder' BY <1>1, <1>4, <1>5, InOrderKept DEF ReactorInvariant
<1>11. Patiently'
 <2> SUFFICES ASSUME setting'.patient
     PROVE  OneAtATime' /\ Separated' /\ Undone'
  BY DEF Patiently
 <2>1. /\ setting.patient /\ OneAtATime /\ Separated
       /\ domain = << >> /\ runtime = << >> /\ ingest = << >> /\ job = NoJob /\ draft = NoJob
       /\ requests = << >> /\ provider.active = NoTurn
  BY <1>1 DEF RequestTurn, ReactorInvariant, Patiently, QueuesEmpty
 <2>2. ~Reverting' /\ ~Completing' BY <1>1, <1>5, <2>1, KindsApart DEF Reverting, Completing
 <2>3. Queued(domain', "checkpoint-revert-requested") = 0 BY <1>7, <2>1, QueuedNone
 <2>4. Len(requests') = 1 BY <2>1 DEF RequestTurn
 <2>5. OneAtATime' BY <1>4, <2>1, <2>2, <2>3, <2>4 DEF OneAtATime
 <2>6. Separated' BY <1>1, <1>4, <2>1, TypedFacts, SeparatedKept
 <2> QED BY <2>2, <2>5, <2>6 DEF Undone
<1> QED BY <1>3, <1>6, <1>8, <1>9, <1>10, <1>11 DEF ReactorInvariant

LEMMA SameTyped ==
  ASSUME StateTyped, setting' = setting
  PROVE /\ setting' \in Settings
        /\ thread' = thread => ThreadTyped(thread)' /\ Checkpoints' = Checkpoints
        /\ domain' = domain /\ runtime' = runtime /\ ingest' = ingest => QueuesTyped'
        /\ turns' = turns /\ requests' = requests => RequestsTyped'
        /\ draft' = draft /\ job' = job => WorkersTyped'
        /\ turns' = turns /\ files' = files /\ refs' = refs /\ lost' = lost => FilesTyped'
        /\ turns' = turns /\ provider' = provider /\ diffs' = diffs => ProviderTyped'
        /\ asked' = asked /\ replies' = replies /\ faults' = faults => SpentTyped'
        /\ job' = job => (Reverting' <=> Reverting) /\ (Completing' <=> Completing)
        /\ Reverting => ~Completing /\ job \notin Baselines /\ job # NoJob
        /\ Completing => job \notin Baselines /\ job # NoJob /\ job.count \in Nat
        /\ DOMAIN refs \subseteq Nat
<1>1. setting \in Settings BY DEF StateTyped
<1>2. thread' = thread => ThreadTyped(thread)' /\ Checkpoints' = Checkpoints
 BY TypesKept DEF StateTyped, ThreadTyped, Checkpoints
<1>3. domain' = domain /\ runtime' = runtime /\ ingest' = ingest => QueuesTyped'
 BY TypesKept DEF StateTyped, QueuesTyped
<1>4. turns' = turns /\ requests' = requests => RequestsTyped'
 BY TypesKept DEF StateTyped, RequestsTyped
<1>5. draft' = draft /\ job' = job => WorkersTyped' BY TypesKept DEF StateTyped, WorkersTyped
<1>6. turns' = turns /\ files' = files /\ refs' = refs /\ lost' = lost => FilesTyped'
 BY TypesKept DEF StateTyped, FilesTyped
<1>7. turns' = turns /\ provider' = provider /\ diffs' = diffs => ProviderTyped'
 BY TypesKept DEF StateTyped, ProviderTyped
<1>8. asked' = asked /\ replies' = replies /\ faults' = faults => SpentTyped'
 BY TypesKept DEF StateTyped, SpentTyped
<1>9. job' = job => (Reverting' <=> Reverting) /\ (Completing' <=> Completing)
 BY TypesKept DEF Reverting, Completing
<1>10. /\ Reverting => ~Completing /\ job \notin Baselines /\ job # NoJob
       /\ Completing => job \notin Baselines /\ job # NoJob /\ job.count \in Nat
 BY <1>1, KindsApart DEF Reverting, Completing
<1>11. DOMAIN refs \subseteq Nat BY DEF StateTyped, FilesTyped
<1> QED BY <1>1, <1>2, <1>3, <1>4, <1>5, <1>6, <1>7, <1>8, <1>9, <1>10, <1>11

LEMMA SameDue ==
  ASSUME StateTyped, setting' = setting, runtime' = runtime, ingest' = ingest,
    provider' = provider, diffs' = diffs, turns' = turns, requests' = requests
  PROVE Recordable' = Recordable
 BY TypesKept DEF Recordable, Due

\* The counts of a step that leaves worker, checkpoints and refs alone.
LEMMA CountedByOthers ==
  ASSUME StateTyped, Counted, setting' = setting, thread' = thread, draft' = draft, job' = job,
    refs' = refs, Recordable' \in Int, Recordable <= Recordable',
    D = 0 => Queued(ingest', "turn.diff.updated") = 0
  PROVE Counted'
<1>1. /\ ThreadTyped(thread) /\ draft \in Drafts \cup {NoJob} /\ setting \in Settings
      /\ Recordable \in Int /\ DOMAIN refs \subseteq Nat /\ Checkpoints' = Checkpoints
      /\ (Completing' <=> Completing)
      /\ Completing => job.count \in Nat
 BY TypedFacts, SameTyped
<1>2. job \in Baselines => job.count \in Nat /\ job.count <= Recordable
 BY <1>1, KindsApart DEF Counted
<1>3. job' \in Baselines => job'.count <= Recordable' BY <1>1, <1>2
<1> QED BY <1>1, <1>3, CountedKept

LEMMA RequestRevertKeeps ==
  ASSUME ReactorInvariant, NEW n \in 0..setting.turns, RequestRevert(n) PROVE ReactorInvariant'
<1> DEFINE request == [type |-> "checkpoint-revert-requested", turnCount |-> n]
           revert == "checkpoint-revert-requested"
<1>1. /\ StateTyped /\ setting' = setting /\ setting \in Settings /\ asked' = asked + 1
      /\ domain' = Append(domain, request) /\ requests = << >>
      /\ UNCHANGED <<thread, runtime, ingest, draft, job, files, refs, lost, provider, requests,
                     turns, replies, faults, diffs>>
      /\ (Reverting' <=> Reverting) /\ (Completing' <=> Completing) /\ Checkpoints' = Checkpoints
      /\ domain \in Seq(TurnStarts \cup RevertRequests)
 BY TypedFacts, SameTyped DEF ReactorInvariant, RequestRevert
<1>2. StateTyped'
 <2>1. QueuesTyped'
  <3>1. request \in RevertRequests BY DEF RevertRequests, T
  <3>2. domain' \in Seq(TurnStarts \cup RevertRequests) BY <1>1, <3>1
  <3> QED BY <1>1, <3>2, TypesKept DEF QueuesTyped, StateTyped
 <2>2. SpentTyped'
  <3>1. asked \in 0..setting.reverts /\ asked < setting.reverts /\ setting.reverts \in Nat
   BY <1>1, ReactorAssumption DEF StateTyped, SpentTyped, RequestRevert
  <3> QED BY <1>1, <3>1 DEF StateTyped, SpentTyped
 <2> QED BY <1>1, <2>1, <2>2, SameTyped DEF StateTyped
<1>3. Counted'
 <2>1. Recordable' = Recordable /\ Recordable \in Int BY <1>1, SameDue, TypedFacts
 <2>2. D = 0 => Queued(ingest', "turn.diff.updated") = 0 BY <1>1 DEF ReactorInvariant, Counted
 <2> QED BY <1>1, <2>1, <2>2, CountedByOthers DEF ReactorInvariant
<1>4. Queued(domain', revert) = Queued(domain, revert) + 1 /\ Queued(domain, revert) \in Nat
 <2>1. Queued(domain', revert) = Queued(domain, revert) + One(request.type = revert)
  BY <1>1, QueuedAppend
 <2> QED BY <1>1, <2>1, TypedFacts DEF One
<1>5. RepliesInOrder'
 <2>1. asked \in Nat /\ Len(replies) \in Nat BY <1>1 DEF StateTyped, SpentTyped
 <2>2. asked = Queued(domain, revert) + One(Reverting) + Len(replies)
  BY DEF ReactorInvariant, RepliesInOrder
 <2> QED BY <1>1, <1>4, <2>1, <2>2 DEF RepliesInOrder, One
<1>6. Linked' BY <1>1, LinkedKept DEF ReactorInvariant
<1>7. InOrder' BY <1>1, InOrderKept DEF ReactorInvariant
<1>8. Patiently'
 <2> SUFFICES ASSUME setting'.patient
     PROVE  OneAtATime' /\ Separated' /\ Undone'
  BY DEF Patiently
 <2>1. /\ setting.patient /\ OneAtATime /\ Separated
       /\ runtime = << >> /\ ingest = << >> /\ job = NoJob /\ draft = NoJob
       /\ provider.active = NoTurn
  BY <1>1 DEF RequestRevert, ReactorInvariant, Patiently, QueuesEmpty
 <2>2. ~Reverting' /\ ~Completing' BY <1>1, <2>1, KindsApart DEF Reverting, Completing
 <2>3. OneAtATime' BY <1>1, <2>1, <2>2 DEF OneAtATime
 <2>4. Separated' BY <1>1, <2>1, TypedFacts, SeparatedKept
 <2> QED BY <2>2, <2>3, <2>4 DEF Undone
<1> QED BY <1>2, <1>3, <1>5, <1>6, <1>7, <1>8 DEF ReactorInvariant

(* What follows of an event of the provider, for the queues.                  *)
LEMMA EmitIs ==
  ASSUME StateTyped, setting' = setting,
    NEW event \in Lifecycle \cup DiffUpdates \cup Exits, Emit(event)
  PROVE /\ ingest' \in Seq(Lifecycle \cup DiffUpdates \cup Exits)' /\ runtime' \in Seq(Lifecycle)'
        /\ \A i \in 1..Len(ingest') : ingest'[i] = event \/ \E k \in 1..Len(ingest) : ingest'[i] = ingest[k]
        /\ \A i \in 1..Len(runtime') :
              \/ runtime'[i] = event /\ event.type \in {"turn.started", "turn.completed"}
              \/ \E k \in 1..Len(runtime) : runtime'[i] = runtime[k]
        /\ Queued(ingest', "turn.diff.updated")
              = Queued(ingest, "turn.diff.updated") + One(event.type = "turn.diff.updated")
        /\ Queued(runtime', "turn.completed")
              = Queued(runtime, "turn.completed") + One(event.type = "turn.completed")
<1> DEFINE Inputs == Lifecycle \cup DiffUpdates \cup Exits
<1>1. /\ ingest \in Seq(Inputs) /\ runtime \in Seq(Lifecycle)
      /\ ingest' = Append(ingest, event)
      /\ runtime' = IF event.type \in {"turn.started", "turn.completed"}
                    THEN Append(runtime, event) ELSE runtime
      /\ Queued(runtime, "turn.completed") \in Nat
 BY TypedFacts DEF Emit
<1>2. event.type \in {"turn.started", "turn.completed"} => event \in Lifecycle
 BY DEF DiffUpdates, Exits
<1>3. ingest' \in Seq(Inputs) /\ runtime' \in Seq(Lifecycle)
 <2> HIDE DEF Inputs
 <2>1. event \in Inputs BY DEF Inputs
 <2> QED BY <1>1, <1>2, <2>1
<1>4. \A i \in 1..Len(ingest') : ingest'[i] = event \/ \E k \in 1..Len(ingest) : ingest'[i] = ingest[k]
 <2> HIDE DEF Inputs
 <2>1. Len(ingest') = Len(ingest) + 1 /\ Len(ingest) \in Nat
       /\ ingest'[Len(ingest) + 1] = event
       /\ \A k \in 1..Len(ingest) : ingest'[k] = ingest[k]
  BY <1>1
 <2> QED BY <2>1
<1>5. \A i \in 1..Len(runtime') :
         \/ runtime'[i] = event /\ event.type \in {"turn.started", "turn.completed"}
         \/ \E k \in 1..Len(runtime) : runtime'[i] = runtime[k]
 <2>1. CASE event.type \in {"turn.started", "turn.completed"}
  <3>1. Len(runtime') = Len(runtime) + 1 /\ Len(runtime) \in Nat
        /\ runtime'[Len(runtime) + 1] = event
        /\ \A k \in 1..Len(runtime) : runtime'[k] = runtime[k]
   BY <1>1, <2>1
  <3> QED BY <2>1, <3>1
 <2>2. CASE ~(event.type \in {"turn.started", "turn.completed"}) BY <1>1, <2>2
 <2> QED BY <2>1, <2>2
<1>6. Queued(ingest', "turn.diff.updated")
         = Queued(ingest, "turn.diff.updated") + One(event.type = "turn.diff.updated")
 BY <1>1, QueuedAppend
<1>7. Queued(runtime', "turn.completed")
         = Queued(runtime, "turn.completed") + One(event.type = "turn.completed")
 <2>1. Queued(Append(runtime, event), "turn.completed")
          = Queued(runtime, "turn.completed") + One(event.type = "turn.completed")
  BY <1>1, QueuedAppend
 <2> QED BY <1>1, <2>1 DEF One
<1>8. Lifecycle' = Lifecycle /\ DiffUpdates' = DiffUpdates /\ Exits' = Exits
 BY TypesKept DEF Exits
<1> QED BY <1>3, <1>4, <1>5, <1>6, <1>7, <1>8

(* A user who waits sees events of one turn. *)
LEMMA EmitInTurn ==
  ASSUME StateTyped, setting' = setting, turns' = turns,
    NEW event \in Lifecycle \cup DiffUpdates \cup Exits, Emit(event), OneAtATime,
    event.type # "session.exited" => event.turn = turns
  PROVE /\ \A i \in 1..Len(runtime') : runtime'[i].turn = turns'
        /\ \A i \in 1..Len(ingest') :
              ingest'[i].type # "session.exited" => ingest'[i].turn = turns'
<1>1. /\ \A i \in 1..Len(runtime) : runtime[i].turn = turns
      /\ \A i \in 1..Len(ingest) : ingest[i].type # "session.exited" => ingest[i].turn = turns
 BY DEF OneAtATime
<1>2. /\ \A i \in 1..Len(ingest') :
            ingest'[i] = event \/ \E k \in 1..Len(ingest) : ingest'[i] = ingest[k]
      /\ \A i \in 1..Len(runtime') :
            \/ runtime'[i] = event /\ event.type \in {"turn.started", "turn.completed"}
            \/ \E k \in 1..Len(runtime) : runtime'[i] = runtime[k]
 BY EmitIs
<1> QED BY <1>1, <1>2

LEMMA StartTurnKeeps ==
  ASSUME ReactorInvariant, StartTurn PROVE ReactorInvariant'
<1> DEFINE started == [type |-> "turn.started", turn |-> provider'.active]
           n == Len(requests)
           rest == Queued(runtime, "turn.completed") + Queued(ingest, "turn.diff.updated")
<1>1. /\ StateTyped /\ setting' = setting /\ setting \in Settings
      /\ requests # << >> /\ provider.active = NoTurn /\ requests' = Tail(requests)
      /\ diffs' = 0 /\ Emit(started)
      /\ UNCHANGED <<thread, domain, draft, job, files, refs, lost, turns, asked, faults, replies>>
      /\ (Reverting' <=> Reverting) /\ (Completing' <=> Completing) /\ Checkpoints' = Checkpoints
      /\ requests \in Seq(TurnIds) /\ n \in 1..turns /\ turns \in 0..T
      /\ T \in Nat /\ D \in Nat /\ TurnIds = 1..T /\ T' = T /\ D' = D /\ TurnIds' = TurnIds
 <2>1. requests \in Seq(TurnIds) /\ requests # << >> /\ n \in 0..turns /\ turns \in 0..T
       /\ T \in Nat /\ D \in Nat /\ TurnIds = 1..T
  BY TypedFacts DEF ReactorInvariant, StartTurn
 <2>2. n \in 1..turns BY <2>1
 <2> QED BY <2>1, <2>2, TypedFacts, SameTyped, TypesKept DEF ReactorInvariant, StartTurn, control
<1>2. /\ provider' = [provider EXCEPT !.session = TRUE, !.active = Head(requests)]
      /\ provider \in Providers
      /\ Head(requests) = turns - n + 1
 <2>1. Head(requests) = requests[1] /\ 1 \in 1..n BY <1>1
 <2>2. \A i \in 1..n : requests[i] = turns - n + i BY <1>1 DEF StateTyped, RequestsTyped
 <2> HIDE DEF n
 <2>3. Head(requests) = turns - n + 1 BY <2>1, <2>2
 <2> QED BY <1>1, <2>3 DEF StateTyped, ProviderTyped, StartTurn
<1>3. provider'.active = turns - n + 1 /\ provider'.active \in 1..turns
      /\ provider'.active \in TurnIds /\ provider'.active # NoTurn
 BY <1>1, <1>2, ReactorAssumption DEF Providers
<1>4. started \in Lifecycle BY <1>3 DEF Lifecycle
<1>5. /\ requests' \in Seq(TurnIds) /\ Len(requests') = n - 1
      /\ \A i \in 1..n - 1 : requests'[i] = requests[i + 1]
 BY <1>1
<1>6. StateTyped'
 <2>1. QueuesTyped' BY <1>1, <1>4, EmitIs, TypesKept DEF StateTyped, QueuesTyped
 <2>2. RequestsTyped'
  <3>1. \A i \in 1..n : requests[i] = turns - n + i BY <1>1 DEF StateTyped, RequestsTyped
  <3> HIDE DEF n
  <3>2. \A i \in 1..n - 1 : requests'[i] = turns - (n - 1) + i BY <1>1, <1>5, <3>1
  <3>3. Len(requests') <= turns' BY <1>1, <1>5
  <3> QED BY <1>1, <1>5, <3>2, <3>3 DEF RequestsTyped
 <2>3. ProviderTyped'
  <3>1. provider' \in Providers BY <1>2, <1>3 DEF Providers
  <3>2. diffs' \in 0..D /\ provider'.active \in 1..turns' BY <1>1, <1>3
  <3> QED BY <1>1, <3>1, <3>2, TypesKept DEF ProviderTyped
 <2> QED BY <1>1, <2>1, <2>2, <2>3, SameTyped DEF StateTyped
<1>7. Recordable' = Recordable
 <2>1. /\ Queued(ingest', "turn.diff.updated") = Queued(ingest, "turn.diff.updated")
       /\ Queued(runtime', "turn.completed") = Queued(runtime, "turn.completed")
  <3>1. started.type # "turn.diff.updated" /\ started.type # "turn.completed" OBVIOUS
  <3> HIDE DEF started
  <3>2. /\ Queued(ingest', "turn.diff.updated")
              = Queued(ingest, "turn.diff.updated") + One(started.type = "turn.diff.updated")
        /\ Queued(runtime', "turn.completed")
              = Queued(runtime, "turn.completed") + One(started.type = "turn.completed")
   BY <1>1, <1>4, EmitIs
  <3> QED BY SMTT(30), <1>1, <3>1, <3>2, TypedFacts DEF One
 <2>2. rest \in Nat BY SMTT(30), <1>1, TypedFacts
 <2>3. Due = rest /\ Due' = rest + 1 + D BY SMTT(30), <1>1, <1>3, <2>1, <2>2 DEF Due
 <2>4. turns' - Len(requests') = (turns - n) + 1 /\ turns - n \in Int BY <1>1, <1>5
 <2>5. \A a, b \in Int : a * (b + 1) = a * b + a OBVIOUS
 <2>6. (1 + D) * (turns' - Len(requests')) = (1 + D) * (turns - n) + (1 + D)
       /\ (1 + D) * (turns - n) \in Int
  <3> DEFINE a == 1 + D
             b == turns - n
  <3>1. a \in Int /\ b \in Int BY <1>1, <2>4
  <3> HIDE DEF a, b
  <3>2. a * (b + 1) = a * b + a /\ a * b \in Int BY <2>5, <3>1
  <3> QED BY <2>4, <3>2 DEF a, b
 <2> HIDE DEF rest
 <2> QED BY <1>1, <2>2, <2>3, <2>6 DEF Recordable
<1>8. Counted'
 <2>1. D = 0 => Queued(ingest', "turn.diff.updated") = 0
  BY <1>1, <1>4, EmitIs DEF ReactorInvariant, Counted, One
 <2> QED BY <1>1, <1>7, <2>1, TypedFacts, CountedByOthers DEF ReactorInvariant
<1>9. RepliesInOrder' BY <1>1 DEF RepliesInOrder, ReactorInvariant, One
<1>10. Linked' BY <1>1, LinkedKept DEF ReactorInvariant
<1>11. InOrder' BY <1>1, InOrderKept DEF ReactorInvariant
<1>12. Patiently'
 <2> SUFFICES ASSUME setting'.patient
     PROVE  OneAtATime' /\ Separated' /\ Undone'
  BY DEF Patiently
 <2>1. setting.patient /\ OneAtATime /\ Separated /\ Undone /\ turns' = turns
  BY <1>1 DEF ReactorInvariant, Patiently
 <2>2. n = 1 /\ ~Reverting /\ ~(Queued(domain, "checkpoint-revert-requested") > 0)
  <3>1. n <= 1 /\ (Reverting \/ Queued(domain, "checkpoint-revert-requested") > 0
                      => requests = << >>)
   BY <2>1 DEF OneAtATime
  <3> HIDE DEF n
  <3> QED BY <1>1, <3>1
 <2>3. started.turn = turns BY <1>1, <1>3, <2>2
 <2>4. OneAtATime'
  <3>1. Len(requests') <= 1 /\ provider'.active = turns' BY <1>1, <1>3, <1>5, <2>2
  <3> HIDE DEF started
  <3>2. \A i \in 1..Len(runtime') : runtime'[i].turn = turns'
   BY <1>1, <1>4, <2>1, <2>3, EmitInTurn
  <3>3. \A i \in 1..Len(ingest') : ingest'[i].type # "session.exited" => ingest'[i].turn = turns'
   BY <1>1, <1>4, <2>1, <2>3, EmitInTurn
  <3>4. Queued(domain', "checkpoint-revert-requested") = Queued(domain, "checkpoint-revert-requested")
   BY <1>1
  <3> QED BY <1>1, <2>1, <2>2, <3>1, <3>2, <3>3, <3>4 DEF OneAtATime
 <2>5. Separated' BY <1>1, <2>1, TypedFacts, SeparatedKept
 <2> QED BY <1>1, <2>2, <2>4, <2>5 DEF Undone
<1> QED BY <1>6, <1>8, <1>9, <1>10, <1>11, <1>12 DEF ReactorInvariant

LEMMA AgentWritesKeeps ==
  ASSUME ReactorInvariant, AgentWrites PROVE ReactorInvariant'
<1>1. /\ StateTyped /\ setting' = setting /\ setting \in Settings /\ provider.active # NoTurn
      /\ files' = files \cup {provider.active}
      /\ UNCHANGED <<thread, domain, runtime, ingest, draft, job, refs, lost, provider, requests,
                     turns, asked, replies, faults, diffs>>
      /\ (Reverting' <=> Reverting) /\ (Completing' <=> Completing) /\ Checkpoints' = Checkpoints
 BY TypedFacts, SameTyped DEF ReactorInvariant, AgentWrites, user
<1>2. StateTyped'
 <2>1. FilesTyped'
  <3>1. provider.active \in 1..turns BY <1>1 DEF StateTyped, ProviderTyped
  <3> QED BY <1>1, <3>1 DEF StateTyped, FilesTyped
 <2> QED BY <1>1, <2>1, SameTyped DEF StateTyped
<1>3. Counted'
 <2>1. Recordable' = Recordable /\ Recordable \in Int BY <1>1, SameDue, TypedFacts
 <2>2. D = 0 => Queued(ingest', "turn.diff.updated") = 0 BY <1>1 DEF ReactorInvariant, Counted
 <2> QED BY <1>1, <2>1, <2>2, CountedByOthers DEF ReactorInvariant
<1>4. RepliesInOrder' BY <1>1 DEF RepliesInOrder, ReactorInvariant, One
<1>5. Linked' BY <1>1, LinkedKept DEF ReactorInvariant
<1>6. InOrder' BY <1>1, InOrderKept DEF ReactorInvariant
<1>7. Patiently'
 <2> SUFFICES ASSUME setting'.patient
     PROVE  OneAtATime' /\ Separated' /\ Undone'
  BY DEF Patiently
 <2>1. setting.patient /\ OneAtATime /\ Separated /\ turns' = turns
  BY <1>1 DEF ReactorInvariant, Patiently
 <2>2. ~Reverting BY <1>1, <2>1 DEF OneAtATime
 <2>3. OneAtATime' BY <1>1, <2>1 DEF OneAtATime
 <2>4. Separated' BY <1>1, <2>1, TypedFacts, SeparatedKept
 <2> QED BY <1>1, <2>2, <2>3, <2>4 DEF Undone
<1> QED BY <1>2, <1>3, <1>4, <1>5, <1>6, <1>7 DEF ReactorInvariant

(* A step that lets the provider emit an event, and at most less be due.     *)
LEMMA EmissionKeeps ==
  ASSUME ReactorInvariant,
    NEW event \in Lifecycle \cup DiffUpdates \cup Exits, Emit(event),
    UNCHANGED <<setting, thread, domain, draft, job, files, refs, lost, requests, turns, asked,
                replies>>,
    ProviderTyped', SpentTyped', Due' \in Nat, Due' <= Due,
    D = 0 => event.type # "turn.diff.updated",
    provider'.active \in {provider.active, NoTurn},
    event.type # "session.exited" =>
        event.turn = provider.active /\ provider.active # NoTurn
  PROVE ReactorInvariant'
<1>1. /\ StateTyped /\ setting' = setting /\ setting \in Settings
      /\ UNCHANGED <<thread, domain, draft, job, files, refs, lost, requests, turns, asked, replies>>
      /\ (Reverting' <=> Reverting) /\ (Completing' <=> Completing) /\ Checkpoints' = Checkpoints
      /\ Due \in Nat /\ D \in Nat /\ D' = D /\ turns \in Nat /\ Len(requests) \in Nat
 BY TypedFacts, SameTyped, TypesKept DEF ReactorInvariant
<1>2. StateTyped'
 <2>1. QueuesTyped' BY <1>1, EmitIs, TypesKept DEF StateTyped, QueuesTyped
 <2> QED BY <1>1, <2>1, SameTyped DEF StateTyped
<1>3. Recordable' \in Int /\ Recordable <= Recordable'
 <2> DEFINE all == (1 + D) * (turns - Len(requests))
 <2>1. all \in Int BY <1>1
 <2>2. Recordable = all - Due /\ Recordable' = all - Due' BY <1>1 DEF Recordable
 <2>3. \A a \in Int, b, c \in Nat : b <= c => a - b \in Int /\ a - c <= a - b OBVIOUS
 <2> HIDE DEF all
 <2> QED BY <1>1, <2>1, <2>2, <2>3
<1>4. Counted'
 <2>1. D = 0 => Queued(ingest', "turn.diff.updated") = 0
  BY <1>1, EmitIs DEF ReactorInvariant, Counted, One
 <2> QED BY <1>1, <1>3, <2>1, TypedFacts, CountedByOthers DEF ReactorInvariant
<1>5. RepliesInOrder' BY <1>1 DEF RepliesInOrder, ReactorInvariant, One
<1>6. Linked' BY <1>1, LinkedKept DEF ReactorInvariant
<1>7. InOrder' BY <1>1, InOrderKept DEF ReactorInvariant
<1>8. Patiently'
 <2> SUFFICES ASSUME setting'.patient
     PROVE  OneAtATime' /\ Separated' /\ Undone'
  BY DEF Patiently
 <2>1. setting.patient /\ OneAtATime /\ Separated /\ Undone /\ turns' = turns
  BY <1>1 DEF ReactorInvariant, Patiently
 <2>2. event.type # "session.exited" => event.turn = turns BY <2>1 DEF OneAtATime
 <2>3. OneAtATime'
  <3>1. /\ \A i \in 1..Len(runtime') : runtime'[i].turn = turns'
        /\ \A i \in 1..Len(ingest') :
              ingest'[i].type # "session.exited" => ingest'[i].turn = turns'
   BY <1>1, <2>1, <2>2, EmitInTurn
  <3>2. Reverting \/ Queued(domain, "checkpoint-revert-requested") > 0 =>
          /\ requests = << >> /\ provider'.active = NoTurn /\ draft = NoJob
          /\ \A i \in 1..Len(ingest') : ingest'[i].type = "session.exited"
   <4> SUFFICES ASSUME Reverting \/ Queued(domain, "checkpoint-revert-requested") > 0
       PROVE  /\ requests = << >> /\ provider'.active = NoTurn /\ draft = NoJob
              /\ \A i \in 1..Len(ingest') : ingest'[i].type = "session.exited"
    OBVIOUS
   <4>1. /\ requests = << >> /\ provider.active = NoTurn /\ draft = NoJob
         /\ \A i \in 1..Len(ingest) : ingest[i].type = "session.exited"
    BY <2>1 DEF OneAtATime
   <4>2. event.type = "session.exited" BY <4>1
   <4>3. \A i \in 1..Len(ingest') :
            ingest'[i] = event \/ \E k \in 1..Len(ingest) : ingest'[i] = ingest[k]
    BY <1>1, EmitIs
   <4> QED BY <4>1, <4>2, <4>3
  <3>3. provider'.active \in {NoTurn, turns'} /\ Len(requests') <= 1 BY <1>1, <2>1 DEF OneAtATime
  <3> QED BY <1>1, <2>1, <3>1, <3>2, <3>3 DEF OneAtATime
 <2>4. Separated' BY <1>1, <2>1, TypedFacts, SeparatedKept
 <2>5. Undone' BY <1>1, <2>1 DEF Undone, Checkpoints, Entries
 <2> QED BY <2>3, <2>4, <2>5
<1> QED BY <1>2, <1>4, <1>5, <1>6, <1>7, <1>8 DEF ReactorInvariant

EmittedCounts(event) ==
    /\ Queued(ingest', "turn.diff.updated")
          = Queued(ingest, "turn.diff.updated") + One(event.type = "turn.diff.updated")
    /\ Queued(runtime', "turn.completed")
          = Queued(runtime, "turn.completed") + One(event.type = "turn.completed")

LEMMA ReportDiffKeeps ==
  ASSUME ReactorInvariant, ReportDiff PROVE ReactorInvariant'
<1> DEFINE event == [type |-> "turn.diff.updated", turn |-> provider.active]
<1>1. /\ StateTyped /\ setting' = setting /\ diffs < D /\ diffs' = diffs + 1 /\ diffs \in 0..D
      /\ D \in Nat /\ D' = D /\ Emit(event) /\ provider' = provider /\ turns' = turns
      /\ UNCHANGED <<setting, thread, domain, draft, job, files, refs, lost, requests, turns, asked,
                     replies>>
      /\ asked' = asked /\ replies' = replies /\ faults' = faults
 BY TypedFacts, TypesKept DEF ReactorInvariant, ReportDiff, user, D
<1>2. provider.active \in TurnIds /\ provider.active # NoTurn /\ provider.active \in 1..turns
 <2>1. provider.active \in 1..turns BY <1>1 DEF ReportDiff, StateTyped, FilesTyped
 <2>2. turns \in 0..T /\ T \in Nat /\ TurnIds = 1..T /\ NoTurn \notin Nat
  BY <1>1, TypedFacts, ReactorAssumption
 <2> HIDE DEF T
 <2> QED BY <2>1, <2>2
<1>3. event \in DiffUpdates BY <1>2 DEF DiffUpdates
<1>4. ProviderTyped' /\ SpentTyped' BY <1>1, SameTyped, TypesKept DEF StateTyped, ProviderTyped
<1>5. Due' = Due
 <2>1. event.type = "turn.diff.updated" /\ event.type # "turn.completed" OBVIOUS
 <2> HIDE DEF event
 <2>2. /\ Queued(ingest', "turn.diff.updated") = Queued(ingest, "turn.diff.updated") + 1
       /\ Queued(runtime', "turn.completed") = Queued(runtime, "turn.completed")
       /\ Queued(runtime, "turn.completed") \in Nat /\ Queued(ingest, "turn.diff.updated") \in Nat
  <3>1. EmittedCounts(event) BY <1>1, <1>3, EmitIs DEF EmittedCounts
  <3> QED BY <1>1, <2>1, <3>1, TypedFacts DEF One, EmittedCounts
 <2> QED BY <1>1, <1>2, <2>2 DEF Due
<1>6. Due \in Nat BY <1>1, TypedFacts
<1>7. D # 0 /\ event.turn = provider.active BY <1>1
<1> HIDE DEF event
<1> QED BY <1>1, <1>2, <1>3, <1>4, <1>5, <1>6, <1>7, EmissionKeeps

LEMMA CompleteTurnKeeps ==
  ASSUME ReactorInvariant, NEW state \in setting.states, CompleteTurn(state)
  PROVE ReactorInvariant'
<1> DEFINE event == [type |-> "turn.completed", turn |-> provider.active, state |-> state]
<1>1. /\ StateTyped /\ setting' = setting /\ setting \in Settings /\ diffs \in 0..D
      /\ D \in Nat /\ D' = D /\ Emit(event) /\ provider.active # NoTurn
      /\ UNCHANGED <<setting, thread, domain, draft, job, files, refs, lost, requests, turns, asked,
                     replies>>
      /\ asked' = asked /\ replies' = replies /\ faults' = faults /\ diffs' = diffs
      /\ provider' = [provider EXCEPT !.active = NoTurn,
                                      !.turns = Append(provider.turns, provider.active),
                                      !.memory = provider.memory \cup {provider.active}]
 BY TypedFacts, TypesKept DEF ReactorInvariant, CompleteTurn, user
<1>2. /\ provider \in Providers
      /\ provider.active \in TurnIds
 BY <1>1 DEF StateTyped, ProviderTyped, Providers
<1>3. event \in Lifecycle
 <2>1. state \in {"completed", "failed", "interrupted"} BY <1>1, ReactorAssumption
 <2> QED BY <1>2, <2>1 DEF Lifecycle
<1>4. ProviderTyped' /\ SpentTyped' /\ provider'.active = NoTurn
 <2>1. Append(provider.turns, provider.active) \in Seq(TurnIds) BY <1>2 DEF Providers
 <2>2. provider' \in Providers /\ provider'.active = NoTurn BY <1>1, <1>2, <2>1 DEF Providers
 <2> QED BY <1>1, <2>2, SameTyped, TypesKept DEF StateTyped, ProviderTyped
<1>5. Due' \in Nat /\ Due' <= Due
 <2>1. event.type = "turn.completed" /\ event.type # "turn.diff.updated" OBVIOUS
 <2> HIDE DEF event
 <2>2. /\ Queued(ingest', "turn.diff.updated") = Queued(ingest, "turn.diff.updated")
       /\ Queued(runtime', "turn.completed") = Queued(runtime, "turn.completed") + 1
       /\ Queued(runtime, "turn.completed") \in Nat /\ Queued(ingest, "turn.diff.updated") \in Nat
  <3>1. EmittedCounts(event) BY <1>1, <1>3, EmitIs DEF EmittedCounts
  <3> QED BY <1>1, <2>1, <3>1, TypedFacts DEF One, EmittedCounts
 <2> QED BY <1>1, <1>4, <2>2 DEF Due
<1>6. event.turn = provider.active /\ event.type # "turn.diff.updated" OBVIOUS
<1> HIDE DEF event
<1> QED BY <1>1, <1>3, <1>4, <1>5, <1>6, EmissionKeeps

LEMMA LoseSessionKeeps ==
  ASSUME ReactorInvariant, LoseSession PROVE ReactorInvariant'
<1> DEFINE event == [type |-> "session.exited"]
<1>1. /\ StateTyped /\ setting' = setting /\ setting \in Settings /\ diffs \in 0..D
      /\ D \in Nat /\ D' = D /\ Emit(event) /\ faults < setting.faults /\ faults' = faults + 1
      /\ UNCHANGED <<setting, thread, domain, draft, job, files, refs, lost, requests, turns, asked,
                     replies>>
      /\ asked' = asked /\ replies' = replies /\ diffs' = diffs
      /\ provider' = [provider EXCEPT !.session = FALSE, !.active = NoTurn,
                        !.turns = IF setting.forgets THEN provider.turns ELSE << >>]
 BY TypedFacts, TypesKept DEF ReactorInvariant, LoseSession, user
<1>2. event \in Exits BY DEF Exits
<1>3. ProviderTyped' /\ provider'.active = NoTurn
 <2>1. provider \in Providers BY <1>1 DEF StateTyped, ProviderTyped
 <2> DEFINE listed == IF setting.forgets THEN provider.turns ELSE << >>
 <2>2. listed \in Seq(TurnIds) BY <2>1 DEF Providers
 <2>3. provider' = [provider EXCEPT !.session = FALSE, !.active = NoTurn, !.turns = listed]
  BY <1>1
 <2> HIDE DEF listed
 <2>4. provider' \in Providers /\ provider'.active = NoTurn BY <2>1, <2>2, <2>3 DEF Providers
 <2> QED BY <1>1, <2>4, TypesKept DEF ProviderTyped
<1>4. SpentTyped'
 <2>1. faults \in 0..setting.faults /\ setting.faults \in Nat
  BY <1>1, ReactorAssumption DEF StateTyped, SpentTyped
 <2> QED BY <1>1, <2>1 DEF StateTyped, SpentTyped
<1>5. Due' \in Nat /\ Due' <= Due
 <2>1. event.type # "turn.completed" /\ event.type # "turn.diff.updated" OBVIOUS
 <2> HIDE DEF event
 <2>2. /\ Queued(ingest', "turn.diff.updated") = Queued(ingest, "turn.diff.updated")
       /\ Queued(runtime', "turn.completed") = Queued(runtime, "turn.completed")
       /\ Queued(runtime, "turn.completed") \in Nat /\ Queued(ingest, "turn.diff.updated") \in Nat
  <3>1. EmittedCounts(event) BY <1>1, <1>2, EmitIs DEF EmittedCounts
  <3> QED BY <1>1, <2>1, <3>1, TypedFacts DEF One, EmittedCounts
 <2> QED BY <1>1, <1>3, <2>2 DEF Due
<1>6. event.type = "session.exited" OBVIOUS
<1> HIDE DEF event
<1> QED BY <1>1, <1>2, <1>3, <1>4, <1>5, <1>6, EmissionKeeps


--------------------
(* Ingestion.                                                               *)
LEMMA TailIs ==
  ASSUME NEW S, NEW queue \in Seq(S), queue # << >>
  PROVE /\ Head(queue) \in S /\ Head(queue) = queue[1] /\ 1 \in 1..Len(queue)
        /\ Tail(queue) \in Seq(S)
        /\ \A i \in 1..Len(Tail(queue)) : \E k \in 1..Len(queue) : Tail(queue)[i] = queue[k]
<1>1. Len(queue) \in Nat /\ Len(queue) > 0 OBVIOUS
<1>2. Tail(queue) \in Seq(S) /\ Len(Tail(queue)) = Len(queue) - 1
      /\ \A i \in 1..Len(queue) - 1 : Tail(queue)[i] = queue[i + 1]
 OBVIOUS
<1>3. \A i \in 1..Len(queue) - 1 : i + 1 \in 1..Len(queue) BY <1>1
<1> QED BY <1>1, <1>2, <1>3

\* A user who waits: what is left of a queue is of the same turn.
LEMMA OneAtATimeKept ==
  ASSUME OneAtATime,
    UNCHANGED <<turns, requests>>, provider'.active = provider.active,
    \A i \in 1..Len(runtime') : \E k \in 1..Len(runtime) : runtime'[i] = runtime[k],
    \A i \in 1..Len(ingest') : \E k \in 1..Len(ingest) : ingest'[i] = ingest[k],
    draft' # NoJob => draft'.turn = turns
        /\ (draft = NoJob => ~(Reverting \/ Queued(domain, "checkpoint-revert-requested") > 0)),
    Completing' => job'.turn = turns,
    Reverting' => Reverting \/ Queued(domain, "checkpoint-revert-requested") > 0,
    Queued(domain', "checkpoint-revert-requested") > 0 =>
        Reverting \/ Queued(domain, "checkpoint-revert-requested") > 0
  PROVE OneAtATime'
<1> DEFINE revert == "checkpoint-revert-requested"
<1>1. /\ \A i \in 1..Len(runtime') : runtime'[i].turn = turns'
      /\ \A i \in 1..Len(ingest') : ingest'[i].type # "session.exited" => ingest'[i].turn = turns'
 BY DEF OneAtATime
<1>2. Len(requests') <= 1 /\ provider'.active \in {NoTurn, turns'} BY DEF OneAtATime
<1>3. Reverting' \/ Queued(domain', revert) > 0 =>
          /\ requests' = << >> /\ provider'.active = NoTurn /\ draft' = NoJob
          /\ \A i \in 1..Len(ingest') : ingest'[i].type = "session.exited"
 <2> SUFFICES ASSUME Reverting' \/ Queued(domain', revert) > 0
     PROVE  /\ requests' = << >> /\ provider'.active = NoTurn /\ draft' = NoJob
            /\ \A i \in 1..Len(ingest') : ingest'[i].type = "session.exited"
  OBVIOUS
 <2>1. Reverting \/ Queued(domain, revert) > 0 OBVIOUS
 <2>2. /\ requests = << >> /\ provider.active = NoTurn /\ draft = NoJob
       /\ \A i \in 1..Len(ingest) : ingest[i].type = "session.exited"
  BY <2>1 DEF OneAtATime
 <2>3. \A i \in 1..Len(ingest') : ingest'[i].type = "session.exited" BY <2>2
 <2> QED BY <2>1, <2>2, <2>3
<1> QED BY <1>1, <1>2, <1>3 DEF OneAtATime

LEMMA IngestLifecycleKeeps ==
  ASSUME ReactorInvariant, IngestLifecycle PROVE ReactorInvariant'
<1> DEFINE event == Head(ingest)
           set == IF Applies(event) THEN SetSession(thread, SessionAfter(event)) ELSE thread
           Inputs == Lifecycle \cup DiffUpdates \cup Exits
<1>1. /\ StateTyped /\ setting' = setting /\ setting \in Settings /\ ThreadTyped(thread)
      /\ draft = NoJob /\ ingest # << >> /\ ingest' = Tail(ingest)
      /\ event.type # "turn.diff.updated"
      /\ thread' = IF event.type = "turn.completed"
                   THEN SendMessage(set, LastMessage(event.turn)) ELSE set
      /\ UNCHANGED <<domain, runtime, draft, job, files, refs, lost, provider, requests, turns, asked,
                     replies, faults, diffs>>
      /\ (Reverting' <=> Reverting) /\ (Completing' <=> Completing)
      /\ ingest \in Seq(Inputs) /\ TurnIds = 1..T /\ T \in Nat
 <2>1. StateTyped /\ setting' = setting /\ job' = job BY DEF ReactorInvariant, IngestLifecycle
 <2>2. /\ setting \in Settings /\ ThreadTyped(thread) /\ ingest \in Seq(Inputs)
       /\ TurnIds = 1..T /\ T \in Nat
  BY <2>1, TypedFacts
 <2>3. (Reverting' <=> Reverting) /\ (Completing' <=> Completing) BY <2>1, SameTyped
 <2> QED BY <2>1, <2>2, <2>3 DEF IngestLifecycle, user
<1>2. event \in Inputs /\ ingest' \in Seq(Inputs)
      /\ \A i \in 1..Len(ingest') : \E k \in 1..Len(ingest) : ingest'[i] = ingest[k]
 <2> HIDE DEF Inputs
 <2> QED BY <1>1, TailIs
<1>3. event.type = "turn.completed" => event.turn \in 1..T
 BY <1>1, <1>2 DEF Lifecycle, DiffUpdates, Exits
<1>4. ThreadTyped(set) /\ set.checkpoints = thread.checkpoints BY <1>1, SetSessionIs
<1>5. ThreadTyped(thread') /\ thread'.checkpoints = thread.checkpoints
 <2>1. CASE event.type = "turn.completed"
  <3> DEFINE last == LastMessage(event.turn)
  <3>1. /\ last.message \in Nat /\ last.role \in {"user", "assistant"}
        /\ last.turn \in TurnIds \cup {NoTurn} /\ last.text = << >>
        /\ last.streaming = FALSE /\ last.at \in Nat
   <4>1. event.turn \in Nat /\ event.turn \in TurnIds BY <1>1, <1>3, <2>1
   <4> HIDE DEF event
   <4> QED BY <4>1 DEF LastMessage
  <3>2. thread' = SendMessage(set, last) BY <1>1, <2>1
  <3> HIDE DEF last, set
  <3> QED BY <1>4, <3>1, <3>2, SendMessageIs
 <2>2. CASE event.type # "turn.completed" BY <1>1, <1>4, <2>2
 <2> QED BY <2>1, <2>2
<1>6. ThreadTyped(thread)' /\ Checkpoints' = Checkpoints
 BY <1>1, <1>5, TypesKept DEF ThreadTyped, Checkpoints
<1> HIDE DEF set, event
<1>7. StateTyped'
 <2>1. QueuesTyped' BY <1>1, <1>2, TypesKept DEF StateTyped, QueuesTyped, Exits
 <2> QED BY <1>1, <1>6, <2>1, SameTyped DEF StateTyped
<1>8. Queued(ingest', "turn.diff.updated") = Queued(ingest, "turn.diff.updated")
 <2>1. Queued(ingest, "turn.diff.updated")
          = Queued(Tail(ingest), "turn.diff.updated") + One(event.type = "turn.diff.updated")
  BY <1>1, QueuedTail DEF event
 <2>2. Queued(ingest', "turn.diff.updated") \in Nat BY <1>2, QueuedSome
 <2> QED BY <1>1, <2>1, <2>2 DEF One
<1>9. Recordable' = Recordable BY <1>1, <1>8, TypesKept DEF Recordable, Due
<1>10. Counted'
 BY <1>1, <1>6, <1>8, <1>9, TypedFacts, SameTyped, KindsApart, CountedKept
    DEF ReactorInvariant, Counted
<1>11. RepliesInOrder' BY <1>1 DEF RepliesInOrder, ReactorInvariant, One
<1>12. Linked' BY <1>1, <1>6, LinkedKept DEF ReactorInvariant
<1>13. InOrder' BY <1>1, <1>6, InOrderKept DEF ReactorInvariant
<1>14. Patiently'
 <2> SUFFICES ASSUME setting'.patient
     PROVE  OneAtATime' /\ Separated' /\ Undone'
  BY DEF Patiently
 <2>1. setting.patient /\ OneAtATime /\ Separated /\ Undone /\ turns' = turns
  BY <1>1 DEF ReactorInvariant, Patiently
 <2>2. OneAtATime'
  <3>1. Completing' => job'.turn = turns BY <1>1, <2>1 DEF OneAtATime
  <3> QED BY <1>1, <1>2, <2>1, <3>1, OneAtATimeKept
 <2>3. Separated' BY <1>1, <1>6, <2>1, TypedFacts, SeparatedKept
 <2>4. Undone' BY <1>1, <1>6, <2>1 DEF Undone, Entries
 <2> QED BY <2>2, <2>3, <2>4
<1> QED BY <1>7, <1>10, <1>11, <1>12, <1>13, <1>14 DEF ReactorInvariant

LEMMA IngestDiffKeeps ==
  ASSUME ReactorInvariant, IngestDiff PROVE ReactorInvariant'
<1> DEFINE event == Head(ingest)
           Inputs == Lifecycle \cup DiffUpdates \cup Exits
           n == Len(Checkpoints)
           diff == "turn.diff.updated"
<1>1. /\ StateTyped /\ setting' = setting /\ setting \in Settings /\ ThreadTyped(thread)
      /\ draft = NoJob /\ ingest # << >> /\ ingest' = Tail(ingest) /\ event.type = diff
      /\ draft' = IF setting.git THEN [turn |-> event.turn, count |-> n + 1] ELSE NoJob
      /\ UNCHANGED <<thread, domain, runtime, job, files, refs, lost, provider, requests, turns, asked,
                     replies, faults, diffs>>
      /\ ingest \in Seq(Inputs) /\ Checkpoints' = Checkpoints /\ Entries' = Entries
 <2>1. StateTyped /\ setting' = setting /\ thread' = thread BY DEF ReactorInvariant, IngestDiff
 <2>2. setting \in Settings /\ ThreadTyped(thread) /\ ingest \in Seq(Inputs) BY <2>1, TypedFacts
 <2> QED BY <2>1, <2>2 DEF IngestDiff, user, Checkpoints, Entries
<1>2. event \in Inputs /\ ingest' \in Seq(Inputs) /\ event = ingest[1] /\ 1 \in 1..Len(ingest)
      /\ \A i \in 1..Len(ingest') : \E k \in 1..Len(ingest) : ingest'[i] = ingest[k]
 <2> HIDE DEF Inputs
 <2> QED BY <1>1, TailIs
<1>3. event.turn \in TurnIds BY <1>1, <1>2 DEF Lifecycle, DiffUpdates, Exits
<1>4. (Reverting' <=> Reverting) /\ (Completing' <=> Completing)
      /\ (job' \in Baselines <=> job \in Baselines)
 BY <1>1, SameTyped
<1>5. n \in Nat /\ Entries = 1..n /\ \A i \in Entries : Checkpoints[i].count \in Nat
 BY <1>1, EntriesTyped
<1>6. draft' # NoJob => setting.git /\ draft' = [turn |-> event.turn, count |-> n + 1]
                        /\ draft'.turn = event.turn /\ draft'.count = n + 1
 BY <1>1
<1>7. StateTyped'
 <2>1. QueuesTyped' BY <1>1, <1>2, TypesKept DEF StateTyped, QueuesTyped, Exits
 <2>2. WorkersTyped'
  <3>1. draft' \in Drafts \cup {NoJob} BY <1>1, <1>3, <1>5 DEF Drafts
  <3> QED BY <1>1, <3>1, TypesKept DEF StateTyped, WorkersTyped
 <2> QED BY <1>1, <2>1, <2>2, SameTyped DEF StateTyped
<1>8. /\ Queued(ingest, diff) = Queued(ingest', diff) + 1
      /\ Queued(ingest', diff) \in Nat
 <2>1. Queued(ingest, diff) = Queued(Tail(ingest), diff) + One(event.type = diff)
  BY <1>1, QueuedTail
 <2>2. Queued(ingest', diff) \in Nat BY <1>2, QueuedSome
 <2> HIDE DEF event
 <2> QED BY <1>1, <2>1, <2>2 DEF One
<1> HIDE DEF event
<1>9. Recordable' = Recordable + 1 /\ Recordable \in Int
 <2> DEFINE all == (1 + D) * (turns - Len(requests))
            rest == IF provider.active = NoTurn THEN 0 ELSE 1 + D - diffs
 <2>1. all \in Int /\ rest \in Nat /\ Queued(runtime, "turn.completed") \in Nat
  <3>1. /\ 1 + D \in Int /\ turns - Len(requests) \in Int /\ diffs \in 0..D /\ D \in Nat
        /\ Queued(runtime, "turn.completed") \in Nat
   BY <1>1, TypedFacts
  <3> QED BY <3>1
 <2>2. /\ Due = Queued(runtime, "turn.completed") + Queued(ingest, diff) + rest
       /\ Due' = Queued(runtime, "turn.completed") + Queued(ingest', diff) + rest
       /\ Recordable = all - Due /\ Recordable' = all - Due'
  BY <1>1, TypesKept DEF Due, Recordable
 <2> HIDE DEF all, rest, diff
 <2> QED BY <1>8, <2>1, <2>2
<1>10. D # 0
 <2>1. Queued(ingest, diff) # 0
  <3> HIDE DEF diff
  <3> QED BY <1>8
 <2> QED BY <2>1 DEF ReactorInvariant, Counted
<1>11. Counted'
 <2> DEFINE one == One(draft' # NoJob)
            two == One(Completing)
 <2>1. one \in 0..1 /\ two \in 0..1 /\ One(draft # NoJob) = 0 BY <1>1 DEF One
 <2>2. /\ \A i \in Entries : Checkpoints[i].count <= Recordable - 0 - two
       /\ n <= Recordable - 0 - two
       /\ Completing => job.count <= Recordable - 0
       /\ job \in Baselines => job.count <= Recordable
       /\ \A count \in DOMAIN refs : count <= Recordable
  BY <2>1 DEF ReactorInvariant, Counted
 <2>3. /\ Completing => job.count \in Nat
       /\ job \in Baselines => job.count \in Nat
       /\ DOMAIN refs \subseteq Nat
  BY <1>1, SameTyped, KindsApart
 <2> HIDE DEF one, two, n
 <2>4. /\ \A i \in Entries : Checkpoints[i].count <= Recordable' - one - two
       /\ n <= Recordable' - one - two
       /\ n + 1 <= Recordable' - two
       /\ Completing => job.count <= Recordable' - one
       /\ job \in Baselines => job.count <= Recordable'
       /\ \A count \in DOMAIN refs : count <= Recordable'
  BY <1>5, <1>9, <2>1, <2>2, <2>3
 <2>5. D' # 0 BY <1>1, <1>10, TypesKept
 <2>6. two = One(Completing') /\ D' # 0 BY <1>4, <2>5 DEF One, two
 <2> QED BY <1>1, <1>4, <1>6, <2>4, <2>6 DEF Counted, one, n
<1>12. RepliesInOrder' BY <1>1, <1>4 DEF RepliesInOrder, ReactorInvariant, One
<1>13. Linked' BY <1>1, LinkedKept DEF ReactorInvariant
<1>14. setting.patient => event.turn = turns
 BY <1>1, <1>2 DEF ReactorInvariant, Patiently, OneAtATime
<1>15. InOrder'
 <2>1. ASSUME Orderable, draft' # NoJob
     PROVE  Fits(event.turn, n + 1)
  <3>1. setting.patient BY <1>10, <2>1 DEF Orderable
  <3>2. Separated /\ event.turn = turns BY <1>14, <3>1 DEF ReactorInvariant, Patiently
  <3>3. \A i \in 1..n : Checkpoints[i].turn \in Nat /\ Checkpoints[i].turn <= turns
           /\ (i < n => Checkpoints[i].turn # turns)
   <4>1. \A i \in 1..n : Checkpoints[i].turn \in Nat
    <5>1. \A i \in Entries : Checkpoints[i].turn \in TurnIds BY <1>1, EntriesTyped
    <5>2. TurnIds \subseteq Nat BY DEF TurnIds
    <5>3. Entries = 1..n BY <1>5
    <5> HIDE DEF n
    <5> QED BY <5>1, <5>2, <5>3
   <4> HIDE DEF n
   <4>2. turns \in Nat BY <1>1, TypedFacts
   <4> QED BY <1>5, <3>2, <4>1, <4>2 DEF Separated
  <3>4. PICK m \in 0..n : m \in {n - 1, n} /\ {i \in Entries : Checkpoints[i].turn # turns} = 1..m
   <4> HIDE DEF n
   <4>1. CASE n = 0 BY <1>5, <4>1
   <4>2. CASE n # 0 /\ Checkpoints[n].turn = turns
    <5>1. \A i \in 1..n : Checkpoints[i].turn # turns <=> i \in 1..n - 1 BY <1>5, <3>3, <4>2
    <5>2. n - 1 \in 0..n /\ 1..n - 1 \subseteq 1..n BY <1>5, <4>2
    <5> QED BY <1>5, <5>1, <5>2
   <4>3. CASE n # 0 /\ Checkpoints[n].turn # turns BY <1>5, <3>3, <4>3
   <4> QED BY <4>1, <4>2, <4>3
  <3>5. n + 1 \in NthCount(m + 1)
   <4> HIDE DEF n
   <4> QED BY <1>5, <1>10, <3>4 DEF NthCount
  <3> QED BY <3>2, <3>4, <3>5 DEF Fits
 <2>2. /\ \A turn, count : Fits(turn, count)' <=> Fits(turn, count)
       /\ \A k : NthCount(k)' = NthCount(k)
       /\ Orderable' <=> Orderable
  BY <1>1, FitsKept
 <2> HIDE DEF n
 <2> QED BY <1>1, <1>4, <1>6, <2>1, <2>2 DEF InOrder, ReactorInvariant
<1>16. Patiently'
 <2> SUFFICES ASSUME setting'.patient
     PROVE  OneAtATime' /\ Separated' /\ Undone'
  BY DEF Patiently
 <2>1. setting.patient /\ OneAtATime /\ Separated /\ Undone /\ turns' = turns
  BY <1>1 DEF ReactorInvariant, Patiently
 <2>2. OneAtATime'
  <3>1. Completing' => job'.turn = turns BY <1>1, <1>4, <2>1 DEF OneAtATime
  <3>2. ~(Reverting \/ Queued(domain, "checkpoint-revert-requested") > 0)
   BY <1>1, <1>2, <2>1 DEF OneAtATime
  <3>3. draft' # NoJob => draft'.turn = turns BY <1>6, <1>14, <2>1
  <3> QED BY <1>1, <1>2, <1>4, <2>1, <3>1, <3>2, <3>3, OneAtATimeKept
 <2>3. Separated' BY <1>1, <2>1, TypedFacts, SeparatedKept
 <2>4. Undone' BY <1>1, <1>4, <2>1 DEF Undone, Entries
 <2> QED BY <2>2, <2>3, <2>4
<1> QED BY <1>7, <1>11, <1>12, <1>13, <1>15, <1>16 DEF ReactorInvariant

(* A checkpoint that fits is recorded at the end of those that stay.          *)
LEMMA RecordIs ==
  ASSUME ReactorInvariant, T <= MaxCheckpoints, UNCHANGED <<setting, turns>>,
    NEW entry \in CheckpointType, thread' = CompleteTurnDiff(thread, entry),
    Orderable => Fits(entry.turn, entry.count),
    setting.patient => entry.turn = turns,
    D = 0 => Len(Checkpoints) + 1 <= T
  PROVE /\ ThreadTyped(thread)'
        /\ Entries' = 1..Len(Checkpoints') /\ Len(Checkpoints') \in Nat
        /\ Len(Checkpoints') <= Len(Checkpoints) + 1
        /\ \A k \in Entries' :
              \/ Checkpoints'[k] = entry
              \/ \E i \in Entries : Checkpoints[i].turn # entry.turn
                                    /\ Checkpoints'[k] = Checkpoints[i]
        /\ Orderable => \A k \in Entries' : Checkpoints'[k].count \in NthCount(k)
        /\ setting.patient =>
              /\ \A k \in Entries' : k <= Checkpoints'[k].turn /\ Checkpoints'[k].turn <= turns
              /\ \A k, l \in Entries' : k < l => Checkpoints'[k].turn < Checkpoints'[l].turn
              /\ \A count : Fits(turns, count) => Fits(turns, count)'
<1> DEFINE n == Len(Checkpoints)
<1>1. /\ ThreadTyped(thread) /\ T \in Nat /\ D \in Nat /\ TurnIds = 1..T /\ turns \in 0..T
      /\ Entries = 1..n /\ n \in Nat
      /\ \A i \in Entries : /\ Checkpoints[i].turn \in TurnIds
                            /\ Checkpoints[i].count \in Nat \ {0}
 BY TypedFacts, EntriesTyped DEF ReactorInvariant
<1>2. entry.turn \in TurnIds /\ entry.count \in Nat \ {0} BY DEF CheckpointType
<1>3. /\ ThreadTyped(thread') /\ Checkpoints' = thread'.checkpoints
      /\ Len(Checkpoints') <= n + 1
      /\ \A k \in 1..Len(Checkpoints') :
            \/ Checkpoints'[k] = entry
            \/ \E i \in 1..n : Checkpoints[i].turn # entry.turn /\ Checkpoints'[k] = Checkpoints[i]
      /\ \A m \in 0..n :
            /\ {i \in Entries : Checkpoints[i].turn # entry.turn} = 1..m
            /\ \A i, j \in 1..m : i < j => Checkpoints[i].count <= Checkpoints[j].count
            /\ \A i \in 1..m : Checkpoints[i].count <= entry.count
            /\ m + 1 <= MaxCheckpoints
            => /\ Len(Checkpoints') = m + 1
               /\ \A k \in 1..m : Checkpoints'[k] = Checkpoints[k]
               /\ Checkpoints'[m + 1] = entry
 <2> DEFINE new == CompleteTurnDiff(thread, entry)
 <2>1. ThreadTyped(new) /\ Recorded(Checkpoints, entry, new.checkpoints)
  BY <1>1, CompleteTurnDiffIs DEF Checkpoints
 <2>2. new = thread' /\ Checkpoints' = thread'.checkpoints /\ Entries = DOMAIN Checkpoints
  BY DEF Checkpoints, Entries
 <2> HIDE DEF new
 <2> QED BY <2>1, <2>2 DEF Recorded
<1>4. ThreadTyped(thread)' BY <1>3, TypesKept DEF ThreadTyped
<1>5. Entries' = 1..Len(Checkpoints') /\ Len(Checkpoints') \in Nat
 BY <1>4 DEF ThreadTyped, Checkpoints, Entries
<1> HIDE DEF n
<1>6. ASSUME Orderable
    PROVE  /\ \A k \in Entries' : Checkpoints'[k].count \in NthCount(k)
           /\ setting.patient =>
                 /\ \A k \in Entries' : k <= Checkpoints'[k].turn /\ Checkpoints'[k].turn <= turns
                 /\ \A k, l \in Entries' : k < l => Checkpoints'[k].turn < Checkpoints'[l].turn
                 /\ \A count : Fits(turns, count) => Fits(turns, count)'
 <2>1. PICK m \in 0..n : /\ {i \in Entries : Checkpoints[i].turn # entry.turn} = 1..m
                         /\ entry.count \in NthCount(m + 1)
  BY <1>6 DEF Fits, n
 <2>2. \A i \in Entries : Checkpoints[i].count \in NthCount(i)
  BY <1>6 DEF ReactorInvariant, InOrder
 <2>3. \A i \in 1..m : i \in Entries /\ Checkpoints[i].turn # entry.turn BY <2>1
 <2>4. setting.patient => Separated BY DEF ReactorInvariant, Patiently
 <2>5. setting.patient => \A i \in 1..m : i <= Checkpoints[i].turn /\ Checkpoints[i].turn < turns
  <3>1. setting.patient => \A i \in 1..m : /\ i <= Checkpoints[i].turn
                                           /\ Checkpoints[i].turn <= turns
                                           /\ Checkpoints[i].turn # turns
   BY <2>3, <2>4 DEF Separated
  <3>2. \A i \in 1..m : Checkpoints[i].turn \in Nat BY <1>1, <2>3
  <3> QED BY <1>1, <3>1, <3>2
 <2> DEFINE Close(i, count) == count \in Nat /\ i <= count /\ count <= i + 1
 <2>14. \A i \in Nat : \A count \in NthCount(i) : Close(i, count) BY <1>1 DEF NthCount
 <2>15. (\A i \in 1..m : Close(i, Checkpoints[i].count)) /\ Close(m + 1, entry.count)
  <3>1. m + 1 \in Nat /\ 1..m \subseteq Nat BY <1>1, <2>1
  <3> HIDE DEF Close
  <3> QED BY <2>1, <2>2, <2>3, <2>14, <3>1
 <2>6. \A i, j \in 1..m : i < j => Checkpoints[i].count <= Checkpoints[j].count BY <2>15
 <2>7. \A i \in 1..m : Checkpoints[i].count <= entry.count BY <2>15
 <2>8. m + 1 <= T
  <3>1. CASE D = 0 BY <1>1, <3>1, <2>1 DEF n
  <3>2. CASE setting.patient
   <4>1. m > 0 => m <= Checkpoints[m].turn /\ Checkpoints[m].turn < turns
                  /\ Checkpoints[m].turn \in Nat
    BY <1>1, <2>1, <2>3, <2>5, <3>2
   <4> QED BY <1>1, <1>2, <2>1, <3>2, <4>1
  <3> QED BY <1>6, <3>1, <3>2 DEF Orderable
 <2>9. m + 1 <= MaxCheckpoints BY <1>1, <2>1, <2>8, CapAssumption
 <2>10. /\ Len(Checkpoints') = m + 1
        /\ \A k \in 1..m : Checkpoints'[k] = Checkpoints[k]
        /\ Checkpoints'[m + 1] = entry
  BY <1>3, <2>1, <2>6, <2>7, <2>9
 <2>11. Entries' = 1..m + 1 /\ \A k \in 1..m + 1 : k \in 1..m \/ k = m + 1 BY <1>5, <2>1, <2>10
 <2>12. \A k \in Entries' : Checkpoints'[k].count \in NthCount(k)
  BY <2>1, <2>2, <2>3, <2>10, <2>11
 <2>13. ASSUME setting.patient
     PROVE  /\ \A k \in Entries' : k <= Checkpoints'[k].turn /\ Checkpoints'[k].turn <= turns
            /\ \A k, l \in Entries' : k < l => Checkpoints'[k].turn < Checkpoints'[l].turn
            /\ \A count : Fits(turns, count) => Fits(turns, count)'
  <3>1. entry.turn = turns /\ m + 1 <= turns
   <4>1. m > 0 => m <= Checkpoints[m].turn /\ Checkpoints[m].turn < turns
                  /\ Checkpoints[m].turn \in Nat
    BY <1>1, <2>1, <2>3, <2>5, <2>13
   <4> QED BY <1>1, <1>2, <2>1, <2>13, <4>1
  <3>2. \A i \in 1..m : Checkpoints[i].turn \in Nat BY <1>1, <2>3
  <3>3. \A k \in Entries' : k <= Checkpoints'[k].turn /\ Checkpoints'[k].turn <= turns
   BY <1>1, <2>1, <2>5, <2>10, <2>11, <2>13, <3>1, <3>2
  <3>4. \A i, j \in 1..m : i < j => Checkpoints[i].turn < Checkpoints[j].turn
   BY <2>3, <2>4, <2>13 DEF Separated
  <3>5. \A k, l \in Entries' : k < l => Checkpoints'[k].turn < Checkpoints'[l].turn
   <4> SUFFICES ASSUME NEW k \in Entries', NEW l \in Entries', k < l
       PROVE  Checkpoints'[k].turn < Checkpoints'[l].turn
    OBVIOUS
   <4>1. k \in 1..m /\ (l \in 1..m \/ l = m + 1) BY <2>1, <2>11
   <4> QED BY <2>5, <2>10, <2>13, <3>1, <3>4, <4>1
  <3>6. {i \in Entries' : Checkpoints'[i].turn # turns} = 1..m
   <4>1. \A i \in 1..m : Checkpoints'[i].turn # turns BY <2>3, <2>10, <3>1
   <4>2. Checkpoints'[m + 1].turn = turns BY <2>10, <3>1
   <4> QED BY <2>1, <2>11, <4>1, <4>2
  <3>7. ASSUME NEW count, Fits(turns, count) PROVE Fits(turns, count)'
   <4>1. PICK l \in 0..n : /\ {i \in Entries : Checkpoints[i].turn # turns} = 1..l
                           /\ count \in NthCount(l + 1)
    BY <3>7 DEF Fits, n
   <4>2. l = m
    <5>1. 1..l = 1..m BY <2>1, <3>1, <4>1
    <5> QED BY <1>1, <5>1
   <4>3. NthCount(m + 1)' = NthCount(m + 1) BY TypesKept DEF NthCount
   <4>4. m \in 0..Len(Checkpoints') BY <2>1, <2>10
   <4> QED BY <3>6, <4>1, <4>2, <4>3, <4>4 DEF Fits
  <3> QED BY <3>3, <3>5, <3>7
 <2> QED BY <2>12, <2>13
<1>7. setting.patient => Orderable BY DEF Orderable
<1> QED BY <1>1, <1>3, <1>4, <1>5, <1>6, <1>7 DEF n

LEMMA RecordDraftKeeps ==
  ASSUME ReactorInvariant, T <= MaxCheckpoints, RecordDraft PROVE ReactorInvariant'
<1> DEFINE entry == [turn |-> draft.turn, count |-> draft.count, status |-> "missing",
                     assistant |-> 2 * draft.turn, ref |-> Provisional]
           one == One(Completing)
<1>1. /\ StateTyped /\ setting' = setting /\ setting \in Settings /\ ThreadTyped(thread)
      /\ draft # NoJob /\ draft' = NoJob /\ thread' = CompleteTurnDiff(thread, entry)
      /\ UNCHANGED <<domain, runtime, ingest, job, files, refs, lost, provider, requests, turns, asked,
                     replies, faults, diffs>>
      /\ draft \in Drafts /\ D \in Nat /\ T \in Nat /\ TurnIds = 1..T /\ turns \in 0..T
 <2>1. StateTyped /\ setting' = setting /\ draft # NoJob BY DEF ReactorInvariant, RecordDraft
 <2>2. thread' = CompleteTurnDiff(thread, entry) BY DEF RecordDraft, Project, ProjectThread
 <2> QED BY <2>1, <2>2, TypedFacts DEF RecordDraft, user
<1>2. draft.turn \in TurnIds /\ draft.count \in Nat \ {0} BY <1>1 DEF Drafts
<1>3. entry \in CheckpointType /\ entry.turn = draft.turn /\ entry.count = draft.count
      /\ entry.ref = Provisional
 BY <1>1, <1>2 DEF CheckpointType
<1>4. (Reverting' <=> Reverting) /\ (Completing' <=> Completing)
      /\ (job' \in Baselines <=> job \in Baselines)
 BY <1>1, SameTyped
<1>5. D # 0 /\ (Orderable => setting.patient) BY <1>1 DEF ReactorInvariant, Counted, Orderable
<1>6. setting.patient => OneAtATime /\ Separated /\ Undone /\ draft.turn = turns
 BY <1>1 DEF ReactorInvariant, Patiently, OneAtATime
<1>7. /\ ThreadTyped(thread)'
      /\ Entries' = 1..Len(Checkpoints') /\ Len(Checkpoints') \in Nat
      /\ Len(Checkpoints') <= Len(Checkpoints) + 1
      /\ \A k \in Entries' :
            \/ Checkpoints'[k] = entry
            \/ \E i \in Entries : Checkpoints[i].turn # entry.turn
                                  /\ Checkpoints'[k] = Checkpoints[i]
      /\ Orderable => \A k \in Entries' : Checkpoints'[k].count \in NthCount(k)
      /\ setting.patient =>
            /\ \A k \in Entries' : k <= Checkpoints'[k].turn /\ Checkpoints'[k].turn <= turns
            /\ \A k, l \in Entries' : k < l => Checkpoints'[k].turn < Checkpoints'[l].turn
            /\ \A count : Fits(turns, count) => Fits(turns, count)'
 <2>1. Orderable => Fits(entry.turn, entry.count) BY <1>1, <1>3 DEF ReactorInvariant, InOrder
 <2> HIDE DEF entry
 <2> QED BY <1>1, <1>3, <1>5, <1>6, <2>1, RecordIs
<1> HIDE DEF entry
<1>8. StateTyped'
 <2>1. WorkersTyped' BY <1>1, TypesKept DEF StateTyped, WorkersTyped
 <2> QED BY <1>1, <1>7, <2>1, SameTyped DEF StateTyped
<1>9. Recordable' = Recordable /\ Recordable \in Int BY <1>1, SameDue, TypedFacts
<1>10. Counted'
 <2>1. one \in 0..1 /\ One(draft # NoJob) = 1 /\ One(draft' # NoJob) = 0
       /\ One(Completing') = one
  BY <1>1, <1>4 DEF One
 <2>2. /\ \A i \in Entries : Checkpoints[i].count <= Recordable - 1 - one
       /\ Len(Checkpoints) <= Recordable - 1 - one
       /\ draft.count <= Recordable - one
       /\ Completing => job.count <= Recordable - 1
       /\ job \in Baselines => job.count <= Recordable
       /\ \A count \in DOMAIN refs : count <= Recordable
  BY <1>1, <2>1 DEF ReactorInvariant, Counted
 <2> HIDE DEF one
 <2>3. \A i \in Entries : Checkpoints[i].count \in Nat /\ Len(Checkpoints) \in Nat
  BY <1>1, EntriesTyped
 <2>4. \A k \in Entries' : Checkpoints'[k].count <= Recordable - 0 - one
  <3> TAKE k \in Entries'
  <3>1. CASE Checkpoints'[k] = entry BY <1>2, <1>3, <1>9, <2>1, <2>2, <3>1
  <3>2. CASE \E i \in Entries : Checkpoints'[k] = Checkpoints[i] BY <1>9, <2>1, <2>2, <2>3, <3>2
  <3> QED BY <1>7, <3>1, <3>2
 <2>5. Len(Checkpoints') <= Recordable - 0 - one
  <3>1. Len(Checkpoints) \in Nat BY <1>1, EntriesTyped
  <3> QED BY <1>7, <1>9, <2>1, <2>2, <3>1
 <2>6. Completing => job.count <= Recordable - 0
  <3>1. Completing => job.count \in Nat BY <1>1, SameTyped
  <3> QED BY <1>9, <2>2, <3>1
 <2>7. D' # 0 BY <1>1, <1>5, TypesKept
 <2> QED BY <1>1, <1>4, <1>9, <2>1, <2>2, <2>4, <2>5, <2>6, <2>7 DEF Counted
<1>11. RepliesInOrder' BY <1>1, <1>4 DEF RepliesInOrder, ReactorInvariant, One
<1>12. Linked'
 <2>1. Linked BY DEF ReactorInvariant
 <2>2. Provisional \notin Nat BY ReactorAssumption
 <2>3. job \in Baselines \/ Completing => job.count \in Nat BY <1>1, SameTyped, KindsApart
 <2>4. \A k \in Entries' :
         /\ Checkpoints'[k].ref \in {Provisional, Checkpoints'[k].count}
         /\ \/ Checkpoints'[k].ref \in DOMAIN refs \cup {Provisional} \cup lost
            \/ Reverting /\ job.step = "complete" /\ Checkpoints'[k].ref \in job.stale
  BY <1>3, <1>7, <2>1 DEF Linked
 <2>5. /\ job \in Baselines =>
             \A k \in Entries' : Checkpoints'[k].ref # job.count \/ job.count \in lost
       /\ Completing /\ job.step = "capture" => \A k \in Entries' : Checkpoints'[k].ref # job.count
  BY <1>3, <1>7, <2>1, <2>2, <2>3 DEF Linked
 <2> QED BY <1>1, <1>4, <2>1, <2>4, <2>5 DEF Linked
<1>13. InOrder'
 <2>1. /\ \A k : NthCount(k)' = NthCount(k)
       /\ Orderable' <=> Orderable
  BY <1>1, TypesKept DEF NthCount, Orderable
 <2>2. ASSUME Orderable, Completing
     PROVE  Fits(job.turn, job.count)'
  <3>1. Fits(job.turn, job.count) /\ job.turn = turns
   BY <1>5, <1>6, <2>2 DEF ReactorInvariant, InOrder, OneAtATime
  <3>2. \A count : Fits(turns, count) => Fits(turns, count)' BY <1>5, <1>7, <2>2
  <3> DEFINE c == job.count
  <3>3. job'.count = c /\ job'.turn = turns' BY <1>1, <3>1
  <3> HIDE DEF c
  <3> QED BY <3>1, <3>2, <3>3 DEF c
 <2> QED BY <1>1, <1>4, <1>7, <2>1, <2>2 DEF InOrder
<1>14. Patiently'
 <2> SUFFICES ASSUME setting'.patient
     PROVE  OneAtATime' /\ Separated' /\ Undone'
  BY DEF Patiently
 <2>1. setting.patient /\ OneAtATime /\ Separated BY <1>1, <1>6
 <2>2. OneAtATime'
  <3>1. Completing' => job'.turn = turns BY <1>1, <1>4, <2>1 DEF OneAtATime
  <3> QED BY <1>1, <1>4, <2>1, <3>1, OneAtATimeKept
 <2>3. Separated'
  <3>1. Provisional \notin DOMAIN refs BY <1>1, ReactorAssumption DEF StateTyped, FilesTyped
  <3>2. \A k \in Entries' : Checkpoints'[k].ref \in DOMAIN refs \ lost =>
            refs[Checkpoints'[k].ref] \subseteq 1..Checkpoints'[k].turn
   BY <1>3, <1>7, <2>1, <3>1 DEF Separated
  <3> QED BY <1>1, <1>7, <2>1, <3>2 DEF Separated
 <2>4. ~Reverting' BY <1>1, <1>4, <2>1 DEF OneAtATime
 <2> QED BY <2>2, <2>3, <2>4 DEF Undone
<1> QED BY <1>8, <1>10, <1>11, <1>12, <1>13, <1>14 DEF ReactorInvariant

--------------------
(* The worker.                                                              *)
\* currentTurnCount is the greatest count there is.
LEMMA CurrentTurnCountIs ==
  ASSUME StateTyped, Counted, InOrder
  PROVE /\ CurrentTurnCount \in Nat /\ CurrentTurnCount \in Counts \cup {0}
        /\ Counts = {Checkpoints[i].count : i \in Entries}
        /\ \A i \in Entries : Checkpoints[i].count <= CurrentTurnCount
        /\ CurrentTurnCount <= Recordable - One(draft # NoJob) - One(Completing)
        /\ Orderable => CurrentTurnCount \in NthCount(Len(Checkpoints))
<1> DEFINE n == Len(Checkpoints)
           B == Recordable - One(draft # NoJob) - One(Completing)
           S == Counts \cup {0}
<1>1. /\ Entries = 1..n /\ n \in Nat /\ D \in Nat
      /\ \A i \in Entries : Checkpoints[i].count \in Nat
      /\ Recordable \in Int
 BY TypedFacts, EntriesTyped
<1>2. Counts = {Checkpoints[i].count : i \in Entries} BY DEF Counts, Range, Checkpoints, Entries
<1>3. B \in Int /\ n <= B /\ \A i \in Entries : Checkpoints[i].count <= B
 <2>1. One(draft # NoJob) \in Int /\ One(Completing) \in Int BY DEF One
 <2>2. n <= B /\ \A i \in Entries : Checkpoints[i].count <= B BY DEF Counted
 <2> QED BY <1>1, <2>1, <2>2
<1> HIDE DEF B
<1>4. B \in Nat BY <1>1, <1>3
<1>5. S \in SUBSET (0..B) /\ 0 \in S BY <1>1, <1>2, <1>3, <1>4
<1>6. IsFiniteSet(S) /\ S \in SUBSET Nat
 <2>1. 0 \in Int /\ B \in Int BY <1>4
 <2>2. IsFiniteSet(0..B) BY <2>1, FS_Interval
 <2> HIDE DEF S
 <2>3. IsFiniteSet(S) BY <1>5, <2>2, FS_Subset
 <2> QED BY <1>4, <1>5, <2>3
<1>7. CurrentTurnCount = Max(S) BY DEF CurrentTurnCount, Max0
<1> HIDE DEF S
<1>8. CurrentTurnCount \in S /\ \A i \in S : i <= CurrentTurnCount
 BY <1>5, <1>6, <1>7, ExtremesAre
<1>9. /\ CurrentTurnCount \in Nat /\ CurrentTurnCount \in Counts \cup {0}
      /\ \A i \in Entries : Checkpoints[i].count <= CurrentTurnCount
      /\ CurrentTurnCount <= B
 BY <1>2, <1>4, <1>5, <1>8 DEF S
<1>10. ASSUME Orderable
    PROVE  CurrentTurnCount \in NthCount(n)
 <2>1. \A i \in Entries : Checkpoints[i].count \in NthCount(i) BY <1>10 DEF InOrder
 <2> HIDE DEF n
 <2>2. \A i \in Nat : \A count \in NthCount(i) : i <= count /\ count <= i + 1 BY <1>1 DEF NthCount
 <2>3. \A i \in Entries : i <= Checkpoints[i].count /\ Checkpoints[i].count <= i + 1
  BY <1>1, <2>1, <2>2
 <2>4. CASE n = 0
  <3>1. CurrentTurnCount = 0 BY <1>1, <1>2, <1>9, <2>4
  <3> QED BY <2>4, <3>1 DEF NthCount
 <2>5. CASE n # 0
  <3>1. n \in Entries /\ \A i \in Entries : Checkpoints[i].count <= Checkpoints[n].count
   <4>1. n \in Entries BY <1>1, <2>5
   <4>2. \A i \in Entries : i < n => Checkpoints[i].count <= Checkpoints[n].count
    BY <1>1, <2>3, <4>1
   <4>3. \A i \in Entries : i < n \/ i = n BY <1>1
   <4> QED BY <1>1, <4>1, <4>2, <4>3
  <3>2. CurrentTurnCount = Checkpoints[n].count
   <4>1. CurrentTurnCount <= Checkpoints[n].count BY <1>1, <1>2, <1>9, <3>1
   <4> QED BY <1>1, <1>9, <3>1, <4>1
  <3> QED BY <2>1, <3>1, <3>2
 <2> QED BY <2>4, <2>5
<1> QED BY <1>2, <1>9, <1>10 DEF B

(* Taking an event needs at most a capture of the state before the turn.      *)
LEMMA BaselineKeeps ==
  ASSUME ReactorInvariant, job = NoJob, job' \in {Baseline, NoJob},
    UNCHANGED <<setting, thread, ingest, draft, files, refs, lost, provider, requests, turns, asked,
                replies, faults, diffs>>,
    QueuesTyped', Recordable' \in Int, Recordable <= Recordable',
    \A i \in 1..Len(runtime') : \E k \in 1..Len(runtime) : runtime'[i] = runtime[k],
    Queued(domain', "checkpoint-revert-requested")
       = Queued(domain, "checkpoint-revert-requested")
  PROVE ReactorInvariant'
<1> DEFINE captured == [step |-> "capture", count |-> CurrentTurnCount, turn |-> NoTurn]
<1>1. /\ StateTyped /\ setting \in Settings /\ ThreadTyped(thread) /\ Recordable \in Int
      /\ draft \in Drafts \cup {NoJob} /\ DOMAIN refs \subseteq Nat
      /\ UNCHANGED <<setting, thread, ingest, draft, files, refs, lost, provider, requests, turns, asked,
                     replies, faults, diffs>>
      /\ Checkpoints' = Checkpoints /\ Entries' = Entries
 BY TypedFacts, SameTyped DEF ReactorInvariant, Checkpoints, Entries
<1>2. /\ CurrentTurnCount \in Nat
      /\ CurrentTurnCount <= Recordable - One(draft # NoJob) - One(Completing)
 BY CurrentTurnCountIs DEF ReactorInvariant
<1>3. captured \in Baselines /\ captured.count = CurrentTurnCount BY <1>2 DEF Baselines
<1>4. \/ job' = NoJob
      \/ job' = captured /\ CurrentTurnCount \notin DOMAIN refs
 BY DEF Baseline
<1> HIDE DEF captured
<1>5. ~Reverting /\ ~Completing /\ ~Reverting' /\ ~Completing'
 <2>1. ~Reverting /\ ~Completing BY <1>1, KindsApart DEF Reverting, Completing
 <2>2. job' \notin GitReverts \cup PlainReverts /\ job' \notin Completions
  BY <1>1, <1>3, <1>4, KindsApart
 <2> QED BY <1>1, <2>1, <2>2, TypesKept DEF Reverting, Completing
<1>6. StateTyped'
 <2>1. WorkersTyped' BY <1>1, <1>3, <1>4, TypesKept DEF StateTyped, WorkersTyped, Baselines
 <2> QED BY <1>1, <2>1, SameTyped DEF StateTyped
<1>7. Counted'
 <2>1. job' \in Baselines => job'.count <= Recordable'
  <3>1. job' = captured => CurrentTurnCount <= Recordable' BY <1>1, <1>2 DEF One
  <3>2. NoJob \notin Baselines BY <1>1, KindsApart
  <3> QED BY <1>3, <1>4, <3>1, <3>2
 <2>2. D = 0 => Queued(ingest', "turn.diff.updated") = 0 BY <1>1 DEF ReactorInvariant, Counted
 <2> QED BY <1>1, <1>5, <2>1, <2>2, CountedKept DEF ReactorInvariant
<1>8. RepliesInOrder' BY <1>1, <1>5 DEF RepliesInOrder, ReactorInvariant, One
<1>9. Linked'
 <2>1. Linked BY DEF ReactorInvariant
 <2>2. \A i \in Entries : Checkpoints[i].ref \in DOMAIN refs \cup {Provisional} \cup lost
  BY <1>5, <2>1 DEF Linked
 <2>3. job' \in Baselines =>
          \A i \in Entries : Checkpoints[i].ref # job'.count \/ job'.count \in lost
  <3>1. Provisional \notin Nat BY ReactorAssumption
  <3>2. NoJob \notin Baselines BY <1>1, KindsApart
  <3> QED BY <1>2, <1>3, <1>4, <2>2, <3>1, <3>2
 <2>4. Baselines' = Baselines BY DEF Baselines
 <2> QED BY <1>1, <1>5, <2>1, <2>2, <2>3, <2>4 DEF Linked
<1>10. InOrder' BY <1>1, <1>5, InOrderKept DEF ReactorInvariant
<1>11. Patiently'
 <2> SUFFICES ASSUME setting'.patient
     PROVE  OneAtATime' /\ Separated' /\ Undone'
  BY DEF Patiently
 <2>1. setting.patient /\ OneAtATime /\ Separated BY <1>1 DEF ReactorInvariant, Patiently
 <2>2. OneAtATime'
  <3>1. draft' # NoJob => draft'.turn = turns /\ draft = draft' BY <1>1, <2>1 DEF OneAtATime
  <3> QED BY <1>1, <1>5, <2>1, <3>1, OneAtATimeKept
 <2>3. Separated' BY <1>1, <2>1, TypedFacts, SeparatedKept
 <2> QED BY <1>5, <2>2, <2>3 DEF Undone
<1> QED BY <1>6, <1>7, <1>8, <1>9, <1>10, <1>11 DEF ReactorInvariant

LEMMA TakeTurnStartKeeps ==
  ASSUME ReactorInvariant, TakeTurnStart PROVE ReactorInvariant'
<1> DEFINE Inputs == TurnStarts \cup RevertRequests
           revert == "checkpoint-revert-requested"
<1>1. /\ StateTyped /\ job = NoJob /\ domain # << >> /\ Head(domain).type # revert
      /\ domain' = Tail(domain) /\ job' = Baseline
      /\ UNCHANGED <<setting, thread, runtime, ingest, draft, files, refs, lost, provider, requests,
                     turns, asked, replies, faults, diffs>>
      /\ domain \in Seq(Inputs)
 BY TypedFacts DEF ReactorInvariant, TakeTurnStart, Rest, user
<1>2. domain' \in Seq(Inputs)
 <2> HIDE DEF Inputs
 <2> QED BY <1>1, TailIs
<1>3. QueuesTyped' BY <1>1, <1>2, TypesKept DEF StateTyped, QueuesTyped, TurnStarts
<1>4. Queued(domain', revert) = Queued(domain, revert)
 <2>1. Queued(domain, revert) = Queued(Tail(domain), revert) + One(Head(domain).type = revert)
  BY <1>1, QueuedTail
 <2>2. Queued(domain', revert) \in Nat BY <1>2, QueuedSome
 <2> QED BY <1>1, <2>1, <2>2 DEF One
<1>5. Recordable' = Recordable /\ Recordable \in Int BY <1>1, SameDue, TypedFacts
<1> QED BY <1>1, <1>3, <1>4, <1>5, BaselineKeeps

(* A turn that ends needs a capture if it is the active one and has none.     *)
LEMMA CaptureKeeps ==
  ASSUME ReactorInvariant, job = NoJob,
    NEW event, event.turn \in TurnIds, setting.patient => event.turn = turns,
    job' = [step |-> "capture", count |-> CurrentTurnCount + 1, turn |-> event.turn,
            status |-> CheckpointStatus(event.state)],
    ~ \E c \in Range(thread.checkpoints) : c.turn = event.turn,
    UNCHANGED <<setting, thread, domain, ingest, draft, files, refs, lost, provider, requests,
                turns, asked, replies, faults, diffs>>,
    QueuesTyped', Recordable' = Recordable + 1,
    \A i \in 1..Len(runtime') : \E k \in 1..Len(runtime) : runtime'[i] = runtime[k]
  PROVE ReactorInvariant'
<1> DEFINE n == CurrentTurnCount
<1>1. /\ StateTyped /\ setting \in Settings /\ ThreadTyped(thread) /\ Recordable \in Int
      /\ draft \in Drafts \cup {NoJob} /\ DOMAIN refs \subseteq Nat
      /\ UNCHANGED <<setting, thread, domain, ingest, draft, files, refs, lost, provider, requests,
                     turns, asked, replies, faults, diffs>>
      /\ Checkpoints' = Checkpoints /\ Entries' = Entries /\ TurnIds = 1..T /\ T \in Nat
      /\ D \in Nat /\ D' = D
 BY TypedFacts, SameTyped, TypesKept DEF ReactorInvariant, Checkpoints, Entries
<1>2. /\ n \in Nat /\ (\A i \in Entries : Checkpoints[i].count <= n)
      /\ n <= Recordable - One(draft # NoJob) - One(Completing)
      /\ Orderable => n \in NthCount(Len(Checkpoints))
 BY CurrentTurnCountIs DEF ReactorInvariant
<1> HIDE DEF n
<1>3. /\ job' \in Completions /\ job'.count = n + 1 /\ job'.turn = event.turn
      /\ job'.step = "capture"
 <2>1. CheckpointStatus(event.state) \in {"error", "missing", "ready"} BY DEF CheckpointStatus
 <2> QED BY <1>2, <2>1 DEF Completions, n
<1>4. ~Reverting /\ ~Completing /\ ~Reverting' /\ Completing' /\ job' \notin Baselines
 <2>1. ~Reverting /\ ~Completing BY <1>1, KindsApart DEF Reverting, Completing
 <2>2. job' \notin GitReverts \cup PlainReverts /\ job' \notin Baselines BY <1>1, <1>3, KindsApart
 <2> QED BY <1>1, <1>3, <2>1, <2>2, TypesKept DEF Reverting, Completing
<1>5. StateTyped'
 <2>1. WorkersTyped' BY <1>1, <1>3, TypesKept DEF StateTyped, WorkersTyped
 <2> QED BY <1>1, <2>1, SameTyped DEF StateTyped
<1>6. Counted'
 <2> DEFINE one == One(draft # NoJob)
 <2>1. one \in 0..1 /\ One(Completing) = 0 /\ One(Completing') = 1 BY <1>4 DEF One
 <2>2. /\ \A i \in Entries : Checkpoints[i].count <= Recordable - one - 0
       /\ Len(Checkpoints) <= Recordable - one - 0
       /\ draft # NoJob => draft.count <= Recordable - 0
       /\ n <= Recordable - one - 0
       /\ \A count \in DOMAIN refs : count <= Recordable
       /\ D = 0 => draft = NoJob /\ Queued(ingest, "turn.diff.updated") = 0
  BY <1>2, <2>1 DEF ReactorInvariant, Counted
 <2>3. /\ \A i \in Entries : Checkpoints[i].count \in Nat
       /\ Len(Checkpoints) \in Nat
       /\ draft # NoJob => draft.count \in Nat
  BY <1>1, EntriesTyped, KindsApart
 <2> HIDE DEF one
 <2>4. /\ \A i \in Entries : Checkpoints[i].count <= Recordable' - one - 1
       /\ Len(Checkpoints) <= Recordable' - one - 1
       /\ draft # NoJob => draft.count <= Recordable' - 1
       /\ n + 1 <= Recordable' - one
       /\ \A count \in DOMAIN refs : count <= Recordable'
  BY <1>1, <1>2, <2>1, <2>2, <2>3
 <2> QED BY <1>1, <1>3, <1>4, <2>1, <2>2, <2>4 DEF Counted, one
<1>7. RepliesInOrder' BY <1>1, <1>4 DEF RepliesInOrder, ReactorInvariant, One
<1>8. Linked'
 <2>1. \A i \in Entries : /\ Checkpoints[i].ref \in {Provisional, Checkpoints[i].count}
                          /\ Checkpoints[i].ref \in DOMAIN refs \cup {Provisional} \cup lost
  BY <1>4 DEF Linked, ReactorInvariant
 <2>2. \A i \in Entries : Checkpoints[i].ref # job'.count
  <3>1. Provisional \notin Nat BY ReactorAssumption
  <3>2. \A i \in Entries : Checkpoints[i].count \in Nat BY <1>1, EntriesTyped
  <3> QED BY <1>2, <1>3, <2>1, <3>1, <3>2
 <2> QED BY <1>1, <1>3, <1>4, <2>1, <2>2 DEF Linked
<1>9. InOrder'
 <2>1. ASSUME Orderable
     PROVE  Fits(event.turn, n + 1)
  <3>1. \A i \in Entries : Checkpoints[i].turn # event.turn BY DEF Range, Checkpoints, Entries
  <3>2. {i \in Entries : Checkpoints[i].turn # event.turn} = Entries BY <3>1
  <3>3. Entries = 1..Len(Checkpoints) /\ Len(Checkpoints) \in Nat BY <1>1, EntriesTyped
  <3>4. n + 1 \in NthCount(Len(Checkpoints) + 1) BY <1>2, <2>1, <3>3 DEF NthCount
  <3>5. Len(Checkpoints) \in 0..Len(Checkpoints) BY <3>3
  <3> QED BY <3>2, <3>3, <3>4, <3>5 DEF Fits
 <2>2. /\ \A turn, count : Fits(turn, count)' <=> Fits(turn, count)
       /\ \A k : NthCount(k)' = NthCount(k)
       /\ Orderable' <=> Orderable
  BY <1>1, FitsKept
 <2> QED BY <1>1, <1>3, <1>4, <2>1, <2>2 DEF InOrder, ReactorInvariant
<1>10. Patiently'
 <2> SUFFICES ASSUME setting'.patient
     PROVE  OneAtATime' /\ Separated' /\ Undone'
  BY DEF Patiently
 <2>1. setting.patient /\ OneAtATime /\ Separated BY <1>1 DEF ReactorInvariant, Patiently
 <2>2. OneAtATime'
  <3>1. draft' # NoJob => draft'.turn = turns /\ draft = draft' BY <1>1, <2>1 DEF OneAtATime
  <3>2. job'.turn = turns BY <1>3, <2>1
  <3> QED BY <1>1, <1>4, <2>1, <3>1, <3>2, OneAtATimeKept
 <2>3. Separated' BY <1>1, <2>1, TypedFacts, SeparatedKept
 <2> QED BY <1>4, <2>2, <2>3 DEF Undone
<1> QED BY <1>5, <1>6, <1>7, <1>8, <1>9, <1>10 DEF ReactorInvariant

LEMMA TakeRuntimeKeeps ==
  ASSUME ReactorInvariant, TakeRuntime PROVE ReactorInvariant'
<1> DEFINE event == Head(runtime)
           completed == "turn.completed"
<1>1. /\ StateTyped /\ job = NoJob /\ runtime # << >> /\ runtime' = Tail(runtime)
      /\ job' = CASE event.type = "turn.started" -> Baseline
                  [] event.type = completed -> Capture(event)
      /\ UNCHANGED <<setting, thread, domain, ingest, draft, files, refs, lost, provider, requests,
                     turns, asked, replies, faults, diffs>>
      /\ runtime \in Seq(Lifecycle)
 BY TypedFacts DEF ReactorInvariant, TakeRuntime, Rest, user
<1>2. event \in Lifecycle /\ event = runtime[1] /\ 1 \in 1..Len(runtime)
      /\ runtime' \in Seq(Lifecycle)
      /\ \A i \in 1..Len(runtime') : \E k \in 1..Len(runtime) : runtime'[i] = runtime[k]
 BY <1>1, TailIs
<1>3. event.turn \in TurnIds /\ event.type \in {"turn.started", completed} BY <1>2 DEF Lifecycle
<1>4. QueuesTyped' BY <1>1, <1>2, TypesKept DEF StateTyped, QueuesTyped, TurnStarts, Exits
<1>5. Queued(runtime, completed) = Queued(runtime', completed) + One(event.type = completed)
      /\ Queued(runtime', completed) \in Nat
 <2>1. Queued(runtime, completed) = Queued(Tail(runtime), completed) + One(event.type = completed)
  BY <1>1, QueuedTail
 <2>2. Queued(runtime', completed) \in Nat BY <1>2, QueuedSome
 <2> QED BY <1>1, <2>1, <2>2
<1> HIDE DEF event
<1>6. Recordable' = Recordable + One(event.type = completed) /\ Recordable \in Int
 <2> DEFINE all == (1 + D) * (turns - Len(requests))
            rest == IF provider.active = NoTurn THEN 0 ELSE 1 + D - diffs
            d == Queued(ingest, "turn.diff.updated")
            one == One(event.type = completed)
 <2>1. all \in Int /\ rest \in Nat /\ d \in Nat /\ one \in Int
  <3>1. /\ 1 + D \in Int /\ turns - Len(requests) \in Int /\ diffs \in 0..D /\ D \in Nat
        /\ d \in Nat
   BY <1>1, TypedFacts
  <3> QED BY <3>1 DEF One
 <2>2. /\ Due = Queued(runtime, completed) + d + rest
       /\ Due' = Queued(runtime', completed) + d + rest
       /\ Recordable = all - Due /\ Recordable' = all - Due'
  BY <1>1, TypesKept DEF Due, Recordable
 <2> HIDE DEF all, rest, d, one, completed
 <2> QED BY <1>5, <2>1, <2>2 DEF one
<1>7. setting.patient => event.turn = turns
 BY <1>1, <1>2 DEF ReactorInvariant, Patiently, OneAtATime
<1>8. CASE job' \in {Baseline, NoJob}
 <2>1. Recordable' \in Int /\ Recordable <= Recordable' BY <1>6 DEF One
 <2> QED BY <1>1, <1>2, <1>4, <1>8, <2>1, BaselineKeeps
<1>9. CASE job' \notin {Baseline, NoJob}
 <2>1. event.type = completed /\ job' = Capture(event) BY <1>1, <1>3, <1>9
 <2>2. /\ ~ \E c \in Range(thread.checkpoints) : c.turn = event.turn
       /\ job' = [step |-> "capture", count |-> CurrentTurnCount + 1, turn |-> event.turn,
                  status |-> CheckpointStatus(event.state)]
  BY <1>9, <2>1 DEF Capture
 <2>3. Recordable' = Recordable + 1 BY <1>6, <2>1 DEF One
 <2> QED BY <1>1, <1>2, <1>3, <1>4, <1>7, <2>2, <2>3, CaptureKeeps
<1> QED BY <1>8, <1>9

LEMMA CaptureRefKeeps ==
  ASSUME ReactorInvariant, CaptureRef PROVE ReactorInvariant'
<1>1. /\ StateTyped /\ setting \in Settings /\ ThreadTyped(thread) /\ Recordable \in Int
      /\ draft \in Drafts \cup {NoJob} /\ DOMAIN refs \subseteq Nat
      /\ job # NoJob /\ job.step = "capture" /\ refs' = Saved(refs, job.count)
      /\ job' = IF job.turn = NoTurn THEN NoJob ELSE [job EXCEPT !.step = "record"]
      /\ lost' = IF job.turn = NoTurn THEN lost ELSE lost \ {job.count}
      /\ UNCHANGED <<setting, thread, domain, runtime, ingest, draft, files, provider, requests,
                     turns, asked, replies, faults, diffs>>
      /\ Checkpoints' = Checkpoints /\ Entries' = Entries
 BY TypedFacts, SameTyped DEF ReactorInvariant, CaptureRef, Rest, user, Checkpoints, Entries
<1>2. job \in Baselines \/ (job \in Completions /\ job.turn # NoTurn)
 BY <1>1, KindsApart DEF StateTyped, WorkersTyped
<1>3. ~Reverting /\ job.count \in Nat /\ (job \in Baselines <=> ~Completing)
 BY <1>1, <1>2, KindsApart DEF Reverting, Completing
<1>4. \/ job \in Baselines /\ job' = NoJob /\ lost' = lost
      \/ Completing /\ job' \in Completions /\ job'.step = "record" /\ lost' = lost \ {job.count}
           /\ job'.turn = job.turn /\ job'.count = job.count
 <2>1. CASE job \in Baselines BY <1>1, <2>1, KindsApart
 <2>2. CASE job \in Completions /\ job.turn # NoTurn
  <3>1. job' = [job EXCEPT !.step = "record"] /\ lost' = lost \ {job.count} BY <1>1, <2>2
  <3> QED BY <2>2, <3>1 DEF Completions, Completing
 <2> QED BY <1>2, <2>1, <2>2
<1>5. ~Reverting' /\ job' \notin Baselines /\ (Completing' <=> Completing)
 <2>1. job' \notin GitReverts \cup PlainReverts /\ job' \notin Baselines
       /\ (job' \in Completions <=> Completing)
  BY <1>1, <1>3, <1>4, KindsApart
 <2> QED BY <1>1, <2>1, TypesKept DEF Reverting, Completing
<1>6. /\ DOMAIN refs' = DOMAIN refs \cup {job.count} /\ refs'[job.count] = files
      /\ \A count \in DOMAIN refs : count # job.count => refs'[count] = refs[count]
 BY <1>1 DEF Saved
<1>7. StateTyped'
 <2>1. WorkersTyped' BY <1>1, <1>4, TypesKept DEF StateTyped, WorkersTyped
 <2>2. FilesTyped'
  <3>1. /\ files \subseteq 1..turns
        /\ \A count \in DOMAIN refs : refs[count] \subseteq 1..turns
        /\ lost \subseteq Nat \cup {Provisional}
   BY <1>1 DEF StateTyped, FilesTyped
  <3>2. lost' \subseteq lost BY <1>4
  <3> QED BY <1>1, <1>3, <1>6, <3>1, <3>2 DEF FilesTyped
 <2> QED BY <1>1, <2>1, <2>2, SameTyped DEF StateTyped
<1>8. Recordable' = Recordable /\ job.count <= Recordable
 <2>1. Recordable' = Recordable BY <1>1, SameDue
 <2>2. job \in Baselines => job.count <= Recordable BY DEF ReactorInvariant, Counted
 <2>3. Completing => job.count <= Recordable - One(draft # NoJob) BY DEF ReactorInvariant, Counted
 <2> QED BY <1>1, <1>3, <2>1, <2>2, <2>3 DEF One
<1>9. Counted'
 <2>1. D = 0 => Queued(ingest', "turn.diff.updated") = 0 BY <1>1 DEF ReactorInvariant, Counted
 <2>2. Recordable' \in Int /\ Recordable <= Recordable' BY <1>1, <1>8
 <2>3. \A count \in DOMAIN refs' \ DOMAIN refs : count <= Recordable' BY <1>6, <1>8
 <2>4. Completing' => Completing /\ job'.count = job.count BY <1>3, <1>4, <1>5
 <2> QED BY <1>1, <1>3, <1>5, <2>1, <2>2, <2>3, <2>4, CountedKept DEF ReactorInvariant
<1>10. RepliesInOrder' BY <1>1, <1>3, <1>5 DEF RepliesInOrder, ReactorInvariant, One
<1>11. \A i \in Entries : Checkpoints[i].ref # job.count \/ job.count \in lost'
 BY <1>1, <1>3, <1>4 DEF ReactorInvariant, Linked
<1>12. Linked'
 <2>1. \A i \in Entries : /\ Checkpoints[i].ref \in {Provisional, Checkpoints[i].count}
                          /\ Checkpoints[i].ref \in DOMAIN refs \cup {Provisional} \cup lost
  BY <1>3 DEF Linked, ReactorInvariant
 <2>2. Completing' => job'.step = "record" /\ job'.count \in DOMAIN refs'
  BY <1>3, <1>4, <1>5, <1>6
 <2>3. DOMAIN refs \cup lost \subseteq DOMAIN refs' \cup lost' BY <1>4, <1>6
 <2> QED BY <1>1, <1>5, <2>1, <2>2, <2>3 DEF Linked
<1>13. InOrder' BY <1>1, <1>3, <1>4, <1>5, InOrderKept DEF ReactorInvariant
<1>14. Patiently'
 <2> SUFFICES ASSUME setting'.patient
     PROVE  OneAtATime' /\ Separated' /\ Undone'
  BY DEF Patiently
 <2>1. setting.patient /\ OneAtATime /\ Separated BY <1>1 DEF ReactorInvariant, Patiently
 <2>2. OneAtATime'
  <3>1. draft' # NoJob => draft'.turn = turns /\ draft = draft' BY <1>1, <2>1 DEF OneAtATime
  <3>2. Completing' => job'.turn = turns BY <1>3, <1>4, <1>5, <2>1 DEF OneAtATime
  <3> QED BY <1>1, <1>5, <2>1, <3>1, <3>2, OneAtATimeKept
 <2>3. Separated'
  <3>1. \A i \in Entries : Checkpoints[i].ref \in DOMAIN refs' \ lost' =>
            /\ Checkpoints[i].ref \in DOMAIN refs \ lost
            /\ refs'[Checkpoints[i].ref] = refs[Checkpoints[i].ref]
   BY <1>4, <1>6, <1>11
  <3> QED BY <1>1, <2>1, <3>1, TypedFacts, SeparatedKept
 <2> QED BY <1>5, <2>2, <2>3 DEF Undone
<1> QED BY <1>7, <1>9, <1>10, <1>12, <1>13, <1>14 DEF ReactorInvariant

LEMMA RecordCheckpointKeeps ==
  ASSUME ReactorInvariant, T <= MaxCheckpoints, RecordCheckpoint PROVE ReactorInvariant'
<1> DEFINE entry == [turn |-> job.turn, count |-> job.count, status |-> job.status,
                     assistant |-> 2 * job.turn, ref |-> job.count]
           one == One(draft # NoJob)
<1>1. /\ StateTyped /\ setting' = setting /\ setting \in Settings /\ ThreadTyped(thread)
      /\ job # NoJob /\ job.step = "record" /\ job' = NoJob
      /\ thread' = CompleteTurnDiff(thread, entry)
      /\ UNCHANGED <<domain, runtime, ingest, draft, files, refs, lost, provider, requests, turns, asked,
                     replies, faults, diffs>>
      /\ D \in Nat /\ T \in Nat /\ TurnIds = 1..T /\ turns \in 0..T
      /\ draft \in Drafts \cup {NoJob} /\ DOMAIN refs \subseteq Nat
      /\ Len(requests) \in Nat /\ Due \in Nat
 <2>1. StateTyped /\ setting' = setting BY DEF ReactorInvariant, RecordCheckpoint
 <2>2. thread' = CompleteTurnDiff(thread, entry) BY DEF RecordCheckpoint, Project, ProjectThread
 <2> HIDE DEF entry
 <2>3. DOMAIN refs \subseteq Nat BY <2>1, SameTyped
 <2> QED BY <2>1, <2>2, <2>3, TypedFacts DEF RecordCheckpoint, Rest, user
<1>2. /\ job \in Completions /\ job.turn \in TurnIds /\ job.count \in Nat \ {0}
      /\ job.status \in {"error", "missing", "ready"}
 BY <1>1, KindsApart DEF StateTyped, WorkersTyped
<1>3. entry \in CheckpointType /\ entry.turn = job.turn /\ entry.count = job.count
      /\ entry.ref = job.count
 BY <1>1, <1>2 DEF CheckpointType
<1>4. Completing /\ ~Reverting /\ ~Completing' /\ ~Reverting' /\ job' \notin Baselines
 <2>1. Completing /\ ~Reverting BY <1>1, <1>2, KindsApart DEF Completing, Reverting
 <2>2. job' \notin GitReverts \cup PlainReverts /\ job' \notin Baselines /\ job' \notin Completions
  BY <1>1, KindsApart
 <2> QED BY <1>1, <2>1, <2>2, TypesKept DEF Reverting, Completing
<1>5. setting.patient => OneAtATime /\ Separated /\ job.turn = turns
 BY <1>4 DEF ReactorInvariant, Patiently, OneAtATime
<1>6. Recordable' = Recordable /\ Recordable \in Int BY <1>1, SameDue, TypedFacts
<1>7. /\ one \in 0..1 /\ One(Completing) = 1 /\ One(Completing') = 0 /\ One(draft' # NoJob) = one
      /\ \A i \in Entries : Checkpoints[i].count <= Recordable - one - 1
      /\ Len(Checkpoints) <= Recordable - one - 1
      /\ draft # NoJob => draft.count <= Recordable - 1
      /\ job.count <= Recordable - one
      /\ \A count \in DOMAIN refs : count <= Recordable
      /\ D = 0 => draft = NoJob /\ Queued(ingest, "turn.diff.updated") = 0
 <2>1. one \in 0..1 /\ One(Completing) = 1 /\ One(Completing') = 0 /\ One(draft' # NoJob) = one
  BY <1>1, <1>4 DEF One
 <2> HIDE DEF one
 <2> QED BY <1>4, <2>1 DEF ReactorInvariant, Counted, one
<1> HIDE DEF one
<1>8. Len(Checkpoints) \in Nat /\ \A i \in Entries : Checkpoints[i].count \in Nat
 BY <1>1, EntriesTyped
<1>9. D = 0 => Len(Checkpoints) + 1 <= T
 <2>1. D = 0 => Recordable <= T BY <1>1 DEF Recordable
 <2> QED BY <1>1, <1>6, <1>7, <1>8, <2>1
<1>10. /\ ThreadTyped(thread)'
       /\ Entries' = 1..Len(Checkpoints') /\ Len(Checkpoints') \in Nat
       /\ Len(Checkpoints') <= Len(Checkpoints) + 1
       /\ \A k \in Entries' :
             \/ Checkpoints'[k] = entry
             \/ \E i \in Entries : Checkpoints[i].turn # entry.turn
                                   /\ Checkpoints'[k] = Checkpoints[i]
       /\ Orderable => \A k \in Entries' : Checkpoints'[k].count \in NthCount(k)
       /\ setting.patient =>
             /\ \A k \in Entries' : k <= Checkpoints'[k].turn /\ Checkpoints'[k].turn <= turns
             /\ \A k, l \in Entries' : k < l => Checkpoints'[k].turn < Checkpoints'[l].turn
             /\ \A count : Fits(turns, count) => Fits(turns, count)'
 <2>1. Orderable => Fits(entry.turn, entry.count) BY <1>3, <1>4 DEF ReactorInvariant, InOrder
 <2> HIDE DEF entry
 <2> QED BY <1>1, <1>3, <1>5, <1>9, <2>1, RecordIs
<1> HIDE DEF entry
<1>11. StateTyped'
 <2>1. WorkersTyped' BY <1>1, TypesKept DEF StateTyped, WorkersTyped
 <2> QED BY <1>1, <1>10, <2>1, SameTyped DEF StateTyped
<1>12. Counted'
 <2>1. \A k \in Entries' : Checkpoints'[k].count <= Recordable - one - 0
  <3> TAKE k \in Entries'
  <3>1. CASE Checkpoints'[k] = entry BY <1>2, <1>3, <1>6, <1>7, <3>1
  <3>2. CASE \E i \in Entries : Checkpoints'[k] = Checkpoints[i] BY <1>6, <1>7, <1>8, <3>2
  <3> QED BY <1>10, <3>1, <3>2
 <2>2. Len(Checkpoints') <= Recordable - one - 0 BY <1>6, <1>7, <1>8, <1>10
 <2>3. draft # NoJob => draft.count <= Recordable - 0
  <3>1. draft # NoJob => draft.count \in Nat BY <1>1, KindsApart
  <3> QED BY <1>6, <1>7, <3>1
 <2>4. D' = D BY <1>1, TypesKept
 <2> QED BY <1>1, <1>4, <1>6, <1>7, <2>1, <2>2, <2>3, <2>4 DEF Counted
<1>13. RepliesInOrder' BY <1>1, <1>4 DEF RepliesInOrder, ReactorInvariant, One
<1>14. job.count \in DOMAIN refs /\ Linked BY <1>1, <1>4 DEF ReactorInvariant, Linked
<1>15. Linked'
 <2>1. \A k \in Entries' :
         /\ Checkpoints'[k].ref \in {Provisional, Checkpoints'[k].count}
         /\ Checkpoints'[k].ref \in DOMAIN refs \cup {Provisional} \cup lost
  BY <1>3, <1>4, <1>10, <1>14 DEF Linked
 <2> QED BY <1>1, <1>4, <2>1 DEF Linked
<1>16. InOrder'
 <2>1. /\ \A k : NthCount(k)' = NthCount(k)
       /\ Orderable' <=> Orderable
  BY <1>1, TypesKept DEF NthCount, Orderable
 <2>2. ASSUME Orderable, draft # NoJob
     PROVE  Fits(draft.turn, draft.count)'
  <3>1. setting.patient BY <1>7, <2>2 DEF Orderable
  <3>2. Fits(draft.turn, draft.count) /\ draft.turn = turns
   BY <2>2, <3>1 DEF ReactorInvariant, InOrder, Patiently, OneAtATime
  <3>3. \A count : Fits(turns, count) => Fits(turns, count)' BY <1>10, <3>1
  <3> DEFINE c == draft.count
  <3>4. draft'.count = c /\ draft'.turn = turns' BY <1>1, <3>2
  <3> HIDE DEF c
  <3> QED BY <3>2, <3>3, <3>4 DEF c
 <2> QED BY <1>1, <1>4, <1>10, <2>1, <2>2 DEF InOrder
<1>17. Patiently'
 <2> SUFFICES ASSUME setting'.patient
     PROVE  OneAtATime' /\ Separated' /\ Undone'
  BY DEF Patiently
 <2>1. setting.patient /\ OneAtATime /\ Separated /\ job.turn = turns BY <1>1, <1>5
 <2>2. OneAtATime'
  <3>1. draft' # NoJob => draft'.turn = turns /\ draft = draft' BY <1>1, <2>1 DEF OneAtATime
  <3> QED BY <1>1, <1>4, <2>1, <3>1, OneAtATimeKept
 <2>3. Separated'
  <3>1. refs[job.count] \subseteq 1..turns BY <1>1, <1>14 DEF StateTyped, FilesTyped
  <3>2. \A k \in Entries' : Checkpoints'[k].ref \in DOMAIN refs \ lost =>
            refs[Checkpoints'[k].ref] \subseteq 1..Checkpoints'[k].turn
   BY <1>3, <1>10, <2>1, <3>1 DEF Separated
  <3> QED BY <1>1, <1>10, <2>1, <3>2 DEF Separated
 <2> QED BY <1>4, <2>2, <2>3 DEF Undone
<1> QED BY <1>11, <1>12, <1>13, <1>15, <1>16, <1>17 DEF ReactorInvariant

LEMMA TakeRevertKeeps ==
  ASSUME ReactorInvariant, TakeRevert PROVE ReactorInvariant'
<1> DEFINE Inputs == TurnStarts \cup RevertRequests
           revert == "checkpoint-revert-requested"
           n == Head(domain).turnCount
           failed == Append(replies, "failed")
<1>1. /\ StateTyped /\ setting \in Settings /\ ThreadTyped(thread)
      /\ job = NoJob /\ domain # << >> /\ Head(domain).type = revert
      /\ domain' = Tail(domain)
      /\ \/ Revertible(n) /\ job' = RevertPlan(n) /\ replies' = replies
         \/ job' = NoJob /\ replies' = failed
      /\ UNCHANGED <<setting, thread, runtime, ingest, draft, files, refs, lost, provider, requests,
                     turns, asked, faults, diffs>>
      /\ domain \in Seq(Inputs) /\ Checkpoints' = Checkpoints /\ Entries' = Entries
      /\ Recordable \in Int /\ draft \in Drafts \cup {NoJob} /\ replies \in Seq({"reverted", "failed"})
      /\ T \in Nat
 <2>1. StateTyped BY DEF ReactorInvariant
 <2>2. job = NoJob /\ (IF Revertible(n) THEN job' = RevertPlan(n) /\ replies' = replies
                                        ELSE job' = job /\ replies' = failed)
  BY DEF TakeRevert, Reply
 <2> HIDE DEF n
 <2>3. replies \in Seq({"reverted", "failed"}) BY <2>1 DEF StateTyped, SpentTyped
 <2> QED BY <2>1, <2>2, <2>3, TypedFacts DEF TakeRevert, Rest, user, Checkpoints, Entries
<1>2. Head(domain) \in Inputs /\ domain' \in Seq(Inputs)
 <2> HIDE DEF Inputs
 <2> QED BY <1>1, TailIs
<1>3. n \in 0..T /\ n \in Nat BY <1>1, <1>2 DEF TurnStarts, RevertRequests
<1>4. Queued(domain, revert) = Queued(domain', revert) + 1 /\ Queued(domain', revert) \in Nat
 <2>1. Queued(domain, revert) = Queued(Tail(domain), revert) + One(Head(domain).type = revert)
  BY <1>1, QueuedTail
 <2>2. Queued(domain', revert) \in Nat BY <1>2, QueuedSome
 <2> QED BY <1>1, <2>1, <2>2 DEF One
<1> HIDE DEF n
<1>5. ~Reverting /\ ~Completing BY <1>1, KindsApart DEF Reverting, Completing
<1>6. /\ Entries = 1..Len(Checkpoints) /\ Len(Checkpoints) \in Nat
      /\ \A i \in Entries : /\ Checkpoints[i].count \in Nat
                            /\ Checkpoints[i].ref \in Nat \cup {Provisional}
                            /\ Checkpoints[i].ref \in {Provisional, Checkpoints[i].count}
                            /\ Checkpoints[i].ref \in DOMAIN refs \cup {Provisional} \cup lost
 <2>1. \A i \in Entries : /\ Checkpoints[i].ref \in {Provisional, Checkpoints[i].count}
                          /\ Checkpoints[i].ref \in DOMAIN refs \cup {Provisional} \cup lost
  BY <1>5 DEF Linked, ReactorInvariant
 <2> QED BY <1>1, <2>1, EntriesTyped
<1>7. ASSUME Revertible(n), job' = RevertPlan(n)
    PROVE  /\ job' \in GitReverts \cup PlainReverts /\ job'.turnCount = n
           /\ \A count \in job'.stale : count = Provisional \/ count > n
           /\ job'.step # "complete"
           /\ n > 0 => \/ /\ job'.step = "restore"
                          /\ \E i \in Entries : Checkpoints[i].count = n
                                                /\ Checkpoints[i].ref = job'.target
                       \/ job'.step # "restore" /\ (setting.git => Entries = {})
 <2>1. CASE Checkpoints # << >> /\ setting.git
  <3> DEFINE stale == {c.ref : c \in {d \in Range(Checkpoints) : d.count > n}}
             I == {i \in Entries : Checkpoints[i].count = n}
             target == IF n = 0 THEN 0 ELSE Checkpoints[Min(I)].ref
             rollback == IF CurrentTurnCount > n THEN CurrentTurnCount - n ELSE 0
  <3>1. job' = [step |-> "restore", turnCount |-> n, rollback |-> rollback, stale |-> stale,
                target |-> target]
   BY <1>7, <2>1 DEF RevertPlan, Checkpoints, Entries
  <3>2. /\ CurrentTurnCount \in Nat
        /\ Counts = {Checkpoints[i].count : i \in Entries}
   BY CurrentTurnCountIs DEF ReactorInvariant
  <3>3. n \in Counts \cup {0} BY <1>7, <2>1 DEF Revertible, Checkpoints
  <3>4. n # 0 => Min(I) \in I
   <4>1. I \in SUBSET Entries /\ I \in SUBSET Nat BY <1>6
   <4>2. IsFiniteSet(Entries) BY <1>6, FS_Interval
   <4>3. IsFiniteSet(I)
    <5> HIDE DEF I
    <5> QED BY <4>1, <4>2, FS_Subset
   <4>4. n # 0 => I # {} BY <3>2, <3>3
   <4> HIDE DEF I
   <4> QED BY <4>1, <4>3, <4>4, ExtremesAre
  <3>5. target \in Nat \cup {Provisional}
        /\ (n # 0 => \E i \in Entries : Checkpoints[i].count = n /\ Checkpoints[i].ref = target)
   BY <1>6, <3>4
  <3>6. rollback \in Nat BY <1>3, <3>2
  <3>7. stale \in SUBSET (Nat \cup {Provisional})
        /\ \A count \in stale : count = Provisional \/ count > n
   BY <1>6 DEF Range, Entries
  <3> HIDE DEF stale, target, rollback
  <3>8. job' \in GitReverts BY <1>3, <3>1, <3>5, <3>6, <3>7 DEF GitReverts
  <3> QED BY <1>3, <3>1, <3>5, <3>7, <3>8
 <2>2. CASE ~(Checkpoints # << >> /\ setting.git)
  <3> DEFINE all == Cardinality(UserMessages)
  <3>1. job' = [step |-> "rollback", turnCount |-> n, stale |-> {}, rollback |-> all - n]
   BY <1>7, <2>2 DEF RevertPlan, Checkpoints
  <3>2. n <= all BY <1>7, <2>2 DEF Revertible, Checkpoints
  <3>3. all \in Nat
   <4>1. DOMAIN thread.messages = 1..Len(thread.messages) /\ Len(thread.messages) \in Nat
    BY <1>1 DEF ThreadTyped
   <4>2. \A k \in Nat : IsFiniteSet(1..k) BY FS_Interval
   <4>3. UserMessages \in SUBSET (1..Len(thread.messages)) BY <4>1 DEF UserMessages
   <4>4. IsFiniteSet(UserMessages) BY <4>1, <4>2, <4>3, FS_Subset
   <4> QED BY <4>4, FS_CardinalityType
  <3>4. setting.git => Entries = {} BY <1>6, <2>2 DEF Entries
  <3> HIDE DEF all
  <3>5. job' \in PlainReverts BY <1>3, <3>1, <3>2, <3>3 DEF PlainReverts
  <3> QED BY <3>1, <3>4, <3>5
 <2> QED BY <2>1, <2>2
<1>8. \/ job' = NoJob /\ replies' = failed
      \/ /\ job' \in GitReverts \cup PlainReverts /\ replies' = replies /\ job'.turnCount = n
         /\ \A count \in job'.stale : count = Provisional \/ count > n
         /\ job'.step # "complete"
         /\ n > 0 => \/ /\ job'.step = "restore"
                        /\ \E i \in Entries : Checkpoints[i].count = n
                                              /\ Checkpoints[i].ref = job'.target
                     \/ job'.step # "restore" /\ (setting.git => Entries = {})
 BY <1>1, <1>7
<1>9. /\ ~Completing' /\ job' \notin Baselines
      /\ Reverting' <=> job' # NoJob
 <2>1. job' = NoJob => job' \notin GitReverts \cup PlainReverts /\ job' \notin Completions
                       /\ job' \notin Baselines
  BY <1>1, KindsApart
 <2>2. job' \in GitReverts \cup PlainReverts => job' \notin Completions /\ job' \notin Baselines
                                                /\ job' # NoJob
  BY <1>1, KindsApart
 <2> QED BY <1>1, <1>8, <2>1, <2>2, TypesKept DEF Reverting, Completing
<1>10. StateTyped'
 <2>1. QueuesTyped' BY <1>1, <1>2, TypesKept DEF StateTyped, QueuesTyped, TurnStarts
 <2>2. WorkersTyped' BY <1>1, <1>8, TypesKept DEF StateTyped, WorkersTyped
 <2>3. SpentTyped'
  <3>1. replies \in Seq({"reverted", "failed"}) /\ asked \in 0..setting.reverts
        /\ faults \in 0..setting.faults
   BY <1>1 DEF StateTyped, SpentTyped
  <3>2. failed \in Seq({"reverted", "failed"}) BY <3>1
  <3>3. replies' = failed \/ replies' = replies BY <1>8
  <3> HIDE DEF failed
  <3> QED BY <1>1, <3>1, <3>2, <3>3 DEF SpentTyped
 <2> QED BY <1>1, <2>1, <2>2, <2>3, SameTyped DEF StateTyped
<1>11. Counted'
 <2>1. Recordable' = Recordable BY <1>1, SameDue
 <2>2. D = 0 => Queued(ingest', "turn.diff.updated") = 0 BY <1>1 DEF ReactorInvariant, Counted
 <2>3. DOMAIN refs \subseteq Nat BY <1>1, SameTyped
 <2> QED BY <1>1, <1>5, <1>9, <2>1, <2>2, <2>3, CountedKept DEF ReactorInvariant
<1>12. RepliesInOrder'
 <2>1. asked = Queued(domain, revert) + One(Reverting) + Len(replies) /\ Len(replies) \in Nat
  BY <1>1 DEF ReactorInvariant, RepliesInOrder
 <2>2. One(Reverting) = 0 /\ One(Reverting') + Len(replies') = 1 + Len(replies)
       /\ One(Reverting') \in Nat /\ Len(replies') \in Nat
  <3>1. CASE job' = NoJob /\ replies' = failed BY <1>1, <1>5, <1>9, <3>1 DEF One
  <3>2. CASE job' # NoJob /\ replies' = replies BY <1>1, <1>5, <1>9, <3>2 DEF One
  <3>3. job' \in GitReverts \cup PlainReverts => job' # NoJob BY <1>1, KindsApart
  <3> QED BY <1>8, <3>1, <3>2, <3>3
 <2>3. asked = Queued(domain', revert) + One(Reverting') + Len(replies')
  <3> HIDE DEF revert
  <3> QED BY <1>4, <2>1, <2>2
 <2> QED BY <1>1, <2>3 DEF RepliesInOrder
<1>13. Linked' BY <1>1, <1>6, <1>8, <1>9 DEF Linked
<1>14. InOrder' BY <1>1, <1>9, InOrderKept DEF ReactorInvariant
<1>15. Patiently'
 <2> SUFFICES ASSUME setting'.patient
     PROVE  OneAtATime' /\ Separated' /\ Undone'
  BY DEF Patiently
 <2>1. setting.patient /\ OneAtATime /\ Separated BY <1>1 DEF ReactorInvariant, Patiently
 <2>2. OneAtATime'
  <3>1. draft' # NoJob => draft'.turn = turns /\ draft = draft' BY <1>1, <2>1 DEF OneAtATime
  <3>2. Queued(domain, revert) > 0
   <4> HIDE DEF revert
   <4> QED BY <1>4
  <3> QED BY <1>1, <1>9, <2>1, <3>1, <3>2, OneAtATimeKept
 <2>3. Separated' BY <1>1, <2>1, TypedFacts, SeparatedKept
 <2>4. Undone' BY <1>1, <1>8, <1>9 DEF Undone
 <2> QED BY <2>2, <2>3, <2>4
<1> QED BY <1>10, <1>11, <1>12, <1>13, <1>14, <1>15 DEF ReactorInvariant

(* What a step of a revert leaves alone, up to its event.                     *)
LEMMA RevertingKeeps ==
  ASSUME ReactorInvariant, Reverting,
    UNCHANGED <<setting, thread, domain, runtime, ingest, draft, requests, turns, asked, diffs>>,
    provider'.active = provider.active,
    \/ job' = NoJob
    \/ job' \in GitReverts \cup PlainReverts,
    FilesTyped', ProviderTyped', SpentTyped',
    DOMAIN refs' \subseteq DOMAIN refs, lost \subseteq lost',
    \A count \in DOMAIN refs' : refs'[count] = refs[count],
    RepliesInOrder', Linked', setting.patient => Undone'
  PROVE ReactorInvariant'
<1>1. /\ StateTyped /\ setting \in Settings /\ ThreadTyped(thread) /\ Recordable \in Int
      /\ draft \in Drafts \cup {NoJob} /\ DOMAIN refs \subseteq Nat
      /\ Checkpoints' = Checkpoints /\ Entries' = Entries
      /\ UNCHANGED <<setting, thread, domain, runtime, ingest, draft, requests, turns, asked, diffs>>
 BY TypedFacts, SameTyped DEF ReactorInvariant, Checkpoints, Entries
<1>2. ~Completing /\ ~Completing' /\ job' \notin Baselines
 <2>1. ~Completing BY <1>1, SameTyped
 <2>2. job' \notin Completions /\ job' \notin Baselines BY <1>1, KindsApart
 <2> QED BY <1>1, <2>1, <2>2, TypesKept DEF Completing
<1>3. StateTyped'
 <2>1. WorkersTyped' BY <1>1, TypesKept DEF StateTyped, WorkersTyped
 <2> QED BY <1>1, <2>1, SameTyped DEF StateTyped
<1>4. Counted'
 <2>1. Recordable' = Recordable BY <1>1, TypesKept DEF Recordable, Due
 <2>2. D = 0 => Queued(ingest', "turn.diff.updated") = 0 BY <1>1 DEF ReactorInvariant, Counted
 <2> QED BY <1>1, <1>2, <2>1, <2>2, CountedKept DEF ReactorInvariant
<1>5. InOrder' BY <1>1, <1>2, InOrderKept DEF ReactorInvariant
<1>6. Patiently'
 <2> SUFFICES ASSUME setting'.patient
     PROVE  OneAtATime' /\ Separated' /\ Undone'
  BY DEF Patiently
 <2>1. setting.patient /\ OneAtATime /\ Separated BY <1>1 DEF ReactorInvariant, Patiently
 <2>2. OneAtATime'
  <3>1. draft' # NoJob => draft'.turn = turns /\ draft = draft' BY <1>1, <2>1 DEF OneAtATime
  <3> QED BY <1>1, <1>2, <2>1, <3>1, OneAtATimeKept
 <2>3. Separated'
  <3>1. \A i \in Entries : Checkpoints[i].ref \in DOMAIN refs' \ lost' =>
            /\ Checkpoints[i].ref \in DOMAIN refs \ lost
            /\ refs'[Checkpoints[i].ref] = refs[Checkpoints[i].ref]
   OBVIOUS
  <3> QED BY <1>1, <2>1, <3>1, TypedFacts, SeparatedKept
 <2> QED BY <2>1, <2>2, <2>3
<1> QED BY <1>3, <1>4, <1>5, <1>6 DEF ReactorInvariant

(* The jobs of a revert.                                                      *)
LEMMA RevertJobIs ==
  ASSUME StateTyped, job # NoJob, job.step \notin {"capture", "record"}
  PROVE /\ Reverting /\ setting \in Settings
        /\ job.step = "restore" => job \in GitReverts
        /\ job.step \in {"restore", "rollback", "delete", "complete"}
        /\ job.turnCount \in 0..T /\ job.rollback \in Nat /\ T \in Nat
        /\ \A step \in {"rollback", "delete", "complete"} :
              /\ [job EXCEPT !.step = step] \in GitReverts \cup PlainReverts
              /\ [job EXCEPT !.step = step].step = step
              /\ [job EXCEPT !.step = step].turnCount = job.turnCount
              /\ [job EXCEPT !.step = step].stale = job.stale
<1>1. setting \in Settings /\ T \in Nat BY TypedFacts
<1>2. job \in GitReverts \cup PlainReverts BY <1>1, KindsApart DEF StateTyped, WorkersTyped
<1>3. /\ job.step \in {"restore", "rollback", "delete", "complete"}
      /\ job.turnCount \in 0..T /\ job.rollback \in Nat
 BY <1>1, <1>2, KindsApart
<1>4. job.step = "restore" => job \in GitReverts BY <1>2 DEF PlainReverts
<1>5. ASSUME NEW step \in {"rollback", "delete", "complete"}
    PROVE  /\ [job EXCEPT !.step = step] \in GitReverts \cup PlainReverts
           /\ [job EXCEPT !.step = step].step = step
           /\ [job EXCEPT !.step = step].turnCount = job.turnCount
           /\ [job EXCEPT !.step = step].stale = job.stale
 <2>1. CASE job \in GitReverts BY <2>1 DEF GitReverts
 <2>2. CASE job \in PlainReverts BY <2>2 DEF PlainReverts
 <2> QED BY <1>2, <2>1, <2>2
<1> QED BY <1>1, <1>2, <1>3, <1>4, <1>5 DEF Reverting

LEMMA AnsweredKept ==
  ASSUME StateTyped, RepliesInOrder, Reverting, setting' = setting, asked' = asked, domain' = domain,
    \/ job' \in GitReverts \cup PlainReverts /\ replies' = replies
    \/ /\ job' = NoJob
       /\ \E outcome \in {"reverted", "failed"} : replies' = Append(replies, outcome)
  PROVE RepliesInOrder' /\ (asked' = asked /\ faults' = faults => SpentTyped')
<1> DEFINE revert == "checkpoint-revert-requested"
<1>1. replies \in Seq({"reverted", "failed"}) /\ setting \in Settings
 BY DEF StateTyped, SpentTyped
<1>2. replies' \in Seq({"reverted", "failed"}) BY <1>1
<1>3. NoJob \notin GitReverts \cup PlainReverts BY <1>1, KindsApart
<1> DEFINE before == One(Reverting)
           after == One(Reverting')
           queued == Queued(domain, revert)
<1>4. /\ after + Len(replies') = before + Len(replies) /\ after \in Nat /\ before \in Nat
      /\ Len(replies') \in Nat /\ Len(replies) \in Nat
 <2>1. CASE job' \in GitReverts \cup PlainReverts /\ replies' = replies
  <3>1. Reverting' BY <2>1, TypesKept DEF Reverting
  <3> QED BY <1>1, <2>1, <3>1 DEF One
 <2>2. CASE job' = NoJob /\ \E outcome \in {"reverted", "failed"} : replies' = Append(replies, outcome)
  <3>1. ~Reverting' BY <1>3, <2>2, TypesKept DEF Reverting
  <3>2. Len(replies') = Len(replies) + 1 /\ Len(replies) \in Nat BY <1>1, <2>2
  <3> QED BY <3>1, <3>2 DEF One
 <2> QED BY <2>1, <2>2
<1>5. RepliesInOrder'
 <2>1. asked = queued + before + Len(replies) /\ queued \in Nat BY TypedFacts DEF RepliesInOrder
 <2>2. asked = queued + after + Len(replies')
  <3> HIDE DEF before, after, queued
  <3> QED BY <1>4, <2>1
 <2> QED BY <2>2 DEF RepliesInOrder
<1>6. asked' = asked /\ faults' = faults => SpentTyped' BY <1>2 DEF StateTyped, SpentTyped
<1> QED BY <1>5, <1>6

LEMMA RestoreFilesKeeps ==
  ASSUME ReactorInvariant, RestoreFiles PROVE ReactorInvariant'
<1>1. /\ StateTyped /\ job # NoJob /\ job.step = "restore"
      /\ \/ /\ job.target \in DOMAIN refs \/ job.turnCount = 0
            /\ files' = IF job.target \in DOMAIN refs THEN refs[job.target] ELSE {}
            /\ job' = [job EXCEPT !.step = "rollback"] /\ replies' = replies
         \/ files' = files /\ job' = NoJob /\ replies' = Append(replies, "failed")
      /\ UNCHANGED <<setting, thread, domain, runtime, ingest, draft, refs, lost, provider, requests,
                     turns, asked, faults, diffs>>
      /\ Checkpoints' = Checkpoints /\ Entries' = Entries
 BY DEF ReactorInvariant, RestoreFiles, Reply, Rest, user, Checkpoints, Entries
<1>2. /\ Reverting /\ setting \in Settings /\ job \in GitReverts
      /\ LET next == [job EXCEPT !.step = "rollback"]
         IN  /\ next \in GitReverts \cup PlainReverts /\ next.step = "rollback"
             /\ next.turnCount = job.turnCount /\ next.stale = job.stale
 BY <1>1, RevertJobIs
<1>3. \/ /\ job' = NoJob /\ files' = files /\ ~Reverting'
         /\ replies' = Append(replies, "failed")
      \/ /\ job' \in GitReverts \cup PlainReverts /\ job'.step = "rollback"
         /\ job'.turnCount = job.turnCount /\ job'.stale = job.stale /\ Reverting'
         /\ replies' = replies
         /\ job.target \in DOMAIN refs \/ job.turnCount = 0
         /\ files' = IF job.target \in DOMAIN refs THEN refs[job.target] ELSE {}
 <2>1. NoJob \notin GitReverts \cup PlainReverts BY <1>2, KindsApart
 <2> QED BY <1>1, <1>2, <2>1, TypesKept DEF Reverting
<1>4. FilesTyped'
 <2>1. files \subseteq 1..turns /\ \A count \in DOMAIN refs : refs[count] \subseteq 1..turns
  BY <1>1 DEF StateTyped, FilesTyped
 <2>2. files' \subseteq 1..turns BY <1>3, <2>1
 <2> QED BY <1>1, <2>2 DEF StateTyped, FilesTyped
<1>5. RepliesInOrder' /\ SpentTyped' BY <1>1, <1>2, <1>3, AnsweredKept DEF ReactorInvariant
<1>6. \A i \in Entries : /\ Checkpoints[i].ref \in {Provisional, Checkpoints[i].count}
                         /\ Checkpoints[i].ref \in DOMAIN refs \cup {Provisional} \cup lost
 BY <1>1 DEF Linked, ReactorInvariant
<1>7. ~Completing' /\ job' \notin Baselines
 <2>1. job' \notin Completions /\ job' \notin Baselines BY <1>2, <1>3, KindsApart
 <2> QED BY <1>1, <2>1, TypesKept DEF Completing
<1>8. Linked'
 <2>1. \A count \in job.stale : count = Provisional \/ count > job.turnCount
  BY <1>2 DEF Linked, ReactorInvariant
 <2>2. Reverting' => job'.turnCount = job.turnCount /\ job'.stale = job.stale BY <1>3
 <2> QED BY <1>1, <1>6, <1>7, <2>1, <2>2 DEF Linked
<1>9. ASSUME setting.patient
    PROVE  Undone'
 <2> SUFFICES ASSUME Reverting', job'.turnCount > 0, job'.turnCount \notin lost
     PROVE  job'.step # "restore" /\ \A i \in Entries :
                Checkpoints[i].count > job.turnCount => Checkpoints[i].turn \notin files'
  BY <1>1, <1>3 DEF Undone
 <2>1. /\ job'.step = "rollback" /\ job'.turnCount = job.turnCount
       /\ job.target \in DOMAIN refs \/ job.turnCount = 0
       /\ job.turnCount \notin lost
       /\ files' = IF job.target \in DOMAIN refs THEN refs[job.target] ELSE {}
  BY <1>3
 <2>2. Separated /\ Undone /\ InOrder /\ Orderable
  BY <1>9 DEF ReactorInvariant, Patiently, Orderable
 <2>3. job.turnCount \in Nat /\ D \in Nat BY <1>1, RevertJobIs, TypedFacts
 <2>4. files' = refs[job.target] /\ job.target \in DOMAIN refs /\ job.turnCount > 0 BY <2>1, <2>3
 <2>5. PICK l \in Entries : Checkpoints[l].count = job.turnCount /\ Checkpoints[l].ref = job.target
  BY <1>1, <1>2, <2>1, <2>2, <2>4 DEF Undone
 <2>6. files' \subseteq 1..Checkpoints[l].turn
  <3>1. Provisional \notin DOMAIN refs BY <1>1, ReactorAssumption DEF StateTyped, FilesTyped
  <3>2. job.target \in DOMAIN refs \ lost BY <1>6, <2>1, <2>4, <2>5, <3>1
  <3> QED BY <2>2, <2>4, <2>5, <3>2 DEF Separated
 <2>7. /\ Entries = 1..Len(Checkpoints) /\ Len(Checkpoints) \in Nat
       /\ \A i \in Entries : Checkpoints[i].count \in Nat /\ Checkpoints[i].turn \in Nat
  BY SMTT(30), <1>1, EntriesTyped, TypedFacts
 <2>8. \A i \in Nat : \A count \in NthCount(i) : i <= count /\ count <= i + 1 BY <2>3 DEF NthCount
 <2>9. \A i \in Entries : i \in Nat /\ i <= Checkpoints[i].count /\ Checkpoints[i].count <= i + 1
  <3>1. \A i \in Entries : i \in Nat /\ Checkpoints[i].count \in NthCount(i)
   BY <2>2, <2>7 DEF InOrder
  <3> QED BY <2>8, <3>1
 <2>10. ASSUME NEW i \in Entries, Checkpoints[i].count > job.turnCount
     PROVE  Checkpoints[i].turn \notin files'
  <3>1. l < i BY <2>5, <2>7, <2>9, <2>10
  <3>2. Checkpoints[l].turn < Checkpoints[i].turn BY <2>2, <3>1 DEF Separated
  <3>3. Checkpoints[i].turn \notin 1..Checkpoints[l].turn BY <2>7, <3>2
  <3> QED BY <2>6, <3>3
 <2> QED BY <2>1, <2>10
<1> QED BY <1>1, <1>2, <1>3, <1>4, <1>5, <1>8, <1>9, SameTyped, RevertingKeeps

LEMMA FirstAre ==
  ASSUME NEW S, NEW s \in Seq(S), NEW k \in 0..Len(s) PROVE SubSeq(s, 1, k) \in Seq(S)
<1>1. k \in Nat /\ \A i \in 1..k : i \in 1..Len(s) /\ s[i] \in S OBVIOUS
<1>3. SubSeq(s, 1, k) = [i \in 1..k |-> s[i]] OBVIOUS
<1>4. [i \in 1..k |-> s[i]] \in [1..k -> S] BY <1>1
<1> QED BY <1>1, <1>3, <1>4

LEMMA RollBackKeeps ==
  ASSUME ReactorInvariant, RollBack PROVE ReactorInvariant'
<1> DEFINE next == [job EXCEPT !.step = "delete"]
           kept == SubSeq(provider.turns, 1,
                          Len(provider.turns) - Min({job.rollback, Len(provider.turns)}))
<1>1. /\ StateTyped /\ job # NoJob /\ job.step = "rollback" /\ job' = next
      /\ provider' = IF job.rollback = 0 THEN provider
                     ELSE [provider EXCEPT !.session = TRUE, !.turns = kept,
                                           !.memory = IF setting.forgets THEN Range(kept)
                                                      ELSE provider.memory]
      /\ UNCHANGED <<setting, thread, domain, runtime, ingest, draft, files, refs, lost, requests,
                     turns, asked, replies, faults, diffs>>
      /\ Checkpoints' = Checkpoints /\ Entries' = Entries
 BY DEF ReactorInvariant, RollBack, RolledBack, user, Checkpoints, Entries
<1>2. /\ Reverting /\ setting \in Settings /\ job.rollback \in Nat
      /\ next \in GitReverts \cup PlainReverts /\ next.step = "delete"
      /\ next.turnCount = job.turnCount /\ next.stale = job.stale
 BY <1>1, RevertJobIs
<1> HIDE DEF next
<1>3. Reverting' /\ ~Completing' /\ job' \notin Baselines
 <2>1. job' \notin Completions /\ job' \notin Baselines BY <1>1, <1>2, KindsApart
 <2> QED BY <1>1, <1>2, <2>1, TypesKept DEF Reverting, Completing
<1>4. ProviderTyped' /\ provider'.active = provider.active
 <2>1. /\ provider \in Providers
       /\ provider.active \in 1..turns \cup {NoTurn} /\ diffs \in 0..D
  BY <1>1 DEF StateTyped, ProviderTyped
 <2> DEFINE n == Len(provider.turns)
            m == Min({job.rollback, n})
 <2>2. n \in Nat /\ provider.turns \in Seq(TurnIds) BY <2>1 DEF Providers
 <2>3. m \in {job.rollback, n} /\ m <= n
  <3>1. IsFiniteSet({job.rollback, n})
   <4>1. IsFiniteSet({job.rollback}) /\ {job.rollback, n} = {job.rollback} \cup {n}
    BY FS_Singleton
   <4> QED BY <4>1, FS_AddElement
  <3>2. {job.rollback, n} \in SUBSET Nat BY <1>2, <2>2
  <3> QED BY <3>1, <3>2, ExtremesAre
 <2>4. kept \in Seq(TurnIds)
  <3> HIDE DEF n, m
  <3>1. n - m \in 0..n BY <1>2, <2>2, <2>3
  <3>2. kept = SubSeq(provider.turns, 1, n - m) BY DEF n, m
  <3> DEFINE k == n - m
  <3>3. k \in 0..Len(provider.turns) BY <3>1 DEF n
  <3> HIDE DEF k
  <3>4. SubSeq(provider.turns, 1, k) \in Seq(TurnIds) BY <2>2, <3>3, FirstAre
  <3> QED BY <3>2, <3>4 DEF k
 <2> HIDE DEF kept
 <2>5. Range(kept) \in SUBSET TurnIds BY <2>4 DEF Range
 <2>6. provider' \in Providers /\ provider'.active = provider.active
  BY <1>1, <2>1, <2>4, <2>5 DEF Providers
 <2> QED BY <1>1, <2>1, <2>6, TypesKept DEF ProviderTyped
<1>5. RepliesInOrder' /\ SpentTyped' /\ FilesTyped'
 BY <1>1, <1>2, AnsweredKept, SameTyped DEF ReactorInvariant
<1>6. Linked' BY <1>1, <1>2, <1>3 DEF ReactorInvariant, Linked
<1>7. setting.patient => Undone' BY <1>1, <1>2, <1>3 DEF ReactorInvariant, Patiently, Undone
<1> QED BY <1>1, <1>2, <1>4, <1>5, <1>6, <1>7, RevertingKeeps

LEMMA DeleteRefsKeeps ==
  ASSUME ReactorInvariant, DeleteRefs PROVE ReactorInvariant'
<1> DEFINE next == [job EXCEPT !.step = "complete"]
<1>1. /\ StateTyped /\ job # NoJob /\ job.step = "delete" /\ job' = next
      /\ UNCHANGED <<setting, thread, domain, runtime, ingest, draft, files, lost, provider,
                     requests, turns, asked, replies, diffs>>
      /\ Checkpoints' = Checkpoints /\ Entries' = Entries
 BY DEF ReactorInvariant, DeleteRefs, user, Checkpoints, Entries
<1>2. /\ Reverting /\ setting \in Settings
      /\ next \in GitReverts \cup PlainReverts /\ next.step = "complete"
      /\ next.turnCount = job.turnCount /\ next.stale = job.stale
 BY <1>1, RevertJobIs
<1> HIDE DEF next
<1>3. Reverting' /\ ~Completing' /\ job' \notin Baselines
 <2>1. job' \notin Completions /\ job' \notin Baselines BY <1>1, <1>2, KindsApart
 <2> QED BY <1>1, <1>2, <2>1, TypesKept DEF Reverting, Completing
<1>4. PICK gone \in SUBSET job.stale : refs' = Without(gone) BY DEF DeleteRefs
<1>5. /\ DOMAIN refs' = DOMAIN refs \ gone
      /\ \A count \in DOMAIN refs' : refs'[count] = refs[count]
 BY <1>4 DEF Without
<1>6. FilesTyped' BY <1>1, <1>5 DEF StateTyped, FilesTyped
<1>7. RepliesInOrder' /\ ProviderTyped'
 BY <1>1, <1>2, AnsweredKept, SameTyped DEF ReactorInvariant
<1>8. SpentTyped'
 <2>1. faults' \in 0..setting.faults
  <3>1. faults' = faults \/ (faults < setting.faults /\ faults' = faults + 1) BY DEF DeleteRefs
  <3>2. faults \in 0..setting.faults /\ setting.faults \in Nat
   BY <1>1, <1>2, ReactorAssumption DEF StateTyped, SpentTyped
  <3> QED BY <3>1, <3>2
 <2> QED BY <1>1, <2>1 DEF StateTyped, SpentTyped
<1>9. Linked'
 <2>1. /\ \A i \in Entries :
             /\ Checkpoints[i].ref \in {Provisional, Checkpoints[i].count}
             /\ Checkpoints[i].ref \in DOMAIN refs \cup {Provisional} \cup lost
       /\ \A count \in job.stale : count = Provisional \/ count > job.turnCount
  BY <1>1, <1>2 DEF ReactorInvariant, Linked
 <2>2. \A i \in Entries :
          \/ Checkpoints[i].ref \in DOMAIN refs' \cup {Provisional} \cup lost
          \/ Checkpoints[i].ref \in job.stale
  BY <1>4, <1>5, <2>1
 <2> QED BY <1>1, <1>2, <1>3, <2>1, <2>2 DEF Linked
<1>10. setting.patient => Undone' BY <1>1, <1>2, <1>3 DEF ReactorInvariant, Patiently, Undone
<1> QED BY <1>1, <1>2, <1>5, <1>6, <1>7, <1>8, <1>9, <1>10, RevertingKeeps

LEMMA HandlerFailsKeeps ==
  ASSUME ReactorInvariant, HandlerFails PROVE ReactorInvariant'
<1> DEFINE silent == {"capture", "record"}
<1>1. /\ StateTyped /\ job # NoJob /\ job' = NoJob /\ faults' = faults + 1
      /\ faults < setting.faults
      /\ replies' = IF job.step \in silent THEN replies ELSE Append(replies, "failed")
      /\ UNCHANGED <<setting, thread, domain, runtime, ingest, draft, files, provider,
                     requests, turns, asked, diffs>>
      /\ Checkpoints' = Checkpoints /\ Entries' = Entries /\ setting \in Settings
      /\ ThreadTyped(thread) /\ Recordable \in Int /\ draft \in Drafts \cup {NoJob}
 BY TypedFacts DEF ReactorInvariant, HandlerFails, Reply, user, Checkpoints, Entries
<1>2. ~Completing' /\ ~Reverting' /\ job' \notin Baselines
 <2>1. job' \notin Completions /\ job' \notin Baselines /\ job' \notin GitReverts \cup PlainReverts
  BY <1>1, KindsApart
 <2> QED BY <1>1, <2>1, TypesKept DEF Reverting, Completing
<1>3. SpentTyped'
 <2>1. faults' \in 0..setting.faults
  <3>1. setting.faults \in Nat /\ faults \in Nat
   BY <1>1, ReactorAssumption DEF StateTyped, SpentTyped
  <3> QED BY <1>1, <3>1
 <2>2. replies' \in Seq({"reverted", "failed"}) BY <1>1 DEF StateTyped, SpentTyped
 <2> QED BY <1>1, <2>1, <2>2 DEF StateTyped, SpentTyped
<1>4. PICK gone \in Deleted : refs' = Without(gone) /\ lost' = lost \cup gone BY DEF HandlerFails
<1>5. /\ gone \in SUBSET (Nat \cup {Provisional})
      /\ job.step = "complete" => gone = job.stale \ DOMAIN refs
 <2>1. job.step \in {"delete", "complete"} => job.stale \in SUBSET (Nat \cup {Provisional})
  <3>1. job.step \in {"delete", "complete"} => Reverting BY <1>1, RevertJobIs
  <3> QED BY <1>1, <3>1, KindsApart DEF Reverting
 <2> QED BY <1>4, <2>1 DEF Deleted
<1>6. /\ DOMAIN refs' = DOMAIN refs \ gone
      /\ \A count \in DOMAIN refs' : refs'[count] = refs[count]
 BY <1>4 DEF Without
<1>7. FilesTyped' BY <1>1, <1>4, <1>5, <1>6 DEF StateTyped, FilesTyped
<1>8. Linked'
 <2>1. \A i \in Entries :
          /\ Checkpoints[i].ref \in {Provisional, Checkpoints[i].count}
          /\ \/ Checkpoints[i].ref \in DOMAIN refs \cup {Provisional} \cup lost
             \/ job.step = "complete" /\ Checkpoints[i].ref \in job.stale
  BY DEF ReactorInvariant, Linked
 <2>2. \A i \in Entries : Checkpoints[i].ref \in DOMAIN refs' \cup {Provisional} \cup lost'
  BY <1>4, <1>5, <1>6, <2>1
 <2> QED BY <1>1, <1>2, <2>1, <2>2 DEF Linked
<1>9. CASE job.step \in silent
 <2>1. ~Reverting BY <1>1, <1>9, KindsApart DEF Reverting
 <2>2. StateTyped'
  <3>1. WorkersTyped' BY <1>1, TypesKept DEF StateTyped, WorkersTyped
  <3> QED BY <1>1, <1>3, <1>7, <3>1, SameTyped DEF StateTyped
 <2>3. Counted'
  <3>1. Recordable' = Recordable BY <1>1, SameDue
  <3>2. D = 0 => Queued(ingest', "turn.diff.updated") = 0 BY <1>1 DEF ReactorInvariant, Counted
  <3>3. DOMAIN refs \subseteq Nat /\ (Completing => job.count \in Nat) BY <1>1, SameTyped
  <3> QED BY <1>1, <1>2, <1>6, <3>1, <3>2, <3>3, CountedKept DEF ReactorInvariant
 <2>4. RepliesInOrder' BY <1>1, <1>2, <1>9, <2>1 DEF RepliesInOrder, ReactorInvariant, One
 <2>5. InOrder' BY <1>1, <1>2, InOrderKept DEF ReactorInvariant
 <2>6. Patiently'
  <3> SUFFICES ASSUME setting'.patient PROVE OneAtATime' /\ Separated' /\ Undone' BY DEF Patiently
  <3>1. setting.patient /\ OneAtATime /\ Separated BY <1>1 DEF ReactorInvariant, Patiently
  <3>2. OneAtATime'
   <4>1. draft' # NoJob => draft'.turn = turns /\ draft = draft' BY <1>1, <3>1 DEF OneAtATime
   <4> QED BY <1>1, <1>2, <3>1, <4>1, OneAtATimeKept
  <3>3. Separated'
   <4>1. \A i \in Entries : Checkpoints[i].ref \in DOMAIN refs' \ lost' =>
             /\ Checkpoints[i].ref \in DOMAIN refs \ lost
             /\ refs'[Checkpoints[i].ref] = refs[Checkpoints[i].ref]
    BY <1>4, <1>6
   <4> QED BY <1>1, <3>1, <4>1, TypedFacts, SeparatedKept
  <3> QED BY <1>2, <3>2, <3>3 DEF Undone
 <2> QED BY <1>8, <2>2, <2>3, <2>4, <2>5, <2>6 DEF ReactorInvariant
<1>10. CASE job.step \notin silent
 <2>1. Reverting BY <1>1, <1>10, RevertJobIs
 <2>2. replies' = Append(replies, "failed") BY <1>1, <1>10
 <2>3. RepliesInOrder' BY <1>1, <2>1, <2>2, AnsweredKept DEF ReactorInvariant
 <2>4. ProviderTyped' BY <1>1, SameTyped
 <2>5. Undone' BY <1>2 DEF Undone
 <2> HIDE DEF silent
 <2>6. DOMAIN refs' \subseteq DOMAIN refs /\ lost \subseteq lost' BY <1>4, <1>6
 <2> QED BY <1>1, <1>3, <1>6, <1>7, <1>8, <2>1, <2>3, <2>4, <2>5, <2>6, RevertingKeeps
<1> QED BY <1>9, <1>10

(* Checkpoints whose counts ascend end where a count is passed.               *)
LEMMA InitialIs ==
  ASSUME NEW n \in Nat, NEW I \in SUBSET (1..n),
    \A i, j \in 1..n : i < j /\ j \in I => i \in I
  PROVE \E m \in 0..n : I = 1..m
<1>1. IsFiniteSet(I) /\ I \in SUBSET Nat
 <2>1. IsFiniteSet(1..n) BY FS_Interval
 <2>2. IsFiniteSet(I) BY <2>1, FS_Subset
 <2> QED BY <2>2
<1>2. CASE I = {}
 <2>1. I = 1..0 /\ 0 \in 0..n BY <1>2
 <2> QED BY <2>1
<1>3. CASE I # {}
 <2> DEFINE m == Max(I)
 <2>1. m \in I /\ \A i \in I : i <= m BY <1>1, <1>3, ExtremesAre
 <2> HIDE DEF m
 <2>2. m \in 1..n /\ \A i \in 1..m : i \in I BY <2>1
 <2>4. \A i \in I : i \in 1..m BY <2>1, <2>2
 <2>3. I = 1..m BY <2>2, <2>4
 <2> QED BY <2>2, <2>3
<1> QED BY <1>2, <1>3

LEMMA CompleteRevertKeeps ==
  ASSUME ReactorInvariant, CompleteRevert PROVE ReactorInvariant'
<1> DEFINE n == job.turnCount
           new == Checkpoints'
           two == One(draft # NoJob)
<1>1. /\ StateTyped /\ setting' = setting /\ setting \in Settings /\ ThreadTyped(thread)
      /\ job # NoJob /\ job.step = "complete" /\ job' = NoJob
      /\ thread' = Revert(thread, n) /\ replies' = Append(replies, "reverted")
      /\ UNCHANGED <<domain, runtime, ingest, draft, files, refs, lost, provider, requests, turns, asked,
                     faults, diffs>>
      /\ Recordable \in Int /\ draft \in Drafts \cup {NoJob} /\ DOMAIN refs \subseteq Nat
 <2>1. StateTyped /\ setting' = setting BY DEF ReactorInvariant, CompleteRevert
 <2>2. thread' = Revert(thread, n) BY DEF CompleteRevert, Project, ProjectThread
 <2>3. DOMAIN refs \subseteq Nat BY <2>1, SameTyped
 <2> QED BY <2>1, <2>2, <2>3, TypedFacts DEF CompleteRevert, Reply, Rest, user
<1>2. Reverting /\ n \in Nat BY <1>1, RevertJobIs
<1>3. ~Completing /\ ~Completing' /\ ~Reverting' /\ job' \notin Baselines
 <2>1. ~Completing BY <1>1, <1>2, SameTyped
 <2>2. job' \notin Completions /\ job' \notin Baselines /\ job' \notin GitReverts \cup PlainReverts
  BY <1>1, KindsApart
 <2> QED BY <1>1, <2>1, <2>2, TypesKept DEF Reverting, Completing
<1>4. /\ Entries = 1..Len(Checkpoints) /\ Len(Checkpoints) \in Nat
      /\ \A i \in Entries : Checkpoints[i].count \in Nat
 BY <1>1, EntriesTyped
<1>5. ThreadTyped(thread)' /\ Reverted(Checkpoints, n, new)
 <2>1. ThreadTyped(thread') /\ Reverted(Checkpoints, n, thread'.checkpoints)
  BY <1>1, RevertIs DEF Checkpoints
 <2> QED BY <1>1, <2>1, TypesKept DEF ThreadTyped, Checkpoints
<1>6. Entries' = 1..Len(new) /\ Len(new) \in Nat BY <1>5 DEF ThreadTyped, Checkpoints, Entries
<1> HIDE DEF n, new
<1>7. /\ Len(new) <= Len(Checkpoints)
      /\ \A k \in Entries' : \E i \in Entries : Checkpoints[i].count <= n /\ new[k] = Checkpoints[i]
 BY <1>4, <1>5, <1>6 DEF Reverted
<1>8. Orderable => \A k \in Entries' : k \in Entries /\ new[k] = Checkpoints[k]
 <2> SUFFICES ASSUME Orderable
     PROVE  \A k \in Entries' : k \in Entries /\ new[k] = Checkpoints[k]
  OBVIOUS
 <2> DEFINE I == {i \in Entries : Checkpoints[i].count <= n}
 <2>1. D \in Nat BY <1>1, TypedFacts
 <2>2. \A i \in Nat : \A count \in NthCount(i) : i <= count /\ count <= i + 1 BY <2>1 DEF NthCount
 <2>3. \A i \in Entries : i <= Checkpoints[i].count /\ Checkpoints[i].count <= i + 1
  <3>1. \A i \in Entries : i \in Nat /\ Checkpoints[i].count \in NthCount(i)
   BY <1>4 DEF ReactorInvariant, InOrder
  <3> QED BY <2>2, <3>1
 <2>4. \A i, j \in Entries : i < j /\ j \in I => i \in I BY <1>2, <1>4, <2>3
 <2>5. PICK m \in 0..Len(Checkpoints) : I = 1..m
  <3>1. I \in SUBSET (1..Len(Checkpoints)) BY <1>4
  <3> HIDE DEF I
  <3> QED BY <1>4, <2>4, <3>1, InitialIs
 <2>6. Len(new) = m /\ \A k \in 1..m : new[k] = Checkpoints[k] BY <1>5, <2>5 DEF Reverted, Entries
 <2> QED BY <1>4, <1>6, <2>5, <2>6
<1>9. StateTyped'
 <2>1. WorkersTyped' BY <1>1, TypesKept DEF StateTyped, WorkersTyped
 <2>2. SpentTyped' BY <1>1, <1>2, AnsweredKept DEF ReactorInvariant
 <2> QED BY <1>1, <1>5, <2>1, <2>2, SameTyped DEF StateTyped
<1>10. Counted'
 <2>1. Recordable' = Recordable /\ D' = D BY <1>1, SameDue, TypesKept
 <2>2. /\ One(Completing) = 0 /\ One(Completing') = 0 /\ One(draft' # NoJob) = two /\ two \in Int
  BY <1>1, <1>3 DEF One
 <2>3. /\ \A i \in Entries : Checkpoints[i].count <= Recordable - two - 0
       /\ Len(Checkpoints) <= Recordable - two - 0
       /\ draft # NoJob => draft.count <= Recordable - 0
       /\ \A count \in DOMAIN refs : count <= Recordable
       /\ D = 0 => draft = NoJob /\ Queued(ingest, "turn.diff.updated") = 0
  BY <2>2 DEF ReactorInvariant, Counted
 <2> HIDE DEF two
 <2>4. \A k \in Entries' : new[k].count <= Recordable - two - 0 BY <1>7, <2>3
 <2>5. Len(new) <= Recordable - two - 0 BY <1>1, <1>4, <1>6, <1>7, <2>2, <2>3
 <2> QED BY <1>1, <1>3, <2>1, <2>2, <2>3, <2>4, <2>5 DEF Counted, new
<1>11. RepliesInOrder' BY <1>1, <1>2, AnsweredKept DEF ReactorInvariant
<1>12. Linked'
 <2>1. \A i \in Entries :
         /\ Checkpoints[i].ref \in {Provisional, Checkpoints[i].count}
         /\ Checkpoints[i].ref \in DOMAIN refs \cup {Provisional} \cup lost
              \/ Checkpoints[i].count > n
  BY <1>2 DEF ReactorInvariant, Linked, n
 <2>2. \A k \in Entries' :
         /\ new[k].ref \in {Provisional, new[k].count}
         /\ new[k].ref \in DOMAIN refs \cup {Provisional} \cup lost
  <3>1. \A i \in Entries : Checkpoints[i].count <= n => ~(Checkpoints[i].count > n) BY <1>2, <1>4
  <3> QED BY <1>7, <2>1, <3>1
 <2> QED BY <1>1, <1>3, <2>2 DEF Linked, new
<1>13. InOrder'
 <2>1. /\ \A k : NthCount(k)' = NthCount(k)
       /\ Orderable' <=> Orderable
  BY <1>1, TypesKept DEF NthCount, Orderable
 <2>2. Orderable => draft = NoJob
  <3>1. D = 0 => draft = NoJob BY DEF ReactorInvariant, Counted
  <3>2. setting.patient => draft = NoJob BY <1>2 DEF ReactorInvariant, Patiently, OneAtATime
  <3> QED BY <3>1, <3>2 DEF Orderable
 <2>3. Orderable => \A k \in Entries' : new[k].count \in NthCount(k)
  BY <1>8 DEF ReactorInvariant, InOrder
 <2> QED BY <1>1, <1>3, <2>1, <2>2, <2>3 DEF InOrder, new
<1>14. Patiently'
 <2> SUFFICES ASSUME setting'.patient
     PROVE  OneAtATime' /\ Separated' /\ Undone'
  BY DEF Patiently
 <2>1. setting.patient /\ OneAtATime /\ Separated /\ Orderable
  BY <1>1 DEF ReactorInvariant, Patiently, Orderable
 <2>2. OneAtATime'
  <3>1. draft' # NoJob => draft'.turn = turns /\ draft = draft' BY <1>1, <2>1 DEF OneAtATime
  <3> QED BY <1>1, <1>3, <2>1, <3>1, OneAtATimeKept
 <2>3. Separated'
  <3>1. \A k \in Entries' : k \in Entries /\ new[k] = Checkpoints[k] BY <1>8, <2>1
  <3> QED BY <1>1, <2>1, <3>1 DEF Separated, new
 <2> QED BY <1>3, <2>2, <2>3 DEF Undone
<1> QED BY <1>9, <1>10, <1>11, <1>12, <1>13, <1>14 DEF ReactorInvariant

--------------------
(* The invariant holds, and what follows of it.                             *)
LEMMA InitialKeeps ==
  ASSUME ReactorInit PROVE ReactorInvariant
<1>1. /\ setting \in Settings /\ thread.messages = << >> /\ thread.checkpoints = << >>
      /\ {"session", "latestTurn", "messages", "plans", "activities", "checkpoints"}
            \subseteq DOMAIN thread
      /\ domain = << >> /\ runtime = << >> /\ ingest = << >> /\ draft = NoJob /\ job = NoJob
      /\ files = {} /\ refs = [count \in {} |-> {}] /\ lost = {}
      /\ provider = [session |-> TRUE, active |-> NoTurn, turns |-> << >>, memory |-> {}]
      /\ requests = << >> /\ turns = 0 /\ asked = 0 /\ replies = << >> /\ faults = 0 /\ diffs = 0
 BY DEF ReactorInit, NewThread
<1>2. /\ Checkpoints = << >> /\ Entries = {} /\ T \in Nat /\ D \in Nat
      /\ {setting.reverts, setting.faults} \subseteq Nat
      /\ ~Reverting /\ ~Completing /\ job \notin Baselines
      /\ \A type : Queued(domain, type) = 0 /\ Queued(runtime, type) = 0 /\ Queued(ingest, type) = 0
 <2>1. ~Reverting /\ ~Completing /\ job \notin Baselines
  BY <1>1, KindsApart DEF Reverting, Completing
 <2>2. Checkpoints = << >> /\ Entries = {} BY <1>1 DEF Checkpoints, Entries
 <2>3. T \in Nat /\ D \in Nat /\ {setting.reverts, setting.faults} \subseteq Nat
  BY <1>1, ReactorAssumption DEF T, D
 <2> QED BY <1>1, <2>1, <2>2, <2>3, QueuedNone
<1>3. StateTyped
 <2>1. ThreadTyped(thread) BY <1>1 DEF ThreadTyped
 <2>2. QueuesTyped /\ WorkersTyped /\ FilesTyped BY <1>1 DEF QueuesTyped, WorkersTyped, FilesTyped
 <2>3. RequestsTyped BY <1>1, <1>2 DEF RequestsTyped
 <2>4. ProviderTyped BY <1>1, <1>2 DEF ProviderTyped, Providers
 <2>5. SpentTyped BY <1>1, <1>2 DEF SpentTyped
 <2> QED BY <1>1, <2>1, <2>2, <2>3, <2>4, <2>5 DEF StateTyped
<1>4. Counted
 <2>1. Recordable = 0
  <3>1. Due = 0 BY <1>1, <1>2 DEF Due
  <3>2. turns - Len(requests) = 0
   <4>1. requests = << >> /\ turns = 0 BY <1>1
   <4>2. Len(requests) = 0 BY <4>1
   <4>3. turns \in Int /\ Len(requests) \in Int BY <4>1, <4>2
   <4> QED BY <4>2, <4>3, <4>1
  <3>3. (1 + D) * 0 = 0 BY <1>2
  <3> QED BY <3>1, <3>2, <3>3 DEF Recordable
 <2>2. One(draft # NoJob) = 0 /\ One(Completing) = 0 BY <1>1, <1>2 DEF One
 <2>3. DOMAIN refs = {} BY <1>1
 <2> QED BY <1>1, <1>2, <2>1, <2>2, <2>3 DEF Counted
<1>5. RepliesInOrder BY <1>1, <1>2 DEF RepliesInOrder, One
<1>6. Linked BY <1>2 DEF Linked
<1>7. InOrder BY <1>1, <1>2 DEF InOrder
<1>8. Patiently
 <2>1. OneAtATime BY <1>1, <1>2 DEF OneAtATime
 <2>2. Separated BY <1>2 DEF Separated
 <2>3. Undone BY <1>2 DEF Undone
 <2> QED BY <2>1, <2>2, <2>3 DEF Patiently
<1> QED BY <1>3, <1>4, <1>5, <1>6, <1>7, <1>8 DEF ReactorInvariant

LEMMA StutterKeeps ==
  ASSUME ReactorInvariant, UNCHANGED reactorVars PROVE ReactorInvariant'
<1>1. /\ StateTyped /\ setting \in Settings /\ ThreadTyped(thread)
      /\ UNCHANGED <<setting, thread, domain, runtime, ingest, draft, job, files, refs, lost, provider,
                     requests, turns, asked, replies, faults, diffs>>
      /\ Checkpoints' = Checkpoints /\ Entries' = Entries
      /\ (Reverting' <=> Reverting) /\ (Completing' <=> Completing)
 BY TypedFacts, SameTyped DEF ReactorInvariant, reactorVars, Checkpoints, Entries
<1>2. StateTyped' BY <1>1, SameTyped DEF StateTyped
<1>3. Counted'
 <2>1. Recordable' = Recordable /\ Recordable \in Int BY <1>1, SameDue, TypedFacts
 <2>2. D = 0 => Queued(ingest', "turn.diff.updated") = 0 BY <1>1 DEF ReactorInvariant, Counted
 <2> QED BY <1>1, <2>1, <2>2, CountedByOthers DEF ReactorInvariant
<1>4. RepliesInOrder' BY <1>1 DEF RepliesInOrder, ReactorInvariant, One
<1>5. Linked' BY <1>1, LinkedKept DEF ReactorInvariant
<1>6. InOrder' BY <1>1, InOrderKept DEF ReactorInvariant
<1>7. Patiently'
 <2> SUFFICES ASSUME setting'.patient
     PROVE  OneAtATime' /\ Separated' /\ Undone'
  BY DEF Patiently
 <2>1. setting.patient /\ OneAtATime /\ Separated /\ Undone
  BY <1>1 DEF ReactorInvariant, Patiently
 <2>2. OneAtATime' BY <1>1, <2>1 DEF OneAtATime
 <2>3. Separated' BY <1>1, <2>1, TypedFacts, SeparatedKept
 <2>4. Undone' BY <1>1, <2>1 DEF Undone
 <2> QED BY <2>2, <2>3, <2>4
<1> QED BY <1>2, <1>3, <1>4, <1>5, <1>6, <1>7 DEF ReactorInvariant

\* No more turns are requested than checkpoints are kept (MAX_THREAD_CHECKPOINTS
\* of projector.ts), so that none is dropped for its age.
WithinCap == \A s \in Settings : s.turns <= MaxCheckpoints

LEMMA ReactorStepKeeps ==
  ASSUME WithinCap, ReactorInvariant, [ReactorNext]_reactorVars PROVE ReactorInvariant'
<1>1. T <= MaxCheckpoints BY TypedFacts DEF WithinCap, ReactorInvariant, T
<1>2. CASE Environment
 BY <1>2, RequestTurnKeeps, RequestRevertKeeps, StartTurnKeeps, AgentWritesKeeps, ReportDiffKeeps,
    CompleteTurnKeeps, LoseSessionKeeps DEF Environment
<1>3. CASE Ingest
 BY <1>1, <1>3, IngestLifecycleKeeps, IngestDiffKeeps, RecordDraftKeeps DEF Ingest
<1>4. CASE Work
 BY <1>1, <1>4, TakeRuntimeKeeps, TakeTurnStartKeeps, TakeRevertKeeps, CaptureRefKeeps,
    RecordCheckpointKeeps, RestoreFilesKeeps, RollBackKeeps, DeleteRefsKeeps, CompleteRevertKeeps,
    HandlerFailsKeeps DEF Work
<1>5. CASE UNCHANGED reactorVars BY <1>5, StutterKeeps
<1> QED BY <1>2, <1>3, <1>4, <1>5 DEF ReactorNext

(* A greater count is later, and of a later turn.                             *)
LEMMA LaterIs ==
  ASSUME ReactorInvariant, setting.patient,
    NEW i \in Entries, NEW j \in Entries, Checkpoints[i].count < Checkpoints[j].count
  PROVE /\ Checkpoints[i].turn < Checkpoints[j].turn
        /\ Checkpoints[i].turn \in Nat /\ Checkpoints[j].turn \in Nat
<1>1. /\ Entries = 1..Len(Checkpoints) /\ Len(Checkpoints) \in Nat /\ D \in Nat
      /\ \A k \in Entries : Checkpoints[k].count \in Nat /\ Checkpoints[k].turn \in Nat
 <2>1. StateTyped BY DEF ReactorInvariant
 <2>2. D \in Nat /\ ThreadTyped(thread) BY <2>1, TypedFacts
 <2>3. /\ Entries = 1..Len(Checkpoints) /\ Len(Checkpoints) \in Nat
       /\ \A k \in Entries : Checkpoints[k].count \in Nat /\ Checkpoints[k].turn \in TurnIds
  BY <2>2, EntriesTyped
 <2>4. TurnIds \subseteq Nat BY DEF TurnIds
 <2> QED BY <2>2, <2>3, <2>4
<1>2. \A k \in Nat : \A count \in NthCount(k) : k <= count /\ count <= k + 1
 <2> SUFFICES ASSUME NEW k \in Nat, NEW count \in NthCount(k)
     PROVE  k <= count /\ count <= k + 1
  OBVIOUS
 <2>1. count = k \/ count = k + 1 BY Zenon DEF NthCount
 <2> QED BY <2>1
<1>3. \A k \in Entries : k \in Nat /\ Checkpoints[k].count \in NthCount(k)
 BY <1>1 DEF ReactorInvariant, InOrder, Orderable
<1>4. i < j BY <1>1, <1>2, <1>3
<1> QED BY <1>1, <1>4 DEF ReactorInvariant, Patiently, Separated

LEMMA InvariantImpliesTypes ==
  ASSUME ReactorInvariant PROVE ReactorTypeOK
<1>1. /\ StateTyped /\ T \in Nat /\ D \in Nat /\ TurnIds = 1..T /\ turns \in 0..T
      /\ Len(requests) \in 0..turns /\ Due \in Nat /\ setting \in Settings
 BY TypedFacts DEF ReactorInvariant
<1>2. \A c \in Range(thread.checkpoints) :
         c.turn \in TurnIds /\ c.count \in Nat \ {0} /\ c.ref \in Nat \cup {Provisional}
 BY <1>1, EntriesTyped DEF StateTyped, Range, Checkpoints, Entries
<1>3. /\ files \subseteq 1..turns /\ DOMAIN refs \subseteq Nat
      /\ \A count \in DOMAIN refs : refs[count] \subseteq 1..turns
 BY <1>1 DEF StateTyped, FilesTyped
<1>4. 1..turns \subseteq TurnIds BY <1>1
<1>5. \A count \in DOMAIN refs : count \in 0..T * (1 + D)
 <2>1. \A a, b, c \in Nat : b <= c => a * b <= c * a /\ a * b \in Nat /\ c * a \in Nat
  <3> SUFFICES ASSUME NEW a \in Nat, NEW b \in Nat, NEW c \in Nat, b <= c
      PROVE  a * b <= c * a /\ a * b \in Nat /\ c * a \in Nat
   OBVIOUS
  <3>1. c = b + (c - b) /\ c - b \in Nat OBVIOUS
  <3> DEFINE d == c - b
  <3>2. c * a = a * b + a * d BY <3>1
  <3>3. a * d \in Nat /\ a * b \in Nat BY <3>1
  <3> HIDE DEF d
  <3> QED BY <3>2, <3>3
 <2>2. 1 + D \in Nat /\ turns - Len(requests) \in Nat /\ turns - Len(requests) <= T BY <1>1
 <2>3. /\ (1 + D) * (turns - Len(requests)) <= T * (1 + D)
       /\ (1 + D) * (turns - Len(requests)) \in Nat /\ T * (1 + D) \in Nat
  BY <1>1, <2>1, <2>2
 <2>4. \A count \in DOMAIN refs : count <= (1 + D) * (turns - Len(requests)) - Due
  BY DEF ReactorInvariant, Counted, Recordable
 <2> DEFINE most == T * (1 + D)
            all == (1 + D) * (turns - Len(requests))
 <2> HIDE DEF most, all
 <2>5. all <= most /\ all \in Nat /\ most \in Nat /\ \A count \in DOMAIN refs : count <= all - Due
  BY <2>3, <2>4 DEF most, all
 <2>6. \A count \in DOMAIN refs : count \in 0..most BY <1>1, <1>3, <2>5
 <2> QED BY <2>6 DEF most
<1>6. /\ provider \in Providers
      /\ provider.session \in BOOLEAN /\ provider.active \in TurnIds \cup {NoTurn}
      /\ Range(provider.turns) \cup provider.memory \subseteq TurnIds
 BY <1>1 DEF StateTyped, ProviderTyped, Providers, Range
<1>7. job # NoJob => job.step \in Steps BY <1>1, KindsApart DEF StateTyped, WorkersTyped, Steps
<1>8. Len(replies) <= asked /\ asked <= setting.reverts /\ faults <= setting.faults
 <2>1. /\ asked = Queued(domain, "checkpoint-revert-requested") + One(Reverting) + Len(replies)
       /\ Queued(domain, "checkpoint-revert-requested") \in Nat /\ One(Reverting) \in Nat
       /\ Len(replies) \in Nat
  BY <1>1, TypedFacts DEF ReactorInvariant, RepliesInOrder, One, StateTyped, SpentTyped
 <2>2. Len(replies) <= asked BY <2>1
 <2> QED BY <1>1, <2>2, ReactorAssumption DEF StateTyped, SpentTyped
<1> QED BY <1>1, <1>2, <1>3, <1>4, <1>5, <1>6, <1>7, <1>8 DEF ReactorTypeOK, T, D

LEMMA InvariantImpliesSound ==
  ASSUME ReactorInvariant PROVE CheckpointsSound
<1>1. /\ Entries = 1..Len(Checkpoints) /\ Len(Checkpoints) \in Nat /\ setting \in Settings
      /\ StateTyped /\ Range(thread.checkpoints) = {Checkpoints[i] : i \in Entries}
 BY EntriesTyped, TypedFacts DEF ReactorInvariant, Range, Checkpoints, Entries
<1>2. ReactorTypeOK BY InvariantImpliesTypes
<1>3. CountsContiguous
 <2> SUFFICES ASSUME setting.diffs = 0
     PROVE  Counts = 1..Len(thread.checkpoints)
  BY DEF CountsContiguous
 <2>1. \A i \in Entries : Checkpoints[i].count = i
  BY DEF ReactorInvariant, InOrder, Orderable, NthCount, D
 <2> QED BY <1>1, <2>1 DEF Counts, Checkpoints
<1>4. CheckpointsRestorable
 <2>1. ASSUME NEW i \in Entries
     PROVE  \/ Checkpoints[i].ref \in DOMAIN refs \cup {Provisional} \cup lost
            \/ /\ job # NoJob /\ job.step = "complete"
               /\ Checkpoints[i].count > job.turnCount
  <3>1. Reverting => job # NoJob BY <1>1, KindsApart DEF Reverting
  <3> QED BY <2>1, <3>1 DEF ReactorInvariant, Linked
 <2>2. ASSUME NEW i \in Entries, NEW j \in Entries, setting.patient,
              Checkpoints[i].ref \in DOMAIN refs \ lost,
              Checkpoints[i].count < Checkpoints[j].count
     PROVE  Checkpoints[j].turn \notin refs[Checkpoints[i].ref]
  <3>1. refs[Checkpoints[i].ref] \subseteq 1..Checkpoints[i].turn
   BY <2>2 DEF ReactorInvariant, Patiently, Separated
  <3>2. /\ Checkpoints[i].turn < Checkpoints[j].turn
        /\ Checkpoints[i].turn \in Nat /\ Checkpoints[j].turn \in Nat
   BY <2>2, LaterIs
  <3> QED BY <3>1, <3>2
 <2> QED BY <1>1, <2>1, <2>2 DEF CheckpointsRestorable
<1>5. OneReplyPerRevert
 <2> SUFFICES ASSUME QueuesEmpty
     PROVE  Len(replies) = asked
  BY DEF OneReplyPerRevert
 <2>1. ~Reverting /\ Queued(domain, "checkpoint-revert-requested") = 0
  BY <1>1, KindsApart, QueuedNone DEF QueuesEmpty, Reverting
 <2>2. Len(replies) \in Nat BY <1>1 DEF StateTyped, SpentTyped
 <2> QED BY <2>1, <2>2 DEF ReactorInvariant, RepliesInOrder, One
<1> QED BY <1>2, <1>3, <1>4, <1>5 DEF CheckpointsSound

LEMMA InvariantImpliesUndone ==
  ASSUME ReactorInvariant, setting.patient, setting.git, job # NoJob, job.step = "complete",
    job.turnCount > 0, job.turnCount \notin lost,
    NEW c \in Range(thread.checkpoints), c.count > job.turnCount
  PROVE c.turn \notin files
<1>1. Reverting BY RevertJobIs DEF ReactorInvariant
<1>2. PICK i \in Entries : c = Checkpoints[i] BY DEF Range, Entries, Checkpoints
<1> QED BY <1>1, <1>2 DEF ReactorInvariant, Patiently, Undone

(* The invariant holds of every state that the reactor, ingestion, the user *)
(* and the provider reach together.                                         *)
THEOREM ReactorInvariantHolds ==
  ASSUME WithinCap PROVE ReactorSpec => []ReactorInvariant
<1>1. ReactorInit => ReactorInvariant BY InitialKeeps
<1>2. ReactorInvariant /\ [ReactorNext]_reactorVars => ReactorInvariant' BY ReactorStepKeeps
<1> QED BY <1>1, <1>2, PTL DEF ReactorSpec

\* What is recorded of checkpoints is well-formed, contiguous and restorable,
\* and every request to revert has one answer, however turns, diffs, failures
\* and reverts interleave, as long as no checkpoint is dropped for its age; what a
\* revert deleted before it failed is excepted.
THEOREM CheckpointsAreSound ==
  ASSUME WithinCap PROVE ReactorSpec => []CheckpointsSound
<1>1. ReactorInvariant => CheckpointsSound BY InvariantImpliesSound
<1> QED BY <1>1, ReactorInvariantHolds, PTL

\* A revert has undone, when it completes, the edits of every turn that it drops,
\* unless its target's ref was deleted by a revert that failed.
THEOREM EditsAreUndone ==
  ASSUME WithinCap PROVE ReactorSpec => RevertUndoesEdits
<1>1. ReactorInvariant =>
        (setting.patient /\ setting.git /\ job # NoJob /\ job.step = "complete"
          /\ job.turnCount > 0 /\ job.turnCount \notin lost =>
            \A c \in Range(thread.checkpoints) :
                c.count > job.turnCount => c.turn \notin files)
 BY InvariantImpliesUndone
<1> QED BY <1>1, ReactorInvariantHolds, PTL DEF RevertUndoesEdits
=============================================================================

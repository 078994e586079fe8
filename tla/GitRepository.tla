--------------------------- MODULE GitRepository ---------------------------
(***************************************************************************)
(* A project's git repository as the server's git layer uses it: the       *)
(* branches of the clone, what it last saw of its remote, and the remote   *)
(* with its open pull requests, which the team changes too.                *)
(*                                                                         *)
(* The content of a branch is the set of edits its commits hold: an edit   *)
(* is committed once, so that a set tells which commits a branch has, and  *)
(* "ahead", "behind" and "fast-forward" are differences and inclusions.    *)
(* The clone has the remote `origin', and its default branch is pushed;    *)
(* HEAD is always on a branch.                                             *)
(***************************************************************************)
EXTENDS Naturals

CONSTANTS Branches,     \* names of branches
          Main,         \* the default branch
          Published,    \* the branches the remote had when it was cloned
          Edits,        \* what agents write, and what the team writes
          NoBranch

ASSUME BranchesAssumption ==
  Main \in Published /\ Published \subseteq Branches /\ NoBranch \notin Branches

VARIABLES local,        \* refs/heads: the branches of the clone
          tracking,     \* refs/remotes/origin: the remote as last seen
          upstream,     \* the branches with an upstream, origin/<their name>
          worktrees,    \* the branches checked out in another worktree
          head,         \* the branch that is checked out
          dirty,        \* the edits that are not committed
          index,        \* those that are staged
          remote,       \* the branches of the remote
          prs,          \* the branches with an open pull request
          made,         \* history: the edits written so far
          marks         \* what tells the default branch: its name, which is
                        \* main or master as no other is, and origin/HEAD

clone == <<local, upstream, worktrees, head, dirty, index>>
origin == <<remote, prs, marks>>

repository == <<clone, tracking, origin, made>>

Marks == {"name", "head"}

(* A set of refs: some of the names, each with a content.                  *)
Refs == UNION {[names -> SUBSET Edits] : names \in SUBSET Branches}

RepositoryTypeOK ==
  /\ local \in Refs /\ tracking \in Refs /\ remote \in Refs
  /\ upstream \subseteq DOMAIN local \cap DOMAIN tracking
  /\ worktrees \subseteq DOMAIN local
  /\ head \in DOMAIN local \ worktrees
  /\ index \subseteq dirty /\ dirty \subseteq Edits
  /\ Main \in DOMAIN remote /\ prs \subseteq DOMAIN remote
  /\ made \subseteq Edits /\ marks \subseteq Marks
  /\ \A b \in DOMAIN tracking : b \in DOMAIN remote /\ tracking[b] \subseteq remote[b]

InitRepository ==
  /\ local = [b \in {Main} |-> {}]
  /\ remote = [b \in Published |-> {}] /\ tracking = remote
  /\ upstream = {Main}
  /\ worktrees = {}
  /\ head = Main
  /\ dirty = {} /\ index = {}
  /\ prs = {} /\ made = {}
  /\ marks \in SUBSET Marks

With(refs, b, content) ==
  [n \in DOMAIN refs \cup {b} |-> IF n = b THEN content ELSE refs[n]]

Contents(refs) == UNION {refs[b] : b \in DOMAIN refs}

(* The edits that can be found somewhere.                                  *)
Held == dirty \cup Contents(local) \cup Contents(remote)

-----------------------------------------------------------------------------
(* GitCore.ts:342-364, 619-620: a status first fetches the upstream of     *)
(* HEAD, unless it did so in the last seconds or the fetch fails.          *)
Refreshed ==
  {tracking} \cup {With(tracking, b, remote[b]) : b \in {head} \cap upstream}

(* A branch without an upstream is compared with the local default branch, *)
(* if that can be told; otherwise nothing is ahead.                        *)
Based == marks # {}

ComparedMutant(seen) == local[Main]
Compared(seen) ==
  IF head \in upstream THEN seen[head] ELSE local[IF Based THEN Main ELSE head]

Ahead(seen) == local[head] \ Compared(seen)

Behind(seen) == IF head \in upstream THEN seen[head] \ local[head] ELSE {}

(* GitManager.ts:638-661: what a status says; the pull request is the one  *)
(* of the branch's name, or none when it cannot be looked up.              *)
Status(seen, pr) ==
  [branch   |-> head,
   changes  |-> dirty # {},
   upstream |-> head \in upstream,
   ahead    |-> Ahead(seen) # {},
   behind   |-> Behind(seen) # {},
   pr       |-> pr]

(* A push that is not a fast-forward is refused.                           *)
PushableMutant(b) == TRUE
Pushable(b) == b \notin DOMAIN remote \/ remote[b] \subseteq local[b]

PushTo(b) ==
  /\ remote' = With(remote, b, local[b])
  /\ tracking' = With(tracking, b, local[b])
  /\ UNCHANGED <<prs, marks, made>>

-----------------------------------------------------------------------------
(* The agents of the threads that work in this directory.                  *)
AgentEdits(e) ==
  /\ e \notin made
  /\ made' = made \cup {e}
  /\ dirty' = dirty \cup {e}
  /\ UNCHANGED <<local, tracking, upstream, worktrees, head, index, origin>>

(* The team pushes to a branch, opens a pull request and merges one.       *)
TeamPushes(b, e) ==
  /\ e \notin made
  /\ made' = made \cup {e}
  /\ remote' = With(remote, b, {e} \cup
                 (IF b \in DOMAIN remote THEN remote[b] ELSE remote[Main]))
  /\ UNCHANGED <<clone, tracking, prs, marks>>

TeamOpensPr(b) ==
  /\ b \in DOMAIN remote \ prs
  /\ ~(remote[b] \subseteq remote[Main])
  /\ prs' = prs \cup {b}
  /\ UNCHANGED <<clone, tracking, remote, marks, made>>

TeamMerges(b) ==
  /\ b \in prs
  /\ prs' = prs \ {b}
  /\ remote' = With(remote, Main, remote[Main] \cup remote[b])
  /\ UNCHANGED <<clone, tracking, marks, made>>

=============================================================================

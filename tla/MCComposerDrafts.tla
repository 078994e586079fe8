-------------------------- MODULE MCComposerDrafts --------------------------
(***************************************************************************)
(* Small circumstances for the drafts of one project.                       *)
(***************************************************************************)
EXTENDS ComposerDrafts

CONSTANTS t1, t2
TwoThreads == {t1, t2}

\* Bounds of texts, images, sends, moves, reloads, deletes, lost, unanswered, unwritten.
Setting(bounds) ==
    [texts |-> bounds[1], images |-> bounds[2], sends |-> bounds[3], moves |-> bounds[4],
     reloads |-> bounds[5], deletes |-> bounds[6], lost |-> bounds[7], unanswered |-> bounds[8],
     unwritten |-> bounds[9]]

\* Messages in a row; failures and retries, staying and leaving; images;
\* reloads; deleted threads; a write that fails.
Busy == Setting(<<3, 0, 3, 1, 0, 0, 1, 0, 0>>)
Failing == Setting(<<2, 0, 2, 3, 0, 0, 2, 1, 0>>)
Pictures == Setting(<<1, 2, 2, 3, 0, 0, 1, 0, 0>>)
Reloaded == Setting(<<2, 1, 1, 2, 2, 0, 1, 0, 0>>)
Deleted == Setting(<<2, 1, 2, 2, 0, 1, 1, 0, 0>>)
Unwritten == Setting(<<2, 0, 2, 2, 1, 0, 1, 0, 1>>)

AllSettings == {Busy, Failing, Pictures, Reloaded, Deleted, Unwritten}
=============================================================================

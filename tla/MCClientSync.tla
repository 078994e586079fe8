---------------------------- MODULE MCClientSync ----------------------------
(***************************************************************************)
(* Small circumstances for one client.                                      *)
(***************************************************************************)
EXTENDS ClientSync

\* Bounds of commits, drops, restarts, faults, slow requests, snapshots of
\* the plan view and mounts.
Setting(b) == [commits |-> b[1], drops |-> b[2], restarts |-> b[3], faults |-> b[4],
               slow |-> b[5], plans |-> b[6], mounts |-> b[7]]

\* Only commits; then with losses, failures, late answers, the plan view and
\* a second mount of the router.
Undisturbed == Setting(<<4, 0, 0, 0, 0, 0, 1>>)
Interrupted == Setting(<<3, 2, 0, 0, 0, 0, 1>>)
Restarted == Setting(<<3, 1, 1, 0, 0, 0, 1>>)
Failing == Setting(<<3, 0, 0, 2, 0, 0, 1>>)
Late == Setting(<<3, 1, 0, 0, 1, 0, 1>>)
Planning == Setting(<<3, 0, 0, 0, 0, 1, 1>>)
Remounted == Setting(<<2, 1, 0, 1, 0, 0, 2>>)

AllSettings == {Undisturbed, Interrupted, Restarted, Failing, Late, Planning, Remounted}
=============================================================================

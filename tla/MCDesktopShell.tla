--------------------------- MODULE MCDesktopShell ---------------------------
(***************************************************************************)
(* Small circumstances for the desktop application.                         *)
(***************************************************************************)
EXTENDS DesktopShell

\* Bounds of crashes, spawns, requests, errors, installs, releases, quits.
Bound(b) ==
    [crashes |-> b[1], spawns |-> b[2], requests |-> b[3], errors |-> b[4],
     installs |-> b[5], releases |-> b[6], quits |-> b[7]]

\* Servers that crash and do not start; updates with errors and newer versions;
\* installations that fail and are repeated, over a server that crashes.
Unstable == Bound(<<3, 2, 0, 0, 0, 0, 1>>)
Updated == Bound(<<1, 1, 5, 2, 0, 2, 1>>)
Installed == Bound(<<2, 1, 3, 0, 2, 1, 1>>)

AllBounds == {Unstable, Updated, Installed}
=============================================================================

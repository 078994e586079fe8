-------------------------- MODULE MCTerminalManager --------------------------
(***************************************************************************)
(* Small circumstances for two terminals.                                   *)
(***************************************************************************)
EXTENDS TerminalManager

CONSTANTS a, b
TwoTerminals == {a, b}

\* Bounds of calls, outputs, failing spawns, failing writes and removals,
\* failing signals, polls, dispose.
Setting(bounds, retain, thread) ==
    [calls |-> bounds[1], outputs |-> bounds[2], spawns |-> bounds[3], writes |-> bounds[4],
     signals |-> bounds[5], polls |-> bounds[6], disposes |-> bounds[7],
     retain |-> retain, thread |-> thread]

Together == [t \in TwoTerminals |-> "one"]
Apart == [t \in TwoTerminals |-> IF t = a THEN "one" ELSE "other"]

\* Calls and outputs of two terminals of a thread; sessions that are evicted,
\* also while they start; spawns, writes, removals and signals that fail; looks
\* for subprocesses; dispose at any time.
Shared == Setting(<<3, 2, 0, 0, 0, 0, 0>>, 2, Together)
Crowded == Setting(<<3, 1, 0, 0, 0, 0, 0>>, 1, Apart)
NoShell == Setting(<<3, 1, 1, 0, 0, 0, 0>>, 1, Together)
FullDisk == Setting(<<3, 1, 0, 1, 0, 0, 0>>, 2, Together)
Watched == Setting(<<3, 0, 0, 0, 1, 1, 0>>, 2, Together)
Disposed == Setting(<<2, 1, 0, 0, 1, 0, 1>>, 2, Apart)

AllSettings == {Shared, Crowded, NoShell, FullDisk, Watched, Disposed}
=============================================================================

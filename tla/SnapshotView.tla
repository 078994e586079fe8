---------------------------- MODULE SnapshotView ----------------------------
(***************************************************************************)
(* What a client promises of the state that it shows: it is a state that    *)
(* the server was in, and it never goes back, except where a part of the    *)
(* client writes snapshots past the router of events (mayRegress).          *)
(***************************************************************************)
EXTENDS Naturals

VARIABLES latest, shown, mayRegress

Init == latest \in Nat /\ shown = 0

\* The server goes on.
Advance == latest' = latest + 1 /\ UNCHANGED shown

\* The client shows a state that the server has reached.
Show ==
    /\ shown' \in 0..latest
    /\ mayRegress \/ shown' >= shown
    /\ UNCHANGED latest

Next == (Advance \/ Show) /\ UNCHANGED mayRegress
Spec == Init /\ [][Next]_<<latest, shown, mayRegress>>
=============================================================================

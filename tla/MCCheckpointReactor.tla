------------------------- MODULE MCCheckpointReactor -------------------------
(***************************************************************************)
(* Small circumstances for the checkpoints of a thread.                     *)
(***************************************************************************)
EXTENDS CheckpointReactor

Setting(t, r, f, d, patient, git, forgets, states) ==
    [turns |-> t, reverts |-> r, faults |-> f, diffs |-> d, patient |-> patient, git |-> git,
     forgets |-> forgets, states |-> states]

Good == {"completed"}
AnyEnd == {"completed", "failed"}

\* One turn after the other, reverts between them.
Careful(forgets) == Setting(3, 2, 0, 0, TRUE, TRUE, forgets, Good)
\* A failure, or two.
Stumbling == Setting(3, 1, 1, 0, TRUE, TRUE, TRUE, Good)
Failing == Setting(2, 2, 2, 0, TRUE, TRUE, FALSE, Good)
\* Turns and reverts requested before the last turn was checkpointed.
Hasty == Setting(2, 1, 0, 0, FALSE, TRUE, TRUE, Good)
\* A provider that reports diffs of a turn, twice.
Diffing == Setting(2, 1, 0, 2, TRUE, TRUE, TRUE, AnyEnd)
\* A workspace without git.
Plain == Setting(3, 2, 0, 1, TRUE, FALSE, TRUE, AnyEnd)
\* Reverts at any time, with a failure.
Faulty == Setting(1, 2, 1, 0, FALSE, TRUE, TRUE, AnyEnd)

AllSettings ==
    {Careful(TRUE), Careful(FALSE), Stumbling, Failing, Hasty, Diffing, Plain, Faulty}
=============================================================================

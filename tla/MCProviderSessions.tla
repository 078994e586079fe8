-------------------------- MODULE MCProviderSessions --------------------------
(***************************************************************************)
(* Small circumstances for the sessions of a thread.                        *)
(***************************************************************************)
EXTENDS ProviderSessions

\* Bounds of turns, modes, stops, compactions, interrupts, full turns,
\* failures and restarts.
Setting(b, providers, patient, prompt) ==
    [turns |-> b[1], modes |-> b[2], stops |-> b[3], compacts |-> b[4], interrupts |-> b[5],
     full |-> b[6], faults |-> b[7], restarts |-> b[8],
     providers |-> providers, patient |-> patient, prompt |-> prompt]

Claude == {"claudeCode"}
Codex == {"codex"}

\* The mode is changed between turns.
Modal(p) == Setting(<<3, 2, 0, 0, 0, 0, 0, 0>>, p, TRUE, FALSE)
\* The same, or a stop, at any time.
Hasty(p) == Setting(<<2, 1, 0, 0, 0, 0, 0, 0>>, p, FALSE, FALSE)
Stopping(p) == Setting(<<2, 0, 1, 0, 0, 0, 0, 0>>, p, FALSE, FALSE)
\* Turns of Codex beside each other, that are interrupted or lost with it.
Crowded == Setting(<<2, 0, 0, 0, 1, 0, 1, 0>>, Codex, FALSE, FALSE)
\* A turn that is requested while the thread is compacted.
Clearing == Setting(<<2, 0, 0, 1, 0, 0, 0, 0>>, Claude, FALSE, FALSE)
\* A session fails, or a call of it, or the server.
Faulty(p) == Setting(<<3, 1, 0, 0, 0, 0, 1, 0>>, p, TRUE, FALSE)
Restarted(p) == Setting(<<3, 1, 0, 0, 1, 0, 0, 1>>, p, TRUE, FALSE)
\* The user compacts, or the context window fills.
Compacted == Setting(<<3, 0, 0, 1, 0, 0, 0, 0>>, Claude, TRUE, TRUE)
Overflowing(p) == Setting(<<2, 0, 0, 0, 0, 2, 1, 0>>, p, TRUE, p = Codex)
\* Turns of both providers.
Switching == Setting(<<3, 1, 0, 0, 0, 0, 0, 0>>, Claude \cup Codex, TRUE, FALSE)

AllSettings ==
    {Modal(Claude), Modal(Codex), Hasty(Claude), Hasty(Codex), Stopping(Claude), Stopping(Codex),
     Crowded, Clearing, Faulty(Claude), Faulty(Codex), Restarted(Codex), Compacted,
     Overflowing(Claude), Overflowing(Codex), Switching}
RestartedClaude == {Setting(<<2, 0, 0, 0, 0, 0, 0, 1>>, Claude, TRUE, FALSE)}
=============================================================================

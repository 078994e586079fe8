--------------------------- MODULE MCRuntimeEvents ---------------------------
(***************************************************************************)
(* Small circumstances for what an agent says and asks.                     *)
(***************************************************************************)
EXTENDS RuntimeEvents

\* Bounds of turns, chunks, requests, answers, stops, deaths, switches, crashes.
Setting(provider, mode, bounds) ==
    [provider |-> provider, mode |-> mode, turns |-> bounds[1], chunks |-> bounds[2],
     requests |-> bounds[3], answers |-> bounds[4], stops |-> bounds[5],
     deaths |-> bounds[6], switches |-> bounds[7], crashes |-> bounds[8]]

Providers == {"claudeCode", "codex"}

\* Text of two turns with either mode, cut short by a stop, a death or a crash;
\* modes that change while a turn runs; questions and answers, also to
\* sessions that are gone.
Talking == {Setting("codex", "buffered", <<2, 4, 0, 0, 1, 0, 0, 0>>),
            Setting("claudeCode", "buffered", <<2, 3, 0, 0, 1, 0, 0, 0>>)}
             \cup {Setting(p, "streaming", <<2, 2, 0, 0, 1, 0, 0, 0>>) : p \in Providers}
Failing == {Setting(p, "buffered", <<2, 3, 0, 0, 0, 1, 0, 1>>) : p \in Providers}
Switching == {Setting(p, "buffered", <<1, 4, 0, 0, 1, 0, 2, 0>>) : p \in Providers}
Asking == {Setting(p, "buffered", b) : p \in Providers,
              b \in {<<1, 0, 2, 1, 1, 0, 0, 0>>, <<1, 0, 2, 2, 0, 0, 0, 0>>}}
Losing == {Setting(p, "buffered", b) : p \in Providers,
              b \in {<<2, 0, 1, 2, 0, 1, 0, 0>>, <<2, 0, 1, 1, 1, 0, 0, 1>>, <<1, 0, 1, 1, 1, 1, 0, 0>>}}

AllSettings == Talking \cup Failing \cup Switching \cup Asking \cup Losing

\* The threads of these circumstances keep all their messages.
ASSUME MessagesAreFew == FewMessages
=============================================================================

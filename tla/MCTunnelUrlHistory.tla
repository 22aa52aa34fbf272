------------------------- MODULE MCTunnelUrlHistory -------------------------
(* Instances of TunnelUrlHistory for TLC. *)
EXTENDS TunnelUrlHistory

CONSTANTS u1, u2, u3, k1, q1, q2, p1, p2, s1, s2

\* The URLs differ in their credentials alone and meet in u1 on disk.
SharedKeys == [u \in Urls |-> u1]

\* RTCP names the tunnel of a URL, the connect-style protocols have none.
OneTunnel == [u \in Urls |-> IF u = u1 THEN k1 ELSE None]

\* reachable 30 s, unknown 10 s, unreachable 5 s, unsupported 60 s, in scale.
ShortTtl == [s \in States |-> CASE s = "Reachable" -> 1 [] s = "Unsupported" -> 2 [] OTHER -> 0]

\* Two stacks keep the same URL; in the second world their updates and
\* shutdowns may be cut off.
Keepers == [urls |-> {u1}, outcomes |-> {"Reachable"}, queries |-> {}, stacks |-> Stacks,
            persist |-> FALSE, time |-> 0, obs |-> 0, crashes |-> 0, cancels |-> 0]

CutOff == [Keepers EXCEPT !.outcomes = Outcomes, !.cancels = 1]

\* Two callers query two URLs; one caller also a URL without a prober, while
\* time passes.
Callers == [Keepers EXCEPT !.urls = {u1, u2}, !.queries = Queries, !.stacks = {}]

Caller == [Callers EXCEPT !.urls = {u1, u3}, !.queries = {q1}, !.time = 1]

\* One stack, connects that report while time passes, room for one entry.
Crowded == [Keepers EXCEPT !.urls = {u1, u2}, !.stacks = {s1}, !.time = 1, !.obs = 1]

\* One stack with a snapshot on disk; the gateway dies once.
Persisted == [Keepers EXCEPT !.urls = {u2}, !.stacks = {s1}, !.persist = TRUE, !.crashes = 1]

SixWorlds == {Keepers, CutOff, Callers, Caller, Crowded, Persisted}
=============================================================================

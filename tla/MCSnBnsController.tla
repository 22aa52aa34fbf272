------------------------ MODULE MCSnBnsController ------------------------
(***************************************************************************)
(* An instance of SnBnsController for TLC, in three worlds.                *)
(***************************************************************************)
EXTENDS SnBnsController

\* Everything, damaged rows and bytes that arrive late together: two faults between
\* two requests, four around a single one.
Unreliable == [kinds |-> Kinds, limit |-> 2, requests |-> Requests]
Single(r) == [kinds |-> Kinds, limit |-> 4, requests |-> {r}]

\* Failures of the node's RPC and of callers; the process and the store stay up
\* and the node keeps what it accepted.
Network == [kinds |-> {"transport", "reply", "late", "cancel"}, limit |-> 3,
            requests |-> Requests]

ThreeWorlds == {Unreliable, Single(CHOOSE r \in Requests : TRUE), Network}

==========================================================================

--------------------------- MODULE MCRelayManager ---------------------------
(***************************************************************************)
(* Instances of RelayManager for TLC.                                      *)
(***************************************************************************)
EXTENDS RelayManager

CONSTANTS p1, p2, n1, n2, z1

\* Registrations, allocations and admissions race with nodes that come and go.
\* The rules select nothing or n1; any node is a fallback.
Serving == [calls |-> {p1, p2}, states |-> {"draining"}, nodeOps |-> 2, faults |-> 0,
            fallback |-> {n1, n2}, hints |-> {{}, {n1}},
            ops |-> {"register_node", "heartbeat", "register_user", "admission"}]
\* The same with calls cut off and accounts cleared.
Clearing == [Serving EXCEPT !.ops = {"register_node", "register_user", "admission", "clear"},
                            !.nodeOps = 1, !.faults = 1]
\* Nodes only arrive, and only n1 takes zones that no rule selects a node for.
Arriving == [Serving EXCEPT !.states = {"active"}, !.fallback = {n1}, !.hints = {{}, {n2}},
                            !.ops = {"register_node", "allocate", "register_user", "admission"}]
\* One call at a time, operators moving the zone.
Moving == [Serving EXCEPT !.calls = {p1}, !.states = {"draining", "deleted"}, !.nodeOps = 3,
                          !.faults = 1,
                          !.ops = {"register_node", "heartbeat", "allocate", "assign",
                                   "migrate", "complete", "admission"}]
\* Nobody asks: what is pending waits for a node that may take it.
Retrying == [Arriving EXCEPT !.ops = {"register_node", "heartbeat", "register_user"},
                             !.states = {"active"}, !.nodeOps = 3]
FiveWorlds == {Serving, Clearing, Arriving, Moving, Retrying}
=============================================================================

---------------------------- MODULE MCRtcpStreams ----------------------------
(***************************************************************************)
(* A small instance of RtcpStreams: an Open and an ROpen that may draw the  *)
(* same stream id, and a Ping of the acceptor.                             *)
(***************************************************************************)
EXTENDS RtcpStreams, TLC

CONSTANTS open1, ropen1, ping1, x, y

AllRequests == Opens \cup ROpens \cup Pings

\* The Ping of an instance comes from the acceptor.
AcceptorPings == [p \in Pings |-> "acceptor"]

Acceptor == {"acceptor"}
BothEnds == {"dialer", "acceptor"}

(***************************************************************************)
(* The bound: behaviours with at most two of these events, none of which a  *)
(* fairness condition asks for.  A Ping counts twice.  Ids are alike, so    *)
(* the Open draws x.  Closing a tunnel and failing read loops are not      *)
(* bounded.                                                                *)
(***************************************************************************)
Events ==
    {<<"start", r>> : r \in {q \in Requests : pc[q] # "idle"}}
    \cup {<<"ping", r>> : r \in {q \in Pings : pc[q] # "idle"}}
    \cup {<<"drop", r>> : r \in {q \in Requests : pc[q] = "dropped"}}
    \cup {<<"age", e>> : e \in {f \in Ends : aged[f]}}
TwoEvents == Cardinality(Events) <= 2 /\ sid[open1] # y
=============================================================================

----------------------------- MODULE MCBnsIndexer -----------------------------
(***************************************************************************)
(* A small instance of BnsIndexer: a handful of blocks over all branches,  *)
(* with every kind of event, in two worlds.                                *)
(***************************************************************************)
EXTENDS BnsIndexer

AllKinds == Events

\* Replaced branches are no deeper than the confirmations, at any moment.
Confirmed == [deep |-> FALSE, calm |-> FALSE, faults |-> TRUE]
\* Any branch may be replaced, between two rounds, and nothing fails.
Reorganised == [deep |-> TRUE, calm |-> TRUE, faults |-> FALSE]
BothWorlds == {Confirmed, Reorganised}

=============================================================================

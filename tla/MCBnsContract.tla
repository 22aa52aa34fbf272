-------------------------- MODULE MCBnsContract --------------------------
(***************************************************************************)
(* An instance of BnsContract for TLC: a root name and a subname of it.    *)
(***************************************************************************)
EXTENDS BnsContract

Family == {"a", "s.a"}
FamilyParent == [n \in {"s.a"} |-> "a"]

\* Every permission for an account.
Everything == {[who |-> "u", doc |-> Any, may |-> p] : p \in Permissions}

Alone(n) == [m \in Names |-> IF m = "a" THEN n ELSE 0]
Both(n) == [m \in Names |-> n]

\* One name is registered, filled, released and registered again.
Lineages == [legacy |-> <<>>, time |-> 0, seq |-> Alone(4), kids |-> {"k1"},
             policies |-> {{}, Everything}]
\* The same for a name that an older contract has registered twice, with entries of
\* either lineage under the name hash.
OldLineage == [legacy |-> [n \in {"a"} |-> 1], time |-> 0, seq |-> Alone(6), kids |-> {"k1"},
               policies |-> {Everything}]
\* Leases and keys run out, two keys rotate.
Expiry == [legacy |-> <<>>, time |-> 1, seq |-> Alone(2), kids |-> {"k1", "k2"},
           policies |-> {{}}]
\* The owners of a name and its subname depend on one another.
Owners == [legacy |-> <<>>, time |-> 0, seq |-> Both(2), kids |-> {"k1"},
           policies |-> {{}}]

FourScenarios == {Lineages, OldLineage, Expiry, Owners}

==========================================================================

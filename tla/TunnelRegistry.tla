--------------------------- MODULE TunnelRegistry ---------------------------
(***************************************************************************)
(* What the RTCP tunnel map promises to its users, without its indexes,    *)
(* locks or authority states: a registry of at most one tunnel instance    *)
(* per key, first accepted wins.                                           *)
(*                                                                         *)
(*   - A slot changes hands only when its holder is dead: nobody evicts a  *)
(*     live tunnel and leaves it running outside the registry.             *)
(*   - Only a live instance is ever admitted.                              *)
(*   - Death is final, and after Stop the registry stays empty.            *)
(*                                                                         *)
(* RtcpTunnelMap is shown to implement this specification.                 *)
(***************************************************************************)
CONSTANTS
    Tunnels,    \* tunnel instances
    Keys,       \* tunnel keys
    None        \* no instance

VARIABLES
    holder,     \* holder[k]: the instance registered under key k, or None
    dead,       \* instances whose closed flag is set
    stopped     \* TRUE once shutdown has begun

vars == <<holder, dead, stopped>>

Init ==
    /\ holder = [k \in Keys |-> None]
    /\ dead = {}
    /\ stopped = FALSE

(* Instances die, and any of the slots that dead instances hold are freed. *)
Retire(S, K) ==
    /\ \A k \in K : holder[k] \in dead \cup S
    /\ dead' = dead \cup S
    /\ holder' = [k \in Keys |-> IF k \in K THEN None ELSE holder[k]]
    /\ UNCHANGED stopped

(* A live instance takes a slot that is free or whose holder is dead; the *)
(* instances S it supersedes die in the same step.                        *)
Admit(t, k, S, K) ==
    /\ ~stopped
    /\ t \notin dead \cup S
    /\ holder[k] \in dead \cup {None}
    /\ \A j \in K : holder[j] \in dead \cup S
    /\ dead' = dead \cup S
    /\ holder' = [[j \in Keys |-> IF j \in K THEN None ELSE holder[j]]
                     EXCEPT ![k] = t]
    /\ UNCHANGED stopped

(* Shutdown: every registered instance dies and every slot is freed. *)
Stop ==
    /\ ~stopped
    /\ dead' = dead \cup {holder[k] : k \in {j \in Keys : holder[j] # None}}
    /\ holder' = [k \in Keys |-> None]
    /\ stopped' = TRUE

Next ==
    \/ \E S \in SUBSET Tunnels, K \in SUBSET Keys : Retire(S, K)
    \/ \E t \in Tunnels, k \in Keys, S \in SUBSET Tunnels, K \in SUBSET Keys :
          Admit(t, k, S, K)
    \/ Stop

Spec == Init /\ [][Next]_vars
=============================================================================

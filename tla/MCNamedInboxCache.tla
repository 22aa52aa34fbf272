------------------------- MODULE MCNamedInboxCache -------------------------
(***************************************************************************)
(* Instances of NamedInboxCache for TLC.  Requests 1 and 2 carry the same  *)
(* object of the same principal, first unsigned and then signed; request 3 *)
(* carries another object, or the same one of another principal.           *)
(***************************************************************************)
EXTENDS NamedInboxCache, TLC

TwoKeys == [r \in Requests |-> IF r = 3 THEN "k2" ELSE "k1"]
OneKey == [r \in Requests |-> "k1"]
OnePrincipal == [r \in Requests |-> "p1"]
TwoPrincipals == [r \in Requests |-> IF r = 3 THEN "p2" ELSE "p1"]
Forms == [r \in Requests |-> IF r = 2 THEN "jwt" ELSE "json"]

\* One instance, one object, room for it, every outcome and no fault.
Plain == [requests |-> {1, 2}, keyOf |-> OneKey, principalOf |-> OnePrincipal,
          maxBytes |-> 3, principalEntries |-> 2, principalBytes |-> 3, expires |-> FALSE,
          outcomes |-> AllOutcomes, instances |-> 1, faultsAt |-> {}, faults |-> 0,
          sameInstant |-> FALSE]

\* A reload or a crash while the object is cached, refreshed and drained, and an
\* operation on its record that fails.
Reloaded == [Plain EXCEPT !.outcomes = {"accepted", "connect"}, !.instances = 2,
                          !.faultsAt = {"process", "write", "remove"}, !.faults = 1]
\* Two principals send the same object, and a write may fail.
Rivals == [Plain EXCEPT !.requests = {1, 3}, !.principalOf = TwoPrincipals,
                        !.outcomes = {"accepted", "retryable", "connect", "lost"},
                        !.faultsAt = {"write"}, !.faults = 1]
\* The signed form of one object and another object of the principal compete for the
\* bytes of its quota.
Quota == [Plain EXCEPT !.requests = Requests, !.keyOf = TwoKeys, !.principalBytes = 2,
                       !.outcomes = {"accepted", "connect"}]
\* A removal that fails leaves a record beyond the capacity, in entries of the principal
\* and in bytes, for the next instance that recovers the directory; or the directory
\* cannot be listed.
Overfull == [Plain EXCEPT !.requests = {1, 3}, !.keyOf = TwoKeys,
                          !.maxBytes = 1, !.principalEntries = 1,
                          !.outcomes = {"accepted", "connect"}, !.instances = 2,
                          !.faultsAt = {"remove", "list"}, !.faults = 1]
\* Records expire or cannot be read while the worker has them in hand.
Aging == [Plain EXCEPT !.expires = TRUE, !.outcomes = {"accepted", "connect"},
                       !.faultsAt = {"damage"}, !.faults = 1]
SixWorlds == {Plain, Reloaded, Rivals, Quota, Overfull, Aging}
=============================================================================

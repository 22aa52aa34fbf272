---------------------------- MODULE MCAcmeCerts ----------------------------
(***************************************************************************)
(* Instances of AcmeCerts for TLC.                                         *)
(***************************************************************************)
EXTENDS AcmeCerts

CONSTANTS m1, m2

\* Two managers, anything fails once.
Managers == [mgrs |-> {m1, m2}, challenge |-> "tls", external |-> 0, ticks |-> 1,
             faultsAt |-> {"ca", "files", "process"}, faults |-> 1, creates |-> 2]
\* The account cannot be registered.
Unregistered == [Managers EXCEPT !.faultsAt = {"account"}, !.creates = 3, !.ticks = 0]
\* Somebody else installs certificates next to two managers.
Crowd == [Managers EXCEPT !.external = 1, !.faultsAt = {}]
\* One manager, over two ages of its certificate.
Single == [Managers EXCEPT !.mgrs = {m1}, !.faultsAt = {"ca", "files"}, !.faults = 2, !.ticks = 2]
\* One manager and its TXT records.
Records == [Single EXCEPT !.challenge = "dns", !.faultsAt = {"ca", "dns", "process"},
                           !.ticks = 1, !.creates = 1]
FiveWorlds == {Managers, Unregistered, Crowd, Single, Records}
=============================================================================

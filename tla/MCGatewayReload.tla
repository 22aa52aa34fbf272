--------------------------- MODULE MCGatewayReload ---------------------------
EXTENDS GatewayReload, TLC

Cfg(binds, rules, dm) == [binds |-> binds, rules |-> rules, dm |-> dm]

\* A stack is replaced under another id on its address, next to a second new one,
\* with the device manager switched on.
SwapFiles == {Cfg("a" :> "x", {"f1"}, FALSE), Cfg(("b" :> "x") @@ ("d" :> "y"), {"f2"}, TRUE)}
\* A stack that stays while another comes and goes, with kept tunnels of which one
\* stays, one goes and one comes.
GrowFiles == {Cfg("a" :> "x", {"f1", "f2"}, FALSE),
              Cfg(("a" :> "x") @@ ("b" :> "y"), {"f2", "f3"}, TRUE)}
\* A stack that wants another address.
BindFiles == GrowFiles \cup {Cfg("a" :> "y", {"f3"}, FALSE)}
AllFiles == SwapFiles \cup BindFiles
DispatchD == "d" :> "y"

Steps == {"build", "prepare", "create", "start", "traffic"}

\* Two clients, dispatches, and two faults of any kind.
Grow == [files |-> GrowFiles, clients |-> Clients, rules |-> {}, dispatches |-> {"d"},
         awaiting |-> Ids, kinds |-> Steps \cup {"cancel"}, commands |-> 3, faults |-> 2]
\* The refusal of a changed address, with a single client.
Rebind == [Grow EXCEPT !.files = BindFiles, !.clients = {"c1"}]
\* Stacks that let go of their address late, and a rule added by command.
Swap == [Grow EXCEPT !.files = SwapFiles, !.clients = {"c1"}, !.rules = Rules,
                     !.dispatches = {}, !.awaiting = {"a"}]
\* One step fails.
OneFault == [Grow EXCEPT !.files = SwapFiles, !.clients = {"c1"}, !.kinds = Steps,
                         !.commands = 4, !.faults = 1]
FourWorlds == {Grow, Rebind, Swap, OneFault}
=============================================================================

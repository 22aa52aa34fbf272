---------------------------- MODULE MCProcessChain ----------------------------
(* Two libraries: l1 with chains c1 (blocks b1, b2) and c2 (block b1),       *)
(* l2 with chain c1 (block b3).                                               *)
EXTENDS ProcessChain

CONSTANTS l1, l2, c1, c2, b1, b2, b3

MCLibOrder == <<l1, l2>>
MCChainsOf == (l1 :> <<c1, c2>>) @@ (l2 :> <<c1>>)
MCBlocksOf == (l1 :> ((c1 :> <<b1, b2>>) @@ (c2 :> <<b1>>))) @@ (l2 :> (c1 :> <<b3>>))

Calls == [commands |-> {"exec", "invoke", "assign"}, args |-> {"one"}, fuel |-> 3]
Arguments == [commands |-> {"invoke"}, args |-> {"one", "two"}, fuel |-> 3]
Controls == [commands |-> {"exec", "return", "raise", "exit", "break", "for", "if", "case",
                           "match", "simple"}, args |-> {}, fuel |-> 3]
Gotos == [commands |-> {"goto", "simple"}, args |-> {"one"}, fuel |-> 2]
Bindings == [commands |-> {"for", "case", "match", "assign", "break", "simple"},
             args |-> {}, fuel |-> 4]
FivePrograms == {Calls, Arguments, Controls, Gotos, Bindings}
=============================================================================

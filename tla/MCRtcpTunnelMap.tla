--------------------------- MODULE MCRtcpTunnelMap ---------------------------
(* An instance of RtcpTunnelMap for TLC. *)
EXTENDS RtcpTunnelMap, TLC

CONSTANTS t1, t2,          \* instances
          alice, bob,      \* names
          d1, d2           \* devices

(* A device is reached directly, or d1 through one bootstrap URL as well. *)
WithBootstrap == {<<d, "direct">> : d \in Devs} \cup {<<d1, "bootstrap">>}
MCKeyDev == [k \in Keys |-> k[1]]
MCDirectKey == [d \in Devs |-> <<d, "direct">>]

(* A document is a tuple of name, device, iat. *)
A1 == <<alice, d1, 1>>      \* name alice on device d1
A2 == <<alice, d2, 2>>      \* name alice moves to device d2
A1bis == <<alice, d2, 1>>   \* the same iat, another content
B1 == <<bob, d1, 1>>        \* name bob claims device d1
AllDocs == {A1, A2, A1bis, B1}

MCDocName == [d \in Docs |-> d[1]]
MCDocDev == [d \in Docs |-> d[2]]
MCDocIat == [d \in Docs |-> d[3]]

DialRivals == {[key |-> <<d1, "direct">>, name |-> alice],
               [key |-> <<d1, "bootstrap">>, name |-> bob],
               [key |-> <<d1, "direct">>, name |-> None]}

AnyTrust == {"snapshot", "authority"}
D1 == {d1}
=============================================================================

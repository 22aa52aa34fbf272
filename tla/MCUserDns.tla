------------------------------ MODULE MCUserDns ------------------------------
(***************************************************************************)
(* Instances of UserDns for TLC.  Domain d1 has the names n1 and n2, its    *)
(* child d2 has n2 only; the others are in the bridge of user u1, and the   *)
(* first labels of hidden and control begin with an underscore.             *)
(***************************************************************************)
EXTENDS UserDns, TLC

\* Each task on a replica of its own, or both on one.
Apart == [k \in Tasks |-> IF k = "k1" THEN "r1" ELSE "r2"]
Together == [k \in Tasks |-> "r1"]

InDomains == [d \in Domains |-> IF d = "d1" THEN {"n1", "n2"} ELSE {"n2"}]
InBridge == [u \in Users |-> IF u = "u1" THEN Names \ {"n1", "n2"} ELSE {}]

\* The requests for the given operations on some names, of one value each.
Ask(ops, names) == {q \in Requests : q.op \in ops /\ q.n \in names /\ q.t = "A"
                                     /\ q.v \in {"v1", NoValue} /\ q.ttl \in {0, 1} /\ q.u # "u2"}
Asks(first, second) == [k \in Tasks |-> IF k = "k1" THEN first ELSE second]

\* One replica asks while the other writes, until the feed has lost the
\* change of the name that was asked for; the rest is read page by page.
Gaps == [home |-> Apart, asks |-> Asks(Ask({"auth"}, {"hidden"}),
                       Ask({"add"}, {"hidden"}) \cup Ask({"add", "remove"}, {"n3"})),
         direct |-> {}, revision |-> 3, faults |-> 0]
\* A name that bypasses the caches.
Bypassed == [home |-> Apart, asks |-> Asks(Ask({"auth", "info"}, {"control"}), Ask({"add", "remove"}, {"control"})),
             direct |-> {}, revision |-> 2, faults |-> 0]
\* A replica asks and writes while another one deletes.
Writers == [home |-> Apart, asks |-> Asks(Ask({"auth", "add"}, {"hidden"}), Ask({"delete"}, {"hidden"})),
            direct |-> {}, revision |-> 2, faults |-> 0]
\* The cache of the server, while another replica writes.
Infos == [home |-> Apart, asks |-> Asks(Ask({"info"}, {"hidden"}), Ask({"add", "remove"}, {"hidden"})),
          direct |-> {}, revision |-> 2, faults |-> 0]
\* One replica serves while another service changes the time to live, and a
\* request or a synchronisation fails.
Alone == [home |-> Apart, asks |-> Asks(Ask({"auth", "info", "add"}, {"n3"}), {}),
          direct |-> {"ttl"}, revision |-> 3, faults |-> 1]
\* A user writes two types and two values, binds and unbinds; another one takes
\* the domain over, and users are deleted and come back.
Rows == [home |-> Apart,
         asks |-> Asks({q \in Requests : q.op \in {"add", "remove", "delete"} /\ q.n = "n1"
                                         /\ q.u = "u1" /\ q.ttl \in {0, 2}}
                       \cup {q \in Requests : q.op \in {"bind", "unbind"} /\ q.d = "d1"}, {}),
         direct |-> {"ttl", "state"}, revision |-> 3, faults |-> 0]
Owners == [home |-> Apart, asks |-> Asks({q \in Requests : q.op \in {"add", "remove", "bind", "unbind"}
                             /\ q.t \in {"A", NoType} /\ q.v \in {"v1", NoValue} /\ q.ttl \in {0, 1}
                             /\ q.n \in {"n1", "n2", NoName}}, {}),
           direct |-> {}, revision |-> 3, faults |-> 0]
\* One replica that answers while it writes, in each of its caches, and one
\* whose two queries read the feed while the name changes.
Shared == [home |-> Together, asks |-> Asks(Ask({"auth"}, {"hidden"}), Ask({"add", "remove"}, {"hidden"})),
           direct |-> {}, revision |-> 2, faults |-> 1]
SharedInfos == [home |-> Together, asks |-> Asks(Ask({"info"}, {"n3"}), Ask({"info", "add"}, {"n3"})),
                direct |-> {}, revision |-> 2, faults |-> 0]
\* A user writes while the domain is bound, unbound and taken over.
Claimants == [home |-> Together,
              asks |-> Asks({q \in Requests : q.op \in {"add", "remove"} /\ q.n = "n1" /\ q.u = "u1"
                                /\ q.t = "A" /\ q.v = "v1" /\ q.ttl \in {0, 1}},
                            {q \in Requests : q.op \in {"bind", "unbind"} /\ q.d = "d1"}),
              direct |-> {}, revision |-> 3, faults |-> 0]
TenWorlds == {Gaps, Bypassed, Writers, Infos, Alone, Rows, Owners, Shared, SharedInfos, Claimants}
=============================================================================

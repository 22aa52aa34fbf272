---------------------------- MODULE RelayManager ----------------------------
(***************************************************************************)
(* The relay manager of an SN: relay_mgr.rs, with the registration and the *)
(* clearing of accounts of sn_auth.rs that write to the same tables.       *)
(*                                                                         *)
(* Every call is a task that reads and writes the SQLite database in       *)
(* separate statements, so the calls interleave between statements.  Only  *)
(* allocate_zone_relay and a registration hold the lock of their zone.     *)
(***************************************************************************)
EXTENDS Naturals, FiniteSets

CONSTANTS
    Calls,      \* tasks that serve a request
    Zones,      \* zone names, each the name of an account too
    Nodes,      \* relay ids
    NoNode, NoCall,
    MaxGen,     \* generations
    Worlds      \* the environments a behaviour may run in

\* One environment: how many calls run at once, which requests arrive (see
\* Begin), the statuses an operator or a relay may report, the bounds on
\* registrations and heartbeats of nodes and on calls that are cut off, and the
\* allocation policy: fallback are the nodes that fallback_relays names ("*" is
\* all of them), hints the sets of nodes that the match rules select by the region
\* and the address of a request ({} when nothing matches).
WorldFields == {"calls", "ops", "states", "nodeOps", "faults", "fallback", "hints"}

Statuses == {"absent", "active", "draining", "disabled", "unhealthy", "deleted"}

ASSUME RelayAssumption ==
    /\ NoNode \notin Nodes /\ NoCall \notin Calls /\ Zones # {}
    /\ MaxGen \in Nat \ {0}
    /\ \A w \in Worlds :
         /\ DOMAIN w = WorldFields
         /\ w.calls \subseteq Calls /\ IsFiniteSet(w.calls)
         /\ w.states \subseteq Statuses \ {"absent"}
         /\ {w.nodeOps, w.faults} \subseteq Nat
         /\ w.fallback \subseteq Nodes /\ w.hints \subseteq SUBSET Nodes /\ w.hints # {}

VARIABLES
    world,      \* the environment of this behaviour; it never changes
    nodes,      \* relay_nodes.status
    revision,   \* relay_metadata.node_map_revision
    assign,     \* relay_assignments; generation 0 is no row
    pending,    \* zones with a row in relay_allocation_pending
    users,      \* registered accounts
    lock,       \* the named lock sn_relay_allocate_zone_<zone>
    calls,      \* the local variables of each call
    allows,     \* history: admissions that were granted
    refused,    \* history: new accounts whose registration ended in a database error
    nodeOps, faults

vars == <<world, nodes, revision, assign, pending, users, lock, calls, allows, refused,
          nodeOps, faults>>
tables == <<nodes, revision, assign, pending, users>>

NoAssign == [relay |-> NoNode, gen |-> 0, state |-> "active"]
NoCallState == [op |-> "none", pc |-> "idle", zone |-> CHOOSE z \in Zones : TRUE,
                node |-> NoNode, st |-> "active", seen |-> NoAssign, was |-> "absent",
                ask |-> NoNode, gen |-> 0, todo |-> {}]

\* is_assignable_node
Assignable(n) == n \in Nodes /\ nodes[n] = "active"

Goto(p, pc) == calls' = [calls EXCEPT ![p].pc = pc]
Return(p) == calls' = [calls EXCEPT ![p] = NoCallState]
At(p, pc) == calls[p].pc = pc

-----------------------------------------------------------------------------
(* A request arrives.                                                      *)

Begin(p, op, new) ==
    /\ p \in world.calls /\ calls[p].pc = "idle"
    /\ op \in world.ops
    /\ calls' = [calls EXCEPT ![p] = [new EXCEPT !.op = op, !.pc =
            CASE op = "register_node" -> "reg_read"
              [] op = "heartbeat" -> "hb_read"
              [] op \in {"allocate", "register_user"} -> "lock"
              [] op \in {"assign", "migrate"} -> "check"
              [] op = "admission" -> "adm_read"]]
    /\ IF op \in {"register_node", "heartbeat"}
         THEN nodeOps < world.nodeOps /\ nodeOps' = nodeOps + 1
         ELSE UNCHANGED nodeOps
    /\ UNCHANGED <<world, tables, lock, allows, refused, faults>>

-----------------------------------------------------------------------------
(* Relay nodes.                                                            *)

\* register_relay_node: to register as deleted is refused, and so is a node that
\* was deleted; a node that says nothing stays draining or disabled.
RegRead(p) ==
    LET n == calls[p].node  old == nodes[n] IN
    /\ At(p, "reg_read")
    /\ IF "deleted" \in {old, calls[p].st} THEN Return(p)
       ELSE calls' = [calls EXCEPT ![p].pc = "reg_write",
                ![p].st = IF @ # "absent" THEN @
                          ELSE IF old \in {"draining", "disabled"} THEN old ELSE "active"]
    /\ UNCHANGED <<world, tables, lock, allows, refused, nodeOps, faults>>

\* One transaction: the row, the addresses and the revision.
RegWrite(p) ==
    LET n == calls[p].node IN
    /\ At(p, "reg_write")
    /\ nodes' = [nodes EXCEPT ![n] = calls[p].st]
    /\ revision' = revision + 1
    /\ IF calls[p].st = "active" THEN Goto(p, "retry_list") ELSE Return(p)
    /\ UNCHANGED <<world, assign, pending, users, lock, allows, refused, nodeOps, faults>>

\* heartbeat_relay_node: without a status of its own an unhealthy node recovers
\* and every other one keeps the status that was read.
HbRead(p) ==
    LET old == nodes[calls[p].node] IN
    /\ At(p, "hb_read")
    /\ IF old \in {"absent", "deleted"} THEN Return(p)
       ELSE calls' = [calls EXCEPT ![p].pc = "hb_write", ![p].was = old,
                ![p].st = IF @ # "absent" THEN @
                          ELSE IF old = "unhealthy" THEN "active" ELSE old]
    /\ UNCHANGED <<world, tables, lock, allows, refused, nodeOps, faults>>

\* The update names only the id; the revision advances when the status differs
\* from the one that was read.
HbWrite(p) ==
    LET c == calls[p] IN
    /\ At(p, "hb_write")
    /\ nodes' = [nodes EXCEPT ![c.node] = c.st]
    /\ revision' = IF c.st # c.was THEN revision + 1 ELSE revision
    /\ IF c.st = "active" /\ c.was # "active" THEN Goto(p, "retry_list") ELSE Return(p)
    /\ UNCHANGED <<world, assign, pending, users, lock, allows, refused, nodeOps, faults>>

\* Mutant: the retry finds nothing to do.
RetryListMutant(p) ==
    /\ At(p, "retry_list")
    /\ calls' = [calls EXCEPT ![p].pc = "retry", ![p].todo = {}]
    /\ UNCHANGED <<world, tables, lock, allows, refused, nodeOps, faults>>

\* retry_pending_allocations lists the rows once and allocates one by one.
RetryList(p) ==
    /\ At(p, "retry_list")
    /\ calls' = [calls EXCEPT ![p].pc = "retry", ![p].todo = pending]
    /\ UNCHANGED <<world, tables, lock, allows, refused, nodeOps, faults>>

RetryNext(p) ==
    /\ At(p, "retry")
    /\ \/ calls[p].todo = {} /\ Return(p)
       \/ \E z \in calls[p].todo :
            calls' = [calls EXCEPT ![p].pc = "lock", ![p].zone = z, ![p].todo = @ \ {z},
                                   ![p].node = NoNode]
    /\ UNCHANGED <<world, tables, lock, allows, refused, nodeOps, faults>>

-----------------------------------------------------------------------------
(* allocate_zone_relay.                                                    *)

Lock(p) ==
    LET c == calls[p] IN
    /\ At(p, "lock")
    /\ lock[c.zone] = NoCall
    /\ lock' = [lock EXCEPT ![c.zone] = p]
    /\ Goto(p, IF c.op = "register_user" THEN "plan" ELSE "sticky")
    /\ UNCHANGED <<world, tables, allows, refused, nodeOps, faults>>

\* An active assignment ...
Sticky(p) ==
    LET a == assign[calls[p].zone] IN
    /\ At(p, "sticky")
    /\ calls' = [calls EXCEPT ![p].seen = a,
                              ![p].pc = IF a.gen > 0 /\ a.state = "active" THEN "keep" ELSE "choose"]
    /\ UNCHANGED <<world, tables, lock, allows, refused, nodeOps, faults>>

\* ... to a node that is assignable is kept.
Keep(p) ==
    /\ At(p, "keep")
    /\ Goto(p, IF Assignable(calls[p].seen.relay) THEN "clear" ELSE "choose")
    /\ UNCHANGED <<world, tables, lock, allows, refused, nodeOps, faults>>

\* choose_automatic_relay: the assignable nodes that a rule selects, and when there
\* are none those of the fallback list.
Candidates(hint) ==
    LET hit == {n \in hint : Assignable(n)}
    IN  IF hit # {} THEN hit ELSE {n \in world.fallback : Assignable(n)}

\* Mutant: the pending row is cleared when a node is chosen, before it is assigned.
ChooseMutant(p) ==
    /\ At(p, "choose")
    /\ \E hint \in world.hints :
         \/ /\ \E n \in Candidates(hint) :
                  calls' = [calls EXCEPT ![p].pc = "check", ![p].node = n]
            /\ pending' = pending \ {calls[p].zone}
         \/ Candidates(hint) = {} /\ Goto(p, "record") /\ UNCHANGED pending
    /\ UNCHANGED <<world, nodes, revision, assign, users, lock, allows, refused, nodeOps, faults>>

\* One of the candidates, by load; without one the zone is recorded as pending,
\* also while nodes are active that the policy does not allow.
Choose(p) ==
    /\ At(p, "choose")
    /\ \E hint \in world.hints :
         \/ \E n \in Candidates(hint) :
              calls' = [calls EXCEPT ![p].pc = "check", ![p].node = n]
         \/ Candidates(hint) = {} /\ Goto(p, "record")
    /\ UNCHANGED <<world, tables, lock, allows, refused, nodeOps, faults>>

\* What a call does next when a statement of it fails: an allocation records the
\* zone as pending, the others answer with the error.
Failed(p) == IF calls[p].op \in {"assign", "migrate"} THEN Return(p) ELSE Goto(p, "record")

\* assign_zone_relay and start_relay_migration: the node is checked again ...
Check(p) ==
    /\ At(p, "check")
    /\ IF Assignable(calls[p].node) THEN Goto(p, "fetch") ELSE Failed(p)
    /\ UNCHANGED <<world, tables, lock, allows, refused, nodeOps, faults>>

\* ... the row is read ...
Fetch(p) ==
    LET c == calls[p]  a == assign[c.zone] IN
    /\ At(p, "fetch")
    /\ IF c.op = "migrate" /\ (a.gen = 0 \/ a.relay = c.node) THEN Return(p)
       ELSE calls' = [calls EXCEPT ![p].pc = "write", ![p].seen = a]
    /\ UNCHANGED <<world, tables, lock, allows, refused, nodeOps, faults>>

\* Mutant: an assignment to another relay starts at generation one.
NewAssignMutantRestart(op, a, n) ==
    [relay |-> n, state |-> IF op = "migrate" THEN "migrating" ELSE "active",
     gen |-> IF op # "migrate" /\ a.relay # n THEN 1 ELSE a.gen + 1]

\* ... and replaced: a changed relay, or one that was migrating, is a new
\* generation; a migration always is.
NewAssign(op, a, n) ==
    [relay |-> n, state |-> IF op = "migrate" THEN "migrating" ELSE "active",
     gen |-> IF op # "migrate" /\ a.gen > 0 /\ a.relay = n /\ a.state = "active"
                THEN a.gen ELSE a.gen + 1]

Write(p) ==
    LET c == calls[p]  a == NewAssign(c.op, c.seen, c.node) IN
    /\ At(p, "write")
    /\ a.gen <= MaxGen
    /\ assign' = [assign EXCEPT ![c.zone] = a]
    /\ IF c.op \in {"assign", "migrate"} THEN Return(p)
       ELSE calls' = [calls EXCEPT ![p].pc = "clear", ![p].seen = a]
    /\ UNCHANGED <<world, nodes, revision, pending, users, lock, allows, refused, nodeOps, faults>>

\* The lock is dropped; a node's retry goes on with the next zone, an admission
\* with the assignment it was given.
AfterAllocate(p, got) ==
    /\ lock' = [lock EXCEPT ![calls[p].zone] = NoCall]
    /\ IF calls[p].op \in {"register_node", "heartbeat"} THEN Goto(p, "retry")
       ELSE IF calls[p].op = "admission" /\ got THEN Goto(p, "adm_node") ELSE Return(p)

\* A row that cannot be cleared or recorded is only logged.
Clear(p) ==
    /\ At(p, "clear")
    /\ pending' = pending \ {calls[p].zone}
    /\ AfterAllocate(p, TRUE)
    /\ UNCHANGED <<world, nodes, revision, assign, users, allows, refused, nodeOps, faults>>

Record(p) ==
    /\ At(p, "record")
    /\ pending' = pending \cup {calls[p].zone}
    /\ AfterAllocate(p, FALSE)
    /\ UNCHANGED <<world, nodes, revision, assign, users, allows, refused, nodeOps, faults>>

\* complete_relay_migration is one conditional statement.
Complete(z, g) ==
    /\ "complete" \in world.ops
    /\ assign[z].gen = g /\ assign[z].state = "migrating"
    /\ assign' = [assign EXCEPT ![z].state = "active"]
    /\ UNCHANGED <<world, nodes, revision, pending, users, lock, calls, allows, refused, nodeOps, faults>>

-----------------------------------------------------------------------------
(* check_relay_admission, for the relay and the generation that the caller *)
(* names (0 for none).                                                     *)

AdmRead(p) ==
    LET a == assign[calls[p].zone] IN
    /\ At(p, "adm_read")
    /\ calls' = [calls EXCEPT ![p].seen = a, ![p].pc = IF a.gen = 0 THEN "lock" ELSE "adm_node"]
    /\ UNCHANGED <<world, tables, lock, allows, refused, nodeOps, faults>>

\* Another generation or another relay is redirected, a node that is not active
\* refused, and so is a device of another zone (verify_device_binding).
AdmNode(p) ==
    LET c == calls[p]  a == c.seen IN
    /\ At(p, "adm_node")
    /\ Return(p)
    /\ \/ /\ c.gen \in {0, a.gen} /\ c.ask = a.relay /\ Assignable(a.relay)
          /\ allows' = allows \cup {[zone |-> c.zone, relay |-> a.relay, gen |-> a.gen]}
       \/ UNCHANGED allows
    /\ UNCHANGED <<world, tables, lock, refused, nodeOps, faults>>

-----------------------------------------------------------------------------
(* register_user_with_relay_allocation: the node is planned outside the    *)
(* transaction and checked again inside it.                                *)

Plan(p) ==
    /\ At(p, "plan")
    /\ \E hint \in world.hints :
         \/ \E n \in Candidates(hint) :
              calls' = [calls EXCEPT ![p].pc = "commit", ![p].node = n]
         \/ /\ Candidates(hint) = {}
            /\ calls' = [calls EXCEPT ![p].pc = "commit", ![p].node = NoNode]
    /\ UNCHANGED <<world, tables, lock, allows, refused, nodeOps, faults>>

\* The account together with its assignment or its pending row; an assignment
\* that already exists makes the insert, and with it all of it, fail.
Commit(p) ==
    LET c == calls[p]  z == c.zone IN
    /\ At(p, "commit")
    /\ \/ /\ z \in users
          /\ UNCHANGED <<users, assign, pending, refused>>
       \/ /\ z \notin users /\ Assignable(c.node) /\ assign[z].gen = 0
          /\ users' = users \cup {z}
          /\ assign' = [assign EXCEPT ![z] = NewAssign("allocate", NoAssign, c.node)]
          /\ pending' = pending \ {z}
          /\ UNCHANGED refused
       \/ /\ z \notin users /\ Assignable(c.node) /\ assign[z].gen > 0
          /\ refused' = refused \cup {z}
          /\ UNCHANGED <<users, assign, pending>>
       \/ /\ z \notin users /\ ~Assignable(c.node)
          /\ users' = users \cup {z}
          /\ pending' = pending \cup {z}
          /\ UNCHANGED <<assign, refused>>
    /\ lock' = [lock EXCEPT ![z] = NoCall]
    /\ Return(p)
    /\ UNCHANGED <<world, nodes, revision, allows, nodeOps, faults>>

\* clear_state_by_active_code, one transaction without the zone's lock.
ClearAccount(z) ==
    /\ "clear" \in world.ops
    /\ z \in users
    /\ users' = users \ {z}
    /\ assign' = [assign EXCEPT ![z] = NoAssign]
    /\ pending' = pending \ {z}
    /\ UNCHANGED <<world, nodes, revision, lock, calls, allows, refused, nodeOps, faults>>

\* A call is cut off between two statements: its lock is dropped with it.
Abort(p) ==
    /\ calls[p].pc # "idle"
    /\ faults < world.faults
    /\ faults' = faults + 1
    /\ Return(p)
    /\ lock' = [z \in Zones |-> IF lock[z] = p THEN NoCall ELSE lock[z]]
    /\ UNCHANGED <<world, tables, allows, refused, nodeOps>>

-----------------------------------------------------------------------------
Init ==
    /\ world \in Worlds
    /\ nodes = [n \in Nodes |-> "absent"] /\ revision = 0
    /\ assign = [z \in Zones |-> NoAssign] /\ pending = {} /\ users = {}
    /\ lock = [z \in Zones |-> NoCall]
    /\ calls = [p \in Calls |-> NoCallState]
    /\ allows = {} /\ refused = {} /\ nodeOps = 0 /\ faults = 0

Request(p) ==
    \/ \E op \in {"register_node", "heartbeat"}, n \in Nodes, st \in world.states \cup {"absent"} :
            Begin(p, op, [NoCallState EXCEPT !.node = n, !.st = st])
    \/ \E op \in {"allocate", "register_user"}, z \in Zones :
            Begin(p, op, [NoCallState EXCEPT !.zone = z])
    \/ \E op \in {"assign", "migrate"}, z \in Zones, n \in Nodes :
            Begin(p, op, [NoCallState EXCEPT !.zone = z, !.node = n])

\* A relay asks for a zone, naming the current generation or none.
KeepTunnel(p, z) ==
    \E n \in Nodes, g \in {0, assign[z].gen} :
        Begin(p, "admission", [NoCallState EXCEPT !.zone = z, !.ask = n, !.gen = g])

Step(p) ==
    \/ RegRead(p) \/ RegWrite(p) \/ HbRead(p) \/ HbWrite(p) \/ RetryList(p) \/ RetryNext(p)
    \/ Lock(p) \/ Sticky(p) \/ Keep(p) \/ Choose(p) \/ Check(p) \/ Fetch(p) \/ Write(p)
    \/ Clear(p) \/ Record(p) \/ AdmRead(p) \/ AdmNode(p) \/ Plan(p) \/ Commit(p)

Next ==
    \/ \E p \in Calls : Request(p) \/ Step(p) \/ Abort(p) \/ \E z \in Zones : KeepTunnel(p, z)
    \/ \E z \in Zones : ClearAccount(z) \/ \E g \in 1..MaxGen : Complete(z, g)

Spec == Init /\ [][Next]_vars

\* Calls are polled to their end, and the devices of a zone keep asking.
FairSpec ==
    /\ Spec
    /\ \A p \in Calls : SF_vars(Step(p))
    /\ \A z \in Zones : SF_vars(\E p \in Calls : KeepTunnel(p, z))

-----------------------------------------------------------------------------
\* Types, and the zone's lock: its holder is one of the calls inside an allocation
\* or a registration of that zone.
Inside == {"plan", "commit", "sticky", "keep", "choose", "clear", "record"}
TypeOK ==
    /\ world \in Worlds
    /\ nodes \in [Nodes -> Statuses] /\ revision \in 0..world.nodeOps
    /\ assign \in [Zones -> [relay : Nodes \cup {NoNode}, gen : 0..MaxGen,
                             state : {"active", "migrating"}]]
    /\ pending \subseteq Zones /\ users \subseteq Zones /\ refused \subseteq Zones
    /\ lock \in [Zones -> Calls \cup {NoCall}]
    /\ \A p \in Calls : calls[p].pc \in Inside => lock[calls[p].zone] = p
    /\ \A z \in Zones : lock[z] # NoCall => calls[lock[z]].zone = z
    /\ nodeOps \in 0..world.nodeOps /\ faults \in 0..world.faults

\* An account never falls between the tables: from its registration on it has an
\* assignment or a pending row, whatever call is cut off where.
RegisteredCovered == \A z \in users : assign[z].gen > 0 \/ z \in pending

\* Where no two assignments of a zone overtake each other: one call at a time,
\* or no assign_zone_relay and start_relay_migration, which take no lock.
Ordered == Cardinality(world.calls) = 1 \/ world.ops \cap {"assign", "migrate"} = {}

\* An admission that a relay has cached and checks against the generation of the
\* assignment is an admission to the relay of that assignment, unless the account
\* was cleared in between.
AllowFenced ==
    Ordered /\ "clear" \notin world.ops =>
        \A a \in allows : a.gen = assign[a.zone].gen => a.relay = assign[a.zone].relay

\* As long as no node leaves the active state, concurrent allocations of a zone
\* agree on one relay and one generation.
AllocationStable ==
    world.states \subseteq {"active"} /\ world.ops \cap {"assign", "migrate"} = {} =>
        \A z \in Zones : assign[z].gen <= 1

\* What the tables say of a zone holds together, whatever calls interleave and
\* wherever one is cut off (allocate_zone_relay, check_relay_admission,
\* register_user_with_relay_allocation, clear_state_by_active_code).
RelaySound == TypeOK /\ RegisteredCovered /\ AllowFenced /\ AllocationStable

\* The generation of a zone's assignment never goes back, and a change of a
\* node's status is a new revision of the node map, so a resolver that asks with
\* its revision hears of it (assign_zone_relay, heartbeat_relay_node).
SerialOrder ==
    [][Cardinality(world.calls) = 1 /\ "clear" \notin world.ops =>
         /\ \A z \in Zones : assign'[z].gen >= assign[z].gen
         /\ nodes' # nodes => revision' > revision]_vars

\* The registration of a new account succeeds, with a relay or without.
RegistrationSucceeds == refused = {}

\* A zone is left pending only while no relay could take it: a node that becomes
\* active retries what is pending.
Quiet == \A p \in Calls : calls[p].pc = "idle"
PendingRetried ==
    Quiet => \A z \in pending : assign[z].gen = 0 => \A n \in world.fallback : ~Assignable(n)

\* An account gets its relay once a node of the fallback list stays active, because
\* its devices keep asking for a tunnel (an account whose requests match no rule and
\* no fallback stays pending, as the code intends).
AskingServes ==
    "admission" \in world.ops /\ (\E n \in Nodes : <>[](n \in world.fallback /\ Assignable(n)))
        => \A z \in Zones : (z \in users) ~> (assign[z].gen > 0 \/ z \notin users)

\* Nobody needs to ask for a zone that is pending when a node of the fallback list
\* becomes active: its retry assigns it, as long as it is not cut off and no node
\* leaves the active state while it runs.
RetryServes ==
    world.faults = 0 /\ world.states \subseteq {"active"} =>
        \A p \in Calls, z \in Zones :
            (At(p, "retry_list") /\ calls[p].node \in world.fallback /\ z \in pending)
                ~> (z \notin pending /\ (z \in users => assign[z].gen > 0))

\* The two ways by which a pending zone comes to its relay.
EventuallyAssigned == AskingServes /\ RetryServes

=============================================================================

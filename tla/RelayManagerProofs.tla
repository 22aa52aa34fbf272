------------------------- MODULE RelayManagerProofs -------------------------
(***************************************************************************)
(* Proofs about RelayManager: for any number of calls, zones, nodes and    *)
(* generations RelaySound holds in every state, and where calls come one   *)
(* at a time generations and revisions only go forward.                    *)
(*                                                                         *)
(* The inductive invariant RInv says who holds the named lock of a zone    *)
(* (HoldInv), what the statement a call is about to run still knows of the *)
(* tables it read before (ClearInv, FenceInv, StableInv, SingleInv), and   *)
(* that each node operation pays for at most one revision (CountInv).      *)
(***************************************************************************)
EXTENDS RelayManager, FiniteSetTheorems, TLAPS

Ops == {"none", "register_node", "heartbeat", "allocate", "register_user", "assign", "migrate",
        "admission"}
Pcs == {"idle", "reg_read", "reg_write", "hb_read", "hb_write", "retry_list", "retry", "lock",
        "sticky", "keep", "choose", "check", "fetch", "write", "clear", "record", "adm_read", "adm_node",
        "plan", "commit"}
Assignment == [relay : Nodes \cup {NoNode}, gen : 0..MaxGen, state : {"active", "migrating"}]
CallState ==
    [op: Ops, pc: Pcs, zone: Zones, node: Nodes \cup {NoNode}, st: Statuses, seen: Assignment,
     was: Statuses, ask: Nodes \cup {NoNode}, gen: 0..MaxGen, todo: SUBSET Zones]

(***************************************************************************)
(* The inductive invariant                                                 *)
(***************************************************************************)
CallsTyped ==
    /\ calls \in [Calls -> CallState]
    /\ allows \subseteq [zone: Zones, relay: Nodes \cup {NoNode}, gen: 0..MaxGen]

NodeSteps == {"reg_read", "reg_write", "hb_read", "hb_write"}

\* What a call is, by itself.
LocalInv ==
    \A p \in Calls :
        /\ calls[p].pc # "idle" => p \in world.calls /\ calls[p].op \in world.ops
        /\ calls[p].op \in {"assign", "migrate"} => calls[p].pc \in {"check", "fetch", "write"}
        /\ calls[p].pc \in NodeSteps \cup {"check", "fetch", "write"} => calls[p].node \in Nodes

\* The calls that hold the lock of their zone.
Holding(p) ==
    \/ calls[p].pc \in Inside
    \/ calls[p].pc \in {"check", "fetch", "write"} /\ calls[p].op \notin {"assign", "migrate"}

HoldInv ==
    \A p \in Calls, z \in Zones : lock[z] = p <=> Holding(p) /\ calls[p].zone = z

\* The calls that may still write a new revision of the node map.
Busy == {p \in Calls : calls[p].pc \in NodeSteps}

CountInv == IsFiniteSet(Busy) /\ revision + Cardinality(Busy) <= nodeOps

\* The pending row is cleared only behind an assignment, or the account is gone.
ClearInv ==
    \A p \in Calls :
        calls[p].pc \in {"keep", "clear"} =>
            assign[calls[p].zone].gen > 0 \/ calls[p].zone \notin users

\* b is a, or came after a.
Behind(a, b) == a.gen <= b.gen /\ (a.gen = b.gen => a.relay = b.relay)

\* Where assignments do not overtake each other, a call writes over the row it
\* read, and what it answers from is the row or an older one.
FenceInv ==
    Ordered /\ "clear" \notin world.ops =>
        /\ \A p \in Calls : calls[p].pc = "write" =>
             /\ calls[p].seen.gen = assign[calls[p].zone].gen
             /\ calls[p].seen.relay = assign[calls[p].zone].relay
        /\ \A p \in Calls : calls[p].pc \in {"keep", "clear", "adm_node"} =>
             Behind(calls[p].seen, assign[calls[p].zone])
        /\ \A a \in allows : Behind(a, assign[a.zone])

\* Nodes that never leave the active state and operators that do not interfere.
Stable == world.states \subseteq {"active"} /\ world.ops \cap {"assign", "migrate"} = {}

StableInv ==
    Stable =>
        /\ \A n \in Nodes : nodes[n] \in {"absent", "active"}
        /\ \A z \in Zones : /\ assign[z].gen <= 1
                            /\ assign[z].gen > 0 => /\ assign[z].state = "active"
                                                    /\ Assignable(assign[z].relay)
        /\ \A p \in Calls :
             /\ calls[p].pc \in {"reg_read", "hb_read"} => calls[p].st \in {"absent", "active"}
             /\ calls[p].pc \in {"reg_write", "hb_write"} => calls[p].st = "active"
             /\ calls[p].pc \in {"choose", "check", "fetch", "write"} => assign[calls[p].zone].gen = 0
             /\ calls[p].pc \in {"fetch", "write"} => Assignable(calls[p].node)
             /\ calls[p].pc = "write" => calls[p].seen.gen = 0
             /\ calls[p].pc = "keep" => Assignable(calls[p].seen.relay)

\* A heartbeat that runs alone writes over the status it read.
SingleInv ==
    Cardinality(world.calls) = 1 =>
        \A p \in Calls : calls[p].pc = "hb_write" => calls[p].was = nodes[calls[p].node]

RInv ==
    /\ TypeOK
    /\ CallsTyped
    /\ LocalInv
    /\ HoldInv
    /\ CountInv
    /\ RegisteredCovered
    /\ ClearInv
    /\ FenceInv
    /\ StableInv
    /\ SingleInv

(***************************************************************************)
(* What a step changes                                                     *)
(***************************************************************************)
\* Only the call p changes, to these local variables.
Now(p, pc, zone, node, st, seen, was, todo) ==
    /\ calls' \in [Calls -> CallState]
    /\ \A q \in Calls : q # p => calls'[q] = calls[q]
    /\ calls'[p].op = calls[p].op /\ calls'[p].ask = calls[p].ask /\ calls'[p].gen = calls[p].gen
    /\ calls'[p].pc = pc /\ calls'[p].zone = zone /\ calls'[p].node = node /\ calls'[p].st = st
    /\ calls'[p].seen = seen /\ calls'[p].was = was /\ calls'[p].todo = todo

Same(p, pc) ==
    Now(p, pc, calls[p].zone, calls[p].node, calls[p].st, calls[p].seen, calls[p].was, calls[p].todo)

Saw(p, pc, a) ==
    Now(p, pc, calls[p].zone, calls[p].node, calls[p].st, a, calls[p].was, calls[p].todo)

Took(p, pc, n) ==
    Now(p, pc, calls[p].zone, n, calls[p].st, calls[p].seen, calls[p].was, calls[p].todo)

\* The call p has ended.
Gone(p) ==
    /\ calls' \in [Calls -> CallState]
    /\ \A q \in Calls : q # p => calls'[q] = calls[q]
    /\ calls'[p] = NoCallState

\* A call has begun.
Began(p) ==
    /\ calls' \in [Calls -> CallState]
    /\ \A q \in Calls : q # p => calls'[q] = calls[q]
    /\ calls[p].pc = "idle" /\ p \in world.calls
    /\ calls'[p].op \in world.ops
    /\ \/ /\ calls'[p].op \in {"register_node", "heartbeat"}
          /\ calls'[p].pc \in {"reg_read", "hb_read"}
          /\ calls'[p].st \in world.states \cup {"absent"} /\ calls'[p].node \in Nodes
          /\ nodeOps < world.nodeOps /\ nodeOps' = nodeOps + 1
       \/ /\ calls'[p].op \in {"allocate", "register_user"} /\ calls'[p].pc = "lock"
          /\ nodeOps' = nodeOps
       \/ /\ calls'[p].op \in {"assign", "migrate"} /\ calls'[p].pc = "check"
          /\ calls'[p].node \in Nodes /\ nodeOps' = nodeOps
       \/ /\ calls'[p].op = "admission" /\ calls'[p].pc = "adm_read"
          /\ nodeOps' = nodeOps
    /\ UNCHANGED <<world, tables, lock, allows, refused, faults>>

LEMMA Constants ==
    /\ NoNode \notin Nodes /\ NoCall \notin Calls /\ Zones # {}
    /\ MaxGen \in Nat /\ MaxGen >= 1
    /\ \A w \in Worlds : /\ w.calls \subseteq Calls /\ IsFiniteSet(w.calls)
                         /\ w.states \subseteq Statuses
                         /\ w.nodeOps \in Nat /\ w.faults \in Nat
BY RelayAssumption

LEMMA NoCallTyped == NoCallState \in CallState /\ NoCallState.pc = "idle" /\ NoCallState.op = "none"
<1>1. (CHOOSE z \in Zones : TRUE) \in Zones
  BY Constants
<1>2. NoAssign \in Assignment
  BY Constants DEF NoAssign, Assignment
<1> QED BY <1>1, <1>2, Constants DEF NoCallState, CallState, Ops, Pcs, Statuses

LEMMA Moved ==
    ASSUME CallsTyped, NEW p \in Calls, NEW pc \in Pcs, Goto(p, pc)
    PROVE  Same(p, pc)
BY DEF CallsTyped, Goto, Same, Now, CallState

LEMMA Returned ==
    ASSUME CallsTyped, NEW p \in Calls, Return(p)
    PROVE  Gone(p)
BY NoCallTyped DEF CallsTyped, Return, Gone

LEMMA Beginning ==
    ASSUME RInv, NEW p \in Calls, NEW op \in Ops, NEW new \in CallState, Begin(p, op, new),
           op \in {"register_node", "heartbeat"} => new.st \in world.states \cup {"absent"},
           op \in {"register_node", "heartbeat", "assign", "migrate"} => new.node \in Nodes,
           op # "none"
    PROVE  Began(p)
<1>1. calls \in [Calls -> CallState]
  BY DEF RInv, CallsTyped
<1> DEFINE pc == CASE op = "register_node" -> "reg_read"
                   [] op = "heartbeat" -> "hb_read"
                   [] op \in {"allocate", "register_user"} -> "lock"
                   [] op \in {"assign", "migrate"} -> "check"
                   [] op = "admission" -> "adm_read"
<1>2. calls' = [calls EXCEPT ![p] = [new EXCEPT !.op = op, !.pc = pc]]
  BY DEF Begin
<1>3. pc \in {"reg_read", "hb_read", "lock", "check", "adm_read"}
      /\ (op \in {"register_node", "heartbeat"} => pc \in {"reg_read", "hb_read"})
      /\ (op \in {"allocate", "register_user"} => pc = "lock")
      /\ (op \in {"assign", "migrate"} => pc = "check")
      /\ (op = "admission" => pc = "adm_read")
  BY DEF Ops
<1> HIDE DEF pc
<1>4. pc \in Pcs
  BY <1>3 DEF Pcs
<1>5. PICK c \in CallState : c = [new EXCEPT !.op = op, !.pc = pc]
  BY <1>4 DEF CallState
<1>6. c.op = op /\ c.pc = pc /\ c.node = new.node /\ c.st = new.st
  BY <1>5 DEF CallState
<1>7. calls' = [calls EXCEPT ![p] = c]
  BY <1>2, <1>5
<1>8. calls' \in [Calls -> CallState] /\ calls'[p] = c /\ \A q \in Calls : q # p => calls'[q] = calls[q]
  BY <1>1, <1>7
<1>9. calls[p].pc = "idle" /\ p \in world.calls /\ op \in world.ops
      /\ UNCHANGED <<world, tables, lock, allows, refused, faults>>
  BY DEF Begin
<1>10. IF op \in {"register_node", "heartbeat"}
         THEN nodeOps < world.nodeOps /\ nodeOps' = nodeOps + 1 ELSE nodeOps' = nodeOps
  BY DEF Begin
<1>11. op \in {"register_node", "heartbeat", "allocate", "register_user", "assign", "migrate",
               "admission"}
  BY DEF Ops
<1> QED BY <1>3, <1>6, <1>8, <1>9, <1>10, <1>11 DEF Began

LEMMA Requested ==
    ASSUME RInv, NEW p \in Calls, Request(p) \/ \E z \in Zones : KeepTunnel(p, z)
    PROVE  Began(p)
<1>1. NoCallState \in CallState
  BY NoCallTyped
<1>2. world \in Worlds /\ world.states \subseteq Statuses
  BY Constants DEF RInv, TypeOK
<1>3. ASSUME NEW op \in {"register_node", "heartbeat"}, NEW n \in Nodes,
             NEW st \in world.states \cup {"absent"},
             Begin(p, op, [NoCallState EXCEPT !.node = n, !.st = st])
      PROVE  Began(p)
  <2>1. PICK c \in CallState : c = [NoCallState EXCEPT !.node = n, !.st = st]
    BY <1>1, <1>2 DEF CallState, Statuses
  <2>2. c.st = st /\ c.node = n
    BY <1>1, <2>1 DEF CallState
  <2>3. op \in Ops /\ op \notin {"assign", "migrate", "none"}
    BY DEF Ops
  <2> QED BY <1>3, <2>1, <2>2, <2>3, Beginning
<1>4. ASSUME NEW op \in {"allocate", "register_user"}, NEW z \in Zones,
             Begin(p, op, [NoCallState EXCEPT !.zone = z])
      PROVE  Began(p)
  <2>1. PICK c \in CallState : c = [NoCallState EXCEPT !.zone = z]
    BY <1>1 DEF CallState
  <2>2. op \in Ops /\ op \notin {"assign", "migrate", "none", "register_node", "heartbeat"}
    BY DEF Ops
  <2> QED BY <1>4, <2>1, <2>2, Beginning
<1>5. ASSUME NEW op \in {"assign", "migrate"}, NEW z \in Zones, NEW n \in Nodes,
             Begin(p, op, [NoCallState EXCEPT !.zone = z, !.node = n])
      PROVE  Began(p)
  <2>1. PICK c \in CallState : c = [NoCallState EXCEPT !.zone = z, !.node = n]
    BY <1>1 DEF CallState
  <2>2. c.node = n
    BY <1>1, <2>1 DEF CallState
  <2>3. op \in Ops /\ op \notin {"none", "register_node", "heartbeat"}
    BY DEF Ops
  <2> QED BY <1>5, <2>1, <2>2, <2>3, Beginning
<1>6. ASSUME NEW z \in Zones, NEW n \in Nodes, NEW g \in {0, assign[z].gen},
             Begin(p, "admission", [NoCallState EXCEPT !.zone = z, !.ask = n, !.gen = g])
      PROVE  Began(p)
  <2>1. g \in 0..MaxGen
    BY Constants DEF RInv, TypeOK
  <2>2. PICK c \in CallState : c = [NoCallState EXCEPT !.zone = z, !.ask = n, !.gen = g]
    BY <1>1, <2>1 DEF CallState
  <2>3. "admission" \in Ops
    BY DEF Ops
  <2> QED BY <1>6, <2>2, <2>3, Beginning
<1> QED BY <1>3, <1>4, <1>5, <1>6 DEF Request, KeepTunnel

(***************************************************************************)
(* The next statement of a call, by the statement it has just run.         *)
(***************************************************************************)
LEMMA NodeFlow ==
    ASSUME RInv, NEW p \in Calls
    PROVE  /\ RegRead(p) => \/ Gone(p)
                            \/ \E st \in Statuses :
                                 /\ st = IF calls[p].st # "absent" THEN calls[p].st
                                         ELSE IF nodes[calls[p].node] \in {"draining", "disabled"}
                                                THEN nodes[calls[p].node] ELSE "active"
                                 /\ Now(p, "reg_write", calls[p].zone, calls[p].node, st,
                                        calls[p].seen, calls[p].was, calls[p].todo)
           /\ RegWrite(p) => Same(p, "retry_list") \/ Gone(p)
           /\ HbRead(p) => \/ Gone(p)
                           \/ \E st \in Statuses :
                                /\ nodes[calls[p].node] \notin {"absent", "deleted"}
                                /\ st = IF calls[p].st # "absent" THEN calls[p].st
                                        ELSE IF nodes[calls[p].node] = "unhealthy"
                                               THEN "active" ELSE nodes[calls[p].node]
                                /\ Now(p, "hb_write", calls[p].zone, calls[p].node, st,
                                       calls[p].seen, nodes[calls[p].node], calls[p].todo)
           /\ HbWrite(p) => Same(p, "retry_list") \/ Gone(p)
           /\ RetryList(p) => Now(p, "retry", calls[p].zone, calls[p].node, calls[p].st,
                                  calls[p].seen, calls[p].was, pending)
           /\ RetryNext(p) => \/ Gone(p)
                              \/ \E z \in calls[p].todo :
                                   Now(p, "lock", z, NoNode, calls[p].st, calls[p].seen,
                                       calls[p].was, calls[p].todo \ {z})
<1>1. CallsTyped /\ calls \in [Calls -> CallState] /\ calls[p] \in CallState
  BY DEF RInv, CallsTyped
<1>2. Return(p) => Gone(p)
  BY <1>1, Returned
<1>3. "retry_list" \in Pcs /\ "retry" \in Pcs /\ "lock" \in Pcs
  BY DEF Pcs
<1>4. RegRead(p) => \/ Gone(p)
                    \/ \E st \in Statuses :
                         /\ st = IF calls[p].st # "absent" THEN calls[p].st
                                 ELSE IF nodes[calls[p].node] \in {"draining", "disabled"}
                                        THEN nodes[calls[p].node] ELSE "active"
                         /\ Now(p, "reg_write", calls[p].zone, calls[p].node, st,
                                calls[p].seen, calls[p].was, calls[p].todo)
  <2> DEFINE st == IF calls[p].st # "absent" THEN calls[p].st
                   ELSE IF nodes[calls[p].node] \in {"draining", "disabled"}
                          THEN nodes[calls[p].node] ELSE "active"
  <2>1. st \in Statuses
    BY <1>1 DEF CallState, Statuses
  <2>2. RegRead(p) => Return(p) \/ calls' = [calls EXCEPT ![p].pc = "reg_write", ![p].st = st]
    BY DEF RegRead
  <2>3. calls' = [calls EXCEPT ![p].pc = "reg_write", ![p].st = st] =>
          Now(p, "reg_write", calls[p].zone, calls[p].node, st, calls[p].seen, calls[p].was,
              calls[p].todo)
    <3>1. PICK s \in Statuses : s = st
      BY <2>1
    <3>2. "reg_write" \in Pcs
      BY DEF Pcs
    <3> HIDE DEF st
    <3>3. ASSUME calls' = [calls EXCEPT ![p].pc = "reg_write", ![p].st = s]
          PROVE  Now(p, "reg_write", calls[p].zone, calls[p].node, s, calls[p].seen,
                     calls[p].was, calls[p].todo)
      BY <1>1, <3>2, <3>3 DEF Now, CallState
    <3> QED BY <3>1, <3>3
  <2> QED BY <1>2, <2>1, <2>2, <2>3
<1>5. HbRead(p) => \/ Gone(p)
                   \/ \E st \in Statuses :
                        /\ nodes[calls[p].node] \notin {"absent", "deleted"}
                        /\ st = IF calls[p].st # "absent" THEN calls[p].st
                                ELSE IF nodes[calls[p].node] = "unhealthy"
                                       THEN "active" ELSE nodes[calls[p].node]
                        /\ Now(p, "hb_write", calls[p].zone, calls[p].node, st,
                               calls[p].seen, nodes[calls[p].node], calls[p].todo)
  <2> SUFFICES ASSUME HbRead(p), nodes[calls[p].node] \notin {"absent", "deleted"}
               PROVE  \E st \in Statuses :
                        /\ st = IF calls[p].st # "absent" THEN calls[p].st
                                ELSE IF nodes[calls[p].node] = "unhealthy"
                                       THEN "active" ELSE nodes[calls[p].node]
                        /\ Now(p, "hb_write", calls[p].zone, calls[p].node, st,
                               calls[p].seen, nodes[calls[p].node], calls[p].todo)
    BY <1>2 DEF HbRead
  <2> DEFINE st == IF calls[p].st # "absent" THEN calls[p].st
                   ELSE IF nodes[calls[p].node] = "unhealthy" THEN "active"
                   ELSE nodes[calls[p].node]
  <2>0. calls[p].node \in Nodes
    BY DEF HbRead, At, RInv, LocalInv, NodeSteps
  <2>1. nodes[calls[p].node] \in Statuses
    BY <2>0 DEF RInv, TypeOK
  <2>2. st \in Statuses
    BY <1>1, <2>1 DEF CallState, Statuses
  <2>3. calls' = [calls EXCEPT ![p].pc = "hb_write", ![p].was = nodes[calls[p].node], ![p].st = st]
    BY DEF HbRead
  <2>4. Now(p, "hb_write", calls[p].zone, calls[p].node, st, calls[p].seen, nodes[calls[p].node],
            calls[p].todo)
    <3>1. PICK s \in Statuses, w \in Statuses : s = st /\ w = nodes[calls[p].node]
      BY <2>1, <2>2
    <3>2. "hb_write" \in Pcs
      BY DEF Pcs
    <3>3. calls' = [calls EXCEPT ![p].pc = "hb_write", ![p].was = w, ![p].st = s]
      BY <2>3, <3>1
    <3> HIDE DEF st
    <3>4. Now(p, "hb_write", calls[p].zone, calls[p].node, s, calls[p].seen, w, calls[p].todo)
      BY <1>1, <3>2, <3>3 DEF Now, CallState
    <3> QED BY <3>1, <3>4
  <2> QED BY <2>2, <2>4
<1>6. RegWrite(p) => Same(p, "retry_list") \/ Gone(p)
  BY <1>1, <1>2, <1>3, Moved DEF RegWrite
<1>7. HbWrite(p) => Same(p, "retry_list") \/ Gone(p)
  BY <1>1, <1>2, <1>3, Moved DEF HbWrite
<1>8. RetryList(p) => Now(p, "retry", calls[p].zone, calls[p].node, calls[p].st,
                          calls[p].seen, calls[p].was, pending)
  <2>1. pending \in SUBSET Zones
    BY DEF RInv, TypeOK
  <2>2. ASSUME NEW S \in SUBSET Zones, calls' = [calls EXCEPT ![p].pc = "retry", ![p].todo = S]
        PROVE  Now(p, "retry", calls[p].zone, calls[p].node, calls[p].st, calls[p].seen,
                   calls[p].was, S)
    BY <1>1, <1>3, <2>2 DEF Now, CallState
  <2> QED BY <2>1, <2>2 DEF RetryList
<1>9. RetryNext(p) => \/ Gone(p)
                      \/ \E z \in calls[p].todo :
                           Now(p, "lock", z, NoNode, calls[p].st, calls[p].seen,
                               calls[p].was, calls[p].todo \ {z})
  <2>1. ASSUME NEW z \in calls[p].todo,
               calls' = [calls EXCEPT ![p].pc = "lock", ![p].zone = z, ![p].todo = @ \ {z},
                                      ![p].node = NoNode]
        PROVE  Now(p, "lock", z, NoNode, calls[p].st, calls[p].seen, calls[p].was,
                   calls[p].todo \ {z})
    BY <1>1, <1>3, <2>1 DEF Now, CallState
  <2> QED BY <1>2, <2>1 DEF RetryNext
<1> QED BY <1>4, <1>5, <1>6, <1>7, <1>8, <1>9

\* NewAssign is a generation of its own or the one it replaces.
LEMMA NewAssignIs ==
    ASSUME NEW op, NEW a \in Assignment, NEW n \in Nodes \cup {NoNode}
    PROVE  /\ NewAssign(op, a, n).relay = n
           /\ NewAssign(op, a, n).gen \in Nat /\ NewAssign(op, a, n).gen >= 1
           /\ NewAssign(op, a, n).gen >= a.gen
           /\ NewAssign(op, a, n).gen = a.gen => a.relay = n
           /\ a.gen = 0 => NewAssign(op, a, n).gen = 1
           /\ op # "migrate" => NewAssign(op, a, n).state = "active"
           /\ NewAssign(op, a, n).gen <= MaxGen => NewAssign(op, a, n) \in Assignment
<1>1. a.gen \in Nat
  BY Constants DEF Assignment
<1> QED BY <1>1 DEF NewAssign, Assignment

\* Whatever the policy says, what it selects is assignable.
LEMMA CandidatesAre ==
    ASSUME NEW hint
    PROVE  \A n \in Candidates(hint) : n \in Nodes /\ Assignable(n)
BY DEF Candidates, Assignable

LEMMA AllocFlow ==
    ASSUME RInv, NEW p \in Calls
    PROVE  /\ Lock(p) => Same(p, IF calls[p].op = "register_user" THEN "plan" ELSE "sticky")
           /\ Sticky(p) => LET a == assign[calls[p].zone] IN
                           Saw(p, IF a.gen > 0 /\ a.state = "active" THEN "keep" ELSE "choose", a)
           /\ Keep(p) => \/ Assignable(calls[p].seen.relay) /\ Same(p, "clear")
                         \/ ~Assignable(calls[p].seen.relay) /\ Same(p, "choose")
           /\ Choose(p) => \/ \E n \in Nodes : Assignable(n) /\ Took(p, "check", n)
                           \/ Same(p, "record")
           /\ Check(p) => \/ Assignable(calls[p].node) /\ Same(p, "fetch")
                          \/ calls[p].op \in {"assign", "migrate"} /\ Gone(p)
                          \/ calls[p].op \notin {"assign", "migrate"} /\ Same(p, "record")
           /\ Fetch(p) => \/ calls[p].op = "migrate" /\ Gone(p)
                          \/ Saw(p, "write", assign[calls[p].zone])
           /\ Write(p) => \/ calls[p].op \in {"assign", "migrate"} /\ Gone(p)
                          \/ /\ calls[p].op \notin {"assign", "migrate"}
                             /\ Saw(p, "clear", assign'[calls[p].zone])
           /\ AdmRead(p) => Saw(p, IF assign[calls[p].zone].gen = 0 THEN "lock" ELSE "adm_node",
                                assign[calls[p].zone])
           /\ AdmNode(p) => Gone(p)
           /\ Plan(p) => \E n \in Nodes \cup {NoNode} : Took(p, "commit", n)
           /\ Commit(p) => Gone(p)
           /\ Clear(p) \/ Record(p) => \/ Gone(p) \/ Same(p, "retry")
                                       \/ Clear(p) /\ Same(p, "adm_node")
<1>1. CallsTyped /\ calls \in [Calls -> CallState] /\ calls[p] \in CallState
  BY DEF RInv, CallsTyped
<1>2. Return(p) => Gone(p)
  BY <1>1, Returned
<1>3. \A pc \in Pcs : Goto(p, pc) => Same(p, pc)
  BY <1>1, Moved
<1>4. {"plan", "sticky", "keep", "clear", "choose", "check", "record", "fetch", "write", "adm_node", "lock",
       "commit", "retry"} \subseteq Pcs
  BY DEF Pcs
<1>5. assign[calls[p].zone] \in Assignment /\ calls[p].zone \in Zones
  BY <1>1 DEF RInv, TypeOK, Assignment, CallState
<1>6. ASSUME NEW pc \in Pcs, NEW a \in Assignment, calls' = [calls EXCEPT ![p].seen = a, ![p].pc = pc]
      PROVE  Saw(p, pc, a)
  BY <1>1, <1>6 DEF Saw, Now, CallState
<1>7. ASSUME NEW pc \in Pcs, NEW a \in Assignment, calls' = [calls EXCEPT ![p].pc = pc, ![p].seen = a]
      PROVE  Saw(p, pc, a)
  BY <1>1, <1>7 DEF Saw, Now, CallState
<1>8. ASSUME NEW pc \in Pcs, NEW n \in Nodes \cup {NoNode},
             calls' = [calls EXCEPT ![p].pc = pc, ![p].node = n]
      PROVE  Took(p, pc, n)
  BY <1>1, <1>8 DEF Took, Now, CallState
<1>9. Lock(p) => Same(p, IF calls[p].op = "register_user" THEN "plan" ELSE "sticky")
  BY <1>3, <1>4 DEF Lock
<1>10. Sticky(p) => LET a == assign[calls[p].zone] IN
                    Saw(p, IF a.gen > 0 /\ a.state = "active" THEN "keep" ELSE "choose", a)
  BY <1>4, <1>5, <1>6 DEF Sticky
<1>19. Keep(p) => \/ Assignable(calls[p].seen.relay) /\ Same(p, "clear")
                  \/ ~Assignable(calls[p].seen.relay) /\ Same(p, "choose")
  BY <1>3, <1>4 DEF Keep
<1>11. Choose(p) => \/ \E n \in Nodes : Assignable(n) /\ Took(p, "check", n)
                    \/ Same(p, "record")
  BY <1>3, <1>4, <1>8, CandidatesAre DEF Choose
<1>12. Check(p) => \/ Assignable(calls[p].node) /\ Same(p, "fetch")
                   \/ calls[p].op \in {"assign", "migrate"} /\ Gone(p)
                   \/ calls[p].op \notin {"assign", "migrate"} /\ Same(p, "record")
  BY <1>2, <1>3, <1>4 DEF Check, Failed
<1>13. Fetch(p) => \/ calls[p].op = "migrate" /\ Gone(p)
                   \/ Saw(p, "write", assign[calls[p].zone])
  BY <1>2, <1>4, <1>5, <1>7 DEF Fetch
<1>14. Write(p) => \/ calls[p].op \in {"assign", "migrate"} /\ Gone(p)
                   \/ /\ calls[p].op \notin {"assign", "migrate"}
                      /\ Saw(p, "clear", assign'[calls[p].zone])
  <2> SUFFICES ASSUME Write(p), calls[p].op \notin {"assign", "migrate"}
               PROVE  Saw(p, "clear", assign'[calls[p].zone])
    BY <1>2 DEF Write
  <2>1. PICK a : a = NewAssign(calls[p].op, calls[p].seen, calls[p].node)
    OBVIOUS
  <2>2. calls[p].seen \in Assignment /\ calls[p].node \in Nodes \cup {NoNode}
    BY <1>1 DEF CallState
  <2>3. a.gen <= MaxGen /\ assign' = [assign EXCEPT ![calls[p].zone] = a]
        /\ calls' = [calls EXCEPT ![p].pc = "clear", ![p].seen = a]
    BY <2>1 DEF Write
  <2>4. a \in Assignment
    BY <2>1, <2>2, <2>3, NewAssignIs
  <2>5. assign'[calls[p].zone] = a
    BY <1>5, <2>3 DEF RInv, TypeOK
  <2> QED BY <1>4, <1>7, <2>3, <2>4, <2>5
<1>15. AdmRead(p) => Saw(p, IF assign[calls[p].zone].gen = 0 THEN "lock" ELSE "adm_node",
                         assign[calls[p].zone])
  BY <1>4, <1>5, <1>6 DEF AdmRead
<1>16. (AdmNode(p) => Gone(p)) /\ (Commit(p) => Gone(p))
  BY <1>2 DEF AdmNode, Commit
<1>17. Plan(p) => \E n \in Nodes \cup {NoNode} : Took(p, "commit", n)
  BY <1>4, <1>8, CandidatesAre DEF Plan
<1>18. Clear(p) \/ Record(p) => \/ Gone(p) \/ Same(p, "retry")
                                \/ Clear(p) /\ Same(p, "adm_node")
  BY <1>2, <1>3, <1>4 DEF Clear, Record, AfterAllocate
<1> QED BY <1>9, <1>10, <1>11, <1>12, <1>13, <1>14, <1>15, <1>16, <1>17, <1>18, <1>19

Acts(p) == Request(p) \/ Step(p) \/ Abort(p) \/ \E z \in Zones : KeepTunnel(p, z)

\* How a call comes to the statement it is about to run.
Arrival(p) ==
    /\ calls'[p].pc \in {"reg_read", "hb_read"} => Began(p)
    /\ calls'[p].pc = "reg_write" =>
         /\ RegRead(p)
         /\ \E st \in Statuses :
              /\ st = IF calls[p].st # "absent" THEN calls[p].st
                      ELSE IF nodes[calls[p].node] \in {"draining", "disabled"}
                             THEN nodes[calls[p].node] ELSE "active"
              /\ Now(p, "reg_write", calls[p].zone, calls[p].node, st, calls[p].seen,
                     calls[p].was, calls[p].todo)
    /\ calls'[p].pc = "hb_write" =>
         /\ HbRead(p)
         /\ \E st \in Statuses :
              /\ nodes[calls[p].node] \notin {"absent", "deleted"}
              /\ st = IF calls[p].st # "absent" THEN calls[p].st
                      ELSE IF nodes[calls[p].node] = "unhealthy"
                             THEN "active" ELSE nodes[calls[p].node]
              /\ Now(p, "hb_write", calls[p].zone, calls[p].node, st, calls[p].seen,
                     nodes[calls[p].node], calls[p].todo)
    /\ calls'[p].pc = "keep" =>
         Sticky(p) /\ assign[calls[p].zone].gen > 0 /\ Saw(p, "keep", assign[calls[p].zone])
    /\ calls'[p].pc = "choose" =>
         \/ /\ Sticky(p) /\ Saw(p, "choose", assign[calls[p].zone])
            /\ ~(assign[calls[p].zone].gen > 0 /\ assign[calls[p].zone].state = "active")
         \/ Keep(p) /\ ~Assignable(calls[p].seen.relay) /\ Same(p, "choose")
    /\ calls'[p].pc = "check" =>
         \/ Began(p) /\ calls'[p].op \in {"assign", "migrate"}
         \/ Choose(p) /\ \E n \in Nodes : Took(p, "check", n)
    /\ calls'[p].pc = "fetch" => Check(p) /\ Assignable(calls[p].node) /\ Same(p, "fetch")
    /\ calls'[p].pc = "write" => Fetch(p) /\ Saw(p, "write", assign[calls[p].zone])
    /\ calls'[p].pc = "clear" =>
         \/ Keep(p) /\ Same(p, "clear")
         \/ Write(p) /\ Saw(p, "clear", assign'[calls[p].zone])
    /\ calls'[p].pc = "adm_node" =>
         \/ AdmRead(p) /\ Saw(p, "adm_node", assign[calls[p].zone])
         \/ Clear(p) /\ Same(p, "adm_node")

LEMMA Arrives ==
    ASSUME RInv, NEW p \in Calls, Acts(p)
    PROVE  /\ calls' \in [Calls -> CallState]
           /\ \A q \in Calls : q # p => calls'[q] = calls[q]
           /\ Arrival(p)
<1>1. ASSUME Gone(p)
      PROVE  /\ calls' \in [Calls -> CallState]
             /\ \A q \in Calls : q # p => calls'[q] = calls[q]
             /\ Arrival(p)
  BY <1>1, NoCallTyped DEF Gone, Arrival
<1>2. CASE Request(p) \/ \E z \in Zones : KeepTunnel(p, z)
  <2>1. Began(p)
    BY <1>2, Requested
  <2> QED BY <2>1 DEF Began, Arrival
<1>3. CASE Abort(p)
  BY <1>1, <1>3, Returned DEF Abort, RInv
<1>4. CASE RegRead(p) \/ RegWrite(p) \/ HbRead(p) \/ HbWrite(p) \/ RetryList(p) \/ RetryNext(p)
  <2>1. CASE RegRead(p)
    BY <1>1, <2>1, NodeFlow DEF Now, Arrival
  <2>2. CASE HbRead(p)
    BY <1>1, <2>2, NodeFlow DEF Now, Arrival
  <2>3. CASE RegWrite(p) \/ HbWrite(p)
    BY <1>1, <2>3, NodeFlow DEF Same, Now, Arrival
  <2>4. CASE RetryList(p) \/ RetryNext(p)
    BY <1>1, <2>4, NodeFlow DEF Now, Arrival
  <2> QED BY <1>4, <2>1, <2>2, <2>3, <2>4
<1>5. CASE Lock(p)
  BY <1>5, AllocFlow DEF Same, Now, Arrival
<1>6. CASE Sticky(p)
  <2>1. PICK a : a = assign[calls[p].zone]
    OBVIOUS
  <2>2. CASE a.gen > 0 /\ a.state = "active"
    <3>1. Saw(p, "keep", a)
      BY <1>6, <2>1, <2>2, AllocFlow
    <3> QED BY <1>6, <2>1, <2>2, <3>1 DEF Saw, Now, Arrival
  <2>3. CASE ~(a.gen > 0 /\ a.state = "active")
    <3>1. Saw(p, "choose", a)
      BY <1>6, <2>1, <2>3, AllocFlow
    <3> QED BY <1>6, <2>1, <2>3, <3>1 DEF Saw, Now, Arrival
  <2> QED BY <2>2, <2>3
<1>15. CASE Keep(p)
  <2>1. CASE Same(p, "clear")
    <3>1. calls'[p].pc = "clear" /\ calls' \in [Calls -> CallState]
          /\ \A q \in Calls : q # p => calls'[q] = calls[q]
      BY <2>1 DEF Same, Now
    <3> QED BY <1>15, <2>1, <3>1 DEF Arrival
  <2>2. CASE ~Assignable(calls[p].seen.relay) /\ Same(p, "choose")
    <3>1. calls'[p].pc = "choose" /\ calls' \in [Calls -> CallState]
          /\ \A q \in Calls : q # p => calls'[q] = calls[q]
      BY <2>2 DEF Same, Now
    <3> QED BY <1>15, <2>2, <3>1 DEF Arrival
  <2> QED BY <1>15, <2>1, <2>2, AllocFlow
<1>7. CASE Choose(p)
  <2>1. CASE Same(p, "record")
    BY <2>1 DEF Same, Now, Arrival
  <2>2. ASSUME NEW n \in Nodes, Took(p, "check", n)
        PROVE  /\ calls' \in [Calls -> CallState]
               /\ \A q \in Calls : q # p => calls'[q] = calls[q]
               /\ Arrival(p)
    <3>1. calls'[p].pc = "check" /\ calls' \in [Calls -> CallState]
          /\ \A q \in Calls : q # p => calls'[q] = calls[q]
      BY <2>2 DEF Took, Now
    <3> QED BY <1>7, <2>2, <3>1 DEF Arrival
  <2> QED BY <1>7, <2>1, <2>2, AllocFlow
<1>8. CASE Check(p)
  <2>1. CASE Same(p, "record")
    BY <2>1 DEF Same, Now, Arrival
  <2>2. CASE Assignable(calls[p].node) /\ Same(p, "fetch")
    <3>1. calls'[p].pc = "fetch" /\ calls' \in [Calls -> CallState]
          /\ \A q \in Calls : q # p => calls'[q] = calls[q]
      BY <2>2 DEF Same, Now
    <3> QED BY <1>8, <2>2, <3>1 DEF Arrival
  <2> QED BY <1>1, <1>8, <2>1, <2>2, AllocFlow
<1>9. CASE Fetch(p)
  <2>1. CASE Saw(p, "write", assign[calls[p].zone])
    <3>1. calls'[p].pc = "write" /\ calls' \in [Calls -> CallState]
          /\ \A q \in Calls : q # p => calls'[q] = calls[q]
      BY <2>1 DEF Saw, Now
    <3> QED BY <1>9, <2>1, <3>1 DEF Arrival
  <2> QED BY <1>1, <1>9, <2>1, AllocFlow
<1>10. CASE Write(p)
  <2>1. CASE Saw(p, "clear", assign'[calls[p].zone])
    <3>1. calls'[p].pc = "clear" /\ calls' \in [Calls -> CallState]
          /\ \A q \in Calls : q # p => calls'[q] = calls[q]
      BY <2>1 DEF Saw, Now
    <3> QED BY <1>10, <2>1, <3>1 DEF Arrival
  <2> QED BY <1>1, <1>10, <2>1, AllocFlow
<1>11. CASE AdmRead(p)
  <2>1. CASE Saw(p, "lock", assign[calls[p].zone])
    BY <2>1 DEF Saw, Now, Arrival
  <2>2. CASE Saw(p, "adm_node", assign[calls[p].zone])
    <3>1. calls'[p].pc = "adm_node" /\ calls' \in [Calls -> CallState]
          /\ \A q \in Calls : q # p => calls'[q] = calls[q]
      BY <2>2 DEF Saw, Now
    <3> QED BY <1>11, <2>2, <3>1 DEF Arrival
  <2> QED BY <1>11, <2>1, <2>2, AllocFlow
<1>12. CASE AdmNode(p) \/ Commit(p)
  BY <1>1, <1>12, AllocFlow
<1>13. CASE Plan(p)
  <2>1. PICK n \in Nodes \cup {NoNode} : Took(p, "commit", n)
    BY <1>13, AllocFlow
  <2> QED BY <2>1 DEF Took, Now, Arrival
<1>14. CASE Clear(p) \/ Record(p)
  <2>1. CASE Same(p, "retry")
    BY <2>1 DEF Same, Now, Arrival
  <2>2. CASE Clear(p) /\ Same(p, "adm_node")
    <3>1. calls'[p].pc = "adm_node" /\ calls' \in [Calls -> CallState]
          /\ \A q \in Calls : q # p => calls'[q] = calls[q]
      BY <2>2 DEF Same, Now
    <3> QED BY <2>2, <3>1 DEF Arrival
  <2> QED BY <1>1, <1>14, <2>1, <2>2, AllocFlow
<1> QED BY <1>2, <1>3, <1>4, <1>5, <1>6, <1>7, <1>8, <1>9, <1>10, <1>11, <1>12, <1>13, <1>14, <1>15
    DEF Acts, Step

(***************************************************************************)
(* Which steps write which table                                           *)
(***************************************************************************)
TableFrame ==
    /\ world' = world
    /\ \/ assign' = assign
       \/ \E p \in Calls : Write(p) \/ Commit(p)
       \/ \E z \in Zones : ClearAccount(z) \/ \E g \in 1..MaxGen : Complete(z, g)
    /\ \/ users' = users
       \/ \E p \in Calls : Commit(p)
       \/ \E z \in Zones : ClearAccount(z)
    /\ \/ pending' = pending
       \/ \E p \in Calls : Clear(p) \/ Record(p) \/ Commit(p)
       \/ \E z \in Zones : ClearAccount(z)
    /\ \/ nodes' = nodes /\ revision' = revision
       \/ \E p \in Calls : RegWrite(p) \/ HbWrite(p)
    /\ \/ lock' = lock
       \/ \E p \in Calls : Lock(p) \/ Clear(p) \/ Record(p) \/ Commit(p) \/ Abort(p)
    /\ \/ allows' = allows
       \/ \E p \in Calls : AdmNode(p)
    /\ \/ nodeOps' = nodeOps
       \/ \E p \in Calls : Request(p) \/ \E z \in Zones : KeepTunnel(p, z)
    /\ faults' = faults \/ (faults < world.faults /\ faults' = faults + 1)
    /\ \/ refused' = refused
       \/ \E p \in Calls : Commit(p)

LEMMA TableFrames ==
    ASSUME RInv, Next
    PROVE  TableFrame
<1> USE DEF tables
<1>1. ASSUME NEW p \in Calls, Request(p) \/ \E z \in Zones : KeepTunnel(p, z) PROVE TableFrame
  <2>1. Began(p)
    BY <1>1, Requested
  <2> QED BY <1>1, <2>1 DEF Began, TableFrame
<1>2. ASSUME NEW p \in Calls, RegRead(p) PROVE TableFrame
  BY <1>2 DEF RegRead, TableFrame
<1>3. ASSUME NEW p \in Calls, RegWrite(p) PROVE TableFrame
  BY <1>3 DEF RegWrite, TableFrame
<1>4. ASSUME NEW p \in Calls, HbRead(p) PROVE TableFrame
  BY <1>4 DEF HbRead, TableFrame
<1>5. ASSUME NEW p \in Calls, HbWrite(p) PROVE TableFrame
  BY <1>5 DEF HbWrite, TableFrame
<1>6. ASSUME NEW p \in Calls, RetryList(p) PROVE TableFrame
  BY <1>6 DEF RetryList, TableFrame
<1>7. ASSUME NEW p \in Calls, RetryNext(p) PROVE TableFrame
  BY <1>7 DEF RetryNext, TableFrame
<1>8. ASSUME NEW p \in Calls, Lock(p) PROVE TableFrame
  BY <1>8 DEF Lock, TableFrame
<1>9. ASSUME NEW p \in Calls, Sticky(p) PROVE TableFrame
  BY <1>9 DEF Sticky, TableFrame
<1>22. ASSUME NEW p \in Calls, Keep(p) PROVE TableFrame
  BY <1>22 DEF Keep, TableFrame
<1>10. ASSUME NEW p \in Calls, Choose(p) PROVE TableFrame
  BY <1>10 DEF Choose, TableFrame
<1>11. ASSUME NEW p \in Calls, Check(p) PROVE TableFrame
  BY <1>11 DEF Check, TableFrame
<1>12. ASSUME NEW p \in Calls, Fetch(p) PROVE TableFrame
  BY <1>12 DEF Fetch, TableFrame
<1>13. ASSUME NEW p \in Calls, Write(p) PROVE TableFrame
  BY <1>13 DEF Write, TableFrame
<1>14. ASSUME NEW p \in Calls, Clear(p) PROVE TableFrame
  BY <1>14 DEF Clear, TableFrame
<1>15. ASSUME NEW p \in Calls, Record(p) PROVE TableFrame
  BY <1>15 DEF Record, TableFrame
<1>16. ASSUME NEW p \in Calls, AdmRead(p) PROVE TableFrame
  BY <1>16 DEF AdmRead, TableFrame
<1>17. ASSUME NEW p \in Calls, AdmNode(p) PROVE TableFrame
  BY <1>17 DEF AdmNode, TableFrame
<1>18. ASSUME NEW p \in Calls, Plan(p) PROVE TableFrame
  BY <1>18 DEF Plan, TableFrame
<1>19. ASSUME NEW p \in Calls, Commit(p) PROVE TableFrame
  BY <1>19 DEF Commit, TableFrame
<1>20. ASSUME NEW p \in Calls, Abort(p) PROVE TableFrame
  BY <1>20 DEF Abort, TableFrame
<1>21. ASSUME NEW z \in Zones, ClearAccount(z) \/ \E g \in 1..MaxGen : Complete(z, g)
      PROVE  TableFrame
  BY <1>21 DEF ClearAccount, Complete, TableFrame
<1> QED
  BY <1>1, <1>2, <1>3, <1>4, <1>5, <1>6, <1>7, <1>8, <1>9, <1>10, <1>11, <1>12, <1>13, <1>14, <1>15, <1>16, <1>17, <1>18, <1>19, <1>20, <1>21, <1>22
     DEF Next, Step

\* A call is as it was, or it is the one that took the step.
LEMMA CallsFollow ==
    ASSUME RInv, Next
    PROVE  /\ calls' \in [Calls -> CallState]
           /\ \A q \in Calls : calls'[q] = calls[q] \/ (Acts(q) /\ Arrival(q))
           /\ world' = world
<1>1. ASSUME NEW p \in Calls, Acts(p)
      PROVE  /\ calls' \in [Calls -> CallState]
             /\ \A q \in Calls : calls'[q] = calls[q] \/ (Acts(q) /\ Arrival(q))
  BY <1>1, Arrives
<1>2. CASE \E z \in Zones : ClearAccount(z) \/ \E g \in 1..MaxGen : Complete(z, g)
  BY <1>2 DEF ClearAccount, Complete, RInv, CallsTyped
<1>3. world' = world
  BY TableFrames DEF TableFrame
<1> QED BY <1>1, <1>2, <1>3 DEF Next, Acts

(***************************************************************************)
(* The calls by themselves, and the lock of a zone                         *)
(***************************************************************************)
HoldsAt(pc, op) ==
    pc \in Inside \/ (pc \in {"check", "fetch", "write"} /\ op \notin {"assign", "migrate"})

\* A call goes on to its next statement and keeps what it holds.
LEMMA GoesOn ==
    ASSUME RInv, NEW p \in Calls, world' = world, lock' = lock,
           NEW pc \in Pcs, NEW zone, NEW node, NEW st, NEW seen, NEW was, NEW todo,
           Now(p, pc, zone, node, st, seen, was, todo),
           calls[p].pc # "idle",
           calls[p].op \in {"assign", "migrate"} => pc \in {"check", "fetch", "write"},
           pc \in NodeSteps \cup {"check", "fetch", "write"} => node \in Nodes,
           HoldsAt(pc, calls[p].op) <=> Holding(p),
           zone = calls[p].zone \/ ~Holding(p)
    PROVE  LocalInv' /\ HoldInv'
<1>1. \A q \in Calls : q # p => calls'[q] = calls[q]
  BY DEF Now
<1>2. calls'[p].op = calls[p].op /\ calls'[p].pc = pc /\ calls'[p].zone = zone /\ calls'[p].node = node
  BY DEF Now
<1>3. LocalInv'
  BY <1>1, <1>2 DEF RInv, LocalInv
<1>4. Holding(p)' <=> Holding(p)
  BY <1>2 DEF Holding, HoldsAt
<1>5. \A q \in Calls : q # p => (Holding(q)' <=> Holding(q))
  BY <1>1 DEF Holding
<1>6. HoldInv
  BY DEF RInv
<1>7. ASSUME NEW q \in Calls, NEW z \in Zones
      PROVE  lock'[z] = q <=> Holding(q)' /\ calls'[q].zone = z
  <2>1. CASE q # p
    BY <1>1, <1>5, <1>6, <2>1 DEF HoldInv
  <2>2. CASE q = p
    BY <1>2, <1>4, <1>6, <2>2 DEF HoldInv
  <2> QED BY <2>1, <2>2
<1> QED BY <1>3, <1>7 DEF HoldInv

\* A call ends, and its lock with it.
LEMMA Ends ==
    ASSUME RInv, NEW p \in Calls, world' = world, Gone(p),
           \/ ~Holding(p) /\ lock' = lock
           \/ lock' = [lock EXCEPT ![calls[p].zone] = NoCall] /\ Holding(p)
           \/ lock' = [z \in Zones |-> IF lock[z] = p THEN NoCall ELSE lock[z]]
    PROVE  LocalInv' /\ HoldInv'
<1>1. (\A q \in Calls : q # p => calls'[q] = calls[q]) /\ calls'[p] = NoCallState
  BY DEF Gone
<1>2. NoCallState.pc = "idle" /\ NoCallState.op = "none"
  BY NoCallTyped
<1>3. LocalInv'
  BY <1>1, <1>2 DEF RInv, LocalInv, NodeSteps
<1>4. ~Holding(p)'
  BY <1>1, <1>2 DEF Holding, Inside
<1>5. \A q \in Calls : q # p => (Holding(q)' <=> Holding(q))
  BY <1>1 DEF Holding
<1>6. HoldInv /\ lock \in [Zones -> Calls \cup {NoCall}] /\ calls[p].zone \in Zones
  BY DEF RInv, TypeOK, CallsTyped, CallState
<1>7. NoCall \notin Calls
  BY Constants
<1>8. \A z \in Zones : lock'[z] # p /\ \A q \in Calls : q # p => (lock'[z] = q <=> lock[z] = q)
  BY <1>6, <1>7 DEF HoldInv
<1>9. ASSUME NEW q \in Calls, NEW z \in Zones
      PROVE  lock'[z] = q <=> Holding(q)' /\ calls'[q].zone = z
  <2>1. CASE q # p
    BY <1>1, <1>5, <1>6, <1>8, <2>1 DEF HoldInv
  <2>2. CASE q = p
    BY <1>4, <1>8, <2>2
  <2> QED BY <2>1, <2>2
<1> QED BY <1>3, <1>9 DEF HoldInv

\* A call releases its lock and goes on.
LEMMA Releases ==
    ASSUME RInv, NEW p \in Calls, world' = world, NEW pc \in {"retry", "adm_node"}, Same(p, pc),
           lock' = [lock EXCEPT ![calls[p].zone] = NoCall], Holding(p),
           calls[p].op \notin {"assign", "migrate"}, calls[p].pc # "idle"
    PROVE  LocalInv' /\ HoldInv'
<1>1. \A q \in Calls : q # p => calls'[q] = calls[q]
  BY DEF Same, Now
<1>2. calls'[p].op = calls[p].op /\ calls'[p].pc = pc
  BY DEF Same, Now
<1>3. LocalInv'
  BY <1>1, <1>2 DEF RInv, LocalInv, NodeSteps
<1>4. ~Holding(p)'
  BY <1>2 DEF Holding, Inside
<1>5. \A q \in Calls : q # p => (Holding(q)' <=> Holding(q))
  BY <1>1 DEF Holding
<1>6. HoldInv /\ lock \in [Zones -> Calls \cup {NoCall}] /\ calls[p].zone \in Zones
  BY DEF RInv, TypeOK, CallsTyped, CallState
<1>7. NoCall \notin Calls
  BY Constants
<1>8. \A z \in Zones : lock'[z] # p /\ \A q \in Calls : q # p => (lock'[z] = q <=> lock[z] = q)
  BY <1>6, <1>7 DEF HoldInv
<1>9. ASSUME NEW q \in Calls, NEW z \in Zones
      PROVE  lock'[z] = q <=> Holding(q)' /\ calls'[q].zone = z
  <2>1. CASE q # p
    BY <1>1, <1>5, <1>6, <1>8, <2>1 DEF HoldInv
  <2>2. CASE q = p
    BY <1>4, <1>8, <2>2
  <2> QED BY <2>1, <2>2
<1> QED BY <1>3, <1>9 DEF HoldInv

LEMMA LockStep ==
    ASSUME RInv, Next
    PROVE  LocalInv' /\ HoldInv'
<1>1. world' = world
  BY TableFrames DEF TableFrame
<1>2. LocalInv /\ HoldInv
  BY DEF RInv
<1> USE DEF At
<1>3. ASSUME NEW p \in Calls, Request(p) \/ \E z \in Zones : KeepTunnel(p, z)
      PROVE  LocalInv' /\ HoldInv'
  <2>1. Began(p)
    BY <1>3, Requested
  <2>2. \A q \in Calls : q # p => calls'[q] = calls[q]
    BY <2>1 DEF Began
  <2>3. lock' = lock /\ calls[p].pc = "idle"
    BY <2>1 DEF Began
  <2>4. ~Holding(p) /\ ~Holding(p)'
    BY <2>1 DEF Began, Holding, Inside
  <2>5. LocalInv'
    BY <1>1, <1>2, <2>1, <2>2 DEF Began, LocalInv, NodeSteps
  <2>6. \A q \in Calls : q # p => (Holding(q)' <=> Holding(q))
    BY <2>2 DEF Holding
  <2>7. HoldInv'
    BY <1>2, <2>2, <2>3, <2>4, <2>6 DEF HoldInv
  <2> QED BY <2>5, <2>7
<1>4. ASSUME NEW p \in Calls, Abort(p) PROVE LocalInv' /\ HoldInv'
  <2>1. Gone(p) /\ lock' = [z \in Zones |-> IF lock[z] = p THEN NoCall ELSE lock[z]]
    BY <1>4, Returned DEF Abort, RInv
  <2> QED BY <1>1, <2>1, Ends
<1>5. ASSUME NEW p \in Calls, RegRead(p) \/ HbRead(p) \/ RegWrite(p) \/ HbWrite(p) \/ RetryList(p)
                              \/ RetryNext(p)
      PROVE  LocalInv' /\ HoldInv'
  <2>1. lock' = lock /\ calls[p].pc \in NodeSteps \cup {"retry_list", "retry"}
    BY <1>5 DEF RegRead, HbRead, RegWrite, HbWrite, RetryList, RetryNext, NodeSteps
  <2>2. ~Holding(p) /\ calls[p].pc # "idle" /\ calls[p].op \notin {"assign", "migrate"}
    BY <1>2, <2>1 DEF Holding, Inside, NodeSteps, LocalInv
  <2>3. calls[p].pc \in NodeSteps => calls[p].node \in Nodes
    BY <1>2 DEF LocalInv
  <2>4. CASE Gone(p)
    BY <1>1, <2>1, <2>2, <2>4, Ends
  <2>5. ASSUME NEW pc \in {"reg_write", "hb_write", "retry_list", "retry", "lock"}, NEW zone, NEW node,
               NEW st, NEW seen, NEW was, NEW todo, Now(p, pc, zone, node, st, seen, was, todo),
               pc \in NodeSteps => node \in Nodes
        PROVE  LocalInv' /\ HoldInv'
    <3>1. pc \in Pcs /\ pc \notin {"check", "fetch", "write"} /\ ~HoldsAt(pc, calls[p].op)
      BY DEF Pcs, HoldsAt, Inside
    <3> QED BY <1>1, <2>1, <2>2, <2>5, <3>1, GoesOn
  <2>6. CASE RegRead(p)
    <3>1. calls[p].node \in Nodes
      BY <2>3, <2>6 DEF RegRead, NodeSteps
    <3> QED BY <2>4, <2>5, <2>6, <3>1, NodeFlow
  <2>7. CASE HbRead(p)
    <3>1. calls[p].node \in Nodes
      BY <2>3, <2>7 DEF HbRead, NodeSteps
    <3> QED BY <2>4, <2>5, <2>7, <3>1, NodeFlow
  <2>8. {"retry_list", "retry", "lock"} \cap NodeSteps = {}
    BY DEF NodeSteps
  <2>9. CASE RegWrite(p) \/ HbWrite(p)
    BY <2>4, <2>5, <2>8, <2>9, NodeFlow DEF Same
  <2>10. CASE RetryList(p)
    BY <2>5, <2>8, <2>10, NodeFlow
  <2>11. CASE RetryNext(p)
    BY <2>4, <2>5, <2>8, <2>11, NodeFlow
  <2> QED BY <1>5, <2>6, <2>7, <2>9, <2>10, <2>11
<1>6. ASSUME NEW p \in Calls, Lock(p) PROVE LocalInv' /\ HoldInv'
  <2>1. PICK pc \in {"plan", "sticky"} : Same(p, pc)
    BY <1>6, AllocFlow
  <2>2. \A q \in Calls : q # p => calls'[q] = calls[q]
    BY <2>1 DEF Same, Now
  <2>3. calls'[p].op = calls[p].op /\ calls'[p].pc = pc /\ calls'[p].zone = calls[p].zone
    BY <2>1 DEF Same, Now
  <2>4. calls[p].pc = "lock" /\ lock[calls[p].zone] = NoCall
        /\ lock' = [lock EXCEPT ![calls[p].zone] = p]
    BY <1>6 DEF Lock
  <2>5. LocalInv'
    BY <1>1, <1>2, <2>2, <2>3, <2>4 DEF LocalInv, NodeSteps
  <2>6. Holding(p)' /\ ~Holding(p)
    BY <2>3, <2>4 DEF Holding, Inside
  <2>7. \A q \in Calls : q # p => (Holding(q)' <=> Holding(q))
    BY <2>2 DEF Holding
  <2>8. lock \in [Zones -> Calls \cup {NoCall}] /\ calls[p].zone \in Zones /\ NoCall \notin Calls
    BY Constants DEF RInv, TypeOK, CallsTyped, CallState
  <2>9. ASSUME NEW q \in Calls, NEW z \in Zones
        PROVE  lock'[z] = q <=> Holding(q)' /\ calls'[q].zone = z
    <3>1. CASE q # p
      BY <1>2, <2>2, <2>4, <2>7, <2>8, <3>1 DEF HoldInv
    <3>2. CASE q = p
      BY <1>2, <2>3, <2>4, <2>6, <2>8, <3>2 DEF HoldInv
    <3> QED BY <3>1, <3>2
  <2> QED BY <2>5, <2>9 DEF HoldInv
<1>7. ASSUME NEW p \in Calls, Sticky(p) \/ Keep(p) \/ Choose(p) \/ Plan(p)
      PROVE  LocalInv' /\ HoldInv'
  <2>1. lock' = lock /\ calls[p].pc \in {"sticky", "keep", "choose", "plan"}
    BY <1>7 DEF Sticky, Keep, Choose, Plan
  <2>2. Holding(p) /\ calls[p].pc # "idle" /\ calls[p].op \notin {"assign", "migrate"}
    BY <1>2, <2>1 DEF Holding, Inside, LocalInv
  <2>3. ASSUME NEW pc \in {"keep", "clear", "choose", "check", "record", "commit"}, NEW node, NEW seen,
               Now(p, pc, calls[p].zone, node, calls[p].st, seen, calls[p].was, calls[p].todo),
               pc = "check" => node \in Nodes
        PROVE  LocalInv' /\ HoldInv'
    <3>1. pc \in Pcs /\ pc \notin NodeSteps \cup {"fetch", "write"} /\ HoldsAt(pc, calls[p].op)
      BY <2>2 DEF Pcs, HoldsAt, Inside, NodeSteps
    <3> QED BY <1>1, <2>1, <2>2, <2>3, <3>1, GoesOn
  <2>4. CASE Sticky(p)
    <3>1. PICK pc \in {"keep", "choose"} : \E a : Saw(p, pc, a)
      BY <2>4, AllocFlow
    <3> QED BY <2>3, <3>1 DEF Saw
  <2>7. CASE Keep(p)
    <3>1. PICK pc \in {"clear", "choose"} : Same(p, pc)
      BY <2>7, AllocFlow
    <3> QED BY <2>3, <3>1 DEF Same
  <2>5. CASE Choose(p)
    <3>1. CASE Same(p, "record")
      BY <2>3, <3>1 DEF Same
    <3>2. ASSUME NEW n \in Nodes, Took(p, "check", n) PROVE LocalInv' /\ HoldInv'
      BY <2>3, <3>2 DEF Took
    <3> QED BY <2>5, <3>1, <3>2, AllocFlow
  <2>6. CASE Plan(p)
    <3>1. PICK n : Took(p, "commit", n)
      BY <2>6, AllocFlow
    <3> QED BY <2>3, <3>1 DEF Took
  <2> QED BY <1>7, <2>4, <2>5, <2>6, <2>7
<1>8. ASSUME NEW p \in Calls, Check(p) \/ Fetch(p) \/ Write(p) PROVE LocalInv' /\ HoldInv'
  <2>1. lock' = lock /\ calls[p].pc \in {"check", "fetch", "write"}
    BY <1>8 DEF Check, Fetch, Write, tables
  <2>2. calls[p].pc # "idle" /\ calls[p].node \in Nodes
        /\ (Holding(p) <=> calls[p].op \notin {"assign", "migrate"})
    BY <1>2, <2>1 DEF Holding, Inside, LocalInv
  <2>3. CASE Gone(p) /\ calls[p].op \in {"assign", "migrate"}
    BY <1>1, <2>1, <2>2, <2>3, Ends
  <2>4. ASSUME NEW pc \in {"fetch", "write", "clear", "record"}, NEW seen,
               Now(p, pc, calls[p].zone, calls[p].node, calls[p].st, seen, calls[p].was, calls[p].todo),
               pc \in {"clear", "record"} => calls[p].op \notin {"assign", "migrate"}
        PROVE  LocalInv' /\ HoldInv'
    <3>1. pc \in Pcs /\ (HoldsAt(pc, calls[p].op) <=> Holding(p))
      BY <2>2, <2>4 DEF Pcs, HoldsAt, Inside
    <3>2. calls[p].op \in {"assign", "migrate"} => pc \in {"check", "fetch", "write"}
      BY <2>4
    <3> QED BY <1>1, <2>1, <2>2, <2>4, <3>1, <3>2, GoesOn
  <2>5. CASE Check(p)
    BY <2>3, <2>4, <2>5, AllocFlow DEF Same
  <2>6. CASE Fetch(p)
    BY <2>3, <2>4, <2>6, AllocFlow DEF Saw
  <2>7. CASE Write(p)
    BY <2>3, <2>4, <2>7, AllocFlow DEF Saw
  <2> QED BY <1>8, <2>5, <2>6, <2>7
<1>9. ASSUME NEW p \in Calls, AdmRead(p) \/ AdmNode(p) PROVE LocalInv' /\ HoldInv'
  <2>1. lock' = lock /\ calls[p].pc \in {"adm_read", "adm_node"}
    BY <1>9 DEF AdmRead, AdmNode
  <2>2. ~Holding(p) /\ calls[p].pc # "idle" /\ calls[p].op \notin {"assign", "migrate"}
    BY <1>2, <2>1 DEF Holding, Inside, LocalInv
  <2>3. CASE AdmNode(p)
    BY <1>1, <2>1, <2>2, <2>3, AllocFlow, Ends
  <2>4. CASE AdmRead(p)
    <3>1. PICK pc \in {"lock", "adm_node"} : \E a : Saw(p, pc, a)
      BY <2>4, AllocFlow
    <3>2. pc \in Pcs /\ pc \notin NodeSteps \cup {"check", "fetch", "write"}
          /\ ~HoldsAt(pc, calls[p].op)
      BY DEF Pcs, HoldsAt, Inside, NodeSteps
    <3> QED BY <1>1, <2>1, <2>2, <3>1, <3>2, GoesOn DEF Saw
  <2> QED BY <1>9, <2>3, <2>4
<1>10. ASSUME NEW p \in Calls, Clear(p) \/ Record(p) \/ Commit(p) PROVE LocalInv' /\ HoldInv'
  <2>1. calls[p].pc \in {"clear", "record", "commit"}
        /\ lock' = [lock EXCEPT ![calls[p].zone] = NoCall]
    BY <1>10 DEF Clear, Record, Commit, AfterAllocate
  <2>2. Holding(p) /\ calls[p].pc # "idle" /\ calls[p].op \notin {"assign", "migrate"}
    BY <1>2, <2>1 DEF Holding, Inside, LocalInv
  <2>3. CASE Gone(p)
    BY <1>1, <2>1, <2>2, <2>3, Ends
  <2>4. CASE Same(p, "retry") \/ Same(p, "adm_node")
    BY <1>1, <2>1, <2>2, <2>4, Releases
  <2> QED BY <1>10, <2>3, <2>4, AllocFlow
<1>11. ASSUME NEW z \in Zones, ClearAccount(z) \/ \E g \in 1..MaxGen : Complete(z, g)
       PROVE  LocalInv' /\ HoldInv'
  <2>1. calls' = calls /\ lock' = lock
    BY <1>11 DEF ClearAccount, Complete
  <2> QED BY <1>1, <1>2, <2>1 DEF LocalInv, HoldInv, Holding
<1> QED BY <1>3, <1>4, <1>5, <1>6, <1>7, <1>8, <1>9, <1>10, <1>11 DEF Next, Step

\* The lock of a zone keeps two holders apart, and a world of one call all calls.
LEMMA Exclusive ==
    ASSUME RInv, NEW p \in Calls, NEW q \in Calls
    PROVE  /\ Holding(p) /\ Holding(q) /\ calls[p].zone = calls[q].zone => p = q
           /\ (Cardinality(world.calls) = 1 /\ calls[p].pc # "idle" /\ calls[q].pc # "idle") => p = q
<1>1. calls[p].zone \in Zones /\ calls[q].zone \in Zones
  BY DEF RInv, CallsTyped, CallState
<1>2. Holding(p) /\ Holding(q) /\ calls[p].zone = calls[q].zone => p = q
  BY <1>1 DEF RInv, HoldInv
<1>3. IsFiniteSet(world.calls)
  BY Constants DEF RInv, TypeOK
<1>4. Cardinality(world.calls) = 1 => \E x : world.calls = {x}
  BY <1>3, FS_Singleton
<1>5. (Cardinality(world.calls) = 1 /\ calls[p].pc # "idle" /\ calls[q].pc # "idle") => p = q
  BY <1>4 DEF RInv, LocalInv
<1> QED BY <1>2, <1>5

\* What a step makes of the assignments.
AssignAfter(z) ==
    \/ assign'[z] = assign[z]
    \/ \E p \in Calls : /\ Write(p) /\ calls[p].zone = z
                        /\ assign'[z] = NewAssign(calls[p].op, calls[p].seen, calls[p].node)
    \/ \E p \in Calls : /\ Commit(p) /\ calls[p].zone = z /\ assign[z].gen = 0
                        /\ z \notin users /\ Assignable(calls[p].node)
                        /\ assign'[z] = NewAssign("allocate", NoAssign, calls[p].node)
    \/ "clear" \in world.ops /\ z \notin users' /\ assign'[z] = NoAssign
    \/ /\ assign[z].state = "migrating"
       /\ \E g \in 1..MaxGen : Complete(z, g)
       /\ assign'[z].gen = assign[z].gen /\ assign'[z].relay = assign[z].relay

LEMMA NoAssignIs == NoAssign \in Assignment /\ NoAssign.gen = 0
BY Constants DEF NoAssign, Assignment

LEMMA AssignFollows ==
    ASSUME RInv, Next
    PROVE  /\ assign' \in [Zones -> Assignment]
           /\ \A z \in Zones : AssignAfter(z)
<1>1. assign \in [Zones -> Assignment]
  BY DEF RInv, TypeOK, Assignment
<1>2. CASE assign' = assign
  BY <1>1, <1>2 DEF AssignAfter
<1>3. ASSUME NEW p \in Calls, Write(p) PROVE assign' \in [Zones -> Assignment]
                                             /\ \A z \in Zones : AssignAfter(z)
  <2>1. calls[p].zone \in Zones /\ calls[p].seen \in Assignment /\ calls[p].node \in Nodes \cup {NoNode}
    BY DEF RInv, CallsTyped, CallState
  <2>2. PICK a : a = NewAssign(calls[p].op, calls[p].seen, calls[p].node)
    OBVIOUS
  <2>3. a.gen <= MaxGen /\ assign' = [assign EXCEPT ![calls[p].zone] = a]
    BY <1>3, <2>2 DEF Write
  <2>4. a \in Assignment
    BY <2>1, <2>2, <2>3, NewAssignIs
  <2> QED BY <1>1, <1>3, <2>1, <2>2, <2>3, <2>4 DEF AssignAfter
<1>4. ASSUME NEW p \in Calls, Commit(p) PROVE assign' \in [Zones -> Assignment]
                                              /\ \A z \in Zones : AssignAfter(z)
  <2>1. calls[p].zone \in Zones /\ calls[p].node \in Nodes \cup {NoNode}
    BY DEF RInv, CallsTyped, CallState
  <2>2. PICK a : a = NewAssign("allocate", NoAssign, calls[p].node)
    OBVIOUS
  <2>3. a \in Assignment
    BY <2>1, <2>2, NewAssignIs, NoAssignIs, Constants
  <2>4. \/ assign' = assign
        \/ /\ assign' = [assign EXCEPT ![calls[p].zone] = a] /\ assign[calls[p].zone].gen = 0
           /\ calls[p].zone \notin users /\ Assignable(calls[p].node)
    BY <1>4, <2>2 DEF Commit
  <2> QED BY <1>1, <1>2, <1>4, <2>1, <2>2, <2>3, <2>4 DEF AssignAfter
<1>5. ASSUME NEW y \in Zones, ClearAccount(y) PROVE assign' \in [Zones -> Assignment]
                                                   /\ \A z \in Zones : AssignAfter(z)
  <2>1. assign' = [assign EXCEPT ![y] = NoAssign] /\ "clear" \in world.ops /\ y \notin users'
    BY <1>5 DEF ClearAccount
  <2> QED BY <1>1, <2>1, NoAssignIs DEF AssignAfter
<1>6. ASSUME NEW y \in Zones, NEW g \in 1..MaxGen, Complete(y, g)
      PROVE  assign' \in [Zones -> Assignment] /\ \A z \in Zones : AssignAfter(z)
  <2>1. assign' = [assign EXCEPT ![y].state = "active"] /\ assign[y].state = "migrating"
    BY <1>6 DEF Complete
  <2>2. assign[y] \in Assignment
    BY <1>1
  <2>3. PICK a : a = [assign[y] EXCEPT !.state = "active"]
    OBVIOUS
  <2>4. a \in Assignment /\ a.gen = assign[y].gen /\ a.relay = assign[y].relay
    BY <2>2, <2>3 DEF Assignment
  <2>5. assign' = [assign EXCEPT ![y] = a]
    BY <2>1, <2>3
  <2> QED BY <1>1, <1>6, <2>1, <2>4, <2>5 DEF AssignAfter
<1> QED BY <1>2, <1>3, <1>4, <1>5, <1>6, TableFrames DEF TableFrame

\* Users and pending rows.
LEMMA UsersFollow ==
    ASSUME RInv, Next, NEW z \in Zones
    PROVE  /\ z \in users' => \/ z \in users
                              \/ \E p \in Calls : Commit(p) /\ calls[p].zone = z /\ z \notin users
           /\ (z \in pending /\ z \notin pending') =>
                \/ \E p \in Calls : Clear(p) /\ calls[p].zone = z
                \/ \E p \in Calls : Commit(p) /\ calls[p].zone = z /\ assign'[z].gen > 0
                \/ z \notin users'
<1>1. calls \in [Calls -> CallState] /\ assign \in [Zones -> Assignment]
  BY DEF RInv, CallsTyped, TypeOK, Assignment
<1>2. z \in users' => \/ z \in users
                      \/ \E p \in Calls : Commit(p) /\ calls[p].zone = z /\ z \notin users
  BY TableFrames DEF TableFrame, Commit, ClearAccount
<1>3. ASSUME NEW p \in Calls, Commit(p), z \in pending, z \notin pending'
      PROVE  calls[p].zone = z /\ assign'[z].gen > 0
  <2>1. PICK a : a = NewAssign("allocate", NoAssign, calls[p].node)
    OBVIOUS
  <2>2. calls[p].node \in Nodes \cup {NoNode}
    BY <1>1 DEF CallState
  <2>3. a.gen \in Nat /\ a.gen >= 1
    BY <2>1, <2>2, NewAssignIs, NoAssignIs
  <2>4. calls[p].zone = z /\ assign' = [assign EXCEPT ![calls[p].zone] = a]
    BY <1>3, <2>1 DEF Commit
  <2> QED BY <1>1, <2>3, <2>4
<1>4. (z \in pending /\ z \notin pending') =>
         \/ \E p \in Calls : (Clear(p) /\ calls[p].zone = z) \/ Commit(p)
         \/ z \notin users'
  BY TableFrames DEF TableFrame, Clear, Record, ClearAccount
<1> QED BY <1>2, <1>3, <1>4

LEMMA CoveredStep ==
    ASSUME RInv, Next
    PROVE  RegisteredCovered' /\ ClearInv'
<1>1. calls \in [Calls -> CallState] /\ assign \in [Zones -> Assignment] /\ users \subseteq Zones
  BY DEF RInv, CallsTyped, TypeOK, Assignment
<1>2. ASSUME NEW z \in Zones, assign[z].gen > 0, z \in users'
      PROVE  assign'[z].gen > 0
  <2>1. ASSUME NEW p \in Calls PROVE /\ NewAssign(calls[p].op, calls[p].seen, calls[p].node).gen > 0
                                     /\ NewAssign("allocate", NoAssign, calls[p].node).gen > 0
    <3>1. calls[p].seen \in Assignment /\ calls[p].node \in Nodes \cup {NoNode}
      BY <1>1 DEF CallState
    <3>2. PICK a, b : /\ a = NewAssign(calls[p].op, calls[p].seen, calls[p].node)
                      /\ b = NewAssign("allocate", NoAssign, calls[p].node)
      OBVIOUS
    <3>3. a.gen \in Nat /\ a.gen >= 1 /\ b.gen \in Nat /\ b.gen >= 1
      BY <3>1, <3>2, NewAssignIs, NoAssignIs
    <3> QED BY <3>2, <3>3
  <2> QED BY <1>2, <2>1, AssignFollows DEF AssignAfter
<1>3. \A z \in Zones : z \in users => z \in pending \/ assign[z].gen > 0
  BY DEF RInv, RegisteredCovered
<1>4. ASSUME NEW p \in Calls, Write(p) PROVE assign'[calls[p].zone].gen > 0
  <2>1. calls[p].seen \in Assignment /\ calls[p].node \in Nodes \cup {NoNode} /\ calls[p].zone \in Zones
    BY <1>1 DEF CallState
  <2>2. PICK a : a = NewAssign(calls[p].op, calls[p].seen, calls[p].node)
    OBVIOUS
  <2>3. a.gen \in Nat /\ a.gen >= 1
    BY <2>1, <2>2, NewAssignIs
  <2>4. assign'[calls[p].zone] = a
    BY <1>1, <1>4, <2>1, <2>2 DEF Write
  <2> QED BY <2>3, <2>4
<1>5. RegisteredCovered'
  <2> SUFFICES ASSUME NEW z \in users' PROVE assign'[z].gen > 0 \/ z \in pending'
    BY DEF RegisteredCovered
  <2>1. z \in Zones
    <3>1. ASSUME NEW p \in Calls, Commit(p) PROVE z \in Zones
      <4>1. calls[p].zone \in Zones
        BY <1>1 DEF CallState
      <4>2. users' = users \/ users' = users \cup {calls[p].zone}
        BY <3>1 DEF Commit
      <4> QED BY <1>1, <4>1, <4>2
    <3>2. ASSUME NEW y \in Zones, ClearAccount(y) PROVE z \in Zones
      BY <1>1, <3>2 DEF ClearAccount
    <3> QED BY <1>1, <3>1, <3>2, TableFrames DEF TableFrame
  <2>2. CASE z \notin users
    <3>1. PICK p \in Calls : Commit(p) /\ calls[p].zone = z /\ z \notin users
      BY <2>1, <2>2, UsersFollow
    <3>2. PICK a : a = NewAssign("allocate", NoAssign, calls[p].node)
      OBVIOUS
    <3>3. calls[p].node \in Nodes \cup {NoNode}
      BY <1>1 DEF CallState
    <3>4. a.gen \in Nat /\ a.gen >= 1
      BY <3>2, <3>3, NewAssignIs, NoAssignIs
    <3>5. assign' = [assign EXCEPT ![z] = a] \/ pending' = pending \cup {z}
          \/ users' = users
      BY <3>1, <3>2 DEF Commit
    <3> QED BY <1>1, <2>1, <2>2, <3>4, <3>5
  <2>3. CASE z \in users /\ assign[z].gen > 0
    BY <1>2, <2>1, <2>3
  <2>4. CASE z \in users /\ ~(assign[z].gen > 0)
    <3>1. z \in pending
      BY <1>3, <2>1, <2>4
    <3>2. ASSUME NEW p \in Calls, Clear(p), calls[p].zone = z PROVE FALSE
      BY <2>4, <3>2 DEF RInv, ClearInv, Clear, At
    <3> QED BY <2>1, <3>1, <3>2, UsersFollow
  <2> QED BY <2>2, <2>3, <2>4
<1>6. ClearInv'
  <2> SUFFICES ASSUME NEW q \in Calls, calls'[q].pc \in {"keep", "clear"}
               PROVE  assign'[calls'[q].zone].gen > 0 \/ calls'[q].zone \notin users'
    BY DEF ClearInv
  <2>1. CASE calls'[q] = calls[q]
    <3>1. PICK z \in Zones : z = calls[q].zone
      BY <1>1 DEF CallState
    <3>2. assign[z].gen > 0 \/ z \notin users
      BY <2>1, <3>1 DEF RInv, ClearInv
    <3>3. CASE assign[z].gen > 0
      BY <1>2, <2>1, <3>1, <3>3
    <3>4. CASE z \notin users /\ z \in users'
      <4>1. PICK p \in Calls : Commit(p) /\ calls[p].zone = z
        BY <3>4, UsersFollow
      <4>2. Holding(p) /\ Holding(q)
        BY <2>1, <4>1 DEF Commit, At, Holding, Inside
      <4>3. p = q
        BY <3>1, <4>1, <4>2, Exclusive
      <4> QED BY <2>1, <4>1, <4>3 DEF Commit, At
    <3> QED BY <2>1, <3>1, <3>2, <3>3, <3>4
  <2>2. CASE calls'[q] # calls[q]
    <3>1. Arrival(q) /\ Acts(q)
      BY <2>2, CallsFollow
    <3>4. CASE Keep(q) /\ Same(q, "clear")
      <4>1. calls'[q].zone = calls[q].zone /\ assign' = assign /\ users' = users
            /\ calls[q].pc = "keep"
        BY <3>4 DEF Same, Now, Keep, At, tables
      <4>2. assign[calls[q].zone].gen > 0 \/ calls[q].zone \notin users
        BY <4>1 DEF RInv, ClearInv
      <4> QED BY <4>1, <4>2
    <3>2. CASE Sticky(q) /\ assign[calls[q].zone].gen > 0 /\ Saw(q, "keep", assign[calls[q].zone])
      <4>1. calls'[q].zone = calls[q].zone /\ assign' = assign
        BY <3>2 DEF Saw, Now, Sticky, tables
      <4> QED BY <3>2, <4>1
    <3>3. CASE Write(q) /\ Saw(q, "clear", assign'[calls[q].zone])
      <4>1. calls'[q].zone = calls[q].zone
        BY <3>3 DEF Saw, Now
      <4> QED BY <1>4, <3>3, <4>1
    <3> QED BY <3>1, <3>2, <3>3, <3>4 DEF Arrival
  <2> QED BY <2>1, <2>2
<1> QED BY <1>5, <1>6

(***************************************************************************)
(* Generations: what a call has read is the row or an older one            *)
(***************************************************************************)
LEMMA BehindTransitive ==
    ASSUME NEW a, NEW b, NEW c, a.gen \in Nat, b.gen \in Nat, c.gen \in Nat,
           Behind(a, b), Behind(b, c)
    PROVE  Behind(a, c)
BY DEF Behind

\* No other call writes the assignment of a zone behind the back of one that is
\* about to write it.
LEMMA OneWriter ==
    ASSUME RInv, Ordered, NEW p \in Calls, NEW q \in Calls,
           calls[p].pc \in {"write", "commit"}, calls[q].pc = "write",
           calls[p].zone = calls[q].zone
    PROVE  p = q
<1>1. CASE Cardinality(world.calls) = 1
  BY <1>1, Exclusive
<1>2. CASE world.ops \cap {"assign", "migrate"} = {}
  <2>1. calls[p].op \in world.ops /\ calls[q].op \in world.ops
    BY DEF RInv, LocalInv
  <2>2. Holding(p) /\ Holding(q)
    BY <1>2, <2>1 DEF Holding, Inside
  <2> QED BY <2>2, Exclusive
<1> QED BY <1>1, <1>2 DEF Ordered

\* The row of a zone only goes forward.
LEMMA Forward ==
    ASSUME RInv, Next, Ordered, "clear" \notin world.ops, NEW z \in Zones
    PROVE  Behind(assign[z], assign'[z])
<1>1. calls \in [Calls -> CallState] /\ assign \in [Zones -> Assignment]
  BY DEF RInv, CallsTyped, TypeOK, Assignment
<1>2. assign[z] \in Assignment /\ assign[z].gen \in Nat
  BY <1>1, Constants DEF Assignment
<1>3. CASE assign'[z] = assign[z]
  BY <1>2, <1>3 DEF Behind
<1>4. ASSUME NEW p \in Calls, Write(p), calls[p].zone = z,
             assign'[z] = NewAssign(calls[p].op, calls[p].seen, calls[p].node)
      PROVE  Behind(assign[z], assign'[z])
  <2>1. calls[p].seen \in Assignment /\ calls[p].node \in Nodes \cup {NoNode}
    BY <1>1 DEF CallState
  <2>2. PICK a : a = NewAssign(calls[p].op, calls[p].seen, calls[p].node)
    OBVIOUS
  <2>3. /\ a.relay = calls[p].node /\ a.gen \in Nat /\ a.gen >= calls[p].seen.gen
        /\ a.gen = calls[p].seen.gen => calls[p].seen.relay = calls[p].node
    BY <2>1, <2>2, NewAssignIs
  <2>4. calls[p].seen.gen = assign[z].gen /\ calls[p].seen.relay = assign[z].relay
    BY <1>4 DEF RInv, FenceInv, Write, At
  <2> QED BY <1>2, <1>4, <2>2, <2>3, <2>4 DEF Behind
<1>5. ASSUME NEW p \in Calls, assign[z].gen = 0,
             assign'[z] = NewAssign("allocate", NoAssign, calls[p].node)
      PROVE  Behind(assign[z], assign'[z])
  <2>1. calls[p].node \in Nodes \cup {NoNode}
    BY <1>1 DEF CallState
  <2>2. PICK a : a = NewAssign("allocate", NoAssign, calls[p].node)
    OBVIOUS
  <2>3. a.gen \in Nat /\ a.gen >= 1
    BY <2>1, <2>2, NewAssignIs, NoAssignIs
  <2> QED BY <1>5, <2>2, <2>3 DEF Behind
<1>6. CASE assign'[z].gen = assign[z].gen /\ assign'[z].relay = assign[z].relay
  BY <1>2, <1>6 DEF Behind
<1> QED BY <1>3, <1>4, <1>5, <1>6, AssignFollows DEF AssignAfter

\* An admission that is granted is one for the assignment the call has read.
LEMMA AllowsFollow ==
    ASSUME RInv, Next, NEW a \in allows'
    PROVE  \/ a \in allows
           \/ \E p \in Calls : /\ AdmNode(p) /\ assign' = assign
                               /\ a = [zone |-> calls[p].zone, relay |-> calls[p].seen.relay,
                                       gen |-> calls[p].seen.gen]
<1>1. ASSUME NEW p \in Calls, AdmNode(p), a \notin allows
      PROVE  /\ assign' = assign
             /\ a = [zone |-> calls[p].zone, relay |-> calls[p].seen.relay,
                     gen |-> calls[p].seen.gen]
  BY <1>1 DEF AdmNode, tables
<1> QED BY <1>1, TableFrames DEF TableFrame

LEMMA CallsTypedStep ==
    ASSUME RInv, Next
    PROVE  CallsTyped'
<1>1. calls' \in [Calls -> CallState] /\ calls \in [Calls -> CallState]
  BY CallsFollow DEF RInv, CallsTyped
<1>2. ASSUME NEW a \in allows'
      PROVE  a \in [zone: Zones, relay: Nodes \cup {NoNode}, gen: 0..MaxGen]
  <2>1. CASE a \in allows
    BY <2>1 DEF RInv, CallsTyped
  <2>2. ASSUME NEW p \in Calls, a = [zone |-> calls[p].zone, relay |-> calls[p].seen.relay,
                                     gen |-> calls[p].seen.gen]
        PROVE  a \in [zone: Zones, relay: Nodes \cup {NoNode}, gen: 0..MaxGen]
    <3>1. calls[p].zone \in Zones /\ calls[p].seen \in Assignment
      BY <1>1 DEF CallState
    <3> QED BY <2>2, <3>1 DEF Assignment
  <2> QED BY <2>1, <2>2, AllowsFollow
<1> QED BY <1>1, <1>2 DEF CallsTyped

LEMMA FenceStep ==
    ASSUME RInv, Next
    PROVE  FenceInv'
<1>1. calls \in [Calls -> CallState] /\ assign \in [Zones -> Assignment]
      /\ allows \subseteq [zone: Zones, relay: Nodes \cup {NoNode}, gen: 0..MaxGen]
  BY DEF RInv, CallsTyped, TypeOK, Assignment
<1>2. world' = world /\ assign' \in [Zones -> Assignment]
  BY CallsFollow, AssignFollows
<1> SUFFICES ASSUME Ordered, "clear" \notin world.ops
             PROVE  /\ \A q \in Calls : calls'[q].pc = "write" =>
                         /\ calls'[q].seen.gen = assign'[calls'[q].zone].gen
                         /\ calls'[q].seen.relay = assign'[calls'[q].zone].relay
                    /\ \A q \in Calls : calls'[q].pc \in {"keep", "clear", "adm_node"} =>
                         Behind(calls'[q].seen, assign'[calls'[q].zone])
                    /\ \A a \in allows' : Behind(a, assign'[a.zone])
  BY <1>2 DEF FenceInv, Ordered
<1>3. ASSUME NEW z \in Zones
      PROVE  assign[z].gen \in Nat /\ assign'[z].gen \in Nat /\ Behind(assign[z], assign'[z])
  <2>1. assign[z] \in Assignment /\ assign'[z] \in Assignment
    BY <1>1, <1>2
  <2> QED BY <2>1, Forward, Constants DEF Assignment
<1>4. ASSUME NEW p \in Calls
      PROVE  calls[p].zone \in Zones /\ calls[p].seen.gen \in Nat
  BY <1>1, Constants DEF CallState, Assignment
<1>5. ASSUME NEW q \in Calls, calls'[q].pc = "write"
      PROVE  /\ calls'[q].seen.gen = assign'[calls'[q].zone].gen
             /\ calls'[q].seen.relay = assign'[calls'[q].zone].relay
  <2>1. CASE calls'[q] = calls[q]
    <3>1. PICK z \in Zones : z = calls[q].zone
      BY <1>4
    <3>2. calls[q].seen.gen = assign[z].gen /\ calls[q].seen.relay = assign[z].relay
      BY <1>5, <2>1, <3>1 DEF RInv, FenceInv
    <3>3. ASSUME NEW p \in Calls, Write(p) \/ Commit(p), calls[p].zone = z PROVE FALSE
      <4>1. calls[p].pc \in {"write", "commit"}
        BY <3>3 DEF Write, Commit, At
      <4>2. p = q
        BY <1>5, <2>1, <3>1, <3>3, <4>1, OneWriter
      <4>3. Write(q)
        BY <1>5, <2>1, <3>3, <4>2 DEF Commit, At
      <4>4. calls'[q].pc # "write"
        BY <4>3, AllocFlow, NoCallTyped DEF Gone, Saw, Now
      <4> QED BY <1>5, <4>4
    <3>4. assign'[z].gen = assign[z].gen /\ assign'[z].relay = assign[z].relay
      BY <3>3, AssignFollows DEF AssignAfter
    <3> QED BY <2>1, <3>1, <3>2, <3>4
  <2>2. CASE calls'[q] # calls[q]
    <3>1. Fetch(q) /\ Saw(q, "write", assign[calls[q].zone])
      BY <1>5, <2>2, CallsFollow DEF Arrival
    <3>2. assign' = assign
      BY <3>1 DEF Fetch, tables
    <3>3. calls'[q].zone = calls[q].zone /\ calls'[q].seen = assign[calls[q].zone]
      BY <3>1 DEF Saw, Now
    <3> QED BY <3>2, <3>3
  <2> QED BY <2>1, <2>2
<1>6. ASSUME NEW q \in Calls, calls'[q].pc \in {"keep", "clear", "adm_node"}
      PROVE  Behind(calls'[q].seen, assign'[calls'[q].zone])
  <2>1. CASE calls'[q] = calls[q]
    <3>1. Behind(calls[q].seen, assign[calls[q].zone])
      BY <1>6, <2>1 DEF RInv, FenceInv
    <3>2. Behind(calls[q].seen, assign'[calls[q].zone])
      BY <1>3, <1>4, <3>1, BehindTransitive
    <3> QED BY <2>1, <3>2
  <2>2. CASE calls'[q] # calls[q]
    <3>1. Arrival(q)
      BY <2>2, CallsFollow
    <3>2. ASSUME NEW pc, Saw(q, pc, assign'[calls[q].zone])
          PROVE  Behind(calls'[q].seen, assign'[calls'[q].zone])
      <4>1. calls'[q].zone = calls[q].zone /\ calls'[q].seen = assign'[calls[q].zone]
        BY <3>2 DEF Saw, Now
      <4> QED BY <1>3, <1>4, <4>1 DEF Behind
    <3>3. CASE (Sticky(q) \/ AdmRead(q)) /\ \E pc \in Pcs : Saw(q, pc, assign[calls[q].zone])
      <4>1. assign' = assign
        BY <3>3 DEF Sticky, AdmRead, tables
      <4> QED BY <3>2, <3>3, <4>1
    <3>4. CASE (Clear(q) /\ Same(q, "adm_node")) \/ (Keep(q) /\ Same(q, "clear"))
      <4>1. calls[q].pc \in {"keep", "clear"} /\ assign' = assign
        BY <3>4 DEF Clear, Keep, At, tables
      <4>2. Behind(calls[q].seen, assign[calls[q].zone])
        BY <4>1 DEF RInv, FenceInv
      <4>3. calls'[q].zone = calls[q].zone /\ calls'[q].seen = calls[q].seen
        BY <3>4 DEF Same, Now
      <4> QED BY <4>1, <4>2, <4>3
    <3>7. CASE calls'[q].pc = "keep"
      BY <3>1, <3>3, <3>7 DEF Arrival, Pcs
    <3>5. CASE calls'[q].pc = "clear"
      BY <3>1, <3>2, <3>4, <3>5 DEF Arrival
    <3>6. CASE calls'[q].pc = "adm_node"
      BY <3>1, <3>3, <3>4, <3>6 DEF Arrival, Pcs
    <3> QED BY <1>6, <3>5, <3>6, <3>7
  <2> QED BY <2>1, <2>2
<1>7. ASSUME NEW a \in allows' PROVE Behind(a, assign'[a.zone])
  <2>1. CASE a \in allows
    <3>1. a.zone \in Zones /\ a.gen \in Nat
      BY <1>1, <2>1, Constants
    <3>2. Behind(a, assign[a.zone])
      BY <2>1 DEF RInv, FenceInv
    <3> QED BY <1>3, <3>1, <3>2, BehindTransitive
  <2>2. ASSUME NEW p \in Calls, AdmNode(p), assign' = assign,
               a = [zone |-> calls[p].zone, relay |-> calls[p].seen.relay, gen |-> calls[p].seen.gen]
        PROVE  Behind(a, assign'[a.zone])
    <3>1. Behind(calls[p].seen, assign[calls[p].zone])
      BY <2>2 DEF AdmNode, At, RInv, FenceInv
    <3>2. a.zone = calls[p].zone /\ a.relay = calls[p].seen.relay /\ a.gen = calls[p].seen.gen
      BY <2>2
    <3> QED BY <2>2, <3>1, <3>2 DEF Behind
  <2> QED BY <2>1, <2>2, AllowsFollow
<1> QED BY <1>5, <1>6, <1>7

(***************************************************************************)
(* The node map and its revision                                           *)
(***************************************************************************)
\* The statement that writes the status of a node.
NodeWrite(p) ==
    /\ RegWrite(p) \/ HbWrite(p)
    /\ calls[p].pc \in {"reg_write", "hb_write"} /\ calls[p].node \in Nodes /\ calls[p].st \in Statuses
    /\ nodes' = [nodes EXCEPT ![calls[p].node] = calls[p].st]
    /\ \/ revision' = revision + 1
       \/ revision' = revision /\ calls[p].pc = "hb_write" /\ calls[p].st = calls[p].was

LEMMA NodesFollow ==
    ASSUME RInv, Next
    PROVE  /\ nodes' \in [Nodes -> Statuses]
           /\ (nodes' = nodes /\ revision' = revision) \/ \E p \in Calls : NodeWrite(p)
<1>1. nodes \in [Nodes -> Statuses] /\ calls \in [Calls -> CallState]
  BY DEF RInv, TypeOK, CallsTyped
<1>2. ASSUME NEW p \in Calls, RegWrite(p) \/ HbWrite(p) PROVE NodeWrite(p)
  <2>1. calls[p].pc \in {"reg_write", "hb_write"} /\ (HbWrite(p) => calls[p].pc = "hb_write")
    BY <1>2 DEF RegWrite, HbWrite, At
  <2>2. calls[p].node \in Nodes
    BY <2>1 DEF RInv, LocalInv, NodeSteps
  <2>3. calls[p].st \in Statuses
    BY <1>1 DEF CallState
  <2>4. nodes' = [nodes EXCEPT ![calls[p].node] = calls[p].st]
        /\ (revision' = revision + 1
            \/ (HbWrite(p) /\ revision' = revision /\ calls[p].st = calls[p].was))
    BY <1>2 DEF RegWrite, HbWrite
  <2> QED BY <1>2, <2>1, <2>2, <2>3, <2>4 DEF NodeWrite
<1>3. ASSUME NEW p \in Calls, NodeWrite(p) PROVE nodes' \in [Nodes -> Statuses]
  BY <1>1, <1>3 DEF NodeWrite
<1> QED BY <1>1, <1>2, <1>3, TableFrames DEF TableFrame

LEMMA SingleStep ==
    ASSUME RInv, Next
    PROVE  SingleInv'
<1>1. world' = world /\ calls \in [Calls -> CallState]
  BY CallsFollow DEF RInv, CallsTyped
<1> SUFFICES ASSUME Cardinality(world.calls) = 1, NEW q \in Calls, calls'[q].pc = "hb_write"
             PROVE  calls'[q].was = nodes'[calls'[q].node]
  BY <1>1 DEF SingleInv
<1>2. CASE calls'[q] = calls[q]
  <2>1. calls[q].was = nodes[calls[q].node]
    BY <1>2 DEF RInv, SingleInv
  <2>2. ASSUME NEW p \in Calls, NodeWrite(p) PROVE FALSE
    <3>1. p = q
      BY <1>2, <2>2, Exclusive DEF NodeWrite
    <3>2. HbWrite(q)
      BY <1>2, <2>2, <3>1 DEF NodeWrite, RegWrite, At
    <3>3. calls'[q].pc # "hb_write"
      BY <3>2, NodeFlow, NoCallTyped DEF Gone, Same, Now
    <3> QED BY <3>3
  <2> QED BY <1>2, <2>1, <2>2, NodesFollow
<1>3. CASE calls'[q] # calls[q]
  <2>1. HbRead(q) /\ \E st \in Statuses :
          Now(q, "hb_write", calls[q].zone, calls[q].node, st, calls[q].seen,
              nodes[calls[q].node], calls[q].todo)
    BY <1>3, CallsFollow DEF Arrival
  <2>2. nodes' = nodes
    BY <2>1 DEF HbRead, tables
  <2>3. calls'[q].was = nodes[calls[q].node] /\ calls'[q].node = calls[q].node
    BY <2>1 DEF Now
  <2> QED BY <2>2, <2>3
<1> QED BY <1>2, <1>3

(***************************************************************************)
(* Nodes that stay active: a zone is assigned once                         *)
(***************************************************************************)
\* The calls between the choice of a node and the write of it.
Choosing == {"choose", "check", "fetch", "write"}

LEMMA StableStep ==
    ASSUME RInv, Next
    PROVE  StableInv'
<1>1. calls \in [Calls -> CallState] /\ assign \in [Zones -> Assignment]
      /\ nodes \in [Nodes -> Statuses]
  BY DEF RInv, CallsTyped, TypeOK, Assignment
<1>2. world' = world /\ assign' \in [Zones -> Assignment] /\ nodes' \in [Nodes -> Statuses]
  BY CallsFollow, AssignFollows, NodesFollow
<1> SUFFICES ASSUME Stable PROVE StableInv'
  BY <1>2 DEF StableInv, Stable
<1>3. StableInv /\ LocalInv
  BY DEF RInv
<1>4. \A n \in Nodes : nodes[n] \in {"absent", "active"}
  BY <1>3 DEF StableInv
<1>5. /\ \A n \in Nodes : nodes'[n] \in {"absent", "active"}
      /\ \A n \in Nodes : nodes[n] = "active" => nodes'[n] = "active"
  <2>1. ASSUME NEW p \in Calls, NodeWrite(p)
        PROVE  /\ \A n \in Nodes : nodes'[n] \in {"absent", "active"}
               /\ \A n \in Nodes : nodes[n] = "active" => nodes'[n] = "active"
    <3>1. calls[p].st = "active"
      BY <1>3, <2>1 DEF StableInv, NodeWrite
    <3> QED BY <1>1, <1>4, <2>1, <3>1 DEF NodeWrite
  <2> QED BY <1>4, <2>1, NodesFollow
<1>6. \A p \in Calls : calls[p].pc # "idle" => calls[p].op \notin {"assign", "migrate"}
  BY <1>3 DEF Stable, LocalInv
<1>7. ASSUME NEW p \in Calls, calls[p].pc \in Choosing PROVE Holding(p)
  BY <1>6, <1>7 DEF Holding, Inside, Choosing
<1>8. \A z \in Zones : /\ assign[z].gen <= 1
                       /\ assign[z].gen > 0 => /\ assign[z].state = "active"
                                               /\ assign[z].relay \in Nodes
                                               /\ nodes[assign[z].relay] = "active"
  BY <1>3 DEF StableInv, Assignable
<1>9. ASSUME NEW z \in Zones
      PROVE  \/ assign'[z] = assign[z]
             \/ assign'[z].gen = 0
             \/ /\ \E p \in Calls : (Write(p) \/ Commit(p)) /\ calls[p].zone = z
                /\ assign'[z].gen = 1 /\ assign'[z].state = "active"
                /\ assign'[z].relay \in Nodes /\ nodes[assign'[z].relay] = "active"
  <2>1. ASSUME NEW p \in Calls, Write(p), calls[p].zone = z,
               assign'[z] = NewAssign(calls[p].op, calls[p].seen, calls[p].node)
        PROVE  /\ assign'[z].gen = 1 /\ assign'[z].state = "active"
               /\ assign'[z].relay \in Nodes /\ nodes[assign'[z].relay] = "active"
    <3>1. calls[p].seen \in Assignment /\ calls[p].node \in Nodes \cup {NoNode}
      BY <1>1 DEF CallState
    <3>2. calls[p].pc = "write"
      BY <2>1 DEF Write, At
    <3>3. calls[p].seen.gen = 0 /\ calls[p].node \in Nodes /\ nodes[calls[p].node] = "active"
      BY <1>3, <3>2 DEF StableInv, Assignable
    <3>4. calls[p].op # "migrate"
      BY <1>6, <3>2
    <3>5. PICK a : a = NewAssign(calls[p].op, calls[p].seen, calls[p].node)
      OBVIOUS
    <3>6. a.gen = 1 /\ a.state = "active" /\ a.relay = calls[p].node
      BY <3>1, <3>3, <3>4, <3>5, NewAssignIs
    <3> QED BY <2>1, <3>3, <3>5, <3>6
  <2>2. ASSUME NEW p \in Calls, Assignable(calls[p].node),
               assign'[z] = NewAssign("allocate", NoAssign, calls[p].node)
        PROVE  /\ assign'[z].gen = 1 /\ assign'[z].state = "active"
               /\ assign'[z].relay \in Nodes /\ nodes[assign'[z].relay] = "active"
    <3>1. calls[p].node \in Nodes /\ nodes[calls[p].node] = "active"
      BY <2>2 DEF Assignable
    <3>2. PICK a : a = NewAssign("allocate", NoAssign, calls[p].node)
      OBVIOUS
    <3>3. a.gen = 1 /\ a.state = "active" /\ a.relay = calls[p].node
      BY <3>1, <3>2, NewAssignIs, NoAssignIs
    <3> QED BY <2>2, <3>1, <3>2, <3>3
  <2>3. ASSUME NEW g \in 1..MaxGen, Complete(z, g) PROVE FALSE
    <3>1. assign[z].gen = g /\ assign[z].state = "migrating"
      BY <2>3 DEF Complete
    <3> QED BY <1>8, <3>1
  <2> QED BY <2>1, <2>2, <2>3, AssignFollows, NoAssignIs DEF AssignAfter
<1>10. ASSUME NEW z \in Zones
       PROVE  /\ assign'[z].gen <= 1
              /\ assign'[z].gen > 0 => /\ assign'[z].state = "active"
                                       /\ assign'[z].relay \in Nodes
                                       /\ nodes'[assign'[z].relay] = "active"
  <2>1. CASE assign'[z] = assign[z]
    BY <1>5, <1>8, <2>1
  <2>2. CASE assign'[z].gen = 0
    BY <2>2
  <2>3. CASE /\ assign'[z].gen = 1 /\ assign'[z].state = "active"
             /\ assign'[z].relay \in Nodes /\ nodes[assign'[z].relay] = "active"
    BY <1>5, <2>3
  <2> QED BY <1>9, <2>1, <2>2, <2>3
<1>11. ASSUME NEW q \in Calls
       PROVE  /\ calls'[q].pc \in {"reg_read", "hb_read"} => calls'[q].st \in {"absent", "active"}
              /\ calls'[q].pc \in {"reg_write", "hb_write"} => calls'[q].st = "active"
              /\ calls'[q].pc \in Choosing => assign'[calls'[q].zone].gen = 0
              /\ calls'[q].pc \in {"fetch", "write"} =>
                   calls'[q].node \in Nodes /\ nodes'[calls'[q].node] = "active"
              /\ calls'[q].pc = "write" => calls'[q].seen.gen = 0
              /\ calls'[q].pc = "keep" => /\ calls'[q].seen.relay \in Nodes
                                          /\ nodes'[calls'[q].seen.relay] = "active"
  <2>0. calls[q].zone \in Zones
    BY <1>1 DEF CallState
  <2>1. CASE calls'[q] = calls[q]
    <3>1. /\ calls[q].pc \in {"reg_read", "hb_read"} => calls[q].st \in {"absent", "active"}
          /\ calls[q].pc \in {"reg_write", "hb_write"} => calls[q].st = "active"
          /\ calls[q].pc = "write" => calls[q].seen.gen = 0
      BY <1>3 DEF StableInv
    <3>2. calls[q].pc \in {"fetch", "write"} => calls[q].node \in Nodes /\ nodes[calls[q].node] = "active"
      BY <1>3 DEF StableInv, Assignable
    <3>4. calls[q].pc = "keep" => /\ calls[q].seen.relay \in Nodes
                                  /\ nodes[calls[q].seen.relay] = "active"
      BY <1>3 DEF StableInv, Assignable
    <3>3. ASSUME calls[q].pc \in Choosing PROVE assign'[calls[q].zone].gen = 0
      <4>1. assign[calls[q].zone].gen = 0
        BY <1>3, <3>3 DEF StableInv, Choosing
      <4>2. ASSUME NEW p \in Calls, Write(p) \/ Commit(p), calls[p].zone = calls[q].zone PROVE FALSE
        <5>1. calls[p].pc \in {"write", "commit"}
          BY <4>2 DEF Write, Commit, At
        <5>2. Holding(p) /\ Holding(q)
          BY <1>7, <3>3, <5>1 DEF Choosing, Holding, Inside
        <5>3. p = q
          BY <4>2, <5>2, Exclusive
        <5>4. Write(q)
          BY <3>3, <4>2, <5>3 DEF Commit, At, Choosing
        <5>5. calls'[q].pc \in {"idle", "clear"} /\ calls[q].pc = "write"
          BY <5>4, AllocFlow, NoCallTyped DEF Gone, Saw, Now, Write, At
        <5> QED BY <2>1, <5>5
      <4> QED BY <1>9, <2>0, <4>1, <4>2
    <3> QED BY <1>5, <2>1, <3>1, <3>2, <3>3, <3>4
  <2>2. CASE calls'[q] # calls[q]
    <3>1. Arrival(q)
      BY <2>2, CallsFollow
    <3>9. CASE calls'[q].pc = "keep"
      <4>1. Sticky(q) /\ assign[calls[q].zone].gen > 0 /\ Saw(q, "keep", assign[calls[q].zone])
        BY <3>1, <3>9 DEF Arrival
      <4>2. calls'[q].seen = assign[calls[q].zone] /\ nodes' = nodes
        BY <4>1 DEF Saw, Now, Sticky, tables
      <4>3. /\ assign[calls[q].zone].relay \in Nodes
            /\ nodes[assign[calls[q].zone].relay] = "active"
        BY <1>8, <2>0, <4>1
      <4> QED BY <3>9, <4>2, <4>3 DEF Choosing
    <3>2. CASE calls'[q].pc \in {"reg_read", "hb_read"}
      <4>1. Began(q)
        BY <3>1, <3>2 DEF Arrival
      <4>2. calls'[q].st \in world.states \cup {"absent"}
        BY <3>2, <4>1 DEF Began
      <4> QED BY <3>2, <4>2 DEF Stable, Choosing
    <3>3. CASE calls'[q].pc = "reg_write"
      <4>1. RegRead(q) /\ \E st \in Statuses :
              /\ st = IF calls[q].st # "absent" THEN calls[q].st
                      ELSE IF nodes[calls[q].node] \in {"draining", "disabled"}
                             THEN nodes[calls[q].node] ELSE "active"
              /\ Now(q, "reg_write", calls[q].zone, calls[q].node, st, calls[q].seen,
                     calls[q].was, calls[q].todo)
        BY <3>1, <3>3 DEF Arrival
      <4>2. calls[q].pc = "reg_read"
        BY <4>1 DEF RegRead, At
      <4>3. calls[q].st \in {"absent", "active"} /\ calls[q].node \in Nodes
        BY <1>3, <4>2 DEF StableInv, LocalInv, NodeSteps
      <4>4. calls'[q].st = "active"
        BY <1>4, <4>1, <4>3 DEF Now
      <4> QED BY <3>3, <4>4 DEF Choosing
    <3>4. CASE calls'[q].pc = "hb_write"
      <4>1. HbRead(q) /\ \E st \in Statuses :
              /\ nodes[calls[q].node] \notin {"absent", "deleted"}
              /\ st = IF calls[q].st # "absent" THEN calls[q].st
                      ELSE IF nodes[calls[q].node] = "unhealthy"
                             THEN "active" ELSE nodes[calls[q].node]
              /\ Now(q, "hb_write", calls[q].zone, calls[q].node, st, calls[q].seen,
                     nodes[calls[q].node], calls[q].todo)
        BY <3>1, <3>4 DEF Arrival
      <4>2. calls[q].pc = "hb_read"
        BY <4>1 DEF HbRead, At
      <4>3. calls[q].st \in {"absent", "active"} /\ calls[q].node \in Nodes
        BY <1>3, <4>2 DEF StableInv, LocalInv, NodeSteps
      <4>4. calls'[q].st = "active"
        BY <1>4, <4>1, <4>3 DEF Now
      <4> QED BY <3>4, <4>4 DEF Choosing
    <3>5. CASE calls'[q].pc = "choose"
      <4>0. ASSUME Keep(q), ~Assignable(calls[q].seen.relay) PROVE FALSE
        BY <1>3, <4>0 DEF Keep, At, StableInv
      <4>1. Sticky(q) /\ Saw(q, "choose", assign[calls[q].zone])
            /\ ~(assign[calls[q].zone].gen > 0 /\ assign[calls[q].zone].state = "active")
        BY <3>1, <3>5, <4>0 DEF Arrival
      <4>2. PICK z \in Zones : z = calls[q].zone
        BY <2>0
      <4>3. assign[z].gen \in Nat
        BY <1>1, Constants DEF Assignment
      <4>4. assign[z].gen = 0
        BY <1>8, <4>1, <4>2, <4>3 DEF Assignable
      <4>5. assign' = assign /\ calls'[q].zone = z
        BY <4>1, <4>2 DEF Sticky, tables, Saw, Now
      <4> QED BY <3>5, <4>4, <4>5
    <3>6. CASE calls'[q].pc = "check"
      <4>1. ~(Began(q) /\ calls'[q].op \in {"assign", "migrate"})
        BY DEF Began, Stable
      <4>2. PICK n \in Nodes : Choose(q) /\ Took(q, "check", n)
        BY <3>1, <3>6, <4>1 DEF Arrival
      <4>3. calls[q].pc = "choose" /\ assign' = assign /\ calls'[q].zone = calls[q].zone
        BY <4>2 DEF Choose, At, tables, Took, Now
      <4>4. assign[calls[q].zone].gen = 0
        BY <1>3, <4>3 DEF StableInv
      <4> QED BY <3>6, <4>3, <4>4
    <3>7. CASE calls'[q].pc = "fetch"
      <4>1. Check(q) /\ Assignable(calls[q].node) /\ Same(q, "fetch")
        BY <3>1, <3>7 DEF Arrival
      <4>2. calls[q].pc = "check" /\ assign' = assign
        BY <4>1 DEF Check, At, tables
      <4>3. calls'[q].zone = calls[q].zone /\ calls'[q].node = calls[q].node
        BY <4>1 DEF Same, Now
      <4>4. assign[calls[q].zone].gen = 0
        BY <1>3, <4>2 DEF StableInv
      <4>5. calls[q].node \in Nodes /\ nodes'[calls[q].node] = "active"
        BY <1>5, <4>1 DEF Assignable
      <4> QED BY <3>7, <4>2, <4>3, <4>4, <4>5
    <3>8. CASE calls'[q].pc = "write"
      <4>1. Fetch(q) /\ Saw(q, "write", assign[calls[q].zone])
        BY <3>1, <3>8 DEF Arrival
      <4>2. calls[q].pc = "fetch" /\ assign' = assign
        BY <4>1 DEF Fetch, At, tables
      <4>3. calls'[q].zone = calls[q].zone /\ calls'[q].node = calls[q].node
            /\ calls'[q].seen = assign[calls[q].zone]
        BY <4>1 DEF Saw, Now
      <4>4. assign[calls[q].zone].gen = 0
        BY <1>3, <4>2 DEF StableInv
      <4>5. calls[q].node \in Nodes /\ nodes[calls[q].node] = "active"
        BY <1>3, <4>2 DEF StableInv, Assignable
      <4> QED BY <1>5, <3>8, <4>2, <4>3, <4>4, <4>5
    <3> QED BY <3>2, <3>3, <3>4, <3>5, <3>6, <3>7, <3>8, <3>9 DEF Choosing
  <2> QED BY <2>1, <2>2
<1> QED BY <1>5, <1>10, <1>11 DEF StableInv, Assignable, Choosing

(***************************************************************************)
(* Each node operation pays for one revision                               *)
(***************************************************************************)
LEMMA CountStep ==
    ASSUME RInv, Next
    PROVE  CountInv' /\ revision' \in Nat /\ nodeOps' \in 0..world.nodeOps
<1>1. world.nodeOps \in Nat /\ revision \in Nat /\ nodeOps \in Nat /\ nodeOps <= world.nodeOps
  BY Constants DEF RInv, TypeOK
<1>2. IsFiniteSet(Busy)
  BY DEF RInv, CountInv
<1>3. PICK k : k = Cardinality(Busy)
  OBVIOUS
<1>4. k \in Nat /\ revision + k <= nodeOps
  BY <1>2, <1>3, FS_CardinalityType DEF RInv, CountInv
<1>5. PICK B : B = {p \in Calls : calls'[p].pc \in NodeSteps}
  OBVIOUS
<1>6. B = Busy'
  BY <1>5 DEF Busy
<1>7. ASSUME NEW p \in Calls, Began(p)
      PROVE  CountInv' /\ revision' \in Nat /\ nodeOps' \in 0..world.nodeOps
  <2>1. /\ \A q \in Calls : q # p => calls'[q] = calls[q]
        /\ calls[p].pc = "idle" /\ revision' = revision
    BY <1>7 DEF Began, tables
  <2>2. p \notin Busy
    BY <2>1 DEF Busy, NodeSteps
  <2>3. CASE nodeOps < world.nodeOps /\ nodeOps' = nodeOps + 1
    <3>1. B \in SUBSET (Busy \cup {p})
      BY <1>5, <2>1 DEF Busy
    <3>2. IsFiniteSet(Busy \cup {p}) /\ Cardinality(Busy \cup {p}) = Cardinality(Busy) + 1
      BY <1>2, <2>2, FS_AddElement
    <3>3. IsFiniteSet(B) /\ Cardinality(B) <= Cardinality(Busy \cup {p}) /\ Cardinality(B) \in Nat
      BY <3>1, <3>2, FS_Subset, FS_CardinalityType
    <3>4. PICK m : m = Cardinality(B)
      OBVIOUS
    <3>5. m \in Nat /\ m <= k + 1
      BY <1>3, <3>2, <3>3, <3>4
    <3>6. revision' + m <= nodeOps'
      BY <1>1, <1>4, <2>1, <2>3, <3>5
    <3> QED BY <1>1, <1>6, <2>1, <2>3, <3>3, <3>4, <3>6 DEF CountInv
  <2>4. CASE calls'[p].pc \notin NodeSteps /\ nodeOps' = nodeOps
    <3>1. B = Busy
      BY <1>5, <2>1, <2>2, <2>4 DEF Busy
    <3> QED BY <1>1, <1>2, <1>3, <1>4, <1>6, <2>1, <2>4, <3>1 DEF CountInv
  <2> QED BY <1>7, <2>3, <2>4 DEF Began, NodeSteps
<1>8. CASE \A p \in Calls : ~Began(p)
  <2>1. nodeOps' = nodeOps
    BY <1>8, Requested, TableFrames DEF TableFrame
  <2>2. B \in SUBSET Busy
    <3> SUFFICES ASSUME NEW q \in Calls, calls'[q].pc \in NodeSteps, calls'[q] # calls[q]
                 PROVE  calls[q].pc \in NodeSteps
      BY <1>5 DEF Busy
    <3>1. RegRead(q) \/ HbRead(q)
      BY <1>8, CallsFollow DEF Arrival, NodeSteps
    <3> QED BY <3>1 DEF RegRead, HbRead, At, NodeSteps
  <2>3. CASE revision' = revision
    <3>1. IsFiniteSet(B) /\ Cardinality(B) <= Cardinality(Busy) /\ Cardinality(B) \in Nat
      BY <1>2, <2>2, FS_Subset, FS_CardinalityType
    <3>2. PICK m : m = Cardinality(B)
      OBVIOUS
    <3>3. m \in Nat /\ m <= k
      BY <1>3, <3>1, <3>2
    <3>4. revision' + m <= nodeOps'
      BY <1>1, <1>4, <2>1, <2>3, <3>3
    <3> QED BY <1>1, <1>6, <2>1, <2>3, <3>1, <3>2, <3>4 DEF CountInv
  <2>4. ASSUME NEW p \in Calls, NodeWrite(p), revision' = revision + 1
        PROVE  CountInv' /\ revision' \in Nat /\ nodeOps' \in 0..world.nodeOps
    <3>1. p \in Busy
      BY <2>4 DEF NodeWrite, Busy, NodeSteps
    <3>2. calls'[p].pc \in {"retry_list", "idle"}
      BY <2>4, NodeFlow, NoCallTyped DEF NodeWrite, Gone, Same, Now
    <3>3. B \in SUBSET (Busy \ {p})
      BY <1>5, <2>2, <3>2 DEF NodeSteps
    <3>4. IsFiniteSet(Busy \ {p}) /\ Cardinality(Busy \ {p}) = Cardinality(Busy) - 1
      BY <1>2, <3>1, FS_RemoveElement
    <3>5. IsFiniteSet(B) /\ Cardinality(B) <= Cardinality(Busy \ {p}) /\ Cardinality(B) \in Nat
      BY <3>3, <3>4, FS_Subset, FS_CardinalityType
    <3>6. PICK m : m = Cardinality(B)
      OBVIOUS
    <3>7. m \in Nat /\ m <= k - 1
      BY <1>3, <3>4, <3>5, <3>6
    <3>8. revision' + m <= nodeOps'
      BY <1>1, <1>4, <2>1, <2>4, <3>7
    <3> QED BY <1>1, <1>6, <2>1, <2>4, <3>5, <3>6, <3>8 DEF CountInv
  <2> QED BY <2>3, <2>4, NodesFollow DEF NodeWrite
<1> QED BY <1>7, <1>8

(***************************************************************************)
(* Types                                                                   *)
(***************************************************************************)
LEMMA RowsTyped ==
    ASSUME RInv, Next
    PROVE  /\ pending' \subseteq Zones /\ users' \subseteq Zones /\ refused' \subseteq Zones
           /\ lock' \in [Zones -> Calls \cup {NoCall}]
<1>1. /\ pending \subseteq Zones /\ users \subseteq Zones /\ refused \subseteq Zones
      /\ lock \in [Zones -> Calls \cup {NoCall}] /\ calls \in [Calls -> CallState]
  BY DEF RInv, TypeOK, CallsTyped
<1>2. \A p \in Calls : calls[p].zone \in Zones
  BY <1>1 DEF CallState
<1>3. ASSUME NEW p \in Calls, Commit(p)
      PROVE  pending' \subseteq Zones /\ users' \subseteq Zones /\ refused' \subseteq Zones
  <2>1. /\ users' = users \/ users' = users \cup {calls[p].zone}
        /\ \/ pending' = pending \/ pending' = pending \ {calls[p].zone}
           \/ pending' = pending \cup {calls[p].zone}
        /\ refused' = refused \/ refused' = refused \cup {calls[p].zone}
    BY <1>3 DEF Commit
  <2> QED BY <1>1, <1>2, <2>1
<1>4. ASSUME NEW z \in Zones, ClearAccount(z) PROVE pending' \subseteq Zones /\ users' \subseteq Zones
  BY <1>1, <1>4 DEF ClearAccount
<1>5. ASSUME NEW p \in Calls, Clear(p) \/ Record(p) PROVE pending' \subseteq Zones
  <2>1. pending' = pending \ {calls[p].zone} \/ pending' = pending \cup {calls[p].zone}
    BY <1>5 DEF Clear, Record
  <2> QED BY <1>1, <1>2, <2>1
<1>6. pending' \subseteq Zones /\ users' \subseteq Zones /\ refused' \subseteq Zones
  BY <1>1, <1>3, <1>4, <1>5, TableFrames DEF TableFrame
<1>7. ASSUME NEW p \in Calls, Lock(p) \/ Clear(p) \/ Record(p) \/ Commit(p) \/ Abort(p)
      PROVE  lock' \in [Zones -> Calls \cup {NoCall}]
  BY <1>1, <1>2, <1>7 DEF Lock, Clear, Record, Commit, Abort, AfterAllocate
<1>8. lock' \in [Zones -> Calls \cup {NoCall}]
  BY <1>1, <1>7, TableFrames DEF TableFrame
<1> QED BY <1>6, <1>8

LEMMA TypeStep ==
    ASSUME RInv, Next
    PROVE  TypeOK'
<1>1. world' = world /\ world \in Worlds
  BY CallsFollow DEF RInv, TypeOK
<1>2. nodes' \in [Nodes -> Statuses]
  BY NodesFollow
<1>3. revision' \in 0..world.nodeOps
  <2>1. CountInv' /\ revision' \in Nat /\ nodeOps' \in 0..world.nodeOps
    BY CountStep
  <2>2. PICK B : B = Busy'
    OBVIOUS
  <2>3. IsFiniteSet(B) /\ revision' + Cardinality(B) <= nodeOps'
    BY <2>1, <2>2 DEF CountInv
  <2>4. PICK m : m = Cardinality(B)
    OBVIOUS
  <2>5. m \in Nat /\ world.nodeOps \in Nat
    BY <1>1, <2>3, <2>4, FS_CardinalityType, Constants
  <2> QED BY <2>1, <2>3, <2>4, <2>5
<1>4. assign' \in [Zones -> [relay : Nodes \cup {NoNode}, gen : 0..MaxGen,
                             state : {"active", "migrating"}]]
  BY AssignFollows DEF Assignment
<1>5. /\ pending' \subseteq Zones /\ users' \subseteq Zones /\ refused' \subseteq Zones
      /\ lock' \in [Zones -> Calls \cup {NoCall}]
  BY RowsTyped
<1>6. HoldInv' /\ calls' \in [Calls -> CallState] /\ NoCall \notin Calls
  BY LockStep, CallsFollow, Constants
<1>7. \A p \in Calls : calls'[p].zone \in Zones
  BY <1>6 DEF CallState
<1>8. \A p \in Calls : calls'[p].pc \in Inside => lock'[calls'[p].zone] = p
  BY <1>6, <1>7 DEF HoldInv, Holding
<1>9. \A z \in Zones : lock'[z] # NoCall => calls'[lock'[z]].zone = z
  BY <1>5, <1>6 DEF HoldInv
<1>10. nodeOps' \in 0..world.nodeOps
  BY CountStep
<1>11. faults' \in 0..world.faults
  <2>1. world.faults \in Nat /\ faults \in 0..world.faults
    BY <1>1, Constants DEF RInv, TypeOK
  <2> QED BY <2>1, TableFrames DEF TableFrame
<1> QED BY <1>1, <1>2, <1>3, <1>4, <1>5, <1>8, <1>9, <1>10, <1>11 DEF TypeOK

(***************************************************************************)
(* The invariant is inductive                                              *)
(***************************************************************************)
LEMMA RelayInit == Init => RInv
<1> SUFFICES ASSUME Init PROVE RInv
  OBVIOUS
<1>1. /\ world \in Worlds /\ nodes = [n \in Nodes |-> "absent"] /\ revision = 0
      /\ assign = [z \in Zones |-> NoAssign] /\ pending = {} /\ users = {}
      /\ lock = [z \in Zones |-> NoCall] /\ calls = [p \in Calls |-> NoCallState]
      /\ allows = {} /\ refused = {} /\ nodeOps = 0 /\ faults = 0
  BY DEF Init
<1>2. \A p \in Calls : calls[p] = NoCallState /\ calls[p].pc = "idle" /\ calls[p].op = "none"
  BY <1>1, NoCallTyped
<1>3. world.nodeOps \in Nat /\ world.faults \in Nat /\ NoCall \notin Calls
  BY <1>1, Constants
<1>4. \A p \in Calls : ~Holding(p)
  BY <1>2 DEF Holding, Inside
<1>5. CallsTyped
  BY <1>1, NoCallTyped DEF CallsTyped
<1>6. LocalInv
  BY <1>2 DEF LocalInv, NodeSteps
<1>7. HoldInv
  BY <1>1, <1>3, <1>4 DEF HoldInv
<1>8. TypeOK
  <2>1. nodes \in [Nodes -> Statuses]
    BY <1>1 DEF Statuses
  <2>2. assign \in [Zones -> [relay : Nodes \cup {NoNode}, gen : 0..MaxGen,
                              state : {"active", "migrating"}]]
    BY <1>1, NoAssignIs DEF Assignment
  <2>3. \A p \in Calls : calls[p].pc \in Inside => lock[calls[p].zone] = p
    BY <1>4 DEF Holding
  <2> QED BY <1>1, <1>3, <2>1, <2>2, <2>3 DEF TypeOK
<1>9. CountInv
  <2>1. Busy = {}
    BY <1>2 DEF Busy, NodeSteps
  <2> QED BY <1>1, <2>1, FS_EmptySet DEF CountInv
<1>10. RegisteredCovered /\ ClearInv
  BY <1>1, <1>2 DEF RegisteredCovered, ClearInv
<1>11. FenceInv
  BY <1>1, <1>2 DEF FenceInv
<1>12. StableInv
  <2>1. \A z \in Zones : assign[z].gen = 0
    BY <1>1, NoAssignIs
  <2> QED BY <1>1, <1>2, <2>1 DEF StableInv
<1>13. SingleInv
  BY <1>2 DEF SingleInv
<1> QED BY <1>5, <1>6, <1>7, <1>8, <1>9, <1>10, <1>11, <1>12, <1>13 DEF RInv

LEMMA RelayStutter ==
    ASSUME RInv, UNCHANGED vars
    PROVE  RInv'
<1> USE DEF vars
<1>1. TypeOK' /\ CallsTyped'
  BY DEF RInv, TypeOK, CallsTyped
<1>2. LocalInv' /\ HoldInv'
  BY DEF RInv, LocalInv, HoldInv, Holding
<1>3. CountInv'
  <2>1. Busy' = Busy
    BY DEF Busy
  <2> QED BY <2>1 DEF RInv, CountInv
<1>4. RegisteredCovered' /\ ClearInv'
  BY DEF RInv, RegisteredCovered, ClearInv
<1>5. FenceInv'
  BY DEF RInv, FenceInv, Ordered
<1>6. StableInv'
  BY DEF RInv, StableInv, Stable, Assignable
<1>7. SingleInv'
  BY DEF RInv, SingleInv
<1> QED BY <1>1, <1>2, <1>3, <1>4, <1>5, <1>6, <1>7 DEF RInv

\* RInv holds in every state, for any number of calls, zones, nodes and
\* generations, and in every world.
THEOREM RelayInvariance == Spec => []RInv
<1>1. RInv /\ [Next]_vars => RInv'
  <2>1. ASSUME RInv, Next PROVE RInv'
    BY <2>1, TypeStep, CallsTypedStep, LockStep, CountStep, CoveredStep, FenceStep, StableStep,
       SingleStep DEF RInv
  <2> QED BY <2>1, RelayStutter
<1> QED BY <1>1, RelayInit, PTL DEF Spec

(***************************************************************************)
(* What the tables promise                                                 *)
(***************************************************************************)
LEMMA FencedAllows ==
    ASSUME RInv
    PROVE  AllowFenced
<1> SUFFICES ASSUME Ordered, "clear" \notin world.ops, NEW a \in allows,
                    a.gen = assign[a.zone].gen
             PROVE  a.relay = assign[a.zone].relay
  BY DEF AllowFenced
<1> QED BY DEF RInv, FenceInv, Behind

\* In every state the tables of relay_mgr.rs hold together: the lock of a zone
\* is held by the one call inside it, a registered account has an assignment or
\* a pending row, a cached admission names the relay of its generation
\* (check_relay_admission), and concurrent allocate_zone_relay calls agree on
\* one relay as long as nodes stay active.
THEOREM RelayAlwaysSound == Spec => []RelaySound
<1>1. RInv => RelaySound
  <2>1. RInv => AllocationStable
    BY DEF RInv, StableInv, Stable, AllocationStable
  <2> QED BY <2>1, FencedAllows DEF RInv, RelaySound
<1> QED BY <1>1, RelayInvariance, PTL

\* One call at a time and no clearing: no step takes the generation of a zone
\* back, and a step that changes the status of a node advances the revision that
\* resolvers ask with (assign_zone_relay, heartbeat_relay_node).
THEOREM SerialAlways == Spec => SerialOrder
<1>1. ASSUME RInv, [Next]_vars, Cardinality(world.calls) = 1, "clear" \notin world.ops
      PROVE  /\ \A z \in Zones : assign'[z].gen >= assign[z].gen
             /\ nodes' # nodes => revision' > revision
  <2>1. assign \in [Zones -> Assignment] /\ revision \in Nat /\ nodes \in [Nodes -> Statuses]
    BY <1>1, Constants DEF RInv, TypeOK, Assignment
  <2>2. \A z \in Zones : assign[z].gen \in Nat
    BY <2>1, Constants DEF Assignment
  <2>3. CASE UNCHANGED vars
    BY <2>2, <2>3 DEF vars
  <2>4. CASE Next
    <3>1. Ordered
      BY <1>1 DEF Ordered
    <3>2. assign' \in [Zones -> Assignment]
      BY <1>1, <2>4, AssignFollows
    <3>3. \A z \in Zones : assign'[z].gen \in Nat
      BY <3>2, Constants DEF Assignment
    <3>4. \A z \in Zones : Behind(assign[z], assign'[z])
      BY <1>1, <2>4, <3>1, Forward
    <3>5. \A z \in Zones : assign'[z].gen >= assign[z].gen
      BY <2>2, <3>3, <3>4 DEF Behind
    <3>6. ASSUME NEW p \in Calls, NodeWrite(p), nodes' # nodes PROVE revision' > revision
      <4>1. ASSUME calls[p].pc = "hb_write", calls[p].st = calls[p].was PROVE nodes' = nodes
        <5>1. calls[p].st = nodes[calls[p].node]
          BY <1>1, <4>1 DEF RInv, SingleInv
        <5> QED BY <2>1, <3>6, <5>1 DEF NodeWrite
      <4>2. revision' = revision + 1
        BY <3>6, <4>1 DEF NodeWrite
      <4> QED BY <2>1, <4>2
    <3> QED BY <1>1, <2>4, <3>5, <3>6, NodesFollow
  <2> QED BY <1>1, <2>3, <2>4
<1>2. RInv /\ [Next]_vars =>
        [Cardinality(world.calls) = 1 /\ "clear" \notin world.ops =>
           /\ \A z \in Zones : assign'[z].gen >= assign[z].gen
           /\ nodes' # nodes => revision' > revision]_vars
  BY <1>1
<1> QED BY <1>2, RelayInvariance, PTL DEF Spec, SerialOrder

=============================================================================

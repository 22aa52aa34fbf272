---------------------------- MODULE RtcpTunnelMap ----------------------------
(***************************************************************************)
(* The tunnel map of the RTCP stack (rtcp.rs, struct RTcpTunnelMap) and    *)
(* the tasks that work on it concurrently: inbound handshakes, outbound    *)
(* dials, the background authority confirmations, the exit of run loops,   *)
(* the rollback of undelivered publications and the ordered shutdown.      *)
(*                                                                         *)
(* Every element of Tunnels is one tunnel instance, and so one inbound     *)
(* handshake or one outbound dial; instance ids are never reused.  One     *)
(* action is one critical section of the map mutex or of the mutex of the  *)
(* authority states.  The commit lock (authenticated_commit_lock) spans    *)
(* two such sections, so it is a variable: tasks that do not take it run   *)
(* in between.  A task can be cancelled at each of its awaits.             *)
(***************************************************************************)
EXTENDS Naturals, FiniteSets

CONSTANTS
    Tunnels,    \* tunnel instances (RTcpTunnel::instance_id)
    Names,      \* logical DIDs that are not did:dev
    Devs,       \* canonical did:dev identities
    Keys,       \* tunnel keys: a device, directly or through a bootstrap URL
    Docs,       \* device documents; a document is its revision (iat and hash)
    KeyDev,     \* the device a key leads to
    DirectKey,  \* the key of a device without a bootstrap URL
    DocName,    \* the name a document is about
    DocDev,     \* the device whose default key the document holds
    DocIat,     \* when the document was issued
    InDocs,     \* documents that arriving Hellos carry
    InDevs,     \* devices that send a Hello without a document
    Dials,      \* targets of create_tunnel: records [key, name]
    ReportTrusts,   \* trusts that local verification may yield
    AgedChoices,    \* may a completed confirmation be due again?
    AnonymousAllow, \* inbound_admission.anonymous = Allow
    None        \* the absent value

ASSUME KeyAssumption ==
    /\ KeyDev \in [Keys -> Devs]
    /\ DirectKey \in [Devs -> Keys]
    /\ \A d \in Devs : KeyDev[DirectKey[d]] = d

ASSUME DocAssumption ==
    /\ DocName \in [Docs -> Names]
    /\ DocDev \in [Docs -> Devs]
    /\ DocIat \in [Docs -> Nat]

ASSUME InputAssumption ==
    /\ InDocs \subseteq Docs
    /\ InDevs \subseteq Devs
    /\ Dials \subseteq [key : Keys, name : Names \cup {None}]
    /\ ReportTrusts \subseteq {"snapshot", "authority"}
    /\ AgedChoices \subseteq BOOLEAN
    /\ AnonymousAllow \in BOOLEAN

ASSUME NoneAssumption ==
    /\ None \notin Tunnels
    /\ None \notin Names
    /\ None \notin Devs
    /\ None \notin Keys
    /\ None \notin Docs

VARIABLES
    map,        \* RTcpTunnelMapState, under the map mutex
    closed,     \* instances whose closed flag is set
    pc,         \* where the task of an instance stands
    cand,       \* what the task of an instance is about
    snap,       \* generation of the Negative that a recovery has read
    trust,      \* RtcpIdentityTrust of an instance
    conf,       \* where the authority confirmation begun by an instance stands
    authority,  \* authority_confirmations
    commit,     \* holder of authenticated_commit_lock, or None
    best,       \* name-client's best document of a name
    tasks       \* which of the two task sets still accept tasks

vars == <<map, closed, pc, cand, snap, trust, conf, authority, commit, best, tasks>>

-----------------------------------------------------------------------------
(* State *)

NoBinding == [name |-> None, dev |-> None, key |-> None]
UnboundDev == [name |-> None, instances |-> {}]
NoCand == [key |-> None, doc |-> None, name |-> None]
NoAuthority == [st |-> "None", gen |-> None, rev |-> None]

InHandshake == {"hello", "recover", "resolve", "resolved", "admitted", "commit"}
OutCreating == {"acquire1", "flight", "acquire2", "dial"}
FlightHolder == {"acquire2", "dial"}
PCs == InHandshake \cup OutCreating \cup
       {"idle", "published", "refused", "rollback", "lost",
        "registered", "unspawned", "running", "reused", "done"}

(* The confirmation of an instance: wanted when its document was admitted  *)
(* from a snapshot; pending once its task is spawned; inflight with its    *)
(* ticket; detach or upgrade while it holds the commit lock.               *)
ConfTask == {"pending", "inflight", "detach", "upgrade"}
Confs == {"none", "wanted"} \cup ConfTask

MapState ==
    [lifecycle : {"Running", "Stopping", "Stopped"},
     tunnels   : [Keys -> Tunnels \cup {None}],
     verified  : [Names -> SUBSET Tunnels],
     binding   : [Tunnels -> [name : Names \cup {None}, dev : Devs \cup {None},
                              key : Keys \cup {None}]],
     byDev     : [Devs -> [name : Names \cup {None}, instances : SUBSET Tunnels]]]

(* AuthorityConfirmationState.  The generation a ticket takes from the     *)
(* atomic counter is unique, and an instance begins one confirmation at    *)
(* most, so the generation is represented by that instance.                *)
AuthorityStates ==
    [st : {"None", "InFlight", "Confirmed", "Unavailable", "Negative"},
     gen : Tunnels \cup {None}, rev : Docs \cup {None}]

Init ==
    /\ map = [lifecycle |-> "Running",
              tunnels   |-> [k \in Keys |-> None],
              verified  |-> [n \in Names |-> {}],
              binding   |-> [t \in Tunnels |-> NoBinding],
              byDev     |-> [d \in Devs |-> UnboundDev]]
    /\ closed = {}
    /\ pc = [t \in Tunnels |-> "idle"]
    /\ cand = [t \in Tunnels |-> NoCand]
    /\ snap = [t \in Tunnels |-> None]
    /\ trust = [t \in Tunnels |-> "key"]
    /\ conf = [t \in Tunnels |-> "none"]
    /\ authority = [n \in Names |-> NoAuthority]
    /\ commit = None
    /\ best = [n \in Names |-> None]
    /\ tasks = [runtime |-> TRUE, cleanup |-> TRUE]

-----------------------------------------------------------------------------
(* Methods of RTcpTunnelMapState: functions from a map state to the next.  *)

(* Definitions named ...Mutant are wrong on purpose: each is a plausible    *)
(* slip in the code of the definition that follows it, and PROJECT.json     *)
(* names the property that catches it.                                      *)

(* remove_instance_binding for every instance of S; an instance without a  *)
(* binding is left alone, and so are all the primary slots.                *)
RemoveInstanceBinding(m, S) ==
    LET gone == {t \in S : m.binding[t] # NoBinding}
        rest(d) == m.byDev[d].instances \ {t \in gone : m.binding[t].dev = d}
    IN [m EXCEPT
          !.binding = [t \in Tunnels |-> IF t \in gone THEN NoBinding ELSE m.binding[t]],
          !.verified = [n \in Names |->
                          m.verified[n] \ {t \in gone : m.binding[t].name = n}],
          !.byDev = [d \in Devs |->
                       IF rest(d) = {} THEN UnboundDev
                       ELSE [name |-> m.byDev[d].name, instances |-> rest(d)]]]

(* record_instance_binding: an existing reverse binding keeps its name. *)
RecordInstanceBinding(m, t, n, d, k) ==
    [m EXCEPT
       !.binding[t] = [name |-> n, dev |-> d, key |-> k],
       !.byDev[d] = [name |-> IF m.byDev[d] = UnboundDev THEN n ELSE m.byDev[d].name,
                     instances |-> m.byDev[d].instances \cup {t}]]

(* conflicting_logical_binding: another name holds the device with a live  *)
(* instance ...                                                            *)
Conflicting(m, n, d) ==
    /\ m.byDev[d] # UnboundDev
    /\ m.byDev[d].name # n
    /\ \E t \in m.byDev[d].instances : m.binding[t] # NoBinding /\ t \notin closed

(* Stale bindings are never pruned. *)
PruneStaleBindingMutant(m, n, d) == m

(* ... and when only closed instances hold it for another name, their      *)
(* bindings are pruned.                                                    *)
PruneStaleBinding(m, n, d) ==
    IF m.byDev[d] # UnboundDev /\ m.byDev[d].name # n /\ ~Conflicting(m, n, d)
    THEN RemoveInstanceBinding(m, m.byDev[d].instances)
    ELSE m

(* remove_primary_if_instance for a set of pairs of key and instance. *)
RemovePrimaryIfInstance(m, R) ==
    [m EXCEPT !.tunnels =
        [k \in Keys |-> IF <<k, m.tunnels[k]>> \in R THEN None ELSE m.tunnels[k]]]

(* The instance id is not compared. *)
RemoveIfCurrentMutant(m, t) ==
    RemoveInstanceBinding([m EXCEPT !.tunnels[cand[t].key] = None], {t})

(* remove_if_current *)
RemoveIfCurrent(m, t) ==
    RemoveInstanceBinding(RemovePrimaryIfInstance(m, {<<cand[t].key, t>>}), {t})

(* tunnels.insert, and the insertion into verified_by_logical_did. *)
InsertPrimary(m, k, t) == [m EXCEPT !.tunnels[k] = t]
InsertVerified(m, n, t) == [m EXCEPT !.verified[n] = @ \cup {t}]

(* document_revision_is_strictly_older *)
StrictlyOlder(d, e) == DocIat[d] < DocIat[e]

Live(m, k) == m.tunnels[k] # None /\ m.tunnels[k] \notin closed
Dead(m, k) == m.tunnels[k] # None /\ m.tunnels[k] \in closed

-----------------------------------------------------------------------------
(* Inbound handshake: on_new_tunnel, run by serve_connection_with_permit.   *)

(* A Hello whose possession proof holds; doc is None for a bare did:dev.    *)
InboundHello(t, d, doc) ==
    /\ pc[t] = "idle"
    /\ map.lifecycle = "Running"
    /\ cand' = [cand EXCEPT ![t] =
                  [key |-> DirectKey[d], doc |-> doc,
                   name |-> IF doc = None THEN None ELSE DocName[doc]]]
    /\ pc' = [pc EXCEPT ![t] = IF doc = None THEN "admitted" ELSE "hello"]
    /\ UNCHANGED <<map, closed, snap, trust, conf, authority, commit, best, tasks>>

(* recover_negative_authority_candidate, first half: the snapshot. *)
RecoverSnapshot(t) ==
    /\ pc[t] = "hello"
    /\ LET a == authority[cand[t].name]
       IN IF a.st = "Negative"
          THEN /\ snap' = [snap EXCEPT ![t] = a.gen]
               /\ pc' = [pc EXCEPT ![t] = "recover"]
          ELSE /\ pc' = [pc EXCEPT ![t] = "resolve"]
               /\ UNCHANGED snap
    /\ UNCHANGED <<map, closed, cand, trust, conf, authority, commit, best, tasks>>

(* Second half: the authority has answered that the candidate's revision   *)
(* is current (any other answer is HandshakeFails), and                    *)
(* clear_authority_negative_if_current compares the generations.           *)
ClearAuthorityNegativeIfCurrent(t) ==
    /\ pc[t] = "recover"
    /\ commit = None
    /\ LET n == cand[t].name
           a == authority[n]
       IN \/ /\ a.st = "Negative" /\ a.gen = snap[t]
             /\ authority' = [authority EXCEPT ![n] =
                                [st |-> "Confirmed", gen |-> None, rev |-> cand[t].doc]]
             /\ pc' = [pc EXCEPT ![t] = "resolve"]
          \/ /\ ~(a.st = "Negative" /\ a.gen = snap[t])
             /\ pc' = [pc EXCEPT ![t] =
                         IF a.st = "Confirmed" /\ a.rev = cand[t].doc
                         THEN "resolve" ELSE "done"]
             /\ UNCHANGED authority
    /\ snap' = [snap EXCEPT ![t] = None]
    /\ UNCHANGED <<map, closed, cand, trust, conf, commit, best, tasks>>

(* External: name-client's verify_document admits a document that is not    *)
(* older than its best one, and promotes it.  A conflict it reports at the  *)
(* same iat is HandshakeFails; that it reports one for two documents that   *)
(* are verified at the same time is not visible here, so it may also not.   *)
FreshEnough(doc) ==
    LET b == best[DocName[doc]]
    IN b # None => ~StrictlyOlder(doc, b)

(* resolve_source_device_info: verified, with the trust of the report or,   *)
(* for a revision the authority has confirmed, that of the authority ...    *)
ResolveVerified(t) ==
    /\ pc[t] = "resolve"
    /\ FreshEnough(cand[t].doc)
    /\ LET n == cand[t].name
           a == authority[n]
       IN /\ best' = [best EXCEPT ![n] = cand[t].doc]
          /\ \E r \in ReportTrusts :
               LET tr == IF a.st = "Confirmed" /\ a.rev = cand[t].doc
                         THEN "authority" ELSE r
               IN /\ trust' = [trust EXCEPT ![t] = tr]
                  /\ conf' = [conf EXCEPT ![t] = IF tr = "snapshot" THEN "wanted" ELSE "none"]
    /\ pc' = [pc EXCEPT ![t] = "resolved"]
    /\ UNCHANGED <<map, closed, cand, snap, authority, commit, tasks>>

(* ... or verification is unavailable and only the key is admitted           *)
(* (admit_without_named_identity).  A definite or freshness rejection is     *)
(* HandshakeFails.                                                           *)
ResolveUnavailable(t) ==
    /\ pc[t] = "resolve"
    /\ AnonymousAllow
    /\ cand' = [cand EXCEPT ![t] = [key |-> cand[t].key, doc |-> None, name |-> None]]
    /\ pc' = [pc EXCEPT ![t] = "admitted"]
    /\ UNCHANGED <<map, closed, snap, trust, conf, authority, commit, best, tasks>>

(* find_conflicting_binding: the early answer, which may prune. *)
FindConflictingBinding(t) ==
    /\ pc[t] = "resolved"
    /\ LET n == cand[t].name
           d == KeyDev[cand[t].key]
       IN /\ map' = PruneStaleBinding(map, n, d)
          /\ pc' = [pc EXCEPT ![t] = IF Conflicting(map, n, d) THEN "done" ELSE "admitted"]
    /\ UNCHANGED <<closed, cand, snap, trust, conf, authority, commit, best, tasks>>

(* The handshake fails, times out or is aborted at one of its awaits before *)
(* publication: a held commit lock is released with the future.             *)
HandshakeFails(t) ==
    /\ pc[t] \in InHandshake
    /\ pc' = [pc EXCEPT ![t] = "done"]
    /\ snap' = [snap EXCEPT ![t] = None]
    /\ conf' = [conf EXCEPT ![t] = "none"]
    /\ commit' = IF commit = t THEN None ELSE commit
    /\ UNCHANGED <<map, closed, cand, trust, authority, best, tasks>>

(* register_authenticated_inbound up to the map: with the commit lock held, *)
(* an authority Negative refuses the name.                                  *)
RegisterInboundGate(t) ==
    /\ pc[t] = "admitted"
    /\ cand[t].doc # None
    /\ commit = None
    /\ IF authority[cand[t].name].st = "Negative"
       THEN /\ closed' = closed \cup {t}
            /\ pc' = [pc EXCEPT ![t] = "refused"]
            /\ UNCHANGED commit
       ELSE /\ commit' = t
            /\ pc' = [pc EXCEPT ![t] = "commit"]
            /\ UNCHANGED closed
    /\ UNCHANGED <<map, cand, snap, trust, conf, authority, best, tasks>>

(* One-to-one gate 2 of replace_authenticated_inbound. *)
SameIatConflict(m, doc) ==
    \E e \in m.verified[DocName[doc]] :
        /\ e \notin closed
        /\ DocIat[cand[e].doc] = DocIat[doc]
        /\ cand[e].doc # doc

(* The live instances of the document's name that the document supersedes. *)
Superseded(m, doc) ==
    {e \in m.verified[DocName[doc]] \ closed : StrictlyOlder(cand[e].doc, doc)}

(* replace_authenticated_inbound, accepting: t takes the slot of its key    *)
(* from nobody or from a closed instance ...                                *)
TakeSlot(m, t) ==
    LET k == cand[t].key
        old == IF m.tunnels[k] = None THEN {} ELSE {m.tunnels[k]}
    IN RemoveInstanceBinding(InsertPrimary(m, k, t), old)

(* ... is indexed under its name, and the closed and the superseded         *)
(* instances of that name leave.                                            *)
IndexVerified(m, t) ==
    LET k == cand[t].key
        doc == cand[t].doc
        n == cand[t].name
        stale == (m.verified[n] \cap closed) \cup Superseded(m, doc)
        m1 == RecordInstanceBinding(InsertVerified(m, n, t), t, n, KeyDev[k], k)
    IN RemoveInstanceBinding(
         RemovePrimaryIfInstance(m1, {<<cand[e].key, e>> : e \in stale}), stale)

(* replace_authenticated_inbound: the arbitration in the map's critical     *)
(* section.  Without a verified document the commit lock is not taken.      *)
InMapSection(t) ==
    \/ pc[t] = "commit" /\ commit = t
    \/ pc[t] = "admitted" /\ cand[t].doc = None

(* The map after the two one-to-one gates have let t pass. *)
GatedMap(t) ==
    IF cand[t].doc = None THEN map
    ELSE PruneStaleBinding(map, cand[t].name, KeyDev[cand[t].key])

NameConflict(t) ==
    cand[t].doc # None /\ Conflicting(map, cand[t].name, KeyDev[cand[t].key])

SlotTaken(t) ==
    \/ cand[t].doc # None /\ SameIatConflict(GatedMap(t), cand[t].doc)
    \/ Live(GatedMap(t), cand[t].key)

RefuseInbound(t) ==
    /\ InMapSection(t)
    /\ \/ /\ map.lifecycle # "Running" \/ t \in closed
          /\ closed' = closed \cup {t}
          /\ map' = IF map.lifecycle = "Running" THEN RemoveIfCurrent(map, t) ELSE map
       \/ /\ map.lifecycle = "Running" /\ t \notin closed
          /\ NameConflict(t)
          /\ UNCHANGED <<map, closed>>
       \/ /\ map.lifecycle = "Running" /\ t \notin closed
          /\ ~NameConflict(t)
          /\ SlotTaken(t)
          /\ map' = GatedMap(t)
          /\ UNCHANGED closed
    /\ pc' = [pc EXCEPT ![t] = "refused"]
    /\ commit' = IF commit = t THEN None ELSE commit
    /\ UNCHANGED <<cand, snap, trust, conf, authority, best, tasks>>

AcceptInbound(t) ==
    /\ InMapSection(t)
    /\ map.lifecycle = "Running"
    /\ t \notin closed
    /\ ~NameConflict(t)
    /\ ~SlotTaken(t)
    /\ LET m == TakeSlot(GatedMap(t), t)
       IN IF cand[t].doc = None
          THEN /\ map' = m
               /\ UNCHANGED closed
          ELSE /\ map' = IndexVerified(m, t)
               /\ closed' = closed \cup Superseded(m, cand[t].doc)
    /\ pc' = [pc EXCEPT ![t] = "published"]
    /\ commit' = IF commit = t THEN None ELSE commit
    /\ UNCHANGED <<cand, snap, trust, conf, authority, best, tasks>>

(* The TunnelResult is sent: the guard is disarmed, the confirmation is     *)
(* spawned and the run loop starts.                                         *)
DeliverResult(t) ==
    /\ pc[t] = "published"
    /\ pc' = [pc EXCEPT ![t] = "running"]
    /\ conf' = [conf EXCEPT ![t] =
                  IF conf[t] = "wanted" /\ tasks.runtime THEN "pending" ELSE "none"]
    /\ UNCHANGED <<map, closed, cand, snap, trust, authority, commit, best, tasks>>

(* PublishedInboundGuard::drop: the result was refused, could not be sent,  *)
(* or the future was cancelled.  The instance is marked at once and the     *)
(* rollback goes to the cleanup task set.                                   *)
DropPublishedGuard(t) ==
    /\ pc[t] \in {"published", "refused"}
    /\ closed' = closed \cup {t}
    /\ pc' = [pc EXCEPT ![t] = IF tasks.cleanup THEN "rollback" ELSE "lost"]
    /\ conf' = [conf EXCEPT ![t] = "none"]
    /\ UNCHANGED <<map, cand, snap, trust, authority, commit, best, tasks>>

RollbackPublication(t) ==
    /\ pc[t] = "rollback"
    /\ map' = RemoveIfCurrent(map, t)
    /\ pc' = [pc EXCEPT ![t] = "done"]
    /\ UNCHANGED <<closed, cand, snap, trust, conf, authority, commit, best, tasks>>

-----------------------------------------------------------------------------
(* Outbound: create_tunnel, run by its caller's task.                      *)

CreateTunnel(t, target) ==
    /\ pc[t] = "idle"
    /\ map.lifecycle = "Running"
    /\ cand' = [cand EXCEPT ![t] = [key |-> target.key, doc |-> None,
                                    name |-> target.name]]
    /\ pc' = [pc EXCEPT ![t] = "acquire1"]
    /\ UNCHANGED <<map, closed, snap, trust, conf, authority, commit, best, tasks>>

(* The Negative is not consulted. *)
OutboundGateMutant(t) ==
    /\ pc[t] \in {"acquire1", "acquire2", "dial"}
    /\ cand[t].name # None
    /\ commit = None
    /\ commit' = t
    /\ UNCHANGED <<map, closed, pc, cand, snap, trust, conf, authority, best, tasks>>

(* The gate that acquire_outbound and register_outbound_if_absent share for *)
(* a named target: with the commit lock held, an authority Negative refuses.*)
OutboundGate(t) ==
    /\ pc[t] \in {"acquire1", "acquire2", "dial"}
    /\ cand[t].name # None
    /\ commit = None
    /\ IF authority[cand[t].name].st = "Negative"
       THEN /\ pc' = [pc EXCEPT ![t] = "done"]
            /\ closed' = IF pc[t] = "dial" THEN closed \cup {t} ELSE closed
            /\ UNCHANGED commit
       ELSE /\ commit' = t
            /\ UNCHANGED <<pc, closed>>
    /\ UNCHANGED <<map, cand, snap, trust, conf, authority, best, tasks>>

PastOutboundGate(t) == cand[t].name = None \/ commit = t

(* The lifecycle is not checked. *)
OutboundRefusedMutant(t) ==
    cand[t].name # None /\ Conflicting(map, cand[t].name, KeyDev[cand[t].key])

(* Both refuse after shutdown began, and for a device another name holds.  *)
OutboundRefused(t) ==
    \/ map.lifecycle # "Running"
    \/ cand[t].name # None /\ Conflicting(map, cand[t].name, KeyDev[cand[t].key])

OutboundGatedMap(t) ==
    IF cand[t].name = None THEN map
    ELSE PruneStaleBinding(map, cand[t].name, KeyDev[cand[t].key])

(* Record the target's name, if it has one, on the instance e. *)
BindName(m, t, e) ==
    IF cand[t].name = None THEN m
    ELSE RecordInstanceBinding(m, e, cand[t].name, KeyDev[cand[t].key], cand[t].key)

(* acquire_outbound, called before and again after the create flight is    *)
(* taken: a live tunnel is reused, a closed one is removed.                *)
AcquireOutbound(t) ==
    /\ pc[t] \in {"acquire1", "acquire2"}
    /\ PastOutboundGate(t)
    /\ LET k == cand[t].key
           m == OutboundGatedMap(t)
           proceed == IF pc[t] = "acquire1" THEN "flight" ELSE "dial"
       IN \/ /\ OutboundRefused(t)
             /\ pc' = [pc EXCEPT ![t] = "done"]
             /\ UNCHANGED map
          \/ /\ ~OutboundRefused(t)
             /\ Live(m, k)
             /\ map' = BindName(m, t, m.tunnels[k])
             /\ pc' = [pc EXCEPT ![t] = "reused"]
          \/ /\ ~OutboundRefused(t)
             /\ ~Live(m, k)
             /\ map' = IF Dead(m, k)
                       THEN RemoveInstanceBinding(
                              RemovePrimaryIfInstance(m, {<<k, m.tunnels[k]>>}),
                              {m.tunnels[k]})
                       ELSE m
             /\ pc' = [pc EXCEPT ![t] = proceed]
    /\ commit' = IF commit = t THEN None ELSE commit
    /\ UNCHANGED <<closed, cand, snap, trust, conf, authority, best, tasks>>

(* RTcpCreateFlights::acquire: one creator per key; the permit is held     *)
(* until create_tunnel returns.                                            *)
AcquireFlight(t) ==
    /\ pc[t] = "flight"
    /\ \A u \in Tunnels : pc[u] \in FlightHolder => cand[u].key # cand[t].key
    /\ pc' = [pc EXCEPT ![t] = "acquire2"]
    /\ UNCHANGED <<map, closed, cand, snap, trust, conf, authority, commit, best, tasks>>

(* The connection attempts fail, or the caller drops the future. *)
DialFails(t) ==
    /\ pc[t] \in OutCreating
    /\ pc' = [pc EXCEPT ![t] = "done"]
    /\ commit' = IF commit = t THEN None ELSE commit
    /\ UNCHANGED <<map, closed, cand, snap, trust, conf, authority, best, tasks>>

(* register_outbound_if_absent once the dial has succeeded; on an error     *)
(* create_tunnel closes the new tunnel and returns the winner, if any.      *)
RegisterOutboundIfAbsent(t) ==
    /\ pc[t] = "dial"
    /\ PastOutboundGate(t)
    /\ LET k == cand[t].key
           m == OutboundGatedMap(t)
       IN \/ /\ OutboundRefused(t)
             /\ closed' = closed \cup {t}
             /\ pc' = [pc EXCEPT ![t] = "done"]
             /\ UNCHANGED map
          \/ /\ ~OutboundRefused(t)
             /\ Live(m, k)
             /\ map' = BindName(m, t, m.tunnels[k])
             /\ closed' = closed \cup {t}
             /\ pc' = [pc EXCEPT ![t] = "reused"]
          \/ /\ ~OutboundRefused(t)
             /\ ~Live(m, k)
             /\ map' = BindName(TakeSlot(m, t), t, t)
             /\ pc' = [pc EXCEPT ![t] = "registered"]
             /\ UNCHANGED closed
    /\ commit' = IF commit = t THEN None ELSE commit
    /\ UNCHANGED <<cand, snap, trust, conf, authority, best, tasks>>

(* The run loop is spawned unless the runtime task set is closed ... *)
SpawnRun(t) ==
    /\ pc[t] = "registered"
    /\ pc' = [pc EXCEPT ![t] = IF tasks.runtime THEN "running" ELSE "unspawned"]
    /\ UNCHANGED <<map, closed, cand, snap, trust, conf, authority, commit, best, tasks>>

(* ... and then the new tunnel is removed and closed. *)
SpawnRefused(t) ==
    /\ pc[t] = "unspawned"
    /\ map' = RemoveIfCurrent(map, t)
    /\ closed' = closed \cup {t}
    /\ pc' = [pc EXCEPT ![t] = "done"]
    /\ UNCHANGED <<cand, snap, trust, conf, authority, commit, best, tasks>>

-----------------------------------------------------------------------------
(* A tunnel in the map may close at any time: its control stream fails, it *)
(* reaches its age or epoch limit, or close_tunnel_for_url kicks it.       *)
CloseTunnel(t) ==
    /\ \E k \in Keys : map.tunnels[k] = t
    /\ t \notin closed
    /\ closed' = closed \cup {t}
    /\ UNCHANGED <<map, pc, cand, snap, trust, conf, authority, commit, best, tasks>>

(* close_tunnel_for_url, second half: the caller that closed t removes it,  *)
(* at any later time.                                                       *)
RemoveClosed(t) ==
    /\ t \in closed
    /\ pc[t] \in {"published", "registered", "running", "done"}
    /\ map' = RemoveIfCurrent(map, t)
    /\ UNCHANGED <<closed, pc, cand, snap, trust, conf, authority, commit, best, tasks>>

(* The run loop ends without remove_if_current. *)
RunExitMutant(t) ==
    /\ pc[t] = "running"
    /\ t \in closed
    /\ pc' = [pc EXCEPT ![t] = "done"]
    /\ UNCHANGED <<map, closed, cand, snap, trust, conf, authority, commit, best, tasks>>

(* The run loop sees the closed flag and exits through remove_if_current. *)
RunExit(t) ==
    /\ pc[t] = "running"
    /\ t \in closed
    /\ map' = RemoveIfCurrent(map, t)
    /\ pc' = [pc EXCEPT ![t] = "done"]
    /\ UNCHANGED <<closed, cand, snap, trust, conf, authority, commit, best, tasks>>

-----------------------------------------------------------------------------
(* Background authority confirmation: maybe_spawn_authority_confirmation.  *)

HoldsTicket(t) ==
    LET a == authority[cand[t].name]
    IN a.st = "InFlight" /\ a.gen = t /\ a.rev = cand[t].doc

BeginAuthorityConfirmation(t) ==
    /\ conf[t] = "pending"
    /\ LET n == cand[t].name
           a == authority[n]
       IN \E aged \in AgedChoices :
            IF \/ a.st = "None"
               \/ /\ a.st \in {"Confirmed", "Unavailable"}
                  /\ a.rev # cand[t].doc \/ aged
            THEN /\ authority' = [authority EXCEPT ![n] =
                                    [st |-> "InFlight", gen |-> t, rev |-> cand[t].doc]]
                 /\ conf' = [conf EXCEPT ![t] = "inflight"]
            ELSE /\ conf' = [conf EXCEPT ![t] = "none"]
                 /\ UNCHANGED authority
    /\ UNCHANGED <<map, closed, pc, cand, snap, trust, commit, best, tasks>>

(* complete_authority_unavailable_if_current: no commit lock. *)
CompleteAuthorityUnavailable(t) ==
    /\ conf[t] = "inflight"
    /\ authority' = IF HoldsTicket(t)
                    THEN [authority EXCEPT ![cand[t].name] =
                            [st |-> "Unavailable", gen |-> None, rev |-> cand[t].doc]]
                    ELSE authority
    /\ conf' = [conf EXCEPT ![t] = "none"]
    /\ UNCHANGED <<map, closed, pc, cand, snap, trust, commit, best, tasks>>

(* complete_authority_confirmed_if_current and                              *)
(* complete_authority_negative_if_current: the decision is recorded with    *)
(* the commit lock held ...                                                 *)
CompleteAuthority(t, st, gen, next) ==
    /\ conf[t] = "inflight"
    /\ commit = None
    /\ IF HoldsTicket(t)
       THEN /\ authority' = [authority EXCEPT ![cand[t].name] =
                               [st |-> st, gen |-> gen, rev |-> cand[t].doc]]
            /\ commit' = t
            /\ conf' = [conf EXCEPT ![t] = next]
       ELSE /\ conf' = [conf EXCEPT ![t] = "none"]
            /\ UNCHANGED <<authority, commit>>
    /\ UNCHANGED <<map, closed, pc, cand, snap, trust, best, tasks>>

CompleteAuthorityConfirmed(t) == CompleteAuthority(t, "Confirmed", None, "upgrade")
CompleteAuthorityNegative(t) == CompleteAuthority(t, "Negative", t, "detach")

(* ... then upgrade_verified_identity_revision_trust: the live indexed      *)
(* instances of the confirmed revision gain the authority's trust.          *)
UpgradeTrust(t) ==
    /\ conf[t] = "upgrade"
    /\ trust' = [e \in Tunnels |->
                   IF /\ e \in map.verified[cand[t].name] \ closed
                      /\ cand[e].doc = cand[t].doc
                   THEN "authority" ELSE trust[e]]
    /\ conf' = [conf EXCEPT ![t] = "none"]
    /\ commit' = None
    /\ UNCHANGED <<map, closed, pc, cand, snap, authority, best, tasks>>

(* ... or detach_verified_identity_instances: every instance bound to the   *)
(* name is closed and leaves the map.                                       *)
BoundTo(m, n) == {e \in Tunnels : m.binding[e].name = n}

DetachInstances(t) ==
    /\ conf[t] = "detach"
    /\ LET S == BoundTo(map, cand[t].name)
       IN /\ map' = RemoveInstanceBinding(
                      RemovePrimaryIfInstance(map, {<<map.binding[e].key, e>> : e \in S}), S)
          /\ closed' = closed \cup S
    /\ conf' = [conf EXCEPT ![t] = "none"]
    /\ commit' = None
    /\ UNCHANGED <<pc, cand, snap, trust, authority, best, tasks>>

-----------------------------------------------------------------------------
(* RTcp::shutdown                                                          *)

BeginShutdown ==
    /\ map.lifecycle = "Running"
    /\ closed' = closed \cup {map.tunnels[k] : k \in {j \in Keys : map.tunnels[j] # None}}
    /\ map' = [lifecycle |-> "Stopping",
               tunnels   |-> [k \in Keys |-> None],
               verified  |-> [n \in Names |-> {}],
               binding   |-> [t \in Tunnels |-> NoBinding],
               byDev     |-> [d \in Devs |-> UnboundDev]]
    /\ UNCHANGED <<pc, cand, snap, trust, conf, authority, commit, best, tasks>>

(* runtime_tasks.shutdown takes the task set: nothing is spawned any more,  *)
(* and every task of the set is aborted at its next await.                  *)
CloseRuntimeTasks ==
    /\ map.lifecycle = "Stopping"
    /\ tasks.runtime
    /\ tasks' = [tasks EXCEPT !.runtime = FALSE]
    /\ UNCHANGED <<map, closed, pc, cand, snap, trust, conf, authority, commit, best>>

(* An aborted run loop does not reach remove_if_current. (An aborted        *)
(* handshake is HandshakeFails or DropPublishedGuard.)                      *)
AbortRun(t) ==
    /\ ~tasks.runtime
    /\ pc[t] = "running"
    /\ pc' = [pc EXCEPT ![t] = "done"]
    /\ UNCHANGED <<map, closed, cand, snap, trust, conf, authority, commit, best, tasks>>

AbortConfirmation(t) ==
    /\ ~tasks.runtime
    /\ conf[t] \in ConfTask
    /\ conf' = [conf EXCEPT ![t] = "none"]
    /\ commit' = IF commit = t /\ conf[t] \in {"detach", "upgrade"} THEN None ELSE commit
    /\ UNCHANGED <<map, closed, pc, cand, snap, trust, authority, best, tasks>>

RuntimeTask(t) ==
    \/ pc[t] \in InHandshake \cup {"published", "refused", "running"}
    \/ conf[t] \in ConfTask

(* cleanup_tasks.shutdown starts once every runtime task is joined ... *)
CloseCleanupTasks ==
    /\ ~tasks.runtime
    /\ tasks.cleanup
    /\ \A t \in Tunnels : ~RuntimeTask(t)
    /\ tasks' = [tasks EXCEPT !.cleanup = FALSE]
    /\ UNCHANGED <<map, closed, pc, cand, snap, trust, conf, authority, commit, best>>

(* ... and finish_shutdown follows its drain. *)
FinishShutdown ==
    /\ map.lifecycle = "Stopping"
    /\ ~tasks.cleanup
    /\ \A t \in Tunnels : pc[t] # "rollback"
    /\ map' = [map EXCEPT !.lifecycle = "Stopped"]
    /\ UNCHANGED <<closed, pc, cand, snap, trust, conf, authority, commit, best, tasks>>

-----------------------------------------------------------------------------
InboundStep(t) ==
    \/ \E doc \in InDocs : InboundHello(t, DocDev[doc], doc)
    \/ \E d \in InDevs : InboundHello(t, d, None)
    \/ RecoverSnapshot(t)
    \/ ClearAuthorityNegativeIfCurrent(t)
    \/ ResolveVerified(t)
    \/ ResolveUnavailable(t)
    \/ FindConflictingBinding(t)
    \/ HandshakeFails(t)
    \/ RegisterInboundGate(t)
    \/ RefuseInbound(t)
    \/ AcceptInbound(t)
    \/ DeliverResult(t)
    \/ DropPublishedGuard(t)
    \/ RollbackPublication(t)

OutboundStep(t) ==
    \/ \E target \in Dials : CreateTunnel(t, target)
    \/ OutboundGate(t)
    \/ AcquireOutbound(t)
    \/ AcquireFlight(t)
    \/ DialFails(t)
    \/ RegisterOutboundIfAbsent(t)
    \/ SpawnRun(t)
    \/ SpawnRefused(t)

TunnelStep(t) ==
    \/ CloseTunnel(t)
    \/ RemoveClosed(t)
    \/ RunExit(t)
    \/ AbortRun(t)

ConfirmationStep(t) ==
    \/ BeginAuthorityConfirmation(t)
    \/ CompleteAuthorityUnavailable(t)
    \/ CompleteAuthorityConfirmed(t)
    \/ CompleteAuthorityNegative(t)
    \/ UpgradeTrust(t)
    \/ DetachInstances(t)
    \/ AbortConfirmation(t)

ShutdownStep ==
    \/ BeginShutdown
    \/ CloseRuntimeTasks
    \/ CloseCleanupTasks
    \/ FinishShutdown

Next ==
    \/ \E t \in Tunnels :
         InboundStep(t) \/ OutboundStep(t) \/ TunnelStep(t) \/ ConfirmationStep(t)
    \/ ShutdownStep

Spec == Init /\ [][Next]_vars

-----------------------------------------------------------------------------
(* Fairness: a future that can make progress is polled.  A whole handshake   *)
(* runs under handshake_timeout_secs, a verification under its budget and a  *)
(* dial under its connect timeouts, so each of them ends one way or another  *)
(* even if it never obtains the commit lock.  Nothing obliges a tunnel to    *)
(* close, a Hello to arrive, a dial to start or shutdown to be called.       *)
HandshakeEnds(t) ==
    \/ HandshakeFails(t) \/ RefuseInbound(t) \/ AcceptInbound(t)
    \/ DeliverResult(t) \/ DropPublishedGuard(t) \/ RollbackPublication(t)

DialEnds(t) ==
    \/ DialFails(t) \/ SpawnRun(t) \/ SpawnRefused(t)

(* verify_document runs under a budget: unless its decision is taken, the   *)
(* confirmation ends as unavailable.                                        *)
ConfirmationEnds(t) ==
    \/ BeginAuthorityConfirmation(t) \/ CompleteAuthorityUnavailable(t)
    \/ UpgradeTrust(t) \/ DetachInstances(t) \/ AbortConfirmation(t)

Fairness ==
    /\ \A t \in Tunnels :
         /\ WF_vars(HandshakeEnds(t))
         /\ WF_vars(DialEnds(t))
         /\ WF_vars(RunExit(t) \/ AbortRun(t))
         /\ WF_vars(ConfirmationEnds(t))
    /\ WF_vars(CloseRuntimeTasks)
    /\ WF_vars(CloseCleanupTasks)
    /\ WF_vars(FinishShutdown)

FairSpec == Spec /\ Fairness

-----------------------------------------------------------------------------
(* Properties *)

(* Type invariant of the map, the tasks and the authority states. *)
TypeOK ==
    /\ map \in MapState
    /\ closed \subseteq Tunnels
    /\ pc \in [Tunnels -> PCs]
    /\ cand \in [Tunnels -> [key : Keys \cup {None}, doc : Docs \cup {None},
                             name : Names \cup {None}]]
    /\ snap \in [Tunnels -> Tunnels \cup {None}]
    /\ trust \in [Tunnels -> {"key", "snapshot", "authority"}]
    /\ conf \in [Tunnels -> Confs]
    /\ authority \in [Names -> AuthorityStates]
    /\ commit \in Tunnels \cup {None}
    /\ best \in [Names -> Docs \cup {None}]
    /\ tasks \in [runtime : BOOLEAN, cleanup : BOOLEAN]

Bound(t) == map.binding[t] # NoBinding

(* The parts of IndexesAgree, of any map state m. *)
BindingsAreReversed(m) ==
    \A t \in Tunnels : m.binding[t] # NoBinding =>
        /\ m.binding[t].name \in Names
        /\ m.binding[t].key \in Keys
        /\ m.binding[t].key = cand[t].key
        /\ m.binding[t].dev = KeyDev[m.binding[t].key]
        /\ t \in m.byDev[m.binding[t].dev].instances
        /\ m.byDev[m.binding[t].dev].name = m.binding[t].name

ReverseIsBound(m) ==
    \A d \in Devs :
        /\ \A t \in m.byDev[d].instances : m.binding[t] # NoBinding /\ m.binding[t].dev = d
        /\ m.byDev[d].instances = {} => m.byDev[d] = UnboundDev

VerifiedIsBound(m) ==
    \A n \in Names : \A t \in m.verified[n] :
        m.binding[t].name = n /\ cand[t].doc # None /\ cand[t].name = n

Agree(m) == BindingsAreReversed(m) /\ ReverseIsBound(m) /\ VerifiedIsBound(m)

(* The three indexes of RTcpTunnelMapState never disagree: the reverse index *)
(* lists exactly the bound instances under their device and name, and an     *)
(* indexed revision belongs to an instance bound to that name.               *)
IndexesAgree == Agree(map)

(* "at any moment a canonical DEV DID belongs to at most one verified       *)
(* logical name" (binding_by_canonical_dev).                                *)
OneToOne ==
    \A s, t \in Tunnels :
        Bound(s) /\ Bound(t) /\ map.binding[s].dev = map.binding[t].dev
            => map.binding[s].name = map.binding[t].name

(* An instance that holds a name is the one registered under its key, so    *)
(* draining the primary slots (begin_shutdown) misses no named tunnel.      *)
BoundIsPrimary ==
    \A t \in Tunnels : Bound(t) => map.tunnels[map.binding[t].key] = t

(* No live tunnel that was admitted for a verified document escapes the     *)
(* revocation index, whatever pruning and late exits have happened.         *)
LiveVerifiedIsIndexed ==
    \A k \in Keys :
        Live(map, k) /\ cand[map.tunnels[k]].doc # None
            => map.tunnels[k] \in map.verified[cand[map.tunnels[k]].name]

Detaching(n) == \E t \in Tunnels : conf[t] = "detach" /\ cand[t].name = n

(* Once an authority Negative is recorded and its detach has run, no        *)
(* instance holds the name and none of its verified tunnels is reachable,   *)
(* until a recovery replaces the Negative: neither an inbound publication   *)
(* nor an outbound reuse slips in behind the scan.                          *)
NegativeFence ==
    \A n \in Names : authority[n].st = "Negative" /\ ~Detaching(n) =>
        /\ BoundTo(map, n) = {}
        /\ \A k \in Keys : Live(map, k) => ~(/\ cand[map.tunnels[k]].doc # None
                                             /\ cand[map.tunnels[k]].name = n)

(* Two live indexed tunnels of a name never rest on documents of one iat    *)
(* with different content (gate 2 under the map mutex).                     *)
NoSameIatConflict ==
    \A n \in Names : \A s, t \in map.verified[n] \ closed :
        DocIat[cand[s].doc] = DocIat[cand[t].doc] => cand[s].doc = cand[t].doc

(* No orphan: a live tunnel that was published or registered is in the map, *)
(* where revocation, close_tunnel_for_url and begin_shutdown find it.        *)
NoOrphan ==
    \A t \in Tunnels :
        pc[t] \in {"published", "registered", "unspawned", "running"} /\ t \notin closed
            => map.tunnels[cand[t].key] = t

(* begin_shutdown is the linearization point: afterwards nothing is in the  *)
(* map, and every tunnel that ever was published or registered is closed.   *)
ShutdownDrained ==
    map.lifecycle # "Running" =>
        /\ \A k \in Keys : map.tunnels[k] = None
        /\ \A t \in Tunnels : ~Bound(t)
        /\ \A n \in Names : map.verified[n] = {}
        /\ \A t \in Tunnels :
             pc[t] \in {"published", "registered", "unspawned", "running"} => t \in closed

(* No rollback reaches a closed cleanup set, and shutdown finishes with no  *)
(* task left behind ("shutdown ordering is broken" is never logged).        *)
ShutdownOrdered ==
    /\ \A t \in Tunnels : pc[t] # "lost"
    /\ map.lifecycle = "Stopped" => \A t \in Tunnels : ~RuntimeTask(t) /\ pc[t] # "rollback"

(* The commit lock has a holder that will release it: a lock left behind by *)
(* a cancelled task would block every later registration.                   *)
CommitLockHeld ==
    commit # None =>
        \/ pc[commit] = "commit"
        \/ pc[commit] \in {"acquire1", "acquire2", "dial"} /\ cand[commit].name # None
        \/ conf[commit] \in {"detach", "upgrade"}

(* The map implements the abstract registry. *)
Registry == INSTANCE TunnelRegistry WITH
    holder <- map.tunnels, dead <- closed, stopped <- (map.lifecycle # "Running")

(* The tunnel map refines TunnelRegistry: a slot changes hands only when    *)
(* its holder is closed, only a live instance enters, nothing enters after  *)
(* shutdown began (replace_authenticated_inbound, remove_if_current).       *)
RegistrySpec == Registry!Spec

(* A closed instance leaves the map: its run loop, its rollback or a        *)
(* replacement takes it out, even if nobody ever dials that key again.  And *)
(* a confirmation in flight is decided, unless shutdown aborts it: a name   *)
(* is never left InFlight, a state in which no other confirmation starts.   *)
(* An instance closes once and begins one confirmation at most, so the map  *)
(* comes to rest.                                                           *)
ComesToRest ==
    []<>(/\ \A k \in Keys : map.tunnels[k] \notin closed
         /\ \A n \in Names : authority[n].st = "InFlight" => map.lifecycle # "Running")

(* RTcp::shutdown terminates. *)
ShutdownEnds == map.lifecycle = "Stopping" ~> map.lifecycle = "Stopped"

(* Whatever was begun ends. *)
TasksEnd == ComesToRest /\ ShutdownEnds

(* The map and its indexes are consistent whatever pruning, replacing, late *)
(* exits and confirmations interleave.                                      *)
MapConsistent ==
    /\ TypeOK /\ IndexesAgree /\ OneToOne /\ BoundIsPrimary
    /\ LiveVerifiedIsIndexed /\ NoSameIatConflict

(* Shutdown and cancellation lose nothing: no orphan, no lock left behind,  *)
(* an empty map from begin_shutdown on, and no task after the end.          *)
ShutdownSafe == NoOrphan /\ CommitLockHeld /\ ShutdownDrained /\ ShutdownOrdered

(* Said of the code, and not so: "if B commits first, A [...] closes        *)
(* without indexing" (register_authenticated_inbound).  No live indexed     *)
(* tunnel of a name rests on a strictly older revision than another's.      *)
NewestRevisionOnly ==
    \A n \in Names : \A s, t \in map.verified[n] \ closed :
        ~StrictlyOlder(cand[s].doc, cand[t].doc)

(* Said of the code, and not so: "create_tunnel can never observe a         *)
(* server-side entry whose acceptance was not delivered"                    *)
(* (PublishedInboundGuard).                                                 *)
DeliveredBeforeReuse ==
    [][\A t \in Tunnels :
         pc[t] \in {"acquire1", "acquire2"} /\ pc'[t] = "reused"
             => pc[map.tunnels[cand[t].key]] # "published"]_vars

(* Said of the code, and not so: once the authority has confirmed a         *)
(* revision, the tunnels of that revision have the authority's trust.       *)
ConfirmedIsUpgraded ==
    \A n \in Names : \A t \in map.verified[n] \ closed :
        (/\ authority[n].st = "Confirmed" /\ authority[n].rev = cand[t].doc
         /\ pc[t] = "running" /\ commit = None
         /\ \A u \in Tunnels : conf[u] \notin ConfTask)
            => trust[t] = "authority"
=============================================================================

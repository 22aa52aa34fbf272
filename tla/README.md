# A TLA+ verification of cyfs-gateway

cyfs-gateway is a gateway of the BuckyOS family: protocol stacks (TCP, TLS,
QUIC, UDP, RTCP) accept traffic, programs of a rule language (process chains)
decide what becomes of it, tunnels carry it to other devices, SN servers help
devices to find and reach one another, and BNS names them on a chain. This
directory holds TLA+ models of its protocol logic, TLC runs on small instances
and TLAPS proofs.

Paths below are relative to `src/src/components/` unless they start with
`doc/`. "The map" is `PROJECT.json` "map": it names the lines behind every
definition.

## 1. Inventory

| Part | State it keeps | Operations | Interacts with | Hard behaviour | What makes it correct | Module |
|---|---|---|---|---|---|---|
| RTCP tunnel map (`cyfs-gateway-lib/src/rtcp/rtcp.rs`) | primary slots per tunnel key; instances indexed by verified logical name; one-to-one bindings of names and devices; authority confirmation states; a commit lock; lifecycle | inbound registration, outbound acquire and register, removal by instance, detach of a name, trust upgrade, shutdown | name-client (verification), handshakes, run loops, cleanup tasks | every caller is a task of its own that can be cancelled at each await; two locks; decisions taken before a lock and used under it | one live tunnel per key, one name per device, revocation finds every tunnel of a name, shutdown leaves nothing | `RtcpTunnelMap` (3) |
| RTCP handshake (same file) | nonce cache, per-IP buckets, permits | Hello, HelloAck, confirmation, TunnelResult | tunnel map, listener | timeouts, replays, limits | a replayed Hello is refused; permits return | none |
| RTCP streams (same file, `stream_helper.rs`) | waiting streams by session key, pending requests by sequence number, limits, closed flag | open, ropen, answer, ping, close | tunnel peer, stream listener | answer races timeout and close | a waiter is completed once, slots are returned | `RtcpStreams` (4) |
| BNS indexer (`bns-indexer`) | projected registry, cursor, block hashes | poll, check for a reorganisation, reset, project | chain node, SQLite | reorganisation, failure and restart between steps | the projection equals a replay of the canonical chain | `BnsIndexer` (5) |
| BNS controller (`bns-client/src/sn_bns_controller.rs`, `sn_bns_store.rs`, `evm.rs`) | request rows with signed transactions, nonce cache | prepare, broadcast, wait, replay, recover | chain node, SQLite | crash after broadcast, lost answers, damaged rows | each request executed at most once, and in the end | `SnBnsController` (6) |
| BNS contract (`src/src/apps/bns/src/BnsCore.sol`) | names, authority sets, keys, rules, aliases, documents, lineages | register, renew, transfer, release, rotate, publish | indexer, controllers | expiry, re-registration, replayed calls | nothing of a released lineage is in force; a name keeps an owner that resolves | `BnsContract` (7) |
| Tunnel manager, URL history (`tunnel_mgr.rs`, `tunnel_url_status.rs`, keep-tunnel tasks of `stack/rtcp_stack.rs`) | reachability history per URL, pins, probes in flight, snapshot on disk | query, probe, record, pin, unpin, evict, flush, load | stacks, forwarders | cancelled callers, eviction, crash while writing | pins follow the keep lists, one probe per URL, waiters return | `TunnelUrlHistory` (8) |
| Gateway application (`cyfs-gateway-app-lib/src/gateway.rs`, `stack/stack.rs`) | configuration, running stacks, servers and devices | reload, rule commands, dispatches, prepare, commit, roll back | every component | a step of a reload fails; two commands | what runs is what the configuration says | `GatewayReload` (9) |
| SN relay manager (`cyfs-sn/src/relay_mgr.rs`) | relay nodes, revision of the node map, assignments with generations, pending zones | heartbeat, allocate, assign, migrate, admit, register, clear | SN server, operators | statements of two calls interleave | every account has a relay or waits for one; an old admission is fenced | `RelayManager` (10) |
| ACME manager (`cyfs-acme`) | certificate state per domain, files, order lock, challenge answers | refresh, order, respond, install, retry, renew | CA, DNS provider, TLS stack, other managers | failure or crash between renames, dropped tasks | a matching pair is served, and served until it expires | `AcmeCerts` (11) |
| Process chains (`cyfs-process-chain`) | execution pointer, environments, control results | exec, invoke, goto, return, error, exit, break, loops | all stacks | nested control flow | every control result leaves the frames it names | `ProcessChain` (12) |
| Named inbox cache (`cyfs-gateway-lib/src/server/named_inbox_cache_server.rs`) | records on disk, index, byte and principal accounts, retry times | receive, deliver, cache, refresh, drain, recover | upstream inbox, HTTP server | crash, reload and refresh race a delivery | what is reported as cached stays until the upstream has it | `NamedInboxCache` (13) |
| SN user DNS (`cyfs-sn/src/sn_auth.rs`, `sn_resolver.rs`, `sn_server.rs`, `name_info_cache.rs`, `api/dns.rs`, `api/domain.rs`) | owners, RRsets, values, change feed, domain bindings; per replica cursor and two caches | add, remove, delete, bind, unbind, synchronise, answer | database shared by replicas | feed with retention, failed polls, stale inserts | a cached answer is current or a change is still to be read; records belong to who holds the domain | `UserDns` (14) |
| Forwarding (`forward/plan.rs`, `cmds/forward.rs`) | plan and its failed targets | select, retry | tunnel manager | partial failure | each target tried at most once, order kept | none |
| Connection manager (`connection_manager.rs`) | live connections | add, remove, list | stacks | concurrent close | no leak | none |
| Stacks (`stack/*`) | listeners, UDP sessions | accept, forward, expire | process chains, tunnels | session expiry races a packet | a session's packets go to one peer | start and shutdown in `GatewayReload` |
| Rest of the SN (`cyfs-sn`) | users, devices, tokens, replication cursors | log in, report, query, replicate | database, BNS, other SNs | token expiry, lost messages | only the owner changes a record | none |
| DNS, SOCKS, TUN, lookup, API clients, lint, web UIs | little | I/O | | | | none |

`PROJECT.json` "hazards" lists what is hard to test, at its line.

Every module has an `MC` module that gives the constants their values, and one
run, with a configuration of its own. A run checks several environments at
once: the variable `world` (`scenario`, `program`) is chosen in `Init` from a
set of records that bound how much may happen (how many faults and of which
kind, which requests arrive) and never changes afterwards. Each world is the
smallest that lets one group of races happen; the properties that hold in some
worlds only name the condition they need.

Definitions whose names end in `Mutant` (or stand right before the definition
they vary, under a comment that begins "Mutant:") are deliberately wrong
variants; `PROJECT.json` "mutants" says which property finds each.

Statements of the documents and comments that the code does not keep are
definitions of the modules as well (`NewestRevisionOnly`, `HelloIsNotLost`,
...). They are in no run. `PROJECT.json` "findings" quotes the sentence and
describes the behaviour that breaks it; each section below says with which
constants TLC refutes the definition.

## 2. Plan

Modelled, in this order: `RtcpTunnelMap` with the abstract `TunnelRegistry`,
`RtcpStreams`, `BnsIndexer`, `SnBnsController`, `BnsContract`,
`TunnelUrlHistory`, `GatewayReload`, `RelayManager`, `AcmeCerts`,
`ProcessChain`, `NamedInboxCache`, `UserDns`.

Proved: every safety property, invariants and action properties alike, that
the runs of eight modules check, the refinement of `TunnelRegistry` included.

| Module | Proof module | Inductive invariant | What of the run is proved | Only model-checked |
|---|---|---|---|---|
| `RtcpTunnelMap` | `RtcpTunnelMapProofs` | `RInv` | `MapConsistent`, `NegativeFence`, `ShutdownSafe`, `RegistrySpec` | `TasksEnd` |
| `RtcpStreams` | `RtcpStreamsProofs` | `ResourceInv` | `StreamsSound`, `KeyEpochBounded`, `ResourcesOwned` | `StreamsEnd` |
| `SnBnsController` | `SnBnsControllerProofs` | `WInv` | `WritesSafe`, `FinalIsFinal` | `ReplayConverges` |
| `BnsContract` | `BnsContractProofs` | `LInv` | `LineagesApart`, `NothingGoesBack`, `OwnerStaysReachable` | |
| `TunnelUrlHistory` | `TunnelUrlHistoryProofs` | `UInv` | `PinsSound`, `SingleFlight`, `EvictionFair` | `InFlightDrains` |
| `GatewayReload` | `GatewayReloadProofs` | `GInv`, `SInv` | `ReloadSound`, `NeverStranded` | `CommandsAnswered` |
| `RelayManager` | `RelayManagerProofs` | `RInv` | `RelaySound`, `SerialOrder` | `EventuallyAssigned` |
| `AcmeCerts` | `AcmeCertsProofs` | `AInv` | `CertsSound`, `KeepsServing` | `EventuallyServing` |
| `BnsIndexer`, `ProcessChain`, `NamedInboxCache`, `UserDns` | none | | | everything |

What stays with TLC, and why:

- Liveness: the prover has no rules for fairness and `ENABLED`.
- `BnsIndexer`, `NamedInboxCache` and `UserDns`: `Replay` is computed over the
  whole chain, the accounts of the inbox are sums over its entries, recovery
  and the deletion of a user's names are folds over a set. What these compute
  for every input needs induction over data, which the prover cannot do.
- `ProcessChain`: its state is a stack of activations and environments of any
  depth, and what a control result unwinds is again an induction over it.

Worth proving next: `SignatureKept` of `NamedInboxCache`, which does not depend
on the sums, and `FeedComplete` of `UserDns`.

Modules worth writing next: the nonce cache and limits of the RTCP handshake,
UDP sessions, device reports of the SN, failover of the forwarder.

## 3. RtcpTunnelMap

### What is modelled

`struct RTcpTunnelMap` and every task that works on it. An element of
`Tunnels` is one `RTcpTunnel` instance and therefore one inbound handshake or
one outbound dial; `pc` says where its task stands, `conf` where the
background authority confirmation that it caused stands.

| Model | Code |
|---|---|
| `map.tunnels`, `.verified`, `.binding`, `.byDev`, `.lifecycle` | the five fields of `RTcpTunnelMapState` |
| `closed` | the closed flag of each instance (`mark_closed`) |
| `authority` | `authority_confirmations`: absent, InFlight, Confirmed, Unavailable, Negative, with the ticket's generation |
| `commit` | `authenticated_commit_lock` |
| `snap` | the Negative generation that a recovery has read |
| `trust` | `RtcpIdentityTrust` of an instance |
| `best` | name-client's best document of a name (external) |
| `tasks` | whether the runtime and the cleanup task sets still accept tasks |

One action is one critical section of the map mutex or of the mutex of the
authority states; between two of them anything may happen, which is what an
await allows. The commit lock spans several sections, so taking it
(`RegisterInboundGate`, `OutboundGate`, `CompleteAuthority`) and the section
that it protects (`AcceptInbound`, `AcquireOutbound`, `DetachInstances`) are
different actions. A cancelled future is an action too: `HandshakeFails`,
`DialFails`, `DropPublishedGuard`, `AbortRun`, `AbortConfirmation`.

Documents are abstract: a document has a name, a device and an iat, and two
documents of one iat and name are different contents. Signatures, nonces and
key confirmation are a handshake that goes on or one that fails. The
generation of a ticket is the instance that took it, since an instance takes
one at most.

### TunnelRegistry

The abstract promise: one instance per key, a slot changes hands only when its
holder is dead, only the living enter, death is final, and after the stop the
registry stays empty. `RegistrySpec` states that the map implements it, with
`holder <- map.tunnels`, `dead <- closed`.

### The run

`rtcp_tunnel_map`: two instances, one name that moves between two devices with
three documents (an older one, a newer one, one of equal iat and other
content), a second name that claims the first device, a bootstrap key next to
the direct ones, named and unnamed dials, any authority answers, anonymous
admission, confirmations that age.

| Property | Says |
|---|---|
| `MapConsistent` | `IndexesAgree` (the forward bindings, the reverse index and the verified index agree), `OneToOne` (a device has one name), `BoundIsPrimary` (the holder of a name is registered under its key), `LiveVerifiedIsIndexed` (revocation finds every live verified tunnel), `NoSameIatConflict` (no two contents of one iat are live under a name) |
| `NegativeFence` | behind a recorded and detached Negative no verified tunnel of the name is reachable |
| `ShutdownSafe` | `NoOrphan`, `CommitLockHeld`, `ShutdownDrained`, `ShutdownOrdered` |
| `RegistrySpec` | the map implements `TunnelRegistry` |
| `TasksEnd` | closed tunnels leave the map, confirmations in flight are decided, shutdown ends |

Bounds: every instance is used once, so the number of instances bounds the
behaviours; nothing else is unbounded. With two instances a holder meets its
successor, a stale exit, a recovery and a rival name; all but `TasksEnd` is
proved for any number. Deadlock is not checked: a gateway that nobody
contacts, or that has stopped, may do nothing.

Fairness (`Fairness`): the futures that the code polls make progress. A
handshake runs under `handshake_timeout_secs`, a verification under the
timeout of its resolve options, a dial under its connect timeouts, so each
ends one way or another even if it never obtains the lock; a run loop whose
tunnel is closed returns; an aborted task ends. Nothing obliges a tunnel to
close, a Hello to arrive, or shutdown to be called.

### Where the code and its documents disagree

- **An older revision can outlive a newer one.** `commit_verified_cache_entry`
  always answers Accepted, so the `IgnoredOlder` outcome on which the comment
  above `complete_authenticated_inbound` relies does not occur. If the old
  revision is verified before and committed after the new one, both tunnels
  stay live and indexed (`NewestRevisionOnly`).
- **A confirmation can miss a tunnel.** `register_authenticated_inbound` reads
  whether the authority has confirmed the revision and drops the answer; a
  tunnel resolved before and published after the confirmation keeps the trust
  of the snapshot (`ConfirmedIsUpgraded`).
- **Reuse before delivery.** An inbound tunnel is visible to `create_tunnel`
  from its publication, before its TunnelResult is delivered
  (`DeliveredBeforeReuse`).

TLC refutes each of the three with the constants of the run.

### Proofs

`RtcpTunnelMapProofs`, for every finite or infinite set of instances, names,
devices, keys and documents that satisfies the four named assumptions of
`RtcpTunnelMap` (keys lead to devices, documents have names, devices and
natural iats, inputs are drawn from those sets, None is none of them).

The first inductive invariant is
`IInv == TypeRest /\ CandOK /\ Good(map, closed) /\ Unheld`:

- `Good`: the map has its type, the indexes agree, a bound instance is
  primary, a holder sits under its own key, live verified holders are indexed.
  None is inductive alone: pruning must know that only closed instances lose
  their binding, which rests on the agreement of the indexes.
- `CandOK`: what an instance stands for is fixed once it is past its early
  stages, and a document comes with its name.
- `Unheld`: an instance in an early stage holds no slot, so that a change of
  its candidate cannot disturb an index.

The lemmas say once what each method of `RTcpTunnelMapState` does
(`RemoveFacts`, `RecordFacts`, `PruneFacts`, `TakeFacts`, ...) and that it
keeps a map good (`PruneGood`, `DetachGood`, `BindGood`, `TakeGood`,
`IndexGood`); one lemma per group of actions then applies them.

The second invariant, `FInv == IInv /\ Locks /\ Ordered /\ Drained /\ Fenced`,
carries the concurrency argument. `Effect(t)` describes all that a step of one
task can do to the map: nobody but a task that holds the commit lock and has
passed the Negative gate gives an instance a name, nothing enters after
shutdown began, only closed instances lose a slot. `Locks` says that such a
task's name is not Negative as long as it holds the lock; hence `Fenced`.
`Ordered` is the order of the two task sets, `Drained` that a live placed
tunnel is in the map and that the map is empty after `begin_shutdown`.

The third, `RInv == FInv /\ LiveEarly /\ NoSameIatConflict`, is about closing.
`LiveEarly` says that an instance in an early stage is not closed: whoever
closes an instance finds it in a slot or is its own task (`ClosesOnly`, proved
action by action). Two consequences. A tunnel that enters the index is alive,
so gate 2, which looks at the live indexed tunnels of the name, decides
`NoSameIatConflict`. And an instance that takes a slot is alive, which is the
one fact about `Admit` of `TunnelRegistry` that the map does not check itself;
with it every step maps to `Retire`, `Admit`, `Stop` or a stutter
(`MapRefinesRegistry`), the witnesses `S` and `K` being the instances that the
step closes and the keys that it frees.

Theorems about what the run checks: `MapAlwaysConsistent`, `NegativeIsFenced`,
`ShutdownAlwaysSafe`, `MapRefinesRegistry`. Theorems about their parts:
`TypeCorrect`, `IndexesAlwaysAgree`, `DeviceHasOneName`, `NamedIsRegistered`,
`VerifiedIsRevocable`, `CommitLockIsHeld`, `NoTunnelIsOrphaned`,
`ShutdownDrains`, `ShutdownIsOrdered`.

Only model-checked: `TasksEnd`, which is liveness.

### Left out

Rate limits, permits, nonce replay and cryptography of the handshake; the
contents of streams; the timing of the reconfirmation age (a choice,
`AgedChoices`); the listener's authorization (a handshake that fails).

## 4. RtcpStreams

### What is modelled

The two ends of one established tunnel, seen from `impl RTcpTunnel` and
`stream_helper.rs`. The dialer can reach the acceptor's listener, so a new
stream leg is always a connection from the dialer that begins with a
HelloStream: the dialer asks with Open and connects after the answer, the
acceptor asks with ROpen and waits. The acceptor's stack keeps one slot per
expected HelloStream in a map that all its tunnels share.

| Model | Code |
|---|---|
| `closed`, `aged`, `closer` | the closed flag, `created_at` against `MAX_RTCP_TUNNEL_AGE`, how far `close()` has come |
| `running`, `ctl` | the read loop `run()` of each end and the control packages on their way to it, in order |
| `used` | `used_stream_ids` |
| `pc`, `sid`, `rx`, `leg`, `out` | one call of `request_open_stream` or `ping_rtt`: where it stands, its id, its oneshot receiver, the leg it holds, its result |
| `waiters` | the three maps of response waiters |
| `job`, `jleg` | the peer's work for a request: `on_open` with `finish_open`, `on_ropen` |
| `slot`, `pending`, `draining` | the stack's wait map, the tunnel's own keys in it, the keys that `close()` has drained |
| `hello` | legs whose HelloStream has not reached the listener |
| `keyed` | every encrypted stream made so far: end, request, leg (a history) |

One action is what a future does between two awaits. Where the code takes two
locks one after the other (`register_wait_stream`, `wait_ropen_stream`, the
stages of `close()`) these are different actions, because others run between
them. A request stands for its sequence number, and the leg built for it
carries its name, so "the right leg" can be stated. `on_open` runs inside the
read loop up to its response and blocks it; `finish_open` and `on_ropen` are
tasks. The transport may break at any time (`LoopFails`, `PostFails`); what a
dead loop has not read is lost. Timeouts may fire at any time.

### The run

`rtcp_streams`: an Open, an ROpen and a Ping, two ids of which the tunnel may
use one, one build slot, both ends may age, the acceptor may close, callers may
drop their futures.

| Property | Says |
|---|---|
| `StreamsSound` | `OneStreamPerId`, `LegsMatch` (a stream runs over the leg built for its request), `ReservationsEnd` (none survives `close()`) |
| `KeyEpochBounded` | the tunnel key encrypts no more streams at an end than `max_stream_ids_per_tunnel`, although `close()` forgets the ids |
| `ResourcesOwned` | while no caller was dropped, every slot and every waiter has an owner that will release it |
| `StreamsEnd` | requests return, slots are reclaimed, the tunnel comes to rest and both ends close |

Bounds: one request of each kind. Both ends draw ids themselves, so a collision
between an Open and an ROpen in flight happens; `MaxBuilds` is 1, so a second
admission meets a full set of build slots; `MaxIds` of 1 makes a key epoch run
out. The constraint `TwoEvents` keeps to behaviours with two of the events that
no fairness condition asks for (a request, a drop, an end that ages); closing
and failing read loops are not bounded by it. Deadlock is not checked: after
the requests have returned nothing need happen.

Fairness: a future that has been polled goes on, each of its waits has a
deadline that fires, a read loop reads what is there (a FIN of the peer
included) and `close()` runs through. Nothing is assumed of the network beyond
that, nor of callers, of the tunnel map or of the age. A call that has not
begun need not begin.

### Where the code and its comments disagree

- **A dropped caller leaks its slot.** `request_open_stream` cleans up on its
  return paths, not on drop. A connection task aborted while it opens a stream
  leaves the slot until the tunnel closes; dropped between the two locks of
  `register_wait_stream`, it leaves the slot in the stack's map for good.
  `stream_helper.rs:8` requires that a waiting entry be reclaimed within its
  timeout. TLC refutes `ResourcesOwned` and `ComesToRest` without their
  condition on dropped callers.
- **A HelloStream can be lost.** `wait_ropen_stream` takes the stream out of
  the map and then awaits a second lock; if the ROpenResp wins the `select!`
  at that moment the stream is dropped with the branch, and the second wait
  fails with Interrupted on a live tunnel (`HelloIsNotLost` is refuted with one
  ROpen).

### Proofs

`RtcpStreamsProofs`, for every set of requests and every finite set of ids, and
all limits. It uses `RequestAssumption` (the
three kinds of requests are disjoint and make up `Requests`),
`AbsentAssumption` and `BoundAssumption` (the limits are natural numbers and
the ids finitely many).

The invariant `StreamInv` turns on `Here(e)`, the requests whose id an end
knows: its own from the reservation, the peer's from their admission.

- `IdsRecorded`: until `close()` clears them, all these ids are in `used[e]`;
  `ClosedFirst`: the clearing is behind the closed flag. `Reserve` and `Admit`
  require the flag to be down and the id to be absent from `used[e]`, so
  `IdsDistinct` survives them, and also the clearing, since nothing is
  reserved or admitted afterwards (`ReservationsEnd`). Lemma `Learn` is this
  argument, and only those two steps need it; for all others lemma `Frame`
  says that `Here` does not change.
- `LegsInPlace`: a leg in a slot, in flight or in somebody's hands carries the
  id it is kept under. With `IdsDistinct` it is the leg of the request that
  looks there, hence `KeyedIsHere` and `LegsMatch`.
- `PlacesMatch` and `MessagesMatch` are what that needs of requests, jobs and
  packages: who has an id, and that an Open answered "ok" has been admitted.

`ResourceInv == StreamInv /\ EpochInv /\ WaiterInv /\ SlotInv` adds what is
counted and owned:

- `EpochInv`: the requests whose id an end knows, and the ids it has recorded,
  are at most `MaxIds`. The ids are distinct, so the requests inject into the
  ids as long as these are recorded (`InjectsInto`); when `close()` forgets the
  ids the end learns no more, so the bound outlives them.
- `WaiterInv`: a registered waiter belongs to a request under way whose
  receiver is empty; whoever fills the receiver has taken the waiter out.
- `SlotInv`: a slot is one that `close()` has drained or will drain (`Kept`),
  or one that a request or a job at a step of its cleanup path will remove
  (`Claim`). The interesting steps are those between two locks: the key is
  entered after the slot and removed before it, and a `close()` that comes in
  between takes the key along.

Theorems about what the run checks: `StreamsAlwaysSound`,
`KeyEpochAlwaysBounded`, `ResourcesAlwaysOwned`; about their parts:
`StreamTypeCorrect`, `OneStream`, `LegsAlwaysMatch`, `ReservationsAlwaysEnd`.

Only model-checked: `StreamsEnd`, which is liveness.

### Left out

Answers in the wrong direction or with a malformed id, which no conforming
peer sends; the choice among reconnect addresses; wrap-around of the sequence
numbers; the level of the token bucket (a refusal may happen at any request);
several concurrent `close()` calls at one end (the first one counts);
datagrams and the bytes of the streams.

## 5. BnsIndexer

`bns-indexer/src/sync.rs` and `sqlite.rs`: `run_polling_loop` reads the head,
checks the cursor's block against the chain, clears the projection after a
reorganisation, reads the logs of a range and a snapshot of the names they
touch, writes record by record, and moves the cursor last. One action is one
request to the node or one transaction of the store, so the chain may change,
a request fail or the process restart between any two. `tree` holds every
branch that was ever mined, `tip` the canonical one; a block carries at most
one event of one name. `Replay` is the reference: the tables that result from
reading a branch from its start.

`bns_indexer` runs two worlds. `Confirmed`: replaced branches are no deeper
than the confirmations, at any moment, with failures and restarts.
`Reorganised`: branches of any depth are replaced, and may be shorter than the
old ones, between two rounds, and nothing fails. Four blocks, one confirmation
and ranges of two give a round that covers a range, one that is cut, and a
reorganisation below, at and above the cursor.

- `ProjectionSound`: no row comes from a block that has left the chain (where
  reorganisations are shallow), also in the middle of a round; the event log
  has no holes.
- `CursorIsReplay`: when the cursor moves to a block, the tables are the replay
  of that block's branch.
- `Converges`: once the chain rests, so do the tables, at its replay.
  Fairness: the loop goes on (`WF(Round)`); the chain and the faults are
  finite, not fair.

Refuted: `CursorIsReplay` with deep reorganisations together with faults (a
failed check hides the reorganisation; a round that stops part-way leaves rows
above the cursor) or in the middle of a round (three requests of one round see
two branches). Left out: cursors without hashes of older databases, the read
queries, several names or events in a block, the fallback of the multicall,
decoded calls.

## 6. SnBnsController

`bns-client/src/sn_bns_controller.rs`, `sn_bns_store.rs` and the signing and
sending of `evm.rs`. A request is persisted with its signed bytes before it is
sent, replayed byte for byte under its id, recovered at start, and finished by
the receipt that a waiter or a replay finds. `records` are the rows, `lock` is
`execution_lock` with the step of the future that holds it, `nextNonce` the
nonce cache, `pool`, `wire` and `mined` the node (external). One action is one
statement on the store or one request to the node.

`sn_bns_controller` runs three worlds of faults, three faults in each:
`Unreliable` (crashes, lost requests and answers, late arrivals, dropped
callers, a node that forgets; no damage), `Damaged` (rows whose bytes no longer
decode; nothing arrives late) and `Network` (the node's RPC and callers only).

- `WritesSafe`: a request is executed at most once; a row says Succeeded or
  Reverted only if the chain says so of its own transaction; whatever the node
  has or may still get is in a row; under mild faults (`Mild`: the process, the
  store and the pool last) two requests never share a nonce, and what was
  answered Ok is in the pool or on the chain.
- `FinalIsFinal`: no step writes over a receipt.
- `ReplayConverges`: under mild faults a stored request that is replayed gets
  its receipt. Fairness: callers replay until answered (`SF`, since others may
  take the lock), futures run, the node includes what it can and delivers what
  is under way.

Refuted: `ReplayConverges` without `Mild`, in the world of crashes and failing
requests: after a restart `reserve_nonce` gives the nonce of a stored row to
another request. Left out: how each write is built, `next_nonce` over the
direct chain RPC, rows of versions that stored no bytes, the repair of
metadata, reorganisations behind a receipt, several signers.

### Proofs

`SnBnsControllerProofs`, for every set of requests and payloads, every number
of faults and every set of worlds that satisfies `ConstantsAssumption` and
`WorldsAssumption`. The second says that no world has both damaged rows and
late arrivals: a row that does not decode is removed once the node does not
know its hash, and a copy of its bytes that is still under way would then be
executed next to the new transaction, so `AtMostOnce` is false there.

Theorems `WritesAlwaysSafe` and `ReceiptsAreFinal`. The inductive invariant
`WInv` adds to the parts of `WritesSafe` what they lean on:

- `LockInv`, the centre of it: for each step of the future that holds
  `execution_lock`, which row it works on and what it has seen of the chain.
  What was read before an await is still true when it is used, since rows only
  change under the lock or to the same receipt, and the chain only grows.
- `RowInv` and `CountInv`: a row stores a transaction of its own request; only
  rows that do not decode are quarantined; a request is signed again only for a
  damaged row, so the signatures are bounded by the faults.
- `NonceInv` and `PoolFinite`: the chain takes nonces in order, hence
  `AtMostOnce` follows from `BroadcastIsRecorded`; the pending count that the
  node answers exists (lemma `Gap`).
- `CacheOne`, `CacheAbove`: under mild faults the cached nonce is above every
  stored one, hence `NonceUnique`.

Only model-checked: `ReplayConverges`.

## 7. BnsContract

`src/src/apps/bns/src/BnsCore.sol`: registration, renewal, release, transfer,
owners, authority keys, controller rules, aliases and documents, each stored
under a state key that contains the lineage of the name. One action per
external function; a call that reverts is no step. Time advances by an action.

`bns_contract` runs four scenarios: `Lineages` and `OldLineage` (a name is
registered, filled, released and registered again, also one that an older
contract registered), `Expiry` (leases and keys run out, two keys rotate) and
`Owners` (a name and its subname under every kind of owner). The bound on the
sequence numbers of a name ends the behaviours, so deadlock is not checked.

- `LineagesApart`: nothing of an earlier lineage is in force; the predecessor
  of a document is in its lineage.
- `NothingGoesBack`: the guard against replays covers the whole name, counters
  only grow, published versions stay.
- `OwnerStaysReachable`: a name whose owner resolves keeps one that resolves,
  until it or a name it depends on is given up or runs out.

Refuted: `NewOwnerCanSign` in `Expiry`: keys that expired are still counted.
Left out: the hash chain of events and its checkpoints, validation of strings
and document references, expiry of documents and rules, the selector router,
duplicate types in `transferName`.

### Proofs

`BnsContractProofs`, for every set of names, accounts and document types, every
finite set of key ids (an authority set counts its active keys), all bounds and
all scenarios. Theorems `LineagesStayApart`, `CallsUndoNothing` and
`OwnersStayReachable`. The inductive invariant `LInv` adds two facts to the
parts of `LineagesApart`:

- `Shape`: a name that was never registered is blank, and `nameSeq` counts at
  least the registrations.
- `Future`: nothing is stored under the state key of a lineage that is still to
  come. It is what makes `LineageIsolated` survive a registration: the key that
  the registration activates is empty whether or not the lineage before it had
  a marker, so nothing has to be cleared.

Every step is first shown to be one of three things (`NextIsStep`): a call that
writes within the present lineage of one name (`Within`, a release included), a
registration that starts a new one (`Anew`), or time that passes. Each of the three theorems is then
an argument about those, not about the functions of the contract. For
`OwnersStayReachable` the step is the latch: a set of authority keys that was
not empty does not become empty within its lineage, and a new owner path is
validated on the state that the call leaves.

TLC checked `LInv` on the run's scenarios (74 thousand states) before the
proof. Nothing of this run is left to TLC alone.

## 8. TunnelUrlHistory

`tunnel_mgr.rs` and `tunnel_url_status.rs` with the keep-tunnel tasks of
`stack/rtcp_stack.rs`: the history of what is known of each URL, its pins,
shared probes with permits, the flush to disk. One action is one critical
section of a map; queries, probes, stacks and the flush loop are tasks, and
callers may go away at every await.

`url_history` runs six worlds: `Keepers` and `CutOff` (two stacks keep one URL,
in the second their updates are cut off), `Callers` and `Caller` (queries of
one and of two callers with one permit, a URL without a prober, time),
`Crowded` (room for one entry) and `Persisted` (the gateway dies while it
writes).

- `PinsSound`: pins, pinned flags, keep lists and tasks agree, and the file on
  disk is a whole snapshot.
- `SingleFlight`: at most one probe of a URL runs, and the map names it.
- `EvictionFair`: eviction never takes a pinned entry and leaves no more than
  the limit unless all are pinned.
- `InFlightDrains`: every probe leaves the map although its callers have gone.
  Fairness is that of the spawned driver alone: it is polled (`WF`) and gets a
  permit that is returned again and again (`SF`).

Refuted: `KeepAliveReachesSiblings`. Left out: the registry of builders,
normalisation of URLs, sort policies, statistics of round-trip times, a stack
that starts while a reload boots, the Drop path of `RtcpStack`, tasks orphaned
by a cancelled shutdown. `invalidate`, `clear` and `record_tunnel_level_event`
have no callers in the repository.

### Proofs

`TunnelUrlHistoryProofs`, for every finite set of URLs and of stacks, any
callers, probes, times and limits, and all environments that satisfy the three
named assumptions. Theorems `OneProbePerUrl`, `PinsStaySound` and
`EvictionStaysFair` (with its parts `PinnedEntriesSurvive` and
`RecordsStayBounded`). The inductive invariant is `UInv`:

- `SingleFlight` is inductive with the types of queries and probes. The step
  that matters is `QueryStart`: the second look at the map is under the lock of
  the insert, so a URL that is absent has no live probe, by the third conjunct.
- `PinFlagAgrees` with the type of the history. Each writer of an entry is one
  lemma (`RecordKept`, `LevelEventKept`, `PinKept`, `UnpinKept`, `CrashHist`),
  which also says whether a pinned entry may go (`KeepsPinned`): eviction takes
  unpinned entries only (`EvictIs`), and as many as it must (`EvictBounds`).
- `PinsCounted`: the owners of a URL are counted over the stacks
  (`OwnersStep`): a start adds an owner and a pin, a stop turns a task into a
  pending unpin and changes nothing, the unpin takes both away, and a walk that
  is cut off only ever drops owners. Without cut-off walks a URL about to be
  started has no task (`WalksSound`), which is what keeps the counts equal and
  not merely ordered.
- `WalksSound`: where a walk over a keep list stands; at its end the tasks are
  those of the list, hence `TasksMatchKeep`.
- `DiskSound`: the temporary file is whole when it is about to be renamed,
  hence `DiskComplete`.

TLC checked `UInv` on the six worlds (172 thousand states) before the proof.

Only model-checked: `InFlightDrains`.

## 9. GatewayReload

`cyfs-gateway-app-lib/src/gateway.rs` and `cyfs-gateway-lib/src/stack/`: a
command takes `reload_lock`, builds the services, prepares handlers for the
stacks that stay, creates new stacks, shuts old ones down, starts the new ones,
commits, and on a failure rolls back through a second reload under the same
lock. Each of these is an action, and each may fail or be cut off.

`gateway_reload` runs `Grow` (two clients, three files, dispatches, two
faults), `Swap` (a stack replaced under another id on its address, stacks that
let go of it late, rules added by command) and `OneFault`.

- `ReloadSound`: what runs follows `Gateway.config` over failures, rollbacks
  and cancellations (`ConfigApplied`, `DevicesFollowConfig`), and no handler of
  another reload is swapped in (`CommitsOwnUpdate`).
- `NeverStranded`: one fault never makes the rollback fail, where nothing is cut
  off, each stack has an address of its own and gives it back at once
  (`OneFailure`).
- `CommandsAnswered`: every command ends. Fairness: a running command goes on,
  and one that waits for the lock gets it in the end (`tokio::sync::Mutex` is
  fair). Deadlock is not checked: the number of commands is bounded.

Refuted: `ReplacementCanBind` where stacks release their port late, and
`UnsavedStaysGone` with two clients and two rules. Left out: the editing of
JSON rules, `save_config` and `init_config`, templates, name providers, the
CLI, the first boot, the unreachable error path of the timer.

### Proofs

`GatewayReloadProofs`, for all stacks, addresses, configuration files, commands
and environments that satisfy `ReloadAssumption` (files are configurations,
there is a client, a stack id and a file, environments use what the constants
declare). Theorems `ReloadIsTransaction` and `OneFailureSurvived`.

The first invariant, `GInv`, adds to the parts of `ReloadSound`:

- `Holder`: the command that runs is the one the job belongs to, so a second
  command can neither prepare a handler nor install a configuration.
- `Pieces`: what a job has taken out of the manager or not yet put into it is
  disjoint from what the manager holds.
- `Reloading`: how far the job has come. Every stack of the target is prepared
  or created before anything is shut down, then the manager has no others, then
  handlers and services follow; so at the end what runs is the target, and
  `ConfigApplied` holds when `Gateway.config` is replaced.
- `Removing`: the same for `remove_dispatch`, which is no reload.

The second, `SInv`, is about the way back: under `OneFailure` no address is
still being closed, every configuration in play has a place for each stack
(`AllPlaced`), a reload going forward has touched nothing of the old
configuration that a rollback could not set up again (`WayBack`), and whoever
rolls back has used up the fault (`FaultSpent`). A stack then starts unless a
fault is injected, and the rollback cannot fail.

The proof attempt showed what `NeverStranded` needs. A file that puts two
stacks on one address fails to start without any fault; the one fault can then
hit the rollback. So the property holds only where each stack has its own
address (`OwnAddresses`), which is part of its premise.

TLC checked both invariants on the run's worlds (299 thousand states) before
the proof.

Only model-checked: `CommandsAnswered`.

## 10. RelayManager

`cyfs-sn/src/relay_mgr.rs`, with the registration and the clearing of accounts
of `sn_auth.rs`. Each call is a task that reads and writes SQLite in separate
statements; one action is one statement (or one transaction), and a call may be
cut off between two. Only `allocate_zone_relay` and a registration hold the
named lock of their zone. `assign` is `relay_assignments`, `revision` the
revision of the node map, `allows` a history of the admissions granted.

`relay_manager` runs two nodes, one zone and three generations in four worlds:
`Serving` (registrations, heartbeats and admissions race), `Clearing` (the same
with accounts cleared and a call cut off), `Arriving` (nodes only become
active) and `Moving` (one call at a time, operators assign and migrate).

- `RelaySound`: the holder of a zone's lock is the call inside it; an account
  has an assignment or a pending row from its registration on
  (`RegisteredCovered`); an admission that a relay has cached names the relay
  of its generation (`AllowFenced`, where calls do not overtake each other:
  `Ordered`); concurrent allocations agree while nodes stay active
  (`AllocationStable`).
- `SerialOrder`: one call at a time, generations never go back and a changed
  status is a new revision.
- `EventuallyAssigned`: an account gets its relay once a node stays active.
  Fairness: calls are polled to their end, and the devices of a zone keep
  asking for a tunnel (`SF`: other calls take the two places in between).

Refuted: `AllowFenced` without `Ordered` (two assignments of one generation),
`SerialOrder` with two concurrent heartbeats, `RegistrationSucceeds` (an
admission of an unregistered zone allocates), `PendingRetried`. Left out: the
ranking of nodes (some assignable one is chosen), addresses and
`update_relay_node_addresses`, device bindings (an admission may be refused),
metrics, lease times, statuses that no code sets.

### Proofs

`RelayManagerProofs`, for every set of calls, zones and nodes, any bound on
generations and any worlds that satisfy `RelayAssumption` (a world's calls are
finitely many; an empty set of zones is excluded because a call starts with
some zone). Theorems `RelayAlwaysSound` and `SerialAlways`. The inductive
invariant `RInv`:

- `HoldInv`: the lock of a zone is held by exactly the call that is inside an
  allocation or a registration of it, `check` to `write` included unless the
  call is an operator's. Two holders of one zone are one call (`Exclusive`).
- `ClearInv`: a call that is about to clear the pending row has an assignment
  in front of it, or the account is gone; with `RegisteredCovered` it is
  inductive. The account that vanishes and is registered again in between is
  the case that needs the lock.
- `FenceInv`, in ordered worlds without clearing: a call about to write has
  read the row as it is, and what a call answers from, or a relay has cached,
  is the row or an earlier one (`Behind`). `Forward` says that no step takes
  the row back.
- `StableInv`, where nodes stay active: nobody is between the choice and the
  write of a zone that has an assignment.
- `CountInv`: revisions and node operations under way together are at most the
  operations that began; `SingleInv`: a heartbeat alone writes over the status
  it read.

`Arrives` says once how each call comes to the statement it is about to run,
and `TableFrames` which step writes which table; the lemmas per conjunct use
only these two.

Only model-checked: `EventuallyAssigned`.

## 11. AcmeCerts

`cyfs-acme`: managers of one domain that refresh from the files, order under a
lock that processes share, answer a challenge, install the chain and the key
with two renames, and retry or renew. One action is one request to the CA or
one operation on files; tasks may be dropped, the process may die.

`acme_certs` runs five worlds: two managers where anything fails once
(`Managers`), an account that cannot be registered (`Unregistered`), another
program that installs certificates (`Crowd`), one manager over two ages of a
certificate (`Single`), one with TXT records (`Records`).

- `CertsSound`: what is served is a matching pair, no second certificate is
  issued while one is fresh, and answers to challenges are taken back.
- `KeepsServing`: a manager that is alone with its files serves until expiry.
- `EventuallyServing`: a manager comes to serve. Fairness: tasks are polled
  (`WF`), the lock is obtained in the end, retries come due, certificates are
  loaded (`SF`), deletions of records run (`WF`).

Refuted: `KeepsServing` with several managers (a refresh between the renames),
`ResponsesReverted` with http challenges. `EventuallyServing` leaves out one
case by name, `Stuck`: a certificate that expires before it could be installed
is installed again for ever. It also asks that the registration of the account
does not fail: the directory is cached before the account is registered, so a
failed registration is not tried again. Left out: the nonce cache and the
requests in detail.

### Proofs

`AcmeCertsProofs`, for every set of managers, any bounds on certificates and
orders and any worlds that satisfy `AcmeAssumption`. Theorems
`CertsAlwaysSound` and `AlwaysKeepsServing`. The inductive invariant `AInv`:

- `HoldInv`: the holder of the order lock is the one task that orders, installs
  or waits, or reads the files again under the lock.
- `SessionInv`: a certificate that is not installed yet is with the lock's
  holder only; a token exists from the order to the end of the verification,
  and no record carries it before the response.
- `OnceInv`, where nobody else installs: a certificate that is new and not lost
  is with the holder of the lock, or in both files and no session has one.
  Whoever requests a certificate has found, under the lock, that there is none;
  that is why `IssuedOnce` holds, and why it needs the second read of the files
  after the lock is obtained.
- `AgeInv`: certificates age in the order they were issued in, and what is on
  disk or in a session was issued.
- `AloneInv`, for one manager without failing files and crashes: except between
  its own renames the files hold one pair, never older than what it serves and
  never newer than what it is about to install. With `AgeInv` a refresh
  therefore never replaces a valid pair by nothing (`NewerIsValid`).
- `RecordInv`: the first manager of a process leaves no TXT record without a
  deletion under way or a session.

`NextIsStep` says once what each action changes; the lemmas per conjunct use
only that. TLC checked `AInv` on the worlds of the run and on three larger ones
(4.6 million states) before the proof.

Only model-checked: `EventuallyServing`.

## 12. ProcessChain

`cyfs-process-chain`: libraries of chains of blocks, run by `exec`, `invoke` and
`goto` with local and global targets, with return, raise, exit, break, loops
and branches. `ctl` is the stack of activations, `pointer` the
`ExecPointerStack`, `envs` the chain environments. Which command comes next is
a choice, so every program of a given size runs.

`process_chain` runs five kinds of programs over two libraries (one with a
chain of two blocks and a chain that has a block of the same name): `Calls`,
`Arguments`, `Controls`, `Gotos`, `Bindings`, with two to four commands.

- `RunCoherent`: the pointer names the running code, a control result leaves
  the activation it names, and arguments are the caller's.
- `ScopesKept`: calls do not touch the caller's variables, and what a loop or a
  branch bound is given back in every way it is left.

Refuted: `NoAbort`, `LocalTargets`, `LibReturnExits`, `ChainVarsIsolated`,
`GotoBounded`. Left out: parser and linker, commands on data, map-reduce,
collections, JavaScript, first-ok, short-circuit results, the global
environment, policies.

## 13. NamedInboxCache

`cyfs-gateway-lib/src/server/named_inbox_cache_server.rs`: requests that the
upstream could not take are cached on disk and drained by a worker, with limits
on entries, bytes and entries per principal. One action is one critical section
of the state or one operation on a file or the upstream. Instances are replaced
by a reload, which aborts the old worker at any await while its blocking file
operation goes on.

`named_inbox` runs six worlds: `Plain` (every outcome), `Reloaded`, `Rivals`
(two principals), `Quota`, `Overfull` (recovery over the limit), `Aging`.

- `CacheSound`: what was reported as cached stays until the upstream has it
  (`CachedStays`), a rejection was not processed, the accounts are those of the
  entries, and one instance sends a record at a time.
- `SignatureKept`: the signed form is not overwritten by the unsigned one.
- `Drained`: every entry leaves while an instance serves. Fairness: the worker,
  the cache tasks and the replies go on, a retry comes due, and the upstream
  accepts again and again (`SF`).

Refuted: `CachedStays` in four settings, which its definition and the worlds
exclude: a record that expires while it is refreshed, two arrivals in one
millisecond, a removal that an aborted worker left running after a permanent
rejection, and a recovery over the limit with one entry per principal.
Abstracted: validation before sending, bodies (two sizes), retry delays (an
entry comes due), a clean-up whose removal fails, reloads with other limits.

## 14. UserDns

`cyfs-sn`: `sn_auth.rs`, `sn_resolver.rs`, `sn_server.rs`,
`name_info_cache.rs` and the handlers under `api/`. `db` is one record and each
transaction an operator on it: owners, RRsets, values, the feed of changes with
its retention, bindings of domains. Every replica has its cursor and two
caches; each request is a task that checks, synchronises, reads and inserts in
separate steps.

`user_dns` runs seven worlds: `Gaps` (the feed forgets), `Bypassed`, `Writers`
(failing synchronisations), `Infos`, `Alone` (another service changes the time
to live), `Rows` and `Owners` (users, bindings and deletions).

- `RecordsSound`: RRsets, values and owners agree, deleted users own nothing,
  names belong to who may hold them.
- `CachesCovered`: a cached answer is current or its change is still to be
  read, in both caches, and a writer sees its own write.
- `FeedComplete`: every change of a name is in the feed, without holes.
- `EventuallyFresh`: again and again both caches agree with the database.
  Fairness: tasks go on, synchronisations come due (`WF`), names are asked for
  (`SF`).

Refuted: `CacheCovered` with two tasks on one replica (an insert of what was
read before the change), `NamesAuthorised` with two tasks (a claim checked
before the domain is unbound), `ChildZoneOwned`, `UnboundForgotten`. Left out:
`update_user_domain(None)`, `clear_state_by_active_code` (in `RelayManager`),
suspended users, devices as writers, the generation guard of BNS names, answers
from BNS documents and devices, `resolve_dns_cached` (tests only).

## 15. Not modelled

| Part | Why |
|---|---|
| RTCP handshake: cryptography, nonce cache, rate limits | cryptography is out of TLC's reach; the nonce cache and the limits are worth a module |
| RTCP wire format, encrypted streams | parsing and ciphers of bytes |
| Forward plan, connection manager | small and mostly sequential; planned |
| HTTP, DNS and other inner servers, SOCKS, TUN, lookups | input and output around libraries |
| Stacks other than start and shutdown | sessions of UDP are planned |
| Device manager | certificates and files; its switch is in `GatewayReload` |
| The rest of the SN, replication between SNs | log-in, reports and queries of one row each; replication is planned |
| BNS server, EVM access beyond sending | thin wrappers of the store and of a node |
| API clients, lint, web UIs, demos, scripts | no protocol state |

------------------------------ MODULE BnsIndexer ------------------------------
(***************************************************************************)
(* The event indexer of BNS (bns-indexer/src/sync.rs): a polling loop that *)
(* copies the registry contract's events and state from an EVM node into   *)
(* a SQLite projection (sqlite.rs), remembers how far it got in a cursor   *)
(* with the hash of its block, and starts over when that hash is no longer *)
(* on the chain.                                                           *)
(*                                                                         *)
(* The chain is outside: blocks are mined and branches replaced while a    *)
(* round of the loop is under way.  One action is one request to the node  *)
(* or one store transaction, whichever the code waits for; requests may    *)
(* fail and the process may stop between any two of them.  A block holds   *)
(* at most one registry event, of one name.                                *)
(***************************************************************************)
EXTENDS Naturals, Sequences, FiniteSets

CONSTANTS
    Kinds,          \* kinds of registry event that blocks may hold
    MaxBlocks,      \* bound: blocks mined on all branches together
    MaxFaults,      \* bound: failed requests and restarts
    Worlds,         \* what the chain and the network may do: see World
    StartBlock,     \* BnsBlockSyncSourceConfig.start_block
    Confirmations,  \* BnsIndexerSyncConfig.confirmations
    MaxSpan,        \* BnsIndexerSyncConfig.max_block_span
    None            \* the absent value

Events == {"none", "register", "attribute", "document", "release"}
\* deep:   branches deeper than the confirmations are replaced, also by shorter ones;
\* calm:   branches are replaced between rounds only;
\* faults: requests fail and the process restarts.
World == [deep : BOOLEAN, calm : BOOLEAN, faults : BOOLEAN]

Phases == {"idle", "check", "logs", "snapshot", "apply"}

ASSUME ConstantsAssumption ==
    /\ Kinds \subseteq Events
    /\ MaxBlocks \in Nat
    /\ MaxFaults \in Nat
    /\ Worlds \subseteq World
    /\ StartBlock \in Nat \ {0}
    /\ Confirmations \in Nat
    /\ MaxSpan \in Nat \ {0}
    /\ None \notin Nat

VARIABLES
    world,    \* which of the Worlds this is
    tree,     \* every branch ever mined: tree[id] ends in the block id
    tip,      \* the block at the end of the canonical branch, 0 for genesis
    cursor,   \* row of bns_indexer_cursors, or None
    store,    \* the projection tables
    head,     \* BnsChainClient.latest_block: [number, hash], or None
    phase,    \* where the current round of the loop stands
    refresh,  \* refresh_head of run_polling_loop
    round,    \* the locals of the current round: to_block, records, snapshot
    faults    \* failures so far

vars == <<world, tree, tip, cursor, store, head, phase, refresh, round, faults>>

-----------------------------------------------------------------------------
(* The chain and the contract, outside *)

\* The blocks of the branch that ends in block id; genesis holds nothing.
Branch(id) == IF id = 0 THEN <<>> ELSE tree[id]
Chain == Branch(tip)

MaxOf(S) == CHOOSE x \in S : \A y \in S : y <= x

\* Heights of the blocks of a branch, up to h, that hold an event of ks.
Heights(c, h, ks) == {i \in 1..h : i <= Len(c) /\ c[i].event \in ks}

\* The last block of a branch up to h that holds an event of ks.
LastBlock(c, h, ks) ==
    LET hs == Heights(c, h, ks)
    IN  IF hs = {} THEN None ELSE c[MaxOf(hs)].id

\* Height at which the lineage of the name that is current at h began.
LineageStart(c, h) ==
    LET hs == Heights(c, h, {"register"}) IN IF hs = {} THEN 0 ELSE MaxOf(hs)

\* queryNameState: the state that the name's last event left.
NameAt(c, h) == LastBlock(c, h, {"register", "document", "release"})

\* getAuthoritySet, getAlias: state that belongs to the name's lineage.
AttributeAt(c, h) ==
    LET hs == {i \in Heights(c, h, {"attribute"}) : i > LineageStart(c, h)}
    IN  IF hs = {} THEN None ELSE c[MaxOf(hs)].id

\* getDocumentVersion: versions count through all lineages of a name.
VersionAt(c, i) == Cardinality(Heights(c, i, {"document"}))
DocumentAt(c, h, v) ==
    LET hs == {i \in Heights(c, h, {"document"}) : VersionAt(c, i) = v}
    IN  IF hs = {} THEN None ELSE c[MaxOf(hs)].id

\* _currentDocumentVersions of the lineage: the version resolveDocument serves.
CurrentVersion(c, h) ==
    IF \E i \in Heights(c, h, {"document"}) : i > LineageStart(c, h)
    THEN VersionAt(c, h) ELSE 0

\* ProtocolEvent.seq: the contract numbers its events from 1.
Registry == Events \ {"none"}
SeqAt(c, i) == Cardinality(Heights(c, i, Registry))

\* A branch the contract can have produced: a name is registered when it has
\* no owner, and everything else needs one.
Legal(c) ==
    \A i \in 1..Len(c) :
        LET before == LastBlock(c, i - 1, {"register", "release"})
            owned == \E j \in 1..(i - 1) :
                        c[j].id = before /\ c[j].event = "register"
        IN  c[i].event # "none" => (c[i].event = "register" <=> ~owned)

-----------------------------------------------------------------------------
(* State *)

\* The tables without rows (SqliteBnsRegistryStore::initialize_schema).
EmptyStore ==
    [name |-> None, attribute |-> None, docs |-> <<>>, current |-> 0,
     events |-> <<>>]

IdleRound == [to |-> 0, records |-> <<>>, snapshot |-> <<>>]

Init ==
    /\ world \in Worlds
    /\ tree = <<>>
    /\ tip = 0
    /\ cursor = None
    /\ store = EmptyStore
    /\ head = None
    /\ phase = "idle"
    /\ refresh = TRUE
    /\ round = IdleRound
    /\ faults = 0

\* What the tables hold when everything up to block h of a branch is in.
Replay(c, h) ==
    [name |-> NameAt(c, h),
     attribute |-> AttributeAt(c, h),
     docs |-> [v \in 1..VersionAt(c, h) |-> DocumentAt(c, h, v)],
     current |-> CurrentVersion(c, h),
     events |-> [s \in 1..SeqAt(c, h) |->
                   c[CHOOSE i \in Heights(c, h, Registry) :
                        SeqAt(c, i) = s].id]]

-----------------------------------------------------------------------------
(* The environment *)

NewBlocks(es) ==
    [i \in 1..Len(es) |-> [id |-> Len(tree) + i, event |-> es[i]]]

\* The branch keeps its first k blocks and continues with new ones.
Extend(k, es) ==
    LET c == SubSeq(Chain, 1, k) \o NewBlocks(es)
    IN  /\ Len(tree) + Len(es) <= MaxBlocks
        /\ Legal(c)
        /\ tree' = tree \o [i \in 1..Len(es) |-> SubSeq(c, 1, k + i)]
        /\ tip' = Len(tree) + Len(es)

Mine ==
    /\ \E e \in Kinds : Extend(Len(Chain), <<e>>)
    /\ UNCHANGED <<world, cursor, store, head, phase, refresh, round, faults>>

SwitchBranch ==
    /\ world.calm => phase = "idle"
    /\ \E k \in 0..(Len(Chain) - 1), n \in 1..2 :
         /\ ~world.deep => Len(Chain) - k <= Confirmations /\ k + n >= Len(Chain)
         /\ \E es \in [1..n -> Kinds] : Extend(k, es)
    /\ UNCHANGED <<world, cursor, store, head, phase, refresh, round, faults>>

-----------------------------------------------------------------------------
(* One round: sync_once_with_head_refresh *)

\* Mutant: after a failure the loop goes on with the head it has.
EndRoundMutant ==
    /\ phase' = "idle"
    /\ refresh' = FALSE
    /\ round' = IdleRound

\* Any `?` of the round, and a round with nothing to do: the loop sleeps and
\* reads the head again.
EndRound ==
    /\ phase' = "idle"
    /\ refresh' = TRUE
    /\ round' = IdleRound

\* chain_id() and latest_block(refresh_head): a cached head is reused in a
\* backlog, and only a head that differs from the cached one is checked.
LatestHead == [number |-> Len(Chain), hash |-> tip]

ReadHead ==
    /\ phase = "idle"
    /\ IF ~refresh /\ head # None
       THEN /\ phase' = "logs"
            /\ UNCHANGED head
       ELSE /\ head' = LatestHead
            /\ phase' = IF head = LatestHead THEN "logs" ELSE "check"
    /\ UNCHANGED <<world, tree, tip, cursor, store, refresh, round, faults>>

\* block_hash_string: the head in hand if it is that block, else the node's.
HashKnown(n) == n = head.number \/ n <= Len(Chain)
BlockHash(n) == IF n = head.number THEN head.hash ELSE Chain[n].id

\* reset_projection_if_reorged.
Reorged ==
    /\ cursor # None
    /\ \/ cursor.number > head.number
       \/ cursor.hash # BlockHash(cursor.number)

CursorReadable ==
    \/ cursor = None
    \/ cursor.number > head.number
    \/ HashKnown(cursor.number)

\* Mutant: the cursor goes, the rows stay.
ResetProjectionMutant ==
    /\ cursor' = None
    /\ UNCHANGED store

\* reset_indexer_projection: every table and the cursor, in one transaction.
ResetProjection ==
    /\ store' = EmptyStore
    /\ cursor' = None

CheckReorg ==
    /\ phase = "check"
    /\ IF ~CursorReadable
       THEN EndRound /\ UNCHANGED <<cursor, store>>
       ELSE /\ phase' = "logs"
            /\ IF Reorged THEN ResetProjection ELSE UNCHANGED <<cursor, store>>
            /\ UNCHANGED <<refresh, round>>
    /\ UNCHANGED <<world, tree, tip, head, faults>>

\* Mutant: the head itself is taken for confirmed.
TargetMutant == head.number

\* Saturating subtraction of the confirmations.
Target ==
    IF head.number > Confirmations THEN head.number - Confirmations ELSE 0

\* next_block_to_sync.
NextBlock ==
    IF cursor = None \/ cursor.number < StartBlock
    THEN StartBlock ELSE cursor.number + 1

ToBlock ==
    IF Target <= NextBlock + MaxSpan - 1 THEN Target ELSE NextBlock + MaxSpan - 1

\* get_logs and project_log: the records of the blocks from..to, in order.
Records(c, from, to) ==
    LET hs == {i \in Heights(c, to, Registry) : i >= from}
        nth(k) == CHOOSE i \in hs : Cardinality({j \in hs : j <= i}) = k
    IN  [k \in 1..Cardinality(hs) |->
            [seq |-> SeqAt(c, nth(k)), id |-> c[nth(k)].id,
             event |-> c[nth(k)].event, version |-> VersionAt(c, nth(k))]]

ReadLogs ==
    /\ phase = "logs"
    /\ IF NextBlock > Target
       THEN EndRound
       ELSE /\ phase' = "snapshot"
            /\ round' = [IdleRound EXCEPT
                           !.to = ToBlock,
                           !.records = Records(Chain, NextBlock, ToBlock)]
            /\ UNCHANGED refresh
    /\ UNCHANGED <<world, tree, tip, cursor, store, head, faults>>

\* load_projection_snapshot: the contract's state at to_block, read from
\* whatever branch the node serves by now.  No records, no request.
ReadSnapshot ==
    /\ phase = "snapshot"
    /\ IF round.records # <<>> /\ round.to > Len(Chain)
       THEN EndRound
       ELSE /\ phase' = "apply"
            /\ round' = [round EXCEPT !.snapshot =
                           IF round.records = <<>> THEN <<>>
                           ELSE SubSeq(Chain, 1, round.to)]
            /\ UNCHANGED refresh
    /\ UNCHANGED <<world, tree, tip, cursor, store, head, faults>>

-----------------------------------------------------------------------------
(* projection_for_record and ContractProjectionWrite::apply *)

\* A map of version or sequence number, upserted at k.
Upsert(f, k, x) ==
    [i \in DOMAIN f \cup {k} |-> IF i = k THEN x ELSE f[i]]

\* reset_name_lineage: documents stay, none is current; the rest goes.
ResetLineage(s) == [s EXCEPT !.attribute = None, !.current = 0]

\* push_name, put_name: an Available name leaves the row alone.
PutName(s, snap) ==
    LET n == NameAt(snap, Len(snap))
    IN  IF n = None THEN s ELSE [s EXCEPT !.name = n]

\* push_document, put_document: the highest version ever stored is current.
PutDocument(s, snap, v) ==
    LET d == DocumentAt(snap, Len(snap), v)
    IN  IF d = None THEN s
        ELSE [s EXCEPT
                !.docs = Upsert(@, v, d),
                !.current = IF \A w \in DOMAIN s.docs : w <= v THEN v ELSE @]

PutAttribute(s, snap) ==
    [s EXCEPT !.attribute = AttributeAt(snap, Len(snap))]

ApplyProjection(s, r, snap) ==
    CASE r.event = "register" -> PutName(ResetLineage(s), snap)
      [] r.event = "document" ->
            PutDocument(PutName(s, snap), snap, r.version)
      [] r.event = "release" -> PutName(s, snap)
      [] r.event = "attribute" -> PutAttribute(s, snap)

\* put_event_record: the log of events, keyed by sequence number.
PutEventRecord(s, r) == [s EXCEPT !.events = Upsert(@, r.seq, r.id)]

\* One transaction per record.
ApplyRecord ==
    /\ phase = "apply"
    /\ round.records # <<>>
    /\ LET r == Head(round.records)
       IN  store' = ApplyProjection(PutEventRecord(store, r), r, round.snapshot)
    /\ round' = [round EXCEPT !.records = Tail(@)]
    /\ UNCHANGED <<world, tree, tip, cursor, head, phase, refresh, faults>>

\* Backlog: the next round follows at once and reuses the cached head.
HasBacklog == round.to < Target

\* The cursor, in a transaction of its own, with the hash that block has now.
PutCursor ==
    /\ phase = "apply"
    /\ round.records = <<>>
    /\ IF HashKnown(round.to)
       THEN /\ cursor' = [number |-> round.to, hash |-> BlockHash(round.to)]
            /\ phase' = "idle"
            /\ refresh' = ~HasBacklog
            /\ round' = IdleRound
       ELSE EndRound /\ UNCHANGED cursor
    /\ UNCHANGED <<world, tree, tip, store, head, faults>>

-----------------------------------------------------------------------------
(* Failures *)

\* A request or a store transaction fails: the round ends where it is.
RpcFails ==
    /\ world.faults
    /\ faults < MaxFaults
    /\ faults' = faults + 1
    /\ phase # "idle"
    /\ EndRound
    /\ UNCHANGED <<world, tree, tip, cursor, store, head>>

\* The process stops and starts again: the head is no longer cached.
Restart ==
    /\ world.faults
    /\ faults < MaxFaults
    /\ faults' = faults + 1
    /\ EndRound
    /\ head' = None
    /\ UNCHANGED <<world, tree, tip, cursor, store>>

Round == ReadHead \/ CheckReorg \/ ReadLogs \/ ReadSnapshot \/ ApplyRecord \/ PutCursor

Next == Mine \/ SwitchBranch \/ Round \/ RpcFails \/ Restart

Spec == Init /\ [][Next]_vars

\* The loop never stops; blocks and failures come as they like.
FairSpec == Spec /\ WF_vars(Round)

-----------------------------------------------------------------------------
(* Properties *)

Blocks == [id : 1..MaxBlocks, event : Events]

\* The type of every variable (IndexerCursor, the tables, the locals).
TypeOK ==
    /\ world \in Worlds
    /\ \A i \in DOMAIN tree : tree[i] \in Seq(Blocks)
    /\ tip \in 0..Len(tree)
    /\ cursor = None \/ cursor \in [number : 1..MaxBlocks, hash : 1..MaxBlocks]
    /\ store.name \in 1..MaxBlocks \cup {None}
    /\ store.attribute \in 1..MaxBlocks \cup {None}
    /\ store.current \in {0} \cup DOMAIN store.docs
    /\ head = None \/ head \in [number : 0..MaxBlocks, hash : 0..MaxBlocks]
    /\ phase \in Phases
    /\ phase # "idle" => head # None
    /\ refresh \in BOOLEAN
    /\ round.to \in 0..MaxBlocks
    /\ faults \in 0..MaxFaults

\* When the cursor is moved to a block, the tables are what a replay of that
\* block's own branch from the start gives: no event of the range is missing,
\* no row of an abandoned branch or of an earlier lineage is left, whatever
\* failed or was replayed before.
CursorIsReplay ==
    [][cursor' # cursor /\ cursor' # None =>
          store' = Replay(tree'[cursor'.hash], cursor'.number)]_vars

\* When replaced branches are never deeper than the confirmations, no row ever
\* comes from a block that has left the chain, not even in the middle of a
\* round or after a crash in it.
NoForkState ==
    ~world.deep =>
    LET canonical == {Chain[i].id : i \in 1..Len(Chain)} \cup {None}
    IN  /\ store.name \in canonical
        /\ store.attribute \in canonical
        /\ \A v \in DOMAIN store.docs : store.docs[v] \in canonical
        /\ \A s \in DOMAIN store.events : store.events[s] \in canonical

\* The event log has no holes, although every record is a transaction of its
\* own and a round may stop between any two (list_events pages by sequence).
EventLogUnbroken == DOMAIN store.events = 1..Cardinality(DOMAIN store.events)

\* What the tables are at any moment, also in the middle of a round.
ProjectionSound == TypeOK /\ NoForkState /\ EventLogUnbroken

\* Once the chain rests and nothing fails any more, the tables end up as a
\* replay of the canonical branch up to the last confirmed block at least.
Converges ==
    <>[](phase = "idle" =>
           /\ head = LatestHead
           /\ Target >= StartBlock =>
                /\ cursor # None /\ cursor.number >= Target
                /\ store = Replay(Chain, cursor.number))

=============================================================================

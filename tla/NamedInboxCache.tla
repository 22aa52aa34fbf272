-------------------------- MODULE NamedInboxCache --------------------------
(***************************************************************************)
(* The named inbox cache of named_inbox_cache_server.rs: requests that are *)
(* first sent to the upstream and cached when the transport fails, the     *)
(* records on disk, the index with its accounting, the workers that drain  *)
(* the cache, and reloads that let two instances share one store.          *)
(*                                                                         *)
(* A record is named by the request that wrote its context last (req), the *)
(* request that created it and so fixed its expiry (born) and the form of  *)
(* its body (enc).  Time is the order of events: `now' stamps arrivals,    *)
(* an entry becomes due, and the records of a request expire.              *)
(***************************************************************************)
EXTENDS Naturals, FiniteSets, FiniteSetsExt

CONSTANTS
    Requests, NoRequest, Keys, Principals,
    EncodingOf,   \* the form in which each request carries its object
    MaxEntries, Concurrency,
    MaxInstances, \* instances over all reloads
    Worlds        \* the environments a behaviour may run in

Instances == 1..MaxInstances

\* One environment: the requests that arrive, the key and the principal of each;
\* the configured capacities and whether cache_ttl is configured; how an exchange
\* with the upstream may end; how many instances follow each other, which faults
\* happen and how many; and whether two requests of one object may arrive in the
\* same millisecond.
WorldFields == {"requests", "keyOf", "principalOf", "maxBytes", "principalEntries", "principalBytes",
                "expires", "outcomes", "instances", "faultsAt", "faults", "sameInstant"}

\* What the upstream may answer, or what happens to the exchange.
AllOutcomes == {"accepted", "permanent", "retryable", "cached", "invalid", "connect", "lost"}

ASSUME InboxAssumption ==
    /\ NoRequest \notin Requests
    /\ EncodingOf \in [Requests -> {"json", "jwt"}]
    /\ {MaxEntries, Concurrency, MaxInstances} \subseteq Nat \ {0}
    /\ \A w \in Worlds :
         /\ DOMAIN w = WorldFields
         /\ w.requests \subseteq Requests /\ w.instances \in Instances
         /\ w.keyOf \in [Requests -> Keys] /\ w.principalOf \in [Requests -> Principals]
         /\ {w.maxBytes, w.principalEntries, w.principalBytes} \subseteq Nat \ {0} /\ w.faults \in Nat
         /\ w.outcomes \subseteq AllOutcomes
         /\ w.faultsAt \subseteq {"write", "remove", "damage", "list", "process"}
         /\ {w.expires, w.sameInstant} \subseteq BOOLEAN

VARIABLES
    world,      \* the environment of this behaviour; it never changes
    files,      \* the record of each key on disk
    damaged,    \* keys whose record cannot be read
    index,      \* CacheState::entries
    bytes,      \* CacheState::bytes
    principals, \* CacheState::principals: the entries and the bytes of each
    due,        \* keys whose next_attempt_at has come
    reqs,       \* the requests and the tasks that cache them
    status,     \* of each instance: "new", "live", "retired" (replaced), "gone"
    workers,    \* the drain of each instance
    drain,      \* the instance that holds the drain lock; 0 is none
    late,       \* keys whose file is being removed by a worker that was aborted
    expired,    \* requests whose records have passed their time
    now,        \* the clock that stamps arrivals
    faults,
    processed,  \* history: requests whose own exchange the upstream processed
    settled,    \* history: requests whose context the upstream answered for good
    taken,      \* history: keys that the upstream has accepted
    last        \* history: the record that was cached last under a key

store == <<index, bytes, principals, due>>
history == <<processed, settled, taken, last>>
vars == <<world, files, damaged, store, reqs, status, workers, drain, late, expired, now,
          faults, history>>

NoEntry == [req |-> NoRequest, born |-> NoRequest, enc |-> "json"]
Size(e) == IF e.enc = "jwt" THEN 2 ELSE 1
Stamp(e) == reqs[e.req].stamp
Expired(e) == e.born \in expired

Idle == [todo |-> {}, hand |-> [k \in Keys |-> NoEntry], reply |-> [k \in Keys |-> "none"]]
NewRequest == [pc |-> "new", home |-> 0, stamp |-> 0, sent |-> FALSE, caller |-> TRUE, answer |-> "none"]

Fault(f) == f \in world.faultsAt /\ faults < world.faults /\ faults' = faults + 1
NoFault == UNCHANGED faults

\* A file operation that may fail: f says which, ok what it did.
Try(f, ok) == \/ ok /\ NoFault
              \/ ~ok /\ Fault(f)

-----------------------------------------------------------------------------
(* The state of the store, as a record so that steps can be composed.      *)

Store == [index |-> index, bytes |-> bytes, prin |-> principals, due |-> due]
StoreIs(s) == index' = s.index /\ bytes' = s.bytes /\ principals' = s.prin /\ due' = s.due
NoQuota == [entries |-> 0, bytes |-> 0]
EmptyStore == [index |-> [k \in Keys |-> NoEntry], bytes |-> 0,
               prin |-> [p \in Principals |-> NoQuota], due |-> {}]

Indexed(s) == {k \in Keys : s.index[k] # NoEntry}

\* CacheState::remove
Remove(s, k) ==
    IF s.index[k] = NoEntry THEN s
    ELSE [index |-> [s.index EXCEPT ![k] = NoEntry],
          bytes |-> s.bytes - Size(s.index[k]),
          prin  |-> [s.prin EXCEPT ![world.principalOf[s.index[k].req]] =
                       [entries |-> @.entries - 1, bytes |-> @.bytes - Size(s.index[k])]],
          due   |-> s.due \ {k}]

\* Mutant: the entry that is replaced is not taken off the accounts.
InsertMutant(s, k, e) ==
    LET t == s
    IN  [index |-> [t.index EXCEPT ![k] = e],
         bytes |-> t.bytes + Size(e),
         prin  |-> [t.prin EXCEPT ![world.principalOf[e.req]] =
                      [entries |-> @.entries + 1, bytes |-> @.bytes + Size(e)]],
         due   |-> t.due \cup (s.due \cap {k})]

\* CacheState::insert
Insert(s, k, e) ==
    LET t == Remove(s, k)
    IN  [index |-> [t.index EXCEPT ![k] = e],
         bytes |-> t.bytes + Size(e),
         prin  |-> [t.prin EXCEPT ![world.principalOf[e.req]] =
                      [entries |-> @.entries + 1, bytes |-> @.bytes + Size(e)]],
         due   |-> t.due \cup (s.due \cap {k})]

RemoveAll(s, ks) == FoldSet(LAMBDA k, t : Remove(t, k), s, ks)

\* fits
Fits(s, e) ==
    /\ Cardinality(Indexed(s)) < MaxEntries
    /\ s.bytes + Size(e) <= world.maxBytes
    /\ LET quota == s.prin[world.principalOf[e.req]]
       IN  /\ quota.entries < world.principalEntries
           /\ quota.bytes + Size(e) <= world.principalBytes

\* Every principal keeps to its quota.
WithinQuota(prin) ==
    \A p \in Principals : prin[p].entries <= world.principalEntries /\ prin[p].bytes <= world.principalBytes

\* read_entry
Readable(k) == files[k] # NoEntry /\ k \notin damaged /\ ~Expired(files[k])

\* cleanup, with the lock held: the expired entries of the index.
ToClean == {k \in Keys : index[k] # NoEntry /\ Expired(index[k])}
Cleaned == RemoveAll(Store, ToClean)
FilesWithout(ks) == [k \in Keys |-> IF k \in ks THEN NoEntry ELSE files[k]]

-----------------------------------------------------------------------------
(* A request.                                                              *)

\* The host stamps the request and hands it to the instance that serves.
Receive(r, i) ==
    /\ r \in world.requests /\ reqs[r].pc = "new" /\ status[i] = "live"
    /\ \E t \in (IF world.sameInstant THEN {now} ELSE {}) \cup {now + 1} :
          /\ now' = t
          /\ reqs' = [reqs EXCEPT ![r].pc = "sending", ![r].home = i, ![r].stamp = t]
    /\ UNCHANGED <<world, files, damaged, store, status, workers, drain, late, expired, faults, history>>

\* The result of the synchronous send: an answer of the upstream is passed on,
\* a fault of the transport leads to the cache.  When the exchange is lost, or the
\* answer cannot be used, the upstream may or may not have processed the object.
MayProcess(o) == CASE o = "accepted"              -> {TRUE}
                   [] o \in {"lost", "invalid"}   -> {TRUE, FALSE}
                   [] OTHER                       -> {FALSE}

SyncAnswer(o) == CASE o = "accepted"                     -> "accepted"
                   [] o \in {"permanent", "retryable"}   -> "refused"
                   [] OTHER                              -> "unknown"

Deliver(r, o) ==
    /\ reqs[r].pc = "sending"
    /\ \E did \in MayProcess(o) :
          /\ processed' = IF did THEN processed \cup {r} ELSE processed
          /\ taken' = IF did THEN taken \cup {world.keyOf[r]} ELSE taken
    /\ reqs' = [reqs EXCEPT
          ![r].pc = IF o \in {"connect", "lost"} THEN "caching" ELSE "done",
          ![r].sent = o = "lost",
          ![r].answer = IF o \in {"connect", "lost"} THEN @ ELSE SyncAnswer(o)]
    /\ UNCHANGED <<world, files, damaged, store, status, workers, drain, late, expired, now, faults,
                   settled, last>>

\* The caller goes away: the send is dropped, a task that caches goes on.
Cancel(r) ==
    /\ reqs[r].pc \in {"sending", "caching"} /\ reqs[r].caller
    /\ reqs' = [reqs EXCEPT ![r].caller = FALSE, ![r].pc = IF @ = "sending" THEN "done" ELSE @]
    /\ UNCHANGED <<world, files, damaged, store, status, workers, drain, late, expired, now, faults, history>>

\* Mutant: the form that came last wins.
MergedMutant(s, k, r) ==
    LET old    == files[k]
        signed == [old EXCEPT !.enc = EncodingOf[r]]
    IN  [req |-> r, born |-> old.born,
         enc |-> IF Fits(Remove(s, k), signed) THEN EncodingOf[r] ELSE old.enc]

\* What cache_inner makes of an existing record: a JWT form replaces a JSON form
\* when it fits, and the new context replaces the old one.
Merged(s, k, r) ==
    LET old    == files[k]
        signed == [old EXCEPT !.enc = EncodingOf[r]]
    IN  [req |-> r, born |-> old.born,
         enc |-> IF old.enc = "json" /\ EncodingOf[r] = "jwt" /\ Fits(Remove(s, k), signed)
                 THEN "jwt" ELSE old.enc]

\* The end of handle: an error says "outcome unknown" if the upstream may have
\* processed the object, and "rejected" otherwise.
Answered(r, a) ==
    reqs' = [reqs EXCEPT ![r].pc = "done",
                         ![r].answer = IF ~reqs[r].caller THEN @
                                       ELSE IF a = "failed" /\ reqs[r].sent THEN "unknown"
                                       ELSE IF a = "failed" THEN "rejected" ELSE a]

Written(r, k, s, e, clean, ok) ==
    /\ Try("write", ok)
    /\ IF ok
       THEN /\ files' = [FilesWithout(clean) EXCEPT ![k] = e]
            /\ damaged' = damaged \ {k} /\ StoreIs(Insert(s, k, e))
            /\ last' = [last EXCEPT ![k] = e] /\ Answered(r, "cached")
       ELSE /\ files' = FilesWithout(clean) /\ StoreIs(s) /\ Answered(r, "failed")
            /\ UNCHANGED <<damaged, last>>

\* cache_inner: clean up, then refresh the record of the key or write a new one.
\* It holds the lock of the state all the way.
CacheInner(r, ok) ==
    LET k == world.keyOf[r]
        s == Cleaned
        Known == s.index[k] # NoEntry
        fresh == [req |-> r, born |-> r, enc |-> EncodingOf[r]]
        t == Remove(s, k)
    IN  /\ reqs[r].pc = "caching"
        /\ \/ /\ Known /\ Readable(k) /\ world.principalOf[files[k].req] # world.principalOf[r]
              /\ ok /\ NoFault /\ StoreIs(s) /\ files' = FilesWithout(ToClean)
              /\ Answered(r, "failed") /\ UNCHANGED <<damaged, last>>
           \/ /\ Known /\ Readable(k) /\ world.principalOf[files[k].req] = world.principalOf[r]
              /\ Written(r, k, s, Merged(s, k, r), ToClean, ok)
           \/ /\ ~(Known /\ Readable(k)) /\ ~Fits(t, fresh)
              /\ ok /\ NoFault /\ StoreIs(t) /\ files' = FilesWithout(ToClean)
              /\ Answered(r, "failed") /\ UNCHANGED <<damaged, last>>
           \/ /\ ~(Known /\ Readable(k)) /\ Fits(t, fresh)
              /\ Written(r, k, t, fresh, ToClean, ok)
        /\ UNCHANGED <<world, status, workers, drain, late, expired, now, processed, settled, taken>>

-----------------------------------------------------------------------------
(* The worker of an instance.                                              *)

HasWorker(i) == status[i] \in {"live", "retired"}

\* drain: take the drain lock, clean up, note the entries that are due.
DrainStart(i) ==
    /\ HasWorker(i) /\ drain = 0
    /\ (due \cup ToClean) # {}
    /\ drain' = i
    /\ LET s == Cleaned IN StoreIs(s) /\ workers' = [workers EXCEPT ![i].todo = s.due]
    /\ files' = FilesWithout(ToClean)
    /\ UNCHANGED <<world, damaged, reqs, status, late, expired, now, faults, history>>

Busy(i) == {k \in Keys : workers[i].reply[k] # "none"}

\* Read the record before it is sent, without the lock of the state.
DrainRead(i, k) ==
    /\ drain = i /\ k \in workers[i].todo /\ Cardinality(Busy(i)) < Concurrency
    /\ workers' = [workers EXCEPT
          ![i].todo = @ \ {k},
          ![i].hand[k] = IF Readable(k) THEN files[k] ELSE NoEntry,
          ![i].reply[k] = IF Readable(k) THEN "sending" ELSE "unreadable"]
    /\ UNCHANGED <<world, files, damaged, store, reqs, status, drain, late, expired, now, faults, history>>

Released(i, k) == [workers EXCEPT ![i].hand[k] = NoEntry, ![i].reply[k] = "none"]

\* A record that could not be read leaves the index, under the lock.
DrainDrop(i, k) ==
    /\ workers[i].reply[k] = "unreadable"
    /\ StoreIs(Remove(Store, k))
    /\ workers' = Released(i, k)
    /\ UNCHANGED <<world, files, damaged, reqs, status, drain, late, expired, now, faults, history>>

\* The upstream answers, or the exchange fails.
DrainReply(i, k, o) ==
    /\ workers[i].reply[k] = "sending"
    /\ \E did \in MayProcess(o) : taken' = IF did THEN taken \cup {k} ELSE taken
    /\ settled' = IF o \in {"accepted", "permanent"}
                  THEN settled \cup {workers[i].hand[k].req} ELSE settled
    /\ workers' = [workers EXCEPT ![i].reply[k] = IF o \in {"accepted", "permanent"} THEN "final" ELSE "again"]
    /\ UNCHANGED <<world, files, damaged, store, reqs, status, drain, late, expired, now, faults,
                   processed, last>>

\* Whether the entry is still the one that was sent.
Same(i, k) == index[k] # NoEntry /\ Stamp(index[k]) = Stamp(workers[i].hand[k])

\* Under the lock of the state: a final answer removes the record and the entry,
\* any other one postpones the entry.
DrainApply(i, k, ok) ==
    /\ workers[i].reply[k] \in {"final", "again"}
    /\ \/ /\ ~Same(i, k) /\ ok /\ NoFault /\ UNCHANGED <<files, damaged, store>>
       \/ /\ Same(i, k) /\ workers[i].reply[k] = "final"
          /\ Try("remove", ok)
          /\ files' = IF ok THEN FilesWithout({k}) ELSE files
          /\ StoreIs(Remove(Store, k)) /\ UNCHANGED damaged
       \/ /\ Same(i, k) /\ workers[i].reply[k] = "again"
          /\ Try("write", ok)
          /\ files' = IF ok THEN [files EXCEPT ![k] = index[k]] ELSE files
          /\ damaged' = IF ok THEN damaged \ {k} ELSE damaged
          /\ due' = due \ {k} /\ UNCHANGED <<index, bytes, principals>>
    /\ workers' = Released(i, k)
    /\ UNCHANGED <<world, reqs, status, drain, late, expired, now, history>>

DrainEnd(i) ==
    /\ HasWorker(i) /\ drain = i /\ workers[i].todo = {} /\ Busy(i) = {}
    /\ drain' = 0
    /\ UNCHANGED <<world, files, damaged, store, reqs, status, workers, late, expired, now, faults, history>>

-----------------------------------------------------------------------------
(* Instances.                                                              *)

\* A request that is served keeps its instance; a task that caches keeps the store.
Serves(i) == \E r \in Requests : reqs[r].home = i /\ reqs[r].caller /\ reqs[r].pc \in {"sending", "caching"}
Caching == \E r \in Requests : reqs[r].pc = "caching"
\* Whether the store is held, so that STORES finds it.
Held == Caching \/ \E i \in Instances : HasWorker(i)

\* recover: records that cannot be read, and those beyond the capacity in the order
\* of the directory, are deleted.  kept is the set that was loaded.
Recovered(kept) == FoldSet(LAMBDA k, s : Insert(s, k, files[k]), EmptyStore, kept)

\* Some order of the directory loads exactly these records.
Loads(kept) ==
    LET found == {k \in Keys : Readable(k)}
        s     == Recovered(kept)
    IN  /\ kept \subseteq found
        /\ Cardinality(kept) <= MaxEntries
        /\ s.bytes <= world.maxBytes /\ WithinQuota(s.prin)
        /\ \A k \in found \ kept : ~Fits(s, files[k])

\* new: an instance takes over.  It shares the store of the directory as long as an
\* instance or a task holds it, and otherwise recovers a store of its own.
Start(i) ==
    /\ i <= world.instances /\ status[i] = "new" /\ \A j \in Instances : j < i => status[j] # "new"
    /\ status' = [j \in Instances |-> IF j = i THEN "live" ELSE IF status[j] = "live" THEN "retired" ELSE status[j]]
    /\ \/ /\ Held /\ UNCHANGED <<files, damaged, store, faults>>
       \/ /\ ~Held /\ NoFault
          /\ \E kept \in SUBSET Keys :
                /\ Loads(kept) /\ StoreIs(Recovered(kept))
                /\ files' = FilesWithout(Keys \ kept) /\ damaged' = {}
       \/ /\ ~Held /\ Fault("list") /\ StoreIs(EmptyStore) /\ UNCHANGED <<files, damaged>>
    /\ UNCHANGED <<world, reqs, workers, drain, late, expired, now, history>>

\* The server is removed from the configuration; the last instance stays.
Retire(i) ==
    /\ i < world.instances /\ status[i] = "live"
    /\ status' = [status EXCEPT ![i] = "retired"]
    /\ UNCHANGED <<world, files, damaged, store, reqs, workers, drain, late, expired, now, faults, history>>

\* Files that the worker was removing when it was aborted: the blocking call goes on.
Removing(i) ==
    {k \in Keys : workers[i].reply[k] = "final" /\ Same(i, k)}

\* Mutant: the worker that is aborted leaves the drain lock.
DropInstanceMutant(i) ==
    /\ status[i] = "retired" /\ ~Serves(i)
    /\ status' = [status EXCEPT ![i] = "gone"]
    /\ workers' = [workers EXCEPT ![i] = Idle]
    /\ drain' = drain
    /\ \/ late' = late
       \/ \E k \in Removing(i) : late' = late \cup {k}
       \/ drain = 0 /\ \E k \in ToClean : late' = late \cup {k}
    /\ UNCHANGED <<world, files, damaged, store, reqs, expired, now, faults, history>>

\* The last user of a retired instance lets go of it: its worker is aborted, wherever
\* it is.  The lock of the state protects one removal at a time.
DropInstance(i) ==
    /\ status[i] = "retired" /\ ~Serves(i)
    /\ status' = [status EXCEPT ![i] = "gone"]
    /\ workers' = [workers EXCEPT ![i] = Idle]
    /\ drain' = IF drain = i THEN 0 ELSE drain
    /\ \/ late' = late
       \/ \E k \in Removing(i) : late' = late \cup {k}
       \/ drain = 0 /\ \E k \in ToClean : late' = late \cup {k}
    /\ UNCHANGED <<world, files, damaged, store, reqs, expired, now, faults, history>>

LateRemove(k) ==
    /\ k \in late /\ late' = late \ {k}
    /\ files' = FilesWithout({k})
    /\ UNCHANGED <<world, damaged, store, reqs, status, workers, drain, expired, now, faults, history>>

\* The process ends.
Crash ==
    /\ Fault("process")
    /\ StoreIs(EmptyStore)
    /\ reqs' = [r \in Requests |-> IF reqs[r].pc \in {"sending", "caching"}
                                   THEN [reqs[r] EXCEPT !.pc = "done"] ELSE reqs[r]]
    /\ status' = [i \in Instances |-> IF status[i] = "new" THEN "new" ELSE "gone"]
    /\ workers' = [i \in Instances |-> Idle] /\ drain' = 0 /\ late' = {}
    /\ UNCHANGED <<world, files, damaged, expired, now, history>>

-----------------------------------------------------------------------------
(* Time and the disk.                                                      *)

ReachDue(k) ==
    /\ Held /\ index[k] # NoEntry /\ k \notin due /\ due' = due \cup {k}
    /\ UNCHANGED <<world, files, damaged, index, bytes, principals, reqs, status, workers, drain, late,
                   expired, now, faults, history>>

Expire(r) ==
    /\ world.expires /\ reqs[r].pc # "new" /\ r \notin expired /\ expired' = expired \cup {r}
    /\ UNCHANGED <<world, files, damaged, store, reqs, status, workers, drain, late, now, faults, history>>

Damage(k) ==
    /\ files[k] # NoEntry /\ k \notin damaged /\ Fault("damage")
    /\ damaged' = damaged \cup {k}
    /\ UNCHANGED <<world, files, store, reqs, status, workers, drain, late, expired, now, history>>

-----------------------------------------------------------------------------
Init ==
    /\ world \in Worlds
    /\ files = [k \in Keys |-> NoEntry] /\ damaged = {}
    /\ index = EmptyStore.index /\ bytes = 0 /\ principals = EmptyStore.prin /\ due = {}
    /\ reqs = [r \in Requests |-> NewRequest]
    /\ status = [i \in Instances |-> "new"]
    /\ workers = [i \in Instances |-> Idle] /\ drain = 0 /\ late = {}
    /\ expired = {} /\ now = 0 /\ faults = 0
    /\ processed = {} /\ settled = {} /\ taken = {} /\ last = [k \in Keys |-> NoEntry]

DrainStep(i) ==
    \/ DrainStart(i) \/ DrainEnd(i)
    \/ \E k \in Keys : DrainRead(i, k) \/ DrainDrop(i, k)
    \/ \E k \in Keys, ok \in BOOLEAN : DrainApply(i, k, ok)

Next ==
    \/ \E r \in Requests, i \in Instances : Receive(r, i)
    \/ \E r \in Requests, o \in world.outcomes : Deliver(r, o)
    \/ \E r \in Requests : Cancel(r) \/ Expire(r)
    \/ \E r \in Requests, ok \in BOOLEAN : CacheInner(r, ok)
    \/ \E i \in Instances : DrainStep(i) \/ Start(i) \/ Retire(i) \/ DropInstance(i)
    \/ \E i \in Instances, k \in Keys, o \in world.outcomes : DrainReply(i, k, o)
    \/ \E k \in Keys : LateRemove(k) \/ ReachDue(k) \/ Damage(k)
    \/ Crash

Spec == Init /\ [][Next]_vars

(***************************************************************************)
(* Fairness: the worker polls and goes on, time passes, and an upstream    *)
(* that is asked again and again accepts.                                  *)
(***************************************************************************)
FairSpec ==
    /\ Spec
    /\ WF_vars(\E i \in Instances : DrainStep(i))
    /\ \A k \in Keys :
          /\ WF_vars(ReachDue(k))
          /\ SF_vars(\E i \in Instances : DrainReply(i, k, "accepted"))

-----------------------------------------------------------------------------
(* Properties.                                                             *)

EntryOK(e) == e = NoEntry \/ ({e.req, e.born} \subseteq Requests /\ e.enc \in {"json", "jwt"})

\* Every variable has its type, and only the holder of the drain lock is draining.
TypeOK ==
    /\ world \in Worlds
    /\ \A k \in Keys : EntryOK(files[k]) /\ EntryOK(index[k]) /\ EntryOK(last[k])
    /\ damaged \subseteq Keys /\ due \subseteq Keys /\ late \subseteq Keys /\ taken \subseteq Keys
    /\ expired \subseteq Requests /\ processed \subseteq Requests /\ settled \subseteq Requests
    /\ bytes \in Nat /\ principals \in [Principals -> [entries : Nat, bytes : Nat]]
    /\ \A r \in Requests : reqs[r].pc \in {"new", "sending", "caching", "done"}
    /\ \A i \in Instances :
          /\ status[i] \in {"new", "live", "retired", "gone"}
          /\ \A k \in Keys : EntryOK(workers[i].hand[k])
          /\ workers[i] # Idle => drain = i
    /\ drain \in 0..MaxInstances /\ now \in 0..Cardinality(Requests) /\ faults \in 0..world.faults

\* The accounting of the store is that of its entries, whoever wrote, refreshed or
\* dropped them, and the entries never exceed the configured capacity, over reloads,
\* crashes and refreshes that make a body larger.
Accounted ==
    LET Here == Indexed(Store)
        Bytes(ks) == MapThenSumSet(LAMBDA k : Size(index[k]), ks)
        Of(p) == {k \in Here : world.principalOf[index[k].req] = p}
    IN  /\ bytes = Bytes(Here)
        /\ \A p \in Principals : principals[p] = [entries |-> Cardinality(Of(p)), bytes |-> Bytes(Of(p))]
        /\ Cardinality(Here) <= MaxEntries /\ bytes <= world.maxBytes
        /\ WithinQuota(principals)

\* Every limit leaves room for the signed form of every object of the world.
Roomy ==
    LET objects == Cardinality({world.keyOf[r] : r \in world.requests})
    IN  /\ objects <= MaxEntries /\ objects <= world.principalEntries
        /\ 2 * objects <= world.maxBytes /\ 2 * objects <= world.principalBytes

\* Where the cache keeps what it reported.  Under an expiry time a drain that met
\* the expired record drops the entry of the record written since; two contexts of
\* one millisecond are taken for each other; the removal that a worker began before
\* its instance was dropped deletes what was written since; a recovery that cannot
\* list the directory begins with an empty index; and a delivered record whose
\* removal failed takes the room of a later one, under whichever limit is reached,
\* when the next process recovers.
Keeping == ~world.expires /\ ~world.sameInstant
           /\ (world.instances = 1 \/ "permanent" \notin world.outcomes)
           /\ (world.instances = 1 \/ "list" \notin world.faultsAt)
           /\ ("remove" \notin world.faultsAt \/ Roomy)

\* A record that was reported as cached stays: it can be read and is in the index of
\* the store, until the upstream has it, has answered its context for good, or it
\* expires.
Stays(k) == Readable(k) /\ (Held => index[k] # NoEntry)
CachedStays ==
    Keeping => \A r \in Requests :
        LET k == world.keyOf[r]
        IN  reqs[r].answer = "cached" =>
                Stays(k) \/ k \in taken \/ last[k].req \in settled \/ Expired(last[k])

\* A caller is told "rejected" only if the upstream has not processed its request.
RejectionIsTrue ==
    \A r \in Requests : reqs[r].answer \in {"rejected", "refused"} => r \notin processed

\* No record is sent by two workers at a time, although the worker of an instance
\* that was replaced goes on until its last request ends.
SentOnce ==
    \A i, j \in Instances, k \in Keys :
        workers[i].reply[k] = "sending" /\ workers[j].reply[k] = "sending" => i = j

\* The state of every run: what was cached stays, what was refused was not
\* processed, the accounts are those of the entries, and a record is sent once.
CacheSound == TypeOK /\ CachedStays /\ RejectionIsTrue /\ Accounted /\ SentOnce

\* The signed form of an object, while its record can be read and is in the index
\* of the store that is held, is not overwritten by the unsigned form: neither by a
\* refresh of the context nor by the rewrite of a drain.
SignatureKept ==
    [][\A k \in Keys : Stays(k) /\ files[k].enc = "jwt" /\ files'[k] # NoEntry => files'[k].enc = "jwt"]_vars

\* While an instance serves, every cached object leaves the cache.
Drained ==
    \A k \in Keys : index[k] # NoEntry ~> index[k] = NoEntry \/ \A i \in Instances : status[i] # "live"
=============================================================================

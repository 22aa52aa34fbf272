-------------------------- MODULE TunnelUrlHistory --------------------------
(***************************************************************************)
(* The URL status history of the tunnel manager (tunnel_mgr.rs,            *)
(* tunnel_url_status.rs): what is known of every tunnel URL, who has it    *)
(* pinned, the probes in flight, the queries that wait for them, the       *)
(* observations on their way into the history, the keep-tunnel tasks of    *)
(* the RTCP stacks (stack/rtcp_stack.rs) and the snapshot on disk.         *)
(*                                                                         *)
(* Every change of the history happens under its write lock, and every     *)
(* change of a pin under the pin lock as well, so each is one step.  What  *)
(* is not one step is everything around it: a query looks at the history,  *)
(* at the probes in flight and at the map again under three different      *)
(* locks; an observation is stamped when it is made and merged when its    *)
(* lock is free; a keep-tunnel list is applied one URL at a time; a        *)
(* snapshot is written to a temporary file and renamed.                    *)
(*                                                                         *)
(* now_ms() has a resolution of one second; now counts those seconds.      *)
(***************************************************************************)
EXTENDS Integers, FiniteSets

CONSTANTS
    Urls,       \* normalized URLs
    Redacted,   \* redact_url_for_persist: the key a URL has on disk
    KeyOf,      \* the runtime tunnel key RTCP computes for a URL; none for others
    Outcomes,   \* what probes and connects find: Reachable, Unreachable
    NoProber,   \* URLs whose scheme has no prober (udp)
    Queries,    \* callers of query_tunnel_url_status
    Probes,     \* slots for the shared probe futures
    Stacks,     \* RTCP stacks with a keep_tunnel list
    Ttl,        \* TunnelStatusStoreConfig::ttl_for, in seconds
    MaxAges,    \* the max_age_ms a query may ask for, in seconds
    Limit,      \* max_memory_history_entries (0: none)
    Permits,    \* probe_concurrency
    MaxMissed,  \* max_missed_pongs
    Worlds      \* the environments a behaviour may run in, see below

\* One environment: the URLs in use, what happens to them, the callers and the stacks, whether
\* enable_persist has a path, and the bounds on time, on observations that
\* wait, on crashes and on the pins that calls cut off may leak.
WorldFields ==
    {"urls", "outcomes", "queries", "stacks", "persist", "time", "obs", "crashes", "cancels"}

None == "none"

States == {"Reachable", "Unreachable", "Unknown", "Probing", "Unsupported"}

ASSUME UrlAssumption ==
    /\ Urls # {} /\ IsFiniteSet(Urls) /\ IsFiniteSet(Stacks)
    /\ Redacted \in [Urls -> Urls] /\ NoProber \subseteq Urls
    /\ \A u \in Urls : Redacted[Redacted[u]] = Redacted[u]
    /\ None \notin Urls /\ DOMAIN KeyOf = Urls
    /\ Outcomes \subseteq {"Reachable", "Unreachable"}

ASSUME LimitAssumption ==
    /\ Limit \in Nat /\ Permits \in Nat \ {0} /\ MaxMissed \in Nat \ {0}
    /\ Ttl \in [States -> Nat] /\ MaxAges \subseteq Nat

ASSUME WorldAssumption ==
    \A w \in Worlds :
      /\ DOMAIN w = WorldFields
      /\ w.urls \subseteq Urls /\ w.outcomes \subseteq Outcomes /\ w.queries \subseteq Queries /\ w.stacks \subseteq Stacks
      /\ w.persist \in BOOLEAN
      /\ {w.time, w.obs, w.crashes, w.cancels} \subseteq Nat

VARIABLES
    world,     \* the environment of this behaviour; it never changes
    now,
    hist,      \* tunnel_history: URL -> [state, at, key, pinned], a partial function
    pins,      \* tunnel_url_pins
    inflight,  \* in_flight_probes: URL -> probe, a partial function
    probe,     \* the shared futures
    query,     \* one record per caller
    obs,       \* observations stamped and not yet merged
    stack,     \* per RTCP stack: running, keep list, tasks, the update under way
    flush,     \* the flush loop: its position and the entries it holds
    disk,      \* the snapshot file and its .tmp
    crashes

vars == <<world, now, hist, pins, inflight, probe, query, obs, stack, flush, disk, crashes>>

\* The map f with k -> v.
With(f, k, v) == [j \in DOMAIN f \cup {k} |-> IF j = k THEN v ELSE f[j]]

-----------------------------------------------------------------------------
(* Observations and the history *)

\* One TunnelUrlStatus, as far as the history tells statuses apart.
Status(s, at, k) == [state |-> s, at |-> at, key |-> k]

\* TunnelUrlHistory::merge: the last status wins, an absent tunnel key keeps
\* the one known before.  The counters, the RTT window and the last reachable
\* and unreachable statuses follow from the same call and decide nothing.
Merge(h, s) ==
    [h EXCEPT !.state = s.state, !.at = s.at,
              !.key = IF s.key = None THEN @ ELSE s.key]

\* TunnelManager::merge_into_history
MergeIntoHistory(hs, u, s, pinned) ==
    IF u \in DOMAIN hs
    THEN [hs EXCEPT ![u] = [Merge(hs[u], s) EXCEPT !.pinned = @ \/ pinned]]
    ELSE With(hs, u, [state |-> s.state, at |-> s.at, key |-> s.key, pinned |-> pinned])

\* Mutant: pinned entries are candidates too.
EvictIfNeededMutant(hs) ==
    LET over == Cardinality(DOMAIN hs) - Limit
        n == IF over < 0 THEN 0 ELSE over
    IN IF Limit = 0 THEN {hs}
       ELSE {[u \in DOMAIN hs \ d |-> hs[u]] : d \in {d \in SUBSET DOMAIN hs : Cardinality(d) = n}}

\* TunnelManager::evict_if_needed: the histories that may remain.  The
\* candidates are sorted by age alone, so which of several of one age goes is
\* the hash map's choice.
EvictIfNeeded(hs) ==
    LET over == Cardinality(DOMAIN hs) - Limit
        free == {u \in DOMAIN hs : ~hs[u].pinned}
        n    == IF over < Cardinality(free) THEN over ELSE Cardinality(free)
        Oldest(d) == /\ Cardinality(d) = n
                     /\ \A u \in d, w \in free \ d : hs[u].at <= hs[w].at
    IN IF Limit = 0 \/ over <= 0
       THEN {hs}
       ELSE {[u \in DOMAIN hs \ d |-> hs[u]] : d \in {d \in SUBSET free : Oldest(d)}}

\* TunnelManager::record_status_observation, under both locks.
Record(u, s) ==
    hist' \in EvictIfNeeded(MergeIntoHistory(hist, u, s, pins[u] > 0))

\* A business connect ends (open_stream_by_url_with_timeout,
\* create_datagram_client_by_url_with_timeout): the status carries the time
\* of the outcome and then waits for the locks.
Observe(u, s) ==
    /\ Cardinality(obs) < world.obs
    /\ obs' = obs \cup {[url |-> u, status |-> Status(s, now, None)]}
    /\ UNCHANGED <<world, now, hist, pins, inflight, probe, query, stack, flush, disk, crashes>>

RecordObservation(o) ==
    /\ o \in obs
    /\ obs' = obs \ {o}
    /\ Record(o.url, o.status)
    /\ UNCHANGED <<world, now, pins, inflight, probe, query, stack, flush, disk, crashes>>

\* TunnelManager::record_tunnel_level_event: every URL of one tunnel key.
RecordTunnelLevelEvent(k, s) ==
    /\ k # None
    /\ hist' = [u \in DOMAIN hist |->
                  IF hist[u].key = k THEN Merge(hist[u], Status(s, now, k)) ELSE hist[u]]
    /\ UNCHANGED <<world, now, pins, inflight, probe, query, obs, stack, flush, disk, crashes>>

\* invalidate_tunnel_url_status and clear_tunnel_url_status_cache.  Neither
\* touches the pins or the probes in flight.
Forget(us) ==
    /\ us \cap DOMAIN hist # {}
    /\ hist' = [u \in DOMAIN hist \ us |-> hist[u]]
    /\ UNCHANGED <<world, now, pins, inflight, probe, query, obs, stack, flush, disk, crashes>>

Tick ==
    /\ now < world.time
    /\ now' = now + 1
    /\ UNCHANGED <<world, hist, pins, inflight, probe, query, obs, stack, flush, disk, crashes>>

-----------------------------------------------------------------------------
(* Queries and probes *)

Answer(s, cached) == [state |-> s.state, cached |-> cached]

NoStatus == Status("Unknown", 0, None)

IdleQuery == [pc |-> "idle", url |-> None, probe |-> None, answer |-> Answer(NoStatus, FALSE)]

IdleProbe == [pc |-> "idle", url |-> None, since |-> 0, status |-> NoStatus]

\* TunnelManager::history_status_if_fresh
Fresh(u, age) ==
    /\ u \in DOMAIN hist
    /\ now - hist[u].at <= age
    /\ now - hist[u].at <= Ttl[hist[u].state]

\* query_tunnel_url_status, step 1: a fresh history answers unless the caller
\* forces a probe.  A query without max_age_ms takes the TTL as its age.
QueryBegin(q, u, force, age) ==
    /\ query[q].pc = "idle" /\ q \in world.queries
    /\ query' = [query EXCEPT ![q] =
                  IF ~force /\ Fresh(u, age)
                  THEN [@ EXCEPT !.pc = "done", !.url = u, !.answer = Answer(hist[u], TRUE)]
                  ELSE [@ EXCEPT !.pc = "look", !.url = u]]
    /\ UNCHANGED <<world, now, hist, pins, inflight, probe, obs, stack, flush, disk, crashes>>

\* Step 2: join the probe of the URL when one is in flight
\* (maybe_get_in_flight); otherwise go on to start one.
QueryLook(q) ==
    LET u == query[q].url IN
    /\ query[q].pc = "look"
    /\ query' = [query EXCEPT ![q] =
                  IF u \in DOMAIN inflight
                  THEN [@ EXCEPT !.pc = "wait", !.probe = inflight[u]]
                  ELSE [@ EXCEPT !.pc = "start"]]
    /\ UNCHANGED <<world, now, hist, pins, inflight, probe, obs, stack, flush, disk, crashes>>

\* start_and_await_probe without a prober: Unsupported is recorded and returned.
QueryUnsupported(q) ==
    LET s == Status("Unsupported", now, None) IN
    /\ query[q].pc = "start" /\ query[q].url \in NoProber
    /\ Record(query[q].url, s)
    /\ query' = [query EXCEPT ![q] = [@ EXCEPT !.pc = "done", !.answer = Answer(s, FALSE)]]
    /\ UNCHANGED <<world, now, pins, inflight, probe, obs, stack, flush, disk, crashes>>

FreeProbe(p) ==
    /\ probe[p].pc \in {"idle", "done"}
    /\ \A q \in Queries : query[q].probe # p

\* Mutant: the future is inserted without a second look at the map.
QueryStartMutant(q) ==
    LET u == query[q].url IN
    /\ query[q].pc = "start" /\ u \notin NoProber
    /\ \E p \in Probes :
         /\ FreeProbe(p)
         /\ inflight' = With(inflight, u, p)
         /\ probe' = [probe EXCEPT ![p] = [IdleProbe EXCEPT !.pc = "queued", !.url = u]]
         /\ query' = [query EXCEPT ![q] = [@ EXCEPT !.pc = "wait", !.probe = p]]
    /\ UNCHANGED <<world, now, hist, pins, obs, stack, flush, disk, crashes>>

\* start_and_await_probe: the future enters the map unless another caller was
\* first, and a task of its own drives it from then on.
QueryStart(q) ==
    LET u == query[q].url IN
    /\ query[q].pc = "start" /\ u \notin NoProber
    /\ IF u \in DOMAIN inflight
       THEN /\ query' = [query EXCEPT ![q] = [@ EXCEPT !.pc = "wait", !.probe = inflight[u]]]
            /\ UNCHANGED <<inflight, probe>>
       ELSE \E p \in Probes :
              /\ FreeProbe(p)
              /\ inflight' = With(inflight, u, p)
              /\ probe' = [probe EXCEPT ![p] = [IdleProbe EXCEPT !.pc = "queued", !.url = u]]
              /\ query' = [query EXCEPT ![q] = [@ EXCEPT !.pc = "wait", !.probe = p]]
    /\ UNCHANGED <<world, now, hist, pins, obs, stack, flush, disk, crashes>>

\* await_in_flight: the probe's own status, whoever started it.
QueryAnswered(q) ==
    LET p == query[q].probe IN
    /\ query[q].pc = "wait" /\ probe[p].pc = "done"
    /\ query' = [query EXCEPT ![q] =
                  [@ EXCEPT !.pc = "done", !.probe = None,
                            !.answer = Answer(probe[p].status, FALSE)]]
    /\ UNCHANGED <<world, now, hist, pins, inflight, probe, obs, stack, flush, disk, crashes>>

\* await_in_flight, the caller's timeout: the last known status marked cached,
\* or Probing when the URL has no history.
QueryTimeout(q) ==
    LET u == query[q].url IN
    /\ query[q].pc = "wait" /\ probe[query[q].probe].pc # "done"
    /\ query' = [query EXCEPT ![q] =
                  [@ EXCEPT !.pc = "done", !.probe = None,
                            !.answer = IF u \in DOMAIN hist
                                       THEN Answer(hist[u], TRUE)
                                       ELSE Answer(Status("Probing", now, None), FALSE)]]
    /\ UNCHANGED <<world, now, hist, pins, inflight, probe, obs, stack, flush, disk, crashes>>

\* The caller takes its answer, or drops the call at any await.
QueryEnd(q) ==
    /\ query[q].pc # "idle"
    /\ query' = [query EXCEPT ![q] = IdleQuery]
    /\ UNCHANGED <<world, now, hist, pins, inflight, probe, obs, stack, flush, disk, crashes>>

HoldsPermit(p) == probe[p].pc \in {"running", "record", "remove"}

\* Mutant: no driver, the future runs only while a caller polls it.
ProbeAcquireMutant(p) ==
    /\ probe[p].pc = "queued"
    /\ \E q \in Queries : query[q].probe = p
    /\ Cardinality({r \in Probes : HoldsPermit(r)}) < Permits
    /\ probe' = [probe EXCEPT ![p] = [@ EXCEPT !.pc = "running", !.since = now]]
    /\ UNCHANGED <<world, now, hist, pins, inflight, query, obs, stack, flush, disk, crashes>>

\* The future is polled by the spawned driver, not by the callers, so no
\* caller has to stay.  limiter.acquire() is outside the probe's timeout.
ProbeAcquire(p) ==
    /\ probe[p].pc = "queued"
    /\ Cardinality({r \in Probes : HoldsPermit(r)}) < Permits
    /\ probe' = [probe EXCEPT ![p] = [@ EXCEPT !.pc = "running", !.since = now]]
    /\ UNCHANGED <<world, now, hist, pins, inflight, query, obs, stack, flush, disk, crashes>>

\* The prober answers, fails or times out.  RTCP stamps its status when the
\* probe began, the other probers and the error paths when it ended.
ProbeResult(p, s, at, k) ==
    /\ probe[p].pc = "running"
    /\ at \in {probe[p].since, now}
    /\ k \in {None, KeyOf[probe[p].url]}
    /\ probe' = [probe EXCEPT ![p] = [@ EXCEPT !.pc = "record", !.status = Status(s, at, k)]]
    /\ UNCHANGED <<world, now, hist, pins, inflight, query, obs, stack, flush, disk, crashes>>

ProbeRecord(p) ==
    /\ probe[p].pc = "record"
    /\ Record(probe[p].url, probe[p].status)
    /\ probe' = [probe EXCEPT ![p].pc = "remove"]
    /\ UNCHANGED <<world, now, pins, inflight, query, obs, stack, flush, disk, crashes>>

\* remove_in_flight: by URL, whichever probe the map holds for it.
ProbeRemove(p) ==
    /\ probe[p].pc = "remove"
    /\ inflight' = [u \in DOMAIN inflight \ {probe[p].url} |-> inflight[u]]
    /\ probe' = [probe EXCEPT ![p].pc = "done"]
    /\ UNCHANGED <<world, now, hist, pins, query, obs, stack, flush, disk, crashes>>

-----------------------------------------------------------------------------
(* Pins and keep-tunnel tasks *)

\* pin_tunnel_url: one more owner; a URL without history gets one.
PinnedHist(u) ==
    IF u \in DOMAIN hist
    THEN [hist EXCEPT ![u].pinned = TRUE]
    ELSE With(hist, u, [state |-> "Unknown", at |-> now, key |-> None, pinned |-> TRUE])

Pin(u) ==
    /\ pins' = [pins EXCEPT ![u] = @ + 1]
    /\ hist' = PinnedHist(u)

\* Mutant: the first owner to leave takes every pin with it.
UnpinMutant(u) ==
    /\ pins' = [pins EXCEPT ![u] = 0]
    /\ hist' = IF u \in DOMAIN hist THEN [hist EXCEPT ![u].pinned = FALSE] ELSE hist

\* unpin_tunnel_url: the last owner clears the flag.
Unpin(u) ==
    IF pins[u] = 0
    THEN UNCHANGED <<pins, hist>>
    ELSE /\ pins' = [pins EXCEPT ![u] = @ - 1]
         /\ hist' = IF u \in DOMAIN hist
                    THEN [hist EXCEPT ![u].pinned = pins[u] > 1]
                    ELSE hist

NoTasks == [u \in {} |-> 0]

Asleep == -1    \* a task between two rounds of its loop

\* One RtcpStack.  tasks: the running keep-tunnel tasks, each with its
\* missed_pongs and the time its probe began; stops and starts: the URLs the
\* walk under way has still to stop and to start; unpin: the one it has
\* aborted and not yet unpinned; next: the list an update will install.
DownStack(keep) ==
    [up |-> FALSE, keep |-> keep, tasks |-> NoTasks, pc |-> "idle",
     stops |-> {}, unpin |-> None, starts |-> {}, next |-> {}]

\* A walk with nothing left to stop installs the list and goes on to the
\* starts (apply_keep_tunnels) or ends (shutdown_runtime); one with nothing
\* left to start ends.
Advance(st) ==
    CASE st.pc = "stop" /\ st.stops = {} /\ st.unpin = None ->
           [st EXCEPT !.keep = st.next,
                      !.pc = IF st.starts = {} THEN "idle" ELSE "start"]
      [] st.pc = "down" /\ st.stops = {} /\ st.unpin = None -> DownStack(st.keep)
      [] st.pc = "start" /\ st.starts = {} -> [st EXCEPT !.pc = "idle"]
      [] OTHER -> st

SetStack(s, st) == stack' = [stack EXCEPT ![s] = Advance(st)]

\* RtcpStack::start: the runtime is up and start_keep_tunnels walks the list.
StackStart(s) ==
    /\ ~stack[s].up /\ s \in world.stacks
    /\ SetStack(s, [stack[s] EXCEPT !.up = TRUE, !.pc = "start", !.starts = stack[s].keep])
    /\ UNCHANGED <<world, now, hist, pins, inflight, probe, query, obs, flush, disk, crashes>>

\* commit_update and apply_keep_tunnels: what the new list drops is stopped,
\* the list is installed, what it adds is started.
StackUpdate(s, keep) ==
    /\ stack[s].up /\ stack[s].pc = "idle" /\ keep # stack[s].keep
    /\ SetStack(s, [stack[s] EXCEPT !.pc = "stop", !.next = keep,
                                    !.stops = stack[s].keep \ keep,
                                    !.starts = keep \ stack[s].keep])
    /\ UNCHANGED <<world, now, hist, pins, inflight, probe, query, obs, flush, disk, crashes>>

\* shutdown_runtime drains the tasks and stops them one by one.
StackShutdown(s) ==
    /\ stack[s].up /\ stack[s].pc = "idle"
    /\ SetStack(s, [stack[s] EXCEPT !.pc = "down", !.stops = DOMAIN stack[s].tasks])
    /\ UNCHANGED <<world, now, hist, pins, inflight, probe, query, obs, flush, disk, crashes>>

\* stop_keep_tunnel up to the end of the aborted task; a URL without a task
\* leaves nothing to unpin.
StopTask(s, u) ==
    LET st == stack[s] IN
    /\ st.pc \in {"stop", "down"} /\ st.unpin = None /\ u \in st.stops
    /\ SetStack(s, [st EXCEPT !.stops = @ \ {u},
                              !.tasks = [w \in DOMAIN @ \ {u} |-> @[w]],
                              !.unpin = IF u \in DOMAIN st.tasks THEN u ELSE None])
    /\ UNCHANGED <<world, now, hist, pins, inflight, probe, query, obs, flush, disk, crashes>>

\* shutdown_keep_tunnel_task, its last await.
UnpinTask(s) ==
    /\ stack[s].unpin # None
    /\ Unpin(stack[s].unpin)
    /\ SetStack(s, [stack[s] EXCEPT !.unpin = None])
    /\ UNCHANGED <<world, now, inflight, probe, query, obs, flush, disk, crashes>>

\* start_keep_tunnel: nothing is awaited between the pin and the entry of the
\* task in keep_tunnel_tasks.
StartTask(s, u) ==
    LET st == stack[s] IN
    /\ st.pc = "start" /\ u \in st.starts
    /\ Pin(u)
    /\ SetStack(s, [st EXCEPT !.starts = @ \ {u},
                              !.tasks = With(@, u, [missed |-> 0, since |-> Asleep])])
    /\ UNCHANGED <<world, now, inflight, probe, query, obs, flush, disk, crashes>>

\* The tasks that answer for a pin of u.
Owners(u) ==
    Cardinality({s \in Stacks : u \in DOMAIN stack[s].tasks})
    + Cardinality({s \in Stacks : stack[s].unpin = u})

\* The future that runs the walk is dropped at one of its awaits: a reload
\* ends with the control connection that asked for it.  An update leaves its
\* stack running; a shutdown has already taken the tasks out of the stack.
StackCancel(s) ==
    /\ stack[s].pc # "idle"
    /\ \A u \in Urls : pins[u] - Owners(u) < world.cancels
    /\ LET st == stack[s] IN
       stack' = [stack EXCEPT ![s] =
                  IF st.pc = "down" THEN DownStack(st.keep)
                  ELSE [DownStack(st.keep) EXCEPT !.up = TRUE, !.tasks = st.tasks]]
    /\ UNCHANGED <<world, now, hist, pins, inflight, probe, query, obs, flush, disk, crashes>>

\* A keep-tunnel task begins a round of its loop.
KeepProbe(s, u) ==
    /\ u \in DOMAIN stack[s].tasks /\ stack[s].tasks[u].since = Asleep
    /\ stack' = [stack EXCEPT ![s].tasks[u].since = now]
    /\ UNCHANGED <<world, now, hist, pins, inflight, probe, query, obs, flush, disk, crashes>>

\* The round ends: the status is recorded, the misses are counted and at
\* max_missed_pongs the tunnel is closed (see RtcpTunnelMap) and the count
\* starts again (record_liveness_probe).
KeepRecord(s, u, r, k) ==
    LET t == stack[s].tasks[u]
        missed == IF r = "Reachable" THEN 0 ELSE t.missed + 1
    IN
    /\ u \in DOMAIN stack[s].tasks /\ t.since # Asleep
    /\ k \in {None, KeyOf[u]}
    /\ Record(u, Status(r, t.since, k))
    /\ stack' = [stack EXCEPT ![s].tasks[u] =
                  [missed |-> IF missed >= MaxMissed THEN 0 ELSE missed, since |-> Asleep]]
    /\ UNCHANGED <<world, now, pins, inflight, probe, query, obs, flush, disk, crashes>>

-----------------------------------------------------------------------------
(* The snapshot on disk *)

\* write_history_to_disk: the entries under their redacted keys.  Entries that
\* differ in their credentials alone meet under one key.
Snapshot == {[url |-> Redacted[u], entry |-> hist[u]] : u \in DOMAIN hist}

\* A file: missing, cut short or whole; only a whole one parses.
NoFile == [kind |-> "absent", entries |-> {}]

PartialFile == [kind |-> "partial", entries |-> {}]

\* load_from_disk_sync: later entries of one key replace earlier ones and the
\* file orders equal keys arbitrarily; a file that does not parse is skipped.
Loaded(file) ==
    LET us   == {e.url : e \in file.entries}
        pick == {f \in [us -> file.entries] : \A u \in us : f[u].url = u}
    IN {[u \in us |-> [f[u].entry EXCEPT !.pinned = FALSE]] : f \in pick}

\* flush_loop takes the entries under the read lock ...
FlushBegin ==
    /\ world.persist /\ flush.pc = "sleep"
    /\ flush' = [pc |-> "write", entries |-> Snapshot]
    /\ UNCHANGED <<world, now, hist, pins, inflight, probe, query, obs, stack, disk, crashes>>

\* ... writes them to the temporary file, in more than one write call ...
FlushWrite ==
    /\ flush.pc \in {"write", "writing"}
    /\ IF flush.pc = "write"
       THEN /\ disk' = [disk EXCEPT !.tmp = PartialFile]
            /\ flush' = [flush EXCEPT !.pc = "writing"]
       ELSE /\ disk' = [disk EXCEPT !.tmp = [kind |-> "full", entries |-> flush.entries]]
            /\ flush' = [flush EXCEPT !.pc = "rename"]
    /\ UNCHANGED <<world, now, hist, pins, inflight, probe, query, obs, stack, crashes>>

\* ... and renames it over the snapshot.
FlushRename ==
    /\ flush.pc = "rename"
    /\ disk' = [file |-> disk.tmp, tmp |-> NoFile]
    /\ flush' = [pc |-> "sleep", entries |-> {}]
    /\ UNCHANGED <<world, now, hist, pins, inflight, probe, query, obs, stack, crashes>>

\* Any of the file operations may fail; the next interval tries again.
FlushFail ==
    /\ flush.pc # "sleep"
    /\ flush' = [pc |-> "sleep", entries |-> {}]
    /\ UNCHANGED <<world, now, hist, pins, inflight, probe, query, obs, stack, disk, crashes>>

\* The gateway dies and comes back: bootstrap_persistence reads the snapshot,
\* everything else starts empty.
Crash ==
    /\ crashes < world.crashes
    /\ crashes' = crashes + 1
    /\ hist' \in IF world.persist THEN Loaded(disk.file) ELSE {[u \in {} |-> 0]}
    /\ pins' = [u \in Urls |-> 0]
    /\ inflight' = [u \in {} |-> 0]
    /\ probe' = [p \in Probes |-> IdleProbe]
    /\ query' = [q \in Queries |-> IdleQuery]
    /\ obs' = {}
    /\ stack' = [s \in Stacks |-> DownStack(stack[s].keep)]
    /\ flush' = [pc |-> "sleep", entries |-> {}]
    /\ UNCHANGED <<world, now, disk>>

-----------------------------------------------------------------------------
Init ==
    /\ world \in Worlds
    /\ now = 0 /\ crashes = 0
    /\ hist = [u \in {} |-> 0] /\ inflight = [u \in {} |-> 0]
    /\ pins = [u \in Urls |-> 0]
    /\ probe = [p \in Probes |-> IdleProbe]
    /\ query = [q \in Queries |-> IdleQuery]
    /\ obs = {}
    /\ \E keep \in [world.stacks -> SUBSET world.urls] :
         stack = [s \in Stacks |-> DownStack(IF s \in world.stacks THEN keep[s] ELSE {})]
    /\ flush = [pc |-> "sleep", entries |-> {}]
    /\ disk = [file |-> NoFile, tmp |-> NoFile]

ObservationStep ==
    \/ \E u \in world.urls, s \in world.outcomes : Observe(u, s)
    \/ \E o \in obs : RecordObservation(o)
    \/ \E u \in Urls, s \in world.outcomes : RecordTunnelLevelEvent(KeyOf[u], s)
    \/ \E us \in {{u} : u \in Urls} \cup {Urls} : Forget(us)

QueryStep(q) ==
    \/ \E u \in world.urls, force \in BOOLEAN, age \in MaxAges : QueryBegin(q, u, force, age)
    \/ QueryLook(q) \/ QueryUnsupported(q) \/ QueryStart(q)
    \/ QueryAnswered(q) \/ QueryTimeout(q) \/ QueryEnd(q)

ProbeStep(p) ==
    \/ ProbeAcquire(p)
    \/ \E s \in world.outcomes, at \in 0..now, k \in {None} \cup {KeyOf[u] : u \in Urls} :
         ProbeResult(p, s, at, k)
    \/ ProbeRecord(p) \/ ProbeRemove(p)

StackStep(s) ==
    \/ StackStart(s) \/ StackShutdown(s) \/ StackCancel(s) \/ UnpinTask(s)
    \/ \E keep \in SUBSET world.urls : StackUpdate(s, keep)
    \/ \E u \in Urls : StopTask(s, u) \/ StartTask(s, u) \/ KeepProbe(s, u)
    \/ \E u \in Urls, r \in world.outcomes : \E k \in {None, KeyOf[u]} : KeepRecord(s, u, r, k)

Next ==
    \/ Tick \/ Crash
    \/ ObservationStep
    \/ \E q \in Queries : QueryStep(q)
    \/ \E p \in Probes : ProbeStep(p)
    \/ \E s \in Stacks : StackStep(s)
    \/ FlushBegin \/ FlushWrite \/ FlushRename \/ FlushFail

Spec == Init /\ [][Next]_vars

\* The spawned driver of a probe runs until the probe ends, the prober's
\* timeout ends every probe, and the semaphore is first come first served.
DriverSpec ==
    Spec /\ \A p \in Probes : WF_vars(ProbeStep(p)) /\ SF_vars(ProbeAcquire(p))

-----------------------------------------------------------------------------
(* Properties *)

HistEntry ==
    [state : States, at : 0..world.time, key : {None} \cup {KeyOf[u] : u \in Urls},
     pinned : BOOLEAN]

\* Every variable keeps its shape; hist and inflight are partial functions.
TypeOK ==
    /\ world \in Worlds /\ now \in 0..world.time /\ crashes \in 0..world.crashes
    /\ DOMAIN hist \subseteq Urls /\ \A u \in DOMAIN hist : hist[u] \in HistEntry
    /\ pins \in [Urls -> Nat]
    /\ DOMAIN inflight \subseteq Urls /\ \A u \in DOMAIN inflight : inflight[u] \in Probes
    /\ \A p \in Probes :
         /\ probe[p].pc \in {"idle", "queued", "running", "record", "remove", "done"}
         /\ probe[p].url \in Urls \cup {None}
    /\ \A q \in Queries :
         /\ query[q].pc \in {"idle", "look", "start", "wait", "done"}
         /\ query[q].probe \in Probes \cup {None}
    /\ \A s \in Stacks :
         /\ stack[s].pc \in {"idle", "stop", "down", "start"}
         /\ DOMAIN stack[s].tasks \cup stack[s].keep \subseteq Urls

\* The two representations of a pin agree: pin_tunnel_url and unpin_tunnel_url
\* change both under both locks "so cancellation cannot leave the two
\* representations out of sync", and every other writer of the history has to
\* respect them, the ones that rebuild an entry after invalidation or restart
\* included.
PinFlagAgrees == \A u \in DOMAIN hist : hist[u].pinned <=> pins[u] > 0

\* "Independent keep-tunnel tasks cannot evict one another's status history":
\* a URL has exactly one pin per running task and per task stopped and not yet
\* unpinned, over starts, updates and shutdowns of several stacks that keep
\* the same URL; and when updates and shutdowns are cut off at any await, pins
\* may leak but a running task never loses its own (start_keep_tunnel,
\* stop_keep_tunnel).
PinsCounted ==
    \A u \in Urls :
      /\ pins[u] >= Owners(u)
      /\ world.cancels = 0 => pins[u] = Owners(u)

\* Between updates that run to their end a running stack has exactly the tasks
\* its list names (apply_keep_tunnels computes both halves from the list before
\* it changes).
TasksMatchKeep ==
    \A s \in Stacks : world.cancels = 0 /\ stack[s].up /\ stack[s].pc = "idle"
                        => DOMAIN stack[s].tasks = stack[s].keep

Live(p) == probe[p].pc \in {"queued", "running", "record", "remove"}

\* Concurrent queries of one URL share one probe (start_and_await_probe inserts
\* under the map's lock, after a check under an earlier one), and the map names
\* exactly the probes that have still to remove themselves.
SingleFlight ==
    /\ \A p, r \in Probes : Live(p) /\ Live(r) /\ probe[p].url = probe[r].url => p = r
    /\ \A p \in Probes : Live(p) => probe[p].url \in DOMAIN inflight /\ inflight[probe[p].url] = p
    /\ \A u \in DOMAIN inflight : Live(inflight[u]) /\ probe[inflight[u]].url = u

\* Whatever is written when the gateway dies, the file that the next start
\* reads is a complete snapshot ("write atomically (temp + rename)").
DiskComplete == disk.file.kind # "partial"

\* What is kept of the URLs is sound: pins, flags, keep-tunnel tasks and lists
\* agree in every order of starts, updates, shutdowns, cancellations,
\* invalidations, crashes and reloads, and the snapshot on disk is whole
\* (pin_tunnel_url, unpin_tunnel_url, start_keep_tunnel, stop_keep_tunnel,
\* merge_into_history, load_from_disk_sync, write_history_to_disk).
PinsSound ==
    TypeOK /\ PinFlagAgrees /\ PinsCounted /\ TasksMatchKeep /\ DiskComplete

\* No eviction drops a pinned entry: it leaves the history by invalidation or
\* with the process (evict_if_needed).
PinnedSurvives ==
    [][\A u \in DOMAIN hist :
         hist[u].pinned /\ u \notin DOMAIN hist'
           => crashes' # crashes \/ \E us \in {{u}, Urls} : Forget(us)]_vars

\* After every recorded status the history is back within
\* max_memory_history_entries, pinned entries apart, although pins add entries
\* without evicting any.
HistBounded ==
    [][\A u \in Urls, s \in Outcomes \cup {"Unsupported"}, at \in 0..now :
         \A k \in {None, KeyOf[u]} :
           Limit > 0 /\ hist' # hist /\ pins' = pins /\ Record(u, Status(s, at, k))
             => \/ Cardinality(DOMAIN hist') <= Limit
                \/ \A w \in DOMAIN hist' : hist'[w].pinned]_vars

\* Eviction takes what it must and nothing that is pinned.
EvictionFair == PinnedSurvives /\ HistBounded

\* Every probe leaves the map although all its callers have gone: the driver
\* start_and_await_probe spawns needs none of them.
InFlightDrains == \A u \in Urls : u \in DOMAIN inflight ~> u \notin DOMAIN inflight

\* tunnel_mgr requirements, 9.2: a keepalive result is a tunnel-level event
\* and reaches every known URL of the tunnel key.
KeepAliveReachesSiblings ==
    [][\A s \in Stacks, u \in Urls, r \in Outcomes :
         KeepRecord(s, u, r, KeyOf[u])
           => \A w \in DOMAIN hist' : hist'[w].key = KeyOf[u] => hist'[w].state = r]_vars
=============================================================================

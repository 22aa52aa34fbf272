----------------------- MODULE TunnelUrlHistoryProofs -----------------------
(***************************************************************************)
(* Proofs about TunnelUrlHistory, for any URLs, callers, stacks, probes    *)
(* and limits: concurrent queries share one probe (SingleFlight), pins,    *)
(* flags, tasks and lists agree and the snapshot is whole (PinsSound), and *)
(* eviction is fair (EvictionFair).                                        *)
(***************************************************************************)
EXTENDS TunnelUrlHistory, FiniteSetTheorems, TLAPS

(***************************************************************************)
(* The inductive invariant                                                 *)
(***************************************************************************)
\* The types, with t the last second of the environment.
Keys == {None} \cup {KeyOf[u] : u \in Urls}
Statuses(t) == [state : States, at : 0..t, key : Keys]
Entries(t) == [state : States, at : 0..t, key : Keys, pinned : BOOLEAN]
ProbeStates(t) ==
    [pc : {"idle", "queued", "running", "record", "remove", "done"}, url : Urls \cup {None},
     since : 0..t, status : Statuses(t)]
QueryStates ==
    [pc : {"idle", "look", "start", "wait", "done"}, url : Urls \cup {None},
     probe : Probes \cup {None}, answer : [state : States, cached : BOOLEAN]]
Observations(t) == [url : Urls, status : Statuses(t)]
Tasks(t) == [missed : 0..(MaxMissed - 1), since : {Asleep} \cup 0..t]
TaskMaps(t) == UNION {[S -> Tasks(t)] : S \in SUBSET Urls}
StackStates(t) ==
    [up : BOOLEAN, keep : SUBSET Urls, tasks : TaskMaps(t), pc : {"idle", "stop", "down", "start"},
     stops : SUBSET Urls, unpin : Urls \cup {None}, starts : SUBSET Urls, next : SUBSET Urls]
Lines(t) == [url : Urls, entry : Entries(t)]
DiskFiles(t) == [kind : {"absent", "partial", "full"}, entries : SUBSET Lines(t)]

Clock == world \in Worlds /\ now \in 0..world.time /\ crashes \in 0..world.crashes

HistTyped == DOMAIN hist \subseteq Urls /\ hist \in [DOMAIN hist -> Entries(world.time)]

\* Queries, probes and the map of the probes in flight.
ProbesTyped ==
    /\ DOMAIN inflight \subseteq Urls /\ inflight \in [DOMAIN inflight -> Probes]
    /\ probe \in [Probes -> ProbeStates(world.time)]
    /\ \A p \in Probes : Live(p) => probe[p].url \in Urls
    /\ query \in [Queries -> QueryStates]
    /\ \A q \in Queries : query[q].pc \in {"look", "start", "wait"} => query[q].url \in Urls
    /\ \A q \in Queries : query[q].pc = "wait" => query[q].probe \in Probes

ObsTyped == obs \subseteq Observations(world.time)

StacksTyped == stack \in [Stacks -> StackStates(world.time)]

\* The flush loop and its files: what is renamed is complete.
DiskSound ==
    /\ flush \in [pc : {"sleep", "write", "writing", "rename"}, entries : SUBSET Lines(world.time)]
    /\ disk \in [file : DiskFiles(world.time), tmp : DiskFiles(world.time)]
    /\ flush.pc = "rename" => disk.tmp.kind = "full"
    /\ DiskComplete

\* The walks of a stack over its keep list.  A shutdown stops every task; the
\* rest holds as long as no walk is cut off.
Walk(st, cancels) ==
    /\ st.pc # "idle" => st.up
    /\ ~st.up => DOMAIN st.tasks = {}
    /\ st.pc = "down" => DOMAIN st.tasks \subseteq st.stops
    /\ cancels = 0 =>
         /\ st.up /\ st.pc = "idle" => DOMAIN st.tasks = st.keep
         /\ st.pc = "start" => /\ DOMAIN st.tasks \cup st.starts = st.keep
                               /\ DOMAIN st.tasks \cap st.starts = {}
         /\ st.pc = "stop" =>
              /\ st.stops \subseteq DOMAIN st.tasks /\ st.stops \cap st.next = {}
              /\ DOMAIN st.tasks \ st.stops = st.keep \cap st.next
              /\ st.starts = st.next \ st.keep

WalksSound == \A s \in Stacks : Walk(stack[s], world.cancels)

UInv ==
    /\ Clock /\ HistTyped /\ ProbesTyped /\ ObsTyped /\ StacksTyped
    /\ SingleFlight
    /\ pins \in [Urls -> Nat] /\ PinFlagAgrees
    /\ PinsCounted /\ WalksSound
    /\ DiskSound

(***************************************************************************)
(* The operators of the history                                            *)
(***************************************************************************)
\* The bounds of an environment are numbers.
LEMMA Bounds ==
    ASSUME Clock
    PROVE  /\ world.time \in Nat /\ world.crashes \in Nat /\ world.cancels \in Nat /\ now \in Nat
           /\ world.urls \subseteq Urls /\ world.outcomes \subseteq {"Reachable", "Unreachable"}
           /\ world.outcomes \subseteq States
<1>1. world \in Worlds /\ now \in 0..world.time
  BY DEF Clock
<1>2. {world.time, world.obs, world.crashes, world.cancels} \subseteq Nat
      /\ world.urls \subseteq Urls /\ world.outcomes \subseteq Outcomes
  BY <1>1, WorldAssumption
<1>3. world.time \in Nat /\ world.crashes \in Nat /\ world.cancels \in Nat
  BY <1>2
<1>4. Outcomes \subseteq {"Reachable", "Unreachable"}
  BY UrlAssumption
<1>5. now \in Nat
  BY <1>1, <1>3
<1>6. {"Reachable", "Unreachable"} \subseteq States
  BY DEF States
<1> QED BY <1>2, <1>3, <1>4, <1>5, <1>6

\* With adds a key or changes its value.
LEMMA WithIs ==
    ASSUME NEW f, NEW k, NEW v
    PROVE  /\ DOMAIN With(f, k, v) = DOMAIN f \cup {k} /\ With(f, k, v)[k] = v
           /\ \A j \in DOMAIN f : j # k => With(f, k, v)[j] = f[j]
BY DEF With

\* A map with one more key keeps its range.
LEMMA WithTyped ==
    ASSUME NEW B, NEW f, f \in [DOMAIN f -> B], NEW k, NEW v \in B
    PROVE  With(f, k, v) \in [DOMAIN With(f, k, v) -> B]
BY DEF With

\* A merge keeps the pin.
LEMMA MergeIs ==
    ASSUME NEW t, NEW h \in Entries(t), NEW s \in Statuses(t)
    PROVE  Merge(h, s) \in Entries(t) /\ Merge(h, s).pinned = h.pinned
<1>1. (IF s.key = None THEN h.key ELSE s.key) \in Keys /\ s.state \in States /\ s.at \in 0..t
  BY DEF Entries, Statuses
<1> DEFINE k == IF s.key = None THEN h.key ELSE s.key
<1>2. Merge(h, s) = [h EXCEPT !.state = s.state, !.at = s.at, !.key = k]
  BY DEF Merge
<1> HIDE DEF k
<1> QED BY <1>1, <1>2 DEF Entries, k

\* What an observation makes of a history.
LEMMA MergedIs ==
    ASSUME NEW t, NEW hs, DOMAIN hs \subseteq Urls, hs \in [DOMAIN hs -> Entries(t)],
           NEW u \in Urls, NEW s \in Statuses(t), NEW b \in BOOLEAN
    PROVE  /\ DOMAIN MergeIntoHistory(hs, u, s, b) = DOMAIN hs \cup {u}
           /\ MergeIntoHistory(hs, u, s, b) \in [DOMAIN hs \cup {u} -> Entries(t)]
           /\ \A w \in DOMAIN hs : w # u => MergeIntoHistory(hs, u, s, b)[w] = hs[w]
           /\ u \in DOMAIN hs => (MergeIntoHistory(hs, u, s, b)[u].pinned <=> (hs[u].pinned \/ b))
           /\ u \notin DOMAIN hs => (MergeIntoHistory(hs, u, s, b)[u].pinned <=> b)
<1>1. CASE u \in DOMAIN hs
  <2> DEFINE m == Merge(hs[u], s)
             e == [m EXCEPT !.pinned = @ \/ b]
  <2>1. hs[u] \in Entries(t)
    BY <1>1
  <2>2. m \in Entries(t) /\ m.pinned = hs[u].pinned
    BY <2>1, MergeIs
  <2>3. MergeIntoHistory(hs, u, s, b) = [hs EXCEPT ![u] = e]
    BY <1>1 DEF MergeIntoHistory
  <2> HIDE DEF m
  <2>4. e \in Entries(t) /\ (e.pinned <=> (hs[u].pinned \/ b))
    BY <2>2 DEF Entries
  <2> HIDE DEF e
  <2> QED BY <1>1, <2>3, <2>4
<1>2. CASE u \notin DOMAIN hs
  <2> DEFINE e == [state |-> s.state, at |-> s.at, key |-> s.key, pinned |-> b]
  <2>1. MergeIntoHistory(hs, u, s, b) = With(hs, u, e)
    BY <1>2 DEF MergeIntoHistory
  <2>2. e \in Entries(t) /\ (e.pinned <=> b)
    BY DEF Entries, Statuses
  <2> HIDE DEF e
  <2> QED BY <1>2, <2>1, <2>2 DEF With
<1> QED BY <1>1, <1>2

\* Eviction takes entries away that are not pinned, and changes none.
LEMMA EvictIs ==
    ASSUME NEW hs, NEW g \in EvictIfNeeded(hs)
    PROVE  /\ DOMAIN g \subseteq DOMAIN hs
           /\ \A u \in DOMAIN g : g[u] = hs[u]
           /\ \A u \in DOMAIN hs \ DOMAIN g : ~ hs[u].pinned
           /\ g = hs \/ g = [u \in DOMAIN g |-> hs[u]]
<1> DEFINE over == Cardinality(DOMAIN hs) - Limit
           free == {u \in DOMAIN hs : ~ hs[u].pinned}
<1>1. CASE g = hs
  BY <1>1
<1>2. CASE g # hs
  <2>1. PICK d \in SUBSET free : g = [u \in DOMAIN hs \ d |-> hs[u]]
    BY <1>2 DEF EvictIfNeeded
  <2> QED BY <2>1
<1> QED BY <1>1, <1>2

\* Eviction leaves at most Limit entries, pinned ones apart.
LEMMA EvictBounds ==
    ASSUME NEW hs, IsFiniteSet(DOMAIN hs), NEW g \in EvictIfNeeded(hs), Limit > 0
    PROVE  Cardinality(DOMAIN g) <= Limit \/ \A u \in DOMAIN g : g[u].pinned
<1> DEFINE over == Cardinality(DOMAIN hs) - Limit
           free == {u \in DOMAIN hs : ~ hs[u].pinned}
           n    == IF over < Cardinality(free) THEN over ELSE Cardinality(free)
<1>1. Cardinality(DOMAIN hs) \in Nat /\ Limit \in Nat
  BY FS_CardinalityType, LimitAssumption
<1>2. IsFiniteSet(free) /\ Cardinality(free) \in Nat
  BY FS_Subset, FS_CardinalityType
<1>3. CASE over <= 0
  <2>1. g = hs
    BY <1>3 DEF EvictIfNeeded
  <2> QED BY <1>1, <1>3, <2>1
<1>4. CASE over > 0
  <2>0. ~ (Limit = 0 \/ over <= 0)
    BY <1>1, <1>4
  <2> DEFINE Oldest(d) == /\ Cardinality(d) = n
                          /\ \A u \in d, w \in free \ d : hs[u].at <= hs[w].at
  <2>a. g \in {[u \in DOMAIN hs \ d |-> hs[u]] : d \in {d \in SUBSET free : Oldest(d)}}
    BY <2>0 DEF EvictIfNeeded
  <2>1. PICK d \in SUBSET free : Cardinality(d) = n /\ g = [u \in DOMAIN hs \ d |-> hs[u]]
    <3> HIDE DEF free, n
    <3> QED BY <2>a
  <2>2. IsFiniteSet(d)
    BY <1>2, FS_Subset
  <2>3. CASE over < Cardinality(free)
    <3>1. Cardinality(d) = over
      BY <2>1, <2>3
    <3>2. d \subseteq DOMAIN hs
      BY <2>1
    <3>3. Cardinality(DOMAIN hs \ d) = Cardinality(DOMAIN hs) - Cardinality(DOMAIN hs \cap d)
      BY FS_Difference
    <3>4. DOMAIN hs \cap d = d /\ DOMAIN g = DOMAIN hs \ d
      BY <2>1, <3>2
    <3>5. Cardinality(DOMAIN g) = Cardinality(DOMAIN hs) - over
      BY <3>1, <3>3, <3>4
    <3> QED BY <1>1, <3>5
  <2>4. CASE ~ (over < Cardinality(free))
    <3>1. Cardinality(d) = Cardinality(free)
      BY <2>1, <2>4
    <3>2. d = free
      BY <1>2, <2>1, <3>1, FS_Subset
    <3> QED BY <2>1, <3>2
  <2> QED BY <2>3, <2>4
<1> QED BY <1>1, <1>3, <1>4

(***************************************************************************)
(* The history and the pins                                                *)
(***************************************************************************)
\* The two representations of a pin, together with their types.
HistSound == HistTyped /\ pins \in [Urls -> Nat] /\ PinFlagAgrees

\* No pinned entry goes.
KeepsPinned == \A u \in DOMAIN hist : hist[u].pinned => u \in DOMAIN hist'

\* A recorded status.
LEMMA RecordKept ==
    ASSUME HistSound, NEW u \in Urls, NEW s \in Statuses(world.time), Record(u, s),
           UNCHANGED <<world, pins>>
    PROVE  HistSound' /\ KeepsPinned
<1>0. PICK b \in BOOLEAN : b = (pins[u] > 0)
  <2>1. (pins[u] > 0) \in BOOLEAN
    OBVIOUS
  <2> QED BY <2>1
<1> DEFINE t == world.time
           m == MergeIntoHistory(hist, u, s, b)
<1>1. DOMAIN hist \subseteq Urls /\ hist \in [DOMAIN hist -> Entries(t)] /\ s \in Statuses(t)
  BY DEF HistSound, HistTyped
<1>2. hist' \in EvictIfNeeded(m)
  BY <1>0 DEF Record
<1> HIDE DEF t
<1>3. /\ DOMAIN m = DOMAIN hist \cup {u} /\ m \in [DOMAIN hist \cup {u} -> Entries(t)]
      /\ \A w \in DOMAIN hist : w # u => m[w] = hist[w]
      /\ u \in DOMAIN hist => (m[u].pinned <=> (hist[u].pinned \/ b))
      /\ u \notin DOMAIN hist => (m[u].pinned <=> b)
  <2> HIDE DEF m
  <2>1. m = MergeIntoHistory(hist, u, s, b)
    BY DEF m
  <2>2. DOMAIN MergeIntoHistory(hist, u, s, b) = DOMAIN hist \cup {u}
    BY <1>1, MergedIs
  <2>3. MergeIntoHistory(hist, u, s, b) \in [DOMAIN hist \cup {u} -> Entries(t)]
    BY <1>1, MergedIs
  <2>4. ASSUME NEW w \in DOMAIN hist, w # u PROVE MergeIntoHistory(hist, u, s, b)[w] = hist[w]
    BY <1>1, <2>4 DEF MergeIntoHistory, With
  <2>5. u \in DOMAIN hist => (m[u].pinned <=> (hist[u].pinned \/ b))
    BY <1>1, <2>1, MergedIs
  <2>6. u \notin DOMAIN hist => (m[u].pinned <=> b)
    BY <1>1, <2>1, MergedIs
  <2> QED BY <2>1, <2>2, <2>3, <2>4, <2>5, <2>6
<1> HIDE DEF m
<1>4. /\ DOMAIN hist' \subseteq DOMAIN m /\ \A w \in DOMAIN hist' : hist'[w] = m[w]
      /\ \A w \in DOMAIN m \ DOMAIN hist' : ~ m[w].pinned
      /\ hist' = m \/ hist' = [w \in DOMAIN hist' |-> m[w]]
  BY <1>2, EvictIs
<1>5. hist' \in [DOMAIN hist' -> Entries(t)]
  BY <1>3, <1>4
<1>6. HistTyped'
  <2>1. DOMAIN hist' \subseteq Urls
    BY <1>1, <1>3, <1>4
  <2> QED BY <1>5, <2>1 DEF HistTyped, t
<1>7. \A w \in DOMAIN hist : hist[w].pinned <=> pins[w] > 0
  BY DEF HistSound, PinFlagAgrees
<1>8. \A w \in DOMAIN m : m[w].pinned <=> pins[w] > 0
  BY <1>0, <1>3, <1>7
<1>9. PinFlagAgrees'
  BY <1>4, <1>8 DEF PinFlagAgrees
<1>10. KeepsPinned
  BY <1>3, <1>4, <1>7, <1>8 DEF KeepsPinned
<1> QED BY <1>6, <1>9, <1>10 DEF HistSound

\* A tunnel-level event.
LEMMA LevelEventKept ==
    ASSUME HistSound, Clock, NEW v \in Urls, NEW r \in world.outcomes,
           RecordTunnelLevelEvent(KeyOf[v], r)
    PROVE  HistSound' /\ KeepsPinned
<1> DEFINE t == world.time
           k == KeyOf[v]
           s == Status(r, now, k)
<1>1. s \in Statuses(t)
  BY Bounds DEF Status, Statuses, Clock, Keys
<1>2. hist' = [u \in DOMAIN hist |-> IF hist[u].key = k THEN Merge(hist[u], s) ELSE hist[u]]
      /\ UNCHANGED <<world, pins>>
  BY DEF RecordTunnelLevelEvent
<1>3. DOMAIN hist \subseteq Urls /\ hist \in [DOMAIN hist -> Entries(t)]
  BY DEF HistSound, HistTyped
<1> HIDE DEF s, k, t
<1>4. \A u \in DOMAIN hist : Merge(hist[u], s) \in Entries(t)
                             /\ Merge(hist[u], s).pinned = hist[u].pinned
  BY <1>1, <1>3, MergeIs
<1>5. DOMAIN hist' = DOMAIN hist /\ \A u \in DOMAIN hist : hist'[u].pinned = hist[u].pinned
  BY <1>2, <1>4
<1>6. hist' \in [DOMAIN hist' -> Entries(t)]
  BY <1>2, <1>3, <1>4
<1>7. HistTyped'
  BY <1>2, <1>3, <1>5, <1>6 DEF HistTyped, t
<1>8. PinFlagAgrees' /\ KeepsPinned
  BY <1>2, <1>5 DEF HistSound, PinFlagAgrees, KeepsPinned
<1> QED BY <1>2, <1>7, <1>8 DEF HistSound

\* Invalidation.
LEMMA ForgetKept ==
    ASSUME HistSound, NEW us, Forget(us)
    PROVE  HistSound'
<1>1. hist' = [u \in DOMAIN hist \ us |-> hist[u]] /\ UNCHANGED <<world, pins>>
  BY DEF Forget
<1>2. HistTyped'
  BY <1>1 DEF HistSound, HistTyped
<1>3. PinFlagAgrees'
  BY <1>1 DEF HistSound, PinFlagAgrees
<1> QED BY <1>1, <1>2, <1>3 DEF HistSound

\* One more owner of a URL.
LEMMA PinKept ==
    ASSUME HistSound, Clock, NEW u \in Urls, Pin(u), world' = world
    PROVE  HistSound' /\ KeepsPinned
<1> DEFINE t == world.time
<1>1. DOMAIN hist \subseteq Urls /\ hist \in [DOMAIN hist -> Entries(t)] /\ pins \in [Urls -> Nat]
      /\ \A w \in DOMAIN hist : hist[w].pinned <=> pins[w] > 0
  BY DEF HistSound, HistTyped, PinFlagAgrees
<1>2. pins' = [pins EXCEPT ![u] = @ + 1] /\ hist' = PinnedHist(u)
  BY DEF Pin
<1>3. pins' \in [Urls -> Nat] /\ pins'[u] > 0 /\ \A w \in Urls : w # u => pins'[w] = pins[w]
  BY <1>1, <1>2
<1>4. /\ DOMAIN hist' = DOMAIN hist \cup {u} /\ hist' \in [DOMAIN hist' -> Entries(t)]
      /\ hist'[u].pinned /\ \A w \in DOMAIN hist : w # u => hist'[w] = hist[w]
  <2>1. CASE u \in DOMAIN hist
    <3> DEFINE e == [hist[u] EXCEPT !.pinned = TRUE]
    <3>1. hist[u] \in Entries(t)
      BY <1>1, <2>1
    <3>2. e \in Entries(t) /\ e.pinned
      BY <3>1 DEF Entries
    <3>3. hist' = [hist EXCEPT ![u] = e]
      BY <1>2, <2>1 DEF PinnedHist
    <3> HIDE DEF e, t
    <3> QED BY <1>1, <2>1, <3>2, <3>3
  <2>2. CASE u \notin DOMAIN hist
    <3> DEFINE e == [state |-> "Unknown", at |-> now, key |-> None, pinned |-> TRUE]
    <3>1. e \in Entries(t) /\ e.pinned
      BY DEF Entries, Clock, States, Keys
    <3>2. hist' = With(hist, u, e)
      BY <1>2, <2>2 DEF PinnedHist
    <3> HIDE DEF e, t
    <3>3. hist' \in [DOMAIN hist' -> Entries(t)]
      BY <1>1, <3>1, <3>2, WithTyped
    <3> QED BY <2>2, <3>1, <3>2, <3>3 DEF With
  <2> QED BY <2>1, <2>2
<1>5. HistTyped'
  BY <1>1, <1>4 DEF HistTyped
<1>6. PinFlagAgrees' /\ KeepsPinned
  BY <1>1, <1>3, <1>4 DEF PinFlagAgrees, KeepsPinned
<1> QED BY <1>3, <1>5, <1>6 DEF HistSound

\* An owner leaves a URL.
LEMMA UnpinKept ==
    ASSUME HistSound, NEW u \in Urls, Unpin(u), world' = world
    PROVE  HistSound' /\ KeepsPinned
<1> DEFINE t == world.time
<1>1. DOMAIN hist \subseteq Urls /\ hist \in [DOMAIN hist -> Entries(t)] /\ pins \in [Urls -> Nat]
      /\ \A w \in DOMAIN hist : hist[w].pinned <=> pins[w] > 0
  BY DEF HistSound, HistTyped, PinFlagAgrees
<1>2. CASE pins[u] = 0
  <2>1. UNCHANGED <<pins, hist>>
    BY <1>2 DEF Unpin
  <2> QED BY <2>1 DEF HistSound, HistTyped, PinFlagAgrees, KeepsPinned
<1>3. CASE pins[u] # 0
  <2>1. pins' = [pins EXCEPT ![u] = @ - 1]
    BY <1>3 DEF Unpin
  <2>2. pins' \in [Urls -> Nat] /\ pins'[u] = pins[u] - 1 /\ \A w \in Urls : w # u => pins'[w] = pins[w]
    BY <1>1, <1>3, <2>1
  <2>3. CASE u \in DOMAIN hist
    <3>0. PICK b \in BOOLEAN : b = (pins[u] > 1)
      <4>1. (pins[u] > 1) \in BOOLEAN
        OBVIOUS
      <4> QED BY <4>1
    <3> DEFINE e == [hist[u] EXCEPT !.pinned = b]
    <3>1. hist[u] \in Entries(t)
      BY <1>1, <2>3
    <3>2. e \in Entries(t) /\ (e.pinned <=> b)
      BY <3>1 DEF Entries
    <3>3. hist' = [hist EXCEPT ![u] = e]
      BY <1>3, <2>3, <3>0 DEF Unpin
    <3> HIDE DEF e, t
    <3>4. /\ DOMAIN hist' = DOMAIN hist /\ hist' \in [DOMAIN hist' -> Entries(t)]
          /\ (hist'[u].pinned <=> b) /\ \A w \in DOMAIN hist : w # u => hist'[w] = hist[w]
      BY <1>1, <2>3, <3>2, <3>3
    <3>5. HistTyped'
      BY <1>1, <3>4 DEF HistTyped, t
    <3>6. b <=> pins'[u] > 0
      <4>1. pins[u] \in Nat /\ pins'[u] = pins[u] - 1
        BY <1>1, <2>2
      <4>2. b <=> (pins[u] > 1)
        BY <3>0
      <4> QED BY <4>1, <4>2
    <3>7. PinFlagAgrees' /\ KeepsPinned
      BY <1>1, <2>2, <3>4, <3>6 DEF PinFlagAgrees, KeepsPinned
    <3> QED BY <2>2, <3>5, <3>7 DEF HistSound
  <2>4. CASE u \notin DOMAIN hist
    <3>1. hist' = hist
      BY <1>3, <2>4 DEF Unpin
    <3>2. HistTyped' /\ PinFlagAgrees' /\ KeepsPinned
      BY <1>1, <2>2, <2>4, <3>1 DEF HistTyped, PinFlagAgrees, KeepsPinned
    <3> QED BY <2>2, <3>2 DEF HistSound
  <2> QED BY <2>3, <2>4
<1> QED BY <1>2, <1>3

\* What a start reads from a file: typed entries, none of them pinned.
LEMMA LoadedIs ==
    ASSUME NEW t, NEW file \in DiskFiles(t), NEW h \in Loaded(file)
    PROVE  /\ DOMAIN h \subseteq Urls /\ h \in [DOMAIN h -> Entries(t)]
           /\ \A u \in DOMAIN h : ~ h[u].pinned
<1> DEFINE us == {e.url : e \in file.entries}
<1>1. file.entries \subseteq Lines(t)
  BY DEF DiskFiles
<1>2. us \subseteq Urls
  BY <1>1 DEF Lines
<1>3. PICK f \in [us -> file.entries] : h = [u \in us |-> [f[u].entry EXCEPT !.pinned = FALSE]]
  BY DEF Loaded
<1>4. ASSUME NEW u \in us
      PROVE  [f[u].entry EXCEPT !.pinned = FALSE] \in Entries(t)
             /\ ~ [f[u].entry EXCEPT !.pinned = FALSE].pinned
  <2>1. f[u] \in Lines(t)
    BY <1>1, <1>3
  <2>2. f[u].entry \in Entries(t)
    BY <2>1 DEF Lines
  <2> QED BY <2>2 DEF Entries
<1> QED BY <1>2, <1>3, <1>4

\* The history after a crash.
LEMMA CrashHist ==
    ASSUME DiskSound, Crash
    PROVE  HistSound'
<1> DEFINE t == world.time
<1>1. world' = world /\ pins' = [u \in Urls |-> 0]
  BY DEF Crash
<1>2. /\ DOMAIN hist' \subseteq Urls /\ hist' \in [DOMAIN hist' -> Entries(t)]
      /\ \A u \in DOMAIN hist' : ~ hist'[u].pinned
  <2>1. CASE world.persist
    <3>1. disk.file \in DiskFiles(t) /\ hist' \in Loaded(disk.file)
      BY <2>1 DEF DiskSound, Crash
    <3> QED BY <3>1, LoadedIs
  <2>2. CASE ~ world.persist
    <3>1. hist' = [u \in {} |-> 0]
      BY <2>2 DEF Crash
    <3> QED BY <3>1
  <2> QED BY <2>1, <2>2
<1>3. HistTyped'
  BY <1>1, <1>2 DEF HistTyped
<1>4. PinFlagAgrees' /\ pins' \in [Urls -> Nat]
  BY <1>1, <1>2 DEF PinFlagAgrees
<1> QED BY <1>3, <1>4 DEF HistSound

(***************************************************************************)
(* Queries and probes                                                      *)
(***************************************************************************)
ProbeSound == ProbesTyped /\ SingleFlight

\* A step that leaves queries and probes alone.
LEMMA ProbesStay ==
    ASSUME ProbeSound, UNCHANGED <<world, inflight, probe, query>>
    PROVE  ProbeSound'
BY DEF ProbeSound, ProbesTyped, SingleFlight, Live

\* A query goes on.
LEMMA QueryMoves ==
    ASSUME ProbeSound, NEW q \in Queries, NEW r \in QueryStates, query' = [query EXCEPT ![q] = r],
           r.pc \in {"look", "start", "wait"} => r.url \in Urls, r.pc = "wait" => r.probe \in Probes,
           UNCHANGED <<world, inflight, probe>>
    PROVE  ProbeSound'
<1>1. query \in [Queries -> QueryStates]
  BY DEF ProbeSound, ProbesTyped
<1>2. query' \in [Queries -> QueryStates] /\ query'[q] = r
      /\ \A x \in Queries : x # q => query'[x] = query[x]
  BY <1>1
<1>3. ProbesTyped'
  BY <1>2 DEF ProbeSound, ProbesTyped, Live
<1>4. SingleFlight'
  BY DEF ProbeSound, SingleFlight, Live
<1> QED BY <1>3, <1>4 DEF ProbeSound

\* A probe goes on, still in flight.
LEMMA ProbeMoves ==
    ASSUME ProbeSound, NEW p \in Probes, NEW r \in ProbeStates(world.time), Live(p),
           probe' = [probe EXCEPT ![p] = r], r.pc \in {"queued", "running", "record", "remove"},
           r.url = probe[p].url, UNCHANGED <<world, inflight, query>>
    PROVE  ProbeSound'
<1>1. probe \in [Probes -> ProbeStates(world.time)]
  BY DEF ProbeSound, ProbesTyped
<1>2. probe' \in [Probes -> ProbeStates(world.time)] /\ probe'[p] = r
      /\ \A x \in Probes : x # p => probe'[x] = probe[x]
  BY <1>1
<1>3. \A x \in Probes : (Live(x)' <=> Live(x)) /\ probe'[x].url = probe[x].url
  BY <1>2 DEF Live
<1>4. ProbesTyped'
  BY <1>2, <1>3 DEF ProbeSound, ProbesTyped
<1>5. inflight \in [DOMAIN inflight -> Probes]
  BY DEF ProbeSound, ProbesTyped
<1>6. SingleFlight'
  BY <1>3, <1>5 DEF ProbeSound, SingleFlight
<1> QED BY <1>4, <1>6 DEF ProbeSound

\* The records of a caller and of a probe.
LEMMA QueryIs ==
    ASSUME ProbeSound, NEW q \in Queries
    PROVE  /\ query[q] \in QueryStates
           /\ query[q].pc \in {"look", "start", "wait"} => query[q].url \in Urls
           /\ query[q].pc = "wait" => query[q].probe \in Probes
BY DEF ProbeSound, ProbesTyped

\* A query looks at the history, at the map, waits or ends.
LEMMA QueryStepKept ==
    ASSUME ProbeSound, HistTyped, Clock, NEW q \in Queries,
           \/ \E u \in world.urls, force \in BOOLEAN, age \in MaxAges : QueryBegin(q, u, force, age)
           \/ QueryLook(q) \/ QueryUnsupported(q)
           \/ QueryAnswered(q) \/ QueryTimeout(q) \/ QueryEnd(q)
    PROVE  ProbeSound'
<1>1. query[q] \in QueryStates
  BY QueryIs
<1>2. UNCHANGED <<world, inflight, probe>>
  BY DEF QueryBegin, QueryLook, QueryUnsupported, QueryAnswered, QueryTimeout, QueryEnd
<1>3. \A u \in DOMAIN hist : hist[u].state \in States
  BY DEF HistTyped, Entries
<1>4. \A s : \A c \in BOOLEAN : s.state \in States => Answer(s, c) \in [state : States, cached : BOOLEAN]
  BY DEF Answer
<1>5. ASSUME NEW u \in world.urls, NEW force \in BOOLEAN, NEW age \in MaxAges,
             QueryBegin(q, u, force, age)
      PROVE  ProbeSound'
  <2>1. u \in Urls
    BY Bounds
  <2>2. CASE ~ force /\ Fresh(u, age)
    <3> DEFINE a == Answer(hist[u], TRUE)
               r == [query[q] EXCEPT !.pc = "done", !.url = u, !.answer = a]
    <3>1. a \in [state : States, cached : BOOLEAN]
      BY <1>3, <1>4, <2>2 DEF Fresh
    <3>2. query' = [query EXCEPT ![q] = r]
      BY <1>5, <2>2 DEF QueryBegin
    <3> HIDE DEF a
    <3>3. r \in QueryStates /\ r.pc = "done"
      BY <1>1, <2>1, <3>1 DEF QueryStates
    <3> HIDE DEF r
    <3> QED BY <1>2, <3>2, <3>3, QueryMoves
  <2>3. CASE ~ (~ force /\ Fresh(u, age))
    <3> DEFINE r == [query[q] EXCEPT !.pc = "look", !.url = u]
    <3>1. query' = [query EXCEPT ![q] = r]
      BY <1>5, <2>3 DEF QueryBegin
    <3>2. r \in QueryStates /\ r.pc = "look" /\ r.url = u
      BY <1>1, <2>1 DEF QueryStates
    <3> HIDE DEF r
    <3> QED BY <1>2, <2>1, <3>1, <3>2, QueryMoves
  <2> QED BY <2>2, <2>3
<1>6. CASE QueryLook(q)
  <2> DEFINE u == query[q].url
             r == IF u \in DOMAIN inflight
                  THEN [query[q] EXCEPT !.pc = "wait", !.probe = inflight[u]]
                  ELSE [query[q] EXCEPT !.pc = "start"]
  <2>1. query' = [query EXCEPT ![q] = r] /\ u \in Urls
    BY <1>6, QueryIs DEF QueryLook
  <2>2. u \in DOMAIN inflight => inflight[u] \in Probes
    BY DEF ProbeSound, ProbesTyped
  <2>3. r \in QueryStates /\ r.url = u /\ (r.pc = "wait" => r.probe \in Probes)
    BY <1>1, <2>2 DEF QueryStates
  <2> HIDE DEF r
  <2> QED BY <1>2, <2>1, <2>3, QueryMoves
<1>7. CASE QueryUnsupported(q)
  <2> DEFINE s == Status("Unsupported", now, None)
             a == Answer(s, FALSE)
             r == [query[q] EXCEPT !.pc = "done", !.answer = a]
  <2>1. query' = [query EXCEPT ![q] = r]
    BY <1>7 DEF QueryUnsupported
  <2>2. a \in [state : States, cached : BOOLEAN]
    BY DEF Answer, Status, States
  <2> HIDE DEF a
  <2>3. r \in QueryStates /\ r.pc = "done"
    BY <1>1, <2>2 DEF QueryStates
  <2> HIDE DEF r
  <2> QED BY <1>2, <2>1, <2>3, QueryMoves
<1>8. CASE QueryAnswered(q)
  <2> DEFINE a == Answer(probe[query[q].probe].status, FALSE)
             r == [query[q] EXCEPT !.pc = "done", !.probe = None, !.answer = a]
  <2>1. query' = [query EXCEPT ![q] = r] /\ query[q].probe \in Probes
    BY <1>8, QueryIs DEF QueryAnswered
  <2>2. probe[query[q].probe].status.state \in States
    BY <2>1 DEF ProbeSound, ProbesTyped, ProbeStates, Statuses
  <2>3. a \in [state : States, cached : BOOLEAN]
    BY <2>2 DEF Answer
  <2> HIDE DEF a
  <2>4. r \in QueryStates /\ r.pc = "done"
    BY <1>1, <2>3 DEF QueryStates
  <2> HIDE DEF r
  <2> QED BY <1>2, <2>1, <2>4, QueryMoves
<1>9. CASE QueryTimeout(q)
  <2> DEFINE u == query[q].url
             a == IF u \in DOMAIN hist THEN Answer(hist[u], TRUE)
                  ELSE Answer(Status("Probing", now, None), FALSE)
             r == [query[q] EXCEPT !.pc = "done", !.probe = None, !.answer = a]
  <2>1. query' = [query EXCEPT ![q] = r]
    BY <1>9 DEF QueryTimeout
  <2>2. a \in [state : States, cached : BOOLEAN]
    BY <1>3 DEF Answer, Status, States
  <2> HIDE DEF a
  <2>3. r \in QueryStates /\ r.pc = "done"
    BY <1>1, <2>2 DEF QueryStates
  <2> HIDE DEF r
  <2> QED BY <1>2, <2>1, <2>3, QueryMoves
<1>10. CASE QueryEnd(q)
  <2>1. IdleQuery \in QueryStates /\ IdleQuery.pc = "idle"
    BY DEF IdleQuery, QueryStates, Answer, NoStatus, Status, States
  <2>2. query' = [query EXCEPT ![q] = IdleQuery]
    BY <1>10 DEF QueryEnd
  <2> QED BY <1>2, <2>1, <2>2, QueryMoves
<1> QED BY <1>5, <1>6, <1>7, <1>8, <1>9, <1>10

\* An idle probe.
LEMMA IdleProbeTyped ==
    ASSUME Clock
    PROVE  IdleProbe \in ProbeStates(world.time)
<1>1. 0 \in 0..world.time
  BY Bounds
<1>2. NoStatus \in Statuses(world.time)
  BY <1>1 DEF NoStatus, Status, Statuses, States, Keys
<1> QED BY <1>1, <1>2 DEF IdleProbe, ProbeStates

\* A probe starts: it is the only one of its URL.
LEMMA QueryStartKept ==
    ASSUME ProbeSound, Clock, NEW q \in Queries, QueryStart(q)
    PROVE  ProbeSound'
<1> DEFINE u == query[q].url
<1>1. query[q] \in QueryStates /\ u \in Urls /\ world' = world
  BY QueryIs DEF QueryStart
<1>2. CASE u \in DOMAIN inflight
  <2> DEFINE r == [query[q] EXCEPT !.pc = "wait", !.probe = inflight[u]]
  <2>1. query' = [query EXCEPT ![q] = r] /\ UNCHANGED <<inflight, probe>>
    BY <1>2 DEF QueryStart
  <2>2. inflight[u] \in Probes
    BY <1>2 DEF ProbeSound, ProbesTyped
  <2>3. r \in QueryStates /\ r.url = u /\ r.probe \in Probes
    BY <1>1, <2>2 DEF QueryStates
  <2> HIDE DEF r
  <2> QED BY <1>1, <2>1, <2>3, QueryMoves
<1>3. CASE u \notin DOMAIN inflight
  <2>1. PICK p \in Probes :
          /\ FreeProbe(p)
          /\ inflight' = With(inflight, u, p)
          /\ probe' = [probe EXCEPT ![p] = [IdleProbe EXCEPT !.pc = "queued", !.url = u]]
          /\ query' = [query EXCEPT ![q] = [query[q] EXCEPT !.pc = "wait", !.probe = p]]
    BY <1>3 DEF QueryStart
  <2> DEFINE r == [IdleProbe EXCEPT !.pc = "queued", !.url = u]
             y == [query[q] EXCEPT !.pc = "wait", !.probe = p]
  <2>2. r \in ProbeStates(world.time) /\ r.pc = "queued" /\ r.url = u
    BY <1>1, IdleProbeTyped DEF ProbeStates
  <2>3. y \in QueryStates /\ y.url = u /\ y.probe = p
    BY <1>1 DEF QueryStates
  <2>4. probe' = [probe EXCEPT ![p] = r] /\ query' = [query EXCEPT ![q] = y]
    BY <2>1
  <2> HIDE DEF r, y
  <2>5. /\ probe \in [Probes -> ProbeStates(world.time)] /\ query \in [Queries -> QueryStates]
        /\ DOMAIN inflight \subseteq Urls /\ inflight \in [DOMAIN inflight -> Probes]
    BY DEF ProbeSound, ProbesTyped
  <2>6. /\ probe' \in [Probes -> ProbeStates(world.time)] /\ probe'[p] = r
        /\ \A x \in Probes : x # p => probe'[x] = probe[x]
    BY <2>2, <2>4, <2>5
  <2>7. /\ query' \in [Queries -> QueryStates] /\ query'[q] = y
        /\ \A x \in Queries : x # q => query'[x] = query[x]
    BY <2>3, <2>4, <2>5
  <2>8. /\ DOMAIN inflight' = DOMAIN inflight \cup {u} /\ inflight'[u] = p
        /\ \A w \in DOMAIN inflight : inflight'[w] = inflight[w]
        /\ inflight' \in [DOMAIN inflight' -> Probes]
    BY <1>3, <2>1, <2>5 DEF With
  <2>9. ~ Live(p) /\ Live(p)' /\ \A x \in Probes : x # p => (Live(x)' <=> Live(x))
    BY <2>1, <2>2, <2>6 DEF FreeProbe, Live
  <2>10. ProbesTyped'
    BY <1>1, <2>2, <2>3, <2>5, <2>6, <2>7, <2>8, <2>9 DEF ProbeSound, ProbesTyped
  <2>11. SingleFlight'
    <3>1. \A x \in Probes : Live(x) => probe[x].url # u
      BY <1>3 DEF ProbeSound, SingleFlight
    <3>2. \A w \in DOMAIN inflight : inflight[w] \in Probes /\ inflight[w] # p
      BY <2>5, <2>9 DEF ProbeSound, SingleFlight
    <3> QED BY <1>3, <2>2, <2>6, <2>8, <2>9, <3>1, <3>2 DEF ProbeSound, SingleFlight
  <2> QED BY <2>10, <2>11 DEF ProbeSound
<1> QED BY <1>2, <1>3

\* A probe runs, records and leaves the map.
LEMMA ProbeStepKept ==
    ASSUME ProbeSound, Clock, NEW p \in Probes, ProbeStep(p)
    PROVE  ProbeSound'
<1>1. probe[p] \in ProbeStates(world.time) /\ probe \in [Probes -> ProbeStates(world.time)]
  BY DEF ProbeSound, ProbesTyped
<1>2. CASE ProbeAcquire(p)
  <2> DEFINE r == [probe[p] EXCEPT !.pc = "running", !.since = now]
  <2>1. probe' = [probe EXCEPT ![p] = r] /\ UNCHANGED <<world, inflight, query>> /\ Live(p)
    BY <1>2 DEF ProbeAcquire, Live
  <2>2. r \in ProbeStates(world.time) /\ r.pc = "running" /\ r.url = probe[p].url
    BY <1>1 DEF ProbeStates, Clock
  <2> HIDE DEF r
  <2> QED BY <2>1, <2>2, ProbeMoves
<1>3. ASSUME NEW s \in world.outcomes, NEW at \in 0..now,
             NEW k \in {None} \cup {KeyOf[u] : u \in Urls}, ProbeResult(p, s, at, k)
      PROVE  ProbeSound'
  <2> DEFINE z == Status(s, at, k)
             r == [probe[p] EXCEPT !.pc = "record", !.status = z]
  <2>1. probe' = [probe EXCEPT ![p] = r] /\ UNCHANGED <<world, inflight, query>> /\ Live(p)
    BY <1>3 DEF ProbeResult, Live
  <2>2. z \in Statuses(world.time)
    <3>1. at \in 0..world.time
      BY Bounds DEF Clock
    <3> QED BY <3>1, Bounds DEF Status, Statuses, Keys
  <2> HIDE DEF z
  <2>3. r \in ProbeStates(world.time) /\ r.pc = "record" /\ r.url = probe[p].url
    BY <1>1, <2>2 DEF ProbeStates
  <2> HIDE DEF r
  <2> QED BY <2>1, <2>3, ProbeMoves
<1>4. CASE ProbeRecord(p)
  <2> DEFINE r == [probe[p] EXCEPT !.pc = "remove"]
  <2>1. probe' = [probe EXCEPT ![p] = r] /\ UNCHANGED <<world, inflight, query>> /\ Live(p)
    BY <1>4 DEF ProbeRecord, Live
  <2>2. r \in ProbeStates(world.time) /\ r.pc = "remove" /\ r.url = probe[p].url
    BY <1>1 DEF ProbeStates
  <2> HIDE DEF r
  <2> QED BY <2>1, <2>2, ProbeMoves
<1>5. CASE ProbeRemove(p)
  <2> DEFINE u == probe[p].url
             r == [probe[p] EXCEPT !.pc = "done"]
  <2>1. probe' = [probe EXCEPT ![p] = r] /\ UNCHANGED <<world, query>> /\ Live(p)
        /\ inflight' = [w \in DOMAIN inflight \ {u} |-> inflight[w]]
    BY <1>5 DEF ProbeRemove, Live
  <2>2. r \in ProbeStates(world.time) /\ r.pc = "done"
    BY <1>1 DEF ProbeStates
  <2> HIDE DEF r
  <2>3. /\ probe' \in [Probes -> ProbeStates(world.time)] /\ probe'[p] = r
        /\ \A x \in Probes : x # p => probe'[x] = probe[x]
    BY <1>1, <2>1, <2>2
  <2>4. ~ Live(p)' /\ \A x \in Probes : x # p => (Live(x)' <=> Live(x))
    BY <2>2, <2>3 DEF Live
  <2>5. DOMAIN inflight \subseteq Urls /\ inflight \in [DOMAIN inflight -> Probes]
    BY DEF ProbeSound, ProbesTyped
  <2>6. DOMAIN inflight' = DOMAIN inflight \ {u} /\ inflight' \in [DOMAIN inflight' -> Probes]
        /\ \A w \in DOMAIN inflight' : inflight'[w] = inflight[w]
    BY <2>1, <2>5
  <2>7. ProbesTyped'
    BY <2>1, <2>3, <2>4, <2>5, <2>6 DEF ProbeSound, ProbesTyped
  <2>8. SingleFlight'
    <3>1. \A x \in Probes : x # p /\ Live(x) => probe[x].url # u
      BY <2>1 DEF ProbeSound, SingleFlight
    <3>2. \A w \in DOMAIN inflight' : inflight[w] \in Probes /\ inflight[w] # p
      BY <2>1, <2>5, <2>6 DEF ProbeSound, SingleFlight
    <3> QED BY <2>3, <2>4, <2>6, <3>1, <3>2 DEF ProbeSound, SingleFlight
  <2> QED BY <2>7, <2>8 DEF ProbeSound
<1> QED BY <1>2, <1>3, <1>4, <1>5 DEF ProbeStep

\* A crash leaves no probe and no caller.
LEMMA CrashProbes ==
    ASSUME Clock, Crash
    PROVE  ProbeSound'
<1>1. /\ probe' = [p \in Probes |-> IdleProbe] /\ query' = [q \in Queries |-> IdleQuery]
      /\ inflight' = [u \in {} |-> 0] /\ world' = world
  BY DEF Crash
<1>2. IdleProbe \in ProbeStates(world.time) /\ IdleProbe.pc = "idle"
  BY IdleProbeTyped DEF IdleProbe
<1>3. IdleQuery \in QueryStates /\ IdleQuery.pc = "idle"
  BY DEF IdleQuery, QueryStates, Answer, NoStatus, Status, States
<1>4. ProbesTyped'
  BY <1>1, <1>2, <1>3 DEF ProbesTyped, Live
<1>5. SingleFlight'
  BY <1>1, <1>2 DEF SingleFlight, Live
<1> QED BY <1>4, <1>5 DEF ProbeSound

(***************************************************************************)
(* Stacks and their tasks                                                  *)
(***************************************************************************)
\* A map of tasks is a function on some of the URLs.
LEMMA TaskMapIs ==
    ASSUME NEW t, NEW f
    PROVE  f \in TaskMaps(t) <=> (DOMAIN f \subseteq Urls /\ f \in [DOMAIN f -> Tasks(t)])
<1>1. ASSUME f \in TaskMaps(t) PROVE DOMAIN f \subseteq Urls /\ f \in [DOMAIN f -> Tasks(t)]
  <2>1. PICK S \in SUBSET Urls : f \in [S -> Tasks(t)]
    BY <1>1 DEF TaskMaps
  <2> QED BY <2>1
<1>2. ASSUME DOMAIN f \subseteq Urls, f \in [DOMAIN f -> Tasks(t)] PROVE f \in TaskMaps(t)
  <2>1. [DOMAIN f -> Tasks(t)] \in {[S -> Tasks(t)] : S \in SUBSET Urls}
    BY <1>2
  <2> QED BY <1>2, <2>1 DEF TaskMaps
<1> QED BY <1>1, <1>2

\* A stack that is down.
LEMMA DownStackIs ==
    ASSUME NEW t, NEW keep \in SUBSET Urls
    PROVE  /\ DownStack(keep) \in StackStates(t) /\ DOMAIN DownStack(keep).tasks = {}
           /\ DownStack(keep).unpin = None /\ ~ DownStack(keep).up /\ DownStack(keep).pc = "idle"
           /\ \A b : Walk(DownStack(keep), b)
<1>1. DOMAIN NoTasks = {} /\ NoTasks \in [DOMAIN NoTasks -> Tasks(t)]
  BY DEF NoTasks
<1>2. NoTasks \in TaskMaps(t)
  BY <1>1, TaskMapIs
<1>3. /\ DownStack(keep).tasks = NoTasks /\ DownStack(keep).unpin = None
      /\ DownStack(keep).up = FALSE /\ DownStack(keep).pc = "idle"
  BY DEF DownStack
<1>4. DownStack(keep) \in StackStates(t)
  BY <1>2 DEF DownStack, StackStates
<1> QED BY <1>1, <1>3, <1>4 DEF Walk

\* The end of a walk keeps tasks and the pending unpin.
LEMMA AdvanceIs ==
    ASSUME NEW t, NEW st \in StackStates(t), NEW b, Walk(st, b)
    PROVE  /\ Advance(st) \in StackStates(t) /\ Walk(Advance(st), b)
           /\ DOMAIN Advance(st).tasks = DOMAIN st.tasks /\ Advance(st).unpin = st.unpin
<1> DEFINE Stopped == st.pc = "stop" /\ st.stops = {} /\ st.unpin = None
           Down == st.pc = "down" /\ st.stops = {} /\ st.unpin = None
           Started == st.pc = "start" /\ st.starts = {}
<1>0. st.keep \in SUBSET Urls
  BY DEF StackStates
<1>1. CASE Stopped
  <2> DEFINE c == IF st.starts = {} THEN "idle" ELSE "start"
             r == [st EXCEPT !.keep = st.next, !.pc = c]
  <2>1. Advance(st) = r
    BY <1>1 DEF Advance
  <2>2. /\ r \in StackStates(t) /\ r.keep = st.next /\ r.pc = c /\ r.tasks = st.tasks
        /\ r.unpin = st.unpin /\ r.starts = st.starts /\ r.up = st.up
    BY DEF StackStates
  <2> HIDE DEF r
  <2>3. Walk(r, b)
    BY <1>1, <2>2 DEF Walk
  <2> QED BY <2>1, <2>2, <2>3
<1>2. CASE Down
  <2>1. Advance(st) = DownStack(st.keep)
    BY <1>2 DEF Advance
  <2>2. DOMAIN st.tasks = {}
    BY <1>2 DEF Walk
  <2> QED BY <1>0, <1>2, <2>1, <2>2, DownStackIs
<1>3. CASE Started
  <2> DEFINE r == [st EXCEPT !.pc = "idle"]
  <2>1. Advance(st) = r
    BY <1>3 DEF Advance
  <2>2. /\ r \in StackStates(t) /\ r.keep = st.keep /\ r.pc = "idle" /\ r.tasks = st.tasks
        /\ r.unpin = st.unpin /\ r.up = st.up
    BY DEF StackStates
  <2> HIDE DEF r
  <2>3. Walk(r, b)
    BY <1>3, <2>2 DEF Walk
  <2> QED BY <2>1, <2>2, <2>3
<1>4. CASE ~ Stopped /\ ~ Down /\ ~ Started
  <2>1. Advance(st) = st
    BY <1>4 DEF Advance
  <2> QED BY <2>1
<1> QED BY <1>1, <1>2, <1>3, <1>4

(***************************************************************************)
(* Counting owners                                                         *)
(***************************************************************************)
In(x, S) == IF x \in S THEN 1 ELSE 0

\* The stacks with a task for u, and those with one to unpin.
Taskers(u) == {s \in Stacks : u \in DOMAIN stack[s].tasks}
Unpinners(u) == {s \in Stacks : stack[s].unpin = u}

\* Counts are numbers, and an owner counts.
LEMMA OwnersIs ==
    ASSUME NEW u
    PROVE  /\ Owners(u) = Cardinality(Taskers(u)) + Cardinality(Unpinners(u))
           /\ IsFiniteSet(Taskers(u)) /\ IsFiniteSet(Unpinners(u))
           /\ Cardinality(Taskers(u)) \in Nat /\ Cardinality(Unpinners(u)) \in Nat
           /\ Owners(u) \in Nat
           /\ \A s \in Stacks : stack[s].unpin = u => Owners(u) >= 1
<1>1. Owners(u) = Cardinality(Taskers(u)) + Cardinality(Unpinners(u))
  BY DEF Owners, Taskers, Unpinners
<1>2. IsFiniteSet(Taskers(u)) /\ IsFiniteSet(Unpinners(u))
  BY UrlAssumption, FS_Subset DEF Taskers, Unpinners
<1>3. Cardinality(Taskers(u)) \in Nat /\ Cardinality(Unpinners(u)) \in Nat
  BY <1>2, FS_CardinalityType
<1>4. ASSUME NEW s \in Stacks, stack[s].unpin = u PROVE Cardinality(Unpinners(u)) # 0
  <2>1. s \in Unpinners(u)
    BY <1>4 DEF Unpinners
  <2> QED BY <1>2, <2>1, FS_EmptySet
<1> QED BY <1>1, <1>2, <1>3, <1>4

\* One element in or out of a finite set.
LEMMA CountStep ==
    ASSUME NEW S, NEW R, NEW x, IsFiniteSet(S), \A y : y # x => (y \in R <=> y \in S)
    PROVE  Cardinality(R) = Cardinality(S) + In(x, R) - In(x, S)
<1>1. Cardinality(S) \in Nat
  BY FS_CardinalityType
<1>2. CASE x \in R /\ x \notin S
  <2>1. R = S \cup {x}
    BY <1>2
  <2>2. Cardinality(R) = Cardinality(S) + 1
    BY <1>2, <2>1, FS_AddElement
  <2> QED BY <1>1, <1>2, <2>2 DEF In
<1>3. CASE x \notin R /\ x \in S
  <2>1. R = S \ {x}
    BY <1>3
  <2>2. Cardinality(R) = Cardinality(S) - 1
    BY <1>3, <2>1, FS_RemoveElement
  <2> QED BY <1>1, <1>3, <2>2 DEF In
<1>4. CASE x \in R <=> x \in S
  <2>1. R = S
    BY <1>4
  <2> QED BY <1>1, <2>1 DEF In
<1> QED BY <1>2, <1>3, <1>4

\* Owners(u), as a function of the stacks.
OwnersIn(f, u) ==
    Cardinality({s \in Stacks : u \in DOMAIN f[s].tasks}) + Cardinality({s \in Stacks : f[s].unpin = u})

\* How a change of one stack changes the owners of a URL.
LEMMA OwnersStep ==
    ASSUME StacksTyped, NEW s \in Stacks, NEW r, stack' = [stack EXCEPT ![s] = r], NEW u
    PROVE  OwnersIn(stack', u)
             = Owners(u) + In(u, DOMAIN r.tasks) - In(u, DOMAIN stack[s].tasks)
                                  + In(u, {r.unpin}) - In(u, {stack[s].unpin})
<1>1. stack'[s] = r /\ \A x \in Stacks : x # s => stack'[x] = stack[x]
  BY DEF StacksTyped
<1> DEFINE T == Taskers(u)
           V == Unpinners(u)
           T2 == {x \in Stacks : u \in DOMAIN stack'[x].tasks}
           V2 == {x \in Stacks : stack'[x].unpin = u}
<1>2. OwnersIn(stack', u) = Cardinality(T2) + Cardinality(V2)
  BY DEF OwnersIn
<1>3. Owners(u) = Cardinality(T) + Cardinality(V) /\ IsFiniteSet(T) /\ IsFiniteSet(V)
      /\ Cardinality(T) \in Nat /\ Cardinality(V) \in Nat
  BY OwnersIs
<1>4. /\ \A y : y # s => (y \in T2 <=> y \in T)
      /\ \A y : y # s => (y \in V2 <=> y \in V)
      /\ (s \in T2 <=> u \in DOMAIN r.tasks) /\ (s \in T <=> u \in DOMAIN stack[s].tasks)
      /\ (s \in V2 <=> r.unpin = u) /\ (s \in V <=> stack[s].unpin = u)
  BY <1>1 DEF Taskers, Unpinners
<1> HIDE DEF T, V, T2, V2
<1>5. Cardinality(T2) = Cardinality(T) + In(s, T2) - In(s, T)
  BY <1>3, <1>4, CountStep
<1>6. Cardinality(V2) = Cardinality(V) + In(s, V2) - In(s, V)
  BY <1>3, <1>4, CountStep
<1>7. /\ In(s, T2) = In(u, DOMAIN r.tasks) /\ In(s, T) = In(u, DOMAIN stack[s].tasks)
      /\ In(s, V2) = In(u, {r.unpin}) /\ In(s, V) = In(u, {stack[s].unpin})
  BY <1>4 DEF In
<1>8. \A x, S : In(x, S) \in {0, 1}
  BY DEF In
<1> QED BY <1>2, <1>3, <1>5, <1>6, <1>7, <1>8

(***************************************************************************)
(* Steps of a stack                                                        *)
(***************************************************************************)
StackSound == StacksTyped /\ WalksSound /\ pins \in [Urls -> Nat] /\ PinsCounted

\* A stack, and what its pins are for.
LEMMA StackIs ==
    ASSUME StackSound, NEW s \in Stacks
    PROVE  /\ stack[s] \in StackStates(world.time) /\ Walk(stack[s], world.cancels)
           /\ stack[s].keep \in SUBSET Urls /\ stack[s].unpin \in Urls \cup {None}
           /\ stack[s].stops \in SUBSET Urls /\ stack[s].starts \in SUBSET Urls
           /\ DOMAIN stack[s].tasks \subseteq Urls /\ stack[s].tasks \in TaskMaps(world.time)
           /\ stack[s].tasks \in [DOMAIN stack[s].tasks -> Tasks(world.time)]
<1>1. stack[s] \in StackStates(world.time) /\ Walk(stack[s], world.cancels)
  BY DEF StackSound, StacksTyped, WalksSound
<1>2. stack[s].tasks \in TaskMaps(world.time)
  BY <1>1 DEF StackStates
<1>3. DOMAIN stack[s].tasks \subseteq Urls
      /\ stack[s].tasks \in [DOMAIN stack[s].tasks -> Tasks(world.time)]
  BY <1>2, TaskMapIs
<1> QED BY <1>1, <1>2, <1>3 DEF StackStates

\* The pins cover the owners, and match them where nothing is cut off.
Covered(p, n) == p >= n /\ (world.cancels = 0 => p = n)

\* A stack is replaced by a sound one.
LEMMA StackReplaced ==
    ASSUME StackSound, NEW s \in Stacks, NEW r \in StackStates(world.time), Walk(r, world.cancels),
           stack' = [stack EXCEPT ![s] = r], world' = world, pins' \in [Urls -> Nat],
           \A u \in Urls : Covered(pins'[u], Owners(u) + In(u, DOMAIN r.tasks)
                             - In(u, DOMAIN stack[s].tasks) + In(u, {r.unpin})
                             - In(u, {stack[s].unpin}))
    PROVE  StackSound'
<1>1. stack \in [Stacks -> StackStates(world.time)]
  BY DEF StackSound, StacksTyped
<1>2. stack' \in [Stacks -> StackStates(world.time)] /\ stack'[s] = r
      /\ \A x \in Stacks : x # s => stack'[x] = stack[x]
  BY <1>1
<1>3. StacksTyped' /\ WalksSound'
  BY <1>2 DEF StackSound, StacksTyped, WalksSound
<1>4. \A u \in Urls : Covered(pins'[u], OwnersIn(stack', u))
  <2>1. StacksTyped
    BY DEF StackSound
  <2>2. ASSUME NEW u \in Urls PROVE Covered(pins'[u], OwnersIn(stack', u))
    <3>1. OwnersIn(stack', u)
            = Owners(u) + In(u, DOMAIN r.tasks) - In(u, DOMAIN stack[s].tasks)
                                 + In(u, {r.unpin}) - In(u, {stack[s].unpin})
      BY <2>1, OwnersStep
    <3> QED BY <3>1
  <2> QED BY <2>2
<1>5. PinsCounted'
  BY <1>4 DEF Covered, PinsCounted, Owners, OwnersIn
<1> QED BY <1>3, <1>5 DEF StackSound

\* The same for a walk that may end with this step.
LEMMA StackSet ==
    ASSUME StackSound, NEW s \in Stacks, NEW st \in StackStates(world.time), Walk(st, world.cancels),
           SetStack(s, st), world' = world, pins' \in [Urls -> Nat],
           \A u \in Urls : Covered(pins'[u], Owners(u) + In(u, DOMAIN st.tasks)
                             - In(u, DOMAIN stack[s].tasks) + In(u, {st.unpin})
                             - In(u, {stack[s].unpin}))
    PROVE  StackSound'
<1> DEFINE r == Advance(st)
<1>1. /\ r \in StackStates(world.time) /\ Walk(r, world.cancels)
      /\ DOMAIN r.tasks = DOMAIN st.tasks /\ r.unpin = st.unpin
  BY AdvanceIs
<1>2. stack' = [stack EXCEPT ![s] = r]
  BY DEF SetStack
<1> HIDE DEF r
<1> QED BY <1>1, <1>2, StackReplaced

\* Nothing changes for the owners of a URL.
LEMMA CoveredStays ==
    ASSUME StackSound, NEW u \in Urls, NEW a, NEW b
    PROVE  Covered(pins[u], Owners(u) + In(u, a) - In(u, a) + In(u, b) - In(u, b))
<1>1. Owners(u) \in Nat /\ In(u, a) \in {0, 1} /\ In(u, b) \in {0, 1}
  BY OwnersIs DEF In
<1>2. Owners(u) + In(u, a) - In(u, a) + In(u, b) - In(u, b) = Owners(u)
  BY <1>1
<1> QED BY <1>2 DEF StackSound, PinsCounted, Covered

\* A step that leaves the stacks and the pins alone.
LEMMA StacksStay ==
    ASSUME StackSound, UNCHANGED <<world, stack, pins>>
    PROVE  StackSound'
BY DEF StackSound, StacksTyped, WalksSound, PinsCounted, Owners

\* Starts, updates and shutdowns begin a walk and touch no task.
LEMMA WalkBegins ==
    ASSUME StackSound, Clock, NEW s \in Stacks,
           \/ StackStart(s) \/ StackShutdown(s)
           \/ \E keep \in SUBSET world.urls : StackUpdate(s, keep)
    PROVE  StackSound'
<1> DEFINE c == stack[s]
<1>1. c \in StackStates(world.time) /\ Walk(c, world.cancels) /\ UNCHANGED <<world, pins>>
      /\ DOMAIN c.tasks \subseteq Urls
  BY StackIs DEF StackStart, StackShutdown, StackUpdate
<1>2. pins' \in [Urls -> Nat]
  BY <1>1 DEF StackSound
<1>3. ASSUME NEW st \in StackStates(world.time), Walk(st, world.cancels), SetStack(s, st),
             st.tasks = c.tasks, st.unpin = c.unpin
      PROVE  StackSound'
  <2>1. \A u \in Urls : Covered(pins'[u], Owners(u) + In(u, DOMAIN st.tasks)
                          - In(u, DOMAIN c.tasks) + In(u, {st.unpin}) - In(u, {c.unpin}))
    <3>1. ASSUME NEW u \in Urls
          PROVE  Covered(pins[u], Owners(u) + In(u, DOMAIN c.tasks) - In(u, DOMAIN c.tasks)
                                  + In(u, {c.unpin}) - In(u, {c.unpin}))
      BY CoveredStays
    <3> QED BY <1>1, <1>3, <3>1
  <2> QED BY <1>1, <1>2, <1>3, <2>1, StackSet
<1>4. CASE StackStart(s)
  <2> DEFINE st == [c EXCEPT !.up = TRUE, !.pc = "start", !.starts = c.keep]
  <2>1. SetStack(s, st) /\ ~ c.up
    BY <1>4 DEF StackStart
  <2>2. /\ st \in StackStates(world.time) /\ st.tasks = c.tasks /\ st.unpin = c.unpin
        /\ st.up /\ st.pc = "start" /\ st.starts = c.keep /\ st.keep = c.keep
    BY <1>1 DEF StackStates
  <2> HIDE DEF st
  <2>3. Walk(st, world.cancels)
    BY <1>1, <2>1, <2>2 DEF Walk
  <2> QED BY <1>3, <2>1, <2>2, <2>3
<1>5. CASE StackShutdown(s)
  <2> DEFINE d == DOMAIN c.tasks
             st == [c EXCEPT !.pc = "down", !.stops = d]
  <2>1. SetStack(s, st) /\ c.up
    BY <1>5 DEF StackShutdown
  <2>2. /\ st \in StackStates(world.time) /\ st.tasks = c.tasks /\ st.unpin = c.unpin
        /\ st.up = c.up /\ st.pc = "down" /\ st.stops = DOMAIN c.tasks
    BY <1>1 DEF StackStates
  <2> HIDE DEF st
  <2>3. Walk(st, world.cancels)
    BY <2>1, <2>2 DEF Walk
  <2> QED BY <1>3, <2>1, <2>2, <2>3
<1>6. ASSUME NEW keep \in SUBSET world.urls, StackUpdate(s, keep) PROVE StackSound'
  <2> DEFINE st == [c EXCEPT !.pc = "stop", !.next = keep, !.stops = c.keep \ keep,
                             !.starts = keep \ c.keep]
  <2>0. keep \in SUBSET Urls
    BY Bounds
  <2>1. SetStack(s, st) /\ c.up /\ c.pc = "idle"
    BY <1>6 DEF StackUpdate
  <2>2. /\ st \in StackStates(world.time) /\ st.tasks = c.tasks /\ st.unpin = c.unpin
        /\ st.up = c.up /\ st.pc = "stop" /\ st.stops = c.keep \ keep /\ st.starts = keep \ c.keep
        /\ st.next = keep /\ st.keep = c.keep
    BY <1>1, <2>0 DEF StackStates
  <2> HIDE DEF st
  <2>3. Walk(st, world.cancels)
    BY <1>1, <2>1, <2>2 DEF Walk
  <2> QED BY <1>3, <2>1, <2>2, <2>3
<1> QED BY <1>4, <1>5, <1>6

\* A task is stopped: its pin waits for the unpin.
LEMMA StopTaskKept ==
    ASSUME StackSound, NEW s \in Stacks, NEW u \in Urls, StopTask(s, u)
    PROVE  StackSound'
<1> DEFINE c == stack[s]
           f == [w \in DOMAIN c.tasks \ {u} |-> c.tasks[w]]
           n == IF u \in DOMAIN c.tasks THEN u ELSE None
           st == [c EXCEPT !.stops = @ \ {u}, !.tasks = f, !.unpin = n]
<1>1. c \in StackStates(world.time) /\ Walk(c, world.cancels) /\ UNCHANGED <<world, pins>>
      /\ c.pc \in {"stop", "down"} /\ c.unpin = None /\ u \in c.stops /\ SetStack(s, st)
  BY StackIs DEF StopTask
<1>2. DOMAIN f = DOMAIN c.tasks \ {u} /\ f \in [DOMAIN f -> Tasks(world.time)] /\ DOMAIN f \subseteq Urls
  BY StackIs
<1>3. f \in TaskMaps(world.time)
  BY <1>2, TaskMapIs
<1>a. n \in Urls \cup {None}
  OBVIOUS
<1> HIDE DEF f, n
<1>4. /\ st \in StackStates(world.time) /\ st.tasks = f /\ st.unpin = n /\ st.stops = c.stops \ {u}
      /\ st.pc = c.pc /\ st.up = c.up /\ st.keep = c.keep /\ st.next = c.next /\ st.starts = c.starts
  BY <1>1, <1>3, <1>a DEF StackStates
<1> HIDE DEF st
<1>5. Walk(st, world.cancels)
  BY <1>1, <1>2, <1>4 DEF Walk
<1>6. pins' \in [Urls -> Nat]
  BY <1>1 DEF StackSound
<1>7. ASSUME NEW w \in Urls
      PROVE  Covered(pins'[w], Owners(w) + In(w, DOMAIN st.tasks) - In(w, DOMAIN c.tasks)
                               + In(w, {st.unpin}) - In(w, {c.unpin}))
  <2>1. Owners(w) \in Nat /\ None # w
    BY OwnersIs, UrlAssumption
  <2>2. In(w, DOMAIN st.tasks) + In(w, {st.unpin}) = In(w, DOMAIN c.tasks)
    BY <1>2, <1>4, <2>1 DEF n, In
  <2>3. In(w, {c.unpin}) = 0
    BY <1>1, <2>1 DEF In
  <2>4. \A x, S : In(x, S) \in {0, 1}
    BY DEF In
  <2>5. Owners(w) + In(w, DOMAIN st.tasks) - In(w, DOMAIN c.tasks)
          + In(w, {st.unpin}) - In(w, {c.unpin}) = Owners(w)
    BY <2>1, <2>2, <2>3, <2>4
  <2>6. Covered(pins[w], Owners(w))
    BY DEF StackSound, PinsCounted, Covered
  <2> QED BY <1>1, <2>5, <2>6
<1> QED BY <1>1, <1>4, <1>5, <1>6, <1>7, StackSet

\* The pin of a stopped task goes.
LEMMA UnpinTaskKept ==
    ASSUME StackSound, NEW s \in Stacks, UnpinTask(s)
    PROVE  StackSound'
<1> DEFINE c == stack[s]
           u == c.unpin
           st == [c EXCEPT !.unpin = None]
<1>1. c \in StackStates(world.time) /\ Walk(c, world.cancels) /\ world' = world
      /\ u \in Urls /\ Unpin(u) /\ SetStack(s, st)
  BY StackIs DEF UnpinTask
<1>2. /\ st \in StackStates(world.time) /\ st.tasks = c.tasks /\ st.unpin = None
      /\ st.stops = c.stops /\ st.pc = c.pc /\ st.up = c.up /\ st.keep = c.keep /\ st.next = c.next
      /\ st.starts = c.starts
  BY <1>1 DEF StackStates
<1> HIDE DEF st
<1>3. Walk(st, world.cancels)
  BY <1>1, <1>2 DEF Walk
<1>4. pins \in [Urls -> Nat] /\ pins[u] >= Owners(u) /\ Owners(u) >= 1 /\ Owners(u) \in Nat
  BY <1>1, OwnersIs DEF StackSound, PinsCounted
<1>5. pins' = [pins EXCEPT ![u] = @ - 1]
  BY <1>1, <1>4 DEF Unpin
<1>6. pins' \in [Urls -> Nat] /\ pins'[u] = pins[u] - 1 /\ \A w \in Urls : w # u => pins'[w] = pins[w]
  BY <1>1, <1>4, <1>5
<1>7. ASSUME NEW w \in Urls
      PROVE  Covered(pins'[w], Owners(w) + In(w, DOMAIN st.tasks) - In(w, DOMAIN c.tasks)
                               + In(w, {st.unpin}) - In(w, {c.unpin}))
  <2>1. Owners(w) \in Nat /\ None # w /\ pins[w] \in Nat
    BY <1>4, OwnersIs, UrlAssumption
  <2>2. In(w, {st.unpin}) = 0 /\ In(w, DOMAIN st.tasks) = In(w, DOMAIN c.tasks)
        /\ In(w, {c.unpin}) = IF w = u THEN 1 ELSE 0
    BY <1>2, <2>1 DEF In
  <2>3. \A x, S : In(x, S) \in {0, 1}
    BY DEF In
  <2>4. Owners(w) + In(w, DOMAIN st.tasks) - In(w, DOMAIN c.tasks)
          + In(w, {st.unpin}) - In(w, {c.unpin}) = Owners(w) - (IF w = u THEN 1 ELSE 0)
    BY <2>1, <2>2, <2>3
  <2>5. Covered(pins[w], Owners(w))
    BY DEF StackSound, PinsCounted, Covered
  <2>6. pins'[w] = pins[w] - (IF w = u THEN 1 ELSE 0)
    BY <1>6, <2>1
  <2> QED BY <2>1, <2>4, <2>5, <2>6 DEF Covered
<1> QED BY <1>1, <1>2, <1>3, <1>6, <1>7, StackSet

\* A task is started with its pin.
LEMMA StartTaskKept ==
    ASSUME StackSound, Clock, NEW s \in Stacks, NEW u \in Urls, StartTask(s, u)
    PROVE  StackSound'
<1> DEFINE c == stack[s]
           k == [missed |-> 0, since |-> Asleep]
           f == With(c.tasks, u, k)
           st == [c EXCEPT !.starts = @ \ {u}, !.tasks = f]
<1>1. c \in StackStates(world.time) /\ Walk(c, world.cancels) /\ world' = world
      /\ c.pc = "start" /\ u \in c.starts /\ Pin(u) /\ SetStack(s, st)
  BY StackIs DEF StartTask
<1>2. k \in Tasks(world.time)
  BY LimitAssumption DEF Tasks
<1>3. c.tasks \in [DOMAIN c.tasks -> Tasks(world.time)] /\ DOMAIN c.tasks \subseteq Urls
  BY StackIs
<1> HIDE DEF k
<1>4. DOMAIN f = DOMAIN c.tasks \cup {u} /\ f \in [DOMAIN f -> Tasks(world.time)]
  BY <1>2, <1>3, WithTyped, WithIs
<1>5. f \in TaskMaps(world.time)
  BY <1>3, <1>4, TaskMapIs
<1> HIDE DEF f
<1>6. /\ st \in StackStates(world.time) /\ st.tasks = f /\ st.unpin = c.unpin
      /\ st.stops = c.stops /\ st.pc = c.pc /\ st.up = c.up /\ st.keep = c.keep /\ st.next = c.next
      /\ st.starts = c.starts \ {u}
  BY <1>1, <1>5 DEF StackStates
<1> HIDE DEF st
<1>7. Walk(st, world.cancels)
  BY <1>1, <1>4, <1>6 DEF Walk
<1>8. pins \in [Urls -> Nat] /\ pins' = [pins EXCEPT ![u] = @ + 1]
  BY <1>1 DEF StackSound, Pin
<1>9. pins' \in [Urls -> Nat] /\ pins'[u] = pins[u] + 1 /\ \A w \in Urls : w # u => pins'[w] = pins[w]
  BY <1>8
<1>10. ASSUME NEW w \in Urls
       PROVE  Covered(pins'[w], Owners(w) + In(w, DOMAIN st.tasks) - In(w, DOMAIN c.tasks)
                                + In(w, {st.unpin}) - In(w, {c.unpin}))
  <2>1. Owners(w) \in Nat /\ pins[w] \in Nat /\ \A x, S : In(x, S) \in {0, 1}
    BY <1>8, OwnersIs DEF In
  <2>2. In(w, {st.unpin}) = In(w, {c.unpin})
    BY <1>6
  <2>3. In(w, DOMAIN st.tasks) - In(w, DOMAIN c.tasks)
          = IF w = u /\ u \notin DOMAIN c.tasks THEN 1 ELSE 0
    BY <1>4, <1>6 DEF In
  <2>4. Owners(w) + In(w, DOMAIN st.tasks) - In(w, DOMAIN c.tasks)
          + In(w, {st.unpin}) - In(w, {c.unpin})
          = Owners(w) + (IF w = u /\ u \notin DOMAIN c.tasks THEN 1 ELSE 0)
    BY <2>1, <2>2, <2>3
  <2>5. Covered(pins[w], Owners(w))
    BY DEF StackSound, PinsCounted, Covered
  <2>6. pins'[w] = pins[w] + (IF w = u THEN 1 ELSE 0)
    BY <1>9, <2>1
  <2>7. world.cancels = 0 => u \notin DOMAIN c.tasks
    BY <1>1 DEF Walk
  <2> QED BY <2>1, <2>4, <2>5, <2>6, <2>7 DEF Covered
<1> QED BY <1>1, <1>6, <1>7, <1>9, <1>10, StackSet

\* A walk is cut off: its stack is up with the tasks it had, or down.
LEMMA StackCancelKept ==
    ASSUME StackSound, NEW s \in Stacks, StackCancel(s), world.cancels \in Nat
    PROVE  StackSound'
<1> DEFINE c == stack[s]
           d == DownStack(c.keep)
           f == IF c.pc = "down" THEN NoTasks ELSE c.tasks
           b == IF c.pc = "down" THEN FALSE ELSE TRUE
           r == [d EXCEPT !.up = b, !.tasks = f]
<1>1. c \in StackStates(world.time) /\ Walk(c, world.cancels) /\ UNCHANGED <<world, pins>>
      /\ c.pc # "idle" /\ c.keep \in SUBSET Urls /\ c.tasks \in TaskMaps(world.time)
  BY StackIs DEF StackCancel
<1>2. d \in StackStates(world.time) /\ d.unpin = None /\ d.pc = "idle" /\ d.keep = c.keep
      /\ d.tasks = NoTasks /\ d.up = FALSE
  BY <1>1, DownStackIs DEF DownStack
<1>3. stack' = [stack EXCEPT ![s] = r]
  <2>1. CASE c.pc = "down"
    <3>1. b = FALSE /\ f = d.tasks /\ d.up = FALSE
      BY <1>2, <2>1
    <3>2. r = d
      BY <3>1 DEF DownStack
    <3> QED BY <2>1, <3>2 DEF StackCancel
  <2>2. CASE c.pc # "down"
    <3>1. r = [d EXCEPT !.up = TRUE, !.tasks = c.tasks]
      BY <2>2
    <3> QED BY <2>2, <3>1 DEF StackCancel
  <2> QED BY <2>1, <2>2
<1>4. DOMAIN NoTasks = {} /\ NoTasks = d.tasks
  BY <1>2 DEF NoTasks
<1>5. f \in TaskMaps(world.time) /\ b \in BOOLEAN
  BY <1>1, <1>2, <1>4 DEF StackStates
<1>6. (c.pc = "down" => DOMAIN f = {}) /\ (c.pc # "down" => DOMAIN f = DOMAIN c.tasks)
  BY <1>4
<1> HIDE DEF d, f
<1>7. /\ r \in StackStates(world.time) /\ r.tasks = f /\ r.unpin = None /\ r.pc = "idle"
      /\ r.up = b
  BY <1>2, <1>5 DEF StackStates
<1> HIDE DEF r
<1>8. world.cancels # 0
  <2>1. PICK w \in Urls : TRUE
    BY UrlAssumption
  <2>2. pins[w] \in Nat /\ Owners(w) \in Nat /\ pins[w] >= Owners(w)
    BY OwnersIs DEF StackSound, PinsCounted
  <2>3. pins[w] - Owners(w) < world.cancels
    BY DEF StackCancel
  <2> QED BY <2>2, <2>3
<1>9. Walk(r, world.cancels)
  BY <1>6, <1>7, <1>8 DEF Walk
<1>10. pins' \in [Urls -> Nat]
  BY <1>1 DEF StackSound
<1>11. ASSUME NEW w \in Urls
       PROVE  Covered(pins'[w], Owners(w) + In(w, DOMAIN r.tasks) - In(w, DOMAIN c.tasks)
                                + In(w, {r.unpin}) - In(w, {c.unpin}))
  <2>1. Owners(w) \in Nat /\ None # w /\ pins[w] \in Nat /\ pins[w] >= Owners(w)
    BY OwnersIs, UrlAssumption DEF StackSound, PinsCounted
  <2>2. In(w, {r.unpin}) = 0 /\ In(w, DOMAIN r.tasks) <= In(w, DOMAIN c.tasks)
    BY <1>6, <1>7, <2>1 DEF In
  <2>3. \A x, S : In(x, S) \in {0, 1}
    BY DEF In
  <2>4. /\ In(w, DOMAIN r.tasks) \in {0, 1} /\ In(w, DOMAIN c.tasks) \in {0, 1}
        /\ In(w, {c.unpin}) \in {0, 1}
    BY <2>3
  <2>5. pins[w] >= Owners(w) + In(w, DOMAIN r.tasks) - In(w, DOMAIN c.tasks)
                    + In(w, {r.unpin}) - In(w, {c.unpin})
    BY <2>1, <2>2, <2>4
  <2> QED BY <1>1, <1>8, <2>5 DEF Covered
<1> QED BY <1>1, <1>3, <1>7, <1>9, <1>10, <1>11, StackReplaced

\* A task goes on: no task comes or goes.
LEMMA TaskMoves ==
    ASSUME StackSound, NEW s \in Stacks, NEW u \in DOMAIN stack[s].tasks, NEW k \in Tasks(world.time),
           stack' = [stack EXCEPT ![s] = [stack[s] EXCEPT !.tasks = [stack[s].tasks EXCEPT ![u] = k]]],
           UNCHANGED <<world, pins>>
    PROVE  StackSound'
<1> DEFINE c == stack[s]
           f == [c.tasks EXCEPT ![u] = k]
           r == [c EXCEPT !.tasks = f]
<1>1. c \in StackStates(world.time) /\ Walk(c, world.cancels)
      /\ c.tasks \in [DOMAIN c.tasks -> Tasks(world.time)] /\ DOMAIN c.tasks \subseteq Urls
  BY StackIs
<1>2. DOMAIN f = DOMAIN c.tasks /\ f \in [DOMAIN f -> Tasks(world.time)] /\ DOMAIN f \subseteq Urls
  BY <1>1
<1>3. f \in TaskMaps(world.time)
  BY <1>2, TaskMapIs
<1> HIDE DEF f
<1>4. /\ r \in StackStates(world.time) /\ r.tasks = f /\ r.unpin = c.unpin /\ r.stops = c.stops
      /\ r.pc = c.pc /\ r.up = c.up /\ r.keep = c.keep /\ r.next = c.next /\ r.starts = c.starts
  BY <1>1, <1>3 DEF StackStates
<1>5. stack' = [stack EXCEPT ![s] = r]
  BY DEF f
<1> HIDE DEF r
<1>6. Walk(r, world.cancels)
  BY <1>1, <1>2, <1>4 DEF Walk
<1>7. pins' \in [Urls -> Nat]
  BY DEF StackSound
<1>8. ASSUME NEW w \in Urls
      PROVE  Covered(pins'[w], Owners(w) + In(w, DOMAIN r.tasks) - In(w, DOMAIN c.tasks)
                               + In(w, {r.unpin}) - In(w, {c.unpin}))
  <2>1. Covered(pins[w], Owners(w) + In(w, DOMAIN c.tasks) - In(w, DOMAIN c.tasks)
                         + In(w, {c.unpin}) - In(w, {c.unpin}))
    BY CoveredStays
  <2>2. DOMAIN r.tasks = DOMAIN c.tasks /\ r.unpin = c.unpin
    BY <1>2, <1>4
  <2> QED BY <2>1, <2>2
<1> QED BY <1>4, <1>5, <1>6, <1>7, <1>8, StackReplaced

\* A round of a keep-tunnel task begins, and ends.
LEMMA KeepTaskKept ==
    ASSUME StackSound, Clock, NEW s \in Stacks, NEW u \in Urls,
           \/ KeepProbe(s, u)
           \/ \E o \in world.outcomes : \E k \in {None, KeyOf[u]} : KeepRecord(s, u, o, k)
    PROVE  StackSound'
<1> DEFINE c == stack[s]
           old == c.tasks[u]
<1>1. u \in DOMAIN c.tasks /\ UNCHANGED <<world, pins>>
  BY DEF KeepProbe, KeepRecord
<1>2. c \in StackStates(world.time) /\ old \in Tasks(world.time)
  BY <1>1, StackIs
<1>3. stack \in [Stacks -> StackStates(world.time)]
  BY DEF StackSound, StacksTyped
<1>4. CASE KeepProbe(s, u)
  <2> DEFINE k == [old EXCEPT !.since = now]
  <2>1. k \in Tasks(world.time)
    BY <1>2 DEF Tasks, Clock
  <2>2. stack' = [stack EXCEPT ![s] = [c EXCEPT !.tasks = [c.tasks EXCEPT ![u] = k]]]
    BY <1>4 DEF KeepProbe
  <2> HIDE DEF k
  <2> QED BY <1>1, <2>1, <2>2, TaskMoves
<1>5. ASSUME NEW o \in world.outcomes, NEW key \in {None, KeyOf[u]}, KeepRecord(s, u, o, key)
      PROVE  StackSound'
  <2> DEFINE missed == IF o = "Reachable" THEN 0 ELSE old.missed + 1
             k == [missed |-> IF missed >= MaxMissed THEN 0 ELSE missed, since |-> Asleep]
  <2>1. k \in Tasks(world.time)
    BY <1>2, LimitAssumption DEF Tasks
  <2>2. stack' = [stack EXCEPT ![s] = [c EXCEPT !.tasks = [c.tasks EXCEPT ![u] = k]]]
    BY <1>5 DEF KeepRecord
  <2> HIDE DEF k
  <2> QED BY <1>1, <2>1, <2>2, TaskMoves
<1> QED BY <1>4, <1>5

\* Stacks that are down own no pin.
LEMMA DownOwnsNothing ==
    ASSUME NEW f, \A s \in Stacks : DOMAIN f[s].tasks = {} /\ f[s].unpin = None, NEW u \in Urls
    PROVE  OwnersIn(f, u) = 0
<1> DEFINE A == {s \in Stacks : u \in DOMAIN f[s].tasks}
           B == {s \in Stacks : f[s].unpin = u}
<1>1. A = {} /\ B = {}
  BY UrlAssumption
<1>2. OwnersIn(f, u) = Cardinality(A) + Cardinality(B)
  BY DEF OwnersIn
<1> HIDE DEF A, B
<1>3. Cardinality({}) = 0
  BY FS_EmptySet
<1> QED BY <1>1, <1>2, <1>3

\* A crash takes the stacks down and the pins with them.
LEMMA CrashStacks ==
    ASSUME StackSound, Crash
    PROVE  StackSound'
<1>1. stack' = [s \in Stacks |-> DownStack(stack[s].keep)] /\ pins' = [u \in Urls |-> 0] /\ world' = world
  BY DEF Crash
<1>2. ASSUME NEW s \in Stacks
      PROVE  /\ stack'[s] \in StackStates(world.time) /\ Walk(stack'[s], world.cancels)
             /\ DOMAIN stack'[s].tasks = {} /\ stack'[s].unpin = None
  BY <1>1, StackIs, DownStackIs
<1>3. StacksTyped' /\ WalksSound'
  BY <1>1, <1>2 DEF StacksTyped, WalksSound
<1>4. \A u \in Urls : OwnersIn(stack', u) = 0
  BY <1>2, DownOwnsNothing
<1>5. PinsCounted'
  BY <1>1, <1>4 DEF PinsCounted, Owners, OwnersIn
<1> QED BY <1>1, <1>3, <1>5 DEF StackSound

(***************************************************************************)
(* The clock, the observations and the files                               *)
(***************************************************************************)
\* The invariant in the parts the lemmas above speak of.
LEMMA Parts ==
    UInv <=> Clock /\ HistSound /\ ProbeSound /\ ObsTyped /\ StackSound /\ DiskSound
BY DEF UInv, HistSound, ProbeSound, StackSound

\* A step that leaves the clock alone.
LEMMA ClockStays ==
    ASSUME Clock, UNCHANGED <<world, now, crashes>>
    PROVE  Clock'
BY DEF Clock

\* A step that leaves the history and the pins alone.
LEMMA HistStays ==
    ASSUME HistSound, UNCHANGED <<world, hist, pins>>
    PROVE  HistSound' /\ KeepsPinned
BY DEF HistSound, HistTyped, PinFlagAgrees, KeepsPinned

\* A step that leaves the observations alone.
LEMMA ObsStays ==
    ASSUME ObsTyped, UNCHANGED <<world, obs>>
    PROVE  ObsTyped'
BY DEF ObsTyped

\* A step that leaves the files alone.
LEMMA DiskStays ==
    ASSUME DiskSound, UNCHANGED <<world, flush, disk>>
    PROVE  DiskSound'
BY DEF DiskSound, DiskComplete

\* Every observation carries a status of this run.
LEMMA ObsStep ==
    ASSUME Clock, ObsTyped, ObservationStep
    PROVE  ObsTyped'
<1>1. ASSUME NEW u \in world.urls, NEW s \in world.outcomes, Observe(u, s) PROVE ObsTyped'
  <2>1. Status(s, now, None) \in Statuses(world.time)
    BY Bounds DEF Status, Statuses, Clock, Keys
  <2>2. [url |-> u, status |-> Status(s, now, None)] \in Observations(world.time)
    BY <2>1, Bounds DEF Observations
  <2> QED BY <1>1, <2>2 DEF ObsTyped, Observe
<1>2. ASSUME NEW o \in obs, RecordObservation(o) PROVE ObsTyped'
  BY <1>2 DEF ObsTyped, RecordObservation
<1>3. ASSUME NEW u \in Urls, NEW s \in world.outcomes, RecordTunnelLevelEvent(KeyOf[u], s) PROVE ObsTyped'
  BY <1>3 DEF ObsTyped, RecordTunnelLevelEvent
<1>4. ASSUME NEW us, Forget(us) PROVE ObsTyped'
  BY <1>4 DEF ObsTyped, Forget
<1> QED BY <1>1, <1>2, <1>3, <1>4 DEF ObservationStep

FlushStep == FlushBegin \/ FlushWrite \/ FlushRename \/ FlushFail

\* Only a whole file is renamed over the snapshot.
LEMMA DiskStep ==
    ASSUME DiskSound, HistTyped, FlushStep
    PROVE  DiskSound'
<1> DEFINE t == world.time
           F == [pc : {"sleep", "write", "writing", "rename"}, entries : SUBSET Lines(t)]
           D == [file : DiskFiles(t), tmp : DiskFiles(t)]
<1>1. flush \in F /\ disk \in D /\ (flush.pc = "rename" => disk.tmp.kind = "full")
      /\ disk.file.kind # "partial" /\ world' = world
  BY DEF DiskSound, DiskComplete, FlushStep, FlushBegin, FlushWrite, FlushRename, FlushFail
<1>2. SUFFICES /\ flush' \in F /\ disk' \in D /\ (flush'.pc = "rename" => disk'.tmp.kind = "full")
               /\ disk'.file.kind # "partial"
  BY <1>1 DEF DiskSound, DiskComplete
<1>3. CASE FlushBegin
  <2>1. \A u \in DOMAIN hist : [url |-> Redacted[u], entry |-> hist[u]] \in Lines(t)
    BY UrlAssumption DEF HistTyped, Lines
  <2>2. Snapshot \in SUBSET Lines(t)
    BY <2>1 DEF Snapshot
  <2> QED BY <1>1, <1>3, <2>2 DEF FlushBegin
<1>4. CASE FlushWrite /\ flush.pc = "write"
  <2>1. PartialFile \in DiskFiles(t)
    BY DEF PartialFile, DiskFiles
  <2>2. disk' = [disk EXCEPT !.tmp = PartialFile] /\ flush' = [flush EXCEPT !.pc = "writing"]
    BY <1>4 DEF FlushWrite
  <2> QED BY <1>1, <2>1, <2>2
<1>5. CASE FlushWrite /\ flush.pc # "write"
  <2> DEFINE f == [kind |-> "full", entries |-> flush.entries]
  <2>1. f \in DiskFiles(t) /\ f.kind = "full"
    BY <1>1 DEF DiskFiles
  <2>2. disk' = [disk EXCEPT !.tmp = f] /\ flush' = [flush EXCEPT !.pc = "rename"]
    BY <1>5 DEF FlushWrite
  <2> HIDE DEF f
  <2> QED BY <1>1, <2>1, <2>2
<1>6. CASE FlushRename
  <2>1. NoFile \in DiskFiles(t)
    BY DEF NoFile, DiskFiles
  <2> QED BY <1>1, <1>6, <2>1 DEF FlushRename
<1>7. CASE FlushFail
  BY <1>1, <1>7 DEF FlushFail
<1> QED BY <1>3, <1>4, <1>5, <1>6, <1>7 DEF FlushStep

\* A crash leaves the files and forgets the flush.
LEMMA CrashDisk ==
    ASSUME DiskSound, Crash
    PROVE  DiskSound'
<1>1. disk' = disk /\ world' = world /\ flush' = [pc |-> "sleep", entries |-> {}]
  BY DEF Crash
<1> QED BY <1>1 DEF DiskSound, DiskComplete

(***************************************************************************)
(* What a step leaves alone                                                *)
(***************************************************************************)
\* An observation touches the history and the observations only.
LEMMA ObservationFrame ==
    ASSUME ObservationStep
    PROVE  UNCHANGED <<world, now, pins, inflight, probe, query, stack, flush, disk, crashes>>
BY DEF ObservationStep, Observe, RecordObservation, RecordTunnelLevelEvent, Forget

\* A query touches its own record, the probes and the history.
LEMMA QueryFrame ==
    ASSUME NEW q, QueryStep(q)
    PROVE  UNCHANGED <<world, now, pins, obs, stack, flush, disk, crashes>>
BY DEF QueryStep, QueryBegin, QueryLook, QueryUnsupported, QueryStart, QueryAnswered, QueryTimeout,
       QueryEnd

\* A probe touches itself, the map and the history.
LEMMA ProbeFrame ==
    ASSUME NEW p, ProbeStep(p)
    PROVE  UNCHANGED <<world, now, pins, query, obs, stack, flush, disk, crashes>>
BY DEF ProbeStep, ProbeAcquire, ProbeResult, ProbeRecord, ProbeRemove

\* A stack touches itself, the pins and the history.
LEMMA StackFrame ==
    ASSUME NEW s, StackStep(s)
    PROVE  UNCHANGED <<world, now, inflight, probe, query, obs, flush, disk, crashes>>
BY DEF StackStep, StackStart, StackShutdown, StackCancel, UnpinTask, StackUpdate, StopTask, StartTask,
       KeepProbe, KeepRecord

\* The flush loop touches its files only.
LEMMA FlushFrame ==
    ASSUME FlushStep
    PROVE  UNCHANGED <<world, now, hist, pins, inflight, probe, query, obs, stack, crashes>>
BY DEF FlushStep, FlushBegin, FlushWrite, FlushRename, FlushFail

(***************************************************************************)
(* The history in every step                                               *)
(***************************************************************************)
\* A pinned entry goes only where it is invalidated.
Survives ==
    \A u \in DOMAIN hist : hist[u].pinned /\ u \notin DOMAIN hist' => \E us \in {{u}, Urls} : Forget(us)

\* Observations, level events and invalidations keep the history sound.
LEMMA ObservationHist ==
    ASSUME Clock, HistSound, ObsTyped, ObservationStep
    PROVE  HistSound' /\ Survives
<1>1. UNCHANGED <<world, pins>>
  BY ObservationFrame
<1>2. ASSUME NEW u, NEW s, Observe(u, s) PROVE HistSound' /\ Survives
  <2>1. hist' = hist
    BY <1>2 DEF Observe
  <2> QED BY <1>1, <2>1, HistStays DEF Survives
<1>3. ASSUME NEW o \in obs, RecordObservation(o) PROVE HistSound' /\ Survives
  <2>1. o.url \in Urls /\ o.status \in Statuses(world.time)
    BY DEF ObsTyped, Observations
  <2>2. Record(o.url, o.status)
    BY <1>3 DEF RecordObservation
  <2>3. HistSound' /\ KeepsPinned
    BY <1>1, <2>1, <2>2, RecordKept
  <2> QED BY <2>3 DEF KeepsPinned, Survives
<1>4. ASSUME NEW u \in Urls, NEW s \in world.outcomes, RecordTunnelLevelEvent(KeyOf[u], s)
      PROVE  HistSound' /\ Survives
  <2>1. HistSound' /\ KeepsPinned
    BY <1>4, LevelEventKept
  <2> QED BY <2>1 DEF KeepsPinned, Survives
<1>5. ASSUME NEW us \in {{u} : u \in Urls} \cup {Urls}, Forget(us) PROVE HistSound' /\ Survives
  <2>1. HistSound'
    BY <1>5, ForgetKept
  <2>2. ASSUME NEW u \in DOMAIN hist, u \notin DOMAIN hist' PROVE us \in {{u}, Urls}
    <3>1. hist' = [w \in DOMAIN hist \ us |-> hist[w]]
      BY <1>5 DEF Forget
    <3>2. u \in us
      BY <2>2, <3>1
    <3> QED BY <3>2
  <2>3. Survives
    BY <1>5, <2>2 DEF Survives
  <2> QED BY <2>1, <2>3
<1> QED BY <1>2, <1>3, <1>4, <1>5 DEF ObservationStep

\* A query records at most Unsupported.
LEMMA QueryHist ==
    ASSUME Clock, HistSound, ProbeSound, NEW q \in Queries, QueryStep(q)
    PROVE  HistSound' /\ KeepsPinned
<1>1. UNCHANGED <<world, pins>>
  BY QueryFrame
<1>2. CASE QueryUnsupported(q)
  <2> DEFINE s == Status("Unsupported", now, None)
  <2>1. s \in Statuses(world.time)
    BY Bounds DEF Status, Statuses, Clock, Keys, States
  <2>2. query[q].url \in Urls /\ Record(query[q].url, s)
    BY <1>2, QueryIs DEF QueryUnsupported
  <2> HIDE DEF s
  <2> QED BY <1>1, <2>1, <2>2, RecordKept
<1>3. CASE hist' = hist
  BY <1>1, <1>3, HistStays
<1>4. QueryUnsupported(q) \/ hist' = hist
  BY DEF QueryStep, QueryBegin, QueryLook, QueryStart, QueryAnswered, QueryTimeout, QueryEnd
<1> QED BY <1>2, <1>3, <1>4

\* A probe records its own result.
LEMMA ProbeHist ==
    ASSUME Clock, HistSound, ProbeSound, NEW p \in Probes, ProbeStep(p)
    PROVE  HistSound' /\ KeepsPinned
<1>1. UNCHANGED <<world, pins>>
  BY ProbeFrame
<1>2. CASE ProbeRecord(p)
  <2>1. probe[p] \in ProbeStates(world.time) /\ Live(p)
    BY <1>2 DEF ProbeSound, ProbesTyped, ProbeRecord, Live
  <2>2. probe[p].url \in Urls /\ probe[p].status \in Statuses(world.time)
    BY <2>1 DEF ProbeSound, ProbesTyped, ProbeStates
  <2>3. Record(probe[p].url, probe[p].status)
    BY <1>2 DEF ProbeRecord
  <2> QED BY <1>1, <2>2, <2>3, RecordKept
<1>3. CASE hist' = hist
  BY <1>1, <1>3, HistStays
<1>4. ProbeRecord(p) \/ hist' = hist
  BY DEF ProbeStep, ProbeAcquire, ProbeResult, ProbeRemove
<1> QED BY <1>2, <1>3, <1>4

\* A stack pins, unpins and records the rounds of its tasks.
LEMMA StackHist ==
    ASSUME Clock, HistSound, StackSound, NEW s \in Stacks, StackStep(s)
    PROVE  HistSound' /\ KeepsPinned
<1>1. world' = world
  BY StackFrame
<1>2. CASE UnpinTask(s)
  <2>1. stack[s].unpin \in Urls /\ Unpin(stack[s].unpin)
    BY <1>2, StackIs DEF UnpinTask
  <2> QED BY <1>1, <2>1, UnpinKept
<1>3. ASSUME NEW u \in Urls, StartTask(s, u) PROVE HistSound' /\ KeepsPinned
  <2>1. Pin(u)
    BY <1>3 DEF StartTask
  <2> QED BY <1>1, <2>1, PinKept
<1>4. ASSUME NEW u \in Urls, NEW r \in world.outcomes, NEW k \in {None, KeyOf[u]}, KeepRecord(s, u, r, k)
      PROVE  HistSound' /\ KeepsPinned
  <2> DEFINE old == stack[s].tasks[u]
             x == Status(r, old.since, k)
  <2>1. u \in DOMAIN stack[s].tasks /\ old.since # Asleep /\ Record(u, x) /\ pins' = pins
    BY <1>4 DEF KeepRecord
  <2>2. old \in Tasks(world.time)
    BY <2>1, StackIs
  <2>3. old.since \in 0..world.time
    BY <2>1, <2>2 DEF Tasks
  <2>4. x \in Statuses(world.time)
    BY <2>3, Bounds DEF Status, Statuses, Keys
  <2> HIDE DEF x
  <2> QED BY <1>1, <2>1, <2>4, RecordKept
<1>5. CASE UNCHANGED <<hist, pins>>
  BY <1>1, <1>5, HistStays
<1>6. \/ UnpinTask(s) \/ \E u \in Urls : StartTask(s, u)
      \/ \E u \in Urls, r \in world.outcomes : \E k \in {None, KeyOf[u]} : KeepRecord(s, u, r, k)
      \/ UNCHANGED <<hist, pins>>
  BY DEF StackStep, StackStart, StackShutdown, StackCancel, StackUpdate, StopTask, KeepProbe
<1> QED BY <1>2, <1>3, <1>4, <1>5, <1>6

(***************************************************************************)
(* The invariant                                                           *)
(***************************************************************************)
\* The gateway starts with nothing known, nothing pinned and every stack down.
LEMMA InitUInv == Init => UInv
<1> SUFFICES ASSUME Init PROVE UInv
  OBVIOUS
<1>1. Clock /\ ObsTyped
  <2>1. world \in Worlds /\ now = 0 /\ crashes = 0 /\ obs = {}
    BY DEF Init
  <2>2. world.time \in Nat /\ world.crashes \in Nat
    BY <2>1, WorldAssumption
  <2> QED BY <2>1, <2>2 DEF Clock, ObsTyped
<1>2. HistSound
  <2>1. hist = [u \in {} |-> 0] /\ pins = [u \in Urls |-> 0]
    BY DEF Init
  <2> QED BY <2>1 DEF HistSound, HistTyped, PinFlagAgrees
<1>3. ProbeSound
  <2>1. /\ probe = [p \in Probes |-> IdleProbe] /\ query = [q \in Queries |-> IdleQuery]
        /\ inflight = [u \in {} |-> 0]
    BY DEF Init
  <2>2. IdleProbe \in ProbeStates(world.time) /\ IdleProbe.pc = "idle"
    BY <1>1, IdleProbeTyped DEF IdleProbe
  <2>3. IdleQuery \in QueryStates /\ IdleQuery.pc = "idle"
    BY DEF IdleQuery, QueryStates, Answer, NoStatus, Status, States
  <2>4. \A p \in Probes : ~ Live(p)
    BY <2>1, <2>2 DEF Live
  <2>5. DOMAIN inflight = {}
    BY <2>1
  <2> QED BY <2>1, <2>2, <2>3, <2>4, <2>5 DEF ProbeSound, ProbesTyped, SingleFlight
<1>4. StackSound
  <2>1. PICK keep \in [world.stacks -> SUBSET world.urls] :
          stack = [s \in Stacks |-> DownStack(IF s \in world.stacks THEN keep[s] ELSE {})]
    BY DEF Init
  <2>2. pins = [u \in Urls |-> 0]
    BY DEF Init
  <2>3. ASSUME NEW s \in Stacks
        PROVE  /\ stack[s] \in StackStates(world.time) /\ Walk(stack[s], world.cancels)
               /\ DOMAIN stack[s].tasks = {} /\ stack[s].unpin = None
    <3> DEFINE k == IF s \in world.stacks THEN keep[s] ELSE {}
    <3>1. k \in SUBSET Urls
      BY <1>1, Bounds
    <3>2. stack[s] = DownStack(k)
      BY <2>1
    <3> HIDE DEF k
    <3> QED BY <3>1, <3>2, DownStackIs
  <2>4. StacksTyped /\ WalksSound
    BY <2>1, <2>3 DEF StacksTyped, WalksSound
  <2>5. \A u \in Urls : OwnersIn(stack, u) = 0
    BY <2>3, DownOwnsNothing
  <2>6. PinsCounted
    BY <2>2, <2>5 DEF PinsCounted, Owners, OwnersIn
  <2> QED BY <2>2, <2>4, <2>6 DEF StackSound
<1>5. DiskSound
  <2>1. NoFile \in DiskFiles(world.time) /\ NoFile.kind = "absent"
    BY DEF NoFile, DiskFiles
  <2>2. flush = [pc |-> "sleep", entries |-> {}] /\ disk = [file |-> NoFile, tmp |-> NoFile]
    BY DEF Init
  <2> QED BY <2>1, <2>2 DEF DiskSound, DiskComplete
<1> QED BY <1>1, <1>2, <1>3, <1>4, <1>5, Parts

\* Every step of a stack keeps its walk and the count of the pins.
LEMMA StackStepKept ==
    ASSUME Clock, StackSound, NEW s \in Stacks, StackStep(s)
    PROVE  StackSound'
<1>1. CASE \/ StackStart(s) \/ StackShutdown(s)
           \/ \E keep \in SUBSET world.urls : StackUpdate(s, keep)
  BY <1>1, WalkBegins
<1>2. CASE StackCancel(s)
  BY <1>2, StackCancelKept, Bounds
<1>3. CASE UnpinTask(s)
  BY <1>3, UnpinTaskKept
<1>4. ASSUME NEW u \in Urls, StopTask(s, u) PROVE StackSound'
  BY <1>4, StopTaskKept
<1>5. ASSUME NEW u \in Urls, StartTask(s, u) PROVE StackSound'
  BY <1>5, StartTaskKept
<1>6. ASSUME NEW u \in Urls,
             \/ KeepProbe(s, u)
             \/ \E r \in world.outcomes : \E k \in {None, KeyOf[u]} : KeepRecord(s, u, r, k)
      PROVE  StackSound'
  BY <1>6, KeepTaskKept
<1> QED BY <1>1, <1>2, <1>3, <1>4, <1>5, <1>6 DEF StackStep

\* Every step keeps the invariant, and no pinned entry goes but by a crash or
\* an invalidation.
LEMMA NextUInv ==
    ASSUME UInv, [Next]_vars
    PROVE  UInv' /\ (Survives \/ crashes' # crashes)
<1>0. Clock /\ HistSound /\ ProbeSound /\ ObsTyped /\ StackSound /\ DiskSound /\ HistTyped
  BY Parts DEF HistSound
<1>a. KeepsPinned => Survives
  BY DEF KeepsPinned, Survives
<1>b. Clock' /\ HistSound' /\ ProbeSound' /\ ObsTyped' /\ StackSound' /\ DiskSound' => UInv'
  BY DEF UInv, HistSound, ProbeSound, StackSound
<1>1. CASE Tick
  <2>1. now < world.time /\ now' = now + 1
        /\ UNCHANGED <<world, hist, pins, inflight, probe, query, obs, stack, flush, disk, crashes>>
    BY <1>1 DEF Tick
  <2>2. Clock'
    BY <1>0, <2>1, Bounds DEF Clock
  <2> QED BY <1>0, <1>a, <1>b, <2>1, <2>2, HistStays, ProbesStay, ObsStays, StacksStay, DiskStays
<1>2. CASE Crash
  <2>1. crashes < world.crashes /\ crashes' = crashes + 1 /\ obs' = {} /\ UNCHANGED <<world, now>>
    BY <1>2 DEF Crash
  <2>2. Clock' /\ crashes' # crashes
    BY <1>0, <2>1, Bounds DEF Clock
  <2>3. ObsTyped'
    BY <2>1 DEF ObsTyped
  <2> QED BY <1>0, <1>2, <1>b, <2>2, <2>3, CrashHist, CrashProbes, CrashStacks, CrashDisk
<1>3. CASE ObservationStep
  <2>1. UNCHANGED <<world, now, pins, inflight, probe, query, stack, flush, disk, crashes>>
    BY <1>3, ObservationFrame
  <2>2. HistSound' /\ Survives /\ ObsTyped'
    BY <1>0, <1>3, ObservationHist, ObsStep
  <2> QED BY <1>0, <1>b, <2>1, <2>2, ClockStays, ProbesStay, StacksStay, DiskStays
<1>4. ASSUME NEW q \in Queries, QueryStep(q) PROVE UInv' /\ Survives
  <2>1. UNCHANGED <<world, now, pins, obs, stack, flush, disk, crashes>>
    BY <1>4, QueryFrame
  <2>2. HistSound' /\ KeepsPinned
    BY <1>0, <1>4, QueryHist
  <2>3. ProbeSound'
    BY <1>0, <1>4, QueryStepKept, QueryStartKept DEF QueryStep
  <2> QED BY <1>0, <1>a, <1>b, <2>1, <2>2, <2>3, ClockStays, ObsStays, StacksStay, DiskStays
<1>5. ASSUME NEW p \in Probes, ProbeStep(p) PROVE UInv' /\ Survives
  <2>1. UNCHANGED <<world, now, pins, query, obs, stack, flush, disk, crashes>>
    BY <1>5, ProbeFrame
  <2>2. HistSound' /\ KeepsPinned
    BY <1>0, <1>5, ProbeHist
  <2>3. ProbeSound'
    BY <1>0, <1>5, ProbeStepKept
  <2> QED BY <1>0, <1>a, <1>b, <2>1, <2>2, <2>3, ClockStays, ObsStays, StacksStay, DiskStays
<1>6. ASSUME NEW s \in Stacks, StackStep(s) PROVE UInv' /\ Survives
  <2>1. UNCHANGED <<world, now, inflight, probe, query, obs, flush, disk, crashes>>
    BY <1>6, StackFrame
  <2>2. HistSound' /\ KeepsPinned
    BY <1>0, <1>6, StackHist
  <2>3. StackSound'
    BY <1>0, <1>6, StackStepKept
  <2> QED BY <1>0, <1>a, <1>b, <2>1, <2>2, <2>3, ClockStays, ProbesStay, ObsStays, DiskStays
<1>7. CASE FlushStep
  <2>1. UNCHANGED <<world, now, hist, pins, inflight, probe, query, obs, stack, crashes>>
    BY <1>7, FlushFrame
  <2>2. DiskSound'
    BY <1>0, <1>7, DiskStep
  <2> QED BY <1>0, <1>a, <1>b, <2>1, <2>2, ClockStays, HistStays, ProbesStay, ObsStays, StacksStay
<1>8. CASE UNCHANGED vars
  <2>1. UNCHANGED <<world, now, hist, pins, inflight, probe, query, obs, stack, flush, disk, crashes>>
    BY <1>8 DEF vars
  <2> QED BY <1>0, <1>a, <1>b, <2>1, ClockStays, HistStays, ProbesStay, ObsStays, StacksStay, DiskStays
<1> QED BY <1>1, <1>2, <1>3, <1>4, <1>5, <1>6, <1>7, <1>8 DEF Next, FlushStep

\* The history, the probes, the pins, the stacks and the files are sound in
\* every reachable state.
THEOREM UrlHistoryInvariance == Spec => []UInv
<1>1. UInv /\ [Next]_vars => UInv'
  BY NextUInv
<1> QED BY InitUInv, <1>1, PTL DEF Spec

\* Concurrent queries of one URL share one probe, and in_flight_probes names
\* exactly the probes that have still to remove themselves
\* (start_and_await_probe, remove_in_flight), for any number of callers, of
\* probes and of permits.
THEOREM OneProbePerUrl == Spec => []SingleFlight
<1>1. UInv => SingleFlight
  BY DEF UInv
<1> QED BY UrlHistoryInvariance, <1>1, PTL

\* Pins, flags, keep-tunnel tasks and lists agree and the snapshot on disk is
\* whole, for any number of stacks that keep any URLs (pin_tunnel_url,
\* unpin_tunnel_url, apply_keep_tunnels, write_history_to_disk).
THEOREM PinsStaySound == Spec => []PinsSound
<1>1. UInv => PinsSound
  <2> SUFFICES ASSUME UInv PROVE PinsSound
    OBVIOUS
  <2>0. Clock /\ HistSound /\ ProbeSound /\ StackSound /\ DiskSound
    BY Parts
  <2>1. DOMAIN hist \subseteq Urls /\ \A u \in DOMAIN hist : hist[u] \in HistEntry
    BY <2>0 DEF HistSound, HistTyped, Entries, HistEntry, Keys
  <2>2. /\ DOMAIN inflight \subseteq Urls /\ \A u \in DOMAIN inflight : inflight[u] \in Probes
        /\ \A p \in Probes :
             /\ probe[p].pc \in {"idle", "queued", "running", "record", "remove", "done"}
             /\ probe[p].url \in Urls \cup {None}
        /\ \A q \in Queries :
             /\ query[q].pc \in {"idle", "look", "start", "wait", "done"}
             /\ query[q].probe \in Probes \cup {None}
    <3>1. ASSUME NEW p \in Probes
          PROVE  /\ probe[p].pc \in {"idle", "queued", "running", "record", "remove", "done"}
                 /\ probe[p].url \in Urls \cup {None}
      BY <2>0 DEF ProbeSound, ProbesTyped, ProbeStates
    <3>2. ASSUME NEW q \in Queries
          PROVE  /\ query[q].pc \in {"idle", "look", "start", "wait", "done"}
                 /\ query[q].probe \in Probes \cup {None}
      BY <2>0, QueryIs DEF QueryStates
    <3> QED BY <2>0, <3>1, <3>2 DEF ProbeSound, ProbesTyped
  <2>3. \A s \in Stacks : /\ stack[s].pc \in {"idle", "stop", "down", "start"}
                          /\ DOMAIN stack[s].tasks \cup stack[s].keep \subseteq Urls
    BY <2>0, StackIs DEF StackStates
  <2>4. TypeOK
    BY <2>0, <2>1, <2>2, <2>3 DEF TypeOK, Clock, StackSound
  <2>5. TasksMatchKeep
    BY <2>0 DEF TasksMatchKeep, StackSound, WalksSound, Walk
  <2> QED BY <2>0, <2>4, <2>5 DEF PinsSound, HistSound, StackSound, DiskSound
<1> QED BY UrlHistoryInvariance, <1>1, PTL

\* A pinned entry leaves the history with the process or by invalidation only
\* (evict_if_needed).
THEOREM PinnedEntriesSurvive == Spec => PinnedSurvives
<1> DEFINE A == \A u \in DOMAIN hist : hist[u].pinned /\ u \notin DOMAIN hist'
                  => crashes' # crashes \/ \E us \in {{u}, Urls} : Forget(us)
<1>1. UInv /\ [Next]_vars => [A]_vars
  <2> SUFFICES ASSUME UInv, [Next]_vars PROVE A
    OBVIOUS
  <2>1. Survives \/ crashes' # crashes
    BY NextUInv
  <2> QED BY <2>1 DEF Survives
<1> HIDE DEF A
<1>2. Spec => [][A]_vars
  BY UrlHistoryInvariance, <1>1, PTL DEF Spec
<1> QED BY <1>2 DEF PinnedSurvives, A

\* After every recorded status the history is within its limit, pinned
\* entries apart (record_status_observation, evict_if_needed).
THEOREM RecordsStayBounded == Spec => HistBounded
<1> DEFINE B == \A u \in Urls, s \in Outcomes \cup {"Unsupported"}, at \in 0..now :
                  \A k \in {None, KeyOf[u]} :
                    Limit > 0 /\ hist' # hist /\ pins' = pins /\ Record(u, Status(s, at, k))
                      => \/ Cardinality(DOMAIN hist') <= Limit
                         \/ \A w \in DOMAIN hist' : hist'[w].pinned
<1>1. UInv /\ [Next]_vars => [B]_vars
  <2> SUFFICES ASSUME UInv, NEW u \in Urls, NEW s \in Outcomes \cup {"Unsupported"}, NEW at \in 0..now,
                      NEW k \in {None, KeyOf[u]}, Limit > 0, Record(u, Status(s, at, k))
               PROVE  \/ Cardinality(DOMAIN hist') <= Limit
                      \/ \A w \in DOMAIN hist' : hist'[w].pinned
    OBVIOUS
  <2>0. PICK b \in BOOLEAN : b = (pins[u] > 0)
    <3>1. (pins[u] > 0) \in BOOLEAN
      OBVIOUS
    <3> QED BY <3>1
  <2> DEFINE x == Status(s, at, k)
             m == MergeIntoHistory(hist, u, x, b)
  <2>1. DOMAIN hist \subseteq Urls
    BY DEF UInv, HistTyped
  <2>2. hist' \in EvictIfNeeded(m)
    BY <2>0 DEF Record
  <2>3. DOMAIN m = DOMAIN hist \cup {u}
    BY DEF MergeIntoHistory, With
  <2>4. IsFiniteSet(DOMAIN m)
    BY <2>1, <2>3, UrlAssumption, FS_Subset
  <2> HIDE DEF m
  <2> QED BY <2>2, <2>4, EvictBounds
<1> HIDE DEF B
<1>2. Spec => [][B]_vars
  BY UrlHistoryInvariance, <1>1, PTL DEF Spec
<1> QED BY <1>2 DEF HistBounded, B

\* Eviction takes what it must and nothing that is pinned.
THEOREM EvictionStaysFair == Spec => EvictionFair
BY PinnedEntriesSurvive, RecordsStayBounded DEF EvictionFair
=============================================================================
